SPECIFICATION Spec
CONSTANTS
    Processes = {"p", "q"}
    Options = {"-o", "-O2", "--verify-ir", "--legacy-opt", "--emit-opt-ir", "--emit-llvm", "--check-syntax"}
    FileNames = {"a.xyp", "b.xyp", "bin/app", "output.o"}
    PathOf <- Appended
    InDirectory = {"bin/app"}
    Sources = {"a.xyp", "b.xyp"}
    Scenarios <- DriverScenarios
INVARIANTS RejectedLeavesNothing BrokenIsNoticed AnnouncedIsWritten ArgumentsUnderstood DeliveredIsOwn
PROPERTY EveryRunEnds
