SPECIFICATION Calling
CONSTANTS
    Half = 2
    Cells = 3
    Imports = {"core", "math", "string", "hashmap", "time", "memory", "io"}
    UserNames = {"xy_pow"}
    ArgTypes = {"i32", "i64", "double", "ptr", "none"}
    MaxArgs = 3
    PerMs = 2
    IntHalf = 4
    MaxTime = 3
    MaxWall = 3
    Bytes = {"x", "y"}
    MaxSize = 3
    Kinds = {"regular", "stream"}
    Failures = {"fopen", "malloc", "fread", "flush"}
    Threads = {t1, t2}
    Chars = {"7", "-", "x", "blank"}
    MaxInput = 5
    BufferSize = 3
INVARIANTS ResultsHold SignaturesAgree TimesHold FilesSound InputSound
PROPERTIES NothingLost Progress
