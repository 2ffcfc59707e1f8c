------------------------------- MODULE FileIO -------------------------------
(***************************************************************************)
(* The files of the library, std/src/file.c: a caller of xy_file_read_all, *)
(* a reader and a writer that use xy_file_open, read, write and close, in  *)
(* threads or programs of their own, on one file.                          *)
(*                                                                         *)
(* stdio is external and does what C promises: fwrite keeps bytes back     *)
(* until the stream is flushed or closed, fopen "w" empties the file.      *)
(***************************************************************************)
EXTENDS Integers, Sequences, SequencesExt

CONSTANTS
    Bytes,      \* what a byte of the file may be, but "nul" and "garbage"
    MaxSize,    \* bytes of the file
    Kinds,      \* what the name stands for: "regular", or "stream" for a pipe
    Failures    \* the calls of the C library that may fail, of "fopen", "malloc",
                \* "fread" and "flush"

VARIABLES
    kind,       \* of the file
    disk,       \* its bytes
    at,         \* where xy_file_read_all is
    size,       \* what ftell told it
    block,      \* what it allocated, byte by byte; "garbage" was never written
    overrun,    \* it wrote outside of the block
    handles,    \* streams that it has open
    result,     \* what it returned: "none", "null" or "block"
    shortened,  \* the file was emptied since it was measured
    failed,     \* its fread failed
    reader,     \* the reader's stream: its position, and whether the file was emptied
    got,        \* the bytes that xy_file_read gave
    writer,     \* the writer's stream: its mode, and the bytes that stdio keeps
    put,        \* what is in the file if all that xy_file_write counted is
    lost        \* the last flush of the writer failed

readAll == <<at, size, block, overrun, handles, result, shortened, failed>>
users == <<reader, got, writer, put, lost>>
vars == <<kind, disk, readAll, users>>

Fails(call) == call \in Failures
Unread == [open |-> FALSE, pos |-> 0, emptied |-> FALSE]
Closed == [mode |-> "closed", kept |-> <<>>]

Init ==
    /\ kind \in Kinds /\ disk \in SeqOf(Bytes, MaxSize)
    /\ at = "idle" /\ size = 0 /\ block = <<>> /\ overrun = FALSE /\ handles = 0
    /\ result = "none" /\ shortened = FALSE /\ failed = FALSE
    /\ reader = Unread /\ got = <<>> /\ writer = Closed /\ put = <<>> /\ lost = FALSE

-----------------------------------------------------------------------------
(* xy_file_read_all *)

Return(value) == at' = "returned" /\ result' = value

OpenAll ==
    /\ at = "idle"
    /\ \/ at' = "opened" /\ handles' = handles + 1 /\ UNCHANGED result
       \/ Fails("fopen") /\ Return("null") /\ UNCHANGED handles
    /\ UNCHANGED <<kind, disk, size, block, overrun, shortened, failed, users>>

\* fseek, ftell, fseek.  A pipe cannot be measured: ftell is -1, and nobody looks.
Measure ==
    /\ at = "opened" /\ at' = "measured"
    /\ size' = IF kind = "regular" THEN Len(disk) ELSE -1
    /\ shortened' = FALSE
    /\ UNCHANGED <<kind, disk, block, overrun, handles, result, failed, users>>

LeavesItOpen ==
    /\ at = "measured"
    /\ \/ /\ at' = "allocated" /\ block' = [i \in 1..(size + 1) |-> "garbage"]
          /\ UNCHANGED result
       \/ Fails("malloc") /\ Return("null") /\ UNCHANGED block
    /\ UNCHANGED <<kind, disk, size, overrun, handles, shortened, failed, users>>

Allocate ==
    /\ at = "measured"
    /\ \/ /\ at' = "allocated" /\ block' = [i \in 1..(size + 1) |-> "garbage"]
          /\ UNCHANGED <<result, handles>>
       \/ Fails("malloc") /\ Return("null") /\ handles' = handles - 1 /\ UNCHANGED block
    /\ UNCHANGED <<kind, disk, size, overrun, shortened, failed, users>>

\* fread of size bytes - of all there are when size is negative and becomes a
\* size_t - and the terminator, whatever fread returned; then fclose.
Least(a, b) == IF a < b THEN a ELSE b

EndsTooEarly ==
    /\ at = "allocated"
    /\ \E n \in {IF size < 0 THEN Len(disk) ELSE Least(size, Len(disk))} :
          /\ overrun' = (n > Len(block) \/ size + 1 \notin DOMAIN block)
          /\ block' = [i \in 1..Len(block) |->
                          IF i = size THEN "nul" ELSE IF i <= n THEN disk[i] ELSE block[i]]
    /\ handles' = handles - 1
    /\ Return("block")
    /\ UNCHANGED <<kind, disk, size, shortened, failed, users>>

Fill ==
    /\ at = "allocated"
    /\ \E n \in {IF size < 0 THEN Len(disk) ELSE Least(size, Len(disk))}
                    \cup (IF Fails("fread") THEN 0..Least(size, Len(disk)) ELSE {}) :
          /\ failed' = (size >= 0 /\ n < Least(size, Len(disk)))
          /\ overrun' = (n > Len(block) \/ size + 1 \notin DOMAIN block)
          /\ block' = [i \in 1..Len(block) |->
                          IF i = size + 1 THEN "nul" ELSE IF i <= n THEN disk[i] ELSE block[i]]
    /\ handles' = handles - 1
    /\ Return("block")
    /\ UNCHANGED <<kind, disk, size, shortened, users>>

-----------------------------------------------------------------------------
(* xy_file_open, xy_file_read, xy_file_write, xy_file_close on a regular file *)

OpenReader ==
    /\ ~reader.open /\ kind = "regular"
    /\ reader' = [Unread EXCEPT !.open = TRUE] /\ got' = <<>>
    /\ UNCHANGED <<kind, disk, readAll, writer, put, lost>>

\* At most n bytes from the position on; the number of them is returned.
Read(n) ==
    LET bytes == SubSeq(disk, reader.pos + 1, Least(reader.pos + n, Len(disk))) IN
    /\ reader.open
    /\ got' = got \o bytes
    /\ reader' = [reader EXCEPT !.pos = @ + Len(bytes)]
    /\ UNCHANGED <<kind, disk, readAll, writer, put, lost>>

CloseReader ==
    /\ reader.open /\ reader' = Unread /\ got' = <<>>
    /\ UNCHANGED <<kind, disk, readAll, writer, put, lost>>

OpenWriter(mode) ==
    /\ writer.mode = "closed" /\ kind = "regular"
    /\ writer' = [Closed EXCEPT !.mode = mode] /\ lost' = FALSE
    /\ disk' = IF mode = "w" THEN <<>> ELSE disk
    /\ put' = disk'
    /\ shortened' = (shortened \/ (mode = "w" /\ disk # <<>>))
    /\ reader' = [reader EXCEPT !.emptied = @ \/ mode = "w"]
    /\ UNCHANGED <<kind, at, size, block, overrun, handles, result, failed, got>>

\* The bytes are counted as written while stdio keeps them.
Write(byte) ==
    /\ writer.mode # "closed" /\ Len(put) < MaxSize
    /\ put' = Append(put, byte)
    /\ writer' = [writer EXCEPT !.kept = Append(@, byte)]
    /\ UNCHANGED <<kind, disk, readAll, reader, got, lost>>

\* stdio writes the kept bytes out when its buffer is full.
Flush ==
    /\ writer.kept # <<>>
    /\ disk' = disk \o writer.kept
    /\ writer' = [writer EXCEPT !.kept = <<>>]
    /\ UNCHANGED <<kind, readAll, reader, got, put, lost>>

\* xy_file_close returns nothing: it drops what fclose says of the last flush.
CloseWriter ==
    /\ writer.mode # "closed" /\ writer' = Closed
    /\ \/ disk' = disk \o writer.kept /\ UNCHANGED lost
       \/ Fails("flush") /\ writer.kept # <<>> /\ lost' = TRUE /\ UNCHANGED disk
    /\ UNCHANGED <<kind, readAll, reader, got, put>>

Finished == at = "returned" /\ ~reader.open /\ writer.mode = "closed" /\ UNCHANGED vars

Next == \/ OpenAll \/ Measure \/ Allocate \/ Fill
        \/ OpenReader \/ (\E n \in 1..MaxSize : Read(n)) \/ CloseReader
        \/ (\E mode \in {"w", "a"} : OpenWriter(mode)) \/ (\E byte \in Bytes : Write(byte))
        \/ Flush \/ CloseWriter \/ Finished

Spec == Init /\ [][Next]_vars

-----------------------------------------------------------------------------
TypeOK ==
    /\ kind \in Kinds /\ disk \in Seq(Bytes)
    /\ at \in {"idle", "opened", "measured", "allocated", "returned"}
    /\ size \in Int /\ block \in Seq(Bytes \cup {"nul", "garbage"}) /\ handles \in {0, 1}
    /\ {overrun, shortened, failed, lost} \subseteq BOOLEAN
    /\ result \in {"none", "null", "block"}
    /\ reader \in [open : BOOLEAN, pos : 0..MaxSize, emptied : BOOLEAN]
    /\ writer \in [mode : {"closed", "w", "a"}, kept : Seq(Bytes)]
    /\ got \in Seq(Bytes) /\ put \in Seq(Bytes)

(* Of a file that can be measured, xy_file_read_all writes into its block and   *)
(* nowhere else, however the file grows meanwhile (file.c:36-43).               *)
InBounds == kind = "regular" => ~overrun

(* The call that returns has closed what it opened, on every way out           *)
(* (file.c:29-44).                                                             *)
HandleReturned == at = "returned" => handles = 0

(* What it returns is the file as long as it was when it was measured, and the *)
(* terminator, unless a read fails or another user empties the file between     *)
(* measuring and reading: then what malloc left there is returned as the file  *)
(* (file.c:32-46).                                                             *)
WholeFile ==
    [][at' = "returned" /\ at = "allocated" /\ kind = "regular" /\ ~failed' /\ ~shortened
       => block' = SubSeq(disk, 1, size) \o <<"nul">>]_vars

(* Reading piece by piece gives the bytes of the file in order, none twice and *)
(* none left out, however the writer makes the file grow (file.c:16-19).       *)
PiecesInOrder == reader.open /\ ~reader.emptied => got = SubSeq(disk, 1, reader.pos)

(* What xy_file_write counted is in the file once it is closed, unless the     *)
(* flush failed that nobody is told of (file.c:10-14, 21-24).                  *)
WrittenIsKept ==
    [][CloseWriter /\ ~lost' => disk' = put]_vars

(* The block, the streams and the pieces, at every step of every call.          *)
FilesSound == TypeOK /\ InBounds /\ HandleReturned /\ PiecesInOrder

(* No byte is lost on its way out of a file or into it, but in the ways that    *)
(* the two properties name.                                                     *)
NothingLost == WholeFile /\ WrittenIsKept
=============================================================================
