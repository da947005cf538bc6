------------------------------- MODULE FileIO -------------------------------
(***************************************************************************)
(* Reading, writing and seeking in one open file (src/src/file/unix.c and  *)
(* win32.c), synchronously or not.  The system's file is its length; what  *)
(* callers are after is where in it each operation takes place.            *)
(***************************************************************************)
EXTENDS Integers

CONSTANTS
  MaxSize,   \* bound on the length of the file
  MaxCount,  \* bound on the bytes of an operation
  Word       \* one more than the largest Offset of an OVERLAPPED, 2^32

NoOperation == [state |-> "none", kind |-> "read", at |-> 0, count |-> 0]

VARIABLES
  platform,   \* "posix" or "windows"
  async,      \* MS_FMODE_ASYNC_BIT as the file's flags have it
  size,       \* the length of the file
  pointer,    \* the file pointer of the system
  offset,     \* aio_offset, or Offset and OffsetHigh
  op,         \* the asynchronous operation in progress or completed
  expected,   \* history: where the next operation should take place
  led         \* history: a Windows file did not begin at its front, or was
              \* read, written or sought from its end

vars == <<platform, async, size, pointer, offset, op, expected, led>>

Split(n) == [low |-> n % Word, high |-> n \div Word]
Joined(o) == o.low + Word * o.high

(* ms_backend_open of an existing file: flags are those asked for. *)
PosixOpened ==
  /\ platform = "posix"
  /\ async \in BOOLEAN
  /\ offset = Split(0)
  /\ led = FALSE

(***************************************************************************)
(* ms_file_backend_open sets flags and overlapped only when it fails, so   *)
(* that they are what an earlier use of the same node left, whatever is    *)
(* asked for now: nothing at all, or the flags of a failed attempt and, if *)
(* those were asynchronous, any offset.                                    *)
(***************************************************************************)
WindowsOpened ==
  /\ platform = "windows"
  /\ async \in BOOLEAN
  /\ offset \in {Split(n) : n \in 0 .. IF async THEN MaxSize ELSE 0}
  /\ led = (offset # Split(0))

Init ==
  /\ PosixOpened \/ WindowsOpened
  /\ size \in 0 .. MaxSize
  /\ pointer = 0
  /\ op = NoOperation
  /\ expected = 0

-----------------------------------------------------------------------------
(* Where a synchronous operation starts.  ReadFile and WriteFile are given *)
(* an OVERLAPPED in every case, and then use its offset, not the pointer.  *)
Start == IF platform = "posix" THEN pointer ELSE Joined(offset)

(* What the system may transfer: a read stops at the end, both may be short. *)
Transferred(kind, at, n) ==
  IF kind = "read" THEN {k \in 0 .. n : k = 0 \/ at + k <= size}
  ELSE {k \in 0 .. n : at + k <= MaxSize}

Grown(kind, end) == IF kind = "write" /\ end > size THEN end ELSE size

(* ms_fread and ms_fwrite of a file that is not asynchronous.  A Windows   *)
(* handle is taken to be of the kind its flags say.                        *)
Transfer(kind, n) ==
  /\ ~ async
  /\ \E k \in Transferred(kind, Start, n) :
       /\ expected + k <= MaxSize
       /\ pointer' = Start + k
       /\ size' = Grown(kind, Start + k)
       /\ expected' = expected + k
  /\ led' = (led \/ platform = "windows")
  /\ UNCHANGED <<platform, async, offset, op>>

(***************************************************************************)
(* ms_fread and ms_fwrite of one that is: the operation is submitted.      *)
(* setup_overlapped zeroes Pointer, which is Offset and OffsetHigh by      *)
(* another name, so that each operation starts at the front.               *)
(***************************************************************************)
Submit(kind, n) ==
  /\ async
  /\ op = NoOperation
  /\ offset' = IF platform = "posix" THEN offset ELSE Split(0)
  /\ op' = [state |-> "submitted", kind |-> kind, at |-> Joined(offset'), count |-> n]
  /\ led' = (led \/ platform = "windows")
  /\ UNCHANGED <<platform, async, size, pointer, expected>>

(* The system executes it. *)
Execute ==
  /\ op.state = "submitted"
  /\ \E k \in Transferred(op.kind, op.at, op.count) :
       /\ expected + k <= MaxSize
       /\ op' = [op EXCEPT !.count = k, !.state = "done"]
       /\ size' = Grown(op.kind, op.at + k)
       /\ expected' = expected + k
  /\ UNCHANGED <<platform, async, pointer, offset, led>>

(* ms_get_async_state: MS_RESULT_SCHEDULED or MS_RESULT_SUCCESS. *)
GetAsyncState ==
  /\ op # NoOperation
  /\ UNCHANGED vars

(* Mutant: the offset is left to the next seek. *)
Unmoved(o, k) == o

(* What ms_get_last_io_size does to the offset: only the POSIX one moves it. *)
Moved(o, k) == IF platform = "posix" THEN Split(Joined(o) + k) ELSE o

(* ms_get_last_io_size, called once an operation has completed, and once. *)
GetLastIoSize ==
  /\ op.state = "done"
  /\ offset' = Moved(offset, op.count)
  /\ op' = NoOperation
  /\ UNCHANGED <<platform, async, size, pointer, expected, led>>

-----------------------------------------------------------------------------
(* Where a seek leads by its documentation. *)
Target(mode, by) ==
  CASE mode = "origin" -> by
    [] mode = "end" -> size + by
    [] mode = "cur" -> expected + by

(* SetFilePointer and lseek: the same. *)
SeekSync(mode, by) ==
  /\ ~ async
  /\ pointer' = (CASE mode = "origin" -> by
                   [] mode = "end" -> size + by
                   [] mode = "cur" -> pointer + by)
  /\ pointer' \in 0 .. MaxSize
  /\ UNCHANGED <<offset, led>>

(* The Windows end is the length and the current offset, whatever pos is. *)
SeekAsync(mode, by) ==
  /\ async
  /\ op = NoOperation
  /\ offset' = Split(CASE mode = "origin" -> by
                       [] mode = "end" -> size + (IF platform = "posix" THEN by ELSE Joined(offset))
                       [] mode = "cur" -> Joined(offset) + by)
  /\ Joined(offset') \in 0 .. MaxSize
  /\ led' = (led \/ (platform = "windows" /\ mode = "end"))
  /\ UNCHANGED pointer

(* ms_seek and ms_fseek, to where the bound lets them lead. *)
Seek(mode, by) ==
  /\ Target(mode, by) \in 0 .. MaxSize
  /\ expected' = Target(mode, by)
  /\ SeekSync(mode, by) \/ SeekAsync(mode, by)
  /\ UNCHANGED <<platform, async, size, op>>

(* ms_get_position; for POSIX where the next operation will start. *)
Position == IF async THEN Joined(offset) ELSE pointer

Next ==
  \/ \E kind \in {"read", "write"}, n \in 1 .. MaxCount : Transfer(kind, n) \/ Submit(kind, n)
  \/ Execute
  \/ GetAsyncState
  \/ GetLastIoSize
  \/ \E mode \in {"origin", "end", "cur"}, by \in -MaxSize .. MaxSize : Seek(mode, by)

Spec == Init /\ [][Next]_vars

-----------------------------------------------------------------------------
TypeOK ==
  /\ platform \in {"posix", "windows"}
  /\ async \in BOOLEAN /\ led \in BOOLEAN
  /\ size \in 0 .. MaxSize
  /\ offset \in [low : 0 .. Word - 1, high : Nat]
  /\ op \in [state : {"none", "submitted", "done"}, kind : {"read", "write"},
             at : 0 .. MaxSize, count : 0 .. MaxCount]

(***************************************************************************)
(* Operations follow one another in the file: the next one starts where    *)
(* the last ended or where a seek of any mode led, whichever operations    *)
(* were short or are asynchronous (aio_offset is the callers' business on  *)
(* POSIX).  On Windows that is so of seeks alone, in a file that begins at *)
(* its front, up to the first transfer or the first seek from the end of   *)
(* an asynchronous file.                                                   *)
(***************************************************************************)
Continues ==
  (platform = "posix" \/ ~ led) /\ op = NoOperation => Position = expected
=============================================================================
