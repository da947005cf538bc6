-------------------------------- MODULE Stack --------------------------------
(***************************************************************************)
(* ms_stack (src/src/memory/stack.c): a reserved range from which threads  *)
(* allocate by raising top, without a lock.  Whoever gets beyond the       *)
(* committed part commits memory from where it saw that part end and then  *)
(* tries to raise committed_top.  ms_stack_clear takes both back to the    *)
(* base.  Addresses are offsets from the base.                             *)
(***************************************************************************)
EXTENDS Integers

CONSTANTS
  Threads,     \* the threads that allocate
  StackSize,   \* max_size
  PageSize,
  Threshold,   \* MS_HEAP_DEALLOC_THR
  Default,     \* MS_DEFAULT_ALIGNMENT
  Sizes,       \* what callers ask for
  Alignments,
  Quiet,       \* TRUE when callers never clear while one of them allocates
  MapsAfresh   \* TRUE when ms_commit replaces the pages it is given, as on POSIX

VARIABLES
  top,
  committedTop,   \* committed_top
  mapped,         \* the committed pages
  pc,
  from, end,      \* per thread: ptr and end_ptr
  seen,           \* per thread: committed_ptr
  clearing,       \* where the owner is in ms_stack_clear
  upTo,           \* its committed_top
  blocks,         \* the blocks callers hold
  wiped           \* history: those whose pages were replaced

callVars == <<pc, from, end, seen>>
clearVars == <<clearing, upTo>>
vars == <<top, committedTop, mapped, callVars, clearVars, blocks, wiped>>

Page(a) == a \div PageSize

(* The pages of the bytes from a up to b. *)
Touched(a, b) == {Page(x) : x \in a .. b - 1}

Block(a, b) == [at |-> a, end |-> b]

Idle == \A t \in Threads : pc[t] = "idle"

(* ms_stack_construct *)
Init ==
  /\ top = 0
  /\ committedTop = 0
  /\ mapped = {}
  /\ pc = [t \in Threads |-> "idle"]
  /\ from = [t \in Threads |-> 0]
  /\ end = [t \in Threads |-> 0]
  /\ seen = [t \in Threads |-> 0]
  /\ clearing = "idle"
  /\ upTo = 0
  /\ blocks = {}
  /\ wiped = {}

Goto(t, source, target) ==
  /\ pc[t] = source
  /\ pc' = [pc EXCEPT ![t] = target]

-----------------------------------------------------------------------------
(* ms_stack_malloc *)

(* The size with room for an alignment beyond the default one. *)
Padded(size, alignment) ==
  IF alignment <= Default THEN size ELSE size + alignment - 1

(* Mutant: top is loaded and stored, with room for others in between. *)
RacyReserve(t, total) ==
  \E a \in {top} \cup {from[u] : u \in {v \in Threads : pc[v] = "load"}} :
    /\ from' = [from EXCEPT ![t] = a]
    /\ end' = [end EXCEPT ![t] = a + total]
    /\ top' = a + total

(* fetch_add on top. *)
Reserve(t, total) ==
  /\ from' = [from EXCEPT ![t] = top]
  /\ end' = [end EXCEPT ![t] = top + total]
  /\ top' = top + total

(* Nobody asks for more than max_size in all: the code does not test it. *)
Malloc(t, size, alignment) ==
  /\ Goto(t, "idle", "load")
  /\ Quiet => clearing = "idle"
  /\ top + Padded(size, alignment) <= StackSize
  /\ Reserve(t, Padded(size, alignment))
  /\ UNCHANGED <<committedTop, mapped, seen, clearVars, blocks, wiped>>

(* Mutant: committed_top is raised first, the memory committed later. *)
EagerLoadCommitted(t) ==
  /\ Goto(t, "load", IF end[t] > committedTop THEN "commit" ELSE "return")
  /\ seen' = [seen EXCEPT ![t] = committedTop]
  /\ committedTop' = IF end[t] > committedTop THEN end[t] ELSE committedTop
  /\ UNCHANGED <<top, mapped, from, end, clearVars, blocks, wiped>>

LoadCommitted(t) ==
  /\ Goto(t, "load", IF end[t] > committedTop THEN "commit" ELSE "return")
  /\ seen' = [seen EXCEPT ![t] = committedTop]
  /\ UNCHANGED <<top, committedTop, mapped, from, end, clearVars, blocks, wiped>>

(* ms_commit takes the whole pages around its range. *)
Commit(t) ==
  LET pages == Touched(seen[t], end[t]) IN
    /\ Goto(t, "commit", "publish")
    /\ mapped' = mapped \cup pages
    /\ wiped' = IF MapsAfresh
                  THEN wiped \cup {b \in blocks : Touched(b.at, b.end) \cap pages # {}}
                  ELSE wiped
    /\ UNCHANGED <<top, committedTop, from, end, seen, clearVars, blocks>>

(* A strong compare-exchange; another thread may have been faster. *)
Publish(t) ==
  /\ Goto(t, "publish", "return")
  /\ committedTop' = IF committedTop = seen[t] THEN end[t] ELSE committedTop
  /\ UNCHANGED <<top, mapped, from, end, seen, clearVars, blocks, wiped>>

(* The locals of the call end with it. *)
Return(t) ==
  /\ Goto(t, "return", "idle")
  /\ blocks' = blocks \cup {Block(from[t], end[t])}
  /\ from' = [from EXCEPT ![t] = 0]
  /\ end' = [end EXCEPT ![t] = 0]
  /\ seen' = [seen EXCEPT ![t] = 0]
  /\ UNCHANGED <<top, committedTop, mapped, clearVars, wiped>>

-----------------------------------------------------------------------------
(* ms_stack_clear: nothing allocated before is used any more. *)

ClearTop ==
  /\ clearing = "idle"
  /\ Quiet => Idle
  /\ clearing' = "exchange"
  /\ top' = 0
  /\ blocks' = {}
  /\ wiped' = {}
  /\ UNCHANGED <<committedTop, mapped, callVars, upTo>>

ClearCommitted ==
  /\ clearing = "exchange"
  /\ clearing' = "decommit"
  /\ upTo' = committedTop
  /\ committedTop' = 0
  /\ UNCHANGED <<top, mapped, callVars, blocks, wiped>>

(* What lies beyond the threshold is decommitted. *)
Decommit ==
  /\ clearing = "decommit"
  /\ clearing' = "idle"
  /\ mapped' = mapped \ Touched(Threshold, upTo)
  /\ upTo' = 0
  /\ UNCHANGED <<top, committedTop, callVars, blocks, wiped>>

ThreadStep(t) ==
  \/ LoadCommitted(t)
  \/ Commit(t)
  \/ Publish(t)
  \/ Return(t)

Next ==
  \/ \E t \in Threads, size \in Sizes, alignment \in Alignments :
       Malloc(t, size, alignment)
  \/ \E t \in Threads : ThreadStep(t)
  \/ ClearTop
  \/ ClearCommitted
  \/ Decommit

Spec == Init /\ [][Next]_vars

-----------------------------------------------------------------------------
(* The types; committed_top never claims more than was ever asked for. *)
TypeOK ==
  /\ top \in 0 .. StackSize
  /\ committedTop \in 0 .. StackSize
  /\ mapped \subseteq Touched(0, StackSize)
  /\ pc \in [Threads -> {"idle", "load", "commit", "publish", "return"}]
  /\ from \in [Threads -> 0 .. StackSize]
  /\ end \in [Threads -> 0 .. StackSize]
  /\ seen \in [Threads -> 0 .. StackSize]
  /\ clearing \in {"idle", "exchange", "decommit"}
  /\ upTo \in 0 .. StackSize
  /\ blocks \subseteq [at : 0 .. StackSize, end : 0 .. StackSize]
  /\ wiped \subseteq blocks

(***************************************************************************)
(* Blocks handed out since the last clear do not overlap, whatever threads *)
(* allocate at the same time (ms_stack_malloc), and a second call never    *)
(* returns what a first one holds.                                         *)
(***************************************************************************)
Apart(b, c) == b.end <= c.at \/ c.end <= b.at

Disjoint == \A b, c \in blocks : b # c => Apart(b, c)

Fresh == \A t \in Threads : pc[t] = "return" =>
           \A b \in blocks : Apart(b, Block(from[t], end[t]))

Exclusive == Disjoint /\ Fresh

(***************************************************************************)
(* A block is committed when its caller gets it, whoever won the race to   *)
(* raise committed_top, and stays so: the losing exchange that the comment *)
(* in ms_stack_malloc calls tolerable is.                                  *)
(***************************************************************************)
Committed == \A b \in blocks : Touched(b.at, b.end) \subseteq mapped

(***************************************************************************)
(* What callers wrote into a block stays there: ms_commit commits memory   *)
(* and takes none away that is in use.                                     *)
(***************************************************************************)
DataKept == wiped = {}
=============================================================================
