------------------------------ MODULE FileTable ------------------------------
(***************************************************************************)
(* The table of open files (src/src/file/file.c): a fixed array of nodes   *)
(* whose free ones form a linked list with its head in g_next.  ms_fopen   *)
(* pops a node and ms_fclose pushes it back, each with a compare-exchange  *)
(* loop and without a lock or a tag on the head.                           *)
(***************************************************************************)
EXTENDS Naturals, FiniteSets, Links

CONSTANTS
  MaxFiles,   \* MS_MAX_FILES
  Threads,    \* the threads that use the file API
  Openers     \* those of them that ever call ms_fopen

ASSUME FileTableAssumption ==
  /\ MaxFiles \in Nat \ {0}
  /\ Openers \subseteq Threads

Nodes == 0 .. MaxFiles - 1
Null == MaxFiles   \* one past the last index

VARIABLES
  next,     \* next[n]: the link of node n
  head,     \* g_next
  pc,       \* per thread: where it is in ms_fopen or ms_fclose
  node,     \* per thread: its local variable "node"
  link,     \* per thread: "next" in ms_fopen, "prev" in release_file
  open      \* the files callers hold, which any thread may close

vars == <<next, head, pc, node, link, open>>

(* ms_file_initialize *)
Init ==
  /\ next = [n \in Nodes |-> n + 1]
  /\ head = 0
  /\ pc = [t \in Threads |-> "idle"]
  /\ node = [t \in Threads |-> Null]
  /\ link = [t \in Threads |-> Null]
  /\ open = {}

Goto(t, from, to) ==
  /\ pc[t] = from
  /\ pc' = [pc EXCEPT ![t] = to]

(* Mutant: a store where the compare-exchange was. *)
BlindExchange(t, new) ==
  /\ head' = new
  /\ node' = [node EXCEPT ![t] = Null]

(***************************************************************************)
(* A weak compare-exchange of g_next.  On failure the expected value is    *)
(* replaced by the current one, also when the failure is spurious.         *)
(***************************************************************************)
Exchange(t, new) ==
  /\ head = node[t]
  /\ head' = new
  /\ node' = [node EXCEPT ![t] = Null]

Reload(t) ==
  /\ node' = [node EXCEPT ![t] = head]
  /\ UNCHANGED head

-----------------------------------------------------------------------------
(* ms_fopen *)

Open(t) ==
  /\ t \in Openers
  /\ Goto(t, "idle", "test")
  /\ Reload(t)
  /\ UNCHANGED <<next, link, open>>

(* No node left: MS_RESULT_RESOURCE_LIMIT. *)
OpenLimit(t) ==
  /\ node[t] = Null
  /\ Goto(t, "test", "idle")
  /\ UNCHANGED <<next, head, node, link, open>>

(* next = node->next, of a node another thread may own by now. *)
OpenReadLink(t) ==
  /\ node[t] # Null
  /\ Goto(t, "test", "pop")
  /\ link' = [link EXCEPT ![t] = next[node[t]]]
  /\ UNCHANGED <<next, head, node, open>>

OpenPop(t) ==
  /\ Goto(t, "pop", "backend")
  /\ Exchange(t, link[t])
  /\ link' = [link EXCEPT ![t] = node[t]]
  /\ UNCHANGED <<next, open>>

(* Mutant: the loop tries again with the node it saw first. *)
StaleOpenRetry(t) ==
  /\ Goto(t, "pop", "test")
  /\ link' = [link EXCEPT ![t] = Null]
  /\ UNCHANGED <<next, head, node, open>>

OpenRetry(t) ==
  /\ Goto(t, "pop", "test")
  /\ Reload(t)
  /\ link' = [link EXCEPT ![t] = Null]
  /\ UNCHANGED <<next, open>>

(* ms_file_backend_open succeeded: the caller has the file. *)
OpenDone(t) ==
  /\ Goto(t, "backend", "idle")
  /\ open' = open \cup {link[t]}
  /\ link' = [link EXCEPT ![t] = Null]
  /\ UNCHANGED <<next, head, node>>

(* ms_file_backend_open failed: the node goes back to the list. *)
OpenFailed(t) ==
  /\ Goto(t, "backend", "link")
  /\ Reload(t)
  /\ UNCHANGED <<next, link, open>>

-----------------------------------------------------------------------------
(* ms_fclose, and release_file which a failed open calls too *)

Close(t, f) ==
  /\ f \in open
  /\ Goto(t, "idle", "link")
  /\ open' = open \ {f}
  /\ link' = [link EXCEPT ![t] = f]
  /\ Reload(t)
  /\ UNCHANGED next

CloseLink(t) ==
  /\ Goto(t, "link", "push")
  /\ next' = [next EXCEPT ![link[t]] = node[t]]
  /\ UNCHANGED <<head, node, link, open>>

ClosePush(t) ==
  /\ Goto(t, "push", "idle")
  /\ Exchange(t, link[t])
  /\ link' = [link EXCEPT ![t] = Null]
  /\ UNCHANGED <<next, open>>

(* Mutant: the link is set before the loop, not in it. *)
UnlinkedCloseRetry(t) ==
  /\ pc[t] = "push"
  /\ Reload(t)
  /\ UNCHANGED <<next, pc, link, open>>

CloseRetry(t) ==
  /\ Goto(t, "push", "link")
  /\ Reload(t)
  /\ UNCHANGED <<next, link, open>>

OpenStep(t) ==
  \/ OpenLimit(t)
  \/ OpenReadLink(t)
  \/ OpenPop(t)
  \/ OpenRetry(t)
  \/ OpenDone(t)
  \/ OpenFailed(t)

CloseStep(t) ==
  \/ CloseLink(t)
  \/ ClosePush(t)
  \/ CloseRetry(t)

Next ==
  \E t \in Threads :
    \/ Open(t)
    \/ \E f \in Nodes : Close(t, f)
    \/ OpenStep(t)
    \/ CloseStep(t)

(***************************************************************************)
(* A thread inside a call keeps running, and a weak compare-exchange that  *)
(* finds the expected value again and again does not always fail.          *)
(***************************************************************************)
Fairness ==
  \A t \in Threads :
    /\ WF_vars(OpenStep(t) \/ CloseStep(t))
    /\ SF_vars(OpenPop(t))
    /\ SF_vars(ClosePush(t))

Spec == Init /\ [][Next]_vars /\ Fairness

-----------------------------------------------------------------------------
TypeOK ==
  /\ next \in [Nodes -> Nodes \cup {Null}]
  /\ head \in Nodes \cup {Null}
  /\ pc \in [Threads -> {"idle", "test", "pop", "backend", "link", "push"}]
  /\ node \in [Threads -> Nodes \cup {Null}]
  /\ link \in [Threads -> Nodes \cup {Null}]
  /\ open \subseteq Nodes

(* The nodes on the free list. *)
FreeNodes == Reached(next, head, Null) \ {Null}

(* The node a thread took off the list or has not yet put back. *)
Owns(t, n) == pc[t] \in {"backend", "link", "push"} /\ link[t] = n

(***************************************************************************)
(* No file is handed out twice: a node is on the free list, or held by a   *)
(* caller, or owned by one thread inside ms_fopen or ms_fclose.            *)
(***************************************************************************)
Exclusive ==
  /\ open \cap FreeNodes = {}
  /\ \A t \in Threads, n \in Nodes :
       Owns(t, n) => /\ n \notin open \cup FreeNodes
                     /\ \A u \in Threads \ {t} : ~ Owns(u, n)

(***************************************************************************)
(* No node is lost: whatever the interleaving of releases, every node can  *)
(* be reached, is held by a caller or is on its way, and the list ends.    *)
(***************************************************************************)
NoLeak ==
  /\ IsList(next, head, Null)
  /\ \A n \in Nodes :
       n \in open \cup FreeNodes \/ \E t \in Threads : Owns(t, n)

(***************************************************************************)
(* ms_fopen returns: with a single opener its retry loop ends, since only  *)
(* finitely many files can be released while it runs.                      *)
(***************************************************************************)
OpenReturns ==
  \A t \in Openers : (pc[t] \in {"test", "pop"}) ~> (pc[t] \in {"idle", "backend"})
=============================================================================
