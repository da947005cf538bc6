--------------------------- MODULE FileTableProofs ---------------------------
(***************************************************************************)
(* For any number of files and of threads that close them, and one thread  *)
(* that opens: no file is handed out twice and no node is lost.  That      *)
(* there is one opener is what the compare-exchange of ms_fopen needs; run *)
(* file_aba shows what two can do.  And operations on one open file follow *)
(* one another.                                                            *)
(***************************************************************************)
EXTENDS Files, Integers, CommonLemmas

OneOpener == \A t, u \in Openers : t = u

(***************************************************************************)
(* What a thread inside a call may rely on.  The opener's candidate stays  *)
(* on the list, and keeps its link, because nobody else takes nodes off.   *)
(***************************************************************************)
InCall ==
  \A t \in Threads :
    /\ pc[t] \in {"test", "pop", "backend"} => t \in Openers
    /\ pc[t] \in {"backend", "link", "push"} => link[t] \in Nodes
    /\ pc[t] \in {"test", "pop"} /\ node[t] # Null => node[t] \in FreeNodes
    /\ pc[t] = "pop" => node[t] # Null /\ link[t] = next[node[t]]
    /\ pc[t] = "push" => next[link[t]] = node[t]

IInv == TypeOK /\ Exclusive /\ NoLeak /\ InCall

-----------------------------------------------------------------------------
LEMMA NullIsNoNode == Null \notin Nodes
  BY FileTableAssumption, SMT DEF Null, Nodes

LEMMA FreeAreNodes ==
  ASSUME TypeOK
  PROVE  FreeNodes \subseteq Nodes /\ (head # Null => head \in FreeNodes)
  <1>1. /\ head \in Reached(next, head, Null)
        /\ Reached(next, head, Null) \subseteq Nodes \cup {Null}
    BY ReachedStart DEF TypeOK
  <1>2. QED
    BY <1>1 DEF FreeNodes

(* ms_file_initialize: node n links to n + 1, and so every node is reached. *)
LEMMA InitialList ==
  ASSUME Init, TypeOK
  PROVE  IsList(next, head, Null) /\ FreeNodes = Nodes
  <1> DEFINE last == MaxFiles - 1
  <1>1. /\ last \in Nat /\ 0 <= last /\ 0 .. last = Nodes
        /\ \A n \in 0 .. last : next[n] = IF n = last THEN Null ELSE n + 1
    BY FileTableAssumption, SMT DEF Init, Nodes, Null
  <1>2. next \in [Nodes -> Nodes \cup {Null}] /\ head = 0
    BY DEF Init, TypeOK
  <1> HIDE DEF last
  <1>3. IsRun(next, 0, last, Null)
    BY <1>1, <1>2 DEF IsRun
  <1>4. /\ IsList(next, 0, Null)
        /\ Reached(next, 0, Null) = (0 .. last) \cup {Null}
    BY <1>2, <1>3, NullIsNoNode, ListOfRun
  <1>5. QED
    BY <1>1, <1>2, <1>4, NullIsNoNode DEF FreeNodes

LEMMA Initially == Init => IInv
  <1> SUFFICES ASSUME Init PROVE IInv
    OBVIOUS
  <1>1. MaxFiles \in Nat \ {0}
    BY FileTableAssumption
  <1>2. TypeOK
    <2>1. \A n \in Nodes : n + 1 \in Nodes \cup {Null}
      BY <1>1, SMT DEF Nodes, Null
    <2>2. 0 \in Nodes
      BY <1>1, SMT DEF Nodes
    <2>3. QED
      BY <2>1, <2>2 DEF Init, TypeOK
  <1>3. IsList(next, head, Null) /\ FreeNodes = Nodes
    BY <1>2, InitialList
  <1>4. Exclusive /\ NoLeak /\ InCall
    BY <1>3 DEF Init, Exclusive, NoLeak, InCall, Owns
  <1>5. QED
    BY <1>2, <1>4 DEF IInv

-----------------------------------------------------------------------------
LEMMA Typing ==
  ASSUME TypeOK, InCall, [Next]_vars
  PROVE  TypeOK'
  <1>1. ASSUME NEW t \in Threads, NEW f \in Nodes, Close(t, f) PROVE TypeOK'
    BY <1>1 DEF Close, Goto, Reload, TypeOK
  <1>2. ASSUME NEW t \in Threads, Open(t) PROVE TypeOK'
    BY <1>2 DEF Open, Goto, Reload, TypeOK
  <1>3. ASSUME NEW t \in Threads, OpenStep(t) PROVE TypeOK'
    <2>1. CASE OpenLimit(t)
      BY <2>1 DEF OpenLimit, Goto, TypeOK
    <2>2. CASE OpenReadLink(t)
      BY <2>2 DEF OpenReadLink, Goto, TypeOK
    <2>3. CASE OpenPop(t)
      BY <2>3 DEF OpenPop, Goto, Exchange, TypeOK
    <2>4. CASE OpenRetry(t)
      BY <2>4 DEF OpenRetry, Goto, Reload, TypeOK
    <2>5. CASE OpenDone(t)
      BY <2>5 DEF OpenDone, Goto, TypeOK, InCall
    <2>6. CASE OpenFailed(t)
      BY <2>6 DEF OpenFailed, Goto, Reload, TypeOK
    <2>7. QED
      BY <1>3, <2>1, <2>2, <2>3, <2>4, <2>5, <2>6 DEF OpenStep
  <1>4. ASSUME NEW t \in Threads, CloseStep(t) PROVE TypeOK'
    BY <1>4 DEF CloseStep, CloseLink, ClosePush, CloseRetry, Goto, Reload, Exchange, TypeOK
  <1>5. CASE UNCHANGED vars
    BY <1>5 DEF vars, TypeOK
  <1>6. QED
    BY <1>1, <1>2, <1>3, <1>4, <1>5 DEF Next

-----------------------------------------------------------------------------
(* Steps that leave the list alone. *)
LEMMA SameList ==
  ASSUME UNCHANGED <<next, head>>
  PROVE  FreeNodes' = FreeNodes /\ (IsList(next, head, Null) => IsList(next, head, Null)')
  BY DEF FreeNodes

(* ms_fopen but for its compare-exchange. *)
LEMMA OpenKeeps ==
  ASSUME IInv, TypeOK', NEW t \in Threads,
         \/ Open(t) \/ OpenLimit(t) \/ OpenReadLink(t) \/ OpenRetry(t)
         \/ OpenDone(t) \/ OpenFailed(t)
  PROVE  IInv'
  <1>1. TypeOK /\ Exclusive /\ NoLeak /\ InCall
    BY DEF IInv
  <1>2. UNCHANGED <<next, head>>
    BY DEF Open, OpenLimit, OpenReadLink, OpenRetry, OpenDone, OpenFailed, Reload
  <1>3. FreeNodes' = FreeNodes /\ IsList(next, head, Null)'
    BY <1>1, <1>2, SameList DEF NoLeak
  <1>4. head # Null => head \in FreeNodes
    BY <1>1, FreeAreNodes
  <1>5. CASE Open(t)
    <2>1. Exclusive' /\ NoLeak'
      BY <1>1, <1>3, <1>5 DEF Exclusive, NoLeak, Owns, Open, Goto, Reload, TypeOK
    <2>2. InCall'
      BY <1>1, <1>2, <1>3, <1>4, <1>5 DEF InCall, Open, Goto, Reload, TypeOK
    <2>3. QED
      BY <2>1, <2>2 DEF IInv
  <1>6. CASE OpenLimit(t)
    BY <1>1, <1>2, <1>3, <1>6 DEF IInv, Exclusive, NoLeak, InCall, Owns, OpenLimit, Goto, TypeOK
  <1>7. CASE OpenReadLink(t)
    <2>1. Exclusive' /\ NoLeak'
      BY <1>1, <1>3, <1>7 DEF Exclusive, NoLeak, Owns, OpenReadLink, Goto, TypeOK
    <2>2. InCall'
      BY <1>1, <1>2, <1>3, <1>7 DEF InCall, OpenReadLink, Goto, TypeOK
    <2>3. QED
      BY <2>1, <2>2 DEF IInv
  <1>8. CASE OpenRetry(t)
    <2>1. Exclusive' /\ NoLeak'
      BY <1>1, <1>3, <1>8 DEF Exclusive, NoLeak, Owns, OpenRetry, Goto, Reload, TypeOK
    <2>2. InCall'
      BY <1>1, <1>2, <1>3, <1>4, <1>8 DEF InCall, OpenRetry, Goto, Reload, TypeOK
    <2>3. QED
      BY <2>1, <2>2 DEF IInv
  <1>9. CASE OpenDone(t)
    <2>1. Exclusive' /\ NoLeak'
      BY <1>1, <1>3, <1>9 DEF Exclusive, NoLeak, InCall, Owns, OpenDone, Goto, TypeOK
    <2>2. InCall'
      BY <1>1, <1>2, <1>3, <1>9 DEF InCall, OpenDone, Goto, TypeOK
    <2>3. QED
      BY <2>1, <2>2 DEF IInv
  <1>10. CASE OpenFailed(t)
    <2>1. Exclusive' /\ NoLeak'
      BY <1>1, <1>3, <1>10 DEF Exclusive, NoLeak, Owns, OpenFailed, Goto, Reload, TypeOK
    <2>2. InCall'
      BY <1>1, <1>2, <1>3, <1>10 DEF InCall, OpenFailed, Goto, Reload, TypeOK
    <2>3. QED
      BY <2>1, <2>2 DEF IInv
  <1>11. QED
    BY <1>5, <1>6, <1>7, <1>8, <1>9, <1>10

(***************************************************************************)
(* The compare-exchange of ms_fopen finds the head it expects: what it     *)
(* stores is that node's link, although it read it earlier.                *)
(***************************************************************************)
LEMMA OpenPopKeeps ==
  ASSUME OneOpener, IInv, TypeOK', NEW t \in Threads, OpenPop(t)
  PROVE  IInv'
  <1>1. TypeOK /\ Exclusive /\ NoLeak /\ InCall
    BY DEF IInv
  <1>2. head \in Nodes /\ head = node[t] /\ link[t] = next[head] /\ t \in Openers
    BY <1>1 DEF InCall, OpenPop, Goto, Exchange, TypeOK
  <1>3. /\ next' = next /\ head' = next[head] /\ open' = open
        /\ pc' = [pc EXCEPT ![t] = "backend"]
        /\ link' = [link EXCEPT ![t] = head]
        /\ node' = [node EXCEPT ![t] = Null]
    BY <1>2 DEF OpenPop, Goto, Exchange
  <1>4. /\ IsList(next, next[head], Null)
        /\ Reached(next, next[head], Null) = Reached(next, head, Null) \ {head}
    BY <1>1, <1>2, NullIsNoNode, ListPop DEF NoLeak, TypeOK
  <1>5. /\ IsList(next, head, Null)'
        /\ FreeNodes' = FreeNodes \ {head}
        /\ head \in FreeNodes
    BY <1>1, <1>2, <1>3, <1>4, NullIsNoNode, FreeAreNodes DEF FreeNodes
  <1>6. Exclusive'
    BY <1>1, <1>2, <1>3, <1>5 DEF Exclusive, Owns, TypeOK
  <1>7. NoLeak'
    <2> SUFFICES ASSUME NEW n \in Nodes
                 PROVE  n \in (open \cup FreeNodes)' \/ \E u \in Threads : Owns(u, n)'
      BY <1>5 DEF NoLeak
    <2>1. CASE n = head
      BY <1>1, <1>3, <2>1 DEF Owns, TypeOK
    <2>2. CASE n # head /\ n \in open \cup FreeNodes
      BY <1>3, <1>5, <2>2
    <2>3. CASE \E u \in Threads : Owns(u, n)
      BY <1>1, <1>3, <2>3 DEF Owns, TypeOK, OpenPop, Goto
    <2>4. QED
      BY <1>1, <2>1, <2>2, <2>3 DEF NoLeak
  <1>8. InCall'
    <2> SUFFICES ASSUME NEW u \in Threads, u # t
                 PROVE  /\ pc[u] \notin {"test", "pop"}
                        /\ pc'[u] = pc[u] /\ node'[u] = node[u] /\ link'[u] = link[u]
      BY <1>1, <1>2, <1>3 DEF InCall, TypeOK
    <2>1. QED
      BY <1>1, <1>2, <1>3 DEF InCall, OneOpener, TypeOK
  <1>9. QED
    BY <1>6, <1>7, <1>8 DEF IInv

-----------------------------------------------------------------------------
(* ms_fclose begins, or its compare-exchange failed. *)
LEMMA CloseKeeps ==
  ASSUME IInv, TypeOK', NEW t \in Threads,
         CloseRetry(t) \/ \E f \in Nodes : Close(t, f)
  PROVE  IInv'
  <1>1. TypeOK /\ Exclusive /\ NoLeak /\ InCall
    BY DEF IInv
  <1>2. UNCHANGED <<next, head>>
    BY DEF CloseRetry, Close, Reload
  <1>3. FreeNodes' = FreeNodes /\ IsList(next, head, Null)'
    BY <1>1, <1>2, SameList DEF NoLeak
  <1>4. CASE CloseRetry(t)
    <2>1. Exclusive' /\ NoLeak'
      BY <1>1, <1>3, <1>4 DEF Exclusive, NoLeak, Owns, CloseRetry, Goto, Reload, TypeOK
    <2>2. InCall'
      BY <1>1, <1>2, <1>3, <1>4 DEF InCall, CloseRetry, Goto, Reload, TypeOK
    <2>3. QED
      BY <2>1, <2>2 DEF IInv
  <1>5. ASSUME NEW f \in Nodes, Close(t, f) PROVE IInv'
    <2>1. Exclusive'
      BY <1>1, <1>3, <1>5 DEF Exclusive, Owns, Close, Goto, Reload, TypeOK
    <2>2. NoLeak'
      <3>1. Owns(t, f)'
        BY <1>1, <1>5 DEF Owns, Close, Goto, TypeOK
      <3>2. \A u \in Threads, n \in Nodes : Owns(u, n) => Owns(u, n)'
        BY <1>1, <1>5 DEF Owns, Close, Goto, TypeOK
      <3>3. open' = open \ {f}
        BY <1>5 DEF Close
      <3>4. QED
        BY <1>1, <1>3, <3>1, <3>2, <3>3 DEF NoLeak
    <2>3. InCall'
      BY <1>1, <1>2, <1>3, <1>5 DEF InCall, Close, Goto, Reload, TypeOK
    <2>4. QED
      BY <2>1, <2>2, <2>3 DEF IInv
  <1>6. QED
    BY <1>4, <1>5

(* The link of a node that is being returned is nobody else's. *)
LEMMA CloseLinkKeeps ==
  ASSUME IInv, TypeOK', NEW t \in Threads, CloseLink(t)
  PROVE  IInv'
  <1> DEFINE n == link[t]
  <1>1. TypeOK /\ Exclusive /\ NoLeak /\ InCall
    BY DEF IInv
  <1>2. n \in Nodes /\ Owns(t, n) /\ n \notin FreeNodes
    BY <1>1 DEF InCall, Owns, Exclusive, CloseLink, Goto
  <1>3. /\ next' = [next EXCEPT ![n] = node[t]]
        /\ pc' = [pc EXCEPT ![t] = "push"] /\ pc[t] = "link"
        /\ UNCHANGED <<head, node, link, open>>
    BY DEF CloseLink, Goto
  <1> HIDE DEF n
  <1>4. \A m \in Nodes : m # n => next'[m] = next[m]
    BY <1>1, <1>2, <1>3 DEF TypeOK
  <1>5. FreeNodes' = FreeNodes /\ IsList(next, head, Null)'
    <2>1. next \in [Nodes -> Nodes \cup {Null}] /\ next' \in [Nodes -> Nodes \cup {Null}]
          /\ head \in Nodes \cup {Null} /\ IsList(next, head, Null)
      BY <1>1 DEF TypeOK, NoLeak
    <2>2. \A m \in Reached(next, head, Null) \cap Nodes : next'[m] = next[m]
      BY <1>2, <1>4, NullIsNoNode DEF FreeNodes
    <2>3. /\ IsList(next', head, Null)
          /\ Reached(next', head, Null) = Reached(next, head, Null)
      BY <2>1, <2>2, NullIsNoNode, ListSame
    <2>4. QED
      BY <1>3, <2>3 DEF FreeNodes
  <1>6. Exclusive' /\ NoLeak'
    BY <1>1, <1>3, <1>5 DEF Exclusive, NoLeak, Owns, TypeOK
  <1>7. InCall'
    <2> SUFFICES ASSUME NEW u \in Threads
                 PROVE  /\ pc'[u] \in {"test", "pop", "backend"} => u \in Openers
                        /\ pc'[u] \in {"backend", "link", "push"} => link[u] \in Nodes
                        /\ pc'[u] \in {"test", "pop"} /\ node[u] # Null => node[u] \in FreeNodes
                        /\ pc'[u] = "pop" => node[u] # Null /\ link[u] = next'[node[u]]
                        /\ pc'[u] = "push" => next'[link[u]] = node[u]
      BY <1>3, <1>5 DEF InCall
    <2>1. CASE u = t
      BY <1>1, <1>2, <1>3, <2>1 DEF InCall, TypeOK, n
    <2>2. CASE u # t
      <3>1. pc'[u] = pc[u]
        BY <1>1, <1>3, <2>2 DEF TypeOK
      <3>2. pc[u] = "pop" => node[u] \in FreeNodes /\ node[u] \in Nodes
        BY <1>1, FreeAreNodes DEF InCall
      <3>3. pc[u] = "push" => Owns(u, link[u]) /\ link[u] # n
        BY <1>1, <1>2, <2>2 DEF InCall, Exclusive, Owns
      <3>4. QED
        BY <1>1, <1>2, <1>4, <3>1, <3>2, <3>3 DEF InCall
    <2>3. QED
      BY <2>1, <2>2
  <1>8. QED
    BY <1>6, <1>7 DEF IInv

(* The compare-exchange of ms_fclose puts the node in front of the list. *)
LEMMA ClosePushKeeps ==
  ASSUME IInv, TypeOK', NEW t \in Threads, ClosePush(t)
  PROVE  IInv'
  <1> DEFINE n == link[t]
  <1>1. TypeOK /\ Exclusive /\ NoLeak /\ InCall
    BY DEF IInv
  <1>2. n \in Nodes /\ Owns(t, n) /\ n \notin FreeNodes /\ n \notin open /\ next[n] = head
    BY <1>1 DEF InCall, Owns, Exclusive, ClosePush, Goto, Exchange
  <1>3. /\ next' = next /\ head' = n /\ open' = open
        /\ pc' = [pc EXCEPT ![t] = "idle"]
        /\ link' = [link EXCEPT ![t] = Null]
        /\ node' = [node EXCEPT ![t] = Null]
    BY DEF ClosePush, Goto, Exchange
  <1> HIDE DEF n
  <1>4. /\ IsList(next, n, Null)
        /\ Reached(next, n, Null) = Reached(next, head, Null) \cup {n}
    <2>1. n \in Nodes \ Reached(next, head, Null)
      BY <1>2, NullIsNoNode DEF FreeNodes
    <2>2. QED
      BY <1>1, <1>2, <2>1, NullIsNoNode, ListPush DEF NoLeak, TypeOK
  <1>5. IsList(next, head, Null)' /\ FreeNodes' = FreeNodes \cup {n}
    BY <1>2, <1>3, <1>4, NullIsNoNode DEF FreeNodes
  <1>6. /\ \A u \in Threads : u # t => pc'[u] = pc[u] /\ link'[u] = link[u] /\ node'[u] = node[u]
        /\ pc'[t] = "idle"
    BY <1>1, <1>3 DEF TypeOK
  <1>7. \A u \in Threads, m \in Nodes : Owns(u, m)' <=> Owns(u, m) /\ m # n
    BY <1>1, <1>2, <1>6 DEF Owns, Exclusive, n
  <1>8. Exclusive' /\ NoLeak'
    BY <1>1, <1>2, <1>3, <1>5, <1>7 DEF Exclusive, NoLeak
  <1>9. InCall'
    BY <1>1, <1>3, <1>5, <1>6 DEF InCall
  <1>10. QED
    BY <1>8, <1>9 DEF IInv

-----------------------------------------------------------------------------
LEMMA NextKeeps ==
  ASSUME OneOpener, IInv, [Next]_vars
  PROVE  IInv'
  <1>1. TypeOK'
    BY Typing DEF IInv
  <1>2. CASE UNCHANGED vars
    <2>1. FreeNodes' = FreeNodes /\ (IsList(next, head, Null) => IsList(next, head, Null)')
      BY <1>2, SameList DEF vars
    <2>2. QED
      BY <1>1, <1>2, <2>1 DEF vars, IInv, Exclusive, NoLeak, InCall, Owns
  <1>3. CASE Next
    BY <1>1, <1>3, OpenKeeps, OpenPopKeeps, CloseKeeps, CloseLinkKeeps, ClosePushKeeps
    DEF Next, OpenStep, CloseStep
  <1>4. QED
    BY <1>2, <1>3

LEMMA Inductive == ASSUME OneOpener PROVE Spec => []IInv
  <1>1. Init => IInv
    BY Initially
  <1>2. IInv /\ [Next]_vars => IInv'
    BY NextKeeps
  <1>3. QED
    BY <1>1, <1>2, PTL DEF Spec

(***************************************************************************)
(* ms_fopen never returns a file that is open or being closed, and no two  *)
(* threads have the same node on its way, for any number of files and      *)
(* closing threads, as long as one thread opens.                           *)
(***************************************************************************)
THEOREM Separation == ASSUME OneOpener PROVE Spec => []Exclusive
  <1>1. IInv => Exclusive
    BY DEF IInv
  <1>2. QED
    BY <1>1, Inductive, PTL

(***************************************************************************)
(* Whatever the interleaving, all nodes are on the list, which ends, held  *)
(* by callers or on their way (ms_fopen, ms_fclose), with one opener.      *)
(***************************************************************************)
THEOREM Conservation == ASSUME OneOpener PROVE Spec => [](TypeOK /\ NoLeak)
  <1>1. IInv => TypeOK /\ NoLeak
    BY DEF IInv
  <1>2. QED
    BY <1>1, Inductive, PTL

-----------------------------------------------------------------------------
(* One open file.  Beside the types: an offset lies in the file's bound,   *)
(* an operation takes place at the offset, and what it transferred is what *)
(* the offset is behind by.                                                *)
Behind == IF op.state = "done" THEN op.count ELSE 0

IOInv ==
  /\ IO!TypeOK
  /\ expected \in 0 .. MaxSize /\ pointer \in Int
  /\ IO!Joined(offset) \in 0 .. MaxSize
  /\ op.state = "none" => op = IO!NoOperation
  /\ ~ async => op = IO!NoOperation
  /\ op.state # "none" => op.at = IO!Joined(offset)
  /\ platform = "windows" /\ op.state # "none" => led
  /\ platform = "posix" \/ ~ led =>
       expected = IF async THEN IO!Joined(offset) + Behind ELSE pointer

LEMMA FileSizes == MaxSize \in Nat /\ MaxCount \in Nat /\ Word \in Nat \ {0}
  BY FilesAssumption

(* An OVERLAPPED's halves put together give the offset again. *)
LEMMA SplitJoined ==
  ASSUME NEW n \in Int
  PROVE  /\ IO!Joined(IO!Split(n)) = n
         /\ n >= 0 => IO!Split(n) \in [low : 0 .. Word - 1, high : Nat]
  <1> DEFINE q == n \div Word
             r == n % Word
  <1>1. q \in Int /\ r \in 0 .. Word - 1 /\ n = Word * q + r
    BY FileSizes, DivMod
  <1>2. IO!Split(n) = [low |-> r, high |-> q]
    BY DEF IO!Split
  <1> HIDE DEF q, r
  <1>3. n >= 0 => q \in Nat
    <2> SUFFICES ASSUME n >= 0 PROVE q \in Nat
      OBVIOUS
    <2>1. ASSUME q < 0 PROVE FALSE
      <3>1. q <= -1
        BY <1>1, <2>1
      <3>2. Word * q <= Word * (-1)
        BY <1>1, <3>1, FileSizes
      <3>3. Word * q \in Int /\ Word * (-1) = - Word
        BY <1>1, FileSizes
      <3>4. QED
        BY <1>1, <3>2, <3>3, FileSizes
    <2>2. QED
      BY <1>1, <2>1
  <1>4. IO!Joined(IO!Split(n)) = r + Word * q
    BY <1>2 DEF IO!Joined
  <1>5. r + Word * q = n
    BY <1>1, FileSizes
  <1>6. n >= 0 => IO!Split(n) \in [low : 0 .. Word - 1, high : Nat]
    BY <1>1, <1>2, <1>3
  <1>7. QED
    BY <1>4, <1>5, <1>6

LEMMA IOInitially == IO!Init => IOInv
  <1> SUFFICES ASSUME IO!Init PROVE IOInv
    OBVIOUS
  <1>1. 0 \in 0 .. MaxSize /\ 0 \in 0 .. MaxCount
    BY FileSizes
  <1>2. op = IO!NoOperation /\ op.state = "none" /\ expected = 0 /\ pointer = 0
    BY DEF IO!Init, IO!NoOperation
  <1>3. IO!NoOperation \in [state : {"none", "submitted", "done"}, kind : {"read", "write"},
                            at : 0 .. MaxSize, count : 0 .. MaxCount]
    BY <1>1 DEF IO!NoOperation
  <1>4. IO!Split(0) \in [low : 0 .. Word - 1, high : Nat] /\ IO!Joined(IO!Split(0)) = 0
    BY SplitJoined
  <1>5. CASE IO!PosixOpened
    <2>1. platform = "posix" /\ IO!Joined(offset) = 0 /\ Behind = 0
      BY <1>2, <1>4, <1>5 DEF IO!PosixOpened, Behind
    <2>2. IO!TypeOK
      BY <1>2, <1>3, <1>4, <1>5 DEF IO!PosixOpened, IO!Init, IO!TypeOK
    <2>3. QED
      BY <1>1, <1>2, <2>1, <2>2 DEF IOInv
  <1>6. CASE IO!WindowsOpened
    <2>1. PICK n \in 0 .. IF async THEN MaxSize ELSE 0 : offset = IO!Split(n)
      BY <1>6 DEF IO!WindowsOpened
    <2>2. n \in 0 .. MaxSize /\ n \in Nat
      BY <2>1, FileSizes
    <2>3. offset \in [low : 0 .. Word - 1, high : Nat] /\ IO!Joined(offset) = n
      BY <2>1, <2>2, SplitJoined
    <2>4. ~ led => IO!Joined(offset) = 0
      BY <1>4, <1>6 DEF IO!WindowsOpened
    <2>5. IO!TypeOK
      BY <1>2, <1>3, <1>6, <2>3 DEF IO!WindowsOpened, IO!Init, IO!TypeOK
    <2>6. QED
      BY <1>1, <1>2, <1>6, <2>2, <2>3, <2>4, <2>5 DEF IO!WindowsOpened, IOInv, Behind
  <1>7. QED
    BY <1>5, <1>6 DEF IO!Init

(* What is transferred leaves the file within its bound. *)
LEMMA GrownWithin ==
  ASSUME IOInv, NEW kind \in {"read", "write"}, NEW at \in Int, NEW n \in Nat,
         NEW k \in IO!Transferred(kind, at, n)
  PROVE  k \in 0 .. n /\ IO!Grown(kind, at + k) \in 0 .. MaxSize
  BY FileSizes DEF IOInv, IO!TypeOK, IO!Transferred, IO!Grown

(* ms_fread and ms_fwrite. *)
LEMMA TransferKeeps ==
  ASSUME IOInv, NEW kind \in {"read", "write"}, NEW n \in 1 .. MaxCount,
         IO!Transfer(kind, n)
  PROVE  IOInv'
  <1>1. IO!Start \in Int /\ n \in Nat
    BY FileSizes DEF IOInv, IO!Start
  <1>2. PICK k \in IO!Transferred(kind, IO!Start, n) :
          /\ expected + k <= MaxSize
          /\ pointer' = IO!Start + k
          /\ size' = IO!Grown(kind, IO!Start + k)
          /\ expected' = expected + k
    BY DEF IO!Transfer
  <1>3. k \in 0 .. n /\ size' \in 0 .. MaxSize
    BY <1>1, <1>2, GrownWithin
  <1>4. k \in Nat /\ pointer' \in Int /\ expected' \in 0 .. MaxSize
    BY <1>1, <1>2, <1>3, FileSizes DEF IOInv
  <1>5. ~ async /\ led' = (led \/ platform = "windows")
        /\ UNCHANGED <<platform, async, offset, op>>
    BY DEF IO!Transfer
  <1>6. IO!TypeOK'
    BY <1>3, <1>5 DEF IOInv, IO!TypeOK
  <1>7. platform = "posix" => expected' = pointer'
    BY <1>2, <1>5 DEF IOInv, IO!Start
  <1>8. platform' = "posix" \/ ~ led' => platform = "posix"
    BY <1>5 DEF IOInv, IO!TypeOK
  <1>9. QED
    BY <1>4, <1>5, <1>6, <1>7, <1>8 DEF IOInv, IO!Joined

LEMMA SubmitKeeps ==
  ASSUME IOInv, NEW kind \in {"read", "write"}, NEW n \in 1 .. MaxCount,
         IO!Submit(kind, n)
  PROVE  IOInv'
  <1>1. async /\ op = IO!NoOperation /\ op.state = "none"
    BY DEF IO!Submit, IO!NoOperation
  <1>2. IO!Split(0) \in [low : 0 .. Word - 1, high : Nat] /\ IO!Joined(IO!Split(0)) = 0
    BY SplitJoined
  <1>3. /\ offset' \in [low : 0 .. Word - 1, high : Nat]
        /\ IO!Joined(offset)' \in 0 .. MaxSize
        /\ platform = "posix" => offset' = offset
    BY <1>2, FileSizes DEF IO!Submit, IOInv, IO!TypeOK, IO!Joined
  <1>4. /\ op' = [state |-> "submitted", kind |-> kind, at |-> IO!Joined(offset)', count |-> n]
        /\ led' = (led \/ platform = "windows")
        /\ UNCHANGED <<platform, async, size, pointer, expected>>
    BY DEF IO!Submit, IO!Joined
  <1>5. n \in 0 .. MaxCount
    BY FileSizes
  <1>6. IO!TypeOK'
    BY <1>3, <1>4, <1>5 DEF IOInv, IO!TypeOK
  <1>7. Behind = 0 /\ Behind' = 0
    BY <1>1, <1>4 DEF Behind
  <1>8. platform = "posix" => expected' = IO!Joined(offset)' + Behind'
    BY <1>1, <1>3, <1>4, <1>7 DEF IOInv, IO!Joined
  <1>9. platform' = "posix" \/ ~ led' => platform = "posix"
    BY <1>4 DEF IOInv, IO!TypeOK
  <1>10. QED
    BY <1>1, <1>3, <1>4, <1>6, <1>8, <1>9 DEF IOInv, IO!TypeOK

(* The system executes the operation, and its size is asked for. *)
LEMMA ExecuteKeeps == IOInv /\ IO!Execute => IOInv'
  <1> SUFFICES ASSUME IOInv, IO!Execute PROVE IOInv'
    OBVIOUS
  <1>1. op.at \in Int /\ op.count \in Nat /\ op.kind \in {"read", "write"}
        /\ op.state = "submitted" /\ op.at = IO!Joined(offset)
    BY FileSizes DEF IOInv, IO!TypeOK, IO!Execute
  <1>2. PICK k \in IO!Transferred(op.kind, op.at, op.count) :
          /\ expected + k <= MaxSize
          /\ op' = [op EXCEPT !.count = k, !.state = "done"]
          /\ size' = IO!Grown(op.kind, op.at + k)
          /\ expected' = expected + k
    BY DEF IO!Execute
  <1>3. k \in 0 .. op.count /\ size' \in 0 .. MaxSize
    BY <1>1, <1>2, GrownWithin
  <1>4. k \in 0 .. MaxCount /\ expected' \in 0 .. MaxSize
    BY <1>2, <1>3, FileSizes DEF IOInv, IO!TypeOK
  <1>5. UNCHANGED <<platform, async, pointer, offset, led>>
    BY DEF IO!Execute
  <1>6. op'.state = "done" /\ op'.at = op.at /\ op'.count = k
    BY <1>2 DEF IOInv, IO!TypeOK
  <1>7. IO!TypeOK'
    BY <1>2, <1>3, <1>4, <1>5 DEF IOInv, IO!TypeOK
  <1>8. async
    BY <1>1 DEF IOInv, IO!NoOperation
  <1>9. IO!Joined(offset)' = IO!Joined(offset) /\ IO!Joined(offset) \in Int
        /\ Behind = 0 /\ Behind' = k
    BY <1>1, <1>5, <1>6 DEF Behind, IO!Joined, IOInv
  <1>10. platform = "posix" \/ ~ led => expected' = IO!Joined(offset) + k
    BY <1>2, <1>3, <1>8, <1>9 DEF IOInv
  <1>11. QED
    BY <1>1, <1>4, <1>5, <1>6, <1>7, <1>8, <1>9, <1>10 DEF IOInv

LEMMA GetLastIoSizeKeeps == IOInv /\ IO!GetLastIoSize => IOInv'
  <1> SUFFICES ASSUME IOInv, IO!GetLastIoSize PROVE IOInv'
    OBVIOUS
  <1>1. /\ op.state = "done" /\ op' = IO!NoOperation /\ op'.state = "none"
        /\ offset' = IO!Moved(offset, op.count)
        /\ UNCHANGED <<platform, async, size, pointer, expected, led>>
    BY DEF IO!GetLastIoSize, IO!NoOperation
  <1>2. async /\ Behind = op.count /\ Behind' = 0 /\ op.count \in Nat
    BY <1>1, FileSizes DEF IOInv, IO!NoOperation, Behind, IO!TypeOK
  <1>3. IO!NoOperation \in [state : {"none", "submitted", "done"}, kind : {"read", "write"},
                            at : 0 .. MaxSize, count : 0 .. MaxCount]
    BY FileSizes DEF IO!NoOperation
  <1>4. CASE platform = "posix"
    <2>1. expected = IO!Joined(offset) + op.count /\ expected \in Nat
      BY <1>2, <1>4, FileSizes DEF IOInv
    <2>2. offset' = IO!Split(expected)
      BY <1>1, <1>4, <2>1 DEF IO!Moved
    <2>3. offset' \in [low : 0 .. Word - 1, high : Nat] /\ IO!Joined(offset') = expected
      BY <2>1, <2>2, SplitJoined
    <2>4. IO!TypeOK'
      BY <1>1, <1>3, <2>3 DEF IOInv, IO!TypeOK
    <2>5. IO!Joined(offset)' = expected
      BY <2>3 DEF IO!Joined
    <2>6. QED
      BY <1>1, <1>2, <1>4, <2>4, <2>5 DEF IOInv
  <1>5. CASE platform = "windows"
    <2>1. led /\ offset' = offset
      BY <1>1, <1>5 DEF IOInv, IO!Moved
    <2>2. IO!TypeOK'
      BY <1>1, <1>3, <2>1 DEF IOInv, IO!TypeOK
    <2>3. IO!Joined(offset)' = IO!Joined(offset)
      BY <2>1 DEF IO!Joined
    <2>4. QED
      BY <1>1, <1>2, <1>5, <2>1, <2>2, <2>3 DEF IOInv
  <1>6. QED
    BY <1>4, <1>5 DEF IOInv, IO!TypeOK

(* ms_fseek, of either kind of file. *)
LEMMA SeekKeeps ==
  ASSUME IOInv, NEW mode \in {"origin", "end", "cur"}, NEW by \in -MaxSize .. MaxSize,
         IO!Seek(mode, by)
  PROVE  IOInv'
  <1>1. /\ IO!Target(mode, by) \in 0 .. MaxSize
        /\ expected' = IO!Target(mode, by)
        /\ UNCHANGED <<platform, async, size, op>>
    BY DEF IO!Seek
  <1>2. by \in Int /\ size \in Int /\ expected \in Int /\ pointer \in Int
        /\ IO!Joined(offset) \in Int
    BY FileSizes DEF IOInv, IO!TypeOK
  <1>3. CASE IO!SeekSync(mode, by)
    <2>1. ~ async /\ pointer' \in 0 .. MaxSize /\ UNCHANGED <<offset, led>>
      BY <1>3 DEF IO!SeekSync
    <2>2. IO!TypeOK' /\ IO!Joined(offset)' = IO!Joined(offset)
      BY <1>1, <2>1 DEF IOInv, IO!TypeOK, IO!Joined
    <2>3. platform = "posix" \/ ~ led => expected' = pointer'
      <3>1. CASE mode = "origin"
        BY <1>1, <1>3, <3>1 DEF IO!SeekSync, IO!Target
      <3>2. CASE mode = "end"
        BY <1>1, <1>3, <3>2 DEF IO!SeekSync, IO!Target
      <3>3. CASE mode = "cur"
        BY <1>1, <1>3, <2>1, <3>3 DEF IO!SeekSync, IO!Target, IOInv
      <3>4. QED
        BY <3>1, <3>2, <3>3
    <2>4. pointer' \in Int /\ Behind' = Behind
      BY <1>1, <2>1, FileSizes DEF Behind
    <2>5. QED
      BY <1>1, <2>1, <2>2, <2>3, <2>4 DEF IOInv
  <1>4. CASE IO!SeekAsync(mode, by)
    <2> DEFINE to == CASE mode = "origin" -> by
                       [] mode = "end" ->
                            size + (IF platform = "posix" THEN by ELSE IO!Joined(offset))
                       [] mode = "cur" -> IO!Joined(offset) + by
    <2>1. /\ async /\ op = IO!NoOperation /\ op.state = "none"
          /\ offset' = IO!Split(to)
          /\ IO!Joined(offset)' \in 0 .. MaxSize
          /\ led' = (led \/ (platform = "windows" /\ mode = "end"))
          /\ UNCHANGED pointer
      BY <1>4 DEF IO!SeekAsync, IO!NoOperation, IO!Joined
    <2>2. to \in Int
      BY <1>2
    <2>3. ASSUME platform = "posix" \/ ~ led' PROVE expected' = to
      <3>1. CASE mode = "origin"
        BY <1>1, <3>1 DEF IO!Target
      <3>2. CASE mode = "end"
        <4>1. platform = "posix"
          BY <2>1, <2>3, <3>2 DEF IOInv, IO!TypeOK
        <4>2. QED
          BY <1>1, <3>2, <4>1 DEF IO!Target
      <3>3. CASE mode = "cur"
        <4>1. expected = IO!Joined(offset)
          <5>1. Behind = 0 /\ (platform = "posix" \/ ~ led)
            BY <2>1, <2>3, <3>3 DEF Behind
          <5>2. expected = IO!Joined(offset) + Behind
            BY <2>1, <5>1 DEF IOInv
          <5>3. QED
            BY <1>2, <5>1, <5>2
        <4>2. QED
          BY <1>1, <3>3, <4>1 DEF IO!Target
      <3>4. QED
        BY <3>1, <3>2, <3>3
    <2> HIDE DEF to
    <2>4. offset' \in [low : 0 .. Word - 1, high : Nat] /\ IO!Joined(offset)' = to
      <3>1. IO!Joined(offset)' = to
        BY <2>1, <2>2, SplitJoined DEF IO!Joined
      <3>2. to >= 0
        BY <2>1, <2>2, <3>1, FileSizes
      <3>3. QED
        BY <2>1, <2>2, <3>1, <3>2, SplitJoined
    <2>5. IO!TypeOK'
      BY <1>1, <2>1, <2>4 DEF IOInv, IO!TypeOK
    <2>6. Behind' = 0
      BY <1>1, <2>1 DEF Behind
    <2>7. expected' \in 0 .. MaxSize /\ pointer' \in Int /\ op' = IO!NoOperation
      BY <1>1, <1>2, <2>1
    <2>8. platform' = "posix" \/ ~ led' => expected' = IO!Joined(offset)' + Behind'
      BY <1>1, <2>2, <2>3, <2>4, <2>6
    <2>9. QED
      BY <1>1, <2>1, <2>5, <2>7, <2>8 DEF IOInv
  <1>5. QED
    BY <1>3, <1>4 DEF IO!Seek

LEMMA IOStepKeeps == IOInv /\ [IO!Next]_IO!vars => IOInv'
  <1> SUFFICES ASSUME IOInv, [IO!Next]_IO!vars PROVE IOInv'
    OBVIOUS
  <1>1. ASSUME NEW kind \in {"read", "write"}, NEW n \in 1 .. MaxCount,
               IO!Transfer(kind, n) \/ IO!Submit(kind, n)
        PROVE  IOInv'
    BY <1>1, TransferKeeps, SubmitKeeps
  <1>2. CASE IO!GetAsyncState \/ UNCHANGED IO!vars
    <2>1. UNCHANGED <<platform, async, size, pointer, offset, op, expected, led>>
      BY <1>2 DEF IO!GetAsyncState, IO!vars
    <2>2. QED
      BY <2>1 DEF IOInv, IO!TypeOK, IO!Joined, Behind
  <1>3. ASSUME NEW mode \in {"origin", "end", "cur"}, NEW by \in -MaxSize .. MaxSize,
               IO!Seek(mode, by)
        PROVE  IOInv'
    BY <1>3, SeekKeeps
  <1>4. QED
    BY <1>1, <1>2, <1>3, ExecuteKeeps, GetLastIoSizeKeeps DEF IO!Next

(***************************************************************************)
(* For files of any length and operations of any size, short ones too: the *)
(* next operation on a file starts where the last one ended or a seek led  *)
(* (ms_fread, ms_fwrite, ms_fseek and ms_get_last_io_size), on Windows up  *)
(* to the first transfer.                                                  *)
(***************************************************************************)
THEOREM Continuation == IO!Spec => []Continues
  <1>1. IOInv => Continues
    BY DEF IOInv, Continues, IO!Continues, IO!Position, IO!NoOperation, Behind
  <1>2. QED
    BY IOInitially, IOStepKeeps, <1>1, PTL DEF IO!Spec
=============================================================================
