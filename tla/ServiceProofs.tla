---------------------------- MODULE ServiceProofs ----------------------------
(***************************************************************************)
(* The start descriptors of threads, the plugins, the calls of ms_path,    *)
(* the configuration parser and the URI decoder, for any number of         *)
(* threads, descriptors, libraries and references, for texts and buffers   *)
(* of any size and for the components of any URI.                          *)
(***************************************************************************)
EXTENDS Services, CommonLemmas

-----------------------------------------------------------------------------
(* ms_thread_spawn and its start descriptors.  HeldApart says that a       *)
(* descriptor belongs to one spawner or to one thread that has not copied  *)
(* it yet; Kept that nobody else has written to it since it was filled.    *)

(* The spawners that have a descriptor from the array. *)
Holding(s) == pc[s] \in {"test", "fill", "create"}

HeldApart ==
  /\ \A s \in Spawners : Holding(s) => at[s] < current
  /\ \A s, r \in Spawners : Holding(s) /\ Holding(r) /\ s # r => at[s] # at[r]
  /\ \A thread \in created :
       /\ thread.descriptor < current
       /\ \A s \in Spawners : Holding(s) => at[s] # thread.descriptor
       /\ \A other \in created : other.descriptor = thread.descriptor => other = thread

Kept ==
  /\ \A s \in Spawners : pc[s] = "create" => filled[at[s]] = wants[s]
  /\ \A thread \in created : filled[thread.descriptor] = thread.asked

SpawnInv == TypeOK /\ HeldApart /\ Kept /\ HandedOver

-----------------------------------------------------------------------------
LEMMA SpawnInitially == Init => SpawnInv
  <1> SUFFICES ASSUME Init PROVE SpawnInv
    OBVIOUS
  <1>1. TypeOK
    BY StartDescriptorsAssumption DEF Init, TypeOK
  <1>2. HeldApart /\ Kept /\ HandedOver
    BY DEF Init, HeldApart, Kept, HandedOver, Holding
  <1>3. QED
    BY <1>1, <1>2 DEF SpawnInv

(* ms_thread_spawn is called: the caller's wish is of its type. *)
LEMMA SpawnKeeps ==
  ASSUME SpawnInv,
         NEW s \in Spawners, NEW content \in Contents, Spawn(s, content)
  PROVE  SpawnInv'
  <1>1. TypeOK'
    BY DEF Spawn, Goto, SpawnInv, TypeOK
  <1>2. \A r \in Spawners : Holding(r)' <=> Holding(r)
    BY DEF Spawn, Goto, SpawnInv, TypeOK, Holding
  <1>3. HeldApart'
    BY <1>2 DEF Spawn, SpawnInv, HeldApart
  <1>4. Kept'
    BY DEF Spawn, Goto, SpawnInv, TypeOK, Kept
  <1>5. QED
    BY <1>1, <1>3, <1>4 DEF Spawn, SpawnInv, HandedOver

(* The fetch-and-add: nobody has had the number it returns. *)
LEMMA FetchKeeps ==
  ASSUME SpawnInv,
         NEW s \in Spawners, Fetch(s)
  PROVE  SpawnInv'
  <1>1. /\ pc[s] = "fetch" /\ pc' = [pc EXCEPT ![s] = "test"]
        /\ current < MaxDescriptors
        /\ at' = [at EXCEPT ![s] = current]
        /\ current' = current + 1
        /\ UNCHANGED <<windows, inUse, filled, wants, created, mistaken>>
    BY DEF Fetch, Goto
  <1>2. current \in Nat /\ MaxDescriptors \in Nat
    BY StartDescriptorsAssumption DEF SpawnInv, TypeOK
  <1>3. TypeOK'
    BY <1>1, <1>2 DEF SpawnInv, TypeOK
  <1>4. \A r \in Spawners : r # s => (Holding(r)' <=> Holding(r)) /\ at'[r] = at[r]
    BY <1>1 DEF SpawnInv, TypeOK, Holding
  <1>5. at'[s] = current
    BY <1>1 DEF SpawnInv, TypeOK
  <1>6. \A r \in Spawners : at[r] \in Nat
    BY DEF SpawnInv, TypeOK
  <1>7. \A thread \in created : thread.descriptor \in Nat
    BY StartDescriptorsAssumption DEF SpawnInv, TypeOK,
       Descriptors
  <1>8. HeldApart'
    <2>1. \A r \in Spawners : Holding(r)' => at'[r] < current'
      BY <1>1, <1>2, <1>4, <1>5, <1>6 DEF SpawnInv, HeldApart
    <2>2. \A q, r \in Spawners : Holding(q)' /\ Holding(r)' /\ q # r => at'[q] # at'[r]
      BY <1>2, <1>4, <1>5, <1>6 DEF SpawnInv, HeldApart
    <2>3. ASSUME NEW thread \in created'
          PROVE  /\ thread.descriptor < current'
                 /\ \A r \in Spawners : Holding(r)' => at'[r] # thread.descriptor
                 /\ \A other \in created' : other.descriptor = thread.descriptor => other = thread
      <3>1. thread \in created /\ thread.descriptor < current
        BY <1>1, <2>3 DEF SpawnInv, HeldApart
      <3>2. QED
        BY <1>1, <1>2, <1>4, <1>5, <1>7, <3>1 DEF SpawnInv, HeldApart
    <2>4. QED
      BY <2>1, <2>2, <2>3 DEF HeldApart
  <1>9. Kept'
    <2>1. \A r \in Spawners : pc'[r] = "create" => r # s /\ pc[r] = "create"
      BY <1>1 DEF SpawnInv, TypeOK
    <2>2. QED
      BY <1>1, <1>4, <2>1 DEF SpawnInv, Kept
  <1>10. QED
    BY <1>1, <1>3, <1>8, <1>9 DEF SpawnInv, HandedOver

(* The test-and-set: a spawner goes on with its descriptor or lets it go. *)
LEMMA TestAndSetKeeps ==
  ASSUME SpawnInv,
         NEW s \in Spawners, TestAndSet(s)
  PROVE  SpawnInv'
  <1>1. /\ pc[s] = "test"
        /\ pc' = [pc EXCEPT ![s] = "fill"] \/ pc' = [pc EXCEPT ![s] = "fetch"]
        /\ inUse' = inUse \cup {at[s]}
        /\ UNCHANGED <<windows, current, filled, at, wants, created, mistaken>>
    BY DEF TestAndSet, Goto
  <1>2. at[s] \in Descriptors
    BY <1>1, StartDescriptorsAssumption DEF SpawnInv, TypeOK, HeldApart,
       Holding, Descriptors
  <1>3. TypeOK'
    BY <1>1, <1>2 DEF SpawnInv, TypeOK
  <1>4. \A r \in Spawners : (Holding(r)' => Holding(r)) /\ (pc'[r] = "create" => pc[r] = "create")
    BY <1>1 DEF SpawnInv, TypeOK, Holding
  <1>5. HeldApart'
    BY <1>1, <1>4 DEF SpawnInv, HeldApart
  <1>6. Kept'
    BY <1>1, <1>4 DEF SpawnInv, Kept
  <1>7. QED
    BY <1>1, <1>3, <1>5, <1>6 DEF SpawnInv, HandedOver

(* A spawner writes to its own descriptor, in whole or in part. *)
LEMMA FillKeeps ==
  ASSUME SpawnInv,
         NEW s \in Spawners, Fill(s) \/ FillTooLong(s)
  PROVE  SpawnInv'
  <1>1. /\ pc[s] = "fill"
        /\ \/ pc' = [pc EXCEPT ![s] = "create"] /\ filled' = [filled EXCEPT ![at[s]] = wants[s]]
           \/ /\ pc' = [pc EXCEPT ![s] = "idle"]
              /\ filled' = [filled EXCEPT ![at[s]] = [main |-> wants[s].main,
                 name |-> @.name]]
        /\ UNCHANGED <<windows, current, inUse, at, wants, created, mistaken>>
    BY DEF Fill, FillTooLong, Filling, Goto
  <1>2. at[s] \in Descriptors
    BY <1>1, StartDescriptorsAssumption DEF SpawnInv, TypeOK, HeldApart,
       Holding, Descriptors
  <1>3. TypeOK'
    <2>1. wants[s] \in Contents /\ [main |-> wants[s].main,
       name |-> filled[at[s]].name] \in Contents
      BY <1>2 DEF SpawnInv, TypeOK, Contents
    <2>2. filled' \in [Descriptors -> Contents]
      BY <1>1, <1>2, <2>1 DEF SpawnInv, TypeOK
    <2>3. QED
      BY <1>1, <2>2 DEF SpawnInv, TypeOK
  <1>4. \A d \in Descriptors : d # at[s] => filled'[d] = filled[d]
    BY <1>1, <1>2 DEF SpawnInv, TypeOK
  <1>5. \A r \in Spawners : Holding(r)' => Holding(r)
    BY <1>1 DEF SpawnInv, TypeOK, Holding
  <1>6. HeldApart'
    BY <1>1, <1>5 DEF SpawnInv, HeldApart
  <1>7. ASSUME NEW r \in Spawners, pc'[r] = "create"
        PROVE  filled'[at'[r]] = wants'[r]
    <2>1. CASE r = s
      BY <1>1, <1>2, <1>7, <2>1 DEF SpawnInv, TypeOK
    <2>2. CASE r # s
      <3>1. pc[r] = "create"
        BY <1>1, <1>7, <2>2 DEF SpawnInv, TypeOK
      <3>2. at[r] \in Descriptors /\ at[r] # at[s]
        BY <1>1, <2>2, <3>1, StartDescriptorsAssumption
           DEF SpawnInv, TypeOK, HeldApart, Holding, Descriptors
      <3>3. QED
        BY <1>1, <1>4, <3>1, <3>2 DEF SpawnInv, Kept
    <2>3. QED
      BY <2>1, <2>2
  <1>8. ASSUME NEW thread \in created'
        PROVE  filled'[thread.descriptor] = thread.asked
    <2>1. thread \in created
      BY <1>1
    <2>2. thread.descriptor \in Descriptors /\ thread.descriptor # at[s]
      BY <1>1, <2>1 DEF SpawnInv, TypeOK, HeldApart, Holding
    <2>3. QED
      BY <1>4, <2>1, <2>2 DEF SpawnInv, Kept
  <1>9. QED
    BY <1>1, <1>3, <1>6, <1>7, <1>8 DEF SpawnInv, Kept, HandedOver

(* The descriptor passes from the spawner to the thread. *)
LEMMA CreateKeeps ==
  ASSUME SpawnInv,
         NEW s \in Spawners, Create(s)
  PROVE  SpawnInv'
  <1> DEFINE fresh == [descriptor |-> at[s], asked |-> wants[s]]
  <1>1. /\ pc[s] = "create" /\ pc' = [pc EXCEPT ![s] = "idle"]
        /\ created' = created \cup {fresh}
        /\ UNCHANGED <<windows, current, inUse, filled, at, wants, mistaken>>
    BY DEF Create, Goto
  <1>2. at[s] \in Descriptors
    BY <1>1, StartDescriptorsAssumption DEF SpawnInv, TypeOK, HeldApart,
       Holding, Descriptors
  <1>3. fresh.descriptor = at[s] /\ fresh.asked = wants[s]
        /\ fresh \in [descriptor : Descriptors, asked : Contents]
    BY <1>2 DEF SpawnInv, TypeOK
  <1> HIDE DEF fresh
  <1>4. TypeOK'
    BY <1>1, <1>3 DEF SpawnInv, TypeOK
  <1>5. \A r \in Spawners : /\ Holding(r)' => Holding(r) /\ r # s
                            /\ pc'[r] = "create" => pc[r] = "create"
    BY <1>1 DEF SpawnInv, TypeOK, Holding
  <1>6. Holding(s)
    BY <1>1 DEF Holding
  <1>7. HeldApart'
    <2>1. \A r \in Spawners : Holding(r)' => at'[r] < current'
      BY <1>1, <1>5 DEF SpawnInv, HeldApart
    <2>2. \A q, r \in Spawners : Holding(q)' /\ Holding(r)' /\ q # r => at'[q] # at'[r]
      BY <1>1, <1>5 DEF SpawnInv, HeldApart
    <2>3. ASSUME NEW thread \in created'
          PROVE  /\ thread.descriptor < current'
                 /\ \A r \in Spawners : Holding(r)' => at'[r] # thread.descriptor
                 /\ \A other \in created' : other.descriptor = thread.descriptor => other = thread
      <3>1. CASE thread = fresh
        BY <1>1, <1>3, <1>5, <1>6, <3>1 DEF SpawnInv, HeldApart
      <3>2. CASE thread \in created
        BY <1>1, <1>3, <1>5, <1>6, <3>2 DEF SpawnInv, HeldApart
      <3>3. QED
        BY <1>1, <2>3, <3>1, <3>2
    <2>4. QED
      BY <2>1, <2>2, <2>3 DEF HeldApart
  <1>8. Kept'
    BY <1>1, <1>3, <1>5 DEF SpawnInv, Kept
  <1>9. QED
    BY <1>1, <1>4, <1>7, <1>8 DEF SpawnInv, HandedOver

LEMMA CreateFailedKeeps ==
  ASSUME SpawnInv,
         NEW s \in Spawners, CreateFailed(s)
  PROVE  SpawnInv'
  <1>1. /\ pc[s] = "create" /\ pc' = [pc EXCEPT ![s] = "idle"]
        /\ inUse' \subseteq inUse
        /\ UNCHANGED <<windows, current, filled, at, wants, created, mistaken>>
    BY DEF CreateFailed, Goto
  <1>2. TypeOK'
    BY <1>1 DEF SpawnInv, TypeOK
  <1>3. \A r \in Spawners : (Holding(r)' => Holding(r)) /\ (pc'[r] = "create" => pc[r] = "create")
    BY <1>1 DEF SpawnInv, TypeOK, Holding
  <1>4. HeldApart'
    BY <1>1, <1>3 DEF SpawnInv, HeldApart
  <1>5. Kept'
    BY <1>1, <1>3 DEF SpawnInv, Kept
  <1>6. QED
    BY <1>1, <1>2, <1>4, <1>5 DEF SpawnInv, HandedOver

(* The thread copies the descriptor: it still is what was asked for. *)
LEMMA StartKeeps ==
  ASSUME SpawnInv,
         NEW thread \in created, Start(thread)
  PROVE  SpawnInv'
  <1>1. /\ mistaken' = mistaken \cup ({filled[thread.descriptor]} \ {thread.asked})
        /\ inUse' = inUse \ {thread.descriptor}
        /\ created' = created \ {thread}
        /\ UNCHANGED <<windows, current, filled, pc, at, wants>>
    BY DEF Start
  <1>2. filled[thread.descriptor] = thread.asked
    BY DEF SpawnInv, Kept
  <1>3. mistaken' = {}
    BY <1>1, <1>2 DEF SpawnInv, HandedOver
  <1>4. TypeOK'
    BY <1>1, <1>3 DEF SpawnInv, TypeOK
  <1>5. HeldApart'
    BY <1>1 DEF SpawnInv, HeldApart, Holding
  <1>6. Kept'
    BY <1>1 DEF SpawnInv, Kept
  <1>7. QED
    BY <1>3, <1>4, <1>5, <1>6 DEF SpawnInv, HandedOver

LEMMA SpawnStepKeeps ==
  SpawnInv /\ [Next]_vars => SpawnInv'
  <1> SUFFICES ASSUME SpawnInv, [Next]_vars PROVE SpawnInv'
    OBVIOUS
  <1>1. ASSUME NEW s \in Spawners, NEW content \in Contents, Spawn(s, content)
        PROVE  SpawnInv'
    BY <1>1, SpawnKeeps
  <1>2. ASSUME NEW s \in Spawners, SpawnerStep(s) PROVE SpawnInv'
    BY <1>2, FetchKeeps, TestAndSetKeeps, FillKeeps, CreateKeeps,
       CreateFailedKeeps DEF SpawnerStep
  <1>3. ASSUME NEW thread \in created, Start(thread) PROVE SpawnInv'
    BY <1>3, StartKeeps
  <1>4. CASE UNCHANGED vars
    BY <1>4 DEF vars, SpawnInv, TypeOK, HeldApart, Holding, Kept,
       HandedOver
  <1>5. QED
    BY <1>1, <1>2, <1>3, <1>4 DEF Next

(***************************************************************************)
(* Up to the end of the descriptor array no thread that ms_thread_spawn    *)
(* creates sees another one's function, context or name.                   *)
(***************************************************************************)
THEOREM Handover == Spec => []HandedOver
  <1>1. SpawnInv => HandedOver
    BY DEF SpawnInv
  <1>2. QED
    BY SpawnInitially, SpawnStepKeeps, <1>1, PTL DEF Spec

-----------------------------------------------------------------------------
(* ms_plugin.  References is inductive with the types.  The work is in     *)
(* counting the loads of a library among those under way.                  *)

PluginInv == Plugins!TypeOK /\ Plugins!References

LoadsOf(s, l) == {i \in DOMAIN s : s[i] = l}

CountOf(s, l) == Cardinality(LoadsOf(s, l))

(* The instance counts as this module does. *)
LEMMA ReferencesMeans ==
  Plugins!References <=>
    \A l \in Libraries : pOpened[l] = pPlugins[l] + CountOf(pLoading, l)
  BY DEF Plugins!References, Plugins!Cardinality, Cardinality, CountOf, LoadsOf

LEMMA LoadsFinite ==
  ASSUME NEW s \in Seq(Libraries), NEW l
  PROVE  IsFiniteSet(LoadsOf(s, l)) /\ CountOf(s, l) \in Nat
  <1>1. LoadsOf(s, l) \subseteq 1 .. Len(s) /\ 1 \in Int /\ Len(s) \in Int
    BY SMT DEF LoadsOf
  <1>2. IsFiniteSet(1 .. Len(s))
    BY <1>1, FS_Interval
  <1>3. IsFiniteSet(LoadsOf(s, l))
    BY <1>1, <1>2, FS_Subset
  <1>4. QED
    BY <1>3, FS_CardinalityType DEF CountOf

(* One load more. *)
LEMMA CountAppended ==
  ASSUME NEW s \in Seq(Libraries), NEW k \in Libraries, NEW l
  PROVE  CountOf(Append(s, k), l) = CountOf(s, l) + (IF k = l THEN 1 ELSE 0)
  <1>1. /\ Len(s) + 1 \notin LoadsOf(s, l)
        /\ k = l => LoadsOf(Append(s, k), l) = LoadsOf(s, l) \cup {Len(s) + 1}
        /\ k # l => LoadsOf(Append(s, k), l) = LoadsOf(s, l)
    BY SMT DEF LoadsOf
  <1>2. IsFiniteSet(LoadsOf(s, l)) /\ CountOf(s, l) \in Nat
    BY LoadsFinite
  <1>3. CASE k = l
    <2>1. Cardinality(LoadsOf(s, l) \cup {Len(s) + 1}) = Cardinality(LoadsOf(s, l)) + 1
      BY <1>1, <1>2, FS_AddElement
    <2>2. QED
      BY <1>1, <1>3, <2>1 DEF CountOf
  <1>4. CASE k # l
    BY <1>1, <1>2, <1>4, SMT DEF CountOf
  <1>5. QED
    BY <1>3, <1>4

(* The innermost load ends. *)
LEMMA CountEnded ==
  ASSUME NEW s \in Seq(Libraries), s # << >>, NEW l
  PROVE  /\ Plugins!Last(s) \in Libraries /\ Plugins!Front(s) \in Seq(Libraries)
         /\ CountOf(s, l) =
              CountOf(Plugins!Front(s), l) + (IF Plugins!Last(s) = l THEN 1 ELSE 0)
  <1> DEFINE front == Plugins!Front(s)
             last == Plugins!Last(s)
  <1>1. last \in Libraries /\ front \in Seq(Libraries) /\ Append(front, last) = s
    <2>1. Len(s) \in Nat \ {0}
      BY EmptySeq, LenProperties, SMT
    <2>2. last = s[Len(s)] /\ front = SubSeq(s, 1, Len(s) - 1)
      BY DEF Plugins!Front, Plugins!Last
    <2> HIDE DEF front, last
    <2>3. last \in Libraries /\ front \in Seq(Libraries) /\ Len(front) = Len(s) - 1
      <3>1. Len(s) \in 1 .. Len(s) /\ 1 \in 1 .. Len(s) + 1 /\ Len(s) - 1 \in 1 - 1 .. Len(s)
        BY <2>1, SMT
      <3>2. last \in Libraries
        BY <2>2, <3>1, ElementOfSeq
      <3>3. /\ front \in Seq(Libraries)
            /\ Len(front) = IF 1 <= Len(s) - 1 THEN (Len(s) - 1) - 1 + 1 ELSE 0
        BY <2>2, <3>1, SubSeqProperties
      <3>4. Len(front) = Len(s) - 1
        <4> DEFINE n == Len(s)
                   m == Len(front)
        <4>1. n \in Nat \ {0} /\ m = IF 1 <= n - 1 THEN (n - 1) - 1 + 1 ELSE 0
          BY <2>1, <3>3
        <4> HIDE DEF n, m
        <4>2. m = n - 1
          BY <4>1, SMT
        <4>3. QED
          BY <4>2 DEF n, m
      <3>5. QED
        BY <3>2, <3>3, <3>4
    <2>4. /\ Len(Append(front, last)) = Len(s)
          /\ \A i \in 1 .. Len(s) : Append(front, last)[i] = s[i]
      BY <2>1, <2>2, <2>3, SMT
    <2>5. Append(front, last) \in Seq(Libraries)
      BY <2>3
    <2>6. QED
      BY <2>3, <2>4, <2>5, SeqEqual
  <1> HIDE DEF front, last
  <1>2. CountOf(Append(front, last), l) = CountOf(front, l) + (IF last = l THEN 1 ELSE 0)
    <2>1. last \in Libraries /\ front \in Seq(Libraries)
      BY <1>1
    <2>2. \A f \in Seq(Libraries), k \in Libraries :
            CountOf(Append(f, k), l) = CountOf(f, l) + (IF k = l THEN 1 ELSE 0)
      BY CountAppended
    <2>3. QED
      BY <2>1, <2>2
  <1>3. s = Append(front, last)
    BY <1>1
  <1>4. CountOf(s, l) = CountOf(front, l) + (IF last = l THEN 1 ELSE 0)
    BY <1>2, <1>3, Zenon
  <1>5. QED
    BY <1>1, <1>4, Zenon DEF front, last

LEMMA PluginStepKeeps ==
  PluginInv /\ [Plugins!Next]_Plugins!vars => PluginInv'
  <1> SUFFICES ASSUME PluginInv, [Plugins!Next]_Plugins!vars PROVE PluginInv'
    OBVIOUS
  <1> DEFINE Agree(opened, plugins, loading) ==
        /\ opened \in [Libraries -> 0 .. MaxOpen]
        /\ plugins \in [Libraries -> 0 .. MaxOpen]
        /\ loading \in Seq(Libraries)
        /\ \A l \in Libraries : opened[l] = plugins[l] + CountOf(loading, l)
  <1>1. /\ MaxOpen \in Nat /\ Agree(pOpened, pPlugins, pLoading)
        /\ pDangling \subseteq Libraries /\ pDown \in BOOLEAN
    BY ServicesAssumption, ReferencesMeans DEF PluginInv, Plugins!TypeOK
  <1>2. \A l \in Libraries : CountOf(pLoading, l) \in Nat
    BY <1>1, LoadsFinite
  <1>3. ASSUME Agree(pOpened', pPlugins', pLoading'),
               pDangling' \subseteq Libraries, pDown' \in BOOLEAN
        PROVE  PluginInv'
    <2>1. Plugins!TypeOK'
      BY <1>3 DEF Plugins!TypeOK
    <2>2. Plugins!References'
      BY <1>3 DEF Plugins!References, Plugins!Cardinality, Cardinality, CountOf, LoadsOf
    <2>3. QED
      BY <2>1, <2>2 DEF PluginInv
  <1>4. ASSUME NEW l \in Libraries, Plugins!LoadBegin(l) PROVE PluginInv'
    <2>1. /\ pOpened[l] < MaxOpen
          /\ pOpened' = [pOpened EXCEPT ![l] = @ + 1] /\ pLoading' = Append(pLoading, l)
          /\ pPlugins' = pPlugins /\ pDangling' = pDangling /\ pDown' = pDown
      BY <1>4 DEF Plugins!LoadBegin
    <2>2. \A k \in Libraries :
            CountOf(pLoading', k) = CountOf(pLoading, k) + (IF l = k THEN 1 ELSE 0)
      BY <1>1, <2>1, CountAppended
    <2>3. pOpened' \in [Libraries -> 0 .. MaxOpen]
      BY <1>1, <2>1, SMT
    <2>4. \A k \in Libraries : pOpened'[k] = pOpened[k] + (IF l = k THEN 1 ELSE 0)
      BY <1>1, <2>1, SMT
    <2>5. \A k \in Libraries : pOpened'[k] = pPlugins'[k] + CountOf(pLoading', k)
      BY <1>1, <1>2, <2>1, <2>2, <2>4, SMT
    <2>6. pLoading' \in Seq(Libraries)
      BY <1>1, <2>1
    <2>7. QED
      BY <1>1, <1>3, <2>1, <2>3, <2>5, <2>6
  <1>5. ASSUME pLoading # << >>, pLoading' = Plugins!Front(pLoading)
        PROVE  /\ Plugins!Last(pLoading) \in Libraries /\ pLoading' \in Seq(Libraries)
               /\ \A k \in Libraries :
                    /\ CountOf(pLoading', k) \in Nat
                    /\ CountOf(pLoading, k) =
                         CountOf(pLoading', k) + (IF Plugins!Last(pLoading) = k THEN 1 ELSE 0)
    BY <1>1, <1>5, CountEnded, LoadsFinite
  <1>6. CASE Plugins!LoadEnd
    <2> DEFINE last == Plugins!Last(pLoading)
    <2>1. /\ pLoading # << >> /\ pLoading' = Plugins!Front(pLoading)
          /\ pPlugins' = [pPlugins EXCEPT ![last] = @ + 1]
          /\ pOpened' = pOpened /\ pDangling' = pDangling /\ pDown' = pDown
      BY <1>6 DEF Plugins!LoadEnd
    <2>2. /\ last \in Libraries /\ pLoading' \in Seq(Libraries)
          /\ \A k \in Libraries :
               /\ CountOf(pLoading', k) \in Nat
               /\ CountOf(pLoading, k) = CountOf(pLoading', k) + (IF last = k THEN 1 ELSE 0)
      BY <1>5, <2>1
    <2> HIDE DEF last
    <2>3. pPlugins[last] + 1 \in 0 .. MaxOpen
      BY <1>1, <2>2, SMT
    <2>4. pPlugins' \in [Libraries -> 0 .. MaxOpen]
      BY <1>1, <2>1, <2>2, <2>3
    <2>5. \A k \in Libraries : pPlugins'[k] = pPlugins[k] + (IF last = k THEN 1 ELSE 0)
      <3>1. \A k \in Libraries : pPlugins[k] \in Int
        BY <1>1
      <3>2. \A k \in Libraries : pPlugins'[k] = IF last = k THEN pPlugins[k] + 1 ELSE pPlugins[k]
        BY <1>1, <2>1
      <3>3. QED
        BY <3>1, <3>2
    <2>6. ASSUME NEW k \in Libraries PROVE pOpened'[k] = pPlugins'[k] + CountOf(pLoading', k)
      <3>1. /\ pOpened[k] \in Int /\ pPlugins[k] \in Int
            /\ pOpened[k] = pPlugins[k] + CountOf(pLoading, k)
            /\ CountOf(pLoading', k) \in Nat
        BY <1>1, <2>2, SMT
      <3>2. CountOf(pLoading, k) = CountOf(pLoading', k) + (IF last = k THEN 1 ELSE 0)
        BY <2>2
      <3>3. QED
        BY <2>1, <2>5, <3>1, <3>2, SMT
    <2>7. QED
      BY <1>1, <1>3, <2>1, <2>2, <2>4, <2>6
  <1>7. CASE Plugins!LoadFailed
    <2> DEFINE last == Plugins!Last(pLoading)
    <2>1. /\ pLoading # << >> /\ pLoading' = Plugins!Front(pLoading)
          /\ pOpened' = [pOpened EXCEPT ![last] = @ - 1]
          /\ pDangling' = pDangling \cup {last}
          /\ pPlugins' = pPlugins /\ pDown' = pDown
      BY <1>7 DEF Plugins!LoadFailed, Plugins!Closed
    <2>2. /\ last \in Libraries /\ pLoading' \in Seq(Libraries)
          /\ \A k \in Libraries :
               /\ CountOf(pLoading', k) \in Nat
               /\ CountOf(pLoading, k) = CountOf(pLoading', k) + (IF last = k THEN 1 ELSE 0)
      BY <1>5, <2>1
    <2> HIDE DEF last
    <2>3. pOpened[last] - 1 \in 0 .. MaxOpen
      BY <1>1, <2>2, SMT
    <2>4. pOpened' \in [Libraries -> 0 .. MaxOpen]
      BY <1>1, <2>1, <2>2, <2>3
    <2>5. \A k \in Libraries : pOpened'[k] = pOpened[k] - (IF last = k THEN 1 ELSE 0)
      <3>1. \A k \in Libraries : pOpened[k] \in Int
        BY <1>1
      <3>2. \A k \in Libraries : pOpened'[k] = IF last = k THEN pOpened[k] - 1 ELSE pOpened[k]
        BY <1>1, <2>1
      <3>3. QED
        BY <3>1, <3>2
    <2>6. ASSUME NEW k \in Libraries PROVE pOpened'[k] = pPlugins'[k] + CountOf(pLoading', k)
      <3>1. /\ pOpened[k] \in Int /\ pPlugins[k] \in Int
            /\ pOpened[k] = pPlugins[k] + CountOf(pLoading, k)
            /\ CountOf(pLoading', k) \in Nat
        BY <1>1, <2>2, SMT
      <3>2. CountOf(pLoading, k) = CountOf(pLoading', k) + (IF last = k THEN 1 ELSE 0)
        BY <2>2
      <3>3. QED
        BY <2>1, <2>5, <3>1, <3>2, SMT
    <2>7. QED
      BY <1>1, <1>3, <2>1, <2>2, <2>4, <2>6
  <1>8. ASSUME NEW l \in Libraries, Plugins!Unload(l) PROVE PluginInv'
    <2>1. /\ pPlugins[l] > 0
          /\ pOpened' = [pOpened EXCEPT ![l] = @ - 1]
          /\ pPlugins' = [pPlugins EXCEPT ![l] = @ - 1]
          /\ pLoading' = pLoading /\ pDangling' = pDangling /\ pDown' = pDown
      BY <1>8 DEF Plugins!Unload, Plugins!Closed
    <2>2. pOpened[l] - 1 \in 0 .. MaxOpen /\ pPlugins[l] - 1 \in 0 .. MaxOpen
      BY <1>1, <1>2, <2>1, SMT
    <2>3. pOpened' \in [Libraries -> 0 .. MaxOpen] /\ pPlugins' \in [Libraries -> 0 .. MaxOpen]
      BY <1>1, <2>1, <2>2
    <2>4. \A k \in Libraries :
            /\ pOpened'[k] = pOpened[k] - (IF l = k THEN 1 ELSE 0)
            /\ pPlugins'[k] = pPlugins[k] - (IF l = k THEN 1 ELSE 0)
      BY <1>1, <2>1, SMT
    <2>5. \A k \in Libraries : pOpened'[k] = pPlugins'[k] + CountOf(pLoading', k)
      BY <1>1, <1>2, <2>1, <2>4, SMT
    <2>6. QED
      BY <1>1, <1>3, <2>1, <2>3, <2>5
  <1>9. ASSUME pOpened' = pOpened, pPlugins' = pPlugins, pLoading' = pLoading,
               pDangling' = pDangling, pDown' \in BOOLEAN
        PROVE  PluginInv'
    BY <1>1, <1>3, <1>9
  <1>10. CASE Plugins!LoadNothing \/ \E l \in Libraries : Plugins!LoadUnfit(l)
    BY <1>1, <1>9, <1>10 DEF Plugins!LoadNothing, Plugins!LoadUnfit, Plugins!vars
  <1>11. CASE UNCHANGED Plugins!vars
    BY <1>1, <1>9, <1>11 DEF Plugins!vars
  <1>12. QED
    BY <1>4, <1>6, <1>7, <1>8, <1>10, <1>11 DEF Plugins!Next

(***************************************************************************)
(* For any number of libraries, nested loads and failures ms_plugin opens  *)
(* a library as often as plugins and loads under way have it.              *)
(***************************************************************************)
THEOREM Balance == Plugins!Spec => []PluginReferences
  <1>1. Plugins!Init => PluginInv
    <2> SUFFICES ASSUME Plugins!Init PROVE PluginInv
      OBVIOUS
    <2>1. pLoading = << >> /\ \A l \in Libraries : pOpened[l] = 0 /\ pPlugins[l] = 0
      BY DEF Plugins!Init
    <2>2. \A l \in Libraries : LoadsOf(pLoading, l) = {}
      BY <2>1 DEF LoadsOf
    <2>3. \A l \in Libraries : CountOf(pLoading, l) = 0
      BY <2>2, FS_EmptySet DEF CountOf
    <2>4. Plugins!References
      BY <2>1, <2>3, ReferencesMeans, SMT
    <2>5. Plugins!TypeOK
      <3>1. 0 \in 0 .. MaxOpen
        BY ServicesAssumption, SMT
      <3>2. pLoading \in Seq(Libraries)
        BY <2>1
      <3>3. QED
        BY <3>1, <3>2 DEF Plugins!Init, Plugins!TypeOK
    <2>6. QED
      BY <2>4, <2>5 DEF PluginInv
  <1>2. PluginInv => PluginReferences
    BY DEF PluginInv, PluginReferences
  <1>3. QED
    BY <1>1, <1>2, PluginStepKeeps, PTL DEF Plugins!Spec

-----------------------------------------------------------------------------
(* ms_path.  First the texts: where a path is cut, and that it cannot be   *)
(* cut anywhere else.                                                      *)
LEMMA FromIs ==
  ASSUME NEW S, NEW s \in Seq(S), NEW c \in 1 .. Len(s) + 1
  PROVE  /\ Paths!From(s, c) \in Seq(S)
         /\ Len(Paths!From(s, c)) = Len(s) - c + 1
         /\ \A i \in 1 .. Len(s) - c + 1 : Paths!From(s, c)[i] = s[c + i - 1]
  <1>1. Len(s) \in Nat /\ c \in Int /\ Len(s) \in Int
    OBVIOUS
  <1>2. \A i \in c .. Len(s) : s[i] \in S
    BY <1>1, ElementOfSeq
  <1>3. /\ SubSeq(s, c, Len(s)) \in Seq(S)
        /\ Len(SubSeq(s, c, Len(s))) = IF c <= Len(s) THEN Len(s) - c + 1 ELSE 0
        /\ \A i \in 1 .. Len(s) - c + 1 : SubSeq(s, c, Len(s))[i] = s[c + i - 1]
    BY <1>1, <1>2, SubSeqProperties
  <1>4. QED
    BY <1>1, <1>3 DEF Paths!From

LEMMA NoSplit ==
  ASSUME NEW S, NEW s \in Seq(S), NEW char
  PROVE  Paths!SplitsAt(s, char) = {} <=> \A c \in 1 .. Len(s) : s[c] # char
  <1>1. DOMAIN s = 1 .. Len(s)
    OBVIOUS
  <1>2. QED
    BY <1>1 DEF Paths!SplitsAt

LEMMA SplitIs ==
  ASSUME NEW S, NEW s \in Seq(S), NEW char, NEW split
  PROVE  split \in Paths!SplitsAt(s, char) <=>
           \E c \in 1 .. Len(s) :
             s[c] = char /\ split = <<SubSeq(s, 1, c - 1), Paths!From(s, c + 1)>>
  <1>1. DOMAIN s = 1 .. Len(s)
    OBVIOUS
  <1>2. QED
    BY <1>1 DEF Paths!SplitsAt

(* Behind the last separator there is none. *)
LEMMA LastSepIs ==
  ASSUME NEW S, NEW s \in Seq(S)
  PROVE  /\ Paths!LastSep(s) \in 0 .. Len(s)
         /\ Paths!LastSep(s) # 0 => s[Paths!LastSep(s)] = Paths!Sep
         /\ \A c \in 1 .. Len(s) : c > Paths!LastSep(s) => s[c] # Paths!Sep
  <1> DEFINE seps == {c \in DOMAIN s : s[c] = Paths!Sep}
  <1>1. DOMAIN s = 1 .. Len(s) /\ Len(s) \in Nat
    OBVIOUS
  <1>2. CASE seps = {}
    BY <1>1, <1>2 DEF Paths!LastSep
  <1>3. CASE seps # {}
    <2>1. seps \subseteq 0 .. Len(s) /\ seps \subseteq 1 .. Len(s)
      BY <1>1
    <2>2. \E x \in seps : \A y \in seps : y <= x
      <3> HIDE DEF seps
      <3>1. QED
        BY <1>1, <1>3, <2>1, HasMaximum
    <2>3. \E x \in seps : \A y \in seps : x >= y
      BY <2>1, <2>2
    <2>4. Paths!Max(seps) \in seps /\ \A y \in seps : Paths!Max(seps) >= y
      BY <2>3 DEF Paths!Max
    <2>5. Paths!LastSep(s) = Paths!Max(seps)
      BY <1>3 DEF Paths!LastSep
    <2>6. Paths!LastSep(s) \in 1 .. Len(s) /\ s[Paths!LastSep(s)] = Paths!Sep
      BY <2>1, <2>4, <2>5
    <2>7. ASSUME NEW c \in 1 .. Len(s), c > Paths!LastSep(s) PROVE s[c] # Paths!Sep
      <3>1. ASSUME s[c] = Paths!Sep PROVE FALSE
        <4>1. c \in seps
          BY <1>1, <3>1
        <4>2. Paths!LastSep(s) >= c
          BY <2>4, <2>5, <4>1
        <4>3. QED
          BY <2>6, <2>7, <4>2
      <3>2. QED
        BY <3>1
    <2>8. QED
      BY <1>1, <2>6, <2>7
  <1>4. QED
    BY <1>2, <1>3

(* What ms_path takes for the name is the only one there is. *)
NameOf(s) == Paths!From(s, Paths!LastSep(s) + 1)

LEMMA NameOfIs ==
  ASSUME NEW S, NEW s \in Seq(S)
  PROVE  /\ NameOf(s) \in Seq(S)
         /\ Len(NameOf(s)) = Len(s) - Paths!LastSep(s)
         /\ \A i \in 1 .. Len(NameOf(s)) : NameOf(s)[i] # Paths!Sep
         /\ NameOf(s) \in Paths!Suffixes(s)
         /\ \A name : Paths!IsName(name, s) <=> name = NameOf(s)
  <1> DEFINE k == Paths!LastSep(s)
  <1>1. /\ k \in 0 .. Len(s) /\ k + 1 \in 1 .. Len(s) + 1 /\ Len(s) \in Nat
        /\ k # 0 => s[k] = Paths!Sep
        /\ \A c \in 1 .. Len(s) : c > k => s[c] # Paths!Sep
    <2>1. /\ k \in 0 .. Len(s) /\ Len(s) \in Nat
          /\ k # 0 => s[k] = Paths!Sep
          /\ \A c \in 1 .. Len(s) : c > k => s[c] # Paths!Sep
      BY LastSepIs
    <2> HIDE DEF k
    <2>2. QED
      BY <2>1
  <1> HIDE DEF k
  <1>2. NameOf(s) = Paths!From(s, k + 1)
    BY DEF NameOf, k
  <1>3. /\ NameOf(s) \in Seq(S) /\ Len(NameOf(s)) = Len(s) - (k + 1) + 1
        /\ \A i \in 1 .. Len(s) - (k + 1) + 1 : NameOf(s)[i] = s[(k + 1) + i - 1]
    BY <1>1, <1>2, FromIs
  <1>4. Len(NameOf(s)) = Len(s) - k
    BY <1>1, <1>3
  <1>5. ASSUME NEW i \in 1 .. Len(NameOf(s)) PROVE NameOf(s)[i] # Paths!Sep
    <2>1. (k + 1) + i - 1 \in 1 .. Len(s) /\ (k + 1) + i - 1 > k
          /\ i \in 1 .. Len(s) - (k + 1) + 1
      BY <1>1, <1>4
    <2>2. QED
      BY <1>1, <1>3, <2>1
  <1>6. NameOf(s) \in Paths!Suffixes(s)
    <2>1. CASE k = Len(s)
      <3>1. Len(NameOf(s)) = 0
        BY <1>1, <1>4, <2>1
      <3>2. NameOf(s) = << >>
        BY <1>3, <3>1, EmptySeq
      <3>3. QED
        BY <3>2 DEF Paths!Suffixes
    <2>2. CASE k # Len(s)
      <3>1. k + 1 \in 1 .. Len(s)
        BY <1>1, <2>2
      <3>2. QED
        BY <1>2, <3>1 DEF Paths!From, Paths!Suffixes
    <2>3. QED
      BY <2>1, <2>2
  <1>7. Paths!SplitsAt(NameOf(s), Paths!Sep) = {}
    BY <1>3, <1>5, NoSplit
  <1>8. Paths!IsName(NameOf(s), s)
    <2>1. CASE k = 0
      <3>1. \A c \in 1 .. Len(s) : s[c] # Paths!Sep
        BY <1>1, <2>1
      <3>2. Len(NameOf(s)) = Len(s) /\ \A i \in 1 .. Len(s) : NameOf(s)[i] = s[i]
        BY <1>1, <1>3, <2>1
      <3>3. NameOf(s) = s
        BY <1>3, <3>2, SeqEqual
      <3>4. QED
        BY <1>7, <3>3 DEF Paths!IsName
    <2>2. CASE k # 0
      <3>1. k \in 1 .. Len(s)
        BY <1>1, <2>2
      <3>2. <<SubSeq(s, 1, k - 1), NameOf(s)>> \in Paths!SplitsAt(s, Paths!Sep)
        BY <1>1, <1>2, <2>2, <3>1, SplitIs
      <3>3. QED
        BY <1>7, <3>2 DEF Paths!IsName
    <2>3. QED
      BY <2>1, <2>2
  <1>9. ASSUME NEW name, Paths!IsName(name, s) PROVE name = NameOf(s)
    <2>1. CASE name = s /\ Paths!SplitsAt(s, Paths!Sep) = {}
      <3>1. \A c \in 1 .. Len(s) : s[c] # Paths!Sep
        BY <2>1, NoSplit
      <3>2. k = 0
        BY <1>1, <3>1
      <3>3. Len(NameOf(s)) = Len(s) /\ \A i \in 1 .. Len(s) : NameOf(s)[i] = s[i]
        BY <1>1, <1>3, <3>2
      <3>4. NameOf(s) = s
        BY <1>3, <3>3, SeqEqual
      <3>5. QED
        BY <2>1, <3>4
    <2>2. CASE \E split \in Paths!SplitsAt(s, Paths!Sep) :
                 split[2] = name /\ Paths!SplitsAt(name, Paths!Sep) = {}
      <3>1. PICK c \in 1 .. Len(s) :
              /\ s[c] = Paths!Sep /\ name = Paths!From(s, c + 1)
              /\ Paths!SplitsAt(name, Paths!Sep) = {}
        BY <2>2, SplitIs
      <3>2. /\ c + 1 \in 1 .. Len(s) + 1
            /\ name \in Seq(S) /\ Len(name) = Len(s) - (c + 1) + 1
            /\ \A i \in 1 .. Len(s) - (c + 1) + 1 : name[i] = s[(c + 1) + i - 1]
        <4>1. c + 1 \in 1 .. Len(s) + 1
          BY <1>1
        <4>2. QED
          BY <3>1, <4>1, FromIs
      <3>3. \A i \in 1 .. Len(name) : name[i] # Paths!Sep
        <4>1. name \in Seq(S) /\ Paths!SplitsAt(name, Paths!Sep) = {}
          BY <3>1, <3>2
        <4>2. QED
          BY <4>1, NoSplit
      <3>4. ~ (k < c)
        BY <1>1, <3>1
      <3>5. ASSUME c < k PROVE FALSE
        <4>1. /\ k - c \in 1 .. Len(name) /\ k - c \in 1 .. Len(s) - (c + 1) + 1
              /\ (c + 1) + (k - c) - 1 = k /\ k # 0
          BY <1>1, <3>2, <3>5
        <4>2. name[k - c] = s[k]
          BY <3>2, <4>1
        <4>3. QED
          BY <1>1, <3>3, <4>1, <4>2
      <3>6. c = k
        BY <1>1, <3>4, <3>5
      <3>7. QED
        BY <1>2, <3>1, <3>6
    <2>3. QED
      BY <1>9, <2>1, <2>2 DEF Paths!IsName
  <1>10. QED
    BY <1>3, <1>4, <1>5, <1>6, <1>8, <1>9 DEF k

(* From a place on, a text is one of its suffixes. *)
LEMMA SuffixIs ==
  ASSUME NEW S, NEW s \in Seq(S), NEW c \in 1 .. Len(s) + 1
  PROVE  Paths!From(s, c) \in Paths!Suffixes(s)
  <1>1. CASE c = Len(s) + 1
    <2>1. Paths!From(s, c) \in Seq(S) /\ Len(Paths!From(s, c)) = 0
      <3>1. Len(s) - c + 1 = 0
        BY <1>1
      <3>2. QED
        BY <3>1, FromIs
    <2>2. Paths!From(s, c) = << >>
      BY <2>1, EmptySeq
    <2>3. QED
      BY <2>2 DEF Paths!Suffixes
  <1>2. CASE c # Len(s) + 1
    <2>1. c \in 1 .. Len(s)
      BY <1>2
    <2>2. QED
      BY <2>1 DEF Paths!From, Paths!Suffixes
  <1>3. QED
    BY <1>1, <1>2

LEMMA FromFrom ==
  ASSUME NEW S, NEW s \in Seq(S), NEW c \in 1 .. Len(s) + 1, NEW d \in 1 .. Len(s) - c + 2
  PROVE  /\ c + d - 1 \in 1 .. Len(s) + 1
         /\ Paths!From(Paths!From(s, c), d) = Paths!From(s, c + d - 1)
  <1> DEFINE t == Paths!From(s, c)
             u == Paths!From(t, d)
             v == Paths!From(s, c + d - 1)
  <1>1. c + d - 1 \in 1 .. Len(s) + 1 /\ Len(s) \in Nat
    OBVIOUS
  <1>2. /\ t \in Seq(S) /\ Len(t) = Len(s) - c + 1
        /\ \A i \in 1 .. Len(s) - c + 1 : t[i] = s[c + i - 1]
    BY FromIs
  <1>3. /\ v \in Seq(S) /\ Len(v) = Len(s) - (c + d - 1) + 1
        /\ \A i \in 1 .. Len(s) - (c + d - 1) + 1 : v[i] = s[(c + d - 1) + i - 1]
    BY <1>1, FromIs
  <1> HIDE DEF t, v
  <1>4. d \in 1 .. Len(t) + 1
    BY <1>1, <1>2
  <1>5. /\ u \in Seq(S) /\ Len(u) = Len(t) - d + 1
        /\ \A i \in 1 .. Len(t) - d + 1 : u[i] = t[d + i - 1]
    <2>1. t \in Seq(S)
      BY <1>2
    <2>2. QED
      BY <1>4, <2>1, FromIs
  <1> HIDE DEF u
  <1>6. Len(u) = Len(v)
    <2>1. /\ Len(t) = Len(s) - c + 1 /\ Len(v) = Len(s) - (c + d - 1) + 1
          /\ Len(u) = Len(t) - d + 1
      BY <1>2, <1>3, <1>5
    <2>2. QED
      BY <1>1, <2>1
  <1>7. ASSUME NEW i \in 1 .. Len(u) PROVE u[i] = v[i]
    <2>1. /\ i \in 1 .. Len(t) - d + 1 /\ i \in 1 .. Len(s) - (c + d - 1) + 1
          /\ d + i - 1 \in 1 .. Len(s) - c + 1
          /\ c + (d + i - 1) - 1 = (c + d - 1) + i - 1
      BY <1>1, <1>2, <1>5
    <2>2. u[i] = t[d + i - 1] /\ t[d + i - 1] = s[c + (d + i - 1) - 1]
      BY <1>2, <1>5, <2>1
    <2>3. v[i] = s[(c + d - 1) + i - 1]
      BY <1>3, <2>1
    <2>4. QED
      BY <2>1, <2>2, <2>3
  <1>8. u = v
    BY <1>3, <1>5, <1>6, <1>7, SeqEqual
  <1>9. QED
    BY <1>1, <1>8 DEF t, u, v

(* What ms_path takes for the extension is the only one there is. *)
ExtensionOf(s) ==
  LET exts == {c \in DOMAIN NameOf(s) : NameOf(s)[c] = Paths!Ext}
  IN IF exts = {} THEN << >> ELSE Paths!From(NameOf(s), Paths!Min(exts) + 1)

LEMMA ExtensionOfIs ==
  ASSUME NEW S, NEW s \in Seq(S)
  PROVE  /\ ExtensionOf(s) \in Seq(S)
         /\ ExtensionOf(s) \in Paths!Suffixes(s)
         /\ \A text : Paths!IsExtension(text, s) <=> text = ExtensionOf(s)
  <1> DEFINE name == NameOf(s)
             from == Paths!LastSep(s) + 1
             exts == {c \in DOMAIN name : name[c] = Paths!Ext}
             Cut(text) ==
               \/ text = << >> /\ Paths!SplitsAt(name, Paths!Ext) = {}
               \/ \E split \in Paths!SplitsAt(name, Paths!Ext) :
                    split[2] = text /\ Paths!SplitsAt(split[1], Paths!Ext) = {}
  <1>1. /\ name \in Seq(S) /\ Len(name) \in Nat /\ DOMAIN name = 1 .. Len(name)
        /\ \A other : Paths!IsName(other, s) <=> other = name
    <2>1. name \in Seq(S) /\ \A other : Paths!IsName(other, s) <=> other = name
      BY NameOfIs
    <2> HIDE DEF name
    <2>2. QED
      BY <2>1
  <1>2. from \in 1 .. Len(s) + 1 /\ name = Paths!From(s, from)
    <2>1. Paths!LastSep(s) \in 0 .. Len(s) /\ Len(s) \in Nat
      BY LastSepIs
    <2>2. QED
      BY <2>1 DEF NameOf
  <1>3. \A text : Paths!IsExtension(text, s) <=> Cut(text)
    <2>1. name \in {Paths!From(s, c) : c \in 1 .. Len(s) + 1}
      BY <1>2
    <2> HIDE DEF name
    <2>2. QED
      BY <1>1, <2>1 DEF Paths!IsExtension
  <1>4. CASE exts = {}
    <2>1. ExtensionOf(s) = << >>
      BY <1>4 DEF ExtensionOf
    <2>2. Paths!SplitsAt(name, Paths!Ext) = {}
      <3> HIDE DEF name
      <3>1. \A c \in 1 .. Len(name) : name[c] # Paths!Ext
        BY <1>1, <1>4
      <3>2. QED
        BY <1>1, <3>1, NoSplit
    <2>3. \A text : Cut(text) <=> text = << >>
      BY <2>2
    <2>4. << >> \in Seq(S) /\ << >> \in Paths!Suffixes(s)
      BY EmptySeq DEF Paths!Suffixes
    <2> HIDE DEF Cut
    <2>5. QED
      BY <1>3, <2>1, <2>3, <2>4
  <1>5. CASE exts # {}
    <2> DEFINE m == Paths!Min(exts)
               ext == Paths!From(name, m + 1)
    <2>1. ExtensionOf(s) = ext
      BY <1>5 DEF ExtensionOf
    <2> HIDE DEF name
    <2>2. exts \subseteq 1 .. Len(name) /\ exts \subseteq Nat
      BY <1>1
    <2>3. \E x \in exts : \A y \in exts : x <= y
      <3> HIDE DEF exts
      <3>1. QED
        BY <1>5, <2>2, HasMinimum
    <2>4. m \in exts /\ \A y \in exts : m <= y
      BY <2>3 DEF Paths!Min
    <2> HIDE DEF m
    <2>5. m \in 1 .. Len(name) /\ name[m] = Paths!Ext
      BY <2>2, <2>4
    <2>6. ext \in Seq(S)
      <3>1. m + 1 \in 1 .. Len(name) + 1
        BY <1>1, <2>5
      <3>2. QED
        BY <1>1, <3>1, FromIs
    <2>7. ext \in Paths!Suffixes(s)
      <3>1. Len(name) = Len(s) - from + 1 /\ Len(s) \in Nat
        BY <1>2, FromIs
      <3> HIDE DEF from
      <3>2. m + 1 \in 1 .. Len(s) - from + 2
        BY <1>2, <2>5, <3>1
      <3>3. from + (m + 1) - 1 \in 1 .. Len(s) + 1 /\ ext = Paths!From(s, from + (m + 1) - 1)
        BY <1>2, <3>2, FromFrom
      <3>4. QED
        BY <3>3, SuffixIs
    <2>8. ASSUME NEW c \in 1 .. Len(name), name[c] = Paths!Ext
          PROVE  Paths!SplitsAt(SubSeq(name, 1, c - 1), Paths!Ext) = {} <=> c = m
      <3>1. c - 1 \in 0 .. Len(name) /\ m <= c
        BY <1>1, <2>4, <2>8
      <3>2. /\ SubSeq(name, 1, c - 1) \in Seq(S) /\ Len(SubSeq(name, 1, c - 1)) = c - 1
            /\ \A i \in 1 .. c - 1 : SubSeq(name, 1, c - 1)[i] = name[i]
        BY <1>1, <3>1, UpTo
      <3>3. Paths!SplitsAt(SubSeq(name, 1, c - 1), Paths!Ext) = {} <=>
              \A i \in 1 .. c - 1 : name[i] # Paths!Ext
        BY <3>2, NoSplit
      <3>4. (\A i \in 1 .. c - 1 : name[i] # Paths!Ext) => ~ (m < c)
        BY <2>5, <3>1
      <3>5. c = m => \A i \in 1 .. c - 1 : name[i] # Paths!Ext
        <4>1. ASSUME NEW i \in 1 .. m - 1 PROVE name[i] # Paths!Ext
          <5>1. i \in 1 .. Len(name) /\ ~ (m <= i)
            BY <1>1, <2>5
          <5>2. QED
            BY <1>1, <2>4, <5>1
        <4>2. QED
          BY <4>1
      <3>6. QED
        BY <2>5, <3>1, <3>3, <3>4, <3>5
    <2>9. ASSUME NEW text PROVE Cut(text) <=> text = ext
      <3>1. ASSUME Cut(text) PROVE text = ext
        <4>1. <<SubSeq(name, 1, m - 1), ext>> \in Paths!SplitsAt(name, Paths!Ext)
          BY <1>1, <2>5, SplitIs
        <4>2. PICK split \in Paths!SplitsAt(name, Paths!Ext) :
                split[2] = text /\ Paths!SplitsAt(split[1], Paths!Ext) = {}
          BY <3>1, <4>1
        <4>3. PICK c \in 1 .. Len(name) :
                /\ name[c] = Paths!Ext
                /\ split = <<SubSeq(name, 1, c - 1), Paths!From(name, c + 1)>>
          BY <1>1, SplitIs
        <4>4. c = m
          BY <2>8, <4>2, <4>3
        <4>5. QED
          BY <4>2, <4>3, <4>4
      <3>2. ASSUME text = ext PROVE Cut(text)
        <4>1. <<SubSeq(name, 1, m - 1), ext>> \in Paths!SplitsAt(name, Paths!Ext)
          BY <1>1, <2>5, SplitIs
        <4>2. Paths!SplitsAt(SubSeq(name, 1, m - 1), Paths!Ext) = {}
          BY <2>5, <2>8
        <4>3. QED
          BY <3>2, <4>1, <4>2
      <3>3. QED
        BY <3>1, <3>2
    <2> HIDE DEF Cut, ext
    <2>10. QED
      BY <1>3, <2>1, <2>6, <2>7, <2>9
  <1>6. QED
    BY <1>4, <1>5

(* Then the buffers. *)
PathChars == Paths!Chars \cup {Paths!Nul}

BufferSane == fSize \in 1 .. MaxBuffer /\ fJunk \in {"a", Paths!DriveSep}

LEMMA PathsAreTexts == Paths!Paths \subseteq Seq(Paths!Chars)
  <1> SUFFICES ASSUME NEW n \in 0 .. MaxPath, NEW s \in [1 .. n -> Paths!Chars]
               PROVE  s \in Seq(Paths!Chars)
    BY DEF Paths!Paths
  <1>1. MaxPath \in Int => n \in Nat
    OBVIOUS
  <1>2. QED
    BY <1>1, ServicesAssumption DEF ServicesAssumption

(* Memory with a text from its first character on. *)
LEMMA WrittenIs ==
  ASSUME ServicesAssumption, BufferSane, NEW text \in Seq(PathChars), Len(text) <= fSize
  PROVE  /\ Paths!Written(text) \in [Paths!Memory -> PathChars]
         /\ \A c \in 1 .. Len(text) : c \in Paths!Memory /\ Paths!Written(text)[c] = text[c]
         /\ \A c \in Paths!Memory : c > Len(text) => Paths!Written(text)[c] = fJunk
         /\ \A c \in Paths!Memory : c > fSize => Paths!Written(text)[c] = fJunk
  <1>1. /\ Len(text) \in Nat /\ fSize \in Nat /\ MaxBuffer \in Nat /\ fSize <= MaxBuffer
        /\ Paths!Memory = 1 .. MaxBuffer + 2
    BY DEF ServicesAssumption, BufferSane, Paths!Memory
  <1>2. fJunk \in PathChars
    BY DEF BufferSane, PathChars, Paths!Chars, Paths!DriveSep
  <1>3. \A c \in 1 .. Len(text) : text[c] \in PathChars
    BY <1>1, ElementOfSeq
  <1>4. \A c \in Paths!Memory :
          Paths!Written(text)[c] = IF c <= Len(text) THEN text[c] ELSE fJunk
    BY DEF Paths!Written
  <1>5. \A c \in Paths!Memory : c <= Len(text) => c \in 1 .. Len(text)
    BY <1>1
  <1>6. Paths!Written(text) \in [Paths!Memory -> PathChars]
    BY <1>2, <1>3, <1>5 DEF Paths!Written
  <1>7. \A c \in Paths!Memory : c > Len(text) => ~ (c <= Len(text))
    BY <1>1
  <1>8. \A c \in Paths!Memory : c > fSize => ~ (c <= Len(text))
    BY <1>1
  <1>9. \A c \in 1 .. Len(text) : c \in Paths!Memory /\ c <= Len(text)
    BY <1>1
  <1>10. QED
    BY <1>4, <1>6, <1>7, <1>8, <1>9

LEMMA UnwrittenIs ==
  ASSUME BufferSane
  PROVE  /\ Paths!Unwritten \in [Paths!Memory -> PathChars]
         /\ \A c \in Paths!Memory : Paths!Unwritten[c] = fJunk
  BY DEF BufferSane, Paths!Unwritten, PathChars, Paths!Chars, Paths!DriveSep

LEMMA CopiedIs ==
  ASSUME ServicesAssumption, BufferSane, NEW text \in Seq(Paths!Chars), Len(text) < fSize
  PROVE  /\ Paths!Copied(text) \in [Paths!Memory -> PathChars]
         /\ \A c \in 1 .. Len(text) : Paths!Copied(text)[c] = text[c]
         /\ Paths!Copied(text)[Len(text) + 1] = Paths!Nul
         /\ \A c \in Paths!Memory : c > fSize => Paths!Copied(text)[c] = fJunk
  <1> DEFINE whole == Append(text, Paths!Nul)
  <1>1. Len(text) \in Nat /\ fSize \in Nat
    BY DEF BufferSane
  <1>2. text \in Seq(PathChars) /\ Paths!Nul \in PathChars
    BY DEF PathChars
  <1>3. /\ whole \in Seq(PathChars) /\ Len(whole) = Len(text) + 1
        /\ whole[Len(text) + 1] = Paths!Nul
        /\ \A c \in 1 .. Len(text) : whole[c] = text[c]
    BY <1>2, AppendProperties
  <1> HIDE DEF whole
  <1>4. Len(whole) <= fSize
    BY <1>1, <1>3
  <1>5. Paths!Copied(text) = Paths!Written(whole)
    BY DEF Paths!Copied, whole
  <1>6. \A c \in 1 .. Len(text) : c \in 1 .. Len(whole)
    BY <1>1, <1>3
  <1>7. Len(text) + 1 \in 1 .. Len(whole)
    BY <1>1, <1>3
  <1>8. QED
    BY <1>3, <1>4, <1>5, <1>6, <1>7, WrittenIs

LEMMA CopiedNIs ==
  ASSUME ServicesAssumption, BufferSane, NEW text \in Seq(Paths!Chars)
  PROVE  /\ Paths!CopiedN(text) \in [Paths!Memory -> PathChars]
         /\ \A c \in 1 .. fSize :
              Paths!CopiedN(text)[c] = IF c <= Len(text) THEN text[c] ELSE Paths!Nul
         /\ \A c \in Paths!Memory : c > fSize => Paths!CopiedN(text)[c] = fJunk
  <1> DEFINE whole == [c \in 1 .. fSize |-> IF c <= Len(text) THEN text[c] ELSE Paths!Nul]
  <1>1. Len(text) \in Nat /\ fSize \in Nat
    BY DEF BufferSane
  <1>2. \A c \in 1 .. fSize : c <= Len(text) => text[c] \in PathChars
    <2>1. \A c \in 1 .. fSize : c <= Len(text) => c \in 1 .. Len(text)
      BY <1>1
    <2>2. QED
      BY <2>1, ElementOfSeq DEF PathChars
  <1>3. whole \in [1 .. fSize -> PathChars]
    BY <1>2 DEF PathChars
  <1>4. whole \in Seq(PathChars) /\ Len(whole) = fSize
    <2> HIDE DEF whole
    <2>1. QED
      BY <1>1, <1>3
  <1>5. Paths!CopiedN(text) = Paths!Written(whole)
    BY DEF Paths!CopiedN
  <1>6. Len(whole) <= fSize
    BY <1>1, <1>4
  <1>7. \A c \in 1 .. fSize : whole[c] = IF c <= Len(text) THEN text[c] ELSE Paths!Nul
    OBVIOUS
  <1> HIDE DEF whole
  <1>8. QED
    BY <1>4, <1>5, <1>6, <1>7, WrittenIs

-----------------------------------------------------------------------------
(* The invariant of ms_path adds to PathsExact and JoinSplits that what    *)
(* the next call reads is the path given or, joined to a name, the two     *)
(* with a separator between them, and that it fits the buffer then.        *)
NameJoined ==
  /\ fInput # fFirst /\ fFirst # << >> /\ Paths!Last(fFirst) # Paths!Sep
  /\ fSecond # << >> /\ ~ Paths!Contains(fSecond, Paths!Sep)

InputMeans ==
  /\ fInput \in Seq(Paths!Chars) /\ fSecond \in Seq(Paths!Chars)
  /\ fCall = "none" => fInput = fFirst
  /\ NameJoined => Len(fInput) < fSize /\ fInput = Append(fFirst, Paths!Sep) \o fSecond

PathInv == BufferSane /\ InputMeans /\ PathsAgree

(* What a joined path is cut into. *)
LEMMA JoinedIs ==
  ASSUME NEW S, NEW a \in Seq(S), NEW b \in Seq(S), Paths!Sep \in S,
         b # << >>, ~ Paths!Contains(b, Paths!Sep)
  PROVE  LET s == Append(a, Paths!Sep) \o b
         IN  /\ NameOf(s) = b /\ Paths!LastSep(s) = Len(a) + 1
             /\ s \in Seq(S) /\ Len(s) = Len(a) + 1 + Len(b) /\ Len(b) >= 1
             /\ \A c \in 1 .. Len(a) : s[c] = a[c]
  <1> DEFINE h == Append(a, Paths!Sep)
             s == h \o b
             k == Len(a) + 1
  <1>1. /\ h \in Seq(S) /\ Len(h) = k /\ h[k] = Paths!Sep
        /\ \A c \in 1 .. Len(a) : h[c] = a[c]
    BY AppendProperties
  <1>2. Len(a) \in Nat /\ Len(b) \in Nat /\ k \in Nat \ {0} /\ k = Len(a) + 1
    OBVIOUS
  <1>3. Len(b) # 0
    BY EmptySeq
  <1> HIDE DEF h, k
  <1>4. /\ s \in Seq(S) /\ Len(s) = Len(h) + Len(b)
        /\ \A c \in 1 .. Len(h) + Len(b) : s[c] = IF c <= Len(h) THEN h[c] ELSE b[c - Len(h)]
    BY <1>1, ConcatProperties
  <1> HIDE DEF s
  <1>5. \A c \in 1 .. Len(a) : s[c] = a[c]
    <2>1. \A c \in 1 .. Len(a) : c \in 1 .. Len(h) + Len(b) /\ c <= Len(h)
      BY <1>1, <1>2
    <2>2. QED
      BY <1>1, <1>4, <2>1
  <1>6. k \in 1 .. Len(s) /\ s[k] = Paths!Sep
    <2>1. k \in 1 .. Len(h) + Len(b) /\ k <= Len(h)
      BY <1>1, <1>2
    <2>2. QED
      BY <1>1, <1>4, <2>1
  <1>7. \A i \in 1 .. Len(b) : b[i] # Paths!Sep
    BY DEF Paths!Contains
  <1>8. \A c \in 1 .. Len(s) : c > k => s[c] # Paths!Sep
    <2> SUFFICES ASSUME NEW c \in 1 .. Len(s), c > k PROVE s[c] # Paths!Sep
      OBVIOUS
    <2>1. c \in 1 .. Len(h) + Len(b) /\ ~ (c <= Len(h)) /\ c - Len(h) \in 1 .. Len(b)
      BY <1>1, <1>2, <1>4
    <2>2. QED
      BY <1>4, <1>7, <2>1
  <1>9. Paths!LastSep(s) = k
    <2>1. /\ Paths!LastSep(s) \in 0 .. Len(s)
          /\ Paths!LastSep(s) # 0 => s[Paths!LastSep(s)] = Paths!Sep
          /\ \A c \in 1 .. Len(s) : c > Paths!LastSep(s) => s[c] # Paths!Sep
      BY <1>4, LastSepIs
    <2> DEFINE l == Paths!LastSep(s)
    <2> HIDE DEF l
    <2>2. /\ l \in 0 .. Len(s)
          /\ l # 0 => s[l] = Paths!Sep
          /\ \A c \in 1 .. Len(s) : c > l => s[c] # Paths!Sep
      BY <2>1 DEF l
    <2>3. Len(s) \in Nat
      BY <1>4
    <2>4. ~ (k > l)
      BY <1>6, <2>2
    <2>5. ~ (l > k)
      <3>1. l > k => l \in 1 .. Len(s) /\ l # 0
        BY <1>2, <2>2, <2>3
      <3>2. ASSUME l > k PROVE FALSE
        <4>1. s[l] = Paths!Sep /\ l \in 1 .. Len(s)
          BY <2>2, <3>1, <3>2
        <4>2. QED
          BY <1>8, <3>2, <4>1
      <3>3. QED
        BY <3>2
    <2>6. l = k
      BY <1>2, <2>2, <2>3, <2>4, <2>5
    <2>7. QED
      BY <2>6 DEF l
  <1>10. NameOf(s) = b
    <2>1. k + 1 \in 1 .. Len(s) + 1
      BY <1>6
    <2>2. /\ NameOf(s) \in Seq(S) /\ Len(NameOf(s)) = Len(s) - (k + 1) + 1
          /\ \A i \in 1 .. Len(s) - (k + 1) + 1 : NameOf(s)[i] = s[(k + 1) + i - 1]
      <3>1. NameOf(s) = Paths!From(s, k + 1)
        BY <1>9 DEF NameOf
      <3>2. s \in Seq(S) /\ k + 1 \in 1 .. Len(s) + 1
        BY <1>4, <2>1
      <3>3. QED
        BY <3>1, <3>2, FromIs
    <2>3. Len(NameOf(s)) = Len(b)
      BY <1>1, <1>2, <1>4, <2>2
    <2>4. ASSUME NEW i \in 1 .. Len(b) PROVE NameOf(s)[i] = b[i]
      <3>1. /\ i \in 1 .. Len(s) - (k + 1) + 1 /\ (k + 1) + i - 1 = k + i
            /\ k + i \in 1 .. Len(h) + Len(b) /\ ~ (k + i <= Len(h)) /\ (k + i) - Len(h) = i
        BY <1>1, <1>2, <1>4
      <3>2. QED
        BY <1>4, <2>2, <3>1
    <2>5. QED
      BY <2>2, <2>3, <2>4, SeqEqual
  <1>11. Len(s) = Len(a) + 1 + Len(b) /\ Len(b) >= 1
    BY <1>1, <1>2, <1>3, <1>4
  <1>12. QED
    BY <1>2, <1>4, <1>5, <1>9, <1>10, <1>11 DEF s, h

(* What a call that reads the input leaves of the invariant to show.  The  *)
(* two parts of PathsExact have names of their own.                        *)
Behind == \A c \in Paths!Memory : c > fSize => fBuffer[c] = fJunk

Exact ==
  \/ fCall \in {"filename", "extension"}
  \/ fCall = "parent" /\ (Len(fInput) # 1 \/ fJunk # Paths!DriveSep)
  => IF fResult = "success"
       THEN \E t \in Paths!Answers : Paths!Holds(t)
       ELSE \A t \in Paths!Answers : Len(IF fCall = "parent" THEN fInput ELSE t) >= fSize

LEMMA PathReads ==
  ASSUME PathInv, NEW name \in {"extension", "filename", "parent", "convert"},
         Paths!Call(name), UNCHANGED <<fSecond, fInput>>,
         fBuffer' \in [Paths!Memory -> PathChars], fResult' \in {"success", "length"},
         Behind', Exact', Paths!JoinSplits'
  PROVE  PathInv'
  <1>1. /\ fFirst' = fFirst /\ fSecond' = fSecond /\ fSize' = fSize /\ fJunk' = fJunk
        /\ fInput' = fInput /\ fCall' = name /\ fCall' # "none"
    BY DEF Paths!Call
  <1>2. BufferSane'
    BY <1>1 DEF PathInv, BufferSane
  <1>3. InputMeans'
    BY <1>1 DEF PathInv, InputMeans, NameJoined
  <1>4. Paths!TypeOK'
    BY <1>1 DEF PathInv, PathsAgree, Paths!TypeOK, PathChars
  <1>5. Paths!PathsExact'
    BY DEF Behind, Exact, Paths!PathsExact
  <1>6. QED
    BY <1>2, <1>3, <1>4, <1>5 DEF PathInv, PathsAgree

LEMMA GetExtensionKeeps ==
  ASSUME PathInv, Paths!GetExtension
  PROVE  PathInv'
  <1>0. PICK text : text = ExtensionOf(fInput)
    OBVIOUS
  <1>1. /\ Paths!Call("extension") /\ UNCHANGED <<fSecond, fInput>> /\ fCall' = "extension"
        /\ fSize' = fSize /\ fJunk' = fJunk /\ fInput' = fInput
        /\ IF Len(text) < fSize
             THEN fBuffer' = Paths!Copied(text) /\ fResult' = "success"
             ELSE fBuffer' = Paths!Unwritten /\ fResult' = "length"
    BY <1>0 DEF Paths!GetExtension, Paths!Call, ExtensionOf, NameOf
  <1>2. BufferSane /\ fInput \in Seq(Paths!Chars) /\ fSize \in Nat
    BY DEF PathInv, InputMeans, BufferSane
  <1>3. text \in Seq(Paths!Chars) /\ Paths!Answers' = {text}
    <2>1. /\ text \in Seq(Paths!Chars) /\ text \in Paths!Suffixes(fInput)
          /\ \A t : Paths!IsExtension(t, fInput) <=> t = text
      BY <1>0, <1>2, ExtensionOfIs
    <2>2. Paths!Answers' = {t \in Paths!Suffixes(fInput) : Paths!IsExtension(t, fInput)}
      BY <1>1 DEF Paths!Answers
    <2>3. QED
      BY <2>1, <2>2
  <1>4. Paths!JoinSplits'
    BY <1>1 DEF Paths!JoinSplits
  <1>5. CASE Len(text) < fSize
    <2>1. fBuffer' = Paths!Copied(text) /\ fResult' = "success"
      BY <1>1, <1>5
    <2>2. /\ Paths!Copied(text) \in [Paths!Memory -> PathChars]
          /\ \A c \in 1 .. Len(text) : Paths!Copied(text)[c] = text[c]
          /\ Paths!Copied(text)[Len(text) + 1] = Paths!Nul
          /\ \A c \in Paths!Memory : c > fSize => Paths!Copied(text)[c] = fJunk
      BY <1>2, <1>3, <1>5, CopiedIs, ServicesAssumption
    <2>3. Behind'
      BY <1>1, <2>1, <2>2 DEF Behind
    <2>4. Paths!Holds(text)'
      <3>1. DOMAIN text = 1 .. Len(text)
        BY <1>3
      <3>2. QED
        BY <1>1, <1>5, <2>1, <2>2, <3>1 DEF Paths!Holds
    <2>5. \E t \in Paths!Answers' : Paths!Holds(t)'
      BY <1>3, <2>4
    <2>6. Exact'
      BY <2>1, <2>5 DEF Exact
    <2>7. QED
      BY <1>1, <1>4, <2>1, <2>2, <2>3, <2>6, PathReads
  <1>6. CASE ~ (Len(text) < fSize)
    <2>1. fBuffer' = Paths!Unwritten /\ fResult' = "length"
      BY <1>1, <1>6
    <2>2. /\ Paths!Unwritten \in [Paths!Memory -> PathChars]
          /\ \A c \in Paths!Memory : Paths!Unwritten[c] = fJunk
      BY <1>2, UnwrittenIs
    <2>3. Behind'
      BY <1>1, <2>1, <2>2 DEF Behind
    <2>4. \A t \in Paths!Answers' : Len(t) >= fSize
      <3>1. Len(text) \in Nat
        BY <1>3
      <3>2. QED
        BY <1>2, <1>3, <1>6, <3>1
    <2>5. Exact'
      BY <1>1, <2>1, <2>4 DEF Exact
    <2>6. QED
      BY <1>1, <1>4, <2>1, <2>2, <2>3, <2>5, PathReads
  <1>7. QED
    BY <1>5, <1>6

LEMMA ConvertSlashesKeeps ==
  ASSUME PathInv, Paths!ConvertSlashes
  PROVE  PathInv'
  <1> DEFINE text == [c \in DOMAIN fInput |->
                        IF fInput[c] = Paths!Win32Sep THEN Paths!Sep ELSE fInput[c]]
  <1>1. /\ Paths!Call("convert") /\ UNCHANGED <<fSecond, fInput>> /\ fCall' = "convert"
        /\ fSize' = fSize /\ fJunk' = fJunk
        /\ Len(fInput) < fSize /\ fBuffer' = Paths!Copied(text) /\ fResult' = "success"
    BY DEF Paths!ConvertSlashes, Paths!Call
  <1>2. BufferSane /\ fInput \in Seq(Paths!Chars) /\ fSize \in Nat
    BY DEF PathInv, InputMeans, BufferSane
  <1>3. text \in Seq(Paths!Chars) /\ Len(text) = Len(fInput)
    <2>1. DOMAIN fInput = 1 .. Len(fInput) /\ Len(fInput) \in Nat
      BY <1>2
    <2>2. \A c \in 1 .. Len(fInput) : fInput[c] \in Paths!Chars
      BY <1>2, ElementOfSeq
    <2>3. text \in [1 .. Len(fInput) -> Paths!Chars]
      BY <2>1, <2>2 DEF Paths!Chars
    <2> HIDE DEF text
    <2>4. QED
      BY <2>1, <2>3
  <1> HIDE DEF text
  <1>4. /\ Paths!Copied(text) \in [Paths!Memory -> PathChars]
        /\ \A c \in Paths!Memory : c > fSize => Paths!Copied(text)[c] = fJunk
    BY <1>1, <1>2, <1>3, CopiedIs, ServicesAssumption
  <1>5. Behind'
    BY <1>1, <1>4 DEF Behind
  <1>6. Exact' /\ Paths!JoinSplits'
    BY <1>1 DEF Exact, Paths!JoinSplits
  <1>7. QED
    BY <1>1, <1>4, <1>5, <1>6, PathReads

(* The name a joined path ends in is the one joined to it. *)
LEMMA NameJoinedIs ==
  ASSUME PathInv, NameJoined
  PROVE  /\ fFirst \in Seq(Paths!Chars) /\ Len(fFirst) \in Nat \ {0}
         /\ NameOf(fInput) = fSecond /\ Paths!LastSep(fInput) = Len(fFirst) + 1
         /\ Len(fInput) >= Len(fFirst) + 2 /\ Len(fInput) < fSize
         /\ \A c \in 1 .. Len(fFirst) : fInput[c] = fFirst[c]
  <1>1. /\ fFirst \in Seq(Paths!Chars) /\ fSecond \in Seq(Paths!Chars)
        /\ fSecond # << >> /\ ~ Paths!Contains(fSecond, Paths!Sep)
        /\ Len(fInput) < fSize /\ fInput = Append(fFirst, Paths!Sep) \o fSecond
    BY PathsAreTexts DEF PathInv, InputMeans, NameJoined, PathsAgree, Paths!TypeOK
  <1>2. Paths!Sep \in Paths!Chars
    BY DEF Paths!Chars
  <1>3. /\ NameOf(fInput) = fSecond /\ Paths!LastSep(fInput) = Len(fFirst) + 1
        /\ Len(fInput) = Len(fFirst) + 1 + Len(fSecond) /\ Len(fSecond) >= 1
        /\ \A c \in 1 .. Len(fFirst) : fInput[c] = fFirst[c]
    BY <1>1, <1>2, JoinedIs
  <1>4. Len(fFirst) \in Nat \ {0}
    BY <1>1, EmptySeq DEF NameJoined
  <1>5. Len(fInput) >= Len(fFirst) + 2
    <2>1. Len(fSecond) \in Nat
      BY <1>1
    <2>2. QED
      BY <1>3, <1>4, <2>1
  <1>6. QED
    BY <1>1, <1>3, <1>4, <1>5

LEMMA GetFilenameKeeps ==
  ASSUME PathInv, Paths!GetFilename
  PROVE  PathInv'
  <1>0. PICK text : text = NameOf(fInput)
    OBVIOUS
  <1>1. /\ Paths!Call("filename") /\ UNCHANGED <<fSecond, fInput>> /\ fCall' = "filename"
        /\ fFirst' = fFirst /\ fSecond' = fSecond
        /\ fSize' = fSize /\ fJunk' = fJunk /\ fInput' = fInput
        /\ fBuffer' = Paths!CopiedN(text)
        /\ fResult' = IF fBuffer'[fSize] = Paths!Nul THEN "success" ELSE "length"
    BY <1>0 DEF Paths!GetFilename, Paths!Call, NameOf
  <1>2. /\ BufferSane /\ fInput \in Seq(Paths!Chars) /\ fSize \in Nat /\ fSize \in 1 .. fSize
        /\ MaxBuffer \in Nat /\ Paths!Memory = 1 .. MaxBuffer + 2 /\ fSize <= MaxBuffer
    BY ServicesAssumption
    DEF PathInv, InputMeans, BufferSane, ServicesAssumption, Paths!Memory
  <1>3. /\ text \in Seq(Paths!Chars) /\ Paths!Answers' = {text}
        /\ Len(text) \in Nat /\ DOMAIN text = 1 .. Len(text)
    <2>1. /\ text \in Seq(Paths!Chars) /\ text \in Paths!Suffixes(fInput)
          /\ \A t : Paths!IsName(t, fInput) <=> t = text
      BY <1>0, <1>2, NameOfIs
    <2>2. Paths!Answers' = {t \in Paths!Suffixes(fInput) : Paths!IsName(t, fInput)}
      BY <1>1 DEF Paths!Answers
    <2>3. QED
      BY <2>1, <2>2
  <1>4. /\ fBuffer' \in [Paths!Memory -> PathChars]
        /\ \A c \in 1 .. fSize : fBuffer'[c] = IF c <= Len(text) THEN text[c] ELSE Paths!Nul
        /\ \A c \in Paths!Memory : c > fSize => fBuffer'[c] = fJunk
    BY <1>1, <1>2, <1>3, CopiedNIs, ServicesAssumption
  <1>5. Behind'
    BY <1>1, <1>4 DEF Behind
  <1>6. fResult' = IF Len(text) < fSize THEN "success" ELSE "length"
    <2>1. CASE Len(text) < fSize
      <3>1. fBuffer'[fSize] = Paths!Nul
        <4>1. ~ (fSize <= Len(text))
          BY <1>2, <1>3, <2>1
        <4>2. QED
          BY <1>2, <1>4, <4>1
      <3>2. QED
        BY <1>1, <2>1, <3>1
    <2>2. CASE ~ (Len(text) < fSize)
      <3>1. fSize <= Len(text) /\ fSize \in 1 .. Len(text)
        BY <1>2, <1>3, <2>2
      <3>2. fBuffer'[fSize] = text[fSize] /\ text[fSize] \in Paths!Chars
        BY <1>2, <1>3, <1>4, <3>1, ElementOfSeq
      <3>3. fBuffer'[fSize] # Paths!Nul
        BY <3>2 DEF Paths!Chars, Paths!Nul, Paths!Sep, Paths!Ext, Paths!Win32Sep, Paths!DriveSep
      <3>4. QED
        BY <1>1, <2>2, <3>3
    <2>3. QED
      BY <2>1, <2>2
  <1>7. ASSUME Len(text) < fSize PROVE Paths!Holds(text)'
    <2>1. \A c \in 1 .. Len(text) : c \in 1 .. fSize /\ c <= Len(text)
      BY <1>2, <1>3, <1>7
    <2>2. \A c \in 1 .. Len(text) : fBuffer'[c] = text[c]
      BY <1>4, <2>1
    <2>3. Len(text) + 1 \in 1 .. fSize /\ ~ (Len(text) + 1 <= Len(text))
      BY <1>2, <1>3, <1>7
    <2>4. fBuffer'[Len(text) + 1] = Paths!Nul
      BY <1>4, <2>3
    <2>5. QED
      BY <1>1, <1>3, <1>7, <2>2, <2>4 DEF Paths!Holds
  <1>8. Exact'
    <2>1. CASE Len(text) < fSize
      <3>1. fResult' = "success" /\ \E t \in Paths!Answers' : Paths!Holds(t)'
        BY <1>3, <1>6, <1>7, <2>1
      <3>2. QED
        BY <3>1 DEF Exact
    <2>2. CASE ~ (Len(text) < fSize)
      <3>1. fResult' = "length" /\ Len(text) >= fSize
        BY <1>2, <1>3, <1>6, <2>2
      <3>2. \A t \in Paths!Answers' : Len(t) >= fSize
        BY <1>3, <3>1
      <3>3. QED
        BY <1>1, <3>1, <3>2 DEF Exact
    <2>3. QED
      BY <2>1, <2>2
  <1>9. Paths!JoinSplits'
    <2>1. ASSUME NameJoined PROVE Paths!Holds(fSecond)'
      <3>1. text = fSecond /\ Len(fInput) < fSize /\ Len(fInput) >= Len(fFirst) + 2
        BY <1>0, <2>1, NameJoinedIs
      <3>2. Len(text) < fSize
        <4>1. /\ Len(text) = Len(fInput) - Paths!LastSep(fInput) /\ Len(fInput) \in Nat
              /\ Paths!LastSep(fInput) \in 0 .. Len(fInput)
          BY <1>0, <1>2, NameOfIs, LastSepIs
        <4>2. QED
          BY <1>2, <1>3, <3>1, <4>1
      <3>3. QED
        BY <1>1, <1>7, <3>1, <3>2
    <2>2. QED
      BY <1>1, <2>1 DEF NameJoined, Paths!JoinSplits
  <1>10. QED
    BY <1>1, <1>4, <1>5, <1>6, <1>8, <1>9, PathReads

(* The places ms_path_get_parent cuts at: behind a drive, if it takes what *)
(* it copied for one, or before the last separator.                        *)
LEMMA GetParentKeeps ==
  ASSUME PathInv, Paths!GetParent
  PROVE  PathInv'
  <1> DEFINE n == Len(fInput)
             last == Paths!LastSep(fInput)
             offset == IF last = 0 THEN 0 ELSE last - 1
             path == IF n < fSize THEN Paths!Written(fInput)
                                  ELSE Paths!Written(SubSeq(fInput, 1, fSize))
             drive == offset = 0 /\ fInput # << >> /\ fSize > 1 /\ path[2] = Paths!DriveSep
             cut == IF drive THEN 3 ELSE offset + 1
  <1>1. /\ Paths!Call("parent") /\ UNCHANGED <<fSecond, fInput>> /\ fCall' = "parent"
        /\ fFirst' = fFirst /\ fSecond' = fSecond
        /\ fSize' = fSize /\ fJunk' = fJunk /\ fInput' = fInput
        /\ \/ /\ n >= fSize \/ (drive /\ fSize < 3)
              /\ fBuffer' = path /\ fResult' = "length"
           \/ /\ n < fSize /\ ~ (drive /\ fSize < 3)
              /\ fBuffer' = [path EXCEPT ![cut] = Paths!Nul] /\ fResult' = "success"
    BY DEF Paths!GetParent, Paths!Call
  <1>2. /\ BufferSane /\ fInput \in Seq(Paths!Chars) /\ fSize \in Nat /\ fSize \in 1 .. MaxBuffer
        /\ MaxBuffer \in Nat /\ Paths!Memory = 1 .. MaxBuffer + 2 /\ n \in Nat
        /\ fInput \in Seq(PathChars) /\ DOMAIN fInput = 1 .. n
    BY ServicesAssumption
    DEF PathInv, InputMeans, BufferSane, ServicesAssumption, Paths!Memory, PathChars
  <1>3. /\ last \in 0 .. n
        /\ last # 0 => fInput[last] = Paths!Sep
        /\ \A c \in 1 .. n : c > last => fInput[c] # Paths!Sep
    BY <1>2, LastSepIs
  <1>4. fInput = << >> <=> n = 0
    BY <1>2, EmptySeq
  <1>5. /\ path \in [Paths!Memory -> PathChars]
        /\ \A c \in Paths!Memory : c > fSize => path[c] = fJunk
    <2>1. CASE n < fSize
      <3>1. n <= fSize
        BY <1>2, <2>1
      <3>2. QED
        BY <1>2, <2>1, <3>1, WrittenIs, ServicesAssumption
    <2>2. CASE ~ (n < fSize)
      <3> DEFINE text == SubSeq(fInput, 1, fSize)
      <3>1. fSize \in 0 .. Len(fInput)
        BY <1>2, <2>2
      <3>2. text \in Seq(PathChars) /\ Len(text) = fSize
        BY <1>2, <3>1, UpTo
      <3> HIDE DEF text
      <3>3. Len(text) <= fSize
        BY <1>2, <3>2
      <3>4. path = Paths!Written(text)
        BY <2>2 DEF text
      <3>5. QED
        BY <1>2, <3>2, <3>3, <3>4, WrittenIs, ServicesAssumption
    <2>3. QED
      BY <2>1, <2>2
  <1>6. ASSUME n < fSize
        PROVE  /\ \A c \in 1 .. n : path[c] = fInput[c]
               /\ \A c \in Paths!Memory : c > n => path[c] = fJunk
    <2>1. path = Paths!Written(fInput) /\ n <= fSize
      BY <1>2, <1>6
    <2>2. QED
      BY <1>2, <2>1, WrittenIs, ServicesAssumption
  <1> HIDE DEF n, last, path
  <1>7. offset \in 0 .. n /\ cut \in Nat /\ (offset = 0 <=> last \in {0, 1})
    BY <1>2, <1>3
  <1>8. ASSUME n < fSize, n # 1 \/ fJunk # Paths!DriveSep
        PROVE  drive <=> Paths!HasDrive(fInput)
    <2>1. Paths!HasDrive(fInput) <=>
            n >= 2 /\ fInput[2] = Paths!DriveSep /\ \A c \in 2 .. n : fInput[c] # Paths!Sep
      BY DEF Paths!HasDrive, n
    <2>2. CASE n = 0
      BY <1>2, <1>4, <2>1, <2>2
    <2>3. CASE n = 1
      <3>1. fSize > 1 => 2 \in Paths!Memory /\ 2 > n
        BY <1>2, <2>3
      <3>2. fSize > 1 => path[2] = fJunk
        BY <1>6, <1>8, <3>1
      <3>3. QED
        BY <1>2, <1>8, <2>1, <2>3, <3>2
    <2>4. CASE n >= 2
      <3>1. path[2] = fInput[2] /\ fSize > 1
        BY <1>2, <1>6, <1>8, <2>4
      <3>2. offset = 0 <=> \A c \in 2 .. n : fInput[c] # Paths!Sep
        <4>1. last \in {0, 1} => \A c \in 2 .. n : c \in 1 .. n /\ c > last
          BY <1>2
        <4>2. last \notin {0, 1} => last \in 2 .. n
          BY <1>2, <1>3
        <4>3. QED
          BY <1>3, <1>7, <4>1, <4>2
      <3>3. QED
        BY <1>2, <1>4, <2>1, <2>4, <3>1, <3>2
    <2>5. QED
      BY <1>2, <2>2, <2>3, <2>4
  <1>9. ASSUME NameJoined
        PROVE  ~ drive /\ n < fSize /\ offset = Len(fFirst) /\ offset # 0 /\ Len(fFirst) \in Nat
    <2>1. /\ last = Len(fFirst) + 1 /\ n < fSize /\ Len(fFirst) \in Nat \ {0}
      BY <1>9, NameJoinedIs DEF n, last
    <2>2. QED
      BY <2>1
  <1> HIDE DEF offset, drive, cut
  <1>10. CASE fBuffer' = path /\ fResult' = "length" /\ (n >= fSize \/ (drive /\ fSize < 3))
    <2>1. fBuffer' \in [Paths!Memory -> PathChars] /\ Behind'
      BY <1>1, <1>5, <1>10 DEF Behind
    <2>2. ASSUME n # 1 \/ fJunk # Paths!DriveSep PROVE n >= fSize
      <3>1. ASSUME n < fSize PROVE FALSE
        <4>1. drive /\ fSize < 3
          BY <1>2, <1>10, <3>1
        <4>2. Paths!HasDrive(fInput)
          BY <1>8, <2>2, <3>1, <4>1
        <4>3. n >= 2
          BY <4>2 DEF Paths!HasDrive, n
        <4>4. QED
          BY <1>2, <3>1, <4>1, <4>3
      <3>2. QED
        BY <1>2, <3>1
    <2>3. Exact'
      BY <1>1, <1>10, <2>2 DEF Exact, n
    <2>4. ~ NameJoined
      BY <1>2, <1>9, <1>10
    <2>5. Paths!JoinSplits'
      BY <1>1, <2>4 DEF NameJoined, Paths!JoinSplits
    <2>6. QED
      BY <1>1, <1>10, <2>1, <2>3, <2>5, PathReads
  <1>11. CASE /\ n < fSize /\ ~ (drive /\ fSize < 3)
              /\ fBuffer' = [path EXCEPT ![cut] = Paths!Nul] /\ fResult' = "success"
    <2>1. cut \in 1 .. fSize
      BY <1>2, <1>7, <1>11 DEF cut
    <2>2. cut \in Paths!Memory /\ fBuffer'[cut] = Paths!Nul
      <3>1. cut \in Paths!Memory
        BY <1>2, <2>1
      <3>2. QED
        BY <1>5, <1>11, <3>1
    <2>3. \A c \in Paths!Memory : c # cut => fBuffer'[c] = path[c]
      BY <1>5, <1>11
    <2>4. fBuffer' \in [Paths!Memory -> PathChars]
      BY <1>5, <1>11 DEF PathChars
    <2>5. Behind'
      <3>1. \A c \in Paths!Memory : c > fSize => c # cut
        BY <1>2, <2>1
      <3>2. QED
        BY <1>1, <1>5, <2>3, <3>1 DEF Behind
    <2>6. ASSUME NEW m \in 0 .. n, cut = m + 1
          PROVE  \A text \in Seq(Paths!Chars) :
                   Len(text) = m /\ (\A c \in 1 .. m : text[c] = fInput[c]) => Paths!Holds(text)'
      <3> SUFFICES ASSUME NEW text \in Seq(Paths!Chars), Len(text) = m,
                          \A c \in 1 .. m : text[c] = fInput[c]
                   PROVE  Paths!Holds(text)'
        OBVIOUS
      <3>1. Len(text) < fSize /\ DOMAIN text = 1 .. m
        BY <1>2, <1>11
      <3>2. \A c \in 1 .. m : c \in Paths!Memory /\ c # cut /\ c \in 1 .. n
        BY <1>2, <1>11, <2>6
      <3>3. \A c \in 1 .. m : fBuffer'[c] = text[c]
        BY <1>6, <1>11, <2>3, <3>2
      <3>4. fBuffer'[Len(text) + 1] = Paths!Nul
        BY <2>2, <2>6
      <3>5. QED
        BY <1>1, <3>1, <3>3, <3>4 DEF Paths!Holds
    <2>7. ASSUME n # 1 \/ fJunk # Paths!DriveSep
          PROVE  \E t \in Paths!Answers' : Paths!Holds(t)'
      <3>1. drive <=> Paths!HasDrive(fInput)
        BY <1>8, <1>11, <2>7
      <3>2. PICK m \in 0 .. n : m = IF drive THEN 2 ELSE offset
        <4>1. drive => n >= 2
          BY <3>1 DEF Paths!HasDrive, n
        <4>2. QED
          BY <1>2, <1>7, <4>1
      <3>3. cut = m + 1
        BY <3>2 DEF cut
      <3>4. PICK t : t = SubSeq(fInput, 1, m)
        OBVIOUS
      <3>5. /\ t \in Seq(Paths!Chars) /\ Len(t) = m /\ t \in Paths!Prefixes(fInput)
            /\ \A c \in 1 .. m : t[c] = fInput[c]
        <4>1. m \in 0 .. Len(fInput)
          BY DEF n
        <4>2. QED
          BY <1>2, <3>4, <4>1, UpTo DEF Paths!Prefixes
      <3>6. Paths!IsParent(t, fInput)
        <4>1. CASE drive
          BY <3>1, <3>2, <3>4, <4>1 DEF Paths!IsParent
        <4>2. CASE ~ drive /\ last = 0
          <5>1. m = 0
            BY <3>2, <4>2 DEF offset
          <5>2. t = << >>
            BY <3>5, <5>1, EmptySeq
          <5>3. \A c \in 1 .. Len(fInput) : fInput[c] # Paths!Sep
            BY <1>3, <4>2 DEF n
          <5>4. Paths!SplitsAt(fInput, Paths!Sep) = {}
            BY <1>2, <5>3, NoSplit
          <5>5. QED
            BY <3>1, <4>2, <5>2, <5>4 DEF Paths!IsParent
        <4>3. CASE ~ drive /\ last # 0
          <5>1. m = last - 1 /\ last \in 1 .. Len(fInput) /\ fInput[last] = Paths!Sep
            BY <1>2, <1>3, <3>2, <4>3 DEF offset, n
          <5>2. <<t, NameOf(fInput)>> \in Paths!SplitsAt(fInput, Paths!Sep)
            <6>1. <<SubSeq(fInput, 1, last - 1), Paths!From(fInput, last + 1)>>
                    \in Paths!SplitsAt(fInput, Paths!Sep)
              BY <1>2, <5>1, SplitIs
            <6>2. QED
              BY <3>4, <5>1, <6>1 DEF NameOf, last
          <5>3. Paths!SplitsAt(NameOf(fInput), Paths!Sep) = {}
            BY <1>2, NameOfIs, NoSplit
          <5>4. QED
            BY <3>1, <4>3, <5>2, <5>3 DEF Paths!IsParent
        <4>4. QED
          BY <4>1, <4>2, <4>3
      <3>7. t \in Paths!Answers'
        BY <1>1, <3>5, <3>6 DEF Paths!Answers
      <3>8. Paths!Holds(t)'
        BY <2>6, <3>3, <3>5
      <3>9. QED
        BY <3>7, <3>8
    <2>8. Exact'
      BY <1>1, <1>11, <2>7 DEF Exact, n
    <2>9. Paths!JoinSplits'
      <3>1. ASSUME NameJoined PROVE Paths!Holds(fFirst)'
        <4>1. PICK t : t = fFirst
          OBVIOUS
        <4>2. PICK m \in 0 .. n : m = offset
          BY <1>7
        <4>3. m = Len(t) /\ cut = m + 1
          BY <1>9, <3>1, <4>1, <4>2 DEF cut
        <4>4. t \in Seq(Paths!Chars) /\ \A c \in 1 .. m : t[c] = fInput[c]
          BY <3>1, <4>1, <4>3, NameJoinedIs
        <4>5. Paths!Holds(t)'
          BY <2>6, <4>3, <4>4
        <4>6. QED
          BY <1>1, <4>1, <4>5 DEF Paths!Holds
      <3>2. QED
        BY <1>1, <3>1 DEF NameJoined, Paths!JoinSplits
    <2>10. QED
      BY <1>1, <1>11, <2>4, <2>5, <2>8, <2>9, PathReads
  <1>12. QED
    BY <1>1, <1>10, <1>11 DEF offset, drive, cut

(* What fits the buffer was counted exactly, and the rest is left as far   *)
(* as it was written.                                                      *)
LEMMA JoinKeeps ==
  ASSUME PathInv, NEW s \in Paths!Paths, Paths!Join(s)
  PROVE  PathInv'
  <1> DEFINE takes == fFirst # << >> /\ Paths!Last(fFirst) # Paths!Sep /\ s # << >>
  <1>0. PICK joint, tail :
          /\ joint = IF takes THEN Append(fFirst, Paths!Sep) ELSE fFirst
          /\ tail = IF s # << >> /\ s[1] = Paths!Sep THEN Tail(s) ELSE s
    OBVIOUS
  <1>1. /\ fCall = "none" /\ fCall' = "join"
        /\ fFirst' = fFirst /\ fSecond' = s /\ fSize' = fSize /\ fJunk' = fJunk
        /\ \/ /\ fBuffer' = Paths!Unwritten /\ fResult' = "length" /\ fInput' = fInput
           \/ /\ fSize >= Len(fFirst) + 1
              /\ fBuffer' = Paths!Written(fFirst) /\ fResult' = "length" /\ fInput' = fInput
           \/ /\ fSize >= Len(fFirst) + 1 /\ (Len(joint) < fSize \/ joint = fFirst)
              /\ fBuffer' = Paths!Written(joint) /\ fResult' = "length" /\ fInput' = fInput
           \/ /\ Paths!JoinFits(joint, tail)
              /\ fBuffer' = Paths!Copied(joint \o tail) /\ fResult' = "success"
              /\ fInput' = joint \o tail
    BY <1>0 DEF Paths!Join, Paths!Call
  <1>2. /\ BufferSane /\ fSize \in Nat /\ fInput = fFirst /\ fFirst \in Seq(Paths!Chars)
        /\ fFirst \in Paths!Paths /\ s \in Seq(Paths!Chars)
    BY <1>1, PathsAreTexts
    DEF PathInv, InputMeans, BufferSane, PathsAgree, Paths!TypeOK
  <1>3. joint \in Seq(Paths!Chars) /\ tail \in Seq(Paths!Chars) /\ joint \in Seq(PathChars)
        /\ fFirst \in Seq(PathChars) /\ Len(fFirst) \in Nat /\ Len(joint) \in Nat /\ Len(tail) \in Nat
    <2>1. Paths!Sep \in Paths!Chars
      BY DEF Paths!Chars
    <2>2. joint \in Seq(Paths!Chars)
      BY <1>0, <1>2, <2>1, AppendProperties
    <2>3. tail \in Seq(Paths!Chars)
      BY <1>0, <1>2, HeadTailProperties
    <2>4. QED
      BY <1>2, <2>2, <2>3 DEF PathChars
  <1>4. ASSUME fResult' = "length", fInput' = fInput,
               fBuffer' \in [Paths!Memory -> PathChars],
               \A c \in Paths!Memory : c > fSize => fBuffer'[c] = fJunk
        PROVE  PathInv'
    <2>1. BufferSane'
      BY <1>1, <1>2 DEF BufferSane
    <2>2. fInput' = fFirst'
      BY <1>1, <1>2, <1>4
    <2>3. InputMeans'
      BY <1>1, <1>2, <2>2 DEF InputMeans, NameJoined
    <2>4. Paths!TypeOK'
      BY <1>1, <1>2, <1>4 DEF Paths!TypeOK, PathChars, BufferSane
    <2>5. Paths!PathsExact'
      BY <1>1, <1>4 DEF Paths!PathsExact
    <2>6. Paths!JoinSplits'
      BY <2>2 DEF Paths!JoinSplits
    <2>7. QED
      BY <2>1, <2>3, <2>4, <2>5, <2>6 DEF PathInv, PathsAgree
  <1>5. CASE fBuffer' = Paths!Unwritten /\ fResult' = "length" /\ fInput' = fInput
    <2>1. /\ Paths!Unwritten \in [Paths!Memory -> PathChars]
          /\ \A c \in Paths!Memory : Paths!Unwritten[c] = fJunk
      BY <1>2, UnwrittenIs
    <2>2. QED
      BY <1>4, <1>5, <2>1
  <1>6. CASE /\ fSize >= Len(fFirst) + 1
             /\ fBuffer' = Paths!Written(fFirst) /\ fResult' = "length" /\ fInput' = fInput
    <2>1. Len(fFirst) <= fSize
      BY <1>2, <1>3, <1>6
    <2>2. QED
      BY <1>2, <1>3, <1>4, <1>6, <2>1, WrittenIs, ServicesAssumption
  <1>7. CASE /\ fSize >= Len(fFirst) + 1 /\ (Len(joint) < fSize \/ joint = fFirst)
             /\ fBuffer' = Paths!Written(joint) /\ fResult' = "length" /\ fInput' = fInput
    <2>1. Len(joint) <= fSize
      BY <1>2, <1>3, <1>7
    <2>2. QED
      BY <1>2, <1>3, <1>4, <1>7, <2>1, WrittenIs, ServicesAssumption
  <1>8. CASE /\ Paths!JoinFits(joint, tail)
             /\ fBuffer' = Paths!Copied(joint \o tail) /\ fResult' = "success"
             /\ fInput' = joint \o tail
    <2>1. PICK whole : whole = joint \o tail
      OBVIOUS
    <2>2. whole \in Seq(Paths!Chars) /\ Len(whole) = Len(joint) + Len(tail)
          /\ DOMAIN whole = 1 .. Len(whole)
      <3>1. whole \in Seq(Paths!Chars) /\ Len(whole) = Len(joint) + Len(tail)
        BY <1>3, <2>1, ConcatProperties
      <3>2. QED
        BY <3>1
    <2>3. Len(whole) < fSize
      BY <1>2, <1>3, <1>8, <2>2 DEF Paths!JoinFits
    <2>4. fBuffer' = Paths!Copied(whole) /\ fInput' = whole /\ fResult' = "success"
      BY <1>8, <2>1
    <2>5. /\ Paths!Copied(whole) \in [Paths!Memory -> PathChars]
          /\ \A c \in 1 .. Len(whole) : Paths!Copied(whole)[c] = whole[c]
          /\ Paths!Copied(whole)[Len(whole) + 1] = Paths!Nul
          /\ \A c \in Paths!Memory : c > fSize => Paths!Copied(whole)[c] = fJunk
      BY <1>2, <2>2, <2>3, CopiedIs, ServicesAssumption
    <2>6. Paths!Holds(whole)'
      BY <1>1, <2>2, <2>3, <2>4, <2>5 DEF Paths!Holds
    <2>7. BufferSane'
      BY <1>1, <1>2 DEF BufferSane
    <2>8. NameJoined' => whole = Append(fFirst, Paths!Sep) \o s
      <3>1. ASSUME NameJoined' PROVE joint = Append(fFirst, Paths!Sep) /\ tail = s
        <4>1. /\ fFirst # << >> /\ Paths!Last(fFirst) # Paths!Sep
              /\ s # << >> /\ ~ Paths!Contains(s, Paths!Sep)
          BY <1>1, <3>1 DEF NameJoined
        <4>2. s[1] # Paths!Sep
          <5>1. 1 \in 1 .. Len(s)
            BY <1>2, <4>1, EmptySeq
          <5>2. QED
            BY <4>1, <5>1 DEF Paths!Contains
        <4>3. QED
          BY <1>0, <4>1, <4>2
      <3>2. QED
        BY <2>1, <3>1
    <2>9. InputMeans'
      BY <1>1, <1>2, <2>2, <2>3, <2>4, <2>8 DEF InputMeans
    <2>10. Paths!TypeOK'
      BY <1>1, <1>2, <2>4, <2>5 DEF Paths!TypeOK, PathChars, BufferSane
    <2>11. Paths!PathsExact'
      BY <1>1, <2>4, <2>5 DEF Paths!PathsExact
    <2>12. Paths!JoinSplits'
      <3>1. Paths!Holds(fInput)'
        BY <2>4, <2>6 DEF Paths!Holds
      <3>2. QED
        BY <1>1, <3>1 DEF Paths!JoinSplits
    <2>13. QED
      BY <2>7, <2>9, <2>10, <2>11, <2>12 DEF PathInv, PathsAgree
  <1>9. QED
    BY <1>1, <1>5, <1>6, <1>7, <1>8

LEMMA PathStarts == Paths!Init => PathInv
  <1> SUFFICES ASSUME Paths!Init PROVE PathInv
    OBVIOUS
  <1>1. BufferSane /\ fFirst \in Seq(Paths!Chars) /\ fFirst \in Paths!Paths
        /\ fInput = fFirst /\ fCall = "none" /\ fResult = "none" /\ fSecond = << >>
        /\ fBuffer = Paths!Unwritten
    BY PathsAreTexts DEF Paths!Init, BufferSane
  <1>2. << >> \in Paths!Paths /\ << >> \in Seq(Paths!Chars)
    <2>1. 0 \in 0 .. MaxPath
      BY ServicesAssumption DEF ServicesAssumption
    <2>2. << >> \in [1 .. 0 -> Paths!Chars]
      OBVIOUS
    <2>3. << >> \in UNION {[1 .. n -> Paths!Chars] : n \in 0 .. MaxPath}
      BY <2>1, <2>2
    <2>4. QED
      BY <2>3, PathsAreTexts DEF Paths!Paths
  <1>3. InputMeans
    BY <1>1, <1>2 DEF InputMeans, NameJoined
  <1>4. /\ Paths!Unwritten \in [Paths!Memory -> PathChars]
        /\ \A c \in Paths!Memory : Paths!Unwritten[c] = fJunk
    BY <1>1, UnwrittenIs
  <1>5. Paths!TypeOK
    BY <1>1, <1>2, <1>4 DEF Paths!TypeOK, PathChars, BufferSane
  <1>6. Paths!PathsExact
    BY <1>1, <1>4 DEF Paths!PathsExact
  <1>7. Paths!JoinSplits
    BY <1>1 DEF Paths!JoinSplits
  <1>8. QED
    BY <1>1, <1>3, <1>5, <1>6, <1>7 DEF PathInv, PathsAgree

LEMMA PathSteps == PathInv /\ [Paths!Next]_(Paths!vars) => PathInv'
  <1> SUFFICES ASSUME PathInv, [Paths!Next]_(Paths!vars) PROVE PathInv'
    OBVIOUS
  <1>1. CASE Paths!GetExtension
    BY <1>1, GetExtensionKeeps
  <1>2. CASE Paths!GetFilename
    BY <1>2, GetFilenameKeeps
  <1>3. CASE Paths!GetParent
    BY <1>3, GetParentKeeps
  <1>4. CASE Paths!ConvertSlashes
    BY <1>4, ConvertSlashesKeeps
  <1>5. CASE \E s \in Paths!Paths : Paths!Join(s)
    BY <1>5, JoinKeeps
  <1>6. CASE UNCHANGED Paths!vars
    BY <1>6 DEF PathInv, PathsAgree, BufferSane, InputMeans, NameJoined,
                Paths!vars, Paths!TypeOK, Paths!PathsExact, Paths!JoinSplits,
                Paths!Answers, Paths!Holds
  <1>7. QED
    BY <1>1, <1>2, <1>3, <1>4, <1>5, <1>6 DEF Paths!Next

(***************************************************************************)
(* Each call of ms_path answers the name, extension, parent or joined path *)
(* as a string that fits the buffer, refuses exactly when it does not fit, *)
(* writes nothing behind the buffer, and takes apart what was joined, for  *)
(* paths and buffers of any size.                                          *)
(***************************************************************************)
THEOREM PathAnswers == Paths!Spec => []PathsAgree
  <1>1. PathInv => PathsAgree
    BY DEF PathInv
  <1>2. QED
    BY <1>1, PathStarts, PathSteps, PTL DEF Paths!Spec
-----------------------------------------------------------------------------
(* The configuration parser.  First the pieces of a line.                  *)
LEMMA Between ==
  ASSUME NEW S, NEW s \in Seq(S), NEW a \in 1 .. Len(s) + 1, NEW z \in a - 1 .. Len(s)
  PROVE  /\ SubSeq(s, a, z) \in Seq(S) /\ Len(SubSeq(s, a, z)) = z - a + 1
         /\ \A i \in 1 .. z - a + 1 : SubSeq(s, a, z)[i] = s[a + i - 1]
  <1>1. Len(s) \in Nat /\ a \in Int /\ z \in Int /\ a >= 1 /\ z <= Len(s) /\ z >= a - 1
    OBVIOUS
  <1>2. \A i \in a .. z : s[i] \in S
    BY <1>1, ElementOfSeq
  <1>3. /\ SubSeq(s, a, z) \in Seq(S)
        /\ Len(SubSeq(s, a, z)) = IF a <= z THEN z - a + 1 ELSE 0
        /\ \A i \in 1 .. z - a + 1 : SubSeq(s, a, z)[i] = s[a + i - 1]
    <2>1. a \in Int /\ z \in Int
      BY <1>1
    <2>2. QED
      BY <1>2, <2>1, SubSeqProperties
  <1>4. (IF a <= z THEN z - a + 1 ELSE 0) = z - a + 1
    BY <1>1
  <1>5. QED
    BY <1>3, <1>4

(* A piece of a piece. *)
LEMMA BetweenBetween ==
  ASSUME NEW S, NEW s \in Seq(S), NEW a \in 1 .. Len(s) + 1, NEW z \in a - 1 .. Len(s),
         NEW i \in 1 .. z - a + 2, NEW j \in i - 1 .. z - a + 1
  PROVE  SubSeq(SubSeq(s, a, z), i, j) = SubSeq(s, a + i - 1, a + j - 1)
  <1>1. PICK t, b, y : t = SubSeq(s, a, z) /\ b = a + i - 1 /\ y = a + j - 1
    OBVIOUS
  <1>2. /\ Len(s) \in Nat /\ a \in Int /\ z \in Int /\ i \in Int /\ j \in Int
        /\ b \in 1 .. Len(s) + 1 /\ y \in b - 1 .. Len(s) /\ y - b = j - i
    BY <1>1
  <1>3. /\ t \in Seq(S) /\ Len(t) = z - a + 1
        /\ \A k \in 1 .. z - a + 1 : t[k] = s[a + k - 1]
    <2>1. /\ SubSeq(s, a, z) \in Seq(S) /\ Len(SubSeq(s, a, z)) = z - a + 1
          /\ \A k \in 1 .. z - a + 1 : SubSeq(s, a, z)[k] = s[a + k - 1]
      BY Between
    <2>2. QED
      BY <1>1, <2>1
  <1>4. i \in 1 .. Len(t) + 1 /\ j \in i - 1 .. Len(t)
    BY <1>2, <1>3
  <1>5. PICK u, v : u = SubSeq(t, i, j) /\ v = SubSeq(s, b, y)
    OBVIOUS
  <1>6. /\ u \in Seq(S) /\ Len(u) = j - i + 1
        /\ \A k \in 1 .. j - i + 1 : u[k] = t[i + k - 1]
    <2>1. t \in Seq(S)
      BY <1>3
    <2>2. QED
      BY <1>4, <1>5, <2>1, Between
  <1>7. /\ v \in Seq(S) /\ Len(v) = y - b + 1
        /\ \A k \in 1 .. y - b + 1 : v[k] = s[b + k - 1]
    BY <1>2, <1>5, Between
  <1>8. Len(u) = Len(v)
    BY <1>2, <1>6, <1>7
  <1>9. ASSUME NEW k \in 1 .. Len(u) PROVE u[k] = v[k]
    <2>1. /\ k \in 1 .. j - i + 1 /\ k \in 1 .. y - b + 1 /\ i + k - 1 \in 1 .. z - a + 1
          /\ a + (i + k - 1) - 1 = b + k - 1
      <3>1. k \in 1 .. j - i + 1 /\ b = a + i - 1
        BY <1>1, <1>6
      <3>2. j - i + 1 = y - b + 1 /\ j <= z - a + 1 /\ i >= 1
        BY <1>2
      <3>3. QED
        BY <1>2, <3>1, <3>2
    <2>2. u[k] = t[i + k - 1]
      BY <1>6, <2>1
    <2>3. t[i + k - 1] = s[a + (i + k - 1) - 1]
      BY <1>3, <2>1
    <2>4. v[k] = s[b + k - 1]
      BY <1>7, <2>1
    <2>5. QED
      BY <2>1, <2>2, <2>3, <2>4
  <1>10. u = v
    BY <1>6, <1>7, <1>8, <1>9, SeqEqual
  <1>11. QED
    BY <1>1, <1>5, <1>10

LEMMA BetweenNone ==
  ASSUME NEW S, NEW s \in Seq(S), NEW a \in 1 .. Len(s) + 1
  PROVE  SubSeq(s, a, a - 1) = << >>
  <1>1. a - 1 \in a - 1 .. Len(s) /\ (a - 1) - a + 1 = 0
    OBVIOUS
  <1>2. SubSeq(s, a, a - 1) \in Seq(S) /\ Len(SubSeq(s, a, a - 1)) = 0
    BY <1>1, Between
  <1>3. QED
    BY <1>2, EmptySeq

LEMMA BetweenAll ==
  ASSUME NEW S, NEW s \in Seq(S)
  PROVE  SubSeq(s, 1, Len(s)) = s
  <1>1. Len(s) \in Nat /\ 1 \in 1 .. Len(s) + 1 /\ Len(s) \in 1 - 1 .. Len(s)
    OBVIOUS
  <1>2. /\ SubSeq(s, 1, Len(s)) \in Seq(S) /\ Len(SubSeq(s, 1, Len(s))) = Len(s) - 1 + 1
        /\ \A i \in 1 .. Len(s) - 1 + 1 : SubSeq(s, 1, Len(s))[i] = s[1 + i - 1]
    BY <1>1, Between
  <1>3. QED
    BY <1>1, <1>2, SeqEqual

LEMMA LeastIs ==
  ASSUME NEW Q, Q \subseteq Nat, Q # {}
  PROVE  Configuration!Min(Q) \in Q /\ \A y \in Q : Configuration!Min(Q) <= y
  BY HasMinimum DEF Configuration!Min

LEMMA GreatestIs ==
  ASSUME NEW n \in Nat, NEW Q, Q \subseteq 0 .. n, Q # {}
  PROVE  Configuration!Max(Q) \in Q /\ \A y \in Q : y <= Configuration!Max(Q)
  <1>1. \E x \in Q : \A y \in Q : x >= y
    <2>1. PICK x \in Q : \A y \in Q : y <= x
      BY HasMaximum
    <2>2. QED
      BY <2>1
  <1>2. Configuration!Max(Q) \in Q /\ \A y \in Q : Configuration!Max(Q) >= y
    BY <1>1 DEF Configuration!Max
  <1>3. QED
    BY <1>2

(* The rest of the rest. *)
LEMMA RestOfRest ==
  ASSUME NEW S, NEW s \in Seq(S), NEW a \in 1 .. Len(s) + 1, NEW m \in 1 .. Len(s) - a + 1
  PROVE  SubSeq(SubSeq(s, a, Len(s)), m, Len(SubSeq(s, a, Len(s)))) = SubSeq(s, a + m - 1, Len(s))
  <1>1. PICK n, j : n = Len(s) /\ j = n - a + 1
    OBVIOUS
  <1>2. /\ n \in Nat /\ n \in a - 1 .. Len(s) /\ m \in 1 .. n - a + 2
        /\ j \in m - 1 .. n - a + 1 /\ a + j - 1 = n
    BY <1>1
  <1>3. Len(SubSeq(s, a, n)) = j
    BY <1>1, <1>2, Between
  <1>4. SubSeq(SubSeq(s, a, n), m, j) = SubSeq(s, a + m - 1, a + j - 1)
    BY <1>2, BetweenBetween
  <1>5. QED
    BY <1>1, <1>2, <1>3, <1>4

(* find_blank and find_non_blank, for the rest of a line: to the first     *)
(* blank or solid character, or to the end.                                *)
Void(c) == Configuration!IsBlank(c)

LEMMA NonBlankFrom ==
  ASSUME NEW S, NEW s \in Seq(S), NEW a \in 1 .. Len(s) + 1
  PROVE  \E p \in a .. Len(s) + 1 :
           /\ \A c \in a .. p - 1 : Void(s[c])
           /\ p <= Len(s) => ~ Void(s[p])
           /\ Configuration!FromNonBlank(SubSeq(s, a, Len(s))) = SubSeq(s, p, Len(s))
  <1>1. PICK t, found : t = SubSeq(s, a, Len(s)) /\ found = {c \in DOMAIN t : ~ Void(t[c])}
    OBVIOUS
  <1>2. /\ t \in Seq(S) /\ Len(t) = Len(s) - a + 1 /\ DOMAIN t = 1 .. Len(s) - a + 1
        /\ \A i \in 1 .. Len(s) - a + 1 : t[i] = s[a + i - 1]
    <2>1. Len(s) \in a - 1 .. Len(s)
      OBVIOUS
    <2>2. /\ t \in Seq(S) /\ Len(t) = Len(s) - a + 1
          /\ \A i \in 1 .. Len(s) - a + 1 : t[i] = s[a + i - 1]
      BY <1>1, <2>1, Between
    <2>3. DOMAIN t = 1 .. Len(t)
      BY <2>2
    <2>4. QED
      BY <2>2, <2>3
  <1>3. Configuration!FromNonBlank(t) =
          IF found = {} THEN << >> ELSE SubSeq(t, Configuration!Min(found), Len(t))
    BY <1>1 DEF Configuration!FromNonBlank, Void
  <1>4. CASE found = {}
    <2>1. \A i \in 1 .. Len(s) - a + 1 : Void(s[a + i - 1])
      BY <1>1, <1>2, <1>4
    <2>2. ASSUME NEW c \in a .. Len(s) PROVE Void(s[c])
      <3>1. c - a + 1 \in 1 .. Len(s) - a + 1 /\ a + (c - a + 1) - 1 = c
        OBVIOUS
      <3>2. QED
        BY <2>1, <3>1
    <2>3. PICK p \in a .. Len(s) + 1 : p = Len(s) + 1 /\ p - 1 = Len(s) /\ ~ (p <= Len(s))
      OBVIOUS
    <2>4. SubSeq(s, p, Len(s)) = << >>
      <3>1. p \in 1 .. Len(s) + 1
        BY <2>3
      <3>2. QED
        BY <2>3, <3>1, BetweenNone
    <2>5. QED
      BY <1>1, <1>3, <1>4, <2>2, <2>3, <2>4
  <1>5. CASE found # {}
    <2>1. found \subseteq 1 .. Len(s) - a + 1 /\ found \subseteq Nat
      BY <1>1, <1>2
    <2>2. PICK m \in found, p \in a .. Len(s) :
            /\ p = a + m - 1 /\ \A y \in found : m <= y
            /\ SubSeq(t, Configuration!Min(found), Len(t)) = SubSeq(s, p, Len(s))
      <3>1. PICK m : m = Configuration!Min(found)
        OBVIOUS
      <3>2. m \in found /\ \A y \in found : m <= y
        BY <1>5, <2>1, <3>1, LeastIs
      <3>3. m \in 1 .. Len(s) - a + 1
        BY <2>1, <3>2
      <3>4. SubSeq(t, m, Len(t)) = SubSeq(s, a + m - 1, Len(s))
        BY <1>1, <3>3, RestOfRest
      <3>5. PICK p \in a .. Len(s) : p = a + m - 1
        BY <3>3
      <3>6. QED
        BY <3>1, <3>2, <3>4, <3>5
    <2>3. m \in 1 .. Len(s) - a + 1 /\ ~ Void(t[m])
      BY <1>1, <2>1
    <2>4. ~ Void(s[p])
      BY <1>2, <2>2, <2>3
    <2>5. ASSUME NEW c \in a .. p - 1 PROVE Void(s[c])
      <3>1. PICK i \in 1 .. Len(s) - a + 1 : i = c - a + 1
        OBVIOUS
      <3>2. ~ (m <= i) /\ a + i - 1 = c
        BY <2>2, <2>3, <3>1
      <3>3. i \notin found
        BY <2>2, <3>2
      <3>4. Void(t[i])
        BY <1>1, <1>2, <3>3
      <3>5. QED
        BY <1>2, <3>2, <3>4
    <2>6. p \in a .. Len(s) + 1
      OBVIOUS
    <2>7. QED
      BY <1>1, <1>3, <1>5, <2>2, <2>4, <2>5, <2>6
  <1>6. QED
    BY <1>4, <1>5

LEMMA BlankFrom ==
  ASSUME NEW S, NEW s \in Seq(S), NEW a \in 1 .. Len(s) + 1
  PROVE  \E p \in a .. Len(s) + 1 :
           /\ \A c \in a .. p - 1 : ~ Void(s[c])
           /\ p <= Len(s) => Void(s[p])
           /\ Configuration!FromBlank(SubSeq(s, a, Len(s))) = SubSeq(s, p, Len(s))
  <1>1. PICK t, found : t = SubSeq(s, a, Len(s)) /\ found = {c \in DOMAIN t : Void(t[c])}
    OBVIOUS
  <1>2. /\ t \in Seq(S) /\ Len(t) = Len(s) - a + 1 /\ DOMAIN t = 1 .. Len(s) - a + 1
        /\ \A i \in 1 .. Len(s) - a + 1 : t[i] = s[a + i - 1]
    <2>1. Len(s) \in a - 1 .. Len(s)
      OBVIOUS
    <2>2. /\ t \in Seq(S) /\ Len(t) = Len(s) - a + 1
          /\ \A i \in 1 .. Len(s) - a + 1 : t[i] = s[a + i - 1]
      BY <1>1, <2>1, Between
    <2>3. DOMAIN t = 1 .. Len(t)
      BY <2>2
    <2>4. QED
      BY <2>2, <2>3
  <1>3. Configuration!FromBlank(t) =
          IF found = {} THEN << >> ELSE SubSeq(t, Configuration!Min(found), Len(t))
    BY <1>1 DEF Configuration!FromBlank, Void
  <1>4. CASE found = {}
    <2>1. \A i \in 1 .. Len(s) - a + 1 : ~ Void(s[a + i - 1])
      BY <1>1, <1>2, <1>4
    <2>2. ASSUME NEW c \in a .. Len(s) PROVE ~ Void(s[c])
      <3>1. c - a + 1 \in 1 .. Len(s) - a + 1 /\ a + (c - a + 1) - 1 = c
        OBVIOUS
      <3>2. QED
        BY <2>1, <3>1
    <2>3. PICK p \in a .. Len(s) + 1 : p = Len(s) + 1 /\ p - 1 = Len(s) /\ ~ (p <= Len(s))
      OBVIOUS
    <2>4. SubSeq(s, p, Len(s)) = << >>
      <3>1. p \in 1 .. Len(s) + 1
        BY <2>3
      <3>2. QED
        BY <2>3, <3>1, BetweenNone
    <2>5. QED
      BY <1>1, <1>3, <1>4, <2>2, <2>3, <2>4
  <1>5. CASE found # {}
    <2>1. found \subseteq 1 .. Len(s) - a + 1 /\ found \subseteq Nat
      BY <1>1, <1>2
    <2>2. PICK m \in found, p \in a .. Len(s) :
            /\ p = a + m - 1 /\ \A y \in found : m <= y
            /\ SubSeq(t, Configuration!Min(found), Len(t)) = SubSeq(s, p, Len(s))
      <3>1. PICK m : m = Configuration!Min(found)
        OBVIOUS
      <3>2. m \in found /\ \A y \in found : m <= y
        BY <1>5, <2>1, <3>1, LeastIs
      <3>3. m \in 1 .. Len(s) - a + 1
        BY <2>1, <3>2
      <3>4. SubSeq(t, m, Len(t)) = SubSeq(s, a + m - 1, Len(s))
        BY <1>1, <3>3, RestOfRest
      <3>5. PICK p \in a .. Len(s) : p = a + m - 1
        BY <3>3
      <3>6. QED
        BY <3>1, <3>2, <3>4, <3>5
    <2>3. m \in 1 .. Len(s) - a + 1 /\ Void(t[m])
      BY <1>1, <2>1
    <2>4. Void(s[p])
      BY <1>2, <2>2, <2>3
    <2>5. ASSUME NEW c \in a .. p - 1 PROVE ~ Void(s[c])
      <3>1. PICK i \in 1 .. Len(s) - a + 1 : i = c - a + 1
        OBVIOUS
      <3>2. ~ (m <= i) /\ a + i - 1 = c
        BY <2>2, <2>3, <3>1
      <3>3. i \notin found
        BY <2>2, <3>2
      <3>4. ~ Void(t[i])
        BY <1>1, <1>2, <3>3
      <3>5. QED
        BY <1>2, <3>2, <3>4
    <2>6. p \in a .. Len(s) + 1
      OBVIOUS
    <2>7. QED
      BY <1>1, <1>3, <1>5, <2>2, <2>4, <2>5, <2>6
  <1>6. QED
    BY <1>4, <1>5

(* trim_right: to the last solid character. *)
LEMMA TrimIs ==
  ASSUME NEW S, NEW s \in Seq(S), NEW a \in 1 .. Len(s) + 1
  PROVE  \E z \in a - 1 .. Len(s) :
           /\ \A c \in z + 1 .. Len(s) : Void(s[c])
           /\ a <= z => ~ Void(s[z])
           /\ Configuration!TrimRight(SubSeq(s, a, Len(s))) = SubSeq(s, a, z)
  <1>1. PICK t, solid, n :
          t = SubSeq(s, a, Len(s)) /\ solid = {c \in DOMAIN t : ~ Void(t[c])} /\ n = Len(s) - a + 1
    OBVIOUS
  <1>2. n \in Nat /\ Len(s) \in Nat /\ a \in Int /\ 1 <= a /\ n = Len(s) - a + 1
    BY <1>1
  <1>3. /\ t \in Seq(S) /\ Len(t) = n /\ DOMAIN t = 1 .. n
        /\ \A i \in 1 .. n : t[i] = s[a + i - 1]
    <2>1. Len(s) \in a - 1 .. Len(s)
      OBVIOUS
    <2>2. /\ t \in Seq(S) /\ Len(t) = n /\ \A i \in 1 .. n : t[i] = s[a + i - 1]
      BY <1>1, <2>1, Between
    <2>3. DOMAIN t = 1 .. Len(t)
      BY <2>2
    <2>4. QED
      BY <2>2, <2>3
  <1>4. Configuration!TrimRight(t) =
          IF solid = {} THEN << >> ELSE SubSeq(t, 1, Configuration!Max(solid))
    BY <1>1 DEF Configuration!TrimRight, Void
  <1>5. CASE solid = {}
    <2>1. \A i \in 1 .. n : Void(s[a + i - 1])
      BY <1>1, <1>3, <1>5
    <2>2. PICK z \in a - 1 .. Len(s) : z = a - 1 /\ z + 1 = a /\ ~ (a <= z)
      BY <1>2
    <2>3. ASSUME NEW c \in z + 1 .. Len(s) PROVE Void(s[c])
      <3>1. c - a + 1 \in 1 .. n /\ a + (c - a + 1) - 1 = c
        BY <1>2, <2>2
      <3>2. QED
        BY <2>1, <3>1
    <2>4. SubSeq(s, a, z) = << >>
      BY <2>2, BetweenNone
    <2>5. QED
      BY <1>1, <1>4, <1>5, <2>2, <2>3, <2>4
  <1>6. CASE solid # {}
    <2>1. PICK m : m = Configuration!Max(solid)
      OBVIOUS
    <2>2. solid \subseteq 0 .. n
      BY <1>1, <1>3
    <2>3. m \in solid /\ \A y \in solid : y <= m
      BY <1>2, <1>6, <2>1, <2>2, GreatestIs
    <2>4. m \in 1 .. n /\ ~ Void(t[m])
      BY <1>1, <1>3, <2>3
    <2>5. PICK z \in a - 1 .. Len(s) : z = a + m - 1
      BY <1>2, <2>4
    <2>6. ~ Void(s[z])
      BY <1>3, <2>4, <2>5
    <2>7. ASSUME NEW c \in z + 1 .. Len(s) PROVE Void(s[c])
      <3>1. PICK i \in 1 .. n : i = c - a + 1
        BY <1>2, <2>4, <2>5
      <3>2. m < i /\ a + i - 1 = c
        BY <1>2, <2>4, <2>5, <3>1
      <3>3. i \notin solid
        BY <1>2, <2>3, <2>4, <3>2
      <3>4. QED
        BY <1>1, <1>3, <3>2, <3>3
    <2>8. SubSeq(t, 1, m) = SubSeq(s, a, z)
      <3>1. PICK y : y = Len(s)
        OBVIOUS
      <3>2. y \in a - 1 .. Len(s) /\ 1 \in 1 .. y - a + 2 /\ m \in 1 - 1 .. y - a + 1
            /\ a + 1 - 1 = a /\ a + m - 1 = z
        BY <1>2, <2>4, <2>5, <3>1
      <3>3. SubSeq(SubSeq(s, a, y), 1, m) = SubSeq(s, a + 1 - 1, a + m - 1)
        BY <3>2, BetweenBetween
      <3>4. QED
        BY <1>1, <3>1, <3>2, <3>3
    <2>9. QED
      BY <1>1, <1>4, <1>6, <2>1, <2>5, <2>6, <2>7, <2>8
  <1>7. QED
    BY <1>5, <1>6

(* ms_config_parse_line finds the entry of a line that has one.            *)
LEMMA NoEntryIs ==
  ASSUME NEW S, NEW s \in Seq(S), NEW a \in 1 .. Len(s) + 1, \A c \in 1 .. a - 1 : Void(s[c]),
         a <= Len(s) => s[a] = Configuration!Hash
  PROVE  ~ Configuration!IsEntry(s)
  <1>1. DOMAIN s = 1 .. Len(s) /\ Len(s) \in Nat
    OBVIOUS
  <1>2. SUFFICES ASSUME NEW c \in 1 .. Len(s), ~ Void(s[c]), s[c] # Configuration!Hash,
                        \A d \in 1 .. c - 1 : Void(s[d])
                 PROVE  FALSE
    BY <1>1 DEF Configuration!IsEntry, Void
  <1>3. ~ (c \in 1 .. a - 1)
    BY <1>2
  <1>4. a <= c /\ a <= Len(s) /\ c # a
    BY <1>1, <1>2, <1>3
  <1>5. a \in 1 .. c - 1
    BY <1>1, <1>4
  <1>6. Void(Configuration!Hash)
    BY <1>2, <1>4, <1>5
  <1>7. QED
    BY <1>6 DEF Void, Configuration!IsBlank, Configuration!Hash, Configuration!Blank, Configuration!Break

(* The key of a line with one, and its value if it has one. *)
LEMMA DescribesIs ==
  ASSUME NEW S, NEW s \in Seq(S), NEW e,
         NEW a \in 1 .. Len(s), NEW p \in a + 1 .. Len(s) + 1, NEW v \in p .. Len(s) + 1,
         NEW z \in v - 1 .. Len(s),
         \A c \in 1 .. a - 1 : Void(s[c]), \A c \in a .. p - 1 : ~ Void(s[c]),
         p <= Len(s) => Void(s[p]), \A c \in p .. v - 1 : Void(s[c]),
         v <= Len(s) => ~ Void(s[v]), \A c \in z + 1 .. Len(s) : Void(s[c]),
         v <= z => ~ Void(s[z]),
         e.key = SubSeq(s, a, p - 1), e.value = SubSeq(s, v, z)
  PROVE  Configuration!Describes(e, s)
  <1>1. /\ Len(s) \in Nat /\ a \in Int /\ p \in Int /\ v \in Int /\ z \in Int
        /\ 1 <= a /\ a < p /\ p <= v /\ v <= Len(s) + 1 /\ v - 1 <= z /\ z <= Len(s)
    OBVIOUS
  <1>2. PICK y \in a .. Len(s) : y = p - 1
    BY <1>1
  <1>3. PICK key, value : key = e.key /\ value = e.value
    OBVIOUS
  <1>4. key \in Seq(S) /\ Len(key) = p - a /\ \A i \in 1 .. p - a : key[i] = s[a + i - 1]
    <2>1. a \in 1 .. Len(s) + 1 /\ y \in a - 1 .. Len(s) /\ y - a + 1 = p - a
      BY <1>1, <1>2
    <2>2. key = SubSeq(s, a, y)
      BY <1>2, <1>3
    <2>3. key \in Seq(S) /\ Len(key) = y - a + 1 /\ \A i \in 1 .. y - a + 1 : key[i] = s[a + i - 1]
      <3>1. a \in 1 .. Len(s) + 1 /\ y \in a - 1 .. Len(s)
        BY <2>1
      <3>2. /\ SubSeq(s, a, y) \in Seq(S) /\ Len(SubSeq(s, a, y)) = y - a + 1
            /\ \A i \in 1 .. y - a + 1 : SubSeq(s, a, y)[i] = s[a + i - 1]
        BY <3>1, Between
      <3>3. QED
        BY <2>2, <3>2
    <2>4. QED
      BY <2>1, <2>3
  <1>5. value \in Seq(S) /\ Len(value) = z - v + 1 /\ \A i \in 1 .. z - v + 1 : value[i] = s[v + i - 1]
    <2>1. v \in 1 .. Len(s) + 1
      BY <1>1
    <2>2. QED
      BY <1>3, <2>1, Between
  <1>6. key # << >> /\ ~ \E c \in DOMAIN key : Void(key[c])
    <2>1. DOMAIN key = 1 .. p - a /\ p - a > 0
      BY <1>1, <1>4
    <2>2. ASSUME NEW c \in 1 .. p - a PROVE ~ Void(key[c])
      <3>1. a + c - 1 \in a .. p - 1
        BY <1>1
      <3>2. QED
        BY <1>4, <3>1
    <2>3. QED
      BY <1>4, <2>1, <2>2
  <1>7. a + Len(key) = p /\ SubSeq(s, a, a + Len(key) - 1) = key
    <2>1. a + Len(key) = p
      BY <1>1, <1>4
    <2>2. QED
      BY <1>3, <2>1
  <1>8. CASE v > Len(s)
    <2>1. v = Len(s) + 1 /\ z = Len(s) /\ z = v - 1
      <3>1. PICK n : n = Len(s)
        OBVIOUS
      <3>2. n \in Int /\ v > n /\ v <= n + 1 /\ v - 1 <= z /\ z <= n
        BY <1>1, <1>8, <3>1
      <3>3. v = n + 1 /\ z = n
        BY <1>1, <3>2
      <3>4. QED
        BY <1>1, <3>1, <3>3
    <2>2. value = Configuration!NoValue
      BY <1>1, <1>5, <2>1, EmptySeq DEF Configuration!NoValue
    <2>3. ASSUME NEW c \in 1 .. Len(s), c < a \/ c > y PROVE Void(s[c])
      <3>1. c \in 1 .. a - 1 \/ c \in p .. v - 1
        BY <1>1, <1>2, <2>1, <2>3
      <3>2. QED
        BY <3>1
    <2>4. y \in a .. p - 1 /\ a \in a .. p - 1 /\ a <= y /\ y \in 0 .. Len(s)
      BY <1>1, <1>2
    <2>5. ~ Void(s[a]) /\ ~ Void(s[y])
      BY <2>4
    <2>6. y = a + Len(key) - 1
      BY <1>2, <1>7
    <2>7. /\ \A c \in 1 .. Len(s) : c < a \/ c > y => Void(s[c])
          /\ a <= y /\ ~ Void(s[a]) /\ ~ Void(s[y])
          /\ SubSeq(s, a, a + Len(key) - 1) = key
          /\ value = Configuration!NoValue
          /\ y = a + Len(key) - 1
      BY <1>7, <2>2, <2>3, <2>4, <2>5, <2>6
    <2>8. QED
      BY <1>3, <1>6, <2>4, <2>7, Zenon DEF Configuration!Describes, Void
  <1>9. CASE v <= Len(s)
    <2>1. ~ Void(s[v])
      BY <1>9
    <2>2. v <= z
      <3>1. ~ (v \in z + 1 .. Len(s))
        BY <2>1
      <3>2. QED
        BY <1>1, <1>9, <3>1
    <2>3. p < v
      <3>1. p # v
        BY <1>9, <2>1
      <3>2. QED
        BY <1>1, <3>1
    <2>4. ASSUME NEW c \in 1 .. Len(s), c < a \/ c > z PROVE Void(s[c])
      <3>1. c \in 1 .. a - 1 \/ c \in z + 1 .. Len(s)
        BY <1>1, <2>4
      <3>2. QED
        BY <3>1
    <2>5. a \in a .. p - 1 /\ a <= z /\ z \in 0 .. Len(s)
      BY <1>1, <2>2
    <2>6. ~ Void(s[a]) /\ ~ Void(s[z])
      BY <2>2, <2>5
    <2>7. value # Configuration!NoValue /\ ~ Void(value[1])
      <3>1. 1 \in 1 .. z - v + 1 /\ v + 1 - 1 = v /\ z - v + 1 # 0
        BY <1>1, <2>2
      <3>2. QED
        BY <1>5, <2>1, <3>1 DEF Configuration!NoValue
    <2>8. z - Len(value) = v - 1 /\ z - Len(value) + 1 = v
      BY <1>1, <1>5
    <2>9. SubSeq(s, z - Len(value) + 1, z) = value
      BY <1>3, <2>8
    <2>10. z - Len(value) >= a + Len(key)
      BY <1>1, <1>7, <2>3, <2>8
    <2>11. \A c \in a + Len(key) .. z - Len(value) : Void(s[c])
      BY <1>7, <2>8
    <2>12. /\ \A c \in 1 .. Len(s) : c < a \/ c > z => Void(s[c])
           /\ a <= z /\ ~ Void(s[a]) /\ ~ Void(s[z])
           /\ SubSeq(s, a, a + Len(key) - 1) = key
           /\ value # Configuration!NoValue
           /\ SubSeq(s, z - Len(value) + 1, z) = value
           /\ ~ Void(value[1])
           /\ z - Len(value) >= a + Len(key)
           /\ \A c \in a + Len(key) .. z - Len(value) : Void(s[c])
      BY <1>7, <2>4, <2>5, <2>6, <2>7, <2>9, <2>10, <2>11
    <2>13. QED
      BY <1>3, <1>6, <2>5, <2>12, Zenon DEF Configuration!Describes, Void
  <1>10. QED
    BY <1>1, <1>8, <1>9

LEMMA ParseIs ==
  ASSUME NEW S, NEW s \in Seq(S)
  PROVE  \/ ~ Configuration!IsEntry(s) /\ Configuration!ParseLine(s) = << >>
         \/ /\ Configuration!IsEntry(s)
            /\ \E e \in [key : Seq(S), value : Seq(S)] :
                 Configuration!ParseLine(s) = <<e>> /\ Configuration!Describes(e, s)
  <1>1. Len(s) \in Nat /\ DOMAIN s = 1 .. Len(s) /\ 1 \in 1 .. Len(s) + 1
    OBVIOUS
  <1>2. PICK a \in 1 .. Len(s) + 1 :
          /\ \A c \in 1 .. a - 1 : Void(s[c])
          /\ a <= Len(s) => ~ Void(s[a])
          /\ Configuration!FromNonBlank(s) = SubSeq(s, a, Len(s))
    BY <1>1, NonBlankFrom, BetweenAll
  <1>3. PICK rest, tail : rest = SubSeq(s, a, Len(s)) /\ tail = Configuration!FromBlank(rest)
    OBVIOUS
  <1>4. Configuration!ParseLine(s) =
          IF rest = << >> \/ rest[1] = Configuration!Hash
            THEN << >>
            ELSE <<[key |-> SubSeq(rest, 1, Len(rest) - Len(tail)),
                    value |-> Configuration!TrimRight(Configuration!FromNonBlank(tail))]>>
    BY <1>2, <1>3, Zenon DEF Configuration!ParseLine
  <1>5. /\ rest \in Seq(S) /\ Len(rest) = Len(s) - a + 1
        /\ \A i \in 1 .. Len(s) - a + 1 : rest[i] = s[a + i - 1]
    <2>1. Len(s) \in a - 1 .. Len(s)
      BY <1>1
    <2>2. QED
      BY <1>3, <2>1, Between
  <1>6. CASE a > Len(s)
    <2>1. rest = << >>
      <3>1. Len(rest) = 0
        BY <1>1, <1>5, <1>6
      <3>2. QED
        BY <1>5, <3>1, EmptySeq
    <2>2. ~ (a <= Len(s))
      BY <1>1, <1>6
    <2>3. ~ Configuration!IsEntry(s)
      BY <1>2, <2>2, NoEntryIs
    <2>4. QED
      BY <1>4, <2>1, <2>3
  <1>7. CASE a <= Len(s)
    <2>1. rest # << >> /\ rest[1] = s[a]
      <3>1. 1 \in 1 .. Len(s) - a + 1 /\ a + 1 - 1 = a /\ Len(s) - a + 1 # 0
        BY <1>1, <1>7
      <3>2. QED
        BY <1>5, <3>1
    <2>2. CASE s[a] = Configuration!Hash
      <3>1. ~ Configuration!IsEntry(s)
        BY <1>2, <2>2, NoEntryIs
      <3>2. QED
        BY <1>4, <2>1, <2>2, <3>1
    <2>3. CASE s[a] # Configuration!Hash
      <3>1. Configuration!IsEntry(s)
        <4>1. a \in DOMAIN s
          BY <1>1, <1>7
        <4>2. QED
          BY <1>2, <1>7, <2>3, <4>1 DEF Configuration!IsEntry, Void
      <3>2. PICK p \in a .. Len(s) + 1 :
              /\ \A c \in a .. p - 1 : ~ Void(s[c])
              /\ p <= Len(s) => Void(s[p])
              /\ tail = SubSeq(s, p, Len(s))
        BY <1>3, BlankFrom
      <3>3. p \in a + 1 .. Len(s) + 1
        <4>1. p # a
          BY <1>2, <1>7, <3>2
        <4>2. QED
          BY <1>1, <4>1
      <3>4. p \in 1 .. Len(s) + 1
        BY <1>1
      <3>5. PICK v \in p .. Len(s) + 1 :
              /\ \A c \in p .. v - 1 : Void(s[c])
              /\ v <= Len(s) => ~ Void(s[v])
              /\ Configuration!FromNonBlank(tail) = SubSeq(s, v, Len(s))
        BY <3>2, <3>4, NonBlankFrom
      <3>6. v \in 1 .. Len(s) + 1
        BY <1>1
      <3>7. PICK z \in v - 1 .. Len(s) :
              /\ \A c \in z + 1 .. Len(s) : Void(s[c])
              /\ v <= z => ~ Void(s[z])
              /\ Configuration!TrimRight(SubSeq(s, v, Len(s))) = SubSeq(s, v, z)
        BY <3>6, TrimIs
      <3>8. SubSeq(rest, 1, Len(rest) - Len(tail)) = SubSeq(s, a, p - 1)
        <4>1. PICK n, m : n = Len(s) /\ m = p - a
          OBVIOUS
        <4>2. /\ n \in p - 1 .. Len(s) /\ n \in a - 1 .. Len(s) /\ 1 \in 1 .. n - a + 2
              /\ m \in 1 - 1 .. n - a + 1 /\ a + 1 - 1 = a /\ a + m - 1 = p - 1
          BY <1>1, <4>1
        <4>3. Len(tail) = n - p + 1
          <5>1. n \in p - 1 .. Len(s)
            BY <4>2
          <5>2. Len(SubSeq(s, p, n)) = n - p + 1
            BY <3>4, <5>1, Between
          <5>3. QED
            BY <3>2, <4>1, <5>2
        <4>4. Len(rest) - Len(tail) = m
          BY <1>1, <1>5, <4>1, <4>3
        <4>5. SubSeq(SubSeq(s, a, n), 1, m) = SubSeq(s, a + 1 - 1, a + m - 1)
          BY <4>2, BetweenBetween
        <4>6. QED
          BY <1>3, <4>1, <4>2, <4>4, <4>5
      <3>9. PICK e \in [key : Seq(S), value : Seq(S)] :
              e = [key |-> SubSeq(s, a, p - 1), value |-> SubSeq(s, v, z)]
        <4>1. PICK y : y = p - 1
          OBVIOUS
        <4>2. y \in a - 1 .. Len(s)
          BY <1>1, <3>3, <4>1
        <4>3. SubSeq(s, a, y) \in Seq(S)
          BY <4>2, Between
        <4>4. SubSeq(s, v, z) \in Seq(S)
          BY <3>6, Between
        <4>5. QED
          BY <4>1, <4>3, <4>4
      <3>10. Configuration!ParseLine(s) = <<e>>
        BY <1>4, <2>1, <2>3, <3>5, <3>7, <3>8, <3>9
      <3>11. Configuration!Describes(e, s)
        <4>1. e.key = SubSeq(s, a, p - 1) /\ e.value = SubSeq(s, v, z)
          BY <3>9
        <4>2. a \in 1 .. Len(s)
          BY <1>7
        <4>3. QED
          BY <1>2, <3>2, <3>3, <3>5, <3>7, <4>1, <4>2, DescribesIs
      <3>12. QED
        BY <3>1, <3>10, <3>11
    <2>4. QED
      BY <2>2, <2>3
  <1>8. QED
    BY <1>1, <1>6, <1>7

(* The entries E the callback has got are those of the lines at W: W[a] is *)
(* the line at a.  One that comes after them all adds its own entry.       *)
With(C, L) == {a \in C : Configuration!IsEntry(L[a])}
Place(a, W) == Cardinality({b \in W : b <= a})
Told(E, C, L) ==
  /\ Len(E) = Cardinality(With(C, L))
  /\ \A a \in With(C, L) : Configuration!Describes(E[Place(a, With(C, L))], L[a])

LEMMA ToldNext ==
  ASSUME NEW S, NEW X, X = [key : Seq(S), value : Seq(S)], NEW E \in Seq(X),
         NEW u \in Nat, NEW C, C \subseteq 1 .. u, NEW L, L[u + 1] \in Seq(S), Told(E, C, L)
  PROVE  /\ E \o Configuration!ParseLine(L[u + 1]) \in Seq(X)
         /\ Told(E \o Configuration!ParseLine(L[u + 1]), C \cup {u + 1}, L)
  <1>1. PICK s, W, V, D :
          s = L[u + 1] /\ W = With(C, L) /\ V = With(D, L) /\ D = C \cup {u + 1}
    OBVIOUS
  <1>2. /\ Len(E) = Cardinality(W) /\ Len(E) \in Nat
        /\ \A a \in W : Configuration!Describes(E[Place(a, W)], L[a])
    BY <1>1 DEF Told
  <1>3. /\ s \in Seq(S) /\ W \subseteq C /\ W \subseteq 1 .. u /\ u + 1 \notin W
        /\ V = IF Configuration!IsEntry(s) THEN W \cup {u + 1} ELSE W
    <2>1. s \in Seq(S) /\ W \subseteq C
      BY <1>1 DEF With
    <2>2. W \subseteq 1 .. u /\ u + 1 \notin 1 .. u
      BY <2>1
    <2>3. u + 1 \notin W
      BY <2>2
    <2>4. V = {a \in D : Configuration!IsEntry(L[a])} /\ W = {a \in C : Configuration!IsEntry(L[a])}
      BY <1>1 DEF With
    <2>5. \A a : a \in V <=> a \in W \/ (a = u + 1 /\ Configuration!IsEntry(s))
      BY <1>1, <2>4
    <2>6. V = IF Configuration!IsEntry(s) THEN W \cup {u + 1} ELSE W
      <3>1. CASE Configuration!IsEntry(s)
        <4>1. V = W \cup {u + 1}
          BY <2>5, <3>1
        <4>2. QED
          BY <3>1, <4>1
      <3>2. CASE ~ Configuration!IsEntry(s)
        <4>1. V = W
          BY <2>5, <3>2
        <4>2. QED
          BY <3>2, <4>1
      <3>3. QED
        BY <3>1, <3>2
    <2>7. QED
      BY <2>1, <2>2, <2>3, <2>6
  <1>4. IsFiniteSet(W)
    <2>1. IsFiniteSet(1 .. u)
      BY FS_Interval
    <2>2. QED
      BY <1>3, <2>1, FS_Subset
  <1>5. CASE ~ Configuration!IsEntry(s)
    <2>1. Configuration!ParseLine(s) = << >>
      BY <1>3, <1>5, ParseIs
    <2>2. E \o Configuration!ParseLine(s) = E
      BY <2>1, ConcatEmptySeq
    <2>3. V = W
      BY <1>3, <1>5
    <2>4. QED
      BY <1>1, <1>2, <2>2, <2>3 DEF Told
  <1>6. CASE Configuration!IsEntry(s)
    <2>1. PICK e \in X : Configuration!ParseLine(s) = <<e>> /\ Configuration!Describes(e, s)
      BY <1>3, <1>6, ParseIs
    <2>2. PICK F : F = E \o <<e>>
      OBVIOUS
    <2>3. /\ F \in Seq(X) /\ Len(F) = Len(E) + 1 /\ F[Len(E) + 1] = e
          /\ \A i \in 1 .. Len(E) : F[i] = E[i]
      BY <1>2, <2>2
    <2>4. V = W \cup {u + 1}
      BY <1>3, <1>6
    <2>5. Cardinality(V) = Len(E) + 1 /\ IsFiniteSet(V)
      <3>1. IsFiniteSet(W \cup {u + 1}) /\ Cardinality(W \cup {u + 1}) = Cardinality(W) + 1
        BY <1>3, <1>4, FS_AddElement
      <3>2. QED
        BY <1>2, <2>4, <3>1
    <2>6. ASSUME NEW a \in W PROVE Configuration!Describes(F[Place(a, V)], L[a])
      <3>1. PICK Q : Q = {b \in W : b <= a}
        OBVIOUS
      <3>2. {b \in V : b <= a} = Q
        BY <1>3, <2>4, <3>1
      <3>3. IsFiniteSet(Q) /\ Cardinality(Q) <= Len(E)
        <4>1. Q \subseteq W
          BY <3>1
        <4>2. QED
          BY <1>2, <1>4, <4>1, FS_Subset
      <3>4. Cardinality(Q) # 0
        <4>1. a \in Q
          BY <1>3, <3>1
        <4>2. QED
          BY <3>3, <4>1, FS_EmptySet
      <3>5. Cardinality(Q) \in 1 .. Len(E)
        BY <1>2, <3>3, <3>4, FS_CardinalityType
      <3>6. Place(a, V) = Cardinality(Q) /\ Place(a, W) = Cardinality(Q)
        BY <3>1, <3>2 DEF Place
      <3>7. QED
        BY <1>2, <2>3, <3>5, <3>6
    <2>7. Configuration!Describes(F[Place(u + 1, V)], L[u + 1])
      <3>1. {b \in V : b <= u + 1} = V
        <4>1. \A b \in V : b <= u + 1
          BY <1>3, <2>4
        <4>2. QED
          BY <4>1
      <3>2. Place(u + 1, V) = Len(E) + 1
        BY <2>5, <3>1 DEF Place
      <3>3. QED
        BY <1>1, <2>1, <2>3, <3>2
    <2>8. \A a \in V : Configuration!Describes(F[Place(a, V)], L[a])
      BY <2>4, <2>6, <2>7
    <2>9. Told(F, D, L)
      BY <1>1, <2>3, <2>5, <2>8 DEF Told
    <2>10. QED
      BY <1>1, <2>1, <2>2, <2>3, <2>9
  <1>7. QED
    BY <1>5, <1>6

LEMMA CountIs ==
  ASSUME NEW Q
  PROVE  Configuration!Cardinality(Q) = Cardinality(Q)
  BY Zenon DEF Configuration!Cardinality, Cardinality

(* The lines of a text t of which n characters are read.                   *)
BreaksOf(t, n) == {b \in 1 .. n : t[b] = Configuration!Break}
BeginsOf(t, n) == {1} \cup {b + 1 : b \in BreaksOf(t, n)}
Ends(t, n, a) == {b \in BreaksOf(t, n) : b >= a}
CompleteOf(t, n) == {a \in BeginsOf(t, n) : Ends(t, n, a) # {}}
LineAt(t, n, a) == SubSeq(t, a, IF Ends(t, n, a) = {} THEN n ELSE Configuration!Min(Ends(t, n, a)) - 1)

(* The line that is being read begins behind u. *)
LEMMA LinesCut ==
  ASSUME NEW t, NEW n \in Nat, NEW u \in 0 .. n,
         \A i \in u + 1 .. n : t[i] # Configuration!Break,
         u # 0 => t[u] = Configuration!Break
  PROVE  /\ BreaksOf(t, n) \subseteq 1 .. u
         /\ CompleteOf(t, n) \subseteq 1 .. u
         /\ BeginsOf(t, n) = CompleteOf(t, n) \cup {u + 1}
         /\ Ends(t, n, u + 1) = {}
         /\ LineAt(t, n, u + 1) = SubSeq(t, u + 1, n)
  <1>1. BreaksOf(t, n) \subseteq 1 .. u
    <2>1. ASSUME NEW b \in 1 .. n, t[b] = Configuration!Break PROVE b \in 1 .. u
      <3>1. ~ (b \in u + 1 .. n)
        BY <2>1
      <3>2. QED
        BY <3>1
    <2>2. QED
      BY <2>1 DEF BreaksOf
  <1>2. Ends(t, n, u + 1) = {}
    <2>1. \A b \in BreaksOf(t, n) : ~ (b >= u + 1)
      BY <1>1
    <2>2. QED
      BY <2>1 DEF Ends
  <1>3. u # 0 => u \in BreaksOf(t, n)
    BY DEF BreaksOf
  <1>4. u + 1 \in BeginsOf(t, n)
    BY <1>3 DEF BeginsOf
  <1>5. ASSUME NEW a \in BeginsOf(t, n), a # u + 1 PROVE a \in 1 .. u /\ Ends(t, n, a) # {}
    <2>1. a \in 1 .. u
      <3>1. CASE a = 1
        BY <1>5, <3>1
      <3>2. CASE \E b \in BreaksOf(t, n) : a = b + 1
        BY <1>1, <1>5, <3>2
      <3>3. QED
        BY <3>1, <3>2 DEF BeginsOf
    <2>2. u \in Ends(t, n, a)
      BY <1>3, <2>1 DEF Ends
    <2>3. QED
      BY <2>1, <2>2
  <1>6. CompleteOf(t, n) = BeginsOf(t, n) \ {u + 1}
    BY <1>2, <1>4, <1>5 DEF CompleteOf
  <1>7. CompleteOf(t, n) \subseteq 1 .. u
    BY <1>5, <1>6
  <1>8. LineAt(t, n, u + 1) = SubSeq(t, u + 1, n)
    BY <1>2, Zenon DEF LineAt
  <1>9. QED
    BY <1>1, <1>2, <1>4, <1>6, <1>7, <1>8

(* Reading on changes no line that has ended, and ends one at a break. *)
LEMMA LineStays ==
  ASSUME NEW t, NEW n \in Nat, NEW a, Ends(t, n, a) # {}
  PROVE  Ends(t, n + 1, a) # {} /\ LineAt(t, n + 1, a) = LineAt(t, n, a)
  <1>1. PICK P, Q : P = Ends(t, n, a) /\ Q = Ends(t, n + 1, a)
    OBVIOUS
  <1>2. P \subseteq 1 .. n /\ P \subseteq Q /\ Q \subseteq P \cup {n + 1}
    BY <1>1 DEF Ends, BreaksOf
  <1>3. P # {} /\ Q # {} /\ P \subseteq Nat /\ Q \subseteq Nat
    BY <1>1, <1>2
  <1>4. PICK m, k : m = Configuration!Min(P) /\ k = Configuration!Min(Q)
    OBVIOUS
  <1>5. m \in P /\ \A y \in P : m <= y
    BY <1>3, <1>4, LeastIs
  <1>6. k \in Q /\ \A y \in Q : k <= y
    BY <1>3, <1>4, LeastIs
  <1>7. m = k
    <2>1. m \in 1 .. n /\ k <= m /\ k \in Nat
      BY <1>2, <1>3, <1>5, <1>6
    <2>2. k # n + 1
      BY <2>1
    <2>3. k \in P
      BY <1>2, <1>6, <2>2
    <2>4. m <= k
      BY <1>5, <2>3
    <2>5. QED
      BY <2>1, <2>4
  <1>8. QED
    BY <1>1, <1>3, <1>4, <1>7 DEF LineAt

LEMMA LineEnds ==
  ASSUME NEW t, NEW n \in Nat, NEW a \in 1 .. n + 1, Ends(t, n, a) = {},
         t[n + 1] = Configuration!Break
  PROVE  Ends(t, n + 1, a) # {} /\ LineAt(t, n + 1, a) = LineAt(t, n, a)
  <1>1. PICK Q : Q = Ends(t, n + 1, a)
    OBVIOUS
  <1>2. Q = {n + 1}
    <2>1. n + 1 \in Q
      BY <1>1 DEF Ends, BreaksOf
    <2>2. ASSUME NEW b \in Q PROVE b = n + 1
      <3>1. b \in 1 .. n + 1 /\ t[b] = Configuration!Break /\ b >= a
        BY <1>1 DEF Ends, BreaksOf
      <3>2. b \notin Ends(t, n, a)
        OBVIOUS
      <3>3. ~ (b \in 1 .. n)
        BY <3>1, <3>2 DEF Ends, BreaksOf
      <3>4. QED
        BY <3>1, <3>3
    <2>3. QED
      BY <2>1, <2>2
  <1>3. Q # {} /\ Q \subseteq Nat
    BY <1>2
  <1>4. Configuration!Min(Q) = n + 1
    <2>1. Configuration!Min(Q) \in Q
      BY <1>3, LeastIs
    <2>2. QED
      BY <1>2, <2>1
  <1>5. Configuration!Min(Q) - 1 = n
    BY <1>4
  <1>6. QED
    BY <1>1, <1>3, <1>5 DEF LineAt

(* The line behind u ends at a break. *)
LEMMA LinesEnd ==
  ASSUME NEW t, NEW n \in Nat, NEW u \in 0 .. n,
         \A i \in u + 1 .. n : t[i] # Configuration!Break,
         u # 0 => t[u] = Configuration!Break,
         t[n + 1] = Configuration!Break
  PROVE  /\ CompleteOf(t, n + 1) = BeginsOf(t, n)
         /\ \A a \in BeginsOf(t, n) : LineAt(t, n + 1, a) = LineAt(t, n, a)
  <1>1. /\ CompleteOf(t, n) \subseteq 1 .. u
        /\ BeginsOf(t, n) = CompleteOf(t, n) \cup {u + 1}
        /\ Ends(t, n, u + 1) = {}
    BY LinesCut
  <1>2. ASSUME NEW a \in BeginsOf(t, n)
        PROVE  Ends(t, n + 1, a) # {} /\ LineAt(t, n + 1, a) = LineAt(t, n, a)
    <2>1. CASE Ends(t, n, a) # {}
      BY <2>1, LineStays
    <2>2. CASE Ends(t, n, a) = {}
      <3>1. a \in 1 .. n + 1
        BY <1>1
      <3>2. QED
        BY <2>2, <3>1, LineEnds
    <2>3. QED
      BY <2>1, <2>2
  <1>3. BreaksOf(t, n + 1) = BreaksOf(t, n) \cup {n + 1}
    BY DEF BreaksOf
  <1>4. BeginsOf(t, n + 1) = BeginsOf(t, n) \cup {(n + 1) + 1}
    BY <1>3 DEF BeginsOf
  <1>5. Ends(t, n + 1, (n + 1) + 1) = {}
    BY DEF Ends, BreaksOf
  <1>6. CompleteOf(t, n + 1) = BeginsOf(t, n)
    BY <1>2, <1>4, <1>5 DEF CompleteOf
  <1>7. QED
    BY <1>2, <1>6

LEMMA LinesOnward ==
  ASSUME NEW t, NEW n \in Nat, t[n + 1] # Configuration!Break
  PROVE  /\ CompleteOf(t, n + 1) = CompleteOf(t, n)
         /\ \A a \in CompleteOf(t, n) : LineAt(t, n + 1, a) = LineAt(t, n, a)
  <1>1. BreaksOf(t, n + 1) = BreaksOf(t, n)
    BY DEF BreaksOf
  <1>2. QED
    BY <1>1, LineStays DEF CompleteOf, BeginsOf, Ends

LinesAgree ==
  /\ Configuration!Begins = BeginsOf(cText, cRead)
  /\ Configuration!Complete = CompleteOf(cText, cRead)
  /\ \A a : Configuration!LineFrom(a) = LineAt(cText, cRead, a)

LEMMA LinesNow == LinesAgree
  <1>1. Configuration!Breaks = BreaksOf(cText, cRead)
    BY DEF Configuration!Breaks, BreaksOf
  <1>2. Configuration!Begins = BeginsOf(cText, cRead)
    BY <1>1 DEF Configuration!Begins, BeginsOf
  <1>3. Configuration!Complete = CompleteOf(cText, cRead)
    BY <1>1, <1>2 DEF Configuration!Complete, CompleteOf, Ends
  <1>4. \A a : Configuration!LineFrom(a) = LineAt(cText, cRead, a)
    BY <1>1 DEF Configuration!LineFrom, LineAt, Ends
  <1>5. QED
    BY <1>2, <1>3, <1>4 DEF LinesAgree

(* The entries the callback has got are those of the lines that begin in C. *)
Lines(t, n, C) == [a \in C |-> LineAt(t, n, a)]

ToldAgree ==
  \A C : Configuration!EntriesOf(C) <=> Told(cEntries, C, Lines(cText, cRead, C))

LEMMA ToldNow == ToldAgree
  <1>1. SUFFICES ASSUME NEW C
                 PROVE  Configuration!EntriesOf(C) <=> Told(cEntries, C, Lines(cText, cRead, C))
    BY DEF ToldAgree
  <1>2. PICK L, W : L = Lines(cText, cRead, C) /\ W = With(C, L)
    OBVIOUS
  <1>3. \A a \in C : L[a] = Configuration!LineFrom(a)
    BY <1>2, LinesNow DEF Lines, LinesAgree
  <1>4. Configuration!WithEntry(C) = W
    BY <1>2, <1>3 DEF With, Configuration!WithEntry
  <1>5. W \subseteq C
    BY <1>2 DEF With
  <1>6. ASSUME NEW a \in W
        PROVE  Configuration!Number(a, C) = Place(a, W) /\ Configuration!LineFrom(a) = L[a]
    <2>1. Configuration!Number(a, C) = Configuration!Cardinality({b \in W : b <= a})
      BY <1>4 DEF Configuration!Number
    <2>2. Place(a, W) = Configuration!Cardinality({b \in W : b <= a})
      BY CountIs DEF Place
    <2>3. Configuration!LineFrom(a) = L[a]
      BY <1>3, <1>5
    <2>4. QED
      BY <2>1, <2>2, <2>3
  <1>7. Configuration!EntriesOf(C) <=>
          /\ Len(cEntries) = Cardinality(W)
          /\ \A a \in W : Configuration!Describes(cEntries[Configuration!Number(a, C)], Configuration!LineFrom(a))
    <2>1. Configuration!Cardinality(W) = Cardinality(W)
      BY CountIs
    <2>2. QED
      BY <1>4, <2>1 DEF Configuration!EntriesOf
  <1>8. Told(cEntries, C, L) <=>
          /\ Len(cEntries) = Cardinality(W)
          /\ \A a \in W : Configuration!Describes(cEntries[Place(a, W)], L[a])
    BY <1>2 DEF Told
  <1>9. QED
    BY <1>2, <1>6, <1>7, <1>8

LEMMA LinesThen == LinesAgree'
  BY LinesNow, PTL

LEMMA ToldThen == ToldAgree'
  BY ToldNow, PTL

(* The string in a buffer ends at its first null character. *)
LEMMA CStringIs ==
  ASSUME NEW S, NEW buf \in Seq(S), NEW k \in 1 .. Len(buf), buf[k] = Configuration!Nul,
         \A c \in 1 .. k - 1 : buf[c] # Configuration!Nul
  PROVE  Configuration!CString(buf) = SubSeq(buf, 1, k - 1)
  <1>1. PICK Q : Q = {c \in DOMAIN buf : buf[c] = Configuration!Nul}
    OBVIOUS
  <1>2. DOMAIN buf = 1 .. Len(buf)
    OBVIOUS
  <1>3. k \in Q /\ Q \subseteq 1 .. Len(buf)
    BY <1>1, <1>2
  <1>4. ASSUME NEW c \in Q PROVE k <= c
    <2>1. c \in 1 .. Len(buf) /\ buf[c] = Configuration!Nul
      BY <1>1, <1>3
    <2>2. ~ (c \in 1 .. k - 1)
      BY <2>1
    <2>3. QED
      BY <2>1, <2>2
  <1>5. PICK m : m = Configuration!Min(Q)
    OBVIOUS
  <1>6. Q \subseteq Nat /\ Q # {}
    BY <1>3
  <1>7. m \in Q /\ \A y \in Q : m <= y
    BY <1>5, <1>6, LeastIs
  <1>8. m = k
    BY <1>3, <1>4, <1>6, <1>7
  <1>9. QED
    BY <1>1, <1>5, <1>8 DEF Configuration!CString

(* It is the line that was collected into it. *)
LEMMA LineInBuffer ==
  ASSUME NEW S, NEW t \in Seq(S), NEW buf \in Seq(S), NEW u \in Nat, NEW n \in u .. Len(t),
         n - u < Len(buf), buf[n - u + 1] = Configuration!Nul,
         \A c \in 1 .. n - u : buf[c] = t[u + c],
         \A c \in 1 .. Len(t) : t[c] # Configuration!Nul
  PROVE  Configuration!CString(buf) = SubSeq(t, u + 1, n)
  <1>1. PICK k, a : k = n - u + 1 /\ a = u + 1
    OBVIOUS
  <1>2. /\ k \in 1 .. Len(buf) /\ k - 1 \in 0 .. Len(buf) /\ k - 1 = n - u
        /\ a \in 1 .. Len(t) + 1 /\ n \in a - 1 .. Len(t) /\ n - a + 1 = n - u
    BY <1>1
  <1>3. ASSUME NEW c \in 1 .. n - u PROVE buf[c] = t[u + c] /\ buf[c] # Configuration!Nul
    <2>1. u + c \in 1 .. Len(t)
      OBVIOUS
    <2>2. QED
      BY <2>1
  <1>4. Configuration!CString(buf) = SubSeq(buf, 1, k - 1)
    <2>1. k \in 1 .. Len(buf) /\ buf[k] = Configuration!Nul
      BY <1>1, <1>2
    <2>2. \A c \in 1 .. k - 1 : buf[c] # Configuration!Nul
      BY <1>2, <1>3
    <2>3. QED
      BY <2>1, <2>2, CStringIs
  <1>5. PICK p, q, h : p = SubSeq(buf, 1, h) /\ q = SubSeq(t, a, n) /\ h = k - 1
    OBVIOUS
  <1>6. p \in Seq(S) /\ Len(p) = n - u /\ \A i \in 1 .. n - u : p[i] = buf[i]
    <2>1. 1 \in 1 .. Len(buf) + 1 /\ h \in 1 - 1 .. Len(buf)
      BY <1>2, <1>5
    <2>2. h - 1 + 1 = n - u
      BY <1>2, <1>5
    <2>3. /\ SubSeq(buf, 1, h) \in Seq(S) /\ Len(SubSeq(buf, 1, h)) = h - 1 + 1
          /\ \A i \in 1 .. h - 1 + 1 : SubSeq(buf, 1, h)[i] = buf[1 + i - 1]
      BY <2>1, Between
    <2>4. p \in Seq(S) /\ Len(p) = h - 1 + 1 /\ \A i \in 1 .. h - 1 + 1 : p[i] = buf[1 + i - 1]
      BY <1>5, <2>3
    <2>5. QED
      BY <2>2, <2>4
  <1>7. q \in Seq(S) /\ Len(q) = n - u /\ \A i \in 1 .. n - u : q[i] = t[u + i]
    <2>1. q \in Seq(S) /\ Len(q) = n - a + 1 /\ \A i \in 1 .. n - a + 1 : q[i] = t[a + i - 1]
      BY <1>2, <1>5, Between
    <2>2. \A i \in 1 .. n - u : a + i - 1 = u + i
      BY <1>1
    <2>3. QED
      BY <1>2, <2>1, <2>2
  <1>8. p = q
    BY <1>3, <1>6, <1>7, SeqEqual
  <1>9. QED
    BY <1>1, <1>4, <1>5, <1>8

(***************************************************************************)
(* The inductive invariant: what is read of a line is in the buffer, and   *)
(* behind it the buffer is empty where no line before it has come.         *)
(***************************************************************************)
ConfigEntry == [key : Seq(Configuration!Chars \cup {Configuration!Nul}),
                value : Seq(Configuration!Chars \cup {Configuration!Nul})]

InBuffer ==
  /\ \A c \in 1 .. cLength : cLine[c] = cText[cRead - cLength + c]
  /\ \A i \in cRead - cLength + 1 .. cRead : cText[i] # Configuration!Break
  /\ cRead - cLength # 0 => cText[cRead - cLength] = Configuration!Break

BehindLines ==
  \A d \in cLength .. MaxText :
    (\A a \in Configuration!Complete : Len(Configuration!LineFrom(a)) <= d)
      => cLine[d + 1] = Configuration!Nul

ConfigInvariant ==
  /\ Configuration!TypeOK
  /\ cState = "reading" => cEntries \in Seq(ConfigEntry)
  /\ InBuffer
  /\ BehindLines
  /\ Configuration!EntriesMatch

LEMMA TextIs ==
  ASSUME Configuration!TypeOK
  PROVE  /\ cText \in Seq(Configuration!Chars \cup {Configuration!Nul}) /\ Len(cText) \in 0 .. MaxText
         /\ \A c \in 1 .. Len(cText) : cText[c] # Configuration!Nul
         /\ cLine \in Seq(Configuration!Chars \cup {Configuration!Nul}) /\ Len(cLine) = MaxText + 1
         /\ MaxText \in Nat /\ cRead \in Nat /\ cLength \in Nat
         /\ cRead <= Len(cText) /\ cLength <= cRead /\ cRead - cLength \in 0 .. cRead
  <1>1. MaxText \in Nat /\ MaxText + 1 \in Nat
    BY ServicesAssumption
  <1>2. PICK S, T : S = Configuration!Chars \cup {Configuration!Nul} /\ T = Configuration!Chars
    OBVIOUS
  <1>3. PICK n \in 0 .. MaxText : cText \in [1 .. n -> T]
    BY <1>2 DEF Configuration!TypeOK, Configuration!Texts
  <1>4. cText \in Seq(S) /\ Len(cText) = n
    BY <1>1, <1>2, <1>3
  <1>5. \A c \in 1 .. n : cText[c] # Configuration!Nul
    BY <1>2, <1>3 DEF Configuration!Chars, Configuration!Nul, Configuration!Letter,
         Configuration!Blank, Configuration!Hash, Configuration!Break
  <1>6. cLine \in [1 .. MaxText + 1 -> S]
    BY <1>2 DEF Configuration!TypeOK
  <1>7. cLine \in Seq(S) /\ Len(cLine) = MaxText + 1
    BY <1>1, <1>6
  <1>8. cRead \in 0 .. Len(cText) /\ cLength \in 0 .. cRead
    BY DEF Configuration!TypeOK
  <1>9. QED
    BY <1>1, <1>2, <1>3, <1>4, <1>5, <1>7, <1>8

LEMMA ToldSame ==
  ASSUME NEW E, NEW C, NEW L, NEW M, \A a \in C : L[a] = M[a], Told(E, C, L)
  PROVE  Told(E, C, M)
  <1>1. With(C, L) = With(C, M) /\ With(C, L) \subseteq C
    BY DEF With
  <1>2. QED
    BY <1>1 DEF Told

(* Where the line that is being read begins. *)
LEMMA NowCut ==
  ASSUME ConfigInvariant
  PROVE  /\ CompleteOf(cText, cRead) \subseteq 1 .. cRead - cLength
         /\ BeginsOf(cText, cRead) = CompleteOf(cText, cRead) \cup {(cRead - cLength) + 1}
         /\ LineAt(cText, cRead, (cRead - cLength) + 1) = SubSeq(cText, (cRead - cLength) + 1, cRead)
  <1>1. PICK u : u = cRead - cLength
    OBVIOUS
  <1>2. cRead \in Nat /\ u \in 0 .. cRead
    BY <1>1, TextIs DEF ConfigInvariant
  <1>3. /\ \A i \in u + 1 .. cRead : cText[i] # Configuration!Break
        /\ u # 0 => cText[u] = Configuration!Break
    BY <1>1 DEF ConfigInvariant, InBuffer
  <1>4. /\ CompleteOf(cText, cRead) \subseteq 1 .. u
        /\ BeginsOf(cText, cRead) = CompleteOf(cText, cRead) \cup {u + 1}
        /\ LineAt(cText, cRead, u + 1) = SubSeq(cText, u + 1, cRead)
    BY <1>2, <1>3, LinesCut
  <1>5. QED
    BY <1>1, <1>4

(* The entries with that of the line that ends. *)
LEMMA ToldReported ==
  ASSUME ConfigInvariant, cState = "reading",
         NEW s, s = SubSeq(cText, (cRead - cLength) + 1, cRead)
  PROVE  /\ cEntries \o Configuration!ParseLine(s) \in Seq(ConfigEntry)
         /\ Told(cEntries \o Configuration!ParseLine(s), BeginsOf(cText, cRead),
                 Lines(cText, cRead, BeginsOf(cText, cRead)))
  <1>1. PICK u, S, C, B, L :
          /\ u = cRead - cLength /\ S = Configuration!Chars \cup {Configuration!Nul}
          /\ C = CompleteOf(cText, cRead) /\ B = BeginsOf(cText, cRead) /\ L = Lines(cText, cRead, B)
    OBVIOUS
  <1>2. C \subseteq 1 .. u /\ B = C \cup {u + 1} /\ LineAt(cText, cRead, u + 1) = s
    BY <1>1, NowCut
  <1>3. u \in Nat /\ cText \in Seq(S) /\ u + 1 \in 1 .. Len(cText) + 1 /\ cRead \in (u + 1) - 1 .. Len(cText)
    <2>1. /\ cText \in Seq(S) /\ Len(cText) \in Nat /\ cRead \in Nat
          /\ cRead <= Len(cText) /\ u \in 0 .. cRead
      BY <1>1, TextIs DEF ConfigInvariant
    <2>2. QED
      BY <2>1
  <1>4. L[u + 1] = s /\ s \in Seq(S)
    <2>1. L[u + 1] = s
      BY <1>1, <1>2 DEF Lines
    <2>2. s \in Seq(S)
      BY <1>1, <1>3, Between
    <2>3. QED
      BY <2>1, <2>2
  <1>5. Told(cEntries, C, L)
    <2>1. Configuration!EntriesOf(C)
      BY <1>1, LinesNow DEF ConfigInvariant, Configuration!EntriesMatch, LinesAgree
    <2>2. Told(cEntries, C, Lines(cText, cRead, C))
      BY <2>1, ToldNow DEF ToldAgree
    <2>3. \A a \in C : Lines(cText, cRead, C)[a] = L[a]
      BY <1>1, <1>2 DEF Lines
    <2>4. QED
      BY <2>2, <2>3, ToldSame
  <1>6. ConfigEntry = [key : Seq(S), value : Seq(S)]
    BY <1>1 DEF ConfigEntry
  <1>7. cEntries \in Seq(ConfigEntry)
    BY DEF ConfigInvariant
  <1>8. /\ cEntries \o Configuration!ParseLine(L[u + 1]) \in Seq(ConfigEntry)
        /\ Told(cEntries \o Configuration!ParseLine(L[u + 1]), C \cup {u + 1}, L)
    BY <1>2, <1>3, <1>4, <1>5, <1>6, <1>7, ToldNext
  <1>9. QED
    BY <1>1, <1>2, <1>4, <1>8

LEMMA ConfigInit ==
  ASSUME Configuration!Init
  PROVE  ConfigInvariant
  <1>1. /\ cText \in Configuration!Texts /\ cRead = 0 /\ cLength = 0 /\ cEntries = << >>
        /\ cLine = [c \in 1 .. MaxText + 1 |-> Configuration!Nul] /\ cState = "reading"
    BY DEF Configuration!Init
  <1>2. Configuration!TypeOK
    <2>1. cRead \in 0 .. Len(cText)
      <3>1. PICK n \in 0 .. MaxText : cText \in [1 .. n -> Configuration!Chars]
        BY <1>1 DEF Configuration!Texts
      <3>2. n \in Nat
        BY ServicesAssumption
      <3>3. Len(cText) = n
        BY <3>1, <3>2
      <3>4. QED
        BY <1>1, <3>2, <3>3
    <2>2. QED
      BY <1>1, <2>1 DEF Configuration!TypeOK
  <1>3. cEntries \in Seq(ConfigEntry) /\ Len(cEntries) = 0
    BY <1>1
  <1>4. InBuffer
    BY <1>1 DEF InBuffer
  <1>5. BehindLines
    <2>1. \A d \in 0 .. MaxText : d + 1 \in 1 .. MaxText + 1
      BY ServicesAssumption
    <2>2. QED
      BY <1>1, <2>1 DEF BehindLines
  <1>6. Configuration!EntriesMatch
    <2>1. Configuration!Breaks = {}
      BY <1>1 DEF Configuration!Breaks
    <2>2. Configuration!Complete = {}
      BY <2>1 DEF Configuration!Complete
    <2>3. With({}, Lines(cText, cRead, {})) = {}
      BY DEF With
    <2>4. Cardinality({}) = 0
      BY FS_EmptySet
    <2>5. Told(cEntries, {}, Lines(cText, cRead, {}))
      BY <1>3, <2>3, <2>4 DEF Told
    <2>6. Configuration!EntriesOf({})
      BY <2>5, ToldNow DEF ToldAgree
    <2>7. QED
      BY <1>1, <2>2, <2>6 DEF Configuration!EntriesMatch
  <1>7. QED
    BY <1>2, <1>3, <1>4, <1>5, <1>6 DEF ConfigInvariant

LEMMA ConfigCollect ==
  ASSUME ConfigInvariant, Configuration!Collect
  PROVE  ConfigInvariant'
  <1>1. /\ cState = "reading" /\ cRead < Len(cText) /\ cText[cRead + 1] # Configuration!Break
        /\ cRead' = cRead + 1 /\ cLength' = cLength + 1
        /\ cLine' = [cLine EXCEPT ![cLength + 1] = cText[cRead + 1]]
        /\ cText' = cText /\ cEntries' = cEntries /\ cState' = cState
    BY DEF Configuration!Collect
  <1>2. /\ Len(cText) \in Nat /\ Len(cText) <= MaxText /\ MaxText \in Nat /\ cRead \in Nat /\ cLength \in Nat
        /\ cRead <= Len(cText) /\ cLength <= cRead
    BY TextIs DEF ConfigInvariant
  <1>3. /\ cText \in Configuration!Texts
        /\ cLine \in [1 .. MaxText + 1 -> Configuration!Chars \cup {Configuration!Nul}]
    BY DEF ConfigInvariant, Configuration!TypeOK
  <1>4. Configuration!TypeOK'
    <2>1. cText[cRead + 1] \in Configuration!Chars
      <3>1. PICK n \in 0 .. MaxText : cText \in [1 .. n -> Configuration!Chars]
        BY <1>3 DEF Configuration!Texts
      <3>2. Len(cText) = n
        BY <1>2, <3>1
      <3>3. cRead + 1 \in 1 .. n
        BY <1>1, <1>2, <3>2
      <3>4. QED
        BY <3>1, <3>3
    <2>2. cLine' \in [1 .. MaxText + 1 -> Configuration!Chars \cup {Configuration!Nul}]
      BY <1>1, <1>3, <2>1
    <2>3. cRead' \in 0 .. Len(cText) /\ cLength' \in 0 .. cRead'
      BY <1>1, <1>2
    <2>4. QED
      BY <1>1, <1>3, <2>2, <2>3 DEF Configuration!TypeOK
  <1>5. cEntries' \in Seq(ConfigEntry)
    BY <1>1 DEF ConfigInvariant
  <1>6. PICK u : u = cRead - cLength /\ u = cRead' - cLength'
    BY <1>1, <1>2
  <1>7. InBuffer'
    <2>1. /\ \A c \in 1 .. cLength : cLine[c] = cText[u + c]
          /\ \A i \in u + 1 .. cRead : cText[i] # Configuration!Break
          /\ u # 0 => cText[u] = Configuration!Break
      BY <1>6 DEF ConfigInvariant, InBuffer
    <2>2. ASSUME NEW c \in 1 .. cLength' PROVE cLine'[c] = cText'[u + c]
      <3>1. c \in 1 .. cLength + 1 /\ c \in 1 .. MaxText + 1 /\ u + (cLength + 1) = cRead + 1
        BY <1>1, <1>2, <1>6
      <3>2. CASE c = cLength + 1
        BY <1>1, <1>3, <3>1, <3>2
      <3>3. CASE c # cLength + 1
        <4>1. c \in 1 .. cLength
          BY <1>2, <3>1, <3>3
        <4>2. cLine'[c] = cLine[c]
          BY <1>1, <1>3, <3>1, <3>3
        <4>3. QED
          BY <1>1, <2>1, <4>1, <4>2
      <3>4. QED
        BY <3>2, <3>3
    <2>3. ASSUME NEW i \in u + 1 .. cRead' PROVE cText'[i] # Configuration!Break
      <3>1. i \in u + 1 .. cRead \/ i = cRead + 1
        BY <1>1, <1>2, <1>6
      <3>2. QED
        BY <1>1, <2>1, <3>1
    <2>4. QED
      BY <1>1, <1>6, <2>1, <2>2, <2>3 DEF InBuffer
  <1>8. /\ CompleteOf(cText', cRead') = CompleteOf(cText, cRead)
        /\ \A a \in CompleteOf(cText, cRead) : LineAt(cText', cRead', a) = LineAt(cText, cRead, a)
    BY <1>1, <1>2, LinesOnward
  <1>9. BehindLines'
    <2>1. SUFFICES ASSUME NEW d \in cLength' .. MaxText,
                          \A a \in Configuration!Complete' : Len(Configuration!LineFrom(a)') <= d
                   PROVE  cLine'[d + 1] = Configuration!Nul
      BY <1>1 DEF BehindLines
    <2>2. ASSUME NEW a \in Configuration!Complete PROVE Len(Configuration!LineFrom(a)) <= d
      BY <1>8, <2>1, LinesNow, LinesThen DEF LinesAgree
    <2>3. d \in cLength .. MaxText /\ d + 1 \in 1 .. MaxText + 1 /\ d + 1 # cLength + 1
      BY <1>1, <1>2, <2>1
    <2>4. cLine[d + 1] = Configuration!Nul
      BY <2>2, <2>3 DEF ConfigInvariant, BehindLines
    <2>5. QED
      BY <1>1, <1>3, <2>3, <2>4
  <1>10. Configuration!EntriesMatch'
    <2>1. PICK C : C = CompleteOf(cText, cRead)
      OBVIOUS
    <2>2. Configuration!EntriesOf(C)
      BY <1>1, <2>1, LinesNow DEF ConfigInvariant, Configuration!EntriesMatch, LinesAgree
    <2>3. Told(cEntries, C, Lines(cText, cRead, C))
      BY <2>2, ToldNow DEF ToldAgree
    <2>4. \A a \in C : Lines(cText, cRead, C)[a] = Lines(cText', cRead', C)[a]
      BY <1>8, <2>1 DEF Lines
    <2>5. Told(cEntries', C, Lines(cText', cRead', C))
      BY <1>1, <2>3, <2>4, ToldSame
    <2>6. Configuration!EntriesOf(C)'
      BY <2>5, ToldThen DEF ToldAgree
    <2>7. Configuration!Complete' = C /\ cState' # "done"
      BY <1>1, <1>8, <2>1, LinesThen DEF LinesAgree
    <2>8. QED
      BY <2>6, <2>7 DEF Configuration!EntriesMatch
  <1>11. QED
    BY <1>4, <1>5, <1>7, <1>9, <1>10 DEF ConfigInvariant

LEMMA ConfigEndLine ==
  ASSUME ConfigInvariant, Configuration!EndLine
  PROVE  ConfigInvariant'
  <1>1. /\ cState = "reading" /\ cRead < Len(cText) /\ cText[cRead + 1] = Configuration!Break
        /\ cRead' = cRead + 1 /\ cLength' = 0
        /\ cLine' = [cLine EXCEPT ![cLength + 1] = Configuration!Nul]
        /\ cText' = cText
        /\ \/ /\ cEntries' = cEntries \o Configuration!ParseLine(Configuration!CString(cLine'))
              /\ cState' = "reading"
           \/ cState' = "refused" /\ cEntries' = cEntries
    BY DEF Configuration!EndLine, Configuration!Report
  <1>2. PICK S : S = Configuration!Chars \cup {Configuration!Nul}
    OBVIOUS
  <1>3. /\ cText \in Seq(S) /\ Len(cText) \in Nat /\ Len(cText) <= MaxText
        /\ \A c \in 1 .. Len(cText) : cText[c] # Configuration!Nul
        /\ cLine \in Seq(S) /\ Len(cLine) = MaxText + 1
        /\ MaxText \in Nat /\ cRead \in Nat /\ cLength \in Nat
        /\ cRead <= Len(cText) /\ cLength <= cRead
    BY <1>2, TextIs DEF ConfigInvariant
  <1>4. /\ cText \in Configuration!Texts /\ cLine \in [1 .. MaxText + 1 -> S]
    BY <1>2 DEF ConfigInvariant, Configuration!TypeOK
  <1>5. PICK u, k : u = cRead - cLength /\ k = cLength + 1
    OBVIOUS
  <1>6. /\ u \in 0 .. cRead /\ u \in Nat /\ cRead \in u .. Len(cText) /\ cRead - u = cLength
        /\ k \in 1 .. MaxText + 1 /\ cLength < MaxText + 1
    BY <1>1, <1>3, <1>5
  <1>7. cLine' \in [1 .. MaxText + 1 -> S] /\ cLine'[k] = Configuration!Nul
        /\ \A c \in 1 .. MaxText + 1 : c # k => cLine'[c] = cLine[c]
    BY <1>1, <1>2, <1>4, <1>5, <1>6
  <1>8. Configuration!TypeOK'
    <2>1. cRead' \in 0 .. Len(cText) /\ cLength' \in 0 .. cRead'
      BY <1>1, <1>3
    <2>2. cState' \in {"reading", "done", "refused"}
      BY <1>1
    <2>3. QED
      BY <1>1, <1>2, <1>4, <1>7, <2>1, <2>2 DEF Configuration!TypeOK
  <1>9. /\ \A c \in 1 .. cLength : cLine[c] = cText[u + c]
        /\ \A i \in u + 1 .. cRead : cText[i] # Configuration!Break
        /\ u # 0 => cText[u] = Configuration!Break
    BY <1>5 DEF ConfigInvariant, InBuffer
  <1>10. /\ CompleteOf(cText', cRead') = BeginsOf(cText, cRead)
         /\ \A a \in BeginsOf(cText, cRead) : LineAt(cText', cRead', a) = LineAt(cText, cRead, a)
    BY <1>1, <1>3, <1>6, <1>9, LinesEnd
  <1>11. PICK s : s = SubSeq(cText, u + 1, cRead)
    OBVIOUS
  <1>12. Configuration!CString(cLine') = s
    <2>1. PICK buf : buf = cLine'
      OBVIOUS
    <2>2. buf \in Seq(S) /\ Len(buf) = MaxText + 1
      BY <1>3, <1>7, <2>1
    <2>3. cRead - u < Len(buf) /\ cRead - u + 1 = k
      BY <1>3, <1>5, <1>6, <2>2
    <2>4. ASSUME NEW c \in 1 .. cRead - u PROVE buf[c] = cText[u + c]
      <3>1. c \in 1 .. cLength /\ c \in 1 .. MaxText + 1 /\ c # k
        BY <1>3, <1>5, <1>6
      <3>2. QED
        BY <1>7, <1>9, <2>1, <3>1
    <2>5. buf[cRead - u + 1] = Configuration!Nul
      BY <1>7, <2>1, <2>3
    <2>6. Configuration!CString(buf) = SubSeq(cText, u + 1, cRead)
      <3>1. /\ cText \in Seq(S) /\ u \in Nat /\ cRead \in u .. Len(cText)
            /\ \A c \in 1 .. Len(cText) : cText[c] # Configuration!Nul
        BY <1>3, <1>6
      <3>2. buf \in Seq(S) /\ cRead - u < Len(buf)
        BY <2>2, <2>3
      <3>3. QED
        BY <2>4, <2>5, <3>1, <3>2, LineInBuffer
    <2>7. QED
      BY <1>11, <2>1, <2>6
  <1>13. /\ cEntries \o Configuration!ParseLine(s) \in Seq(ConfigEntry)
         /\ Told(cEntries \o Configuration!ParseLine(s), BeginsOf(cText, cRead),
                 Lines(cText, cRead, BeginsOf(cText, cRead)))
    BY <1>1, <1>5, <1>11, ToldReported
  <1>14. cEntries' \in Seq(ConfigEntry)
    BY <1>1, <1>12, <1>13 DEF ConfigInvariant
  <1>15. InBuffer'
    <2>1. cText'[cRead' - cLength'] = Configuration!Break
      BY <1>1, <1>3
    <2>2. /\ \A c \in 1 .. cLength' : FALSE
          /\ \A i \in cRead' - cLength' + 1 .. cRead' : FALSE
      BY <1>1, <1>3
    <2>3. QED
      BY <2>1, <2>2 DEF InBuffer
  <1>16. BehindLines'
    <2>1. SUFFICES ASSUME NEW d \in 0 .. MaxText,
                          \A a \in Configuration!Complete' : Len(Configuration!LineFrom(a)') <= d
                   PROVE  cLine'[d + 1] = Configuration!Nul
      BY <1>1 DEF BehindLines
    <2>2. ASSUME NEW a \in BeginsOf(cText, cRead) PROVE Len(LineAt(cText, cRead, a)) <= d
      BY <1>10, <2>1, LinesThen DEF LinesAgree
    <2>3. /\ BeginsOf(cText, cRead) = CompleteOf(cText, cRead) \cup {u + 1}
          /\ LineAt(cText, cRead, u + 1) = s
      BY <1>5, <1>11, NowCut
    <2>4. Len(s) = cLength
      <3>1. u + 1 \in 1 .. Len(cText) + 1 /\ cRead \in (u + 1) - 1 .. Len(cText)
            /\ cRead - (u + 1) + 1 = cLength
        BY <1>3, <1>6
      <3>2. Len(s) = cRead - (u + 1) + 1
        BY <1>3, <1>11, <3>1, Between
      <3>3. QED
        BY <3>1, <3>2
    <2>5. d \in cLength .. MaxText /\ d + 1 \in 1 .. MaxText + 1
      <3>1. cLength <= d
        BY <2>2, <2>3, <2>4
      <3>2. QED
        BY <1>3, <3>1
    <2>6. ASSUME NEW a \in Configuration!Complete PROVE Len(Configuration!LineFrom(a)) <= d
      BY <2>2, <2>3, LinesNow DEF LinesAgree
    <2>7. cLine[d + 1] = Configuration!Nul
      BY <2>5, <2>6 DEF ConfigInvariant, BehindLines
    <2>8. QED
      BY <1>7, <2>5, <2>7
  <1>17. Configuration!EntriesMatch'
    <2>1. cState' # "done"
      BY <1>1
    <2>2. CASE cState' = "refused"
      BY <2>2 DEF Configuration!EntriesMatch
    <2>3. CASE cState' # "refused"
      <3>1. PICK B : B = BeginsOf(cText, cRead)
        OBVIOUS
      <3>2. Told(cEntries', B, Lines(cText, cRead, B))
        BY <1>1, <1>12, <1>13, <2>3, <3>1
      <3>3. \A a \in B : Lines(cText, cRead, B)[a] = Lines(cText', cRead', B)[a]
        BY <1>10, <3>1 DEF Lines
      <3>4. Told(cEntries', B, Lines(cText', cRead', B))
        BY <3>2, <3>3, ToldSame
      <3>5. Configuration!EntriesOf(B)'
        BY <3>4, ToldThen DEF ToldAgree
      <3>6. Configuration!Complete' = B
        BY <1>10, <3>1, LinesThen DEF LinesAgree
      <3>7. QED
        BY <2>1, <3>5, <3>6 DEF Configuration!EntriesMatch
    <2>4. QED
      BY <2>2, <2>3
  <1>18. QED
    BY <1>8, <1>14, <1>15, <1>16, <1>17 DEF ConfigInvariant

LEMMA ConfigEndText ==
  ASSUME ConfigInvariant, Configuration!EndText
  PROVE  ConfigInvariant'
  <1>1. /\ cState = "reading" /\ cRead = Len(cText)
        /\ cRead' = cRead /\ cLength' = cLength /\ cLine' = cLine /\ cText' = cText
        /\ \/ /\ cEntries' = cEntries \o Configuration!ParseLine(Configuration!CString(cLine))
              /\ cState' = "done"
           \/ cState' = "refused" /\ cEntries' = cEntries
    BY DEF Configuration!EndText, Configuration!Report
  <1>2. PICK S : S = Configuration!Chars \cup {Configuration!Nul}
    OBVIOUS
  <1>3. /\ cText \in Seq(S) /\ Len(cText) \in Nat /\ Len(cText) <= MaxText
        /\ \A c \in 1 .. Len(cText) : cText[c] # Configuration!Nul
        /\ cLine \in Seq(S) /\ Len(cLine) = MaxText + 1
        /\ MaxText \in Nat /\ cRead \in Nat /\ cLength \in Nat
        /\ cRead <= Len(cText) /\ cLength <= cRead
    BY <1>2, TextIs DEF ConfigInvariant
  <1>4. PICK u, k, s, B : /\ u = cRead - cLength /\ k = cLength + 1
                          /\ s = SubSeq(cText, u + 1, cRead) /\ B = BeginsOf(cText, cRead)
    OBVIOUS
  <1>5. /\ u \in 0 .. cRead /\ u \in Nat /\ cRead \in u .. Len(cText) /\ cRead - u = cLength
        /\ k \in 1 .. MaxText + 1 /\ cLength < MaxText + 1
    BY <1>1, <1>3, <1>4
  <1>6. Configuration!Complete' = Configuration!Complete
        /\ \A a : Configuration!LineFrom(a)' = Configuration!LineFrom(a)
    BY <1>1, LinesNow, LinesThen DEF LinesAgree
  <1>7. Configuration!TypeOK'
    <2>1. cState' \in {"reading", "done", "refused"}
      BY <1>1
    <2>2. QED
      BY <1>1, <2>1 DEF ConfigInvariant, Configuration!TypeOK
  <1>8. InBuffer'
    BY <1>1 DEF ConfigInvariant, InBuffer
  <1>9. BehindLines'
    BY <1>1, <1>6 DEF ConfigInvariant, BehindLines
  <1>10. Configuration!EntriesMatch'
    <2>1. cState' # "reading"
      BY <1>1
    <2>2. SUFFICES ASSUME cState' = "done",
                          \A a \in Configuration!Complete : Len(Configuration!LineFrom(a)) <= cLength
                   PROVE  (Configuration!EntriesOf(Configuration!Begins))'
      BY <1>1, <1>6, <2>1 DEF Configuration!EntriesMatch
    <2>3. cLine[k] = Configuration!Nul
      <3>1. cLength \in cLength .. MaxText
        BY <1>3, <1>5
      <3>2. QED
        BY <1>4, <2>2, <3>1 DEF ConfigInvariant, BehindLines
    <2>4. Configuration!CString(cLine) = s
      <3>1. \A c \in 1 .. cLength : cLine[c] = cText[u + c]
        BY <1>4 DEF ConfigInvariant, InBuffer
      <3>2. cRead - u + 1 = k
        BY <1>4, <1>5
      <3>3. QED
        <4>1. PICK y : y = cLine
          OBVIOUS
        <4>2. /\ y \in Seq(S) /\ cRead - u < Len(y) /\ y[cRead - u + 1] = Configuration!Nul
              /\ \A c \in 1 .. cRead - u : y[c] = cText[u + c]
          BY <1>3, <1>5, <2>3, <3>1, <3>2, <4>1
        <4>3. Configuration!CString(y) = SubSeq(cText, u + 1, cRead)
          <5>1. /\ cText \in Seq(S) /\ u \in Nat /\ cRead \in u .. Len(cText)
                /\ \A c \in 1 .. Len(cText) : cText[c] # Configuration!Nul
            BY <1>3, <1>5
          <5>2. QED
            BY <4>2, <5>1, LineInBuffer
        <4>4. QED
          BY <1>4, <4>1, <4>3
    <2>5. Told(cEntries \o Configuration!ParseLine(s), B, Lines(cText, cRead, B))
      BY <1>1, <1>4, ToldReported
    <2>6. cEntries' = cEntries \o Configuration!ParseLine(s)
      BY <1>1, <2>2, <2>4
    <2>7. Told(cEntries', B, Lines(cText', cRead', B))
      BY <1>1, <2>5, <2>6
    <2>8. Configuration!EntriesOf(B)'
      BY <2>7, ToldThen DEF ToldAgree
    <2>9. Configuration!Begins' = B
      BY <1>1, <1>4, LinesThen DEF LinesAgree
    <2>10. QED
      BY <2>8, <2>9
  <1>11. QED
    BY <1>1, <1>7, <1>8, <1>9, <1>10 DEF ConfigInvariant

LEMMA ConfigStays ==
  ASSUME ConfigInvariant, UNCHANGED Configuration!vars
  PROVE  ConfigInvariant'
  <1>1. /\ cRead' = cRead /\ cLength' = cLength /\ cLine' = cLine /\ cText' = cText
        /\ cEntries' = cEntries /\ cState' = cState
    BY DEF Configuration!vars
  <1>2. /\ Configuration!Complete' = Configuration!Complete
        /\ Configuration!Begins' = Configuration!Begins
        /\ \A a : Configuration!LineFrom(a)' = Configuration!LineFrom(a)
    BY <1>1, LinesNow, LinesThen DEF LinesAgree
  <1>3. \A C : Configuration!EntriesOf(C)' <=> Configuration!EntriesOf(C)
    BY <1>1, ToldNow, ToldThen DEF ToldAgree
  <1>4. Configuration!EntriesMatch'
    BY <1>1, <1>2, <1>3 DEF ConfigInvariant, Configuration!EntriesMatch
  <1>5. Configuration!TypeOK'
    BY <1>1 DEF ConfigInvariant, Configuration!TypeOK
  <1>6. InBuffer' /\ BehindLines'
    BY <1>1, <1>2 DEF ConfigInvariant, InBuffer, BehindLines
  <1>7. QED
    BY <1>1, <1>4, <1>5, <1>6 DEF ConfigInvariant

(***************************************************************************)
(* For texts of every length: the callback has got one entry for every     *)
(* line that is one, in order, with its key and its value; at the end too, *)
(* unless a line was longer than the last (ms_config_parse).               *)
(***************************************************************************)
THEOREM ConfigEntries == Configuration!Spec => []ConfigMatches
  <1>1. Configuration!Init => ConfigInvariant
    BY ConfigInit
  <1>2. ConfigInvariant /\ [Configuration!Next]_(Configuration!vars) => ConfigInvariant'
    <2>1. SUFFICES ASSUME ConfigInvariant, [Configuration!Next]_(Configuration!vars)
                   PROVE  ConfigInvariant'
      OBVIOUS
    <2>2. CASE Configuration!Collect
      BY <2>1, <2>2, ConfigCollect
    <2>3. CASE Configuration!EndLine
      BY <2>1, <2>3, ConfigEndLine
    <2>4. CASE Configuration!EndText
      BY <2>1, <2>4, ConfigEndText
    <2>5. CASE UNCHANGED Configuration!vars
      BY <2>1, <2>5, ConfigStays
    <2>6. QED
      BY <2>1, <2>2, <2>3, <2>4, <2>5 DEF Configuration!Next
  <1>3. ConfigInvariant => ConfigMatches
    BY DEF ConfigInvariant, ConfigMatches
  <1>4. QED
    BY <1>1, <1>2, <1>3, PTL DEF Configuration!Spec

-----------------------------------------------------------------------------
(* The URI decoder.  First what stands for a character in a text: none of  *)
(* it is a delimiter, and it is decoded to that character.                 *)
UriChars == Letters \cup Uris!Digits \cup Uris!Delimiters \cup Uris!Escapes

LEMMA EscapeIs ==
  ASSUME NEW c \in Letters \cup Uris!Digits \cup Uris!Delimiters
  PROVE  /\ Uris!Escape(c) \in UriChars \ Uris!Delimiters
         /\ c \in Uris!Delimiters => /\ Uris!Escape(c) \in Uris!Escapes
                                     /\ (CHOOSE d \in Uris!Delimiters : Uris!Escape(d) = Uris!Escape(c)) = c
         /\ c \notin Uris!Delimiters => Uris!Escape(c) = c /\ c \notin Uris!Escapes
  <1>1. /\ Uris!Escape(":") = "%3A" /\ Uris!Escape("/") = "%2F" /\ Uris!Escape("?") = "%3F"
        /\ Uris!Escape("#") = "%23" /\ Uris!Escape("@") = "%40"
    BY DEF Uris!Escape
  <1>2. Uris!Escapes = {"%3A", "%2F", "%3F", "%23", "%40"}
    BY <1>1 DEF Uris!Escapes, Uris!Delimiters
  <1>3. CASE c \in Uris!Delimiters
    <2>1. Uris!Escape(c) \in Uris!Escapes
      BY <1>3 DEF Uris!Escapes
    <2>2. Uris!Escape(c) \notin Uris!Delimiters
      BY <1>2, <2>1 DEF Uris!Delimiters
    <2>3. \A d \in Uris!Delimiters : Uris!Escape(d) = Uris!Escape(c) => d = c
      BY <1>1, <1>3 DEF Uris!Delimiters
    <2>4. (CHOOSE d \in Uris!Delimiters : Uris!Escape(d) = Uris!Escape(c)) = c
      BY <1>3, <2>3
    <2>5. QED
      BY <1>3, <2>1, <2>2, <2>4 DEF UriChars
  <1>4. CASE c \notin Uris!Delimiters
    <2>1. Uris!Escape(c) = c
      BY <1>4 DEF Uris!Escape, Uris!Delimiters
    <2>2. c \in UriChars
      BY DEF UriChars
    <2>3. c \notin Uris!Escapes
      <3>1. CASE c \in Letters
        BY <3>1, ServicesAssumption
      <3>2. CASE c \in Uris!Digits
        BY <1>2, <3>2 DEF Uris!Digits
      <3>3. QED
        BY <1>4, <3>1, <3>2
    <2>4. QED
      BY <1>4, <2>1, <2>2, <2>3
  <1>5. QED
    BY <1>3, <1>4

(* A text without a delimiter. *)
Lacks(s, d) == \A i \in 1 .. Len(s) : s[i] # d

LEMMA WordIs ==
  ASSUME NEW w \in Words \cup Ports
  PROVE  /\ w # Uris!Null /\ Uris!Escaped(w) # << >> /\ Uris!Escaped(w) \in Seq(UriChars)
         /\ Uris!Escaped(w)[1] \notin Uris!Delimiters
         /\ \A d \in Uris!Delimiters : Lacks(Uris!Escaped(w), d)
  <1>1. PICK S, n : S = Letters \cup Uris!Digits \cup Uris!Delimiters /\ n = Len(w)
    OBVIOUS
  <1>2. w \in Seq(S) /\ w # << >>
    <2>1. CASE w \in Words
      BY <1>1, <2>1, ServicesAssumption
    <2>2. CASE w \in Ports
      BY <1>1, <2>2, ServicesAssumption
    <2>3. QED
      BY <2>1, <2>2
  <1>3. n \in Nat /\ n # 0 /\ DOMAIN w = 1 .. n /\ 1 \in 1 .. n /\ \A c \in 1 .. n : w[c] \in S
    BY <1>1, <1>2, EmptySeq
  <1>4. "NULL" \notin S
    BY <1>1, ServicesAssumption DEF Uris!Digits, Uris!Delimiters
  <1>5. w # Uris!Null
    BY <1>3, <1>4 DEF Uris!Null
  <1>6. PICK e : e = Uris!Escaped(w)
    OBVIOUS
  <1>7. e = [c \in 1 .. n |-> Uris!Escape(w[c])]
    BY <1>3, <1>6 DEF Uris!Escaped
  <1>8. \A c \in 1 .. n : e[c] \in UriChars \ Uris!Delimiters
    BY <1>1, <1>3, <1>7, EscapeIs
  <1>9. e \in [1 .. n -> UriChars]
    BY <1>7, <1>8
  <1>10. e \in Seq(UriChars) /\ Len(e) = n /\ e # << >>
    BY <1>3, <1>9
  <1>11. QED
    BY <1>3, <1>5, <1>6, <1>8, <1>10 DEF Lacks

LEMMA DecodedIs ==
  ASSUME NEW w \in Words
  PROVE  Uris!Decoded(Uris!Escaped(w)) = w
  <1>1. PICK S, n, e : S = Letters \cup Uris!Delimiters /\ n = Len(w) /\ e = Uris!Escaped(w)
    OBVIOUS
  <1>2. w \in Seq(S)
    BY <1>1, ServicesAssumption
  <1>3. n \in Nat /\ DOMAIN w = 1 .. n /\ \A c \in 1 .. n : w[c] \in S
    BY <1>1, <1>2
  <1>4. w = [c \in 1 .. n |-> w[c]]
    BY <1>1, <1>2
  <1>5. e = [c \in 1 .. n |-> Uris!Escape(w[c])]
    BY <1>1, <1>3 DEF Uris!Escaped
  <1>6. Uris!Decoded(e) =
          [c \in 1 .. n |-> IF Uris!Escape(w[c]) \in Uris!Escapes
                              THEN CHOOSE d \in Uris!Delimiters : Uris!Escape(d) = Uris!Escape(w[c])
                              ELSE Uris!Escape(w[c])]
    BY <1>5 DEF Uris!Decoded
  <1>7. ASSUME NEW c \in 1 .. n
        PROVE  (IF Uris!Escape(w[c]) \in Uris!Escapes
                  THEN CHOOSE d \in Uris!Delimiters : Uris!Escape(d) = Uris!Escape(w[c])
                  ELSE Uris!Escape(w[c])) = w[c]
    <2>1. PICK x \in S : x = w[c]
      BY <1>3
    <2>2. x \in Letters \cup Uris!Digits \cup Uris!Delimiters
      BY <1>1
    <2>3. (IF Uris!Escape(x) \in Uris!Escapes
             THEN CHOOSE d \in Uris!Delimiters : Uris!Escape(d) = Uris!Escape(x)
             ELSE Uris!Escape(x)) = x
      BY <2>2, EscapeIs
    <2>4. QED
      BY <2>1, <2>3
  <1>8. QED
    BY <1>1, <1>4, <1>6, <1>7

(* A port's digits stand for themselves. *)
LEMMA PortIs ==
  ASSUME NEW w \in Ports
  PROVE  Uris!Escaped(w) = w /\ w \in Seq(Uris!Digits)
  <1>1. w \in Seq(Uris!Digits)
    BY ServicesAssumption
  <1>2. PICK n : n = Len(w)
    OBVIOUS
  <1>3. n \in Nat /\ DOMAIN w = 1 .. n /\ \A c \in 1 .. n : w[c] \in Uris!Digits
    BY <1>1, <1>2
  <1>4. \A c \in 1 .. n : Uris!Escape(w[c]) = w[c]
    BY <1>3 DEF Uris!Escape, Uris!Digits
  <1>5. Uris!Escaped(w) = [c \in 1 .. n |-> w[c]]
    BY <1>3, <1>4 DEF Uris!Escaped
  <1>6. w = [c \in 1 .. n |-> w[c]]
    BY <1>1, <1>2
  <1>7. QED
    BY <1>1, <1>5, <1>6

(* A component behind its delimiter, or nothing. *)
Part(w) == IF w = Uris!Null THEN Uris!Null ELSE Uris!Escaped(w)

LEMMA AfterIs ==
  ASSUME NEW d \in Uris!Delimiters, NEW w \in Words \cup Ports \cup {Uris!Null}
  PROVE  /\ Uris!After(d, w) \in Seq(UriChars)
         /\ w = Uris!Null => Uris!After(d, w) = << >>
         /\ w # Uris!Null => Uris!After(d, w) = <<d>> \o Uris!Escaped(w)
         /\ \A e \in Uris!Delimiters : e # d => Lacks(Uris!After(d, w), e)
  <1>1. CASE w = Uris!Null
    <2>1. Uris!After(d, w) = << >>
      BY <1>1 DEF Uris!After
    <2>2. QED
      BY <1>1, <2>1 DEF Lacks
  <1>2. CASE w # Uris!Null
    <2>1. Uris!After(d, w) = <<d>> \o Uris!Escaped(w)
      BY <1>2 DEF Uris!After
    <2>2. PICK s, t : s = Uris!Escaped(w) /\ t = <<d>> \o s
      OBVIOUS
    <2>3. s \in Seq(UriChars) /\ \A e \in Uris!Delimiters : Lacks(s, e)
      BY <1>2, <2>2, WordIs
    <2>4. d \in UriChars
      BY DEF UriChars
    <2>5. <<d>> \in Seq(UriChars) /\ Len(<<d>>) = 1 /\ <<d>>[1] = d
      BY <2>4
    <2>6. /\ t \in Seq(UriChars) /\ Len(t) = 1 + Len(s)
          /\ \A i \in 1 .. 1 + Len(s) : t[i] = IF i <= 1 THEN <<d>>[i] ELSE s[i - 1]
      BY <2>2, <2>3, <2>5, ConcatProperties
    <2>7. ASSUME NEW e \in Uris!Delimiters, e # d, NEW i \in 1 .. Len(t) PROVE t[i] # e
      <3>1. Len(s) \in Nat
        BY <2>3
      <3>2. CASE i = 1
        BY <2>5, <2>6, <2>7, <3>2
      <3>3. CASE i # 1
        <4>1. i - 1 \in 1 .. Len(s) /\ ~ (i <= 1) /\ i \in 1 .. 1 + Len(s)
          BY <2>6, <3>1, <3>3
        <4>2. QED
          BY <2>3, <2>6, <4>1 DEF Lacks
      <3>4. QED
        BY <3>2, <3>3
    <2>8. QED
      BY <1>2, <2>1, <2>2, <2>6, <2>7 DEF Lacks
  <1>3. QED
    BY <1>1, <1>2

LEMMA LacksBoth ==
  ASSUME NEW S, NEW s \in Seq(S), NEW t \in Seq(S), NEW d, Lacks(s, d), Lacks(t, d)
  PROVE  s \o t \in Seq(S) /\ Lacks(s \o t, d)
  <1>1. PICK u : u = s \o t
    OBVIOUS
  <1>2. /\ u \in Seq(S) /\ Len(u) = Len(s) + Len(t)
        /\ \A i \in 1 .. Len(s) + Len(t) : u[i] = IF i <= Len(s) THEN s[i] ELSE t[i - Len(s)]
    BY <1>1, ConcatProperties
  <1>3. ASSUME NEW i \in 1 .. Len(u) PROVE u[i] # d
    <2>1. Len(s) \in Nat /\ Len(t) \in Nat /\ i \in 1 .. Len(s) + Len(t)
      BY <1>2
    <2>2. CASE i <= Len(s)
      BY <1>2, <2>1, <2>2 DEF Lacks
    <2>3. CASE ~ (i <= Len(s))
      <3>1. i - Len(s) \in 1 .. Len(t)
        BY <2>1, <2>3
      <3>2. QED
        BY <1>2, <2>1, <2>3, <3>1 DEF Lacks
    <2>4. QED
      BY <2>2, <2>3
  <1>4. QED
    BY <1>1, <1>2, <1>3 DEF Lacks

(* find, and what is cut off there. *)
LEMMA UriLeast ==
  ASSUME NEW Q, Q \subseteq Nat, Q # {}
  PROVE  Uris!Min(Q) \in Q /\ \A y \in Q : Uris!Min(Q) <= y
  BY HasMinimum DEF Uris!Min

LEMMA Cut ==
  ASSUME NEW S, NEW s \in Seq(S), NEW t \in Seq(S), NEW d \in S, Lacks(s, d)
  PROVE  /\ Uris!Has(s \o (<<d>> \o t), d)
         /\ Uris!Before(s \o (<<d>> \o t), d) = s
         /\ Uris!Behind(s \o (<<d>> \o t), d) = t
  <1>1. PICK u, v, n, m : u = s \o v /\ v = <<d>> \o t /\ n = Len(s) /\ m = Len(t)
    OBVIOUS
  <1>2. n \in Nat /\ m \in Nat /\ <<d>> \in Seq(S) /\ Len(<<d>>) = 1 /\ <<d>>[1] = d
    BY <1>1
  <1>3. /\ v \in Seq(S) /\ Len(v) = 1 + m
        /\ \A i \in 1 .. 1 + m : v[i] = IF i <= 1 THEN <<d>>[i] ELSE t[i - 1]
    BY <1>1, <1>2, ConcatProperties
  <1>4. v[1] = d /\ \A i \in 1 .. m : v[i + 1] = t[i]
    <2>1. 1 \in 1 .. 1 + m /\ \A i \in 1 .. m : i + 1 \in 1 .. 1 + m /\ ~ (i + 1 <= 1) /\ (i + 1) - 1 = i
      BY <1>2
    <2>2. QED
      BY <1>2, <1>3, <2>1
  <1>5. /\ u \in Seq(S) /\ Len(u) = n + (1 + m)
        /\ \A i \in 1 .. n + (1 + m) : u[i] = IF i <= n THEN s[i] ELSE v[i - n]
    BY <1>1, <1>3, ConcatProperties
  <1>6. u[n + 1] = d /\ \A i \in 1 .. n : u[i] = s[i]
    <2>1. n + 1 \in 1 .. n + (1 + m) /\ ~ (n + 1 <= n) /\ (n + 1) - n = 1
          /\ \A i \in 1 .. n : i \in 1 .. n + (1 + m) /\ i <= n
      BY <1>2
    <2>2. QED
      BY <1>4, <1>5, <2>1
  <1>7. ASSUME NEW i \in 1 .. m PROVE u[(n + 1) + i] = t[i]
    <2>1. (n + 1) + i \in 1 .. n + (1 + m) /\ ~ ((n + 1) + i <= n) /\ ((n + 1) + i) - n = i + 1
      BY <1>2
    <2>2. QED
      BY <1>4, <1>5, <2>1
  <1>8. PICK Q : Q = {c \in DOMAIN u : u[c] = d}
    OBVIOUS
  <1>9. DOMAIN u = 1 .. n + (1 + m)
    BY <1>5
  <1>10. n + 1 \in Q /\ Q \subseteq Nat
    BY <1>2, <1>6, <1>8, <1>9
  <1>11. ASSUME NEW c \in Q PROVE n + 1 <= c
    <2>1. c \in 1 .. n + (1 + m) /\ u[c] = d
      BY <1>8, <1>9
    <2>2. ~ (c \in 1 .. n)
      BY <1>1, <1>6, <2>1 DEF Lacks
    <2>3. QED
      BY <1>2, <2>1, <2>2
  <1>12. Uris!Min(Q) = n + 1
    <2>1. PICK k : k = Uris!Min(Q)
      OBVIOUS
    <2>2. Q # {} /\ Q \subseteq Nat
      BY <1>10
    <2>3. k \in Q /\ \A y \in Q : k <= y
      BY <2>1, <2>2, UriLeast
    <2>4. k \in Nat /\ k <= n + 1 /\ n + 1 <= k
      BY <1>10, <1>11, <2>2, <2>3
    <2>5. QED
      BY <1>2, <2>1, <2>4
  <1>13. Uris!Has(u, d)
    <2>1. n + 1 \in 1 .. Len(u)
      BY <1>2, <1>5
    <2>2. QED
      BY <1>6, <2>1 DEF Uris!Has, Uris!Contains
  <1>14. SubSeq(u, 1, Uris!Min(Q) - 1) = s
    <2>1. Uris!Min(Q) - 1 = n
      BY <1>2, <1>12
    <2>2. PICK p : p = SubSeq(u, 1, n)
      OBVIOUS
    <2>3. 1 \in 1 .. Len(u) + 1 /\ n \in 1 - 1 .. Len(u) /\ n - 1 + 1 = n
      BY <1>2, <1>5
    <2>4. p \in Seq(S) /\ Len(p) = n - 1 + 1 /\ \A i \in 1 .. n - 1 + 1 : p[i] = u[1 + i - 1]
      BY <1>5, <2>2, <2>3, Between
    <2>5. p = s
      BY <1>1, <1>2, <1>6, <2>3, <2>4, SeqEqual
    <2>6. QED
      BY <2>1, <2>2, <2>5
  <1>15. SubSeq(u, Uris!Min(Q) + 1, Len(u)) = t
    <2>1. PICK a, z : a = Uris!Min(Q) + 1 /\ z = Len(u)
      OBVIOUS
    <2>2. a = (n + 1) + 1 /\ z = n + (1 + m)
      BY <1>5, <1>12, <2>1
    <2>3. a \in 1 .. Len(u) + 1 /\ z \in a - 1 .. Len(u) /\ z - a + 1 = m
      BY <1>2, <2>1, <2>2
    <2>4. PICK p : p = SubSeq(u, a, z)
      OBVIOUS
    <2>5. p \in Seq(S) /\ Len(p) = z - a + 1 /\ \A i \in 1 .. z - a + 1 : p[i] = u[a + i - 1]
      BY <1>5, <2>3, <2>4, Between
    <2>6. ASSUME NEW i \in 1 .. m PROVE p[i] = t[i]
      <3>1. a + i - 1 = (n + 1) + i
        BY <1>2, <2>2
      <3>2. QED
        BY <1>7, <2>3, <2>5, <3>1
    <2>7. p = t
      BY <1>1, <1>2, <2>3, <2>5, <2>6, SeqEqual
    <2>8. QED
      BY <2>1, <2>4, <2>7
  <1>16. QED
    BY <1>1, <1>8, <1>13, <1>14, <1>15 DEF Uris!Before, Uris!Behind

LEMMA NoCut ==
  ASSUME NEW S, NEW s \in Seq(S), NEW d, Lacks(s, d)
  PROVE  /\ ~ Uris!Has(s, d) /\ Uris!Before(s, d) = s /\ Uris!Behind(s, d) = Uris!Null
  <1>1. ~ Uris!Has(s, d)
    BY DEF Lacks, Uris!Has, Uris!Contains
  <1>2. QED
    BY <1>1 DEF Uris!Before, Uris!Behind

(* Cutting a component off at its delimiter. *)
LEMMA CutPart ==
  ASSUME NEW d \in Uris!Delimiters, NEW s \in Seq(UriChars), Lacks(s, d),
         NEW w \in Words \cup Ports \cup {Uris!Null}
  PROVE  /\ Uris!Before(s \o Uris!After(d, w), d) = s
         /\ Uris!Behind(s \o Uris!After(d, w), d) = Part(w)
  <1>1. CASE w = Uris!Null
    <2>1. s \o Uris!After(d, w) = s
      BY <1>1, AfterIs, ConcatEmptySeq
    <2>2. QED
      BY <1>1, <2>1, NoCut DEF Part
  <1>2. CASE w # Uris!Null
    <2>1. Uris!After(d, w) = <<d>> \o Uris!Escaped(w)
      BY <1>2, AfterIs
    <2>2. Uris!Escaped(w) \in Seq(UriChars) /\ d \in UriChars
      BY <1>2, WordIs DEF UriChars
    <2>3. QED
      BY <1>2, <2>1, <2>2, Cut DEF Part
  <1>3. QED
    BY <1>1, <1>2

LEMMA NotNull ==
  ASSUME NEW s \in Seq(UriChars)
  PROVE  s # Uris!Null
  <1>1. "NULL" \notin UriChars
    <2>1. "NULL" \notin Letters
      BY ServicesAssumption
    <2>2. "NULL" \notin Uris!Digits \cup Uris!Delimiters
      BY DEF Uris!Digits, Uris!Delimiters
    <2>3. "NULL" \notin Uris!Escapes
      BY DEF Uris!Escapes, Uris!Escape, Uris!Delimiters
    <2>4. QED
      BY <2>1, <2>2, <2>3 DEF UriChars
  <1>2. SUFFICES ASSUME s = <<"NULL">> PROVE FALSE
    BY DEF Uris!Null
  <1>3. 1 \in 1 .. Len(s) /\ s[1] = "NULL"
    BY <1>2
  <1>4. s[1] \in UriChars
    BY <1>3, ElementOfSeq
  <1>5. QED
    BY <1>1, <1>3, <1>4

LEMMA PartIs ==
  ASSUME NEW w \in Words \cup Ports \cup {Uris!Null}
  PROVE  Part(w) = Uris!Null <=> w = Uris!Null
  <1>1. w # Uris!Null => Uris!Escaped(w) # Uris!Null
    BY WordIs, NotNull
  <1>2. QED
    BY <1>1 DEF Part

(* The query and the fragment are cut off what is before them, P.          *)
UriTail(q, f) == Uris!After("?", q) \o Uris!After("#", f)

LEMMA TailIs ==
  ASSUME NEW q \in Words \cup {Uris!Null}, NEW f \in Words \cup {Uris!Null}
  PROVE  /\ UriTail(q, f) \in Seq(UriChars)
         /\ Lacks(UriTail(q, f), ":") /\ Lacks(UriTail(q, f), "/") /\ Lacks(UriTail(q, f), "@")
  <1>1. PICK a, b : a = Uris!After("?", q) /\ b = Uris!After("#", f)
    OBVIOUS
  <1>2. /\ ":" \in Uris!Delimiters /\ "/" \in Uris!Delimiters /\ "@" \in Uris!Delimiters
        /\ "?" \in Uris!Delimiters /\ "#" \in Uris!Delimiters
    BY DEF Uris!Delimiters
  <1>3. a \in Seq(UriChars) /\ \A e \in Uris!Delimiters : e # "?" => Lacks(a, e)
    BY <1>1, <1>2, AfterIs
  <1>4. b \in Seq(UriChars) /\ \A e \in Uris!Delimiters : e # "#" => Lacks(b, e)
    BY <1>1, <1>2, AfterIs
  <1>5. \A e \in {":", "/", "@"} : Lacks(a, e) /\ Lacks(b, e)
    BY <1>2, <1>3, <1>4
  <1>6. \A e \in {":", "/", "@"} : a \o b \in Seq(UriChars) /\ Lacks(a \o b, e)
    BY <1>3, <1>4, <1>5, LacksBoth
  <1>7. QED
    BY <1>1, <1>6 DEF UriTail

LEMMA QueryCut ==
  ASSUME NEW P \in Seq(UriChars), Lacks(P, "?"),
         NEW q \in Words \cup {Uris!Null}, NEW f \in Words \cup {Uris!Null}
  PROVE  /\ Uris!Before(P \o UriTail(q, f), "?") = IF q = Uris!Null THEN P \o Uris!After("#", f) ELSE P
         /\ Uris!Behind(P \o UriTail(q, f), "?") =
              IF q = Uris!Null THEN Uris!Null ELSE Uris!Escaped(q) \o Uris!After("#", f)
  <1>1. PICK b : b = Uris!After("#", f)
    OBVIOUS
  <1>2. "?" \in Uris!Delimiters /\ "#" \in Uris!Delimiters /\ "?" \in UriChars
    BY DEF Uris!Delimiters, UriChars
  <1>3. b \in Seq(UriChars) /\ Lacks(b, "?")
    <2>1. b \in Seq(UriChars) /\ \A e \in Uris!Delimiters : e # "#" => Lacks(b, e)
      BY <1>1, <1>2, AfterIs
    <2>2. QED
      BY <1>2, <2>1
  <1>4. CASE q = Uris!Null
    <2>1. UriTail(q, f) = b
      <3>1. Uris!After("?", q) = << >>
        BY <1>2, <1>4, AfterIs
      <3>2. << >> \o b = b
        BY <1>3, ConcatEmptySeq
      <3>3. QED
        BY <1>1, <3>1, <3>2 DEF UriTail
    <2>2. P \o b \in Seq(UriChars) /\ Lacks(P \o b, "?")
      BY <1>3, LacksBoth
    <2>3. Uris!Before(P \o b, "?") = P \o b /\ Uris!Behind(P \o b, "?") = Uris!Null
      BY <2>2, NoCut
    <2>4. QED
      BY <1>1, <1>4, <2>1, <2>3
  <1>5. CASE q # Uris!Null
    <2>1. PICK e, d : e = Uris!Escaped(q) /\ d = <<"?">>
      OBVIOUS
    <2>2. e \in Seq(UriChars) /\ d \in Seq(UriChars)
      BY <1>2, <1>5, <2>1, WordIs
    <2>3. Uris!After("?", q) = d \o e
      BY <1>2, <1>5, <2>1, AfterIs
    <2>4. UriTail(q, f) = d \o (e \o b)
      <3>1. (d \o e) \o b = d \o (e \o b)
        BY <1>3, <2>2, ConcatAssociative
      <3>2. QED
        BY <1>1, <2>3, <3>1 DEF UriTail
    <2>5. e \o b \in Seq(UriChars)
      BY <1>3, <2>2, ConcatProperties
    <2>6. /\ Uris!Before(P \o (<<"?">> \o (e \o b)), "?") = P
          /\ Uris!Behind(P \o (<<"?">> \o (e \o b)), "?") = e \o b
      <3>1. PICK t, m : t = e \o b /\ m = "?"
        OBVIOUS
      <3>2. t \in Seq(UriChars) /\ m \in UriChars /\ Lacks(P, m)
        BY <1>2, <2>5, <3>1
      <3>3. Uris!Before(P \o (<<m>> \o t), m) = P /\ Uris!Behind(P \o (<<m>> \o t), m) = t
        BY <3>2, Cut
      <3>4. QED
        BY <3>1, <3>3
    <2>7. QED
      BY <1>1, <1>5, <2>1, <2>4, <2>6
  <1>6. QED
    BY <1>4, <1>5

UriPlaces == Uris!Fields \cup {"rest", "next"}

LEMMA ComponentIs ==
  ASSUME NEW v, NEW x, x # "port", NEW w \in Words \cup {Uris!Null}, v[x] = Part(w)
  PROVE  Uris!Component(v, x) = w
  <1>1. CASE w = Uris!Null
    BY <1>1 DEF Uris!Component, Part
  <1>2. CASE w # Uris!Null
    <2>1. v[x] # Uris!Null
      BY <1>2, PartIs
    <2>2. v[x] = Uris!Escaped(w)
      BY <1>2 DEF Part
    <2>3. Uris!Component(v, x) = Uris!Decoded(v[x])
      BY <2>1 DEF Uris!Component
    <2>4. QED
      BY <1>2, <2>2, <2>3, DecodedIs
  <1>3. QED
    BY <1>1, <1>2

(* What a parsed URI r says of the URI g before the query is cut off k: P  *)
(* and the tail.                                                           *)
ParsedAs(r, g, k, P) ==
  /\ k \in {"host", "path", "rest"} /\ r = [x \in UriPlaces |-> r[x]] /\ r.next = k
  /\ P \in Seq(UriChars) /\ Lacks(P, "?") /\ Lacks(P, "#")
  /\ r[k] = P \o UriTail(g.query, g.fragment)
  /\ g.query # Uris!Null \/ k = "path"
  /\ r.user = Part(g.user) /\ r.password = Part(g.password) /\ r.port = g.port
  /\ IF k = "host" THEN P = Part(g.host) ELSE r.host = Part(g.host)
  /\ IF k = "path" THEN P = Part(g.path) ELSE r.path = Part(g.path)

LEMMA GivenIs ==
  ASSUME NEW g \in Uris!Givens
  PROVE  /\ \A x \in Uris!Fields \ {"port"} : g[x] \in Words \cup {Uris!Null}
         /\ g.port \in Ports \cup {Uris!Null}
         /\ g = [x \in Uris!Fields |-> g[x]]
         /\ g.password # Uris!Null => g.user # Uris!Null
         /\ g.user # Uris!Null \/ g.port # Uris!Null => g.host # Uris!Null
  BY DEF Uris!Givens, Uris!Optional, Uris!Fields

(* The query and the fragment are cut off the component before them. *)
LEMMA Finished ==
  ASSUME NEW g \in Uris!Givens, NEW r, NEW k, NEW P, ParsedAs(r, g, k, P)
  PROVE  LET p == Uris!WithQuery(r)
             v == Uris!WithFragment(p)
         IN  /\ p[Uris!Searched(p)] # Uris!Null
             /\ v[k] = P /\ v.query = Part(g.query) /\ v.fragment = Part(g.fragment)
             /\ \A x \in UriPlaces \ {k, "query", "fragment"} : v[x] = r[x]
  <1>1. PICK q, f, p, v : /\ q = g.query /\ f = g.fragment
                          /\ p = Uris!WithQuery(r) /\ v = Uris!WithFragment(p)
    OBVIOUS
  <1>2. /\ P \in Seq(UriChars) /\ Lacks(P, "?") /\ Lacks(P, "#")
        /\ q \in Words \cup {Uris!Null} /\ f \in Words \cup {Uris!Null}
        /\ k \in {"host", "path", "rest"} /\ (q # Uris!Null \/ k = "path")
        /\ r = [x \in UriPlaces |-> r[x]] /\ r.next = k /\ r[k] = P \o UriTail(q, f)
        /\ p = Uris!WithQuery(r) /\ v = Uris!WithFragment(p)
    BY <1>1, GivenIs DEF ParsedAs, Uris!Fields
  <1>3. PICK s, b : s = P \o UriTail(q, f) /\ b = Uris!After("#", f)
    OBVIOUS
  <1>4. /\ k \in UriPlaces /\ "query" \in UriPlaces /\ "fragment" \in UriPlaces /\ "path" \in UriPlaces
        /\ k # "query" /\ k # "fragment"
    BY <1>2 DEF UriPlaces, Uris!Fields
  <1>5. p = [r EXCEPT !.query = Uris!Behind(s, "?"), ![k] = Uris!Before(s, "?")]
    <2>1. p = [r EXCEPT !.query = Uris!Behind(r[r.next], "?"), ![r.next] = Uris!Before(r[r.next], "?")]
      BY <1>2, <1>4 DEF Uris!WithQuery
    <2>2. QED
      BY <1>2, <1>3, <2>1
  <1>6. /\ p.query = Uris!Behind(s, "?") /\ p[k] = Uris!Before(s, "?")
        /\ \A x \in UriPlaces \ {k, "query"} : p[x] = r[x]
        /\ p = [x \in UriPlaces |-> p[x]]
    BY <1>2, <1>4, <1>5
  <1>7. "#" \in Uris!Delimiters /\ "?" \in Uris!Delimiters
    BY DEF Uris!Delimiters
  <1>8. b \in Seq(UriChars)
    BY <1>2, <1>3, <1>7, AfterIs
  <1>9. /\ p[Uris!Searched(p)] # Uris!Null
        /\ v[k] = P /\ v.query = Part(q) /\ v.fragment = Part(f)
        /\ \A x \in UriPlaces \ {k, "query", "fragment"} : v[x] = r[x]
    <2>1. CASE q = Uris!Null
      <3>1. p.query = Uris!Null /\ p.path = P \o b /\ k = "path"
        BY <1>2, <1>3, <1>6, <2>1, QueryCut
      <3>2. Uris!Searched(p) = "path"
        BY <1>2, <3>1 DEF Uris!Searched
      <3>3. P \o b \in Seq(UriChars)
        BY <1>2, <1>8, ConcatProperties
      <3>4. p.path # Uris!Null
        BY <1>2, <3>1, <3>3, NotNull
      <3>5. Uris!Before(P \o b, "#") = P /\ Uris!Behind(P \o b, "#") = Part(f)
        BY <1>2, <1>3, <1>7, CutPart
      <3>6. v = [p EXCEPT !.fragment = Part(f), !.path = P]
        BY <1>2, <3>1, <3>2, <3>5 DEF Uris!WithFragment
      <3>7. /\ v.path = P /\ v.fragment = Part(f) /\ v.query = p.query
            /\ \A x \in UriPlaces \ {"path", "fragment"} : v[x] = p[x]
        BY <1>2, <1>4, <1>6, <3>6
      <3>8. Part(q) = Uris!Null
        BY <2>1 DEF Part
      <3>9. \A x \in UriPlaces \ {k, "query", "fragment"} : v[x] = r[x]
        BY <1>2, <1>6, <3>1, <3>7
      <3>10. QED
        BY <3>1, <3>2, <3>4, <3>7, <3>8, <3>9
    <2>2. CASE q # Uris!Null
      <3>1. PICK e : e = Uris!Escaped(q)
        OBVIOUS
      <3>2. e \in Seq(UriChars) /\ Lacks(e, "#")
        BY <1>2, <1>7, <2>2, <3>1, WordIs
      <3>3. p.query = e \o b /\ p[k] = P
        BY <1>2, <1>3, <1>6, <2>2, <3>1, QueryCut
      <3>4. e \o b \in Seq(UriChars)
        BY <1>2, <1>8, <3>2, ConcatProperties
      <3>5. p.query # Uris!Null
        BY <1>2, <3>3, <3>4, NotNull
      <3>6. Uris!Searched(p) = "query"
        BY <3>5 DEF Uris!Searched
      <3>7. Uris!Before(e \o b, "#") = e /\ Uris!Behind(e \o b, "#") = Part(f)
        BY <1>2, <1>3, <1>7, <3>2, CutPart
      <3>8. v = [p EXCEPT !.fragment = Part(f), !.query = e]
        BY <1>2, <3>3, <3>6, <3>7 DEF Uris!WithFragment
      <3>9. /\ v.query = e /\ v.fragment = Part(f)
            /\ \A x \in UriPlaces \ {"query", "fragment"} : v[x] = p[x]
        BY <1>2, <1>4, <1>6, <3>8
      <3>10. Part(q) = e
        BY <2>2, <3>1 DEF Part
      <3>11. v[k] = P /\ \A x \in UriPlaces \ {k, "query", "fragment"} : v[x] = r[x]
        BY <1>2, <1>4, <1>6, <3>3, <3>9
      <3>12. QED
        BY <3>5, <3>6, <3>9, <3>10, <3>11
    <2>3. QED
      BY <2>1, <2>2
  <1>10. QED
    BY <1>1, <1>9

LEMMA FirstOf ==
  ASSUME NEW S, NEW s \in Seq(S), NEW t \in Seq(S), s # << >>
  PROVE  s \o t # << >> /\ (s \o t)[1] = s[1]
  <1>1. PICK u : u = s \o t
    OBVIOUS
  <1>2. Len(u) = Len(s) + Len(t) /\ \A i \in 1 .. Len(s) + Len(t) : u[i] = IF i <= Len(s) THEN s[i] ELSE t[i - Len(s)]
    BY <1>1, ConcatProperties
  <1>3. Len(s) \in Nat /\ Len(t) \in Nat /\ Len(s) # 0
    BY EmptySeq
  <1>4. 1 \in 1 .. Len(s) + Len(t) /\ 1 <= Len(s)
    BY <1>3
  <1>5. u # << >>
    BY <1>2, <1>3
  <1>6. QED
    BY <1>1, <1>2, <1>4, <1>5

(* A URI without a host begins with its path or its query. *)
LEMMA HostlessIs ==
  ASSUME NEW g \in Uris!Givens, g.host = Uris!Null, Uris!TakenApart(g)
  PROVE  \E k, P : ParsedAs(Uris!Parsed(Uris!Text(g)), g, k, P)
  <1>1. /\ g.user = Uris!Null /\ g.password = Uris!Null /\ g.port = Uris!Null
        /\ g.path \in Words \cup {Uris!Null} /\ g.query \in Words \cup {Uris!Null}
        /\ g.fragment \in Words \cup {Uris!Null}
    BY GivenIs DEF Uris!Fields
  <1>2. /\ "?" \in Uris!Delimiters /\ "#" \in Uris!Delimiters /\ "/" \in Uris!Delimiters
        /\ Part(Uris!Null) = Uris!Null
    BY DEF Uris!Delimiters, Part
  <1>3. PICK Y, a, b, T : /\ Y = (IF g.path = Uris!Null THEN << >> ELSE Uris!Escaped(g.path))
                          /\ a = Uris!After("?", g.query) /\ b = Uris!After("#", g.fragment)
                          /\ T = UriTail(g.query, g.fragment)
    OBVIOUS
  <1>4. a \in Seq(UriChars) /\ b \in Seq(UriChars) /\ T \in Seq(UriChars) /\ T = a \o b
    BY <1>1, <1>2, <1>3, AfterIs, TailIs DEF UriTail
  <1>5. Y \in Seq(UriChars) /\ Lacks(Y, "?") /\ Lacks(Y, "#")
    <2>1. CASE g.path = Uris!Null
      BY <1>3, <2>1 DEF Lacks
    <2>2. CASE g.path # Uris!Null
      BY <1>1, <1>2, <1>3, <2>2, WordIs
    <2>3. QED
      BY <2>1, <2>2
  <1>6. PICK t : t = Uris!Text(g)
    OBVIOUS
  <1>7. t = Y \o T
    <2>1. t = ((<< >> \o Y) \o a) \o b
      BY <1>3, <1>6 DEF Uris!Text
    <2>2. << >> \o Y = Y
      BY <1>5, ConcatEmptySeq
    <2>3. (Y \o a) \o b = Y \o (a \o b)
      BY <1>4, <1>5, ConcatAssociative
    <2>4. QED
      BY <1>4, <2>1, <2>2, <2>3
  <1>8. CASE g.path # Uris!Null
    <2>1. Y # << >> /\ Y[1] \notin Uris!Delimiters
      BY <1>1, <1>3, <1>8, WordIs
    <2>2. t # << >> /\ t[1] \notin Uris!Delimiters
      BY <1>4, <1>5, <1>7, <2>1, FirstOf
    <2>3. ~ Uris!HasAuthority(t)
      BY <1>2, <2>2 DEF Uris!HasAuthority
    <2>4. PICK r : r = Uris!Parsed(t)
      OBVIOUS
    <2>5. r = Uris!Bare(t)
      BY <2>3, <2>4 DEF Uris!Parsed
    <2>6. r = [user |-> Uris!Null, password |-> Uris!Null, host |-> Uris!Null, port |-> Uris!Null,
               path |-> t, query |-> Uris!Null, fragment |-> Uris!Null, rest |-> t, next |-> "path"]
      BY <1>2, <2>2, <2>5 DEF Uris!Bare
    <2>7. r = [x \in UriPlaces |-> r[x]]
      BY <2>6 DEF UriPlaces, Uris!Fields
    <2>8. Y = Part(g.path)
      BY <1>3, <1>8 DEF Part
    <2>9. ParsedAs(r, g, "path", Y)
      BY <1>1, <1>2, <1>3, <1>5, <1>7, <2>6, <2>7, <2>8 DEF ParsedAs
    <2>10. QED
      BY <1>6, <2>4, <2>9
  <1>9. CASE g.path = Uris!Null
    <2>1. g.query # Uris!Null
      BY <1>9 DEF Uris!TakenApart
    <2>2. Y = << >> /\ t = T
      BY <1>3, <1>4, <1>7, <1>9, ConcatEmptySeq
    <2>3. a # << >> /\ a[1] = "?"
      <3>1. PICK d, e : d = <<"?">> /\ e = Uris!Escaped(g.query)
        OBVIOUS
      <3>2. d \in Seq(UriChars) /\ d # << >> /\ d[1] = "?" /\ e \in Seq(UriChars)
        <4>1. "?" \in UriChars
          BY <1>2 DEF UriChars
        <4>2. QED
          BY <1>1, <2>1, <3>1, <4>1, WordIs
      <3>3. a = d \o e
        BY <1>1, <1>2, <1>3, <2>1, <3>1, AfterIs
      <3>4. QED
        BY <3>2, <3>3, FirstOf
    <2>4. t # << >> /\ t[1] = "?"
      BY <1>4, <2>2, <2>3, FirstOf
    <2>5. ~ Uris!HasAuthority(t)
      BY <2>4 DEF Uris!HasAuthority
    <2>6. PICK r : r = Uris!Parsed(t)
      OBVIOUS
    <2>7. r = Uris!Bare(t)
      BY <2>5, <2>6 DEF Uris!Parsed
    <2>8. r = [user |-> Uris!Null, password |-> Uris!Null, host |-> Uris!Null, port |-> Uris!Null,
               path |-> Uris!Null, query |-> Uris!Null, fragment |-> Uris!Null, rest |-> t, next |-> "rest"]
      BY <2>4, <2>7 DEF Uris!Bare
    <2>9. r = [x \in UriPlaces |-> r[x]]
      BY <2>8 DEF UriPlaces, Uris!Fields
    <2>10. ParsedAs(r, g, "rest", Y)
      BY <1>1, <1>2, <1>3, <1>5, <1>7, <1>9, <2>1, <2>8, <2>9 DEF ParsedAs
    <2>11. QED
      BY <1>6, <2>6, <2>10
  <1>10. QED
    BY <1>8, <1>9

(* A URI with a host: the authority begins behind the slashes.             *)
LEMMA BehindSlashes ==
  ASSUME NEW s \in Seq(UriChars)
  PROVE  /\ Uris!HasAuthority(<<"/", "/">> \o s)
         /\ SubSeq(<<"/", "/">> \o s, 3, Len(<<"/", "/">> \o s)) = s
  <1>1. PICK d, t, n : d = <<"/", "/">> /\ t = d \o s /\ n = Len(s)
    OBVIOUS
  <1>2. "/" \in UriChars
    BY DEF UriChars, Uris!Delimiters
  <1>3. d \in Seq(UriChars) /\ Len(d) = 2 /\ d[1] = "/" /\ d[2] = "/" /\ n \in Nat
    BY <1>1, <1>2
  <1>4. /\ t \in Seq(UriChars) /\ Len(t) = 2 + n
        /\ \A i \in 1 .. 2 + n : t[i] = IF i <= 2 THEN d[i] ELSE s[i - 2]
    BY <1>1, <1>3, ConcatProperties
  <1>5. t[1] = "/" /\ t[2] = "/"
    <2>1. 1 \in 1 .. 2 + n /\ 2 \in 1 .. 2 + n
      BY <1>3
    <2>2. QED
      BY <1>3, <1>4, <2>1
  <1>6. Uris!HasAuthority(t)
    BY <1>3, <1>4, <1>5 DEF Uris!HasAuthority
  <1>7. PICK z, p : z = Len(t) /\ p = SubSeq(t, 3, z)
    OBVIOUS
  <1>8. 3 \in 1 .. Len(t) + 1 /\ z \in 3 - 1 .. Len(t) /\ z - 3 + 1 = n
    BY <1>3, <1>4, <1>7
  <1>9. p \in Seq(UriChars) /\ Len(p) = z - 3 + 1 /\ \A i \in 1 .. z - 3 + 1 : p[i] = t[3 + i - 1]
    BY <1>4, <1>7, <1>8, Between
  <1>10. ASSUME NEW i \in 1 .. n PROVE p[i] = s[i]
    <2>1. 3 + i - 1 \in 1 .. 2 + n /\ ~ (3 + i - 1 <= 2) /\ (3 + i - 1) - 2 = i
      BY <1>3
    <2>2. QED
      BY <1>4, <1>8, <1>9, <2>1
  <1>11. p = s
    BY <1>1, <1>3, <1>8, <1>9, <1>10, SeqEqual
  <1>12. QED
    BY <1>1, <1>6, <1>7, <1>11

(* What is behind the user in an authority. *)
HostPart(g) ==
  Uris!Escaped(g.host) \o (Uris!After(":", g.port) \o (Uris!After("/", g.path) \o UriTail(g.query, g.fragment)))
UserPart(g) ==
  IF g.user = Uris!Null THEN << >>
  ELSE (Uris!Escaped(g.user) \o Uris!After(":", g.password)) \o <<"@">>

LEMMA HostPartIs ==
  ASSUME NEW g \in Uris!Givens, g.host # Uris!Null
  PROVE  /\ HostPart(g) \in Seq(UriChars) /\ Lacks(HostPart(g), "@")
         /\ Uris!Escaped(g.host) \in Seq(UriChars)
         /\ \A d \in Uris!Delimiters : Lacks(Uris!Escaped(g.host), d)
         /\ Uris!After("/", g.path) \o UriTail(g.query, g.fragment) \in Seq(UriChars)
         /\ Lacks(Uris!After("/", g.path) \o UriTail(g.query, g.fragment), ":")
  <1>1. /\ g.host \in Words /\ g.port \in Ports \cup {Uris!Null} /\ g.path \in Words \cup {Uris!Null}
        /\ g.query \in Words \cup {Uris!Null} /\ g.fragment \in Words \cup {Uris!Null}
    BY GivenIs DEF Uris!Fields
  <1>2. ":" \in Uris!Delimiters /\ "/" \in Uris!Delimiters /\ "@" \in Uris!Delimiters
    BY DEF Uris!Delimiters
  <1>3. PICK H, A, B, T : /\ H = Uris!Escaped(g.host) /\ A = Uris!After(":", g.port)
                          /\ B = Uris!After("/", g.path) /\ T = UriTail(g.query, g.fragment)
    OBVIOUS
  <1>4. H \in Seq(UriChars) /\ \A d \in Uris!Delimiters : Lacks(H, d)
    BY <1>1, <1>3, WordIs
  <1>5. A \in Seq(UriChars) /\ Lacks(A, "@")
    <2>1. A \in Seq(UriChars) /\ \A d \in Uris!Delimiters : d # ":" => Lacks(A, d)
      BY <1>1, <1>2, <1>3, AfterIs
    <2>2. QED
      BY <1>2, <2>1
  <1>6. B \in Seq(UriChars) /\ Lacks(B, "@") /\ Lacks(B, ":")
    <2>1. B \in Seq(UriChars) /\ \A d \in Uris!Delimiters : d # "/" => Lacks(B, d)
      BY <1>1, <1>2, <1>3, AfterIs
    <2>2. QED
      BY <1>2, <2>1
  <1>7. T \in Seq(UriChars) /\ Lacks(T, "@") /\ Lacks(T, ":")
    BY <1>1, <1>3, TailIs
  <1>8. B \o T \in Seq(UriChars) /\ Lacks(B \o T, "@") /\ Lacks(B \o T, ":")
    BY <1>6, <1>7, LacksBoth
  <1>9. PICK C : C = B \o T
    OBVIOUS
  <1>10. A \o C \in Seq(UriChars) /\ Lacks(A \o C, "@")
    BY <1>5, <1>8, <1>9, LacksBoth
  <1>11. PICK D : D = A \o C
    OBVIOUS
  <1>12. H \o D \in Seq(UriChars) /\ Lacks(H \o D, "@")
    BY <1>2, <1>4, <1>10, <1>11, LacksBoth
  <1>13. HostPart(g) = H \o D
    BY <1>3, <1>9, <1>11 DEF HostPart
  <1>14. QED
    BY <1>3, <1>4, <1>8, <1>12, <1>13

(* The user and the password are cut off the host. *)
LEMMA UserCut ==
  ASSUME NEW g \in Uris!Givens, g.host # Uris!Null,
         NEW s, s = UserPart(g) \o HostPart(g),
         NEW u, u = IF Uris!Has(s, "@") THEN Uris!Before(s, "@") ELSE Uris!Null
  PROVE  /\ UserPart(g) \in Seq(UriChars)
         /\ (IF Uris!Has(s, "@") THEN Uris!Behind(s, "@") ELSE s) = HostPart(g)
         /\ u = Uris!Null <=> g.user = Uris!Null
         /\ (IF u = Uris!Null THEN Uris!Null ELSE Uris!Before(u, ":")) = Part(g.user)
         /\ (IF u = Uris!Null THEN Uris!Null ELSE Uris!Behind(u, ":")) = Part(g.password)
  <1>1. /\ g.user \in Words \cup {Uris!Null} /\ g.password \in Words \cup {Uris!Null}
        /\ g.password # Uris!Null => g.user # Uris!Null
    BY GivenIs DEF Uris!Fields
  <1>2. ":" \in Uris!Delimiters /\ "@" \in Uris!Delimiters /\ "@" \in UriChars
    BY DEF Uris!Delimiters, UriChars
  <1>3. PICK R : R = HostPart(g)
    OBVIOUS
  <1>4. R \in Seq(UriChars) /\ Lacks(R, "@")
    BY <1>3, HostPartIs
  <1>5. CASE g.user = Uris!Null
    <2>1. UserPart(g) = << >>
      BY <1>5 DEF UserPart
    <2>2. s = R
      BY <1>3, <1>4, <2>1, ConcatEmptySeq
    <2>3. ~ Uris!Has(s, "@")
      BY <1>4, <2>2, NoCut
    <2>4. UserPart(g) \in Seq(UriChars)
      BY <2>1
    <2>5. QED
      BY <1>1, <1>3, <1>5, <2>2, <2>3, <2>4 DEF Part
  <1>6. CASE g.user # Uris!Null
    <2>1. PICK U, A, C, m : /\ U = Uris!Escaped(g.user) /\ A = Uris!After(":", g.password)
                            /\ C = U \o A /\ m = "@"
      OBVIOUS
    <2>2. U \in Seq(UriChars) /\ Lacks(U, "@") /\ Lacks(U, ":")
      BY <1>1, <1>2, <1>6, <2>1, WordIs
    <2>3. A \in Seq(UriChars) /\ Lacks(A, "@")
      <3>1. A \in Seq(UriChars) /\ \A d \in Uris!Delimiters : d # ":" => Lacks(A, d)
        BY <1>1, <1>2, <2>1, AfterIs
      <3>2. QED
        BY <1>2, <3>1
    <2>4. C \in Seq(UriChars) /\ Lacks(C, m) /\ m \in UriChars /\ <<m>> \in Seq(UriChars)
      BY <1>2, <2>1, <2>2, <2>3, LacksBoth
    <2>5. UserPart(g) = C \o <<m>> /\ UserPart(g) \in Seq(UriChars)
      BY <1>6, <2>1, <2>4, ConcatProperties DEF UserPart
    <2>6. s = C \o (<<m>> \o R)
      BY <1>3, <1>4, <2>4, <2>5, ConcatAssociative
    <2>7. Uris!Has(s, m) /\ Uris!Before(s, m) = C /\ Uris!Behind(s, m) = R
      BY <1>4, <2>4, <2>6, Cut
    <2>8. u = C /\ C # Uris!Null
      BY <2>1, <2>4, <2>7, NotNull
    <2>9. Uris!Before(C, ":") = U /\ Uris!Behind(C, ":") = Part(g.password)
      BY <1>1, <1>2, <2>1, <2>2, CutPart
    <2>10. U = Part(g.user)
      BY <1>6, <2>1 DEF Part
    <2>11. QED
      BY <1>3, <1>6, <2>1, <2>5, <2>7, <2>8, <2>9, <2>10
  <1>7. QED
    BY <1>5, <1>6

(* The host, the port and the path, where there is a path. *)
PortOf(g) == Uris!Behind(HostPart(g), ":")
NextOf(g) == IF PortOf(g) = Uris!Null THEN HostPart(g) ELSE PortOf(g)

LEMMA PortCut ==
  ASSUME NEW g \in Uris!Givens, g.host # Uris!Null, g.path # Uris!Null
  PROVE  /\ PortOf(g) = Uris!Null <=> g.port = Uris!Null
         /\ (IF PortOf(g) = Uris!Null THEN Uris!Before(HostPart(g), "/")
             ELSE Uris!Before(HostPart(g), ":")) = Part(g.host)
         /\ Uris!Has(NextOf(g), "/")
         /\ Uris!Behind(NextOf(g), "/") = Uris!Escaped(g.path) \o UriTail(g.query, g.fragment)
         /\ g.port # Uris!Null =>
              \E t \in Seq(UriChars) : PortOf(g) = g.port \o (<<"/">> \o t)
  <1>1. PICK h, port, next : h = HostPart(g) /\ port = PortOf(g) /\ next = NextOf(g)
    OBVIOUS
  <1>2. port = Uris!Behind(h, ":") /\ next = (IF port = Uris!Null THEN h ELSE port)
    BY <1>1 DEF PortOf, NextOf
  <1>3. SUFFICES
          /\ port = Uris!Null <=> g.port = Uris!Null
          /\ (IF port = Uris!Null THEN Uris!Before(h, "/") ELSE Uris!Before(h, ":")) = Part(g.host)
          /\ Uris!Has(next, "/")
          /\ Uris!Behind(next, "/") = Uris!Escaped(g.path) \o UriTail(g.query, g.fragment)
          /\ g.port # Uris!Null => \E t \in Seq(UriChars) : port = g.port \o (<<"/">> \o t)
    BY <1>1
  <1>4. /\ g.host \in Words /\ g.path \in Words /\ g.port \in Ports \cup {Uris!Null}
        /\ g.query \in Words \cup {Uris!Null} /\ g.fragment \in Words \cup {Uris!Null}
    BY GivenIs DEF Uris!Fields
  <1>5. PICK H, A, E, T, t, m : /\ H = Uris!Escaped(g.host) /\ A = Uris!After(":", g.port)
                                /\ E = Uris!Escaped(g.path) /\ T = UriTail(g.query, g.fragment)
                                /\ t = E \o T /\ m = "/"
    OBVIOUS
  <1>6. /\ ":" \in Uris!Delimiters /\ m \in Uris!Delimiters /\ m \in UriChars
        /\ <<m>> \in Seq(UriChars)
    BY <1>5 DEF Uris!Delimiters, UriChars
  <1>7. H \in Seq(UriChars) /\ Lacks(H, m) /\ Lacks(H, ":") /\ H = Part(g.host)
    <2>1. g.host # Uris!Null
      BY <1>4, WordIs
    <2>2. H \in Seq(UriChars) /\ \A d \in Uris!Delimiters : Lacks(H, d)
      BY <1>4, <1>5, WordIs
    <2>3. QED
      BY <1>5, <1>6, <2>1, <2>2 DEF Part
  <1>8. E \in Seq(UriChars) /\ T \in Seq(UriChars) /\ t \in Seq(UriChars)
    <2>1. E \in Seq(UriChars) /\ T \in Seq(UriChars)
      BY <1>4, <1>5, WordIs, TailIs
    <2>2. QED
      BY <1>5, <2>1, ConcatProperties
  <1>9. PICK v : v = <<m>> \o t
    OBVIOUS
  <1>10. v \in Seq(UriChars) /\ Uris!After("/", g.path) \o T = v /\ Lacks(v, ":")
    <2>1. v \in Seq(UriChars)
      BY <1>6, <1>8, <1>9, ConcatProperties
    <2>2. Uris!After(m, g.path) = <<m>> \o E
      BY <1>4, <1>5, <1>6, AfterIs
    <2>3. (<<m>> \o E) \o T = <<m>> \o t
      BY <1>5, <1>6, <1>8, ConcatAssociative
    <2>4. Uris!After("/", g.path) \o T = v
      BY <1>5, <1>9, <2>2, <2>3
    <2>5. Lacks(Uris!After("/", g.path) \o T, ":")
      BY <1>5, HostPartIs
    <2>6. QED
      BY <2>1, <2>4, <2>5
  <1>11. h = H \o (A \o v)
    BY <1>1, <1>5, <1>10 DEF HostPart
  <1>12. CASE g.port = Uris!Null
    <2>1. A = << >>
      BY <1>4, <1>5, <1>6, <1>12, AfterIs
    <2>2. h = H \o v
      BY <1>10, <1>11, <2>1, ConcatEmptySeq
    <2>3. h \in Seq(UriChars) /\ Lacks(h, ":")
      BY <1>7, <1>10, <2>2, LacksBoth
    <2>4. port = Uris!Null /\ next = h
      BY <1>2, <2>3, NoCut
    <2>5. Uris!Has(h, m) /\ Uris!Before(h, m) = H /\ Uris!Behind(h, m) = t
      BY <1>6, <1>7, <1>8, <1>9, <2>2, Cut
    <2>6. QED
      BY <1>5, <1>7, <1>12, <2>4, <2>5
  <1>13. CASE g.port # Uris!Null
    <2>1. PICK D, c : D = g.port /\ c = ":"
      OBVIOUS
    <2>2. D \in Ports /\ c \in UriChars /\ c \in Uris!Delimiters
      BY <1>4, <1>6, <1>13, <2>1 DEF UriChars
    <2>3. Uris!Escaped(D) = D /\ D \in Seq(UriChars) /\ Lacks(D, m)
      BY <1>6, <2>2, PortIs, WordIs
    <2>4. A = <<c>> \o D /\ <<c>> \in Seq(UriChars)
      BY <1>5, <1>13, <2>1, <2>2, <2>3, AfterIs
    <2>5. PICK w : w = D \o v
      OBVIOUS
    <2>6. w \in Seq(UriChars)
      BY <1>10, <2>3, <2>5, ConcatProperties
    <2>7. A \o v = <<c>> \o w
      BY <1>10, <2>3, <2>4, <2>5, ConcatAssociative
    <2>8. Lacks(H, c)
      BY <1>7, <2>1
    <2>9. Uris!Before(h, c) = H /\ Uris!Behind(h, c) = w
      BY <1>7, <1>11, <2>2, <2>6, <2>7, <2>8, Cut
    <2>10. port = w /\ port # Uris!Null /\ next = w
      BY <1>2, <2>1, <2>6, <2>9, NotNull
    <2>11. Uris!Has(w, m) /\ Uris!Behind(w, m) = t
      BY <1>6, <1>8, <1>9, <2>3, <2>5, Cut
    <2>12. port = g.port \o (<<"/">> \o t)
      BY <1>5, <1>9, <2>1, <2>5, <2>10
    <2>13. QED
      BY <1>5, <1>7, <1>8, <1>13, <2>1, <2>9, <2>10, <2>11, <2>12
  <1>14. QED
    BY <1>12, <1>13

(* The digits at the beginning of a port are the port. *)
LEMMA PortRead ==
  ASSUME NEW w \in Ports, NEW t \in Seq(UriChars), NEW s, s = w \o (<<"/">> \o t),
         NEW digits, digits = {c \in DOMAIN s : \A d \in 1 .. c : s[d] \in Uris!Digits}
  PROVE  SubSeq(s, 1, Uris!Cardinality(digits)) = w
  <1>1. PICK n, v, m : n = Len(w) /\ v = <<m>> \o t /\ m = "/"
    OBVIOUS
  <1>2. w \in Seq(Uris!Digits) /\ w \in Seq(UriChars)
    BY PortIs, WordIs
  <1>3. m \in UriChars /\ m \notin Uris!Digits
    BY <1>1 DEF UriChars, Uris!Delimiters, Uris!Digits
  <1>4. v \in Seq(UriChars) /\ v # << >> /\ v[1] = m
    <2>1. <<m>> \in Seq(UriChars) /\ <<m>> # << >> /\ <<m>>[1] = m
      BY <1>3
    <2>2. v \in Seq(UriChars)
      BY <1>1, <2>1, ConcatProperties
    <2>3. QED
      BY <1>1, <2>1, <2>2, FirstOf
  <1>5. n \in Nat /\ Len(v) \in Nat /\ Len(v) # 0 /\ \A i \in 1 .. n : w[i] \in Uris!Digits
    BY <1>1, <1>2, <1>4, EmptySeq
  <1>6. s = w \o v
    BY <1>1
  <1>7. /\ s \in Seq(UriChars) /\ Len(s) = n + Len(v)
        /\ \A i \in 1 .. n + Len(v) : s[i] = IF i <= n THEN w[i] ELSE v[i - n]
    BY <1>1, <1>2, <1>4, <1>6, ConcatProperties
  <1>8. \A i \in 1 .. n : s[i] = w[i]
    <2>1. \A i \in 1 .. n : i \in 1 .. n + Len(v) /\ i <= n
      BY <1>5
    <2>2. QED
      BY <1>7, <2>1
  <1>9. s[n + 1] = m /\ n + 1 \in 1 .. n + Len(v)
    <2>1. n + 1 \in 1 .. n + Len(v) /\ ~ (n + 1 <= n) /\ (n + 1) - n = 1
      BY <1>5
    <2>2. QED
      BY <1>4, <1>7, <2>1
  <1>10. DOMAIN s = 1 .. n + Len(v)
    BY <1>7
  <1>11. digits = 1 .. n
    <2>1. ASSUME NEW c \in 1 .. n PROVE c \in digits
      <3>1. \A d \in 1 .. c : d \in 1 .. n
        BY <1>5
      <3>2. c \in DOMAIN s
        BY <1>5, <1>10
      <3>3. QED
        BY <1>5, <1>8, <3>1, <3>2
    <2>2. ASSUME NEW c \in digits PROVE c \in 1 .. n
      <3>1. c \in 1 .. n + Len(v) /\ \A d \in 1 .. c : s[d] \in Uris!Digits
        BY <1>10
      <3>2. ~ (n + 1 \in 1 .. c)
        BY <1>3, <1>9, <3>1
      <3>3. QED
        BY <1>5, <3>1, <3>2
    <2>3. QED
      BY <2>1, <2>2
  <1>12. Uris!Cardinality(digits) = n
    <2>1. Uris!Cardinality(digits) = Cardinality(digits)
      BY Zenon DEF Uris!Cardinality, Cardinality
    <2>2. Cardinality(1 .. n) = n
      BY <1>5, FS_Interval
    <2>3. QED
      BY <1>11, <2>1, <2>2
  <1>13. SubSeq(s, 1, n) = w
    <2>1. PICK p : p = SubSeq(s, 1, n)
      OBVIOUS
    <2>2. n - 1 + 1 = n
      BY <1>5
    <2>3. p \in Seq(UriChars) /\ Len(p) = n - 1 + 1 /\ \A i \in 1 .. n - 1 + 1 : p[i] = s[1 + i - 1]
      <3>1. s \in Seq(UriChars) /\ 1 \in 1 .. Len(s) + 1 /\ n \in 1 - 1 .. Len(s)
        BY <1>5, <1>7
      <3>2. /\ SubSeq(s, 1, n) \in Seq(UriChars) /\ Len(SubSeq(s, 1, n)) = n - 1 + 1
            /\ \A i \in 1 .. n - 1 + 1 : SubSeq(s, 1, n)[i] = s[1 + i - 1]
        BY <3>1, Between
      <3>3. QED
        BY <2>1, <3>2
    <2>4. ASSUME NEW i \in 1 .. n PROVE p[i] = w[i]
      <3>1. 1 + i - 1 = i
        OBVIOUS
      <3>2. QED
        BY <1>8, <2>2, <2>3, <3>1
    <2>5. p = w
      BY <1>1, <1>2, <2>2, <2>3, <2>4, SeqEqual
    <2>6. QED
      BY <2>1, <2>5
  <1>14. QED
    BY <1>12, <1>13

LEMMA UriTextIs ==
  ASSUME NEW g \in Uris!Givens, g.host # Uris!Null
  PROVE  /\ Uris!Text(g) = <<"/", "/">> \o (UserPart(g) \o HostPart(g))
         /\ UserPart(g) \o HostPart(g) \in Seq(UriChars)
  <1>1. PICK a, b, c, d, e, q, f :
          /\ a = <<"/", "/">> /\ b = UserPart(g) /\ c = Uris!Escaped(g.host)
          /\ d = Uris!After(":", g.port) /\ e = Uris!After("/", g.path)
          /\ q = Uris!After("?", g.query) /\ f = Uris!After("#", g.fragment)
    OBVIOUS
  <1>2. /\ g.port \in Ports \cup {Uris!Null} /\ g.path \in Words \cup {Uris!Null}
        /\ g.query \in Words \cup {Uris!Null} /\ g.fragment \in Words \cup {Uris!Null}
    BY GivenIs DEF Uris!Fields
  <1>3. {":", "/", "?", "#"} \subseteq Uris!Delimiters /\ "/" \in UriChars
    BY DEF UriChars, Uris!Delimiters
  <1>4. b \in Seq(UriChars)
    BY <1>1, UserCut
  <1>5. c \in Seq(UriChars)
    BY <1>1, HostPartIs
  <1>6. d \in Seq(UriChars)
    BY <1>1, <1>2, <1>3, AfterIs
  <1>7. e \in Seq(UriChars)
    BY <1>1, <1>2, <1>3, AfterIs
  <1>8. q \in Seq(UriChars)
    BY <1>1, <1>2, <1>3, AfterIs
  <1>9. f \in Seq(UriChars)
    BY <1>1, <1>2, <1>3, AfterIs
  <1>10. a \in Seq(UriChars)
    BY <1>1, <1>3
  <1>11. PICK x, y, z, w : x = a \o b /\ y = x \o c /\ z = y \o d /\ w = z \o e
    OBVIOUS
  <1>12. PICK k, l, m, n : k = q \o f /\ l = e \o k /\ m = d \o l /\ n = c \o m
    OBVIOUS
  <1>13. x \in Seq(UriChars)
    BY <1>11, <1>10, <1>4, ConcatProperties
  <1>14. y \in Seq(UriChars)
    BY <1>11, <1>13, <1>5, ConcatProperties
  <1>15. z \in Seq(UriChars)
    BY <1>11, <1>14, <1>6, ConcatProperties
  <1>16. w \in Seq(UriChars)
    BY <1>11, <1>15, <1>7, ConcatProperties
  <1>17. k \in Seq(UriChars)
    BY <1>12, <1>8, <1>9, ConcatProperties
  <1>18. l \in Seq(UriChars)
    BY <1>12, <1>7, <1>17, ConcatProperties
  <1>19. m \in Seq(UriChars)
    BY <1>12, <1>6, <1>18, ConcatProperties
  <1>20. n \in Seq(UriChars)
    BY <1>12, <1>5, <1>19, ConcatProperties
  <1>21. (w \o q) \o f = w \o k
    <2>1. (w \o q) \o f = w \o (q \o f)
      BY <1>16, <1>8, <1>9, ConcatAssociative
    <2>2. QED
      BY <1>12, <2>1
  <1>22. w \o k = z \o l
    <2>1. (z \o e) \o k = z \o (e \o k)
      BY <1>15, <1>7, <1>17, ConcatAssociative
    <2>2. QED
      BY <1>11, <1>12, <2>1
  <1>23. z \o l = y \o m
    <2>1. (y \o d) \o l = y \o (d \o l)
      BY <1>14, <1>6, <1>18, ConcatAssociative
    <2>2. QED
      BY <1>11, <1>12, <2>1
  <1>24. y \o m = x \o n
    <2>1. (x \o c) \o m = x \o (c \o m)
      BY <1>13, <1>5, <1>19, ConcatAssociative
    <2>2. QED
      BY <1>11, <1>12, <2>1
  <1>25. x \o n = a \o (b \o n)
    <2>1. (a \o b) \o n = a \o (b \o n)
      BY <1>10, <1>4, <1>20, ConcatAssociative
    <2>2. QED
      BY <1>11, <2>1
  <1>26. (w \o q) \o f = a \o (b \o n)
    BY <1>21, <1>22, <1>23, <1>24, <1>25
  <1>27. Uris!Text(g) = (w \o q) \o f
    BY <1>1, <1>11 DEF Uris!Text, UserPart
  <1>28. HostPart(g) = n
    BY <1>1, <1>12 DEF HostPart, UriTail
  <1>29. b \o n \in Seq(UriChars)
    BY <1>4, <1>20, ConcatProperties
  <1>30. QED
    BY <1>1, <1>26, <1>27, <1>28, <1>29

(* The authority of a URI with a path, and of a host without one. *)
LEMMA HostIs ==
  ASSUME NEW g \in Uris!Givens, g.host # Uris!Null, Uris!TakenApart(g)
  PROVE  \E k, P : ParsedAs(Uris!Parsed(Uris!Text(g)), g, k, P)
  <1>1. PICK s, h, T : s = UserPart(g) \o HostPart(g) /\ h = HostPart(g) /\ T = UriTail(g.query, g.fragment)
    OBVIOUS
  <1>2. PICK t : t = Uris!Text(g)
    OBVIOUS
  <1>3. Uris!HasAuthority(t) /\ SubSeq(t, 3, Len(t)) = s
    <2>1. t = <<"/", "/">> \o s /\ s \in Seq(UriChars)
      BY <1>1, <1>2, UriTextIs
    <2>2. QED
      BY <2>1, BehindSlashes
  <1>4. PICK u : u = IF Uris!Has(s, "@") THEN Uris!Before(s, "@") ELSE Uris!Null
    OBVIOUS
  <1>5. /\ (IF Uris!Has(s, "@") THEN Uris!Behind(s, "@") ELSE s) = h
        /\ u = Uris!Null <=> g.user = Uris!Null
        /\ (IF u = Uris!Null THEN Uris!Null ELSE Uris!Before(u, ":")) = Part(g.user)
        /\ (IF u = Uris!Null THEN Uris!Null ELSE Uris!Behind(u, ":")) = Part(g.password)
    BY <1>1, <1>4, UserCut
  <1>6. PICK port : port = Uris!Behind(h, ":")
    OBVIOUS
  <1>7. PICK next : next = IF port = Uris!Null THEN h ELSE port
    OBVIOUS
  <1>8. PICK digits : digits = {c \in DOMAIN port : \A d \in 1 .. c : port[d] \in Uris!Digits}
    OBVIOUS
  <1>9. PICK r : r = Uris!Parsed(t)
    OBVIOUS
  <1>10. r = [user |-> Part(g.user), password |-> Part(g.password),
              host |-> IF port = Uris!Null THEN Uris!Before(h, "/") ELSE Uris!Before(h, ":"),
              port |-> IF port = Uris!Null THEN Uris!Null ELSE SubSeq(port, 1, Uris!Cardinality(digits)),
              path |-> Uris!Behind(next, "/"),
              query |-> Uris!Null, fragment |-> Uris!Null, rest |-> << >>,
              next |-> IF Uris!Has(next, "/") THEN "path" ELSE IF g.user = Uris!Null THEN "host" ELSE "user"]
    <2>1. r = Uris!Authority(t)
      BY <1>3, <1>9 DEF Uris!Parsed
    <2>2. QED
      BY <1>3, <1>4, <1>5, <1>6, <1>7, <1>8, <2>1 DEF Uris!Authority
  <1>11. r = [x \in UriPlaces |-> r[x]]
    BY <1>10 DEF UriPlaces, Uris!Fields
  <1>12. /\ g.host \in Words /\ g.port \in Ports \cup {Uris!Null} /\ g.path \in Words \cup {Uris!Null}
         /\ g.query \in Words \cup {Uris!Null} /\ g.fragment \in Words \cup {Uris!Null}
    BY GivenIs DEF Uris!Fields
  <1>13. "?" \in Uris!Delimiters /\ "#" \in Uris!Delimiters /\ "/" \in Uris!Delimiters /\ ":" \in Uris!Delimiters
    BY DEF Uris!Delimiters
  <1>14. T \in Seq(UriChars) /\ Lacks(T, ":") /\ Lacks(T, "/")
    BY <1>1, <1>12, TailIs
  <1>15. CASE g.path # Uris!Null
    <2>1. PICK P : P = Uris!Escaped(g.path)
      OBVIOUS
    <2>2. P \in Seq(UriChars) /\ Lacks(P, "?") /\ Lacks(P, "#") /\ P = Part(g.path)
      BY <1>12, <1>13, <1>15, <2>1, WordIs DEF Part
    <2>3. /\ port = Uris!Null <=> g.port = Uris!Null
          /\ (IF port = Uris!Null THEN Uris!Before(h, "/") ELSE Uris!Before(h, ":")) = Part(g.host)
          /\ Uris!Has(next, "/") /\ Uris!Behind(next, "/") = P \o T
          /\ g.port # Uris!Null => \E y \in Seq(UriChars) : port = g.port \o (<<"/">> \o y)
      <3>1. h = HostPart(g) /\ port = PortOf(g) /\ next = NextOf(g)
        BY <1>1, <1>6, <1>7 DEF PortOf, NextOf
      <3>2. /\ port = Uris!Null <=> g.port = Uris!Null
            /\ (IF port = Uris!Null THEN Uris!Before(h, "/") ELSE Uris!Before(h, ":")) = Part(g.host)
            /\ Uris!Has(next, "/")
            /\ Uris!Behind(next, "/") = Uris!Escaped(g.path) \o UriTail(g.query, g.fragment)
            /\ g.port # Uris!Null =>
                 \E y \in Seq(UriChars) : port = g.port \o (<<"/">> \o y)
        BY <1>15, <3>1, PortCut
      <3>3. Uris!Behind(next, "/") = P \o T
        BY <1>1, <2>1, <3>2, Zenon
      <3>4. QED
        BY <3>2, <3>3, Zenon
    <2>4. r.port = g.port
      <3>1. CASE g.port = Uris!Null
        BY <1>10, <2>3, <3>1
      <3>2. CASE g.port # Uris!Null
        <4>1. SubSeq(port, 1, Uris!Cardinality(digits)) = g.port
          BY <1>8, <1>12, <2>3, <3>2, PortRead
        <4>2. QED
          BY <1>10, <2>3, <3>2, <4>1
      <3>3. QED
        BY <3>1, <3>2
    <2>5. /\ r.next = "path" /\ r.path = P \o T /\ r.host = Part(g.host)
          /\ r.user = Part(g.user) /\ r.password = Part(g.password)
      BY <1>10, <2>3
    <2>6. ParsedAs(r, g, "path", P)
      BY <1>1, <1>11, <2>2, <2>4, <2>5 DEF ParsedAs
    <2>7. QED
      BY <1>2, <1>9, <2>6
  <1>16. CASE g.path = Uris!Null
    <2>1. g.query # Uris!Null /\ g.user = Uris!Null /\ g.port = Uris!Null
      BY <1>16 DEF Uris!TakenApart
    <2>2. PICK H : H = Uris!Escaped(g.host)
      OBVIOUS
    <2>3. H \in Seq(UriChars) /\ \A d \in Uris!Delimiters : Lacks(H, d)
      BY <1>12, <2>2, WordIs
    <2>4. h = H \o T
      <3>1. Uris!After(":", g.port) = << >> /\ Uris!After("/", g.path) = << >>
        BY <1>12, <1>13, <1>16, <2>1, AfterIs
      <3>2. << >> \o T = T
        BY <1>14, ConcatEmptySeq
      <3>3. QED
        BY <1>1, <2>2, <3>1, <3>2 DEF HostPart
    <2>5. h \in Seq(UriChars) /\ Lacks(h, ":") /\ Lacks(h, "/")
      <3>1. Lacks(H, ":") /\ Lacks(H, "/")
        BY <1>13, <2>3
      <3>2. QED
        BY <1>14, <2>3, <2>4, <3>1, LacksBoth
    <2>6. port = Uris!Null /\ next = h
      BY <1>6, <1>7, <2>5, NoCut
    <2>7. ~ Uris!Has(h, "/") /\ Uris!Before(h, "/") = h /\ Uris!Behind(h, "/") = Uris!Null
      BY <2>5, NoCut
    <2>8. /\ r.next = "host" /\ r.host = H \o T /\ r.path = Uris!Null /\ r.port = Uris!Null
          /\ r.user = Part(g.user) /\ r.password = Part(g.password)
      BY <1>10, <2>1, <2>4, <2>6, <2>7
    <2>9. H = Part(g.host) /\ Part(g.path) = Uris!Null
      <3>1. g.host # Uris!Null
        BY <1>12, WordIs
      <3>2. QED
        BY <1>16, <2>2, <3>1 DEF Part
    <2>10. Lacks(H, "?") /\ Lacks(H, "#")
      BY <1>13, <2>3
    <2>11. ParsedAs(r, g, "host", H)
      BY <1>1, <1>11, <2>1, <2>3, <2>8, <2>9, <2>10 DEF ParsedAs
    <2>12. QED
      BY <1>2, <1>9, <2>11
  <1>17. QED
    BY <1>15, <1>16

(* Decoding a URI that can be taken apart. *)
LEMMA UriDecoded ==
  ASSUME NEW g \in Uris!Givens, Uris!TakenApart(g),
         NEW p, p = Uris!WithQuery(Uris!Parsed(Uris!Text(g)))
  PROVE  /\ p[Uris!Searched(p)] # Uris!Null
         /\ \A x \in Uris!Fields : Uris!Component(Uris!WithFragment(p), x) = g[x]
  <1>1. PICK r : r = Uris!Parsed(Uris!Text(g))
    OBVIOUS
  <1>2. PICK k, P : ParsedAs(r, g, k, P)
    <2>1. CASE g.host = Uris!Null
      BY <1>1, <2>1, HostlessIs
    <2>2. CASE g.host # Uris!Null
      BY <1>1, <2>2, HostIs
    <2>3. QED
      BY <2>1, <2>2
  <1>3. /\ k \in {"host", "path", "rest"} /\ r = [x \in UriPlaces |-> r[x]] /\ r.next = k
        /\ P \in Seq(UriChars) /\ Lacks(P, "?") /\ Lacks(P, "#")
        /\ r[k] = P \o UriTail(g.query, g.fragment)
        /\ g.query # Uris!Null \/ k = "path"
    BY <1>2 DEF ParsedAs
  <1>4. /\ r.user = Part(g.user) /\ r.password = Part(g.password) /\ r.port = g.port
        /\ IF k = "host" THEN P = Part(g.host) ELSE r.host = Part(g.host)
        /\ IF k = "path" THEN P = Part(g.path) ELSE r.path = Part(g.path)
    BY <1>2 DEF ParsedAs
  <1>5. \A x \in Uris!Fields \ {"port"} : g[x] \in Words \cup {Uris!Null}
    BY GivenIs
  <1>6. g.query \in Words \cup {Uris!Null} /\ g.fragment \in Words \cup {Uris!Null}
    BY <1>5 DEF Uris!Fields
  <1>7. PICK v : v = Uris!WithFragment(p)
    OBVIOUS
  <1>8. /\ p[Uris!Searched(p)] # Uris!Null
        /\ v[k] = P /\ v.query = Part(g.query) /\ v.fragment = Part(g.fragment)
        /\ \A x \in UriPlaces \ {k, "query", "fragment"} : v[x] = r[x]
    <2>1. p = Uris!WithQuery(r)
      BY <1>1
    <2>2. QED
      BY <1>2, <1>7, <2>1, Finished
  <1>9. \A x \in {"user", "password", "host", "port", "path"} : x \in UriPlaces \ {"query", "fragment"}
    BY DEF UriPlaces, Uris!Fields
  <1>10. v.user = Part(g.user) /\ v.password = Part(g.password) /\ v.port = g.port
    BY <1>3, <1>4, <1>8, <1>9
  <1>11. v.host = Part(g.host)
    BY <1>4, <1>8, <1>9
  <1>12. v.path = Part(g.path)
    BY <1>4, <1>8, <1>9
  <1>13. ASSUME NEW x \in Uris!Fields PROVE Uris!Component(v, x) = g[x]
    <2>1. CASE x = "port"
      BY <1>10, <2>1 DEF Uris!Component
    <2>2. CASE x # "port"
      <3>1. v[x] = Part(g[x])
        BY <1>8, <1>10, <1>11, <1>12, <2>2 DEF Uris!Fields
      <3>2. g[x] \in Words \cup {Uris!Null}
        BY <1>5, <2>2
      <3>3. QED
        BY <2>2, <3>1, <3>2, ComponentIs
    <2>3. QED
      BY <2>1, <2>2
  <1>14. QED
    BY <1>7, <1>8, <1>13

-----------------------------------------------------------------------------
(***************************************************************************)
(* Decoding gives back the components a URI was put together from, for     *)
(* every set of words and ports: a delimiter in a component, escaped, is   *)
(* never taken for one between two of them, and no search finds NULL       *)
(* (ms_uri_decode).                                                        *)
(***************************************************************************)
THEOREM UriComponents == Uris!Spec => []UriRoundTrip
  <1>1. Uris!Init => UriRoundTrip
    <2>1. SUFFICES ASSUME Uris!Init PROVE UriRoundTrip
      OBVIOUS
    <2>2. uGiven \in Uris!Givens /\ uData = Uris!Nothing /\ uResult = "none"
      BY <2>1 DEF Uris!Init
    <2>3. QED
      BY <2>2 DEF UriRoundTrip, Uris!TypeOK, Uris!RoundTrip, Uris!Nothing
  <1>2. UriRoundTrip /\ [Uris!Next]_Uris!vars => UriRoundTrip'
    <2>1. SUFFICES ASSUME UriRoundTrip, [Uris!Next]_Uris!vars PROVE UriRoundTrip'
      OBVIOUS
    <2>2. uGiven \in Uris!Givens
      BY <2>1 DEF UriRoundTrip, Uris!TypeOK
    <2>3. PICK p : p = Uris!WithQuery(Uris!Parsed(Uris!Text(uGiven)))
      OBVIOUS
    <2>4. Uris!TakenApart(uGiven) =>
            /\ p[Uris!Searched(p)] # Uris!Null
            /\ \A x \in Uris!Fields : Uris!Component(Uris!WithFragment(p), x) = uGiven[x]
      BY <2>2, <2>3, UriDecoded
    <2>5. CASE Uris!Decode
      <3>1. /\ uResult' = "success" /\ uGiven' = uGiven
            /\ uData' = [f \in Uris!Fields |-> Uris!Component(Uris!WithFragment(p), f)]
        BY <2>3, <2>5 DEF Uris!Decode
      <3>2. Uris!TakenApart(uGiven) => uData' = [f \in Uris!Fields |-> uGiven[f]]
        BY <2>4, <3>1
      <3>3. QED
        BY <2>1, <3>1, <3>2 DEF UriRoundTrip, Uris!TypeOK, Uris!RoundTrip
    <2>6. CASE Uris!DecodeCrash
      <3>1. p[Uris!Searched(p)] = Uris!Null /\ uResult' = "crash" /\ uGiven' = uGiven /\ uData' = uData
        BY <2>3, <2>6 DEF Uris!DecodeCrash
      <3>2. ~ Uris!TakenApart(uGiven)
        BY <2>4, <3>1
      <3>3. QED
        BY <2>1, <3>1, <3>2 DEF UriRoundTrip, Uris!TypeOK, Uris!RoundTrip
    <2>7. CASE Uris!DecodeInvalid
      <3>1. uResult' = "invalid" /\ uGiven' = uGiven /\ uData' = uData
        BY <2>7 DEF Uris!DecodeInvalid
      <3>2. QED
        BY <2>1, <3>1 DEF UriRoundTrip, Uris!TypeOK, Uris!RoundTrip
    <2>8. CASE UNCHANGED Uris!vars
      BY <2>1, <2>8 DEF Uris!vars, UriRoundTrip, Uris!TypeOK, Uris!RoundTrip
    <2>9. QED
      BY <2>1, <2>5, <2>6, <2>7, <2>8 DEF Uris!Next
  <1>3. QED
    BY <1>1, <1>2, PTL DEF Uris!Spec
=============================================================================
