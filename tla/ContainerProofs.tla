--------------------------- MODULE ContainerProofs ---------------------------
(***************************************************************************)
(* The containers, for every value of their constants: ms_ring is a        *)
(* bounded FIFO buffer; what a lookup finds in ms_map; who holds what of   *)
(* ms_ipool and ms_pool; where the items of ms_sparray are; and what the   *)
(* bits of ms_barray and the items of ms_autoarray and ms_parray are.      *)
(***************************************************************************)
EXTENDS Containers, CommonLemmas

-----------------------------------------------------------------------------
(* ms_ring.  The whole argument is in ItemSlot: the wrapping 32-bit        *)
(* subtraction and the mask pick the same slot as exact arithmetic does,   *)
(* because the capacity divides 2^32.                                      *)

(* ms_ring_dequeue's index is w - c reduced modulo the capacity. *)
LEMMA ItemSlot ==
  ASSUME NEW w \in Int, NEW c \in Int
  PROVE  /\ ReadSlot(w, c) = (w - c) % Capacity
         /\ ReadSlot(w, c) \in Slots
  <1>1. Capacity \in Nat \ {0} /\ Word \in Nat \ {0} /\ Word % Capacity = 0
    BY RingAssumption
  <1>2. /\ ((Capacity + ((w - c) % Word)) % Word) % Capacity = (w - c) % Capacity
        /\ (w - c) % Capacity \in 0 .. Capacity - 1
    BY <1>1, RingSlot
  <1>3. QED
    BY <1>2 DEF ReadSlot, Masked, UInt32, Slots

(* Moving the write index, wrap included, leaves every stored item its slot. *)
LEMMA WrapKeepsSlots ==
  ASSUME NEW w \in Int, NEW d \in Int
  PROVE  (UInt32(w + 1) - (d + 1)) % Capacity = (w - d) % Capacity
  <1>1. Capacity \in Nat \ {0} /\ Word \in Nat \ {0} /\ Word % Capacity = 0
    BY RingAssumption
  <1>2. /\ (((w + 1) % Word) - (d + 1)) % Capacity = (w - d) % Capacity
        /\ (w + 1) % Word \in 0 .. Word - 1
    BY <1>1, RingStep
  <1>3. QED
    BY <1>2 DEF UInt32

-----------------------------------------------------------------------------
(* Type correctness. *)

LEMMA RingTyping == Spec => []TypeOK
  <1>1. Init => TypeOK
    BY RingAssumption, SMT DEF Init, TypeOK, Slots
  <1>2. TypeOK /\ [Next]_ringVars => TypeOK'
    <2> SUFFICES ASSUME TypeOK, [Next]_ringVars
                 PROVE  TypeOK'
      OBVIOUS
    <2>1. ASSUME NEW item \in Items, Enqueue(item)
          PROVE  TypeOK'
      <3>1. windex' \in 0 .. Word - 1
        BY <2>1, RingAssumption, DivMod DEF Enqueue, Push, UInt32, TypeOK
      <3>2. count' \in 0 .. Capacity
        BY <2>1, RingAssumption, SMT DEF Enqueue, Push, TypeOK
      <3>3. values' \in [Slots -> Items \cup {NoItem}]
        BY <2>1 DEF Enqueue, Push, TypeOK
      <3>4. QED
        BY <2>1, <3>1, <3>2, <3>3 DEF Enqueue, TypeOK
    <2>2. CASE EnqueueFull
      BY <2>2 DEF EnqueueFull, TypeOK
    <2>3. CASE Dequeue
      <3>1. ReadSlot(windex, count) \in Slots
        BY RingAssumption, ItemSlot DEF TypeOK
      <3>2. QED
        BY <2>3, <3>1, RingAssumption, SMT DEF Dequeue, TypeOK
    <2>4. CASE DequeueEmpty
      BY <2>4 DEF DequeueEmpty, TypeOK
    <2>5. CASE UNCHANGED ringVars
      BY <2>5 DEF ringVars, TypeOK
    <2>6. QED
      BY <2>1, <2>2, <2>3, <2>4, <2>5 DEF Next
  <1>3. QED
    BY <1>1, <1>2, PTL DEF Spec

(* The stored items form a sequence of length count. *)
LEMMA ContentsSeq ==
  ASSUME NEW c \in 0 .. Capacity, NEW w \in 0 .. Word - 1,
         NEW v \in [Slots -> Items \cup {NoItem}]
  PROVE  /\ ContentsOf(v, w, c) \in Seq(Items \cup {NoItem})
         /\ Len(ContentsOf(v, w, c)) = c
         /\ \A i \in 1 .. c : ContentsOf(v, w, c)[i] = v[ReadSlot(w, c - (i - 1))]
  <1>1. \A i \in 1 .. c : ReadSlot(w, c - (i - 1)) \in Slots
    BY RingAssumption, ItemSlot
  <1>2. ContentsOf(v, w, c) \in [1 .. c -> Items \cup {NoItem}]
    BY <1>1 DEF ContentsOf
  <1>3. c \in Nat
    BY RingAssumption
  <1>4. QED
    BY <1>2, <1>3 DEF ContentsOf

(* An enqueue appends its item and disturbs no stored item. *)
LEMMA PushAppends ==
  ASSUME TypeOK, NEW item \in Items, Push(item)
  PROVE  Contents' = Append(Contents, item)
  <1> DEFINE T == Items \cup {NoItem}
  <1>1. count' \in 0 .. Capacity /\ windex' \in 0 .. Word - 1 /\ values' \in [Slots -> T]
    <2>1. windex' \in 0 .. Word - 1
      BY RingAssumption, DivMod DEF Push, UInt32, TypeOK
    <2>2. count' \in 0 .. Capacity
      BY RingAssumption, SMT DEF Push, TypeOK
    <2>3. values' \in [Slots -> T]
      BY DEF Push, TypeOK
    <2>4. QED
      BY <2>1, <2>2, <2>3
  <1>2. /\ Contents \in Seq(T) /\ Len(Contents) = count
        /\ \A i \in 1 .. count : Contents[i] = values[ReadSlot(windex, count - (i - 1))]
    BY ContentsSeq DEF TypeOK, Contents
  <1>3. /\ Contents' \in Seq(T) /\ Len(Contents') = count'
        /\ \A i \in 1 .. count' :
             Contents'[i] = values'[ReadSlot(windex', count' - (i - 1))]
    BY <1>1, ContentsSeq DEF Contents
  <1>4. ASSUME NEW i \in 1 .. count + 1
        PROVE  ReadSlot(windex', count' - (i - 1)) = (windex - (count - (i - 1))) % Capacity
    <2>1. ReadSlot(windex', count' - (i - 1)) = (windex' - (count + 1 - (i - 1))) % Capacity
      <3>1. /\ windex' \in Int /\ count' - (i - 1) \in Int
            /\ count' - (i - 1) = count + 1 - (i - 1)
        BY <1>1, RingAssumption, SMT DEF Push, TypeOK
      <3>2. QED
        BY <3>1, ItemSlot
    <2>2. /\ windex \in Int /\ count - (i - 1) \in Int
          /\ count + 1 - (i - 1) = (count - (i - 1)) + 1
      BY RingAssumption, SMT DEF TypeOK
    <2>3. (UInt32(windex + 1) - ((count - (i - 1)) + 1)) % Capacity
            = (windex - (count - (i - 1))) % Capacity
      BY <2>2, WrapKeepsSlots
    <2>4. QED
      BY <2>1, <2>2, <2>3 DEF Push
  <1>5. ASSUME NEW i \in 1 .. count
        PROVE  Contents'[i] = Contents[i]
    <2>1. ReadSlot(windex, count - (i - 1)) = (windex - (count - (i - 1))) % Capacity
      BY ItemSlot, RingAssumption DEF TypeOK
    <2>2. (windex - (count - (i - 1))) % Capacity # windex % Capacity
      <3>1. count - (i - 1) \in 1 .. Capacity - 1 /\ windex \in Int
        BY RingAssumption, SMT DEF Push, TypeOK
      <3>2. QED
        BY <3>1, RingAssumption, ModApart
    <2>3. i \in 1 .. count' /\ i \in 1 .. count + 1
      BY RingAssumption, SMT DEF Push, TypeOK
    <2>4. ReadSlot(windex', count' - (i - 1)) = ReadSlot(windex, count - (i - 1))
      BY <2>1, <2>3, <1>4
    <2>5. ReadSlot(windex, count - (i - 1)) \in Slots
      BY ItemSlot, RingAssumption DEF TypeOK
    <2>6. values'[ReadSlot(windex, count - (i - 1))] = values[ReadSlot(windex, count - (i - 1))]
      BY <2>1, <2>2, <2>5 DEF Push, TypeOK, WriteSlot, Masked
    <2>7. QED
      BY <1>2, <1>3, <2>3, <2>4, <2>6
  <1>6. Contents'[count + 1] = item
    <2>1. count + 1 \in 1 .. count' /\ count + 1 \in 1 .. count + 1
      BY RingAssumption, SMT DEF Push, TypeOK
    <2>2. ReadSlot(windex', count' - ((count + 1) - 1)) = (windex - (count - ((count + 1) - 1))) % Capacity
      BY <1>4, <2>1
    <2>3. windex - (count - ((count + 1) - 1)) = windex
      BY RingAssumption, SMT DEF TypeOK
    <2>4. windex % Capacity \in Slots
      BY RingAssumption, DivMod DEF Slots, TypeOK
    <2>5. values'[windex % Capacity] = item
      BY <2>4 DEF Push, TypeOK, WriteSlot, Masked
    <2>6. QED
      BY <1>3, <2>1, <2>2, <2>3, <2>5
  <1>7. QED
    <2>1. count' = count + 1
      BY DEF Push
    <2>2. item \in T /\ count \in Nat
      BY RingAssumption DEF TypeOK
    <2>3. /\ Append(Contents, item) \in Seq(T)
          /\ Len(Append(Contents, item)) = count + 1
          /\ \A i \in 1 .. count : Append(Contents, item)[i] = Contents[i]
          /\ Append(Contents, item)[count + 1] = item
      BY <1>2, <2>2, AppendProperties
    <2>4. \A i \in 1 .. count + 1 : Contents'[i] = Append(Contents, item)[i]
      BY <1>5, <1>6, <2>2, <2>3, SMT
    <2>5. QED
      BY <1>3, <2>1, <2>3, <2>4, SeqEqual

(* A dequeue removes the oldest item and returns it. *)
LEMMA PopsHead ==
  ASSUME TypeOK, Dequeue
  PROVE  /\ Contents # << >>
         /\ out' = Head(Contents)
         /\ Contents' = Tail(Contents)
  <1> DEFINE T == Items \cup {NoItem}
  <1>1. count \in 1 .. Capacity /\ count' = count - 1 /\ count' \in 0 .. Capacity
    BY RingAssumption, SMT DEF Dequeue, TypeOK
  <1>2. /\ Contents \in Seq(T) /\ Len(Contents) = count
        /\ \A i \in 1 .. count : Contents[i] = values[ReadSlot(windex, count - (i - 1))]
    BY ContentsSeq DEF TypeOK, Contents
  <1>3. /\ Contents' \in Seq(T) /\ Len(Contents') = count'
        /\ \A i \in 1 .. count' : Contents'[i] = values[ReadSlot(windex, count' - (i - 1))]
    <2>1. values' = values /\ windex' = windex
      BY DEF Dequeue
    <2>2. QED
      BY <1>1, <2>1, ContentsSeq DEF Contents, TypeOK
  <1>4. Contents # << >>
    BY <1>1, <1>2, EmptySeq
  <1>5. out' = Head(Contents)
    <2>1. Contents[1] = values[ReadSlot(windex, count)]
      <3>1. 1 \in 1 .. count /\ count - (1 - 1) = count
        BY <1>1
      <3>2. QED
        BY <1>2, <3>1
    <2>2. Head(Contents) = Contents[1]
      BY <1>2, <1>4
    <2>3. QED
      BY <2>1, <2>2 DEF Dequeue
  <1>6. Contents' = Tail(Contents)
    <2>1. /\ Tail(Contents) \in Seq(T)
          /\ Len(Tail(Contents)) = count'
          /\ \A i \in 1 .. count' : Tail(Contents)[i] = Contents[i + 1]
      BY <1>1, <1>2, <1>4, HeadTailProperties
    <2>2. ASSUME NEW i \in 1 .. count'
          PROVE  Contents'[i] = Tail(Contents)[i]
      <3>1. i + 1 \in 1 .. count /\ count' - (i - 1) = count - ((i + 1) - 1)
        BY <1>1, RingAssumption
      <3>2. QED
        BY <1>2, <1>3, <2>1, <3>1
    <2>3. QED
      BY <1>3, <2>1, <2>2, SeqEqual
  <1>7. QED
    BY <1>4, <1>5, <1>6

(***************************************************************************)
(* The ring implements the FIFO buffer, for every capacity and index width *)
(* that RingAssumption admits: order, exactly-once delivery and refusal    *)
(* only when full (ms_ring_enqueue and ms_ring_dequeue).                   *)
(***************************************************************************)
THEOREM RingImplementation == Spec => RefinesFIFO
  <1>1. Init => Fifo!Init
    <2> SUFFICES ASSUME Init
                 PROVE  Fifo!Init
      OBVIOUS
    <2>1. Contents = << >>
      <3>1. /\ Contents \in Seq(Items \cup {NoItem})
            /\ Len(Contents) = 0
        <4>1. Init => TypeOK
          BY RingAssumption, SMT DEF Init, TypeOK, Slots
        <4>2. QED
          BY <4>1, ContentsSeq DEF Contents, TypeOK, Init
      <3>2. QED
        BY <3>1, EmptySeq
    <2>2. QED
      BY <2>1 DEF Init, Fifo!Init
  <1>2. TypeOK /\ [Next]_ringVars => [Fifo!Next]_<<Contents, out>>
    <2> SUFFICES ASSUME TypeOK, [Next]_ringVars
                 PROVE  [Fifo!Next]_<<Contents, out>>
      OBVIOUS
    <2>1. /\ Contents \in Seq(Items \cup {NoItem}) /\ Len(Contents) = count
          /\ Contents = << >> <=> count = 0
      <3>1. Contents \in Seq(Items \cup {NoItem}) /\ Len(Contents) = count
        BY ContentsSeq DEF TypeOK, Contents
      <3>2. QED
        BY <3>1, EmptySeq
    <2>2. ASSUME NEW item \in Items, Enqueue(item)
          PROVE  Fifo!Enqueue(item)
      <3>1. Contents' = Append(Contents, item)
        BY <2>2, PushAppends DEF Enqueue
      <3>2. QED
        BY <2>1, <2>2, <3>1 DEF Enqueue, Push, Fifo!Enqueue
    <2>3. CASE EnqueueFull
      <3>1. count = Capacity
        BY <2>3, RingAssumption, SMT DEF EnqueueFull, TypeOK
      <3>2. QED
        BY <2>1, <2>3, <3>1 DEF EnqueueFull, Contents, Fifo!EnqueueFull, Fifo!Next
    <2>4. CASE Dequeue
      BY <2>4, PopsHead DEF Fifo!Dequeue, Fifo!Next
    <2>5. CASE DequeueEmpty
      <3>1. count = 0
        BY <2>5, RingAssumption, SMT DEF DequeueEmpty, TypeOK
      <3>2. QED
        BY <2>1, <2>5, <3>1 DEF DequeueEmpty, Contents, Fifo!DequeueEmpty, Fifo!Next
    <2>6. CASE UNCHANGED ringVars
      BY <2>6 DEF ringVars, Contents
    <2>7. QED
      BY <2>2, <2>3, <2>4, <2>5, <2>6 DEF Next, Fifo!Next
  <1>3. QED
    BY <1>1, <1>2, RingTyping, PTL DEF Spec, RefinesFIFO, Fifo!Spec

-----------------------------------------------------------------------------
(* ms_map.  A key occurs in one slot at most and only within its slice, so *)
(* that a search of the slice is a search of the whole map.                *)

MapSlots == Map!SlotsOf(MapCapacity)

(* The slots of a key's slice, by the capacity at construction. *)
PlaceOf(key, i) == (Hash[key] + i) % MapCapacity

Reaches(key, s) == \E i \in 0 .. Slice - 1 : s = PlaceOf(key, i)

MapTyped ==
  /\ mKeys \in [MapSlots -> Keys \cup {NoKey}]
  /\ mVals \in [MapSlots -> Vals \cup {NoVal}]
  /\ mStored \in [Keys -> Vals \cup {NoVal}]

(* A key is within its slice. *)
Placed == \A s \in MapSlots : mKeys[s] # NoKey => Reaches(mKeys[s], s)

(* It is in one slot. *)
Unique == \A s, t \in MapSlots : mKeys[s] # NoKey /\ mKeys[s] = mKeys[t] => s = t

(* Its slot has the value stored last. *)
Current == \A s \in MapSlots : mKeys[s] # NoKey => mVals[s] = mStored[mKeys[s]]

(* And what was stored has a slot. *)
Present == \A key \in Keys : mStored[key] # NoVal => \E s \in MapSlots : mKeys[s] = key

MapInv == mBroken = "no" => MapTyped /\ Placed /\ Unique /\ Current /\ Present

-----------------------------------------------------------------------------
LEMMA PlaceInRange ==
  ASSUME MapSensible, NEW key \in Keys, NEW i \in Nat
  PROVE  PlaceOf(key, i) \in MapSlots
  <1>1. Hash[key] \in Nat /\ MapCapacity \in Nat \ {0}
    BY DEF MapSensible
  <1>2. (Hash[key] + i) % MapCapacity \in 0 .. MapCapacity - 1
    BY <1>1, SMT
  <1>3. QED
    BY <1>2 DEF PlaceOf, MapSlots, Map!SlotsOf

(* As long as the map was not resized its slices are those of PlaceOf. *)
LEMMA SlotIsPlace ==
  ASSUME MapSensible, MapTyped, NEW key \in Keys, NEW i \in 0 .. Slice - 1
  PROVE  Map!Slot(key, i) = PlaceOf(key, i)
  <1>1. DOMAIN mKeys = 0 .. MapCapacity - 1 /\ MapCapacity \in Nat \ {0}
    BY DEF MapTyped, MapSlots, Map!SlotsOf, MapSensible
  <1>2. Cardinality(0 .. MapCapacity - 1) = MapCapacity
    <2>1. 0 \in Int /\ MapCapacity - 1 \in Int /\ ~ (0 > MapCapacity - 1) /\ (MapCapacity - 1) - 0 + 1 = MapCapacity
      BY <1>1, SMT
    <2>2. QED
      BY <2>1, FS_Interval
  <1>3. Map!Cardinality(0 .. MapCapacity - 1) = MapCapacity
    BY <1>2 DEF Map!Cardinality, Cardinality
  <1>4. QED
    BY <1>1, <1>3 DEF Map!Slot, Map!CapacityNow, PlaceOf

(* A search that succeeds ends in the slice, at what was looked for. *)
LEMMA SearchEnds ==
  ASSUME MapSensible, MapTyped, NEW key \in Keys, NEW wanted, Map!Probe(key, wanted) # {}
  PROVE  /\ Map!FirstSlot(key, wanted) \in MapSlots
         /\ Reaches(key, Map!FirstSlot(key, wanted))
         /\ mKeys[Map!FirstSlot(key, wanted)] = wanted
  <1> DEFINE P == Map!Probe(key, wanted)
  <1>1. P \subseteq Nat /\ P # {}
    BY DEF Map!Probe, MapSensible
  <1>2. Map!Min(P) \in P
    BY <1>1, HasMinimum DEF Map!Min
  <1>3. Map!Min(P) \in 0 .. Slice - 1 /\ mKeys[Map!Slot(key, Map!Min(P))] = wanted
    BY <1>2 DEF Map!Probe
  <1>4. Map!Slot(key, Map!Min(P)) = PlaceOf(key, Map!Min(P)) /\ PlaceOf(key, Map!Min(P)) \in MapSlots
    BY <1>3, SlotIsPlace, PlaceInRange DEF MapSensible
  <1>5. QED
    BY <1>3, <1>4 DEF Map!FirstSlot, Reaches

(* A search of the slice is a search of the map. *)
LEMMA FoundMeansPresent ==
  ASSUME MapSensible, MapTyped, Placed, NEW key \in Keys
  PROVE  Map!Found(key) <=> \E s \in MapSlots : mKeys[s] = key
  <1>1. ASSUME NEW s \in MapSlots, mKeys[s] = key
        PROVE  Map!Found(key)
    <2>1. PICK i \in 0 .. Slice - 1 : s = PlaceOf(key, i)
      BY <1>1 DEF Placed, Reaches, MapSensible
    <2>2. i \in Map!Probe(key, key)
      BY <1>1, <2>1, SlotIsPlace DEF Map!Probe
    <2>3. QED
      BY <2>2 DEF Map!Found
  <1>2. ASSUME Map!Found(key)
        PROVE  \E s \in MapSlots : mKeys[s] = key
    BY <1>2, SearchEnds DEF Map!Found
  <1>3. QED
    BY <1>1, <1>2

(* The invariant gives what lookups are for. *)
LEMMA InvariantAgrees ==
  ASSUME MapSensible, MapInv
  PROVE  Map!Agrees
  <1> SUFFICES ASSUME mBroken = "no", NEW key \in Keys
               PROVE  Map!Lookup(key) = mStored[key]
    BY DEF Map!Agrees
  <1>1. MapTyped /\ Placed /\ Unique /\ Current /\ Present
    BY DEF MapInv
  <1>2. CASE Map!Found(key)
    <2>1. Map!FirstSlot(key, key) \in MapSlots /\ mKeys[Map!FirstSlot(key, key)] = key
      BY <1>1, <1>2, SearchEnds DEF Map!Found
    <2>2. mVals[Map!FirstSlot(key, key)] = mStored[key]
      BY <1>1, <2>1 DEF Current, MapSensible
    <2>3. QED
      BY <1>2, <2>2 DEF Map!Lookup
  <1>3. CASE ~ Map!Found(key)
    <2>1. mStored[key] = NoVal
      BY <1>1, <1>3, FoundMeansPresent DEF Present
    <2>2. QED
      BY <1>3, <2>1 DEF Map!Lookup
  <1>4. QED
    BY <1>2, <1>3

-----------------------------------------------------------------------------
(* Where ms_map_set puts a key: its own slot, or a free one of its slice. *)
LEMMA TargetOfSet ==
  ASSUME MapSensible, MapTyped, Placed, NEW key \in Keys, Map!HasTarget(key)
  PROVE  /\ Map!Target(key) \in MapSlots
         /\ Reaches(key, Map!Target(key))
         /\ \/ mKeys[Map!Target(key)] = key
            \/ mKeys[Map!Target(key)] = NoKey /\ \A s \in MapSlots : mKeys[s] # key
  <1>1. CASE Map!Found(key)
    <2>1. Map!Target(key) = Map!FirstSlot(key, key) /\ Map!Probe(key, key) # {}
      BY <1>1 DEF Map!Target, Map!Found
    <2>2. QED
      BY <2>1, SearchEnds
  <1>2. CASE ~ Map!Found(key)
    <2>1. Map!Target(key) = Map!FirstSlot(key, NoKey) /\ Map!Probe(key, NoKey) # {}
      BY <1>2 DEF Map!Target, Map!HasTarget
    <2>2. \A s \in MapSlots : mKeys[s] # key
      BY <1>2, FoundMeansPresent
    <2>3. QED
      BY <2>1, <2>2, SearchEnds
  <1>3. QED
    BY <1>1, <1>2

(* ms_map_set *)
LEMMA SetKeeps ==
  ASSUME MapSensible, MapInv, NEW key \in Keys, NEW val \in Vals, Map!Set(key, val)
  PROVE  MapInv'
  <1> DEFINE t == Map!Target(key)
  <1>1. MapTyped /\ Placed /\ Unique /\ Current /\ Present
    BY DEF MapInv, Map!Set
  <1>2. /\ t \in MapSlots
        /\ Reaches(key, t)
        /\ mKeys[t] = key \/ (mKeys[t] = NoKey /\ \A s \in MapSlots : mKeys[s] # key)
    BY <1>1, TargetOfSet DEF Map!Set
  <1>3. /\ mKeys' = [mKeys EXCEPT ![t] = key]
        /\ mVals' = [mVals EXCEPT ![t] = val]
        /\ mStored' = [mStored EXCEPT ![key] = val]
    BY DEF Map!Set
  <1> HIDE DEF t
  <1>4. MapTyped'
    BY <1>1, <1>2, <1>3 DEF MapTyped
  <1>5. /\ mKeys'[t] = key /\ mVals'[t] = val /\ mStored'[key] = val
        /\ \A s \in MapSlots : s # t => mKeys'[s] = mKeys[s] /\ mVals'[s] = mVals[s]
        /\ \A k \in Keys : k # key => mStored'[k] = mStored[k]
    BY <1>1, <1>2, <1>3 DEF MapTyped
  <1>6. \A s \in MapSlots : s # t => mKeys[s] # key
    BY <1>1, <1>2 DEF Unique, MapSensible
  <1>7. Placed'
    <2> SUFFICES ASSUME NEW s \in MapSlots, mKeys'[s] # NoKey
                 PROVE  Reaches(mKeys'[s], s)
      BY DEF Placed, Reaches, PlaceOf
    <2>1. QED
      BY <1>1, <1>2, <1>5 DEF Placed
  <1>8. Unique'
    BY <1>1, <1>5, <1>6 DEF Unique
  <1>9. Current'
    <2> SUFFICES ASSUME NEW s \in MapSlots, mKeys'[s] # NoKey
                 PROVE  mVals'[s] = mStored'[mKeys'[s]]
      BY DEF Current
    <2>1. s # t => mKeys[s] \in Keys /\ mKeys[s] # key
      BY <1>1, <1>5, <1>6 DEF MapTyped
    <2>2. QED
      BY <1>1, <1>5, <2>1 DEF Current
  <1>10. Present'
    <2> SUFFICES ASSUME NEW k \in Keys, mStored'[k] # NoVal
                 PROVE  \E s \in MapSlots : mKeys'[s] = k
      BY DEF Present
    <2>1. CASE k = key
      BY <1>2, <1>5, <2>1
    <2>2. CASE k # key
      <3>1. PICK s \in MapSlots : mKeys[s] = k
        BY <1>1, <1>5, <2>2 DEF Present
      <3>2. s # t
        BY <1>2, <2>2, <3>1 DEF MapSensible
      <3>3. QED
        BY <1>5, <3>1, <3>2
    <2>3. QED
      BY <2>1, <2>2
  <1>11. QED
    BY <1>4, <1>7, <1>8, <1>9, <1>10 DEF MapInv

(* ms_map_remove *)
LEMMA RemoveKeeps ==
  ASSUME MapSensible, MapInv, NEW key \in Keys, Map!Remove(key)
  PROVE  MapInv'
  <1>1. MapTyped /\ Placed /\ Unique /\ Current /\ Present
    BY DEF MapInv, Map!Remove
  <1>2. /\ \A s \in MapSlots : mKeys[s] # key => mKeys'[s] = mKeys[s]
        /\ \A s \in MapSlots : mKeys[s] = key => mKeys'[s] = NoKey
        /\ mKeys' \in [MapSlots -> Keys \cup {NoKey}]
    <2>1. CASE Map!Found(key)
      <3> DEFINE t == Map!FirstSlot(key, key)
      <3>1. t \in MapSlots /\ mKeys[t] = key
        BY <1>1, <2>1, SearchEnds DEF Map!Found
      <3>2. mKeys' = [mKeys EXCEPT ![t] = NoKey]
        BY <2>1 DEF Map!Remove
      <3> HIDE DEF t
      <3>3. \A s \in MapSlots : mKeys[s] = key => s = t
        BY <1>1, <3>1 DEF Unique, MapSensible
      <3>4. QED
        BY <1>1, <3>1, <3>2, <3>3 DEF MapTyped
    <2>2. CASE ~ Map!Found(key)
      BY <1>1, <2>2, FoundMeansPresent DEF Map!Remove, MapTyped
    <2>3. QED
      BY <2>1, <2>2
  <1>3. /\ mVals' = mVals
        /\ mStored' = [mStored EXCEPT ![key] = NoVal]
    BY DEF Map!Remove
  <1>4. MapTyped'
    BY <1>1, <1>2, <1>3 DEF MapTyped
  <1>5. mStored'[key] = NoVal /\ \A k \in Keys : k # key => mStored'[k] = mStored[k]
    BY <1>1, <1>3 DEF MapTyped
  <1>6. \A s \in MapSlots : mKeys'[s] # NoKey => mKeys'[s] = mKeys[s] /\ mKeys[s] # key /\ mKeys[s] \in Keys
    BY <1>1, <1>2 DEF MapTyped
  <1>7. Placed'
    <2> SUFFICES ASSUME NEW s \in MapSlots, mKeys'[s] # NoKey
                 PROVE  Reaches(mKeys'[s], s)
      BY DEF Placed, Reaches, PlaceOf
    <2>1. QED
      BY <1>1, <1>6 DEF Placed
  <1>8. Unique'
    BY <1>1, <1>6 DEF Unique
  <1>9. Current'
    BY <1>1, <1>3, <1>5, <1>6 DEF Current
  <1>10. Present'
    BY <1>1, <1>2, <1>5 DEF Present
  <1>11. QED
    BY <1>4, <1>7, <1>8, <1>9, <1>10 DEF MapInv

-----------------------------------------------------------------------------
LEMMA MapInitially ==
  ASSUME MapSensible, Map!Init
  PROVE  MapInv
  BY DEF Map!Init, MapInv, MapTyped, Placed, Unique, Current, Present, MapSlots

LEMMA MapStepKeeps ==
  ASSUME MapSensible, MapInv, [Map!Next]_Map!vars
  PROVE  MapInv'
  <1>1. ASSUME NEW key \in Keys, NEW val \in Vals, Map!Set(key, val) PROVE MapInv'
    BY <1>1, SetKeeps
  <1>2. ASSUME NEW key \in Keys, Map!SetResize(key) PROVE MapInv'
    BY <1>2 DEF Map!SetResize, MapInv
  <1>3. ASSUME NEW key \in Keys, Map!SetNoMemory(key) PROVE MapInv'
    <2>1. CASE UNCHANGED <<mVals, mBroken>>
      BY <1>3, <2>1 DEF Map!SetNoMemory, MapInv, MapTyped, Placed, Reaches, PlaceOf, Unique, Current, Present
    <2>2. CASE mBroken' = "values lost"
      BY <2>2 DEF MapInv
    <2>3. QED
      BY <1>3, <2>1, <2>2 DEF Map!SetNoMemory
  <1>4. ASSUME NEW key \in Keys, Map!Remove(key) PROVE MapInv'
    BY <1>4, RemoveKeeps
  <1>5. CASE UNCHANGED Map!vars
    BY <1>5 DEF Map!vars, MapInv, MapTyped, Placed, Reaches, PlaceOf, Unique, Current, Present
  <1>6. QED
    BY <1>1, <1>2, <1>3, <1>4, <1>5 DEF Map!Next, Map!SetFull

(* The types, also of what a resize leaves behind. *)
LEMMA MapTypes ==
  ASSUME MapSensible, MapInv, Map!TypeOK, [Map!Next]_Map!vars
  PROVE  Map!TypeOK'
  <1>1. ASSUME NEW key \in Keys, NEW val \in Vals, Map!Set(key, val) PROVE Map!TypeOK'
    <2>1. Map!Target(key) \in DOMAIN mKeys
      BY <1>1, TargetOfSet DEF MapInv, Map!Set, MapTyped
    <2> DEFINE t == Map!Target(key)
    <2>2. /\ mKeys' = [mKeys EXCEPT ![t] = key]
          /\ mVals' = [mVals EXCEPT ![t] = val]
          /\ mStored' = [mStored EXCEPT ![key] = val]
          /\ UNCHANGED <<mGrowth, mBroken>>
      BY <1>1 DEF Map!Set
    <2> HIDE DEF t
    <2>3. DOMAIN mKeys' = DOMAIN mKeys
      BY <2>2
    <2>4. QED
      BY <2>1, <2>2, <2>3 DEF Map!TypeOK, t
  <1>2. ASSUME NEW key \in Keys, Map!SetResize(key) PROVE Map!TypeOK'
    <2>1. /\ mKeys' \in [Map!NewSlots -> Keys \cup {NoKey}]
          /\ mVals' = [s \in Map!NewSlots |-> NoVal]
          /\ mBroken' = "rebuilt"
          /\ UNCHANGED <<mGrowth, mStored>>
      BY <1>2 DEF Map!SetResize
    <2>2. DOMAIN mKeys' = Map!NewSlots
      BY <2>1
    <2>3. QED
      BY <2>1, <2>2 DEF Map!TypeOK
  <1>3. ASSUME NEW key \in Keys, Map!SetNoMemory(key) PROVE Map!TypeOK'
    BY <1>3 DEF Map!SetNoMemory, Map!TypeOK
  <1>4. ASSUME NEW key \in Keys, Map!Remove(key) PROVE Map!TypeOK'
    <2>1. mKeys' = mKeys \/ mKeys' = [mKeys EXCEPT ![Map!FirstSlot(key, key)] = NoKey]
      BY <1>4 DEF Map!Remove
    <2>2. DOMAIN mKeys' = DOMAIN mKeys /\ mKeys' \in [DOMAIN mKeys -> Keys \cup {NoKey}]
      BY <2>1 DEF Map!TypeOK
    <2>3. QED
      BY <1>4, <2>2 DEF Map!Remove, Map!TypeOK
  <1>5. CASE UNCHANGED Map!vars
    BY <1>5 DEF Map!vars, Map!TypeOK
  <1>6. QED
    BY <1>1, <1>2, <1>3, <1>4, <1>5 DEF Map!Next, Map!SetFull

(***************************************************************************)
(* Lookups agree with what was stored and not removed, for every set of    *)
(* keys, hash, capacity and slice (ms_map_get_value after any ms_map_set   *)
(* and ms_map_remove), until the map is resized or fails to be.            *)
(***************************************************************************)
THEOREM MapAgreement ==
  ASSUME MapSensible
  PROVE  Map!Spec => []MapAgrees
  <1>1. Map!Init => MapInv /\ Map!TypeOK
    BY MapInitially DEF Map!Init, Map!TypeOK
  <1>2. MapInv /\ Map!TypeOK /\ [Map!Next]_Map!vars => MapInv' /\ Map!TypeOK'
    BY MapStepKeeps, MapTypes
  <1>3. MapInv /\ Map!TypeOK => MapAgrees
    BY InvariantAgrees DEF MapAgrees
  <1>4. QED
    BY <1>1, <1>2, <1>3, PTL DEF Map!Spec

-----------------------------------------------------------------------------
(* ms_ipool.  HeldOnce with the type invariant is inductive; an item is    *)
(* its block and its offset, so that a bit stands for one item only.       *)

(* The item numbers and the pairs of a block and an offset correspond. *)
LEMMA ItemOfPlace ==
  ASSUME IndexedSensible, NEW b \in 0 .. MaxBlocks - 1, NEW offset \in Indexed!Offsets
  PROVE  /\ Indexed!Item(b, offset) \in Indexed!ItemIndices
         /\ Indexed!BlockOf(Indexed!Item(b, offset)) = b
         /\ Indexed!OffsetOf(Indexed!Item(b, offset)) = offset
  <1> DEFINE n == b * BlockSize + offset
  <1>1. BlockSize \in Nat \ {0} /\ MaxBlocks \in Nat /\ offset \in 0 .. BlockSize - 1 /\ b \in Int
    BY DEF Indexed!Offsets, IndexedSensible
  <1>2. n \in Int /\ n = BlockSize * b + offset
    BY <1>1, SMT
  <1> HIDE DEF n
  <1>3. n \div BlockSize = b /\ n % BlockSize = offset
    BY <1>1, <1>2, DivModUnique
  <1>4. n \in 0 .. MaxBlocks * BlockSize - 1
    <2>1. BlockSize * b >= 0
      BY <1>1, SMT
    <2>2. BlockSize * (b + 1) <= MaxBlocks * BlockSize
      BY <1>1, SMT
    <2>3. BlockSize * (b + 1) = BlockSize * b + BlockSize
      BY <1>1, SMT
    <2>4. QED
      BY <1>1, <1>2, <2>1, <2>2, <2>3, SMT
  <1>5. QED
    BY <1>3, <1>4 DEF n, Indexed!Item, Indexed!BlockOf, Indexed!OffsetOf, Indexed!ItemIndices

LEMMA PlaceOfItem ==
  ASSUME IndexedSensible, NEW item \in Indexed!ItemIndices
  PROVE  /\ Indexed!BlockOf(item) \in 0 .. MaxBlocks - 1
         /\ Indexed!OffsetOf(item) \in Indexed!Offsets
         /\ Indexed!Item(Indexed!BlockOf(item), Indexed!OffsetOf(item)) = item
  <1> DEFINE q == item \div BlockSize
             r == item % BlockSize
  <1>1. BlockSize \in Nat \ {0} /\ MaxBlocks \in Nat
        /\ item \in Int /\ item >= 0 /\ item <= MaxBlocks * BlockSize - 1
    BY DEF Indexed!ItemIndices, IndexedSensible
  <1>2. q \in Int /\ r \in 0 .. BlockSize - 1 /\ item = BlockSize * q + r
    BY <1>1, DivMod
  <1> HIDE DEF q, r
  <1>3. q >= 0
    <2>1. ASSUME q <= -1 PROVE FALSE
      <3>1. BlockSize * q <= -BlockSize
        BY <1>1, <1>2, <2>1, SMT
      <3>2. QED
        BY <1>1, <1>2, <3>1, SMT
    <2>2. QED
      BY <1>2, <2>1, SMT
  <1>4. q <= MaxBlocks - 1
    <2>1. ASSUME q >= MaxBlocks PROVE FALSE
      <3>1. BlockSize * q >= BlockSize * MaxBlocks
        BY <1>1, <1>2, <2>1, SMT
      <3>2. BlockSize * MaxBlocks = MaxBlocks * BlockSize
        BY <1>1, SMT
      <3>3. QED
        BY <1>1, <1>2, <3>1, <3>2, SMT
    <2>2. QED
      BY <1>1, <1>2, <2>1, SMT
  <1>5. q * BlockSize + r = item
    BY <1>1, <1>2, SMT
  <1>6. QED
    BY <1>1, <1>2, <1>3, <1>4, <1>5, SMT DEF q, r, Indexed!Item, Indexed!BlockOf, Indexed!OffsetOf, Indexed!Offsets

-----------------------------------------------------------------------------
IndexedInv == Indexed!TypeOK /\ Indexed!HeldOnce

LEMMA IndexedInitially ==
  ASSUME IndexedSensible
  PROVE  Indexed!Init => IndexedInv
  <1> SUFFICES ASSUME Indexed!Init PROVE IndexedInv
    OBVIOUS
  <1>1. Indexed!TypeOK
    BY DEF Indexed!Init, Indexed!TypeOK, IndexedSensible
  <1>2. \A item \in Indexed!ItemIndices : ~ Indexed!InUse(item)
    BY PlaceOfItem DEF Indexed!Init, Indexed!InUse
  <1>3. Indexed!HeldOnce
    BY <1>2 DEF Indexed!HeldOnce, Indexed!Init
  <1>4. QED
    BY <1>1, <1>3 DEF IndexedInv

(* Acquire sets the bit of the item it hands out, which nobody held. *)
LEMMA IndexedAcquireKeeps ==
  ASSUME IndexedSensible, IndexedInv, Indexed!Acquire
  PROVE  IndexedInv'
  <1>1. PICK b \in 0 .. iBlocks - 1, offset \in Indexed!Offsets :
          /\ Indexed!IsFirstOffset(b, offset)
          /\ iState' = [iState EXCEPT ![b] = @ \cup {offset}]
          /\ iLastState' = b
          /\ iHolders' = [iHolders EXCEPT ![Indexed!Item(b, offset)] = @ + 1]
          /\ iBlocks' = iBlocks
    BY DEF Indexed!Acquire
  <1>2. b \in 0 .. MaxBlocks - 1 /\ b < iBlocks
    BY <1>1 DEF IndexedInv, Indexed!TypeOK, IndexedSensible
  <1>3. offset \notin iState[b]
    BY <1>1 DEF Indexed!IsFirstOffset, Indexed!Free
  <1> DEFINE given == Indexed!Item(b, offset)
  <1>4. given \in Indexed!ItemIndices /\ Indexed!BlockOf(given) = b /\ Indexed!OffsetOf(given) = offset
    BY <1>2, ItemOfPlace
  <1> HIDE DEF given
  <1>5. Indexed!TypeOK'
    <2>1. iState' \in [0 .. MaxBlocks - 1 -> SUBSET Indexed!Offsets]
      BY <1>1, <1>2 DEF IndexedInv, Indexed!TypeOK
    <2>2. iHolders' \in [Indexed!ItemIndices -> Nat]
      BY <1>1, <1>4 DEF IndexedInv, Indexed!TypeOK, given
    <2>3. iLastState' \in 0 .. MaxBlocks /\ iBlocks' \in 0 .. MaxBlocks
      BY <1>1, <1>2 DEF IndexedInv, Indexed!TypeOK, IndexedSensible
    <2>4. QED
      BY <2>1, <2>2, <2>3 DEF Indexed!TypeOK
  <1>6. ASSUME NEW item \in Indexed!ItemIndices
        PROVE  iHolders'[item] = IF Indexed!BlockOf(item) < iBlocks' /\ Indexed!InUse(item)' THEN 1 ELSE 0
    <2>1. Indexed!BlockOf(item) \in 0 .. MaxBlocks - 1 /\ Indexed!OffsetOf(item) \in Indexed!Offsets
          /\ Indexed!Item(Indexed!BlockOf(item), Indexed!OffsetOf(item)) = item
      BY PlaceOfItem
    <2>2. iHolders[item] = IF Indexed!BlockOf(item) < iBlocks /\ Indexed!InUse(item) THEN 1 ELSE 0
      BY DEF IndexedInv, Indexed!HeldOnce
    <2>3. CASE item = given
      <3>1. iHolders[item] = 0
        BY <1>3, <1>4, <2>2, <2>3 DEF Indexed!InUse
      <3>2. iHolders'[item] = 1
        BY <1>1, <1>4, <2>3, <3>1 DEF given, IndexedInv, Indexed!TypeOK
      <3>3. Indexed!BlockOf(item) < iBlocks' /\ Indexed!InUse(item)'
        BY <1>1, <1>2, <1>4, <2>3 DEF Indexed!InUse, Indexed!OffsetOf, Indexed!BlockOf, IndexedInv, Indexed!TypeOK
      <3>4. QED
        BY <3>2, <3>3
    <2>4. CASE item # given
      <3>1. iHolders'[item] = iHolders[item]
        BY <1>1, <2>4 DEF given, IndexedInv, Indexed!TypeOK
      <3>2. Indexed!BlockOf(item) # b \/ Indexed!OffsetOf(item) # offset
        BY <2>1, <2>4 DEF given
      <3>3. Indexed!OffsetOf(item) \in iState'[Indexed!BlockOf(item)] <=> Indexed!OffsetOf(item) \in iState[Indexed!BlockOf(item)]
        BY <1>1, <2>1, <3>2 DEF IndexedInv, Indexed!TypeOK
      <3>4. Indexed!InUse(item)' <=> Indexed!InUse(item)
        BY <3>3 DEF Indexed!InUse, Indexed!OffsetOf, Indexed!BlockOf
      <3>5. QED
        BY <1>1, <2>2, <3>1, <3>4
    <2>5. QED
      BY <2>3, <2>4
  <1>7. QED
    BY <1>5, <1>6 DEF IndexedInv, Indexed!HeldOnce, Indexed!BlockOf

(* Release clears the bit of an item its caller held alone. *)
LEMMA IndexedReleaseKeeps ==
  ASSUME IndexedSensible, IndexedInv, NEW given \in Indexed!ItemIndices, Indexed!Release(given)
  PROVE  IndexedInv'
  <1>1. /\ Indexed!BlockOf(given) < iBlocks
        /\ iHolders[given] > 0
        /\ iState' = [iState EXCEPT ![Indexed!BlockOf(given)] = @ \ {Indexed!OffsetOf(given)}]
        /\ iHolders' = [iHolders EXCEPT ![given] = @ - 1]
        /\ iBlocks' = iBlocks
        /\ iLastState' = iLastState
    BY DEF Indexed!Release
  <1>2. iHolders[given] = 1
    BY <1>1 DEF IndexedInv, Indexed!HeldOnce
  <1>3. Indexed!BlockOf(given) \in 0 .. MaxBlocks - 1 /\ Indexed!OffsetOf(given) \in Indexed!Offsets
        /\ Indexed!Item(Indexed!BlockOf(given), Indexed!OffsetOf(given)) = given
    BY PlaceOfItem
  <1>4. Indexed!TypeOK'
    <2>1. iState' \in [0 .. MaxBlocks - 1 -> SUBSET Indexed!Offsets]
      BY <1>1, <1>3 DEF IndexedInv, Indexed!TypeOK
    <2>2. iHolders' \in [Indexed!ItemIndices -> Nat]
      BY <1>1, <1>2 DEF IndexedInv, Indexed!TypeOK
    <2>3. QED
      BY <1>1, <2>1, <2>2 DEF IndexedInv, Indexed!TypeOK
  <1>5. ASSUME NEW item \in Indexed!ItemIndices
        PROVE  iHolders'[item] = IF Indexed!BlockOf(item) < iBlocks' /\ Indexed!InUse(item)' THEN 1 ELSE 0
    <2>1. Indexed!BlockOf(item) \in 0 .. MaxBlocks - 1 /\ Indexed!OffsetOf(item) \in Indexed!Offsets
          /\ Indexed!Item(Indexed!BlockOf(item), Indexed!OffsetOf(item)) = item
      BY PlaceOfItem
    <2>2. iHolders[item] = IF Indexed!BlockOf(item) < iBlocks /\ Indexed!InUse(item) THEN 1 ELSE 0
      BY DEF IndexedInv, Indexed!HeldOnce
    <2>3. CASE item = given
      <3>1. iHolders'[item] = 0
        BY <1>1, <1>2, <2>3 DEF IndexedInv, Indexed!TypeOK
      <3>2. Indexed!OffsetOf(item) \notin iState'[Indexed!BlockOf(item)]
        BY <1>1, <1>3, <2>3 DEF IndexedInv, Indexed!TypeOK
      <3>3. ~ Indexed!InUse(item)'
        BY <3>2 DEF Indexed!InUse, Indexed!OffsetOf, Indexed!BlockOf
      <3>4. QED
        BY <3>1, <3>3
    <2>4. CASE item # given
      <3>1. iHolders'[item] = iHolders[item]
        BY <1>1, <2>4 DEF IndexedInv, Indexed!TypeOK
      <3>2. Indexed!BlockOf(item) # Indexed!BlockOf(given) \/ Indexed!OffsetOf(item) # Indexed!OffsetOf(given)
        BY <1>3, <2>1, <2>4
      <3>3. Indexed!OffsetOf(item) \in iState'[Indexed!BlockOf(item)] <=> Indexed!OffsetOf(item) \in iState[Indexed!BlockOf(item)]
        BY <1>1, <1>3, <2>1, <3>2 DEF IndexedInv, Indexed!TypeOK
      <3>4. Indexed!InUse(item)' <=> Indexed!InUse(item)
        BY <3>3 DEF Indexed!InUse, Indexed!OffsetOf, Indexed!BlockOf
      <3>5. QED
        BY <1>1, <2>2, <3>1, <3>4
    <2>5. QED
      BY <2>3, <2>4
  <1>6. QED
    BY <1>4, <1>5 DEF IndexedInv, Indexed!HeldOnce, Indexed!BlockOf

(* Resize keeps the bits of the blocks that stay, and only those. *)
LEMMA IndexedResizeKeeps ==
  ASSUME IndexedSensible, IndexedInv, NEW asked \in 0 .. MaxBlocks, Indexed!Resize(asked)
  PROVE  IndexedInv'
  <1>1. /\ iBlocks' = asked
        /\ iState' = [b \in 0 .. MaxBlocks - 1 |->
                       IF b < iBlocks /\ b < asked THEN iState[b] ELSE {}]
        /\ iLastState' = 0
        /\ iHolders' = [n \in Indexed!ItemIndices |->
                         IF Indexed!BlockOf(n) < iBlocks /\ Indexed!BlockOf(n) < asked THEN iHolders[n] ELSE 0]
    BY DEF Indexed!Resize
  <1>2. Indexed!TypeOK'
    <2>1. \A b \in 0 .. MaxBlocks - 1 : iState[b] \subseteq Indexed!Offsets
      BY DEF IndexedInv, Indexed!TypeOK
    <2>2. iState' \in [0 .. MaxBlocks - 1 -> SUBSET Indexed!Offsets]
      BY <1>1, <2>1
    <2>3. iHolders' \in [Indexed!ItemIndices -> Nat]
      BY <1>1 DEF IndexedInv, Indexed!TypeOK
    <2>4. QED
      BY <1>1, <2>2, <2>3 DEF Indexed!TypeOK, IndexedSensible
  <1>3. ASSUME NEW item \in Indexed!ItemIndices
        PROVE  iHolders'[item] = IF Indexed!BlockOf(item) < iBlocks' /\ Indexed!InUse(item)' THEN 1 ELSE 0
    <2>1. Indexed!BlockOf(item) \in 0 .. MaxBlocks - 1
      BY PlaceOfItem
    <2>2. iHolders[item] = IF Indexed!BlockOf(item) < iBlocks /\ Indexed!InUse(item) THEN 1 ELSE 0
      BY DEF IndexedInv, Indexed!HeldOnce
    <2>3. Indexed!InUse(item)' <=> Indexed!OffsetOf(item) \in iState'[Indexed!BlockOf(item)]
      BY DEF Indexed!InUse, Indexed!OffsetOf, Indexed!BlockOf
    <2>4. CASE Indexed!BlockOf(item) < iBlocks /\ Indexed!BlockOf(item) < asked
      <3>1. iState'[Indexed!BlockOf(item)] = iState[Indexed!BlockOf(item)]
        BY <1>1, <2>1, <2>4
      <3>2. iHolders'[item] = iHolders[item]
        BY <1>1, <2>4
      <3>3. QED
        BY <1>1, <2>2, <2>3, <2>4, <3>1, <3>2 DEF Indexed!InUse
    <2>5. CASE ~ (Indexed!BlockOf(item) < iBlocks /\ Indexed!BlockOf(item) < asked)
      <3>1. iState'[Indexed!BlockOf(item)] = {}
        BY <1>1, <2>1, <2>5
      <3>2. iHolders'[item] = 0
        BY <1>1, <2>5
      <3>3. QED
        BY <2>3, <3>1, <3>2
    <2>6. QED
      BY <2>4, <2>5
  <1>4. QED
    BY <1>2, <1>3 DEF IndexedInv, Indexed!HeldOnce, Indexed!BlockOf

(* Steps that leave the pool alone. *)
LEMMA IndexedStutterKeeps ==
  ASSUME IndexedSensible, IndexedInv, UNCHANGED Indexed!vars
  PROVE  IndexedInv'
  BY DEF IndexedInv, Indexed!TypeOK, Indexed!HeldOnce, Indexed!InUse, Indexed!BlockOf, Indexed!OffsetOf, Indexed!vars

LEMMA IndexedStepKeeps ==
  ASSUME IndexedSensible
  PROVE  IndexedInv /\ [Indexed!Next]_Indexed!vars => IndexedInv'
  <1> SUFFICES ASSUME IndexedInv, [Indexed!Next]_Indexed!vars PROVE IndexedInv'
    OBVIOUS
  <1>1. CASE Indexed!Acquire
    BY <1>1, IndexedAcquireKeeps
  <1>2. CASE Indexed!AcquireFull
    BY <1>2, IndexedStutterKeeps DEF Indexed!AcquireFull
  <1>3. ASSUME NEW item \in Indexed!ItemIndices, Indexed!Release(item) PROVE IndexedInv'
    BY <1>3, IndexedReleaseKeeps
  <1>4. ASSUME NEW item \in Indexed!ItemIndices, Indexed!DoubleRelease(item) PROVE IndexedInv'
    BY <1>4, IndexedStutterKeeps DEF Indexed!DoubleRelease
  <1>5. ASSUME NEW asked \in 0 .. MaxBlocks, Indexed!Resize(asked) PROVE IndexedInv'
    BY <1>5, IndexedResizeKeeps
  <1>6. CASE UNCHANGED Indexed!vars
    BY <1>6, IndexedStutterKeeps
  <1>7. QED
    BY <1>1, <1>2, <1>3, <1>4, <1>5, <1>6 DEF Indexed!Next

(***************************************************************************)
(* For every pool, no item of ms_ipool_acquire is handed to two callers,   *)
(* and the bitmap knows exactly the items that are held.                   *)
(***************************************************************************)
THEOREM IndexedAgreement ==
  ASSUME IndexedSensible
  PROVE  Indexed!Spec => []HeldOnce
  <1>1. IndexedInv => HeldOnce
    BY DEF IndexedInv, HeldOnce
  <1>2. QED
    BY IndexedInitially, IndexedStepKeeps, <1>1, PTL DEF Indexed!Spec

-----------------------------------------------------------------------------
(* ms_pool.  Shared is inductive once the item count is known to be that   *)
(* of whole pages: a new page is one list of its own, and everything else  *)
(* happens at the head of the list.                                        *)

PoolInv ==
  /\ Nodes!TypeOK
  /\ Nodes!Shared
  /\ \E p \in 0 .. MaxPages : pItemCount = NodesPerPage * p

(* The lists of this module and of the instance are the same. *)
LEMMA PoolLists ==
  /\ \A f, n, null : Nodes!IsList(f, n, null) <=> IsList(f, n, null)
  /\ \A f, n, null : Nodes!Reached(f, n, null) = Reached(f, n, null)
  BY DEF Nodes!IsList, IsList, Nodes!Reached, Reached, Nodes!Closed, Closed

LEMMA PoolView ==
  ASSUME PoolSensible, PoolInv
  PROVE  /\ pItems \in Nodes!Nodes \cup {Null}
         /\ pNext \in [Nodes!Nodes -> Nodes!Nodes \cup {Null}]
         /\ pHeld \subseteq Nodes!Nodes
         /\ IsList(pNext, pItems, Null)
         /\ Reached(pNext, pItems, Null) \subseteq Nodes!Nodes \cup {Null}
         /\ pItems \in Reached(pNext, pItems, Null)
         /\ Nodes!Listed = Reached(pNext, pItems, Null) \ {Null}
         /\ Nodes!Listed \cap pHeld = {}
         /\ Nodes!Listed \cup pHeld = {n \in Nodes!Nodes : n < pItemCount}
  <1>1. /\ pItems \in Nodes!Nodes \cup {Null}
        /\ pNext \in [Nodes!Nodes -> Nodes!Nodes \cup {Null}]
        /\ pHeld \subseteq Nodes!Nodes
    BY DEF PoolInv, Nodes!TypeOK
  <1>2. /\ IsList(pNext, pItems, Null)
        /\ Nodes!Listed = Reached(pNext, pItems, Null) \ {Null}
        /\ Nodes!Listed \cap pHeld = {}
        /\ Nodes!Listed \cup pHeld = {n \in Nodes!Nodes : n < pItemCount}
    BY PoolLists DEF PoolInv, Nodes!Shared, Nodes!Listed
  <1>3. /\ pItems \in Reached(pNext, pItems, Null)
        /\ Reached(pNext, pItems, Null) \subseteq Nodes!Nodes \cup {Null}
    BY <1>1, ReachedStart
  <1>4. QED
    BY <1>1, <1>2, <1>3

(* What is left to show of a step, once the list behind it is known. *)
LEMMA PoolShown ==
  ASSUME PoolSensible, NEW p \in 0 .. MaxPages, pItemCount' = NodesPerPage * p,
         pItems' \in Nodes!Nodes \cup {Null},
         pNext' \in [Nodes!Nodes -> Nodes!Nodes \cup {Null}],
         pHeld' \subseteq Nodes!Nodes,
         IsList(pNext', pItems', Null),
         (Reached(pNext', pItems', Null) \ {Null}) \cap pHeld' = {},
         (Reached(pNext', pItems', Null) \ {Null}) \cup pHeld' = {n \in Nodes!Nodes : n < pItemCount'}
  PROVE  PoolInv'
  <1>1. NodesPerPage * p \in 0 .. MaxPages * NodesPerPage
    BY SMT DEF PoolSensible
  <1>2. Nodes!TypeOK'
    BY <1>1 DEF Nodes!TypeOK, Nodes!Nodes
  <1>3. Nodes!IsList(pNext', pItems', Null) /\ Nodes!Reached(pNext', pItems', Null) = Reached(pNext', pItems', Null)
    BY PoolLists
  <1>4. Nodes!Shared'
    BY <1>3 DEF Nodes!Shared, Nodes!Listed, Nodes!Nodes
  <1>5. QED
    BY <1>2, <1>4 DEF PoolInv

(* Nobody holds anything of a pool without pages. *)
LEMMA PoolEmpty ==
  ASSUME PoolSensible, pItems' = Null, pItemCount' = 0, pHeld' = {},
         pNext' \in [Nodes!Nodes -> Nodes!Nodes \cup {Null}]
  PROVE  PoolInv'
  <1>1. 0 \in 0 .. MaxPages /\ pItemCount' = NodesPerPage * 0
    BY SMT DEF PoolSensible
  <1>2. Reached(pNext', Null, Null) = {Null} /\ Null \notin Nodes!Nodes
    <2> DEFINE f == pNext'
    <2>1. f \in [Nodes!Nodes -> Nodes!Nodes \cup {Null}] /\ Null \notin Nodes!Nodes
      BY DEF PoolSensible
    <2> HIDE DEF f
    <2>2. Reached(f, Null, Null) = {Null}
      BY <2>1, ReachedNull
    <2>3. QED
      BY <2>1, <2>2 DEF f
  <1>3. IsList(pNext', pItems', Null)
    BY <1>2 DEF IsList
  <1>4. {n \in Nodes!Nodes : n < pItemCount'} = {}
    BY SMT DEF Nodes!Nodes
  <1>5. QED
    BY <1>1, <1>2, <1>3, <1>4, PoolShown

LEMMA PoolInitially ==
  ASSUME PoolSensible
  PROVE  Nodes!Init => PoolInv
  <1> SUFFICES ASSUME Nodes!Init PROVE PoolInv
    OBVIOUS
  <1>1. /\ pItems = Null /\ pItemCount = 0 /\ pHeld = {}
        /\ pNext \in [Nodes!Nodes -> Nodes!Nodes \cup {Null}] /\ Null \notin Nodes!Nodes
    BY DEF Nodes!Init, PoolSensible
  <1>2. 0 \in 0 .. MaxPages /\ pItemCount = NodesPerPage * 0 /\ 0 \in 0 .. MaxPages * NodesPerPage
    BY <1>1, SMT DEF PoolSensible
  <1>3. Reached(pNext, Null, Null) = {Null}
    BY <1>1, ReachedNull
  <1>4. IsList(pNext, pItems, Null)
    BY <1>1, <1>3 DEF IsList
  <1>5. {n \in Nodes!Nodes : n < pItemCount} = {}
    BY <1>1, SMT DEF Nodes!Nodes
  <1>6. Nodes!TypeOK
    BY <1>1, <1>2 DEF Nodes!TypeOK
  <1>7. Nodes!Shared
    BY <1>1, <1>3, <1>4, <1>5, PoolLists DEF Nodes!Shared, Nodes!Listed
  <1>8. QED
    BY <1>2, <1>6, <1>7 DEF PoolInv

(* The first node of the list goes to the caller. *)
LEMMA PoolAcquireKeeps ==
  ASSUME PoolSensible, PoolInv, Nodes!Acquire
  PROVE  PoolInv'
  <1>1. /\ pItems # Null /\ pHeld' = pHeld \cup {pItems} /\ pItems' = pNext[pItems]
        /\ pNext' = pNext /\ pItemCount' = pItemCount
    BY DEF Nodes!Acquire
  <1>2. PICK p \in 0 .. MaxPages : pItemCount = NodesPerPage * p
    BY DEF PoolInv
  <1>3. /\ pItems \in Nodes!Nodes /\ Null \notin Nodes!Nodes
        /\ pNext \in [Nodes!Nodes -> Nodes!Nodes \cup {Null}]
        /\ IsList(pNext, pItems, Null)
    BY <1>1, PoolView DEF PoolSensible
  <1>4. /\ IsList(pNext, pNext[pItems], Null)
        /\ Reached(pNext, pNext[pItems], Null) = Reached(pNext, pItems, Null) \ {pItems}
    BY <1>3, ListPop
  <1>5. pItems \in Nodes!Listed
    BY <1>1, PoolView
  <1>6. /\ (Reached(pNext', pItems', Null) \ {Null}) \cap pHeld' = {}
        /\ (Reached(pNext', pItems', Null) \ {Null}) \cup pHeld' = Nodes!Listed \cup pHeld
    BY <1>1, <1>4, <1>5, PoolView
  <1>7. /\ pItems' \in Nodes!Nodes \cup {Null}
        /\ pNext' \in [Nodes!Nodes -> Nodes!Nodes \cup {Null}]
        /\ pHeld' \subseteq Nodes!Nodes
        /\ IsList(pNext', pItems', Null)
        /\ pItemCount' = NodesPerPage * p
    BY <1>1, <1>2, <1>3, <1>4, PoolView
  <1>8. Nodes!Listed \cup pHeld = {n \in Nodes!Nodes : n < pItemCount'}
    BY <1>1, PoolView
  <1>9. QED
    BY <1>6, <1>7, <1>8, PoolShown

(* The nodes of a page, as append_page links them. *)
LEMMA PageNodes ==
  ASSUME PoolSensible, NEW p \in 0 .. MaxPages - 1, NEW first, first = NodesPerPage * p,
         NEW last, last = first + NodesPerPage - 1
  PROVE  /\ first \in Nat /\ last \in Nat /\ first <= last
         /\ first .. last \subseteq Nodes!Nodes
         /\ \A n \in Nodes!Nodes : Nodes!PageOf(n) = Nodes!PageOf(first) <=> n \in first .. last
         /\ \A n \in first .. last : Nodes!PageLink(n) = IF n = last THEN Null ELSE n + 1
  <1>1. /\ NodesPerPage \in Nat \ {0} /\ MaxPages \in Nat /\ p \in Int /\ p >= 0 /\ p + 1 <= MaxPages
    BY SMT DEF PoolSensible
  <1>2. first \in Nat /\ last \in Nat /\ first <= last
    BY <1>1, SMT
  <1>3. NodesPerPage * (p + 1) <= MaxPages * NodesPerPage /\ NodesPerPage * (p + 1) = last + 1
    BY <1>1, <1>2, SMT
  <1>4. first .. last \subseteq Nodes!Nodes
    BY <1>1, <1>2, <1>3, SMT DEF Nodes!Nodes
  <1>5. ASSUME NEW n \in first .. last
        PROVE  n \div NodesPerPage = p /\ n % NodesPerPage = n - first
    <2> DEFINE r == n - first
    <2>1. n \in Int /\ r \in 0 .. NodesPerPage - 1 /\ n = NodesPerPage * p + r
      BY <1>1, <1>2, SMT
    <2> HIDE DEF r
    <2>2. n \div NodesPerPage = p /\ n % NodesPerPage = r
      BY <1>1, <2>1, DivModUnique
    <2>3. QED
      BY <2>2 DEF r
  <1>6. ASSUME NEW n \in Nodes!Nodes, n \div NodesPerPage = p
        PROVE  n \in first .. last
    <2>1. n \in Int
      BY SMT DEF Nodes!Nodes
    <2>2. n % NodesPerPage \in 0 .. NodesPerPage - 1 /\ n = NodesPerPage * p + (n % NodesPerPage)
      BY <1>1, <1>6, <2>1, DivMod
    <2>3. QED
      BY <1>1, <1>2, <2>1, <2>2, SMT
  <1>7. first \in first .. last
    BY <1>2, SMT
  <1>8. first \div NodesPerPage = p
    BY <1>5, <1>7
  <1>9. \A n \in Nodes!Nodes : Nodes!PageOf(n) = Nodes!PageOf(first) <=> n \in first .. last
    BY <1>5, <1>6, <1>8 DEF Nodes!PageOf
  <1>10. ASSUME NEW n \in first .. last
         PROVE  Nodes!PageLink(n) = IF n = last THEN Null ELSE n + 1
    <2>1. n - first = NodesPerPage - 1 <=> n = last
      BY <1>1, <1>2, SMT
    <2>2. n % NodesPerPage = n - first
      BY <1>5
    <2>3. QED
      BY <2>1, <2>2 DEF Nodes!PageLink, Nodes!IsLastOfPage
  <1>11. QED
    BY <1>2, <1>4, <1>9, <1>10

(* An empty list takes on a page, whose first node goes to the caller. *)
LEMMA PoolAcquireNewPageKeeps ==
  ASSUME PoolSensible, PoolInv, Nodes!AcquireNewPage
  PROVE  PoolInv'
  <1> DEFINE first == pItemCount
             last == pItemCount + NodesPerPage - 1
  <1>1. /\ pItems = Null
        /\ first < MaxPages * NodesPerPage
        /\ pNext' = [n \in Nodes!Nodes |->
                      IF Nodes!PageOf(n) = Nodes!PageOf(first) THEN Nodes!PageLink(n) ELSE pNext[n]]
        /\ pItemCount' = pItemCount + NodesPerPage
        /\ pHeld' = pHeld \cup {first}
        /\ pItems' = Nodes!PageLink(first)
    BY DEF Nodes!AcquireNewPage
  <1>2. PICK p \in 0 .. MaxPages : first = NodesPerPage * p
    BY DEF PoolInv
  <1>3. /\ p \in 0 .. MaxPages - 1 /\ p + 1 \in 0 .. MaxPages
        /\ pItemCount' = NodesPerPage * (p + 1)
    <2>1. NodesPerPage \in Nat \ {0} /\ MaxPages \in Nat
      BY DEF PoolSensible
    <2>2. p # MaxPages
      BY <1>1, <1>2, <2>1, SMT
    <2>3. QED
      BY <1>1, <1>2, <2>1, <2>2, SMT
  <1> DEFINE f == pNext'
  <1>4. /\ first \in Nat /\ last \in Nat /\ first <= last
        /\ first .. last \subseteq Nodes!Nodes
        /\ \A n \in Nodes!Nodes : Nodes!PageOf(n) = Nodes!PageOf(first) <=> n \in first .. last
        /\ \A n \in first .. last : Nodes!PageLink(n) = IF n = last THEN Null ELSE n + 1
    <2>1. first = NodesPerPage * p /\ last = first + NodesPerPage - 1
      BY <1>2
    <2> HIDE DEF first, last
    <2>2. QED
      BY <1>3, <2>1, PageNodes
  <1>5. \A n \in Nodes!Nodes :
          f[n] = IF n \in first .. last THEN (IF n = last THEN Null ELSE n + 1) ELSE pNext[n]
    BY <1>1, <1>4
  <1>6. f \in [Nodes!Nodes -> Nodes!Nodes \cup {Null}]
    <2>1. f = [n \in Nodes!Nodes |-> f[n]]
      BY <1>1
    <2>2. ASSUME NEW n \in Nodes!Nodes PROVE f[n] \in Nodes!Nodes \cup {Null}
      <3>1. CASE n \in first .. last
        <4>1. n # last => n + 1 \in first .. last
          BY <1>4, <3>1, SMT
        <4>2. QED
          BY <1>4, <1>5, <3>1, <4>1
      <3>2. CASE n \notin first .. last
        BY <1>5, <3>2, PoolView
      <3>3. QED
        BY <3>1, <3>2
    <2>3. QED
      BY <2>1, <2>2
  <1>7. first \in first .. last /\ first \in Nodes!Nodes /\ Null \notin Nodes!Nodes
    BY <1>4, SMT DEF PoolSensible
  <1>8. pItems' = f[first]
    BY <1>1, <1>7
  <1>9. \A n \in first .. last : f[n] = IF n = last THEN Null ELSE n + 1
    BY <1>4, <1>5
  <1>10. pHeld = {n \in Nodes!Nodes : n < first}
    <2>1. Reached(pNext, Null, Null) = {Null}
      BY <1>7, PoolView, ReachedNull
    <2>2. QED
      BY <1>1, <2>1, PoolView
  <1>11. {n \in Nodes!Nodes : n < pItemCount'} = {n \in Nodes!Nodes : n < first} \cup (first .. last)
    <2>1. \A n \in Nodes!Nodes : n < pItemCount' <=> n < first \/ n \in first .. last
      BY <1>1, <1>4, SMT DEF Nodes!Nodes, PoolSensible
    <2>2. QED
      BY <1>4, <2>1
  <1> HIDE DEF first, last, f
  <1>12. IsList(f, first, Null) /\ Reached(f, first, Null) = (first .. last) \cup {Null}
    <2>1. IsRun(f, first, last, Null)
      BY <1>4, <1>6, <1>9 DEF IsRun
    <2>2. QED
      BY <1>6, <1>7, <2>1, ListOfRun
  <1>13. /\ IsList(f, f[first], Null)
         /\ Reached(f, f[first], Null) = Reached(f, first, Null) \ {first}
    BY <1>6, <1>7, <1>12, ListPop
  <1>14. /\ pItems' \in Nodes!Nodes \cup {Null}
         /\ pHeld' \subseteq Nodes!Nodes
    BY <1>1, <1>6, <1>7, <1>8, <1>10
  <1>15. \A n \in Nodes!Nodes : n < first => n \notin first .. last
    BY <1>4, SMT DEF Nodes!Nodes
  <1>16. /\ (Reached(f, f[first], Null) \ {Null}) \cap pHeld' = {}
         /\ (Reached(f, f[first], Null) \ {Null}) \cup pHeld' = {n \in Nodes!Nodes : n < pItemCount'}
    BY <1>1, <1>4, <1>7, <1>10, <1>11, <1>12, <1>13, <1>15
  <1>17. /\ IsList(pNext', pItems', Null)
         /\ (Reached(pNext', pItems', Null) \ {Null}) \cap pHeld' = {}
         /\ (Reached(pNext', pItems', Null) \ {Null}) \cup pHeld' = {n \in Nodes!Nodes : n < pItemCount'}
         /\ pNext' \in [Nodes!Nodes -> Nodes!Nodes \cup {Null}]
    BY <1>6, <1>8, <1>13, <1>16 DEF f
  <1>18. QED
    BY <1>3, <1>14, <1>17, PoolShown

(* The node released is not on the list, whose links stay as they are. *)
LEMMA PoolReleaseKeeps ==
  ASSUME PoolSensible, PoolInv, NEW n \in Nodes!Nodes, Nodes!Release(n)
  PROVE  PoolInv'
  <1> DEFINE f == pNext'
  <1>1. /\ n \in pHeld /\ pNext' = [pNext EXCEPT ![n] = pItems] /\ pItems' = n
        /\ pHeld' = pHeld \ {n} /\ pItemCount' = pItemCount
    BY DEF Nodes!Release
  <1>2. PICK p \in 0 .. MaxPages : pItemCount = NodesPerPage * p
    BY DEF PoolInv
  <1>3. /\ f \in [Nodes!Nodes -> Nodes!Nodes \cup {Null}]
        /\ f[n] = pItems /\ \A m \in Nodes!Nodes : m # n => f[m] = pNext[m]
    BY <1>1, PoolView
  <1>4. Null \notin Nodes!Nodes /\ n \notin Reached(pNext, pItems, Null)
    BY <1>1, PoolView DEF PoolSensible
  <1>5. \A m \in Reached(pNext, pItems, Null) \cap Nodes!Nodes : f[m] = pNext[m]
    BY <1>3, <1>4
  <1> HIDE DEF f
  <1>6. /\ pItems \in Nodes!Nodes \cup {Null}
        /\ pNext \in [Nodes!Nodes -> Nodes!Nodes \cup {Null}]
        /\ IsList(pNext, pItems, Null)
    BY PoolView
  <1>7. IsList(f, pItems, Null) /\ Reached(f, pItems, Null) = Reached(pNext, pItems, Null)
    BY <1>3, <1>4, <1>5, <1>6, ListSame
  <1>8. n \in Nodes!Nodes \ Reached(f, pItems, Null)
    BY <1>4, <1>7
  <1>9. IsList(f, n, Null) /\ Reached(f, n, Null) = Reached(f, pItems, Null) \cup {n}
    BY <1>3, <1>4, <1>6, <1>7, <1>8, ListPush
  <1>10. /\ IsList(pNext', pItems', Null)
         /\ Reached(pNext', pItems', Null) = Reached(pNext, pItems, Null) \cup {n}
    BY <1>1, <1>7, <1>9 DEF f
  <1>11. /\ (Reached(pNext', pItems', Null) \ {Null}) \cap pHeld' = {}
         /\ (Reached(pNext', pItems', Null) \ {Null}) \cup pHeld' = Nodes!Listed \cup pHeld
    BY <1>1, <1>4, <1>10, PoolView
  <1>12. /\ pItems' \in Nodes!Nodes \cup {Null}
         /\ pNext' \in [Nodes!Nodes -> Nodes!Nodes \cup {Null}]
         /\ pHeld' \subseteq Nodes!Nodes
         /\ pItemCount' = NodesPerPage * p
    BY <1>1, <1>2, <1>3, PoolView DEF f
  <1>13. Nodes!Listed \cup pHeld = {m \in Nodes!Nodes : m < pItemCount'}
    BY <1>1, PoolView
  <1>14. QED
    BY <1>10, <1>11, <1>12, <1>13, PoolShown

LEMMA PoolStepKeeps ==
  ASSUME PoolSensible
  PROVE  PoolInv /\ [Nodes!Next]_Nodes!vars => PoolInv'
  <1> SUFFICES ASSUME PoolInv, [Nodes!Next]_Nodes!vars PROVE PoolInv'
    OBVIOUS
  <1>1. CASE Nodes!Acquire
    BY <1>1, PoolAcquireKeeps
  <1>2. CASE Nodes!AcquireNewPage
    BY <1>2, PoolAcquireNewPageKeeps
  <1>3. ASSUME NEW n \in Nodes!Nodes, Nodes!Release(n) PROVE PoolInv'
    BY <1>3, PoolReleaseKeeps
  <1>4. CASE Nodes!Destroy
    BY <1>4, PoolEmpty, PoolView DEF Nodes!Destroy
  <1>5. CASE UNCHANGED Nodes!vars
    BY <1>5 DEF Nodes!vars, PoolInv, Nodes!TypeOK, Nodes!Shared, Nodes!Listed, Nodes!IsList,
                Nodes!Reached, Nodes!Closed
  <1>6. QED
    BY <1>1, <1>2, <1>3, <1>4, <1>5 DEF Nodes!Next

(***************************************************************************)
(* For every page size and however often: ms_pool_acquire never returns a  *)
(* node that is in use, and no node of the pages is lost: Shared.          *)
(***************************************************************************)
THEOREM PoolAgreement ==
  ASSUME PoolSensible
  PROVE  Nodes!Spec => []PoolShared
  <1>1. PoolInv => PoolShared
    BY DEF PoolInv, PoolShared
  <1>2. QED
    BY PoolInitially, PoolStepKeeps, <1>1, PTL DEF Nodes!Spec

-----------------------------------------------------------------------------
(* ms_barray.  A bit of a cluster is that of every index whose mask it is, *)
(* so that one index alone with its mask decides it; and no memory beyond  *)
(* the capacity has a bit that a later growth would have to clear.         *)

(* Nobody has asked for an alias of the bit. *)
Alone(i) == \A j \in bAsked : Bits!Aliases(i, j) => j = i

BitsInv ==
  /\ Bits!TypeOK
  /\ ~ bLost => /\ \A c \in Bits!Clusters : c >= bCapacity => bData[c] = {}
                /\ \A c \in Bits!Clusters : \A b \in bData[c] : b < MaskBits
                /\ \A i \in Bits!Indices : Alone(i) => (Bits!Get(i) <=> i \in bOnes)

(* The cluster and the mask's bit of an index. *)
LEMMA BitOfIndex ==
  ASSUME BitsSensible, NEW i \in Bits!Indices
  PROVE  /\ Bits!ClusterOf(i) \in Bits!Clusters
         /\ Bits!MaskBit(i) \in 0 .. MaskBits - 1
  <1> DEFINE q == i \div ClusterBits
             r == i % ClusterBits
             m == r % MaskBits
  <1>1. i \in Nat /\ i < MaxClusters * ClusterBits
    BY SMT DEF Bits!Indices, BitsSensible
  <1>2. /\ ClusterBits \in Nat \ {0} /\ MaskBits \in Nat \ {0} /\ MaxClusters \in Nat
        /\ i \in Int
    BY <1>1, SMT DEF BitsSensible
  <1>3. q \in Int /\ r \in 0 .. ClusterBits - 1 /\ i = ClusterBits * q + r
    BY <1>2, DivMod
  <1> HIDE DEF q, r
  <1>4. r \in Int
    BY <1>3, SMT
  <1>5. m \in 0 .. MaskBits - 1
    BY <1>2, <1>4, DivMod
  <1> HIDE DEF m
  <1>6. q >= 0
    <2>1. q <= -1 => ClusterBits * q <= - ClusterBits
      BY <1>2, <1>3, SMT
    <2>2. QED
      BY <1>1, <1>2, <1>3, <2>1, SMT
  <1>7. q < MaxClusters
    <2>1. q >= MaxClusters => ClusterBits * q >= MaxClusters * ClusterBits
      BY <1>2, <1>3, SMT
    <2>2. QED
      BY <1>1, <1>2, <1>3, <2>1, SMT
  <1>8. q \in 0 .. MaxClusters - 1
    BY <1>2, <1>3, <1>6, <1>7, SMT
  <1>9. QED
    BY <1>5, <1>8 DEF q, r, m, Bits!ClusterOf, Bits!MaskBit, Bits!OffsetOf, Bits!Clusters

(* With what a resize keeps, everything is as it was. *)
LEMMA BitsResized ==
  ASSUME BitsSensible, BitsInv, ~ bLost, NEW n \in Nat, n >= bCapacity
  PROVE  Bits!Resized(n) = bData
  <1>1. /\ bData = [c \in Bits!Clusters |-> bData[c]] /\ bCapacity \in Nat
        /\ \A c \in Bits!Clusters : c >= bCapacity => bData[c] = {}
    BY SMT DEF BitsInv, Bits!TypeOK, BitsSensible
  <1>2. \A c \in Bits!Clusters : (IF c < bCapacity /\ c < n THEN bData[c] ELSE {}) = bData[c]
    BY <1>1, SMT DEF Bits!Clusters
  <1>3. QED
    BY <1>1, <1>2 DEF Bits!Resized

(* One bit of one cluster changes, and the array reaches it. *)
LEMMA BitsChange ==
  ASSUME BitsSensible, BitsInv, ~ bLost, NEW i \in Bits!Indices, NEW on \in BOOLEAN,
         bCapacity' = Bits!Reaching(i),
         bData' = [Bits!Resized(Bits!Reaching(i)) EXCEPT ![Bits!ClusterOf(i)] =
                    IF on THEN Bits!SetBit(@, i) ELSE Bits!ClearBit(@, i)],
         bOnes' = IF on THEN bOnes \cup {i} ELSE bOnes \ {i},
         bAsked' = bAsked \cup {i},
         UNCHANGED <<bResizable, bLost>>
  PROVE  BitsInv'
  <1> DEFINE q == Bits!ClusterOf(i)
             m == Bits!MaskBit(i)
             new == IF on THEN bData[q] \cup {m} ELSE bData[q] \ {m}
  <1>1. /\ Bits!TypeOK /\ \A c \in Bits!Clusters : c >= bCapacity => bData[c] = {}
        /\ \A c \in Bits!Clusters : \A b \in bData[c] : b < MaskBits
        /\ \A j \in Bits!Indices : Alone(j) => (Bits!Get(j) <=> j \in bOnes)
    BY DEF BitsInv
  <1>2. q \in Bits!Clusters /\ m \in 0 .. MaskBits - 1
    BY BitOfIndex
  <1>3. bCapacity' \in 0 .. MaxClusters /\ bCapacity' >= bCapacity /\ bCapacity' > q
    <2>1. q \in 0 .. MaxClusters - 1 /\ bCapacity \in 0 .. MaxClusters /\ MaxClusters \in Nat
      BY <1>1, <1>2 DEF Bits!TypeOK, Bits!Clusters, BitsSensible
    <2>2. bCapacity' = IF bCapacity > q + 1 THEN bCapacity ELSE q + 1
      BY DEF Bits!Reaching, Bits!Larger
    <2> HIDE DEF q
    <2>3. QED
      BY <2>1, <2>2, SMT
  <1>4. Bits!Resized(Bits!Reaching(i)) = bData
    <2>1. bCapacity' \in Nat /\ Bits!Reaching(i) = bCapacity'
      BY <1>3, SMT DEF BitsSensible
    <2>2. QED
      BY <1>3, <2>1, BitsResized
  <1>5. bData' = [bData EXCEPT ![q] = new]
    <2>1. {b \in bData[q] : b < MaskBits} = bData[q]
      BY <1>1, <1>2
    <2>2. QED
      BY <1>4, <2>1 DEF Bits!SetBit, Bits!ClearBit
  <1> HIDE DEF q, m
  <1>6. bData'[q] = new /\ \A c \in Bits!Clusters : c # q => bData'[c] = bData[c]
    BY <1>1, <1>2, <1>5 DEF Bits!TypeOK
  <1>7. m \in 0 .. ClusterBits - 1 /\ m < MaskBits
    BY <1>2, SMT DEF BitsSensible
  <1>8. Bits!TypeOK'
    <2>1. new \in SUBSET (0 .. ClusterBits - 1)
      BY <1>1, <1>2, <1>7 DEF Bits!TypeOK
    <2>2. bData' \in [Bits!Clusters -> SUBSET (0 .. ClusterBits - 1)]
      BY <1>1, <1>2, <1>5, <2>1 DEF Bits!TypeOK
    <2>3. bOnes' \subseteq Bits!Indices /\ bAsked' \subseteq Bits!Indices
      BY <1>1 DEF Bits!TypeOK
    <2>4. QED
      BY <1>1, <1>3, <2>2, <2>3 DEF Bits!TypeOK
  <1>9. \A c \in Bits!Clusters : c >= bCapacity' => bData'[c] = {}
    <2> SUFFICES ASSUME NEW c \in Bits!Clusters, c >= bCapacity' PROVE bData'[c] = {}
      OBVIOUS
    <2>1. c # q /\ c >= bCapacity
      BY <1>1, <1>2, <1>3, SMT DEF Bits!Clusters, Bits!TypeOK
    <2>2. QED
      BY <1>1, <1>6, <2>1
  <1>10. \A c \in Bits!Clusters : \A b \in bData'[c] : b < MaskBits
    BY <1>1, <1>2, <1>6, <1>7
  <1>11. ASSUME NEW j \in Bits!Indices, Alone(j)'
         PROVE  Bits!MaskBit(j) \in bData'[Bits!ClusterOf(j)] <=> j \in bOnes'
    <2>1. Bits!ClusterOf(j) \in Bits!Clusters
      BY BitOfIndex
    <2>2. Bits!MaskBit(j) \in bData[Bits!ClusterOf(j)] <=> j \in bOnes
      <3>1. Alone(j)
        BY <1>11 DEF Alone
      <3>2. QED
        BY <1>1, <3>1 DEF Bits!Get
    <2>3. CASE j = i
      BY <1>6, <2>3 DEF q, m
    <2>4. CASE j # i
      <3>1. Bits!ClusterOf(j) # q \/ Bits!MaskBit(j) # m
        BY <1>11, <2>4 DEF Alone, Bits!Aliases, q, m
      <3>2. QED
        BY <1>6, <2>1, <2>2, <2>4, <3>1
    <2>5. QED
      BY <2>3, <2>4
  <1>12. QED
    BY <1>8, <1>9, <1>10, <1>11 DEF BitsInv, Bits!Get

LEMMA BitsStepKeeps ==
  ASSUME BitsSensible
  PROVE  BitsInv /\ [Bits!Next]_Bits!vars => BitsInv'
  <1> SUFFICES ASSUME BitsInv, [Bits!Next]_Bits!vars PROVE BitsInv'
    OBVIOUS
  <1>1. ASSUME NEW i \in Bits!Indices, Bits!Set(i) PROVE BitsInv'
    <2>1. TRUE \in BOOLEAN
      OBVIOUS
    <2>2. QED
      BY <1>1, <2>1, BitsChange DEF Bits!Set
  <1>2. ASSUME NEW i \in Bits!Indices, Bits!Clear(i) PROVE BitsInv'
    <2>1. FALSE \in BOOLEAN
      OBVIOUS
    <2>2. QED
      BY <1>2, <2>1, BitsChange DEF Bits!Clear
  <1>3. CASE UNCHANGED Bits!vars
    BY <1>3 DEF Bits!vars, BitsInv, Bits!TypeOK, Bits!Get, Alone
  <1>4. CASE Bits!NoMemory
    BY <1>4 DEF Bits!NoMemory, BitsInv, Bits!TypeOK
  <1>5. CASE Bits!ClearAll
    <2>1. Bits!TypeOK'
      BY <1>5 DEF Bits!ClearAll, BitsInv, Bits!TypeOK
    <2>2. \A i \in Bits!Indices : Bits!ClusterOf(i) \in Bits!Clusters
      BY BitOfIndex
    <2>3. QED
      BY <1>5, <2>1, <2>2 DEF Bits!ClearAll, BitsInv, Bits!Get
  <1>6. ASSUME NEW n \in 0 .. MaxClusters, Bits!Resize(n) PROVE BitsInv'
    <2>1. n \in Nat /\ n >= bCapacity /\ bCapacity' = n /\ ~ bLost
          /\ UNCHANGED <<bResizable, bLost, bOnes, bAsked>>
      BY <1>6, SMT DEF Bits!Resize, BitsSensible
    <2>2. bData' = bData
      BY <1>6, <2>1, BitsResized DEF Bits!Resize
    <2>3. \A c \in Bits!Clusters : c >= n => c >= bCapacity
      BY <2>1, SMT DEF Bits!Clusters, BitsInv, Bits!TypeOK
    <2>4. Bits!TypeOK'
      BY <2>1, <2>2 DEF BitsInv, Bits!TypeOK
    <2>5. QED
      BY <2>1, <2>2, <2>3, <2>4 DEF BitsInv, Bits!Get, Alone
  <1>7. QED
    BY <1>1, <1>2, <1>3, <1>4, <1>5, <1>6 DEF Bits!Next, Bits!OutOfBounds

(***************************************************************************)
(* For every number of clusters and every width, whichever bits callers    *)
(* use: ms_barray_get reads what was last written, of every bit whose      *)
(* alias nobody asked for.                                                 *)
(***************************************************************************)
THEOREM BitsAgreement ==
  ASSUME BitsSensible
  PROVE  Bits!Spec => []BitsAgree
  <1>1. Bits!Init => BitsInv
    <2> SUFFICES ASSUME Bits!Init PROVE BitsInv
      OBVIOUS
    <2>1. Bits!TypeOK
      BY DEF Bits!Init, Bits!TypeOK
    <2>2. \A i \in Bits!Indices : Bits!ClusterOf(i) \in Bits!Clusters
      BY BitOfIndex
    <2>3. QED
      BY <2>1, <2>2 DEF Bits!Init, BitsInv, Bits!Get
  <1>2. BitsInv => BitsAgree
    BY DEF BitsInv, BitsAgree, Bits!BitsAgree, Alone
  <1>3. QED
    BY <1>1, <1>2, BitsStepKeeps, PTL DEF Bits!Spec

-----------------------------------------------------------------------------
(* ms_autoarray.  The property is inductive with the types; what it needs  *)
(* of the rounding is that it never rounds down.                           *)

AutoInv == Growing!TypeOK /\ Growing!ItemsKept

LEMMA AlignedUp ==
  ASSUME AutoSensible, NEW n \in Nat
  PROVE  Growing!AlignUp(n) \in Nat /\ Growing!AlignUp(n) >= n
  <1> DEFINE m == n + Grain - 1
             q == m \div Grain
             r == m % Grain
  <1>1. Grain \in Nat \ {0} /\ m \in Int
    BY SMT DEF AutoSensible
  <1> HIDE DEF m
  <1>2. q \in Int /\ r \in 0 .. Grain - 1 /\ m = Grain * q + r
    BY <1>1, DivMod
  <1> HIDE DEF q, r
  <1>3. q * Grain \in Int /\ q * Grain = Grain * q
    BY <1>1, <1>2, SMT
  <1> DEFINE a == q * Grain
  <1>4. a \in Int /\ m = a + r
    BY <1>2, <1>3
  <1> HIDE DEF a
  <1>5. a >= n
    BY <1>1, <1>2, <1>4, SMT DEF m
  <1>6. QED
    BY <1>4, <1>5, SMT DEF a, q, m, Growing!AlignUp

(* More memory keeps the items. *)
LEMMA AutoRegrown ==
  ASSUME AutoInv, NEW n \in Nat, n >= aCapacity, NEW new \in [Growing!Slots(n) -> Vals]
  PROVE  /\ Growing!Regrown(new, n) \in [Growing!Slots(n) -> Vals]
         /\ \A i \in 1 .. aCapacity : i \in Growing!Slots(n) /\ Growing!Regrown(new, n)[i] = aBase[i]
  <1>1. aCapacity \in Nat /\ aBase \in [1 .. aCapacity -> Vals]
    BY SMT DEF AutoInv, Growing!TypeOK, Growing!Slots
  <1>2. \A i \in 1 .. aCapacity : i \in 1 .. n /\ i <= aCapacity
    BY <1>1, SMT
  <1>3. \A i \in 1 .. n : i <= aCapacity => i \in 1 .. aCapacity
    BY <1>1, SMT
  <1>4. QED
    BY <1>1, <1>2, <1>3 DEF Growing!Slots, Growing!Regrown

LEMMA AutoReserveKeeps ==
  ASSUME AutoSensible, AutoInv, NEW asked \in 0 .. MaxCapacity, Growing!Reserve(asked)
  PROVE  AutoInv'
  <1> DEFINE n == Growing!AlignUp(asked)
  <1>1. /\ ~ aBroken /\ n <= MaxCapacity /\ aCount' = aCount /\ aBroken' = aBroken /\ aList' = aList
        /\ IF n > aCapacity THEN /\ \E new \in [Growing!Slots(n) -> Vals] : aBase' = Growing!Regrown(new, n)
                                 /\ aCapacity' = n
                            ELSE aBase' = aBase /\ aCapacity' = aCapacity
    BY DEF Growing!Reserve
  <1>2. n \in Nat /\ MaxCapacity \in Nat
    BY AlignedUp, SMT DEF AutoSensible
  <1>3. /\ aCapacity \in 0 .. MaxCapacity /\ aBase \in [Growing!Slots(aCapacity) -> Vals]
        /\ aCount \in Nat /\ aList \in Seq(Vals) /\ aBroken \in BOOLEAN
        /\ aCount <= aCapacity /\ Len(aList) = aCount /\ \A i \in 1 .. aCount : aBase[i] = aList[i]
    BY <1>1 DEF AutoInv, Growing!TypeOK, Growing!ItemsKept
  <1> HIDE DEF n
  <1>4. CASE n > aCapacity
    <2>1. PICK new \in [Growing!Slots(n) -> Vals] : aBase' = Growing!Regrown(new, n)
      BY <1>1, <1>4
    <2>2. n >= aCapacity
      BY <1>2, <1>3, <1>4, SMT
    <2>3. aBase' \in [Growing!Slots(n) -> Vals] /\ \A i \in 1 .. aCapacity : aBase'[i] = aBase[i]
      BY <1>2, <2>1, <2>2, AutoRegrown
    <2>4. aCapacity' = n /\ n \in 0 .. MaxCapacity /\ aCount <= n /\ \A i \in 1 .. aCount : i \in 1 .. aCapacity
      BY <1>1, <1>2, <1>3, <1>4, SMT
    <2>5. QED
      BY <1>1, <1>3, <2>3, <2>4 DEF AutoInv, Growing!TypeOK, Growing!ItemsKept
  <1>5. CASE ~ (n > aCapacity)
    BY <1>1, <1>3, <1>5 DEF AutoInv, Growing!TypeOK, Growing!ItemsKept
  <1>6. QED
    BY <1>4, <1>5

LEMMA AutoResizeKeeps ==
  ASSUME AutoSensible, AutoInv, NEW size \in 0 .. MaxCapacity, Growing!Resize(size)
  PROVE  AutoInv'
  <1> DEFINE n == Growing!AlignUp(size)
  <1>1. /\ ~ aBroken /\ n <= MaxCapacity /\ aCount' = size /\ aBroken' = aBroken
        /\ aList' = [i \in 1 .. size |-> IF i <= aCount THEN aList[i] ELSE aBase'[i]]
        /\ IF n > aCapacity THEN /\ \E new \in [Growing!Slots(n) -> Vals] : aBase' = Growing!Regrown(new, n)
                                 /\ aCapacity' = n
                            ELSE aBase' = aBase /\ aCapacity' = aCapacity
    BY DEF Growing!Resize
  <1>2. size \in Nat /\ MaxCapacity \in Nat
    BY SMT DEF AutoSensible
  <1>3. n \in Nat /\ n >= size
    BY <1>2, AlignedUp
  <1>4. /\ aCapacity \in 0 .. MaxCapacity /\ aBase \in [Growing!Slots(aCapacity) -> Vals]
        /\ aCount \in Nat /\ aList \in Seq(Vals) /\ aBroken \in BOOLEAN
        /\ aCount <= aCapacity /\ Len(aList) = aCount /\ \A i \in 1 .. aCount : aBase[i] = aList[i]
    BY <1>1 DEF AutoInv, Growing!TypeOK, Growing!ItemsKept
  <1> HIDE DEF n
  <1>5. /\ aCapacity' \in 0 .. MaxCapacity /\ size <= aCapacity'
        /\ aBase' \in [Growing!Slots(aCapacity') -> Vals]
        /\ \A i \in 1 .. aCapacity : aBase'[i] = aBase[i]
    <2>1. CASE n > aCapacity
      <3>1. PICK new \in [Growing!Slots(n) -> Vals] : aBase' = Growing!Regrown(new, n)
        BY <1>1, <2>1
      <3>2. n >= aCapacity
        BY <1>3, <1>4, <2>1, SMT
      <3>3. aBase' \in [Growing!Slots(n) -> Vals] /\ \A i \in 1 .. aCapacity : aBase'[i] = aBase[i]
        BY <1>3, <3>1, <3>2, AutoRegrown
      <3>4. aCapacity' = n /\ n \in 0 .. MaxCapacity
        BY <1>1, <1>2, <1>3, <2>1, SMT
      <3>5. QED
        BY <1>3, <3>3, <3>4
    <2>2. CASE ~ (n > aCapacity)
      <3>1. aCapacity' = aCapacity /\ aBase' = aBase /\ size <= aCapacity
        BY <1>1, <1>2, <1>3, <1>4, <2>2, SMT
      <3>2. QED
        BY <1>4, <3>1
    <2>3. QED
      BY <2>1, <2>2
  <1>6. \A i \in 1 .. size : /\ i \in 1 .. aCapacity'
                             /\ i <= aCount => i \in 1 .. aCount /\ i \in 1 .. aCapacity
    BY <1>2, <1>4, <1>5, SMT
  <1>7. aList' \in [1 .. size -> Vals] /\ \A i \in 1 .. size : aList'[i] = aBase'[i]
    <2>1. ASSUME NEW i \in 1 .. size
          PROVE  /\ (IF i <= aCount THEN aList[i] ELSE aBase'[i]) = aBase'[i]
                 /\ aBase'[i] \in Vals
      BY <1>4, <1>5, <1>6 DEF Growing!Slots
    <2>2. QED
      BY <1>1, <2>1
  <1>8. aList' \in Seq(Vals) /\ Len(aList') = size
    BY <1>2, <1>7, SMT
  <1>9. QED
    BY <1>1, <1>2, <1>4, <1>5, <1>7, <1>8 DEF AutoInv, Growing!TypeOK, Growing!ItemsKept

LEMMA AutoAppendKeeps ==
  ASSUME AutoSensible, AutoInv, NEW val \in Vals, Growing!Append1(val)
  PROVE  AutoInv'
  <1>1. PICK n : /\ n = IF aCount = aCapacity THEN Growing!AlignUp(2 * aCapacity) ELSE aCapacity
                 /\ ~ aBroken /\ aCount < n /\ n <= MaxCapacity
                 /\ \E new \in [Growing!Slots(n) -> Vals] :
                      aBase' = [Growing!Regrown(new, n) EXCEPT ![aCount + 1] = val]
                 /\ aCapacity' = n /\ aCount' = aCount + 1 /\ aList' = Append(aList, val)
                 /\ aBroken' = aBroken
    BY DEF Growing!Append1
  <1>2. /\ aCapacity \in 0 .. MaxCapacity /\ aBase \in [Growing!Slots(aCapacity) -> Vals]
        /\ aCount \in Nat /\ aList \in Seq(Vals) /\ aBroken \in BOOLEAN
        /\ aCount <= aCapacity /\ Len(aList) = aCount /\ \A i \in 1 .. aCount : aBase[i] = aList[i]
        /\ MaxCapacity \in Nat
    BY <1>1 DEF AutoInv, Growing!TypeOK, Growing!ItemsKept, AutoSensible
  <1>3. n \in Nat /\ n >= aCapacity
    <2>1. 2 * aCapacity \in Nat /\ aCapacity \in Nat /\ 2 * aCapacity >= aCapacity
      BY <1>2, SMT
    <2>2. Growing!AlignUp(2 * aCapacity) \in Nat /\ Growing!AlignUp(2 * aCapacity) >= 2 * aCapacity
      BY <2>1, AlignedUp
    <2>3. QED
      BY <1>1, <2>1, <2>2, SMT
  <1>4. PICK new \in [Growing!Slots(n) -> Vals] :
          aBase' = [Growing!Regrown(new, n) EXCEPT ![aCount + 1] = val]
    BY <1>1
  <1>5. /\ Growing!Regrown(new, n) \in [Growing!Slots(n) -> Vals]
        /\ \A i \in 1 .. aCapacity : i \in Growing!Slots(n) /\ Growing!Regrown(new, n)[i] = aBase[i]
    BY <1>3, AutoRegrown
  <1>6. /\ aCount + 1 \in 1 .. n /\ n \in 0 .. MaxCapacity /\ aCount' \in Nat /\ aCount' <= n
        /\ \A i \in 1 .. aCount : i \in 1 .. aCapacity /\ i # aCount + 1
        /\ \A i \in 1 .. aCount' : i = aCount + 1 \/ i \in 1 .. aCount
    BY <1>1, <1>2, <1>3, SMT
  <1>7. /\ aBase' \in [Growing!Slots(n) -> Vals] /\ aBase'[aCount + 1] = val
        /\ \A i \in 1 .. aCount : aBase'[i] = aBase[i]
    BY <1>4, <1>5, <1>6 DEF Growing!Slots
  <1>8. /\ aList' \in Seq(Vals) /\ Len(aList') = aCount + 1 /\ aList'[aCount + 1] = val
        /\ \A i \in 1 .. aCount : aList'[i] = aList[i]
    BY <1>1, <1>2, SMT
  <1>9. \A i \in 1 .. aCount' : aBase'[i] = aList'[i]
    BY <1>2, <1>6, <1>7, <1>8
  <1>10. QED
    BY <1>1, <1>2, <1>6, <1>7, <1>8, <1>9 DEF AutoInv, Growing!TypeOK, Growing!ItemsKept

LEMMA AutoStepKeeps ==
  ASSUME AutoSensible
  PROVE  AutoInv /\ [Growing!Next]_Growing!vars => AutoInv'
  <1> SUFFICES ASSUME AutoInv, [Growing!Next]_Growing!vars PROVE AutoInv'
    OBVIOUS
  <1>1. ASSUME NEW asked \in 0 .. MaxCapacity, Growing!Reserve(asked) \/ Growing!Resize(asked)
        PROVE  AutoInv'
    BY <1>1, AutoReserveKeeps, AutoResizeKeeps
  <1>2. ASSUME NEW val \in Vals, Growing!Append1(val) PROVE AutoInv'
    BY <1>2, AutoAppendKeeps
  <1>3. CASE Growing!ReserveNoMemory \/ Growing!AppendOverrun
    <2>1. aBroken' = TRUE /\ aCapacity' = aCapacity /\ aBase' = aBase /\ aList' = aList /\ aCount' \in Nat
      BY <1>3 DEF Growing!ReserveNoMemory, Growing!AppendOverrun, AutoInv, Growing!TypeOK
    <2>2. QED
      BY <2>1 DEF AutoInv, Growing!TypeOK, Growing!ItemsKept
  <1>4. CASE UNCHANGED Growing!vars
    BY <1>4 DEF Growing!vars, AutoInv, Growing!TypeOK, Growing!ItemsKept
  <1>5. QED
    BY <1>1, <1>2, <1>3, <1>4 DEF Growing!Next

(***************************************************************************)
(* For every capacity: up to a failed or missing allocation ms_autoarray   *)
(* keeps what was appended, in order, within its memory.                   *)
(***************************************************************************)
THEOREM AutoAgreement ==
  ASSUME AutoSensible
  PROVE  Growing!Spec => []AutoKept
  <1>1. Growing!Init => AutoInv
    <2> SUFFICES ASSUME Growing!Init PROVE AutoInv
      OBVIOUS
    <2>1. PICK asked \in 0 .. MaxCapacity :
            /\ Growing!AlignUp(asked) <= MaxCapacity
            /\ aCapacity = Growing!AlignUp(asked)
            /\ aBase \in [Growing!Slots(Growing!AlignUp(asked)) -> Vals]
            /\ aCount = 0 /\ aBroken = FALSE /\ aList = << >>
      BY DEF Growing!Init
    <2>2. aCapacity \in Nat
      BY <2>1, AlignedUp, SMT
    <2>3. aCapacity \in 0 .. MaxCapacity /\ 0 <= aCapacity /\ 1 .. aCount = {}
      BY <2>1, <2>2, SMT DEF AutoSensible
    <2>4. aList \in Seq(Vals) /\ Len(aList) = 0 /\ aCount \in Nat /\ aBroken \in BOOLEAN
      <3>1. aList = << >> /\ aCount = 0 /\ aBroken = FALSE
        BY <2>1
      <3>2. aList \in Seq(Vals)
        BY <3>1
      <3>3. QED
        BY <3>1, <3>2
    <2>5. aBase \in [Growing!Slots(aCapacity) -> Vals] /\ aCount = 0
      BY <2>1
    <2>6. QED
      BY <2>3, <2>4, <2>5 DEF AutoInv, Growing!TypeOK, Growing!ItemsKept
  <1>2. AutoInv => AutoKept
    BY DEF AutoInv, AutoKept
  <1>3. QED
    BY <1>1, <1>2, AutoStepKeeps, PTL DEF Growing!Spec

-----------------------------------------------------------------------------
(* ms_sparray.  A pointer is for ever because every page keeps its block,  *)
(* and no two items share one because no two pages do.  The pages go when  *)
(* a growth fails, what callers hold does not: that no two items share a   *)
(* pointer is kept for itself.                                             *)

(* What callers were given is an item of a page that is there. *)
PagesThere ==
  ~ sLost => \A i \in Sparse!Indices :
    sGiven[i] # Null => /\ Sparse!PageIndex(i) \in DOMAIN sPages
                        /\ sPages[Sparse!PageIndex(i)] # Null
                        /\ sGiven[i] = Sparse!Pointer(sPages[Sparse!PageIndex(i)], i)

PagesUsed == \A p \in DOMAIN sPages : sPages[p] # Null => sPages[p] \in sUsed

PagesApart ==
  \A p, q \in DOMAIN sPages : sPages[p] # Null /\ sPages[p] = sPages[q] => p = q

GivenApart ==
  \A i, j \in Sparse!Indices : i # j /\ sGiven[i] # Null => sGiven[i] # sGiven[j]

SparseInv == Sparse!TypeOK /\ PagesThere /\ PagesUsed /\ PagesApart /\ GivenApart

(* An index is its page and its offset. *)
LEMMA PageOfIndex ==
  ASSUME SparseSensible, NEW i \in Sparse!Indices
  PROVE  /\ Sparse!PageIndex(i) \in Nat
         /\ i % ItemsPerPage \in 0 .. ItemsPerPage - 1
         /\ i = ItemsPerPage * Sparse!PageIndex(i) + (i % ItemsPerPage)
         /\ Sparse!PageIndex(i) <= Sparse!PageIndex(MaxIndex)
  <1> DEFINE p == i \div ItemsPerPage
             r == i % ItemsPerPage
             last == MaxIndex \div ItemsPerPage
             rest == MaxIndex % ItemsPerPage
  <1>1. /\ ItemsPerPage \in Nat \ {0} /\ i \in Int /\ MaxIndex \in Int
        /\ 0 <= i /\ i <= MaxIndex
    BY SMT DEF SparseSensible, Sparse!Indices
  <1>2. /\ p \in Int /\ r \in 0 .. ItemsPerPage - 1 /\ i = ItemsPerPage * p + r
        /\ last \in Int /\ rest \in 0 .. ItemsPerPage - 1
        /\ MaxIndex = ItemsPerPage * last + rest
    BY <1>1, DivMod
  <1> HIDE DEF p, r, last, rest
  <1>3. p >= 0
    <2>1. CASE p <= -1
      <3>1. ItemsPerPage * p <= -ItemsPerPage
        BY <1>1, <1>2, <2>1, SMT
      <3>2. QED
        BY <1>1, <1>2, <3>1, SMT
    <2>2. QED
      BY <1>2, <2>1, SMT
  <1>4. p <= last
    <2>1. CASE p >= last + 1
      <3>1. ItemsPerPage * p >= ItemsPerPage * last + ItemsPerPage
        BY <1>1, <1>2, <2>1, SMT
      <3>2. QED
        BY <1>1, <1>2, <3>1, SMT
    <2>2. QED
      BY <1>2, <2>1, SMT
  <1>5. p \in Nat
    BY <1>2, <1>3, SMT
  <1>6. QED
    BY <1>2, <1>4, <1>5 DEF Sparse!PageIndex, p, r, last

LEMMA SparseMeans ==
  ASSUME SparseInv
  PROVE  Sparse!Stable
  BY DEF Sparse!Stable, SparseInv, PagesThere, GivenApart

(* Items of pages that are there after a step have pointers of their own. *)
LEMMA ThereApartThen ==
  ASSUME SparseSensible, Sparse!TypeOK', ~ sLost', PagesThere', PagesApart'
  PROVE  GivenApart'
  <1>1. ASSUME NEW i \in Sparse!Indices, NEW j \in Sparse!Indices,
               sGiven'[i] # Null, sGiven'[i] = sGiven'[j]
        PROVE  i = j
    <2> DEFINE a == Sparse!PageIndex(i)
               b == Sparse!PageIndex(j)
    <2>1. /\ a \in DOMAIN sPages' /\ sPages'[a] # Null /\ sGiven'[i] = Sparse!Pointer(sPages'[a], i)
          /\ b \in DOMAIN sPages' /\ sPages'[b] # Null /\ sGiven'[j] = Sparse!Pointer(sPages'[b], j)
      BY <1>1 DEF PagesThere
    <2>2. /\ i = ItemsPerPage * a + (i % ItemsPerPage)
          /\ j = ItemsPerPage * b + (j % ItemsPerPage)
      BY PageOfIndex
    <2> HIDE DEF a, b
    <2>3. sPages'[a] = sPages'[b] /\ i % ItemsPerPage = j % ItemsPerPage
      <3>1. <<sPages'[a], i % ItemsPerPage>> = <<sPages'[b], j % ItemsPerPage>>
        BY <1>1, <2>1 DEF Sparse!Pointer
      <3>2. QED
        BY <3>1
    <2>4. a = b
      BY <2>1, <2>3 DEF PagesApart
    <2>5. QED
      BY <2>2, <2>3, <2>4
  <1>2. QED
    BY <1>1 DEF GivenApart

(* The page pointers a lookup reaches: those there were, and the index's. *)
LEMMA PagesReached ==
  ASSUME SparseSensible, SparseInv, NEW index \in Sparse!Indices
  PROVE  /\ \E n \in 0 .. Sparse!PageCount(MaxIndex) :
              Sparse!Reaching(index) \in [0 .. n - 1 -> Sparse!Blocks \cup {Null}]
         /\ Sparse!PageIndex(index) \in DOMAIN Sparse!Reaching(index)
         /\ DOMAIN sPages \subseteq DOMAIN Sparse!Reaching(index)
         /\ \A p \in DOMAIN Sparse!Reaching(index) :
              Sparse!Reaching(index)[p] = IF p \in DOMAIN sPages THEN sPages[p] ELSE Null
  <1> DEFINE c == Sparse!PageIndex(index)
             last == Sparse!PageIndex(MaxIndex)
  <1>1. PICK n \in 0 .. last + 1 : sPages \in [0 .. n - 1 -> Sparse!Blocks \cup {Null}]
    BY DEF SparseInv, Sparse!TypeOK, Sparse!PageCount
  <1>2. c \in Nat /\ c <= last
    BY PageOfIndex
  <1>3. last \in Nat
    <2>1. MaxIndex \in Sparse!Indices
      BY SMT DEF SparseSensible, Sparse!Indices
    <2>2. QED
      BY <2>1, PageOfIndex
  <1>4. /\ DOMAIN Sparse!Reaching(index) = (0 .. n - 1) \cup (0 .. c)
        /\ \A p \in DOMAIN Sparse!Reaching(index) :
             Sparse!Reaching(index)[p] = IF p \in DOMAIN sPages THEN sPages[p] ELSE Null
        /\ Sparse!Reaching(index) =
             [p \in (0 .. n - 1) \cup (0 .. c) |-> IF p \in DOMAIN sPages THEN sPages[p] ELSE Null]
    <2>1. DOMAIN sPages = 0 .. n - 1 /\ (c + 1) - 1 = c
      BY <1>1, <1>2, SMT
    <2>2. Sparse!Reaching(index) =
             [p \in (0 .. n - 1) \cup (0 .. (c + 1) - 1) |->
                IF p \in DOMAIN sPages THEN sPages[p] ELSE Null]
      BY <2>1 DEF Sparse!Reaching, Sparse!Resized, Sparse!PageCount
    <2>3. QED
      BY <2>1, <2>2
  <1> HIDE DEF c, last
  <1>5. \E m \in 0 .. last + 1 : (0 .. n - 1) \cup (0 .. c) = 0 .. m - 1
    <2>1. CASE n - 1 <= c
      <3>1. c + 1 \in 0 .. last + 1 /\ (0 .. n - 1) \cup (0 .. c) = 0 .. (c + 1) - 1
        BY <1>1, <1>2, <1>3, <2>1, SMT
      <3>2. QED
        BY <3>1
    <2>2. CASE n - 1 > c
      <3>1. (0 .. n - 1) \cup (0 .. c) = 0 .. n - 1
        BY <1>1, <1>2, <1>3, <2>2, SMT
      <3>2. QED
        BY <3>1
    <2>3. QED
      BY <1>1, <1>2, <2>1, <2>2, SMT
  <1>6. Sparse!Reaching(index) \in [(0 .. n - 1) \cup (0 .. c) -> Sparse!Blocks \cup {Null}]
    BY <1>1, <1>4
  <1>7. c \in (0 .. n - 1) \cup (0 .. c) /\ DOMAIN sPages = 0 .. n - 1
    BY <1>1, <1>2, SMT
  <1>8. QED
    BY <1>4, <1>5, <1>6, <1>7 DEF c, last, Sparse!PageCount

(* Where a lookup looks, whether or not it then grows the array. *)
LEMMA GetPtrKeeps ==
  ASSUME SparseSensible, SparseInv, NEW index \in Sparse!Indices, Sparse!GetPtr(index)
  PROVE  SparseInv'
  <1> DEFINE c == Sparse!PageIndex(index)
  <1>1. /\ Sparse!Reaching(index)[c] # Null
        /\ sGiven' = [sGiven EXCEPT ![index] = Sparse!Pointer(Sparse!Reaching(index)[c], index)]
        /\ ~ sLost /\ sPages' = sPages /\ sLost' = sLost /\ sUsed' = sUsed
    BY DEF Sparse!GetPtr
  <1>2. c \in DOMAIN sPages /\ Sparse!Reaching(index)[c] = sPages[c]
    BY <1>1, PagesReached
  <1>3. sPages[c] \in Sparse!Blocks
    BY <1>1, <1>2 DEF SparseInv, Sparse!TypeOK
  <1>4. Sparse!Pointer(sPages[c], index) \in Sparse!Pointers
    BY <1>3, PageOfIndex DEF Sparse!Pointer, Sparse!Pointers
  <1>5. sGiven' \in [Sparse!Indices -> Sparse!Pointers \cup {Null}]
    BY <1>1, <1>2, <1>4 DEF SparseInv, Sparse!TypeOK
  <1>6. PagesThere'
    BY <1>1, <1>2 DEF SparseInv, Sparse!TypeOK, PagesThere
  <1>7. Sparse!TypeOK' /\ PagesUsed' /\ PagesApart'
    BY <1>1, <1>5 DEF SparseInv, Sparse!TypeOK, PagesUsed, PagesApart
  <1>8. QED
    BY <1>1, <1>6, <1>7, ThereApartThen DEF SparseInv

LEMMA GetNoPageKeeps ==
  ASSUME SparseSensible, SparseInv, NEW index \in Sparse!Indices, Sparse!GetNoPage(index)
  PROVE  SparseInv'
  <1>1. /\ sPages' = Sparse!Reaching(index) /\ sLost' = sLost
        /\ sUsed' = sUsed /\ sGiven' = sGiven /\ ~ sLost
    BY DEF Sparse!GetNoPage
  <1>2. /\ DOMAIN sPages \subseteq DOMAIN sPages'
        /\ \A p \in DOMAIN sPages' : sPages'[p] = IF p \in DOMAIN sPages THEN sPages[p] ELSE Null
    BY <1>1, PagesReached
  <1>3. Sparse!TypeOK'
    BY <1>1, PagesReached DEF SparseInv, Sparse!TypeOK
  <1>4. PagesThere'
    BY <1>1, <1>2 DEF SparseInv, PagesThere
  <1>5. PagesUsed' /\ PagesApart'
    BY <1>1, <1>2 DEF SparseInv, PagesUsed, PagesApart
  <1>6. GivenApart'
    BY <1>1 DEF SparseInv, GivenApart
  <1>7. QED
    BY <1>3, <1>4, <1>5, <1>6 DEF SparseInv

LEMMA GetNewPageKeeps ==
  ASSUME SparseSensible, SparseInv, NEW index \in Sparse!Indices, Sparse!GetNewPage(index)
  PROVE  SparseInv'
  <1> DEFINE c == Sparse!PageIndex(index)
             R == Sparse!Reaching(index)
  <1>1. PICK block \in Sparse!Blocks \ sUsed :
          /\ sPages' = [R EXCEPT ![c] = block]
          /\ sUsed' = sUsed \cup {block}
          /\ sGiven' = [sGiven EXCEPT ![index] = Sparse!Pointer(block, index)]
    BY DEF Sparse!GetNewPage
  <1>2. R[c] = Null /\ sLost' = sLost /\ ~ sLost
    BY DEF Sparse!GetNewPage
  <1>3. /\ \E n \in 0 .. Sparse!PageCount(MaxIndex) : R \in [0 .. n - 1 -> Sparse!Blocks \cup {Null}]
        /\ c \in DOMAIN R /\ DOMAIN sPages \subseteq DOMAIN R
        /\ \A p \in DOMAIN R : R[p] = IF p \in DOMAIN sPages THEN sPages[p] ELSE Null
    BY PagesReached
  <1> HIDE DEF R
  <1>4. PICK n \in 0 .. Sparse!PageCount(MaxIndex) : R \in [0 .. n - 1 -> Sparse!Blocks \cup {Null}]
    BY <1>3
  <1>5. /\ sPages' \in [0 .. n - 1 -> Sparse!Blocks \cup {Null}] /\ DOMAIN sPages' = DOMAIN R
        /\ sPages'[c] = block /\ \A p \in DOMAIN R : p # c => sPages'[p] = R[p]
    BY <1>1, <1>3, <1>4
  <1>6. block # Null /\ Sparse!Pointer(block, index) \in Sparse!Pointers
    BY PageOfIndex DEF SparseSensible, Sparse!Pointer, Sparse!Pointers
  <1>7. Sparse!TypeOK'
    <2>1. sGiven' \in [Sparse!Indices -> Sparse!Pointers \cup {Null}]
      BY <1>1, <1>6 DEF SparseInv, Sparse!TypeOK
    <2>2. sUsed' \subseteq Sparse!Blocks /\ sLost' \in BOOLEAN
      BY <1>1, <1>2 DEF SparseInv, Sparse!TypeOK
    <2>3. QED
      BY <1>5, <2>1, <2>2 DEF Sparse!TypeOK
  <1>8. PagesThere'
    <2> SUFFICES ASSUME NEW i \in Sparse!Indices, sGiven'[i] # Null
                 PROVE  /\ Sparse!PageIndex(i) \in DOMAIN sPages'
                        /\ sPages'[Sparse!PageIndex(i)] # Null
                        /\ sGiven'[i] = Sparse!Pointer(sPages'[Sparse!PageIndex(i)], i)
      BY DEF PagesThere
    <2>1. CASE i = index
      BY <1>1, <1>3, <1>5, <1>6, <2>1 DEF SparseInv, Sparse!TypeOK
    <2>2. CASE i # index
      <3>1. sGiven'[i] = sGiven[i]
        BY <1>1, <2>2 DEF SparseInv, Sparse!TypeOK
      <3>2. /\ Sparse!PageIndex(i) \in DOMAIN sPages /\ sPages[Sparse!PageIndex(i)] # Null
            /\ sGiven[i] = Sparse!Pointer(sPages[Sparse!PageIndex(i)], i)
        BY <1>2, <3>1 DEF SparseInv, PagesThere
      <3>3. Sparse!PageIndex(i) # c
        BY <1>2, <1>3, <3>2
      <3>4. QED
        BY <1>3, <1>5, <3>1, <3>2, <3>3
    <2>3. QED
      BY <2>1, <2>2
  <1>9. PagesUsed'
    BY <1>1, <1>3, <1>5 DEF SparseInv, PagesUsed
  <1>10. PagesApart'
    <2>1. \A p \in DOMAIN R : p # c /\ sPages'[p] # Null => p \in DOMAIN sPages /\ sPages'[p] = sPages[p]
      BY <1>3, <1>5
    <2>2. \A p \in DOMAIN R : p # c /\ sPages'[p] # Null => sPages'[p] # block
      BY <2>1 DEF SparseInv, PagesUsed
    <2>3. QED
      BY <1>5, <1>6, <2>1, <2>2 DEF SparseInv, PagesApart
  <1>11. GivenApart'
    BY <1>2, <1>7, <1>8, <1>10, ThereApartThen
  <1>12. QED
    BY <1>7, <1>8, <1>9, <1>10, <1>11 DEF SparseInv

(* No pages, for a start and after ms_sparray_destroy. *)
LEMMA NoPages ==
  ASSUME SparseSensible, NEW none, none = [p \in {} |-> Null]
  PROVE  /\ DOMAIN none = {}
         /\ \E n \in 0 .. Sparse!PageCount(MaxIndex) :
              none \in [0 .. n - 1 -> Sparse!Blocks \cup {Null}]
  <1>1. DOMAIN none = {}
    OBVIOUS
  <1>2. none \in [0 .. 0 - 1 -> Sparse!Blocks \cup {Null}]
    <2>1. 0 .. 0 - 1 = {}
      BY SMT
    <2>2. none \in [{} -> Sparse!Blocks \cup {Null}]
      OBVIOUS
    <2>3. QED
      BY <2>1, <2>2
  <1>3. 0 \in 0 .. Sparse!PageCount(MaxIndex)
    <2>1. MaxIndex \in Sparse!Indices
      BY SMT DEF SparseSensible, Sparse!Indices
    <2>2. Sparse!PageIndex(MaxIndex) \in Nat
      BY <2>1, PageOfIndex
    <2>3. QED
      BY <2>2, SMT DEF Sparse!PageCount
  <1>4. QED
    BY <1>1, <1>2, <1>3

LEMMA SparseStepKeeps ==
  ASSUME SparseSensible
  PROVE  SparseInv /\ [Sparse!Next]_Sparse!vars => SparseInv'
  <1> SUFFICES ASSUME SparseInv, [Sparse!Next]_Sparse!vars PROVE SparseInv'
    OBVIOUS
  <1>1. ASSUME NEW index \in Sparse!Indices, Sparse!GetPtr(index) PROVE SparseInv'
    BY <1>1, GetPtrKeeps
  <1>2. ASSUME NEW index \in Sparse!Indices, Sparse!GetNewPage(index) PROVE SparseInv'
    BY <1>2, GetNewPageKeeps
  <1>3. ASSUME NEW index \in Sparse!Indices, Sparse!GetNoPage(index) PROVE SparseInv'
    BY <1>3, GetNoPageKeeps
  <1>4. ASSUME NEW index \in Sparse!Indices, Sparse!GetNoGrowth(index) PROVE SparseInv'
    <2>1. /\ ~ sLost /\ sPages' = [p \in {} |-> Null] /\ sUsed' = sUsed /\ sGiven' = sGiven
          /\ sLost' = (DOMAIN sPages # {})
      BY <1>4 DEF Sparse!GetNoGrowth
    <2>2. Sparse!TypeOK'
      <3>1. sLost' \in BOOLEAN
        BY <2>1, Zenon
      <3>2. QED
        BY <2>1, <3>1, NoPages DEF SparseInv, Sparse!TypeOK
    <2>3. PagesUsed' /\ PagesApart' /\ GivenApart'
      BY <2>1, NoPages DEF SparseInv, PagesUsed, PagesApart, GivenApart
    <2>4. PagesThere'
      <3>1. SUFFICES ASSUME ~ sLost', NEW i \in Sparse!Indices, sGiven[i] # Null
                     PROVE  FALSE
        BY <2>1, Zenon DEF PagesThere
      <3>2. DOMAIN sPages = {}
        BY <2>1, <3>1, Zenon
      <3>3. QED
        BY <2>1, <3>1, <3>2, Zenon DEF SparseInv, PagesThere
    <2>5. QED
      BY <2>2, <2>3, <2>4 DEF SparseInv
  <1>5. CASE Sparse!Destroy
    <2>1. /\ sPages' = [p \in {} |-> Null] /\ sUsed' = {}
          /\ sGiven' = [i \in Sparse!Indices |-> Null] /\ sLost' \in BOOLEAN
      BY <1>5 DEF Sparse!Destroy, SparseInv, Sparse!TypeOK
    <2>2. QED
      BY <2>1, NoPages
      DEF SparseInv, Sparse!TypeOK, PagesThere, PagesUsed, PagesApart, GivenApart
  <1>6. CASE UNCHANGED Sparse!vars
    BY <1>6
    DEF Sparse!vars, SparseInv, Sparse!TypeOK, PagesThere, PagesUsed, PagesApart, GivenApart
  <1>7. QED
    BY <1>1, <1>2, <1>3, <1>4, <1>5, <1>6 DEF Sparse!Next

(***************************************************************************)
(* For every page size and every range of indices: the pointers            *)
(* ms_sparray_get_ptr gave stay those of their items, whatever comes after *)
(* and whatever page cannot be allocated, until the page pointers are lost *)
(* in a growth that fails; and no two items ever share one.                *)
(***************************************************************************)
THEOREM SparseAgreement ==
  ASSUME SparseSensible
  PROVE  Sparse!Spec => []SparseStable
  <1>1. Sparse!Init => SparseInv
    BY NoPages
    DEF Sparse!Init, SparseInv, Sparse!TypeOK, PagesThere, PagesUsed, PagesApart, GivenApart
  <1>2. SparseInv => SparseStable
    BY SparseMeans DEF SparseInv, SparseStable
  <1>3. QED
    BY <1>1, <1>2, SparseStepKeeps, PTL DEF Sparse!Spec

-----------------------------------------------------------------------------
(* ms_parray.  The pages before the last are full, so that a page's place  *)
(* in the chain says how many items come before its own.                   *)
Before(p) == (p - 1) * PageCapacity

Paging(pages, list) ==
  /\ \A p \in 1 .. Len(pages) : Len(pages[p]) <= PageCapacity
  /\ \A p \in 1 .. Len(pages) : p # Len(pages) => Len(pages[p]) = PageCapacity
  /\ pages = << >> => list = << >>
  /\ pages # << >> => Len(list) = Before(Len(pages)) + Len(pages[Len(pages)])
  /\ \A p \in 1 .. Len(pages) : \A o \in 1 .. Len(pages[p]) :
       pages[p][o] = list[Before(p) + o]

PagedInv == Paged!TypeOK /\ Paging(gPages, gList)

LEMMA BeforeSteps ==
  ASSUME PagedSensible, NEW p \in Nat \ {0}
  PROVE  /\ Before(1) = 0 /\ Before(p) \in Nat
         /\ Before(p + 1) = Before(p) + PageCapacity
  <1>1. PageCapacity \in Nat \ {0} /\ p - 1 \in Nat
    BY DEF PagedSensible
  <1>2. (p - 1) * PageCapacity \in Nat
    BY <1>1
  <1>3. p * PageCapacity = (p - 1) * PageCapacity + PageCapacity
    BY <1>1
  <1>4. (p + 1) - 1 = p /\ (1 - 1) * PageCapacity = 0
    BY <1>1
  <1>5. QED
    BY <1>2, <1>3, <1>4 DEF Before

LEMMA BeforeApart ==
  ASSUME PagedSensible, NEW p \in Nat \ {0}, NEW q \in Nat \ {0}, p < q
  PROVE  Before(p) + PageCapacity <= Before(q)
  <1>1. PageCapacity \in Nat \ {0} /\ p \in Int /\ q - 1 \in Int /\ p <= q - 1
    BY DEF PagedSensible
  <1>2. p * PageCapacity <= (q - 1) * PageCapacity
    BY <1>1
  <1>3. p * PageCapacity = (p - 1) * PageCapacity + PageCapacity
    BY <1>1
  <1>4. QED
    BY <1>2, <1>3 DEF Before

(* Places in the pages, and their indices: one for the other. *)
LEMMA PlacesApart ==
  ASSUME PagedSensible, NEW p \in Nat \ {0}, NEW q \in Nat \ {0},
         NEW o \in 1 .. PageCapacity, NEW i \in 1 .. PageCapacity,
         Before(p) + o = Before(q) + i
  PROVE  p = q /\ o = i
  <1>1. /\ PageCapacity \in Nat \ {0}
        /\ Before(p) \in Nat /\ Before(q) \in Nat
    BY BeforeSteps DEF PagedSensible
  <1>2. ~ (p < q)
    BY <1>1, BeforeApart
  <1>3. ~ (q < p)
    BY <1>1, BeforeApart
  <1>4. p = q
    BY <1>2, <1>3
  <1>5. QED
    BY <1>1, <1>4

(* What the pages hold up to one of them is within the list. *)
LEMMA UpToWithin ==
  ASSUME PagedSensible, PagedInv, NEW p \in 1 .. Len(gPages)
  PROVE  Before(p) \in Nat /\ Before(p) + Len(gPages[p]) \in 0 .. Len(gList)
  <1> DEFINE m == Len(gPages)
  <1>1. /\ gPages \in Seq(Seq(Vals)) /\ gList \in Seq(Vals) /\ m \in Nat \ {0}
        /\ PageCapacity \in Nat \ {0}
        /\ gPages[p] \in Seq(Vals) /\ Len(gPages[p]) \in Nat
    BY DEF PagedInv, Paged!TypeOK, PagedSensible
  <1>2. Before(p) \in Nat /\ Before(m) \in Nat
    <2>1. p \in Nat \ {0}
      BY <1>1
    <2> HIDE DEF m
    <2>2. QED
      BY <1>1, <2>1, BeforeSteps
  <1>3. Len(gList) = Before(m) + Len(gPages[m]) /\ Len(gPages[m]) \in Nat
    BY <1>1 DEF PagedInv, Paging
  <1>4. CASE p = m
    BY <1>1, <1>2, <1>3, <1>4
  <1>5. CASE p # m
    <2>1. Len(gPages[p]) = PageCapacity
      BY <1>5 DEF PagedInv, Paging
    <2>2. Before(p) + PageCapacity <= Before(m)
      BY <1>1, <1>5, BeforeApart
    <2>3. QED
      BY <1>1, <1>2, <1>3, <2>1, <2>2
  <1>6. QED
    BY <1>4, <1>5

(* An index within bounds is one of a place in the pages. *)
LEMMA IndexHasPlace ==
  ASSUME PagedSensible, PagedInv, NEW index \in Nat, index < Len(gList)
  PROVE  /\ Paged!PageOf(index) \in 1 .. Len(gPages)
         /\ Paged!OffsetIn(index) \in 1 .. Len(gPages[Paged!PageOf(index)])
         /\ Before(Paged!PageOf(index)) + Paged!OffsetIn(index) = index + 1
  <1> DEFINE q == index \div PageCapacity
             r == index % PageCapacity
             m == Len(gPages)
  <1>1. q \in Int /\ r \in 0 .. PageCapacity - 1 /\ index = PageCapacity * q + r
        /\ PageCapacity \in Nat \ {0}
    BY DivMod DEF PagedSensible
  <1>2. Paged!PageOf(index) = q + 1 /\ Paged!OffsetIn(index) = r + 1
    BY DEF Paged!PageOf, Paged!OffsetIn
  <1> HIDE DEF q, r
  <1>3. q \in Nat
    <2>1. ASSUME q <= -1 PROVE FALSE
      <3>1. PageCapacity * q <= PageCapacity * (-1)
        BY <1>1, <2>1
      <3>2. PageCapacity * (-1) = - PageCapacity /\ PageCapacity * q \in Int
        BY <1>1
      <3>3. QED
        BY <1>1, <3>1, <3>2
    <2>2. QED
      BY <1>1, <2>1
  <1>4. Before(q + 1) = PageCapacity * q
    BY <1>1, <1>3 DEF Before
  <1>5. /\ gPages \in Seq(Seq(Vals)) /\ gList \in Seq(Vals) /\ gPages # << >>
        /\ m \in Nat \ {0}
        /\ Len(gList) = Before(m) + Len(gPages[m])
        /\ Len(gPages[m]) \in 0 .. PageCapacity
    BY DEF PagedInv, Paged!TypeOK, Paging
  <1>6. Before(m) \in Nat /\ Before(q + 1) \in Nat
    <2>1. q + 1 \in Nat \ {0}
      BY <1>3
    <2> HIDE DEF m
    <2>2. QED
      BY <1>5, <2>1, BeforeSteps
  <1>7. q + 1 <= m
    <2>1. ASSUME m < q + 1 PROVE FALSE
      <3>1. Before(m) + PageCapacity <= Before(q + 1)
        BY <1>3, <1>5, <2>1, BeforeApart
      <3>2. QED
        BY <1>1, <1>4, <1>5, <1>6, <3>1
    <2>2. QED
      BY <1>3, <1>5, <2>1
  <1>8. r + 1 <= Len(gPages[q + 1])
    <2>1. CASE q + 1 = m
      BY <1>1, <1>4, <1>5, <1>6, <2>1
    <2>2. CASE q + 1 # m
      BY <1>1, <1>3, <1>5, <1>7, <2>2 DEF PagedInv, Paging
    <2>3. QED
      BY <2>1, <2>2
  <1>9. Len(gPages[q + 1]) \in Nat
    BY <1>3, <1>5, <1>7
  <1>10. q + 1 \in 1 .. m /\ r + 1 \in 1 .. Len(gPages[q + 1])
    BY <1>1, <1>3, <1>5, <1>7, <1>8, <1>9
  <1>11. Before(q + 1) + (r + 1) = index + 1
    BY <1>1, <1>3, <1>4
  <1>12. QED
    BY <1>2, <1>10, <1>11

(***************************************************************************)
(* A walk over the pages meets the items in order.  What it has met after  *)
(* p pages is the list up to there: the recursion of FlattenSeq has that   *)
(* for its only solution.                                                  *)
(***************************************************************************)
LEMMA WalkIsList ==
  ASSUME PagedSensible, PagedInv
  PROVE  Paged!Walk = gList
  <1> DEFINE m == Len(gPages)
             upTo(p) == Before(p) + Len(gPages[p])
             step(f) == [i \in 1 .. m |-> IF i = 1 THEN gPages[i] ELSE f[i - 1] \o gPages[i]]
             met == [p \in 1 .. m |-> SubSeq(gList, 1, upTo(p))]
             walked == CHOOSE f : f = step(f)
  <1>1. /\ gPages \in Seq(Seq(Vals)) /\ gList \in Seq(Vals) /\ m \in Nat
        /\ PageCapacity \in Nat \ {0}
        /\ \A p \in 1 .. m : gPages[p] \in Seq(Vals) /\ Len(gPages[p]) \in Nat
    BY DEF PagedInv, Paged!TypeOK, PagedSensible
  <1>2. CASE gPages = << >>
    <2>1. Len(gPages) = 0 /\ gList = << >>
      BY <1>2 DEF PagedInv, Paging
    <2>2. QED
      BY <1>2, <2>1 DEF Paged!Walk, Paged!FlattenSeq
  <1>3. CASE gPages # << >>
    <2>1. m \in Nat \ {0} /\ Len(gList) = upTo(m)
      BY <1>1, <1>3 DEF PagedInv, Paging
    <2>2. \A p \in 1 .. m : Before(p) \in Nat /\ upTo(p) \in 0 .. Len(gList)
      BY UpToWithin
    <2>3. met = step(met)
      <3>1. gPages[1] = SubSeq(gList, 1, upTo(1))
        <4> DEFINE s == SubSeq(gList, 1, upTo(1))
        <4>1. 1 \in 1 .. m /\ upTo(1) = Len(gPages[1]) /\ upTo(1) \in 0 .. Len(gList)
          <5>1. Before(1) = 0 /\ 1 \in 1 .. m
            BY <2>1, BeforeSteps
          <5>2. QED
            BY <1>1, <2>2, <5>1
        <4>2. s \in Seq(Vals) /\ Len(s) = Len(gPages[1])
              /\ \A o \in 1 .. Len(s) : s[o] = gList[o]
          BY <1>1, <4>1
        <4>3. \A o \in 1 .. Len(gPages[1]) : gPages[1][o] = gList[o]
          <5> SUFFICES ASSUME NEW o \in 1 .. Len(gPages[1]) PROVE gPages[1][o] = gList[o]
            OBVIOUS
          <5>1. gPages[1][o] = gList[Before(1) + o]
            BY <4>1 DEF PagedInv, Paging
          <5>2. Before(1) = 0 /\ 0 + o = o
            BY <2>1, BeforeSteps
          <5>3. QED
            BY <5>1, <5>2
        <4> HIDE DEF s
        <4>4. s = gPages[1]
          BY <1>1, <4>1, <4>2, <4>3, SeqEqual
        <4>5. QED
          BY <4>4 DEF s
      <3>2. ASSUME NEW p \in 1 .. m, p # 1
            PROVE  SubSeq(gList, 1, upTo(p)) = SubSeq(gList, 1, upTo(p - 1)) \o gPages[p]
        <4> DEFINE s == SubSeq(gList, 1, upTo(p))
                   u == SubSeq(gList, 1, Before(p))
        <4>1. p - 1 \in 1 .. m /\ p - 1 \in Nat \ {0} /\ p - 1 # m /\ (p - 1) + 1 = p
          BY <2>1, <3>2
        <4>2. upTo(p - 1) = Before(p)
          BY <4>1, BeforeSteps DEF PagedInv, Paging
        <4>3. Before(p) \in Nat /\ upTo(p) \in 0 .. Len(gList) /\ Len(gPages[p]) \in Nat
              /\ upTo(p) = Before(p) + Len(gPages[p])
          BY <1>1, <2>2
        <4>4. /\ s \in Seq(Vals) /\ Len(s) = upTo(p)
              /\ \A k \in 1 .. Len(s) : s[k] = gList[k]
          <5> DEFINE e == upTo(p)
          <5>1. gList \in Seq(Vals) /\ e \in 0 .. Len(gList)
            BY <1>1, <4>3
          <5> HIDE DEF e
          <5>2. QED
            BY <5>1, UpTo DEF e
        <4>5. /\ u \in Seq(Vals) /\ Len(u) = Before(p)
              /\ \A k \in 1 .. Len(u) : u[k] = gList[k]
          <5> DEFINE e == Before(p)
          <5>1. gList \in Seq(Vals) /\ e \in 0 .. Len(gList)
            BY <1>1, <4>3
          <5> HIDE DEF e
          <5>2. QED
            BY <5>1, UpTo DEF e
        <4>6. \A o \in 1 .. Len(gPages[p]) : gPages[p][o] = gList[Before(p) + o]
          BY DEF PagedInv, Paging
        <4> HIDE DEF s, u, upTo
        <4>7. gPages[p] \in Seq(Vals)
          BY <1>1
        <4>8. /\ u \o gPages[p] \in Seq(Vals) /\ Len(u \o gPages[p]) = Len(s)
              /\ \A k \in 1 .. Len(s) : s[k] = (u \o gPages[p])[k]
          <5> DEFINE b == Before(p)
                     c == gPages[p]
                     w == u \o c
          <5>1. b \in Nat /\ Len(c) \in Nat /\ Len(s) = b + Len(c) /\ Len(u) = b
            BY <4>3, <4>4, <4>5
          <5>2. /\ w \in Seq(Vals) /\ Len(w) = b + Len(c)
                /\ \A k \in 1 .. b + Len(c) : w[k] = IF k <= b THEN u[k] ELSE c[k - b]
            <6>1. u \in Seq(Vals) /\ c \in Seq(Vals)
              BY <4>5, <4>7
            <6> HIDE DEF c
            <6>2. /\ w \in Seq(Vals) /\ Len(w) = Len(u) + Len(c)
                  /\ \A k \in 1 .. Len(u) + Len(c) :
                       w[k] = IF k <= Len(u) THEN u[k] ELSE c[k - Len(u)]
              BY <6>1, ConcatProperties
            <6> HIDE DEF w, b
            <6>3. QED
              BY <5>1, <6>2
          <5>3. ASSUME NEW k \in 1 .. Len(s) PROVE s[k] = w[k]
            <6> HIDE DEF w
            <6>1. s[k] = gList[k]
              BY <4>4
            <6>2. CASE k <= b
              BY <4>5, <5>1, <5>2, <6>1, <6>2
            <6>3. CASE k > b
              <7>1. k - b \in 1 .. Len(c) /\ b + (k - b) = k
                BY <5>1, <6>3
              <7>2. c[k - b] = gList[k]
                BY <4>6, <7>1
              <7>3. QED
                BY <5>1, <5>2, <6>1, <6>3, <7>2
            <6> HIDE DEF b
            <6>4. QED
              BY <5>1, <6>2, <6>3
          <5>4. QED
            BY <5>1, <5>2, <5>3
        <4>9. s = u \o gPages[p]
          BY <4>4, <4>8, SeqEqual
        <4> USE DEF upTo
        <4>10. QED
          BY <4>2, <4>9 DEF s, u
      <3> HIDE DEF upTo
      <3>3. \A p \in 1 .. m : met[p] = step(met)[p]
        <4> SUFFICES ASSUME NEW p \in 1 .. m PROVE met[p] = step(met)[p]
          OBVIOUS
        <4>1. CASE p = 1
          BY <3>1, <4>1
        <4>2. CASE p # 1
          <5>1. p - 1 \in 1 .. m
            BY <2>1, <4>2
          <5>2. QED
            BY <3>2, <4>2, <5>1
        <4>3. QED
          BY <4>1, <4>2
      <3>4. QED
        BY <3>3
    <2> HIDE DEF met
    <2>4. walked = step(walked)
      BY <2>3
    <2> HIDE DEF walked
    <2>5. \A p \in 1 .. m : walked[p] = met[p]
      <3> DEFINE T == {p \in 1 .. m : walked[p] # met[p]}
      <3> SUFFICES ASSUME T # {} PROVE FALSE
        OBVIOUS
      <3>1. PICK p \in T : \A q \in T : p <= q
        <4>1. T \subseteq Nat
          BY <2>1
        <4> HIDE DEF T
        <4>2. QED
          BY <4>1, HasMinimum
      <3>2. p \in 1 .. m /\ walked[p] # met[p]
        BY <3>1
      <3>3. walked[p] = step(walked)[p] /\ met[p] = step(met)[p]
        BY <2>3, <2>4
      <3>4. CASE p = 1
        BY <3>2, <3>3, <3>4
      <3>5. CASE p # 1
        <4>1. p - 1 \in 1 .. m /\ p - 1 \notin T
          BY <2>1, <3>1, <3>2, <3>5
        <4>2. walked[p - 1] = met[p - 1]
          BY <4>1
        <4>3. QED
          BY <3>2, <3>3, <3>5, <4>2
      <3>6. QED
        BY <3>4, <3>5
    <2>6. Paged!Walk = walked[m]
      BY <2>1 DEF walked, Paged!Walk, Paged!FlattenSeq
    <2>7. walked[m] = SubSeq(gList, 1, Len(gList))
      BY <2>1, <2>5 DEF met
    <2>8. SubSeq(gList, 1, Len(gList)) = gList
      BY <1>1
    <2>9. QED
      BY <2>6, <2>7, <2>8
  <1>4. QED
    BY <1>2, <1>3

(* The bound check of ms_parray_get_ptr. *)
LEMMA TotalIsLength ==
  ASSUME PagedInv
  PROVE  Paged!Total = Len(gList)
  <1>1. CASE gPages = << >>
    BY <1>1 DEF PagedInv, Paging, Paged!Total
  <1>2. CASE gPages # << >>
    BY <1>2 DEF PagedInv, Paging, Paged!Total, Paged!Last, Before
  <1>3. QED
    BY <1>1, <1>2

(* ms_parray_append into the last page. *)
LEMMA Append1Keeps ==
  ASSUME PagedSensible, PagedInv, NEW val \in Vals, Paged!Append1(val)
  PROVE  PagedInv'
  <1> DEFINE m == Len(gPages)
             n == Len(gPages[m])
             last == Append(gPages[m], val)
  <1>1. /\ gPages \in Seq(Seq(Vals)) /\ gList \in Seq(Vals) /\ m \in Nat \ {0}
        /\ n < PageCapacity
        /\ gPages' = [gPages EXCEPT ![m] = last]
        /\ gList' = Append(gList, val)
    BY DEF PagedInv, Paged!TypeOK, Paged!Append1, Paged!HasRoom, Paged!Last
  <1>2. /\ gPages[m] \in Seq(Vals) /\ n \in Nat /\ PageCapacity \in Nat
        /\ m \in Nat \ {0} /\ n < PageCapacity
        /\ Len(gList) = Before(m) + n
        /\ Before(m) \in Nat
    <2>1. m \in 1 .. m /\ gPages # << >>
      BY <1>1
    <2>2. gPages[m] \in Seq(Vals) /\ n \in Nat /\ PageCapacity \in Nat
      BY <1>1, <2>1 DEF PagedSensible
    <2>3. Len(gList) = Before(m) + n
      BY <2>1 DEF PagedInv, Paging
    <2>4. Before(m) \in Nat
      BY <2>1, UpToWithin
    <2>5. QED
      BY <1>1, <2>2, <2>3, <2>4
  <1>3. /\ last \in Seq(Vals) /\ Len(last) = n + 1 /\ last[n + 1] = val
        /\ \A o \in 1 .. n : last[o] = gPages[m][o]
    BY <1>2
  <1> HIDE DEF last
  <1>4. /\ Len(gPages') = m /\ gPages'[m] = last
        /\ \A p \in 1 .. m : p # m => gPages'[p] = gPages[p]
    BY <1>1
  <1>5. Paged!TypeOK'
    BY <1>1, <1>3 DEF Paged!TypeOK
  <1>6. /\ Len(gList') = Len(gList) + 1 /\ gList'[Len(gList) + 1] = val
        /\ \A k \in 1 .. Len(gList) : gList'[k] = gList[k]
    BY <1>1
  <1>7. ASSUME NEW p \in 1 .. m, NEW o \in 1 .. Len(gPages[p])
        PROVE  gPages[p][o] = gList'[Before(p) + o]
    <2>1. gPages[p][o] = gList[Before(p) + o]
      BY DEF PagedInv, Paging
    <2>2. Before(p) + o \in 1 .. Len(gList)
      <3> DEFINE before == Before(p)
                 held == Len(gPages[p])
                 total == Len(gList)
      <3>1. /\ before \in Nat /\ before + held \in 0 .. total
            /\ held \in Nat /\ total \in Nat /\ o \in 1 .. held
        BY <1>1, UpToWithin
      <3> HIDE DEF before, held, total
      <3>2. before + o \in 1 .. total
        BY <3>1
      <3>3. QED
        BY <3>2 DEF before, total
    <2>3. QED
      BY <1>6, <2>1, <2>2
  <1>8. ASSUME NEW p \in 1 .. m, NEW o \in 1 .. Len(gPages'[p])
        PROVE  gPages'[p][o] = gList'[Before(p) + o]
    <2>1. CASE p # m
      BY <1>4, <1>7, <2>1
    <2>2. CASE p = m /\ o \in 1 .. n
      BY <1>3, <1>4, <1>7, <2>2
    <2>3. CASE p = m /\ o = n + 1
      BY <1>2, <1>3, <1>4, <1>6, <2>3
    <2>4. o \in 1 .. n \/ o = n + 1 \/ p # m
      BY <1>2, <1>3, <1>4
    <2>5. QED
      BY <2>1, <2>2, <2>3, <2>4
  <1>9. /\ \A p \in 1 .. m : Len(gPages'[p]) <= PageCapacity
        /\ \A p \in 1 .. m : p # m => Len(gPages'[p]) = PageCapacity
    <2>1. Len(gPages'[m]) <= PageCapacity
      <3> HIDE DEF m, n
      <3>1. Len(gPages'[m]) = n + 1
        BY <1>3, <1>4
      <3>2. QED
        BY <1>2, <3>1
    <2>2. \A p \in 1 .. m : p # m => gPages'[p] = gPages[p]
      BY <1>4
    <2>3. QED
      BY <2>1, <2>2 DEF PagedInv, Paging
  <1>10. gPages' # << >> /\ Len(gList') = Before(m) + Len(gPages'[m])
    <2> HIDE DEF m, n
    <2>1. Len(gPages') # 0 /\ Len(gPages'[m]) = n + 1 /\ Len(gList') = Len(gList) + 1
      BY <1>2, <1>3, <1>4, <1>6
    <2>2. gPages' # << >>
      BY <2>1
    <2>3. QED
      BY <1>2, <2>1, <2>2
  <1>11. Paging(gPages', gList')
    BY <1>4, <1>8, <1>9, <1>10 DEF Paging
  <1>12. QED
    BY <1>5, <1>11 DEF PagedInv

(***************************************************************************)
(* ms_parray_append_page, and ms_parray_append that calls it first: the    *)
(* page that was the last one is full.                                     *)
(***************************************************************************)
LEMMA NewPageKeeps ==
  ASSUME PagedSensible, PagedInv, ~ Paged!HasRoom, NEW page \in Seq(Vals),
         Len(page) \in {0, 1},
         gPages' = Append(gPages, page), gList' = gList \o page
  PROVE  PagedInv'
  <1> DEFINE m == Len(gPages)
  <1>1. /\ gPages \in Seq(Seq(Vals)) /\ gList \in Seq(Vals) /\ m \in Nat
        /\ PageCapacity \in Nat \ {0} /\ Len(gList) \in Nat
        /\ \A p \in 1 .. m : gPages[p] \in Seq(Vals) /\ Len(gPages[p]) \in Nat
    BY DEF PagedInv, Paged!TypeOK, PagedSensible
  <1>2. /\ Len(gPages') = m + 1 /\ gPages'[m + 1] = page
        /\ \A p \in 1 .. m : gPages'[p] = gPages[p]
    BY <1>1
  <1>3. \A p \in 1 .. m : Len(gPages[p]) = PageCapacity
    <2> SUFFICES ASSUME NEW p \in 1 .. m PROVE Len(gPages[p]) = PageCapacity
      OBVIOUS
    <2>1. CASE p # m
      BY <2>1 DEF PagedInv, Paging
    <2>2. CASE p = m
      <3>1. gPages # << >> /\ Len(gPages[m]) <= PageCapacity
        BY <1>1, <2>2 DEF PagedInv, Paging
      <3>2. ~ (Len(gPages[m]) < PageCapacity)
        BY <3>1 DEF Paged!HasRoom, Paged!Last
      <3>3. QED
        BY <1>1, <2>2, <3>1, <3>2
    <2>3. QED
      BY <2>1, <2>2
  <1>4. Len(gList) = Before(m + 1)
    <2>1. CASE m = 0
      <3>1. gPages = << >>
        BY <1>1, <2>1
      <3>2. gList = << >> /\ Before(1) = 0
        BY <3>1, BeforeSteps DEF PagedInv, Paging
      <3>3. QED
        BY <2>1, <3>2
    <2>2. CASE m # 0
      <3>1. m \in Nat \ {0} /\ m \in 1 .. m /\ gPages # << >>
        BY <1>1, <2>2
      <3>2. Len(gList) = Before(m) + PageCapacity
        BY <1>3, <3>1 DEF PagedInv, Paging
      <3>3. QED
        BY <3>1, <3>2, BeforeSteps
    <2>3. QED
      BY <2>1, <2>2
  <1>5. /\ gList' \in Seq(Vals) /\ Len(gList') = Len(gList) + Len(page)
        /\ \A k \in 1 .. Len(gList) : gList'[k] = gList[k]
        /\ \A o \in 1 .. Len(page) : gList'[Len(gList) + o] = page[o]
    <2> DEFINE w == gList \o page
    <2>1. /\ w \in Seq(Vals) /\ Len(w) = Len(gList) + Len(page)
          /\ \A i \in 1 .. Len(gList) + Len(page) :
               w[i] = IF i <= Len(gList) THEN gList[i] ELSE page[i - Len(gList)]
      BY <1>1, ConcatProperties
    <2>2. gList' = w
      OBVIOUS
    <2> HIDE DEF w
    <2>3. ASSUME NEW k \in 1 .. Len(gList) PROVE w[k] = gList[k]
      <3>1. k \in 1 .. Len(gList) + Len(page) /\ k <= Len(gList)
        BY <1>1
      <3>2. QED
        BY <2>1, <3>1
    <2>4. ASSUME NEW o \in 1 .. Len(page) PROVE w[Len(gList) + o] = page[o]
      <3>1. /\ Len(gList) + o \in 1 .. Len(gList) + Len(page)
            /\ ~ (Len(gList) + o <= Len(gList))
            /\ (Len(gList) + o) - Len(gList) = o
        BY <1>1
      <3>2. QED
        BY <2>1, <3>1
    <2>5. QED
      BY <2>1, <2>2, <2>3, <2>4
  <1>6. Paged!TypeOK'
    BY <1>1, <1>5 DEF Paged!TypeOK
  <1>7. ASSUME NEW p \in 1 .. m + 1, NEW o \in 1 .. Len(gPages'[p])
        PROVE  gPages'[p][o] = gList'[Before(p) + o]
    <2>1. CASE p = m + 1
      BY <1>2, <1>4, <1>5, <2>1
    <2>2. CASE p # m + 1
      <3>1. p \in 1 .. m /\ gPages'[p] = gPages[p]
        BY <1>1, <1>2, <2>2
      <3>2. gPages[p][o] = gList[Before(p) + o]
        BY <3>1 DEF PagedInv, Paging
      <3>3. Before(p) \in Nat /\ Before(p) + Len(gPages[p]) \in 0 .. Len(gList)
        BY <3>1, UpToWithin
      <3>4. Before(p) + o \in 1 .. Len(gList)
        <4>1. o \in 1 .. Len(gPages[p]) /\ Len(gPages[p]) \in Nat
          BY <1>1, <3>1
        <4> DEFINE b == Before(p)
                   n == Len(gPages[p])
                   length == Len(gList)
        <4>2. b \in Nat /\ n \in Nat /\ length \in Nat /\ b + n \in 0 .. length /\ o \in 1 .. n
          BY <1>1, <3>3, <4>1
        <4> HIDE DEF b, n, length
        <4>3. b + o \in 1 .. length
          BY <4>2
        <4>4. QED
          BY <4>3 DEF b, length
      <3>5. QED
        BY <1>5, <3>1, <3>2, <3>4
    <2>3. QED
      BY <2>1, <2>2
  <1>8. \A p \in 1 .. m + 1 : /\ Len(gPages'[p]) <= PageCapacity
                              /\ p # m + 1 => Len(gPages'[p]) = PageCapacity
    <2> SUFFICES ASSUME NEW p \in 1 .. m + 1
                 PROVE  /\ Len(gPages'[p]) <= PageCapacity
                        /\ p # m + 1 => Len(gPages'[p]) = PageCapacity
      OBVIOUS
    <2>1. CASE p = m + 1
      <3>1. gPages'[p] = page
        BY <1>2, <2>1
      <3>2. Len(page) <= PageCapacity
        <4>1. PageCapacity \in Nat \ {0}
          BY DEF PagedSensible
        <4>2. Len(page) = 0 \/ Len(page) = 1
          OBVIOUS
        <4>3. QED
          BY <4>1, <4>2
      <3>3. QED
        BY <2>1, <3>1, <3>2
    <2>2. CASE p # m + 1
      <3>1. p \in 1 .. m
        BY <1>1, <2>2
      <3>2. QED
        BY <1>1, <1>2, <1>3, <3>1
    <2>3. QED
      BY <2>1, <2>2
  <1>9. gPages' # << >> /\ Len(gList') = Before(m + 1) + Len(gPages'[m + 1])
    <2>1. Len(gPages') # 0
      BY <1>1, <1>2
    <2> HIDE DEF m
    <2>2. gPages' # << >> /\ gPages'[m + 1] = page
      BY <1>2, <2>1
    <2>3. QED
      BY <1>4, <1>5, <2>2
  <1>10. Paging(gPages', gList')
    BY <1>2, <1>7, <1>8, <1>9 DEF Paging
  <1>11. QED
    BY <1>6, <1>10 DEF PagedInv

(* ms_parray_set: another item has another index. *)
LEMMA SetItemKeeps ==
  ASSUME PagedSensible, PagedInv, NEW val \in Vals, NEW index \in Nat,
         Paged!SetItem(index, val)
  PROVE  PagedInv'
  <1> DEFINE m == Len(gPages)
             q == Paged!PageOf(index)
             i == Paged!OffsetIn(index)
             page == [gPages[q] EXCEPT ![i] = val]
  <1>1. /\ gPages \in Seq(Seq(Vals)) /\ gList \in Seq(Vals) /\ m \in Nat
        /\ \A p \in 1 .. m : gPages[p] \in Seq(Vals) /\ Len(gPages[p]) \in Nat
        /\ index < Len(gList)
        /\ gPages' = [gPages EXCEPT ![q] = page]
        /\ gList' = [gList EXCEPT ![index + 1] = val]
    BY TotalIsLength DEF PagedInv, Paged!TypeOK, Paged!SetItem
  <1>2. q \in 1 .. m /\ i \in 1 .. Len(gPages[q]) /\ Before(q) + i = index + 1
    BY <1>1, IndexHasPlace
  <1> HIDE DEF q, i
  <1>3. /\ page \in Seq(Vals) /\ Len(page) = Len(gPages[q]) /\ page[i] = val
        /\ \A o \in 1 .. Len(gPages[q]) : o # i => page[o] = gPages[q][o]
    BY <1>1, <1>2
  <1> HIDE DEF page
  <1>4. /\ Len(gPages') = m /\ gPages'[q] = page /\ gPages' \in Seq(Seq(Vals))
        /\ \A p \in 1 .. m : p # q => gPages'[p] = gPages[p]
    BY <1>1, <1>2, <1>3
  <1>5. \A p \in 1 .. m : gPages'[p] \in Seq(Vals) /\ Len(gPages'[p]) = Len(gPages[p])
    BY <1>1, <1>3, <1>4
  <1>6. /\ gList' \in Seq(Vals) /\ Len(gList') = Len(gList) /\ gList'[index + 1] = val
        /\ \A k \in 1 .. Len(gList) : k # index + 1 => gList'[k] = gList[k]
    BY <1>1
  <1>8. ASSUME NEW p \in 1 .. m, NEW o \in 1 .. Len(gPages'[p])
        PROVE  gPages'[p][o] = gList'[Before(p) + o]
    <2>1. o \in 1 .. Len(gPages[p]) /\ gPages[p][o] = gList[Before(p) + o]
      BY <1>5 DEF PagedInv, Paging
    <2>2. Before(p) + o \in 1 .. Len(gList)
      <3> DEFINE before == Before(p)
                 n == Len(gPages[p])
                 total == Len(gList)
      <3>1. /\ before \in Nat /\ before + n \in 0 .. total
            /\ n \in Nat /\ total \in Nat /\ o \in 1 .. n
        BY <1>1, <2>1, UpToWithin
      <3> HIDE DEF before, n, total
      <3>2. before + o \in 1 .. total
        BY <3>1
      <3>3. QED
        BY <3>2 DEF before, total
    <2>3. CASE p = q /\ o = i
      BY <1>2, <1>3, <1>4, <1>6, <2>3
    <2>4. CASE ~ (p = q /\ o = i)
      <3>1. o \in 1 .. PageCapacity /\ i \in 1 .. PageCapacity
        <4>1. Len(gPages[p]) <= PageCapacity /\ Len(gPages[q]) <= PageCapacity
          BY <1>2 DEF PagedInv, Paging
        <4>2. Len(gPages[p]) \in Nat /\ Len(gPages[q]) \in Nat /\ PageCapacity \in Nat
          BY <1>1, <1>2 DEF PagedSensible
        <4>3. QED
          BY <1>2, <2>1, <4>1, <4>2
      <3>2. Before(p) + o # index + 1
        BY <1>2, <2>4, <3>1, PlacesApart
      <3>3. gPages'[p][o] = gPages[p][o]
        BY <1>3, <1>4, <2>1, <2>4
      <3>4. QED
        BY <1>6, <2>1, <2>2, <3>2, <3>3
    <2>5. QED
      BY <2>3, <2>4
  <1>9. gPages # << >> /\ gPages' # << >>
    <2>1. Len(gPages) # 0 /\ Len(gPages') # 0
      BY <1>1, <1>2, <1>4
    <2>2. QED
      BY <2>1
  <1>10. Paging(gPages', gList')
    <2>1. \A p \in 1 .. m : Len(gPages'[p]) = Len(gPages[p])
      BY <1>5
    <2>2. m \in 1 .. m
      BY <1>1, <1>2
    <2>3. Len(gList') = Before(m) + Len(gPages'[m])
      BY <1>6, <1>9, <2>1, <2>2 DEF PagedInv, Paging
    <2>4. /\ \A p \in 1 .. m : Len(gPages'[p]) <= PageCapacity
          /\ \A p \in 1 .. m : p # m => Len(gPages'[p]) = PageCapacity
      BY <2>1 DEF PagedInv, Paging
    <2>5. Len(gPages') = m
      BY <1>4
    <2> HIDE DEF m
    <2>6. QED
      BY <1>8, <1>9, <2>3, <2>4, <2>5 DEF Paging
  <1>11. QED
    BY <1>4, <1>6, <1>10 DEF PagedInv, Paged!TypeOK

LEMMA PagedStepKeeps ==
  ASSUME PagedSensible
  PROVE  PagedInv /\ [Paged!Next]_Paged!vars => PagedInv'
  <1> SUFFICES ASSUME PagedInv, [Paged!Next]_Paged!vars PROVE PagedInv'
    OBVIOUS
  <1>1. gList \in Seq(Vals)
    BY DEF PagedInv, Paged!TypeOK
  <1>2. ASSUME NEW val \in Vals, Paged!AppendNewPage(val) PROVE PagedInv'
    <2>1. /\ ~ Paged!HasRoom /\ gPages' = Append(gPages, <<val>>)
          /\ gList' = Append(gList, val)
      BY <1>2 DEF Paged!AppendNewPage
    <2>2. <<val>> \in Seq(Vals) /\ Len(<<val>>) = 1 /\ gList' = gList \o <<val>>
      BY <1>1, <1>2, <2>1, AppendIsConcat
    <2>3. QED
      BY <2>1, <2>2, NewPageKeeps
  <1>3. CASE Paged!AppendPage
    <2>1. ~ Paged!HasRoom /\ gPages' = Append(gPages, << >>) /\ gList' = gList
      BY <1>3 DEF Paged!AppendPage, PagedSensible
    <2>2. << >> \in Seq(Vals) /\ Len(<< >>) = 0 /\ gList' = gList \o << >>
      BY <1>1, <2>1, ConcatEmptySeq
    <2>3. QED
      BY <2>1, <2>2, NewPageKeeps
  <1>4. ASSUME NEW val \in Vals, NEW index \in 0 .. MaxParrayPages * PageCapacity - 1,
               Paged!SetItem(index, val)
        PROVE  PagedInv'
    <2>1. index \in Nat
      BY <1>4 DEF PagedSensible
    <2>2. QED
      BY <1>4, <2>1, SetItemKeeps
  <1>5. CASE UNCHANGED Paged!vars
    BY <1>5 DEF Paged!vars, PagedInv, Paged!TypeOK
  <1>6. QED
    BY <1>2, <1>3, <1>4, <1>5, Append1Keeps DEF Paged!Next, Paged!AppendNoMemory

(***************************************************************************)
(* For every page capacity and however long: as long as pages are not      *)
(* reserved before the last is full, ms_parray's bound check, its indices  *)
(* and a walk over its pages agree with what was appended.                 *)
(***************************************************************************)
THEOREM PagedAgreement ==
  ASSUME PagedSensible
  PROVE  Paged!Spec => []PagedSequential
  <1>1. Paged!Init => PagedInv
    <2> SUFFICES ASSUME Paged!Init PROVE PagedInv
      OBVIOUS
    <2>1. gPages = << >> /\ gList = << >> /\ Len(gPages) = 0
      BY DEF Paged!Init
    <2>2. QED
      BY <2>1 DEF PagedInv, Paged!TypeOK, Paging
  <1>2. PagedInv => PagedSequential
    <2> SUFFICES ASSUME PagedInv PROVE PagedSequential
      OBVIOUS
    <2>1. ASSUME NEW index \in 0 .. Len(gList) - 1
          PROVE  Paged!Get(index) = gList[index + 1]
      <3>1. index \in Nat /\ index < Len(gList)
        BY DEF PagedInv, Paged!TypeOK
      <3>2. /\ Paged!PageOf(index) \in 1 .. Len(gPages)
            /\ Paged!OffsetIn(index) \in 1 .. Len(gPages[Paged!PageOf(index)])
            /\ Before(Paged!PageOf(index)) + Paged!OffsetIn(index) = index + 1
        BY <3>1, IndexHasPlace
      <3>3. QED
        BY <3>2 DEF PagedInv, Paging, Paged!Get
    <2>2. QED
      BY <2>1, TotalIsLength, WalkIsList DEF PagedSequential, Paged!Sequential, PagedInv
  <1>3. QED
    BY <1>1, <1>2, PagedStepKeeps, PTL DEF Paged!Spec
=============================================================================
