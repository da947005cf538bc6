------------------------------ MODULE BitArray ------------------------------
(***************************************************************************)
(* ms_barray (src/src/containers/bit-array.c): bits in clusters of 64.  A  *)
(* cluster is the set of the positions whose bit is one.                   *)
(***************************************************************************)
EXTENDS Naturals

CONSTANTS
  ClusterBits,   \* 64
  MaskBits,      \* the bits of the mask 1U: 32
  MaxClusters    \* bound on the clusters

Indices == 0 .. MaxClusters * ClusterBits - 1

(* DIV64 and MOD64. *)
ClusterOf(index) == index \div ClusterBits
OffsetOf(index) == index % ClusterBits

VARIABLES
  resizable,   \* resizable
  capacity,    \* capacity
  data,        \* data; the clusters from capacity on stand for no memory
  lost,        \* TRUE when ms_barray_resize has left NULL in data
  ones,        \* history: the bits callers set and did not clear
  asked        \* history: the bits callers set or cleared, one by one, since all were zero

vars == <<resizable, capacity, data, lost, ones, asked>>

Clusters == 0 .. MaxClusters - 1

(* ms_barray_construct *)
Init ==
  /\ resizable \in BOOLEAN
  /\ capacity \in 0 .. MaxClusters
  /\ data = [c \in Clusters |-> {}]
  /\ lost = FALSE
  /\ ones = {}
  /\ asked = {}

-----------------------------------------------------------------------------
(***************************************************************************)
(* 1U << cluster_offset.  The mask is an unsigned int, and the processors  *)
(* shift it modulo its width; as a 64-bit number its upper half is zero,   *)
(* and its complement, taken before it is widened, as well.                *)
(***************************************************************************)
MaskBit(index) == OffsetOf(index) % MaskBits

SetBit(cluster, index) == cluster \cup {MaskBit(index)}

(* Mutant: everything below the bit is cleared along with it. *)
ClearBelow(cluster, index) == {b \in cluster : b > MaskBit(index)}

ClearBit(cluster, index) == {b \in cluster : b < MaskBits} \ {MaskBit(index)}

(* ms_barray_get *)
Get(index) == MaskBit(index) \in data[ClusterOf(index)]

(* What ms_barray_resize keeps; the clusters it adds are zero. *)
Resized(count) == [c \in Clusters |-> IF c < capacity /\ c < count THEN data[c] ELSE {}]

Larger(m, n) == IF m > n THEN m ELSE n

(* The capacity ms_barray_set and ms_barray_clear make sure of. *)
Reaching(index) == Larger(capacity, ClusterOf(index) + 1)

MayReach(index) == ClusterOf(index) < capacity \/ resizable

(* ms_barray_set *)
Set(index) ==
  /\ ~ lost /\ MayReach(index)
  /\ capacity' = Reaching(index)
  /\ data' = [Resized(Reaching(index)) EXCEPT ![ClusterOf(index)] = SetBit(@, index)]
  /\ ones' = ones \cup {index}
  /\ asked' = asked \cup {index}
  /\ UNCHANGED <<resizable, lost>>

(* ms_barray_clear *)
Clear(index) ==
  /\ ~ lost /\ MayReach(index)
  /\ capacity' = Reaching(index)
  /\ data' = [Resized(Reaching(index)) EXCEPT ![ClusterOf(index)] = ClearBit(@, index)]
  /\ ones' = ones \ {index}
  /\ asked' = asked \cup {index}
  /\ UNCHANGED <<resizable, lost>>

(* Either of them out of bounds: MS_RESULT_INVALID_ARGUMENT. *)
OutOfBounds(index) ==
  /\ ~ lost /\ ~ MayReach(index)
  /\ UNCHANGED vars

(* No memory to grow: data is NULL, capacity counts the old clusters. *)
NoMemory ==
  /\ ~ lost
  /\ capacity < MaxClusters
  /\ lost' = TRUE
  /\ data' = [c \in Clusters |-> {}]
  /\ UNCHANGED <<resizable, capacity, ones, asked>>

(* ms_barray_clear_all *)
ClearAll ==
  /\ ~ lost
  /\ data' = [c \in Clusters |-> {}]
  /\ ones' = {}
  /\ asked' = {}
  /\ UNCHANGED <<resizable, capacity, lost>>

(***************************************************************************)
(* ms_barray_resize, also of an array that is not resizable, and to less:  *)
(* capacity_delta is a difference of unsigned numbers, large then, and a   *)
(* memset of that length runs off the array.  Only growth is modelled.     *)
(***************************************************************************)
Resize(count) ==
  /\ ~ lost /\ count >= capacity
  /\ data' = Resized(count)
  /\ capacity' = count
  /\ UNCHANGED <<resizable, lost, ones, asked>>

Next ==
  \/ \E index \in Indices : Set(index) \/ Clear(index) \/ OutOfBounds(index)
  \/ NoMemory
  \/ ClearAll
  \/ \E count \in 0 .. MaxClusters : Resize(count)

Spec == Init /\ [][Next]_vars

-----------------------------------------------------------------------------
TypeOK ==
  /\ resizable \in BOOLEAN /\ lost \in BOOLEAN
  /\ capacity \in 0 .. MaxClusters
  /\ data \in [Clusters -> SUBSET (0 .. ClusterBits - 1)]
  /\ ones \subseteq Indices /\ asked \subseteq Indices

(* Two bits of a cluster that the masks do not tell apart. *)
Aliases(i, j) == ClusterOf(i) = ClusterOf(j) /\ MaskBit(i) = MaskBit(j)

(***************************************************************************)
(* A bit reads as callers last left it, whatever they did to the others in *)
(* its cluster and however the array has grown to reach them (ms_barray_   *)
(* get after any ms_barray_set, clear, clear_all and resize): unless they  *)
(* have asked for the one other bit its mask stands for as well.           *)
(***************************************************************************)
BitsAgree ==
  ~ lost =>
    \A i \in Indices :
      /\ ClusterOf(i) < capacity
      /\ \A j \in asked : Aliases(i, j) => j = i
      => (Get(i) <=> i \in ones)

(***************************************************************************)
(* The same without the exception, which bit-array.h promises ("Each       *)
(* integer uses all 64 bits"); the masks of 32 bits break it.              *)
(***************************************************************************)
AllBitsAgree ==
  ~ lost => \A i \in Indices : ClusterOf(i) < capacity => (Get(i) <=> i \in ones)
=============================================================================
