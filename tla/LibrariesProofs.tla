-------------------------- MODULE LibrariesProofs --------------------------
(***************************************************************************)
(* Proofs about the libraries that need no file system: the vectors, the   *)
(* formatter and the display.                                              *)
(***************************************************************************)
EXTENDS Vector, Printf, Sh1106, SequenceTheorems, FiniteSetTheorems, TLAPS

-----------------------------------------------------------------------------
(***************************************************************************)
(* The vectors. Owned says block by block what BlocksOwned says of sets.   *)
(***************************************************************************)
Owned ==
  /\ \A v \in Vectors : data[v] \in 0..taken /\ data[v] \notin freed
  /\ freed \subseteq 1..taken
  /\ \A b \in 1..taken : b \in freed \/ \E v \in Vectors : data[v] = b
  /\ \A v, w \in Vectors : v # w /\ data[v] # 0 => data[v] # data[w]

VectorInv ==
  /\ VectorTypeOK /\ Owned /\ ElementsFit
  /\ room \in Seq(Nat) /\ Len(room) = taken

LEMMA OwnedIs ==
  ASSUME taken \in Nat, Owned
  PROVE  BlocksOwned
<1> DEFINE held == {data[v] : v \in Vectors} \ {0}
<1>1. held \cap freed = {}
  BY DEF Owned
<1>2. held \cup freed = 1..taken
  <2>1. \A b \in held : b \in 1..taken
    BY DEF Owned
  <2>2. \A b \in 1..taken : b \in held \cup freed
    <3> TAKE b \in 1..taken
    <3>1. b # 0
      OBVIOUS
    <3> QED
      BY <3>1 DEF Owned
  <2> QED
    BY <2>1, <2>2 DEF Owned
<1> QED
  BY <1>1, <1>2 DEF Owned, BlocksOwned

LEMMA InitVector == VectorInit => VectorInv
<1> SUFFICES ASSUME VectorInit PROVE VectorInv
  OBVIOUS
<1>1. 0 \in 0..MaxBlocks
  BY VectorAssumption
<1>2. VectorTypeOK
  BY <1>1 DEF VectorInit, VectorTypeOK
<1>3. Owned
  BY DEF VectorInit, Owned
<1>4. room \in Seq(Nat) /\ Len(room) = taken
  BY DEF VectorInit
<1>5. ElementsFit
  <2> SUFFICES ASSUME NEW v \in Vectors
               PROVE  /\ capacity[v] = (IF data[v] = 0 THEN 0 ELSE room[data[v]])
                      /\ size[v] <= capacity[v]
    BY DEF ElementsFit
  <2>1. data[v] = 0 /\ capacity[v] = 0 /\ size[v] = 0
    BY DEF VectorInit
  <2>2. capacity[v] = (IF data[v] = 0 THEN 0 ELSE room[data[v]])
    BY <2>1, Zenon
  <2>3. size[v] <= capacity[v]
    <3>1. 0 <= 0
      OBVIOUS
    <3> QED
      BY <2>1, <3>1
  <2> QED
    BY <2>2, <2>3
<1> QED
  BY <1>2, <1>3, <1>4, <1>5 DEF VectorInv

\* v's block is replaced by a new one with room for n.
LEMMA ReallocatedOwns ==
  ASSUME VectorInv, NEW v \in Vectors, NEW n \in Nat, NEW ok \in Obtains, Reallocated(v, n, ok)
  PROVE  /\ ok => capacity'[v] = n
         /\ ~ok => capacity' = capacity
         /\ \A w \in Vectors : w # v => capacity'[w] = capacity[w]
         /\ data' \in [Vectors -> 0..MaxBlocks] /\ taken' \in 0..MaxBlocks
         /\ capacity' \in [Vectors -> Nat] /\ freed' \subseteq 1..MaxBlocks
         /\ Owned' /\ room' \in Seq(Nat) /\ Len(room') = taken'
         /\ ~overrun => \A w \in Vectors :
              capacity'[w] = (IF data'[w] = 0 THEN 0 ELSE room'[data'[w]])
<1>1. /\ data \in [Vectors -> 0..MaxBlocks] /\ taken \in 0..MaxBlocks /\ MaxBlocks \in Nat
      /\ capacity \in [Vectors -> Nat] /\ freed \subseteq 1..MaxBlocks /\ Owned
      /\ room \in Seq(Nat) /\ Len(room) = taken
  BY VectorAssumption DEF VectorInv, VectorTypeOK
<1>2. ~overrun => \A w \in Vectors :
        capacity[w] = (IF data[w] = 0 THEN 0 ELSE room[data[w]])
  BY DEF VectorInv, ElementsFit
<1>3. CASE ~ok
  BY <1>1, <1>2, <1>3 DEF Reallocated, Owned
<1>4. CASE ok
  <2>1. /\ taken' = taken + 1 /\ room' = Append(room, n) /\ taken < MaxBlocks
        /\ data' = [data EXCEPT ![v] = taken + 1] /\ capacity' = [capacity EXCEPT ![v] = n]
        /\ freed' = freed \cup ({data[v]} \ {0})
    BY <1>4 DEF Reallocated, Release, Obtains
  <2>2. /\ data'[v] = taken + 1 /\ capacity'[v] = n
        /\ \A w \in Vectors : w # v => data'[w] = data[w] /\ capacity'[w] = capacity[w]
    BY <1>1, <2>1
  <2>3. /\ Len(room') = taken + 1 /\ room'[taken + 1] = n /\ room' \in Seq(Nat)
        /\ \A b \in 1..taken : room'[b] = room[b]
    BY <1>1, <2>1
  <2>4. /\ \A w \in Vectors : data[w] \in 0..taken /\ data[w] \notin freed
        /\ freed \subseteq 1..taken
        /\ \A b \in 1..taken : b \in freed \/ \E w \in Vectors : data[w] = b
        /\ \A w, z \in Vectors : w # z /\ data[w] # 0 => data[w] # data[z]
    BY <1>1 DEF Owned
  <2>5. \A b \in freed' : b \in 1..taken
    BY <2>1, <2>4
  <2>6. \A w \in Vectors : data'[w] \in 0..taken + 1 /\ data'[w] \notin freed'
    <3> TAKE w \in Vectors
    <3>1. CASE w = v
      BY <1>1, <2>2, <2>5, <3>1
    <3>2. CASE w # v
      <4>1. data'[w] = data[w] /\ data[w] \in 0..taken /\ data[w] \notin freed
            /\ data[w] \notin {data[v]} \ {0}
        BY <2>2, <2>4, <3>2
      <4> QED
        BY <1>1, <2>1, <4>1
    <3> QED
      BY <3>1, <3>2
  <2>7. \A b \in 1..taken + 1 : b \in freed' \/ \E w \in Vectors : data'[w] = b
    <3> TAKE b \in 1..taken + 1
    <3>1. CASE b = taken + 1
      BY <2>2, <3>1
    <3>2. CASE b # taken + 1
      <4>1. b \in 1..taken
        BY <1>1, <3>2
      <4>2. CASE \E w \in Vectors : data[w] = b /\ w # v
        BY <2>2, <4>2
      <4>3. CASE data[v] = b
        BY <2>1, <4>1, <4>3
      <4> QED
        BY <2>1, <2>4, <4>1, <4>2, <4>3
    <3> QED
      BY <3>1, <3>2
  <2>8. \A w, z \in Vectors : w # z /\ data'[w] # 0 => data'[w] # data'[z]
    <3>1. ASSUME NEW w \in Vectors PROVE data[w] # taken + 1
      <4>1. data[w] \in 0..taken /\ taken \in Int
        BY <1>1, <2>4
      <4> QED
        BY <4>1
    <3> QED
      BY <2>2, <2>4, <3>1
  <2>9. Owned'
    <3>1. freed' \subseteq 1..taken + 1
      BY <1>1, <2>5
    <3> QED
      BY <2>1, <2>6, <2>7, <2>8, <3>1 DEF Owned
  <2>10. ~overrun => \A w \in Vectors :
           capacity'[w] = (IF data'[w] = 0 THEN 0 ELSE room'[data'[w]])
    <3>1. \A w \in Vectors : data[w] # 0 => room'[data[w]] = room[data[w]]
      BY <1>1, <2>3, <2>4
    <3>2. taken + 1 # 0
      BY <1>1
    <3> QED
      BY <1>2, <2>2, <2>3, <3>1, <3>2
  <2>11. taken + 1 \in 0..MaxBlocks /\ \A b \in freed' : b \in 1..MaxBlocks
    BY <1>1, <2>1, <2>5
  <2>12. data' \in [Vectors -> 0..MaxBlocks] /\ capacity' \in [Vectors -> Nat]
    BY <1>1, <2>1, <2>11
  <2> QED
    BY <1>4, <2>1, <2>2, <2>3, <2>9, <2>10, <2>11, <2>12
<1> QED
  BY <1>3, <1>4

\* What every action assumes.
LEMMA VectorTyped ==
  ASSUME VectorInv
  PROVE  /\ data \in [Vectors -> 0..MaxBlocks] /\ taken \in 0..MaxBlocks /\ MaxBlocks \in Nat
         /\ capacity \in [Vectors -> Nat] /\ freed \subseteq 1..MaxBlocks
         /\ size \in [Vectors -> Nat] /\ overrun \in BOOLEAN /\ taken \in Nat
  BY VectorAssumption DEF VectorInv, VectorTypeOK

LEMMA ReserveVector ==
  ASSUME VectorInv, ~overrun, NEW v \in Vectors, NEW n \in Nat, n >= size[v],
         \E ok \in Obtains : Reallocated(v, n, ok), UNCHANGED <<size, overrun>>
  PROVE  VectorInv'
<1>1. PICK ok \in Obtains : Reallocated(v, n, ok)
  OBVIOUS
<1>2. \A w \in Vectors : size[w] <= capacity[w] /\ size[w] \in Nat
  BY VectorTyped DEF VectorInv, ElementsFit
<1>3. ok \in BOOLEAN
  BY DEF Obtains
<1>4. ElementsFit'
  <2>1. \A w \in Vectors : capacity'[w] = (IF data'[w] = 0 THEN 0 ELSE room'[data'[w]])
    BY <1>1, ReallocatedOwns
  <2>2. ASSUME NEW w \in Vectors PROVE size[w] <= capacity'[w]
    <3>1. CASE w = v /\ ok
      BY <1>1, <1>2, <3>1, ReallocatedOwns
    <3>2. CASE w # v \/ ~ok
      BY <1>1, <1>2, <3>2, ReallocatedOwns
    <3> QED
      BY <3>1, <3>2
  <2> QED
    BY <2>1, <2>2 DEF ElementsFit
<1> QED
  BY <1>1, <1>4, VectorTyped, ReallocatedOwns DEF VectorInv, VectorTypeOK

LEMMA PushVector ==
  ASSUME VectorInv, ~overrun, NEW v \in Vectors, PushBack(v)
  PROVE  VectorInv'
<1>1. PICK ok \in Obtains :
        /\ IF size[v] = capacity[v] THEN Reallocated(v, Grown(v), ok)
           ELSE UNCHANGED <<data, capacity, room, taken, freed>>
        /\ overrun' = (overrun \/ (size[v] = capacity[v] /\ ~ok))
  BY DEF PushBack
<1>2. size' = [size EXCEPT ![v] = @ + 1] /\ size[v] \in Nat /\ capacity[v] \in Nat
      /\ size' \in [Vectors -> Nat]
  BY VectorTyped DEF PushBack
<1>3. Grown(v) \in Nat /\ Grown(v) >= capacity[v] + 1
  BY <1>2, VectorAssumption DEF Grown
<1>4. \A w \in Vectors :
        /\ size[w] <= capacity[w] /\ size[w] \in Nat /\ capacity[w] \in Nat
        /\ capacity[w] = (IF data[w] = 0 THEN 0 ELSE room[data[w]])
  BY VectorTyped DEF VectorInv, ElementsFit
<1>5. ok \in BOOLEAN /\ overrun' \in BOOLEAN
  BY <1>1, VectorTyped DEF Obtains
<1>6. CASE size[v] = capacity[v]
  <2>1. Reallocated(v, Grown(v), ok)
    BY <1>1, <1>6
  <2>2. ElementsFit'
    <3> SUFFICES ASSUME ok, NEW w \in Vectors
                 PROVE  /\ capacity'[w] = (IF data'[w] = 0 THEN 0 ELSE room'[data'[w]])
                        /\ size'[w] <= capacity'[w]
      BY <1>1, <1>5, <1>6 DEF ElementsFit
    <3>1. capacity'[w] = (IF data'[w] = 0 THEN 0 ELSE room'[data'[w]])
      BY <1>3, <2>1, ReallocatedOwns
    <3>2. CASE w = v
      <4>1. capacity'[v] = Grown(v)
        BY <1>3, <2>1, ReallocatedOwns
      <4>2. size'[v] = size[v] + 1
        BY <1>2, VectorTyped
      <4> QED
        BY <1>2, <1>3, <1>6, <3>1, <3>2, <4>1, <4>2
    <3>3. CASE w # v
      BY <1>2, <1>3, <1>4, <2>1, <3>1, <3>3, VectorTyped, ReallocatedOwns
    <3> QED
      BY <3>2, <3>3
  <2> QED
    BY <1>2, <1>3, <1>5, <2>1, <2>2, ReallocatedOwns DEF VectorInv, VectorTypeOK
<1>7. CASE size[v] # capacity[v]
  <2>1. UNCHANGED <<data, capacity, room, taken, freed>>
    BY <1>1, <1>7
  <2>2. \A w \in Vectors : size'[w] = IF w = v THEN size[v] + 1 ELSE size[w]
    BY <1>2, VectorTyped
  <2>3. ElementsFit'
    BY <1>2, <1>4, <1>7, <2>1, <2>2 DEF ElementsFit
  <2>4. Owned'
    BY <2>1 DEF VectorInv, Owned
  <2> QED
    BY <1>2, <1>5, <2>1, <2>3, <2>4 DEF VectorInv, VectorTypeOK
<1> QED
  BY <1>6, <1>7

LEMMA FewerVector ==
  ASSUME VectorInv, NEW v \in Vectors, NEW n \in Nat, n <= size[v],
         size' = [size EXCEPT ![v] = n],
         UNCHANGED <<data, capacity, room, freed, taken, overrun>>
  PROVE  VectorInv'
<1>1. /\ size' \in [Vectors -> Nat]
      /\ \A w \in Vectors : size'[w] <= size[w] /\ size'[w] \in Nat /\ size[w] \in Nat
                            /\ capacity[w] \in Nat
  BY VectorTyped
<1>2. ElementsFit'
  BY <1>1 DEF VectorInv, ElementsFit
<1>3. Owned'
  BY DEF VectorInv, Owned
<1> QED
  BY <1>1, <1>2, <1>3 DEF VectorInv, VectorTypeOK

LEMMA DestroyVector ==
  ASSUME VectorInv, NEW v \in Vectors, Destroy(v)
  PROVE  VectorInv'
<1>1. /\ freed' = freed \cup ({data[v]} \ {0}) /\ UNCHANGED <<room, taken, overrun>>
      /\ data' \in [Vectors -> 0..MaxBlocks] /\ capacity' \in [Vectors -> Nat]
      /\ size' \in [Vectors -> Nat] /\ data'[v] = 0 /\ capacity'[v] = 0 /\ size'[v] = 0
      /\ \A w \in Vectors : w # v => data'[w] = data[w] /\ capacity'[w] = capacity[w]
                                     /\ size'[w] = size[w]
  BY VectorTyped DEF Destroy, Release
<1>2. /\ \A w \in Vectors : data[w] \in 0..taken /\ data[w] \notin freed
      /\ freed \subseteq 1..taken /\ taken \in Nat
      /\ \A b \in 1..taken : b \in freed \/ \E w \in Vectors : data[w] = b
      /\ \A w, z \in Vectors : w # z /\ data[w] # 0 => data[w] # data[z]
  BY VectorTyped DEF VectorInv, Owned
<1>3. freed' \subseteq 1..taken
  <2>1. data[v] \in 0..taken /\ (data[v] # 0 => data[v] \in 1..taken)
    BY <1>2
  <2> QED
    BY <1>1, <1>2, <2>1
<1>4. Owned'
  <2>1. \A w \in Vectors : data'[w] \in 0..taken /\ data'[w] \notin freed'
    <3> TAKE w \in Vectors
    <3>1. CASE w = v
      <4>1. 0 \in 0..taken /\ 0 \notin freed'
        BY <1>2, <1>3
      <4> QED
        BY <1>1, <3>1, <4>1
    <3>2. CASE w # v
      <4>1. data[w] \notin {data[v]} \ {0}
        BY <1>2, <3>2
      <4> QED
        BY <1>1, <1>2, <3>2, <4>1
    <3> QED
      BY <3>1, <3>2
  <2>2. \A b \in 1..taken : b \in freed' \/ \E w \in Vectors : data'[w] = b
    <3> TAKE b \in 1..taken
    <3>1. CASE data[v] = b
      BY <1>1, <3>1
    <3>2. CASE data[v] # b
      BY <1>1, <1>2, <3>2
    <3> QED
      BY <3>1, <3>2
  <2>3. \A w, z \in Vectors : w # z /\ data'[w] # 0 => data'[w] # data'[z]
    BY <1>1, <1>2
  <2> QED
    BY <1>1, <1>3, <2>1, <2>2, <2>3 DEF Owned
<1>5. ElementsFit'
  <2>1. ~overrun => \A z \in Vectors :
          capacity[z] = (IF data[z] = 0 THEN 0 ELSE room[data[z]]) /\ size[z] <= capacity[z]
    BY DEF VectorInv, ElementsFit
  <2>2. 0 <= 0
    OBVIOUS
  <2> QED
    BY <1>1, <2>1, <2>2, Z3 DEF ElementsFit
<1>6. \A b \in freed' : b \in 1..MaxBlocks
  BY <1>2, <1>3, VectorTyped
<1> QED
  BY <1>1, <1>4, <1>5, <1>6 DEF VectorInv, VectorTypeOK

LEMMA MoveVector ==
  ASSUME VectorInv, NEW v \in Vectors, NEW w \in Vectors, Move(v, w)
  PROVE  VectorInv'
<1>1. /\ v # w /\ freed' = freed \cup ({data[v]} \ {0}) /\ UNCHANGED <<room, taken, overrun>>
      /\ data' \in [Vectors -> 0..MaxBlocks] /\ capacity' \in [Vectors -> Nat]
      /\ size' \in [Vectors -> Nat]
      /\ data'[v] = data[w] /\ capacity'[v] = capacity[w] /\ size'[v] = size[w]
      /\ data'[w] = 0 /\ capacity'[w] = 0 /\ size'[w] = 0
      /\ \A z \in Vectors : z # v /\ z # w =>
           data'[z] = data[z] /\ capacity'[z] = capacity[z] /\ size'[z] = size[z]
  BY VectorTyped DEF Move, Release, Emptied
<1>2. /\ \A z \in Vectors : data[z] \in 0..taken /\ data[z] \notin freed
      /\ freed \subseteq 1..taken /\ taken \in Nat
      /\ \A b \in 1..taken : b \in freed \/ \E z \in Vectors : data[z] = b
      /\ \A y, z \in Vectors : y # z /\ data[y] # 0 => data[y] # data[z]
  BY VectorTyped DEF VectorInv, Owned
<1>3. freed' \subseteq 1..taken
  <2>1. data[v] \in 0..taken /\ (data[v] # 0 => data[v] \in 1..taken)
    BY <1>2
  <2> QED
    BY <1>1, <1>2, <2>1
<1>4. Owned'
  <2>1. \A z \in Vectors : data'[z] \in 0..taken /\ data'[z] \notin freed'
    <3> TAKE z \in Vectors
    <3>1. CASE z = w
      <4>1. 0 \in 0..taken /\ 0 \notin freed'
        BY <1>2, <1>3
      <4> QED
        BY <1>1, <3>1, <4>1
    <3>2. CASE z = v
      <4>1. data[w] \notin {data[v]} \ {0}
        BY <1>1, <1>2
      <4> QED
        BY <1>1, <1>2, <3>2, <4>1
    <3>3. CASE z # v /\ z # w
      <4>1. data[z] \notin {data[v]} \ {0}
        BY <1>2, <3>3
      <4> QED
        BY <1>1, <1>2, <3>3, <4>1
    <3> QED
      BY <3>1, <3>2, <3>3
  <2>2. \A b \in 1..taken : b \in freed' \/ \E z \in Vectors : data'[z] = b
    <3> TAKE b \in 1..taken
    <3>1. CASE data[v] = b
      BY <1>1, <3>1
    <3>2. CASE data[w] = b
      BY <1>1, <3>2
    <3>3. CASE data[v] # b /\ data[w] # b
      BY <1>1, <1>2, <3>3
    <3> QED
      BY <3>1, <3>2, <3>3
  <2>3. \A y, z \in Vectors : y # z /\ data'[y] # 0 => data'[y] # data'[z]
    BY <1>1, <1>2
  <2> QED
    BY <1>1, <1>3, <2>1, <2>2, <2>3 DEF Owned
<1>5. ElementsFit'
  <2>1. ~overrun => \A z \in Vectors :
          capacity[z] = (IF data[z] = 0 THEN 0 ELSE room[data[z]]) /\ size[z] <= capacity[z]
    BY DEF VectorInv, ElementsFit
  <2>2. 0 <= 0
    OBVIOUS
  <2> QED
    BY <1>1, <2>1, <2>2, Z3 DEF ElementsFit
<1>6. \A b \in freed' : b \in 1..MaxBlocks
  BY <1>2, <1>3, VectorTyped
<1> QED
  BY <1>1, <1>4, <1>5, <1>6 DEF VectorInv, VectorTypeOK

LEMMA StepVector == VectorInv /\ [VectorNext]_vectorVars => VectorInv'
<1> SUFFICES ASSUME VectorInv, [VectorNext]_vectorVars PROVE VectorInv'
  OBVIOUS
<1>1. CASE UNCHANGED vectorVars
  BY <1>1 DEF vectorVars, VectorInv, VectorTypeOK, Owned, ElementsFit
<1>2. CASE VectorNext
  <2>1. ~overrun
    BY <1>2 DEF VectorNext
  <2>2. ASSUME NEW v \in Vectors, NEW n \in 1..2 * FirstCapacity, Reserve(v, n) PROVE VectorInv'
    <3>1. n \in Nat /\ n >= size[v]
      BY <2>2, VectorAssumption, VectorTyped DEF Reserve
    <3>2. (\E ok \in Obtains : Reallocated(v, n, ok)) /\ UNCHANGED <<size, overrun>>
      BY <2>2 DEF Reserve
    <3> QED
      BY <2>1, <3>1, <3>2, ReserveVector
  <2>3. ASSUME NEW v \in Vectors, PopBack(v) \/ Clear(v) PROVE VectorInv'
    <3>1. size[v] \in Nat
      BY VectorTyped
    <3>2. CASE PopBack(v)
      <4>1. size[v] - 1 \in Nat /\ size[v] - 1 <= size[v]
        BY <3>1, <3>2 DEF PopBack
      <4> QED
        BY <3>2, <4>1, FewerVector DEF PopBack
    <3>3. CASE Clear(v)
      <4>1. 0 \in Nat /\ 0 <= size[v]
        BY <3>1
      <4> QED
        BY <3>3, <4>1, FewerVector DEF Clear
    <3> QED
      BY <2>3, <3>2, <3>3
  <2>4. ASSUME NEW v \in Vectors, ShrinkToFit(v) PROVE VectorInv'
    <3>1. \E ok \in Obtains : Reallocated(v, size[v], ok)
      BY <2>4 DEF ShrinkToFit
    <3>2. UNCHANGED <<size, overrun>> /\ size[v] \in Nat /\ size[v] >= size[v]
      BY <2>4, VectorTyped DEF ShrinkToFit
    <3> QED
      BY <2>1, <3>1, <3>2, ReserveVector
  <2> QED
    BY <1>2, <2>1, <2>2, <2>3, <2>4, PushVector, DestroyVector, MoveVector DEF VectorNext
<1> QED
  BY <1>1, <1>2

\* Every block a vector takes has one owner and room for what it holds, and is
\* given back once, for any number of vectors and of calls.
THEOREM VectorsAreSound == VectorSpec => []VectorSound
<1>1. VectorInv => VectorSound
  BY VectorTyped, OwnedIs DEF VectorInv, VectorSound
<1> QED
  BY <1>1, InitVector, StepVector, PTL DEF VectorSpec

-----------------------------------------------------------------------------
(***************************************************************************)
(* The formatter. The rounds of the first pass leave a trace of places,    *)
(* and the second pass walks along it.                                     *)
(***************************************************************************)
\* What the first pass adds for an argument under a modifier.
Counted(a, m) ==
  CASE a.kind = "none" -> 0
    [] a.kind = "text" -> a.v
    [] OTHER -> IF m = "X" THEN HexSize(a) ELSE DigitCount(a)

\* The place u comes after t.
Onward(t, u) ==
  /\ t.at <= Len(format)
  /\ IF ~Opens(t.at)
     THEN u = [at |-> t.at + 1, arg |-> t.arg, modifier |-> t.modifier, count |-> t.count + 1]
     ELSE LET long == format[t.at + 1] # "close"
              mod == IF long THEN format[t.at + 1] ELSE t.modifier
          IN  u = [at |-> t.at + (IF long THEN 3 ELSE 2),
                   arg |-> IF t.arg > Len(args) THEN t.arg ELSE t.arg + 1,
                   modifier |-> mod,
                   count |-> IF t.arg > Len(args) THEN t.count
                             ELSE t.count + Counted(args[t.arg], mod)]

Place(n) == [at |-> at, arg |-> arg, modifier |-> modifier, count |-> n]

Trace(s, n) ==
  /\ s[1] = [at |-> 1, arg |-> 1, modifier |-> "none", count |-> 0]
  /\ \A i \in 1..n : s[i].count \in Nat /\ s[i].at \in Nat
  /\ \A i \in 1..n - 1 : Onward(s[i], s[i + 1])
  /\ \A i, j \in 1..n : i <= j => s[i].count <= s[j].count

Steady == ~rewritten /\ \A i \in DOMAIN args : ~Undercounted(args[i])

Argument == [kind : {"int", "uint", "fixed", "text", "none"}, bits : Nat, v : Int]

Typed ==
  /\ PrintfTypeOK /\ args \in Arguments
  /\ format \in Seq(STRING) /\ args \in Seq(Argument)
  /\ \A i \in DOMAIN args : args[i].kind \in {"uint", "text"} => args[i].v >= 0

Counting == \E n \in Nat \ {0} : \E s : Trace(s, n) /\ s[n] = Place(total)

Writing ==
  \E n \in Nat \ {0} : \E s :
    /\ Trace(s, n) /\ s[n].at > Len(format) /\ s[n].count + 1 = block
    /\ \E j \in 1..n : s[j] = Place(dst)

PrintfInv ==
  /\ Typed
  /\ Steady => /\ pass = "count" => Counting /\ dst = 0
               /\ pass \in {"write", "free"} => Writing
               /\ pass = "free" => at > Len(format)

LEMMA DigitsType == ASSUME NEW n PROVE Digits(n) \in Nat
<1>1. IntBits \in Nat
  BY PrintfAssumption
<1>2. IsFiniteSet(0..IntBits)
  BY <1>1, FS_Interval
<1>3. IsFiniteSet({d \in 0..IntBits : 10^d <= n})
  <2>1. {d \in 0..IntBits : 10^d <= n} \subseteq 0..IntBits
    OBVIOUS
  <2> QED
    BY <1>2, <2>1, FS_Subset
<1> QED
  BY <1>3, FS_CardinalityType DEF Digits

LEMMA WholeType == ASSUME NEW v \in Int PROVE ToInt(v) \in Int
<1>1. One \in Nat /\ One > 0
  BY PrintfAssumption
<1>2. Magnitude(v) \in Nat /\ Magnitude(One) = One
  BY <1>1 DEF Magnitude
<1>3. Magnitude(v) \div One \in Int
  BY <1>1, <1>2
<1> QED
  BY <1>2, <1>3 DEF ToInt, Quot

\* The two passes agree on a number that is not undercounted.
LEMMA NumbersAgree ==
  ASSUME NEW a \in Argument, a.kind \in {"int", "uint", "fixed"}, ~Undercounted(a),
         a.kind = "uint" => a.v >= 0
  PROVE  DigitCount(a) \in Nat /\ ToBuf(a) = DigitCount(a)
<1>1. a.v \in Int /\ ToInt(a.v) \in Int
  BY WholeType DEF Argument
<1> DEFINE k == ToInt(a.v)
           dk == Digits(k)
           dv == Digits(Magnitude(a.v))
<1>2. dk \in Nat /\ dv \in Nat
  BY DigitsType
<1>3. CASE a.kind = "fixed"
  <2>1. ~(k < 0) /\ Magnitude(k) = k
    BY <1>1, <1>3 DEF Undercounted, Magnitude
  <2>2. DigitCount(a) = 5 + (IF k > 0 THEN dk ELSE 1)
    BY <1>3 DEF DigitCount
  <2>3. ToBuf(a) = 5 + (IF k = 0 THEN 1 ELSE Digits(Magnitude(k)) + (IF k < 0 THEN 1 ELSE 0))
    BY <1>3 DEF ToBuf
  <2>4. Digits(Magnitude(k)) = dk
    BY <2>1
  <2>5. k \in Int
    BY <1>1
  <2> HIDE DEF k, dk
  <2> QED
    BY <1>2, <2>1, <2>2, <2>3, <2>4, <2>5
<1>4. CASE a.kind # "fixed"
  <2>1. DigitCount(a) = (IF a.v = 0 THEN 1 ELSE dv + (IF a.v < 0 /\ ~IsLeast(a) THEN 1 ELSE 0))
    BY <1>4 DEF DigitCount
  <2>2. ToBuf(a) = (IF a.v = 0 THEN 1 ELSE dv + (IF a.v < 0 THEN 1 ELSE 0))
    BY <1>4 DEF ToBuf
  <2>3. a.v < 0 => ~IsLeast(a)
    <3>1. a.v < 0 => a.kind = "int"
      BY <1>1, <1>4
    <3> QED
      BY <3>1 DEF Undercounted
  <2> HIDE DEF dv
  <2> QED
    BY <1>1, <1>2, <2>1, <2>2, <2>3
<1> QED
  BY <1>3, <1>4

LEMMA NumbersType ==
  ASSUME NEW a \in Argument
  PROVE  DigitCount(a) \in Nat /\ ToBuf(a) \in Nat /\ HexSize(a) \in Nat
<1>1. /\ Digits(ToInt(a.v)) \in Nat /\ Digits(Magnitude(ToInt(a.v))) \in Nat
      /\ Digits(Magnitude(a.v)) \in Nat
  BY DigitsType
<1>2. HexSize(a) \in Nat
  BY DEF HexSize, Argument
<1>3. DigitCount(a) \in Nat
  BY <1>1 DEF DigitCount
<1>4. ToBuf(a) \in Nat
  BY <1>1 DEF ToBuf
<1> QED
  BY <1>2, <1>3, <1>4

\* What a pass emits for an argument under a modifier is a number, and for
\* both passes the same.
Emission(a, m) ==
  IF a.kind = "none" THEN 0 ELSE IF a.kind = "text" THEN a.v
  ELSE IF m = "X" THEN HexSize(a) ELSE IF pass = "count" THEN DigitCount(a) ELSE ToBuf(a)

LEMMA EmittedIs ==
  ASSUME NEW a \in Argument, NEW m
  PROVE  Emitted(a, m = "X") = Emission(a, m)
  BY DEF Emitted, Emission, Argument

LEMMA EmittedAgree ==
  ASSUME Typed, NEW i \in DOMAIN args, NEW m
  PROVE  /\ Emission(args[i], m) \in Nat
         /\ Steady => Emission(args[i], m) = Counted(args[i], m)
<1>1. args[i] \in Argument /\ (args[i].kind \in {"uint", "text"} => args[i].v >= 0)
  BY DEF Typed
<1>2. /\ DigitCount(args[i]) \in Nat /\ ToBuf(args[i]) \in Nat /\ HexSize(args[i]) \in Nat
      /\ args[i].v \in Int /\ args[i].kind \in {"int", "uint", "fixed", "text", "none"}
  BY <1>1, NumbersType DEF Argument
<1>3. /\ args[i].kind \in {"int", "uint", "fixed"} /\ Steady => ToBuf(args[i]) = DigitCount(args[i])
  BY <1>1, NumbersAgree DEF Steady
<1>4. Counted(args[i], m)
        = (IF args[i].kind = "none" THEN 0 ELSE IF args[i].kind = "text" THEN args[i].v
           ELSE IF m = "X" THEN HexSize(args[i]) ELSE DigitCount(args[i]))
  BY <1>2 DEF Counted
<1>5. Emission(args[i], m) \in Nat
  BY <1>1, <1>2 DEF Emission
<1>6. Steady => Emission(args[i], m) = Counted(args[i], m)
  BY <1>2, <1>3, <1>4 DEF Emission
<1> QED
  BY <1>5, <1>6

\* A round of a pass goes on to the next place, by what it emits.
LEMMA CountRound ==
  ASSUME Typed, Count
  PROVE  /\ at <= Len(format) /\ at' \in 1..Len(format) + 1 /\ arg' \in 1..Len(args) + 1
         /\ total' \in Nat /\ total <= total'
         /\ Steady => Onward(Place(total), Place(total)')
         /\ UNCHANGED <<pass, format, args, block, rewritten, printed, result, dst>>
<1>1. /\ at <= Len(format) /\ at \in Nat /\ at >= 1 /\ arg \in Nat /\ arg >= 1
      /\ arg <= Len(args) + 1 /\ total \in Nat /\ Len(args) \in Nat /\ Len(format) \in Nat
  BY DEF Typed, PrintfTypeOK, Count, Walk
<1>2. UNCHANGED <<pass, format, args, block, rewritten, printed, result, dst>>
  BY DEF Count, Walk
<1> DEFINE long == format[at + 1] # "close"
           mod == IF long THEN format[at + 1] ELSE modifier
           got == Emission(args[arg], mod)
<1>3. ~Opens(at) => total' = total + 1 /\ at' = at + 1 /\ arg' = arg /\ modifier' = modifier
  BY DEF Count, Walk
<1>4. /\ Opens(at) => modifier' = mod /\ at' = at + (IF long THEN 3 ELSE 2)
      /\ Opens(at) /\ arg > Len(args) => total' = total /\ arg' = arg
      /\ Opens(at) /\ ~(arg > Len(args)) =>
           total' = total + Emitted(args[arg], mod = "X") /\ arg' = arg + 1
  BY DEF Count, Walk
<1>5. ~(arg > Len(args)) => arg \in DOMAIN args /\ args[arg] \in Argument
  BY <1>1 DEF Typed
<1>6. ~(arg > Len(args)) => got \in Nat /\ (Steady => got = Counted(args[arg], mod))
  BY <1>5, EmittedAgree
<1>7. Opens(at) /\ ~(arg > Len(args)) => total' = total + got /\ arg' = arg + 1
  BY <1>4, <1>5, EmittedIs
<1>8. Opens(at) => at + (IF long THEN 3 ELSE 2) <= Len(format) + 1
  BY <1>1 DEF Opens
<1> HIDE DEF got, mod
<1>9. at' \in 1..Len(format) + 1
  BY <1>1, <1>3, <1>4, <1>8
<1>10. arg' \in 1..Len(args) + 1
  BY <1>1, <1>3, <1>4, <1>7
<1>11. total' \in Nat /\ total <= total'
  BY <1>1, <1>3, <1>4, <1>6, <1>7
<1>12. ASSUME Steady PROVE Onward(Place(total), Place(total)')
  <2> DEFINE t == Place(total)
             u == Place(total)'
  <2>1. t.at = at /\ t.arg = arg /\ t.modifier = modifier /\ t.count = total
    BY DEF Place
  <2>2. u = [at |-> at', arg |-> arg', modifier |-> modifier', count |-> total']
    BY DEF Place
  <2> HIDE DEF t, u
  <2>3. ~Opens(at) => Onward(t, u)
    BY <1>1, <1>3, <2>1, <2>2 DEF Onward
  <2>4. Opens(at) =>
          u = [at |-> at + (IF long THEN 3 ELSE 2),
               arg |-> IF arg > Len(args) THEN arg ELSE arg + 1,
               modifier |-> mod,
               count |-> IF arg > Len(args) THEN total ELSE total + Counted(args[arg], mod)]
    BY <1>4, <1>6, <1>7, <1>12, <2>2
  <2>5. Opens(at) => Onward(t, u)
    BY <1>1, <2>1, <2>4 DEF Onward, mod
  <2> QED
    BY <2>3, <2>5 DEF t, u
<1> QED
  BY <1>1, <1>2, <1>9, <1>10, <1>11, <1>12

LEMMA WriteRound ==
  ASSUME Typed, Write
  PROVE  /\ at <= Len(format) /\ at' \in 1..Len(format) + 1 /\ arg' \in 1..Len(args) + 1
         /\ dst' \in Nat /\ dst <= dst'
         /\ Steady => Onward(Place(dst), Place(dst)')
         /\ UNCHANGED <<pass, format, args, block, rewritten, printed, result, total>>
<1>1. /\ at <= Len(format) /\ at \in Nat /\ at >= 1 /\ arg \in Nat /\ arg >= 1
      /\ arg <= Len(args) + 1 /\ dst \in Nat /\ Len(args) \in Nat /\ Len(format) \in Nat
  BY DEF Typed, PrintfTypeOK, Write, Walk
<1>2. UNCHANGED <<pass, format, args, block, rewritten, printed, result, total>>
  BY DEF Write, Walk
<1> DEFINE long == format[at + 1] # "close"
           mod == IF long THEN format[at + 1] ELSE modifier
           got == Emission(args[arg], mod)
<1>3. ~Opens(at) => dst' = dst + 1 /\ at' = at + 1 /\ arg' = arg /\ modifier' = modifier
  BY DEF Write, Walk
<1>4. /\ Opens(at) => modifier' = mod /\ at' = at + (IF long THEN 3 ELSE 2)
      /\ Opens(at) /\ arg > Len(args) => dst' = dst /\ arg' = arg
      /\ Opens(at) /\ ~(arg > Len(args)) =>
           dst' = dst + Emitted(args[arg], mod = "X") /\ arg' = arg + 1
  BY DEF Write, Walk
<1>5. ~(arg > Len(args)) => arg \in DOMAIN args /\ args[arg] \in Argument
  BY <1>1 DEF Typed
<1>6. ~(arg > Len(args)) => got \in Nat /\ (Steady => got = Counted(args[arg], mod))
  BY <1>5, EmittedAgree
<1>7. Opens(at) /\ ~(arg > Len(args)) => dst' = dst + got /\ arg' = arg + 1
  BY <1>4, <1>5, EmittedIs
<1>8. Opens(at) => at + (IF long THEN 3 ELSE 2) <= Len(format) + 1
  BY <1>1 DEF Opens
<1> HIDE DEF got, mod
<1>9. at' \in 1..Len(format) + 1
  BY <1>1, <1>3, <1>4, <1>8
<1>10. arg' \in 1..Len(args) + 1
  BY <1>1, <1>3, <1>4, <1>7
<1>11. dst' \in Nat /\ dst <= dst'
  BY <1>1, <1>3, <1>4, <1>6, <1>7
<1>12. ASSUME Steady PROVE Onward(Place(dst), Place(dst)')
  <2> DEFINE t == Place(dst)
             u == Place(dst)'
  <2>1. t.at = at /\ t.arg = arg /\ t.modifier = modifier /\ t.count = dst
    BY DEF Place
  <2>2. u = [at |-> at', arg |-> arg', modifier |-> modifier', count |-> dst']
    BY DEF Place
  <2> HIDE DEF t, u
  <2>3. ~Opens(at) => Onward(t, u)
    BY <1>1, <1>3, <2>1, <2>2 DEF Onward
  <2>4. Opens(at) =>
          u = [at |-> at + (IF long THEN 3 ELSE 2),
               arg |-> IF arg > Len(args) THEN arg ELSE arg + 1,
               modifier |-> mod,
               count |-> IF arg > Len(args) THEN dst ELSE dst + Counted(args[arg], mod)]
    BY <1>4, <1>6, <1>7, <1>12, <2>2
  <2>5. Opens(at) => Onward(t, u)
    BY <1>1, <2>1, <2>4 DEF Onward, mod
  <2> QED
    BY <2>3, <2>5 DEF t, u
<1> QED
  BY <1>1, <1>2, <1>9, <1>10, <1>11, <1>12

-----------------------------------------------------------------------------
LEMMA InitText == PrintfInit => PrintfInv
<1> SUFFICES ASSUME PrintfInit PROVE PrintfInv
  OBVIOUS
<1>1. Typed
  <2>1. format \in Seq(STRING) /\ Len(format) \in Nat
    BY PrintfAssumption DEF PrintfInit
  <2>2. args \in Seq(Argument) /\ Len(args) \in Nat
        /\ \A i \in DOMAIN args : args[i].kind \in {"uint", "text"} => args[i].v >= 0
    BY PrintfAssumption DEF PrintfInit, Argument
  <2>3. PrintfTypeOK
    <3>1. 1 \in 1..Len(format) + 1 /\ 1 \in 1..Len(args) + 1
      BY <2>1, <2>2
    <3>2. -1 \in Nat \cup {-1}
      OBVIOUS
    <3> QED
      BY <3>1, <3>2 DEF PrintfInit, PrintfTypeOK
  <2> QED
    BY <2>1, <2>2, <2>3 DEF Typed, PrintfInit
<1>2. Counting
  <2> DEFINE s == <<Place(0)>>
  <2>1. s[1] = Place(0) /\ Place(0).at = 1 /\ Place(0).count = 0
        /\ Place(0) = [at |-> 1, arg |-> 1, modifier |-> "none", count |-> 0]
    BY DEF Place, PrintfInit
  <2> HIDE DEF s
  <2>2. Trace(s, 1)
    BY <2>1 DEF Trace
  <2> QED
    BY <2>1, <2>2 DEF Counting, PrintfInit
<1> QED
  BY <1>1, <1>2 DEF PrintfInv, PrintfInit

LEMMA CountText == ASSUME PrintfInv, Count PROVE PrintfInv'
<1>1. Typed /\ pass = "count" /\ pass' = "count"
  BY CountRound DEF PrintfInv, Count
<1>2. /\ at <= Len(format) /\ at' \in 1..Len(format) + 1 /\ arg' \in 1..Len(args) + 1
      /\ total' \in Nat /\ total <= total'
      /\ Steady => Onward(Place(total), Place(total)')
      /\ UNCHANGED <<pass, format, args, block, rewritten, printed, result, dst>>
  BY <1>1, CountRound
<1>3. Typed'
  BY <1>1, <1>2 DEF Typed, PrintfTypeOK
<1>4. ASSUME Steady' PROVE Counting' /\ dst' = 0
  <2>1. Steady
    BY <1>2, <1>4 DEF Steady, Undercounted, IsLeast
  <2>2a. PICK n \in Nat \ {0} : \E s : Trace(s, n) /\ s[n] = Place(total)
    BY <1>1, <2>1 DEF PrintfInv, Counting
  <2>2. PICK s : Trace(s, n) /\ s[n] = Place(total)
    BY <2>2a
  <2>0. PICK u : u = Place(total)'
    OBVIOUS
  <2> DEFINE z == [i \in 1..n + 1 |-> IF i = n + 1 THEN u ELSE s[i]]
  <2>3. u = [at |-> at', arg |-> arg', modifier |-> modifier', count |-> total']
        /\ u.count = total' /\ u.at = at' /\ at' \in Nat /\ s[n].count = total
    BY <1>2, <2>0, <2>2 DEF Place
  <2>4. z[n + 1] = u /\ \A i \in 1..n : z[i] = s[i] /\ i \in Int /\ i # n + 1
    OBVIOUS
  <2>5. Onward(s[n], u)
    BY <1>2, <2>0, <2>1, <2>2
  <2> HIDE DEF z
  <2>6. \A t, w : Onward(t, w)' <=> Onward(t, w)
    BY <1>2 DEF Onward, Opens, Counted, HexSize, DigitCount, IsLeast
  <2>7. Trace(z, n + 1)'
    <3>1. z[1] = s[1] /\ s[1] = [at |-> 1, arg |-> 1, modifier |-> "none", count |-> 0]
      BY <2>2, <2>4 DEF Trace
    <3>2. \A i \in 1..n + 1 : z[i].count \in Nat /\ z[i].at \in Nat
      <4> TAKE i \in 1..n + 1
      <4>1. CASE i = n + 1
        BY <1>2, <2>3, <2>4, <4>1
      <4>2. CASE i # n + 1
        <5>1. i \in 1..n
          BY <4>2
        <5> QED
          BY <2>2, <2>4, <5>1 DEF Trace
      <4> QED
        BY <4>1, <4>2
    <3>3. \A i \in 1..n : Onward(z[i], z[i + 1])
      <4> TAKE i \in 1..n
      <4>1. CASE i = n
        BY <2>4, <2>5, <4>1
      <4>2. CASE i # n
        <5>1. i \in 1..n - 1 /\ i + 1 \in 1..n
          BY <4>2
        <5> QED
          BY <2>2, <2>4, <5>1 DEF Trace
      <4> QED
        BY <4>1, <4>2
    <3>4. \A i, j \in 1..n + 1 : i <= j => z[i].count <= z[j].count
      <4> SUFFICES ASSUME NEW i \in 1..n + 1, NEW j \in 1..n + 1, i <= j
                   PROVE  z[i].count <= z[j].count
        OBVIOUS
      <4>1. CASE j # n + 1
        <5>1. i \in 1..n /\ j \in 1..n
          BY <4>1
        <5> QED
          BY <2>2, <2>4, <5>1 DEF Trace
      <4>2. CASE j = n + 1 /\ i # n + 1
        <5>1. i \in 1..n /\ n \in 1..n /\ i <= n
          BY <4>2
        <5>2. s[i].count <= total /\ s[i].count \in Nat
          BY <2>2, <2>3, <5>1 DEF Trace
        <5> QED
          BY <1>1, <1>2, <2>3, <2>4, <4>2, <5>1, <5>2 DEF Typed, PrintfTypeOK
      <4>3. CASE j = n + 1 /\ i = n + 1
        BY <3>2, <4>3
      <4> QED
        BY <4>1, <4>2, <4>3
    <3> QED
      BY <2>6, <3>1, <3>2, <3>3, <3>4 DEF Trace
  <2>8. z[n + 1] = Place(total)' /\ n + 1 \in Nat \ {0}
    BY <2>0, <2>4
  <2> QED
    BY <1>1, <1>2, <2>1, <2>7, <2>8 DEF Counting, PrintfInv
<1> QED
  BY <1>1, <1>3, <1>4 DEF PrintfInv

LEMMA WriteText == ASSUME PrintfInv, Write PROVE PrintfInv'
<1>1. Typed /\ pass = "write" /\ pass' = "write"
  BY WriteRound DEF PrintfInv, Write
<1>2. /\ at <= Len(format) /\ at' \in 1..Len(format) + 1 /\ arg' \in 1..Len(args) + 1
      /\ dst' \in Nat /\ dst <= dst'
      /\ Steady => Onward(Place(dst), Place(dst)')
      /\ UNCHANGED <<pass, format, args, block, rewritten, printed, result, total>>
  BY <1>1, WriteRound
<1>3. Typed'
  BY <1>1, <1>2 DEF Typed, PrintfTypeOK
<1>4. ASSUME Steady' PROVE Writing'
  <2>1. Steady
    BY <1>2, <1>4 DEF Steady, Undercounted, IsLeast
  <2>2a. PICK n \in Nat \ {0} : \E s :
          /\ Trace(s, n) /\ s[n].at > Len(format) /\ s[n].count + 1 = block
          /\ \E j \in 1..n : s[j] = Place(dst)
    BY <1>1, <2>1 DEF PrintfInv, Writing
  <2>2. PICK s :
          /\ Trace(s, n) /\ s[n].at > Len(format) /\ s[n].count + 1 = block
          /\ \E j \in 1..n : s[j] = Place(dst)
    BY <2>2a
  <2>3. PICK j \in 1..n : s[j] = Place(dst)
    BY <2>2
  <2>4. \A t, w : Onward(t, w)' <=> Onward(t, w)
    BY <1>2 DEF Onward, Opens, Counted, HexSize, DigitCount, IsLeast
  <2>5. Trace(s, n)'
    BY <2>2, <2>4 DEF Trace
  <2>6. s[j].at = at /\ at \in Nat /\ Len(format) \in Nat
    BY <1>1, <2>3 DEF Place, Typed, PrintfTypeOK
  <2>7. j # n
    BY <1>2, <2>2, <2>6
  <2>8. j \in 1..n - 1 /\ j + 1 \in 1..n
    BY <2>7
  <2>9. Onward(s[j], s[j + 1]) /\ Onward(s[j], Place(dst)')
    BY <1>2, <2>1, <2>2, <2>3, <2>8 DEF Trace
  <2>10. \A t, w, x : Onward(t, w) /\ Onward(t, x) => w = x
    BY DEF Onward
  <2>11. s[j + 1] = Place(dst)'
    BY <2>9, <2>10
  <2> QED
    BY <1>2, <2>2, <2>5, <2>8, <2>11 DEF Writing
<1> QED
  BY <1>1, <1>3, <1>4 DEF PrintfInv

LEMMA MallocText == ASSUME PrintfInv, Malloc PROVE PrintfInv'
<1>1. Typed /\ pass = "count" /\ at > Len(format)
  BY DEF PrintfInv, Malloc
<1>2. Typed'
  <2>1. 1 \in 1..Len(format) + 1 /\ 1 \in 1..Len(args) + 1
    BY <1>1 DEF Typed
  <2> QED
    BY <1>1, <2>1 DEF Typed, PrintfTypeOK, Malloc
<1>3. ASSUME Steady', pass' = "write" PROVE Writing'
  <2>1. Steady
    BY <1>3 DEF Steady, Undercounted, IsLeast, Malloc
  <2>2a. PICK n \in Nat \ {0} : \E s : Trace(s, n) /\ s[n] = Place(total)
    BY <1>1, <2>1 DEF PrintfInv, Counting
  <2>2. PICK s : Trace(s, n) /\ s[n] = Place(total)
    BY <2>2a
  <2>3. dst = 0
    BY <1>1, <2>1 DEF PrintfInv
  <2>4. \A t, w : Onward(t, w)' <=> Onward(t, w)
    BY DEF Malloc, Onward, Opens, Counted, HexSize, DigitCount, IsLeast
  <2>5. Trace(s, n)'
    BY <2>2, <2>4 DEF Trace
  <2>6. s[n].at = at /\ s[n].count = total
    BY <2>2 DEF Place
  <2>7. block' = total + 1 /\ format' = format /\ at' = 1 /\ arg' = 1 /\ modifier' = "none"
         /\ dst' = dst
    BY <1>3 DEF Malloc
  <2>8. s[1] = Place(dst)' /\ 1 \in 1..n
    BY <2>2, <2>3, <2>7 DEF Trace, Place
  <2> QED
    BY <1>1, <2>5, <2>6, <2>7, <2>8 DEF Writing
<1> QED
  BY <1>2, <1>3 DEF PrintfInv, Malloc

LEMMA StepText == PrintfInv /\ [PrintfNext]_printfVars => PrintfInv'
<1> SUFFICES ASSUME PrintfInv, [PrintfNext]_printfVars PROVE PrintfInv'
  OBVIOUS
<1>1. CASE Count
  BY <1>1, CountText
<1>2. CASE Write
  BY <1>2, WriteText
<1>3. CASE Malloc
  BY <1>3, MallocText
<1>4. CASE Finish
  <2>1. Typed'
    BY <1>4 DEF PrintfInv, Typed, PrintfTypeOK, Finish
  <2>2. Steady' => Steady
    BY <1>4 DEF Steady, Undercounted, IsLeast, Finish
  <2>3. Writing => Writing'
    <3>1. \A t, w : Onward(t, w)' <=> Onward(t, w)
      BY <1>4 DEF Finish, Onward, Opens, Counted, HexSize, DigitCount, IsLeast
    <3>2. \A s, n : Trace(s, n)' <=> Trace(s, n)
      BY <3>1 DEF Trace
    <3>3. Place(dst)' = Place(dst) /\ format' = format /\ block' = block
      BY <1>4 DEF Place, Finish
    <3> QED
      BY <3>2, <3>3 DEF Writing
  <2> QED
    BY <1>4, <2>1, <2>2, <2>3 DEF PrintfInv, Finish
<1>5. CASE Free
  BY <1>5 DEF PrintfInv, Typed, PrintfTypeOK, Free
<1>6. CASE Rewrite
  <2>1. Typed'
    <3>1. args' \in Seq(Argument)
          /\ \A i \in DOMAIN args' : args'[i].kind \in {"uint", "text"} => args'[i].v >= 0
      BY <1>6, PrintfAssumption DEF Rewrite, Argument
    <3> QED
      BY <1>6, <3>1 DEF PrintfInv, Typed, PrintfTypeOK, Rewrite
  <2>2. ~Steady'
    BY <1>6 DEF Steady, Rewrite
  <2> QED
    BY <2>1, <2>2 DEF PrintfInv
<1>7. CASE UNCHANGED printfVars
  <2>1. Typed' /\ (Steady' <=> Steady)
    BY <1>7 DEF PrintfInv, Typed, PrintfTypeOK, printfVars, Steady, Undercounted, IsLeast
  <2>2. \A t, w : Onward(t, w)' <=> Onward(t, w)
    BY <1>7 DEF printfVars, Onward, Opens, Counted, HexSize, DigitCount, IsLeast
  <2>3. \A s, n : Trace(s, n)' <=> Trace(s, n)
    BY <2>2 DEF Trace
  <2>4. (Counting' <=> Counting) /\ (Writing' <=> Writing)
    BY <1>7, <2>3 DEF Counting, Writing, Place, printfVars
  <2> QED
    BY <1>7, <2>1, <2>4 DEF PrintfInv, printfVars
<1> QED
  BY <1>1, <1>2, <1>3, <1>4, <1>5, <1>6, <1>7 DEF PrintfNext

LEMMA TextFits == PrintfInv => TextSound
<1> SUFFICES ASSUME PrintfInv PROVE TextSound
  OBVIOUS
<1>1. Typed /\ PrintfTypeOK
  BY DEF PrintfInv, Typed
<1>2. ASSUME Steady, pass \in {"write", "free"}
      PROVE  dst + 1 <= block /\ (pass = "free" => dst + 1 = block)
  <2>1a. PICK n \in Nat \ {0} : \E s :
          /\ Trace(s, n) /\ s[n].at > Len(format) /\ s[n].count + 1 = block
          /\ \E j \in 1..n : s[j] = Place(dst)
    BY <1>2 DEF PrintfInv, Writing
  <2>1. PICK s :
          /\ Trace(s, n) /\ s[n].at > Len(format) /\ s[n].count + 1 = block
          /\ \E j \in 1..n : s[j] = Place(dst)
    BY <2>1a
  <2>2. PICK j \in 1..n : s[j] = Place(dst)
    BY <2>1
  <2>3. s[j].count = dst /\ s[j].at = at /\ j <= n /\ n \in 1..n
    BY <2>2 DEF Place
  <2>4. s[j].count <= s[n].count /\ s[j].count \in Nat /\ s[n].count \in Nat
    BY <2>1, <2>3 DEF Trace
  <2>5. dst + 1 <= block
    BY <2>1, <2>3, <2>4
  <2>6. ASSUME pass = "free" PROVE j = n
    <3>1. at > Len(format)
      BY <1>2, <2>6 DEF PrintfInv
    <3>2. \A i \in 1..n - 1 : s[i].at <= Len(format)
      BY <2>1 DEF Trace, Onward
    <3>3. at \in Nat /\ Len(format) \in Nat
      BY <1>1 DEF Typed, PrintfTypeOK
    <3>4. j \notin 1..n - 1
      BY <2>3, <3>1, <3>2, <3>3
    <3> QED
      BY <3>4
  <2> QED
    BY <2>1, <2>3, <2>5, <2>6
<1>3. PrintfFits
  BY <1>2 DEF PrintfFits, Steady
<1> QED
  BY <1>1, <1>3 DEF TextSound

(***************************************************************************)
(* Whatever the format, the block that is taken for a text holds every     *)
(* byte written to it, and in the end nothing is left over, for arguments  *)
(* that stay what they were and are none of the numbers digitCount is too  *)
(* short for (__printfImpl and __sprintfImpl, digitCount and toBuf).       *)
(***************************************************************************)
THEOREM TextsFit == PrintfSpec => []TextSound
<1> QED
  BY InitText, StepText, TextFits, PTL DEF PrintfSpec

-----------------------------------------------------------------------------
(***************************************************************************)
(* The display.                                                            *)
(***************************************************************************)
Bytes == Shades \cup {0}

\* Every page this update has sent is the one in the buffer.
SentShown ==
  ~drawn => \A p \in sent, c \in PanelColumns : ram[p][LastColumn - c + Margin] = buf[p][c]

PanelInv ==
  /\ buf \in [PageNumbers -> [PanelColumns -> Bytes]]
  /\ ram \in [PageNumbers -> [RamColumns -> Bytes]]
  /\ sent \subseteq PageNumbers
  /\ asked.on \in BOOLEAN /\ asked = [modes |-> asked.modes, on |-> asked.on]
  /\ SentShown /\ ModesAdd

On == TRUE
Off == FALSE

\* What the commands do one by one.
LEMMA DisplayOnIs ==
  ASSUME NEW r PROVE Obey(r, "DISPLAY_ON") = [r EXCEPT !.on = On]
<1>1. Obey(r, "DISPLAY_ON") = [r EXCEPT !.on = TRUE]
  BY Zenon DEF Obey
<1> QED
  BY <1>1, Zenon DEF On

LEMMA DisplayOffIs ==
  ASSUME NEW r PROVE Obey(r, "DISPLAY_OFF") = [r EXCEPT !.on = Off]
<1>1. Obey(r, "DISPLAY_OFF") = [r EXCEPT !.on = FALSE]
  BY Zenon DEF Obey
<1> QED
  BY <1>1, Zenon DEF Off

LEMMA NormalDisplayIs ==
  ASSUME NEW r PROVE Obey(r, "NORMAL_DISPLAY") = [r EXCEPT !.inverted = Off]
<1>1. Obey(r, "NORMAL_DISPLAY") = [r EXCEPT !.inverted = FALSE]
  BY Zenon DEF Obey
<1> QED
  BY <1>1, Zenon DEF Off

LEMMA InvertDisplayIs ==
  ASSUME NEW r PROVE Obey(r, "INVERT_DISPLAY") = [r EXCEPT !.inverted = On]
<1>1. Obey(r, "INVERT_DISPLAY") = [r EXCEPT !.inverted = TRUE]
  BY Zenon DEF Obey
<1> QED
  BY <1>1, Zenon DEF On

LEMMA SegmentRemapIs ==
  ASSUME NEW r PROVE Obey(r, "SEGMENT_REMAP") = [r EXCEPT !.flipH = Off]
<1>1. Obey(r, "SEGMENT_REMAP") = [r EXCEPT !.flipH = FALSE]
  BY Zenon DEF Obey
<1> QED
  BY <1>1, Zenon DEF Off

LEMMA SegmentReverseIs ==
  ASSUME NEW r PROVE Obey(r, "SEGMENT_REVERSE") = [r EXCEPT !.flipH = On]
<1>1. Obey(r, "SEGMENT_REVERSE") = [r EXCEPT !.flipH = TRUE]
  BY Zenon DEF Obey
<1> QED
  BY <1>1, Zenon DEF On

LEMMA ComRemapIs ==
  ASSUME NEW r PROVE Obey(r, "COM_REMAP") = [r EXCEPT !.flipV = Off]
<1>1. Obey(r, "COM_REMAP") = [r EXCEPT !.flipV = FALSE]
  BY Zenon DEF Obey
<1> QED
  BY <1>1, Zenon DEF Off

LEMMA ComNormalIs ==
  ASSUME NEW r PROVE Obey(r, "COM_NORMAL") = [r EXCEPT !.flipV = On]
<1>1. Obey(r, "COM_NORMAL") = [r EXCEPT !.flipV = TRUE]
  BY Zenon DEF Obey
<1> QED
  BY <1>1, Zenon DEF On

LEMMA FullContrastIs ==
  ASSUME NEW r PROVE Obey(r, "CONTRAST_FF") = [r EXCEPT !.contrast = 255]
  BY Zenon DEF Obey

LEMMA LowContrastIs ==
  ASSUME NEW r PROVE Obey(r, "CONTRAST_40") = [r EXCEPT !.contrast = 64]
  BY Zenon DEF Obey

\* Up to six commands are obeyed in turn: the definition of after has a solution.
LEMMA ObeyAllIs ==
  ASSUME NEW r, NEW commands, NEW n \in 1..6, Len(commands) = n
  PROVE  \E after :
           /\ ObeyAll(r, commands) = after[n] /\ after[1] = Obey(r, commands[1])
           /\ \A i \in 2..n : after[i] = Obey(after[i - 1], commands[i])
<1> DEFINE a1 == Obey(r, commands[1])
           a2 == Obey(a1, commands[2])
           a3 == Obey(a2, commands[3])
           a4 == Obey(a3, commands[4])
           a5 == Obey(a4, commands[5])
           a6 == Obey(a5, commands[6])
           g == [i \in 0..n |-> IF i = 0 THEN r ELSE IF i = 1 THEN a1 ELSE IF i = 2 THEN a2
                                ELSE IF i = 3 THEN a3 ELSE IF i = 4 THEN a4
                                ELSE IF i = 5 THEN a5 ELSE a6]
           Solves(h) == h = [i \in 0..n |-> IF i = 0 THEN r ELSE Obey(h[i - 1], commands[i])]
           after == CHOOSE h : Solves(h)
<1>1. Solves(g)
  <2>1. /\ 0 \in 0..n /\ g[0] = r
        /\ \A i \in 1..n :
             g[i] = (IF i = 1 THEN a1 ELSE IF i = 2 THEN a2 ELSE IF i = 3 THEN a3
                     ELSE IF i = 4 THEN a4 ELSE IF i = 5 THEN a5 ELSE a6)
    OBVIOUS
  <2> HIDE DEF g
  <2>2. \A i \in 1..n : i - 1 \in 0..n /\ i \in 1..6 /\ (i = 1 \/ i - 1 \in 1..n)
    OBVIOUS
  <2>3. \A i \in 1..n : g[i] = Obey(g[i - 1], commands[i])
    <3> TAKE i \in 1..n
    <3>1. CASE i = 1
      BY <2>1, <3>1
    <3>2. CASE i = 2
      BY <2>1, <2>2, <3>2
    <3>3. CASE i = 3
      BY <2>1, <2>2, <3>3
    <3>4. CASE i = 4
      BY <2>1, <2>2, <3>4
    <3>5. CASE i = 5
      BY <2>1, <2>2, <3>5
    <3>6. CASE i = 6
      BY <2>1, <2>2, <3>6
    <3> QED
      BY <2>2, <3>1, <3>2, <3>3, <3>4, <3>5, <3>6
  <2>4. g = [i \in 0..n |-> g[i]]
    BY DEF g
  <2>5. \A i \in 0..n : g[i] = (IF i = 0 THEN r ELSE Obey(g[i - 1], commands[i]))
    <3> TAKE i \in 0..n
    <3>1. CASE i = 0
      BY <2>1, <3>1
    <3>2. CASE i # 0
      <4>1. i \in 1..n
        BY <3>2
      <4> QED
        BY <2>3, <3>2, <4>1
    <3> QED
      BY <3>1, <3>2
  <2>6. g = [i \in 0..n |-> IF i = 0 THEN r ELSE Obey(g[i - 1], commands[i])]
    BY <2>4, <2>5, Zenon
  <2> QED
    BY <2>6
<1>2. Solves(after)
  BY <1>1, Zenon
<1>3. ObeyAll(r, commands) = after[n]
  BY DEF ObeyAll
<1> HIDE DEF after
<1>4. \A i \in 0..n : after[i] = (IF i = 0 THEN r ELSE Obey(after[i - 1], commands[i]))
  BY <1>2
<1>5. after[0] = r
  BY <1>4
<1>6. \A i \in 1..n : after[i] = Obey(after[i - 1], commands[i])
  BY <1>4
<1>7. after[1] = Obey(r, commands[1]) /\ \A i \in 2..n : i \in 1..n
  BY <1>5, <1>6
<1> QED
  BY <1>3, <1>6, <1>7

LEMMA ObeyOne ==
  ASSUME NEW r, NEW a
  PROVE  ObeyAll(r, <<a>>) = Obey(r, a)
<1> DEFINE s == <<a>>
<1>1. Len(s) = 1 /\ s[1] = a
  OBVIOUS
<1> HIDE DEF s
<1>2. PICK after : /\ ObeyAll(r, s) = after[1] /\ after[1] = Obey(r, s[1])
                   /\ \A i \in 2..1 : after[i] = Obey(after[i - 1], s[i])
  BY <1>1, ObeyAllIs
<1> QED
  BY <1>1, <1>2 DEF s

LEMMA ObeyTwo ==
  ASSUME NEW r, NEW a, NEW b
  PROVE  ObeyAll(r, <<a, b>>) = Obey(Obey(r, a), b)
<1> DEFINE s == <<a, b>>
<1>1. Len(s) = 2 /\ s[1] = a /\ s[2] = b
  OBVIOUS
<1> HIDE DEF s
<1>2. PICK after : /\ ObeyAll(r, s) = after[2] /\ after[1] = Obey(r, s[1])
                   /\ \A i \in 2..2 : after[i] = Obey(after[i - 1], s[i])
  BY <1>1, ObeyAllIs
<1>3. after[2] = Obey(after[1], s[2])
  BY <1>2
<1> QED
  BY <1>1, <1>2, <1>3 DEF s

LEMMA ObeyThree ==
  ASSUME NEW r, NEW a, NEW b, NEW c
  PROVE  ObeyAll(r, <<a, b, c>>) = Obey(Obey(Obey(r, a), b), c)
<1> DEFINE s == <<a, b, c>>
<1>1. Len(s) = 3 /\ s[1] = a /\ s[2] = b /\ s[3] = c
  OBVIOUS
<1> HIDE DEF s
<1>2. PICK after : /\ ObeyAll(r, s) = after[3] /\ after[1] = Obey(r, s[1])
                   /\ \A i \in 2..3 : after[i] = Obey(after[i - 1], s[i])
  BY <1>1, ObeyAllIs
<1>3. /\ after[2] = Obey(after[1], s[2])
      /\ after[3] = Obey(after[2], s[3])
  BY <1>2
<1> QED
  BY <1>1, <1>2, <1>3 DEF s

LEMMA ObeyFour ==
  ASSUME NEW r, NEW a, NEW b, NEW c, NEW d
  PROVE  ObeyAll(r, <<a, b, c, d>>) = Obey(Obey(Obey(Obey(r, a), b), c), d)
<1> DEFINE s == <<a, b, c, d>>
<1>1. Len(s) = 4 /\ s[1] = a /\ s[2] = b /\ s[3] = c /\ s[4] = d
  OBVIOUS
<1> HIDE DEF s
<1>2. PICK after : /\ ObeyAll(r, s) = after[4] /\ after[1] = Obey(r, s[1])
                   /\ \A i \in 2..4 : after[i] = Obey(after[i - 1], s[i])
  BY <1>1, ObeyAllIs
<1>3. /\ after[2] = Obey(after[1], s[2])
      /\ after[3] = Obey(after[2], s[3])
      /\ after[4] = Obey(after[3], s[4])
  BY <1>2
<1> QED
  BY <1>1, <1>2, <1>3 DEF s

LEMMA ObeySix ==
  ASSUME NEW r, NEW a, NEW b, NEW c, NEW d, NEW e, NEW f
  PROVE  ObeyAll(r, <<a, b, c, d, e, f>>) = Obey(Obey(Obey(Obey(Obey(Obey(r, a), b), c), d), e), f)
<1> DEFINE s == <<a, b, c, d, e, f>>
<1>1. Len(s) = 6 /\ s[1] = a /\ s[2] = b /\ s[3] = c /\ s[4] = d /\ s[5] = e /\ s[6] = f
  OBVIOUS
<1> HIDE DEF s
<1>2. PICK after : /\ ObeyAll(r, s) = after[6] /\ after[1] = Obey(r, s[1])
                   /\ \A i \in 2..6 : after[i] = Obey(after[i - 1], s[i])
  BY <1>1, ObeyAllIs
<1>3. /\ after[2] = Obey(after[1], s[2])
      /\ after[3] = Obey(after[2], s[3])
      /\ after[4] = Obey(after[3], s[4])
      /\ after[5] = Obey(after[4], s[5])
      /\ after[6] = Obey(after[5], s[6])
  BY <1>2
<1> QED
  BY <1>1, <1>2, <1>3 DEF s

-----------------------------------------------------------------------------
\* What each mode makes of the five registers.
LEMMA NormalIs ==
  ASSUME NEW o, NEW i, NEW h, NEW v, NEW k, NEW r,
         r = [on |-> o, inverted |-> i, flipH |-> h, flipV |-> v, contrast |-> k]
  PROVE  ObeyAll(r, ModeCommands["NORMAL"])
           = [on |-> o, inverted |-> Off, flipH |-> Off, flipV |-> Off, contrast |-> 255]
<1> DEFINE r1 == Obey(r, "NORMAL_DISPLAY")
           r2 == Obey(r1, "SEGMENT_REMAP")
           r3 == Obey(r2, "COM_REMAP")
           r4 == Obey(r3, "CONTRAST_FF")
<1>1. ModeCommands["NORMAL"] = <<"NORMAL_DISPLAY", "SEGMENT_REMAP", "COM_REMAP", "CONTRAST_FF">>
  BY DEF ModeCommands, Normal
<1>2. ObeyAll(r, ModeCommands["NORMAL"]) = r4
  BY <1>1, ObeyFour
<1>3. r1 = [on |-> o, inverted |-> Off, flipH |-> h, flipV |-> v, contrast |-> k]
  <2>1. r1 = [r EXCEPT !.inverted = Off]
    BY NormalDisplayIs
  <2> QED
    BY <2>1
<1> HIDE DEF r1
<1>4. r2 = [on |-> o, inverted |-> Off, flipH |-> Off, flipV |-> v, contrast |-> k]
  <2>1. r2 = [r1 EXCEPT !.flipH = Off]
    BY SegmentRemapIs
  <2> QED
    BY <1>3, <2>1
<1> HIDE DEF r2
<1>5. r3 = [on |-> o, inverted |-> Off, flipH |-> Off, flipV |-> Off, contrast |-> k]
  <2>1. r3 = [r2 EXCEPT !.flipV = Off]
    BY ComRemapIs
  <2> QED
    BY <1>4, <2>1
<1> HIDE DEF r3
<1>6. r4 = [on |-> o, inverted |-> Off, flipH |-> Off, flipV |-> Off, contrast |-> 255]
  <2>1. r4 = [r3 EXCEPT !.contrast = 255]
    BY FullContrastIs
  <2> QED
    BY <1>5, <2>1
<1> HIDE DEF r4
<1> QED
  BY <1>2, <1>6

LEMMA InvertedIs ==
  ASSUME NEW o, NEW i, NEW h, NEW v, NEW k, NEW r,
         r = [on |-> o, inverted |-> i, flipH |-> h, flipV |-> v, contrast |-> k]
  PROVE  ObeyAll(r, ModeCommands["INVERTED"])
           = [on |-> o, inverted |-> On, flipH |-> h, flipV |-> v, contrast |-> k]
<1> DEFINE r1 == Obey(r, "INVERT_DISPLAY")
<1>1. ModeCommands["INVERTED"] = <<"INVERT_DISPLAY">>
  BY DEF ModeCommands, Normal
<1>2. ObeyAll(r, ModeCommands["INVERTED"]) = r1
  BY <1>1, ObeyOne
<1>3. r1 = [on |-> o, inverted |-> On, flipH |-> h, flipV |-> v, contrast |-> k]
  <2>1. r1 = [r EXCEPT !.inverted = On]
    BY InvertDisplayIs
  <2> QED
    BY <2>1
<1> HIDE DEF r1
<1> QED
  BY <1>2, <1>3

LEMMA FlipHIs ==
  ASSUME NEW o, NEW i, NEW h, NEW v, NEW k, NEW r,
         r = [on |-> o, inverted |-> i, flipH |-> h, flipV |-> v, contrast |-> k]
  PROVE  ObeyAll(r, ModeCommands["FLIP_H"])
           = [on |-> o, inverted |-> Off, flipH |-> On, flipV |-> v, contrast |-> k]
<1> DEFINE r1 == Obey(r, "NORMAL_DISPLAY")
           r2 == Obey(r1, "SEGMENT_REVERSE")
<1>1. ModeCommands["FLIP_H"] = <<"NORMAL_DISPLAY", "SEGMENT_REVERSE">>
  BY DEF ModeCommands, Normal
<1>2. ObeyAll(r, ModeCommands["FLIP_H"]) = r2
  BY <1>1, ObeyTwo
<1>3. r1 = [on |-> o, inverted |-> Off, flipH |-> h, flipV |-> v, contrast |-> k]
  <2>1. r1 = [r EXCEPT !.inverted = Off]
    BY NormalDisplayIs
  <2> QED
    BY <2>1
<1> HIDE DEF r1
<1>4. r2 = [on |-> o, inverted |-> Off, flipH |-> On, flipV |-> v, contrast |-> k]
  <2>1. r2 = [r1 EXCEPT !.flipH = On]
    BY SegmentReverseIs
  <2> QED
    BY <1>3, <2>1
<1> HIDE DEF r2
<1> QED
  BY <1>2, <1>4

LEMMA FlipVIs ==
  ASSUME NEW o, NEW i, NEW h, NEW v, NEW k, NEW r,
         r = [on |-> o, inverted |-> i, flipH |-> h, flipV |-> v, contrast |-> k]
  PROVE  ObeyAll(r, ModeCommands["FLIP_V"])
           = [on |-> o, inverted |-> Off, flipH |-> h, flipV |-> On, contrast |-> k]
<1> DEFINE r1 == Obey(r, "NORMAL_DISPLAY")
           r2 == Obey(r1, "COM_NORMAL")
<1>1. ModeCommands["FLIP_V"] = <<"NORMAL_DISPLAY", "COM_NORMAL">>
  BY DEF ModeCommands, Normal
<1>2. ObeyAll(r, ModeCommands["FLIP_V"]) = r2
  BY <1>1, ObeyTwo
<1>3. r1 = [on |-> o, inverted |-> Off, flipH |-> h, flipV |-> v, contrast |-> k]
  <2>1. r1 = [r EXCEPT !.inverted = Off]
    BY NormalDisplayIs
  <2> QED
    BY <2>1
<1> HIDE DEF r1
<1>4. r2 = [on |-> o, inverted |-> Off, flipH |-> h, flipV |-> On, contrast |-> k]
  <2>1. r2 = [r1 EXCEPT !.flipV = On]
    BY ComNormalIs
  <2> QED
    BY <1>3, <2>1
<1> HIDE DEF r2
<1> QED
  BY <1>2, <1>4

LEMMA RotateIs ==
  ASSUME NEW o, NEW i, NEW h, NEW v, NEW k, NEW r,
         r = [on |-> o, inverted |-> i, flipH |-> h, flipV |-> v, contrast |-> k]
  PROVE  ObeyAll(r, ModeCommands["ROTATE_180"])
           = [on |-> o, inverted |-> Off, flipH |-> On, flipV |-> On, contrast |-> k]
<1> DEFINE r1 == Obey(r, "NORMAL_DISPLAY")
           r2 == Obey(r1, "SEGMENT_REVERSE")
           r3 == Obey(r2, "COM_NORMAL")
<1>1. ModeCommands["ROTATE_180"] = <<"NORMAL_DISPLAY", "SEGMENT_REVERSE", "COM_NORMAL">>
  BY DEF ModeCommands, Normal
<1>2. ObeyAll(r, ModeCommands["ROTATE_180"]) = r3
  BY <1>1, ObeyThree
<1>3. r1 = [on |-> o, inverted |-> Off, flipH |-> h, flipV |-> v, contrast |-> k]
  <2>1. r1 = [r EXCEPT !.inverted = Off]
    BY NormalDisplayIs
  <2> QED
    BY <2>1
<1> HIDE DEF r1
<1>4. r2 = [on |-> o, inverted |-> Off, flipH |-> On, flipV |-> v, contrast |-> k]
  <2>1. r2 = [r1 EXCEPT !.flipH = On]
    BY SegmentReverseIs
  <2> QED
    BY <1>3, <2>1
<1> HIDE DEF r2
<1>5. r3 = [on |-> o, inverted |-> Off, flipH |-> On, flipV |-> On, contrast |-> k]
  <2>1. r3 = [r2 EXCEPT !.flipV = On]
    BY ComNormalIs
  <2> QED
    BY <1>4, <2>1
<1> HIDE DEF r3
<1> QED
  BY <1>2, <1>5

LEMMA DimIs ==
  ASSUME NEW o, NEW i, NEW h, NEW v, NEW k, NEW r,
         r = [on |-> o, inverted |-> i, flipH |-> h, flipV |-> v, contrast |-> k]
  PROVE  ObeyAll(r, ModeCommands["DIM"])
           = [on |-> o, inverted |-> Off, flipH |-> h, flipV |-> v, contrast |-> 64]
<1> DEFINE r1 == Obey(r, "NORMAL_DISPLAY")
           r2 == Obey(r1, "CONTRAST_40")
<1>1. ModeCommands["DIM"] = <<"NORMAL_DISPLAY", "CONTRAST_40">>
  BY DEF ModeCommands, Normal
<1>2. ObeyAll(r, ModeCommands["DIM"]) = r2
  BY <1>1, ObeyTwo
<1>3. r1 = [on |-> o, inverted |-> Off, flipH |-> h, flipV |-> v, contrast |-> k]
  <2>1. r1 = [r EXCEPT !.inverted = Off]
    BY NormalDisplayIs
  <2> QED
    BY <2>1
<1> HIDE DEF r1
<1>4. r2 = [on |-> o, inverted |-> Off, flipH |-> h, flipV |-> v, contrast |-> 64]
  <2>1. r2 = [r1 EXCEPT !.contrast = 64]
    BY LowContrastIs
  <2> QED
    BY <1>3, <2>1
<1> HIDE DEF r2
<1> QED
  BY <1>2, <1>4

LEMMA OffIs ==
  ASSUME NEW o, NEW i, NEW h, NEW v, NEW k, NEW r,
         r = [on |-> o, inverted |-> i, flipH |-> h, flipV |-> v, contrast |-> k]
  PROVE  ObeyAll(r, ModeCommands["OFF"])
           = [on |-> Off, inverted |-> i, flipH |-> h, flipV |-> v, contrast |-> k]
<1> DEFINE r1 == Obey(r, "DISPLAY_OFF")
<1>1. ModeCommands["OFF"] = <<"DISPLAY_OFF">>
  BY DEF ModeCommands, Normal
<1>2. ObeyAll(r, ModeCommands["OFF"]) = r1
  BY <1>1, ObeyOne
<1>3. r1 = [on |-> Off, inverted |-> i, flipH |-> h, flipV |-> v, contrast |-> k]
  <2>1. r1 = [r EXCEPT !.on = Off]
    BY DisplayOffIs
  <2> QED
    BY <2>1
<1> HIDE DEF r1
<1> QED
  BY <1>2, <1>3

LEMMA OnIs ==
  ASSUME NEW o, NEW i, NEW h, NEW v, NEW k, NEW r,
         r = [on |-> o, inverted |-> i, flipH |-> h, flipV |-> v, contrast |-> k]
  PROVE  ObeyAll(r, ModeCommands["ON"])
           = [on |-> On, inverted |-> i, flipH |-> h, flipV |-> v, contrast |-> k]
<1> DEFINE r1 == Obey(r, "DISPLAY_ON")
<1>1. ModeCommands["ON"] = <<"DISPLAY_ON">>
  BY DEF ModeCommands, Normal
<1>2. ObeyAll(r, ModeCommands["ON"]) = r1
  BY <1>1, ObeyOne
<1>3. r1 = [on |-> On, inverted |-> i, flipH |-> h, flipV |-> v, contrast |-> k]
  <2>1. r1 = [r EXCEPT !.on = On]
    BY DisplayOnIs
  <2> QED
    BY <2>1
<1> HIDE DEF r1
<1> QED
  BY <1>2, <1>3

LEMMA InitIs ==
  ASSUME NEW o, NEW i, NEW h, NEW v, NEW k, NEW r,
         r = [on |-> o, inverted |-> i, flipH |-> h, flipV |-> v, contrast |-> k]
  PROVE  ObeyAll(r, init_seq)
           = [on |-> On, inverted |-> Off, flipH |-> Off, flipV |-> Off, contrast |-> 255]
<1> DEFINE r1 == Obey(r, "DISPLAY_OFF")
           r2 == Obey(r1, "SEGMENT_REMAP")
           r3 == Obey(r2, "COM_REMAP")
           r4 == Obey(r3, "CONTRAST_FF")
           r5 == Obey(r4, "NORMAL_DISPLAY")
           r6 == Obey(r5, "DISPLAY_ON")
<1>1. init_seq = <<"DISPLAY_OFF", "SEGMENT_REMAP", "COM_REMAP", "CONTRAST_FF", "NORMAL_DISPLAY", "DISPLAY_ON">>
  BY DEF init_seq
<1>2. ObeyAll(r, init_seq) = r6
  BY <1>1, ObeySix
<1>3. r1 = [on |-> Off, inverted |-> i, flipH |-> h, flipV |-> v, contrast |-> k]
  <2>1. r1 = [r EXCEPT !.on = Off]
    BY DisplayOffIs
  <2> QED
    BY <2>1
<1> HIDE DEF r1
<1>4. r2 = [on |-> Off, inverted |-> i, flipH |-> Off, flipV |-> v, contrast |-> k]
  <2>1. r2 = [r1 EXCEPT !.flipH = Off]
    BY SegmentRemapIs
  <2> QED
    BY <1>3, <2>1
<1> HIDE DEF r2
<1>5. r3 = [on |-> Off, inverted |-> i, flipH |-> Off, flipV |-> Off, contrast |-> k]
  <2>1. r3 = [r2 EXCEPT !.flipV = Off]
    BY ComRemapIs
  <2> QED
    BY <1>4, <2>1
<1> HIDE DEF r3
<1>6. r4 = [on |-> Off, inverted |-> i, flipH |-> Off, flipV |-> Off, contrast |-> 255]
  <2>1. r4 = [r3 EXCEPT !.contrast = 255]
    BY FullContrastIs
  <2> QED
    BY <1>5, <2>1
<1> HIDE DEF r4
<1>7. r5 = [on |-> Off, inverted |-> Off, flipH |-> Off, flipV |-> Off, contrast |-> 255]
  <2>1. r5 = [r4 EXCEPT !.inverted = Off]
    BY NormalDisplayIs
  <2> QED
    BY <1>6, <2>1
<1> HIDE DEF r5
<1>8. r6 = [on |-> On, inverted |-> Off, flipH |-> Off, flipV |-> Off, contrast |-> 255]
  <2>1. r6 = [r5 EXCEPT !.on = On]
    BY DisplayOnIs
  <2> QED
    BY <1>7, <2>1
<1> HIDE DEF r6
<1> QED
  BY <1>2, <1>8

-----------------------------------------------------------------------------
LEMMA InitPanel == ShInit => PanelInv
<1> SUFFICES ASSUME ShInit PROVE PanelInv
  OBVIOUS
<1>1. /\ buf \in [PageNumbers -> [PanelColumns -> Bytes]]
      /\ sent \subseteq PageNumbers /\ SentShown
      /\ asked.on \in BOOLEAN /\ asked = [modes |-> asked.modes, on |-> asked.on]
  BY DEF ShInit, SentShown, Bytes
<1>2. ram \in [PageNumbers -> [RamColumns -> Bytes]]
  <2>1. PICK s \in Shades : ram = [p \in PageNumbers |-> [c \in RamColumns |-> s]]
    BY DEF ShInit
  <2> QED
    BY <2>1 DEF Bytes
<1>3. ModesAdd
  <2> DEFINE r == [on |-> Off, inverted |-> On, flipH |-> On, flipV |-> On, contrast |-> 0]
  <2>1. ObeyAll(r, init_seq)
          = [on |-> On, inverted |-> Off, flipH |-> Off, flipV |-> Off, contrast |-> 255]
    BY InitIs
  <2>2. registers = ObeyAll(r, init_seq)
    BY DEF ShInit, On, Off
  <2> HIDE DEF r
  <2>3. /\ asked.on = On /\ ("INVERTED" \in asked.modes) = Off
        /\ (asked.modes \cap {"FLIP_H", "ROTATE_180"} # {}) = Off
        /\ (asked.modes \cap {"FLIP_V", "ROTATE_180"} # {}) = Off
        /\ (IF "DIM" \in asked.modes THEN 64 ELSE 255) = 255
    BY DEF ShInit, On, Off
  <2> QED
    BY <2>1, <2>2, <2>3, Zenon DEF ModesAdd
<1> QED
  BY <1>1, <1>2, <1>3 DEF PanelInv

LEMMA PagePanel == ASSUME PanelInv, NEW p \in PageNumbers, Page(p) PROVE PanelInv'
<1>1. /\ buf \in [PageNumbers -> [PanelColumns -> Bytes]]
      /\ ram \in [PageNumbers -> [RamColumns -> Bytes]]
      /\ sent \subseteq PageNumbers /\ SentShown /\ ModesAdd
      /\ LastColumn \in Nat /\ Margin = 2
  BY ShAssumption DEF PanelInv
<1> DEFINE row == [c \in RamColumns |->
                     IF LastColumn - (c - 2) \in PanelColumns THEN buf[p][LastColumn - (c - 2)]
                     ELSE ram[p][c]]
<1>2. ram' = [ram EXCEPT ![p] = row] /\ sent' = sent \cup {p}
      /\ buf' = buf /\ registers' = registers /\ asked' = asked /\ drawn' = drawn
  BY DEF Page, Placed
<1>3. row \in [RamColumns -> Bytes]
  <2>1. \A c \in RamColumns : ram[p][c] \in Bytes
    BY <1>1
  <2>2. \A i \in PanelColumns : buf[p][i] \in Bytes
    BY <1>1
  <2> QED
    BY <2>1, <2>2
<1>4. \A c \in PanelColumns : row[LastColumn - c + Margin] = buf[p][c]
  <2> TAKE c \in PanelColumns
  <2>1. LastColumn - c + Margin \in RamColumns
    BY <1>1 DEF PanelColumns, RamColumns
  <2>2. LastColumn - ((LastColumn - c + Margin) - 2) = c
    BY <1>1 DEF PanelColumns
  <2> QED
    BY <2>1, <2>2
<1> HIDE DEF row
<1>5. /\ ram' \in [PageNumbers -> [RamColumns -> Bytes]] /\ ram'[p] = row
      /\ \A q \in PageNumbers : q # p => ram'[q] = ram[q]
  BY <1>1, <1>2, <1>3
<1>6. SentShown'
  BY <1>1, <1>2, <1>4, <1>5 DEF SentShown
<1>7. ModesAdd'
  BY <1>1, <1>2 DEF ModesAdd
<1> QED
  BY <1>1, <1>2, <1>5, <1>6, <1>7 DEF PanelInv

LEMMA ModePanel ==
  ASSUME PanelInv, NEW mode \in DOMAIN ModeCommands, SetMode(mode)
  PROVE  PanelInv'
<1>1. /\ ModesAdd /\ SentShown /\ asked.on \in BOOLEAN
      /\ asked = [modes |-> asked.modes, on |-> asked.on]
  BY DEF PanelInv
<1>2. mode \in {"NORMAL", "INVERTED", "FLIP_H", "FLIP_V", "ROTATE_180", "DIM", "OFF", "ON"}
  BY DEF ModeCommands
<1>3. /\ registers' = ObeyAll(registers, ModeCommands[mode])
      /\ asked' = (IF mode \in {"ON", "OFF"} THEN [asked EXCEPT !.on = (mode = "ON")]
                   ELSE IF mode = "NORMAL" THEN [asked EXCEPT !.modes = {}]
                   ELSE [asked EXCEPT !.modes = (@ \ {"INVERTED"}) \cup {mode}])
      /\ buf' = buf /\ ram' = ram /\ sent' = sent /\ drawn' = drawn
  BY DEF SetMode
<1>4. /\ asked'.modes = (IF mode \in {"ON", "OFF"} THEN asked.modes ELSE IF mode = "NORMAL" THEN {}
                         ELSE (asked.modes \ {"INVERTED"}) \cup {mode})
      /\ asked'.on = (IF mode \in {"ON", "OFF"} THEN mode = "ON" ELSE asked.on)
      /\ asked' = [modes |-> asked'.modes, on |-> asked'.on]
  BY <1>1, <1>3
<1> DEFINE M == asked.modes
           N == asked'.modes
           o == asked.on
           i == "INVERTED" \in M
           h == M \cap {"FLIP_H", "ROTATE_180"} # {}
           v == M \cap {"FLIP_V", "ROTATE_180"} # {}
           k == IF "DIM" \in M THEN 64 ELSE 255
           o2 == asked'.on
           i2 == "INVERTED" \in N
           h2 == N \cap {"FLIP_H", "ROTATE_180"} # {}
           v2 == N \cap {"FLIP_V", "ROTATE_180"} # {}
           k2 == IF "DIM" \in N THEN 64 ELSE 255
<1>5. registers = [on |-> o, inverted |-> i, flipH |-> h, flipV |-> v, contrast |-> k]
  BY <1>1, Zenon DEF ModesAdd
<1>6. registers' = [on |-> o2, inverted |-> i2, flipH |-> h2, flipV |-> v2, contrast |-> k2]
  <2> HIDE DEF M, N, o, i, h, v, k, o2, i2, h2, v2, k2
  <2>1. CASE mode = "NORMAL"
    <3>1. registers' = ObeyAll(registers, ModeCommands["NORMAL"])
      BY <1>3, <2>1
    <3>2. registers' = [on |-> o, inverted |-> Off, flipH |-> Off, flipV |-> Off, contrast |-> 255]
      BY <1>5, <3>1, NormalIs
    <3>3. o2 = o
      BY <1>4, <2>1 DEF o2, o
    <3>4. i2 = Off
      BY <1>4, <2>1 DEF Off, i2, N
    <3>5. h2 = Off
      BY <1>4, <2>1 DEF Off, h2, N
    <3>6. v2 = Off
      BY <1>4, <2>1 DEF Off, v2, N
    <3>7. k2 = 255
      BY <1>4, <2>1 DEF k2, N
    <3> QED
      BY <3>2, <3>3, <3>4, <3>5, <3>6, <3>7, Zenon
  <2>2. CASE mode = "INVERTED"
    <3>1. registers' = ObeyAll(registers, ModeCommands["INVERTED"])
      BY <1>3, <2>2
    <3>2. registers' = [on |-> o, inverted |-> On, flipH |-> h, flipV |-> v, contrast |-> k]
      BY <1>5, <3>1, InvertedIs
    <3>3. o2 = o
      BY <1>4, <2>2 DEF o2, o
    <3>4. i2 = On
      BY <1>4, <2>2 DEF On, i2, N
    <3>5. h2 = h
      BY <1>4, <2>2 DEF h2, h, N, M
    <3>6. v2 = v
      BY <1>4, <2>2 DEF v2, v, N, M
    <3>7. k2 = k
      BY <1>4, <2>2 DEF k2, k, N, M
    <3> QED
      BY <3>2, <3>3, <3>4, <3>5, <3>6, <3>7, Zenon
  <2>3. CASE mode = "FLIP_H"
    <3>1. registers' = ObeyAll(registers, ModeCommands["FLIP_H"])
      BY <1>3, <2>3
    <3>2. registers' = [on |-> o, inverted |-> Off, flipH |-> On, flipV |-> v, contrast |-> k]
      BY <1>5, <3>1, FlipHIs
    <3>3. o2 = o
      BY <1>4, <2>3 DEF o2, o
    <3>4. i2 = Off
      BY <1>4, <2>3 DEF Off, i2, N
    <3>5. h2 = On
      BY <1>4, <2>3 DEF On, h2, N
    <3>6. v2 = v
      BY <1>4, <2>3 DEF v2, v, N, M
    <3>7. k2 = k
      BY <1>4, <2>3 DEF k2, k, N, M
    <3> QED
      BY <3>2, <3>3, <3>4, <3>5, <3>6, <3>7, Zenon
  <2>4. CASE mode = "FLIP_V"
    <3>1. registers' = ObeyAll(registers, ModeCommands["FLIP_V"])
      BY <1>3, <2>4
    <3>2. registers' = [on |-> o, inverted |-> Off, flipH |-> h, flipV |-> On, contrast |-> k]
      BY <1>5, <3>1, FlipVIs
    <3>3. o2 = o
      BY <1>4, <2>4 DEF o2, o
    <3>4. i2 = Off
      BY <1>4, <2>4 DEF Off, i2, N
    <3>5. h2 = h
      BY <1>4, <2>4 DEF h2, h, N, M
    <3>6. v2 = On
      BY <1>4, <2>4 DEF On, v2, N
    <3>7. k2 = k
      BY <1>4, <2>4 DEF k2, k, N, M
    <3> QED
      BY <3>2, <3>3, <3>4, <3>5, <3>6, <3>7, Zenon
  <2>5. CASE mode = "ROTATE_180"
    <3>1. registers' = ObeyAll(registers, ModeCommands["ROTATE_180"])
      BY <1>3, <2>5
    <3>2. registers' = [on |-> o, inverted |-> Off, flipH |-> On, flipV |-> On, contrast |-> k]
      BY <1>5, <3>1, RotateIs
    <3>3. o2 = o
      BY <1>4, <2>5 DEF o2, o
    <3>4. i2 = Off
      BY <1>4, <2>5 DEF Off, i2, N
    <3>5. h2 = On
      BY <1>4, <2>5 DEF On, h2, N
    <3>6. v2 = On
      BY <1>4, <2>5 DEF On, v2, N
    <3>7. k2 = k
      BY <1>4, <2>5 DEF k2, k, N, M
    <3> QED
      BY <3>2, <3>3, <3>4, <3>5, <3>6, <3>7, Zenon
  <2>6. CASE mode = "DIM"
    <3>1. registers' = ObeyAll(registers, ModeCommands["DIM"])
      BY <1>3, <2>6
    <3>2. registers' = [on |-> o, inverted |-> Off, flipH |-> h, flipV |-> v, contrast |-> 64]
      BY <1>5, <3>1, DimIs
    <3>3. o2 = o
      BY <1>4, <2>6 DEF o2, o
    <3>4. i2 = Off
      BY <1>4, <2>6 DEF Off, i2, N
    <3>5. h2 = h
      BY <1>4, <2>6 DEF h2, h, N, M
    <3>6. v2 = v
      BY <1>4, <2>6 DEF v2, v, N, M
    <3>7. k2 = 64
      BY <1>4, <2>6 DEF k2, N
    <3> QED
      BY <3>2, <3>3, <3>4, <3>5, <3>6, <3>7, Zenon
  <2>7. CASE mode = "OFF"
    <3>1. registers' = ObeyAll(registers, ModeCommands["OFF"])
      BY <1>3, <2>7
    <3>2. registers' = [on |-> Off, inverted |-> i, flipH |-> h, flipV |-> v, contrast |-> k]
      BY <1>5, <3>1, OffIs
    <3>3. o2 = Off
      BY <1>4, <2>7 DEF Off, o2
    <3>4. i2 = i
      BY <1>4, <2>7 DEF i2, i, N, M
    <3>5. h2 = h
      BY <1>4, <2>7 DEF h2, h, N, M
    <3>6. v2 = v
      BY <1>4, <2>7 DEF v2, v, N, M
    <3>7. k2 = k
      BY <1>4, <2>7 DEF k2, k, N, M
    <3> QED
      BY <3>2, <3>3, <3>4, <3>5, <3>6, <3>7, Zenon
  <2>8. CASE mode = "ON"
    <3>1. registers' = ObeyAll(registers, ModeCommands["ON"])
      BY <1>3, <2>8
    <3>2. registers' = [on |-> On, inverted |-> i, flipH |-> h, flipV |-> v, contrast |-> k]
      BY <1>5, <3>1, OnIs
    <3>3. o2 = On
      BY <1>4, <2>8 DEF On, o2
    <3>4. i2 = i
      BY <1>4, <2>8 DEF i2, i, N, M
    <3>5. h2 = h
      BY <1>4, <2>8 DEF h2, h, N, M
    <3>6. v2 = v
      BY <1>4, <2>8 DEF v2, v, N, M
    <3>7. k2 = k
      BY <1>4, <2>8 DEF k2, k, N, M
    <3> QED
      BY <3>2, <3>3, <3>4, <3>5, <3>6, <3>7, Zenon
  <2> QED
    BY <1>2, <2>1, <2>2, <2>3, <2>4, <2>5, <2>6, <2>7, <2>8
<1>7. ModesAdd'
  BY <1>6, Zenon DEF ModesAdd
<1>8. SentShown'
  BY <1>1, <1>3 DEF SentShown
<1>9. asked'.on \in BOOLEAN
  BY <1>1, <1>4
<1> QED
  BY <1>3, <1>4, <1>7, <1>8, <1>9 DEF PanelInv

LEMMA StepPanel == PanelInv /\ [ShNext]_shVars => PanelInv'
<1> SUFFICES ASSUME PanelInv, [ShNext]_shVars PROVE PanelInv'
  OBVIOUS
<1>1. CASE Update
  <2>1. SentShown' /\ ModesAdd'
    BY <1>1 DEF PanelInv, Update, SentShown, ModesAdd
  <2> QED
    BY <1>1, <2>1 DEF PanelInv, Update
<1>2. CASE Draw
  <2>1. PICK p \in PageNumbers, c \in PanelColumns, s \in Shades :
          buf' = [buf EXCEPT ![p][c] = s]
    BY <1>2 DEF Draw
  <2>2. buf' \in [PageNumbers -> [PanelColumns -> Bytes]]
    BY <2>1 DEF PanelInv, Bytes
  <2>3. SentShown' /\ ModesAdd'
    BY <1>2 DEF PanelInv, Draw, SentShown, ModesAdd
  <2> QED
    BY <1>2, <2>2, <2>3 DEF PanelInv, Draw
<1>3. CASE \E p \in PageNumbers : Page(p)
  BY <1>3, PagePanel
<1>4. CASE \E mode \in DOMAIN ModeCommands : SetMode(mode)
  BY <1>4, ModePanel
<1>5. CASE UNCHANGED shVars
  BY <1>5 DEF shVars, PanelInv, SentShown, ModesAdd
<1> QED
  BY <1>1, <1>2, <1>3, <1>4, <1>5 DEF ShNext

(***************************************************************************)
(* Whatever tasks draw between the pages of an update, the panel shows the *)
(* buffer at its end if they drew nothing, and the registers are those of  *)
(* the modes asked for since the last NORMAL (update and setMode of the    *)
(* SH1106).                                                                *)
(***************************************************************************)
THEOREM PanelsShow == ShSpec => []PanelSound
<1>1. PanelInv => PanelSound
  BY DEF PanelInv, SentShown, PanelSound, Shown
<1> QED
  BY <1>1, InitPanel, StepPanel, PTL DEF ShSpec
=============================================================================
