------------------------------- MODULE Vector --------------------------------
(***************************************************************************)
(* Util::Vector: a growing array in one block of the heap, owned by one    *)
(* vector at a time. Blocks are identified by numbers that are not used    *)
(* again.                                                                  *)
(***************************************************************************)
EXTENDS Integers, Sequences

CONSTANTS
  Vectors,
  FirstCapacity,   \* 8 in the code
  MaxBlocks        \* bound of the run: blocks taken from the heap

ASSUME VectorAssumption == FirstCapacity \in Nat \ {0} /\ MaxBlocks \in Nat

VARIABLES
  data,        \* block of a vector, 0 for none
  capacity,    \* __capacity
  size,        \* __size
  room,        \* blocks alive and the elements each has room for
  freed,       \* blocks given back
  taken,       \* number of blocks taken so far
  overrun      \* an element was stored past its block

vectorVars == <<data, capacity, size, room, freed, taken, overrun>>

VectorInit ==
  /\ data = [v \in Vectors |-> 0] /\ capacity = [v \in Vectors |-> 0]
  /\ size = [v \in Vectors |-> 0]
  /\ room = <<>> /\ freed = {} /\ taken = 0 /\ overrun = FALSE

-----------------------------------------------------------------------------
Release(blocks) == freed' = freed \cup blocks

\* Variant: the old block is not given back.
ReallocatedKept(v, n, ok) ==
  IF ~ok THEN UNCHANGED <<data, capacity, room, taken, freed>>
  ELSE /\ taken' = taken + 1
       /\ room' = Append(room, n)
       /\ data' = [data EXCEPT ![v] = taken + 1]
       /\ capacity' = [capacity EXCEPT ![v] = n]
       /\ UNCHANGED freed

\* The block moves to a larger one, or the heap has none: nothing changes.
Reallocated(v, n, ok) ==
  IF ~ok THEN UNCHANGED <<data, capacity, room, taken, freed>>
  ELSE /\ taken' = taken + 1
       /\ room' = Append(room, n)
       /\ data' = [data EXCEPT ![v] = taken + 1]
       /\ capacity' = [capacity EXCEPT ![v] = n]
       /\ Release({data[v]} \ {0})

Obtains == {ok \in BOOLEAN : ok => taken < MaxBlocks}

Reserve(v, n) ==
  /\ n > size[v]
  /\ \E ok \in Obtains : Reallocated(v, n, ok)
  /\ UNCHANGED <<size, overrun>>

Grown(v) == IF capacity[v] = 0 THEN FirstCapacity ELSE 2 * capacity[v]

\* Variant: the vector grows when one element still fits, and stores past it.
PushBackLate(v) ==
  /\ \E ok \in Obtains :
       /\ IF size[v] > capacity[v] THEN Reallocated(v, Grown(v), ok)
          ELSE UNCHANGED <<data, capacity, room, taken, freed>>
       /\ overrun' = (overrun \/ (size[v] > capacity[v] /\ ~ok))
  /\ size' = [size EXCEPT ![v] = @ + 1]

\* pushBack stores its element whether the vector has grown or not.
PushBack(v) ==
  /\ \E ok \in Obtains :
       /\ IF size[v] = capacity[v] THEN Reallocated(v, Grown(v), ok)
          ELSE UNCHANGED <<data, capacity, room, taken, freed>>
       /\ overrun' = (overrun \/ (size[v] = capacity[v] /\ ~ok))
  /\ size' = [size EXCEPT ![v] = @ + 1]

PopBack(v) ==
  /\ size[v] > 0
  /\ size' = [size EXCEPT ![v] = @ - 1]
  /\ UNCHANGED <<data, capacity, room, freed, taken, overrun>>

Clear(v) ==
  /\ size' = [size EXCEPT ![v] = 0]
  /\ UNCHANGED <<data, capacity, room, freed, taken, overrun>>

ShrinkToFit(v) ==
  /\ size[v] # capacity[v] /\ size[v] # 0
  /\ \E ok \in Obtains : Reallocated(v, size[v], ok)
  /\ UNCHANGED <<size, overrun>>

Emptied(f, v, w) == [f EXCEPT ![v] = f[w], ![w] = 0]

\* Variant: the source keeps its block.
MoveShared(v, w) ==
  /\ v # w
  /\ Release({data[v]} \ {0})
  /\ data' = [data EXCEPT ![v] = data[w]]
  /\ capacity' = Emptied(capacity, v, w)
  /\ size' = Emptied(size, v, w)
  /\ UNCHANGED <<room, taken, overrun>>

\* Vector(Vector &&) is the case of a vector v without a block.
Move(v, w) ==
  /\ v # w
  /\ Release({data[v]} \ {0})
  /\ data' = Emptied(data, v, w)
  /\ capacity' = Emptied(capacity, v, w)
  /\ size' = Emptied(size, v, w)
  /\ UNCHANGED <<room, taken, overrun>>

\* The destructor; a new vector takes the place of v.
Destroy(v) ==
  /\ Release({data[v]} \ {0})
  /\ data' = [data EXCEPT ![v] = 0]
  /\ capacity' = [capacity EXCEPT ![v] = 0]
  /\ size' = [size EXCEPT ![v] = 0]
  /\ UNCHANGED <<room, taken, overrun>>

VectorNext ==
  /\ ~overrun
  /\ \E v \in Vectors :
       \/ \E n \in 1..2 * FirstCapacity : Reserve(v, n)
       \/ PushBack(v) \/ PopBack(v) \/ Clear(v) \/ ShrinkToFit(v) \/ Destroy(v)
       \/ \E w \in Vectors : Move(v, w)

VectorSpec == VectorInit /\ [][VectorNext]_vectorVars

-----------------------------------------------------------------------------
VectorTypeOK ==
  /\ data \in [Vectors -> 0..MaxBlocks] /\ taken \in 0..MaxBlocks
  /\ capacity \in [Vectors -> Nat] /\ size \in [Vectors -> Nat]
  /\ freed \subseteq 1..MaxBlocks /\ overrun \in BOOLEAN

(***************************************************************************)
(* Every block taken is held by one vector or was given back, none by two, *)
(* and no vector holds a block that was given back.                        *)
(***************************************************************************)
BlocksOwned ==
  LET held == {data[v] : v \in Vectors} \ {0} IN
  /\ held \cap freed = {} /\ held \cup freed = 1..taken
  /\ \A v, w \in Vectors : v # w /\ data[v] # 0 => data[v] # data[w]

(***************************************************************************)
(* Unless a push found the heap exhausted, the elements lie in the block,  *)
(* and the capacity a vector believes in is the one its block has.         *)
(***************************************************************************)
ElementsFit ==
  ~overrun => \A v \in Vectors :
    /\ capacity[v] = (IF data[v] = 0 THEN 0 ELSE room[data[v]])
    /\ size[v] <= capacity[v]

VectorSound == VectorTypeOK /\ BlocksOwned /\ ElementsFit
=============================================================================
