--------------------------------- MODULE Heap ---------------------------------
(***************************************************************************)
(* What the heap promises: a set of blocks that share no byte, each inside *)
(* the heap, of which a call adds, moves, resizes or removes one.          *)
(***************************************************************************)
EXTENDS Integers

CONSTANTS Blocks, NoBlock, HEAP_START, HEAP_END

VARIABLE held   \* pointer and size of every block given out

Bytes(r) == r.p..(r.p + r.size - 1)

\* Block b is given new room, away from all others.
Place(b) ==
  /\ held'[b] # NoBlock
  /\ held' = [held EXCEPT ![b] = held'[b]]
  /\ Bytes(held'[b]) \subseteq HEAP_START..(HEAP_END - 1)
  /\ \A d \in Blocks \ {b} : held[d] # NoBlock => Bytes(held'[b]) \intersect Bytes(held[d]) = {}

Malloc(b) == held[b] = NoBlock /\ Place(b)

Free(b) == held[b] # NoBlock /\ held' = [held EXCEPT ![b] = NoBlock]

\* The block stays where it is, or moves clear of itself, as it is copied.
Realloc(b) ==
  /\ held[b] # NoBlock /\ Place(b)
  /\ held'[b].p = held[b].p \/ Bytes(held'[b]) \intersect Bytes(held[b]) = {}

Init == held = [b \in Blocks |-> NoBlock]
Next == \E b \in Blocks : Malloc(b) \/ Free(b) \/ Realloc(b)
Spec == Init /\ [][Next]_held
=============================================================================
