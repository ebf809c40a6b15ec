--------------------------- MODULE MCMemoryManager ---------------------------
(***************************************************************************)
(* Instances of the heap: room for two or three small blocks, so that a   *)
(* block can have a held or a freed neighbour on either side and a gap can *)
(* be too small, exactly large enough, or large enough but for the header. *)
(***************************************************************************)
EXTENDS MemoryManager

CONSTANTS c1, c2, b1, b2, b3

Clients1 == {c1}
Clients2 == {c1, c2}
Blocks2  == {b1, b2}
Blocks3  == {b1, b2, b3}

SizesOne    == {4}
SizesTwo    == {3, 8}
NoSizes     == {}
SizesResize == {2, 20}

\* Explore up to the first step the list does not survive.
NotSpoilt == ~spoilt
=============================================================================
