----------------------------- MODULE BlockDevice -----------------------------
(***************************************************************************)
(* What LittleFS assumes of the device below it: pages of an erased block  *)
(* are programmed, or a block erased, between a call and its return, and   *)
(* nothing else changes. After a crash the pages the call was about are in *)
(* any state and may go on changing, but settle before the next call.      *)
(* LittleFS reads back what it programs and gives up a block that differs, *)
(* so it copes with programs that fail; here, those of more than a page.   *)
(***************************************************************************)
EXTENDS Integers

CONSTANTS
  Pages,        \* 0..n-1
  PerBlock      \* pages of a block

VARIABLES
  cells,        \* page -> "erased", "whole" (as programmed) or "torn"
  call,         \* the call in progress, op = "none" outside one
  loose         \* pages a crash has left unsettled

Contents == {"erased", "whole", "torn"}
BlockOf(p) == p \div PerBlock
Touched(c) == IF c.op = "erase" THEN {p \in Pages : BlockOf(p) = c.of}
              ELSE (c.of..c.of + c.n - 1) \cap Pages
NoCall == [op |-> "none", of |-> -1, n |-> 0, done |-> FALSE]

Init == cells \in [Pages -> {"erased", "torn"}] /\ call = NoCall /\ loose = {}

Begin(op, of, n) ==
  /\ call = NoCall /\ loose = {}
  /\ call' = [op |-> op, of |-> of, n |-> n, done |-> FALSE]
  /\ UNCHANGED <<cells, loose>>

Effect ==
  /\ call # NoCall /\ ~call.done
  /\ call' = [call EXCEPT !.done = TRUE]
  /\ cells' = [p \in Pages |->
       IF p \notin Touched(call) THEN cells[p]
       ELSE IF call.op = "erase" THEN "erased"
       ELSE IF cells[p] = "erased" THEN "whole" ELSE "torn"]
  /\ UNCHANGED loose

Unsettled(pages) ==
  \E state \in [pages -> Contents] :
    cells' = [p \in Pages |-> IF p \in pages THEN state[p] ELSE cells[p]]

\* A program of several pages fails.
Fail ==
  /\ call.op = "prog" /\ call.n > 1 /\ ~call.done
  /\ call' = [call EXCEPT !.done = TRUE]
  /\ Unsettled(Touched(call))
  /\ UNCHANGED loose

Return == call.done /\ call' = NoCall /\ UNCHANGED <<cells, loose>>

Crash ==
  /\ call' = NoCall
  /\ loose' \in SUBSET (loose \cup Touched(call))
  /\ Unsettled(loose \cup Touched(call))

Settle == loose # {} /\ loose' = {} /\ Unsettled(loose) /\ UNCHANGED call

\* A region of a block, which LittleFS programs in multiples of a page.
Next == \/ \E p \in Pages, n \in 1..PerBlock :
             (p % PerBlock) + n <= PerBlock /\ Begin("prog", p, n)
        \/ \E p \in Pages : Begin("erase", BlockOf(p), 0)
        \/ Effect \/ Fail \/ Return \/ Crash \/ Settle

Spec == Init /\ [][Next]_<<cells, call, loose>>
=============================================================================
