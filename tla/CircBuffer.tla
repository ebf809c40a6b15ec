------------------------------ MODULE CircBuffer ------------------------------
(***************************************************************************)
(* Util::circBuffer: N cells of which at most N - 1 are in use, head where *)
(* the next byte goes, tail where the oldest one is. N is a power of two   *)
(* and masking with N - 1 is the remainder. The multi-byte operations of   *)
(* the class are sequences of loads and stores that a caller's model takes *)
(* one by one; what they compute is here.                                  *)
(***************************************************************************)
EXTENDS Integers, Sequences

CONSTANTS N, NoByte

ASSUME SizeAssumption == N \in Nat /\ N > 1

Index == 0..(N - 1)

\* The buffers of bytes of S, some of whose cells were never written.
Ring(S) == [buf : [Index -> S \union {NoByte}], head : Index, tail : Index]

\* A buffer as the loader leaves it: all zero.
EmptyBuffer == [buf |-> [i \in Index |-> NoByte], head |-> 0, tail |-> 0]

Full(b)  == (b.head + 1) % N = b.tail
Empty(b) == b.head = b.tail

\* What available() and freeSpace() compute from the head and tail loaded.
Available(head, tail) == (head - tail) % N

\* Variant: the cell that stays unused is counted.
FreeSpaceAll(head, tail) == ((tail - head - 1) % N) + 1

FreeSpace(head, tail) == (tail - head - 1) % N

\* The bytes in the buffer, oldest first.
Contents(b) == [i \in 1..Available(b.head, b.tail) |-> b.buf[(b.tail + i - 1) % N]]

\* Variant: an append that does not look whether there is room.
PutAlways(b, c) == [b EXCEPT !.buf[b.head] = c, !.head = (@ + 1) % N]

\* append() and pop(), called by the interrupt handler only.
Put(b, c) ==
  IF Full(b) THEN b ELSE [b EXCEPT !.buf[b.head] = c, !.head = (@ + 1) % N]

\* Variant: the byte stays in the buffer.
Peek(b) == b

Pop(b)   == [b EXCEPT !.tail = (@ + 1) % N]
First(b) == b.buf[b.tail]

\* copyToCirc: the bytes go to the cells from head on, around the end.
CopyToCirc(buf, head, bytes) ==
  [i \in Index |->
    LET k == (i - head) % N
    IN  IF k < Len(bytes) THEN bytes[k + 1] ELSE buf[i]]

\* copyFromCirc: n bytes from the cells from tail on, around the end.
CopyFromCirc(buf, tail, n) == [i \in 1..n |-> buf[(tail + i - 1) % N]]
=============================================================================
