--------------------------- MODULE CircBufferProofs ---------------------------
(***************************************************************************)
(* What the operations of circBuffer do to the bytes in it, for any number *)
(* of cells. The bytes are described by the stream they are a part of: the *)
(* cells in use hold s from place o + 1 to its end.                        *)
(***************************************************************************)
EXTENDS CircBuffer, SequenceTheorems, TLAPS

\* The cell of the i-th byte from index t on.
Cell(t, i) == (t + i - 1) % N

Used(b) == Available(b.head, b.tail)

Holds(b, s, o) ==
  /\ Len(s) = o + Used(b)
  /\ \A i \in 1..Used(b) : b.buf[Cell(b.tail, i)] = s[o + i]

\* The bytes taken out, w, and those in b make up s.
Flows(w, b, s) ==
  /\ Holds(b, s, Len(w))
  /\ \A i \in 1..Len(w) : w[i] = s[i]

\* The n bytes that follow the head are those of f.
Staged(b, f, n) == \A k \in 1..n : b.buf[Cell(b.head, k)] = f[k]

-----------------------------------------------------------------------------
(***************************************************************************)
(* Indices.                                                                *)
(***************************************************************************)
LEMMA Near ==
  ASSUME NEW x \in Int, 0 <= x + N, x < 2 * N
  PROVE  x % N = IF x < 0 THEN x + N ELSE IF x < N THEN x ELSE x - N
<1> DEFINE q == x \div N
<1>1. x % N \in 0..N-1 /\ x = N * q + (x % N) /\ q \in Int
  BY SizeAssumption
<1> HIDE DEF q
<1>2. CASE q >= 2
  <2>1. N * q >= N * 2
    BY <1>1, <1>2, SizeAssumption
  <2>2. QED
    BY <1>1, <2>1, SizeAssumption
<1>3. CASE q <= -2
  <2>1. N * q <= N * (-2)
    BY <1>1, <1>3, SizeAssumption
  <2>2. QED
    BY <1>1, <2>1, SizeAssumption
<1>4. CASE q \in {-1, 0, 1}
  <2>1. N * q \in {0 - N, 0, N}
    BY <1>4, SizeAssumption
  <2>2. QED
    BY <1>1, <2>1, SizeAssumption
<1>5. QED
  BY <1>1, <1>2, <1>3, <1>4

LEMMA AvailableIs ==
  ASSUME NEW h \in Index, NEW t \in Index
  PROVE  /\ Available(h, t) = IF h < t THEN h - t + N ELSE h - t
         /\ Available(h, t) \in 0..N-1
         /\ FreeSpace(h, t) = N - 1 - Available(h, t)
         /\ FreeSpace(h, t) \in 0..N-1
<1>1. h \in Int /\ t \in Int /\ 0 <= h /\ h < N /\ 0 <= t /\ t < N /\ N \in Int
  BY SizeAssumption DEF Index
<1>2. Available(h, t) = IF h - t < 0 THEN h - t + N ELSE h - t
  BY <1>1, Near DEF Available
<1>3. FreeSpace(h, t) = IF t - h - 1 < 0 THEN t - h - 1 + N ELSE t - h - 1
  BY <1>1, Near DEF FreeSpace
<1>4. QED
  BY <1>1, <1>2, <1>3

\* An index moved by less than the size.
LEMMA MovedIs ==
  ASSUME NEW t \in Index, NEW n \in 0..N-1
  PROVE  /\ (t + n) % N = IF t + n < N THEN t + n ELSE t + n - N
         /\ (t + n) % N \in Index
<1>1. t \in Int /\ n \in Int /\ 0 <= t /\ t < N /\ 0 <= n /\ n < N /\ N \in Int
  BY SizeAssumption DEF Index
<1>2. (t + n) % N = IF t + n < N THEN t + n ELSE t + n - N
  BY <1>1, Near
<1>3. QED
  BY <1>1, <1>2 DEF Index

LEMMA CellIs ==
  ASSUME NEW t \in Index, NEW i \in 1..N
  PROVE  /\ Cell(t, i) = IF t + i - 1 < N THEN t + i - 1 ELSE t + i - 1 - N
         /\ Cell(t, i) \in Index
<1>1. i - 1 \in 0..N-1 /\ t + (i - 1) = t + i - 1
  BY SizeAssumption DEF Index
<1>2. QED
  BY <1>1, MovedIs DEF Cell

\* A cell counted from an index further on.
LEMMA CellFrom ==
  ASSUME NEW t \in Index, NEW n \in 0..N-1, NEW i \in 1..N, n + i <= N
  PROVE  Cell((t + n) % N, i) = Cell(t, n + i)
<1>1. t \in Int /\ 0 <= t /\ t < N /\ n \in Int /\ i \in Int /\ N \in Int /\ n >= 0 /\ i >= 1
  BY SizeAssumption DEF Index
<1>2. n + i \in 1..N
  BY <1>1
<1>3. PICK g \in Index : g = (t + n) % N /\ g = IF t + n < N THEN t + n ELSE t + n - N
  BY MovedIs
<1>4. Cell(g, i) = IF g + i - 1 < N THEN g + i - 1 ELSE g + i - 1 - N
  BY CellIs
<1>5. Cell(t, n + i) = IF t + (n + i) - 1 < N THEN t + (n + i) - 1 ELSE t + (n + i) - 1 - N
  BY <1>2, CellIs
<1>6. QED
  BY <1>1, <1>3, <1>4, <1>5

LEMMA HeadFrom ==
  ASSUME NEW h \in Index, NEW t \in Index
  PROVE  h = (t + Available(h, t)) % N
<1>1. t \in Int /\ h \in Int /\ 0 <= h /\ h < N /\ 0 <= t /\ t < N /\ N \in Int
  BY SizeAssumption DEF Index
<1>2. Available(h, t) = (IF h < t THEN h - t + N ELSE h - t) /\ Available(h, t) \in 0..N-1
  BY AvailableIs
<1>3. (t + Available(h, t)) % N = IF t + Available(h, t) < N THEN t + Available(h, t)
                                 ELSE t + Available(h, t) - N
  BY <1>2, MovedIs
<1>4. QED
  BY <1>1, <1>2, <1>3

\* The cells after the head, counted from the tail.
LEMMA CellAfter ==
  ASSUME NEW h \in Index, NEW t \in Index, NEW k \in 1..N, Available(h, t) + k <= N
  PROVE  Cell(h, k) = Cell(t, Available(h, t) + k)
<1>1. Available(h, t) \in 0..N-1 /\ h = (t + Available(h, t)) % N
  BY AvailableIs, HeadFrom
<1>2. Cell((t + Available(h, t)) % N, k) = Cell(t, Available(h, t) + k)
  BY <1>1, CellFrom
<1>3. QED
  BY <1>1, <1>2

LEMMA CellsDiffer ==
  ASSUME NEW t \in Index, NEW i \in 1..N, NEW j \in 1..N, i # j
  PROVE  Cell(t, i) # Cell(t, j)
<1>1. t \in Int /\ 0 <= t /\ t < N /\ i \in Int /\ j \in Int /\ N \in Int
  BY SizeAssumption DEF Index
<1>2. QED
  BY <1>1, CellIs

\* How far a cell is from the head: one behind it, and one in use.
LEMMA CellFromHead ==
  ASSUME NEW h \in Index, NEW i \in 1..N
  PROVE  (Cell(h, i) - h) % N = i - 1
<1>1. h \in Int /\ 0 <= h /\ h < N /\ i \in Int /\ N \in Int
  BY SizeAssumption DEF Index
<1>2. PICK g \in Index : g = Cell(h, i) /\ g = IF h + i - 1 < N THEN h + i - 1 ELSE h + i - 1 - N
  BY CellIs
<1>3. g \in Int /\ 0 <= g /\ g < N
  BY SizeAssumption DEF Index
<1>4. (g - h) % N = IF g - h < 0 THEN (g - h) + N ELSE IF g - h < N THEN g - h ELSE g - h - N
  BY <1>1, <1>3, Near
<1>5. QED
  BY <1>1, <1>2, <1>3, <1>4

LEMMA CellFromTail ==
  ASSUME NEW h \in Index, NEW t \in Index, NEW i \in 1..Available(h, t)
  PROVE  (Cell(t, i) - h) % N > FreeSpace(h, t)
<1>1. h \in Int /\ 0 <= h /\ h < N /\ t \in Int /\ 0 <= t /\ t < N /\ N \in Int
  BY SizeAssumption DEF Index
<1>2. /\ Available(h, t) = IF h < t THEN h - t + N ELSE h - t
      /\ FreeSpace(h, t) = N - 1 - Available(h, t) /\ i \in 1..N
  BY <1>1, AvailableIs
<1>3. PICK g \in Index : g = Cell(t, i) /\ g = IF t + i - 1 < N THEN t + i - 1 ELSE t + i - 1 - N
  BY <1>2, CellIs
<1>4. g \in Int /\ 0 <= g /\ g < N
  BY SizeAssumption DEF Index
<1>5. (g - h) % N = IF g - h < 0 THEN (g - h) + N ELSE IF g - h < N THEN g - h ELSE g - h - N
  BY <1>1, <1>4, Near
<1>6. QED
  BY <1>1, <1>2, <1>3, <1>4, <1>5

LEMMA HeadMoved ==
  ASSUME NEW h \in Index, NEW t \in Index, NEW n \in 0..FreeSpace(h, t)
  PROVE  /\ (h + n) % N \in Index
         /\ Available((h + n) % N, t) = Available(h, t) + n
<1>1. /\ t \in Int /\ h \in Int /\ 0 <= h /\ h < N /\ 0 <= t /\ t < N /\ N \in Int
      /\ n \in 0..N-1 /\ n \in Int
  BY SizeAssumption, AvailableIs DEF Index
<1>2. Available(h, t) = (IF h < t THEN h - t + N ELSE h - t) /\ n <= N - 1 - Available(h, t)
  BY <1>1, AvailableIs
<1>3. PICK g \in Index : g = (h + n) % N /\ g = IF h + n < N THEN h + n ELSE h + n - N
  BY <1>1, MovedIs
<1>4. Available(g, t) = IF g < t THEN g - t + N ELSE g - t
  BY AvailableIs
<1>5. Available(g, t) = Available(h, t) + n
  BY <1>1, <1>2, <1>3, <1>4
<1>6. QED
  BY <1>3, <1>5

LEMMA TailMoved ==
  ASSUME NEW h \in Index, NEW t \in Index, NEW n \in 0..Available(h, t)
  PROVE  /\ (t + n) % N \in Index
         /\ Available(h, (t + n) % N) = Available(h, t) - n
<1>1. /\ t \in Int /\ h \in Int /\ 0 <= h /\ h < N /\ 0 <= t /\ t < N /\ N \in Int
      /\ n \in 0..N-1 /\ n \in Int
  BY SizeAssumption, AvailableIs DEF Index
<1>2. Available(h, t) = (IF h < t THEN h - t + N ELSE h - t) /\ n <= Available(h, t)
  BY <1>1, AvailableIs
<1>3. PICK g \in Index : g = (t + n) % N /\ g = IF t + n < N THEN t + n ELSE t + n - N
  BY <1>1, MovedIs
<1>4. Available(h, g) = IF h < g THEN h - g + N ELSE h - g
  BY AvailableIs
<1>5. Available(h, g) = Available(h, t) - n
  BY <1>1, <1>2, <1>3, <1>4
<1>6. QED
  BY <1>3, <1>5

-----------------------------------------------------------------------------
(***************************************************************************)
(* Operations.                                                             *)
(***************************************************************************)
LEMMA RingIs ==
  ASSUME NEW S, NEW b \in Ring(S)
  PROVE  /\ b.head \in Index /\ b.tail \in Index /\ b.buf \in [Index -> S \union {NoByte}]
         /\ Used(b) \in 0..N-1 /\ Used(b) \in Nat /\ N \in Nat
         /\ Full(b) <=> Used(b) = N - 1
         /\ Empty(b) <=> Used(b) = 0
<1>1. b.head \in Index /\ b.tail \in Index /\ b.buf \in [Index -> S \union {NoByte}]
  BY DEF Ring
<1>2. /\ Used(b) = IF b.head < b.tail THEN b.head - b.tail + N ELSE b.head - b.tail
      /\ Used(b) \in 0..N-1
  BY <1>1, AvailableIs DEF Used
<1>3. b.head \in 0..N-1 /\ b.tail \in 0..N-1
  BY <1>1 DEF Index
<1>4. Empty(b) <=> Used(b) = 0
  BY <1>2, <1>3, SizeAssumption DEF Empty
<1>5. (b.head + 1) % N = IF b.head + 1 < N THEN b.head + 1 ELSE b.head + 1 - N
  <2>1. 1 \in 0..N-1
    BY SizeAssumption
  <2>2. QED
    BY <1>1, <2>1, MovedIs
<1>6. Full(b) <=> Used(b) = N - 1
  BY <1>2, <1>3, <1>5, SizeAssumption DEF Full
<1>7. QED
  BY <1>1, <1>2, <1>4, <1>6, SizeAssumption

LEMMA RingMade ==
  ASSUME NEW S, NEW buf \in [Index -> S \union {NoByte}], NEW head \in Index, NEW tail \in Index,
         NEW b \in Ring(S)
  PROVE  /\ [b EXCEPT !.buf = buf] \in Ring(S)
         /\ [b EXCEPT !.head = head] \in Ring(S)
         /\ [b EXCEPT !.tail = tail] \in Ring(S)
         /\ [b EXCEPT !.buf = buf, !.head = head] \in Ring(S)
  BY DEF Ring

\* append: a full buffer stays as it is, another one has one byte more.
LEMMA PutIs ==
  ASSUME NEW S, NEW b \in Ring(S), NEW c \in S
  PROVE  /\ Put(b, c) \in Ring(S)
         /\ Put(b, c).tail = b.tail
         /\ Full(b) => Put(b, c) = b
         /\ ~Full(b) => /\ Used(Put(b, c)) = Used(b) + 1
                        /\ Put(b, c).buf = [b.buf EXCEPT ![Cell(b.tail, Used(b) + 1)] = c]
<1>1. CASE Full(b)
  BY <1>1 DEF Put
<1>2. CASE ~Full(b)
  <2> DEFINE h == (b.head + 1) % N
             f == [b.buf EXCEPT ![b.head] = c]
  <2>1. Put(b, c) = [b EXCEPT !.buf[b.head] = c, !.head = h]
    BY <1>2 DEF Put
  <2>2. b.head \in Index /\ b.tail \in Index /\ b.buf \in [Index -> S \union {NoByte}]
    BY RingIs
  <2>3. Used(b) \in 0..N-2 /\ FreeSpace(b.head, b.tail) = N - 1 - Used(b)
    <3>1. Used(b) \in 0..N-1 /\ Used(b) # N - 1
      BY <1>2, RingIs
    <3>2. FreeSpace(b.head, b.tail) = N - 1 - Used(b)
      BY <2>2, AvailableIs DEF Used
    <3>3. QED
      BY <3>1, <3>2, SizeAssumption
  <2>4. h \in Index /\ Available(h, b.tail) = Used(b) + 1
    <3>1. 1 \in 0..FreeSpace(b.head, b.tail)
      BY <2>3, SizeAssumption
    <3>2. QED
      BY <2>2, <3>1, HeadMoved DEF Used
  <2>5. b.head = Cell(b.tail, Used(b) + 1)
    <3>1. b.head = (b.tail + Used(b)) % N
      BY <2>2, HeadFrom DEF Used
    <3>2. b.tail + Used(b) = b.tail + (Used(b) + 1) - 1
      BY <2>2, <2>3, SizeAssumption DEF Index
    <3>3. QED
      BY <3>1, <3>2 DEF Cell
  <2>6. f \in [Index -> S \union {NoByte}]
    BY <2>2
  <2> HIDE DEF h
  <2>7. Put(b, c) = [buf |-> f, head |-> h, tail |-> b.tail]
    BY <2>1 DEF Ring
  <2> HIDE DEF f
  <2>8. Put(b, c) \in Ring(S)
    BY <2>2, <2>4, <2>6, <2>7 DEF Ring
  <2>9. Put(b, c).tail = b.tail /\ Put(b, c).head = h /\ Put(b, c).buf = f
    BY <2>7
  <2>10. Used(Put(b, c)) = Used(b) + 1
    BY <2>4, <2>9 DEF Used
  <2>11. QED
    BY <1>2, <2>5, <2>8, <2>9, <2>10 DEF f
<1>3. QED
  BY <1>1, <1>2

\* What the copies and moves of indices give, whatever room there is.
LEMMA CopyToTyped ==
  ASSUME NEW S, NEW b \in Ring(S), NEW f \in Seq(S)
  PROVE  [b EXCEPT !.buf = CopyToCirc(b.buf, b.head, f)] \in Ring(S)
<1>1. /\ b.head \in Index /\ N \in Nat /\ N > 1 /\ Len(f) \in Nat
      /\ b.buf \in [Index -> S \union {NoByte}]
  BY RingIs, SizeAssumption
<1>2. ASSUME NEW c \in Index
      PROVE  (IF (c - b.head) % N < Len(f) THEN f[((c - b.head) % N) + 1] ELSE b.buf[c])
               \in S \union {NoByte}
  <2>1. (c - b.head) % N \in 0..N-1
    <3>1. c - b.head \in Int
      BY <1>1 DEF Index
    <3>2. QED
      BY <1>1, <3>1
  <2>2. CASE (c - b.head) % N < Len(f)
    <3>1. ((c - b.head) % N) + 1 \in 1..Len(f)
      BY <1>1, <2>1, <2>2
    <3>2. QED
      BY <2>2, <3>1
  <2>3. CASE ~((c - b.head) % N < Len(f))
    BY <1>1, <2>3
  <2>4. QED
    BY <2>2, <2>3
<1>3. CopyToCirc(b.buf, b.head, f) \in [Index -> S \union {NoByte}]
  BY <1>2 DEF CopyToCirc
<1>4. QED
  BY <1>3, RingMade, <1>1

LEMMA IndexMoved ==
  ASSUME NEW t \in Index, NEW n \in Nat
  PROVE  (t + n) % N \in Index
  BY SizeAssumption DEF Index

LEMMA CopyFromTyped ==
  ASSUME NEW S, NEW b \in Ring(S), NEW n \in Nat
  PROVE  CopyFromCirc(b.buf, b.tail, n) \in Seq(S \union {NoByte})
<1>1. b.tail \in Index /\ b.buf \in [Index -> S \union {NoByte}]
  BY RingIs
<1>2. ASSUME NEW i \in 1..n PROVE b.buf[(b.tail + i - 1) % N] \in S \union {NoByte}
  <2>1. i - 1 \in Nat /\ b.tail + (i - 1) = b.tail + i - 1
    BY <1>1, SizeAssumption DEF Index
  <2>2. (b.tail + i - 1) % N \in Index
    BY <1>1, <2>1, IndexMoved
  <2>3. QED
    BY <1>1, <2>2
<1>3. QED
  BY <1>2 DEF CopyFromCirc

LEMMA PopTyped ==
  ASSUME NEW S, NEW b \in Ring(S)
  PROVE  Pop(b) \in Ring(S) /\ First(b) \in S \union {NoByte}
<1>1. b.tail \in Index /\ b.buf \in [Index -> S \union {NoByte}] /\ (b.tail + 1) % N \in Index
  BY RingIs, IndexMoved
<1>2. QED
  BY <1>1, RingMade DEF Pop, First

LEMMA EmptyTyped ==
  ASSUME NEW S
  PROVE  /\ EmptyBuffer \in Ring(S) /\ Used(EmptyBuffer) = 0
         /\ Flows(<<>>, EmptyBuffer, <<>>)
<1>1. 0 \in Index /\ Available(0, 0) = 0
  <2>1. 0 \in Index
    BY SizeAssumption DEF Index
  <2>2. QED
    BY <2>1, AvailableIs
<1>2. EmptyBuffer \in Ring(S) /\ Used(EmptyBuffer) = 0
  BY <1>1 DEF EmptyBuffer, Ring, Used
<1>3. QED
  BY <1>2 DEF Flows, Holds

LEMMA HoldsPut ==
  ASSUME NEW S, NEW b \in Ring(S), NEW c \in S, NEW s \in Seq(S), NEW o \in Nat,
         Holds(b, s, o), ~Full(b)
  PROVE  Holds(Put(b, c), Append(s, c), o)
<1>1. /\ Put(b, c).tail = b.tail /\ Used(Put(b, c)) = Used(b) + 1
      /\ Put(b, c).buf = [b.buf EXCEPT ![Cell(b.tail, Used(b) + 1)] = c]
  BY PutIs
<1>2. /\ Used(b) \in Nat /\ Used(b) + 1 \in 1..N /\ b.tail \in Index /\ N \in Nat
      /\ b.buf \in [Index -> S \union {NoByte}]
  BY RingIs
<1>3. /\ Len(s) = o + Used(b) /\ Len(Append(s, c)) = Len(s) + 1
      /\ \A i \in 1..Len(s) : Append(s, c)[i] = s[i]
      /\ Append(s, c)[Len(s) + 1] = c
  BY DEF Holds
<1>4. ASSUME NEW i \in 1..Used(b) + 1
      PROVE  Put(b, c).buf[Cell(b.tail, i)] = Append(s, c)[o + i]
  <2>1. i \in 1..N /\ Cell(b.tail, i) \in Index /\ Cell(b.tail, Used(b) + 1) \in Index
    BY <1>2, CellIs
  <2>2. CASE i = Used(b) + 1
    <3>1. o + i = Len(s) + 1
      BY <1>2, <1>3, <2>2
    <3>2. QED
      BY <1>1, <1>2, <1>3, <2>1, <2>2, <3>1
  <2>3. CASE i # Used(b) + 1
    <3>1. i \in 1..Used(b) /\ o + i \in 1..Len(s)
      BY <1>2, <1>3, <2>3
    <3>2. Cell(b.tail, i) # Cell(b.tail, Used(b) + 1)
      BY <1>2, <2>1, <2>3, CellsDiffer
    <3>3. b.buf[Cell(b.tail, i)] = s[o + i]
      BY <3>1 DEF Holds
    <3>4. QED
      BY <1>1, <1>2, <1>3, <2>1, <3>1, <3>2, <3>3
  <2>4. QED
    BY <2>2, <2>3
<1>5. Len(Append(s, c)) = o + (Used(b) + 1)
  BY <1>2, <1>3
<1>6. QED
  BY <1>1, <1>4, <1>5 DEF Holds

\* The tail moves past n bytes: they are no longer held.
LEMMA HoldsRetire ==
  ASSUME NEW S, NEW b \in Ring(S), NEW s, NEW o \in Nat, Holds(b, s, o),
         NEW n \in 0..Used(b), NEW r, r = [b EXCEPT !.tail = (b.tail + n) % N]
  PROVE  r \in Ring(S) /\ Holds(r, s, o + n) /\ Used(r) = Used(b) - n
<1>1. /\ b.head \in Index /\ b.tail \in Index /\ Used(b) \in Nat /\ Used(b) <= N - 1
      /\ N \in Nat /\ n \in 0..N-1
  BY RingIs
<1>2. /\ (b.tail + n) % N \in Index
      /\ Available(b.head, (b.tail + n) % N) = Used(b) - n
  BY <1>1, TailMoved DEF Used
<1>3. r \in Ring(S) /\ r.buf = b.buf /\ r.head = b.head /\ r.tail = (b.tail + n) % N
  BY <1>2 DEF Ring
<1>4. Used(r) = Used(b) - n
  BY <1>2, <1>3 DEF Used
<1>5. ASSUME NEW i \in 1..Used(r) PROVE r.buf[Cell(r.tail, i)] = s[(o + n) + i]
  <2>1. i \in 1..N /\ n + i <= N /\ n + i \in 1..Used(b) /\ o + (n + i) = (o + n) + i
    BY <1>1, <1>4
  <2>2. Cell((b.tail + n) % N, i) = Cell(b.tail, n + i)
    BY <1>1, <2>1, CellFrom
  <2>3. b.buf[Cell(b.tail, n + i)] = s[o + (n + i)]
    BY <2>1 DEF Holds
  <2>4. QED
    BY <1>3, <2>1, <2>2, <2>3
<1>6. Len(s) = (o + n) + Used(r)
  BY <1>1, <1>4 DEF Holds
<1>7. QED
  BY <1>3, <1>4, <1>5, <1>6 DEF Holds

LEMMA FirstIs ==
  ASSUME NEW S, NEW b \in Ring(S), NEW s \in Seq(S), NEW o \in Nat, Holds(b, s, o), ~Empty(b)
  PROVE  /\ First(b) = s[o + 1] /\ o + 1 \in 1..Len(s) /\ First(b) \in S
         /\ Pop(b) \in Ring(S) /\ Holds(Pop(b), s, o + 1) /\ Used(Pop(b)) = Used(b) - 1
         /\ Pop(b).head = b.head /\ Pop(b).buf = b.buf
<1>1. Used(b) \in Nat \ {0} /\ b.tail \in Index /\ N \in Nat /\ Used(b) <= N - 1
  BY RingIs
<1>2. 1 \in 0..Used(b) /\ 1 \in 1..Used(b)
  BY <1>1
<1>3. Cell(b.tail, 1) = b.tail
  <2>1. 1 \in 1..N /\ b.tail \in 0..N-1
    BY <1>1 DEF Index
  <2>2. QED
    BY <1>1, <2>1, CellIs
<1>4. First(b) = s[o + 1]
  BY <1>2, <1>3 DEF First, Holds
<1>5. o + 1 \in 1..Len(s)
  BY <1>1 DEF Holds
<1>6. Pop(b) \in Ring(S) /\ Holds(Pop(b), s, o + 1) /\ Used(Pop(b)) = Used(b) - 1
  BY <1>2, HoldsRetire DEF Pop
<1>7. Pop(b).head = b.head /\ Pop(b).buf = b.buf
  BY DEF Pop, Ring
<1>8. QED
  BY <1>4, <1>5, <1>6, <1>7

\* copyToCirc writes the cells after the head, and none of those in use.
LEMMA CopiedIn ==
  ASSUME NEW S, NEW b \in Ring(S), NEW f \in Seq(S), Len(f) <= FreeSpace(b.head, b.tail),
         NEW r, r.head = b.head, r.tail = b.tail, r.buf = CopyToCirc(b.buf, b.head, f)
  PROVE  /\ Used(r) = Used(b)
         /\ \A i \in 1..Used(b) : r.buf[Cell(b.tail, i)] = b.buf[Cell(b.tail, i)]
         /\ Staged(r, f, Len(f))
<1> DEFINE buf == CopyToCirc(b.buf, b.head, f)
<1>1. /\ b.head \in Index /\ b.tail \in Index /\ Used(b) \in Nat /\ Used(b) <= N - 1
      /\ N \in Nat /\ N > 1 /\ Len(f) \in Nat /\ b.buf \in [Index -> S \union {NoByte}]
      /\ Len(f) <= N - 1 - Used(b)
  <2>1. FreeSpace(b.head, b.tail) = N - 1 - Used(b)
    BY RingIs, AvailableIs DEF Used
  <2>2. Len(f) \in Nat
    OBVIOUS
  <2>3. QED
    BY <2>1, <2>2, RingIs, SizeAssumption
<1>2. ASSUME NEW i \in 1..N
      PROVE  (Cell(b.head, i) - b.head) % N = i - 1
  BY <1>1, CellFromHead
<1>3. ASSUME NEW c \in Index
      PROVE  buf[c] = IF (c - b.head) % N < Len(f) THEN f[((c - b.head) % N) + 1] ELSE b.buf[c]
  BY DEF CopyToCirc
<1> HIDE DEF buf
<1>5. r.head = b.head /\ r.tail = b.tail /\ r.buf = buf
  BY DEF buf
<1>6. Used(r) = Used(b)
  BY <1>5 DEF Used
<1>7. ASSUME NEW k \in 1..Len(f) PROVE r.buf[Cell(r.head, k)] = f[k]
  <2>1. k \in 1..N /\ k - 1 < Len(f) /\ (k - 1) + 1 = k
    BY <1>1
  <2>2. Cell(b.head, k) \in Index /\ (Cell(b.head, k) - b.head) % N = k - 1
    BY <1>1, <1>2, <2>1, CellIs
  <2>3. QED
    BY <1>3, <1>5, <2>1, <2>2
<1>8. ASSUME NEW i \in 1..Used(b) PROVE r.buf[Cell(b.tail, i)] = b.buf[Cell(b.tail, i)]
  <2>1. i \in 1..Available(b.head, b.tail) /\ i \in 1..N
    BY <1>1 DEF Used
  <2>2. (Cell(b.tail, i) - b.head) % N > FreeSpace(b.head, b.tail)
    BY <1>1, <2>1, CellFromTail
  <2>3. Cell(b.tail, i) \in Index
    BY <1>1, <2>1, CellIs
  <2>4. (Cell(b.tail, i) - b.head) % N \in Int /\ FreeSpace(b.head, b.tail) \in Int
    <3>1. Cell(b.tail, i) - b.head \in Int
      BY <1>1, <2>3 DEF Index
    <3>2. (Cell(b.tail, i) - b.head) % N \in Int
      BY <1>1, <3>1
    <3>3. FreeSpace(b.head, b.tail) \in Int
      BY <1>1, AvailableIs
    <3>4. QED
      BY <3>2, <3>3
  <2>5. ~((Cell(b.tail, i) - b.head) % N < Len(f))
    BY <1>1, <2>2, <2>4
  <2>6. QED
    BY <1>3, <1>5, <2>3, <2>5
<1>9. QED
  BY <1>5, <1>6, <1>7, <1>8 DEF Staged

LEMMA HoldsAlike ==
  ASSUME NEW b, NEW r, NEW s, NEW o, Holds(b, s, o), r.tail = b.tail, Used(r) = Used(b),
         \A i \in 1..Used(b) : r.buf[Cell(b.tail, i)] = b.buf[Cell(b.tail, i)]
  PROVE  Holds(r, s, o)
  BY DEF Holds

\* The head moves past n staged bytes: they are held behind the others.
LEMMA HoldsMore ==
  ASSUME NEW S, NEW b \in Ring(S), NEW s \in Seq(S), NEW f \in Seq(S), NEW o \in Nat,
         Holds(b, s, o), Len(f) <= FreeSpace(b.head, b.tail), Staged(b, f, Len(f)),
         NEW r, r = [b EXCEPT !.head = (b.head + Len(f)) % N]
  PROVE  r \in Ring(S) /\ Holds(r, s \o f, o)
<1>1. /\ b.head \in Index /\ b.tail \in Index /\ Used(b) \in Nat /\ Used(b) <= N - 1
      /\ N \in Nat /\ N > 1
  BY RingIs, SizeAssumption
<1>2. Len(f) \in Nat /\ FreeSpace(b.head, b.tail) = N - 1 - Used(b)
  BY <1>1, AvailableIs DEF Used
<1>3. (b.head + Len(f)) % N \in Index /\ Available((b.head + Len(f)) % N, b.tail) = Used(b) + Len(f)
  <2>1. Len(f) \in 0..FreeSpace(b.head, b.tail)
    BY <1>1, <1>2
  <2>2. QED
    BY <1>1, <2>1, HeadMoved DEF Used
<1>4. r \in Ring(S) /\ r.buf = b.buf /\ r.tail = b.tail /\ r.head = (b.head + Len(f)) % N
  BY <1>3 DEF Ring
<1>5. Used(r) = Used(b) + Len(f)
  BY <1>3, <1>4 DEF Used
<1>6. /\ Len(s) = o + Used(b) /\ Len(s \o f) = Len(s) + Len(f)
      /\ \A i \in 1..Len(s) : (s \o f)[i] = s[i]
      /\ \A i \in 1..Len(f) : (s \o f)[Len(s) + i] = f[i]
  BY DEF Holds
<1>7. ASSUME NEW i \in 1..Used(r) PROVE r.buf[Cell(r.tail, i)] = (s \o f)[o + i]
  <2>1. CASE i <= Used(b)
    <3>1. i \in 1..Used(b) /\ o + i \in 1..Len(s)
      BY <1>1, <1>2, <1>5, <1>6, <2>1
    <3>2. b.buf[Cell(b.tail, i)] = s[o + i]
      BY <3>1 DEF Holds
    <3>3. QED
      BY <1>4, <1>6, <3>1, <3>2
  <2>2. CASE i > Used(b)
    <3>1. PICK k \in 1..Len(f) : i = Used(b) + k /\ o + i = Len(s) + k
      <4>1. i - Used(b) \in 1..Len(f) /\ i = Used(b) + (i - Used(b))
            /\ o + i = Len(s) + (i - Used(b))
        BY <1>1, <1>2, <1>5, <1>6, <2>2
      <4>2. QED
        BY <4>1
    <3>2. k \in 1..N /\ Used(b) + k <= N
      BY <1>1, <1>2, <3>1
    <3>3. Cell(b.head, k) = Cell(b.tail, i)
      BY <1>1, <3>1, <3>2, CellAfter DEF Used
    <3>4. b.buf[Cell(b.head, k)] = f[k]
      BY DEF Staged
    <3>5. QED
      BY <1>4, <1>6, <3>1, <3>3, <3>4
  <2>3. i <= Used(b) \/ i > Used(b)
    <3>1. i \in Int /\ Used(b) \in Int
      BY <1>1
    <3>2. QED
      BY <3>1
  <2>4. QED
    BY <2>1, <2>2, <2>3, Zenon
<1>8. Len(s \o f) = o + Used(r)
  BY <1>1, <1>2, <1>5, <1>6
<1>9. QED
  BY <1>4, <1>7, <1>8 DEF Holds

\* copyFromCirc: the oldest n bytes.
LEMMA CopiedOut ==
  ASSUME NEW S, NEW b \in Ring(S), NEW s \in Seq(S), NEW o \in Nat, Holds(b, s, o),
         NEW n \in 0..Used(b)
  PROVE  LET f == CopyFromCirc(b.buf, b.tail, n)
         IN  f \in Seq(S) /\ Len(f) = n /\ \A i \in 1..n : f[i] = s[o + i]
<1> DEFINE f == CopyFromCirc(b.buf, b.tail, n)
<1>1. Used(b) \in Nat /\ n \in Nat /\ Len(s) = o + Used(b)
  BY RingIs DEF Holds
<1>2. ASSUME NEW i \in 1..n PROVE f[i] = s[o + i] /\ f[i] \in S
  <2>1. i \in 1..Used(b) /\ o + i \in 1..Len(s)
    BY <1>1
  <2>2. f[i] = b.buf[Cell(b.tail, i)]
    BY DEF CopyFromCirc, Cell
  <2>3. QED
    BY <2>1, <2>2 DEF Holds
<1>3. f = [i \in 1..n |-> b.buf[Cell(b.tail, i)]]
  BY DEF CopyFromCirc, Cell
<1> HIDE DEF f
<1>4. f \in Seq(S) /\ Len(f) = n
  BY <1>1, <1>2, <1>3
<1>5. QED
  BY <1>2, <1>4 DEF f

-----------------------------------------------------------------------------
(***************************************************************************)
(* Streams.                                                                *)
(***************************************************************************)
LEMMA FlowsPut ==
  ASSUME NEW S, NEW b \in Ring(S), NEW c \in S, NEW s \in Seq(S), NEW w, Len(w) \in Nat,
         Flows(w, b, s), ~Full(b)
  PROVE  Flows(w, Put(b, c), Append(s, c))
<1>1. Holds(Put(b, c), Append(s, c), Len(w))
  BY HoldsPut DEF Flows
<1>2. ASSUME NEW i \in 1..Len(w) PROVE w[i] = Append(s, c)[i]
  <2>1. i \in 1..Len(s)
    BY RingIs DEF Flows, Holds
  <2>2. QED
    BY <2>1 DEF Flows
<1>3. QED
  BY <1>1, <1>2 DEF Flows

LEMMA FlowsPop ==
  ASSUME NEW S, NEW b \in Ring(S), NEW s \in Seq(S), NEW R, NEW w \in Seq(R),
         Flows(w, b, s), ~Empty(b)
  PROVE  Flows(Append(w, First(b)), Pop(b), s)
<1>1. /\ First(b) = s[Len(w) + 1] /\ Holds(Pop(b), s, Len(w) + 1)
  <2>1. Len(w) \in Nat
    OBVIOUS
  <2>2. QED
    BY <2>1, FirstIs DEF Flows
<1>2. /\ Len(Append(w, First(b))) = Len(w) + 1 /\ Len(w) \in Nat
      /\ \A i \in 1..Len(w) : Append(w, First(b))[i] = w[i]
      /\ Append(w, First(b))[Len(w) + 1] = First(b)
  OBVIOUS
<1>3. ASSUME NEW i \in 1..Len(w) + 1 PROVE Append(w, First(b))[i] = s[i]
  <2>1. i \in 1..Len(w) \/ i = Len(w) + 1
    BY <1>2
  <2>2. QED
    BY <1>1, <1>2, <2>1 DEF Flows
<1>4. QED
  BY <1>1, <1>2, <1>3 DEF Flows

\* The stream is what was taken out followed by what is in the buffer.
LEMMA FlowsJoined ==
  ASSUME NEW S, NEW b \in Ring(S), NEW s \in Seq(S), NEW R, NEW w \in Seq(R), Flows(w, b, s)
  PROVE  w \o Contents(b) = s
<1>1. /\ Used(b) \in Nat /\ Len(w) \in Nat /\ Len(s) = Len(w) + Used(b)
  BY RingIs DEF Flows, Holds
<1>2. ASSUME NEW i \in 1..Used(b)
      PROVE  Contents(b)[i] = s[Len(w) + i] /\ s[Len(w) + i] \in S
  <2>1. Contents(b)[i] = b.buf[Cell(b.tail, i)]
    BY DEF Contents, Cell, Used
  <2>2. Len(w) + i \in 1..Len(s)
    BY <1>1
  <2>3. QED
    BY <2>1, <2>2 DEF Flows, Holds
<1>3. Contents(b) = [i \in 1..Used(b) |-> b.buf[Cell(b.tail, i)]]
  BY DEF Contents, Cell, Used
<1>4. Contents(b) \in Seq(S) /\ Len(Contents(b)) = Used(b)
  BY <1>1, <1>2, <1>3
<1> DEFINE j == w \o Contents(b)
<1>5. /\ w \in Seq(R \union S) /\ Contents(b) \in Seq(R \union S) /\ s \in Seq(R \union S)
  BY <1>4
<1>6. /\ j \in Seq(R \union S) /\ Len(j) = Len(w) + Used(b)
      /\ \A i \in 1..Len(w) : j[i] = w[i]
      /\ \A i \in 1..Used(b) : j[Len(w) + i] = Contents(b)[i]
  BY <1>4, <1>5
<1> HIDE DEF j
<1>7. ASSUME NEW i \in 1..Len(s) PROVE j[i] = s[i]
  <2>1. CASE i \in 1..Len(w)
    BY <1>6, <2>1 DEF Flows
  <2>2. CASE i \notin 1..Len(w)
    <3>1. i - Len(w) \in 1..Used(b) /\ i = Len(w) + (i - Len(w))
      BY <1>1, <2>2
    <3>2. QED
      BY <1>2, <1>6, <3>1
  <2>3. QED
    BY <2>1, <2>2
<1>8. j = s
  BY <1>1, <1>5, <1>6, <1>7, SeqEqual
<1>9. QED
  BY <1>8 DEF j
=============================================================================
