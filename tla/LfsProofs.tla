------------------------------ MODULE LfsProofs -------------------------------
(***************************************************************************)
(* A commit is whole or not at all wherever power is lost, no unit is      *)
(* programmed twice, and relocations spread the wear, for any number of    *)
(* blocks, any size of a block and any of them worn. And what the caches   *)
(* return is what was programmed last, for any blocks and sizes of reads   *)
(* and programs.                                                           *)
(***************************************************************************)
EXTENDS LfsCommit, LfsCache, SequenceTheorems, TLAPS

-----------------------------------------------------------------------------
(***************************************************************************)
(* Revisions.                                                              *)
(***************************************************************************)
Half == Revs \div 2
Rev  == 0..(Revs - 1)

LEMMA HalfIs ==
  /\ Revs \in Nat \ {0} /\ Half \in Nat /\ BlockCycles + 2 < Half
  /\ 3 < Half /\ 2 * Half <= Revs /\ Revs <= 2 * Half + 1
<1>1. Revs \in Nat /\ BlockCycles \in Nat \ {0} /\ BlockCycles + 2 < Revs \div 2
  BY CommitAssumption
<1>2. Revs \div 2 \in Nat /\ 2 * (Revs \div 2) <= Revs /\ Revs <= 2 * (Revs \div 2) + 1
  BY <1>1
<1> QED
  BY <1>1, <1>2 DEF Half

LEMMA Wrapped ==
  ASSUME NEW x \in Int, -Revs <= x, x < 2 * Revs
  PROVE  x % Revs = IF x < 0 THEN x + Revs ELSE IF x < Revs THEN x ELSE x - Revs
<1>1. Revs \in Nat \ {0}
  BY HalfIs
<1>2. CASE x < 0
  BY <1>1, <1>2
<1>3. CASE 0 <= x /\ x < Revs
  BY <1>1, <1>3
<1>4. CASE Revs <= x
  BY <1>1, <1>4
<1> QED
  BY <1>1, <1>2, <1>3, <1>4

LEMMA ScmpIs ==
  ASSUME NEW a \in Rev, NEW b \in Rev
  PROVE  Scmp(a, b) > 0 <=> (a > b /\ a - b < Revs - Half) \/ (a < b /\ b - a > Half)
<1> DEFINE x == (a - b) + Half
<1>1. a \in Int /\ b \in Int /\ 0 <= a /\ a < Revs /\ 0 <= b /\ b < Revs
  BY HalfIs DEF Rev
<1>2. x \in Int /\ -Revs <= x /\ x < 2 * Revs
  BY <1>1, HalfIs
<1>3. x % Revs = IF x < 0 THEN x + Revs ELSE IF x < Revs THEN x ELSE x - Revs
  BY <1>2, Wrapped
<1>4. Scmp(a, b) = (x % Revs) - Half
  BY DEF Scmp, Half
<1> QED
  BY <1>1, <1>3, <1>4, HalfIs

\* Of two revisions one is newer at most, and the following one always is.
LEMMA NotBothNewer ==
  ASSUME NEW a \in Rev, NEW b \in Rev, Scmp(a, b) > 0
  PROVE  ~(Scmp(b, a) > 0)
  BY ScmpIs, HalfIs DEF Rev

LEMMA FollowingNewer ==
  ASSUME NEW a \in Rev
  PROVE  (a + 1) % Revs \in Rev /\ Scmp((a + 1) % Revs, a) > 0
<1>1. a \in Int /\ 0 <= a /\ a < Revs
  BY HalfIs DEF Rev
<1>2. (a + 1) % Revs = IF a + 1 < Revs THEN a + 1 ELSE 0
  BY <1>1, Wrapped, HalfIs
<1> DEFINE c == IF a + 1 < Revs THEN a + 1 ELSE 0
<1>3. c \in Rev
  BY <1>1, HalfIs DEF Rev
<1>4. Scmp(c, a) > 0
  <2>1. (c > a /\ c - a < Revs - Half) \/ (c < a /\ a - c > Half)
    BY <1>1, HalfIs
  <2> HIDE DEF c
  <2> QED
    BY <1>3, <2>1, ScmpIs
<1> QED
  BY <1>2, <1>3, <1>4

-----------------------------------------------------------------------------
(***************************************************************************)
(* What a block says.                                                      *)
(***************************************************************************)
Unit == [kind : {"part", "junk", "erased"}, k : Nat, n : Nat, v : Nat, rev : Rev]
Block == [1..Units -> Unit]

UnitsErased(b, u) == \A w \in 1..Units : u < w => b[w] = Erased

\* e is where the last whole commit in b ends, it says v, and there is
\* nothing behind the first erased unit.
Says(b, e, v) ==
  /\ e \in ValidEnds(b) /\ \A u \in ValidEnds(b) : u <= e
  /\ b[e].v = v
  /\ \A u \in 1..Units : b[u] = Erased => UnitsErased(b, u)

LEMMA KindIs ==
  /\ \A k, n, v, rev : Part(k, n, v, rev).kind = "part" /\ Part(k, n, v, rev).k = k
                       /\ Part(k, n, v, rev).n = n /\ Part(k, n, v, rev).v = v
                       /\ Part(k, n, v, rev).rev = rev
  /\ \A rev : Junk(rev).kind = "junk" /\ Junk(rev).rev = rev
  /\ Erased.kind = "erased"
  BY DEF Part, Junk, Erased

LEMMA UnitTypes ==
  /\ Erased \in Unit
  /\ \A rev \in Rev : Junk(rev) \in Unit
  /\ \A k, n, v \in Nat, rev \in Rev : Part(k, n, v, rev) \in Unit
  BY HalfIs DEF Erased, Junk, Part, Unit, Rev

LEMMA UnitsIs == Units \in Nat /\ Units >= 2 /\ 1 \in 1..Units /\ 2 \in 1..Units
  BY CommitAssumption

LEMMA LastIs ==
  ASSUME NEW b, NEW e, NEW v, Says(b, e, v)
  PROVE  LastOf(ValidEnds(b)) = e
<1>1. \A x \in ValidEnds(b) : (\A y \in ValidEnds(b) : y <= x) => x = e
  <2> TAKE x \in ValidEnds(b)
  <2> HAVE \A y \in ValidEnds(b) : y <= x
  <2>1. e <= x /\ x <= e /\ e \in Nat /\ x \in Nat
    BY UnitsIs DEF Says, ValidEnds
  <2> QED
    BY <2>1
<1>2. e \in ValidEnds(b) /\ \A y \in ValidEnds(b) : y <= e
  BY DEF Says
<1> QED
  BY <1>1, <1>2 DEF LastOf

-----------------------------------------------------------------------------
(***************************************************************************)
(* A commit under way: part k of n comes to lie in block b behind unit c.  *)
(* j is the job.                                                           *)
(***************************************************************************)
Laid(b, c, j) ==
  /\ \A i \in 1..j.k : b[c + i] = Part(i, j.n, j.v, j.rev) \/ b[c + i].kind = "junk"
  /\ \A u \in 1..Units : u > c + j.k => b[u] = Erased

Complete(b, c, j) ==
  j.k = j.n /\ \A i \in 1..j.n : b[c + i] = Part(i, j.n, j.v, j.rev)

Linked(l, m, o) == m \in Blocks /\ o \in Blocks /\ m # o /\ (l = <<m, o>> \/ l = <<o, m>>)

Older(d, m, o) == ValidEnds(d[o]) # {} => Scmp(d[m][1].rev, d[o][1].rev) > 0

Leads(d, l, m, o, v) ==
  Linked(l, m, o) /\ Older(d, m, o) /\ \E e \in 1..Units : Says(d[m], e, v)

Jobs == [pair : Blocks \X Blocks, rev : Rev, at : Nat, k : Nat, n : 1..2, v : Nat,
         compact : BOOLEAN, tired : BOOLEAN, relocated : BOOLEAN, wear : BOOLEAN]

\* The commit goes behind the last one in the block that leads.
Appending(d, j, m, o) ==
  /\ j.rev = d[m][1].rev /\ Older(d, m, o)
  /\ \E e \in 1..Units :
       /\ e \in ValidEnds(d[m]) /\ d[m][e].v = committed
       /\ e + j.n <= Units /\ j.at = e + 1 + j.k /\ Laid(d[m], e, j)

\* The commit goes to the beginning of block x, with the next revision. When x
\* is not in the pair yet, the pair is as it was.
Rewriting(d, j, m, o, x) ==
  /\ j.at = 1 + j.k /\ Laid(d[x], 0, j)
  /\ x # o => Older(d, m, o)

\* Block m says what was committed last, o is the other of the pair, and x is
\* the block to write.
Way(d, j, m, o, x) ==
  /\ Linked(linked, m, o) /\ m # x
  /\ ~j.relocated => x = o
  /\ j.k <= j.n
  /\ pc = "compact" \/ j.compact => \E e \in 1..Units : Says(d[m], e, committed)
  /\ j.compact => j.rev = (d[m][1].rev + 1) % Revs
  /\ ~j.compact => ~j.relocated /\ pc \in {"compact", "prog"}
  /\ pc = "compact" => ~j.compact /\ j.rev = d[m][1].rev
  /\ pc \in {"compact", "erase", "relocate"} => Older(d, m, o)
  /\ pc = "erase" => j.at = 1 /\ j.k = 0
  /\ pc = "prog" /\ ~j.compact => Appending(d, j, m, o)
  /\ pc \in {"prog", "link"} /\ j.compact => Rewriting(d, j, m, o, x)
  /\ pc = "link" => j.relocated /\ Complete(d[x], 0, j)

PairTypeOK ==
  /\ disk \in [Blocks -> Block] /\ committed \in Nat /\ super \in BOOLEAN
  /\ pc \in {"idle", "compact", "erase", "prog", "relocate", "link"}
  /\ pc # "idle" => job \in Jobs

PairInv ==
  /\ PairTypeOK /\ ~reprogrammed
  /\ pc = "idle" => \E m, o \in Blocks : Leads(disk, linked, m, o, committed)
  /\ pc # "idle" => \E o \in Blocks : Way(disk, job, job.pair[1], o, job.pair[2])

LEMMA JobTyped ==
  ASSUME NEW j \in Jobs
  PROVE  /\ j.pair \in Blocks \X Blocks /\ j.pair[1] \in Blocks /\ j.pair[2] \in Blocks
         /\ j.rev \in Rev /\ j.at \in Nat /\ j.k \in Nat /\ j.n \in 1..2 /\ j.v \in Nat
         /\ j.compact \in BOOLEAN /\ j.tired \in BOOLEAN /\ j.relocated \in BOOLEAN
         /\ j.wear \in BOOLEAN
  BY DEF Jobs

LEMMA EndsKept ==
  ASSUME NEW b, NEW c, NEW e \in ValidEnds(b), \A u \in 1..e : c[u] = b[u]
  PROVE  e \in ValidEnds(c)
<1>1. e \in 1..Units /\ b[e].k = b[e].n /\ \A w \in 1..e : Follows(b, w)
  BY DEF ValidEnds
<1>2. c[e].k = c[e].n
  BY <1>1, UnitsIs
<1>3. ASSUME NEW w \in 1..e PROVE Follows(c, w)
  <2>1. Follows(b, w) /\ c[w] = b[w] /\ (w # 1 => c[w - 1] = b[w - 1])
    BY <1>1, UnitsIs
  <2> QED
    BY <2>1 DEF Follows
<1> QED
  BY <1>1, <1>2, <1>3 DEF ValidEnds

\* Where commits end in a block that one is being laid in.
LEMMA EndsBehind ==
  ASSUME NEW b, NEW c \in 0..Units, NEW j \in Jobs, j.k <= j.n, c + j.n <= Units,
         Laid(b, c, j)
  PROVE  /\ \A u \in ValidEnds(b) : u <= c \/ (u = c + j.n /\ Complete(b, c, j))
         /\ Complete(b, c, j) /\ (c = 0 \/ c \in ValidEnds(b)) => c + j.n \in ValidEnds(b)
<1>1. j.k \in Nat /\ j.n \in 1..2 /\ j.k \in 0..2 /\ Units \in Nat
  BY JobTyped, UnitsIs
<1>2. ASSUME NEW u \in ValidEnds(b), ~(u <= c) PROVE u = c + j.n /\ Complete(b, c, j)
  <2>1. u \in 1..Units /\ b[u].k = b[u].n /\ \A w \in 1..u : b[w].kind = "part"
    BY DEF ValidEnds, Follows
  <2>2. u <= c + j.k
    BY <1>1, <2>1, KindIs DEF Laid
  <2>3. \A i \in 1..j.k : c + i <= u => b[c + i] = Part(i, j.n, j.v, j.rev)
    <3> TAKE i \in 1..j.k
    <3>1. c + i <= u => c + i \in 1..u
      BY <1>1, <2>1
    <3> QED
      BY <2>1, <3>1 DEF Laid
  <2>4. u - c \in 1..j.k /\ c + (u - c) = u
    BY <1>1, <1>2, <2>1, <2>2
  <2>5. b[u] = Part(u - c, j.n, j.v, j.rev)
    BY <1>1, <2>1, <2>3, <2>4
  <2>6. u - c = j.n
    BY <2>1, <2>5, KindIs
  <2>7. j.k = j.n
    BY <1>1, <2>4, <2>6
  <2>8. \A i \in 1..j.n : b[c + i] = Part(i, j.n, j.v, j.rev)
    BY <1>1, <2>1, <2>3, <2>6, <2>7
  <2> QED
    BY <1>1, <2>1, <2>6, <2>7, <2>8 DEF Complete
<1>3. ASSUME Complete(b, c, j), c = 0 \/ c \in ValidEnds(b) PROVE c + j.n \in ValidEnds(b)
  <2>1. \A i \in 1..j.n : b[c + i] = Part(i, j.n, j.v, j.rev)
    BY <1>3 DEF Complete
  <2>2. c + j.n \in 1..Units /\ b[c + j.n].k = b[c + j.n].n
    BY <1>1, <2>1, KindIs
  <2>3. c > 0 => b[c].k = b[c].n /\ \A w \in 1..c : Follows(b, w)
    BY <1>3 DEF ValidEnds
  <2>4. ASSUME NEW i \in 1..j.n PROVE Follows(b, c + i)
    <3>1. b[c + i].kind = "part" /\ b[c + i].k = i /\ b[c + i].v = j.v
      BY <2>1, KindIs
    <3>2. CASE i = 1
      <4>1. c > 0 => c + i - 1 = c
        BY <3>2
      <4>2. c = 0 \/ c > 0
        OBVIOUS
      <4> QED
        BY <2>3, <3>1, <3>2, <4>1, <4>2 DEF Follows
    <3>3. CASE i # 1
      <4>1. i - 1 \in 1..j.n /\ c + (i - 1) = c + i - 1 /\ i - 1 # j.n /\ c + i # 1
            /\ i = (i - 1) + 1
        BY <1>1, <3>3
      <4>2. b[c + i - 1] = Part(i - 1, j.n, j.v, j.rev)
        BY <2>1, <4>1
      <4>3. b[c + i - 1].k = i - 1 /\ b[c + i - 1].n = j.n /\ b[c + i - 1].v = j.v
        BY <4>2, KindIs
      <4> QED
        BY <3>1, <4>1, <4>3 DEF Follows
    <3> QED
      BY <3>2, <3>3
  <2>5. \A w \in 1..c + j.n : Follows(b, w)
    <3> TAKE w \in 1..c + j.n
    <3>1. CASE w <= c
      BY <2>3, <3>1
    <3>2. CASE ~(w <= c)
      <4>1. w - c \in 1..j.n /\ c + (w - c) = w
        BY <1>1, <3>2
      <4> QED
        BY <2>4, <4>1
    <3> QED
      BY <3>1, <3>2
  <2> QED
    BY <2>2, <2>5 DEF ValidEnds
<1> QED
  BY <1>2, <1>3

LEMMA LaidErased ==
  ASSUME NEW b, NEW c \in 0..Units, NEW j \in Jobs, Laid(b, c, j),
         c = 0 \/ c \in ValidEnds(b)
  PROVE  \A u \in 1..Units : b[u] = Erased => UnitsErased(b, u)
<1> TAKE u \in 1..Units
<1> HAVE b[u] = Erased
<1>1. j.k \in Nat /\ Units \in Nat
  BY JobTyped, UnitsIs
<1>2. b[u].kind # "part" /\ b[u].kind # "junk"
  BY KindIs
<1>3. ~(u <= c)
  <2> SUFFICES ASSUME u <= c PROVE FALSE
    OBVIOUS
  <2>1. c \in ValidEnds(b)
    BY <1>1
  <2> QED
    BY <1>2, <2>1 DEF ValidEnds, Follows
<1>4. ~(u <= c + j.k)
  <2> SUFFICES ASSUME u <= c + j.k PROVE FALSE
    OBVIOUS
  <2>1. u - c \in 1..j.k /\ c + (u - c) = u
    BY <1>1, <1>3
  <2> QED
    BY <1>2, <2>1, KindIs DEF Laid
<1> QED
  BY <1>1, <1>4 DEF Laid, UnitsErased

LEMMA AppendedSays ==
  ASSUME NEW b, NEW e \in ValidEnds(b), NEW j \in Jobs, j.k <= j.n, e + j.n <= Units,
         Laid(b, e, j)
  PROVE  IF Complete(b, e, j) THEN Says(b, e + j.n, j.v) ELSE Says(b, e, b[e].v)
<1>1. e \in 1..Units /\ e \in 0..Units /\ Units \in Nat /\ j.n \in 1..2
  BY JobTyped, UnitsIs DEF ValidEnds
<1>2. \A u \in ValidEnds(b) : u \in 1..Units
  BY DEF ValidEnds
<1>3. \A u \in 1..Units : b[u] = Erased => UnitsErased(b, u)
  BY <1>1, LaidErased
<1>4. \A u \in ValidEnds(b) : u <= e \/ (u = e + j.n /\ Complete(b, e, j))
  BY <1>1, EndsBehind
<1>5. CASE Complete(b, e, j)
  <2>1. e + j.n \in ValidEnds(b)
    BY <1>1, <1>5, EndsBehind
  <2>2. b[e + j.n].v = j.v
    BY <1>1, <1>5, KindIs DEF Complete
  <2>3. \A u \in ValidEnds(b) : u <= e + j.n
    BY <1>1, <1>2, <1>4
  <2> QED
    BY <1>3, <1>5, <2>1, <2>2, <2>3 DEF Says
<1>6. CASE ~Complete(b, e, j)
  BY <1>3, <1>4, <1>6 DEF Says
<1> QED
  BY <1>5, <1>6

LEMMA RewrittenSays ==
  ASSUME NEW b, NEW j \in Jobs, j.k <= j.n, Laid(b, 0, j)
  PROVE  IF Complete(b, 0, j) THEN Says(b, j.n, j.v) /\ b[1].rev = j.rev ELSE ValidEnds(b) = {}
<1>1. j.n \in 1..2 /\ 0 + j.n = j.n /\ 0 \in 0..Units /\ 0 + j.n <= Units /\ Units \in Nat
  BY JobTyped, UnitsIs
<1>2. \A u \in ValidEnds(b) : u \in 1..Units
  BY DEF ValidEnds
<1>3. \A u \in 1..Units : b[u] = Erased => UnitsErased(b, u)
  BY <1>1, LaidErased
<1>4. \A u \in ValidEnds(b) : u <= 0 \/ (u = 0 + j.n /\ Complete(b, 0, j))
  BY <1>1, EndsBehind
<1>5. CASE Complete(b, 0, j)
  <2>1. 0 + j.n \in ValidEnds(b)
    BY <1>1, <1>5, EndsBehind
  <2>2. b[j.n].v = j.v /\ b[1].rev = j.rev
    <3>1. b[0 + j.n] = Part(j.n, j.n, j.v, j.rev) /\ b[0 + 1] = Part(1, j.n, j.v, j.rev)
      BY <1>1, <1>5 DEF Complete
    <3>2. 0 + 1 = 1
      OBVIOUS
    <3> QED
      BY <1>1, <3>1, <3>2, KindIs
  <2>3. \A u \in ValidEnds(b) : u <= j.n
    BY <1>1, <1>2, <1>4
  <2> QED
    BY <1>1, <1>3, <1>5, <2>1, <2>2, <2>3 DEF Says
<1>6. CASE ~Complete(b, 0, j)
  BY <1>1, <1>2, <1>4, <1>6
<1> QED
  BY <1>5, <1>6

LEMMA FetchIs ==
  ASSUME NEW d \in [Blocks -> Block], NEW l, NEW m, NEW o, NEW v, Leads(d, l, m, o, v),
         NEW e \in 1..Units, Says(d[m], e, v)
  PROVE  Fetch(d, l) = [pair |-> <<m, o>>, rev |-> d[m][1].rev, off |-> e, v |-> v,
                        erased |-> Erasable(d[m], e)]
<1> DEFINE first == Newer(d, l)
           good(p) == ValidEnds(d[p[1]]) # {}
           p == IF good(first) THEN first ELSE <<first[2], first[1]>>
<1>1. d[m][1].rev \in Rev /\ d[o][1].rev \in Rev
  BY UnitsIs DEF Leads, Linked, Block, Unit
<1>2. ValidEnds(d[m]) # {}
  BY DEF Says
<1>3. /\ first = <<m, o>> \/ first = <<o, m>>
      /\ ValidEnds(d[o]) # {} => first = <<m, o>>
  <2>1. CASE l = <<m, o>>
    BY <1>1, <2>1, NotBothNewer DEF Leads, Linked, Older, Newer
  <2>2. CASE l = <<o, m>>
    BY <1>1, <2>2 DEF Leads, Linked, Older, Newer
  <2> QED
    BY <2>1, <2>2 DEF Leads, Linked
<1>4. good(<<m, o>>)
  BY <1>2
<1>5. p = <<m, o>>
  BY <1>3, <1>4
<1>6. LastOf(ValidEnds(d[m])) = e /\ d[m][e].v = v
  BY LastIs DEF Says
<1>7. Fetch(d, l) =
        IF ~good(p) THEN [pair |-> p, rev |-> 0, off |-> 0, v |-> -1, erased |-> FALSE]
        ELSE [pair |-> p, rev |-> d[p[1]][1].rev, off |-> LastOf(ValidEnds(d[p[1]])),
              v |-> d[p[1]][LastOf(ValidEnds(d[p[1]]))].v,
              erased |-> Erasable(d[p[1]], LastOf(ValidEnds(d[p[1]])))]
  BY DEF Fetch
<1> HIDE DEF p, good
<1>8. p[1] = m
  BY <1>5
<1> QED
  BY <1>4, <1>5, <1>6, <1>7, <1>8

LEMMA FetchOf ==
  ASSUME NEW d \in [Blocks -> Block], NEW l, NEW m, NEW o, NEW v, Leads(d, l, m, o, v)
  PROVE  Fetch(d, l).v = v
<1>1. PICK e \in 1..Units : Says(d[m], e, v)
  BY DEF Leads
<1>2. Fetch(d, l) = [pair |-> <<m, o>>, rev |-> d[m][1].rev, off |-> e, v |-> v,
                     erased |-> Erasable(d[m], e)]
  BY <1>1, FetchIs
<1> QED
  BY <1>2

LEMMA JobNext ==
  ASSUME NEW j \in Jobs, NEW r, r = [j EXCEPT !.at = @ + 1, !.k = @ + 1]
  PROVE  /\ r \in Jobs /\ r.at = j.at + 1 /\ r.k = j.k + 1
         /\ r.pair = j.pair /\ r.rev = j.rev /\ r.n = j.n /\ r.v = j.v
         /\ r.compact = j.compact /\ r.tired = j.tired /\ r.relocated = j.relocated
         /\ r.wear = j.wear
<1>1. j = [pair |-> j.pair, rev |-> j.rev, at |-> j.at, k |-> j.k, n |-> j.n, v |-> j.v,
           compact |-> j.compact, tired |-> j.tired, relocated |-> j.relocated, wear |-> j.wear]
  BY DEF Jobs
<1>2. r = [pair |-> j.pair, rev |-> j.rev, at |-> j.at + 1, k |-> j.k + 1, n |-> j.n, v |-> j.v,
           compact |-> j.compact, tired |-> j.tired, relocated |-> j.relocated, wear |-> j.wear]
  BY <1>1
<1>3. j.at + 1 \in Nat /\ j.k + 1 \in Nat
  BY JobTyped
<1>4. r \in Jobs
  BY <1>2, <1>3, JobTyped, Zenon DEF Jobs
<1> QED
  BY <1>2, <1>4

LEMMA LaidMore ==
  ASSUME NEW b \in Block, NEW c \in 0..Units, NEW j \in Jobs, c + j.n <= Units,
         j.k < j.n, j.at = c + 1 + j.k, Laid(b, c, j),
         NEW p, p = Part(j.k + 1, j.n, j.v, j.rev) \/ p.kind = "junk"
  PROVE  /\ j.at \in 1..Units /\ b[j.at] = Erased
         /\ Laid([b EXCEPT ![j.at] = p], c, [j EXCEPT !.at = @ + 1, !.k = @ + 1])
<1> DEFINE r == [j EXCEPT !.at = @ + 1, !.k = @ + 1]
           f == [b EXCEPT ![j.at] = p]
<1>1. /\ j.k \in Nat /\ j.n \in 1..2 /\ j.at \in Nat /\ Units \in Nat
      /\ r.k = j.k + 1 /\ r.n = j.n /\ r.v = j.v /\ r.rev = j.rev
  BY JobTyped, JobNext, UnitsIs
<1>2. j.at \in 1..Units /\ b[j.at] = Erased
  BY <1>1 DEF Laid
<1>3. \A u \in 1..Units : f[u] = IF u = j.at THEN p ELSE b[u]
  BY DEF Block
<1> HIDE DEF r, f
<1>4. ASSUME NEW i \in 1..r.k PROVE f[c + i] = Part(i, r.n, r.v, r.rev) \/ f[c + i].kind = "junk"
  <2>1. c + i \in 1..Units
    BY <1>1
  <2>2. CASE i = j.k + 1
    <3>1. c + i = j.at
      BY <1>1, <2>2
    <3> QED
      BY <1>1, <1>3, <2>1, <2>2, <3>1
  <2>3. CASE i # j.k + 1
    <3>1. i \in 1..j.k /\ c + i # j.at
      BY <1>1, <2>3
    <3> QED
      BY <1>1, <1>3, <2>1, <3>1 DEF Laid
  <2> QED
    BY <2>2, <2>3
<1>5. ASSUME NEW u \in 1..Units, u > c + r.k PROVE f[u] = Erased
  <2>1. u > c + j.k /\ u # j.at
    BY <1>1, <1>5
  <2> QED
    BY <1>3, <2>1 DEF Laid
<1>6. Laid(f, c, r)
  BY <1>4, <1>5 DEF Laid
<1> QED
  BY <1>2, <1>6 DEF f, r

-----------------------------------------------------------------------------
(***************************************************************************)
(* A mount in the middle of a commit.                                      *)
(***************************************************************************)
Busy == {"compact", "erase", "prog", "relocate", "link"}

LEMMA WayLeads ==
  ASSUME NEW d \in [Blocks -> Block], NEW j \in Jobs, NEW m, NEW o, NEW x, pc \in Busy,
         Way(d, j, m, o, x)
  PROVE  \/ \E v \in {committed, j.v} : Leads(d, linked, m, o, v)
         \/ /\ pc \in {"prog", "link"} /\ j.compact /\ x = o
            /\ Leads(d, linked, o, m, j.v) /\ d[o][1].rev = j.rev
<1>1. Linked(linked, m, o) /\ Linked(linked, o, m) /\ m \in Blocks /\ o \in Blocks
  BY DEF Way, Linked
<1>2. j.compact \in BOOLEAN /\ j.n \in 1..Units /\ j.k <= j.n
  BY JobTyped, UnitsIs DEF Way
<1>3. ASSUME Older(d, m, o), \E e \in 1..Units : Says(d[m], e, committed)
      PROVE  Leads(d, linked, m, o, committed)
  BY <1>1, <1>3 DEF Leads
<1>4. CASE pc \in {"compact", "erase", "relocate"}
  <2>1. Older(d, m, o) /\ \E e \in 1..Units : Says(d[m], e, committed)
    BY <1>2, <1>4 DEF Way
  <2> QED
    BY <1>1, <1>3, <2>1
<1>5. CASE pc = "prog" /\ ~j.compact
  <2>1. Appending(d, j, m, o)
    BY <1>5 DEF Way
  <2>2. PICK e \in 1..Units : /\ e \in ValidEnds(d[m]) /\ d[m][e].v = committed
                              /\ e + j.n <= Units /\ Laid(d[m], e, j)
    BY <2>1 DEF Appending
  <2>3. Says(d[m], e + j.n, j.v) \/ Says(d[m], e, committed)
    BY <1>2, <2>2, AppendedSays
  <2>4. e + j.n \in 1..Units
    BY <1>2, <2>2, UnitsIs
  <2>5. \E v \in {committed, j.v} : \E w \in 1..Units : Says(d[m], w, v)
    BY <2>3, <2>4
  <2> QED
    BY <1>1, <2>1, <2>5 DEF Leads, Appending
<1>6. CASE pc \in {"prog", "link"} /\ j.compact
  <2>1. Rewriting(d, j, m, o, x) /\ (\E e \in 1..Units : Says(d[m], e, committed))
        /\ j.rev = (d[m][1].rev + 1) % Revs
    BY <1>6 DEF Way
  <2>2. CASE x # o
    BY <1>1, <1>3, <2>1, <2>2 DEF Rewriting
  <2>3. CASE x = o
    <3>1. IF Complete(d[o], 0, j) THEN Says(d[o], j.n, j.v) /\ d[o][1].rev = j.rev
          ELSE ValidEnds(d[o]) = {}
      BY <1>2, <2>1, <2>3, RewrittenSays DEF Rewriting
    <3>2. CASE ~Complete(d[o], 0, j)
      <4>1. Older(d, m, o)
        BY <3>1, <3>2 DEF Older
      <4> QED
        BY <1>1, <1>3, <2>1, <4>1
    <3>3. CASE Complete(d[o], 0, j)
      <4>1. d[m][1].rev \in Rev
        BY <1>1, UnitsIs DEF Block, Unit
      <4>2. Older(d, o, m)
        BY <2>1, <3>1, <3>3, <4>1, FollowingNewer DEF Older
      <4> QED
        BY <1>1, <1>2, <1>6, <2>3, <3>1, <3>3, <4>2 DEF Leads
    <3> QED
      BY <3>2, <3>3
  <2> QED
    BY <2>2, <2>3
<1>7. j.compact \/ pc \in {"compact", "prog"}
  BY <1>2 DEF Way
<1>8. pc \in {"compact", "erase", "relocate"} \/ pc = "prog" \/ pc = "link"
  BY DEF Busy
<1>9. CASE pc = "prog" /\ j.compact
  BY <1>6, <1>9
<1>10. CASE pc = "link"
  <2>1. j.compact
    BY <1>7, <1>10
  <2> QED
    BY <1>6, <1>10, <2>1
<1> QED
  BY <1>4, <1>5, <1>8, <1>9, <1>10, Zenon

\* The next unit is programmed, or is left in any state.
LEMMA ProgWay ==
  ASSUME PairTypeOK, NEW m, NEW o, NEW x, pc = "prog", Way(disk, job, m, o, x),
         m = job.pair[1], x = job.pair[2], job.k < job.n,
         NEW p \in Unit, p = Part(job.k + 1, job.n, job.v, job.rev) \/ p.kind = "junk",
         NEW d, d = [disk EXCEPT ![Target][job.at] = p],
         NEW j, j = [job EXCEPT !.at = @ + 1, !.k = @ + 1]
  PROVE  /\ disk[Target][job.at] = Erased
         /\ d \in [Blocks -> Block] /\ j \in Jobs /\ Way(d, j, m, o, x)
         /\ d[m][1].rev = disk[m][1].rev
<1>1. /\ disk \in [Blocks -> Block] /\ job \in Jobs /\ m \in Blocks /\ x \in Blocks
      /\ job.compact \in BOOLEAN /\ job.n \in 1..Units /\ job.k \in Nat /\ job.n \in 1..2
      /\ job.at \in Nat
  BY JobTyped, UnitsIs DEF PairTypeOK
<1>2. /\ j \in Jobs /\ j.at = job.at + 1 /\ j.k = job.k + 1 /\ j.pair = job.pair
      /\ j.rev = job.rev /\ j.n = job.n /\ j.v = job.v /\ j.compact = job.compact
      /\ j.relocated = job.relocated
  BY <1>1, JobNext
<1>3. Linked(linked, m, o) /\ m # x /\ o \in Blocks /\ m # o
  BY DEF Way, Linked
<1>4. Target \in Blocks /\ Target = IF job.compact THEN x ELSE m
  BY <1>1 DEF Target
<1>5. d[Target] = [disk[Target] EXCEPT ![job.at] = p] /\ d \in [Blocks -> Block]
      /\ \A b \in Blocks : b # Target => d[b] = disk[b]
  BY <1>1, <1>4 DEF Block
<1>6. CASE job.compact
  <2>1. Rewriting(disk, job, m, o, x)
    BY <1>6 DEF Way
  <2>2. /\ 0 \in 0..Units /\ 0 + job.n <= Units /\ job.at = 0 + 1 + job.k
        /\ disk[x] \in Block /\ Laid(disk[x], 0, job)
    BY <1>1, <2>1, UnitsIs DEF Rewriting
  <2>3. job.at \in 1..Units /\ disk[x][job.at] = Erased
        /\ Laid([disk[x] EXCEPT ![job.at] = p], 0, j)
    BY <1>1, <2>2, LaidMore
  <2>4. d[m] = disk[m] /\ (x # o => d[o] = disk[o]) /\ Laid(d[x], 0, j)
    BY <1>1, <1>3, <1>4, <1>5, <1>6, <2>3
  <2>5. Rewriting(d, j, m, o, x)
    BY <1>1, <1>2, <2>1, <2>4 DEF Rewriting, Older
  <2>6. Way(d, j, m, o, x)
    BY <1>1, <1>2, <1>6, <2>4, <2>5 DEF Way
  <2> QED
    BY <1>2, <1>4, <1>5, <1>6, <2>3, <2>4, <2>6
<1>7. CASE ~job.compact
  <2>1. Appending(disk, job, m, o) /\ ~job.relocated
    BY <1>7 DEF Way
  <2>2. PICK e \in 1..Units :
          /\ e \in ValidEnds(disk[m]) /\ disk[m][e].v = committed
          /\ e + job.n <= Units /\ job.at = e + 1 + job.k /\ Laid(disk[m], e, job)
    BY <2>1 DEF Appending
  <2>3. job.at \in 1..Units /\ disk[m][job.at] = Erased
        /\ Laid([disk[m] EXCEPT ![job.at] = p], e, j)
    <3>1. disk[m] \in Block /\ e \in 0..Units
      BY <1>1, UnitsIs
    <3> QED
      BY <1>1, <2>2, <3>1, LaidMore
  <2>4. d[o] = disk[o] /\ Laid(d[m], e, j)
    BY <1>1, <1>3, <1>4, <1>5, <1>7, <2>3
  <2>5. \A u \in 1..e : d[m][u] = disk[m][u]
    <3>1. \A u \in 1..e : u \in 1..Units /\ u # job.at
      BY <1>1, <2>2, UnitsIs
    <3> QED
      BY <1>1, <1>4, <1>5, <1>7, <3>1 DEF Block
  <2>6. e \in ValidEnds(d[m]) /\ d[m][e].v = committed /\ d[m][1].rev = disk[m][1].rev
    <3>1. e \in ValidEnds(d[m])
      BY <2>2, <2>5, EndsKept
    <3>2. 1 \in 1..e /\ e \in 1..e
      BY UnitsIs
    <3> QED
      BY <2>2, <2>5, <3>1, <3>2
  <2>7. Appending(d, j, m, o)
    BY <1>1, <1>2, <2>1, <2>2, <2>4, <2>6 DEF Appending, Older
  <2>8. Way(d, j, m, o, x)
    BY <1>1, <1>2, <1>7, <2>1, <2>7 DEF Way
  <2> QED
    BY <1>2, <1>4, <1>5, <1>7, <2>3, <2>6, <2>8
<1> QED
  BY <1>1, <1>6, <1>7

-----------------------------------------------------------------------------
(***************************************************************************)
(* The steps.                                                              *)
(***************************************************************************)
LEMMA BeginIs ==
  ASSUME PairInv, BeginCommit
  PROVE  /\ PairTypeOK /\ ~reprogrammed /\ pc = "idle"
         /\ UNCHANGED <<disk, linked, super, committed, kept, aliased, reprogrammed>>
         /\ \E m, o \in Blocks, e \in 1..Units, n \in 1..2 :
              /\ Leads(disk, linked, m, o, committed) /\ Says(disk[m], e, committed)
              /\ job' = [pair |-> <<m, o>>, rev |-> disk[m][1].rev, at |-> e + 1, k |-> 0,
                         n |-> n, v |-> committed + 1, compact |-> FALSE, tired |-> FALSE,
                         relocated |-> FALSE, wear |-> FALSE]
              /\ pc' = IF Erasable(disk[m], e) /\ e + n <= Units THEN "prog" ELSE "compact"
<1>1. PairTypeOK /\ ~reprogrammed /\ pc = "idle"
  BY DEF PairInv, BeginCommit
<1>2. PICK m \in Blocks, o \in Blocks : Leads(disk, linked, m, o, committed)
  BY <1>1 DEF PairInv
<1>3. PICK e \in 1..Units : Says(disk[m], e, committed)
  BY <1>2 DEF Leads
<1> DEFINE f == Fetch(disk, linked)
<1>4. f = [pair |-> <<m, o>>, rev |-> disk[m][1].rev, off |-> e, v |-> committed,
           erased |-> Erasable(disk[m], e)]
  BY <1>1, <1>2, <1>3, FetchIs DEF PairTypeOK
<1>5. PICK n \in 1..2 :
        /\ job' = [NoJob EXCEPT !.pair = f.pair, !.rev = f.rev, !.n = n, !.v = committed + 1,
                                !.at = f.off + 1]
        /\ pc' = IF f.erased /\ f.off + n <= Units THEN "prog" ELSE "compact"
        /\ UNCHANGED <<disk, linked, super, committed, kept, aliased, reprogrammed>>
  BY DEF BeginCommit
<1> HIDE DEF f
<1>6. job' = [pair |-> <<m, o>>, rev |-> disk[m][1].rev, at |-> e + 1, k |-> 0, n |-> n,
              v |-> committed + 1, compact |-> FALSE, tired |-> FALSE, relocated |-> FALSE,
              wear |-> FALSE]
  BY <1>4, <1>5 DEF NoJob
<1>7. pc' = IF Erasable(disk[m], e) /\ e + n <= Units THEN "prog" ELSE "compact"
  BY <1>4, <1>5
<1> QED
  BY <1>1, <1>2, <1>3, <1>5, <1>6, <1>7

LEMMA BeginPair == PairInv /\ BeginCommit => PairInv'
<1> SUFFICES ASSUME PairInv, BeginCommit PROVE PairInv'
  OBVIOUS
<1>1. /\ PairTypeOK /\ ~reprogrammed /\ pc = "idle"
      /\ UNCHANGED <<disk, linked, super, committed, kept, aliased, reprogrammed>>
  BY BeginIs
<1>2. PICK m \in Blocks, o \in Blocks, e \in 1..Units, n \in 1..2 :
        /\ Leads(disk, linked, m, o, committed) /\ Says(disk[m], e, committed)
        /\ job' = [pair |-> <<m, o>>, rev |-> disk[m][1].rev, at |-> e + 1, k |-> 0, n |-> n,
                   v |-> committed + 1, compact |-> FALSE, tired |-> FALSE,
                   relocated |-> FALSE, wear |-> FALSE]
        /\ pc' = IF Erasable(disk[m], e) /\ e + n <= Units THEN "prog" ELSE "compact"
  BY BeginIs
<1>3. disk[m][1].rev \in Rev /\ e + 1 \in Nat /\ committed + 1 \in Nat
  BY <1>1, UnitsIs DEF PairTypeOK, Block, Unit
<1>4. job' \in Jobs
  BY <1>2, <1>3 DEF Jobs
<1>5. PairTypeOK' /\ ~reprogrammed' /\ pc' # "idle"
  BY <1>1, <1>2, <1>4 DEF PairTypeOK
<1>6. job'.pair[1] = m /\ job'.pair[2] = o /\ job'.k = 0 /\ job'.n = n /\ job'.at = e + 1
       /\ job'.rev = disk[m][1].rev /\ ~job'.compact /\ ~job'.relocated
  BY <1>2
<1>7. Linked(linked, m, o) /\ Older(disk, m, o)
  BY <1>2 DEF Leads
<1>8. ASSUME pc' = "prog" PROVE Appending(disk, job, m, o)'
  <2>1. Erasable(disk[m], e) /\ e + n <= Units
    BY <1>2, <1>8
  <2>2. UnitsErased(disk[m], e + 1) /\ disk[m][e + 1] = Erased
    <3>1. e + 1 \in 1..Units
      BY <2>1, UnitsIs
    <3> QED
      BY <1>2, <2>1, <3>1 DEF Erasable, Says
  <2>3. \A u \in 1..Units : u > e + 0 => disk[m][u] = Erased
    <3> TAKE u \in 1..Units
    <3>1. u > e + 0 => u = e + 1 \/ e + 1 < u
      OBVIOUS
    <3> QED
      BY <2>2, <3>1 DEF UnitsErased
  <2>4. Laid(disk[m], e, job')
    BY <1>6, <2>3 DEF Laid
  <2>5. e \in ValidEnds(disk[m]) /\ disk[m][e].v = committed
    BY <1>2 DEF Says
  <2> QED
    BY <1>1, <1>6, <1>7, <2>1, <2>4, <2>5 DEF Appending
<1>9. Way(disk, job, job.pair[1], o, job.pair[2])'
  <2>1. pc' \in {"compact", "prog"}
    BY <1>2
  <2> QED
    BY <1>1, <1>2, <1>6, <1>7, <1>8, <2>1 DEF Way, Linked
<1> QED
  BY <1>5, <1>9 DEF PairInv

\* Where a commit stands, for the lemmas on its steps.
LEMMA WayIs ==
  ASSUME PairInv, pc # "idle"
  PROVE  /\ PairTypeOK /\ ~reprogrammed /\ pc \in Busy /\ job \in Jobs
         /\ \E o \in Blocks : Way(disk, job, job.pair[1], o, job.pair[2])
  BY DEF PairInv, PairTypeOK, Busy

LEMMA CompactPair == PairInv /\ Compact => PairInv'
<1> SUFFICES ASSUME PairInv, Compact PROVE PairInv'
  OBVIOUS
<1>1. pc = "compact"
  BY DEF Compact
<1>2. PairTypeOK /\ ~reprogrammed /\ job \in Jobs
  BY <1>1, WayIs
<1>3. PICK o \in Blocks : Way(disk, job, job.pair[1], o, job.pair[2])
  BY <1>1, WayIs
<1>4. /\ job' = [job EXCEPT !.rev = (@ + 1) % Revs, !.tired = NeedsRelocation(job.rev),
                            !.compact = TRUE, !.at = 1, !.k = 0]
      /\ pc' \in {"relocate", "erase"}
      /\ UNCHANGED <<disk, linked, super, committed, kept, aliased, reprogrammed>>
  BY DEF Compact
<1>5. job' = [pair |-> job.pair, rev |-> (job.rev + 1) % Revs, at |-> 1, k |-> 0, n |-> job.n,
              v |-> job.v, compact |-> TRUE, tired |-> NeedsRelocation(job.rev),
              relocated |-> job.relocated, wear |-> job.wear]
  BY <1>2, <1>4 DEF Jobs
<1>6. (job.rev + 1) % Revs \in Rev /\ NeedsRelocation(job.rev) \in BOOLEAN
  BY <1>2, JobTyped, FollowingNewer DEF NeedsRelocation
<1>7. job' \in Jobs
  BY <1>2, <1>5, <1>6, JobTyped, Zenon DEF Jobs
<1>8. /\ Older(disk, job.pair[1], o) /\ job.rev = disk[job.pair[1]][1].rev
      /\ \E e \in 1..Units : Says(disk[job.pair[1]], e, committed)
      /\ Linked(linked, job.pair[1], o) /\ job.pair[1] # job.pair[2]
      /\ ~job.relocated => job.pair[2] = o
  BY <1>1, <1>3 DEF Way
<1>9. job'.pair = job.pair /\ job'.rev = (job.rev + 1) % Revs /\ job'.at = 1 /\ job'.k = 0
      /\ job'.n = job.n /\ job'.compact /\ job'.relocated = job.relocated
  BY <1>5
<1>10. Way(disk, job, job.pair[1], o, job.pair[2])'
  BY <1>2, <1>4, <1>8, <1>9, JobTyped DEF Way
<1> QED
  BY <1>2, <1>4, <1>7, <1>10 DEF PairInv, PairTypeOK

LEMMA ErasedBlock ==
  AllErased \in Block /\ ValidEnds(AllErased) = {} /\ \A u \in 1..Units : AllErased[u] = Erased
<1>1. AllErased \in Block /\ \A u \in 1..Units : AllErased[u] = Erased
  BY UnitTypes DEF AllErased, Block
<1>2. \A u \in 1..Units : AllErased[u].kind # "part"
  BY <1>1, KindIs
<1>3. ValidEnds(AllErased) = {}
  BY <1>2 DEF ValidEnds, Follows
<1> QED
  BY <1>1, <1>3

\* The block to write becomes b, which says nothing that it did not say.
LEMMA EraseWay ==
  ASSUME PairTypeOK, NEW o, pc = "erase", Way(disk, job, job.pair[1], o, job.pair[2]),
         NEW b \in Block,
         ValidEnds(b) = {} \/ (ValidEnds(disk[job.pair[2]]) # {} /\ b[1] = disk[job.pair[2]][1]),
         disk' = [disk EXCEPT ![job.pair[2]] = b]
  PROVE  /\ disk' \in [Blocks -> Block] /\ disk'[job.pair[2]] = b
         /\ disk'[job.pair[1]] = disk[job.pair[1]]
         /\ Way(disk', job, job.pair[1], o, job.pair[2])
<1> DEFINE m == job.pair[1]
           x == job.pair[2]
<1>1. /\ disk \in [Blocks -> Block] /\ job \in Jobs /\ m \in Blocks /\ x \in Blocks /\ m # x
      /\ Linked(linked, m, o) /\ o \in Blocks /\ Older(disk, m, o)
  BY JobTyped DEF PairTypeOK, Way, Linked
<1>2. /\ disk' \in [Blocks -> Block] /\ disk'[x] = b /\ disk'[m] = disk[m]
      /\ o # x => disk'[o] = disk[o]
  BY <1>1
<1>3. Older(disk', m, o)
  BY <1>1, <1>2 DEF Older
<1>4. Way(disk', job, m, o, x)
  BY <1>1, <1>2, <1>3 DEF Way
<1> QED
  BY <1>2, <1>4

LEMMA ErasePair == PairInv /\ Erase => PairInv'
<1> SUFFICES ASSUME PairInv, Erase PROVE PairInv'
  OBVIOUS
<1>1. pc = "erase"
  BY DEF Erase
<1>2. PairTypeOK /\ ~reprogrammed /\ job \in Jobs
  BY <1>1, WayIs
<1>3. PICK o \in Blocks : Way(disk, job, job.pair[1], o, job.pair[2])
  BY <1>1, WayIs
<1>4. job.compact /\ job.at = 1 /\ job.k = 0 /\ Older(disk, job.pair[1], o)
  BY <1>1, <1>2, <1>3, JobTyped DEF Way
<1>5. UNCHANGED <<job, linked, super, committed, kept, aliased, reprogrammed>>
  BY DEF Erase
<1>6. CASE disk' = [disk EXCEPT ![job.pair[2]] = AllErased] /\ pc' = "prog"
  <2>1. /\ disk' \in [Blocks -> Block] /\ disk'[job.pair[2]] = AllErased
        /\ Way(disk', job, job.pair[1], o, job.pair[2])
    <3>1. AllErased \in Block /\ ValidEnds(AllErased) = {}
      BY ErasedBlock
    <3> QED
      BY <1>1, <1>2, <1>3, <1>6, <3>1, EraseWay
  <2>2. Laid(AllErased, 0, job)
    BY <1>4, ErasedBlock DEF Laid
  <2>3. Rewriting(disk', job, job.pair[1], o, job.pair[2])
    BY <1>1, <1>4, <2>1, <2>2 DEF Rewriting, Way
  <2>4. Way(disk, job, job.pair[1], o, job.pair[2])'
    BY <1>1, <1>4, <1>5, <1>6, <2>1, <2>3 DEF Way, Rewriting
  <2> QED
    BY <1>2, <1>5, <1>6, <2>1, <2>4 DEF PairInv, PairTypeOK
<1>7. CASE pc' = Refused /\ UNCHANGED disk
  <2>1. pc' = "relocate"
    BY <1>4, <1>7 DEF Refused
  <2>2. Way(disk, job, job.pair[1], o, job.pair[2])'
    BY <1>1, <1>3, <1>4, <1>5, <1>7, <2>1 DEF Way
  <2> QED
    BY <1>2, <1>5, <1>7, <2>1, <2>2 DEF PairInv, PairTypeOK
<1> QED
  BY <1>6, <1>7 DEF Erase

\* A commit that is refused: the one before stands.
LEMMA RefusedWay ==
  ASSUME PairInv, pc = "prog", NEW o \in Blocks, Way(disk, job, job.pair[1], o, job.pair[2]),
         ~Complete(disk[Target], job.at - job.k - 1, job)
  PROVE  /\ Older(disk, job.pair[1], o)
         /\ \E e \in 1..Units : Says(disk[job.pair[1]], e, committed)
         /\ ~job.compact => job.rev = disk[job.pair[1]][1].rev
<1> DEFINE m == job.pair[1]
           x == job.pair[2]
<1>1. job \in Jobs /\ job.k <= job.n /\ job.compact \in BOOLEAN /\ job.k \in Nat /\ job.at \in Nat
  BY WayIs, JobTyped DEF Way
<1>2. CASE job.compact
  <2>1. Rewriting(disk, job, m, o, x) /\ \E e \in 1..Units : Says(disk[m], e, committed)
    BY <1>2 DEF Way
  <2>2. x # o => Older(disk, m, o)
    BY <2>1 DEF Rewriting
  <2>3. ValidEnds(disk[x]) = {}
    <3>1. Target = x /\ job.at - job.k - 1 = 0
      BY <1>1, <1>2, <2>1 DEF Target, Rewriting
    <3>2. ~Complete(disk[x], 0, job)
      BY <3>1
    <3> QED
      BY <1>1, <2>1, <3>2, RewrittenSays DEF Rewriting
  <2>4. x = o => Older(disk, m, o)
    BY <2>3 DEF Older
  <2> QED
    BY <1>2, <2>1, <2>2, <2>4
<1>3. CASE ~job.compact
  <2>1. Appending(disk, job, m, o)
    BY <1>3 DEF Way
  <2>2. PICK e \in 1..Units : /\ e \in ValidEnds(disk[m]) /\ disk[m][e].v = committed
                              /\ e + job.n <= Units /\ job.at = e + 1 + job.k
                              /\ Laid(disk[m], e, job)
    BY <2>1 DEF Appending
  <2>3. Target = m /\ job.at - job.k - 1 = e
    BY <1>1, <1>3, <2>2, UnitsIs DEF Target
  <2>4. ~Complete(disk[m], e, job)
    BY <2>3
  <2>5. Says(disk[m], e, committed)
    BY <1>1, <2>2, <2>4, AppendedSays
  <2> QED
    BY <2>1, <2>5 DEF Appending
<1> QED
  BY <1>1, <1>2, <1>3

LEMMA ProgPair == PairInv /\ Prog => PairInv'
<1> SUFFICES ASSUME PairInv, Prog PROVE PairInv'
  OBVIOUS
<1>1. pc = "prog" /\ job.k < job.n
  BY DEF Prog
<1>2. PairTypeOK /\ ~reprogrammed /\ job \in Jobs
  BY <1>1, WayIs
<1>3. PICK o \in Blocks : Way(disk, job, job.pair[1], o, job.pair[2])
  BY <1>1, WayIs
<1>4. UNCHANGED <<linked, super, committed, kept, aliased>>
  BY DEF Prog
<1>5. ASSUME NEW p \in Unit, p = Part(job.k + 1, job.n, job.v, job.rev) \/ p.kind = "junk",
             disk' = [disk EXCEPT ![Target][job.at] = p],
             reprogrammed' = (reprogrammed \/ disk[Target][job.at] # Erased),
             job' = [job EXCEPT !.at = @ + 1, !.k = @ + 1], pc' = pc
      PROVE  PairInv'
  <2>1. /\ disk[Target][job.at] = Erased /\ disk' \in [Blocks -> Block] /\ job' \in Jobs
        /\ Way(disk', job', job.pair[1], o, job.pair[2])
    BY <1>1, <1>2, <1>3, <1>5, ProgWay
  <2>2. job'.pair = job.pair
    BY <1>2, <1>5, JobNext
  <2>3. Way(disk, job, job.pair[1], o, job.pair[2])'
    BY <1>4, <1>5, <2>1, <2>2 DEF Way, Appending
  <2> QED
    BY <1>1, <1>2, <1>4, <1>5, <2>1, <2>3 DEF PairInv, PairTypeOK
<1>6. disk[Target][job.at] = Erased
  <2>1. Junk(0) \in Unit /\ Junk(0).kind = "junk"
    BY UnitTypes, KindIs, HalfIs DEF Rev
  <2> QED
    BY <1>1, <1>2, <1>3, <2>1, ProgWay
<1>7. CASE /\ \/ disk' = UnitProgrammed(Target, job.at, Part(job.k + 1, job.n, job.v, job.rev))
              \/ disk' = [disk EXCEPT ![Target][job.at] = Junk(@.rev)]
           /\ reprogrammed' = (reprogrammed \/ disk[Target][job.at] # Erased)
           /\ job' = [job EXCEPT !.at = @ + 1, !.k = @ + 1]
           /\ pc' = pc
  <2>1. job.k + 1 \in Nat /\ job.n \in Nat /\ job.v \in Nat /\ job.rev \in Rev
    BY <1>2, JobTyped
  <2>2. Erased.rev \in Rev
    BY HalfIs DEF Erased, Rev
  <2>3. CASE disk' = UnitProgrammed(Target, job.at, Part(job.k + 1, job.n, job.v, job.rev))
    <3>1. disk' = [disk EXCEPT ![Target][job.at] = Part(job.k + 1, job.n, job.v, job.rev)]
      BY <1>6, <2>3 DEF UnitProgrammed
    <3>2. Part(job.k + 1, job.n, job.v, job.rev) \in Unit
      BY <2>1, UnitTypes
    <3> QED
      BY <1>5, <1>7, <3>1, <3>2
  <2>4. CASE disk' = [disk EXCEPT ![Target][job.at] = Junk(@.rev)]
    <3>1. disk' = [disk EXCEPT ![Target][job.at] = Junk(Erased.rev)]
      BY <1>6, <2>4
    <3>2. Junk(Erased.rev) \in Unit /\ Junk(Erased.rev).kind = "junk"
      BY <2>2, UnitTypes, KindIs
    <3> QED
      BY <1>5, <1>7, <3>1, <3>2
  <2> QED
    BY <1>7, <2>3, <2>4
<1>8. CASE pc' = Refused /\ UNCHANGED <<disk, job, reprogrammed>>
  <2>1. \A b, e : ~Complete(b, e, job)
    BY <1>1, <1>2, JobTyped DEF Complete
  <2>2. /\ Older(disk, job.pair[1], o)
        /\ \E e \in 1..Units : Says(disk[job.pair[1]], e, committed)
        /\ ~job.compact => job.rev = disk[job.pair[1]][1].rev
    BY <1>1, <1>3, <2>1, RefusedWay
  <2>3. pc' = (IF job.compact THEN "relocate" ELSE "compact")
    BY <1>8 DEF Refused
  <2>4. Way(disk, job, job.pair[1], o, job.pair[2])'
    BY <1>2, <1>3, <1>4, <1>8, <2>2, <2>3, JobTyped DEF Way
  <2> QED
    BY <1>2, <1>4, <1>8, <2>3, <2>4 DEF PairInv, PairTypeOK
<1> QED
  BY <1>7, <1>8 DEF Prog

\* What lfs_dir_commitcrc reads back is the commit, from its last part on.
LEMMA IntactIs ==
  ASSUME PairInv, pc = "prog", job.k = job.n
  PROVE  Intact <=> Complete(disk[Target], job.at - job.k - 1, job)
<1>1. job \in Jobs /\ job.n \in Nat /\ job.at \in Nat /\ job.k \in Nat
  BY WayIs, JobTyped
<1>2. ASSUME Intact, NEW i \in 1..job.n
      PROVE  disk[Target][job.at - job.k - 1 + i] = Part(i, job.n, job.v, job.rev)
  <2>1. /\ job.n + 1 - i \in 1..job.n /\ job.n + 1 - (job.n + 1 - i) = i
        /\ job.at - (job.n + 1 - i) = job.at - job.k - 1 + i
    BY <1>1
  <2>2. disk[Target][job.at - (job.n + 1 - i)]
          = Part(job.n + 1 - (job.n + 1 - i), job.n, job.v, job.rev)
    BY <1>2, <2>1 DEF Intact
  <2> QED
    BY <2>1, <2>2
<1>3. ASSUME Complete(disk[Target], job.at - job.k - 1, job), NEW i \in 1..job.n
      PROVE  disk[Target][job.at - i] = Part(job.n + 1 - i, job.n, job.v, job.rev)
  <2>1. job.n + 1 - i \in 1..job.n /\ job.at - job.k - 1 + (job.n + 1 - i) = job.at - i
    BY <1>1
  <2> QED
    BY <1>3, <2>1 DEF Complete
<1> QED
  BY <1>2, <1>3 DEF Intact, Complete

LEMMA VerifyPair == PairInv /\ Verify => PairInv'
<1> SUFFICES ASSUME PairInv, Verify PROVE PairInv'
  OBVIOUS
<1>1. pc = "prog" /\ job.k = job.n
  BY DEF Verify
<1>2. PairTypeOK /\ ~reprogrammed /\ job \in Jobs /\ job.n \in 1..2 /\ job.v \in Nat
      /\ job.compact \in BOOLEAN /\ job.at \in Nat /\ job.relocated \in BOOLEAN
  BY <1>1, WayIs, JobTyped
<1>3. PICK o \in Blocks : Way(disk, job, job.pair[1], o, job.pair[2])
  BY <1>1, WayIs
<1> DEFINE m == job.pair[1]
           x == job.pair[2]
<1>4. /\ pc' = IF ~Intact THEN Refused ELSE IF job.relocated THEN "link" ELSE "idle"
      /\ committed' = IF pc' = "idle" THEN job.v ELSE committed
      /\ job' = IF pc' = "idle" THEN NoJob ELSE job
      /\ UNCHANGED <<disk, linked, super, kept, aliased, reprogrammed>>
  BY DEF Verify
<1>5. CASE ~Intact
  <2>1. /\ Older(disk, m, o) /\ \E e \in 1..Units : Says(disk[m], e, committed)
        /\ ~job.compact => job.rev = disk[m][1].rev
    BY <1>1, <1>3, <1>5, IntactIs, RefusedWay
  <2>2. pc' = (IF job.compact THEN "relocate" ELSE "compact")
    BY <1>4, <1>5 DEF Refused
  <2>3. UNCHANGED <<disk, linked, super, kept, aliased, reprogrammed, job, committed>>
    BY <1>4, <2>2
  <2>4. Way(disk, job, m, o, x)'
    BY <1>2, <1>3, <2>1, <2>2, <2>3 DEF Way
  <2> QED
    BY <1>2, <2>2, <2>3, <2>4 DEF PairInv, PairTypeOK
<1>6. CASE Intact /\ job.relocated
  <2>1. /\ pc' = "link"
        /\ UNCHANGED <<disk, linked, super, kept, aliased, reprogrammed, job, committed>>
    BY <1>4, <1>6
  <2>2. job.compact /\ Rewriting(disk, job, m, o, x)
    BY <1>1, <1>2, <1>3, <1>6 DEF Way
  <2>3. Complete(disk[x], 0, job)
    <3>1. Target = x /\ job.at - job.k - 1 = 0
      BY <1>1, <1>2, <2>2 DEF Target, Rewriting
    <3>2. Complete(disk[Target], job.at - job.k - 1, job)
      BY <1>1, <1>6, IntactIs
    <3> QED
      BY <3>1, <3>2
  <2>4. Way(disk, job, m, o, x)'
    BY <1>3, <1>6, <2>1, <2>2, <2>3 DEF Way, Rewriting
  <2> QED
    BY <1>2, <2>1, <2>4 DEF PairInv, PairTypeOK
<1>7. CASE Intact /\ ~job.relocated
  <2>1. pc' = "idle" /\ committed' = job.v
        /\ UNCHANGED <<disk, linked, super, kept, aliased, reprogrammed>>
    BY <1>4, <1>7
  <2>2. x = o /\ Linked(linked, m, o) /\ Linked(linked, o, m) /\ m \in Blocks
    BY <1>3, <1>7 DEF Way, Linked
  <2>3. Complete(disk[Target], job.at - job.k - 1, job)
    BY <1>1, <1>7, IntactIs
  <2>4. CASE job.compact
    <3>1. Rewriting(disk, job, m, o, x) /\ job.rev = (disk[m][1].rev + 1) % Revs
      BY <1>1, <1>3, <2>4 DEF Way
    <3>2. Target = x /\ job.at - job.k - 1 = 0
      BY <1>1, <1>2, <2>4, <3>1 DEF Target, Rewriting
    <3>3. Says(disk[o], job.n, job.v) /\ disk[o][1].rev = job.rev
      BY <1>1, <1>2, <2>2, <2>3, <3>1, <3>2, RewrittenSays DEF Rewriting
    <3>4. Older(disk, o, m)
      <4>1. disk[m][1].rev \in Rev
        BY <1>2, <2>2, UnitsIs DEF PairTypeOK, Block, Unit
      <4> QED
        BY <3>1, <3>3, <4>1, FollowingNewer DEF Older
    <3>5. job.n \in 1..Units
      BY <1>2, UnitsIs
    <3>6. Leads(disk, linked, o, m, job.v)
      BY <2>2, <3>3, <3>4, <3>5 DEF Leads
    <3> QED
      BY <1>2, <2>1, <2>2, <3>6 DEF PairInv, PairTypeOK, Leads
  <2>5. CASE ~job.compact
    <3>1. Appending(disk, job, m, o)
      BY <1>1, <1>3, <2>5 DEF Way
    <3>2. PICK e \in 1..Units : /\ e \in ValidEnds(disk[m]) /\ e + job.n <= Units
                                /\ job.at = e + 1 + job.k /\ Laid(disk[m], e, job)
      BY <3>1 DEF Appending
    <3>3. Target = m /\ job.at - job.k - 1 = e
      BY <1>1, <1>2, <2>5, <3>2, UnitsIs DEF Target
    <3>4. job.k <= job.n
      BY <1>1, <1>2
    <3>5. Says(disk[m], e + job.n, job.v)
      BY <1>2, <2>3, <3>2, <3>3, <3>4, AppendedSays
    <3>6. e + job.n \in 1..Units
      BY <1>2, <3>2, UnitsIs
    <3>7. Leads(disk, linked, m, o, job.v)
      BY <2>2, <3>1, <3>5, <3>6 DEF Leads, Appending
    <3> QED
      BY <1>2, <2>1, <2>2, <3>7 DEF PairInv, PairTypeOK, Leads
  <2> QED
    BY <1>2, <2>4, <2>5
<1> QED
  BY <1>2, <1>5, <1>6, <1>7

LEMMA RelocatePair == PairInv /\ Relocate => PairInv'
<1> SUFFICES ASSUME PairInv, Relocate PROVE PairInv'
  OBVIOUS
<1>1. pc = "relocate"
  BY DEF Relocate
<1>2. PairTypeOK /\ ~reprogrammed /\ job \in Jobs
  BY <1>1, WayIs
<1>3. PICK o \in Blocks : Way(disk, job, job.pair[1], o, job.pair[2])
  BY <1>1, WayIs
<1> DEFINE m == job.pair[1]
           x == job.pair[2]
           free == Blocks \ {job.pair[1], job.pair[2], linked[1], linked[2]}
<1>4. UNCHANGED <<disk, linked, super, committed, kept, aliased, reprogrammed>>
  BY DEF Relocate
<1>5. /\ Linked(linked, m, o) /\ m # x /\ Older(disk, m, o) /\ job.compact
      /\ job.rev = (disk[m][1].rev + 1) % Revs /\ job.k <= job.n
      /\ \E e \in 1..Units : Says(disk[m], e, committed)
  BY <1>1, <1>2, <1>3, JobTyped DEF Way
<1>6. CASE pc' = "idle" /\ job' = NoJob
  <2>1. Leads(disk, linked, m, o, committed)
    BY <1>5 DEF Leads
  <2> QED
    BY <1>2, <1>4, <1>6, <2>1, JobTyped DEF PairInv, PairTypeOK
<1>7. ASSUME pc' = "erase", NEW b \in Blocks, b # m,
             job' = [job EXCEPT !.pair[2] = b, !.relocated = TRUE, !.tired = FALSE,
                                !.wear = job.tired /\ free # {}, !.at = 1, !.k = 0]
      PROVE  PairInv'
  <2> DEFINE w == job.tired /\ free # {}
  <2>1. job.pair = <<m, x>> /\ m \in Blocks
    BY <1>2, JobTyped
  <2>2. w \in BOOLEAN
    OBVIOUS
  <2>3. job' = [job EXCEPT !.pair[2] = b, !.relocated = TRUE, !.tired = FALSE, !.wear = w,
                           !.at = 1, !.k = 0]
    BY <1>7, Zenon
  <2> HIDE DEF w
  <2>4. job' = [pair |-> <<m, b>>, rev |-> job.rev, at |-> 1, k |-> 0, n |-> job.n, v |-> job.v,
                compact |-> job.compact, tired |-> FALSE, relocated |-> TRUE, wear |-> w]
    <3>1. [job.pair EXCEPT ![2] = b] = <<m, b>>
      BY <2>1
    <3>2. job = [pair |-> job.pair, rev |-> job.rev, at |-> job.at, k |-> job.k, n |-> job.n,
                 v |-> job.v, compact |-> job.compact, tired |-> job.tired,
                 relocated |-> job.relocated, wear |-> job.wear]
      BY <1>2 DEF Jobs
    <3> QED
      BY <2>3, <3>1, <3>2
  <2>5. job' \in Jobs
    BY <1>2, <1>7, <2>1, <2>2, <2>4, JobTyped, Zenon DEF Jobs
  <2>6. /\ job'.pair[1] = m /\ job'.pair[2] = b /\ job'.rev = job.rev
        /\ job'.compact = job.compact /\ job'.relocated /\ job'.k = 0 /\ job'.n = job.n /\ job'.at = 1
    BY <2>4
  <2>7. 0 <= job.n
    BY <1>2, JobTyped
  <2>8. Way(disk, job, job.pair[1], o, job.pair[2])'
    BY <1>4, <1>5, <1>7, <2>6, <2>7 DEF Way, Linked
  <2> QED
    BY <1>2, <1>4, <1>7, <2>5, <2>8 DEF PairInv, PairTypeOK
<1>8. CASE pc' # "idle"
  <2>1. pc' = "erase" /\ \E b \in IF free = {} THEN {x} ELSE free :
          job' = [job EXCEPT !.pair[2] = b, !.relocated = TRUE, !.tired = FALSE,
                             !.wear = job.tired /\ free # {}, !.at = 1, !.k = 0]
    BY <1>8 DEF Relocate
  <2>2. x \in Blocks
    BY <1>2, JobTyped
  <2>3. \A b \in IF free = {} THEN {x} ELSE free : b \in Blocks /\ b # m
    BY <1>5, <2>2
  <2> QED
    BY <1>7, <2>1, <2>3
<1> QED
  BY <1>6, <1>8 DEF Relocate

LEMMA LinkIs ==
  ASSUME PairInv, Link
  PROVE  /\ Leads(disk', linked', job.pair[2], job.pair[1], committed')
         /\ disk'[job.pair[2]][1].rev = (disk[job.pair[1]][1].rev + 1) % Revs
         /\ \E o \in Blocks : Linked(linked, job.pair[1], o)
<1>1. pc = "link"
  BY DEF Link
<1>2. PairTypeOK /\ job \in Jobs /\ job.n \in 1..Units
      /\ job.pair[1] \in Blocks /\ job.pair[2] \in Blocks /\ job.compact \in BOOLEAN
  BY <1>1, WayIs, JobTyped, UnitsIs
<1>3. PICK o \in Blocks : Way(disk, job, job.pair[1], o, job.pair[2])
  BY <1>1, WayIs
<1> DEFINE m == job.pair[1]
           x == job.pair[2]
<1>4. linked' = <<x, m>> /\ committed' = job.v /\ UNCHANGED disk
  BY DEF Link
<1>5. /\ job.compact /\ m # x /\ job.rev = (disk[m][1].rev + 1) % Revs /\ job.k <= job.n
      /\ Laid(disk[x], 0, job) /\ Complete(disk[x], 0, job) /\ Linked(linked, m, o)
  BY <1>1, <1>2, <1>3 DEF Way, Rewriting
<1>6. Says(disk[x], job.n, job.v) /\ disk[x][1].rev = job.rev
  BY <1>2, <1>5, RewrittenSays
<1>7. disk[m][1].rev \in Rev
  BY <1>2, UnitsIs DEF PairTypeOK, Block, Unit
<1>8. Older(disk, x, m)
  BY <1>5, <1>6, <1>7, FollowingNewer DEF Older
<1>9. Leads(disk, <<x, m>>, x, m, job.v)
  BY <1>2, <1>5, <1>6, <1>8 DEF Leads, Linked
<1> QED
  BY <1>4, <1>5, <1>6, <1>9

LEMMA LinkPair == PairInv /\ Link => PairInv'
<1> SUFFICES ASSUME PairInv, Link PROVE PairInv'
  OBVIOUS
<1>1. pc = "link" /\ committed' = job.v /\ pc' = "idle" /\ UNCHANGED <<disk, super, reprogrammed>>
  BY DEF Link
<1>2. PairTypeOK /\ ~reprogrammed /\ job.v \in Nat
      /\ job.pair[1] \in Blocks /\ job.pair[2] \in Blocks
  BY <1>1, WayIs, JobTyped
<1> QED
  BY <1>1, <1>2, LinkIs DEF PairInv, PairTypeOK, Leads

\* An erase that was cut off says what the block said before, or nothing.
LEMMA TornBlock ==
  ASSUME NEW old \in Block, NEW former \in BOOLEAN,
         NEW left \in {Erased} \cup {Junk(r) : r \in Rev},
         NEW b, b = HalfErased(old, former, left)
  PROVE  b \in Block /\ (ValidEnds(b) = {} \/ (ValidEnds(old) # {} /\ b[1] = old[1]))
<1>1. left \in Unit /\ left.kind # "part"
  BY UnitTypes, KindIs
<1>2. /\ \A u \in 1..Units : b[u] = IF u = 1 /\ former THEN old[1] ELSE left
      /\ b \in Block
  BY <1>1, UnitsIs DEF Block, HalfErased
<1>3. ASSUME NEW e \in ValidEnds(b) PROVE ValidEnds(old) # {} /\ b[1] = old[1]
  <2>1. e \in 1..Units /\ b[e].k = b[e].n /\ \A w \in 1..e : b[w].kind = "part"
    BY DEF ValidEnds, Follows
  <2>2. e = 1 /\ former
    <3>1. e \in 1..e
      BY <2>1
    <3> QED
      BY <1>1, <1>2, <2>1, <3>1
  <2>3. b[1] = old[1]
    BY <1>2, <2>2, UnitsIs
  <2>4. \A u \in 1..e : u = 1
    BY <2>2
  <2>5. \A u \in 1..e : old[u] = b[u]
    BY <2>3, <2>4
  <2>6. e \in ValidEnds(old)
    BY <2>5, EndsKept
  <2> QED
    BY <2>3, <2>6
<1> QED
  BY <1>2, <1>3

\* A cut leaves the commit at a place where it could also be.
LEMMA TornWay ==
  ASSUME PairInv, pc # "idle", disk' \in Torn, NEW o \in Blocks,
         Way(disk, job, job.pair[1], o, job.pair[2])
  PROVE  /\ disk' \in [Blocks -> Block] /\ disk'[job.pair[1]][1].rev = disk[job.pair[1]][1].rev
         /\ \E j \in Jobs : /\ j.v = job.v /\ j.compact = job.compact
                            /\ Way(disk', j, job.pair[1], o, job.pair[2])
<1>1. PairTypeOK /\ job \in Jobs /\ disk \in [Blocks -> Block] /\ job.rev \in Rev
      /\ job.pair[1] \in Blocks /\ job.pair[2] \in Blocks
  BY WayIs, JobTyped DEF PairTypeOK
<1> DEFINE m == job.pair[1]
           x == job.pair[2]
<1>2. SomeRevs \subseteq Rev
  BY <1>1, FollowingNewer DEF SomeRevs
<1>3. CASE disk' = disk
  BY <1>1, <1>3
<1>4. CASE pc = "prog" /\ job.k < job.n /\ disk' # disk
  <2>1. PICK r \in SomeRevs : disk' = [disk EXCEPT ![Target][job.at] = Junk(r)]
    BY <1>4 DEF Torn
  <2>2. Junk(r) \in Unit /\ Junk(r).kind = "junk"
    BY <1>2, UnitTypes, KindIs
  <2>3. PICK p \in Unit : p = Junk(r) /\ p.kind = "junk"
    BY <2>2
  <2>4. PICK j : j = [job EXCEPT !.at = @ + 1, !.k = @ + 1]
    OBVIOUS
  <2>5. disk' = [disk EXCEPT ![Target][job.at] = p]
    BY <2>1, <2>3
  <2>6. job.k < job.n /\ pc = "prog" /\ PairTypeOK
    BY <1>1, <1>4
  <2>7. /\ disk' \in [Blocks -> Block] /\ j \in Jobs /\ Way(disk', j, m, o, x)
        /\ disk'[m][1].rev = disk[m][1].rev
    BY <2>3, <2>4, <2>5, <2>6, ProgWay
  <2>8. j.v = job.v /\ j.compact = job.compact
    BY <1>1, <2>4, JobNext
  <2> QED
    BY <2>7, <2>8
<1>5. CASE pc = "erase" /\ disk' # disk
  <2>1. PICK former \in BOOLEAN, left \in {Erased} \cup {Junk(r) : r \in SomeRevs} :
          disk' = [disk EXCEPT ![x] = HalfErased(@, former, left)]
    BY <1>5 DEF Torn
  <2>2. left \in {Erased} \cup {Junk(r) : r \in Rev} /\ disk[x] \in Block
    BY <1>1, <1>2
  <2>3. PICK b : b = HalfErased(disk[x], former, left)
    OBVIOUS
  <2>4. /\ b \in Block
        /\ ValidEnds(b) = {} \/ (ValidEnds(disk[x]) # {} /\ b[1] = disk[x][1])
    BY <2>2, <2>3, TornBlock
  <2>5. disk' \in [Blocks -> Block] /\ Way(disk', job, m, o, x) /\ disk'[m] = disk[m]
    BY <1>1, <1>5, <2>1, <2>3, <2>4, EraseWay
  <2> QED
    BY <1>1, <2>5
<1>6. disk' = disk \/ pc = "erase" \/ (pc = "prog" /\ job.k < job.n)
  BY DEF Torn
<1> QED
  BY <1>3, <1>4, <1>5, <1>6

LEMMA PowerLossPair == PairInv /\ PowerLoss => PairInv'
<1> SUFFICES ASSUME PairInv, PowerLoss PROVE PairInv'
  OBVIOUS
<1>1. /\ pc # "idle" /\ disk' \in Torn /\ pc' = "idle"
      /\ committed' = IF Fetch(disk', linked).v = job.v THEN job.v ELSE committed
      /\ UNCHANGED <<linked, super, kept, aliased, reprogrammed>>
  BY DEF PowerLoss
<1>2. PairTypeOK /\ ~reprogrammed /\ pc \in Busy /\ job \in Jobs /\ job.v \in Nat
      /\ committed \in Nat
  BY <1>1, WayIs, JobTyped DEF PairTypeOK
<1>3. PICK o \in Blocks : Way(disk, job, job.pair[1], o, job.pair[2])
  BY <1>1, WayIs
<1>4. disk' \in [Blocks -> Block]
  BY <1>1, <1>3, TornWay
<1>5. PICK j \in Jobs : j.v = job.v /\ Way(disk', j, job.pair[1], o, job.pair[2])
  BY <1>1, <1>3, TornWay
<1>6. PICK a \in Blocks, b \in Blocks, v \in {committed, j.v} : Leads(disk', linked, a, b, v)
  BY <1>2, <1>4, <1>5, WayLeads DEF Leads, Linked
<1>7. committed' = v /\ v \in Nat
  <2>1. Fetch(disk', linked).v = v /\ v \in {committed, job.v} /\ v \in Nat
    BY <1>1, <1>2, <1>4, <1>5, <1>6, FetchOf
  <2> QED
    BY <1>1, <2>1
<1>8. \E y, z \in Blocks : Leads(disk', linked', y, z, committed')
  BY <1>1, <1>6, <1>7
<1> QED
  BY <1>1, <1>2, <1>4, <1>7, <1>8 DEF PairInv, PairTypeOK, Leads

-----------------------------------------------------------------------------
(***************************************************************************)
(* The beginning: an older revision in block 1, or nothing.                *)
(***************************************************************************)
LEMMA ModulusIs == Modulus \in Nat /\ 3 <= Modulus /\ Modulus < Half
<1>1. BlockCycles \in Nat \ {0} /\ BlockCycles + 2 < Half
  BY CommitAssumption, HalfIs
<1>2. BlockCycles % 2 = 0 => BlockCycles # 1
  BY <1>1
<1> QED
  BY <1>1, <1>2, HalfIs DEF Modulus

LEMMA InitPair == LfsCommitInit => PairInv
<1> SUFFICES ASSUME LfsCommitInit PROVE PairInv
  OBVIOUS
<1>1. Revs \in Nat /\ Half \in Nat /\ 2 * Half <= Revs /\ 3 < Half /\ Modulus \in Nat
      /\ 3 <= Modulus /\ Modulus < Half /\ Revs <= 2 * Half + 1
  BY HalfIs, ModulusIs
<1>2. PICK old \in {Erased} \cup {Part(1, 1, 0, r) : r \in {0, Modulus, Revs - 2}} :
        disk = [b \in Blocks |->
         CASE b = 1 -> [AllErased EXCEPT ![1] = old]
           [] b = 2 -> [AllErased EXCEPT ![1] = Part(1, 1, 1, (AlignUp(old.rev) + 1) % Revs)]
           [] OTHER -> [u \in 1..Units |-> Junk(0)]]
  BY DEF LfsCommitInit
<1> DEFINE new == (AlignUp(old.rev) + 1) % Revs
           head == Part(1, 1, 1, new)
<1>3. /\ pc = "idle" /\ committed = 1 /\ linked = <<2, 1>> /\ super \in BOOLEAN
      /\ reprogrammed = FALSE
  BY DEF LfsCommitInit
<1>4. 1 \in Blocks /\ 2 \in Blocks /\ 1 \in 1..Units /\ 0 \in Rev
  BY CommitAssumption, HalfIs DEF Rev
<1>5. AlignUp(old.rev) \in Rev
  <2>1. (((old.rev + Modulus - 1) % Revs) \div Modulus) * Modulus \in Int
    <3>1. old.rev \in Int
      BY <1>1, KindIs DEF Erased
    <3> QED
      BY <1>1, <3>1
  <2> QED
    BY <1>1, <2>1 DEF AlignUp, Rev
<1>6. new \in Rev
  BY <1>5, FollowingNewer
<1>7. old \in Unit /\ head \in Unit
  <2>1. {0, Modulus, Revs - 2} \subseteq Rev
    BY <1>1, <1>4 DEF Rev
  <2>2. \A r \in Rev : Part(1, 1, 0, r) \in Unit /\ Part(1, 1, 1, r) \in Unit
    BY UnitTypes
  <2> QED
    BY <1>6, <2>1, <2>2, UnitTypes
<1>8. /\ disk[1] = [AllErased EXCEPT ![1] = old] /\ disk[2] = [AllErased EXCEPT ![1] = head]
      /\ disk \in [Blocks -> Block]
  <2>1. [AllErased EXCEPT ![1] = old] \in Block /\ [AllErased EXCEPT ![1] = head] \in Block
    BY <1>7, ErasedBlock DEF Block
  <2>2. [u \in 1..Units |-> Junk(0)] \in Block
    BY <1>4, UnitTypes DEF Block
  <2> QED
    BY <1>2, <1>4, <2>1, <2>2
<1>9. \A u \in 1..Units : disk[2][u] = IF u = 1 THEN head ELSE Erased
  BY <1>8, ErasedBlock DEF Block
<1>10. Says(disk[2], 1, 1)
  <2>1. disk[2][1].k = 1 /\ disk[2][1].n = 1 /\ disk[2][1].v = 1 /\ disk[2][1].kind = "part"
    BY <1>4, <1>9, KindIs
  <2>2. \A u \in 1..Units : u # 1 => disk[2][u].kind # "part"
    BY <1>9, KindIs
  <2>3. 1 \in ValidEnds(disk[2])
    BY <1>4, <2>1 DEF ValidEnds, Follows
  <2>4. \A u \in ValidEnds(disk[2]) : u <= 1
    <3> TAKE u \in ValidEnds(disk[2])
    <3>1. u \in 1..Units /\ u \in 1..u /\ disk[2][u].kind = "part"
      <4>1. u \in 1..Units /\ \A w \in 1..u : disk[2][w].kind = "part"
        BY DEF ValidEnds, Follows
      <4> QED
        BY <4>1
    <3> QED
      BY <2>2, <3>1
  <2>5. \A u \in 1..Units : disk[2][u] = Erased => UnitsErased(disk[2], u)
    BY <1>9 DEF UnitsErased
  <2> QED
    BY <2>1, <2>3, <2>4, <2>5 DEF Says
<1>11. Older(disk, 2, 1)
  <2>1. SUFFICES ASSUME ValidEnds(disk[1]) # {} PROVE Scmp(new, old.rev) > 0
    <3>1. disk[2][1].rev = new /\ disk[1][1] = old
      BY <1>4, <1>8, <1>9, ErasedBlock, KindIs DEF Block
    <3> QED
      BY <2>1, <3>1 DEF Older
  <2>2. PICK r \in {0, Modulus, Revs - 2} : old = Part(1, 1, 0, r)
    <3>1. old # Erased
      <4> SUFFICES ASSUME old = Erased PROVE FALSE
        OBVIOUS
      <4>1. \A u \in 1..Units : disk[1][u] = Erased
        BY <1>8, ErasedBlock DEF Block
      <4>2. \A u \in 1..Units : disk[1][u].kind # "part"
        BY <4>1, KindIs
      <4> QED
        BY <2>1, <4>2 DEF ValidEnds, Follows
    <3> QED
      BY <3>1
  <2>3. old.rev = r
    BY <2>2, KindIs
  <2>4. CASE r = Modulus
    <3>1. (r + Modulus - 1) % Revs = r + Modulus - 1
      BY <1>1, <2>4, Wrapped
    <3>2. (r + Modulus - 1) \div Modulus = 1
      BY <1>1, <2>4
    <3>3. AlignUp(r) = Modulus % Revs
      BY <1>1, <3>1, <3>2 DEF AlignUp
    <3>4. AlignUp(r) = r
      BY <1>1, <2>4, <3>3
    <3>5. r \in Rev
      BY <1>1, <2>4 DEF Rev
    <3> QED
      BY <2>3, <3>4, <3>5, FollowingNewer
  <2>5. CASE r = 0 \/ r = Revs - 2
    <3>1. (r + Modulus - 1) % Revs \in 0..(Modulus - 1)
      <4>1. (r + Modulus - 1) % Revs = IF r + Modulus - 1 < Revs THEN r + Modulus - 1
                                       ELSE r + Modulus - 1 - Revs
        BY <1>1, <2>5, Wrapped
      <4> QED
        BY <1>1, <2>5, <4>1
    <3>2. \A y \in 0..(Modulus - 1) : y \div Modulus = 0
      BY <1>1
    <3>3. AlignUp(r) = 0
      BY <1>1, <3>1, <3>2 DEF AlignUp
    <3>4. new = 1
      BY <1>1, <2>3, <3>3
    <3>5. 1 \in Rev /\ r \in Rev
      BY <1>1, <2>5 DEF Rev
    <3>6. (1 > r /\ 1 - r < Revs - Half) \/ (1 < r /\ r - 1 > Half)
      BY <1>1, <2>5
    <3> QED
      BY <2>3, <3>4, <3>5, <3>6, ScmpIs
  <2> QED
    BY <2>4, <2>5
<1>12. Leads(disk, linked, 2, 1, committed)
  BY <1>3, <1>4, <1>10, <1>11 DEF Leads, Linked
<1> QED
  BY <1>3, <1>4, <1>8, <1>12 DEF PairInv, PairTypeOK

-----------------------------------------------------------------------------
LEMMA StepPair == PairInv /\ [LfsCommitNext]_lfsCommitVars => PairInv'
<1> SUFFICES ASSUME PairInv, [LfsCommitNext]_lfsCommitVars PROVE PairInv'
  OBVIOUS
<1>1. CASE UNCHANGED lfsCommitVars
  BY <1>1 DEF lfsCommitVars, PairInv, PairTypeOK, Way, Appending
<1>2. CASE LfsCommitNext
  BY <1>2, BeginPair, CompactPair, ErasePair, ProgPair, VerifyPair, RelocatePair, LinkPair,
     PowerLossPair DEF LfsCommitNext
<1> QED
  BY <1>1, <1>2

LEMMA PairHolds == LfsCommitSpec => []PairInv
  BY InitPair, StepPair, PTL DEF LfsCommitSpec

-----------------------------------------------------------------------------
(***************************************************************************)
(* Wear. How many revisions, and how many multiples of the modulus among   *)
(* them, have passed tells which block of the pair leads: since the last   *)
(* relocation against wear every revision changed it. Odd is this number's *)
(* parity, which survives the wrap if as many multiples fit into the       *)
(* revisions as assumed.                                                   *)
(***************************************************************************)
Odd(r) == (r - (r \div Modulus)) % 2 = 1

LEMMA DivIs ==
  ASSUME NEW r \in Nat, NEW M \in Nat \ {0}
  PROVE  r \div M \in Nat /\ r % M \in 0..M - 1 /\ r = M * (r \div M) + (r % M)
  OBVIOUS

LEMMA DivUnique ==
  ASSUME NEW a \in Nat, NEW b \in Nat, NEW M \in Nat \ {0}, NEW x \in 0..M - 1,
         NEW y \in 0..M - 1, M * a + x = M * b + y
  PROVE  a = b /\ x = y
<1>1. CASE a < b
  <2>1. b >= a + 1 /\ M * b >= M * (a + 1)
    BY <1>1
  <2>2. M * (a + 1) = M * a + M
    OBVIOUS
  <2> QED
    BY <2>1, <2>2
<1>2. CASE b < a
  <2>1. a >= b + 1 /\ M * a >= M * (b + 1)
    BY <1>2
  <2>2. M * (b + 1) = M * b + M
    OBVIOUS
  <2> QED
    BY <2>1, <2>2
<1>3. CASE a = b
  BY <1>3
<1> QED
  BY <1>1, <1>2, <1>3

\* A multiple of an odd number and its factor are odd together.
LEMMA EvenDifference ==
  ASSUME NEW i \in Nat, NEW M \in Nat, M % 2 = 1
  PROVE  (M * i - i) % 2 = 0
<1>1. PICK h \in Nat : M = 2 * h + 1
  <2>1. M \div 2 \in Nat /\ M = 2 * (M \div 2) + 1
    OBVIOUS
  <2> QED
    BY <2>1
<1>2. M * i - i = 2 * (h * i)
  BY <1>1
<1>3. h * i \in Nat
  BY <1>1
<1>4. \A z \in Nat : (2 * z) % 2 = 0
  OBVIOUS
<1> QED
  BY <1>2, <1>3, <1>4

LEMMA OddNext ==
  ASSUME Revs % 2 = 0, (Revs \div Modulus) % 2 = 0, NEW r \in Rev
  PROVE  /\ NeedsRelocation(r) => ~Odd(r) /\ ~Odd((r + 1) % Revs)
         /\ ~NeedsRelocation(r) => (Odd((r + 1) % Revs) <=> ~Odd(r))
<1> DEFINE M == Modulus
           a == r \div M
           x == r % M
<1>1. M \in Nat \ {0} /\ M % 2 = 1 /\ Revs \in Nat /\ r \in Nat /\ r < Revs
  BY HalfIs, ModulusIs, CommitAssumption DEF Rev, Modulus
<1>2. a \in Nat /\ x \in 0..M - 1 /\ r = M * a + x
  BY <1>1, DivIs
<1>3. (r + 1) % Revs = IF r + 1 < Revs THEN r + 1 ELSE 0
  BY <1>1, Wrapped
<1>4. ~Odd(0)
  BY <1>1 DEF Odd
<1>5. Odd(r) <=> (r - a) % 2 = 1
  BY DEF Odd
<1>6. (r + 1) \div M \in Nat /\ (r + 1) % M \in 0..M - 1
      /\ r + 1 = M * ((r + 1) \div M) + ((r + 1) % M)
  <2>1. r + 1 \in Nat
    BY <1>1
  <2> QED
    BY <1>1, <2>1, DivIs
<1>7. NeedsRelocation(r) <=> (r + 1) % M = 0
  BY DEF NeedsRelocation
<1> DEFINE b == (r + 1) \div M
           y == (r + 1) % M
<1>8. Odd(r + 1) <=> ((r + 1) - b) % 2 = 1
  BY DEF Odd
<1>9. r + 1 = Revs => b % 2 = 0
  OBVIOUS
<1> HIDE DEF M, a, x, b, y
<1>10. CASE x = M - 1
  <2>1. M * (a + 1) = M * a + M /\ a + 1 \in Nat
    BY <1>1, <1>2
  <2>2. r + 1 = M * (a + 1) + 0 /\ 0 \in 0..M - 1
    BY <1>1, <1>2, <1>10, <2>1
  <2>3. b = a + 1 /\ y = 0
    <3>1. M * b + y = M * (a + 1) + 0 /\ b \in Nat /\ y \in 0..M - 1
      BY <1>6, <2>2 DEF b, y
    <3> QED
      BY <1>1, <2>1, <2>2, <3>1, DivUnique
  <2>4. (M * b - b) % 2 = 0
    BY <1>1, <2>1, <2>3, EvenDifference
  <2>5. (r + 1) - b = M * b - b /\ r - a = M * b - b /\ M * b - b \in Int
    BY <1>1, <1>2, <2>1, <2>2, <2>3
  <2>6. ~Odd(r) /\ ~Odd(r + 1)
    BY <1>5, <1>8, <2>4, <2>5
  <2> QED
    BY <1>3, <1>4, <1>7, <2>3, <2>6 DEF y
<1>11. CASE x # M - 1
  <2>1. r + 1 = M * a + (x + 1) /\ x + 1 \in 0..M - 1
    BY <1>1, <1>2, <1>11
  <2>2. b = a /\ y = x + 1
    <3>1. M * b + y = M * a + (x + 1) /\ b \in Nat /\ y \in 0..M - 1
      BY <1>6, <2>1 DEF b, y
    <3> QED
      BY <1>1, <1>2, <2>1, <3>1, DivUnique
  <2>3. ~NeedsRelocation(r)
    BY <1>2, <1>7, <2>2 DEF y
  <2>4. Odd(r + 1) <=> ~Odd(r)
    <3>1. ((r + 1) - a) % 2 = 1 <=> ~((r - a) % 2 = 1)
      BY <1>1, <1>2
    <3> QED
      BY <1>5, <1>8, <2>2, <3>1
  <2>5. ASSUME r + 1 = Revs PROVE Odd(r)
    <3>1. a % 2 = 0 /\ r \in Nat /\ (r + 1) % 2 = 0
      BY <1>1, <1>9, <2>2, <2>5
    <3> QED
      BY <1>2, <1>5, <3>1
  <2> QED
    BY <1>1, <1>3, <1>4, <2>3, <2>4, <2>5
<1> QED
  BY <1>10, <1>11

\* Which block leads does not depend on how it is found.
LEMMA LeaderIs ==
  ASSUME NEW d \in [Blocks -> Block], NEW l, NEW m, NEW o, NEW v, Leads(d, l, m, o, v),
         NEW p, NEW q, NEW w, Leads(d, l, p, q, w)
  PROVE  p = m /\ q = o
<1>1. PICK e \in 1..Units : Says(d[m], e, v)
  BY DEF Leads
<1>2. Fetch(d, l) = [pair |-> <<m, o>>, rev |-> d[m][1].rev, off |-> e, v |-> v,
                     erased |-> Erasable(d[m], e)]
  BY <1>1, FetchIs
<1>3. PICK f \in 1..Units : Says(d[p], f, w)
  BY DEF Leads
<1>4. Fetch(d, l) = [pair |-> <<p, q>>, rev |-> d[p][1].rev, off |-> f, v |-> w,
                     erased |-> Erasable(d[p], f)]
  BY <1>3, FetchIs
<1>5. <<m, o>> = <<p, q>>
  BY <1>2, <1>4
<1> QED
  BY <1>5

\* With m in the lead at revision r, the block kept is in the pair and leads
\* if r is odd.
Turns(m, o, r) == kept # 0 => kept \in {m, o} /\ (m = kept <=> Odd(r))

OutOfPair(b) == b # linked[1] /\ b # linked[2]

\* What holds of a commit under way, whose leading block is m at a revision
\* that is due to relocate or not.
WearJob(m, x, due) ==
  /\ \A o \in Blocks : Linked(linked, m, o) => Turns(m, o, disk[m][1].rev)
  /\ job.tired => ~job.relocated /\ due
  /\ job.wear => job.relocated /\ ~super /\ due /\ OutOfPair(x)
  /\ job.relocated /\ kept # 0 => OutOfPair(x)
  /\ job.compact /\ ~job.relocated /\ pc \in {"erase", "prog"} => super \/ ~due

WearInv ==
  /\ ~aliased /\ (super => kept = 0)
  /\ kept # 0 => \E b \in Blocks : OutOfPair(b)
  /\ pc = "idle" => \A m, o \in Blocks :
       Leads(disk, linked, m, o, committed) => Turns(m, o, disk[m][1].rev)
  /\ pc # "idle" =>
       WearJob(job.pair[1], job.pair[2], NeedsRelocation(disk[job.pair[1]][1].rev))

EvenWrap == Revs % 2 = 0 /\ (Revs \div Modulus) % 2 = 0

\* The turn is kept wherever the commit ends or is cut off.
LEMMA TurnsThen ==
  ASSUME EvenWrap, NEW d \in [Blocks -> Block], NEW j \in Jobs, NEW m, NEW o, NEW x,
         pc \in Busy, Way(d, j, m, o, x), Turns(m, o, d[m][1].rev),
         (pc \in {"prog", "link"} /\ j.compact /\ x = o /\ kept # 0)
           => ~NeedsRelocation(d[m][1].rev),
         NEW p, NEW q, NEW v, Leads(d, linked, p, q, v)
  PROVE  Turns(p, q, d[p][1].rev)
<1>1. CASE \E w \in {committed, j.v} : Leads(d, linked, m, o, w)
  <2>1. p = m /\ q = o
    BY <1>1, LeaderIs
  <2> QED
    BY <2>1
<1>2. CASE /\ pc \in {"prog", "link"} /\ j.compact /\ x = o
           /\ Leads(d, linked, o, m, j.v) /\ d[o][1].rev = j.rev
  <2>1. p = o /\ q = m
    BY <1>2, LeaderIs
  <2>2. m # o /\ d[m][1].rev \in Rev /\ d[o][1].rev = (d[m][1].rev + 1) % Revs
    <3>1. m # o /\ m \in Blocks /\ j.rev = (d[m][1].rev + 1) % Revs
      BY <1>2 DEF Way, Linked
    <3> QED
      BY <1>2, <3>1, UnitsIs DEF Block, Unit
  <2>3. kept # 0 => (Odd(d[o][1].rev) <=> ~Odd(d[m][1].rev))
    BY <1>2, <2>2, OddNext DEF EvenWrap
  <2> QED
    BY <2>1, <2>2, <2>3 DEF Turns
<1> QED
  BY <1>1, <1>2, WayLeads

\* Only a relocation writes when one is due, and then to a block that is not
\* in the pair.
LEMMA NotDue ==
  ASSUME PairInv, WearInv, pc # "idle", NEW o, Way(disk, job, job.pair[1], o, job.pair[2])
  PROVE  /\ Turns(job.pair[1], o, disk[job.pair[1]][1].rev)
         /\ pc \in {"prog", "link"} /\ job.compact /\ job.pair[2] = o /\ kept # 0
              => ~NeedsRelocation(disk[job.pair[1]][1].rev)
<1>1. job.relocated \in BOOLEAN /\ job.compact \in BOOLEAN
  BY WayIs, JobTyped
<1>2. WearJob(job.pair[1], job.pair[2], NeedsRelocation(disk[job.pair[1]][1].rev))
      /\ (super => kept = 0)
  BY DEF WearInv
<1>3. o \in Blocks /\ Linked(linked, job.pair[1], o) /\ (pc = "link" => job.relocated)
  BY DEF Way, Linked
<1>4. ~OutOfPair(o)
  BY <1>3 DEF Linked, OutOfPair
<1> QED
  BY <1>1, <1>2, <1>3, <1>4 DEF WearJob

-----------------------------------------------------------------------------
LEMMA InitWear == LfsCommitInit => WearInv
  BY DEF LfsCommitInit, WearInv, Turns

LEMMA BeginWear == PairInv /\ WearInv /\ BeginCommit => WearInv'
<1> SUFFICES ASSUME PairInv, WearInv, BeginCommit PROVE WearInv'
  OBVIOUS
<1>1. pc = "idle" /\ UNCHANGED <<disk, linked, super, committed, kept, aliased, reprogrammed>>
  BY BeginIs
<1>2. PICK m \in Blocks, o \in Blocks, e \in 1..Units, n \in 1..2 :
        /\ Leads(disk, linked, m, o, committed)
        /\ job' = [pair |-> <<m, o>>, rev |-> disk[m][1].rev, at |-> e + 1, k |-> 0, n |-> n,
                   v |-> committed + 1, compact |-> FALSE, tired |-> FALSE,
                   relocated |-> FALSE, wear |-> FALSE]
        /\ pc' = IF Erasable(disk[m], e) /\ e + n <= Units THEN "prog" ELSE "compact"
  BY BeginIs
<1>3. job'.pair[1] = m /\ ~job'.tired /\ ~job'.wear /\ ~job'.relocated /\ ~job'.compact
      /\ pc' # "idle"
  BY <1>2
<1>4. Turns(m, o, disk[m][1].rev)
  BY <1>1, <1>2 DEF WearInv
<1>5. ASSUME NEW z \in Blocks, Linked(linked, m, z) PROVE Turns(m, z, disk[m][1].rev)
  <2>1. z = o
    BY <1>2, <1>5 DEF Leads, Linked
  <2> QED
    BY <1>4, <2>1
<1>6. WearJob(job.pair[1], job.pair[2], NeedsRelocation(disk[job.pair[1]][1].rev))'
  BY <1>1, <1>3, <1>5 DEF WearJob, Turns, Linked
<1> QED
  BY <1>1, <1>3, <1>6 DEF WearInv, OutOfPair

\* A step of a commit that goes on leaves what is said of the pair alone.
LEMMA GoesOn ==
  ASSUME PairInv, WearInv, pc # "idle", pc' # "idle", job'.pair[1] = job.pair[1],
         disk'[job.pair[1]][1].rev = disk[job.pair[1]][1].rev,
         UNCHANGED <<linked, super, kept, aliased>>,
         LET x == job'.pair[2]
             due == NeedsRelocation(disk[job.pair[1]][1].rev)
         IN  /\ job'.tired => ~job'.relocated /\ due
             /\ job'.wear => job'.relocated /\ ~super /\ due /\ OutOfPair(x)
             /\ job'.relocated /\ kept # 0 => OutOfPair(x)
             /\ job'.compact /\ ~job'.relocated /\ pc' \in {"erase", "prog"} => super \/ ~due
  PROVE  WearInv'
<1>1. \A o \in Blocks : Linked(linked, job.pair[1], o)
        => Turns(job.pair[1], o, disk[job.pair[1]][1].rev)
  BY DEF WearInv, WearJob
<1>2. WearJob(job.pair[1], job.pair[2], NeedsRelocation(disk[job.pair[1]][1].rev))'
  BY <1>1 DEF WearJob, Turns, Linked, OutOfPair
<1> QED
  BY <1>2 DEF WearInv, OutOfPair

LEMMA CompactWear == PairInv /\ WearInv /\ Compact => WearInv'
<1> SUFFICES ASSUME PairInv, WearInv, Compact PROVE WearInv'
  OBVIOUS
<1>1. pc = "compact"
  BY DEF Compact
<1>2. job \in Jobs
  BY <1>1, WayIs
<1>3. ~job.relocated /\ job.rev = disk[job.pair[1]][1].rev
  BY <1>1, <1>2, WayIs, JobTyped DEF Way
<1>4. ~job.wear /\ (job.tired => NeedsRelocation(job.rev))
  BY <1>1, <1>3 DEF WearInv, WearJob
<1>5. /\ job' = [job EXCEPT !.rev = (@ + 1) % Revs, !.tired = NeedsRelocation(job.rev),
                            !.compact = TRUE, !.at = 1, !.k = 0]
      /\ pc' = IF NeedsRelocation(job.rev) /\ ~super THEN "relocate" ELSE "erase"
      /\ UNCHANGED <<disk, linked, super, committed, kept, aliased, reprogrammed>>
  BY DEF Compact
<1>6. /\ job'.pair = job.pair /\ job'.tired = NeedsRelocation(job.rev)
      /\ job'.relocated = job.relocated /\ job'.wear = job.wear
  BY <1>2, <1>5 DEF Jobs
<1> QED
  BY <1>1, <1>3, <1>4, <1>5, <1>6, GoesOn

LEMMA EraseWear == PairInv /\ WearInv /\ Erase => WearInv'
<1> SUFFICES ASSUME PairInv, WearInv, Erase PROVE WearInv'
  OBVIOUS
<1>1. pc = "erase"
  BY DEF Erase
<1>2. /\ job \in Jobs /\ job.compact /\ disk \in [Blocks -> Block]
      /\ job.pair[1] # job.pair[2] /\ job.pair[1] \in Blocks
  BY <1>1, WayIs, JobTyped DEF Way, PairTypeOK
<1>3. UNCHANGED <<job, linked, super, committed, kept, aliased, reprogrammed>>
  BY DEF Erase
<1>4. disk'[job.pair[1]] = disk[job.pair[1]]
  BY <1>2 DEF Erase
<1>5. pc' \in {"prog", "relocate"}
  BY <1>2 DEF Erase, Refused
<1>6. WearJob(job.pair[1], job.pair[2], NeedsRelocation(disk[job.pair[1]][1].rev))
  BY <1>1 DEF WearInv
<1> QED
  BY <1>1, <1>3, <1>4, <1>5, <1>6, GoesOn DEF WearJob

\* The unit that is programmed is not the first of the block that leads.
LEMMA FirstKept ==
  ASSUME PairInv, pc = "prog", NEW p, disk' = [disk EXCEPT ![Target][job.at] = p]
  PROVE  disk'[job.pair[1]][1] = disk[job.pair[1]][1]
<1>1. /\ disk \in [Blocks -> Block] /\ job.pair[1] \in Blocks /\ job.compact \in BOOLEAN
      /\ job.pair[2] \in Blocks /\ job.at \in Nat /\ job.k \in Nat
  BY WayIs, JobTyped DEF PairTypeOK
<1>2. PICK o \in Blocks : Way(disk, job, job.pair[1], o, job.pair[2])
  BY WayIs
<1>3. CASE job.compact
  <2>1. Target # job.pair[1]
    BY <1>2, <1>3 DEF Way, Target
  <2> QED
    BY <1>1, <2>1
<1>4. CASE ~job.compact
  <2>1. job.at # 1
    BY <1>1, <1>2, <1>4, UnitsIs DEF Way, Appending
  <2>2. Target = job.pair[1] /\ disk[job.pair[1]] \in Block /\ 1 \in 1..Units
    BY <1>1, <1>4, UnitsIs DEF Target
  <2>3. disk'[job.pair[1]] = [disk[job.pair[1]] EXCEPT ![job.at] = p]
    BY <1>1, <2>2
  <2> QED
    BY <2>1, <2>2, <2>3 DEF Block
<1> QED
  BY <1>1, <1>3, <1>4

LEMMA ProgWear == PairInv /\ WearInv /\ Prog => WearInv'
<1> SUFFICES ASSUME PairInv, WearInv, Prog PROVE WearInv'
  OBVIOUS
<1>1. pc = "prog"
  BY DEF Prog
<1>2. job \in Jobs /\ job.compact \in BOOLEAN
  BY <1>1, WayIs, JobTyped
<1>3. UNCHANGED <<linked, super, committed, kept, aliased>>
  BY DEF Prog
<1>4. WearJob(job.pair[1], job.pair[2], NeedsRelocation(disk[job.pair[1]][1].rev))
  BY <1>1 DEF WearInv
<1>5. CASE /\ \/ disk' = UnitProgrammed(Target, job.at, Part(job.k + 1, job.n, job.v, job.rev))
              \/ disk' = [disk EXCEPT ![Target][job.at] = Junk(@.rev)]
           /\ job' = [job EXCEPT !.at = @ + 1, !.k = @ + 1]
           /\ pc' = pc
  <2>1. \E p : disk' = [disk EXCEPT ![Target][job.at] = p]
    BY <1>5 DEF UnitProgrammed
  <2>2. disk'[job.pair[1]][1].rev = disk[job.pair[1]][1].rev
    BY <1>1, <2>1, FirstKept
  <2>3. /\ job'.pair = job.pair /\ job'.compact = job.compact /\ job'.tired = job.tired
        /\ job'.relocated = job.relocated /\ job'.wear = job.wear
    BY <1>2, <1>5, JobNext
  <2> QED
    BY <1>1, <1>3, <1>4, <1>5, <2>2, <2>3, GoesOn DEF WearJob
<1>6. CASE pc' = Refused /\ UNCHANGED <<disk, job>>
  <2>1. pc' \in {"relocate", "compact"}
    BY <1>6 DEF Refused
  <2> QED
    BY <1>1, <1>3, <1>4, <1>6, <2>1, GoesOn DEF WearJob
<1> QED
  BY <1>5, <1>6 DEF Prog

\* A commit that ends, or is cut off, with the pair where it was.
LEMMA EndWear ==
  ASSUME EvenWrap, PairInv, WearInv, pc # "idle", pc' = "idle",
         disk' = disk \/ (PowerLoss /\ disk' \in Torn),
         UNCHANGED <<linked, super, kept, aliased>>
  PROVE  WearInv'
<1>1. PICK o \in Blocks : Way(disk, job, job.pair[1], o, job.pair[2])
  BY WayIs
<1>2. job \in Jobs /\ pc \in Busy /\ disk \in [Blocks -> Block]
  BY WayIs DEF PairTypeOK
<1>3. /\ disk' \in [Blocks -> Block] /\ disk'[job.pair[1]][1].rev = disk[job.pair[1]][1].rev
      /\ \E j \in Jobs : /\ j.compact = job.compact
                         /\ Way(disk', j, job.pair[1], o, job.pair[2])
  BY <1>1, <1>2, TornWay
<1>4. PICK j \in Jobs : j.compact = job.compact /\ Way(disk', j, job.pair[1], o, job.pair[2])
  BY <1>3
<1>5. /\ Turns(job.pair[1], o, disk'[job.pair[1]][1].rev)
      /\ pc \in {"prog", "link"} /\ j.compact /\ job.pair[2] = o /\ kept # 0
           => ~NeedsRelocation(disk'[job.pair[1]][1].rev)
  BY <1>1, <1>3, <1>4, NotDue
<1>6. ASSUME NEW p \in Blocks, NEW q \in Blocks, Leads(disk', linked, p, q, committed')
      PROVE  Turns(p, q, disk'[p][1].rev)
  BY <1>2, <1>3, <1>4, <1>5, <1>6, TurnsThen
<1> QED
  BY <1>6 DEF WearInv, Turns, Leads, Linked, OutOfPair

LEMMA VerifyWear == EvenWrap /\ PairInv /\ WearInv /\ Verify => WearInv'
<1> SUFFICES ASSUME EvenWrap, PairInv, WearInv, Verify PROVE WearInv'
  OBVIOUS
<1>1. /\ pc = "prog" /\ pc' \in {"relocate", "compact", "link", "idle"}
      /\ UNCHANGED <<disk, linked, super, kept, aliased>>
      /\ job' = IF pc' = "idle" THEN NoJob ELSE job
  BY DEF Verify, Refused
<1>2. CASE pc' = "idle"
  BY <1>1, <1>2, EndWear
<1>3. CASE pc' # "idle"
  <2>1. WearJob(job.pair[1], job.pair[2], NeedsRelocation(disk[job.pair[1]][1].rev))
    BY <1>1 DEF WearInv
  <2> QED
    BY <1>1, <1>3, <2>1, GoesOn DEF WearJob
<1> QED
  BY <1>2, <1>3

LEMMA PowerLossWear == EvenWrap /\ PairInv /\ WearInv /\ PowerLoss => WearInv'
  BY EndWear DEF PowerLoss

LEMMA RelocateWear == EvenWrap /\ PairInv /\ WearInv /\ Relocate => WearInv'
<1> SUFFICES ASSUME EvenWrap, PairInv, WearInv, Relocate PROVE WearInv'
  OBVIOUS
<1>1. pc = "relocate" /\ UNCHANGED <<disk, linked, super, committed, kept, aliased, reprogrammed>>
  BY DEF Relocate
<1> DEFINE m == job.pair[1]
           x == job.pair[2]
           free == Blocks \ {job.pair[1], job.pair[2], linked[1], linked[2]}
           due == NeedsRelocation(disk[m][1].rev)
<1>2. WearJob(m, x, due)
  BY <1>1 DEF WearInv
<1>3. job \in Jobs /\ job.tired \in BOOLEAN /\ job.pair \in Blocks \X Blocks
  BY <1>1, WayIs, JobTyped
<1>4. CASE pc' = "idle"
  BY <1>1, <1>4, EndWear
<1>5. CASE pc' # "idle"
  <2>1. ~super /\ pc' = "erase" /\ \E b \in IF free = {} THEN {x} ELSE free :
          job' = [job EXCEPT !.pair[2] = b, !.relocated = TRUE, !.tired = FALSE,
                             !.wear = job.tired /\ free # {}, !.at = 1, !.k = 0]
    BY <1>5 DEF Relocate
  <2>2. PICK b \in IF free = {} THEN {x} ELSE free :
          job' = [job EXCEPT !.pair[2] = b, !.relocated = TRUE, !.tired = FALSE,
                             !.wear = job.tired /\ free # {}, !.at = 1, !.k = 0]
    BY <2>1
  <2> DEFINE w == job.tired /\ free # {}
  <2>3. /\ job'.pair[1] = m /\ job'.pair[2] = b /\ job'.relocated /\ ~job'.tired
        /\ job'.wear = w
    <3> HIDE DEF w
    <3>1. job' = [job EXCEPT !.pair[2] = b, !.relocated = TRUE, !.tired = FALSE, !.wear = w,
                             !.at = 1, !.k = 0]
      BY <2>2, Zenon DEF w
    <3> QED
      BY <1>3, <3>1 DEF Jobs
  <2>4. w => due /\ OutOfPair(b)
    BY <1>2, <2>2 DEF WearJob, OutOfPair
  <2>5. kept # 0 => OutOfPair(b)
    <3> SUFFICES ASSUME kept # 0 PROVE OutOfPair(b)
      OBVIOUS
    <3>1. PICK y \in Blocks : OutOfPair(y)
      BY DEF WearInv
    <3>2. ~OutOfPair(m)
      BY <1>1, WayIs DEF Way, Linked, OutOfPair
    <3>3. y # m
      BY <3>1, <3>2
    <3>4. CASE free = {}
      <4>1. y = x /\ b = x
        BY <2>2, <3>1, <3>3, <3>4 DEF OutOfPair
      <4> QED
        BY <3>1, <4>1
    <3>5. CASE free # {}
      BY <2>2, <3>5 DEF OutOfPair
    <3> QED
      BY <3>4, <3>5
  <2>6. disk'[m][1].rev = disk[m][1].rev /\ pc # "idle"
    BY <1>1
  <2> HIDE DEF w, free
  <2> QED
    BY <1>1, <1>5, <2>1, <2>3, <2>4, <2>5, <2>6, GoesOn
<1> QED
  BY <1>4, <1>5

LEMMA LinkWear == EvenWrap /\ PairInv /\ WearInv /\ Link => WearInv'
<1> SUFFICES ASSUME EvenWrap, PairInv, WearInv, Link PROVE WearInv'
  OBVIOUS
<1> DEFINE m == job.pair[1]
           x == job.pair[2]
           r == disk[m][1].rev
<1>1. /\ pc = "link" /\ pc' = "idle" /\ linked' = <<x, m>> /\ UNCHANGED <<disk, super>>
      /\ kept' = IF job.wear THEN m ELSE 0
      /\ aliased' = (aliased \/ (job.wear /\ kept = m))
  BY DEF Link
<1>2. WearJob(m, x, NeedsRelocation(r)) /\ ~aliased
  BY <1>1 DEF WearInv
<1>3. PICK o \in Blocks : Linked(linked, m, o)
  BY LinkIs
<1>4. /\ Leads(disk', linked', x, m, committed') /\ disk'[x][1].rev = (r + 1) % Revs
      /\ m # x /\ m \in Blocks /\ r \in Rev /\ disk' \in [Blocks -> Block]
  <2>1. m # x /\ m \in Blocks /\ disk \in [Blocks -> Block]
    BY <1>1, WayIs, JobTyped DEF Way, PairTypeOK
  <2>2. disk[m][1].rev \in Rev
    BY <2>1, UnitsIs DEF Block, Unit
  <2> QED
    BY <1>1, <2>1, <2>2, LinkIs
<1>5. job.wear => NeedsRelocation(r) /\ OutOfPair(x) /\ ~super
  BY <1>2 DEF WearJob
<1>6. job.wear => ~Odd(r) /\ ~Odd((r + 1) % Revs)
  BY <1>4, <1>5, OddNext DEF EvenWrap
<1>7. ~aliased'
  <2>1. Turns(m, o, r) /\ m # 0
    BY <1>2, <1>3, <1>4, CommitAssumption DEF WearJob
  <2>2. ~(job.wear /\ kept = m)
    BY <1>6, <2>1 DEF Turns
  <2> QED
    BY <1>1, <1>2, <2>2
<1>8. super' => kept' = 0
  BY <1>1, <1>5
<1>9. kept' # 0 => \E b \in Blocks : OutOfPair(b)'
  <2>1. job.wear => o # x /\ o # m
    BY <1>3, <1>5 DEF Linked, OutOfPair
  <2> QED
    BY <1>1, <2>1 DEF OutOfPair
<1>10. ASSUME NEW p \in Blocks, NEW q \in Blocks, Leads(disk', linked', p, q, committed')
       PROVE  Turns(p, q, disk[p][1].rev)'
  <2>1. p = x /\ q = m
    BY <1>4, <1>10, LeaderIs
  <2> QED
    BY <1>1, <1>4, <1>6, <2>1 DEF Turns
<1> QED
  BY <1>1, <1>7, <1>8, <1>9, <1>10 DEF WearInv, Leads, Linked, OutOfPair

LEMMA StepWear ==
  EvenWrap /\ PairInv /\ WearInv /\ [LfsCommitNext]_lfsCommitVars => WearInv'
<1> SUFFICES ASSUME EvenWrap, PairInv, WearInv, [LfsCommitNext]_lfsCommitVars PROVE WearInv'
  OBVIOUS
<1>1. CASE UNCHANGED lfsCommitVars
  BY <1>1 DEF lfsCommitVars, WearInv, WearJob, Turns, OutOfPair, Leads, Linked
<1>2. CASE LfsCommitNext
  BY <1>2, BeginWear, CompactWear, EraseWear, ProgWear, VerifyWear, RelocateWear, LinkWear,
     PowerLossWear DEF LfsCommitNext
<1> QED
  BY <1>1, <1>2

-----------------------------------------------------------------------------
\* Whatever instant power is lost at, a mount finds the last commit that
\* returned or the one under way, and no unit is programmed that was not erased
\* since it was programmed last.
THEOREM CommitsAreSafe == LfsCommitSpec => []CommitsSafe
<1>1. PairInv => AtomicCommits
  <2> SUFFICES ASSUME PairInv PROVE AtomicCommits
    OBVIOUS
  <2>1. committed \in Nat /\ disk \in [Blocks -> Block] /\ -1 \notin Nat
    BY DEF PairInv, PairTypeOK
  <2>2. CASE pc = "idle"
    <3>1. PICK m \in Blocks, o \in Blocks : Leads(disk, linked, m, o, committed)
      BY <2>2 DEF PairInv
    <3>2. Fetch(disk, linked).v = committed
      BY <2>1, <3>1, FetchOf
    <3> QED
      BY <2>1, <3>2 DEF AtomicCommits
  <2>3. CASE pc # "idle"
    <3>1. PICK o \in Blocks : Way(disk, job, job.pair[1], o, job.pair[2])
      BY <2>3, WayIs
    <3>2. PICK a \in Blocks, b \in Blocks, v \in {committed, job.v} : Leads(disk, linked, a, b, v)
      BY <2>1, <2>3, <3>1, WayIs, WayLeads DEF Leads, Linked
    <3>3. Fetch(disk, linked).v = v /\ job.v \in Nat
      BY <2>1, <2>3, <3>2, FetchOf, WayIs, JobTyped
    <3> QED
      BY <2>1, <2>3, <3>2, <3>3 DEF AtomicCommits
  <2> QED
    BY <2>2, <2>3
<1>2. PairInv => CommitsSafe
  BY <1>1 DEF PairInv, CommitsSafe, ProgramsErased
<1> QED
  BY <1>2, PairHolds, PTL

\* The relocations against wear keep the two blocks of a pair in turn, for
\* ever, if an even number of multiples of the modulus fits into the revisions.
THEOREM WearTakesTurns == ASSUME EvenWrap PROVE LfsCommitSpec => []WearIsSpread
<1>1. LfsCommitInit => WearInv
  BY InitWear
<1>2. PairInv /\ WearInv /\ [LfsCommitNext]_lfsCommitVars => WearInv'
  BY StepWear
<1>3. WearInv => WearIsSpread
  BY DEF WearInv, WearIsSpread
<1> QED
  BY <1>1, <1>2, <1>3, PairHolds, PTL DEF LfsCommitSpec

-----------------------------------------------------------------------------
(***************************************************************************)
(* The caches. Sizes are multiples of one another.                         *)
(***************************************************************************)
LEMMA MultipleIs ==
  ASSUME NEW k \in Nat, NEW M \in Nat \ {0}
  PROVE  (M * k) % M = 0
<1> DEFINE r == M * k
<1>1. r \in Nat
  OBVIOUS
<1>2. r \div M \in Nat /\ r % M \in 0..M - 1 /\ r = M * (r \div M) + (r % M)
  BY <1>1, DivIs
<1>3. M * (r \div M) + (r % M) = M * k + 0 /\ 0 \in 0..M - 1
  BY <1>2
<1> HIDE DEF r
<1>4. r % M = 0
  BY <1>1, <1>2, <1>3, DivUnique
<1> QED
  BY <1>4 DEF r

LEMMA MultipleOf ==
  ASSUME NEW a \in Nat, a % ProgSize = 0
  PROVE  a % ReadSize = 0
<1> DEFINE x == a \div ProgSize
           y == ProgSize \div ReadSize
<1>1. ReadSize \in Nat \ {0} /\ ProgSize \in Nat \ {0} /\ ProgSize % ReadSize = 0
  BY CacheAssumption
<1>2. x \in Nat /\ a = ProgSize * x
  BY <1>1, DivIs
<1>3. y \in Nat /\ ProgSize = ReadSize * y
  BY <1>1, DivIs
<1> HIDE DEF x, y
<1>4. y * x \in Nat /\ a = ReadSize * (y * x)
  BY <1>1, <1>2, <1>3
<1> QED
  BY <1>1, <1>4, MultipleIs

LEMMA Gap ==
  ASSUME NEW M \in Nat \ {0}, NEW a \in Nat, NEW b \in Nat, a % M = 0, b % M = 0, a < b
  PROVE  b - a >= M
<1> DEFINE x == a \div M
           y == b \div M
<1>1. x \in Nat /\ a = M * x /\ y \in Nat /\ b = M * y
  BY DivIs
<1> HIDE DEF x, y
<1>2. y >= x + 1
  <2>1. CASE y <= x
    <3>1. M * y <= M * x
      BY <1>1, <2>1
    <3> QED
      BY <1>1, <3>1
  <2> QED
    BY <1>1, <2>1
<1>3. M * y >= M * (x + 1) /\ M * (x + 1) = M * x + M
  BY <1>1, <1>2
<1> QED
  BY <1>1, <1>3

LEMMA DownIs ==
  ASSUME NEW a \in Nat, NEW M \in Nat \ {0}
  PROVE  /\ AlignDown(a, M) \in Nat /\ AlignDown(a, M) <= a /\ a - M < AlignDown(a, M)
         /\ AlignDown(a, M) % M = 0
         /\ a >= M => AlignDown(a, M) > 0
<1>1. a \div M \in Nat /\ a % M \in 0..M - 1 /\ a = M * (a \div M) + (a % M)
  BY DivIs
<1>2. AlignDown(a, M) = M * (a \div M)
  BY <1>1 DEF AlignDown
<1>3. (M * (a \div M)) % M = 0
  BY <1>1, MultipleIs
<1>4. M * (a \div M) \in Nat
  BY <1>1
<1> QED
  BY <1>1, <1>2, <1>3, <1>4

LEMMA UpIs ==
  ASSUME NEW a \in Nat, NEW M \in Nat \ {0}
  PROVE  AlignUpTo(a, M) \in Nat /\ AlignUpTo(a, M) >= a /\ AlignUpTo(a, M) % M = 0
<1>1. a + M - 1 \in Nat
  OBVIOUS
<1> QED
  BY <1>1, DownIs DEF AlignUpTo

-----------------------------------------------------------------------------
CachesTyped ==
  /\ pcache \in [block : CacheBlocks \cup {NoBlock}, off : Nat, size : Nat,
                 buffer : Seq(Nat \ {0})]
  /\ Len(pcache.buffer) = pcache.size /\ pcache.off + pcache.size <= BlockSize
  /\ pcache.off % ProgSize = 0
  /\ rcache.block \in CacheBlocks \cup {NoBlock}
  /\ rcache.off \in Nat /\ rcache.off % ReadSize = 0 /\ rcache.size \in Int

ReadTyped ==
  reading # NoRead =>
    /\ flushed = "ok"
    /\ reading.block \in CacheBlocks /\ reading.off \in Nat /\ reading.size \in Nat
    /\ reading.hint \in Nat \ {0} /\ reading.off + reading.size <= BlockSize
    /\ reading = [block |-> reading.block, off |-> reading.off, size |-> reading.size,
                  hint |-> reading.hint, data |-> reading.data, fresh |-> reading.fresh]
    /\ reading.fresh \in BOOLEAN

CacheTypeOK ==
  /\ cells \in [CacheBlocks -> [Cells -> Nat]] /\ latest \in [CacheBlocks -> [Cells -> Nat]]
  /\ stale \in BOOLEAN /\ flushed \in {"ok", "corrupt"} /\ erases \in Nat \ {0}
  /\ CachesTyped /\ ReadTyped

InPcache(b, o) == pcache.block = b /\ pcache.off <= o /\ o < pcache.off + pcache.size

\* What unit o of block b will be once everything is flushed, unless it is one
\* that does not take a program and was written since the last erase.
Coherent(b, o) ==
  latest[b][o] = IF InPcache(b, o) THEN pcache.buffer[o - pcache.off + 1] ELSE cells[b][o]
Lost(b, o) ==
  b \in WornBlocks /\ o = BlockSize - 1 /\ pcache.block # b /\ latest[b][o] # 0

Shadowed ==
  \A b \in CacheBlocks, o \in Cells :
    flushed = "ok" \/ pcache.block # b => Coherent(b, o) \/ Lost(b, o)

\* A read cache that is not stale holds what the device does.
Mirrors ==
  ~stale /\ rcache.block # NoBlock =>
    \A i \in 1..rcache.size : rcache.buffer[i] = cells[rcache.block][rcache.off + i - 1]

(***************************************************************************)
(* What every state keeps: besides the two above, only a worn block is     *)
(* found corrupt, and a read is fresh only while its cache is not stale.   *)
(***************************************************************************)
CacheInv ==
  /\ CacheTypeOK /\ Shadowed /\ Mirrors
  /\ flushed = "corrupt" => pcache.block \in WornBlocks
  /\ reading.fresh => ~(stale /\ rcache.block = reading.block)
  /\ ReadsLatest
  /\ reading.fresh /\ reading.block \notin WornBlocks => Len(reading.data) \in Nat

-----------------------------------------------------------------------------
\* The reads.
LEMMA ReachIs ==
  ASSUME CacheInv, reading.size > 0, reading # NoRead
  PROVE  /\ Reach \in Nat /\ Reach <= reading.size /\ Reach > 0
         /\ ~Within(pcache) => \A o \in Cells :
              reading.off <= o /\ o < reading.off + Reach => ~InPcache(reading.block, o)
<1>1. reading.off \in Nat /\ reading.size \in Nat /\ reading.block \in CacheBlocks
  BY DEF CacheInv, CacheTypeOK, ReadTyped
<1>2. pcache.off \in Nat /\ pcache.size \in Nat
  BY DEF CacheInv, CacheTypeOK, CachesTyped
<1> QED
  BY <1>1, <1>2 DEF Reach, Ahead, Least, Within, InPcache, Cells

LEMMA Slices ==
  ASSUME NEW f, NEW b, NEW off \in Int, NEW n \in Nat, NEW m \in Nat
  PROVE  /\ OnDisk(f, b, off, n) \o OnDisk(f, b, off + n, m) = OnDisk(f, b, off, n + m)
         /\ Len(OnDisk(f, b, off, n + m)) = n + m
<1> DEFINE g == [o \in Int |-> f[b][o]]
           S == {g[o] : o \in Int}
           s == [i \in 1..n |-> g[off + i - 1]]
           t == [i \in 1..m |-> g[off + n + i - 1]]
           u == [i \in 1..n + m |-> g[off + i - 1]]
<1>1. /\ OnDisk(f, b, off, n) = s /\ OnDisk(f, b, off + n, m) = t
      /\ OnDisk(f, b, off, n + m) = u
  BY DEF OnDisk
<1>2. s \in [1..n -> S] /\ t \in [1..m -> S] /\ u \in [1..n + m -> S]
  <2> HIDE DEF g
  <2> QED
    OBVIOUS
<1>3. \A i \in 1..n : s[i] = g[off + i - 1]
  <2> HIDE DEF g
  <2> QED
    OBVIOUS
<1>4. \A i \in 1..m : t[i] = g[off + n + i - 1]
  <2> HIDE DEF g
  <2> QED
    OBVIOUS
<1>5. \A i \in 1..n + m : u[i] = g[off + i - 1]
  <2> HIDE DEF g
  <2> QED
    OBVIOUS
<1> HIDE DEF g, S, s, t, u
<1>6. s \in Seq(S) /\ Len(s) = n /\ t \in Seq(S) /\ Len(t) = m /\ u \in Seq(S)
  BY <1>2, SMT
<1> DEFINE w == s \o t
<1>7. /\ w \in Seq(S) /\ Len(w) = n + m
      /\ \A i \in 1..n + m : w[i] = IF i <= n THEN s[i] ELSE t[i - n]
  BY <1>6, ConcatProperties
<1> HIDE DEF w
<1>8. \A i \in 1..n + m : w[i] = u[i]
  <2> TAKE i \in 1..n + m
  <2>1. CASE i <= n
    BY <1>3, <1>5, <1>7, <2>1
  <2>2. CASE i > n
    <3>1. i - n \in 1..m /\ off + n + (i - n) - 1 = off + i - 1
      BY <2>2
    <3>2. t[i - n] = g[off + n + (i - n) - 1]
      BY <1>4, <3>1
    <3> QED
      BY <1>5, <1>7, <2>2, <3>1, <3>2
  <2> QED
    BY <2>1, <2>2
<1>9. Len(u) = n + m
  BY <1>2
<1>10. w = u
  BY <1>6, <1>7, <1>8, <1>9, SeqEqual
<1> QED
  BY <1>1, <1>9, <1>10 DEF w

\* A round that takes what the reads are to return.
LEMMA TakenRight ==
  ASSUME CacheInv, reading # NoRead, flushed = "ok", NEW n \in Nat, n <= reading.size, NEW data,
         Taken(n, data), reading.fresh /\ reading.block \notin WornBlocks =>
           data = OnDisk(latest, reading.block, reading.off, n)
  PROVE  CacheInv'
<1>1. /\ reading.off \in Nat /\ reading.size \in Nat /\ reading.block \in CacheBlocks
      /\ reading.off + reading.size <= BlockSize /\ reading.hint \in Nat \ {0}
      /\ reading.fresh \in BOOLEAN
      /\ reading = [block |-> reading.block, off |-> reading.off, size |-> reading.size,
                    hint |-> reading.hint, data |-> reading.data, fresh |-> reading.fresh]
  BY DEF CacheInv, CacheTypeOK, ReadTyped
<1>2. reading' = [block |-> reading.block, off |-> reading.off + n, size |-> reading.size - n,
                  hint |-> reading.hint, data |-> reading.data \o data, fresh |-> reading.fresh]
  BY <1>1 DEF Taken
<1>3. UNCHANGED <<cells, pcache, rcache, latest, stale, flushed, erases>>
  BY DEF Taken
<1>4. CacheTypeOK' /\ Shadowed' /\ Mirrors'
  <2>1. ReadTyped'
    BY <1>1, <1>2, <1>3 DEF ReadTyped
  <2>2. CachesTyped'
    BY <1>3 DEF CacheInv, CacheTypeOK, CachesTyped
  <2>3. CacheTypeOK'
    BY <1>3, <2>1, <2>2 DEF CacheInv, CacheTypeOK
  <2>4. Shadowed'
    BY <1>3 DEF CacheInv, Shadowed, Coherent, Lost, InPcache
  <2>5. Mirrors'
    BY <1>3 DEF CacheInv, Mirrors
  <2> QED
    BY <2>3, <2>4, <2>5
<1>5. /\ ReadsLatest'
      /\ (reading.fresh /\ reading.block \notin WornBlocks => Len(reading.data) \in Nat)'
  <2> SUFFICES ASSUME reading.fresh, reading.block \notin WornBlocks
               PROVE  /\ reading'.data = OnDisk(latest, reading.block,
                           reading'.off - Len(reading'.data), Len(reading'.data))
                      /\ Len(reading'.data) \in Nat
    BY <1>2, <1>3 DEF ReadsLatest
  <2> DEFINE m == Len(reading.data)
             b == reading.block
             start == reading.off - m
  <2>1. reading.data = OnDisk(latest, b, start, m)
    BY DEF CacheInv, ReadsLatest
  <2>2. m \in Nat
    BY DEF CacheInv
  <2>3. data = OnDisk(latest, b, start + m, n)
    BY <1>1, <2>2
  <2> HIDE DEF m, start
  <2>4. start \in Int
    BY <1>1, <2>2 DEF start
  <2>5. reading.data \o data = OnDisk(latest, b, start, m + n)
    <3>1. OnDisk(latest, b, start, m) \o OnDisk(latest, b, start + m, n)
            = OnDisk(latest, b, start, m + n)
      BY <2>2, <2>4, Slices, Zenon
    <3> QED
      BY <2>1, <2>3, <3>1, Zenon
  <2>6. Len(reading.data \o data) = m + n
    <3>1. Len(OnDisk(latest, b, start, m + n)) = m + n
      BY <2>2, <2>4, Slices, Zenon
    <3> QED
      BY <2>5, <3>1, Zenon
  <2>7. reading'.off - (m + n) = start
    BY <1>1, <1>2, <2>2 DEF start
  <2> QED
    BY <1>2, <2>2, <2>5, <2>6, <2>7
<1> QED
  BY <1>2, <1>3, <1>4, <1>5 DEF CacheInv

\* In front of what the program cache holds the device has the latest.
LEMMA DeviceLatest ==
  ASSUME CacheInv, reading # NoRead, reading.size > 0, flushed = "ok", ~Within(pcache),
         reading.block \notin WornBlocks, NEW n \in Nat, n <= Reach
  PROVE  OnDisk(cells, reading.block, reading.off, n) = OnDisk(latest, reading.block, reading.off, n)
<1>1. /\ reading.off \in Nat /\ reading.size \in Nat /\ reading.block \in CacheBlocks
      /\ reading.off + reading.size <= BlockSize
  BY DEF CacheInv, CacheTypeOK, ReadTyped
<1>2. /\ Reach \in Nat /\ Reach <= reading.size
      /\ \A o \in Cells : reading.off <= o /\ o < reading.off + Reach => ~InPcache(reading.block, o)
  BY ReachIs
<1>3. BlockSize \in Nat
  BY CacheAssumption
<1>4. \A i \in 1..n : cells[reading.block][reading.off + i - 1] = latest[reading.block][reading.off + i - 1]
  <2> TAKE i \in 1..n
  <2> DEFINE o == reading.off + i - 1
  <2>1. o \in Cells /\ reading.off <= o /\ o < reading.off + Reach
    BY <1>1, <1>2, <1>3 DEF Cells
  <2>2. Coherent(reading.block, o)
    BY <1>1, <2>1 DEF CacheInv, Shadowed, Lost
  <2> QED
    BY <1>2, <2>1, <2>2 DEF Coherent
<1> QED
  BY <1>4 DEF OnDisk

LEMMA ProgrammedStep == CacheInv /\ flushed = "ok" /\ ReadProgrammed => CacheInv'
<1> SUFFICES ASSUME CacheInv, flushed = "ok", ReadProgrammed PROVE CacheInv'
  OBVIOUS
<1> DEFINE n == Least(reading.size, RestOf(pcache))
<1>1. reading.size > 0 /\ Within(pcache) /\ Taken(n, InCache(pcache, reading.off, n))
  BY DEF ReadProgrammed
<1>2. reading # NoRead
  BY <1>1 DEF NoRead
<1>3. /\ reading.off \in Nat /\ reading.size \in Nat /\ reading.block \in CacheBlocks
      /\ reading.off + reading.size <= BlockSize /\ BlockSize \in Nat
  BY <1>2, CacheAssumption DEF CacheInv, CacheTypeOK, ReadTyped
<1>4. /\ pcache.off \in Nat /\ pcache.size \in Nat /\ reading.block = pcache.block
      /\ reading.off >= pcache.off /\ reading.off < pcache.off + pcache.size
  BY <1>1 DEF Within, CacheInv, CacheTypeOK, CachesTyped
<1>5. n \in Nat /\ n <= reading.size /\ reading.off + n <= pcache.off + pcache.size
  BY <1>3, <1>4 DEF Least, RestOf
<1> HIDE DEF n
<1>6. ASSUME reading.block \notin WornBlocks
      PROVE  InCache(pcache, reading.off, n) = OnDisk(latest, reading.block, reading.off, n)
  <2>1. \A i \in 1..n : pcache.buffer[reading.off - pcache.off + i] = latest[reading.block][reading.off + i - 1]
    <3> TAKE i \in 1..n
    <3> DEFINE o == reading.off + i - 1
    <3>1. o \in Cells /\ InPcache(reading.block, o) /\ o - pcache.off + 1 = reading.off - pcache.off + i
      BY <1>3, <1>4, <1>5 DEF Cells, InPcache
    <3>2. Coherent(reading.block, o)
      BY <1>3, <1>6, <3>1 DEF CacheInv, Shadowed, Lost
    <3> QED
      BY <3>1, <3>2 DEF Coherent
  <2> QED
    BY <2>1 DEF InCache, OnDisk
<1> QED
  BY <1>1, <1>2, <1>5, <1>6, TakenRight

LEMMA CachedStep == CacheInv /\ flushed = "ok" /\ ReadCached => CacheInv'
<1> SUFFICES ASSUME CacheInv, flushed = "ok", ReadCached PROVE CacheInv'
  OBVIOUS
<1> DEFINE n == Least(Reach, RestOf(rcache))
<1>1. /\ reading.size > 0 /\ ~Within(pcache) /\ Within(rcache)
      /\ Taken(n, InCache(rcache, reading.off, n))
  BY DEF ReadCached
<1>2. reading # NoRead
  BY <1>1 DEF NoRead
<1>3. /\ reading.off \in Nat /\ reading.size \in Nat /\ reading.block \in CacheBlocks
      /\ reading.off + reading.size <= BlockSize /\ BlockSize \in Nat
  BY <1>2, CacheAssumption DEF CacheInv, CacheTypeOK, ReadTyped
<1>4. /\ rcache.off \in Nat /\ rcache.size \in Int /\ reading.block = rcache.block
      /\ reading.off >= rcache.off /\ reading.off < rcache.off + rcache.size
  BY <1>1 DEF Within, CacheInv, CacheTypeOK, CachesTyped
<1>5. Reach \in Nat /\ Reach <= reading.size
  BY <1>1, <1>2, ReachIs
<1>6. n \in Nat /\ n <= reading.size /\ n <= Reach /\ reading.off + n <= rcache.off + rcache.size
  BY <1>3, <1>4, <1>5 DEF Least, RestOf
<1> HIDE DEF n
<1>7. ASSUME reading.fresh, reading.block \notin WornBlocks
      PROVE  InCache(rcache, reading.off, n) = OnDisk(latest, reading.block, reading.off, n)
  <2>1. ~stale /\ rcache.block # NoBlock
    BY <1>3, <1>4, <1>7, CacheAssumption DEF CacheInv, CacheTypeOK, NoBlock
  <2>2. \A i \in 1..n : rcache.buffer[reading.off - rcache.off + i] = cells[reading.block][reading.off + i - 1]
    <3> TAKE i \in 1..n
    <3> DEFINE k == reading.off - rcache.off + i
    <3>1. k \in 1..rcache.size /\ rcache.off + k - 1 = reading.off + i - 1
      BY <1>3, <1>4, <1>6
    <3>2. rcache.buffer[k] = cells[rcache.block][rcache.off + k - 1]
      BY <2>1, <3>1 DEF CacheInv, Mirrors
    <3> QED
      BY <1>4, <3>1, <3>2
  <2>3. InCache(rcache, reading.off, n) = OnDisk(cells, reading.block, reading.off, n)
    BY <2>2 DEF InCache, OnDisk
  <2> QED
    BY <1>1, <1>2, <1>6, <1>7, <2>3, DeviceLatest
<1> QED
  BY <1>1, <1>2, <1>6, <1>7, TakenRight

LEMMA DirectIs ==
  ASSUME CacheInv, reading # NoRead, reading.size > 0
  PROVE  Direct \in Nat /\ Direct <= Reach
<1>1. Reach \in Nat /\ reading.off \in Nat /\ rcache.off \in Nat /\ ReadSize \in Nat \ {0}
  BY ReachIs, CacheAssumption DEF CacheInv, CacheTypeOK, ReadTyped, CachesTyped
<1>2. Ahead(rcache, Reach) \in Nat /\ Ahead(rcache, Reach) <= Reach
  BY <1>1 DEF Ahead, Least
<1>3. Direct \in Nat /\ Direct <= Ahead(rcache, Reach)
  BY <1>1, <1>2, DownIs DEF Direct
<1> QED
  BY <1>1, <1>2, <1>3

LEMMA DeviceStep == CacheInv /\ flushed = "ok" /\ ReadDevice => CacheInv'
<1> SUFFICES ASSUME CacheInv, flushed = "ok", ReadDevice PROVE CacheInv'
  OBVIOUS
<1>1. /\ reading.size > 0 /\ ~Within(pcache)
      /\ Taken(Direct, OnDisk(cells, reading.block, reading.off, Direct))
  BY DEF ReadDevice, Uncached
<1>2. reading # NoRead
  BY <1>1 DEF NoRead
<1>3. Direct \in Nat /\ Direct <= Reach /\ Reach \in Nat /\ Reach <= reading.size /\ reading.size \in Nat
  BY <1>1, <1>2, DirectIs, ReachIs DEF CacheInv, CacheTypeOK, ReadTyped
<1>4. Direct <= reading.size
  BY <1>3
<1>5. reading.block \notin WornBlocks =>
        OnDisk(cells, reading.block, reading.off, Direct) = OnDisk(latest, reading.block, reading.off, Direct)
  BY <1>1, <1>2, <1>3, DeviceLatest
<1> QED
  BY <1>1, <1>2, <1>3, <1>4, <1>5, TakenRight

LEMMA LineIs ==
  ASSUME CacheInv, reading # NoRead, reading.size > 0
  PROVE  /\ Line.block = reading.block /\ Line.off \in Nat /\ Line.off % ReadSize = 0
         /\ Line.size \in Int
         /\ \A i \in 1..Line.size : Line.buffer[i] = cells[Line.block][Line.off + i - 1]
         /\ Line.off <= reading.off /\ reading.off < Line.off + Line.size
<1>1. /\ reading.off \in Nat /\ reading.size \in Nat /\ reading.hint \in Nat \ {0}
      /\ reading.off + reading.size <= BlockSize
      /\ BlockSize \in Nat /\ ReadSize \in Nat \ {0}
  BY CacheAssumption DEF CacheInv, CacheTypeOK, ReadTyped
<1> DEFINE start == AlignDown(reading.off, ReadSize)
           up == AlignUpTo(reading.off + reading.hint, ReadSize)
           n == Least(Least(up, BlockSize) - start, BlockSize)
<1>2. start \in Nat /\ start <= reading.off /\ start % ReadSize = 0
  BY <1>1, DownIs
<1>3. reading.off + reading.hint \in Nat
  BY <1>1
<1>4. up \in Nat /\ up >= reading.off + reading.hint
  BY <1>1, <1>3, UpIs
<1>5. Line = [block |-> reading.block, off |-> start, size |-> n,
              buffer |-> OnDisk(cells, reading.block, start, n)]
  BY DEF Line, Loaded
<1> HIDE DEF start, up
<1>6. n \in Int /\ reading.off < start + n
  BY <1>1, <1>2, <1>4 DEF Least
<1> HIDE DEF n
<1>7. \A i \in 1..n : OnDisk(cells, reading.block, start, n)[i] = cells[reading.block][start + i - 1]
  BY DEF OnDisk
<1> QED
  BY <1>2, <1>5, <1>6, <1>7

LEMMA LoadStep == CacheInv /\ flushed = "ok" /\ LoadCache => CacheInv'
<1> SUFFICES ASSUME CacheInv, flushed = "ok", LoadCache PROVE CacheInv'
  OBVIOUS
<1>1. /\ reading.size > 0 /\ rcache' = Line /\ stale' = FALSE
      /\ UNCHANGED <<cells, pcache, latest, flushed, erases, reading>>
  BY DEF LoadCache, Uncached
<1>2. reading # NoRead
  BY <1>1 DEF NoRead
<1>3. reading.block \in CacheBlocks
  BY <1>2 DEF CacheInv, CacheTypeOK, ReadTyped
<1>4. CachesTyped'
  BY <1>1, <1>2, <1>3, LineIs DEF CacheInv, CacheTypeOK, CachesTyped
<1>5. CacheTypeOK'
  BY <1>1, <1>4 DEF CacheInv, CacheTypeOK, ReadTyped
<1>6. Shadowed'
  BY <1>1 DEF CacheInv, Shadowed, Coherent, Lost, InPcache
<1>7. Mirrors'
  BY <1>1, <1>2, LineIs DEF Mirrors
<1> QED
  BY <1>1, <1>5, <1>6, <1>7 DEF CacheInv, ReadsLatest

\* Steps that leave the caches and the device as they are.
LEMMA BeginStep ==
  ASSUME NEW b \in CacheBlocks, NEW r \in Reads,
         CacheInv, flushed = "ok", BeginRead(b, r[1], r[2], r[3])
  PROVE  CacheInv'
<1>1. r[1] \in Nat /\ r[2] \in Nat /\ r[3] \in Nat \ {0}
  BY CacheAssumption
<1>2. /\ r[1] + r[2] <= BlockSize
      /\ reading' = [block |-> b, off |-> r[1], size |-> r[2], hint |-> r[3], data |-> <<>>,
                     fresh |-> ~(stale /\ rcache.block = b)]
      /\ UNCHANGED <<cells, pcache, rcache, latest, stale, flushed, erases>>
  BY DEF BeginRead
<1>3. ReadTyped'
  BY <1>1, <1>2 DEF ReadTyped
<1>4. CacheTypeOK'
  BY <1>2, <1>3 DEF CacheInv, CacheTypeOK, CachesTyped
<1>5. Shadowed' /\ Mirrors'
  BY <1>2 DEF CacheInv, Shadowed, Coherent, Lost, InPcache, Mirrors
<1>6. reading'.data = <<>> /\ Len(reading'.data) = 0
  BY <1>2
<1>7. OnDisk(latest', b, r[1] - 0, 0) = <<>>
  BY <1>1 DEF OnDisk
<1>8. ReadsLatest'
  BY <1>1, <1>2, <1>6, <1>7 DEF ReadsLatest
<1>9. reading'.fresh => ~(stale' /\ rcache'.block = reading'.block)
  BY <1>2
<1> QED
  BY <1>2, <1>4, <1>5, <1>6, <1>8, <1>9 DEF CacheInv

LEMMA Idle ==
  ASSUME reading' = NoRead, CacheTypeOK', Shadowed', Mirrors',
         flushed' = "corrupt" => pcache'.block \in WornBlocks
  PROVE  CacheInv'
<1>1. reading'.fresh = FALSE
  BY DEF NoRead
<1> QED
  BY <1>1 DEF CacheInv, ReadsLatest

LEMMA EndStep == CacheInv /\ flushed = "ok" /\ EndRead => CacheInv'
<1> SUFFICES ASSUME CacheInv, flushed = "ok", EndRead PROVE CacheInv'
  OBVIOUS
<1>1. reading' = NoRead /\ UNCHANGED <<cells, pcache, rcache, latest, stale, flushed, erases>>
  BY DEF EndRead
<1>2. CacheTypeOK'
  BY <1>1 DEF CacheInv, CacheTypeOK, CachesTyped, ReadTyped
<1>3. Shadowed' /\ Mirrors'
  BY <1>1 DEF CacheInv, Shadowed, Coherent, Lost, InPcache, Mirrors
<1> QED
  BY <1>1, <1>2, <1>3, Idle

-----------------------------------------------------------------------------
(***************************************************************************)
(* The flush, of what a program cache pk is to leave of the blocks L.      *)
(***************************************************************************)
Programs(pk) ==
  /\ pk \in [block : CacheBlocks \cup {NoBlock}, off : Nat, size : Nat, buffer : Seq(Nat \ {0})]
  /\ Len(pk.buffer) = pk.size /\ pk.off + pk.size <= BlockSize /\ pk.off % ProgSize = 0

Covers(pk, o) == pk.off <= o /\ o < pk.off + pk.size

Holds(pk, L) ==
  \A b \in CacheBlocks, o \in Cells :
    \/ L[b][o] = IF pk.block = b /\ Covers(pk, o) THEN pk.buffer[o - pk.off + 1] ELSE cells[b][o]
    \/ b \in WornBlocks /\ o = BlockSize - 1 /\ pk.block # b /\ L[b][o] # 0

LEMMA CacheHolds ==
  ASSUME CacheInv, flushed = "ok"
  PROVE  Programs(pcache) /\ Holds(pcache, latest)
<1>1. Programs(pcache)
  BY DEF CacheInv, CacheTypeOK, CachesTyped, Programs
<1>2. Holds(pcache, latest)
  BY DEF CacheInv, Shadowed, Coherent, Lost, InPcache, Holds, Covers
<1> QED
  BY <1>1, <1>2

LEMMA AfterProgIs ==
  ASSUME CacheTypeOK, NEW pk, Programs(pk), pk.block # NoBlock
  PROVE  /\ AfterProg(pk) \in [CacheBlocks -> [Cells -> Nat]]
         /\ \A b \in CacheBlocks, o \in Cells :
              AfterProg(pk)[b][o] =
                IF b = pk.block /\ Covers(pk, o) /\ ~(b \in WornBlocks /\ o = BlockSize - 1)
                THEN pk.buffer[o - pk.off + 1] ELSE cells[b][o]
<1> DEFINE unit(o) ==
      IF o < pk.off \/ o >= pk.off + pk.size \/ (pk.block \in WornBlocks /\ o = BlockSize - 1)
      THEN cells[pk.block][o] ELSE pk.buffer[o - pk.off + 1]
<1>1. pk.block \in CacheBlocks /\ pk.off \in Nat /\ pk.size \in Nat
  BY DEF Programs
<1>2. AfterProg(pk) = [cells EXCEPT ![pk.block] = [o \in Cells |-> unit(o)]]
  BY DEF AfterProg
<1>3. cells \in [CacheBlocks -> [Cells -> Nat]]
  BY DEF CacheTypeOK
<1>4. \A o \in Cells : unit(o) \in Nat
  <2> TAKE o \in Cells
  <2>1. o \in Nat
    BY CacheAssumption DEF Cells
  <2>2. cells[pk.block][o] \in Nat
    BY <1>1, <1>3
  <2>3. CASE o < pk.off \/ o >= pk.off + pk.size \/ (pk.block \in WornBlocks /\ o = BlockSize - 1)
    BY <2>2, <2>3
  <2>4. CASE ~(o < pk.off \/ o >= pk.off + pk.size \/ (pk.block \in WornBlocks /\ o = BlockSize - 1))
    <3>1. o - pk.off + 1 \in 1..Len(pk.buffer)
      BY <1>1, <2>1, <2>4 DEF Programs
    <3>2. pk.buffer[o - pk.off + 1] \in Nat \ {0}
      BY <3>1, ElementOfSeq DEF Programs
    <3> QED
      BY <2>4, <3>2
  <2> QED
    BY <2>3, <2>4
<1>5. \A o \in Cells : unit(o) = IF Covers(pk, o) /\ ~(pk.block \in WornBlocks /\ o = BlockSize - 1)
                                 THEN pk.buffer[o - pk.off + 1] ELSE cells[pk.block][o]
  BY <1>1, CacheAssumption DEF Covers, Cells
<1> HIDE DEF unit
<1>6. [o \in Cells |-> unit(o)] \in [Cells -> Nat]
  BY <1>4
<1>7. AfterProg(pk) \in [CacheBlocks -> [Cells -> Nat]]
  BY <1>1, <1>2, <1>3, <1>6
<1>8. ASSUME NEW b \in CacheBlocks, NEW o \in Cells
      PROVE  AfterProg(pk)[b][o] = IF b = pk.block THEN unit(o) ELSE cells[b][o]
  BY <1>2, <1>3
<1> QED
  BY <1>5, <1>7, <1>8

LEMMA FlushesTyped ==
  ASSUME CacheTypeOK, NEW pk, Programs(pk), NEW rc \in {rcache, EmptyCache}, NEW validate \in BOOLEAN,
         Flushed(pk, rc, validate), latest' \in [CacheBlocks -> [Cells -> Nat]],
         erases' = erases, reading' = NoRead
  PROVE  CacheTypeOK'
<1>1. rc.block \in CacheBlocks \cup {NoBlock} /\ rc.off \in Nat /\ rc.off % ReadSize = 0 /\ rc.size \in Int
  <2>1. rcache.block \in CacheBlocks \cup {NoBlock} /\ rcache.off \in Nat /\ rcache.off % ReadSize = 0
        /\ rcache.size \in Int
    BY DEF CacheTypeOK, CachesTyped
  <2>2. EmptyCache.block = NoBlock /\ EmptyCache.off = 0 /\ EmptyCache.size = 0
    BY DEF EmptyCache
  <2>3. 0 % ReadSize = 0
    BY CacheAssumption
  <2> QED
    BY <2>1, <2>2, <2>3
<1>2. Programs(EmptyCache)
  <2>1. 0 % ProgSize = 0 /\ BlockSize \in Nat
    BY CacheAssumption
  <2> QED
    BY <2>1 DEF Programs, EmptyCache
<1>3. cells \in [CacheBlocks -> [Cells -> Nat]] /\ stale \in BOOLEAN
  BY DEF CacheTypeOK
<1>4. CASE pk.block = NoBlock
  <2>1. pcache' = pk /\ rcache' = rc /\ flushed' = "ok" /\ cells' = cells /\ stale' \in BOOLEAN
    BY <1>3, <1>4 DEF Flushed
  <2>2. CachesTyped'
    BY <1>1, <2>1 DEF CachesTyped, Programs
  <2> QED
    BY <1>3, <2>1, <2>2 DEF CacheTypeOK, ReadTyped
<1>5. CASE pk.block # NoBlock
  <2>1. /\ pcache' \in {pk, EmptyCache} /\ flushed' \in {"ok", "corrupt"} /\ cells' = AfterProg(pk)
        /\ stale' \in BOOLEAN
        /\ rcache' = (IF validate THEN Loaded(AfterProg(pk), pk.block, pk.off, AlignUpTo(pk.size, ProgSize))
                      ELSE rc)
    BY <1>5 DEF Flushed
  <2>2. pk.block \in CacheBlocks /\ pk.off \in Nat /\ pk.size \in Nat /\ pk.off % ReadSize = 0
    <3>1. pk.off \in Nat /\ pk.off % ProgSize = 0
      BY DEF Programs
    <3>2. pk.off % ReadSize = 0
      BY <3>1, MultipleOf
    <3> QED
      BY <1>5, <3>1, <3>2 DEF Programs
  <2>3. AlignUpTo(pk.size, ProgSize) \in Nat
    BY <2>2, UpIs, CacheAssumption
  <2>4. rcache'.block \in CacheBlocks \cup {NoBlock} /\ rcache'.off \in Nat
        /\ rcache'.off % ReadSize = 0 /\ rcache'.size \in Int
    <3>1. CASE validate
      BY <2>1, <2>2, <2>3, <3>1 DEF Loaded
    <3>2. CASE ~validate
      BY <1>1, <2>1, <3>2
    <3> QED
      BY <3>1, <3>2
  <2>5. Programs(pcache')
    BY <1>2, <2>1
  <2>6. CachesTyped'
    BY <2>4, <2>5 DEF CachesTyped, Programs
  <2>7. cells' \in [CacheBlocks -> [Cells -> Nat]]
    BY <1>5, <2>1, AfterProgIs
  <2> QED
    BY <2>1, <2>6, <2>7 DEF CacheTypeOK, ReadTyped
<1> QED
  BY <1>4, <1>5

LEMMA FlushIs ==
  ASSUME CacheInv, NEW pk, Programs(pk), NEW rc \in {rcache, EmptyCache}, NEW validate \in BOOLEAN,
         Flushed(pk, rc, validate), latest' \in [CacheBlocks -> [Cells -> Nat]],
         Holds(pk, latest'), erases' = erases, reading' = NoRead
  PROVE  /\ CacheInv'
         /\ pk.block # NoBlock /\ pcache' = EmptyCache /\ ~stale' /\ rcache'.block = pk.block =>
              cells'[pk.block] = latest'[pk.block]
<1>1. CacheTypeOK /\ Mirrors /\ CacheTypeOK'
  BY FlushesTyped DEF CacheInv
<1>2. CASE pk.block = NoBlock
  <2>1. pcache' = pk /\ rcache' = rc /\ flushed' = "ok" /\ cells' = cells /\ stale' = (stale /\ rc = rcache)
    BY <1>2 DEF Flushed
  <2>2. Shadowed'
    BY <2>1 DEF Shadowed, Coherent, Lost, InPcache, Holds, Covers
  <2>3. Mirrors'
    <3> SUFFICES ASSUME ~stale', rcache'.block # NoBlock
                 PROVE  \A i \in 1..rcache'.size :
                          rcache'.buffer[i] = cells'[rcache'.block][rcache'.off + i - 1]
      BY DEF Mirrors
    <3>1. rc # EmptyCache
      BY <2>1 DEF EmptyCache
    <3>2. rc = rcache
      BY <3>1
    <3>3. ~stale
      BY <2>1, <3>2, Zenon
    <3> QED
      BY <1>1, <2>1, <3>2, <3>3 DEF Mirrors
  <2> QED
    BY <1>1, <1>2, <2>1, <2>2, <2>3, Idle
<1>3. CASE pk.block # NoBlock
  <2> DEFINE n == AlignUpTo(pk.size, ProgSize)
             back == Loaded(AfterProg(pk), pk.block, pk.off, n)
             good == \A i \in 1..pk.size : back.buffer[i] = pk.buffer[i]
  <2>1. /\ cells' = AfterProg(pk) /\ rcache' = (IF validate THEN back ELSE rc)
        /\ stale' = (~validate /\ ((stale /\ rc = rcache) \/ rc.block = pk.block))
        /\ IF validate /\ ~good THEN flushed' = "corrupt" /\ pcache' = pk
           ELSE flushed' = "ok" /\ pcache' = EmptyCache
    BY <1>3 DEF Flushed
  <2>2. /\ pk.block \in CacheBlocks /\ pk.off \in Nat /\ pk.size \in Nat /\ BlockSize \in Nat
        /\ pk.off + pk.size <= BlockSize /\ Len(pk.buffer) = pk.size /\ pk.buffer \in Seq(Nat \ {0})
    BY <1>3, CacheAssumption DEF Programs
  <2>3. n \in Nat /\ n >= pk.size
    BY <2>2, UpIs, CacheAssumption
  <2>4. /\ cells' \in [CacheBlocks -> [Cells -> Nat]]
        /\ \A b \in CacheBlocks, o \in Cells :
             cells'[b][o] = IF b = pk.block /\ Covers(pk, o) /\ ~(b \in WornBlocks /\ o = BlockSize - 1)
                            THEN pk.buffer[o - pk.off + 1] ELSE cells[b][o]
    BY <1>1, <1>3, <2>1, AfterProgIs
  <2>5. back.block = pk.block /\ back.off = pk.off /\ back.size = n
        /\ \A i \in 1..n : back.buffer[i] = cells'[pk.block][pk.off + i - 1]
    BY <2>1 DEF Loaded, OnDisk
  <2> HIDE DEF n, back
  <2>6. ASSUME NEW o \in Cells, Covers(pk, o)
        PROVE  /\ latest'[pk.block][o] = pk.buffer[o - pk.off + 1]
               /\ o - pk.off + 1 \in 1..pk.size /\ pk.buffer[o - pk.off + 1] # 0
               /\ back.buffer[o - pk.off + 1] = cells'[pk.block][o]
    <3>1. o \in Nat /\ o - pk.off + 1 \in 1..pk.size /\ pk.off + (o - pk.off + 1) - 1 = o
      BY <2>2, <2>6 DEF Cells, Covers
    <3>2. pk.buffer[o - pk.off + 1] \in Nat \ {0}
      BY <2>2, <3>1, ElementOfSeq
    <3>3. o - pk.off + 1 \in 1..n
      BY <2>2, <2>3, <3>1
    <3>4. back.buffer[o - pk.off + 1] = cells'[pk.block][pk.off + (o - pk.off + 1) - 1]
      BY <2>5, <3>3
    <3> QED
      BY <2>2, <2>6, <3>1, <3>2, <3>4 DEF Holds
  <2>7. ASSUME NEW o \in Cells, ~Covers(pk, o)
        PROVE  latest'[pk.block][o] = cells'[pk.block][o]
    BY <2>2, <2>4, <2>7 DEF Holds
  <2>8. ASSUME validate, ~good
        PROVE  pk.block \in WornBlocks
    <3>1. PICK i \in 1..pk.size : back.buffer[i] # pk.buffer[i]
      BY <2>8
    <3> DEFINE o == pk.off + i - 1
    <3>2. o \in Cells /\ Covers(pk, o) /\ o - pk.off + 1 = i
      BY <2>2 DEF Cells, Covers
    <3>3. back.buffer[i] = cells'[pk.block][o]
      BY <2>6, <3>2
    <3> QED
      BY <2>2, <2>4, <3>1, <3>2, <3>3
  <2>9. ASSUME pcache' = EmptyCache, ~stale', rcache'.block = pk.block
        PROVE  cells'[pk.block] = latest'[pk.block]
    <3>1. validate
      BY <2>1, <2>9
    <3>2. good
      BY <1>3, <2>1, <2>9, <3>1 DEF EmptyCache
    <3>3. \A o \in Cells : cells'[pk.block][o] = latest'[pk.block][o]
      BY <2>6, <2>7, <3>2
    <3>4. cells'[pk.block] \in [Cells -> Nat] /\ latest'[pk.block] \in [Cells -> Nat]
      BY <2>2, <2>4
    <3> QED
      BY <3>3, <3>4
  <2>10. Shadowed'
    <3> SUFFICES ASSUME NEW b \in CacheBlocks, NEW o \in Cells, flushed' = "ok" \/ pcache'.block # b
                 PROVE  (Coherent(b, o) \/ Lost(b, o))'
      BY DEF Shadowed
    <3>1. pcache'.block # b
      <4>1. EmptyCache.block = NoBlock /\ NoBlock # b
        BY CacheAssumption DEF EmptyCache, NoBlock
      <4> QED
        BY <2>1, <4>1
    <3>2. CASE b # pk.block
      BY <2>4, <3>1, <3>2 DEF Holds, Coherent, Lost, InPcache
    <3>3. CASE b = pk.block
      BY <2>4, <2>6, <2>7, <3>1, <3>3 DEF Coherent, Lost, InPcache
    <3> QED
      BY <3>2, <3>3
  <2>11. Mirrors'
    <3>1. CASE validate
      BY <2>1, <2>5, <3>1 DEF Mirrors
    <3>2. CASE ~validate
      <4> SUFFICES ASSUME ~stale', rcache'.block # NoBlock, NEW i \in 1..rcache'.size
                   PROVE  rcache'.buffer[i] = cells'[rcache'.block][rcache'.off + i - 1]
        BY DEF Mirrors
      <4>1. rcache' = rcache /\ ~stale /\ rcache.block # pk.block
        <5>1. rcache' = rc /\ rc # EmptyCache
          BY <2>1, <3>2 DEF EmptyCache
        <5>2. rc = rcache
          BY <5>1
        <5>3. ~((stale /\ rc = rcache) \/ rc.block = pk.block)
          <6>1. ~(~validate /\ ((stale /\ rc = rcache) \/ rc.block = pk.block))
            BY <2>1, Zenon
          <6> QED
            BY <3>2, <6>1, Zenon
        <5> QED
          BY <5>1, <5>2, <5>3
      <4>2. rcache.block \in CacheBlocks
        BY <1>1, <4>1 DEF CacheTypeOK, CachesTyped
      <4>3. cells'[rcache.block] = cells[rcache.block]
        <5>1. AfterProg(pk)[rcache.block] = cells[rcache.block]
          BY <1>1, <4>1, <4>2 DEF AfterProg, CacheTypeOK
        <5> QED
          BY <2>1, <5>1
      <4> QED
        BY <1>1, <4>1, <4>3 DEF Mirrors
    <3> QED
      BY <3>1, <3>2
  <2>12. flushed' = "corrupt" => pcache'.block \in WornBlocks
    BY <2>1, <2>8
  <2> QED
    BY <1>1, <2>9, <2>10, <2>11, <2>12, Idle
<1> QED
  BY <1>2, <1>3

-----------------------------------------------------------------------------
\* The steps that flush, program and erase.
LEMMA FlushStep ==
  ASSUME CacheInv, flushed = "ok", NEW validate \in BOOLEAN, BdFlush(validate)
  PROVE  CacheInv' /\ ValidatedStep
<1>1. /\ reading' = NoRead /\ erases' = erases /\ latest' = latest
      /\ Flushed(pcache, rcache, validate)
  BY DEF BdFlush
<1>2. Programs(pcache) /\ Holds(pcache, latest') /\ latest' \in [CacheBlocks -> [Cells -> Nat]]
  BY <1>1, CacheHolds DEF CacheInv, CacheTypeOK
<1>3. /\ CacheInv'
      /\ pcache.block # NoBlock /\ pcache' = EmptyCache /\ ~stale' /\ rcache'.block = pcache.block =>
           cells'[pcache.block] = latest'[pcache.block]
  BY <1>1, <1>2, FlushIs
<1> QED
  BY <1>3, CacheAssumption DEF ValidatedStep, NoBlock

LEMMA SyncStep ==
  ASSUME CacheInv, flushed = "ok", BdSync
  PROVE  CacheInv' /\ ValidatedStep
<1>1. /\ reading' = NoRead /\ erases' = erases /\ latest' = latest
      /\ Flushed(pcache, EmptyCache, FALSE)
  BY DEF BdSync
<1>2. Programs(pcache) /\ Holds(pcache, latest') /\ latest' \in [CacheBlocks -> [Cells -> Nat]]
  BY <1>1, CacheHolds DEF CacheInv, CacheTypeOK
<1>3. /\ CacheInv'
      /\ pcache.block # NoBlock /\ pcache' = EmptyCache /\ ~stale' /\ rcache'.block = pcache.block =>
           cells'[pcache.block] = latest'[pcache.block]
  BY <1>1, <1>2, FlushIs
<1> QED
  BY <1>3, CacheAssumption DEF ValidatedStep, NoBlock

\* Data appended to what a program cache holds.
LEMMA Filling ==
  ASSUME NEW r, r = [block |-> r.block, off |-> r.off, size |-> r.size, buffer |-> r.buffer],
         NEW n, NEW t, NEW f, f = [r EXCEPT !.size = @ + n, !.buffer = @ \o t]
  PROVE  f = [block |-> r.block, off |-> r.off, size |-> r.size + n, buffer |-> r.buffer \o t]
  OBVIOUS

LEMMA Appended ==
  ASSUME NEW T, NEW s \in Seq(T), NEW v, NEW n \in Nat, NEW t \in Seq(T), Len(t) = n,
         \A i \in 1..n : t[i] = v
  PROVE  /\ s \o t \in Seq(T) /\ Len(s \o t) = Len(s) + n
         /\ \A i \in 1..Len(s) + n : (s \o t)[i] = IF i <= Len(s) THEN s[i] ELSE v
<1>1. /\ s \o t \in Seq(T) /\ Len(s \o t) = Len(s) + n
      /\ \A i \in 1..Len(s) + n : (s \o t)[i] = IF i <= Len(s) THEN s[i] ELSE t[i - Len(s)]
  BY ConcatProperties
<1>2. \A i \in 1..Len(s) + n : ~(i <= Len(s)) => i - Len(s) \in 1..n
  OBVIOUS
<1> QED
  BY <1>1, <1>2

\* A filled cache holds what is now the latest.
LEMMA FilledHolds ==
  ASSUME CacheInv, NEW block \in CacheBlocks, NEW n \in Nat, NEW v \in Nat,
         NEW pk, pk.block = block, pk.off \in Nat, pk.size \in Nat, Holds(pk, latest),
         NEW filled, filled.block = block, filled.off = pk.off, filled.size = pk.size + n,
         \A i \in 1..pk.size + n :
           filled.buffer[i] = IF i <= pk.size THEN pk.buffer[i] ELSE v,
         \A b \in CacheBlocks, o \in Cells :
           latest'[b][o] = IF b = block /\ pk.off + pk.size <= o /\ o < pk.off + pk.size + n
                           THEN v ELSE latest[b][o]
  PROVE  Holds(filled, latest')
<1> DEFINE p == pk.off
           z == pk.size
           s == pk.buffer
           w == filled.buffer
<1>1. p \in Nat /\ z \in Nat /\ \A i \in 1..z + n : w[i] = IF i <= z THEN s[i] ELSE v
  OBVIOUS
<1>2. \A b \in CacheBlocks, o \in Cells :
        latest'[b][o] = IF b = block /\ p + z <= o /\ o < p + z + n THEN v ELSE latest[b][o]
  OBVIOUS
<1> DEFINE in(o) == p <= o /\ o < p + z
           reach(o) == p <= o /\ o < p + z + n
<1>3. ASSUME NEW b \in CacheBlocks, NEW o \in Cells
      PROVE  \/ latest[b][o] = IF b = block /\ in(o) THEN s[o - p + 1] ELSE cells[b][o]
             \/ b \in WornBlocks /\ o = BlockSize - 1 /\ b # block /\ latest[b][o] # 0
  BY DEF Holds, Covers
<1>4. filled.block = block /\ filled.buffer = w /\ filled.off = p /\ filled.size = z + n
  OBVIOUS
<1> HIDE DEF p, z, s, w
<1>5. ASSUME NEW b \in CacheBlocks, NEW o \in Cells
      PROVE  \/ latest'[b][o] = IF b = block /\ reach(o) THEN w[o - p + 1] ELSE cells[b][o]
             \/ b \in WornBlocks /\ o = BlockSize - 1 /\ b # block /\ latest'[b][o] # 0
  <2>1. o \in Nat
    BY CacheAssumption DEF Cells
  <2>2. CASE b # block
    BY <1>2, <1>3, <2>2
  <2>3. CASE b = block /\ p + z <= o /\ o < p + z + n
    <3>1. o - p + 1 \in 1..z + n /\ ~(o - p + 1 <= z)
      BY <1>1, <2>1, <2>3
    <3>2. w[o - p + 1] = v
      BY <1>1, <3>1
    <3> QED
      BY <1>1, <1>2, <2>1, <2>3, <3>2
  <2>4. CASE b = block /\ in(o)
    <3>1. o - p + 1 \in 1..z + n /\ o - p + 1 <= z
      BY <1>1, <2>1, <2>4
    <3>2. w[o - p + 1] = s[o - p + 1]
      BY <1>1, <3>1
    <3> QED
      BY <1>1, <1>2, <1>3, <2>1, <2>4, <3>2
  <2>5. CASE b = block /\ ~reach(o)
    <3>1. ~in(o) /\ ~(p + z <= o /\ o < p + z + n)
      BY <1>1, <2>1, <2>5
    <3>2. latest'[b][o] = latest[b][o]
      BY <1>1, <1>2, <2>1, <3>1
    <3> QED
      BY <1>3, <2>5, <3>1, <3>2
  <2> QED
    BY <1>1, <2>1, <2>2, <2>3, <2>4, <2>5
<1>6. Holds(filled, latest')
  <2>1. \A o \in Cells : Covers(filled, o) <=> reach(o)
    BY <1>1, <1>4, CacheAssumption DEF Covers, Cells
  <2> QED
    <3> HIDE DEF reach
    <3>1. ASSUME NEW b \in CacheBlocks, NEW o \in Cells
          PROVE  \/ latest'[b][o] = IF filled.block = b /\ Covers(filled, o)
                                    THEN filled.buffer[o - filled.off + 1] ELSE cells[b][o]
                 \/ b \in WornBlocks /\ o = BlockSize - 1 /\ filled.block # b /\ latest'[b][o] # 0
      BY <1>5, <1>4, <2>1
    <3> QED
      BY <3>1 DEF Holds
<1> QED
  BY <1>6

LEMMA ProgStep ==
  ASSUME CacheInv, flushed = "ok", NEW block \in CacheBlocks, NEW off \in Cells,
         NEW n \in 1..BlockSize, NEW validate \in BOOLEAN, BdProg(block, off, n, validate)
  PROVE  CacheInv' /\ ValidatedStep
<1> DEFINE pk == IF pcache.block = NoBlock
                 THEN [EmptyCache EXCEPT !.block = block, !.off = off] ELSE pcache
           filled == [pk EXCEPT !.size = @ + n, !.buffer = @ \o [i \in 1..n |-> erases]]
<1>1. /\ reading = NoRead /\ pk.block = block /\ off = pk.off + pk.size /\ off + n <= BlockSize
      /\ off % ProgSize = 0 \/ pk = pcache
      /\ \A o \in Cells : o >= off => latest[block][o] = 0
      /\ latest' = [latest EXCEPT ![block] =
           [o \in Cells |-> IF o \in off..off + n - 1 THEN erases ELSE @[o]]]
      /\ IF filled.size = BlockSize THEN Flushed(filled, rcache, validate)
         ELSE pcache' = filled /\ UNCHANGED <<cells, rcache, stale, flushed>>
      /\ UNCHANGED <<erases, reading>>
  BY DEF BdProg
<1>2. off \in Nat /\ n \in Nat /\ n > 0 /\ BlockSize \in Nat /\ NoBlock # block /\ NoBlock \notin CacheBlocks
  BY CacheAssumption DEF Cells, NoBlock
<1>3. Programs(pcache) /\ Holds(pcache, latest) /\ erases \in Nat \ {0}
  BY CacheHolds DEF CacheInv, CacheTypeOK
<1>4. Programs(pk) /\ Holds(pk, latest)
  <2>1. CASE pcache.block # NoBlock
    BY <1>3, <2>1
  <2>2. CASE pcache.block = NoBlock
    <3>1. pk = [block |-> block, off |-> off, size |-> 0, buffer |-> <<>>]
      BY <2>2 DEF EmptyCache
    <3>2. pk # pcache
      BY <1>2, <2>2, <3>1
    <3> HIDE DEF pk
    <3>3. Programs(pk)
      BY <1>1, <1>2, <3>1, <3>2 DEF Programs
    <3>4. \A o \in Cells : ~Covers(pk, o)
      BY <1>2, <3>1 DEF Covers, Cells
    <3>5. \A b \in CacheBlocks, o \in Cells :
            latest[b][o] = cells[b][o] \/ (b \in WornBlocks /\ o = BlockSize - 1 /\ latest[b][o] # 0)
      BY <1>2, <1>3, <2>2 DEF Holds
    <3>6. \A o \in Cells : o = BlockSize - 1 => latest[block][o] = 0
      BY <1>1, <1>2 DEF Cells
    <3>7. Holds(pk, latest)
      BY <3>1, <3>4, <3>5, <3>6 DEF Holds
    <3> QED
      BY <3>3, <3>7
  <2> QED
    BY <2>1, <2>2
<1> HIDE DEF pk
<1> DEFINE w0 == [i \in 1..n |-> erases]
           w == pk.buffer \o w0
<1>5. /\ pk.block = block /\ pk.off \in Nat /\ pk.size \in Nat /\ pk.buffer \in Seq(Nat \ {0})
      /\ Len(pk.buffer) = pk.size /\ pk.off % ProgSize = 0
      /\ pk = [block |-> pk.block, off |-> pk.off, size |-> pk.size, buffer |-> pk.buffer]
  BY <1>1, <1>4 DEF Programs
<1>6. w = pk.buffer \o w0
  OBVIOUS
<1>7. filled = [pk EXCEPT !.size = @ + n, !.buffer = @ \o w0]
  OBVIOUS
<1> HIDE DEF filled, w0
<1>8. filled = [block |-> block, off |-> pk.off, size |-> pk.size + n, buffer |-> w]
  <2>1. filled = [block |-> pk.block, off |-> pk.off, size |-> pk.size + n, buffer |-> w]
    BY <1>5, <1>7, Filling
  <2> QED
    BY <1>5, <2>1
<1> HIDE DEF w
<1>9. latest' \in [CacheBlocks -> [Cells -> Nat]]
       /\ \A b \in CacheBlocks, o \in Cells :
            latest'[b][o] = IF b = block /\ pk.off + pk.size <= o /\ o < pk.off + pk.size + n
                            THEN erases ELSE latest[b][o]
  <2> DEFINE row == [o \in Cells |-> IF o \in off..off + n - 1 THEN erases ELSE latest[block][o]]
  <2>1. latest \in [CacheBlocks -> [Cells -> Nat]] /\ erases \in Nat
    BY <1>3 DEF CacheInv, CacheTypeOK
  <2>2. latest' = [latest EXCEPT ![block] = row]
    BY <1>1, <2>1
  <2>3. row \in [Cells -> Nat]
    BY <2>1
  <2>4. \A o \in Cells : row[o] = IF off <= o /\ o < off + n THEN erases ELSE latest[block][o]
    BY <1>2 DEF Cells
  <2> HIDE DEF row
  <2>5. latest' \in [CacheBlocks -> [Cells -> Nat]]
    BY <2>1, <2>2, <2>3
  <2>6. \A b \in CacheBlocks : latest'[b] = IF b = block THEN row ELSE latest[b]
    BY <2>1, <2>2
  <2>7. off = pk.off + pk.size
    BY <1>1
  <2> QED
    BY <2>4, <2>5, <2>6, <2>7
<1>10. pk.off + pk.size + n <= BlockSize
  BY <1>1, <1>5
<1>11. /\ w \in Seq(Nat \ {0}) /\ Len(w) = pk.size + n
       /\ \A i \in 1..pk.size + n : w[i] = IF i <= pk.size THEN pk.buffer[i] ELSE erases
  <2> DEFINE T == Nat \ {0}
             s == pk.buffer
  <2>1. s \in Seq(T) /\ Len(s) = pk.size /\ w = s \o w0
    BY <1>5, <1>6
  <2>2. w0 \in Seq(T) /\ Len(w0) = n /\ \A i \in 1..n : w0[i] = erases
    BY <1>2, <1>3 DEF w0
  <2> HIDE DEF T, s
  <2>3. /\ s \o w0 \in Seq(T) /\ Len(s \o w0) = Len(s) + n
        /\ \A i \in 1..Len(s) + n : (s \o w0)[i] = IF i <= Len(s) THEN s[i] ELSE erases
    <3>1. n \in Nat
      BY <1>2
    <3> QED
      <4>1. s \in Seq(T)
        BY <2>1
      <4>2. w0 \in Seq(T) /\ Len(w0) = n
        BY <2>2
      <4>3. \A i \in 1..n : w0[i] = erases
        BY <2>2
      <4>4. s \o w0 \in Seq(T)
        BY <3>1, <4>1, <4>2, <4>3, Appended
      <4>5. Len(s \o w0) = Len(s) + n
        BY <3>1, <4>1, <4>2, <4>3, Appended
      <4>6. \A i \in 1..Len(s) + n : (s \o w0)[i] = IF i <= Len(s) THEN s[i] ELSE erases
        BY <3>1, <4>1, <4>2, <4>3, Appended
      <4> QED
        BY <4>4, <4>5, <4>6
  <2> QED
    BY <2>1, <2>3 DEF T, s
<1>12. filled.block = block /\ filled.off = pk.off /\ filled.size = pk.size + n /\ filled.buffer = w
  BY <1>8
<1>13. Holds(filled, latest')
  <2>1. erases \in Nat /\ n \in Nat
    BY <1>2, <1>3
  <2>2. \A i \in 1..pk.size + n :
          filled.buffer[i] = IF i <= pk.size THEN pk.buffer[i] ELSE erases
    BY <1>11, <1>12
  <2>3. pk.block = block /\ pk.off \in Nat /\ pk.size \in Nat
    BY <1>5
  <2> QED
    BY <1>4, <1>9, <1>12, <2>1, <2>2, <2>3, FilledHolds, Zenon
<1>14. /\ Programs(filled) /\ filled.block = block /\ Holds(filled, latest')
      /\ latest' \in [CacheBlocks -> [Cells -> Nat]]
  BY <1>2, <1>5, <1>8, <1>9, <1>10, <1>11, <1>12, <1>13 DEF Programs
<1>15. CASE filled.size = BlockSize
  <2>1. Flushed(filled, rcache, validate) /\ reading' = NoRead /\ erases' = erases
    BY <1>1, <1>15
  <2>2. /\ CacheInv'
        /\ filled.block # NoBlock /\ pcache' = EmptyCache /\ ~stale' /\ rcache'.block = filled.block =>
             cells'[filled.block] = latest'[filled.block]
    BY <1>14, <2>1, FlushIs
  <2>3. \A b \in CacheBlocks : pcache.block = b => b = block
    BY <1>1, <1>2 DEF pk
  <2> QED
    BY <1>2, <1>14, <2>2, <2>3 DEF ValidatedStep
<1>16. CASE filled.size # BlockSize
  <2>1. /\ pcache' = filled /\ UNCHANGED <<cells, rcache, stale, flushed, erases>> /\ reading' = NoRead
    BY <1>1, <1>16
  <2>2. CachesTyped'
    BY <1>14, <2>1 DEF CacheInv, CacheTypeOK, CachesTyped, Programs
  <2>3. CacheTypeOK'
    BY <1>14, <2>1, <2>2 DEF CacheInv, CacheTypeOK, ReadTyped
  <2>4. Shadowed'
    BY <1>14, <2>1 DEF Shadowed, Coherent, Lost, InPcache, Holds, Covers
  <2>5. Mirrors'
    BY <2>1 DEF CacheInv, Mirrors
  <2>6. pcache' # EmptyCache
    BY <1>2, <1>14, <2>1 DEF EmptyCache
  <2>7. CacheInv'
    BY <2>1, <2>3, <2>4, <2>5, Idle
  <2> QED
    BY <2>6, <2>7 DEF ValidatedStep
<1> QED
  BY <1>15, <1>16

LEMMA EraseStep ==
  ASSUME CacheInv, flushed = "ok", NEW block \in CacheBlocks, BdErase(block)
  PROVE  CacheInv' /\ ValidatedStep
<1> DEFINE row == [o \in Cells |-> 0]
<1>1. /\ reading' = NoRead /\ pcache.block # block
      /\ cells' = [cells EXCEPT ![block] = row] /\ latest' = [latest EXCEPT ![block] = row]
      /\ stale' = (stale \/ rcache.block = block) /\ erases' = erases + 1
      /\ UNCHANGED <<pcache, rcache, flushed>>
  BY DEF BdErase
<1>2. /\ cells \in [CacheBlocks -> [Cells -> Nat]] /\ latest \in [CacheBlocks -> [Cells -> Nat]]
      /\ erases \in Nat \ {0} /\ stale \in BOOLEAN
  BY DEF CacheInv, CacheTypeOK
<1>3. row \in [Cells -> Nat] /\ \A o \in Cells : row[o] = 0
  OBVIOUS
<1> HIDE DEF row
<1>4. /\ cells' \in [CacheBlocks -> [Cells -> Nat]] /\ latest' \in [CacheBlocks -> [Cells -> Nat]]
      /\ \A b \in CacheBlocks : b # block => cells'[b] = cells[b] /\ latest'[b] = latest[b]
      /\ \A o \in Cells : cells'[block][o] = 0 /\ latest'[block][o] = 0
  BY <1>1, <1>2, <1>3
<1>5. CachesTyped'
  BY <1>1 DEF CacheInv, CacheTypeOK, CachesTyped
<1>6. CacheTypeOK'
  BY <1>1, <1>2, <1>4, <1>5 DEF CacheInv, CacheTypeOK, ReadTyped
<1>7. Shadowed'
  <2> SUFFICES ASSUME NEW b \in CacheBlocks, NEW o \in Cells
               PROVE  (Coherent(b, o) \/ Lost(b, o))'
    BY DEF Shadowed
  <2>1. CASE b = block
    BY <1>1, <1>4, <2>1 DEF Coherent, InPcache
  <2>2. CASE b # block
    BY <1>1, <1>4, <2>2 DEF CacheInv, Shadowed, Coherent, Lost, InPcache
  <2> QED
    BY <2>1, <2>2
<1>8. Mirrors'
  <2> SUFFICES ASSUME ~stale', rcache'.block # NoBlock, NEW i \in 1..rcache'.size
               PROVE  rcache'.buffer[i] = cells'[rcache'.block][rcache'.off + i - 1]
    BY DEF Mirrors
  <2>1. ~(stale \/ rcache.block = block)
    BY <1>1, Zenon
  <2>2. rcache.block \in CacheBlocks
    BY <1>1 DEF CacheInv, CacheTypeOK, CachesTyped
  <2>3. cells'[rcache.block] = cells[rcache.block]
    BY <1>4, <2>1, <2>2
  <2> QED
    BY <1>1, <2>1, <2>3 DEF CacheInv, Mirrors
<1>9. CacheInv'
  BY <1>1, <1>6, <1>7, <1>8, Idle
<1>10. ValidatedStep
  BY <1>1, CacheAssumption DEF ValidatedStep, EmptyCache, NoBlock
<1> QED
  BY <1>9, <1>10

LEMMA DropStep ==
  ASSUME CacheInv, DropBad
  PROVE  CacheInv' /\ ValidatedStep
<1>1. /\ flushed = "corrupt" /\ pcache' = EmptyCache /\ flushed' = "ok"
      /\ latest' = [latest EXCEPT ![pcache.block] = cells[pcache.block]]
      /\ UNCHANGED <<cells, rcache, stale, erases, reading>>
  BY DEF DropBad
<1>2. /\ cells \in [CacheBlocks -> [Cells -> Nat]] /\ latest \in [CacheBlocks -> [Cells -> Nat]]
      /\ pcache.block \in CacheBlocks /\ reading' = NoRead
  BY <1>1, CacheAssumption DEF CacheInv, CacheTypeOK, ReadTyped
<1>3. /\ latest' \in [CacheBlocks -> [Cells -> Nat]] /\ latest'[pcache.block] = cells[pcache.block]
      /\ \A b \in CacheBlocks : b # pcache.block => latest'[b] = latest[b]
  BY <1>1, <1>2
<1>4. CachesTyped'
  <2>1. 0 % ProgSize = 0 /\ BlockSize \in Nat
    BY CacheAssumption
  <2> QED
    BY <1>1, <2>1 DEF CacheInv, CacheTypeOK, CachesTyped, EmptyCache
<1>5. CacheTypeOK'
  BY <1>1, <1>2, <1>3, <1>4 DEF CacheInv, CacheTypeOK, ReadTyped
<1>6. Shadowed'
  <2> SUFFICES ASSUME NEW b \in CacheBlocks, NEW o \in Cells
               PROVE  (Coherent(b, o) \/ Lost(b, o))'
    BY DEF Shadowed
  <2>1. pcache'.block # b
    BY <1>1, CacheAssumption DEF EmptyCache, NoBlock
  <2>2. CASE b = pcache.block
    BY <1>1, <1>3, <2>1, <2>2 DEF Coherent, InPcache
  <2>3. CASE b # pcache.block
    BY <1>1, <1>3, <2>1, <2>3 DEF CacheInv, Shadowed, Coherent, Lost, InPcache
  <2> QED
    BY <2>2, <2>3
<1>7. Mirrors'
  BY <1>1 DEF CacheInv, Mirrors
<1>8. CacheInv'
  BY <1>1, <1>2, <1>5, <1>6, <1>7, Idle
<1> QED
  BY <1>1, <1>3, <1>8 DEF ValidatedStep

-----------------------------------------------------------------------------
LEMMA CacheInitially == LfsCacheInit => CacheInv
<1> SUFFICES ASSUME LfsCacheInit PROVE CacheInv
  OBVIOUS
<1>1. /\ cells = [b \in CacheBlocks |-> [o \in Cells |-> 0]] /\ latest = cells
      /\ pcache = EmptyCache /\ rcache = EmptyCache /\ reading = NoRead
      /\ stale = FALSE /\ flushed = "ok" /\ erases = 1
  BY DEF LfsCacheInit
<1>2. cells \in [CacheBlocks -> [Cells -> Nat]] /\ latest \in [CacheBlocks -> [Cells -> Nat]]
  BY <1>1
<1>3. stale \in BOOLEAN /\ flushed \in {"ok", "corrupt"} /\ erases \in Nat \ {0}
  <2>1. stale \in BOOLEAN
    BY <1>1, Zenon
  <2>2. flushed = "ok" /\ erases = 1
    BY <1>1
  <2> QED
    BY <2>1, <2>2
<1>4. ReadTyped
  BY <1>1 DEF ReadTyped
<1>5. CachesTyped
  <2>1. 0 % ProgSize = 0 /\ 0 % ReadSize = 0 /\ BlockSize \in Nat
    BY CacheAssumption
  <2> QED
    BY <1>1, <2>1 DEF CachesTyped, EmptyCache
<1>6. CacheTypeOK
  BY <1>2, <1>5, <1>4, <1>3 DEF CacheTypeOK
<1>7. Shadowed
  BY <1>1, CacheAssumption DEF Shadowed, Coherent, InPcache, EmptyCache, NoBlock
<1>8. Mirrors
  BY <1>1 DEF Mirrors, EmptyCache
<1>9. reading.fresh = FALSE
  BY <1>1 DEF NoRead
<1> QED
  BY <1>1, <1>6, <1>7, <1>8, <1>9 DEF CacheInv, ReadsLatest

\* Every step keeps the invariant and leaves validated what it says it has.
LEMMA CacheStep == CacheInv /\ [LfsCacheNext]_lfsCacheVars => CacheInv' /\ (ValidatedStep \/ UNCHANGED lfsCacheVars)
<1> SUFFICES ASSUME CacheInv, [LfsCacheNext]_lfsCacheVars
             PROVE  CacheInv' /\ (ValidatedStep \/ UNCHANGED lfsCacheVars)
  OBVIOUS
<1>1. CASE DropBad
  BY <1>1, DropStep
<1>2. ASSUME flushed = "ok", BdSync PROVE CacheInv' /\ ValidatedStep
  BY <1>2, SyncStep
<1>3. ASSUME flushed = "ok", BdRead PROVE CacheInv' /\ ValidatedStep
  <2>1. CacheInv'
    BY <1>3, ProgrammedStep, CachedStep, DeviceStep, LoadStep, EndStep DEF BdRead
  <2>2. pcache' = pcache
    BY <1>3 DEF BdRead, ReadProgrammed, ReadCached, ReadDevice, LoadCache, EndRead, Taken
  <2>3. ValidatedStep
    BY <2>2, CacheAssumption DEF ValidatedStep, EmptyCache, NoBlock
  <2> QED
    BY <2>1, <2>3
<1>4. ASSUME flushed = "ok", NEW validate \in BOOLEAN, BdFlush(validate)
      PROVE  CacheInv' /\ ValidatedStep
  BY <1>4, FlushStep
<1>5. ASSUME flushed = "ok", NEW validate \in BOOLEAN, NEW b \in CacheBlocks, NEW o \in Cells,
             NEW n \in 1..BlockSize, BdProg(b, o, n, validate)
      PROVE  CacheInv' /\ ValidatedStep
  BY <1>5, ProgStep
<1>6. ASSUME flushed = "ok", NEW b \in CacheBlocks, BdErase(b)
      PROVE  CacheInv' /\ ValidatedStep
  BY <1>6, EraseStep
<1>7. ASSUME flushed = "ok", NEW b \in CacheBlocks, NEW r \in Reads, BeginRead(b, r[1], r[2], r[3])
      PROVE  CacheInv' /\ ValidatedStep
  <2>1. CacheInv'
    BY <1>7, BeginStep
  <2>2. pcache' = pcache
    BY <1>7 DEF BeginRead
  <2> QED
    BY <2>1, <2>2, CacheAssumption DEF ValidatedStep, EmptyCache, NoBlock
<1>8. CASE UNCHANGED lfsCacheVars
  BY <1>8 DEF lfsCacheVars, CacheInv, CacheTypeOK, CachesTyped, ReadTyped, Shadowed, Coherent,
              Lost, InPcache, Mirrors, ReadsLatest
<1> QED
  BY <1>1, <1>2, <1>3, <1>4, <1>5, <1>6, <1>7, <1>8 DEF LfsCacheNext

\* Rounds read on: the caches begin where reads of the device do.
LEMMA CacheReadsOn == CacheInv => ReadsOn
<1> SUFFICES ASSUME CacheInv, Uncached
             PROVE  IF Bypasses THEN Direct > 0 ELSE Within(Line)
  BY DEF ReadsOn
<1>1. reading.size > 0 /\ ~Within(pcache) /\ ~Within(rcache) /\ reading # NoRead
  BY DEF Uncached, NoRead
<1>2. CASE ~Bypasses
  BY <1>1, <1>2, LineIs DEF Within
<1>3. CASE Bypasses
  <2>1. /\ reading.off \in Nat /\ reading.size \in Nat
        /\ reading.off % ReadSize = 0 /\ reading.size >= ReadSize /\ ReadSize \in Nat \ {0}
    BY <1>1, <1>3, CacheAssumption DEF Bypasses, CacheInv, CacheTypeOK, ReadTyped
  <2>2. pcache.off \in Nat /\ pcache.off % ProgSize = 0 /\ rcache.off \in Nat /\ rcache.off % ReadSize = 0
    BY DEF CacheInv, CacheTypeOK, CachesTyped
  <2>3. pcache.off % ReadSize = 0
    BY <2>2, MultipleOf
  <2>4. reading.off < pcache.off => pcache.off - reading.off >= ReadSize
    BY <2>1, <2>2, <2>3, Gap
  <2>5. reading.off < rcache.off => rcache.off - reading.off >= ReadSize
    BY <2>1, <2>2, Gap
  <2>6. Reach \in Nat /\ Reach >= ReadSize
    BY <2>1, <2>2, <2>4 DEF Reach, Ahead, Least
  <2>7. Ahead(rcache, Reach) \in Nat /\ Ahead(rcache, Reach) >= ReadSize
    BY <2>1, <2>2, <2>5, <2>6 DEF Ahead, Least
  <2> QED
    BY <1>3, <2>1, <2>7, DownIs DEF Direct
<1> QED
  BY <1>2, <1>3

LEMMA CacheAlways == LfsCacheSpec => []CacheInv
<1>1. LfsCacheInit => CacheInv
  BY CacheInitially
<1>2. CacheInv /\ [LfsCacheNext]_lfsCacheVars => CacheInv'
  BY CacheStep
<1> QED
  BY <1>1, <1>2, PTL DEF LfsCacheSpec

(***************************************************************************)
(* A read of lfs_bd_read that does not begin with a stale read cache       *)
(* returns what was programmed last, through whatever rounds, and each     *)
(* round brings it on.                                                     *)
(***************************************************************************)
THEOREM ReadsAreLatest == LfsCacheSpec => []CacheSound
<1>1. CacheInv => CacheSound
  BY CacheReadsOn DEF CacheSound, CacheInv
<1> QED
  BY <1>1, CacheAlways, PTL

(***************************************************************************)
(* What lfs_bd_flush reads back and finds equal is on the device, the rest *)
(* of the block included.                                                  *)
(***************************************************************************)
THEOREM ValidatedFlushes == LfsCacheSpec => ValidatedIsWritten
<1>1. CacheInv /\ [LfsCacheNext]_lfsCacheVars => [ValidatedStep]_lfsCacheVars
  BY CacheStep
<1> QED
  BY <1>1, CacheAlways, PTL DEF LfsCacheSpec, ValidatedIsWritten
=============================================================================
