------------------------- MODULE MemoryManagerProofs -------------------------
(***************************************************************************)
(* Until a hazard strikes, the heap is sound: for any heap, any number of  *)
(* tasks and blocks, any sizes.                                            *)
(***************************************************************************)
EXTENDS MemoryManager, TLAPS

(***************************************************************************)
(* A list of arenas A with sizes S, successors N and predecessors B, which *)
(* are functions of addresses.                                             *)
(***************************************************************************)
Placed(A, S, N, B, a) ==
  /\ S[a] \in Nat /\ a + SizeofArena + S[a] <= N[a]
  /\ N[a] \in A \union {HEAP_END}
  /\ N[a] # HEAP_END => B[N[a]] = a
  /\ \A b \in A : b > a => b >= N[a]
  /\ a # HEAP_START => B[a] \in A /\ N[B[a]] = a

Listed(A, S, N, B) ==
  /\ HEAP_START \in A /\ A \subseteq HEAP_START..HEAP_END - SizeofArena
  /\ B[HEAP_START] = nullptr
  /\ \A a \in A : Placed(A, S, N, B, a)

AllocatedOf == [a \in Addr |-> Allocated(a)]
NextOf      == [a \in Addr |-> Next_(a)]
BeforeOf    == [a \in Addr |-> Before(a)]

(***************************************************************************)
(* The inductive invariant.                                                *)
(***************************************************************************)
\* While a walk or an edit goes on, no other client is inside one.
Exclusive ==
  /\ \A c \in Clients : pc[c] = "scan" <=> masked = c
  /\ \A c, d \in Clients : c # d /\ pc[c] \in Window => pc[d] \notin Window \union {"scan"}

\* No arena belongs to two, and one that belongs to somebody is allocated.
Leaves(c) == pc[c] \in {"load", "unlinkNext"}
Claimed ==
  /\ \A b \in Held : 0 < blk[b].size /\ blk[b].size <= Allocated(Base(b))
  /\ \A c \in Clients : Leaves(c) => Allocated(reg[c].arena) > 0
  /\ \A b, d \in Held : b # d => Base(b) # Base(d)
  /\ \A b \in Held, c \in Clients : Leaves(c) => Base(b) # reg[c].arena
  /\ \A c, d \in Clients : c # d /\ Leaves(c) /\ Leaves(d) => reg[c].arena # reg[d].arena

\* A header that is off the list and touches none that is on it.
OffList(a) ==
  /\ a \in HEAP_START..HEAP_END - SizeofArena
  /\ \A x \in Arenas : x + SizeofArena <= a \/ a + SizeofArena <= x

\* What the registers of a client say of the list.
Registers(c) ==
  /\ pc[c] \in {"scan", "replace", "grow"} => reg[c].want \in Sizes \union NewSizes
  /\ pc[c] = "scan" =>
       /\ Allocated(HEAP_START) # 0 /\ reg[c].cand \in Arenas
       /\ \A a \in Arenas : a < reg[c].cand => Gap(a) < Align(reg[c].want)
  /\ pc[c] = "grow" =>
       /\ reg[c].arena = Base(reg[c].b)
       /\ End(reg[c].arena) + reg[c].want <= Next_(reg[c].arena)
  /\ pc[c] = "unlinkNext" =>
       /\ reg[c].arena # HEAP_START
       /\ reg[c].prev = Prev_(reg[c].arena) /\ reg[c].next = Next_(reg[c].arena)
  /\ pc[c] = "unlinkPrev" =>
       reg[c].next \in Arenas \ {HEAP_START} /\ reg[c].prev \in Arenas /\ OffList(reg[c].arena)
  /\ pc[c] = "clear" =>
       \/ OffList(reg[c].arena)
       \/ /\ reg[c].arena = HEAP_START /\ reg[c].next = HEAP_END
          /\ Next_(HEAP_START) = HEAP_END /\ \A b \in Held : Base(b) # HEAP_START
          /\ \A d \in Clients : Leaves(d) => reg[d].arena # HEAP_START

Sound ==
  /\ Exclusive /\ Claimed
  /\ Listed(Arenas, AllocatedOf, NextOf, BeforeOf)
  /\ Allocated(HEAP_START) = 0 => Next_(HEAP_START) = HEAP_END
  /\ \A c \in Clients : Registers(c)

\* A block in the hands of a realloc stays one, spoilt or not.
InHand == \A c \in Clients : pc[c] \in {"replace", "grow"} => reg[c].b \in Held

Inv == TypeOK /\ InHand /\ (~spoilt => Sound)

-----------------------------------------------------------------------------
\* Arenas lie one behind the other, and all before the end of the heap.
LEMMA Ordered ==
  ASSUME NEW A, NEW S, NEW N, NEW B, Listed(A, S, N, B), NEW x \in A
  PROVE  /\ x \in Nat /\ HEAP_START <= x /\ S[x] \in Nat /\ N[x] \in Nat /\ N[x] <= HEAP_END
         /\ x + SizeofArena + S[x] <= N[x]
         /\ N[x] # HEAP_END => N[x] \in A /\ N[x] # HEAP_START /\ B[N[x]] = x
         /\ x # HEAP_START => B[x] \in A /\ N[B[x]] = x
         /\ \A y \in A : y > x => y >= N[x]
<1>1. \A y \in A : y \in Nat /\ HEAP_START <= y /\ y + SizeofArena <= HEAP_END
  BY HeapAssumption DEF Listed, SizeofArena
<1>2. Placed(A, S, N, B, x)
  BY DEF Listed
<1>3. x \in Nat /\ HEAP_START <= x /\ S[x] \in Nat /\ x + SizeofArena + S[x] <= N[x]
  BY <1>1, <1>2 DEF Placed
<1>4. N[x] \in Nat /\ N[x] <= HEAP_END
  <2>1. N[x] \in A \/ N[x] = HEAP_END
    BY <1>2 DEF Placed
  <2>2. CASE N[x] \in A
    BY <1>1, <2>2, HeapAssumption DEF SizeofArena
  <2>3. CASE N[x] = HEAP_END
    BY <2>3, HeapAssumption
  <2>4. QED
    BY <2>1, <2>2, <2>3
<1>5. N[x] # HEAP_START
  BY <1>3, <1>4, HeapAssumption DEF SizeofArena
<1>6. QED
  BY <1>2, <1>3, <1>4, <1>5 DEF Placed

LEMMA Apart ==
  ASSUME NEW A, NEW S, NEW N, NEW B, Listed(A, S, N, B), NEW x \in A, NEW y \in A, x # y
  PROVE  x + SizeofArena <= y \/ y + SizeofArena <= x
<1>1. x \in Nat /\ y \in Nat /\ S[x] \in Nat /\ S[y] \in Nat /\ N[x] \in Nat /\ N[y] \in Nat
  BY Ordered
<1>2. x + SizeofArena + S[x] <= N[x] /\ y + SizeofArena + S[y] <= N[y]
  BY Ordered
<1>3. (y > x => y >= N[x]) /\ (x > y => x >= N[y])
  BY Ordered
<1>4. QED
  BY <1>1, <1>2, <1>3 DEF SizeofArena

\* A list stays one when an arena is put into the gap behind another, ...
LEMMA Inserted ==
  ASSUME NEW A, NEW S, NEW N, NEW B, Listed(A, S, N, B),
         NEW a \in A, NEW n, NEW size \in Nat,
         n = a + SizeofArena + S[a], n + SizeofArena + size <= N[a],
         NEW S2, NEW N2, NEW B2,
         S2[n] = size, \A x \in A : S2[x] = S[x],
         N2[n] = N[a], N2[a] = n, \A x \in A : x # a => N2[x] = N[x],
         B2[n] = a, N[a] # HEAP_END => B2[N[a]] = n, \A x \in A : x # N[a] => B2[x] = B[x]
  PROVE  n \notin A /\ Listed(A \union {n}, S2, N2, B2)
<1>1. /\ a \in Nat /\ S[a] \in Nat /\ N[a] \in Nat /\ n \in Nat /\ n > a
      /\ n + SizeofArena + size <= N[a] /\ N[a] <= HEAP_END /\ HEAP_START <= a
  BY Ordered DEF SizeofArena
<1>2. \A y \in A : y \in Nat /\ (y > a => y >= N[a] /\ y > n)
  BY <1>1, Ordered DEF SizeofArena
<1>3. n \notin A
  BY <1>1, <1>2
<1>4. A \union {n} \subseteq HEAP_START..HEAP_END - SizeofArena
  <2>1. n <= HEAP_END - SizeofArena
    BY <1>1, HeapAssumption DEF SizeofArena
  <2>2. A \subseteq HEAP_START..HEAP_END - SizeofArena
    BY DEF Listed
  <2>3. n \in HEAP_START..HEAP_END - SizeofArena
    BY <1>1, <2>1, HeapAssumption DEF SizeofArena
  <2>4. QED
    BY <2>2, <2>3
<1>5. B2[HEAP_START] = nullptr /\ HEAP_START \in A
  <2>1. HEAP_START \in A /\ B[HEAP_START] = nullptr
    BY DEF Listed
  <2>2. HEAP_START # N[a]
    BY <1>1, HeapAssumption DEF SizeofArena
  <2>3. QED
    BY <2>1, <2>2
<1>6. Placed(A \union {n}, S2, N2, B2, n)
  <2>1. N2[n] \in A \union {HEAP_END} /\ (N2[n] # HEAP_END => B2[N2[n]] = n)
    BY Ordered
  <2>2. \A y \in A \union {n} : y > n => y >= N2[n]
    BY <1>1, <1>2
  <2>3. QED
    BY <1>1, <2>1, <2>2 DEF Placed
<1>7. Placed(A \union {n}, S2, N2, B2, a)
  <2>1. \A y \in A \union {n} : y > a => y >= n
    BY <1>1, <1>2
  <2>2. a # HEAP_START => B2[a] \in A /\ N2[B2[a]] = a
    <3>1. a # N[a]
      BY <1>1 DEF SizeofArena
    <3>2. a # HEAP_START => B[a] \in A /\ N[B[a]] = a
      BY Ordered
    <3>3. QED
      BY <3>1, <3>2
  <2>3. QED
    BY <1>1, <2>1, <2>2 DEF Placed
<1>8. ASSUME NEW x \in A, x # a PROVE Placed(A \union {n}, S2, N2, B2, x)
  <2>1. /\ x \in Nat /\ S[x] \in Nat /\ N[x] \in Nat /\ x + SizeofArena + S[x] <= N[x]
        /\ N[x] # HEAP_END => N[x] \in A /\ B[N[x]] = x
        /\ x # HEAP_START => B[x] \in A /\ N[B[x]] = x
        /\ \A y \in A : y > x => y >= N[x]
    BY Ordered
  <2>2. N2[x] = N[x] /\ S2[x] = S[x]
    BY <1>8
  <2>3. N[x] # HEAP_END => B2[N[x]] = x
    <3>1. N[a] # HEAP_END => B[N[a]] = a
      BY Ordered
    <3>2. QED
      BY <1>8, <2>1, <3>1
  <2>4. \A y \in A \union {n} : y > x => y >= N[x]
    <3>1. n > x => n >= N[x]
      BY <1>1, <1>2, <1>8, <2>1
    <3>2. QED
      BY <2>1, <3>1
  <2>5. x # HEAP_START => B2[x] \in A \union {n} /\ N2[B2[x]] = x
    <3>1. CASE x = N[a]
      <4>1. x # HEAP_END
        BY <2>1, Ordered, HeapAssumption DEF SizeofArena
      <4>2. QED
        BY <3>1, <4>1
    <3>2. CASE x # N[a]
      BY <2>1, <3>2
    <3>3. QED
      BY <3>1, <3>2
  <2>6. QED
    BY <2>1, <2>2, <2>3, <2>4, <2>5 DEF Placed
<1>9. QED
  BY <1>3, <1>4, <1>5, <1>6, <1>7, <1>8 DEF Listed

\* ... when one is taken out, ...
LEMMA Removed ==
  ASSUME NEW A, NEW S, NEW N, NEW B, Listed(A, S, N, B),
         NEW a \in A, a # HEAP_START,
         NEW S2, NEW N2, NEW B2,
         \A x \in A : x # a => S2[x] = S[x],
         N2[B[a]] = N[a], \A x \in A : x # a /\ x # B[a] => N2[x] = N[x],
         N[a] # HEAP_END => B2[N[a]] = B[a],
         \A x \in A : x # a /\ x # N[a] => B2[x] = B[x]
  PROVE  Listed(A \ {a}, S2, N2, B2)
<1> DEFINE p == B[a]
<1>1. /\ p \in A /\ N[p] = a /\ p \in Nat /\ a \in Nat /\ p < a /\ N[a] \in Nat /\ a < N[a]
      /\ S[p] \in Nat /\ p + SizeofArena + S[p] <= a
      /\ N[a] # HEAP_END => N[a] \in A /\ B[N[a]] = a
  <2>1. p \in A /\ N[p] = a
    BY Ordered
  <2>2. QED
    BY <2>1, Ordered DEF SizeofArena
<1>2. HEAP_START \in A \ {a} /\ A \ {a} \subseteq HEAP_START..HEAP_END - SizeofArena
  BY DEF Listed
<1>3. B2[HEAP_START] = nullptr
  <2>1. N[a] # HEAP_START
    BY <1>1, Ordered
  <2>2. QED
    BY <1>2, <2>1 DEF Listed
<1>4. Placed(A \ {a}, S2, N2, B2, p)
  <2>1. S2[p] = S[p] /\ N2[p] = N[a]
    BY <1>1
  <2>2. \A y \in A \ {a} : y > p => y >= N[a]
    <3>1. \A y \in A : y \in Nat /\ (y > p => y >= a) /\ (y > a => y >= N[a])
      BY <1>1, Ordered
    <3>2. QED
      BY <1>1, <3>1
  <2>3. p # HEAP_START => B2[p] \in A \ {a} /\ N2[B2[p]] = p
    <3>1. p # N[a] /\ (p # HEAP_START => B[p] \in A /\ N[B[p]] = p)
      BY <1>1, Ordered
    <3>2. p # HEAP_START => B[p] # a /\ B[p] # p
      BY <1>1, <3>1
    <3>3. QED
      BY <1>1, <3>1, <3>2
  <2>4. N[a] \in (A \ {a}) \union {HEAP_END} /\ (N[a] # HEAP_END => B2[N[a]] = p)
    BY <1>1
  <2>5. p + SizeofArena + S[p] <= N[a]
    BY <1>1 DEF SizeofArena
  <2>6. QED
    BY <1>1, <2>1, <2>2, <2>3, <2>4, <2>5 DEF Placed
<1>5. ASSUME NEW x \in A, x # a, x # p PROVE Placed(A \ {a}, S2, N2, B2, x)
  <2>1. /\ x \in Nat /\ S[x] \in Nat /\ N[x] \in Nat /\ x + SizeofArena + S[x] <= N[x]
        /\ N[x] # HEAP_END => N[x] \in A /\ B[N[x]] = x
        /\ x # HEAP_START => B[x] \in A /\ N[B[x]] = x
        /\ \A y \in A : y > x => y >= N[x]
    BY Ordered
  <2>2. N2[x] = N[x] /\ S2[x] = S[x]
    BY <1>5
  <2>3. N[x] # HEAP_END => N[x] # a /\ N[x] # N[a]
    BY <1>1, <1>5, <2>1
  <2>4. N[x] # HEAP_END => B2[N[x]] = x
    BY <2>1, <2>3
  <2>5. x # HEAP_START => B2[x] \in A \ {a} /\ N2[B2[x]] = x
    <3>1. CASE x = N[a]
      <4>1. x # HEAP_END
        BY <2>1, Ordered, HeapAssumption DEF SizeofArena
      <4>2. QED
        BY <1>1, <3>1, <4>1
    <3>2. CASE x # N[a]
      BY <1>1, <1>5, <2>1, <3>2
    <3>3. QED
      BY <3>1, <3>2
  <2>6. QED
    BY <2>1, <2>2, <2>3, <2>4, <2>5 DEF Placed
<1>6. QED
  BY <1>2, <1>3, <1>4, <1>5 DEF Listed

\* ... and when one takes another size that fits.
LEMMA Resized ==
  ASSUME NEW A, NEW S, NEW N, NEW B, Listed(A, S, N, B),
         NEW S2, NEW N2, NEW B2,
         \A x \in A : /\ S2[x] \in Nat /\ x + SizeofArena + S2[x] <= N[x]
                      /\ N2[x] = N[x] /\ B2[x] = B[x]
  PROVE  Listed(A, S2, N2, B2)
  BY DEF Listed, Placed

-----------------------------------------------------------------------------
(***************************************************************************)
(* Types.                                                                  *)
(***************************************************************************)
LEMMA SizeFacts == ASSUME NEW n \in Sizes \union NewSizes
  PROVE n \in Nat /\ 0 < n /\ Align(n) \in Nat /\ n <= Align(n)
<1>1. n \in Nat /\ 0 < n /\ n + 3 < AddrSpace /\ AddrSpace \in Nat
  BY SizesAssumption, HeapAssumption
<1>2. (n + 3) % AddrSpace = n + 3
  BY <1>1
<1>3. QED
  BY <1>1, <1>2 DEF Align

LEMMA Loads == ASSUME TypeOK, NEW a PROVE Load(a) \in Nat
  BY DEF TypeOK, Load, Word

LEMMA Stores == ASSUME NEW m \in [Addr -> Nat], NEW a, NEW v \in Nat
  PROVE [m EXCEPT ![a] = v] \in [Addr -> Nat]
  OBVIOUS

LEMMA Pointers == ASSUME TypeOK, NEW b \in Held
  PROVE blk[b] \in [p : Nat, size : Nat] /\ Base(b) \in Int
  BY DEF TypeOK, Held, Base, SizeofArena

Locals == [b : Blocks, want : Nat, arena : Int, cand : Nat, prev : Nat, next : Nat]

LEMMA LocalsTyped == NoReg \in Locals
<1>1. (CHOOSE b \in Blocks : TRUE) \in Blocks
  BY NamesAssumption
<1>2. QED
  BY <1>1 DEF NoReg, Locals

\* The parts of the type invariant a step of client c may change.
LEMMA TypeKept ==
  ASSUME TypeOK, NEW c \in Clients, NEW r \in Locals, NEW l \in PC,
         mem' \in [Addr -> Nat], blk' \in [Blocks -> [p : Nat, size : Nat] \union {NoBlock}],
         masked' \in Clients \union {NoClient}, spoilt' \in BOOLEAN,
         pc' = [pc EXCEPT ![c] = l], reg' = [reg EXCEPT ![c] = r]
  PROVE  TypeOK'
  BY DEF TypeOK, Locals

LEMMA DoneTyped ==
  ASSUME TypeOK, NEW c \in Clients, Done(c),
         mem' \in [Addr -> Nat], blk' \in [Blocks -> [p : Nat, size : Nat] \union {NoBlock}],
         masked' \in Clients \union {NoClient}, spoilt' \in BOOLEAN
  PROVE  TypeOK'
<1>1. "idle" \in PC
  BY DEF PC
<1>2. QED
  BY <1>1, LocalsTyped, TypeKept DEF Done

LEMMA ReturnTyped ==
  ASSUME TypeOK, NEW c \in Clients, NEW b \in Blocks, NEW a \in Nat, NEW size \in Nat,
         Return(c, b, a, size),
         mem' \in [Addr -> Nat], masked' \in Clients \union {NoClient}, spoilt' \in BOOLEAN
  PROVE  TypeOK'
<1>1. blk' \in [Blocks -> [p : Nat, size : Nat] \union {NoBlock}]
  BY DEF Return, TypeOK, SizeofArena
<1>2. CASE b \in Held
  <2>1. [NoReg EXCEPT !.arena = Base(b)] \in Locals
    BY <1>2, Pointers, LocalsTyped DEF Locals
  <2>2. "load" \in PC
    BY DEF PC
  <2>3. QED
    BY <1>1, <1>2, <2>1, <2>2, TypeKept DEF Return
<1>3. CASE b \notin Held
  BY <1>1, <1>3, DoneTyped DEF Return
<1>4. QED
  BY <1>2, <1>3

LEMMA TypeStep == ASSUME TypeOK, InHand, NEW c \in Clients, Step(c) PROVE TypeOK'
<1>1. /\ mem \in [Addr -> Nat] /\ blk \in [Blocks -> [p : Nat, size : Nat] \union {NoBlock}]
      /\ masked \in Clients \union {NoClient} /\ spoilt \in BOOLEAN
      /\ reg[c] \in Locals /\ pc[c] \in PC
  BY DEF TypeOK, Locals
<1>2. /\ reg[c].b \in Blocks /\ reg[c].want \in Nat /\ reg[c].arena \in Int
      /\ reg[c].cand \in Nat /\ reg[c].prev \in Nat /\ reg[c].next \in Nat
  BY <1>1 DEF Locals
<1>3. \A a : Load(a) \in Nat
  BY Loads
<1>4. \A x \in Window \union {"idle", "scan", "replace", "load"} : x \in PC
  BY DEF PC
<1>5. CASE MallocFirst(c)
  <2>1. PICK b \in Blocks, size \in Sizes \union NewSizes :
          /\ mem' = [mem EXCEPT ![HEAP_START] = Align(size)] /\ Return(c, b, HEAP_START, size)
          /\ spoilt' = (spoilt \/ Intrudes(c)
                         \/ HEAP_START + SizeofArena + Align(size) > Next_(HEAP_START))
    BY <1>5 DEF MallocFirst
  <2>2. mem' \in [Addr -> Nat] /\ HEAP_START \in Nat /\ size \in Nat
    BY <1>1, <2>1, Stores, SizeFacts, HeapAssumption
  <2>3. spoilt' \in BOOLEAN /\ masked' = masked
    BY <1>5, <2>1 DEF MallocFirst
  <2>4. QED
    BY <1>1, <2>1, <2>2, <2>3, ReturnTyped
<1>6. CASE MallocBegin(c)
  <2>1. PICK b \in Blocks, size \in Sizes \union NewSizes :
          reg' = [reg EXCEPT ![c].b = b, ![c].want = size, ![c].cand = HEAP_START]
    BY <1>6 DEF MallocBegin
  <2>2. [reg[c] EXCEPT !.b = b, !.want = size, !.cand = HEAP_START] \in Locals
    BY <1>1, SizeFacts, HeapAssumption DEF Locals
  <2>3. reg' = [reg EXCEPT ![c] = [reg[c] EXCEPT !.b = b, !.want = size, !.cand = HEAP_START]]
    BY <2>1
  <2>4. spoilt' \in BOOLEAN /\ UNCHANGED <<mem, blk>> /\ masked' = c /\ pc' = [pc EXCEPT ![c] = "scan"]
    BY <1>6 DEF MallocBegin
  <2>5. QED
    BY <1>1, <1>4, <2>2, <2>3, <2>4, TypeKept
<1>7. CASE Scan(c)
  <2>1. [reg[c] EXCEPT !.cand = Next_(reg[c].cand)] \in Locals
    BY <1>1, <1>3 DEF Locals, Next_
  <2>2. reg' = [reg EXCEPT ![c] = [reg[c] EXCEPT !.cand = Next_(reg[c].cand)]]
    BY <1>7 DEF Scan
  <2>3. QED
    BY <1>7, <2>1, <2>2 DEF Scan, TypeOK, Locals
<1>8. CASE OutOfMemory(c)
  BY <1>1, <1>8, DoneTyped DEF OutOfMemory
<1>9. CASE Insert(c)
  <2> DEFINE a == reg[c].cand
             size == Align(reg[c].want)
  <2>1. mem' = Linked(a, End(a), size) /\ Return(c, reg[c].b, End(a), reg[c].want)
    BY <1>9 DEF Insert
  <2>2. spoilt' \in BOOLEAN /\ masked' = NoClient
    BY <1>9 DEF Insert
  <2>3. End(a) \in Nat /\ Next_(a) \in Nat
    BY <1>2, <1>3 DEF End, Next_, Allocated, SizeofArena
  <2>4. size \in Nat
    BY <1>2, HeapAssumption DEF Align
  <2>5. mem' \in [Addr -> Nat]
    BY <1>1, <1>2, <2>1, <2>3, <2>4, Stores DEF Linked
  <2>6. QED
    BY <1>2, <2>1, <2>2, <2>3, <2>5, ReturnTyped
<1>10. CASE FreeBegin(c)
  <2>1. PICK b \in Blocks : /\ b \in Held /\ blk' = [blk EXCEPT ![b] = NoBlock]
                            /\ reg' = [reg EXCEPT ![c].arena = Base(b)]
    BY <1>10 DEF FreeBegin, Usable
  <2>2. [reg[c] EXCEPT !.arena = Base(b)] \in Locals
    BY <1>1, <2>1, Pointers DEF Locals
  <2>3. reg' = [reg EXCEPT ![c] = [reg[c] EXCEPT !.arena = Base(b)]]
    BY <2>1
  <2>4. blk' \in [Blocks -> [p : Nat, size : Nat] \union {NoBlock}]
    BY <1>1, <2>1
  <2>5. UNCHANGED <<mem, masked, spoilt>> /\ pc' = [pc EXCEPT ![c] = "load"]
    BY <1>10 DEF FreeBegin
  <2>6. QED
    BY <1>1, <1>4, <2>2, <2>3, <2>4, <2>5, TypeKept
<1>11. CASE FreeLoad(c)
  <2> DEFINE r == [reg[c] EXCEPT !.prev = Prev_(reg[c].arena), !.next = Next_(reg[c].arena)]
  <2>1. r \in Locals
    BY <1>1, <1>3 DEF Locals, Prev_, Next_
  <2>2. reg' = [reg EXCEPT ![c] = r]
    BY <1>11 DEF FreeLoad
  <2>3. PICK l \in PC : pc' = [pc EXCEPT ![c] = l]
    BY <1>4, <1>11 DEF FreeLoad, ThenPrev, Window
  <2>4. spoilt' \in BOOLEAN /\ UNCHANGED <<mem, blk, masked>>
    BY <1>11 DEF FreeLoad
  <2> HIDE DEF r
  <2>5. QED
    BY <1>1, <2>1, <2>2, <2>3, <2>4, TypeKept
<1>12. CASE FreeUnlinkNext(c)
  <2> DEFINE m == [mem EXCEPT ![reg[c].prev + 4] = reg[c].next]
             r == [reg[c] EXCEPT !.prev = Word(m, reg[c].arena + 8), !.next = Word(m, reg[c].arena + 4)]
  <2>1. m \in [Addr -> Nat] /\ mem' = m
    BY <1>1, <1>2, <1>12, Stores DEF FreeUnlinkNext
  <2> HIDE DEF m
  <2>2. \A x : Word(m, x) \in Nat
    BY <2>1 DEF Word
  <2>3. r \in Locals
    BY <1>1, <2>2 DEF Locals
  <2>4. reg' = [reg EXCEPT ![c] = r]
    BY <1>12, <2>1 DEF FreeUnlinkNext
  <2>5. PICK l \in PC : pc' = [pc EXCEPT ![c] = l]
    BY <1>4, <1>12 DEF FreeUnlinkNext, ThenPrev, Window
  <2>6. spoilt' \in BOOLEAN /\ UNCHANGED <<blk, masked>>
    BY <1>12 DEF FreeUnlinkNext
  <2> HIDE DEF r
  <2>7. QED
    BY <1>1, <2>1, <2>3, <2>4, <2>5, <2>6, TypeKept
<1>13. CASE FreeUnlinkPrev(c)
  <2>1. mem' \in [Addr -> Nat]
    BY <1>1, <1>2, <1>13, Stores DEF FreeUnlinkPrev
  <2>2. reg' = [reg EXCEPT ![c] = reg[c]]
    BY <1>13 DEF FreeUnlinkPrev, TypeOK
  <2>3. "clear" \in PC
    BY DEF PC, Window
  <2>4. spoilt' \in BOOLEAN /\ UNCHANGED <<blk, masked>> /\ pc' = [pc EXCEPT ![c] = "clear"]
    BY <1>13 DEF FreeUnlinkPrev
  <2>5. QED
    BY <1>1, <2>1, <2>2, <2>3, <2>4, TypeKept
<1>14. CASE FreeClear(c)
  <2>1. mem' \in [Addr -> Nat]
    <3>1. mem' = Cleared(reg[c].arena, reg[c].next)
      BY <1>14 DEF FreeClear
    <3>2. QED
      BY <1>1, <3>1 DEF Cleared, nullptr
  <2>2. spoilt' \in BOOLEAN /\ UNCHANGED <<blk, masked>>
    BY <1>14 DEF FreeClear
  <2>3. QED
    BY <1>1, <1>14, <2>1, <2>2, DoneTyped DEF FreeClear
<1>15. CASE ReallocShrink(c)
  <2>1. PICK b \in Blocks, size \in NewSizes :
          /\ b \in Held
          /\ mem' = [mem EXCEPT ![Base(b)] = size] /\ blk' = [blk EXCEPT ![b].size = size]
    BY <1>15 DEF ReallocShrink, ReallocCalled, Usable
  <2>2. size \in Nat
    BY SizeFacts
  <2>3. mem' \in [Addr -> Nat] /\ blk' \in [Blocks -> [p : Nat, size : Nat] \union {NoBlock}]
    BY <1>1, <2>1, <2>2, Stores, Pointers
  <2>4. QED
    BY <1>1, <1>15, <2>3 DEF ReallocShrink, TypeOK
<1>16. CASE ReallocCheck(c)
  <2>1. PICK b \in Blocks, size \in NewSizes :
          /\ b \in Held
          /\ reg' = [reg EXCEPT ![c].b = b, ![c].want = size, ![c].arena = Base(b)]
    BY <1>16 DEF ReallocCheck, ReallocCalled, Usable
  <2>2. [reg[c] EXCEPT !.b = b, !.want = size, !.arena = Base(b)] \in Locals
    BY <1>1, <2>1, SizeFacts, Pointers DEF Locals
  <2>3. reg' = [reg EXCEPT ![c] = [reg[c] EXCEPT !.b = b, !.want = size, !.arena = Base(b)]]
    BY <2>1
  <2>4. PICK l \in PC : pc' = [pc EXCEPT ![c] = l]
    BY <1>4, <1>16 DEF ReallocCheck, Window
  <2>5. spoilt' \in BOOLEAN /\ UNCHANGED <<mem, blk, masked>>
    BY <1>16 DEF ReallocCheck
  <2>6. QED
    BY <1>1, <2>2, <2>3, <2>4, <2>5, TypeKept
<1>17. CASE ReallocGrow(c)
  <2>1. mem' \in [Addr -> Nat]
    BY <1>1, <1>2, <1>17, Stores DEF ReallocGrow
  <2>2. blk' \in [Blocks -> [p : Nat, size : Nat] \union {NoBlock}]
    <3>1. blk' = [blk EXCEPT ![reg[c].b].size = reg[c].want]
      BY <1>17 DEF ReallocGrow
    <3>2. blk[reg[c].b] \in [p : Nat, size : Nat]
      BY <1>17, Pointers DEF ReallocGrow, InHand
    <3>3. QED
      BY <1>1, <1>2, <3>1, <3>2
  <2>3. spoilt' \in BOOLEAN /\ UNCHANGED masked
    BY <1>17 DEF ReallocGrow
  <2>4. QED
    BY <1>1, <1>17, <2>1, <2>2, <2>3, DoneTyped DEF ReallocGrow
<1>18. QED
  BY <1>5, <1>6, <1>7, <1>8, <1>9, <1>10, <1>11, <1>12, <1>13, <1>14, <1>15, <1>16, <1>17
     DEF Step, Malloc, Free, Realloc

-----------------------------------------------------------------------------
(***************************************************************************)
(* Headers and the functions over them, before and after a step.           *)
(***************************************************************************)
Headers == HEAP_START..HEAP_END - SizeofArena

LEMMA Cells == ASSUME NEW x \in Headers
  PROVE  /\ x \in Nat /\ x > 0 /\ x # HEAP_END
         /\ x \in Addr /\ x + 4 \in Addr /\ x + 8 \in Addr
         /\ Allocated(x) = mem[x] /\ Next_(x) = mem[x + 4] /\ Prev_(x) = mem[x + 8]
         /\ Allocated(x)' = mem'[x] /\ Next_(x)' = mem'[x + 4] /\ Prev_(x)' = mem'[x + 8]
         /\ AllocatedOf[x] = mem[x] /\ NextOf[x] = mem[x + 4] /\ BeforeOf[x] = Before(x)
         /\ AllocatedOf'[x] = mem'[x] /\ NextOf'[x] = mem'[x + 4] /\ BeforeOf'[x] = Before(x)'
<1>1. x \in Nat /\ x > 0 /\ x # HEAP_END /\ x \in Addr /\ x + 4 \in Addr /\ x + 8 \in Addr
  BY HeapAssumption DEF Headers, SizeofArena, Addr
<1>2. QED
  BY <1>1 DEF Allocated, Next_, Prev_, Load, Word, AllocatedOf, NextOf, BeforeOf

LEMMA CellsApart ==
  ASSUME NEW x \in Headers, NEW y \in Headers,
         x + SizeofArena <= y \/ y + SizeofArena <= x,
         NEW i \in {0, 4, 8}, NEW j \in {0, 4, 8}
  PROVE  x + i # y + j
<1>1. x \in Nat /\ y \in Nat
  BY Cells
<1>2. QED
  BY <1>1 DEF SizeofArena

\* At most one client keeps the back link of an arena in its registers.
LEMMA BeforeIs ==
  ASSUME NEW e \in Clients, \A d \in Clients \ {e} : pc[d] # "unlinkPrev", NEW a
  PROVE  Before(a) = IF pc[e] = "unlinkPrev" /\ reg[e].next = a THEN reg[e].prev ELSE Prev_(a)
  BY DEF Before

LEMMA BeforeIsThen ==
  ASSUME NEW e \in Clients, \A d \in Clients \ {e} : pc'[d] # "unlinkPrev", NEW a
  PROVE  Before(a)' = IF pc'[e] = "unlinkPrev" /\ reg'[e].next = a THEN reg'[e].prev ELSE Prev_(a)'
  BY DEF Before

LEMMA ArenasAre == ASSUME NEW x
  PROVE  /\ x \in Arenas <=> \/ x = HEAP_START
                             \/ \E b \in Held : Base(b) = x
                             \/ \E d \in Clients : Leaves(d) /\ reg[d].arena = x
         /\ x \in Arenas' <=> \/ x = HEAP_START
                              \/ \E b \in Held' : Base(b)' = x
                              \/ \E d \in Clients : Leaves(d)' /\ reg'[d].arena = x
  BY DEF Arenas, Leaving, Leaves

\* What the list says of an arena, in words of memory.
LEMMA ListedFacts == ASSUME TypeOK, Sound, NEW x \in Arenas
  PROVE  /\ x \in Headers /\ HEAP_START \in Arenas /\ HEAP_START \in Headers
         /\ mem[x] \in Nat /\ mem[x + 4] \in Nat /\ mem[x + 4] <= HEAP_END
         /\ x + SizeofArena + mem[x] <= mem[x + 4]
         /\ mem[x + 4] # HEAP_END =>
              mem[x + 4] \in Arenas /\ mem[x + 4] # HEAP_START /\ Before(mem[x + 4]) = x
         /\ x # HEAP_START => Before(x) \in Arenas /\ mem[Before(x) + 4] = x
         /\ \A y \in Arenas : y > x => y >= mem[x + 4]
         /\ Before(HEAP_START) = nullptr
<1>1. Listed(Arenas, AllocatedOf, NextOf, BeforeOf)
  BY DEF Sound
<1>2. /\ HEAP_START \in Arenas /\ BeforeOf[HEAP_START] = nullptr
      /\ \A y \in Arenas : y \in Headers
  BY <1>1 DEF Listed, Headers
<1>3. \A y \in Arenas : AllocatedOf[y] = mem[y] /\ NextOf[y] = mem[y + 4] /\ BeforeOf[y] = Before(y)
  BY <1>2, Cells
<1>4. /\ AllocatedOf[x] \in Nat /\ NextOf[x] \in Nat /\ NextOf[x] <= HEAP_END
      /\ x + SizeofArena + AllocatedOf[x] <= NextOf[x]
      /\ NextOf[x] # HEAP_END =>
           NextOf[x] \in Arenas /\ NextOf[x] # HEAP_START /\ BeforeOf[NextOf[x]] = x
      /\ x # HEAP_START => BeforeOf[x] \in Arenas /\ NextOf[BeforeOf[x]] = x
      /\ \A y \in Arenas : y > x => y >= NextOf[x]
  <2> HIDE DEF AllocatedOf, NextOf, BeforeOf
  <2>1. QED
    BY <1>1, Ordered
<1>5. QED
  BY <1>2, <1>3, <1>4

LEMMA ArenasApart == ASSUME Sound, NEW x \in Arenas, NEW y \in Arenas, x # y
  PROVE  x + SizeofArena <= y \/ y + SizeofArena <= x
<1>1. Listed(Arenas, AllocatedOf, NextOf, BeforeOf)
  BY DEF Sound
<1>2. QED
  BY <1>1, Apart

\* The room behind an arena, without the wrap of the subtraction.
LEMMA GapIs == ASSUME TypeOK, Sound, NEW x \in Arenas
  PROVE  /\ End(x) = x + SizeofArena + mem[x] /\ End(x) \in Nat /\ End(x) <= mem[x + 4]
         /\ Gap(x) = mem[x + 4] - End(x)
<1>1. /\ x \in Headers /\ mem[x] \in Nat /\ mem[x + 4] \in Nat
      /\ x + SizeofArena + mem[x] <= mem[x + 4]
  BY ListedFacts
<1>2. x \in Nat /\ Allocated(x) = mem[x] /\ Next_(x) = mem[x + 4]
  BY <1>1, Cells
<1>3. End(x) = x + SizeofArena + mem[x] /\ End(x) \in Nat /\ End(x) <= mem[x + 4]
  BY <1>1, <1>2 DEF End, SizeofArena
<1>4. QED
  BY <1>1, <1>2, <1>3 DEF Gap, Minus

\* As long as the first arena is unallocated there is no other.
LEMMA Alone == ASSUME TypeOK, Sound, mem[HEAP_START + 4] = HEAP_END
  PROVE  Arenas = {HEAP_START}
<1>1. HEAP_START \in Arenas
  BY DEF Arenas
<1>2. \A y \in Arenas : y > HEAP_START => y >= HEAP_END
  BY <1>1, ListedFacts
<1>3. \A y \in Arenas : HEAP_START <= y /\ y < HEAP_END /\ y \in Nat
  <2>1. \A y \in Arenas : y \in Headers
    BY ListedFacts
  <2>2. QED
    BY <2>1, HeapAssumption DEF Headers, SizeofArena
<1>4. \A y \in Arenas : y = HEAP_START
  BY <1>2, <1>3, HeapAssumption
<1>5. QED
  BY <1>1, <1>4

\* Every claim is to an arena on the list that is allocated.
LEMMA Unallocated == ASSUME TypeOK, Sound, mem[HEAP_START] = 0
  PROVE  Arenas = {HEAP_START} /\ Held = {} /\ \A d \in Clients : ~Leaves(d)
<1>1. HEAP_START \in Headers
  BY HeapAssumption DEF Headers, SizeofArena
<1>2. Allocated(HEAP_START) = mem[HEAP_START] /\ Next_(HEAP_START) = mem[HEAP_START + 4]
  BY <1>1, Cells
<1>3. Arenas = {HEAP_START}
  BY <1>2, Alone DEF Sound
<1>4. ASSUME NEW b \in Held PROVE FALSE
  <2>1. Base(b) = HEAP_START
    BY <1>3 DEF Arenas
  <2>2. blk[b].size \in Nat /\ 0 < blk[b].size /\ blk[b].size <= Allocated(Base(b))
    BY Pointers DEF Sound, Claimed
  <2>3. QED
    BY <1>2, <2>1, <2>2
<1>5. ASSUME NEW d \in Clients, Leaves(d) PROVE FALSE
  <2>1. reg[d].arena = HEAP_START
    BY <1>3, <1>5, ArenasAre
  <2>2. Allocated(reg[d].arena) > 0
    BY <1>5 DEF Sound, Claimed
  <2>3. QED
    BY <1>2, <2>1, <2>2
<1>6. QED
  BY <1>3, <1>4, <1>5

-----------------------------------------------------------------------------
(***************************************************************************)
(* Clients other than the one that moves.                                  *)
(***************************************************************************)
Outside == {"idle", "replace", "load"}
Lonely(c) == \A d \in Clients \ {c} : pc[d] \in Outside

\* A client that walks the list or edits it without intruding is alone there.
LEMMA AreLonely ==
  ASSUME TypeOK, Sound, NEW c \in Clients, Runs(c), pc[c] # "scan" => ~Intrudes(c)
  PROVE  Lonely(c)
<1> SUFFICES ASSUME NEW d \in Clients \ {c} PROVE pc[d] \in Outside
  BY DEF Lonely
<1>1. pc[d] # "scan"
  BY NamesAssumption DEF Runs, Sound, Exclusive
<1>2. pc[d] \notin Window
  BY DEF Sound, Exclusive, Intrudes
<1>3. QED
  BY <1>1, <1>2 DEF TypeOK, PC, Outside

LEMMA ExclusiveKept ==
  ASSUME TypeOK, Sound, NEW c \in Clients, Lonely(c), NEW l \in PC,
         pc' = [pc EXCEPT ![c] = l], masked' \in {NoClient, c}, l = "scan" <=> masked' = c
  PROVE  Exclusive'
<1>1. pc'[c] = l /\ \A d \in Clients \ {c} : pc'[d] \in Outside
  BY DEF TypeOK, Lonely
<1>2. \A d \in Clients : pc'[d] = "scan" <=> masked' = d
  BY <1>1, NamesAssumption DEF Outside
<1>3. \A d \in Clients \ {c} : pc'[d] \notin Window \union {"scan"}
  BY <1>1 DEF Outside, Window
<1>4. QED
  BY <1>2, <1>3 DEF Exclusive

\* A client that runs is the one that masked interrupts if it walks the list.
LEMMA MaskKept ==
  ASSUME Sound, NEW c \in Clients, Runs(c)
  PROVE  masked \in {NoClient, c} /\ (pc[c] = "scan" <=> masked = c)
  BY DEF Sound, Exclusive, Runs

LEMMA RegistersKept ==
  ASSUME TypeOK, Sound, NEW c \in Clients, Lonely(c),
         NEW l, pc' = [pc EXCEPT ![c] = l], NEW r, reg' = [reg EXCEPT ![c] = r],
         Registers(c)'
  PROVE  \A d \in Clients : Registers(d)'
<1> SUFFICES ASSUME NEW d \in Clients \ {c} PROVE Registers(d)'
  OBVIOUS
<1>1. pc'[d] = pc[d] /\ reg'[d] = reg[d] /\ pc[d] \in Outside
  BY DEF Lonely, TypeOK
<1>2. Registers(d)
  BY DEF Sound
<1>3. pc'[d] \notin {"scan", "grow", "unlinkNext", "unlinkPrev", "clear"}
  BY <1>1 DEF Outside
<1>4. QED
  BY <1>1, <1>2, <1>3 DEF Registers

LEMMA HandKept ==
  ASSUME TypeOK, NEW c \in Clients, NEW l, pc' = [pc EXCEPT ![c] = l],
         NEW r, reg' = [reg EXCEPT ![c] = r], l \in {"replace", "grow"} => r.b \in Held',
         \A d \in Clients \ {c} : pc[d] \in {"replace", "grow"} => reg[d].b \in Held'
  PROVE  InHand'
<1>1. /\ pc'[c] = l /\ reg'[c] = r
      /\ \A d \in Clients \ {c} : pc'[d] = pc[d] /\ reg'[d] = reg[d]
  BY DEF TypeOK
<1>2. QED
  BY <1>1 DEF InHand

\* A block that malloc returns is held, and no other is given up.
LEMMA ReturnHeld ==
  ASSUME TypeOK, NEW c \in Clients, NEW b \in Blocks, NEW a \in Nat, NEW size \in Nat,
         Return(c, b, a, size)
  PROVE  /\ Held' = Held \union {b} /\ Base(b)' = a /\ blk'[b].size = size
         /\ \A d \in Held \ {b} : blk'[d] = blk[d] /\ Base(d)' = Base(d)
<1>1. blk' = [blk EXCEPT ![b] = [p |-> a + SizeofArena, size |-> size]]
  BY DEF Return
<1>2. [p |-> a + SizeofArena, size |-> size] \in [p : Nat, size : Nat]
  BY DEF SizeofArena
<1>3. blk'[b] = [p |-> a + SizeofArena, size |-> size] /\ \A d \in Blocks \ {b} : blk'[d] = blk[d]
  BY <1>1 DEF TypeOK
<1>4. blk'[b] # NoBlock
  BY <1>2, <1>3, NamesAssumption
<1>5. Held' = Held \union {b}
  BY <1>3, <1>4 DEF Held
<1>6. Base(b)' = a
  BY <1>3 DEF Base, SizeofArena
<1>7. \A d \in Held \ {b} : blk'[d] = blk[d] /\ Base(d)' = Base(d)
  BY <1>3 DEF Base, Held
<1>8. QED
  BY <1>3, <1>5, <1>6, <1>7

\* A block that realloc resizes in place is held and stays where it is.
LEMMA ResizeHeld ==
  ASSUME TypeOK, NEW b \in Held, NEW size \in Nat, blk' = [blk EXCEPT ![b].size = size]
  PROVE  /\ Held' = Held /\ \A d \in Held : Base(d)' = Base(d)
         /\ blk'[b].size = size /\ \A d \in Held \ {b} : blk'[d] = blk[d]
<1>1. blk[b] \in [p : Nat, size : Nat] /\ b \in Blocks
  BY Pointers DEF Held
<1>2. /\ blk'[b] \in [p : Nat, size : Nat] /\ blk'[b].p = blk[b].p /\ blk'[b].size = size
      /\ \A d \in Blocks \ {b} : blk'[d] = blk[d]
  BY <1>1 DEF TypeOK
<1>3. blk'[b] # NoBlock
  BY <1>2, NamesAssumption
<1>4. QED
  BY <1>2, <1>3 DEF Held, Base

LEMMA InHandStep == ASSUME TypeOK, InHand, NEW c \in Clients, Step(c) PROVE InHand'
<1>1. /\ reg[c].b \in Blocks /\ reg[c].want \in Nat /\ reg[c].cand \in Nat
      /\ \A d \in Clients : pc[d] \in {"replace", "grow"} => reg[d].b \in Held
  BY DEF TypeOK, InHand
<1>2. ASSUME NEW b \in Blocks, NEW a \in Nat, NEW size \in Nat, Return(c, b, a, size)
      PROVE InHand'
  <2>1. Held \subseteq Held'
    BY <1>2, ReturnHeld
  <2>2. PICK l, r : /\ pc' = [pc EXCEPT ![c] = l] /\ reg' = [reg EXCEPT ![c] = r]
                    /\ l \notin {"replace", "grow"}
    BY <1>2 DEF Return, Done
  <2>3. QED
    BY <1>1, <2>1, <2>2, HandKept
<1>3. CASE MallocFirst(c)
  <2>1. PICK b \in Blocks, size \in Sizes \union NewSizes : Return(c, b, HEAP_START, size)
    BY <1>3 DEF MallocFirst
  <2>2. HEAP_START \in Nat /\ size \in Nat
    BY SizeFacts, HeapAssumption
  <2>3. QED
    BY <1>2, <2>1, <2>2
<1>4. CASE Insert(c)
  <2>1. Return(c, reg[c].b, End(reg[c].cand), reg[c].want)
    BY <1>4 DEF Insert
  <2>2. End(reg[c].cand) \in Nat
    BY <1>1, Loads DEF End, Allocated, SizeofArena
  <2>3. QED
    BY <1>1, <1>2, <2>1, <2>2
<1>5. CASE FreeBegin(c)
  <2>1. PICK b \in Blocks : /\ Usable(b) /\ blk' = [blk EXCEPT ![b] = NoBlock]
                            /\ reg' = [reg EXCEPT ![c].arena = Base(b)]
    BY <1>5 DEF FreeBegin
  <2>2. reg' = [reg EXCEPT ![c] = [reg[c] EXCEPT !.arena = Base(b)]]
    BY <2>1
  <2>3. pc' = [pc EXCEPT ![c] = "load"]
    BY <1>5 DEF FreeBegin
  <2>4. Held' = Held \ {b}
    BY <2>1 DEF Held, TypeOK
  <2>5. \A d \in Clients \ {c} : pc[d] \in {"replace", "grow"} => reg[d].b \in Held'
    BY <1>1, <2>1, <2>4 DEF Usable
  <2>6. "load" \notin {"replace", "grow"}
    OBVIOUS
  <2>7. QED
    BY <2>2, <2>3, <2>5, <2>6, HandKept
<1>6. CASE ReallocShrink(c)
  <2>1. PICK b \in Blocks, size \in NewSizes : b \in Held /\ blk' = [blk EXCEPT ![b].size = size]
    BY <1>6 DEF ReallocShrink, ReallocCalled, Usable
  <2>2. Held' = Held
    BY <2>1, SizeFacts, ResizeHeld
  <2>3. QED
    BY <1>6, <2>2 DEF InHand, ReallocShrink
<1>7. CASE ReallocCheck(c)
  <2>1. PICK b \in Blocks, size \in NewSizes :
          /\ b \in Held
          /\ reg' = [reg EXCEPT ![c].b = b, ![c].want = size, ![c].arena = Base(b)]
    BY <1>7 DEF ReallocCheck, ReallocCalled, Usable
  <2> DEFINE r == [reg[c] EXCEPT !.b = b, !.want = size, !.arena = Base(b)]
  <2>2. r.b = b
    BY DEF TypeOK
  <2>3. reg' = [reg EXCEPT ![c] = r]
    BY <2>1
  <2> HIDE DEF r
  <2>4. Held' = Held
    BY <1>7 DEF ReallocCheck, Held
  <2>5. PICK l : pc' = [pc EXCEPT ![c] = l]
    BY <1>7 DEF ReallocCheck
  <2>6. QED
    BY <1>1, <2>1, <2>2, <2>3, <2>4, <2>5, HandKept
<1>8. CASE ReallocGrow(c)
  <2>1. reg[c].b \in Held /\ blk' = [blk EXCEPT ![reg[c].b].size = reg[c].want]
    BY <1>1, <1>8 DEF ReallocGrow
  <2>2. Held' = Held
    BY <1>1, <2>1, ResizeHeld
  <2>3. pc' = [pc EXCEPT ![c] = "idle"] /\ reg' = [reg EXCEPT ![c] = NoReg]
    BY <1>8 DEF ReallocGrow, Done
  <2>4. "idle" \notin {"replace", "grow"}
    OBVIOUS
  <2>5. QED
    BY <1>1, <2>2, <2>3, <2>4, HandKept
<1>9. CASE MallocBegin(c) \/ Scan(c) \/ OutOfMemory(c) \/ FreeLoad(c)
            \/ FreeUnlinkNext(c) \/ FreeUnlinkPrev(c) \/ FreeClear(c)
  <2>1. Held' = Held
    BY <1>9 DEF Held, MallocBegin, Scan, OutOfMemory, FreeLoad, FreeUnlinkNext, FreeUnlinkPrev, FreeClear
  <2>2. /\ \A d \in Clients \ {c} : pc'[d] = pc[d] /\ reg'[d] = reg[d]
        /\ pc'[c] \notin {"replace", "grow"}
    BY <1>9 DEF MallocBegin, Scan, OutOfMemory, FreeLoad, FreeUnlinkNext, FreeUnlinkPrev,
                FreeClear, Done, ThenPrev, TypeOK
  <2>3. QED
    BY <1>1, <2>1, <2>2 DEF InHand
<1>10. QED
  BY <1>3, <1>4, <1>5, <1>6, <1>7, <1>8, <1>9 DEF Step, Malloc, Free, Realloc

-----------------------------------------------------------------------------
(***************************************************************************)
(* The list and the claims after a step.                                   *)
(***************************************************************************)
LEMMA ListKept ==
  ASSUME TypeOK, Sound, Arenas' = Arenas,
         \A x \in Arenas :
           /\ mem'[x] = mem[x] \/ (mem'[x] \in Nat /\ x + SizeofArena + mem'[x] <= mem[x + 4])
           /\ mem'[x + 4] = mem[x + 4] /\ Before(x)' = Before(x)
  PROVE  Listed(Arenas', AllocatedOf', NextOf', BeforeOf')
<1> DEFINE A == Arenas
           S == AllocatedOf
           N == NextOf
           B == BeforeOf
           S2 == AllocatedOf'
           N2 == NextOf'
           B2 == BeforeOf'
<1>1. Listed(A, S, N, B)
  BY DEF Sound
<1>2. \A x \in A : x \in Headers
  BY ListedFacts
<1>3. ASSUME NEW x \in A
      PROVE  S2[x] \in Nat /\ x + SizeofArena + S2[x] <= N[x] /\ N2[x] = N[x] /\ B2[x] = B[x]
  <2>1. /\ S2[x] = mem'[x] /\ N2[x] = mem'[x + 4] /\ B2[x] = Before(x)'
        /\ N[x] = mem[x + 4] /\ B[x] = Before(x)
    BY <1>2, Cells
  <2>2. mem[x] \in Nat /\ x + SizeofArena + mem[x] <= mem[x + 4]
    BY ListedFacts
  <2>3. QED
    BY <2>1, <2>2
<1> HIDE DEF A, S, N, B, S2, N2, B2
<1>4. Listed(A, S2, N2, B2)
  BY <1>1, <1>3, Resized
<1>5. QED
  BY <1>4 DEF A, S2, N2, B2

\* Without a client about to store a back link, the words in memory are it.
LEMMA PlainBefore ==
  ASSUME NEW c \in Clients, Lonely(c), pc[c] # "unlinkPrev"
  PROVE  \A x : Before(x) = Prev_(x)
<1>1. \A d \in Clients \ {c} : pc[d] # "unlinkPrev"
  BY DEF Lonely, Outside
<1>2. QED
  BY <1>1, BeforeIs

LEMMA PlainBeforeThen ==
  ASSUME TypeOK, NEW c \in Clients, Lonely(c), NEW l, pc' = [pc EXCEPT ![c] = l], l # "unlinkPrev"
  PROVE  \A x : Before(x)' = Prev_(x)'
<1>1. pc'[c] = l /\ \A d \in Clients \ {c} : pc'[d] # "unlinkPrev"
  BY DEF Lonely, Outside, TypeOK
<1>2. QED
  BY <1>1, BeforeIsThen

\* Claims that no step touched.
LEMMA ClaimsKept ==
  ASSUME TypeOK, Sound, Held' = Held, \A b \in Held : Base(b)' = Base(b),
         \A b \in Held : 0 < blk'[b].size /\ blk'[b].size <= Allocated(Base(b))',
         \A d \in Clients : Leaves(d)' =>
           Leaves(d) /\ reg'[d].arena = reg[d].arena /\ Allocated(reg[d].arena)' > 0
  PROVE  Claimed'
<1>1. Claimed
  BY DEF Sound
<1>2. \A b \in Held' : 0 < blk'[b].size /\ blk'[b].size <= Allocated(Base(b))'
  OBVIOUS
<1>3. \A d \in Clients : Leaves(d)' => Allocated(reg[d].arena)' > 0 /\ reg'[d].arena = reg[d].arena
  OBVIOUS
<1>4. \A b, d \in Held' : b # d => Base(b)' # Base(d)'
  BY <1>1 DEF Claimed
<1>5. \A b \in Held', d \in Clients : Leaves(d)' => Base(b)' # reg'[d].arena
  BY <1>1 DEF Claimed
<1>6. \A d, e \in Clients : d # e /\ Leaves(d)' /\ Leaves(e)' => reg'[d].arena # reg'[e].arena
  BY <1>1 DEF Claimed
<1>7. QED
  BY <1>2, <1>3, <1>4, <1>5, <1>6 DEF Claimed

LEMMA ArenasKept ==
  ASSUME Held' = Held, \A b \in Held : Base(b)' = Base(b),
         \A d \in Clients : /\ Leaves(d)' <=> Leaves(d)
                            /\ Leaves(d) => reg'[d].arena = reg[d].arena
  PROVE  Arenas' = Arenas
<1>1. \A x : x \in Arenas' <=> x \in Arenas
  BY ArenasAre
<1>2. QED
  BY <1>1

\* Clients that do not move leave as before.
LEMMA OthersLeave ==
  ASSUME TypeOK, NEW c \in Clients, NEW l, pc' = [pc EXCEPT ![c] = l],
         NEW r, reg' = [reg EXCEPT ![c] = r]
  PROVE  /\ pc'[c] = l /\ reg'[c] = r
         /\ Leaves(c)' <=> l \in {"load", "unlinkNext"}
         /\ \A d \in Clients \ {c} : /\ pc'[d] = pc[d] /\ reg'[d] = reg[d]
                                     /\ Leaves(d)' <=> Leaves(d)
<1>1. /\ pc'[c] = l /\ reg'[c] = r
      /\ \A d \in Clients \ {c} : pc'[d] = pc[d] /\ reg'[d] = reg[d]
  BY DEF TypeOK
<1>2. QED
  BY <1>1 DEF Leaves

\* A step of a lonely client that leaves memory and blocks alone.
LEMMA QuietSound ==
  ASSUME TypeOK, Sound, NEW c \in Clients, Lonely(c), UNCHANGED <<mem, blk>>,
         NEW l \in PC, pc' = [pc EXCEPT ![c] = l], l # "unlinkPrev", pc[c] # "unlinkPrev",
         NEW r, reg' = [reg EXCEPT ![c] = r],
         masked' \in {NoClient, c}, l = "scan" <=> masked' = c,
         Leaves(c)' => Leaves(c) /\ reg'[c].arena = reg[c].arena,
         Arenas' = Arenas, Registers(c)'
  PROVE  Sound'
<1>1. Exclusive'
  BY ExclusiveKept
<1>2. \A x : Before(x)' = Before(x)
  <2>1. \A x : Before(x) = Prev_(x) /\ Before(x)' = Prev_(x)'
    BY PlainBefore, PlainBeforeThen
  <2>2. QED
    BY <2>1 DEF Prev_, Load
<1>3. Listed(Arenas, AllocatedOf, NextOf, BeforeOf)'
  <2>1. \A x \in Arenas : mem'[x] = mem[x] /\ mem'[x + 4] = mem[x + 4] /\ Before(x)' = Before(x)
    BY <1>2
  <2>2. QED
    BY <2>1, ListKept
<1>4. (Allocated(HEAP_START) = 0 => Next_(HEAP_START) = HEAP_END)'
  BY DEF Sound, Allocated, Next_, Load
<1>5. Claimed'
  <2>1. Held' = Held /\ \A b \in Held : Base(b)' = Base(b)
    BY DEF Held, Base
  <2>2. \A b \in Held : 0 < blk'[b].size /\ blk'[b].size <= Allocated(Base(b))'
    BY DEF Sound, Claimed, Base, Allocated, Load
  <2>3. \A d \in Clients : Leaves(d)' => Leaves(d) /\ reg'[d].arena = reg[d].arena
    BY OthersLeave
  <2>4. \A d \in Clients : Leaves(d)' => mem' = mem /\ Allocated(reg[d].arena) > 0
    BY <2>3 DEF Sound, Claimed
  <2>5. \A d \in Clients : Leaves(d)' => Allocated(reg[d].arena)' > 0
    BY <2>3, <2>4 DEF Allocated, Load
  <2>6. QED
    BY <2>1, <2>2, <2>3, <2>5, ClaimsKept
<1>6. \A d \in Clients : Registers(d)'
  BY RegistersKept
<1>7. QED
  BY <1>1, <1>3, <1>4, <1>5, <1>6 DEF Sound

-----------------------------------------------------------------------------
(***************************************************************************)
(* The steps of malloc.                                                    *)
(***************************************************************************)
LEMMA MallocBeginSound ==
  ASSUME TypeOK, Sound, NEW c \in Clients, MallocBegin(c), ~spoilt' PROVE Sound'
<1>1. PICK b \in Blocks, size \in Sizes \union NewSizes :
        /\ MallocCalled(c, b, size)
        /\ reg' = [reg EXCEPT ![c].b = b, ![c].want = size, ![c].cand = HEAP_START]
  BY DEF MallocBegin
<1>2. /\ UNCHANGED <<mem, blk>> /\ pc' = [pc EXCEPT ![c] = "scan"] /\ masked' = c
      /\ ~Intrudes(c) /\ Runs(c) /\ pc[c] \in {"idle", "replace"} /\ Allocated(HEAP_START) # 0
  BY <1>1 DEF MallocBegin, MallocCalled
<1> DEFINE r == [reg[c] EXCEPT !.b = b, !.want = size, !.cand = HEAP_START]
<1>3. reg' = [reg EXCEPT ![c] = r] /\ r.want = size /\ r.cand = HEAP_START
  BY <1>1 DEF TypeOK
<1> HIDE DEF r
<1>4. Lonely(c) /\ "scan" \in PC
  BY <1>2, AreLonely DEF PC
<1>5. pc'[c] = "scan" /\ reg'[c] = r /\ ~Leaves(c)' /\ ~Leaves(c)
  BY <1>2, <1>3, OthersLeave DEF Leaves
<1>6. Arenas' = Arenas
  <2>1. \A d \in Clients : (Leaves(d)' <=> Leaves(d)) /\ (Leaves(d) => reg'[d].arena = reg[d].arena)
    BY <1>2, <1>3, <1>5, OthersLeave
  <2>2. QED
    BY <1>2, <2>1, ArenasKept DEF Held, Base
<1>7. Registers(c)'
  <2>1. Allocated(HEAP_START)' # 0
    BY <1>2 DEF Allocated, Load
  <2>2. \A a \in Arenas : ~(a < HEAP_START)
    <3>1. \A a \in Arenas : a \in Headers
      BY ListedFacts
    <3>2. QED
      BY <3>1, HeapAssumption DEF Headers, SizeofArena
  <2>3. HEAP_START \in Arenas
    BY DEF Arenas
  <2>4. QED
    BY <1>3, <1>5, <1>6, <2>1, <2>2, <2>3 DEF Registers
<1>8. QED
  BY <1>2, <1>3, <1>4, <1>5, <1>6, <1>7, QuietSound

LEMMA ScanSound ==
  ASSUME TypeOK, Sound, NEW c \in Clients, Scan(c), ~spoilt' PROVE Sound'
<1> DEFINE k == reg[c].cand
           r == [reg[c] EXCEPT !.cand = Next_(k)]
<1>1. /\ UNCHANGED <<mem, blk, masked, pc>> /\ Runs(c) /\ pc[c] = "scan"
      /\ Gap(k) < Align(reg[c].want) /\ Next_(k) # HEAP_END
      /\ reg' = [reg EXCEPT ![c] = r]
  BY DEF Scan
<1>2. /\ r.want = reg[c].want /\ r.cand = Next_(k)
      /\ pc' = [pc EXCEPT ![c] = "scan"] /\ "scan" \in PC
  BY <1>1 DEF TypeOK, PC
<1>3. /\ k \in Arenas /\ \A a \in Arenas : a < k => Gap(a) < Align(reg[c].want)
      /\ Allocated(HEAP_START) # 0 /\ reg[c].want \in Sizes \union NewSizes
  BY <1>1 DEF Sound, Registers
<1> HIDE DEF r
<1>4. Lonely(c) /\ masked' = c
  BY <1>1, AreLonely, MaskKept
<1>5. reg'[c] = r /\ ~Leaves(c)' /\ ~Leaves(c)
  <2>1. reg'[c] = r /\ pc'[c] = "scan"
    BY <1>1, <1>2, OthersLeave
  <2>2. QED
    BY <1>1, <2>1 DEF Leaves
<1>6. Arenas' = Arenas
  <2>1. \A d \in Clients : (Leaves(d)' <=> Leaves(d)) /\ (Leaves(d) => reg'[d].arena = reg[d].arena)
    BY <1>1, <1>2, <1>5, OthersLeave
  <2>2. QED
    BY <1>1, <2>1, ArenasKept DEF Held, Base
<1>7. Registers(c)'
  <2>1. Next_(k) = mem[k + 4]
    BY <1>3, ListedFacts, Cells
  <2>2. Next_(k) \in Arenas
    BY <1>1, <1>3, <2>1, ListedFacts
  <2>3. ASSUME NEW a \in Arenas, a < Next_(k) PROVE Gap(a) < Align(reg[c].want)
    <3>1. a \in Nat /\ k \in Nat /\ Next_(k) \in Nat
      BY <1>3, <2>2, ListedFacts, Cells
    <3>2. ~(a > k)
      BY <1>3, <2>1, <2>3, <3>1, ListedFacts
    <3>3. a = k \/ a < k
      BY <3>1, <3>2
    <3>4. QED
      BY <1>1, <1>3, <3>3
  <2>4. \A a : Gap(a)' = Gap(a) /\ Allocated(a)' = Allocated(a)
    BY <1>1 DEF Gap, Allocated, Load, Next_, End, Minus
  <2>5. QED
    BY <1>1, <1>2, <1>3, <1>5, <1>6, <2>2, <2>3, <2>4 DEF Registers
<1>8. QED
  BY <1>1, <1>2, <1>4, <1>5, <1>6, <1>7, QuietSound

LEMMA OutOfMemorySound ==
  ASSUME TypeOK, Sound, NEW c \in Clients, OutOfMemory(c), ~spoilt' PROVE Sound'
<1>1. /\ UNCHANGED <<mem, blk>> /\ Runs(c) /\ pc[c] = "scan" /\ masked' = NoClient
      /\ pc' = [pc EXCEPT ![c] = "idle"] /\ reg' = [reg EXCEPT ![c] = NoReg]
  BY DEF OutOfMemory, Done
<1>2. Lonely(c) /\ "idle" \in PC /\ masked' # c
  BY <1>1, AreLonely, NamesAssumption DEF PC
<1>3. pc'[c] = "idle" /\ ~Leaves(c)' /\ ~Leaves(c)
  <2>1. pc'[c] = "idle"
    BY <1>1, OthersLeave
  <2>2. QED
    BY <1>1, <2>1 DEF Leaves
<1>4. Arenas' = Arenas
  <2>1. \A d \in Clients : (Leaves(d)' <=> Leaves(d)) /\ (Leaves(d) => reg'[d].arena = reg[d].arena)
    BY <1>1, <1>3, OthersLeave
  <2>2. QED
    BY <1>1, <2>1, ArenasKept DEF Held, Base
<1>5. Registers(c)'
  BY <1>3 DEF Registers
<1>6. QED
  BY <1>1, <1>2, <1>3, <1>4, <1>5, QuietSound

-----------------------------------------------------------------------------
(***************************************************************************)
(* The steps of free.                                                      *)
(***************************************************************************)
LEMMA FreeBeginSound ==
  ASSUME TypeOK, Sound, NEW c \in Clients, FreeBegin(c), InHand' PROVE Sound'
<1>1. PICK b \in Held : /\ blk' = [blk EXCEPT ![b] = NoBlock]
                        /\ reg' = [reg EXCEPT ![c].arena = Base(b)]
  BY DEF FreeBegin, Usable
<1>2. UNCHANGED <<mem, masked>> /\ pc' = [pc EXCEPT ![c] = "load"] /\ pc[c] = "idle"
  BY DEF FreeBegin
<1> DEFINE r == [reg[c] EXCEPT !.arena = Base(b)]
<1>3. reg' = [reg EXCEPT ![c] = r] /\ r.arena = Base(b)
  BY <1>1 DEF TypeOK
<1> HIDE DEF r
<1>4. /\ pc'[c] = "load" /\ reg'[c].arena = Base(b) /\ Leaves(c)' /\ ~Leaves(c)
      /\ \A d \in Clients \ {c} : pc'[d] = pc[d] /\ reg'[d] = reg[d] /\ (Leaves(d)' <=> Leaves(d))
  <2>1. /\ pc'[c] = "load" /\ reg'[c].arena = Base(b)
        /\ \A d \in Clients \ {c} : pc'[d] = pc[d] /\ reg'[d] = reg[d] /\ (Leaves(d)' <=> Leaves(d))
    BY <1>2, <1>3, OthersLeave
  <2>2. QED
    BY <1>2, <2>1 DEF Leaves
<1>5. /\ Held' = Held \ {b} /\ \A d \in Held' : blk'[d] = blk[d] /\ Base(d)' = Base(d)
  BY <1>1 DEF Held, TypeOK, Base
<1>6. Arenas' = Arenas
  <2>1. \A x : x \in Arenas' <=> x \in Arenas
    BY <1>4, <1>5, ArenasAre
  <2>2. QED
    BY <2>1
<1>7. \A a : /\ Allocated(a)' = Allocated(a) /\ Next_(a)' = Next_(a) /\ Prev_(a)' = Prev_(a)
             /\ End(a)' = End(a) /\ Gap(a)' = Gap(a)
  BY <1>2 DEF Allocated, Next_, Prev_, Load, End, Gap, Minus
<1>8. Exclusive'
  <2>1. \A d \in Clients : (pc'[d] = "scan" <=> pc[d] = "scan") /\ (pc'[d] \in Window <=> pc[d] \in Window)
    BY <1>2, <1>4 DEF Window
  <2>2. QED
    BY <1>2, <2>1 DEF Sound, Exclusive
<1>9. Claimed'
  <2>1. Claimed
    BY DEF Sound
  <2>2. \A d \in Held' : 0 < blk'[d].size /\ blk'[d].size <= Allocated(Base(d))'
    BY <1>2, <1>5, <2>1 DEF Claimed, Allocated, Load
  <2>3. \A d \in Clients : Leaves(d)' => Allocated(reg[d].arena)' > 0
    <3>1. \A d \in Clients : Leaves(d)' => Load(reg'[d].arena) > 0
      <4>1. blk[b].size \in Nat /\ 0 < blk[b].size /\ blk[b].size <= Load(Base(b)) /\ Load(Base(b)) \in Nat
        BY <2>1, Pointers, Loads DEF Claimed, Allocated
      <4>2. Load(Base(b)) > 0
        BY <4>1
      <4>3. QED
        BY <1>4, <2>1, <4>2 DEF Claimed, Allocated
    <3>2. QED
      BY <1>2, <3>1 DEF Allocated, Load
  <2>4. \A d, e \in Held' : d # e => Base(d)' # Base(e)'
    BY <1>5, <2>1 DEF Claimed
  <2>5. \A d \in Held', e \in Clients : Leaves(e)' => Base(d)' # reg'[e].arena
    BY <1>4, <1>5, <2>1 DEF Claimed
  <2>6. \A d, e \in Clients : d # e /\ Leaves(d)' /\ Leaves(e)' => reg'[d].arena # reg'[e].arena
    BY <1>4, <2>1 DEF Claimed
  <2>7. QED
    BY <2>2, <2>3, <2>4, <2>5, <2>6 DEF Claimed
<1>10. Listed(Arenas, AllocatedOf, NextOf, BeforeOf)'
  <2>1. PICK e \in Clients : \A d \in Clients \ {e} : pc[d] # "unlinkPrev"
    BY DEF Sound, Exclusive, Window
  <2>2. \A d \in Clients \ {e} : pc'[d] # "unlinkPrev"
    BY <1>2, <1>4, <2>1
  <2>3. \A x : Before(x)' = Before(x)
    <3>1. pc'[e] = "unlinkPrev" <=> pc[e] = "unlinkPrev"
      BY <1>2, <1>4
    <3>2. pc[e] = "unlinkPrev" => reg'[e] = reg[e]
      BY <1>2, <1>4
    <3>3. QED
      BY <1>7, <2>1, <2>2, <3>1, <3>2, BeforeIs, BeforeIsThen
  <2>4. QED
    BY <1>2, <1>6, <2>3, ListKept
<1>11. \A d \in Clients : Registers(d)'
  <2>1. Registers(c)'
    BY <1>4 DEF Registers
  <2>2. ASSUME NEW d \in Clients \ {c} PROVE Registers(d)'
    <3>1. Registers(d) /\ pc'[d] = pc[d] /\ reg'[d] = reg[d]
      BY <1>4 DEF Sound
    <3>2. \A a : OffList(a)' <=> OffList(a)
      BY <1>6 DEF OffList
    <3>3. pc[d] = "grow" => reg[d].b \in Held' /\ blk'[reg[d].b] = blk[reg[d].b]
      BY <1>5, <3>1 DEF InHand
    <3>4. pc[d] = "clear" /\ (\A e \in Held : Base(e) # HEAP_START) =>
            /\ \A e \in Held' : Base(e)' # HEAP_START
            /\ Base(b) # HEAP_START
      BY <1>5
    <3>5. pc[d] = "clear" /\ (\A e \in Held : Base(e) # HEAP_START)
            /\ (\A e \in Clients : Leaves(e) => reg[e].arena # HEAP_START) =>
          \A e \in Clients : Leaves(e)' => reg'[e].arena # HEAP_START
      BY <1>4, <3>4
    <3>6. /\ pc'[d] \in {"scan", "replace", "grow"} => reg'[d].want \in Sizes \union NewSizes
          /\ pc'[d] = "unlinkPrev" =>
               reg'[d].next \in Arenas' \ {HEAP_START} /\ reg'[d].prev \in Arenas' /\ OffList(reg[d].arena)'
      BY <1>6, <3>1, <3>2 DEF Registers
    <3>7. pc'[d] # "scan"
      BY <1>2, <1>4, <3>1, NamesAssumption DEF FreeBegin, Runs, Sound, Exclusive
    <3>8. pc'[d] = "grow" =>
            /\ reg'[d].arena = Base(reg[d].b)'
            /\ (End(reg[d].arena) + reg[d].want <= Next_(reg[d].arena))'
      <4>1. pc[d] = "grow" =>
              reg[d].arena = Base(reg[d].b) /\ End(reg[d].arena) + reg[d].want <= Next_(reg[d].arena)
        BY <3>1 DEF Registers
      <4>2. pc[d] = "grow" => (End(reg[d].arena) + reg[d].want <= Next_(reg[d].arena))'
        BY <1>2, <3>1, <4>1 DEF End, Next_, Allocated, Load
      <4>3. pc[d] = "grow" => Base(reg[d].b)' = Base(reg[d].b)
        BY <3>1, <3>3 DEF Base
      <4>4. QED
        BY <3>1, <4>1, <4>2, <4>3
    <3>9. pc'[d] = "unlinkNext" =>
            /\ reg'[d].arena # HEAP_START
            /\ (reg[d].prev = Prev_(reg[d].arena) /\ reg[d].next = Next_(reg[d].arena))'
      BY <1>2, <3>1 DEF Registers, Prev_, Next_, Load
    <3>10. pc'[d] = "clear" =>
             \/ OffList(reg[d].arena)'
             \/ /\ reg'[d].arena = HEAP_START /\ reg'[d].next = HEAP_END
                /\ Next_(HEAP_START)' = HEAP_END /\ \A e \in Held' : Base(e)' # HEAP_START
                /\ \A e \in Clients : Leaves(e)' => reg'[e].arena # HEAP_START
      BY <1>7, <3>1, <3>2, <3>4, <3>5 DEF Registers
    <3>11. QED
      BY <3>6, <3>7, <3>8, <3>9, <3>10 DEF Registers
  <2>3. QED
    BY <2>1, <2>2
<1>12. (Allocated(HEAP_START) = 0 => Next_(HEAP_START) = HEAP_END)'
  BY <1>7 DEF Sound
<1>13. QED
  BY <1>8, <1>9, <1>10, <1>11, <1>12 DEF Sound

\* Only the first arena has no predecessor.
LEMMA FirstHasNoPrev ==
  ASSUME TypeOK, Sound, NEW c \in Clients, Lonely(c), pc[c] # "unlinkPrev", NEW a \in Arenas
  PROVE  (Prev_(a) = nullptr <=> a = HEAP_START) /\ (a # HEAP_START => Prev_(a) \in Arenas)
<1>1. Before(a) = Prev_(a) /\ Before(HEAP_START) = Prev_(HEAP_START)
  BY PlainBefore
<1>2. Before(HEAP_START) = nullptr /\ (a # HEAP_START => Before(a) \in Arenas)
  BY ListedFacts
<1>3. \A y \in Arenas : y # nullptr
  <2>1. \A y \in Arenas : y \in Headers
    BY ListedFacts
  <2>2. QED
    BY <2>1, Cells DEF nullptr
<1>4. QED
  BY <1>1, <1>2, <1>3

LEMMA FreeLoadSound ==
  ASSUME TypeOK, Sound, NEW c \in Clients, FreeLoad(c), ~spoilt' PROVE Sound'
<1> DEFINE a == reg[c].arena
           r == [reg[c] EXCEPT !.prev = Prev_(a), !.next = Next_(a)]
<1>1. /\ UNCHANGED <<mem, blk, masked>> /\ Runs(c) /\ pc[c] = "load" /\ ~Intrudes(c)
      /\ a = HEAP_START => Next_(a) = HEAP_END
      /\ reg' = [reg EXCEPT ![c] = r]
      /\ pc' = [pc EXCEPT ![c] = IF Prev_(a) # nullptr THEN "unlinkNext" ELSE ThenPrev(Next_(a))]
  BY DEF FreeLoad
<1>2. r.arena = a /\ r.prev = Prev_(a) /\ r.next = Next_(a)
  BY DEF TypeOK
<1> HIDE DEF r
<1>3. Lonely(c)
  BY <1>1, AreLonely
<1>4. Leaves(c) /\ Allocated(a) > 0 /\ a \in Arenas
  <2>1. Leaves(c)
    BY <1>1 DEF Leaves
  <2>2. QED
    BY <2>1, ArenasAre DEF Sound, Claimed
<1>5. Prev_(a) = nullptr <=> a = HEAP_START
  BY <1>1, <1>3, <1>4, FirstHasNoPrev
<1>6. masked \in {NoClient, c} /\ masked # c
  BY <1>1, MaskKept
<1>7. \A x : /\ Allocated(x)' = Allocated(x) /\ Next_(x)' = Next_(x) /\ Prev_(x)' = Prev_(x)
  BY <1>1 DEF Allocated, Next_, Prev_, Load
<1>8. Held' = Held /\ \A b \in Held : Base(b)' = Base(b)
  BY <1>1 DEF Held, Base
<1>9. CASE a # HEAP_START
  <2>1. pc' = [pc EXCEPT ![c] = "unlinkNext"] /\ "unlinkNext" \in PC
    BY <1>1, <1>5, <1>9 DEF PC, Window
  <2>2. pc'[c] = "unlinkNext" /\ reg'[c] = r
    BY <1>1, <2>1, OthersLeave
  <2>3. Leaves(c)'
    BY <2>2 DEF Leaves
  <2>4. Arenas' = Arenas
    <3>1. \A d \in Clients \ {c} : (Leaves(d)' <=> Leaves(d)) /\ reg'[d] = reg[d]
      BY <1>1, <2>1, OthersLeave
    <3>2. reg'[c].arena = reg[c].arena
      BY <1>2, <2>2
    <3>3. QED
      BY <1>4, <1>8, <2>3, <3>1, <3>2, ArenasKept
  <2>5. Registers(c)'
    BY <1>2, <1>7, <1>9, <2>2 DEF Registers
  <2>6. QED
    BY <1>1, <1>2, <1>3, <1>4, <1>6, <2>1, <2>2, <2>4, <2>5, QuietSound
<1>10. CASE a = HEAP_START
  <2>1. pc' = [pc EXCEPT ![c] = "clear"] /\ "clear" \in PC
    BY <1>1, <1>5, <1>10 DEF PC, Window, ThenPrev
  <2>2. pc'[c] = "clear" /\ reg'[c] = r
    BY <1>1, <2>1, OthersLeave
  <2>3. ~Leaves(c)'
    BY <2>2 DEF Leaves
  <2>4. \A d \in Clients \ {c} : /\ Leaves(d)' <=> Leaves(d)
                                 /\ reg'[d] = reg[d]
    BY <1>1, <2>1, OthersLeave
  <2>5. Arenas' = Arenas
    <3>1. \A x : x \in Arenas' <=> x \in Arenas
      BY <1>8, <1>10, <2>3, <2>4, ArenasAre
    <3>2. QED
      BY <3>1
  <2>6. Registers(c)'
    <3>1. reg'[c].arena = HEAP_START /\ reg'[c].next = HEAP_END /\ Next_(HEAP_START)' = HEAP_END
      BY <1>1, <1>2, <1>7, <1>10, <2>2
    <3>2. \A b \in Held' : Base(b)' # HEAP_START
      BY <1>4, <1>8, <1>10 DEF Sound, Claimed
    <3>3. \A d \in Clients : Leaves(d)' => reg'[d].arena # HEAP_START
      BY <1>4, <1>10, <2>3, <2>4 DEF Sound, Claimed
    <3>4. QED
      BY <2>2, <3>1, <3>2, <3>3 DEF Registers
  <2>7. QED
    BY <1>1, <1>3, <1>6, <2>1, <2>3, <2>5, <2>6, QuietSound
<1>11. QED
  BY <1>9, <1>10

LEMMA ReallocCheckSound ==
  ASSUME TypeOK, Sound, NEW c \in Clients, ReallocCheck(c), ~spoilt' PROVE Sound'
<1>1. PICK b \in Held, size \in NewSizes :
        /\ reg' = [reg EXCEPT ![c].b = b, ![c].want = size, ![c].arena = Base(b)]
        /\ pc' = [pc EXCEPT ![c] = IF Gap(Base(b)) >= size THEN "grow" ELSE "replace"]
  BY DEF ReallocCheck, ReallocCalled, Usable
<1> DEFINE r == [reg[c] EXCEPT !.b = b, !.want = size, !.arena = Base(b)]
<1>2. reg' = [reg EXCEPT ![c] = r] /\ r.b = b /\ r.want = size /\ r.arena = Base(b)
  BY <1>1 DEF TypeOK
<1> HIDE DEF r
<1>3. UNCHANGED <<mem, blk, masked>> /\ Runs(c) /\ pc[c] = "idle" /\ ~Intrudes(c)
  BY DEF ReallocCheck, ReallocCalled
<1>4. PICK l \in {"grow", "replace"} : /\ pc' = [pc EXCEPT ![c] = l]
                                       /\ l = "grow" => Gap(Base(b)) >= size
  BY <1>1
<1>5. Lonely(c) /\ masked \in {NoClient, c} /\ masked # c /\ l \in PC
  BY <1>3, <1>4, AreLonely, MaskKept DEF PC, Window
<1>6. pc'[c] = l /\ reg'[c] = r
  BY <1>2, <1>4, OthersLeave
<1>7. ~Leaves(c)' /\ ~Leaves(c)
  BY <1>3, <1>6 DEF Leaves
<1>8. Arenas' = Arenas
  <2>1. \A d \in Clients : (Leaves(d)' <=> Leaves(d)) /\ (Leaves(d) => reg'[d].arena = reg[d].arena)
    BY <1>2, <1>4, <1>7, OthersLeave
  <2>2. QED
    BY <1>3, <2>1, ArenasKept DEF Held, Base
<1>9. Registers(c)'
  <2>1. Base(b) \in Arenas
    BY DEF Arenas
  <2>2. l = "grow" => End(Base(b)) + size <= Next_(Base(b))
    <3>1. /\ End(Base(b)) \in Nat /\ Gap(Base(b)) = mem[Base(b) + 4] - End(Base(b))
      BY <2>1, GapIs
    <3>2. mem[Base(b) + 4] \in Nat /\ Next_(Base(b)) = mem[Base(b) + 4]
      BY <2>1, ListedFacts, Cells
    <3>3. size \in Nat
      BY SizeFacts
    <3>4. QED
      BY <1>4, <3>1, <3>2, <3>3
  <2>3. l = "grow" => (End(reg[c].arena) + reg[c].want <= Next_(reg[c].arena))'
    BY <1>2, <1>3, <1>6, <2>2 DEF End, Next_, Allocated, Load
  <2>4. reg'[c].arena = Base(reg[c].b)'
    BY <1>2, <1>3, <1>6 DEF Base
  <2>5. QED
    BY <1>2, <1>6, <2>3, <2>4 DEF Registers
<1>10. QED
  BY <1>2, <1>3, <1>4, <1>5, <1>7, <1>8, <1>9, QuietSound

-----------------------------------------------------------------------------
(***************************************************************************)
(* The steps that give an arena another size.                              *)
(***************************************************************************)
LEMMA SizedSound ==
  ASSUME TypeOK, Sound, NEW c \in Clients, Lonely(c), pc[c] # "unlinkPrev",
         NEW x \in Arenas, NEW n \in Nat, n > 0, x + SizeofArena + n <= mem[x + 4],
         mem' = [mem EXCEPT ![x] = n], Arenas' = Arenas, Claimed',
         pc' = [pc EXCEPT ![c] = "idle"], NEW r, reg' = [reg EXCEPT ![c] = r],
         masked' \in {NoClient, c}, masked' # c
  PROVE  Sound'
<1>1. x \in Headers /\ \A y \in Arenas : y \in Headers
  BY ListedFacts
<1>2. \A y \in Headers : /\ mem'[y] = IF y = x THEN n ELSE mem[y]
                         /\ y \in Arenas => mem'[y + 4] = mem[y + 4] /\ mem'[y + 8] = mem[y + 8]
  <2>1. \A y \in Addr : mem'[y] = IF y = x THEN n ELSE mem[y]
    BY <1>1, Cells DEF TypeOK
  <2>2. ASSUME NEW y \in Arenas PROVE y + 4 # x /\ y + 8 # x
    <3>1. y \in Nat /\ x \in Nat
      BY <1>1, Cells
    <3>2. CASE x = y
      BY <3>1, <3>2
    <3>3. CASE x # y
      BY <3>1, <3>3, ArenasApart DEF SizeofArena
    <3>4. QED
      BY <3>2, <3>3
  <2>3. QED
    BY <2>1, <2>2, Cells
<1>3. \A y \in Arenas : Before(y)' = Before(y)
  <2>1. \A y : Before(y) = Prev_(y) /\ Before(y)' = Prev_(y)'
    BY PlainBefore, PlainBeforeThen
  <2>2. QED
    BY <1>1, <1>2, <2>1, Cells
<1>4. Listed(Arenas, AllocatedOf, NextOf, BeforeOf)'
  <2>1. \A y \in Arenas :
          mem'[y] = mem[y] \/ (mem'[y] \in Nat /\ y + SizeofArena + mem'[y] <= mem[y + 4])
    BY <1>1, <1>2
  <2>2. QED
    BY <1>1, <1>2, <1>3, <2>1, ListKept
<1>5. Exclusive'
  <2>1. "idle" \in PC
    BY DEF PC
  <2>2. QED
    BY <2>1, ExclusiveKept
<1>6. (Allocated(HEAP_START) = 0 => Next_(HEAP_START) = HEAP_END)'
  <2>1. HEAP_START \in Arenas
    BY DEF Arenas
  <2>2. mem[HEAP_START] = 0 => mem[HEAP_START + 4] = HEAP_END
    BY <1>1, <2>1, Cells DEF Sound
  <2>3. mem'[HEAP_START] = 0 => mem'[HEAP_START + 4] = HEAP_END
    BY <1>1, <1>2, <2>1, <2>2
  <2>4. QED
    BY <1>1, <2>1, <2>3, Cells
<1>7. \A d \in Clients : Registers(d)'
  <2>1. pc'[c] = "idle"
    BY OthersLeave
  <2>2. Registers(c)'
    BY <2>1 DEF Registers
  <2>3. QED
    BY <2>2, RegistersKept
<1>8. QED
  BY <1>4, <1>5, <1>6, <1>7 DEF Sound

\* A block resized in place, by a client that is not about to take one off.
LEMMA ResizeSound ==
  ASSUME TypeOK, Sound, NEW c \in Clients, Lonely(c), pc[c] \in {"idle", "grow"},
         NEW b \in Held, NEW n \in Nat, n > 0, Base(b) + SizeofArena + n <= mem[Base(b) + 4],
         mem' = [mem EXCEPT ![Base(b)] = n], blk' = [blk EXCEPT ![b].size = n],
         pc' = [pc EXCEPT ![c] = "idle"], NEW r, reg' = [reg EXCEPT ![c] = r],
         masked' \in {NoClient, c}, masked' # c
  PROVE  Sound'
<1>1. /\ Held' = Held /\ \A d \in Held : Base(d)' = Base(d)
      /\ blk'[b].size = n /\ \A d \in Held \ {b} : blk'[d] = blk[d]
  BY ResizeHeld
<1>2. \A x \in Arenas : x \in Headers
  BY ListedFacts
<1>3. Base(b) \in Arenas
  BY DEF Arenas
<1>4. pc'[c] = "idle" /\ ~Leaves(c)' /\ ~Leaves(c)
  <2>1. pc'[c] = "idle"
    BY OthersLeave
  <2>2. QED
    BY <2>1 DEF Leaves
<1>5. \A d \in Clients : (Leaves(d)' <=> Leaves(d)) /\ (Leaves(d) => reg'[d].arena = reg[d].arena)
  BY <1>4, OthersLeave
<1>6. Arenas' = Arenas
  BY <1>1, <1>5, ArenasKept
<1>7. \A x \in Arenas : mem'[x] = IF x = Base(b) THEN n ELSE mem[x]
  BY <1>2, <1>3, Cells DEF TypeOK
<1>8. Claimed'
  <2>1. Claimed
    BY DEF Sound
  <2>2. ASSUME NEW d \in Held PROVE 0 < blk'[d].size /\ blk'[d].size <= Allocated(Base(d))'
    <3>1. Base(d)' = Base(d) /\ Base(d) \in Arenas /\ Base(d) \in Headers
      BY <1>1, <1>2 DEF Arenas
    <3>2. Allocated(Base(d)) = mem[Base(d)] /\ Allocated(Base(d))' = mem'[Base(d)]
      <4>1. Allocated(Base(d)) = mem[Base(d)]
        BY <3>1, Cells
      <4>2. PICK y : y = Base(d)
        OBVIOUS
      <4>3. y \in Headers /\ Base(d)' = y
        BY <3>1, <4>2
      <4>4. Allocated(Base(d))' = mem'[y]
        <5>1. y \in Addr
          BY <4>3, Cells
        <5>2. QED
          BY <4>3, <5>1 DEF Allocated, Load, Word
      <4>5. QED
        BY <4>1, <4>2, <4>4
    <3>3. CASE d = b
      BY <1>1, <1>7, <3>1, <3>2, <3>3
    <3>4. CASE d # b
      <4>1. blk'[d] = blk[d] /\ Base(d) # Base(b)
        BY <1>1, <2>1, <3>4 DEF Claimed
      <4>2. 0 < blk[d].size /\ blk[d].size <= Allocated(Base(d))
        BY <2>1 DEF Claimed
      <4>3. QED
        BY <1>7, <3>1, <3>2, <4>1, <4>2
    <3>5. QED
      BY <3>3, <3>4
  <2>3. ASSUME NEW d \in Clients, Leaves(d)' PROVE Allocated(reg[d].arena)' > 0
    <3>1. Leaves(d) /\ reg'[d].arena = reg[d].arena
      BY <1>5, <2>3
    <3>2. PICK y : y = reg[d].arena
      OBVIOUS
    <3>3. y \in Arenas /\ y # Base(b) /\ Allocated(y) > 0
      BY <2>1, <3>1, <3>2, ArenasAre DEF Claimed
    <3>4. mem[y] > 0 /\ mem'[y] = mem[y] /\ y \in Addr
      BY <1>2, <1>7, <3>3, Cells
    <3>5. QED
      BY <3>1, <3>2, <3>4 DEF Allocated, Load, Word
  <2>4. QED
    BY <1>1, <1>5, <2>2, <2>3, ClaimsKept
<1>9. QED
  BY <1>3, <1>6, <1>8, SizedSound

LEMMA ReallocShrinkSound ==
  ASSUME TypeOK, Sound, NEW c \in Clients, ReallocShrink(c), ~spoilt' PROVE Sound'
<1>1. PICK b \in Held, size \in NewSizes :
        /\ Allocated(Base(b)) >= size
        /\ mem' = [mem EXCEPT ![Base(b)] = size] /\ blk' = [blk EXCEPT ![b].size = size]
  BY DEF ReallocShrink, ReallocCalled, Usable
<1>2. UNCHANGED <<masked, pc, reg>> /\ Runs(c) /\ pc[c] = "idle" /\ ~Intrudes(c)
  BY DEF ReallocShrink, ReallocCalled
<1>3. Lonely(c) /\ masked' \in {NoClient, c} /\ masked' # c
  BY <1>2, AreLonely, MaskKept
<1>4. pc' = [pc EXCEPT ![c] = "idle"] /\ reg' = [reg EXCEPT ![c] = reg[c]]
  BY <1>2 DEF TypeOK
<1>5. size \in Nat /\ size > 0
  BY SizeFacts
<1>6. Base(b) + SizeofArena + size <= mem[Base(b) + 4]
  <2>1. Base(b) \in Arenas
    BY DEF Arenas
  <2>2. /\ Base(b) \in Headers /\ mem[Base(b)] \in Nat /\ mem[Base(b) + 4] \in Nat
        /\ Base(b) + SizeofArena + mem[Base(b)] <= mem[Base(b) + 4]
    BY <2>1, ListedFacts
  <2>3. size <= mem[Base(b)] /\ Base(b) \in Nat
    BY <1>1, <2>2, Cells
  <2>4. QED
    BY <1>5, <2>2, <2>3 DEF SizeofArena
<1>7. QED
  BY <1>1, <1>2, <1>3, <1>4, <1>5, <1>6, ResizeSound

LEMMA ReallocGrowSound ==
  ASSUME TypeOK, InHand, Sound, NEW c \in Clients, ReallocGrow(c), ~spoilt' PROVE Sound'
<1> DEFINE b == reg[c].b
           n == reg[c].want
<1>1. /\ Runs(c) /\ pc[c] = "grow" /\ masked' = masked /\ ~Intrudes(c)
      /\ mem' = [mem EXCEPT ![reg[c].arena] = n] /\ blk' = [blk EXCEPT ![b].size = n]
      /\ pc' = [pc EXCEPT ![c] = "idle"] /\ reg' = [reg EXCEPT ![c] = NoReg]
  BY DEF ReallocGrow, Done
<1>2. /\ b \in Held /\ n \in Sizes \union NewSizes /\ reg[c].arena = Base(b)
      /\ End(Base(b)) + n <= Next_(Base(b))
  BY <1>1 DEF InHand, Sound, Registers
<1>3. Lonely(c) /\ masked' \in {NoClient, c} /\ masked' # c
  BY <1>1, AreLonely, MaskKept
<1>4. n \in Nat /\ n > 0
  BY <1>2, SizeFacts
<1>5. Base(b) + SizeofArena + n <= mem[Base(b) + 4]
  <2>1. Base(b) \in Arenas
    BY <1>2 DEF Arenas
  <2>2. Base(b) \in Headers /\ mem[Base(b)] \in Nat /\ mem[Base(b) + 4] \in Nat
    BY <2>1, ListedFacts
  <2>3. Base(b) \in Nat /\ Next_(Base(b)) = mem[Base(b) + 4]
    BY <2>2, Cells
  <2>4. End(Base(b)) = Base(b) + SizeofArena + mem[Base(b)]
    BY <2>1, GapIs
  <2>5. QED
    BY <1>2, <1>4, <2>2, <2>3, <2>4 DEF SizeofArena
<1> HIDE DEF b, n
<1>6. QED
  BY <1>1, <1>2, <1>3, <1>4, <1>5, ResizeSound

LEMMA MallocFirstSound ==
  ASSUME TypeOK, Sound, NEW c \in Clients, MallocFirst(c), ~spoilt' PROVE Sound'
<1>1. PICK b \in Blocks, size \in Sizes \union NewSizes :
        /\ Runs(c) /\ pc[c] \in {"idle", "replace"} /\ Allocated(HEAP_START) = 0
        /\ mem' = [mem EXCEPT ![HEAP_START] = Align(size)]
        /\ Return(c, b, HEAP_START, size)
        /\ masked' = masked /\ ~Intrudes(c)
        /\ ~(HEAP_START + SizeofArena + Align(size) > Next_(HEAP_START))
  BY DEF MallocFirst, MallocCalled
<1> DEFINE n == Align(size)
<1>2. HEAP_START \in Arenas /\ HEAP_START \in Headers
  <2>1. HEAP_START \in Arenas
    BY DEF Arenas
  <2>2. QED
    BY <2>1, ListedFacts
<1>3. /\ size \in Nat /\ 0 < size /\ n \in Nat /\ size <= n
      /\ HEAP_START \in Nat /\ mem[HEAP_START] = 0
      /\ HEAP_START + SizeofArena + n <= mem[HEAP_START + 4]
  <2>1. /\ size \in Nat /\ 0 < size /\ n \in Nat /\ size <= n /\ HEAP_START \in Nat
    BY SizeFacts, HeapAssumption
  <2>2. mem[HEAP_START] = 0 /\ Next_(HEAP_START) = mem[HEAP_START + 4] /\ mem[HEAP_START + 4] \in Nat
    BY <1>1, <1>2, ListedFacts, Cells
  <2>3. QED
    BY <1>1, <2>1, <2>2 DEF SizeofArena
<1>4. Arenas = {HEAP_START} /\ Held = {} /\ \A d \in Clients : ~Leaves(d)
  BY <1>3, Unallocated
<1>5. pc' = [pc EXCEPT ![c] = "idle"] /\ reg' = [reg EXCEPT ![c] = NoReg]
  BY <1>1, <1>4 DEF Return, Done
<1>6. Held' = {b} /\ Base(b)' = HEAP_START /\ blk'[b].size = size
  BY <1>1, <1>3, <1>4, ReturnHeld
<1>7. \A d \in Clients : ~Leaves(d)'
  <2>1. pc'[c] = "idle" /\ \A d \in Clients \ {c} : Leaves(d)' <=> Leaves(d)
    BY <1>5, OthersLeave
  <2>2. ~Leaves(c)'
    BY <2>1 DEF Leaves
  <2>3. QED
    BY <1>4, <2>1, <2>2
<1>8. Arenas' = Arenas
  <2>1. \A x : x \in Arenas' <=> x = HEAP_START
    BY <1>6, <1>7, ArenasAre
  <2>2. QED
    BY <1>4, <2>1
<1>9. mem'[HEAP_START] = n
  BY <1>1, <1>2, Cells DEF TypeOK
<1>10. Claimed'
  <2>1. Allocated(Base(b))' = n
    <3>1. HEAP_START \in Addr
      BY <1>2, Cells
    <3>2. QED
      BY <1>6, <1>9, <3>1 DEF Allocated, Load, Word
  <2>2. \A d \in Held' : d = b
    BY <1>6
  <2>3. QED
    BY <1>3, <1>6, <1>7, <2>1, <2>2 DEF Claimed
<1>11. Lonely(c) /\ masked' \in {NoClient, c} /\ masked' # c /\ pc[c] # "unlinkPrev"
  BY <1>1, AreLonely, MaskKept
<1>12. n > 0
  BY <1>3
<1> HIDE DEF n
<1>13. mem' = [mem EXCEPT ![HEAP_START] = n]
  BY <1>1 DEF n
<1>14. QED
  BY <1>2, <1>3, <1>5, <1>8, <1>10, <1>11, <1>12, <1>13, SizedSound

-----------------------------------------------------------------------------
(***************************************************************************)
(* Taking an arena off the list.                                           *)
(***************************************************************************)
\* Claims where no arena on the list took another size.
LEMMA ClaimsStay ==
  ASSUME TypeOK, Sound, Held' = Held, \A b \in Held : blk'[b] = blk[b],
         \A x \in Arenas : mem'[x] = mem[x],
         \A d \in Clients : Leaves(d)' => Leaves(d) /\ reg'[d].arena = reg[d].arena
  PROVE  Claimed'
<1>1. \A b \in Held : Base(b)' = Base(b)
  BY DEF Base
<1>2. ASSUME NEW y \in Arenas PROVE Load(y) = mem[y] /\ Load(y)' = mem[y]
  <2>1. y \in Addr
    BY ListedFacts, Cells
  <2>2. QED
    BY <2>1 DEF Load, Word
<1>3. ASSUME NEW b \in Held PROVE 0 < blk'[b].size /\ blk'[b].size <= Allocated(Base(b))'
  <2>1. PICK y : y = Base(b)
    OBVIOUS
  <2>2. y \in Arenas
    BY <2>1 DEF Arenas
  <2>3. 0 < blk[b].size /\ blk[b].size <= Allocated(Base(b))
    BY DEF Sound, Claimed
  <2>4. Base(b)' = y
    BY <1>1, <2>1
  <2>5. QED
    BY <1>2, <2>1, <2>2, <2>3, <2>4 DEF Allocated
<1>4. ASSUME NEW d \in Clients, Leaves(d)' PROVE Allocated(reg[d].arena)' > 0
  <2>1. PICK y : y = reg[d].arena
    OBVIOUS
  <2>2. y \in Arenas /\ Allocated(y) > 0 /\ reg'[d].arena = y
    BY <1>4, <2>1, ArenasAre DEF Sound, Claimed
  <2>3. QED
    BY <1>2, <2>1, <2>2 DEF Allocated
<1>5. QED
  BY <1>1, <1>3, <1>4, ClaimsKept

LEMMA FreeUnlinkNextSound ==
  ASSUME TypeOK, Sound, NEW c \in Clients, FreeUnlinkNext(c), ~spoilt' PROVE Sound'
<1> DEFINE a == reg[c].arena
           p == reg[c].prev
           n == reg[c].next
           m == [mem EXCEPT ![p + 4] = n]
           r == [reg[c] EXCEPT !.prev = Word(m, a + 8), !.next = Word(m, a + 4)]
<1>1. /\ Runs(c) /\ pc[c] = "unlinkNext" /\ ~Intrudes(c) /\ UNCHANGED <<blk, masked>>
      /\ mem' = m /\ reg' = [reg EXCEPT ![c] = r]
      /\ pc' = [pc EXCEPT ![c] = ThenPrev(Word(m, a + 4))]
  BY DEF FreeUnlinkNext
<1>2. Leaves(c) /\ a # HEAP_START /\ p = Prev_(a) /\ n = Next_(a) /\ a \in Arenas
  <2>1. Leaves(c)
    BY <1>1 DEF Leaves
  <2>2. QED
    BY <1>1, <2>1, ArenasAre DEF Sound, Registers
<1>3. Lonely(c) /\ masked' \in {NoClient, c} /\ masked' # c
  BY <1>1, AreLonely, MaskKept
<1>4. \A x \in Arenas : x \in Headers
  BY ListedFacts
<1>5. /\ p \in Arenas /\ p = mem[a + 8] /\ n = mem[a + 4] /\ mem[p + 4] = a
      /\ n # HEAP_END => n \in Arenas /\ n # HEAP_START /\ Before(n) = a
  <2>1. p \in Arenas
    BY <1>1, <1>2, <1>3, FirstHasNoPrev
  <2>2. p = mem[a + 8] /\ n = mem[a + 4]
    BY <1>2, <1>4, Cells
  <2>3. p = Before(a)
    BY <1>1, <1>2, <1>3, PlainBefore
  <2>4. QED
    BY <1>2, <2>1, <2>2, <2>3, ListedFacts
<1>6. p # a /\ n # a
  <2>1. a \in Nat /\ p \in Nat /\ mem[a] \in Nat /\ mem[p] \in Nat
    BY <1>2, <1>4, <1>5, ListedFacts, Cells
  <2>2. p + SizeofArena + mem[p] <= a /\ a + SizeofArena + mem[a] <= n /\ n \in Nat
    BY <1>2, <1>5, ListedFacts
  <2>3. QED
    BY <2>1, <2>2 DEF SizeofArena
\* The store reaches the successor of p and nothing else of the list.
<1>7. ASSUME NEW x \in Arenas
      PROVE  m[x] = mem[x] /\ m[x + 8] = mem[x + 8] /\ m[x + 4] = IF x = p THEN n ELSE mem[x + 4]
  <2>1. x \in Headers /\ p \in Headers
    BY <1>4, <1>5
  <2>2. x \in Addr /\ x + 4 \in Addr /\ x + 8 \in Addr /\ x \in Nat /\ p \in Nat
    BY <2>1, Cells
  <2>3. \A y \in Addr : m[y] = IF y = p + 4 THEN n ELSE mem[y]
    BY DEF TypeOK
  <2>4. x # p + 4 /\ x + 8 # p + 4 /\ (x + 4 = p + 4 <=> x = p)
    <3>1. CASE x = p
      BY <2>2, <3>1
    <3>2. CASE x # p
      BY <1>5, <2>2, <3>2, ArenasApart DEF SizeofArena
    <3>3. QED
      BY <3>1, <3>2
  <2>5. QED
    BY <2>2, <2>3, <2>4
<1>8. r.arena = a /\ r.prev = p /\ r.next = n /\ Word(m, a + 4) = n
  <2>1. m[a + 8] = p /\ m[a + 4] = n /\ a + 4 \in Addr /\ a + 8 \in Addr
    BY <1>2, <1>4, <1>5, <1>6, <1>7, Cells
  <2>2. Word(m, a + 8) = p /\ Word(m, a + 4) = n
    BY <2>1 DEF Word
  <2>3. QED
    BY <2>2 DEF TypeOK
<1>9. mem' = m
  BY <1>1
<1> HIDE DEF m, r
<1>10. /\ pc'[c] = ThenPrev(n) /\ reg'[c] = r /\ ~Leaves(c)'
       /\ \A d \in Clients \ {c} : pc'[d] = pc[d] /\ reg'[d] = reg[d] /\ (Leaves(d)' <=> Leaves(d))
  <2>1. /\ pc'[c] = ThenPrev(n) /\ reg'[c] = r
        /\ \A d \in Clients \ {c} : pc'[d] = pc[d] /\ reg'[d] = reg[d] /\ (Leaves(d)' <=> Leaves(d))
    BY <1>1, <1>8, OthersLeave
  <2>2. QED
    BY <2>1 DEF Leaves, ThenPrev
<1>11. Held' = Held /\ \A b \in Held : blk'[b] = blk[b] /\ Base(b)' = Base(b)
  BY <1>1 DEF Held, Base
<1>12. Arenas' = Arenas \ {a}
  <2>1. \A b \in Held : Base(b) # a
    BY <1>2 DEF Sound, Claimed
  <2>2. \A d \in Clients \ {c} : Leaves(d) => reg[d].arena # a
    BY <1>2 DEF Sound, Claimed
  <2>3. \A x : x \in Arenas' <=> x \in Arenas /\ x # a
    BY <1>2, <1>10, <1>11, <2>1, <2>2, ArenasAre
  <2>4. QED
    BY <2>3
<1>13. \A x \in Arenas :
          Before(x)' = IF n # HEAP_END /\ x = n THEN p ELSE mem[x + 8]
  <2>1. \A d \in Clients \ {c} : pc'[d] # "unlinkPrev"
    BY <1>3, <1>10 DEF Lonely, Outside
  <2>2. \A x : Before(x)' = IF pc'[c] = "unlinkPrev" /\ reg'[c].next = x THEN reg'[c].prev ELSE Prev_(x)'
    BY <2>1, BeforeIsThen
  <2>3. \A x \in Arenas : Prev_(x)' = mem[x + 8]
    BY <1>4, <1>7, <1>9, Cells
  <2>4. pc'[c] = "unlinkPrev" <=> n # HEAP_END
    BY <1>10 DEF ThenPrev
  <2>5. reg'[c].next = n /\ reg'[c].prev = p
    BY <1>8, <1>10
  <2>6. QED
    BY <2>2, <2>3, <2>4, <2>5
<1>14. Listed(Arenas, AllocatedOf, NextOf, BeforeOf)'
  <2> DEFINE A == Arenas
             S == AllocatedOf
             N == NextOf
             B == BeforeOf
             S2 == AllocatedOf'
             N2 == NextOf'
             B2 == BeforeOf'
  <2>1. Listed(A, S, N, B)
    BY DEF Sound
  <2>2. \A x \in A : /\ S[x] = mem[x] /\ N[x] = mem[x + 4] /\ B[x] = Before(x)
                     /\ S2[x] = mem'[x] /\ N2[x] = mem'[x + 4] /\ B2[x] = Before(x)'
    BY <1>4, Cells
  <2>3. \A x \in A : Before(x) = mem[x + 8]
    <3>1. \A x : Before(x) = Prev_(x)
      BY <1>1, <1>3, PlainBefore
    <3>2. QED
      BY <1>4, <3>1, Cells
  <2>4. B[a] = p /\ N[a] = n
    BY <1>2, <1>5, <2>2, <2>3
  <2>5. \A x \in A : x # a => S2[x] = S[x]
    BY <1>7, <1>9, <2>2
  <2>6. N2[B[a]] = N[a] /\ \A x \in A : x # a /\ x # B[a] => N2[x] = N[x]
    BY <1>5, <1>7, <1>9, <2>2, <2>4
  <2>7. N[a] # HEAP_END => B2[N[a]] = B[a]
    BY <1>5, <1>13, <2>2, <2>4
  <2>8. \A x \in A : x # a /\ x # N[a] => B2[x] = B[x]
    BY <1>13, <2>2, <2>3, <2>4
  <2>9. a \in A /\ a # HEAP_START
    BY <1>2
  <2> HIDE DEF A, S, N, B, S2, N2, B2, a, n, p
  <2>10. Listed(A \ {a}, S2, N2, B2)
    BY <2>1, <2>5, <2>6, <2>7, <2>8, <2>9, Removed
  <2>11. QED
    BY <1>12, <2>10 DEF A, S2, N2, B2
<1>15. Exclusive'
  <2>1. ThenPrev(n) \in PC /\ ThenPrev(n) # "scan"
    BY DEF PC, Window, ThenPrev
  <2>2. QED
    BY <1>1, <1>3, <1>8, <2>1, ExclusiveKept
<1>16. (Allocated(HEAP_START) = 0 => Next_(HEAP_START) = HEAP_END)'
  <2>1. HEAP_START \in Arenas
    BY DEF Arenas
  <2>2. mem[HEAP_START] # 0
    BY <1>2, Unallocated
  <2>3. Allocated(HEAP_START)' = mem[HEAP_START]
    BY <1>4, <1>7, <1>9, <2>1, Cells
  <2>4. QED
    BY <2>2, <2>3
<1>17. Claimed'
  BY <1>7, <1>9, <1>10, <1>11, ClaimsStay
<1>18. Registers(c)'
  <2>1. OffList(reg[c].arena)'
    <3>1. a \in Headers /\ \A x \in Arenas' : x + SizeofArena <= a \/ a + SizeofArena <= x
      BY <1>2, <1>4, <1>12, ArenasApart
    <3>2. reg'[c].arena = a
      BY <1>8, <1>10
    <3>3. QED
      BY <3>1, <3>2 DEF OffList, Headers
  <2>2. pc'[c] = "unlinkPrev" => reg'[c].next \in Arenas' \ {HEAP_START} /\ reg'[c].prev \in Arenas'
    <3>1. reg'[c].next = n /\ reg'[c].prev = p
      BY <1>8, <1>10
    <3>2. pc'[c] = "unlinkPrev" => n # HEAP_END
      BY <1>10 DEF ThenPrev
    <3>3. QED
      BY <1>5, <1>6, <1>12, <3>1, <3>2
  <2>3. pc'[c] \in {"unlinkPrev", "clear"}
    BY <1>10 DEF ThenPrev
  <2>4. QED
    BY <2>1, <2>2, <2>3 DEF Registers
<1>19. \A d \in Clients : Registers(d)'
  BY <1>1, <1>3, <1>8, <1>18, RegistersKept
<1>20. QED
  BY <1>14, <1>15, <1>16, <1>17, <1>19 DEF Sound

LEMMA FreeUnlinkPrevSound ==
  ASSUME TypeOK, Sound, NEW c \in Clients, FreeUnlinkPrev(c), ~spoilt' PROVE Sound'
<1> DEFINE a == reg[c].arena
           p == reg[c].prev
           n == reg[c].next
<1>1. /\ Runs(c) /\ pc[c] = "unlinkPrev" /\ ~Intrudes(c) /\ UNCHANGED <<blk, masked, reg>>
      /\ mem' = [mem EXCEPT ![n + 8] = p] /\ pc' = [pc EXCEPT ![c] = "clear"]
  BY DEF FreeUnlinkPrev
<1>2. n \in Arenas /\ n # HEAP_START /\ p \in Arenas /\ OffList(a)
  BY <1>1 DEF Sound, Registers
<1>3. Lonely(c) /\ masked' \in {NoClient, c} /\ masked' # c
  BY <1>1, AreLonely, MaskKept
<1>4. \A x \in Arenas : x \in Headers
  BY ListedFacts
<1>5. reg' = [reg EXCEPT ![c] = reg[c]]
  BY <1>1 DEF TypeOK
<1>6. /\ pc'[c] = "clear" /\ reg'[c] = reg[c] /\ ~Leaves(c)' /\ ~Leaves(c)
      /\ \A d \in Clients \ {c} : pc'[d] = pc[d] /\ reg'[d] = reg[d] /\ (Leaves(d)' <=> Leaves(d))
  <2>1. /\ pc'[c] = "clear" /\ reg'[c] = reg[c]
        /\ \A d \in Clients \ {c} : pc'[d] = pc[d] /\ reg'[d] = reg[d] /\ (Leaves(d)' <=> Leaves(d))
    BY <1>1, <1>5, OthersLeave
  <2>2. QED
    BY <1>1, <2>1 DEF Leaves
<1>7. Held' = Held /\ \A b \in Held : blk'[b] = blk[b] /\ Base(b)' = Base(b)
  BY <1>1 DEF Held, Base
<1>8. \A d \in Clients : (Leaves(d)' <=> Leaves(d)) /\ (Leaves(d) => reg'[d].arena = reg[d].arena)
  BY <1>6
<1>9. Arenas' = Arenas
  BY <1>7, <1>8, ArenasKept
\* The store gives the successor the back link the client has kept for it.
<1>10. ASSUME NEW x \in Arenas
       PROVE  mem'[x] = mem[x] /\ mem'[x + 4] = mem[x + 4] /\ mem'[x + 8] = IF x = n THEN p ELSE mem[x + 8]
  <2>1. x \in Addr /\ x + 4 \in Addr /\ x + 8 \in Addr /\ x \in Nat /\ n \in Nat
    BY <1>2, <1>4, Cells
  <2>2. \A y \in Addr : mem'[y] = IF y = n + 8 THEN p ELSE mem[y]
    BY <1>1 DEF TypeOK
  <2>3. x # n + 8 /\ x + 4 # n + 8 /\ (x + 8 = n + 8 <=> x = n)
    <3>1. CASE x = n
      BY <2>1, <3>1
    <3>2. CASE x # n
      BY <1>2, <2>1, <3>2, ArenasApart DEF SizeofArena
    <3>3. QED
      BY <3>1, <3>2
  <2>4. QED
    BY <2>1, <2>2, <2>3
<1>11. \A x \in Arenas : Before(x)' = Before(x)
  <2>1. \A d \in Clients \ {c} : pc[d] # "unlinkPrev"
    BY <1>3 DEF Lonely, Outside
  <2>2. \A x : Before(x) = IF n = x THEN p ELSE Prev_(x)
    BY <1>1, <2>1, BeforeIs
  <2>3. \A x : Before(x)' = Prev_(x)'
    BY <1>1, <1>3, PlainBeforeThen
  <2>4. QED
    BY <1>4, <1>10, <2>2, <2>3, Cells
<1>12. Listed(Arenas, AllocatedOf, NextOf, BeforeOf)'
  BY <1>9, <1>10, <1>11, ListKept
<1>13. Exclusive'
  <2>1. "clear" \in PC
    BY DEF PC, Window
  <2>2. QED
    BY <1>1, <1>3, <2>1, ExclusiveKept
<1>14. (Allocated(HEAP_START) = 0 => Next_(HEAP_START) = HEAP_END)'
  <2>1. HEAP_START \in Arenas
    BY DEF Arenas
  <2>2. mem[HEAP_START] = 0 => mem[HEAP_START + 4] = HEAP_END
    BY <1>4, <2>1, Cells DEF Sound
  <2>3. QED
    BY <1>4, <1>10, <2>1, <2>2, Cells
<1>15. Claimed'
  BY <1>7, <1>8, <1>10, ClaimsStay
<1>16. Registers(c)'
  <2>1. OffList(reg[c].arena)'
    BY <1>2, <1>6, <1>9 DEF OffList
  <2>2. QED
    BY <1>6, <2>1 DEF Registers
<1>17. \A d \in Clients : Registers(d)'
  BY <1>1, <1>3, <1>5, <1>16, RegistersKept
<1>18. QED
  BY <1>12, <1>13, <1>14, <1>15, <1>17 DEF Sound

LEMMA FreeClearSound ==
  ASSUME TypeOK, Sound, NEW c \in Clients, FreeClear(c), ~spoilt' PROVE Sound'
<1> DEFINE a == reg[c].arena
           n == reg[c].next
<1>1. /\ Runs(c) /\ pc[c] = "clear" /\ ~Intrudes(c) /\ UNCHANGED <<blk, masked>>
      /\ mem' = Cleared(a, n) /\ pc' = [pc EXCEPT ![c] = "idle"] /\ reg' = [reg EXCEPT ![c] = NoReg]
  BY DEF FreeClear, Done
<1>2. Lonely(c) /\ masked' \in {NoClient, c} /\ masked' # c
  BY <1>1, AreLonely, MaskKept
<1>3. \A x \in Arenas : x \in Headers
  BY ListedFacts
<1>4. pc'[c] = "idle" /\ ~Leaves(c)' /\ ~Leaves(c)
  <2>1. pc'[c] = "idle"
    BY <1>1, OthersLeave
  <2>2. QED
    BY <1>1, <2>1 DEF Leaves
<1>5. \A d \in Clients : (Leaves(d)' <=> Leaves(d)) /\ (Leaves(d) => reg'[d].arena = reg[d].arena)
  BY <1>1, <1>4, OthersLeave
<1>6. Held' = Held /\ \A b \in Held : blk'[b] = blk[b] /\ Base(b)' = Base(b)
  BY <1>1 DEF Held, Base
<1>7. Arenas' = Arenas
  BY <1>5, <1>6, ArenasKept
<1>8. \A x : Before(x) = Prev_(x) /\ Before(x)' = Prev_(x)'
  BY <1>1, <1>2, PlainBefore, PlainBeforeThen
<1>9. \A y \in Addr : mem'[y] = IF y = a + 8 THEN 0
                               ELSE IF y = a + 4 THEN (IF n # HEAP_END THEN 0 ELSE mem[y])
                               ELSE IF y = a THEN 0 ELSE mem[y]
  <2>1. a \in Int /\ mem \in [Addr -> Nat]
    BY DEF TypeOK
  <2>2. QED
    BY <1>1, <2>1 DEF Cleared, nullptr
<1>10. \/ OffList(a)
       \/ /\ a = HEAP_START /\ n = HEAP_END /\ Next_(HEAP_START) = HEAP_END
          /\ \A b \in Held : Base(b) # HEAP_START
          /\ \A d \in Clients : Leaves(d) => reg[d].arena # HEAP_START
  BY <1>1 DEF Sound, Registers
<1>11. HEAP_START \in Arenas /\ HEAP_START \in Headers
  BY <1>3 DEF Arenas
<1>12. ASSUME OffList(a)
      PROVE  /\ Listed(Arenas, AllocatedOf, NextOf, BeforeOf)' /\ Claimed'
             /\ (Allocated(HEAP_START) = 0 => Next_(HEAP_START) = HEAP_END)'
  <2>1. ASSUME NEW x \in Arenas
        PROVE  mem'[x] = mem[x] /\ mem'[x + 4] = mem[x + 4] /\ mem'[x + 8] = mem[x + 8]
    <3>1. x \in Addr /\ x + 4 \in Addr /\ x + 8 \in Addr
      BY <1>3, Cells
    <3>2. \A i, j \in {0, 4, 8} : x + i # a + j
      BY <1>3, <1>12, CellsApart DEF OffList, Headers
    <3>3. /\ x # a + 8 /\ x # a + 4 /\ x # a /\ x + 4 # a + 8 /\ x + 4 # a + 4 /\ x + 4 # a
          /\ x + 8 # a + 8 /\ x + 8 # a + 4 /\ x + 8 # a
      <4>1. x \in Nat /\ a \in Int
        BY <1>3, Cells DEF TypeOK
      <4>2. QED
        BY <3>2, <4>1
    <3>4. QED
      BY <1>9, <3>1, <3>3
  <2>2. \A x \in Arenas : Before(x)' = Before(x)
    BY <1>3, <1>8, <2>1, Cells
  <2>3. Listed(Arenas, AllocatedOf, NextOf, BeforeOf)'
    BY <1>7, <2>1, <2>2, ListKept
  <2>4. Claimed'
    BY <1>5, <1>6, <2>1, ClaimsStay
  <2>5. (Allocated(HEAP_START) = 0 => Next_(HEAP_START) = HEAP_END)'
    <3>1. mem[HEAP_START] = 0 => mem[HEAP_START + 4] = HEAP_END
      BY <1>11, Cells DEF Sound
    <3>2. QED
      BY <1>11, <2>1, <3>1, Cells
  <2>6. QED
    BY <2>3, <2>4, <2>5
<1>13. ASSUME ~OffList(a)
      PROVE  /\ Listed(Arenas, AllocatedOf, NextOf, BeforeOf)' /\ Claimed'
             /\ (Allocated(HEAP_START) = 0 => Next_(HEAP_START) = HEAP_END)'
  <2>1. /\ a = HEAP_START /\ n = HEAP_END /\ Next_(HEAP_START) = HEAP_END
        /\ \A b \in Held : Base(b) # HEAP_START
        /\ \A d \in Clients : Leaves(d) => reg[d].arena # HEAP_START
    BY <1>10, <1>13
  <2>2. mem[HEAP_START + 4] = HEAP_END
    BY <1>11, <2>1, Cells
  <2>3. Arenas = {HEAP_START}
    BY <2>2, Alone
  <2>4. Held = {} /\ \A d \in Clients : ~Leaves(d)
    BY <2>1, <2>3, ArenasAre
  <2>5. mem'[HEAP_START] = 0 /\ mem'[HEAP_START + 4] = HEAP_END /\ mem'[HEAP_START + 8] = 0
    <3>1. HEAP_START \in Addr /\ HEAP_START + 4 \in Addr /\ HEAP_START + 8 \in Addr /\ HEAP_START \in Nat
      BY <1>11, Cells
    <3>2. QED
      BY <1>9, <2>1, <2>2, <3>1
  <2>6. \A x \in Arenas : Before(x)' = Before(x)
    <3>1. Before(HEAP_START) = nullptr
      BY <1>11, ListedFacts
    <3>2. Before(HEAP_START)' = 0
      BY <1>8, <1>11, <2>5, Cells
    <3>3. QED
      BY <2>3, <3>1, <3>2 DEF nullptr
  <2>7. Listed(Arenas, AllocatedOf, NextOf, BeforeOf)'
    <3>1. HEAP_START + SizeofArena + 0 <= mem[HEAP_START + 4]
      BY <2>2, HeapAssumption DEF SizeofArena
    <3>2. QED
      BY <1>7, <2>2, <2>3, <2>5, <2>6, <3>1, ListKept
  <2>8. Claimed'
    BY <1>5, <1>6, <2>4 DEF Claimed
  <2>9. (Allocated(HEAP_START) = 0 => Next_(HEAP_START) = HEAP_END)'
    BY <1>11, <2>5, Cells
  <2>10. QED
    BY <2>7, <2>8, <2>9
<1>14. /\ Listed(Arenas, AllocatedOf, NextOf, BeforeOf)' /\ Claimed'
       /\ (Allocated(HEAP_START) = 0 => Next_(HEAP_START) = HEAP_END)'
  BY <1>12, <1>13
<1>15. Exclusive'
  <2>1. "idle" \in PC
    BY DEF PC
  <2>2. QED
    BY <1>1, <1>2, <2>1, ExclusiveKept
<1>16. \A d \in Clients : Registers(d)'
  <2>1. Registers(c)'
    BY <1>4 DEF Registers
  <2>2. QED
    BY <1>1, <1>2, <2>1, RegistersKept
<1>17. QED
  BY <1>14, <1>15, <1>16 DEF Sound

-----------------------------------------------------------------------------
(***************************************************************************)
(* Putting an arena into the gap behind another.                           *)
(***************************************************************************)
LEMMA InsertSound ==
  ASSUME TypeOK, Sound, NEW c \in Clients, Insert(c), ~spoilt' PROVE Sound'
<1>1. PICK a, want, size, n, b, next :
        /\ a = reg[c].cand /\ want = reg[c].want /\ size = Align(want)
        /\ n = End(a) /\ b = reg[c].b /\ next = Next_(a)
        /\ Runs(c) /\ pc[c] = "scan" /\ mem' = Linked(a, n, size) /\ masked' = NoClient
        /\ Return(c, b, n, want) /\ ~(Gap(a) < size + SizeofArena)
  BY DEF Insert
<1>2. a \in Arenas /\ Allocated(HEAP_START) # 0 /\ want \in Sizes \union NewSizes /\ b \in Blocks
  BY <1>1 DEF Sound, Registers, TypeOK
<1>3. Lonely(c) /\ masked' # c
  BY <1>1, AreLonely, NamesAssumption
<1>4. \A x \in Arenas : x \in Headers
  BY ListedFacts
<1>5. size \in Nat /\ want \in Nat /\ 0 < want /\ want <= size
  BY <1>1, <1>2, SizeFacts
<1>6. /\ a \in Nat /\ next = mem[a + 4] /\ next \in Nat /\ next <= HEAP_END
      /\ mem[a] \in Nat /\ n = a + SizeofArena + mem[a] /\ n \in Nat
      /\ n + SizeofArena + size <= next
  <2>1. a \in Nat /\ next = mem[a + 4] /\ next \in Nat /\ next <= HEAP_END /\ mem[a] \in Nat
    BY <1>1, <1>2, <1>4, ListedFacts, Cells
  <2>2. n = a + SizeofArena + mem[a] /\ n \in Nat /\ Gap(a) = mem[a + 4] - n
    BY <1>1, <1>2, GapIs
  <2>3. n + SizeofArena + size <= next
    BY <1>1, <1>5, <2>1, <2>2 DEF SizeofArena
  <2>4. QED
    BY <2>1, <2>2, <2>3
<1>7. n \in Headers
  <2>1. HEAP_START <= n /\ n <= HEAP_END - SizeofArena
    BY <1>2, <1>4, <1>5, <1>6, HeapAssumption DEF Headers, SizeofArena
  <2>2. QED
    BY <1>6, <2>1, HeapAssumption DEF Headers, SizeofArena
<1>8. next # HEAP_END => next \in Arenas
  BY <1>2, <1>6, ListedFacts
<1>9. ASSUME NEW x \in Arenas PROVE x + SizeofArena <= n \/ n + SizeofArena <= x
  <2>1. x \in Nat
    BY <1>4, Cells
  <2>2. CASE x = a
    BY <1>6, <2>2 DEF SizeofArena
  <2>3. CASE x > a
    <3>1. x >= next
      BY <1>2, <1>6, <2>3, ListedFacts
    <3>2. QED
      BY <1>5, <1>6, <2>1, <3>1 DEF SizeofArena
  <2>4. CASE x < a
    <3>1. x + SizeofArena <= a
      BY <1>2, <1>6, <2>1, <2>4, ArenasApart DEF SizeofArena
    <3>2. QED
      BY <1>6, <2>1, <3>1 DEF SizeofArena
  <2>5. QED
    BY <1>6, <2>1, <2>2, <2>3, <2>4
\* Every word of memory after the stores.
<1>10. \A y \in Addr : mem'[y] = IF y = a + 4 THEN n ELSE IF y = n + 8 THEN a
                                ELSE IF y = n + 4 THEN next ELSE IF y = n THEN size
                                ELSE IF y = next + 8 /\ next # HEAP_END THEN n ELSE mem[y]
  <2>1. mem \in [Addr -> Nat]
    BY DEF TypeOK
  <2>2. QED
    BY <1>1, <2>1 DEF Linked
<1>11. mem'[n] = size /\ mem'[n + 4] = next /\ mem'[n + 8] = a
  <2>1. n \in Addr /\ n + 4 \in Addr /\ n + 8 \in Addr
    BY <1>7, Cells
  <2>2. n # a + 4 /\ n + 4 # a + 4 /\ n + 8 # a + 4
    BY <1>6 DEF SizeofArena
  <2>3. QED
    BY <1>6, <1>10, <2>1, <2>2
<1>12. ASSUME NEW x \in Arenas
       PROVE  /\ mem'[x] = mem[x] /\ mem'[x + 4] = IF x = a THEN n ELSE mem[x + 4]
              /\ mem'[x + 8] = IF x = next THEN n ELSE mem[x + 8]
  <2>1. x \in Addr /\ x + 4 \in Addr /\ x + 8 \in Addr /\ x \in Nat /\ x # HEAP_END
    BY <1>4, Cells
  <2>2. x # n + 8 /\ x # n + 4 /\ x # n /\ x + 4 # n + 8 /\ x + 4 # n + 4 /\ x + 4 # n
        /\ x + 8 # n + 8 /\ x + 8 # n + 4 /\ x + 8 # n
    BY <1>6, <1>9, <2>1 DEF SizeofArena
  <2>3. x # a + 4 /\ x + 8 # a + 4 /\ (x + 4 = a + 4 <=> x = a)
    <3>1. CASE x = a
      BY <2>1, <3>1
    <3>2. CASE x # a
      BY <1>2, <1>6, <2>1, <3>2, ArenasApart DEF SizeofArena
    <3>3. QED
      BY <3>1, <3>2
  <2>4. next # HEAP_END => x # next + 8 /\ x + 4 # next + 8
    <3>1. CASE x = next
      BY <2>1, <3>1
    <3>2. CASE x # next
      BY <1>6, <1>8, <2>1, <3>2, ArenasApart DEF SizeofArena
    <3>3. QED
      BY <3>1, <3>2
  <2>5. x + 8 = next + 8 <=> x = next
    BY <1>6, <2>1
  <2>6. QED
    BY <1>10, <2>1, <2>2, <2>3, <2>4, <2>5
<1>13. PICK l, r : /\ pc' = [pc EXCEPT ![c] = l] /\ reg' = [reg EXCEPT ![c] = r]
                   /\ l = IF b \in Held THEN "load" ELSE "idle"
                   /\ b \in Held => r.arena = Base(b)
  <2>1. CASE b \in Held
    <3>1. [NoReg EXCEPT !.arena = Base(b)].arena = Base(b)
      BY DEF NoReg
    <3>2. pc' = [pc EXCEPT ![c] = "load"] /\ reg' = [reg EXCEPT ![c] = [NoReg EXCEPT !.arena = Base(b)]]
      BY <1>1, <2>1 DEF Return
    <3>3. QED
      BY <2>1, <3>1, <3>2
  <2>2. CASE b \notin Held
    BY <1>1, <2>2 DEF Return, Done
  <2>3. QED
    BY <2>1, <2>2
<1>14. /\ pc'[c] = l /\ (Leaves(c)' <=> b \in Held) /\ (b \in Held => reg'[c].arena = Base(b))
       /\ \A d \in Clients \ {c} : pc'[d] = pc[d] /\ reg'[d] = reg[d] /\ (Leaves(d)' <=> Leaves(d))
       /\ ~Leaves(c)
  <2>1. /\ pc'[c] = l /\ reg'[c] = r
        /\ \A d \in Clients \ {c} : pc'[d] = pc[d] /\ reg'[d] = reg[d] /\ (Leaves(d)' <=> Leaves(d))
    BY <1>13, OthersLeave
  <2>2. (Leaves(c)' <=> b \in Held) /\ ~Leaves(c)
    BY <1>1, <1>13, <2>1 DEF Leaves
  <2>3. QED
    BY <1>13, <2>1, <2>2
<1>15. /\ Held' = Held \union {b} /\ Base(b)' = n /\ blk'[b].size = want
       /\ \A d \in Held \ {b} : blk'[d] = blk[d] /\ Base(d)' = Base(d)
  BY <1>1, <1>2, <1>5, <1>6, ReturnHeld
<1>16. Arenas' = Arenas \union {n}
  <2>1. \A x : x \in Arenas' <=> \/ x = HEAP_START \/ x = n
                                 \/ \E d \in Held \ {b} : Base(d) = x
                                 \/ \E d \in Clients \ {c} : Leaves(d) /\ reg[d].arena = x
                                 \/ b \in Held /\ x = Base(b)
    BY <1>14, <1>15, ArenasAre
  <2>2. \A x : x \in Arenas' <=> x \in Arenas \/ x = n
    BY <1>14, <2>1, ArenasAre
  <2>3. QED
    BY <2>2
<1>17. Listed(Arenas, AllocatedOf, NextOf, BeforeOf)'
  <2> DEFINE A == Arenas
             S == AllocatedOf
             N == NextOf
             B == BeforeOf
             S2 == AllocatedOf'
             N2 == NextOf'
             B2 == BeforeOf'
  <2>1. Listed(A, S, N, B)
    BY DEF Sound
  <2>2. l # "unlinkPrev"
    BY <1>13
  <2>3. \A x : Before(x) = Prev_(x) /\ Before(x)' = Prev_(x)'
    BY <1>1, <1>3, <1>13, <2>2, PlainBefore, PlainBeforeThen
  <2>4. \A x \in A : /\ S[x] = mem[x] /\ N[x] = mem[x + 4] /\ B[x] = mem[x + 8]
                     /\ S2[x] = mem'[x] /\ N2[x] = mem'[x + 4] /\ B2[x] = mem'[x + 8]
    BY <1>4, <2>3, Cells
  <2>5. S2[n] = size /\ N2[n] = next /\ B2[n] = a
    BY <1>7, <1>11, <2>3, Cells
  <2>6. a \in A /\ N[a] = next /\ S[a] = mem[a]
    BY <1>2, <1>6, <2>4
  <2>7. n = a + SizeofArena + S[a] /\ n + SizeofArena + size <= N[a]
    BY <1>6, <2>6
  <2>8. \A x \in A : S2[x] = S[x]
    BY <1>12, <2>4
  <2>9. N2[n] = N[a] /\ N2[a] = n /\ \A x \in A : x # a => N2[x] = N[x]
    BY <1>12, <2>4, <2>5, <2>6
  <2>10. N[a] # HEAP_END => B2[N[a]] = n
    BY <1>8, <1>12, <2>4, <2>6
  <2>11. \A x \in A : x # N[a] => B2[x] = B[x]
    BY <1>12, <2>4, <2>6
  <2> HIDE DEF A, S, N, B, S2, N2, B2
  <2>12. Listed(A \union {n}, S2, N2, B2)
    BY <1>5, <2>1, <2>5, <2>6, <2>7, <2>8, <2>9, <2>10, <2>11, Inserted
  <2>13. QED
    BY <1>16, <2>12 DEF A, S2, N2, B2
<1>18. Exclusive'
  <2>1. l \in PC /\ l # "scan"
    BY <1>13 DEF PC
  <2>2. masked' \in {NoClient, c}
    BY <1>1
  <2>3. QED
    BY <1>3, <1>13, <2>1, <2>2, ExclusiveKept
<1>19. (Allocated(HEAP_START) = 0 => Next_(HEAP_START) = HEAP_END)'
  <2>1. HEAP_START \in Arenas
    BY DEF Arenas
  <2>2. Allocated(HEAP_START)' = mem[HEAP_START] /\ Allocated(HEAP_START) = mem[HEAP_START]
    BY <1>4, <1>12, <2>1, Cells
  <2>3. QED
    BY <1>2, <2>2
<1>20. Claimed'
  <2>1. Claimed
    BY DEF Sound
  <2>2. \A x \in Arenas : Load(x) = mem[x] /\ Load(x)' = mem[x]
    BY <1>4, <1>12, Cells DEF Load, Word
  <2>3. Load(n)' = size
    BY <1>7, <1>11, Cells DEF Load, Word
  <2>4. n \notin Arenas
    <3>1. \A x \in Arenas : x # n
      BY <1>6, <1>9 DEF SizeofArena
    <3>2. QED
      BY <3>1
  <2>5. ASSUME NEW d \in Held' PROVE 0 < blk'[d].size /\ blk'[d].size <= Allocated(Base(d))'
    <3>1. CASE d = b
      BY <1>5, <1>15, <2>3, <3>1 DEF Allocated
    <3>2. CASE d # b
      <4>1. d \in Held /\ blk'[d] = blk[d] /\ Base(d)' = Base(d)
        BY <1>15, <3>2
      <4>2. PICK y : y = Base(d)
        OBVIOUS
      <4>3. y \in Arenas /\ 0 < blk[d].size /\ blk[d].size <= Load(y) /\ Base(d)' = y
        BY <2>1, <4>1, <4>2 DEF Arenas, Claimed, Allocated
      <4>4. QED
        BY <2>2, <4>1, <4>3 DEF Allocated
    <3>3. QED
      BY <3>1, <3>2
  <2>6. ASSUME NEW d \in Clients, Leaves(d)'
        PROVE  /\ Allocated(reg[d].arena)' > 0 /\ reg'[d].arena \in Arenas
               /\ d = c => b \in Held /\ reg'[d].arena = Base(b)
               /\ d # c => Leaves(d) /\ reg'[d].arena = reg[d].arena
    <3>1. PICK y : y = reg'[d].arena
      OBVIOUS
    <3>2. y \in Arenas /\ Load(y) > 0
      <4>1. CASE d = c
        <5>1. b \in Held /\ y = Base(b)
          BY <1>14, <2>6, <3>1, <4>1
        <5>2. blk[b].size \in Nat /\ 0 < blk[b].size /\ blk[b].size <= Load(y) /\ Load(y) \in Nat
          BY <2>1, <5>1, Pointers, Loads DEF Claimed, Allocated
        <5>3. QED
          BY <5>1, <5>2 DEF Arenas
      <4>2. CASE d # c
        <5>1. Leaves(d) /\ y = reg[d].arena
          BY <1>14, <2>6, <3>1, <4>2
        <5>2. QED
          BY <2>1, <5>1, ArenasAre DEF Claimed, Allocated
      <4>3. QED
        BY <4>1, <4>2
    <3>3. Allocated(reg[d].arena)' > 0
      BY <2>2, <3>1, <3>2 DEF Allocated
    <3>4. QED
      BY <1>14, <2>6, <3>1, <3>2, <3>3
  <2>7. \A d \in Held' \ {b} : d \in Held /\ Base(d)' = Base(d) /\ Base(d) \in Arenas
    BY <1>15 DEF Arenas
  <2>8. \A d, e \in Held' : d # e => Base(d)' # Base(e)'
    BY <1>15, <2>1, <2>4, <2>7 DEF Claimed
  <2>9. \A d \in Held', e \in Clients : Leaves(e)' => Base(d)' # reg'[e].arena
    BY <1>15, <2>1, <2>4, <2>6, <2>7 DEF Claimed
  <2>10. \A d, e \in Clients : d # e /\ Leaves(d)' /\ Leaves(e)' => reg'[d].arena # reg'[e].arena
    BY <2>1, <2>6 DEF Claimed
  <2>11. QED
    BY <2>5, <2>6, <2>8, <2>9, <2>10 DEF Claimed
<1>21. \A d \in Clients : Registers(d)'
  <2>1. Registers(c)'
    BY <1>13, <1>14 DEF Registers
  <2>2. QED
    BY <1>3, <1>13, <2>1, RegistersKept
<1>22. QED
  BY <1>17, <1>18, <1>19, <1>20, <1>21 DEF Sound

-----------------------------------------------------------------------------
LEMMA InvStep == ASSUME Inv, [Next]_vars PROVE Inv'
<1>1. TypeOK /\ InHand /\ (~spoilt => Sound)
  BY DEF Inv
<1>2. ASSUME NEW c \in Clients, Step(c) PROVE Inv'
  <2>1. TypeOK' /\ InHand'
    BY <1>1, <1>2, TypeStep, InHandStep
  <2>2. SUFFICES ASSUME ~spoilt' PROVE Sound'
    BY <2>1 DEF Inv
  <2>3. ~spoilt
    BY <1>2, <2>2 DEF Step, Malloc, Free, Realloc, MallocFirst, MallocBegin, Scan, OutOfMemory, Insert,
       FreeBegin, FreeLoad, FreeUnlinkNext, FreeUnlinkPrev, FreeClear, ReallocShrink, ReallocCheck, ReallocGrow
  <2>4. Sound
    BY <1>1, <2>3
  <2>5. CASE Malloc(c)
    BY <1>1, <2>2, <2>4, <2>5, MallocFirstSound, MallocBeginSound, ScanSound, OutOfMemorySound, InsertSound
       DEF Malloc
  <2>6. CASE Free(c)
    BY <1>1, <2>1, <2>2, <2>4, <2>6, FreeBeginSound, FreeLoadSound, FreeUnlinkNextSound,
       FreeUnlinkPrevSound, FreeClearSound DEF Free
  <2>7. CASE Realloc(c)
    BY <1>1, <2>2, <2>4, <2>7, ReallocShrinkSound, ReallocCheckSound, ReallocGrowSound DEF Realloc
  <2>8. QED
    BY <1>2, <2>5, <2>6, <2>7 DEF Step
<1>3. CASE UNCHANGED vars
  <2>1. TypeOK' /\ InHand' /\ spoilt' = spoilt
    BY <1>1, <1>3 DEF vars, TypeOK, InHand, Held
  <2>2. ASSUME Sound PROVE Sound'
    <3>1. UNCHANGED <<mem, blk, masked, pc, reg>>
      BY <1>3 DEF vars
    <3>2. Held' = Held /\ Arenas' = Arenas /\ \A x : Load(x)' = Load(x) /\ Before(x)' = Before(x)
      BY <3>1 DEF Held, Arenas, Leaving, Base, Load, Before, Prev_
    <3>3. AllocatedOf' = AllocatedOf /\ NextOf' = NextOf /\ BeforeOf' = BeforeOf
      BY <3>2 DEF AllocatedOf, NextOf, BeforeOf, Allocated, Next_
    <3>4. Listed(Arenas, AllocatedOf, NextOf, BeforeOf)'
      BY <2>2, <3>2, <3>3 DEF Sound
    <3>5. Exclusive'
      BY <2>2, <3>1 DEF Sound, Exclusive
    <3>6. Claimed'
      BY <2>2, <3>1, <3>2 DEF Sound, Claimed, Base, Leaves, Allocated, Load
    <3>7. (Allocated(HEAP_START) = 0 => Next_(HEAP_START) = HEAP_END)'
      BY <2>2, <3>2 DEF Sound, Allocated, Next_
    <3>8. \A c \in Clients : Registers(c)'
      BY <2>2, <3>1, <3>2 DEF Sound, Registers, OffList, Leaves, Base, Allocated, Next_, Prev_, Load, Gap, End, Minus
    <3>9. QED
      BY <3>4, <3>5, <3>6, <3>7, <3>8 DEF Sound
  <2>3. QED
    BY <1>1, <2>1, <2>2 DEF Inv
<1>4. QED
  BY <1>2, <1>3 DEF Next

LEMMA InvInit == Init => Inv
<1> SUFFICES ASSUME Init PROVE Inv
  OBVIOUS
<1>1. TypeOK
  BY LocalsTyped, HeapAssumption DEF Init, TypeOK, Locals, PC
<1>2. InHand
  BY DEF Init, InHand
<1>3. Held = {} /\ \A c \in Clients : pc[c] = "idle"
  BY DEF Init, Held
<1>4. Arenas = {HEAP_START}
  BY <1>3 DEF Arenas, Leaving
<1>5. HEAP_START \in Headers
  BY HeapAssumption DEF Headers, SizeofArena
<1>6. mem[HEAP_START] = 0 /\ mem[HEAP_START + 4] = HEAP_END /\ mem[HEAP_START + 8] = 0
  BY <1>5, Cells DEF Init
<1>7. AllocatedOf[HEAP_START] = 0 /\ NextOf[HEAP_START] = HEAP_END /\ BeforeOf[HEAP_START] = nullptr
  <2>1. Before(HEAP_START) = Prev_(HEAP_START)
    BY <1>3 DEF Before
  <2>2. QED
    BY <1>5, <1>6, <2>1, Cells DEF nullptr
<1>8. Listed(Arenas, AllocatedOf, NextOf, BeforeOf)
  <2>1. HEAP_START \in Nat /\ HEAP_START + SizeofArena + 0 <= HEAP_END
    BY HeapAssumption DEF SizeofArena
  <2>2. QED
    BY <1>4, <1>5, <1>7, <2>1 DEF Listed, Placed, Headers
<1>9. Exclusive /\ Claimed /\ \A c \in Clients : Registers(c)
  <2>1. masked \notin Clients
    BY NamesAssumption DEF Init
  <2>2. QED
    BY <1>3, <2>1 DEF Exclusive, Claimed, Registers, Leaves, Window
<1>10. Next_(HEAP_START) = HEAP_END
  BY <1>5, <1>6, Cells
<1>11. QED
  BY <1>1, <1>2, <1>8, <1>9, <1>10 DEF Inv, Sound

\* Memory and registers keep their types in every behaviour and, until a hazard
\* strikes, the list and what every client knows of it is sound.
THEOREM Invariant == Spec => []Inv
<1>1. QED
  BY InvInit, InvStep, PTL DEF Spec

\* Every variable keeps its type, whatever the calls do to one another.
THEOREM Typed == Spec => []TypeOK
<1>1. Inv => TypeOK
  BY DEF Inv
<1>2. QED
  BY <1>1, Invariant, PTL

-----------------------------------------------------------------------------
LEMMA SoundBlocks == Inv => BlocksDisjoint
<1> SUFFICES ASSUME Inv, ~spoilt
             PROVE  /\ \A b \in Held : HEAP_START <= Base(b) /\ blk[b].p + blk[b].size <= HEAP_END
                    /\ \A b, d \in Held : b # d => Disjoint(b, d)
  BY DEF BlocksDisjoint
<1>1. TypeOK /\ Sound
  BY DEF Inv
<1>2. ASSUME NEW b \in Held
      PROVE  /\ Base(b) \in Arenas /\ Base(b) \in Nat /\ HEAP_START <= Base(b)
             /\ mem[Base(b) + 4] \in Nat /\ mem[Base(b) + 4] <= HEAP_END
             /\ blk[b].p \in Nat /\ blk[b].size \in Nat
             /\ blk[b].p + blk[b].size <= mem[Base(b) + 4]
  <2>1. Base(b) \in Arenas
    BY DEF Arenas
  <2>2. /\ Base(b) \in Headers /\ mem[Base(b)] \in Nat /\ mem[Base(b) + 4] \in Nat
        /\ Base(b) + SizeofArena + mem[Base(b)] <= mem[Base(b) + 4] /\ mem[Base(b) + 4] <= HEAP_END
    BY <1>1, <2>1, ListedFacts
  <2>3. Base(b) \in Nat /\ Allocated(Base(b)) = mem[Base(b)] /\ HEAP_START <= Base(b)
    BY <2>2, Cells DEF Headers
  <2>4. blk[b].p \in Nat /\ blk[b].size \in Nat /\ blk[b].p = Base(b) + SizeofArena
    BY <1>1, Pointers DEF Base, SizeofArena
  <2>5. blk[b].size <= mem[Base(b)]
    BY <1>1, <2>3 DEF Sound, Claimed
  <2>6. QED
    BY <2>1, <2>2, <2>3, <2>4, <2>5 DEF SizeofArena
<1>3. ASSUME NEW b \in Held, NEW d \in Held, b # d PROVE Disjoint(b, d)
  <2>1. Base(b) # Base(d)
    BY <1>1, <1>3 DEF Sound, Claimed
  <2>2. /\ Base(d) > Base(b) => Base(d) >= mem[Base(b) + 4]
        /\ Base(b) > Base(d) => Base(b) >= mem[Base(d) + 4]
    BY <1>1, <1>2, ListedFacts
  <2>3. QED
    BY <1>2, <2>1, <2>2 DEF Disjoint
<1>4. \A b \in Held : HEAP_START <= Base(b) /\ blk[b].p + blk[b].size <= HEAP_END
  <2>1. HEAP_END \in Nat
    BY HeapAssumption
  <2>2. QED
    BY <1>2, <2>1
<1>5. QED
  BY <1>3, <1>4

LEMMA SoundList == Inv => ListIntact
<1> SUFFICES ASSUME Inv, ~spoilt
             PROVE  /\ Before(HEAP_START) = nullptr
                    /\ \A a \in Arenas :
                         /\ Next_(a) \in {n \in Arenas : a < n /\ Before(n) = a} \union {HEAP_END}
                         /\ End(a) <= Next_(a)
                         /\ \A b \in Arenas : b > a => b >= Next_(a)
                    /\ Allocated(HEAP_START) = 0 => Next_(HEAP_START) = HEAP_END
  BY DEF ListIntact
<1>1. TypeOK /\ Sound
  BY DEF Inv
<1>2. ASSUME NEW a \in Arenas
      PROVE  /\ Next_(a) \in {n \in Arenas : a < n /\ Before(n) = a} \union {HEAP_END}
             /\ End(a) <= Next_(a)
             /\ \A b \in Arenas : b > a => b >= Next_(a)
  <2>1. /\ a \in Headers /\ mem[a] \in Nat /\ mem[a + 4] \in Nat
        /\ a + SizeofArena + mem[a] <= mem[a + 4]
        /\ mem[a + 4] # HEAP_END => mem[a + 4] \in Arenas /\ Before(mem[a + 4]) = a
        /\ \A b \in Arenas : b > a => b >= mem[a + 4]
    BY <1>1, ListedFacts
  <2>2. a \in Nat /\ Next_(a) = mem[a + 4]
    BY <2>1, Cells
  <2>3. End(a) <= mem[a + 4]
    BY <1>1, GapIs
  <2>4. a < mem[a + 4]
    BY <2>1, <2>2 DEF SizeofArena
  <2>5. QED
    BY <2>1, <2>2, <2>3, <2>4
<1>3. Before(HEAP_START) = nullptr
  <2>1. HEAP_START \in Arenas
    BY DEF Arenas
  <2>2. QED
    BY <1>1, <2>1, ListedFacts
<1>4. QED
  BY <1>1, <1>2, <1>3 DEF Sound

\* As long as no hazard has struck, no two held blocks share a byte and the
\* list runs through all arenas, at every point of every interleaving.
THEOREM BlocksSound == Spec => []HeapSound
<1>1. Inv => HeapSound
  BY SoundBlocks, SoundList DEF HeapSound
<1>2. QED
  BY <1>1, Invariant, PTL

-----------------------------------------------------------------------------
(***************************************************************************)
(* Where an insertion puts a block.                                        *)
(***************************************************************************)
LEMMA InsertPlace ==
  ASSUME TypeOK, Sound, NEW c \in Clients, Insert(c), ~spoilt',
         NEW n, n = End(reg[c].cand), NEW b, b = reg[c].b, NEW size, size = Align(reg[c].want)
  PROVE  /\ reg[c].cand \in Arenas /\ b \in Blocks /\ n \in Nat /\ size \in Nat
         /\ blk' = [blk EXCEPT ![b] = blk'[b]] /\ blk'[b] \in [p : Nat, size : Nat]
         /\ blk'[b].p = n + SizeofArena /\ blk'[b].size <= size
         /\ \A x \in Arenas : x < n \/ n + SizeofArena + size <= x
         /\ n + SizeofArena + size <= mem[reg[c].cand + 4]
<1> DEFINE a == reg[c].cand
<1>1. /\ pc[c] = "scan" /\ Return(c, b, n, reg[c].want) /\ ~(Gap(a) < size + SizeofArena)
  BY DEF Insert
<1>2. a \in Arenas /\ reg[c].want \in Sizes \union NewSizes /\ b \in Blocks
  BY <1>1 DEF Sound, Registers, TypeOK
<1>3. size \in Nat /\ reg[c].want \in Nat /\ reg[c].want <= size
  BY <1>2, SizeFacts
<1>4. /\ a \in Headers /\ mem[a] \in Nat /\ mem[a + 4] \in Nat
      /\ n = a + SizeofArena + mem[a] /\ n \in Nat /\ Gap(a) = mem[a + 4] - n
  BY <1>2, ListedFacts, GapIs
<1>5. n + SizeofArena + size <= mem[a + 4]
  BY <1>1, <1>3, <1>4 DEF SizeofArena
<1>6. ASSUME NEW x \in Arenas PROVE x < n \/ n + SizeofArena + size <= x
  <2>1. x \in Nat /\ a \in Nat
    BY <1>2, ListedFacts, Cells
  <2>2. x > a => x >= mem[a + 4]
    BY <1>2, ListedFacts
  <2>3. QED
    BY <1>3, <1>4, <1>5, <2>1, <2>2 DEF SizeofArena
<1>7. blk' = [blk EXCEPT ![b] = [p |-> n + SizeofArena, size |-> reg[c].want]]
  BY <1>1 DEF Return
<1>8. blk'[b] = [p |-> n + SizeofArena, size |-> reg[c].want] /\ n + SizeofArena \in Nat
  BY <1>2, <1>4, <1>7 DEF TypeOK, SizeofArena
<1>9. /\ blk' = [blk EXCEPT ![b] = blk'[b]] /\ blk'[b] \in [p : Nat, size : Nat]
      /\ blk'[b].p = n + SizeofArena /\ blk'[b].size <= size
  <2>1. blk' = [blk EXCEPT ![b] = blk'[b]]
    BY <1>7, <1>8
  <2>2. blk'[b].p = n + SizeofArena /\ blk'[b].size = reg[c].want
    BY <1>8
  <2>3. blk'[b] \in [p : Nat, size : Nat]
    BY <1>3, <1>8
  <2>4. QED
    BY <1>3, <2>1, <2>2, <2>3
<1>10. QED
  BY <1>2, <1>3, <1>4, <1>5, <1>6, <1>9

\* While a client walks the list, it is the only one that moves.
LEMMA WalkerMoves ==
  ASSUME TypeOK, Next, NEW c \in Clients, pc[c] = "scan", pc'[c] # "scan"
  PROVE  OutOfMemory(c) \/ Insert(c)
<1>1. PICK e \in Clients : Step(e)
  BY DEF Next
<1>2. \A d \in Clients \ {e} : pc'[d] = pc[d]
  BY <1>1 DEF TypeOK, Step, Malloc, Free, Realloc, MallocFirst, MallocBegin, Scan, OutOfMemory, Insert,
     FreeBegin, FreeLoad, FreeUnlinkNext, FreeUnlinkPrev, FreeClear, ReallocShrink, ReallocCheck, ReallocGrow,
     Return, Done
<1>3. e = c
  BY <1>2
<1>4. Scan(c) \/ OutOfMemory(c) \/ Insert(c)
  BY <1>1, <1>3 DEF Step, Malloc, Free, Realloc, MallocFirst, MallocCalled, MallocBegin, FreeBegin, FreeLoad,
     FreeUnlinkNext, FreeUnlinkPrev, FreeClear, ReallocShrink, ReallocCalled, ReallocCheck, ReallocGrow
<1>5. QED
  BY <1>4 DEF Scan

LEMMA FirstFitKept == ASSUME Inv, [Next]_vars PROVE [FirstFitStep]_vars
<1> SUFFICES ASSUME Next, ~spoilt', NEW c \in Clients, pc[c] = "scan", pc'[c] # "scan",
                    NEW a \in Arenas, Gap(a) >= Align(reg[c].want)
             PROVE  blk' # blk /\ blk'[reg[c].b].p <= End(a) + SizeofArena
  BY DEF FirstFitStep
<1> DEFINE k == reg[c].cand
<1>1. TypeOK /\ (OutOfMemory(c) \/ Insert(c))
  BY WalkerMoves DEF Inv
<1>2. ~spoilt
  BY <1>1 DEF OutOfMemory, Insert
<1>3. Sound
  BY <1>2 DEF Inv
<1>4. /\ k \in Arenas /\ ~(a < k)
      /\ reg[c].want \in Sizes \union NewSizes
  <2>1. /\ k \in Arenas /\ reg[c].want \in Sizes \union NewSizes
        /\ a < k => Gap(a) < Align(reg[c].want)
    BY <1>3 DEF Sound, Registers
  <2>2. Gap(a) \in Int /\ Align(reg[c].want) \in Int
    <3>1. mem[a + 4] \in Nat
      BY <1>1, <1>3, ListedFacts
    <3>2. QED
      BY <1>1, <1>3, <2>1, <3>1, GapIs, SizeFacts
  <2>3. QED
    BY <2>1, <2>2
<1>5. /\ a \in Nat /\ k \in Nat /\ mem[k + 4] \in Nat /\ mem[a] \in Nat
      /\ End(a) = a + SizeofArena + mem[a] /\ End(k) \in Nat /\ End(k) <= mem[k + 4]
      /\ a > k => a >= mem[k + 4]
      /\ Next_(k) = mem[k + 4] /\ a < HEAP_END
  <2>1. a \in Headers /\ k \in Headers
    BY <1>1, <1>3, <1>4, ListedFacts
  <2>2. a \in Nat /\ k \in Nat /\ Next_(k) = mem[k + 4] /\ a < HEAP_END
    BY <2>1, Cells, HeapAssumption DEF Headers, SizeofArena
  <2>3. mem[k + 4] \in Nat /\ mem[a] \in Nat /\ (a > k => a >= mem[k + 4])
    BY <1>1, <1>3, <1>4, ListedFacts
  <2>4. End(a) = a + SizeofArena + mem[a] /\ End(k) \in Nat /\ End(k) <= mem[k + 4]
    BY <1>1, <1>3, <1>4, GapIs
  <2>5. QED
    BY <2>2, <2>3, <2>4
<1>6. CASE OutOfMemory(c)
  <2>1. Gap(k) < Align(reg[c].want) /\ Next_(k) = HEAP_END
    BY <1>6 DEF OutOfMemory
  <2>2. ~(a > k)
    BY <1>5, <2>1, HeapAssumption
  <2>3. a = k
    BY <1>4, <1>5, <2>2
  <2>4. Gap(k) \in Int /\ Align(reg[c].want) \in Int
    BY <1>1, <1>3, <1>4, <1>5, GapIs, SizeFacts
  <2>5. QED
    BY <2>1, <2>3, <2>4
<1>7. CASE Insert(c)
  <2>1. PICK n, b, size : n = End(k) /\ b = reg[c].b /\ size = Align(reg[c].want)
    OBVIOUS
  <2>2. /\ b \in Blocks /\ n \in Nat /\ size \in Nat /\ blk'[b] \in [p : Nat, size : Nat]
        /\ blk'[b].p = n + SizeofArena
        /\ \A x \in Arenas : x < n \/ n + SizeofArena + size <= x
    BY <1>1, <1>3, <1>7, <2>1, InsertPlace
  <2>3. blk' # blk
    <3>1. CASE b \in Held
      <4>1. Base(b) \in Arenas /\ Base(b) \in Nat
        <5>1. Base(b) \in Arenas
          BY <3>1 DEF Arenas
        <5>2. QED
          BY <1>1, <1>3, <5>1, ListedFacts, Cells
      <4>2. blk[b].p = Base(b) + SizeofArena
        BY <1>1, <3>1, Pointers DEF Base, SizeofArena
      <4>3. Base(b) # n
        BY <2>2, <4>1 DEF SizeofArena
      <4>4. QED
        BY <2>2, <4>1, <4>2, <4>3 DEF SizeofArena
    <3>2. CASE b \notin Held
      BY <2>2, <3>2, NamesAssumption DEF Held
    <3>3. QED
      BY <3>1, <3>2
  <2>4. blk'[b].p <= End(a) + SizeofArena
    <3>1. n <= End(a)
      <4>1. CASE a = k
        BY <2>1, <4>1, <1>5
      <4>2. CASE a > k
        BY <1>5, <2>1, <2>2, <4>2 DEF SizeofArena
      <4>3. QED
        BY <1>4, <1>5, <4>1, <4>2
    <3>2. QED
      BY <1>5, <2>2, <3>1 DEF SizeofArena
  <2>5. QED
    BY <2>1, <2>3, <2>4
<1>8. QED
  BY <1>1, <1>6, <1>7

\* malloc passes over no arena that has room behind it.
THEOREM FitsFirst == Spec => FirstFit
<1>1. QED
  BY Invariant, FirstFitKept, PTL DEF Spec, FirstFit

-----------------------------------------------------------------------------
(***************************************************************************)
(* The abstract heap.                                                      *)
(***************************************************************************)
LEMMA BytesOf == ASSUME NEW r, NEW x
  PROVE  x \in H!Bytes(r) <=> x \in r.p..(r.p + r.size - 1)
  BY DEF H!Bytes

\* A step that gives block b a place gives it one away from all others.
LEMMA Placing ==
  ASSUME Inv', ~spoilt', NEW b \in Blocks, b \in Held', blk' = [blk EXCEPT ![b] = blk'[b]], TypeOK
  PROVE  H!Place(b)
<1>1. /\ \A d \in Held' : HEAP_START <= Base(d)' /\ blk'[d].p + blk'[d].size <= HEAP_END
      /\ \A d, e \in Held' : d # e => Disjoint(d, e)'
  <2>1. BlocksDisjoint'
    BY SoundBlocks, PTL
  <2>2. QED
    BY <2>1 DEF BlocksDisjoint
<1>2. \A d \in Held' : blk'[d] \in [p : Nat, size : Nat] /\ Base(d)' = blk'[d].p - SizeofArena
  BY DEF Inv, TypeOK, Held, Base
<1>3. \A d \in Blocks \ {b} : blk'[d] = blk[d]
  BY DEF TypeOK
<1>4. blk'[b] # NoBlock
  BY DEF Held
<1>5. H!Bytes(blk'[b]) \subseteq HEAP_START..(HEAP_END - 1)
  <2>1. /\ blk'[b].p \in Nat /\ blk'[b].size \in Nat /\ HEAP_START + SizeofArena <= blk'[b].p
        /\ blk'[b].p + blk'[b].size <= HEAP_END
    BY <1>1, <1>2, HeapAssumption DEF SizeofArena
  <2>2. QED
    BY <2>1, HeapAssumption DEF H!Bytes, SizeofArena
<1>6. ASSUME NEW d \in Blocks \ {b}, blk[d] # NoBlock
      PROVE  H!Bytes(blk'[b]) \intersect H!Bytes(blk[d]) = {}
  <2>1. blk'[d] = blk[d] /\ d \in Held'
    BY <1>3, <1>6 DEF Held
  <2>2. blk'[b].p + blk'[b].size <= Base(d)' \/ blk'[d].p + blk'[d].size <= Base(b)'
    BY <1>1, <2>1 DEF Disjoint
  <2>3. /\ blk'[b].p \in Nat /\ blk'[b].size \in Nat /\ blk'[d].p \in Nat /\ blk'[d].size \in Nat
        /\ Base(d)' = blk'[d].p - SizeofArena /\ Base(b)' = blk'[b].p - SizeofArena
    BY <1>2, <2>1
  <2>4. \A x \in H!Bytes(blk'[b]) : x \notin H!Bytes(blk'[d])
    BY <2>2, <2>3 DEF H!Bytes, SizeofArena
  <2>5. QED
    BY <2>1, <2>4
<1>7. QED
  BY <1>4, <1>5, <1>6 DEF H!Place

\* A block that realloc moves does not overlap the one it is copied from.
LEMMA Moving ==
  ASSUME TypeOK, Sound, NEW c \in Clients, Insert(c), ~spoilt', NEW b, b = reg[c].b, b \in Held
  PROVE  H!Bytes(blk'[b]) \intersect H!Bytes(blk[b]) = {}
<1> DEFINE k == reg[c].cand
<1>1. PICK n, size, x : n = End(k) /\ size = Align(reg[c].want) /\ x = Base(b)
  OBVIOUS
<1>2. /\ k \in Arenas /\ n \in Nat /\ size \in Nat /\ blk'[b] \in [p : Nat, size : Nat]
      /\ blk'[b].p = n + SizeofArena /\ blk'[b].size <= size
      /\ \A y \in Arenas : y < n \/ n + SizeofArena + size <= y
      /\ n + SizeofArena + size <= mem[k + 4]
  BY <1>1, InsertPlace
<1>3. /\ x \in Arenas /\ x \in Nat /\ mem[x] \in Nat /\ k \in Nat /\ mem[x + 4] \in Nat
      /\ x + SizeofArena + mem[x] <= mem[x + 4] /\ n = k + SizeofArena + mem[k] /\ mem[k] \in Nat
  <2>1. x \in Arenas
    BY <1>1 DEF Arenas
  <2>2. QED
    BY <1>1, <1>2, <2>1, ListedFacts, GapIs, Cells
<1>4. blk[b] \in [p : Nat, size : Nat] /\ blk[b].p = x + SizeofArena /\ blk[b].size <= mem[x]
  <2>1. blk[b] \in [p : Nat, size : Nat]
    BY Pointers
  <2>2. blk[b].size <= Allocated(x)
    BY <1>1 DEF Sound, Claimed
  <2>3. Allocated(x) = mem[x]
    BY <1>3, ListedFacts, Cells
  <2>4. QED
    BY <1>1, <2>1, <2>2, <2>3 DEF Base, SizeofArena
<1>5. x + SizeofArena + mem[x] <= n \/ n + SizeofArena + size <= x
  <2>1. x < n \/ n + SizeofArena + size <= x
    BY <1>2, <1>3
  <2>2. CASE x = k
    BY <1>3, <2>2 DEF SizeofArena
  <2>3. CASE x < k
    <3>1. k >= mem[x + 4]
      BY <1>2, <1>3, <2>3, ListedFacts
    <3>2. QED
      BY <1>3, <3>1 DEF SizeofArena
  <2>4. CASE x > k
    <3>1. x >= mem[k + 4]
      BY <1>2, <1>3, <2>4, ListedFacts
    <3>2. mem[k + 4] \in Nat
      BY <1>2, ListedFacts
    <3>3. QED
      BY <1>2, <1>3, <3>1, <3>2 DEF SizeofArena
  <2>5. QED
    BY <1>3, <2>2, <2>3, <2>4
<1>6. \A y \in H!Bytes(blk'[b]) : y \notin H!Bytes(blk[b])
  BY <1>2, <1>3, <1>4, <1>5 DEF H!Bytes, SizeofArena
<1>7. QED
  BY <1>6

LEMMA HeapStep == ASSUME Inv, Inv', [Next]_vars PROVE [~spoilt' => H!Next]_blk
<1> SUFFICES ASSUME NEW c \in Clients, Step(c), ~spoilt', blk' # blk PROVE H!Next
  BY DEF Next, vars
<1>1. TypeOK /\ InHand
  BY DEF Inv
<1>2. ~spoilt
  BY DEF Step, Malloc, Free, Realloc, MallocFirst, MallocBegin, Scan, OutOfMemory, Insert,
     FreeBegin, FreeLoad, FreeUnlinkNext, FreeUnlinkPrev, FreeClear, ReallocShrink, ReallocCheck, ReallocGrow
<1>3. Sound
  BY <1>2 DEF Inv
<1>4. MallocFirst(c) \/ Insert(c) \/ FreeBegin(c) \/ ReallocShrink(c) \/ ReallocGrow(c)
  BY DEF Step, Malloc, Free, Realloc, MallocBegin, Scan, OutOfMemory, FreeLoad, FreeUnlinkNext,
     FreeUnlinkPrev, FreeClear, ReallocCheck
<1>5. ASSUME NEW b \in Held, NEW n \in Nat, blk' = [blk EXCEPT ![b].size = n] PROVE H!Next
  <2>1. blk[b] \in [p : Nat, size : Nat] /\ b \in Blocks /\ blk[b] # NoBlock
    BY <1>1, Pointers DEF Held
  <2>2. blk'[b] = [blk[b] EXCEPT !.size = n] /\ blk' = [blk EXCEPT ![b] = blk'[b]]
    BY <1>1, <1>5, <2>1 DEF TypeOK
  <2>3. blk'[b].p = blk[b].p /\ b \in Held'
    <3>1. Held' = Held
      BY <1>1, <1>5, ResizeHeld
    <3>2. QED
      BY <2>1, <2>2, <3>1
  <2>4. H!Place(b)
    BY <1>1, <2>1, <2>2, <2>3, Placing
  <2>5. H!Realloc(b)
    BY <2>1, <2>3, <2>4 DEF H!Realloc
  <2>6. QED
    BY <2>1, <2>5 DEF H!Next
<1>6. CASE MallocFirst(c)
  <2>1. PICK b \in Blocks, size \in Sizes \union NewSizes :
          Allocated(HEAP_START) = 0 /\ Return(c, b, HEAP_START, size)
    BY <1>6 DEF MallocFirst
  <2>2. size \in Nat /\ HEAP_START \in Nat
    BY SizeFacts, HeapAssumption
  <2>3. b \in Held'
    BY <1>1, <2>1, <2>2, ReturnHeld
  <2>4. b \notin Held
    <3>1. HEAP_START \in Headers
      BY HeapAssumption DEF Headers, SizeofArena
    <3>2. QED
      BY <1>1, <1>3, <2>1, <3>1, Cells, Unallocated
  <2>5. blk' = [blk EXCEPT ![b] = blk'[b]]
    BY <1>1, <2>1 DEF Return, TypeOK
  <2>6. H!Malloc(b)
    <3>1. H!Place(b)
      BY <1>1, <2>3, <2>5, Placing
    <3>2. QED
      BY <2>4, <3>1 DEF H!Malloc, Held
  <2>7. QED
    BY <2>6 DEF H!Next
<1>7. CASE Insert(c)
  <2>1. PICK b, n, size : b = reg[c].b /\ n = End(reg[c].cand) /\ size = Align(reg[c].want)
    OBVIOUS
  <2>2. b \in Blocks /\ blk' = [blk EXCEPT ![b] = blk'[b]] /\ blk'[b] \in [p : Nat, size : Nat]
    BY <1>1, <1>3, <1>7, <2>1, InsertPlace
  <2>3. b \in Held'
    BY <2>2, NamesAssumption DEF Held
  <2>4. H!Place(b)
    BY <1>1, <2>2, <2>3, Placing
  <2>5. CASE b \in Held
    <3>1. H!Bytes(blk'[b]) \intersect H!Bytes(blk[b]) = {}
      BY <1>1, <1>3, <1>7, <2>1, <2>5, Moving
    <3>2. H!Realloc(b)
      BY <2>4, <2>5, <3>1 DEF H!Realloc, Held
    <3>3. QED
      BY <2>2, <3>2 DEF H!Next
  <2>6. CASE b \notin Held
    <3>1. H!Malloc(b)
      BY <2>2, <2>4, <2>6 DEF H!Malloc, Held
    <3>2. QED
      BY <2>2, <3>1 DEF H!Next
  <2>7. QED
    BY <2>5, <2>6
<1>8. CASE FreeBegin(c)
  <2>1. PICK b \in Held : blk' = [blk EXCEPT ![b] = NoBlock]
    BY <1>8 DEF FreeBegin, Usable
  <2>2. H!Free(b) /\ b \in Blocks
    BY <2>1 DEF H!Free, Held
  <2>3. QED
    BY <2>2 DEF H!Next
<1>9. CASE ReallocShrink(c)
  <2>1. PICK b \in Held, n \in NewSizes : blk' = [blk EXCEPT ![b].size = n]
    BY <1>9 DEF ReallocShrink, ReallocCalled, Usable
  <2>2. n \in Nat
    BY SizeFacts
  <2>3. QED
    BY <1>5, <2>1, <2>2
<1>10. CASE ReallocGrow(c)
  <2>1. blk' = [blk EXCEPT ![reg[c].b].size = reg[c].want] /\ reg[c].b \in Held /\ reg[c].want \in Nat
    BY <1>1, <1>10 DEF ReallocGrow, InHand, TypeOK
  <2>2. QED
    BY <1>5, <2>1
<1>11. QED
  BY <1>4, <1>6, <1>7, <1>8, <1>9, <1>10

\* Until a hazard strikes, what the calls do to the blocks is what the
\* abstract heap allows: the memory manager implements it.
THEOREM Implements == Spec => ImplementsHeap
<1>1. Init => H!Init
  BY DEF Init, H!Init
<1>2. QED
  BY <1>1, Invariant, HeapStep, PTL DEF Spec, ImplementsHeap
=============================================================================
