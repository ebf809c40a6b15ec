---------------------------- MODULE MemoryManager ----------------------------
(***************************************************************************)
(* The heap: a doubly linked list of Arena headers in the heap itself,     *)
(* searched first-fit.                                                     *)
(*                                                                         *)
(* Memory is a function from byte addresses to the word stored there, so   *)
(* that a header written over another one destroys it, as on the device.   *)
(* Payloads are not modelled: the manager never reads one. malloc runs     *)
(* with interrupts masked, free and realloc do not, and so another task    *)
(* may run between their accesses to the list.                             *)
(***************************************************************************)
EXTENDS Integers, FiniteSets

CONSTANTS
  Clients,     \* the tasks that call the heap
  Blocks,      \* names for the blocks clients hold; bounds how many
  Sizes,       \* sizes passed to malloc
  NewSizes,    \* sizes passed to realloc
  HEAP_START,
  HEAP_END,
  Top,         \* last byte of RAM the model keeps, in the stack reserve
  AddrSpace,   \* addresses are counted modulo this
  KeepFirst,   \* TRUE: the first block is freed last
  NoClient,
  NoBlock

SizeofArena == 12
nullptr == 0
Addr == HEAP_START..Top

ASSUME HeapAssumption ==
  /\ HEAP_START \in Nat \ {0} /\ HEAP_END \in Nat /\ Top \in Nat /\ AddrSpace \in Nat
  /\ HEAP_START + SizeofArena <= HEAP_END /\ HEAP_END <= Top /\ Top < AddrSpace
ASSUME SizesAssumption ==
  /\ Sizes \in SUBSET (Nat \ {0}) /\ NewSizes \in SUBSET (Nat \ {0})
  /\ \A n \in Sizes \union NewSizes : n + 3 < AddrSpace
ASSUME NamesAssumption ==
  /\ NoClient \notin Clients
  /\ NoBlock \notin [p : Nat, size : Nat]
  /\ Blocks # {}

VARIABLES
  mem,     \* the words of the heap
  blk,     \* what each held block is: its pointer and the size asked for
  masked,  \* the client that runs with interrupts masked
  pc,      \* where each client is in a call
  reg,     \* its registers there
  spoilt   \* history: something fell on the heap that the list does not survive

vars == <<mem, blk, masked, pc, reg, spoilt>>

-----------------------------------------------------------------------------
(***************************************************************************)
(* Arena fields. A load outside the words kept yields 0 and a store there  *)
(* is lost: below the heap lies flash.                                     *)
(***************************************************************************)
Word(m, a)   == IF a \in Addr THEN m[a] ELSE 0
Load(a)      == Word(mem, a)
Allocated(a) == Load(a)
Next_(a)     == Load(a + 4)
Prev_(a)     == Load(a + 8)

\* Variant: rounding goes down.
AlignDown(size) == 4 * ((size - 4) \div 4)

\* (size + 3) & ~3
Align(size) == 4 * (((size + 3) % AddrSpace) \div 4)

\* Unsigned subtraction of addresses.
Minus(x, y) == IF x >= y THEN x - y ELSE x - y + AddrSpace

\* Variant: the header is not counted.
EndOfPayload(a) == a + Allocated(a)

\* The first byte after a block.
End(a) == a + SizeofArena + Allocated(a)

\* Room after a block, as malloc and realloc measure it.
Gap(a) == Minus(Next_(a), End(a))

Held   == {b \in Blocks : blk[b] # NoBlock}
Base(b) == blk[b].p - SizeofArena

-----------------------------------------------------------------------------
(***************************************************************************)
(* Between the first load and the last store of free, and between the      *)
(* check and the store of a growing realloc, the list must not change      *)
(* under the client. spoilt records that it was used there, that a block   *)
(* was put where its header has no room, or that the first block was freed *)
(* before the others.                                                      *)
(***************************************************************************)
Window == {"grow", "unlinkNext", "unlinkPrev", "clear"}

PC == {"idle", "scan", "replace", "load"} \union Window

Intrudes(c) == \E d \in Clients \ {c} : pc[d] \in Window

TypeOK ==
  /\ mem \in [Addr -> Nat]
  /\ blk \in [Blocks -> [p : Nat, size : Nat] \union {NoBlock}]
  /\ masked \in Clients \union {NoClient}
  /\ pc \in [Clients -> PC]
  /\ reg \in [Clients -> [b : Blocks, want : Nat, arena : Int,
                          cand : Nat, prev : Nat, next : Nat]]
  /\ spoilt \in BOOLEAN

Runs(c) == masked \in {NoClient, c}

\* A client outside every call holds nothing of the list in registers.
NoReg == [b |-> CHOOSE b \in Blocks : TRUE, want |-> 0, arena |-> 0, cand |-> 0, prev |-> 0, next |-> 0]
Done(c) == pc' = [pc EXCEPT ![c] = "idle"] /\ reg' = [reg EXCEPT ![c] = NoReg]

\* MM::init, after which no call is active.
Init ==
  /\ mem = [a \in Addr |-> IF a = HEAP_START + 4 THEN HEAP_END ELSE 0]
  /\ blk = [b \in Blocks |-> NoBlock]
  /\ masked = NoClient
  /\ pc = [c \in Clients |-> "idle"]
  /\ reg = [c \in Clients |-> NoReg]
  /\ spoilt = FALSE

\* A block in the hands of a realloc is not passed to another call.
Usable(b) ==
  b \in Held /\ \A c \in Clients : pc[c] \in {"grow", "replace"} => reg[c].b # b

-----------------------------------------------------------------------------
(***************************************************************************)
(* malloc, called by a client or by its realloc. It masks interrupts and   *)
(* walks the list from the first arena to the first one with room behind   *)
(* it. An unallocated first arena is taken without looking at its room.    *)
(***************************************************************************)
MallocCalled(c, b, size) ==
  /\ Runs(c)
  /\ \/ pc[c] = "idle" /\ b \notin Held /\ size \in Sizes
     \/ pc[c] = "replace" /\ b = reg[c].b /\ size = reg[c].want

\* malloc returns block b at address a; a realloc goes on to free the old one.
Return(c, b, a, size) ==
  /\ blk' = [blk EXCEPT ![b] = [p |-> a + SizeofArena, size |-> size]]
  /\ IF b \in Held
     THEN /\ pc' = [pc EXCEPT ![c] = "load"]
          /\ reg' = [reg EXCEPT ![c] = [NoReg EXCEPT !.arena = Base(b)]]
     ELSE Done(c)

MallocFirst(c) == \E b \in Blocks, size \in Sizes \union NewSizes :
  /\ MallocCalled(c, b, size)
  /\ Allocated(HEAP_START) = 0
  /\ mem' = [mem EXCEPT ![HEAP_START] = Align(size)]
  /\ Return(c, b, HEAP_START, size)
  /\ spoilt' = (spoilt \/ Intrudes(c)
                 \/ HEAP_START + SizeofArena + Align(size) > Next_(HEAP_START))
  /\ UNCHANGED masked

\* Variant: interrupts stay enabled.
MallocBeginUnmasked(c) == \E b \in Blocks, size \in Sizes \union NewSizes :
  /\ MallocCalled(c, b, size)
  /\ Allocated(HEAP_START) # 0
  /\ pc' = [pc EXCEPT ![c] = "scan"]
  /\ reg' = [reg EXCEPT ![c].b = b, ![c].want = size, ![c].cand = HEAP_START]
  /\ UNCHANGED <<mem, blk, masked, spoilt>>

MallocBegin(c) == \E b \in Blocks, size \in Sizes \union NewSizes :
  /\ MallocCalled(c, b, size)
  /\ Allocated(HEAP_START) # 0
  /\ masked' = c
  /\ pc' = [pc EXCEPT ![c] = "scan"]
  /\ reg' = [reg EXCEPT ![c].b = b, ![c].want = size, ![c].cand = HEAP_START]
  /\ spoilt' = (spoilt \/ Intrudes(c))
  /\ UNCHANGED <<mem, blk>>

\* Variant: the walk does not advance.
ScanStays(c) ==
  /\ Runs(c) /\ pc[c] = "scan"
  /\ Gap(reg[c].cand) < Align(reg[c].want)
  /\ Next_(reg[c].cand) # HEAP_END
  /\ UNCHANGED vars

Scan(c) ==
  /\ Runs(c) /\ pc[c] = "scan"
  /\ Gap(reg[c].cand) < Align(reg[c].want)
  /\ Next_(reg[c].cand) # HEAP_END
  /\ reg' = [reg EXCEPT ![c].cand = Next_(reg[c].cand)]
  /\ UNCHANGED <<mem, blk, masked, pc, spoilt>>

\* Variant: the walk gives up at the first arena without room.
OutOfMemoryAtOnce(c) ==
  /\ Runs(c) /\ pc[c] = "scan"
  /\ Gap(reg[c].cand) < Align(reg[c].want)
  /\ masked' = NoClient
  /\ Done(c)
  /\ UNCHANGED <<mem, blk, spoilt>>

\* malloc, and with it realloc, returns nullptr.
OutOfMemory(c) ==
  /\ Runs(c) /\ pc[c] = "scan"
  /\ Gap(reg[c].cand) < Align(reg[c].want)
  /\ Next_(reg[c].cand) = HEAP_END
  /\ masked' = NoClient
  /\ Done(c)
  /\ UNCHANGED <<mem, blk, spoilt>>

\* Variant: the successor's prev is not updated.
LinkedOneWay(a, new, size) ==
  [mem EXCEPT ![new] = size, ![new + 4] = Next_(a), ![new + 8] = a, ![a + 4] = new]

\* Memory once a new arena is linked behind a, in the order of the stores.
Linked(a, new, size) ==
  LET back == IF Next_(a) # HEAP_END THEN [mem EXCEPT ![Next_(a) + 8] = new] ELSE mem
  IN  [back EXCEPT ![new] = size, ![new + 4] = Next_(a), ![new + 8] = a, ![a + 4] = new]

Insert(c) ==
  LET a == reg[c].cand
      size == Align(reg[c].want)
  IN  /\ Runs(c) /\ pc[c] = "scan"
      /\ Gap(a) >= size
      /\ mem' = Linked(a, End(a), size)
      /\ masked' = NoClient
      /\ Return(c, reg[c].b, End(a), reg[c].want)
      /\ spoilt' = (spoilt \/ Gap(a) < size + SizeofArena)

-----------------------------------------------------------------------------
(***************************************************************************)
(* free. The pointer is given up when the call begins.                     *)
(***************************************************************************)
FreeBegin(c) == \E b \in Blocks :
  /\ Runs(c) /\ pc[c] = "idle" /\ Usable(b)
  /\ KeepFirst /\ Base(b) = HEAP_START => Held = {b}
  /\ blk' = [blk EXCEPT ![b] = NoBlock]
  /\ pc' = [pc EXCEPT ![c] = "load"]
  /\ reg' = [reg EXCEPT ![c].arena = Base(b)]
  /\ UNCHANGED <<mem, masked, spoilt>>

\* Lines 76 to 79 are skipped for the last arena of the list.
ThenPrev(n) == IF n # HEAP_END THEN "unlinkPrev" ELSE "clear"

FreeLoad(c) ==
  LET a == reg[c].arena
  IN  /\ Runs(c) /\ pc[c] = "load"
      /\ reg' = [reg EXCEPT ![c].prev = Prev_(a), ![c].next = Next_(a)]
      /\ pc' = [pc EXCEPT ![c] = IF Prev_(a) # nullptr THEN "unlinkNext" ELSE ThenPrev(Next_(a))]
      /\ spoilt' = (spoilt \/ Intrudes(c) \/ (a = HEAP_START /\ Next_(a) # HEAP_END))
      /\ UNCHANGED <<mem, blk, masked>>

\* arena->prev->next = arena->next, then the loads of lines 76 and 77.
FreeUnlinkNext(c) ==
  LET a == reg[c].arena
  IN  /\ Runs(c) /\ pc[c] = "unlinkNext"
      /\ mem' = [mem EXCEPT ![reg[c].prev + 4] = reg[c].next]
      /\ reg' = [reg EXCEPT ![c].prev = Word(mem', a + 8), ![c].next = Word(mem', a + 4)]
      /\ pc' = [pc EXCEPT ![c] = ThenPrev(Word(mem', a + 4))]
      /\ spoilt' = (spoilt \/ Intrudes(c))
      /\ UNCHANGED <<blk, masked>>

FreeUnlinkPrev(c) ==
  /\ Runs(c) /\ pc[c] = "unlinkPrev"
  /\ mem' = [mem EXCEPT ![reg[c].next + 8] = reg[c].prev]
  /\ pc' = [pc EXCEPT ![c] = "clear"]
  /\ spoilt' = (spoilt \/ Intrudes(c))
  /\ UNCHANGED <<blk, masked, reg>>

\* The stores into the arena's own header, which ends the call.
Cleared(a, n) ==
  [mem EXCEPT ![a] = 0, ![a + 4] = IF n # HEAP_END THEN nullptr ELSE @, ![a + 8] = nullptr]

FreeClear(c) ==
  /\ Runs(c) /\ pc[c] = "clear"
  /\ mem' = Cleared(reg[c].arena, reg[c].next)
  /\ Done(c)
  /\ spoilt' = (spoilt \/ Intrudes(c))
  /\ UNCHANGED <<blk, masked>>

-----------------------------------------------------------------------------
(***************************************************************************)
(* realloc: shrink in place, grow in place, or move. The size is not       *)
(* aligned here.                                                           *)
(***************************************************************************)
ReallocCalled(c, b) == Runs(c) /\ pc[c] = "idle" /\ Usable(b)

ReallocShrink(c) == \E b \in Blocks, size \in NewSizes :
  /\ ReallocCalled(c, b)
  /\ Allocated(Base(b)) >= size
  /\ mem' = [mem EXCEPT ![Base(b)] = size]
  /\ blk' = [blk EXCEPT ![b].size = size]
  /\ spoilt' = (spoilt \/ Intrudes(c))
  /\ UNCHANGED <<masked, pc, reg>>

\* Variant: a block grows in place whatever follows it.
ReallocCheckGrows(c) == \E b \in Blocks, size \in NewSizes :
  /\ ReallocCalled(c, b)
  /\ Allocated(Base(b)) < size
  /\ pc' = [pc EXCEPT ![c] = "grow"]
  /\ reg' = [reg EXCEPT ![c].b = b, ![c].want = size, ![c].arena = Base(b)]
  /\ UNCHANGED <<mem, blk, masked, spoilt>>

ReallocCheck(c) == \E b \in Blocks, size \in NewSizes :
  /\ ReallocCalled(c, b)
  /\ Allocated(Base(b)) < size
  /\ pc' = [pc EXCEPT ![c] = IF Gap(Base(b)) >= size THEN "grow" ELSE "replace"]
  /\ reg' = [reg EXCEPT ![c].b = b, ![c].want = size, ![c].arena = Base(b)]
  /\ spoilt' = (spoilt \/ Intrudes(c))
  /\ UNCHANGED <<mem, blk, masked>>

ReallocGrow(c) ==
  /\ Runs(c) /\ pc[c] = "grow"
  /\ mem' = [mem EXCEPT ![reg[c].arena] = reg[c].want]
  /\ blk' = [blk EXCEPT ![reg[c].b].size = reg[c].want]
  /\ Done(c)
  /\ spoilt' = (spoilt \/ Intrudes(c))
  /\ UNCHANGED masked

-----------------------------------------------------------------------------
Malloc(c)  == MallocFirst(c) \/ MallocBegin(c) \/ Scan(c) \/ OutOfMemory(c) \/ Insert(c)
Free(c)    == FreeBegin(c) \/ FreeLoad(c) \/ FreeUnlinkNext(c) \/ FreeUnlinkPrev(c) \/ FreeClear(c)
Realloc(c) == ReallocShrink(c) \/ ReallocCheck(c) \/ ReallocGrow(c)

Step(c) == Malloc(c) \/ Free(c) \/ Realloc(c)

Next == \E c \in Clients : Step(c)

\* A client that runs with interrupts masked is not preempted.
Fairness == \A c \in Clients : WF_vars(Scan(c) \/ OutOfMemory(c) \/ Insert(c))

Spec == Init /\ [][Next]_vars /\ Fairness

-----------------------------------------------------------------------------
\* The arenas on the list: those of held blocks, the first one whether or not
\* it is allocated, and one that free is about to take off.
Leaving == {reg[c].arena : c \in {d \in Clients : pc[d] \in {"load", "unlinkNext"}}}
Arenas  == {HEAP_START} \union {Base(b) : b \in Held} \union Leaving

\* prev of an arena, or what free is about to store there.
Before(a) ==
  IF \E c \in Clients : pc[c] = "unlinkPrev" /\ reg[c].next = a
  THEN reg[CHOOSE c \in Clients : pc[c] = "unlinkPrev" /\ reg[c].next = a].prev
  ELSE Prev_(a)

Disjoint(b, d) ==
  blk[b].p + blk[b].size <= Base(d) \/ blk[d].p + blk[d].size <= Base(b)

\* Whatever order blocks are asked for, resized and given back in, no two
\* held blocks share a byte, none reaches into another's header, and all lie
\* between HEAP_START and HEAP_END.
BlocksDisjoint ==
  ~spoilt =>
    /\ \A b \in Held : HEAP_START <= Base(b) /\ blk[b].p + blk[b].size <= HEAP_END
    /\ \A b, d \in Held : b # d => Disjoint(b, d)

\* The list runs through all arenas in the order of their addresses up to
\* HEAP_END, no arena reaches over the next one, prev is the inverse of next
\* at every point where another task can look, and the first arena is only
\* unallocated when it is alone.
ListIntact ==
  ~spoilt =>
    /\ Before(HEAP_START) = nullptr
    /\ \A a \in Arenas :
         /\ Next_(a) \in {n \in Arenas : a < n /\ Before(n) = a} \union {HEAP_END}
         /\ End(a) <= Next_(a)
         /\ \A b \in Arenas : b > a => b >= Next_(a)
    /\ Allocated(HEAP_START) = 0 => Next_(HEAP_START) = HEAP_END

\* Both, at every point of every interleaving of the calls' loads and stores,
\* until one of the hazards in spoilt strikes.
HeapSound == BlocksDisjoint /\ ListIntact

\* malloc answers nullptr only when no arena anywhere on the list has room
\* behind it, and puts a block behind the first that has.
FirstFitStep ==
  ~spoilt' => \A c \in Clients : pc[c] = "scan" /\ pc'[c] # "scan" =>
       \A a \in Arenas : Gap(a) >= Align(reg[c].want) =>
         blk' # blk /\ blk'[reg[c].b].p <= End(a) + SizeofArena

FirstFit == [][FirstFitStep]_vars

\* The walk of malloc, during which nothing else can run, ends.
ScanEnds == \A c \in Clients : pc[c] = "scan" ~> (pc[c] # "scan" \/ spoilt)

\* The abstract heap, as long as nothing spoilt the list.
H == INSTANCE Heap WITH held <- blk

\* Every step of a call that gives out, moves, resizes or takes back a block
\* does what the abstract heap allows, for that block alone; a moved block
\* does not overlap the old one it is copied from.
ImplementsHeap == H!Init /\ [][~spoilt' => H!Next]_blk

Resting == \A c \in Clients : pc[c] = "idle"

\* What memorymanager.cpp says of its comparison, that the space between
\* blocks is enough: no arena reaches over the one that follows it.
SpaceIsEnough == Resting => \A b \in Held : End(Base(b)) <= Next_(Base(b))

\* What memorymanager.hpp says of Arena::allocated, that it is the number of
\* bytes allocated in the arena, for every block in the hands of a client.
AllocatedIsSize == \A b \in Held : Allocated(Base(b)) >= blk[b].size
=============================================================================
