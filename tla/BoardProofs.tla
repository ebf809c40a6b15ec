---------------------------- MODULE BoardProofs -----------------------------
(***************************************************************************)
(* What is proved about the parts that drive the board and share no state: *)
(* the start of the tasks, the tick with delayMs, and the flash with its   *)
(* driver.                                                                 *)
(***************************************************************************)
EXTENDS Start, Clock, Flash, TLAPS

-----------------------------------------------------------------------------
(***************************************************************************)
(* The start: TypeOK and OwnStack, for any number of tasks and any depth   *)
(* of their stacks.                                                        *)
(***************************************************************************)
Made == {Order[i] : i \in 1..created}

\* The ring leads only to tasks that were created.
RingInv ==
  /\ created > 0 => cur \in Made
  /\ created = 0 => cur = nullptr
  /\ \A t \in Made : next[t] \in Made

\* What main's place says of the processor's state.
PlaceInv ==
  /\ main # "create" => created = Len(Order)
  /\ spsel <=> main = "task"
  /\ me # nullptr <=> main = "task"
  /\ inStart => main = "task"

\* Up to StartControl every created task has the context createTask built,
\* and cur is the first one.
BootInv ==
  ~struck /\ main # "task" =>
    /\ created > 0 => cur = FirstTask
    /\ \A t \in Made : sp[t] = At(t, Saved + Frame)
    /\ \A t \in Tasks : need[t] = 0
    /\ main = "psp" => psp = At(FirstTask, Saved + Frame)

\* From there on every context is its task's own, at its depth.
TasksInv ==
  ~struck /\ main = "task" =>
    /\ me = cur /\ psp = At(me, need[me])
    /\ \A t \in Made : t # me => sp[t] = At(t, need[t] + Saved + Frame)
    /\ inStart => need[FirstTask] = Saved + Frame

StartedInv == TypeOK /\ RingInv /\ PlaceInv /\ BootInv /\ TasksInv

USE DEF Saved, Frame

-----------------------------------------------------------------------------
\* An order that is not empty has a first task, and created tasks are tasks.
LEMMA OrderFacts ==
  /\ Len(Order) \in Nat \ {0} /\ FirstTask \in Tasks
  /\ \A i \in 1..Len(Order) : Order[i] \in Tasks
  BY OrderAssumption DEF FirstTask

LEMMA MadeTasks == ASSUME TypeOK PROVE Made \subseteq Tasks
  BY OrderFacts DEF TypeOK, Made

LEMMA AtStack == ASSUME NEW t \in Tasks, NEW n \in Int PROVE At(t, n) \in Stack
  BY DEF At, Stack

\* The running context moves along the ring, and comes back as it was saved.
LEMMA PopPush == ASSUME NEW p \in Stack, NEW n \in Int, NEW k \in Int
  PROVE /\ Push(p, n) \in Stack /\ PopOff(p, n) \in Stack
        /\ PopOff(Push(p, n), n) = p
<1>1. p = At(p.of, p.used) /\ p.of \in Tasks \union {Unknown, nullptr} /\ p.used \in Int
  BY DEF Stack, At
<1>2. QED
  BY <1>1 DEF Push, PopOff, Stack, At

LEMMA StartInitInv == Init => StartedInv
<1> SUFFICES ASSUME Init PROVE StartedInv
  OBVIOUS
<1>1. TypeOK
  <2>1. At(nullptr, 0) \in Stack /\ At(Unknown, 0) \in Stack
    BY DEF At, Stack
  <2>2. 0 \in 0..(Saved + Frame + MaxDepth) /\ 0 \in 0..Len(Order)
    BY OrderFacts, NullAssumption
  <2>3. QED
    BY <2>1, <2>2 DEF Init, TypeOK
<1>2. Made = {}
  BY DEF Init, Made
<1>3. QED
  BY <1>1, <1>2 DEF Init, StartedInv, RingInv, PlaceInv, BootInv, TasksInv

-----------------------------------------------------------------------------
LEMMA StartTickInv == StartedInv /\ (SysTickHandler \/ PendSvNoTask) => StartedInv'
<1> SUFFICES ASSUME StartedInv, SysTickHandler \/ PendSvNoTask PROVE StartedInv'
  OBVIOUS
<1>1. /\ pendsv' \in BOOLEAN
      /\ UNCHANGED <<cur, next, sp, psp, spsel, created, main, me, inStart, need, struck>>
  BY DEF SysTickHandler, PendSvNoTask
<1>2. TypeOK'
  BY <1>1 DEF StartedInv, TypeOK
<1>3. RingInv' /\ PlaceInv' /\ BootInv' /\ TasksInv'
  BY <1>1 DEF StartedInv, RingInv, PlaceInv, BootInv, TasksInv, Made
<1>4. QED
  BY <1>2, <1>3 DEF StartedInv

LEMMA PendSvInv == StartedInv /\ PendSvHandler => StartedInv'
<1> SUFFICES ASSUME StartedInv, PendSvHandler PROVE StartedInv'
  OBVIOUS
<1> USE DEF PendSvHandler
<1>1. cur \in Tasks /\ cur \in Made /\ cur' = next[cur] /\ cur' \in Made /\ cur' \in Tasks
  BY MadeTasks DEF StartedInv, TypeOK, RingInv
<1>2. Context \in Stack
  <2>1. psp \in Stack /\ Saved + (IF spsel THEN Frame ELSE 0) \in Int
    BY DEF StartedInv, TypeOK
  <2>2. QED
    BY <2>1, PopPush DEF Context
<1>3. sp' \in [Tasks -> Stack] /\ sp'[cur] = Context /\ (\A t \in Tasks : t # cur => sp'[t] = sp[t])
  BY <1>1, <1>2 DEF StartedInv, TypeOK
<1>4. psp' \in Stack
  BY <1>1, <1>3, PopPush
<1>5. TypeOK'
  BY <1>1, <1>3, <1>4 DEF StartedInv, TypeOK
<1>6. Made' = Made
  BY DEF Made
<1>7. RingInv' /\ PlaceInv'
  <2>1. created > 0
    BY <1>1 DEF Made, StartedInv, TypeOK
  <2>2. RingInv'
    BY <1>1, <1>6, <2>1 DEF StartedInv, RingInv
  <2>3. PlaceInv'
    BY <1>1, NullAssumption DEF StartedInv, PlaceInv
  <2>4. QED
    BY <2>2, <2>3
<1>8. BootInv'
  BY DEF StartedInv, PlaceInv, BootInv
<1>9. TasksInv'
  <2> SUFFICES ASSUME ~struck', main' = "task" PROVE
        /\ me' = cur' /\ psp' = At(me', need'[me'])
        /\ \A t \in Made' : t # me' => sp'[t] = At(t, need'[t] + Saved + Frame)
        /\ inStart' => need'[FirstTask] = Saved + Frame
    BY DEF TasksInv
  <2>1. /\ me = cur /\ psp = At(cur, need[cur]) /\ me' = cur' /\ spsel
        /\ \A t \in Made : t # cur => sp[t] = At(t, need[t] + Saved + Frame)
        /\ inStart => need[FirstTask] = Saved + Frame
        /\ need \in [Tasks -> Int] /\ need' = need /\ inStart' = inStart
    BY <1>1, NullAssumption DEF StartedInv, PlaceInv, TasksInv, TypeOK
  <2>2. Context = At(cur, need[cur] + Saved + Frame)
    BY <2>1, <1>1 DEF Context, Push, At
  <2>3. \A t \in Made : sp'[t] = At(t, need[t] + Saved + Frame)
    BY <2>1, <2>2, <1>1, <1>3, MadeTasks DEF StartedInv
  <2>4. psp' = At(cur', need[cur'])
    <3>1. sp'[cur'] = At(cur', need[cur'] + Saved + Frame) /\ need[cur'] \in Int
      BY <2>1, <2>3, <1>1
    <3>2. psp' = PopOff(sp'[cur'], Saved + Frame)
      BY <2>1
    <3>3. QED
      BY <3>1, <3>2 DEF PopOff, At
  <2>5. QED
    BY <2>1, <2>3, <2>4, <1>6
<1>10. QED
  BY <1>5, <1>7, <1>8, <1>9 DEF StartedInv

LEMMA CreateInv == StartedInv /\ CreateTask => StartedInv'
<1> SUFFICES ASSUME StartedInv, CreateTask PROVE StartedInv'
  OBVIOUS
<1> DEFINE t == Order[created + 1]
<1>1. /\ created \in 0..Len(Order) /\ created < Len(Order) /\ created' = created + 1
      /\ t \in Tasks /\ main = "create" /\ main' = "create"
  BY OrderFacts DEF StartedInv, TypeOK, CreateTask
<1>2. Made' = Made \union {t}
  BY <1>1, OrderFacts DEF Made
<1>3. sp' = [sp EXCEPT ![t] = At(t, Saved + Frame)] /\ At(t, Saved + Frame) \in Stack
  BY <1>1, AtStack DEF CreateTask
<1>4. CASE cur = nullptr
  <2>1. created = 0 /\ cur' = t /\ next' = [next EXCEPT ![t] = t] /\ Made = {}
    <3>1. cur \notin Tasks
      BY <1>4, NullAssumption
    <3>2. created = 0
      BY <3>1, MadeTasks, <1>1 DEF StartedInv, RingInv
    <3>3. QED
      BY <1>4, <3>2 DEF CreateTask, Made
  <2>2. t = FirstTask
    BY <2>1 DEF FirstTask
  <2>3. QED
    BY <1>1, <1>2, <1>3, <2>1, <2>2
    DEF StartedInv, CreateTask, TypeOK, RingInv, PlaceInv, BootInv, TasksInv
<1>5. CASE cur # nullptr
  <2>1. /\ created > 0 /\ cur \in Made /\ cur \in Tasks /\ cur' = cur
        /\ next' = [next EXCEPT ![t] = next[cur], ![cur] = t]
    BY <1>1, <1>5, MadeTasks DEF StartedInv, RingInv, CreateTask
  <2>2. TypeOK'
    BY <1>1, <1>3, <2>1 DEF StartedInv, TypeOK, CreateTask
  <2>3. RingInv'
    BY <1>1, <1>2, <2>1, MadeTasks DEF StartedInv, TypeOK, RingInv
  <2>4. PlaceInv' /\ TasksInv'
    BY <1>1 DEF StartedInv, PlaceInv, TasksInv, CreateTask
  <2>5. BootInv'
    BY <1>1, <1>2, <1>3, <2>1, MadeTasks DEF StartedInv, TypeOK, BootInv, CreateTask
  <2>6. QED
    BY <2>2, <2>3, <2>4, <2>5 DEF StartedInv
<1>6. QED
  BY <1>4, <1>5

LEMMA StartInv == StartedInv /\ (StartLoadPsp \/ StartControl) => StartedInv'
<1>1. ASSUME StartedInv, StartLoadPsp PROVE StartedInv'
  <2>1. cur \in Tasks /\ cur \in Made /\ Made' = Made /\ created > 0
    BY <1>1, OrderFacts, MadeTasks DEF StartedInv, RingInv, StartLoadPsp, Made
  <2>2. TypeOK' /\ RingInv' /\ PlaceInv' /\ TasksInv'
    BY <1>1, <2>1 DEF StartedInv, TypeOK, RingInv, PlaceInv, TasksInv, StartLoadPsp
  <2>3. BootInv'
    BY <1>1, <2>1 DEF StartedInv, BootInv, StartLoadPsp
  <2>4. QED
    BY <2>2, <2>3 DEF StartedInv
<1>2. ASSUME StartedInv, StartControl PROVE StartedInv'
  <2>1. cur \in Tasks /\ cur \in Made /\ Made' = Made /\ created > 0
    BY <1>2, OrderFacts, MadeTasks DEF StartedInv, RingInv, PlaceInv, StartControl, Made
  <2>2. TypeOK'
    BY <1>2, <2>1, NullAssumption DEF StartedInv, TypeOK, StartControl
  <2>3. RingInv' /\ PlaceInv' /\ BootInv'
    BY <1>2, <2>1, NullAssumption DEF StartedInv, RingInv, PlaceInv, BootInv, StartControl
  <2>4. TasksInv'
    BY <1>2, <2>1, MadeTasks DEF StartedInv, TypeOK, BootInv, TasksInv, StartControl
  <2>5. QED
    BY <2>2, <2>3, <2>4 DEF StartedInv
<1>3. QED
  BY <1>1, <1>2

LEMMA StartPopInv == StartedInv /\ StartPop => StartedInv'
<1> SUFFICES ASSUME StartedInv, StartPop PROVE StartedInv'
  OBVIOUS
<1>1. FirstTask \in Tasks /\ Made' = Made /\ me = FirstTask
  BY OrderFacts DEF Made, StartPop
<1>2. TypeOK'
  <2>1. psp' \in Stack
    BY PopPush DEF StartedInv, TypeOK, StartPop
  <2>2. need' \in [Tasks -> 0..(Saved + Frame + MaxDepth)]
    BY <1>1, NullAssumption DEF StartedInv, TypeOK, StartPop
  <2>3. QED
    BY <2>1, <2>2 DEF StartedInv, TypeOK, StartPop
<1>3. RingInv' /\ PlaceInv' /\ BootInv'
  BY <1>1 DEF StartedInv, RingInv, PlaceInv, BootInv, StartPop
<1>4. TasksInv'
  BY <1>1, MadeTasks DEF StartedInv, TypeOK, TasksInv, StartPop, PopOff, At
<1>5. QED
  BY <1>2, <1>3, <1>4 DEF StartedInv

LEMMA RunInv == StartedInv /\ Run => StartedInv'
<1> SUFFICES ASSUME StartedInv, NEW n \in 0..MaxDepth,
             ~pendsv, me # nullptr, ~(inStart /\ me = FirstTask),
             need' = [need EXCEPT ![me] = n],
             psp' = Push(psp, n - need[me]),
             UNCHANGED <<cur, next, sp, spsel, pendsv, created, main, me, inStart, struck>>
      PROVE StartedInv'
  BY DEF Run
<1>1. me \in Tasks /\ Made' = Made /\ n \in Int /\ need[me] \in Int
  BY NullAssumption DEF StartedInv, TypeOK, Made
<1>2. TypeOK'
  <2>1. psp' \in Stack
    BY <1>1, PopPush DEF StartedInv, TypeOK
  <2>2. need' \in [Tasks -> 0..(Saved + Frame + MaxDepth)]
    BY <1>1, NullAssumption DEF StartedInv, TypeOK
  <2>3. QED
    BY <2>1, <2>2 DEF StartedInv, TypeOK
<1>3. RingInv' /\ PlaceInv' /\ BootInv'
  BY <1>1 DEF StartedInv, RingInv, PlaceInv, BootInv
<1>4. TasksInv'
  BY <1>1, MadeTasks, OrderFacts DEF StartedInv, TypeOK, TasksInv, Push, At
<1>5. QED
  BY <1>2, <1>3, <1>4 DEF StartedInv

LEMMA StartStepInv == StartedInv /\ [Next]_vars => StartedInv'
<1>1. ASSUME StartedInv, UNCHANGED vars PROVE StartedInv'
  BY <1>1 DEF StartedInv, vars, TypeOK, RingInv, PlaceInv, BootInv, TasksInv, Made
<1>2. QED
  BY <1>1, StartTickInv, PendSvInv, CreateInv, StartInv, StartPopInv, RunInv DEF Next

LEMMA StartInvHolds == Spec => []StartedInv
  BY StartInitInv, StartStepInv, PTL DEF Spec

-----------------------------------------------------------------------------
\* Every variable of the boot sequence keeps its type, for any list of tasks:
\* the handler only ever switches among tasks that were created.
THEOREM StartTypeCorrect == Spec => []TypeOK
<1>1. StartedInv => TypeOK
  BY DEF StartedInv
<1>2. QED
  BY <1>1, StartInvHolds, PTL

\* For any number of tasks and any depth of their stacks, a switch leaves
\* every task's stack pointer at its own saved context and gives the
\* processor the next task's own stack, if no switch came before start() was
\* through.
THEOREM TasksKeepTheirStacks == Spec => []OwnStack
<1>1. StartedInv => OwnStack
  <2> SUFFICES ASSUME StartedInv, ~struck, me # nullptr PROVE
        /\ me = cur /\ psp = At(me, need[me])
        /\ \A i \in DOMAIN Order :
             Order[i] # me => sp[Order[i]] = At(Order[i], need[Order[i]] + Saved + Frame)
    BY DEF OwnStack
  <2>1. main = "task" /\ created = Len(Order)
    BY DEF StartedInv, PlaceInv
  <2>2. \A i \in DOMAIN Order : Order[i] \in Made
    BY <2>1, OrderAssumption DEF Made
  <2>3. QED
    BY <2>1, <2>2 DEF StartedInv, TasksInv
<1>2. QED
  BY <1>1, StartInvHolds, PTL

HIDE DEF Saved, Frame

-----------------------------------------------------------------------------
(***************************************************************************)
(* The tick: delayMs does not end early unless a carry falls between two   *)
(* loads, for any width of a word, any number of tasks and any delays.     *)
(***************************************************************************)
\* The value of the counter when its words are m, and its range.
Value(m) == m[1] + Word * m[2]
Range2 == Word * Word

Sleep == [pc : {"awake", "start", "test", "ended"}, delay : Delays \union {0},
          start : 0..Range2 - 1, half : {"", "low", "high"}, word : 0..Word - 1,
          since : 0..MaxTicks, torn : BOOLEAN]

\* The half s holds fits the pair m; a low word may be k ticks old.
HalfFits(s, m, k) ==
  /\ s.half = "high" => s.word = m[2]
  /\ s.half = "low"  => s.word <= m[1] /\ m[1] - s.word <= k

\* start is what the counter was k ticks before it was m.
Since(s, m, k) == \E q \in Int : Value(m) = s.start + k + q * Range2

SleepInv(s, m, n) ==
  /\ s.since <= n
  /\ ~s.torn =>
       /\ s.pc = "start" => \E k \in 0..n - s.since : HalfFits(s, m, k)
       /\ s.pc = "test"  => \E k \in 0..n - s.since : HalfFits(s, m, k) /\ Since(s, m, k)
       /\ s.pc = "ended" => n - s.since >= s.delay

ClockInv == ClockTypeOK /\ \A t \in Sleepers : SleepInv(sleep[t], ms, ticks)

USE ClockAssumption

-----------------------------------------------------------------------------
LEMMA PairRange == ASSUME NEW a \in 0..Word - 1, NEW b \in 0..Word - 1
  PROVE a + Word * b \in 0..Word * Word - 1
<1>1. Word * b <= Word * (Word - 1) /\ Word * b \in Nat
  OBVIOUS
<1>2. QED
  BY <1>1

LEMMA ProductNat == ASSUME NEW a \in Nat PROVE Word * a \in Nat
  OBVIOUS

LEMMA RangePositive == Range2 \in Nat \ {0}
  BY DEF Range2

LEMMA Zeros == 0 \in 0..Range2 - 1 /\ 0 \in 0..Word - 1 /\ Word - 1 \in 0..Word - 1
  BY RangePositive

LEMMA IntervalNat == ASSUME NEW n \in Int, NEW k \in 0..n PROVE k \in Nat
  OBVIOUS

LEMMA Typed == ASSUME ClockInv
  PROVE /\ ticks \in 0..MaxTicks /\ ms \in (0..Word - 1) \X (0..Word - 1)
        /\ ms[1] \in 0..Word - 1 /\ ms[2] \in 0..Word - 1
        /\ ticks \in Nat /\ ms[1] \in Nat /\ ms[2] \in Nat
        /\ sleep \in [Sleepers -> Sleep]
<1>1. /\ ticks \in 0..MaxTicks /\ ms \in (0..Word - 1) \X (0..Word - 1)
      /\ ms[1] \in 0..Word - 1 /\ ms[2] \in 0..Word - 1
      /\ sleep \in [Sleepers -> Sleep]
  BY DEF ClockInv, ClockTypeOK, Sleep, Range2
<1>2. QED
  BY <1>1, IntervalNat

LEMMA SleepTyped == ASSUME NEW s \in Sleep
  PROVE /\ s.since \in Nat /\ s.start \in Nat /\ s.word \in Nat /\ s.delay \in Nat
        /\ s.torn \in BOOLEAN
<1>1. /\ s.since \in 0..MaxTicks /\ s.start \in 0..Range2 - 1 /\ s.word \in 0..Word - 1
      /\ s.delay \in Delays \union {0} /\ s.torn \in BOOLEAN
  BY DEF Sleep
<1>2. s.since \in Nat /\ s.word \in Nat
  BY <1>1
<1>3. s.start \in Nat
  BY <1>1, RangePositive
<1>4. s.delay \in Nat
  <2>1. s.delay = 0 \/ s.delay \in Delays
    BY <1>1
  <2>2. Delays \subseteq Nat /\ 0 \in Nat
    OBVIOUS
  <2>3. QED
    BY <2>1, <2>2, Zenon
<1>5. QED
  BY <1>1, <1>2, <1>3, <1>4

\* A remainder is no larger than a number it is left by.
LEMMA RemainderBelow ==
  ASSUME NEW m \in Nat \ {0}, NEW x \in Int, NEW n \in Nat, NEW q \in Int, x = n + q * m
  PROVE  x % m <= n
<1>1. x % m \in 0..m - 1 /\ x = m * (x \div m) + (x % m)
  OBVIOUS
<1>2. CASE x % m > n
  <2>1. (x % m) - n = m * (q - (x \div m))
    BY <1>1
  <2>2. (x % m) - n \in 1..m - 1
    BY <1>1, <1>2
  <2>3. ASSUME NEW d \in Int, m * d \in 1..m - 1 PROVE FALSE
    <3>1. CASE d <= 0
      BY <2>3, <3>1
    <3>2. CASE d >= 1
      BY <2>3, <3>2
    <3>3. QED
      BY <3>1, <3>2
  <2>4. QED
    BY <2>1, <2>2, <2>3
<1>3. QED
  BY <1>1, <1>2

LEMMA ValueInt == ASSUME ClockInv PROVE Value(ms) \in Nat
  BY PairRange, Typed DEF Value

-----------------------------------------------------------------------------
LEMMA ClockInitInv == ClockInit => ClockInv
<1> SUFFICES ASSUME ClockInit PROVE ClockInv
  OBVIOUS
<1>1. Awake \in Sleep /\ Awake.since = 0 /\ Awake.pc = "awake"
  BY Zeros DEF Awake, Sleep
<1>2. ClockTypeOK
  BY <1>1, Zeros DEF ClockInit, ClockTypeOK, Sleep, Range2
<1>3. QED
  BY <1>1, <1>2 DEF ClockInit, ClockInv, SleepInv

\* The handler adds one to the pair, modulo its range.
LEMMA TickAdds == ASSUME ClockInv, SysTickCount
  PROVE /\ ms' \in (0..Word - 1) \X (0..Word - 1)
        /\ \E q \in Int : Value(ms') = Value(ms) + 1 + q * Range2
        /\ ms[1] # Word - 1 => ms'[1] = ms[1] + 1 /\ ms'[2] = ms[2]
<1>1. ms[1] \in 0..Word - 1 /\ ms[2] \in 0..Word - 1
  BY Typed
<1>2. ms' = <<(ms[1] + 1) % Word, (ms[2] + Carry(ms[1])) % Word>>
  BY DEF SysTickCount
<1>3. CASE ms[1] # Word - 1
  <2>1. ms'[1] = ms[1] + 1 /\ ms'[2] = ms[2]
    BY <1>1, <1>2, <1>3 DEF Carry
  <2>2. Value(ms') = Value(ms) + 1 + 0 * Range2
    BY <1>1, <2>1, RangePositive DEF Value
  <2>3. QED
    BY <1>1, <1>2, <1>3, <2>1, <2>2
<1>4. CASE ms[1] = Word - 1 /\ ms[2] # Word - 1
  <2>1. ms'[1] = 0 /\ ms'[2] = ms[2] + 1
    BY <1>1, <1>2, <1>4 DEF Carry
  <2>2. Value(ms') = Value(ms) + 1 + 0 * Range2
    BY <1>1, <1>4, <2>1, RangePositive DEF Value
  <2>3. QED
    BY <1>1, <1>2, <1>4, <2>1, <2>2
<1>5. CASE ms[1] = Word - 1 /\ ms[2] = Word - 1
  <2>1. ms'[1] = 0 /\ ms'[2] = 0
    BY <1>1, <1>2, <1>5 DEF Carry
  <2>2. Value(ms') = Value(ms) + 1 + (-1) * Range2
    BY <1>1, <1>5, <2>1 DEF Value, Range2
  <2>3. QED
    BY <1>1, <1>2, <1>5, <2>1, <2>2
<1>6. QED
  BY <1>3, <1>4, <1>5

LEMMA ClockTickInv == ClockInv /\ SysTickCount => ClockInv'
<1> SUFFICES ASSUME ClockInv, SysTickCount PROVE ClockInv'
  OBVIOUS
<1>1. /\ ticks \in 0..MaxTicks /\ ticks' = ticks + 1 /\ ticks' \in 0..MaxTicks
      /\ ms[1] \in 0..Word - 1 /\ ms[2] \in 0..Word - 1
  <2>1. ticks \in 0..MaxTicks /\ ms[1] \in 0..Word - 1 /\ ms[2] \in 0..Word - 1
    BY Typed
  <2>2. ticks < MaxTicks /\ ticks' = ticks + 1
    BY DEF SysTickCount
  <2>3. QED
    BY <2>1, <2>2
<1>2. ASSUME NEW t \in Sleepers
      PROVE sleep'[t] \in Sleep /\ SleepInv(sleep'[t], ms', ticks')
  <2>1. sleep[t] \in Sleep /\ SleepInv(sleep[t], ms, ticks)
    BY Typed DEF ClockInv
  <2>2. CASE sleep[t].half # "" /\ Carry(ms[1]) = 1
    <3>1. sleep'[t] = [sleep[t] EXCEPT !.torn = TRUE]
      BY <2>2 DEF SysTickCount
    <3>2. sleep'[t] \in Sleep /\ sleep'[t].since = sleep[t].since /\ sleep'[t].torn
      BY <2>1, <3>1 DEF Sleep
    <3>3. sleep'[t].since <= ticks'
      BY <1>1, <2>1, <3>2, SleepTyped DEF SleepInv
    <3>4. QED
      BY <3>2, <3>3 DEF SleepInv
  <2>3. CASE ~(sleep[t].half # "" /\ Carry(ms[1]) = 1)
    <3>1. sleep'[t] = sleep[t]
      BY <2>3 DEF SysTickCount
    <3>2. sleep[t].since \in Nat /\ sleep[t].start \in Nat /\ sleep[t].word \in Nat
      BY <2>1, SleepTyped
    <3>3. ASSUME NEW k \in Nat, HalfFits(sleep[t], ms, k) PROVE HalfFits(sleep'[t], ms', k + 1)
      <4>1. CASE sleep[t].half = ""
        BY <3>1, <4>1 DEF HalfFits
      <4>2. CASE ms[1] # Word - 1
        BY <1>1, <3>1, <3>2, <3>3, <4>2, TickAdds DEF HalfFits
      <4>3. QED
        BY <2>3, <4>1, <4>2 DEF Carry
    <3>4. ASSUME NEW k \in Nat, Since(sleep[t], ms, k) PROVE Since(sleep'[t], ms', k + 1)
      <4>1. PICK q \in Int : Value(ms) = sleep[t].start + k + q * Range2
        BY <3>4 DEF Since
      <4>2. PICK r \in Int : Value(ms') = Value(ms) + 1 + r * Range2
        BY TickAdds
      <4>3. Range2 \in Nat /\ q + r \in Int
        BY RangePositive
      <4>4. q * Range2 + r * Range2 = (q + r) * Range2 /\ q * Range2 \in Int /\ r * Range2 \in Int
        BY <4>3
      <4>5. Value(ms') = sleep'[t].start + (k + 1) + (q + r) * Range2
        BY <3>1, <3>2, <4>1, <4>2, <4>3, <4>4, ValueInt
      <4>6. QED
        BY <4>3, <4>5 DEF Since
    <3>5. ASSUME NEW k \in 0..ticks - sleep[t].since
          PROVE  k + 1 \in 0..ticks' - sleep'[t].since /\ k \in Nat
      BY <1>1, <3>1, <3>2
    <3>6. SleepInv(sleep'[t], ms', ticks')
      <4>1. sleep'[t].since <= ticks'
        BY <1>1, <2>1, <3>1, <3>2 DEF SleepInv
      <4>2. CASE sleep[t].torn
        BY <4>1, <3>1, <4>2 DEF SleepInv
      <4>3. CASE ~sleep[t].torn /\ sleep[t].pc = "start"
        BY <4>1, <2>1, <3>1, <3>3, <3>5, <4>3 DEF SleepInv
      <4>4. CASE ~sleep[t].torn /\ sleep[t].pc = "test"
        BY <4>1, <2>1, <3>1, <3>3, <3>4, <3>5, <4>4 DEF SleepInv
      <4>5. CASE ~sleep[t].torn /\ sleep[t].pc \notin {"start", "test"}
        BY <1>1, <2>1, <3>1, <3>2, <4>1, <4>5, SleepTyped DEF SleepInv
      <4>6. QED
        BY <4>2, <4>3, <4>4, <4>5
    <3>7. QED
      BY <1>1, <2>1, <3>1, <3>2, <3>6
  <2>4. QED
    BY <2>2, <2>3
<1>3. ms' \in (0..Word - 1) \X (0..Word - 1)
  BY TickAdds
<1>4. ClockTypeOK'
  <2>1. sleep' \in [Sleepers -> Sleep]
    BY <1>2 DEF SysTickCount
  <2>2. QED
    BY <1>1, <1>3, <2>1 DEF ClockTypeOK, Sleep, Range2
<1>5. QED
  BY <1>2, <1>4 DEF ClockInv

-----------------------------------------------------------------------------
\* A step of task t leaves the counter and the other tasks alone.
LEMMA OneSleeper ==
  ASSUME ClockInv, NEW t \in Sleepers, NEW s \in Sleep, SleepInv(s, ms, ticks),
         sleep' = [sleep EXCEPT ![t] = s], UNCHANGED <<ms, ticks>>
  PROVE  ClockInv'
<1>1. sleep' \in [Sleepers -> Sleep] /\ \A u \in Sleepers : SleepInv(sleep'[u], ms, ticks)
  BY Typed DEF ClockInv
<1>2. ClockTypeOK'
  BY <1>1, Typed DEF ClockTypeOK, Sleep, Range2
<1>3. QED
  BY <1>1, <1>2 DEF ClockInv

LEMMA DelayCallInv == ASSUME NEW t \in Sleepers PROVE ClockInv /\ DelayMs(t) => ClockInv'
<1> SUFFICES ASSUME ClockInv, DelayMs(t) PROVE ClockInv'
  OBVIOUS
<1>1. PICK d \in Delays :
        sleep' = [sleep EXCEPT ![t] = [Awake EXCEPT !.pc = "start", !.delay = d, !.since = ticks]]
  BY DEF DelayMs
<1> DEFINE s == [Awake EXCEPT !.pc = "start", !.delay = d, !.since = ticks]
<1>2. ticks \in 0..MaxTicks /\ s.since = ticks /\ s.pc = "start"
  BY Typed DEF Awake
<1>3. s \in Sleep
  BY <1>2, Zeros DEF Awake, Sleep
<1>4. SleepInv(s, ms, ticks)
  <2>1. 0 \in 0..ticks - s.since /\ s.since <= ticks /\ HalfFits(s, ms, 0)
    BY <1>2 DEF Awake, HalfFits
  <2>2. QED
    BY <1>2, <2>1 DEF SleepInv
<1>5. QED
  BY <1>1, <1>3, <1>4, OneSleeper DEF DelayMs

LEMMA LoadWordInv == ASSUME NEW t \in Sleepers PROVE ClockInv /\ LoadWord(t) => ClockInv'
<1> SUFFICES ASSUME ClockInv, LoadWord(t) PROVE ClockInv'
  OBVIOUS
<1>1. PICK half \in {"low", "high"} :
        sleep' = [sleep EXCEPT ![t].half = half, ![t].word = IF half = "low" THEN ms[1] ELSE ms[2]]
  BY DEF LoadWord
<1> DEFINE s == [sleep[t] EXCEPT !.half = half, !.word = IF half = "low" THEN ms[1] ELSE ms[2]]
<1>2. /\ sleep[t] \in Sleep /\ SleepInv(sleep[t], ms, ticks)
      /\ ms[1] \in 0..Word - 1 /\ ms[2] \in 0..Word - 1 /\ sleep[t].pc \in {"start", "test"}
  BY Typed DEF ClockInv, LoadWord
<1>3. s \in Sleep  /\ sleep' = [sleep EXCEPT ![t] = s]
  BY <1>1, <1>2 DEF Sleep
<1>4. /\ s.pc = sleep[t].pc /\ s.start = sleep[t].start /\ s.since = sleep[t].since
      /\ s.torn = sleep[t].torn /\ s.half = half
      /\ s.word = IF half = "low" THEN ms[1] ELSE ms[2]
  BY <1>2 DEF Sleep
<1>5. \A k \in Nat : HalfFits(s, ms, k) /\ (Since(sleep[t], ms, k) => Since(s, ms, k))
  BY <1>2, <1>4 DEF HalfFits, Since
<1>6. SleepInv(s, ms, ticks)
  BY <1>2, <1>4, <1>5 DEF SleepInv
<1>7. QED
  BY <1>3, <1>6, OneSleeper DEF LoadWord

\* Two loads with no carry between them give what the counter was at some
\* moment since the call.
LEMMA LoadedThen ==
  ASSUME ClockInv, NEW t \in Sleepers, sleep[t].half \in {"low", "high"}, NEW k \in Nat, HalfFits(sleep[t], ms, k)
  PROVE  \E j \in 0..k : Loaded(t) = Value(ms) - j
<1>1. sleep[t].word \in Nat /\ ms[1] \in Nat /\ ms[2] \in Nat
  BY Typed, SleepTyped
<1>2. Word * ms[2] \in Nat
  BY <1>1, ProductNat
<1>3. CASE sleep[t].half = "high"
  <2>1. Loaded(t) = Value(ms) /\ Value(ms) \in Int
    BY <1>1, <1>2, <1>3 DEF Loaded, Value, HalfFits
  <2>2. \A v \in Int : v = v - 0
    OBVIOUS
  <2>3. Loaded(t) = Value(ms) - 0 /\ 0 \in 0..k
    BY <2>1, <2>2
  <2>4. QED
    BY <2>3
<1>4. CASE sleep[t].half = "low"
  <2>1. ms[1] - sleep[t].word \in 0..k
    BY <1>1, <1>4 DEF HalfFits
  <2>2. Loaded(t) = Value(ms) - (ms[1] - sleep[t].word)
    BY <1>1, <1>2, <1>4 DEF Loaded, Value
  <2>3. QED
    BY <2>1, <2>2
<1>5. QED
  BY <1>1, <1>3, <1>4

LEMMA LoadedRange == ASSUME ClockInv, NEW t \in Sleepers PROVE Loaded(t) \in 0..Range2 - 1
<1>1. sleep[t].word \in 0..Word - 1 /\ ms[1] \in 0..Word - 1 /\ ms[2] \in 0..Word - 1
  BY Typed DEF Sleep
<1>2. QED
  BY <1>1, PairRange DEF Loaded, Range2

-----------------------------------------------------------------------------
LEMMA LoadStartInv == ASSUME NEW t \in Sleepers PROVE ClockInv /\ LoadStart(t) => ClockInv'
<1> SUFFICES ASSUME ClockInv, LoadStart(t) PROVE ClockInv'
  OBVIOUS
<1> DEFINE s == [sleep[t] EXCEPT !.pc = "test", !.start = Loaded(t), !.half = ""]
<1>1. sleep[t] \in Sleep /\ SleepInv(sleep[t], ms, ticks)
  BY Typed DEF ClockInv
<1>2. sleep[t].pc = "start" /\ sleep[t].half \in {"low", "high"}
  BY <1>1 DEF LoadStart, Sleep
<1>3. ticks \in Nat /\ sleep[t].since \in Nat
  BY <1>1, Typed, SleepTyped
<1>4. s \in Sleep /\ sleep' = [sleep EXCEPT ![t] = s] /\ s.pc = "test" /\ s.half = ""
  BY <1>1, LoadedRange DEF LoadStart, Sleep
<1>5. s.start = Loaded(t) /\ s.since = sleep[t].since /\ s.torn = sleep[t].torn
  BY <1>1 DEF Sleep
<1> HIDE DEF s
<1>6. ASSUME ~s.torn
      PROVE  \E j \in 0..ticks - s.since : HalfFits(s, ms, j) /\ Since(s, ms, j)
  <2>1. PICK k \in 0..ticks - s.since : HalfFits(sleep[t], ms, k)
    BY <1>1, <1>2, <1>5, <1>6 DEF SleepInv
  <2>2. ticks - s.since \in Int /\ k \in Nat
    <3>1. ticks - s.since \in Int
      BY <1>3, <1>5
    <3>2. QED
      BY <3>1, IntervalNat
  <2>3. PICK j \in 0..k : Loaded(t) = Value(ms) - j
    BY <1>2, <2>1, <2>2, LoadedThen
  <2>4. j \in 0..ticks - s.since /\ j \in Nat
    BY <2>2
  <2>5. HalfFits(s, ms, j)
    BY <1>4 DEF HalfFits
  <2>6. Since(s, ms, j)
    <3>1. Value(ms) = s.start + j + 0 * Range2
      BY <1>5, <2>3, <2>4, ValueInt, RangePositive
    <3>2. QED
      BY <3>1 DEF Since
  <2>7. QED
    BY <2>4, <2>5, <2>6
<1>7. SleepInv(s, ms, ticks)
  BY <1>1, <1>4, <1>5, <1>6 DEF SleepInv
<1>8. QED
  BY <1>4, <1>7, OneSleeper DEF LoadStart

LEMMA TestInv == ASSUME NEW t \in Sleepers PROVE ClockInv /\ Test(t) => ClockInv'
<1> SUFFICES ASSUME ClockInv, Test(t) PROVE ClockInv'
  OBVIOUS
<1> DEFINE s == [sleep[t] EXCEPT
                   !.pc = IF Elapsed(t) < sleep[t].delay THEN "test" ELSE "ended", !.half = ""]
<1>1. sleep[t] \in Sleep /\ SleepInv(sleep[t], ms, ticks)
  BY Typed DEF ClockInv
<1>2. sleep[t].pc = "test" /\ sleep[t].half \in {"low", "high"}
  BY <1>1 DEF Test, Sleep
<1>3. /\ ticks \in Nat /\ sleep[t].since \in Nat
      /\ sleep[t].delay \in Nat /\ sleep[t].start \in Nat
  BY <1>1, Typed, SleepTyped
<1>4. s \in Sleep /\ sleep' = [sleep EXCEPT ![t] = s] /\ s.half = ""
  BY <1>1 DEF Test, Sleep
<1>5. s.pc = IF Elapsed(t) < sleep[t].delay THEN "test" ELSE "ended"
  BY <1>1 DEF Sleep
<1>6. /\ s.start = sleep[t].start /\ s.since = sleep[t].since
      /\ s.torn = sleep[t].torn /\ s.delay = sleep[t].delay
  BY <1>1 DEF Sleep
<1> HIDE DEF s
<1>7. ASSUME ~s.torn
      PROVE  /\ \E k \in 0..ticks - s.since : HalfFits(s, ms, k) /\ Since(s, ms, k)
             /\ Elapsed(t) \in Int /\ Elapsed(t) <= ticks - s.since
  <2>1. PICK k \in 0..ticks - s.since : HalfFits(sleep[t], ms, k) /\ Since(sleep[t], ms, k)
    BY <1>1, <1>2, <1>6, <1>7 DEF SleepInv
  <2>2. ticks - s.since \in Int /\ k \in Nat
    <3>1. ticks - s.since \in Int
      BY <1>3, <1>6
    <3>2. QED
      BY <3>1, IntervalNat
  <2>3. HalfFits(s, ms, k) /\ Since(s, ms, k)
    BY <1>4, <1>6, <2>1 DEF HalfFits, Since
  <2>4. PICK j \in 0..k : Loaded(t) = Value(ms) - j
    BY <1>2, <2>1, <2>2, LoadedThen
  <2>5. PICK q \in Int : Value(ms) = sleep[t].start + k + q * Range2
    BY <2>1 DEF Since
  <2>6. q * Range2 \in Int /\ k - j \in Nat /\ j \in Nat
    BY <2>2, RangePositive
  <2>7. Loaded(t) - sleep[t].start = (k - j) + q * Range2 /\ Loaded(t) - sleep[t].start \in Int
    BY <1>3, <2>2, <2>4, <2>5, <2>6, ValueInt
  <2>8. (Loaded(t) - sleep[t].start) % Range2 <= k - j
    BY <2>6, <2>7, RangePositive, RemainderBelow
  <2>9. Elapsed(t) \in Int /\ Elapsed(t) <= k - j
    <3>1. Elapsed(t) = (Loaded(t) - sleep[t].start) % Range2
      BY DEF Elapsed, Range2
    <3>2. (Loaded(t) - sleep[t].start) % Range2 \in Int
      BY <2>7, RangePositive
    <3>3. QED
      BY <2>8, <3>1, <3>2
  <2>10. Elapsed(t) <= ticks - s.since
    BY <2>2, <2>6, <2>9
  <2>11. QED
    BY <2>3, <2>9, <2>10
<1>8. SleepInv(s, ms, ticks)
  <2>1. s.since <= ticks
    BY <1>1, <1>6 DEF SleepInv
  <2>2. CASE s.torn
    BY <2>1, <2>2 DEF SleepInv
  <2>3. CASE ~s.torn /\ Elapsed(t) < sleep[t].delay
    BY <1>5, <1>7, <2>1, <2>3 DEF SleepInv
  <2>4. CASE ~s.torn /\ ~(Elapsed(t) < sleep[t].delay)
    <3>1. ticks - s.since >= s.delay
      BY <1>3, <1>6, <1>7, <2>4
    <3>2. QED
      BY <1>5, <2>1, <2>4, <3>1 DEF SleepInv
  <2>5. QED
    BY <2>2, <2>3, <2>4
<1>9. QED
  BY <1>4, <1>8, OneSleeper DEF Test

LEMMA WakeInv == ASSUME NEW t \in Sleepers PROVE ClockInv /\ Wake(t) => ClockInv'
<1> SUFFICES ASSUME ClockInv, Wake(t) PROVE ClockInv'
  OBVIOUS
<1>1. Awake \in Sleep /\ Awake.since = 0 /\ Awake.pc = "awake"
  BY Zeros DEF Awake, Sleep
<1>2. SleepInv(Awake, ms, ticks)
  BY <1>1, Typed DEF SleepInv
<1>3. QED
  BY <1>1, <1>2, OneSleeper DEF Wake

LEMMA ClockStepInv == ClockInv /\ [ClockNext]_clockVars => ClockInv'
<1>1. ASSUME ClockInv, UNCHANGED clockVars PROVE ClockInv'
  BY <1>1 DEF clockVars, ClockInv, ClockTypeOK
<1>2. QED
  BY <1>1, ClockTickInv, DelayCallInv, LoadWordInv, LoadStartInv, TestInv, WakeInv DEF ClockNext, DelayStep

LEMMA ClockInvHolds == ClockSpec => []ClockInv
  BY ClockInitInv, ClockStepInv, PTL DEF ClockSpec

\* The counter's words stay words and the sleepers' copies in their ranges, for
\* any width of a word.
THEOREM ClockTypeCorrect == ClockSpec => []ClockTypeOK
<1>1. ClockInv => ClockTypeOK
  BY DEF ClockInv
<1>2. QED
  BY <1>1, ClockInvHolds, PTL

\* A delay none of whose pairs of loads had a carry between them lasts as many
\* ticks as it was asked for: what start was is never later than the call, and
\* the difference modulo the counter's range never more than the time gone.
THEOREM DelaysLast == ClockSpec => []NotEarly
<1>1. ClockInv => NotEarly
  BY DEF ClockInv, SleepInv, NotEarly
<1>2. QED
  BY <1>1, ClockInvHolds, PTL

HIDE ClockAssumption

-----------------------------------------------------------------------------
(***************************************************************************)
(* The flash: one that was mounted is not formatted again, and driver and  *)
(* chip are the block device, on which programs of several pages may fail, *)
(* for any number of pages, any size of a block and any number of resets,  *)
(* power failures and writes.                                              *)
(***************************************************************************)
Commands == [op : {"erase", "prog"}, of : Nat, n : Nat]

Types ==
  /\ FlashTypeOK
  /\ todo \in Seq(Commands)
  /\ busy \in Commands \union {None} /\ cs \in Commands \union {None, Enable}

\* What the driver's place says of the bus and the chip: between two calls, and
\* before a command, the chip is idle, unless the controller has just restarted.
DriverInv ==
  /\ todo = <<>> => pc = "enable" /\ cs = None
  /\ phase \in {"jedec", "mount", "remount", "fault"} => todo = <<>>
  /\ pc = "enable" => cs \in {None, Enable}
  /\ pc = "status" => cs = None
  /\ pc # "status" /\ phase \notin {"jedec", "fault"} => busy = None

\* Page p is whole, and nothing that is under way or still to do touches it.
Untouched(p) ==
  /\ cells[p] = "whole"
  /\ p \notin TouchedBy(busy) /\ p \notin TouchedBy(cs)
  /\ \A i \in 1..Len(todo) : p \notin TouchedBy(todo[i])

SuperInv == mounted => Untouched(0) \/ Untouched(PerBlock)

FlashInv == Types /\ DriverInv /\ SuperInv /\ NeverFormattedAgain

LEMMA FirstBlocks == Pages \subseteq Nat /\ PerBlock \in Nat \ {0} /\ {0, PerBlock} \subseteq Pages
<1>1. Pages \subseteq Nat /\ PerBlock \in Nat \ {0} /\ PerBlock \in Pages
  BY ChipAssumption
<1>2. 0 \in 0..PerBlock
  BY <1>1
<1>3. 0 \in Pages
  BY <1>1, <1>2, ChipAssumption
<1>4. QED
  BY <1>1, <1>3

USE FirstBlocks

-----------------------------------------------------------------------------
LEMMA BlockFacts == ASSUME NEW b \in Nat
  PROVE b * PerBlock \in Nat /\ BlockOf(b * PerBlock) = b
  BY DEF BlockOf

LEMMA SuperBlocks == BlockOf(0) = 0 /\ BlockOf(PerBlock) = 1
  BY DEF BlockOf

LEMMA BlockStarts == ASSUME NEW b \in Nat PROVE (b * PerBlock) % PerBlock = 0
<1>1. PICK w \in Nat \ {0} : w = PerBlock
  OBVIOUS
<1>2. b * w = b * w + 0 /\ b * w \in Nat
  BY <1>1
<1>3. (b * w) % w = 0
  BY <1>1, <1>2, Z3
<1>4. QED
  BY <1>1, <1>3

LEMMA BlocksAreNumbers == ASSUME NEW p \in Pages PROVE BlockOf(p) \in Nat
  BY DEF BlockOf

LEMMA NoCommand == None.op = "none"
  BY DEF None

LEMMA NothingTouched == TouchedBy(None) = {} /\ TouchedBy(Enable) = {}
  BY DEF TouchedBy, None, Enable

LEMMA CommandsDiffer == ASSUME NEW c \in Commands
  PROVE c # None /\ c # Enable /\ c.op \in {"erase", "prog"}
  BY DEF Commands, None, Enable

\* What the chip does with a command is of the pages the command touches.
LEMMA AfterOthers == ASSUME Types, NEW c
  PROVE /\ After(c) \in [Pages -> {"erased", "whole", "torn"}]
        /\ Torn(c) \in [Pages -> {"erased", "whole", "torn"}]
        /\ \A p \in Pages \ TouchedBy(c) : After(c)[p] = cells[p] /\ Torn(c)[p] = cells[p]
  BY DEF Types, FlashTypeOK, After, Torn

\* cs rises: the chip takes the command or leaves it.
LEMMA ExecuteInv == ASSUME Types, NEW cut \in BOOLEAN, Execute(cs, cut)
  PROVE /\ cells' \in [Pages -> {"erased", "whole", "torn"}]
        /\ busy' \in {busy, cs} /\ busy' \in Commands \union {None} /\ wel' \in BOOLEAN
        /\ \A p \in Pages \ TouchedBy(cs) : cells'[p] = cells[p]
<1>1. CASE busy # None \/ cs = None
  BY <1>1 DEF Execute, Types, FlashTypeOK
<1>2. CASE busy = None /\ cs = Enable
  BY <1>2 DEF Execute, Types, FlashTypeOK, None, Enable
<1>3. CASE busy = None /\ cs # None /\ cs # Enable
  <2>1. cs \in Commands
    BY <1>3 DEF Types
  <2>2. CASE ~wel \/ (cut /\ cs.op = "erase")
    BY <1>3, <2>2 DEF Execute, Types, FlashTypeOK
  <2>3. CASE ~(~wel \/ (cut /\ cs.op = "erase"))
    <3>1. busy' = cs /\ wel' = FALSE /\ cells' = IF cut THEN Torn(cs) ELSE cells
      BY <1>3, <2>3 DEF Execute
    <3>2. QED
      BY <2>1, <3>1, AfterOthers DEF Types, FlashTypeOK
  <2>4. QED
    BY <2>2, <2>3
<1>4. QED
  BY <1>1, <1>2, <1>3

\* A page stays untouched as long as calls are only taken off the list.
LEMMA StaysUntouched ==
  ASSUME NEW p \in Pages, Untouched(p), todo \in Seq(Commands),
         cells'[p] = cells[p], busy' \in {busy, cs, None}, cs' \in {cs, None, Enable},
         todo' \in {todo, <<>>} \/ (todo # <<>> /\ todo' = Tail(todo))
  PROVE  Untouched(p)'
<1>1. p \notin TouchedBy(busy') /\ p \notin TouchedBy(cs')
  BY NothingTouched DEF Untouched
<1>2. \A i \in 1..Len(todo') : p \notin TouchedBy(todo'[i])
  BY DEF Untouched
<1>3. QED
  BY <1>1, <1>2 DEF Untouched, TouchedBy, BlockOf

-----------------------------------------------------------------------------
LEMMA FlashInitInv == FlashInit => FlashInv
<1> SUFFICES ASSUME FlashInit PROVE FlashInv
  OBVIOUS
<1>1. <<>> \in Seq(Commands)
  OBVIOUS
<1>2. Types
  BY <1>1, NoCommand DEF FlashInit, Types, FlashTypeOK
<1>3. DriverInv /\ SuperInv /\ NeverFormattedAgain
  BY DEF FlashInit, DriverInv, SuperInv, NeverFormattedAgain
<1>4. QED
  BY <1>2, <1>3 DEF FlashInv

\* The chip finishes what it was told: pages it was told of, and no others.
LEMMA ChipDoneInv == FlashInv /\ ChipDone => FlashInv'
<1> SUFFICES ASSUME FlashInv, ChipDone PROVE FlashInv'
  OBVIOUS
<1>1. Types'
  BY AfterOthers DEF FlashInv, Types, ChipDone, FlashTypeOK, None
<1>2. DriverInv'
  BY DEF FlashInv, DriverInv, ChipDone
<1>3. SuperInv'
  <2>1. ASSUME NEW p \in Pages, Untouched(p) PROVE Untouched(p)'
    <3>1. cells'[p] = cells[p]
      BY <2>1, AfterOthers DEF FlashInv, ChipDone, Untouched
    <3>2. QED
      BY <2>1, <3>1, StaysUntouched DEF FlashInv, Types, ChipDone
  <2>2. QED
    BY <2>1 DEF FlashInv, SuperInv, ChipDone
<1>4. NeverFormattedAgain'
  BY DEF FlashInv, NeverFormattedAgain, ChipDone
<1>5. QED
  BY <1>1, <1>2, <1>3, <1>4 DEF FlashInv

\* cs falls: the bus carries a command of the list.
LEMMA CsLowInv ==
  ASSUME FlashInv, NEW c \in {Enable, Head(todo)}, CsLow(c), todo # <<>>,
         pc = "enable" => c = Enable, pc # "status",
         UNCHANGED <<phase, todo, mounted, resets, writes>>
  PROVE  FlashInv'
<1>1. Head(todo) \in Commands
  BY DEF FlashInv, Types
<1>2. Types'
  BY <1>1, CommandsDiffer DEF FlashInv, Types, FlashTypeOK, CsLow, Enable
<1>3. DriverInv'
  BY DEF FlashInv, DriverInv, CsLow
<1>4. SuperInv'
  <2>1. ASSUME NEW p \in Pages, Untouched(p) PROVE Untouched(p)'
    <3>1. p \notin TouchedBy(cs')
      BY <2>1, NothingTouched DEF CsLow, Untouched, FlashInv, Types
    <3>2. QED
      BY <2>1, <3>1 DEF CsLow, Untouched, TouchedBy, BlockOf
  <2>2. QED
    BY <2>1 DEF FlashInv, SuperInv
<1>5. NeverFormattedAgain'
  BY DEF FlashInv, NeverFormattedAgain
<1>6. QED
  BY <1>2, <1>3, <1>4, <1>5 DEF FlashInv

\* cs rises: the chip starts the command or the latch is set.
LEMMA CsHighInv ==
  ASSUME FlashInv, NEW then \in {"command", "status"}, CsHigh(then), todo # <<>>,
         pc = IF then = "command" THEN "enable" ELSE "command",
         UNCHANGED <<phase, todo, mounted, resets, writes>>
  PROVE  FlashInv'
<1>1. Types
  BY DEF FlashInv
<1>2. /\ Execute(cs, FALSE) /\ cs' = None
      /\ cells' \in [Pages -> {"erased", "whole", "torn"}]
      /\ busy' \in {busy, cs} /\ busy' \in Commands \union {None} /\ wel' \in BOOLEAN
      /\ \A p \in Pages \ TouchedBy(cs) : cells'[p] = cells[p]
  BY <1>1, ExecuteInv DEF CsHigh
<1>3. Types'
  BY <1>1, <1>2, CommandsDiffer DEF Types, FlashTypeOK, CsHigh, None
<1>4. DriverInv'
  BY <1>2, CommandsDiffer DEF FlashInv, DriverInv, CsHigh
<1>5. SuperInv'
  <2>1. ASSUME NEW p \in Pages, Untouched(p) PROVE Untouched(p)'
    <3>1. cells'[p] = cells[p]
      BY <1>2, <2>1 DEF Untouched
    <3>2. QED
      BY <1>1, <1>2, <2>1, <3>1, StaysUntouched DEF Types
  <2>2. QED
    BY <2>1 DEF FlashInv, SuperInv
<1>6. NeverFormattedAgain'
  BY DEF FlashInv, NeverFormattedAgain
<1>7. QED
  BY <1>3, <1>4, <1>5, <1>6 DEF FlashInv

LEMMA DriverStepInv == FlashInv /\ Driver => FlashInv'
<1> SUFFICES ASSUME FlashInv, Driver PROVE FlashInv'
  OBVIOUS
<1>1. CASE WriteEnable
  <2>1. CASE CsLow(Enable)
    BY <1>1, <2>1, CsLowInv DEF Driver, WriteEnable
  <2>2. CASE CsHigh("command")
    BY <1>1, <2>2, CsHighInv DEF Driver, WriteEnable
  <2>3. QED
    BY <1>1, <2>1, <2>2 DEF WriteEnable
<1>2. CASE Command
  <2>1. CASE CsLow(Head(todo))
    BY <1>2, <2>1, CsLowInv DEF Driver, Command
  <2>2. CASE CsHigh("status")
    BY <1>2, <2>2, CsHighInv DEF Driver, Command
  <2>3. QED
    BY <1>2, <2>1, <2>2 DEF Command
<1>3. CASE ReadStatus
  <2>1. /\ todo # <<>> /\ todo' = Tail(todo) /\ pc' = "enable" /\ busy = None
        /\ UNCHANGED <<cells, busy, wel, cs, phase, mounted, resets, writes>>
    BY <1>3 DEF Driver, ReadStatus
  <2>2. Types'
    BY <2>1 DEF FlashInv, Types, FlashTypeOK
  <2>3. DriverInv'
    BY <1>3, <2>1 DEF FlashInv, DriverInv, ReadStatus
  <2>4. SuperInv'
    BY <2>1, StaysUntouched DEF FlashInv, Types, SuperInv
  <2>5. NeverFormattedAgain'
    BY <2>1 DEF FlashInv, NeverFormattedAgain
  <2>6. QED
    BY <2>2, <2>3, <2>4, <2>5 DEF FlashInv
<1>4. QED
  BY <1>1, <1>2, <1>3 DEF Driver

-----------------------------------------------------------------------------
\* A whole superblock that nothing touches mounts, so there is no format.
LEMMA MountInv == FlashInv /\ Mount => FlashInv'
<1> SUFFICES ASSUME FlashInv, Mount PROVE FlashInv'
  OBVIOUS
<1>1. /\ todo = <<>> /\ busy = None /\ cs = None /\ pc = "enable"
      /\ UNCHANGED <<cells, busy, wel, cs, pc, resets, writes>>
  BY DEF Mount, FlashInv, DriverInv
<1>2. ASSUME NEW p \in Pages PROVE cells[p] = "whole" <=> Untouched(p)
  BY <1>1, NothingTouched DEF Untouched
<1>3. Mountable <=> Untouched(0) \/ Untouched(PerBlock)
  BY <1>1, <1>2 DEF Mountable, SuperBlock
<1>4. CASE Mountable /\ phase' = "run" /\ mounted' = TRUE /\ UNCHANGED todo
  <2>1. Untouched(0)' \/ Untouched(PerBlock)'
    BY <1>1, <1>3, <1>4 DEF Untouched, TouchedBy, BlockOf
  <2>2. QED
    BY <1>1, <1>4, <2>1
       DEF FlashInv, Types, FlashTypeOK, DriverInv, SuperInv, NeverFormattedAgain
<1>5. CASE /\ ~Mountable /\ phase = "mount" /\ phase' = "format" /\ UNCHANGED mounted
           /\ todo' = <<Erase(0), Prog(0, 1), Erase(1), Prog(PerBlock, 1)>>
  <2>1. ~mounted
    BY <1>3, <1>5 DEF FlashInv, SuperInv
  <2>2. todo' \in Seq(Commands)
    BY <1>5 DEF Commands, Erase, Prog
  <2>3. QED
    BY <1>1, <1>5, <2>1, <2>2
       DEF FlashInv, Types, FlashTypeOK, DriverInv, SuperInv, NeverFormattedAgain
<1>6. CASE ~Mountable /\ phase = "remount" /\ phase' = "fault" /\ UNCHANGED <<todo, mounted>>
  <2>1. ~mounted
    BY <1>6 DEF FlashInv, NeverFormattedAgain
  <2>2. QED
    BY <1>1, <1>6, <2>1
       DEF FlashInv, Types, FlashTypeOK, DriverInv, SuperInv, NeverFormattedAgain
<1>7. QED
  BY <1>4, <1>5, <1>6 DEF Mount

\* Past the identification the chip is idle.
LEMMA JedecInv == FlashInv /\ Jedec => FlashInv'
<1> SUFFICES ASSUME FlashInv, Jedec PROVE FlashInv'
  OBVIOUS
<1>1. /\ phase = "jedec" /\ phase' = (IF busy = None THEN "mount" ELSE "fault")
      /\ UNCHANGED <<cells, busy, wel, cs, todo, pc, mounted, resets, writes>>
  BY DEF Jedec, Identify
<1>2. Types' /\ DriverInv' /\ NeverFormattedAgain'
  BY <1>1 DEF FlashInv, Types, FlashTypeOK, DriverInv, NeverFormattedAgain
<1>3. SuperInv'
  BY <1>1, StaysUntouched DEF FlashInv, Types, SuperInv
<1>4. QED
  BY <1>2, <1>3 DEF FlashInv

LEMMA FormattedInv == FlashInv /\ Formatted => FlashInv'
<1> SUFFICES ASSUME FlashInv, Formatted PROVE FlashInv'
  OBVIOUS
<1>1. ~mounted /\ ~mounted'
  BY DEF FlashInv, NeverFormattedAgain, Formatted
<1>2. QED
  BY <1>1 DEF FlashInv, Types, FlashTypeOK, DriverInv, SuperInv, NeverFormattedAgain, Formatted

-----------------------------------------------------------------------------
\* A block is written anew, a superblock's only while the other one is whole.
LEMMA BlockWriteInv ==
  ASSUME FlashInv, FileWrite, NEW b \in {BlockOf(p) : p \in Pages}, NEW n \in 1..PerBlock,
         b \in {0, 1} => SuperBlock(1 - b),
         todo' = <<Erase(b), Prog(b * PerBlock, n)>>
  PROVE  FlashInv'
<1>1. /\ b \in {0, 1} => SuperBlock(1 - b)
      /\ todo' = <<Erase(b), Prog(b * PerBlock, n)>>
  OBVIOUS
<1>2. b \in Nat /\ b * PerBlock \in Nat /\ BlockOf(b * PerBlock) = b
  BY BlocksAreNumbers, BlockFacts
<1>3. /\ phase = "run" /\ todo = <<>> /\ busy = None /\ cs = None /\ pc = "enable"
      /\ UNCHANGED <<cells, busy, wel, cs, phase, pc, mounted, resets>>
  BY DEF FileWrite, FlashInv, DriverInv
<1>4. Types'
  <2>1. todo' \in Seq(Commands)
    BY <1>1, <1>2 DEF Commands, Erase, Prog
  <2>2. QED
    BY <1>3, <2>1 DEF FlashInv, Types, FlashTypeOK
<1>5. DriverInv' /\ NeverFormattedAgain'
  BY <1>1, <1>3 DEF FlashInv, DriverInv, NeverFormattedAgain
<1>6. ASSUME NEW p \in Pages, BlockOf(p) # b, cells[p] = "whole" PROVE Untouched(p)'
  <2>1. p \notin TouchedBy(Erase(b)) /\ p \notin TouchedBy(Prog(b * PerBlock, n))
    BY <1>2, <1>6 DEF TouchedBy, Erase, Prog
  <2>2. \A i \in 1..Len(todo') : p \notin TouchedBy(todo'[i])
    BY <1>1, <2>1
  <2>3. cells'[p] = "whole" /\ p \notin TouchedBy(busy') /\ p \notin TouchedBy(cs')
    BY <1>3, <1>6, NothingTouched
  <2>4. QED
    BY <2>2, <2>3 DEF Untouched, TouchedBy, BlockOf
<1>7. SuperInv'
  <2>1. CASE b = 0
    BY <1>1, <1>6, <2>1, SuperBlocks DEF SuperInv, SuperBlock
  <2>2. CASE b = 1
    BY <1>1, <1>6, <2>2, SuperBlocks DEF SuperInv, SuperBlock
  <2>3. CASE b \notin {0, 1}
    BY <1>3, <1>6, <2>3, SuperBlocks DEF FlashInv, SuperInv, Untouched
  <2>4. QED
    BY <2>1, <2>2, <2>3
<1>8. QED
  BY <1>4, <1>5, <1>7 DEF FlashInv

\* The erased rest of a block is programmed, which holds no superblock.
LEMMA RestWriteInv ==
  ASSUME FlashInv, FileWrite, NEW p \in Pages, NEW n \in 1..PerBlock,
         p % PerBlock # 0, todo' = <<Prog(p, n)>>
  PROVE  FlashInv'
<1>1. /\ phase = "run" /\ todo = <<>> /\ busy = None /\ cs = None /\ pc = "enable"
      /\ UNCHANGED <<cells, busy, wel, cs, phase, pc, mounted, resets>>
  BY DEF FileWrite, FlashInv, DriverInv
<1>2. todo' \in Seq(Commands)
  BY DEF Commands, Prog
<1>3. Types' /\ DriverInv' /\ NeverFormattedAgain'
  BY <1>1, <1>2 DEF FlashInv, Types, FlashTypeOK, DriverInv, NeverFormattedAgain
<1>4. ASSUME NEW q \in Pages, q % PerBlock = 0, Untouched(q) PROVE Untouched(q)'
  <2>1. q \notin TouchedBy(Prog(p, n))
    BY <1>4 DEF TouchedBy, Prog
  <2>2. \A i \in 1..Len(todo') : q \notin TouchedBy(todo'[i])
    BY <2>1
  <2>3. cells'[q] = "whole" /\ q \notin TouchedBy(busy') /\ q \notin TouchedBy(cs')
    BY <1>1, <1>4, NothingTouched DEF Untouched
  <2>4. QED
    BY <2>2, <2>3 DEF Untouched, TouchedBy, BlockOf
<1>5. 0 % PerBlock = 0 /\ PerBlock % PerBlock = 0
  BY BlockStarts
<1>6. SuperInv'
  BY <1>1, <1>4, <1>5 DEF FlashInv, SuperInv
<1>7. QED
  BY <1>3, <1>6 DEF FlashInv

LEMMA FileWriteInv == FlashInv /\ FileWrite => FlashInv'
<1> SUFFICES ASSUME FlashInv, FileWrite PROVE FlashInv'
  OBVIOUS
<1>1. PICK n \in 1..PerBlock :
        \/ \E b \in {BlockOf(p) : p \in Pages} :
             (b \in {0, 1} => SuperBlock(1 - b)) /\ todo' = <<Erase(b), Prog(b * PerBlock, n)>>
        \/ \E p \in Pages : p % PerBlock # 0 /\ todo' = <<Prog(p, n)>>
  BY DEF FileWrite
<1>2. QED
  BY <1>1, BlockWriteInv, RestWriteInv

\* The controller restarts in the middle of anything.
LEMMA ResetInv == FlashInv /\ Reset => FlashInv'
<1> SUFFICES ASSUME FlashInv, Reset PROVE FlashInv'
  OBVIOUS
<1>1. Types
  BY DEF FlashInv
<1>2. /\ phase' = "jedec" /\ todo' = <<>> /\ pc' = "enable" /\ cs' = None
      /\ mounted' = mounted /\ Execute(cs, TRUE)
  BY DEF Reset, Booting
<1>3. /\ cells' \in [Pages -> {"erased", "whole", "torn"}]
      /\ busy' \in {busy, cs} /\ busy' \in Commands \union {None} /\ wel' \in BOOLEAN
      /\ \A p \in Pages \ TouchedBy(cs) : cells'[p] = cells[p]
  BY <1>1, <1>2, ExecuteInv
<1>4. Types'
  BY <1>1, <1>2, <1>3, CommandsDiffer DEF Types, FlashTypeOK, None
<1>5. DriverInv' /\ NeverFormattedAgain'
  BY <1>2 DEF DriverInv, NeverFormattedAgain
<1>6. SuperInv'
  <2>1. ASSUME NEW p \in Pages, Untouched(p) PROVE Untouched(p)'
    <3>1. cells'[p] = cells[p]
      BY <1>3, <2>1 DEF Untouched
    <3>2. QED
      BY <1>1, <1>2, <1>3, <2>1, <3>1, StaysUntouched DEF Types
  <2>2. QED
    BY <1>2, <2>1 DEF FlashInv, SuperInv
<1>7. QED
  BY <1>4, <1>5, <1>6 DEF FlashInv

LEMMA PowerFailInv == FlashInv /\ PowerFail => FlashInv'
<1> SUFFICES ASSUME FlashInv, PowerFail PROVE FlashInv'
  OBVIOUS
<1>1. Types
  BY DEF FlashInv
<1>2. /\ phase' = "jedec" /\ todo' = <<>> /\ pc' = "enable" /\ cs' = None
      /\ busy' = None /\ wel' = FALSE /\ mounted' = mounted
      /\ cells' \in {cells, Torn(busy), After(busy)}
  BY DEF PowerFail, Booting
<1>3. /\ cells' \in [Pages -> {"erased", "whole", "torn"}]
      /\ \A p \in Pages \ TouchedBy(busy) : cells'[p] = cells[p]
  BY <1>1, <1>2, AfterOthers DEF Types, FlashTypeOK
<1>4. Types' /\ DriverInv' /\ NeverFormattedAgain'
  BY <1>1, <1>2, <1>3, NoCommand DEF Types, FlashTypeOK, DriverInv, NeverFormattedAgain
<1>5. SuperInv'
  <2>1. ASSUME NEW p \in Pages, Untouched(p) PROVE Untouched(p)'
    <3>1. cells'[p] = cells[p]
      BY <1>3, <2>1 DEF Untouched
    <3>2. QED
      BY <1>1, <1>2, <2>1, <3>1, StaysUntouched DEF Types
  <2>2. QED
    BY <1>2, <2>1 DEF FlashInv, SuperInv
<1>6. QED
  BY <1>4, <1>5 DEF FlashInv

-----------------------------------------------------------------------------
LEMMA StutterInv == FlashInv /\ UNCHANGED flashVars => FlashInv'
<1> SUFFICES ASSUME FlashInv, UNCHANGED flashVars PROVE FlashInv'
  OBVIOUS
<1>1. SuperInv'
  BY StaysUntouched DEF flashVars, FlashInv, Types, SuperInv
<1>2. QED
  BY <1>1 DEF flashVars, FlashInv, Types, FlashTypeOK, DriverInv, NeverFormattedAgain

LEMMA FlashStepInv == FlashInv /\ [FlashNext]_flashVars => FlashInv'
  BY ChipDoneInv, DriverStepInv, JedecInv, MountInv, FormattedInv, FileWriteInv,
     ResetInv, PowerFailInv, StutterInv DEF FlashNext

LEMMA FlashInvHolds == FlashSpec => []FlashInv
  BY FlashInitInv, FlashStepInv, PTL DEF FlashSpec

\* The chip, the bus and the boot keep their types, whatever is cut off.
THEOREM FlashTypeCorrect == FlashSpec => []FlashTypeOK
<1>1. FlashInv => FlashTypeOK
  BY DEF FlashInv, Types
<1>2. QED
  BY <1>1, FlashInvHolds, PTL

\* A flash that was mounted once is not formatted by a later boot, however many
\* resets and power failures there are and wherever they strike: a superblock
\* nothing touches is always whole, and the identification keeps the mount from
\* a chip at work.
THEOREM MountedStaysMounted == FlashSpec => []NeverFormattedAgain
<1>1. FlashInv => NeverFormattedAgain
  BY DEF FlashInv
<1>2. QED
  BY <1>1, FlashInvHolds, PTL

-----------------------------------------------------------------------------
(***************************************************************************)
(* The driver and the chip are a device that fails only in programs of     *)
(* more than a page. From the first cs_low of a call on, the bus, the      *)
(* latch and the chip are about this call only, which is of a region there *)
(* is.                                                                     *)
(***************************************************************************)
Fits(c) ==
  /\ c.op = "prog" => /\ c.of \in Pages /\ c.n \in 1..PerBlock
                      /\ (c.of % PerBlock) + c.n <= PerBlock
  /\ c.op = "erase" => c.n = 0 /\ \E p \in Pages : c.of = BlockOf(p)

FlashCallInv ==
  /\ pc = "command" => wel = TRUE /\ cs \in {None, Head(todo)}
  /\ pc = "status" => busy \in {None, Head(todo)}
  /\ \A i \in 1..Len(todo) : Fits(todo[i])

LEMMA FirstPages == ASSUME NEW p \in Pages PROVE BlockOf(p) * PerBlock \in Pages
<1>1. PICK q \in Nat, b \in Nat : q = p /\ b = p \div PerBlock
  OBVIOUS
<1>2. b * PerBlock \in 0..q
  BY <1>1
<1>3. QED
  BY <1>1, <1>2, ChipAssumption DEF BlockOf

LEMMA InitCall == FlashInit => FlashCallInv
  BY DEF FlashInit, FlashCallInv

LEMMA CallSame ==
  ASSUME FlashCallInv, UNCHANGED <<busy, wel, cs, todo, pc>>
  PROVE  FlashCallInv'
  BY DEF FlashCallInv, Fits, BlockOf

LEMMA DriverCall == FlashInv /\ FlashCallInv /\ Driver => FlashCallInv'
<1> SUFFICES ASSUME FlashInv, FlashCallInv, Driver PROVE FlashCallInv'
  OBVIOUS
<1>1. todo # <<>> /\ todo \in Seq(Commands) /\ phase \notin {"jedec", "fault"}
  BY DEF Driver, FlashInv, Types, DriverInv
<1>2. Head(todo) \in Commands /\ Head(todo) # None /\ Head(todo) # Enable
  <2>1. Head(todo) \in Commands
    BY <1>1
  <2>2. QED
    BY <2>1, CommandsDiffer
<1>3. None # Enable
  BY DEF None, Enable
<1>4. CASE WriteEnable
  <2>1. UNCHANGED todo /\ pc = "enable" /\ busy = None
    BY <1>1, <1>4 DEF WriteEnable, FlashInv, DriverInv
  <2>2. CASE CsLow(Enable)
    BY <2>1, <2>2 DEF CsLow, FlashCallInv, Fits, BlockOf
  <2>3. CASE CsHigh("command")
    <3>1. pc' = "command" /\ cs' = None /\ cs = Enable /\ Execute(cs, FALSE)
      BY <2>1, <2>3 DEF CsHigh, FlashInv, DriverInv
    <3>2. wel' = TRUE
      BY <1>3, <2>1, <3>1 DEF Execute
    <3>3. QED
      BY <2>1, <3>1, <3>2 DEF FlashCallInv, Fits, BlockOf
  <2>4. QED
    BY <1>4, <2>2, <2>3 DEF WriteEnable
<1>5. CASE Command
  <2>1. UNCHANGED todo /\ pc = "command" /\ busy = None /\ wel = TRUE
    BY <1>1, <1>5 DEF Command, FlashInv, DriverInv, FlashCallInv
  <2>2. CASE CsLow(Head(todo))
    BY <2>1, <2>2 DEF CsLow, FlashCallInv, Fits, BlockOf
  <2>3. CASE CsHigh("status")
    <3>1. pc' = "status" /\ cs = Head(todo) /\ Execute(cs, FALSE)
      BY <2>1, <2>3 DEF CsHigh, FlashCallInv
    <3>2. busy' = Head(todo)
      BY <1>2, <2>1, <3>1 DEF Execute
    <3>3. QED
      BY <2>1, <3>1, <3>2 DEF FlashCallInv, Fits, BlockOf
  <2>4. QED
    BY <1>5, <2>2, <2>3 DEF Command
<1>6. CASE ReadStatus
  <2>1. todo' = Tail(todo) /\ pc' = "enable"
    BY <1>6 DEF ReadStatus
  <2>2. \A i \in 1..Len(Tail(todo)) : i + 1 \in 1..Len(todo) /\ Tail(todo)[i] = todo[i + 1]
    BY <1>1
  <2>3. \A i \in 1..Len(Tail(todo)) : Fits(Tail(todo)[i])
    BY <2>2 DEF FlashCallInv
  <2>4. QED
    BY <2>1, <2>3 DEF FlashCallInv, Fits, BlockOf
<1>7. QED
  BY <1>4, <1>5, <1>6 DEF Driver

LEMMA ListFits ==
  ASSUME NEW b, \E p \in Pages : b = BlockOf(p), NEW n \in 1..PerBlock
  PROVE  Fits(Erase(b)) /\ Fits(Prog(b * PerBlock, n))
<1>1. b \in Nat /\ b * PerBlock \in Pages /\ (b * PerBlock) % PerBlock = 0
  BY FirstPages, BlocksAreNumbers, BlockStarts
<1>2. QED
  BY <1>1 DEF Fits, Erase, Prog

LEMMA StepCall == FlashInv /\ FlashCallInv /\ [FlashNext]_flashVars => FlashCallInv'
<1> SUFFICES ASSUME FlashInv, FlashCallInv, [FlashNext]_flashVars PROVE FlashCallInv'
  OBVIOUS
<1>1. CASE UNCHANGED flashVars \/ Jedec \/ Formatted
  BY <1>1, CallSame DEF flashVars, Jedec, Identify, Formatted
<1>2. CASE ChipDone
  BY <1>2 DEF ChipDone, FlashCallInv, Fits, BlockOf
<1>3. CASE Driver
  BY <1>3, DriverCall
<1>4. CASE Mount
  <2>1. CASE UNCHANGED todo
    BY <1>4, <2>1, CallSame DEF Mount
  <2>2. CASE todo' = <<Erase(0), Prog(0, 1), Erase(1), Prog(PerBlock, 1)>>
    <3>1. Fits(Erase(0)) /\ Fits(Prog(0, 1)) /\ Fits(Erase(1)) /\ Fits(Prog(PerBlock, 1))
      <4>1. 0 * PerBlock = 0 /\ 1 * PerBlock = PerBlock /\ 1 \in 1..PerBlock
        OBVIOUS
      <4>2. QED
        BY <4>1, SuperBlocks, ListFits
    <3>2. \A i \in 1..Len(todo') : Fits(todo'[i])
      BY <2>2, <3>1
    <3>3. pc' = "enable"
      BY <1>4 DEF Mount, FlashInv, DriverInv
    <3>4. QED
      BY <3>2, <3>3 DEF FlashCallInv, Fits, BlockOf
  <2>3. QED
    BY <1>4, <2>1, <2>2 DEF Mount
<1>5. CASE FileWrite
  <2>1. PICK n \in 1..PerBlock :
          \/ \E b \in {BlockOf(p) : p \in Pages} : todo' = <<Erase(b), Prog(b * PerBlock, n)>>
          \/ \E p \in Pages : (p % PerBlock) + n <= PerBlock /\ todo' = <<Prog(p, n)>>
    BY <1>5 DEF FileWrite
  <2>2. \A i \in 1..Len(todo') : Fits(todo'[i])
    <3>1. CASE \E b \in {BlockOf(p) : p \in Pages} : todo' = <<Erase(b), Prog(b * PerBlock, n)>>
      BY <3>1, ListFits
    <3>2. CASE \E p \in Pages : (p % PerBlock) + n <= PerBlock /\ todo' = <<Prog(p, n)>>
      BY <3>2 DEF Fits, Prog
    <3>3. QED
      BY <2>1, <3>1, <3>2
  <2>3. pc' = "enable"
    BY <1>5 DEF FileWrite, FlashInv, DriverInv
  <2>4. QED
    BY <2>2, <2>3 DEF FlashCallInv, Fits, BlockOf
<1>6. CASE Reset \/ PowerFail
  <2>1. pc' = "enable" /\ todo' = <<>>
    BY <1>6 DEF Reset, PowerFail, Booting
  <2>2. Len(<<>>) = 0
    OBVIOUS
  <2>3. QED
    BY <2>1, <2>2 DEF FlashCallInv
<1>7. QED
  BY <1>1, <1>2, <1>3, <1>4, <1>5, <1>6 DEF FlashNext

-----------------------------------------------------------------------------
\* Of a step that changes cells of some pages only.
LEMMA Unsettling ==
  ASSUME NEW S, NEW new \in [Pages -> Device!Contents], cells \in [Pages -> Device!Contents],
         \A p \in Pages \ S : new[p] = cells[p], cells' = new
  PROVE  Device!Unsettled(S)
<1> DEFINE state == [p \in S |-> IF p \in Pages THEN new[p] ELSE "torn"]
<1>1. state \in [S -> Device!Contents]
  BY DEF Device!Contents
<1>2. cells' = [p \in Pages |-> IF p \in S THEN state[p] ELSE cells[p]]
  OBVIOUS
<1> HIDE DEF state
<1>3. QED
  BY <1>1, <1>2 DEF Device!Unsettled

\* What the abstract device sees in a state.
LEMMA StartedIs ==
  ASSUME FlashInv, FlashCallInv, Started
  PROVE  /\ todo # <<>> /\ Head(todo) \in Commands /\ Fits(Head(todo))
         /\ phase \notin {"jedec", "fault"}
         /\ Head(todo).op \in {"erase", "prog"}
         /\ pc # "status" => busy = None
         /\ busy \in {None, Head(todo)} /\ cs \in {None, Enable, Head(todo)}
<1>1. todo # <<>> /\ todo \in Seq(Commands)
  BY DEF Started, FlashInv, Types
<1>2. Head(todo) \in Commands /\ Head(todo) = todo[1] /\ 1 \in 1..Len(todo)
  BY <1>1
<1>3. phase \notin {"jedec", "fault"}
  BY <1>1 DEF FlashInv, DriverInv
<1>4. pc # "status" => busy = None
  BY <1>3 DEF FlashInv, DriverInv
<1>5. cs \in {None, Enable, Head(todo)}
  BY DEF FlashInv, Types, FlashTypeOK, DriverInv, FlashCallInv
<1>6. QED
  BY <1>1, <1>2, <1>3, <1>4, <1>5, CommandsDiffer DEF FlashCallInv

\* The chip touches no page that the call is not about, and of a program of
\* one page, or an erase, all of them.
LEMMA WithinCall ==
  ASSUME NEW c, c.op \in {"erase", "prog"}, Fits(c)
  PROVE  /\ TouchedBy(c) \subseteq Device!Touched(c)
         /\ c.n \in {0, 1} => TouchedBy(c) = Device!Touched(c)
<1>1. CASE c.op = "erase"
  BY <1>1 DEF TouchedBy, Device!Touched, BlockOf, Device!BlockOf
<1>2. CASE c.op = "prog"
  <2>1. TouchedBy(c) = {c.of} /\ Device!Touched(c) = (c.of..c.of + c.n - 1) \cap Pages
    BY <1>2 DEF TouchedBy, Device!Touched, Fits
  <2>2. c.of \in Nat /\ c.of \in Pages /\ c.n \in 1..PerBlock
    BY <1>2 DEF Fits
  <2>3. c.of \in c.of..c.of + c.n - 1 /\ (c.n \in {0, 1} => c.of..c.of + c.n - 1 = {c.of})
    BY <2>2
  <2>4. QED
    BY <2>1, <2>2, <2>3
<1>3. QED
  BY <1>1, <1>2

LEMMA NotStartedIs ==
  ASSUME FlashInv, ~Started
  PROVE  cs = None /\ pc = "enable"
  BY DEF FlashInv, DriverInv, Started

LEMMA StutterDevice ==
  ASSUME UNCHANGED <<cells, busy, cs, todo, pc>>
  PROVE  UNCHANGED <<cells, Underway, Unsettled>>
  BY DEF Underway, Unsettled, Started, TouchedBy, BlockOf

LEMMA MarkedDone ==
  ASSUME NEW A, NEW B, NEW N, NEW c \in [op : A, of : B, n : N, done : BOOLEAN],
         NEW d \in [op : A, of : B, n : N, done : BOOLEAN],
         d.op = c.op, d.of = c.of, d.n = c.n, d.done = TRUE
  PROVE  d = [c EXCEPT !.done = TRUE]
  OBVIOUS

LEMMA ChipDoneDevice ==
  FlashInv /\ FlashCallInv /\ ChipDone => [Device!Next]_<<cells, Underway, Unsettled>>
<1> SUFFICES ASSUME FlashInv, FlashCallInv, ChipDone PROVE [Device!Next]_<<cells, Underway, Unsettled>>
  OBVIOUS
<1>1. /\ busy # None /\ busy' = None /\ cells' = After(busy) /\ UNCHANGED <<cs, todo, pc>>
      /\ Started' = Started /\ Types
  BY DEF ChipDone, Started, FlashInv
<1>2. CASE Started
  <2>1. pc = "status" /\ busy = Head(todo) /\ Head(todo).op \in {"erase", "prog"} /\ Fits(busy)
    BY <1>1, <1>2, StartedIs
  <2>2. /\ Underway = [op |-> busy.op, of |-> busy.of, n |-> busy.n, done |-> FALSE]
        /\ Underway' = [op |-> busy.op, of |-> busy.of, n |-> busy.n, done |-> TRUE]
        /\ Unsettled = {} /\ Unsettled' = {}
    BY <1>1, <1>2, <2>1 DEF Underway, Unsettled
  <2>3. Underway # Device!NoCall /\ ~Underway.done /\ Underway' = [Underway EXCEPT !.done = TRUE]
    <3>1. Underway.op # "none" /\ ~Underway.done
      BY <2>1, <2>2
    <3>2. Device!NoCall.op = "none"
      BY DEF Device!NoCall
    <3>3. PICK a, b, n : a = busy.op /\ b = busy.of /\ n = busy.n
      OBVIOUS
    <3>4. PICK before, after : before = Underway /\ after = Underway'
      OBVIOUS
    <3>5. /\ before \in [op : {a}, of : {b}, n : {n}, done : BOOLEAN]
          /\ after \in [op : {a}, of : {b}, n : {n}, done : BOOLEAN]
      BY <2>2, <3>3, <3>4
    <3>6. after.op = before.op /\ after.of = before.of /\ after.n = before.n /\ after.done = TRUE
      BY <2>2, <3>3, <3>4
    <3>7. after = [before EXCEPT !.done = TRUE]
      BY <3>5, <3>6, MarkedDone
    <3>8. QED
      BY <3>1, <3>2, <3>4, <3>7, Zenon
  <2>4. Device!Touched(Underway) = Device!Touched(busy) /\ Underway.op = busy.op /\ Underway.n = busy.n
    BY <2>2 DEF Device!Touched
  <2>5. CASE busy.n \in {0, 1}
    <3>1. /\ Device!Touched(Underway) = TouchedBy(busy)
          /\ Underway.op = "erase" \/ busy.n = 1
      BY <2>1, <2>4, <2>5, WithinCall DEF Fits
    <3>2. cells' = [p \in Pages |->
            IF p \notin Device!Touched(Underway) THEN cells[p]
            ELSE IF Underway.op = "erase" THEN "erased"
            ELSE IF cells[p] = "erased" THEN "whole" ELSE "torn"]
      BY <1>1, <2>4, <3>1 DEF After
    <3>3. Device!Effect
      BY <2>2, <2>3, <3>2 DEF Device!Effect
    <3>4. QED
      BY <3>3 DEF Device!Next
  <2>6. CASE busy.n \notin {0, 1}
    <3>1. Underway.op = "prog" /\ Underway.n > 1
      BY <2>1, <2>4, <2>6 DEF Fits
    <3>2. /\ After(busy) \in [Pages -> Device!Contents] /\ cells \in [Pages -> Device!Contents]
          /\ \A p \in Pages \ Device!Touched(Underway) : After(busy)[p] = cells[p]
      BY <1>1, <2>1, <2>4, WithinCall, AfterOthers DEF Device!Contents, Types, FlashTypeOK
    <3>3. Device!Unsettled(Device!Touched(Underway))
      BY <1>1, <3>2, Unsettling
    <3>4. Device!Fail
      BY <2>2, <2>3, <3>1, <3>3 DEF Device!Fail
    <3>5. QED
      BY <3>4 DEF Device!Next
  <2>7. QED
    BY <2>5, <2>6
<1>3. CASE ~Started
  <2>1. Underway' = Underway /\ Unsettled = TouchedBy(busy) /\ Unsettled' = {}
    BY <1>1, <1>3, NothingTouched DEF Underway, Unsettled, TouchedBy, BlockOf
  <2>2. /\ After(busy) \in [Pages -> Device!Contents] /\ cells \in [Pages -> Device!Contents]
        /\ \A p \in Pages \ TouchedBy(busy) : After(busy)[p] = cells[p]
    BY <1>1, AfterOthers DEF Device!Contents, Types, FlashTypeOK
  <2>3. CASE TouchedBy(busy) = {}
    <3>1. \A p \in Pages : After(busy)[p] = cells[p]
      BY <2>2, <2>3
    <3>2. PICK f, g : f = After(busy) /\ g = cells
      OBVIOUS
    <3>3. /\ f \in [Pages -> Device!Contents] /\ g \in [Pages -> Device!Contents]
          /\ \A p \in Pages : f[p] = g[p]
      BY <2>2, <3>1, <3>2, Zenon
    <3>4. f = g
      <4>1. f = [p \in Pages |-> f[p]] /\ g = [p \in Pages |-> g[p]]
        BY <3>3
      <4>2. QED
        BY <3>3, <4>1
    <3>5. QED
      BY <1>1, <2>1, <2>3, <3>2, <3>4
  <2>4. CASE TouchedBy(busy) # {}
    <3>1. Device!Unsettled(Unsettled)
      BY <1>1, <2>1, <2>2, Unsettling
    <3>2. Device!Settle
      BY <2>1, <2>4, <3>1 DEF Device!Settle
    <3>3. QED
      BY <3>2 DEF Device!Next
  <2>5. QED
    BY <2>3, <2>4
<1>4. QED
  BY <1>2, <1>3

\* The first cs_low begins the call, the write enable and the command are part
\* of it, and the last look at the status register ends it.
LEMMA DriverDevice ==
  FlashInv /\ FlashCallInv /\ Driver => [Device!Next]_<<cells, Underway, Unsettled>>
<1> SUFFICES ASSUME FlashInv, FlashCallInv, Driver PROVE [Device!Next]_<<cells, Underway, Unsettled>>
  OBVIOUS
<1>1. /\ todo # <<>> /\ Head(todo) \in Commands /\ Fits(Head(todo))
      /\ phase \notin {"jedec", "fault"}
  <2>1. todo # <<>> /\ todo \in Seq(Commands)
    BY DEF Driver, FlashInv, Types
  <2>2. Head(todo) \in Commands /\ Head(todo) = todo[1] /\ 1 \in 1..Len(todo)
    BY <2>1
  <2>3. QED
    BY <2>1, <2>2 DEF FlashCallInv, FlashInv, DriverInv
<1> DEFINE c == [op |-> Head(todo).op, of |-> Head(todo).of, n |-> Head(todo).n, done |-> FALSE]
<1>2. /\ None # Enable /\ Head(todo) # None /\ Head(todo) # Enable
      /\ Head(todo).op \in {"erase", "prog"}
  BY <1>1, CommandsDiffer DEF None, Enable
<1>3. CASE WriteEnable
  <2>1. UNCHANGED todo /\ pc = "enable" /\ busy = None
    BY <1>1, <1>3 DEF WriteEnable, FlashInv, DriverInv
  <2>2. CASE CsLow(Enable)
    <3>1. cs = None /\ cs' = Enable /\ UNCHANGED <<cells, busy, pc>>
      BY <2>2 DEF CsLow
    <3>2. ~Started /\ Started'
      BY <1>1, <1>2, <2>1, <3>1 DEF Started
    <3>3. Underway = Device!NoCall /\ Underway' = c
      BY <2>1, <3>1, <3>2 DEF Underway, Device!NoCall
    <3>4. Unsettled = {} /\ Unsettled' = {}
      BY <2>1, <3>2, NothingTouched DEF Unsettled
    <3>5. CASE Head(todo).op = "prog"
      <4>1. PICK p \in Pages, n \in 1..PerBlock :
              p = Head(todo).of /\ n = Head(todo).n /\ (p % PerBlock) + n <= PerBlock
        BY <1>1, <3>5 DEF Fits
      <4>2. Device!Begin("prog", p, n)
        BY <3>1, <3>3, <3>4, <3>5, <4>1 DEF Device!Begin
      <4>3. QED
        BY <4>1, <4>2 DEF Device!Next
    <3>6. CASE Head(todo).op = "erase"
      <4>1. PICK p \in Pages : Head(todo).of = BlockOf(p) /\ Head(todo).n = 0
        BY <1>1, <3>6 DEF Fits
      <4>2. Device!Begin("erase", Device!BlockOf(p), 0)
        BY <3>1, <3>3, <3>4, <3>6, <4>1 DEF Device!Begin, Device!BlockOf, BlockOf
      <4>3. QED
        BY <4>2 DEF Device!Next
    <3>7. QED
      BY <1>2, <3>5, <3>6
  <2>3. CASE CsHigh("command")
    <3>1. pc' = "command" /\ cs = Enable /\ cs # None /\ Execute(cs, FALSE)
      BY <2>1, <2>3 DEF CsHigh, FlashInv, DriverInv
    <3>2. UNCHANGED <<cells, busy>>
      BY <1>2, <2>1, <3>1 DEF Execute
    <3>3. Started /\ Started'
      BY <1>1, <2>1, <3>1 DEF Started
    <3>4. UNCHANGED <<Underway, Unsettled>>
      BY <2>1, <3>1, <3>3 DEF Underway, Unsettled
    <3>5. QED
      BY <3>2, <3>4
  <2>4. QED
    BY <1>3, <2>2, <2>3 DEF WriteEnable
<1>4. CASE Command
  <2>1. UNCHANGED todo /\ pc = "command" /\ busy = None /\ wel = TRUE /\ Started
    BY <1>1, <1>4 DEF Command, FlashInv, DriverInv, FlashCallInv, Started
  <2>2. CASE CsLow(Head(todo))
    <3>1. UNCHANGED <<cells, pc>>
      BY <2>2 DEF CsLow
    <3>2. Started' /\ UNCHANGED <<Underway, Unsettled>>
      BY <1>1, <2>1, <3>1 DEF Underway, Unsettled, Started
    <3>3. QED
      BY <3>1, <3>2
  <2>3. CASE CsHigh("status")
    <3>1. pc' = "status" /\ cs = Head(todo) /\ Execute(cs, FALSE)
      BY <2>1, <2>3 DEF CsHigh, FlashCallInv
    <3>2. busy' = Head(todo) /\ UNCHANGED cells
      BY <1>2, <2>1, <3>1 DEF Execute
    <3>3. Started' /\ UNCHANGED <<Underway, Unsettled>>
      BY <1>1, <1>2, <2>1, <3>1, <3>2 DEF Underway, Unsettled, Started
    <3>4. QED
      BY <3>2, <3>3
  <2>4. QED
    BY <1>4, <2>2, <2>3 DEF Command
<1>5. CASE ReadStatus
  <2>1. /\ pc = "status" /\ busy = None /\ pc' = "enable" /\ UNCHANGED <<cells, busy, cs>>
        /\ cs = None /\ Started
    BY <1>1, <1>5 DEF ReadStatus, FlashInv, DriverInv, Started
  <2>2. ~Started'
    BY <2>1 DEF Started
  <2>3. Underway.done /\ Underway' = Device!NoCall /\ Unsettled = {} /\ Unsettled' = {}
    BY <2>1, <2>2, NothingTouched DEF Underway, Unsettled, Device!NoCall, TouchedBy, BlockOf
  <2>4. Device!Return
    BY <2>1, <2>3 DEF Device!Return
  <2>5. QED
    BY <2>4 DEF Device!Next
<1>6. QED
  BY <1>3, <1>4, <1>5 DEF Driver

\* Between calls main does not touch the device.
LEMMA BetweenDevice ==
  FlashInv /\ (Jedec \/ Mount \/ Formatted \/ FileWrite) => UNCHANGED <<cells, Underway, Unsettled>>
<1> SUFFICES ASSUME FlashInv, Jedec \/ Mount \/ Formatted \/ FileWrite
             PROVE  UNCHANGED <<cells, Underway, Unsettled>>
  OBVIOUS
<1>1. todo = <<>>
  BY DEF Jedec, Identify, Mount, Formatted, FileWrite, FlashInv, DriverInv
<1>2. pc = "enable" /\ cs = None
  BY <1>1 DEF FlashInv, DriverInv
<1>3. UNCHANGED <<cells, busy, cs, pc>>
  BY DEF Jedec, Identify, Mount, Formatted, FileWrite
<1>4. ~Started /\ ~Started'
  BY <1>1, <1>2, <1>3 DEF Started
<1>5. QED
  BY <1>3, <1>4 DEF Underway, Unsettled, TouchedBy, BlockOf

\* A restart or a power failure leaves some pages of the call unsettled, and
\* no others.
LEMMA CrashDevice ==
  FlashInv /\ FlashCallInv /\ (Reset \/ PowerFail) => [Device!Next]_<<cells, Underway, Unsettled>>
<1> SUFFICES ASSUME FlashInv, FlashCallInv, Reset \/ PowerFail
             PROVE  [Device!Next]_<<cells, Underway, Unsettled>>
  OBVIOUS
<1> DEFINE S == Unsettled \cup Device!Touched(Underway)
<1>1. Types /\ cells \in [Pages -> Device!Contents]
  BY DEF FlashInv, Types, FlashTypeOK, Device!Contents
<1>2. todo' = <<>> /\ ~Started'
  BY DEF Reset, PowerFail, Booting, Started
<1>3. Underway' = Device!NoCall /\ Unsettled' = TouchedBy(busy')
  BY <1>2 DEF Underway, Unsettled, Device!NoCall, TouchedBy, BlockOf
<1>4. CASE Started
  <2>1. TouchedBy(Head(todo)) \subseteq S /\ Unsettled = {}
    <3>1. Unsettled = {} /\ Device!Touched(Underway) = Device!Touched(Head(todo))
      BY <1>4 DEF Unsettled, Underway, Device!Touched
    <3>2. QED
      BY <1>4, <3>1, StartedIs, WithinCall
  <2>2. /\ busy' \in {None, Head(todo)} /\ cells' \in [Pages -> Device!Contents]
        /\ \A p \in Pages \ S : cells'[p] = cells[p]
    <3>1. CASE Reset
      <4>1. /\ busy' \in {busy, cs} /\ busy' \in Commands \union {None}
            /\ cells' \in [Pages -> {"erased", "whole", "torn"}]
            /\ \A p \in Pages \ TouchedBy(cs) : cells'[p] = cells[p]
        BY <1>1, <3>1, ExecuteInv DEF Reset
      <4>2. cs \in {None, Enable, Head(todo)} /\ busy \in {None, Head(todo)} /\ Enable \notin Commands
            /\ Enable # None
        BY <1>4, StartedIs, CommandsDiffer DEF None, Enable
      <4>3. TouchedBy(cs) \subseteq S
        BY <2>1, <4>2, NothingTouched
      <4>4. QED
        BY <4>1, <4>2, <4>3 DEF Device!Contents
    <3>2. CASE PowerFail
      <4>1. busy' = None /\ cells' \in {cells, Torn(busy), After(busy)}
        BY <3>2 DEF PowerFail
      <4>2. busy \in {None, Head(todo)}
        BY <1>4, StartedIs
      <4>3. TouchedBy(busy) \subseteq S
        BY <2>1, <4>2, NothingTouched
      <4>4. QED
        BY <1>1, <4>1, <4>3, AfterOthers DEF Device!Contents
    <3>3. QED
      BY <3>1, <3>2
  <2>3. Unsettled' \in SUBSET S
    BY <1>3, <2>1, <2>2, NothingTouched
  <2>4. Device!Unsettled(S)
    BY <1>1, <2>2, Unsettling
  <2>5. Device!Crash
    BY <1>3, <2>3, <2>4 DEF Device!Crash
  <2>6. QED
    BY <2>5 DEF Device!Next
<1>5. CASE ~Started
  <2>1. Unsettled = TouchedBy(busy) /\ Underway = Device!NoCall
    BY <1>5 DEF Unsettled, Underway, Device!NoCall
  <2>2. CASE Reset
    <3>1. UNCHANGED <<cells, busy>>
      BY <1>5, <2>2, NotStartedIs DEF Reset, Execute
    <3>2. QED
      BY <1>3, <2>1, <3>1
  <2>3. CASE PowerFail
    <3>1. busy' = None /\ cells' \in {cells, Torn(busy), After(busy)}
      BY <2>3 DEF PowerFail
    <3>2. /\ cells' \in [Pages -> Device!Contents]
          /\ \A p \in Pages \ S : cells'[p] = cells[p]
      BY <1>1, <2>1, <3>1, AfterOthers DEF Device!Contents
    <3>3. Unsettled' = {}
      BY <1>3, <3>1, NothingTouched
    <3>4. Device!Unsettled(S)
      BY <1>1, <3>2, Unsettling
    <3>5. Device!Crash
      BY <1>3, <3>3, <3>4 DEF Device!Crash
    <3>6. QED
      BY <3>5 DEF Device!Next
  <2>4. QED
    BY <2>2, <2>3
<1>6. QED
  BY <1>4, <1>5

LEMMA StepDevice ==
  FlashInv /\ FlashCallInv /\ [FlashNext]_flashVars => [Device!Next]_<<cells, Underway, Unsettled>>
<1> SUFFICES ASSUME FlashInv, FlashCallInv, [FlashNext]_flashVars
             PROVE  [Device!Next]_<<cells, Underway, Unsettled>>
  OBVIOUS
<1>1. CASE UNCHANGED flashVars
  BY <1>1, StutterDevice DEF flashVars
<1>2. QED
  BY <1>1, ChipDoneDevice, DriverDevice, BetweenDevice, CrashDevice DEF FlashNext

LEMMA InitDevice == FlashInit => Device!Init
<1> SUFFICES ASSUME FlashInit PROVE Device!Init
  OBVIOUS
<1>1. ~Started /\ busy = None /\ cells \in [Pages -> {"erased", "torn"}]
  BY DEF FlashInit, Started
<1>2. QED
  BY <1>1, NothingTouched DEF Device!Init, Device!NoCall, Underway, Unsettled

\* The driver and the chip are the device LittleFS assumes for erases and for
\* programs of one page: between its begin and its return a call changes the
\* pages it is about, all of them and no others. A longer program, which the
\* driver sends as one transaction, fails, but it too is over when the call
\* returns and has changed no page outside the region it was given. This holds
\* through resets of the controller that the chip outlives and power failures,
\* for any number of pages, size of a block and calls.
THEOREM DriverIsBlockDevice == FlashSpec => ImplementsBlockDevice
<1>1. FlashInit => FlashInv /\ FlashCallInv /\ Device!Init
  BY FlashInitInv, InitCall, InitDevice
<1>2. FlashInv /\ FlashCallInv /\ [FlashNext]_flashVars => (FlashInv /\ FlashCallInv)'
  BY FlashStepInv, StepCall
<1>3. QED
  BY <1>1, <1>2, StepDevice, PTL DEF FlashSpec, ImplementsBlockDevice, Device!Spec
=============================================================================
