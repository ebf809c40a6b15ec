-------------------------------- MODULE Clock --------------------------------
(***************************************************************************)
(* SysTick's millisecond counter and the delays. ms is two words; the      *)
(* handler adds one to the pair, with interrupts disabled, and a task      *)
(* loads the pair in two accesses, in an order the compiler chooses.       *)
(***************************************************************************)
EXTENDS Integers, FiniteSets

CONSTANTS
  Sleepers,     \* tasks
  Delays,       \* values of the parameter delay
  Word,         \* number of values of a word, 2^32 on the device
  MaxTicks      \* bound of the run

ASSUME ClockAssumption ==
  Word \in Nat \ {0} /\ MaxTicks \in Nat /\ Delays \subseteq Nat

VARIABLES
  ms,           \* <<low word, high word>>
  ticks,        \* handler runs so far: the time, for the properties
  sleep         \* per task: where it is in delayMs

clockVars == <<ms, ticks, sleep>>

\* half is the word loaded first of the two, "" when none is.
Awake == [pc |-> "awake", delay |-> 0, start |-> 0, half |-> "", word |-> 0,
          since |-> 0, torn |-> FALSE]

ClockInit ==
  /\ ms = <<Word - 1, 0>> /\ ticks = 0
  /\ sleep = [t \in Sleepers |-> Awake]

\* Variant: the words are added to without the carry.
CarryLost(low) == 0

Carry(low) == IF low = Word - 1 THEN 1 ELSE 0

SysTickCount ==
  /\ ticks < MaxTicks
  /\ ms' = <<(ms[1] + 1) % Word, (ms[2] + Carry(ms[1])) % Word>>
  /\ ticks' = ticks + 1
  /\ sleep' = [t \in Sleepers |->
       IF sleep[t].half # "" /\ Carry(ms[1]) = 1 THEN [sleep[t] EXCEPT !.torn = TRUE]
       ELSE sleep[t]]

\* delayMs(delay) and the first word of its default argument start = ms; a
\* task of the display loop has read start itself, a frame ago.
DelayMs(t) ==
  /\ sleep[t].pc = "awake"
  /\ \E d \in Delays : sleep' = [sleep EXCEPT
       ![t] = [Awake EXCEPT !.pc = "start", !.delay = d, !.since = ticks]]
  /\ UNCHANGED <<ms, ticks>>

\* The load of one word; the other one is loaded next.
LoadWord(t) ==
  /\ sleep[t].pc \in {"start", "test"} /\ sleep[t].half = ""
  /\ \E half \in {"low", "high"} : sleep' = [sleep EXCEPT
       ![t].half = half, ![t].word = IF half = "low" THEN ms[1] ELSE ms[2]]
  /\ UNCHANGED <<ms, ticks>>

Loaded(t) == IF sleep[t].half = "low" THEN sleep[t].word + Word * ms[2]
             ELSE ms[1] + Word * sleep[t].word

Elapsed(t) == (Loaded(t) - sleep[t].start) % (Word * Word)

LoadStart(t) ==
  /\ sleep[t].pc = "start" /\ sleep[t].half # ""
  /\ sleep' = [sleep EXCEPT ![t].pc = "test", ![t].start = Loaded(t), ![t].half = ""]
  /\ UNCHANGED <<ms, ticks>>

\* Variant: the loop waits for the very millisecond.
TestExact(t) ==
  /\ sleep[t].pc = "test" /\ sleep[t].half # ""
  /\ sleep' = [sleep EXCEPT
       ![t].pc = IF Elapsed(t) # sleep[t].delay THEN "test" ELSE "ended",
       ![t].half = ""]
  /\ UNCHANGED <<ms, ticks>>

\* The loop yields and tests again while too little time is gone.
Test(t) ==
  /\ sleep[t].pc = "test" /\ sleep[t].half # ""
  /\ sleep' = [sleep EXCEPT
       ![t].pc = IF Elapsed(t) < sleep[t].delay THEN "test" ELSE "ended",
       ![t].half = ""]
  /\ UNCHANGED <<ms, ticks>>

Wake(t) ==
  /\ sleep[t].pc = "ended"
  /\ sleep' = [sleep EXCEPT ![t] = Awake]
  /\ UNCHANGED <<ms, ticks>>

DelayStep(t) == LoadWord(t) \/ LoadStart(t) \/ Test(t)
ClockNext == SysTickCount \/ \E t \in Sleepers : DelayMs(t) \/ DelayStep(t) \/ Wake(t)

\* The scheduler serves every task, and the timer ticks.
ClockFairness == WF_clockVars(SysTickCount) /\ \A t \in Sleepers : WF_clockVars(DelayStep(t))

ClockSpec == ClockInit /\ [][ClockNext]_clockVars /\ ClockFairness

-----------------------------------------------------------------------------
ClockTypeOK ==
  /\ ms \in (0..Word - 1) \X (0..Word - 1) /\ ticks \in 0..MaxTicks
  /\ sleep \in [Sleepers -> [pc : {"awake", "start", "test", "ended"}, delay : Delays \cup {0},
       start : 0..Word * Word - 1, half : {"", "low", "high"}, word : 0..Word - 1,
       since : 0..MaxTicks, torn : BOOLEAN]]

(***************************************************************************)
(* A delay lasts its milliseconds, less the one that had begun, across     *)
(* carries of the low word, unless a carry fell between two loads.         *)
(***************************************************************************)
NotEarly == \A t \in Sleepers :
  sleep[t].pc = "ended" /\ ~sleep[t].torn => ticks - sleep[t].since >= sleep[t].delay

(***************************************************************************)
(* Every delay ends as long as the timer ticks. A start torn by a carry    *)
(* lies up to a word's range ahead, and costs no more than that.           *)
(***************************************************************************)
DelayEnds == \A t \in Sleepers :
  (sleep[t].pc = "test" /\ ticks + sleep[t].delay + Word < MaxTicks)
    ~> (sleep[t].pc = "ended")
=============================================================================
