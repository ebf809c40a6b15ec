-------------------------------- MODULE Flash --------------------------------
(***************************************************************************)
(* The SPI bus, the W25Q64 behind it, the driver's calls and the way main  *)
(* reaches a mounted file system. A transaction is the bytes between       *)
(* cs_low and cs_high; the chip acts on a command when cs rises. The       *)
(* controller may be reset between any two steps while the chip goes on,   *)
(* and the power may fail.                                                 *)
(***************************************************************************)
EXTENDS Integers, Sequences, FiniteSets

CONSTANTS
  Pages, PerBlock,  \* page numbers, and pages of a block
  MaxResets,    \* bound of the run: resets and power failures
  MaxWrites     \* bound of the run: writes of the application

\* Pages are numbered from 0 on; there are two blocks at least.
ASSUME ChipAssumption ==
  /\ Pages \subseteq Nat /\ \A p \in Pages : 0..p \subseteq Pages
  /\ PerBlock \in Nat \ {0} /\ PerBlock \in Pages

VARIABLES
  cells,        \* page -> "erased", "whole" (as programmed), "torn" (anything else)
  busy,         \* the command the chip is at work on
  wel,          \* the chip's write enable latch
  cs,           \* the command of the transaction going on
  phase,        \* where main is
  todo,         \* driver calls that remain in this phase
  pc,           \* step of the first of them
  mounted,      \* a mount has succeeded once
  resets, writes

flashVars == <<cells, busy, wel, cs, phase, todo, pc, mounted, resets, writes>>

None   == [op |-> "none", of |-> -1, n |-> 0]
Enable == [op |-> "enable", of |-> -1, n |-> 0]
Erase(b)   == [op |-> "erase", of |-> b, n |-> 0]
Prog(p, n) == [op |-> "prog", of |-> p, n |-> n]    \* n pages of data, to page p on

FlashInit ==
  /\ cells \in [Pages -> {"erased", "torn"}]
  /\ busy = None /\ wel = FALSE /\ cs = None
  /\ phase = "jedec" /\ todo = <<>> /\ pc = "enable"
  /\ mounted = FALSE /\ resets = 0 /\ writes = 0

-----------------------------------------------------------------------------
\* The chip. Only an erased page takes what is programmed. A transaction of
\* more than a page of data goes round within the page it began in, and leaves
\* the data of its last page there.
BlockOf(p) == p \div PerBlock
TouchedBy(c) == IF c.op = "erase" THEN {p \in Pages : BlockOf(p) = c.of} ELSE {c.of} \cap Pages
After(c) == [p \in Pages |->
  IF p \notin TouchedBy(c) THEN cells[p]
  ELSE IF c.op = "erase" THEN "erased"
  ELSE IF cells[p] = "erased" /\ c.n = 1 THEN "whole" ELSE "torn"]
Torn(c) == [p \in Pages |-> IF p \in TouchedBy(c) THEN "torn" ELSE cells[p]]

\* cs rises after the command c. A busy chip ignores it, as does one without
\* the latch. A transaction cut by a reset has programmed some of its bytes;
\* an erase without its whole address is dropped.
Execute(c, cut) ==
  IF busy # None \/ c = None THEN UNCHANGED <<cells, busy, wel>>
  ELSE IF c = Enable THEN wel' = TRUE /\ UNCHANGED <<cells, busy>>
  ELSE IF ~wel \/ (cut /\ c.op = "erase") THEN UNCHANGED <<cells, busy, wel>>
  ELSE busy' = c /\ wel' = FALSE /\ cells' = IF cut THEN Torn(c) ELSE cells

ChipDone ==
  /\ busy # None
  /\ busy' = None /\ cells' = After(busy)
  /\ UNCHANGED <<wel, cs, phase, todo, pc, mounted, resets, writes>>

-----------------------------------------------------------------------------
\* w25q64_prog and w25q64_erase: write enable, the command with all of its
\* data, then the status register until the chip is idle.
CsLow(c) == cs = None /\ cs' = c /\ UNCHANGED <<cells, busy, wel, pc>>
CsHigh(next) == cs # None /\ cs' = None /\ Execute(cs, FALSE) /\ pc' = next

WriteEnable == /\ pc = "enable" /\ (CsLow(Enable) \/ CsHigh("command")) /\ UNCHANGED todo
\* Variant: the driver returns without a look at the status register.
CommandOnly ==
  /\ pc = "command"
  /\ \/ CsLow(Head(todo)) /\ UNCHANGED todo
     \/ CsHigh("enable") /\ todo' = Tail(todo)

Command == pc = "command" /\ (CsLow(Head(todo)) \/ CsHigh("status")) /\ UNCHANGED todo

\* Variant: the busy bit is waited for, not waited out.
ReadStatusBusy ==
  /\ pc = "status" /\ busy # None
  /\ todo' = Tail(todo) /\ pc' = "enable"
  /\ UNCHANGED <<cells, busy, wel, cs>>

ReadStatus ==
  /\ pc = "status" /\ busy = None
  /\ todo' = Tail(todo) /\ pc' = "enable"
  /\ UNCHANGED <<cells, busy, wel, cs>>

Driver == /\ todo # <<>>
          /\ WriteEnable \/ Command \/ ReadStatus
          /\ UNCHANGED <<phase, mounted, resets, writes>>

-----------------------------------------------------------------------------
\* The pages that n pages of data from page p on are meant for.
Region(p, n) == (p..p + n - 1) \cap Pages

\* main: a busy chip does not answer the identification.
Identify(next) ==
  /\ phase = "jedec"
  /\ phase' = IF busy = None THEN next ELSE "fault"
  /\ UNCHANGED <<cells, busy, wel, cs, todo, pc, mounted, resets, writes>>
\* Variant: the identification is read and not compared.
JedecUnchecked ==
  /\ phase = "jedec" /\ phase' = "mount"
  /\ UNCHANGED <<cells, busy, wel, cs, todo, pc, mounted, resets, writes>>

Jedec == Identify("mount")

\* lfs_mount needs one of the two superblocks, and a chip that answers reads.
SuperBlock(b) == cells[b * PerBlock] = "whole"
Mountable == busy = None /\ (SuperBlock(0) \/ SuperBlock(1))

\* Filesystem::init: any error of the first mount formats the flash.
Mount ==
  /\ phase \in {"mount", "remount"} /\ todo = <<>>
  /\ \/ Mountable /\ phase' = "run" /\ mounted' = TRUE /\ UNCHANGED todo
     \/ /\ ~Mountable /\ phase = "mount"
        /\ phase' = "format" /\ UNCHANGED mounted
        /\ todo' = <<Erase(0), Prog(0, 1), Erase(1), Prog(PerBlock, 1)>>
     \/ ~Mountable /\ phase = "remount" /\ phase' = "fault" /\ UNCHANGED <<todo, mounted>>
  /\ UNCHANGED <<cells, busy, wel, cs, pc, resets, writes>>

Formatted ==
  /\ phase = "format" /\ todo = <<>>
  /\ phase' = "remount"
  /\ UNCHANGED <<cells, busy, wel, cs, todo, pc, mounted, resets, writes>>

\* The application writes through lfs, up to a cache, which is a block, at a
\* time: a block is erased and programmed, one superblock only while the other
\* one is valid, or the erased rest of a block is programmed.
FileWrite ==
  /\ phase = "run" /\ todo = <<>> /\ writes < MaxWrites
  /\ \E n \in 1..PerBlock :
       \/ \E b \in {BlockOf(p) : p \in Pages} :
            /\ b \in {0, 1} => SuperBlock(1 - b)
            /\ todo' = <<Erase(b), Prog(b * PerBlock, n)>>
       \/ \E p \in Pages :
            /\ p % PerBlock # 0 /\ (p % PerBlock) + n <= PerBlock
            /\ \A q \in Region(p, n) : cells[q] = "erased"
            /\ todo' = <<Prog(p, n)>>
  /\ writes' = writes + 1
  /\ UNCHANGED <<cells, busy, wel, cs, phase, pc, mounted, resets>>

Booting == phase' = "jedec" /\ todo' = <<>> /\ pc' = "enable" /\ cs' = None

\* The controller restarts and cs rises; the chip goes on.
Reset ==
  /\ resets < MaxResets /\ resets' = resets + 1
  /\ Booting /\ Execute(cs, TRUE)
  /\ UNCHANGED <<mounted, writes>>

\* The power fails: what the chip was at is left in some state.
PowerFail ==
  /\ resets < MaxResets /\ resets' = resets + 1
  /\ Booting /\ busy' = None /\ wel' = FALSE
  /\ cells' \in IF busy = None THEN {cells} ELSE {cells, Torn(busy), After(busy)}
  /\ UNCHANGED <<mounted, writes>>

FlashNext == \/ ChipDone \/ Driver \/ Jedec \/ Mount \/ Formatted \/ FileWrite
             \/ Reset \/ PowerFail

FlashFairness == WF_flashVars(ChipDone) /\ WF_flashVars(Driver)
                 /\ WF_flashVars(Jedec) /\ WF_flashVars(Mount) /\ WF_flashVars(Formatted)

FlashSpec == FlashInit /\ [][FlashNext]_flashVars /\ FlashFairness

-----------------------------------------------------------------------------
FlashTypeOK ==
  /\ cells \in [Pages -> {"erased", "whole", "torn"}]
  /\ phase \in {"jedec", "mount", "format", "remount", "run", "fault"}
  /\ pc \in {"enable", "command", "status"} /\ wel \in BOOLEAN /\ mounted \in BOOLEAN
  /\ {busy.op, cs.op} \subseteq {"none", "enable", "erase", "prog"}

(***************************************************************************)
(* A flash that was mounted once is not formatted again, although any      *)
(* error of lfs_mount leads to lfs_format: a reset that finds the chip at  *)
(* work stops at the identification, before the mount reads garbage.       *)
(***************************************************************************)
NeverFormattedAgain == mounted => phase \notin {"format", "remount"}

(***************************************************************************)
(* Every boot ends in the tasks or in the fault handler.                   *)
(***************************************************************************)
BootEnds == (phase = "jedec") ~> (phase \in {"run", "fault"})

(***************************************************************************)
(* The driver and the chip are the device LittleFS assumes, but that a     *)
(* program of more than a page fails: it leaves the pages it was given in  *)
(* some state, and still touches no others. A call is under way from its   *)
(* first cs_low on, and done when the chip is.                             *)
(***************************************************************************)
Started == todo # <<>> /\ (pc # "enable" \/ cs # None)
Underway ==
  IF Started THEN [op |-> Head(todo).op, of |-> Head(todo).of, n |-> Head(todo).n,
                   done |-> pc = "status" /\ busy = None]
  ELSE [op |-> "none", of |-> -1, n |-> 0, done |-> FALSE]
Unsettled == IF Started THEN {} ELSE TouchedBy(busy)
Device == INSTANCE BlockDevice WITH call <- Underway, loose <- Unsettled
ImplementsBlockDevice == Device!Spec

(***************************************************************************)
(* What lfs.h asks of a driver's prog, that it programs the region it was  *)
(* given, for programs of any length that LittleFS makes.                  *)
(***************************************************************************)
ProgramsRegion ==
  pc = "status" /\ busy = None /\ todo # <<>> /\ Head(todo).op = "prog" =>
    \A p \in Region(Head(todo).of, Head(todo).n) : cells[p] = "whole"
=============================================================================
