------------------------------- MODULE Sh1106 --------------------------------
(***************************************************************************)
(* The display controller as the SH1106 functions drive it: a transaction  *)
(* is a start condition, the address, and control and data bytes; commands *)
(* set the controller's registers or the place where data goes to its RAM. *)
(* The frame buffer holds a value per column and page. update sends it     *)
(* page by page, each with interrupts disabled, and tasks draw in between. *)
(***************************************************************************)
EXTENDS Integers, Sequences

CONSTANTS
  PageNumbers,   \* 0..7 on the device
  LastColumn,    \* 127
  Margin,        \* the RAM is wider than the panel by this on each side, 2
  Shades         \* values of eight rows of a column

ASSUME ShAssumption == LastColumn \in Nat /\ Margin = 2 /\ PageNumbers \subseteq Nat

VARIABLES
  buf,           \* the frame buffer
  ram,           \* the controller's RAM, by page and column
  registers,     \* on, inverted, segments and rows reversed, contrast
  sent,          \* pages this update has sent, none before the first update
  asked,         \* modes asked for since the last NORMAL, and the last of ON and OFF
  drawn          \* a task has drawn since the update began

shVars == <<buf, ram, registers, sent, asked, drawn>>

PanelColumns == 0..LastColumn
RamColumns == 0..LastColumn + 2 * Margin

-----------------------------------------------------------------------------
\* One command byte; contrast is the only one whose parameter is kept.
Obey(r, command) ==
  CASE command = "DISPLAY_ON"      -> [r EXCEPT !.on = TRUE]
    [] command = "DISPLAY_OFF"     -> [r EXCEPT !.on = FALSE]
    [] command = "NORMAL_DISPLAY"  -> [r EXCEPT !.inverted = FALSE]
    [] command = "INVERT_DISPLAY"  -> [r EXCEPT !.inverted = TRUE]
    [] command = "SEGMENT_REMAP"   -> [r EXCEPT !.flipH = FALSE]
    [] command = "SEGMENT_REVERSE" -> [r EXCEPT !.flipH = TRUE]
    [] command = "COM_REMAP"       -> [r EXCEPT !.flipV = FALSE]
    [] command = "COM_NORMAL"      -> [r EXCEPT !.flipV = TRUE]
    [] command = "CONTRAST_FF"     -> [r EXCEPT !.contrast = 255]
    [] command = "CONTRAST_40"     -> [r EXCEPT !.contrast = 64]

\* after[i] is what the first i of the commands make of r.
ObeyAll(r, commands) ==
  LET after[i \in 0..Len(commands)] == IF i = 0 THEN r ELSE Obey(after[i - 1], commands[i])
  IN  after[Len(commands)]

\* The part of init_seq that the registers above see.
init_seq == <<"DISPLAY_OFF", "SEGMENT_REMAP", "COM_REMAP", "CONTRAST_FF",
              "NORMAL_DISPLAY", "DISPLAY_ON">>

\* Variant: the rows keep their direction when the mode is normal again.
NormalKeep == <<"NORMAL_DISPLAY", "SEGMENT_REMAP", "CONTRAST_FF">>

Normal == <<"NORMAL_DISPLAY", "SEGMENT_REMAP", "COM_REMAP", "CONTRAST_FF">>

\* What setMode sends.
ModeCommands == [
  NORMAL     |-> Normal,
  INVERTED   |-> <<"INVERT_DISPLAY">>,
  FLIP_H     |-> <<"NORMAL_DISPLAY", "SEGMENT_REVERSE">>,
  FLIP_V     |-> <<"NORMAL_DISPLAY", "COM_NORMAL">>,
  ROTATE_180 |-> <<"NORMAL_DISPLAY", "SEGMENT_REVERSE", "COM_NORMAL">>,
  DIM        |-> <<"NORMAL_DISPLAY", "CONTRAST_40">>,
  OFF        |-> <<"DISPLAY_OFF">>,
  ON         |-> <<"DISPLAY_ON">>]

-----------------------------------------------------------------------------
\* init: the sequence, a cleared buffer; the update that follows is Page.
ShInit ==
  /\ buf = [p \in PageNumbers |-> [c \in PanelColumns |-> 0]]
  /\ ram \in {[p \in PageNumbers |-> [c \in RamColumns |-> s]] : s \in Shades}
  /\ registers = ObeyAll([on |-> FALSE, inverted |-> TRUE, flipH |-> TRUE,
                          flipV |-> TRUE, contrast |-> 0], init_seq)
  /\ sent = {} /\ asked = [modes |-> {}, on |-> TRUE] /\ drawn = FALSE

\* Variant: the margin of the RAM is forgotten.
PlacedAtMargin(p) == [page |-> p, column |-> 0]

\* The commands in front of a page's data; low and high half of the column.
Placed(p) == [page |-> p, column |-> 2]

\* The data of a page, from the last column of the buffer to the first, each
\* to the next column of the RAM.
Page(p) ==
  /\ p \notin sent /\ \A q \in PageNumbers : q < p => q \in sent
  /\ ram' = [ram EXCEPT ![Placed(p).page] =
       [c \in RamColumns |->
         LET i == LastColumn - (c - Placed(p).column)
         IN  IF i \in PanelColumns THEN buf[p][i] ELSE @[c]]]
  /\ sent' = sent \cup {p}
  /\ UNCHANGED <<buf, registers, asked, drawn>>

\* The loop of test3: update begins anew.
Update ==
  /\ sent = PageNumbers
  /\ sent' = {} /\ drawn' = FALSE
  /\ UNCHANGED <<buf, ram, registers, asked>>

\* A task draws a column, or clears the buffer.
Draw ==
  /\ \E p \in PageNumbers, c \in PanelColumns, s \in Shades : buf' = [buf EXCEPT ![p][c] = s]
  /\ drawn' = TRUE
  /\ UNCHANGED <<ram, registers, sent, asked>>

SetMode(mode) ==
  /\ sent = PageNumbers       \* the task that updates calls it
  /\ registers' = ObeyAll(registers, ModeCommands[mode])
  /\ asked' = IF mode \in {"ON", "OFF"} THEN [asked EXCEPT !.on = (mode = "ON")]
              ELSE IF mode = "NORMAL" THEN [asked EXCEPT !.modes = {}]
              ELSE [asked EXCEPT !.modes = (@ \ {"INVERTED"}) \cup {mode}]
  /\ UNCHANGED <<buf, ram, sent, drawn>>

ShNext ==
  \/ Update \/ Draw
  \/ \E p \in PageNumbers : Page(p)
  \/ \E mode \in DOMAIN ModeCommands : SetMode(mode)

ShSpec == ShInit /\ [][ShNext]_shVars

-----------------------------------------------------------------------------
(***************************************************************************)
(* When an update is complete and nobody drew during it, the panel shows   *)
(* the frame buffer, mirrored as the segment order asks.                   *)
(***************************************************************************)
Shown ==
  sent = PageNumbers /\ ~drawn =>
    \A p \in PageNumbers, c \in PanelColumns : ram[p][LastColumn - c + Margin] = buf[p][c]

(***************************************************************************)
(* The registers are those of the modes asked for since the last NORMAL,   *)
(* whatever came before it: two flips make the rotation, any other mode    *)
(* ends the inversion, and the contrast stays low.                         *)
(***************************************************************************)
ModesAdd ==
  registers = [on |-> asked.on,
               inverted |-> "INVERTED" \in asked.modes,
               flipH |-> asked.modes \cap {"FLIP_H", "ROTATE_180"} # {},
               flipV |-> asked.modes \cap {"FLIP_V", "ROTATE_180"} # {},
               contrast |-> IF "DIM" \in asked.modes THEN 64 ELSE 255]

PanelSound == Shown /\ ModesAdd
=============================================================================
