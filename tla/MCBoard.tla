-------------------------------- MODULE MCBoard --------------------------------
(***************************************************************************)
(* Instances of the parts that drive the board and share no state with     *)
(* each other: the start of the tasks, the tick and delayMs, the flash     *)
(* with its driver, and the serial port over USB. A behaviour is one of    *)
(* the part that is chosen in the beginning; the others stay as they are.  *)
(***************************************************************************)
EXTENDS MCStart, Clock, Flash, Usb

VARIABLE part

boardVars == <<part, vars, clockVars, flashVars, usbVars>>

Still(p) ==
  /\ UNCHANGED part
  /\ p # "start" => UNCHANGED vars
  /\ p # "clock" => UNCHANGED clockVars
  /\ p # "flash" => UNCHANGED flashVars
  /\ p # "usb"   => UNCHANGED usbVars

BoardInit ==
  /\ part \in {"start", "clock", "flash", "usb"}
  /\ Init /\ ClockInit /\ UsbInit
  /\ FlashInit /\ (part # "flash" => cells = [p \in Pages |-> "erased"])

StartStep == part = "start" /\ Next /\ Still("start")
ClockStep == part = "clock" /\ ClockNext /\ Still("clock")
FlashStep == part = "flash" /\ FlashNext /\ Still("flash")
UsbStep   == part = "usb" /\ UsbNext /\ Still("usb")

BoardNext == StartStep \/ ClockStep \/ FlashStep \/ UsbStep

\* The part that runs is as fair as its module says: ClockFairness,
\* FlashFairness and UsbFairness, of steps that take place in it.
BoardFairness ==
  /\ WF_boardVars(SysTickCount /\ ClockStep)
  /\ \A t \in Sleepers : WF_boardVars(DelayStep(t) /\ ClockStep)
  /\ WF_boardVars(ChipDone /\ FlashStep)
  /\ WF_boardVars(Driver /\ FlashStep)
  /\ WF_boardVars((Jedec \/ Mount \/ Formatted) /\ FlashStep)
  /\ WF_boardVars(HostReads /\ UsbStep)
  /\ WF_boardVars(RxCallback /\ UsbStep)
  /\ WF_boardVars(Echoed /\ UsbStep)
  /\ WF_boardVars(Recv /\ UsbStep)

BoardSpec == BoardInit /\ [][BoardNext]_boardVars /\ BoardFairness

(***************************************************************************)
(* The properties of the parts, each stated in its module.                 *)
(***************************************************************************)
\* Flash: every boot ends, where there is one.
BootsEnd == part = "flash" => BootEnds
=============================================================================
