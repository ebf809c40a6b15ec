------------------------------- MODULE MCSerial -------------------------------
(***************************************************************************)
(* The serial port with a task that receives, and without echo, when tx    *)
(* has no other producer, a task that sends.                               *)
(***************************************************************************)
EXTENDS MCUart

CONSTANT MaxNoise   \* bound: bytes that arrive while a task sends

Sends(step) == ~echo /\ step

SerialNext ==
  \/ Arrive /\ (~echo => arrived < MaxNoise)
  \/ ShiftedOut \/ Usart2Isr
  \/ \E s \in Senders : Sends(Send(s) \/ SendStep(s))
  \/ \E t \in Receivers : Recv(t) \/ RecvStep(t)

\* The fairness of Uart, of the steps that take place here.
SerialSpec ==
  /\ Init
  /\ [][SerialNext]_vars
  /\ WF_vars(ShiftedOut) /\ WF_vars(Usart2Isr)
  /\ \A s \in Senders : WF_vars(Sends(SendStep(s)))
  /\ \A t \in Receivers : WF_vars(Recv(t) \/ RecvStep(t))
=============================================================================
