-------------------------------- MODULE Remote --------------------------------
(***************************************************************************)
(* What the emulator's port promises of the simulated device, with neither *)
(* packets nor sequence numbers in sight: between two calls that came back *)
(* OK the device carries out at most one of the calls made since the first *)
(* of them, and an OK is the answer to that one, which had the command of  *)
(* the call that gets it.  The promise is void from the moment the device  *)
(* starts again behind the back of a caller, who cannot tell, until it     *)
(* starts again with no caller around.                                     *)
(***************************************************************************)
CONSTANTS
  Calls,         \* the calls a caller can make
  Command(_),    \* the command byte of a call
  Carried(_, _), \* the registers after a call: of the registers and the call
  Answer(_, _),  \* what a call answers: of the registers and the call
  Fresh,         \* the registers of a device that has just started
  None           \* no call

VARIABLES
  regs,   \* the registers of the device
  made,   \* the calls made since the last OK
  did,    \* the one of them that was carried out, with its answer, or None
  told,   \* the answer the last OK brought
  sound   \* the promise holds

vars == <<regs, made, did, told, sound>>

Init == regs = Fresh /\ made = {} /\ did = None /\ told = None /\ sound = TRUE

Make(c) ==
  /\ sound
  /\ made' = made \union {c}
  /\ UNCHANGED <<regs, did, told, sound>>

Do(c) ==
  /\ sound
  /\ c \in made
  /\ did = None
  /\ did' = [call |-> c, answer |-> Answer(regs, c)]
  /\ regs' = Carried(regs, c)
  /\ UNCHANGED <<made, told, sound>>

Tell(c) ==
  /\ sound
  /\ c \in made
  /\ did # None
  /\ Command(did.call) = Command(c)
  /\ told' = did.answer
  /\ made' = {}
  /\ did' = None
  /\ UNCHANGED <<regs, sound>>

(* A device that starts again has forgotten everything.                     *)
Restart ==
  /\ regs' = Fresh /\ made' = {} /\ did' = None
  /\ sound' = TRUE
  /\ UNCHANGED told

Break == sound' = FALSE

Next ==
  \/ Restart \/ Break
  \/ \E c \in Calls : Make(c) \/ Do(c) \/ Tell(c)

Spec == Init /\ [][Next]_vars
===============================================================================
