------------------------------ MODULE ProtoEnv ------------------------------
(***************************************************************************)
(* What an Amiga program acquires before it can talk to the box, and gives *)
(* back: proto_env_init and proto_env_exit (proto_env.c) with pario_init   *)
(* (arch/m68k/mach-cia/pario.c), timer_init (base/timer.c) and proto_init  *)
(* (proto/proto.c), and proto_env_init_events and proto_env_exit_events.   *)
(* Each step may fail, and what was acquired before it is given back.      *)
(*                                                                         *)
(* Several programs may try at once.  A program that is none of them, like *)
(* a printer driver, uses the same port through misc.resource.             *)
(***************************************************************************)
EXTENDS Sequences

CONSTANTS
  Programs,   \* programs that use the box
  other, none \* the program with a printer; nobody

EnvAssumption == other # none /\ {other, none} \cap Programs = {}

(* What can be held.  "registers" stands for the registers of the port from *)
(* setup_port to restore_port, "exception" for the task's exception handler.*)
Shared == {"port", "bits", "vector"}
Never == {"registers", "exception", "config"}   \* what never fails

ParioInit == <<"pario", "port", "bits", "registers">>
TimerInit == <<"timer", "timerPort", "exception", "device", "sync">>
ProtoInit == <<"proto", "config">>
EnvInit == <<"env">> \o ParioInit \o TimerInit \o ProtoInit
AckIrqInit == <<"vector">>
SigTimerInit == <<"sigPort">>
EventsInit == <<"ackSignal">> \o AckIrqInit \o SigTimerInit

(* Mutant of ParioExit: the registers last.                                 *)
ParioExitLate == <<"port", "bits", "registers", "pario">>

ParioExit == <<"registers", "port", "bits", "pario">>
TimerExit == <<"sync", "device", "exception", "timerPort", "timer">>
EnvExit == <<"proto">> \o TimerExit \o ParioExit \o <<"env">>

(* What is given back when a thing cannot be had.  proto_env_init does not  *)
(* free its own handle then, and nobody gets it.                            *)
Undo(x) ==
  CASE x \in {"port", "bits", "timer"} -> ParioExit
    [] x \in {"timerPort", "device", "sync"} -> TimerExit \o ParioExit
    [] x = "proto" -> ParioExit \o TimerExit
    [] x = "vector" -> <<"ackSignal">>
    [] x = "sigPort" -> <<"vector", "ackSignal">>
    [] OTHER -> <<>>

VARIABLES
  at,     \* per program: "out", "up" or "events", where it is or goes to
  take,   \* what it has still to acquire
  drop,   \* what it has still to give back
  has,    \* what its handles tell it has: initFlags and pointers
  saved,  \* old_data_port, old_data_ddr, old_ctrl_port, old_ctrl_ddr
  waited, \* sigTimerReq has been sent since its memory was cleared
  holder, \* who holds each shared thing
  regs,   \* the registers of the port, as one value
  theirs  \* ghost: what others than the box want in them

vars == <<at, take, drop, has, saved, waited, holder, regs, theirs>>

Idle(p) == take[p] = <<>> /\ drop[p] = <<>>
Values == {"a", "b"}

------------------------------------------------------------------------------
(* The calls of a program.                                                  *)

Begin(p, from, to, things) ==
  /\ Idle(p) /\ at[p] = from
  /\ at' = [at EXCEPT ![p] = to] /\ take' = [take EXCEPT ![p] = things]
  /\ UNCHANGED <<drop, has, saved, holder, regs, theirs>>

End(p, from, to, things) ==
  /\ Idle(p) /\ at[p] = from
  /\ at' = [at EXCEPT ![p] = to] /\ drop' = [drop EXCEPT ![p] = things]
  /\ UNCHANGED <<take, has, saved, waited, holder, regs, theirs>>

ProtoEnvInit(p) ==
  Begin(p, "out", "up", EnvInit) /\ waited' = [waited EXCEPT ![p] = FALSE]
InitEvents(p) == Begin(p, "up", "events", EventsInit) /\ UNCHANGED waited
ExitEvents(p) == End(p, "events", "up", <<"sigPort", "vector", "ackSignal">>)
ProtoEnvExit(p) == End(p, "up", "out", EnvExit)

(* proto_env_wait_event sends sigTimerReq and gets it back.                 *)
WaitEvent(p) ==
  /\ Idle(p) /\ at[p] = "events"
  /\ waited' = [waited EXCEPT ![p] = TRUE]
  /\ UNCHANGED <<at, take, drop, has, saved, holder, regs, theirs>>

------------------------------------------------------------------------------
(* The steps of a call.                                                     *)

(* setup_port.                                                              *)
Saved(p, x) == IF x = "registers" THEN regs ELSE saved[p]

(* proto_low_config_port: the lines as the box wants them.                  *)
Configured(x) == IF x = "config" THEN "box" ELSE regs

(* restore_port.  After a setup_port that never came it writes to address 0.*)
Restored(p, x) == IF x = "registers" /\ x \in has[p] THEN saved[p] ELSE regs

Acquire(p) ==
  /\ take[p] # <<>>
  /\ LET x == Head(take[p]) IN
       /\ x \in Shared => holder[x] = none
       /\ holder' = IF x \in Shared THEN [holder EXCEPT ![x] = p] ELSE holder
       /\ has' = [has EXCEPT ![p] = @ \cup ({x} \ {"config"})]
       /\ saved' = [saved EXCEPT ![p] = Saved(p, x)]
       /\ regs' = Configured(x)
  /\ take' = [take EXCEPT ![p] = Tail(@)]
  /\ UNCHANGED <<at, drop, waited, theirs>>

(* A resource or a vector is held by somebody else; no memory, no signal,   *)
(* no device.                                                               *)
Refuse(p) ==
  /\ take[p] # <<>>
  /\ LET x == Head(take[p]) IN
       /\ x \notin Never
       /\ x \in {"bits", "vector"} => holder[x] # none
       /\ drop' = [drop EXCEPT ![p] = Undo(x)]
  /\ take' = [take EXCEPT ![p] = <<>>]
  /\ at' = [at EXCEPT ![p] = IF @ = "up" THEN "out" ELSE "up"]
  /\ UNCHANGED <<has, saved, waited, holder, regs, theirs>>

(* Mutant of Drops: pario_exit frees both resources whatever its flags say. *)
DropsAll(p, x) ==
  IF x \in has[p] \/ x \in {"port", "bits"} THEN {x} ELSE {}

(* What is given back in the turn of a thing: nothing that was not had.     *)
Drops(p, x) == {x} \cap has[p]

(* timer_sig_exit waits for a request that was never sent, for ever.        *)
Release(p) ==
  /\ drop[p] # <<>>
  /\ LET x == Head(drop[p]) IN
       /\ x = "sigPort" => waited[p]
       /\ holder' = [y \in Shared |-> IF y \in Drops(p, x) THEN none ELSE holder[y]]
       /\ has' = [has EXCEPT ![p] = @ \ {x}]
       /\ regs' = Restored(p, x)
  /\ drop' = [drop EXCEPT ![p] = Tail(@)]
  /\ UNCHANGED <<at, take, saved, waited, theirs>>

------------------------------------------------------------------------------
(* The program with a printer.                                              *)
OtherTakes(x) ==
  /\ holder[x] = none /\ holder' = [holder EXCEPT ![x] = other]
  /\ UNCHANGED <<at, take, drop, has, saved, waited, regs, theirs>>

OtherFrees(x) ==
  /\ holder[x] = other /\ holder' = [holder EXCEPT ![x] = none]
  /\ UNCHANGED <<at, take, drop, has, saved, waited, regs, theirs>>

OtherPrints(v) ==
  /\ holder["port"] = other /\ holder["bits"] = other
  /\ regs' = v /\ theirs' = v
  /\ UNCHANGED <<at, take, drop, has, saved, waited, holder>>

Init ==
  /\ at = [p \in Programs |-> "out"]
  /\ take = [p \in Programs |-> <<>>] /\ drop = [p \in Programs |-> <<>>]
  /\ has = [p \in Programs |-> {}] /\ saved = [p \in Programs |-> "a"]
  /\ waited = [p \in Programs |-> FALSE]
  /\ holder = [x \in Shared |-> none]
  /\ regs = "a" /\ theirs = "a"

Next ==
  \/ \E p \in Programs :
       \/ ProtoEnvInit(p) \/ ProtoEnvExit(p) \/ InitEvents(p) \/ ExitEvents(p)
       \/ WaitEvent(p) \/ Acquire(p) \/ Refuse(p) \/ Release(p)
  \/ \E x \in Shared : OtherTakes(x) \/ OtherFrees(x)
  \/ \E v \in Values : OtherPrints(v)

Spec == Init /\ [][Next]_vars

------------------------------------------------------------------------------
(* Whatever step failed: a program that is out has nothing left, but for    *)
(* the handle that a failed init does not free; what the handles tell of    *)
(* the shared things is so; the interrupt's vector stands only while its    *)
(* handle and its signal do, the exception handler only while its timer and *)
(* port do; and the registers of the port are as others want them whenever  *)
(* the box has not got them.                                                *)
GivesAllBack ==
  /\ \A p \in Programs :
       /\ (at[p] = "out" /\ Idle(p)) => has[p] \subseteq {"env"}
       /\ \A x \in Shared : x \in has[p] <=> holder[x] = p
       /\ "vector" \in has[p] => {"pario", "ackSignal"} \subseteq has[p]
       /\ "exception" \in has[p] => {"timer", "timerPort"} \subseteq has[p]
  /\ (\A p \in Programs : "registers" \notin has[p]) => regs = theirs

==============================================================================
