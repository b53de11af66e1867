---------------------------- MODULE MCAmigaEvents ----------------------------
(* Both sides of proto_env on the Amiga: the events of one task, and two      *)
(* programs that acquire and give back what they need for them, beside one    *)
(* with a printer.  A behaviour is one of one part; the other rests.          *)
EXTENDS AmigaEvents

CONSTANTS Programs, other, none

VARIABLES part, at, take, drop, has, saved, waited, holder, regs, theirs

envVars == <<at, take, drop, has, saved, waited, holder, regs, theirs>>

Env == INSTANCE ProtoEnv

ASSUME EventsAssumption == Env!EnvAssumption

MCInit == part \in {"events", "env"} /\ Init /\ Env!Init

MCNext ==
  \/ part = "events" /\ Next /\ UNCHANGED <<part, envVars>>
  \/ part = "env" /\ Env!Next /\ UNCHANGED <<part, vars>>

MCSpec == MCInit /\ [][MCNext]_<<part, vars, envVars>> /\ Fairness

(* ProtoEnv: whatever step fails, what was acquired is given back.            *)
GivesAllBack == Env!GivesAllBack
==============================================================================
