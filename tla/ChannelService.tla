---------------------------- MODULE ChannelService ----------------------------
(***************************************************************************)
(* What the user of a channel handle is promised, with neither the device  *)
(* nor the protocol in sight: which calls a handle takes in which phase,   *)
(* and who owns a message.  A message belongs to the handle exactly while  *)
(* the handle works for it, and comes back with a result at the end of     *)
(* that work; only a reset takes it without handing it back.               *)
(***************************************************************************)
CONSTANTS Handles, Msgs

VARIABLES
  phase,   \* of every handle: "closed", "ready", "working" or "failed"
  owned    \* the messages every handle owns

vars == <<phase, owned>>

Init ==
  /\ phase = [c \in Handles |-> "closed"]
  /\ owned = [c \in Handles |-> {}]

Enter(c, p, msgs) ==
  /\ phase' = [phase EXCEPT ![c] = p]
  /\ owned' = [owned EXCEPT ![c] = msgs]

(* open; close or poll of a ready handle.                                   *)
Request(c) ==
  /\ phase[c] \in {"closed", "ready"}
  /\ Enter(c, "working", {})

(* Only a ready handle takes a message, and only one that no handle owns.   *)
Submit(c, m) ==
  /\ phase[c] = "ready"
  /\ \A d \in Handles : m \notin owned[d]
  /\ Enter(c, "working", {m})

(* The work ends, well or not, and the message goes back to its owner.  A   *)
(* handle that had a message does not end up closed.                        *)
Complete(c, p) ==
  /\ phase[c] = "working"
  /\ p \in IF owned[c] = {} THEN {"closed", "ready", "failed"}
                            ELSE {"ready", "failed"}
  /\ Enter(c, p, {})

(* The only way out of "failed", and open in every phase.                   *)
Reset(c) == Enter(c, "working", {})

Next ==
  \E c \in Handles :
    \/ Request(c)
    \/ \E m \in Msgs : Submit(c, m)
    \/ \E p \in {"closed", "ready", "failed"} : Complete(c, p)
    \/ Reset(c)

Spec == Init /\ [][Next]_vars

==============================================================================
