------------------------------- MODULE NetPort -------------------------------
(***************************************************************************)
(* The port of the emulator: mach-net carries every command of the Amiga   *)
(* in a datagram to a simulated device (host/test/proto_sim.py) and waits  *)
(* half a second for the reply.  A datagram holds the command byte, the    *)
(* sequence number of the sender and the data.  The caller counts its      *)
(* calls that came back OK, the device the commands it carried out; a      *)
(* number it does not expect ends the device's process.                    *)
(*                                                                         *)
(* Datagrams are lost and copied, and both ends start again while the      *)
(* other runs on.  The queues are the receive queues of the two sockets    *)
(* with what is under way to them; a process or a handle that ends takes   *)
(* its socket with it.  Sizes are counted in words.                        *)
(***************************************************************************)
EXTENDS Naturals, Sequences, SequencesExt

CONSTANTS
  Width,      \* of every register of the device but its block: its words
  Words,      \* the values of a word
  Blocks,     \* the blocks a caller writes
  MsgMax,     \* BUF_SIZE without the header
  SrvMax,     \* what the simulator's recvfrom takes, without the header
  MaxCalls,   \* bound: calls made
  MaxFaults,  \* bound: datagrams lost and copied, socket errors, restarts
  None        \* no call

ASSUME SizesAssumption ==
  /\ MsgMax \in Nat /\ SrvMax \in Nat /\ Words # {}
  /\ \A r \in DOMAIN Width : Width[r] \in 1 .. SrvMax /\ Width[r] <= MsgMax
  /\ \A b \in Blocks : b \in Seq(Words)

VARIABLES
  up,       \* the handle exists: pario_init succeeded
  seq,      \* ph->msg_seq
  asked,    \* the call that waits for its reply, or None
  last,     \* how the last call ended
  inbox,    \* replies for the socket of the handle
  alive,    \* the simulator runs
  sseq,     \* its seq
  srvq,     \* datagrams for its socket
  regs,     \* TEST_WORD, TEST_LONG, ... and TEST_DATA
  calls,    \* calls made so far
  faults,   \* faults so far
  hist      \* history: calls since the last OK, the one carried out since,
            \* the last answer, the datagrams carried out, the number of the
            \* last call sent, whether nothing this handle sent has failed
            \* since its last OK, whether that was so before the last call,
            \* and that no simulator was started under an open handle

master == <<up, seq, asked, last>>
server == <<alive, sseq, regs>>
vars == <<master, inbox, server, srvq, calls, faults, hist>>

-------------------------------------------------------------------------------
(* Calls: an action without data, a register or the block read or written.  *)
Regs == DOMAIN Width
Zero(n) == [i \in 1 .. n |-> CHOOSE w \in Words : TRUE]

Calls ==
  {<<"action">>}
    \union {<<"read", r, Width[r]>> : r \in Regs}
    \union (UNION {{<<"write", r, v>> : v \in [1 .. Width[r] -> Words]} : r \in Regs})
    \union {<<"read", "block", n>> : n \in 0 .. MsgMax + 1}
    \union {<<"write", "block", b>> : b \in Blocks}

Command(c) == IF c[1] = "action" THEN c ELSE <<c[1], c[2]>>
Sent(c) == IF c[1] = "write" THEN c[3] ELSE <<>>
RxSize(c) == IF c[1] = "read" THEN c[3] ELSE 0
TooLarge(c) == Len(Sent(c)) > MsgMax \/ RxSize(c) > MsgMax

(* The simulator takes no more of a datagram than its buffer holds.         *)
Taken(body) == SubSeq(body, 1, IF Len(body) > SrvMax THEN SrvMax ELSE Len(body))

Fresh == [r \in Regs \union {"block"} |->
            IF r = "block" THEN <<>> ELSE Zero(Width[r])]
Carried(rs, c) ==
  IF c[1] = "write" THEN [rs EXCEPT ![c[2]] = Taken(Sent(c))] ELSE rs
Answer(rs, c) == IF c[1] = "read" THEN rs[c[2]] ELSE <<>>

(* What the device made of a call.                                          *)
Outcomes == [call : Calls, answer : Seq(Words)]

ASSUME NoneAssumption == None \notin Calls \cup Outcomes

-------------------------------------------------------------------------------
Init ==
  /\ up = FALSE /\ seq = 0 /\ asked = None /\ last = "none" /\ inbox = <<>>
  /\ alive = TRUE /\ sseq = 0 /\ regs = Fresh /\ srvq = <<>>
  /\ calls = 0 /\ faults = 0
  /\ hist = [made |-> {}, did |-> None, told |-> None, done |-> <<>>,
             call |-> 0, tidy |-> TRUE, after |-> TRUE,
             sound |-> TRUE]

(* pario_init: memory that is clear, and two new sockets.                   *)
Start ==
  /\ ~up
  /\ up' = TRUE /\ seq' = 0 /\ last' = "none"
  /\ hist' = [hist EXCEPT !.tidy = TRUE]
  /\ UNCHANGED <<asked, inbox, server, srvq, calls, faults>>

(* pario_exit: replies to what is still under way find no socket.           *)
Stop ==
  /\ up /\ asked = None
  /\ up' = FALSE
  /\ inbox' = <<>>
  /\ srvq' = [i \in DOMAIN srvq |-> [srvq[i] EXCEPT !.mine = FALSE]]
  /\ UNCHANGED <<seq, asked, last, server, calls, faults, hist>>

(* msg_transmit up to udp_send.  A block that does not fit is refused       *)
(* before anything is sent.  No process, no queue for the datagram.         *)
Begin(c) ==
  /\ up /\ asked = None /\ calls < MaxCalls
  /\ calls' = calls + 1
  /\ IF TooLarge(c)
     THEN last' = "large" /\ UNCHANGED <<asked, srvq, hist>>
     ELSE /\ asked' = c
          /\ last' = "none"
          /\ srvq' = IF ~alive THEN srvq
                     ELSE Append(srvq, [call |-> c, seq |-> seq,
                                        id |-> calls + 1, mine |-> TRUE])
          /\ hist' = [hist EXCEPT !.made = @ \union {c}, !.call = calls + 1,
                                  !.after = hist.tidy]
  /\ UNCHANGED <<up, seq, inbox, server, faults>>

(* A mutant: the number of the reply is not looked at.                      *)
IsReplyAnyNumber(p, c) == p.cmd = Command(c) /\ Len(p.body) = RxSize(c)

(* The checks of msg_transmit on the datagram it received.                  *)
IsReply(p, c) ==
  /\ p.cmd = Command(c)
  /\ p.seq = seq
  /\ Len(p.body) = RxSize(c)

End(result) ==
  /\ last' = result
  /\ asked' = None
  /\ UNCHANGED <<up, server, srvq, calls>>
Failed == hist' = [hist EXCEPT !.tidy = FALSE]

Receive ==
  /\ asked # None /\ inbox # <<>>
  /\ inbox' = Tail(inbox)
  /\ IF IsReply(Head(inbox), asked)
     THEN /\ End("ok")
          /\ seq' = seq + 1
          /\ hist' = [hist EXCEPT !.made = {}, !.did = None, !.tidy = TRUE,
                                  !.told = Head(inbox).body]
     ELSE End("invalid") /\ Failed /\ UNCHANGED seq
  /\ UNCHANGED faults

(* udp_wait_recv: half a second without a datagram.                         *)
Timeout ==
  /\ asked # None /\ inbox = <<>>
  /\ End("timeout") /\ Failed
  /\ UNCHANGED <<seq, inbox, faults>>

-------------------------------------------------------------------------------
ExpectedAny(p) == p.seq \in Nat \* a mutant: no number is refused

Expected(p) == p.seq = sseq

(* recv_cmd, handle_cmd, reply_cmd.                                         *)
Serve ==
  /\ alive /\ srvq # <<>>
  /\ LET p == Head(srvq)
         a == Answer(regs, p.call)
     IN IF ~Expected(p)
        THEN /\ alive' = FALSE /\ srvq' = <<>>
             /\ UNCHANGED <<inbox, sseq, regs, hist>>
        ELSE /\ srvq' = Tail(srvq)
             /\ sseq' = sseq + 1
             /\ regs' = Carried(regs, p.call)
             /\ inbox' = IF p.mine
                         THEN Append(inbox, [cmd |-> Command(p.call),
                                             seq |-> p.seq, body |-> a])
                         ELSE inbox
             /\ hist' = [hist EXCEPT !.did = [call |-> p.call, answer |-> a],
                                     !.done = Append(@, p.id)]
             /\ UNCHANGED alive
  /\ UNCHANGED <<master, calls, faults>>

-------------------------------------------------------------------------------
Fault == faults < MaxFaults /\ faults' = faults + 1

Lose ==
  /\ Fault
  /\ \/ \E i \in DOMAIN srvq : srvq' = RemoveAt(srvq, i) /\ UNCHANGED inbox
     \/ \E i \in DOMAIN inbox : inbox' = RemoveAt(inbox, i) /\ UNCHANGED srvq
  /\ UNCHANGED <<master, server, calls, hist>>

(* A copy that comes after everything else; with the loss of the first one  *)
(* it is a datagram overtaken by others.                                    *)
Copy ==
  /\ Fault
  /\ \/ \E i \in DOMAIN srvq : srvq' = Append(srvq, srvq[i]) /\ UNCHANGED inbox
     \/ \E i \in DOMAIN inbox : inbox' = Append(inbox, inbox[i]) /\ UNCHANGED srvq
  /\ UNCHANGED <<master, server, calls, hist>>

(* udp_wait_recv or udp_recv fails, with or without taking a datagram; a     *)
(* udp_send that fails is the loss of its datagram.                         *)
SocketFails ==
  /\ Fault /\ asked # None
  /\ End("invalid") /\ Failed
  /\ \/ UNCHANGED inbox
     \/ inbox # <<>> /\ inbox' = Tail(inbox)
  /\ UNCHANGED seq

Kill ==
  /\ Fault /\ alive
  /\ alive' = FALSE /\ srvq' = <<>>
  /\ UNCHANGED <<master, inbox, sseq, regs, calls, hist>>

Run ==
  /\ Fault /\ ~alive
  /\ alive' = TRUE /\ sseq' = 0 /\ regs' = Fresh
  /\ hist' = [hist EXCEPT !.made = {}, !.did = None, !.sound = ~up]
  /\ UNCHANGED <<master, inbox, srvq, calls>>

Next ==
  \/ Start \/ Stop \/ Receive \/ Timeout \/ Serve
  \/ Lose \/ Copy \/ SocketFails \/ Kill \/ Run
  \/ \E c \in Calls : Begin(c)

Spec == Init /\ [][Next]_vars

-------------------------------------------------------------------------------
(* An OK of a call that follows an OK, or is the first one of its handle,   *)
(* means the device carried out this very call, and carried it out once,    *)
(* however many datagrams were lost or came twice; and nothing after it,    *)
(* unless a simulator was started behind the handle's back: then a datagram *)
(* of an earlier handle may have the number it expects.  After a call that  *)
(* failed the caller may be answered for the call before: the same command  *)
(* and the same number make both replies alike.                             *)
OkIsForThisCall ==
  up /\ last = "ok" /\ hist.after =>
    /\ \E i \in DOMAIN hist.done :
         \A j \in DOMAIN hist.done : hist.done[j] = hist.call <=> j = i
    /\ hist.sound => Last(hist.done) = hist.call

(* Whatever is lost, copied or started again, the device carries out one    *)
(* call from one OK to the next, and an OK brings the answer of that call.  *)
Promise == INSTANCE Remote WITH made <- hist.made, did <- hist.did,
                                told <- hist.told, sound <- hist.sound
ImplementsRemote == Promise!Spec
===============================================================================
