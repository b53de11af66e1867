----------------------------- MODULE EventsProofs -----------------------------
(***************************************************************************)
(* Theorems about both sides of proto_env on the Amiga: the timers and the *)
(* ACK interrupt of a task, and what any number of programs acquire and    *)
(* give back.                                                              *)
(***************************************************************************)
EXTENDS MCAmigaEvents, SequenceTheorems, TLAPS

Pcs == {"idle", "test", "sync", "clear", "send", "command",
        "wsend", "wait", "wstop", "wio", "confirm", "clearack"}

EventTypes ==
  /\ pc \in Pcs /\ exc \in {"no", "waitio", "flag", "signal"}
  /\ cmdReq \in {"free", "running", "replied"}
  /\ sigReq \in {"free", "running", "replied"}
  /\ {flag, on, sent, cmdExpired, sigExpired, unseen, wiped} \subseteq BOOLEAN

(* The timer of the commands goes round: it is armed between ClearFlag and  *)
(* SendTimer, runs only during a command, and comes back by its signal, the *)
(* exception handler and the flag, in this order.                           *)
Ready ==
  flag /\ cmdReq = "free" /\ exc \in {"no", "signal"} /\ "cmd" \notin signals
Armed == ~flag /\ cmdReq = "free" /\ exc = "no" /\ "cmd" \notin signals
Runs == ~flag /\ cmdReq = "running" /\ exc = "no" /\ "cmd" \notin signals
Back ==
  /\ ~flag
  /\ \/ cmdReq = "replied" /\ exc = "no" /\ "cmd" \in signals
     \/ cmdReq = "replied" /\ exc = "waitio" /\ "cmd" \notin signals
     \/ cmdReq = "free" /\ exc = "flag" /\ "cmd" \notin signals

CommandInv ==
  /\ pc = "send" => Armed
  /\ pc = "clear" => Ready
  /\ pc = "command" => Runs \/ (cmdExpired /\ (Back \/ Ready))
  /\ pc \notin {"send", "clear", "command"} => Back \/ Ready

(* The timer of a wait is under way from SendSigTimer to SigWaitIO, and its *)
(* signal, cleared before, is its own.                                      *)
WaitInv ==
  /\ sigReq = "free" <=> pc \notin {"wait", "wstop", "wio"}
  /\ pc = "wsend" => "timer" \notin signals
  /\ (pc = "wait" /\ "timer" \in signals) => sigExpired
  /\ (pc = "wstop" /\ "timer" \in got) => sigExpired

(* While sent_signal is set the signal is there, or the wait that took it   *)
(* has still to confirm it; only such a wait confirms one.                  *)
SentInv ==
  /\ (on /\ sent /\ ~wiped) =>
       \/ "ack" \in signals
       \/ "ack" \in got /\ pc \in {"wstop", "wio", "confirm"}
  /\ pc \in {"confirm", "clearack"} => "ack" \in got

EventInv == EventTypes /\ CommandInv /\ WaitInv /\ SentInv /\ NoTriggerLost

LEMMA EventInit == Init => EventInv
  BY DEF Init, EventInv, EventTypes, Pcs, CommandInv, Ready, Back, WaitInv,
         SentInv,
         NoTriggerLost

LEMMA TypeStep == EventInv /\ [Next]_vars => EventTypes'
<1> SUFFICES ASSUME EventInv, [Next]_vars PROVE EventTypes'
  OBVIOUS
<1> USE DEF EventInv, EventTypes, Pcs, vars, timers, triggers
<1>1. CASE Command \/ TestFlag \/ WaitSync \/ ClearFlag \/ SendTimer \/ Answered
           \/ TimedOut
  BY <1>1 DEF Task, Command, TestFlag, WaitSync, ClearFlag, SendTimer, Answered,
     TimedOut, Stop
<1>2. CASE Expire \/ Except \/ ExcWaitIO \/ ExcFlag \/ ExcSignal
  BY <1>2 DEF Expire, Except, ExcWaitIO, ExcFlag, ExcSignal
<1>3. CASE WaitEvent \/ SendSigTimer \/ Wake \/ SigStop \/ SigWaitIO
           \/ ConfirmSent \/ ConfirmSignal
  BY <1>3
     DEF Task, WaitEvent, SendSigTimer, Wake, SigStop, SigWaitIO, ConfirmSent,
     ConfirmSignal
<1>4. CASE ExpireSig \/ Extra \/ Interrupt \/ InitEvents \/ ExitEvents
  BY <1>4 DEF Task, ExpireSig, Extra, Interrupt, InitEvents, ExitEvents
<1>5. CASE UNCHANGED vars
  BY <1>5
<1> QED BY <1>1, <1>2, <1>3, <1>4, <1>5 DEF Next, TaskWorks, ExcWorks

LEMMA CommandStep == EventInv /\ [Next]_vars => CommandInv'
<1> SUFFICES ASSUME EventInv, [Next]_vars PROVE CommandInv'
  OBVIOUS
<1> USE DEF EventInv, EventTypes, CommandInv, Ready, Armed, Runs, Back, vars,
            timers, triggers
<1>1. CASE Command \/ TestFlag \/ WaitSync
  BY <1>1 DEF Task, Command, TestFlag, WaitSync
<1>2. CASE ClearFlag \/ SendTimer
  BY <1>2 DEF Task, ClearFlag, SendTimer
<1>3. CASE Stop
  BY <1>3 DEF Task, Stop
<1>4. CASE Expire \/ Except \/ ExcWaitIO \/ ExcFlag \/ ExcSignal
  BY <1>4 DEF Expire, Except, ExcWaitIO, ExcFlag, ExcSignal
<1>5. CASE WaitEvent \/ SendSigTimer \/ Wake \/ SigStop \/ SigWaitIO
           \/ ConfirmSent \/ ConfirmSignal
  BY <1>5 DEF Task, WaitEvent, SendSigTimer, Wake, EventMask, SigStop,
     SigWaitIO, ConfirmSent, ConfirmSignal
<1>6. CASE ExpireSig \/ Extra \/ Interrupt \/ InitEvents \/ ExitEvents
  BY <1>6 DEF Task, ExpireSig, Extra, Interrupt, InitEvents, ExitEvents
<1>7. CASE UNCHANGED vars
  BY <1>7
<1> QED
  BY <1>1, <1>2, <1>3, <1>4, <1>5, <1>6, <1>7
     DEF Next, TaskWorks, ExcWorks, Answered, TimedOut

LEMMA WaitStep == EventInv /\ [Next]_vars => WaitInv'
<1> SUFFICES ASSUME EventInv, [Next]_vars PROVE WaitInv'
  OBVIOUS
<1> USE DEF EventInv, EventTypes, WaitInv, vars, timers, triggers
<1>1. CASE Command \/ TestFlag \/ WaitSync \/ ClearFlag \/ SendTimer \/ Stop
  BY <1>1 DEF Task, Command, TestFlag, WaitSync, ClearFlag, SendTimer, Stop
<1>2. CASE Expire \/ Except \/ ExcWaitIO \/ ExcFlag \/ ExcSignal
  BY <1>2 DEF Expire, Except, ExcWaitIO, ExcFlag, ExcSignal
<1>3. CASE WaitEvent \/ SendSigTimer \/ Wake
  BY <1>3 DEF Task, WaitEvent, SendSigTimer, Wake, EventMask
<1>4. CASE SigStop \/ SigWaitIO \/ ConfirmSent \/ ConfirmSignal
  BY <1>4 DEF Task, SigStop, SigWaitIO, ConfirmSent, ConfirmSignal
<1>5. CASE ExpireSig \/ Extra \/ Interrupt \/ InitEvents \/ ExitEvents
  BY <1>5 DEF Task, ExpireSig, Extra, Interrupt, InitEvents, ExitEvents
<1>6. CASE UNCHANGED vars
  BY <1>6
<1> QED
  BY <1>1, <1>2, <1>3, <1>4, <1>5, <1>6 DEF Next, TaskWorks, ExcWorks, Answered,
     TimedOut

LEMMA SentStep == EventInv /\ [Next]_vars => SentInv' /\ NoTriggerLost'
<1> SUFFICES ASSUME EventInv, [Next]_vars PROVE SentInv' /\ NoTriggerLost'
  OBVIOUS
<1> USE DEF EventInv, EventTypes, SentInv, NoTriggerLost, vars, timers, triggers
<1>1. CASE Command \/ TestFlag \/ WaitSync \/ ClearFlag \/ SendTimer \/ Stop
  BY <1>1 DEF Task, Command, TestFlag, WaitSync, ClearFlag, SendTimer, Stop
<1>2. CASE Expire \/ Except \/ ExcWaitIO \/ ExcFlag \/ ExcSignal
  BY <1>2 DEF Expire, Except, ExcWaitIO, ExcFlag, ExcSignal
<1>3. CASE WaitEvent \/ SendSigTimer \/ Wake
  BY <1>3 DEF Task, WaitEvent, SendSigTimer, Wake, EventMask
<1>4. CASE SigStop \/ SigWaitIO \/ ConfirmSent \/ ConfirmSignal
  BY <1>4 DEF Task, SigStop, SigWaitIO, ConfirmSent, ConfirmSignal
<1>5. CASE ExpireSig \/ Extra \/ Interrupt \/ InitEvents \/ ExitEvents
  BY <1>5 DEF Task, ExpireSig, Extra, Interrupt, InitEvents, ExitEvents
<1>6. CASE UNCHANGED vars
  BY <1>6
<1> QED
  BY <1>1, <1>2, <1>3, <1>4, <1>5, <1>6 DEF Next, TaskWorks, ExcWorks, Answered,
     TimedOut

LEMMA EventsAlways == Spec => []EventInv
<1>1. EventInv /\ [Next]_vars => EventInv'
  BY TypeStep, CommandStep, WaitStep, SentStep DEF EventInv
<1> QED BY EventInit, <1>1, PTL DEF Spec

(* A command that finds the flag set has used up its own time and a wait    *)
(* that reports the timer has waited its own; no request is sent, or waited *)
(* for, while it is under way: timer_start, timer_stop and exc_handler of   *)
(* timer.c, whatever signals come between any two of their steps.           *)
THEOREM TimeoutsBelong == Spec => []TimeoutsAreOwn
<1>1. EventInv => TimeoutsAreOwn
  BY DEF EventInv, EventTypes, CommandInv, Ready, Armed, Runs, Back, WaitInv,
         TimeoutsAreOwn
<1> QED BY <1>1, EventsAlways, PTL

(* A trigger stays pending until proto_env_wait_event has reported it, but  *)
(* for one that comes between both statements of pario_confirm_ack_irq.     *)
THEOREM TriggersArePending == Spec => []NoTriggerLost
<1>1. EventInv => NoTriggerLost
  BY DEF EventInv
<1> QED BY <1>1, EventsAlways, PTL
-------------------------------------------------------------------------------
(* What programs acquire and give back.                                     *)

Things ==
  {"env", "pario", "port", "bits", "registers", "timer", "timerPort",
   "exception", "device", "sync", "proto", "config", "ackSignal", "vector",
   "sigPort"}

(* What a thing stands on: had before it, and given back after it.          *)
Under(x) ==
  CASE x = "registers" -> {"port", "bits"}
    [] x = "exception" -> {"timer", "timerPort"}
    [] x = "vector" -> {"pario", "ackSignal"}
    [] x = "config" -> {"registers"}
    [] OTHER -> {}

(* What a call acquires, what a program has at most when it rests, and what *)
(* it has at most after a call that failed.                                 *)
EventThings == {"ackSignal", "vector", "sigPort"}
UpThings == Things \ (EventThings \cup {"config"})
Wanted(a) == IF a = "up" THEN UpThings \cup {"config"} ELSE EventThings
Rest(a) ==
  IF a = "out" THEN {"env"}
  ELSE IF a = "up" THEN UpThings ELSE UpThings \cup EventThings
Below(a) == IF a = "up" THEN {"env"} ELSE UpThings

Until(s, i) == {s[j] : j \in 1 .. i - 1}
Elements(s) == {s[j] : j \in 1 .. Len(s)}

(* What stands on a thing goes before it.                                   *)
Ordered(s, H) ==
  \A i \in 1 .. Len(s) : \A x \in H : s[i] \in Under(x) => x \in Until(s, i)

(* A thing comes once, when all that it stands on is had; when it cannot be *)
(* had, all that was acquired in the call is given back.                    *)
Upright(s, H, B) ==
  \A i \in 1 .. Len(s) :
    /\ Under(s[i]) \subseteq H \cup Until(s, i)
    /\ s[i] # "env" => s[i] \notin H \cup Until(s, i)
    /\ s[i] \notin Env!Never =>
         (H \cup Until(s, i)) \ {"config"}
           \subseteq B \cup Elements(Env!Undo(s[i]))

EnvTypes ==
  /\ at \in [Programs -> {"out", "up", "events"}]
  /\ take \in [Programs -> Seq(Things)] /\ drop \in [Programs -> Seq(Things)]
  /\ has \in [Programs -> SUBSET Things]
  /\ saved \in [Programs -> {"a", "b", "box"}]
  /\ {regs, theirs} \subseteq {"a", "b", "box"}
  /\ holder \in [Env!Shared -> Programs \cup {other, none}]

CallInv(p) ==
  /\ take[p] # <<>> => drop[p] = <<>> /\ at[p] # "out"
  /\ Elements(take[p]) \subseteq Wanted(at[p])
  /\ Upright(take[p], has[p], Below(at[p]))
  /\ Ordered(drop[p], has[p])
  /\ at[p] # "out" => "pario" \notin Elements(drop[p])

HasInv(p) ==
  /\ has[p] \subseteq Rest(at[p]) \cup Elements(drop[p])
  /\ "config" \notin has[p]
  /\ \A x \in has[p] : Under(x) \subseteq has[p]
  /\ at[p] = "up" => "pario" \in has[p] \cup Elements(take[p])
  /\ at[p] = "events" => "pario" \in has[p]

(* A shared thing is held by who has it; the registers are the box's only   *)
(* with the port, and who has them knows what others want in them.          *)
SharedInv ==
  /\ \A p \in Programs : \A x \in Env!Shared : x \in has[p] <=> holder[x] = p
  /\ \A p \in Programs : "registers" \in has[p] => saved[p] = theirs
  /\ (\A p \in Programs : "registers" \notin has[p]) => regs = theirs

EnvInv ==
  EnvTypes /\ SharedInv /\ \A p \in Programs : CallInv(p) /\ HasInv(p)

(* Two lists, one behind the other.                                         *)
LEMMA Joined ==
  ASSUME NEW S, NEW a \in Seq(S), NEW b \in Seq(S), NEW t, t = a \o b
  PROVE  /\ t \in Seq(S) /\ Len(t) = Len(a) + Len(b)
         /\ \A i \in 1 .. Len(a) : t[i] = a[i]
         /\ \A i \in 1 .. Len(b) : t[Len(a) + i] = b[i]
<1>1. /\ a \o b \in Seq(S) /\ Len(a \o b) = Len(a) + Len(b)
      /\ Len(a) \in Nat /\ Len(b) \in Nat
  BY ConcatProperties, LenProperties
<1>2. ASSUME NEW i \in 1 .. Len(a) PROVE (a \o b)[i] = a[i]
  BY <1>1, ConcatProperties
<1>3. ASSUME NEW i \in 1 .. Len(b) PROVE (a \o b)[Len(a) + i] = b[i]
  <2>1. Len(a) + i \in 1 .. Len(a) + Len(b) /\ ~(Len(a) + i <= Len(a))
        /\ (Len(a) + i) - Len(a) = i
    BY <1>1
  <2> QED BY <2>1, ConcatProperties
<1> QED BY <1>1, <1>2, <1>3

LEMMA Glued ==
  ASSUME NEW S, NEW a \in Seq(S), NEW b \in Seq(S), NEW t \in Seq(S),
         Len(t) = Len(a) + Len(b),
         \A i \in 1 .. Len(a) : t[i] = a[i],
         \A i \in 1 .. Len(b) : t[Len(a) + i] = b[i]
  PROVE  a \o b = t
<1> DEFINE c == a \o b
<1>1. /\ c \in Seq(S) /\ Len(c) = Len(a) + Len(b)
      /\ \A i \in 1 .. Len(a) : c[i] = a[i]
      /\ \A i \in 1 .. Len(b) : c[Len(a) + i] = b[i]
      /\ Len(a) \in Nat /\ Len(b) \in Nat
  BY Joined, LenProperties
<1> HIDE DEF c
<1>2. ASSUME NEW i \in 1 .. Len(t) PROVE c[i] = t[i]
  <2>1. CASE i \in 1 .. Len(a)
    BY <1>1, <2>1
  <2>2. CASE i \notin 1 .. Len(a)
    <3>1. i - Len(a) \in 1 .. Len(b) /\ Len(a) + (i - Len(a)) = i
      BY <1>1, <1>2, <2>2
    <3> QED BY <1>1, <3>1, Zenon
  <2> QED BY <2>1, <2>2
<1>3. c = t
  BY <1>1, <1>2, SeqEqual, LenProperties
<1> QED BY <1>3 DEF c

LEMMA ParioTimer ==
  Env!ParioExit \o Env!TimerExit =
    <<"registers", "port", "bits", "pario", "sync", "device", "exception",
      "timerPort", "timer">>
<1>1. Env!ParioExit \o Env!TimerExit =
      <<"registers", "port", "bits", "pario", "sync", "device", "exception",
        "timerPort", "timer">>
  <2> DEFINE a == Env!ParioExit
             b == Env!TimerExit
             t == <<"registers", "port", "bits", "pario", "sync", "device",
                    "exception", "timerPort", "timer">>
  <2>1. a \in Seq(Things) /\ b \in Seq(Things) /\ t \in Seq(Things)
    BY DEF Things, Env!ParioExit, Env!TimerExit
  <2>2. Len(a) = 4 /\ Len(b) = 5 /\ Len(t) = 9
    BY DEF Env!ParioExit, Env!TimerExit
  <2>3. /\ \A i \in 1 .. 4 : t[i] = a[i]
        /\ \A i \in 1 .. 5 : t[4 + i] = b[i]
    BY DEF Env!ParioExit, Env!TimerExit
  <2> HIDE DEF a, b, t
  <2>4. /\ Len(t) = Len(a) + Len(b)
        /\ \A i \in 1 .. Len(a) : t[i] = a[i]
        /\ \A i \in 1 .. Len(b) : t[Len(a) + i] = b[i]
    BY <2>2, <2>3
  <2>5. a \o b = t
    BY <2>1, <2>4, Glued
  <2> QED BY <2>5 DEF a, b, t
<1> QED BY <1>1

LEMMA TimerPario ==
  Env!TimerExit \o Env!ParioExit =
    <<"sync", "device", "exception", "timerPort", "timer", "registers",
      "port", "bits", "pario">>
<1>1. Env!TimerExit \o Env!ParioExit =
      <<"sync", "device", "exception", "timerPort", "timer", "registers",
        "port", "bits", "pario">>
  <2> DEFINE a == Env!TimerExit
             b == Env!ParioExit
             t == <<"sync", "device", "exception", "timerPort", "timer",
                    "registers", "port", "bits", "pario">>
  <2>1. a \in Seq(Things) /\ b \in Seq(Things) /\ t \in Seq(Things)
    BY DEF Things, Env!TimerExit, Env!ParioExit
  <2>2. Len(a) = 5 /\ Len(b) = 4 /\ Len(t) = 9
    BY DEF Env!TimerExit, Env!ParioExit
  <2>3. /\ \A i \in 1 .. 5 : t[i] = a[i]
        /\ \A i \in 1 .. 4 : t[5 + i] = b[i]
    BY DEF Env!TimerExit, Env!ParioExit
  <2> HIDE DEF a, b, t
  <2>4. /\ Len(t) = Len(a) + Len(b)
        /\ \A i \in 1 .. Len(a) : t[i] = a[i]
        /\ \A i \in 1 .. Len(b) : t[Len(a) + i] = b[i]
    BY <2>2, <2>3
  <2>5. a \o b = t
    BY <2>1, <2>4, Glued
  <2> QED BY <2>5 DEF a, b, t
<1> QED BY <1>1

LEMMA EnvExitIs ==
  Env!EnvExit =
    <<"proto", "sync", "device", "exception", "timerPort", "timer",
      "registers", "port", "bits", "pario", "env">>
<1>1. <<"proto">> \o Env!TimerExit =
      <<"proto", "sync", "device", "exception", "timerPort", "timer">>
  <2> DEFINE a == <<"proto">>
             b == Env!TimerExit
             t == <<"proto", "sync", "device", "exception", "timerPort",
                    "timer">>
  <2>1. a \in Seq(Things) /\ b \in Seq(Things) /\ t \in Seq(Things)
    BY DEF Things, Env!TimerExit
  <2>2. Len(a) = 1 /\ Len(b) = 5 /\ Len(t) = 6
    BY DEF Env!TimerExit
  <2>3. /\ \A i \in 1 .. 1 : t[i] = a[i]
        /\ \A i \in 1 .. 5 : t[1 + i] = b[i]
    BY DEF Env!TimerExit
  <2> HIDE DEF a, b, t
  <2>4. /\ Len(t) = Len(a) + Len(b)
        /\ \A i \in 1 .. Len(a) : t[i] = a[i]
        /\ \A i \in 1 .. Len(b) : t[Len(a) + i] = b[i]
    BY <2>2, <2>3
  <2>5. a \o b = t
    BY <2>1, <2>4, Glued
  <2> QED BY <2>5 DEF a, b, t
<1>2. <<"proto", "sync", "device", "exception", "timerPort",
      "timer">> \o Env!ParioExit =
      <<"proto", "sync", "device", "exception", "timerPort", "timer",
        "registers", "port", "bits", "pario">>
  <2> DEFINE a == <<"proto", "sync", "device", "exception", "timerPort",
                       "timer">>
             b == Env!ParioExit
             t == <<"proto", "sync", "device", "exception", "timerPort",
                    "timer", "registers", "port", "bits", "pario">>
  <2>1. a \in Seq(Things) /\ b \in Seq(Things) /\ t \in Seq(Things)
    BY DEF Things, Env!ParioExit
  <2>2. Len(a) = 6 /\ Len(b) = 4 /\ Len(t) = 10
    BY DEF Env!ParioExit
  <2>3. /\ \A i \in 1 .. 6 : t[i] = a[i]
        /\ \A i \in 1 .. 4 : t[6 + i] = b[i]
    BY DEF Env!ParioExit
  <2> HIDE DEF a, b, t
  <2>4. /\ Len(t) = Len(a) + Len(b)
        /\ \A i \in 1 .. Len(a) : t[i] = a[i]
        /\ \A i \in 1 .. Len(b) : t[Len(a) + i] = b[i]
    BY <2>2, <2>3
  <2>5. a \o b = t
    BY <2>1, <2>4, Glued
  <2> QED BY <2>5 DEF a, b, t
<1>3. <<"proto", "sync", "device", "exception", "timerPort",
      "timer", "registers", "port", "bits", "pario">> \o <<"env">> =
      <<"proto", "sync", "device", "exception", "timerPort", "timer",
        "registers", "port", "bits", "pario", "env">>
  <2> DEFINE a == <<"proto", "sync", "device", "exception", "timerPort",
                       "timer", "registers", "port", "bits", "pario">>
             b == <<"env">>
             t == <<"proto", "sync", "device", "exception", "timerPort",
                    "timer", "registers", "port", "bits", "pario", "env">>
  <2>1. a \in Seq(Things) /\ b \in Seq(Things) /\ t \in Seq(Things)
    BY DEF Things
  <2>2. Len(a) = 10 /\ Len(b) = 1 /\ Len(t) = 11
    OBVIOUS
  <2>3. /\ \A i \in 1 .. 10 : t[i] = a[i]
        /\ \A i \in 1 .. 1 : t[10 + i] = b[i]
    OBVIOUS
  <2> HIDE DEF a, b, t
  <2>4. /\ Len(t) = Len(a) + Len(b)
        /\ \A i \in 1 .. Len(a) : t[i] = a[i]
        /\ \A i \in 1 .. Len(b) : t[Len(a) + i] = b[i]
    BY <2>2, <2>3
  <2>5. a \o b = t
    BY <2>1, <2>4, Glued
  <2> QED BY <2>5 DEF a, b, t
<1> QED BY <1>1, <1>2, <1>3 DEF Env!EnvExit

LEMMA EnvInitIs ==
  Env!EnvInit =
    <<"env", "pario", "port", "bits", "registers", "timer", "timerPort",
      "exception", "device", "sync", "proto", "config">>
<1>1. <<"env">> \o Env!ParioInit =
      <<"env", "pario", "port", "bits", "registers">>
  <2> DEFINE a == <<"env">>
             b == Env!ParioInit
             t == <<"env", "pario", "port", "bits", "registers">>
  <2>1. a \in Seq(Things) /\ b \in Seq(Things) /\ t \in Seq(Things)
    BY DEF Things, Env!ParioInit
  <2>2. Len(a) = 1 /\ Len(b) = 4 /\ Len(t) = 5
    BY DEF Env!ParioInit
  <2>3. /\ \A i \in 1 .. 1 : t[i] = a[i]
        /\ \A i \in 1 .. 4 : t[1 + i] = b[i]
    BY DEF Env!ParioInit
  <2> HIDE DEF a, b, t
  <2>4. /\ Len(t) = Len(a) + Len(b)
        /\ \A i \in 1 .. Len(a) : t[i] = a[i]
        /\ \A i \in 1 .. Len(b) : t[Len(a) + i] = b[i]
    BY <2>2, <2>3
  <2>5. a \o b = t
    BY <2>1, <2>4, Glued
  <2> QED BY <2>5 DEF a, b, t
<1>2. <<"env", "pario", "port", "bits", "registers">> \o Env!TimerInit =
      <<"env", "pario", "port", "bits", "registers", "timer", "timerPort",
        "exception", "device", "sync">>
  <2> DEFINE a == <<"env", "pario", "port", "bits", "registers">>
             b == Env!TimerInit
             t == <<"env", "pario", "port", "bits", "registers", "timer",
                    "timerPort", "exception", "device", "sync">>
  <2>1. a \in Seq(Things) /\ b \in Seq(Things) /\ t \in Seq(Things)
    BY DEF Things, Env!TimerInit
  <2>2. Len(a) = 5 /\ Len(b) = 5 /\ Len(t) = 10
    BY DEF Env!TimerInit
  <2>3. /\ \A i \in 1 .. 5 : t[i] = a[i]
        /\ \A i \in 1 .. 5 : t[5 + i] = b[i]
    BY DEF Env!TimerInit
  <2> HIDE DEF a, b, t
  <2>4. /\ Len(t) = Len(a) + Len(b)
        /\ \A i \in 1 .. Len(a) : t[i] = a[i]
        /\ \A i \in 1 .. Len(b) : t[Len(a) + i] = b[i]
    BY <2>2, <2>3
  <2>5. a \o b = t
    BY <2>1, <2>4, Glued
  <2> QED BY <2>5 DEF a, b, t
<1>3. <<"env", "pario", "port", "bits", "registers", "timer",
      "timerPort", "exception", "device", "sync">> \o Env!ProtoInit =
      <<"env", "pario", "port", "bits", "registers", "timer", "timerPort",
        "exception", "device", "sync", "proto", "config">>
  <2> DEFINE a == <<"env", "pario", "port", "bits", "registers", "timer",
                       "timerPort", "exception", "device", "sync">>
             b == Env!ProtoInit
             t == <<"env", "pario", "port", "bits", "registers", "timer",
                    "timerPort", "exception", "device", "sync", "proto",
                    "config">>
  <2>1. a \in Seq(Things) /\ b \in Seq(Things) /\ t \in Seq(Things)
    BY DEF Things, Env!ProtoInit
  <2>2. Len(a) = 10 /\ Len(b) = 2 /\ Len(t) = 12
    BY DEF Env!ProtoInit
  <2>3. /\ \A i \in 1 .. 10 : t[i] = a[i]
        /\ \A i \in 1 .. 2 : t[10 + i] = b[i]
    BY DEF Env!ProtoInit
  <2> HIDE DEF a, b, t
  <2>4. /\ Len(t) = Len(a) + Len(b)
        /\ \A i \in 1 .. Len(a) : t[i] = a[i]
        /\ \A i \in 1 .. Len(b) : t[Len(a) + i] = b[i]
    BY <2>2, <2>3
  <2>5. a \o b = t
    BY <2>1, <2>4, Glued
  <2> QED BY <2>5 DEF a, b, t
<1> QED BY <1>1, <1>2, <1>3 DEF Env!EnvInit

LEMMA EventsInitIs ==
  Env!EventsInit =
    <<"ackSignal", "vector", "sigPort">>
<1>1. <<"ackSignal">> \o Env!AckIrqInit =
      <<"ackSignal", "vector">>
  <2> DEFINE a == <<"ackSignal">>
             b == Env!AckIrqInit
             t == <<"ackSignal", "vector">>
  <2>1. a \in Seq(Things) /\ b \in Seq(Things) /\ t \in Seq(Things)
    BY DEF Things, Env!AckIrqInit
  <2>2. Len(a) = 1 /\ Len(b) = 1 /\ Len(t) = 2
    BY DEF Env!AckIrqInit
  <2>3. /\ \A i \in 1 .. 1 : t[i] = a[i]
        /\ \A i \in 1 .. 1 : t[1 + i] = b[i]
    BY DEF Env!AckIrqInit
  <2> HIDE DEF a, b, t
  <2>4. /\ Len(t) = Len(a) + Len(b)
        /\ \A i \in 1 .. Len(a) : t[i] = a[i]
        /\ \A i \in 1 .. Len(b) : t[Len(a) + i] = b[i]
    BY <2>2, <2>3
  <2>5. a \o b = t
    BY <2>1, <2>4, Glued
  <2> QED BY <2>5 DEF a, b, t
<1>2. <<"ackSignal", "vector">> \o Env!SigTimerInit =
      <<"ackSignal", "vector", "sigPort">>
  <2> DEFINE a == <<"ackSignal", "vector">>
             b == Env!SigTimerInit
             t == <<"ackSignal", "vector", "sigPort">>
  <2>1. a \in Seq(Things) /\ b \in Seq(Things) /\ t \in Seq(Things)
    BY DEF Things, Env!SigTimerInit
  <2>2. Len(a) = 2 /\ Len(b) = 1 /\ Len(t) = 3
    BY DEF Env!SigTimerInit
  <2>3. /\ \A i \in 1 .. 2 : t[i] = a[i]
        /\ \A i \in 1 .. 1 : t[2 + i] = b[i]
    BY DEF Env!SigTimerInit
  <2> HIDE DEF a, b, t
  <2>4. /\ Len(t) = Len(a) + Len(b)
        /\ \A i \in 1 .. Len(a) : t[i] = a[i]
        /\ \A i \in 1 .. Len(b) : t[Len(a) + i] = b[i]
    BY <2>2, <2>3
  <2>5. a \o b = t
    BY <2>1, <2>4, Glued
  <2> QED BY <2>5 DEF a, b, t
<1> QED BY <1>1, <1>2 DEF Env!EventsInit

(* The lists of what is acquired and given back.                            *)
LEMMA Shifted ==
  ASSUME NEW s \in Seq(Things), s # <<>>
  PROVE  /\ Tail(s) \in Seq(Things) /\ Head(s) \in Things /\ Head(s) = s[1]
         /\ Len(s) \in Nat \ {0} /\ Len(Tail(s)) = Len(s) - 1
         /\ Until(s, 1) = {}
         /\ \A i \in 1 .. Len(Tail(s)) :
              /\ Tail(s)[i] = s[i + 1] /\ i + 1 \in 1 .. Len(s)
              /\ Until(s, i + 1) = {Head(s)} \cup Until(Tail(s), i)
         /\ Elements(s) = {Head(s)} \cup Elements(Tail(s))
<1> DEFINE t == Tail(s)
<1>1. /\ t \in Seq(Things) /\ Len(t) = Len(s) - 1 /\ Len(s) \in Nat \ {0}
      /\ \A i \in 1 .. Len(t) : t[i] = s[i + 1]
      /\ Head(s) = s[1] /\ Head(s) \in Things
  BY HeadTailProperties, LenProperties, EmptySeq
<1> HIDE DEF t
<1>2. Until(s, 1) = {}
  BY DEF Until
<1>3. ASSUME NEW i \in 1 .. Len(t)
      PROVE  /\ i + 1 \in 1 .. Len(s)
             /\ Until(s, i + 1) = {Head(s)} \cup Until(t, i)
  <2>1. i + 1 \in 1 .. Len(s)
    BY <1>1
  <2>2. ASSUME NEW x \in Until(s, i + 1) PROVE x \in {Head(s)} \cup Until(t, i)
    <3>1. PICK j \in 1 .. i : s[j] = x
      BY <2>2 DEF Until
    <3>2. CASE j # 1
      <4>1. j - 1 \in 1 .. i - 1 /\ t[j - 1] = x
        BY <1>1, <3>1, <3>2
      <4> QED BY <4>1 DEF Until
    <3> QED BY <1>1, <3>1, <3>2
  <2>3. ASSUME NEW x \in {Head(s)} \cup Until(t, i) PROVE x \in Until(s, i + 1)
    <3>1. CASE x = Head(s)
      BY <1>1, <3>1 DEF Until
    <3>2. CASE x \in Until(t, i)
      <4>1. PICK j \in 1 .. i - 1 : t[j] = x
        BY <3>2 DEF Until
      <4>2. j + 1 \in 1 .. (i + 1) - 1 /\ s[j + 1] = x
        BY <1>1, <4>1
      <4> QED BY <4>2 DEF Until
    <3> QED BY <2>3, <3>1, <3>2
  <2> QED BY <2>1, <2>2, <2>3
<1>4. Elements(s) = {Head(s)} \cup Elements(t)
  <2>1. ASSUME NEW x \in Elements(s) PROVE x \in {Head(s)} \cup Elements(t)
    <3>1. PICK j \in 1 .. Len(s) : s[j] = x
      BY <2>1 DEF Elements
    <3>2. CASE j # 1
      <4>1. j - 1 \in 1 .. Len(t) /\ t[j - 1] = x
        BY <1>1, <3>1, <3>2
      <4> QED BY <4>1 DEF Elements
    <3> QED BY <1>1, <3>1, <3>2
  <2>2. ASSUME NEW x \in {Head(s)} \cup Elements(t) PROVE x \in Elements(s)
    <3>1. CASE x = Head(s)
      BY <1>1, <3>1 DEF Elements
    <3>2. CASE x \in Elements(t)
      <4>1. PICK j \in 1 .. Len(t) : t[j] = x
        BY <3>2 DEF Elements
      <4>2. j + 1 \in 1 .. Len(s) /\ s[j + 1] = x
        BY <1>1, <4>1
      <4> QED BY <4>2 DEF Elements
    <3> QED BY <2>2, <3>1, <3>2
  <2> QED BY <2>1, <2>2
<1> QED BY <1>1, <1>2, <1>3, <1>4 DEF t

LEMMA OrderedTail ==
  ASSUME NEW s \in Seq(Things), s # <<>>, NEW H, Ordered(s, H)
  PROVE  Ordered(Tail(s), H \ {Head(s)})
<1> SUFFICES ASSUME NEW i \in 1 .. Len(Tail(s)), NEW x \in H \ {Head(s)},
                    Tail(s)[i] \in Under(x)
             PROVE  x \in Until(Tail(s), i)
  BY DEF Ordered
<1>1. x \in Until(s, i + 1)
  BY Shifted DEF Ordered
<1> QED BY <1>1, Shifted

LEMMA UprightTail ==
  ASSUME NEW s \in Seq(Things), s # <<>>, NEW H, NEW B, Upright(s, H, B)
  PROVE  Upright(Tail(s), H \cup ({Head(s)} \ {"config"}), B)
<1> DEFINE G == H \cup ({Head(s)} \ {"config"})
<1> SUFFICES ASSUME NEW i \in 1 .. Len(Tail(s))
             PROVE  /\ Under(Tail(s)[i]) \subseteq G \cup Until(Tail(s), i)
                    /\ Tail(s)[i] # "env" =>
                         Tail(s)[i] \notin G \cup Until(Tail(s), i)
                    /\ Tail(s)[i] \notin Env!Never =>
                         (G \cup Until(Tail(s), i)) \ {"config"}
                           \subseteq B \cup Elements(Env!Undo(Tail(s)[i]))
  BY DEF Upright
<1>1. /\ Tail(s)[i] = s[i + 1] /\ i + 1 \in 1 .. Len(s)
      /\ Until(s, i + 1) = {Head(s)} \cup Until(Tail(s), i)
  BY Shifted
<1>2. /\ Under(Tail(s)[i]) \subseteq H \cup Until(s, i + 1)
      /\ Tail(s)[i] # "env" => Tail(s)[i] \notin H \cup Until(s, i + 1)
      /\ Tail(s)[i] \notin Env!Never =>
           (H \cup Until(s, i + 1)) \ {"config"}
             \subseteq B \cup Elements(Env!Undo(Tail(s)[i]))
  BY <1>1 DEF Upright
<1>3. "config" \notin Under(Tail(s)[i])
  BY DEF Under
<1> QED BY <1>1, <1>2, <1>3

LEMMA EmptyLists ==
  /\ \A i : Until(<<>>, i) = {} \/ i \notin 1 .. 0
  /\ Elements(<<>>) = {} /\ <<>> \in Seq(Things)
  /\ \A H, B : Ordered(<<>>, H) /\ Upright(<<>>, H, B)
  BY DEF Elements, Ordered, Upright

(* What is given back when a thing cannot be had.                           *)
LEMMA UndoIs ==
  ASSUME NEW x \in Things \ Env!Never
  PROVE  /\ Env!Undo(x) \in Seq(Things)
         /\ x \in {"port", "bits", "timer"} =>
              Env!Undo(x) = <<"registers", "port", "bits", "pario">>
         /\ x \in {"timerPort", "device", "sync"} =>
              Env!Undo(x) =
                <<"sync", "device", "exception", "timerPort", "timer",
                  "registers", "port", "bits", "pario">>
         /\ x = "proto" =>
              Env!Undo(x) =
                <<"registers", "port", "bits", "pario",
                  "sync", "device", "exception", "timerPort", "timer">>
         /\ x = "vector" => Env!Undo(x) = <<"ackSignal">>
         /\ x = "sigPort" => Env!Undo(x) = <<"vector", "ackSignal">>
         /\ x \in {"env", "pario", "ackSignal"} => Env!Undo(x) = <<>>
<1> USE DEF Env!Undo
<1>1. CASE x \in {"port", "bits", "timer"}
  <2>1. Env!Undo(x) = <<"registers", "port", "bits", "pario">>
    BY <1>1 DEF Env!ParioExit
  <2> QED BY <1>1, <2>1 DEF Things
<1>2. CASE x \in {"timerPort", "device", "sync"}
  <2>1. Env!Undo(x) = Env!TimerExit \o Env!ParioExit
    BY <1>2
  <2> HIDE DEF Env!Undo
  <2>2. Env!Undo(x) = <<"sync", "device", "exception", "timerPort", "timer",
                        "registers", "port", "bits", "pario">>
    BY <2>1, TimerPario
  <2> QED BY <1>2, <2>2 DEF Things
<1>3. CASE x = "proto"
  <2>1. Env!Undo(x) = Env!ParioExit \o Env!TimerExit
    BY <1>3
  <2> HIDE DEF Env!Undo
  <2>2. Env!Undo(x) = <<"registers", "port", "bits", "pario",
                        "sync", "device", "exception", "timerPort", "timer">>
    BY <2>1, ParioTimer
  <2>3. Env!Undo(x) \in Seq(Things)
    BY <2>2 DEF Things
  <2> QED BY <1>3, <2>2, <2>3
<1>4. CASE x = "vector"
  <2>1. Env!Undo(x) = <<"ackSignal">>
    BY <1>4
  <2> QED BY <1>4, <2>1 DEF Things
<1>5. CASE x = "sigPort"
  <2>1. Env!Undo(x) = <<"vector", "ackSignal">>
    BY <1>5
  <2> QED BY <1>5, <2>1 DEF Things
<1>6. CASE x \in {"env", "pario", "ackSignal"}
  <2>1. Env!Undo(x) = <<>>
    BY <1>6
  <2> QED BY <1>6, <2>1
<1> QED BY <1>1, <1>2, <1>3, <1>4, <1>5, <1>6 DEF Things, Env!Never

(* Every list of what is given back begins with what stands on the rest.    *)
LEMMA OrderedIf ==
  ASSUME NEW s \in Seq(Things), NEW H, "config" \notin H,
         "registers" \in H =>
            \A i \in 1 .. Len(s) : s[i] \in {"port", "bits"} =>
              \E j \in 1 .. i - 1 : s[j] = "registers",
         "exception" \in H =>
            \A i \in 1 .. Len(s) : s[i] \in {"timer", "timerPort"} =>
              \E j \in 1 .. i - 1 : s[j] = "exception",
         "vector" \in H =>
            \A i \in 1 .. Len(s) : s[i] \in {"pario", "ackSignal"} =>
              \E j \in 1 .. i - 1 : s[j] = "vector"
  PROVE  Ordered(s, H)
<1> SUFFICES ASSUME NEW i \in 1 .. Len(s), NEW x \in H, s[i] \in Under(x)
             PROVE  \E j \in 1 .. i - 1 : s[j] = x
  BY DEF Ordered, Until
<1>1. \/ x = "registers" /\ s[i] \in {"port", "bits"}
      \/ x = "exception" /\ s[i] \in {"timer", "timerPort"}
      \/ x = "vector" /\ s[i] \in {"pario", "ackSignal"}
      \/ x = "config"
  BY DEF Under
<1> QED BY <1>1

LEMMA UndoOrdered ==
  ASSUME NEW x \in Things \ Env!Never, NEW H,
         H \subseteq (IF x \in EventThings THEN UpThings ELSE {"env"})
                     \cup Elements(Env!Undo(x))
  PROVE  Ordered(Env!Undo(x), H)
<1> DEFINE s == Env!Undo(x)
<1>1. s \in Seq(Things)
  BY UndoIs
<1>2. CASE x \in {"port", "bits", "timer"}
  <2>1. s = <<"registers", "port", "bits", "pario">>
    BY <1>2, UndoIs
  <2> HIDE DEF s
  <2>2. /\ Elements(s) = {"registers", "port", "bits", "pario"}
        /\ \A i \in 1 .. Len(s) : s[i] \in {"port", "bits"} => i > 1
        /\ s[1] = "registers"
    BY <2>1 DEF Elements
  <2>3. H \subseteq {"env", "registers", "port", "bits", "pario"}
    BY <1>2, <2>2 DEF EventThings, s
  <2>4. Ordered(s, H)
    BY <1>1, <2>2, <2>3, OrderedIf
  <2> QED BY <2>4 DEF s
<1>3. CASE x \in {"timerPort", "device", "sync"}
  <2>1. s = <<"sync", "device", "exception", "timerPort", "timer",
              "registers", "port", "bits", "pario">>
    BY <1>3, UndoIs
  <2> HIDE DEF s
  <2>2. /\ Elements(s) \subseteq UpThings
        /\ \A i \in 1 .. Len(s) : s[i] \in {"port", "bits"} => i > 6
        /\ \A i \in 1 .. Len(s) : s[i] \in {"timer", "timerPort"} => i > 3
        /\ s[6] = "registers" /\ s[3] = "exception"
    BY <2>1 DEF Elements, UpThings, Things, EventThings
  <2>3. H \subseteq UpThings
    BY <1>3, <2>2 DEF EventThings, UpThings, Things, s
  <2>4. Ordered(s, H)
    BY <1>1, <2>2, <2>3, OrderedIf DEF UpThings, EventThings
  <2> QED BY <2>4 DEF s
<1>4. CASE x = "proto"
  <2>1. s = <<"registers", "port", "bits", "pario",
              "sync", "device", "exception", "timerPort", "timer">>
    BY <1>4, UndoIs
  <2> HIDE DEF s
  <2>2. /\ Elements(s) \subseteq UpThings
        /\ \A i \in 1 .. Len(s) : s[i] \in {"port", "bits"} => i > 1
        /\ \A i \in 1 .. Len(s) : s[i] \in {"timer", "timerPort"} => i > 7
        /\ s[1] = "registers" /\ s[7] = "exception"
    BY <2>1 DEF Elements, UpThings, Things, EventThings
  <2>3. H \subseteq UpThings
    BY <1>4, <2>2 DEF EventThings, UpThings, Things, s
  <2>4. Ordered(s, H)
    BY <1>1, <2>2, <2>3, OrderedIf DEF UpThings, EventThings
  <2> QED BY <2>4 DEF s
<1>5. CASE x = "vector"
  <2>1. s = <<"ackSignal">>
    BY <1>5, UndoIs
  <2> HIDE DEF s
  <2>2. Elements(s) = {"ackSignal"} /\ \A i \in 1 .. Len(s) : s[i] = "ackSignal"
    BY <2>1 DEF Elements
  <2>3. {"vector", "config"} \cap H = {}
    BY <1>5, <2>2 DEF EventThings, UpThings, s
  <2>4. Ordered(s, H)
    BY <1>1, <2>2, <2>3, OrderedIf
  <2> QED BY <2>4 DEF s
<1>6. CASE x = "sigPort"
  <2>1. s = <<"vector", "ackSignal">>
    BY <1>6, UndoIs
  <2> HIDE DEF s
  <2>2. /\ Elements(s) = {"vector", "ackSignal"} /\ s[1] = "vector"
        /\ \A i \in 1 .. Len(s) :
             /\ s[i] \in {"vector", "ackSignal"}
             /\ s[i] = "ackSignal" => i > 1
    BY <2>1 DEF Elements
  <2>3. "config" \notin H
    BY <1>6, <2>2 DEF EventThings, UpThings, s
  <2>4. Ordered(s, H)
    BY <1>1, <2>2, <2>3, OrderedIf
  <2> QED BY <2>4 DEF s
<1>7. CASE x \in {"env", "pario", "ackSignal"}
  <2>1. s = <<>>
    BY <1>7, UndoIs
  <2> QED BY <2>1, EmptyLists
<1> QED BY <1>2, <1>3, <1>4, <1>5, <1>6, <1>7 DEF Things, Env!Never

LEMMA ExitOrdered ==
  ASSUME NEW H, H \subseteq UpThings
  PROVE  /\ Ordered(Env!EnvExit, H) /\ Env!EnvExit \in Seq(Things)
         /\ UpThings \subseteq Elements(Env!EnvExit)
<1> DEFINE s == Env!EnvExit
<1>1. s = <<"proto", "sync", "device", "exception", "timerPort", "timer",
            "registers", "port", "bits", "pario", "env">>
  BY EnvExitIs
<1> HIDE DEF s
<1>2. s \in Seq(Things) /\ Len(s) = 11
  BY <1>1 DEF Things
<1>3. UpThings \subseteq Elements(s)
  <2>1. \A x \in UpThings : \E i \in 1 .. 11 : s[i] = x
    BY <1>1 DEF Things, UpThings, EventThings
  <2> QED BY <1>2, <2>1 DEF Elements
<1>4. /\ \A i \in 1 .. Len(s) : s[i] \in {"port", "bits"} => i > 7
      /\ \A i \in 1 .. Len(s) : s[i] \in {"timer", "timerPort"} => i > 4
      /\ s[7] = "registers" /\ s[4] = "exception"
  BY <1>1
<1>5. Ordered(s, H)
  BY <1>2, <1>4, OrderedIf DEF UpThings, EventThings
<1> QED BY <1>2, <1>3, <1>5 DEF s

LEMMA EventsExitOrdered ==
  ASSUME NEW H, H \subseteq UpThings \cup EventThings, NEW s,
         s = <<"sigPort", "vector", "ackSignal">>
  PROVE  /\ Ordered(s, H) /\ s \in Seq(Things)
         /\ Elements(s) = EventThings
<1>1. s \in Seq(Things) /\ Len(s) = 3 /\ Elements(s) = EventThings
  BY DEF Things, Elements, EventThings
<1>2. /\ \A i \in 1 .. Len(s) : s[i] \in {"sigPort", "vector", "ackSignal"}
      /\ \A i \in 1 .. Len(s) : s[i] = "ackSignal" => i > 2
      /\ s[2] = "vector"
  BY <1>1
<1>3. Ordered(s, H)
  BY <1>1, <1>2, OrderedIf DEF UpThings, EventThings
<1> QED BY <1>1, <1>3

(* What a call acquires.                                                    *)
LEMMA EnvInitUpright ==
  ASSUME NEW H, H \subseteq {"env"}
  PROVE  /\ Upright(Env!EnvInit, H, {"env"}) /\ Env!EnvInit \in Seq(Things)
         /\ Elements(Env!EnvInit) = UpThings \cup {"config"}
<1> DEFINE s == Env!EnvInit
<1>1. s = <<"env", "pario", "port", "bits", "registers", "timer", "timerPort",
            "exception", "device", "sync", "proto", "config">>
  BY EnvInitIs
<1> HIDE DEF s
<1>2. s \in Seq(Things) /\ Len(s) = 12
  BY <1>1 DEF Things
<1>3. Elements(s) = UpThings \cup {"config"}
  <2>1. \A x \in UpThings \cup {"config"} : \E i \in 1 .. 12 : s[i] = x
    BY <1>1 DEF Things, UpThings, EventThings
  <2>2. \A i \in 1 .. 12 : s[i] \in UpThings \cup {"config"}
    BY <1>1 DEF Things, UpThings, EventThings
  <2>3. Elements(s) \subseteq UpThings \cup {"config"}
    BY <1>2, <2>2 DEF Elements
  <2>4. UpThings \cup {"config"} \subseteq Elements(s)
    BY <1>2, <2>1 DEF Elements
  <2> QED BY <2>3, <2>4
<1>4. ASSUME NEW i \in 1 .. 12 PROVE Under(s[i]) \subseteq H \cup Until(s, i)
  <2>1. Until(s, 5) = {"env", "pario", "port", "bits"}
    BY <1>1 DEF Until
  <2>2. {"timer", "timerPort"} \subseteq Until(s, 8)
    BY <1>1 DEF Until
  <2>3. "registers" \in Until(s, 12)
    BY <1>1 DEF Until
  <2>4. /\ i \notin {5, 8, 12} => Under(s[i]) = {}
        /\ s[5] = "registers" /\ s[8] = "exception" /\ s[12] = "config"
    BY <1>1 DEF Under
  <2> QED BY <2>1, <2>2, <2>3, <2>4 DEF Under
<1>5. ASSUME NEW i \in 1 .. 12, s[i] \notin Env!Never
      PROVE  Until(s, i) \subseteq {"env"} \cup Elements(Env!Undo(s[i]))
  <2>1. s[i] \in Things \ Env!Never
    BY <1>1, <1>5 DEF Things
  <2>2. CASE i \in {1, 2}
    BY <1>1, <2>2 DEF Until
  <2>3. CASE i \in {3, 4, 6}
    <3>1. Env!Undo(s[i]) = <<"registers", "port", "bits", "pario">>
      BY <1>1, <2>1, <2>3, UndoIs
    <3>2. Elements(Env!Undo(s[i])) = {"registers", "port", "bits", "pario"}
      BY <3>1 DEF Elements
    <3>3. Until(s, i) \subseteq {"env", "registers", "port", "bits", "pario"}
      BY <1>1, <2>3 DEF Until
    <3> QED BY <3>2, <3>3
  <2>4. CASE i \in {7, 9, 10, 11}
    <3> DEFINE u == Env!Undo(s[i])
    <3>1. \/ u = <<"sync", "device", "exception", "timerPort", "timer",
                   "registers", "port", "bits", "pario">>
          \/ u = <<"registers", "port", "bits", "pario",
                   "sync", "device", "exception", "timerPort", "timer">>
      BY <1>1, <2>1, <2>4, UndoIs
    <3> HIDE DEF u
    <3>2. \A x \in UpThings \ {"env", "proto"} : \E j \in 1 .. 9 : u[j] = x
      BY <3>1 DEF UpThings, Things, EventThings
    <3>3. Len(u) = 9
      BY <3>1
    <3>4. Until(s, i) \subseteq UpThings \ {"proto"}
      BY <1>1, <2>4 DEF Until, UpThings, Things, EventThings
    <3>5. UpThings \ {"env", "proto"} \subseteq Elements(u)
      BY <3>2, <3>3 DEF Elements
    <3> QED BY <3>4, <3>5 DEF u
  <2> QED BY <1>1, <1>5, <2>2, <2>3, <2>4 DEF Env!Never
<1>6. ASSUME NEW i \in 1 .. 12, s[i] # "env"
      PROVE  s[i] \notin H \cup Until(s, i)
  <2>1. \A j \in 1 .. 12 : s[i] = s[j] => i = j
    BY <1>1
  <2>2. ASSUME NEW j \in 1 .. i - 1 PROVE s[j] # s[i]
    BY <2>1
  <2>3. s[i] \notin Until(s, i)
    BY <2>2 DEF Until
  <2> QED BY <1>6, <2>3
<1>7. Upright(s, H, {"env"})
  BY <1>2, <1>4, <1>5, <1>6 DEF Upright
<1> QED BY <1>2, <1>3, <1>7 DEF s

LEMMA EventsInitUpright ==
  ASSUME NEW H, H \subseteq UpThings, "pario" \in H
  PROVE  /\ Upright(Env!EventsInit, H, UpThings)
         /\ Env!EventsInit \in Seq(Things)
         /\ Elements(Env!EventsInit) = EventThings
<1> DEFINE s == Env!EventsInit
<1>1. s = <<"ackSignal", "vector", "sigPort">>
  BY EventsInitIs
<1> HIDE DEF s
<1>2. s \in Seq(Things) /\ Len(s) = 3 /\ Elements(s) = EventThings
  BY <1>1 DEF Things, Elements, EventThings
<1>3. /\ Until(s, 1) = {} /\ Until(s, 2) = {"ackSignal"}
      /\ Until(s, 3) = {"ackSignal", "vector"}
  BY <1>1 DEF Until
<1>4. ASSUME NEW i \in 1 .. 3 PROVE Under(s[i]) \subseteq H \cup Until(s, i)
  BY <1>1, <1>3 DEF Under
<1>5. ASSUME NEW i \in 1 .. 3
      PROVE  Until(s, i) \subseteq Elements(Env!Undo(s[i]))
  <2>1. Elements(Env!Undo("vector")) = {"ackSignal"}
    BY UndoIs DEF Elements, Things, Env!Never
  <2>2. Elements(Env!Undo("sigPort")) = {"ackSignal", "vector"}
    BY UndoIs DEF Elements, Things, Env!Never
  <2> QED BY <1>1, <1>3, <2>1, <2>2
<1>6. ASSUME NEW i \in 1 .. 3 PROVE s[i] \notin H \cup Until(s, i)
  BY <1>1, <1>3 DEF UpThings, EventThings
<1>7. Upright(s, H, UpThings)
  BY <1>2, <1>4, <1>5, <1>6 DEF Upright
<1> QED BY <1>2, <1>7 DEF s

-------------------------------------------------------------------------------
(* The steps.  What one program does leaves the lists of the others alone.  *)

LEMMA OthersKeep ==
  ASSUME NEW q \in Programs, CallInv(q), HasInv(q), at'[q] = at[q],
         take'[q] = take[q], drop'[q] = drop[q], has'[q] = has[q]
  PROVE  CallInv(q)' /\ HasInv(q)'
  BY DEF CallInv, HasInv

LEMMA EnvInitHolds == Env!Init => EnvInv
<1> SUFFICES ASSUME Env!Init PROVE EnvInv
  OBVIOUS
<1>1. EnvTypes
  BY EmptyLists DEF EnvTypes, Env!Init, Env!Shared
<1>2. SharedInv
  BY EventsAssumption DEF SharedInv, Env!Init, Env!Shared, Env!EnvAssumption
<1>3. ASSUME NEW p \in Programs PROVE CallInv(p) /\ HasInv(p)
  BY EmptyLists DEF Env!Init, CallInv, HasInv
<1> QED BY <1>1, <1>2, <1>3 DEF EnvInv

(* A call that begins or ends moves nothing yet.                            *)
LEMMA CallStep ==
  ASSUME EnvInv, NEW p \in Programs,
         UNCHANGED <<has, saved, holder, regs, theirs>>,
         NEW a \in {"out", "up", "events"}, at' = [at EXCEPT ![p] = a],
         NEW t \in Seq(Things), take' = [take EXCEPT ![p] = t],
         NEW d \in Seq(Things), drop' = [drop EXCEPT ![p] = d],
         CallInv(p)' /\ HasInv(p)'
  PROVE  EnvInv'
<1>1. EnvTypes'
  BY DEF EnvInv, EnvTypes
<1>2. SharedInv'
  BY DEF EnvInv, SharedInv
<1>3. ASSUME NEW q \in Programs, q # p PROVE CallInv(q)' /\ HasInv(q)'
  <2>1. /\ at'[q] = at[q] /\ take'[q] = take[q] /\ drop'[q] = drop[q]
        /\ has'[q] = has[q]
    BY <1>3 DEF EnvInv, EnvTypes
  <2> QED BY <2>1, OthersKeep DEF EnvInv
<1> QED BY <1>1, <1>2, <1>3 DEF EnvInv

LEMMA BeginStep ==
  ASSUME EnvInv, NEW p \in Programs, Env!ProtoEnvInit(p) \/ Env!InitEvents(p)
  PROVE  EnvInv'
<1>1. CallInv(p) /\ HasInv(p) /\ EnvTypes
  BY DEF EnvInv
<1>2. CASE Env!ProtoEnvInit(p)
  <2>1. /\ take[p] = <<>> /\ drop[p] = <<>> /\ at[p] = "out"
        /\ at' = [at EXCEPT ![p] = "up"]
        /\ take' = [take EXCEPT ![p] = Env!EnvInit] /\ drop' = drop
        /\ UNCHANGED <<has, saved, holder, regs, theirs>>
    BY <1>2 DEF Env!ProtoEnvInit, Env!Begin, Env!Idle
  <2>2. /\ take'[p] = Env!EnvInit /\ drop'[p] = <<>> /\ at'[p] = "up"
        /\ has'[p] = has[p] /\ drop' = [drop EXCEPT ![p] = <<>>]
    BY <1>1, <2>1 DEF EnvTypes
  <2>3. has[p] \subseteq {"env"}
    BY <1>1, <2>1, EmptyLists DEF HasInv, Rest
  <2>4. CallInv(p)'
    BY <2>2, <2>3, EmptyLists, EnvInitUpright DEF CallInv, Wanted, Below
  <2>5. HasInv(p)'
    <3>1. "pario" \in Elements(Env!EnvInit)
      BY EnvInitUpright DEF UpThings, Things, EventThings
    <3>2. Under("env") = {} /\ {"env"} \subseteq UpThings
      BY DEF Under, UpThings, Things, EventThings
    <3> QED BY <2>2, <2>3, <3>1, <3>2 DEF HasInv, Rest
  <2> QED BY <2>1, <2>2, <2>4, <2>5, EnvInitUpright, EmptyLists, CallStep
<1>3. CASE Env!InitEvents(p)
  <2>1. /\ take[p] = <<>> /\ drop[p] = <<>> /\ at[p] = "up"
        /\ at' = [at EXCEPT ![p] = "events"]
        /\ take' = [take EXCEPT ![p] = Env!EventsInit] /\ drop' = drop
        /\ UNCHANGED <<has, saved, holder, regs, theirs>>
    BY <1>3 DEF Env!InitEvents, Env!Begin, Env!Idle
  <2>2. /\ take'[p] = Env!EventsInit /\ drop'[p] = <<>> /\ at'[p] = "events"
        /\ has'[p] = has[p] /\ drop' = [drop EXCEPT ![p] = <<>>]
    BY <1>1, <2>1 DEF EnvTypes
  <2>3. has[p] \subseteq UpThings /\ "pario" \in has[p]
    BY <1>1, <2>1, EmptyLists DEF HasInv, Rest
  <2>4. CallInv(p)'
    BY <2>2, <2>3, EmptyLists, EventsInitUpright DEF CallInv, Wanted, Below
  <2>5. HasInv(p)'
    BY <1>1, <2>2, <2>3 DEF HasInv, Rest
  <2>6. Env!EventsInit \in Seq(Things)
    BY <2>3, EventsInitUpright
  <2> QED BY <2>1, <2>2, <2>4, <2>5, <2>6, EmptyLists, CallStep
<1> QED BY <1>2, <1>3

LEMMA EndStep ==
  ASSUME EnvInv, NEW p \in Programs, Env!ProtoEnvExit(p) \/ Env!ExitEvents(p)
  PROVE  EnvInv'
<1>1. CallInv(p) /\ HasInv(p) /\ EnvTypes
  BY DEF EnvInv
<1>2. CASE Env!ProtoEnvExit(p)
  <2>1. /\ take[p] = <<>> /\ drop[p] = <<>> /\ at[p] = "up"
        /\ at' = [at EXCEPT ![p] = "out"]
        /\ drop' = [drop EXCEPT ![p] = Env!EnvExit] /\ take' = take
        /\ UNCHANGED <<has, saved, holder, regs, theirs>>
    BY <1>2 DEF Env!ProtoEnvExit, Env!End, Env!Idle
  <2>2. /\ drop'[p] = Env!EnvExit /\ take'[p] = <<>> /\ at'[p] = "out"
        /\ has'[p] = has[p] /\ take' = [take EXCEPT ![p] = <<>>]
    BY <1>1, <2>1 DEF EnvTypes
  <2>3. has[p] \subseteq UpThings
    BY <1>1, <2>1, EmptyLists DEF HasInv, Rest
  <2>4. CallInv(p)'
    BY <2>2, <2>3, EmptyLists, ExitOrdered DEF CallInv
  <2>5. HasInv(p)'
    BY <1>1, <2>2, <2>3, ExitOrdered DEF HasInv
  <2> QED BY <2>1, <2>2, <2>4, <2>5, ExitOrdered, EmptyLists, CallStep
<1>3. CASE Env!ExitEvents(p)
  <2> DEFINE d == <<"sigPort", "vector", "ackSignal">>
  <2>1. /\ take[p] = <<>> /\ drop[p] = <<>> /\ at[p] = "events"
        /\ at' = [at EXCEPT ![p] = "up"]
        /\ drop' = [drop EXCEPT ![p] = d] /\ take' = take
        /\ UNCHANGED <<has, saved, holder, regs, theirs>>
    BY <1>3 DEF Env!ExitEvents, Env!End, Env!Idle
  <2>2. /\ drop'[p] = d /\ take'[p] = <<>> /\ at'[p] = "up"
        /\ has'[p] = has[p] /\ take' = [take EXCEPT ![p] = <<>>]
    BY <1>1, <2>1 DEF EnvTypes
  <2>3. has[p] \subseteq UpThings \cup EventThings /\ "pario" \in has[p]
    BY <1>1, <2>1, EmptyLists DEF HasInv, Rest
  <2>4. Ordered(d, has[p]) /\ d \in Seq(Things) /\ Elements(d) = EventThings
    BY <2>3, EventsExitOrdered
  <2> HIDE DEF d
  <2>5. CallInv(p)'
    BY <2>2, <2>4, EmptyLists DEF CallInv, EventThings
  <2>6. HasInv(p)'
    BY <1>1, <2>2, <2>3, <2>4 DEF HasInv, Rest
  <2> QED BY <2>1, <2>2, <2>4, <2>5, <2>6, EmptyLists, CallStep
<1> QED BY <1>2, <1>3

LEMMA RefuseStep ==
  ASSUME EnvInv, NEW p \in Programs, Env!Refuse(p)
  PROVE  EnvInv'
<1> DEFINE x == Head(take[p])
           u == Env!Undo(x)
<1>1. CallInv(p) /\ HasInv(p) /\ EnvTypes
  BY DEF EnvInv
<1>2. /\ take[p] # <<>> /\ x \notin Env!Never
      /\ drop' = [drop EXCEPT ![p] = u] /\ take' = [take EXCEPT ![p] = <<>>]
      /\ at' = [at EXCEPT ![p] = IF at[p] = "up" THEN "out" ELSE "up"]
      /\ UNCHANGED <<has, saved, holder, regs, theirs>>
  BY DEF Env!Refuse
<1>3. /\ take[p] \in Seq(Things) /\ at[p] \in {"up", "events"}
      /\ at'[p] = IF at[p] = "up" THEN "out" ELSE "up"
      /\ drop[p] = <<>> /\ drop'[p] = u /\ take'[p] = <<>> /\ has'[p] = has[p]
  BY <1>1, <1>2 DEF EnvTypes, CallInv
<1>4. /\ x \in Things /\ x = take[p][1] /\ 1 \in 1 .. Len(take[p])
      /\ Until(take[p], 1) = {} /\ x \in Elements(take[p])
  BY <1>2, <1>3, Shifted
<1>5. x \in Wanted(at[p])
  BY <1>1, <1>4 DEF CallInv
<1> HIDE DEF x
<1>6. has[p] \subseteq Below(at[p]) \cup Elements(u)
  BY <1>1, <1>2, <1>4 DEF CallInv, Upright, HasInv
<1>7. u \in Seq(Things)
  BY <1>2, <1>4, UndoIs
<1>8. Ordered(u, has[p])
  <2>1. Below(at[p]) \subseteq IF x \in EventThings THEN UpThings ELSE {"env"}
    BY <1>3, <1>5 DEF Below, Wanted, UpThings, Things, EventThings
  <2> QED BY <1>2, <1>4, <1>6, <2>1, UndoOrdered
<1>9. at[p] = "events" => "pario" \notin Elements(u)
  <2> SUFFICES ASSUME at[p] = "events" PROVE "pario" \notin Elements(u)
    OBVIOUS
  <2>1. u \in {<<"ackSignal">>, <<"vector", "ackSignal">>, <<>>}
    BY <1>2, <1>4, <1>5, UndoIs DEF Wanted, EventThings
  <2> HIDE DEF u
  <2> QED BY <2>1 DEF Elements
<1> HIDE DEF u
<1>10. CallInv(p)'
  BY <1>3, <1>8, <1>9, EmptyLists DEF CallInv
<1>11. HasInv(p)'
  BY <1>1, <1>3, <1>6 DEF HasInv, Rest, Below
<1> QED BY <1>2, <1>3, <1>7, <1>10, <1>11, EmptyLists, CallStep

(* What a step of a program means for the shared things.                    *)
LEMMA AcquireStep ==
  ASSUME EnvInv, NEW p \in Programs, Env!Acquire(p)
  PROVE  EnvInv'
<1> DEFINE x == Head(take[p])
<1>1. CallInv(p) /\ HasInv(p) /\ EnvTypes /\ SharedInv
  BY DEF EnvInv
<1>2. /\ take[p] # <<>>
      /\ x \in Env!Shared => holder[x] = none
      /\ holder' = IF x \in Env!Shared THEN [holder EXCEPT ![x] = p] ELSE holder
      /\ has' = [has EXCEPT ![p] = has[p] \cup ({x} \ {"config"})]
      /\ saved' =
           [saved EXCEPT ![p] = IF x = "registers" THEN regs ELSE saved[p]]
      /\ regs' = IF x = "config" THEN "box" ELSE regs
      /\ take' = [take EXCEPT ![p] = Tail(take[p])]
      /\ UNCHANGED <<at, drop, waited, theirs>>
  BY DEF Env!Acquire, Env!Saved, Env!Configured
<1>3. /\ take[p] \in Seq(Things) /\ drop[p] = <<>> /\ at[p] # "out"
      /\ at'[p] = at[p] /\ drop'[p] = <<>> /\ take'[p] = Tail(take[p])
      /\ has'[p] = has[p] \cup ({x} \ {"config"})
  BY <1>1, <1>2 DEF EnvTypes, CallInv
<1>4. /\ x \in Things /\ x = take[p][1] /\ 1 \in 1 .. Len(take[p])
      /\ Until(take[p], 1) = {}
      /\ Elements(take[p]) = {x} \cup Elements(Tail(take[p]))
      /\ Tail(take[p]) \in Seq(Things)
  BY <1>2, <1>3, Shifted
<1>5. Upright(Tail(take[p]), has'[p], Below(at[p]))
  BY <1>1, <1>2, <1>3, UprightTail DEF CallInv
<1> HIDE DEF x
<1>6. Under(x) \subseteq has[p] /\ (x # "env" => x \notin has[p])
  BY <1>1, <1>4 DEF CallInv, Upright
<1>7. x \in Wanted(at[p])
  BY <1>1, <1>4 DEF CallInv
<1>8. CallInv(p)'
  BY <1>1, <1>3, <1>4, <1>5, EmptyLists DEF CallInv
<1>9. HasInv(p)'
  BY <1>1, <1>2, <1>3, <1>4, <1>6, <1>7, EmptyLists
     DEF HasInv, Wanted, Rest, EnvTypes
<1>10. EnvTypes'
  BY <1>1, <1>2, <1>4 DEF EnvTypes
<1>11. SharedInv'
  <2>1. ASSUME NEW q \in Programs, NEW y \in Env!Shared
        PROVE  (y \in has[q] <=> holder[y] = q)'
    BY <1>1, <1>2, EventsAssumption
    DEF EnvTypes, SharedInv, Env!Shared, Env!EnvAssumption
  <2>2. x \in {"registers", "config"} => {"port", "bits"} \subseteq has[p]
    BY <1>1, <1>6 DEF HasInv, Under
  <2>3. x = "config" => "registers" \in has[p]
    BY <1>6 DEF Under
  <2>4. x = "registers" => \A q \in Programs : "registers" \in has[q] => q = p
    BY <1>1, <2>2 DEF EnvInv, HasInv, Under, SharedInv, Env!Shared
  <2>5. ASSUME NEW q \in Programs, "registers" \in has'[q]
        PROVE  saved'[q] = theirs'
    <3>1. CASE x = "registers"
      <4>1. q = p /\ saved'[q] = regs
        BY <1>1, <1>2, <2>4, <2>5, <3>1 DEF EnvTypes
      <4>2. \A r \in Programs : "registers" \notin has[r]
        BY <1>6, <2>4, <3>1
      <4> QED BY <1>1, <1>2, <4>1, <4>2 DEF SharedInv
    <3>2. CASE x # "registers"
      BY <1>1, <1>2, <2>5, <3>2 DEF EnvTypes, SharedInv
    <3> QED BY <3>1, <3>2
  <2>6. (\A q \in Programs : "registers" \notin has'[q]) => regs' = theirs'
    BY <1>1, <1>2, <2>3 DEF EnvTypes, SharedInv
  <2> QED BY <2>1, <2>5, <2>6 DEF SharedInv
<1>12. ASSUME NEW q \in Programs, q # p PROVE CallInv(q)' /\ HasInv(q)'
  <2>1. /\ at'[q] = at[q] /\ take'[q] = take[q] /\ drop'[q] = drop[q]
        /\ has'[q] = has[q]
    BY <1>1, <1>2, <1>12 DEF EnvTypes
  <2> QED BY <2>1, OthersKeep DEF EnvInv
<1> QED BY <1>8, <1>9, <1>10, <1>11, <1>12 DEF EnvInv

LEMMA ReleaseStep ==
  ASSUME EnvInv, NEW p \in Programs, Env!Release(p)
  PROVE  EnvInv'
<1> DEFINE x == Head(drop[p])
<1>1. CallInv(p) /\ HasInv(p) /\ EnvTypes /\ SharedInv
  BY DEF EnvInv
<1>2. /\ drop[p] # <<>>
      /\ holder' = [y \in Env!Shared |->
                      IF y = x /\ x \in has[p] THEN none ELSE holder[y]]
      /\ has' = [has EXCEPT ![p] = has[p] \ {x}]
      /\ regs' = IF x = "registers" /\ x \in has[p] THEN saved[p] ELSE regs
      /\ drop' = [drop EXCEPT ![p] = Tail(drop[p])]
      /\ UNCHANGED <<at, take, saved, waited, theirs>>
  BY DEF Env!Release, Env!Drops, Env!Restored
<1>3. /\ drop[p] \in Seq(Things) /\ take[p] = <<>> /\ take'[p] = <<>>
      /\ at'[p] = at[p] /\ drop'[p] = Tail(drop[p]) /\ has'[p] = has[p] \ {x}
  BY <1>1, <1>2 DEF EnvTypes, CallInv
<1>4. /\ x \in Things /\ x = drop[p][1] /\ 1 \in 1 .. Len(drop[p])
      /\ Until(drop[p], 1) = {}
      /\ Elements(drop[p]) = {x} \cup Elements(Tail(drop[p]))
      /\ Tail(drop[p]) \in Seq(Things)
  BY <1>2, <1>3, Shifted
<1>5. Ordered(Tail(drop[p]), has'[p])
  BY <1>1, <1>2, <1>3, OrderedTail DEF CallInv
<1> HIDE DEF x
<1>6. \A y \in has[p] : x \notin Under(y)
  BY <1>1, <1>4 DEF CallInv, Ordered
<1>7. CallInv(p)'
  BY <1>1, <1>3, <1>4, <1>5, EmptyLists DEF CallInv
<1>8. HasInv(p)'
  BY <1>1, <1>3, <1>4, <1>6, EmptyLists DEF HasInv, CallInv
<1>9. EnvTypes'
  BY <1>1, <1>2, <1>4 DEF EnvTypes
<1>10. SharedInv'
  <2>1. ASSUME NEW q \in Programs, NEW y \in Env!Shared
        PROVE  (y \in has[q] <=> holder[y] = q)'
    BY <1>1, <1>2, EventsAssumption
    DEF EnvTypes, SharedInv, Env!Shared, Env!EnvAssumption
  <2>2. ASSUME NEW q \in Programs, "registers" \in has'[q]
        PROVE  saved'[q] = theirs'
    BY <1>1, <1>2, <2>2 DEF EnvTypes, SharedInv
  <2>3. ASSUME \A q \in Programs : "registers" \notin has'[q]
        PROVE  regs' = theirs'
    <3>1. \A q \in Programs : q # p => has'[q] = has[q]
      BY <1>1, <1>2 DEF EnvTypes
    <3>2. CASE "registers" \in has[p]
      BY <1>1, <1>2, <1>3, <2>3, <3>2 DEF SharedInv
    <3>3. CASE "registers" \notin has[p]
      BY <1>1, <1>2, <1>3, <2>3, <3>1, <3>3 DEF SharedInv
    <3> QED BY <3>2, <3>3
  <2> QED BY <2>1, <2>2, <2>3 DEF SharedInv
<1>11. ASSUME NEW q \in Programs, q # p PROVE CallInv(q)' /\ HasInv(q)'
  <2>1. /\ at'[q] = at[q] /\ take'[q] = take[q] /\ drop'[q] = drop[q]
        /\ has'[q] = has[q]
    BY <1>1, <1>2, <1>11 DEF EnvTypes
  <2> QED BY <2>1, OthersKeep DEF EnvInv
<1> QED BY <1>7, <1>8, <1>9, <1>10, <1>11 DEF EnvInv

(* The program with a printer, and the steps that change nothing here.      *)
LEMMA OtherStep ==
  ASSUME EnvInv,
         \/ \E x \in Env!Shared : Env!OtherTakes(x) \/ Env!OtherFrees(x)
         \/ \E v \in Env!Values : Env!OtherPrints(v)
         \/ \E p \in Programs : Env!WaitEvent(p)
         \/ UNCHANGED Env!vars
  PROVE  EnvInv'
<1>1. UNCHANGED <<at, take, drop, has, saved>>
  BY DEF Env!OtherTakes, Env!OtherFrees, Env!OtherPrints, Env!WaitEvent,
         Env!vars
<1>2. ASSUME NEW q \in Programs PROVE CallInv(q)' /\ HasInv(q)'
  BY <1>1, OthersKeep DEF EnvInv
<1>3. CASE \E v \in Env!Values : Env!OtherPrints(v)
  <2>1. \A p \in Programs : "registers" \notin has[p]
    BY <1>3, EventsAssumption
    DEF Env!OtherPrints, Env!EnvAssumption, EnvInv, HasInv, Under, SharedInv,
        Env!Shared
  <2>2. EnvTypes' /\ SharedInv'
    BY <1>1, <1>3, <2>1
       DEF Env!OtherPrints, Env!Values, EnvInv, EnvTypes, SharedInv
  <2> QED BY <1>2, <2>2 DEF EnvInv
<1>4. CASE \/ \E x \in Env!Shared : Env!OtherTakes(x) \/ Env!OtherFrees(x)
           \/ \E p \in Programs : Env!WaitEvent(p)
           \/ UNCHANGED Env!vars
  <2>1. EnvTypes'
    BY <1>1, <1>4
    DEF Env!OtherTakes, Env!OtherFrees, Env!WaitEvent, Env!vars, EnvInv,
        EnvTypes
  <2>2. SharedInv'
    BY <1>1, <1>4, EventsAssumption
    DEF Env!OtherTakes, Env!OtherFrees, Env!WaitEvent, Env!vars, EnvInv,
        EnvTypes,
        SharedInv, Env!EnvAssumption
  <2> QED BY <1>2, <2>1, <2>2 DEF EnvInv
<1> QED BY <1>3, <1>4

LEMMA EnvAlways == Env!Spec => []EnvInv
<1>1. EnvInv /\ [Env!Next]_Env!vars => EnvInv'
  BY BeginStep, EndStep, RefuseStep, AcquireStep, ReleaseStep, OtherStep
     DEF Env!Next
<1> QED BY EnvInitHolds, <1>1, PTL DEF Env!Spec

(* Whatever step of proto_env_init or proto_env_init_events fails, and      *)
(* however many programs try at once: who is out keeps nothing but the      *)
(* handle that a failed init does not free, and the registers of the port   *)
(* are as others want them whenever the box has not got them.               *)
THEOREM EverythingIsGivenBack == Env!Spec => []GivesAllBack
<1>1. EnvInv => GivesAllBack
  <2> SUFFICES ASSUME EnvInv PROVE Env!GivesAllBack
    BY DEF GivesAllBack
  <2>1. ASSUME NEW p \in Programs
        PROVE  /\ (at[p] = "out" /\ Env!Idle(p)) => has[p] \subseteq {"env"}
               /\ \A x \in Env!Shared : x \in has[p] <=> holder[x] = p
               /\ "vector" \in has[p] => {"pario", "ackSignal"} \subseteq has[p]
               /\ "exception" \in has[p] =>
                    {"timer", "timerPort"} \subseteq has[p]
    BY EmptyLists DEF EnvInv, HasInv, SharedInv, Env!Idle, Rest, Under
  <2> QED BY <2>1 DEF EnvInv, SharedInv, Env!GivesAllBack
<1> QED BY <1>1, EnvAlways, PTL
===============================================================================
