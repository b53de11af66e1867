----------------------------- MODULE AmigaEvents -----------------------------
(***************************************************************************)
(* How the task of an Amiga program learns of timeouts and of the device's *)
(* triggers: the timer of the protocol commands, whose end raises an       *)
(* exception that sets a flag (timer_start, timer_stop, exc_handler of     *)
(* amiga/src/base/timer.c), the timer of proto_env_wait_event, whose end   *)
(* is a signal, and the interrupt of the ACK line (pario.c, pario_irq.s).  *)
(*                                                                         *)
(* The interrupt handler runs between any two steps of the task and of its *)
(* exception handler, the exception handler between any two of the task.   *)
(* The counters of interrupts, which only the tests read, are left out.    *)
(***************************************************************************)
EXTENDS Naturals

VARIABLES
  pc,         \* where the task is
  exc,        \* where its exception handler is, or "no"
  flag,       \* timeoutFlag
  cmdReq,     \* timerReq: "free", "running" or "replied"
  sigReq,     \* sigTimerReq, likewise
  signals,    \* tc_SigRecvd: subset of {"cmd", "sync", "timer", "ack", "extra"}
  got,        \* what Wait returned to proto_env_wait_event
  on,         \* the events are initialized
  sent,       \* sent_signal
  cmdExpired, \* ghost: timerReq ran out since it was sent
  sigExpired, \* ghost: sigTimerReq ran out since it was sent
  unseen,     \* ghost: triggers since proto_env_wait_event reported one
  wiped       \* ghost: a trigger came between both statements of a confirm

timers == <<flag, cmdReq, sigReq, cmdExpired, sigExpired>>
triggers == <<on, sent, unseen, wiped>>
vars == <<pc, exc, signals, got, timers, triggers>>

Signals == {"cmd", "sync", "timer", "ack", "extra"}
EventMask == {"timer", "ack", "extra"}

------------------------------------------------------------------------------
(* The timer of the commands.                                               *)

(* A step of the task itself, from one place to another.                    *)
Task(from, to) == exc = "no" /\ pc = from /\ pc' = to /\ UNCHANGED exc

Command ==
  /\ Task("idle", "test")
  /\ UNCHANGED <<signals, got, timers, triggers>>

TestFlag ==
  /\ Task("test", IF flag THEN "clear" ELSE "sync")
  /\ UNCHANGED <<signals, got, timers, triggers>>

WaitSync ==
  /\ Task("sync", "test")
  /\ "sync" \in signals /\ signals' = signals \ {"sync"}
  /\ UNCHANGED <<got, timers, triggers>>

ClearFlag ==
  /\ Task("clear", "send")
  /\ flag' = FALSE
  /\ UNCHANGED <<signals, got, cmdReq, sigReq, cmdExpired, sigExpired, triggers>>

SendTimer ==
  /\ Task("send", "command")
  /\ signals' = signals \ {"sync"}
  /\ cmdReq' = "running" /\ cmdExpired' = FALSE
  /\ UNCHANGED <<got, flag, sigReq, sigExpired, triggers>>

(* The command polls the device and the flag; timer_stop ends it.           *)
Stop ==
  /\ Task("command", "idle")
  /\ cmdReq' = IF cmdReq = "running" THEN "replied" ELSE cmdReq
  /\ signals' = IF cmdReq = "running" THEN signals \cup {"cmd"} ELSE signals
  /\ UNCHANGED <<got, flag, sigReq, cmdExpired, sigExpired, triggers>>

Answered == Stop
TimedOut == flag /\ Stop

(* timer.device replies at the end of the time.                             *)
Expire ==
  /\ cmdReq = "running"
  /\ cmdReq' = "replied" /\ cmdExpired' = TRUE
  /\ signals' = signals \cup {"cmd"}
  /\ UNCHANGED <<pc, exc, got, flag, sigReq, sigExpired, triggers>>

(* exc_handler, entered when its signal comes.                              *)
Except ==
  /\ exc = "no" /\ "cmd" \in signals
  /\ signals' = signals \ {"cmd"} /\ exc' = "waitio"
  /\ UNCHANGED <<pc, got, timers, triggers>>

ExcWaitIO ==
  /\ exc = "waitio" /\ cmdReq = "replied"
  /\ cmdReq' = "free" /\ exc' = "flag"
  /\ UNCHANGED <<pc, signals, got, flag, sigReq, cmdExpired, sigExpired, triggers>>

ExcFlag ==
  /\ exc = "flag"
  /\ flag' = TRUE /\ exc' = "signal"
  /\ UNCHANGED <<pc, signals, got, cmdReq, sigReq, cmdExpired, sigExpired, triggers>>

(* Mutant of ExcSignal: the task is not told.                               *)
ExcSignalNot ==
  /\ exc = "signal"
  /\ exc' = "no"
  /\ UNCHANGED <<signals, pc, got, timers, triggers>>

ExcSignal ==
  /\ exc = "signal"
  /\ signals' = signals \cup {"sync"} /\ exc' = "no"
  /\ UNCHANGED <<pc, got, timers, triggers>>

------------------------------------------------------------------------------
(* proto_env_wait_event.                                                    *)

(* timer_sig_start clears the signal before it sends the request.           *)
(* Mutant of WaitEvent: without that.                                       *)
WaitEventUncleared ==
  /\ on /\ Task("idle", "wsend")
  /\ UNCHANGED <<signals, got, timers, triggers>>

WaitEvent ==
  /\ on /\ Task("idle", "wsend")
  /\ signals' = signals \ {"timer"}
  /\ UNCHANGED <<got, timers, triggers>>

SendSigTimer ==
  /\ Task("wsend", "wait")
  /\ sigReq' = "running" /\ sigExpired' = FALSE
  /\ UNCHANGED <<signals, got, flag, cmdReq, cmdExpired, triggers>>

Wake ==
  /\ Task("wait", "wstop")
  /\ signals \cap EventMask # {}
  /\ got' = signals \cap EventMask
  /\ signals' = signals \ EventMask
  /\ UNCHANGED <<timers, triggers>>

(* timer_sig_stop: CheckIO and AbortIO, then WaitIO.                        *)
SigStop ==
  /\ Task("wstop", "wio")
  /\ sigReq' = "replied"
  /\ signals' = IF sigReq = "running" THEN signals \cup {"timer"} ELSE signals
  /\ UNCHANGED <<got, flag, cmdReq, cmdExpired, sigExpired, triggers>>

(* Mutant of SigWaitIO: confirms whatever was got.                          *)
SigWaitIOConfirms ==
  /\ Task("wio", "confirm")
  /\ sigReq' = "free"
  /\ UNCHANGED <<signals, got, flag, cmdReq, cmdExpired, sigExpired, triggers>>

SigWaitIO ==
  /\ Task("wio", IF "ack" \in got THEN "confirm" ELSE "idle")
  /\ sigReq' = "free"
  /\ UNCHANGED <<signals, got, flag, cmdReq, cmdExpired, sigExpired, triggers>>

(* Both statements of pario_confirm_ack_irq.                                *)
ConfirmSent ==
  /\ Task("confirm", "clearack")
  /\ sent' = FALSE
  /\ UNCHANGED <<signals, got, timers, on, unseen, wiped>>

ConfirmSignal ==
  /\ Task("clearack", "idle")
  /\ signals' = signals \ {"ack"}
  /\ wiped' = (wiped \/ sent)
  /\ unseen' = (unseen /\ "ack" \notin got)
  /\ UNCHANGED <<got, timers, on, sent>>

ExpireSig ==
  /\ sigReq = "running"
  /\ sigReq' = "replied" /\ sigExpired' = TRUE
  /\ signals' = signals \cup {"timer"}
  /\ UNCHANGED <<pc, exc, got, flag, cmdReq, cmdExpired, triggers>>

(* A signal of the caller's own, like that of the device's request port.    *)
Extra ==
  /\ signals' = signals \cup {"extra"}
  /\ UNCHANGED <<pc, exc, got, timers, triggers>>

------------------------------------------------------------------------------
(* The ACK line.                                                            *)

(* pario_irq_handler.                                                       *)
Interrupt ==
  /\ on
  /\ sent' = TRUE /\ unseen' = TRUE
  /\ signals' = IF sent THEN signals ELSE signals \cup {"ack"}
  /\ UNCHANGED <<pc, exc, got, timers, on, wiped>>

InitEvents ==
  /\ ~on /\ Task("idle", "idle")
  /\ on' = TRUE /\ sent' = FALSE /\ unseen' = FALSE /\ wiped' = FALSE
  /\ signals' = signals \ {"ack"}
  /\ UNCHANGED <<got, timers>>

ExitEvents ==
  /\ on /\ Task("idle", "idle")
  /\ on' = FALSE
  /\ signals' = signals \ {"ack"}
  /\ UNCHANGED <<got, timers, sent, unseen, wiped>>

Init ==
  /\ pc = "idle" /\ exc = "no" /\ signals = {} /\ got = {}
  /\ flag = TRUE /\ cmdReq = "free" /\ sigReq = "free"
  /\ cmdExpired = FALSE /\ sigExpired = FALSE
  /\ on = FALSE /\ sent = FALSE /\ unseen = FALSE /\ wiped = FALSE

(* What a call does once it is begun, without the answer of the device.     *)
TaskWorks ==
  \/ TestFlag \/ WaitSync \/ ClearFlag \/ SendTimer \/ TimedOut
  \/ SendSigTimer \/ Wake \/ SigStop \/ SigWaitIO \/ ConfirmSent \/ ConfirmSignal
ExcWorks == Except \/ ExcWaitIO \/ ExcFlag \/ ExcSignal

Next ==
  \/ Command \/ WaitEvent \/ InitEvents \/ ExitEvents \/ Answered
  \/ TaskWorks \/ ExcWorks \/ Expire \/ ExpireSig \/ Extra \/ Interrupt

Spec == Init /\ [][Next]_vars

(* The task and its exception handler run, and both timers run out.         *)
Fairness ==
  WF_vars(TaskWorks) /\ WF_vars(ExcWorks) /\ WF_vars(Expire) /\ WF_vars(ExpireSig)

LiveSpec == Spec /\ Fairness

------------------------------------------------------------------------------
(* A command that finds the flag set has used up its own time, and a wait   *)
(* that reports the timer has waited its own time: neither is cut short by  *)
(* what is left of the timer before it.  Neither of the two requests is     *)
(* sent, or waited for, while it is under way or lies at its port.          *)
TimeoutsAreOwn ==
  /\ (pc = "command" /\ flag) => cmdExpired
  /\ (pc = "wstop" /\ "timer" \in got) => sigExpired
  /\ pc \in {"clear", "send"} => cmdReq = "free"
  /\ pc \in {"idle", "wsend"} => sigReq = "free"
  /\ (flag /\ pc # "command") => cmdReq \in {"free", "replied"}
  /\ exc = "waitio" => cmdReq = "replied"

(* A trigger of the device is pending for, or just being reported by,       *)
(* proto_env_wait_event until that has returned it, unless an interrupt     *)
(* once came between both statements of a confirm.                          *)
NoTriggerLost ==
  (on /\ unseen /\ ~wiped) =>
    \/ "ack" \in signals
    \/ "ack" \in got /\ pc \in {"wstop", "wio", "confirm", "clearack"}

(* Every call returns, whether the device answers or not: the wait for the  *)
(* exception handler in timer_start in particular.                          *)
CallsReturn == (pc # "idle") ~> (pc = "idle")

==============================================================================
