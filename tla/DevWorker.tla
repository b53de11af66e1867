----------------------------- MODULE DevWorker -----------------------------
(***************************************************************************)
(* The exec devices pambox.device and pamnet.device: the library base that *)
(* tasks open and close (device.c), its one unit (unit.c), the worker task *)
(* of that unit with its port and semaphore (devworker.c) and the requests *)
(* that tasks begin, abort and get back.                                   *)
(*                                                                         *)
(* exec calls DevOpen, DevClose and DevExpunge under Forbid, which every   *)
(* wait of theirs breaks: a step here ends where the code may wait, or     *)
(* where another task may come between two accesses.  Both engines have no *)
(* signals of their own (pe_SigMask is 0), so sigFunc is never called.     *)
(*                                                                         *)
(* Three races of the code end in memory that belongs to nobody or in a    *)
(* damaged list; "harm" tells which one has struck, and the model follows  *)
(* the program no further than that.                                       *)
(***************************************************************************)
EXTENDS Naturals, FiniteSets, SequencesExt

CONSTANTS
  Clients,   \* tasks that use the device, each with one request
  none, term \* nobody; the request with CMD_TERM

ASSUME ClientsAssumption ==
  /\ IsFiniteSet(Clients) /\ none # term
  /\ {none, term, "worker"} \cap Clients = {} /\ none # "worker"

VARIABLES
  engine,  \* which device it is: "box" or "net"
  base,    \* the library base is loaded
  delexp,  \* LIBF_DELEXP
  libOpen, \* lib_OpenCnt
  devSem,  \* holder of devSem
  unit,    \* the unit is allocated
  openCnt, \* its openCnt
  sem,     \* holder of the worker's semaphore
  port,    \* the worker's port
  portSig, \* the port's signal
  worker,  \* where the worker task is
  taken,   \* the request it has taken from the port
  pc,      \* where each client is
  req,     \* where each client's request is
  harm     \* ghost: subset of {"base", "unit", "request"}

library == <<engine, base, delexp, libOpen, devSem>>
queue == <<port, portSig>>
vars == <<library, unit, openCnt, sem, queue, worker, taken, pc, req, harm>>

WorkerPcs == {"none", "init", "failed", "wait", "drain", "obtain", "engine",
              "reply", "exiting", "clearing"}
Pcs == {"closed", "getdev", "starting", "openfn", "inopen", "undo", "undoterm",
        "open", "engine", "abort",
        "getclose", "closefn", "inclose", "stop", "stopterm"}
Places == {"mine", "quick", "direct", "queued", "taken", "replied"}

Goto(c, there) == pc' = [pc EXCEPT ![c] = there]
Move(c, there) == req' = [req EXCEPT ![c] = there]
Waiting == {c \in Clients : pc[c] = "getdev"}

------------------------------------------------------------------------------
(* The library.                                                             *)

(* exec loads the device again: DevInit.                                    *)
DevInit ==
  /\ ~base /\ base' = TRUE
  /\ delexp' = FALSE /\ libOpen' = 0 /\ devSem' = none
  /\ UNCHANGED <<engine, unit, openCnt, sem, queue, worker, taken, pc, req, harm>>

(* The base is freed, while tasks may wait for the semaphore in it.         *)
FreeBase ==
  /\ base' = FALSE
  /\ harm' = IF Waiting # {} THEN harm \cup {"base"} ELSE harm

DevExpunge ==
  /\ base
  /\ IF libOpen > 0 THEN delexp' = TRUE /\ UNCHANGED <<base, harm>>
                    ELSE FreeBase /\ UNCHANGED delexp
  /\ UNCHANGED <<engine, libOpen, devSem, unit, openCnt, sem, queue, worker, taken,
                 pc, req>>

DevOpen(c) ==
  /\ base /\ pc[c] = "closed"
  /\ Goto(c, "getdev")
  /\ UNCHANGED <<library, unit, openCnt, sem, queue, worker, taken, req, harm>>

(* A unit number above 0, PAMOF_BOOTLOADER (lib_OpenCnt is never 0 where it *)
(* is tested), no memory, signal or task.                                   *)
RefuseOpen(c) ==
  /\ pc[c] = "getdev" /\ devSem = none
  /\ Goto(c, "closed")
  /\ UNCHANGED <<library, unit, openCnt, sem, queue, worker, taken, req, harm>>

EnterOpen(c) ==
  /\ pc[c] = "getdev" /\ devSem = none
  /\ devSem' = c /\ libOpen' = libOpen + 1
  /\ UNCHANGED <<engine, base, delexp, openCnt, taken, req, harm>>

FindUnit(c) ==
  /\ EnterOpen(c) /\ unit
  /\ Goto(c, "openfn")
  /\ UNCHANGED <<unit, sem, queue, worker>>

(* UnitOpen makes the unit and DevWorkerStart its task.                     *)
MakeUnit(c) ==
  /\ EnterOpen(c) /\ ~unit
  /\ unit' = TRUE /\ worker' = "init" /\ sem' = none
  /\ port' = <<>> /\ portSig' = FALSE
  /\ Goto(c, "starting")

(* DevOpen fails or DevClose ends, and the device is given free.            *)
LeaveDevice(c) ==
  /\ devSem' = none /\ libOpen' = libOpen - 1
  /\ Goto(c, "closed")

Started(c) ==
  /\ pc[c] = "starting" /\ worker = "wait"
  /\ Goto(c, "openfn")
  /\ UNCHANGED <<library, unit, openCnt, sem, queue, worker, taken, req, harm>>

(* FreeVec of the unit, in which the worker is, at its end or not.          *)
FreeUnit ==
  /\ unit' = FALSE /\ worker' = "none"
  /\ harm' = IF worker # "none" THEN harm \cup {"unit"} ELSE harm

StartFailed(c) ==
  /\ pc[c] = "starting" /\ worker \in {"failed", "none"}
  /\ FreeUnit /\ LeaveDevice(c)
  /\ UNCHANGED <<engine, base, delexp, openCnt, sem, queue, taken, req>>

(* ObtainSemaphore in DevWorkerOpen and DevWorkerClose.                     *)
ObtainSem(c) ==
  /\ pc[c] \in {"openfn", "closefn"} /\ sem = none
  /\ sem' = c
  /\ Goto(c, IF pc[c] = "openfn" THEN "inopen" ELSE "inclose")
  /\ UNCHANGED <<library, unit, openCnt, queue, worker, taken, req, harm>>

(* The functions that pambox and pamnet give their engine; one that is not  *)
(* there fails.                                                             *)
BoxFunctions == {"init", "exit", "open", "close", "signals", "begin", "abort"}
NetFunctions == {"init", "exit"}
EngineHas(func) ==
  func \in IF engine = "box" THEN BoxFunctions ELSE NetFunctions

(* pam_engine_open fails without a function; pambox opens for everybody.    *)
EngineOpens == EngineHas("open")

(* Even a failed open counts while others have the unit open.               *)
OpenFunc(c) ==
  /\ pc[c] = "inopen"
  /\ sem' = none
  /\ IF EngineOpens \/ openCnt > 0
     THEN /\ openCnt' = openCnt + 1 /\ delexp' = FALSE /\ devSem' = none
          /\ Goto(c, "open")
     ELSE /\ Goto(c, "undo")
          /\ UNCHANGED <<openCnt, delexp, devSem>>
  /\ UNCHANGED <<engine, base, libOpen, unit, queue, worker, taken, req, harm>>

(* The owner of a request closes once it has it back.                       *)
DevClose(c) ==
  /\ pc[c] = "open" /\ req[c] = "mine"
  /\ Goto(c, "getclose")
  /\ UNCHANGED <<library, unit, openCnt, sem, queue, worker, taken, req, harm>>

EnterClose(c) ==
  /\ pc[c] = "getclose" /\ devSem = none
  /\ devSem' = c
  /\ Goto(c, "closefn")
  /\ UNCHANGED <<engine, base, delexp, libOpen, unit, openCnt, sem, queue, worker,
                 taken, req, harm>>

(* Mutant of CloseFunc: the last close leaves the unit.                     *)
CloseFuncKeepsUnit(c) ==
  /\ pc[c] = "inclose"
  /\ sem' = none
  /\ openCnt' = openCnt - 1
  /\ LeaveDevice(c)
  /\ UNCHANGED <<engine, base, delexp, unit, queue, worker, taken, req, harm>>

CloseFunc(c) ==
  /\ pc[c] = "inclose"
  /\ sem' = none
  /\ openCnt' = openCnt - 1
  /\ IF openCnt = 1
     THEN Goto(c, "stop") /\ UNCHANGED <<libOpen, devSem>>
     ELSE LeaveDevice(c)
  /\ UNCHANGED <<engine, base, delexp, unit, queue, worker, taken, req, harm>>

------------------------------------------------------------------------------
(* DevWorkerStop.                                                           *)
Stop(c) ==
  /\ pc[c] \in {"undo", "stop"}
  /\ port' = Append(port, term) /\ portSig' = TRUE
  /\ Goto(c, IF pc[c] = "undo" THEN "undoterm" ELSE "stopterm")
  /\ UNCHANGED <<library, unit, openCnt, sem, worker, taken, req, harm>>

Terminated == worker \in {"exiting", "clearing", "none"}

StoppedOpen(c) ==
  /\ pc[c] = "undoterm" /\ Terminated
  /\ FreeUnit /\ LeaveDevice(c)
  /\ UNCHANGED <<engine, base, delexp, openCnt, sem, queue, taken, req>>

(* A delayed expunge follows the last close.                                *)
StoppedClose(c) ==
  /\ pc[c] = "stopterm" /\ Terminated
  /\ unit' = FALSE /\ worker' = "none"
  /\ LeaveDevice(c)
  /\ base' = ~(delexp /\ libOpen = 1)
  /\ harm' = harm \cup (IF worker # "none" THEN {"unit"} ELSE {})
                  \cup (IF ~base' /\ Waiting # {} THEN {"base"} ELSE {})
  /\ UNCHANGED <<engine, delexp, openCnt, sem, queue, taken, req>>

------------------------------------------------------------------------------
(* Requests.                                                                *)

(* Mutant of QueueIO: the request keeps IOF_QUICK, so its owner takes it    *)
(* for done.                                                                *)
QueueIOQuick(c) ==
  /\ pc[c] = "open" /\ req[c] = "mine" /\ sem # none
  /\ port' = Append(port, c) /\ portSig' = TRUE
  /\ UNCHANGED <<library, unit, openCnt, sem, worker, taken, pc, req, harm>>

(* DevWorkerBeginIO: to the worker while another has the semaphore,         *)
QueueIO(c) ==
  /\ pc[c] = "open" /\ req[c] = "mine" /\ sem # none
  /\ port' = Append(port, c) /\ portSig' = TRUE
  /\ Move(c, "queued")
  /\ UNCHANGED <<library, unit, openCnt, sem, worker, taken, pc, harm>>

(* and straight to the engine otherwise, past what lies in the port.        *)
BeginIO(c) ==
  /\ pc[c] = "open" /\ req[c] = "mine" /\ sem = none
  /\ sem' = c
  /\ \E flag \in {"quick", "direct"} : Move(c, flag)
  /\ Goto(c, "engine")
  /\ UNCHANGED <<library, unit, openCnt, queue, worker, taken, harm>>

(* pam_engine_begin_io: pambox has nothing to wait for.                     *)
EngineDone == EngineHas("begin")

EndIO(c) ==
  /\ pc[c] = "engine"
  /\ sem' = none
  /\ Move(c, CASE ~EngineDone -> "direct"
               [] req[c] = "quick" -> "mine"
               [] OTHER -> "replied")
  /\ Goto(c, "open")
  /\ UNCHANGED <<library, unit, openCnt, queue, worker, taken, harm>>

(* The owner takes the reply from its own port.                             *)
TakeReply(c) ==
  /\ pc[c] = "open" /\ req[c] = "replied"
  /\ Move(c, "mine")
  /\ UNCHANGED <<library, unit, openCnt, sem, queue, worker, taken, pc, harm>>

(* DevWorkerAbortIO tests the type of the node before it waits; GetMsg does *)
(* not change that type.                                                    *)
AbortIO(c) ==
  /\ pc[c] = "open" /\ req[c] \in {"queued", "taken"}
  /\ Goto(c, "abort")
  /\ UNCHANGED <<library, unit, openCnt, sem, queue, worker, taken, req, harm>>

(* Remove and ReplyMsg, wherever the request is by then: in the port, in no *)
(* list because the worker has it, or already in the owner's port.          *)
RemoveIO(c) ==
  /\ pc[c] = "abort" /\ sem = none
  /\ port' = RemoveFirst(port, c)
  /\ Move(c, "replied")
  /\ harm' = IF req[c] = "taken" THEN harm \cup {"request"} ELSE harm
  /\ Goto(c, "open")
  /\ UNCHANGED <<library, unit, openCnt, sem, portSig, worker, taken>>

------------------------------------------------------------------------------
(* The worker task: worker_main.                                            *)
WorkerInit ==
  /\ worker = "init"
  /\ worker' \in {"wait", "failed"}
  /\ UNCHANGED <<library, unit, openCnt, sem, queue, taken, pc, req, harm>>

WorkerWake ==
  /\ worker = "wait" /\ portSig
  /\ portSig' = FALSE /\ worker' = "drain"
  /\ UNCHANGED <<library, unit, openCnt, sem, port, taken, pc, req, harm>>

GetMsg ==
  /\ worker = "drain" /\ port # <<>>
  /\ port' = Tail(port)
  /\ IF Head(port) = term
     THEN worker' = "exiting" /\ UNCHANGED <<taken, req>>
     ELSE /\ worker' = "obtain" /\ taken' = Head(port)
          /\ Move(Head(port), "taken")
  /\ UNCHANGED <<library, unit, openCnt, sem, portSig, pc, harm>>

NoMsg ==
  /\ worker = "drain" /\ port = <<>>
  /\ worker' = "wait"
  /\ UNCHANGED <<library, unit, openCnt, sem, queue, taken, pc, req, harm>>

WorkerObtain ==
  /\ worker = "obtain" /\ sem = none
  /\ sem' = "worker" /\ worker' = "engine"
  /\ UNCHANGED <<library, unit, openCnt, queue, taken, pc, req, harm>>

WorkerRelease ==
  /\ worker = "engine"
  /\ sem' = none
  /\ worker' = IF EngineDone THEN "reply" ELSE "drain"
  /\ taken' = IF EngineDone THEN taken ELSE none
  /\ UNCHANGED <<library, unit, openCnt, queue, pc, req, harm>>

(* Mutant of WorkerReply: one message for each signal.                      *)
WorkerReplyOne ==
  /\ worker = "reply"
  /\ Move(taken, "replied")
  /\ taken' = none /\ worker' = "wait"
  /\ UNCHANGED <<library, unit, openCnt, sem, queue, pc, harm>>

WorkerReply ==
  /\ worker = "reply"
  /\ Move(taken, "replied")
  /\ taken' = none /\ worker' = "drain"
  /\ UNCHANGED <<library, unit, openCnt, sem, queue, pc, harm>>

(* After the reply to CMD_TERM: the engine is deleted, then the port, and   *)
(* the worker's last access to its unit clears the port's pointer.          *)
ExitFunc ==
  /\ worker = "exiting" /\ worker' = "clearing"
  /\ UNCHANGED <<library, unit, openCnt, sem, queue, taken, pc, req, harm>>

ClearPort ==
  /\ worker \in {"clearing", "failed"} /\ worker' = "none"
  /\ UNCHANGED <<library, unit, openCnt, sem, queue, taken, pc, req, harm>>

------------------------------------------------------------------------------
Init ==
  /\ engine \in {"box", "net"}
  /\ base = FALSE /\ delexp = FALSE /\ libOpen = 0 /\ devSem = none
  /\ unit = FALSE /\ openCnt = 0
  /\ sem = none /\ port = <<>> /\ portSig = FALSE
  /\ worker = "none" /\ taken = none
  /\ pc = [c \in Clients |-> "closed"] /\ req = [c \in Clients |-> "mine"]
  /\ harm = {}

(* What a client calls, and what a call does until it returns.              *)
Calls(c) == DevOpen(c) \/ DevClose(c) \/ QueueIO(c) \/ BeginIO(c) \/ TakeReply(c)
            \/ AbortIO(c)
EntersOrLeaves(c) == RefuseOpen(c) \/ FindUnit(c) \/ MakeUnit(c) \/ EnterClose(c)
Uses(c) == ObtainSem(c) \/ RemoveIO(c)
Works(c) == Started(c) \/ StartFailed(c) \/ OpenFunc(c) \/ CloseFunc(c) \/ EndIO(c)
            \/ Stop(c) \/ StoppedOpen(c) \/ StoppedClose(c)
WorkerWorks == WorkerInit \/ WorkerWake \/ GetMsg \/ NoMsg \/ WorkerRelease
               \/ WorkerReply \/ ExitFunc \/ ClearPort

Next ==
  /\ harm = {}
  /\ \/ DevInit \/ DevExpunge \/ WorkerWorks \/ WorkerObtain
     \/ \E c \in Clients : Calls(c) \/ EntersOrLeaves(c) \/ Uses(c) \/ Works(c)

Spec == Init /\ [][Next]_vars

(* Every task runs, and a semaphore of exec is given to those that wait for *)
(* it in their order: nobody waits for one for ever that becomes free again *)
(* and again.                                                               *)
Running(A) == harm = {} /\ A
Fairness ==
  /\ WF_vars(Running(WorkerWorks)) /\ SF_vars(Running(WorkerObtain))
  /\ \A c \in Clients :
       /\ WF_vars(Running(Works(c)))
       /\ SF_vars(Running(EntersOrLeaves(c))) /\ SF_vars(Running(Uses(c)))

LiveSpec == Spec /\ Fairness

------------------------------------------------------------------------------
Opened == {c \in Clients : pc[c] \in {"open", "engine", "abort", "getclose",
                                      "closefn", "inclose"}}
Inside == {c \in Clients : pc[c] \in {"starting", "openfn", "inopen", "undo",
                                      "undoterm", "stop", "stopterm"}}

(* A request is where its owner takes it to be, and in one place only:      *)
(* queued once in the worker's port, in the worker's hands, or back.  The   *)
(* engine is held by who is in it and by nobody else.                       *)
OneOwner ==
  harm = {} =>
    \A c \in Clients :
      /\ Cardinality({i \in DOMAIN port : port[i] = c}) =
           IF req[c] = "queued" THEN 1 ELSE 0
      /\ (taken = c) <=> req[c] = "taken"
      /\ req[c] \in {"quick", "direct"} <=> pc[c] = "engine"
      /\ (sem = c) <=> pc[c] \in {"inopen", "inclose", "engine"}

(* Whoever has the device open has a unit and a worker that serves it: the  *)
(* unit is not stopped by a close, nor by an open that fails, while another *)
(* task has got it, or waits in the middle of opening it.  And the last one *)
(* leaves no unit behind that would keep the parallel port.                 *)
UnitInUse ==
  harm = {} =>
    /\ openCnt = Cardinality(Opened)
    /\ libOpen = Cardinality(Opened \cup Inside)
    /\ Cardinality(Inside) <= 1
    /\ unit => Opened \cup Inside # {}
    /\ Opened # {} => /\ base /\ unit /\ term \notin Range(port)
                      /\ worker \in {"wait", "drain", "obtain", "engine", "reply"}

(* Every open, close and abort returns, and every request comes back,       *)
(* unless harm is done before.                                              *)
CallsEnd ==
  \A c \in Clients :
    /\ pc[c] \notin {"closed", "open"} ~> (pc[c] \in {"closed", "open"} \/ harm # {})
    /\ req[c] # "mine" ~> (req[c] \in {"mine", "replied"} \/ harm # {})

==============================================================================
