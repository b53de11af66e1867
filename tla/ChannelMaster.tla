---------------------------- MODULE ChannelMaster ----------------------------
(***************************************************************************)
(* The channel handles of the Amiga: amiga/src/pamela/channel.c and        *)
(* channel_ops.c, together with the device of ChannelDevice.               *)
(*                                                                         *)
(* One Amiga task owns the parallel port.  It calls channel_work for one   *)
(* handle after the other, and the rest of the API in between; a call of   *)
(* channel_work is one step per protocol command, so that the handlers, a  *)
(* restart or the BUSY line can come between any two of them.              *)
(***************************************************************************)
EXTENDS ChannelDevice

CONSTANTS
  Handles,      \* channel numbers that have a channel_handle_t
  OffsetMode,   \* channels whose handler has CHANNEL_MODE_OFFSET
  Msgs,         \* channel_message_t: [id, op, num, off]
  NoMsg,        \* tr_msg = NULL
  MaxFaults     \* bound: commands that go wrong in a running device

ASSUME HandlesAssumption == Handles \subseteq Ids \cap (0 .. MaxChannel - 1)
ASSUME ModeAssumption == OffsetMode \subseteq Channels
ASSUME MsgsAssumption ==
  /\ NoMsg \notin Msgs
  /\ \A m \in Msgs : /\ m.op \in {"RX", "TX"}
                     /\ m.num \in 0 .. MaxWords
                     /\ m.off \in Offsets
ASSUME FaultsAssumption == MaxFaults \in Nat

States == {"OPEN", "IDLE", "TRANSFER", "CANCEL", "CLOSE", "ERROR", "RESET",
           "POLL", "CLOSED"}
MsgResults == {"OK", "CANCEL", "MSG_SIZE_MISMATCH"}
UWORD == 0 .. 65535
ProtoResults == {"OK", "BUSY", "TIMEOUT"}   \* TIMEOUT: and RAK_INVALID

VARIABLES
  ch,      \* struct channel_handle of every handle
  work,    \* the handle channel_work runs for, and its next command
  mres,    \* result and got_words of every message
  due,     \* history: messages accepted and not yet given back
  moved,   \* history: words the protocol confirmed for the current message
  session, \* history: how far the open of every handle got: "none", "acted"
           \* once the device was told, "open" once channel_open is through
  stray,   \* "no"; "now": payload lies on the bus that the device takes for
           \* a command; "past": and it did
  faults   \* commands that went wrong so far

apiVars == <<ch, mres, due, moved>>
histVars == <<session, stray, faults>>
vars == <<devVars, ch, work, mres, due, moved, session, stray, faults>>

------------------------------------------------------------------------------
ClosedHandle ==
  [state |-> "CLOSED", mtu |-> 0, offset_mode |-> FALSE,
   tr_words |-> 0, tr_msg |-> NoMsg]

Init ==
  /\ DevInit
  /\ ch = [c \in Handles |-> ClosedHandle]
  /\ work = [c |-> 0, pc |-> "none"]
  /\ mres = [m \in Msgs |-> [result |-> "OK", got_words |-> 0]]
  /\ due = [c \in Handles |-> {}]
  /\ moved = [c \in Handles |-> 0]
  /\ session = [c \in Handles |-> "none"]
  /\ stray = "no"
  /\ faults = 0

(* Mutant of TransferPc: the offset is left to the device.                  *)
TransferPcNoOffset(r) == IF r.tr_words # 0 THEN "chunk" ELSE "size"

(* channel_op_transfer: a message with words left goes on with its chunks.  *)
TransferPc(r) ==
  IF r.tr_words # 0 THEN "chunk"
  ELSE IF r.offset_mode THEN "offset" ELSE "size"

(* Mutant of FirstPc: the reset of a channel relies on the channel that was *)
(* selected last.                                                           *)
FirstPcResetSelected(r) ==
  CASE r.state \in {"OPEN", "CLOSE"} -> "index"
    [] r.state = "RESET" -> "act"
    [] r.state = "POLL" -> "check"
    [] r.state = "CANCEL" -> "cancel"
    [] r.state = "TRANSFER" -> TransferPc(r)

FirstPc(r) ==
  CASE r.state \in {"OPEN", "CLOSE", "RESET"} -> "index"
    [] r.state = "POLL" -> "check"
    [] r.state = "CANCEL" -> "cancel"
    [] r.state = "TRANSFER" -> TransferPc(r)

(* The state that channel_work enters when the operation succeeds.          *)
Target(state) == IF state \in {"CLOSE", "RESET"} THEN "CLOSED" ELSE "IDLE"

(* Mutant of AfterWork: every failed command is tried again.                *)
AfterWorkRetries(r, result) ==
  CASE result = "OK" -> [r EXCEPT !.state = Target(r.state)]
    [] result \in {"STAY", "BUSY", "TIMEOUT"} -> r
    [] OTHER -> [r EXCEPT !.state = "ERROR"]

(* The end of channel_work: what becomes of handle r when its operation     *)
(* returned result, BUSY being PROTO_ERROR with proto_error DEVICE_BUSY and *)
(* TIMEOUT any other PROTO_ERROR.                                           *)
AfterWork(r, result) ==
  CASE result = "OK" -> [r EXCEPT !.state = Target(r.state)]
    [] result \in {"STAY", "BUSY"} -> r
    [] OTHER -> [r EXCEPT !.state = "ERROR"]

Running(c, pc) == work = [c |-> c, pc |-> pc]

Proceed(c, r, pc) ==
  /\ ch' = [ch EXCEPT ![c] = r]
  /\ work' = [c |-> c, pc |-> pc]
  /\ UNCHANGED session

Finish(c, r, result) ==
  /\ ch' = [ch EXCEPT ![c] = AfterWork(r, result)]
  /\ work' = [c |-> 0, pc |-> "none"]
  /\ session' = [session EXCEPT ![c] =
                    IF r.state = "OPEN" /\ result = "OK" THEN "open" ELSE @]

(* A message leaves the driver: it gets its result, the words not moved are *)
(* taken off got_words (a UWORD), and transfer_cb hands it back.            *)
Report(c, result, got) ==
  LET m == ch[c].tr_msg
      r == [ch[c] EXCEPT !.tr_words = 0, !.tr_msg = NoMsg]
  IN /\ mres' = [mres EXCEPT ![m] = [result |-> result,
                                     got_words |-> got % 65536]]
     /\ due' = [due EXCEPT ![c] = @ \ {m}]
     /\ Finish(c, r, IF result = "CANCEL" THEN "OK" ELSE result)

------------------------------------------------------------------------------
(* One protocol command, cmd being what it does on the device and res what  *)
(* the Amiga gets to know of it.  A device that is up carries it out.  It   *)
(* is refused while BUSY is up, and times out when the device hangs or is   *)
(* still in knok mode.  A bounded number of times a command goes wrong:     *)
(* its end comes too late, BUSY rises while the device already works on it, *)
(* or the firmware hangs.  A handler that hangs after RAK went low, as that *)
(* of an action or of a write does (told), looks like success if the        *)
(* watchdog, which releases RAK, is faster than the Amiga's timeout.        *)
HangResults(told) == IF told THEN {"TIMEOUT", "OK"} ELSE {"TIMEOUT"}

Sends(told, cmd, res) ==
  \/ /\ mcu = "run" /\ busy = 0 /\ cmd
     /\ res \in IF mcu' = "run" THEN {"OK"} ELSE HangResults(told)
     /\ UNCHANGED faults
  \/ /\ busy # 0 /\ res = "BUSY"
     /\ UNCHANGED <<devVars, faults>>
  \/ /\ mcu # "run" /\ res = "TIMEOUT"
     /\ UNCHANGED <<devVars, faults>>
  \/ /\ mcu = "run" /\ faults < MaxFaults /\ cmd
     /\ res \in {"TIMEOUT", "BUSY"}
     /\ faults' = faults + 1
  \/ /\ mcu = "run" /\ faults < MaxFaults /\ res \in HangResults(told)
     /\ mcu' = "hung"
     /\ faults' = faults + 1
     /\ UNCHANGED <<chan, sel, status, busy, hnd>>

(* A command of channel_op_open, _close, _reset or _poll: any failure ends  *)
(* the operation.                                                           *)
Told == {"index", "set_mtu", "set_words", "act"}

OpCommand(c, pc, cmd, done) ==
  /\ Running(c, pc)
  /\ \E res \in ProtoResults :
       /\ Sends(pc \in Told, cmd, res)
       /\ IF res = "OK" THEN done ELSE Finish(c, ch[c], res)
  /\ UNCHANGED <<mres, due, moved, stray>>

------------------------------------------------------------------------------
(* channel_work: nothing to do in CLOSED and IDLE, and only the state       *)
(* callback in ERROR.                                                       *)
StartWork(c) ==
  /\ work.pc = "none"
  /\ ch[c].state \notin {"CLOSED", "IDLE", "ERROR"}
  /\ work' = [c |-> c, pc |-> FirstPc(ch[c])]
  /\ UNCHANGED <<devVars, apiVars, histVars>>

(* Mutant of WorkIndex: does not look at the result of set_channel_index.   *)
WorkIndexUnchecked(c) ==
  /\ Running(c, "index")
  /\ \E res \in ProtoResults : Sends(TRUE, SelectChannel(c), res)
  /\ Proceed(c, ch[c], IF ch[c].state = "RESET" THEN "act" ELSE "state")
  /\ UNCHANGED <<mres, due, moved, stray>>

(* set_channel_index: the commands that follow go to the selected channel.  *)
WorkIndex(c) ==
  OpCommand(c, "index", SelectChannel(c),
            Proceed(c, ch[c], IF ch[c].state = "RESET" THEN "act" ELSE "state"))

(* The state a channel must have before it can be opened or closed.  What   *)
(* channel_open was asked for, an MTU or a number of words or none (0), is  *)
(* chosen where it is used.                                                 *)
WorkState(c) ==
  LET opening == ch[c].state = "OPEN"
      wanted == IF opening THEN "AVAILABLE" ELSE "READY"
  IN OpCommand(c, "state", ReadChannel(sel),
       IF chan[sel].dev_state # wanted
       THEN Finish(c, ch[c], IF opening THEN "OPEN_FAILED" ELSE "CLOSE_FAILED")
       ELSE \E pc \in IF opening THEN {"set_mtu", "get_mtu"} ELSE {"act"} :
              Proceed(c, ch[c], pc))

WorkSetMtu(c) ==
  OpCommand(c, "set_mtu", SetMtu(sel), Proceed(c, ch[c], "get_mtu"))

WorkGetMtu(c) ==
  OpCommand(c, "get_mtu", ReadChannel(sel),
    \E pc \in {"set_words", "get_words"} :
      Proceed(c, [ch[c] EXCEPT !.mtu = chan[sel].mtu], pc))

(* The device ignores the request for a number of words: proto_api.c knows  *)
(* no PROTO_WFUNC_WRITE_CHN_MAX_WORDS.                                      *)
WorkSetWords(c) ==
  OpCommand(c, "set_words", UNCHANGED devVars, Proceed(c, ch[c], "get_words"))

WorkGetWords(c) ==
  OpCommand(c, "get_words", ReadChannel(sel), Proceed(c, ch[c], "get_mode"))

WorkGetMode(c) ==
  OpCommand(c, "get_mode", ReadChannel(sel),
    Proceed(c, [ch[c] EXCEPT !.offset_mode = sel \in OffsetMode], "act"))

WorkAct(c) ==
  OpCommand(c, "act",
    IF ch[c].state = "OPEN" THEN OpenChannel(sel) ELSE CloseChannel(sel),
    /\ ch' = ch
    /\ work' = [c |-> c, pc |-> "check"]
    /\ session' = [session EXCEPT ![c] =
                      IF ch[c].state = "OPEN" THEN "acted" ELSE @])

(* The state of the device after the operation; all there is of a poll,     *)
(* which asks for the channel that was selected last.                       *)
CheckResult(op, dev_state) ==
  CASE op = "OPEN" -> IF dev_state = "READY" THEN "OK" ELSE "OPEN_FAILED"
    [] op = "CLOSE" -> IF dev_state = "AVAILABLE" THEN "OK" ELSE "CLOSE_FAILED"
    [] op = "RESET" -> IF dev_state = "AVAILABLE" THEN "OK" ELSE "RESET_FAILED"
    [] op = "POLL" -> CASE dev_state = "AVAILABLE" -> "STATE_MISMATCH"
                        [] dev_state = "READY" -> "OK"
                        [] dev_state = "ERROR" -> "DEVICE_ERROR"

WorkCheck(c) ==
  OpCommand(c, "check", ReadChannel(sel),
            Finish(c, ch[c], CheckResult(ch[c].state, chan[sel].dev_state)))

------------------------------------------------------------------------------
(* channel_op_transfer.  The test of its comment "transform device busy"    *)
(* is an assignment: whatever the protocol reports becomes BUSY, and the    *)
(* transfer stays to be tried again.                                        *)
TransferFailed(c, res) ==
  Finish(c, ch[c], IF res \in {"BUSY", "TIMEOUT"} THEN "STAY" ELSE res)

WorkOffset(c) ==
  /\ Running(c, "offset")
  /\ \E res \in ProtoResults :
       /\ Sends(TRUE, SetOffset(c, ch[c].tr_msg.off), res)
       /\ IF res = "OK" THEN Proceed(c, ch[c], "size") ELSE TransferFailed(c, res)
  /\ UNCHANGED <<mres, due, moved, stray>>

(* The message's size is n: from here on got_words counts down to it.       *)
SizeKnown(c, n) ==
  LET m == ch[c].tr_msg
  IN IF n = 0
     THEN Report(c, "OK", 0)
     ELSE /\ Proceed(c, [ch[c] EXCEPT !.tr_words = n], "chunk")
          /\ mres' = [mres EXCEPT ![m].got_words = n]
          /\ UNCHANGED due

(* A read learns the size from the device: one too large for the message    *)
(* is reported without having set got_words.                                *)
WorkRxSize(c) ==
  LET m == ch[c].tr_msg
  IN /\ Running(c, "size") /\ m.op = "RX"
     /\ \E res \in ProtoResults, n \in 0 .. MaxWords :
          /\ Sends(FALSE, ReadBegin(c, n), res)
          /\ IF res # "OK"
             THEN TransferFailed(c, res) /\ UNCHANGED <<mres, due>>
             ELSE LET size == RxAnswer(c, n)
                  IN IF size > m.num
                     THEN Report(c, "MSG_SIZE_MISMATCH",
                                 mres[m].got_words - size)
                     ELSE SizeKnown(c, size)
     /\ UNCHANGED <<moved, stray>>

(* A write announces its size; the Amiga is not told when the device        *)
(* refuses it.                                                              *)
WorkTxSize(c) ==
  LET m == ch[c].tr_msg
  IN /\ Running(c, "size") /\ m.op = "TX"
     /\ \E res \in ProtoResults :
          /\ Sends(TRUE, WriteBegin(c, m.num), res)
          /\ IF res = "OK" THEN SizeKnown(c, m.num)
             ELSE TransferFailed(c, res) /\ UNCHANGED <<mres, due>>
     /\ UNCHANGED <<moved, stray>>

ChunkSize(c) == Least(ch[c].tr_words, ch[c].mtu)

(* proto_low_write_block and _read_block count down to zero: with no word   *)
(* to move they move 65536.                                                 *)
WordsOnBus(size) == IF size = 0 THEN 65536 ELSE size

ChunkMoved(c) ==
  LET left == ch[c].tr_words - ChunkSize(c)
      r == [ch[c] EXCEPT !.tr_words = left]
  IN /\ moved' = [moved EXCEPT ![c] = @ + ChunkSize(c)]
     /\ IF left = 0
        THEN Report(c, "OK", mres[ch[c].tr_msg].got_words)
        ELSE Finish(c, r, "STAY") /\ UNCHANGED <<mres, due>>

ChunkFailed(c, res) ==
  TransferFailed(c, res) /\ UNCHANGED <<mres, due, moved>>

(* Both peers expect the same number of words.                              *)
WorkChunk(c) ==
  LET dir == ch[c].tr_msg.op
  IN /\ Running(c, "chunk")
     /\ WordsOnBus(ChunkSize(c)) = ChunkWords(c, dir)
     /\ \E res \in ProtoResults :
          /\ Sends(TRUE, DataChunk(c, dir), res)
          /\ IF res = "OK" THEN ChunkMoved(c) ELSE ChunkFailed(c, res)
     /\ UNCHANGED stray

(* They do not.  A device that expects more waits for ever; so does the     *)
(* assembler build when no transfer runs, for its SPI.  Otherwise the       *)
(* device is through first, and the rest of the chunk is on the bus while   *)
(* it already looks for its next command.                                   *)
WorkChunkOutOfStep(c) ==
  LET dir == ch[c].tr_msg.op
      words == ChunkWords(c, dir)
  IN /\ Running(c, "chunk")
     /\ WordsOnBus(ChunkSize(c)) # words
     /\ \/ /\ mcu # "run" \/ busy # 0
           /\ ChunkFailed(c, IF mcu = "run" THEN "BUSY" ELSE "TIMEOUT")
           /\ UNCHANGED <<devVars, stray>>
        \/ /\ mcu = "run" /\ busy = 0
           /\ words = 0 \/ words > WordsOnBus(ChunkSize(c))
           /\ mcu' = "hung"
           /\ ChunkFailed(c, "TIMEOUT")
           /\ UNCHANGED <<chan, sel, status, busy, hnd, stray>>
        \/ /\ mcu = "run" /\ busy = 0
           /\ words < WordsOnBus(ChunkSize(c))
           /\ DataChunk(c, dir)
           /\ ChunkMoved(c) \/ ChunkFailed(c, "TIMEOUT")
           /\ stray' = "now"
     /\ UNCHANGED faults

(* What the device makes of such a rest: a command that nobody sent, or a   *)
(* code it does not know, which makes it restart.                           *)
StrayCommand ==
  /\ stray = "now"
  /\ stray' = "past"
  /\ mcu = "run"
  /\ DevCommand \/ Restart
  /\ UNCHANGED <<apiVars, work, session, faults>>

(* Mutant of WorkCancel: the words not moved stay in got_words.             *)
WorkCancelCountsAll(c) ==
  /\ Running(c, "cancel")
  /\ Report(c, "CANCEL", mres[ch[c].tr_msg].got_words)
  /\ UNCHANGED <<devVars, moved, stray, faults>>

(* channel_op_cancel: the device is not told.                               *)
WorkCancel(c) ==
  /\ Running(c, "cancel")
  /\ Report(c, "CANCEL", mres[ch[c].tr_msg].got_words - ch[c].tr_words)
  /\ UNCHANGED <<devVars, moved, stray, faults>>

------------------------------------------------------------------------------
(* The rest of the API, called by the same task between two channel_work.   *)
(* A call in a state that does not allow it returns WRONG_STATE and changes *)
(* nothing.                                                                 *)

Call(c, from, r) ==
  /\ work.pc = "none"
  /\ ch[c].state \in from
  /\ ch' = [ch EXCEPT ![c] = r]
  /\ UNCHANGED <<devVars, work, stray, faults>>

Open(c) ==
  /\ Call(c, {"CLOSED"}, [ch[c] EXCEPT !.state = "OPEN"])
  /\ UNCHANGED <<mres, due, moved, session>>

(* Mutant of Close: does not wait for the transfer.                         *)
CloseTransferring(c) ==
  /\ \/ Call(c, {"IDLE", "TRANSFER"}, [ch[c] EXCEPT !.state = "CLOSE"])
     \/ Call(c, {"OPEN"}, [ch[c] EXCEPT !.state = "IDLE"])
  /\ session' = [session EXCEPT ![c] = "none"]
  /\ UNCHANGED <<mres, due, moved>>

(* In state OPEN, which lasts while the device is busy, close only makes    *)
(* the handle IDLE.                                                         *)
Close(c) ==
  /\ \/ Call(c, {"IDLE"}, [ch[c] EXCEPT !.state = "CLOSE"])
     \/ Call(c, {"OPEN"}, [ch[c] EXCEPT !.state = "IDLE"])
  /\ session' = [session EXCEPT ![c] = "none"]
  /\ UNCHANGED <<mres, due, moved>>

(* Leaves tr_msg as it is, and its message is never given back.             *)
Reset(c) ==
  /\ Call(c, States, [ch[c] EXCEPT !.state = "RESET"])
  /\ due' = [due EXCEPT ![c] = {}]
  /\ session' = [session EXCEPT ![c] = "none"]
  /\ UNCHANGED <<mres, moved>>

(* Mutant of Poll: does not wait for the transfer.                          *)
PollTransferring(c) ==
  /\ Call(c, {"IDLE", "TRANSFER"}, [ch[c] EXCEPT !.state = "POLL"])
  /\ UNCHANGED <<mres, due, moved, session>>

Poll(c) ==
  /\ Call(c, {"IDLE"}, [ch[c] EXCEPT !.state = "POLL"])
  /\ UNCHANGED <<mres, due, moved, session>>

(* Mutant of Transfer: goes on with the words left of an earlier message.   *)
TransferKeepsWords(c, m) ==
  /\ \A d \in Handles : m \notin due[d]
  /\ Call(c, {"IDLE"}, [ch[c] EXCEPT !.state = "TRANSFER", !.tr_msg = m])
  /\ mres' = [mres EXCEPT ![m].got_words = 0]
  /\ due' = [due EXCEPT ![c] = {m}]
  /\ moved' = [moved EXCEPT ![c] = 0]
  /\ UNCHANGED session

(* The caller hands in a message that it owns, with got_words cleared, as   *)
(* the initializers of the tests do (pamela-testsuite.c:194).               *)
Transfer(c, m) ==
  /\ \A d \in Handles : m \notin due[d]
  /\ Call(c, {"IDLE"}, [ch[c] EXCEPT !.state = "TRANSFER", !.tr_msg = m,
                                     !.tr_words = 0])
  /\ mres' = [mres EXCEPT ![m].got_words = 0]
  /\ due' = [due EXCEPT ![c] = {m}]
  /\ moved' = [moved EXCEPT ![c] = 0]
  /\ UNCHANGED session

Cancel(c, m) ==
  /\ ch[c].tr_msg = m
  /\ Call(c, {"TRANSFER"}, [ch[c] EXCEPT !.state = "CANCEL"])
  /\ UNCHANGED <<mres, due, moved, session>>

------------------------------------------------------------------------------
(* What happens to the device beside the commands of the handles.  RxPending *)
(* is left to ChannelDevice: no handle reads the status word.               *)

DeviceHandler ==
  /\ (\E c \in Channels : HandlerError(c)) \/ SetBusy \/ ClrBusy
  /\ UNCHANGED <<apiVars, work, histVars>>

DeviceRestart ==
  /\ Restart
  /\ session' = [c \in Handles |-> "none"] /\ stray' = "no"
  /\ UNCHANGED <<apiVars, work, faults>>

(* proto_reset of the application; no handle hears of it.                   *)
DeviceReset ==
  /\ work.pc = "none"
  /\ ResetCommand
  /\ session' = [c \in Handles |-> "none"] /\ stray' = "no"
  /\ UNCHANGED <<apiVars, work, faults>>

StrayStep == work.pc = "none" /\ StrayCommand

WorkStep(c) ==
  \/ WorkIndex(c) \/ WorkState(c) \/ WorkSetMtu(c) \/ WorkGetMtu(c)
  \/ WorkSetWords(c) \/ WorkGetWords(c) \/ WorkGetMode(c) \/ WorkAct(c)
  \/ WorkCheck(c) \/ WorkOffset(c) \/ WorkRxSize(c) \/ WorkTxSize(c)
  \/ WorkChunk(c) \/ WorkChunkOutOfStep(c) \/ WorkCancel(c)

ApiCall(c) ==
  \/ Open(c) \/ Close(c) \/ Reset(c) \/ Poll(c)
  \/ \E m \in Msgs : Transfer(c, m) \/ Cancel(c, m)

DeviceStep == DeviceHandler \/ DeviceRestart \/ DeviceReset \/ StrayStep

Next ==
  \/ \E c \in Handles : StartWork(c) \/ WorkStep(c) \/ ApiCall(c)
  \/ DeviceStep

Spec == Init /\ [][Next]_vars

------------------------------------------------------------------------------
(* Properties.                                                              *)

AfterIndex ==   \* commands for the channel that "index" has selected
  {"state", "set_mtu", "get_mtu", "set_words", "get_words", "get_mode", "act"}
Pcs == AfterIndex \cup
  {"none", "index", "check", "offset", "size", "chunk", "cancel"}

HandleRecord ==
  [state : States, mtu : {0} \cup Mtus, offset_mode : BOOLEAN,
   tr_words : 0 .. MaxWords, tr_msg : Msgs \cup {NoMsg}]

(* Every variable of the driver stays in the range of its C type.           *)
TypeOK ==
  /\ DevTypeOK
  /\ ch \in [Handles -> HandleRecord]
  /\ work \in [c : Handles \cup {0}, pc : Pcs]
  /\ mres \in [Msgs -> [result : MsgResults, got_words : UWORD]]
  /\ due \in [Handles -> SUBSET Msgs]
  /\ moved \in [Handles -> Nat]
  /\ session \in [Handles -> {"none", "acted", "open"}]
  /\ stray \in {"no", "now", "past"}
  /\ faults \in 0 .. MaxFaults

(* The handle owns exactly the message it is to move or to cancel, and none *)
(* in any other state: with Report taking it away, every accepted message   *)
(* that is not abandoned by channel_reset is handed back exactly once, and  *)
(* never one that the caller already owns again.                            *)
OwnsWhatItMoves ==
  \A c \in Handles :
    due[c] = IF ch[c].state \in {"TRANSFER", "CANCEL"} THEN {ch[c].tr_msg} ELSE {}

(* A handle whose open succeeded, and that was not closed or reset since,   *)
(* has an open channel on the device, whatever became of the other handles, *)
(* of faults and of repeated commands; unless payload was taken for         *)
(* commands.                                                                *)
OpenedIsOpen ==
  \A c \in Handles :
    session[c] # "none" /\ mcu = "run" /\ stray = "no"
      => c \in Channels /\ chan[c].dev_state \in {"READY", "ERROR"}

(* A handler that gets offsets is asked to begin a message at the offset of *)
(* that message, and not at one left over from a message given up before.   *)
BeginsAtOffset ==
  \A c \in Handles :
    Running(c, "size") /\ ch[c].offset_mode /\ mcu = "run" /\ c \in Channels
      => chan[c].off = ch[c].tr_msg.off

(* A message handed back as done or cancelled counts in got_words exactly   *)
(* the words of the chunks that the protocol confirmed, although chunks are *)
(* repeated after every failure.                                            *)
ReportsWhatMoved ==
  [][\A c \in Handles : \A m \in due[c] :
       m \notin due'[c] /\ ch'[c].state # "RESET" /\ mres'[m].result \in {"OK", "CANCEL"}
         => mres'[m].got_words = moved'[c]]_vars

(* A step of channel_work for one handle changes no other channel of the    *)
(* device.                                                                  *)
ForeignChannelsUntouched ==
  [][work.pc # "none" /\ work' # work
       => \A d \in Channels \ {work.c} : chan'[d] = chan[d]]_vars

(* The handles keep what ChannelService promises to their user: whatever    *)
(* the device, its restarts and the bus do to channel_work.                 *)
Phase(state) ==
  CASE state = "CLOSED" -> "closed"
    [] state = "IDLE" -> "ready"
    [] state = "ERROR" -> "failed"
    [] OTHER -> "working"

Service == INSTANCE ChannelService
             WITH phase <- [c \in Handles |-> Phase(ch[c].state)], owned <- due

KeepsService == Service!Spec

------------------------------------------------------------------------------
(* The application calls channel_work for every handle again and again, as  *)
(* the test programs do in wait_status.  Nothing else is fair: the device   *)
(* may hang for good, and the application need not call anything else.      *)
FairSpec == Spec /\ \A c \in Handles : SF_vars(StartWork(c) \/ WorkStep(c))

Working == {"OPEN", "CLOSE", "RESET", "POLL", "CANCEL"}

(* Every open, close, reset, poll and cancel comes to an end, with a device *)
(* that is dead, restarts or fails as well, once the device no longer goes  *)
(* busy.                                                                    *)
WorkEnds ==
  <>[](busy = 0) =>
    \A c \in Handles : (ch[c].state \in Working) ~> (ch[c].state \notin Working)

------------------------------------------------------------------------------
(* What a comment says and the code does not.                               *)

(* "other proto errors are fatal" (channel.c:202): a transfer ends, too, if *)
(* only in state ERROR.                                                     *)
TransferEnds ==
  <>[](busy = 0) =>
    \A c \in Handles :
      (ch[c].state = "TRANSFER" /\ session[c] = "open")
        ~> (ch[c].state # "TRANSFER")

==============================================================================
