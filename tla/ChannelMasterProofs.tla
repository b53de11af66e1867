------------------------ MODULE ChannelMasterProofs ------------------------
(***************************************************************************)
(* Theorems about the handles of the Amiga driver, for any number of       *)
(* handles, messages and channels and any number of faults.                *)
(*                                                                         *)
(* The steps are first reduced to what they do to the handles (Holds,      *)
(* Sized, Moves, Reports); each property of the messages is then shown of  *)
(* these effects.  What the steps do to the device is the second part:     *)
(* the commands that carry no channel number reach the handle's own.  The  *)
(* third part is the refinement: each effect is a step of ChannelService.  *)
(***************************************************************************)
EXTENDS ChannelMaster, ChannelDeviceProofs

AmigaTypeOK ==
  /\ ch \in [Handles -> HandleRecord]
  /\ work \in [c : Handles \cup {0}, pc : Pcs]
  /\ mres \in [Msgs -> [result : MsgResults, got_words : UWORD]]
  /\ due \in [Handles -> SUBSET Msgs]
  /\ moved \in [Handles -> Nat]
  /\ session \in [Handles -> {"none", "acted", "open"}]
  /\ stray \in {"no", "now", "past"}
  /\ faults \in 0 .. MaxFaults

(* The commands of the operation that a state stands for.                   *)
PcsOf(state) ==
  {pc \in Pcs :
     \/ state = "OPEN" /\ pc \in {"index", "check"} \cup AfterIndex
     \/ state = "CLOSE" /\ pc \in {"index", "state", "act", "check"}
     \/ state = "RESET" /\ pc \in {"index", "act", "check"}
     \/ state = "POLL" /\ pc = "check"
     \/ state = "CANCEL" /\ pc = "cancel"
     \/ state = "TRANSFER" /\ pc \in {"offset", "size", "chunk"}}

Moving(c) == ch[c].state \in {"TRANSFER", "CANCEL"}

PcState ==
  work.pc # "none" => work.c \in Handles /\ work.pc \in PcsOf(ch[work.c].state)

MsgState == \A c \in Handles : Moving(c) => ch[c].tr_msg \in Msgs

TypeInv == DevTypeOK /\ AmigaTypeOK /\ PcState /\ MsgState

------------------------------------------------------------------------------
(* Helpers.                                                                 *)

LEMMA HandleField ==
  ASSUME NEW r \in HandleRecord
  PROVE  /\ \A s \in States : [r EXCEPT !.state = s] \in HandleRecord
         /\ \A m \in {0} \cup Mtus : [r EXCEPT !.mtu = m] \in HandleRecord
         /\ \A b \in BOOLEAN : [r EXCEPT !.offset_mode = b] \in HandleRecord
         /\ \A n \in 0 .. MaxWords : [r EXCEPT !.tr_words = n] \in HandleRecord
         /\ \A m \in Msgs \cup {NoMsg} : [r EXCEPT !.tr_msg = m] \in HandleRecord
<1>1. \A s \in States : [r EXCEPT !.state = s] \in HandleRecord
  BY DEF HandleRecord
<1>2. \A m \in {0} \cup Mtus : [r EXCEPT !.mtu = m] \in HandleRecord
  BY DEF HandleRecord
<1>3. \A b \in BOOLEAN : [r EXCEPT !.offset_mode = b] \in HandleRecord
  BY DEF HandleRecord
<1>4. \A n \in 0 .. MaxWords : [r EXCEPT !.tr_words = n] \in HandleRecord
  BY DEF HandleRecord
<1>5. \A m \in Msgs \cup {NoMsg} : [r EXCEPT !.tr_msg = m] \in HandleRecord
  BY DEF HandleRecord
<1> QED BY <1>1, <1>2, <1>3, <1>4, <1>5

LEMMA AfterWorkHandle ==
  ASSUME NEW r \in HandleRecord, NEW result
  PROVE  /\ AfterWork(r, result) \in HandleRecord
         /\ AfterWork(r, result).state
              = IF result = "OK" THEN Target(r.state)
                ELSE IF result \in {"STAY", "BUSY"} THEN r.state ELSE "ERROR"
         /\ AfterWork(r, result).tr_words = r.tr_words
         /\ AfterWork(r, result).tr_msg = r.tr_msg
         /\ AfterWork(r, result).mtu = r.mtu
         /\ AfterWork(r, result).offset_mode = r.offset_mode
  BY DEF AfterWork, Target, HandleRecord, States

(* A step that sends no command or one that does not get through.           *)
NoCommand ==
  \/ UNCHANGED devVars
  \/ mcu' = "hung" /\ UNCHANGED <<chan, sel, status, busy, hnd>>

LEMMA NoCommandType ==
  ASSUME DevTypeOK, NoCommand
  PROVE  DevTypeOK'
  BY DEF NoCommand, DevTypeOK, devVars

------------------------------------------------------------------------------
(* What a step of channel_work does to its handle.                          *)

(* The operation goes on, stays to be tried again, or ends; the message, if *)
(* there is one, is where it was.                                           *)
GoesOn(c, pc) ==
  /\ work' = [c |-> c, pc |-> pc]
  /\ pc \in {"offset", "size", "chunk"} => pc = "size" /\ work.pc = "offset"

HeldAs(c, r) ==
  /\ ch' = [ch EXCEPT ![c] = r]
  /\ r.tr_words = ch[c].tr_words /\ r.tr_msg = ch[c].tr_msg
  /\ \/ /\ r.state = ch[c].state
        /\ \E pc \in PcsOf(r.state) : GoesOn(c, pc)
     \/ /\ r.state = ch[c].state
        /\ work' = [c |-> 0, pc |-> "none"]
     \/ /\ ~Moving(c)
        /\ r.state \in {Target(ch[c].state), "ERROR"}
        /\ work' = [c |-> 0, pc |-> "none"]

Holds(c) == UNCHANGED <<mres, due, moved>> /\ \E r \in HandleRecord : HeldAs(c, r)

(* The message's size is known.                                             *)
Sized(c) ==
  /\ ch[c].state = "TRANSFER" /\ work.pc = "size"
  /\ UNCHANGED <<due, moved>>
  /\ \E n \in 1 .. MaxWords :
       /\ ch' = [ch EXCEPT ![c] = [ch[c] EXCEPT !.tr_words = n]]
       /\ mres' = [mres EXCEPT ![ch[c].tr_msg].got_words = n]
  /\ work' = [c |-> c, pc |-> "chunk"]

(* A chunk of k words is through and n are left.                            *)
Moved(c, n, k) ==
  /\ ch[c].tr_words = n + k
  /\ ch' = [ch EXCEPT ![c] = [ch[c] EXCEPT !.tr_words = n]]
  /\ moved' = [moved EXCEPT ![c] = @ + k]

Moves(c) ==
  /\ ch[c].state = "TRANSFER" /\ work.pc = "chunk"
  /\ UNCHANGED <<mres, due>>
  /\ \E n \in 1 .. MaxWords, k \in 0 .. MaxWords : Moved(c, n, k)
  /\ work' = [c |-> 0, pc |-> "none"]

(* With which result and count, and after which words, a message leaves.    *)
Accounts(c, result, got) ==
  \/ /\ work.pc = "chunk" /\ result = "OK"
     /\ got = mres[ch[c].tr_msg].got_words
     /\ moved' = [moved EXCEPT ![c] = @ + ch[c].tr_words]
  \/ /\ work.pc = "cancel" /\ result = "CANCEL"
     /\ got = mres[ch[c].tr_msg].got_words - ch[c].tr_words
     /\ UNCHANGED moved
  \/ /\ work.pc = "size" /\ result = "OK" /\ got = 0
     /\ UNCHANGED moved
  \/ /\ work.pc = "size" /\ result = "MSG_SIZE_MISMATCH"
     /\ UNCHANGED moved

(* The message goes back to its owner: after the last chunk, empty, refused *)
(* or cancelled.                                                            *)
Reported(c, r, result, got) ==
  /\ ch' = [ch EXCEPT ![c] = r]
  /\ r.state \in {"IDLE", "ERROR"} /\ r.tr_words = 0 /\ r.tr_msg = NoMsg
  /\ mres' = [mres EXCEPT ![ch[c].tr_msg] =
                [result |-> result, got_words |-> got % 65536]]
  /\ due' = [due EXCEPT ![c] = @ \ {ch[c].tr_msg}]
  /\ Accounts(c, result, got)

Reports(c) ==
  /\ Moving(c)
  /\ \E r \in HandleRecord, result \in MsgResults, got \in Int :
       Reported(c, r, result, got)
  /\ work' = [c |-> 0, pc |-> "none"]

------------------------------------------------------------------------------
(* Every step of channel_work is one of these.                              *)

HistType ==
  /\ session' \in [Handles -> {"none", "acted", "open"}]
  /\ stray' \in {"no", "now", "past"}
  /\ faults' \in 0 .. MaxFaults

LEMMA FinishHolds ==
  ASSUME TypeInv, NEW c \in Handles, NEW result,
         ~Moving(c) \/ result \in {"STAY", "BUSY"},
         Finish(c, ch[c], result), UNCHANGED <<mres, due, moved>>
  PROVE  Holds(c) /\ session' \in [Handles -> {"none", "acted", "open"}]
<1>1. ch[c] \in HandleRecord
  BY DEF TypeInv, AmigaTypeOK
<1>2. session' \in [Handles -> {"none", "acted", "open"}]
  BY DEF Finish, TypeInv, AmigaTypeOK
<1>3. work' = [c |-> 0, pc |-> "none"]
  BY DEF Finish
<1> DEFINE r == AfterWork(ch[c], result)
<1>4. ch' = [ch EXCEPT ![c] = r]
  BY DEF Finish
<1>5. /\ r \in HandleRecord
      /\ r.tr_words = ch[c].tr_words /\ r.tr_msg = ch[c].tr_msg
      /\ \/ r.state = ch[c].state
         \/ ~Moving(c) /\ r.state \in {Target(ch[c].state), "ERROR"}
  BY <1>1, AfterWorkHandle
<1> HIDE DEF r
<1> QED BY <1>2, <1>3, <1>4, <1>5 DEF Holds, HeldAs

LEMMA ProceedHolds ==
  ASSUME TypeInv, NEW c \in Handles, NEW r \in HandleRecord,
         r.state = ch[c].state, r.tr_words = ch[c].tr_words,
         r.tr_msg = ch[c].tr_msg,
         NEW pc \in PcsOf(ch[c].state),
         pc \in {"offset", "size", "chunk"} => pc = "size" /\ work.pc = "offset",
         Proceed(c, r, pc), UNCHANGED <<mres, due, moved>>
  PROVE  Holds(c) /\ session' \in [Handles -> {"none", "acted", "open"}]
  BY DEF Proceed, Holds, HeldAs, GoesOn, TypeInv, AmigaTypeOK

LEMMA ProceedSame ==
  ASSUME TypeInv, NEW c \in Handles,
         NEW pc \in PcsOf(ch[c].state),
         pc \in {"offset", "size", "chunk"} => pc = "size" /\ work.pc = "offset",
         Proceed(c, ch[c], pc), UNCHANGED <<mres, due, moved>>
  PROVE  Holds(c) /\ session' \in [Handles -> {"none", "acted", "open"}]
<1>1. ch[c] \in HandleRecord
  BY DEF TypeInv, AmigaTypeOK
<1> QED BY <1>1, ProceedHolds

(* What the state of a handle is while one of its commands is next.         *)
LEMMA PcTellsState ==
  ASSUME TypeInv, NEW c \in Handles, NEW pc, pc # "none", Running(c, pc)
  PROVE  /\ pc \in PcsOf(ch[c].state)
         /\ pc = "index" => ch[c].state \in {"OPEN", "CLOSE", "RESET"}
         /\ pc = "state" => ch[c].state \in {"OPEN", "CLOSE"}
         /\ pc \in {"set_mtu", "get_mtu", "set_words", "get_words", "get_mode"}
              => ch[c].state = "OPEN"
         /\ pc = "act" => ch[c].state \in {"OPEN", "CLOSE", "RESET"}
         /\ pc = "check" => ch[c].state \in {"OPEN", "CLOSE", "RESET", "POLL"}
         /\ pc \in {"offset", "size", "chunk"} => ch[c].state = "TRANSFER"
         /\ pc = "cancel" => ch[c].state = "CANCEL"
         /\ pc \notin {"offset", "size", "chunk", "cancel"} => ~Moving(c)
         /\ work.c = c /\ work.pc = pc
<1>1. work.c = c /\ work.pc = pc /\ pc \in PcsOf(ch[c].state)
  BY DEF Running, TypeInv, PcState
<1>2. ch[c].state \in States
  BY DEF TypeInv, AmigaTypeOK, HandleRecord
<1> QED BY <1>1, <1>2 DEF PcsOf, Pcs, AfterIndex, Moving

LEMMA IndexEffect ==
  ASSUME TypeInv, NEW c \in Handles, WorkIndex(c)
  PROVE  Holds(c) /\ HistType /\ DevTypeOK'
<1>1. Running(c, "index")
  BY DEF WorkIndex, OpCommand
<1>2. ~Moving(c) /\ ch[c].state \in {"OPEN", "CLOSE", "RESET"}
  BY <1>1, PcTellsState
<1>3. SelectChannel(c) \/ NoCommand
  BY DEF WorkIndex, OpCommand, Sends, NoCommand
<1>4. DevTypeOK'
  BY <1>3, SelectType, NoCommandType, HandlesAssumption DEF TypeInv
<1>5. Holds(c) /\ session' \in [Handles -> {"none", "acted", "open"}]
  <2>1. PICK res \in ProtoResults :
          IF res = "OK"
          THEN Proceed(c, ch[c], IF ch[c].state = "RESET" THEN "act" ELSE "state")
          ELSE Finish(c, ch[c], res)
    BY DEF WorkIndex, OpCommand
  <2>2. (IF ch[c].state = "RESET" THEN "act" ELSE "state") \in PcsOf(ch[c].state)
    BY <1>2 DEF PcsOf, Pcs, AfterIndex
  <2>3. UNCHANGED <<mres, due, moved>>
    BY DEF WorkIndex, OpCommand
  <2> QED BY <1>2, <2>1, <2>2, <2>3, ProceedSame, FinishHolds
<1>6. stray' \in {"no", "now", "past"} /\ faults' \in 0 .. MaxFaults
  BY FaultsAssumption DEF WorkIndex, OpCommand, Sends, TypeInv, AmigaTypeOK
<1> QED BY <1>4, <1>5, <1>6 DEF HistType

LEMMA SetMtuCommandEffect ==
  ASSUME TypeInv, NEW c \in Handles, WorkSetMtu(c)
  PROVE  Holds(c) /\ HistType /\ DevTypeOK'
<1>1. Running(c, "set_mtu")
  BY DEF WorkSetMtu, OpCommand
<1>2. ~Moving(c) /\ ch[c].state = "OPEN"
  BY <1>1, PcTellsState
<1>3. SetMtu(sel) \/ NoCommand
  BY DEF WorkSetMtu, OpCommand, Sends, NoCommand
<1>4. DevTypeOK'
  BY <1>3, SetMtuType, NoCommandType DEF TypeInv
<1>5. Holds(c) /\ session' \in [Handles -> {"none", "acted", "open"}]
  <2>1. PICK res \in ProtoResults :
          IF res = "OK" THEN Proceed(c, ch[c], "get_mtu") ELSE Finish(c, ch[c], res)
    BY DEF WorkSetMtu, OpCommand
  <2>2. "get_mtu" \in PcsOf(ch[c].state)
    BY <1>2 DEF PcsOf, Pcs, AfterIndex
  <2>3. UNCHANGED <<mres, due, moved>>
    BY DEF WorkSetMtu, OpCommand
  <2> QED BY <1>2, <2>1, <2>2, <2>3, ProceedSame, FinishHolds
<1>6. stray' \in {"no", "now", "past"} /\ faults' \in 0 .. MaxFaults
  BY FaultsAssumption DEF WorkSetMtu, OpCommand, Sends, TypeInv, AmigaTypeOK
<1> QED BY <1>4, <1>5, <1>6 DEF HistType

LEMMA SetWordsEffect ==
  ASSUME TypeInv, NEW c \in Handles, WorkSetWords(c)
  PROVE  Holds(c) /\ HistType /\ DevTypeOK'
<1>1. Running(c, "set_words")
  BY DEF WorkSetWords, OpCommand
<1>2. ~Moving(c) /\ ch[c].state = "OPEN"
  BY <1>1, PcTellsState
<1>3. NoCommand
  BY DEF WorkSetWords, OpCommand, Sends, NoCommand
<1>4. DevTypeOK'
  BY <1>3, NoCommandType DEF TypeInv
<1>5. Holds(c) /\ session' \in [Handles -> {"none", "acted", "open"}]
  <2>1. PICK res \in ProtoResults :
          IF res = "OK" THEN Proceed(c, ch[c], "get_words") ELSE Finish(c, ch[c], res)
    BY DEF WorkSetWords, OpCommand
  <2>2. "get_words" \in PcsOf(ch[c].state)
    BY <1>2 DEF PcsOf, Pcs, AfterIndex
  <2>3. UNCHANGED <<mres, due, moved>>
    BY DEF WorkSetWords, OpCommand
  <2> QED BY <1>2, <2>1, <2>2, <2>3, ProceedSame, FinishHolds
<1>6. stray' \in {"no", "now", "past"} /\ faults' \in 0 .. MaxFaults
  BY FaultsAssumption DEF WorkSetWords, OpCommand, Sends, TypeInv, AmigaTypeOK
<1> QED BY <1>4, <1>5, <1>6 DEF HistType

LEMMA GetWordsEffect ==
  ASSUME TypeInv, NEW c \in Handles, WorkGetWords(c)
  PROVE  Holds(c) /\ HistType /\ DevTypeOK'
<1>1. Running(c, "get_words")
  BY DEF WorkGetWords, OpCommand
<1>2. ~Moving(c) /\ ch[c].state = "OPEN"
  BY <1>1, PcTellsState
<1>3. ReadChannel(sel) \/ NoCommand
  BY DEF WorkGetWords, OpCommand, Sends, NoCommand
<1>4. DevTypeOK'
  BY <1>3, ReadType, NoCommandType DEF TypeInv
<1>5. Holds(c) /\ session' \in [Handles -> {"none", "acted", "open"}]
  <2>1. PICK res \in ProtoResults :
          IF res = "OK" THEN Proceed(c, ch[c], "get_mode") ELSE Finish(c, ch[c], res)
    BY DEF WorkGetWords, OpCommand
  <2>2. "get_mode" \in PcsOf(ch[c].state)
    BY <1>2 DEF PcsOf, Pcs, AfterIndex
  <2>3. UNCHANGED <<mres, due, moved>>
    BY DEF WorkGetWords, OpCommand
  <2> QED BY <1>2, <2>1, <2>2, <2>3, ProceedSame, FinishHolds
<1>6. stray' \in {"no", "now", "past"} /\ faults' \in 0 .. MaxFaults
  BY FaultsAssumption DEF WorkGetWords, OpCommand, Sends, TypeInv, AmigaTypeOK
<1> QED BY <1>4, <1>5, <1>6 DEF HistType

LEMMA StateEffect ==
  ASSUME TypeInv, NEW c \in Handles, WorkState(c)
  PROVE  Holds(c) /\ HistType /\ DevTypeOK'
<1>1. Running(c, "state")
  BY DEF WorkState, OpCommand
<1>2. ~Moving(c) /\ ch[c].state \in {"OPEN", "CLOSE"}
  BY <1>1, PcTellsState
<1>3. ReadChannel(sel) \/ NoCommand
  BY DEF WorkState, OpCommand, Sends, NoCommand
<1>4. DevTypeOK'
  BY <1>3, ReadType, NoCommandType DEF TypeInv
<1>5. Holds(c) /\ session' \in [Handles -> {"none", "acted", "open"}]
  <2>1. \/ \E result \in ProtoResults \cup {"OPEN_FAILED", "CLOSE_FAILED"} :
             Finish(c, ch[c], result)
        \/ \E pc \in IF ch[c].state = "OPEN" THEN {"set_mtu", "get_mtu"} ELSE {"act"} :
             Proceed(c, ch[c], pc)
    <3>1. PICK res \in ProtoResults :
            IF res = "OK"
            THEN IF chan[sel].dev_state
                      # IF ch[c].state = "OPEN" THEN "AVAILABLE" ELSE "READY"
                 THEN Finish(c, ch[c], IF ch[c].state = "OPEN" THEN "OPEN_FAILED"
                                                               ELSE "CLOSE_FAILED")
                 ELSE \E pc \in IF ch[c].state = "OPEN" THEN {"set_mtu", "get_mtu"}
                                                        ELSE {"act"} :
                        Proceed(c, ch[c], pc)
            ELSE Finish(c, ch[c], res)
      BY DEF WorkState, OpCommand
    <3> QED BY <3>1
  <2>2. \A pc \in IF ch[c].state = "OPEN" THEN {"set_mtu", "get_mtu"} ELSE {"act"} :
          pc \in PcsOf(ch[c].state) /\ pc \notin {"offset", "size", "chunk"}
    BY <1>2 DEF PcsOf, Pcs, AfterIndex
  <2>3. UNCHANGED <<mres, due, moved>>
    BY DEF WorkState, OpCommand
  <2> QED BY <1>2, <2>1, <2>2, <2>3, ProceedSame, FinishHolds
<1>6. stray' \in {"no", "now", "past"} /\ faults' \in 0 .. MaxFaults
  BY FaultsAssumption DEF WorkState, OpCommand, Sends, TypeInv, AmigaTypeOK
<1> QED BY <1>4, <1>5, <1>6 DEF HistType

LEMMA GetMtuEffect ==
  ASSUME TypeInv, NEW c \in Handles, WorkGetMtu(c)
  PROVE  Holds(c) /\ HistType /\ DevTypeOK'
<1>1. Running(c, "get_mtu")
  BY DEF WorkGetMtu, OpCommand
<1>2. ~Moving(c) /\ ch[c].state = "OPEN"
  BY <1>1, PcTellsState
<1>3. ReadChannel(sel) \/ NoCommand
  BY DEF WorkGetMtu, OpCommand, Sends, NoCommand
<1>4. DevTypeOK'
  BY <1>3, ReadType, NoCommandType DEF TypeInv
<1>5. Holds(c) /\ session' \in [Handles -> {"none", "acted", "open"}]
  <2> DEFINE r == [ch[c] EXCEPT !.mtu = chan[sel].mtu]
  <2>1. \/ \E res \in ProtoResults : Finish(c, ch[c], res)
        \/ sel \in Channels /\ \E pc \in {"set_words", "get_words"} : Proceed(c, r, pc)
    BY DEF WorkGetMtu, OpCommand, Sends, HangResults, Told, ReadChannel,
           NoSuchChannel, ProtoResults
  <2>2. {"set_words", "get_words"} \subseteq PcsOf(ch[c].state)
    BY <1>2 DEF PcsOf, Pcs, AfterIndex
  <2>3. UNCHANGED <<mres, due, moved>>
    BY DEF WorkGetMtu, OpCommand
  <2>4. ASSUME sel \in Channels
        PROVE  /\ r \in HandleRecord
               /\ r.state = ch[c].state
               /\ r.tr_words = ch[c].tr_words /\ r.tr_msg = ch[c].tr_msg
    BY <2>4, HandleField DEF TypeInv, DevTypeOK, ChannelRecord, AmigaTypeOK, HandleRecord
  <2> HIDE DEF r
  <2> QED BY <1>2, <2>1, <2>2, <2>3, <2>4, ProceedHolds, FinishHolds
<1>6. stray' \in {"no", "now", "past"} /\ faults' \in 0 .. MaxFaults
  BY FaultsAssumption DEF WorkGetMtu, OpCommand, Sends, TypeInv, AmigaTypeOK
<1> QED BY <1>4, <1>5, <1>6 DEF HistType

LEMMA GetModeEffect ==
  ASSUME TypeInv, NEW c \in Handles, WorkGetMode(c)
  PROVE  Holds(c) /\ HistType /\ DevTypeOK'
<1>1. Running(c, "get_mode")
  BY DEF WorkGetMode, OpCommand
<1>2. ~Moving(c) /\ ch[c].state = "OPEN"
  BY <1>1, PcTellsState
<1>3. ReadChannel(sel) \/ NoCommand
  BY DEF WorkGetMode, OpCommand, Sends, NoCommand
<1>4. DevTypeOK'
  BY <1>3, ReadType, NoCommandType DEF TypeInv
<1>5. Holds(c) /\ session' \in [Handles -> {"none", "acted", "open"}]
  <2> DEFINE mode == sel \in OffsetMode
             r == [ch[c] EXCEPT !.offset_mode = mode]
  <2>1. \E res \in ProtoResults :
          IF res = "OK" THEN Proceed(c, r, "act") ELSE Finish(c, ch[c], res)
    BY DEF WorkGetMode, OpCommand
  <2>2. "act" \in PcsOf(ch[c].state)
    BY <1>2 DEF PcsOf, Pcs, AfterIndex
  <2>3. UNCHANGED <<mres, due, moved>>
    BY DEF WorkGetMode, OpCommand
  <2>4. /\ r \in HandleRecord
        /\ r.state = ch[c].state
        /\ r.tr_words = ch[c].tr_words /\ r.tr_msg = ch[c].tr_msg
    <3>1. mode \in BOOLEAN
      OBVIOUS
    <3> HIDE DEF mode
    <3> QED BY <3>1, HandleField DEF TypeInv, AmigaTypeOK, HandleRecord
  <2> HIDE DEF r
  <2> QED BY <1>2, <2>1, <2>2, <2>3, <2>4, ProceedHolds, FinishHolds
<1>6. stray' \in {"no", "now", "past"} /\ faults' \in 0 .. MaxFaults
  BY FaultsAssumption DEF WorkGetMode, OpCommand, Sends, TypeInv, AmigaTypeOK
<1> QED BY <1>4, <1>5, <1>6 DEF HistType

LEMMA ActEffect ==
  ASSUME TypeInv, NEW c \in Handles, WorkAct(c)
  PROVE  Holds(c) /\ HistType /\ DevTypeOK'
<1>1. Running(c, "act")
  BY DEF WorkAct, OpCommand
<1>2. ~Moving(c) /\ ch[c].state \in {"OPEN", "CLOSE", "RESET"}
  BY <1>1, PcTellsState
<1>3. OpenChannel(sel) \/ CloseChannel(sel) \/ NoCommand
  BY DEF WorkAct, OpCommand, Sends, NoCommand
<1>4. DevTypeOK'
  BY <1>3, OpenType, CloseType, NoCommandType DEF TypeInv
<1>5. Holds(c) /\ session' \in [Handles -> {"none", "acted", "open"}]
  <2>1. \/ \E res \in ProtoResults : Finish(c, ch[c], res)
        \/ /\ ch' = ch
           /\ work' = [c |-> c, pc |-> "check"]
           /\ session' = [session EXCEPT ![c] =
                             IF ch[c].state = "OPEN" THEN "acted" ELSE @]
    BY DEF WorkAct, OpCommand
  <2>2. "check" \in PcsOf(ch[c].state)
    BY <1>2 DEF PcsOf, Pcs, AfterIndex
  <2>3. UNCHANGED <<mres, due, moved>>
    BY DEF WorkAct, OpCommand
  <2>4. CASE \E res \in ProtoResults : Finish(c, ch[c], res)
    BY <1>2, <2>3, <2>4, FinishHolds
  <2>5. CASE /\ ch' = ch
             /\ work' = [c |-> c, pc |-> "check"]
             /\ session' = [session EXCEPT ![c] =
                               IF ch[c].state = "OPEN" THEN "acted" ELSE @]
    BY <2>2, <2>3, <2>5 DEF Holds, HeldAs, GoesOn, TypeInv, AmigaTypeOK
  <2> QED BY <2>1, <2>4, <2>5
<1>6. stray' \in {"no", "now", "past"} /\ faults' \in 0 .. MaxFaults
  BY FaultsAssumption DEF WorkAct, OpCommand, Sends, TypeInv, AmigaTypeOK
<1> QED BY <1>4, <1>5, <1>6 DEF HistType

LEMMA CheckEffect ==
  ASSUME TypeInv, NEW c \in Handles, WorkCheck(c)
  PROVE  Holds(c) /\ HistType /\ DevTypeOK'
<1>1. Running(c, "check")
  BY DEF WorkCheck, OpCommand
<1>2. ~Moving(c)
  BY <1>1, PcTellsState
<1>3. ReadChannel(sel) \/ NoCommand
  BY DEF WorkCheck, OpCommand, Sends, NoCommand
<1>4. DevTypeOK'
  BY <1>3, ReadType, NoCommandType DEF TypeInv
<1>5. Holds(c) /\ session' \in [Handles -> {"none", "acted", "open"}]
  <2>1. \/ Finish(c, ch[c], CheckResult(ch[c].state, chan[sel].dev_state))
        \/ \E res \in ProtoResults : Finish(c, ch[c], res)
    BY DEF WorkCheck, OpCommand
  <2>2. UNCHANGED <<mres, due, moved>>
    BY DEF WorkCheck, OpCommand
  <2> QED BY <1>2, <2>1, <2>2, FinishHolds
<1>6. stray' \in {"no", "now", "past"} /\ faults' \in 0 .. MaxFaults
  BY FaultsAssumption DEF WorkCheck, OpCommand, Sends, TypeInv, AmigaTypeOK
<1> QED BY <1>4, <1>5, <1>6 DEF HistType

LEMMA ReportReports ==
  ASSUME TypeInv, NEW c \in Handles, Moving(c),
         NEW result \in MsgResults, NEW got \in Int,
         Report(c, result, got), Accounts(c, result, got)
  PROVE  Reports(c) /\ session' \in [Handles -> {"none", "acted", "open"}]
<1> DEFINE done == [ch[c] EXCEPT !.tr_words = 0, !.tr_msg = NoMsg]
           end == IF result = "CANCEL" THEN "OK" ELSE result
           r == AfterWork(done, end)
<1>1. done \in HandleRecord /\ done.tr_words = 0 /\ done.tr_msg = NoMsg
  <2> DEFINE empty == [ch[c] EXCEPT !.tr_words = 0]
  <2>1. ch[c] \in HandleRecord
    BY DEF TypeInv, AmigaTypeOK
  <2>2. empty \in HandleRecord
    BY <2>1, HandleField, NoWords
  <2>3. empty.tr_words = 0
    BY <2>1 DEF HandleRecord
  <2> HIDE DEF empty
  <2>4. [empty EXCEPT !.tr_msg = NoMsg] \in HandleRecord
    BY <2>2, HandleField
  <2>5. /\ [empty EXCEPT !.tr_msg = NoMsg].tr_words = 0
        /\ [empty EXCEPT !.tr_msg = NoMsg].tr_msg = NoMsg
    BY <2>2, <2>3 DEF HandleRecord
  <2> QED BY <2>4, <2>5 DEF empty
<1>2. done.state \in {"TRANSFER", "CANCEL"}
  BY DEF Moving, TypeInv, AmigaTypeOK, HandleRecord
<1>3. Finish(c, done, end)
  BY DEF Report
<1>4. /\ mres' = [mres EXCEPT ![ch[c].tr_msg] =
                    [result |-> result, got_words |-> got % 65536]]
      /\ due' = [due EXCEPT ![c] = @ \ {ch[c].tr_msg}]
  BY DEF Report
<1> HIDE DEF done
<1>5. r \in HandleRecord /\ r.tr_words = 0 /\ r.tr_msg = NoMsg
  BY <1>1, AfterWorkHandle
<1>6. r.state \in {"IDLE", "ERROR"}
  BY <1>1, <1>2, AfterWorkHandle DEF MsgResults, Target
<1>7. ch' = [ch EXCEPT ![c] = r] /\ work' = [c |-> 0, pc |-> "none"]
  BY <1>3 DEF Finish
<1>8. session' \in [Handles -> {"none", "acted", "open"}]
  BY <1>3 DEF Finish, TypeInv, AmigaTypeOK
<1> HIDE DEF r
<1>9. Reports(c)
  <2>1. Reported(c, r, result, got)
    BY <1>4, <1>5, <1>6, <1>7 DEF Reported
  <2> QED BY <1>5, <1>7, <2>1 DEF Reports
<1> QED BY <1>8, <1>9

(* A command of channel_op_transfer that fails leaves everything to the     *)
(* next try.                                                                *)
LEMMA FailedHolds ==
  ASSUME TypeInv, NEW c \in Handles, NEW res \in {"BUSY", "TIMEOUT"},
         TransferFailed(c, res), UNCHANGED <<mres, due, moved>>
  PROVE  Holds(c) /\ session' \in [Handles -> {"none", "acted", "open"}]
<1>1. Finish(c, ch[c], "STAY")
  BY DEF TransferFailed
<1> QED BY <1>1, FinishHolds

LEMMA OffsetEffect ==
  ASSUME TypeInv, NEW c \in Handles, WorkOffset(c)
  PROVE  Holds(c) /\ HistType /\ DevTypeOK'
<1>1. Running(c, "offset")
  BY DEF WorkOffset
<1>2. ch[c].state = "TRANSFER"
  BY <1>1, PcTellsState
<1>3. ch[c].tr_msg.off \in Offsets
  BY <1>2, MsgsAssumption DEF TypeInv, MsgState, Moving
<1>4. SetOffset(c, ch[c].tr_msg.off) \/ NoCommand
  BY DEF WorkOffset, Sends, NoCommand
<1>5. DevTypeOK'
  BY <1>3, <1>4, OffsetType, NoCommandType DEF TypeInv
<1>6. Holds(c) /\ session' \in [Handles -> {"none", "acted", "open"}]
  <2>1. PICK res \in ProtoResults :
          IF res = "OK" THEN Proceed(c, ch[c], "size") ELSE TransferFailed(c, res)
    BY DEF WorkOffset
  <2>2. "size" \in PcsOf(ch[c].state)
    BY <1>2 DEF PcsOf, Pcs
  <2>3. UNCHANGED <<mres, due, moved>>
    BY DEF WorkOffset
  <2> QED BY <1>1, <2>1, <2>2, <2>3, ProceedSame, FailedHolds DEF ProtoResults, Running
<1>7. stray' \in {"no", "now", "past"} /\ faults' \in 0 .. MaxFaults
  BY FaultsAssumption DEF WorkOffset, Sends, HangResults, TypeInv, AmigaTypeOK
<1> QED BY <1>5, <1>6, <1>7 DEF HistType

LEMMA SizeKnownEffect ==
  ASSUME TypeInv, NEW c \in Handles, Running(c, "size"),
         NEW n \in 0 .. MaxWords, SizeKnown(c, n), UNCHANGED moved
  PROVE  /\ Sized(c) \/ Reports(c)
         /\ session' \in [Handles -> {"none", "acted", "open"}]
<1>1. ch[c].state = "TRANSFER" /\ work.pc = "size" /\ Moving(c)
  BY PcTellsState DEF Moving
<1>2. CASE n = 0
  <2>1. Report(c, "OK", 0) /\ Accounts(c, "OK", 0)
    BY <1>1, <1>2 DEF SizeKnown, Accounts
  <2> QED BY <1>1, <2>1, ReportReports DEF MsgResults
<1>3. CASE n # 0
  <2>1. /\ ch' = [ch EXCEPT ![c] = [ch[c] EXCEPT !.tr_words = n]]
        /\ mres' = [mres EXCEPT ![ch[c].tr_msg].got_words = n]
        /\ work' = [c |-> c, pc |-> "chunk"]
        /\ UNCHANGED <<due, moved, session>>
    BY <1>3 DEF SizeKnown, Proceed
  <2>2. n \in 1 .. MaxWords
    BY <1>3, WordsAssumption
  <2>3. \E k \in 1 .. MaxWords :
          /\ ch' = [ch EXCEPT ![c] = [ch[c] EXCEPT !.tr_words = k]]
          /\ mres' = [mres EXCEPT ![ch[c].tr_msg].got_words = k]
    <3> WITNESS n \in 1 .. MaxWords
    <3> QED BY <2>1
  <2> QED BY <1>1, <2>1, <2>3 DEF Sized, TypeInv, AmigaTypeOK
<1> QED BY <1>2, <1>3

LEMMA RxSizeEffect ==
  ASSUME TypeInv, NEW c \in Handles, WorkRxSize(c)
  PROVE  (Holds(c) \/ Sized(c) \/ Reports(c)) /\ HistType /\ DevTypeOK'
<1> DEFINE m == ch[c].tr_msg
<1>1. Running(c, "size")
  BY DEF WorkRxSize
<1>2. Moving(c) /\ m \in Msgs /\ work.pc = "size"
  BY <1>1, PcTellsState DEF TypeInv, MsgState, Moving
<1>3. PICK res \in ProtoResults, n \in 0 .. MaxWords :
        /\ Sends(FALSE, ReadBegin(c, n), res)
        /\ IF res # "OK"
           THEN TransferFailed(c, res) /\ UNCHANGED <<mres, due>>
           ELSE IF RxAnswer(c, n) > m.num
                THEN Report(c, "MSG_SIZE_MISMATCH",
                            mres[m].got_words - RxAnswer(c, n))
                ELSE SizeKnown(c, RxAnswer(c, n))
  BY DEF WorkRxSize
<1>4. UNCHANGED <<moved, stray>>
  BY DEF WorkRxSize
<1>5. DevTypeOK'
  <2>1. ReadBegin(c, n) \/ NoCommand
    BY <1>3 DEF Sends, NoCommand
  <2> QED BY <2>1, ReadBeginType, NoCommandType DEF TypeInv
<1>6. stray' \in {"no", "now", "past"} /\ faults' \in 0 .. MaxFaults
  BY <1>3, <1>4, FaultsAssumption DEF Sends, HangResults, TypeInv, AmigaTypeOK
<1>7. RxAnswer(c, n) \in 0 .. MaxWords
  BY WordsAssumption DEF RxAnswer
<1>8. /\ Holds(c) \/ Sized(c) \/ Reports(c)
      /\ session' \in [Handles -> {"none", "acted", "open"}]
  <2>1. CASE res # "OK"
    BY <1>3, <1>4, <2>1, FailedHolds DEF ProtoResults
  <2>2. CASE res = "OK" /\ RxAnswer(c, n) > m.num
    <3> DEFINE got == mres[m].got_words - RxAnswer(c, n)
    <3>1. got \in Int
      <4>1. mres[m].got_words \in UWORD
        BY <1>2 DEF TypeInv, AmigaTypeOK
      <4>2. \A a \in UWORD, b \in 0 .. MaxWords : a - b \in Int
        BY WordsAssumption DEF UWORD
      <4> QED BY <1>7, <4>1, <4>2
    <3>2. Report(c, "MSG_SIZE_MISMATCH", got)
      BY <1>3, <2>2
    <3> HIDE DEF got
    <3>3. Accounts(c, "MSG_SIZE_MISMATCH", got)
      BY <1>2, <1>4 DEF Accounts
    <3> QED BY <1>2, <3>1, <3>2, <3>3, ReportReports DEF MsgResults
  <2>3. CASE res = "OK" /\ ~(RxAnswer(c, n) > m.num)
    BY <1>1, <1>3, <1>4, <1>7, <2>3, SizeKnownEffect
  <2> QED BY <2>1, <2>2, <2>3
<1> QED BY <1>5, <1>6, <1>8 DEF HistType

LEMMA TxSizeEffect ==
  ASSUME TypeInv, NEW c \in Handles, WorkTxSize(c)
  PROVE  (Holds(c) \/ Sized(c) \/ Reports(c)) /\ HistType /\ DevTypeOK'
<1> DEFINE n == ch[c].tr_msg.num
<1>1. Running(c, "size")
  BY DEF WorkTxSize
<1>2. n \in 0 .. MaxWords
  BY <1>1, PcTellsState, MsgsAssumption DEF TypeInv, MsgState, Moving
<1>3. PICK res \in ProtoResults :
        /\ Sends(TRUE, WriteBegin(c, n), res)
        /\ IF res = "OK" THEN SizeKnown(c, n)
           ELSE TransferFailed(c, res) /\ UNCHANGED <<mres, due>>
  BY DEF WorkTxSize
<1>4. UNCHANGED <<moved, stray>>
  BY DEF WorkTxSize
<1>5. DevTypeOK'
  <2>1. WriteBegin(c, n) \/ NoCommand
    BY <1>3 DEF Sends, NoCommand
  <2> HIDE DEF n
  <2> QED BY <1>2, <2>1, WriteBeginType, NoCommandType DEF TypeInv
<1>6. stray' \in {"no", "now", "past"} /\ faults' \in 0 .. MaxFaults
  BY <1>3, <1>4, FaultsAssumption DEF Sends, HangResults, TypeInv, AmigaTypeOK
<1>7. /\ Holds(c) \/ Sized(c) \/ Reports(c)
      /\ session' \in [Handles -> {"none", "acted", "open"}]
  <2> HIDE DEF n
  <2>1. CASE res # "OK"
    BY <1>3, <1>4, <2>1, FailedHolds DEF ProtoResults
  <2>2. CASE res = "OK"
    BY <1>1, <1>2, <1>3, <1>4, <2>2, SizeKnownEffect
  <2> QED BY <2>1, <2>2
<1> QED BY <1>5, <1>6, <1>7 DEF HistType

LEMMA ChunkIsPart ==
  ASSUME TypeInv, NEW c \in Handles
  PROVE  /\ ch[c].tr_words \in 0 .. MaxWords
         /\ ChunkSize(c) \in 0 .. ch[c].tr_words
<1>1. ch[c].tr_words \in 0 .. MaxWords /\ ch[c].mtu \in {0} \cup Mtus
  BY DEF TypeInv, AmigaTypeOK, HandleRecord
<1>2. (\A n \in 0 .. MaxWords : n \in Nat) /\ (\A n \in {0} \cup Mtus : n \in Nat)
  BY MtuAssumption, WordsAssumption
<1>3. \A a, b \in Nat : Least(a, b) \in 0 .. a
  BY DEF Least
<1> QED BY <1>1, <1>2, <1>3 DEF ChunkSize

LEMMA ChunkMovedEffect ==
  ASSUME TypeInv, NEW c \in Handles, Running(c, "chunk"), ChunkMoved(c)
  PROVE  /\ Moves(c) \/ Reports(c)
         /\ session' \in [Handles -> {"none", "acted", "open"}]
<1> DEFINE left == ch[c].tr_words - ChunkSize(c)
           r == [ch[c] EXCEPT !.tr_words = left]
<1>1. ch[c].state = "TRANSFER" /\ work.pc = "chunk" /\ Moving(c)
  BY PcTellsState DEF Moving
<1>2. ch[c].tr_msg \in Msgs
  BY <1>1 DEF TypeInv, MsgState
<1>3. moved' = [moved EXCEPT ![c] = @ + ChunkSize(c)]
  BY DEF ChunkMoved
<1>4. CASE left = 0
  <2>1. Report(c, "OK", mres[ch[c].tr_msg].got_words)
    BY <1>4 DEF ChunkMoved
  <2>2. ChunkSize(c) = ch[c].tr_words
    BY <1>4, ChunkIsPart, WordsAssumption
  <2>3. Accounts(c, "OK", mres[ch[c].tr_msg].got_words)
    BY <1>1, <1>3, <2>2 DEF Accounts
  <2>4. mres[ch[c].tr_msg].got_words \in Int
    <3>1. mres[ch[c].tr_msg].got_words \in UWORD
      BY <1>2 DEF TypeInv, AmigaTypeOK
    <3>2. \A a \in UWORD : a \in Int
      BY DEF UWORD
    <3> QED BY <3>1, <3>2
  <2> QED BY <1>1, <2>1, <2>3, <2>4, ReportReports DEF MsgResults
<1>5. CASE left # 0
  <2>1. Finish(c, r, "STAY") /\ UNCHANGED <<mres, due>>
    BY <1>5 DEF ChunkMoved
  <2>2. left \in 1 .. MaxWords /\ ChunkSize(c) \in 0 .. MaxWords
        /\ ch[c].tr_words = left + ChunkSize(c)
    BY <1>5, ChunkIsPart, WordsAssumption
  <2>3. AfterWork(r, "STAY") = r
    BY DEF AfterWork
  <2>4. ch' = [ch EXCEPT ![c] = r] /\ work' = [c |-> 0, pc |-> "none"]
    BY <2>1, <2>3 DEF Finish
  <2>5. session' \in [Handles -> {"none", "acted", "open"}]
    BY <2>1 DEF Finish, TypeInv, AmigaTypeOK
  <2>6. Moved(c, left, ChunkSize(c))
    BY <1>3, <2>2, <2>4 DEF Moved
  <2> HIDE DEF left, r
  <2> QED BY <1>1, <2>1, <2>2, <2>4, <2>5, <2>6 DEF Moves
<1> QED BY <1>4, <1>5

LEMMA ChunkFailedHolds ==
  ASSUME TypeInv, NEW c \in Handles, NEW res \in {"BUSY", "TIMEOUT"},
         ChunkFailed(c, res)
  PROVE  Holds(c) /\ session' \in [Handles -> {"none", "acted", "open"}]
  BY FailedHolds DEF ChunkFailed

LEMMA ChunkEffect ==
  ASSUME TypeInv, NEW c \in Handles, WorkChunk(c)
  PROVE  (Holds(c) \/ Moves(c) \/ Reports(c)) /\ HistType /\ DevTypeOK'
<1> DEFINE dir == ch[c].tr_msg.op
<1>1. Running(c, "chunk")
  BY DEF WorkChunk
<1>2. dir \in {"RX", "TX"}
  BY <1>1, PcTellsState, MsgsAssumption DEF TypeInv, MsgState, Moving
<1>3. PICK res \in ProtoResults :
        /\ Sends(TRUE, DataChunk(c, dir), res)
        /\ IF res = "OK" THEN ChunkMoved(c) ELSE ChunkFailed(c, res)
  BY DEF WorkChunk
<1> HIDE DEF dir
<1>4. DevTypeOK'
  <2>1. DataChunk(c, dir) \/ NoCommand
    BY <1>3 DEF Sends, NoCommand
  <2> QED BY <1>2, <2>1, DataType, NoCommandType DEF TypeInv
<1>5. /\ Holds(c) \/ Moves(c) \/ Reports(c)
      /\ session' \in [Handles -> {"none", "acted", "open"}]
  BY <1>1, <1>3, ChunkMovedEffect, ChunkFailedHolds DEF ProtoResults
<1>6. stray' \in {"no", "now", "past"}
  BY DEF WorkChunk, TypeInv, AmigaTypeOK
<1>7. faults' \in 0 .. MaxFaults
  BY <1>3, FaultsAssumption DEF Sends, HangResults, TypeInv, AmigaTypeOK
<1> QED BY <1>4, <1>5, <1>6, <1>7 DEF HistType

LEMMA OutOfStepEffect ==
  ASSUME TypeInv, NEW c \in Handles, WorkChunkOutOfStep(c)
  PROVE  (Holds(c) \/ Moves(c) \/ Reports(c)) /\ HistType /\ DevTypeOK'
<1> DEFINE dir == ch[c].tr_msg.op
<1>1. Running(c, "chunk")
  BY DEF WorkChunkOutOfStep
<1>2. dir \in {"RX", "TX"}
  BY <1>1, PcTellsState, MsgsAssumption DEF TypeInv, MsgState, Moving
<1>3. \/ ChunkFailed(c, "BUSY") \/ ChunkFailed(c, "TIMEOUT") \/ ChunkMoved(c)
  BY DEF WorkChunkOutOfStep
<1>4. /\ DataChunk(c, dir) \/ NoCommand
      /\ stray' \in {stray, "now"} /\ faults' = faults
  BY DEF WorkChunkOutOfStep, NoCommand
<1> HIDE DEF dir
<1>5. DevTypeOK'
  BY <1>2, <1>4, DataType, NoCommandType DEF TypeInv
<1>6. /\ Holds(c) \/ Moves(c) \/ Reports(c)
      /\ session' \in [Handles -> {"none", "acted", "open"}]
  BY <1>1, <1>3, ChunkMovedEffect, ChunkFailedHolds
<1> QED BY <1>4, <1>5, <1>6 DEF HistType, TypeInv, AmigaTypeOK

LEMMA CancelEffect ==
  ASSUME TypeInv, NEW c \in Handles, WorkCancel(c)
  PROVE  Reports(c) /\ HistType /\ DevTypeOK'
<1> DEFINE got == mres[ch[c].tr_msg].got_words - ch[c].tr_words
<1>1. Running(c, "cancel") /\ Report(c, "CANCEL", got)
      /\ UNCHANGED <<devVars, moved, stray, faults>>
  BY DEF WorkCancel
<1>2. work.pc = "cancel" /\ Moving(c) /\ ch[c].tr_msg \in Msgs
  BY <1>1, PcTellsState DEF Moving, TypeInv, MsgState
<1>3. got \in Int
  <2>1. mres[ch[c].tr_msg].got_words \in UWORD
    BY <1>2 DEF TypeInv, AmigaTypeOK
  <2>2. \A a \in UWORD, b \in 0 .. MaxWords : a - b \in Int
    BY WordsAssumption DEF UWORD
  <2> QED BY <2>1, <2>2, ChunkIsPart
<1>4. Accounts(c, "CANCEL", got)
  BY <1>1, <1>2 DEF Accounts
<1> HIDE DEF got
<1>5. Reports(c) /\ session' \in [Handles -> {"none", "acted", "open"}]
  BY <1>1, <1>2, <1>3, <1>4, ReportReports DEF MsgResults
<1>6. DevTypeOK' /\ stray' = stray /\ faults' = faults
  BY <1>1, NoCommandType DEF NoCommand, TypeInv
<1> QED BY <1>5, <1>6 DEF HistType, TypeInv, AmigaTypeOK

(* Every step of channel_work.                                              *)
Effect(c) == Holds(c) \/ Sized(c) \/ Moves(c) \/ Reports(c)

LEMMA WorkEffect ==
  ASSUME TypeInv, NEW c \in Handles, WorkStep(c)
  PROVE  Effect(c) /\ HistType /\ DevTypeOK'
<1>1. CASE WorkIndex(c)
  BY <1>1, IndexEffect DEF Effect
<1>2. CASE WorkState(c)
  BY <1>2, StateEffect DEF Effect
<1>3. CASE WorkSetMtu(c)
  BY <1>3, SetMtuCommandEffect DEF Effect
<1>4. CASE WorkGetMtu(c)
  BY <1>4, GetMtuEffect DEF Effect
<1>5. CASE WorkSetWords(c)
  BY <1>5, SetWordsEffect DEF Effect
<1>6. CASE WorkGetWords(c)
  BY <1>6, GetWordsEffect DEF Effect
<1>7. CASE WorkGetMode(c)
  BY <1>7, GetModeEffect DEF Effect
<1>8. CASE WorkAct(c)
  BY <1>8, ActEffect DEF Effect
<1>9. CASE WorkCheck(c)
  BY <1>9, CheckEffect DEF Effect
<1>10. CASE WorkOffset(c)
  BY <1>10, OffsetEffect DEF Effect
<1>11. CASE WorkRxSize(c)
  BY <1>11, RxSizeEffect DEF Effect
<1>12. CASE WorkTxSize(c)
  BY <1>12, TxSizeEffect DEF Effect
<1>13. CASE WorkChunk(c)
  BY <1>13, ChunkEffect DEF Effect
<1>14. CASE WorkChunkOutOfStep(c)
  BY <1>14, OutOfStepEffect DEF Effect
<1>15. CASE WorkCancel(c)
  BY <1>15, CancelEffect DEF Effect
<1> QED BY <1>1, <1>2, <1>3, <1>4, <1>5, <1>6, <1>7, <1>8,
     <1>9, <1>10, <1>11, <1>12, <1>13, <1>14, <1>15 DEF WorkStep

(* The handle that channel_work runs for.                                   *)
LEMMA WorkIsOwn ==
  ASSUME NEW c \in Handles, WorkStep(c)
  PROVE  work.c = c /\ work.pc # "none"
<1> USE DEF Running
<1>1. CASE WorkIndex(c)
  BY <1>1 DEF WorkIndex, OpCommand
<1>2. CASE WorkState(c)
  BY <1>2 DEF WorkState, OpCommand
<1>3. CASE WorkSetMtu(c)
  BY <1>3 DEF WorkSetMtu, OpCommand
<1>4. CASE WorkGetMtu(c)
  BY <1>4 DEF WorkGetMtu, OpCommand
<1>5. CASE WorkSetWords(c)
  BY <1>5 DEF WorkSetWords, OpCommand
<1>6. CASE WorkGetWords(c)
  BY <1>6 DEF WorkGetWords, OpCommand
<1>7. CASE WorkGetMode(c)
  BY <1>7 DEF WorkGetMode, OpCommand
<1>8. CASE WorkAct(c)
  BY <1>8 DEF WorkAct, OpCommand
<1>9. CASE WorkCheck(c)
  BY <1>9 DEF WorkCheck, OpCommand
<1>10. CASE WorkOffset(c)
  BY <1>10 DEF WorkOffset, OpCommand
<1>11. CASE WorkRxSize(c)
  BY <1>11 DEF WorkRxSize, OpCommand
<1>12. CASE WorkTxSize(c)
  BY <1>12 DEF WorkTxSize, OpCommand
<1>13. CASE WorkChunk(c)
  BY <1>13 DEF WorkChunk, OpCommand
<1>14. CASE WorkChunkOutOfStep(c)
  BY <1>14 DEF WorkChunkOutOfStep, OpCommand
<1>15. CASE WorkCancel(c)
  BY <1>15 DEF WorkCancel, OpCommand
<1> QED BY <1>1, <1>2, <1>3, <1>4, <1>5, <1>6, <1>7, <1>8,
     <1>9, <1>10, <1>11, <1>12, <1>13, <1>14, <1>15 DEF WorkStep

------------------------------------------------------------------------------
(* The types, and the command that belongs to the state, are kept.          *)

AmigaInv == AmigaTypeOK /\ PcState /\ MsgState

LEMMA HandleStepType ==
  ASSUME AmigaInv, NEW c \in Handles, NEW r \in HandleRecord,
         ch' = [ch EXCEPT ![c] = r],
         work'.pc # "none" => work'.c = c /\ work'.pc \in PcsOf(r.state),
         work' \in [c : Handles \cup {0}, pc : Pcs],
         r.state \in {"TRANSFER", "CANCEL"} => r.tr_msg \in Msgs,
         mres' \in [Msgs -> [result : MsgResults, got_words : UWORD]],
         due' \in [Handles -> SUBSET Msgs], moved' \in [Handles -> Nat], HistType
  PROVE  AmigaInv'
<1>1. ch' \in [Handles -> HandleRecord]
  BY DEF AmigaInv, AmigaTypeOK
<1>2. ch'[c] = r /\ \A d \in Handles \ {c} : ch'[d] = ch[d]
  BY DEF AmigaInv, AmigaTypeOK
<1>3. AmigaTypeOK'
  BY <1>1 DEF AmigaTypeOK, HistType
<1>4. PcState'
  BY <1>2 DEF PcState
<1>5. MsgState'
  BY <1>2 DEF MsgState, Moving, AmigaInv
<1> QED BY <1>3, <1>4, <1>5 DEF AmigaInv

LEMMA HoldsType ==
  ASSUME AmigaInv, NEW c \in Handles, Holds(c), HistType
  PROVE  AmigaInv'
<1>1. PICK r \in HandleRecord : HeldAs(c, r)
  BY DEF Holds
<1>2. \A pc \in PcsOf(r.state) : pc \in Pcs
  BY DEF PcsOf
<1>3. /\ work'.pc # "none" => work'.c = c /\ work'.pc \in PcsOf(r.state)
      /\ work' \in [c : Handles \cup {0}, pc : Pcs]
  BY <1>1, <1>2 DEF HeldAs, GoesOn, Pcs
<1>4. r.state \in {"TRANSFER", "CANCEL"} => r.tr_msg \in Msgs
  BY <1>1 DEF HeldAs, Target, AmigaInv, MsgState, Moving
<1>5. UNCHANGED <<mres, due, moved>>
  BY DEF Holds
<1>6. /\ mres' \in [Msgs -> [result : MsgResults, got_words : UWORD]]
      /\ due' \in [Handles -> SUBSET Msgs] /\ moved' \in [Handles -> Nat]
  BY <1>5 DEF AmigaInv, AmigaTypeOK
<1>7. ch' = [ch EXCEPT ![c] = r]
  BY <1>1 DEF HeldAs
<1> QED BY <1>3, <1>4, <1>6, <1>7, HandleStepType

LEMMA SizedType ==
  ASSUME AmigaInv, NEW c \in Handles, Sized(c), HistType
  PROVE  AmigaInv'
<1>1. PICK n \in 1 .. MaxWords :
        /\ ch' = [ch EXCEPT ![c] = [ch[c] EXCEPT !.tr_words = n]]
        /\ mres' = [mres EXCEPT ![ch[c].tr_msg].got_words = n]
  BY DEF Sized
<1> DEFINE r == [ch[c] EXCEPT !.tr_words = n]
<1>2. ch[c].state = "TRANSFER" /\ ch[c] \in HandleRecord /\ ch[c].tr_msg \in Msgs
  BY DEF Sized, AmigaInv, AmigaTypeOK, MsgState, Moving
<1>3. n \in 0 .. MaxWords /\ n \in UWORD
  BY WordsAssumption DEF UWORD
<1>4. r \in HandleRecord /\ r.state = "TRANSFER" /\ r.tr_msg \in Msgs
  BY <1>2, <1>3, HandleField DEF HandleRecord
<1>5. mres' \in [Msgs -> [result : MsgResults, got_words : UWORD]]
  BY <1>1, <1>2, <1>3 DEF AmigaInv, AmigaTypeOK
<1>6. work' = [c |-> c, pc |-> "chunk"] /\ "chunk" \in Pcs
      /\ "chunk" \in PcsOf("TRANSFER") /\ UNCHANGED <<due, moved>>
  BY DEF Sized, Pcs, PcsOf
<1>7. due' \in [Handles -> SUBSET Msgs] /\ moved' \in [Handles -> Nat]
  BY <1>6 DEF AmigaInv, AmigaTypeOK
<1> HIDE DEF r
<1> QED BY <1>1, <1>4, <1>5, <1>6, <1>7, HandleStepType DEF r

LEMMA MovesType ==
  ASSUME AmigaInv, NEW c \in Handles, Moves(c), HistType
  PROVE  AmigaInv'
<1>1. PICK n \in 1 .. MaxWords, k \in 0 .. MaxWords : Moved(c, n, k)
  BY DEF Moves
<1> DEFINE r == [ch[c] EXCEPT !.tr_words = n]
<1>2. ch[c].state = "TRANSFER" /\ ch[c] \in HandleRecord /\ ch[c].tr_msg \in Msgs
  BY DEF Moves, AmigaInv, AmigaTypeOK, MsgState, Moving
<1>3. n \in 0 .. MaxWords /\ k \in Nat
  BY WordsAssumption
<1>4. r \in HandleRecord /\ r.state = "TRANSFER" /\ r.tr_msg \in Msgs
  BY <1>2, <1>3, HandleField DEF HandleRecord
<1>5. work' = [c |-> 0, pc |-> "none"] /\ "none" \in Pcs /\ UNCHANGED <<mres, due>>
  BY DEF Moves, Pcs
<1>6. moved' \in [Handles -> Nat]
  BY <1>1, <1>3 DEF Moved, AmigaInv, AmigaTypeOK
<1>7. /\ due' \in [Handles -> SUBSET Msgs]
      /\ mres' \in [Msgs -> [result : MsgResults, got_words : UWORD]]
  BY <1>5 DEF AmigaInv, AmigaTypeOK
<1>8. ch' = [ch EXCEPT ![c] = r]
  BY <1>1 DEF Moved
<1> HIDE DEF r
<1> QED BY <1>4, <1>5, <1>6, <1>7, <1>8, HandleStepType

LEMMA ReportsType ==
  ASSUME AmigaInv, NEW c \in Handles, Reports(c), HistType
  PROVE  AmigaInv'
<1>1. PICK r \in HandleRecord, result \in MsgResults, got \in Int :
        Reported(c, r, result, got)
  BY DEF Reports
<1>2. ch[c].tr_msg \in Msgs /\ ch[c].tr_words \in 0 .. MaxWords
  BY DEF Reports, AmigaInv, AmigaTypeOK, MsgState, HandleRecord
<1>3. got % 65536 \in UWORD
  BY DEF UWORD
<1>4. mres' \in [Msgs -> [result : MsgResults, got_words : UWORD]]
  <2> DEFINE entry == [result |-> result, got_words |-> got % 65536]
  <2>1. entry \in [result : MsgResults, got_words : UWORD]
    BY <1>3
  <2>2. mres' = [mres EXCEPT ![ch[c].tr_msg] = entry]
    BY <1>1 DEF Reported
  <2> HIDE DEF entry
  <2> QED BY <2>1, <2>2 DEF AmigaInv, AmigaTypeOK
<1>5. due' \in [Handles -> SUBSET Msgs]
  BY <1>1 DEF Reported, AmigaInv, AmigaTypeOK
<1>6. moved' \in [Handles -> Nat]
  <2>1. \/ moved' = moved
        \/ moved' = [moved EXCEPT ![c] = @ + ch[c].tr_words]
    BY <1>1 DEF Reported, Accounts
  <2>2. \A k \in 0 .. MaxWords, n \in Nat : n + k \in Nat
    BY WordsAssumption
  <2> QED BY <1>2, <2>1, <2>2 DEF AmigaInv, AmigaTypeOK
<1>7. ch' = [ch EXCEPT ![c] = r] /\ r.state \in {"IDLE", "ERROR"}
  BY <1>1 DEF Reported
<1>8. work' = [c |-> 0, pc |-> "none"]
  BY DEF Reports
<1>9. "none" \in Pcs
  BY DEF Pcs
<1> QED BY <1>4, <1>5, <1>6, <1>7, <1>8, <1>9, HandleStepType

LEMMA FirstPcFits ==
  ASSUME NEW r \in HandleRecord, r.state \notin {"CLOSED", "IDLE", "ERROR"}
  PROVE  FirstPc(r) \in PcsOf(r.state)
<1>1. r.state \in {"OPEN", "CLOSE", "RESET", "POLL", "CANCEL", "TRANSFER"}
  BY DEF HandleRecord, States
<1>2. CASE r.state \in {"OPEN", "CLOSE", "RESET"}
  <2>1. FirstPc(r) = "index"
    BY <1>2 DEF FirstPc
  <2> QED BY <1>2, <2>1 DEF PcsOf, Pcs
<1>3. CASE r.state = "POLL"
  <2>1. FirstPc(r) = "check"
    BY <1>3 DEF FirstPc
  <2> QED BY <1>3, <2>1 DEF PcsOf, Pcs
<1>4. CASE r.state = "CANCEL"
  <2>1. FirstPc(r) = "cancel"
    BY <1>4 DEF FirstPc
  <2> QED BY <1>4, <2>1 DEF PcsOf, Pcs
<1>5. CASE r.state = "TRANSFER"
  <2>1. FirstPc(r) = TransferPc(r)
    BY <1>5 DEF FirstPc
  <2> QED BY <1>5, <2>1 DEF TransferPc, PcsOf, Pcs
<1> QED BY <1>1, <1>2, <1>3, <1>4, <1>5

LEMMA StartType ==
  ASSUME TypeInv, NEW c \in Handles, StartWork(c)
  PROVE  TypeInv'
<1>1. DevTypeOK'
  BY NoCommandType DEF StartWork, NoCommand, TypeInv
<1>2. FirstPc(ch[c]) \in PcsOf(ch[c].state) /\ FirstPc(ch[c]) \in Pcs
  <2>1. FirstPc(ch[c]) \in PcsOf(ch[c].state)
    BY FirstPcFits DEF StartWork, TypeInv, AmigaTypeOK
  <2> QED BY <2>1 DEF PcsOf
<1>3. AmigaTypeOK' /\ MsgState'
  BY <1>2 DEF StartWork, TypeInv, AmigaTypeOK, MsgState, Moving, apiVars, histVars
<1>4. PcState'
  BY <1>2 DEF StartWork, PcState, apiVars
<1> QED BY <1>1, <1>3, <1>4 DEF TypeInv

(* What a call of the API leaves in its handle.                             *)
LEMMA StateHandle ==
  ASSUME NEW r \in HandleRecord, NEW s \in States
  PROVE  /\ [r EXCEPT !.state = s] \in HandleRecord
         /\ [r EXCEPT !.state = s].state = s
         /\ [r EXCEPT !.state = s].tr_msg = r.tr_msg
         /\ [r EXCEPT !.state = s].tr_words = r.tr_words
  BY HandleField DEF HandleRecord

LEMMA TransferHandle ==
  ASSUME NEW r \in HandleRecord, NEW m \in Msgs
  PROVE  LET t == [r EXCEPT !.state = "TRANSFER", !.tr_msg = m, !.tr_words = 0]
         IN /\ t \in HandleRecord
            /\ t.state = "TRANSFER" /\ t.tr_msg = m /\ t.tr_words = 0
<1> DEFINE s == [r EXCEPT !.state = "TRANSFER"]
           u == [s EXCEPT !.tr_msg = m]
<1>1. s \in HandleRecord /\ s.state = "TRANSFER"
  BY StateHandle DEF States
<1> HIDE DEF s
<1>2. u \in HandleRecord /\ u.state = "TRANSFER" /\ u.tr_msg = m
  BY <1>1, HandleField DEF HandleRecord
<1> HIDE DEF u
<1>3. /\ [u EXCEPT !.tr_words = 0] \in HandleRecord
      /\ [u EXCEPT !.tr_words = 0].state = "TRANSFER"
      /\ [u EXCEPT !.tr_words = 0].tr_msg = m
      /\ [u EXCEPT !.tr_words = 0].tr_words = 0
  BY <1>2, HandleField, NoWords DEF HandleRecord
<1> QED BY <1>3 DEF s, u

(* A call that only sets the state.                                         *)
Calls(c, from, s) ==
  /\ work.pc = "none" /\ work' = work
  /\ ch[c].state \in from
  /\ ch' = [ch EXCEPT ![c] = [ch[c] EXCEPT !.state = s]]
  /\ UNCHANGED <<devVars, mres, moved, stray, faults>>

ApiEffect(c) ==
  \/ Calls(c, {"CLOSED"}, "OPEN") /\ UNCHANGED <<due, session>>
  \/ /\ Calls(c, {"IDLE"}, "CLOSE") \/ Calls(c, {"OPEN"}, "IDLE")
     /\ session' = [session EXCEPT ![c] = "none"] /\ UNCHANGED due
  \/ /\ Calls(c, States, "RESET")
     /\ due' = [due EXCEPT ![c] = {}]
     /\ session' = [session EXCEPT ![c] = "none"]
  \/ Calls(c, {"IDLE"}, "POLL") /\ UNCHANGED <<due, session>>
  \/ Calls(c, {"TRANSFER"}, "CANCEL") /\ UNCHANGED <<due, session>>

LEMMA CallType ==
  ASSUME TypeInv, NEW c \in Handles, NEW from, NEW s \in States \ {"TRANSFER"},
         s = "CANCEL" => from = {"TRANSFER"}, Calls(c, from, s), HistType,
         due' \in [Handles -> SUBSET Msgs]
  PROVE  AmigaInv'
<1> DEFINE r == [ch[c] EXCEPT !.state = s]
<1>1. ch[c] \in HandleRecord /\ AmigaInv
  BY DEF TypeInv, AmigaTypeOK, AmigaInv
<1>2. r \in HandleRecord /\ r.state = s /\ r.tr_msg = ch[c].tr_msg
  BY <1>1, StateHandle
<1>3. r.state \in {"TRANSFER", "CANCEL"} => r.tr_msg \in Msgs
  BY <1>2 DEF Calls, TypeInv, MsgState, Moving
<1>4. ch' = [ch EXCEPT ![c] = r] /\ work' = work /\ work.pc = "none"
  BY DEF Calls
<1>5. /\ mres' \in [Msgs -> [result : MsgResults, got_words : UWORD]]
      /\ moved' \in [Handles -> Nat]
      /\ work' \in [c : Handles \cup {0}, pc : Pcs]
  BY DEF Calls, TypeInv, AmigaTypeOK
<1> HIDE DEF r
<1> QED BY <1>1, <1>2, <1>3, <1>4, <1>5, HandleStepType

LEMMA CallEffects ==
  ASSUME NEW c \in Handles, ApiCall(c)
  PROVE  ApiEffect(c) \/ \E m \in Msgs : Transfer(c, m)
  BY DEF ApiCall, Open, Close, Reset, Poll, Cancel, Call, Calls, ApiEffect

LEMMA ApiType ==
  ASSUME TypeInv, NEW c \in Handles, ApiCall(c)
  PROVE  TypeInv'
<1>1. ch[c] \in HandleRecord /\ AmigaInv
  BY DEF TypeInv, AmigaTypeOK, AmigaInv
<1>2. DevTypeOK' /\ work' = work /\ work.pc = "none"
  <2>1. UNCHANGED devVars /\ work' = work /\ work.pc = "none"
    BY CallEffects DEF ApiEffect, Calls, Transfer, Call
  <2> QED BY <2>1, NoCommandType DEF NoCommand, TypeInv
<1>3. HistType
  BY CallEffects DEF ApiEffect, Calls, Transfer, Call, HistType, TypeInv, AmigaTypeOK
<1>4. work' \in [c : Handles \cup {0}, pc : Pcs]
  BY <1>2 DEF TypeInv, AmigaTypeOK
<1>5. CASE ApiEffect(c)
  <2>1. due' \in [Handles -> SUBSET Msgs]
    BY <1>5 DEF ApiEffect, Calls, TypeInv, AmigaTypeOK
  <2>2. \/ Calls(c, {"CLOSED"}, "OPEN") \/ Calls(c, {"IDLE"}, "CLOSE")
        \/ Calls(c, {"OPEN"}, "IDLE") \/ Calls(c, States, "RESET")
        \/ Calls(c, {"IDLE"}, "POLL") \/ Calls(c, {"TRANSFER"}, "CANCEL")
    BY <1>5 DEF ApiEffect
  <2>3. AmigaInv'
    BY <1>3, <2>1, <2>2, CallType DEF States
  <2> QED BY <1>2, <2>3 DEF AmigaInv, TypeInv
<1>6. CASE \E m \in Msgs : Transfer(c, m)
  <2>1. PICK m \in Msgs : Transfer(c, m)
    BY <1>6
  <2> DEFINE r == [ch[c] EXCEPT !.state = "TRANSFER", !.tr_msg = m, !.tr_words = 0]
  <2>2. r \in HandleRecord /\ r.state = "TRANSFER" /\ r.tr_msg = m
    BY <1>1, TransferHandle
  <2>3. ch' = [ch EXCEPT ![c] = r]
    BY <2>1 DEF Transfer, Call
  <2>4. 0 \in UWORD
    BY DEF UWORD
  <2>5. /\ mres' \in [Msgs -> [result : MsgResults, got_words : UWORD]]
        /\ due' \in [Handles -> SUBSET Msgs] /\ moved' \in [Handles -> Nat]
    BY <2>1, <2>4 DEF Transfer, TypeInv, AmigaTypeOK
  <2> HIDE DEF r
  <2>6. AmigaInv'
    BY <1>1, <1>2, <1>3, <1>4, <2>2, <2>3, <2>5, HandleStepType
  <2> QED BY <1>2, <2>6 DEF AmigaInv, TypeInv
<1> QED BY <1>5, <1>6, CallEffects

LEMMA DeviceStepType ==
  ASSUME TypeInv, DeviceStep
  PROVE  TypeInv'
<1>1. DevHandler \/ Restart \/ ResetCommand \/ DevCommand
  BY DEF DeviceStep, DeviceHandler, DeviceRestart, DeviceReset, StrayStep,
         StrayCommand, DevHandler
<1>2. DevTypeOK'
  BY <1>1, HandlerType, RestartType, CommandType DEF TypeInv
<1>3. UNCHANGED <<apiVars, work>> /\ HistType
  BY DEF DeviceStep, DeviceHandler, DeviceRestart, DeviceReset, StrayStep,
         StrayCommand, HistType, TypeInv, AmigaTypeOK, histVars
<1>4. AmigaTypeOK' /\ PcState' /\ MsgState'
  BY <1>3 DEF TypeInv, AmigaTypeOK, PcState, MsgState, Moving, apiVars, HistType
<1> QED BY <1>2, <1>4 DEF TypeInv

LEMMA WorkType ==
  ASSUME TypeInv, NEW c \in Handles, WorkStep(c)
  PROVE  TypeInv'
<1>1. Effect(c) /\ HistType /\ DevTypeOK' /\ AmigaInv
  BY WorkEffect DEF TypeInv, AmigaInv
<1>2. AmigaInv'
  BY <1>1, HoldsType, SizedType, MovesType, ReportsType DEF Effect
<1> QED BY <1>1, <1>2 DEF TypeInv, AmigaInv

LEMMA TypeInvariant == Spec => []TypeInv
<1>1. Init => TypeInv
  <2> SUFFICES ASSUME Init PROVE TypeInv
    OBVIOUS
  <2>1. DevTypeOK
    BY MtuAssumption, WordsAssumption, OffsetAssumption
    DEF Init, DevInit, DevTypeOK, FreshChannel, ChannelRecord, DevStates, ErrorCodes,
        MaxChannel
  <2>2. ClosedHandle \in HandleRecord /\ ClosedHandle.state = "CLOSED"
    BY NoWords DEF ClosedHandle, HandleRecord, States
  <2>3. 0 \in UWORD /\ "none" \in Pcs /\ "OK" \in MsgResults
    BY DEF UWORD, Pcs, MsgResults
  <2>4. ch \in [Handles -> HandleRecord] /\ work = [c |-> 0, pc |-> "none"]
        /\ \A c \in Handles : ch[c].state = "CLOSED"
    BY <2>2 DEF Init
  <2>5. AmigaTypeOK
    BY <2>3, <2>4, FaultsAssumption DEF Init, AmigaTypeOK
  <2>6. PcState /\ MsgState
    BY <2>4 DEF PcState, MsgState, Moving
  <2> QED BY <2>1, <2>5, <2>6 DEF TypeInv
<1>2. TypeInv /\ [Next]_vars => TypeInv'
  <2> SUFFICES ASSUME TypeInv, [Next]_vars PROVE TypeInv'
    OBVIOUS
  <2>1. CASE UNCHANGED vars
    BY <2>1 DEF vars, devVars, TypeInv, DevTypeOK, AmigaTypeOK, PcState, MsgState, Moving
  <2> QED BY <2>1, StartType, WorkType, ApiType, DeviceStepType DEF Next
<1> QED BY <1>1, <1>2, PTL DEF Spec

(* The variables of the driver and of the device stay in the range of their *)
(* C types, in particular got_words and the channel number that is selected.*)
THEOREM DriverType == Spec => []TypeOK
<1>1. TypeInv => TypeOK
  BY DEF TypeInv, AmigaTypeOK, TypeOK
<1> QED BY <1>1, TypeInvariant, PTL

------------------------------------------------------------------------------
(* Who owns a message, and how many of its words have moved.                *)

(* No message is in the hands of two handles.                               *)
OneOwner == \A c, d \in Handles : c # d => due[c] \cap due[d] = {}

(* A transfer has its size once its chunks begin.                           *)
WordsOfPc ==
  \A c \in Handles :
    /\ Running(c, "offset") \/ Running(c, "size") => ch[c].tr_words = 0
    /\ Running(c, "chunk") => ch[c].tr_words # 0

(* got_words is the size of the message: the words moved and those left.    *)
Accounting ==
  \A c \in Handles :
    Moving(c) => /\ mres[ch[c].tr_msg].got_words = ch[c].tr_words + moved[c]
                 /\ ch[c].tr_words = 0 => moved[c] = 0

OwnInv == TypeInv /\ OwnsWhatItMoves /\ OneOwner

MoveInv == OwnInv /\ WordsOfPc /\ Accounting

LEMMA OwnStep ==
  ASSUME OwnInv, NEW c \in Handles, NEW r, ch' = [ch EXCEPT ![c] = r],
         NEW ms \in SUBSET Msgs, due' = [due EXCEPT ![c] = ms],
         r.state \in {"TRANSFER", "CANCEL"} => ms = {r.tr_msg},
         r.state \notin {"TRANSFER", "CANCEL"} => ms = {},
         \A d \in Handles \ {c} : ms \cap due[d] = {}
  PROVE  OwnsWhatItMoves' /\ OneOwner'
<1>1. /\ ch'[c] = r /\ \A d \in Handles \ {c} : ch'[d] = ch[d]
      /\ due'[c] = ms /\ \A d \in Handles \ {c} : due'[d] = due[d]
  BY DEF OwnInv, TypeInv, AmigaTypeOK
<1>2. OwnsWhatItMoves'
  BY <1>1 DEF OwnInv, OwnsWhatItMoves
<1>3. OneOwner'
  BY <1>1 DEF OwnInv, OneOwner
<1> QED BY <1>2, <1>3

LEMMA OwnNothing ==
  ASSUME OwnInv, NEW c \in Handles, NEW r, ch' = [ch EXCEPT ![c] = r],
         r.state \notin {"TRANSFER", "CANCEL"}, due' = [due EXCEPT ![c] = {}]
  PROVE  OwnsWhatItMoves' /\ OneOwner'
<1> DEFINE none == {}
<1>1. /\ none \in SUBSET Msgs /\ due' = [due EXCEPT ![c] = none] /\ none = {}
      /\ \A d \in Handles \ {c} : none \cap due[d] = {}
  OBVIOUS
<1> HIDE DEF none
<1> QED BY <1>1, OwnStep

(* What the handle owns stays the same when its state and message do.       *)
LEMMA OwnSame ==
  ASSUME OwnInv, NEW c \in Handles, NEW r, ch' = [ch EXCEPT ![c] = r],
         UNCHANGED due,
         \/ r.state = ch[c].state /\ r.tr_msg = ch[c].tr_msg
         \/ Moving(c) /\ r.state \in {"TRANSFER", "CANCEL"} /\ r.tr_msg = ch[c].tr_msg
         \/ ~Moving(c) /\ r.state \notin {"TRANSFER", "CANCEL"}
  PROVE  OwnsWhatItMoves' /\ OneOwner'
<1> DEFINE ms == due[c]
<1>1. due' = [due EXCEPT ![c] = ms] /\ ms \in SUBSET Msgs
  BY DEF OwnInv, TypeInv, AmigaTypeOK
<1>2. /\ r.state \in {"TRANSFER", "CANCEL"} => ms = {r.tr_msg}
      /\ r.state \notin {"TRANSFER", "CANCEL"} => ms = {}
  BY DEF OwnInv, OwnsWhatItMoves, Moving
<1>3. \A d \in Handles \ {c} : ms \cap due[d] = {}
  BY DEF OwnInv, OneOwner
<1> HIDE DEF ms
<1> QED BY <1>1, <1>2, <1>3, OwnStep

LEMMA HoldsOwns ==
  ASSUME OwnInv, NEW c \in Handles, Holds(c)
  PROVE  OwnsWhatItMoves' /\ OneOwner'
<1>1. PICK r \in HandleRecord : HeldAs(c, r)
  BY DEF Holds
<1>2. ch' = [ch EXCEPT ![c] = r] /\ r.tr_msg = ch[c].tr_msg
  BY <1>1 DEF HeldAs
<1>4. UNCHANGED due
  BY DEF Holds
<1>3. \/ r.state = ch[c].state
      \/ ~Moving(c) /\ r.state \notin {"TRANSFER", "CANCEL"}
  BY <1>1 DEF HeldAs, Target
<1> QED BY <1>2, <1>3, <1>4, OwnSame

LEMMA KeptWordsOwns ==
  ASSUME OwnInv, NEW c \in Handles, NEW n, UNCHANGED due,
         ch' = [ch EXCEPT ![c] = [ch[c] EXCEPT !.tr_words = n]]
  PROVE  OwnsWhatItMoves' /\ OneOwner'
<1> DEFINE r == [ch[c] EXCEPT !.tr_words = n]
<1>1. r.state = ch[c].state /\ r.tr_msg = ch[c].tr_msg
  BY DEF OwnInv, TypeInv, AmigaTypeOK, HandleRecord
<1> HIDE DEF r
<1> QED BY <1>1, OwnSame DEF r

LEMMA ReportsOwns ==
  ASSUME OwnInv, NEW c \in Handles, Reports(c)
  PROVE  OwnsWhatItMoves' /\ OneOwner'
<1>1. PICK r \in HandleRecord, result \in MsgResults, got \in Int :
        Reported(c, r, result, got)
  BY DEF Reports
<1>2. due[c] = {ch[c].tr_msg}
  BY DEF Reports, OwnInv, OwnsWhatItMoves, Moving
<1>3. ch' = [ch EXCEPT ![c] = r] /\ r.state \notin {"TRANSFER", "CANCEL"}
  BY <1>1 DEF Reported
<1>4. due' = [due EXCEPT ![c] = {}]
  <2>1. due' = [due EXCEPT ![c] = @ \ {ch[c].tr_msg}]
    BY <1>1 DEF Reported
  <2> QED BY <1>2, <2>1
<1> QED BY <1>3, <1>4, OwnNothing

LEMMA CallOwns ==
  ASSUME OwnInv, NEW c \in Handles, NEW from, NEW s \in States,
         Calls(c, from, s), UNCHANGED due,
         \/ from = {"TRANSFER"} /\ s = "CANCEL"
         \/ from \cap {"TRANSFER", "CANCEL"} = {} /\ s \notin {"TRANSFER", "CANCEL"}
  PROVE  OwnsWhatItMoves' /\ OneOwner'
<1> DEFINE r == [ch[c] EXCEPT !.state = s]
<1>1. r.state = s /\ r.tr_msg = ch[c].tr_msg
  BY StateHandle DEF OwnInv, TypeInv, AmigaTypeOK
<1>2. ch' = [ch EXCEPT ![c] = r]
  BY DEF Calls
<1>3. \/ Moving(c) /\ r.state \in {"TRANSFER", "CANCEL"} /\ r.tr_msg = ch[c].tr_msg
      \/ ~Moving(c) /\ r.state \notin {"TRANSFER", "CANCEL"}
  BY <1>1 DEF Calls, Moving
<1> HIDE DEF r
<1> QED BY <1>2, <1>3, OwnSame

LEMMA ApiOwns ==
  ASSUME OwnInv, NEW c \in Handles, ApiCall(c)
  PROVE  OwnsWhatItMoves' /\ OneOwner'
<1>1. CASE ApiEffect(c)
  <2>1. CASE Calls(c, States, "RESET") /\ due' = [due EXCEPT ![c] = {}]
    <3> DEFINE r == [ch[c] EXCEPT !.state = "RESET"]
    <3>1. r.state = "RESET"
      BY StateHandle DEF OwnInv, TypeInv, AmigaTypeOK, States
    <3>2. ch' = [ch EXCEPT ![c] = r]
      BY <2>1 DEF Calls
    <3> HIDE DEF r
    <3> QED BY <2>1, <3>1, <3>2, OwnNothing
  <2>2. CASE UNCHANGED due /\ \/ Calls(c, {"CLOSED"}, "OPEN")
                              \/ Calls(c, {"IDLE"}, "CLOSE")
                              \/ Calls(c, {"OPEN"}, "IDLE")
                              \/ Calls(c, {"IDLE"}, "POLL")
                              \/ Calls(c, {"TRANSFER"}, "CANCEL")
    BY <2>2, CallOwns DEF States
  <2> QED BY <1>1, <2>1, <2>2 DEF ApiEffect
<1>2. ASSUME NEW m \in Msgs, Transfer(c, m)
      PROVE  OwnsWhatItMoves' /\ OneOwner'
  <2> DEFINE r == [ch[c] EXCEPT !.state = "TRANSFER", !.tr_msg = m, !.tr_words = 0]
  <2>1. r.state = "TRANSFER" /\ r.tr_msg = m
    BY TransferHandle DEF OwnInv, TypeInv, AmigaTypeOK
  <2> DEFINE ms == {m}
  <2>2. ch' = [ch EXCEPT ![c] = r] /\ due' = [due EXCEPT ![c] = ms]
    BY <1>2 DEF Transfer, Call
  <2>3. /\ ms = {r.tr_msg} /\ ms \in SUBSET Msgs
        /\ \A d \in Handles \ {c} : ms \cap due[d] = {}
    BY <1>2, <2>1 DEF Transfer
  <2> HIDE DEF r, ms
  <2> QED BY <2>1, <2>2, <2>3, OwnStep
<1> QED BY <1>1, <1>2, CallEffects

LEMMA OwnInvariant == Spec => []OwnInv
<1>1. Init => OwnsWhatItMoves /\ OneOwner
  BY DEF Init, ClosedHandle, OwnsWhatItMoves, OneOwner
<1>2. OwnInv /\ [Next]_vars => OwnsWhatItMoves' /\ OneOwner'
  <2> SUFFICES ASSUME OwnInv, [Next]_vars PROVE OwnsWhatItMoves' /\ OneOwner'
    OBVIOUS
  <2>1. CASE UNCHANGED <<ch, due>>
    BY <2>1 DEF OwnInv, OwnsWhatItMoves, OneOwner
  <2>2. ASSUME NEW c \in Handles, WorkStep(c)
        PROVE  OwnsWhatItMoves' /\ OneOwner'
    <3>1. Effect(c)
      BY <2>2, WorkEffect DEF OwnInv
    <3> QED BY <3>1, HoldsOwns, KeptWordsOwns, ReportsOwns
            DEF Effect, Sized, Moves, Moved
  <2>3. \/ UNCHANGED <<ch, due>>
        \/ \E c \in Handles : WorkStep(c) \/ ApiCall(c)
    BY DEF Next, vars, StartWork, apiVars, DeviceStep, DeviceHandler, DeviceRestart,
           DeviceReset, StrayStep, StrayCommand
  <2> QED BY <2>1, <2>2, <2>3, ApiOwns
<1> QED BY <1>1, <1>2, TypeInvariant, PTL DEF Spec, OwnInv

(* A message is with its handle exactly while the handle moves or cancels   *)
(* it, so that it is handed back once, and only to an owner that waits for  *)
(* it.                                                                      *)
THEOREM OwnershipKept == Spec => []OwnsWhatItMoves
  BY OwnInvariant, PTL DEF OwnInv

------------------------------------------------------------------------------
(* The words of a message.                                                  *)

LEMMA OwnMessages ==
  ASSUME OwnInv, NEW c \in Handles, NEW d \in Handles \ {c}, Moving(c), Moving(d)
  PROVE  ch[c].tr_msg # ch[d].tr_msg
  BY DEF OwnInv, OwnsWhatItMoves, OneOwner, Moving

(* The other handles do not notice a step that leaves their messages alone. *)
LEMMA AccountingStep ==
  ASSUME MoveInv, NEW c \in Handles, NEW r, ch' = [ch EXCEPT ![c] = r],
         \A d \in Handles \ {c} : moved'[d] = moved[d],
         \A d \in Handles \ {c} :
           Moving(d) => mres'[ch[d].tr_msg] = mres[ch[d].tr_msg],
         r.state \in {"TRANSFER", "CANCEL"}
           => /\ mres'[r.tr_msg].got_words = r.tr_words + moved'[c]
              /\ r.tr_words = 0 => moved'[c] = 0
  PROVE  Accounting'
<1>1. ch'[c] = r /\ \A d \in Handles \ {c} : ch'[d] = ch[d]
  BY DEF MoveInv, OwnInv, TypeInv, AmigaTypeOK
<1>2. ASSUME NEW d \in Handles, Moving(d)'
      PROVE  /\ mres'[ch'[d].tr_msg].got_words = ch'[d].tr_words + moved'[d]
             /\ ch'[d].tr_words = 0 => moved'[d] = 0
  <2>1. CASE d = c
    BY <1>1, <1>2, <2>1 DEF Moving
  <2>2. CASE d # c
    BY <1>1, <1>2, <2>2 DEF Moving, MoveInv, Accounting
  <2> QED BY <2>1, <2>2
<1> QED BY <1>2 DEF Accounting

LEMMA HoldsMoves ==
  ASSUME MoveInv, NEW c \in Handles, Holds(c), work.c = c, work.pc # "none"
  PROVE  WordsOfPc' /\ Accounting'
<1>1. PICK r \in HandleRecord : HeldAs(c, r)
  BY DEF Holds
<1>2. ch' = [ch EXCEPT ![c] = r] /\ r.tr_msg = ch[c].tr_msg
      /\ r.tr_words = ch[c].tr_words
  BY <1>1 DEF HeldAs
<1>3. mres' = mres /\ moved' = moved
  BY DEF Holds
<1>4. r.state \in {"TRANSFER", "CANCEL"} => Moving(c)
  BY <1>1 DEF HeldAs, Target, Moving
<1>5. r.state \in {"TRANSFER", "CANCEL"}
        => /\ mres'[r.tr_msg].got_words = r.tr_words + moved'[c]
           /\ r.tr_words = 0 => moved'[c] = 0
  BY <1>2, <1>3, <1>4 DEF MoveInv, Accounting
<1>6. Accounting'
  BY <1>2, <1>3, <1>5, AccountingStep
<1>7. ch'[c].tr_words = ch[c].tr_words
  BY <1>2 DEF MoveInv, OwnInv, TypeInv, AmigaTypeOK
<1>8. \/ work' = [c |-> 0, pc |-> "none"]
      \/ \E pc : GoesOn(c, pc)
  BY <1>1 DEF HeldAs
<1>9. WordsOfPc'
  <2>1. work = [c |-> c, pc |-> work.pc]
    BY DEF MoveInv, OwnInv, TypeInv, AmigaTypeOK
  <2> QED BY <1>7, <1>8, <2>1 DEF GoesOn, WordsOfPc, MoveInv, Running
<1> QED BY <1>6, <1>9

LEMMA SizedMoves ==
  ASSUME MoveInv, NEW c \in Handles, Sized(c), work.c = c
  PROVE  WordsOfPc' /\ Accounting'
<1>1. PICK n \in 1 .. MaxWords :
        /\ ch' = [ch EXCEPT ![c] = [ch[c] EXCEPT !.tr_words = n]]
        /\ mres' = [mres EXCEPT ![ch[c].tr_msg].got_words = n]
  BY DEF Sized
<1> DEFINE r == [ch[c] EXCEPT !.tr_words = n]
<1>2. ch[c] \in HandleRecord /\ Moving(c) /\ work = [c |-> c, pc |-> "size"]
  BY DEF Sized, MoveInv, OwnInv, TypeInv, AmigaTypeOK, Moving
<1>3. r.tr_words = n /\ r.tr_msg = ch[c].tr_msg
  BY <1>2 DEF HandleRecord
<1>4. moved' = moved /\ work' = [c |-> c, pc |-> "chunk"]
  BY DEF Sized
<1>5. moved[c] = 0
  <2>1. Running(c, "size")
    BY <1>2 DEF Running
  <2> QED BY <1>2, <2>1 DEF MoveInv, WordsOfPc, Accounting
<1>6. n \in Nat \ {0}
  BY WordsAssumption
<1>7. ch[c].tr_msg \in Msgs
  BY <1>2 DEF MoveInv, OwnInv, TypeInv, MsgState
<1>8. /\ mres'[ch[c].tr_msg].got_words = n
      /\ \A m \in Msgs \ {ch[c].tr_msg} : mres'[m] = mres[m]
  BY <1>1, <1>7 DEF MoveInv, OwnInv, TypeInv, AmigaTypeOK
<1>9. \A d \in Handles \ {c} :
        Moving(d) => ch[d].tr_msg # ch[c].tr_msg /\ ch[d].tr_msg \in Msgs
  BY <1>2, OwnMessages DEF MoveInv, OwnInv, TypeInv, MsgState
<1>10. ch' = [ch EXCEPT ![c] = r]
  BY <1>1
<1> HIDE DEF r
<1>11. Accounting'
  <2>1. n + 0 = n
    BY <1>6
  <2>2. mres'[r.tr_msg].got_words = r.tr_words + moved'[c] /\ r.tr_words # 0
    BY <1>3, <1>4, <1>5, <1>6, <1>8, <2>1
  <2>3. \A d \in Handles \ {c} :
          Moving(d) => mres'[ch[d].tr_msg] = mres[ch[d].tr_msg]
    BY <1>8, <1>9
  <2> QED BY <1>4, <1>10, <2>2, <2>3, AccountingStep
<1>12. WordsOfPc'
  <2>1. ch'[c].tr_words = n
    BY <1>3, <1>10 DEF MoveInv, OwnInv, TypeInv, AmigaTypeOK
  <2> QED BY <1>4, <1>6, <2>1 DEF WordsOfPc, Running
<1> QED BY <1>11, <1>12

LEMMA MovesMoves ==
  ASSUME MoveInv, NEW c \in Handles, Moves(c)
  PROVE  WordsOfPc' /\ Accounting'
<1>1. PICK n \in 1 .. MaxWords, k \in 0 .. MaxWords : Moved(c, n, k)
  BY DEF Moves
<1> DEFINE r == [ch[c] EXCEPT !.tr_words = n]
<1>2. ch[c] \in HandleRecord /\ Moving(c) /\ moved[c] \in Nat
  BY DEF Moves, MoveInv, OwnInv, TypeInv, AmigaTypeOK, Moving
<1>3. r.tr_words = n /\ r.tr_msg = ch[c].tr_msg
  BY <1>2 DEF HandleRecord
<1>4. mres' = mres /\ work' = [c |-> 0, pc |-> "none"]
  BY DEF Moves
<1>5. n \in Nat \ {0} /\ k \in Nat
  BY WordsAssumption
<1>6. /\ ch[c].tr_words = n + k /\ moved'[c] = moved[c] + k
      /\ \A d \in Handles \ {c} : moved'[d] = moved[d]
  BY <1>1 DEF Moved, MoveInv, OwnInv, TypeInv, AmigaTypeOK
<1>7. mres[ch[c].tr_msg].got_words = ch[c].tr_words + moved[c]
  BY <1>2 DEF MoveInv, Accounting
<1>8. n + k + moved[c] = n + (moved[c] + k)
  BY <1>2, <1>5
<1>9. ch' = [ch EXCEPT ![c] = r]
  BY <1>1 DEF Moved
<1> HIDE DEF r
<1>10. Accounting'
  BY <1>3, <1>4, <1>5, <1>6, <1>7, <1>8, <1>9, AccountingStep
<1>11. WordsOfPc'
  BY <1>4 DEF WordsOfPc, Running
<1> QED BY <1>10, <1>11

LEMMA ReportsMoves ==
  ASSUME MoveInv, NEW c \in Handles, Reports(c)
  PROVE  WordsOfPc' /\ Accounting'
<1>1. PICK r \in HandleRecord, result \in MsgResults, got \in Int :
        Reported(c, r, result, got)
  BY DEF Reports
<1>2. Moving(c) /\ work' = [c |-> 0, pc |-> "none"]
  BY DEF Reports
<1>3. ch' = [ch EXCEPT ![c] = r] /\ r.state \notin {"TRANSFER", "CANCEL"}
  BY <1>1 DEF Reported
<1>4. \A d \in Handles \ {c} : moved'[d] = moved[d]
  <2>1. \/ moved' = moved
        \/ moved' = [moved EXCEPT ![c] = @ + ch[c].tr_words]
    BY <1>1 DEF Reported, Accounts
  <2> QED BY <2>1 DEF MoveInv, OwnInv, TypeInv, AmigaTypeOK
<1>5. \A m \in Msgs \ {ch[c].tr_msg} : mres'[m] = mres[m]
  <2> DEFINE entry == [result |-> result, got_words |-> got % 65536]
  <2>1. mres' = [mres EXCEPT ![ch[c].tr_msg] = entry]
    BY <1>1 DEF Reported
  <2> HIDE DEF entry
  <2> QED BY <2>1 DEF MoveInv, OwnInv, TypeInv, AmigaTypeOK
<1>6. \A d \in Handles \ {c} :
        Moving(d) => ch[d].tr_msg # ch[c].tr_msg /\ ch[d].tr_msg \in Msgs
  BY <1>2, OwnMessages DEF MoveInv, OwnInv, TypeInv, MsgState
<1>7. Accounting'
  BY <1>3, <1>4, <1>5, <1>6, AccountingStep
<1>8. WordsOfPc'
  BY <1>2 DEF WordsOfPc, Running
<1> QED BY <1>7, <1>8

LEMMA CallMoves ==
  ASSUME MoveInv, NEW c \in Handles, NEW from, NEW s \in States \ {"TRANSFER"},
         s = "CANCEL" => from = {"TRANSFER"}, Calls(c, from, s)
  PROVE  Accounting'
<1> DEFINE r == [ch[c] EXCEPT !.state = s]
<1>1. r.state = s /\ r.tr_msg = ch[c].tr_msg /\ r.tr_words = ch[c].tr_words
  BY StateHandle DEF MoveInv, OwnInv, TypeInv, AmigaTypeOK
<1>2. ch' = [ch EXCEPT ![c] = r]
  BY DEF Calls
<1>3. mres' = mres /\ moved' = moved
  BY DEF Calls
<1>4. r.state \in {"TRANSFER", "CANCEL"} => Moving(c)
  BY <1>1 DEF Calls, Moving
<1>5. r.state \in {"TRANSFER", "CANCEL"}
        => /\ mres'[r.tr_msg].got_words = r.tr_words + moved'[c]
           /\ r.tr_words = 0 => moved'[c] = 0
  BY <1>1, <1>3, <1>4 DEF MoveInv, Accounting
<1> HIDE DEF r
<1> QED BY <1>2, <1>3, <1>5, AccountingStep

LEMMA ApiMoves ==
  ASSUME MoveInv, NEW c \in Handles, ApiCall(c)
  PROVE  WordsOfPc' /\ Accounting'
<1>1. work' = work /\ work.pc = "none"
  BY CallEffects DEF ApiEffect, Calls, Transfer, Call
<1>2. WordsOfPc'
  BY <1>1 DEF WordsOfPc, Running
<1>3. CASE ApiEffect(c)
  <2>1. \/ Calls(c, {"CLOSED"}, "OPEN") \/ Calls(c, {"IDLE"}, "CLOSE")
        \/ Calls(c, {"OPEN"}, "IDLE") \/ Calls(c, States, "RESET")
        \/ Calls(c, {"IDLE"}, "POLL") \/ Calls(c, {"TRANSFER"}, "CANCEL")
    BY <1>3 DEF ApiEffect
  <2> QED BY <1>2, <2>1, CallMoves DEF States
<1>4. ASSUME NEW m \in Msgs, Transfer(c, m)
      PROVE  Accounting'
  <2> DEFINE r == [ch[c] EXCEPT !.state = "TRANSFER", !.tr_msg = m, !.tr_words = 0]
  <2>1. r.tr_msg = m /\ r.tr_words = 0
    BY TransferHandle DEF MoveInv, OwnInv, TypeInv, AmigaTypeOK
  <2>2. ch' = [ch EXCEPT ![c] = r]
    BY <1>4 DEF Transfer, Call
  <2>3. /\ mres'[m].got_words = 0
        /\ \A k \in Msgs \ {m} : mres'[k] = mres[k]
        /\ moved'[c] = 0
        /\ \A d \in Handles \ {c} : moved'[d] = moved[d]
    BY <1>4 DEF Transfer, MoveInv, OwnInv, TypeInv, AmigaTypeOK
  <2>4. \A d \in Handles \ {c} : Moving(d) => ch[d].tr_msg # m /\ ch[d].tr_msg \in Msgs
    BY <1>4 DEF Transfer, MoveInv, OwnInv, OwnsWhatItMoves, TypeInv, MsgState, Moving
  <2>5. \A d \in Handles \ {c} : Moving(d) => mres'[ch[d].tr_msg] = mres[ch[d].tr_msg]
    BY <2>3, <2>4
  <2>6. mres'[r.tr_msg].got_words = r.tr_words + moved'[c] /\ moved'[c] = 0
    BY <2>1, <2>3
  <2> HIDE DEF r
  <2> QED BY <2>2, <2>3, <2>5, <2>6, AccountingStep
<1> QED BY <1>2, <1>3, <1>4, CallEffects

LEMMA StartMoves ==
  ASSUME MoveInv, NEW c \in Handles, StartWork(c)
  PROVE  WordsOfPc' /\ Accounting'
<1>1. UNCHANGED <<ch, mres, moved>> /\ work' = [c |-> c, pc |-> FirstPc(ch[c])]
  BY DEF StartWork, apiVars
<1>2. Accounting'
  BY <1>1 DEF MoveInv, Accounting, Moving
<1>3. FirstPc(ch[c]) \in {"offset", "size", "chunk"} => FirstPc(ch[c]) = TransferPc(ch[c])
  <2>1. FirstPc(ch[c]) \in PcsOf(ch[c].state)
    BY FirstPcFits DEF StartWork, MoveInv, OwnInv, TypeInv, AmigaTypeOK
  <2>2. CASE ch[c].state = "TRANSFER"
    BY <2>2 DEF FirstPc
  <2>3. CASE ch[c].state # "TRANSFER"
    BY <2>1, <2>3 DEF PcsOf, AfterIndex
  <2> QED BY <2>2, <2>3
<1>4. WordsOfPc'
  BY <1>1, <1>3 DEF WordsOfPc, Running, TransferPc
<1> QED BY <1>2, <1>4

LEMMA MoveInvariant == Spec => []MoveInv
<1>1. Init => WordsOfPc /\ Accounting
  BY DEF Init, ClosedHandle, WordsOfPc, Running, Accounting, Moving
<1>2. MoveInv /\ [Next]_vars => WordsOfPc' /\ Accounting'
  <2> SUFFICES ASSUME MoveInv, [Next]_vars PROVE WordsOfPc' /\ Accounting'
    OBVIOUS
  <2>1. CASE UNCHANGED <<ch, mres, moved, work>>
    BY <2>1 DEF MoveInv, WordsOfPc, Running, Accounting, Moving
  <2>2. ASSUME NEW c \in Handles, WorkStep(c)
        PROVE  WordsOfPc' /\ Accounting'
    <3>1. Effect(c)
      BY <2>2, WorkEffect DEF MoveInv, OwnInv
    <3>2. work.c = c /\ work.pc # "none"
      BY <2>2, WorkIsOwn
    <3> QED BY <3>1, <3>2, HoldsMoves, SizedMoves, MovesMoves, ReportsMoves DEF Effect
  <2>3. \/ UNCHANGED <<ch, mres, moved, work>>
        \/ \E c \in Handles : StartWork(c) \/ WorkStep(c) \/ ApiCall(c)
    BY DEF Next, vars, apiVars, DeviceStep, DeviceHandler, DeviceRestart,
           DeviceReset, StrayStep, StrayCommand
  <2> QED BY <2>1, <2>2, <2>3, StartMoves, ApiMoves
<1> QED BY <1>1, <1>2, OwnInvariant, PTL DEF Spec, MoveInv

LEMMA WordBounds == \A n \in Int : n \in UWORD <=> 0 <= n /\ n <= 65535
  BY DEF UWORD

LEMMA WordRange ==
  ASSUME NEW n \in UWORD
  PROVE  n \in Int /\ 0 <= n /\ n <= 65535 /\ n % 65536 = n
<1>1. n \in Int /\ 0 <= n /\ n <= 65535
  BY DEF UWORD
<1> QED BY <1>1

LEMMA WordSum ==
  ASSUME NEW n \in Nat, NEW w \in Nat, w + n \in UWORD
  PROVE  n \in UWORD /\ n + w \in UWORD
  BY WordBounds

(* The report of a message.                                                 *)
ReportIsTrue(c) ==
  \A m \in due[c] :
    m \notin due'[c] /\ ch'[c].state # "RESET" /\ mres'[m].result \in {"OK", "CANCEL"}
      => mres'[m].got_words = moved'[c]

LEMMA ReportsTrue ==
  ASSUME MoveInv, NEW c \in Handles, Reports(c), work.c = c
  PROVE  ReportIsTrue(c)
<1> DEFINE m == ch[c].tr_msg
<1>1. PICK r \in HandleRecord, result \in MsgResults, got \in Int :
        Reported(c, r, result, got)
  BY DEF Reports
<1>2. Moving(c) /\ m \in Msgs /\ due[c] = {m}
  BY DEF Reports, MoveInv, OwnInv, OwnsWhatItMoves, Moving, TypeInv, MsgState
<1>3. mres'[m] = [result |-> result, got_words |-> got % 65536]
  <2> DEFINE entry == [result |-> result, got_words |-> got % 65536]
  <2>1. mres' = [mres EXCEPT ![m] = entry]
    BY <1>1 DEF Reported
  <2> HIDE DEF entry
  <2>2. mres'[m] = entry
    BY <1>2, <2>1 DEF MoveInv, OwnInv, TypeInv, AmigaTypeOK
  <2> QED BY <2>2 DEF entry
<1>4. mres'[m].result = result /\ mres'[m].got_words = got % 65536
  BY <1>3
<1>5. /\ mres[m].got_words = ch[c].tr_words + moved[c]
      /\ ch[c].tr_words = 0 => moved[c] = 0
  BY <1>2 DEF MoveInv, Accounting
<1>6. mres[m].got_words \in UWORD /\ ch[c].tr_words \in 0 .. MaxWords
      /\ moved[c] \in Nat
  BY <1>2 DEF MoveInv, OwnInv, TypeInv, AmigaTypeOK, HandleRecord
<1>7. moved[c] \in UWORD /\ moved[c] + ch[c].tr_words \in UWORD
  <2>1. ch[c].tr_words \in Nat
    BY <1>6, WordsAssumption
  <2> QED BY <1>5, <1>6, <2>1, WordSum
<1>8. \A n \in UWORD : n % 65536 = n
  BY WordRange
<1>9. result \in {"OK", "CANCEL"} => got % 65536 = moved'[c]
  <2>1. CASE /\ work.pc = "chunk" /\ result = "OK" /\ got = mres[m].got_words
             /\ moved' = [moved EXCEPT ![c] = @ + ch[c].tr_words]
    <3>1. moved'[c] = moved[c] + ch[c].tr_words
      BY <2>1 DEF MoveInv, OwnInv, TypeInv, AmigaTypeOK
    <3>2. \A n \in Nat, w \in 0 .. MaxWords : w + n = n + w
      BY WordsAssumption
    <3> QED BY <1>5, <1>6, <1>8, <2>1, <3>1, <3>2
  <2>2. CASE /\ result = "CANCEL" /\ got = mres[m].got_words - ch[c].tr_words
             /\ moved' = moved
    <3>1. \A n \in Nat, w \in 0 .. MaxWords : w + n - w = n
      BY WordsAssumption
    <3> QED BY <1>5, <1>6, <1>7, <1>8, <2>2, <3>1
  <2>3. CASE work.pc = "size" /\ got = 0 /\ moved' = moved
    <3>1. Running(c, "size")
      BY <2>3 DEF Running, MoveInv, OwnInv, TypeInv, AmigaTypeOK
    <3>2. ch[c].tr_words = 0
      BY <3>1 DEF MoveInv, WordsOfPc
    <3> QED BY <1>5, <1>7, <1>8, <2>3, <3>2
  <2> QED BY <1>1, <2>1, <2>2, <2>3 DEF Reported, Accounts
<1> QED BY <1>2, <1>4, <1>9 DEF ReportIsTrue

LEMMA StepReportsTrue ==
  ASSUME MoveInv, [Next]_vars, NEW c \in Handles
  PROVE  ReportIsTrue(c)
<1>1. CASE due'[c] = due[c]
  BY <1>1 DEF ReportIsTrue
<1>2. ASSUME NEW d \in Handles, WorkStep(d), due'[c] # due[c]
      PROVE  ReportIsTrue(c)
  <2>1. Effect(d) /\ work.c = d /\ work.pc # "none"
    BY <1>2, WorkEffect, WorkIsOwn DEF MoveInv, OwnInv
  <2>2. Reports(d)
    BY <1>2, <2>1 DEF Effect, Holds, Sized, Moves
  <2>3. c = d
    <3>1. PICK r \in HandleRecord, result \in MsgResults, got \in Int :
            Reported(d, r, result, got)
      BY <2>2 DEF Reports
    <3>2. due' = [due EXCEPT ![d] = @ \ {ch[d].tr_msg}]
      BY <3>1 DEF Reported
    <3> QED BY <1>2, <3>2 DEF MoveInv, OwnInv, TypeInv, AmigaTypeOK
  <2> QED BY <2>1, <2>2, <2>3, ReportsTrue
<1>3. ASSUME NEW d \in Handles, ApiCall(d), due'[c] # due[c]
      PROVE  ReportIsTrue(c)
  <2>1. CASE \E m \in Msgs : Transfer(d, m)
    <3>1. PICK m \in Msgs : Transfer(d, m)
      BY <2>1
    <3>2. due' = [due EXCEPT ![d] = {m}] /\ ch[d].state = "IDLE"
      BY <3>1 DEF Transfer, Call
    <3>3. due[d] = {}
      BY <3>2 DEF MoveInv, OwnInv, OwnsWhatItMoves
    <3> QED BY <1>3, <3>2, <3>3 DEF ReportIsTrue, MoveInv, OwnInv, TypeInv, AmigaTypeOK
  <2>2. CASE Calls(d, States, "RESET") /\ due' = [due EXCEPT ![d] = {}]
    <3>1. c = d
      BY <1>3, <2>2 DEF MoveInv, OwnInv, TypeInv, AmigaTypeOK
    <3>2. ch' = [ch EXCEPT ![d] = [ch[d] EXCEPT !.state = "RESET"]]
      BY <2>2 DEF Calls
    <3>3. [ch[d] EXCEPT !.state = "RESET"].state = "RESET"
      BY StateHandle DEF MoveInv, OwnInv, TypeInv, AmigaTypeOK, States
    <3>4. ch'[c].state = "RESET"
      BY <3>1, <3>2, <3>3 DEF MoveInv, OwnInv, TypeInv, AmigaTypeOK
    <3> QED BY <3>4 DEF ReportIsTrue
  <2>3. \/ due' = due
        \/ Calls(d, States, "RESET") /\ due' = [due EXCEPT ![d] = {}]
        \/ \E m \in Msgs : Transfer(d, m)
    BY <1>3, CallEffects DEF ApiEffect
  <2> QED BY <1>3, <2>1, <2>2, <2>3
<1>4. \/ due' = due
      \/ \E d \in Handles : WorkStep(d) \/ ApiCall(d)
  BY DEF Next, vars, StartWork, apiVars, DeviceStep, DeviceHandler, DeviceRestart,
         DeviceReset, StrayStep, StrayCommand
<1> QED BY <1>1, <1>2, <1>3, <1>4

(* A message handed back as done or cancelled counts exactly the words that *)
(* the protocol confirmed, whatever was repeated.                           *)
THEOREM ReportsTrueCounts == Spec => ReportsWhatMoved
<1>1. MoveInv /\ [Next]_vars
        => [\A c \in Handles : \A m \in due[c] :
              m \notin due'[c] /\ ch'[c].state # "RESET"
              /\ mres'[m].result \in {"OK", "CANCEL"}
                => mres'[m].got_words = moved'[c]]_vars
  BY StepReportsTrue DEF ReportIsTrue
<1> QED BY <1>1, MoveInvariant, PTL DEF Spec, ReportsWhatMoved

------------------------------------------------------------------------------
(* The device that channel_work reaches: the commands between "index" and   *)
(* "act" carry no channel number and go to the channel selected last.       *)

SelIsOwn == work.pc \in AfterIndex /\ mcu = "run" => sel = work.c

(* A handle that is being closed or reset has no session any more, so that  *)
(* the CLOSE action ends nobody's.                                          *)
ClosingIsOver ==
  \A c \in Handles : ch[c].state \in {"CLOSE", "RESET"} => session[c] = "none"

CheckedIsActed ==
  \A c \in Handles :
    Running(c, "check") /\ ch[c].state = "OPEN" /\ mcu = "run" => session[c] # "none"

SelectInv ==
  /\ TypeInv
  /\ SelIsOwn /\ ClosingIsOver /\ CheckedIsActed
  /\ OpenedIsOpen /\ BeginsAtOffset

(* A step that reaches channel c and no other.                              *)
Near(c) ==
  /\ mcu' \in {mcu, "hung"} /\ stray' \in {stray, "now"}
  /\ \A d \in Channels \ {c} : chan'[d] = chan[d]

Opened(c) == c \in Channels /\ chan[c].dev_state \in {"READY", "ERROR"}

StaysOpen(c) == Opened(c) => Opened(c)'

SessionKept(c) ==
  \/ UNCHANGED session
  \/ /\ Running(c, "check") /\ ch[c].state = "OPEN" /\ mcu = "run"
     /\ session' = [session EXCEPT ![c] = "open"]

(* Where the operation goes on, and what the device then is.                *)
GoesOnWith(c) ==
  \/ work' = [c |-> 0, pc |-> "none"]
  \/ work' = [c |-> c, pc |-> "chunk"]
  \/ /\ work' = [c |-> c, pc |-> "size"]
     /\ mcu' = "run" /\ c \in Channels => chan'[c].off = ch'[c].tr_msg.off
  \/ /\ \E pc \in AfterIndex : work' = [c |-> c, pc |-> pc]
     /\ mcu' = "run" => sel' = c

Steady(c) == Near(c) /\ StaysOpen(c) /\ SessionKept(c) /\ GoesOnWith(c)

(* The end of an operation that did not open its channel.                   *)
LEMMA FinishSteady ==
  ASSUME TypeInv, NEW c \in Handles, NEW r, NEW result,
         \/ r.state # "OPEN" \/ result # "OK"
         \/ Running(c, "check") /\ mcu = "run",
         r.state = ch[c].state, Finish(c, r, result)
  PROVE  SessionKept(c) /\ GoesOnWith(c)
<1>1. work' = [c |-> 0, pc |-> "none"]
  BY DEF Finish
<1> DEFINE entry == IF r.state = "OPEN" /\ result = "OK" THEN "open" ELSE session[c]
<1>2. session' = [session EXCEPT ![c] = entry]
  BY DEF Finish
<1>3. session \in [Handles -> {"none", "acted", "open"}]
  BY DEF TypeInv, AmigaTypeOK
<1>4. CASE r.state = "OPEN" /\ result = "OK"
  <2>1. entry = "open"
    BY <1>4
  <2> HIDE DEF entry
  <2> QED BY <1>1, <1>2, <1>4, <2>1 DEF SessionKept, GoesOnWith
<1>5. CASE ~(r.state = "OPEN" /\ result = "OK")
  <2>1. entry = session[c]
    BY <1>5
  <2> HIDE DEF entry
  <2>2. session' = session
    BY <1>2, <1>3, <2>1
  <2> QED BY <1>1, <2>2 DEF SessionKept, GoesOnWith
<1> QED BY <1>4, <1>5

(* A command that does nothing to the channels.                             *)
LEMMA QuietNear ==
  ASSUME mcu' \in {mcu, "hung"}, UNCHANGED chan, stray' \in {stray, "now"}, NEW c
  PROVE  Near(c) /\ StaysOpen(c)
  BY DEF Near, StaysOpen, Opened

LEMMA IndexSteady ==
  ASSUME SelectInv, NEW c \in Handles, WorkIndex(c)
  PROVE  Steady(c)
<1>1. PICK res \in ProtoResults :
        /\ Sends(TRUE, SelectChannel(c), res)
        /\ IF res = "OK"
           THEN Proceed(c, ch[c], IF ch[c].state = "RESET" THEN "act" ELSE "state")
           ELSE Finish(c, ch[c], res)
  BY DEF WorkIndex, OpCommand, Told
<1>2. mcu' \in {mcu, "hung"} /\ UNCHANGED <<chan, stray>>
  BY <1>1 DEF Sends, SelectChannel, devVars, WorkIndex, OpCommand
<1>3. res = "OK" /\ mcu' = "run" => sel' = c
  BY <1>1, HandlesAssumption DEF Sends, SelectChannel, HangResults, MaxChannel
<1>4. SessionKept(c) /\ GoesOnWith(c)
  <2>1. CASE res = "OK"
    BY <1>1, <1>3, <2>1 DEF Proceed, SessionKept, GoesOnWith, AfterIndex
  <2>2. CASE res # "OK"
    BY <1>1, <2>2, FinishSteady DEF SelectInv
  <2> QED BY <2>1, <2>2
<1> QED BY <1>2, <1>4, QuietNear DEF Steady

(* Between "index" and "act" the selected channel is the handle's own.      *)
LEMMA OwnSelected ==
  ASSUME SelectInv, NEW c \in Handles, NEW pc \in AfterIndex, Running(c, pc), mcu = "run"
  PROVE  sel = c
  BY DEF SelectInv, SelIsOwn, Running

LEMMA StateSteady ==
  ASSUME SelectInv, NEW c \in Handles, WorkState(c)
  PROVE  Steady(c)
<1>1. Running(c, "state") /\ UNCHANGED stray
  BY DEF WorkState, OpCommand
<1>2. mcu' \in {mcu, "hung"} /\ UNCHANGED <<chan, sel>>
  BY DEF WorkState, OpCommand, Sends, ReadChannel, NoSuchChannel, devVars
<1>3. \/ \E pc \in AfterIndex : Proceed(c, ch[c], pc)
      \/ \E result \in {"BUSY", "TIMEOUT", "OPEN_FAILED", "CLOSE_FAILED"} :
           Finish(c, ch[c], result)
  BY DEF WorkState, OpCommand, ProtoResults, AfterIndex
<1>4. mcu' = "run" => sel' = c
  BY <1>1, <1>2, OwnSelected DEF AfterIndex
<1>5. SessionKept(c) /\ GoesOnWith(c)
  <2>1. ASSUME NEW pc \in AfterIndex, Proceed(c, ch[c], pc)
        PROVE  SessionKept(c) /\ GoesOnWith(c)
    BY <1>4, <2>1 DEF Proceed, SessionKept, GoesOnWith
  <2> QED BY <1>3, <2>1, FinishSteady DEF SelectInv
<1> QED BY <1>1, <1>2, <1>5, QuietNear DEF Steady

(* What the commands leave as it is: the other channels, the selection, and *)
(* an open channel.                                                         *)
Spares(id) ==
  /\ mcu' \in {mcu, "hung"} /\ sel' = sel
  /\ \A d \in Channels \ {id} : chan'[d] = chan[d]

LEMMA NothingSpares ==
  ASSUME NoCommand, NEW id
  PROVE  Spares(id) /\ StaysOpen(id)
  BY DEF NoCommand, devVars, Spares, StaysOpen, Opened

(* Every command for channel id but open changes it alone.                  *)
LEMMA EntrySpares ==
  ASSUME DevTypeOK, NEW id \in Channels, NEW r,
         chan' = [chan EXCEPT ![id] = r], UNCHANGED <<mcu, sel>>,
         r.dev_state \in {chan[id].dev_state, "READY", "ERROR"}
  PROVE  Spares(id) /\ StaysOpen(id)
<1>1. chan'[id] = r /\ \A d \in Channels \ {id} : chan'[d] = chan[d]
  BY DEF DevTypeOK
<1> QED BY <1>1 DEF Spares, StaysOpen, Opened

LEMMA FailSpares ==
  ASSUME DevTypeOK, NEW id \in Channels, NEW code, FailChannel(id, code),
         UNCHANGED <<mcu, sel>>
  PROVE  Spares(id) /\ StaysOpen(id)
<1>1. WithError(chan[id], code).dev_state = "ERROR"
  BY DEF WithError, DevTypeOK, ChannelRecord
<1>2. chan' = [chan EXCEPT ![id] = WithError(chan[id], code)]
  BY DEF FailChannel
<1> QED BY <1>1, <1>2, EntrySpares

LEMMA MtuSpares ==
  ASSUME DevTypeOK, NEW id, SetMtu(id)
  PROVE  Spares(id) /\ StaysOpen(id)
<1>1. CASE NoSuchChannel(id)
  BY <1>1, NothingSpares DEF NoSuchChannel, NoCommand
<1>2. CASE id \in Channels
  <2>1. PICK mtu \in Mtus : chan' = [chan EXCEPT ![id] = [chan[id] EXCEPT !.mtu = mtu]]
    BY <1>2 DEF SetMtu, NoSuchChannel
  <2>2. [chan[id] EXCEPT !.mtu = mtu].dev_state = chan[id].dev_state
    BY <1>2 DEF DevTypeOK, ChannelRecord
  <2>3. UNCHANGED <<mcu, sel>>
    BY <1>2 DEF SetMtu, NoSuchChannel
  <2> QED BY <1>2, <2>1, <2>2, <2>3, EntrySpares
<1> QED BY <1>1, <1>2 DEF SetMtu

LEMMA OffsetSpares ==
  ASSUME DevTypeOK, NEW id, NEW off, SetOffset(id, off)
  PROVE  /\ Spares(id) /\ StaysOpen(id)
         /\ id \in Channels => chan'[id].off = off
<1>1. CASE NoSuchChannel(id)
  BY <1>1, NothingSpares DEF NoSuchChannel, NoCommand
<1>2. CASE id \in Channels
  <2>1. chan' = [chan EXCEPT ![id] = [chan[id] EXCEPT !.off = off]]
    BY <1>2 DEF SetOffset, NoSuchChannel
  <2>2. /\ [chan[id] EXCEPT !.off = off].dev_state = chan[id].dev_state
        /\ [chan[id] EXCEPT !.off = off].off = off
    BY <1>2 DEF DevTypeOK, ChannelRecord
  <2>3. UNCHANGED <<mcu, sel>>
    BY <1>2 DEF SetOffset, NoSuchChannel
  <2>4. Spares(id) /\ StaysOpen(id)
    BY <1>2, <2>1, <2>2, <2>3, EntrySpares
  <2>5. chan'[id] = [chan[id] EXCEPT !.off = off]
    BY <1>2, <2>1 DEF DevTypeOK
  <2> QED BY <2>2, <2>4, <2>5
<1> QED BY <1>1, <1>2 DEF SetOffset, NoSuchChannel

LEMMA OpenSpares ==
  ASSUME DevTypeOK, NEW id, OpenChannel(id)
  PROVE  /\ Spares(id) /\ StaysOpen(id)
         /\ mcu' = "run" => Opened(id)'
<1>1. CASE NoSuchChannel(id)
  BY <1>1, NothingSpares DEF NoSuchChannel, NoCommand
<1>2. CASE id \in Channels
  <2> DEFINE opened == [chan[id] EXCEPT !.dev_state = "READY", !.flags = {},
                                        !.num = 0, !.got = 0, !.off = 0]
  <2>1. /\ UNCHANGED <<mcu, sel>>
        /\ \/ chan' = [chan EXCEPT ![id] = opened]
           \/ chan' = [chan EXCEPT ![id] = WithError(opened, "HANDLER_OPEN")]
    BY <1>2 DEF OpenChannel, NoSuchChannel
  <2>2. DOMAIN chan[id] = DOMAIN FreshChannel
    BY <1>2 DEF DevTypeOK, ChannelRecord, FreshChannel
  <2>3. /\ opened.dev_state = "READY"
        /\ WithError(opened, "HANDLER_OPEN").dev_state = "ERROR"
    BY <2>2 DEF WithError, FreshChannel
  <2> HIDE DEF opened
  <2>4. PICK r : chan' = [chan EXCEPT ![id] = r] /\ r.dev_state \in {"READY", "ERROR"}
    BY <2>1, <2>3
  <2>5. Spares(id) /\ StaysOpen(id)
    BY <1>2, <2>1, <2>4, EntrySpares
  <2>6. chan'[id] = r
    BY <1>2, <2>4 DEF DevTypeOK
  <2> QED BY <1>2, <2>4, <2>5, <2>6 DEF Opened
<1> QED BY <1>1, <1>2 DEF OpenChannel, NoSuchChannel

LEMMA CloseSpares ==
  ASSUME DevTypeOK, NEW id, CloseChannel(id)
  PROVE  Spares(id)
<1>1. CASE NoSuchChannel(id)
  BY <1>1, NothingSpares DEF NoSuchChannel, NoCommand
<1>2. CASE id \in Channels
  BY <1>2 DEF CloseChannel, NoSuchChannel, Spares, DevTypeOK
<1> QED BY <1>1, <1>2 DEF CloseChannel, NoSuchChannel

LEMMA BeginSpares ==
  ASSUME DevTypeOK, NEW id, NEW n, ReadBegin(id, n) \/ WriteBegin(id, n)
  PROVE  Spares(id) /\ StaysOpen(id)
<1>1. CASE NoSuchChannel(id)
  BY <1>1, NothingSpares DEF NoSuchChannel, NoCommand
<1>2. CASE id \in Channels /\ OpRunning(id)
  BY <1>2, FailSpares DEF ReadBegin, WriteBegin, NoSuchChannel
<1>3. CASE id \in Channels /\ ~OpRunning(id)
  <2>1. UNCHANGED <<mcu, sel>>
    BY <1>3 DEF ReadBegin, WriteBegin, NoSuchChannel
  <2>2. PICK dir \in {"RX", "TX"} :
          chan' = [chan EXCEPT ![id].num = n, ![id].got = 0, ![id].flags = @ \cup {dir}]
    BY <1>3 DEF ReadBegin, WriteBegin, NoSuchChannel
  <2>3. chan'[id].dev_state = chan[id].dev_state
        /\ \A d \in Channels \ {id} : chan'[d] = chan[d]
    BY <1>3, <2>2 DEF DevTypeOK, ChannelRecord
  <2> QED BY <2>1, <2>3 DEF Spares, StaysOpen, Opened
<1> QED BY <1>1, <1>2, <1>3 DEF ReadBegin, WriteBegin

LEMMA DataSpares ==
  ASSUME DevTypeOK, NEW id, NEW dir, DataChunk(id, dir)
  PROVE  Spares(id) /\ StaysOpen(id)
<1>1. CASE NoSuchChannel(id)
  BY <1>1, NothingSpares DEF NoSuchChannel, NoCommand
<1>2. CASE id \in Channels /\ chan[id].flags # {dir}
  BY <1>2, FailSpares DEF DataChunk, NoSuchChannel
<1>3. CASE id \in Channels /\ chan[id].flags = {dir}
  BY <1>3 DEF DataChunk, NoSuchChannel, Spares, StaysOpen, Opened
<1> QED BY <1>1, <1>2, <1>3 DEF DataChunk

------------------------------------------------------------------------------
(* Every command of channel_work but "act".                                 *)

(* A command that reaches only the channel of its handle.                   *)
LEMMA SparesNear ==
  ASSUME NEW c, Spares(c), stray' \in {stray, "now"}
  PROVE  Near(c)
  BY DEF Spares, Near

(* The operation goes on with the selected channel, or is over.             *)
LEMMA OnwardSteady ==
  ASSUME SelectInv, NEW c \in Handles, NEW pc \in AfterIndex, Running(c, pc),
         Spares(c), NEW r, NEW next \in AfterIndex, Proceed(c, r, next)
  PROVE  SessionKept(c) /\ GoesOnWith(c)
<1>1. mcu' = "run" => sel' = c
  BY OwnSelected DEF Spares
<1> QED BY <1>1 DEF Proceed, SessionKept, GoesOnWith

LEMMA EndsSteady ==
  ASSUME SelectInv, NEW c \in Handles,
         NEW result \in {"BUSY", "TIMEOUT", "STAY", "OPEN_FAILED", "CLOSE_FAILED"},
         Finish(c, ch[c], result)
  PROVE  SessionKept(c) /\ GoesOnWith(c)
  BY FinishSteady DEF SelectInv

LEMMA SetMtuSteady ==
  ASSUME SelectInv, NEW c \in Handles, WorkSetMtu(c)
  PROVE  Steady(c)
<1>1. Running(c, "set_mtu") /\ UNCHANGED stray
  BY DEF WorkSetMtu, OpCommand
<1>2. (SetMtu(sel) /\ mcu = "run") \/ NoCommand
  BY DEF WorkSetMtu, OpCommand, Sends, NoCommand
<1>3. Spares(c) /\ StaysOpen(c)
  BY <1>1, <1>2, OwnSelected, MtuSpares, NothingSpares DEF AfterIndex, SelectInv, TypeInv
<1>4. \/ Proceed(c, ch[c], "get_mtu")
      \/ \E result \in {"BUSY", "TIMEOUT"} : Finish(c, ch[c], result)
  BY DEF WorkSetMtu, OpCommand, ProtoResults
<1>5. SessionKept(c) /\ GoesOnWith(c)
  BY <1>1, <1>3, <1>4, OnwardSteady, EndsSteady DEF AfterIndex
<1> QED BY <1>1, <1>3, <1>5, SparesNear DEF Steady

(* The questions asked between them, which change nothing.                  *)
Asks(c) ==
  WorkState(c) \/ WorkGetMtu(c) \/ WorkSetWords(c) \/ WorkGetWords(c) \/ WorkGetMode(c)

LEMMA AskSteady ==
  ASSUME SelectInv, NEW c \in Handles, Asks(c)
  PROVE  Steady(c)
<1> USE DEF WorkState, WorkGetMtu, WorkSetWords, WorkGetWords, WorkGetMode
<1>1. (\E pc \in AfterIndex : Running(c, pc)) /\ UNCHANGED stray
  BY DEF Asks, OpCommand, AfterIndex
<1>2. NoCommand
  BY DEF Asks, OpCommand, Sends, NoCommand, ReadChannel, NoSuchChannel
<1>3. Spares(c) /\ StaysOpen(c)
  BY <1>2, NothingSpares
<1>4. \/ \E next \in AfterIndex : \E r : Proceed(c, r, next)
      \/ \E result \in {"BUSY", "TIMEOUT", "OPEN_FAILED", "CLOSE_FAILED"} :
           Finish(c, ch[c], result)
  <2>1. CASE WorkState(c)
    BY <2>1 DEF OpCommand, ProtoResults, AfterIndex
  <2>2. CASE WorkGetMtu(c)
    BY <2>2 DEF OpCommand, ProtoResults, AfterIndex
  <2>3. CASE WorkSetWords(c) \/ WorkGetWords(c)
    BY <2>3 DEF OpCommand, ProtoResults, AfterIndex
  <2>4. CASE WorkGetMode(c)
    BY <2>4 DEF OpCommand, ProtoResults, AfterIndex
  <2> QED BY <2>1, <2>2, <2>3, <2>4 DEF Asks
<1>5. SessionKept(c) /\ GoesOnWith(c)
  BY <1>1, <1>3, <1>4, OnwardSteady, EndsSteady
<1> QED BY <1>1, <1>3, <1>5, SparesNear DEF Steady

LEMMA CheckSteady ==
  ASSUME SelectInv, NEW c \in Handles, WorkCheck(c)
  PROVE  Steady(c)
<1>1. Running(c, "check") /\ UNCHANGED stray
  BY DEF WorkCheck, OpCommand
<1>2. NoCommand
  BY DEF WorkCheck, OpCommand, Sends, NoCommand, ReadChannel, NoSuchChannel
<1>3. Spares(c) /\ StaysOpen(c)
  BY <1>2, NothingSpares
<1>4. \/ mcu = "run" /\ \E result : Finish(c, ch[c], result)
      \/ \E result \in {"BUSY", "TIMEOUT"} : Finish(c, ch[c], result)
  BY DEF WorkCheck, OpCommand, Sends, HangResults, Told, ProtoResults
<1>5. SessionKept(c) /\ GoesOnWith(c)
  BY <1>1, <1>4, FinishSteady DEF SelectInv
<1> QED BY <1>1, <1>3, <1>5, SparesNear DEF Steady

(* A transfer never changes the session of its handle.                      *)
LEMMA TransferEndSteady ==
  ASSUME SelectInv, NEW c \in Handles, Moving(c), NEW n, NEW result,
         \/ Finish(c, ch[c], result)
         \/ Finish(c, [ch[c] EXCEPT !.tr_words = n], result)
         \/ \E got : Report(c, result, got)
  PROVE  SessionKept(c) /\ GoesOnWith(c)
<1>1. DOMAIN ch[c] = DOMAIN ClosedHandle
  BY DEF SelectInv, TypeInv, AmigaTypeOK, HandleRecord, ClosedHandle
<1>2. /\ [ch[c] EXCEPT !.tr_words = n].state = ch[c].state
      /\ [ch[c] EXCEPT !.tr_words = 0, !.tr_msg = NoMsg].state = ch[c].state
  BY <1>1 DEF ClosedHandle
<1>3. CASE \E got : Report(c, result, got)
  <2> DEFINE end == IF result = "CANCEL" THEN "OK" ELSE result
  <2>1. Finish(c, [ch[c] EXCEPT !.tr_words = 0, !.tr_msg = NoMsg], end)
    BY <1>3 DEF Report
  <2> HIDE DEF end
  <2> QED BY <1>2, <2>1, FinishSteady DEF Moving, SelectInv
<1> QED BY <1>2, <1>3, FinishSteady DEF Moving, SelectInv

LEMMA OffsetSteady ==
  ASSUME SelectInv, NEW c \in Handles, WorkOffset(c)
  PROVE  Steady(c)
<1>1. Running(c, "offset") /\ UNCHANGED stray
  BY DEF WorkOffset
<1>2. Moving(c)
  BY <1>1, PcTellsState DEF SelectInv, Moving
<1>3. PICK res \in ProtoResults :
        /\ Sends(TRUE, SetOffset(c, ch[c].tr_msg.off), res)
        /\ IF res = "OK" THEN Proceed(c, ch[c], "size") ELSE TransferFailed(c, res)
  BY DEF WorkOffset
<1>4. Spares(c) /\ StaysOpen(c)
  <2>1. SetOffset(c, ch[c].tr_msg.off) \/ NoCommand
    BY <1>3 DEF Sends, NoCommand
  <2> QED BY <2>1, OffsetSpares, NothingSpares DEF SelectInv, TypeInv
<1>5. CASE res = "OK"
  <2>1. mcu' = "run" => SetOffset(c, ch[c].tr_msg.off)
    BY <1>3, <1>5 DEF Sends, HangResults
  <2>2. ch'[c] = ch[c] /\ work' = [c |-> c, pc |-> "size"] /\ UNCHANGED session
    BY <1>3, <1>5 DEF Proceed, SelectInv, TypeInv, AmigaTypeOK
  <2>3. mcu' = "run" /\ c \in Channels => chan'[c].off = ch'[c].tr_msg.off
    BY <2>1, <2>2, OffsetSpares DEF SelectInv, TypeInv
  <2> QED BY <1>1, <1>4, <2>2, <2>3, SparesNear DEF Steady, SessionKept, GoesOnWith
<1>6. CASE res # "OK"
  <2>1. Finish(c, ch[c], "STAY")
    BY <1>3, <1>6 DEF TransferFailed, ProtoResults
  <2> QED BY <1>1, <1>2, <1>4, <2>1, TransferEndSteady, SparesNear DEF Steady
<1> QED BY <1>5, <1>6

LEMMA SizeSteady ==
  ASSUME SelectInv, NEW c \in Handles, WorkRxSize(c) \/ WorkTxSize(c)
  PROVE  Steady(c)
<1>1. Running(c, "size") /\ UNCHANGED stray
  BY DEF WorkRxSize, WorkTxSize
<1>2. Moving(c)
  BY <1>1, PcTellsState DEF SelectInv, Moving
<1>3. Spares(c) /\ StaysOpen(c)
  <2>1. (\E n : ReadBegin(c, n) \/ WriteBegin(c, n)) \/ NoCommand
    BY DEF WorkRxSize, WorkTxSize, Sends, NoCommand
  <2> QED BY <2>1, BeginSpares, NothingSpares DEF SelectInv, TypeInv
<1>4. \/ Finish(c, ch[c], "STAY")
      \/ \E n : SizeKnown(c, n)
      \/ \E got : Report(c, "MSG_SIZE_MISMATCH", got)
  BY DEF WorkRxSize, WorkTxSize, TransferFailed, ProtoResults
<1>5. ASSUME NEW n, SizeKnown(c, n)
      PROVE  SessionKept(c) /\ GoesOnWith(c)
  <2>1. CASE n = 0
    BY <1>2, <1>5, <2>1, TransferEndSteady DEF SizeKnown
  <2>2. CASE n # 0
    BY <1>5, <2>2 DEF SizeKnown, Proceed, SessionKept, GoesOnWith
  <2> QED BY <2>1, <2>2
<1>6. SessionKept(c) /\ GoesOnWith(c)
  BY <1>2, <1>4, <1>5, TransferEndSteady
<1> QED BY <1>1, <1>3, <1>6, SparesNear DEF Steady

LEMMA ChunkSteady ==
  ASSUME SelectInv, NEW c \in Handles, WorkChunk(c) \/ WorkChunkOutOfStep(c)
  PROVE  Steady(c)
<1>1. Running(c, "chunk") /\ stray' \in {stray, "now"}
  BY DEF WorkChunk, WorkChunkOutOfStep
<1>2. Moving(c)
  BY <1>1, PcTellsState DEF SelectInv, Moving
<1>3. Spares(c) /\ StaysOpen(c)
  <2>1. (\E dir : DataChunk(c, dir)) \/ NoCommand
    BY DEF WorkChunk, WorkChunkOutOfStep, Sends, NoCommand
  <2> QED BY <2>1, DataSpares, NothingSpares DEF SelectInv, TypeInv
<1>4. \/ Finish(c, ch[c], "STAY")
      \/ \E n : Finish(c, [ch[c] EXCEPT !.tr_words = n], "STAY")
      \/ \E got : Report(c, "OK", got)
  BY DEF WorkChunk, WorkChunkOutOfStep, ChunkMoved, ChunkFailed, TransferFailed,
         ProtoResults
<1>5. SessionKept(c) /\ GoesOnWith(c)
  BY <1>2, <1>4, TransferEndSteady
<1> QED BY <1>1, <1>3, <1>5, SparesNear DEF Steady

LEMMA CancelSteady ==
  ASSUME SelectInv, NEW c \in Handles, WorkCancel(c)
  PROVE  Steady(c)
<1>1. Running(c, "cancel") /\ UNCHANGED stray /\ NoCommand
      /\ \E got : Report(c, "CANCEL", got)
  BY DEF WorkCancel, NoCommand
<1>2. Moving(c)
  BY <1>1, PcTellsState DEF SelectInv, Moving
<1> QED BY <1>1, <1>2, NothingSpares, SparesNear, TransferEndSteady DEF Steady

------------------------------------------------------------------------------
(* The action itself opens or closes the channel of its handle.             *)
Acts(c) ==
  /\ Near(c) /\ ch[c].state \in {"OPEN", "CLOSE", "RESET"}
  /\ ch[c].state = "OPEN" => StaysOpen(c)
  /\ \/ UNCHANGED session /\ work' = [c |-> 0, pc |-> "none"]
     \/ /\ work' = [c |-> c, pc |-> "check"] /\ UNCHANGED ch
        /\ ch[c].state = "OPEN" /\ mcu' = "run" => Opened(c)'
        /\ IF ch[c].state = "OPEN" THEN session' = [session EXCEPT ![c] = "acted"]
                                   ELSE UNCHANGED session

LEMMA ActActs ==
  ASSUME SelectInv, NEW c \in Handles, WorkAct(c)
  PROVE  Acts(c)
<1> DEFINE opening == ch[c].state = "OPEN"
           cmd == IF opening THEN OpenChannel(sel) ELSE CloseChannel(sel)
           entry == IF opening THEN "acted" ELSE session[c]
<1>1. Running(c, "act") /\ UNCHANGED stray
  BY DEF WorkAct, OpCommand
<1>2. PICK res \in ProtoResults :
        /\ Sends(TRUE, cmd, res)
        /\ IF res = "OK"
           THEN /\ ch' = ch
                /\ work' = [c |-> c, pc |-> "check"]
                /\ session' = [session EXCEPT ![c] = entry]
           ELSE Finish(c, ch[c], res)
  BY DEF WorkAct, OpCommand, Told
<1>3. (cmd /\ mcu = "run") \/ NoCommand
  BY <1>2 DEF Sends, NoCommand
<1>4. mcu = "run" => sel = c
  BY <1>1, OwnSelected DEF AfterIndex
<1>5. DevTypeOK
  BY DEF SelectInv, TypeInv
<1>6. Spares(c) /\ (opening => StaysOpen(c))
  BY <1>3, <1>4, <1>5, OpenSpares, CloseSpares, NothingSpares
<1>7. res = "OK" /\ mcu' = "run" => cmd /\ mcu = "run"
  BY <1>2 DEF Sends, HangResults
<1>8. res = "OK" /\ opening /\ mcu' = "run" => Opened(c)'
  BY <1>4, <1>5, <1>7, OpenSpares
<1>9. \/ UNCHANGED session /\ work' = [c |-> 0, pc |-> "none"]
      \/ /\ work' = [c |-> c, pc |-> "check"] /\ UNCHANGED ch
         /\ opening /\ mcu' = "run" => Opened(c)'
         /\ IF opening THEN session' = [session EXCEPT ![c] = "acted"]
                       ELSE UNCHANGED session
  <2>1. CASE res = "OK" /\ opening
    BY <1>2, <1>8, <2>1
  <2>2. CASE res = "OK" /\ ~opening
    <3>1. entry = session[c]
      BY <2>2
    <3> HIDE DEF entry
    <3>2. session' = session
      BY <1>2, <2>2, <3>1 DEF SelectInv, TypeInv, AmigaTypeOK
    <3> QED BY <1>2, <2>2, <3>2
  <2>3. CASE res # "OK"
    <3>1. Finish(c, ch[c], res)
      BY <1>2, <2>3
    <3>2. work' = [c |-> 0, pc |-> "none"]
      BY <3>1 DEF Finish
    <3>3. SessionKept(c)
      BY <2>3, <3>1, FinishSteady DEF SelectInv
    <3> QED BY <1>1, <3>2, <3>3 DEF SessionKept, Running
  <2> QED BY <2>1, <2>2, <2>3
<1>10. Near(c)
  BY <1>1, <1>6, SparesNear
<1>11. ch[c].state \in {"OPEN", "CLOSE", "RESET"}
  BY <1>1, PcTellsState DEF SelectInv
<1> QED BY <1>6, <1>9, <1>10, <1>11 DEF Acts

LEMMA WorkActs ==
  ASSUME SelectInv, NEW c \in Handles, WorkStep(c)
  PROVE  Steady(c) \/ Acts(c)
  BY IndexSteady, StateSteady, SetMtuSteady, AskSteady, CheckSteady, OffsetSteady,
     SizeSteady, ChunkSteady, CancelSteady, ActActs DEF WorkStep, Asks

------------------------------------------------------------------------------
(* The invariant.                                                           *)

(* channel_work never makes a handle one that is being closed or reset.     *)
LEMMA EffectClosing ==
  ASSUME TypeInv, NEW c \in Handles, Effect(c)
  PROVE  /\ \A d \in Handles \ {c} : ch'[d] = ch[d]
         /\ ch'[c].state \in {"CLOSE", "RESET"} => ch'[c].state = ch[c].state
<1>1. ch \in [Handles -> HandleRecord]
  BY DEF TypeInv, AmigaTypeOK
<1>2. PICK r : /\ ch' = [ch EXCEPT ![c] = r]
               /\ r.state \in {"CLOSE", "RESET"} => r.state = ch[c].state
  <2>1. CASE Holds(c)
    BY <2>1 DEF Holds, HeldAs, Target
  <2>2. CASE Sized(c) \/ Moves(c)
    <3>1. PICK n : ch' = [ch EXCEPT ![c] = [ch[c] EXCEPT !.tr_words = n]]
      BY <2>2 DEF Sized, Moves, Moved
    <3>2. [ch[c] EXCEPT !.tr_words = n].state = ch[c].state
      BY <1>1 DEF HandleRecord
    <3> QED BY <3>1, <3>2
  <2>3. CASE Reports(c)
    <3>1. PICK r \in HandleRecord, result \in MsgResults, got \in Int :
            Reported(c, r, result, got)
      BY <2>3 DEF Reports
    <3>2. ch' = [ch EXCEPT ![c] = r] /\ r.state \notin {"CLOSE", "RESET"}
      BY <3>1 DEF Reported
    <3> QED BY <3>2
  <2> QED BY <2>1, <2>2, <2>3 DEF Effect
<1>3. ch'[c] = r /\ \A d \in Handles \ {c} : ch'[d] = ch[d]
  BY <1>1, <1>2
<1> QED BY <1>2, <1>3

LEMMA SteadySelects ==
  ASSUME SelectInv, NEW c \in Handles, Effect(c), Steady(c), work.c = c, TypeInv'
  PROVE  SelectInv'
<1>1. session \in [Handles -> {"none", "acted", "open"}]
  BY DEF SelectInv, TypeInv, AmigaTypeOK
<1>2. /\ \A d \in Handles : session'[d] # session[d]
                              => d = c /\ session[c] # "none" /\ ch[c].state = "OPEN"
      /\ \A d \in Handles : session'[d] = "none" <=> session[d] = "none"
  <2>1. CASE UNCHANGED session
    BY <2>1
  <2>2. CASE /\ Running(c, "check") /\ ch[c].state = "OPEN" /\ mcu = "run"
             /\ session' = [session EXCEPT ![c] = "open"]
    <3>1. session[c] # "none"
      BY <2>2 DEF SelectInv, CheckedIsActed
    <3> QED BY <1>1, <2>2, <3>1
  <2> QED BY <2>1, <2>2 DEF Steady, SessionKept
<1>3. SelIsOwn' /\ CheckedIsActed'
  BY DEF Steady, GoesOnWith, SelIsOwn, CheckedIsActed, Running, AfterIndex
<1>4. ClosingIsOver'
  BY <1>2, EffectClosing DEF ClosingIsOver, SelectInv
<1>5. OpenedIsOpen'
  <2> SUFFICES ASSUME NEW d \in Handles, session'[d] # "none", mcu' = "run", stray' = "no"
               PROVE  Opened(d)'
    BY DEF OpenedIsOpen, Opened
  <2>1. session[d] # "none" /\ mcu = "run" /\ stray = "no"
    BY <1>2 DEF Steady, Near
  <2>2. Opened(d)
    BY <2>1 DEF SelectInv, OpenedIsOpen, Opened
  <2> QED BY <2>2 DEF Steady, Near, StaysOpen, Opened
<1>6. BeginsAtOffset'
  BY DEF Steady, GoesOnWith, BeginsAtOffset, Running, AfterIndex
<1> QED BY <1>3, <1>4, <1>5, <1>6 DEF SelectInv

LEMMA ActsSelects ==
  ASSUME SelectInv, NEW c \in Handles, Effect(c), Acts(c), work.c = c, TypeInv'
  PROVE  SelectInv'
<1>1. session \in [Handles -> {"none", "acted", "open"}] /\ ch \in [Handles -> HandleRecord]
  BY DEF SelectInv, TypeInv, AmigaTypeOK
<1>2. \A d \in Handles : session'[d] # session[d]
        => /\ d = c /\ session'[c] = "acted" /\ ch[c].state = "OPEN" /\ UNCHANGED ch
           /\ mcu' = "run" => Opened(c)'
  BY <1>1 DEF Acts
<1>3. SelIsOwn' /\ BeginsAtOffset'
  BY DEF Acts, SelIsOwn, BeginsAtOffset, Running, AfterIndex
<1>4. CheckedIsActed'
  BY <1>1 DEF Acts, CheckedIsActed, Running
<1>5. ClosingIsOver'
  BY <1>2, EffectClosing DEF ClosingIsOver, SelectInv
<1>6. OpenedIsOpen'
  <2> SUFFICES ASSUME NEW d \in Handles, session'[d] # "none", mcu' = "run", stray' = "no"
               PROVE  Opened(d)'
    BY DEF OpenedIsOpen, Opened
  <2>1. mcu = "run" /\ stray = "no"
    BY DEF Acts, Near
  <2>2. CASE session'[d] # session[d]
    BY <1>2, <2>2
  <2>3. CASE session'[d] = session[d]
    <3>1. Opened(d) /\ ch[d].state \notin {"CLOSE", "RESET"}
      BY <2>1, <2>3 DEF SelectInv, OpenedIsOpen, ClosingIsOver, Opened
    <3>2. CASE d # c
      BY <3>1, <3>2 DEF Acts, Near, Opened
    <3>3. CASE d = c /\ ch[c].state = "OPEN"
      BY <3>1, <3>3 DEF Acts, StaysOpen
    <3>4. CASE d = c /\ ch[c].state # "OPEN"
      BY <3>1, <3>4 DEF Acts
    <3> QED BY <3>2, <3>3, <3>4
  <2> QED BY <2>2, <2>3
<1> QED BY <1>3, <1>4, <1>5, <1>6 DEF SelectInv

LEMMA StartSelects ==
  ASSUME SelectInv, NEW c \in Handles, StartWork(c), TypeInv'
  PROVE  SelectInv'
<1> DEFINE pc == FirstPc(ch[c])
<1>1. UNCHANGED <<mcu, chan, sel, ch, session, stray>> /\ work' = [c |-> c, pc |-> pc]
  BY DEF StartWork, devVars, apiVars, histVars
<1>2. /\ pc \notin AfterIndex
      /\ pc = "check" => ch[c].state # "OPEN"
      /\ pc = "size" => ~ch[c].offset_mode
  <2>1. ch[c].state \in {"OPEN", "CLOSE", "RESET", "POLL", "CANCEL", "TRANSFER"}
    BY DEF StartWork, SelectInv, TypeInv, AmigaTypeOK, HandleRecord, States
  <2> QED BY <2>1 DEF FirstPc, TransferPc, AfterIndex
<1> HIDE DEF pc
<1>3. SelIsOwn' /\ CheckedIsActed' /\ BeginsAtOffset'
  BY <1>1, <1>2 DEF SelIsOwn, CheckedIsActed, BeginsAtOffset, Running
<1>4. ClosingIsOver' /\ OpenedIsOpen'
  BY <1>1 DEF SelectInv, ClosingIsOver, OpenedIsOpen
<1> QED BY <1>3, <1>4 DEF SelectInv

LEMMA ApiSelects ==
  ASSUME SelectInv, NEW c \in Handles, ApiCall(c), TypeInv'
  PROVE  SelectInv'
<1>1. UNCHANGED <<mcu, chan, sel, work, stray>> /\ work.pc = "none"
  BY CallEffects DEF ApiEffect, Calls, Transfer, Call, devVars
<1>2. session \in [Handles -> {"none", "acted", "open"}] /\ ch \in [Handles -> HandleRecord]
  BY DEF SelectInv, TypeInv, AmigaTypeOK
<1>3. SelIsOwn' /\ CheckedIsActed' /\ BeginsAtOffset'
  BY <1>1 DEF SelIsOwn, CheckedIsActed, BeginsAtOffset, Running, AfterIndex
<1>4. \A d \in Handles : session'[d] # "none" => session[d] # "none"
  BY <1>2, CallEffects DEF ApiEffect, Calls, Transfer
<1>5. OpenedIsOpen'
  BY <1>1, <1>4 DEF SelectInv, OpenedIsOpen
<1>6. ClosingIsOver'
  <2>1. CASE \E m \in Msgs : Transfer(c, m)
    <3>1. PICK m \in Msgs : Transfer(c, m)
      BY <2>1
    <3>2. session' = session /\ \A d \in Handles \ {c} : ch'[d] = ch[d]
      BY <1>2, <3>1 DEF Transfer, Call
    <3>3. ch'[c].state = "TRANSFER"
      BY <1>2, <3>1, TransferHandle DEF Transfer, Call
    <3> QED BY <3>2, <3>3 DEF SelectInv, ClosingIsOver
  <2>2. ASSUME NEW from, NEW s \in States, Calls(c, from, s)
        PROVE  ch'[c].state = s /\ \A d \in Handles \ {c} : ch'[d] = ch[d]
    BY <1>2, <2>2, StateHandle DEF Calls
  <2>3. CASE ApiEffect(c)
    BY <1>2, <2>2, <2>3 DEF ApiEffect, SelectInv, ClosingIsOver, States
  <2> QED BY <2>1, <2>3, CallEffects
<1> QED BY <1>3, <1>5, <1>6 DEF SelectInv

LEMMA DeviceSelects ==
  ASSUME SelectInv, DeviceStep, TypeInv'
  PROVE  SelectInv'
<1>1. UNCHANGED <<ch, work>>
  BY DEF DeviceStep, DeviceHandler, DeviceRestart, DeviceReset, StrayStep,
         StrayCommand, apiVars
<1>2. CASE DeviceHandler
  <2>1. UNCHANGED <<mcu, sel, session, stray>>
    BY <1>2 DEF DeviceHandler, HandlerError, SetBusy, ClrBusy, histVars
  <2>2. \A d \in Channels : /\ Opened(d) => Opened(d)'
                            /\ chan'[d].off = chan[d].off
    <3>1. CASE chan' = chan
      BY <3>1 DEF Opened
    <3>2. ASSUME NEW c \in Channels, HandlerError(c)
          PROVE  \A d \in Channels : /\ Opened(d) => Opened(d)'
                                     /\ chan'[d].off = chan[d].off
      BY <3>2 DEF HandlerError, FailChannel, WithError, Opened, SelectInv, TypeInv,
                  DevTypeOK, ChannelRecord
    <3> QED BY <1>2, <3>1, <3>2 DEF DeviceHandler, SetBusy, ClrBusy
  <2>3. SelIsOwn' /\ ClosingIsOver' /\ CheckedIsActed'
    BY <1>1, <2>1 DEF SelectInv, SelIsOwn, ClosingIsOver, CheckedIsActed, Running
  <2>4. OpenedIsOpen'
    BY <2>1, <2>2 DEF SelectInv, OpenedIsOpen, Opened
  <2>5. BeginsAtOffset'
    BY <1>1, <2>1, <2>2 DEF SelectInv, BeginsAtOffset, Running
  <2> QED BY <2>3, <2>4, <2>5 DEF SelectInv
<1>3. CASE DeviceRestart \/ DeviceReset
  <2>1. /\ session' = [c \in Handles |-> "none"]
        /\ mcu' = "knok" \/ work.pc = "none"
    BY <1>3 DEF DeviceRestart, DeviceReset, Restart
  <2>2. \A c \in Handles : session'[c] = "none"
    BY <2>1
  <2> QED BY <1>1, <2>1, <2>2 DEF SelectInv, SelIsOwn, ClosingIsOver, CheckedIsActed,
             OpenedIsOpen, BeginsAtOffset, Running, AfterIndex
<1>4. CASE StrayStep
  <2>1. work.pc = "none" /\ stray' = "past" /\ UNCHANGED session
    BY <1>4 DEF StrayStep, StrayCommand
  <2> QED BY <1>1, <2>1 DEF SelectInv, SelIsOwn, ClosingIsOver, CheckedIsActed,
             OpenedIsOpen, BeginsAtOffset, Running, AfterIndex
<1> QED BY <1>2, <1>3, <1>4 DEF DeviceStep

LEMMA SelectInvariant == Spec => []SelectInv
<1>1. Init => SelIsOwn /\ ClosingIsOver /\ CheckedIsActed /\ OpenedIsOpen /\ BeginsAtOffset
  BY DEF Init, ClosedHandle, SelIsOwn, ClosingIsOver, CheckedIsActed, OpenedIsOpen,
         BeginsAtOffset, Running, AfterIndex
<1>2. SelectInv /\ [Next]_vars /\ TypeInv' => SelectInv'
  <2> SUFFICES ASSUME SelectInv, [Next]_vars, TypeInv' PROVE SelectInv'
    OBVIOUS
  <2>1. CASE UNCHANGED vars
    BY <2>1 DEF vars, devVars, SelectInv, SelIsOwn, ClosingIsOver, CheckedIsActed,
                OpenedIsOpen, BeginsAtOffset, Running
  <2>2. ASSUME NEW c \in Handles, WorkStep(c)
        PROVE  SelectInv'
    <3>1. Effect(c) /\ work.c = c
      BY <2>2, WorkEffect, WorkIsOwn DEF SelectInv
    <3> QED BY <2>2, <3>1, WorkActs, SteadySelects, ActsSelects
  <2> QED BY <2>1, <2>2, StartSelects, ApiSelects, DeviceSelects DEF Next
<1> QED BY <1>1, <1>2, TypeInvariant, PTL DEF Spec, SelectInv

(* A handle whose open succeeded has an open channel on the device until it *)
(* is closed or reset or the device restarts, whatever the other handles    *)
(* and failed commands do: no handle closes another one's channel.          *)
THEOREM OpenedStaysOpen == Spec => []OpenedIsOpen
<1>1. SelectInv => OpenedIsOpen
  BY DEF SelectInv
<1> QED BY <1>1, SelectInvariant, PTL

(* A message of a handler with offsets begins at its own offset.            *)
THEOREM MessageAtOffset == Spec => []BeginsAtOffset
<1>1. SelectInv => BeginsAtOffset
  BY DEF SelectInv
<1> QED BY <1>1, SelectInvariant, PTL

(* The commands of one handle change no other channel, although those of    *)
(* open and close name none: the one they reach is the handle's own.        *)
THEOREM ChannelsApart == Spec => ForeignChannelsUntouched
<1>1. SelectInv /\ [Next]_vars
        => [work.pc # "none" /\ work' # work
              => \A d \in Channels \ {work.c} : chan'[d] = chan[d]]_vars
  <2> SUFFICES ASSUME SelectInv, [Next]_vars, work.pc # "none", work' # work,
                      NEW d \in Channels \ {work.c}
               PROVE  chan'[d] = chan[d]
    BY DEF vars, devVars
  <2>1. PICK c \in Handles : WorkStep(c)
    BY CallEffects DEF Next, vars, StartWork, ApiEffect, Calls, Transfer, Call,
       DeviceStep, DeviceHandler, DeviceRestart, DeviceReset, StrayStep, StrayCommand
  <2>2. work.c = c /\ (Steady(c) \/ Acts(c))
    BY <2>1, WorkIsOwn, WorkActs
  <2> QED BY <2>2 DEF Steady, Acts, Near
<1> QED BY <1>1, SelectInvariant, PTL DEF Spec, ForeignChannelsUntouched

-------------------------------------------------------------------------------
(* The driver implements ChannelService: every step of the handles, the     *)
(* device and the bus is a step of the service or changes nothing that its  *)
(* user can see.                                                            *)

(* The refinement mapping, as ChannelMaster instantiates it.                *)
PhaseMap == [c \in Handles |-> Phase(ch[c].state)]

LEMMA PhaseOf ==
  ASSUME NEW s \in States
  PROVE  /\ s = "CLOSED" => Phase(s) = "closed"
         /\ s = "IDLE" => Phase(s) = "ready"
         /\ s = "ERROR" => Phase(s) = "failed"
         /\ s \notin {"CLOSED", "IDLE", "ERROR"} => Phase(s) = "working"
<1>1. s = "CLOSED" => Phase(s) = "closed"
  BY DEF Phase
<1>2. s = "IDLE" => Phase(s) = "ready"
  BY DEF Phase
<1>3. s = "ERROR" => Phase(s) = "failed"
  BY DEF Phase
<1>4. s \notin {"CLOSED", "IDLE", "ERROR"} => Phase(s) = "working"
  BY DEF Phase
<1> QED BY <1>1, <1>2, <1>3, <1>4

LEMMA MapEnter ==
  ASSUME OwnInv, NEW c \in Handles, NEW r, ch' = [ch EXCEPT ![c] = r]
  PROVE  PhaseMap' = [PhaseMap EXCEPT ![c] = Phase(r.state)]
<1>1. ch'[c] = r
  BY DEF OwnInv, TypeInv, AmigaTypeOK
<1>2. \A d \in Handles \ {c} : ch'[d] = ch[d]
  BY DEF OwnInv, TypeInv, AmigaTypeOK
<1>3. PhaseMap'[c] = Phase(r.state)
  BY <1>1 DEF PhaseMap
<1>4. \A d \in Handles \ {c} : PhaseMap'[d] = PhaseMap[d]
  BY <1>2 DEF PhaseMap
<1>5. /\ PhaseMap = [d \in Handles |-> PhaseMap[d]]
      /\ PhaseMap' = [d \in Handles |-> PhaseMap'[d]]
  BY DEF PhaseMap
<1> QED BY <1>3, <1>4, <1>5

(* A handle that keeps its phase and what it owns.                          *)
LEMMA MapSame ==
  ASSUME OwnInv, NEW c \in Handles, NEW r, ch' = [ch EXCEPT ![c] = r],
         Phase(r.state) = Phase(ch[c].state), UNCHANGED due
  PROVE  UNCHANGED <<PhaseMap, due>>
<1>1. PhaseMap' = [PhaseMap EXCEPT ![c] = Phase(r.state)]
  BY MapEnter
<1>2. PhaseMap = [d \in Handles |-> PhaseMap[d]] /\ PhaseMap[c] = Phase(ch[c].state)
  BY DEF PhaseMap
<1> QED BY <1>1, <1>2

(* The steps of the service, in terms of the driver.                        *)
Enters(c, p, ms) ==
  /\ PhaseMap' = [PhaseMap EXCEPT ![c] = p]
  /\ due' = [due EXCEPT ![c] = ms]

ServiceStep(c) ==
  \/ PhaseMap[c] \in {"closed", "ready"} /\ Enters(c, "working", {})
  \/ \E m \in Msgs : /\ PhaseMap[c] = "ready"
                     /\ \A d \in Handles : m \notin due[d]
                     /\ Enters(c, "working", {m})
  \/ \E p \in {"closed", "ready", "failed"} :
       /\ PhaseMap[c] = "working"
       /\ p \in IF due[c] = {} THEN {"closed", "ready", "failed"} ELSE {"ready", "failed"}
       /\ Enters(c, p, {})
  \/ Enters(c, "working", {})

LEMMA ServiceStepIsStep ==
  ASSUME NEW c \in Handles, ServiceStep(c)
  PROVE  Service!Next
  BY DEF ServiceStep, Enters, PhaseMap, Service!Next, Service!Request, Service!Submit,
         Service!Complete, Service!Reset, Service!Enter

LEMMA WorkPhase ==
  ASSUME OwnInv, NEW c \in Handles, work.c = c, work.pc # "none"
  PROVE  /\ Phase(ch[c].state) = "working" /\ PhaseMap[c] = "working"
         /\ ch[c].state \in States \ {"CLOSED", "IDLE", "ERROR"}
<1>1. work.pc \in PcsOf(ch[c].state) /\ ch[c].state \in States
  BY DEF OwnInv, TypeInv, PcState, AmigaTypeOK, HandleRecord
<1>2. ch[c].state \notin {"CLOSED", "IDLE", "ERROR"}
  BY <1>1 DEF PcsOf
<1> QED BY <1>1, <1>2, PhaseOf DEF PhaseMap

LEMMA HoldsServes ==
  ASSUME OwnInv, NEW c \in Handles, Holds(c), work.c = c, work.pc # "none"
  PROVE  ServiceStep(c) \/ UNCHANGED <<PhaseMap, due>>
<1>1. PICK r \in HandleRecord : HeldAs(c, r)
  BY DEF Holds
<1>2. ch' = [ch EXCEPT ![c] = r]
  BY <1>1 DEF HeldAs
<1>3. due' = due
  BY DEF Holds
<1>4. CASE r.state = ch[c].state
  BY <1>2, <1>3, <1>4, MapSame
<1>5. CASE ~Moving(c) /\ r.state \in {Target(ch[c].state), "ERROR"}
  <2> DEFINE p == Phase(r.state)
  <2>1. p \in {"closed", "ready", "failed"}
    BY <1>5, PhaseOf DEF Target, States
  <2>2. due[c] = {}
    BY <1>5 DEF OwnInv, OwnsWhatItMoves, Moving
  <2>3. PhaseMap' = [PhaseMap EXCEPT ![c] = p]
    BY <1>2, MapEnter
  <2>4. due' = [due EXCEPT ![c] = {}]
    BY <1>3, <2>2 DEF OwnInv, TypeInv, AmigaTypeOK
  <2>5. PhaseMap[c] = "working"
    BY WorkPhase
  <2> HIDE DEF p
  <2> QED BY <2>1, <2>2, <2>3, <2>4, <2>5 DEF ServiceStep, Enters
<1> QED BY <1>1, <1>4, <1>5 DEF HeldAs

LEMMA KeptWordsServes ==
  ASSUME OwnInv, NEW c \in Handles, NEW n, UNCHANGED due,
         ch' = [ch EXCEPT ![c] = [ch[c] EXCEPT !.tr_words = n]]
  PROVE  UNCHANGED <<PhaseMap, due>>
<1> DEFINE r == [ch[c] EXCEPT !.tr_words = n]
<1>1. r.state = ch[c].state
  BY DEF OwnInv, TypeInv, AmigaTypeOK, HandleRecord
<1> HIDE DEF r
<1> QED BY <1>1, MapSame DEF r

LEMMA ReportsServes ==
  ASSUME OwnInv, NEW c \in Handles, Reports(c), work.c = c, work.pc # "none"
  PROVE  ServiceStep(c)
<1>1. PICK r \in HandleRecord, result \in MsgResults, got \in Int :
        Reported(c, r, result, got)
  BY DEF Reports
<1>2. due[c] = {ch[c].tr_msg}
  BY DEF Reports, OwnInv, OwnsWhatItMoves, Moving
<1>3. ch' = [ch EXCEPT ![c] = r] /\ r.state \in {"IDLE", "ERROR"}
  BY <1>1 DEF Reported
<1>4. due' = [due EXCEPT ![c] = {}]
  <2>1. due' = [due EXCEPT ![c] = @ \ {ch[c].tr_msg}]
    BY <1>1 DEF Reported
  <2> QED BY <1>2, <2>1
<1> DEFINE p == Phase(r.state)
<1>5. p \in {"ready", "failed"}
  BY <1>3, PhaseOf DEF States
<1>6. PhaseMap' = [PhaseMap EXCEPT ![c] = p]
  BY <1>3, MapEnter
<1>7. PhaseMap[c] = "working"
  BY WorkPhase
<1> HIDE DEF p
<1> QED BY <1>4, <1>5, <1>6, <1>7 DEF ServiceStep, Enters

LEMMA CallMaps ==
  ASSUME OwnInv, NEW c \in Handles, NEW from, NEW s \in States, Calls(c, from, s)
  PROVE  PhaseMap' = [PhaseMap EXCEPT ![c] = Phase(s)]
<1> DEFINE r == [ch[c] EXCEPT !.state = s]
<1>1. r.state = s
  BY StateHandle DEF OwnInv, TypeInv, AmigaTypeOK
<1>2. ch' = [ch EXCEPT ![c] = r]
  BY DEF Calls
<1> HIDE DEF r
<1> QED BY <1>1, <1>2, MapEnter

LEMMA ApiServes ==
  ASSUME OwnInv, NEW c \in Handles, ApiCall(c)
  PROVE  ServiceStep(c) \/ UNCHANGED <<PhaseMap, due>>
<1>1. PhaseMap[c] = Phase(ch[c].state) /\ ch[c].state \in States
  BY DEF PhaseMap, OwnInv, TypeInv, AmigaTypeOK, HandleRecord
<1>2. ASSUME UNCHANGED due, ~Moving(c)
      PROVE  due[c] = {} /\ due' = [due EXCEPT ![c] = {}]
  <2>1. due[c] = {}
    BY <1>2 DEF OwnInv, OwnsWhatItMoves, Moving
  <2> QED BY <1>2, <2>1 DEF OwnInv, TypeInv, AmigaTypeOK
<1>3. CASE UNCHANGED due /\ \/ Calls(c, {"CLOSED"}, "OPEN")
                            \/ Calls(c, {"IDLE"}, "CLOSE")
                            \/ Calls(c, {"IDLE"}, "POLL")
  <2>1. ~Moving(c) /\ PhaseMap[c] \in {"closed", "ready"}
    BY <1>1, <1>3, PhaseOf DEF Calls, Moving
  <2>2. PhaseMap' = [PhaseMap EXCEPT ![c] = "working"]
    BY <1>3, CallMaps, PhaseOf DEF States
  <2> QED BY <1>2, <1>3, <2>1, <2>2 DEF ServiceStep, Enters
<1>4. CASE UNCHANGED due /\ Calls(c, {"OPEN"}, "IDLE")
  <2>1. ~Moving(c) /\ PhaseMap[c] = "working"
    BY <1>1, <1>4, PhaseOf DEF Calls, Moving
  <2>2. PhaseMap' = [PhaseMap EXCEPT ![c] = "ready"]
    BY <1>4, CallMaps, PhaseOf DEF States
  <2> QED BY <1>2, <1>4, <2>1, <2>2 DEF ServiceStep, Enters
<1>5. CASE UNCHANGED due /\ Calls(c, {"TRANSFER"}, "CANCEL")
  <2>1. PhaseMap[c] = "working"
    BY <1>1, <1>5, PhaseOf DEF Calls
  <2>2. PhaseMap' = [PhaseMap EXCEPT ![c] = "working"]
    BY <1>5, CallMaps, PhaseOf DEF States
  <2>3. PhaseMap = [d \in Handles |-> PhaseMap[d]]
    BY DEF PhaseMap
  <2> QED BY <1>5, <2>1, <2>2, <2>3
<1>6. CASE Calls(c, States, "RESET") /\ due' = [due EXCEPT ![c] = {}]
  <2>1. PhaseMap' = [PhaseMap EXCEPT ![c] = "working"]
    BY <1>6, CallMaps, PhaseOf DEF States
  <2> QED BY <1>6, <2>1 DEF ServiceStep, Enters
<1>7. ASSUME NEW m \in Msgs, Transfer(c, m)
      PROVE  ServiceStep(c)
  <2> DEFINE r == [ch[c] EXCEPT !.state = "TRANSFER", !.tr_msg = m, !.tr_words = 0]
  <2>1. r.state = "TRANSFER"
    BY TransferHandle DEF OwnInv, TypeInv, AmigaTypeOK
  <2>2. /\ ch' = [ch EXCEPT ![c] = r]
        /\ ch[c].state = "IDLE"
    BY <1>7 DEF Transfer, Call
  <2>3. /\ due' = [due EXCEPT ![c] = {m}]
        /\ \A d \in Handles : m \notin due[d]
    BY <1>7 DEF Transfer
  <2> HIDE DEF r
  <2>4. PhaseMap' = [PhaseMap EXCEPT ![c] = Phase(r.state)]
    BY <2>2, MapEnter
  <2>5. Phase(r.state) = "working"
    BY <2>1, PhaseOf DEF States
  <2>6. PhaseMap' = [PhaseMap EXCEPT ![c] = "working"]
    BY <2>4, <2>5
  <2>7. PhaseMap[c] = "ready"
    BY <1>1, <2>2, PhaseOf
  <2> QED BY <2>3, <2>6, <2>7 DEF ServiceStep, Enters
<1> QED BY <1>3, <1>4, <1>5, <1>6, <1>7, CallEffects DEF ApiEffect

LEMMA StepServes ==
  ASSUME OwnInv, [Next]_vars
  PROVE  (\E c \in Handles : ServiceStep(c)) \/ UNCHANGED <<PhaseMap, due>>
<1>1. CASE UNCHANGED <<ch, due>>
  BY <1>1 DEF PhaseMap
<1>2. ASSUME NEW c \in Handles, WorkStep(c)
      PROVE  ServiceStep(c) \/ UNCHANGED <<PhaseMap, due>>
  <2>1. Effect(c) /\ work.c = c /\ work.pc # "none"
    BY <1>2, WorkEffect, WorkIsOwn DEF OwnInv
  <2> QED BY <2>1, HoldsServes, KeptWordsServes, ReportsServes
          DEF Effect, Sized, Moves, Moved
<1>3. \/ UNCHANGED <<ch, due>>
      \/ \E c \in Handles : WorkStep(c) \/ ApiCall(c)
  BY DEF Next, vars, StartWork, apiVars, DeviceStep, DeviceHandler, DeviceRestart,
         DeviceReset, StrayStep, StrayCommand
<1> QED BY <1>1, <1>2, <1>3, ApiServes

(* The driver implements the service: a handle takes each call only in the  *)
(* phase that allows it, keeps a message just while it works, and gives it  *)
(* back with the end of that work.                                          *)
THEOREM DriverImplementsService == Spec => KeepsService
<1>1. Init => Service!Init
  BY DEF Init, ClosedHandle, Phase, Service!Init
<1>2. OwnInv /\ [Next]_vars => [Service!Next]_(Service!vars)
  <2> SUFFICES ASSUME OwnInv, [Next]_vars PROVE [Service!Next]_(Service!vars)
    OBVIOUS
  <2> QED BY StepServes, ServiceStepIsStep DEF PhaseMap, Service!vars
<1> QED BY <1>1, <1>2, OwnInvariant, PTL DEF Spec, KeepsService, Service!Spec

=============================================================================
