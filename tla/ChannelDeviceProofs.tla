------------------------ MODULE ChannelDeviceProofs ------------------------
(***************************************************************************)
(* Theorems about the channels of the device, for any number of channels,  *)
(* any MTUs and message sizes and any driver.                              *)
(***************************************************************************)
EXTENDS ChannelDevice, TLAPS

(* What may happen to the device, with the arguments of each step.          *)
LEMMA CommandSteps ==
  ASSUME DevTypeOK, DevCommand
  PROVE  \E id \in Ids \cup {0} :
           \/ SelectChannel(id) /\ id \in Ids
           \/ ReadChannel(id) \/ SetMtu(id) \/ OpenChannel(id)
           \/ CloseChannel(id) \/ ReadErrorCode(id)
           \/ \E off \in Offsets : SetOffset(id, off)
           \/ \E n \in 0 .. MaxWords : ReadBegin(id, n) \/ WriteBegin(id, n)
           \/ \E dir \in {"RX", "TX"} : DataChunk(id, dir)
           \/ CancelTransfer(id)
  BY DEF DevCommand, IndexedCommand, DevTypeOK

LEMMA FreshType ==
  FreshDevice => /\ chan' \in [Channels -> ChannelRecord]
                 /\ sel' \in {0}
                 /\ status' = {}
                 /\ busy' \in 0 .. MaxBusy
                 /\ hnd' \in [Channels -> {"closed", "open", "read", "write"}]
  BY MtuAssumption, WordsAssumption, OffsetAssumption
  DEF FreshDevice, FreshChannel, ChannelRecord, DevStates, ErrorCodes

(* A channel stays one when a field is set.                                 *)
LEMMA FieldRecord ==
  ASSUME NEW r \in ChannelRecord
  PROVE  /\ \A s \in DevStates : [r EXCEPT !.dev_state = s] \in ChannelRecord
         /\ \A f \in SUBSET {"RX", "TX"} : [r EXCEPT !.flags = f] \in ChannelRecord
         /\ \A n \in 0 .. MaxWords : /\ [r EXCEPT !.num = n] \in ChannelRecord
                                     /\ [r EXCEPT !.got = n] \in ChannelRecord
         /\ \A o \in Offsets : [r EXCEPT !.off = o] \in ChannelRecord
<1>1. \A s \in DevStates : [r EXCEPT !.dev_state = s] \in ChannelRecord
  BY DEF ChannelRecord
<1>2. \A f \in SUBSET {"RX", "TX"} : [r EXCEPT !.flags = f] \in ChannelRecord
  BY DEF ChannelRecord
<1>3. \A n \in 0 .. MaxWords : /\ [r EXCEPT !.num = n] \in ChannelRecord
                               /\ [r EXCEPT !.got = n] \in ChannelRecord
  BY DEF ChannelRecord
<1>4. \A o \in Offsets : [r EXCEPT !.off = o] \in ChannelRecord
  BY DEF ChannelRecord
<1> QED BY <1>1, <1>2, <1>3, <1>4

LEMMA NoWords == 0 \in 0 .. MaxWords
  BY WordsAssumption

LEMMA ErrorRecord ==
  ASSUME NEW r \in ChannelRecord, NEW code \in ErrorCodes
  PROVE  WithError(r, code) \in ChannelRecord
  BY DEF WithError, ChannelRecord, DevStates

(* Every command of the protocol keeps the types, also those sent by the    *)
(* driver of ChannelMaster.                                                 *)
LEMMA FailType ==
  ASSUME DevTypeOK, NEW c \in Channels, NEW code \in ErrorCodes,
         FailChannel(c, code), UNCHANGED <<mcu, sel, busy>>
  PROVE  DevTypeOK'
<1>1. WithError(chan[c], code) \in ChannelRecord
  BY ErrorRecord DEF DevTypeOK
<1> QED BY <1>1 DEF FailChannel, DevTypeOK

LEMMA NoChannelType ==
  ASSUME DevTypeOK, NEW id, NoSuchChannel(id)
  PROVE  DevTypeOK'
  BY DEF NoSuchChannel, DevTypeOK

LEMMA SelectType ==
  ASSUME DevTypeOK, NEW id \in Ids, SelectChannel(id)
  PROVE  DevTypeOK'
  BY ChannelsAssumption DEF SelectChannel, DevTypeOK, MaxChannel

LEMMA ReadType ==
  ASSUME DevTypeOK, NEW id, ReadChannel(id)
  PROVE  DevTypeOK'
  BY NoChannelType DEF ReadChannel, DevTypeOK, devVars

LEMMA SetMtuType ==
  ASSUME DevTypeOK, NEW id, SetMtu(id)
  PROVE  DevTypeOK'
<1>1. CASE NoSuchChannel(id)
  BY <1>1, NoChannelType
<1>2. CASE ~NoSuchChannel(id)
  BY <1>2 DEF SetMtu, DevTypeOK, ChannelRecord
<1> QED BY <1>1, <1>2

LEMMA OpenType ==
  ASSUME DevTypeOK, NEW id, OpenChannel(id)
  PROVE  DevTypeOK'
<1>1. CASE NoSuchChannel(id)
  BY <1>1, NoChannelType
<1>2. CASE ~NoSuchChannel(id)
  <2> DEFINE opened == [chan[id] EXCEPT !.dev_state = "READY", !.flags = {},
                                        !.num = 0, !.got = 0, !.off = 0]
  <2>1. id \in Channels
    BY <1>2 DEF OpenChannel
  <2>2. opened \in ChannelRecord
    <3>1. chan[id] \in ChannelRecord
      BY <2>1 DEF DevTypeOK
    <3> DEFINE ready == [chan[id] EXCEPT !.dev_state = "READY"]
               idle == [ready EXCEPT !.flags = {}]
               empty == [idle EXCEPT !.num = 0]
               none == [empty EXCEPT !.got = 0]
    <3>2. ready \in ChannelRecord
      BY <3>1, FieldRecord DEF DevStates
    <3> HIDE DEF ready
    <3>3. idle \in ChannelRecord
      BY <3>2, FieldRecord
    <3> HIDE DEF idle
    <3>4. empty \in ChannelRecord
      BY <3>3, FieldRecord, NoWords
    <3> HIDE DEF empty
    <3>5. none \in ChannelRecord
      BY <3>4, FieldRecord, NoWords
    <3> HIDE DEF none
    <3>6. [none EXCEPT !.off = 0] \in ChannelRecord
      BY <3>5, FieldRecord, OffsetAssumption
    <3> QED BY <3>6 DEF ready, idle, empty, none
  <2>4. WithError(opened, "HANDLER_OPEN") \in ChannelRecord
    BY <2>2, ErrorRecord DEF ErrorCodes
  <2>3. chan' \in [Channels -> ChannelRecord]
    BY <1>2, <2>1, <2>2, <2>4 DEF OpenChannel, DevTypeOK
  <2> QED BY <1>2, <2>1, <2>3 DEF OpenChannel, DevTypeOK
<1> QED BY <1>1, <1>2

LEMMA CloseType ==
  ASSUME DevTypeOK, NEW id, CloseChannel(id)
  PROVE  DevTypeOK'
<1>1. CASE NoSuchChannel(id)
  BY <1>1, NoChannelType
<1>2. CASE ~NoSuchChannel(id)
  BY <1>2 DEF CloseChannel, DevTypeOK, ChannelRecord, DevStates
<1> QED BY <1>1, <1>2

LEMMA ReadErrorType ==
  ASSUME DevTypeOK, NEW id, ReadErrorCode(id)
  PROVE  DevTypeOK'
<1>1. CASE NoSuchChannel(id)
  BY <1>1, NoChannelType
<1>2. CASE ~NoSuchChannel(id)
  BY <1>2 DEF ReadErrorCode, DevTypeOK, ChannelRecord, ErrorCodes
<1> QED BY <1>1, <1>2

LEMMA OffsetType ==
  ASSUME DevTypeOK, NEW id, NEW off \in Offsets, SetOffset(id, off)
  PROVE  DevTypeOK'
<1>1. CASE NoSuchChannel(id)
  BY <1>1, NoChannelType
<1>2. CASE ~NoSuchChannel(id)
  BY <1>2 DEF SetOffset, DevTypeOK, ChannelRecord
<1> QED BY <1>1, <1>2

(* The record of a channel on which a transfer of n words begins.           *)
LEMMA BeginRecord ==
  ASSUME NEW r \in ChannelRecord, NEW n \in 0 .. MaxWords, NEW dir \in {"RX", "TX"}
  PROVE  [r EXCEPT !.num = n, !.got = 0, !.flags = @ \cup {dir}] \in ChannelRecord
<1> DEFINE sized == [r EXCEPT !.num = n]
           emptied == [sized EXCEPT !.got = 0]
           flags == emptied.flags \cup {dir}
<1>1. sized \in ChannelRecord
  BY FieldRecord
<1> HIDE DEF sized
<1>2. emptied \in ChannelRecord
  BY <1>1, FieldRecord, NoWords
<1> HIDE DEF emptied
<1>3. flags \in SUBSET {"RX", "TX"}
  BY <1>2 DEF ChannelRecord
<1> HIDE DEF flags
<1>4. [emptied EXCEPT !.flags = flags] \in ChannelRecord
  BY <1>2, <1>3, FieldRecord
<1> QED BY <1>4 DEF sized, emptied, flags

LEMMA ReadBeginType ==
  ASSUME DevTypeOK, NEW id, NEW n \in 0 .. MaxWords, ReadBegin(id, n)
  PROVE  DevTypeOK'
<1>1. CASE NoSuchChannel(id)
  BY <1>1, NoChannelType
<1>2. CASE id \in Channels /\ OpRunning(id)
  BY <1>2, FailType DEF ReadBegin, NoSuchChannel, ErrorCodes
<1>3. CASE id \in Channels /\ ~OpRunning(id)
  <2> DEFINE begun == [chan[id] EXCEPT !.num = n, !.got = 0, !.flags = @ \cup {"RX"}]
  <2>1. begun \in ChannelRecord
    BY <1>3, BeginRecord DEF DevTypeOK
  <2>2. chan' = [chan EXCEPT ![id] = begun]
    BY <1>3 DEF ReadBegin, NoSuchChannel, DevTypeOK
  <2> QED BY <1>3, <2>1, <2>2 DEF ReadBegin, NoSuchChannel, DevTypeOK
<1> QED BY <1>1, <1>2, <1>3 DEF ReadBegin

LEMMA WriteBeginType ==
  ASSUME DevTypeOK, NEW id, NEW n \in 0 .. MaxWords, WriteBegin(id, n)
  PROVE  DevTypeOK'
<1>1. CASE NoSuchChannel(id)
  BY <1>1, NoChannelType
<1>2. CASE id \in Channels /\ OpRunning(id)
  BY <1>2, FailType DEF WriteBegin, NoSuchChannel, ErrorCodes
<1>3. CASE id \in Channels /\ ~OpRunning(id)
  <2> DEFINE begun == [chan[id] EXCEPT !.num = n, !.got = 0, !.flags = @ \cup {"TX"}]
  <2>1. begun \in ChannelRecord
    BY <1>3, BeginRecord DEF DevTypeOK
  <2>2. chan' = [chan EXCEPT ![id] = begun]
    BY <1>3 DEF WriteBegin, NoSuchChannel, DevTypeOK
  <2> QED BY <1>3, <2>1, <2>2 DEF WriteBegin, NoSuchChannel, DevTypeOK
<1> QED BY <1>1, <1>2, <1>3 DEF WriteBegin

LEMMA DataType ==
  ASSUME DevTypeOK, NEW id, NEW dir \in {"RX", "TX"}, DataChunk(id, dir)
  PROVE  DevTypeOK'
<1>1. CASE NoSuchChannel(id)
  BY <1>1, NoChannelType
<1>2. CASE id \in Channels /\ chan[id].flags # {dir}
  BY <1>2, FailType DEF DataChunk, NoSuchChannel, ErrorCodes
<1>3. CASE id \in Channels /\ chan[id].flags = {dir}
  BY <1>3 DEF DataChunk, NoSuchChannel, DevTypeOK, AfterEnd
<1> QED BY <1>1, <1>2, <1>3 DEF DataChunk

LEMMA CancelType ==
  ASSUME DevTypeOK, NEW id, CancelTransfer(id)
  PROVE  DevTypeOK'
<1>1. CASE NoSuchChannel(id)
  BY <1>1, NoChannelType
<1>2. CASE id \in Channels /\ chan[id].flags = {}
  BY <1>2, FailType DEF CancelTransfer, NoSuchChannel, ErrorCodes
<1>3. CASE id \in Channels /\ chan[id].flags # {}
  BY <1>3 DEF CancelTransfer, NoSuchChannel, DevTypeOK, AfterEnd, ChannelRecord
<1> QED BY <1>1, <1>2, <1>3 DEF CancelTransfer

LEMMA HandlerType ==
  ASSUME DevTypeOK, DevHandler
  PROVE  DevTypeOK'
<1>1. ASSUME NEW c \in Channels, HandlerError(c) PROVE DevTypeOK'
  BY <1>1, FailType DEF HandlerError, ErrorCodes
<1>2. ASSUME NEW c \in Channels, RxPending(c) PROVE DevTypeOK'
  BY <1>2 DEF RxPending, DevTypeOK
<1>3. CASE SetBusy
  BY <1>3, WordsAssumption DEF SetBusy, DevTypeOK
<1>4. CASE ClrBusy
  BY <1>4, WordsAssumption DEF ClrBusy, DevTypeOK
<1> QED BY <1>1, <1>2, <1>3, <1>4 DEF DevHandler

LEMMA RestartType ==
  ASSUME DevTypeOK, Restart \/ ResetCommand
  PROVE  DevTypeOK'
  BY FreshType DEF Restart, ResetCommand, DevTypeOK, MaxChannel

LEMMA CommandType ==
  ASSUME DevTypeOK, DevCommand
  PROVE  DevTypeOK'
<1>1. PICK id \in Ids \cup {0} :
           \/ SelectChannel(id) /\ id \in Ids
           \/ ReadChannel(id) \/ SetMtu(id) \/ OpenChannel(id)
           \/ CloseChannel(id) \/ ReadErrorCode(id)
           \/ \E off \in Offsets : SetOffset(id, off)
           \/ \E n \in 0 .. MaxWords : ReadBegin(id, n) \/ WriteBegin(id, n)
           \/ \E dir \in {"RX", "TX"} : DataChunk(id, dir)
           \/ CancelTransfer(id)
  BY CommandSteps
<1> QED
  BY <1>1, SelectType, ReadType, SetMtuType, OpenType, CloseType, ReadErrorType,
     OffsetType, ReadBeginType, WriteBeginType, DataType, CancelType

(* The variables of the firmware stay in their ranges, whatever an Amiga    *)
(* driver sends and whatever the handlers do.                               *)
THEOREM DeviceType == DevSpec => []DevTypeOK
<1>1. DevInit => DevTypeOK
  BY MtuAssumption, WordsAssumption, OffsetAssumption
  DEF DevInit, DevTypeOK, FreshChannel, ChannelRecord, DevStates, ErrorCodes, MaxChannel
<1>2. DevTypeOK /\ [DevNext]_devVars => DevTypeOK'
  <2>1. CASE UNCHANGED devVars
    BY <2>1 DEF devVars, DevTypeOK
  <2> QED BY <2>1, CommandType, HandlerType, RestartType DEF DevNext
<1> QED BY <1>1, <1>2, PTL DEF DevSpec

(* What a channel and its handler know of the running transfer: the         *)
(* inductive part of the three theorems below.                              *)
TransferInv == DevTypeOK /\ OneTransfer /\ HandlerInStep

LEMMA TransferSame ==
  ASSUME OneTransfer, HandlerInStep, DevTypeOK,
         \A c \in Channels : chan'[c].flags = chan[c].flags /\ hnd'[c] = hnd[c]
  PROVE  OneTransfer' /\ HandlerInStep'
  BY DEF OneTransfer, HandlerInStep

LEMMA FailSame ==
  ASSUME DevTypeOK, NEW c \in Channels, NEW code, FailChannel(c, code)
  PROVE  \A d \in Channels : chan'[d].flags = chan[d].flags /\ hnd'[d] = hnd[d]
                            /\ chan'[d].num = chan[d].num
  BY DEF FailChannel, WithError, DevTypeOK, ChannelRecord

(* An open channel has no transfer, whether its handler accepted or not.    *)
LEMMA OpenedIsIdle ==
  ASSUME DevTypeOK, NEW id, ~NoSuchChannel(id), OpenChannel(id)
  PROVE  /\ id \in Channels
         /\ chan'[id].flags = {}
         /\ \A c \in Channels \ {id} : chan'[c] = chan[c]
<1> DEFINE opened == [chan[id] EXCEPT !.dev_state = "READY", !.flags = {},
                                      !.num = 0, !.got = 0, !.off = 0]
<1>1. /\ id \in Channels
      /\ \/ chan' = [chan EXCEPT ![id] = opened]
         \/ chan' = [chan EXCEPT ![id] = WithError(opened, "HANDLER_OPEN")]
  BY DEF OpenChannel
<1>2. opened.flags = {} /\ WithError(opened, "HANDLER_OPEN").flags = {}
  <2>1. DOMAIN chan[id] = DOMAIN FreshChannel
    BY <1>1 DEF DevTypeOK, ChannelRecord, FreshChannel
  <2> QED BY <2>1 DEF WithError, FreshChannel
<1> HIDE DEF opened
<1> QED BY <1>1, <1>2 DEF DevTypeOK

LEMMA CommandInStep ==
  ASSUME TransferInv, DevCommand
  PROVE  OneTransfer' /\ HandlerInStep'
<1>1. PICK id \in Ids \cup {0} :
           \/ SelectChannel(id) /\ id \in Ids
           \/ ReadChannel(id) \/ SetMtu(id) \/ OpenChannel(id)
           \/ CloseChannel(id) \/ ReadErrorCode(id)
           \/ \E off \in Offsets : SetOffset(id, off)
           \/ \E n \in 0 .. MaxWords : ReadBegin(id, n) \/ WriteBegin(id, n)
           \/ \E dir \in {"RX", "TX"} : DataChunk(id, dir)
           \/ CancelTransfer(id)
  BY CommandSteps DEF TransferInv
<1>2. CASE NoSuchChannel(id) \/ SelectChannel(id) \/ ReadChannel(id)
  BY <1>2 DEF TransferInv, NoSuchChannel, SelectChannel, ReadChannel, devVars,
              OneTransfer, HandlerInStep
<1> SUFFICES ASSUME ~NoSuchChannel(id), ~SelectChannel(id), ~ReadChannel(id)
             PROVE  OneTransfer' /\ HandlerInStep'
  BY <1>2
<1> USE DEF TransferInv
<1>3. CASE SetMtu(id) \/ ReadErrorCode(id) \/ \E off \in Offsets : SetOffset(id, off)
  <2>1. \A c \in Channels : chan'[c].flags = chan[c].flags /\ hnd'[c] = hnd[c]
    BY <1>3 DEF SetMtu, ReadErrorCode, SetOffset, DevTypeOK, ChannelRecord
  <2> QED BY <2>1, TransferSame
<1>4. CASE OpenChannel(id)
  <2>1. /\ id \in Channels
        /\ hnd' = [hnd EXCEPT ![id] = "open"]
        /\ \A c \in Channels \ {id} : chan'[c] = chan[c]
        /\ chan'[id].flags = {}
    BY <1>4, OpenedIsIdle DEF OpenChannel
  <2> QED BY <2>1 DEF OneTransfer, HandlerInStep, DevTypeOK
<1>5. CASE CloseChannel(id)
  <2>1. /\ id \in Channels
        /\ hnd' = [hnd EXCEPT ![id] = "closed"]
        /\ \A c \in Channels : chan'[c].flags = chan[c].flags
    BY <1>5 DEF CloseChannel, DevTypeOK, ChannelRecord
  <2> QED BY <2>1 DEF OneTransfer, HandlerInStep, DevTypeOK
<1>6. ASSUME NEW n \in 0 .. MaxWords, ReadBegin(id, n) \/ WriteBegin(id, n)
      PROVE  OneTransfer' /\ HandlerInStep'
  <2>1. id \in Channels
    BY <1>6 DEF ReadBegin, WriteBegin
  <2>2. CASE OpRunning(id)
    BY <1>6, <2>1, <2>2, FailSame, TransferSame DEF ReadBegin, WriteBegin
  <2>3. CASE ~OpRunning(id) /\ ReadBegin(id, n)
    <3>1. /\ chan'[id].flags = {"RX"}
          /\ \A c \in Channels \ {id} : chan'[c] = chan[c]
          /\ hnd' = [hnd EXCEPT ![id] = "read"]
      BY <2>1, <2>3 DEF ReadBegin, OpRunning, DevTypeOK, ChannelRecord
    <3> QED BY <2>1, <3>1 DEF OneTransfer, HandlerInStep, DevTypeOK
  <2>4. CASE ~OpRunning(id) /\ WriteBegin(id, n)
    <3>1. /\ chan'[id].flags = {"TX"}
          /\ \A c \in Channels \ {id} : chan'[c] = chan[c]
          /\ hnd' = [hnd EXCEPT ![id] = "write"]
      BY <2>1, <2>4 DEF WriteBegin, OpRunning, DevTypeOK, ChannelRecord
    <3> QED BY <2>1, <3>1 DEF OneTransfer, HandlerInStep, DevTypeOK
  <2> QED BY <1>6, <2>2, <2>3, <2>4
<1>7. ASSUME NEW dir \in {"RX", "TX"}, DataChunk(id, dir)
      PROVE  OneTransfer' /\ HandlerInStep'
  <2>1. CASE chan[id].flags # {dir}
    BY <1>7, <2>1, FailSame, TransferSame DEF DataChunk
  <2>2. CASE chan[id].flags = {dir}
    BY <1>7, <2>2 DEF DataChunk, AfterEnd, OneTransfer, HandlerInStep, DevTypeOK
  <2> QED BY <2>1, <2>2
<1>8. CASE CancelTransfer(id)
  <2>1. CASE chan[id].flags = {}
    BY <1>8, <2>1, FailSame, TransferSame DEF CancelTransfer
  <2>2. CASE chan[id].flags # {}
    <3>1. /\ id \in Channels
          /\ chan'[id].flags # {"RX", "TX"}
          /\ \A c \in Channels \ {id} : chan'[c] = chan[c]
          /\ hnd' = [hnd EXCEPT ![id] = AfterEnd(hnd[id])]
      BY <1>8, <2>2 DEF CancelTransfer, DevTypeOK, ChannelRecord
    <3> QED BY <3>1 DEF OneTransfer, HandlerInStep, DevTypeOK, AfterEnd
  <2> QED BY <2>1, <2>2
<1> QED BY <1>1, <1>3, <1>4, <1>5, <1>6, <1>7, <1>8

LEMMA OtherInStep ==
  ASSUME TransferInv, DevHandler \/ Restart \/ ResetCommand \/ UNCHANGED devVars
  PROVE  OneTransfer' /\ HandlerInStep'
<1> USE DEF TransferInv
<1>1. ASSUME NEW c \in Channels, HandlerError(c) PROVE OneTransfer' /\ HandlerInStep'
  BY <1>1, FailSame, TransferSame DEF HandlerError
<1>2. CASE Restart \/ ResetCommand
  BY <1>2 DEF Restart, ResetCommand, FreshDevice, FreshChannel, OneTransfer, HandlerInStep
<1>3. CASE \/ \E c \in Channels : RxPending(c)
           \/ SetBusy \/ ClrBusy \/ UNCHANGED devVars
  BY <1>3 DEF RxPending, SetBusy, ClrBusy, devVars, OneTransfer, HandlerInStep
<1> QED BY <1>1, <1>2, <1>3 DEF DevHandler

LEMMA TransferInvariant == DevSpec => []TransferInv
<1>1. DevInit => OneTransfer /\ HandlerInStep
  BY DEF DevInit, FreshChannel, OneTransfer, HandlerInStep
<1>2. DevTypeOK /\ OneTransfer /\ HandlerInStep /\ [DevNext]_devVars
        => OneTransfer' /\ HandlerInStep'
  BY CommandInStep, OtherInStep DEF DevNext, TransferInv
<1> QED BY <1>1, <1>2, DeviceType, PTL DEF DevSpec, TransferInv

(* A channel never runs a read and a write at once.                         *)
THEOREM OneTransferAtATime == DevSpec => []OneTransfer
  BY TransferInvariant, PTL DEF TransferInv

(* A handler in a transfer can be told of its end.                          *)
THEOREM HandlersInStep == DevSpec => []HandlerInStep
  BY TransferInvariant, PTL DEF TransferInv

(* One step of the device leaves the transfer of channel c alone, or ends   *)
(* it.                                                                      *)
Kept(c) ==
  chan[c].flags # {} /\ chan'[c].flags # {}
    => chan'[c].flags = chan[c].flags /\ chan'[c].num = chan[c].num

LEMMA CommandKeeps ==
  ASSUME TransferInv, DevCommand, NEW c \in Channels
  PROVE  Kept(c)
<1>1. PICK id \in Ids \cup {0} :
           \/ SelectChannel(id) /\ id \in Ids
           \/ ReadChannel(id) \/ SetMtu(id) \/ OpenChannel(id)
           \/ CloseChannel(id) \/ ReadErrorCode(id)
           \/ \E off \in Offsets : SetOffset(id, off)
           \/ \E n \in 0 .. MaxWords : ReadBegin(id, n) \/ WriteBegin(id, n)
           \/ \E dir \in {"RX", "TX"} : DataChunk(id, dir)
           \/ CancelTransfer(id)
  BY CommandSteps DEF TransferInv
<1>2. CASE NoSuchChannel(id) \/ SelectChannel(id) \/ ReadChannel(id)
  BY <1>2 DEF NoSuchChannel, SelectChannel, ReadChannel, devVars, Kept
<1> SUFFICES ASSUME ~NoSuchChannel(id), ~SelectChannel(id), ~ReadChannel(id)
             PROVE  Kept(c)
  BY <1>2
<1> USE DEF TransferInv
<1>3. CASE SetMtu(id) \/ ReadErrorCode(id) \/ CloseChannel(id)
           \/ \E off \in Offsets : SetOffset(id, off)
  BY <1>3 DEF SetMtu, ReadErrorCode, CloseChannel, SetOffset, Kept, DevTypeOK,
              ChannelRecord
<1>4. CASE OpenChannel(id)
  <2>1. /\ \A d \in Channels \ {id} : chan'[d] = chan[d]
        /\ id \in Channels => chan'[id].flags = {}
    BY <1>4, OpenedIsIdle
  <2> QED BY <2>1 DEF Kept
<1>5. ASSUME NEW n \in 0 .. MaxWords, ReadBegin(id, n) \/ WriteBegin(id, n)
      PROVE  Kept(c)
  <2>1. CASE OpRunning(id)
    BY <1>5, <2>1, FailSame DEF ReadBegin, WriteBegin, Kept
  <2>2. CASE ~OpRunning(id)
    BY <1>5, <2>2 DEF ReadBegin, WriteBegin, OpRunning, Kept, DevTypeOK
  <2> QED BY <2>1, <2>2
<1>6. ASSUME NEW dir \in {"RX", "TX"}, DataChunk(id, dir)
      PROVE  Kept(c)
  BY <1>6, FailSame DEF DataChunk, Kept
<1>7. CASE CancelTransfer(id)
  <2>1. CASE chan[id].flags = {}
    BY <1>7, <2>1, FailSame DEF CancelTransfer, Kept
  <2>2. CASE chan[id].flags # {}
    BY <1>7, <2>2 DEF CancelTransfer, OneTransfer, Kept, DevTypeOK, ChannelRecord
  <2> QED BY <2>1, <2>2
<1> QED BY <1>1, <1>3, <1>4, <1>5, <1>6, <1>7

LEMMA OtherKeeps ==
  ASSUME TransferInv, DevHandler \/ Restart \/ ResetCommand \/ UNCHANGED devVars,
         NEW c \in Channels
  PROVE  Kept(c)
<1> USE DEF TransferInv
<1>1. ASSUME NEW d \in Channels, HandlerError(d) PROVE Kept(c)
  BY <1>1, FailSame DEF HandlerError, Kept
<1>2. CASE Restart \/ ResetCommand
  BY <1>2 DEF Restart, ResetCommand, FreshDevice, FreshChannel, Kept
<1>3. CASE \/ \E d \in Channels : RxPending(d)
           \/ SetBusy \/ ClrBusy \/ UNCHANGED devVars
  BY <1>3 DEF RxPending, SetBusy, ClrBusy, devVars, Kept
<1> QED BY <1>1, <1>2, <1>3 DEF DevHandler

(* A running transfer keeps its direction and the size its begin agreed on. *)
THEOREM TransfersKept == DevSpec => TransferKept
<1>1. TransferInv /\ [DevNext]_devVars => \A c \in Channels : Kept(c)
  BY CommandKeeps, OtherKeeps DEF DevNext
<1>2. TransferInv /\ [DevNext]_devVars
        => [\A c \in Channels :
              chan[c].flags # {} /\ chan'[c].flags # {}
                => /\ chan'[c].flags = chan[c].flags
                   /\ chan'[c].num = chan[c].num]_devVars
  BY <1>1 DEF Kept
<1> QED BY <1>2, TransferInvariant, PTL DEF DevSpec, TransferKept

(* The error bit: a step that leaves the codes and the status word alone,   *)
(* and one that fails a channel.                                            *)
LEMMA ErrorsSame ==
  ASSUME ErrorBitTellsTruth, status' = status \/ ErrorBit \notin status',
         \A c \in Channels : chan'[c].err = chan[c].err
  PROVE  ErrorBitTellsTruth'
  BY DEF ErrorBitTellsTruth

LEMMA FailTells ==
  ASSUME DevTypeOK, NEW c \in Channels, NEW code, code # "NONE",
         FailChannel(c, code)
  PROVE  ErrorBitTellsTruth'
<1>1. chan'[c] = WithError(chan[c], code)
  BY DEF FailChannel, DevTypeOK
<1>2. chan'[c].err = code
  BY <1>1 DEF WithError, DevTypeOK, ChannelRecord
<1> QED BY <1>2 DEF ErrorBitTellsTruth

LEMMA OpenTells ==
  ASSUME DevTypeOK, ErrorBitTellsTruth, NEW id \in Channels, OpenChannel(id),
         ~NoSuchChannel(id)
  PROVE  ErrorBitTellsTruth'
<1> DEFINE opened == [chan[id] EXCEPT !.dev_state = "READY", !.flags = {},
                                      !.num = 0, !.got = 0, !.off = 0]
<1>1. opened.err = chan[id].err /\ WithError(opened, "HANDLER_OPEN").err = "HANDLER_OPEN"
  <2>1. DOMAIN chan[id] = DOMAIN FreshChannel
    BY DEF DevTypeOK, ChannelRecord, FreshChannel
  <2> QED BY <2>1 DEF WithError, FreshChannel
<1>2. \/ chan' = [chan EXCEPT ![id] = opened] /\ UNCHANGED status
      \/ chan' = [chan EXCEPT ![id] = WithError(opened, "HANDLER_OPEN")]
  BY DEF OpenChannel
<1> HIDE DEF opened
<1>3. CASE chan' = [chan EXCEPT ![id] = opened] /\ UNCHANGED status
  <2>1. \A c \in Channels : chan'[c].err = chan[c].err
    BY <1>1, <1>3 DEF DevTypeOK
  <2> QED BY <1>3, <2>1, ErrorsSame
<1>4. CASE chan' = [chan EXCEPT ![id] = WithError(opened, "HANDLER_OPEN")]
  <2>1. chan'[id].err = "HANDLER_OPEN"
    BY <1>1, <1>4 DEF DevTypeOK
  <2> QED BY <2>1 DEF ErrorBitTellsTruth
<1> QED BY <1>2, <1>3, <1>4

LEMMA CommandTells ==
  ASSUME DevTypeOK, ErrorBitTellsTruth, DevCommand
  PROVE  ErrorBitTellsTruth'
<1>1. PICK id \in Ids \cup {0} :
           \/ SelectChannel(id) /\ id \in Ids
           \/ ReadChannel(id) \/ SetMtu(id) \/ OpenChannel(id)
           \/ CloseChannel(id) \/ ReadErrorCode(id)
           \/ \E off \in Offsets : SetOffset(id, off)
           \/ \E n \in 0 .. MaxWords : ReadBegin(id, n) \/ WriteBegin(id, n)
           \/ \E dir \in {"RX", "TX"} : DataChunk(id, dir)
           \/ CancelTransfer(id)
  BY CommandSteps
<1>2. CASE NoSuchChannel(id) \/ SelectChannel(id) \/ ReadChannel(id)
  BY <1>2 DEF NoSuchChannel, SelectChannel, ReadChannel, devVars, ErrorBitTellsTruth
<1> SUFFICES ASSUME ~NoSuchChannel(id), ~SelectChannel(id), ~ReadChannel(id)
             PROVE  ErrorBitTellsTruth'
  BY <1>2
<1>3. CASE SetMtu(id) \/ CloseChannel(id) \/ \E off \in Offsets : SetOffset(id, off)
  <2>1. /\ UNCHANGED status
        /\ \A c \in Channels : chan'[c].err = chan[c].err
    BY <1>3 DEF SetMtu, CloseChannel, SetOffset, DevTypeOK, ChannelRecord
  <2> QED BY <2>1, ErrorsSame
<1>4. CASE OpenChannel(id)
  BY <1>4, OpenTells DEF OpenChannel
<1>5. CASE ReadErrorCode(id)
  BY <1>5 DEF ReadErrorCode, ErrorBitTellsTruth
<1>6. ASSUME NEW n \in 0 .. MaxWords, ReadBegin(id, n) \/ WriteBegin(id, n)
      PROVE  ErrorBitTellsTruth'
  <2>1. CASE OpRunning(id)
    BY <1>6, <2>1, FailTells DEF ReadBegin, WriteBegin
  <2>2. CASE ~OpRunning(id)
    <3>1. /\ UNCHANGED status
          /\ \A c \in Channels : chan'[c].err = chan[c].err
      BY <1>6, <2>2 DEF ReadBegin, WriteBegin, DevTypeOK, ChannelRecord
    <3> QED BY <3>1, ErrorsSame
  <2> QED BY <2>1, <2>2
<1>7. ASSUME NEW dir \in {"RX", "TX"}, DataChunk(id, dir)
      PROVE  ErrorBitTellsTruth'
  <2>1. CASE chan[id].flags # {dir}
    BY <1>7, <2>1, FailTells DEF DataChunk
  <2>2. CASE chan[id].flags = {dir}
    BY <1>7, <2>2, ErrorsSame DEF DataChunk
  <2> QED BY <2>1, <2>2
<1>8. CASE CancelTransfer(id)
  <2>1. CASE chan[id].flags = {}
    BY <1>8, <2>1, FailTells DEF CancelTransfer
  <2>2. CASE chan[id].flags # {}
    <3>1. /\ UNCHANGED status
          /\ \A c \in Channels : chan'[c].err = chan[c].err
      BY <1>8, <2>2 DEF CancelTransfer, DevTypeOK, ChannelRecord
    <3> QED BY <3>1, ErrorsSame
  <2> QED BY <2>1, <2>2
<1> QED BY <1>1, <1>3, <1>4, <1>5, <1>6, <1>7, <1>8

LEMMA OtherTells ==
  ASSUME ErrorBit \notin Channels, DevTypeOK, ErrorBitTellsTruth,
         DevHandler \/ Restart \/ ResetCommand \/ UNCHANGED devVars
  PROVE  ErrorBitTellsTruth'
<1>1. ASSUME NEW c \in Channels, HandlerError(c) PROVE ErrorBitTellsTruth'
  BY <1>1, FailTells DEF HandlerError
<1>2. CASE Restart \/ ResetCommand
  BY <1>2 DEF Restart, ResetCommand, FreshDevice, ErrorBitTellsTruth
<1>3. CASE \E c \in Channels : RxPending(c)
  BY <1>3 DEF RxPending, ErrorBitTellsTruth
<1>4. CASE SetBusy \/ ClrBusy \/ UNCHANGED devVars
  BY <1>4 DEF SetBusy, ClrBusy, devVars, ErrorBitTellsTruth, ErrorBit, BusyBit
<1> QED BY <1>1, <1>2, <1>3, <1>4 DEF DevHandler

(* The error bit is never up with no error to collect, as long as no        *)
(* channel has the number of the bit: status_set_rx_flag shifts a one by    *)
(* the number of the channel, and PROTO_STATUS_MASK_RX_PENDING leaves room  *)
(* for six channels of the fourteen there may be.                           *)
THEOREM ErrorBitIsTrue ==
  ASSUME ErrorBit \notin Channels
  PROVE  DevSpec => []ErrorBitTellsTruth
<1>1. DevInit => ErrorBitTellsTruth
  BY DEF DevInit, ErrorBitTellsTruth
<1>2. DevTypeOK /\ ErrorBitTellsTruth /\ [DevNext]_devVars => ErrorBitTellsTruth'
  BY CommandTells, OtherTells DEF DevNext
<1> QED BY <1>1, <1>2, DeviceType, PTL DEF DevSpec

==============================================================================
