---------------------------- MODULE ChannelDevice ----------------------------
(***************************************************************************)
(* The channels of the microcontroller: mcu/src/pamela/channel.c, the      *)
(* command bindings of proto_api.c and the flags of status.c.              *)
(*                                                                         *)
(* Every action is the work of one protocol command, or of one call that   *)
(* a channel handler makes.  The firmware runs them one after the other    *)
(* in its main loop, so each is atomic here.                               *)
(***************************************************************************)
EXTENDS Integers, FiniteSets

CONSTANTS
  Channels,   \* channels with a handler: channel_api_get_channel(id) # NULL
  Ids,        \* channel numbers a command may carry
  DefMtu,     \* handler->def_mtu, in words
  Mtus,       \* MTUs that a handler may agree to
  MaxWords,   \* longest message, in words
  Offsets,    \* stream offsets
  MaxBusy     \* bound: how deep the handlers nest status_set_busy()

MaxChannel == 14           \* PROTO_MAX_CHANNEL
ErrorBit == 6              \* PROTO_STATUS_MASK_ERROR = 1 << 6
BusyBit == 7               \* PROTO_STATUS_MASK_BUSY  = 1 << 7

ASSUME ChannelsAssumption == Channels \subseteq Ids /\ Ids \subseteq Nat
ASSUME MtuAssumption == DefMtu \in Mtus /\ Mtus \subseteq Nat \ {0}
ASSUME WordsAssumption == MaxWords \in 0 .. 65535 /\ MaxBusy \in Nat  \* u16
ASSUME OffsetAssumption == 0 \in Offsets

DevStates == {"AVAILABLE", "READY", "ERROR"}
ErrorCodes == {"NONE", "HANDLER", "HANDLER_OPEN", "OP_RUNNING"}

VARIABLES
  mcu,     \* "run": in the protocol loop; "hung": waits for its watchdog;
           \* "knok": after a restart, until the Amiga's RESET action
  chan,    \* struct channel of every channel
  sel,     \* proto_api.c: channel_id
  status,  \* status.c: the bits set in status_mask
  busy,    \* status.c: u08 busy
  hnd      \* what the calls a handler got so far tell it

devVars == <<mcu, chan, sel, status, busy, hnd>>

------------------------------------------------------------------------------
(* channel_init: what a channel is after every restart of the firmware.     *)
FreshChannel ==
  [dev_state |-> "AVAILABLE", flags |-> {}, err |-> "NONE", mtu |-> DefMtu,
   num |-> 0, got |-> 0, off |-> 0]

FreshDevice ==
  /\ chan' = [c \in Channels |-> FreshChannel]
  /\ sel' = 0
  /\ status' = {}
  /\ busy' = 0
  /\ hnd' = [c \in Channels |-> "closed"]

DevInit ==
  /\ mcu = "run"
  /\ chan = [c \in Channels |-> FreshChannel]
  /\ sel = 0
  /\ status = {}
  /\ busy = 0
  /\ hnd = [c \in Channels |-> "closed"]

(* channel_set_error_code on an existing channel.                           *)
WithError(r, code) == [r EXCEPT !.err = code, !.dev_state = "ERROR"]

FailChannel(c, code) ==
  /\ chan' = [chan EXCEPT ![c] = WithError(@, code)]
  /\ status' = status \cup {ErrorBit}
  /\ UNCHANGED hnd

(* get_channel of a number the firmware does not have: it reports the error *)
(* with channel_set_error_code, which calls get_channel again, and so on    *)
(* until the stack overruns the RAM or the watchdog restarts the device.    *)
NoSuchChannel(id) ==
  /\ id \notin Channels
  /\ mcu' = "hung"
  /\ UNCHANGED <<chan, sel, status, busy, hnd>>

------------------------------------------------------------------------------
(* Commands that concern the selected channel.                              *)

SelectChannel(id) ==
  /\ sel' = IF id < MaxChannel THEN id ELSE sel
  /\ UNCHANGED <<mcu, chan, status, busy, hnd>>

ReadChannel(id) ==
  \/ NoSuchChannel(id)
  \/ id \in Channels /\ UNCHANGED devVars

SetMtu(id) ==
  \/ NoSuchChannel(id)
  \/ /\ id \in Channels
     /\ \E mtu \in Mtus : chan' = [chan EXCEPT ![id].mtu = mtu]
     /\ UNCHANGED <<mcu, sel, status, busy, hnd>>

OpenChannel(id) ==
  \/ NoSuchChannel(id)
  \/ LET opened == [chan[id] EXCEPT !.dev_state = "READY", !.flags = {},
                                    !.num = 0, !.got = 0, !.off = 0]
     IN /\ id \in Channels
        /\ hnd' = [hnd EXCEPT ![id] = "open"]
        /\ \/ /\ chan' = [chan EXCEPT ![id] = opened]
              /\ UNCHANGED status
           \/ /\ chan' = [chan EXCEPT ![id] = WithError(opened, "HANDLER_OPEN")]
              /\ status' = status \cup {ErrorBit}
        /\ UNCHANGED <<mcu, sel, busy>>

(* channel_close and channel_reset differ only in the function of the       *)
(* handler that they call.                                                  *)
CloseChannel(id) ==
  \/ NoSuchChannel(id)
  \/ /\ id \in Channels
     /\ chan' = [chan EXCEPT ![id].dev_state = "AVAILABLE"]
     /\ hnd' = [hnd EXCEPT ![id] = "closed"]
     /\ UNCHANGED <<mcu, sel, status, busy>>

(* Mutant of ReadErrorCode: the bit in the status word stays.               *)
ReadErrorCodeKeepsBit(id) ==
  \/ NoSuchChannel(id)
  \/ /\ id \in Channels
     /\ chan' = [chan EXCEPT ![id].err = "NONE"]
     /\ UNCHANGED <<mcu, sel, status, busy, hnd>>

ReadErrorCode(id) ==
  \/ NoSuchChannel(id)
  \/ /\ id \in Channels
     /\ chan' = [chan EXCEPT ![id].err = "NONE"]
     /\ status' = status \ {ErrorBit}
     /\ UNCHANGED <<mcu, sel, busy, hnd>>

------------------------------------------------------------------------------
(* Commands that carry their channel.                                       *)

SetOffset(id, off) ==
  \/ NoSuchChannel(id)
  \/ /\ id \in Channels
     /\ chan' = [chan EXCEPT ![id].off = off]
     /\ UNCHANGED <<mcu, sel, status, busy, hnd>>

OpRunning(c) == chan[c].flags # {}

(* Mutant of ReadBegin: takes over the size before it looks at the flags.   *)
ReadBeginTakesSize(id, n) ==
  \/ NoSuchChannel(id)
  \/ /\ id \in Channels /\ OpRunning(id)
     /\ chan' = [chan EXCEPT ![id] = WithError([@ EXCEPT !.num = n], "OP_RUNNING")]
     /\ status' = status \cup {ErrorBit}
     /\ UNCHANGED <<mcu, sel, busy, hnd>>
  \/ /\ id \in Channels /\ ~OpRunning(id)
     /\ chan' = [chan EXCEPT ![id].num = n, ![id].got = 0,
                             ![id].flags = @ \cup {"RX"}]
     /\ hnd' = [hnd EXCEPT ![id] = "read"]
     /\ UNCHANGED <<mcu, sel, status, busy>>

(* channel_read_begin; n is what the handler announces, and what the        *)
(* command answers is RxAnswer.                                             *)
ReadBegin(id, n) ==
  \/ NoSuchChannel(id)
  \/ /\ id \in Channels /\ OpRunning(id)
     /\ FailChannel(id, "OP_RUNNING")
     /\ UNCHANGED <<mcu, sel, busy>>
  \/ /\ id \in Channels /\ ~OpRunning(id)
     /\ chan' = [chan EXCEPT ![id].num = n, ![id].got = 0,
                             ![id].flags = @ \cup {"RX"}]
     /\ hnd' = [hnd EXCEPT ![id] = "read"]
     /\ UNCHANGED <<mcu, sel, status, busy>>

RxAnswer(id, n) == IF OpRunning(id) THEN 0 ELSE n

WriteBegin(id, n) ==
  \/ NoSuchChannel(id)
  \/ /\ id \in Channels /\ OpRunning(id)
     /\ FailChannel(id, "OP_RUNNING")
     /\ UNCHANGED <<mcu, sel, busy>>
  \/ /\ id \in Channels /\ ~OpRunning(id)
     /\ chan' = [chan EXCEPT ![id].num = n, ![id].got = 0,
                             ![id].flags = @ \cup {"TX"}]
     /\ hnd' = [hnd EXCEPT ![id] = "write"]
     /\ UNCHANGED <<mcu, sel, status, busy>>

Least(a, b) == IF a < b THEN a ELSE b

(* The words that the device moves in a data command in direction dir:      *)
(* none when no operation in that direction runs.                           *)
ChunkWords(c, dir) ==
  IF chan[c].flags = {dir}
  THEN Least(chan[c].num - chan[c].got, chan[c].mtu) ELSE 0

(* A handler after its read_end or write_end: a channel closed while its    *)
(* transfer ran keeps the flag, and its closed handler can still be called. *)
AfterEnd(h) == IF h = "closed" THEN "closed" ELSE "open"

(* channel_read_chunk_begin and _end, or the write pair: tr_got_words stays *)
(* as it is, and the handler's read_end or write_end is called only when    *)
(* it already equals tr_num_words.  The flag of the operation stays set.    *)
DataChunk(id, dir) ==
  \/ NoSuchChannel(id)
  \/ /\ id \in Channels /\ chan[id].flags # {dir}
     /\ FailChannel(id, "OP_RUNNING")
     /\ UNCHANGED <<mcu, sel, busy>>
  \/ /\ id \in Channels /\ chan[id].flags = {dir}
     /\ hnd' = [hnd EXCEPT ![id] =
                  IF chan[id].got = chan[id].num THEN AfterEnd(@) ELSE @]
     /\ UNCHANGED <<mcu, chan, sel, status, busy>>

(* Mutant of CancelTransfer: clears the flag and does not tell the handler. *)
CancelTransferSilently(id) ==
  \/ NoSuchChannel(id)
  \/ /\ id \in Channels /\ chan[id].flags = {}
     /\ FailChannel(id, "OP_RUNNING")
     /\ UNCHANGED <<mcu, sel, busy>>
  \/ /\ id \in Channels /\ chan[id].flags # {}
     /\ chan' = [chan EXCEPT ![id].flags = {}]
     /\ UNCHANGED <<mcu, sel, status, busy, hnd>>

(* channel_transfer_cancel: the handler's read_end or write_end is told.    *)
CancelTransfer(id) ==
  \/ NoSuchChannel(id)
  \/ /\ id \in Channels /\ chan[id].flags = {}
     /\ FailChannel(id, "OP_RUNNING")
     /\ UNCHANGED <<mcu, sel, busy>>
  \/ /\ id \in Channels /\ chan[id].flags # {}
     /\ chan' = [chan EXCEPT ![id].flags =
                   IF "RX" \in @ THEN @ \ {"RX"} ELSE @ \ {"TX"}]
     /\ hnd' = [hnd EXCEPT ![id] = AfterEnd(@)]
     /\ UNCHANGED <<mcu, sel, status, busy>>

------------------------------------------------------------------------------
(* Calls that the handlers make: channel_work calls the work function of a  *)
(* READY channel once per turn of the main loop.                            *)

HandlerError(c) ==
  /\ mcu = "run" /\ chan[c].dev_state = "READY"
  /\ FailChannel(c, "HANDLER")
  /\ UNCHANGED <<mcu, sel, busy>>

RxPending(c) ==
  /\ mcu = "run" /\ chan[c].dev_state = "READY"
  /\ \/ status' = status \cup {c}
     \/ status' = status \ {c}
  /\ UNCHANGED <<mcu, chan, sel, busy, hnd>>

SetBusy ==
  /\ mcu = "run" /\ busy < MaxBusy
  /\ busy' = (busy + 1) % 256
  /\ status' = IF busy = 0 THEN status \cup {BusyBit} ELSE status
  /\ UNCHANGED <<mcu, chan, sel, hnd>>

(* A handler clears only what it has set.                                   *)
ClrBusy ==
  /\ mcu = "run" /\ busy # 0
  /\ busy' = (busy - 1) % 256
  /\ status' = IF busy' = 0 THEN status \ {BusyBit} ELSE status
  /\ UNCHANGED <<mcu, chan, sel, hnd>>

(* Power failure, reset button, or the watchdog of a device that hangs.     *)
Restart ==
  /\ mcu # "knok"
  /\ mcu' = "knok"
  /\ FreshDevice

(* The RESET action of the Amiga: system_sys_reset, early exit of           *)
(* knok_main, first command.  A hung device holds RAK and does not see it.  *)
ResetCommand ==
  /\ mcu # "hung"
  /\ mcu' = "run"
  /\ FreshDevice

------------------------------------------------------------------------------
(* One command of a driver that may send any command in any order, to any   *)
(* channel: what the device has to cope with, whatever runs on the Amiga.   *)

(* The actions and functions of proto_api.c, which reach the channel that    *)
(* was selected last, or select another; those it does not know do nothing. *)
IndexedCommand ==
  \/ \E id \in Ids : SelectChannel(id)
  \/ ReadChannel(sel)
  \/ SetMtu(sel)
  \/ OpenChannel(sel)
  \/ CloseChannel(sel)
  \/ ReadErrorCode(sel)

DevCommand ==
  /\ mcu = "run"
  /\ \/ IndexedCommand
     \/ \E id \in Ids, off \in Offsets : SetOffset(id, off)
     \/ \E id \in Ids, n \in 0 .. MaxWords : ReadBegin(id, n)
     \/ \E id \in Ids, n \in 0 .. MaxWords : WriteBegin(id, n)
     \/ \E id \in Ids, dir \in {"RX", "TX"} : DataChunk(id, dir)
     \/ \E id \in Ids : CancelTransfer(id)

DevHandler ==
  \/ \E c \in Channels : HandlerError(c) \/ RxPending(c)
  \/ SetBusy
  \/ ClrBusy

DevNext == DevCommand \/ DevHandler \/ Restart \/ ResetCommand

DevSpec == DevInit /\ [][DevNext]_devVars

------------------------------------------------------------------------------
(* Properties.                                                              *)

ChannelRecord ==
  [dev_state : DevStates, flags : SUBSET {"RX", "TX"}, err : ErrorCodes,
   mtu : Mtus, num : 0 .. MaxWords, got : 0 .. MaxWords, off : Offsets]

(* Every variable of the firmware stays in the range of its C type.         *)
DevTypeOK ==
  /\ mcu \in {"run", "hung", "knok"}
  /\ chan \in [Channels -> ChannelRecord]
  /\ sel \in {0} \cup (Ids \cap (0 .. MaxChannel - 1))
  /\ status \in SUBSET (Channels \cup {ErrorBit, BusyBit})
  /\ busy \in 0 .. MaxBusy
  /\ hnd \in [Channels -> {"closed", "open", "read", "write"}]

(* A channel never runs a read and a write at once, whatever the driver     *)
(* sends: the chunk functions and channel_transfer_cancel know one running  *)
(* operation, and share tr_num_words between both.                          *)
OneTransfer == \A c \in Channels : chan[c].flags # {"RX", "TX"}

(* A handler that was told of the begin of a transfer and of no end still   *)
(* has that transfer's flag in its channel, so that a cancel reaches it.    *)
HandlerInStep ==
  \A c \in Channels : /\ hnd[c] = "read" => chan[c].flags = {"RX"}
                      /\ hnd[c] = "write" => chan[c].flags = {"TX"}

(* The one error bit of the status word is raised only while some channel   *)
(* has an error code to collect: a driver that sees the bit and asks all    *)
(* channels finds the one that failed.                                      *)
ErrorBitTellsTruth ==
  ErrorBit \in status => \E c \in Channels : chan[c].err # "NONE"

(* A running transfer keeps the size its begin agreed on: a second begin,   *)
(* which the channel refuses, leaves it alone, and so does everything that  *)
(* happens on the other channels.                                           *)
TransferKept ==
  [][\A c \in Channels :
       chan[c].flags # {} /\ chan'[c].flags # {}
         => /\ chan'[c].flags = chan[c].flags
            /\ chan'[c].num = chan[c].num]_devVars

==============================================================================
