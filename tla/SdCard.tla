------------------------------- MODULE SdCard -------------------------------
(***************************************************************************)
(* The driver of an SD card on the SPI bus (mcu/src/driver/sdcard), which  *)
(* the table of drivers calls (mcu/src/paloma).  A call is a sequence of   *)
(* commands to the card, each of them one step here; between calls another *)
(* driver may use the bus.                                                 *)
(*                                                                         *)
(* The card and the wires are not the driver's: a command may be damaged,  *)
(* so that the card refuses it or does not answer, and so may data.  Cards *)
(* of the types MMC and SD count bytes where SDHC counts blocks.           *)
(***************************************************************************)
EXTENDS Naturals

CONSTANTS
  Kinds,       \* the cards: subset of {"mmc", "sd", "sdhc", "none"}
  Blocks,      \* bound: blocks of a card, numbered from 0
  BlockSize,   \* 512
  Values,      \* contents of a block
  Retries,     \* SD_AUTO_RETRIES
  IdleRetries, \* SD_INIT_RETRIES
  MaxFaults    \* bound: damaged commands and data, cards exchanged

SdCardAssumption ==
  /\ {Blocks, BlockSize, Retries, IdleRetries} \subseteq Nat \ {0}
  /\ Kinds \subseteq {"mmc", "sd", "sdhc", "none"}

VARIABLES
  useCrc,   \* USE_CRC
  card,     \* the card: kind, mode ("raw" before its first CMD0, "idle", "ready")
            \* and whether it checks CRCs
  cells,    \* what its blocks hold
  cardType, \* card_type
  wires,    \* the card's select line and the speed of the bus
  call,     \* the call that runs: its next command, the type found so far, the
            \* tries of CMD0, block and data; "idle" between calls
  result,   \* what the last call returned and read
  slots,    \* open_slots of the table of drivers: a set, or {"no init"}
  faults,   \* faults so far
  known,    \* history: each command of the card's init got through in the retries
  kept      \* history: what the calls wrote; "any" where a write failed,
            \* and everywhere after one to a card that was not known

sdVars == <<useCrc, card, cells, cardType, wires, call, result, slots, faults,
            known, kept>>

Numbers == 0 .. Blocks - 1
Idle == [next |-> "idle", type |-> "none", tries |-> 0, block |-> 0, data |-> "any"]
Free == [selected |-> FALSE, speed |-> "max"]
Done(res, data) == [res |-> res, data |-> data, block |-> call.block]

Init ==
  /\ useCrc \in BOOLEAN
  /\ card \in [kind : Kinds, mode : {"raw"}, crc : {FALSE}]
  /\ cells = [b \in Numbers |-> "blank"] /\ kept = cells
  /\ cardType = "none" /\ wires = Free
  /\ call = Idle /\ result = Done("none", "any")
  /\ slots = {} /\ faults = 0 /\ known = FALSE

-------------------------------------------------------------------------------
(* What a sound card may answer: the R1 byte 1 ("idle") or 0 ("ready"), or  *)
(* some error ("odd").  A card takes its time to get ready.                 *)
Answers(cmd) ==
  IF card.kind = "none" THEN {"bad"}
  ELSE IF cmd = "cmd0" THEN {"idle"}
  ELSE IF card.mode = "raw" THEN {"bad"}
  ELSE IF cmd \in {"cmd8", "cmd55"} /\ card.kind = "mmc" THEN {"odd"}
  ELSE IF card.mode = "ready" THEN {"ready"}
  ELSE CASE cmd \in {"acmd41", "cmd1"} -> {"idle", "ready"}
         [] cmd \in {"cmd8", "cmd55", "ocr", "crc", "blocklen"} -> {"idle"}
         [] OTHER -> {"odd"}

(* A mutant: a damaged command is not sent again.                           *)
BeginOnce(answer, errors) == IF errors = 0 THEN answer ELSE "bad"

(* begin_command: what is answered after so many damaged tries.  The byte   *)
(* of a bus nobody drives, 0xff, has the bit of the CRC error, so that no   *)
(* answer counts as a damaged try as well.                                  *)
BeginCommand(answer, errors) == IF errors < Retries THEN answer ELSE "bad"

(* The driver sends cmd and gets r; no CS when every try was damaged.       *)
Exchange(cmd, r) ==
  \E errors \in 0 .. Retries, answer \in Answers(cmd) :
    /\ faults + errors <= MaxFaults
    /\ faults' = faults + errors
    /\ known' = (known /\ (cmd \in {"read", "write", "csd"} \/ errors < Retries))
    /\ r = BeginCommand(answer, errors)
    /\ card' = IF errors = Retries THEN card
               ELSE CASE cmd = "cmd0" /\ r = "idle" ->
                           [card EXCEPT !.mode = "idle", !.crc = FALSE]
                      [] cmd \in {"acmd41", "cmd1"} /\ r = "ready" ->
                           [card EXCEPT !.mode = "ready"]
                      [] cmd = "crc" /\ r # "bad" -> [card EXCEPT !.crc = useCrc]
                      [] OTHER -> card

(* The last init was right, and got each of its commands through.           *)
Known == known /\ slots # {"no init"}

Selected(cs) == wires' = [wires EXCEPT !.selected = cs]

-------------------------------------------------------------------------------
(* sdcard_init.                                                             *)
still == <<useCrc, cells, slots, kept>>

BeginInit ==
  /\ call = Idle
  /\ call' = [Idle EXCEPT !.next = "cmd0"]
  /\ wires' = [wires EXCEPT !.speed = "slow"]
  /\ known' = TRUE
  /\ UNCHANGED <<card, cardType, result, faults, still>>

(* init_fail: both ways out set the speed.  driver_init marks a driver      *)
(* whose init failed.                                                       *)
EndInit(res) ==
  /\ call' = Idle
  /\ wires' = [selected |-> FALSE, speed |-> "max"]
  /\ result' = Done(res, "any")
  /\ slots' = IF res = "ok" THEN {} ELSE {"no init"}
  /\ UNCHANGED <<useCrc, cells, kept>>

GoOn(cmd) ==
  /\ call' = [call EXCEPT !.next = cmd]
  /\ UNCHANGED <<result, still>>

(* enter_idle: an answer that is not "idle" is asked for again, none at all *)
(* is not.  The wires are free when CMD0 is sent.                           *)
EnterIdle ==
  /\ call.next = "cmd0"
  /\ \E r \in {"idle", "ready", "odd", "bad"} :
       /\ Exchange("cmd0", r)
       /\ IF r = "idle" THEN GoOn("cmd8") /\ Selected(FALSE) ELSE EndInit("fail")
  /\ UNCHANGED cardType

EnterIdleAgain ==
  /\ call.next = "cmd0" /\ faults < MaxFaults
  /\ faults' = faults + 1
  /\ IF call.tries + 1 = IdleRetries THEN EndInit("fail")
     ELSE /\ call' = [call EXCEPT !.tries = @ + 1]
          /\ Selected(FALSE)
          /\ UNCHANGED <<result, still>>
  /\ UNCHANGED <<card, cardType, known>>

(* send_if_cond: an error leaves the card selected until the next command.  *)
(* A voltage the card does not take ends the init.                          *)
SendIfCond ==
  /\ call.next = "cmd8"
  /\ \E r \in {"idle", "ready", "odd", "bad"} :
       /\ Exchange("cmd8", r)
       /\ \/ GoOn("cmd55") /\ Selected(r \in {"ready", "odd"})
          \/ r = "idle" /\ EndInit("fail")
  /\ UNCHANGED cardType

(* sd_send_op_cond: who does not know CMD55 is taken for an MMC.            *)
AppCmd ==
  /\ call.next = "cmd55"
  /\ \E r \in {"idle", "ready", "odd", "bad"} :
       /\ Exchange("cmd55", r)
       /\ call' = IF r = "idle" THEN [call EXCEPT !.next = "acmd41"]
                  ELSE [call EXCEPT !.next = "cmd1", !.type = "mmc"]
  /\ Selected(FALSE)
  /\ UNCHANGED <<cardType, result, still>>

SdSendOpCond ==
  /\ call.next = "acmd41"
  /\ \E r \in {"idle", "ready", "odd", "bad"} :
       /\ Exchange("acmd41", r)
       /\ \/ /\ r = "ready"
             /\ call' = [call EXCEPT !.next = "ocr", !.type = "sd"]
             /\ Selected(FALSE)
             /\ UNCHANGED <<result, still>>
          \/ r # "ready" /\ GoOn("cmd55") /\ Selected(FALSE)
          \/ r # "ready" /\ EndInit("fail")
  /\ UNCHANGED cardType

(* detect_sdhc: no answer leaves the type as it is.                         *)
DetectSdhc ==
  /\ call.next = "ocr"
  /\ \E r \in {"idle", "ready", "odd", "bad"} :
       /\ Exchange("ocr", r)
       /\ call' = [call EXCEPT !.next = "cmd1",
                     !.type = IF r \in {"idle", "ready"} /\ card.kind = "sdhc"
                              THEN "sdhc" ELSE @]
  /\ Selected(FALSE)
  /\ UNCHANGED <<cardType, result, still>>

SendOpCond ==
  /\ call.next = "cmd1"
  /\ \E r \in {"idle", "ready", "odd", "bad"} :
       /\ Exchange("cmd1", r)
       /\ \/ r = "ready" /\ GoOn("crc") /\ Selected(FALSE)
          \/ r # "ready" /\ GoOn("cmd1") /\ Selected(FALSE)
          \/ r # "ready" /\ EndInit("fail")
  /\ UNCHANGED cardType

SetCrcMode ==
  /\ call.next = "crc"
  /\ \E r \in {"idle", "ready", "odd", "bad"} :
       /\ Exchange("crc", r)
       /\ IF r \in {"idle", "ready"} THEN GoOn("blocklen") /\ Selected(FALSE)
          ELSE EndInit("fail")
  /\ UNCHANGED cardType

(* A card whose init fails keeps the type of the last one that did not.     *)
SetBlocksize ==
  /\ call.next = "blocklen"
  /\ \E r \in {"idle", "ready", "odd", "bad"} :
       /\ Exchange("blocklen", r)
       /\ EndInit(IF r = "ready" THEN "ok" ELSE "fail")
       /\ cardType' = IF r = "ready" THEN call.type ELSE cardType

-------------------------------------------------------------------------------
(* Reading, writing and the capacity.                                       *)

BeginBlock(cmd, b, v) ==
  /\ call = Idle
  /\ call' = [Idle EXCEPT !.next = cmd, !.block = b, !.data = v]
  /\ UNCHANGED <<card, cardType, wires, result, faults, known, still>>

Address(b) == IF cardType # "sdhc" THEN b * BlockSize ELSE b

(* The block a card takes an address for.                                   *)
Addressed(a) == IF card.kind = "sdhc" THEN a ELSE a \div BlockSize
Present(a) == Addressed(a) \in Numbers

EndsSelected == Selected(TRUE)  \* a mutant: the error leaves the card selected

(* end_command on the way out of an error.                                  *)
Ends == Selected(FALSE)

EndBlock(res, data) ==
  /\ call' = Idle
  /\ result' = Done(res, data)
  /\ UNCHANGED <<useCrc, cardType, slots>>

(* The command is refused, or no token comes.                               *)
BlockFails ==
  /\ call.next \in {"read", "write", "csd"}
  /\ \E r \in {"idle", "ready", "odd", "bad"} :
       /\ Exchange(call.next, r)
       /\ \/ r # "ready"
          \/ call.next # "csd" /\ ~Present(Address(call.block))
          \/ call.next # "write" /\ faults' < MaxFaults
  /\ Ends
  /\ EndBlock("fail", "any")
  /\ kept' = IF call.next = "write" THEN [kept EXCEPT ![call.block] = "any"]
             ELSE kept
  /\ UNCHANGED cells

(* Data damaged on the wires, to or from the card.                          *)
Damaged == faults' < MaxFaults

ReadBlock ==
  /\ call.next = "read" /\ Present(Address(call.block))
  /\ Exchange("read", "ready")
  /\ LET v == cells[Addressed(Address(call.block))]
     IN \/ EndBlock("ok", v)
        \/ Damaged /\ EndBlock(IF useCrc THEN "fail" ELSE "ok", "damaged")
  /\ Selected(FALSE)
  /\ UNCHANGED <<cells, kept>>

(* A card that checks CRCs refuses damaged data, and one that stays busy    *)
(* has taken what it was sent although the call fails.                      *)
WriteBlock ==
  /\ call.next = "write" /\ Present(Address(call.block))
  /\ Exchange("write", "ready")
  /\ \E v \in {call.data} \union (IF Damaged THEN {"damaged"} ELSE {}),
        busy \in {FALSE} \union {Damaged} :
       LET refused == card.crc /\ v = "damaged"
           res == IF refused \/ busy THEN "fail" ELSE "ok"
       IN /\ cells' = IF refused THEN cells
                      ELSE [cells EXCEPT ![Addressed(Address(call.block))] = v]
          /\ EndBlock(res, "any")
          /\ kept' = IF Known THEN [kept EXCEPT ![call.block] =
                                     IF res = "ok" THEN call.data ELSE "any"]
                     ELSE [b \in Numbers |-> "any"]
  /\ Selected(FALSE)

(* sdcard_get_capacity reads the CSD of an SDHC card in another way.        *)
GetCapacity ==
  /\ call.next = "csd"
  /\ Exchange("csd", "ready")
  /\ EndBlock("ok", IF (cardType = "sdhc") = (card.kind = "sdhc")
                    THEN "capacity" ELSE "damaged")
  /\ Selected(FALSE)
  /\ UNCHANGED <<cells, kept>>

-------------------------------------------------------------------------------
(* driver_open and driver_close; blk_sdraw has one slot.                    *)
DriverOpen ==
  /\ call = Idle /\ slots = {}
  /\ slots' = {"open"}
  /\ UNCHANGED <<useCrc, card, cells, cardType, wires, call, result, faults,
                 known, kept>>

DriverClose ==
  /\ call = Idle /\ slots = {"open"}
  /\ slots' = {}
  /\ UNCHANGED <<useCrc, card, cells, cardType, wires, call, result, faults,
                 known, kept>>

(* The card is taken out, or another one put in its place.                  *)
Exchanged ==
  /\ call = Idle /\ faults < MaxFaults
  /\ faults' = faults + 1
  /\ card' \in [kind : Kinds, mode : {"raw"}, crc : {FALSE}]
  /\ cells' = [b \in Numbers |-> "blank"] /\ kept' = cells'
  /\ known' = FALSE
  /\ UNCHANGED <<useCrc, cardType, wires, call, result, slots>>

Next ==
  \/ BeginInit \/ EnterIdle \/ EnterIdleAgain \/ SendIfCond \/ AppCmd
  \/ SdSendOpCond \/ DetectSdhc \/ SendOpCond \/ SetCrcMode \/ SetBlocksize
  \/ \E b \in Numbers : \/ BeginBlock("read", b, "any")
                        \/ \E v \in Values : BeginBlock("write", b, v)
  \/ BeginBlock("csd", 0, "any")
  \/ BlockFails \/ ReadBlock \/ WriteBlock \/ GetCapacity
  \/ DriverOpen \/ DriverClose \/ Exchanged

Spec == Init /\ [][Next]_sdVars

-------------------------------------------------------------------------------
(* Between calls the card is not selected and the bus has its full speed,   *)
(* whichever command of which call failed: the other drivers share both.    *)
BusIsFree == call = Idle => wires = Free

(* After an init that got each of its commands through within the retries,  *)
(* so that it told the card apart, a block reads as it was last written, or *)
(* the call fails, whatever is damaged later.  Without CRCs damaged data is *)
(* taken for good.                                                          *)
ReadsWhatWasWritten ==
  /\ call = Idle /\ result.res = "ok"
  /\ useCrc /\ Known /\ kept[result.block] # "any"
  => result.data \in {"any", "capacity", kept[result.block]}
===============================================================================
