------------------------------- MODULE ProtoLow -------------------------------
(***************************************************************************)
(* The parallel port between both peers, edge by edge: the routines of     *)
(* mach-cia/proto_low.s on the Amiga, those of proto_low_asm.S and         *)
(* proto_low.c on the microcontroller, the dispatch of commands in         *)
(* mcu/src/proto/proto.c, and the way from a reset through knok mode to    *)
(* the first command.                                                      *)
(*                                                                         *)
(* The Amiga tests RAK and BUSY, puts a command on the data lines, pulls   *)
(* CLK low and waits for RAK low.  From there on it never waits: each byte *)
(* has an edge of CLK of its own, and the device has to keep pace.  At     *)
(* last CLK goes high and the Amiga waits for RAK high.                    *)
(*                                                                         *)
(* The i-th byte of a transfer is the number i, so that a byte that is     *)
(* lost, torn or out of order shows.  If the Amiga gives up on a command   *)
(* that the device has taken, the device goes on with it: both may drive   *)
(* the lines then, and the next attempt may meet what is left.  The ghost  *)
(* "clean" is FALSE from there to the first attempt that finds the device  *)
(* without a command.                                                      *)
(***************************************************************************)
EXTENDS Naturals, Sequences

CONSTANTS
  Commands,     \* command bytes that the Amiga sends
  BlockWords,   \* words of a data command
  MaxGiveUps    \* bound: timeouts of the Amiga that a device would have met

ASSUME CommandsAssumption == Commands \subseteq 16 .. 191
ASSUME BlockAssumption == BlockWords \in Nat \ {0}
ASSUME GiveUpsAssumption == MaxGiveUps \in Nat

CmdIdle == 0
CmdBootloader == 17   \* PROTO_CMD_ACTION_BOOTLOADER
CmdReset == 18        \* PROTO_CMD_ACTION_RESET
CmdKnok == 19         \* PROTO_CMD_ACTION_KNOK
NoData == 255         \* what the lines read as is not the work of a peer

(* The groups of commands and how many bytes follow each.                   *)
Group(c) == c \div 16
Reads(c) == Group(c) \in {2, 4, 6, 8}
Writes(c) == Group(c) \in {3, 5, 7, 9, 10}
Acts(c) == Group(c) \in {1, 11}
Bytes(c) == CASE Group(c) \in {2, 3, 8, 9} -> 2
              [] Group(c) \in {4, 5, 10} -> 4
              [] Group(c) \in {6, 7} -> 2 * BlockWords
              [] OTHER -> 0
RestartCommands == {CmdBootloader, CmdReset}
NoBusyCommands == {CmdBootloader, CmdReset, CmdKnok}

VARIABLES
  apc,      \* where the Amiga is
  acmd,     \* its command
  ai,       \* bytes of the command that are over
  adata,    \* what its data port would put on the lines
  aout,     \* its data port drives the lines
  clk,      \* level of CLK
  got,      \* bytes it read
  res,      \* result of its last command
  recover,  \* the application sends nothing but RESET from now on
  dpc,      \* where the device is
  mode,     \* "first": in proto_first_cmd; "run": in the main loop
  dcmd,     \* its command
  di,       \* bytes of the command that are over
  ddata,    \* what its data port would put on the lines
  dout,     \* its data port drives the lines
  rak,      \* level of RAK
  busy,     \* level of BUSY
  taken,    \* bytes it was sent
  done,     \* commands carried out for the present attempt of the Amiga
  clean,    \* the Amiga has not given up on a command that the device had
            \* taken, or has since begun one that found the device without any
  giveups   \* bounded timeouts so far

amigaVars == <<apc, acmd, ai, adata, aout, clk, got, res, recover>>
deviceVars == <<dpc, mode, dcmd, di, ddata, dout, rak, busy, taken>>
ghosts == <<done, clean, giveups>>
vars == <<amigaVars, deviceVars, ghosts>>

------------------------------------------------------------------------------
(* The lines.                                                               *)

(* A byte that is read while both ports drive the lines, or none, may be    *)
(* anything but is nobody's byte.                                           *)
OnLines == IF aout /\ ~dout THEN adata
           ELSE IF dout /\ ~aout THEN ddata ELSE NoData

(* Taken for a command, a data byte may mean any command, or none.          *)
ReadAsCommand ==
  IF aout /\ ~dout /\ (adata = CmdIdle \/ adata \in Commands)
  THEN {adata} ELSE Commands \cup {CmdIdle}

(* The device has seen a command that it has not finished.                  *)
Serving == dpc \in {"sampled", "handler", "hung", "turn", "bytes", "end"}

(* The next level of CLK that the device waits for in a transfer: a read    *)
(* has its odd bytes after a falling edge, a write after a rising one.      *)
EdgeSeen == IF Reads(dcmd) THEN clk = (di % 2 = 1) ELSE clk = (di % 2 = 0)

(* The device has an edge of CLK to answer, or waits for one.               *)
EdgesLeft == dpc = "bytes" /\ (Reads(dcmd) \/ di < Bytes(dcmd))
Answering == \/ EdgesLeft /\ EdgeSeen
             \/ dpc \in {"turn", "end"} /\ clk
Waiting == \/ EdgesLeft /\ ~EdgeSeen
           \/ dpc \in {"turn", "end"} /\ ~clk

(* The Amiga is between the falling RAK and the end of the transfer.        *)
Clocking == \/ apc \in {"work", "edge", "turned", "get", "close", "raise"}
            \/ apc = "sync" /\ ~rak

------------------------------------------------------------------------------
(* The Amiga.                                                               *)

(* The tests at the begin of every routine, and the command byte.           *)
(* Mutant of StartChecked: without check_rak_hi.                            *)
StartUnchecked(c) ==
  /\ IF busy /\ c \notin NoBusyCommands
     THEN /\ res' = "DEVICE_BUSY"
          /\ adata' = CmdIdle
          /\ UNCHANGED <<apc, acmd, ai, got, done, clean>>
     ELSE /\ apc' = "ready" /\ acmd' = c /\ ai' = 0 /\ adata' = c
          /\ got' = <<>>
          /\ res' = "PENDING"
          /\ done' = 0
          /\ clean' = (clean \/ ~Serving)

StartChecked(c) ==
  /\ IF ~rak \/ (busy /\ c \notin NoBusyCommands)
     THEN /\ res' = IF ~rak THEN "RAK_INVALID" ELSE "DEVICE_BUSY"
          /\ adata' = CmdIdle
          /\ UNCHANGED <<apc, acmd, ai, got, done, clean>>
     ELSE /\ apc' = "ready" /\ acmd' = c /\ ai' = 0 /\ adata' = c
          /\ got' = <<>>
          /\ res' = "PENDING"
          /\ done' = 0
          /\ clean' = (clean \/ ~Serving)

Start(c) ==
  /\ apc = "idle"
  /\ recover => c = CmdReset
  /\ StartChecked(c)
  /\ UNCHANGED <<aout, clk, recover, giveups, deviceVars>>

AmigaStep == UNCHANGED <<acmd, recover, deviceVars, ghosts>>

ClkLow ==
  /\ apc = "ready"
  /\ clk' = FALSE /\ apc' = "sync"
  /\ UNCHANGED <<ai, adata, aout, got, res>> /\ AmigaStep

(* wait_rak_lo saw RAK low.                                                 *)
InSync ==
  /\ apc = "sync" /\ ~rak
  /\ apc' = "work"
  /\ UNCHANGED <<ai, adata, aout, clk, got, res>> /\ AmigaStep

(* Byte ai + 1 of a write: the data port, then the edge.                    *)
PutByte ==
  /\ apc = "work" /\ Writes(acmd) /\ ai < Bytes(acmd)
  /\ ~Answering
  /\ adata' = ai + 1 /\ apc' = "edge"
  /\ UNCHANGED <<ai, aout, clk, got, res>> /\ AmigaStep

PutEdge ==
  /\ apc = "edge"
  /\ ~Answering
  /\ clk' = ~clk /\ ai' = ai + 1 /\ apc' = "work"
  /\ UNCHANGED <<adata, aout, got, res>> /\ AmigaStep

(* A read: ddr_in, CLK high, then an edge and a byte after it.              *)
DdrIn ==
  /\ apc = "work" /\ Reads(acmd) /\ aout
  /\ aout' = FALSE /\ apc' = "turned"
  /\ UNCHANGED <<ai, adata, clk, got, res>> /\ AmigaStep

OpenRead ==
  /\ apc = "turned"
  /\ clk' = TRUE /\ apc' = "work"
  /\ UNCHANGED <<ai, adata, aout, got, res>> /\ AmigaStep

GetEdge ==
  /\ apc = "work" /\ Reads(acmd) /\ ~aout /\ ai < Bytes(acmd)
  /\ ~Answering
  /\ clk' = ~clk /\ apc' = "get"
  /\ UNCHANGED <<ai, adata, aout, got, res>> /\ AmigaStep

GetByte ==
  /\ apc = "get"
  /\ ~Answering
  /\ got' = Append(got, OnLines) /\ ai' = ai + 1 /\ apc' = "work"
  /\ UNCHANGED <<adata, aout, clk, res>> /\ AmigaStep

CloseRead ==
  /\ apc = "work" /\ Reads(acmd) /\ ~aout /\ ai = Bytes(acmd)
  /\ ~Answering
  /\ clk' = FALSE /\ apc' = "close"
  /\ UNCHANGED <<ai, adata, aout, got, res>> /\ AmigaStep

DdrOut ==
  /\ apc = "close"
  /\ ~Answering
  /\ aout' = TRUE /\ apc' = "raise"
  /\ UNCHANGED <<ai, adata, clk, got, res>> /\ AmigaStep

(* The last clk_hi: the device must have seen the edge before it.           *)
ClkHigh ==
  /\ \/ apc = "work" /\ ~Reads(acmd) /\ ai = Bytes(acmd)
     \/ apc = "raise"
  /\ ~Answering
  /\ clk' = TRUE /\ apc' = "end"
  /\ UNCHANGED <<ai, adata, aout, got, res>> /\ AmigaStep

(* wait_rak_hi saw RAK high; set_cmd_idle.                                  *)
Finish ==
  /\ apc = "end" /\ rak
  /\ res' = "OK" /\ adata' = CmdIdle /\ apc' = "idle"
  /\ UNCHANGED <<ai, aout, clk, got>> /\ AmigaStep

(* A timeout: bounded while the device would go on if the Amiga waited,     *)
(* free when the device can do nothing more for this command.               *)
DeviceStuck ==
  \/ dpc = "hung" \/ Waiting
  \/ dpc = "poll" /\ mode = "run" /\ clk
  \/ dpc = "knok" /\ ReadAsCommand \cap RestartCommands = {}

TimesOut ==
  \/ DeviceStuck /\ UNCHANGED giveups
  \/ ~DeviceStuck /\ giveups < MaxGiveUps /\ giveups' = giveups + 1

(* wait_rak_lo gives up because of the timer or because BUSY went high.     *)
Abort ==
  /\ apc = "sync" /\ rak
  /\ \/ res' = "TIMEOUT" /\ TimesOut
     \/ /\ busy /\ acmd \notin NoBusyCommands
        /\ res' = "DEVICE_BUSY" /\ UNCHANGED giveups
  /\ clk' = TRUE /\ apc' = "abort"
  /\ clean' = (clean /\ ~Serving)
  /\ UNCHANGED <<acmd, ai, adata, aout, got, recover, done, deviceVars>>

AbortIdle ==
  /\ apc = "abort"
  /\ adata' = CmdIdle /\ apc' = "idle"
  /\ UNCHANGED <<ai, aout, clk, got, res>> /\ AmigaStep

EndTimeout ==
  /\ apc = "end" /\ ~rak
  /\ TimesOut
  /\ res' = "TIMEOUT" /\ adata' = CmdIdle /\ apc' = "idle"
  /\ UNCHANGED <<acmd, ai, aout, clk, got, recover, done, clean, deviceVars>>

(* The application decides to send RESET until one succeeds.                *)
Recover ==
  /\ ~recover /\ recover' = TRUE
  /\ UNCHANGED <<apc, acmd, ai, adata, aout, clk, got, res, deviceVars, ghosts>>

------------------------------------------------------------------------------
(* The device.                                                              *)

DeviceStep == UNCHANGED <<amigaVars, clean, giveups>>

(* A command is over as far as its handler is concerned.                    *)
Performed == done' = done + 1

(* Reset of the controller: its pins float, pulled high.                    *)
PinsFloat ==
  /\ rak' = TRUE /\ busy' = TRUE /\ dout' = FALSE
  /\ UNCHANGED ddata

(* Mutant of Watchdog: it is fed while the device waits for an edge.        *)
WatchdogFed ==
  /\ \/ dpc = "reset"
     \/ dpc = "hung" /\ ~Clocking
  /\ PinsFloat
  /\ dpc' = "off" /\ mode' = "first" /\ dcmd' = CmdIdle /\ di' = 0
  /\ taken' = <<>>
  /\ UNCHANGED done /\ DeviceStep

(* The watchdog, or the wait for it in system_sys_reset.  The Amiga is not  *)
(* kept from clocking for as long as half a second.                         *)
Watchdog ==
  /\ \/ dpc = "reset"
     \/ (dpc = "hung" \/ Waiting) /\ ~Clocking
  /\ PinsFloat
  /\ dpc' = "off" /\ mode' = "first" /\ dcmd' = CmdIdle /\ di' = 0
  /\ taken' = <<>>
  /\ UNCHANGED done /\ DeviceStep

(* system_init, strobe_init_port.                                           *)
BootPorts ==
  /\ dpc = "off"
  /\ busy' = FALSE /\ dpc' = "boot"
  /\ UNCHANGED <<mode, dcmd, di, ddata, dout, rak, taken, done>> /\ DeviceStep

(* Mutant of EarlyExit: also the data lines of a reset lead to knok mode.   *)
NoEarlyExit ==
  /\ dpc = "boot"
  /\ dpc' = "knok"
  /\ UNCHANGED <<mode, dcmd, di, ddata, dout, rak, busy, taken, done>>
  /\ DeviceStep

(* knok_main: the early exit looks at the data lines, not at CLK.           *)
EarlyExit ==
  /\ dpc = "boot"
  /\ \E c \in ReadAsCommand :
       dpc' = IF c \in RestartCommands THEN "poll" ELSE "knok"
  /\ UNCHANGED <<mode, dcmd, di, ddata, dout, rak, busy, taken, done>>
  /\ DeviceStep

(* knok mode ends by a reset only.                                          *)
KnokBail ==
  /\ dpc = "knok"
  /\ ReadAsCommand \cap RestartCommands # {}
  /\ dpc' = "reset"
  /\ UNCHANGED <<mode, dcmd, di, ddata, dout, rak, busy, taken, done>>
  /\ DeviceStep

(* proto_low_get_cmd reads CLK, then the data lines.                        *)
SeesClk ==
  /\ dpc = "poll"
  /\ \/ ~clk /\ dpc' = "sampled"
     \/ clk /\ mode = "first" /\ dpc' = "reset"
  /\ UNCHANGED <<mode, dcmd, di, ddata, dout, rak, busy, taken, done>>
  /\ DeviceStep

(* proto_first_cmd and the switch of proto_handle.  RESET and BOOTLOADER    *)
(* restart at once, an unknown group does as well.                          *)
Dispatch(c) ==
  IF mode = "first" THEN IF c \in RestartCommands THEN "handler" ELSE "reset"
  ELSE IF (Acts(c) \/ Reads(c) \/ Writes(c)) /\ c \notin RestartCommands
       THEN "handler" ELSE "reset"

GetCommand ==
  /\ dpc = "sampled"
  /\ \E c \in ReadAsCommand : dcmd' = c /\ dpc' = Dispatch(c)
  /\ di' = 0 /\ taken' = <<>>
  /\ UNCHANGED <<mode, ddata, dout, rak, busy, done>> /\ DeviceStep

(* The handler hangs: that of a read before the answer, that of a write or  *)
(* an action after the data.                                                *)
Hang ==
  /\ mode = "run"
  /\ \/ dpc = "handler" /\ Reads(dcmd)
     \/ dpc = "bytes" /\ ~Reads(dcmd) /\ di = Bytes(dcmd)
  /\ dpc' = "hung"
  /\ UNCHANGED <<mode, dcmd, di, ddata, dout, rak, busy, taken, done>>
  /\ DeviceStep

(* rak_lo at the begin of every proto_low routine.                          *)
RakLow ==
  /\ dpc = "handler"
  /\ rak' = FALSE
  /\ dpc' = IF Reads(dcmd) THEN "turn" ELSE "bytes"
  /\ UNCHANGED <<mode, dcmd, di, ddata, dout, busy, taken, done>> /\ DeviceStep

(* wait_clk_hi, ddr_out.                                                    *)
TurnOut ==
  /\ dpc = "turn" /\ clk
  /\ dout' = TRUE /\ dpc' = "bytes"
  /\ UNCHANGED <<mode, dcmd, di, ddata, rak, busy, taken, done>> /\ DeviceStep

SendByte ==
  /\ dpc = "bytes" /\ Reads(dcmd) /\ di < Bytes(dcmd)
  /\ EdgeSeen
  /\ ddata' = di + 1 /\ di' = di + 1
  /\ UNCHANGED <<dpc, mode, dcmd, dout, rak, busy, taken, done>> /\ DeviceStep

(* Mutant of TurnIn: the ports are turned after the command's end.          *)
TurnInNever ==
  /\ dpc = "bytes" /\ Reads(dcmd) /\ di = Bytes(dcmd)
  /\ EdgeSeen
  /\ dpc' = "end"
  /\ Performed
  /\ UNCHANGED <<dout, mode, dcmd, di, ddata, rak, busy, taken>> /\ DeviceStep

(* The last wait_clk_lo of a read, ddr_in.                                  *)
TurnIn ==
  /\ dpc = "bytes" /\ Reads(dcmd) /\ di = Bytes(dcmd)
  /\ EdgeSeen
  /\ dout' = FALSE /\ dpc' = "end"
  /\ Performed
  /\ UNCHANGED <<mode, dcmd, di, ddata, rak, busy, taken>> /\ DeviceStep

TakeByte ==
  /\ dpc = "bytes" /\ Writes(dcmd) /\ di < Bytes(dcmd)
  /\ EdgeSeen
  /\ taken' = Append(taken, OnLines) /\ di' = di + 1
  /\ UNCHANGED <<dpc, mode, dcmd, ddata, dout, rak, busy, done>> /\ DeviceStep

(* A write, with its value, or an action goes to its handler.               *)
Deliver ==
  /\ dpc = "bytes" /\ ~Reads(dcmd) /\ di = Bytes(dcmd)
  /\ dpc' = "end"
  /\ Performed
  /\ UNCHANGED <<mode, dcmd, di, ddata, dout, rak, busy, taken>> /\ DeviceStep

(* Mutant of End: does not wait for CLK.                                    *)
EndAtOnce ==
  /\ dpc = "end"
  /\ rak' = TRUE /\ mode' = "run"
  /\ dpc' = IF mode = "run" /\ dcmd = CmdKnok THEN "reset" ELSE "poll"
  /\ UNCHANGED <<dcmd, di, ddata, dout, busy, taken, done>> /\ DeviceStep

(* proto_low_end; KNOK restarts after it.                                   *)
End ==
  /\ dpc = "end" /\ clk
  /\ rak' = TRUE /\ mode' = "run"
  /\ dpc' = IF mode = "run" /\ dcmd = CmdKnok THEN "reset" ELSE "poll"
  /\ UNCHANGED <<dcmd, di, ddata, dout, busy, taken, done>> /\ DeviceStep

(* proto_set_busy, proto_clr_busy in the main loop.                         *)
ToggleBusy ==
  /\ dpc = "poll" /\ mode = "run"
  /\ busy' = ~busy
  /\ UNCHANGED <<dpc, mode, dcmd, di, ddata, dout, rak, taken, done>>
  /\ DeviceStep

------------------------------------------------------------------------------
Init ==
  /\ apc = "idle" /\ acmd = CmdIdle /\ ai = 0 /\ adata = CmdIdle
  /\ aout = TRUE /\ clk = TRUE /\ got = <<>> /\ res = "PENDING"
  /\ recover = FALSE
  /\ dpc = "off" /\ mode = "first" /\ dcmd = CmdIdle /\ di = 0
  /\ ddata = NoData /\ dout = FALSE /\ rak = TRUE /\ busy = TRUE
  /\ taken = <<>>
  /\ done = 0 /\ clean = TRUE /\ giveups = 0

StartSome == \E c \in Commands : Start(c)

AmigaWorks ==
  \/ ClkLow \/ InSync \/ PutByte \/ PutEdge \/ DdrIn \/ OpenRead \/ GetEdge
  \/ GetByte \/ CloseRead \/ DdrOut \/ ClkHigh \/ Finish \/ AbortIdle

AmigaGivesUp == Abort \/ EndTimeout

DeviceWorks ==
  \/ BootPorts \/ EarlyExit \/ KnokBail \/ SeesClk \/ GetCommand \/ RakLow
  \/ TurnOut \/ SendByte \/ TurnIn \/ TakeByte \/ Deliver \/ End

Next ==
  \/ StartSome \/ AmigaWorks \/ AmigaGivesUp \/ Recover
  \/ DeviceWorks \/ Watchdog \/ Hang \/ ToggleBusy

Spec == Init /\ [][Next]_vars

(* Both peers go on, the timer of the Amiga and the watchdog of the device  *)
(* expire, and an application that wants a RESET tries again.               *)
Fairness ==
  /\ WF_vars(AmigaWorks) /\ WF_vars(AmigaGivesUp) /\ WF_vars(DeviceWorks)
  /\ WF_vars(Watchdog) /\ WF_vars(recover /\ StartSome)

LiveSpec == Spec /\ Fairness

------------------------------------------------------------------------------
ByteSeqs == Seq(1 .. 191 \cup {CmdIdle, NoData})

(* The data ports never drive the lines against each other.  Exempt is what *)
(* follows when the Amiga gives up on a command that the device had taken:  *)
(* a read that is answered late drives the lines against the Amiga.         *)
NoContention == clean => ~(aout /\ dout)

(* No command ends well unless the device carried out a command meanwhile,  *)
(* or was reset.  It was carried out exactly once, by a device that took    *)
(* the same command, and its bytes arrived in order and untorn, in          *)
(* whichever direction they went; or the device restarted in its handler.   *)
(* Exempt from all but the first is a command sent while the device is      *)
(* still at one that the Amiga gave up on: it may take the end of that one  *)
(* for its own, and report OK without having been carried out.              *)
InOrder(n) == [i \in 1 .. n |-> i]
OkMeansDone ==
  (apc = "idle" /\ res = "OK") =>
    /\ done > 0 \/ mode = "first"
    /\ clean => /\ Reads(acmd) => got = InOrder(Bytes(acmd))
                /\ \/ /\ done = 1
                      /\ Writes(acmd) /\ mode = "run"
                           => dcmd = acmd /\ taken = InOrder(Bytes(acmd))
                   \/ done = 0 /\ ~Reads(acmd) /\ mode = "first"

(* A command that is carried out is the one the Amiga asks for right now,   *)
(* or whose end it gave up waiting for: never a byte of its data, an        *)
(* earlier command, or the same one again.  Exempt is what follows when the *)
(* Amiga gives up on a command that the device had taken: the device still  *)
(* carries it out, and may take a byte of the next one for a command.       *)
CarriesOutWhatIsAsked ==
  [][(clean /\ done' > done) => /\ done' = 1
                                /\ dcmd = acmd
                                /\ \/ apc \in {"sync", "work", "close", "end"}
                                   \/ apc = "idle" /\ res # "OK"]_vars

(* Whatever the Amiga gives up on and asks for next, a device that has      *)
(* taken a command gets out of it again and lets go of the data lines: also *)
(* the late answer that the three properties above exempt has an end, by    *)
(* the edges of another command or by the watchdog.                         *)
LetsGo == Serving ~> (~Serving /\ ~dout)

(* An application that keeps sending RESET gets a device that restarted and *)
(* acknowledged it, whatever state both sides were in.                      *)
Recovers ==
  recover ~> (apc = "idle" /\ acmd = CmdReset /\ res = "OK" /\ done = 1)

==============================================================================
