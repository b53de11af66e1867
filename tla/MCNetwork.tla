------------------------------ MODULE MCNetwork ------------------------------
(* Small instances of what goes over a network: the port of the emulator and *)
(* the drivers of the two network chips.  A behaviour is one of one part;    *)
(* the others rest.                                                          *)
(*                                                                           *)
(* The simulated device has one register of a word; of the blocks it takes   *)
(* one whole and cuts one off, and one does not fit a message.  The rings    *)
(* hold two or three packets, and the counters of the sockets wrap too.      *)
EXTENDS NetPort

MCWidth == [word |-> 1]
MCBlocks == {<<0, 1>>, <<1, 1, 1>>, <<0, 0, 0, 0>>}
MCFrames == {<<"a", 1>>, <<"b", 3>>}
MCPackets == {<<"a", 1>>, <<"b", 4>>}

CONSTANTS
  RxStop, RamEnd, EncHdr, EncCrc, Frames, MaxRead, MaxQueue,
  Sockets, Mem, Counters, UdpHdr, EthHdr, Packets, MaxPackets, MaxTimeouts

VARIABLES
  part, cpu, eth, bank, ring, chip, gNextPacketPtr, left, got, queue, txState,
  mode, status, rx, tx, ir, io, result, packets, cmdFaults, pending, wire, sound

encVars == <<cpu, eth, bank, ring, chip, gNextPacketPtr, left, got, queue, txState>>
wizVars == <<mode, status, rx, tx, ir, io, result, packets, cmdFaults, pending,
             wire, sound>>

Enc == INSTANCE EncRing WITH
  Hdr <- EncHdr, Crc <- EncCrc, tx <- txState
Wiz == INSTANCE Wiznet WITH
  MaxFaults <- MaxTimeouts, queue <- pending

ASSUME NetworkAssumption == Enc!EncAssumption /\ Wiz!WizAssumption

NetworkInit ==
  /\ part \in {"port", "enc", "wiz"}
  /\ Init /\ Wiz!Init
  /\ Enc!Init /\ (part # "enc" => cpu = "avr")

NetworkNext ==
  \/ part = "port" /\ Next /\ UNCHANGED <<part, encVars, wizVars>>
  \/ part = "enc" /\ Enc!Next /\ UNCHANGED <<part, vars, wizVars>>
  \/ part = "wiz" /\ Wiz!Next /\ UNCHANGED <<part, vars, encVars>>

NetworkSpec == NetworkInit /\ [][NetworkNext]_<<part, vars, encVars, wizVars>>

(* EncRing, Wiznet: packets are taken in order, each once and whole, and the *)
(* driver of the ENC28J60 frees them in the register meant for it.           *)
TakenWhole ==
  /\ Enc!FramesAreTakenWhole /\ Enc!RegistersAreReached
  /\ Wiz!PacketsAreTakenWhole

(* Wiznet: a call that sends says OK for its own packet.                     *)
OkWhenSent == Wiz!OkWhenSent
===============================================================================
