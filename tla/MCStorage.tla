------------------------------ MODULE MCStorage ------------------------------
(* Small instances of what keeps data: the heap, the parameters in the       *)
(* EEPROM, a file of a FAT file system, and the SD card below it.  A         *)
(* behaviour is one of one part; the others rest.                            *)
EXTENDS MemHeap, Crc16

(* The heap has 32 bytes and the headers of the AVR.                         *)
MCRequests == {4, 10, 17}

(* The tables of the parameters put words, longs and blocks to even and odd  *)
(* addresses; version 2 has another layout of the same size.                 *)
P(k, o, d) == [kind |-> k, offset |-> o, default |-> d]
MCTable ==
  << << P("byte", 0, <<1>>), P("word", 1, <<0, 6>>), P("block", 3, <<1, 0, 6>>) >>,
     << P("long", 0, <<1, 2, 3, 4>>), P("word", 4, <<0, 6>>) >>,
     << P("byte", 0, <<1>>), P("long", 1, <<1, 2, 3, 4>>), P("byte", 5, <<0>>),
        P("block", 6, <<9, 8, 7, 6, 5, 4>>) >> >>
MCTotal == <<6, 6, 12>>
MCSettings ==
  { <<"byte", <<35>> >>, <<"word", <<0, 1>> >>, <<"long", <<17, 18, 19, 20>> >>,
    <<"block", <<1, 2, 3>> >>, <<"block", <<1, 2, 3, 4, 5, 0>> >> }

CONSTANTS
  Chips, MaxVersion, Table, Total, Settings,
  MaxCluster, Epb, MaxChain, MaxPerClus, MaxDir, Map, MapEntry,
  CardKinds, Blocks, BlockSize, Values, Retries, IdleRetries, MaxFaults

(* One partition, two copies of the FAT.                                     *)
Boots == {[part |-> 5, reserved |-> 2, fats |-> 2, fatSize |-> 3, root |-> 2]}

VARIABLES
  part, chip, version, cells, eepState, pc, todo, want, synced, stored, fresh,
  unmarked, vol, disk, found, rf, bio, lba, reads, failed,
  useCrc, card, flash, cardType, wires, call, result, slots, faults, known, kept

eepVars == <<chip, version, cells, eepState, pc, todo, want, synced, stored,
             fresh, unmarked>>
fileVars == <<vol, disk, found, rf, bio, lba, reads, failed>>
cardVars == <<useCrc, card, flash, cardType, wires, call, result, slots, faults,
              known, kept>>

Eep == INSTANCE Params WITH Crc <- CrcWord
File == INSTANCE Ufat
Sd == INSTANCE SdCard WITH Kinds <- CardKinds, cells <- flash

ASSUME StorageAssumption ==
  /\ Eep!ChipsAssumption /\ Eep!TableAssumption /\ Eep!SettingsAssumption
  /\ File!UfatAssumption /\ Sd!SdCardAssumption

FileRests ==
  /\ vol = "none" /\ disk = File!NoDisk /\ found = "no" /\ rf = File!NoReader
  /\ bio = File!NoMap /\ lba = File!NoSector /\ reads = 0 /\ failed = FALSE

StorageInit ==
  /\ part \in {"heap", "params", "file", "card"}
  /\ Init
  /\ Eep!Init /\ (part # "params" => chip = "avr")
  /\ IF part = "file" THEN File!Init ELSE FileRests
  /\ Sd!Init /\ (part # "card" => card.kind = "none" /\ ~useCrc)

StorageNext ==
  \/ part = "heap" /\ Next /\ UNCHANGED <<part, eepVars, fileVars, cardVars>>
  \/ part = "params" /\ Eep!Next /\ UNCHANGED <<part, vars, fileVars, cardVars>>
  \/ part = "file" /\ File!Next /\ UNCHANGED <<part, vars, eepVars, cardVars>>
  \/ part = "card" /\ Sd!Next /\ UNCHANGED <<part, vars, eepVars, fileVars>>

StorageSpec ==
  StorageInit /\ [][StorageNext]_<<part, vars, eepVars, fileVars, cardVars>>

(* Params: a parameter reads as it was set last.                             *)
ReadsBack == Eep!ReadsBack

(* Params: a start works with the data of a sync of its own version.         *)
StartsFromSync == Eep!StartsFromSync

(* Params: what is VALID outlives a power failure.                           *)
ValidIsSafe == Eep!ValidIsSafe

(* Ufat: a file in one piece is read in its order, a mapped one anyway.      *)
ReadsTheFile == File!ReadsTheFile

(* SdCard: between calls the bus is free for the other drivers.              *)
BusIsFree == Sd!BusIsFree

(* SdCard: a block reads as it was written, or the call fails.               *)
ReadsWhatWasWritten == Sd!ReadsWhatWasWritten
===============================================================================
