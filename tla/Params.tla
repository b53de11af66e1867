------------------------------- MODULE Params -------------------------------
(***************************************************************************)
(* The parameters that the firmware keeps in its EEPROM (mcu/src/param/    *)
(* param.c), on the EEPROM routines of the mk20 (bsp/eeprom.c) or on those *)
(* of the AVR's C library, which write one byte at a time.                 *)
(*                                                                         *)
(* CRC, size and version stand before the data.  Only param_check looks at *)
(* them, and a setter leaves them as they are until param_sync.  The power *)
(* may fail between any two writes of the hardware.                        *)
(*                                                                         *)
(* A value is the sequence of its bytes, the lowest address first.         *)
(***************************************************************************)
EXTENDS Naturals, Sequences

CONSTANTS
  Chips,       \* subset of {"mk20", "avr"}: whose EEPROM routines
  MaxVersion,  \* bound: versions of the firmware, each with a table
  Table,       \* per version, the sequence of its parameters
  Total,       \* per version, PARAM_DEF_TOTAL
  Settings,    \* pairs <<kind, value>> that setters are called with
  Crc(_)       \* CRC of a sequence of bytes, as the two bytes it is kept in

Byte == 0 .. 255
AtCrc == 0
AtSize == 2
AtVersion == 4
AtData == 6
Versions == 1 .. MaxVersion
Kinds == {"byte", "word", "long", "block"}

ChipsAssumption == Chips \subseteq {"mk20", "avr"}

(* No two parameters of a table share a byte.                               *)
ParamEnd(p) == p.offset + Len(p.default)
TableAssumption ==
  /\ MaxVersion \in Nat \ {0}
  /\ \A v \in Versions :
       /\ Total[v] \in 1 .. 255
       /\ Table[v] \in Seq([kind : Kinds, offset : Nat, default : Seq(Byte)])
       /\ \A i, j \in DOMAIN Table[v] :
            /\ ParamEnd(Table[v][i]) <= Total[v]
            /\ i < j => \/ ParamEnd(Table[v][i]) <= Table[v][j].offset
                       \/ ParamEnd(Table[v][j]) <= Table[v][i].offset
SettingsAssumption == \A s \in Settings : s[2] \in Seq(Byte)

VARIABLES
  chip,      \* which EEPROM routines are compiled in
  version,   \* version of the running firmware
  cells,     \* contents of the EEPROM
  eepState,  \* eep_state
  pc,        \* "off", "idle", or the call that is writing
  todo,      \* writes of the hardware that the call has still to do
  want,      \* ghost: the data that the calls so far have asked for
  synced,    \* ghost: data and version of the last param_sync
  stored,    \* ghost: those of the last param_sync that wrote its CRC
  fresh,     \* ghost: no setter was called since the last power failure
  unmarked   \* ghost: param_set_block was called since the last param_sync

vars == <<chip, version, cells, eepState, pc, todo, want, synced, stored,
          fresh, unmarked>>
ghosts == <<want, synced, stored, fresh, unmarked>>

------------------------------------------------------------------------------
(* The EEPROM.                                                              *)

Write(a, bytes) == [at |-> a, bytes |-> bytes]

Written(mem, w) ==
  [a \in DOMAIN mem |-> IF a \in w.at .. w.at + Len(w.bytes) - 1
                        THEN w.bytes[a - w.at + 1] ELSE mem[a]]

(* How many of the bytes left to write at address a the hardware takes at   *)
(* once.  eeprom_write_word, _dword and _block all agree on this.           *)
PieceLen(a, left) ==
  IF chip = "avr" THEN 1
  ELSE IF left >= 4 /\ a % 4 = 0 THEN 4
  ELSE IF left >= 2 /\ a % 2 = 0 THEN 2 ELSE 1

(* Mutant of Stores: the source pointer stays at the value's begin.         *)
StoresSameSource(a, v) ==
  LET From[k \in 0 .. Len(v)] ==
        IF k = Len(v) THEN <<>>
        ELSE LET n == PieceLen(a + k, Len(v) - k)
             IN <<Write(a + k, SubSeq(v, 1, n))>> \o From[k + n]
  IN From[0]

(* The writes that put value v to address a.                                *)
Stores(a, v) ==
  LET From[k \in 0 .. Len(v)] ==
        IF k = Len(v) THEN <<>>
        ELSE LET n == PieceLen(a + k, Len(v) - k)
             IN <<Write(a + k, SubSeq(v, k + 1, k + n))>> \o From[k + n]
  IN From[0]

Read(mem, a, n) == [i \in 1 .. n |-> mem[a + i - 1]]

------------------------------------------------------------------------------
(* The parameters.                                                          *)

Data(mem) == Read(mem, AtData, Total[version])
SizeBytes == <<Total[version], 0>>

(* Mutant of CheckResult: a version of its own is not asked for.            *)
CheckResultAnyVersion(mem) ==
  IF Read(mem, AtSize, 2) # SizeBytes THEN "WRONG_SIZE"
  ELSE IF Read(mem, AtCrc, 2) # Crc(Data(mem)) THEN "WRONG_CRC" ELSE "OK"

(* param_check without its effect on eep_state.                             *)
CheckResult(mem) ==
  IF Read(mem, AtSize, 2) # SizeBytes THEN "WRONG_SIZE"
  ELSE IF mem[AtVersion] # version THEN "WRONG_VERSION"
  ELSE IF Read(mem, AtCrc, 2) # Crc(Data(mem)) THEN "WRONG_CRC" ELSE "OK"

(* The getters.  A block ignores eep_state; the default of a long is read   *)
(* with its words swapped.                                                  *)
Default(p) ==
  IF p.kind = "long"
  THEN <<p.default[3], p.default[4], p.default[1], p.default[2]>>
  ELSE p.default

Get(p) == IF eepState = "INVALID" /\ p.kind # "block"
          THEN Default(p) ELSE Read(cells, AtData + p.offset, Len(p.default))

(* The writes of param_reset, byte by byte, and of param_sync.              *)
DefaultStores ==
  LET Bytes(p) == [i \in DOMAIN p.default |->
                     Write(AtData + p.offset + i - 1, <<p.default[i]>>)]
      From[i \in 0 .. Len(Table[version])] ==
        IF i = 0 THEN <<>> ELSE From[i - 1] \o Bytes(Table[version][i])
  IN From[Len(Table[version])]

Defaults ==
  LET Covers(p, i) == i \in p.offset + 1 .. p.offset + Len(p.default)
  IN [i \in 1 .. Total[version] |->
        IF \E k \in DOMAIN Table[version] : Covers(Table[version][k], i)
        THEN LET p == CHOOSE p \in {Table[version][k] :
                                      k \in DOMAIN Table[version]} : Covers(p, i)
             IN p.default[i - p.offset]
        ELSE cells[AtData + i - 1]]

SyncStores == Stores(AtCrc, Crc(Data(cells))) \o Stores(AtSize, SizeBytes)
              \o Stores(AtVersion, <<version>>)

------------------------------------------------------------------------------
(* param_init.                                                              *)
Boot ==
  /\ pc = "off"
  /\ IF CheckResult(cells) = "OK"
     THEN /\ eepState' = "VALID" /\ pc' = "idle" /\ want' = Data(cells)
          /\ UNCHANGED todo
     ELSE /\ eepState' = "INVALID" /\ pc' = "reset" /\ want' = Defaults
          /\ todo' = DefaultStores
  /\ UNCHANGED <<chip, version, cells, synced, stored, fresh, unmarked>>

(* param_check, called by an application.                                   *)
Check ==
  /\ pc = "idle"
  /\ eepState' = IF CheckResult(cells) = "OK" THEN "VALID" ELSE "INVALID"
  /\ UNCHANGED <<chip, version, cells, pc, todo, ghosts>>

Reset ==
  /\ pc = "idle"
  /\ pc' = "reset" /\ todo' = DefaultStores /\ want' = Defaults
  /\ UNCHANGED <<chip, version, cells, eepState, synced, stored, fresh,
                 unmarked>>

(* param_sync, called or at the end of param_reset.                         *)
StartSync ==
  /\ pc \in {"idle", "reset"} /\ todo = <<>>
  /\ pc' = "sync"
  /\ todo' = SyncStores
  /\ synced' = [data |-> Data(cells), version |-> version]
  /\ UNCHANGED <<chip, version, cells, eepState, want, stored, fresh,
                 unmarked>>

EndSync ==
  /\ pc = "sync" /\ todo = <<>>
  /\ pc' = "idle" /\ eepState' = "VALID" /\ unmarked' = FALSE
  /\ stored' = synced
  /\ UNCHANGED <<chip, version, cells, todo, want, synced, fresh>>

(* The setters; pc is the kind.                                             *)
Set(p, v) ==
  /\ pc = "idle"
  /\ <<p.kind, v>> \in Settings /\ Len(v) = Len(p.default)
  /\ pc' = p.kind /\ todo' = Stores(AtData + p.offset, v)
  /\ want' = [i \in DOMAIN want |->
                IF i \in p.offset + 1 .. p.offset + Len(v)
                THEN v[i - p.offset] ELSE want[i]]
  /\ fresh' = FALSE
  /\ unmarked' = (unmarked \/ p.kind = "block")
  /\ UNCHANGED <<chip, version, cells, eepState, synced, stored>>

(* Mutant of EndSet: the state stays VALID.                                 *)
EndSetClean ==
  /\ pc \in Kinds /\ todo = <<>>
  /\ pc' = "idle"
  /\ UNCHANGED <<eepState, chip, version, cells, todo, ghosts>>

EndSet ==
  /\ pc \in Kinds /\ todo = <<>>
  /\ pc' = "idle"
  /\ eepState' = IF pc # "block" /\ eepState = "VALID" THEN "DIRTY" ELSE eepState
  /\ UNCHANGED <<chip, version, cells, todo, ghosts>>

(* One write of the hardware.                                               *)
Store ==
  /\ todo # <<>>
  /\ cells' = Written(cells, Head(todo))
  /\ todo' = Tail(todo)
  /\ UNCHANGED <<chip, version, eepState, pc, ghosts>>

(* A power failure or any other reset.                                      *)
PowerFail ==
  /\ pc # "off"
  /\ pc' = "off" /\ todo' = <<>> /\ eepState' = "INVALID"
  /\ want' = <<>> /\ fresh' = TRUE /\ unmarked' = FALSE
  /\ stored' = IF pc = "sync" /\ Read(cells, AtCrc, 2) = Crc(synced.data)
               THEN synced ELSE stored
  /\ UNCHANGED <<chip, version, cells, synced>>

(* A newer firmware is flashed.                                             *)
Update ==
  /\ pc = "off" /\ version < MaxVersion
  /\ version' = version + 1
  /\ UNCHANGED <<chip, cells, eepState, pc, todo, ghosts>>

SetSome ==
  \E i \in DOMAIN Table[version], s \in Settings : Set(Table[version][i], s[2])

(* A new device has an erased EEPROM.                                       *)
Init ==
  /\ chip \in Chips /\ version = 1
  /\ cells = [a \in 0 .. AtData + 254 |-> 255]
  /\ eepState = "INVALID" /\ pc = "off" /\ todo = <<>>
  /\ want = <<>> /\ synced = [data |-> <<>>, version |-> 0]
  /\ stored = synced /\ fresh = TRUE /\ unmarked = FALSE

Next ==
  \/ Boot \/ Check \/ Reset \/ StartSync \/ EndSync \/ SetSome \/ EndSet
  \/ Store \/ PowerFail \/ Update

Spec == Init /\ [][Next]_vars

------------------------------------------------------------------------------
(* Setters and param_reset write all of their parameter and nothing else:   *)
(* between two calls every parameter reads as it was set last, unless the   *)
(* state is INVALID since param_check refused the record: then all but      *)
(* blocks read as their defaults, whatever was set.  And they               *)
(* write it in pieces that lie where the hardware takes them: "any          *)
(* unaligned write will cause a hard fault exception" (eeprom.c:98).        *)
ReadsBack ==
  /\ (pc = "idle" /\ eepState # "INVALID") =>
       \A i \in DOMAIN Table[version] :
         LET p == Table[version][i]
         IN Get(p) = SubSeq(want, p.offset + 1, p.offset + Len(p.default))
  /\ \A i \in DOMAIN todo : todo[i].at % Len(todo[i].bytes) = 0

(* A firmware that has just started works with data that a param_sync of    *)
(* its own version covered as a whole, the last one or the last that wrote  *)
(* its CRC: never with a mixture of two settings, with half of a value or   *)
(* with another version's layout, wherever the power failed.                *)
StartsFromSync ==
  (pc = "idle" /\ fresh) =>
    [data |-> Data(cells), version |-> version] \in {synced, stored}

(* Parameters in state VALID outlive a power failure: param_check would     *)
(* accept them.  Only param_set_block, which does not mark the state DIRTY, *)
(* is exempt.                                                               *)
ValidIsSafe ==
  (pc = "idle" /\ eepState = "VALID" /\ ~unmarked) => CheckResult(cells) = "OK"

==============================================================================
