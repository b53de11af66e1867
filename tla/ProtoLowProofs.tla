---------------------------- MODULE ProtoLowProofs ----------------------------
(***************************************************************************)
(* Theorems about the parallel port between both peers, for any set of     *)
(* commands, any size of a block and any number of timeouts.               *)
(*                                                                         *)
(* Each side keeps an invariant of its own, that its steps alone preserve. *)
(* A third one says, for each place of the device, where the Amiga may be  *)
(* meanwhile, and how far each is: the edges of CLK are the only thing     *)
(* that holds them together while data moves.                              *)
(***************************************************************************)
EXTENDS ProtoLow, SequenceTheorems, TLAPS

------------------------------------------------------------------------------
(* The sides.                                                               *)

AmigaPlaces == {"idle", "ready", "sync", "work", "edge", "turned", "get",
                "close", "raise", "end", "abort"}
DevicePlaces == {"reset", "off", "boot", "knok", "poll", "sampled", "handler",
                 "hung", "turn", "bytes", "end"}

(* The Amiga: where it is tells the level of CLK, the direction of its port *)
(* and what the port would put on the lines.                                *)
AmigaInv ==
  /\ apc \in AmigaPlaces /\ ai \in Nat /\ aout \in BOOLEAN /\ clk \in BOOLEAN
  /\ acmd \in Commands \cup {CmdIdle}
  /\ apc \in {"idle", "ready", "end", "abort"} => clk
  /\ apc = "abort" => res # "OK"
  /\ apc \in {"sync", "turned", "close", "raise"} => ~clk
  /\ apc \in {"ready", "sync"} => ai = 0 /\ adata = acmd /\ acmd \in Commands
  /\ apc \in {"turned", "get", "close", "raise"} => Reads(acmd)
  /\ apc \in {"turned", "get", "close"} => ~aout
  /\ ~aout => apc \in {"turned", "get", "close", "work"} /\ Reads(acmd)
  /\ apc = "turned" => ai = 0
  /\ apc = "get" => ai < Bytes(acmd) /\ (clk <=> ai % 2 = 1)
  /\ apc = "work" => ai <= Bytes(acmd)
  /\ apc = "work" /\ ~aout => (clk <=> ai % 2 = 0)
  /\ apc = "work" /\ aout /\ Reads(acmd) => ai = 0 /\ ~clk
  /\ apc \in {"close", "raise"} => ai = Bytes(acmd)
  /\ apc = "edge" => Writes(acmd) /\ ai < Bytes(acmd) /\ adata = ai + 1
  /\ apc \in {"work", "edge"} /\ ~Reads(acmd) => (clk <=> ai % 2 = 1)
  /\ apc = "work" /\ Writes(acmd) /\ ai > 0 => adata = ai

(* The device: RAK is low from the begin of a transfer to its end, and the  *)
(* port drives the lines while a read has bytes to send.                    *)
DeviceInv ==
  /\ dpc \in DevicePlaces /\ di \in Nat /\ dout \in BOOLEAN /\ rak \in BOOLEAN
  /\ dcmd \in Commands \cup {CmdIdle}
  /\ ~rak <=> \/ dpc \in {"turn", "bytes", "end"}
              \/ dpc = "hung" /\ ~Reads(dcmd)
  /\ dout <=> dpc = "bytes" /\ Reads(dcmd)
  /\ dpc = "turn" => Reads(dcmd)
  /\ dpc \in {"turn", "handler"} => di = 0 /\ taken = <<>>
  /\ dpc = "bytes" => di <= Bytes(dcmd)
  /\ dpc = "bytes" /\ Reads(dcmd) /\ di > 0 => ddata = di
  /\ dpc = "end" \/ (dpc = "hung" /\ ~Reads(dcmd)) => di = Bytes(dcmd)

------------------------------------------------------------------------------
(* Both together, while "clean" holds: the Amiga has given up on no command *)
(* that the device had taken, or the device is out of it.                   *)

Quiet == dpc \in {"reset", "off", "boot", "knok", "poll"}

(* Where the Amiga is while the device has no command ...                   *)
QuietInv ==
  /\ Quiet => apc \in {"idle", "ready", "sync", "end", "abort"}
  /\ Quiet /\ apc \in {"ready", "sync"} => done = 0
  /\ Quiet /\ (apc = "end" \/ (apc = "idle" /\ res = "OK")) =>
       \/ /\ done = 1
          /\ Writes(acmd) /\ mode = "run"
               => dcmd = acmd /\ taken = InOrder(Bytes(acmd))
       \/ done = 0 /\ ~Reads(acmd) /\ mode = "first"

(* ... has one, which is that of the Amiga ...                              *)
ServedInv ==
  /\ dpc \in {"sampled", "handler"} => apc = "sync" /\ done = 0
  /\ dpc \in {"handler", "hung", "turn", "bytes", "end"} => dcmd = acmd
  /\ dpc \in {"hung", "turn", "bytes"} => done = 0
  /\ dpc = "end" => done = 1
  /\ dpc \in {"hung", "bytes", "end"} /\ apc = "idle" => res # "OK"

(* ... and how far both are in the transfer of a read ...                   *)
ReadInv ==
  Reads(dcmd) =>
    /\ dpc = "hung" => apc = "sync"
    /\ dpc = "turn" => apc \in {"sync", "turned", "work"} /\ ai = 0
    /\ dpc = "bytes" => /\ ~aout /\ apc \in {"work", "get", "close"}
                        /\ apc = "work" => di = ai
                        /\ apc = "get" => di = ai \/ di = ai + 1
                        /\ apc = "close" => di = Bytes(dcmd)
    /\ dpc = "end" => apc \in {"close", "raise", "end", "idle"}

(* ... of a write, or of an action, which has no bytes.                     *)
WriteInv ==
  ~Reads(dcmd) =>
    /\ dpc \in {"hung", "end"} => /\ apc \in {"sync", "work", "end", "idle"}
                                  /\ apc \in {"sync", "work"} => ai = Bytes(dcmd)
    /\ dpc = "bytes" => /\ apc \in {"sync", "work", "edge", "end", "idle"}
                        /\ apc \in {"sync", "edge"} => di = ai
                        /\ apc = "work" => di = ai \/ di + 1 = ai
                        /\ apc \in {"end", "idle"} => di = Bytes(dcmd)

(* The bytes arrived, as many as both counted.                              *)
DataInv ==
  /\ Writes(dcmd) /\ dpc \in {"bytes", "hung", "end"} => taken = InOrder(di)
  /\ Reads(acmd) =>
       /\ apc \in {"ready", "sync", "turned", "work", "get", "close", "raise"}
            => got = InOrder(ai)
       /\ apc = "end" \/ (apc = "idle" /\ res = "OK") => got = InOrder(Bytes(acmd))

CleanInv ==
  clean => QuietInv /\ ServedInv /\ ReadInv /\ WriteInv /\ DataInv

(* Clean or not: once the Amiga saw RAK low, the device is at a command, or *)
(* has carried one out since the attempt began, or was reset.               *)
Answered == {"work", "edge", "turned", "get", "close", "raise", "end"}
AnswerInv ==
  /\ dpc = "end" => done > 0
  /\ apc \in Answered => \/ done > 0 \/ mode = "first" \/ dpc \in {"turn", "bytes"}
                         \/ dpc = "hung" /\ ~Reads(dcmd)
  /\ apc = "idle" /\ res = "OK" => done > 0 \/ mode = "first"

BusInv == /\ AmigaInv /\ DeviceInv /\ done \in Nat /\ clean \in BOOLEAN
          /\ CleanInv /\ AnswerInv

------------------------------------------------------------------------------
(* Commands and edges.                                                      *)

LEMMA CommandBytes ==
  ASSUME NEW c \in Commands \cup {CmdIdle}
  PROVE  /\ Bytes(c) \in Nat /\ Bytes(c) % 2 = 0
         /\ ~(Reads(c) /\ Writes(c))
         /\ Bytes(c) > 0 <=> Reads(c) \/ Writes(c)
<1>1. c \in 0 .. 191 /\ Group(c) \in Nat
  BY CommandsAssumption DEF CmdIdle, Group
<1>2. CASE Group(c) \in {2, 3, 8, 9}
  <2>1. Bytes(c) = 2
    BY <1>2 DEF Bytes
  <2> QED BY <1>2, <2>1 DEF Reads, Writes
<1>3. CASE Group(c) \in {4, 5, 10}
  <2>1. Bytes(c) = 4
    BY <1>3 DEF Bytes
  <2> QED BY <1>3, <2>1 DEF Reads, Writes
<1>4. CASE Group(c) \in {6, 7}
  <2>1. Bytes(c) = 2 * BlockWords
    BY <1>4 DEF Bytes
  <2> QED BY <1>4, <2>1, BlockAssumption DEF Reads, Writes
<1>5. CASE Group(c) \notin 2 .. 10
  <2>1. Bytes(c) = 0
    BY <1>1, <1>5 DEF Bytes
  <2> QED BY <1>1, <1>5, <2>1 DEF Reads, Writes
<1> QED BY <1>1, <1>2, <1>3, <1>4, <1>5

LEMMA Parity ==
  ASSUME NEW n \in Nat
  PROVE  n % 2 \in {0, 1} /\ (n + 1) % 2 = 1 - (n % 2)
  OBVIOUS

LEMMA Edges ==
  ASSUME AmigaInv, DeviceInv
  PROVE  /\ EdgeSeen <=> (clk <=> IF Reads(dcmd) THEN di % 2 = 1 ELSE di % 2 = 0)
         /\ Bytes(acmd) \in Nat /\ Bytes(acmd) % 2 = 0
         /\ Bytes(dcmd) \in Nat /\ Bytes(dcmd) % 2 = 0
         /\ ~(Reads(acmd) /\ Writes(acmd)) /\ ~(Reads(dcmd) /\ Writes(dcmd))
         /\ Bytes(acmd) > 0 <=> Reads(acmd) \/ Writes(acmd)
         /\ Bytes(dcmd) > 0 <=> Reads(dcmd) \/ Writes(dcmd)
<1>1. clk \in BOOLEAN /\ di \in Nat
  BY DEF AmigaInv, DeviceInv
<1>2. acmd \in Commands \cup {CmdIdle} /\ dcmd \in Commands \cup {CmdIdle}
  BY DEF AmigaInv, DeviceInv
<1>3. EdgeSeen <=> (clk <=> IF Reads(dcmd) THEN di % 2 = 1 ELSE di % 2 = 0)
  BY <1>1 DEF EdgeSeen
<1> QED BY <1>2, <1>3, CommandBytes

LEMMA InOrderNext ==
  /\ InOrder(0) = <<>>
  /\ \A n \in Nat : Append(InOrder(n), n + 1) = InOrder(n + 1)
<1>1. InOrder(0) = <<>>
  BY EmptySeq DEF InOrder
<1>2. ASSUME NEW n \in Nat PROVE Append(InOrder(n), n + 1) = InOrder(n + 1)
  <2> DEFINE s == InOrder(n)
             t == InOrder(n + 1)
  <2>1. /\ s \in Seq(Nat) /\ Len(s) = n /\ \A i \in 1 .. n : s[i] = i
        /\ t \in Seq(Nat) /\ Len(t) = n + 1 /\ \A i \in 1 .. n + 1 : t[i] = i
    BY DEF InOrder
  <2> HIDE DEF s, t
  <2>2. /\ Append(s, n + 1) \in Seq(Nat) /\ Len(Append(s, n + 1)) = n + 1
        /\ \A i \in 1 .. n + 1 : Append(s, n + 1)[i] = i
    BY <2>1
  <2>3. Append(s, n + 1) = t
    BY <2>1, <2>2, SeqEqual
  <2> QED BY <2>3 DEF s, t
<1> QED BY <1>1, <1>2

------------------------------------------------------------------------------
(* Each side on its own.                                                    *)

LEMMA AmigaSteps ==
  ASSUME AmigaInv, DeviceInv, StartSome \/ AmigaWorks \/ AmigaGivesUp \/ Recover
  PROVE  AmigaInv'
<1> USE Edges, Parity DEF AmigaInv, AmigaPlaces
<1>1. ASSUME NEW c \in Commands, Start(c) PROVE AmigaInv'
  BY <1>1 DEF Start, StartChecked
<1>2. CASE ClkLow
  BY <1>2 DEF ClkLow, AmigaStep
<1>3. CASE InSync
  BY <1>3 DEF InSync, AmigaStep
<1>4. CASE PutByte
  BY <1>4 DEF PutByte, AmigaStep
<1>5. CASE PutEdge
  <2>1. /\ apc = "edge" /\ apc' = "work" /\ ai' = ai + 1
        /\ UNCHANGED <<acmd, adata, aout>>
    BY <1>5 DEF PutEdge, AmigaStep
  <2>2. clk' \in BOOLEAN /\ (clk' <=> ~clk)
    BY <1>5 DEF PutEdge
  <2>3. clk' <=> ai' % 2 = 1
    BY <2>1, <2>2
  <2> QED BY <2>1, <2>2, <2>3
<1>6. CASE DdrIn
  BY <1>6 DEF DdrIn, AmigaStep
<1>7. CASE OpenRead
  BY <1>7 DEF OpenRead, AmigaStep
<1>8. CASE GetEdge
  <2>1. /\ apc = "work" /\ ~aout /\ ai < Bytes(acmd) /\ Reads(acmd)
        /\ apc' = "get" /\ UNCHANGED <<acmd, ai, adata, aout>>
    BY <1>8 DEF GetEdge, AmigaStep
  <2>2. clk' \in BOOLEAN /\ (clk' <=> ~clk)
    BY <1>8 DEF GetEdge
  <2>3. clk' <=> ai' % 2 = 1
    BY <2>1, <2>2
  <2> QED BY <2>1, <2>2, <2>3
<1>9. CASE GetByte
  BY <1>9 DEF GetByte, AmigaStep
<1>10. CASE CloseRead
  BY <1>10 DEF CloseRead, AmigaStep
<1>11. CASE DdrOut
  BY <1>11 DEF DdrOut, AmigaStep
<1>12. CASE ClkHigh
  BY <1>12 DEF ClkHigh, AmigaStep
<1>13. CASE Finish
  BY <1>13 DEF Finish, AmigaStep
<1>14. CASE AbortIdle
  BY <1>14 DEF AbortIdle, AmigaStep
<1>15. CASE Abort
  BY <1>15 DEF Abort
<1>16. CASE EndTimeout
  BY <1>16 DEF EndTimeout
<1>17. CASE Recover
  BY <1>17 DEF Recover
<1> QED
  BY <1>1, <1>2, <1>3, <1>4, <1>5, <1>6, <1>7, <1>8, <1>9, <1>10, <1>11, <1>12,
     <1>13, <1>14, <1>15, <1>16, <1>17
     DEF StartSome, AmigaWorks, AmigaGivesUp

LEMMA AmigaWaits ==
  ASSUME AmigaInv, UNCHANGED amigaVars
  PROVE  AmigaInv'
  BY DEF AmigaInv, amigaVars

LEMMA DeviceSteps ==
  ASSUME AmigaInv, DeviceInv, DeviceWorks \/ Watchdog \/ Hang \/ ToggleBusy
  PROVE  DeviceInv'
<1> USE Edges DEF DeviceInv, DevicePlaces
<1>1. CASE BootPorts
  BY <1>1 DEF BootPorts
<1>2. CASE EarlyExit
  BY <1>2 DEF EarlyExit
<1>3. CASE KnokBail
  BY <1>3 DEF KnokBail
<1>4. CASE SeesClk
  BY <1>4 DEF SeesClk
<1>5. CASE GetCommand
  <2>1. ReadAsCommand \subseteq Commands \cup {CmdIdle}
    BY DEF ReadAsCommand
  <2>2. \A c : Dispatch(c) \in {"handler", "reset"}
    BY DEF Dispatch
  <2> QED BY <1>5, <2>1, <2>2 DEF GetCommand
<1>6. CASE RakLow
  <2>1. /\ dpc = "handler" /\ rak' = FALSE
        /\ UNCHANGED <<dcmd, di, ddata, dout, taken>>
        /\ dpc' = IF Reads(dcmd) THEN "turn" ELSE "bytes"
    BY <1>6 DEF RakLow
  <2>2. CASE Reads(dcmd)
    BY <2>1, <2>2
  <2>3. CASE ~Reads(dcmd)
    <3>1. di <= Bytes(dcmd) /\ di = 0 /\ ~dout
      BY <2>1
    <3>2. dpc' = "bytes" /\ ~rak' /\ rak' \in BOOLEAN
      BY <2>1, <2>3
    <3> QED BY <2>1, <2>3, <3>1, <3>2
  <2> QED BY <2>2, <2>3
<1>7. CASE TurnOut
  BY <1>7 DEF TurnOut
<1>8. CASE SendByte
  BY <1>8 DEF SendByte
<1>9. CASE TurnIn
  BY <1>9 DEF TurnIn
<1>10. CASE TakeByte
  BY <1>10 DEF TakeByte
<1>11. CASE Deliver
  BY <1>11 DEF Deliver
<1>12. CASE End
  BY <1>12 DEF End
<1>13. CASE Watchdog
  BY <1>13 DEF Watchdog, PinsFloat
<1>14. CASE Hang
  BY <1>14 DEF Hang
<1>15. CASE ToggleBusy
  BY <1>15 DEF ToggleBusy
<1> QED
  BY <1>1, <1>2, <1>3, <1>4, <1>5, <1>6, <1>7, <1>8, <1>9, <1>10, <1>11, <1>12,
     <1>13, <1>14, <1>15
     DEF DeviceWorks

LEMMA DeviceWaits ==
  ASSUME DeviceInv, UNCHANGED deviceVars
  PROVE  DeviceInv'
  BY DEF DeviceInv, deviceVars

------------------------------------------------------------------------------
(* Both together.                                                           *)

Parts == QuietInv /\ ServedInv /\ ReadInv /\ WriteInv /\ DataInv

LEMMA StartClean ==
  ASSUME BusInv, StartSome
  PROVE  CleanInv'
<1>1. PICK c \in Commands : Start(c)
  BY DEF StartSome
<1>2. CASE res' = "PENDING"
  <2>1. /\ apc = "idle" /\ rak /\ apc' = "ready" /\ ai' = 0 /\ got' = <<>>
        /\ done' = 0 /\ clean' = (clean \/ ~Serving)
        /\ UNCHANGED deviceVars
    BY <1>1, <1>2 DEF Start, StartChecked
  <2>2. clean => dpc \notin {"sampled", "handler"} /\ (dpc = "hung" => ~Reads(dcmd))
    BY <2>1 DEF BusInv, CleanInv, ServedInv, ReadInv
  <2>3. dpc \notin {"turn", "bytes", "end"} /\ ~(dpc = "hung" /\ ~Reads(dcmd))
    BY <2>1 DEF BusInv, DeviceInv
  <2>4. clean' => Quiet
    BY <2>1, <2>2, <2>3 DEF BusInv, DeviceInv, DevicePlaces, Quiet, Serving
  <2> QED BY <2>1, <2>4, InOrderNext DEF CleanInv, QuietInv, ServedInv, ReadInv,
             WriteInv, DataInv, deviceVars, Quiet
<1>3. CASE res' # "PENDING"
  <2>1. /\ apc = "idle" /\ res' # "OK"
        /\ UNCHANGED <<apc, acmd, ai, got, done, clean, aout, clk, deviceVars>>
    BY <1>1, <1>3 DEF Start, StartChecked
  <2> QED BY <2>1 DEF BusInv, CleanInv, QuietInv, ServedInv, ReadInv,
             WriteInv, DataInv, deviceVars, Quiet
<1> QED BY <1>2, <1>3

(* What an edge of CLK tells while bytes move.                              *)
LEMMA ReadEdges ==
  ASSUME BusInv, clean, dpc = "bytes", Reads(dcmd)
  PROVE  /\ dcmd = acmd /\ ~aout /\ dout
         /\ EdgeSeen => \/ apc = "get" /\ di = ai /\ di < Bytes(dcmd)
                        \/ apc = "close" /\ di = Bytes(dcmd)
         /\ ~EdgeSeen => apc = "work" \/ (apc = "get" /\ di = ai + 1 /\ ddata = di)
<1>1. /\ dcmd = acmd /\ ~aout /\ dout /\ apc \in {"work", "get", "close"}
      /\ apc = "work" => di = ai
      /\ apc = "get" => di = ai \/ di = ai + 1
      /\ apc = "close" => di = Bytes(dcmd)
      /\ di > 0 => ddata = di
  BY DEF BusInv, CleanInv, ServedInv, ReadInv, DeviceInv
<1>2. /\ ai \in Nat /\ di \in Nat
      /\ apc = "work" => (clk <=> ai % 2 = 0)
      /\ apc = "get" => ai < Bytes(acmd) /\ (clk <=> ai % 2 = 1)
      /\ apc = "close" => ~clk
  BY <1>1 DEF BusInv, AmigaInv, DeviceInv
<1>3. /\ EdgeSeen <=> (clk <=> di % 2 = 1)
      /\ Bytes(dcmd) \in Nat /\ Bytes(dcmd) % 2 = 0
  BY Edges DEF BusInv
<1>4. ai % 2 \in {0, 1} /\ (ai + 1) % 2 = 1 - (ai % 2)
  BY <1>2, Parity
<1>5. CASE apc = "work"
  BY <1>1, <1>2, <1>3, <1>4, <1>5
<1>6. CASE apc = "get"
  BY <1>1, <1>2, <1>3, <1>4, <1>6
<1>7. CASE apc = "close"
  BY <1>1, <1>2, <1>3, <1>7
<1> QED BY <1>1, <1>5, <1>6, <1>7

LEMMA WriteEdges ==
  ASSUME BusInv, clean, dpc = "bytes", ~Reads(dcmd)
  PROVE  /\ dcmd = acmd
         /\ di = Bytes(dcmd) => /\ apc \in {"sync", "work", "end", "idle"}
                                /\ apc \in {"sync", "work"} => ai = Bytes(dcmd)
         /\ di < Bytes(dcmd) /\ EdgeSeen
              => apc = "work" /\ ai = di + 1 /\ adata = ai
         /\ di < Bytes(dcmd) /\ ~EdgeSeen => apc \in {"sync", "work", "edge"} /\ ai = di
<1>1. /\ dcmd = acmd /\ apc \in {"sync", "work", "edge", "end", "idle"}
      /\ apc \in {"sync", "edge"} => di = ai
      /\ apc = "work" => di = ai \/ di + 1 = ai
      /\ apc \in {"end", "idle"} => di = Bytes(dcmd)
      /\ di <= Bytes(dcmd)
  BY DEF BusInv, CleanInv, ServedInv, WriteInv, DeviceInv
<1>2. /\ ai \in Nat /\ di \in Nat
      /\ apc = "sync" => ~clk /\ ai = 0
      /\ apc = "work" => ai <= Bytes(acmd)
      /\ apc = "edge" => ai < Bytes(acmd)
      /\ apc \in {"work", "edge"} => (clk <=> ai % 2 = 1)
      /\ apc = "work" /\ Writes(acmd) /\ ai > 0 => adata = ai
  BY <1>1 DEF BusInv, AmigaInv, DeviceInv
<1>3. /\ EdgeSeen <=> (clk <=> di % 2 = 0)
      /\ Bytes(dcmd) \in Nat /\ (Bytes(dcmd) > 0 => Writes(dcmd))
  BY Edges DEF BusInv
<1>4. ai % 2 \in {0, 1} /\ di % 2 \in {0, 1} /\ (di + 1) % 2 = 1 - (di % 2)
  BY <1>2, Parity
<1>5. CASE apc = "work"
  BY <1>1, <1>2, <1>3, <1>4, <1>5
<1>6. CASE apc = "edge"
  BY <1>1, <1>2, <1>3, <1>4, <1>6
<1>7. CASE apc = "sync"
  BY <1>1, <1>2, <1>3, <1>7
<1>8. CASE apc \in {"end", "idle"}
  BY <1>1, <1>2, <1>3, <1>8
<1> QED BY <1>1, <1>5, <1>6, <1>7, <1>8

LEMMA AmigaClean ==
  ASSUME BusInv, AmigaWorks
  PROVE  CleanInv'
<1>0. UNCHANGED clean
  BY DEF AmigaWorks, ClkLow, InSync, PutByte, PutEdge, DdrIn, OpenRead, GetEdge, GetByte,
         CloseRead, DdrOut, ClkHigh, Finish, AbortIdle, AmigaStep, ghosts
<1> SUFFICES ASSUME clean, clean' PROVE Parts'
  BY <1>0 DEF CleanInv, Parts
<1> USE Edges, Parity, InOrderNext DEF BusInv, AmigaInv, AmigaPlaces, DeviceInv, DevicePlaces,
    CleanInv, QuietInv, ServedInv, ReadInv, WriteInv, DataInv, Parts, Quiet,
    AmigaStep, deviceVars, ghosts, Answering, EdgesLeft
<1>1. CASE ClkLow
  BY <1>1 DEF ClkLow
<1>2. CASE InSync
  BY <1>2 DEF InSync
<1>3. CASE PutByte
  <2>1. QuietInv'
    BY <1>3 DEF PutByte
  <2>2. ServedInv'
    BY <1>3 DEF PutByte
  <2>3. ReadInv'
    BY <1>3 DEF PutByte
  <2>4. WriteInv'
    <3>1. /\ apc = "work" /\ ~Answering /\ apc' = "edge" /\ Writes(acmd)
          /\ ai < Bytes(acmd) /\ UNCHANGED <<dpc, dcmd, di, ai>>
      BY <1>3 DEF PutByte
    <3>2. ASSUME ~Reads(dcmd), dpc = "bytes" PROVE di = ai
      <4>1. di < Bytes(dcmd) => ~EdgeSeen
        BY <3>1, <3>2
      <4>2. di \in Nat /\ Bytes(dcmd) \in Nat /\ di <= Bytes(dcmd)
        BY <3>2
      <4>3. CASE di = Bytes(dcmd)
        <5>1. ai = Bytes(dcmd) /\ dcmd = acmd
          BY <3>1, <3>2, <4>3, WriteEdges
        <5> QED BY <3>1, <4>2, <5>1
      <4>4. CASE di < Bytes(dcmd)
        BY <3>2, <4>1, <4>4, WriteEdges
      <4> QED BY <4>2, <4>3, <4>4
    <3>3. ~Reads(dcmd) => dpc \notin {"hung", "end"}
      BY <3>1
    <3> QED BY <3>1, <3>2, <3>3
  <2>5. DataInv'
    BY <1>3 DEF PutByte
  <2> QED BY <2>1, <2>2, <2>3, <2>4, <2>5
<1>4. CASE PutEdge
  BY <1>4 DEF PutEdge
<1>5. CASE DdrIn
  BY <1>5 DEF DdrIn
<1>6. CASE OpenRead
  BY <1>6 DEF OpenRead
<1>7. CASE GetEdge
  <2>1. QuietInv'
    BY <1>7 DEF GetEdge
  <2>2. ServedInv'
    BY <1>7 DEF GetEdge
  <2>3. ReadInv'
    <3>1. /\ apc = "work" /\ ~Answering /\ apc' = "get" /\ Reads(acmd) /\ ~aout
          /\ UNCHANGED <<dpc, dcmd, di, aout, ai>>
      BY <1>7 DEF GetEdge
    <3>2. Reads(dcmd) => dpc \notin {"hung", "end"}
      BY <3>1
    <3>3. dpc # "turn"
      BY <3>1
    <3> QED BY <3>1, <3>2, <3>3
  <2>4. WriteInv'
    BY <1>7 DEF GetEdge
  <2>5. DataInv'
    BY <1>7 DEF GetEdge
  <2> QED BY <2>1, <2>2, <2>3, <2>4, <2>5
<1>8. CASE GetByte
  <2>1. QuietInv'
    BY <1>8 DEF GetByte
  <2>2. ServedInv'
    BY <1>8 DEF GetByte
  <2>3. ReadInv'
    BY <1>8 DEF GetByte
  <2>4. WriteInv'
    BY <1>8 DEF GetByte
  <2>5. DataInv'
    <3>1. /\ apc = "get" /\ ~Answering /\ apc' = "work" /\ ai' = ai + 1
          /\ got' = Append(got, OnLines) /\ Reads(acmd) /\ got = InOrder(ai)
          /\ UNCHANGED <<dpc, dcmd, di, acmd, taken>>
      BY <1>8 DEF GetByte
    <3>2. dpc = "bytes" /\ dcmd = acmd
      BY <3>1
    <3>3. di = ai + 1 /\ ddata = di /\ dout /\ ~aout
      <4>1. ~EdgeSeen
        BY <3>1, <3>2
      <4> QED BY <3>1, <3>2, <4>1, ReadEdges
    <3>4. OnLines = ai + 1
      BY <3>3 DEF OnLines
    <3>5. got' = InOrder(ai')
      BY <3>1, <3>4
    <3> QED BY <3>1, <3>2, <3>5
  <2> QED BY <2>1, <2>2, <2>3, <2>4, <2>5
<1>9. CASE CloseRead
  BY <1>9 DEF CloseRead
<1>10. CASE DdrOut
  <2>1. QuietInv'
    BY <1>10 DEF DdrOut
  <2>2. ServedInv'
    BY <1>10 DEF DdrOut
  <2>3. ReadInv'
    <3>1. /\ apc = "close" /\ ~Answering /\ apc' = "raise"
          /\ UNCHANGED <<dpc, dcmd, di>>
      BY <1>10 DEF DdrOut
    <3>2. ~(Reads(dcmd) /\ dpc = "bytes")
      BY <3>1, ReadEdges
    <3> QED BY <3>1, <3>2
  <2>4. WriteInv'
    BY <1>10 DEF DdrOut
  <2>5. DataInv'
    BY <1>10 DEF DdrOut
  <2> QED BY <2>1, <2>2, <2>3, <2>4, <2>5
<1>11. CASE ClkHigh
  <2>1. QuietInv'
    BY <1>11 DEF ClkHigh
  <2>2. ServedInv'
    BY <1>11 DEF ClkHigh
  <2>3. ReadInv'
    BY <1>11 DEF ClkHigh
  <2>4. WriteInv'
    <3>1. /\ apc \in {"work", "raise"} /\ ~Answering /\ apc' = "end"
          /\ (apc = "work" => ~Reads(acmd) /\ ai = Bytes(acmd))
          /\ UNCHANGED <<dpc, dcmd, di>>
      BY <1>11 DEF ClkHigh
    <3>2. ASSUME ~Reads(dcmd), dpc = "bytes" PROVE di = Bytes(dcmd)
      <4>1. apc = "work" /\ dcmd = acmd
        BY <3>1, <3>2
      <4>2. di < Bytes(dcmd) => EdgeSeen
        BY <3>1, <3>2, <4>1, WriteEdges
      <4>3. ~(di < Bytes(dcmd) /\ EdgeSeen)
        BY <3>1, <3>2
      <4>4. di \in Nat /\ Bytes(dcmd) \in Nat /\ di <= Bytes(dcmd)
        BY <3>2
      <4>5. ~(di < Bytes(dcmd))
        BY <4>2, <4>3
      <4> QED BY <4>4, <4>5
    <3> QED BY <3>1, <3>2
  <2>5. DataInv'
    BY <1>11 DEF ClkHigh
  <2> QED BY <2>1, <2>2, <2>3, <2>4, <2>5
<1>12. CASE Finish
  BY <1>12 DEF Finish
<1>13. CASE AbortIdle
  <2>1. QuietInv'
    BY <1>13 DEF AbortIdle
  <2>2. ServedInv'
    BY <1>13 DEF AbortIdle
  <2>3. ReadInv'
    BY <1>13 DEF AbortIdle
  <2>4. WriteInv'
    BY <1>13 DEF AbortIdle
  <2>5. DataInv'
    BY <1>13 DEF AbortIdle
  <2> QED BY <2>1, <2>2, <2>3, <2>4, <2>5
<1> QED BY <1>1, <1>2, <1>3, <1>4, <1>5, <1>6, <1>7, <1>8, <1>9, <1>10, <1>11, <1>12, <1>13 DEF AmigaWorks

LEMMA DeviceClean ==
  ASSUME BusInv, DeviceWorks \/ Watchdog \/ Hang \/ ToggleBusy
  PROVE  CleanInv'
<1>0. UNCHANGED clean
  BY DEF DeviceWorks, BootPorts, EarlyExit, KnokBail, SeesClk, GetCommand, RakLow, TurnOut,
         SendByte, TurnIn, TakeByte, Deliver, End, Watchdog, Hang, ToggleBusy, DeviceStep
<1> SUFFICES ASSUME clean, clean' PROVE Parts'
  BY <1>0 DEF CleanInv, Parts
<1> USE Edges, Parity, InOrderNext DEF BusInv, AmigaInv, AmigaPlaces, DeviceInv, DevicePlaces,
    CleanInv, QuietInv, ServedInv, ReadInv, WriteInv, DataInv, Parts, Quiet,
    DeviceStep, amigaVars, Performed
<1>1. CASE BootPorts
  BY <1>1 DEF BootPorts
<1>2. CASE EarlyExit
  BY <1>2 DEF EarlyExit
<1>3. CASE KnokBail
  BY <1>3 DEF KnokBail
<1>4. CASE SeesClk
  BY <1>4 DEF SeesClk
<1>5. CASE GetCommand
  <2>6. /\ apc = "sync" /\ done = 0 /\ dpc' \in {"handler", "reset"}
        /\ dcmd' = acmd /\ UNCHANGED <<apc, acmd, done>>
    <3>1. dpc = "sampled" /\ \E c \in ReadAsCommand : dcmd' = c /\ dpc' = Dispatch(c)
      BY <1>5 DEF GetCommand
    <3>2. apc = "sync" /\ done = 0 /\ aout /\ ~dout /\ adata = acmd /\ acmd \in Commands
      BY <3>1
    <3>3. ReadAsCommand = {acmd}
      BY <3>2 DEF ReadAsCommand
    <3>4. Dispatch(acmd) \in {"handler", "reset"}
      BY DEF Dispatch
    <3> QED BY <1>5, <3>1, <3>2, <3>3, <3>4 DEF GetCommand
  <2>1. QuietInv'
    BY <1>5 DEF GetCommand
  <2>2. ServedInv'
    BY <2>6
  <2>3. ReadInv'
    BY <2>6
  <2>4. WriteInv'
    BY <2>6
  <2>5. DataInv'
    BY <1>5 DEF GetCommand
  <2> QED BY <2>1, <2>2, <2>3, <2>4, <2>5
<1>6. CASE RakLow
  BY <1>6 DEF RakLow
<1>7. CASE TurnOut
  BY <1>7 DEF TurnOut
<1>8. CASE SendByte
  <2>1. QuietInv'
    BY <1>8 DEF SendByte
  <2>2. ServedInv'
    BY <1>8 DEF SendByte
  <2>3. ReadInv'
    <3>1. dpc = "bytes" /\ Reads(dcmd) /\ di < Bytes(dcmd) /\ EdgeSeen /\ dcmd = acmd
      BY <1>8 DEF SendByte
    <3>2. apc = "get" /\ di = ai /\ ~aout
      BY <3>1, ReadEdges
    <3>3. di' = di + 1 /\ UNCHANGED <<dpc, dcmd, apc, ai, aout>>
      BY <1>8 DEF SendByte
    <3> QED BY <3>1, <3>2, <3>3
  <2>4. WriteInv'
    BY <1>8 DEF SendByte
  <2>5. DataInv'
    BY <1>8 DEF SendByte
  <2> QED BY <2>1, <2>2, <2>3, <2>4, <2>5
<1>9. CASE TurnIn
  <2>1. QuietInv'
    BY <1>9 DEF TurnIn
  <2>2. ServedInv'
    BY <1>9 DEF TurnIn
  <2>3. ReadInv'
    <3>1. dpc = "bytes" /\ Reads(dcmd) /\ di = Bytes(dcmd) /\ EdgeSeen /\ dcmd = acmd
      BY <1>9 DEF TurnIn
    <3>2. apc = "close"
      BY <3>1, ReadEdges
    <3>3. dpc' = "end" /\ apc' = apc
      BY <1>9 DEF TurnIn
    <3> QED BY <3>2, <3>3
  <2>4. WriteInv'
    BY <1>9 DEF TurnIn
  <2>5. DataInv'
    BY <1>9 DEF TurnIn
  <2> QED BY <2>1, <2>2, <2>3, <2>4, <2>5
<1>10. CASE TakeByte
  <2>1. QuietInv'
    BY <1>10 DEF TakeByte
  <2>2. ServedInv'
    BY <1>10 DEF TakeByte
  <2>3. ReadInv'
    BY <1>10 DEF TakeByte
  <2>4. WriteInv'
    <3>1. dpc = "bytes" /\ Writes(dcmd) /\ di < Bytes(dcmd) /\ EdgeSeen /\ dcmd = acmd
      BY <1>10 DEF TakeByte
    <3>2. apc = "work" /\ ai = di + 1
      BY <3>1, WriteEdges
    <3>3. di' = di + 1 /\ UNCHANGED <<dpc, dcmd, apc, ai>>
      BY <1>10 DEF TakeByte
    <3> QED BY <3>1, <3>2, <3>3
  <2>5. DataInv'
    <3>1. dpc = "bytes" /\ Writes(dcmd) /\ di < Bytes(dcmd) /\ EdgeSeen /\ dcmd = acmd
      BY <1>10 DEF TakeByte
    <3>2. apc = "work" /\ ai = di + 1
      BY <3>1, WriteEdges
    <3>3. adata = di + 1 /\ aout /\ ~dout
      BY <3>1, <3>2
    <3>4. OnLines = di + 1
      BY <3>3 DEF OnLines
    <3>5. taken' = Append(InOrder(di), di + 1) /\ di' = di + 1
          /\ UNCHANGED <<dpc, dcmd, apc, ai, acmd, got, res>>
      BY <1>10, <3>1, <3>4 DEF TakeByte
    <3>6. taken' = InOrder(di')
      BY <3>5
    <3> QED BY <3>1, <3>5, <3>6
  <2> QED BY <2>1, <2>2, <2>3, <2>4, <2>5
<1>11. CASE Deliver
  <2>1. QuietInv'
    BY <1>11 DEF Deliver
  <2>2. ServedInv'
    BY <1>11 DEF Deliver
  <2>3. ReadInv'
    BY <1>11 DEF Deliver
  <2>4. WriteInv'
    <3>1. ASSUME ~Reads(dcmd)
          PROVE  dpc = "bytes" /\ di = Bytes(dcmd) /\ dcmd = acmd
      BY <1>11, <3>1 DEF Deliver
    <3>2. ~Reads(dcmd) => /\ apc \in {"sync", "work", "end", "idle"}
                          /\ apc \in {"sync", "work"} => ai = Bytes(dcmd)
      BY <3>1, WriteEdges
    <3>3. dpc' = "end" /\ UNCHANGED <<dcmd, apc, ai>>
      BY <1>11 DEF Deliver
    <3> QED BY <3>2, <3>3
  <2>5. DataInv'
    BY <1>11 DEF Deliver
  <2> QED BY <2>1, <2>2, <2>3, <2>4, <2>5
<1>12. CASE End
  <2>1. QuietInv'
    <3>1. /\ dpc = "end" /\ clk /\ dpc' \in {"reset", "poll"}
          /\ UNCHANGED <<done, apc, acmd, res, dcmd, taken>>
      BY <1>12 DEF End
    <3>2. done = 1 /\ dcmd = acmd /\ (Writes(acmd) => taken = InOrder(Bytes(acmd)))
      BY <3>1
    <3>3. apc \in {"end", "idle"}
      <4>1. Bytes(acmd) % 2 = 0
        OBVIOUS
      <4>2. CASE Reads(acmd)
        BY <3>1, <3>2, <4>2
      <4>3. CASE ~Reads(acmd)
        <5>1. apc = "work" => ~clk
          BY <3>1, <3>2, <4>1, <4>3
        <5> QED BY <3>1, <3>2, <4>3, <5>1
      <4> QED BY <4>2, <4>3
    <3> QED BY <3>1, <3>2, <3>3
  <2>2. ServedInv'
    BY <1>12 DEF End
  <2>3. ReadInv'
    BY <1>12 DEF End
  <2>4. WriteInv'
    BY <1>12 DEF End
  <2>5. DataInv'
    BY <1>12 DEF End
  <2> QED BY <2>1, <2>2, <2>3, <2>4, <2>5
<1>13. CASE Watchdog
  <2>1. QuietInv'
    <3>1. /\ dpc' = "off" /\ mode' = "first"
          /\ UNCHANGED <<done, apc, acmd, res>>
      BY <1>13 DEF Watchdog
    <3>2. CASE dpc = "reset"
      BY <3>1, <3>2
    <3>3. CASE dpc = "hung" /\ ~Clocking
      <4>1. done = 0 /\ (apc = "sync" \/ (apc \in {"end", "idle"} /\ ~Reads(acmd)))
        BY <3>3 DEF Clocking
      <4> QED BY <3>1, <4>1
    <3>4. ~(dpc \in {"turn", "bytes", "end"} /\ Waiting /\ ~Clocking)
      <4> SUFFICES ASSUME dpc \in {"turn", "bytes", "end"}, Waiting, ~Clocking PROVE FALSE
        OBVIOUS
      <4>1. ~rak /\ apc \in {"end", "idle"} /\ clk
        BY DEF Clocking
      <4>2. dpc \notin {"turn", "end"}
        BY <4>1 DEF Waiting, EdgesLeft
      <4>3. dpc = "bytes" /\ (Reads(dcmd) \/ di < Bytes(dcmd))
        BY <4>2 DEF Waiting, EdgesLeft
      <4>4. ~Reads(dcmd)
        BY <4>1, <4>3
      <4> QED BY <4>1, <4>3, <4>4, WriteEdges
    <3> QED BY <1>13, <3>2, <3>3, <3>4 DEF Watchdog, Waiting
  <2>2. ServedInv'
    BY <1>13 DEF Watchdog
  <2>3. ReadInv'
    BY <1>13 DEF Watchdog
  <2>4. WriteInv'
    BY <1>13 DEF Watchdog
  <2>5. DataInv'
    BY <1>13 DEF Watchdog
  <2> QED BY <2>1, <2>2, <2>3, <2>4, <2>5
<1>14. CASE Hang
  <2>1. QuietInv'
    BY <1>14 DEF Hang
  <2>2. ServedInv'
    BY <1>14 DEF Hang
  <2>3. ReadInv'
    BY <1>14 DEF Hang
  <2>4. WriteInv'
    <3>1. ASSUME ~Reads(dcmd)
          PROVE  dpc = "bytes" /\ di = Bytes(dcmd) /\ dcmd = acmd
      BY <1>14, <3>1 DEF Hang
    <3>2. ~Reads(dcmd) => /\ apc \in {"sync", "work", "end", "idle"}
                          /\ apc \in {"sync", "work"} => ai = Bytes(dcmd)
      BY <3>1, WriteEdges
    <3>3. dpc' = "hung" /\ UNCHANGED <<dcmd, apc, ai>>
      BY <1>14 DEF Hang
    <3> QED BY <3>2, <3>3
  <2>5. DataInv'
    BY <1>14 DEF Hang
  <2> QED BY <2>1, <2>2, <2>3, <2>4, <2>5
<1>15. CASE ToggleBusy
  BY <1>15 DEF ToggleBusy
<1> QED BY <1>1, <1>2, <1>3, <1>4, <1>5, <1>6, <1>7, <1>8, <1>9, <1>10, <1>11, <1>12, <1>13, <1>14, <1>15 DEF DeviceWorks

(* Giving up leaves a device that is done or has taken nothing.             *)
LEMMA GivesUpClean ==
  ASSUME BusInv, AmigaGivesUp
  PROVE  CleanInv'
<1>1. CASE Abort
  <2>1. /\ apc = "sync" /\ rak /\ apc' = "abort" /\ clean' = (clean /\ ~Serving)
        /\ UNCHANGED <<acmd, ai, aout, got, done, deviceVars>>
    BY <1>1 DEF Abort
  <2>2. clean' => clean /\ Quiet
    BY <2>1 DEF BusInv, DeviceInv, DevicePlaces, Serving, Quiet
  <2> QED BY <2>1, <2>2 DEF BusInv, CleanInv, QuietInv, ServedInv, ReadInv, WriteInv,
             DataInv, Quiet, deviceVars
<1>2. CASE EndTimeout
  <2>1. /\ apc = "end" /\ ~rak /\ apc' = "idle" /\ res' = "TIMEOUT"
        /\ UNCHANGED <<acmd, ai, aout, got, done, clean, deviceVars>>
    BY <1>2 DEF EndTimeout
  <2> QED BY <2>1 DEF BusInv, DeviceInv, CleanInv, QuietInv, ServedInv, ReadInv, WriteInv,
             DataInv, Quiet, deviceVars
<1> QED BY <1>1, <1>2 DEF AmigaGivesUp

LEMMA OthersClean ==
  ASSUME BusInv, Recover \/ UNCHANGED vars
  PROVE  CleanInv'
<1>1. UNCHANGED <<apc, acmd, ai, adata, aout, clk, got, res, deviceVars, done, clean>>
  BY DEF Recover, vars, amigaVars, ghosts
<1> QED BY <1>1 DEF BusInv, CleanInv, QuietInv, ServedInv, ReadInv, WriteInv, DataInv,
           Quiet, deviceVars

------------------------------------------------------------------------------
(* The theorems.                                                            *)

LEMMA BusInit ==
  ASSUME Init
  PROVE  BusInv
<1>1. AmigaInv
  BY DEF Init, AmigaInv, AmigaPlaces
<1>2. DeviceInv
  BY DEF Init, DeviceInv, DevicePlaces
<1>3. CleanInv /\ AnswerInv
  BY DEF Init, CleanInv, QuietInv, ServedInv, ReadInv, WriteInv, DataInv, Quiet, AnswerInv,
     Answered
<1> QED BY <1>1, <1>2, <1>3 DEF BusInv, Init

LEMMA AnswerStep ==
  ASSUME BusInv, [Next]_vars
  PROVE  AnswerInv'
<1> USE DEF BusInv, AnswerInv, Answered
<1>1. CASE StartSome
  <2>1. PICK c \in Commands : Start(c)
    BY <1>1 DEF StartSome
  <2>2. CASE res' = "PENDING"
    <3>1. rak /\ apc' = "ready" /\ UNCHANGED deviceVars
      BY <2>1, <2>2 DEF Start, StartChecked
    <3> QED BY <3>1 DEF DeviceInv, deviceVars
  <2>3. CASE res' # "PENDING"
    <3>1. apc' = "idle" /\ res' # "OK" /\ UNCHANGED <<done, deviceVars>>
      BY <2>1, <2>3 DEF Start, StartChecked
    <3> QED BY <3>1 DEF deviceVars
  <2> QED BY <2>2, <2>3
<1>2. CASE AmigaWorks
  <2>1. UNCHANGED <<done, deviceVars>>
    BY <1>2 DEF AmigaWorks, ClkLow, InSync, PutByte, PutEdge, DdrIn, OpenRead, GetEdge,
       GetByte, CloseRead, DdrOut, ClkHigh, Finish, AbortIdle, AmigaStep, ghosts
  <2>2. CASE InSync \/ Finish
    BY <2>1, <2>2 DEF InSync, Finish, DeviceInv, DevicePlaces, deviceVars
  <2>3. CASE ClkLow \/ AbortIdle
    BY <2>1, <2>3 DEF ClkLow, AbortIdle, AmigaInv, deviceVars
  <2>4. CASE \/ PutByte \/ PutEdge \/ DdrIn \/ OpenRead \/ GetEdge \/ GetByte
             \/ CloseRead \/ DdrOut \/ ClkHigh
    <3>1. apc \in Answered /\ apc' \in Answered
      BY <2>4 DEF PutByte, PutEdge, DdrIn, OpenRead, GetEdge, GetByte, CloseRead, DdrOut,
         ClkHigh
    <3> QED BY <2>1, <3>1 DEF deviceVars
  <2> QED BY <1>2, <2>2, <2>3, <2>4 DEF AmigaWorks
<1>3. CASE AmigaGivesUp
  BY <1>3 DEF AmigaGivesUp, Abort, EndTimeout, deviceVars
<1>4. CASE Recover \/ UNCHANGED vars
  BY <1>4 DEF Recover, vars, amigaVars, deviceVars, ghosts
<1>5. CASE DeviceWorks \/ Watchdog \/ Hang \/ ToggleBusy
  <2>1. UNCHANGED <<apc, res>>
    BY <1>5 DEF DeviceWorks, BootPorts, EarlyExit, KnokBail, SeesClk, GetCommand, RakLow,
       TurnOut, SendByte, TurnIn, TakeByte, Deliver, End, Watchdog, Hang, ToggleBusy,
       DeviceStep, amigaVars
  <2>2. CASE TurnIn \/ Deliver
    BY <2>1, <2>2 DEF TurnIn, Deliver, Performed
  <2>3. CASE Watchdog
    BY <2>1, <2>3 DEF Watchdog
  <2>4. CASE End
    BY <2>1, <2>4 DEF End
  <2>5. CASE Hang
    BY <2>1, <2>5 DEF Hang
  <2>6. CASE \/ BootPorts \/ EarlyExit \/ KnokBail \/ SeesClk \/ GetCommand \/ RakLow
             \/ ToggleBusy
    BY <2>1, <2>6 DEF BootPorts, EarlyExit, KnokBail, SeesClk, GetCommand, Dispatch,
       RakLow, ToggleBusy
  <2>7. CASE TurnOut \/ SendByte \/ TakeByte
    BY <2>1, <2>7 DEF TurnOut, SendByte, TakeByte
  <2> QED BY <1>5, <2>2, <2>3, <2>4, <2>5, <2>6, <2>7 DEF DeviceWorks
<1> QED BY <1>1, <1>2, <1>3, <1>4, <1>5 DEF Next

LEMMA BusStep ==
  ASSUME BusInv, [Next]_vars
  PROVE  BusInv'
<1>1. done' \in Nat /\ clean' \in BOOLEAN
  <2>1. done \in Nat /\ clean \in BOOLEAN
    BY DEF BusInv
  <2>2. CASE StartSome
    <3>1. PICK c \in Commands : Start(c)
      BY <2>2 DEF StartSome
    <3>2. /\ done' = 0 \/ done' = done
          /\ clean' = (clean \/ ~Serving) \/ clean' = clean
      BY <3>1 DEF Start, StartChecked
    <3>3. done' \in Nat
      BY <2>1, <3>2
    <3>4. clean' \in BOOLEAN
      BY <2>1, <3>2
    <3> QED BY <3>3, <3>4
  <2>3. CASE AmigaWorks \/ Recover \/ UNCHANGED vars
    BY <2>1, <2>3 DEF AmigaWorks, ClkLow, InSync, PutByte, PutEdge, DdrIn, OpenRead, GetEdge,
       GetByte, CloseRead, DdrOut, ClkHigh, Finish, AbortIdle, AmigaStep, ghosts, Recover, vars
  <2>4. CASE AmigaGivesUp
    BY <2>1, <2>4 DEF AmigaGivesUp, Abort, EndTimeout
  <2>5. CASE DeviceWorks \/ Watchdog \/ Hang \/ ToggleBusy
    BY <2>1, <2>5 DEF DeviceWorks, BootPorts, EarlyExit, KnokBail, SeesClk, GetCommand, RakLow,
       TurnOut, SendByte, TurnIn, TakeByte, Deliver, End, Watchdog, Hang, ToggleBusy,
       DeviceStep, Performed
  <2> QED BY <2>2, <2>3, <2>4, <2>5 DEF Next
<1>2. CASE StartSome \/ AmigaWorks \/ AmigaGivesUp \/ Recover
  <2>1. UNCHANGED deviceVars
    BY <1>2 DEF StartSome, Start, AmigaWorks, ClkLow, InSync, PutByte, PutEdge, DdrIn,
       OpenRead, GetEdge, GetByte, CloseRead, DdrOut, ClkHigh, Finish, AbortIdle, AmigaStep,
       AmigaGivesUp, Abort, EndTimeout, Recover
  <2>2. AmigaInv' /\ DeviceInv'
    BY <1>2, <2>1, AmigaSteps, DeviceWaits DEF BusInv
  <2> QED BY <1>1, <1>2, <2>2, AnswerStep, StartClean, AmigaClean, GivesUpClean, OthersClean DEF BusInv
<1>3. CASE DeviceWorks \/ Watchdog \/ Hang \/ ToggleBusy
  <2>1. UNCHANGED amigaVars
    BY <1>3 DEF DeviceWorks, BootPorts, EarlyExit, KnokBail, SeesClk, GetCommand, RakLow,
       TurnOut, SendByte, TurnIn, TakeByte, Deliver, End, Watchdog, Hang, ToggleBusy, DeviceStep
  <2>2. AmigaInv' /\ DeviceInv'
    BY <1>3, <2>1, DeviceSteps, AmigaWaits DEF BusInv
  <2> QED BY <1>1, <1>3, <2>2, AnswerStep, DeviceClean DEF BusInv
<1>4. CASE UNCHANGED vars
  <2>1. AmigaInv' /\ DeviceInv'
    BY <1>4, AmigaWaits, DeviceWaits DEF vars, BusInv
  <2> QED BY <1>1, <1>4, <2>1, AnswerStep, OthersClean DEF BusInv
<1> QED BY <1>2, <1>3, <1>4 DEF Next

LEMMA BusInvariant == Spec => []BusInv
  BY BusInit, BusStep, PTL DEF Spec

(* The ports of both peers never drive the lines against each other, as     *)
(* long as the Amiga does not give up on a command that the device has      *)
(* taken, and again from the first attempt on that finds the device without *)
(* a command.                                                               *)
THEOREM PortsApart == Spec => []NoContention
<1>1. BusInv => NoContention
  BY DEF BusInv, DeviceInv, CleanInv, ReadInv, NoContention
<1> QED BY <1>1, BusInvariant, PTL

(* Always: no command ends well unless the device carried out one meanwhile *)
(* or was reset.  And unless it was sent while the device was still at a    *)
(* command that the Amiga had given up on: a command that ends well was     *)
(* carried out once by a device that took this command, its bytes in order  *)
(* and untorn in both directions, or the device restarted in its handler;   *)
(* whatever the command, its size, the timeouts before it, and the place    *)
(* where the device was reset.                                              *)
THEOREM OkWasDone == Spec => []OkMeansDone
<1>1. BusInv => OkMeansDone
  <2> SUFFICES ASSUME BusInv, apc = "idle", res = "OK", clean
               PROVE  OkMeansDone
    BY DEF OkMeansDone, BusInv, AnswerInv
  <2>1. Reads(acmd) => got = InOrder(Bytes(acmd))
    BY DEF BusInv, CleanInv, DataInv
  <2>2. Quiet
    <3>1. dpc \notin {"sampled", "handler", "hung", "bytes", "end"}
      BY DEF BusInv, CleanInv, ServedInv
    <3>2. dpc # "turn"
      BY DEF BusInv, DeviceInv, CleanInv, ReadInv
    <3> QED BY <3>1, <3>2 DEF BusInv, DeviceInv, DevicePlaces, Quiet
  <2>3. \/ /\ done = 1
           /\ Writes(acmd) /\ mode = "run"
                => dcmd = acmd /\ taken = InOrder(Bytes(acmd))
        \/ done = 0 /\ ~Reads(acmd) /\ mode = "first"
    BY <2>2 DEF BusInv, CleanInv, QuietInv
  <2> QED BY <2>1, <2>3 DEF OkMeansDone, BusInv, AnswerInv
<1> QED BY <1>1, BusInvariant, PTL

(* The device carries out a command while the Amiga asks for this command,  *)
(* or has given up waiting for its end, and carries it out once: it never   *)
(* takes a byte of data, an earlier command or the same command again for   *)
(* one.  That is as long as the Amiga does not give up on a command that    *)
(* the device has taken, and again from the first attempt on that finds the *)
(* device without a command.                                                *)
THEOREM CarriedOutAsAsked == Spec => CarriesOutWhatIsAsked
<1>1. ASSUME BusInv, [Next]_vars, clean, done' > done
      PROVE  /\ done' = 1 /\ dcmd = acmd
             /\ \/ apc \in {"sync", "work", "close", "end"}
                \/ apc = "idle" /\ res # "OK"
  <2>1. done \in Nat
    BY <1>1 DEF BusInv
  <2>2. TurnIn \/ Deliver
    <3>1. ~StartSome
      <4>1. ~(done' = 0 \/ done' = done)
        BY <1>1, <2>1
      <4> QED BY <4>1 DEF StartSome, Start, StartChecked
    <3>2. AmigaWorks \/ AmigaGivesUp \/ Recover \/ UNCHANGED vars => UNCHANGED done
      BY DEF AmigaWorks, ClkLow, InSync, PutByte, PutEdge, DdrIn, OpenRead, GetEdge,
         GetByte, CloseRead, DdrOut, ClkHigh, Finish, AbortIdle, AmigaStep, ghosts, Recover,
         vars, AmigaGivesUp, Abort, EndTimeout
    <3>3. ~(BootPorts \/ EarlyExit \/ KnokBail \/ SeesClk \/ GetCommand \/ RakLow \/ TurnOut
            \/ SendByte \/ TakeByte \/ End \/ Watchdog \/ Hang \/ ToggleBusy)
      BY <1>1, <2>1 DEF BootPorts, EarlyExit, KnokBail, SeesClk, GetCommand, RakLow, TurnOut,
         SendByte, TakeByte, End, Watchdog, Hang, ToggleBusy
    <3>4. done' # done
      BY <1>1, <2>1
    <3> QED BY <1>1, <3>1, <3>2, <3>3, <3>4 DEF Next, DeviceWorks
  <2>3. dpc = "bytes" /\ di = Bytes(dcmd) /\ done' = done + 1
        /\ (Reads(dcmd) => EdgeSeen)
    BY <2>2 DEF TurnIn, Deliver, Performed
  <2>4. done = 0 /\ dcmd = acmd
    BY <1>1, <2>3 DEF BusInv, CleanInv, ServedInv
  <2>5. CASE Reads(dcmd)
    <3>1. apc = "close" \/ (apc = "get" /\ di < Bytes(dcmd))
      BY <1>1, <2>3, <2>5, ReadEdges
    <3>2. di \in Nat
      BY <1>1 DEF BusInv, DeviceInv
    <3> QED BY <2>3, <2>4, <3>1, <3>2
  <2>6. CASE ~Reads(dcmd)
    <3>1. apc \in {"sync", "work", "end", "idle"}
      BY <1>1, <2>3, <2>6, WriteEdges
    <3>2. apc = "idle" => res # "OK"
      BY <1>1, <2>3 DEF BusInv, CleanInv, ServedInv
    <3> QED BY <2>3, <2>4, <3>1, <3>2
  <2> QED BY <2>5, <2>6
<1>2. BusInv /\ [Next]_vars =>
        [(clean /\ done' > done) => /\ done' = 1
                                   /\ dcmd = acmd
                                   /\ \/ apc \in {"sync", "work", "close", "end"}
                                      \/ apc = "idle" /\ res # "OK"]_vars
  BY <1>1
<1> QED BY <1>2, BusInvariant, PTL DEF Spec, CarriesOutWhatIsAsked

==============================================================================
