------------------------------ MODULE EncRing -------------------------------
(***************************************************************************)
(* The driver of the Ethernet chip ENC28J60 (mcu/src/driver/enc28j60): the *)
(* ring the chip fills with the frames it receives, from which the driver  *)
(* takes them one by one, and the buffer of the frame that is sent.        *)
(*                                                                         *)
(* A received frame starts at an even address with a header that says      *)
(* where the next one starts.  The driver keeps that address, and tells    *)
(* the chip where the part ends that it may write.  The chip runs between  *)
(* any two calls, and before and after the wait of a call that sends.      *)
(*                                                                         *)
(* The registers of the chip are in four banks.  The driver remembers      *)
(* which one it selected; a soft reset of the chip selects the first.      *)
(***************************************************************************)
EXTENDS Integers, Sequences, FiniteSetsExt

CONSTANTS
  RxStop,    \* RXSTOP_INIT; RXSTART_INIT is 0
  RamEnd,    \* RAM_END: what a pointer register of the chip can hold
  Hdr,       \* 6, the bytes of a header
  Crc,       \* 4, the bytes of the checksum behind the data
  Frames,    \* frames on the line: a name and the number of bytes
  MaxRead,   \* the size of the caller's buffer
  MaxQueue   \* bound: frames in the ring

EncAssumption ==
  /\ {RxStop, RamEnd, Hdr, Crc, MaxRead} \subseteq Nat
  /\ RxStop % 2 = 1 /\ RxStop < RamEnd /\ RamEnd < 65536
  /\ Hdr # 0 /\ Hdr % 2 = 0
  /\ \A f \in Frames : f[2] \in Nat

VARIABLES
  cpu,      \* "avr" or "mk20": an int has 16 or 32 bits
  eth,      \* the driver: "down" (not set up), "up" (set up and enabled),
            \* "off" (disabled) or "read" (between recv_begin and recv_end)
  bank,     \* the bank the chip has selected, and Enc28j60Bank
  ring,     \* what the receive buffer of the chip holds
  chip,     \* ERXWRPT, ERXRDPT and ERDPT
  gNextPacketPtr,
  left,     \* bytes that recv_data has still to read
  got,      \* what the last call read, and what it should have read
  queue,    \* EPKTCNT counts these: the frames in the ring, oldest first
  tx        \* TXRTS, and whether a call that sends has filled the buffer

encVars == <<cpu, eth, bank, ring, chip, gNextPacketPtr, left, got, queue, tx>>
receiver == <<ring, chip, gNextPacketPtr, left, queue>>

Ring == 0 .. RxStop
(* The banks of registers, by those that an access meets first or last.     *)
BankOf == [ECON1 |-> 0, ERXST |-> 0, EPKTCNT |-> 1,
           MIREGADR |-> 2, MIRD |-> 2, MISTAT |-> 3, MAADR |-> 3,
           EREVID |-> 3, EFLOCON |-> 3]
Plus(p, n) == (p + n) % (RxStop + 1)
Old == <<"old">>
Reset == [wr |-> 0, rd |-> 0, erd |-> 0]
Quiet == [rts |-> FALSE, filled |-> FALSE]
Nothing == [data |-> <<>>, owed |-> <<>>]

Init ==
  /\ cpu \in {"avr", "mk20"} /\ eth = "down"
  /\ bank = [chip |-> 0, driver |-> 0]
  /\ ring = [p \in Ring |-> Old] /\ chip = Reset /\ gNextPacketPtr = 0
  /\ left = 0 /\ got = Nothing /\ queue = <<>>
  /\ tx = Quiet

(* A mutant: the copy changes and the register does not.                    *)
SelectCopy(b, k) == IF b.driver = k THEN b ELSE [b EXCEPT !.driver = k]

(* SetBank: what an access to a register of bank k does to b.  ECON1, ESTAT *)
(* and the others that are in every bank are meant to be in the first.      *)
Select(b, k) ==
  IF b.driver = k THEN b ELSE [chip |-> k, driver |-> k]

(* A call that touches registers of the first bank last, or only.           *)
InFirstBank == bank' = Select(bank, BankOf.ECON1)

(* The ghost, at a call that reads no packet.                               *)
ReadsNothing == got' = IF eth = "read" THEN got ELSE Nothing

-------------------------------------------------------------------------------
(* The chip.  It writes no frame past ERXRDPT but drops it; one with a      *)
(* wrong checksum may be written, and its status says so.                   *)
Room ==
  IF chip.wr > chip.rd THEN RxStop - (chip.wr - chip.rd)
  ELSE IF chip.wr = chip.rd THEN RxStop
  ELSE chip.rd - chip.wr - 1

Data(f) == [i \in 1 .. f[2] |-> <<"data", f[1], i>>]

Arrives(f, ok) ==
  LET n == Hdr + f[2] + Crc
      next == Plus(chip.wr, n + (n % 2))
      Cell(i) == IF i = 0 THEN <<"hdr", next, f[2] + Crc, ok>>
                 ELSE IF i \in Hdr .. Hdr + f[2] - 1 THEN Data(f)[i - Hdr + 1]
                 ELSE Old
  IN /\ eth \in {"up", "read"} /\ Len(queue) < MaxQueue
     /\ n + (n % 2) <= Room
     /\ ring' = [p \in Ring |->
                   LET i == (p - chip.wr) % (RxStop + 1)
                   IN IF i < n THEN Cell(i) ELSE ring[p]]
     /\ chip' = [chip EXCEPT !.wr = next]
     /\ queue' = Append(queue, f)
     /\ UNCHANGED <<cpu, eth, bank, gNextPacketPtr, left, got, tx>>

(* The frame in the buffer is sent, or given up (TXERIF).                   *)
Transmitted ==
  /\ tx.rts
  /\ tx' = [tx EXCEPT !.rts = FALSE]
  /\ UNCHANGED <<cpu, eth, bank, receiver, got>>

-------------------------------------------------------------------------------
(* enc28j60_init: the soft reset, and a look at EREVID in the last bank,    *)
(* which reads another register when the driver believes to be there.       *)
InitChip ==
  /\ eth \in {"down", "up", "off"}
  /\ eth' = "down"
  /\ bank' = Select([bank EXCEPT !.chip = 0], BankOf.EREVID)
  /\ chip' = Reset
  /\ queue' = <<>> /\ tx' = Quiet
  /\ ReadsNothing
  /\ UNCHANGED <<cpu, ring, gNextPacketPtr, left>>

(* enc28j60_setup, whose first pointer is in the first bank, which also     *)
(* goes through the others and ends in it, and enc28j60_enable.             *)
Setup ==
  /\ eth = "down"
  /\ eth' = "up"
  /\ bank' = Select(Select(Select(bank, BankOf.ERXST), BankOf.MAADR), BankOf.ECON1)
  /\ gNextPacketPtr' = 0
  /\ ReadsNothing
  /\ UNCHANGED <<cpu, ring, chip, left, queue, tx>>

(* enc28j60_disable: what is in the ring can still be read.                 *)
Disable ==
  /\ eth = "up"
  /\ eth' = "off"
  /\ InFirstBank /\ ReadsNothing
  /\ UNCHANGED <<cpu, receiver, tx>>

(* enc28j60_get_pending_packets, enc28j60_is_link_up by way of the three    *)
(* registers for the PHY, and enc28j60_flow_control.                        *)
GetPending == bank' = Select(bank, BankOf.EPKTCNT)
IsLinkUp ==
  bank' = Select(Select(Select(bank, BankOf.MIREGADR), BankOf.MISTAT), BankOf.MIRD)
FlowControl == eth # "down" /\ bank' = Select(bank, BankOf.EFLOCON)

LooksElsewhere ==
  /\ GetPending \/ IsLinkUp \/ FlowControl
  /\ ReadsNothing
  /\ UNCHANGED <<cpu, eth, receiver, tx>>

(* A mutant: the address before the first one is not looked for.            *)
FreeEndNoWrap(next) == (next - 1) % (RamEnd + 1)

(* next_pkt: the address before the next packet.  In an int of 32 bits -1   *)
(* is not larger than RXSTOP_INIT, and the register gets all ones.          *)
FreeEnd(next) ==
  LET before == IF cpu = "avr" THEN (next - 1) % 65536 ELSE next - 1
  IN IF before > RxStop THEN RxStop ELSE before % (RamEnd + 1)

(* A packet is pending, and there is a header where the driver looks.       *)
Header == ring[gNextPacketPtr]
Pending == queue # <<>> /\ Header[1] = "hdr"
GotSize == Header[3] - Crc
Ok == Header[4]

Owed(n) == LET f == Head(queue) IN SubSeq(Data(f), 1, Min({n, f[2]}))
ReadBuf(p, n) == [i \in 1 .. n |-> ring[Plus(p, i - 1)]]

(* enc28j60_recv.                                                           *)
Recv ==
  LET start == Plus(gNextPacketPtr, Hdr)
      len == IF Ok THEN Min({GotSize, MaxRead}) ELSE 0
  IN /\ eth \in {"up", "off"} /\ Pending
     /\ got' = [data |-> ReadBuf(start, len),
                owed |-> Owed(len)]
     /\ gNextPacketPtr' = Header[2]
     /\ chip' = [chip EXCEPT !.rd = FreeEnd(Header[2]), !.erd = Plus(start, len)]
     /\ queue' = Tail(queue)
     /\ InFirstBank
     /\ UNCHANGED <<cpu, eth, ring, left, tx>>

(* enc28j60_recv_begin, which frees a packet with an error at once.         *)
RecvBegin ==
  /\ eth = "up" /\ Pending
  /\ gNextPacketPtr' = Header[2]
  /\ got' = Nothing
  /\ IF Ok
     THEN /\ eth' = "read" /\ left' = GotSize
          /\ chip' = [chip EXCEPT !.erd = Plus(gNextPacketPtr, Hdr)]
          /\ UNCHANGED queue
     ELSE /\ chip' = [chip EXCEPT !.rd = FreeEnd(Header[2]),
                                  !.erd = Plus(gNextPacketPtr, Hdr)]
          /\ queue' = Tail(queue)
          /\ UNCHANGED <<eth, left>>
  /\ InFirstBank
  /\ UNCHANGED <<cpu, ring, tx>>

RecvData(n) ==
  /\ eth = "read" /\ n <= left
  /\ left' = left - n
  /\ chip' = [chip EXCEPT !.erd = Plus(@, n)]
  /\ got' = [data |-> got.data \o ReadBuf(chip.erd, n),
             owed |-> Owed(Len(got.data) + n)]
  /\ UNCHANGED <<cpu, eth, bank, ring, gNextPacketPtr, queue, tx>>

RecvEnd ==
  /\ eth = "read"
  /\ eth' = "up" /\ left' = 0
  /\ chip' = [chip EXCEPT !.rd = FreeEnd(gNextPacketPtr)]
  /\ queue' = Tail(queue)
  /\ InFirstBank
  /\ UNCHANGED <<cpu, ring, gNextPacketPtr, got, tx>>

-------------------------------------------------------------------------------
(* enc28j60_send up to its wait, or send_begin and send_data: the buffer is *)
(* filled whether or not its frame is still being sent.                     *)
SendFill ==
  /\ eth # "down" /\ ~tx.filled
  /\ tx' = [tx EXCEPT !.filled = TRUE]
  /\ InFirstBank /\ ReadsNothing
  /\ UNCHANGED <<cpu, eth, receiver>>

(* The rest of it, or send_end.                                             *)
SendStart ==
  /\ tx.filled /\ ~tx.rts
  /\ tx' = [rts |-> TRUE, filled |-> FALSE]
  /\ InFirstBank /\ ReadsNothing
  /\ UNCHANGED <<cpu, eth, receiver>>

Next ==
  \/ \E f \in Frames, ok \in BOOLEAN : Arrives(f, ok)
  \/ Transmitted \/ InitChip \/ Setup \/ Disable \/ LooksElsewhere
  \/ Recv \/ RecvBegin \/ RecvEnd
  \/ \E n \in 1 .. MaxRead : RecvData(n)
  \/ SendFill \/ SendStart

Spec == Init /\ [][Next]_encVars

-------------------------------------------------------------------------------
(* The driver takes the frames in the order in which they came in, each     *)
(* once and whole, however the ring wraps and whenever the chip writes: it  *)
(* reads what the oldest frame holds, and finds the header of the next one  *)
(* where it looks.  Where an int has 32 bits, a packet that starts at 0     *)
(* leaves the ring without protection.                                      *)
FramesAreTakenWhole ==
  cpu = "avr" =>
    /\ got.data = got.owed
    /\ eth # "read" /\ queue # <<>> =>
         Header[1] = "hdr" /\ GotSize = Head(queue)[2]

(* From the setup on a pointer or a command the driver writes reaches the   *)
(* register it is meant for, whichever bank the calls before it left, and   *)
(* however often the chip was reset.  Between a reset and the setup it does *)
(* not: a second enc28j60_init reads the revision from another register.    *)
RegistersAreReached == eth # "down" => bank.chip = bank.driver
===============================================================================
