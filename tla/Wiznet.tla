------------------------------- MODULE Wiznet -------------------------------
(***************************************************************************)
(* The driver of the network chip WIZ820io (mcu/src/driver/wiznet): its    *)
(* sockets, each with a ring for what it receives and one for what it      *)
(* sends.  The chip and the driver address the rings by counters of 16     *)
(* bits, and tell each other by commands how far they have got.  Socket 0  *)
(* carries UDP or, alone, Ethernet frames.                                 *)
(*                                                                         *)
(* The calls that receive or send a packet whole are made of the same      *)
(* steps as those that do it in pieces.  The rings of a socket are taken   *)
(* to be its own, which holds of the first half of the sockets.            *)
(***************************************************************************)
EXTENDS Naturals, Sequences, SequencesExt, FiniteSetsExt

CONSTANTS
  Sockets,    \* 0 .. NUM_SOCKETS - 1
  Mem,        \* MEM_SIZE, a power of 2
  Counters,   \* 65536, the values of a counter
  UdpHdr,     \* 8
  EthHdr,     \* 2
  Packets,    \* packets: a name and the number of bytes
  MaxPackets, \* bound: packets received and sent
  MaxFaults   \* bound: commands that time out

WizAssumption ==
  /\ 0 \in Sockets /\ {Mem, UdpHdr, EthHdr} \subseteq Nat \ {0}
  /\ Counters \in Nat /\ Mem < Counters /\ Counters % Mem = 0
  /\ \A p \in Packets : p[2] \in Nat

VARIABLES
  mode,    \* the mode registers: "closed", "udp" or "eth"
  status,  \* the state of the chip's sockets
  rx,      \* the rings received into: contents, RX_WR, RX_RD, and the RX_RD of
           \* the last RECV
  tx,      \* the rings sent from: contents, TX_WR, TX_RD, and the TX_WR of a
           \* SEND that is under way
  ir,      \* interrupt bits: subsets of {"sent", "timeout"}
  io,      \* the call, or calls, that move a packet
  result,  \* of the last call, with its packet
  packets, \* packets so far
  cmdFaults,
  queue,   \* history: packets in the rings received into
  wire,    \* history: the last packet a socket put on the wire
  sound    \* history: sockets opened without an interrupt left over, whose
           \* commands have all been taken in time since

wizVars == <<mode, status, rx, tx, ir, io, result, packets, cmdFaults, queue,
             wire, sound>>
sockets == <<mode, status>>

Old == <<"old">>
NoPacket == <<"none", 0>>
NoIo == [op |-> "none", sock |-> 0, pkt |-> NoPacket, len |-> 0, data |-> <<>>]
NoResult == [res |-> "none", sock |-> 0, data |-> <<>>, owed |-> <<>>]
Data(p) == [i \in 1 .. p[2] |-> <<"data", p[1], i>>]
EmptyRx == [mem |-> [a \in 0 .. Mem - 1 |-> Old], wr |-> 0, rd |-> 0, recv |-> 0]
EmptyTx == [mem |-> [a \in 0 .. Mem - 1 |-> Old], wr |-> 0, rd |-> 0, upto |-> 0]
Plus(a, n) == (a + n) % Counters
Minus(a, b) == (a + Counters - b) % Counters

(* wiznet_reset and wiznet_init.                                            *)
Init ==
  /\ mode = [s \in Sockets |-> "closed"] /\ status = mode
  /\ rx = [s \in Sockets |-> EmptyRx] /\ tx = [s \in Sockets |-> EmptyTx]
  /\ ir = [s \in Sockets |-> {}]
  /\ io = NoIo /\ result = NoResult
  /\ packets = 0 /\ cmdFaults = 0
  /\ queue = [s \in Sockets |-> <<>>] /\ wire = [s \in Sockets |-> <<>>]
  /\ sound = {}

-------------------------------------------------------------------------------
(* A ring of the socket, as the driver reads and writes it: in two parts    *)
(* when it reaches past the end.                                            *)
At(ptr, i) ==
  LET rel == ptr % Mem
  IN IF rel + i < Mem THEN rel + i ELSE (rel + i) - Mem

Written(mem, ptr, data) ==
  [a \in 0 .. Mem - 1 |->
     IF \E i \in DOMAIN data : At(ptr, i - 1) = a
     THEN data[CHOOSE i \in DOMAIN data : At(ptr, i - 1) = a] ELSE mem[a]]
Read(mem, ptr, n) == [i \in 1 .. n |-> mem[At(ptr, i - 1)]]

HdrSize(s) == IF mode[s] = "eth" THEN EthHdr ELSE UdpHdr

(* The length in front of an Ethernet frame counts itself.                  *)
Counted(s) == IF mode[s] = "eth" THEN EthHdr ELSE 0
Header(s, p) ==
  [i \in 1 .. HdrSize(s) |-> IF i = 1 THEN <<"len", p[2] + Counted(s)>> ELSE Old]

(* wiz_io_get_rx_size, and TX_FREE in wiz_io_get_tx_free.                   *)
RxSize(s) == Minus(rx[s].wr, rx[s].recv)
TxFree(s) == Mem - Minus(tx[s].wr, tx[s].rd)

-------------------------------------------------------------------------------
(* The chip.                                                                *)
Arrives(s, p) ==
  LET bytes == Header(s, p) \o Data(p)
  IN /\ status[s] # "closed" /\ mode[s] = status[s] /\ packets < MaxPackets
     /\ RxSize(s) + Len(bytes) <= Mem
     /\ rx' = [rx EXCEPT ![s].mem = Written(@, rx[s].wr, bytes),
                         ![s].wr = Plus(@, Len(bytes))]
     /\ queue' = [queue EXCEPT ![s] = Append(@, p)]
     /\ packets' = packets + 1
     /\ UNCHANGED <<sockets, tx, ir, io, result, cmdFaults, wire, sound>>

(* The packet is on the wire, or nobody answers its ARP.                    *)
Transmits(s) ==
  /\ tx[s].rd # tx[s].upto
  /\ tx' = [tx EXCEPT ![s].rd = tx[s].upto]
  /\ \/ /\ wire' = [wire EXCEPT ![s] = Read(tx[s].mem, tx[s].rd,
                                             Minus(tx[s].upto, tx[s].rd))]
        /\ ir' = [ir EXCEPT ![s] = @ \union {"sent"}]
     \/ ir' = [ir EXCEPT ![s] = @ \union {"timeout"}] /\ UNCHANGED wire
  /\ UNCHANGED <<sockets, rx, io, result, packets, cmdFaults, queue, sound>>

(* A command that the chip does not take, or takes too late.                *)
CmdFault(s) ==
  /\ cmdFaults < MaxFaults
  /\ cmdFaults' = cmdFaults + 1
  /\ sound' = sound \ {s}

-------------------------------------------------------------------------------
WriteMode(s, m) == mode' = [mode EXCEPT ![s] = m]
WriteIr(s, bits) == ir' = [ir EXCEPT ![s] = bits]

(* wiznet_udp_open of what wiznet_find_free_socket gave; wiznet_eth_open.   *)
FreeSocket(s) == s = Min({t \in Sockets : mode[t] = "closed"})
SocketFor(s, m) == IF m = "udp" THEN FreeSocket(s) ELSE s = 0

Open(s, m) ==
  /\ io = NoIo /\ mode[s] = "closed"
  /\ SocketFor(s, m)
  /\ WriteMode(s, m)
  /\ \/ /\ status' = [status EXCEPT ![s] = m]
        /\ rx' = [rx EXCEPT ![s] = EmptyRx]
        /\ tx' = [tx EXCEPT ![s] = EmptyTx]
        /\ queue' = [queue EXCEPT ![s] = <<>>]
        /\ sound' = IF ir[s] = {} THEN sound \union {s} ELSE sound
        /\ UNCHANGED cmdFaults
     \/ CmdFault(s) /\ UNCHANGED <<status, rx, tx, queue>>
  /\ result' = NoResult
  /\ UNCHANGED <<ir, io, packets, wire>>

(* wiznet_udp_close, wiznet_eth_close: whatever comes of the command, the   *)
(* mode says closed and the interrupts are cleared.                         *)
Close(s) ==
  /\ io = NoIo /\ mode[s] # "closed"
  /\ WriteMode(s, "closed") /\ WriteIr(s, {})
  /\ queue' = [queue EXCEPT ![s] = <<>>]
  /\ \/ /\ status' = [status EXCEPT ![s] = "closed"]
        /\ tx' = [tx EXCEPT ![s].upto = tx[s].rd]
        /\ sound' = sound \ {s}
        /\ UNCHANGED cmdFaults
     \/ CmdFault(s) /\ UNCHANGED <<status, tx>>
  /\ result' = NoResult
  /\ UNCHANGED <<rx, io, packets, wire>>

-------------------------------------------------------------------------------
(* wiznet_udp_is_recv_pending and recv_begin of either kind.  Where a RECV  *)
(* was not taken the driver may find no length where it looks: what it      *)
(* would read then is not followed.                                         *)
RecvBegin(s) ==
  /\ io = NoIo /\ mode[s] # "closed" /\ RxSize(s) # 0
  /\ LET h == Read(rx[s].mem, rx[s].rd, 1)[1]
     IN /\ h[1] = "len"
        /\ io' = [op |-> "recv", sock |-> s, pkt |-> NoPacket, data |-> <<>>,
                  len |-> h[2] - Counted(s)]
  /\ UNCHANGED <<sockets, rx, tx, ir, result, packets, cmdFaults, queue, wire, sound>>

(* recv_data at the offset it has got to; the caller may leave out a rest.  *)
RecvData(n) ==
  /\ io.op = "recv" /\ Len(io.data) + n <= io.len
  /\ LET s == io.sock
     IN io' = [io EXCEPT !.data = @ \o Read(rx[s].mem,
                 Plus(rx[s].rd, HdrSize(s) + Len(io.data)), n)]
  /\ UNCHANGED <<sockets, rx, tx, ir, result, packets, cmdFaults, queue, wire, sound>>

ConfirmData(s, len) == Plus(rx[s].rd, len)   \* a mutant: the header is left

(* wiz_io_rx_buffer_confirm of a packet.                                    *)
Confirm(s, len) == Plus(rx[s].rd, len + HdrSize(s))

RecvEnd ==
  /\ io.op = "recv"
  /\ io' = NoIo
  /\ LET s == io.sock
         rd == Confirm(s, io.len)
     IN /\ \/ /\ rx' = [rx EXCEPT ![s].rd = rd, ![s].recv = rd]
              /\ UNCHANGED <<cmdFaults, sound>>
           \/ CmdFault(s) /\ rx' = [rx EXCEPT ![s].rd = rd]
        /\ result' = [NoResult EXCEPT !.res = "got"]
        /\ queue' = [queue EXCEPT ![s] = IF @ = <<>> THEN @ ELSE Tail(@)]
  /\ UNCHANGED <<sockets, tx, ir, packets, wire>>

-------------------------------------------------------------------------------
(* send_begin.  UDP looks once at the space of socket 0, whichever socket   *)
(* it sends on; Ethernet waits for it, and gives up at last.                *)
SendBegin(s, p) ==
  /\ io = NoIo /\ mode[s] # "closed" /\ packets < MaxPackets
  /\ IF TxFree(0) < p[2]
     THEN /\ result' = [NoResult EXCEPT !.res = "no memory"]
          /\ UNCHANGED <<io, packets>>
     ELSE /\ io' = [op |-> "send", sock |-> s, pkt |-> p, len |-> p[2], data |-> <<>>]
          /\ packets' = packets + 1
          /\ UNCHANGED result
  /\ UNCHANGED <<sockets, rx, tx, ir, cmdFaults, queue, wire, sound>>

SendData(n) ==
  /\ io.op = "send" /\ Len(io.data) + n <= io.len
  /\ LET s == io.sock
         piece == SubSeq(Data(io.pkt), Len(io.data) + 1, Len(io.data) + n)
     IN /\ tx' = [tx EXCEPT ![s].mem =
                    Written(@, Plus(tx[s].wr, Len(io.data)), piece)]
        /\ io' = [io EXCEPT !.data = @ \o piece]
  /\ UNCHANGED <<sockets, rx, ir, result, packets, cmdFaults, queue, wire, sound>>

SendFails(res) ==
  /\ io' = NoIo
  /\ result' = [NoResult EXCEPT !.res = res]

(* wiz_io_tx_buffer_confirm, in send_end.                                   *)
Sent(s, len) == Plus(tx[s].wr, len)

(* send_end up to the SEND command of send_cmd.                             *)
SendEnd ==
  /\ io.op = "send" /\ Len(io.data) = io.len
  /\ LET s == io.sock
         wr == Sent(s, io.len)
     IN \/ /\ tx' = [tx EXCEPT ![s].wr = wr, ![s].upto = wr]
           /\ io' = [io EXCEPT !.op = "wait"]
           /\ UNCHANGED <<result, cmdFaults, sound>>
        \/ /\ CmdFault(s) /\ SendFails("cmd timeout")
           /\ tx' = [tx EXCEPT ![s].wr = wr]
  /\ UNCHANGED <<sockets, rx, ir, packets, queue, wire>>

ClearsNothing(s) == ir[s]              \* a mutant: the bit stays set

Clears(s) == ir[s] \ {"sent"}

(* The wait of send_cmd.                                                    *)
SendOk ==
  /\ io.op = "wait" /\ "sent" \in ir[io.sock]
  /\ WriteIr(io.sock, Clears(io.sock))
  /\ io' = NoIo
  /\ result' = [res |-> "sent", sock |-> io.sock, data |-> wire[io.sock],
                 owed |-> Data(io.pkt)]
  /\ UNCHANGED <<sockets, rx, tx, packets, cmdFaults, queue, wire, sound>>

SendTimeout ==
  /\ io.op = "wait"
  /\ SendFails("send timeout")
  /\ \/ /\ "timeout" \in ir[io.sock] /\ "sent" \notin ir[io.sock]
        /\ WriteIr(io.sock, {})
        /\ UNCHANGED <<cmdFaults, sound>>
     \/ CmdFault(io.sock) /\ UNCHANGED ir
  /\ UNCHANGED <<sockets, rx, tx, packets, queue, wire>>

Next ==
  \/ \E s \in Sockets :
       \/ \E p \in Packets : Arrives(s, p) \/ SendBegin(s, p)
       \/ \E m \in {"udp", "eth"} : Open(s, m)
       \/ Transmits(s) \/ Close(s) \/ RecvBegin(s)
  \/ \E n \in 1 .. Mem : RecvData(n) \/ SendData(n)
  \/ RecvEnd \/ SendEnd \/ SendOk \/ SendTimeout

Spec == Init /\ [][Next]_wizVars

-------------------------------------------------------------------------------
(* On a sound socket, one whose commands were taken in time, packets come   *)
(* out in order and with their own bytes, wherever the ring or its counter  *)
(* wraps: the next header lies where the driver will look.  A RECV that     *)
(* times out leaves a size for bytes that were already read.                *)
PacketsAreTakenWhole ==
  \A s \in sound :
    /\ io.op # "recv" /\ queue[s] # <<>> =>
         Read(rx[s].mem, rx[s].rd, HdrSize(s)) = Header(s, Head(queue[s]))
    /\ io.op = "recv" /\ io.sock = s =>
         io.data = SubSeq(Data(Head(queue[s])), 1, Len(io.data))

(* A call that sends says OK when its packet went out, as it was given, and *)
(* not for one before, as long as no call on its socket gave up waiting.    *)
OkWhenSent ==
  result.res = "sent" /\ result.sock \in sound => result.data = result.owed
===============================================================================
