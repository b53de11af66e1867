---------------------------- MODULE NetworkProofs ----------------------------
(***************************************************************************)
(* Theorems about what goes over a network: the port of the emulator, for  *)
(* any registers, blocks and sizes of the buffers, and the drivers of the  *)
(* two network chips, for any packets and sizes of rings, headers and      *)
(* counters.                                                               *)
(***************************************************************************)
EXTENDS MCNetwork, SequenceTheorems, TLAPS

------------------------------------------------------------------------------
(* The port of the emulator, for any number of calls, losses, copies and    *)
(* restarts.  The queues are looked at as sets of datagrams: no property    *)
(* depends on their order, so that a queue that shrinks or repeats itself   *)
(* keeps them.                                                              *)

(* Queues.                                                                  *)

LEMMA ElementsOf ==
  ASSUME NEW S, NEW q \in Seq(S)
  PROVE  /\ DOMAIN q = 1 .. Len(q) /\ Len(q) \in Nat
         /\ \A i \in DOMAIN q : q[i] \in S /\ q[i] \in ToSet(q)
         /\ \A e \in ToSet(q) : e \in S /\ \E i \in 1 .. Len(q) : e = q[i]
         /\ q = <<>> <=> ToSet(q) = {}
  BY DEF ToSet

LEMMA AppendSet ==
  ASSUME NEW S, NEW q \in Seq(S), NEW e \in S
  PROVE  /\ Append(q, e) \in Seq(S)
         /\ \A x : x \in ToSet(Append(q, e)) <=> x \in ToSet(q) \/ x = e
<1> DEFINE a == Append(q, e)
<1>1. /\ a \in Seq(S) /\ Len(a) = Len(q) + 1 /\ Len(q) \in Nat
      /\ \A i \in 1 .. Len(q) : a[i] = q[i]
      /\ a[Len(q) + 1] = e
  BY AppendProperties
<1> HIDE DEF a
<1>2. DOMAIN a = 1 .. Len(q) + 1 /\ DOMAIN q = 1 .. Len(q)
  BY <1>1, LenProperties
<1>3. ASSUME NEW x
      PROVE  x \in ToSet(a) <=> x \in ToSet(q) \/ x = e
  <2>1. ASSUME x \in ToSet(a) PROVE x \in ToSet(q) \/ x = e
    <3>1. PICK i \in 1 .. Len(q) + 1 : x = a[i]
      BY <1>2, <2>1 DEF ToSet
    <3>2. i \in 1 .. Len(q) \/ i = Len(q) + 1
      BY <1>1
    <3> QED BY <1>1, <1>2, <3>1, <3>2 DEF ToSet
  <2>2. ASSUME x \in ToSet(q) PROVE x \in ToSet(a)
    <3>1. PICK i \in 1 .. Len(q) : x = q[i]
      BY <1>2, <2>2 DEF ToSet
    <3>2. i \in 1 .. Len(q) + 1
      BY <1>1
    <3> QED BY <1>1, <1>2, <3>1, <3>2 DEF ToSet
  <2>3. e \in ToSet(a)
    <3>1. Len(q) + 1 \in 1 .. Len(q) + 1
      BY <1>1
    <3> QED BY <1>1, <1>2, <3>1 DEF ToSet
  <2> QED BY <2>1, <2>2, <2>3
<1> QED BY <1>1, <1>3 DEF a

LEMMA TailSet ==
  ASSUME NEW S, NEW q \in Seq(S), q # <<>>
  PROVE  /\ Tail(q) \in Seq(S) /\ Head(q) \in S /\ Head(q) \in ToSet(q)
         /\ ToSet(Tail(q)) \subseteq ToSet(q)
<1>1. /\ Tail(q) \in Seq(S) /\ Head(q) \in S
      /\ Len(Tail(q)) = Len(q) - 1
      /\ \A i \in 1 .. Len(Tail(q)) : Tail(q)[i] = q[i + 1]
  BY HeadTailProperties
<1>2. Len(q) \in Nat \ {0} /\ DOMAIN q = 1 .. Len(q)
      /\ DOMAIN Tail(q) = 1 .. Len(Tail(q))
  BY <1>1, EmptySeq, LenProperties
<1>3. Head(q) = q[1] /\ 1 \in DOMAIN q
  BY <1>2
<1>4. ASSUME NEW e \in ToSet(Tail(q)) PROVE e \in ToSet(q)
  <2>1. PICK i \in 1 .. Len(Tail(q)) : e = Tail(q)[i]
    BY <1>2 DEF ToSet
  <2>2. i + 1 \in DOMAIN q /\ e = q[i + 1]
    BY <1>1, <1>2, <2>1
  <2> QED BY <2>2 DEF ToSet
<1> QED BY <1>1, <1>3, <1>4 DEF ToSet

LEMMA RemoveSet ==
  ASSUME NEW S, NEW q \in Seq(S), NEW i \in DOMAIN q
  PROVE  RemoveAt(q, i) \in Seq(S) /\ ToSet(RemoveAt(q, i)) \subseteq ToSet(q)
<1> DEFINE front == SubSeq(q, 1, i - 1)
           back == SubSeq(q, i + 1, Len(q))
           T == ToSet(q)
<1>1. DOMAIN q = 1 .. Len(q) /\ Len(q) \in Nat /\ i \in 1 .. Len(q)
  BY ElementsOf
<1>2. \A j \in 1 .. Len(q) : q[j] \in T /\ q[j] \in S
  BY ElementsOf
<1> HIDE DEF T
<1>3. front \in Seq(T) /\ front \in Seq(S)
  BY <1>1, <1>2, SubSeqProperties
<1>4. back \in Seq(T) /\ back \in Seq(S)
  BY <1>1, <1>2, SubSeqProperties
<1> HIDE DEF front, back
<1>5. front \o back \in Seq(T) /\ front \o back \in Seq(S)
  BY <1>3, <1>4, ConcatProperties
<1>6. ToSet(front \o back) \subseteq T
  BY <1>5, ElementsOf
<1> QED BY <1>5, <1>6 DEF RemoveAt, front, back, T
------------------------------------------------------------------------------
(* Types.                                                                   *)

Datagram == [call : Calls, seq : Nat, id : Nat, mine : BOOLEAN]
Reply == [cmd : {Command(c) : c \in Calls}, seq : Nat, body : Seq(Words)]
Registers == [Regs \union {"block"} -> Seq(Words)]
History ==
  [made : SUBSET Calls, did : Outcomes \cup {None}, told : Seq(Words) \cup {None},
   done : Seq(Nat), call : Nat, tidy : BOOLEAN, after : BOOLEAN, sound : BOOLEAN]

PortTypeOK ==
  /\ up \in BOOLEAN /\ alive \in BOOLEAN
  /\ seq \in Nat /\ sseq \in Nat /\ calls \in Nat
  /\ asked \in Calls \cup {None}
  /\ inbox \in Seq(Reply) /\ srvq \in Seq(Datagram)
  /\ regs \in Registers
  /\ hist \in History

LEMMA SentWords ==
  ASSUME NEW c \in Calls
  PROVE  /\ Taken(Sent(c)) \in Seq(Words)
         /\ c[1] \in {"read", "write"} => c[2] \in Regs \union {"block"}
         /\ Command(c) \in {Command(d) : d \in Calls}
<1>1. \/ c = <<"action">>
      \/ \E r \in Regs : c = <<"read", r, Width[r]>>
      \/ \E r \in Regs, v \in Seq(Words) : c = <<"write", r, v>>
      \/ \E n : c = <<"read", "block", n>>
      \/ \E b \in Seq(Words) : c = <<"write", "block", b>>
  <2>1. \A r \in Regs : [1 .. Width[r] -> Words] \subseteq Seq(Words)
    BY SizesAssumption DEF Regs
  <2>2. Blocks \subseteq Seq(Words)
    BY SizesAssumption
  <2> DEFINE reads == {<<"read", r, Width[r]>> : r \in Regs}
             writesTo(r) == {<<"write", r, v>> : v \in [1 .. Width[r] -> Words]}
             writes == UNION {writesTo(r) : r \in Regs}
             blockReads == {<<"read", "block", n>> : n \in 0 .. MsgMax + 1}
             blockWrites == {<<"write", "block", b>> : b \in Blocks}
  <2>3. Calls = {<<"action">>} \cup reads \cup writes \cup blockReads \cup blockWrites
    BY DEF Calls
  <2>4. CASE c \in writes
    <3>1. PICK r \in Regs : c \in writesTo(r)
      BY <2>4
    <3>2. PICK v \in [1 .. Width[r] -> Words] : c = <<"write", r, v>>
      BY <3>1
    <3>3. v \in Seq(Words)
      BY <2>1
    <3> QED BY <3>2, <3>3
  <2>5. CASE c \in reads \cup blockReads \cup blockWrites \cup {<<"action">>}
    <3> HIDE DEF writes
    <3> QED BY <2>2, <2>5
  <2> HIDE DEF reads, writes, blockReads, blockWrites
  <2> QED BY <2>3, <2>4, <2>5
<1>2. Sent(c) \in Seq(Words)
  <2>1. CASE c[1] = "write"
    BY <1>1, <2>1 DEF Sent
  <2>2. CASE c[1] # "write"
    BY <2>2, EmptySeq DEF Sent
  <2> QED BY <2>1, <2>2
<1>3. Taken(Sent(c)) \in Seq(Words)
  <2> DEFINE n == IF Len(Sent(c)) > SrvMax THEN SrvMax ELSE Len(Sent(c))
  <2>1. n \in Nat /\ n <= Len(Sent(c))
    BY <1>2, SizesAssumption
  <2>2. \A i \in 1 .. n : Sent(c)[i] \in Words
    BY <1>2, <2>1
  <2> HIDE DEF n
  <2>3. SubSeq(Sent(c), 1, n) \in Seq(Words)
    BY <2>1, <2>2, SubSeqProperties
  <2> QED BY <2>3 DEF Taken, n
<1>4. c[1] \in {"read", "write"} => c[2] \in Regs \union {"block"}
  BY <1>1
<1> QED BY <1>3, <1>4

LEMMA RegistersKept ==
  ASSUME NEW rs \in Registers, NEW c \in Calls
  PROVE  Carried(rs, c) \in Registers /\ Answer(rs, c) \in Seq(Words)
<1>1. Carried(rs, c) \in Registers
  BY SentWords DEF Carried, Registers
<1>2. Answer(rs, c) \in Seq(Words)
  BY SentWords, EmptySeq DEF Answer, Registers
<1> QED BY <1>1, <1>2

LEMMA FreshRegisters == Fresh \in Registers
<1>1. \A r \in Regs : Zero(Width[r]) \in Seq(Words)
  BY SizesAssumption DEF Zero, Regs
<1>2. <<>> \in Seq(Words)
  BY EmptySeq
<1> QED BY <1>1, <1>2 DEF Fresh, Registers

LEMMA NoneIsNone ==
  /\ \A c \in Calls : c # None
  /\ \A o \in Outcomes : o # None
  BY NoneAssumption
------------------------------------------------------------------------------
(* The invariant.                                                           *)

(* What does not run or exist has nothing in its queue.                     *)
RestInv ==
  /\ ~alive => ToSet(srvq) = {}
  /\ ~up => /\ ToSet(inbox) = {} /\ asked = None
            /\ \A p \in ToSet(srvq) : ~p.mine

(* Nothing bears a number that the handle has yet to reach.                 *)
OwnInv ==
  /\ \A p \in ToSet(srvq) : p.mine => p.seq <= seq
  /\ \A r \in ToSet(inbox) : r.seq <= seq

(* A datagram that was carried out bears a number that the simulator no     *)
(* longer expects, and so do its copies.                                    *)
IdInv ==
  /\ hist.call <= calls
  /\ \A p \in ToSet(srvq) : p.id <= calls
  /\ \A i \in DOMAIN hist.done : hist.done[i] <= calls
  /\ \A i, j \in DOMAIN hist.done : hist.done[i] = hist.done[j] => i = j
  /\ \A p, q \in ToSet(srvq) : p.id = q.id => p.seq = q.seq
  /\ \A p \in ToSet(srvq) : p.id \in ToSet(hist.done) => p.seq < sseq

(* After an OK the number is new, and until the first failure only the call *)
(* under way bears it.                                                      *)
CallInv ==
  /\ up /\ asked = None /\ hist.tidy =>
       /\ \A p \in ToSet(srvq) : p.mine => p.seq < seq
       /\ \A r \in ToSet(inbox) : r.seq < seq
  /\ asked # None /\ hist.after =>
       /\ \A p \in ToSet(srvq) : p.mine /\ p.seq = seq => p.id = hist.call
       /\ \A r \in ToSet(inbox) : r.seq = seq => hist.call \in ToSet(hist.done)
  /\ last = "ok" /\ hist.after => hist.call \in ToSet(hist.done)

(* While the promise holds the simulator is never behind the handle.  Once  *)
(* it has carried out a call since the last OK it is ahead of everything    *)
(* that was sent, and carries out no other.                                 *)
SoundInv ==
  hist.sound =>
    /\ up => seq <= sseq
    /\ \A p \in ToSet(srvq) : p.seq <= sseq /\ (p.seq = sseq => p.call \in hist.made)
    /\ hist.did # None =>
         /\ up => seq < sseq
         /\ sseq > 0
         /\ \A p \in ToSet(srvq) : p.seq < sseq
    /\ asked # None => asked \in hist.made
    /\ \A r \in ToSet(inbox) : r.seq = seq =>
         /\ hist.did # None /\ sseq = seq + 1
         /\ r.cmd = Command(hist.did.call) /\ r.body = hist.did.answer

LastInv ==
  hist.sound =>
    /\ \A r \in ToSet(inbox) :
         asked # None /\ hist.after /\ r.seq = seq => Last(hist.done) = hist.call
    /\ up /\ last = "ok" /\ hist.after =>
         /\ Last(hist.done) = hist.call
         /\ \A p \in ToSet(srvq) : p.seq < sseq

PortInv ==
  PortTypeOK /\ RestInv /\ OwnInv /\ IdInv /\ CallInv /\ SoundInv /\ LastInv

(* Datagrams that are lost, copied or dropped with the process.             *)
Fewer ==
  /\ UNCHANGED <<up, seq, asked, last, sseq, regs, calls, hist>>
  /\ srvq' \in Seq(Datagram) /\ ToSet(srvq') \subseteq ToSet(srvq)
  /\ inbox' \in Seq(Reply) /\ ToSet(inbox') \subseteq ToSet(inbox)
  /\ alive' \in BOOLEAN /\ (~alive' => ToSet(srvq') = {})

LEMMA NoDatagrams == <<>> \in Seq(Datagram) /\ <<>> \in Seq(Reply) /\ ToSet(<<>>) = {}
  BY EmptySeq DEF ToSet

LEMMA CopySet ==
  ASSUME NEW S, NEW q \in Seq(S), NEW i \in DOMAIN q
  PROVE  Append(q, q[i]) \in Seq(S) /\ ToSet(Append(q, q[i])) \subseteq ToSet(q)
  BY ElementsOf, AppendSet

LEMMA FewerSteps ==
  ASSUME PortInv, Lose \/ Copy \/ Kill \/ UNCHANGED vars \/ (Serve /\ ~Expected(Head(srvq)))
  PROVE  Fewer
<1>1. inbox \in Seq(Reply) /\ srvq \in Seq(Datagram) /\ alive \in BOOLEAN
      /\ (~alive => ToSet(srvq) = {})
  BY DEF PortInv, PortTypeOK, RestInv
<1>2. CASE UNCHANGED vars
  BY <1>1, <1>2 DEF vars, master, server, Fewer
<1>3. CASE Lose
  <2>1. UNCHANGED <<up, seq, asked, last, alive, sseq, regs, calls, hist>>
    BY <1>3 DEF Lose, master, server
  <2>2. CASE \E i \in DOMAIN srvq : srvq' = RemoveAt(srvq, i) /\ UNCHANGED inbox
    BY <1>1, <2>1, <2>2, RemoveSet DEF Fewer
  <2>3. CASE \E i \in DOMAIN inbox : inbox' = RemoveAt(inbox, i) /\ UNCHANGED srvq
    BY <1>1, <2>1, <2>3, RemoveSet DEF Fewer
  <2> QED BY <1>3, <2>2, <2>3 DEF Lose
<1>4. CASE Copy
  <2>1. UNCHANGED <<up, seq, asked, last, alive, sseq, regs, calls, hist>>
    BY <1>4 DEF Copy, master, server
  <2>2. CASE \E i \in DOMAIN srvq : srvq' = Append(srvq, srvq[i]) /\ UNCHANGED inbox
    BY <1>1, <2>1, <2>2, CopySet DEF Fewer
  <2>3. CASE \E i \in DOMAIN inbox : inbox' = Append(inbox, inbox[i]) /\ UNCHANGED srvq
    BY <1>1, <2>1, <2>3, CopySet DEF Fewer
  <2> QED BY <1>4, <2>2, <2>3 DEF Copy
<1>5. CASE Kill \/ (Serve /\ ~Expected(Head(srvq)))
  <2>1. /\ UNCHANGED <<up, seq, asked, last, sseq, regs, calls, hist, inbox>>
        /\ alive' = FALSE /\ srvq' = <<>>
    BY <1>5 DEF Kill, Serve, master, server
  <2> QED BY <1>1, <2>1, NoDatagrams DEF Fewer
<1> QED BY <1>2, <1>3, <1>4, <1>5

LEMMA FewerKeeps ==
  ASSUME PortInv, Fewer
  PROVE  PortInv'
<1>1. PortTypeOK'
  BY DEF PortInv, PortTypeOK, Fewer
<1>2. RestInv' /\ OwnInv'
  BY DEF PortInv, RestInv, OwnInv, Fewer
<1>3. IdInv'
  BY DEF PortInv, IdInv, Fewer
<1>4. CallInv'
  BY DEF PortInv, CallInv, Fewer
<1>5. SoundInv'
  BY DEF PortInv, SoundInv, Fewer
<1>6. LastInv'
  BY DEF PortInv, LastInv, Fewer
<1> QED BY <1>1, <1>2, <1>3, <1>4, <1>5, <1>6 DEF PortInv

------------------------------------------------------------------------------
(* The steps of the handle.                                                 *)

LEMMA Queued ==
  ASSUME PortTypeOK
  PROVE  /\ \A p \in ToSet(srvq) :
              p \in Datagram /\ p.call \in Calls /\ p.seq \in Nat /\ p.id \in Nat
         /\ \A r \in ToSet(inbox) : r \in Reply /\ r.seq \in Nat
         /\ \A i \in DOMAIN hist.done : hist.done[i] \in Nat
         /\ hist.done \in Seq(Nat) /\ hist.call \in Nat
<1>1. \A p \in ToSet(srvq) : p \in Datagram
  BY ElementsOf DEF PortTypeOK
<1>2. \A p \in Datagram : p.call \in Calls /\ p.seq \in Nat /\ p.id \in Nat
  BY DEF Datagram
<1>3. \A r \in ToSet(inbox) : r \in Reply
  BY ElementsOf DEF PortTypeOK
<1>4. \A r \in Reply : r.seq \in Nat
  BY DEF Reply
<1>5. hist.done \in Seq(Nat) /\ hist.call \in Nat
  BY DEF PortTypeOK, History
<1>6. \A i \in DOMAIN hist.done : hist.done[i] \in Nat
  BY <1>5
<1> QED BY <1>1, <1>2, <1>3, <1>4, <1>5, <1>6

LEMMA StartKeeps ==
  ASSUME PortInv, Start
  PROVE  PortInv'
<1>1. /\ up = FALSE /\ up' = TRUE /\ seq' = 0 /\ last' = "none"
      /\ hist' = [hist EXCEPT !.tidy = TRUE]
      /\ UNCHANGED <<asked, inbox, srvq, alive, sseq, regs, calls>>
  BY DEF Start, server, PortInv, PortTypeOK
<1>2. /\ ToSet(inbox) = {} /\ asked = None
      /\ \A p \in ToSet(srvq) : p \in Datagram /\ ~p.mine
  BY <1>1, ElementsOf DEF PortInv, RestInv, PortTypeOK
<1>3. hist' \in History
      /\ \A f \in {"made", "did", "told", "done", "call", "after", "sound"} :
           hist'[f] = hist[f]
  BY <1>1 DEF PortInv, PortTypeOK, History
<1>4. PortTypeOK'
  BY <1>1, <1>3 DEF PortInv, PortTypeOK
<1>5. RestInv' /\ OwnInv'
  BY <1>1, <1>2 DEF PortInv, RestInv, OwnInv
<1>6. IdInv'
  BY <1>1, <1>3 DEF PortInv, IdInv
<1>7. CallInv'
  BY <1>1, <1>2 DEF CallInv
<1>8. SoundInv'
  <2>1. sseq \in Nat
    BY DEF PortInv, PortTypeOK
  <2> QED BY <1>1, <1>2, <1>3, <2>1 DEF PortInv, SoundInv
<1>9. LastInv'
  BY <1>1, <1>2 DEF LastInv
<1> QED BY <1>4, <1>5, <1>6, <1>7, <1>8, <1>9 DEF PortInv

LEMMA StopKeeps ==
  ASSUME PortInv, Stop
  PROVE  PortInv'
<1>1. /\ asked = None /\ up' = FALSE /\ inbox' = <<>>
      /\ srvq' = [i \in DOMAIN srvq |-> [srvq[i] EXCEPT !.mine = FALSE]]
      /\ UNCHANGED <<seq, asked, last, alive, sseq, regs, calls, hist>>
  BY DEF Stop, server
<1>2. srvq \in Seq(Datagram) /\ DOMAIN srvq = 1 .. Len(srvq) /\ Len(srvq) \in Nat
      /\ \A i \in DOMAIN srvq : srvq[i] \in Datagram
  BY ElementsOf DEF PortInv, PortTypeOK
<1>3. \A i \in DOMAIN srvq : [srvq[i] EXCEPT !.mine = FALSE] \in Datagram
  BY <1>2 DEF Datagram
<1>4. srvq' \in Seq(Datagram) /\ DOMAIN srvq' = DOMAIN srvq
  BY <1>1, <1>2, <1>3
<1>5. ASSUME NEW q \in ToSet(srvq')
      PROVE  \E p \in ToSet(srvq) :
               q.call = p.call /\ q.seq = p.seq /\ q.id = p.id /\ q.mine = FALSE
  <2>1. PICK i \in DOMAIN srvq : q = [srvq[i] EXCEPT !.mine = FALSE]
    BY <1>1, <1>4 DEF ToSet
  <2>2. srvq[i] \in ToSet(srvq) /\ srvq[i] \in Datagram
    BY <1>2, ElementsOf
  <2> QED BY <2>1, <2>2 DEF Datagram
<1>6. ToSet(inbox') = {} /\ inbox' \in Seq(Reply)
  BY <1>1, NoDatagrams
<1>7. ~alive => ToSet(srvq') = {}
  BY <1>5 DEF PortInv, RestInv
<1>8. PortTypeOK'
  BY <1>1, <1>4, <1>6 DEF PortInv, PortTypeOK
<1>9. RestInv' /\ OwnInv'
  BY <1>1, <1>5, <1>6, <1>7 DEF RestInv, OwnInv
<1>10. IdInv'
  <2>1. \A q \in ToSet(srvq') : q.id <= calls
          /\ (q.id \in ToSet(hist.done) => q.seq < sseq)
    BY <1>5 DEF PortInv, IdInv
  <2>2. ASSUME NEW q \in ToSet(srvq'), NEW r \in ToSet(srvq'), q.id = r.id
        PROVE  q.seq = r.seq
    <3>1. PICK p \in ToSet(srvq) : q.seq = p.seq /\ q.id = p.id
      BY <1>5
    <3>2. PICK s \in ToSet(srvq) : r.seq = s.seq /\ r.id = s.id
      BY <1>5
    <3> QED BY <2>2, <3>1, <3>2 DEF PortInv, IdInv
  <2> QED BY <1>1, <2>1, <2>2 DEF PortInv, IdInv
<1>11. CallInv'
  BY <1>1 DEF PortInv, CallInv
<1>12. SoundInv'
  <2>1. ASSUME hist.sound, NEW q \in ToSet(srvq')
        PROVE  /\ q.seq <= sseq /\ (q.seq = sseq => q.call \in hist.made)
               /\ hist.did # None => q.seq < sseq
    BY <1>5, <2>1 DEF PortInv, SoundInv
  <2> QED BY <1>1, <1>6, <2>1 DEF PortInv, SoundInv
<1>13. LastInv'
  BY <1>1, <1>6 DEF LastInv
<1> QED BY <1>8, <1>9, <1>10, <1>11, <1>12, <1>13 DEF PortInv

LEMMA BeginKeeps ==
  ASSUME PortInv, NEW c \in Calls, Begin(c)
  PROVE  PortInv'
<1>1. /\ up /\ asked = None /\ calls' = calls + 1
      /\ UNCHANGED <<up, seq, inbox, alive, sseq, regs>>
  BY DEF Begin, server
<1> USE DEF PortInv
<1>2. /\ calls \in Nat /\ seq \in Nat /\ sseq \in Nat /\ hist \in History
      /\ hist.call \in Nat /\ hist.done \in Seq(Nat)
      /\ srvq \in Seq(Datagram) /\ inbox \in Seq(Reply)
  BY DEF PortTypeOK, History
<1>3. /\ \A p \in ToSet(srvq) : p \in Datagram /\ p.id \in Nat /\ p.seq \in Nat
      /\ \A r \in ToSet(inbox) : r.seq \in Nat
  BY Queued
<1>4. \A i \in DOMAIN hist.done : hist.done[i] \in Nat
  BY Queued
<1>5. CASE TooLarge(c)
  <2>1. last' = "large" /\ UNCHANGED <<asked, srvq, hist>>
    BY <1>5 DEF Begin
  <2>2. PortTypeOK' /\ RestInv' /\ OwnInv'
    BY <1>1, <2>1 DEF PortTypeOK, RestInv, OwnInv
  <2>3. IdInv'
    BY <1>1, <1>2, <1>3, <1>4, <2>1 DEF IdInv
  <2>4. CallInv' /\ SoundInv' /\ LastInv'
    BY <1>1, <2>1 DEF CallInv, SoundInv, LastInv
  <2> QED BY <2>2, <2>3, <2>4
<1>6. CASE ~TooLarge(c)
  <2> DEFINE d == [call |-> c, seq |-> seq, id |-> calls + 1, mine |-> TRUE]
  <2>1. /\ asked' = c /\ last' = "none"
        /\ srvq' = IF ~alive THEN srvq ELSE Append(srvq, d)
        /\ hist' = [hist EXCEPT !.made = @ \union {c}, !.call = calls + 1,
                                !.after = hist.tidy]
    BY <1>6 DEF Begin
  <2>2. d \in Datagram
    BY <1>2 DEF Datagram
  <2>3. /\ d.call = c /\ d.seq = seq /\ d.id = calls + 1 /\ d.mine = TRUE
    OBVIOUS
  <2> HIDE DEF d
  <2>4. srvq' \in Seq(Datagram)
        /\ \A x \in ToSet(srvq') : x \in ToSet(srvq) \/ (alive /\ x = d)
    BY <1>2, <2>1, <2>2, AppendSet
  <2>5. /\ hist' \in History
        /\ hist'.made = hist.made \union {c} /\ hist'.call = calls + 1
        /\ hist'.after = hist.tidy
        /\ \A f \in {"did", "told", "done", "tidy", "sound"} : hist'[f] = hist[f]
    <3> DEFINE h == [hist EXCEPT !.made = @ \union {c}, !.call = calls + 1,
                                 !.after = hist.tidy]
    <3>1. h \in History
      <4> DEFINE made == hist.made \union {c}
                 tidy == hist.tidy
      <4>1. made \in SUBSET Calls /\ calls + 1 \in Nat /\ tidy \in BOOLEAN
        BY <1>2 DEF History
      <4> HIDE DEF made, tidy
      <4>2. [hist EXCEPT !.made = made, !.call = calls + 1, !.after = tidy] \in History
        BY <1>2, <4>1 DEF History
      <4> QED BY <4>2 DEF made, tidy
    <3>2. /\ h.made = hist.made \union {c} /\ h.call = calls + 1
          /\ h.after = hist.tidy
      BY <1>2 DEF History
    <3>3. \A f \in {"did", "told", "done", "tidy", "sound"} : h[f] = hist[f]
      BY <1>2 DEF History
    <3> HIDE DEF h
    <3>4. hist' = h
      BY <2>1 DEF h
    <3> QED BY <3>1, <3>2, <3>3, <3>4
  <2>6. PortTypeOK'
    BY <1>1, <1>2, <2>1, <2>4, <2>5 DEF PortTypeOK
  <2>7. RestInv' /\ OwnInv'
    BY <1>1, <1>2, <2>1, <2>3, <2>4 DEF RestInv, OwnInv
  <2>8. IdInv'
    <3>1. calls + 1 \notin ToSet(hist.done)
      <4>1. \A i \in DOMAIN hist.done : hist.done[i] # calls + 1
        BY <1>2, <1>4 DEF IdInv
      <4> QED BY <4>1 DEF ToSet
    <3>2. \A p \in ToSet(srvq) : p.id # calls + 1 /\ p.id <= calls + 1
      BY <1>2, <1>3 DEF IdInv
    <3>3. \A i \in DOMAIN hist.done : hist.done[i] <= calls + 1
      BY <1>2, <1>4 DEF IdInv
    <3>4. \A p, q \in ToSet(srvq') : p.id = q.id => p.seq = q.seq
      BY <2>3, <2>4, <3>2 DEF IdInv
    <3>5. \A p \in ToSet(srvq') : p.id <= calls'
            /\ (p.id \in ToSet(hist'.done) => p.seq < sseq')
      BY <1>1, <1>2, <2>3, <2>4, <2>5, <3>1, <3>2 DEF IdInv
    <3>6. hist'.call <= calls' /\ hist'.done = hist.done
      BY <1>1, <1>2, <2>5
    <3> QED BY <1>1, <3>3, <3>4, <3>5, <3>6 DEF IdInv
  <2>9. CallInv'
    <3>1. asked' # None /\ last' # "ok"
      BY <2>1, NoneIsNone
    <3>2. ASSUME hist.tidy
          PROVE  /\ \A p \in ToSet(srvq') : p.mine /\ p.seq = seq => p.id = calls + 1
                 /\ \A r \in ToSet(inbox) : r.seq < seq
      BY <1>1, <1>2, <2>3, <2>4, <3>2 DEF CallInv
    <3> QED BY <1>1, <1>2, <1>3, <2>5, <3>1, <3>2 DEF CallInv
  <2>10. SoundInv'
    <3>2. ASSUME hist.sound, NEW p \in ToSet(srvq')
          PROVE  /\ p.seq <= sseq /\ (p.seq = sseq => p.call \in hist'.made)
                 /\ hist.did # None => p.seq < sseq
      BY <1>1, <2>3, <2>4, <2>5, <3>2 DEF SoundInv
    <3> QED BY <1>1, <2>1, <2>5, <3>2 DEF SoundInv
  <2>11. LastInv'
    <3>1. last' # "ok" /\ inbox' = inbox
      BY <1>1, <2>1
    <3>2. \A r \in ToSet(inbox) : r.seq \in Nat /\ (hist.tidy => r.seq < seq)
      BY <1>1, <1>3 DEF CallInv
    <3> QED BY <1>1, <1>2, <2>5, <3>1, <3>2 DEF LastInv
  <2> QED BY <2>6, <2>7, <2>8, <2>9, <2>10, <2>11
<1> QED BY <1>5, <1>6

(* A call that ends without its reply.                                      *)
Fails ==
  /\ last' \in {"invalid", "timeout"} /\ asked' = None
  /\ inbox' \in Seq(Reply) /\ ToSet(inbox') \subseteq ToSet(inbox)
  /\ hist' = [hist EXCEPT !.tidy = FALSE]
  /\ UNCHANGED <<up, seq, alive, sseq, srvq, regs, calls>>

LEMMA FailsSteps ==
  ASSUME PortInv, \/ Receive /\ ~IsReply(Head(inbox), asked)
                  \/ Timeout \/ SocketFails
  PROVE  Fails
<1>1. inbox \in Seq(Reply)
  BY DEF PortInv, PortTypeOK
<1>2. inbox # <<>> => Tail(inbox) \in Seq(Reply) /\ ToSet(Tail(inbox)) \subseteq ToSet(inbox)
  BY <1>1, TailSet
<1>3. CASE Receive /\ ~IsReply(Head(inbox), asked)
  BY <1>2, <1>3 DEF Receive, End, Failed, Fails, server
<1>4. CASE Timeout
  BY <1>1, <1>4 DEF Timeout, End, Failed, Fails, server
<1>5. CASE SocketFails
  BY <1>1, <1>2, <1>5 DEF SocketFails, End, Failed, Fails, server
<1> QED BY <1>3, <1>4, <1>5

LEMMA FailsKeeps ==
  ASSUME PortInv, Fails
  PROVE  PortInv'
<1>1. /\ hist' \in History /\ hist'.tidy = FALSE
      /\ \A f \in {"made", "did", "told", "done", "call", "after", "sound"} :
           hist'[f] = hist[f]
  BY DEF Fails, PortInv, PortTypeOK, History
<1> USE DEF Fails
<1>2. PortTypeOK'
  BY <1>1 DEF PortInv, PortTypeOK
<1>3. RestInv' /\ OwnInv'
  BY DEF PortInv, RestInv, OwnInv
<1>4. IdInv'
  BY <1>1 DEF PortInv, IdInv
<1>5. CallInv'
  BY <1>1 DEF CallInv
<1>6. SoundInv'
  BY <1>1 DEF PortInv, SoundInv
<1>7. LastInv'
  BY <1>1 DEF LastInv
<1> QED BY <1>2, <1>3, <1>4, <1>5, <1>6, <1>7 DEF PortInv

LEMMA ReceiveKeeps ==
  ASSUME PortInv, Receive, IsReply(Head(inbox), asked)
  PROVE  PortInv'
<1> DEFINE r == Head(inbox)
<1>1. /\ asked # None /\ inbox # <<>> /\ inbox' = Tail(inbox)
      /\ last' = "ok" /\ asked' = None /\ seq' = seq + 1
      /\ hist' = [hist EXCEPT !.made = {}, !.did = None, !.tidy = TRUE,
                              !.told = Head(inbox).body]
      /\ UNCHANGED <<up, alive, sseq, srvq, regs, calls>>
  BY DEF Receive, End, server
<1>2. /\ inbox' \in Seq(Reply) /\ ToSet(inbox') \subseteq ToSet(inbox)
      /\ r \in ToSet(inbox) /\ r \in Reply /\ r.seq = seq
  BY <1>1, TailSet DEF PortInv, PortTypeOK, IsReply
<1> HIDE DEF r
<1>3. up /\ seq \in Nat /\ sseq \in Nat
  BY <1>1 DEF PortInv, PortTypeOK, RestInv
<1>4. /\ hist' \in History
      /\ hist'.made = {} /\ hist'.did = None /\ hist'.tidy = TRUE
      /\ \A f \in {"done", "call", "after", "sound"} : hist'[f] = hist[f]
  <2> DEFINE body == r.body
  <2>1. body \in Seq(Words) \cup {None} /\ hist \in History
    BY <1>2 DEF Reply, PortInv, PortTypeOK
  <2>2. hist' = [hist EXCEPT !.made = {}, !.did = None, !.tidy = TRUE, !.told = body]
    BY <1>1 DEF r
  <2> HIDE DEF body
  <2> QED BY <2>1, <2>2 DEF History
<1>5. /\ \A p \in ToSet(srvq) : p.seq \in Nat
      /\ \A x \in ToSet(inbox) : x.seq \in Nat
  BY Queued DEF PortInv
<1>6. PortTypeOK'
  BY <1>1, <1>2, <1>3, <1>4 DEF PortInv, PortTypeOK
<1>7. RestInv' /\ OwnInv'
  BY <1>1, <1>2, <1>3, <1>5 DEF PortInv, RestInv, OwnInv
<1>8. IdInv'
  BY <1>1, <1>4 DEF PortInv, IdInv
<1>9. CallInv'
  <2>1. /\ \A p \in ToSet(srvq) : p.mine => p.seq < seq + 1
        /\ \A x \in ToSet(inbox) : x.seq < seq + 1
    BY <1>3, <1>5 DEF PortInv, OwnInv
  <2>2. hist.after => hist.call \in ToSet(hist.done)
    BY <1>1, <1>2 DEF PortInv, CallInv
  <2> QED BY <1>1, <1>2, <1>4, <2>1, <2>2 DEF CallInv
<1>10. SoundInv'
  <2>1. ASSUME hist.sound
        PROVE  /\ sseq = seq + 1
               /\ \A p \in ToSet(srvq) : p.seq < sseq
    BY <1>2, <2>1 DEF PortInv, SoundInv
  <2>2. \A x \in ToSet(inbox) : x.seq # seq + 1
    BY <1>3, <1>5 DEF PortInv, OwnInv
  <2> QED BY <1>1, <1>2, <1>3, <1>4, <1>5, <2>1, <2>2 DEF SoundInv
<1>11. LastInv'
  <2>1. ASSUME hist.sound, hist.after
        PROVE  /\ Last(hist.done) = hist.call
               /\ \A p \in ToSet(srvq) : p.seq < sseq
    BY <1>1, <1>2, <2>1 DEF PortInv, SoundInv, LastInv
  <2> QED BY <1>1, <1>4, <2>1 DEF LastInv
<1> QED BY <1>6, <1>7, <1>8, <1>9, <1>10, <1>11 DEF PortInv

------------------------------------------------------------------------------
(* The steps of the simulator.                                              *)

LEMMA RunKeeps ==
  ASSUME PortInv, Run
  PROVE  PortInv'
<1>1. /\ ~alive /\ alive' = TRUE /\ sseq' = 0 /\ regs' = Fresh
      /\ hist' = [hist EXCEPT !.made = {}, !.did = None, !.sound = ~up]
      /\ UNCHANGED <<up, seq, asked, last, inbox, srvq, calls>>
  BY DEF Run, master
<1>2. ToSet(srvq) = {} /\ (~up => ToSet(inbox) = {} /\ asked = None)
  BY <1>1 DEF PortInv, RestInv
<1>3. /\ hist' \in History /\ hist'.did = None
      /\ (hist'.sound <=> ~up)
      /\ \A f \in {"done", "call", "after", "tidy"} : hist'[f] = hist[f]
  <2> DEFINE fresh == ~up
  <2>1. hist \in History /\ fresh \in BOOLEAN
    BY DEF PortInv, PortTypeOK
  <2>2. hist' = [hist EXCEPT !.made = {}, !.did = None, !.sound = fresh]
    BY <1>1
  <2> HIDE DEF fresh
  <2>3. /\ hist' \in History /\ hist'.did = None /\ hist'.sound = fresh
        /\ \A f \in {"done", "call", "after", "tidy"} : hist'[f] = hist[f]
    BY <2>1, <2>2 DEF History
  <2> QED BY <2>3 DEF fresh
<1>4. PortTypeOK'
  BY <1>1, <1>3, FreshRegisters DEF PortInv, PortTypeOK
<1>5. RestInv' /\ OwnInv'
  BY <1>1, <1>2 DEF PortInv, RestInv, OwnInv
<1>6. IdInv'
  BY <1>1, <1>2, <1>3 DEF PortInv, IdInv
<1>7. CallInv'
  BY <1>1, <1>2, <1>3 DEF PortInv, CallInv
<1>8. SoundInv'
  BY <1>1, <1>2, <1>3 DEF SoundInv
<1>9. LastInv'
  BY <1>1, <1>2, <1>3 DEF LastInv
<1> QED BY <1>4, <1>5, <1>6, <1>7, <1>8, <1>9 DEF PortInv

LEMMA ServeKeeps ==
  ASSUME PortInv, Serve, Expected(Head(srvq))
  PROVE  PortInv'
<1> DEFINE p == Head(srvq)
           a == Answer(regs, p.call)
           reply == [cmd |-> Command(p.call), seq |-> p.seq, body |-> a]
           out == [call |-> p.call, answer |-> a]
<1>1. /\ alive /\ srvq # <<>> /\ srvq' = Tail(srvq) /\ sseq' = sseq + 1
      /\ regs' = Carried(regs, p.call)
      /\ inbox' = IF p.mine THEN Append(inbox, reply) ELSE inbox
      /\ hist' = [hist EXCEPT !.did = out, !.done = Append(@, p.id)]
      /\ UNCHANGED <<up, seq, asked, last, alive, calls>>
  BY DEF Serve, master
<1>2. /\ srvq' \in Seq(Datagram) /\ ToSet(srvq') \subseteq ToSet(srvq)
      /\ p \in ToSet(srvq) /\ p.seq = sseq
  BY <1>1, TailSet DEF PortInv, PortTypeOK, Expected
<1> HIDE DEF p
<1>3. /\ p \in Datagram /\ p.call \in Calls /\ p.id \in Nat /\ sseq \in Nat
      /\ seq \in Nat /\ alive \in BOOLEAN /\ inbox \in Seq(Reply) /\ hist \in History
      /\ regs \in Registers /\ hist.done \in Seq(Nat) /\ hist.call \in Nat /\ calls \in Nat
      /\ \A x \in ToSet(srvq) : x.seq \in Nat
      /\ \A x \in ToSet(inbox) : x.seq \in Nat
      /\ \A i \in DOMAIN hist.done : hist.done[i] \in Nat
  BY <1>2, Queued DEF PortInv, PortTypeOK
<1>4. a \in Seq(Words) /\ Carried(regs, p.call) \in Registers
  BY <1>3, RegistersKept
<1> HIDE DEF a
<1>5. reply \in Reply /\ out \in Outcomes
  BY <1>2, <1>3, <1>4 DEF Reply, Outcomes
<1>6. /\ reply.seq = sseq /\ reply.cmd = Command(p.call) /\ reply.body = a
      /\ out.call = p.call /\ out.answer = a
  BY <1>2
<1> HIDE DEF reply, out
<1>7. out # None
  BY <1>5, NoneIsNone
<1>8. /\ inbox' \in Seq(Reply)
      /\ \A x \in ToSet(inbox') : x \in ToSet(inbox) \/ (p.mine /\ x = reply)
  BY <1>1, <1>3, <1>5, AppendSet
<1>9. /\ hist' \in History /\ hist'.did = out /\ hist'.done = Append(hist.done, p.id)
      /\ \A f \in {"made", "call", "tidy", "after", "sound"} : hist'[f] = hist[f]
  <2> DEFINE done == Append(hist.done, p.id)
  <2>1. done \in Seq(Nat)
    BY <1>3
  <2>2. hist' = [hist EXCEPT !.did = out, !.done = done]
    BY <1>1
  <2> HIDE DEF done
  <2>3. /\ hist' \in History /\ hist'.did = out /\ hist'.done = done
        /\ \A f \in {"made", "call", "tidy", "after", "sound"} : hist'[f] = hist[f]
    BY <1>3, <1>5, <2>1, <2>2 DEF History
  <2> QED BY <2>3 DEF done
<1>10. /\ \A x : x \in ToSet(hist'.done) <=> x \in ToSet(hist.done) \/ x = p.id
       /\ Last(hist'.done) = p.id
  <2>1. \A x : x \in ToSet(Append(hist.done, p.id)) <=> x \in ToSet(hist.done) \/ x = p.id
    BY <1>3, AppendSet
  <2>2. Last(Append(hist.done, p.id)) = p.id
    BY <1>3, AppendProperties DEF Last
  <2> QED BY <1>9, <2>1, <2>2
<1>11. p.id \notin ToSet(hist.done)
  BY <1>2, <1>3 DEF PortInv, IdInv
<1>12. PortTypeOK'
  BY <1>1, <1>2, <1>3, <1>4, <1>8, <1>9 DEF PortInv, PortTypeOK
<1>13. RestInv'
  <2>1. ~up => ~p.mine
    BY <1>2 DEF PortInv, RestInv
  <2> QED BY <1>1, <1>2, <1>8, <2>1 DEF PortInv, RestInv
<1>14. OwnInv'
  <2>1. p.mine => reply.seq <= seq
    BY <1>2, <1>6 DEF PortInv, OwnInv
  <2> QED BY <1>1, <1>2, <1>8, <2>1 DEF PortInv, OwnInv
<1>15. IdInv'
  <2>1. hist'.call <= calls' /\ \A x \in ToSet(srvq') : x.id <= calls'
    BY <1>1, <1>2, <1>9 DEF PortInv, IdInv
  <2>2. ASSUME NEW i \in DOMAIN hist'.done
        PROVE  /\ hist'.done[i] <= calls
               /\ (i \in DOMAIN hist.done /\ hist'.done[i] = hist.done[i])
                    \/ (i = Len(hist.done) + 1 /\ hist'.done[i] = p.id)
    <3>1. /\ DOMAIN hist.done = 1 .. Len(hist.done) /\ Len(hist.done) \in Nat
          /\ DOMAIN hist'.done = 1 .. Len(hist.done) + 1
          /\ hist'.done[Len(hist.done) + 1] = p.id
          /\ \A j \in 1 .. Len(hist.done) : hist'.done[j] = hist.done[j]
      BY <1>3, <1>9, AppendProperties
    <3>2. i \in 1 .. Len(hist.done) \/ i = Len(hist.done) + 1
      BY <3>1
    <3>3. p.id <= calls
      BY <1>2 DEF PortInv, IdInv
    <3> QED BY <3>1, <3>2, <3>3 DEF PortInv, IdInv
  <2>3. \A i \in DOMAIN hist.done : hist.done[i] # p.id
    BY <1>11 DEF ToSet
  <2>4. \A i, j \in DOMAIN hist'.done : hist'.done[i] = hist'.done[j] => i = j
    BY <2>2, <2>3 DEF PortInv, IdInv
  <2>5. \A x, y \in ToSet(srvq') : x.id = y.id => x.seq = y.seq
    BY <1>2 DEF PortInv, IdInv
  <2>6. ASSUME NEW x \in ToSet(srvq'), x.id \in ToSet(hist'.done)
        PROVE  x.seq < sseq + 1
    <3>1. CASE x.id \in ToSet(hist.done)
      BY <1>2, <1>3, <3>1 DEF PortInv, IdInv
    <3>2. CASE x.id = p.id
      BY <1>2, <1>3, <3>2 DEF PortInv, IdInv
    <3> QED BY <1>10, <2>6, <3>1, <3>2
  <2> QED BY <1>1, <2>1, <2>2, <2>4, <2>5, <2>6 DEF IdInv
<1>16. CallInv'
  <2>1. ASSUME up, asked = None, hist.tidy
        PROVE  /\ \A x \in ToSet(srvq') : x.mine => x.seq < seq
               /\ \A x \in ToSet(inbox') : x.seq < seq
    BY <1>2, <1>6, <1>8, <2>1 DEF PortInv, CallInv
  <2>2. ASSUME asked # None, hist.after
        PROVE  /\ \A x \in ToSet(srvq') : x.mine /\ x.seq = seq => x.id = hist.call
               /\ \A x \in ToSet(inbox') : x.seq = seq => hist.call \in ToSet(hist'.done)
    BY <1>2, <1>6, <1>8, <1>10, <2>2 DEF PortInv, CallInv
  <2>3. last = "ok" /\ hist.after => hist.call \in ToSet(hist'.done)
    BY <1>10 DEF PortInv, CallInv
  <2> QED BY <1>1, <1>9, <2>1, <2>2, <2>3 DEF CallInv
<1>17. SoundInv'
  <2>1. ASSUME hist.sound
        PROVE  /\ up => seq < sseq + 1
               /\ \A x \in ToSet(srvq) : x.seq < sseq + 1
               /\ asked # None => asked \in hist.made
               /\ \A x \in ToSet(inbox) : x.seq # seq
    BY <1>2, <1>3, <2>1 DEF PortInv, SoundInv
  <2>2. ASSUME NEW x \in ToSet(inbox'), hist.sound, x.seq = seq
        PROVE  /\ sseq + 1 = seq + 1
               /\ x.cmd = Command(out.call) /\ x.body = out.answer
    <3>1. x = reply
      BY <1>8, <2>1, <2>2
    <3> QED BY <1>6, <2>2, <3>1
  <2>3. sseq + 1 > 0 /\ (up => seq <= sseq + 1 \/ ~hist.sound)
    BY <1>3, <2>1
  <2> QED BY <1>1, <1>2, <1>3, <1>7, <1>9, <2>1, <2>2, <2>3 DEF SoundInv
<1>18. LastInv'
  <2>1. ASSUME hist.sound, asked # None, hist.after,
               NEW x \in ToSet(inbox'), x.seq = seq
        PROVE  p.id = hist.call
    <3>1. x \notin ToSet(inbox)
      <4>1. \A y \in ToSet(inbox) : y.seq # seq
        BY <1>2, <1>3, <2>1 DEF PortInv, SoundInv
      <4> QED BY <2>1, <4>1
    <3>2. x = reply /\ p.mine
      BY <1>8, <2>1, <3>1
    <3> QED BY <1>2, <1>6, <2>1, <3>2 DEF PortInv, CallInv
  <2>2. ~(hist.sound /\ up /\ last = "ok" /\ hist.after)
    BY <1>2, <1>3 DEF PortInv, LastInv
  <2> QED BY <1>1, <1>9, <1>10, <2>1, <2>2 DEF LastInv
<1> QED BY <1>12, <1>13, <1>14, <1>15, <1>16, <1>17, <1>18 DEF PortInv

------------------------------------------------------------------------------
(* The theorems.                                                            *)

LEMMA PortInit ==
  ASSUME Init
  PROVE  PortInv
<1>1. hist \in History /\ hist.did = None /\ hist.made = {} /\ hist.done = <<>>
      /\ hist.call = 0
  <2>1. <<>> \in Seq(Nat)
    BY EmptySeq
  <2> QED BY <2>1 DEF Init, History
<1>2. ToSet(hist.done) = {} /\ DOMAIN hist.done = {}
  BY <1>1, NoDatagrams
<1>3. PortTypeOK
  BY <1>1, NoDatagrams, FreshRegisters DEF Init, PortTypeOK
<1>4. RestInv /\ OwnInv
  BY NoDatagrams DEF Init, RestInv, OwnInv
<1>5. IdInv
  BY <1>1, <1>2, NoDatagrams DEF Init, IdInv
<1>6. CallInv
  BY <1>1, NoDatagrams DEF Init, CallInv
<1>7. SoundInv
  BY <1>1, NoDatagrams DEF Init, SoundInv
<1>8. LastInv
  BY <1>1, NoDatagrams DEF Init, LastInv
<1> QED BY <1>3, <1>4, <1>5, <1>6, <1>7, <1>8 DEF PortInv

LEMMA PortStep ==
  ASSUME PortInv, [Next]_vars
  PROVE  PortInv'
<1>1. CASE Start
  BY <1>1, StartKeeps
<1>2. CASE Stop
  BY <1>2, StopKeeps
<1>3. CASE \E c \in Calls : Begin(c)
  BY <1>3, BeginKeeps
<1>4. CASE Receive
  BY <1>4, ReceiveKeeps, FailsSteps, FailsKeeps
<1>5. CASE Timeout \/ SocketFails
  BY <1>5, FailsSteps, FailsKeeps
<1>6. CASE Serve
  BY <1>6, ServeKeeps, FewerSteps, FewerKeeps
<1>7. CASE Run
  BY <1>7, RunKeeps
<1>8. CASE Lose \/ Copy \/ Kill \/ UNCHANGED vars
  BY <1>8, FewerSteps, FewerKeeps
<1> QED BY <1>1, <1>2, <1>3, <1>4, <1>5, <1>6, <1>7, <1>8 DEF Next

LEMMA PortInvariant == Spec => []PortInv
  BY PortInit, PortStep, PTL DEF Spec

(* An OK of a call that follows an OK, or is the first of its handle, means *)
(* that the simulator carried out the datagram of this very call, once,     *)
(* and, unless it was started behind the handle's back, nothing after it:   *)
(* for any number of datagrams lost, copied and overtaken, of calls, and of *)
(* restarts of both ends.                                                   *)
THEOREM OkIsForItsCall == Spec => []OkIsForThisCall
<1>1. PortInv => OkIsForThisCall
  <2> SUFFICES ASSUME PortInv, up, last = "ok", hist.after
               PROVE  /\ \E i \in DOMAIN hist.done :
                           \A j \in DOMAIN hist.done : hist.done[j] = hist.call <=> j = i
                      /\ hist.sound => Last(hist.done) = hist.call
    BY DEF OkIsForThisCall
  <2>1. hist.sound => Last(hist.done) = hist.call
    BY DEF PortInv, LastInv
  <2>2. hist.call \in ToSet(hist.done)
    BY DEF PortInv, CallInv
  <2>3. PICK i \in DOMAIN hist.done : hist.done[i] = hist.call
    BY <2>2, Queued, ElementsOf DEF PortInv
  <2>4. \A j \in DOMAIN hist.done : hist.done[j] = hist.call <=> j = i
    BY <2>3 DEF PortInv, IdInv
  <2> QED BY <2>1, <2>4
<1> QED BY <1>1, PortInvariant, PTL

(* What the promise sees of a step of the port.                             *)
LEMMA PromiseInit ==
  ASSUME Init
  PROVE  Promise!Init
  BY DEF Init, Promise!Init

LEMMA PromiseStep ==
  ASSUME PortInv, [Next]_vars
  PROVE  [Promise!Next]_(Promise!vars)
<1> DEFINE Same == /\ regs' = regs /\ hist'.made = hist.made /\ hist'.did = hist.did
                   /\ hist'.told = hist.told /\ hist'.sound = hist.sound
<1>1. Same => UNCHANGED Promise!vars
  BY DEF Promise!vars
<1>2. hist \in History /\ hist.sound \in BOOLEAN
  BY DEF PortInv, PortTypeOK, History
<1>3. ~hist'.sound \/ Same => [Promise!Next]_(Promise!vars)
  BY <1>1 DEF Promise!Next, Promise!Break
<1>4. CASE \/ Start \/ Stop \/ Lose \/ Copy \/ Kill \/ Timeout \/ SocketFails
           \/ UNCHANGED vars
           \/ (Receive /\ ~IsReply(Head(inbox), asked))
           \/ (Serve /\ ~Expected(Head(srvq)))
  <2>1. /\ regs' = regs
        /\ hist' = hist \/ \E b \in BOOLEAN : hist' = [hist EXCEPT !.tidy = b]
    BY <1>4 DEF Start, Stop, Lose, Copy, Kill, Timeout, SocketFails, Receive,
                Serve, Failed, End, server, master, vars
  <2>2. Same
    BY <1>2, <2>1 DEF History
  <2> QED BY <1>3, <2>2
<1>5. ASSUME NEW c \in Calls, Begin(c)
      PROVE  [Promise!Next]_(Promise!vars)
  <2>1. CASE TooLarge(c)
    <3>1. Same
      BY <1>5, <2>1 DEF Begin, server
    <3> QED BY <1>3, <3>1
  <2>2. CASE ~TooLarge(c)
    <3>1. /\ regs' = regs /\ hist'.made = hist.made \union {c}
          /\ hist'.did = hist.did /\ hist'.told = hist.told /\ hist'.sound = hist.sound
      BY <1>2, <1>5, <2>2 DEF Begin, server, History
    <3>2. CASE hist.sound
      BY <3>1, <3>2 DEF Promise!Next, Promise!Make
    <3>3. CASE ~hist.sound
      BY <1>3, <3>1, <3>3
    <3> QED BY <3>2, <3>3
  <2> QED BY <2>1, <2>2
<1>6. CASE Receive /\ IsReply(Head(inbox), asked)
  <2> DEFINE r == Head(inbox)
  <2>1. /\ asked # None /\ inbox # <<>> /\ UNCHANGED regs
        /\ hist' = [hist EXCEPT !.made = {}, !.did = None, !.tidy = TRUE,
                                !.told = Head(inbox).body]
    BY <1>6 DEF Receive, End, server
  <2>2. r \in ToSet(inbox) /\ r.seq = seq /\ r.cmd = Command(asked)
    BY <1>6, <2>1, TailSet DEF PortInv, PortTypeOK, IsReply
  <2>3. /\ hist'.made = {} /\ hist'.did = None /\ hist'.told = r.body
        /\ hist'.sound = hist.sound
    BY <1>2, <2>1 DEF History
  <2> HIDE DEF r
  <2>4. CASE hist.sound
    <3>1. /\ hist.did # None /\ asked \in hist.made /\ asked \in Calls
          /\ r.cmd = Command(hist.did.call) /\ r.body = hist.did.answer
      BY <2>1, <2>2, <2>4 DEF PortInv, SoundInv, PortTypeOK
    <3>2. Promise!Tell(asked)
      BY <2>1, <2>2, <2>3, <2>4, <3>1 DEF Promise!Tell
    <3> QED BY <3>1, <3>2 DEF Promise!Next
  <2>5. CASE ~hist.sound
    BY <1>3, <2>3, <2>5
  <2> QED BY <2>4, <2>5
<1>7. CASE Serve /\ Expected(Head(srvq))
  <2> DEFINE p == Head(srvq)
             out == [call |-> p.call, answer |-> Answer(regs, p.call)]
  <2>1. /\ srvq # <<>> /\ regs' = Carried(regs, p.call) /\ p.seq = sseq
        /\ hist' = [hist EXCEPT !.did = out, !.done = Append(@, p.id)]
    BY <1>7 DEF Serve, Expected
  <2>2. p \in ToSet(srvq)
    BY <2>1, TailSet DEF PortInv, PortTypeOK
  <2>3. p.call \in Calls /\ sseq \in Nat
    BY <2>2, Queued DEF PortInv, PortTypeOK
  <2>4. /\ hist'.did = out /\ hist'.made = hist.made
        /\ hist'.told = hist.told /\ hist'.sound = hist.sound
    BY <1>2, <2>1 DEF History
  <2>5. CASE hist.sound
    <3>1. hist.did = None /\ p.call \in hist.made
      BY <2>1, <2>2, <2>3, <2>5 DEF PortInv, SoundInv
    <3>2. Promise!Do(p.call)
      BY <2>1, <2>4, <2>5, <3>1 DEF Promise!Do
    <3> QED BY <2>3, <3>2 DEF Promise!Next
  <2>6. CASE ~hist.sound
    BY <1>3, <2>4, <2>6
  <2> QED BY <2>5, <2>6
<1>8. CASE Run
  <2>1. /\ regs' = Fresh /\ hist'.made = {} /\ hist'.did = None
        /\ hist'.told = hist.told /\ hist'.sound = ~up
    BY <1>2, <1>8 DEF Run, master, History
  <2>2. CASE up
    BY <1>3, <2>1, <2>2
  <2>3. CASE ~up
    BY <2>1, <2>3 DEF Promise!Next, Promise!Restart
  <2> QED BY <2>2, <2>3
<1> QED BY <1>4, <1>5, <1>6, <1>7, <1>8 DEF Next

(* The port implements the promise of the device: whatever is lost, copied  *)
(* or started again, one call is carried out from one OK to the next, and   *)
(* an OK brings the answer of that call.                                    *)
THEOREM PortKeepsPromise == Spec => ImplementsRemote
<1>1. Spec => Promise!Spec
  BY PromiseInit, PromiseStep, PortInvariant, PTL DEF Spec, Promise!Spec
<1> QED BY <1>1 DEF ImplementsRemote

------------------------------------------------------------------------------
(* The driver of the WIZ820io.  First the counters: they are numbers modulo *)
(* Counters, and what they point at is modulo Mem, which divides it.        *)

LEMMA Multiples ==
  ASSUME NEW m \in Nat \ {0}, NEW k \in Int, k >= 1
  PROVE  m * k >= m
  OBVIOUS

LEMMA DivMod ==
  ASSUME NEW m \in Nat \ {0}, NEW x \in Nat
  PROVE  /\ x = m * (x \div m) + (x % m)
         /\ x \div m \in Nat /\ x % m \in 0 .. m - 1
<1> DEFINE q == x \div m
           r == x % m
<1>1. x = m * q + r
  OBVIOUS
<1>11. q \in Int /\ r \in 0 .. m - 1
  OBVIOUS
<1> HIDE DEF q, r
<1>2. ASSUME q < 0 PROVE FALSE
  <2>1. m * (0 - q) >= m
    BY <1>11, <1>2, Multiples
  <2>2. m * (0 - q) = 0 - m * q
    BY <1>11
  <2>3. m * q \in Int /\ m * (0 - q) \in Int
    BY <1>11
  <2>4. x < 0
    BY <1>1, <1>11, <2>1, <2>2, <2>3
  <2> QED BY <2>4
<1>3. q \in Nat
  BY <1>11, <1>2
<1> QED BY <1>1, <1>11, <1>3 DEF q, r

LEMMA ModIs ==
  ASSUME NEW m \in Nat \ {0}, NEW x \in Nat, NEW k \in Int, NEW r \in 0 .. m - 1,
         x = m * k + r
  PROVE  x % m = r
<1> DEFINE q == x \div m
           s == x % m
<1>0. x = m * q + s /\ q \in Nat /\ s \in 0 .. m - 1
  BY DivMod, Zenon
<1>1. x = m * q + s /\ q \in Int /\ s \in 0 .. m - 1
  BY <1>0
<1> HIDE DEF q, s
<1>2. CASE q > k
  <2>1. m * (q - k) = r - s
    BY <1>1
  <2>2. m * (q - k) >= m
    BY <1>1, <1>2, Multiples
  <2> QED BY <1>1, <2>1, <2>2
<1>3. CASE k > q
  <2>1. m * (k - q) = s - r
    BY <1>1
  <2>2. m * (k - q) >= m
    BY <1>1, <1>3, Multiples
  <2> QED BY <1>1, <2>1, <2>2
<1>4. CASE k = q
  BY <1>1, <1>4 DEF s
<1> QED BY <1>1, <1>2, <1>3, <1>4

LEMMA ModOfMod ==
  ASSUME NEW m \in Nat \ {0}, NEW c \in Nat \ {0}, c % m = 0, NEW x \in Nat
  PROVE  (x % c) % m = x % m
<1> DEFINE a == c \div m
           b == x \div c
           y == x % c
           d == y \div m
           r == y % m
<1>1. c = m * a /\ a \in Nat
  BY DivMod
<1>2. x = c * b + y /\ b \in Nat /\ y \in Nat
  BY DivMod
<1> HIDE DEF a, b, y
<1>3. y = m * d + r /\ d \in Nat /\ r \in 0 .. m - 1
  BY <1>2, DivMod
<1> HIDE DEF d, r
<1>4. x = m * (a * b + d) + r
  <2>1. c * b = m * (a * b)
    BY <1>1, <1>2
  <2> DEFINE e == a * b
  <2>2. e \in Int
    BY <1>1, <1>2
  <2> HIDE DEF e
  <2>3. m * (e + d) = m * e + m * d
    BY <1>3, <2>2
  <2>4. x = m * (e + d) + r
    <3>1. m * e \in Int /\ m * d \in Int
      BY <1>3, <2>2
    <3> QED BY <1>2, <1>3, <2>1, <2>3, <3>1 DEF e
  <2> QED BY <2>4 DEF e
<1>5. a * b + d \in Int
  BY <1>1, <1>2, <1>3
<1>6. x % m = r
  BY <1>3, <1>4, <1>5, ModIs
<1> QED BY <1>6 DEF r, y

(* The place of a byte that follows another by k bytes.                     *)
LEMMA ModOfSum ==
  ASSUME NEW m \in Nat \ {0}, NEW x \in Nat, NEW k \in 0 .. m - 1
  PROVE  (x + k) % m = IF (x % m) + k < m THEN (x % m) + k ELSE (x % m) + k - m
<1> DEFINE q == x \div m
           r == x % m
<1>1. x = m * q + r /\ q \in Int /\ r \in 0 .. m - 1
  BY DivMod
<1> HIDE DEF q, r
<1>2. CASE r + k < m
  <2>1. x + k = m * q + (r + k) /\ r + k \in 0 .. m - 1
    BY <1>1, <1>2
  <2>2. (x + k) % m = r + k
    BY <1>1, <2>1, ModIs
  <2> QED BY <1>2, <2>2 DEF r
<1>3. CASE ~(r + k < m)
  <2>1. m * (q + 1) = m * q + m
    BY <1>1
  <2>2. x + k = m * (q + 1) + (r + k - m) /\ r + k - m \in 0 .. m - 1
    BY <1>1, <1>3, <2>1
  <2>3. (x + k) % m = r + k - m
    <3>1. q + 1 \in Int /\ x + k \in Nat
      BY <1>1
    <3> QED BY <2>2, <3>1, ModIs
  <2> QED BY <1>3, <2>3 DEF r
<1> QED BY <1>2, <1>3

Bytes(p) == {Wiz!Data(p)[i] : i \in 1 .. p[2]}
Waits(s) == io.op = "wait" /\ io.sock = s
Holds(t, ptr, p, n) == \A i \in 1 .. n : t.mem[Wiz!At(ptr, i - 1)] = Wiz!Data(p)[i]

IoType ==
  /\ io = [op |-> io.op, sock |-> io.sock, pkt |-> io.pkt, len |-> io.len,
           data |-> io.data]
  /\ io.op \in {"none", "recv", "send", "wait"}
  /\ io.sock \in Sockets
  /\ io.op \in {"send", "wait"} =>
       /\ mode[io.sock] # "closed"
       /\ io.pkt \in Packets /\ io.len = io.pkt[2] /\ io.len \in 0 .. Mem
       /\ io.data \in Seq(Bytes(io.pkt)) /\ Len(io.data) <= io.len

RingType(t) ==
  /\ t = [mem |-> t.mem, wr |-> t.wr, rd |-> t.rd, upto |-> t.upto]
  /\ t.wr \in 0 .. Counters - 1 /\ t.rd \in 0 .. Counters - 1
  /\ t.upto \in 0 .. Counters - 1

TxType ==
  /\ tx = [s \in Sockets |-> tx[s]]
  /\ ir = [s \in Sockets |-> ir[s]] /\ wire = [s \in Sockets |-> wire[s]]
  /\ mode = [s \in Sockets |-> mode[s]]
  /\ \A s \in Sockets : RingType(tx[s])

AtRest ==
  \A s \in sound : ~Waits(s) =>
    /\ ir[s] = {} /\ tx[s].rd = tx[s].upto
    /\ mode[s] # "closed" => tx[s].wr = tx[s].upto

Filling ==
  \A s \in sound : io.op = "send" /\ io.sock = s =>
    Holds(tx[s], tx[s].wr, io.pkt, Len(io.data))

Waiting ==
  \A s \in sound : Waits(s) =>
    /\ tx[s].wr = tx[s].upto
    /\ tx[s].rd # tx[s].upto =>
         /\ ir[s] = {} /\ tx[s].upto = Wiz!Plus(tx[s].rd, io.len)
         /\ Holds(tx[s], tx[s].rd, io.pkt, io.len)
    /\ tx[s].rd = tx[s].upto =>
         /\ ir[s] \in {{}, {"sent"}, {"timeout"}}
         /\ "sent" \in ir[s] => wire[s] = Wiz!Data(io.pkt)

SendInv == IoType /\ TxType /\ AtRest /\ Filling /\ Waiting /\ sound \subseteq Sockets

LEMMA Sizes ==
  /\ Mem \in Nat \ {0} /\ Counters \in Nat \ {0} /\ Counters % Mem = 0
  /\ Mem <= Counters
  /\ \A p \in Packets : p[2] \in Nat
  /\ 0 \in Sockets
<1>1. /\ Mem \in Nat \ {0} /\ Counters \in Nat \ {0} /\ Counters % Mem = 0
      /\ \A p \in Packets : p[2] \in Nat
      /\ 0 \in Sockets
  BY NetworkAssumption DEF Wiz!WizAssumption
<1>2. Mem <= Counters
  <2> DEFINE q == Counters \div Mem
  <2>1. Counters = Mem * q + (Counters % Mem) /\ q \in Nat
    BY <1>1, DivMod
  <2> HIDE DEF q
  <2>2. q # 0
    BY <1>1, <2>1
  <2> QED BY <1>1, <2>1, <2>2, Multiples
<1> QED BY <1>1, <1>2

LEMMA AtRange ==
  ASSUME NEW ptr \in Nat, NEW i \in 0 .. Mem - 1
  PROVE  Wiz!At(ptr, i) \in 0 .. Mem - 1
<1> DEFINE r == ptr % Mem
<1>1. r \in 0 .. Mem - 1
  BY Sizes, DivMod
<1> HIDE DEF r
<1>2. (IF r + i < Mem THEN r + i ELSE (r + i) - Mem) \in 0 .. Mem - 1
  BY <1>1, Sizes
<1> QED BY <1>2 DEF Wiz!At, r

LEMMA AtApart ==
  ASSUME NEW ptr \in Nat, NEW i \in 0 .. Mem - 1, NEW j \in 0 .. Mem - 1,
         Wiz!At(ptr, i) = Wiz!At(ptr, j)
  PROVE  i = j
<1> DEFINE r == ptr % Mem
<1>1. r \in 0 .. Mem - 1
  BY Sizes, DivMod
<1> HIDE DEF r
<1>2. (IF r + i < Mem THEN r + i ELSE (r + i) - Mem)
        = (IF r + j < Mem THEN r + j ELSE (r + j) - Mem)
  BY DEF Wiz!At, r
<1> QED BY <1>1, <1>2, Sizes

LEMMA PlusRange ==
  ASSUME NEW ptr \in Nat, NEW k \in Nat
  PROVE  Wiz!Plus(ptr, k) \in 0 .. Counters - 1
<1>1. ptr + k \in Nat
  OBVIOUS
<1> QED BY <1>1, Sizes, DivMod DEF Wiz!Plus

(* A counter that has moved on by k points k bytes on.                      *)
LEMMA AtPlus ==
  ASSUME NEW ptr \in Nat, NEW k \in 0 .. Mem - 1, NEW i \in Nat, k + i < Mem
  PROVE  Wiz!At(Wiz!Plus(ptr, k), i) = Wiz!At(ptr, k + i)
<1> DEFINE r == ptr % Mem
           q == Wiz!Plus(ptr, k) % Mem
<1>1. r \in 0 .. Mem - 1
  BY Sizes, DivMod
<1>2. q = (ptr + k) % Mem
  <2>1. ptr + k \in Nat
    OBVIOUS
  <2> QED BY <2>1, Sizes, ModOfMod DEF Wiz!Plus
<1>3. (ptr + k) % Mem = IF r + k < Mem THEN r + k ELSE r + k - Mem
  BY Sizes, ModOfSum
<1>4. /\ Wiz!At(Wiz!Plus(ptr, k), i) = IF q + i < Mem THEN q + i ELSE (q + i) - Mem
      /\ Wiz!At(ptr, k + i) = IF r + (k + i) < Mem THEN r + (k + i)
                                                  ELSE (r + (k + i)) - Mem
  BY DEF Wiz!At
<1> HIDE DEF r, q
<1> QED BY <1>1, <1>2, <1>3, <1>4, Sizes

IsWritten(mem, ptr, n, data) ==
  /\ \A i \in 1 .. n : Wiz!Written(mem, ptr, data)[Wiz!At(ptr, i - 1)] = data[i]
  /\ \A b \in 0 .. Mem - 1 :
       (\A i \in 1 .. n : Wiz!At(ptr, i - 1) # b) =>
         Wiz!Written(mem, ptr, data)[b] = mem[b]

(* What is written to a ring is found there, and the rest is as it was.     *)
LEMMA WrittenHolds ==
  ASSUME NEW mem, NEW ptr \in Nat, NEW n \in 0 .. Mem, NEW data,
         DOMAIN data = 1 .. n
  PROVE  IsWritten(mem, ptr, n, data)
<1> DEFINE w == Wiz!Written(mem, ptr, data)
           Hits(i, b) == Wiz!At(ptr, i - 1) = b
<1>1. \A b \in 0 .. Mem - 1 :
        w[b] = IF \E i \in 1 .. n : Hits(i, b)
               THEN data[CHOOSE i \in 1 .. n : Hits(i, b)] ELSE mem[b]
  BY DEF Wiz!Written
<1> HIDE DEF w
<1>2. ASSUME NEW i \in 1 .. n PROVE w[Wiz!At(ptr, i - 1)] = data[i]
  <2> DEFINE b == Wiz!At(ptr, i - 1)
             j == CHOOSE j \in 1 .. n : Hits(j, b)
  <2>1. b \in 0 .. Mem - 1
    <3>1. i - 1 \in 0 .. Mem - 1
      BY Sizes
    <3> QED BY <3>1, AtRange
  <2>2. Hits(i, b)
    OBVIOUS
  <2> HIDE DEF b, Hits
  <2>3. j \in 1 .. n /\ Hits(j, b)
    BY <2>2, Zenon
  <2> HIDE DEF j
  <2>4. j = i
    <3>1. Wiz!At(ptr, j - 1) = Wiz!At(ptr, i - 1)
      BY <2>3 DEF Hits, b
    <3>2. i - 1 \in 0 .. Mem - 1 /\ j - 1 \in 0 .. Mem - 1
      BY <2>3, Sizes
    <3>3. i - 1 = j - 1
      BY <3>1, <3>2, AtApart
    <3> QED BY <2>3, <3>3
  <2>5. w[b] = data[j]
    BY <1>1, <2>1, <2>2, Zenon DEF j
  <2> QED BY <2>4, <2>5 DEF b
<1>3. ASSUME NEW b \in 0 .. Mem - 1, \A i \in 1 .. n : Wiz!At(ptr, i - 1) # b
      PROVE  w[b] = mem[b]
  BY <1>1, <1>3
<1> QED BY <1>2, <1>3 DEF w, IsWritten

LEMMA DataIs ==
  ASSUME NEW p, p[2] \in Nat
  PROVE  /\ Wiz!Data(p) \in Seq(Bytes(p)) /\ Len(Wiz!Data(p)) = p[2]
         /\ Wiz!Data(p) = [i \in 1 .. p[2] |-> Wiz!Data(p)[i]]
<1> DEFINE d == Wiz!Data(p)
<1>1. d = [i \in 1 .. p[2] |-> d[i]]
  BY DEF Wiz!Data
<1>2. \A i \in 1 .. p[2] : d[i] \in Bytes(p)
  BY DEF Bytes
<1> HIDE DEF d
<1>3. d \in [1 .. p[2] -> Bytes(p)]
  BY <1>1, <1>2
<1>4. d \in Seq(Bytes(p)) /\ Len(d) = p[2]
  BY <1>3
<1> QED BY <1>1, <1>4 DEF d

(* How far a counter is from one that is n bytes behind.                    *)
LEMMA MinusPlus ==
  ASSUME NEW ptr \in 0 .. Counters - 1, NEW n \in 0 .. Mem,
         Wiz!Plus(ptr, n) # ptr
  PROVE  Wiz!Minus(Wiz!Plus(ptr, n), ptr) = n
<1> DEFINE c == Counters
<1>1. c \in Nat \ {0} /\ n \in Nat /\ n <= c
  BY Sizes
<1> HIDE DEF c
<1>2. ptr % c = ptr
  <2>1. ptr = c * 0 + ptr /\ ptr \in 0 .. c - 1 /\ ptr \in Nat
    BY <1>1 DEF c
  <2> QED BY <1>1, <2>1, ModIs
<1>3. n # c
  <2>1. ASSUME n = c PROVE Wiz!Plus(ptr, n) = ptr
    <3>1. ptr + c = c * 1 + ptr /\ ptr \in 0 .. c - 1 /\ ptr + c \in Nat
      BY <1>1 DEF c
    <3>2. (ptr + c) % c = ptr
      BY <1>1, <3>1, ModIs
    <3> QED BY <2>1, <3>2 DEF Wiz!Plus, c
  <2> QED BY <2>1
<1>4. n \in 0 .. c - 1 /\ ptr \in 0 .. c - 1 /\ ptr \in Nat
  BY <1>1, <1>3 DEF c
<1>5. (ptr + n) % c = IF ptr + n < c THEN ptr + n ELSE ptr + n - c
  BY <1>1, <1>2, <1>4, ModOfSum
<1> DEFINE u == Wiz!Plus(ptr, n)
<1>6. u = IF ptr + n < c THEN ptr + n ELSE ptr + n - c
  BY <1>5 DEF Wiz!Plus, c
<1>7. (u + c - ptr) % c = n
  <2>1. CASE ptr + n < c
    <3>1. u + c - ptr = c * 1 + n /\ u + c - ptr \in Nat
      BY <1>1, <1>4, <1>6, <2>1
    <3> QED BY <1>1, <1>4, <3>1, ModIs
  <2>2. CASE ~(ptr + n < c)
    <3>1. u + c - ptr = c * 0 + n /\ u + c - ptr \in Nat
      BY <1>1, <1>4, <1>6, <2>2
    <3> QED BY <1>1, <1>4, <3>1, ModIs
  <2> QED BY <2>1, <2>2
<1> QED BY <1>7 DEF Wiz!Minus, c

LEMMA EmptyRing == RingType(Wiz!EmptyTx)
  BY Sizes DEF RingType, Wiz!EmptyTx

LEMMA RingChanges ==
  ASSUME NEW f, f = [s \in Sockets |-> f[s]], \A s \in Sockets : RingType(f[s]),
         NEW s \in Sockets, NEW t, RingType(t), NEW g, g = [f EXCEPT ![s] = t]
  PROVE  /\ g = [r \in Sockets |-> g[r]] /\ \A r \in Sockets : RingType(g[r])
         /\ g[s] = t /\ \A r \in Sockets : r # s => g[r] = f[r]
<1>1. g[s] = t /\ \A r \in Sockets : r # s => g[r] = f[r]
  OBVIOUS
<1>2. g = [r \in Sockets |-> g[r]]
  OBVIOUS
<1> QED BY <1>1, <1>2, Zenon

LEMMA SendInit == Wiz!Init => SendInv /\ OkWhenSent
<1> SUFFICES ASSUME Wiz!Init PROVE SendInv /\ OkWhenSent
  OBVIOUS
<1>1. /\ mode = [s \in Sockets |-> "closed"]
      /\ tx = [s \in Sockets |-> Wiz!EmptyTx] /\ ir = [s \in Sockets |-> {}]
      /\ io = Wiz!NoIo /\ result = Wiz!NoResult
      /\ wire = [s \in Sockets |-> <<>>] /\ sound = {}
  BY DEF Wiz!Init
<1>2. IoType
  BY <1>1, Sizes DEF IoType, Wiz!NoIo
<1>3. TxType
  BY <1>1, EmptyRing DEF TxType
<1>4. AtRest /\ Filling /\ Waiting /\ sound \subseteq Sockets
  BY <1>1 DEF AtRest, Filling, Waiting
<1>5. OkWhenSent
  BY <1>1 DEF OkWhenSent, Wiz!OkWhenSent, Wiz!NoResult
<1> QED BY <1>2, <1>3, <1>4, <1>5 DEF SendInv

(* A step that leaves the rings sent from, the interrupts and the wire, and *)
(* in which at most sockets stop being sound.                               *)
LEMMA Keeps ==
  ASSUME SendInv, UNCHANGED <<mode, tx, ir, wire>>, sound' \subseteq sound,
         IoType',
         \/ io.op \in {"none", "recv"} /\ io'.op \in {"none", "recv"}
         \/ io' = io
  PROVE  SendInv'
<1> USE DEF SendInv
<1>1. TxType'
  BY DEF TxType
<1>2. CASE io' = io
  <2>1. AtRest'
    BY <1>2 DEF AtRest, Waits
  <2>2. Filling'
    <3>1. \A s \in sound' : io'.op = "send" /\ io'.sock = s =>
            Holds(tx'[s], tx'[s].wr, io'.pkt, Len(io'.data))
      BY <1>2 DEF Filling
    <3> QED BY <3>1 DEF Filling, Holds, Wiz!At, Wiz!Data
  <2>3. Waiting'
    BY <1>2 DEF Waiting, Waits, Holds, Wiz!At, Wiz!Data, Wiz!Plus
  <2> QED BY <1>1, <2>1, <2>2, <2>3
<1>3. CASE io.op \in {"none", "recv"} /\ io'.op \in {"none", "recv"}
  <2>1. \A s \in sound : ir[s] = {} /\ tx[s].rd = tx[s].upto
          /\ (mode[s] # "closed" => tx[s].wr = tx[s].upto)
    BY <1>3 DEF AtRest, Waits
  <2>2. AtRest'
    BY <2>1 DEF AtRest
  <2>3. Filling' /\ Waiting'
    BY <1>3 DEF Filling, Waiting, Waits
  <2> QED BY <1>1, <2>2, <2>3
<1> QED BY <1>2, <1>3

LEMMA OkKept ==
  ASSUME OkWhenSent, \/ result' = result /\ sound' \subseteq sound
                     \/ result'.res # "sent"
  PROVE  OkWhenSent'
  BY DEF OkWhenSent, Wiz!OkWhenSent

LEMMA ArrivesStep ==
  ASSUME NEW s \in Sockets, NEW p \in Packets, SendInv, OkWhenSent, Wiz!Arrives(s, p)
  PROVE  SendInv' /\ OkWhenSent'
<1>1. UNCHANGED <<mode, tx, ir, wire, io, result, sound>>
  BY DEF Wiz!Arrives, Wiz!sockets
<1>2. IoType'
  BY <1>1 DEF SendInv, IoType, Bytes, Wiz!Data
<1> QED BY <1>1, <1>2, Keeps, OkKept

LEMMA SendBeginStep ==
  ASSUME NEW s \in Sockets, NEW p \in Packets, SendInv, OkWhenSent, Wiz!SendBegin(s, p)
  PROVE  SendInv' /\ OkWhenSent'
<1>1. /\ io = Wiz!NoIo /\ mode[s] # "closed"
      /\ UNCHANGED <<mode, tx, ir, wire, sound>>
  BY DEF Wiz!SendBegin, Wiz!sockets
<1>2. CASE Wiz!TxFree(0) < p[2]
  <2>1. io' = io /\ result'.res = "no memory"
    BY <1>2 DEF Wiz!SendBegin, Wiz!NoResult
  <2>2. IoType'
    BY <1>1, <2>1 DEF SendInv, IoType, Bytes, Wiz!Data
  <2> QED BY <1>1, <2>1, <2>2, Keeps, OkKept
<1>3. CASE ~(Wiz!TxFree(0) < p[2])
  <2>1. /\ io' = [op |-> "send", sock |-> s, pkt |-> p, len |-> p[2], data |-> <<>>]
        /\ result' = result
    BY <1>3 DEF Wiz!SendBegin
  <2>2. p[2] \in 0 .. Mem
    <3> DEFINE m == Wiz!Minus(tx[0].wr, tx[0].rd)
    <3>1. m \in Nat
      <4>1. /\ tx[0].wr \in 0 .. Counters - 1 /\ tx[0].rd \in 0 .. Counters - 1
        BY Sizes DEF SendInv, TxType, RingType
      <4>2. tx[0].wr + Counters - tx[0].rd \in Nat
        BY <4>1, Sizes
      <4> QED BY <4>2, Sizes, DivMod DEF Wiz!Minus
    <3>2. ~(Mem - m < p[2])
      BY <1>3 DEF Wiz!TxFree
    <3> HIDE DEF m
    <3> QED BY <3>1, <3>2, Sizes
  <2>3. <<>> \in Seq(Bytes(p)) /\ Len(<<>>) = 0
    OBVIOUS
  <2>4. IoType'
    <3>1. /\ io'.op = "send" /\ io'.sock = s /\ io'.pkt = p /\ io'.len = p[2]
          /\ io'.data = <<>>
      BY <2>1
    <3>2. Bytes(p)' = Bytes(p)
      BY DEF Bytes, Wiz!Data
    <3>3. io'.data \in Seq(Bytes(io'.pkt)) /\ Len(io'.data) <= io'.len
      BY <2>2, <2>3, <3>1
    <3> QED BY <1>1, <2>1, <2>2, <3>1, <3>3 DEF IoType, Bytes, Wiz!Data
  <2>5. TxType'
    BY <1>1 DEF SendInv, TxType
  <2>6. AtRest' /\ Waiting'
    BY <1>1, <2>1 DEF SendInv, AtRest, Waiting, Waits, Wiz!NoIo
  <2>7. Filling'
    BY <2>1, <2>3 DEF Filling, Holds
  <2> QED BY <1>1, <2>1, <2>4, <2>5, <2>6, <2>7, OkKept DEF SendInv
<1> QED BY <1>2, <1>3

LEMMA OpenStep ==
  ASSUME NEW s \in Sockets, NEW m, SendInv, OkWhenSent, Wiz!Open(s, m)
  PROVE  SendInv' /\ OkWhenSent'
<1> USE DEF SendInv
<1>1. /\ io = Wiz!NoIo /\ io' = io /\ UNCHANGED <<ir, wire>>
      /\ mode' = [mode EXCEPT ![s] = m] /\ result' = Wiz!NoResult
  BY DEF Wiz!Open, Wiz!WriteMode
<1>2. \/ /\ tx' = [tx EXCEPT ![s] = Wiz!EmptyTx]
         /\ sound' = IF ir[s] = {} THEN sound \union {s} ELSE sound
      \/ tx' = tx /\ sound' = sound \ {s}
  BY DEF Wiz!Open, Wiz!CmdFault
<1>3. io.op = "none"
  BY <1>1 DEF Wiz!NoIo
<1>4. \A r \in sound : ir[r] = {} /\ tx[r].rd = tx[r].upto
        /\ (mode[r] # "closed" => tx[r].wr = tx[r].upto)
  BY <1>3 DEF AtRest, Waits
<1>5. IoType'
  BY <1>1, <1>3 DEF IoType
<1>6. TxType'
  <2>1. CASE tx' = tx
    BY <1>1, <2>1 DEF TxType
  <2>2. CASE tx' = [tx EXCEPT ![s] = Wiz!EmptyTx]
    BY <1>1, <2>2, RingChanges, EmptyRing DEF TxType
  <2> QED BY <1>2, <2>1, <2>2
<1>7. \A r \in sound' : ir[r] = {}
  BY <1>2, <1>4
<1>8. ASSUME NEW r \in sound'
      PROVE  /\ tx'[r].rd = tx'[r].upto
             /\ mode'[r] # "closed" => tx'[r].wr = tx'[r].upto
  <2>1. CASE r = s
    <3>1. tx' = [tx EXCEPT ![s] = Wiz!EmptyTx]
      BY <1>2, <1>8, <2>1
    <3> QED BY <2>1, <3>1 DEF TxType, Wiz!EmptyTx
  <2>2. CASE r # s
    <3>1. tx'[r] = tx[r] /\ mode'[r] = mode[r] /\ r \in sound
      BY <1>1, <1>2, <2>2 DEF TxType
    <3> QED BY <1>4, <3>1
  <2> QED BY <2>1, <2>2
<1>9. AtRest'
  BY <1>1, <1>7, <1>8 DEF AtRest
<1>10. Filling' /\ Waiting'
  BY <1>1, <1>3 DEF Filling, Waiting, Waits
<1>11. sound' \subseteq Sockets
  BY <1>2
<1>12. OkWhenSent'
  BY <1>1, OkKept DEF Wiz!NoResult
<1> QED BY <1>5, <1>6, <1>9, <1>10, <1>11, <1>12

LEMMA CloseStep ==
  ASSUME NEW s \in Sockets, SendInv, OkWhenSent, Wiz!Close(s)
  PROVE  SendInv' /\ OkWhenSent'
<1> USE DEF SendInv
<1>1. /\ io = Wiz!NoIo /\ io' = io /\ wire' = wire
      /\ mode' = [mode EXCEPT ![s] = "closed"] /\ ir' = [ir EXCEPT ![s] = {}]
      /\ result' = Wiz!NoResult
  BY DEF Wiz!Close, Wiz!WriteMode, Wiz!WriteIr
<1>2. /\ sound' = sound \ {s}
      /\ tx' = [tx EXCEPT ![s].upto = tx[s].rd] \/ tx' = tx
  BY DEF Wiz!Close, Wiz!CmdFault
<1>3. io.op = "none"
  BY <1>1 DEF Wiz!NoIo
<1>4. \A r \in sound : ir[r] = {} /\ tx[r].rd = tx[r].upto
        /\ (mode[r] # "closed" => tx[r].wr = tx[r].upto)
  BY <1>3 DEF AtRest, Waits
<1>5. IoType'
  BY <1>1, <1>3 DEF IoType
<1>6. TxType'
  <2>1. CASE tx' = tx
    BY <1>1, <2>1 DEF TxType
  <2>2. CASE tx' = [tx EXCEPT ![s].upto = tx[s].rd]
    <3> DEFINE t == [tx[s] EXCEPT !.upto = tx[s].rd]
    <3>1. tx' = [tx EXCEPT ![s] = t]
      BY <2>2
    <3>2. RingType(t)
      BY DEF TxType, RingType
    <3> HIDE DEF t
    <3> QED BY <1>1, <3>1, <3>2, RingChanges DEF TxType
  <2> QED BY <1>2, <2>1, <2>2
<1>8. ASSUME NEW r \in sound'
      PROVE  /\ ir'[r] = {} /\ tx'[r].rd = tx'[r].upto
             /\ mode'[r] # "closed" => tx'[r].wr = tx'[r].upto
  <2>1. r # s /\ r \in sound
    BY <1>2, <1>8
  <2>2. tx'[r] = tx[r] /\ mode'[r] = mode[r] /\ ir'[r] = ir[r]
    BY <1>1, <1>2, <2>1 DEF TxType
  <2> QED BY <1>4, <2>1, <2>2
<1>9. AtRest'
  BY <1>8 DEF AtRest
<1>10. Filling' /\ Waiting'
  BY <1>1, <1>3 DEF Filling, Waiting, Waits
<1>11. sound' \subseteq Sockets
  BY <1>2
<1>12. OkWhenSent'
  BY <1>1, OkKept DEF Wiz!NoResult
<1> QED BY <1>5, <1>6, <1>9, <1>10, <1>11, <1>12

LEMMA RecvStep ==
  ASSUME SendInv, OkWhenSent,
         \/ \E s \in Sockets : Wiz!RecvBegin(s)
         \/ \E n \in 1 .. Mem : Wiz!RecvData(n)
         \/ Wiz!RecvEnd
  PROVE  SendInv' /\ OkWhenSent'
<1>1. ASSUME NEW s \in Sockets, Wiz!RecvBegin(s) PROVE SendInv' /\ OkWhenSent'
  <2>1. /\ io.op = "none" /\ io'.op = "recv"
        /\ UNCHANGED <<mode, tx, ir, wire, result, sound>>
        /\ io'.sock = s
        /\ io' = [op |-> io'.op, sock |-> io'.sock, pkt |-> io'.pkt,
                  len |-> io'.len, data |-> io'.data]
    BY <1>1 DEF Wiz!RecvBegin, Wiz!sockets, Wiz!NoIo
  <2>2. IoType'
    BY <2>1 DEF IoType
  <2> QED BY <2>1, <2>2, Keeps, OkKept
<1>2. ASSUME NEW n \in 1 .. Mem, Wiz!RecvData(n) PROVE SendInv' /\ OkWhenSent'
  <2> DEFINE d == io.data \o Wiz!Read(rx[io.sock].mem,
                    Wiz!Plus(rx[io.sock].rd, Wiz!HdrSize(io.sock) + Len(io.data)), n)
  <2>1. /\ io.op = "recv" /\ io' = [io EXCEPT !.data = d]
        /\ UNCHANGED <<mode, tx, ir, wire, result, sound>>
    BY <1>2 DEF Wiz!RecvData, Wiz!sockets
  <2> HIDE DEF d
  <2>2. /\ io'.op = "recv" /\ io'.sock = io.sock
        /\ io' = [op |-> io'.op, sock |-> io'.sock, pkt |-> io'.pkt,
                  len |-> io'.len, data |-> io'.data]
    BY <2>1 DEF SendInv, IoType
  <2>3. IoType'
    BY <2>2 DEF SendInv, IoType
  <2> QED BY <2>1, <2>2, <2>3, Keeps, OkKept
<1>3. CASE Wiz!RecvEnd
  <2>1. /\ io.op = "recv" /\ io' = Wiz!NoIo /\ result'.res = "got"
        /\ UNCHANGED <<mode, tx, ir, wire>> /\ sound' \subseteq sound
    BY <1>3 DEF Wiz!RecvEnd, Wiz!sockets, Wiz!CmdFault, Wiz!NoResult
  <2>2. IoType'
    BY <2>1, Sizes DEF IoType, Wiz!NoIo
  <2>3. io'.op = "none"
    BY <2>1 DEF Wiz!NoIo
  <2> QED BY <2>1, <2>2, <2>3, Keeps, OkKept
<1> QED BY <1>1, <1>2, <1>3

(* The packet, or the rest of it, comes to lie behind what came before.     *)
LEMMA SendDataStep ==
  ASSUME NEW n \in 1 .. Mem, SendInv, OkWhenSent, Wiz!SendData(n)
  PROVE  SendInv' /\ OkWhenSent'
<1> USE DEF SendInv
<1> DEFINE s == io.sock
           k == Len(io.data)
           D == Wiz!Data(io.pkt)
           piece == SubSeq(D, k + 1, k + n)
           ptr == Wiz!Plus(tx[s].wr, k)
           mem == Wiz!Written(tx[s].mem, ptr, piece)
           t == [tx[s] EXCEPT !.mem = mem]
<1>1. /\ io.op = "send" /\ k + n <= io.len
      /\ tx' = [tx EXCEPT ![s].mem = mem]
      /\ io' = [io EXCEPT !.data = io.data \o piece]
      /\ UNCHANGED <<mode, ir, wire, result, sound>>
  BY DEF Wiz!SendData, Wiz!sockets
<1>2. /\ s \in Sockets /\ io.pkt \in Packets /\ io.len = io.pkt[2]
      /\ io.len \in 0 .. Mem /\ io.data \in Seq(Bytes(io.pkt)) /\ k <= io.len
      /\ k \in Nat /\ mode[s] # "closed"
  BY <1>1 DEF IoType
<1>3. /\ D \in Seq(Bytes(io.pkt)) /\ Len(D) = io.len
  BY <1>2, Sizes, DataIs
<1> HIDE DEF D
<1>4. /\ piece \in Seq(Bytes(io.pkt)) /\ Len(piece) = n
      /\ \A j \in 1 .. n : piece[j] = D[k + j]
  <2>1. \A i \in k + 1 .. k + n : D[i] \in Bytes(io.pkt)
    BY <1>1, <1>2, <1>3
  <2>2. /\ k + 1 \in Int /\ k + n \in Int /\ k + 1 <= k + n
        /\ (k + n) - (k + 1) + 1 = n
    BY <1>2
  <2>3. /\ piece \in Seq(Bytes(io.pkt)) /\ Len(piece) = (k + n) - (k + 1) + 1
        /\ \A i \in 1 .. (k + n) - (k + 1) + 1 : piece[i] = D[(k + 1) + i - 1]
    BY <2>1, <2>2, SubSeqProperties
  <2>4. \A j \in 1 .. n : (k + 1) + j - 1 = k + j
    BY <1>2
  <2> QED BY <2>2, <2>3, <2>4
<1> HIDE DEF piece
<1>5. /\ io.data \o piece \in Seq(Bytes(io.pkt)) /\ Len(io.data \o piece) = k + n
  BY <1>2, <1>4, ConcatProperties
<1>6. /\ io'.op = "send" /\ io'.sock = s /\ io'.pkt = io.pkt /\ io'.len = io.len
      /\ io'.data = io.data \o piece
      /\ io' = [op |-> io'.op, sock |-> io'.sock, pkt |-> io'.pkt,
                len |-> io'.len, data |-> io'.data]
  BY <1>1 DEF IoType
<1>7. IoType'
  <2>1. io'.data \in Seq(Bytes(io'.pkt)) /\ Len(io'.data) <= io'.len
    BY <1>1, <1>5, <1>6
  <2> QED BY <1>1, <1>2, <1>6, <2>1 DEF IoType, Bytes, Wiz!Data
<1>8. RingType(tx[s])
  BY <1>2 DEF TxType
<1> HIDE DEF mem
<1>9. /\ RingType(t) /\ t.mem = mem /\ t.wr = tx[s].wr /\ t.rd = tx[s].rd
      /\ t.upto = tx[s].upto
  BY <1>8 DEF RingType
<1>10. tx' = [tx EXCEPT ![s] = t]
  BY <1>1
<1> HIDE DEF t, s
<1>11. /\ tx' = [r \in Sockets |-> tx'[r]] /\ \A r \in Sockets : RingType(tx'[r])
       /\ tx'[s] = t /\ \A r \in Sockets : r # s => tx'[r] = tx[r]
  BY <1>2, <1>9, <1>10, RingChanges DEF TxType
<1>12. TxType'
  BY <1>1, <1>11 DEF TxType
<1>13. AtRest'
  <2>1. \A r \in sound : ir[r] = {} /\ tx[r].rd = tx[r].upto
          /\ (mode[r] # "closed" => tx[r].wr = tx[r].upto)
    BY <1>1 DEF AtRest, Waits
  <2>2. \A r \in sound : tx'[r].rd = tx[r].rd /\ tx'[r].wr = tx[r].wr
                         /\ tx'[r].upto = tx[r].upto
    BY <1>9, <1>11
  <2> QED BY <1>1, <2>1, <2>2 DEF AtRest
<1>14. Waiting'
  BY <1>6 DEF Waiting, Waits
<1>15. ASSUME s \in sound, NEW i \in 1 .. k + n
       PROVE  mem[Wiz!At(t.wr, i - 1)] = D[i]
  <2> DEFINE w == tx[s].wr
  <2>1. w \in Nat /\ ptr \in Nat
    <3>1. w \in 0 .. Counters - 1 /\ Counters \in Nat
      BY <1>8, Sizes DEF RingType
    <3>2. w \in Nat
      BY <3>1
    <3>3. Wiz!Plus(w, k) \in 0 .. Counters - 1
      BY <1>2, <3>2, PlusRange
    <3> QED BY <3>1, <3>2, <3>3
  <2>2. /\ n \in 0 .. Mem /\ DOMAIN piece = 1 .. n /\ k + n <= Mem /\ k < Mem
    BY <1>1, <1>2, <1>4, Sizes
  <2>3. \A j \in 1 .. n : Wiz!At(ptr, j - 1) = Wiz!At(w, k + (j - 1))
    <3> TAKE j \in 1 .. n
    <3>1. k \in 0 .. Mem - 1 /\ j - 1 \in Nat /\ k + (j - 1) < Mem
      BY <1>2, <2>2, Sizes
    <3> QED BY <2>1, <3>1, AtPlus
  <2> HIDE DEF ptr, w
  <2>4. /\ \A j \in 1 .. n : mem[Wiz!At(ptr, j - 1)] = piece[j]
        /\ \A b \in 0 .. Mem - 1 :
             (\A j \in 1 .. n : Wiz!At(ptr, j - 1) # b) => mem[b] = tx[s].mem[b]
    <3>1. IsWritten(tx[s].mem, ptr, n, piece)
      BY <2>1, <2>2, WrittenHolds
    <3> QED BY <3>1 DEF IsWritten, mem, s
  <2>5. CASE i <= k
    <3>1. tx[s].mem[Wiz!At(w, i - 1)] = D[i]
      <4>1. i \in 1 .. k
        BY <1>2, <2>5
      <4> QED BY <1>1, <1>15, <4>1 DEF Filling, Holds, D, w, s
    <3>2. i - 1 \in 0 .. Mem - 1
      BY <1>2, <2>2, <2>5, Sizes
    <3>3. Wiz!At(w, i - 1) \in 0 .. Mem - 1
      BY <2>1, <3>2, AtRange
    <3>4. ASSUME NEW j \in 1 .. n PROVE Wiz!At(ptr, j - 1) # Wiz!At(w, i - 1)
      <4>1. k + (j - 1) \in 0 .. Mem - 1 /\ k + (j - 1) # i - 1
        BY <1>2, <2>2, <2>5, Sizes
      <4>2. Wiz!At(w, k + (j - 1)) # Wiz!At(w, i - 1)
        BY <2>1, <3>2, <4>1, AtApart
      <4> QED BY <2>3, <4>2
    <3>5. mem[Wiz!At(w, i - 1)] = tx[s].mem[Wiz!At(w, i - 1)]
      BY <2>4, <3>3, <3>4
    <3> QED BY <1>9, <3>1, <3>5 DEF w
  <2>6. CASE ~(i <= k)
    <3> DEFINE j == i - k
    <3>1. j \in 1 .. n /\ k + (j - 1) = i - 1 /\ k + j = i
      BY <1>2, <2>6
    <3> HIDE DEF j
    <3>2. mem[Wiz!At(ptr, j - 1)] = D[i]
      BY <1>4, <2>4, <3>1
    <3>3. Wiz!At(ptr, j - 1) = Wiz!At(w, i - 1)
      BY <2>3, <3>1
    <3> QED BY <1>9, <3>2, <3>3 DEF w
  <2> QED BY <2>5, <2>6
<1>16. Filling'
  <2>1. ASSUME s \in sound PROVE Holds(tx'[s], tx'[s].wr, io'.pkt, Len(io'.data))
    BY <1>5, <1>6, <1>9, <1>11, <1>15, <2>1 DEF Holds, D
  <2>2. \A r \in sound' : io'.op = "send" /\ io'.sock = r =>
            Holds(tx'[r], tx'[r].wr, io'.pkt, Len(io'.data))
    BY <1>1, <1>6, <2>1
  <2> QED BY <2>2 DEF Filling, Holds, Wiz!At, Wiz!Data
<1> QED BY <1>1, <1>7, <1>12, <1>13, <1>14, <1>16, OkKept

(* The SEND command: the chip has to send what lies before the new counter. *)
LEMMA SendEndStep ==
  ASSUME SendInv, OkWhenSent, Wiz!SendEnd
  PROVE  SendInv' /\ OkWhenSent'
<1> USE DEF SendInv
<1> DEFINE s == io.sock
           wr == Wiz!Plus(tx[s].wr, io.len)
<1>1. /\ io.op = "send" /\ Len(io.data) = io.len
      /\ UNCHANGED <<mode, ir, wire>>
  BY DEF Wiz!SendEnd, Wiz!sockets
<1>2. \/ /\ tx' = [tx EXCEPT ![s].wr = wr, ![s].upto = wr]
         /\ io' = [io EXCEPT !.op = "wait"]
         /\ UNCHANGED <<result, sound>>
      \/ /\ tx' = [tx EXCEPT ![s].wr = wr]
         /\ io' = Wiz!NoIo /\ result'.res = "cmd timeout" /\ sound' = sound \ {s}
  BY DEF Wiz!SendEnd, Wiz!Sent, Wiz!SendFails, Wiz!CmdFault, Wiz!NoResult
<1>3. /\ s \in Sockets /\ io.pkt \in Packets /\ io.len = io.pkt[2]
      /\ io.len \in 0 .. Mem /\ mode[s] # "closed" /\ RingType(tx[s])
  BY <1>1 DEF IoType, TxType
<1>4. wr \in 0 .. Counters - 1
  <2>1. tx[s].wr \in Nat /\ io.len \in Nat
    BY <1>3, Sizes DEF RingType
  <2> QED BY <2>1, PlusRange
<1>5. \A r \in sound : ir[r] = {} /\ tx[r].rd = tx[r].upto
        /\ (mode[r] # "closed" => tx[r].wr = tx[r].upto)
  BY <1>1 DEF AtRest, Waits
<1>6. CASE /\ tx' = [tx EXCEPT ![s].wr = wr]
           /\ io' = Wiz!NoIo /\ result'.res = "cmd timeout" /\ sound' = sound \ {s}
  <2> DEFINE t == [tx[s] EXCEPT !.wr = wr]
  <2> HIDE DEF wr
  <2>1. RingType(t)
    BY <1>3, <1>4 DEF RingType
  <2>2. tx' = [tx EXCEPT ![s] = t]
    BY <1>6
  <2> HIDE DEF t, s
  <2>3. /\ tx' = [r \in Sockets |-> tx'[r]] /\ \A r \in Sockets : RingType(tx'[r])
        /\ \A r \in Sockets : r # s => tx'[r] = tx[r]
    BY <1>3, <2>1, <2>2, RingChanges DEF TxType
  <2>4. TxType'
    BY <1>1, <2>3 DEF TxType
  <2>5. IoType' /\ io'.op = "none"
    BY <1>6, Sizes DEF IoType, Wiz!NoIo
  <2>6. AtRest'
    BY <1>1, <1>5, <1>6, <2>3 DEF AtRest
  <2>7. Filling' /\ Waiting'
    BY <2>5 DEF Filling, Waiting, Waits
  <2> QED BY <1>6, <2>4, <2>5, <2>6, <2>7, OkKept
<1>7. CASE /\ tx' = [tx EXCEPT ![s].wr = wr, ![s].upto = wr]
           /\ io' = [io EXCEPT !.op = "wait"]
           /\ UNCHANGED <<result, sound>>
  <2> DEFINE t == [tx[s] EXCEPT !.wr = wr, !.upto = wr]
  <2>0. tx' = [tx EXCEPT ![s] = t]
    BY <1>7
  <2> HIDE DEF wr
  <2>1. /\ RingType(t) /\ t.mem = tx[s].mem /\ t.rd = tx[s].rd
        /\ t.wr = wr /\ t.upto = wr
    <3>1. tx[s] = [mem |-> tx[s].mem, wr |-> tx[s].wr, rd |-> tx[s].rd,
                   upto |-> tx[s].upto]
      BY <1>3 DEF RingType
    <3>2. t = [mem |-> tx[s].mem, wr |-> wr, rd |-> tx[s].rd, upto |-> wr]
      <4>1. t = [[tx[s] EXCEPT !.wr = wr] EXCEPT !.upto = wr]
        OBVIOUS
      <4>2. [tx[s] EXCEPT !.wr = wr]
            = [mem |-> tx[s].mem, wr |-> wr, rd |-> tx[s].rd, upto |-> tx[s].upto]
        BY ONLY <3>1
      <4>3. [[mem |-> tx[s].mem, wr |-> wr, rd |-> tx[s].rd, upto |-> tx[s].upto]
              EXCEPT !.upto = wr]
            = [mem |-> tx[s].mem, wr |-> wr, rd |-> tx[s].rd, upto |-> wr]
        OBVIOUS
      <4> HIDE DEF t, s
      <4> QED BY ONLY <4>1, <4>2, <4>3, Zenon
    <3>3. tx[s].rd \in 0 .. Counters - 1
      BY <1>3 DEF RingType
    <3> HIDE DEF t, s
    <3>4. t.mem = tx[s].mem /\ t.rd = tx[s].rd /\ t.wr = wr /\ t.upto = wr
      BY ONLY <3>2
    <3>5. t = [mem |-> t.mem, wr |-> t.wr, rd |-> t.rd, upto |-> t.upto]
      BY <3>2, <3>4
    <3> QED BY <3>3, <3>4, <3>5, <1>4 DEF RingType
  <2> HIDE DEF t, s
  <2>3. /\ tx' = [r \in Sockets |-> tx'[r]] /\ \A r \in Sockets : RingType(tx'[r])
        /\ tx'[s] = t /\ \A r \in Sockets : r # s => tx'[r] = tx[r]
    BY <1>3, <2>0, <2>1, RingChanges DEF TxType
  <2>4. TxType'
    BY <1>1, <2>3 DEF TxType
  <2>5. /\ io'.op = "wait" /\ io'.sock = s /\ io'.pkt = io.pkt /\ io'.len = io.len
        /\ io'.data = io.data
        /\ io' = [op |-> io'.op, sock |-> io'.sock, pkt |-> io'.pkt,
                  len |-> io'.len, data |-> io'.data]
    BY <1>7 DEF IoType, s
  <2>6. IoType'
    BY <1>1, <1>3, <2>5 DEF IoType, Bytes, Wiz!Data
  <2>7. AtRest'
    BY <1>1, <1>5, <1>7, <2>3, <2>5 DEF AtRest, Waits
  <2>8. Filling'
    BY <2>5 DEF Filling
  <2>9. ASSUME s \in sound
        PROVE  /\ t.wr = t.upto /\ ir[s] = {}
               /\ t.upto = Wiz!Plus(t.rd, io.len)
               /\ Holds(t, t.rd, io.pkt, io.len)
    <3>1. tx[s].wr = tx[s].rd
      BY <1>3, <1>5, <2>9
    <3>2. Holds(tx[s], tx[s].wr, io.pkt, io.len)
      BY <1>1, <2>9 DEF Filling, s
    <3>3. Holds(t, t.rd, io.pkt, io.len)
      BY <2>1, <3>1, <3>2 DEF Holds
    <3>4. t.upto = Wiz!Plus(t.rd, io.len)
      BY <2>1, <3>1 DEF wr, s
    <3> QED BY <1>5, <2>1, <2>9, <3>3, <3>4
  <2>10. ASSUME NEW r \in sound', io'.op = "wait" /\ io'.sock = r
         PROVE  /\ tx'[r].wr = tx'[r].upto /\ ir'[r] = {}
                /\ tx'[r].upto = Wiz!Plus(tx'[r].rd, io'.len)
                /\ Holds(tx'[r], tx'[r].rd, io'.pkt, io'.len)
    BY <1>1, <1>7, <2>3, <2>5, <2>9, <2>10
  <2>11. Waiting'
    BY <2>10 DEF Waiting, Waits, Holds, Wiz!Plus, Wiz!At, Wiz!Data
  <2> QED BY <1>7, <2>4, <2>6, <2>7, <2>8, <2>11, OkKept
<1> QED BY <1>2, <1>6, <1>7

(* The chip sends the bytes it was told to, or gives up.                    *)
LEMMA TransmitStep ==
  ASSUME NEW s \in Sockets, SendInv, OkWhenSent, Wiz!Transmits(s)
  PROVE  SendInv' /\ OkWhenSent'
<1> USE DEF SendInv
<1> DEFINE t == [tx[s] EXCEPT !.rd = tx[s].upto]
           sent == Wiz!Read(tx[s].mem, tx[s].rd, Wiz!Minus(tx[s].upto, tx[s].rd))
<1>1. /\ tx[s].rd # tx[s].upto
      /\ UNCHANGED <<mode, io, result, sound>>
      /\ tx' = [tx EXCEPT ![s] = t]
  BY DEF Wiz!Transmits, Wiz!sockets
<1>2. \/ /\ wire' = [wire EXCEPT ![s] = sent]
         /\ ir' = [ir EXCEPT ![s] = ir[s] \union {"sent"}]
      \/ wire' = wire /\ ir' = [ir EXCEPT ![s] = ir[s] \union {"timeout"}]
  BY DEF Wiz!Transmits
<1>3. /\ RingType(t) /\ RingType(tx[s]) /\ t.mem = tx[s].mem /\ t.wr = tx[s].wr
      /\ t.rd = tx[s].upto /\ t.upto = tx[s].upto
  <2>1. RingType(tx[s])
    BY DEF TxType
  <2> QED BY <2>1 DEF RingType
<1> HIDE DEF t, sent
<1>4. /\ tx' = [r \in Sockets |-> tx'[r]] /\ \A r \in Sockets : RingType(tx'[r])
      /\ tx'[s] = t /\ \A r \in Sockets : r # s => tx'[r] = tx[r]
  BY <1>1, <1>3, RingChanges DEF TxType
<1>5. /\ ir' = [r \in Sockets |-> ir'[r]] /\ wire' = [r \in Sockets |-> wire'[r]]
      /\ \A r \in Sockets : r # s => ir'[r] = ir[r] /\ wire'[r] = wire[r]
      /\ \/ wire'[s] = sent /\ ir'[s] = ir[s] \union {"sent"}
         \/ ir'[s] = ir[s] \union {"timeout"}
  BY <1>2 DEF TxType
<1>6. TxType'
  BY <1>1, <1>4, <1>5 DEF TxType
<1>7. IoType'
  BY <1>1 DEF IoType, Bytes, Wiz!Data
<1>8. s \in sound => Waits(s)
  BY <1>1 DEF AtRest
<1>9. AtRest'
  <2> SUFFICES ASSUME NEW r \in sound', ~Waits(r)'
               PROVE  (/\ ir[r] = {} /\ tx[r].rd = tx[r].upto
                       /\ mode[r] # "closed" => tx[r].wr = tx[r].upto)'
    BY DEF AtRest
  <2>1. r # s /\ ~Waits(r) /\ r \in sound
    BY <1>1, <1>8 DEF Waits
  <2>2. ir[r] = {} /\ tx[r].rd = tx[r].upto
          /\ (mode[r] # "closed" => tx[r].wr = tx[r].upto)
    BY <2>1 DEF AtRest
  <2> QED BY <1>1, <1>4, <1>5, <2>1, <2>2
<1>10. Filling'
  <2>1. \A r \in sound' : io'.op = "send" /\ io'.sock = r =>
            r # s /\ Holds(tx'[r], tx'[r].wr, io'.pkt, Len(io'.data))
    BY <1>1, <1>4, <1>8 DEF Filling, Waits
  <2> QED BY <2>1 DEF Filling, Holds, Wiz!At, Wiz!Data
<1>11. ASSUME s \in sound
       PROVE  /\ t.wr = t.upto /\ t.rd = t.upto
              /\ \/ ir'[s] = {"sent"} /\ wire'[s] = Wiz!Data(io.pkt)
                 \/ ir'[s] = {"timeout"}
  <2>1. Waits(s)
    BY <1>8, <1>11
  <2>2. /\ tx[s].wr = tx[s].upto /\ ir[s] = {}
        /\ tx[s].upto = Wiz!Plus(tx[s].rd, io.len)
        /\ Holds(tx[s], tx[s].rd, io.pkt, io.len)
    BY <1>1, <1>11, <2>1 DEF Waiting
  <2>3. io.len = io.pkt[2] /\ io.len \in 0 .. Mem /\ io.pkt[2] \in Nat
    BY <2>1, Sizes DEF IoType, Waits
  <2>4. Wiz!Minus(tx[s].upto, tx[s].rd) = io.len
    <3>1. tx[s].rd \in 0 .. Counters - 1
      BY <1>3 DEF RingType
    <3> QED BY <1>1, <2>2, <2>3, <3>1, MinusPlus
  <2>5. sent = [i \in 1 .. io.len |-> tx[s].mem[Wiz!At(tx[s].rd, i - 1)]]
    BY <2>4 DEF sent, Wiz!Read
  <2>6. \A i \in 1 .. io.len :
          tx[s].mem[Wiz!At(tx[s].rd, i - 1)] = Wiz!Data(io.pkt)[i]
    BY <2>2 DEF Holds
  <2>7. sent = [i \in 1 .. io.len |-> Wiz!Data(io.pkt)[i]]
    BY <2>5, <2>6, Zenon
  <2>8. sent = Wiz!Data(io.pkt)
    BY <2>3, <2>7, DataIs
  <2>9. \/ ir'[s] = {"sent"} /\ wire'[s] = sent
        \/ ir'[s] = {"timeout"}
    BY <1>5, <2>2
  <2> QED BY <1>3, <2>2, <2>8, <2>9
<1>12. Waiting'
  <2> SUFFICES ASSUME NEW r \in sound', Waits(r)'
               PROVE (/\ tx[r].wr = tx[r].upto
                      /\ tx[r].rd # tx[r].upto =>
                           /\ ir[r] = {} /\ tx[r].upto = Wiz!Plus(tx[r].rd, io.len)
                           /\ Holds(tx[r], tx[r].rd, io.pkt, io.len)
                      /\ tx[r].rd = tx[r].upto =>
                           /\ ir[r] \in {{}, {"sent"}, {"timeout"}}
                           /\ "sent" \in ir[r] => wire[r] = Wiz!Data(io.pkt))'
    BY DEF Waiting
  <2>1. Waits(r) /\ r \in sound
    BY <1>1 DEF Waits
  <2>2. CASE r = s
    <3>1. tx'[r] = t /\ (Wiz!Data(io.pkt))' = Wiz!Data(io.pkt)
      BY <1>1, <1>4, <2>2 DEF Wiz!Data
    <3> QED BY <1>11, <2>1, <2>2, <3>1
  <2>3. CASE r # s
    <3>1. tx'[r] = tx[r] /\ ir'[r] = ir[r] /\ wire'[r] = wire[r] /\ io' = io
      BY <1>1, <1>4, <1>5, <2>1, <2>3
    <3>2. /\ tx[r].wr = tx[r].upto
          /\ tx[r].rd # tx[r].upto =>
               /\ ir[r] = {} /\ tx[r].upto = Wiz!Plus(tx[r].rd, io.len)
               /\ Holds(tx[r], tx[r].rd, io.pkt, io.len)
          /\ tx[r].rd = tx[r].upto =>
               /\ ir[r] \in {{}, {"sent"}, {"timeout"}}
               /\ "sent" \in ir[r] => wire[r] = Wiz!Data(io.pkt)
      BY <2>1 DEF Waiting
    <3> QED BY <3>1, <3>2 DEF Holds, Wiz!Data, Wiz!At, Wiz!Plus
  <2> QED BY <2>2, <2>3
<1> QED BY <1>1, <1>6, <1>7, <1>9, <1>10, <1>12, OkKept

LEMMA SendOkStep ==
  ASSUME SendInv, OkWhenSent, Wiz!SendOk
  PROVE  SendInv' /\ OkWhenSent'
<1> USE DEF SendInv
<1> DEFINE s == io.sock
<1>1. /\ io.op = "wait" /\ "sent" \in ir[s] /\ io' = Wiz!NoIo
      /\ ir' = [ir EXCEPT ![s] = ir[s] \ {"sent"}]
      /\ result' = [res |-> "sent", sock |-> s, data |-> wire[s],
                    owed |-> Wiz!Data(io.pkt)]
      /\ UNCHANGED <<mode, tx, wire, sound>>
  BY DEF Wiz!SendOk, Wiz!sockets, Wiz!WriteIr, Wiz!Clears
<1>2. s \in Sockets
  BY DEF IoType
<1>3. ASSUME s \in sound
      PROVE  /\ tx[s].wr = tx[s].upto /\ tx[s].rd = tx[s].upto
             /\ ir[s] = {"sent"} /\ wire[s] = Wiz!Data(io.pkt)
  <2>1. Waits(s)
    BY <1>1 DEF Waits
  <2> QED BY <1>1, <1>3, <2>1 DEF Waiting
<1>4. IoType' /\ io'.op = "none"
  BY <1>1, Sizes DEF IoType, Wiz!NoIo
<1> HIDE DEF s
<1>5. TxType'
  BY <1>1, <1>2 DEF TxType
<1>6. AtRest'
  <2> SUFFICES ASSUME NEW r \in sound
               PROVE  /\ ir'[r] = {} /\ tx[r].rd = tx[r].upto
                      /\ mode[r] # "closed" => tx[r].wr = tx[r].upto
    BY <1>1 DEF AtRest
  <2>1. CASE r = s
    BY <1>1, <1>2, <1>3, <2>1 DEF TxType
  <2>2. CASE r # s
    <3>1. ~Waits(r) /\ ir'[r] = ir[r]
      BY <1>1, <2>2 DEF Waits, TxType, s
    <3> QED BY <3>1 DEF AtRest
  <2> QED BY <2>1, <2>2
<1>7. Filling' /\ Waiting'
  BY <1>4 DEF Filling, Waiting, Waits
<1>8. OkWhenSent'
  BY <1>1, <1>3 DEF OkWhenSent, Wiz!OkWhenSent
<1> QED BY <1>1, <1>4, <1>5, <1>6, <1>7, <1>8

LEMMA SendTimeoutStep ==
  ASSUME SendInv, OkWhenSent, Wiz!SendTimeout
  PROVE  SendInv' /\ OkWhenSent'
<1> USE DEF SendInv
<1> DEFINE s == io.sock
<1>1. /\ io.op = "wait" /\ io' = Wiz!NoIo /\ result'.res = "send timeout"
      /\ UNCHANGED <<mode, tx, wire>>
  BY DEF Wiz!SendTimeout, Wiz!sockets, Wiz!SendFails, Wiz!NoResult
<1>2. \/ /\ "timeout" \in ir[s] /\ ir' = [ir EXCEPT ![s] = {}] /\ sound' = sound
      \/ ir' = ir /\ sound' = sound \ {s}
  BY DEF Wiz!SendTimeout, Wiz!WriteIr, Wiz!CmdFault
<1>3. s \in Sockets
  BY DEF IoType
<1>4. IoType' /\ io'.op = "none"
  BY <1>1, Sizes DEF IoType, Wiz!NoIo
<1>5. Waits(s)
  BY <1>1 DEF Waits
<1> HIDE DEF s
<1>6. TxType'
  BY <1>1, <1>2, <1>3 DEF TxType
<1>7. AtRest'
  <2> SUFFICES ASSUME NEW r \in sound'
               PROVE  /\ ir'[r] = {} /\ tx[r].rd = tx[r].upto
                      /\ mode[r] # "closed" => tx[r].wr = tx[r].upto
    BY <1>1 DEF AtRest
  <2>1. CASE r = s
    <3>1. "timeout" \in ir[s] /\ ir' = [ir EXCEPT ![s] = {}] /\ s \in sound
      BY <1>2, <2>1
    <3> QED BY <1>3, <1>5, <2>1, <3>1 DEF TxType, Waiting
  <2>2. CASE r # s
    <3>1. ~Waits(r) /\ ir'[r] = ir[r] /\ r \in sound
      BY <1>1, <1>2, <2>2 DEF Waits, TxType, s
    <3> QED BY <3>1 DEF AtRest
  <2> QED BY <2>1, <2>2
<1>8. Filling' /\ Waiting'
  BY <1>4 DEF Filling, Waiting, Waits
<1>9. sound' \subseteq Sockets
  BY <1>2
<1> QED BY <1>1, <1>4, <1>6, <1>7, <1>8, <1>9, OkKept

LEMMA SendStep ==
  SendInv /\ OkWhenSent /\ [Wiz!Next]_Wiz!wizVars => SendInv' /\ OkWhenSent'
<1> SUFFICES ASSUME SendInv, OkWhenSent, [Wiz!Next]_Wiz!wizVars
             PROVE  SendInv' /\ OkWhenSent'
  OBVIOUS
<1>1. CASE UNCHANGED Wiz!wizVars
  <2>1. UNCHANGED <<mode, tx, ir, wire, io, result, sound>>
    BY <1>1 DEF Wiz!wizVars, Wiz!sockets
  <2>2. IoType'
    BY <2>1 DEF SendInv, IoType, Bytes, Wiz!Data
  <2> QED BY <2>1, <2>2, Keeps, OkKept
<1>2. CASE Wiz!Next
  BY <1>2, ArrivesStep, SendBeginStep, OpenStep, TransmitStep, CloseStep,
     RecvStep,
     SendDataStep, SendEndStep, SendOkStep, SendTimeoutStep DEF Wiz!Next
<1> QED BY <1>1, <1>2

(* A call that sends says OK only when its own packet has gone out, byte by *)
(* byte, and not on the interrupt of one before: for any size of the rings, *)
(* wherever they or the counters wrap, as long as no call on that socket    *)
(* gave up waiting since it was opened.                                     *)
THEOREM OkIsForItsPacket == Wiz!Spec => []OkWhenSent
<1> QED BY SendInit, SendStep, PTL DEF Wiz!Spec

------------------------------------------------------------------------------
(* Packets in a ring: one behind the other, at offsets off from the first.  *)

(* sz says how many bytes each takes.                                       *)
Tiles(q, off, sz) ==
  /\ off \in [0 .. Len(q) -> Nat] /\ off[0] = 0
  /\ \A i \in 1 .. Len(q) : off[i] = off[i - 1] + sz[q[i]]
  /\ \A i, j \in 0 .. Len(q) : i <= j => off[i] <= off[j]

Longer(q, off, k) ==
  [i \in 0 .. Len(q) + 1 |-> IF i <= Len(q) THEN off[i] ELSE off[Len(q)] + k]
Shorter(q, off) == [i \in 0 .. Len(q) - 1 |-> off[i + 1] - off[1]]

LEMMA TilesNone ==
  ASSUME NEW sz
  PROVE  Tiles(<<>>, [i \in 0 .. 0 |-> 0], sz)
<1>1. Len(<<>>) = 0
  OBVIOUS
<1> QED BY <1>1 DEF Tiles

LEMMA TilesAppend ==
  ASSUME NEW S, NEW sz \in [S -> Nat], NEW q \in Seq(S), NEW e \in S,
         NEW off, Tiles(q, off, sz)
  PROVE  /\ Tiles(Append(q, e), Longer(q, off, sz[e]), sz)
         /\ Len(Append(q, e)) = Len(q) + 1 /\ Append(q, e) \in Seq(S)
         /\ Append(q, e)[Len(q) + 1] = e
         /\ \A i \in 1 .. Len(q) : Append(q, e)[i] = q[i]
<1> DEFINE a == Append(q, e)
           n == Len(q)
           o == Longer(q, off, sz[e])
<1>1. /\ a \in Seq(S) /\ Len(a) = n + 1 /\ n \in Nat
      /\ \A i \in 1 .. n : a[i] = q[i]
      /\ a[n + 1] = e
  BY AppendProperties
<1>2. /\ off \in [0 .. n -> Nat] /\ off[0] = 0
      /\ \A i \in 1 .. n : off[i] = off[i - 1] + sz[q[i]]
      /\ \A i, j \in 0 .. n : i <= j => off[i] <= off[j]
  BY DEF Tiles
<1>3. sz[e] \in Nat
  OBVIOUS
<1>4. /\ o \in [0 .. n + 1 -> Nat] /\ o[n + 1] = off[n] + sz[e]
      /\ \A i \in 0 .. n : o[i] = off[i]
  <2>1. o = [i \in 0 .. n + 1 |-> IF i <= n THEN off[i] ELSE off[n] + sz[e]]
    BY DEF Longer
  <2> HIDE DEF n, o
  <2>2. off[n] + sz[e] \in Nat
    BY <1>1, <1>2, <1>3
  <2>3. \A i \in 0 .. n + 1 : i <= n => off[i] \in Nat
    BY <1>1, <1>2
  <2>4. o \in [0 .. n + 1 -> Nat]
    BY <2>1, <2>2, <2>3
  <2>5. \A i \in 0 .. n : i \in 0 .. n + 1 /\ i <= n
    BY <1>1
  <2>6. n + 1 \in 0 .. n + 1 /\ ~(n + 1 <= n)
    BY <1>1
  <2> QED BY <2>1, <2>4, <2>5, <2>6
<1> HIDE DEF a, n, o
<1>5. \A i \in 1 .. n + 1 : o[i] = o[i - 1] + sz[a[i]]
  <2> TAKE i \in 1 .. n + 1
  <2>1. CASE i = n + 1
    <3>1. i - 1 = n /\ n \in 0 .. n
      BY <1>1, <2>1
    <3> QED BY <1>1, <1>4, <2>1, <3>1
  <2>2. CASE i # n + 1
    <3>1. i \in 1 .. n /\ i \in 0 .. n /\ i - 1 \in 0 .. n
      BY <1>1, <2>2
    <3> QED BY <1>1, <1>2, <1>4, <3>1
  <2> QED BY <2>1, <2>2
<1>6. \A i, j \in 0 .. n + 1 : i <= j => o[i] <= o[j]
  <2> TAKE i, j \in 0 .. n + 1
  <2> HAVE i <= j
  <2>1. CASE j \in 0 .. n
    <3>1. i \in 0 .. n
      BY <1>1, <2>1
    <3> QED BY <1>2, <1>4, <2>1, <3>1
  <2>2. CASE j = n + 1 /\ i \in 0 .. n
    <3>1. off[i] <= off[n] /\ off[i] \in Nat /\ off[n] \in Nat
      BY <1>1, <1>2, <2>2
    <3> QED BY <1>3, <1>4, <2>2, <3>1
  <2>3. CASE j = n + 1 /\ i = n + 1
    BY <1>1, <1>4, <2>3
  <2> QED BY <1>1, <2>1, <2>2, <2>3
<1>7. o[0] = 0
  BY <1>1, <1>2, <1>4
<1>8. Tiles(a, o, sz)
  BY <1>1, <1>4, <1>5, <1>6, <1>7 DEF Tiles
<1> QED BY <1>1, <1>8 DEF a, n, o

LEMMA TilesTail ==
  ASSUME NEW S, NEW sz \in [S -> Nat], NEW q \in Seq(S), q # <<>>,
         NEW off, Tiles(q, off, sz)
  PROVE  /\ Tiles(Tail(q), Shorter(q, off), sz)
         /\ Tail(q) \in Seq(S) /\ Len(Tail(q)) = Len(q) - 1 /\ Len(q) \in Nat \ {0}
         /\ \A i \in 1 .. Len(q) - 1 : Tail(q)[i] = q[i + 1]
         /\ Head(q) = q[1] /\ q[1] \in S /\ off[1] = sz[q[1]]
<1> DEFINE n == Len(q)
           r == Tail(q)
           o == Shorter(q, off)
<1>1. /\ r \in Seq(S) /\ n \in Nat \ {0} /\ Len(r) = n - 1
      /\ Head(q) = q[1] /\ q[1] \in S
      /\ \A i \in 1 .. n - 1 : r[i] = q[i + 1]
  <2>1. n \in Nat \ {0}
    OBVIOUS
  <2>2. r \in Seq(S) /\ Len(r) = n - 1 /\ \A i \in 1 .. Len(r) : r[i] = q[i + 1]
    BY HeadTailProperties
  <2>3. Head(q) = q[1] /\ q[1] \in S
    BY <2>1
  <2> QED BY <2>1, <2>2, <2>3
<1>2. /\ off \in [0 .. n -> Nat] /\ off[0] = 0
      /\ \A i \in 1 .. n : off[i] = off[i - 1] + sz[q[i]]
      /\ \A i, j \in 0 .. n : i <= j => off[i] <= off[j]
  BY DEF Tiles
<1> HIDE DEF n, r
<1>3. off[1] = sz[q[1]] /\ off[1] \in Nat /\ sz[q[1]] \in Nat
  <2>1. 1 \in 1 .. n /\ 1 - 1 = 0
    BY <1>1
  <2>2. sz[q[1]] \in Nat
    BY <1>1
  <2>3. off[1] = off[1 - 1] + sz[q[1]]
    BY <1>2, <2>1
  <2> QED BY <1>2, <2>1, <2>2, <2>3
<1>4. \A i \in 0 .. n - 1 : off[i + 1] - off[1] \in Nat
  <2> TAKE i \in 0 .. n - 1
  <2>1. 1 \in 0 .. n /\ i + 1 \in 0 .. n /\ 1 <= i + 1
    BY <1>1
  <2>2. off[1] <= off[i + 1] /\ off[i + 1] \in Nat
    BY <1>2, <2>1
  <2> QED BY <1>3, <2>2
<1>5. /\ o \in [0 .. n - 1 -> Nat]
      /\ \A i \in 0 .. n - 1 : o[i] = off[i + 1] - off[1]
  BY <1>4 DEF Shorter, n
<1> HIDE DEF o
<1>6. \A i \in 1 .. n - 1 : o[i] = o[i - 1] + sz[r[i]]
  <2> TAKE i \in 1 .. n - 1
  <2>1. /\ i \in 0 .. n - 1 /\ i - 1 \in 0 .. n - 1 /\ i + 1 \in 1 .. n
        /\ (i - 1) + 1 = i /\ (i + 1) - 1 = i
    BY <1>1
  <2>2. off[i + 1] = off[i] + sz[q[i + 1]] /\ r[i] = q[i + 1]
    BY <1>1, <1>2, <2>1
  <2>3. o[i] = off[i + 1] - off[1] /\ o[i - 1] = off[i] - off[1]
    BY <1>5, <2>1
  <2>4. off[i] \in Nat /\ off[i + 1] \in Nat /\ sz[q[i + 1]] \in Nat
    <3>1. i \in 0 .. n /\ i + 1 \in 0 .. n
      BY <1>1
    <3>2. q[i + 1] \in S
      BY <2>1 DEF n
    <3> QED BY <1>2, <3>1, <3>2
  <2> QED BY <1>3, <2>2, <2>3, <2>4
<1>7. \A i, j \in 0 .. n - 1 : i <= j => o[i] <= o[j]
  <2> TAKE i, j \in 0 .. n - 1
  <2> HAVE i <= j
  <2>1. i + 1 \in 0 .. n /\ j + 1 \in 0 .. n /\ i + 1 <= j + 1
    BY <1>1
  <2>2. off[i + 1] <= off[j + 1] /\ off[i + 1] \in Nat /\ off[j + 1] \in Nat
    BY <1>2, <2>1
  <2> QED BY <1>3, <1>5, <2>2
<1>8. o[0] = 0
  <2>1. 0 \in 0 .. n - 1 /\ 0 + 1 = 1
    BY <1>1
  <2> QED BY <1>3, <1>5, <2>1
<1>9. Tiles(r, o, sz)
  BY <1>1, <1>5, <1>6, <1>7, <1>8 DEF Tiles
<1> QED BY <1>1, <1>3, <1>9 DEF n, r, o

------------------------------------------------------------------------------
(* Offsets added to a counter of the WIZ820io one after the other.          *)

LEMMA ModPlus ==
  ASSUME NEW m \in Nat \ {0}, NEW x \in Nat, NEW k \in Nat
  PROVE  ((x % m) + k) % m = (x + k) % m
<1> DEFINE q == x \div m
           r == x % m
<1>1. x = m * q + r /\ q \in Nat /\ r \in Nat
  BY DivMod
<1> HIDE DEF q, r
<1> DEFINE d == (r + k) \div m
           e == (r + k) % m
<1>2. r + k = m * d + e /\ d \in Nat /\ e \in 0 .. m - 1
  <2>1. r + k \in Nat
    BY <1>1
  <2> QED BY <2>1, DivMod
<1> HIDE DEF d, e
<1>3. m * (q + d) = m * q + m * d
  BY <1>1, <1>2
<1>4. x + k = m * (q + d) + e
  <2>1. m * q \in Int /\ m * d \in Int
    BY <1>1, <1>2
  <2> QED BY <1>1, <1>2, <1>3, <2>1
<1>5. x + k \in Nat /\ q + d \in Int
  BY <1>1, <1>2
<1>6. (x + k) % m = e
  BY <1>2, <1>4, <1>5, ModIs
<1> QED BY <1>6 DEF e, r

LEMMA PlusPlus ==
  ASSUME NEW ptr \in Nat, NEW a \in Nat, NEW b \in Nat
  PROVE  Wiz!Plus(Wiz!Plus(ptr, a), b) = Wiz!Plus(ptr, a + b)
<1>1. ptr + a \in Nat /\ (ptr + a) + b = ptr + (a + b)
  OBVIOUS
<1> DEFINE x == ptr + a
<1>2. x \in Nat /\ Counters \in Nat \ {0}
  BY <1>1, Sizes
<1> HIDE DEF x
<1>3. ((x % Counters) + b) % Counters = (x + b) % Counters
  BY <1>2, ModPlus
<1>4. ((x % Counters) + b) % Counters = (ptr + (a + b)) % Counters
  BY <1>1, <1>3, Zenon DEF x
<1> QED BY <1>4, Zenon DEF Wiz!Plus, x

LEMMA CounterSize == Mem < Counters /\ UdpHdr \in Nat \ {0} /\ EthHdr \in Nat \ {0}
  BY NetworkAssumption DEF Wiz!WizAssumption

LEMMA MinusIs ==
  ASSUME NEW ptr \in 0 .. Counters - 1, NEW n \in 0 .. Mem
  PROVE  Wiz!Minus(Wiz!Plus(ptr, n), ptr) = n
<1>1. CASE Wiz!Plus(ptr, n) # ptr
  BY <1>1, MinusPlus
<1>2. CASE Wiz!Plus(ptr, n) = ptr
  <2> DEFINE c == Counters
  <2>1. /\ c \in Nat \ {0} /\ ptr \in 0 .. c - 1 /\ ptr \in Nat
        /\ n \in 0 .. c - 1
    BY Sizes, CounterSize
  <2> HIDE DEF c
  <2>2. ptr % c = ptr
    <3>1. ptr = c * 0 + ptr
      BY <2>1
    <3> QED BY <2>1, <3>1, ModIs
  <2>3. (ptr + n) % c = IF ptr + n < c THEN ptr + n ELSE ptr + n - c
    BY <2>1, <2>2, ModOfSum
  <2>4. n = 0
    BY <1>2, <2>1, <2>3 DEF Wiz!Plus, c
  <2>5. (ptr + c - ptr) % c = 0
    <3>1. ptr + c - ptr = c * 1 + 0 /\ 0 \in 0 .. c - 1 /\ ptr + c - ptr \in Nat
      BY <2>1
    <3> QED BY <2>1, <3>1, ModIs
  <2> QED BY <1>2, <2>4, <2>5 DEF Wiz!Minus, c
<1> QED BY <1>1, <1>2

------------------------------------------------------------------------------
(* The ring of a socket that receives: the chip writes a packet behind the  *)
(* ones that wait, the driver takes the first one away.                     *)

HdrOf(m) == IF m = "eth" THEN EthHdr ELSE UdpHdr
SizeOf(m) == [p \in Packets |-> HdrOf(m) + p[2]]
LenField(m, p) == <<"len", p[2] + (IF m = "eth" THEN EthHdr ELSE 0)>>
ByteOf(m, p, j) ==
  IF j = 1 THEN LenField(m, p)
  ELSE IF j <= HdrOf(m) THEN Wiz!Old ELSE Wiz!Data(p)[j - HdrOf(m)]
Lies(mem, ptr, k, m, p) ==
  \A j \in 1 .. SizeOf(m)[p] : mem[Wiz!At(ptr, k + j - 1)] = ByteOf(m, p, j)

Fits(t, q, m, off) ==
  /\ Tiles(q, off, SizeOf(m)) /\ off[Len(q)] <= Mem
  /\ t.rd \in 0 .. Counters - 1 /\ t.recv = t.rd
  /\ t.wr = Wiz!Plus(t.rd, off[Len(q)])
  /\ \A i \in 1 .. Len(q) : Lies(t.mem, t.rd, off[i - 1], m, q[i])

LEMMA SizeType ==
  ASSUME NEW m
  PROVE  /\ HdrOf(m) \in Nat \ {0} /\ SizeOf(m) \in [Packets -> Nat]
         /\ \A p \in Packets : SizeOf(m)[p] = HdrOf(m) + p[2] /\ p[2] \in Nat
  BY Sizes, CounterSize DEF HdrOf, SizeOf

LEMMA FitsEmpty ==
  ASSUME NEW m
  PROVE  Fits(Wiz!EmptyRx, <<>>, m, [i \in 0 .. 0 |-> 0])
<1> DEFINE off == [i \in 0 .. 0 |-> 0]
           t == Wiz!EmptyRx
<1>1. Tiles(<<>>, off, SizeOf(m)) /\ off[Len(<<>>)] = 0 /\ Len(<<>>) = 0
  <2>1. off[0] = 0 /\ Len(<<>>) = 0
    OBVIOUS
  <2> HIDE DEF off
  <2> QED BY <2>1, TilesNone DEF off
<1>2. t.rd = 0 /\ t.wr = 0 /\ t.recv = 0
  BY DEF Wiz!EmptyRx
<1>3. Wiz!Plus(0, 0) = 0
  <2> DEFINE c == Counters
  <2>1. c \in Nat \ {0} /\ 0 = c * 0 + 0 /\ 0 \in 0 .. c - 1
    BY Sizes
  <2> HIDE DEF c
  <2>2. 0 % c = 0
    BY <2>1, ModIs
  <2> QED BY <2>2 DEF Wiz!Plus, c
<1> HIDE DEF off, t
<1>4. 0 \in 0 .. Counters - 1 /\ 0 <= Mem
  BY Sizes
<1> QED BY <1>1, <1>2, <1>3, <1>4 DEF Fits, off, t

(* The parts of what a ring that fits says, with what they are numbers of.  *)
LEMMA FitsFacts ==
  ASSUME NEW t, NEW q \in Seq(Packets), NEW m, NEW off, Fits(t, q, m, off)
  PROVE  /\ Len(q) \in Nat /\ off \in [0 .. Len(q) -> Nat] /\ off[0] = 0
         /\ \A i \in 1 .. Len(q) :
              /\ off[i] = off[i - 1] + HdrOf(m) + q[i][2]
              /\ off[i] <= off[Len(q)] /\ q[i] \in Packets /\ q[i][2] \in Nat
              /\ off[i] \in Nat /\ off[i - 1] \in Nat
         /\ off[Len(q)] \in 0 .. Mem
         /\ t.rd \in Nat /\ t.rd \in 0 .. Counters - 1
         /\ Wiz!Minus(t.wr, t.recv) = off[Len(q)]
<1>1. /\ Len(q) \in Nat /\ off \in [0 .. Len(q) -> Nat] /\ off[0] = 0
      /\ \A i \in 1 .. Len(q) : off[i] = off[i - 1] + SizeOf(m)[q[i]]
      /\ \A i, j \in 0 .. Len(q) : i <= j => off[i] <= off[j]
      /\ off[Len(q)] <= Mem
      /\ t.rd \in 0 .. Counters - 1 /\ t.recv = t.rd
      /\ t.wr = Wiz!Plus(t.rd, off[Len(q)])
  <2>1. Len(q) \in Nat
    OBVIOUS
  <2> QED BY <2>1, Zenon DEF Fits, Tiles
<1>2. off[Len(q)] \in 0 .. Mem
  <2>1. Len(q) \in 0 .. Len(q)
    BY <1>1
  <2>2. off[Len(q)] \in Nat
    BY <1>1, <2>1
  <2> QED BY <1>1, <2>2, Sizes
<1>3. Wiz!Minus(t.wr, t.recv) = off[Len(q)]
  BY <1>1, <1>2, MinusIs
<1>4. ASSUME NEW i \in 1 .. Len(q)
      PROVE  /\ off[i] = off[i - 1] + HdrOf(m) + q[i][2]
             /\ off[i] <= off[Len(q)] /\ q[i] \in Packets /\ q[i][2] \in Nat
             /\ off[i] \in Nat /\ off[i - 1] \in Nat
  <2>1. i \in 0 .. Len(q) /\ i - 1 \in 0 .. Len(q) /\ Len(q) \in 0 .. Len(q)
        /\ i <= Len(q)
    BY <1>1
  <2>2. q[i] \in Packets
    OBVIOUS
  <2>3. off[i] \in Nat /\ off[i - 1] \in Nat /\ off[i] <= off[Len(q)]
    BY <1>1, <2>1
  <2>4. /\ SizeOf(m)[q[i]] = HdrOf(m) + q[i][2] /\ q[i][2] \in Nat
        /\ HdrOf(m) \in Nat
    BY <2>2, SizeType
  <2>5. off[i] = off[i - 1] + (HdrOf(m) + q[i][2])
    BY <1>1, <2>4
  <2> QED BY <2>2, <2>3, <2>4, <2>5
<1>5. t.rd \in Nat
  BY <1>1, Sizes
<1> QED BY <1>1, <1>2, <1>3, <1>4, <1>5

LEMMA FitsAppend ==
  ASSUME NEW t, NEW q \in Seq(Packets), NEW m, NEW off, Fits(t, q, m, off),
         NEW p \in Packets, NEW bytes, NEW u,
         off[Len(q)] + (HdrOf(m) + p[2]) <= Mem,
         DOMAIN bytes = 1 .. HdrOf(m) + p[2],
         \A j \in 1 .. HdrOf(m) + p[2] : bytes[j] = ByteOf(m, p, j),
         u.mem = Wiz!Written(t.mem, t.wr, bytes), u.rd = t.rd, u.recv = t.recv,
         u.wr = Wiz!Plus(t.wr, HdrOf(m) + p[2])
  PROVE  Fits(u, Append(q, p), m, Longer(q, off, HdrOf(m) + p[2]))
<1> DEFINE size == HdrOf(m) + p[2]
           a == Append(q, p)
           n == Len(q)
           o == Longer(q, off, size)
<1>1. size \in Nat \ {0} /\ SizeOf(m) \in [Packets -> Nat] /\ SizeOf(m)[p] = size
  BY SizeType
<1>2. /\ Tiles(a, o, SizeOf(m)) /\ Len(a) = n + 1 /\ a \in Seq(Packets)
      /\ a[n + 1] = p /\ \A i \in 1 .. n : a[i] = q[i]
  <2>1. Tiles(q, off, SizeOf(m))
    BY DEF Fits
  <2> HIDE DEF size
  <2> QED BY <1>1, <2>1, TilesAppend
<1>3. /\ n \in Nat /\ off \in [0 .. n -> Nat]
      /\ \A i \in 1 .. n :
           /\ off[i] = off[i - 1] + HdrOf(m) + q[i][2]
           /\ off[i] <= off[n] /\ q[i] \in Packets /\ q[i][2] \in Nat
           /\ off[i] \in Nat /\ off[i - 1] \in Nat
      /\ off[n] \in 0 .. Mem /\ t.rd \in Nat /\ t.rd \in 0 .. Counters - 1
  BY FitsFacts
<1>4. /\ t.recv = t.rd /\ t.wr = Wiz!Plus(t.rd, off[n])
      /\ \A i \in 1 .. n : Lies(t.mem, t.rd, off[i - 1], m, q[i])
  BY DEF Fits
<1>5. /\ o[n + 1] = off[n] + size /\ \A i \in 0 .. n : o[i] = off[i]
  <2>1. o = [i \in 0 .. n + 1 |-> IF i <= n THEN off[i] ELSE off[n] + size]
    BY DEF Longer
  <2> HIDE DEF o, n, size
  <2>2. \A i \in 0 .. n : i \in 0 .. n + 1 /\ i <= n
    BY <1>3
  <2>3. n + 1 \in 0 .. n + 1 /\ ~(n + 1 <= n)
    BY <1>3
  <2> QED BY <2>1, <2>2, <2>3
<1>6. /\ u.mem = Wiz!Written(t.mem, t.wr, bytes) /\ u.rd = t.rd /\ u.recv = t.recv
      /\ u.wr = Wiz!Plus(t.wr, size) /\ DOMAIN bytes = 1 .. size
      /\ \A j \in 1 .. size : bytes[j] = ByteOf(m, p, j)
      /\ off[n] + size <= Mem
  OBVIOUS
<1> HIDE DEF size, a, n, o
<1>7. /\ off[n] \in 0 .. Mem - 1 /\ size \in 0 .. Mem /\ t.wr \in Nat
      /\ off[n] \in Nat /\ Mem \in Nat /\ size \in Nat
  <2>1. off[n] \in Nat /\ Mem \in Nat
    BY <1>3, Sizes
  <2>2. t.wr \in 0 .. Counters - 1
    BY <1>3, <1>4, <2>1, PlusRange
  <2> QED BY <1>1, <1>3, <1>6, <2>1, <2>2, Sizes
<1>8. \A j \in 1 .. size : Wiz!At(t.wr, j - 1) = Wiz!At(t.rd, off[n] + (j - 1))
  <2> TAKE j \in 1 .. size
  <2>1. j - 1 \in Nat /\ off[n] + (j - 1) < Mem
    BY <1>1, <1>3, <1>6, Sizes
  <2> QED BY <1>3, <1>4, <1>7, <2>1, AtPlus
<1>9. /\ \A j \in 1 .. size : u.mem[Wiz!At(t.wr, j - 1)] = bytes[j]
      /\ \A b \in 0 .. Mem - 1 :
           (\A j \in 1 .. size : Wiz!At(t.wr, j - 1) # b) => u.mem[b] = t.mem[b]
  <2> DEFINE w == Wiz!Written(t.mem, t.wr, bytes)
  <2>1. /\ \A j \in 1 .. size : w[Wiz!At(t.wr, j - 1)] = bytes[j]
        /\ \A b \in 0 .. Mem - 1 :
             (\A j \in 1 .. size : Wiz!At(t.wr, j - 1) # b) => w[b] = t.mem[b]
    <3>1. t.wr \in Nat /\ size \in 0 .. Mem /\ DOMAIN bytes = 1 .. size
      BY <1>6, <1>7
    <3>2. IsWritten(t.mem, t.wr, size, bytes)
      BY <3>1, WrittenHolds
    <3> QED BY <3>2, Zenon DEF IsWritten
  <2>2. u.mem = w
    BY <1>6
  <2> HIDE DEF w
  <2> QED BY <2>1, <2>2
<1>10. Lies(u.mem, u.rd, off[n], m, p)
  <2> SUFFICES ASSUME NEW j \in 1 .. size
               PROVE  u.mem[Wiz!At(t.rd, off[n] + j - 1)] = ByteOf(m, p, j)
    BY <1>1, <1>6 DEF Lies
  <2>1. off[n] + (j - 1) = off[n] + j - 1
    BY <1>3
  <2> QED BY <1>6, <1>8, <1>9, <2>1
<1>11. ASSUME NEW i \in 1 .. n PROVE Lies(u.mem, u.rd, off[i - 1], m, q[i])
  <2>1. /\ SizeOf(m)[q[i]] = HdrOf(m) + q[i][2] /\ HdrOf(m) \in Nat
    BY <1>3, SizeType
  <2> SUFFICES ASSUME NEW k \in 1 .. SizeOf(m)[q[i]]
               PROVE  u.mem[Wiz!At(t.rd, off[i - 1] + k - 1)] = ByteOf(m, q[i], k)
    BY <1>6 DEF Lies
  <2> DEFINE x == off[i - 1] + k - 1
             b == Wiz!At(t.rd, x)
  <2>2. x \in 0 .. Mem - 1 /\ x < off[n] /\ x \in Nat
    <3>1. /\ off[i] = off[i - 1] + HdrOf(m) + q[i][2] /\ off[i] <= off[n]
          /\ off[i] \in Nat /\ off[i - 1] \in Nat /\ q[i][2] \in Nat
      BY <1>3
    <3>2. k \in 1 .. HdrOf(m) + q[i][2]
      BY <2>1
    <3> DEFINE h == HdrOf(m)
               l == q[i][2]
               c == off[i - 1]
    <3>3. /\ h \in Nat /\ l \in Nat /\ c \in Nat /\ k \in 1 .. h + l
          /\ off[i] = c + h + l /\ off[i] <= off[n]
      BY <2>1, <3>1, <3>2
    <3> HIDE DEF h, l, c
    <3>4. /\ c + k - 1 \in Nat /\ c + k - 1 < off[n] /\ c + k - 1 < Mem
      BY <1>7, <3>3
    <3> QED BY <1>7, <3>4 DEF c
  <2>3. t.mem[b] = ByteOf(m, q[i], k)
    BY <1>4 DEF Lies
  <2> HIDE DEF x
  <2>4. b \in 0 .. Mem - 1
    BY <1>3, <2>2, AtRange
  <2>5. \A j \in 1 .. size : Wiz!At(t.wr, j - 1) # b
    <3> TAKE j \in 1 .. size
    <3>1. off[n] + (j - 1) \in 0 .. Mem - 1 /\ off[n] + (j - 1) # x
      BY <1>6, <1>7, <2>2
    <3>2. Wiz!At(t.rd, off[n] + (j - 1)) # Wiz!At(t.rd, x)
      BY <1>3, <2>2, <3>1, AtApart
    <3> QED BY <1>8, <3>2
  <2> HIDE DEF b
  <2>6. u.mem[b] = t.mem[b]
    BY <1>9, <2>4, <2>5
  <2> QED BY <2>3, <2>6 DEF b, x
<1>12. \A i \in 1 .. n + 1 : Lies(u.mem, u.rd, o[i - 1], m, a[i])
  <2> TAKE i \in 1 .. n + 1
  <2>1. CASE i = n + 1
    <3>1. i - 1 = n /\ n \in 0 .. n
      BY <1>3, <2>1
    <3>2. o[i - 1] = off[n] /\ a[i] = p
      BY <1>2, <1>5, <2>1, <3>1
    <3> QED BY <1>10, <3>2
  <2>2. CASE i # n + 1
    <3>1. i \in 1 .. n /\ i - 1 \in 0 .. n
      BY <1>3, <2>2
    <3>2. o[i - 1] = off[i - 1] /\ a[i] = q[i]
      BY <1>2, <1>5, <3>1
    <3> QED BY <1>11, <3>1, <3>2
  <2> QED BY <2>1, <2>2
<1>13. u.wr = Wiz!Plus(u.rd, o[n + 1])
  <2>1. Wiz!Plus(Wiz!Plus(t.rd, off[n]), size) = Wiz!Plus(t.rd, off[n] + size)
    BY <1>3, <1>7, PlusPlus
  <2> QED BY <1>4, <1>5, <1>6, <2>1
<1> QED BY <1>2, <1>3, <1>4, <1>5, <1>6, <1>12, <1>13 DEF Fits, a, o, n, size

LEMMA FitsHead ==
  ASSUME NEW t, NEW q \in Seq(Packets), q # <<>>, NEW m, NEW off, Fits(t, q, m, off)
  PROVE  /\ q[1] \in Packets /\ Head(q) = q[1] /\ q[1][2] \in Nat
         /\ off[1] = HdrOf(m) + q[1][2]
         /\ HdrOf(m) + q[1][2] <= Mem
         /\ \A j \in 1 .. HdrOf(m) + q[1][2] :
              t.mem[Wiz!At(t.rd, j - 1)] = ByteOf(m, q[1], j)
<1>1. Len(q) \in Nat \ {0} /\ Head(q) = q[1] /\ 1 \in 1 .. Len(q) /\ 1 - 1 = 0
  OBVIOUS
<1>2. /\ off[0] = 0 /\ off[1] = off[0] + HdrOf(m) + q[1][2]
      /\ off[1] <= off[Len(q)] /\ q[1] \in Packets /\ q[1][2] \in Nat
      /\ off[Len(q)] \in 0 .. Mem
  <2>1. /\ off[0] = 0 /\ off[Len(q)] \in 0 .. Mem
        /\ \A i \in 1 .. Len(q) :
             /\ off[i] = off[i - 1] + HdrOf(m) + q[i][2]
             /\ off[i] <= off[Len(q)] /\ q[i] \in Packets /\ q[i][2] \in Nat
             /\ off[i] \in Nat /\ off[i - 1] \in Nat
    BY FitsFacts, Zenon
  <2>2. /\ off[1] = off[1 - 1] + HdrOf(m) + q[1][2]
        /\ off[1] <= off[Len(q)] /\ q[1] \in Packets /\ q[1][2] \in Nat
    BY ONLY <1>1, <2>1
  <2>3. off[1 - 1] = off[0]
    BY ONLY <1>1
  <2> QED BY <2>1, <2>2, <2>3
<1>3. HdrOf(m) \in Nat /\ SizeOf(m)[q[1]] = HdrOf(m) + q[1][2] /\ Mem \in Nat
  BY <1>2, SizeType, Sizes
<1>4. off[1] = HdrOf(m) + q[1][2]
  BY <1>2, <1>3
<1>5. HdrOf(m) + q[1][2] <= Mem
  <2> DEFINE x == off[Len(q)]
  <2>1. x \in 0 .. Mem /\ HdrOf(m) + q[1][2] <= x
    BY <1>2, <1>4
  <2> HIDE DEF x
  <2>2. HdrOf(m) + q[1][2] \in Nat
    BY <1>2, <1>3
  <2> QED BY <1>3, <2>1, <2>2
<1>6. Lies(t.mem, t.rd, off[0], m, q[1])
  BY <1>1 DEF Fits
<1>7. \A j \in 1 .. HdrOf(m) + q[1][2] :
        t.mem[Wiz!At(t.rd, 0 + j - 1)] = ByteOf(m, q[1], j)
  BY <1>2, <1>3, <1>6 DEF Lies
<1>8. \A j \in 1 .. HdrOf(m) + q[1][2] : 0 + j - 1 = j - 1
  OBVIOUS
<1> QED BY <1>1, <1>2, <1>4, <1>5, <1>7, <1>8

LEMMA FitsTail ==
  ASSUME NEW t, NEW q \in Seq(Packets), q # <<>>, NEW m, NEW off, Fits(t, q, m, off),
         NEW u, u.mem = t.mem, u.wr = t.wr,
         u.rd = Wiz!Plus(t.rd, HdrOf(m) + q[1][2]), u.recv = u.rd
  PROVE  Fits(u, Tail(q), m, Shorter(q, off))
<1> DEFINE n == Len(q)
           r == Tail(q)
           o == Shorter(q, off)
           k == HdrOf(m) + q[1][2]
<1>1. /\ Tiles(r, o, SizeOf(m)) /\ r \in Seq(Packets) /\ Len(r) = n - 1
      /\ n \in Nat \ {0} /\ \A i \in 1 .. n - 1 : r[i] = q[i + 1]
  <2>1. Tiles(q, off, SizeOf(m))
    BY DEF Fits
  <2> QED BY <2>1, SizeType, TilesTail
<1>2. /\ off \in [0 .. n -> Nat] /\ off[0] = 0
      /\ \A i \in 1 .. n :
           /\ off[i] = off[i - 1] + HdrOf(m) + q[i][2]
           /\ off[i] <= off[n] /\ q[i] \in Packets /\ q[i][2] \in Nat
           /\ off[i] \in Nat /\ off[i - 1] \in Nat
      /\ off[n] \in 0 .. Mem /\ t.rd \in Nat
  BY FitsFacts
<1>3. off[1] = k /\ k <= Mem /\ k \in Nat \ {0}
  <2>1. /\ q[1][2] \in Nat /\ off[1] = HdrOf(m) + q[1][2]
        /\ HdrOf(m) + q[1][2] <= Mem
    BY FitsHead
  <2>2. HdrOf(m) \in Nat \ {0}
    BY SizeType
  <2> QED BY <2>1, <2>2
<1>4. /\ t.wr = Wiz!Plus(t.rd, off[n])
      /\ \A i \in 1 .. n : Lies(t.mem, t.rd, off[i - 1], m, q[i])
  BY DEF Fits
<1>5. \A i \in 0 .. n - 1 : o[i] = off[i + 1] - k
  <2>1. o = [i \in 0 .. n - 1 |-> off[i + 1] - off[1]]
    BY DEF Shorter
  <2> QED BY <1>3, <2>1
<1>6. u.mem = t.mem /\ u.wr = t.wr /\ u.rd = Wiz!Plus(t.rd, k) /\ u.recv = u.rd
  OBVIOUS
<1> HIDE DEF n, r, o, k
<1>7. Mem \in Nat /\ off[n] \in Nat /\ k <= off[n] /\ off[n] <= Mem
  <2>1. 1 \in 1 .. n
    BY <1>1
  <2>2. off[1] <= off[n]
    BY <1>2, <2>1
  <2> QED BY <1>2, <1>3, <2>2, Sizes
<1>8. o[n - 1] = off[n] - k /\ o[n - 1] <= Mem
  <2>1. n - 1 \in 0 .. n - 1 /\ (n - 1) + 1 = n
    BY <1>1
  <2>2. o[n - 1] = off[n] - k
    BY <1>5, <2>1
  <2> QED BY <1>3, <1>7, <2>2
<1>9. u.rd \in 0 .. Counters - 1
  BY <1>2, <1>3, <1>6, PlusRange
<1>10. u.wr = Wiz!Plus(u.rd, o[n - 1])
  <2>1. off[n] - k \in Nat /\ k + (off[n] - k) = off[n]
    BY <1>3, <1>7
  <2>2. Wiz!Plus(Wiz!Plus(t.rd, k), off[n] - k) = Wiz!Plus(t.rd, k + (off[n] - k))
    BY <1>2, <1>3, <2>1, PlusPlus
  <2> QED BY <1>4, <1>6, <1>8, <2>1, <2>2
<1>11. ASSUME NEW i \in 1 .. n - 1 PROVE Lies(u.mem, u.rd, o[i - 1], m, r[i])
  <2> DEFINE p == q[i + 1]
             c == o[i - 1]
  <2>1. /\ i + 1 \in 1 .. n /\ i \in 1 .. n /\ (i + 1) - 1 = i /\ 1 \in 1 .. n
        /\ i - 1 \in 0 .. n - 1 /\ (i - 1) + 1 = i
    BY <1>1
  <2>2. c = off[i] - k
    BY <1>5, <2>1
  <2>3. Lies(t.mem, t.rd, off[i], m, p)
    BY <1>4, <2>1
  <2>4. /\ off[i + 1] = off[i] + HdrOf(m) + p[2] /\ off[i + 1] <= off[n]
        /\ p \in Packets /\ p[2] \in Nat /\ off[i] \in Nat /\ off[i + 1] \in Nat
    BY <1>2, <2>1
  <2>5. SizeOf(m)[p] = HdrOf(m) + p[2] /\ HdrOf(m) \in Nat \ {0}
    BY <2>4, SizeType
  <2>6. k <= off[i]
    <3>1. Tiles(q, off, SizeOf(m)) /\ 1 \in 0 .. n /\ i \in 0 .. n /\ 1 <= i
      BY <2>1 DEF Fits
    <3>2. off[1] <= off[i]
      BY <3>1 DEF Tiles, n
    <3> QED BY <1>3, <3>2
  <2>7. r[i] = p
    BY <1>1
  <2> HIDE DEF p, c
  <2> SUFFICES ASSUME NEW j \in 1 .. SizeOf(m)[p]
               PROVE  t.mem[Wiz!At(u.rd, c + j - 1)] = ByteOf(m, p, j)
    BY <1>6, <2>7 DEF Lies, c
  <2> DEFINE h == HdrOf(m)
             l == p[2]
             a == off[i]
             b == off[i + 1]
             x == c + j - 1
  <2>8. /\ j \in 1 .. h + l /\ h \in Nat \ {0} /\ l \in Nat /\ a \in Nat /\ b \in Nat
        /\ b = a + h + l /\ b <= off[n] /\ c = a - k /\ k <= a
    BY <2>2, <2>4, <2>5, <2>6
  <2> HIDE DEF h, l, a, b
  <2>9. x \in Nat /\ k \in 0 .. Mem - 1 /\ k + x < Mem /\ k + x = a + j - 1
    BY <1>3, <1>7, <2>8
  <2> HIDE DEF x
  <2>10. Wiz!At(u.rd, x) = Wiz!At(t.rd, a + j - 1)
    BY <1>2, <1>6, <2>9, AtPlus
  <2>11. t.mem[Wiz!At(t.rd, a + j - 1)] = ByteOf(m, p, j)
    BY <2>3 DEF Lies, a
  <2> QED BY <2>10, <2>11 DEF x
<1> QED BY <1>1, <1>6, <1>8, <1>9, <1>10, <1>11 DEF Fits, n, r, o

------------------------------------------------------------------------------
(* The invariant of the side that receives: in every socket without an      *)
(* error the packets that wait tile the ring from the read pointer on, and  *)
(* what a call has read so far is a prefix of the first one.                *)

RxType ==
  /\ rx = [s \in Sockets |-> rx[s]] /\ pending = [s \in Sockets |-> pending[s]]
  /\ mode = [s \in Sockets |-> mode[s]]
  /\ \A s \in Sockets :
       /\ rx[s] = [mem |-> rx[s].mem, wr |-> rx[s].wr, rd |-> rx[s].rd,
                   recv |-> rx[s].recv]
       /\ pending[s] \in Seq(Packets)
  /\ sound \subseteq Sockets

IoShape ==
  /\ io = [op |-> io.op, sock |-> io.sock, pkt |-> io.pkt, len |-> io.len,
           data |-> io.data]
  /\ io.sock \in Sockets

RingsFit == \A s \in sound : \E off : Fits(rx[s], pending[s], mode[s], off)

Prefix(d, p) ==
  /\ d \in Seq(Bytes(p)) /\ Len(d) <= p[2] /\ \A i \in 1 .. Len(d) : d[i] = Wiz!Data(p)[i]

Reading ==
  io.op = "recv" /\ io.sock \in sound =>
    /\ pending[io.sock] # <<>> /\ io.len = pending[io.sock][1][2]
    /\ Prefix(io.data, pending[io.sock][1])

RecvInv == RxType /\ IoShape /\ RingsFit /\ Reading

LEMMA PrefixIs ==
  ASSUME NEW p, p[2] \in Nat, NEW d, Prefix(d, p)
  PROVE  d = SubSeq(Wiz!Data(p), 1, Len(d))
<1> DEFINE D == Wiz!Data(p)
           n == Len(d)
           e == SubSeq(D, 1, n)
<1>1. D \in Seq(Bytes(p)) /\ Len(D) = p[2]
  BY DataIs
<1>2. d \in Seq(Bytes(p)) /\ n \in Nat /\ n <= p[2] /\ \A i \in 1 .. n : d[i] = D[i]
  BY DEF Prefix
<1> HIDE DEF D
<1>3. CASE n = 0
  <2>1. d = <<>>
    BY <1>2, <1>3
  <2>2. e = <<>>
    BY <1>1, <1>3
  <2> QED BY <2>1, <2>2 DEF D
<1>4. CASE n # 0
  <2>1. \A i \in 1 .. n : D[i] \in Bytes(p)
    BY <1>1, <1>2
  <2>2. /\ e \in Seq(Bytes(p)) /\ Len(e) = n - 1 + 1
        /\ \A i \in 1 .. n - 1 + 1 : e[i] = D[1 + i - 1]
    BY <1>2, <1>4, <2>1, SubSeqProperties
  <2>3. Len(e) = n
    BY <1>2, <2>2
  <2>4. \A i \in 1 .. n : e[i] = D[i]
    BY <1>2, <2>2
  <2> HIDE DEF e, n
  <2>5. e = d
    <3>1. Len(d) = n
      BY DEF n
    <3> QED BY <1>2, <2>2, <2>3, <2>4, <3>1, SeqEqual
  <2> QED BY <2>5 DEF e, D, n
<1> QED BY <1>3, <1>4

LEMMA FitsHeader ==
  ASSUME NEW t, NEW q \in Seq(Packets), q # <<>>, NEW m, NEW off, Fits(t, q, m, off)
  PROVE  Wiz!Read(t.mem, t.rd, HdrOf(m))
         = [i \in 1 .. HdrOf(m) |-> IF i = 1 THEN LenField(m, q[1]) ELSE Wiz!Old]
<1>1. HdrOf(m) \in Nat \ {0} /\ q[1][2] \in Nat
  BY SizeType, FitsHead
<1>2. \A j \in 1 .. HdrOf(m) + q[1][2] :
        t.mem[Wiz!At(t.rd, j - 1)] = ByteOf(m, q[1], j)
  BY FitsHead
<1>3. \A j \in 1 .. HdrOf(m) :
        t.mem[Wiz!At(t.rd, j - 1)] = IF j = 1 THEN LenField(m, q[1]) ELSE Wiz!Old
  <2> TAKE j \in 1 .. HdrOf(m)
  <2>1. j \in 1 .. HdrOf(m) + q[1][2] /\ j <= HdrOf(m)
    BY <1>1
  <2> QED BY <1>2, <2>1 DEF ByteOf
<1> QED BY <1>3 DEF Wiz!Read

(* The property of the run, of the receiving side.                          *)
LEMMA RecvSafe ==
  ASSUME RecvInv
  PROVE  Wiz!PacketsAreTakenWhole
<1> SUFFICES ASSUME NEW s \in sound
             PROVE  /\ io.op # "recv" /\ pending[s] # <<>> =>
                         Wiz!Read(rx[s].mem, rx[s].rd, Wiz!HdrSize(s))
                           = Wiz!Header(s, Head(pending[s]))
                    /\ io.op = "recv" /\ io.sock = s =>
                         io.data = SubSeq(Wiz!Data(Head(pending[s])), 1, Len(io.data))
  BY Zenon DEF Wiz!PacketsAreTakenWhole
<1>1. s \in Sockets /\ pending[s] \in Seq(Packets)
  BY DEF RecvInv, RxType
<1>2. PICK off : Fits(rx[s], pending[s], mode[s], off)
  BY DEF RecvInv, RingsFit
<1>3. ASSUME pending[s] # <<>>
      PROVE  Wiz!Read(rx[s].mem, rx[s].rd, Wiz!HdrSize(s))
               = Wiz!Header(s, Head(pending[s]))
  <2>1. Wiz!HdrSize(s) = HdrOf(mode[s])
    BY DEF Wiz!HdrSize, HdrOf
  <2>2. Wiz!Counted(s) = IF mode[s] = "eth" THEN EthHdr ELSE 0
    BY DEF Wiz!Counted
  <2>3. Head(pending[s]) = pending[s][1]
    BY <1>1, <1>3
  <2>4. Wiz!Header(s, pending[s][1])
          = [i \in 1 .. HdrOf(mode[s]) |->
               IF i = 1 THEN LenField(mode[s], pending[s][1]) ELSE Wiz!Old]
    BY <2>1, <2>2 DEF Wiz!Header, LenField
  <2> QED BY <1>1, <1>2, <1>3, <2>1, <2>3, <2>4, FitsHeader
<1>4. ASSUME io.op = "recv", io.sock = s
      PROVE  io.data = SubSeq(Wiz!Data(Head(pending[s])), 1, Len(io.data))
  <2>1. pending[s] # <<>> /\ Prefix(io.data, pending[s][1])
    BY <1>4 DEF RecvInv, Reading
  <2>2. Head(pending[s]) = pending[s][1] /\ pending[s][1] \in Packets
    BY <1>1, <2>1
  <2>3. pending[s][1][2] \in Nat
    BY <2>2, Sizes
  <2> QED BY <2>1, <2>2, <2>3, PrefixIs
<1> QED BY <1>3, <1>4

LEMMA RecvInit == Wiz!Init => RecvInv
<1> SUFFICES ASSUME Wiz!Init PROVE RecvInv
  OBVIOUS
<1>1. /\ mode = [s \in Sockets |-> "closed"] /\ rx = [s \in Sockets |-> Wiz!EmptyRx]
      /\ io = Wiz!NoIo /\ pending = [s \in Sockets |-> <<>>] /\ sound = {}
  BY DEF Wiz!Init
<1>2. RxType
  <2>1. <<>> \in Seq(Packets)
    OBVIOUS
  <2> QED BY <1>1, <2>1 DEF RxType, Wiz!EmptyRx
<1> QED BY <1>1, <1>2, Sizes DEF RecvInv, IoShape, RingsFit, Reading, Wiz!NoIo

(* A step that leaves the rings received into, in which at most sockets     *)
(* stop being sound.                                                        *)
LEMMA RecvKeeps ==
  ASSUME RecvInv, UNCHANGED <<rx, pending, mode>>, sound' \subseteq sound, IoShape',
         io' = io \/ io'.op # "recv"
  PROVE  RecvInv'
<1>1. RxType'
  BY DEF RecvInv, RxType
<1>2. RingsFit'
  BY DEF RecvInv, RingsFit
<1>3. Reading'
  <2>1. CASE io' = io
    <3>1. io'.op = "recv" /\ io'.sock \in sound' =>
            /\ pending'[io'.sock] # <<>> /\ io'.len = pending'[io'.sock][1][2]
            /\ Prefix(io'.data, pending'[io'.sock][1])
      BY <2>1 DEF RecvInv, Reading
    <3> QED BY <3>1 DEF Reading, Prefix, Bytes, Wiz!Data
  <2>2. CASE io'.op # "recv"
    BY <2>2 DEF Reading
  <2> QED BY <2>1, <2>2
<1> QED BY <1>1, <1>2, <1>3 DEF RecvInv

LEMMA SendsKeep ==
  ASSUME RecvInv,
         \/ \E s \in Sockets : Wiz!Transmits(s) \/ \E p \in Packets : Wiz!SendBegin(s, p)
         \/ \E n \in 1 .. Mem : Wiz!SendData(n)
         \/ Wiz!SendEnd \/ Wiz!SendOk \/ Wiz!SendTimeout \/ UNCHANGED Wiz!wizVars
  PROVE  RecvInv'
<1> USE DEF RecvInv
<1>0. IoShape
  OBVIOUS
<1>1. CASE UNCHANGED Wiz!wizVars
  BY <1>0, <1>1, RecvKeeps DEF Wiz!wizVars, IoShape
<1>2. ASSUME NEW s \in Sockets, Wiz!Transmits(s) PROVE RecvInv'
  <2>1. UNCHANGED <<rx, pending, mode, sound, io>>
    BY <1>2 DEF Wiz!Transmits, Wiz!sockets
  <2> QED BY <1>0, <2>1, RecvKeeps DEF IoShape
<1>3. ASSUME NEW s \in Sockets, NEW p \in Packets, Wiz!SendBegin(s, p) PROVE RecvInv'
  <2>1. /\ UNCHANGED <<rx, pending, mode, sound>>
        /\ \/ io' = io
           \/ io' = [op |-> "send", sock |-> s, pkt |-> p, len |-> p[2], data |-> <<>>]
    BY <1>3 DEF Wiz!SendBegin, Wiz!sockets
  <2>2. IoShape' /\ (io' = io \/ io'.op # "recv")
    BY <1>0, <2>1 DEF IoShape
  <2> QED BY <2>1, <2>2, RecvKeeps
<1>4. ASSUME NEW n \in 1 .. Mem, Wiz!SendData(n) PROVE RecvInv'
  <2>1. /\ UNCHANGED <<rx, pending, mode, sound>> /\ io.op = "send"
        /\ \E d : io' = [io EXCEPT !.data = d]
    BY <1>4 DEF Wiz!SendData, Wiz!sockets
  <2>2. IoShape' /\ io'.op # "recv"
    BY <1>0, <2>1 DEF IoShape
  <2> QED BY <2>1, <2>2, RecvKeeps
<1>5. CASE Wiz!SendEnd
  <2>1. /\ UNCHANGED <<rx, pending, mode>> /\ sound' \subseteq sound
        /\ io' = [io EXCEPT !.op = "wait"] \/ io' = Wiz!NoIo
    BY <1>5 DEF Wiz!SendEnd, Wiz!sockets, Wiz!CmdFault, Wiz!SendFails
  <2>2. IoShape' /\ io'.op # "recv"
    BY <1>0, <2>1, Sizes DEF IoShape, Wiz!NoIo
  <2> QED BY <2>1, <2>2, RecvKeeps
<1>6. CASE Wiz!SendOk \/ Wiz!SendTimeout
  <2>1. /\ UNCHANGED <<rx, pending, mode>> /\ sound' \subseteq sound /\ io' = Wiz!NoIo
    BY <1>6
       DEF Wiz!SendOk, Wiz!SendTimeout, Wiz!sockets, Wiz!CmdFault,
           Wiz!SendFails
  <2>2. IoShape' /\ io'.op # "recv"
    BY <2>1, Sizes DEF IoShape, Wiz!NoIo
  <2> QED BY <2>1, <2>2, RecvKeeps
<1> QED BY <1>1, <1>2, <1>3, <1>4, <1>5, <1>6

(* The rings after a step that changes the one of s.                        *)
LEMMA RxChanges ==
  ASSUME NEW f, f = [s \in Sockets |-> f[s]], NEW s \in Sockets, NEW t,
         NEW g, g = [f EXCEPT ![s] = t]
  PROVE  /\ g = [r \in Sockets |-> g[r]]
         /\ g[s] = t /\ \A r \in Sockets : r # s => g[r] = f[r]
  OBVIOUS

(* A packet comes in on s.                                                  *)
LEMMA ArrivesFits ==
  ASSUME NEW s \in Sockets, NEW p \in Packets, RecvInv, Wiz!Arrives(s, p)
  PROVE  RecvInv'
<1> USE DEF RecvInv
<1> DEFINE m == mode[s]
           bytes == Wiz!Header(s, p) \o Wiz!Data(p)
           size == HdrOf(m) + p[2]
           mem == Wiz!Written(rx[s].mem, rx[s].wr, bytes)
           wr == Wiz!Plus(rx[s].wr, size)
           t == [rx[s] EXCEPT !.mem = mem, !.wr = wr]
           u == [mem |-> mem, wr |-> wr, rd |-> rx[s].rd, recv |-> rx[s].recv]
<1>1. /\ HdrOf(m) \in Nat \ {0} /\ p[2] \in Nat /\ Wiz!HdrSize(s) = HdrOf(m)
  BY SizeType DEF Wiz!HdrSize, HdrOf
<1>2. /\ bytes \in Seq({LenField(m, p), Wiz!Old} \cup Bytes(p)) /\ Len(bytes) = size
      /\ \A j \in 1 .. size : bytes[j] = ByteOf(m, p, j)
  <2> DEFINE S == {LenField(m, p), Wiz!Old} \cup Bytes(p)
             h == Wiz!Header(s, p)
             d == Wiz!Data(p)
  <2>1. h = [i \in 1 .. HdrOf(m) |-> IF i = 1 THEN LenField(m, p) ELSE Wiz!Old]
    BY <1>1 DEF Wiz!Header, Wiz!Counted, LenField
  <2>2. d \in Seq(Bytes(p)) /\ Len(d) = p[2]
    BY <1>1, DataIs
  <2> HIDE DEF h, d
  <2>3. h \in [1 .. HdrOf(m) -> S]
    BY <2>1
  <2>4. h \in Seq(S) /\ Len(h) = HdrOf(m)
    BY <1>1, <2>3
  <2>5. d \in Seq(S)
    <3>1. \A i \in 1 .. Len(d) : d[i] \in S
      BY <2>2
    <3>2. d \in [1 .. p[2] -> S]
      BY <2>2, <3>1
    <3> QED BY <1>1, <3>2
  <2>6. /\ h \o d \in Seq(S) /\ Len(h \o d) = size
        /\ \A j \in 1 .. size :
             (h \o d)[j] = IF j <= HdrOf(m) THEN h[j] ELSE d[j - HdrOf(m)]
    <3>1. /\ h \o d \in Seq(S) /\ Len(h \o d) = Len(h) + Len(d)
          /\ \A j \in 1 .. Len(h) + Len(d) :
               (h \o d)[j] = IF j <= Len(h) THEN h[j] ELSE d[j - Len(h)]
      BY <2>4, <2>5, ConcatProperties
    <3> QED BY <2>2, <2>4, <3>1
  <2>7. \A j \in 1 .. size : (h \o d)[j] = ByteOf(m, p, j)
    <3> TAKE j \in 1 .. size
    <3>1. (h \o d)[j] = IF j <= HdrOf(m) THEN h[j] ELSE d[j - HdrOf(m)]
      BY <2>6
    <3>2. CASE j <= HdrOf(m)
      <4>1. j \in 1 .. HdrOf(m)
        BY <1>1, <3>2
      <4> QED BY <2>1, <3>1, <3>2, <4>1 DEF ByteOf
    <3>3. CASE ~(j <= HdrOf(m))
      <4>1. j # 1
        BY <1>1, <3>3
      <4> QED BY <3>1, <3>3, <4>1 DEF ByteOf, d
    <3> QED BY <3>2, <3>3
  <2> QED BY <2>6, <2>7 DEF h, d
<1>3. /\ rx' = [rx EXCEPT ![s] = t] /\ pending' = [pending EXCEPT ![s] = Append(pending[s], p)]
      /\ Wiz!RxSize(s) + size <= Mem
      /\ UNCHANGED <<mode, io, sound>>
  BY <1>2 DEF Wiz!Arrives, Wiz!sockets
<1> HIDE DEF bytes, mem, wr, size
<1>4. rx[s] = [mem |-> rx[s].mem, wr |-> rx[s].wr, rd |-> rx[s].rd, recv |-> rx[s].recv]
  BY DEF RxType
<1>5. t = u
  <2>1. t = [[rx[s] EXCEPT !.mem = mem] EXCEPT !.wr = wr]
    OBVIOUS
  <2>2. [rx[s] EXCEPT !.mem = mem]
        = [mem |-> mem, wr |-> rx[s].wr, rd |-> rx[s].rd, recv |-> rx[s].recv]
    BY ONLY <1>4
  <2>3. [[mem |-> mem, wr |-> rx[s].wr, rd |-> rx[s].rd, recv |-> rx[s].recv]
          EXCEPT !.wr = wr]
        = [mem |-> mem, wr |-> wr, rd |-> rx[s].rd, recv |-> rx[s].recv]
    OBVIOUS
  <2> HIDE DEF t
  <2> QED BY ONLY <2>1, <2>2, <2>3, Zenon DEF u
<1>6. u.mem = mem /\ u.wr = wr /\ u.rd = rx[s].rd /\ u.recv = rx[s].recv
      /\ u = [mem |-> u.mem, wr |-> u.wr, rd |-> u.rd, recv |-> u.recv]
  OBVIOUS
<1> HIDE DEF t, u
<1>7. /\ rx' = [r \in Sockets |-> rx'[r]] /\ rx'[s] = u
      /\ \A r \in Sockets : r # s => rx'[r] = rx[r]
  BY <1>3, <1>5, RxChanges DEF RxType
<1>8. /\ pending' = [r \in Sockets |-> pending'[r]] /\ pending'[s] = Append(pending[s], p)
      /\ \A r \in Sockets : r # s => pending'[r] = pending[r]
  BY <1>3, RxChanges DEF RxType
<1>9. Append(pending[s], p) \in Seq(Packets) /\ pending[s] \in Seq(Packets)
  BY DEF RxType
<1>10. RxType'
  BY <1>3, <1>6, <1>7, <1>8, <1>9 DEF RxType
<1>11. RingsFit'
  <2> SUFFICES ASSUME NEW r \in sound
               PROVE  \E off : Fits(rx'[r], pending'[r], mode[r], off)
    BY <1>3 DEF RingsFit
  <2>1. PICK off : Fits(rx[r], pending[r], mode[r], off)
    BY DEF RingsFit
  <2>2. CASE r # s
    BY <1>7, <1>8, <2>1, <2>2 DEF RxType
  <2>3. CASE r = s
    <3>1. Fits(rx[s], pending[s], m, off)
      BY <2>1, <2>3
    <3>2. off[Len(pending[s])] = Wiz!RxSize(s)
      BY <1>9, <3>1, FitsFacts DEF Wiz!RxSize
    <3>3. DOMAIN bytes = 1 .. size
      BY <1>2
    <3> HIDE DEF m
    <3>4. Fits(u, Append(pending[s], p), m, Longer(pending[s], off, HdrOf(m) + p[2]))
      BY <1>2, <1>3, <1>6, <1>9, <3>1, <3>2, <3>3, FitsAppend DEF mem, wr, size
    <3> QED BY <1>7, <1>8, <2>3, <3>4 DEF m
  <2> QED BY <2>2, <2>3
<1>12. Reading'
  <2>1. ASSUME io.op = "recv", io.sock \in sound
        PROVE  /\ pending'[io.sock] # <<>>
               /\ io.len = pending'[io.sock][1][2]
               /\ Prefix(io.data, pending'[io.sock][1])
    <3>1. /\ pending[io.sock] # <<>> /\ io.len = pending[io.sock][1][2]
          /\ Prefix(io.data, pending[io.sock][1]) /\ io.sock \in Sockets
      BY <2>1 DEF Reading, IoShape
    <3>2. CASE io.sock # s
      BY <1>8, <3>1, <3>2
    <3>3. CASE io.sock = s
      <4>1. Append(pending[s], p) # <<>> /\ Append(pending[s], p)[1] = pending[s][1]
        BY <1>9, <3>1, <3>3
      <4> QED BY <1>8, <3>1, <3>3, <4>1
    <3> QED BY <3>2, <3>3
  <2>2. io'.op = "recv" /\ io'.sock \in sound' =>
          /\ pending'[io'.sock] # <<>> /\ io'.len = pending'[io'.sock][1][2]
          /\ Prefix(io'.data, pending'[io'.sock][1])
    BY <1>3, <2>1
  <2> QED BY <2>2 DEF Reading, Prefix, Bytes, Wiz!Data
<1>13. IoShape'
  BY <1>3 DEF IoShape
<1> QED BY <1>10, <1>11, <1>12, <1>13

LEMMA OpenFits ==
  ASSUME NEW s \in Sockets, NEW m \in {"udp", "eth"}, RecvInv, Wiz!Open(s, m)
  PROVE  RecvInv'
<1> USE DEF RecvInv
<1>1. /\ io.op = "none" /\ io' = io /\ mode' = [mode EXCEPT ![s] = m]
  BY DEF Wiz!Open, Wiz!WriteMode, Wiz!NoIo
<1>2. IoShape' /\ Reading'
  BY <1>1 DEF IoShape, Reading
<1>3. /\ mode' = [r \in Sockets |-> mode'[r]] /\ mode'[s] = m
      /\ \A r \in Sockets : r # s => mode'[r] = mode[r]
  BY <1>1, RxChanges DEF RxType
<1>4. CASE UNCHANGED <<rx, pending>> /\ sound' = sound \ {s}
  <2>1. RxType'
    BY <1>3, <1>4 DEF RxType
  <2>2. RingsFit'
    BY <1>3, <1>4 DEF RingsFit, RxType
  <2> QED BY <1>2, <2>1, <2>2
<1>5. CASE /\ rx' = [rx EXCEPT ![s] = Wiz!EmptyRx] /\ pending' = [pending EXCEPT ![s] = <<>>]
           /\ sound' \subseteq sound \cup {s}
  <2>1. /\ rx' = [r \in Sockets |-> rx'[r]] /\ rx'[s] = Wiz!EmptyRx
        /\ \A r \in Sockets : r # s => rx'[r] = rx[r]
    BY <1>5, RxChanges DEF RxType
  <2>2. /\ pending' = [r \in Sockets |-> pending'[r]] /\ pending'[s] = <<>>
        /\ \A r \in Sockets : r # s => pending'[r] = pending[r]
    BY <1>5, RxChanges DEF RxType
  <2>3. RxType'
    <3>1. /\ <<>> \in Seq(Packets)
          /\ Wiz!EmptyRx = [mem |-> Wiz!EmptyRx.mem, wr |-> Wiz!EmptyRx.wr,
                            rd |-> Wiz!EmptyRx.rd, recv |-> Wiz!EmptyRx.recv]
      BY DEF Wiz!EmptyRx
    <3> QED BY <1>3, <1>5, <2>1, <2>2, <3>1 DEF RxType
  <2>4. RingsFit'
    <3> SUFFICES ASSUME NEW r \in sound'
                 PROVE  \E off : Fits(rx'[r], pending'[r], mode'[r], off)
      BY DEF RingsFit
    <3>1. CASE r = s
      <4>1. Fits(Wiz!EmptyRx, <<>>, m, [i \in 0 .. 0 |-> 0])
        BY FitsEmpty
      <4> QED BY <1>3, <2>1, <2>2, <3>1, <4>1
    <3>2. CASE r # s
      <4>1. r \in sound /\ r \in Sockets
        BY <1>5, <3>2 DEF RxType
      <4>2. PICK off : Fits(rx[r], pending[r], mode[r], off)
        BY <4>1 DEF RingsFit
      <4> QED BY <1>3, <2>1, <2>2, <3>2, <4>1, <4>2
    <3> QED BY <3>1, <3>2
  <2> QED BY <1>2, <2>3, <2>4
<1>6. \/ UNCHANGED <<rx, pending>> /\ sound' = sound \ {s}
      \/ /\ rx' = [rx EXCEPT ![s] = Wiz!EmptyRx] /\ pending' = [pending EXCEPT ![s] = <<>>]
         /\ sound' \subseteq sound \cup {s}
  BY DEF Wiz!Open, Wiz!CmdFault
<1> QED BY <1>4, <1>5, <1>6

LEMMA CloseFits ==
  ASSUME NEW s \in Sockets, RecvInv, Wiz!Close(s)
  PROVE  RecvInv'
<1> USE DEF RecvInv
<1>1. /\ io.op = "none" /\ io' = io /\ mode' = [mode EXCEPT ![s] = "closed"]
      /\ pending' = [pending EXCEPT ![s] = <<>>] /\ sound' = sound \ {s} /\ rx' = rx
  BY DEF Wiz!Close, Wiz!WriteMode, Wiz!NoIo, Wiz!CmdFault
<1>2. IoShape' /\ Reading'
  BY <1>1 DEF IoShape, Reading
<1>3. /\ mode' = [r \in Sockets |-> mode'[r]]
      /\ \A r \in Sockets : r # s => mode'[r] = mode[r]
  BY <1>1, RxChanges DEF RxType
<1>4. /\ pending' = [r \in Sockets |-> pending'[r]] /\ pending'[s] = <<>>
      /\ \A r \in Sockets : r # s => pending'[r] = pending[r]
  BY <1>1, RxChanges DEF RxType
<1>5. RxType'
  <2>1. <<>> \in Seq(Packets)
    OBVIOUS
  <2> QED BY <1>1, <1>3, <1>4, <2>1 DEF RxType
<1>6. RingsFit'
  BY <1>1, <1>3, <1>4 DEF RingsFit, RxType
<1> QED BY <1>2, <1>5, <1>6

LEMMA RecvBeginFits ==
  ASSUME NEW s \in Sockets, RecvInv, Wiz!RecvBegin(s)
  PROVE  RecvInv'
<1> USE DEF RecvInv
<1> DEFINE m == mode[s]
           h == Wiz!Read(rx[s].mem, rx[s].rd, 1)[1]
<1>1. /\ Wiz!RxSize(s) # 0
      /\ io' = [op |-> "recv", sock |-> s, pkt |-> Wiz!NoPacket, data |-> <<>>,
                len |-> h[2] - Wiz!Counted(s)]
      /\ UNCHANGED <<rx, pending, mode, sound>>
  BY DEF Wiz!RecvBegin, Wiz!sockets
<1> HIDE DEF h
<1>2. /\ io'.op = "recv" /\ io'.sock = s /\ io'.data = <<>>
      /\ io'.len = h[2] - Wiz!Counted(s)
      /\ io' = [op |-> io'.op, sock |-> io'.sock, pkt |-> io'.pkt, len |-> io'.len,
                data |-> io'.data]
  BY <1>1
<1>3. RxType' /\ IoShape'
  BY <1>1, <1>2 DEF RxType, IoShape
<1>4. RingsFit'
  BY <1>1 DEF RingsFit
<1>5. ASSUME s \in sound
      PROVE  /\ pending[s] # <<>> /\ io'.len = pending[s][1][2]
             /\ Prefix(<<>>, pending[s][1])
  <2>1. PICK off : Fits(rx[s], pending[s], m, off)
    BY <1>5 DEF RingsFit
  <2>2. pending[s] \in Seq(Packets)
    BY DEF RxType
  <2>3. Wiz!RxSize(s) = off[Len(pending[s])] /\ off[0] = 0
    <3> DEFINE t == rx[s]
               q == pending[s]
    <3>1. Fits(t, q, m, off) /\ q \in Seq(Packets)
      BY <2>1, <2>2
    <3> HIDE DEF t, q, m
    <3>2. Wiz!Minus(t.wr, t.recv) = off[Len(q)] /\ off[0] = 0
      BY <3>1, FitsFacts
    <3> QED BY <3>2 DEF Wiz!RxSize, t, q
  <2>4. pending[s] # <<>>
    <3>1. Len(<<>>) = 0
      OBVIOUS
    <3> QED BY <1>1, <2>3, <3>1
  <2> DEFINE p == pending[s][1]
  <2> HIDE DEF m
  <2>5. /\ p \in Packets /\ p[2] \in Nat
        /\ \A j \in 1 .. HdrOf(m) + p[2] :
              rx[s].mem[Wiz!At(rx[s].rd, j - 1)] = ByteOf(m, p, j)
    <3> DEFINE t == rx[s]
               q == pending[s]
    <3>1. Fits(t, q, m, off) /\ q \in Seq(Packets) /\ q # <<>>
      BY <2>1, <2>2, <2>4
    <3> HIDE DEF t, q
    <3>2. /\ q[1] \in Packets /\ q[1][2] \in Nat
          /\ \A j \in 1 .. HdrOf(m) + q[1][2] :
               t.mem[Wiz!At(t.rd, j - 1)] = ByteOf(m, q[1], j)
      BY <3>1, FitsHead
    <3> QED BY <3>2 DEF t, q
  <2>6. 1 \in 1 .. HdrOf(m) + p[2]
    BY <2>5, SizeType
  <2>7. h = LenField(m, p)
    <3>1. h = rx[s].mem[Wiz!At(rx[s].rd, 1 - 1)]
      <4>1. 1 \in 1 .. 1
        OBVIOUS
      <4> QED BY <4>1 DEF Wiz!Read, h
    <3>2. rx[s].mem[Wiz!At(rx[s].rd, 1 - 1)] = ByteOf(m, p, 1)
      BY <2>5, <2>6, Zenon
    <3> QED BY <3>1, <3>2 DEF ByteOf
  <2>8. Wiz!Counted(s) = (IF m = "eth" THEN EthHdr ELSE 0) /\ EthHdr \in Nat
    BY CounterSize DEF Wiz!Counted, m
  <2>9. h[2] - Wiz!Counted(s) = p[2]
    BY <2>5, <2>7, <2>8 DEF LenField
  <2>10. Prefix(<<>>, p)
    BY <2>5 DEF Prefix
  <2> QED BY <1>2, <2>4, <2>9, <2>10
<1>6. Reading'
  <2>1. io'.op = "recv" /\ io'.sock \in sound' =>
          /\ pending'[io'.sock] # <<>> /\ io'.len = pending'[io'.sock][1][2]
          /\ Prefix(io'.data, pending'[io'.sock][1])
    BY <1>1, <1>2, <1>5
  <2> QED BY <2>1 DEF Reading, Prefix, Bytes, Wiz!Data
<1> QED BY <1>3, <1>4, <1>6

LEMMA RecvDataFits ==
  ASSUME NEW n \in 1 .. Mem, RecvInv, Wiz!RecvData(n)
  PROVE  RecvInv'
<1> USE DEF RecvInv
<1> DEFINE s == io.sock
           m == mode[s]
           d == io.data
           piece == Wiz!Read(rx[s].mem, Wiz!Plus(rx[s].rd, Wiz!HdrSize(s) + Len(d)), n)
<1>1. /\ io.op = "recv" /\ Len(d) + n <= io.len
      /\ io' = [io EXCEPT !.data = d \o piece]
      /\ UNCHANGED <<rx, pending, mode, sound>>
  BY DEF Wiz!RecvData, Wiz!sockets
<1> HIDE DEF piece
<1>2. /\ io'.op = "recv" /\ io'.sock = s /\ io'.len = io.len /\ io'.data = d \o piece
      /\ io' = [op |-> io'.op, sock |-> io'.sock, pkt |-> io'.pkt, len |-> io'.len,
                data |-> io'.data]
  BY <1>1 DEF IoShape
<1>3. RxType' /\ IoShape'
  BY <1>1, <1>2 DEF RxType, IoShape
<1>4. RingsFit'
  BY <1>1 DEF RingsFit
<1>5. ASSUME s \in sound
      PROVE  /\ pending[s] # <<>> /\ io.len = pending[s][1][2]
             /\ Prefix(d \o piece, pending[s][1])
  <2>1. PICK off : Fits(rx[s], pending[s], m, off)
    BY <1>5 DEF RingsFit
  <2>2. pending[s] \in Seq(Packets)
    BY DEF RxType, IoShape
  <2> DEFINE p == pending[s][1]
             l == Len(d)
             h == HdrOf(m)
             rd == rx[s].rd
  <2>3. pending[s] # <<>> /\ io.len = p[2] /\ Prefix(d, p)
    BY <1>1, <1>5 DEF Reading
  <2>4. Wiz!HdrSize(s) = h
    BY DEF Wiz!HdrSize, HdrOf
  <2> HIDE DEF m
  <2>5. /\ p \in Packets /\ p[2] \in Nat /\ h + p[2] <= Mem
        /\ \A j \in 1 .. h + p[2] : rx[s].mem[Wiz!At(rd, j - 1)] = ByteOf(m, p, j)
    <3> DEFINE t == rx[s]
               q == pending[s]
    <3>1. Fits(t, q, m, off) /\ q \in Seq(Packets) /\ q # <<>>
      BY <2>1, <2>2, <2>3
    <3> HIDE DEF t, q
    <3>2. /\ q[1] \in Packets /\ q[1][2] \in Nat /\ HdrOf(m) + q[1][2] <= Mem
          /\ \A j \in 1 .. HdrOf(m) + q[1][2] :
               t.mem[Wiz!At(t.rd, j - 1)] = ByteOf(m, q[1], j)
      BY <3>1, FitsHead
    <3> QED BY <3>2 DEF t, q
  <2>6. rd \in Nat
    BY <2>1, <2>2, FitsFacts
  <2>7. /\ h \in Nat \ {0} /\ Mem \in Nat /\ d \in Seq(Bytes(p)) /\ l \in Nat
        /\ \A i \in 1 .. l : d[i] = Wiz!Data(p)[i]
    BY <2>3, SizeType, Sizes DEF Prefix
  <2>8. piece = [i \in 1 .. n |-> rx[s].mem[Wiz!At(Wiz!Plus(rd, h + l), i - 1)]]
    BY <2>4 DEF Wiz!Read, piece
  <2>9. l + n <= p[2]
    BY <1>1, <2>3
  <2> HIDE DEF p, l, h, rd, s, d
  <2>10. \A i \in 1 .. n : piece[i] = Wiz!Data(p)[l + i] /\ l + i \in 1 .. p[2]
    <3> TAKE i \in 1 .. n
    <3>1. /\ h + l \in 0 .. Mem - 1 /\ i - 1 \in Nat /\ (h + l) + (i - 1) < Mem
          /\ h + l + i \in 1 .. h + p[2] /\ (h + l) + (i - 1) = h + l + i - 1
          /\ l + i \in 1 .. p[2] /\ h + l + i # 1 /\ ~(h + l + i <= h)
          /\ (h + l + i) - h = l + i
      <4> DEFINE b == p[2]
      <4>1. b \in Nat /\ h \in Nat \ {0} /\ l \in Nat /\ Mem \in Nat /\ h + b <= Mem
            /\ l + n <= b /\ n \in Nat /\ i \in 1 .. n
        BY <2>5, <2>7, <2>9
      <4> HIDE DEF b
      <4>2. l + i \in 1 .. b /\ (h + l) + (i - 1) < Mem /\ h + l \in 0 .. Mem - 1
        BY <4>1
      <4>3. h + l + i \in 1 .. h + b /\ h + l + i # 1 /\ ~(h + l + i <= h)
            /\ (h + l + i) - h = l + i /\ (h + l) + (i - 1) = h + l + i - 1
        BY <4>1
      <4> QED BY <4>2, <4>3 DEF b
    <3>2. Wiz!At(Wiz!Plus(rd, h + l), i - 1) = Wiz!At(rd, (h + l) + (i - 1))
      BY <2>6, <3>1, AtPlus
    <3>3. piece[i] = rx[s].mem[Wiz!At(rd, h + l + i - 1)]
      BY <2>8, <3>1, <3>2
    <3>4. piece[i] = ByteOf(m, p, h + l + i)
      BY <2>5, <3>1, <3>3
    <3> QED BY <3>1, <3>4 DEF ByteOf, h
  <2>11. piece \in Seq(Bytes(p)) /\ Len(piece) = n
    <3>1. \A i \in 1 .. n : piece[i] \in Bytes(p)
      BY <2>10 DEF Bytes
    <3>2. piece \in [1 .. n -> Bytes(p)]
      BY <2>8, <3>1
    <3> QED BY <3>2
  <2>12. /\ d \o piece \in Seq(Bytes(p)) /\ Len(d \o piece) = l + n
         /\ \A j \in 1 .. l + n :
              (d \o piece)[j] = IF j <= l THEN d[j] ELSE piece[j - l]
    BY <2>7, <2>11, ConcatProperties DEF l
  <2>13. \A j \in 1 .. l + n : (d \o piece)[j] = Wiz!Data(p)[j]
    <3> TAKE j \in 1 .. l + n
    <3>1. CASE j <= l
      <4>1. j \in 1 .. l
        BY <2>7, <3>1
      <4> QED BY <2>7, <2>12, <3>1, <4>1
    <3>2. CASE ~(j <= l)
      <4>1. j - l \in 1 .. n /\ l + (j - l) = j
        BY <2>7, <3>2
      <4> QED BY <2>10, <2>12, <3>2, <4>1
    <3> QED BY <3>1, <3>2
  <2>14. Prefix(d \o piece, p)
    BY <2>9, <2>12, <2>13 DEF Prefix
  <2> QED BY <2>3, <2>14 DEF p
<1>6. Reading'
  <2>1. io'.op = "recv" /\ io'.sock \in sound' =>
          /\ pending'[io'.sock] # <<>> /\ io'.len = pending'[io'.sock][1][2]
          /\ Prefix(io'.data, pending'[io'.sock][1])
    BY <1>1, <1>2, <1>5
  <2> QED BY <2>1 DEF Reading, Prefix, Bytes, Wiz!Data
<1> QED BY <1>3, <1>4, <1>6

LEMMA RecvEndFits ==
  ASSUME RecvInv, Wiz!RecvEnd
  PROVE  RecvInv'
<1> USE DEF RecvInv
<1> DEFINE s == io.sock
           q == pending[s]
           rd == Wiz!Confirm(s, io.len)
           r2 == IF q = <<>> THEN q ELSE Tail(q)
<1>1. /\ io.op = "recv" /\ io' = Wiz!NoIo
      /\ \/ /\ rx' = [rx EXCEPT ![s].rd = rd, ![s].recv = rd] /\ sound' = sound
         \/ /\ rx' = [rx EXCEPT ![s].rd = rd] /\ sound' = sound \ {s}
      /\ pending' = [pending EXCEPT ![s] = r2]
      /\ mode' = mode
  BY DEF Wiz!RecvEnd, Wiz!sockets, Wiz!CmdFault
<1>2. s \in Sockets /\ q \in Seq(Packets)
  BY DEF IoShape, RxType
<1>3. r2 \in Seq(Packets)
  BY <1>2
<1>4. /\ pending' = [r \in Sockets |-> pending'[r]] /\ pending'[s] = r2
      /\ \A r \in Sockets : r # s => pending'[r] = pending[r]
  <2> HIDE DEF r2, s
  <2> QED BY <1>1, <1>2, RxChanges DEF RxType
<1>5. IoShape' /\ Reading'
  BY <1>1, Sizes DEF IoShape, Reading, Wiz!NoIo
<1>6. rx[s] = [mem |-> rx[s].mem, wr |-> rx[s].wr, rd |-> rx[s].rd, recv |-> rx[s].recv]
  BY <1>2 DEF RxType
<1> HIDE DEF rd, r2
<1>7. CASE rx' = [rx EXCEPT ![s].rd = rd] /\ sound' = sound \ {s}
  <2> DEFINE t == [rx[s] EXCEPT !.rd = rd]
  <2>1. rx' = [rx EXCEPT ![s] = t]
    BY <1>7
  <2>2. t = [mem |-> t.mem, wr |-> t.wr, rd |-> t.rd, recv |-> t.recv]
    BY <1>6
  <2> HIDE DEF t, s
  <2>3. /\ rx' = [r \in Sockets |-> rx'[r]] /\ rx'[s] = t
        /\ \A r \in Sockets : r # s => rx'[r] = rx[r]
    BY <1>2, <2>1, RxChanges DEF RxType
  <2>4. RxType'
    BY <1>1, <1>2, <1>3, <1>4, <1>7, <2>2, <2>3 DEF RxType
  <2>5. RingsFit'
    BY <1>1, <1>4, <1>7, <2>3 DEF RingsFit, RxType
  <2> QED BY <1>5, <2>4, <2>5
<1>8. CASE rx' = [rx EXCEPT ![s].rd = rd, ![s].recv = rd] /\ sound' = sound
  <2> DEFINE t == [rx[s] EXCEPT !.rd = rd, !.recv = rd]
             u == [mem |-> rx[s].mem, wr |-> rx[s].wr, rd |-> rd, recv |-> rd]
  <2>1. rx' = [rx EXCEPT ![s] = t]
    BY <1>8
  <2>2. t = u
    <3>1. t = [[rx[s] EXCEPT !.rd = rd] EXCEPT !.recv = rd]
      OBVIOUS
    <3>2. [rx[s] EXCEPT !.rd = rd]
          = [mem |-> rx[s].mem, wr |-> rx[s].wr, rd |-> rd, recv |-> rx[s].recv]
      BY ONLY <1>6
    <3>3. [[mem |-> rx[s].mem, wr |-> rx[s].wr, rd |-> rd, recv |-> rx[s].recv]
            EXCEPT !.recv = rd]
          = [mem |-> rx[s].mem, wr |-> rx[s].wr, rd |-> rd, recv |-> rd]
      OBVIOUS
    <3> HIDE DEF t, s
    <3> QED BY ONLY <3>1, <3>2, <3>3, Zenon DEF u
  <2>3. u.mem = rx[s].mem /\ u.wr = rx[s].wr /\ u.rd = rd /\ u.recv = rd
        /\ u = [mem |-> u.mem, wr |-> u.wr, rd |-> u.rd, recv |-> u.recv]
    OBVIOUS
  <2> HIDE DEF t, u, s
  <2>4. /\ rx' = [r \in Sockets |-> rx'[r]] /\ rx'[s] = u
        /\ \A r \in Sockets : r # s => rx'[r] = rx[r]
    BY <1>2, <2>1, <2>2, RxChanges DEF RxType
  <2>5. RxType'
    BY <1>1, <1>2, <1>3, <1>4, <1>8, <2>3, <2>4 DEF RxType
  <2>6. RingsFit'
    <3> SUFFICES ASSUME NEW r \in sound
                 PROVE  \E off : Fits(rx'[r], pending'[r], mode[r], off)
      BY <1>1, <1>8 DEF RingsFit
    <3>1. PICK off : Fits(rx[r], pending[r], mode[r], off)
      BY DEF RingsFit
    <3>2. CASE r # s
      BY <1>4, <2>4, <3>1, <3>2 DEF RxType
    <3>3. CASE r = s
      <4> DEFINE m == mode[s]
      <4>1. Fits(rx[s], q, m, off)
        BY <3>1, <3>3
      <4>2. q # <<>> /\ io.len = q[1][2]
        BY <1>1, <3>3 DEF Reading, s
      <4>3. rd = Wiz!Plus(rx[s].rd, HdrOf(m) + q[1][2])
        <5>1. Wiz!HdrSize(s) = HdrOf(m)
          BY DEF Wiz!HdrSize, HdrOf
        <5>2. HdrOf(m) \in Nat /\ q[1][2] \in Nat
          <6> HIDE DEF m, q
          <6> QED BY <1>2, <4>1, <4>2, FitsHead, SizeType
        <5>3. q[1][2] + HdrOf(m) = HdrOf(m) + q[1][2]
          BY <5>2
        <5> QED BY <4>2, <5>1, <5>3 DEF rd, Wiz!Confirm
      <4> HIDE DEF m, q
      <4>4. Fits(u, Tail(q), m, Shorter(q, off))
        BY <1>2, <2>3, <4>1, <4>2, <4>3, FitsTail
      <4>5. pending'[s] = Tail(q)
        BY <1>4, <4>2 DEF r2
      <4> QED BY <2>4, <3>3, <4>4, <4>5 DEF m
    <3> QED BY <3>2, <3>3
  <2> QED BY <1>5, <2>5, <2>6
<1> QED BY <1>1, <1>7, <1>8

LEMMA ReceiveStep == RecvInv /\ [Wiz!Next]_(Wiz!wizVars) => RecvInv'
<1> SUFFICES ASSUME RecvInv, [Wiz!Next]_(Wiz!wizVars) PROVE RecvInv'
  OBVIOUS
<1> QED BY ArrivesFits, OpenFits, CloseFits, RecvBeginFits, RecvDataFits,
           RecvEndFits,
           SendsKeep DEF Wiz!Next

LEMMA WizTakesWhole == Wiz!Spec => []Wiz!PacketsAreTakenWhole
<1> QED BY RecvInit, ReceiveStep, RecvSafe, PTL DEF Wiz!Spec

------------------------------------------------------------------------------
(* The ring of the ENC28J60.  Frames take an even number of bytes, and the  *)
(* ring an even number too, so that the pointer for what is free, which is  *)
(* odd, never meets the one that writes.                                    *)

EvenSize == [f \in Frames |-> LET n == EncHdr + f[2] + EncCrc IN n + (n % 2)]

EncLies(r, a, f) ==
  /\ \E b : r[a] = <<"hdr", Enc!Plus(a, EvenSize[f]), f[2] + EncCrc, b>>
  /\ \A j \in 1 .. f[2] : r[Enc!Plus(a, EncHdr + j - 1)] = Wiz!Data(f)[j]

EncFits(r, start, wr, q, off) ==
  /\ Tiles(q, off, EvenSize) /\ off[Len(q)] <= RxStop /\ off[Len(q)] % 2 = 0
  /\ start \in 0 .. RxStop /\ start % 2 = 0
  /\ wr = Enc!Plus(start, off[Len(q)])
  /\ \A i \in 1 .. Len(q) : EncLies(r, Enc!Plus(start, off[i - 1]), q[i])

(* The address before start, or the first one as long as nothing was freed. *)
Before(rd, start) ==
  \/ rd = IF start = 0 THEN RxStop ELSE start - 1
  \/ rd = 0 /\ start = 0

LEMMA EncSizes ==
  /\ RxStop \in Nat /\ RamEnd \in Nat /\ EncHdr \in Nat \ {0} /\ EncCrc \in Nat
  /\ MaxRead \in Nat /\ RxStop % 2 = 1 /\ RxStop < RamEnd /\ RamEnd < 65536
  /\ EncHdr % 2 = 0 /\ \A f \in Frames : f[2] \in Nat
  BY NetworkAssumption DEF Enc!EncAssumption

LEMMA EvenIs ==
  /\ EvenSize \in [Frames -> Nat]
  /\ \A f \in Frames : /\ EvenSize[f] % 2 = 0
                       /\ EvenSize[f] >= EncHdr + f[2] + EncCrc
                       /\ EvenSize[f] = LET n == EncHdr + f[2] + EncCrc IN n + (n % 2)
                       /\ EvenSize[f] \in Nat \ {0}
<1>1. ASSUME NEW n \in Nat
      PROVE  n + (n % 2) \in Nat /\ (n + (n % 2)) % 2 = 0 /\ n + (n % 2) >= n
  OBVIOUS
<1>2. ASSUME NEW f \in Frames
      PROVE  EncHdr + f[2] + EncCrc \in Nat /\ EncHdr + f[2] + EncCrc # 0
  BY EncSizes
<1>3. \A f \in Frames :
        EvenSize[f] = LET n == EncHdr + f[2] + EncCrc IN n + (n % 2)
  BY DEF EvenSize
<1>4. ASSUME NEW f \in Frames
      PROVE  /\ EvenSize[f] % 2 = 0
             /\ EvenSize[f] >= EncHdr + f[2] + EncCrc
             /\ EvenSize[f] = LET n == EncHdr + f[2] + EncCrc IN n + (n % 2)
             /\ EvenSize[f] \in Nat \ {0}
  <2> DEFINE n == EncHdr + f[2] + EncCrc
  <2>1. n \in Nat /\ n # 0 /\ EvenSize[f] = n + (n % 2)
    BY <1>2, <1>3
  <2> HIDE DEF n
  <2>2. n + (n % 2) \in Nat /\ (n + (n % 2)) % 2 = 0 /\ n + (n % 2) >= n
    BY <1>1, <2>1
  <2> QED BY <1>3, <2>1, <2>2 DEF n
<1>5. EvenSize \in [Frames -> Nat]
  BY <1>4 DEF EvenSize
<1> QED BY <1>4, <1>5

(* Places in the ring.                                                      *)
LEMMA EncPlus ==
  ASSUME NEW a \in 0 .. RxStop, NEW x \in 0 .. RxStop
  PROVE  /\ Enc!Plus(a, x) = IF a + x <= RxStop THEN a + x ELSE a + x - (RxStop + 1)
         /\ Enc!Plus(a, x) \in 0 .. RxStop
<1> DEFINE m == RxStop + 1
<1>1. m \in Nat \ {0} /\ a \in 0 .. m - 1 /\ x \in 0 .. m - 1 /\ a \in Nat
  BY EncSizes
<1> HIDE DEF m
<1>2. a % m = a
  <2>1. a = m * 0 + a
    BY <1>1
  <2> QED BY <1>1, <2>1, ModIs
<1>3. (a + x) % m = IF a + x < m THEN a + x ELSE a + x - m
  BY <1>1, <1>2, ModOfSum
<1>4. Enc!Plus(a, x) = IF a + x < m THEN a + x ELSE a + x - m
  BY <1>3 DEF Enc!Plus, m
<1> QED BY <1>1, <1>4, EncSizes DEF m

LEMMA EncPlusPlus ==
  ASSUME NEW a \in 0 .. RxStop, NEW x \in 0 .. RxStop, NEW y \in 0 .. RxStop
  PROVE  Enc!Plus(Enc!Plus(a, x), y) = Enc!Plus(a, x + y)
<1> DEFINE m == RxStop + 1
           s == a + x
<1>1. m \in Nat \ {0} /\ s \in Nat /\ y \in Nat /\ s + y = a + (x + y)
  BY EncSizes
<1> HIDE DEF m, s
<1>2. ((s % m) + y) % m = (s + y) % m
  BY <1>1, ModPlus
<1>3. ((s % m) + y) % m = (a + (x + y)) % m
  BY <1>1, <1>2, Zenon
<1> QED BY <1>3, Zenon DEF Enc!Plus, m, s

LEMMA IntMod ==
  ASSUME NEW m \in Nat \ {0}, NEW p \in 0 .. m - 1, NEW w \in 0 .. m - 1
  PROVE  (p - w) % m = IF p >= w THEN p - w ELSE p - w + m
<1>1. CASE p >= w
  <2>1. p - w \in Nat /\ p - w = m * 0 + (p - w) /\ p - w \in 0 .. m - 1
    BY <1>1
  <2>2. (p - w) % m = p - w
    BY <2>1, ModIs
  <2> QED BY <1>1, <2>2
<1>2. CASE ~(p >= w)
  <2> DEFINE x == p - w
             q == x \div m
             r == x % m
  <2>1. x \in Int /\ x < 0 /\ 0 - m < x
    BY <1>2
  <2> HIDE DEF x
  <2>2. x = m * q + r /\ q \in Int /\ r \in 0 .. m - 1
    BY <2>1
  <2> HIDE DEF q, r
  <2>3. q = 0 - 1
    <3>1. CASE q >= 0
      <4>1. m * q >= 0
        BY <3>1, <2>2
      <4> QED BY <2>1, <2>2, <4>1
    <3>2. CASE q <= 0 - 2
      <4>1. m * (0 - q - 1) >= m
        BY <3>2, <2>2, Multiples
      <4>2. m * (0 - q - 1) = 0 - m * q - m
        BY <2>2
      <4>3. m * q \in Int
        BY <2>2
      <4> QED BY <2>1, <2>2, <4>1, <4>2, <4>3
    <3> QED BY <2>2, <3>1, <3>2
  <2>4. r = x + m
    BY <2>1, <2>2, <2>3
  <2> QED BY <1>2, <2>4 DEF r, x
<1> QED BY <1>1, <1>2

(* How far behind the place at z the place at y is, seen by the chip.       *)
LEMMA EncApart ==
  ASSUME NEW a \in 0 .. RxStop, NEW y \in 0 .. RxStop, NEW z \in 0 .. RxStop
  PROVE  (Enc!Plus(a, y) - Enc!Plus(a, z)) % (RxStop + 1)
           = IF y >= z THEN y - z ELSE y - z + (RxStop + 1)
<1> DEFINE m == RxStop + 1
           p == Enc!Plus(a, y)
           w == Enc!Plus(a, z)
<1>1. m \in Nat \ {0} /\ p \in 0 .. m - 1 /\ w \in 0 .. m - 1
  BY EncSizes, EncPlus
<1>2. /\ p = IF a + y < m THEN a + y ELSE a + y - m
      /\ w = IF a + z < m THEN a + z ELSE a + z - m
      /\ a \in 0 .. m - 1 /\ y \in 0 .. m - 1 /\ z \in 0 .. m - 1
  BY EncSizes, EncPlus
<1> HIDE DEF m, p, w
<1>3. (p - w) % m = IF p >= w THEN p - w ELSE p - w + m
  BY <1>1, IntMod
<1>4. (IF p >= w THEN p - w ELSE p - w + m) \in
        {y - z, y - z + m, y - z - m} /\ (IF p >= w THEN p - w ELSE p - w + m) \in 0 .. m - 1
  BY <1>1, <1>2
<1>5. (IF p >= w THEN p - w ELSE p - w + m) = IF y >= z THEN y - z ELSE y - z + m
  BY <1>1, <1>2, <1>4
<1> QED BY <1>3, <1>5 DEF m, p, w

LEMMA EncRoom ==
  ASSUME NEW start \in 0 .. RxStop, start % 2 = 0, NEW used \in 0 .. RxStop, used % 2 = 0,
         chip.wr = Enc!Plus(start, used), Before(chip.rd, start),
         NEW k \in Nat, k <= Enc!Room
  PROVE  used + k <= RxStop
<1>1. RxStop \in Nat /\ RxStop % 2 = 1 /\ used # RxStop
  BY EncSizes
<1>2. chip.wr = IF start + used <= RxStop THEN start + used ELSE start + used - (RxStop + 1)
  BY EncPlus
<1>3. k <= IF chip.wr > chip.rd THEN RxStop - (chip.wr - chip.rd)
           ELSE IF chip.wr = chip.rd THEN RxStop ELSE chip.rd - chip.wr - 1
  BY DEF Enc!Room
<1>4. CASE start = 0 /\ chip.rd = 0
  BY <1>1, <1>2, <1>3, <1>4
<1>5. CASE start = 0 /\ chip.rd = RxStop
  BY <1>1, <1>2, <1>3, <1>5
<1>6. CASE start # 0 /\ chip.rd = start - 1
  <2>1. CASE start + used <= RxStop
    BY <1>1, <1>2, <1>3, <1>6, <2>1
  <2>2. CASE ~(start + used <= RxStop)
    BY <1>1, <1>2, <1>3, <1>6, <2>2
  <2> QED BY <2>1, <2>2
<1> QED BY <1>4, <1>5, <1>6 DEF Before

LEMMA EncFacts ==
  ASSUME NEW r, NEW start, NEW wr, NEW q \in Seq(Frames), NEW off,
         EncFits(r, start, wr, q, off)
  PROVE  /\ Len(q) \in Nat /\ off \in [0 .. Len(q) -> Nat] /\ off[0] = 0
         /\ \A i \in 1 .. Len(q) :
              /\ off[i] = off[i - 1] + EvenSize[q[i]]
              /\ off[i] <= off[Len(q)] /\ q[i] \in Frames /\ q[i][2] \in Nat
              /\ off[i] \in Nat /\ off[i - 1] \in Nat
         /\ off[Len(q)] \in 0 .. RxStop /\ off[Len(q)] \in Nat
         /\ off[Len(q)] % 2 = 0
         /\ start \in 0 .. RxStop /\ start % 2 = 0
         /\ wr = Enc!Plus(start, off[Len(q)])
         /\ \A i \in 1 .. Len(q) : EncLies(r, Enc!Plus(start, off[i - 1]), q[i])
         /\ \A i, j \in 0 .. Len(q) : i <= j => off[i] <= off[j]
<1>1. /\ Len(q) \in Nat /\ off \in [0 .. Len(q) -> Nat] /\ off[0] = 0
      /\ \A i \in 1 .. Len(q) : off[i] = off[i - 1] + EvenSize[q[i]]
      /\ \A i, j \in 0 .. Len(q) : i <= j => off[i] <= off[j]
      /\ off[Len(q)] <= RxStop /\ off[Len(q)] % 2 = 0
      /\ start \in 0 .. RxStop /\ start % 2 = 0
      /\ wr = Enc!Plus(start, off[Len(q)])
      /\ \A i \in 1 .. Len(q) : EncLies(r, Enc!Plus(start, off[i - 1]), q[i])
  <2>1. Len(q) \in Nat
    OBVIOUS
  <2> QED BY <2>1, Zenon DEF EncFits, Tiles
<1>2. off[Len(q)] \in Nat /\ off[Len(q)] \in 0 .. RxStop
  <2>1. Len(q) \in 0 .. Len(q)
    BY <1>1
  <2>2. off[Len(q)] \in Nat
    BY <1>1, <2>1
  <2> QED BY <1>1, <2>2, EncSizes
<1>3. ASSUME NEW i \in 1 .. Len(q)
      PROVE  /\ off[i] <= off[Len(q)] /\ q[i] \in Frames /\ q[i][2] \in Nat
             /\ off[i] \in Nat /\ off[i - 1] \in Nat
  <2>1. i \in 0 .. Len(q) /\ i - 1 \in 0 .. Len(q) /\ Len(q) \in 0 .. Len(q)
        /\ i <= Len(q)
    BY <1>1
  <2>2. q[i] \in Frames
    OBVIOUS
  <2>3. off[i] \in Nat /\ off[i - 1] \in Nat /\ off[i] <= off[Len(q)]
    BY <1>1, <2>1
  <2> QED BY <2>2, <2>3, EncSizes
<1> QED BY <1>1, <1>2, <1>3

LEMMA EncNone ==
  ASSUME NEW r
  PROVE  EncFits(r, 0, 0, <<>>, [i \in 0 .. 0 |-> 0])
<1> DEFINE off == [i \in 0 .. 0 |-> 0]
<1>1. Tiles(<<>>, off, EvenSize) /\ off[Len(<<>>)] = 0 /\ Len(<<>>) = 0
  <2>1. off[0] = 0 /\ Len(<<>>) = 0
    OBVIOUS
  <2> HIDE DEF off
  <2> QED BY <2>1, TilesNone DEF off
<1> HIDE DEF off
<1>2. 0 \in 0 .. RxStop /\ 0 <= RxStop /\ 0 % 2 = 0
  BY EncSizes
<1>3. Enc!Plus(0, 0) = 0
  BY <1>2, EncPlus, EncSizes
<1> QED BY <1>1, <1>2, <1>3 DEF EncFits, off

(* What the chip writes at wr, and nothing else.                            *)
Stored(r2, r, wr, f, b) ==
  \A p \in 0 .. RxStop :
    LET i == (p - wr) % (RxStop + 1)
    IN r2[p] = IF i < EncHdr + f[2] + EncCrc
               THEN IF i = 0 THEN <<"hdr", Enc!Plus(wr, EvenSize[f]), f[2] + EncCrc, b>>
                    ELSE IF i \in EncHdr .. EncHdr + f[2] - 1 THEN Wiz!Data(f)[i - EncHdr + 1]
                    ELSE Enc!Old
               ELSE r[p]

LEMMA EncAppend ==
  ASSUME NEW r, NEW start, NEW wr, NEW q \in Seq(Frames), NEW off,
         EncFits(r, start, wr, q, off), NEW f \in Frames, NEW r2, NEW b,
         off[Len(q)] + EvenSize[f] <= RxStop, Stored(r2, r, wr, f, b)
  PROVE  EncFits(r2, start, Enc!Plus(wr, EvenSize[f]), Append(q, f),
                 Longer(q, off, EvenSize[f]))
<1> DEFINE n == Len(q)
           a == Append(q, f)
           k == EvenSize[f]
           o == Longer(q, off, k)
           l == f[2]
           u == off[n]
<1>1. /\ k \in Nat \ {0} /\ k % 2 = 0 /\ k >= EncHdr + l + EncCrc /\ l \in Nat
      /\ EncHdr \in Nat \ {0} /\ EncCrc \in Nat /\ RxStop \in Nat
  BY EvenIs, EncSizes
<1>2. /\ Tiles(a, o, EvenSize) /\ Len(a) = n + 1 /\ a \in Seq(Frames)
      /\ a[n + 1] = f /\ \A i \in 1 .. n : a[i] = q[i]
  <2>1. Tiles(q, off, EvenSize)
    BY DEF EncFits
  <2> QED BY <2>1, EvenIs, TilesAppend
<1>3. /\ n \in Nat /\ off \in [0 .. n -> Nat] /\ off[0] = 0
      /\ \A i \in 1 .. n :
           /\ off[i] = off[i - 1] + EvenSize[q[i]]
           /\ off[i] <= off[n] /\ q[i] \in Frames /\ q[i][2] \in Nat
           /\ off[i] \in Nat /\ off[i - 1] \in Nat
      /\ off[n] \in 0 .. RxStop /\ off[n] \in Nat
      /\ off[n] % 2 = 0
      /\ start \in 0 .. RxStop /\ start % 2 = 0
      /\ wr = Enc!Plus(start, off[n])
      /\ \A i \in 1 .. n : EncLies(r, Enc!Plus(start, off[i - 1]), q[i])
      /\ \A i, j \in 0 .. n : i <= j => off[i] <= off[j]
  BY EncFacts, Zenon
<1>4. /\ o[n + 1] = u + k /\ \A i \in 0 .. n : o[i] = off[i]
  <2>1. o = [i \in 0 .. n + 1 |-> IF i <= n THEN off[i] ELSE off[n] + k]
    BY DEF Longer
  <2> HIDE DEF o, n, k
  <2>2. \A i \in 0 .. n : i \in 0 .. n + 1 /\ i <= n
    BY <1>3
  <2>3. n + 1 \in 0 .. n + 1 /\ ~(n + 1 <= n)
    BY <1>3
  <2> QED BY <2>1, <2>2, <2>3
<1>5. /\ u + k <= RxStop /\ u \in Nat /\ u \in 0 .. RxStop /\ u % 2 = 0
      /\ start \in 0 .. RxStop /\ wr = Enc!Plus(start, u)
  BY <1>3
<1> HIDE DEF n, a, k, o, l, u
(* The place at y of the ring, as the chip sees it.                         *)
<1>6. ASSUME NEW y \in 0 .. RxStop
      PROVE  LET i == IF y >= u THEN y - u ELSE y - u + (RxStop + 1)
             IN r2[Enc!Plus(start, y)]
                = IF i < EncHdr + l + EncCrc
                  THEN IF i = 0 THEN <<"hdr", Enc!Plus(wr, k), l + EncCrc, b>>
                       ELSE IF i \in EncHdr .. EncHdr + l - 1
                            THEN Wiz!Data(f)[i - EncHdr + 1]
                       ELSE Enc!Old
                  ELSE r[Enc!Plus(start, y)]
  <2> DEFINE p == Enc!Plus(start, y)
             i == (p - wr) % (RxStop + 1)
  <2>1. p \in 0 .. RxStop
    BY <1>5, EncPlus
  <2>2. i = IF y >= u THEN y - u ELSE y - u + (RxStop + 1)
    <3>1. i = (Enc!Plus(start, y) - Enc!Plus(start, u)) % (RxStop + 1)
      BY <1>5, Zenon
    <3> HIDE DEF i
    <3> QED BY <1>5, <3>1, EncApart
  <2>3. r2[p] = IF i < EncHdr + l + EncCrc
                THEN IF i = 0 THEN <<"hdr", Enc!Plus(wr, k), l + EncCrc, b>>
                     ELSE IF i \in EncHdr .. EncHdr + l - 1
                          THEN Wiz!Data(f)[i - EncHdr + 1]
                     ELSE Enc!Old
                ELSE r[p]
    BY <2>1, Zenon DEF Stored, k, l
  <2> HIDE DEF p, i
  <2> QED BY <2>2, <2>3, Zenon DEF p
<1>7. EncLies(r2, wr, f)
  <2>1. r2[wr] = <<"hdr", Enc!Plus(wr, k), l + EncCrc, b>>
    <3>1. /\ u >= u /\ u - u = 0 /\ 0 < EncHdr + l + EncCrc
      BY <1>1, <1>5
    <3> QED BY <1>5, <1>6, <3>1
  <2>2. \A j \in 1 .. l : r2[Enc!Plus(wr, EncHdr + j - 1)] = Wiz!Data(f)[j]
    <3> TAKE j \in 1 .. l
    <3> DEFINE x == EncHdr + j - 1
               y == u + x
    <3>1. /\ x \in 0 .. RxStop /\ y \in 0 .. RxStop /\ y >= u /\ y - u = x
          /\ x < EncHdr + l + EncCrc /\ x # 0 /\ x \in EncHdr .. EncHdr + l - 1
          /\ x - EncHdr + 1 = j
      BY <1>1, <1>5
    <3> HIDE DEF x
    <3>2. Enc!Plus(wr, x) = Enc!Plus(start, y)
      <4> HIDE DEF y
      <4>1. x \in 0 .. RxStop /\ u \in 0 .. RxStop /\ start \in 0 .. RxStop
        BY <1>5, <3>1
      <4>2. Enc!Plus(Enc!Plus(start, u), x) = Enc!Plus(start, u + x)
        BY <4>1, EncPlusPlus
      <4> QED BY <1>5, <4>2, Zenon DEF y
    <3> HIDE DEF y
    <3>3. r2[Enc!Plus(start, y)] = Wiz!Data(f)[j]
      BY <1>6, <3>1
    <3> QED BY <3>2, <3>3 DEF x
  <2> QED BY <2>1, <2>2 DEF EncLies, k, l
<1>8. ASSUME NEW i \in 1 .. n
      PROVE  EncLies(r2, Enc!Plus(start, off[i - 1]), q[i])
  <2> DEFINE g == q[i]
             c == off[i - 1]
             s == Enc!Plus(start, c)
  <2>1. /\ off[i] = c + EvenSize[g] /\ off[i] <= u /\ g \in Frames /\ g[2] \in Nat
        /\ off[i] \in Nat /\ c \in Nat /\ EncLies(r, s, g)
    BY <1>3 DEF u
  <2>2. EvenSize[g] >= EncHdr + g[2] + EncCrc /\ EvenSize[g] \in Nat \ {0}
    BY <2>1, EvenIs
  <2> HIDE DEF g, c
  <2>3. ASSUME NEW x \in Nat, x < EvenSize[g]
        PROVE  r2[Enc!Plus(s, x)] = r[Enc!Plus(s, x)]
    <3> DEFINE y == c + x
    <3>1. /\ c \in 0 .. RxStop /\ x \in 0 .. RxStop /\ y \in 0 .. RxStop /\ ~(y >= u)
          /\ y \in Nat
      <4> DEFINE e == EvenSize[g]
                 oi == off[i]
      <4>1. /\ oi = c + e /\ oi <= u /\ oi \in Nat /\ c \in Nat /\ e \in Nat \ {0}
            /\ x \in Nat /\ x < e
        BY <2>1, <2>2, <2>3
      <4> HIDE DEF e, oi
      <4> QED BY <1>1, <1>5, <4>1
    <3>2. ~(y - u + (RxStop + 1) < EncHdr + l + EncCrc)
      <4> HIDE DEF y
      <4> QED BY <1>1, <1>5, <3>1
    <3>3. Enc!Plus(s, x) = Enc!Plus(start, y)
      <4> HIDE DEF y
      <4>1. start \in 0 .. RxStop
        BY <1>5
      <4>2. Enc!Plus(Enc!Plus(start, c), x) = Enc!Plus(start, c + x)
        BY <3>1, <4>1, EncPlusPlus
      <4> QED BY <4>2, Zenon DEF y
    <3> HIDE DEF y, s
    <3> QED BY <1>6, <3>1, <3>2, <3>3
  <2>4. r2[s] = r[s]
    <3>1. s \in 0 .. RxStop /\ 0 \in 0 .. RxStop
      <4>1. c \in 0 .. RxStop
        <5> DEFINE e == EvenSize[g]
                   oi == off[i]
        <5>1. oi = c + e /\ oi <= u /\ oi \in Nat /\ c \in Nat /\ e \in Nat \ {0}
          BY <2>1, <2>2
        <5> HIDE DEF e, oi
        <5> QED BY <1>1, <1>5, <5>1
      <4>2. start \in 0 .. RxStop
        BY <1>5
      <4>3. Enc!Plus(start, c) \in 0 .. RxStop
        BY <4>1, <4>2, EncPlus
      <4>4. 0 \in 0 .. RxStop
        BY <1>1
      <4> QED BY <4>3, <4>4
    <3> HIDE DEF s
    <3>2. Enc!Plus(s, 0) = s
      BY <1>1, <3>1, EncPlus
    <3>3. r2[Enc!Plus(s, 0)] = r[Enc!Plus(s, 0)]
      BY <2>2, <2>3
    <3> QED BY <3>2, <3>3
  <2>5. \A j \in 1 .. g[2] : r2[Enc!Plus(s, EncHdr + j - 1)] = r[Enc!Plus(s, EncHdr + j - 1)]
    <3> TAKE j \in 1 .. g[2]
    <3>1. EncHdr + j - 1 \in Nat /\ EncHdr + j - 1 < EvenSize[g]
      BY <1>1, <2>1, <2>2
    <3> QED BY <2>3, <3>1
  <2> HIDE DEF s
  <2>6. EncLies(r2, s, g)
    BY <2>1, <2>4, <2>5 DEF EncLies
  <2> QED BY <2>6 DEF s, g, c
<1>9. \A i \in 1 .. n + 1 : EncLies(r2, Enc!Plus(start, o[i - 1]), a[i])
  <2> TAKE i \in 1 .. n + 1
  <2>1. CASE i = n + 1
    <3>1. i - 1 = n /\ n \in 0 .. n
      BY <1>3, <2>1
    <3>2. o[i - 1] = u /\ a[i] = f
      BY <1>2, <1>4, <2>1, <3>1 DEF u
    <3> QED BY <1>5, <1>7, <3>2
  <2>2. CASE i # n + 1
    <3>1. i \in 1 .. n /\ i - 1 \in 0 .. n
      BY <1>3, <2>2
    <3>2. o[i - 1] = off[i - 1] /\ a[i] = q[i]
      BY <1>2, <1>4, <3>1
    <3> QED BY <1>8, <3>1, <3>2
  <2> QED BY <2>1, <2>2
<1>10. Enc!Plus(wr, k) = Enc!Plus(start, o[n + 1])
  <2>1. k \in 0 .. RxStop /\ u \in 0 .. RxStop /\ start \in 0 .. RxStop
    BY <1>1, <1>5
  <2>2. Enc!Plus(Enc!Plus(start, u), k) = Enc!Plus(start, u + k)
    BY <2>1, EncPlusPlus
  <2> QED BY <1>4, <1>5, <2>2, Zenon
<1>11. o[n + 1] <= RxStop /\ o[n + 1] % 2 = 0
  BY <1>1, <1>4, <1>5
<1> QED BY <1>2, <1>3, <1>9, <1>10, <1>11 DEF EncFits, n, a, k, o

------------------------------------------------------------------------------
(* The frames the driver of the ENC28J60 takes.                             *)

HasBytes(r, start, f) ==
  \A j \in 1 .. f[2] : r[Enc!Plus(start, EncHdr + j - 1)] = Wiz!Data(f)[j]

LEMMA EncHead ==
  ASSUME NEW r, NEW start, NEW wr, NEW q \in Seq(Frames), q # <<>>, NEW off,
         EncFits(r, start, wr, q, off)
  PROVE  /\ q[1] \in Frames /\ q[1][2] \in Nat /\ Head(q) = q[1]
         /\ off[1] = EvenSize[q[1]]
         /\ off[1] \in 0 .. RxStop /\ EncHdr + q[1][2] + EncCrc <= RxStop
         /\ start \in 0 .. RxStop
         /\ r[start][1] = "hdr" /\ r[start][2] = Enc!Plus(start, off[1])
         /\ r[start][3] = q[1][2] + EncCrc
         /\ HasBytes(r, start, q[1])
<1> DEFINE n == Len(q)
           f == q[1]
<1>1. /\ n \in Nat /\ off \in [0 .. n -> Nat] /\ off[0] = 0
      /\ \A i \in 1 .. n :
           /\ off[i] = off[i - 1] + EvenSize[q[i]]
           /\ off[i] <= off[n] /\ q[i] \in Frames /\ q[i][2] \in Nat
           /\ off[i] \in Nat /\ off[i - 1] \in Nat
      /\ off[n] \in 0 .. RxStop /\ off[n] \in Nat
      /\ off[n] % 2 = 0
      /\ start \in 0 .. RxStop /\ start % 2 = 0
      /\ wr = Enc!Plus(start, off[n])
      /\ \A i \in 1 .. n : EncLies(r, Enc!Plus(start, off[i - 1]), q[i])
      /\ \A i, j \in 0 .. n : i <= j => off[i] <= off[j]
  BY EncFacts, Zenon
<1>2. n # 0 /\ Head(q) = f
  OBVIOUS
<1> HIDE DEF n
<1>3. 1 \in 1 .. n /\ 1 - 1 = 0
  BY <1>1, <1>2
<1>4. /\ off[1] = off[0] + EvenSize[f] /\ off[1] <= off[n] /\ f \in Frames
      /\ f[2] \in Nat /\ off[1] \in Nat
  BY <1>1, <1>3
<1>5. EvenSize[f] \in Nat /\ EvenSize[f] >= EncHdr + f[2] + EncCrc
  BY <1>4, EvenIs
<1>6. EncLies(r, Enc!Plus(start, 0), f)
  BY <1>1, <1>3
<1>7. Enc!Plus(start, 0) = start
  <2>1. start \in 0 .. RxStop /\ 0 \in 0 .. RxStop /\ start + 0 <= RxStop /\ start + 0 = start
    BY <1>1, EncSizes
  <2> QED BY <2>1, EncPlus
<1> HIDE DEF f
<1>8. off[1] = EvenSize[f]
  BY <1>1, <1>4, <1>5
<1>9. off[1] \in 0 .. RxStop /\ EncHdr + f[2] + EncCrc <= RxStop
  <2> DEFINE a == off[1]
             b == off[n]
             e == EncHdr + f[2] + EncCrc
  <2>1. a \in Nat /\ b \in Nat /\ b <= RxStop /\ a <= b /\ a >= e /\ RxStop \in Nat
    BY <1>1, <1>4, <1>5, <1>8, EncSizes
  <2>2. e \in Nat
    BY <1>4, EncSizes
  <2> HIDE DEF a, b, e
  <2>3. a \in 0 .. RxStop /\ e <= RxStop
    BY <2>1, <2>2
  <2> QED BY <2>3 DEF a, e
<1>10. /\ \E b : r[start] = <<"hdr", Enc!Plus(start, EvenSize[f]), f[2] + EncCrc, b>>
       /\ \A j \in 1 .. f[2] : r[Enc!Plus(start, EncHdr + j - 1)] = Wiz!Data(f)[j]
  BY <1>6, <1>7, Zenon DEF EncLies
<1>11. /\ r[start][1] = "hdr" /\ r[start][2] = Enc!Plus(start, off[1])
       /\ r[start][3] = f[2] + EncCrc
  <2> DEFINE x == Enc!Plus(start, EvenSize[f])
             y == f[2] + EncCrc
  <2>1. PICK b : r[start] = <<"hdr", x, y, b>>
    BY <1>10
  <2> HIDE DEF x, y
  <2>2. r[start][1] = "hdr" /\ r[start][2] = x /\ r[start][3] = y
    BY <2>1
  <2> QED BY <1>8, <2>2 DEF x, y
<1> QED BY <1>1, <1>2, <1>4, <1>8, <1>9, <1>10, <1>11 DEF f, HasBytes

LEMMA EncTail ==
  ASSUME NEW r, NEW start, NEW wr, NEW q \in Seq(Frames), q # <<>>, NEW off,
         EncFits(r, start, wr, q, off)
  PROVE  EncFits(r, Enc!Plus(start, off[1]), wr, Tail(q), Shorter(q, off))
<1> DEFINE n == Len(q)
           t == Tail(q)
           o == Shorter(q, off)
           k == off[1]
           s2 == Enc!Plus(start, k)
<1>1. /\ Tiles(t, o, EvenSize) /\ t \in Seq(Frames) /\ Len(t) = n - 1
      /\ n \in Nat \ {0} /\ \A i \in 1 .. n - 1 : t[i] = q[i + 1]
      /\ k = EvenSize[q[1]] /\ q[1] \in Frames
  <2>1. Tiles(q, off, EvenSize)
    BY DEF EncFits
  <2>2. EvenSize \in [Frames -> Nat]
    BY EvenIs
  <2> QED BY <2>1, <2>2, TilesTail
<1>2. /\ n \in Nat /\ off \in [0 .. n -> Nat] /\ off[0] = 0
      /\ \A i \in 1 .. n :
           /\ off[i] = off[i - 1] + EvenSize[q[i]]
           /\ off[i] <= off[n] /\ q[i] \in Frames /\ q[i][2] \in Nat
           /\ off[i] \in Nat /\ off[i - 1] \in Nat
      /\ off[n] \in 0 .. RxStop /\ off[n] \in Nat
      /\ off[n] % 2 = 0
      /\ start \in 0 .. RxStop /\ start % 2 = 0
      /\ wr = Enc!Plus(start, off[n])
      /\ \A i \in 1 .. n : EncLies(r, Enc!Plus(start, off[i - 1]), q[i])
      /\ \A i, j \in 0 .. n : i <= j => off[i] <= off[j]
  BY EncFacts, Zenon
<1>3. \A i \in 0 .. n - 1 : o[i] = off[i + 1] - k
  BY DEF Shorter
<1>4. k \in Nat /\ k % 2 = 0
  BY <1>1, EvenIs
<1> HIDE DEF n, t, o, k
<1>5. k <= off[n] /\ k \in 0 .. RxStop /\ RxStop \in Nat
  <2>1. 1 \in 0 .. n /\ n \in 0 .. n /\ 1 <= n
    BY <1>1
  <2>2. k <= off[n]
    BY <1>2, <2>1 DEF k
  <2> DEFINE e == off[n]
  <2>3. e \in 0 .. RxStop /\ k <= e
    BY <1>2, <2>2
  <2> HIDE DEF e
  <2>4. k \in 0 .. RxStop
    BY <1>4, <2>3, EncSizes
  <2> QED BY <2>2, <2>4, EncSizes
<1>6. /\ o[n - 1] = off[n] - k /\ off[n] - k \in 0 .. RxStop /\ o[n - 1] <= RxStop
      /\ o[n - 1] % 2 = 0
  <2>1. n - 1 \in 0 .. n - 1 /\ (n - 1) + 1 = n
    BY <1>1
  <2> DEFINE e == off[n]
  <2>2. o[n - 1] = e - k
    BY <1>3, <2>1
  <2>3. e \in Nat /\ e % 2 = 0 /\ e <= RxStop /\ k <= e
    BY <1>2, <1>5
  <2> HIDE DEF e
  <2>4. e - k \in 0 .. RxStop /\ (e - k) % 2 = 0
    BY <1>4, <1>5, <2>3
  <2> QED BY <2>2, <2>4 DEF e
<1>7. s2 \in 0 .. RxStop /\ s2 % 2 = 0
  <2>1. /\ s2 = IF start + k <= RxStop THEN start + k ELSE start + k - (RxStop + 1)
        /\ s2 \in 0 .. RxStop
    BY <1>2, <1>5, EncPlus
  <2>2. start % 2 = 0 /\ k % 2 = 0 /\ RxStop % 2 = 1 /\ start \in Nat /\ k \in Nat
        /\ RxStop \in Nat
    BY <1>2, <1>4, EncSizes
  <2> HIDE DEF s2
  <2> QED BY <2>1, <2>2
<1>8. wr = Enc!Plus(s2, o[n - 1])
  <2> DEFINE e == off[n] - k
  <2>1. e \in 0 .. RxStop /\ k + e = off[n] /\ start \in 0 .. RxStop
    BY <1>2, <1>4, <1>6
  <2> HIDE DEF e
  <2>2. Enc!Plus(Enc!Plus(start, k), e) = Enc!Plus(start, k + e)
    BY <1>5, <2>1, EncPlusPlus
  <2> QED BY <1>2, <1>6, <2>1, <2>2 DEF e
<1>9. ASSUME NEW i \in 1 .. n - 1
      PROVE  EncLies(r, Enc!Plus(s2, o[i - 1]), t[i])
  <2>1. /\ i + 1 \in 1 .. n /\ i \in 1 .. n /\ (i + 1) - 1 = i /\ i \in 0 .. n
        /\ i - 1 \in 0 .. n - 1 /\ (i - 1) + 1 = i /\ 1 \in 0 .. n /\ 1 <= i
    BY <1>1
  <2>2. EncLies(r, Enc!Plus(start, off[i]), q[i + 1]) /\ t[i] = q[i + 1]
    BY <1>1, <1>2, <2>1
  <2> DEFINE e == off[i] - k
  <2>3. o[i - 1] = e
    BY <1>3, <2>1
  <2>4. k <= off[i] /\ off[i] \in Nat /\ off[i] <= off[n]
    BY <1>2, <2>1 DEF k
  <2>5. e \in 0 .. RxStop /\ k + e = off[i] /\ start \in 0 .. RxStop
    <3> DEFINE x == off[i]
               y == off[n]
    <3>1. x \in Nat /\ y \in Nat /\ k \in Nat /\ k <= x /\ x <= y /\ y <= RxStop
          /\ RxStop \in Nat
      BY <1>2, <1>4, <1>5, <2>4
    <3> HIDE DEF x, y
    <3>2. x - k \in 0 .. RxStop /\ k + (x - k) = x
      BY <3>1
    <3> QED BY <1>2, <3>2 DEF x
  <2> HIDE DEF e
  <2>6. Enc!Plus(Enc!Plus(start, k), e) = Enc!Plus(start, k + e)
    BY <1>5, <2>5, EncPlusPlus
  <2> QED BY <2>2, <2>3, <2>5, <2>6
<1> HIDE DEF s2
<1>10. EncFits(r, s2, wr, t, o)
  BY <1>1, <1>6, <1>7, <1>8, <1>9 DEF EncFits
<1> QED BY <1>10 DEF s2, t, o, k

(* What recv and recv_data read of a frame is what it holds there.          *)
LEMMA EncReads ==
  ASSUME NEW start \in 0 .. RxStop, NEW f, f[2] \in Nat, NEW d, Prefix(d, f),
         EncHdr + f[2] + EncCrc <= RxStop,
         HasBytes(ring, start, f),
         NEW n \in Nat, Len(d) + n <= f[2],
         NEW p, p = Enc!Plus(start, EncHdr + Len(d))
  PROVE  /\ Prefix(d \o Enc!ReadBuf(p, n), f)
         /\ Len(d \o Enc!ReadBuf(p, n)) = Len(d) + n
         /\ Enc!Plus(p, n) = Enc!Plus(start, EncHdr + (Len(d) + n))
<1> DEFINE l == Len(d)
           b == f[2]
           h == EncHdr
           piece == Enc!ReadBuf(p, n)
<1>1. /\ d \in Seq(Bytes(f)) /\ \A i \in 1 .. l : d[i] = Wiz!Data(f)[i]
      /\ l \in Nat
  BY DEF Prefix
<1>2. /\ h \in Nat \ {0} /\ b \in Nat /\ RxStop \in Nat /\ h + b <= RxStop /\ l + n <= b
      /\ start \in 0 .. RxStop
  BY EncSizes
<1>3. \A j \in 1 .. b : ring[Enc!Plus(start, h + j - 1)] = Wiz!Data(f)[j]
  BY DEF HasBytes
<1>4. piece = [i \in 1 .. n |-> ring[Enc!Plus(p, i - 1)]] /\ p = Enc!Plus(start, h + l)
  BY DEF Enc!ReadBuf
<1> HIDE DEF l, b, h, piece
<1>5. \A x \in 0 .. n : Enc!Plus(p, x) = Enc!Plus(start, (h + l) + x)
  <2> TAKE x \in 0 .. n
  <2> DEFINE y == h + l
  <2>1. y \in 0 .. RxStop /\ x \in 0 .. RxStop
    BY <1>1, <1>2
  <2>2. p = Enc!Plus(start, y)
    BY <1>4
  <2> HIDE DEF y
  <2>3. Enc!Plus(Enc!Plus(start, y), x) = Enc!Plus(start, y + x)
    BY <1>2, <2>1, EncPlusPlus
  <2> QED BY <2>2, <2>3 DEF y
<1>6. \A i \in 1 .. n : piece[i] = Wiz!Data(f)[l + i] /\ l + i \in 1 .. b
  <2> TAKE i \in 1 .. n
  <2>1. /\ i - 1 \in 0 .. n /\ l + i \in 1 .. b
        /\ (h + l) + (i - 1) = h + (l + i) - 1
    BY <1>1, <1>2
  <2>2. piece[i] = ring[Enc!Plus(start, h + (l + i) - 1)]
    BY <1>4, <1>5, <2>1
  <2> QED BY <1>3, <2>1, <2>2
<1>7. piece \in Seq(Bytes(f)) /\ Len(piece) = n
  <2>1. \A i \in 1 .. n : piece[i] \in Bytes(f)
    BY <1>6 DEF Bytes, b
  <2>2. piece \in [1 .. n -> Bytes(f)]
    BY <1>4, <2>1
  <2> QED BY <2>2
<1>8. /\ d \o piece \in Seq(Bytes(f)) /\ Len(d \o piece) = l + n
      /\ \A j \in 1 .. l + n :
           (d \o piece)[j] = IF j <= l THEN d[j] ELSE piece[j - l]
  BY <1>1, <1>7, ConcatProperties DEF l
<1>9. \A j \in 1 .. l + n : (d \o piece)[j] = Wiz!Data(f)[j]
  <2> TAKE j \in 1 .. l + n
  <2>1. CASE j <= l
    <3>1. j \in 1 .. l
      BY <1>1, <2>1
    <3> QED BY <1>1, <1>8, <2>1, <3>1
  <2>2. CASE ~(j <= l)
    <3>1. j - l \in 1 .. n /\ l + (j - l) = j
      BY <1>1, <2>2
    <3> QED BY <1>6, <1>8, <2>2, <3>1
  <2> QED BY <2>1, <2>2
<1>10. Prefix(d \o piece, f)
  BY <1>2, <1>8, <1>9 DEF Prefix, b
<1>11. Enc!Plus(p, n) = Enc!Plus(start, h + (l + n))
  <2>1. n \in 0 .. n /\ (h + l) + n = h + (l + n)
    BY <1>1, <1>2
  <2> QED BY <1>5, <2>1
<1> QED BY <1>8, <1>10, <1>11 DEF l, piece, h

(* next_pkt on an AVR.                                                      *)
LEMMA FreeEndIs ==
  ASSUME NEW next \in 0 .. RxStop, cpu = "avr"
  PROVE  Before(Enc!FreeEnd(next), next)
<1>1. /\ RxStop \in Nat /\ RamEnd \in Nat /\ RxStop < RamEnd /\ RamEnd < 65536
      /\ next \in Nat
  BY EncSizes
<1>4. (next - 1) % 65536 = IF next >= 1 THEN next - 1 ELSE next - 1 + 65536
  <2> DEFINE w == 65536
             o == 1
  <2>1. w \in Nat \ {0} /\ next \in 0 .. w - 1 /\ o \in 0 .. w - 1
    <3>1. RamEnd < w /\ w \in Nat /\ o = 1 /\ w # 0 /\ o \in Nat
      BY <1>1
    <3> HIDE DEF w, o
    <3>2. next \in Nat /\ next <= RxStop
      BY <1>1
    <3>3. next \in 0 .. w - 1 /\ o \in 0 .. w - 1
      BY <1>1, <3>1, <3>2
    <3> QED BY <3>1, <3>3
  <2> HIDE DEF w, o
  <2>2. (next - o) % w = IF next >= o THEN next - o ELSE next - o + w
    BY <2>1, IntMod
  <2> QED BY <2>2 DEF w, o
<1>2. CASE next = 0
  <2>1. (next - 1) % 65536 = 65535
    BY <1>2, <1>4
  <2>2. Enc!FreeEnd(next) = RxStop
    BY <1>1, <1>2, <2>1 DEF Enc!FreeEnd
  <2> QED BY <1>2, <2>2 DEF Before
<1>3. CASE next # 0
  <2> DEFINE m == RamEnd + 1
             x == next - 1
  <2>1. x \in Nat /\ m \in Nat \ {0} /\ x \in 0 .. m - 1 /\ x \in 0 .. 65536 - 1
        /\ x <= RxStop
    BY <1>1, <1>3
  <2>2. x % 65536 = x
    <3>1. next >= 1
      BY <1>1, <1>3
    <3> QED BY <1>4, <3>1
  <2>3. x % m = x
    <3> HIDE DEF m, x
    <3>1. x = m * 0 + x
      BY <2>1
    <3> QED BY <2>1, <3>1, ModIs
  <2>4. Enc!FreeEnd(next) = x
    <3>1. Enc!FreeEnd(next) = IF x % 65536 > RxStop THEN RxStop ELSE (x % 65536) % m
      BY DEF Enc!FreeEnd
    <3> HIDE DEF x, m
    <3> QED BY <1>1, <2>1, <2>2, <2>3, <3>1
  <2> QED BY <1>3, <2>4 DEF Before
<1> QED BY <1>2, <1>3

LEMMA MinTwo ==
  ASSUME NEW x \in Nat, NEW y \in Nat
  PROVE  Enc!Min({x, y}) = IF x <= y THEN x ELSE y
<1>1. \E z \in {x, y} : \A w \in {x, y} : z =< w
  <2>1. CASE x <= y
    BY <2>1
  <2>2. CASE ~(x <= y)
    BY <2>2
  <2> QED BY <2>1, <2>2
<1>2. /\ Enc!Min({x, y}) \in {x, y} /\ \A w \in {x, y} : Enc!Min({x, y}) =< w
  BY <1>1 DEF Enc!Min
<1> QED BY <1>2

------------------------------------------------------------------------------
(* The bank the ENC28J60 has selected, and the driver's copy of it.         *)

(* The copy b of the bank is wrong at most between a reset and the setup,   *)
(* and then does not say the first, which the setup selects.                *)
Settled(b, e) ==
  /\ b = [chip |-> b.chip, driver |-> b.driver]
  /\ b.chip = b.driver \/ (e = "down" /\ b.driver # 0)

LEMMA BothSettled ==
  ASSUME NEW k, NEW e
  PROVE  Settled([chip |-> k, driver |-> k], e)
<1> DEFINE b == [chip |-> k, driver |-> k]
<1>1. b.chip = k /\ b.driver = k /\ b = [chip |-> k, driver |-> k]
  OBVIOUS
<1> HIDE DEF b
<1>2. b = [chip |-> b.chip, driver |-> b.driver]
  BY <1>1, Zenon
<1>3. Settled(b, e)
  BY <1>1, <1>2, Zenon DEF Settled
<1> QED BY <1>3 DEF b

LEMMA SelectKeeps ==
  ASSUME NEW b, NEW e, Settled(b, e), NEW k
  PROVE  /\ Settled(Enc!Select(b, k), e)
         /\ k = 0 => \A x : Settled(Enc!Select(b, k), x)
<1>1. CASE b.driver = k
  <2>1. Enc!Select(b, k) = b
    BY <1>1 DEF Enc!Select
  <2> QED BY <1>1, <2>1 DEF Settled
<1>2. CASE b.driver # k
  <2>1. Enc!Select(b, k) = [chip |-> k, driver |-> k]
    BY <1>2 DEF Enc!Select
  <2> QED BY <2>1, BothSettled
<1> QED BY <1>1, <1>2

LEMMA BankStep == Settled(bank, eth) /\ [Enc!Next]_(Enc!encVars) => Settled(bank', eth')
<1> SUFFICES ASSUME Settled(bank, eth), [Enc!Next]_(Enc!encVars)
             PROVE  Settled(bank', eth')
  OBVIOUS
<1>1. /\ Enc!BankOf.ECON1 = 0 /\ Enc!BankOf.ERXST = 0 /\ Enc!BankOf.EREVID # 0
  BY DEF Enc!BankOf
<1>2. CASE UNCHANGED Enc!encVars
  BY <1>2 DEF Enc!encVars, Settled
<1>3. ASSUME bank' = bank, eth' = eth PROVE Settled(bank', eth')
  BY <1>3 DEF Settled
<1>4. ASSUME Enc!InFirstBank PROVE Settled(bank', eth')
  BY <1>1, <1>4, SelectKeeps DEF Enc!InFirstBank
<1>5. ASSUME NEW f \in Frames, NEW ok \in BOOLEAN, Enc!Arrives(f, ok)
      PROVE  Settled(bank', eth')
  BY <1>3, <1>5 DEF Enc!Arrives
<1>6. CASE Enc!Transmitted
  BY <1>3, <1>6 DEF Enc!Transmitted
<1>7. CASE Enc!InitChip
  <2>1. bank' = Enc!Select([bank EXCEPT !.chip = 0], Enc!BankOf.EREVID) /\ eth' = "down"
    BY <1>7 DEF Enc!InitChip
  <2>2. [bank EXCEPT !.chip = 0] = [chip |-> 0, driver |-> bank.driver]
    BY DEF Settled
  <2> QED BY <1>1, <2>1, <2>2 DEF Settled, Enc!Select
<1>8. CASE Enc!Setup
  <2>1. bank' = Enc!Select(Enc!Select(Enc!Select(bank, Enc!BankOf.ERXST), Enc!BankOf.MAADR),
                           Enc!BankOf.ECON1)
    BY <1>8 DEF Enc!Setup
  <2>2. Settled(Enc!Select(bank, Enc!BankOf.ERXST), eth)
    BY SelectKeeps
  <2>3. Settled(Enc!Select(Enc!Select(bank, Enc!BankOf.ERXST), Enc!BankOf.MAADR), eth)
    BY <2>2, SelectKeeps
  <2> QED BY <1>1, <2>1, <2>3, SelectKeeps
<1>9. CASE Enc!Disable
  BY <1>4, <1>9 DEF Enc!Disable
<1>10. CASE Enc!LooksElsewhere
  <2>1. eth' = eth
    BY <1>10 DEF Enc!LooksElsewhere
  <2>2. CASE Enc!GetPending
    BY <2>1, <2>2, SelectKeeps DEF Enc!GetPending
  <2>3. CASE Enc!IsLinkUp
    BY <2>1, <2>3, SelectKeeps DEF Enc!IsLinkUp
  <2>4. CASE Enc!FlowControl
    BY <2>1, <2>4, SelectKeeps DEF Enc!FlowControl
  <2> QED BY <1>10, <2>2, <2>3, <2>4 DEF Enc!LooksElsewhere
<1>11. CASE Enc!Recv
  BY <1>4, <1>11 DEF Enc!Recv
<1>12. CASE Enc!RecvBegin
  BY <1>4, <1>12 DEF Enc!RecvBegin
<1>13. CASE Enc!RecvEnd
  BY <1>4, <1>13 DEF Enc!RecvEnd
<1>14. ASSUME NEW n \in 1 .. MaxRead, Enc!RecvData(n) PROVE Settled(bank', eth')
  BY <1>3, <1>14 DEF Enc!RecvData
<1>15. CASE Enc!SendFill
  BY <1>4, <1>15 DEF Enc!SendFill
<1>16. CASE Enc!SendStart
  BY <1>4, <1>16 DEF Enc!SendStart
<1> QED BY <1>2, <1>5, <1>6, <1>7, <1>8, <1>9, <1>10, <1>11, <1>12, <1>13, <1>14,
           <1>15, <1>16 DEF Enc!Next

LEMMA EncReachesRegisters == Enc!Spec => []Enc!RegistersAreReached
<1> DEFINE Inv == Settled(bank, eth)
<1>1. Enc!Init => Inv
  <2>1. Settled([chip |-> 0, driver |-> 0], "down")
    BY BothSettled
  <2> QED BY <2>1, Zenon DEF Enc!Init
<1>2. Inv /\ [Enc!Next]_(Enc!encVars) => Inv'
  <2>1. Settled(bank', eth') => Settled(bank, eth)'
    BY DEF Settled
  <2> QED BY <2>1, BankStep
<1>3. Inv => Enc!RegistersAreReached
  BY DEF Settled, Enc!RegistersAreReached
<1> HIDE DEF Inv
<1> QED BY <1>1, <1>2, <1>3, PTL DEF Enc!Spec

------------------------------------------------------------------------------
(* The invariant of the driver of the ENC28J60.                             *)

(* Between two calls the ring holds the frames of the queue from ptr on;    *)
(* between recv_begin and recv_end from start on, and ptr is the next one.  *)
Idle(r, c, ptr, q) ==
  Before(c.rd, ptr) /\ \E off : EncFits(r, ptr, c.wr, q, off)
Within(r, c, ptr, q, l, d) ==
  /\ q # <<>>
  /\ \E start, off :
       /\ EncFits(r, start, c.wr, q, off) /\ Before(c.rd, start)
       /\ ptr = Enc!Plus(start, off[1])
       /\ c.erd = Enc!Plus(start, EncHdr + Len(d))
       /\ l = q[1][2] - Len(d) /\ Prefix(d, q[1])

EncShape ==
  /\ queue \in Seq(Frames)
  /\ chip = [wr |-> chip.wr, rd |-> chip.rd, erd |-> chip.erd]
  /\ got = [data |-> got.data, owed |-> got.owed] /\ got.data = got.owed
  /\ eth \in {"down", "up", "off", "read"}

RingHolds ==
  /\ eth = "down" => queue = <<>> /\ chip = Enc!Reset
  /\ eth \in {"up", "off"} => Idle(ring, chip, gNextPacketPtr, queue)
  /\ eth = "read" => Within(ring, chip, gNextPacketPtr, queue, left, got.data)

EncInv == EncShape /\ RingHolds

LEMMA RingHoldsNext ==
  ASSUME eth' = "down" => queue' = <<>> /\ chip' = Enc!Reset,
         eth' \in {"up", "off"} => Idle(ring', chip', gNextPacketPtr', queue'),
         eth' = "read" => Within(ring', chip', gNextPacketPtr', queue', left', got'.data)
  PROVE  RingHolds'
<1>1. Idle(ring', chip', gNextPacketPtr', queue')
        => Idle(ring, chip, gNextPacketPtr, queue)'
  BY DEF Idle, EncFits, EncLies, Before, Tiles, EvenSize, Enc!Plus, Wiz!Data
<1>2. Within(ring', chip', gNextPacketPtr', queue', left', got'.data)
        => Within(ring, chip, gNextPacketPtr, queue, left, got.data)'
  BY DEF Within, EncFits, EncLies, Before, Tiles, EvenSize, Enc!Plus, Prefix,
         Bytes, Wiz!Data
<1>3. Enc!Reset' = Enc!Reset
  BY DEF Enc!Reset
<1> QED BY <1>1, <1>2, <1>3 DEF RingHolds

LEMMA EncPlace ==
  ASSUME NEW r, NEW start, NEW wr, NEW q \in Seq(Frames), NEW off,
         EncFits(r, start, wr, q, off)
  PROVE  /\ off[Len(q)] \in 0 .. RxStop /\ off[Len(q)] % 2 = 0
         /\ start \in 0 .. RxStop /\ start % 2 = 0
         /\ wr = Enc!Plus(start, off[Len(q)])
<1>1. off[Len(q)] \in 0 .. RxStop
  <2>1. Len(q) \in Nat /\ Len(q) \in 0 .. Len(q)
    OBVIOUS
  <2>2. off \in [0 .. Len(q) -> Nat] /\ off[Len(q)] <= RxStop
    BY DEF EncFits, Tiles
  <2> QED BY <2>1, <2>2, EncSizes
<1> QED BY <1>1 DEF EncFits

LEMMA EncSafe ==
  ASSUME cpu = "avr" => EncInv
  PROVE  Enc!FramesAreTakenWhole
<1> SUFFICES ASSUME cpu = "avr"
             PROVE  /\ got.data = got.owed
                    /\ eth # "read" /\ queue # <<>> =>
                         Enc!Header[1] = "hdr" /\ Enc!GotSize = Head(queue)[2]
  BY DEF Enc!FramesAreTakenWhole
<1>1. got.data = got.owed /\ queue \in Seq(Frames)
  BY DEF EncInv, EncShape
<1>2. ASSUME eth # "read", queue # <<>>
      PROVE  Enc!Header[1] = "hdr" /\ Enc!GotSize = Head(queue)[2]
  <2>1. Idle(ring, chip, gNextPacketPtr, queue)
    BY <1>2 DEF EncInv, EncShape, RingHolds
  <2>2. PICK off : EncFits(ring, gNextPacketPtr, chip.wr, queue, off)
    BY <2>1 DEF Idle
  <2>3. /\ queue[1][2] \in Nat /\ Head(queue) = queue[1]
        /\ ring[gNextPacketPtr][1] = "hdr"
        /\ ring[gNextPacketPtr][3] = queue[1][2] + EncCrc
    BY <1>1, <1>2, <2>2, EncHead
  <2>4. Enc!Header[1] = "hdr" /\ Enc!Header[3] = queue[1][2] + EncCrc
    BY <2>3 DEF Enc!Header
  <2> DEFINE l == queue[1][2]
  <2>5. Enc!GotSize = (l + EncCrc) - EncCrc /\ l \in Nat /\ EncCrc \in Nat
    BY <2>3, <2>4, EncSizes DEF Enc!GotSize
  <2> HIDE DEF l
  <2>6. Enc!GotSize = l
    BY <2>5
  <2> QED BY <2>3, <2>4, <2>6 DEF l
<1> QED BY <1>1, <1>2

(* The other calls, and the chip as it sends.                               *)
LEMMA EncKeeps ==
  ASSUME EncInv, UNCHANGED <<ring, chip, gNextPacketPtr, left, queue>>,
         eth' = eth \/ (eth = "up" /\ eth' = "off"),
         got' = got \/ (eth # "read" /\ got' = Enc!Nothing)
  PROVE  EncInv'
<1>1. /\ Enc!Nothing.data = <<>> /\ Enc!Nothing.owed = <<>>
      /\ Enc!Nothing = [data |-> <<>>, owed |-> <<>>]
  BY DEF Enc!Nothing
<1>2. EncShape'
  BY <1>1 DEF EncInv, EncShape
<1>3. RingHolds'
  <2>1. eth' = "down" => queue' = <<>> /\ chip' = Enc!Reset
    BY DEF EncInv, RingHolds
  <2>2. eth' \in {"up", "off"} => Idle(ring', chip', gNextPacketPtr', queue')
    BY DEF EncInv, RingHolds
  <2>3. eth' = "read" => Within(ring', chip', gNextPacketPtr', queue', left', got'.data)
    BY DEF EncInv, RingHolds
  <2> QED BY <2>1, <2>2, <2>3, RingHoldsNext
<1> QED BY <1>2, <1>3 DEF EncInv

LEMMA EncResets ==
  ASSUME EncInv, Enc!InitChip
  PROVE  EncInv'
<1>1. /\ eth' = "down" /\ chip' = Enc!Reset /\ queue' = <<>> /\ got' = Enc!Nothing
  BY DEF Enc!InitChip, Enc!ReadsNothing
<1>2. EncShape'
  <2>1. chip' = [wr |-> chip'.wr, rd |-> chip'.rd, erd |-> chip'.erd]
    BY <1>1 DEF Enc!Reset
  <2>2. got' = [data |-> got'.data, owed |-> got'.owed] /\ got'.data = got'.owed
    BY <1>1 DEF Enc!Nothing
  <2> QED BY <1>1, <2>1, <2>2 DEF EncShape
<1> QED BY <1>1, <1>2, RingHoldsNext DEF EncInv

LEMMA EncSetsUp ==
  ASSUME EncInv, Enc!Setup
  PROVE  EncInv'
<1>1. /\ eth = "down" /\ eth' = "up" /\ gNextPacketPtr' = 0 /\ got' = Enc!Nothing
      /\ UNCHANGED <<ring, chip, left, queue>>
  BY DEF Enc!Setup, Enc!ReadsNothing
<1>2. /\ queue = <<>> /\ chip.wr = 0 /\ chip.rd = 0
  BY <1>1 DEF EncInv, RingHolds, Enc!Reset
<1>3. Idle(ring, chip, 0, queue)
  <2>1. EncFits(ring, 0, chip.wr, queue, [i \in 0 .. 0 |-> 0])
    BY <1>2, EncNone
  <2>2. Before(chip.rd, 0)
    BY <1>2 DEF Before
  <2> QED BY <2>1, <2>2 DEF Idle
<1>4. EncShape'
  <2>1. got' = [data |-> got'.data, owed |-> got'.owed] /\ got'.data = got'.owed
    BY <1>1 DEF Enc!Nothing
  <2> QED BY <1>1, <2>1 DEF EncInv, EncShape
<1> QED BY <1>1, <1>3, <1>4, RingHoldsNext DEF EncInv

(* A frame comes in.                                                        *)
LEMMA EncArrives ==
  ASSUME NEW f \in Frames, NEW ok \in BOOLEAN, EncInv, Enc!Arrives(f, ok)
  PROVE  EncInv'
<1> DEFINE k == EvenSize[f]
           a == Append(queue, f)
           next == Enc!Plus(chip.wr, k)
<1>1. k = LET n == EncHdr + f[2] + EncCrc IN n + (n % 2)
  BY EvenIs
<1>2. /\ eth \in {"up", "read"} /\ k <= Enc!Room /\ chip' = [chip EXCEPT !.wr = next]
      /\ queue' = a /\ UNCHANGED <<eth, gNextPacketPtr, left, got>>
  BY <1>1 DEF Enc!Arrives
<1>3. Stored(ring', ring, chip.wr, f, ok)
  <2>1. ring' = [p \in 0 .. RxStop |->
                   LET i == (p - chip.wr) % (RxStop + 1)
                   IN IF i < EncHdr + f[2] + EncCrc
                      THEN IF i = 0 THEN <<"hdr", next, f[2] + EncCrc, ok>>
                           ELSE IF i \in EncHdr .. EncHdr + f[2] - 1
                                THEN Wiz!Data(f)[i - EncHdr + 1]
                           ELSE Enc!Old
                      ELSE ring[p]]
    BY <1>1 DEF Enc!Arrives, Enc!Ring, Enc!Data, Wiz!Data
  <2> QED BY <2>1 DEF Stored
<1>4. /\ chip'.wr = next /\ chip'.rd = chip.rd /\ chip'.erd = chip.erd
      /\ chip' = [wr |-> chip'.wr, rd |-> chip'.rd, erd |-> chip'.erd]
  BY <1>2 DEF EncInv, EncShape
<1>5. queue \in Seq(Frames) /\ a \in Seq(Frames)
  BY DEF EncInv, EncShape
<1> HIDE DEF a, next, k
<1>6. ASSUME NEW start, NEW off, EncFits(ring, start, chip.wr, queue, off),
             Before(chip.rd, start)
      PROVE  EncFits(ring', start, next, a, Longer(queue, off, k))
  <2> DEFINE u == off[Len(queue)]
  <2>1. /\ u \in 0 .. RxStop /\ u % 2 = 0 /\ start \in 0 .. RxStop /\ start % 2 = 0
        /\ chip.wr = Enc!Plus(start, u)
    BY <1>5, <1>6, EncPlace
  <2>2. k \in Nat
    BY EvenIs DEF k
  <2> HIDE DEF u
  <2>3. u + k <= RxStop
    BY <1>2, <1>6, <2>1, <2>2, EncRoom
  <2> QED BY <1>3, <1>5, <1>6, <2>3, EncAppend DEF a, next, k, u
<1>7. CASE eth = "up"
  <2>1. PICK off : EncFits(ring, gNextPacketPtr, chip.wr, queue, off)
    BY <1>7 DEF EncInv, RingHolds, Idle
  <2>2. Before(chip.rd, gNextPacketPtr)
    BY <1>7 DEF EncInv, RingHolds, Idle
  <2>3. EncFits(ring', gNextPacketPtr, next, a, Longer(queue, off, k))
    BY <1>6, <2>1, <2>2
  <2>4. Idle(ring', chip', gNextPacketPtr', queue')
    BY <1>2, <1>4, <2>2, <2>3 DEF Idle
  <2>5. RingHolds'
    BY <1>2, <1>7, <2>4, RingHoldsNext
  <2> QED BY <1>2, <1>4, <1>5, <2>5 DEF EncInv, EncShape
<1>8. CASE eth = "read"
  <2> DEFINE d == got.data
  <2>1. /\ queue # <<>>
        /\ \E start, off :
             /\ EncFits(ring, start, chip.wr, queue, off) /\ Before(chip.rd, start)
             /\ gNextPacketPtr = Enc!Plus(start, off[1])
             /\ chip.erd = Enc!Plus(start, EncHdr + Len(d))
             /\ left = queue[1][2] - Len(d) /\ Prefix(d, queue[1])
    BY <1>8 DEF EncInv, RingHolds, Within
  <2>2. PICK start, off :
             /\ EncFits(ring, start, chip.wr, queue, off) /\ Before(chip.rd, start)
             /\ gNextPacketPtr = Enc!Plus(start, off[1])
             /\ chip.erd = Enc!Plus(start, EncHdr + Len(d))
             /\ left = queue[1][2] - Len(d) /\ Prefix(d, queue[1])
    BY <2>1
  <2>3. EncFits(ring', start, next, a, Longer(queue, off, k))
    BY <1>6, <2>2
  <2>4. /\ a # <<>> /\ a[1] = queue[1]
    BY <1>5, <2>1 DEF a
  <2>5. Longer(queue, off, k)[1] = off[1]
    <3>1. Len(queue) \in Nat /\ Len(queue) # 0
      BY <1>5, <2>1
    <3>2. 1 \in 0 .. Len(queue) + 1 /\ 1 <= Len(queue)
      BY <3>1
    <3> QED BY <3>2 DEF Longer
  <2> HIDE DEF d
  <2>6. Within(ring', chip', gNextPacketPtr, a, left, d)
    BY <1>4, <2>2, <2>3, <2>4, <2>5 DEF Within
  <2>7. Within(ring', chip', gNextPacketPtr', queue', left', got'.data)
    BY <1>2, <2>6 DEF d
  <2>8. RingHolds'
    BY <1>2, <1>8, <2>7, RingHoldsNext
  <2> QED BY <1>2, <1>4, <1>5, <2>8 DEF EncInv, EncShape
<1> QED BY <1>2, <1>7, <1>8

(* What the driver owes of the oldest frame, as the ghost counts it.        *)
LEMMA OwedIs ==
  ASSUME NEW q, q = queue, q \in Seq(Frames), q # <<>>, NEW d, Prefix(d, q[1])
  PROVE  Enc!Owed(Len(d)) = d
<1> DEFINE f == q[1]
           n == Len(d)
           l == f[2]
<1>1. f \in Frames /\ Head(q) = f
  OBVIOUS
<1>2. n \in Nat /\ n <= l /\ l \in Nat
  <2>1. l \in Nat
    BY <1>1, EncSizes
  <2>2. d \in Seq(Bytes(f)) /\ n <= l
    BY DEF Prefix
  <2> QED BY <2>1, <2>2
<1>3. d = SubSeq(Wiz!Data(f), 1, n)
  BY <1>2, PrefixIs
<1>4. Enc!Owed(n) = SubSeq(Enc!Data(f), 1, Enc!Min({n, l}))
  BY <1>1 DEF Enc!Owed
<1>5. Enc!Data(f) = Wiz!Data(f)
  BY DEF Enc!Data, Wiz!Data
<1> HIDE DEF n, l, f
<1>6. Enc!Min({n, l}) = n
  BY <1>2, MinTwo
<1> QED BY <1>3, <1>4, <1>5, <1>6 DEF n

(* The oldest frame is freed, and the register for it is written.           *)
LEMMA EncFrees ==
  ASSUME NEW r, NEW start, NEW wr, NEW q \in Seq(Frames), q # <<>>, NEW off,
         EncFits(r, start, wr, q, off), cpu = "avr",
         NEW c, c.wr = wr, c.rd = Enc!FreeEnd(Enc!Plus(start, off[1]))
  PROVE  Idle(r, c, Enc!Plus(start, off[1]), Tail(q))
<1> DEFINE next == Enc!Plus(start, off[1])
<1>1. start \in 0 .. RxStop /\ off[1] \in 0 .. RxStop
  BY EncHead
<1>2. next \in 0 .. RxStop
  BY <1>1, EncPlus
<1>3. EncFits(r, next, wr, Tail(q), Shorter(q, off))
  BY EncTail
<1> HIDE DEF next
<1>4. Before(c.rd, next)
  BY <1>2, FreeEndIs DEF next
<1>5. Idle(r, c, next, Tail(q))
  BY <1>3, <1>4 DEF Idle
<1> QED BY <1>5 DEF next

LEMMA TailOfQueue ==
  ASSUME NEW q \in Seq(Frames), q # <<>>
  PROVE  Tail(q) \in Seq(Frames)
  OBVIOUS

(* enc28j60_recv.                                                           *)
LEMMA EncRecv ==
  ASSUME EncInv, cpu = "avr", Enc!Recv
  PROVE  EncInv'
<1> DEFINE len == IF Enc!Ok THEN Enc!Min({Enc!GotSize, MaxRead}) ELSE 0
           start == Enc!Plus(gNextPacketPtr, EncHdr)
           d == Enc!ReadBuf(start, len)
           q == queue
           ptr == gNextPacketPtr
<1>1. /\ eth \in {"up", "off"} /\ q # <<>>
      /\ got' = [data |-> d, owed |-> Enc!Owed(len)]
      /\ gNextPacketPtr' = Enc!Header[2]
      /\ chip' = [chip EXCEPT !.rd = Enc!FreeEnd(Enc!Header[2]), !.erd = Enc!Plus(start, len)]
      /\ queue' = Tail(q) /\ UNCHANGED <<eth, ring, left>>
  BY DEF Enc!Recv, Enc!Pending
<1>2. q \in Seq(Frames)
  BY DEF EncInv, EncShape
<1>3. PICK off : EncFits(ring, ptr, chip.wr, q, off)
  BY <1>1 DEF EncInv, RingHolds, Idle
<1> DEFINE f == q[1]
           l == f[2]
           next == Enc!Plus(ptr, off[1])
<1>4. /\ f \in Frames /\ l \in Nat /\ Head(q) = f /\ ptr \in 0 .. RxStop
      /\ EncHdr + l + EncCrc <= RxStop /\ HasBytes(ring, ptr, f)
      /\ ring[ptr][2] = next /\ ring[ptr][3] = l + EncCrc
  BY <1>1, <1>2, <1>3, EncHead
<1>5. Enc!Header[2] = next /\ Enc!GotSize = l
  <2>1. Enc!Header[2] = next /\ Enc!GotSize = (l + EncCrc) - EncCrc
    BY <1>4 DEF Enc!Header, Enc!GotSize
  <2>2. l \in Nat /\ EncCrc \in Nat
    BY <1>4, EncSizes
  <2> HIDE DEF l
  <2>3. (l + EncCrc) - EncCrc = l
    BY <2>2
  <2> QED BY <2>1, <2>3
<1> HIDE DEF q, ptr, f, l, next
<1>6. len \in Nat /\ len <= l
  <2>1. CASE Enc!Ok
    <3>1. len = Enc!Min({l, MaxRead})
      BY <1>5, <2>1
    <3> QED BY <1>4, <3>1, EncSizes, MinTwo
  <2>2. CASE ~Enc!Ok
    BY <1>4, <2>2
  <2> QED BY <2>1, <2>2
<1> HIDE DEF len, d
<1>7. Prefix(d, f) /\ Len(d) = len
  <2> DEFINE z == <<>>
  <2>1. Prefix(z, f) /\ Len(z) = 0
    BY <1>4 DEF Prefix, l
  <2>2. start = Enc!Plus(ptr, EncHdr + 0) /\ 0 + len <= l
    <3>1. EncHdr + 0 = EncHdr /\ 0 + len = len
      BY <1>6, EncSizes
    <3> QED BY <1>6, <3>1 DEF ptr
  <2> HIDE DEF z, start
  <2>3. Prefix(z \o Enc!ReadBuf(start, len), f) /\ Len(z \o Enc!ReadBuf(start, len)) = 0 + len
    <3> DEFINE p == start
    <3>1. /\ ptr \in 0 .. RxStop /\ f[2] \in Nat /\ Prefix(z, f)
          /\ EncHdr + f[2] + EncCrc <= RxStop /\ HasBytes(ring, ptr, f)
          /\ len \in Nat /\ Len(z) + len <= f[2]
          /\ p = Enc!Plus(ptr, EncHdr + Len(z))
      BY <1>4, <1>6, <2>1, <2>2 DEF l
    <3> HIDE DEF p
    <3>2. /\ Prefix(z \o Enc!ReadBuf(p, len), f)
          /\ Len(z \o Enc!ReadBuf(p, len)) = Len(z) + len
      BY <3>1, EncReads
    <3> QED BY <2>1, <3>2 DEF p
  <2>4. z \o d = d
    <3>1. d = [i \in 1 .. len |-> d[i]]
      BY DEF d, Enc!ReadBuf
    <3>2. d \in Seq({d[i] : i \in 1 .. len})
      BY <1>6, <3>1
    <3> QED BY <3>2, ConcatEmptySeq DEF z
  <2> QED BY <1>6, <2>3, <2>4 DEF d
<1>8. Enc!Owed(len) = d
  <2>1. q = queue
    BY DEF q
  <2> QED BY <1>1, <1>2, <1>7, <2>1, OwedIs DEF f
<1>9. /\ chip'.wr = chip.wr /\ chip'.rd = Enc!FreeEnd(next)
      /\ chip' = [wr |-> chip'.wr, rd |-> chip'.rd, erd |-> chip'.erd]
  <2> DEFINE a == Enc!FreeEnd(next)
             b == Enc!Plus(start, len)
  <2>1. chip' = [[chip EXCEPT !.rd = a] EXCEPT !.erd = b]
    BY <1>1, <1>5
  <2>2. chip = [wr |-> chip.wr, rd |-> chip.rd, erd |-> chip.erd]
    BY DEF EncInv, EncShape
  <2> HIDE DEF a, b
  <2>3. [chip EXCEPT !.rd = a] = [wr |-> chip.wr, rd |-> a, erd |-> chip.erd]
    BY ONLY <2>2
  <2>4. [[wr |-> chip.wr, rd |-> a, erd |-> chip.erd] EXCEPT !.erd = b]
        = [wr |-> chip.wr, rd |-> a, erd |-> b]
    OBVIOUS
  <2>5. chip' = [wr |-> chip.wr, rd |-> a, erd |-> b]
    BY ONLY <2>1, <2>3, <2>4, Zenon
  <2> QED BY <2>5 DEF a
<1>10. Idle(ring, chip', next, Tail(q))
  BY <1>1, <1>2, <1>3, <1>9, EncFrees DEF next
<1>11. RingHolds'
  <2>1. Idle(ring', chip', gNextPacketPtr', queue')
    BY <1>1, <1>5, <1>10
  <2> QED BY <1>1, <2>1, RingHoldsNext
<1>12. EncShape'
  <2>1. Tail(q) \in Seq(Frames)
    BY <1>1, <1>2, TailOfQueue
  <2>2. got' = [data |-> d, owed |-> d]
    BY <1>1, <1>8
  <2>3. got' = [data |-> got'.data, owed |-> got'.owed] /\ got'.data = got'.owed
    BY <2>2
  <2> QED BY <1>1, <1>9, <2>1, <2>3 DEF EncShape
<1> QED BY <1>11, <1>12 DEF EncInv

(* enc28j60_recv_begin.                                                     *)
LEMMA EncRecvBegin ==
  ASSUME EncInv, cpu = "avr", Enc!RecvBegin
  PROVE  EncInv'
<1> DEFINE q == queue
           ptr == gNextPacketPtr
           body == Enc!Plus(gNextPacketPtr, EncHdr)
<1>1. /\ eth = "up" /\ q # <<>> /\ got' = Enc!Nothing /\ ring' = ring
      /\ gNextPacketPtr' = Enc!Header[2]
      /\ \/ /\ eth' = "read" /\ left' = Enc!GotSize
            /\ chip' = [chip EXCEPT !.erd = body] /\ queue' = q
         \/ /\ chip' = [chip EXCEPT !.rd = Enc!FreeEnd(Enc!Header[2]), !.erd = body]
            /\ queue' = Tail(q) /\ UNCHANGED <<eth, left>>
  BY DEF Enc!RecvBegin, Enc!Pending
<1>2. /\ q \in Seq(Frames)
      /\ chip = [wr |-> chip.wr, rd |-> chip.rd, erd |-> chip.erd]
  BY DEF EncInv, EncShape
<1>3. PICK off : EncFits(ring, ptr, chip.wr, q, off)
  BY <1>1 DEF EncInv, RingHolds, Idle
<1>4. Before(chip.rd, ptr)
  BY <1>1 DEF EncInv, RingHolds, Idle
<1> DEFINE f == q[1]
           l == f[2]
           next == Enc!Plus(ptr, off[1])
<1>5. /\ f \in Frames /\ l \in Nat /\ ptr \in 0 .. RxStop
      /\ ring[ptr][2] = next /\ ring[ptr][3] = l + EncCrc
  BY <1>1, <1>2, <1>3, EncHead
<1>6. Enc!Header[2] = next /\ Enc!GotSize = l
  <2>1. Enc!Header[2] = next /\ Enc!GotSize = (l + EncCrc) - EncCrc
    BY <1>5 DEF Enc!Header, Enc!GotSize
  <2>2. l \in Nat /\ EncCrc \in Nat
    BY <1>5, EncSizes
  <2> HIDE DEF l
  <2>3. (l + EncCrc) - EncCrc = l
    BY <2>2
  <2> QED BY <2>1, <2>3
<1>7. /\ got'.data = <<>> /\ got'.data = got'.owed
      /\ got' = [data |-> got'.data, owed |-> got'.owed]
  BY <1>1 DEF Enc!Nothing
<1>8. body = Enc!Plus(ptr, EncHdr + 0)
  <2>1. EncHdr + 0 = EncHdr
    BY EncSizes
  <2> QED BY <2>1
<1> HIDE DEF q, ptr, body, f, next
<1>9. CASE eth' = "read" /\ left' = Enc!GotSize /\ queue' = q
           /\ chip' = [chip EXCEPT !.erd = body]
  <2>1. /\ chip'.wr = chip.wr /\ chip'.rd = chip.rd /\ chip'.erd = body
        /\ chip' = [wr |-> chip'.wr, rd |-> chip'.rd, erd |-> chip'.erd]
    BY <1>2, <1>9
  <2> DEFINE z == <<>>
  <2>2. Prefix(z, f) /\ Len(z) = 0 /\ l - Len(z) = l
    BY <1>5 DEF Prefix
  <2> HIDE DEF z, l
  <2>3. Within(ring, chip', next, q, l, z)
    BY <1>1, <1>3, <1>4, <1>8, <2>1, <2>2 DEF Within, next, f, l
  <2>4. Within(ring', chip', gNextPacketPtr', queue', left', got'.data)
    BY <1>1, <1>6, <1>7, <1>9, <2>3 DEF z
  <2>5. RingHolds'
    BY <1>9, <2>4, RingHoldsNext
  <2> QED BY <1>2, <1>7, <1>9, <2>1, <2>5 DEF EncInv, EncShape
<1>10. CASE /\ chip' = [chip EXCEPT !.rd = Enc!FreeEnd(Enc!Header[2]), !.erd = body]
            /\ queue' = Tail(q) /\ UNCHANGED <<eth, left>>
  <2>1. /\ chip'.wr = chip.wr /\ chip'.rd = Enc!FreeEnd(next)
        /\ chip' = [wr |-> chip'.wr, rd |-> chip'.rd, erd |-> chip'.erd]
    <3> DEFINE a == Enc!FreeEnd(next)
    <3>1. chip' = [[chip EXCEPT !.rd = a] EXCEPT !.erd = body]
      BY <1>6, <1>10
    <3> HIDE DEF a
    <3>2. [chip EXCEPT !.rd = a] = [wr |-> chip.wr, rd |-> a, erd |-> chip.erd]
      BY ONLY <1>2
    <3>3. [[wr |-> chip.wr, rd |-> a, erd |-> chip.erd] EXCEPT !.erd = body]
          = [wr |-> chip.wr, rd |-> a, erd |-> body]
      OBVIOUS
    <3>4. chip' = [wr |-> chip.wr, rd |-> a, erd |-> body]
      BY ONLY <3>1, <3>2, <3>3, Zenon
    <3> QED BY <3>4 DEF a
  <2>2. Idle(ring, chip', next, Tail(q))
    BY <1>1, <1>2, <1>3, <2>1, EncFrees DEF next
  <2>3. Idle(ring', chip', gNextPacketPtr', queue')
    BY <1>1, <1>6, <1>10, <2>2
  <2>4. RingHolds'
    BY <1>1, <1>10, <2>3, RingHoldsNext
  <2>5. Tail(q) \in Seq(Frames)
    BY <1>1, <1>2, TailOfQueue
  <2> QED BY <1>1, <1>7, <1>10, <2>1, <2>4, <2>5 DEF EncInv, EncShape
<1> QED BY <1>1, <1>9, <1>10

(* enc28j60_recv_data.                                                      *)
LEMMA EncRecvData ==
  ASSUME NEW n \in 1 .. MaxRead, EncInv, cpu = "avr", Enc!RecvData(n)
  PROVE  EncInv'
<1> DEFINE q == queue
           d == got.data
           p == chip.erd
           e == d \o Enc!ReadBuf(p, n)
<1>1. /\ eth = "read" /\ n <= left /\ left' = left - n
      /\ chip' = [chip EXCEPT !.erd = Enc!Plus(@, n)]
      /\ got' = [data |-> e, owed |-> Enc!Owed(Len(d) + n)]
      /\ UNCHANGED <<eth, ring, gNextPacketPtr, queue>>
  BY DEF Enc!RecvData
<1>2. /\ q \in Seq(Frames)
      /\ chip = [wr |-> chip.wr, rd |-> chip.rd, erd |-> chip.erd]
  BY DEF EncInv, EncShape
<1>3. q # <<>>
  BY <1>1 DEF EncInv, RingHolds, Within
<1>4. PICK start, off :
        /\ EncFits(ring, start, chip.wr, q, off) /\ Before(chip.rd, start)
        /\ gNextPacketPtr = Enc!Plus(start, off[1])
        /\ p = Enc!Plus(start, EncHdr + Len(d))
        /\ left = q[1][2] - Len(d) /\ Prefix(d, q[1])
  BY <1>1 DEF EncInv, RingHolds, Within
<1> DEFINE f == q[1]
           l == f[2]
           h == Len(d)
<1>5. /\ f \in Frames /\ l \in Nat /\ start \in 0 .. RxStop
      /\ EncHdr + l + EncCrc <= RxStop /\ HasBytes(ring, start, f)
  BY <1>2, <1>3, <1>4, EncHead
<1>6. h \in Nat /\ n \in Nat /\ left = l - h
  BY <1>4, EncSizes DEF Prefix
<1>7. chip' = [chip EXCEPT !.erd = Enc!Plus(p, n)]
  BY <1>1
<1> HIDE DEF q, d, p, e, l, f, h
<1>8. h + n <= l /\ left' = l - (h + n)
  BY <1>1, <1>5, <1>6
<1>9. /\ Prefix(e, f) /\ Len(e) = h + n
      /\ Enc!Plus(p, n) = Enc!Plus(start, EncHdr + (h + n))
  <2>1. /\ f[2] \in Nat /\ Prefix(d, f) /\ start \in 0 .. RxStop
        /\ EncHdr + f[2] + EncCrc <= RxStop /\ HasBytes(ring, start, f)
        /\ n \in Nat /\ Len(d) + n <= f[2]
        /\ p = Enc!Plus(start, EncHdr + Len(d))
    BY <1>4, <1>5, <1>6, <1>8 DEF l, h, f
  <2>2. /\ Prefix(d \o Enc!ReadBuf(p, n), f)
        /\ Len(d \o Enc!ReadBuf(p, n)) = Len(d) + n
        /\ Enc!Plus(p, n) = Enc!Plus(start, EncHdr + (Len(d) + n))
    BY <2>1, EncReads
  <2> QED BY <2>2 DEF e, h
<1>10. Enc!Owed(h + n) = e
  <2>1. Enc!Owed(Len(e)) = e
    BY <1>2, <1>3, <1>9, OwedIs DEF q, f
  <2> QED BY <1>9, <2>1
<1>11. /\ chip'.wr = chip.wr /\ chip'.rd = chip.rd
       /\ chip'.erd = Enc!Plus(start, EncHdr + (h + n))
       /\ chip' = [wr |-> chip'.wr, rd |-> chip'.rd, erd |-> chip'.erd]
  BY <1>2, <1>7, <1>9
<1>12. got'.data = e /\ got'.owed = e /\ got' = [data |-> got'.data, owed |-> got'.owed]
  <2>1. got' = [data |-> e, owed |-> e]
    BY <1>1, <1>10 DEF h
  <2> QED BY <2>1
<1>13. Within(ring, chip', gNextPacketPtr, q, left', e)
  BY <1>3, <1>4, <1>8, <1>9, <1>11 DEF Within, f, l
<1>14. RingHolds'
  <2>1. Within(ring', chip', gNextPacketPtr', queue', left', got'.data)
    BY <1>1, <1>12, <1>13 DEF q
  <2> QED BY <1>1, <2>1, RingHoldsNext
<1>15. EncShape'
  BY <1>1, <1>2, <1>11, <1>12 DEF EncShape, q
<1> QED BY <1>14, <1>15 DEF EncInv

(* enc28j60_recv_end.                                                       *)
LEMMA EncRecvEnd ==
  ASSUME EncInv, cpu = "avr", Enc!RecvEnd
  PROVE  EncInv'
<1> DEFINE q == queue
           next == gNextPacketPtr
<1>1. /\ eth = "read" /\ eth' = "up"
      /\ chip' = [chip EXCEPT !.rd = Enc!FreeEnd(next)]
      /\ queue' = Tail(q) /\ UNCHANGED <<ring, gNextPacketPtr, got>>
  BY DEF Enc!RecvEnd
<1>2. /\ q \in Seq(Frames)
      /\ chip = [wr |-> chip.wr, rd |-> chip.rd, erd |-> chip.erd]
  BY DEF EncInv, EncShape
<1>3. q # <<>>
  BY <1>1 DEF EncInv, RingHolds, Within
<1>4. PICK start, off :
        EncFits(ring, start, chip.wr, q, off) /\ next = Enc!Plus(start, off[1])
  BY <1>1 DEF EncInv, RingHolds, Within
<1>5. /\ chip'.wr = chip.wr /\ chip'.rd = Enc!FreeEnd(next)
      /\ chip' = [wr |-> chip'.wr, rd |-> chip'.rd, erd |-> chip'.erd]
  BY <1>1, <1>2
<1> HIDE DEF q, next
<1>6. Idle(ring, chip', next, Tail(q))
  BY <1>2, <1>3, <1>4, <1>5, EncFrees
<1>7. RingHolds'
  <2>1. Idle(ring', chip', gNextPacketPtr', queue')
    BY <1>1, <1>6 DEF next
  <2> QED BY <1>1, <2>1, RingHoldsNext
<1>8. EncShape'
  <2>1. Tail(q) \in Seq(Frames)
    BY <1>2, <1>3, TailOfQueue
  <2>2. got = [data |-> got.data, owed |-> got.owed] /\ got.data = got.owed
    BY DEF EncInv, EncShape
  <2> QED BY <1>1, <1>5, <2>1, <2>2 DEF EncShape
<1> QED BY <1>7, <1>8 DEF EncInv

LEMMA EncStep ==
  ASSUME cpu = "avr" => EncInv, [Enc!Next]_(Enc!encVars)
  PROVE  cpu' = "avr" => EncInv'
<1> SUFFICES ASSUME cpu' = "avr" PROVE EncInv'
  OBVIOUS
<1>1. cpu' = cpu
  BY DEF Enc!Next, Enc!encVars, Enc!Arrives, Enc!Transmitted, Enc!InitChip,
         Enc!Setup,
         Enc!Disable, Enc!LooksElsewhere, Enc!Recv, Enc!RecvBegin, Enc!RecvEnd,
         Enc!RecvData, Enc!SendFill, Enc!SendStart
<1>2. EncInv /\ cpu = "avr"
  BY <1>1
<1>3. CASE UNCHANGED Enc!encVars
  BY <1>2, <1>3, EncKeeps DEF Enc!encVars
<1>4. ASSUME NEW f \in Frames, NEW ok \in BOOLEAN, Enc!Arrives(f, ok) PROVE EncInv'
  BY <1>2, <1>4, EncArrives
<1>5. CASE Enc!Transmitted
  BY <1>2, <1>5, EncKeeps DEF Enc!Transmitted, Enc!receiver
<1>6. CASE Enc!InitChip
  BY <1>2, <1>6, EncResets
<1>7. CASE Enc!Setup
  BY <1>2, <1>7, EncSetsUp
<1>8. ASSUME Enc!ReadsNothing PROVE got' = got \/ (eth # "read" /\ got' = Enc!Nothing)
  BY <1>8 DEF Enc!ReadsNothing
<1>9. CASE Enc!Disable
  BY <1>2, <1>8, <1>9, EncKeeps DEF Enc!Disable, Enc!receiver
<1>10. CASE Enc!LooksElsewhere
  BY <1>2, <1>8, <1>10, EncKeeps DEF Enc!LooksElsewhere, Enc!receiver
<1>11. CASE Enc!Recv
  BY <1>2, <1>11, EncRecv
<1>12. CASE Enc!RecvBegin
  BY <1>2, <1>12, EncRecvBegin
<1>13. CASE Enc!RecvEnd
  BY <1>2, <1>13, EncRecvEnd
<1>14. ASSUME NEW n \in 1 .. MaxRead, Enc!RecvData(n) PROVE EncInv'
  BY <1>2, <1>14, EncRecvData
<1>15. CASE Enc!SendFill
  BY <1>2, <1>8, <1>15, EncKeeps DEF Enc!SendFill, Enc!receiver
<1>16. CASE Enc!SendStart
  BY <1>2, <1>8, <1>16, EncKeeps DEF Enc!SendStart, Enc!receiver
<1> QED BY <1>3, <1>4, <1>5, <1>6, <1>7, <1>9, <1>10, <1>11, <1>12, <1>13, <1>14,
           <1>15, <1>16 DEF Enc!Next

LEMMA EncTakesWhole == Enc!Spec => []Enc!FramesAreTakenWhole
<1> DEFINE Inv == cpu = "avr" => EncInv
<1>1. Enc!Init => Inv
  <2> SUFFICES ASSUME Enc!Init PROVE EncInv
    OBVIOUS
  <2>1. /\ queue = <<>> /\ chip = Enc!Reset /\ got = Enc!Nothing /\ eth = "down"
    BY DEF Enc!Init
  <2>2. chip = [wr |-> chip.wr, rd |-> chip.rd, erd |-> chip.erd]
    BY <2>1 DEF Enc!Reset
  <2>3. got = [data |-> got.data, owed |-> got.owed] /\ got.data = got.owed
    BY <2>1 DEF Enc!Nothing
  <2> QED BY <2>1, <2>2, <2>3 DEF EncInv, EncShape, RingHolds
<1>2. Inv /\ [Enc!Next]_(Enc!encVars) => Inv'
  BY EncStep
<1>3. Inv => Enc!FramesAreTakenWhole
  BY EncSafe
<1> HIDE DEF Inv
<1> QED BY <1>1, <1>2, <1>3, PTL DEF Enc!Spec

(* Whatever the sizes of the rings, the headers and the buffers are, and    *)
(* however the calls, the resets and the frames on the line interleave, the *)
(* drivers of both network chips take what the chip received in order, each *)
(* packet once and whole, and find the header of the next where they look.  *)
(* An access to the ENC28J60 reaches the bank it is for; its frames come    *)
(* whole where an int has 16 bits, as on the AVR.                           *)
THEOREM PacketsComeWhole == NetworkSpec => []TakenWhole
<1>1. NetworkInit => Enc!Init /\ Wiz!Init
  BY DEF NetworkInit
<1>2. [NetworkNext]_<<part, vars, encVars, wizVars>>
        => [Enc!Next]_(Enc!encVars) /\ [Wiz!Next]_(Wiz!wizVars)
  BY DEF NetworkNext, encVars, wizVars, Enc!encVars, Wiz!wizVars
<1>3. NetworkSpec => Enc!Spec /\ Wiz!Spec
  BY <1>1, <1>2, PTL DEF NetworkSpec, Enc!Spec, Wiz!Spec
<1>4. /\ Enc!FramesAreTakenWhole /\ Enc!RegistersAreReached /\ Wiz!PacketsAreTakenWhole
        => TakenWhole
  BY DEF TakenWhole
<1> QED BY <1>3, <1>4, EncTakesWhole, EncReachesRegisters, WizTakesWhole, PTL
==============================================================================
