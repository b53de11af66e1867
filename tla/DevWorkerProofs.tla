--------------------------- MODULE DevWorkerProofs ---------------------------
(***************************************************************************)
(* Theorems about the exec devices, for any set of tasks that use one:     *)
(* who owns a request, the engine, the device and its unit.                *)
(***************************************************************************)
EXTENDS DevWorker, FiniteSetTheorems, SequenceTheorems, TLAPS

Users == Opened \cup Inside

(* Where a task is that has the device open, that is in OpenDevice or       *)
(* CloseDevice, that counts in libOpen, that holds the device's semaphore,  *)
(* that holds the engine's, and that counts on the worker.                  *)
OpenPcs == {"open", "engine", "abort", "getclose", "closefn", "inclose"}
InsidePcs ==
  {"starting", "openfn", "inopen", "undo", "undoterm", "stop", "stopterm"}
UserPcs == OpenPcs \cup InsidePcs
DevicePcs == InsidePcs \cup {"closefn", "inclose"}
EnginePcs == {"inopen", "inclose", "engine"}
ServedPcs == OpenPcs \cup {"openfn", "inopen", "undo", "stop"}

(* Where the worker is while it takes requests.                             *)
Serving == {"wait", "drain", "obtain", "engine", "reply"}

TypeInv ==
  /\ engine \in {"box", "net"}
  /\ {base, delexp, unit, portSig} \subseteq BOOLEAN
  /\ libOpen \in Nat /\ openCnt \in Nat
  /\ devSem \in Clients \cup {none} /\ sem \in Clients \cup {none, "worker"}
  /\ port \in Seq(Clients \cup {term})
  /\ worker \in WorkerPcs /\ taken \in Clients \cup {none}
  /\ pc \in [Clients -> Pcs] /\ req \in [Clients -> Places]

(* A request is at the port at most once, and only one whose owner sent it; *)
(* one the worker holds is at no port; who is not in the device has his own.*)
Queued(r) == \E i \in 1 .. Len(port) : port[i] = r

RequestInv ==
  /\ \A i, j \in 1 .. Len(port) : port[i] = port[j] => i = j
  /\ \A c \in Clients : Queued(c) <=> req[c] = "queued"
  /\ \A c \in Clients : taken = c <=> req[c] = "taken"
  /\ taken = none <=> worker \notin {"obtain", "engine", "reply"}
  /\ \A c \in Clients :
       pc[c] \notin {"open", "engine", "abort"} => req[c] = "mine"
  /\ \A c \in Clients : pc[c] = "engine" <=> req[c] \in {"quick", "direct"}

(* A semaphore is held by whoever is between its two calls.                 *)
HolderInv ==
  /\ \A c \in Clients : sem = c <=> pc[c] \in EnginePcs
  /\ sem = "worker" <=> worker = "engine"
  /\ \A c \in Clients : devSem = c <=> pc[c] \in DevicePcs

CountInv ==
  /\ openCnt = Cardinality(Opened)
  /\ libOpen = Cardinality(Users)

(* The unit and its worker are there for everybody who counts on them; the  *)
(* task that starts a worker finds the port empty, and the one that stops   *)
(* it is the last.                                                          *)
UnitInv ==
  /\ engine = "net" => \A c \in Clients : pc[c] \notin OpenPcs
  /\ ~base => ~unit /\ \A c \in Clients : pc[c] = "closed"
  /\ unit => \E c \in Clients : pc[c] \in UserPcs
  /\ ~unit => worker = "none"
  /\ \A c \in Clients :
       pc[c] \in ServedPcs => unit /\ worker \in Serving /\ ~Queued(term)
  /\ \A c \in Clients :
       pc[c] \in {"starting", "undo", "undoterm", "stop", "stopterm"} =>
         unit /\ \A d \in Clients : pc[d] \notin OpenPcs
  /\ \A c \in Clients :
       pc[c] = "starting" => /\ port = <<>> /\ ~portSig
                             /\ worker \in {"init", "wait", "failed", "none"}

(* All of it stands as long as none of the three races has struck.          *)
WorkInv == TypeInv /\ RequestInv /\ HolderInv /\ CountInv /\ UnitInv
DevInv == harm = {} => WorkInv

-------------------------------------------------------------------------------
(* Two lists of messages, one behind the other.                             *)
LEMMA Joined ==
  ASSUME NEW S, NEW a \in Seq(S), NEW b \in Seq(S), NEW t, t = a \o b
  PROVE  /\ t \in Seq(S) /\ Len(t) = Len(a) + Len(b)
         /\ \A i \in 1 .. Len(a) : t[i] = a[i]
         /\ \A i \in 1 .. Len(b) : t[Len(a) + i] = b[i]
<1>1. /\ a \o b \in Seq(S) /\ Len(a \o b) = Len(a) + Len(b)
      /\ Len(a) \in Nat /\ Len(b) \in Nat
  BY ConcatProperties, LenProperties
<1>2. ASSUME NEW i \in 1 .. Len(a) PROVE (a \o b)[i] = a[i]
  BY <1>1, ConcatProperties
<1>3. ASSUME NEW i \in 1 .. Len(b) PROVE (a \o b)[Len(a) + i] = b[i]
  <2>1. Len(a) + i \in 1 .. Len(a) + Len(b) /\ ~(Len(a) + i <= Len(a))
        /\ (Len(a) + i) - Len(a) = i
    BY <1>1
  <2> QED BY <2>1, ConcatProperties
<1> QED BY <1>1, <1>2, <1>3

(* A list of messages without one of them.                                  *)
LEMMA Removed ==
  ASSUME NEW S, NEW q \in Seq(S), NEW e, NEW t, t = RemoveFirst(q, e),
         \A i, j \in 1 .. Len(q) : q[i] = q[j] => i = j
  PROVE  /\ t \in Seq(S)
         /\ \A i, j \in 1 .. Len(t) : t[i] = t[j] => i = j
         /\ \A r : (\E i \in 1 .. Len(t) : t[i] = r) <=>
                     r # e /\ \E i \in 1 .. Len(q) : q[i] = r
<1>1. CASE ~\E i \in 1 .. Len(q) : q[i] = e
  BY <1>1 DEF RemoveFirst
<1>2. CASE \E i \in 1 .. Len(q) : q[i] = e
  <2>1. PICK k \in 1 .. Len(q) : q[k] = e
    BY <1>2
  <2>2. SelectInSeq(q, LAMBDA v : v = e) = k
    <3>1. {i \in 1 .. Len(q) : q[i] = e} = {k}
      BY <2>1
    <3>2. Min({k}) = k
      BY <2>1 DEF Min
    <3> QED BY <3>1, <3>2 DEF SelectInSeq
  <2>3. t = SubSeq(q, 1, k - 1) \o SubSeq(q, k + 1, Len(q))
    BY <1>2, <2>2 DEF RemoveFirst, RemoveAt
  <2>4. Len(q) \in Nat /\ k \in Nat /\ k - 1 \in Nat
    BY <2>1, LenProperties
  <2> DEFINE a == SubSeq(q, 1, k - 1)
             b == SubSeq(q, k + 1, Len(q))
  <2>5. a \in Seq(S) /\ Len(a) = k - 1 /\ \A i \in 1 .. k - 1 : a[i] = q[i]
    BY <2>1, <2>4, SubSeqProperties
  <2>6. b \in Seq(S) /\ Len(b) = Len(q) - k
        /\ \A i \in 1 .. Len(q) - k : b[i] = q[k + i]
    BY <2>1, <2>4, SubSeqProperties
  <2> HIDE DEF a, b
  <2>7. t = a \o b
    BY <2>3 DEF a, b
  <2>8. /\ t \in Seq(S) /\ Len(t) = Len(q) - 1
        /\ \A i \in 1 .. Len(t) : t[i] = IF i < k THEN q[i] ELSE q[i + 1]
    <3>1. /\ t \in Seq(S) /\ Len(t) = Len(q) - 1
          /\ \A i \in 1 .. Len(a) : t[i] = a[i]
          /\ \A i \in 1 .. Len(b) : t[Len(a) + i] = b[i]
      <4>1. a \in Seq(S) /\ b \in Seq(S)
        BY <2>5, <2>6
      <4>2. /\ t \in Seq(S) /\ Len(t) = Len(a) + Len(b)
            /\ \A i \in 1 .. Len(a) : t[i] = a[i]
            /\ \A i \in 1 .. Len(b) : t[Len(a) + i] = b[i]
        BY <2>7, <4>1, Joined
      <4>3. Len(a) + Len(b) = Len(q) - 1
        BY <2>1, <2>4, <2>5, <2>6
      <4> QED BY <4>2, <4>3, Zenon
    <3>2. ASSUME NEW i \in 1 .. Len(t), i < k PROVE t[i] = q[i]
      <4>1. i \in 1 .. k - 1 /\ i \in 1 .. Len(a)
        BY <2>4, <2>5, <3>1, <3>2
      <4>2. t[i] = a[i] /\ a[i] = q[i]
        BY <2>5, <3>1, <4>1, Zenon
      <4> QED BY <4>2, Zenon
    <3>3. ASSUME NEW i \in 1 .. Len(t), ~(i < k) PROVE t[i] = q[i + 1]
      <4>1. i - (k - 1) \in 1 .. Len(q) - k
        BY <2>1, <2>4, <3>1, <3>3
      <4>2. k + (i - (k - 1)) = i + 1 /\ (k - 1) + (i - (k - 1)) = i
        BY <2>1, <2>4, <3>1, <3>3
      <4>3. t[(k - 1) + (i - (k - 1))] = b[i - (k - 1)]
        BY <2>5, <2>6, <3>1, <4>1, Zenon
      <4>4. b[i - (k - 1)] = q[k + (i - (k - 1))]
        BY <2>6, <4>1, Zenon
      <4> QED BY <4>2, <4>3, <4>4, Zenon
    <3> QED BY <2>1, <2>4, <3>1, <3>2, <3>3
  <2>9. \A i, j \in 1 .. Len(t) : t[i] = t[j] => i = j
    BY <2>1, <2>4, <2>8
  <2>10. ASSUME NEW r
         PROVE  (\E i \in 1 .. Len(t) : t[i] = r) <=>
                  r # e /\ \E i \in 1 .. Len(q) : q[i] = r
    <3>1. ASSUME NEW i \in 1 .. Len(t), t[i] = r
          PROVE  r # e /\ \E j \in 1 .. Len(q) : q[j] = r
      BY <2>1, <2>4, <2>8, <3>1
    <3>2. ASSUME NEW i \in 1 .. Len(q), q[i] = r, r # e
          PROVE  \E j \in 1 .. Len(t) : t[j] = r
      <4>1. CASE i < k
        BY <2>4, <2>8, <3>2, <4>1
      <4>2. CASE i > k
        <5>1. i - 1 \in 1 .. Len(t) /\ t[i - 1] = r
          BY <2>1, <2>4, <2>8, <3>2, <4>2
        <5> QED BY <5>1
      <4> QED BY <2>1, <2>4, <3>2, <4>1, <4>2
    <3> QED BY <3>1, <3>2
  <2> QED BY <2>8, <2>9, <2>10
<1> QED BY <1>1, <1>2

(* The first message taken, and one put behind the others.                  *)
LEMMA Taken ==
  ASSUME NEW S, NEW q \in Seq(S), q # <<>>,
         \A i, j \in 1 .. Len(q) : q[i] = q[j] => i = j
  PROVE  /\ Tail(q) \in Seq(S) /\ Head(q) \in S
         /\ \A i, j \in 1 .. Len(Tail(q)) : Tail(q)[i] = Tail(q)[j] => i = j
         /\ \A r : (\E i \in 1 .. Len(Tail(q)) : Tail(q)[i] = r) <=>
                     r # Head(q) /\ \E i \in 1 .. Len(q) : q[i] = r
<1> DEFINE t == Tail(q)
<1>1. /\ t \in Seq(S) /\ Len(t) = Len(q) - 1 /\ Len(q) \in Nat \ {0}
      /\ \A i \in 1 .. Len(t) : t[i] = q[i + 1]
      /\ Head(q) = q[1] /\ Head(q) \in S
  BY HeadTailProperties, LenProperties, EmptySeq
<1> HIDE DEF t
<1>2. \A i, j \in 1 .. Len(t) : t[i] = t[j] => i = j
  BY <1>1
<1>3. ASSUME NEW r
      PROVE  (\E i \in 1 .. Len(t) : t[i] = r) <=>
               r # Head(q) /\ \E i \in 1 .. Len(q) : q[i] = r
  <2>1. ASSUME NEW i \in 1 .. Len(t), t[i] = r
        PROVE  r # Head(q) /\ \E j \in 1 .. Len(q) : q[j] = r
    BY <1>1, <2>1
  <2>2. ASSUME NEW i \in 1 .. Len(q), q[i] = r, r # Head(q)
        PROVE  \E j \in 1 .. Len(t) : t[j] = r
    <3>1. i - 1 \in 1 .. Len(t) /\ t[i - 1] = r
      BY <1>1, <2>2
    <3> QED BY <3>1
  <2> QED BY <2>1, <2>2
<1> QED BY <1>1, <1>2, <1>3 DEF t

LEMMA Appended ==
  ASSUME NEW S, NEW q \in Seq(S), NEW e \in S,
         \A i \in 1 .. Len(q) : q[i] # e,
         \A i, j \in 1 .. Len(q) : q[i] = q[j] => i = j
  PROVE  LET t == Append(q, e)
         IN /\ t \in Seq(S)
            /\ \A i, j \in 1 .. Len(t) : t[i] = t[j] => i = j
            /\ \A r : (\E i \in 1 .. Len(t) : t[i] = r) <=>
                        r = e \/ \E i \in 1 .. Len(q) : q[i] = r
<1> DEFINE t == Append(q, e)
<1>1. /\ t \in Seq(S) /\ Len(t) = Len(q) + 1 /\ Len(q) \in Nat
      /\ \A i \in 1 .. Len(q) : t[i] = q[i]
      /\ t[Len(q) + 1] = e
  BY AppendProperties, LenProperties
<1> HIDE DEF t
<1>2. \A i, j \in 1 .. Len(t) : t[i] = t[j] => i = j
  BY <1>1
<1>3. ASSUME NEW r
      PROVE  (\E i \in 1 .. Len(t) : t[i] = r) <=>
               r = e \/ \E i \in 1 .. Len(q) : q[i] = r
  BY <1>1
<1> QED BY <1>1, <1>2, <1>3 DEF t

-------------------------------------------------------------------------------
(* Tasks that go from one place to another, and how many are where.         *)

LEMMA Finite ==
  /\ IsFiniteSet(Opened) /\ IsFiniteSet(Users)
  /\ Cardinality(Opened) \in Nat /\ Cardinality(Users) \in Nat
  /\ Cardinality(Opened) = 0 <=> Opened = {}
  /\ Cardinality(Users) = 0 <=> Users = {}
<1>1. Opened \in SUBSET Clients /\ Users \in SUBSET Clients
  BY DEF Opened, Inside, Users
<1>2. IsFiniteSet(Clients)
  BY ClientsAssumption
<1>3. IsFiniteSet(Opened) /\ IsFiniteSet(Users)
  BY <1>1, <1>2, FS_Subset
<1> QED BY <1>3, FS_CardinalityType, FS_EmptySet

LEMMA Membership ==
  ASSUME NEW c \in Clients
  PROVE  /\ c \in Opened <=> pc[c] \in OpenPcs
         /\ c \in Users <=> pc[c] \in UserPcs
  BY DEF Opened, Inside, Users, OpenPcs, InsidePcs, UserPcs

(* The sets after a step of one task.                                       *)
LEMMA Moved ==
  ASSUME TypeInv, NEW c \in Clients, NEW p \in Pcs, Goto(c, p)
  PROVE  /\ pc' \in [Clients -> Pcs] /\ pc'[c] = p
         /\ \A d \in Clients : d # c => pc'[d] = pc[d]
         /\ Opened' = IF p \in OpenPcs THEN Opened \cup {c} ELSE Opened \ {c}
         /\ Users' = IF p \in UserPcs
                     THEN Users \cup {c} ELSE Users \ {c}
<1>1. /\ pc' \in [Clients -> Pcs] /\ pc'[c] = p
      /\ \A d \in Clients : d # c => pc'[d] = pc[d]
  BY DEF TypeInv, Goto
<1>2. Opened' = {d \in Clients : pc'[d] \in OpenPcs}
  BY DEF Opened, OpenPcs
<1>3. Users' = {d \in Clients : pc'[d] \in UserPcs}
  BY DEF Opened, Inside, Users, OpenPcs, InsidePcs, UserPcs
<1>4. Opened = {d \in Clients : pc[d] \in OpenPcs}
  BY DEF Opened, OpenPcs
<1>5. Users = {d \in Clients : pc[d] \in UserPcs}
  BY DEF Opened, Inside, Users, OpenPcs, InsidePcs, UserPcs
<1>6. Opened' = IF p \in OpenPcs THEN Opened \cup {c} ELSE Opened \ {c}
  BY <1>1, <1>2, <1>4
<1>7. Users' = IF p \in UserPcs THEN Users \cup {c} ELSE Users \ {c}
  <2>1. CASE p \in UserPcs
    <3>1. \A d : d \in Users' <=> d \in Users \cup {c}
      BY <1>1, <1>3, <1>5, <2>1
    <3> QED BY <2>1, <3>1
  <2>2. CASE p \notin UserPcs
    <3>1. \A d : d \in Users' <=> d \in Users \ {c}
      BY <1>1, <1>3, <1>5, <2>2
    <3> QED BY <2>2, <3>1
  <2> QED BY <2>1, <2>2
<1> QED BY <1>1, <1>6, <1>7

LEMMA Counted ==
  ASSUME TypeInv, NEW c \in Clients, NEW p \in Pcs, Goto(c, p)
  PROVE  /\ Cardinality(Opened') =
              CASE pc[c] \notin OpenPcs /\ p \in OpenPcs ->
                     Cardinality(Opened) + 1
                [] pc[c] \in OpenPcs /\ p \notin OpenPcs ->
                     Cardinality(Opened) - 1
                [] OTHER -> Cardinality(Opened)
         /\ Cardinality(Users') =
              CASE pc[c] \notin UserPcs /\ p \in UserPcs ->
                     Cardinality(Users) + 1
                [] pc[c] \in UserPcs /\ p \notin UserPcs ->
                     Cardinality(Users) - 1
                [] OTHER -> Cardinality(Users)
<1>1. IsFiniteSet(Opened) /\ IsFiniteSet(Users)
  BY Finite
<1>2. /\ Cardinality(Opened \cup {c}) =
           IF c \in Opened THEN Cardinality(Opened) ELSE Cardinality(Opened) + 1
      /\ Cardinality(Opened \ {c}) =
           IF c \in Opened THEN Cardinality(Opened) - 1 ELSE Cardinality(Opened)
  BY <1>1, FS_AddElement, FS_RemoveElement
<1>3. /\ Cardinality(Users \cup {c}) =
           IF c \in Users THEN Cardinality(Users) ELSE Cardinality(Users) + 1
      /\ Cardinality(Users \ {c}) =
           IF c \in Users THEN Cardinality(Users) - 1 ELSE Cardinality(Users)
  BY <1>1, FS_AddElement, FS_RemoveElement
<1>4. /\ Opened' = IF p \in OpenPcs THEN Opened \cup {c} ELSE Opened \ {c}
      /\ Users' = IF p \in UserPcs THEN Users \cup {c} ELSE Users \ {c}
  BY Moved
<1>5. c \in Opened <=> pc[c] \in OpenPcs
  BY Membership
<1>6. c \in Users <=> pc[c] \in UserPcs
  BY Membership
<1>7. Cardinality(Opened') =
        CASE pc[c] \notin OpenPcs /\ p \in OpenPcs -> Cardinality(Opened) + 1
          [] pc[c] \in OpenPcs /\ p \notin OpenPcs -> Cardinality(Opened) - 1
          [] OTHER -> Cardinality(Opened)
  BY <1>2, <1>4, <1>5
<1>8. Cardinality(Users') =
        CASE pc[c] \notin UserPcs /\ p \in UserPcs ->
               Cardinality(Users) + 1
          [] pc[c] \in UserPcs /\ p \notin UserPcs ->
               Cardinality(Users) - 1
          [] OTHER -> Cardinality(Users)
  BY <1>3, <1>4, <1>6
<1> QED BY <1>7, <1>8

(* While nobody goes from or to a place, all are where they were.           *)
LEMMA Unmoved == ASSUME UNCHANGED pc PROVE Opened' = Opened /\ Users' = Users
  BY DEF Opened, Inside, Users

(* What the counters tell.                                                  *)
LEMMA CountersTell ==
  ASSUME CountInv
  PROVE  /\ openCnt \in Nat /\ libOpen \in Nat
         /\ openCnt = 0 <=> \A c \in Clients : pc[c] \notin OpenPcs
         /\ libOpen = 0 <=> \A c \in Clients : pc[c] \notin UserPcs
         /\ openCnt = 1 => \A c, d \in Clients :
                             pc[c] \in OpenPcs /\ pc[d] \in OpenPcs => c = d
         /\ libOpen = 1 => \A c, d \in Clients :
                             pc[c] \in UserPcs /\ pc[d] \in UserPcs => c = d
<1>1. /\ IsFiniteSet(Opened) /\ IsFiniteSet(Users)
      /\ Cardinality(Opened) \in Nat /\ Cardinality(Users) \in Nat
      /\ Cardinality(Opened) = 0 <=> Opened = {}
      /\ Cardinality(Users) = 0 <=> Users = {}
  BY Finite
<1>2. /\ Opened \subseteq Clients /\ Users \subseteq Clients
      /\ \A c \in Clients : /\ c \in Opened <=> pc[c] \in OpenPcs
                            /\ c \in Users <=> pc[c] \in UserPcs
  BY Membership DEF Opened, Inside, Users
<1>3. Cardinality(Opened) = 1 => \E x : Opened = {x}
  BY <1>1, FS_Singleton
<1>4. Cardinality(Users) = 1 => \E x : Users = {x}
  BY <1>1, FS_Singleton
<1> QED BY <1>1, <1>2, <1>3, <1>4 DEF CountInv

LEMMA OthersOpen ==
  ASSUME CountInv, openCnt \notin {0, 1}, NEW c \in Clients
  PROVE  \E d \in Clients : d # c /\ pc[d] \in OpenPcs
<1> SUFFICES ASSUME \A d \in Clients : d # c => pc[d] \notin OpenPcs PROVE FALSE
  OBVIOUS
<1>1. Opened = {} \/ Opened = {c}
  BY Membership DEF Opened
<1> QED BY <1>1, FS_EmptySet, FS_Singleton DEF CountInv

-------------------------------------------------------------------------------
(* The steps.                                                               *)

LEMMA DevOpenKeeps ==
  ASSUME WorkInv, NEW c \in Clients, DevOpen(c), harm = {}, harm' = {}
  PROVE  WorkInv'
<1> USE DEF DevOpen, Goto, library, queue
<1>1. TypeInv'
  BY DEF WorkInv, TypeInv, Pcs, Places, WorkerPcs
<1>2. RequestInv'
  BY DEF WorkInv, TypeInv, RequestInv, Queued
<1>3. HolderInv'
  BY ClientsAssumption
     DEF WorkInv, TypeInv, HolderInv, EnginePcs, DevicePcs, InsidePcs
<1>4. CountInv'
  BY Counted, CountersTell
     DEF WorkInv, TypeInv, CountInv, HolderInv, OpenPcs, UserPcs, InsidePcs,
         Pcs
<1>5. UnitInv'
  BY CountersTell
     DEF WorkInv, TypeInv, HolderInv, UnitInv, OpenPcs, UserPcs, InsidePcs,
         ServedPcs, DevicePcs, Serving, Queued
<1> QED BY <1>1, <1>2, <1>3, <1>4, <1>5 DEF WorkInv

LEMMA RefuseOpenKeeps ==
  ASSUME WorkInv, NEW c \in Clients, RefuseOpen(c), harm = {}, harm' = {}
  PROVE  WorkInv'
<1> USE DEF RefuseOpen, Goto, library, queue
<1>1. TypeInv'
  BY DEF WorkInv, TypeInv, Pcs, Places, WorkerPcs
<1>2. RequestInv'
  BY DEF WorkInv, TypeInv, RequestInv, Queued
<1>3. HolderInv'
  BY ClientsAssumption
     DEF WorkInv, TypeInv, HolderInv, EnginePcs, DevicePcs, InsidePcs
<1>4. CountInv'
  BY Counted, CountersTell
     DEF WorkInv, TypeInv, CountInv, HolderInv, OpenPcs, UserPcs, InsidePcs,
         Pcs
<1>5. UnitInv'
  BY CountersTell
     DEF WorkInv, TypeInv, HolderInv, UnitInv, OpenPcs, UserPcs, InsidePcs,
         ServedPcs, DevicePcs, Serving, Queued
<1> QED BY <1>1, <1>2, <1>3, <1>4, <1>5 DEF WorkInv

LEMMA FindUnitKeeps ==
  ASSUME WorkInv, NEW c \in Clients, FindUnit(c), harm = {}, harm' = {}
  PROVE  WorkInv'
<1> USE DEF FindUnit, EnterOpen, Goto, library, queue
<1>1. TypeInv'
  BY DEF WorkInv, TypeInv, Pcs, Places, WorkerPcs
<1>2. RequestInv'
  BY DEF WorkInv, TypeInv, RequestInv, Queued
<1>3. HolderInv'
  BY ClientsAssumption
     DEF WorkInv, TypeInv, HolderInv, EnginePcs, DevicePcs, InsidePcs
<1>4. CountInv'
  BY Counted, CountersTell
     DEF WorkInv, TypeInv, CountInv, HolderInv, OpenPcs, UserPcs, InsidePcs,
         Pcs
<1>5. UnitInv'
  <2>1. \A d \in Clients : pc'[d] = IF d = c THEN "openfn" ELSE pc[d]
    BY DEF WorkInv, TypeInv
  <2>2. \A d \in Clients : pc[d] \notin InsidePcs
    BY ClientsAssumption DEF WorkInv, HolderInv, DevicePcs
  <2>3. PICK d \in Clients : pc[d] \in OpenPcs
    BY <2>2 DEF WorkInv, UnitInv, UserPcs
  <2>4. unit /\ worker \in Serving /\ ~Queued(term)
    BY <2>3 DEF WorkInv, UnitInv, ServedPcs
  <2> QED BY <2>1, <2>2, <2>3, <2>4
          DEF WorkInv, UnitInv, UserPcs, OpenPcs, InsidePcs, ServedPcs, Queued
<1> QED BY <1>1, <1>2, <1>3, <1>4, <1>5 DEF WorkInv

LEMMA MakeUnitKeeps ==
  ASSUME WorkInv, NEW c \in Clients, MakeUnit(c), harm = {}, harm' = {}
  PROVE  WorkInv'
<1> USE DEF MakeUnit, EnterOpen, Goto, library, queue
<1>1. TypeInv'
  <2>1. port' \in Seq(Clients \cup {term}) /\ worker' \in WorkerPcs
    BY EmptySeq DEF WorkerPcs
  <2>2. libOpen' \in Nat /\ sem' \in Clients \cup {none, "worker"}
    BY DEF WorkInv, TypeInv
  <2>3. pc' \in [Clients -> Pcs]
    BY DEF WorkInv, TypeInv, Pcs
  <2> QED BY <2>1, <2>2, <2>3 DEF WorkInv, TypeInv
<1>2. RequestInv'
  <2>1. \A d \in Clients : req[d] = "mine"
    BY DEF WorkInv, RequestInv, UnitInv, ServedPcs, OpenPcs
  <2>2. /\ Len(port') = 0 /\ \A r : ~Queued(r)'
        /\ taken = none
    BY EmptySeq DEF WorkInv, RequestInv, UnitInv, Queued
  <2>3. \A d \in Clients : pc'[d] = IF d = c THEN "starting" ELSE pc[d]
    BY DEF WorkInv, TypeInv
  <2> QED BY <2>1, <2>2, <2>3, ClientsAssumption DEF WorkInv, RequestInv
<1>3. HolderInv'
  <2>1. worker = "none" /\ \A d \in Clients : pc[d] \notin EnginePcs
    BY DEF WorkInv, UnitInv, ServedPcs, OpenPcs, EnginePcs
  <2>2. \A d \in Clients : pc'[d] = IF d = c THEN "starting" ELSE pc[d]
    BY DEF WorkInv, TypeInv
  <2> QED BY <2>1, <2>2, ClientsAssumption
          DEF WorkInv, HolderInv, EnginePcs, DevicePcs, InsidePcs
<1>4. CountInv'
  BY Counted, CountersTell
     DEF WorkInv, TypeInv, CountInv, HolderInv, OpenPcs, UserPcs, InsidePcs,
         Pcs
<1>5. UnitInv'
  BY CountersTell
     DEF WorkInv, TypeInv, HolderInv, UnitInv, OpenPcs, UserPcs, InsidePcs,
         ServedPcs, DevicePcs, Serving, Queued
<1> QED BY <1>1, <1>2, <1>3, <1>4, <1>5 DEF WorkInv

LEMMA StartedKeeps ==
  ASSUME WorkInv, NEW c \in Clients, Started(c), harm = {}, harm' = {}
  PROVE  WorkInv'
<1> USE DEF Started, Goto, library, queue
<1>1. TypeInv'
  BY DEF WorkInv, TypeInv, Pcs, Places, WorkerPcs
<1>2. RequestInv'
  BY DEF WorkInv, TypeInv, RequestInv, Queued
<1>3. HolderInv'
  BY ClientsAssumption
     DEF WorkInv, TypeInv, HolderInv, EnginePcs, DevicePcs, InsidePcs
<1>4. CountInv'
  BY Counted, CountersTell
     DEF WorkInv, TypeInv, CountInv, HolderInv, OpenPcs, UserPcs, InsidePcs,
         Pcs
<1>5. UnitInv'
  BY CountersTell
     DEF WorkInv, TypeInv, HolderInv, UnitInv, OpenPcs, UserPcs, InsidePcs,
         ServedPcs, DevicePcs, Serving, Queued
<1> QED BY <1>1, <1>2, <1>3, <1>4, <1>5 DEF WorkInv

LEMMA StartFailedKeeps ==
  ASSUME WorkInv, NEW c \in Clients, StartFailed(c), harm = {}, harm' = {}
  PROVE  WorkInv'
<1> USE DEF StartFailed, FreeUnit, LeaveDevice, Goto, library, queue
<1>1. TypeInv'
  <2>1. libOpen' \in Nat
    BY CountersTell DEF WorkInv, UserPcs, InsidePcs
  <2> QED BY <2>1 DEF WorkInv, TypeInv, Pcs, Places, WorkerPcs
<1>2. RequestInv'
  BY DEF WorkInv, TypeInv, RequestInv, Queued
<1>3. HolderInv'
  BY ClientsAssumption
     DEF WorkInv, TypeInv, HolderInv, EnginePcs, DevicePcs, InsidePcs
<1>4. CountInv'
  BY Counted, CountersTell
     DEF WorkInv, TypeInv, CountInv, HolderInv, OpenPcs, UserPcs, InsidePcs,
         Pcs
<1>5. UnitInv'
  BY CountersTell
     DEF WorkInv, TypeInv, HolderInv, UnitInv, OpenPcs, UserPcs, InsidePcs,
         ServedPcs, DevicePcs, Serving, Queued
<1> QED BY <1>1, <1>2, <1>3, <1>4, <1>5 DEF WorkInv

LEMMA ObtainSemKeeps ==
  ASSUME WorkInv, NEW c \in Clients, ObtainSem(c), harm = {}, harm' = {}
  PROVE  WorkInv'
<1> USE DEF ObtainSem, Goto, library, queue
<1>1. TypeInv'
  BY DEF WorkInv, TypeInv, Pcs, Places, WorkerPcs
<1>2. RequestInv'
  BY DEF WorkInv, TypeInv, RequestInv, Queued
<1>3. HolderInv'
  BY ClientsAssumption
     DEF WorkInv, TypeInv, HolderInv, EnginePcs, DevicePcs, InsidePcs
<1>4. CountInv'
  BY Counted, CountersTell
     DEF WorkInv, TypeInv, CountInv, HolderInv, OpenPcs, UserPcs, InsidePcs,
         Pcs
<1>5. UnitInv'
  BY CountersTell
     DEF WorkInv, TypeInv, HolderInv, UnitInv, OpenPcs, UserPcs, InsidePcs,
         ServedPcs, DevicePcs, Serving, Queued
<1> QED BY <1>1, <1>2, <1>3, <1>4, <1>5 DEF WorkInv

LEMMA OpenFuncKeeps ==
  ASSUME WorkInv, NEW c \in Clients, OpenFunc(c), harm = {}, harm' = {}
  PROVE  WorkInv'
<1> USE DEF OpenFunc, Goto, library, queue
<1>1. TypeInv'
  <2>1. /\ openCnt' \in Nat /\ delexp' \in BOOLEAN
        /\ devSem' \in Clients \cup {none}
    <3>1. /\ openCnt \in Nat /\ delexp \in BOOLEAN
          /\ devSem \in Clients \cup {none}
      BY DEF WorkInv, TypeInv
    <3>2. CASE EngineOpens \/ openCnt > 0
      <4>1. openCnt' = openCnt + 1 /\ delexp' = FALSE /\ devSem' = none
        BY <3>2
      <4>2. openCnt' \in Nat
        BY <3>1, <4>1
      <4>3. delexp' \in BOOLEAN /\ devSem' \in Clients \cup {none}
        BY <4>1, Zenon
      <4> QED BY <4>2, <4>3
    <3>3. CASE ~(EngineOpens \/ openCnt > 0)
      BY <3>1, <3>3
    <3> QED BY <3>2, <3>3
  <2>2. pc' \in [Clients -> Pcs]
    BY DEF WorkInv, TypeInv, Pcs
  <2> QED BY <2>1, <2>2 DEF WorkInv, TypeInv
<1>2. RequestInv'
  BY DEF WorkInv, TypeInv, RequestInv, Queued
<1>3. HolderInv'
  BY ClientsAssumption
     DEF WorkInv, TypeInv, HolderInv, EnginePcs, DevicePcs, InsidePcs
<1>4. CountInv'
  BY Counted, CountersTell
     DEF WorkInv, TypeInv, CountInv, HolderInv, OpenPcs, UserPcs, InsidePcs,
         Pcs
<1>5. UnitInv'
  BY CountersTell
     DEF EngineOpens, EngineHas, NetFunctions, BoxFunctions, WorkInv, TypeInv,
         HolderInv, UnitInv, OpenPcs, UserPcs, InsidePcs, ServedPcs,
         DevicePcs, Serving, Queued
<1> QED BY <1>1, <1>2, <1>3, <1>4, <1>5 DEF WorkInv

LEMMA DevCloseKeeps ==
  ASSUME WorkInv, NEW c \in Clients, DevClose(c), harm = {}, harm' = {}
  PROVE  WorkInv'
<1> USE DEF DevClose, Goto, library, queue
<1>1. TypeInv'
  BY DEF WorkInv, TypeInv, Pcs, Places, WorkerPcs
<1>2. RequestInv'
  BY DEF WorkInv, TypeInv, RequestInv, Queued
<1>3. HolderInv'
  BY ClientsAssumption
     DEF WorkInv, TypeInv, HolderInv, EnginePcs, DevicePcs, InsidePcs
<1>4. CountInv'
  BY Counted, CountersTell
     DEF WorkInv, TypeInv, CountInv, HolderInv, OpenPcs, UserPcs, InsidePcs,
         Pcs
<1>5. UnitInv'
  BY CountersTell
     DEF WorkInv, TypeInv, HolderInv, UnitInv, OpenPcs, UserPcs, InsidePcs,
         ServedPcs, DevicePcs, Serving, Queued
<1> QED BY <1>1, <1>2, <1>3, <1>4, <1>5 DEF WorkInv

LEMMA EnterCloseKeeps ==
  ASSUME WorkInv, NEW c \in Clients, EnterClose(c), harm = {}, harm' = {}
  PROVE  WorkInv'
<1> USE DEF EnterClose, Goto, library, queue
<1>1. TypeInv'
  BY DEF WorkInv, TypeInv, Pcs, Places, WorkerPcs
<1>2. RequestInv'
  BY DEF WorkInv, TypeInv, RequestInv, Queued
<1>3. HolderInv'
  BY ClientsAssumption
     DEF WorkInv, TypeInv, HolderInv, EnginePcs, DevicePcs, InsidePcs
<1>4. CountInv'
  BY Counted, CountersTell
     DEF WorkInv, TypeInv, CountInv, HolderInv, OpenPcs, UserPcs, InsidePcs,
         Pcs
<1>5. UnitInv'
  BY CountersTell
     DEF WorkInv, TypeInv, HolderInv, UnitInv, OpenPcs, UserPcs, InsidePcs,
         ServedPcs, DevicePcs, Serving, Queued
<1> QED BY <1>1, <1>2, <1>3, <1>4, <1>5 DEF WorkInv

LEMMA CloseFuncKeeps ==
  ASSUME WorkInv, NEW c \in Clients, CloseFunc(c), harm = {}, harm' = {}
  PROVE  WorkInv'
<1> USE DEF CloseFunc, LeaveDevice, Goto, library, queue
<1>1. TypeInv'
  BY CountersTell
     DEF WorkInv, TypeInv, Pcs, Places, WorkerPcs, UserPcs, OpenPcs, InsidePcs
<1>2. RequestInv'
  BY DEF WorkInv, TypeInv, RequestInv, Queued
<1>3. HolderInv'
  BY ClientsAssumption
     DEF WorkInv, TypeInv, HolderInv, EnginePcs, DevicePcs, InsidePcs
<1>4. CountInv'
  BY Counted, CountersTell
     DEF WorkInv, TypeInv, CountInv, HolderInv, OpenPcs, UserPcs, InsidePcs,
         Pcs
<1>5. UnitInv'
  <2>1. pc[c] \in OpenPcs /\ \A d \in Clients : d # c => pc[d] \notin InsidePcs
    BY DEF WorkInv, HolderInv, DevicePcs, OpenPcs
  <2>2. CASE openCnt = 1
    <3>1. \A d \in Clients : pc'[d] = IF d = c THEN "stop" ELSE pc[d]
      BY <2>2 DEF WorkInv, TypeInv
    <3>2. \A d \in Clients : d # c => pc[d] \notin OpenPcs
      BY <2>1, <2>2, CountersTell DEF WorkInv
    <3> QED BY <2>1, <3>1, <3>2
            DEF WorkInv, UnitInv, UserPcs, OpenPcs, InsidePcs, ServedPcs, Queued
  <2>3. CASE openCnt # 1
    <3>1. \A d \in Clients : pc'[d] = IF d = c THEN "closed" ELSE pc[d]
      BY <2>3 DEF WorkInv, TypeInv
    <3>2. \E d \in Clients : d # c /\ pc[d] \in OpenPcs
      <4>1. openCnt # 0
        BY <2>1, CountersTell DEF WorkInv
      <4> QED BY <2>1, <2>3, <4>1, OthersOpen DEF WorkInv
    <3> QED BY <2>1, <3>1, <3>2
            DEF WorkInv, UnitInv, UserPcs, OpenPcs, InsidePcs, ServedPcs, Queued
  <2> QED BY <2>2, <2>3
<1> QED BY <1>1, <1>2, <1>3, <1>4, <1>5 DEF WorkInv

LEMMA StopKeeps ==
  ASSUME WorkInv, NEW c \in Clients, Stop(c), harm = {}, harm' = {}
  PROVE  WorkInv'
<1> USE DEF Stop, Goto, library, queue
<1>1. TypeInv'
  BY DEF WorkInv, TypeInv, Pcs, Places, WorkerPcs
<1>2. RequestInv'
  <2>1. ~Queued(term)
    BY DEF WorkInv, UnitInv, ServedPcs
  <2>2. /\ \A i, j \in 1 .. Len(port') : port'[i] = port'[j] => i = j
        /\ \A r : Queued(r)' <=> r = term \/ Queued(r)
    BY <2>1, Appended DEF WorkInv, TypeInv, RequestInv, Queued
  <2> QED BY <2>2, ClientsAssumption DEF WorkInv, TypeInv, RequestInv
<1>3. HolderInv'
  BY ClientsAssumption
     DEF WorkInv, TypeInv, HolderInv, EnginePcs, DevicePcs, InsidePcs
<1>4. CountInv'
  BY Counted, CountersTell
     DEF WorkInv, TypeInv, CountInv, HolderInv, OpenPcs, UserPcs, InsidePcs,
         Pcs
<1>5. UnitInv'
  BY CountersTell
     DEF WorkInv, TypeInv, HolderInv, UnitInv, OpenPcs, UserPcs, InsidePcs,
         ServedPcs, DevicePcs, Serving, Queued
<1> QED BY <1>1, <1>2, <1>3, <1>4, <1>5 DEF WorkInv

LEMMA StoppedOpenKeeps ==
  ASSUME WorkInv, NEW c \in Clients, StoppedOpen(c), harm = {}, harm' = {}
  PROVE  WorkInv'
<1> USE DEF StoppedOpen, FreeUnit, LeaveDevice, Terminated, Goto, library, queue
<1>1. TypeInv'
  <2>1. libOpen' \in Nat
    BY CountersTell DEF WorkInv, UserPcs, InsidePcs
  <2> QED BY <2>1 DEF WorkInv, TypeInv, Pcs, Places, WorkerPcs
<1>2. RequestInv'
  BY DEF WorkInv, TypeInv, RequestInv, Queued
<1>3. HolderInv'
  BY ClientsAssumption
     DEF WorkInv, TypeInv, HolderInv, EnginePcs, DevicePcs, InsidePcs
<1>4. CountInv'
  BY Counted, CountersTell
     DEF WorkInv, TypeInv, CountInv, HolderInv, OpenPcs, UserPcs, InsidePcs,
         Pcs
<1>5. UnitInv'
  BY CountersTell
     DEF WorkInv, TypeInv, HolderInv, UnitInv, OpenPcs, UserPcs, InsidePcs,
         ServedPcs, DevicePcs, Serving, Queued
<1> QED BY <1>1, <1>2, <1>3, <1>4, <1>5 DEF WorkInv

LEMMA StoppedCloseKeeps ==
  ASSUME WorkInv, NEW c \in Clients, StoppedClose(c), harm = {}, harm' = {}
  PROVE  WorkInv'
<1> USE DEF StoppedClose, LeaveDevice, Terminated, Goto, library, queue
<1>1. TypeInv'
  <2>1. libOpen' \in Nat
    BY CountersTell DEF WorkInv, UserPcs, InsidePcs
  <2> QED BY <2>1 DEF WorkInv, TypeInv, Pcs, Places, WorkerPcs
<1>2. RequestInv'
  BY DEF WorkInv, TypeInv, RequestInv, Queued
<1>3. HolderInv'
  BY ClientsAssumption
     DEF WorkInv, TypeInv, HolderInv, EnginePcs, DevicePcs, InsidePcs
<1>4. CountInv'
  BY Counted, CountersTell
     DEF WorkInv, TypeInv, CountInv, HolderInv, OpenPcs, UserPcs, InsidePcs,
         Pcs
<1>5. UnitInv'
  <2>1. \A d \in Clients : pc[d] \notin OpenPcs
    BY DEF WorkInv, UnitInv
  <2>2. \A d \in Clients : d # c => pc[d] \notin InsidePcs
    BY DEF WorkInv, HolderInv, DevicePcs, InsidePcs
  <2>3. \A d \in Clients : pc'[d] = IF d = c THEN "closed" ELSE pc[d]
    BY DEF WorkInv, TypeInv
  <2>4. \A d \in Clients : d # c => pc[d] \in {"closed", "getdev"}
    BY <2>1, <2>2 DEF WorkInv, TypeInv, Pcs, OpenPcs, InsidePcs
  <2>5. ~base' => \A d \in Clients : pc'[d] = "closed"
    BY <2>3, <2>4 DEF Waiting
  <2>6. worker' = "none" /\ unit' = FALSE
    OBVIOUS
  <2> QED BY <2>3, <2>4, <2>5, <2>6
          DEF WorkInv, UnitInv, UserPcs, OpenPcs, InsidePcs, ServedPcs
<1> QED BY <1>1, <1>2, <1>3, <1>4, <1>5 DEF WorkInv

LEMMA QueueIOKeeps ==
  ASSUME WorkInv, NEW c \in Clients, QueueIO(c), harm = {}, harm' = {}
  PROVE  WorkInv'
<1> USE DEF QueueIO, Move, library, queue
<1>1. TypeInv'
  BY DEF WorkInv, TypeInv, Pcs, Places, WorkerPcs
<1>2. RequestInv'
  BY DEF WorkInv, TypeInv, RequestInv, Queued
<1>3. HolderInv'
  BY ClientsAssumption
     DEF WorkInv, TypeInv, HolderInv, EnginePcs, DevicePcs, InsidePcs
<1>4. CountInv'
  BY Unmoved DEF WorkInv, CountInv
<1>5. UnitInv'
  <2>1. ~Queued(term)'
    <3>1. \A r : Queued(r)' => r = c \/ Queued(r)
      BY AppendProperties DEF WorkInv, TypeInv, Queued
    <3> QED BY <3>1, ClientsAssumption DEF WorkInv, UnitInv, ServedPcs, OpenPcs
  <2>2. pc[c] \in ServedPcs /\ pc[c] # "starting"
    BY DEF ServedPcs, OpenPcs
  <2> QED BY <2>1 DEF WorkInv, UnitInv, UserPcs, OpenPcs, ServedPcs
<1> QED BY <1>1, <1>2, <1>3, <1>4, <1>5 DEF WorkInv

LEMMA BeginIOKeeps ==
  ASSUME WorkInv, NEW c \in Clients, BeginIO(c), harm = {}, harm' = {}
  PROVE  WorkInv'
<1> USE DEF BeginIO, Move, Goto, library, queue
<1>1. TypeInv'
  BY DEF WorkInv, TypeInv, Pcs, Places, WorkerPcs
<1>2. RequestInv'
  BY DEF WorkInv, TypeInv, RequestInv, Queued
<1>3. HolderInv'
  BY ClientsAssumption
     DEF WorkInv, TypeInv, HolderInv, EnginePcs, DevicePcs, InsidePcs
<1>4. CountInv'
  BY Counted, CountersTell
     DEF WorkInv, TypeInv, CountInv, HolderInv, OpenPcs, UserPcs, InsidePcs,
         Pcs
<1>5. UnitInv'
  BY CountersTell
     DEF WorkInv, TypeInv, HolderInv, UnitInv, OpenPcs, UserPcs, InsidePcs,
         ServedPcs, DevicePcs, Serving, Queued
<1> QED BY <1>1, <1>2, <1>3, <1>4, <1>5 DEF WorkInv

LEMMA EndIOKeeps ==
  ASSUME WorkInv, NEW c \in Clients, EndIO(c), harm = {}, harm' = {}
  PROVE  WorkInv'
<1> USE DEF EndIO, Move, EngineDone, EngineHas, NetFunctions, BoxFunctions,
            Goto, library, queue
<1>1. TypeInv'
  BY DEF WorkInv, TypeInv, Pcs, Places, WorkerPcs
<1>2. RequestInv'
  <2>1. engine = "box"
    BY DEF WorkInv, TypeInv, UnitInv, OpenPcs
  <2> QED BY <2>1 DEF WorkInv, TypeInv, RequestInv, Queued
<1>3. HolderInv'
  BY ClientsAssumption
     DEF WorkInv, TypeInv, HolderInv, EnginePcs, DevicePcs, InsidePcs
<1>4. CountInv'
  BY Counted, CountersTell
     DEF WorkInv, TypeInv, CountInv, HolderInv, OpenPcs, UserPcs, InsidePcs,
         Pcs
<1>5. UnitInv'
  BY CountersTell
     DEF WorkInv, TypeInv, HolderInv, UnitInv, OpenPcs, UserPcs, InsidePcs,
         ServedPcs, DevicePcs, Serving, Queued
<1> QED BY <1>1, <1>2, <1>3, <1>4, <1>5 DEF WorkInv

LEMMA TakeReplyKeeps ==
  ASSUME WorkInv, NEW c \in Clients, TakeReply(c), harm = {}, harm' = {}
  PROVE  WorkInv'
<1> USE DEF TakeReply, Move, library, queue
<1>1. TypeInv'
  BY DEF WorkInv, TypeInv, Pcs, Places, WorkerPcs
<1>2. RequestInv'
  BY DEF WorkInv, TypeInv, RequestInv, Queued
<1>3. HolderInv'
  BY ClientsAssumption
     DEF WorkInv, TypeInv, HolderInv, EnginePcs, DevicePcs, InsidePcs
<1>4. CountInv'
  BY Unmoved DEF WorkInv, CountInv
<1>5. UnitInv'
  BY CountersTell
     DEF WorkInv, TypeInv, HolderInv, UnitInv, OpenPcs, UserPcs, InsidePcs,
         ServedPcs, DevicePcs, Serving, Queued
<1> QED BY <1>1, <1>2, <1>3, <1>4, <1>5 DEF WorkInv

LEMMA AbortIOKeeps ==
  ASSUME WorkInv, NEW c \in Clients, AbortIO(c), harm = {}, harm' = {}
  PROVE  WorkInv'
<1> USE DEF AbortIO, Goto, library, queue
<1>1. TypeInv'
  BY DEF WorkInv, TypeInv, Pcs, Places, WorkerPcs
<1>2. RequestInv'
  BY DEF WorkInv, TypeInv, RequestInv, Queued
<1>3. HolderInv'
  BY ClientsAssumption
     DEF WorkInv, TypeInv, HolderInv, EnginePcs, DevicePcs, InsidePcs
<1>4. CountInv'
  BY Counted, CountersTell
     DEF WorkInv, TypeInv, CountInv, HolderInv, OpenPcs, UserPcs, InsidePcs,
         Pcs
<1>5. UnitInv'
  BY CountersTell
     DEF WorkInv, TypeInv, HolderInv, UnitInv, OpenPcs, UserPcs, InsidePcs,
         ServedPcs, DevicePcs, Serving, Queued
<1> QED BY <1>1, <1>2, <1>3, <1>4, <1>5 DEF WorkInv

LEMMA RemoveIOKeeps ==
  ASSUME WorkInv, NEW c \in Clients, RemoveIO(c), harm = {}, harm' = {}
  PROVE  WorkInv'
<1> USE DEF RemoveIO, Move, Goto, library, queue
<1>b. /\ port \in Seq(Clients \cup {term}) /\ port' = RemoveFirst(port, c)
      /\ \A i, j \in 1 .. Len(port) : port[i] = port[j] => i = j
  BY DEF WorkInv, TypeInv, RequestInv
<1>a. /\ port' \in Seq(Clients \cup {term})
      /\ \A i, j \in 1 .. Len(port') : port'[i] = port'[j] => i = j
      /\ \A r : (\E i \in 1 .. Len(port') : port'[i] = r) <=>
                   r # c /\ \E i \in 1 .. Len(port) : port[i] = r
  BY <1>b, Removed
<1>1. TypeInv'
  <2>1. port' \in Seq(Clients \cup {term})
    BY <1>a
  <2> QED BY <2>1 DEF WorkInv, TypeInv, Pcs, Places, WorkerPcs
<1>2. RequestInv'
  <2>1. \A r : Queued(r)' <=> r # c /\ Queued(r)
    BY <1>a, Zenon DEF Queued
  <2>2. \A i, j \in 1 .. Len(port') : port'[i] = port'[j] => i = j
    BY <1>a
  <2>3. \A d \in Clients : /\ Queued(d) <=> req[d] = "queued"
                           /\ taken = d <=> req[d] = "taken"
    BY DEF WorkInv, RequestInv
  <2>4. /\ taken' = taken /\ worker' = worker
        /\ pc \in [Clients -> Pcs] /\ req \in [Clients -> Places]
        /\ pc' = [pc EXCEPT ![c] = "open"]
        /\ req' = [req EXCEPT ![c] = "replied"]
        /\ req[c] # "taken"
    BY DEF WorkInv, TypeInv
  <2>5. \A d \in Clients : Queued(d)' <=> req'[d] = "queued"
    BY <2>1, <2>3, <2>4
  <2> HIDE DEF RemoveIO, Move
  <2> QED BY <2>2, <2>3, <2>4, <2>5 DEF WorkInv, RequestInv
<1>3. HolderInv'
  BY ClientsAssumption
     DEF WorkInv, TypeInv, HolderInv, EnginePcs, DevicePcs, InsidePcs
<1>4. CountInv'
  BY Counted, CountersTell
     DEF WorkInv, TypeInv, CountInv, HolderInv, OpenPcs, UserPcs, InsidePcs,
         Pcs
<1>5. UnitInv'
  <2>1. \A r : Queued(r)' => Queued(r)
    BY <1>a, Zenon DEF Queued
  <2>2. \A d \in Clients : pc'[d] = IF d = c THEN "open" ELSE pc[d]
    BY DEF WorkInv, TypeInv
  <2>3. \A d \in Clients : pc[d] # "starting"
    BY DEF WorkInv, UnitInv, OpenPcs
  <2> QED BY <2>1, <2>2, <2>3
          DEF WorkInv, UnitInv, UserPcs, OpenPcs, InsidePcs, ServedPcs
<1> QED BY <1>1, <1>2, <1>3, <1>4, <1>5 DEF WorkInv

LEMMA DevInitKeeps ==
  ASSUME WorkInv, DevInit, harm = {}, harm' = {}
  PROVE  WorkInv'
<1> USE DEF DevInit, library, queue
<1>1. TypeInv'
  BY DEF WorkInv, TypeInv, Pcs, Places, WorkerPcs
<1>2. RequestInv'
  BY DEF WorkInv, TypeInv, RequestInv, Queued
<1>3. HolderInv'
  <2>1. \A c \in Clients : pc[c] = "closed"
    BY DEF WorkInv, UnitInv
  <2> QED BY <2>1, ClientsAssumption
             DEF WorkInv, TypeInv, HolderInv, EnginePcs, DevicePcs, InsidePcs
<1>4. CountInv'
  <2>1. \A c \in Clients : pc[c] = "closed"
    BY DEF WorkInv, UnitInv
  <2>2. libOpen = 0
    BY <2>1, CountersTell DEF WorkInv, UserPcs, OpenPcs, InsidePcs
  <2> QED BY <2>2, Unmoved DEF WorkInv, CountInv
<1>5. UnitInv'
  BY CountersTell
     DEF WorkInv, TypeInv, HolderInv, UnitInv, OpenPcs, UserPcs, InsidePcs,
         ServedPcs, DevicePcs, Serving, Queued
<1> QED BY <1>1, <1>2, <1>3, <1>4, <1>5 DEF WorkInv

LEMMA DevExpungeKeeps ==
  ASSUME WorkInv, DevExpunge, harm = {}, harm' = {}
  PROVE  WorkInv'
<1> USE DEF DevExpunge, FreeBase, Waiting, library, queue
<1>1. TypeInv'
  BY DEF WorkInv, TypeInv, Pcs, Places, WorkerPcs
<1>2. RequestInv'
  BY DEF WorkInv, TypeInv, RequestInv, Queued
<1>3. HolderInv'
  BY ClientsAssumption
     DEF WorkInv, TypeInv, HolderInv, EnginePcs, DevicePcs, InsidePcs
<1>4. CountInv'
  BY Unmoved DEF WorkInv, CountInv
<1>5. UnitInv'
  <2>1. CASE libOpen > 0
    BY <2>1 DEF WorkInv, UnitInv, Queued
  <2>2. CASE ~(libOpen > 0)
    <3>1. \A c \in Clients : pc[c] \notin UserPcs /\ pc[c] # "getdev"
      BY <2>2, CountersTell DEF WorkInv
    <3>2. \A c \in Clients : pc[c] = "closed"
      BY <3>1 DEF WorkInv, TypeInv, Pcs, UserPcs, OpenPcs, InsidePcs
    <3> QED BY <2>2, <3>1, <3>2 DEF WorkInv, UnitInv, ServedPcs, OpenPcs
  <2> QED BY <2>1, <2>2
<1> QED BY <1>1, <1>2, <1>3, <1>4, <1>5 DEF WorkInv

LEMMA WorkerInitKeeps ==
  ASSUME WorkInv, WorkerInit, harm = {}, harm' = {}
  PROVE  WorkInv'
<1> USE DEF WorkerInit, library, queue
<1>1. TypeInv'
  BY DEF WorkInv, TypeInv, Pcs, Places, WorkerPcs
<1>2. RequestInv'
  BY DEF WorkInv, TypeInv, RequestInv, Queued
<1>3. HolderInv'
  BY ClientsAssumption
     DEF WorkInv, TypeInv, HolderInv, EnginePcs, DevicePcs, InsidePcs
<1>4. CountInv'
  BY Unmoved DEF WorkInv, CountInv
<1>5. UnitInv'
  BY CountersTell
     DEF WorkInv, TypeInv, HolderInv, UnitInv, OpenPcs, UserPcs, InsidePcs,
         ServedPcs, DevicePcs, Serving, Queued
<1> QED BY <1>1, <1>2, <1>3, <1>4, <1>5 DEF WorkInv

LEMMA WorkerWakeKeeps ==
  ASSUME WorkInv, WorkerWake, harm = {}, harm' = {}
  PROVE  WorkInv'
<1> USE DEF WorkerWake, library, queue
<1>1. TypeInv'
  BY DEF WorkInv, TypeInv, Pcs, Places, WorkerPcs
<1>2. RequestInv'
  BY DEF WorkInv, TypeInv, RequestInv, Queued
<1>3. HolderInv'
  BY ClientsAssumption
     DEF WorkInv, TypeInv, HolderInv, EnginePcs, DevicePcs, InsidePcs
<1>4. CountInv'
  BY Unmoved DEF WorkInv, CountInv
<1>5. UnitInv'
  BY CountersTell
     DEF WorkInv, TypeInv, HolderInv, UnitInv, OpenPcs, UserPcs, InsidePcs,
         ServedPcs, DevicePcs, Serving, Queued
<1> QED BY <1>1, <1>2, <1>3, <1>4, <1>5 DEF WorkInv

LEMMA GetMsgKeeps ==
  ASSUME WorkInv, GetMsg, harm = {}, harm' = {}
  PROVE  WorkInv'
<1> USE DEF GetMsg, Move, library, queue
<1>1. TypeInv'
  BY DEF WorkInv, TypeInv, Pcs, Places, WorkerPcs
<1>2. RequestInv'
  <2>1. /\ \A i, j \in 1 .. Len(port') : port'[i] = port'[j] => i = j
        /\ \A r : Queued(r)' <=> r # Head(port) /\ Queued(r)
        /\ Head(port) \in Clients \cup {term}
    <3> DEFINE t == Tail(port)
    <3>1. /\ \A i, j \in 1 .. Len(t) : t[i] = t[j] => i = j
          /\ \A r : (\E i \in 1 .. Len(t) : t[i] = r) <=>
                      r # Head(port) /\ \E i \in 1 .. Len(port) : port[i] = r
          /\ Head(port) \in Clients \cup {term}
      BY Taken DEF WorkInv, TypeInv, RequestInv
    <3> HIDE DEF t
    <3>2. port' = t
      BY DEF t
    <3> QED BY <3>1, <3>2 DEF Queued
  <2>2. CASE Head(port) = term
    BY <2>1, <2>2, ClientsAssumption DEF WorkInv, TypeInv, RequestInv
  <2>3. CASE Head(port) # term
    <3>1. /\ Head(port) \in Clients /\ req[Head(port)] = "queued"
          /\ taken = none /\ taken' = Head(port) /\ worker' = "obtain"
      <4>1. Head(port) \in Clients
        BY <2>1, <2>3
      <4>2. Queued(Head(port))
        BY HeadTailProperties, EmptySeq DEF WorkInv, TypeInv, Queued
      <4> QED BY <2>3, <4>1, <4>2 DEF WorkInv, RequestInv
    <3>2. /\ req'[Head(port)] = "taken"
          /\ \A d \in Clients : d # Head(port) => req'[d] = req[d]
      BY <2>3, <3>1 DEF WorkInv, TypeInv
    <3> QED BY <2>1, <3>1, <3>2, ClientsAssumption DEF WorkInv, RequestInv
  <2> QED BY <2>2, <2>3
<1>3. HolderInv'
  BY ClientsAssumption
     DEF WorkInv, TypeInv, HolderInv, EnginePcs, DevicePcs, InsidePcs
<1>4. CountInv'
  BY Unmoved DEF WorkInv, CountInv
<1>5. UnitInv'
  BY CountersTell
     DEF WorkInv, TypeInv, HolderInv, UnitInv, OpenPcs, UserPcs, InsidePcs,
         ServedPcs, DevicePcs, Serving, Queued
<1> QED BY <1>1, <1>2, <1>3, <1>4, <1>5 DEF WorkInv

LEMMA NoMsgKeeps ==
  ASSUME WorkInv, NoMsg, harm = {}, harm' = {}
  PROVE  WorkInv'
<1> USE DEF NoMsg, library, queue
<1>1. TypeInv'
  BY DEF WorkInv, TypeInv, Pcs, Places, WorkerPcs
<1>2. RequestInv'
  BY DEF WorkInv, TypeInv, RequestInv, Queued
<1>3. HolderInv'
  BY ClientsAssumption
     DEF WorkInv, TypeInv, HolderInv, EnginePcs, DevicePcs, InsidePcs
<1>4. CountInv'
  BY Unmoved DEF WorkInv, CountInv
<1>5. UnitInv'
  BY CountersTell
     DEF WorkInv, TypeInv, HolderInv, UnitInv, OpenPcs, UserPcs, InsidePcs,
         ServedPcs, DevicePcs, Serving, Queued
<1> QED BY <1>1, <1>2, <1>3, <1>4, <1>5 DEF WorkInv

LEMMA WorkerObtainKeeps ==
  ASSUME WorkInv, WorkerObtain, harm = {}, harm' = {}
  PROVE  WorkInv'
<1> USE DEF WorkerObtain, library, queue
<1>1. TypeInv'
  BY DEF WorkInv, TypeInv, Pcs, Places, WorkerPcs
<1>2. RequestInv'
  BY DEF WorkInv, TypeInv, RequestInv, Queued
<1>3. HolderInv'
  BY ClientsAssumption
     DEF WorkInv, TypeInv, HolderInv, EnginePcs, DevicePcs, InsidePcs
<1>4. CountInv'
  BY Unmoved DEF WorkInv, CountInv
<1>5. UnitInv'
  BY CountersTell
     DEF WorkInv, TypeInv, HolderInv, UnitInv, OpenPcs, UserPcs, InsidePcs,
         ServedPcs, DevicePcs, Serving, Queued
<1> QED BY <1>1, <1>2, <1>3, <1>4, <1>5 DEF WorkInv

LEMMA WorkerReleaseKeeps ==
  ASSUME WorkInv, WorkerRelease, harm = {}, harm' = {}
  PROVE  WorkInv'
<1> USE DEF WorkerRelease, EngineDone, EngineHas, NetFunctions, BoxFunctions,
            library, queue
<1>1. TypeInv'
  BY DEF WorkInv, TypeInv, Pcs, Places, WorkerPcs
<1>2. RequestInv'
  <2>1. taken \in Clients /\ req[taken] = "taken"
    BY DEF WorkInv, TypeInv, RequestInv
  <2>2. pc[taken] \in {"open", "engine", "abort"}
    BY <2>1 DEF WorkInv, TypeInv, RequestInv
  <2>3. engine = "box"
    BY <2>1, <2>2 DEF WorkInv, TypeInv, UnitInv, OpenPcs
  <2> QED BY <2>3 DEF WorkInv, TypeInv, RequestInv, Queued
<1>3. HolderInv'
  BY ClientsAssumption
     DEF WorkInv, TypeInv, HolderInv, EnginePcs, DevicePcs, InsidePcs
<1>4. CountInv'
  BY Unmoved DEF WorkInv, CountInv
<1>5. UnitInv'
  BY CountersTell
     DEF WorkInv, TypeInv, HolderInv, UnitInv, OpenPcs, UserPcs, InsidePcs,
         ServedPcs, DevicePcs, Serving, Queued
<1> QED BY <1>1, <1>2, <1>3, <1>4, <1>5 DEF WorkInv

LEMMA WorkerReplyKeeps ==
  ASSUME WorkInv, WorkerReply, harm = {}, harm' = {}
  PROVE  WorkInv'
<1> USE DEF WorkerReply, Move, library, queue
<1>1. TypeInv'
  BY DEF WorkInv, TypeInv, Pcs, Places, WorkerPcs
<1>2. RequestInv'
  <2>1. taken \in Clients /\ req[taken] = "taken"
    BY DEF WorkInv, TypeInv, RequestInv
  <2>2. \A d \in Clients : taken = d <=> req[d] = "taken"
    BY DEF WorkInv, RequestInv
  <2>3. /\ req' \in [Clients -> Places] /\ req'[taken] = "replied"
        /\ \A d \in Clients : d # taken => req'[d] = req[d]
    BY <2>1 DEF WorkInv, TypeInv, Places
  <2>4. pc[taken] # "engine" /\ pc[taken] \in {"open", "engine", "abort"}
    BY <2>1 DEF WorkInv, RequestInv
  <2> QED BY <2>1, <2>2, <2>3, <2>4, ClientsAssumption
             DEF WorkInv, TypeInv, RequestInv, Queued
<1>3. HolderInv'
  BY ClientsAssumption
     DEF WorkInv, TypeInv, HolderInv, EnginePcs, DevicePcs, InsidePcs
<1>4. CountInv'
  BY Unmoved DEF WorkInv, CountInv
<1>5. UnitInv'
  BY CountersTell
     DEF WorkInv, TypeInv, HolderInv, UnitInv, OpenPcs, UserPcs, InsidePcs,
         ServedPcs, DevicePcs, Serving, Queued
<1> QED BY <1>1, <1>2, <1>3, <1>4, <1>5 DEF WorkInv

LEMMA ExitFuncKeeps ==
  ASSUME WorkInv, ExitFunc, harm = {}, harm' = {}
  PROVE  WorkInv'
<1> USE DEF ExitFunc, library, queue
<1>1. TypeInv'
  BY DEF WorkInv, TypeInv, Pcs, Places, WorkerPcs
<1>2. RequestInv'
  BY DEF WorkInv, TypeInv, RequestInv, Queued
<1>3. HolderInv'
  BY ClientsAssumption
     DEF WorkInv, TypeInv, HolderInv, EnginePcs, DevicePcs, InsidePcs
<1>4. CountInv'
  BY Unmoved DEF WorkInv, CountInv
<1>5. UnitInv'
  BY CountersTell
     DEF WorkInv, TypeInv, HolderInv, UnitInv, OpenPcs, UserPcs, InsidePcs,
         ServedPcs, DevicePcs, Serving, Queued
<1> QED BY <1>1, <1>2, <1>3, <1>4, <1>5 DEF WorkInv

LEMMA ClearPortKeeps ==
  ASSUME WorkInv, ClearPort, harm = {}, harm' = {}
  PROVE  WorkInv'
<1> USE DEF ClearPort, library, queue
<1>1. TypeInv'
  BY DEF WorkInv, TypeInv, Pcs, Places, WorkerPcs
<1>2. RequestInv'
  BY DEF WorkInv, TypeInv, RequestInv, Queued
<1>3. HolderInv'
  BY ClientsAssumption
     DEF WorkInv, TypeInv, HolderInv, EnginePcs, DevicePcs, InsidePcs
<1>4. CountInv'
  BY Unmoved DEF WorkInv, CountInv
<1>5. UnitInv'
  BY CountersTell
     DEF WorkInv, TypeInv, HolderInv, UnitInv, OpenPcs, UserPcs, InsidePcs,
         ServedPcs, DevicePcs, Serving, Queued
<1> QED BY <1>1, <1>2, <1>3, <1>4, <1>5 DEF WorkInv

-------------------------------------------------------------------------------
LEMMA InitWorks == Init => WorkInv
<1> SUFFICES ASSUME Init PROVE WorkInv
  OBVIOUS
<1>1. TypeInv
  BY EmptySeq DEF Init, TypeInv, Pcs, Places, WorkerPcs
<1>2. RequestInv
  BY ClientsAssumption, EmptySeq DEF Init, RequestInv, Queued
<1>3. HolderInv
  BY ClientsAssumption DEF Init, HolderInv, EnginePcs, DevicePcs, InsidePcs
<1>4. CountInv
  <2>1. Opened = {} /\ Users = {}
    BY DEF Init, Opened, Inside, Users
  <2> QED BY <2>1, FS_EmptySet DEF Init, CountInv
<1>5. UnitInv
  BY DEF Init, UnitInv, UserPcs, OpenPcs, InsidePcs, ServedPcs
<1> QED BY <1>1, <1>2, <1>3, <1>4, <1>5 DEF WorkInv

LEMMA NextWorks == ASSUME WorkInv, Next, harm' = {} PROVE WorkInv'
<1> USE DEF Next
<1>1. harm = {}
  OBVIOUS
<1>2. CASE DevInit \/ DevExpunge
  BY <1>1, <1>2, DevInitKeeps, DevExpungeKeeps
<1>3. CASE WorkerWorks \/ WorkerObtain
  BY <1>1, <1>3, WorkerInitKeeps, WorkerWakeKeeps, GetMsgKeeps, NoMsgKeeps,
     WorkerObtainKeeps, WorkerReleaseKeeps, WorkerReplyKeeps, ExitFuncKeeps,
     ClearPortKeeps DEF WorkerWorks
<1>4. ASSUME NEW c \in Clients, Calls(c) PROVE WorkInv'
  BY <1>1, <1>4, DevOpenKeeps, DevCloseKeeps, QueueIOKeeps, BeginIOKeeps,
     TakeReplyKeeps, AbortIOKeeps DEF Calls
<1>5. ASSUME NEW c \in Clients, EntersOrLeaves(c) PROVE WorkInv'
  BY <1>1, <1>5, RefuseOpenKeeps, FindUnitKeeps, MakeUnitKeeps, EnterCloseKeeps
     DEF EntersOrLeaves
<1>6. ASSUME NEW c \in Clients, Uses(c) PROVE WorkInv'
  BY <1>1, <1>6, ObtainSemKeeps, RemoveIOKeeps DEF Uses
<1>7. ASSUME NEW c \in Clients, Works(c) PROVE WorkInv'
  BY <1>1, <1>7, StartedKeeps, StartFailedKeeps, OpenFuncKeeps, CloseFuncKeeps,
     EndIOKeeps, StopKeeps, StoppedOpenKeeps, StoppedCloseKeeps DEF Works
<1> QED BY <1>2, <1>3, <1>4, <1>5, <1>6, <1>7

LEMMA StutterWorks == ASSUME WorkInv, UNCHANGED vars PROVE WorkInv'
<1> USE DEF vars, library, queue
<1>1. TypeInv' /\ RequestInv' /\ HolderInv' /\ UnitInv'
  BY DEF WorkInv, TypeInv, RequestInv, HolderInv, UnitInv, Queued
<1>2. CountInv'
  BY Unmoved DEF WorkInv, CountInv
<1> QED BY <1>1, <1>2 DEF WorkInv

LEMMA WorkAlways == Spec => []DevInv
<1>1. Init => DevInv
  BY InitWorks DEF DevInv
<1>2. DevInv /\ [Next]_vars => DevInv'
  <2>1. ASSUME DevInv, Next, harm' = {} PROVE WorkInv'
    BY <2>1, NextWorks DEF DevInv, Next
  <2>2. ASSUME DevInv, UNCHANGED vars, harm' = {} PROVE WorkInv'
    BY <2>2, StutterWorks DEF DevInv, vars
  <2> QED BY <2>1, <2>2 DEF DevInv
<1> QED BY <1>1, <1>2, PTL DEF Spec

(* A request is in one place only, the one its owner takes it to be in, and *)
(* the engine is held by who is in it: DevWorkerBeginIO, AbortIO and the    *)
(* worker of devworker.c.                                                   *)
THEOREM RequestsHaveOneOwner == Spec => []OneOwner
<1>1. DevInv => OneOwner
  <2> SUFFICES ASSUME WorkInv, NEW c \in Clients
               PROVE  /\ Cardinality({i \in DOMAIN port : port[i] = c}) =
                           IF req[c] = "queued" THEN 1 ELSE 0
                      /\ (taken = c) <=> req[c] = "taken"
                      /\ req[c] \in {"quick", "direct"} <=> pc[c] = "engine"
                      /\ (sem = c) <=> pc[c] \in {"inopen", "inclose", "engine"}
    BY DEF DevInv, OneOwner
  <2>1. DOMAIN port = 1 .. Len(port)
    BY LenProperties DEF WorkInv, TypeInv
  <2> DEFINE places == {i \in DOMAIN port : port[i] = c}
  <2>2. Cardinality(places) = IF req[c] = "queued" THEN 1 ELSE 0
    <3>1. CASE req[c] = "queued"
      <4>1. PICK k \in 1 .. Len(port) : port[k] = c
        BY <3>1 DEF WorkInv, RequestInv, Queued
      <4>2. places = {k}
        BY <2>1, <4>1 DEF WorkInv, RequestInv
      <4> QED BY <3>1, <4>2, FS_Singleton
    <3>2. CASE req[c] # "queued"
      <4>1. places = {}
        BY <2>1, <3>2 DEF WorkInv, RequestInv, Queued
      <4> QED BY <3>2, <4>1, FS_EmptySet
    <3> QED BY <3>1, <3>2
  <2> QED BY <2>2 DEF WorkInv, RequestInv, HolderInv, EnginePcs
<1> QED BY <1>1, WorkAlways, PTL

(* Whoever has the device open has a unit and a worker that serves it, the  *)
(* counters of device.c and unit.c tell how many that are, and the last one *)
(* leaves no unit behind.                                                   *)
THEOREM UnitServesItsUsers == Spec => []UnitInUse
<1>1. DevInv => UnitInUse
  <2> SUFFICES ASSUME WorkInv
               PROVE  /\ openCnt = Cardinality(Opened)
                      /\ libOpen = Cardinality(Users)
                      /\ Cardinality(Inside) <= 1
                      /\ unit => Users # {}
                      /\ Opened # {} =>
                           /\ base /\ unit /\ term \notin Range(port)
                           /\ worker \in Serving
    BY DEF DevInv, UnitInUse, Users, Serving
  <2>1. Cardinality(Inside) <= 1
    <3>1. CASE Inside = {}
      BY <3>1, FS_EmptySet
    <3>2. CASE Inside # {}
      <4>1. PICK c : c \in Inside
        BY <3>2
      <4>2. Inside = {c}
        BY <4>1 DEF WorkInv, HolderInv, Inside, DevicePcs, InsidePcs
      <4> QED BY <4>2, FS_Singleton
    <3> QED BY <3>1, <3>2
  <2>2. unit => Users # {}
    BY Membership DEF WorkInv, UnitInv
  <2>3. ASSUME NEW c \in Opened
        PROVE  base /\ unit /\ term \notin Range(port) /\ worker \in Serving
    <3>1. /\ c \in Clients /\ pc[c] \in OpenPcs
          /\ pc[c] \in ServedPcs /\ pc[c] # "closed"
      BY Membership DEF Opened, ServedPcs, OpenPcs
    <3>2. base /\ unit /\ worker \in Serving /\ ~Queued(term)
      BY <3>1 DEF WorkInv, UnitInv
    <3>3. DOMAIN port = 1 .. Len(port)
      BY LenProperties DEF WorkInv, TypeInv
    <3> QED BY <3>2, <3>3 DEF Queued, Range
  <2> QED BY <2>1, <2>2, <2>3 DEF WorkInv, CountInv
<1> QED BY <1>1, WorkAlways, PTL
==============================================================================
