---------------------------- MODULE StorageProofs ----------------------------
(***************************************************************************)
(* Theorems about what keeps data in the firmware: the heap, for any size  *)
(* and any requests, the driver of the SD card, for every kind of card,    *)
(* size and number of faults, and the parameters in the EEPROM, for all    *)
(* tables, settings and versions.                                          *)
(***************************************************************************)
EXTENDS MCStorage, FiniteSetTheorems, SequenceTheorems, WellFoundedInduction,
        TLAPS

(* What the order of the list gives: next leads to a higher rank.           *)
Ranked(h) ==
  \E rank \in [DOMAIN h -> Nat] :
    \A a \in DOMAIN h : h[a].next # Null => rank[a] < rank[h[a].next]

(* The links of every chunk agree with those of its neighbours.             *)
Linked(h, f) ==
  /\ f \in DOMAIN h \cup {Null}
  /\ \A a \in DOMAIN h :
       /\ h[a].prev \in DOMAIN h \cup {Null}
       /\ h[a].next \in DOMAIN h \cup {Null}
       /\ h[a].next # Null => h[h[a].next].prev = a
       /\ h[a].prev # Null => h[h[a].prev].next = a
       /\ h[a].prev = Null <=> a = f

Headers(h) ==
  /\ h = [a \in DOMAIN h |-> h[a]]
  /\ \A a \in DOMAIN h :
       /\ a \in Nat
       /\ h[a] = [prev |-> h[a].prev, next |-> h[a].next, size |-> h[a].size]
       /\ h[a].size \in Nat /\ HdrSize <= h[a].size /\ a + h[a].size <= MaxFree

BlocksOf(b) ==
  /\ b = [a \in DOMAIN b |-> b[a]]
  /\ \A a \in DOMAIN b :
       /\ a \in Nat
       /\ b[a] \in Nat /\ a + Footprint(b[a]) <= MaxFree

ChunksApart(h) ==
  \A x, y \in DOMAIN h : x < y => x + h[x].size <= y

(* The bytes from at on, size of them, are apart from chunks and blocks.    *)
ApartFromChunks(h, at, size) ==
  \A x \in DOMAIN h :
    x # at /\ (x < at => x + h[x].size <= at) /\ (at < x => at + size <= x)

(* Byte x lies in a chunk, or in a block.                                   *)
InChunk(h, x) == \E a \in DOMAIN h : a <= x /\ x < a + h[a].size
InBlock(b, x) == \E a \in DOMAIN b : a <= x /\ x < a + Footprint(b[a])

BlocksApart(b) ==
  \A x, y \in DOMAIN b : x < y => x + Footprint(b[x]) <= y

ChunksFromBlocks(h, b) ==
  \A x \in DOMAIN b : ApartFromChunks(h, x, Footprint(b[x]))

HeapInv ==
  /\ Ranked(hdr) /\ Linked(hdr, first) /\ Headers(hdr) /\ BlocksOf(blk)
  /\ {above, mangled} \subseteq BOOLEAN
  /\ ~mangled => /\ ChunksApart(hdr) /\ BlocksApart(blk)
                 /\ ChunksFromBlocks(hdr, blk)

------------------------------------------------------------------------------
LEMMA FootprintRange ==
  ASSUME NEW n \in Nat
  PROVE  Footprint(n) \in Nat /\ HdrSize <= Footprint(n) /\ 0 < Footprint(n)
<1>1. (n + 2) % 65536 \in Nat
  OBVIOUS
<1> DEFINE s == (n + 2) % 65536
<1> HIDE DEF s
<1>2. Footprint(n) = IF s < HdrSize THEN HdrSize ELSE s
  BY DEF Footprint, s
<1> QED BY <1>1, <1>2, FreeAssumption DEF s

LEMMA HeapInit == Init => HeapInv
<1> SUFFICES ASSUME Init PROVE HeapInv
  OBVIOUS
<1>1. DOMAIN hdr = {0} /\ hdr[0] = [prev |-> Null, next |-> Null, size |-> MaxFree]
  BY DEF Init
<1>2. Ranked(hdr)
  <2>1. [a \in {0} |-> 0] \in [DOMAIN hdr -> Nat]
    BY <1>1
  <2>2. \A a \in DOMAIN hdr : hdr[a].next = Null
    BY <1>1
  <2> QED BY <2>1, <2>2 DEF Ranked
<1>3. DOMAIN blk = {} /\ blk = [b \in DOMAIN blk |-> blk[b]]
  BY DEF Init
<1>4. BlocksOf(blk)
  BY <1>3 DEF BlocksOf
<1>5. Headers(hdr)
  <2>1. hdr = [b \in DOMAIN hdr |-> hdr[b]]
    BY DEF Init
  <2> QED BY <1>1, <2>1, FreeAssumption DEF Headers
<1>6. Linked(hdr, first)
  <2>1. first = 0 /\ Null # 0 /\ \A a \in DOMAIN hdr : a = 0
    BY <1>1 DEF Init, Null
  <2> QED BY <1>1, <2>1 DEF Linked
<1>7. ChunksApart(hdr) /\ BlocksApart(blk) /\ ChunksFromBlocks(hdr, blk)
  BY <1>1, <1>3 DEF ChunksApart, BlocksApart, ChunksFromBlocks
<1>8. {above, mangled} \subseteq BOOLEAN
  BY DEF Init
<1> QED BY <1>2, <1>4, <1>5, <1>6, <1>7, <1>8, Zenon DEF HeapInv

(* A chunk that leaves the list.                                            *)
LEMMA UnlinkKeeps ==
  ASSUME Ranked(hdr), Linked(hdr, first), Headers(hdr), NEW a \in Chunks
  PROVE  LET h == Unlink(hdr, a)
             f == IF a = first THEN hdr[a].next ELSE first
         IN  /\ DOMAIN h = Chunks \ {a}
             /\ \A b \in DOMAIN h :
                  /\ h[b].size = hdr[b].size
                  /\ h[b].next = IF b = hdr[a].prev THEN hdr[a].next ELSE hdr[b].next
             /\ Ranked(h) /\ Linked(h, f) /\ Headers(h)
<1> DEFINE h == Unlink(hdr, a)
           f == IF a = first THEN hdr[a].next ELSE first
           p == hdr[a].prev
           n == hdr[a].next
<1>1. DOMAIN h = Chunks \ {a}
  BY DEF Unlink, Chunks
<1>2. \A b \in DOMAIN h :
        /\ h[b].size = hdr[b].size
        /\ h[b].next = IF b = p THEN n ELSE hdr[b].next
        /\ h[b].prev = IF b = n THEN p ELSE hdr[b].prev
        /\ h[b] = [prev |-> h[b].prev, next |-> h[b].next, size |-> h[b].size]
  <2> SUFFICES ASSUME NEW b \in Chunks \ {a}
               PROVE  /\ h[b].size = hdr[b].size
                      /\ h[b].next = IF b = p THEN n ELSE hdr[b].next
                      /\ h[b].prev = IF b = n THEN p ELSE hdr[b].prev
                      /\ h[b] = [prev |-> h[b].prev, next |-> h[b].next,
                                 size |-> h[b].size]
    BY <1>1
  <2>1. h[b] = [hdr[b] EXCEPT !.next = IF b = p THEN n ELSE @,
                              !.prev = IF b = n THEN p ELSE @]
    BY DEF Unlink, Chunks
  <2>2. hdr[b] = [prev |-> hdr[b].prev, next |-> hdr[b].next, size |-> hdr[b].size]
    BY DEF Headers, Chunks
  <2> HIDE DEF h, p, n
  <2> QED BY <2>1, <2>2
<1>8. h = [b \in DOMAIN h |-> h[b]]
  BY DEF Unlink
<1> HIDE DEF h
<1>3. PICK rank \in [Chunks -> Nat] :
        \A b \in Chunks : hdr[b].next # Null => rank[b] < rank[hdr[b].next]
  BY DEF Ranked, Chunks
<1>4. n # a /\ p # a
  BY <1>3 DEF Linked, Chunks, Headers, Null
<1>5. Ranked(h)
  <2> DEFINE r == [b \in Chunks \ {a} |-> rank[b]]
  <2>1. r \in [DOMAIN h -> Nat]
    BY <1>1
  <2>2. ASSUME NEW b \in DOMAIN h, h[b].next # Null
        PROVE  r[b] < r[h[b].next]
    <3>1. CASE b = p
      <4>1. hdr[b].next = a /\ h[b].next = n /\ n \in Chunks \ {a}
        BY <3>1, <2>2, <1>1, <1>2, <1>4 DEF Linked, Chunks, Null, Headers
      <4>2. rank[b] < rank[a] /\ rank[a] < rank[n]
        BY <4>1, <2>2, <1>1, <1>3 DEF Linked, Chunks, Null, Headers
      <4>3. rank[b] \in Nat /\ rank[a] \in Nat /\ rank[n] \in Nat
        BY <4>1, <2>2, <1>1, <1>3
      <4>4. rank[b] < rank[n]
        BY <4>2, <4>3
      <4> QED BY <4>1, <4>4, <2>2, <1>1
    <3>2. CASE b # p
      <4>1. h[b].next = hdr[b].next /\ hdr[b].next \in Chunks
        BY <3>2, <2>2, <1>1, <1>2 DEF Linked, Chunks
      <4>2. hdr[b].next # a
        BY <4>1, <3>2, <2>2, <1>1 DEF Linked, Chunks
      <4> QED BY <4>1, <4>2, <2>2, <1>1, <1>3
    <3> QED BY <3>1, <3>2
  <2> HIDE DEF r
  <2> QED BY <2>1, <2>2 DEF Ranked
<1>6. Linked(h, f)
  BY <1>1, <1>2, <1>4 DEF Linked, Chunks, Null, Headers
<1>7. Headers(h)
  BY <1>1, <1>2, <1>8 DEF Headers, Chunks
<1> QED BY <1>1, <1>2, <1>5, <1>6, <1>7 DEF h

(* Only the size of a chunk changes.                                        *)
LEMMA ResizeKeeps ==
  ASSUME NEW h, NEW f, NEW a \in DOMAIN h, NEW s \in Nat,
         Ranked(h), Linked(h, f), Headers(h), HdrSize <= s, a + s <= MaxFree
  PROVE  /\ DOMAIN Resize(h, a, s) = DOMAIN h /\ Resize(h, a, s)[a].size = s
         /\ \A b \in DOMAIN h : /\ b # a => Resize(h, a, s)[b] = h[b]
                                /\ Resize(h, a, s)[b].next = h[b].next
         /\ Ranked(Resize(h, a, s)) /\ Linked(Resize(h, a, s), f)
         /\ Headers(Resize(h, a, s))
<1> DEFINE g == [h EXCEPT ![a].size = s]
<1>1. h[a] = [prev |-> h[a].prev, next |-> h[a].next, size |-> h[a].size]
  BY DEF Headers
<1>2. DOMAIN g = DOMAIN h
  OBVIOUS
<1>3. g[a] = [prev |-> h[a].prev, next |-> h[a].next, size |-> s]
  <2>1. g[a] = [h[a] EXCEPT !.size = s]
    OBVIOUS
  <2> HIDE DEF g
  <2> QED BY <2>1, <1>1
<1>4. \A b \in DOMAIN h : b # a => g[b] = h[b]
  OBVIOUS
<1>9. g = [b \in DOMAIN g |-> g[b]]
  OBVIOUS
<1>10. Resize(h, a, s) = g
  BY DEF Resize
<1> HIDE DEF g
<1>5. \A b \in DOMAIN h : g[b].prev = h[b].prev /\ g[b].next = h[b].next
  BY <1>3, <1>4
<1>6. Ranked(g)
  BY <1>2, <1>5 DEF Ranked
<1>7. Linked(g, f)
  BY <1>2, <1>5 DEF Linked
<1>8. Headers(g)
  BY <1>2, <1>3, <1>4, <1>9 DEF Headers
<1> QED BY <1>2, <1>3, <1>4, <1>5, <1>6, <1>7, <1>8, <1>10

(* A new header between a chunk and its next one: what it looks like.       *)
Inserted(h, at, size, p) ==
  /\ DOMAIN h = Chunks \cup {at} /\ h = [b \in DOMAIN h |-> h[b]]
  /\ h[at] = [prev |-> p, next |-> hdr[p].next, size |-> size]
  /\ \A b \in Chunks :
       /\ h[b].size = hdr[b].size
       /\ h[b].next = IF b = p THEN at ELSE hdr[b].next
       /\ h[b].prev = IF b = hdr[p].next THEN at ELSE hdr[b].prev
       /\ h[b] = [prev |-> h[b].prev, next |-> h[b].next, size |-> h[b].size]

LEMMA NextIsAnother ==
  ASSUME Ranked(hdr), Linked(hdr, first), Headers(hdr), NEW p \in Chunks
  PROVE  hdr[p].next # p
<1>1. PICK rank \in [Chunks -> Nat] :
        \A b \in Chunks : hdr[b].next # Null => rank[b] < rank[hdr[b].next]
  BY DEF Ranked, Chunks
<1> QED BY <1>1 DEF Linked, Chunks, Headers, Null

LEMMA InsertGives ==
  ASSUME Ranked(hdr), Linked(hdr, first), Headers(hdr),
         NEW at \in Nat, NEW size \in Nat, NEW p \in Chunks, at \notin Chunks
  PROVE  Inserted(Insert(hdr, at, size, p), at, size, p)
<1> DEFINE n == hdr[p].next
           h == Insert(hdr, at, size, p)
<1>1. DOMAIN h = Chunks \cup {at} /\ h = [b \in DOMAIN h |-> h[b]]
  BY DEF Insert, Chunks
<1>2. h[at] = [prev |-> p, next |-> n, size |-> size]
  BY DEF Insert
<1>3. ASSUME NEW b \in Chunks
      PROVE  /\ h[b].size = hdr[b].size
             /\ h[b].next = IF b = p THEN at ELSE hdr[b].next
             /\ h[b].prev = IF b = n THEN at ELSE hdr[b].prev
             /\ h[b] = [prev |-> h[b].prev, next |-> h[b].next, size |-> h[b].size]
  <2>1. h[b] = IF b = p THEN [hdr[b] EXCEPT !.next = at]
               ELSE IF b = n THEN [hdr[b] EXCEPT !.prev = at] ELSE hdr[b]
    BY DEF Insert, Chunks
  <2>2. hdr[b] = [prev |-> hdr[b].prev, next |-> hdr[b].next, size |-> hdr[b].size]
    BY DEF Headers, Chunks
  <2>3. n # p
    BY NextIsAnother
  <2> HIDE DEF n, h
  <2> QED BY <2>1, <2>2, <2>3
<1> HIDE DEF h
<1> QED BY <1>1, <1>2, <1>3 DEF Inserted, h

LEMMA InsertKeeps ==
  ASSUME Ranked(hdr), Linked(hdr, first), Headers(hdr),
         NEW at \in Nat, NEW size \in Nat, NEW p \in Chunks,
         at \notin Chunks, HdrSize <= size, at + size <= MaxFree,
         NEW h, Inserted(h, at, size, p)
  PROVE  Ranked(h) /\ Linked(h, first) /\ Headers(h)
<1> DEFINE n == hdr[p].next
<1>1. DOMAIN h = Chunks \cup {at}
  BY DEF Inserted
<1>2. h[at] = [prev |-> p, next |-> n, size |-> size]
  BY DEF Inserted
<1>3. PICK rank \in [Chunks -> Nat] :
        \A b \in Chunks : hdr[b].next # Null => rank[b] < rank[hdr[b].next]
  BY DEF Ranked, Chunks
<1>4. n # p
  BY NextIsAnother
<1>5. \A b \in Chunks :
        /\ h[b].size = hdr[b].size
        /\ h[b].next = IF b = p THEN at ELSE hdr[b].next
        /\ h[b].prev = IF b = n THEN at ELSE hdr[b].prev
  BY DEF Inserted
<1>11. \A b \in Chunks :
        h[b] = [prev |-> h[b].prev, next |-> h[b].next, size |-> h[b].size]
  BY DEF Inserted
<1>6. h = [b \in DOMAIN h |-> h[b]]
  BY DEF Inserted
<1>7. Ranked(h)
  <2> DEFINE r == [b \in Chunks \cup {at} |->
                     IF b = at THEN 2 * rank[p] + 1 ELSE 2 * rank[b]]
  <2>1. r \in [DOMAIN h -> Nat]
    BY <1>1
  <2>2. ASSUME NEW b \in DOMAIN h, h[b].next # Null
        PROVE  r[b] < r[h[b].next]
    <3>1. CASE b = at
      <4>1. h[b].next = n /\ n \in Chunks
        BY <3>1, <2>2, <1>2 DEF Linked, Chunks
      <4>2. rank[p] < rank[n] /\ rank[p] \in Nat /\ rank[n] \in Nat
        BY <4>1, <3>1, <2>2, <1>3
      <4>3. 2 * rank[p] + 1 < 2 * rank[n]
        BY <4>2
      <4> QED BY <4>1, <4>3, <3>1
    <3>2. CASE b = p
      <4>1. h[b].next = at
        BY <3>2, <1>5
      <4>2. rank[p] \in Nat
        BY <1>3
      <4> QED BY <4>1, <4>2, <3>2
    <3>3. CASE b # at /\ b # p
      <4>1. h[b].next = hdr[b].next /\ hdr[b].next \in Chunks /\ b \in Chunks
        BY <3>3, <2>2, <1>1, <1>5 DEF Linked, Chunks
      <4>2. rank[b] < rank[hdr[b].next] /\ rank[b] \in Nat
            /\ rank[hdr[b].next] \in Nat
        BY <4>1, <2>2, <1>3
      <4> QED BY <4>1, <4>2, <3>3
    <3> QED BY <3>1, <3>2, <3>3
  <2> HIDE DEF r
  <2> QED BY <2>1, <2>2 DEF Ranked
<1> HIDE DEF n
<1>8. n \in Chunks \cup {Null} /\ (n # Null => hdr[n].prev = p)
  BY DEF Linked, Chunks, n
<1>9. Linked(h, first)
  <2>1. at # Null /\ Null \notin Chunks
    BY DEF Headers, Chunks, Null
  <2>2. \A b \in Chunks :
          /\ hdr[b].prev \in Chunks \cup {Null} /\ hdr[b].next \in Chunks \cup {Null}
          /\ hdr[b].next # Null => hdr[hdr[b].next].prev = b
          /\ hdr[b].prev # Null => hdr[hdr[b].prev].next = b
          /\ hdr[b].prev = Null <=> b = first
    BY DEF Linked, Chunks
  <2>3. hdr[p].next = n
    BY DEF n
  <2>6. first \in Chunks \cup {Null}
    BY DEF Linked, Chunks
  <2>4. ASSUME NEW b \in Chunks
        PROVE  /\ h[b].prev \in Chunks \cup {at, Null}
               /\ h[b].next \in Chunks \cup {at, Null}
               /\ h[b].next # Null => h[h[b].next].prev = b
               /\ h[b].prev # Null => h[h[b].prev].next = b
               /\ h[b].prev = Null <=> b = first
    <3>1. h[b].next # Null => h[h[b].next].prev = b
      <4>1. CASE b = p
        BY <4>1, <1>2, <1>5
      <4>2. CASE b # p
        BY <4>2, <2>1, <2>2, <2>3, <1>5
      <4> QED BY <4>1, <4>2
    <3>2. h[b].prev # Null => h[h[b].prev].next = b
      <4>1. CASE b = n
        BY <4>1, <1>2, <1>5
      <4>2. CASE b # n
        BY <4>2, <2>1, <2>2, <2>3, <1>5
      <4> QED BY <4>1, <4>2
    <3>3. h[b].prev = Null <=> b = first
      BY <2>1, <2>2, <2>3, <1>5, <1>8
    <3> QED BY <3>1, <3>2, <3>3, <2>2, <1>5
  <2>5. /\ h[at].prev \in Chunks /\ h[at].next \in Chunks \cup {Null}
        /\ h[at].next # Null => h[h[at].next].prev = at
        /\ h[h[at].prev].next = at
        /\ h[at].prev # Null /\ at # first
    <3>1. h[at].prev = p /\ h[at].next = n
      BY <1>2
    <3>2. p # Null
      BY <2>1
    <3>3. at # first
      BY <2>1, <2>6
    <3>4. n # Null => h[n].prev = at
      BY <1>5, <1>8
    <3>5. h[p].next = at
      BY <1>5
    <3> QED BY <3>1, <3>2, <3>3, <3>4, <3>5, <1>8
  <2> QED BY <1>1, <2>4, <2>5, <2>6 DEF Linked
<1>10. Headers(h)
  BY <1>1, <1>2, <1>5, <1>6, <1>11 DEF Headers, Chunks
<1> QED BY <1>7, <1>9, <1>10

------------------------------------------------------------------------------
LEMMA BlockAdded ==
  ASSUME BlocksOf(blk), NEW n \in Nat, NEW x \in Nat, x + Footprint(n) <= MaxFree,
         Block(x, n)
  PROVE  /\ BlocksOf(blk')
         /\ DOMAIN blk' = DOMAIN blk \cup {x} /\ blk'[x] = n
         /\ \A b \in DOMAIN blk : b # x => blk'[b] = blk[b]
         /\ UNCHANGED <<above, mangled>>
<1>1. blk' = [b \in DOMAIN blk \cup {x} |-> IF b = x THEN n ELSE blk[b]]
      /\ UNCHANGED <<above, mangled>>
  BY DEF Block
<1> QED BY <1>1 DEF BlocksOf

LEMMA AllocStep ==
  ASSUME HeapInv, NEW n \in Requests, Alloc(n)
  PROVE  HeapInv'
<1> DEFINE F == Footprint(n)
<1>1. n \in Nat /\ F \in Nat /\ HdrSize <= F /\ 0 < F
  <2>1. n \in Nat
    BY RequestsAssumption
  <2> QED BY <2>1, FootprintRange
<1>2. ~mangled
  BY DEF Alloc
<1>3. PICK a \in Chunks : /\ hdr[a].size >= F
                          /\ AllocWhole(a, n) \/ AllocCut(a, n)
  BY DEF Alloc, Foremost
<1> HIDE DEF F
<1>4. /\ Ranked(hdr) /\ Linked(hdr, first) /\ Headers(hdr) /\ BlocksOf(blk)
      /\ ChunksApart(hdr) /\ BlocksApart(blk) /\ ChunksFromBlocks(hdr, blk)
      /\ above \in BOOLEAN
  BY <1>2 DEF HeapInv
<1>5. /\ a \in Nat /\ hdr[a].size \in Nat /\ a + hdr[a].size <= MaxFree
      /\ HdrSize <= hdr[a].size
  BY <1>4 DEF Headers, Chunks
<1>6. \A b \in DOMAIN blk :
        /\ b \in Nat /\ Footprint(blk[b]) \in Nat
        /\ 0 < Footprint(blk[b])
        /\ ApartFromChunks(hdr, b, Footprint(blk[b]))
  BY <1>4, FootprintRange DEF BlocksOf, ChunksFromBlocks
<1>7. \A b \in Chunks : b \in Nat /\ hdr[b].size \in Nat /\ 0 < hdr[b].size
  BY <1>4, FreeAssumption DEF Headers, Chunks
<1>8. CASE AllocWhole(a, n)
  <2>1. /\ hdr' = Unlink(hdr, a) /\ first' = IF a = first THEN hdr[a].next ELSE first
        /\ Block(a, n)
    BY <1>8 DEF AllocWhole
  <2>2. /\ DOMAIN hdr' = Chunks \ {a}
        /\ \A b \in DOMAIN hdr' : hdr'[b].size = hdr[b].size
        /\ Ranked(hdr') /\ Linked(hdr', first') /\ Headers(hdr')
    BY <2>1, <1>4, UnlinkKeeps
  <2>3. a + F <= MaxFree
    BY <1>1, <1>3, <1>5, FreeAssumption
  <2>4. /\ BlocksOf(blk') /\ DOMAIN blk' = DOMAIN blk \cup {a} /\ blk'[a] = n
        /\ \A b \in DOMAIN blk : b # a => blk'[b] = blk[b]
        /\ UNCHANGED <<above, mangled>>
    BY <2>1, <2>3, <1>1, <1>4, <1>5, BlockAdded DEF F
  <2>5. ChunksApart(hdr')
    BY <2>2, <1>4 DEF ChunksApart, Chunks
  <2>6. ASSUME NEW b \in DOMAIN blk
        PROVE  /\ b # a
               /\ b < a => b + Footprint(blk[b]) <= a
               /\ a < b => a + F <= b
    BY <1>1, <1>3, <1>5, <1>6 DEF ApartFromChunks, Chunks
  <2>7. BlocksApart(blk')
    BY <2>4, <2>6, <1>4, <1>5 DEF BlocksApart, F
  <2>8. ApartFromChunks(hdr', a, F)
    BY <2>2, <1>1, <1>3, <1>4, <1>5, <1>7 DEF ApartFromChunks, ChunksApart, Chunks
  <2>9. ChunksFromBlocks(hdr', blk')
    <3>1. ASSUME NEW b \in DOMAIN blk
          PROVE  ApartFromChunks(hdr', b, Footprint(blk[b]))
      BY <2>2, <1>6 DEF ApartFromChunks, Chunks
    <3> QED BY <3>1, <2>4, <2>6, <2>8 DEF ChunksFromBlocks, F
  <2> QED BY <2>2, <2>4, <2>5, <2>7, <2>9, <1>2, <1>4 DEF HeapInv
<1>9. CASE AllocCut(a, n)
  <2> DEFINE s == hdr[a].size - F
             x == a + hdr[a].size - F
  <2>1. /\ s >= HdrSize
        /\ hdr' = Resize(hdr, a, s) /\ first' = first
        /\ Block(x, n)
    BY <1>9 DEF AllocCut, F
  <2>2. s \in Nat /\ x \in Nat /\ a + s = x /\ x + F = a + hdr[a].size /\ a < x
    BY <2>1, <1>1, <1>3, <1>5, FreeAssumption
  <2> HIDE DEF s, x
  <2>3. /\ DOMAIN hdr' = Chunks /\ hdr'[a].size = s
        /\ \A b \in Chunks : b # a => hdr'[b] = hdr[b]
        /\ Ranked(hdr') /\ Linked(hdr', first') /\ Headers(hdr')
    <3>1. a + s <= MaxFree /\ HdrSize <= s
      BY <2>1, <2>2, <1>1, <1>5, FreeAssumption
    <3>2. /\ DOMAIN hdr' = DOMAIN hdr /\ hdr'[a].size = s
          /\ \A b \in DOMAIN hdr : b # a => hdr'[b] = hdr[b]
          /\ Ranked(hdr') /\ Linked(hdr', first) /\ Headers(hdr')
      BY <3>1, <2>1, <2>2, <1>4, ResizeKeeps DEF Chunks
    <3> QED BY <3>2, <2>1 DEF Chunks
  <2>4. /\ BlocksOf(blk') /\ DOMAIN blk' = DOMAIN blk \cup {x} /\ blk'[x] = n
        /\ \A b \in DOMAIN blk : b # x => blk'[b] = blk[b]
        /\ UNCHANGED <<above, mangled>>
    BY <2>1, <2>2, <1>1, <1>4, <1>5, BlockAdded DEF F
  <2>5. ChunksApart(hdr')
    BY <2>2, <2>3, <1>1, <1>4, <1>5, <1>7 DEF ChunksApart, Chunks
  <2>6. ASSUME NEW b \in DOMAIN blk
        PROVE  /\ b # x
               /\ b < x => b + Footprint(blk[b]) <= x
               /\ x < b => x + F <= b
    <3>1. a # b /\ (a < b => a + hdr[a].size <= b)
          /\ (b < a => b + Footprint(blk[b]) <= a)
      BY <1>3, <1>6 DEF ApartFromChunks, Chunks
    <3> QED BY <3>1, <2>2, <1>1, <1>5, <1>6
  <2>7. BlocksApart(blk')
    BY <2>2, <2>4, <2>6, <1>4 DEF BlocksApart, F
  <2>8. ApartFromChunks(hdr', x, F)
    <3> SUFFICES ASSUME NEW y \in Chunks
                 PROVE  /\ y # x /\ (y < x => y + hdr'[y].size <= x)
                        /\ (x < y => x + F <= y)
      BY <2>3 DEF ApartFromChunks
    <3>1. CASE y = a
      BY <3>1, <2>2, <2>3, <1>5
    <3>2. CASE y # a
      <4>1. y < a => y + hdr[y].size <= a
        BY <1>4, <1>3 DEF ChunksApart, Chunks
      <4>2. a < y => a + hdr[a].size <= y
        BY <1>4, <1>3 DEF ChunksApart, Chunks
      <4> QED BY <4>1, <4>2, <3>2, <2>2, <2>3, <1>1, <1>5, <1>7
    <3> QED BY <3>1, <3>2
  <2>9. ChunksFromBlocks(hdr', blk')
    <3>1. ASSUME NEW b \in DOMAIN blk
          PROVE  ApartFromChunks(hdr', b, Footprint(blk[b]))
      <4> SUFFICES ASSUME NEW y \in Chunks
                   PROVE  /\ y # b /\ (y < b => y + hdr'[y].size <= b)
                          /\ (b < y => b + Footprint(blk[b]) <= y)
        BY <2>3 DEF ApartFromChunks
      <4>1. /\ y # b /\ (y < b => y + hdr[y].size <= b)
            /\ (b < y => b + Footprint(blk[b]) <= y)
        BY <1>6 DEF ApartFromChunks, Chunks
      <4>2. y = a => hdr'[y].size <= hdr[y].size
        BY <2>2, <2>3, <1>1, <1>5
      <4> QED BY <4>1, <4>2, <2>2, <2>3, <1>1, <1>5, <1>6, <1>7
    <3> QED BY <3>1, <2>4, <2>6, <2>8 DEF ChunksFromBlocks, F
  <2> QED BY <2>3, <2>4, <2>5, <2>7, <2>9, <1>2, <1>4 DEF HeapInv
<1> QED BY <1>3, <1>8, <1>9

------------------------------------------------------------------------------
(* What free_internal does to the list, and to bytes apart from the chunk.  *)
ListKept(at, size) ==
  /\ Ranked(hdr') /\ Linked(hdr', first') /\ Headers(hdr')
  /\ mangled' \in BOOLEAN
  /\ ~mangled' =>
       /\ ChunksApart(hdr')
       /\ \A x \in Nat :
            InChunk(hdr', x) <=> InChunk(hdr, x) \/ (at <= x /\ x < at + size)
       /\ \A x, s \in Nat :
            /\ ApartFromChunks(hdr, x, s)
            /\ x # at /\ (x < at => x + s <= at) /\ (at < x => at + size <= x)
            => ApartFromChunks(hdr', x, s)

FreeFacts(at, size) ==
  /\ Ranked(hdr) /\ Linked(hdr, first) /\ Headers(hdr) /\ ChunksApart(hdr)
  /\ HdrSize <= size /\ 0 < size /\ at + size <= MaxFree
  /\ ApartFromChunks(hdr, at, size)
  /\ mangled \in BOOLEAN

LEMMA ChunkRanges ==
  ASSUME Headers(hdr)
  PROVE  \A b \in Chunks : b \in Nat /\ hdr[b].size \in Nat /\ 0 < hdr[b].size
  BY FreeAssumption DEF Headers, Chunks

LEMMA AloneKeeps ==
  ASSUME NEW at \in Nat, NEW size \in Nat, FreeFacts(at, size),
         FreeAlone(at, size)
  PROVE  ListKept(at, size)
<1> DEFINE new == [prev |-> Null, next |-> Null, size |-> size]
<1>1. /\ hdr' = [b \in Chunks \cup {at} |-> IF b = at THEN new ELSE hdr[b]]
      /\ first = Null /\ first' = at /\ mangled' = mangled
  BY DEF FreeAlone
<1>2. new.prev = Null /\ new.next = Null /\ new.size = size
  OBVIOUS
<1>3. new = [prev |-> new.prev, next |-> new.next, size |-> new.size]
  OBVIOUS
<1> HIDE DEF new
<1>4. at \notin Chunks /\ at # Null
  BY DEF FreeFacts, ApartFromChunks, Chunks, Null
<1>5. DOMAIN hdr' = Chunks \cup {at} /\ hdr'[at] = new
      /\ \A b \in Chunks : hdr'[b] = hdr[b]
  BY <1>1, <1>4
<1>6. Ranked(hdr')
  <2>1. PICK rank \in [Chunks -> Nat] :
          \A b \in Chunks : hdr[b].next # Null => rank[b] < rank[hdr[b].next]
    BY DEF FreeFacts, Ranked, Chunks
  <2> DEFINE r == [b \in Chunks \cup {at} |-> IF b = at THEN 0 ELSE rank[b]]
  <2>2. r \in [DOMAIN hdr' -> Nat]
    BY <1>5
  <2>3. \A b \in DOMAIN hdr' : hdr'[b].next # Null => r[b] < r[hdr'[b].next]
    <3> SUFFICES ASSUME NEW b \in Chunks, hdr[b].next # Null
                 PROVE  r[b] < r[hdr[b].next]
      BY <1>2, <1>5
    <3>1. hdr[b].next \in Chunks /\ rank[b] < rank[hdr[b].next]
      BY <2>1 DEF FreeFacts, Linked, Chunks
    <3> QED BY <3>1, <1>4
  <2> HIDE DEF r
  <2> QED BY <2>2, <2>3 DEF Ranked
<1>7. Linked(hdr', first')
  <2>1. \A b \in Chunks :
          /\ hdr[b].prev \in Chunks /\ hdr[b].next \in Chunks \cup {Null}
          /\ hdr[b].next # Null => hdr[hdr[b].next].prev = b
          /\ hdr[hdr[b].prev].next = b
          /\ b # Null
    BY <1>1 DEF FreeFacts, Linked, Headers, Chunks, Null
  <2> QED BY <2>1, <1>1, <1>2, <1>4, <1>5 DEF Linked
<1>8. Headers(hdr')
  <2>1. hdr' = [b \in DOMAIN hdr' |-> hdr'[b]]
    BY <1>1, <1>5
  <2> QED BY <2>1, <1>2, <1>3, <1>5 DEF FreeFacts, Headers, Chunks
<1>9. ChunksApart(hdr')
  BY <1>2, <1>5 DEF FreeFacts, ChunksApart, ApartFromChunks, Chunks
<1>10. ASSUME NEW x \in Nat, NEW s \in Nat, ApartFromChunks(hdr, x, s),
              x # at, x < at => x + s <= at, at < x => at + size <= x
       PROVE  ApartFromChunks(hdr', x, s)
  BY <1>10, <1>2, <1>5 DEF ApartFromChunks, Chunks
<1>11. ASSUME NEW x \in Nat
       PROVE  InChunk(hdr', x) <=> InChunk(hdr, x) \/ (at <= x /\ x < at + size)
  BY <1>2, <1>5 DEF InChunk, Chunks
<1> QED BY <1>1, <1>6, <1>7, <1>8, <1>9, <1>10, <1>11 DEF ListKept, FreeFacts

LEMMA LinkKeeps ==
  ASSUME NEW at \in Nat, NEW size \in Nat, FreeFacts(at, size),
         NEW p \in Chunks, LinkNew(at, size, p)
  PROVE  ListKept(at, size)
<1>1. first' = first /\ mangled' = mangled
  BY DEF LinkNew
<1>2. at \notin Chunks
  BY DEF FreeFacts, ApartFromChunks, Chunks
<1>3. /\ DOMAIN hdr' = Chunks \cup {at} /\ hdr'[at].size = size
      /\ \A b \in Chunks : hdr'[b].size = hdr[b].size
      /\ Ranked(hdr') /\ Linked(hdr', first) /\ Headers(hdr')
  <2>1. hdr' = Insert(hdr, at, size, p)
    BY DEF LinkNew
  <2>2. /\ Ranked(hdr) /\ Linked(hdr, first) /\ Headers(hdr)
        /\ HdrSize <= size /\ at + size <= MaxFree
    BY DEF FreeFacts
  <2>3. Inserted(hdr', at, size, p)
    BY <2>1, <2>2, <1>2, InsertGives
  <2>4. Ranked(hdr') /\ Linked(hdr', first) /\ Headers(hdr')
    BY <2>2, <2>3, <1>2, InsertKeeps
  <2> QED BY <2>3, <2>4 DEF Inserted
<1>4. ChunksApart(hdr')
  BY <1>3 DEF FreeFacts, ChunksApart, ApartFromChunks, Chunks
<1>5. ASSUME NEW x \in Nat, NEW s \in Nat, ApartFromChunks(hdr, x, s),
             x # at, x < at => x + s <= at, at < x => at + size <= x
      PROVE  ApartFromChunks(hdr', x, s)
  BY <1>5, <1>3 DEF ApartFromChunks, Chunks
<1>6. ASSUME NEW x \in Nat
      PROVE  InChunk(hdr', x) <=> InChunk(hdr, x) \/ (at <= x /\ x < at + size)
  BY <1>3 DEF InChunk, Chunks
<1> QED BY <1>1, <1>3, <1>4, <1>5, <1>6 DEF ListKept, FreeFacts

LEMMA PrevKeeps ==
  ASSUME NEW at \in Nat, NEW size \in Nat, FreeFacts(at, size),
         NEW p \in Chunks, MergePrev(at, size, p)
  PROVE  ListKept(at, size)
<1> DEFINE s == hdr[p].size + size
<1>1. /\ hdr' = Resize(hdr, p, s) /\ first' = first /\ mangled' = mangled
      /\ p + hdr[p].size = at
  BY DEF MergePrev, ChunkEnd
<1>2. \A b \in Chunks : b \in Nat /\ hdr[b].size \in Nat /\ 0 < hdr[b].size
  BY ChunkRanges DEF FreeFacts
<1>3. s \in Nat /\ p + s = at + size /\ HdrSize <= s /\ p + s <= MaxFree
  BY <1>1, <1>2, FreeAssumption DEF FreeFacts
<1> HIDE DEF s
<1>4. /\ DOMAIN hdr' = Chunks /\ hdr'[p].size = s
      /\ \A b \in Chunks : b # p => hdr'[b] = hdr[b]
      /\ Ranked(hdr') /\ Linked(hdr', first') /\ Headers(hdr')
  BY <1>1, <1>3, ResizeKeeps DEF FreeFacts, Chunks
<1>5. ChunksApart(hdr')
  <2> SUFFICES ASSUME NEW x \in Chunks, NEW y \in Chunks, x < y
               PROVE  x + hdr'[x].size <= y
    BY <1>4 DEF ChunksApart
  <2>1. x + hdr[x].size <= y /\ y # at /\ (at < y => at + size <= y)
    BY DEF FreeFacts, ChunksApart, ApartFromChunks, Chunks
  <2>2. CASE x = p
    BY <2>1, <2>2, <1>1, <1>2, <1>3, <1>4
  <2>3. CASE x # p
    BY <2>1, <2>3, <1>4
  <2> QED BY <2>2, <2>3
<1>6. ASSUME NEW x \in Nat, NEW t \in Nat, ApartFromChunks(hdr, x, t),
             x # at, x < at => x + t <= at, at < x => at + size <= x
      PROVE  ApartFromChunks(hdr', x, t)
  <2> SUFFICES ASSUME NEW y \in Chunks
               PROVE  /\ y # x /\ (y < x => y + hdr'[y].size <= x)
                      /\ (x < y => x + t <= y)
    BY <1>4 DEF ApartFromChunks
  <2>1. y # x /\ (y < x => y + hdr[y].size <= x) /\ (x < y => x + t <= y)
    BY <1>6 DEF ApartFromChunks, Chunks
  <2>2. CASE y = p
    BY <2>1, <2>2, <1>1, <1>2, <1>3, <1>4, <1>6
  <2>3. CASE y # p
    BY <2>1, <2>3, <1>4
  <2> QED BY <2>2, <2>3
<1>7. ASSUME NEW x \in Nat
      PROVE  InChunk(hdr', x) <=> InChunk(hdr, x) \/ (at <= x /\ x < at + size)
  <2>1. (p <= x /\ x < p + s) <=>
          (p <= x /\ x < p + hdr[p].size) \/ (at <= x /\ x < at + size)
    BY <1>1, <1>2, <1>3
  <2> QED BY <2>1, <1>4 DEF InChunk, Chunks
<1> QED BY <1>1, <1>4, <1>5, <1>6, <1>7 DEF ListKept, FreeFacts

LEMMA BothKeeps ==
  ASSUME NEW at \in Nat, NEW size \in Nat, FreeFacts(at, size),
         NEW p \in Chunks, MergeBoth(at, size, p)
  PROVE  ListKept(at, size)
<1> DEFINE n == hdr[p].next
           h == Unlink(hdr, n)
           s == hdr[p].size + size + hdr[n].size
<1>1. /\ hdr' = Resize(h, p, s) /\ first' = first /\ mangled' = mangled
      /\ p + hdr[p].size = at /\ n # Null /\ at + size = n
  BY DEF MergeBoth, ChunkEnd
<1>2. \A b \in Chunks : b \in Nat /\ hdr[b].size \in Nat /\ 0 < hdr[b].size
  BY ChunkRanges DEF FreeFacts
<1>3. n \in Chunks /\ hdr[n].prev = p
  BY <1>1 DEF FreeFacts, Linked, Chunks
<1> HIDE DEF n
<1>4. n # p /\ n # first
  <2>1. n # p
    BY <1>1, <1>2, <1>3 DEF FreeFacts
  <2>2. p # Null
    BY <1>2 DEF Null
  <2> QED BY <2>1, <2>2, <1>3 DEF FreeFacts, Linked, Chunks
<1>5. n + hdr[n].size <= MaxFree
  BY <1>3 DEF FreeFacts, Headers, Chunks
<1>6. s \in Nat /\ p + s = n + hdr[n].size /\ HdrSize <= s /\ p + s <= MaxFree
  BY <1>1, <1>2, <1>3, <1>5, FreeAssumption DEF FreeFacts
<1>7. /\ DOMAIN h = Chunks \ {n}
      /\ \A b \in DOMAIN h : h[b].size = hdr[b].size
      /\ Ranked(h) /\ Linked(h, first) /\ Headers(h)
  BY <1>3, <1>4, UnlinkKeeps DEF FreeFacts
<1> HIDE DEF h, s
<1>8. /\ DOMAIN hdr' = Chunks \ {n} /\ hdr'[p].size = s
      /\ \A b \in Chunks \ {n} : b # p => hdr'[b].size = hdr[b].size
      /\ Ranked(hdr') /\ Linked(hdr', first') /\ Headers(hdr')
  <2>1. p \in DOMAIN h
    BY <1>4, <1>7
  <2>2. /\ DOMAIN Resize(h, p, s) = DOMAIN h /\ Resize(h, p, s)[p].size = s
        /\ \A b \in DOMAIN h : /\ b # p => Resize(h, p, s)[b] = h[b]
                               /\ Resize(h, p, s)[b].next = h[b].next
        /\ Ranked(Resize(h, p, s)) /\ Linked(Resize(h, p, s), first)
        /\ Headers(Resize(h, p, s))
    BY <2>1, <1>6, <1>7, ResizeKeeps
  <2> QED BY <2>2, <1>1, <1>7
<1>9. ChunksApart(hdr')
  <2> SUFFICES ASSUME NEW x \in Chunks \ {n}, NEW y \in Chunks \ {n}, x < y
               PROVE  x + hdr'[x].size <= y
    BY <1>8 DEF ChunksApart
  <2>1. /\ x + hdr[x].size <= y /\ y # at /\ (at < y => at + size <= y)
        /\ (n < y => n + hdr[n].size <= y)
    BY <1>3 DEF FreeFacts, ChunksApart, ApartFromChunks, Chunks
  <2>2. CASE x = p
    BY <2>1, <2>2, <1>1, <1>2, <1>3, <1>6, <1>8
  <2>3. CASE x # p
    BY <2>1, <2>3, <1>8
  <2> QED BY <2>2, <2>3
<1>10. ASSUME NEW x \in Nat, NEW t \in Nat, ApartFromChunks(hdr, x, t),
              x # at, x < at => x + t <= at, at < x => at + size <= x
       PROVE  ApartFromChunks(hdr', x, t)
  <2> SUFFICES ASSUME NEW y \in Chunks \ {n}
               PROVE  /\ y # x /\ (y < x => y + hdr'[y].size <= x)
                      /\ (x < y => x + t <= y)
    BY <1>8 DEF ApartFromChunks
  <2>1. /\ y # x /\ (y < x => y + hdr[y].size <= x) /\ (x < y => x + t <= y)
        /\ n # x /\ (n < x => n + hdr[n].size <= x)
    BY <1>3, <1>10 DEF ApartFromChunks, Chunks
  <2>2. CASE y = p
    BY <2>1, <2>2, <1>1, <1>2, <1>3, <1>6, <1>8, <1>10
  <2>3. CASE y # p
    BY <2>1, <2>3, <1>8
  <2> QED BY <2>2, <2>3
<1>11. ASSUME NEW x \in Nat
       PROVE  InChunk(hdr', x) <=> InChunk(hdr, x) \/ (at <= x /\ x < at + size)
  <2>1. (p <= x /\ x < p + s) <=>
          \/ p <= x /\ x < p + hdr[p].size
          \/ n <= x /\ x < n + hdr[n].size
          \/ at <= x /\ x < at + size
    BY <1>1, <1>2, <1>3, <1>6
  <2> QED BY <2>1, <1>3, <1>4, <1>8 DEF InChunk, Chunks
<1> QED BY <1>1, <1>8, <1>9, <1>10, <1>11 DEF ListKept, FreeFacts

LEMMA FreeKeeps ==
  ASSUME NEW at \in Nat, NEW size \in Nat, FreeFacts(at, size),
         FreeInternal(at, size)
  PROVE  ListKept(at, size)
<1>1. CASE FreeAlone(at, size)
  BY <1>1, AloneKeeps
<1>2. ASSUME NEW p \in Chunks,
             \/ MergeBoth(at, size, p) \/ MergePrev(at, size, p)
             \/ MergeNext(at, size, p) \/ LinkNew(at, size, p)
      PROVE  ListKept(at, size)
  <2>1. CASE MergeNext(at, size, p)
    BY <2>1 DEF MergeNext, ListKept, FreeFacts
  <2> QED BY <2>1, <1>2, BothKeeps, PrevKeeps, LinkKeeps
<1> QED BY <1>1, <1>2 DEF FreeInternal

(* What is known of a block while the heap is sound.                        *)
LEMMA BlockFacts ==
  ASSUME HeapInv, ~mangled, NEW a \in DOMAIN blk
  PROVE  /\ a \in Nat /\ blk[a] \in Nat /\ Footprint(blk[a]) \in Nat
         /\ HdrSize <= Footprint(blk[a]) /\ 0 < Footprint(blk[a])
         /\ a + Footprint(blk[a]) <= MaxFree
         /\ ApartFromChunks(hdr, a, Footprint(blk[a]))
         /\ \A b \in DOMAIN blk :
              /\ b < a => b + Footprint(blk[b]) <= a
              /\ a < b => a + Footprint(blk[a]) <= b
<1>1. a \in Nat /\ blk[a] \in Nat /\ a + Footprint(blk[a]) <= MaxFree
  BY DEF HeapInv, BlocksOf
<1> QED BY <1>1, FootprintRange DEF HeapInv, ChunksFromBlocks, BlocksApart

LEMMA FreeStep ==
  ASSUME HeapInv, NEW a \in DOMAIN blk, Free(a)
  PROVE  HeapInv'
<1> DEFINE F(b) == Footprint(blk[b])
<1>1. ~mangled /\ FreeInternal(a, F(a))
      /\ blk' = [b \in DOMAIN blk \ {a} |-> blk[b]]
      /\ above' \in BOOLEAN
  BY DEF Free, FreeInternal
<1>2. /\ DOMAIN blk' = DOMAIN blk \ {a}
      /\ \A b \in DOMAIN blk' : blk'[b] = blk[b]
      /\ blk' = [b \in DOMAIN blk' |-> blk'[b]]
  BY <1>1
<1>3. FreeFacts(a, F(a)) /\ a \in Nat /\ F(a) \in Nat
  BY <1>1, BlockFacts DEF HeapInv, FreeFacts
<1> HIDE DEF F
<1>4. ListKept(a, F(a))
  BY <1>1, <1>3, FreeKeeps
<1>5. BlocksOf(blk')
  BY <1>2 DEF HeapInv, BlocksOf
<1>6. ASSUME ~mangled'
      PROVE  BlocksApart(blk') /\ ChunksFromBlocks(hdr', blk')
  <2>1. BlocksApart(blk')
    BY <1>1, <1>2 DEF HeapInv, BlocksApart
  <2>2. ASSUME NEW b \in DOMAIN blk'
        PROVE  ApartFromChunks(hdr', b, Footprint(blk'[b]))
    <3>1. b \in DOMAIN blk /\ b # a /\ blk'[b] = blk[b]
      BY <1>2
    <3>2. /\ b \in Nat /\ F(b) \in Nat /\ ApartFromChunks(hdr, b, F(b))
          /\ (b < a => b + F(b) <= a) /\ (a < b => a + F(a) <= b)
      BY <3>1, <1>1, BlockFacts DEF F
    <3>3. ApartFromChunks(hdr', b, F(b))
      BY <3>1, <3>2, <1>4, <1>6 DEF ListKept
    <3> QED BY <3>1, <3>3 DEF F
  <2> QED BY <2>1, <2>2 DEF ChunksFromBlocks
<1> QED BY <1>1, <1>4, <1>5, <1>6 DEF HeapInv, ListKept

LEMMA ShrinkStep ==
  ASSUME HeapInv, NEW a \in DOMAIN blk, NEW n \in Requests, Shrink(a, n)
  PROVE  HeapInv'
<1> DEFINE F == Footprint(blk[a])
           G == Footprint(n)
           at == a + G
           cut == F - G
<1>1. /\ ~mangled /\ HdrSize <= cut /\ FreeInternal(at, cut)
      /\ above' \in BOOLEAN
  BY DEF Shrink, FreeInternal
<1>2. blk' = [blk EXCEPT ![a] = n]
  BY DEF Shrink
<1>3. n \in Nat /\ G \in Nat /\ 0 < G
  BY RequestsAssumption, FootprintRange
<1>4. /\ DOMAIN blk' = DOMAIN blk /\ blk'[a] = n
      /\ \A b \in DOMAIN blk : b # a => blk'[b] = blk[b]
      /\ BlocksOf(blk')
  <2>1. blk = [b \in DOMAIN blk |-> blk[b]]
    BY DEF HeapInv, BlocksOf
  <2>2. /\ DOMAIN blk' = DOMAIN blk /\ blk' = [b \in DOMAIN blk' |-> blk'[b]]
        /\ \A b \in DOMAIN blk : b # a => blk'[b] = blk[b]
        /\ blk'[a] = n
    BY <1>2, <2>1
  <2>5. a \in Nat /\ F \in Nat /\ a + F <= MaxFree
    BY <1>1, BlockFacts
  <2>6. a + G <= MaxFree
    BY <2>5, <1>1, <1>3, FreeAssumption
  <2>7. BlocksOf(blk')
    BY <2>2, <2>5, <2>6, <1>3 DEF HeapInv, BlocksOf
  <2> QED BY <2>2, <2>7
<1>5. /\ a \in Nat /\ F \in Nat /\ a + F <= MaxFree
      /\ ApartFromChunks(hdr, a, F)
      /\ \A b \in DOMAIN blk : /\ b < a => b + Footprint(blk[b]) <= a
                               /\ a < b => a + F <= b
  BY <1>1, BlockFacts
<1>6. \A b \in DOMAIN blk :
        /\ b \in Nat /\ Footprint(blk[b]) \in Nat
        /\ ApartFromChunks(hdr, b, Footprint(blk[b]))
  BY <1>1, BlockFacts
<1> HIDE DEF F, G
<1>7. at \in Nat /\ cut \in Nat /\ 0 < cut /\ at + cut = a + F /\ a < at
  BY <1>1, <1>3, <1>5, FreeAssumption
<1> HIDE DEF at, cut
<1>8. \A b \in Chunks : b \in Nat /\ hdr[b].size \in Nat /\ 0 < hdr[b].size
  BY ChunkRanges DEF HeapInv
<1>9. FreeFacts(at, cut)
  <2>1. ApartFromChunks(hdr, at, cut)
    BY <1>5, <1>7, <1>8 DEF ApartFromChunks, Chunks
  <2> QED BY <2>1, <1>1, <1>5, <1>7 DEF FreeFacts, HeapInv
<1>10. ListKept(at, cut)
  BY <1>1, <1>7, <1>9, FreeKeeps
<1>11. ASSUME ~mangled'
       PROVE  BlocksApart(blk') /\ ChunksFromBlocks(hdr', blk')
  <2>1. at = a + G
    BY DEF at
  <2>2. BlocksApart(blk')
    <3> SUFFICES ASSUME NEW x \in DOMAIN blk, NEW y \in DOMAIN blk, x < y
                 PROVE  x + Footprint(blk'[x]) <= y
      BY <1>4 DEF BlocksApart
    <3>1. CASE x = a
      BY <3>1, <2>1, <1>3, <1>4, <1>5, <1>6, <1>7 DEF G
    <3>2. CASE x # a
      BY <3>2, <1>1, <1>4 DEF HeapInv, BlocksApart
    <3> QED BY <3>1, <3>2
  <2>3. ASSUME NEW b \in DOMAIN blk
        PROVE  ApartFromChunks(hdr', b, Footprint(blk'[b]))
    <3>1. CASE b = a
      <4>1. ApartFromChunks(hdr, a, G)
        BY <1>3, <1>5, <1>7, <1>8, <2>1 DEF ApartFromChunks, Chunks
      <4>2. ApartFromChunks(hdr', a, G)
        BY <4>1, <1>3, <1>5, <1>7, <1>10, <1>11, <2>1 DEF ListKept
      <4> QED BY <4>2, <3>1, <1>4 DEF G
    <3>2. CASE b # a
      <4> DEFINE B == Footprint(blk[b])
      <4>1. b \in Nat /\ B \in Nat /\ ApartFromChunks(hdr, b, B)
        BY <1>6
      <4>2. (b < a => b + B <= a) /\ (a < b => a + F <= b)
        BY <1>5
      <4> HIDE DEF B
      <4>3. b # at /\ (b < at => b + B <= at) /\ (at < b => at + cut <= b)
        BY <4>1, <4>2, <3>2, <1>3, <1>5, <1>7
      <4>4. ApartFromChunks(hdr', b, B)
        BY <4>1, <4>3, <1>7, <1>10, <1>11 DEF ListKept
      <4> QED BY <4>4, <3>2, <1>4 DEF B
    <3> QED BY <3>1, <3>2
  <2> QED BY <2>2, <2>3, <1>4 DEF ChunksFromBlocks
<1> QED BY <1>1, <1>4, <1>10, <1>11 DEF HeapInv, ListKept

------------------------------------------------------------------------------
LEMMA HeapStep == HeapInv /\ [Next]_vars => HeapInv'
<1> SUFFICES ASSUME HeapInv, [Next]_vars PROVE HeapInv'
  OBVIOUS
<1>1. CASE UNCHANGED vars
  <2>1. UNCHANGED <<hdr, first, blk, above, mangled>>
    BY <1>1 DEF vars
  <2> QED BY <2>1 DEF HeapInv
<1>2. CASE Next
  BY <1>2, AllocStep, FreeStep, ShrinkStep DEF Next
<1> QED BY <1>1, <1>2

LEMMA HeapInvariant == Spec => []HeapInv
  BY HeapInit, HeapStep, PTL DEF Spec

(* Every header and every block stays within the heap, and every link leads *)
(* to a header: free_internal and mem_alloc never follow a pointer into     *)
(* memory that is not a free chunk.                                         *)
THEOREM HeapType == Spec => []TypeOK
<1>1. HeapInv => TypeOK
  <2> SUFFICES ASSUME HeapInv PROVE TypeOK
    OBVIOUS
  <2>1. first \in Chunks \cup {Null}
    BY DEF HeapInv, Linked, Chunks
  <2>2. ASSUME NEW a \in Chunks
        PROVE  /\ a \in 0 .. MaxFree - 1 /\ hdr[a].size \in HdrSize .. MaxFree - a
               /\ {hdr[a].prev, hdr[a].next} \subseteq Chunks \cup {Null}
    <3>1. /\ a \in Nat /\ hdr[a].size \in Nat /\ HdrSize <= hdr[a].size
          /\ a + hdr[a].size <= MaxFree
      BY DEF HeapInv, Headers, Chunks
    <3>2. hdr[a].prev \in Chunks \cup {Null} /\ hdr[a].next \in Chunks \cup {Null}
      BY DEF HeapInv, Linked, Chunks
    <3> QED BY <3>1, <3>2, FreeAssumption
  <2>3. \A a \in DOMAIN blk : a \in Nat /\ a + Footprint(blk[a]) <= MaxFree
    BY DEF HeapInv, BlocksOf
  <2> QED BY <2>1, <2>2, <2>3 DEF TypeOK, HeapInv
<1> QED BY <1>1, HeapInvariant, PTL

(* No two of the blocks and free chunks overlap, for every heap, header     *)
(* size and sequence of calls, until a free merges with the next chunk      *)
(* only.                                                                    *)
THEOREM NothingOverlaps == Spec => []Apart
<1>1. HeapInv => Apart
  <2> SUFFICES ASSUME HeapInv, ~mangled PROVE Chunks \cap DOMAIN blk = {}
                 /\ \A a, b \in Chunks \cup DOMAIN blk : a < b => a + Size(a) <= b
    BY DEF Apart
  <2>1. /\ ChunksApart(hdr) /\ BlocksApart(blk) /\ ChunksFromBlocks(hdr, blk)
    BY DEF HeapInv
  <2>2. Chunks \cap DOMAIN blk = {}
    BY <2>1 DEF ChunksFromBlocks, ApartFromChunks, Chunks
  <2>3. ASSUME NEW a \in Chunks, NEW b \in Chunks \cup DOMAIN blk, a < b
        PROVE  a + Size(a) <= b
    BY <2>1, <2>3 DEF ChunksFromBlocks, ApartFromChunks, ChunksApart, Chunks, Size
  <2>4. ASSUME NEW a \in DOMAIN blk, NEW b \in Chunks \cup DOMAIN blk, a < b
        PROVE  a + Size(a) <= b
    BY <2>1, <2>2, <2>4
    DEF ChunksFromBlocks, ApartFromChunks, BlocksApart, Chunks, Size
  <2> QED BY <2>2, <2>3, <2>4
<1> QED BY <1>1, HeapInvariant, PTL

------------------------------------------------------------------------------
LEMMA Least ==
  ASSUME NEW S \in SUBSET Nat, S # {}
  PROVE  \E m \in S : \A n \in S : m <= n
<1>1. PICK m \in S : \A n \in S : <<n, m>> \notin OpToRel(<, Nat)
  BY WFMin, NatLessThanWellFounded, Zenon
<1>2. \A n \in S : ~(n < m)
  BY <1>1, Zenon DEF OpToRel
<1> QED BY <1>2

(* Every chunk is on the list: the lowest rank outside a set that is closed *)
(* under next would belong to a chunk whose prev is in it.                  *)
LEMMA AllAreListed ==
  ASSUME Ranked(hdr), Linked(hdr, first), Headers(hdr)
  PROVE  Listed = Chunks
<1>1. PICK rank \in [Chunks -> Nat] :
        \A b \in Chunks : hdr[b].next # Null => rank[b] < rank[hdr[b].next]
  BY DEF Ranked, Chunks
<1>2. \A b \in Chunks :
        /\ b # Null
        /\ hdr[b].prev \in Chunks \cup {Null} /\ hdr[b].next \in Chunks \cup {Null}
        /\ hdr[b].prev # Null => hdr[hdr[b].prev].next = b
        /\ hdr[b].prev = Null => b = first
  BY DEF Linked, Headers, Chunks, Null
<1>3. ASSUME NEW X \in SUBSET Chunks, first \in X \cup {Null}, Onward(X)
      PROVE  Chunks \subseteq X
  <2> DEFINE S == {rank[c] : c \in Chunks \ X}
  <2> SUFFICES ASSUME Chunks \ X # {} PROVE FALSE
    OBVIOUS
  <2>1. S \in SUBSET Nat /\ S # {}
    OBVIOUS
  <2>2. PICK m \in S : \A n \in S : m <= n
    <3> HIDE DEF S
    <3> QED BY <2>1, Least
  <2>3. PICK c \in Chunks \ X : m = rank[c]
    BY <2>2
  <2>4. \A d \in Chunks \ X : rank[c] <= rank[d]
    BY <2>2, <2>3
  <2>5. hdr[c].prev # Null
    BY <2>3, <1>2, <1>3
  <2> DEFINE d == hdr[c].prev
  <2>6. d \in Chunks /\ hdr[d].next = c /\ c # Null
    BY <2>3, <2>5, <1>2
  <2> HIDE DEF d
  <2>7. rank[d] < rank[c] /\ rank[d] \in Nat /\ rank[c] \in Nat
    BY <2>3, <2>6, <1>1
  <2>8. d \in X
    BY <2>4, <2>6, <2>7
  <2> QED BY <2>3, <2>6, <2>8, <1>3 DEF Onward
<1> QED BY <1>3 DEF Listed, Reached

------------------------------------------------------------------------------
(* Counting bytes.                                                          *)
AllBytes == 0 .. MaxFree - 1
FreeBytes(h) == {x \in AllBytes : InChunk(h, x)}
BlockBytes(b) == {x \in AllBytes : InBlock(b, x)}

Counted ==
  /\ lost \in Nat
  /\ ~mangled =>
       /\ free_total = Cardinality(FreeBytes(hdr))
       /\ free_total + Cardinality(BlockBytes(blk)) + lost = MaxFree

LEMMA BytesAreFinite ==
  ASSUME NEW S \in SUBSET AllBytes
  PROVE  IsFiniteSet(S) /\ Cardinality(S) \in Nat
<1>1. IsFiniteSet(AllBytes)
  BY FreeAssumption, FS_Interval DEF AllBytes
<1>2. IsFiniteSet(S)
  BY <1>1, FS_Subset
<1> QED BY <1>2, FS_CardinalityType

LEMMA MoreBytes ==
  ASSUME NEW S \in SUBSET AllBytes, NEW T \in SUBSET AllBytes,
         NEW at \in Nat, NEW size \in Nat, 0 < size, at + size <= MaxFree,
         \A x \in AllBytes : x \in T <=> x \in S \/ (at <= x /\ x < at + size),
         \A x \in S : ~(at <= x /\ x < at + size)
  PROVE  Cardinality(T) = Cardinality(S) + size
<1> DEFINE I == at .. at + size - 1
<1>1. I \subseteq AllBytes /\ Cardinality(I) = size
  <2>1. Cardinality(I) = size
    BY FS_Interval
  <2> QED BY <2>1, FreeAssumption DEF AllBytes
<1>2. T = S \cup I /\ S \cap I = {}
  <2>1. \A x \in AllBytes : x \in I <=> at <= x /\ x < at + size
    BY FreeAssumption DEF AllBytes
  <2> HIDE DEF I
  <2> QED BY <2>1, <1>1
<1> HIDE DEF I
<1>3. IsFiniteSet(S) /\ IsFiniteSet(I) /\ Cardinality(S) \in Nat
  BY <1>1, BytesAreFinite
<1>4. Cardinality(S \cup I) = Cardinality(S) + Cardinality(I) - Cardinality(S \cap I)
  BY <1>3, FS_Union
<1>5. Cardinality(S \cap I) = 0
  BY <1>2, FS_EmptySet
<1> QED BY <1>1, <1>2, <1>3, <1>4, <1>5

LEMMA FreeGrows ==
  ASSUME NEW h, NEW k, NEW at \in Nat, NEW size \in Nat, 0 < size,
         at + size <= MaxFree,
         \A x \in Nat : InChunk(k, x) <=> InChunk(h, x) \/ (at <= x /\ x < at + size),
         \A x \in Nat : InChunk(h, x) => ~(at <= x /\ x < at + size)
  PROVE  Cardinality(FreeBytes(k)) = Cardinality(FreeBytes(h)) + size
<1> DEFINE S == FreeBytes(h)
           T == FreeBytes(k)
<1>1. S \in SUBSET AllBytes /\ T \in SUBSET AllBytes
  BY DEF FreeBytes
<1>2. \A x \in AllBytes : x \in Nat
  BY FreeAssumption DEF AllBytes
<1>3. \A x \in AllBytes : x \in T <=> x \in S \/ (at <= x /\ x < at + size)
  BY <1>2 DEF FreeBytes
<1>4. \A x \in S : ~(at <= x /\ x < at + size)
  BY <1>2 DEF FreeBytes
<1> HIDE DEF S, T
<1>5. Cardinality(T) = Cardinality(S) + size
  BY <1>1, <1>3, <1>4, MoreBytes
<1> QED BY <1>5 DEF S, T

LEMMA BlocksGrow ==
  ASSUME NEW b, NEW c, NEW at \in Nat, NEW size \in Nat, 0 < size,
         at + size <= MaxFree,
         \A x \in Nat : InBlock(c, x) <=> InBlock(b, x) \/ (at <= x /\ x < at + size),
         \A x \in Nat : InBlock(b, x) => ~(at <= x /\ x < at + size)
  PROVE  Cardinality(BlockBytes(c)) = Cardinality(BlockBytes(b)) + size
<1> DEFINE S == BlockBytes(b)
           T == BlockBytes(c)
<1>1. S \in SUBSET AllBytes /\ T \in SUBSET AllBytes
  BY DEF BlockBytes
<1>2. \A x \in AllBytes : x \in Nat
  BY FreeAssumption DEF AllBytes
<1>3. \A x \in AllBytes : x \in T <=> x \in S \/ (at <= x /\ x < at + size)
  BY <1>2 DEF BlockBytes
<1>4. \A x \in S : ~(at <= x /\ x < at + size)
  BY <1>2 DEF BlockBytes
<1> HIDE DEF S, T
<1>5. Cardinality(T) = Cardinality(S) + size
  BY <1>1, <1>3, <1>4, MoreBytes
<1> QED BY <1>5 DEF S, T

LEMMA CountedTypes ==
  /\ Cardinality(FreeBytes(hdr)) \in Nat /\ Cardinality(FreeBytes(hdr')) \in Nat
  /\ Cardinality(BlockBytes(blk)) \in Nat /\ Cardinality(BlockBytes(blk')) \in Nat
<1>1. /\ FreeBytes(hdr) \in SUBSET AllBytes /\ FreeBytes(hdr') \in SUBSET AllBytes
      /\ BlockBytes(blk) \in SUBSET AllBytes /\ BlockBytes(blk') \in SUBSET AllBytes
  BY DEF FreeBytes, BlockBytes
<1> QED BY <1>1, BytesAreFinite

LEMMA CountedInit == Init => Counted
<1> SUFFICES ASSUME Init PROVE Counted
  OBVIOUS
<1>1. DOMAIN hdr = {0} /\ hdr[0].size = MaxFree
  BY DEF Init
<1>2. FreeBytes(hdr) = AllBytes
  BY <1>1, FreeAssumption DEF FreeBytes, InChunk, AllBytes
<1>3. BlockBytes(blk) = {}
  BY DEF Init, BlockBytes, InBlock
<1>4. Cardinality(AllBytes) = MaxFree
  BY FreeAssumption, FS_Interval DEF AllBytes
<1>5. Cardinality({}) = 0
  BY FS_EmptySet
<1>6. free_total = MaxFree /\ lost = 0
  BY DEF Init
<1>7. MaxFree \in Nat
  BY FreeAssumption
<1> QED BY <1>2, <1>3, <1>4, <1>5, <1>6, <1>7 DEF Counted

LEMMA CountedFree ==
  ASSUME HeapInv, Counted, NEW a \in DOMAIN blk, Free(a)
  PROVE  Counted'
<1> DEFINE F == Footprint(blk[a])
<1>1. ~mangled /\ FreeInternal(a, F) /\ lost' = lost /\ free_total' = free_total + F
      /\ DOMAIN blk' = DOMAIN blk \ {a}
      /\ \A b \in DOMAIN blk' : blk'[b] = blk[b]
  BY DEF Free, FreeInternal
<1>2. /\ a \in Nat /\ F \in Nat /\ 0 < F /\ a + F <= MaxFree
      /\ FreeFacts(a, F)
  BY <1>1, BlockFacts DEF HeapInv, FreeFacts
<1>3. ListKept(a, F)
  <2> HIDE DEF F
  <2> QED BY <1>1, <1>2, FreeKeeps
<1>4. ASSUME ~mangled'
      PROVE  Cardinality(FreeBytes(hdr')) = Cardinality(FreeBytes(hdr)) + F
  <2>1. \A x \in Nat : InChunk(hdr', x) <=> InChunk(hdr, x) \/ (a <= x /\ x < a + F)
    BY <1>3, <1>4 DEF ListKept
  <2>2. \A b \in Chunks : b \in Nat /\ hdr[b].size \in Nat /\ 0 < hdr[b].size
    BY ChunkRanges DEF HeapInv
  <2> HIDE DEF F
  <2>3. \A x \in Nat : InChunk(hdr, x) => ~(a <= x /\ x < a + F)
    BY <1>2, <2>2 DEF FreeFacts, ApartFromChunks, InChunk, Chunks
  <2> QED BY <1>2, <2>1, <2>3, FreeGrows
<1>5. Cardinality(BlockBytes(blk)) = Cardinality(BlockBytes(blk')) + F
  <2>1. \A b \in DOMAIN blk :
          /\ b \in Nat /\ Footprint(blk[b]) \in Nat /\ 0 < Footprint(blk[b])
          /\ (b < a => b + Footprint(blk[b]) <= a) /\ (a < b => a + F <= b)
    BY <1>1, BlockFacts
  <2>2. \A x \in Nat : InBlock(blk, x) <=> InBlock(blk', x) \/ (a <= x /\ x < a + F)
    BY <1>1 DEF InBlock
  <2>3. ASSUME NEW x \in Nat, InBlock(blk', x)
        PROVE  ~(a <= x /\ x < a + F)
    <3>1. PICK b \in DOMAIN blk \ {a} : b <= x /\ x < b + Footprint(blk[b])
      BY <2>3, <1>1 DEF InBlock
    <3> QED BY <3>1, <2>1, <1>2
  <2> HIDE DEF F
  <2> QED BY <1>2, <2>2, <2>3, BlocksGrow
<1> HIDE DEF F
<1> QED BY <1>1, <1>2, <1>4, <1>5, CountedTypes DEF Counted

LEMMA CountedShrink ==
  ASSUME HeapInv, Counted, NEW a \in DOMAIN blk, NEW n \in Requests, Shrink(a, n)
  PROVE  Counted'
<1> DEFINE F == Footprint(blk[a])
           G == Footprint(n)
           at == a + G
           cut == F - G
<1>1. /\ ~mangled /\ HdrSize <= cut /\ FreeInternal(at, cut)
      /\ lost' = lost /\ free_total' = free_total + cut
      /\ blk' = [blk EXCEPT ![a] = n]
  BY DEF Shrink, FreeInternal
<1>2. n \in Nat /\ G \in Nat /\ 0 < G
  BY RequestsAssumption, FootprintRange
<1>3. DOMAIN blk' = DOMAIN blk /\ blk'[a] = n
      /\ \A b \in DOMAIN blk : b # a => blk'[b] = blk[b]
  BY <1>1
<1>4. /\ a \in Nat /\ F \in Nat /\ a + F <= MaxFree /\ ApartFromChunks(hdr, a, F)
      /\ \A b \in DOMAIN blk :
           /\ b \in Nat /\ Footprint(blk[b]) \in Nat /\ 0 < Footprint(blk[b])
           /\ (b < a => b + Footprint(blk[b]) <= a) /\ (a < b => a + F <= b)
  BY <1>1, BlockFacts
<1>5. \A b \in Chunks : b \in Nat /\ hdr[b].size \in Nat /\ 0 < hdr[b].size
  BY ChunkRanges DEF HeapInv
<1>6. \A x \in Nat : InBlock(blk, x) <=> InBlock(blk', x) \/ (at <= x /\ x < at + cut)
  <2> SUFFICES ASSUME NEW x \in Nat
               PROVE  InBlock(blk, x) <=> InBlock(blk', x) \/ (at <= x /\ x < at + cut)
    OBVIOUS
  <2>1. (a <= x /\ x < a + F)
          <=> (a <= x /\ x < a + G) \/ (at <= x /\ x < at + cut)
    <3> HIDE DEF F, G
    <3> QED BY <1>1, <1>2, <1>4, FreeAssumption
  <2> HIDE DEF at, cut
  <2> QED BY <2>1, <1>3 DEF InBlock
<1>7. ASSUME NEW x \in Nat, InBlock(blk', x)
      PROVE  ~(at <= x /\ x < at + cut)
  <2>1. PICK b \in DOMAIN blk : b <= x /\ x < b + Footprint(blk'[b])
    BY <1>3, <1>7 DEF InBlock
  <2>2. CASE b = a
    <3> HIDE DEF G
    <3> QED BY <2>1, <2>2, <1>2, <1>3, <1>4 DEF G
  <2>3. CASE b # a
    <3>1. b <= x /\ x < b + Footprint(blk[b])
      BY <2>1, <2>3, <1>3
    <3> HIDE DEF F, G
    <3> QED BY <3>1, <2>3, <1>1, <1>2, <1>4
  <2> QED BY <2>2, <2>3
<1> HIDE DEF F, G
<1>8. at \in Nat /\ cut \in Nat /\ 0 < cut /\ at + cut = a + F /\ a < at
  BY <1>1, <1>2, <1>4, FreeAssumption
<1> HIDE DEF at, cut
<1>9. FreeFacts(at, cut)
  <2>1. ApartFromChunks(hdr, at, cut)
    BY <1>4, <1>5, <1>8 DEF ApartFromChunks, Chunks
  <2> QED BY <2>1, <1>1, <1>4, <1>8 DEF FreeFacts, HeapInv
<1>10. ListKept(at, cut)
  BY <1>1, <1>8, <1>9, FreeKeeps
<1>11. ASSUME ~mangled'
       PROVE  Cardinality(FreeBytes(hdr')) = Cardinality(FreeBytes(hdr)) + cut
  <2>1. \A x \in Nat :
          InChunk(hdr', x) <=> InChunk(hdr, x) \/ (at <= x /\ x < at + cut)
    BY <1>10, <1>11 DEF ListKept
  <2>2. \A x \in Nat : InChunk(hdr, x) => ~(at <= x /\ x < at + cut)
    BY <1>5, <1>8, <1>9 DEF FreeFacts, ApartFromChunks, InChunk, Chunks
  <2>3. at + cut <= MaxFree
    BY <1>9 DEF FreeFacts
  <2> QED BY <2>1, <2>2, <2>3, <1>8, FreeGrows
<1>12. Cardinality(BlockBytes(blk)) = Cardinality(BlockBytes(blk')) + cut
  <2>1. at + cut <= MaxFree
    BY <1>9 DEF FreeFacts
  <2> QED BY <2>1, <1>6, <1>7, <1>8, BlocksGrow
<1> QED BY <1>1, <1>8, <1>11, <1>12, CountedTypes DEF Counted

LEMMA CountedAlloc ==
  ASSUME HeapInv, Counted, NEW n \in Requests, Alloc(n)
  PROVE  Counted'
<1> DEFINE F == Footprint(n)
<1>1. n \in Nat /\ F \in Nat /\ 0 < F
  BY RequestsAssumption, FootprintRange
<1>2. ~mangled
  BY DEF Alloc
<1>3. PICK a \in Chunks : /\ hdr[a].size >= F
                          /\ AllocWhole(a, n) \/ AllocCut(a, n)
  BY DEF Alloc, Foremost
<1>4. /\ Ranked(hdr) /\ Linked(hdr, first) /\ Headers(hdr) /\ BlocksOf(blk)
      /\ ChunksApart(hdr)
  BY <1>2 DEF HeapInv
<1>5. \A b \in Chunks : b \in Nat /\ hdr[b].size \in Nat /\ 0 < hdr[b].size
  BY <1>4, ChunkRanges
<1>6. a + hdr[a].size <= MaxFree
  BY <1>4 DEF Headers, Chunks
<1>7. \A b \in DOMAIN blk :
        /\ b \in Nat /\ Footprint(blk[b]) \in Nat
        /\ 0 < Footprint(blk[b])
        /\ b # a /\ (b < a => b + Footprint(blk[b]) <= a)
        /\ (a < b => a + hdr[a].size <= b)
  BY <1>2, BlockFacts DEF ApartFromChunks, Chunks
<1>8. CASE AllocWhole(a, n)
  <2>1. /\ hdr' = Unlink(hdr, a) /\ Block(a, n)
        /\ free_total' = free_total - hdr[a].size
        /\ lost' = lost + hdr[a].size - F
    BY <1>8 DEF AllocWhole
  <2>2. DOMAIN hdr' = Chunks \ {a} /\ \A b \in DOMAIN hdr' : hdr'[b].size = hdr[b].size
    BY <2>1, <1>4, UnlinkKeeps
  <2>3. /\ DOMAIN blk' = DOMAIN blk \cup {a} /\ blk'[a] = n
        /\ \A b \in DOMAIN blk : b # a => blk'[b] = blk[b]
        /\ mangled' = mangled
    BY <2>1 DEF Block
  <2>4. Cardinality(FreeBytes(hdr)) = Cardinality(FreeBytes(hdr')) + hdr[a].size
    <3>1. \A x \in Nat : InChunk(hdr, x)
                         <=> InChunk(hdr', x) \/ (a <= x /\ x < a + hdr[a].size)
      BY <2>2 DEF InChunk, Chunks
    <3>2. ASSUME NEW x \in Nat, InChunk(hdr', x)
          PROVE  ~(a <= x /\ x < a + hdr[a].size)
      <4>1. PICK b \in Chunks \ {a} : b <= x /\ x < b + hdr[b].size
        BY <3>2, <2>2 DEF InChunk
      <4>2. (a < b => a + hdr[a].size <= b) /\ (b < a => b + hdr[b].size <= a)
        BY <1>4 DEF ChunksApart, Chunks
      <4> QED BY <4>1, <4>2, <1>5
    <3> QED BY <3>1, <3>2, <1>5, <1>6, FreeGrows
  <2>5. Cardinality(BlockBytes(blk')) = Cardinality(BlockBytes(blk)) + F
    <3>1. \A x \in Nat : InBlock(blk', x) <=> InBlock(blk, x) \/ (a <= x /\ x < a + F)
      BY <2>3, <1>7 DEF InBlock
    <3>2. ASSUME NEW x \in Nat, InBlock(blk, x)
          PROVE  ~(a <= x /\ x < a + F)
      <4>1. PICK b \in DOMAIN blk : b <= x /\ x < b + Footprint(blk[b])
        BY <3>2 DEF InBlock
      <4> HIDE DEF F
      <4> QED BY <4>1, <1>1, <1>3, <1>5, <1>7
    <3> HIDE DEF F
    <3>3. a + F <= MaxFree
      BY <1>1, <1>3, <1>5, <1>6, FreeAssumption
    <3> QED BY <3>1, <3>2, <3>3, <1>1, <1>5, BlocksGrow
  <2> HIDE DEF F
  <2> QED BY <2>1, <2>3, <2>4, <2>5, <1>1, <1>2, <1>3, <1>5, FreeAssumption,
             CountedTypes DEF Counted
<1>9. CASE AllocCut(a, n)
  <2> DEFINE s == hdr[a].size - F
             x == a + hdr[a].size - F
  <2>1. /\ s >= HdrSize
        /\ hdr' = Resize(hdr, a, s) /\ lost' = lost
        /\ free_total' = free_total - F
        /\ Block(x, n)
    BY <1>9 DEF AllocCut, F
  <2> HIDE DEF F
  <2>2. s \in Nat /\ x \in Nat /\ a + s = x /\ x + F = a + hdr[a].size /\ a < x
    BY <2>1, <1>1, <1>3, <1>5, FreeAssumption
  <2>7. \A y \in Nat : (a <= y /\ y < a + hdr[a].size)
                       <=> (a <= y /\ y < a + s) \/ (x <= y /\ y < x + F)
    BY <2>2, <1>1, <1>5
  <2> HIDE DEF s, x
  <2>3. /\ DOMAIN hdr' = Chunks /\ hdr'[a].size = s
        /\ \A b \in Chunks : b # a => hdr'[b] = hdr[b]
    <3>1. a + s <= MaxFree /\ HdrSize <= s
      BY <2>1, <2>2, <1>1, <1>5, <1>6, FreeAssumption
    <3> QED BY <3>1, <2>1, <2>2, <1>4, ResizeKeeps DEF Chunks
  <2>4. /\ DOMAIN blk' = DOMAIN blk \cup {x} /\ blk'[x] = n
        /\ \A b \in DOMAIN blk : b # x => blk'[b] = blk[b]
        /\ mangled' = mangled
    BY <2>1 DEF Block
  <2>5. Cardinality(FreeBytes(hdr)) = Cardinality(FreeBytes(hdr')) + F
    <3>1. \A y \in Nat : InChunk(hdr, y)
                         <=> InChunk(hdr', y) \/ (x <= y /\ y < x + F)
      BY <2>3, <2>7 DEF InChunk, Chunks
    <3>2. ASSUME NEW y \in Nat, InChunk(hdr', y)
          PROVE  ~(x <= y /\ y < x + F)
      <4>1. PICK b \in Chunks : b <= y /\ y < b + hdr'[b].size
        BY <3>2, <2>3 DEF InChunk
      <4>2. (a < b => a + hdr[a].size <= b) /\ (b < a => b + hdr[b].size <= a)
        BY <1>4 DEF ChunksApart, Chunks
      <4> QED BY <4>1, <4>2, <2>2, <2>3, <1>1, <1>5
    <3>3. x \in Nat /\ F \in Nat /\ 0 < F /\ x + F <= MaxFree
      BY <2>2, <1>1, <1>6
    <3>4. \A y \in Nat : InChunk(hdr', y) => ~(x <= y /\ y < x + F)
      BY <3>2
    <3> QED BY <3>1, <3>3, <3>4, FreeGrows
  <2>6. Cardinality(BlockBytes(blk')) = Cardinality(BlockBytes(blk)) + F
    <3>4. \A b \in DOMAIN blk : b # x
      BY <2>2, <1>1, <1>5, <1>7
    <3>1. \A y \in Nat : InBlock(blk', y) <=> InBlock(blk, y) \/ (x <= y /\ y < x + F)
      BY <2>4, <3>4 DEF InBlock, F
    <3>2. ASSUME NEW y \in Nat, InBlock(blk, y)
          PROVE  ~(x <= y /\ y < x + F)
      <4>1. PICK b \in DOMAIN blk : b <= y /\ y < b + Footprint(blk[b])
        BY <3>2 DEF InBlock
      <4> QED BY <4>1, <2>2, <1>1, <1>5, <1>7
    <3>3. x \in Nat /\ F \in Nat /\ 0 < F /\ x + F <= MaxFree
      BY <2>2, <1>1, <1>6
    <3>5. \A y \in Nat : InBlock(blk, y) => ~(x <= y /\ y < x + F)
      BY <3>2
    <3> QED BY <3>1, <3>3, <3>5, BlocksGrow
  <2> QED BY <2>1, <2>4, <2>5, <2>6, <1>1, <1>2, CountedTypes DEF Counted
<1> QED BY <1>3, <1>8, <1>9

LEMMA CountedStep == HeapInv /\ Counted /\ [Next]_vars => Counted'
<1> SUFFICES ASSUME HeapInv, Counted, [Next]_vars PROVE Counted'
  OBVIOUS
<1>1. CASE UNCHANGED vars
  <2>1. UNCHANGED <<hdr, free_total, blk, lost, mangled>>
    BY <1>1 DEF vars
  <2> QED BY <2>1 DEF Counted
<1>2. CASE Next
  BY <1>2, CountedAlloc, CountedFree, CountedShrink DEF Next
<1> QED BY <1>1, <1>2

LEMMA BytesCounted == Spec => [](HeapInv /\ Counted)
<1>1. Spec => []Counted
  BY HeapInvariant, CountedInit, CountedStep, PTL DEF Spec
<1> QED BY <1>1, HeapInvariant, PTL

(* The bytes of the listed chunks, and those of the blocks.                 *)
LEMMA UnionOfBytes ==
  ASSUME HeapInv, ~mangled
  PROVE  /\ UNION {Bytes(a) : a \in Listed} = FreeBytes(hdr)
         /\ UNION {Bytes(a) : a \in DOMAIN blk} = BlockBytes(blk)
<1>1. Listed = Chunks
  BY AllAreListed DEF HeapInv
<1>2. ASSUME NEW a \in Chunks
      PROVE  /\ Bytes(a) = a .. a + hdr[a].size - 1
             /\ a \in Nat /\ hdr[a].size \in Nat /\ a + hdr[a].size <= MaxFree
  BY DEF Bytes, Size, HeapInv, Headers, Chunks
<1>3. ASSUME NEW a \in DOMAIN blk
      PROVE  /\ Bytes(a) = a .. a + Footprint(blk[a]) - 1
             /\ a \in Nat /\ Footprint(blk[a]) \in Nat
             /\ a + Footprint(blk[a]) <= MaxFree
  <2>1. a \notin Chunks
    BY BlockFacts DEF ApartFromChunks, Chunks
  <2> QED BY <2>1, BlockFacts DEF Bytes, Size
<1>4. UNION {Bytes(a) : a \in Chunks} = FreeBytes(hdr)
  <2>1. ASSUME NEW a \in Chunks, NEW x \in Bytes(a)
        PROVE  x \in FreeBytes(hdr)
    BY <1>2, FreeAssumption DEF FreeBytes, AllBytes, InChunk, Chunks
  <2>2. ASSUME NEW x \in FreeBytes(hdr)
        PROVE  \E a \in Chunks : x \in Bytes(a)
    BY <1>2, FreeAssumption DEF FreeBytes, AllBytes, InChunk, Chunks
  <2> QED BY <2>1, <2>2
<1>5. UNION {Bytes(a) : a \in DOMAIN blk} = BlockBytes(blk)
  <2>1. ASSUME NEW a \in DOMAIN blk, NEW x \in Bytes(a)
        PROVE  x \in BlockBytes(blk)
    <3> DEFINE F == Footprint(blk[a])
    <3>1. x \in a .. a + F - 1 /\ a \in Nat /\ F \in Nat /\ a + F <= MaxFree
      BY <1>3
    <3>2. InBlock(blk, x) <=> \E b \in DOMAIN blk : b <= x /\ x < b + Footprint(blk[b])
      BY DEF InBlock
    <3> HIDE DEF F
    <3>3. x \in AllBytes /\ a <= x /\ x < a + F
      BY <3>1, FreeAssumption DEF AllBytes
    <3> QED BY <3>2, <3>3 DEF BlockBytes, F
  <2>2. ASSUME NEW x \in BlockBytes(blk)
        PROVE  \E a \in DOMAIN blk : x \in Bytes(a)
    <3>1. PICK a \in DOMAIN blk : a <= x /\ x < a + Footprint(blk[a])
      BY DEF BlockBytes, InBlock
    <3>2. x \in Int
      BY DEF BlockBytes, AllBytes
    <3> DEFINE F == Footprint(blk[a])
    <3>3. Bytes(a) = a .. a + F - 1 /\ a \in Nat /\ F \in Nat
          /\ a <= x /\ x < a + F
      BY <3>1, <1>3
    <3> HIDE DEF F
    <3> QED BY <3>2, <3>3
  <2> QED BY <2>1, <2>2
<1> QED BY <1>1, <1>4, <1>5

(* mem_get_free tells how many bytes a walk from first_mi on can reach, and *)
(* they, the blocks, and what was handed out with a chunk and not counted   *)
(* in its block, are the whole heap, for every sequence of calls.           *)
THEOREM EveryByteIsCounted == Spec => []Accounted
<1>1. HeapInv /\ Counted => Accounted
  BY UnionOfBytes DEF Counted, Accounted
<1> QED BY <1>1, BytesCounted, PTL

------------------------------------------------------------------------------
(* The list is in the order of the addresses, with a gap between any two    *)
(* neighbours.                                                              *)
Sorted(h, f) ==
  \A c \in DOMAIN h :
    /\ f # Null /\ f <= c
    /\ h[c].next # Null => c + h[c].size < h[c].next
    /\ \A d \in DOMAIN h : c < d => h[c].next # Null /\ h[c].next <= d

InOrder ==
  /\ above => Sorted(hdr, first)
  /\ above /\ mangled /\ lost = 0 => DOMAIN blk # {}

(* Without lost bytes, no byte is neither free nor in a block.              *)
LEMMA Covered ==
  ASSUME HeapInv, Counted, ~mangled, lost = 0, NEW x \in Nat, x < MaxFree
  PROVE  InChunk(hdr, x) \/ InBlock(blk, x)
<1> DEFINE S == FreeBytes(hdr)
           T == BlockBytes(blk)
<1>1. S \cap T = {}
  <2> SUFFICES ASSUME NEW y \in AllBytes, InChunk(hdr, y), InBlock(blk, y)
               PROVE  FALSE
    BY DEF FreeBytes, BlockBytes
  <2>1. PICK a \in Chunks : a <= y /\ y < a + hdr[a].size
    BY DEF InChunk, Chunks
  <2>2. PICK b \in DOMAIN blk : b <= y /\ y < b + Footprint(blk[b])
    BY DEF InBlock
  <2>3. a \in Nat /\ hdr[a].size \in Nat
    BY ChunkRanges DEF HeapInv
  <2>4. /\ b \in Nat /\ Footprint(blk[b]) \in Nat /\ a # b
        /\ (a < b => a + hdr[a].size <= b)
        /\ (b < a => b + Footprint(blk[b]) <= a)
    BY BlockFacts DEF ApartFromChunks, Chunks
  <2>5. y \in Nat
    BY FreeAssumption DEF AllBytes
  <2> QED BY <2>1, <2>2, <2>3, <2>4, <2>5
<1>2. S \in SUBSET AllBytes /\ T \in SUBSET AllBytes
  BY DEF FreeBytes, BlockBytes
<1>3. Cardinality(S) + Cardinality(T) = MaxFree
  BY CountedTypes, FreeAssumption DEF Counted
<1>6. S \cup T = AllBytes => InChunk(hdr, x) \/ InBlock(blk, x)
  BY FreeAssumption DEF FreeBytes, BlockBytes, AllBytes
<1> HIDE DEF S, T
<1>4. Cardinality(S \cup T) = MaxFree
  <2>1. /\ IsFiniteSet(S) /\ IsFiniteSet(T)
        /\ Cardinality(S) \in Nat /\ Cardinality(T) \in Nat
    BY <1>2, BytesAreFinite
  <2>2. Cardinality(S \cap T) = 0
    BY <1>1, FS_EmptySet
  <2>3. Cardinality(S \cup T) = Cardinality(S) + Cardinality(T) - Cardinality(S \cap T)
    BY <2>1, FS_Union
  <2> QED BY <2>1, <2>2, <2>3, <1>3, FreeAssumption
<1>5. S \cup T = AllBytes
  <2>1. IsFiniteSet(AllBytes) /\ Cardinality(AllBytes) = MaxFree
    BY FreeAssumption, FS_Interval DEF AllBytes
  <2> DEFINE U == S \cup T
  <2>2. U \in SUBSET AllBytes /\ Cardinality(U) = MaxFree
    BY <1>2, <1>4
  <2> HIDE DEF U
  <2>3. U = AllBytes
    BY <2>1, <2>2, FS_Subset
  <2> QED BY <2>3 DEF U
<1> QED BY <1>5, <1>6

(* A chunk that leaves an ordered list.                                     *)
LEMMA UnlinkSorted ==
  ASSUME Ranked(hdr), Linked(hdr, first), Headers(hdr), Sorted(hdr, first),
         NEW a \in Chunks
  PROVE  Sorted(Unlink(hdr, a), IF a = first THEN hdr[a].next ELSE first)
<1> DEFINE h == Unlink(hdr, a)
           f == IF a = first THEN hdr[a].next ELSE first
           p == hdr[a].prev
           n == hdr[a].next
<1>1. /\ DOMAIN h = Chunks \ {a}
      /\ \A b \in DOMAIN h :
           /\ h[b].size = hdr[b].size
           /\ h[b].next = IF b = p THEN n ELSE hdr[b].next
  BY UnlinkKeeps
<1> HIDE DEF h
<1>2. \A c \in Chunks :
        /\ c \in Nat /\ hdr[c].size \in Nat /\ first # Null /\ first <= c
        /\ hdr[c].next \in Chunks \cup {Null}
        /\ hdr[c].next # Null => c + hdr[c].size < hdr[c].next
        /\ \A d \in Chunks : c < d => hdr[c].next # Null /\ hdr[c].next <= d
  BY DEF Sorted, Headers, Linked, Chunks
<1>3. p \in Chunks => hdr[p].next = a
  BY DEF Linked, Headers, Chunks, Null
<1>4. a # Null /\ first \in Chunks
  BY <1>2 DEF Headers, Linked, Chunks, Null
<1> SUFFICES ASSUME NEW c \in Chunks \ {a}
             PROVE  /\ f # Null /\ f <= c
                    /\ h[c].next # Null => c + h[c].size < h[c].next
                    /\ \A d \in Chunks \ {a} :
                         c < d => h[c].next # Null /\ h[c].next <= d
  BY <1>1 DEF Sorted, h
<1>5. f # Null /\ f <= c
  BY <1>2, <1>4
<1>6. h[c].size = hdr[c].size /\ h[c].next = IF c = p THEN n ELSE hdr[c].next
  BY <1>1
<1>7. CASE c = p
  <2>1. c < a /\ c + hdr[c].size < a
    BY <1>2, <1>3, <1>4, <1>7
  <2>2. n # Null => a + hdr[a].size < n /\ n \in Nat
    BY <1>2
  <2> HIDE DEF n
  <2>3. h[c].next # Null => c + h[c].size < h[c].next
    BY <2>1, <2>2, <1>2, <1>6, <1>7
  <2>4. ASSUME NEW d \in Chunks \ {a}, c < d
        PROVE  n # Null /\ n <= d
    <3>1. a <= d /\ a # d
      BY <2>4, <1>2, <1>3, <1>7
    <3>3. a \in Nat /\ d \in Nat
      BY <1>2
    <3>2. a < d
      BY <3>1, <3>3
    <3> QED BY <3>2, <1>2 DEF n
  <2> QED BY <2>3, <2>4, <1>5, <1>6, <1>7
<1>8. CASE c # p
  BY <1>2, <1>5, <1>6, <1>8
<1> QED BY <1>7, <1>8

(* The size of a chunk changes, but it does not meet the next one.          *)
LEMMA ResizeSorted ==
  ASSUME NEW h, NEW f, NEW a \in DOMAIN h, NEW s \in Nat,
         Ranked(h), Linked(h, f), Headers(h), HdrSize <= s, a + s <= MaxFree,
         Sorted(h, f), h[a].next # Null => a + s < h[a].next
  PROVE  Sorted(Resize(h, a, s), f)
<1> DEFINE g == Resize(h, a, s)
<1>1. /\ DOMAIN g = DOMAIN h /\ g[a].size = s
      /\ \A b \in DOMAIN h : (b # a => g[b] = h[b]) /\ g[b].next = h[b].next
  BY ResizeKeeps
<1> HIDE DEF g
<1>2. Sorted(g, f)
  BY <1>1 DEF Sorted
<1> QED BY <1>2 DEF g

(* Where free_internal puts a chunk: between p and its next one.            *)
LEMMA PlaceInOrder ==
  ASSUME NEW at \in Nat, NEW size \in Nat, FreeFacts(at, size),
         Sorted(hdr, first), first < at,
         NEW p \in Chunks, Foremost(p, Before(at))
  PROVE  p < at /\ (hdr[p].next = Null \/ at < hdr[p].next)
<1>1. \A c \in Chunks :
        /\ c \in Nat /\ hdr[c].size \in Nat /\ c # Null /\ c # at
        /\ hdr[c].next \in Chunks \cup {Null}
        /\ hdr[c].next # Null => c + hdr[c].size < hdr[c].next
  BY DEF FreeFacts, ApartFromChunks, Sorted, Headers, Linked, Chunks, Null
<1>2. hdr[p].next = Null \/ at < hdr[p].next
  <2>1. hdr[p].next = Null \/ hdr[p].next > at
    BY DEF Foremost, Before
  <2> QED BY <2>1, <1>1 DEF Null
<1>3. p < at
  <2> SUFFICES ASSUME at < p PROVE FALSE
    BY <1>1
  <2> DEFINE q == hdr[p].prev
             X == {c \in Chunks : p <= c}
  <2>1. p # first
    BY <1>1
  <2>2. q \in Chunks /\ hdr[q].next = p
    BY <2>1 DEF FreeFacts, Linked, Headers, Chunks, Null
  <2> HIDE DEF q
  <2>3. q < p
    BY <2>2, <1>1
  <2>4. q \in Before(at) \cap Listed
    <3>1. Listed = Chunks
      BY AllAreListed DEF FreeFacts
    <3> QED BY <3>1, <2>2 DEF Before
  <2>5. q \in Reached(p)
    BY <2>4 DEF Foremost
  <2>6. Onward(X)
    BY <1>1 DEF Onward
  <2>7. p \in X /\ X \in SUBSET Chunks
    BY <1>1
  <2> HIDE DEF X
  <2>8. q \in X
    BY <2>5, <2>6, <2>7 DEF Reached
  <2>9. p <= q
    BY <2>8 DEF X
  <2>10. p \in Nat /\ q \in Nat
    BY <2>2, <1>1
  <2> QED BY <2>3, <2>9, <2>10
<1> QED BY <1>2, <1>3

LEMMA FreeSorted ==
  ASSUME NEW at \in Nat, NEW size \in Nat, FreeFacts(at, size),
         FreeInternal(at, size), above => Sorted(hdr, first)
  PROVE  above' => Sorted(hdr', first')
<1> SUFFICES ASSUME above' PROVE Sorted(hdr', first')
  OBVIOUS
<1>1. Sorted(hdr, first) /\ first < at /\ first \in Int
  <2>1. above /\ at > first
    BY DEF FreeInternal
  <2>2. first \in Int
    BY DEF FreeFacts, Linked, Headers, Null
  <2> QED BY <2>1, <2>2
<1>2. \A c \in Chunks :
        /\ c \in Nat /\ hdr[c].size \in Nat /\ c # Null /\ c # at
        /\ 0 < hdr[c].size /\ c + hdr[c].size <= MaxFree
        /\ first # Null /\ first <= c
        /\ hdr[c].next \in Chunks \cup {Null}
        /\ hdr[c].next # Null => c + hdr[c].size < hdr[c].next
        /\ \A d \in Chunks : c < d => hdr[c].next # Null /\ hdr[c].next <= d
        /\ (c < at => c + hdr[c].size <= at) /\ (at < c => at + size <= c)
  BY <1>1, FreeAssumption
  DEF FreeFacts, ApartFromChunks, Sorted, Headers, Linked, Chunks, Null
<1>3. CASE FreeAlone(at, size)
  <2>1. Chunks = {}
    <3>1. Listed = Chunks /\ first = Null
      BY <1>3, AllAreListed DEF FreeFacts, FreeAlone
    <3>2. {} \in SUBSET Chunks /\ Onward({})
      BY DEF Onward
    <3> QED BY <3>1, <3>2 DEF Listed, Reached
  <2> DEFINE new == [prev |-> Null, next |-> Null, size |-> size]
  <2>2. hdr' = [b \in {at} |-> IF b = at THEN new ELSE hdr[b]] /\ first' = at
    BY <1>3, <2>1 DEF FreeAlone
  <2>3. DOMAIN hdr' = {at} /\ hdr'[at].next = Null /\ at # Null
    BY <2>2 DEF Null
  <2> QED BY <2>2, <2>3 DEF Sorted
<1>4. ASSUME NEW p \in Chunks, Foremost(p, Before(at)),
             \/ MergeBoth(at, size, p) \/ MergePrev(at, size, p)
             \/ MergeNext(at, size, p) \/ LinkNew(at, size, p)
      PROVE  Sorted(hdr', first')
  <2> DEFINE n == hdr[p].next
  <2>1. p < at /\ (n = Null \/ at < n)
    BY <1>1, <1>4, PlaceInOrder
  <2>2. /\ p \in Nat /\ hdr[p].size \in Nat /\ p + hdr[p].size <= at
        /\ n # Null => n \in Nat /\ n \in Chunks /\ at + size <= n
    BY <2>1, <1>2
  <2>3. CASE MergeBoth(at, size, p)
    <3> DEFINE h == Unlink(hdr, n)
               s == hdr[p].size + size + hdr[n].size
    <3>1. /\ hdr' = Resize(h, p, s) /\ first' = first
          /\ p + hdr[p].size = at /\ n # Null /\ at + size = n
      BY <2>3 DEF MergeBoth, ChunkEnd
    <3>2. n \in Chunks /\ n # p /\ n # first
      BY <3>1, <2>1, <2>2, <1>2
    <3>3. /\ DOMAIN h = Chunks \ {n}
          /\ \A b \in DOMAIN h :
               /\ h[b].size = hdr[b].size
               /\ h[b].next = IF b = hdr[n].prev THEN hdr[n].next ELSE hdr[b].next
          /\ Ranked(h) /\ Linked(h, first) /\ Headers(h)
      <4> HIDE DEF n
      <4> QED BY <3>2, UnlinkKeeps DEF FreeFacts
    <3>4. Sorted(h, first)
      <4> HIDE DEF n
      <4> QED BY <3>2, <1>1, UnlinkSorted DEF FreeFacts
    <3>5. hdr[n].prev = p
      BY <3>1 DEF FreeFacts, Linked, Chunks
    <3>6. s \in Nat /\ p + s = n + hdr[n].size /\ HdrSize <= s /\ p + s <= MaxFree
      <4> HIDE DEF n
      <4>1. hdr[n].size \in Nat /\ n + hdr[n].size <= MaxFree
        BY <3>2, <1>2
      <4> QED BY <4>1, <3>1, <2>2, FreeAssumption DEF FreeFacts
    <3>7. h[p].next = hdr[n].next /\ p \in DOMAIN h
      BY <3>2, <3>3, <3>5
    <3>8. hdr[n].next # Null => n + hdr[n].size < hdr[n].next
      BY <3>2, <1>2
    <3> HIDE DEF h, s, n
    <3>9. Sorted(Resize(h, p, s), first)
      BY <3>3, <3>4, <3>6, <3>7, <3>8, ResizeSorted
    <3> QED BY <3>1, <3>9
  <2>4. CASE MergePrev(at, size, p)
    <3> DEFINE s == hdr[p].size + size
    <3>1. /\ hdr' = Resize(hdr, p, s) /\ first' = first
          /\ p + hdr[p].size = at /\ ~(n # Null /\ at + size = n)
      BY <2>4 DEF MergePrev, ChunkEnd
    <3>2. s \in Nat /\ p + s = at + size /\ HdrSize <= s /\ p + s <= MaxFree
      BY <3>1, <2>2, FreeAssumption DEF FreeFacts
    <3>3. n # Null => p + s < n
      BY <3>1, <3>2, <2>2
    <3> HIDE DEF s
    <3>4. Sorted(Resize(hdr, p, s), first)
      BY <3>2, <3>3, <1>1, ResizeSorted DEF FreeFacts, Chunks
    <3> QED BY <3>1, <3>4
  <2>5. CASE MergeNext(at, size, p)
    BY <2>5, <1>1 DEF MergeNext
  <2>6. CASE LinkNew(at, size, p)
    <3>1. /\ hdr' = Insert(hdr, at, size, p) /\ first' = first
          /\ p + hdr[p].size # at /\ ~(n # Null /\ at + size = n)
      BY <2>6 DEF LinkNew, ChunkEnd
    <3>2. at \notin Chunks
      BY <1>2
    <3>3. Inserted(hdr', at, size, p)
      BY <3>1, <3>2, InsertGives DEF FreeFacts
    <3>4. /\ DOMAIN hdr' = Chunks \cup {at}
          /\ hdr'[at].next = n /\ hdr'[at].size = size
          /\ \A b \in Chunks : /\ hdr'[b].size = hdr[b].size
                               /\ hdr'[b].next = IF b = p THEN at ELSE hdr[b].next
      BY <3>3 DEF Inserted
    <3>5. p + hdr[p].size < at /\ (n # Null => at + size < n)
      BY <3>1, <2>2
    <3>6. first # Null
      BY <1>2
    <3>7. ASSUME NEW d \in Chunks \cup {at}, at < d
          PROVE  n # Null /\ n <= d
      BY <3>7, <2>1, <1>2
    <3>8. ASSUME NEW c \in Chunks
          PROVE  /\ hdr'[c].next # Null => c + hdr'[c].size < hdr'[c].next
                 /\ \A d \in Chunks \cup {at} :
                      c < d => hdr'[c].next # Null /\ hdr'[c].next <= d
      <4>1. CASE c = p
        <5>1. hdr'[c].next = at /\ hdr'[c].size = hdr[p].size
          BY <4>1, <3>4
        <5>2. ASSUME NEW d \in Chunks \cup {at}, c < d
              PROVE  at # Null /\ at <= d
          <6>1. CASE d = at
            BY <6>1 DEF Null
          <6>2. CASE d \in Chunks
            BY <6>2, <5>2, <4>1, <2>1, <1>2 DEF Null
          <6> QED BY <6>1, <6>2
        <5> QED BY <5>1, <5>2, <4>1, <3>5
      <4>2. CASE c # p
        <5>1. hdr'[c].next = hdr[c].next /\ hdr'[c].size = hdr[c].size
          BY <4>2, <3>4
        <5>2. ASSUME c < at
              PROVE  hdr[c].next # Null /\ hdr[c].next <= at
          <6>1. ~(p < c)
            BY <5>2, <2>1, <2>2, <1>2
          <6>2. c < p
            BY <6>1, <4>2, <1>2
          <6> QED BY <6>2, <2>1, <1>2
        <5> QED BY <5>1, <5>2, <1>2
      <4> QED BY <4>1, <4>2
    <3> HIDE DEF n
    <3>9. first <= at /\ \A c \in Chunks : first <= c
      <4>1. first <= at
        BY <1>1
      <4> QED BY <4>1, <1>2
    <3> QED BY <3>1, <3>4, <3>5, <3>6, <3>7, <3>8, <3>9 DEF Sorted
  <2> QED BY <1>4, <2>3, <2>4, <2>5, <2>6
<1> QED BY <1>3, <1>4 DEF FreeInternal

LEMMA AllocSorted ==
  ASSUME HeapInv, above => Sorted(hdr, first), NEW n \in Requests, Alloc(n)
  PROVE  above' => Sorted(hdr', first')
<1> DEFINE F == Footprint(n)
<1>1. F \in Nat /\ 0 < F
  BY RequestsAssumption, FootprintRange
<1>2. PICK a \in Chunks : AllocWhole(a, n) \/ AllocCut(a, n)
  BY DEF Alloc, Foremost
<1>3. Ranked(hdr) /\ Linked(hdr, first) /\ Headers(hdr) /\ above' = above
  BY <1>2 DEF HeapInv, AllocWhole, AllocCut, Block
<1> SUFFICES ASSUME Sorted(hdr, first) PROVE Sorted(hdr', first')
  BY <1>3
<1>4. CASE AllocWhole(a, n)
  BY <1>3, <1>4, UnlinkSorted DEF AllocWhole
<1>5. CASE AllocCut(a, n)
  <2> DEFINE s == hdr[a].size - F
  <2>1. s >= HdrSize /\ hdr' = Resize(hdr, a, s) /\ first' = first
    BY <1>5 DEF AllocCut
  <2> HIDE DEF F
  <2>2. a \in Nat /\ hdr[a].size \in Nat /\ a + hdr[a].size <= MaxFree
    BY <1>3 DEF Headers, Chunks
  <2>3. s \in Nat /\ HdrSize <= s /\ a + s < a + hdr[a].size /\ a + s <= MaxFree
    BY <2>1, <2>2, <1>1, FreeAssumption
  <2>4. hdr[a].next # Null =>
          hdr[a].next \in Nat /\ a + hdr[a].size < hdr[a].next
    BY <1>3 DEF Sorted, Linked, Headers, Chunks
  <2> HIDE DEF s
  <2>5. hdr[a].next # Null => a + s < hdr[a].next
    BY <2>2, <2>3, <2>4
  <2>6. Sorted(Resize(hdr, a, s), first)
    BY <2>3, <2>5, <1>3, ResizeSorted DEF Chunks
  <2> QED BY <2>1, <2>6
<1> QED BY <1>2, <1>4, <1>5

LEMMA OrderInit == Init => InOrder
<1> SUFFICES ASSUME Init PROVE InOrder
  OBVIOUS
<1>1. DOMAIN hdr = {0} /\ hdr[0].next = Null /\ first = 0 /\ ~mangled
  BY DEF Init
<1> QED BY <1>1 DEF InOrder, Sorted, Null

LEMMA OrderFree ==
  ASSUME HeapInv, Counted, InOrder, NEW a \in DOMAIN blk, Free(a)
  PROVE  InOrder'
<1> DEFINE F == Footprint(blk[a])
<1>1. ~mangled /\ FreeInternal(a, F) /\ lost' = lost
      /\ DOMAIN blk' = DOMAIN blk \ {a}
  BY DEF Free, FreeInternal
<1>2. /\ a \in Nat /\ F \in Nat /\ 0 < F /\ a + F <= MaxFree
      /\ FreeFacts(a, F)
  BY <1>1, BlockFacts DEF HeapInv, FreeFacts
<1> HIDE DEF F
<1>3. above' => Sorted(hdr', first')
  BY <1>1, <1>2, FreeSorted DEF InOrder
<1>4. ASSUME above', mangled', lost' = 0
      PROVE  DOMAIN blk' # {}
  <2>1. above /\ first < a
    BY <1>1, <1>4 DEF FreeInternal, FreeFacts, HeapInv, Linked, Headers, Null
  <2>2. Sorted(hdr, first)
    BY <2>1 DEF InOrder
  <2>3. PICK p \in Chunks : /\ Foremost(p, Before(a))
                            /\ MergeNext(a, F, p)
    BY <1>1, <1>4 DEF FreeInternal, FreeAlone, MergeBoth, MergePrev, LinkNew
  <2>4. p < a /\ (hdr[p].next = Null \/ a < hdr[p].next)
    BY <2>1, <2>2, <2>3, <1>2, PlaceInOrder
  <2> DEFINE e == p + hdr[p].size
  <2>5. e # a
    BY <2>3 DEF MergeNext, ChunkEnd
  <2>6. \A c \in Chunks :
          /\ c \in Nat /\ hdr[c].size \in Nat /\ 0 < hdr[c].size
          /\ (c < p => c + hdr[c].size <= p)
          /\ (p < c => hdr[p].next # Null /\ hdr[p].next <= c)
          /\ (c < a => c + hdr[c].size <= a)
          /\ hdr[c].next \in Chunks \cup {Null}
    BY <2>2, <1>2, FreeAssumption
    DEF FreeFacts, ApartFromChunks, ChunksApart, Sorted, Headers, Linked, Chunks
  <2>7. e \in Nat /\ e < a /\ e < MaxFree /\ p < e
    <3>1. p \in Nat /\ hdr[p].size \in Nat /\ 0 < hdr[p].size /\ e <= a
      BY <2>4, <2>6
    <3> QED BY <3>1, <2>5, <1>2, FreeAssumption
  <2>8. ~InChunk(hdr, e)
    <3> SUFFICES ASSUME NEW c \in Chunks, c <= e, e < c + hdr[c].size PROVE FALSE
      BY DEF InChunk, Chunks
    <3>1. c # p
      BY <2>6
    <3> HIDE DEF e
    <3>2. c \in Nat /\ p \in Nat /\ hdr[c].size \in Nat
      BY <2>6
    <3>3. ~(c < p)
      <4>1. c < p => c + hdr[c].size <= p
        BY <2>6
      <4> QED BY <4>1, <3>2, <2>7
    <3>4. p < c
      BY <3>1, <3>2, <3>3
    <3>5. hdr[p].next # Null /\ hdr[p].next <= c /\ hdr[p].next \in Nat
      BY <3>4, <2>6
    <3> QED BY <3>2, <3>5, <2>4, <2>7, <1>2
  <2> HIDE DEF e
  <2>9. InBlock(blk, e)
    BY <2>7, <2>8, <1>1, <1>4, Covered
  <2>10. PICK b \in DOMAIN blk : b <= e
    BY <2>9 DEF InBlock
  <2>11. b # a
    BY <2>7, <2>10, <1>2
  <2> QED BY <2>10, <2>11, <1>1
<1> QED BY <1>3, <1>4 DEF InOrder

LEMMA OrderShrink ==
  ASSUME HeapInv, InOrder, NEW a \in DOMAIN blk, NEW n \in Requests, Shrink(a, n)
  PROVE  InOrder'
<1> DEFINE F == Footprint(blk[a])
           G == Footprint(n)
           at == a + G
           cut == F - G
<1>1. /\ ~mangled /\ HdrSize <= cut /\ FreeInternal(at, cut)
      /\ DOMAIN blk' = DOMAIN blk
  BY DEF Shrink, FreeInternal
<1>2. n \in Nat /\ G \in Nat /\ 0 < G
  BY RequestsAssumption, FootprintRange
<1>4. /\ a \in Nat /\ F \in Nat /\ a + F <= MaxFree /\ ApartFromChunks(hdr, a, F)
  BY <1>1, BlockFacts
<1>5. \A b \in Chunks : b \in Nat /\ hdr[b].size \in Nat /\ 0 < hdr[b].size
  BY ChunkRanges DEF HeapInv
<1> HIDE DEF F, G
<1>8. at \in Nat /\ cut \in Nat /\ 0 < cut /\ at + cut = a + F /\ a < at
  BY <1>1, <1>2, <1>4, FreeAssumption
<1> HIDE DEF at, cut
<1>9. FreeFacts(at, cut)
  <2>1. ApartFromChunks(hdr, at, cut)
    BY <1>4, <1>5, <1>8 DEF ApartFromChunks, Chunks
  <2> QED BY <2>1, <1>1, <1>4, <1>8 DEF FreeFacts, HeapInv
<1>10. above' => Sorted(hdr', first')
  BY <1>1, <1>8, <1>9, FreeSorted DEF InOrder
<1>11. DOMAIN blk' # {}
  BY <1>1
<1> QED BY <1>10, <1>11 DEF InOrder

LEMMA OrderStep == HeapInv /\ Counted /\ InOrder /\ [Next]_vars => InOrder'
<1> SUFFICES ASSUME HeapInv, Counted, InOrder, [Next]_vars PROVE InOrder'
  OBVIOUS
<1>1. CASE UNCHANGED vars
  <2>1. UNCHANGED <<hdr, first, blk, lost, above, mangled>>
    BY <1>1 DEF vars
  <2> QED BY <2>1 DEF InOrder
<1>2. ASSUME NEW n \in Requests, Alloc(n)
      PROVE  InOrder'
  <2>1. above' => Sorted(hdr', first')
    BY <1>2, AllocSorted DEF InOrder
  <2>2. ~mangled'
    BY <1>2 DEF Alloc, AllocWhole, AllocCut, Block
  <2> QED BY <2>1, <2>2 DEF InOrder
<1>3. CASE Next
  BY <1>2, <1>3, OrderFree, OrderShrink DEF Next
<1> QED BY <1>1, <1>3

(* When every block is given back the whole heap is one chunk again, in     *)
(* whatever order the frees came, for every heap, header size and sequence  *)
(* of calls that lost no bytes and freed nothing below the first chunk.     *)
THEOREM HeapComesBack == Spec => []Reusable
<1>1. HeapInv /\ Counted /\ InOrder => Reusable
  <2> SUFFICES ASSUME HeapInv, Counted, InOrder, above, lost = 0, DOMAIN blk = {}
               PROVE  first = 0 /\ hdr[0].size = MaxFree /\ free_total = MaxFree
    BY DEF Reusable
  <2>1. ~mangled /\ Sorted(hdr, first)
    BY DEF InOrder
  <2>2. \A c \in Chunks :
          /\ c \in Nat /\ hdr[c].size \in Nat /\ 0 < hdr[c].size
          /\ first # Null /\ first <= c /\ c + hdr[c].size <= MaxFree
          /\ hdr[c].next # Null => c + hdr[c].size < hdr[c].next
          /\ \A d \in Chunks : c < d => hdr[c].next # Null /\ hdr[c].next <= d
          /\ hdr[c].next \in Chunks \cup {Null}
    BY <2>1, FreeAssumption
    DEF HeapInv, Sorted, Headers, Linked, Chunks
  <2>3. \A x \in Nat : x < MaxFree => InChunk(hdr, x)
    BY <2>1, Covered DEF InBlock
  <2>4. PICK a \in Chunks : a <= 0
    <3>1. InChunk(hdr, 0)
      BY <2>3, FreeAssumption
    <3> QED BY <3>1 DEF InChunk, Chunks
  <2>5. a = 0
    <3>1. a \in Nat
      BY <2>2
    <3> QED BY <3>1, <2>4
  <2>6. first = 0
    <3>1. first \in Chunks
      BY <2>2, <2>4 DEF HeapInv, Linked, Chunks
    <3>2. first \in Nat /\ first <= 0
      BY <3>1, <2>2, <2>5
    <3> QED BY <3>2
  <2> DEFINE e == hdr[0].size
  <2>7. e \in Nat /\ 0 < e /\ e <= MaxFree
    <3>1. 0 + e <= MaxFree /\ e \in Nat /\ 0 < e
      BY <2>2, <2>5
    <3> QED BY <3>1, FreeAssumption
  <2> HIDE DEF e
  <2>8. e = MaxFree
    <3> SUFFICES ASSUME e < MaxFree PROVE FALSE
      BY <2>7, FreeAssumption
    <3>1. PICK c \in Chunks : c <= e /\ e < c + hdr[c].size
      BY <2>3, <2>7 DEF InChunk, Chunks
    <3>2. c \in Nat /\ c # 0
      BY <3>1, <2>2, <2>7 DEF e
    <3>3. 0 < c
      BY <3>2
    <3>4. hdr[0].next # Null /\ hdr[0].next <= c /\ hdr[0].next \in Nat
      BY <3>3, <2>2, <2>5
    <3>5. 0 + e < hdr[0].next
      BY <3>4, <2>2, <2>5 DEF e
    <3> QED BY <3>1, <3>2, <3>4, <3>5, <2>7
  <2>9. free_total = MaxFree
    <3>1. BlockBytes(blk) = {}
      BY DEF BlockBytes, InBlock
    <3>2. Cardinality(BlockBytes(blk)) = 0
      BY <3>1, FS_EmptySet
    <3>3. FreeBytes(hdr) \in SUBSET AllBytes
      BY DEF FreeBytes
    <3>4. Cardinality(FreeBytes(hdr)) \in Nat
      BY <3>3, BytesAreFinite
    <3>5. /\ free_total = Cardinality(FreeBytes(hdr))
          /\ free_total + Cardinality(BlockBytes(blk)) + lost = MaxFree
      BY <2>1 DEF Counted
    <3> QED BY <3>2, <3>4, <3>5, FreeAssumption
  <2> QED BY <2>6, <2>8, <2>9 DEF e
<1>2. Spec => []InOrder
  BY BytesCounted, OrderInit, OrderStep, PTL DEF Spec
<1> QED BY <1>1, <1>2, BytesCounted, PTL

-------------------------------------------------------------------------------
(* The driver of the SD card.                                               *)

InitSteps == {"cmd0", "cmd8", "cmd55", "acmd41", "ocr", "cmd1", "crc", "blocklen"}
BlockSteps == {"read", "write", "csd"}

CallType ==
  /\ call = [next |-> call.next, type |-> call.type, tries |-> call.tries,
             block |-> call.block, data |-> call.data]
  /\ call.next \in {"idle"} \cup InitSteps \cup BlockSteps
  /\ call.next = "idle" => call = Sd!Idle
  /\ wires = [selected |-> wires.selected, speed |-> wires.speed]

(* Only an init slows the bus down.                                         *)
BusInv ==
  /\ CallType
  /\ call.next \in {"idle"} \cup BlockSteps => wires.speed = "max"
  /\ call.next = "idle" => wires.selected = FALSE

-------------------------------------------------------------------------------
LEMMA BusInit == Sd!Init => BusInv
  BY DEF Sd!Init, BusInv, CallType, Sd!Idle, Sd!Free, InitSteps, BlockSteps

(* The steps of an init either go on to a command or end it.                *)
InitEnds == call' = Sd!Idle /\ wires' = [selected |-> FALSE, speed |-> "max"]
InitGoesOn ==
  /\ call' = [next |-> call'.next, type |-> call'.type, tries |-> call'.tries,
              block |-> call'.block, data |-> call'.data]
  /\ call'.next \in InitSteps /\ call'.block \in {call.block, 0}
  /\ wires' = [selected |-> wires'.selected, speed |-> wires'.speed]

LEMMA InitMoves ==
  ASSUME BusInv,
         \/ Sd!BeginInit \/ Sd!EnterIdle \/ Sd!EnterIdleAgain \/ Sd!SendIfCond
         \/ Sd!AppCmd \/ Sd!SdSendOpCond \/ Sd!DetectSdhc \/ Sd!SendOpCond
         \/ Sd!SetCrcMode \/ Sd!SetBlocksize
  PROVE  InitEnds \/ InitGoesOn
<1>1. ASSUME NEW cmd \in InitSteps, NEW cs, Sd!GoOn(cmd), Sd!Selected(cs)
      PROVE  InitGoesOn
  BY <1>1 DEF Sd!GoOn, Sd!Selected, InitGoesOn, BusInv, CallType
<1>2. ASSUME NEW res, Sd!EndInit(res) PROVE InitEnds
  BY <1>2 DEF Sd!EndInit, InitEnds
<1>3. CASE Sd!BeginInit
  BY <1>3 DEF Sd!BeginInit, InitGoesOn, InitSteps, Sd!Idle, BusInv, CallType
<1>4. CASE Sd!EnterIdle
  BY <1>1, <1>2, <1>4 DEF Sd!EnterIdle, InitSteps
<1>5. CASE Sd!EnterIdleAgain
  <2>1. CASE call.tries + 1 = IdleRetries
    BY <1>2, <1>5, <2>1 DEF Sd!EnterIdleAgain
  <2>2. CASE call.tries + 1 # IdleRetries
    BY <1>5, <2>2
    DEF Sd!EnterIdleAgain, Sd!Selected, InitGoesOn, InitSteps, BusInv, CallType
  <2> QED BY <2>1, <2>2
<1>6. CASE Sd!SendIfCond
  BY <1>1, <1>2, <1>6 DEF Sd!SendIfCond, InitSteps
<1>7. CASE Sd!AppCmd
  BY <1>7 DEF Sd!AppCmd, Sd!Selected, InitGoesOn, InitSteps, BusInv, CallType
<1>8. CASE Sd!SdSendOpCond
  <2>1. CASE Sd!EndInit("fail")
    BY <1>2, <2>1
  <2>2. CASE Sd!Selected(FALSE) /\ Sd!GoOn("cmd55")
    BY <1>1, <2>2 DEF InitSteps
  <2>3. CASE Sd!Selected(FALSE) /\ call' = [call EXCEPT !.next = "ocr", !.type = "sd"]
    BY <2>3 DEF Sd!Selected, InitGoesOn, InitSteps, BusInv, CallType
  <2> QED BY <1>8, <2>1, <2>2, <2>3 DEF Sd!SdSendOpCond
<1>9. CASE Sd!DetectSdhc
  BY <1>9 DEF Sd!DetectSdhc, Sd!Selected, InitGoesOn, InitSteps, BusInv, CallType
<1>10. CASE Sd!SendOpCond
  BY <1>1, <1>2, <1>10 DEF Sd!SendOpCond, InitSteps
<1>11. CASE Sd!SetCrcMode
  BY <1>1, <1>2, <1>11 DEF Sd!SetCrcMode, InitSteps
<1>12. CASE Sd!SetBlocksize
  BY <1>2, <1>12 DEF Sd!SetBlocksize
<1> QED
  BY <1>3, <1>4, <1>5, <1>6, <1>7, <1>8, <1>9, <1>10, <1>11, <1>12

LEMMA BusStep == BusInv /\ [Sd!Next]_Sd!sdVars => BusInv'
<1> SUFFICES ASSUME BusInv, [Sd!Next]_Sd!sdVars PROVE BusInv'
  OBVIOUS
<1>1. CASE UNCHANGED <<call, wires>>
  BY <1>1 DEF BusInv, CallType
<1>2. CASE InitEnds
  BY <1>2 DEF InitEnds, BusInv, CallType, Sd!Idle
<1>3. CASE InitGoesOn
  BY <1>3 DEF InitGoesOn, BusInv, CallType, InitSteps, BlockSteps
<1>4. ASSUME NEW cmd \in BlockSteps, NEW b, NEW v, Sd!BeginBlock(cmd, b, v)
      PROVE  BusInv'
  BY <1>4 DEF Sd!BeginBlock, BusInv, CallType, BlockSteps, Sd!Idle
<1>5. ASSUME call.next \in BlockSteps, Sd!Selected(FALSE), call' = Sd!Idle
      PROVE  BusInv'
  BY <1>5 DEF Sd!Selected, BusInv, CallType, Sd!Idle
<1>6. CASE Sd!BlockFails
  BY <1>5, <1>6 DEF Sd!BlockFails, Sd!Ends, Sd!EndBlock, BlockSteps
<1>7. CASE Sd!ReadBlock
  BY <1>5, <1>7 DEF Sd!ReadBlock, Sd!EndBlock, BlockSteps
<1>8. CASE Sd!WriteBlock
  BY <1>5, <1>8 DEF Sd!WriteBlock, Sd!EndBlock, BlockSteps
<1>9. CASE Sd!GetCapacity
  BY <1>5, <1>9 DEF Sd!GetCapacity, Sd!EndBlock, BlockSteps
<1>10. CASE Sd!DriverOpen \/ Sd!DriverClose \/ Sd!Exchanged
  BY <1>1, <1>10 DEF Sd!DriverOpen, Sd!DriverClose, Sd!Exchanged
<1>11. CASE \/ \E b \in Sd!Numbers : \/ Sd!BeginBlock("read", b, "any")
                                  \/ \E v \in Values : Sd!BeginBlock("write", b, v)
            \/ Sd!BeginBlock("csd", 0, "any")
  BY <1>4, <1>11 DEF BlockSteps
<1>12. CASE UNCHANGED Sd!sdVars
  BY <1>1, <1>12 DEF Sd!sdVars
<1> QED
  BY <1>2, <1>3, <1>6, <1>7, <1>8, <1>9, <1>10, <1>11, <1>12, InitMoves
     DEF Sd!Next

LEMMA BlockStep ==
  Sd!SdCardAssumption /\ BusInv /\ call.block \in Sd!Numbers
  /\ [Sd!Next]_Sd!sdVars =>
    call'.block \in Sd!Numbers
<1> SUFFICES ASSUME Sd!SdCardAssumption, BusInv, call.block \in Sd!Numbers,
                    [Sd!Next]_Sd!sdVars
             PROVE  call'.block \in Sd!Numbers
  OBVIOUS
<1>1. 0 \in Sd!Numbers
  BY DEF Sd!Numbers, Sd!SdCardAssumption
<1>2. CASE UNCHANGED call \/ call' = Sd!Idle \/ InitGoesOn
  BY <1>1, <1>2 DEF Sd!Idle, InitGoesOn
<1>3. ASSUME NEW cmd, NEW b \in Sd!Numbers, NEW v, Sd!BeginBlock(cmd, b, v)
      PROVE  call'.block \in Sd!Numbers
  BY <1>3 DEF Sd!BeginBlock, Sd!Idle
<1>4. CASE Sd!BlockFails \/ Sd!ReadBlock \/ Sd!WriteBlock \/ Sd!GetCapacity
  BY <1>2, <1>4
     DEF Sd!BlockFails, Sd!ReadBlock, Sd!WriteBlock, Sd!GetCapacity,
         Sd!EndBlock
<1>5. CASE Sd!DriverOpen \/ Sd!DriverClose \/ Sd!Exchanged \/ UNCHANGED Sd!sdVars
  BY <1>2, <1>5 DEF Sd!DriverOpen, Sd!DriverClose, Sd!Exchanged, Sd!sdVars
<1> QED
  BY <1>1, <1>2, <1>3, <1>4, <1>5, InitMoves DEF Sd!Next, InitEnds

LEMMA BusInvariant == Sd!Spec => []BusInv
  BY BusInit, BusStep, PTL DEF Sd!Spec

(* Between calls the card is not selected and the bus has its full speed,   *)
(* whichever commands of an init, a read or a write failed: sdcard.c leaves *)
(* the bus as the drivers of the network chips expect it.                   *)
THEOREM BusLeftFree == Sd!Spec => []BusIsFree
<1>1. BusInv => BusIsFree
  BY DEF BusInv, CallType, BusIsFree, Sd!BusIsFree, Sd!Idle, Sd!Free
<1> QED BY <1>1, BusInvariant, PTL

-------------------------------------------------------------------------------
(* What is known of a card whose init has lost no command so far.           *)
Told(type) == (type = "sdhc") <=> (card.kind = "sdhc")

InitSofar ==
  /\ call.next = "cmd0" => call.type = "none"
  /\ call.next \in {"cmd8", "cmd55", "acmd41"} =>
       card.mode = "idle" /\ card.kind # "none" /\ call.type = "none"
  /\ call.next = "acmd41" => card.kind # "mmc"
  /\ call.next = "ocr" => card.mode = "ready" /\ card.kind # "none" /\ call.type = "sd"
  /\ call.next \in {"cmd1", "crc", "blocklen"} =>
       /\ card.mode \in {"idle", "ready"} /\ card.kind # "none" /\ Told(call.type)
  /\ call.next \in {"crc", "blocklen"} => card.mode = "ready"
  /\ call.next = "blocklen" => card.crc = useCrc

(* The driver addresses such a card as the card expects, and with CRCs on   *)
(* the card checks them.                                                    *)
CardInv ==
  /\ BusInv /\ call.block \in Sd!Numbers
  /\ useCrc \in BOOLEAN
  /\ card = [kind |-> card.kind, mode |-> card.mode, crc |-> card.crc]
  /\ card.kind \in CardKinds
  /\ flash = [b \in Sd!Numbers |-> flash[b]] /\ kept = [b \in Sd!Numbers |-> kept[b]]
  /\ known => InitSofar
  /\ call.next \in {"idle"} \cup BlockSteps /\ Sd!Known =>
       Told(cardType) /\ card.crc = useCrc
  /\ useCrc => \A b \in Sd!Numbers : kept[b] \in {"any", flash[b]}
  /\ Sd!ReadsWhatWasWritten

(* What an exchange tells when the command got through.                     *)
LEMMA ExchangeWith ==
  ASSUME Sd!SdCardAssumption, NEW cmd, NEW r, Sd!Exchange(cmd, r), known', CardInv,
         cmd \notin BlockSteps
  PROVE  /\ known /\ r \in Sd!Answers(cmd)
         /\ card' = CASE cmd = "cmd0" /\ r = "idle" ->
                           [card EXCEPT !.mode = "idle", !.crc = FALSE]
                      [] cmd \in {"acmd41", "cmd1"} /\ r = "ready" ->
                           [card EXCEPT !.mode = "ready"]
                      [] cmd = "crc" /\ r # "bad" -> [card EXCEPT !.crc = useCrc]
                      [] OTHER -> card
<1>1. PICK errors \in 0 .. Retries, answer \in Sd!Answers(cmd) :
        /\ known' = (known /\ (cmd \in {"read", "write", "csd"} \/ errors < Retries))
        /\ r = Sd!BeginCommand(answer, errors)
        /\ card' = IF errors = Retries THEN card
               ELSE CASE cmd = "cmd0" /\ r = "idle" ->
                           [card EXCEPT !.mode = "idle", !.crc = FALSE]
                      [] cmd \in {"acmd41", "cmd1"} /\ r = "ready" ->
                           [card EXCEPT !.mode = "ready"]
                      [] cmd = "crc" /\ r # "bad" -> [card EXCEPT !.crc = useCrc]
                      [] OTHER -> card
  BY Zenon DEF Sd!Exchange
<1>2. known /\ errors < Retries
  BY <1>1 DEF BlockSteps
<1>3. errors # Retries
  BY <1>2 DEF Sd!SdCardAssumption
<1> QED BY <1>1, <1>2, <1>3 DEF Sd!BeginCommand

LEMMA ExchangeOfBlock ==
  ASSUME NEW cmd \in BlockSteps, NEW r, Sd!Exchange(cmd, r)
  PROVE  card' = card /\ (known' <=> known)
BY DEF Sd!Exchange, BlockSteps

LEMMA ExchangeKeeps ==
  ASSUME NEW cmd, NEW r, Sd!Exchange(cmd, r), CardInv
  PROVE  /\ card' = [kind |-> card'.kind, mode |-> card'.mode, crc |-> card'.crc]
         /\ card'.kind = card.kind
BY DEF Sd!Exchange, CardInv

LEMMA CardInit == Sd!SdCardAssumption /\ Sd!Init => CardInv
<1> SUFFICES ASSUME Sd!SdCardAssumption, Sd!Init PROVE CardInv
  OBVIOUS
<1>1. call.block \in Sd!Numbers
  BY DEF Sd!Init, Sd!Idle, Sd!Numbers, Sd!SdCardAssumption
<1> QED BY <1>1, BusInit
           DEF Sd!Init, CardInv, InitSofar, Sd!Known, Sd!ReadsWhatWasWritten,
               Sd!Idle, Sd!Done,
    InitSteps, BlockSteps

(* What is left to show of a step of an init.                               *)
LEMMA InitKeeps ==
  ASSUME CardInv, BusInv', call'.block \in Sd!Numbers,
         UNCHANGED <<useCrc, flash, kept>>,
         card' = [kind |-> card'.kind, mode |-> card'.mode, crc |-> card'.crc],
         card'.kind = card.kind,
         \/ call'.next \in InitSteps /\ (known' => InitSofar')
         \/ /\ call' = Sd!Idle /\ result'.data = "any"
            /\ known' /\ slots' # {"no init"} =>
                 Told(cardType)' /\ card'.crc = useCrc
  PROVE  CardInv'
<1>1. known' => InitSofar'
  <2>1. CASE call' = Sd!Idle
    <3>1. call'.next = "idle"
      BY <2>1 DEF Sd!Idle
    <3> QED BY <3>1 DEF InitSofar
  <2> QED BY <2>1
<1>2. CASE call'.next \in InitSteps
  <2>1. call'.next \notin {"idle"} \cup BlockSteps
    BY <1>2 DEF InitSteps, BlockSteps
  <2>2. Sd!Idle.next = "idle"
    BY DEF Sd!Idle
  <2>3. call' # Sd!Idle
    BY <2>1, <2>2
  <2>4. Sd!ReadsWhatWasWritten'
    BY <2>3 DEF Sd!ReadsWhatWasWritten, Sd!Idle
  <2> QED BY <1>1, <2>1, <2>4 DEF CardInv
<1>3. CASE /\ call' = Sd!Idle /\ result'.data = "any"
           /\ known' /\ slots' # {"no init"} =>
                Told(cardType)' /\ card'.crc = useCrc
  BY <1>1, <1>3 DEF CardInv, Sd!ReadsWhatWasWritten, Sd!Known, Sd!Idle, Told
<1> QED BY <1>2, <1>3

LEMMA EndKeeps ==
  ASSUME CardInv, BusInv', call'.block \in Sd!Numbers,
         card' = [kind |-> card'.kind, mode |-> card'.mode, crc |-> card'.crc],
         card'.kind = card.kind, NEW res, Sd!EndInit(res),
         known' /\ res = "ok" => Told(cardType)' /\ card'.crc = useCrc
  PROVE  CardInv'
<1>1. /\ UNCHANGED <<useCrc, flash, kept>>
      /\ call' = Sd!Idle /\ result'.data = "any"
      /\ slots' # {"no init"} => res = "ok"
  BY DEF Sd!EndInit, Sd!Done
<1> QED BY <1>1, InitKeeps

LEMMA CardInitStep ==
  ASSUME Sd!SdCardAssumption, CardInv, BusInv', call'.block \in Sd!Numbers,
         \/ Sd!BeginInit \/ Sd!EnterIdle \/ Sd!EnterIdleAgain \/ Sd!SendIfCond
         \/ Sd!AppCmd \/ Sd!SdSendOpCond \/ Sd!DetectSdhc \/ Sd!SendOpCond
         \/ Sd!SetCrcMode \/ Sd!SetBlocksize
  PROVE  CardInv'
<1> USE DEF InitSteps
<1> DEFINE Goes == /\ call'.next \in InitSteps /\ (known' => InitSofar')
                   /\ UNCHANGED <<useCrc, flash, kept>>
<1>0. /\ card = [kind |-> card.kind, mode |-> card.mode, crc |-> card.crc]
      /\ call = [next |-> call.next, type |-> call.type, tries |-> call.tries,
                 block |-> call.block, data |-> call.data]
      /\ known => InitSofar
  BY DEF CardInv, BusInv, CallType
<1>1. CASE Sd!BeginInit
  <2>1. Goes
    BY <1>1 DEF Sd!BeginInit, Sd!still, Sd!Idle, InitSofar
  <2> QED BY <1>0, <1>1, <2>1, InitKeeps DEF Sd!BeginInit
<1>2. CASE Sd!EnterIdle
  <2>1. PICK r : /\ Sd!Exchange("cmd0", r)
                 /\ IF r = "idle" THEN Sd!GoOn("cmd8") /\ Sd!Selected(FALSE)
                    ELSE Sd!EndInit("fail")
    BY <1>2 DEF Sd!EnterIdle
  <2>2. card' = [kind |-> card'.kind, mode |-> card'.mode, crc |-> card'.crc]
        /\ card'.kind = card.kind
    BY <2>1, ExchangeKeeps
  <2>3. CASE r = "idle"
    <3>1. known' => card'.mode = "idle" /\ card.kind # "none"
      BY <1>0, <2>1, <2>3, ExchangeWith DEF BlockSteps, Sd!Answers
    <3>2. call' = [call EXCEPT !.next = "cmd8"] /\ UNCHANGED <<useCrc, flash, kept>>
      BY <2>1, <2>3 DEF Sd!GoOn, Sd!still
    <3>3. known' => call.type = "none"
      BY <1>0, <1>2, <2>1, ExchangeWith DEF Sd!EnterIdle, InitSofar, BlockSteps
    <3>4. Goes
      BY <1>0, <3>1, <2>2, <3>2, <3>3 DEF InitSofar
    <3> QED BY <2>2, <3>4, InitKeeps
  <2> QED BY <2>1, <2>2, <2>3, EndKeeps
<1>3. CASE Sd!EnterIdleAgain
  <2>1. CASE Sd!EndInit("fail")
    BY <1>0, <1>3, <2>1, EndKeeps DEF Sd!EnterIdleAgain
  <2>2. CASE call' = [call EXCEPT !.tries = @ + 1] /\ UNCHANGED <<result, Sd!still>>
    <3>1. Goes
      BY <1>0, <1>3, <2>2 DEF Sd!EnterIdleAgain, Sd!still, InitSofar
    <3> QED BY <1>0, <1>3, <3>1, InitKeeps DEF Sd!EnterIdleAgain
  <2> QED BY <1>3, <2>1, <2>2 DEF Sd!EnterIdleAgain
<1>4. CASE Sd!SendIfCond
  <2>1. PICK r : /\ Sd!Exchange("cmd8", r)
                 /\ Sd!GoOn("cmd55") \/ Sd!EndInit("fail")
    BY <1>4 DEF Sd!SendIfCond
  <2>2. card' = [kind |-> card'.kind, mode |-> card'.mode, crc |-> card'.crc]
        /\ card'.kind = card.kind
    BY <2>1, ExchangeKeeps
  <2>3. CASE Sd!GoOn("cmd55")
    <3>1. known' => known /\ card' = card
      BY <2>1, ExchangeWith DEF BlockSteps
    <3>2. Goes
      BY <1>0, <1>4, <2>3, <3>1 DEF Sd!SendIfCond, Sd!GoOn, Sd!still, InitSofar
    <3> QED BY <2>2, <3>2, InitKeeps
  <2> QED BY <2>1, <2>2, <2>3, EndKeeps
<1>5. CASE Sd!AppCmd
  <2>1. PICK r : /\ Sd!Exchange("cmd55", r)
                 /\ call' = IF r = "idle" THEN [call EXCEPT !.next = "acmd41"]
                            ELSE [call EXCEPT !.next = "cmd1", !.type = "mmc"]
    BY <1>5 DEF Sd!AppCmd
  <2>2. card' = [kind |-> card'.kind, mode |-> card'.mode, crc |-> card'.crc]
        /\ card'.kind = card.kind
    BY <2>1, ExchangeKeeps
  <2>3. ASSUME known'
        PROVE  /\ card' = card /\ card.mode = "idle" /\ card.kind # "none"
               /\ call.type = "none" /\ (r = "idle" <=> card.kind # "mmc")
    BY <1>0, <1>5, <2>1, <2>3, ExchangeWith
       DEF Sd!AppCmd, BlockSteps, Sd!Answers, InitSofar
  <2>4. Goes
    BY <1>0, <1>5, <2>1, <2>3 DEF Sd!AppCmd, Sd!still, InitSofar, Told
  <2> QED BY <2>2, <2>4, InitKeeps
<1>6. CASE Sd!SdSendOpCond
  <2>1. PICK r : /\ Sd!Exchange("acmd41", r)
                 /\ \/ /\ r = "ready"
                       /\ call' = [call EXCEPT !.next = "ocr", !.type = "sd"]
                       /\ UNCHANGED <<result, Sd!still>>
                    \/ r # "ready" /\ Sd!GoOn("cmd55")
                    \/ r # "ready" /\ Sd!EndInit("fail")
    BY <1>6 DEF Sd!SdSendOpCond
  <2>2. card' = [kind |-> card'.kind, mode |-> card'.mode, crc |-> card'.crc]
        /\ card'.kind = card.kind
    BY <2>1, ExchangeKeeps
  <2>3. known' => /\ known /\ card.kind \notin {"none", "mmc"}
                  /\ r = "ready" => card'.mode = "ready"
                  /\ r # "ready" => card' = card
    BY <1>0, <1>6, <2>1, ExchangeWith DEF Sd!SdSendOpCond, BlockSteps, InitSofar
  <2>4. CASE r = "ready"
    <3>1. Goes
      BY <1>0, <1>6, <2>1, <2>2, <2>3, <2>4
         DEF Sd!SdSendOpCond, Sd!still, InitSofar
    <3> QED BY <2>2, <3>1, InitKeeps
  <2>5. CASE r # "ready" /\ Sd!GoOn("cmd55")
    <3>1. Goes
      BY <1>0, <1>6, <2>3, <2>5 DEF Sd!SdSendOpCond, Sd!GoOn, Sd!still, InitSofar
    <3> QED BY <2>2, <3>1, InitKeeps
  <2> QED BY <2>1, <2>2, <2>4, <2>5, EndKeeps
<1>7. CASE Sd!DetectSdhc
  <2>1. PICK r : /\ Sd!Exchange("ocr", r)
                 /\ call' = [call EXCEPT !.next = "cmd1",
                     !.type = IF r \in {"idle", "ready"} /\ card.kind = "sdhc"
                              THEN "sdhc" ELSE @]
    BY <1>7 DEF Sd!DetectSdhc
  <2>2. card' = [kind |-> card'.kind, mode |-> card'.mode, crc |-> card'.crc]
        /\ card'.kind = card.kind
    BY <2>1, ExchangeKeeps
  <2>3. ASSUME known'
        PROVE  /\ card' = card /\ card.mode = "ready" /\ card.kind # "none"
               /\ call.type = "sd" /\ (card.kind # "mmc" => r = "ready")
    BY <1>0, <1>7, <2>1, <2>3, ExchangeWith
       DEF Sd!DetectSdhc, BlockSteps, Sd!Answers, InitSofar
  <2>4. Goes
    BY <1>0, <1>7, <2>1, <2>3 DEF Sd!DetectSdhc, Sd!still, InitSofar, Told
  <2> QED BY <2>2, <2>4, InitKeeps
<1>8. CASE Sd!SendOpCond
  <2>1. PICK r : /\ Sd!Exchange("cmd1", r)
                 /\ \/ r = "ready" /\ Sd!GoOn("crc")
                    \/ r # "ready" /\ Sd!GoOn("cmd1")
                    \/ r # "ready" /\ Sd!EndInit("fail")
    BY <1>8 DEF Sd!SendOpCond
  <2>2. card' = [kind |-> card'.kind, mode |-> card'.mode, crc |-> card'.crc]
        /\ card'.kind = card.kind
    BY <2>1, ExchangeKeeps
  <2>3. known' => /\ known /\ card.kind # "none" /\ Told(call.type)
                  /\ card.mode \in {"idle", "ready"}
                  /\ r = "ready" => card'.mode = "ready"
                  /\ r # "ready" => card' = card
    BY <1>0, <1>8, <2>1, ExchangeWith DEF Sd!SendOpCond, BlockSteps, InitSofar
  <2>4. CASE r = "ready" /\ Sd!GoOn("crc")
    <3>1. Goes
      BY <1>0, <1>8, <2>2, <2>3, <2>4
         DEF Sd!SendOpCond, Sd!GoOn, Sd!still, InitSofar, Told
    <3> QED BY <2>2, <3>1, InitKeeps
  <2>5. CASE r # "ready" /\ Sd!GoOn("cmd1")
    <3>1. Goes
      BY <1>0, <1>8, <2>3, <2>5
         DEF Sd!SendOpCond, Sd!GoOn, Sd!still, InitSofar, Told
    <3> QED BY <2>2, <3>1, InitKeeps
  <2> QED BY <2>1, <2>2, <2>4, <2>5, EndKeeps
<1>9. CASE Sd!SetCrcMode
  <2>1. PICK r : /\ Sd!Exchange("crc", r)
                 /\ IF r \in {"idle", "ready"} THEN Sd!GoOn("blocklen")
                    ELSE Sd!EndInit("fail")
    BY <1>9 DEF Sd!SetCrcMode
  <2>2. card' = [kind |-> card'.kind, mode |-> card'.mode, crc |-> card'.crc]
        /\ card'.kind = card.kind
    BY <2>1, ExchangeKeeps
  <2>3. CASE r \in {"idle", "ready"}
    <3>1. known' => /\ known /\ card.kind # "none" /\ Told(call.type)
                    /\ card'.mode = "ready" /\ card'.crc = useCrc
      BY <1>0, <1>9, <2>1, <2>3, ExchangeWith
         DEF Sd!SetCrcMode, BlockSteps, InitSofar
    <3>2. Goes
      BY <1>0, <1>9, <2>1, <2>2, <2>3, <3>1
         DEF Sd!SetCrcMode, Sd!GoOn, Sd!still, InitSofar, Told
    <3> QED BY <2>2, <3>2, InitKeeps
  <2> QED BY <2>1, <2>2, <2>3, EndKeeps
<1>10. CASE Sd!SetBlocksize
  <2>1. PICK r : /\ Sd!Exchange("blocklen", r)
                 /\ Sd!EndInit(IF r = "ready" THEN "ok" ELSE "fail")
                 /\ cardType' = IF r = "ready" THEN call.type ELSE cardType
    BY <1>10 DEF Sd!SetBlocksize
  <2>2. card' = [kind |-> card'.kind, mode |-> card'.mode, crc |-> card'.crc]
        /\ card'.kind = card.kind
    BY <2>1, ExchangeKeeps
  <2>3. CASE r = "ready"
    <3>1. known' => Told(call.type) /\ card.crc = useCrc /\ card' = card
      BY <1>0, <1>10, <2>1, ExchangeWith
         DEF Sd!SetBlocksize, BlockSteps, InitSofar
    <3> QED BY <2>1, <2>2, <2>3, <3>1, EndKeeps DEF Told
  <2> QED BY <2>1, <2>2, <2>3, EndKeeps
<1> QED
  BY <1>1, <1>2, <1>3, <1>4, <1>5, <1>6, <1>7, <1>8, <1>9, <1>10

-------------------------------------------------------------------------------
(* A card that was told apart takes the address for the block it is meant   *)
(* for.                                                                     *)
LEMMA BlockOfAddress ==
  ASSUME Sd!SdCardAssumption, NEW b \in Sd!Numbers, Told(cardType)
  PROVE  Sd!Addressed(Sd!Address(b)) = b
<1>1. b \in Nat /\ BlockSize \in Nat /\ 0 < BlockSize
  BY DEF Sd!Numbers, Sd!SdCardAssumption
<1>2. (b * BlockSize) \div BlockSize = b
  BY <1>1
<1> QED BY <1>2 DEF Told, Sd!Addressed, Sd!Address

(* What is left to show of a step of a call for a block.                    *)
LEMMA BlockKeeps ==
  ASSUME CardInv, BusInv', call'.block \in Sd!Numbers, call' = Sd!Idle,
         call.next \in BlockSteps,
         UNCHANGED <<useCrc, cardType, slots>>,
         card' = card, known' <=> known,
         flash' = [b \in Sd!Numbers |-> flash'[b]],
         kept' = [b \in Sd!Numbers |-> kept'[b]],
         useCrc => \A b \in Sd!Numbers : kept'[b] \in {"any", flash'[b]},
         result'.res = "ok" /\ useCrc /\ Sd!Known =>
           result'.data \in {"any", "capacity", kept'[result'.block]}
             \/ kept'[result'.block] = "any"
  PROVE  CardInv'
<1>1. InitSofar'
  <2>1. call'.next = "idle"
    BY DEF Sd!Idle
  <2> QED BY <2>1 DEF InitSofar
<1>2. Sd!Known' <=> Sd!Known
  BY DEF Sd!Known
<1>3. Sd!Known => Told(cardType)' /\ card'.crc = useCrc'
  BY DEF CardInv, Told
<1>4. Sd!ReadsWhatWasWritten'
  BY <1>2 DEF Sd!ReadsWhatWasWritten
<1> QED BY <1>1, <1>2, <1>3, <1>4 DEF CardInv

LEMMA CardBlockStep ==
  ASSUME Sd!SdCardAssumption, CardInv, BusInv', call'.block \in Sd!Numbers,
         Sd!BlockFails \/ Sd!ReadBlock \/ Sd!WriteBlock \/ Sd!GetCapacity
  PROVE  CardInv'
<1>1. /\ flash = [b \in Sd!Numbers |-> flash[b]] /\ kept = [b \in Sd!Numbers |-> kept[b]]
      /\ useCrc => \A b \in Sd!Numbers : kept[b] \in {"any", flash[b]}
      /\ useCrc \in BOOLEAN
  BY DEF CardInv
<1>0. call.block \in Sd!Numbers
  BY DEF CardInv
<1>2. CASE Sd!BlockFails
  <2>1. call.next \in BlockSteps /\ card' = card /\ (known' <=> known)
    BY <1>2, ExchangeOfBlock DEF Sd!BlockFails, BlockSteps
  <2>2. /\ call' = Sd!Idle /\ UNCHANGED <<useCrc, cardType, slots, flash>>
        /\ result'.res = "fail"
        /\ kept' = kept \/ kept' = [kept EXCEPT ![call.block] = "any"]
    BY <1>2 DEF Sd!BlockFails, Sd!EndBlock, Sd!Done
  <2>3. /\ kept' = [b \in Sd!Numbers |-> kept'[b]]
        /\ useCrc => \A b \in Sd!Numbers : kept'[b] \in {"any", flash[b]}
    BY <1>1, <2>2
  <2> QED BY <1>1, <2>1, <2>2, <2>3, BlockKeeps
<1>3. CASE Sd!ReadBlock
  <2>1. call.next \in BlockSteps /\ card' = card /\ (known' <=> known)
    BY <1>3, ExchangeOfBlock DEF Sd!ReadBlock, BlockSteps
  <2>2. /\ call' = Sd!Idle /\ UNCHANGED <<useCrc, cardType, slots, flash, kept>>
        /\ result'.block = call.block
        /\ \/ result'.data = flash[Sd!Addressed(Sd!Address(call.block))]
           \/ useCrc => result'.res = "fail"
    BY <1>3 DEF Sd!ReadBlock, Sd!EndBlock, Sd!Done
  <2>3. Sd!Known => Sd!Addressed(Sd!Address(call.block)) = call.block
    BY <1>0, <2>1, BlockOfAddress DEF CardInv
  <2>4. result'.res = "ok" /\ useCrc /\ Sd!Known =>
          \/ result'.data \in {"any", "capacity", kept'[result'.block]}
          \/ kept'[result'.block] = "any"
    BY <1>0, <1>1, <2>2, <2>3
  <2> QED BY <1>1, <2>1, <2>2, <2>4, BlockKeeps
<1>4. CASE Sd!WriteBlock
  <2>1. call.next \in BlockSteps /\ card' = card /\ (known' <=> known)
    BY <1>4, ExchangeOfBlock DEF Sd!WriteBlock, BlockSteps
  <2>2. PICK v \in {call.data} \cup (IF Sd!Damaged THEN {"damaged"} ELSE {}),
             busy \in {FALSE} \cup {Sd!Damaged} :
          LET refused == card.crc /\ v = "damaged"
              res == IF refused \/ busy THEN "fail" ELSE "ok"
          IN /\ flash' = IF refused THEN flash
                         ELSE [flash EXCEPT
                                 ![Sd!Addressed(Sd!Address(call.block))] = v]
             /\ Sd!EndBlock(res, "any")
             /\ kept' = IF Sd!Known THEN [kept EXCEPT ![call.block] =
                                        IF res = "ok" THEN call.data ELSE "any"]
                        ELSE [b \in Sd!Numbers |-> "any"]
    BY <1>4 DEF Sd!WriteBlock
  <2>3. /\ call' = Sd!Idle /\ UNCHANGED <<useCrc, cardType, slots>>
        /\ result'.data = "any"
    BY <2>2 DEF Sd!EndBlock, Sd!Done
  <2>4. /\ flash' = [b \in Sd!Numbers |-> flash'[b]]
        /\ kept' = [b \in Sd!Numbers |-> kept'[b]]
    BY <1>1, <2>2
  <2>5. ASSUME useCrc, NEW b \in Sd!Numbers PROVE kept'[b] \in {"any", flash'[b]}
    <3>1. CASE ~Sd!Known
      BY <2>2, <3>1
    <3>2. CASE Sd!Known
      <4>1. Sd!Addressed(Sd!Address(call.block)) = call.block /\ card.crc
        BY <2>1, <2>5, <3>2, BlockOfAddress DEF CardInv
      <4>2. CASE b = call.block
        BY <1>1, <2>2, <2>5, <3>2, <4>1, <4>2
      <4>3. CASE b # call.block
        BY <1>1, <2>2, <2>5, <3>2, <4>1, <4>3
      <4> QED BY <4>2, <4>3
    <3> QED BY <3>1, <3>2
  <2> QED BY <2>1, <2>3, <2>4, <2>5, BlockKeeps
<1>5. CASE Sd!GetCapacity
  <2>1. call.next \in BlockSteps /\ card' = card /\ (known' <=> known)
    BY <1>5, ExchangeOfBlock DEF Sd!GetCapacity, BlockSteps
  <2>2. /\ call' = Sd!Idle /\ UNCHANGED <<useCrc, cardType, slots, flash, kept>>
        /\ result'.data = IF (cardType = "sdhc") = (card.kind = "sdhc")
                          THEN "capacity" ELSE "damaged"
    BY <1>5 DEF Sd!GetCapacity, Sd!EndBlock, Sd!Done
  <2>3. Sd!Known => result'.data = "capacity"
    BY <2>1, <2>2 DEF CardInv, Told
  <2> QED BY <1>1, <2>1, <2>2, <2>3, BlockKeeps
<1> QED BY <1>2, <1>3, <1>4, <1>5

LEMMA CardStep ==
  Sd!SdCardAssumption /\ CardInv /\ [Sd!Next]_Sd!sdVars => CardInv'
<1> SUFFICES ASSUME Sd!SdCardAssumption, CardInv, [Sd!Next]_Sd!sdVars PROVE CardInv'
  OBVIOUS
<1>1. BusInv' /\ call'.block \in Sd!Numbers
  BY BusStep, BlockStep DEF CardInv
<1>2. ASSUME NEW cmd \in BlockSteps, NEW b, NEW v, Sd!BeginBlock(cmd, b, v)
      PROVE  CardInv'
  <2>1. /\ UNCHANGED <<useCrc, card, flash, cardType, result, slots, known, kept>>
        /\ call.next = "idle" /\ call'.next = cmd
    BY <1>2 DEF Sd!BeginBlock, Sd!still, Sd!Idle
  <2>2. Sd!Idle.next = "idle"
    BY DEF Sd!Idle
  <2>3. call' # Sd!Idle
    BY <1>2, <2>1, <2>2 DEF BlockSteps
  <2>4. Sd!ReadsWhatWasWritten'
    BY <2>3 DEF Sd!ReadsWhatWasWritten, Sd!Idle
  <2>5. InitSofar'
    BY <1>2, <2>1 DEF InitSofar, BlockSteps
  <2>6. (Sd!Known' <=> Sd!Known) /\ (Told(cardType)' <=> Told(cardType))
    BY <2>1 DEF Sd!Known, Told
  <2> QED BY <1>1, <1>2, <2>1, <2>4, <2>5, <2>6 DEF CardInv
<1>3. CASE Sd!DriverOpen \/ Sd!DriverClose
  <2>1. /\ UNCHANGED <<useCrc, card, flash, cardType, call, result, known, kept>>
        /\ known => Sd!Known
    BY <1>3 DEF Sd!DriverOpen, Sd!DriverClose, Sd!Known
  <2>2. Sd!Known' => Sd!Known
    BY <2>1 DEF Sd!Known
  <2>3. (InitSofar' <=> InitSofar) /\ (Told(cardType)' <=> Told(cardType))
    BY <2>1 DEF InitSofar, Told
  <2>4. Sd!ReadsWhatWasWritten'
    BY <2>1, <2>2 DEF Sd!ReadsWhatWasWritten, CardInv
  <2> QED BY <1>1, <2>1, <2>2, <2>3, <2>4 DEF CardInv
<1>4. CASE Sd!Exchanged
  <2>1. /\ card' \in [kind : CardKinds, mode : {"raw"}, crc : {FALSE}]
        /\ flash' = [b \in Sd!Numbers |-> "blank"] /\ kept' = flash'
        /\ ~known' /\ useCrc' = useCrc
    BY <1>4 DEF Sd!Exchanged
  <2> QED BY <1>1, <2>1 DEF CardInv, Sd!Known, Sd!ReadsWhatWasWritten
<1>5. CASE UNCHANGED Sd!sdVars
  <2>1. Sd!ReadsWhatWasWritten'
    BY <1>5 DEF Sd!sdVars, Sd!ReadsWhatWasWritten, Sd!Known, CardInv
  <2> QED BY <1>1, <1>5, <2>1 DEF Sd!sdVars, CardInv, InitSofar, Sd!Known, Told
<1>6. CASE \/ \E b \in Sd!Numbers : \/ Sd!BeginBlock("read", b, "any")
                                  \/ \E v \in Values : Sd!BeginBlock("write", b, v)
           \/ Sd!BeginBlock("csd", 0, "any")
  BY <1>2, <1>6 DEF BlockSteps
<1> QED
  BY <1>1, <1>3, <1>4, <1>5, <1>6, CardInitStep, CardBlockStep DEF Sd!Next

LEMMA CardInvariant == ASSUME Sd!SdCardAssumption PROVE Sd!Spec => []CardInv
<1>1. Sd!Init => CardInv
  BY CardInit
<1>2. CardInv /\ [Sd!Next]_Sd!sdVars => CardInv'
  BY CardStep
<1> QED BY <1>1, <1>2, PTL DEF Sd!Spec

(* A block that sdcard_read returns as read holds what was last written to  *)
(* it, with CRCs on and after an init that got each of its commands through *)
(* in the retries: whatever commands and data are damaged since, however    *)
(* the card counts its blocks and however many of them there are.           *)
THEOREM ReadsWhatIsWritten == Sd!Spec => []ReadsWhatWasWritten
<1>1. CardInv => ReadsWhatWasWritten
  BY DEF CardInv, ReadsWhatWasWritten
<1>2. Sd!Spec => []CardInv
  BY StorageAssumption, CardInvariant
<1> QED BY <1>1, <1>2, PTL

------------------------------------------------------------------------------
(* The parameters: what VALID means for the next start.                     *)

(* The pieces in which a value is written.                                  *)
LEMMA PairPieces ==
  ASSUME NEW a \in {0, 2}, NEW v, Len(v) = 2
  PROVE  LET one == <<Eep!Write(a + 1, SubSeq(v, 2, 2))>> \o <<>>
         IN Eep!Stores(a, v) =
              IF chip = "avr" THEN <<Eep!Write(a, SubSeq(v, 1, 1))>> \o one
                              ELSE <<Eep!Write(a, SubSeq(v, 1, 2))>> \o <<>>
<1> DEFINE Piece(k) == Eep!PieceLen(a + k, Len(v) - k)
           First(k) == <<Eep!Write(a + k, SubSeq(v, k + 1, k + Piece(k)))>>
           Rest(f) == [k \in 0 .. Len(v) |->
                         IF k = Len(v) THEN <<>> ELSE First(k) \o f[k + Piece(k)]]
           From == CHOOSE From : From = Rest(From)
           f == [k \in 0 .. 2 |->
                   IF k = 2 THEN <<>> ELSE IF k = 1 THEN First(1) \o <<>>
                   ELSE IF chip = "avr" THEN First(0) \o (First(1) \o <<>>)
                   ELSE First(0) \o <<>>]
<1>1. Eep!Stores(a, v) = From[0]
  BY Zenon DEF Eep!Stores
<1>2. Piece(0) = (IF chip = "avr" THEN 1 ELSE 2) /\ Piece(1) = 1
  BY DEF Eep!PieceLen
<1>3. 0 .. 2 = {0, 1, 2}
  OBVIOUS
<1> HIDE DEF First, Piece
<1>4. f = Rest(f)
  <2>1. f[2] = <<>> /\ f[1] = First(1) \o <<>>
        /\ f[0] = IF chip = "avr" THEN First(0) \o (First(1) \o <<>>)
                  ELSE First(0) \o <<>>
    BY <1>3
  <2> HIDE DEF f
  <2>2. \A k \in {0, 1, 2} :
          f[k] = IF k = Len(v) THEN <<>> ELSE First(k) \o f[k + Piece(k)]
    <3>1. f[2] = <<>> /\ Len(v) = 2
      BY <2>1
    <3>2. 1 + Piece(1) = 2 /\ 0 + Piece(0) = IF chip = "avr" THEN 1 ELSE 2
      BY <1>2
    <3>3. f[1] = First(1) \o f[1 + Piece(1)]
      BY <2>1, <3>2, Zenon
    <3>4. f[0] = First(0) \o f[0 + Piece(0)]
      BY <2>1, <3>2, Zenon
    <3>5. 0 # 2 /\ 1 # 2
      OBVIOUS
    <3> QED BY <3>1, <3>3, <3>4, <3>5, Zenon
  <2>3. f = [k \in 0 .. Len(v) |->
               IF k = Len(v) THEN <<>> ELSE First(k) \o f[k + Piece(k)]]
    <3>1. f = [k \in 0 .. 2 |-> f[k]]
      BY DEF f
    <3>2. [k \in 0 .. 2 |-> f[k]] = [k \in 0 .. 2 |->
             IF k = Len(v) THEN <<>> ELSE First(k) \o f[k + Piece(k)]]
      BY <1>3, <2>2, Zenon
    <3> QED BY <3>1, <3>2
  <2> QED BY <2>3
<1> HIDE DEF f
<1>5. From = Rest(From)
  BY <1>4, Zenon
<1> HIDE DEF From
<1>6. From[2] = <<>> /\ From[1] = First(1) \o From[2]
      /\ From[0] = First(0) \o From[Piece(0)]
  <2>1. \A k \in 0 .. 2 :
          From[k] = IF k = 2 THEN <<>> ELSE First(k) \o From[k + Piece(k)]
    BY <1>5
  <2> QED BY <1>2, <2>1
<1>7. /\ First(0) = <<Eep!Write(a, SubSeq(v, 1, Piece(0)))>>
      /\ First(1) = <<Eep!Write(a + 1, SubSeq(v, 2, 2))>>
  BY <1>2 DEF First
<1> QED BY <1>1, <1>2, <1>6, <1>7

LEMMA OnePiece ==
  ASSUME NEW a \in Nat, NEW v, Len(v) = 1
  PROVE  Eep!Stores(a, v) = <<Eep!Write(a, SubSeq(v, 1, 1))>> \o <<>>
<1> DEFINE Piece(k) == Eep!PieceLen(a + k, Len(v) - k)
           First(k) == <<Eep!Write(a + k, SubSeq(v, k + 1, k + Piece(k)))>>
           Rest(f) == [k \in 0 .. Len(v) |->
                         IF k = Len(v) THEN <<>> ELSE First(k) \o f[k + Piece(k)]]
           From == CHOOSE From : From = Rest(From)
           f == [k \in 0 .. 1 |-> IF k = 1 THEN <<>> ELSE First(0) \o <<>>]
<1>1. Eep!Stores(a, v) = From[0]
  BY Zenon DEF Eep!Stores
<1>2. Piece(0) = 1
  BY DEF Eep!PieceLen
<1>3. 0 .. 1 = {0, 1}
  OBVIOUS
<1> HIDE DEF First, Piece
<1>4. f = Rest(f)
  <2>1. f[1] = <<>> /\ f[0] = First(0) \o <<>>
    BY <1>3
  <2> HIDE DEF f
  <2>2. \A k \in {0, 1} :
          f[k] = IF k = Len(v) THEN <<>> ELSE First(k) \o f[k + Piece(k)]
    <3>1. 0 + Piece(0) = 1 /\ 0 # 1
      BY <1>2
    <3> QED BY <2>1, <3>1, Zenon
  <2>3. f = [k \in 0 .. Len(v) |->
               IF k = Len(v) THEN <<>> ELSE First(k) \o f[k + Piece(k)]]
    <3>1. f = [k \in 0 .. 1 |-> f[k]]
      BY DEF f
    <3>2. [k \in 0 .. 1 |-> f[k]] = [k \in 0 .. 1 |->
             IF k = Len(v) THEN <<>> ELSE First(k) \o f[k + Piece(k)]]
      BY <1>3, <2>2, Zenon
    <3> QED BY <3>1, <3>2
  <2> QED BY <2>3
<1> HIDE DEF f
<1>5. From = Rest(From)
  BY <1>4, Zenon
<1> HIDE DEF From
<1>6. From[1] = <<>> /\ From[0] = First(0) \o From[Piece(0)]
  <2>1. \A k \in 0 .. 1 :
          From[k] = IF k = 1 THEN <<>> ELSE First(k) \o From[k + Piece(k)]
    BY <1>5
  <2> QED BY <1>2, <2>1
<1>7. First(0) = <<Eep!Write(a, SubSeq(v, 1, 1))>>
  BY <1>2 DEF First
<1> QED BY <1>1, <1>2, <1>6, <1>7

(* What the writes of s touch.                                              *)
Covers(w, b) == w.at <= b /\ b < w.at + Len(w.bytes)
Has(s, b) == \E i \in 1 .. Len(s) : Covers(s[i], b)

LEMMA HasJoined ==
  ASSUME NEW S, NEW p \in Seq(S), NEW q \in Seq(S)
  PROVE  /\ p \o q \in Seq(S)
         /\ \A b : Has(p, b) \/ Has(q, b) => Has(p \o q, b)
<1> DEFINE s == p \o q
<1>1. /\ s \in Seq(S) /\ Len(s) = Len(p) + Len(q)
      /\ \A i \in 1 .. Len(s) :
           s[i] = IF i <= Len(p) THEN p[i] ELSE q[i - Len(p)]
      /\ Len(p) \in Nat /\ Len(q) \in Nat
  BY ConcatProperties, LenProperties
<1> HIDE DEF s
<1>2. ASSUME NEW b, Has(p, b) PROVE Has(s, b)
  <2>1. PICK i \in 1 .. Len(p) : Covers(p[i], b)
    BY <1>2 DEF Has
  <2>2. i \in 1 .. Len(s) /\ s[i] = p[i]
    BY <1>1, <2>1
  <2> QED BY <2>1, <2>2 DEF Has
<1>3. ASSUME NEW b, Has(q, b) PROVE Has(s, b)
  <2>1. PICK i \in 1 .. Len(q) : Covers(q[i], b)
    BY <1>3 DEF Has
  <2> DEFINE j == Len(p) + i
  <2>2. j \in 1 .. Len(s) /\ ~(j <= Len(p)) /\ j - Len(p) = i
    BY <1>1, <2>1
  <2> HIDE DEF j
  <2>3. s[j] = q[i]
    BY <1>1, <2>2
  <2> QED BY <2>1, <2>2, <2>3 DEF Has
<1> QED BY <1>1, <1>2, <1>3 DEF s

LEMMA HasOne ==
  ASSUME NEW S, NEW w \in S
  PROVE  /\ <<w>> \in Seq(S) /\ <<w>> \o <<>> \in Seq(S)
         /\ \A b : Covers(w, b) => Has(<<w>>, b) /\ Has(<<w>> \o <<>>, b)
<1>1. <<w>> \in Seq(S) /\ Len(<<w>>) = 1 /\ <<w>>[1] = w /\ <<>> \in Seq(S)
  OBVIOUS
<1>2. \A b : Covers(w, b) => Has(<<w>>, b)
  BY <1>1 DEF Has
<1> QED BY <1>1, <1>2, HasJoined

(* HeaderByte(mem, b) is what param_sync writes to byte b before the data.      *)
HeaderByte(mem, b) ==
  IF b = 0 THEN CrcWord(Eep!Data(mem))[1]
  ELSE IF b = 1 THEN CrcWord(Eep!Data(mem))[2]
  ELSE IF b = 2 THEN Total[version]
  ELSE IF b = 3 THEN 0 ELSE version

HeaderWrites(mem) ==
  {Eep!Write(b, <<HeaderByte(mem, b)>>) : b \in 0 .. 4}
    \cup {Eep!Write(b, <<HeaderByte(mem, b), HeaderByte(mem, b + 1)>>) : b \in {0, 2}}

(* What a sync has still to write, or has written.                          *)
Syncing ==
  pc = "sync" =>
    /\ todo \in Seq(HeaderWrites(cells))
    /\ \A b \in 0 .. 4 : cells[b] = HeaderByte(cells, b) \/ Has(todo, b)

ParamsType ==
  /\ cells = [b \in 0 .. 260 |-> cells[b]]
  /\ version \in Eep!Versions
  /\ pc \in {"off", "idle"} => todo = <<>>
  /\ pc = "block" => unmarked

ParamsInv == ParamsType /\ Syncing /\ Eep!ValidIsSafe

LEMMA ParamsTables ==
  ASSUME NEW v \in Eep!Versions
  PROVE  /\ Total[v] \in 1 .. 255
         /\ \A i \in DOMAIN Table[v] : Table[v][i].kind \in Eep!Kinds
<1>1. Eep!TableAssumption
  BY StorageAssumption
<1>2. Total[v] \in 1 .. 255
  BY <1>1 DEF Eep!TableAssumption
<1>3. ASSUME NEW i \in DOMAIN Table[v] PROVE Table[v][i].kind \in Eep!Kinds
  <2> DEFINE R == [kind : Eep!Kinds, offset : Nat, default : Seq(Eep!Byte)]
  <2>2. Table[v] \in Seq(R)
    BY <1>1, Zenon DEF Eep!TableAssumption
  <2>3. i \in 1 .. Len(Table[v])
    BY <2>2, LenProperties
  <2>1. Table[v][i] \in R
    BY <2>2, <2>3, ElementOfSeq
  <2> QED BY <2>1
<1> QED BY <1>2, <1>3

LEMMA CrcIsWord ==
  ASSUME NEW d PROVE CrcWord(d) = <<CrcWord(d)[1], CrcWord(d)[2]>>
  BY DEF CrcWord

LEMMA TwoBytes ==
  ASSUME NEW mem, NEW b \in Nat
  PROVE  Eep!Read(mem, b, 2) = <<mem[b], mem[b + 1]>>
<1>1. Eep!Read(mem, b, 2) = [i \in 1 .. 2 |-> mem[b + i - 1]]
  BY DEF Eep!Read
<1>2. b + 1 - 1 = b /\ b + 2 - 1 = b + 1
  OBVIOUS
<1> QED BY <1>1, <1>2

(* A header as param_sync writes it is accepted.                            *)
LEMMA HeaderIsAccepted ==
  ASSUME \A b \in 0 .. 4 : cells[b] = HeaderByte(cells, b)
  PROVE  Eep!CheckResult(cells) = "OK"
<1>1. /\ cells[0] = CrcWord(Eep!Data(cells))[1]
      /\ cells[1] = CrcWord(Eep!Data(cells))[2]
      /\ cells[2] = Total[version] /\ cells[3] = 0 /\ cells[4] = version
  BY DEF HeaderByte
<1>2. Eep!Read(cells, 0, 2) = CrcWord(Eep!Data(cells))
  <2>1. Eep!Read(cells, 0, 2) = <<cells[0], cells[1]>>
    BY TwoBytes
  <2> QED BY <1>1, <2>1, CrcIsWord
<1>3. Eep!Read(cells, 2, 2) = <<Total[version], 0>>
  BY <1>1, TwoBytes
<1> QED
  BY <1>1, <1>2, <1>3
  DEF Eep!CheckResult, Eep!SizeBytes, Eep!AtSize, Eep!AtCrc, Eep!AtVersion

LEMMA HeaderWriteFacts ==
  ASSUME NEW mem, NEW w \in HeaderWrites(mem)
  PROVE  /\ w.at \in 0 .. 4 /\ Len(w.bytes) \in 1 .. 2
         /\ w.at + Len(w.bytes) <= 5
         /\ \A b \in 0 .. 4 : Covers(w, b) => w.bytes[b - w.at + 1] = HeaderByte(mem, b)
<1>1. CASE \E b \in 0 .. 4 : w = Eep!Write(b, <<HeaderByte(mem, b)>>)
  <2>1. PICK b \in 0 .. 4 : w = Eep!Write(b, <<HeaderByte(mem, b)>>)
    BY <1>1
  <2>2. w.at = b /\ w.bytes = <<HeaderByte(mem, b)>>
    BY <2>1 DEF Eep!Write
  <2>3. Len(w.bytes) = 1 /\ w.bytes[1] = HeaderByte(mem, b)
    BY <2>2
  <2>4. ASSUME NEW c \in 0 .. 4, Covers(w, c) PROVE c = b
    BY <2>2, <2>3, <2>4 DEF Covers
  <2>5. b - b + 1 = 1
    OBVIOUS
  <2> QED BY <2>2, <2>3, <2>4, <2>5
<1>2. CASE \E b \in {0, 2} :
             w = Eep!Write(b, <<HeaderByte(mem, b), HeaderByte(mem, b + 1)>>)
  <2>1. PICK b \in {0, 2} :
               w = Eep!Write(b, <<HeaderByte(mem, b), HeaderByte(mem, b + 1)>>)
    BY <1>2
  <2>2. w.at = b /\ w.bytes = <<HeaderByte(mem, b), HeaderByte(mem, b + 1)>>
    BY <2>1 DEF Eep!Write
  <2>3. /\ Len(w.bytes) = 2 /\ w.bytes[1] = HeaderByte(mem, b)
        /\ w.bytes[2] = HeaderByte(mem, b + 1)
    BY <2>2
  <2>4. ASSUME NEW c \in 0 .. 4, Covers(w, c) PROVE c = b \/ c = b + 1
    BY <2>2, <2>3, <2>4 DEF Covers
  <2>5. b - b + 1 = 1 /\ (b + 1) - b + 1 = 2
    OBVIOUS
  <2> QED BY <2>2, <2>3, <2>4, <2>5
<1> QED BY <1>1, <1>2 DEF HeaderWrites

(* A write to the header changes no data.                                   *)
LEMMA HeaderWritten ==
  ASSUME ParamsType, NEW w \in HeaderWrites(cells), cells' = Eep!Written(cells, w),
         version' = version
  PROVE  /\ cells' = [b \in 0 .. 260 |-> cells'[b]]
         /\ (Eep!Data(cells))' = Eep!Data(cells)
         /\ \A b \in 0 .. 4 :
              cells'[b] = IF Covers(w, b) THEN HeaderByte(cells, b) ELSE cells[b]
         /\ \A b \in 5 .. 260 : cells'[b] = cells[b]
<1>1. cells' = [b \in 0 .. 260 |-> IF b \in w.at .. w.at + Len(w.bytes) - 1
                                   THEN w.bytes[b - w.at + 1] ELSE cells[b]]
  BY DEF Eep!Written, ParamsType
<1>2. /\ w.at \in 0 .. 4 /\ Len(w.bytes) \in 1 .. 2
      /\ w.at + Len(w.bytes) <= 5
      /\ \A b \in 0 .. 4 :
           Covers(w, b) => w.bytes[b - w.at + 1] = HeaderByte(cells, b)
  BY HeaderWriteFacts
<1>3. \A b \in 0 .. 260 : b \in w.at .. w.at + Len(w.bytes) - 1 <=> Covers(w, b)
  <2> DEFINE m == w.at
             n == Len(w.bytes)
  <2>1. m \in Int /\ n \in Int
    BY <1>2
  <2> HIDE DEF m, n
  <2>2. \A b \in 0 .. 260 : b \in m .. m + n - 1 <=> m <= b /\ b < m + n
    BY <2>1
  <2> QED BY <2>2 DEF Covers, m, n
<1>31. \A b \in 0 .. 260 :
         cells'[b] = IF Covers(w, b) THEN w.bytes[b - w.at + 1] ELSE cells[b]
  <2> TAKE b \in 0 .. 260
  <2>1. cells'[b] = IF b \in w.at .. w.at + Len(w.bytes) - 1
                    THEN w.bytes[b - w.at + 1] ELSE cells[b]
    BY <1>1, Zenon
  <2> QED BY <1>3, <2>1, Zenon
<1>4. \A b \in 0 .. 4 :
        cells'[b] = IF Covers(w, b) THEN HeaderByte(cells, b) ELSE cells[b]
  <2> TAKE b \in 0 .. 4
  <2>1. b \in 0 .. 260
    OBVIOUS
  <2> QED BY <1>2, <1>31, <2>1, Zenon
<1>5. \A b \in 5 .. 260 : cells'[b] = cells[b]
  <2> TAKE b \in 5 .. 260
  <2>1. b \in 0 .. 260 /\ ~Covers(w, b)
    BY <1>2 DEF Covers
  <2> QED BY <1>31, <2>1, Zenon
<1>6. Total[version] \in 1 .. 255
  BY ParamsTables DEF ParamsType
<1>7. \A i \in 1 .. Total[version] : cells'[6 + i - 1] = cells[6 + i - 1]
  BY <1>5, <1>6
<1>8. (Eep!Data(cells))' = Eep!Data(cells)
  BY <1>7 DEF Eep!Data, Eep!Read, Eep!AtData
<1> QED BY <1>1, <1>4, <1>5, <1>8

LEMMA PieceIs ==
  ASSUME NEW S, NEW s, NEW m \in Int, NEW n \in Int, m <= n, NEW t \in Seq(S),
         \A i \in m .. n : s[i] \in S,
         Len(t) = n - m + 1, \A i \in 1 .. n - m + 1 : t[i] = s[m + i - 1]
  PROVE  SubSeq(s, m, n) = t
<1>1. /\ SubSeq(s, m, n) \in Seq(S) /\ Len(SubSeq(s, m, n)) = n - m + 1
      /\ \A i \in 1 .. n - m + 1 : SubSeq(s, m, n)[i] = s[m + i - 1]
  BY SubSeqProperties
<1> QED BY <1>1, SeqEqual

LEMMA Pieces ==
  ASSUME NEW x, NEW y
  PROVE  /\ SubSeq(<<x>>, 1, 1) = <<x>>
         /\ SubSeq(<<x, y>>, 1, 1) = <<x>>
         /\ SubSeq(<<x, y>>, 2, 2) = <<y>>
         /\ SubSeq(<<x, y>>, 1, 2) = <<x, y>>
<1> DEFINE S == {x, y}
<1>1. <<x>> \in Seq(S) /\ <<y>> \in Seq(S) /\ <<x, y>> \in Seq(S)
      /\ Len(<<x>>) = 1 /\ Len(<<y>>) = 1 /\ Len(<<x, y>>) = 2
      /\ <<x>>[1] = x /\ <<y>>[1] = y /\ <<x, y>>[1] = x /\ <<x, y>>[2] = y
  OBVIOUS
<1>2. SubSeq(<<x>>, 1, 1) = <<x>>
  <2> DEFINE s == <<x>>
             t == <<x>>
  <2>1. \A i \in 1 .. 1 : s[i] \in S
    OBVIOUS
  <2>2. /\ t \in Seq(S) /\ Len(t) = 1 - 1 + 1
        /\ \A i \in 1 .. 1 - 1 + 1 : t[i] = s[1 + i - 1]
    OBVIOUS
  <2> HIDE DEF s, t
  <2>3. 1 \in Int /\ 1 \in Int /\ 1 <= 1
    OBVIOUS
  <2>4. SubSeq(s, 1, 1) = t
    BY <2>1, <2>2, <2>3, PieceIs, Zenon
  <2> QED BY <2>4 DEF s, t
<1>3. SubSeq(<<x, y>>, 1, 1) = <<x>>
  <2> DEFINE s == <<x, y>>
             t == <<x>>
  <2>1. \A i \in 1 .. 1 : s[i] \in S
    OBVIOUS
  <2>2. /\ t \in Seq(S) /\ Len(t) = 1 - 1 + 1
        /\ \A i \in 1 .. 1 - 1 + 1 : t[i] = s[1 + i - 1]
    OBVIOUS
  <2> HIDE DEF s, t
  <2>3. 1 \in Int /\ 1 \in Int /\ 1 <= 1
    OBVIOUS
  <2>4. SubSeq(s, 1, 1) = t
    BY <2>1, <2>2, <2>3, PieceIs, Zenon
  <2> QED BY <2>4 DEF s, t
<1>4. SubSeq(<<x, y>>, 2, 2) = <<y>>
  <2> DEFINE s == <<x, y>>
             t == <<y>>
  <2>1. \A i \in 2 .. 2 : s[i] \in S
    OBVIOUS
  <2>2. /\ t \in Seq(S) /\ Len(t) = 2 - 2 + 1
        /\ \A i \in 1 .. 2 - 2 + 1 : t[i] = s[2 + i - 1]
    OBVIOUS
  <2> HIDE DEF s, t
  <2>3. 2 \in Int /\ 2 \in Int /\ 2 <= 2
    OBVIOUS
  <2>4. SubSeq(s, 2, 2) = t
    BY <2>1, <2>2, <2>3, PieceIs, Zenon
  <2> QED BY <2>4 DEF s, t
<1>5. SubSeq(<<x, y>>, 1, 2) = <<x, y>>
  <2> DEFINE s == <<x, y>>
             t == <<x, y>>
  <2>1. \A i \in 1 .. 2 : s[i] \in S
    OBVIOUS
  <2>2. /\ t \in Seq(S) /\ Len(t) = 2 - 1 + 1
        /\ \A i \in 1 .. 2 - 1 + 1 : t[i] = s[1 + i - 1]
    OBVIOUS
  <2> HIDE DEF s, t
  <2>3. 1 \in Int /\ 2 \in Int /\ 1 <= 2
    OBVIOUS
  <2>4. SubSeq(s, 1, 2) = t
    BY <2>1, <2>2, <2>3, PieceIs, Zenon
  <2> QED BY <2>4 DEF s, t
<1> QED BY <1>2, <1>3, <1>4, <1>5

LEMMA SyncStarts ==
  ASSUME ParamsType
  PROVE  /\ Eep!SyncStores \in Seq(HeaderWrites(cells))
         /\ \A b \in 0 .. 4 : Has(Eep!SyncStores, b)
<1> DEFINE S == HeaderWrites(cells)
           H(b) == HeaderByte(cells, b)
<1>1. /\ \A b \in 0 .. 4 : Eep!Write(b, <<H(b)>>) \in S
      /\ \A b \in {0, 2} : Eep!Write(b, <<H(b), H(b + 1)>>) \in S
  BY DEF HeaderWrites
<1>2. /\ CrcWord(Eep!Data(cells)) = <<H(0), H(0 + 1)>>
      /\ Eep!SizeBytes = <<H(2), H(2 + 1)>> /\ <<version>> = <<H(4)>>
  BY CrcIsWord DEF HeaderByte, Eep!SizeBytes
<1> HIDE DEF S, H
<1>3. ASSUME NEW b \in {0, 2}
      PROVE  /\ Eep!Stores(b, <<H(b), H(b + 1)>>) \in Seq(S)
             /\ Has(Eep!Stores(b, <<H(b), H(b + 1)>>), b)
             /\ Has(Eep!Stores(b, <<H(b), H(b + 1)>>), b + 1)
  <2> DEFINE v == <<H(b), H(b + 1)>>
             x == Eep!Write(b, <<H(b)>>)
             y == Eep!Write(b + 1, <<H(b + 1)>>)
             z == Eep!Write(b, v)
  <2>1. /\ Len(v) = 2 /\ SubSeq(v, 1, 1) = <<H(b)>>
        /\ SubSeq(v, 2, 2) = <<H(b + 1)>> /\ SubSeq(v, 1, 2) = v
    BY Pieces
  <2>2. x \in S /\ y \in S /\ z \in S
    BY <1>1
  <2>3. Covers(x, b) /\ Covers(y, b + 1) /\ Covers(z, b) /\ Covers(z, b + 1)
    BY DEF Covers, Eep!Write
  <2> HIDE DEF v
  <2>4. Eep!Stores(b, v) = IF chip = "avr" THEN <<x>> \o (<<y>> \o <<>>)
                                          ELSE <<z>> \o <<>>
    BY <2>1, PairPieces
  <2> HIDE DEF x, y, z
  <2>5. CASE chip = "avr"
    <3>1. /\ <<x>> \in Seq(S) /\ <<y>> \o <<>> \in Seq(S)
          /\ Has(<<x>>, b) /\ Has(<<y>> \o <<>>, b + 1)
      BY <2>2, <2>3, HasOne
    <3>2. /\ <<x>> \o (<<y>> \o <<>>) \in Seq(S)
          /\ \A c : Has(<<x>>, c) \/ Has(<<y>> \o <<>>, c) =>
                   Has(<<x>> \o (<<y>> \o <<>>), c)
      BY <3>1, HasJoined, Zenon
    <3>3. Eep!Stores(b, v) = <<x>> \o (<<y>> \o <<>>)
      BY <2>4, <2>5
    <3> QED BY <3>1, <3>2, <3>3, Zenon DEF v
  <2>6. CASE chip # "avr"
    <3>1. <<z>> \o <<>> \in Seq(S) /\ Has(<<z>> \o <<>>, b)
          /\ Has(<<z>> \o <<>>, b + 1)
      BY <2>2, <2>3, HasOne
    <3> QED BY <2>4, <2>6, <3>1 DEF v
  <2> QED BY <2>5, <2>6
<1>4. /\ Eep!Stores(4, <<H(4)>>) \in Seq(S)
      /\ Has(Eep!Stores(4, <<H(4)>>), 4)
  <2> DEFINE v == <<H(4)>>
             x == Eep!Write(4, v)
  <2>1. Len(v) = 1 /\ SubSeq(v, 1, 1) = v
    BY Pieces
  <2>2. x \in S
    BY <1>1
  <2>3. Covers(x, 4)
    BY DEF Covers, Eep!Write
  <2> HIDE DEF v
  <2>4. Eep!Stores(4, v) = <<x>> \o <<>>
    BY <2>1, OnePiece
  <2> HIDE DEF x
  <2> QED BY <2>2, <2>3, <2>4, HasOne DEF v
<1> DEFINE p == Eep!Stores(0, <<H(0), H(0 + 1)>>)
           q == Eep!Stores(2, <<H(2), H(2 + 1)>>)
           r == Eep!Stores(4, <<H(4)>>)
<1>5. Eep!SyncStores = (p \o q) \o r
  BY <1>2 DEF Eep!SyncStores, Eep!AtCrc, Eep!AtSize, Eep!AtVersion
<1>6. /\ p \in Seq(S) /\ q \in Seq(S) /\ r \in Seq(S)
      /\ Has(p, 0) /\ Has(p, 1) /\ Has(q, 2) /\ Has(q, 3) /\ Has(r, 4)
  <2>1. 0 + 1 = 1 /\ 2 + 1 = 3
    OBVIOUS
  <2> QED BY <1>3, <1>4, <2>1
<1> HIDE DEF p, q, r
<1>7. /\ p \o q \in Seq(S)
      /\ Has(p \o q, 0) /\ Has(p \o q, 1) /\ Has(p \o q, 2) /\ Has(p \o q, 3)
  BY <1>6, HasJoined
<1>8. /\ (p \o q) \o r \in Seq(S)
      /\ \A b \in {0, 1, 2, 3, 4} : Has((p \o q) \o r, b)
  BY <1>6, <1>7, HasJoined
<1> QED BY <1>5, <1>8 DEF S

LEMMA SomeVersion == MaxVersion \in Nat \ {0}
<1>1. Eep!TableAssumption
  BY StorageAssumption
<1> QED BY <1>1 DEF Eep!TableAssumption

LEMMA ParamsInit == Eep!Init => ParamsInv
<1> SUFFICES ASSUME Eep!Init PROVE ParamsInv
  OBVIOUS
<1>1. version = 1 /\ pc = "off" /\ todo = <<>> /\ cells = [b \in 0 .. 6 + 254 |-> 255]
  BY DEF Eep!Init, Eep!AtData
<1>2. cells = [b \in 0 .. 260 |-> cells[b]]
  BY <1>1
<1>3. version \in Eep!Versions
  BY <1>1, SomeVersion DEF Eep!Versions
<1> QED
  BY <1>1, <1>2, <1>3 DEF ParamsInv, ParamsType, Syncing, Eep!ValidIsSafe

(* One write of a call that is writing.                                     *)
LEMMA StoreStep == ParamsInv /\ Eep!Store => ParamsInv'
<1> SUFFICES ASSUME ParamsInv, Eep!Store PROVE ParamsInv'
  OBVIOUS
<1>1. /\ todo # <<>> /\ cells' = Eep!Written(cells, Head(todo)) /\ todo' = Tail(todo)
      /\ version' = version /\ pc' = pc /\ unmarked' = unmarked
  BY DEF Eep!Store, Eep!ghosts
<1>2. pc \notin {"off", "idle"}
  BY <1>1 DEF ParamsInv, ParamsType
<1>3. cells' = [b \in 0 .. 260 |-> cells'[b]]
  <2>1. DOMAIN cells = 0 .. 260
    BY DEF ParamsInv, ParamsType
  <2> QED BY <1>1, <2>1 DEF Eep!Written
<1>4. ParamsType'
  BY <1>1, <1>2, <1>3 DEF ParamsInv, ParamsType, Eep!Versions
<1>5. ASSUME pc = "sync" PROVE Syncing'
  <2> DEFINE w == Head(todo)
  <2>1. /\ todo \in Seq(HeaderWrites(cells))
        /\ \A b \in 0 .. 4 : cells[b] = HeaderByte(cells, b) \/ Has(todo, b)
    BY <1>5 DEF ParamsInv, Syncing
  <2>2. /\ w \in HeaderWrites(cells) /\ Tail(todo) \in Seq(HeaderWrites(cells))
        /\ w = todo[1] /\ Len(todo) \in Nat /\ Len(Tail(todo)) = Len(todo) - 1
        /\ \A i \in 1 .. Len(Tail(todo)) : Tail(todo)[i] = todo[i + 1]
    BY <1>1, <2>1, HeadTailProperties, LenProperties
  <2>3. cells' = Eep!Written(cells, w)
    BY <1>1
  <2> HIDE DEF w
  <2>4. /\ (Eep!Data(cells))' = Eep!Data(cells)
        /\ \A b \in 0 .. 4 :
             cells'[b] = IF Covers(w, b) THEN HeaderByte(cells, b) ELSE cells[b]
    BY <1>1, <2>2, <2>3, HeaderWritten DEF ParamsInv
  <2>5. \A b : HeaderByte(cells, b)' = HeaderByte(cells, b)
    BY <1>1, <2>4 DEF HeaderByte
  <2>6. HeaderWrites(cells)' = HeaderWrites(cells)
    BY <2>5, Zenon DEF HeaderWrites, Eep!Write
  <2>7. ASSUME NEW b \in 0 .. 4
        PROVE  cells'[b] = HeaderByte(cells, b) \/ Has(todo', b)
    <3>1. CASE Covers(w, b) \/ cells[b] = HeaderByte(cells, b)
      BY <2>4, <3>1
    <3>2. CASE ~Covers(w, b) /\ cells[b] # HeaderByte(cells, b)
      <4>1. PICK i \in 1 .. Len(todo) : Covers(todo[i], b)
        BY <2>1, <3>2 DEF Has
      <4>2. i # 1
        BY <2>2, <3>2, <4>1
      <4>3. i - 1 \in 1 .. Len(Tail(todo)) /\ (i - 1) + 1 = i
        BY <2>2, <4>1, <4>2
      <4>4. Covers(Tail(todo)[i - 1], b)
        BY <2>2, <4>1, <4>3
      <4> QED BY <1>1, <4>3, <4>4 DEF Has
    <3> QED BY <3>1, <3>2
  <2>8. todo' \in Seq(HeaderWrites(cells)')
    BY <1>1, <2>2, <2>6
  <2>9. \A b \in 0 .. 4 : cells'[b] = HeaderByte(cells, b)' \/ Has(todo', b)
    BY <2>5, <2>7
  <2> QED BY <2>8, <2>9 DEF Syncing, Has, Covers
<1>6. ASSUME pc # "sync" PROVE Syncing'
  BY <1>1, <1>6 DEF Syncing
<1> QED BY <1>1, <1>2, <1>4, <1>5, <1>6 DEF ParamsInv, Eep!ValidIsSafe

(* What leaves the header and the data as they are.                         *)
LEMMA SyncingKept ==
  ASSUME Syncing, UNCHANGED <<version, cells, todo, pc>>
  PROVE  Syncing'
  BY DEF Syncing, HeaderByte, HeaderWrites, Has, Covers, Eep!Data, Eep!Read,
         Eep!Write

LEMMA CheckKept ==
  ASSUME UNCHANGED <<version, cells>>
  PROVE  (Eep!CheckResult(cells))' = Eep!CheckResult(cells)
  BY DEF Eep!CheckResult, Eep!Data, Eep!Read, Eep!SizeBytes

LEMMA ParamsStep == ParamsInv /\ [Eep!Next]_Eep!vars => ParamsInv'
<1> SUFFICES ASSUME ParamsInv, [Eep!Next]_Eep!vars PROVE ParamsInv'
  OBVIOUS
<1> USE DEF ParamsInv
<1>1. CASE UNCHANGED Eep!vars
  <2>1. UNCHANGED <<version, cells, todo, pc, eepState, unmarked>>
    BY <1>1 DEF Eep!vars
  <2> QED
    BY <2>1, SyncingKept, CheckKept DEF ParamsType, Eep!ValidIsSafe, Eep!Versions
<1>2. CASE Eep!Boot
  <2>1. pc' \in {"idle", "reset"} /\ (pc' = "idle" => todo' = <<>>)
        /\ UNCHANGED <<version, cells, unmarked>>
        /\ (pc' = "idle" => Eep!CheckResult(cells) = "OK")
    BY <1>2 DEF Eep!Boot, ParamsType
  <2> QED
    BY <2>1, CheckKept DEF ParamsType, Syncing, Eep!ValidIsSafe, Eep!Versions
<1>3. CASE Eep!Check
  <2>1. pc = "idle" /\ UNCHANGED <<version, cells, todo, pc, unmarked>>
        /\ (eepState' = "VALID" => Eep!CheckResult(cells) = "OK")
    BY <1>3 DEF Eep!Check, Eep!ghosts
  <2> QED
    BY <2>1, CheckKept DEF ParamsType, Syncing, Eep!ValidIsSafe, Eep!Versions
<1>4. CASE Eep!Reset
  <2>1. pc' = "reset" /\ UNCHANGED <<version, cells>>
    BY <1>4 DEF Eep!Reset
  <2> QED BY <2>1 DEF ParamsType, Syncing, Eep!ValidIsSafe, Eep!Versions
<1>5. CASE Eep!StartSync
  <2>1. pc' = "sync" /\ todo' = Eep!SyncStores /\ UNCHANGED <<version, cells>>
    BY <1>5 DEF Eep!StartSync
  <2>2. /\ todo' \in Seq(HeaderWrites(cells))
        /\ \A b \in 0 .. 4 : Has(todo', b)
    BY <2>1, SyncStarts
  <2>3. HeaderWrites(cells)' = HeaderWrites(cells)
    BY <2>1 DEF HeaderWrites, HeaderByte, Eep!Write, Eep!Data, Eep!Read
  <2>4. Syncing'
    BY <2>1, <2>2, <2>3 DEF Syncing, Has, Covers
  <2> QED BY <2>1, <2>4 DEF ParamsType, Eep!ValidIsSafe, Eep!Versions
<1>6. CASE Eep!EndSync
  <2>1. /\ pc = "sync" /\ todo = <<>> /\ pc' = "idle"
        /\ UNCHANGED <<version, cells, todo>>
    BY <1>6 DEF Eep!EndSync
  <2>2. \A b \in 0 .. 4 : cells[b] = HeaderByte(cells, b)
    <3>1. \A b : ~Has(todo, b)
      BY <2>1 DEF Has
    <3> QED BY <2>1, <3>1 DEF Syncing
  <2>3. Eep!CheckResult(cells) = "OK"
    BY <2>2, HeaderIsAccepted
  <2> QED
    BY <2>1, <2>3, CheckKept
       DEF ParamsType, Syncing, Eep!ValidIsSafe, Eep!Versions
<1>7. CASE Eep!SetSome
  <2>1. PICK i \in DOMAIN Table[version], s \in Settings :
          Eep!Set(Table[version][i], s[2])
    BY <1>7 DEF Eep!SetSome
  <2>2. Table[version][i].kind \in Eep!Kinds
    BY ParamsTables DEF ParamsType
  <2>3. /\ pc' = Table[version][i].kind /\ UNCHANGED <<version, cells>>
        /\ (pc' = "block" => unmarked')
    BY <2>1 DEF Eep!Set
  <2>4. pc' \notin {"off", "idle", "sync"}
    BY <2>2, <2>3 DEF Eep!Kinds
  <2> QED BY <2>3, <2>4 DEF ParamsType, Syncing, Eep!ValidIsSafe, Eep!Versions
<1>8. CASE Eep!EndSet
  <2>1. /\ pc \in Eep!Kinds /\ todo = <<>> /\ pc' = "idle"
        /\ UNCHANGED <<version, cells, todo, unmarked>>
        /\ (eepState' = "VALID" => pc = "block")
    BY <1>8 DEF Eep!EndSet, Eep!ghosts
  <2> QED BY <2>1 DEF ParamsType, Syncing, Eep!ValidIsSafe, Eep!Versions
<1>9. CASE Eep!Store
  BY <1>9, StoreStep
<1>10. CASE Eep!PowerFail
  <2>1. pc' = "off" /\ todo' = <<>> /\ UNCHANGED <<version, cells>>
    BY <1>10 DEF Eep!PowerFail
  <2> QED BY <2>1 DEF ParamsType, Syncing, Eep!ValidIsSafe, Eep!Versions
<1>11. CASE Eep!Update
  <2>1. /\ pc = "off" /\ pc' = "off" /\ UNCHANGED <<cells, todo>>
        /\ version < MaxVersion /\ version' = version + 1
    BY <1>11 DEF Eep!Update
  <2>2. version' \in Eep!Versions
    <3>1. version \in 1 .. MaxVersion
      BY DEF ParamsType, Eep!Versions
    <3>2. version + 1 \in 1 .. MaxVersion
      BY <2>1, <3>1, SomeVersion
    <3> QED BY <2>1, <3>2 DEF Eep!Versions
  <2> QED BY <2>1, <2>2 DEF ParamsType, Syncing, Eep!ValidIsSafe, Eep!Versions
<1> QED
  BY <1>1, <1>2, <1>3, <1>4, <1>5, <1>6, <1>7, <1>8, <1>9, <1>10, <1>11
  DEF Eep!Next

(* Parameters that are VALID between two calls outlive a power failure:     *)
(* param_check accepts them, since every setter but the one for blocks      *)
(* marks them DIRTY and param_sync writes CRC, size and version, in pieces  *)
(* of the EEPROM's size, to the header before it says VALID.                *)
THEOREM ValidSurvives == Eep!Spec => []ValidIsSafe
<1>1. ParamsInv => ValidIsSafe
  BY DEF ParamsInv, ValidIsSafe
<1> QED BY <1>1, ParamsInit, ParamsStep, PTL DEF Eep!Spec

(* f counts up to L in steps; there always is such an f.                    *)
Recurs(f, L, one, step) ==
  f = [k \in 0 .. L |-> IF k = L THEN <<>> ELSE one[k] \o f[k + step[k]]]

LEMMA RecursionEnds ==
  ASSUME NEW L \in Nat, NEW one, NEW step,
         \A k \in 0 .. L - 1 : step[k] \in 1 .. L - k
  PROVE  \E f : Recurs(f, L, one, step)
<1> DEFINE Good(f, m) ==
             /\ f = [k \in m .. L |-> f[k]]
             /\ \A k \in m .. L : f[k] = IF k = L THEN <<>>
                                         ELSE one[k] \o f[k + step[k]]
           S == {m \in 0 .. L : \E f : Good(f, m)}
<1>1. L \in S
  <2> DEFINE f == [k \in L .. L |-> <<>>]
  <2>1. L .. L = {L}
    OBVIOUS
  <2>2. Good(f, L)
    BY <2>1
  <2> HIDE DEF f, Good
  <2> QED BY <2>2
<1>2. S \in SUBSET Nat /\ S # {}
  <2> HIDE DEF Good
  <2>1. \A m \in 0 .. L : m \in Nat
    OBVIOUS
  <2>2. \A m \in S : m \in 0 .. L
    OBVIOUS
  <2> HIDE DEF S
  <2> QED BY <2>1, <2>2, <1>1
<1>3. PICK m \in S : \A n \in S : m <= n
  <2> HIDE DEF S
  <2> QED BY <1>2, Least
<1>4. PICK f : Good(f, m)
  BY <1>3
<1>5. m \in 0 .. L
  BY <1>3
<1>6. m = 0
  <2> SUFFICES ASSUME 0 < m PROVE FALSE
    BY <1>5
  <2> DEFINE j == m - 1
             g == [k \in j .. L |-> IF k = j THEN one[j] \o f[j + step[j]]
                                    ELSE f[k]]
  <2>1. j \in 0 .. L - 1 /\ j + step[j] \in m .. L
    <3>1. j \in 0 .. L - 1
      BY <1>5
    <3>2. step[j] \in 1 .. L - j
      BY <3>1
    <3> QED BY <3>1, <3>2, <1>5
  <2>2. \A k \in m .. L : k # j /\ k \in j .. L /\ g[k] = f[k]
    BY <1>5
  <2>3. g[j] = one[j] \o f[j + step[j]]
    <3>1. j \in j .. L
      BY <2>1
    <3> HIDE DEF j
    <3> QED BY <3>1
  <2>4. g[j + step[j]] = f[j + step[j]]
    BY <2>1, <2>2
  <2>5. \A k \in m .. L : k # L => k + step[k] \in m .. L
    <3> TAKE k \in m .. L
    <3> SUFFICES ASSUME k # L PROVE k + step[k] \in m .. L
      OBVIOUS
    <3>1. k \in 0 .. L - 1
      BY <1>5
    <3>2. step[k] \in 1 .. L - k
      BY <3>1
    <3> QED BY <3>1, <3>2, <1>5
  <2>6. g = [k \in j .. L |-> g[k]]
    OBVIOUS
  <2>7. \A k \in j .. L : k = j \/ k \in m .. L
    BY <1>5
  <2>8. j # L
    BY <2>1
  <2> HIDE DEF g
  <2>9. ASSUME NEW k \in j .. L
        PROVE  g[k] = IF k = L THEN <<>> ELSE one[k] \o g[k + step[k]]
    <3>1. CASE k = j
      BY <3>1, <2>3, <2>4, <2>8
    <3>2. CASE k \in m .. L
      BY <3>2, <2>2, <2>5, <1>4
    <3> QED BY <3>1, <3>2, <2>7
  <2>10. Good(g, j)
    BY <2>6, <2>9
  <2> HIDE DEF Good
  <2>11. j \in S
    BY <2>1, <2>10
  <2> HIDE DEF S
  <2>12. m <= j
    BY <1>3, <2>11
  <2> QED BY <2>12, <1>5
<1>7. f = [k \in 0 .. L |-> f[k]]
  BY <1>4, <1>6
<1>8. [k \in 0 .. L |-> f[k]]
        = [k \in 0 .. L |-> IF k = L THEN <<>> ELSE one[k] \o f[k + step[k]]]
  BY <1>4, <1>6
<1>9. f = [k \in 0 .. L |-> IF k = L THEN <<>> ELSE one[k] \o f[k + step[k]]]
  BY <1>7, <1>8
<1>10. Recurs(f, L, one, step)
  BY <1>9, Zenon DEF Recurs
<1> QED BY <1>10

(* What a piece of v may be when v goes to address a: it lies where the     *)
(* hardware takes it, within v's place, and holds v's bytes.                *)
PiecesOf(a, v, S) ==
  {w \in [at : Nat, bytes : Seq(S)] :
     /\ 0 < Len(w.bytes) /\ w.at % Len(w.bytes) = 0
     /\ a <= w.at /\ w.at + Len(w.bytes) <= a + Len(v)
     /\ \A k \in 1 .. Len(w.bytes) : w.bytes[k] = v[w.at - a + k]}

LEMMA PieceFits ==
  ASSUME NEW a \in Nat, NEW left \in Nat, 0 < left
  PROVE  LET n == Eep!PieceLen(a, left)
         IN  n \in 1 .. left /\ n \in {1, 2, 4} /\ a % n = 0
<1>1. a % 1 = 0
  OBVIOUS
<1> QED BY <1>1 DEF Eep!PieceLen

LEMMA OnePieceOf ==
  ASSUME NEW S, NEW a \in Nat, NEW v \in Seq(S), NEW k \in Nat, NEW n \in Nat,
         0 < n, k + n <= Len(v), (a + k) % n = 0
  PROVE  LET w == Eep!Write(a + k, SubSeq(v, k + 1, k + n))
         IN  /\ w \in PiecesOf(a, v, S)
             /\ \A b \in Nat : a + k <= b /\ b < a + k + n => Covers(w, b)
<1> DEFINE s == SubSeq(v, k + 1, k + n)
           w == Eep!Write(a + k, s)
<1>1. /\ s \in Seq(S) /\ Len(s) = n
      /\ \A i \in 1 .. n : s[i] = v[k + i]
  <2>1. Len(v) \in Nat /\ \A i \in 1 .. Len(v) : v[i] \in S
    BY LenProperties, ElementOfSeq
  <2>2. \A i \in k + 1 .. k + n : v[i] \in S
    BY <2>1
  <2>3. k + 1 \in Int /\ k + n \in Int /\ k + 1 <= k + n
    OBVIOUS
  <2> DEFINE m == k + 1
             e == k + n
  <2>4. /\ SubSeq(v, m, e) \in Seq(S) /\ Len(SubSeq(v, m, e)) = e - m + 1
        /\ \A i \in 1 .. e - m + 1 : SubSeq(v, m, e)[i] = v[m + i - 1]
    <3>1. m \in Int /\ e \in Int /\ m <= e /\ \A i \in m .. e : v[i] \in S
      BY <2>2, <2>3
    <3> HIDE DEF m, e
    <3>2. m <= e + 1
      BY <3>1
    <3> QED BY <3>1, <3>2, SubSeqProperties
  <2>5. e - m + 1 = n /\ \A i \in 1 .. n : m + i - 1 = k + i
    OBVIOUS
  <2> HIDE DEF m, e
  <2>6. SubSeq(v, m, e) = s
    BY DEF m, e
  <2> HIDE DEF s
  <2> QED BY <2>4, <2>5, <2>6
<1> HIDE DEF s
<1>2. w.at = a + k /\ w.bytes = s /\ w \in [at : Nat, bytes : Seq(S)]
  BY <1>1 DEF Eep!Write
<1> HIDE DEF w
<1>3. \A i \in 1 .. n : (a + k) - a + i = k + i
  OBVIOUS
<1>4. w \in PiecesOf(a, v, S)
  <2>1. a + k + n <= a + Len(v)
    BY LenProperties
  <2>2. a <= a + k
    OBVIOUS
  <2>3. \A i \in 1 .. n : s[i] = v[(a + k) - a + i]
    BY <1>1, <1>3
  <2> QED BY <1>1, <1>2, <2>1, <2>2, <2>3 DEF PiecesOf
<1>5. \A b \in Nat : a + k <= b /\ b < a + k + n => Covers(w, b)
  BY <1>1, <1>2 DEF Covers
<1> QED BY <1>4, <1>5 DEF w, s

LEMMA StoresPieces ==
  ASSUME NEW S, NEW a \in Nat, NEW v \in Seq(S)
  PROVE  /\ Eep!Stores(a, v) \in Seq(PiecesOf(a, v, S))
         /\ \A b \in Nat : a <= b /\ b < a + Len(v) => Has(Eep!Stores(a, v), b)
<1> DEFINE L == Len(v)
           All == PiecesOf(a, v, S)
           n(k) == Eep!PieceLen(a + k, L - k)
           W(k) == Eep!Write(a + k, SubSeq(v, k + 1, k + n(k)))
           Rest(f) == [k \in 0 .. L |->
                         IF k = L THEN <<>> ELSE <<W(k)>> \o f[k + n(k)]]
           From == CHOOSE From : From = Rest(From)
<1>1. Eep!Stores(a, v) = From[0]
  BY Zenon DEF Eep!Stores
<1>2. L \in Nat
  BY LenProperties
<1>3. ASSUME NEW k \in 0 .. L - 1
      PROVE  /\ n(k) \in 1 .. L - k
             /\ W(k) \in All
             /\ \A b \in Nat : a + k <= b /\ b < a + (k + n(k)) => Covers(W(k), b)
  <2>1. a + k \in Nat /\ L - k \in Nat /\ 0 < L - k
    BY <1>2
  <2>2. n(k) \in 1 .. L - k /\ (a + k) % n(k) = 0
    BY <2>1, PieceFits
  <2> DEFINE m == n(k)
  <2>3. k \in Nat /\ m \in Nat /\ 0 < m /\ k + m <= Len(v) /\ (a + k) % m = 0
    BY <2>1, <2>2, <1>2
  <2> HIDE DEF m
  <2>4. /\ Eep!Write(a + k, SubSeq(v, k + 1, k + m)) \in All
        /\ \A b \in Nat : a + k <= b /\ b < a + k + m =>
             Covers(Eep!Write(a + k, SubSeq(v, k + 1, k + m)), b)
    BY <2>3, OnePieceOf
  <2>5. a + k + m = a + (k + m)
    BY <2>3
  <2> QED BY <2>2, <2>4, <2>5 DEF m
<1> HIDE DEF All, W, n
<1>4. \E f : f = Rest(f)
  <2> DEFINE one == [k \in 0 .. L |-> <<W(k)>>]
             step == [k \in 0 .. L |-> n(k)]
  <2>1. \A k \in 0 .. L - 1 : step[k] \in 1 .. L - k
    BY <1>2, <1>3
  <2>2. \A k \in 0 .. L : one[k] = <<W(k)>> /\ step[k] = n(k)
    OBVIOUS
  <2> HIDE DEF one, step, L
  <2>5. \E f : Recurs(f, L, one, step)
    BY <2>1, <1>2, RecursionEnds
  <2>3. PICK f : f = [k \in 0 .. L |-> IF k = L THEN <<>>
                                       ELSE one[k] \o f[k + step[k]]]
    BY <2>5, Zenon DEF Recurs
  <2>4. [k \in 0 .. L |-> IF k = L THEN <<>> ELSE one[k] \o f[k + step[k]]]
          = [k \in 0 .. L |-> IF k = L THEN <<>> ELSE <<W(k)>> \o f[k + n(k)]]
    BY <2>2
  <2> QED BY <2>3, <2>4
<1>5. From = Rest(From)
  BY <1>4, Zenon
<1> HIDE DEF From
<1>6. \A k \in 0 .. L :
        From[k] = IF k = L THEN <<>> ELSE <<W(k)>> \o From[k + n(k)]
  BY <1>5
<1> HIDE DEF L
<1> DEFINE Good(k) == /\ From[k] \in Seq(All)
                      /\ \A b \in Nat : a + k <= b /\ b < a + L => Has(From[k], b)
           B == {m \in 0 .. L : ~Good(L - m)}
<1>7. B = {}
  <2> SUFFICES ASSUME B # {} PROVE FALSE
    OBVIOUS
  <2>1. B \in SUBSET Nat
    <3> HIDE DEF Good
    <3> QED BY <1>2
  <2>2. PICK m \in B : \A j \in B : m <= j
    <3> HIDE DEF B
    <3> QED BY <2>1, Least
  <2> DEFINE k == L - m
  <2>3. m \in 0 .. L /\ ~Good(k)
    BY <2>2
  <2>4. k \in 0 .. L
    BY <2>3, <1>2
  <2>5. CASE k = L
    <3>1. From[k] = <<>>
      <4> HIDE DEF k
      <4> QED BY <2>4, <2>5, <1>6
    <3>2. <<>> \in Seq(All)
      OBVIOUS
    <3>3. \A b \in Nat : ~(a + k <= b /\ b < a + L)
      BY <2>4, <2>5, <1>2
    <3> QED BY <2>3, <3>1, <3>2, <3>3
  <2>6. CASE k # L
    <3>1. k \in 0 .. L - 1
      BY <2>4, <2>6, <1>2
    <3> DEFINE e == k + n(k)
               j == L - e
    <3>2. n(k) \in 1 .. L - k /\ W(k) \in All
          /\ \A b \in Nat : a + k <= b /\ b < a + e => Covers(W(k), b)
      BY <3>1, <1>3
    <3>3. e \in 0 .. L /\ j \in 0 .. L /\ j < m /\ L - j = e
      BY <3>1, <3>2, <2>3, <1>2
    <3>4. From[k] = <<W(k)>> \o From[e]
      BY <2>4, <2>6, <1>6
    <3> HIDE DEF k, e, j
    <3>5. Good(e)
      <4>1. j \notin B
        <5> HIDE DEF B
        <5>1. m \in Nat /\ j \in Nat /\ ~(m <= j)
          BY <3>3, <2>3, <1>2
        <5> QED BY <5>1, <2>2
      <4> HIDE DEF Good
      <4> QED BY <4>1, <3>3
    <3>6. /\ <<W(k)>> \in Seq(All)
          /\ \A b : Covers(W(k), b) => Has(<<W(k)>>, b)
      BY <3>2, HasOne
    <3>7. /\ From[k] \in Seq(All)
          /\ \A b : Has(<<W(k)>>, b) \/ Has(From[e], b) => Has(From[k], b)
      <4> DEFINE p == <<W(k)>>
                 q == From[e]
      <4>1. p \in Seq(All) /\ q \in Seq(All)
        BY <3>5, <3>6
      <4> HIDE DEF p, q
      <4>2. p \o q \in Seq(All) /\ \A b : Has(p, b) \/ Has(q, b) => Has(p \o q, b)
        BY <4>1, HasJoined
      <4> QED BY <4>2, <3>4 DEF p, q
    <3>8. ASSUME NEW b \in Nat, a + k <= b, b < a + L
          PROVE  Has(From[k], b)
      <4>1. CASE b < a + e
        BY <4>1, <3>2, <3>6, <3>7, <3>8
      <4>2. CASE ~(b < a + e)
        <5>1. a + e <= b
          BY <4>2, <3>3, <1>2
        <5> QED BY <5>1, <3>5, <3>7, <3>8
      <4> QED BY <4>1, <4>2
    <3> QED BY <3>7, <3>8, <2>3 DEF k
  <2> QED BY <2>5, <2>6
<1>8. Good(0)
  <2>1. L \in 0 .. L /\ L - L = 0
    BY <1>2
  <2>2. L \notin B
    <3> HIDE DEF B
    <3> QED BY <1>7
  <2> HIDE DEF Good
  <2> QED BY <2>1, <2>2
<1> QED
  <2>1. From[0] \in Seq(All) /\ \A b \in Nat : a + 0 <= b /\ b < a + L => Has(From[0], b)
    BY <1>8
  <2>2. a + 0 = a
    OBVIOUS
  <2> QED BY <2>1, <2>2, <1>1 DEF All, L

(* f adds up what g has for 1, 2, ...; there always is such an f.           *)
AddsUp(f, L, g) ==
  f = [i \in 0 .. L |-> IF i = 0 THEN <<>> ELSE f[i - 1] \o g[i]]

LEMMA RecursionGrows ==
  ASSUME NEW L \in Nat, NEW g
  PROVE  \E f : AddsUp(f, L, g)
<1> DEFINE S == {m \in 0 .. L : ~ \E f : AddsUp(f, m, g)}
<1>1. S = {}
  <2> SUFFICES ASSUME S # {} PROVE FALSE
    OBVIOUS
  <2>1. S \in SUBSET Nat
    <3>1. 0 .. L \in SUBSET Nat
      OBVIOUS
    <3> QED BY <3>1
  <2>2. PICK m \in S : \A n \in S : m <= n
    <3> HIDE DEF S
    <3> QED BY <2>1, Least
  <2>3. m \in 0 .. L /\ ~ \E f : AddsUp(f, m, g)
    BY <2>2
  <2>4. CASE m = 0
    <3> DEFINE f == [i \in 0 .. 0 |-> <<>>]
    <3>1. f = [i \in 0 .. 0 |-> IF i = 0 THEN <<>> ELSE f[i - 1] \o g[i]]
      OBVIOUS
    <3> HIDE DEF f
    <3>2. AddsUp(f, 0, g)
      BY <3>1, Zenon DEF AddsUp
    <3> QED BY <2>3, <2>4, <3>2
  <2>5. CASE m # 0
    <3> DEFINE j == m - 1
    <3>1. j \in 0 .. L /\ ~(m <= j) /\ m = j + 1
      BY <2>3, <2>5
    <3>2. \E f : AddsUp(f, j, g)
      <4> HIDE DEF j
      <4>1. j \notin S
        <5> HIDE DEF S
        <5> QED BY <2>2, <3>1
      <4> QED BY <3>1, <4>1
    <3>3. PICK f : AddsUp(f, j, g)
      BY <3>2
    <3> DEFINE h == [i \in 0 .. m |-> IF i = m THEN f[j] \o g[m] ELSE f[i]]
    <3>4. \A i \in 0 .. j : f[i] = IF i = 0 THEN <<>> ELSE f[i - 1] \o g[i]
      <4> HIDE DEF j
      <4> QED BY <3>3 DEF AddsUp
    <3>5. \A i \in 0 .. m : h[i] = IF i = 0 THEN <<>> ELSE h[i - 1] \o g[i]
      <4> TAKE i \in 0 .. m
      <4>1. h[m] = f[j] \o g[m] /\ h[j] = f[j]
        BY <2>3, <3>1
      <4>2. CASE i = m
        BY <4>1, <4>2, <2>5
      <4>3. CASE i # m
        <5>1. i \in 0 .. j /\ (i # 0 => i - 1 \in 0 .. m /\ i - 1 # m)
          BY <4>3, <2>3
        <5>2. h[i] = f[i] /\ (i # 0 => h[i - 1] = f[i - 1])
          BY <5>1, <4>3
        <5> HIDE DEF h, j
        <5> QED BY <5>1, <5>2, <3>4
      <4> QED BY <4>2, <4>3
    <3>6. h = [i \in 0 .. m |-> h[i]]
      OBVIOUS
    <3> HIDE DEF h
    <3>7. h = [i \in 0 .. m |-> IF i = 0 THEN <<>> ELSE h[i - 1] \o g[i]]
      BY <3>5, <3>6
    <3>8. AddsUp(h, m, g)
      BY <3>7, Zenon DEF AddsUp
    <3> QED BY <3>8, <2>3
  <2> QED BY <2>4, <2>5
<1>2. L \in 0 .. L /\ L \notin S
  <2>1. L \in 0 .. L
    OBVIOUS
  <2> QED BY <1>1, <2>1
<1> QED BY <1>2

(* The entries of a table, and which byte of the data each of them is.      *)
LEMMA TableFacts ==
  ASSUME NEW v \in Eep!Versions
  PROVE  /\ Total[v] \in 1 .. 255
         /\ Len(Table[v]) \in Nat /\ DOMAIN Table[v] = 1 .. Len(Table[v])
         /\ \A i \in 1 .. Len(Table[v]) :
              /\ Table[v][i] \in
                   [kind : Eep!Kinds, offset : Nat, default : Seq(Eep!Byte)]
              /\ Len(Table[v][i].default) \in Nat
              /\ Eep!ParamEnd(Table[v][i]) <= Total[v]
<1> DEFINE R == [kind : Eep!Kinds, offset : Nat, default : Seq(Eep!Byte)]
<1>1. Eep!TableAssumption
  BY StorageAssumption
<1>2. /\ Total[v] \in 1 .. 255 /\ Table[v] \in Seq(R)
      /\ \A i, j \in DOMAIN Table[v] : Eep!ParamEnd(Table[v][i]) <= Total[v]
  BY <1>1, Zenon DEF Eep!TableAssumption
<1>3. Len(Table[v]) \in Nat /\ DOMAIN Table[v] = 1 .. Len(Table[v])
  BY <1>2, LenProperties
<1>4. ASSUME NEW i \in 1 .. Len(Table[v])
      PROVE  Table[v][i] \in R /\ Len(Table[v][i].default) \in Nat
  <2>1. Table[v][i] \in R
    BY <1>2, ElementOfSeq
  <2>2. Table[v][i].default \in Seq(Eep!Byte)
    BY <2>1
  <2> QED BY <2>1, <2>2, LenProperties
<1> QED BY <1>2, <1>3, <1>4

(* k is the entry for position i of the data.                               *)
IsEntry(k, i) ==
  LET p == Table[version][k]
  IN  i \in p.offset + 1 .. p.offset + Len(p.default)

LEMMA OneEntry ==
  ASSUME version \in Eep!Versions, NEW i \in Nat,
         NEW j \in 1 .. Len(Table[version]), IsEntry(j, i),
         NEW k \in 1 .. Len(Table[version]), IsEntry(k, i)
  PROVE  j = k
<1> DEFINE n == Len(Table[version])
           from(h) == Table[version][h].offset
           len(h) == Len(Table[version][h].default)
<1>1. /\ n \in Nat /\ DOMAIN Table[version] = 1 .. n
      /\ \A h \in 1 .. n : from(h) \in Nat /\ len(h) \in Nat
  <2>1. n \in Nat /\ DOMAIN Table[version] = 1 .. n
    BY TableFacts
  <2>2. ASSUME NEW h \in 1 .. n PROVE from(h) \in Nat /\ len(h) \in Nat
    BY TableFacts
  <2> QED BY <2>1, <2>2
<1>2. \A g, h \in 1 .. n :
        g < h => from(g) + len(g) <= from(h) \/ from(h) + len(h) <= from(g)
  <2>1. Eep!TableAssumption
    BY StorageAssumption
  <2>2. \A g, h \in DOMAIN Table[version] :
          g < h => \/ Eep!ParamEnd(Table[version][g]) <= Table[version][h].offset
                   \/ Eep!ParamEnd(Table[version][h]) <= Table[version][g].offset
    BY <2>1, Zenon DEF Eep!TableAssumption
  <2> QED BY <2>2, <1>1 DEF Eep!ParamEnd
<1>3. /\ i \in from(j) + 1 .. from(j) + len(j)
      /\ i \in from(k) + 1 .. from(k) + len(k)
  BY DEF IsEntry
<1> HIDE DEF from, len, n
<1>4. j \in 1 .. n /\ k \in 1 .. n
  BY DEF n
<1>5. from(j) \in Nat /\ len(j) \in Nat /\ from(k) \in Nat /\ len(k) \in Nat
  BY <1>1, <1>4
<1>6. ~(j < k)
  <2> SUFFICES ASSUME j < k PROVE FALSE
    OBVIOUS
  <2>1. from(j) + len(j) <= from(k) \/ from(k) + len(k) <= from(j)
    BY <1>2, <1>4
  <2> QED BY <2>1, <1>3, <1>5
<1>7. ~(k < j)
  <2> SUFFICES ASSUME k < j PROVE FALSE
    OBVIOUS
  <2>1. from(k) + len(k) <= from(j) \/ from(j) + len(j) <= from(k)
    BY <1>2, <1>4
  <2> QED BY <2>1, <1>3, <1>5
<1> QED BY <1>1, <1>4, <1>6, <1>7

LEMMA DefaultAt ==
  ASSUME version \in Eep!Versions, NEW i \in 1 .. Total[version]
  PROVE  /\ \A k \in 1 .. Len(Table[version]) :
              IsEntry(k, i) =>
                Eep!Defaults[i] =
                  Table[version][k].default[i - Table[version][k].offset]
         /\ (~ \E k \in 1 .. Len(Table[version]) : IsEntry(k, i)) =>
              Eep!Defaults[i] = cells[6 + i - 1]
<1> DEFINE T == Table[version]
           n == Len(T)
           Cov(p) == i \in p.offset + 1 .. p.offset + Len(p.default)
           All == {T[k] : k \in DOMAIN T}
           chosen == CHOOSE p \in All : Cov(p)
<1>1. Eep!Defaults[i] =
        IF \E k \in DOMAIN T : Cov(T[k])
        THEN chosen.default[i - chosen.offset] ELSE cells[6 + i - 1]
  BY DEF Eep!Defaults, Eep!AtData
<1>2. n \in Nat /\ DOMAIN T = 1 .. n /\ i \in Nat
  <2>1. n \in Nat /\ DOMAIN T = 1 .. n /\ Total[version] \in 1 .. 255
    BY TableFacts
  <2> QED BY <2>1
<1>3. \A k : Cov(T[k]) <=> IsEntry(k, i)
  BY DEF IsEntry
<1>4. ASSUME NEW k \in 1 .. n, IsEntry(k, i)
      PROVE  Eep!Defaults[i] = T[k].default[i - T[k].offset]
  <2>1. T[k] \in All /\ Cov(T[k])
    BY <1>2, <1>3, <1>4
  <2>2. chosen \in All /\ Cov(chosen)
    <3> HIDE DEF All, Cov
    <3> QED BY <2>1, Zenon
  <2> HIDE DEF chosen
  <2>3. PICK j \in 1 .. n : chosen = T[j]
    BY <2>2, <1>2
  <2>4. IsEntry(j, i)
    <3> HIDE DEF Cov
    <3> QED BY <2>2, <2>3, <1>3
  <2>5. j = k
    BY <2>4, <1>2, <1>4, OneEntry
  <2>6. \E h \in DOMAIN T : Cov(T[h])
    BY <2>1, <1>2
  <2> HIDE DEF Cov, T, n
  <2> QED BY <2>3, <2>5, <2>6, <1>1
<1>5. ASSUME ~ \E k \in 1 .. n : IsEntry(k, i)
      PROVE  Eep!Defaults[i] = cells[6 + i - 1]
  <2>1. ~ \E k \in DOMAIN T : Cov(T[k])
    <3> HIDE DEF Cov
    <3> QED BY <1>2, <1>3, <1>5
  <2> HIDE DEF Cov, T
  <2> QED BY <1>1, <2>1
<1> QED BY <1>4, <1>5

(* A write that puts what d has for them to some bytes of the data.         *)
DataWrites(d) ==
  {w \in [at : Nat, bytes : Seq(Eep!Byte)] :
     /\ 0 < Len(w.bytes) /\ w.at % Len(w.bytes) = 0
     /\ 6 <= w.at /\ w.at + Len(w.bytes) <= 6 + Total[version]
     /\ \A k \in 1 .. Len(w.bytes) : w.bytes[k] = d[w.at - 6 + k]}

LEMMA OneDefault ==
  ASSUME version \in Eep!Versions, NEW k \in 1 .. Len(Table[version])
  PROVE  LET p == Table[version][k]
             s == [i \in DOMAIN p.default |->
                     Eep!Write(6 + p.offset + i - 1, <<p.default[i]>>)]
         IN  /\ s \in Seq(DataWrites(Eep!Defaults))
             /\ \A i \in 1 .. Total[version] : IsEntry(k, i) => Has(s, 5 + i)
<1> DEFINE p == Table[version][k]
           from == p.offset
           v == p.default
           m == Len(v)
           W == DataWrites(Eep!Defaults)
           t == Total[version]
           s == [i \in DOMAIN v |-> Eep!Write(6 + from + i - 1, <<v[i]>>)]
<1>1. /\ from \in Nat /\ v \in Seq(Eep!Byte) /\ m \in Nat /\ from + m <= t
      /\ t \in 1 .. 255
  <2>1. /\ p \in [kind : Eep!Kinds, offset : Nat, default : Seq(Eep!Byte)]
        /\ m \in Nat /\ Eep!ParamEnd(p) <= t /\ t \in 1 .. 255
    BY TableFacts
  <2> HIDE DEF p, t
  <2> QED BY <2>1 DEF Eep!ParamEnd
<1>2. DOMAIN v = 1 .. m
  BY <1>1, LenProperties
<1>3. \A i \in Nat : IsEntry(k, i) <=> i \in from + 1 .. from + m
  BY DEF IsEntry
<1>4. \A i \in 1 .. t : IsEntry(k, i) => Eep!Defaults[i] = v[i - from]
  BY DefaultAt
<1> HIDE DEF p, from, v, t, m
<1>5. ASSUME NEW i \in 1 .. m
      PROVE  /\ Eep!Write(6 + from + i - 1, <<v[i]>>) \in W
             /\ Covers(Eep!Write(6 + from + i - 1, <<v[i]>>), 5 + (from + i))
  <2> DEFINE a == 6 + from + i - 1
             w == Eep!Write(a, <<v[i]>>)
  <2>1. v[i] \in Eep!Byte
    <3> USE DEF m
    <3> QED BY <1>1, ElementOfSeq
  <2>2. a \in Nat /\ 6 <= a /\ a + 1 <= 6 + t /\ a % 1 = 0 /\ a = 5 + (from + i)
    BY <1>1
  <2>3. from + i \in 1 .. t /\ from + i \in from + 1 .. from + m
        /\ from + i - from = i /\ from + i \in Nat /\ a - 6 + 1 = from + i
    BY <1>1
  <2>4. Eep!Defaults[from + i] = v[i]
    <3> DEFINE x == from + i
    <3>1. x \in 1 .. t /\ x \in Nat /\ x - from = i /\ x \in from + 1 .. from + m
      BY <1>1, <2>3
    <3> HIDE DEF x
    <3>3. IsEntry(k, x)
      BY <1>3, <3>1
    <3>2. Eep!Defaults[x] = v[i]
      BY <1>4, <3>1, <3>3
    <3> QED BY <3>2 DEF x
  <2> HIDE DEF a
  <2>5. /\ w.at = a /\ w.bytes = <<v[i]>> /\ Len(w.bytes) = 1 /\ w.bytes[1] = v[i]
        /\ w \in [at : Nat, bytes : Seq(Eep!Byte)]
    BY <2>1, <2>2 DEF Eep!Write
  <2> HIDE DEF w
  <2>6. \A j \in 1 .. Len(w.bytes) : w.bytes[j] = Eep!Defaults[w.at - 6 + j]
    <3>1. \A j \in 1 .. 1 : j = 1
      OBVIOUS
    <3> QED BY <3>1, <2>3, <2>4, <2>5
  <2>7. w \in W
    <3>1. /\ 0 < Len(w.bytes) /\ w.at % Len(w.bytes) = 0
          /\ 6 <= w.at /\ w.at + Len(w.bytes) <= 6 + Total[version]
      BY <2>2, <2>5 DEF t
    <3> QED BY <2>5, <2>6, <3>1 DEF DataWrites
  <2>8. Covers(w, 5 + (from + i))
    BY <2>2, <2>5 DEF Covers
  <2> QED BY <2>7, <2>8 DEF w, a
<1> HIDE DEF W
<1>6. s \in Seq(W) /\ Len(s) = m
  <2>1. s \in [1 .. m -> W]
    BY <1>2, <1>5
  <2> HIDE DEF s
  <2> QED BY <2>1, <1>1
<1>7. ASSUME NEW i \in 1 .. t, IsEntry(k, i) PROVE Has(s, 5 + i)
  <2> DEFINE j == i - from
  <2>1. j \in 1 .. m /\ from + j = i
    BY <1>1, <1>3, <1>7
  <2> HIDE DEF j
  <2>2. s[j] = Eep!Write(6 + from + j - 1, <<v[j]>>)
    BY <1>2, <2>1
  <2>3. Covers(s[j], 5 + i)
    BY <1>5, <2>1, <2>2
  <2> HIDE DEF s
  <2> QED BY <1>6, <2>1, <2>3 DEF Has
<1>8. s \in Seq(W) /\ \A i \in 1 .. t : IsEntry(k, i) => Has(s, 5 + i)
  BY <1>6, <1>7
<1> QED BY <1>8 DEF s, W, t, v, from, p

LEMMA DefaultsStored ==
  ASSUME version \in Eep!Versions
  PROVE  /\ Eep!DefaultStores \in Seq(DataWrites(Eep!Defaults))
         /\ \A i \in 1 .. Total[version], k \in 1 .. Len(Table[version]) :
              IsEntry(k, i) => Has(Eep!DefaultStores, 5 + i)
<1> DEFINE T == Table[version]
           L == Len(T)
           t == Total[version]
           W == DataWrites(Eep!Defaults)
           Puts(p) == [i \in DOMAIN p.default |->
                         Eep!Write(6 + p.offset + i - 1, <<p.default[i]>>)]
           Sum(f) == [i \in 0 .. L |-> IF i = 0 THEN <<>>
                                       ELSE f[i - 1] \o Puts(T[i])]
           From == CHOOSE From : From = Sum(From)
           Good(j) == /\ From[j] \in Seq(W)
                      /\ \A i \in 1 .. t, k \in 1 .. j :
                           IsEntry(k, i) => Has(From[j], 5 + i)
           S == {j \in 0 .. L : ~Good(j)}
<1>1. Eep!DefaultStores = From[L]
  BY Zenon DEF Eep!DefaultStores, Eep!AtData
<1>2. L \in Nat
  BY TableFacts
<1>3. ASSUME NEW k \in 1 .. L
      PROVE  /\ Puts(T[k]) \in Seq(W)
             /\ \A i \in 1 .. t : IsEntry(k, i) => Has(Puts(T[k]), 5 + i)
  BY OneDefault
<1> HIDE DEF Puts, T, L, t, W
<1>4. \E f : f = Sum(f)
  <2> DEFINE g == [i \in 0 .. L |-> Puts(T[i])]
  <2>1. \A i \in 0 .. L : g[i] = Puts(T[i])
    OBVIOUS
  <2> HIDE DEF g
  <2>2. PICK f : AddsUp(f, L, g)
    BY <1>2, RecursionGrows
  <2>3. f = [i \in 0 .. L |-> IF i = 0 THEN <<>> ELSE f[i - 1] \o g[i]]
    BY <2>2, Zenon DEF AddsUp
  <2>4. [i \in 0 .. L |-> IF i = 0 THEN <<>> ELSE f[i - 1] \o g[i]]
          = [i \in 0 .. L |-> IF i = 0 THEN <<>> ELSE f[i - 1] \o Puts(T[i])]
    BY <2>1
  <2> QED BY <2>3, <2>4
<1>5. From = Sum(From)
  BY <1>4, Zenon
<1> HIDE DEF From
<1>6. \A i \in 0 .. L :
        From[i] = IF i = 0 THEN <<>> ELSE From[i - 1] \o Puts(T[i])
  BY <1>5
<1>7. S = {}
  <2> SUFFICES ASSUME S # {} PROVE FALSE
    OBVIOUS
  <2>1. S \in SUBSET Nat
    <3>1. 0 .. L \in SUBSET Nat
      OBVIOUS
    <3> HIDE DEF Good
    <3> QED BY <3>1
  <2>2. PICK m \in S : \A n \in S : m <= n
    <3> HIDE DEF S
    <3> QED BY <2>1, Least
  <2>3. m \in 0 .. L /\ ~Good(m)
    BY <2>2
  <2>4. CASE m = 0
    <3>1. From[0] = <<>> /\ <<>> \in Seq(W) /\ 1 .. 0 = {}
      BY <1>6, <2>3, <2>4
    <3> QED BY <2>3, <2>4, <3>1
  <2>5. CASE m # 0
    <3> DEFINE j == m - 1
    <3>1. j \in 0 .. L /\ ~(m <= j) /\ m \in 1 .. L
          /\ \A k \in 1 .. m : k = m \/ k \in 1 .. j
      BY <2>3, <2>5, <1>2
    <3>2. From[m] = From[j] \o Puts(T[m])
      BY <1>6, <2>3, <2>5
    <3> HIDE DEF j
    <3>3. Good(j)
      <4>1. j \notin S
        <5> HIDE DEF S
        <5> QED BY <2>2, <3>1
      <4> HIDE DEF Good
      <4> QED BY <3>1, <4>1
    <3>4. Puts(T[m]) \in Seq(W)
          /\ \A i \in 1 .. t : IsEntry(m, i) => Has(Puts(T[m]), 5 + i)
      BY <1>3, <3>1
    <3> DEFINE p == From[j]
               q == Puts(T[m])
    <3>5. p \in Seq(W) /\ q \in Seq(W)
      BY <3>3, <3>4
    <3> HIDE DEF p, q
    <3>6. p \o q \in Seq(W) /\ \A b : Has(p, b) \/ Has(q, b) => Has(p \o q, b)
      BY <3>5, HasJoined
    <3>7. From[m] \in Seq(W)
      BY <3>2, <3>6 DEF p, q
    <3>8. ASSUME NEW i \in 1 .. t, NEW k \in 1 .. m, IsEntry(k, i)
          PROVE  Has(From[m], 5 + i)
      <4>1. Has(p, 5 + i) \/ Has(q, 5 + i)
        BY <3>1, <3>3, <3>4, <3>8 DEF p, q
      <4>2. Has(p \o q, 5 + i)
        BY <3>6, <4>1
      <4> QED BY <3>2, <4>2 DEF p, q
    <3> QED BY <2>3, <3>7, <3>8
  <2> QED BY <2>4, <2>5
<1>8. Good(L)
  <2>1. L \in 0 .. L /\ L \notin S
    <3>1. L \in 0 .. L
      BY <1>2
    <3> QED BY <1>7, <3>1
  <2> HIDE DEF Good
  <2> QED BY <2>1
<1> QED BY <1>1, <1>8 DEF W, t, L, T

(* Of what the calls asked for, each byte is in the EEPROM or will be       *)
(* written by the call that runs, and that call writes nothing else.        *)
Reading ==
  pc # "off" =>
    /\ want = [i \in 1 .. Total[version] |-> want[i]]
    /\ pc # "sync" => todo \in Seq(DataWrites(want))
    /\ \A i \in 1 .. Total[version] : cells[5 + i] = want[i] \/ Has(todo, 5 + i)

LEMMA NothingLeft == \A b : ~Has(<<>>, b)
<1>1. 1 .. Len(<<>>) = {}
  OBVIOUS
<1> QED BY <1>1 DEF Has

(* A value of a parameter in pieces, as a part of all data.                 *)
LEMMA SettingStored ==
  ASSUME version \in Eep!Versions, NEW k \in 1 .. Len(Table[version]),
         NEW v \in Seq(Eep!Byte), Len(v) = Len(Table[version][k].default),
         NEW d, \A i \in 1 .. Total[version] :
                  IsEntry(k, i) => d[i] = v[i - Table[version][k].offset]
  PROVE  LET s == Eep!Stores(6 + Table[version][k].offset, v)
         IN  /\ s \in Seq(DataWrites(d))
             /\ \A i \in 1 .. Total[version] : IsEntry(k, i) => Has(s, 5 + i)
<1> DEFINE from == Table[version][k].offset
           t == Total[version]
           a == 6 + from
           m == Len(v)
           s == Eep!Stores(a, v)
           A == PiecesOf(a, v, Eep!Byte)
           B == DataWrites(d)
<1>1. from \in Nat /\ m \in Nat /\ from + m <= t /\ t \in 1 .. 255
  <2> DEFINE p == Table[version][k]
  <2>1. /\ p \in [kind : Eep!Kinds, offset : Nat, default : Seq(Eep!Byte)]
        /\ Len(p.default) \in Nat /\ Eep!ParamEnd(p) <= t /\ t \in 1 .. 255
    BY TableFacts
  <2>2. m = Len(p.default)
    OBVIOUS
  <2> HIDE DEF p, t, m
  <2>3. p.offset + Len(p.default) <= t
    BY <2>1 DEF Eep!ParamEnd
  <2> QED BY <2>1, <2>2, <2>3 DEF p
<1>2. \A i \in Nat : IsEntry(k, i) <=> i \in from + 1 .. from + m
  BY DEF IsEntry
<1>3. \A i \in 1 .. t : IsEntry(k, i) => d[i] = v[i - from]
  OBVIOUS
<1>4. a \in Nat
  BY <1>1
<1> HIDE DEF from, t, m, a
<1>5. s \in Seq(A) /\ \A b \in Nat : a <= b /\ b < a + m => Has(s, b)
  BY <1>4, StoresPieces DEF m
<1> HIDE DEF s
<1>6. ASSUME NEW w \in A PROVE w \in B
  <2> DEFINE n == Len(w.bytes)
  <2>1. /\ w \in [at : Nat, bytes : Seq(Eep!Byte)]
        /\ 0 < n /\ w.at % n = 0 /\ a <= w.at /\ w.at + n <= a + m
        /\ \A j \in 1 .. n : w.bytes[j] = v[w.at - a + j]
    BY DEF PiecesOf, m
  <2>2. w.at \in Nat /\ n \in Nat
    BY <2>1, LenProperties
  <2>3. 6 <= w.at /\ w.at + n <= 6 + t
    BY <2>1, <2>2, <1>1 DEF a
  <2>4. ASSUME NEW j \in 1 .. n PROVE w.bytes[j] = d[w.at - 6 + j]
    <3> DEFINE x == w.at - 6 + j
    <3>1. /\ x \in Nat /\ x \in 1 .. t /\ x \in from + 1 .. from + m
          /\ x - from = w.at - a + j
      BY <2>1, <2>2, <2>3, <1>1 DEF a
    <3> HIDE DEF x, n
    <3>2. IsEntry(k, x)
      BY <1>2, <3>1
    <3>3. d[x] = v[x - from]
      BY <1>3, <3>1, <3>2
    <3> QED BY <2>1, <3>1, <3>3 DEF x
  <2> QED BY <2>1, <2>3, <2>4 DEF DataWrites, t
<1>7. s \in Seq(B)
  <2> HIDE DEF A, B
  <2>1. \A w : w \in A => w \in B
    BY <1>6
  <2> QED BY <1>5, <2>1
<1>8. ASSUME NEW i \in 1 .. t, IsEntry(k, i) PROVE Has(s, 5 + i)
  <2>1. i \in Nat /\ 5 + i \in Nat
    BY <1>1
  <2>2. i \in from + 1 .. from + m
    BY <1>2, <1>8, <2>1
  <2>3. a <= 5 + i /\ 5 + i < a + m
    BY <1>1, <2>1, <2>2 DEF a
  <2> QED BY <1>5, <2>1, <2>3
<1> QED BY <1>7, <1>8 DEF s, B, a, from, t

(* Where param_reset and a setter start.                                    *)
LEMMA ResetReads ==
  ASSUME version \in Eep!Versions, version' = version, cells' = cells,
         pc' = "reset", todo' = Eep!DefaultStores, want' = Eep!Defaults
  PROVE  Reading'
<1>1. want' = [i \in 1 .. Total[version] |-> want'[i]]
  BY DEF Eep!Defaults
<1>2. DataWrites(want)' = DataWrites(Eep!Defaults)
  BY Zenon DEF DataWrites
<1>3. todo' \in Seq(DataWrites(want)')
  BY <1>2, DefaultsStored
<1>4. ASSUME NEW i \in 1 .. Total[version]
      PROVE  cells'[5 + i] = want'[i] \/ Has(todo', 5 + i)
  <2>1. CASE \E k \in 1 .. Len(Table[version]) : IsEntry(k, i)
    BY <2>1, DefaultsStored
  <2>2. CASE ~ \E k \in 1 .. Len(Table[version]) : IsEntry(k, i)
    <3>1. Eep!Defaults[i] = cells[6 + i - 1]
      BY <2>2, DefaultAt
    <3>2. 6 + i - 1 = 5 + i
      <4>1. Total[version] \in 1 .. 255
        BY TableFacts
      <4> QED BY <4>1
    <3> QED BY <3>1, <3>2
  <2> QED BY <2>1, <2>2
<1> QED BY <1>1, <1>3, <1>4 DEF Reading, Has, Covers

LEMMA SetReads ==
  ASSUME ParamsType, Reading, Eep!SetSome
  PROVE  Reading'
<1>1. PICK k \in DOMAIN Table[version], s \in Settings :
        Eep!Set(Table[version][k], s[2])
  BY DEF Eep!SetSome
<1> DEFINE v == s[2]
           from == Table[version][k].offset
           t == Total[version]
<1>2. /\ pc = "idle" /\ Len(v) = Len(Table[version][k].default)
      /\ pc' = Table[version][k].kind /\ todo' = Eep!Stores(6 + from, v)
      /\ want' = [i \in DOMAIN want |->
                    IF i \in from + 1 .. from + Len(v) THEN v[i - from] ELSE want[i]]
      /\ UNCHANGED <<version, cells>>
  BY <1>1 DEF Eep!Set, Eep!AtData
<1>3. v \in Seq(Eep!Byte)
  <2>1. Eep!SettingsAssumption
    BY StorageAssumption
  <2> QED BY <2>1 DEF Eep!SettingsAssumption
<1>4. version \in Eep!Versions /\ todo = <<>>
  BY <1>2 DEF ParamsType
<1>5. k \in 1 .. Len(Table[version]) /\ t \in 1 .. 255
  BY <1>4, TableFacts
<1>6. /\ want = [i \in 1 .. t |-> want[i]]
      /\ \A i \in 1 .. t : cells[5 + i] = want[i]
  BY <1>2, <1>4, NothingLeft DEF Reading
<1>7. \A i : IsEntry(k, i) <=> i \in from + 1 .. from + Len(v)
  BY <1>2 DEF IsEntry
<1> HIDE DEF v, from
<1>8. /\ want' = [i \in 1 .. t |-> want'[i]]
      /\ \A i \in 1 .. t :
           want'[i] = IF IsEntry(k, i) THEN v[i - from] ELSE want[i]
  <2>1. DOMAIN want = 1 .. t
    BY <1>6
  <2> HIDE DEF t
  <2> QED BY <1>2, <1>7, <2>1
<1>9. /\ todo' \in Seq(DataWrites(want'))
      /\ \A i \in 1 .. t : IsEntry(k, i) => Has(todo', 5 + i)
  <2>1. \A i \in 1 .. Total[version] :
          IsEntry(k, i) => want'[i] = v[i - Table[version][k].offset]
    BY <1>8 DEF from
  <2>2. todo' = Eep!Stores(6 + Table[version][k].offset, v)
    BY <1>2 DEF from
  <2> DEFINE d == want'
  <2>3. /\ version \in Eep!Versions /\ k \in 1 .. Len(Table[version])
        /\ v \in Seq(Eep!Byte) /\ Len(v) = Len(Table[version][k].default)
        /\ \A i \in 1 .. Total[version] :
             IsEntry(k, i) => d[i] = v[i - Table[version][k].offset]
    BY <1>2, <1>3, <1>4, <1>5, <2>1
  <2> HIDE DEF d
  <2>4. /\ Eep!Stores(6 + Table[version][k].offset, v) \in Seq(DataWrites(d))
        /\ \A i \in 1 .. Total[version] :
             IsEntry(k, i) => Has(Eep!Stores(6 + Table[version][k].offset, v), 5 + i)
    BY <2>3, SettingStored
  <2> QED BY <2>2, <2>4 DEF d
<1>10. DataWrites(want)' = DataWrites(want')
  BY <1>2, Zenon DEF DataWrites
<1>11. \A i \in 1 .. t : cells'[5 + i] = want'[i] \/ Has(todo', 5 + i)
  BY <1>2, <1>6, <1>8, <1>9
<1> QED BY <1>2, <1>8, <1>9, <1>10, <1>11 DEF Reading, Has, Covers

LEMMA TailOf ==
  ASSUME NEW S, NEW s \in Seq(S), s # <<>>
  PROVE  /\ Head(s) \in S /\ Tail(s) \in Seq(S)
         /\ \A b : Has(s, b) => Covers(Head(s), b) \/ Has(Tail(s), b)
<1>1. /\ Head(s) \in S /\ Tail(s) \in Seq(S) /\ Head(s) = s[1]
      /\ Len(s) \in Nat /\ Len(Tail(s)) = Len(s) - 1
      /\ \A i \in 1 .. Len(Tail(s)) : Tail(s)[i] = s[i + 1]
  BY HeadTailProperties, LenProperties
<1>2. ASSUME NEW b, Has(s, b), ~Covers(Head(s), b) PROVE Has(Tail(s), b)
  <2>1. PICK i \in 1 .. Len(s) : Covers(s[i], b)
    BY <1>2 DEF Has
  <2>2. i # 1
    BY <1>1, <1>2, <2>1
  <2>3. i - 1 \in 1 .. Len(Tail(s)) /\ (i - 1) + 1 = i
    BY <1>1, <2>1, <2>2
  <2>4. Covers(Tail(s)[i - 1], b)
    BY <1>1, <2>1, <2>3
  <2> QED BY <2>3, <2>4 DEF Has
<1> QED BY <1>1, <1>2

LEMMA DataWritten ==
  ASSUME ParamsType, NEW w \in DataWrites(want), cells' = Eep!Written(cells, w)
  PROVE  \A i \in 1 .. Total[version] :
           cells'[5 + i] = IF Covers(w, 5 + i) THEN want[i] ELSE cells[5 + i]
<1> DEFINE n == Len(w.bytes)
           t == Total[version]
<1>1. /\ w.at \in Nat /\ n \in Nat /\ 6 <= w.at
      /\ \A k \in 1 .. n : w.bytes[k] = want[w.at - 6 + k]
  <2>1. w.bytes \in Seq(Eep!Byte)
    BY DEF DataWrites
  <2>2. n \in Nat
    <3> DEFINE v == w.bytes
    <3>1. v \in Seq(Eep!Byte)
      BY <2>1
    <3> HIDE DEF v
    <3>2. Len(v) \in Nat
      BY <3>1, LenProperties
    <3> QED BY <3>2 DEF v
  <2> QED BY <2>2 DEF DataWrites
<1>2. t \in 1 .. 255
  BY ParamsTables DEF ParamsType
<1>3. DOMAIN cells = 0 .. 260
  BY DEF ParamsType
<1> HIDE DEF t
<1>4. ASSUME NEW i \in 1 .. t
      PROVE  cells'[5 + i] = IF Covers(w, 5 + i) THEN want[i] ELSE cells[5 + i]
  <2> DEFINE b == 5 + i
  <2>1. b \in 0 .. 260 /\ b - 5 = i /\ b \in Nat
    BY <1>2
  <2> HIDE DEF b
  <2>2. cells'[b] = IF b \in w.at .. w.at + n - 1
                    THEN w.bytes[b - w.at + 1] ELSE cells[b]
    BY <1>3, <2>1 DEF Eep!Written
  <2> HIDE DEF n
  <2>3. b \in w.at .. w.at + n - 1 <=> Covers(w, b)
    <3>1. b \in w.at .. w.at + n - 1 <=> w.at <= b /\ b < w.at + n
      BY <1>1, <2>1
    <3> QED BY <3>1 DEF Covers, n
  <2>4. ASSUME b \in w.at .. w.at + n - 1
        PROVE  w.bytes[b - w.at + 1] = want[i]
    <3> DEFINE k == b - w.at + 1
    <3>1. k \in 1 .. n /\ w.at - 6 + k = i
      BY <1>1, <2>1, <2>4
    <3> HIDE DEF k
    <3>2. w.bytes[k] = want[i]
      BY <1>1, <3>1
    <3> QED BY <3>2 DEF k
  <2>5. cells'[b] = IF Covers(w, b) THEN want[i] ELSE cells[b]
    BY <2>2, <2>3, <2>4
  <2> QED BY <2>5 DEF b
<1> QED BY <1>4 DEF t

LEMMA StoreReads ==
  ASSUME ParamsInv, Reading, Eep!Store
  PROVE  Reading'
<1> DEFINE w == Head(todo)
           t == Total[version]
<1>1. /\ todo # <<>> /\ cells' = Eep!Written(cells, w) /\ todo' = Tail(todo)
      /\ version' = version /\ pc' = pc /\ want' = want
  BY DEF Eep!Store, Eep!ghosts
<1>2. ParamsType /\ pc # "off" /\ t \in 1 .. 255
  BY <1>1, ParamsTables DEF ParamsInv, ParamsType
<1>3. /\ want = [i \in 1 .. t |-> want[i]]
      /\ \A i \in 1 .. t : cells[5 + i] = want[i] \/ Has(todo, 5 + i)
  BY <1>2 DEF Reading
<1>4. DataWrites(want)' = DataWrites(want)
  BY <1>1, Zenon DEF DataWrites
<1>5. CASE pc # "sync"
  <2>1. todo \in Seq(DataWrites(want))
    BY <1>2, <1>5 DEF Reading
  <2>2. /\ w \in DataWrites(want) /\ Tail(todo) \in Seq(DataWrites(want))
        /\ \A b : Has(todo, b) => Covers(w, b) \/ Has(Tail(todo), b)
    BY <1>1, <2>1, TailOf
  <2> HIDE DEF w
  <2>3. \A i \in 1 .. t :
          cells'[5 + i] = IF Covers(w, 5 + i) THEN want[i] ELSE cells[5 + i]
    BY <1>1, <1>2, <2>2, DataWritten
  <2>4. \A i \in 1 .. t : cells'[5 + i] = want[i] \/ Has(Tail(todo), 5 + i)
    BY <1>3, <2>2, <2>3
  <2> QED BY <1>1, <1>3, <1>4, <2>2, <2>4 DEF Reading, Has, Covers
<1>6. CASE pc = "sync"
  <2>1. todo \in Seq(HeaderWrites(cells))
    BY <1>6 DEF ParamsInv, Syncing
  <2>2. /\ w \in HeaderWrites(cells)
        /\ \A b : Has(todo, b) => Covers(w, b) \/ Has(Tail(todo), b)
    BY <1>1, <2>1, TailOf
  <2> HIDE DEF w
  <2>3. \A b \in 5 .. 260 : cells'[b] = cells[b]
    BY <1>1, <1>2, <2>2, HeaderWritten
  <2>4. ASSUME NEW i \in 1 .. t
        PROVE  cells'[5 + i] = want[i] \/ Has(Tail(todo), 5 + i)
    <3> DEFINE b == 5 + i
    <3>1. b \in 5 .. 260 /\ 5 <= b
      BY <1>2
    <3>2. cells[b] = want[i] \/ Has(todo, b)
      BY <1>3
    <3>3. ~Covers(w, b)
      <4>1. w.at \in 0 .. 4 /\ Len(w.bytes) \in 1 .. 2 /\ w.at + Len(w.bytes) <= 5
        BY <2>2, HeaderWriteFacts
      <4> HIDE DEF t
      <4> QED BY <1>2, <3>1, <4>1 DEF Covers
    <3> HIDE DEF b
    <3> QED BY <2>2, <2>3, <3>1, <3>2, <3>3 DEF b
  <2> QED BY <1>1, <1>3, <1>6, <2>4 DEF Reading, Has, Covers
<1> QED BY <1>5, <1>6

(* A step after which the call has nothing left to write.                   *)
LEMMA DoneReads ==
  ASSUME version' = version, cells' = cells, todo' = <<>>,
         want' = [i \in 1 .. Total[version] |-> want'[i]],
         \A i \in 1 .. Total[version] : cells[5 + i] = want'[i]
  PROVE  Reading'
<1>1. todo' \in Seq(DataWrites(want)')
  <2> DEFINE W == DataWrites(want)'
  <2> HIDE DEF W
  <2>1. <<>> \in Seq(W)
    OBVIOUS
  <2> QED BY <2>1 DEF W
<1> QED BY <1>1 DEF Reading, Has, Covers

LEMMA ReadingStep == ParamsInv /\ Reading /\ [Eep!Next]_Eep!vars => Reading'
<1> SUFFICES ASSUME ParamsInv, Reading, [Eep!Next]_Eep!vars PROVE Reading'
  OBVIOUS
<1>1. ParamsType /\ version \in Eep!Versions /\ Total[version] \in 1 .. 255
  BY ParamsTables DEF ParamsInv, ParamsType
<1>2. ASSUME pc # "off", todo = <<>>
      PROVE  /\ want = [i \in 1 .. Total[version] |-> want[i]]
             /\ \A i \in 1 .. Total[version] : cells[5 + i] = want[i]
  BY <1>2, NothingLeft DEF Reading
<1>3. CASE UNCHANGED Eep!vars
  <2>1. UNCHANGED <<version, cells, todo, pc, want>>
    BY <1>3 DEF Eep!vars
  <2> QED BY <2>1 DEF Reading, Has, Covers, DataWrites
<1>4. CASE Eep!Boot
  <2>1. CASE Eep!CheckResult(cells) = "OK"
    <3>1. /\ pc = "off" /\ want' = Eep!Data(cells)
          /\ UNCHANGED <<version, cells, todo>>
      BY <1>4, <2>1 DEF Eep!Boot
    <3>2. want' = [i \in 1 .. Total[version] |-> cells[6 + i - 1]]
      BY <3>1 DEF Eep!Data, Eep!Read, Eep!AtData
    <3>3. todo' = <<>>
      BY <1>1, <3>1 DEF ParamsType
    <3>4. \A i \in 1 .. Total[version] : 6 + i - 1 = 5 + i
      BY <1>1
    <3>5. /\ want' = [i \in 1 .. Total[version] |-> want'[i]]
          /\ \A i \in 1 .. Total[version] : cells[5 + i] = want'[i]
      BY <3>2, <3>4
    <3> QED BY <3>1, <3>3, <3>5, DoneReads
  <2>2. CASE Eep!CheckResult(cells) # "OK"
    <3>1. /\ pc' = "reset" /\ want' = Eep!Defaults /\ todo' = Eep!DefaultStores
          /\ UNCHANGED <<version, cells>>
      BY <1>4, <2>2 DEF Eep!Boot
    <3> QED BY <1>1, <3>1, ResetReads
  <2> QED BY <2>1, <2>2
<1>5. CASE Eep!Check
  <2>1. UNCHANGED <<version, cells, todo, pc, want>>
    BY <1>5 DEF Eep!Check, Eep!ghosts
  <2> QED BY <2>1 DEF Reading, Has, Covers, DataWrites
<1>6. CASE Eep!Reset
  <2>1. /\ pc' = "reset" /\ want' = Eep!Defaults /\ todo' = Eep!DefaultStores
        /\ UNCHANGED <<version, cells>>
    BY <1>6 DEF Eep!Reset
  <2> QED BY <1>1, <2>1, ResetReads
<1>7. CASE Eep!StartSync
  <2>1. /\ pc # "off" /\ todo = <<>> /\ pc' = "sync"
        /\ UNCHANGED <<version, cells, want>>
    BY <1>7 DEF Eep!StartSync
  <2> QED BY <2>1, <1>2 DEF Reading
<1>8. CASE Eep!EndSync
  <2>1. pc # "off" /\ todo = <<>> /\ UNCHANGED <<version, cells, want, todo>>
    BY <1>8 DEF Eep!EndSync
  <2> QED BY <2>1, <1>2, DoneReads
<1>9. CASE Eep!SetSome
  BY <1>1, <1>9, SetReads
<1>10. CASE Eep!EndSet
  <2>1. pc # "off" /\ todo = <<>> /\ UNCHANGED <<version, cells, want, todo>>
    BY <1>10 DEF Eep!EndSet, Eep!Kinds, Eep!ghosts
  <2> QED BY <2>1, <1>2, DoneReads
<1>11. CASE Eep!Store
  BY <1>11, StoreReads
<1>12. CASE Eep!PowerFail
  BY <1>12 DEF Eep!PowerFail, Reading
<1>13. CASE Eep!Update
  BY <1>13 DEF Eep!Update, Reading
<1> QED
  BY <1>3, <1>4, <1>5, <1>6, <1>7, <1>8, <1>9, <1>10, <1>11, <1>12, <1>13
  DEF Eep!Next

LEMMA AllAligned ==
  ASSUME ParamsInv, Reading
  PROVE  \A i \in DOMAIN todo : todo[i].at % Len(todo[i].bytes) = 0
<1>1. CASE pc \in {"off", "idle"}
  BY <1>1 DEF ParamsInv, ParamsType
<1>2. CASE pc = "sync"
  <2>1. todo \in Seq(HeaderWrites(cells))
    BY <1>2 DEF ParamsInv, Syncing
  <2>2. ASSUME NEW w \in HeaderWrites(cells) PROVE w.at % Len(w.bytes) = 0
    <3>1. CASE \E b \in 0 .. 4 : w = Eep!Write(b, <<HeaderByte(cells, b)>>)
      <4>1. PICK b \in 0 .. 4 : w = Eep!Write(b, <<HeaderByte(cells, b)>>)
        BY <3>1
      <4>2. w.at = b /\ Len(w.bytes) = 1
        BY <4>1 DEF Eep!Write
      <4> QED BY <4>2
    <3>2. CASE \E b \in {0, 2} :
                 w = Eep!Write(b, <<HeaderByte(cells, b), HeaderByte(cells, b + 1)>>)
      <4>1. PICK b \in {0, 2} :
              w = Eep!Write(b, <<HeaderByte(cells, b), HeaderByte(cells, b + 1)>>)
        BY <3>2
      <4>2. w.at = b /\ Len(w.bytes) = 2
        BY <4>1 DEF Eep!Write
      <4> QED BY <4>2
    <3> QED BY <3>1, <3>2 DEF HeaderWrites
  <2>3. \A i \in DOMAIN todo : todo[i] \in HeaderWrites(cells)
    BY <2>1, LenProperties, ElementOfSeq
  <2> QED BY <2>2, <2>3
<1>3. CASE pc \notin {"off", "idle", "sync"}
  <2>1. todo \in Seq(DataWrites(want))
    BY <1>3 DEF Reading
  <2>2. \A i \in DOMAIN todo : todo[i] \in DataWrites(want)
    BY <2>1, LenProperties, ElementOfSeq
  <2> QED BY <2>2 DEF DataWrites
<1> QED BY <1>1, <1>2, <1>3

LEMMA IdleReads ==
  ASSUME ParamsInv, Reading, pc = "idle", eepState # "INVALID",
         NEW k \in DOMAIN Table[version]
  PROVE  LET p == Table[version][k]
         IN  Eep!Get(p) = SubSeq(want, p.offset + 1, p.offset + Len(p.default))
<1> DEFINE p == Table[version][k]
           from == p.offset
           m == Len(p.default)
           t == Total[version]
<1>1. version \in Eep!Versions /\ todo = <<>>
  BY DEF ParamsInv, ParamsType
<1>2. /\ from \in Nat /\ m \in Nat /\ from + m <= t /\ t \in 1 .. 255
  <2>1. k \in 1 .. Len(Table[version])
    BY <1>1, TableFacts
  <2>2. /\ p \in [kind : Eep!Kinds, offset : Nat, default : Seq(Eep!Byte)]
        /\ m \in Nat /\ Eep!ParamEnd(p) <= t /\ t \in 1 .. 255
    BY <1>1, <2>1, TableFacts
  <2> HIDE DEF p, t
  <2> QED BY <2>2 DEF Eep!ParamEnd
<1>3. \A i \in 1 .. t : cells[5 + i] = want[i]
  BY <1>1, NothingLeft DEF Reading
<1>4. Eep!Get(p) = [i \in 1 .. m |-> cells[6 + from + i - 1]]
  BY DEF Eep!Get, Eep!Read, Eep!AtData
<1> HIDE DEF p, from, m, t
<1>5. \A i \in 1 .. m : cells[6 + from + i - 1] = want[from + i]
  <2> TAKE i \in 1 .. m
  <2> DEFINE x == from + i
  <2>1. x \in 1 .. t /\ 6 + from + i - 1 = 5 + x
    BY <1>2
  <2> HIDE DEF x
  <2>2. cells[5 + x] = want[x]
    BY <1>3, <2>1
  <2> QED BY <2>1, <2>2 DEF x
<1> DEFINE V == {want[i] : i \in 1 .. t}
           s == [i \in 1 .. m |-> want[from + i]]
           lo == from + 1
           hi == from + m
<1>6. Eep!Get(p) = s
  BY <1>4, <1>5
<1>7. s \in Seq(V) /\ Len(s) = m /\ \A i \in 1 .. m : s[i] = want[from + i]
  <2>1. \A i \in 1 .. m : want[from + i] \in V
    <3> TAKE i \in 1 .. m
    <3>1. from + i \in 1 .. t
      BY <1>2
    <3> QED BY <3>1
  <2>2. s \in [1 .. m -> V]
    BY <2>1
  <2>3. \A i \in 1 .. m : s[i] = want[from + i]
    OBVIOUS
  <2> HIDE DEF s, V
  <2> QED BY <1>2, <2>2, <2>3
<1>8. /\ SubSeq(want, lo, hi) \in Seq(V) /\ Len(SubSeq(want, lo, hi)) = hi - lo + 1
      /\ \A i \in 1 .. hi - lo + 1 : SubSeq(want, lo, hi)[i] = want[lo + i - 1]
  <2>1. \A i \in lo .. hi : want[i] \in V
    <3> TAKE i \in lo .. hi
    <3>1. i \in 1 .. t
      BY <1>2
    <3> QED BY <3>1
  <2>2. lo \in Int /\ hi \in Int /\ lo <= hi + 1
    BY <1>2
  <2> HIDE DEF V, lo, hi
  <2> QED BY <2>1, <2>2, SubSeqProperties
<1>9. hi - lo + 1 = m /\ \A i \in 1 .. m : lo + i - 1 = from + i
  BY <1>2
<1> HIDE DEF s, V
<1>10. SubSeq(want, lo, hi) = s
  <2> DEFINE r == SubSeq(want, lo, hi)
  <2>1. r \in Seq(V) /\ Len(r) = m /\ \A i \in 1 .. m : r[i] = s[i]
    BY <1>7, <1>8, <1>9
  <2> HIDE DEF r
  <2>2. r = s
    BY <1>7, <2>1, SeqEqual
  <2> QED BY <2>2 DEF r
<1> QED BY <1>6, <1>10 DEF p, from, m

(* Between two calls every parameter reads as it was set last, whatever     *)
(* table the firmware has, and the hardware only gets writes that lie where *)
(* it takes them: a setter, param_reset and param_sync each cover their     *)
(* bytes, and no others, with pieces of the EEPROM's size.                  *)
THEOREM ReadsBackAsSet == Eep!Spec => []ReadsBack
<1>1. Eep!Init => Reading
  BY DEF Eep!Init, Reading
<1>2. ParamsInv /\ Reading => ReadsBack
  BY IdleReads, AllAligned DEF ReadsBack, Eep!ReadsBack
<1> QED BY <1>1, <1>2, ParamsInit, ParamsStep, ReadingStep, PTL DEF Eep!Spec

-------------------------------------------------------------------------------
(* Files: a place in a file and its cluster.                                *)

LEMMA PlaceOf ==
  ASSUME NEW p \in Nat, 0 < p, NEW q \in Nat, NEW s \in 0 .. p - 1
  PROVE  (q * p + s) \div p = q /\ (q * p + s) % p = s
  OBVIOUS

LEMMA PlaceIn ==
  ASSUME NEW p \in Nat, 0 < p, NEW b \in Nat
  PROVE  /\ b = (b \div p) * p + (b % p)
         /\ b \div p \in Nat /\ b % p \in 0 .. p - 1
  OBVIOUS

LEMMA ClustersEnough ==
  ASSUME NEW p \in Nat, 0 < p, NEW size \in Nat, NEW q \in Nat,
         2 * (q * p) < size
  PROVE  q < File!ChainFor(size, p)
  BY DEF File!ChainFor, File!PerSector

(* What a disk is, and where it is mounted.                                 *)
FileVol ==
  /\ Len(vol.chain) \in Nat \ {0}
  /\ vol.chain \in [1 .. Len(vol.chain) -> 2 .. MaxCluster]
  /\ \A i, j \in 1 .. Len(vol.chain) : vol.chain[i] = vol.chain[j] => i = j
  /\ vol.perClus \in Nat \ {0} /\ vol.size \in Nat \ {0}
  /\ Len(vol.chain) = File!ChainFor(vol.size, vol.perClus)
  /\ vol.boot \in
       [part : Nat, reserved : Nat, fats : Nat, fatSize : Nat, root : Nat]

LEMMA BoundedSeqs ==
  ASSUME NEW S, NEW n \in Nat, NEW s \in File!BoundedSeq(S, n)
  PROVE  Len(s) \in Nat /\ s \in [1 .. Len(s) -> S] /\ DOMAIN s = 1 .. Len(s)
<1>1. PICK m \in 0 .. n : s \in [1 .. m -> S]
  BY DEF File!BoundedSeq, File!SeqOf
<1>2. m \in Nat /\ s \in Seq(S)
  BY <1>1
<1>3. Len(s) = m
  BY <1>1, <1>2
<1> QED BY <1>1, <1>2, <1>3

LEMMA VolInit == File!Init => FileVol
<1> SUFFICES ASSUME File!Init PROVE FileVol
  OBVIOUS
<1>1. vol \in File!Disks /\ Len(vol.chain) = File!ChainFor(vol.size, vol.perClus)
  BY DEF File!Init
<1>2. /\ MaxCluster \in Nat /\ MaxCluster >= 2 /\ MaxPerClus \in Nat \ {0}
      /\ MaxChain \in Nat
      /\ Boots \subseteq
           [part : Nat, reserved : Nat, fats : Nat, fatSize : Nat, root : Nat]
  BY StorageAssumption DEF File!UfatAssumption
<1>3. CASE \E b \in Boots, c \in File!Chains, o \in BOOLEAN, p \in 1 .. MaxPerClus,
              n \in 1 .. MaxChain * MaxPerClus * File!PerSector :
             vol = [chain |-> c, others |-> o, perClus |-> p, size |-> n,
                    dir |-> File!Plain, part |-> 12, sectors |-> 512, boot |-> b]
  <2>1. PICK b \in Boots, c \in File!Chains, o \in BOOLEAN, p \in 1 .. MaxPerClus,
              n \in 1 .. MaxChain * MaxPerClus * File!PerSector :
             vol = [chain |-> c, others |-> o, perClus |-> p, size |-> n,
                    dir |-> File!Plain, part |-> 12, sectors |-> 512, boot |-> b]
    BY <1>3
  <2>2. /\ vol.chain = c /\ vol.perClus = p /\ vol.size = n /\ vol.boot = b
    BY <2>1
  <2>3. /\ c \in File!BoundedSeq(2 .. MaxCluster, MaxChain) /\ c # <<>>
        /\ File!Injective(c)
    BY DEF File!Chains
  <2>4. /\ Len(c) \in Nat /\ c \in [1 .. Len(c) -> 2 .. MaxCluster]
        /\ DOMAIN c = 1 .. Len(c)
    BY <1>2, <2>3, BoundedSeqs
  <2>5. Len(c) # 0
    BY <2>3, <2>4
  <2>6. p \in Nat \ {0} /\ n \in Nat \ {0}
    <3>1. MaxPerClus \in Int /\ MaxChain * MaxPerClus * File!PerSector \in Int
      BY <1>2 DEF File!PerSector
    <3> QED BY <3>1
  <2>7. \A i, j \in 1 .. Len(c) : c[i] = c[j] => i = j
    BY <2>3, <2>4 DEF File!Injective
  <2> QED BY <1>1, <1>2, <2>2, <2>4, <2>5, <2>6, <2>7 DEF FileVol
<1>4. CASE \E d \in File!BoundedSeq(File!Entries, MaxDir), t \in {0, 6, 11},
              n \in {0, 512, 4096}, b \in Boots :
             vol = [chain |-> <<2>>, others |-> FALSE, perClus |-> 1, size |-> 1,
                    dir |-> d, part |-> t, sectors |-> n, boot |-> b]
  <2>1. PICK b \in Boots :
          /\ vol.chain = <<2>> /\ vol.perClus = 1 /\ vol.size = 1 /\ vol.boot = b
    BY <1>4
  <2>2. Len(<<2>>) = 1 /\ <<2>> \in [1 .. 1 -> 2 .. MaxCluster]
    BY <1>2
  <2>3. \A i, j \in 1 .. 1 : i = j
    OBVIOUS
  <2> QED BY <1>1, <1>2, <2>1, <2>2, <2>3 DEF FileVol
<1> QED BY <1>1, <1>3, <1>4 DEF File!Disks

(* The FAT of a file in one piece.                                          *)
LEMMA FatOfPiece ==
  ASSUME FileVol, File!InOnePiece, NEW q \in 0 .. Len(vol.chain) - 1
  PROVE  /\ vol.chain[1 + q] = vol.chain[1] + q
         /\ vol.chain[1] + q \in 2 .. MaxCluster
         /\ File!Fat[vol.chain[1] + q] =
              IF q = Len(vol.chain) - 1 THEN -1 ELSE vol.chain[1] + q + 1
<1> DEFINE n == Len(vol.chain)
           F == vol.chain[1]
           c == F + q
<1>1. /\ n \in Nat \ {0} /\ DOMAIN vol.chain = 1 .. n
      /\ \A i \in 1 .. n : vol.chain[i] \in 2 .. MaxCluster /\ vol.chain[i] = F + i - 1
  BY DEF FileVol, File!InOnePiece
<1> HIDE DEF n, F
<1>2. F \in Nat /\ 1 \in 1 .. n /\ q \in Nat /\ 1 + q \in 1 .. n
  <2>1. 1 \in 1 .. n /\ q \in 0 .. n - 1
    BY <1>1 DEF n
  <2> QED BY <1>1, <2>1 DEF F
<1>3. vol.chain[1 + q] = c /\ c \in 2 .. MaxCluster /\ MaxCluster \in Nat
  <2>1. MaxCluster \in Nat
    BY StorageAssumption DEF File!UfatAssumption
  <2>2. F + (1 + q) - 1 = c
    BY <1>2
  <2> QED BY <1>1, <1>2, <2>1, <2>2
<1> DEFINE i == CHOOSE j \in DOMAIN vol.chain : vol.chain[j] = c
<1>4. i = 1 + q
  <2>1. i \in 1 .. n /\ vol.chain[i] = c
    BY <1>1, <1>2, <1>3
  <2> HIDE DEF i
  <2>2. F + i - 1 = F + q
    BY <1>1, <2>1
  <2> QED BY <1>1, <1>2, <2>1, <2>2
<1>5. File!Fat[c] = IF i = n THEN File!EndMark ELSE vol.chain[i + 1]
  <2>1. c \in 0 .. MaxCluster /\ ~(c < 2)
    BY <1>3
  <2>2. \E j \in DOMAIN vol.chain : vol.chain[j] = c
    BY <1>1, <1>2, <1>3
  <2> HIDE DEF c
  <2> QED BY <2>1, <2>2 DEF File!Fat, n
<1> HIDE DEF i
<1>6. File!Fat[c] = IF q = n - 1 THEN -1 ELSE F + q + 1
  <2>1. i = n <=> q = n - 1
    BY <1>1, <1>2, <1>4
  <2>2. CASE q = n - 1
    BY <2>1, <2>2, <1>5 DEF File!EndMark
  <2>3. CASE q # n - 1
    <3>1. i + 1 \in 1 .. n /\ F + (i + 1) - 1 = F + q + 1
      BY <1>1, <1>2, <1>4, <2>3
    <3>2. vol.chain[i + 1] = F + q + 1
      BY <1>1, <3>1
    <3> QED BY <1>5, <2>1, <2>3, <3>2
  <2> QED BY <2>2, <2>3
<1> QED BY <1>3, <1>6 DEF n, F, c

ReaderType ==
  [left : Int, clus : Int, lba : Int, next : Int, sec : Int, cont : Int]

(* How far the entries behind one count on.                                 *)
LEMMA CountsEnd ==
  ASSUME NEW room \in Nat, NEW good, good[0]
  PROVE  \E n \in 0 .. room : /\ \A i \in 0 .. n : good[i]
                              /\ n = room \/ ~good[n + 1]
<1> DEFINE B == {n \in 0 .. room : ~good[n]}
<1>1. CASE B = {}
  <2>1. room \in 0 .. room /\ \A i \in 0 .. room : good[i]
    BY <1>1
  <2> QED BY <2>1
<1>2. CASE B # {}
  <2>1. B \in SUBSET Nat
    <3>1. 0 .. room \in SUBSET Nat
      OBVIOUS
    <3> QED BY <3>1
  <2>2. PICK m \in B : \A n \in B : m <= n
    <3> HIDE DEF B
    <3> QED BY <1>2, <2>1, Least
  <2>3. m \in 0 .. room /\ ~good[m] /\ m # 0
    BY <2>2
  <2> DEFINE n == m - 1
  <2>4. n \in 0 .. room /\ n + 1 = m
    BY <2>3
  <2>5. \A i \in 0 .. n : good[i]
    <3> TAKE i \in 0 .. n
    <3>1. i \in 0 .. room /\ ~(m <= i)
      BY <2>3
    <3>2. i \notin B
      <4> HIDE DEF B
      <4> QED BY <2>2, <3>1
    <3> HIDE DEF n
    <3> QED BY <3>1, <3>2
  <2> HIDE DEF n
  <2> QED BY <2>3, <2>4, <2>5
<1> QED BY <1>1, <1>2

LEMMA NextInPiece ==
  ASSUME FileVol, File!InOnePiece, NEW q \in Nat, q + 1 < Len(vol.chain),
         NEW r \in ReaderType, r.next = vol.chain[1] + q
  PROVE  LET s == File!NextCluster(r)
             c == vol.chain[1] + (q + 1)
             e == Len(vol.chain) - 1
         IN  /\ s \in [left : {r.left}, clus : {c}, lba : {File!Lba(c, 0)},
                       next : Int, sec : {r.sec}, cont : Nat]
             /\ q + 1 + s.cont <= e
             /\ s.next = c + s.cont \/ q + 1 + s.cont = e
<1> DEFINE n == Len(vol.chain)
           F == vol.chain[1]
           g == File!Fat
           c == F + (q + 1)
           new == g[r.next]
           room == Epb - 1 - (r.next % Epb)
           Counts(k) == \A i \in 1 .. k : r.next + i <= MaxCluster
                                          /\ g[r.next + i] = new + i
           cont == CHOOSE k \in 0 .. room :
                     Counts(k) /\ (k = room \/ ~Counts(k + 1))
           behind == r.next + cont + 1
           next == IF cont = room THEN new + cont
                   ELSE IF behind <= MaxCluster THEN g[behind] ELSE File!Unused
           s == File!NextCluster(r)
<1>0. s = [r EXCEPT !.clus = new, !.lba = File!Lba(new, 0), !.cont = cont,
                    !.next = next]
  BY Zenon DEF File!NextCluster
<1>1. /\ n \in Nat /\ q + 1 < n /\ F \in Nat /\ q \in Nat /\ r.next = F + q
      /\ MaxCluster \in Nat /\ Epb \in Nat \ {0}
  <2>1. MaxCluster \in Nat /\ Epb \in Nat \ {0}
    BY StorageAssumption DEF File!UfatAssumption
  <2>2. 1 \in 1 .. n
    BY DEF FileVol
  <2>3. F \in 2 .. MaxCluster
    BY <2>2 DEF FileVol
  <2> QED BY <2>1, <2>3 DEF FileVol
<1>2. \A k \in 0 .. n - 1 :
        /\ F + k \in 2 .. MaxCluster
        /\ g[F + k] = IF k = n - 1 THEN -1 ELSE F + k + 1
  BY FatOfPiece
<1>3. DOMAIN g = 0 .. MaxCluster /\ \A x \in 0 .. MaxCluster : g[x] \in Int
  <2>1. g = [x \in 0 .. MaxCluster |-> g[x]]
    BY DEF File!Fat
  <2>2. ASSUME NEW x \in 0 .. MaxCluster PROVE g[x] \in Int
    <3> DEFINE i == CHOOSE j \in DOMAIN vol.chain : vol.chain[j] = x
    <3>1. CASE x < 2
      BY <3>1 DEF File!Fat, File!EndMark
    <3>2. CASE ~(x < 2) /\ \E j \in DOMAIN vol.chain : vol.chain[j] = x
      <4>1. g[x] = IF i = Len(vol.chain) THEN File!EndMark ELSE vol.chain[i + 1]
        BY <3>2 DEF File!Fat
      <4>2. i \in 1 .. Len(vol.chain)
        BY <3>2 DEF FileVol
      <4> HIDE DEF i
      <4>3. i # Len(vol.chain) => vol.chain[i + 1] \in 2 .. MaxCluster
        <5>1. Len(vol.chain) \in Nat
          BY DEF FileVol
        <5>2. i # Len(vol.chain) => i + 1 \in 1 .. Len(vol.chain)
          BY <4>2, <5>1
        <5> QED BY <5>2 DEF FileVol
      <4> QED BY <4>1, <4>3, <1>1 DEF File!EndMark
    <3>3. CASE ~(x < 2) /\ ~ \E j \in DOMAIN vol.chain : vol.chain[j] = x
      BY <1>1, <3>3 DEF File!Fat, File!Unused
    <3> QED BY <3>1, <3>2, <3>3
  <2> QED BY <2>1, <2>2
<1> HIDE DEF g, n, F
<1>4. new = c /\ new \in Nat
  <2>1. q \in 0 .. n - 1 /\ q # n - 1 /\ F + q + 1 = c
    BY <1>1
  <2> QED BY <1>1, <1>2, <2>1
<1>5. room \in Nat
  <2>1. (F + q) % Epb \in 0 .. Epb - 1
    BY <1>1
  <2> QED BY <1>1, <2>1
<1> HIDE DEF room, new, c
<1>6. /\ cont \in 0 .. room
      /\ Counts(cont) /\ (cont = room \/ ~Counts(cont + 1))
  <2> DEFINE good == [k \in 0 .. room + 1 |-> Counts(k)]
  <2>1. good[0]
    <3>1. 0 \in 0 .. room + 1 /\ 1 .. 0 = {}
      BY <1>5
    <3> QED BY <3>1
  <2>2. \A k \in 0 .. room : /\ k \in 0 .. room + 1 /\ k + 1 \in 0 .. room + 1
                             /\ k \in 0 .. k
    BY <1>5
  <2>3. \A k \in 0 .. room + 1 : good[k] <=> Counts(k)
    OBVIOUS
  <2> HIDE DEF good, Counts
  <2>4. PICK k \in 0 .. room : /\ \A i \in 0 .. k : good[i]
                               /\ k = room \/ ~good[k + 1]
    BY <1>5, <2>1, CountsEnd
  <2>5. Counts(k) /\ (k = room \/ ~Counts(k + 1))
    BY <2>2, <2>3, <2>4
  <2> QED BY <2>5, Zenon
<1> HIDE DEF cont
<1>7. cont \in Nat
  BY <1>5, <1>6
<1>8. q + 1 + cont <= n - 1
  <2> SUFFICES ASSUME n - 1 < q + 1 + cont PROVE FALSE
    BY <1>1, <1>7
  <2> DEFINE i == n - 1 - q
  <2>1. i \in 1 .. cont /\ q + i = n - 1 /\ n - 1 \in 0 .. n - 1
    BY <1>1, <1>7
  <2>2. g[r.next + i] = new + i
    <3> HIDE DEF i
    <3> QED BY <1>6, <2>1
  <2>3. r.next + i = F + (n - 1)
    BY <1>1
  <2>4. g[F + (n - 1)] = -1
    <3> DEFINE k == n - 1
    <3>1. k \in 0 .. n - 1
      BY <2>1
    <3> QED BY <1>2, <3>1
  <2>5. new + i > 0
    BY <1>4, <2>1
  <2> QED BY <2>2, <2>3, <2>4, <2>5
<1>9. next \in Int /\ (next = c + cont \/ q + 1 + cont = n - 1)
  <2>1. CASE cont = room
    BY <1>4, <1>7, <2>1
  <2>2. CASE cont # room
    <3> DEFINE k == q + 1 + cont
    <3>1. behind = F + k /\ k \in 0 .. n - 1
      BY <1>1, <1>7, <1>8
    <3>2. F + k \in 2 .. MaxCluster /\ g[F + k] = IF k = n - 1 THEN -1 ELSE F + k + 1
      <4> HIDE DEF k
      <4> QED BY <1>2, <3>1
    <3>3. next = g[behind]
      <4>1. behind <= MaxCluster
        BY <3>1, <3>2, <1>1
      <4> QED BY <2>2, <4>1
    <3>4. k = n - 1
      <4> SUFFICES ASSUME k # n - 1 PROVE FALSE
        OBVIOUS
      <4>1. \A i \in 1 .. cont + 1 : i = cont + 1 \/ i \in 1 .. cont
        BY <1>7
      <4>2. r.next + (cont + 1) = F + k /\ new + (cont + 1) = F + k + 1
        BY <1>1, <1>4, <1>7 DEF c
      <4>3. /\ r.next + (cont + 1) <= MaxCluster
            /\ g[r.next + (cont + 1)] = new + (cont + 1)
        BY <3>2, <4>2, <1>1
      <4>4. Counts(cont + 1)
        BY <1>6, <4>1, <4>3
      <4> HIDE DEF Counts
      <4> QED BY <1>6, <2>2, <4>4
    <3>5. next \in Int
      <4>1. behind \in 0 .. MaxCluster
        BY <3>1, <3>2, <1>1
      <4> HIDE DEF next, behind
      <4> QED BY <1>3, <3>3, <4>1
    <3> QED BY <3>4, <3>5
  <2> QED BY <2>1, <2>2
<1> HIDE DEF next, s
<1>10. s = [left |-> r.left, clus |-> c, lba |-> File!Lba(c, 0), next |-> next,
            sec |-> r.sec, cont |-> cont]
  BY <1>0, <1>4 DEF ReaderType
<1> QED BY <1>7, <1>8, <1>9, <1>10 DEF s, c, n, F

(* Reader r is at sector b, which lies in cluster q of a file in one piece; *)
(* the clusters that it has counted ahead belong to the file.               *)
Place(r, q, b) ==
  /\ r \in ReaderType /\ b \in Nat /\ q \in Nat /\ q < Len(vol.chain)
  /\ r.sec \in 0 .. vol.perClus - 1 /\ b = q * vol.perClus + r.sec
  /\ r.left = vol.size - 2 * b
  /\ r.clus = vol.chain[1] + q /\ r.lba = File!Lba(vol.chain[1] + q, r.sec)
  /\ r.cont \in Nat /\ q + r.cont < Len(vol.chain)
  /\ r.next = vol.chain[1] + q + r.cont \/ q + r.cont = Len(vol.chain) - 1

LEMMA IntoCluster ==
  ASSUME NEW m \in ReaderType
  PROVE  LET t == [m EXCEPT !.sec = 0, !.clus = @ + 1, !.lba = @ + 1, !.cont = @ - 1]
         IN  /\ t \in ReaderType /\ t.left = m.left /\ t.sec = 0
             /\ t.clus = m.clus + 1 /\ t.lba = m.lba + 1 /\ t.cont = m.cont - 1
             /\ t.next = m.next
<1>1. /\ m = [left |-> m.left, clus |-> m.clus, lba |-> m.lba, next |-> m.next,
                sec |-> m.sec, cont |-> m.cont]
      /\ m.left \in Int /\ m.next \in Int /\ m.clus + 1 \in Int
      /\ m.lba + 1 \in Int /\ m.cont - 1 \in Int
  BY DEF ReaderType
<1> DEFINE t == [m EXCEPT !.sec = 0, !.clus = @ + 1, !.lba = @ + 1, !.cont = @ - 1]
<1>2. t = [left |-> m.left, clus |-> m.clus + 1, lba |-> m.lba + 1,
           next |-> m.next, sec |-> 0, cont |-> m.cont - 1]
  <2> DEFINE x == m.clus + 1
             y == m.lba + 1
             z == m.cont - 1
  <2>1. t = [m EXCEPT !.sec = 0, !.clus = x, !.lba = y, !.cont = z]
    OBVIOUS
  <2> HIDE DEF x, y, z, t
  <2>2. t = [left |-> m.left, clus |-> x, lba |-> y, next |-> m.next,
             sec |-> 0, cont |-> z]
    BY <1>1, <2>1
  <2> QED BY <2>2 DEF x, y, z
<1> HIDE DEF t
<1>3. /\ t \in ReaderType /\ t.left = m.left /\ t.sec = 0
      /\ t.clus = m.clus + 1 /\ t.lba = m.lba + 1 /\ t.cont = m.cont - 1
      /\ t.next = m.next
  BY <1>1, <1>2 DEF ReaderType
<1> QED BY <1>3 DEF t

LEMMA LbaIs ==
  ASSUME NEW c, NEW s
  PROVE  File!Lba(c, s) = disk.data + (c - 2) * vol.perClus + s
  BY DEF File!Lba

LEMMA AdvanceInPiece ==
  ASSUME FileVol, File!InOnePiece, disk.data \in Nat, NEW r, NEW q, NEW b,
         Place(r, q, b), r.left > 2
  PROVE  \E x : Place(File!Advance([r EXCEPT !.left = @ - 2]), x, b + 1)
<1> DEFINE n == Len(vol.chain)
           F == vol.chain[1]
           p == vol.perClus
           m == [r EXCEPT !.left = @ - 2]
           s == File!Advance(m)
           L(c, k) == File!Lba(c, k)
<1>1. /\ n \in Nat /\ F \in Nat /\ p \in Nat /\ 0 < p /\ vol.size \in Nat
      /\ n = File!ChainFor(vol.size, p)
  <2>1. 1 \in 1 .. n
    BY DEF FileVol
  <2>2. F \in 2 .. MaxCluster
    BY <2>1 DEF FileVol
  <2>3. F \in Nat
    BY <2>2
  <2> QED BY <2>3 DEF FileVol
<1>2. /\ r \in ReaderType /\ b \in Nat /\ q \in Nat /\ q < n
      /\ r.sec \in 0 .. p - 1 /\ b = q * p + r.sec
      /\ r.left = vol.size - 2 * b
      /\ r.clus = F + q /\ r.lba = L(F + q, r.sec)
      /\ r.cont \in Nat /\ q + r.cont < n
      /\ r.next = F + q + r.cont \/ q + r.cont = n - 1
  BY DEF Place
<1>3. \A c \in Int, k \in Int :
        /\ L(c, k) \in Int /\ L(c, k + 1) = L(c, k) + 1
        /\ L(c + 1, 0) = L(c, p - 1) + 1
  <2> TAKE c \in Int, k \in Int
  <2> DEFINE d == disk.data
  <2>1. d \in Nat /\ L(c, k) = d + (c - 2) * p + k
        /\ L(c, k + 1) = d + (c - 2) * p + (k + 1)
        /\ L(c + 1, 0) = d + (c + 1 - 2) * p + 0
        /\ L(c, p - 1) = d + (c - 2) * p + (p - 1)
    BY DEF File!Lba
  <2> HIDE DEF d, L, p
  <2>2. (c + 1 - 2) * p = (c - 2) * p + p /\ (c - 2) * p \in Int
    BY <1>1
  <2> QED BY <1>1, <2>1, <2>2
<1>4. /\ m \in ReaderType /\ m.left = r.left - 2 /\ m.sec = r.sec
      /\ m.clus = r.clus /\ m.lba = r.lba /\ m.cont = r.cont /\ m.next = r.next
  <2>1. r \in ReaderType /\ r.left - 2 \in Int
    BY <1>2 DEF ReaderType
  <2> HIDE DEF n, F, p, L
  <2> QED BY <2>1 DEF ReaderType
<1> HIDE DEF n, F, p
<1>41. /\ r.left \in Int /\ r.sec \in Nat /\ r.clus \in Int /\ r.lba \in Int
       /\ r.next \in Int /\ F + q \in Nat
  <2>1. r.sec \in Nat
    BY <1>1, <1>2
  <2> QED BY <1>1, <1>2, <2>1 DEF ReaderType
<1>5. m.left = vol.size - 2 * (b + 1) /\ b + 1 \in Nat
  <2> DEFINE z == vol.size
  <2>1. z \in Nat /\ r.left = z - 2 * b /\ m.left = r.left - 2
    BY <1>1, <1>2, <1>4
  <2> HIDE DEF z, m
  <2>2. m.left = z - 2 * (b + 1) /\ b + 1 \in Nat
    BY <1>2, <2>1
  <2> QED BY <2>2 DEF z
<1> HIDE DEF m, L
<1>6. CASE r.sec + 1 # p
  <2> DEFINE t == [m EXCEPT !.sec = @ + 1, !.lba = @ + 1]
  <2>1. s = t
    BY <1>4, <1>6 DEF File!Advance, p
  <2>2. /\ t \in ReaderType /\ t.left = m.left /\ t.sec = r.sec + 1
        /\ t.clus = r.clus /\ t.lba = r.lba + 1 /\ t.cont = r.cont /\ t.next = r.next
    <3>1. m \in ReaderType /\ m.sec + 1 \in Int /\ m.lba + 1 \in Int
      BY <1>4 DEF ReaderType
    <3>2. /\ t \in ReaderType /\ t.left = m.left /\ t.sec = m.sec + 1
          /\ t.clus = m.clus /\ t.lba = m.lba + 1 /\ t.cont = m.cont /\ t.next = m.next
      BY <3>1 DEF ReaderType
    <3> HIDE DEF t
    <3> QED BY <1>4, <3>2
  <2> HIDE DEF t
  <2>3. t.sec \in 0 .. p - 1 /\ b + 1 = q * p + t.sec
    <3> DEFINE y == q * p
               k == r.sec
    <3>1. y \in Int /\ b = y + k /\ k \in 0 .. p - 1 /\ k + 1 # p /\ t.sec = k + 1
      BY <1>1, <1>2, <1>6, <2>2
    <3> HIDE DEF y, k
    <3>2. p \in Nat /\ b \in Nat
      BY <1>1, <1>2
    <3>3. t.sec \in 0 .. p - 1 /\ b + 1 = y + t.sec
      BY <3>1, <3>2
    <3> QED BY <3>3 DEF y
  <2>4. t.lba = L(F + q, t.sec)
    <3>1. F + q \in Int /\ r.sec \in Int
      BY <1>41
    <3>2. L(F + q, r.sec + 1) = L(F + q, r.sec) + 1
      BY <1>3, <3>1
    <3> QED BY <1>2, <2>2, <3>2
  <2> HIDE DEF s
  <2>5. Place(s, q, b + 1)
    BY <1>2, <1>5, <2>1, <2>2, <2>3, <2>4 DEF Place, n, F, p, L
  <2> QED BY <2>5 DEF s, m
<1>7. CASE r.sec + 1 = p /\ r.cont > 0
  <2> DEFINE t == [m EXCEPT !.sec = 0, !.clus = @ + 1, !.lba = @ + 1, !.cont = @ - 1]
  <2>1. s = t
    BY <1>4, <1>7 DEF File!Advance, p
  <2>2. /\ t \in ReaderType /\ t.left = m.left /\ t.sec = 0
        /\ t.clus = r.clus + 1 /\ t.lba = r.lba + 1 /\ t.cont = r.cont - 1
        /\ t.next = r.next
    <3>1. m \in ReaderType /\ m.clus + 1 \in Int /\ m.lba + 1 \in Int
          /\ m.cont - 1 \in Int
      BY <1>4 DEF ReaderType
    <3>2. /\ t \in ReaderType /\ t.left = m.left /\ t.sec = 0
          /\ t.clus = m.clus + 1 /\ t.lba = m.lba + 1 /\ t.cont = m.cont - 1
          /\ t.next = m.next
      BY <1>4, IntoCluster
    <3> HIDE DEF t
    <3> QED BY <1>4, <3>2
  <2> HIDE DEF t
  <2>3. t.sec \in 0 .. p - 1 /\ b + 1 = (q + 1) * p + t.sec
    <3>1. (q + 1) * p = q * p + p
      BY <1>1, <1>2
    <3> QED BY <1>1, <1>2, <1>41, <1>7, <2>2, <3>1
  <2>4. t.lba = L(F + (q + 1), t.sec)
    <3>1. F + q \in Int /\ r.sec = p - 1 /\ F + q + 1 = F + (q + 1)
      BY <1>1, <1>2, <1>41, <1>7
    <3>2. L(F + q + 1, 0) = L(F + q, p - 1) + 1
      BY <1>3, <3>1
    <3> QED BY <1>2, <2>2, <3>1, <3>2
  <2>5. /\ q + 1 \in Nat /\ q + 1 < n /\ t.clus = F + (q + 1) /\ t.cont \in Nat
        /\ q + 1 + t.cont < n
        /\ t.next = F + (q + 1) + t.cont \/ q + 1 + t.cont = n - 1
    BY <1>1, <1>2, <1>41, <1>7, <2>2
  <2> HIDE DEF s
  <2>6. Place(s, q + 1, b + 1)
    BY <1>5, <2>1, <2>2, <2>3, <2>4, <2>5 DEF Place, n, F, p, L
  <2> QED BY <2>6 DEF s, m
<1>8. CASE r.sec + 1 = p /\ ~(r.cont > 0)
  <2> DEFINE t == [m EXCEPT !.sec = 0]
             u == File!NextCluster(t)
             c == F + (q + 1)
  <2>1. s = u
    BY <1>4, <1>8 DEF File!Advance, p
  <2>2. /\ t \in ReaderType /\ t.left = m.left /\ t.sec = 0 /\ t.next = r.next
    BY <1>4 DEF ReaderType
  <2>3. r.cont = 0 /\ b + 1 = (q + 1) * p + 0 /\ 0 \in 0 .. p - 1
    <3>1. (q + 1) * p = q * p + p
      BY <1>1, <1>2
    <3> QED BY <1>1, <1>2, <1>41, <1>8, <3>1
  <2>4. q + 1 \in Nat /\ q + 1 < n
    <3>1. 2 * ((q + 1) * p) < vol.size
      <4> DEFINE y == (q + 1) * p
                 z == vol.size
                 k == r.left
      <4>1. z \in Nat /\ k = z - 2 * b /\ k > 2 /\ b + 1 = y /\ b \in Nat
        BY <1>1, <1>2, <2>3
      <4> HIDE DEF y, z, k
      <4>2. 2 * y < z
        BY <4>1
      <4> QED BY <4>2 DEF y, z
    <3>2. q + 1 \in Nat
      BY <1>2
    <3> DEFINE x == q + 1
    <3> HIDE DEF x
    <3>3. x \in Nat /\ 2 * (x * p) < vol.size
      BY <3>1, <3>2 DEF x
    <3> HIDE DEF p, n
    <3>4. x < n
      BY <1>1, <3>3, ClustersEnough
    <3> QED BY <3>2, <3>4 DEF x
  <2>5. t.next = F + q
    BY <1>1, <1>2, <2>2, <2>3, <2>4
  <2> HIDE DEF t
  <2>6. /\ u \in [left : {t.left}, clus : {c}, lba : {L(c, 0)}, next : Int,
                  sec : {t.sec}, cont : Nat]
        /\ q + 1 + u.cont <= n - 1
        /\ u.next = c + u.cont \/ q + 1 + u.cont = n - 1
    <3>1. /\ q \in Nat /\ q + 1 < Len(vol.chain) /\ t \in ReaderType
          /\ t.next = vol.chain[1] + q
      BY <1>2, <2>2, <2>4, <2>5 DEF n, F
    <3> HIDE DEF u
    <3>2. /\ u \in [left : {t.left}, clus : {vol.chain[1] + (q + 1)},
                    lba : {File!Lba(vol.chain[1] + (q + 1), 0)}, next : Int,
                    sec : {t.sec}, cont : Nat]
          /\ q + 1 + u.cont <= Len(vol.chain) - 1
          /\ u.next = vol.chain[1] + (q + 1) + u.cont
             \/ q + 1 + u.cont = Len(vol.chain) - 1
      BY <3>1, NextInPiece DEF u
    <3> QED BY <3>2 DEF n, F, L
  <2>7. L(c, 0) \in Int /\ c \in Int
    <3>1. c \in Int /\ 0 \in Int
      BY <1>1, <1>2
    <3> HIDE DEF c
    <3> QED BY <1>3, <3>1
  <2> HIDE DEF u, s
  <2>8. /\ u \in ReaderType /\ u.left = m.left /\ u.sec = 0 /\ u.clus = c
        /\ u.lba = L(c, u.sec) /\ u.cont \in Nat /\ q + 1 + u.cont < n
    <3>1. m.left \in Int
      BY <1>4 DEF ReaderType
    <3>2. u \in ReaderType /\ u.left = m.left /\ u.sec = 0 /\ u.clus = c
          /\ u.lba = L(c, 0) /\ u.cont \in Nat
      <4> HIDE DEF c
      <4> QED BY <3>1, <2>2, <2>6, <2>7 DEF ReaderType
    <3>3. q + 1 + u.cont < n
      BY <1>1, <1>2, <2>6, <3>2
    <3> QED BY <3>2, <3>3
  <2>9. Place(s, q + 1, b + 1)
    BY <1>5, <2>1, <2>3, <2>4, <2>6, <2>8 DEF Place, n, F, p, L, c
  <2> QED BY <2>9 DEF s, m
<1>9. r.sec + 1 # p \/ (r.sec + 1 = p /\ r.cont > 0)
      \/ (r.sec + 1 = p /\ ~(r.cont > 0))
  OBVIOUS
<1> QED BY <1>6, <1>7, <1>8, <1>9

(* Where it is, it reads the sector of the file, and says which is the last. *)
LEMMA PlaceIsSector ==
  ASSUME FileVol, File!InOnePiece, disk = File!Layout(vol.boot),
         NEW r, NEW q, NEW b, Place(r, q, b), r.left > 0
  PROVE  /\ r.lba = File!Sector(b)
         /\ r.left <= 2 <=> b = File!FileSectors - 1
<1> DEFINE n == Len(vol.chain)
           F == vol.chain[1]
           p == vol.perClus
           base == vol.boot.part + vol.boot.reserved
           fats == vol.boot.fats
           size == vol.boot.fatSize
<1>1. /\ n \in Nat /\ p \in Nat /\ 0 < p /\ vol.size \in Nat
      /\ base \in Nat /\ fats \in Nat /\ size \in Nat
  BY DEF FileVol
<1>2. /\ b \in Nat /\ q \in Nat /\ q < n /\ r.sec \in 0 .. p - 1
      /\ b = q * p + r.sec /\ r.left = vol.size - 2 * b
      /\ r.lba = File!Lba(F + q, r.sec)
  BY DEF Place
<1>3. b \div p = q /\ b % p = r.sec
  <2> DEFINE k == r.sec
  <2>1. k \in 0 .. p - 1 /\ b = q * p + k
    BY <1>2
  <2> HIDE DEF k, p
  <2>2. b \div p = q /\ b % p = k
    BY <1>1, <1>2, <2>1, PlaceOf
  <2> QED BY <2>2 DEF k
<1>4. vol.chain[1 + q] = F + q
  <2>1. q \in 0 .. n - 1
    BY <1>1, <1>2
  <2> QED BY <2>1, FatOfPiece
<1>5. disk.data = base + size * fats
  BY DEF File!Layout
<1>6. fats * size = size * fats
  BY <1>1
<1>7. r.lba = File!Sector(b)
  <2> DEFINE x == b \div p
             y == b % p
  <2>1. File!Sector(b) = base + fats * size + (vol.chain[1 + x] - 2) * p + y
    BY DEF File!Sector
  <2>2. r.lba = File!Lba(F + q, r.sec)
    BY <1>2
  <2>3. File!Lba(F + q, r.sec) = disk.data + ((F + q) - 2) * p + r.sec
    BY LbaIs, Zenon
  <2>5. x = q /\ y = r.sec
    BY <1>3
  <2> HIDE DEF p, n, base, fats, size, F, x, y
  <2>4. File!Sector(b) = base + size * fats + ((F + q) - 2) * p + r.sec
    <3>2. File!Sector(b) = base + fats * size + (vol.chain[1 + q] - 2) * p + r.sec
      BY <2>1, <2>5, Zenon
    <3> QED BY <3>2, <1>4, <1>6, Zenon
  <2> QED BY <2>2, <2>3, <2>4, <1>5, Zenon
<1>8. r.left <= 2 <=> b = File!FileSectors - 1
  <2> DEFINE z == vol.size
             k == r.left
  <2>1. k = z - 2 * b /\ k > 0
    BY <1>2
  <2> HIDE DEF z, k
  <2>2. k <= 2 <=> b = (z + 2 - 1) \div 2 - 1
    <3>1. z \in Nat /\ k \in Int /\ b \in Nat
      BY <1>1, <1>2, <2>1 DEF z
    <3> QED BY <3>1, <2>1
  <2> QED BY <2>2 DEF File!FileSectors, File!PerSector, z, k
<1> QED BY <1>7, <1>8

RunType == [cluster : Nat, cont : Nat]

(* The runs are the first k clusters of the file, run i from the one after  *)
(* B[i] clusters.                                                           *)
IsMap(runs, k, B) ==
  LET n == Len(runs)
  IN  /\ runs \in Seq(RunType) /\ n \in Nat \ {0}
      /\ \A i \in 1 .. n + 1 : B[i] \in Nat
      /\ B[1] = 0 /\ B[n + 1] = k
      /\ \A i \in 1 .. n : B[i + 1] = B[i] + runs[i].cont + 1
      /\ \A i \in 1 .. n : \A x \in 0 .. runs[i].cont :
           B[i] + x < k /\ vol.chain[B[i] + x + 1] = runs[i].cluster + x
      /\ \A y \in 0 .. k - 1 : \E i \in 1 .. n :
           B[i] <= y /\ y <= B[i] + runs[i].cont

LEMMA ChainTypes ==
  ASSUME FileVol, NEW i \in 1 .. Len(vol.chain)
  PROVE  vol.chain[i] \in Nat
<1>1. vol.chain[i] \in 2 .. MaxCluster
  BY DEF FileVol
<1> QED BY <1>1

LEMMA OneRun ==
  ASSUME FileVol
  PROVE  \E B : IsMap(<<File!Run(vol.chain[1])>>, 1, B)
<1> DEFINE r == File!Run(vol.chain[1])
           s == <<r>>
           B == [i \in 1 .. 2 |-> i - 1]
<1>1. 1 \in 1 .. Len(vol.chain)
  BY DEF FileVol
<1>2. vol.chain[1] \in Nat
  BY <1>1, ChainTypes
<1>3. r \in RunType /\ r.cluster = vol.chain[1] /\ r.cont = 0
  BY <1>2 DEF File!Run, RunType
<1> HIDE DEF r
<1>4. s \in Seq(RunType) /\ Len(s) = 1 /\ s[1] = r
  BY <1>3
<1>5. B[1] = 0 /\ B[2] = 1
  OBVIOUS
<1> HIDE DEF s, B
<1>6. IsMap(s, 1, B)
  <2>1. \A i \in 1 .. Len(s) + 1 : B[i] \in Nat
    BY <1>4, <1>5
  <2>2. \A i \in 1 .. Len(s) : B[i + 1] = B[i] + s[i].cont + 1
    BY <1>3, <1>4, <1>5
  <2>3. \A i \in 1 .. Len(s) : \A x \in 0 .. s[i].cont :
          B[i] + x < 1 /\ vol.chain[B[i] + x + 1] = s[i].cluster + x
    <3> TAKE i \in 1 .. Len(s)
    <3> TAKE x \in 0 .. s[i].cont
    <3>1. i = 1 /\ x = 0
      BY <1>3, <1>4
    <3> QED BY <1>2, <1>3, <1>4, <1>5, <3>1
  <2>4. \A y \in 0 .. 1 - 1 : \E i \in 1 .. Len(s) :
          B[i] <= y /\ y <= B[i] + s[i].cont
    <3>1. 1 \in 1 .. Len(s) /\ \A y \in 0 .. 1 - 1 : B[1] <= y /\ y <= B[1] + s[1].cont
      BY <1>3, <1>4, <1>5
    <3> QED BY <3>1
  <2> QED BY <1>4, <1>5, <2>1, <2>2, <2>3, <2>4 DEF IsMap
<1> QED BY <1>6 DEF s, r

(* A cluster that follows makes the last run longer.                        *)
LEMMA RunGrows ==
  ASSUME NEW runs, NEW k \in Nat, NEW B, IsMap(runs, k, B),
         NEW t, NEW n, n = Len(runs),
         vol.chain[k + 1] = runs[n].cluster + runs[n].cont + 1,
         t = [runs EXCEPT ![n].cont = @ + 1]
  PROVE  \E C : IsMap(t, k + 1, C)
<1> DEFINE C == [i \in 1 .. n + 1 |-> IF i = n + 1 THEN k + 1 ELSE B[i]]
           S == Seq(RunType)
<1>1. /\ runs \in S /\ n \in Nat \ {0}
      /\ \A i \in 1 .. n + 1 : B[i] \in Nat
      /\ B[1] = 0 /\ B[n + 1] = k
      /\ \A i \in 1 .. n : B[i + 1] = B[i] + runs[i].cont + 1
      /\ \A i \in 1 .. n : \A x \in 0 .. runs[i].cont :
           B[i] + x < k /\ vol.chain[B[i] + x + 1] = runs[i].cluster + x
      /\ \A y \in 0 .. k - 1 : \E i \in 1 .. n :
           B[i] <= y /\ y <= B[i] + runs[i].cont
  BY DEF IsMap
<1>2. \A i \in 1 .. n : runs[i] \in RunType
  BY <1>1, ElementOfSeq
<1>3. n \in 1 .. n /\ DOMAIN runs = 1 .. n
  BY <1>1, LenProperties
<1>4. /\ runs[n].cont \in Nat /\ runs[n].cont + 1 \in Nat
      /\ runs[n].cluster \in Nat
  BY <1>2, <1>3 DEF RunType
<1>5. /\ DOMAIN t = 1 .. n
      /\ \A i \in 1 .. n : i # n => t[i] = runs[i]
      /\ t[n] = [cluster |-> runs[n].cluster, cont |-> runs[n].cont + 1]
  <2> DEFINE r == runs[n]
             v == [r EXCEPT !.cont = @ + 1]
  <2>1. t = [runs EXCEPT ![n] = v]
    OBVIOUS
  <2>2. r = [cluster |-> r.cluster, cont |-> r.cont]
    BY <1>2, <1>3 DEF RunType
  <2>3. v = [cluster |-> r.cluster, cont |-> r.cont + 1]
    <3> HIDE DEF r
    <3> QED BY <2>2
  <2> HIDE DEF v
  <2> QED BY <1>3, <2>1, <2>3
<1>6. t \in S /\ Len(t) = n
  <2>1. \A i \in 1 .. n : t[i] \in RunType
    <3>1. [cluster |-> runs[n].cluster, cont |-> runs[n].cont + 1] \in RunType
      BY <1>4 DEF RunType
    <3> QED BY <3>1, <1>2, <1>5
  <2>2. t = [i \in 1 .. n |-> t[i]]
    <3>1. t = [i \in DOMAIN runs |-> t[i]]
      OBVIOUS
    <3> QED BY <3>1, <1>3
  <2>3. t \in [1 .. n -> RunType]
    BY <2>1, <2>2
  <2> QED BY <1>1, <2>3
<1>7. /\ \A i \in 1 .. n : C[i] = B[i]
      /\ C[n + 1] = k + 1
  <2>1. \A i \in 1 .. n : i \in 1 .. n + 1 /\ i # n + 1
    BY <1>1
  <2>2. n + 1 \in 1 .. n + 1
    BY <1>1
  <2> QED BY <2>1, <2>2
<1> HIDE DEF C
<1>8. /\ \A i \in 1 .. n : B[i] \in Nat /\ t[i].cluster = runs[i].cluster
      /\ \A i \in 1 .. n : i # n => t[i].cont = runs[i].cont
      /\ t[n].cont = runs[n].cont + 1
  <2>1. \A i \in 1 .. n : i \in 1 .. n + 1
    BY <1>1
  <2> QED BY <1>1, <1>5, <2>1
<1>9. k = B[n] + runs[n].cont + 1 /\ B[n] \in Nat
  BY <1>1, <1>3, <1>8
<1>10. \A i \in 1 .. n + 1 : C[i] \in Nat
  <2>1. \A i \in 1 .. n + 1 : i \in 1 .. n \/ i = n + 1
    BY <1>1
  <2> QED BY <1>7, <1>8, <2>1
<1>11. ASSUME NEW i \in 1 .. n PROVE C[i + 1] = C[i] + t[i].cont + 1
  <2>1. CASE i = n
    <3>1. k + 1 = B[n] + (runs[n].cont + 1) + 1
      BY <1>3, <1>4, <1>8, <1>9
    <3> QED BY <1>3, <1>7, <1>8, <2>1, <3>1
  <2>2. CASE i # n
    <3>1. i + 1 \in 1 .. n
      BY <1>1, <2>2
    <3> QED BY <1>1, <1>7, <1>8, <2>2, <3>1
  <2> QED BY <2>1, <2>2
<1>12. ASSUME NEW i \in 1 .. n, NEW x \in 0 .. t[i].cont
       PROVE  C[i] + x < k + 1 /\ vol.chain[C[i] + x + 1] = t[i].cluster + x
  <2>1. C[i] = B[i] /\ B[i] \in Nat /\ t[i].cluster = runs[i].cluster
    BY <1>7, <1>8
  <2>2. CASE x \in 0 .. runs[i].cont
    <3>1. B[i] + x < k /\ vol.chain[B[i] + x + 1] = runs[i].cluster + x
      BY <1>1, <2>2
    <3>2. B[i] + x < k + 1
      BY <2>1, <2>2, <3>1
    <3> QED BY <2>1, <3>1, <3>2
  <2>3. CASE ~(x \in 0 .. runs[i].cont)
    <3>1. i = n
      BY <1>8, <2>3
    <3>2. x = runs[n].cont + 1
      BY <1>4, <1>8, <2>3, <3>1
    <3>3. B[n] + x = k /\ B[n] \in Nat /\ x \in Nat
      BY <1>4, <1>8, <1>9, <1>3, <3>2
    <3>4. runs[n].cluster + x = runs[n].cluster + runs[n].cont + 1
      BY <1>4, <3>2
    <3>5. C[i] + x = k
      BY <2>1, <3>1, <3>3
    <3>6. t[i].cluster + x = vol.chain[k + 1]
      BY <2>1, <3>1, <3>4
    <3> QED BY <3>5, <3>6
  <2> QED BY <2>2, <2>3
<1>13. ASSUME NEW y \in 0 .. (k + 1) - 1
       PROVE  \E i \in 1 .. n : C[i] <= y /\ y <= C[i] + t[i].cont
  <2>1. CASE y = k
    <3>1. C[n] <= y /\ y <= C[n] + t[n].cont
      BY <1>3, <1>4, <1>7, <1>8, <1>9, <2>1
    <3> QED BY <1>3, <3>1
  <2>2. CASE y # k
    <3>1. y \in 0 .. k - 1
      BY <2>2
    <3>2. PICK i \in 1 .. n : B[i] <= y /\ y <= B[i] + runs[i].cont
      BY <1>1, <3>1
    <3>3. runs[i].cont \in Nat /\ B[i] \in Nat /\ C[i] = B[i]
      BY <1>2, <1>7, <1>8 DEF RunType
    <3>4. y <= C[i] + t[i].cont
      <4>1. CASE i = n
        BY <1>8, <3>2, <3>3, <4>1
      <4>2. CASE i # n
        BY <1>8, <3>2, <3>3, <4>2
      <4> QED BY <4>1, <4>2
    <3> QED BY <3>2, <3>3, <3>4
  <2> QED BY <2>1, <2>2
<1>14. C[1] = 0
  <2>1. 1 \in 1 .. n
    BY <1>1
  <2> QED BY <2>1, <1>1, <1>7
<1>15. IsMap(t, k + 1, C)
  BY <1>1, <1>6, <1>7, <1>10, <1>11, <1>12, <1>13, <1>14 DEF IsMap
<1> QED BY <1>15

(* Any other begins a run.                                                  *)
LEMMA RunBegins ==
  ASSUME NEW runs, NEW k \in Nat, NEW B, IsMap(runs, k, B),
         vol.chain[k + 1] \in Nat
  PROVE  \E C : IsMap(Append(runs, File!Run(vol.chain[k + 1])), k + 1, C)
<1> DEFINE n == Len(runs)
           r == File!Run(vol.chain[k + 1])
           t == Append(runs, r)
           m == n + 1
           C == [i \in 1 .. m + 1 |-> IF i = m + 1 THEN k + 1 ELSE B[i]]
<1>1. /\ runs \in Seq(RunType) /\ n \in Nat \ {0}
      /\ \A i \in 1 .. n + 1 : B[i] \in Nat
      /\ B[1] = 0 /\ B[n + 1] = k
      /\ \A i \in 1 .. n : B[i + 1] = B[i] + runs[i].cont + 1
      /\ \A i \in 1 .. n : \A x \in 0 .. runs[i].cont :
           B[i] + x < k /\ vol.chain[B[i] + x + 1] = runs[i].cluster + x
      /\ \A y \in 0 .. k - 1 : \E i \in 1 .. n :
           B[i] <= y /\ y <= B[i] + runs[i].cont
  BY DEF IsMap
<1>2. r \in RunType /\ r.cluster = vol.chain[k + 1] /\ r.cont = 0
  BY DEF File!Run, RunType
<1> HIDE DEF r
<1>3. /\ t \in Seq(RunType) /\ Len(t) = m
      /\ \A i \in 1 .. n : t[i] = runs[i]
      /\ t[m] = r
  BY <1>1, <1>2, AppendProperties
<1>4. m \in Nat \ {0} /\ \A i \in 1 .. m : i \in 1 .. n \/ i = m
  BY <1>1
<1>5. /\ \A i \in 1 .. m : C[i] = B[i] /\ B[i] \in Nat
      /\ C[m + 1] = k + 1
  <2>1. \A i \in 1 .. m : i \in 1 .. m + 1 /\ i # m + 1 /\ i \in 1 .. n + 1
    BY <1>1
  <2>2. m + 1 \in 1 .. m + 1
    BY <1>1
  <2> QED BY <1>1, <2>1, <2>2
<1>6. B[m] = k /\ m \in 1 .. m
  BY <1>1
<1>61. \A i \in 1 .. n : i \in 1 .. m /\ i + 1 \in 1 .. m /\ i # m
  BY <1>1
<1>62. \A i \in 1 .. n : runs[i].cont \in Nat
  <2> TAKE i \in 1 .. n
  <2>1. runs[i] \in RunType
    BY <1>1, ElementOfSeq
  <2> QED BY <2>1 DEF RunType
<1> HIDE DEF C, t, m, n
<1>7. \A i \in 1 .. m + 1 : C[i] \in Nat
  <2>1. \A i \in 1 .. m + 1 : i \in 1 .. m \/ i = m + 1
    BY <1>4
  <2> QED BY <1>5, <2>1
<1>8. ASSUME NEW i \in 1 .. m PROVE C[i + 1] = C[i] + t[i].cont + 1
  <2>1. CASE i = m
    <3>1. t[i].cont = 0 /\ C[i] = k /\ C[i + 1] = k + 1
      BY <1>2, <1>3, <1>5, <1>6, <2>1
    <3> QED BY <3>1
  <2>2. CASE i \in 1 .. n
    <3>1. C[i + 1] = B[i + 1] /\ C[i] = B[i] /\ t[i] = runs[i]
      BY <1>3, <1>5, <1>61, <2>2
    <3> QED BY <1>1, <2>2, <3>1 DEF n
  <2> QED BY <1>4, <2>1, <2>2
<1>9. ASSUME NEW i \in 1 .. m, NEW x \in 0 .. t[i].cont
      PROVE  C[i] + x < k + 1 /\ vol.chain[C[i] + x + 1] = t[i].cluster + x
  <2>1. CASE i = m
    <3>1. x = 0 /\ C[i] = k /\ t[i].cluster = vol.chain[k + 1]
      BY <1>2, <1>3, <1>5, <1>6, <2>1
    <3> QED BY <3>1
  <2>2. CASE i \in 1 .. n
    <3>1. C[i] = B[i] /\ B[i] \in Nat /\ t[i] = runs[i]
      BY <1>3, <1>5, <1>61, <2>2
    <3>2. x \in 0 .. runs[i].cont
      BY <3>1
    <3>3. B[i] + x < k /\ vol.chain[B[i] + x + 1] = runs[i].cluster + x
      BY <1>1, <2>2, <3>2 DEF n
    <3>4. B[i] + x < k + 1
      BY <3>1, <3>2, <3>3
    <3> QED BY <3>1, <3>3, <3>4
  <2> QED BY <1>4, <2>1, <2>2
<1>10. ASSUME NEW y \in 0 .. (k + 1) - 1
       PROVE  \E i \in 1 .. m : C[i] <= y /\ y <= C[i] + t[i].cont
  <2>1. CASE y = k
    <3>1. C[m] <= y /\ y <= C[m] + t[m].cont
      BY <1>2, <1>3, <1>5, <1>6, <2>1
    <3> QED BY <1>6, <3>1
  <2>2. CASE y # k
    <3>1. y \in 0 .. k - 1
      BY <2>2
    <3>2. PICK i \in 1 .. n : B[i] <= y /\ y <= B[i] + runs[i].cont
      BY <1>1, <3>1 DEF n
    <3> QED BY <1>3, <1>5, <1>61, <3>2
  <2> QED BY <2>1, <2>2
<1>11. C[1] = 0
  <2>1. 1 \in 1 .. m
    BY <1>4
  <2> QED BY <2>1, <1>1, <1>5
<1>12. IsMap(t, k + 1, C)
  BY <1>3, <1>4, <1>5, <1>7, <1>8, <1>9, <1>10, <1>11 DEF IsMap
<1> QED BY <1>12 DEF t, r

MapRecord == [state : {"ok", "too small"}, runs : Seq(RunType)]

LEMMA FirstRunIs ==
  ASSUME FileVol
  PROVE  /\ File!FirstRun \in MapRecord /\ File!FirstRun.state = "ok"
         /\ \E B : IsMap(File!FirstRun.runs, 1, B)
<1>1. PICK B : IsMap(<<File!Run(vol.chain[1])>>, 1, B)
  BY OneRun
<1>2. <<File!Run(vol.chain[1])>> \in Seq(RunType)
  BY <1>1 DEF IsMap
<1> DEFINE s == <<File!Run(vol.chain[1])>>
<1>3. File!FirstRun = [state |-> "ok", runs |-> s]
  BY DEF File!FirstRun
<1>4. s \in Seq(RunType) /\ IsMap(s, 1, B)
  BY <1>1, <1>2
<1> HIDE DEF s
<1> QED BY <1>3, <1>4 DEF MapRecord

(* The next cluster of the file comes to the map.                           *)
LEMMA ToMapKeeps ==
  ASSUME FileVol, NEW k \in Nat, k + 1 \in 1 .. Len(vol.chain),
         NEW m \in MapRecord,
         m.state = "ok" => \E B : IsMap(m.runs, k, B)
  PROVE  LET t == File!ToMap(m, vol.chain[k + 1])
         IN  t \in MapRecord /\ (t.state = "ok" => \E B : IsMap(t.runs, k + 1, B))
<1> DEFINE next == vol.chain[k + 1]
           n == Len(m.runs)
           r == File!Last(m.runs)
           new == next # r.cluster + r.cont + 1 \/ r.cont = MapEntry
           longer == [m EXCEPT !.runs[Len(m.runs)].cont = @ + 1]
           more == [m EXCEPT !.runs = Append(@, File!Run(next))]
           t == File!ToMap(m, next)
<1>1. next \in Nat
  BY ChainTypes
<1>2. m = [state |-> m.state, runs |-> m.runs] /\ m.state \in {"ok", "too small"}
      /\ m.runs \in Seq(RunType)
  BY DEF MapRecord
<1>3. CASE m.state # "ok"
  <2>1. t = m
    BY <1>3 DEF File!ToMap
  <2> HIDE DEF t
  <2> QED BY <1>3, <2>1 DEF t
<1>4. CASE m.state = "ok" /\ ~new
  <2>1. t = longer
    BY <1>4 DEF File!ToMap
  <2>2. PICK B : IsMap(m.runs, k, B)
    BY <1>4
  <2> DEFINE s == [m.runs EXCEPT ![Len(m.runs)].cont = @ + 1]
  <2>3. longer = [state |-> "ok", runs |-> s]
    <3>1. longer = [m EXCEPT !.runs = s]
      OBVIOUS
    <3> HIDE DEF s, longer
    <3> QED BY <3>1, <1>2, <1>4
  <2>4. next = m.runs[n].cluster + m.runs[n].cont + 1
    BY <1>4 DEF File!Last
  <2>5. PICK C : IsMap(s, k + 1, C)
    <3> DEFINE q == m.runs
    <3> HIDE DEF q
    <3>1. n = Len(q) /\ s = [q EXCEPT ![n].cont = @ + 1]
          /\ vol.chain[k + 1] = q[n].cluster + q[n].cont + 1 /\ IsMap(q, k, B)
      BY <2>2, <2>4 DEF q
    <3> HIDE DEF n, s, next
    <3> QED BY <3>1, RunGrows
  <2>6. s \in Seq(RunType)
    BY <2>5 DEF IsMap
  <2> HIDE DEF s, longer, t
  <2>7. t.runs = s /\ t \in MapRecord
    BY <2>1, <2>3, <2>6 DEF MapRecord
  <2> QED BY <2>5, <2>7 DEF t
<1>5. CASE m.state = "ok" /\ new /\ n = Map + 1
  <2> DEFINE u == [m EXCEPT !.state = "too small"]
  <2>1. t = u
    BY <1>5 DEF File!ToMap
  <2>2. u \in MapRecord /\ u.state # "ok"
    BY <1>2 DEF MapRecord
  <2> HIDE DEF t, u
  <2> QED BY <2>1, <2>2 DEF t
<1>6. CASE m.state = "ok" /\ new /\ n # Map + 1
  <2>1. t = more
    BY <1>6 DEF File!ToMap
  <2>2. PICK B : IsMap(m.runs, k, B)
    BY <1>6
  <2> DEFINE s == Append(m.runs, File!Run(next))
  <2>3. more = [state |-> "ok", runs |-> s]
    <3>1. more = [m EXCEPT !.runs = s]
      OBVIOUS
    <3> HIDE DEF s, more
    <3> QED BY <3>1, <1>2, <1>6
  <2>4. PICK C : IsMap(s, k + 1, C)
    BY <1>1, <2>2, RunBegins
  <2>5. s \in Seq(RunType)
    BY <2>4 DEF IsMap
  <2> HIDE DEF s, more, t
  <2>6. t.runs = s /\ t \in MapRecord
    BY <2>1, <2>3, <2>5 DEF MapRecord
  <2> QED BY <2>4, <2>6 DEF t
<1> QED BY <1>3, <1>4, <1>5, <1>6

(* f is the map of the clusters up to each.                                 *)
Building(f, n) ==
  f = [k \in 1 .. n |-> IF k = 1 THEN File!FirstRun
                        ELSE File!ToMap(f[k - 1], vol.chain[k])]

LEMMA BuildingEnds ==
  ASSUME NEW n \in Nat
  PROVE  \E f : Building(f, n)
<1> DEFINE S == {m \in 0 .. n : ~ \E f : Building(f, m)}
<1>1. S = {}
  <2> SUFFICES ASSUME S # {} PROVE FALSE
    OBVIOUS
  <2>1. S \in SUBSET Nat
    <3>1. 0 .. n \in SUBSET Nat
      OBVIOUS
    <3> QED BY <3>1
  <2>2. PICK m \in S : \A j \in S : m <= j
    <3> HIDE DEF S
    <3> QED BY <2>1, Least
  <2>3. m \in 0 .. n /\ ~ \E f : Building(f, m)
    BY <2>2
  <2>4. CASE m = 0
    <3> DEFINE f == [k \in 1 .. 0 |-> File!FirstRun]
    <3>1. f = [k \in 1 .. 0 |-> IF k = 1 THEN File!FirstRun
                                ELSE File!ToMap(f[k - 1], vol.chain[k])]
      <4>1. 1 .. 0 = {}
        OBVIOUS
      <4> QED BY <4>1
    <3> HIDE DEF f
    <3>2. Building(f, 0)
      BY <3>1, Zenon DEF Building
    <3> QED BY <2>3, <2>4, <3>2
  <2>5. CASE m # 0
    <3> DEFINE j == m - 1
    <3>1. j \in 0 .. n /\ ~(m <= j) /\ m = j + 1
      BY <2>3, <2>5
    <3>2. \E f : Building(f, j)
      <4> HIDE DEF j
      <4>1. j \notin S
        <5> HIDE DEF S
        <5> QED BY <2>2, <3>1
      <4> QED BY <3>1, <4>1
    <3>3. PICK f : Building(f, j)
      BY <3>2
    <3> DEFINE end == IF m = 1 THEN File!FirstRun
                      ELSE File!ToMap(f[j], vol.chain[m])
               h == [k \in 1 .. m |-> IF k = m THEN end ELSE f[k]]
    <3>4. \A k \in 1 .. j : f[k] = IF k = 1 THEN File!FirstRun
                                   ELSE File!ToMap(f[k - 1], vol.chain[k])
      <4> HIDE DEF j
      <4> QED BY <3>3 DEF Building
    <3>5. \A k \in 1 .. m : h[k] = IF k = 1 THEN File!FirstRun
                                   ELSE File!ToMap(h[k - 1], vol.chain[k])
      <4> TAKE k \in 1 .. m
      <4>1. CASE k = m
        <5>1. h[k] = end
          BY <4>1
        <5>2. CASE m = 1
          BY <4>1, <5>1, <5>2
        <5>3. CASE m # 1
          <6>1. j \in 1 .. m /\ j # m /\ k - 1 = j
            BY <2>3, <2>5, <4>1, <5>3
          <6>2. h[j] = f[j]
            BY <6>1
          <6>3. end = File!ToMap(f[j], vol.chain[m])
            BY <5>3
          <6> HIDE DEF h, end, j
          <6> QED BY <4>1, <5>1, <5>3, <6>1, <6>2, <6>3
        <5> QED BY <5>2, <5>3
      <4>2. CASE k # m
        <5>1. k \in 1 .. j /\ (k # 1 => k - 1 \in 1 .. m /\ k - 1 # m)
          BY <4>2, <2>3
        <5>2. h[k] = f[k] /\ (k # 1 => h[k - 1] = f[k - 1])
          BY <5>1, <4>2
        <5> HIDE DEF h, j
        <5> QED BY <5>1, <5>2, <3>4
      <4> QED BY <4>1, <4>2
    <3>6. h = [k \in 1 .. m |-> h[k]]
      OBVIOUS
    <3> HIDE DEF h
    <3>7. h = [k \in 1 .. m |-> IF k = 1 THEN File!FirstRun
                                ELSE File!ToMap(h[k - 1], vol.chain[k])]
      BY <3>5, <3>6
    <3>8. Building(h, m)
      BY <3>7, Zenon DEF Building
    <3> QED BY <3>8, <2>3
  <2> QED BY <2>4, <2>5
<1>2. n \in 0 .. n /\ n \notin S
  <2>1. n \in 0 .. n
    OBVIOUS
  <2> QED BY <1>1, <2>1
<1> QED BY <1>2

LEMMA MapOfChain ==
  ASSUME FileVol
  PROVE  LET m == File!MapUpTo[Len(vol.chain)]
         IN  /\ m \in MapRecord
             /\ m.state = "ok" => \E B : IsMap(m.runs, Len(vol.chain), B)
<1> DEFINE n == Len(vol.chain)
           f == File!MapUpTo
           Good(k) == /\ f[k] \in MapRecord
                      /\ f[k].state = "ok" => \E B : IsMap(f[k].runs, k, B)
           S == {k \in 1 .. n : ~Good(k)}
<1>1. n \in Nat \ {0} /\ DOMAIN vol.chain = 1 .. n
  BY DEF FileVol
<1>2. Building(f, n)
  <2> DEFINE Body(g) == [k \in 1 .. n |-> IF k = 1 THEN File!FirstRun
                                     ELSE File!ToMap(g[k - 1], vol.chain[k])]
  <2>1. f = CHOOSE g : g = [k \in DOMAIN vol.chain |->
                              IF k = 1 THEN File!FirstRun
                              ELSE File!ToMap(g[k - 1], vol.chain[k])]
    BY Zenon DEF File!MapUpTo
  <2>2. f = CHOOSE g : g = Body(g)
    BY <1>1, <2>1
  <2>3. PICK g : Building(g, n)
    BY <1>1, BuildingEnds
  <2>4. g = Body(g)
    BY <2>3, Zenon DEF Building
  <2>5. f = Body(f)
    <3> HIDE DEF Body, f
    <3> QED BY <2>2, <2>4, Zenon
  <2> QED BY <2>5, Zenon DEF Building
<1>3. \A k \in 1 .. n : f[k] = IF k = 1 THEN File!FirstRun
                               ELSE File!ToMap(f[k - 1], vol.chain[k])
  <2> HIDE DEF f, n
  <2> QED BY <1>2 DEF Building
<1> HIDE DEF f
<1>4. S = {}
  <2> SUFFICES ASSUME S # {} PROVE FALSE
    OBVIOUS
  <2>1. S \in SUBSET Nat
    <3>1. 1 .. n \in SUBSET Nat
      OBVIOUS
    <3> HIDE DEF Good
    <3> QED BY <3>1
  <2>2. PICK m \in S : \A j \in S : m <= j
    <3> HIDE DEF S
    <3> QED BY <2>1, Least
  <2>3. m \in 1 .. n /\ ~Good(m)
    BY <2>2
  <2>4. CASE m = 1
    <3>1. f[m] = File!FirstRun
      BY <1>3, <2>3, <2>4
    <3>2. Good(m)
      BY <2>4, <3>1, FirstRunIs
    <3> QED BY <2>3, <3>2
  <2>5. CASE m # 1
    <3> DEFINE j == m - 1
    <3>1. j \in 1 .. n /\ ~(m <= j) /\ m = j + 1 /\ j \in Nat
      BY <1>1, <2>3, <2>5
    <3>2. f[m] = File!ToMap(f[j], vol.chain[m])
      BY <1>3, <2>3, <2>5
    <3> HIDE DEF j
    <3>3. Good(j)
      <4>1. j \notin S
        <5> HIDE DEF S
        <5> QED BY <2>2, <3>1
      <4> HIDE DEF Good
      <4> QED BY <3>1, <4>1
    <3>4. /\ j \in Nat /\ j + 1 \in 1 .. Len(vol.chain) /\ f[j] \in MapRecord
          /\ f[j].state = "ok" => \E B : IsMap(f[j].runs, j, B)
      BY <2>3, <3>1, <3>3
    <3> DEFINE a == f[j]
               t == File!ToMap(a, vol.chain[j + 1])
    <3>5. t \in MapRecord /\ (t.state = "ok" => \E B : IsMap(t.runs, j + 1, B))
      <4> HIDE DEF a
      <4>1. a \in MapRecord /\ (a.state = "ok" => \E B : IsMap(a.runs, j, B))
        BY <3>4 DEF a
      <4> QED BY <3>4, <4>1, ToMapKeeps
    <3>6. f[m] = t
      BY <3>1, <3>2
    <3> HIDE DEF t
    <3>7. Good(m)
      BY <3>1, <3>5, <3>6
    <3> QED BY <2>3, <3>7
  <2> QED BY <2>4, <2>5
<1>5. Good(n)
  <2>1. n \in 1 .. n /\ n \notin S
    <3>1. n \in 1 .. n
      BY <1>1
    <3> QED BY <1>4, <3>1
  <2> HIDE DEF Good
  <2> QED BY <2>1
<1> QED BY <1>5 DEF f

(* What the code counts up before a run is where the run begins.            *)
LEMMA BeforeIs ==
  ASSUME NEW k, NEW B, IsMap(bio.runs, k, B)
  PROVE  \A i \in 1 .. Len(bio.runs) : File!Before[i] = B[i]
<1> DEFINE runs == bio.runs
           n == Len(runs)
           f == File!Before
           Body(g) == [i \in 1 .. n |-> IF i = 1 THEN 0
                                        ELSE g[i - 1] + runs[i - 1].cont + 1]
           h == [i \in 1 .. n |-> B[i]]
           S == {i \in 1 .. n : f[i] # B[i]}
<1>1. /\ n \in Nat \ {0} /\ DOMAIN runs = 1 .. n /\ B[1] = 0
      /\ \A i \in 1 .. n : B[i + 1] = B[i] + runs[i].cont + 1
  BY LenProperties DEF IsMap
<1>2. f = CHOOSE g : g = Body(g)
  <2>1. f = CHOOSE g : g = [i \in DOMAIN bio.runs |->
                              IF i = 1 THEN 0
                              ELSE g[i - 1] + bio.runs[i - 1].cont + 1]
    BY Zenon DEF File!Before
  <2> QED BY <1>1, <2>1
<1> HIDE DEF runs, f, n
<1>3. \A i \in 1 .. n : i # 1 => i - 1 \in 1 .. n /\ i - 1 < i
                                 /\ B[i] = B[i - 1] + runs[i - 1].cont + 1
  <2> TAKE i \in 1 .. n
  <2> SUFFICES ASSUME i # 1
               PROVE  i - 1 \in 1 .. n /\ i - 1 < i
                      /\ B[i] = B[i - 1] + runs[i - 1].cont + 1
    OBVIOUS
  <2> DEFINE j == i - 1
  <2>1. j \in 1 .. n /\ j < i /\ j + 1 = i
    BY <1>1
  <2> HIDE DEF j
  <2>2. B[i] = B[j] + runs[j].cont + 1
    BY <1>1, <2>1
  <2> QED BY <2>1, <2>2 DEF j
<1>4. h = Body(h)
  <2>1. \A i \in 1 .. n : i # 1 => h[i - 1] = B[i - 1]
    BY <1>3
  <2> QED BY <1>1, <1>3, <2>1
<1>5. f = Body(f)
  <2> HIDE DEF Body, h
  <2> QED BY <1>2, <1>4, Zenon
<1>6. \A i \in 1 .. n : f[i] = IF i = 1 THEN 0 ELSE f[i - 1] + runs[i - 1].cont + 1
  BY <1>5
<1>7. S = {}
  <2> SUFFICES ASSUME S # {} PROVE FALSE
    OBVIOUS
  <2>1. S \in SUBSET Nat
    <3>1. 1 .. n \in SUBSET Nat
      BY <1>1
    <3> QED BY <3>1
  <2>2. PICK m \in S : \A j \in S : m <= j
    <3> HIDE DEF S
    <3> QED BY <2>1, Least
  <2>3. m \in 1 .. n /\ f[m] # B[m] /\ m # 1
    <3>1. m \in 1 .. n /\ f[m] # B[m]
      BY <2>2
    <3> QED BY <3>1, <1>1, <1>6
  <2> DEFINE j == m - 1
  <2>4. j \in 1 .. n /\ ~(m <= j) /\ B[m] = B[j] + runs[j].cont + 1
        /\ f[m] = f[j] + runs[j].cont + 1
    <3>1. ~(m <= j)
      BY <1>1, <2>3
    <3> QED BY <1>3, <1>6, <2>3, <3>1
  <2> HIDE DEF j
  <2>5. j \notin S
    <3> HIDE DEF S
    <3> QED BY <2>2, <2>4
  <2> QED BY <2>3, <2>4, <2>5
<1>8. \A i \in 1 .. n : f[i] = B[i]
  BY <1>7
<1> QED BY <1>8 DEF f, n, runs

(* Every block of the file lies in one of its clusters.                     *)
LEMMA ClusterOf ==
  ASSUME FileVol, NEW b \in Nat, b < File!FileSectors
  PROVE  b \div vol.perClus \in 0 .. Len(vol.chain) - 1
<1> DEFINE p == vol.perClus
           q == b \div p
           z == vol.size
           n == Len(vol.chain)
<1>1. p \in Nat /\ 0 < p /\ z \in Nat /\ n \in Nat /\ n = File!ChainFor(z, p)
  BY DEF FileVol
<1>2. b < (z + 2 - 1) \div 2
  BY DEF File!FileSectors, File!PerSector
<1> HIDE DEF p, z, n
<1>3. 2 * b < z
  BY <1>1, <1>2
<1>4. b = q * p + (b % p) /\ q \in Nat /\ b % p \in 0 .. p - 1
  BY <1>1, PlaceIn
<1> DEFINE s == b % p
<1> HIDE DEF q, s
<1>5. 2 * (q * p) < z
  <2> DEFINE y == q * p
  <2>1. y \in Nat /\ b = y + s /\ s \in Nat
    <3>1. y \in Nat
      BY <1>1, <1>4
    <3> QED BY <1>1, <1>4, <3>1 DEF s
  <2> HIDE DEF y
  <2>2. 2 * y < z
    BY <1>1, <1>3, <2>1
  <2> QED BY <2>2 DEF y
<1>6. q < n
  BY <1>1, <1>4, <1>5, ClustersEnough
<1>7. q \in 0 .. n - 1
  BY <1>1, <1>4, <1>6
<1> QED BY <1>7 DEF q, n, p

(* A file that fits a cluster has one.                                      *)
LEMMA OneCluster ==
  ASSUME FileVol, File!FileSectors <= vol.perClus
  PROVE  Len(vol.chain) = 1
<1> DEFINE p == vol.perClus
           z == vol.size
           n == Len(vol.chain)
           w == 2 * p
<1>1. p \in Nat /\ 0 < p /\ z \in Nat /\ 0 < z /\ n = (z + w - 1) \div w
  BY DEF FileVol, File!ChainFor, File!PerSector
<1>2. (z + 2 - 1) \div 2 <= p
  BY DEF File!FileSectors, File!PerSector
<1> HIDE DEF p, z, n
<1>3. z <= w /\ w \in Nat /\ 0 < w
  BY <1>1, <1>2
<1> HIDE DEF w
<1> DEFINE s == z - 1
<1>4. s \in 0 .. w - 1 /\ z + w - 1 = 1 * w + s
  BY <1>1, <1>3
<1> HIDE DEF s
<1>5. (1 * w + s) \div w = 1
  <2>1. 1 \in Nat
    OBVIOUS
  <2> QED BY <1>3, <1>4, <2>1, PlaceOf
<1>6. n = 1
  BY <1>1, <1>4, <1>5
<1> QED BY <1>6 DEF n

(* A block that is mapped is mapped to its own sector; when none of the     *)
(* first Map runs has it, there are more.                                   *)
LEMMA BlockInMap ==
  ASSUME FileVol, disk = File!Layout(vol.boot), NEW b \in Nat,
         b < File!FileSectors, NEW B, IsMap(bio.runs, Len(vol.chain), B)
  PROVE  LET clu == b \div vol.perClus
             in == {i \in 1 .. Len(bio.runs) : i <= Map /\ File!Has(i, clu)}
             r == CHOOSE i \in in : \A j \in in : i <= j
         IN  /\ in = {} => Len(bio.runs) > Map
             /\ in # {} =>
                  File!Lba(bio.runs[r].cluster + (clu - File!Before[r]),
                           b % vol.perClus) = File!Sector(b)
<1> DEFINE p == vol.perClus
           runs == bio.runs
           m == Len(runs)
           n == Len(vol.chain)
           clu == b \div p
           in == {i \in 1 .. m : i <= Map /\ File!Has(i, clu)}
           r == CHOOSE i \in in : \A j \in in : i <= j
<1>1. clu \in 0 .. n - 1 /\ n \in Nat
  BY ClusterOf DEF FileVol
<1>2. /\ runs \in Seq(RunType) /\ m \in Nat
      /\ \A i \in 1 .. m + 1 : B[i] \in Nat
      /\ \A i \in 1 .. m : \A x \in 0 .. runs[i].cont :
           vol.chain[B[i] + x + 1] = runs[i].cluster + x
      /\ \A y \in 0 .. n - 1 : \E i \in 1 .. m :
           B[i] <= y /\ y <= B[i] + runs[i].cont
  BY DEF IsMap
<1>3. \A i \in 1 .. m : File!Before[i] = B[i]
  BY BeforeIs
<1>4. \A i \in 1 .. m : File!Has(i, clu) <=> clu >= B[i] /\ clu <= B[i] + runs[i].cont
  BY <1>3 DEF File!Has
<1>41. \A i \in 1 .. m : i \in Nat /\ B[i] \in Nat /\ runs[i].cont \in Nat
                         /\ runs[i].cluster \in Nat
  <2> TAKE i \in 1 .. m
  <2>1. i \in Nat /\ i \in 1 .. m + 1
    BY <1>2
  <2>2. runs[i] \in RunType
    BY <1>2, ElementOfSeq
  <2> QED BY <1>2, <2>1, <2>2 DEF RunType
<1>5. Map \in Nat
  BY StorageAssumption DEF File!UfatAssumption
<1> HIDE DEF runs, m, n, clu
<1>6. ASSUME in = {} PROVE m > Map
  <2>1. PICK i \in 1 .. m : B[i] <= clu /\ clu <= B[i] + runs[i].cont
    BY <1>1, <1>2
  <2>2. clu \in Nat
    BY <1>1
  <2>3. File!Has(i, clu)
    BY <1>4, <1>41, <2>1, <2>2
  <2>4. ~(i <= Map)
    BY <1>6, <2>3
  <2> QED BY <1>2, <1>41, <1>5, <2>4
<1>7. ASSUME in # {}
      PROVE  File!Lba(runs[r].cluster + (clu - File!Before[r]), b % p)
               = File!Sector(b)
  <2>1. in \in SUBSET Nat
    <3>1. 1 .. m \in SUBSET Nat
      BY <1>2
    <3> QED BY <3>1
  <2>2. \E i \in in : \A j \in in : i <= j
    <3> HIDE DEF in
    <3> QED BY <1>7, <2>1, Least
  <2>3. r \in in
    <3> HIDE DEF in
    <3> QED BY <2>2, Zenon
  <2> HIDE DEF r
  <2>4. r \in 1 .. m /\ clu >= B[r] /\ clu <= B[r] + runs[r].cont
        /\ File!Before[r] = B[r]
    BY <1>3, <1>4, <2>3
  <2> DEFINE x == clu - B[r]
  <2>5. x \in 0 .. runs[r].cont /\ B[r] + x + 1 = 1 + clu
    BY <1>1, <1>41, <2>4
  <2>6. runs[r].cluster + (clu - File!Before[r]) = vol.chain[1 + clu]
    <3>1. vol.chain[B[r] + x + 1] = runs[r].cluster + x
      <4> HIDE DEF x
      <4> QED BY <1>2, <2>4, <2>5
    <3> QED BY <2>4, <2>5, <3>1
  <2>7. File!Lba(vol.chain[1 + clu], b % p) = File!Sector(b)
    <3> DEFINE y == b % p
               c == vol.chain[1 + clu]
               base == vol.boot.part + vol.boot.reserved
               fats == vol.boot.fats
               size == vol.boot.fatSize
    <3>1. fats * size = size * fats
      BY DEF FileVol
    <3>2. disk.data = base + size * fats
      BY DEF File!Layout
    <3>3. File!Sector(b) = base + fats * size + (c - 2) * p + y
      BY DEF File!Sector, clu
    <3>4. File!Lba(c, y) = disk.data + (c - 2) * p + y
      BY LbaIs, Zenon
    <3> HIDE DEF y, c, base, fats, size, p
    <3>5. File!Lba(c, y) = File!Sector(b)
      BY <3>1, <3>2, <3>3, <3>4, Zenon
    <3> QED BY <3>5 DEF y, c, p
  <2> QED BY <2>6, <2>7
<1>8. /\ in = {} => m > Map
      /\ in # {} => File!Lba(runs[r].cluster + (clu - File!Before[r]), b % p)
                      = File!Sector(b)
  BY <1>6, <1>7
<1> QED BY <1>8 DEF runs, m, clu

FileMounted ==
  /\ disk.state = "ok" => disk = File!Layout(vol.boot)
  /\ found # "no" => disk.state = "ok"

FileRead ==
  /\ rf # File!NoReader => found = "file"
  /\ reads \in Nat
  /\ File!InOnePiece /\ rf = File!NoReader => reads = 0 /\ ~failed
  /\ File!InOnePiece /\ rf # File!NoReader =>
       /\ rf \in ReaderType /\ rf.clus >= 2
       /\ ~failed /\ rf.left > 0 => \E q : Place(rf, q, reads)

FileMapped ==
  /\ bio.state = "ok" =>
       found = "file" /\ \E B : IsMap(bio.runs, Len(vol.chain), B)
  /\ lba.res = "too small" => bio.state = "ok"

FileInv == FileVol /\ FileMounted /\ FileRead /\ FileMapped /\ ReadsTheFile

LEMMA FileBegin == File!Init => FileInv
<1> SUFFICES ASSUME File!Init PROVE FileInv
  OBVIOUS
<1>1. /\ disk = File!NoDisk /\ found = "no" /\ rf = File!NoReader
      /\ bio = File!NoMap /\ lba = File!NoSector /\ reads = 0 /\ failed = FALSE
  BY DEF File!Init
<1>2. FileVol
  BY VolInit
<1>3. FileMounted
  BY <1>1 DEF FileMounted, File!NoDisk
<1>4. FileRead
  BY <1>1 DEF FileRead
<1>5. FileMapped
  BY <1>1 DEF FileMapped, File!NoMap, File!NoSector
<1>6. ReadsTheFile
  BY <1>1 DEF ReadsTheFile, File!ReadsTheFile, File!NoSector
<1> QED BY <1>2, <1>3, <1>4, <1>5, <1>6 DEF FileInv

(* Where a mounted disk has its data.                                       *)
LEMMA MountedAt ==
  ASSUME FileVol, disk = File!Layout(vol.boot)
  PROVE  disk.data \in Nat
<1> DEFINE base == vol.boot.part + vol.boot.reserved
           fats == vol.boot.fats
           size == vol.boot.fatSize
<1>1. base \in Nat /\ fats \in Nat /\ size \in Nat
  BY DEF FileVol
<1>2. disk.data = base + size * fats
  BY DEF File!Layout
<1> HIDE DEF base, fats, size
<1>3. size * fats \in Nat
  BY <1>1
<1> QED BY <1>1, <1>2, <1>3

(* The first sector.                                                        *)
LEMMA FirstPlace ==
  ASSUME FileVol, disk = File!Layout(vol.boot), NEW r,
         r = [left |-> vol.size, clus |-> vol.chain[1],
              lba |-> File!Lba(vol.chain[1], 0), next |-> vol.chain[1],
              sec |-> 0, cont |-> 0]
  PROVE  r \in ReaderType /\ Place(r, 0, 0) /\ r # File!NoReader
<1> DEFINE n == Len(vol.chain)
           F == vol.chain[1]
           p == vol.perClus
           z == vol.size
<1>1. /\ n \in Nat \ {0} /\ F \in 2 .. MaxCluster /\ p \in Nat \ {0} /\ z \in Nat \ {0}
  <2>1. 1 \in 1 .. n
    BY DEF FileVol
  <2> QED BY <2>1 DEF FileVol
<1>2. MaxCluster \in Nat
  BY StorageAssumption DEF File!UfatAssumption
<1>3. F \in Nat
  BY <1>1, <1>2
<1>4. File!Lba(F, 0) = disk.data + (F - 2) * p + 0
  BY LbaIs
<1>5. disk.data \in Nat
  BY MountedAt
<1> DEFINE l == File!Lba(F, 0)
           d == disk.data
<1> HIDE DEF n, F, p, z
<1>6. l \in Int
  <2> HIDE DEF l, d
  <2>1. (F - 2) * p \in Int
    BY <1>1, <1>3
  <2> QED BY <1>4, <1>5, <2>1 DEF l, d
<1> HIDE DEF l
<1>7. r = [left |-> z, clus |-> F, lba |-> l, next |-> F, sec |-> 0, cont |-> 0]
  BY DEF l, F, z
<1>8. r \in ReaderType /\ r.left = z /\ z # 0
  BY <1>1, <1>3, <1>6, <1>7 DEF ReaderType
<1>9. r # File!NoReader
  BY <1>8 DEF File!NoReader
<1>10. /\ 0 \in Nat /\ 0 < n /\ r.sec \in 0 .. p - 1 /\ 0 = 0 * p + r.sec
       /\ r.left = z - 2 * 0 /\ r.clus = F + 0 /\ r.lba = File!Lba(F + 0, r.sec)
       /\ r.cont \in Nat /\ 0 + r.cont < n /\ r.next = F + 0 + r.cont
  <2>1. F + 0 = F /\ F + 0 + 0 = F /\ 0 * p = 0
    BY <1>1, <1>3
  <2> QED BY <1>1, <1>7, <2>1 DEF l
<1>11. Place(r, 0, 0)
  BY <1>8, <1>10 DEF Place, n, F, p, z
<1> QED BY <1>8, <1>9, <1>11

(* The sector that is read.                                                 *)
LEMMA ReadKeeps ==
  ASSUME FileInv, File!ReadNext
  PROVE  FileInv'
<1> DEFINE rest == [rf EXCEPT !.left = @ - File!PerSector]
           last == rf.left <= File!PerSector
           Out(res) == [lba |-> rf.lba, block |-> reads, eof |-> last,
                        size |-> IF last THEN rf.left ELSE File!PerSector,
                        res |-> res]
<1>1. /\ rf # File!NoReader /\ ~failed
      /\ UNCHANGED <<vol, disk, found, bio>>
  BY DEF File!ReadNext
<1>2. FileVol' /\ FileMounted'
  BY <1>1 DEF FileInv, FileVol, FileMounted, File!Layout, File!ChainFor
<1>3. found = "file" /\ disk.state = "ok" /\ disk = File!Layout(vol.boot)
      /\ reads \in Nat
  BY <1>1 DEF FileInv, FileRead, FileMounted
<1>4. disk.data \in Nat
  BY <1>3, MountedAt DEF FileInv
<1>5. File!InOnePiece' <=> File!InOnePiece
  BY <1>1 DEF File!InOnePiece
<1>6. File!FileSectors' = File!FileSectors
  BY <1>1 DEF File!FileSectors
<1>7. File!InOnePiece => /\ rf \in ReaderType /\ rf.clus >= 2
                         /\ rf.left > 0 => \E q : Place(rf, q, reads)
  BY <1>1 DEF FileInv, FileRead
(* What is said of the sector that was read.                                *)
<1>8. ASSUME NEW res \in {"ok", "read", "fat"}, lba' = Out(res),
              File!InOnePiece => rf.left > 0
       PROVE  ReadsTheFile' /\ FileMapped'
  <2>1. /\ lba'.res = res /\ lba'.lba = rf.lba /\ lba'.block = reads
        /\ lba'.eof = last
        /\ lba'.size = IF last THEN rf.left ELSE File!PerSector
    BY <1>8
  <2>2. res # "mapped" /\ res # "too small"
    BY <1>8
  <2>3. ASSUME File!InOnePiece
        PROVE  /\ rf.lba = File!Sector(reads)
               /\ last <=> reads = File!FileSectors - 1
               /\ rf.left = vol.size - File!PerSector * reads
    <3>1. PICK q : Place(rf, q, reads)
      BY <1>7, <1>8, <2>3
    <3>2. rf.lba = File!Sector(reads) /\ (rf.left <= 2 <=> reads = File!FileSectors - 1)
      BY <1>3, <1>8, <2>3, <3>1, PlaceIsSector DEF FileInv
    <3>3. rf.left = vol.size - 2 * reads
      BY <3>1 DEF Place
    <3> QED BY <3>2, <3>3 DEF File!PerSector
  <2>4. lba'.res = "ok" /\ File!InOnePiece' =>
          /\ lba'.lba = File!Sector(lba.block)'
          /\ lba'.eof <=> lba'.block = File!FileSectors' - 1
          /\ lba'.size = IF lba'.eof THEN vol'.size - File!PerSector * lba'.block
                         ELSE File!PerSector
    <3> SUFFICES ASSUME File!InOnePiece'
                 PROVE  /\ lba'.lba = File!Sector(lba.block)'
                        /\ lba'.eof <=> lba'.block = File!FileSectors' - 1
                        /\ lba'.size =
                             IF lba'.eof THEN vol'.size - File!PerSector * lba'.block
                             ELSE File!PerSector
      OBVIOUS
    <3>1. File!Sector(lba.block)' = File!Sector(reads)
      BY <1>1, <2>1 DEF File!Sector
    <3>2. File!InOnePiece
      BY <1>5
    <3> QED BY <1>1, <1>6, <2>1, <2>3, <3>1, <3>2
  <2>5. ReadsTheFile'
    BY <2>1, <2>2, <2>4 DEF ReadsTheFile, File!ReadsTheFile
  <2>6. FileMapped'
    BY <1>1, <2>1, <2>2 DEF FileInv, FileMapped, IsMap
  <2> QED BY <2>5, <2>6
<1> HIDE DEF Out
<1>9. CASE /\ rf.left = 0
            /\ lba' = [File!NoSector EXCEPT !.eof = TRUE, !.res = "end"]
            /\ UNCHANGED <<rf, reads, failed>>
  <2>1. lba'.res = "end"
    BY <1>9 DEF File!NoSector
  <2>2. ReadsTheFile'
    BY <2>1 DEF ReadsTheFile, File!ReadsTheFile
  <2>3. FileMapped'
    BY <1>1, <2>1 DEF FileInv, FileMapped, IsMap
  <2>4. File!InOnePiece => rf' \in ReaderType /\ rf'.clus >= 2 /\ rf'.left = 0
    BY <1>7, <1>9
  <2>5. FileRead'
    BY <1>1, <1>3, <1>5, <1>9, <2>4 DEF FileRead
  <2> QED BY <1>2, <2>2, <2>3, <2>5 DEF FileInv
(* A reader that has come to a sector, or to no more.                       *)
<1>10. ASSUME reads' \in Nat, found' = "file",
              File!InOnePiece =>
                /\ rf' \in ReaderType /\ rf'.clus >= 2
                /\ ~failed' /\ rf'.left > 0 => \E q : Place(rf', q, reads')
       PROVE  FileRead'
  <2>1. File!InOnePiece => rf' # File!NoReader
    BY <1>10 DEF File!NoReader
  <2>2. ASSUME NEW q, Place(rf', q, reads')
        PROVE  Place(rf, q, reads)'
    BY <1>1, <2>2 DEF Place, File!Lba
  <2> QED BY <1>5, <1>10, <2>1, <2>2 DEF FileRead
<1>11. ASSUME NEW res \in {"ok", "read"}, rf.left > 0, last,
              rf' = [rf EXCEPT !.left = 0], lba' = Out(res),
              reads' = reads + (IF res = "ok" THEN 1 ELSE 0)
       PROVE  FileInv'
  <2>1. ReadsTheFile' /\ FileMapped'
    BY <1>8, <1>11
  <2>2. File!InOnePiece => rf' \in ReaderType /\ rf'.clus >= 2 /\ rf'.left = 0
    BY <1>7, <1>11 DEF ReaderType
  <2>3. reads' \in Nat
    BY <1>3, <1>11
  <2>4. FileRead'
    <3>1. found' = "file"
      BY <1>1, <1>3
    <3>2. File!InOnePiece => ~(rf'.left > 0)
      BY <2>2
    <3> QED BY <1>10, <2>2, <2>3, <3>1, <3>2
  <2> QED BY <1>2, <2>1, <2>4 DEF FileInv
<1>12. ASSUME NEW res \in {"ok", "read"}, ~last,
              rf' = File!Advance(rest), lba' = Out(res),
              reads' = reads + (IF res = "ok" THEN 1 ELSE 0),
              failed' = (res # "ok")
       PROVE  FileInv'
  <2>1. File!InOnePiece => rf.left > 2
    BY <1>7, <1>12 DEF ReaderType, File!PerSector
  <2>2. ReadsTheFile' /\ FileMapped'
    <3>1. File!InOnePiece => rf.left > 0
      BY <1>7, <2>1 DEF ReaderType
    <3> QED BY <1>8, <1>12, <3>1
  <2>3. reads' \in Nat
    BY <1>3, <1>12
  <2>4. ASSUME File!InOnePiece
        PROVE  /\ rf' \in ReaderType /\ rf'.clus >= 2
               /\ ~failed' => \E q : Place(rf', q, reads')
    <3>1. PICK q : Place(rf, q, reads)
      <4>1. rf.left > 0
        BY <1>7, <2>1, <2>4 DEF ReaderType
      <4> QED BY <1>7, <2>4, <4>1
    <3>2. \E x : Place(File!Advance([rf EXCEPT !.left = @ - 2]), x, reads + 1)
      BY <1>4, <2>1, <2>4, <3>1, AdvanceInPiece DEF FileInv
    <3>3. PICK x : Place(rf', x, reads + 1)
      BY <3>2, <1>12 DEF File!PerSector
    <3>4. rf' \in ReaderType /\ rf'.clus >= 2
      <4>1. rf' \in ReaderType /\ x \in Nat /\ rf'.clus = vol.chain[1] + x
        BY <3>3 DEF Place
      <4>2. vol.chain[1] \in 2 .. MaxCluster
        <5>1. 1 \in 1 .. Len(vol.chain)
          BY DEF FileInv, FileVol
        <5> QED BY <5>1 DEF FileInv, FileVol
      <4>3. MaxCluster \in Nat
        BY StorageAssumption DEF File!UfatAssumption
      <4> DEFINE F == vol.chain[1]
      <4> HIDE DEF F
      <4>4. F + x >= 2
        BY <4>1, <4>2, <4>3 DEF F
      <4> QED BY <4>1, <4>4 DEF F
    <3>5. ~failed' => reads' = reads + 1
      BY <1>12
    <3> QED BY <3>3, <3>4, <3>5
  <2>5. FileRead'
    <3>1. found' = "file"
      BY <1>1, <1>3
    <3> QED BY <1>10, <2>3, <2>4, <3>1
  <2> QED BY <1>2, <2>2, <2>5 DEF FileInv
<1>13. ASSUME ~last, rf' = [rest EXCEPT !.sec = 0], lba' = Out("fat"),
              reads' = reads + 0, failed'
       PROVE  FileInv'
  <2>1. ReadsTheFile' /\ FileMapped'
    <3>1. File!InOnePiece => rf.left > 0
      BY <1>7, <1>13 DEF ReaderType, File!PerSector
    <3> QED BY <1>8, <1>13, <3>1
  <2>2. File!InOnePiece => rf' \in ReaderType /\ rf'.clus >= 2
    <3> SUFFICES ASSUME File!InOnePiece PROVE rf' \in ReaderType /\ rf'.clus >= 2
      OBVIOUS
    <3>1. rest \in ReaderType /\ rest.clus = rf.clus
      BY <1>7 DEF ReaderType, File!PerSector
    <3> HIDE DEF rest
    <3> QED BY <1>7, <1>13, <3>1 DEF ReaderType
  <2>3. reads' \in Nat /\ found' = "file"
    BY <1>1, <1>3, <1>13
  <2>4. FileRead'
    BY <1>10, <1>13, <2>2, <2>3
  <2> QED BY <1>2, <2>1, <2>4 DEF FileInv
<1>14. \/ /\ rf.left = 0
          /\ lba' = [File!NoSector EXCEPT !.eof = TRUE, !.res = "end"]
          /\ UNCHANGED <<rf, reads, failed>>
       \/ \E res \in {"ok", "read"} :
            /\ rf.left > 0 /\ last
            /\ rf' = [rf EXCEPT !.left = 0] /\ lba' = Out(res)
            /\ reads' = reads + (IF res = "ok" THEN 1 ELSE 0)
       \/ \E res \in {"ok", "read"} :
            /\ ~last /\ rf' = File!Advance(rest) /\ lba' = Out(res)
            /\ reads' = reads + (IF res = "ok" THEN 1 ELSE 0)
            /\ failed' = (res # "ok")
       \/ /\ ~last /\ rf' = [rest EXCEPT !.sec = 0] /\ lba' = Out("fat")
          /\ reads' = reads + 0 /\ failed'
  BY Zenon DEF File!ReadNext, Out
<1> QED BY <1>9, <1>11, <1>12, <1>13, <1>14

LEMMA MapBegins ==
  ASSUME FileInv, File!MapInit
  PROVE  FileInv'
<1> DEFINE n == Len(vol.chain)
<1>1. /\ found = "file" /\ rf = File!NoReader /\ bio = File!NoMap
      /\ UNCHANGED <<vol, disk, found, rf, lba, reads, failed>>
  BY DEF File!MapInit
<1>2. FileVol' /\ FileMounted'
  BY <1>1 DEF FileInv, FileVol, FileMounted, File!Layout, File!ChainFor
<1>3. FileRead'
  BY <1>1 DEF FileInv, FileRead, File!InOnePiece
<1>4. bio.state # "ok"
  BY <1>1 DEF File!NoMap
<1>5. lba.res # "too small"
  BY <1>4 DEF FileInv, FileMapped
<1>6. ReadsTheFile'
  <2>1. ReadsTheFile /\ lba'.res # "too small"
    BY <1>1, <1>5 DEF FileInv
  <2> QED BY <1>1, <1>5, <2>1
          DEF ReadsTheFile, File!ReadsTheFile, File!InOnePiece, File!Sector,
              File!FileSectors
<1>7. ASSUME bio'.state = "ok" PROVE \E B : IsMap(bio'.runs, n, B)
  <2>1. \/ bio' = File!FirstRun /\ File!FileSectors <= vol.perClus
        \/ bio' = File!MapUpTo[n]
    <3>1. [File!NoMap EXCEPT !.state = "wrong size"].state # "ok"
          /\ [File!NoMap EXCEPT !.state = "read"].state # "ok"
      BY DEF File!NoMap
    <3> QED BY <1>7, <3>1 DEF File!MapInit
  <2>2. CASE bio' = File!FirstRun /\ File!FileSectors <= vol.perClus
    <3>1. n = 1
      BY <2>2, OneCluster DEF FileInv
    <3>2. \E B : IsMap(File!FirstRun.runs, 1, B)
      BY FirstRunIs DEF FileInv
    <3> HIDE DEF n
    <3> QED BY <2>2, <3>1, <3>2, Zenon
  <2>3. CASE bio' = File!MapUpTo[n]
    <3>1. File!MapUpTo[n].state = "ok" => \E B : IsMap(File!MapUpTo[n].runs, n, B)
      BY MapOfChain DEF FileInv
    <3> HIDE DEF n
    <3> QED BY <1>7, <2>3, <3>1, Zenon
  <2> QED BY <2>1, <2>2, <2>3
<1>8. FileMapped'
  <2>1. ASSUME NEW B, IsMap(bio'.runs, n, B) PROVE IsMap(bio.runs, n, B)'
    BY <1>1, <2>1 DEF IsMap
  <2> QED BY <1>1, <1>5, <1>7, <2>1 DEF FileMapped
<1> QED BY <1>2, <1>3, <1>6, <1>8 DEF FileInv

LEMMA BlockMapped ==
  ASSUME FileInv, NEW b \in Nat, File!MapBlock(b)
  PROVE  FileInv'
<1> DEFINE clu == b \div vol.perClus
           in == {i \in 1 .. Len(bio.runs) : i <= Map /\ File!Has(i, clu)}
           r == CHOOSE i \in in : \A j \in in : i <= j
           at == File!Lba(bio.runs[r].cluster + (clu - File!Before[r]),
                          b % vol.perClus)
           Out(sector, res) == [File!NoSector EXCEPT !.lba = sector, !.block = b,
                                                     !.res = res]
<1>1. /\ bio.state = "ok"
      /\ UNCHANGED <<vol, disk, found, rf, bio, reads, failed>>
  BY DEF File!MapBlock
<1>2. FileVol' /\ FileMounted'
  BY <1>1 DEF FileInv, FileVol, FileMounted, File!Layout, File!ChainFor
<1>3. FileRead'
  BY <1>1 DEF FileInv, FileRead, File!InOnePiece, Place, File!Lba
<1>5. disk = File!Layout(vol.boot)
  BY <1>1 DEF FileInv, FileMapped, FileMounted
<1>6. PICK B : IsMap(bio.runs, Len(vol.chain), B)
  BY <1>1 DEF FileInv, FileMapped
<1>7. ASSUME b < File!FileSectors
      PROVE  /\ in = {} => Len(bio.runs) > Map
             /\ in # {} => at = File!Sector(b)
  BY <1>5, <1>6, <1>7, BlockInMap DEF FileInv
<1>8. \A l, res : /\ Out(l, res).lba = l /\ Out(l, res).block = b
                  /\ Out(l, res).res = res
  BY DEF File!NoSector
<1>9. \/ b >= File!FileSectors /\ lba' = Out(-1, "no such block")
      \/ b < File!FileSectors /\ in = {} /\ lba' = Out(-1, "too small")
      \/ /\ b < File!FileSectors /\ in # {}
         /\ \E res \in {"mapped", "read"} : lba' = Out(at, res)
  <2>1. File!FileSectors \in Int
    BY DEF FileInv, FileVol, File!FileSectors, File!PerSector
  <2>2. b >= File!FileSectors \/ b < File!FileSectors
    BY <2>1
  <2>3. \/ b >= File!FileSectors /\ lba' = Out(-1, "no such block")
        \/ ~(b >= File!FileSectors) /\ in = {} /\ lba' = Out(-1, "too small")
        \/ /\ ~(b >= File!FileSectors) /\ in # {}
           /\ \E res \in {"mapped", "read"} : lba' = Out(at, res)
    BY Zenon DEF File!MapBlock
  <2> HIDE DEF in, at, Out
  <2> QED BY <2>2, <2>3
<1>10. ASSUME NEW l, NEW res, lba' = Out(l, res),
              res \in {"no such block", "too small", "mapped", "read"},
              res = "mapped" => l = File!Sector(b),
              res = "too small" => Len(bio.runs) > Map
       PROVE  ReadsTheFile'
  <2>1. lba'.res = res /\ lba'.lba = l /\ lba'.block = b
    BY <1>8, <1>10
  <2>2. File!Sector(lba.block)' = File!Sector(b)
    BY <1>1, <2>1 DEF File!Sector
  <2>3. Len(bio.runs)' = Len(bio.runs)
    BY <1>1
  <2> HIDE DEF Out
  <2> QED BY <1>10, <2>1, <2>2, <2>3 DEF ReadsTheFile, File!ReadsTheFile
<1>11. ReadsTheFile'
  <2> HIDE DEF Out, at, in
  <2>1. CASE lba' = Out(-1, "no such block")
    BY <1>10, <2>1
  <2>2. CASE b < File!FileSectors /\ in = {} /\ lba' = Out(-1, "too small")
    BY <1>7, <1>10, <2>2
  <2>3. CASE /\ b < File!FileSectors /\ in # {}
             /\ \E res \in {"mapped", "read"} : lba' = Out(at, res)
    BY <1>7, <1>10, <2>3
  <2> QED BY <1>9, <2>1, <2>2, <2>3
<1>12. FileMapped'
  <2>1. lba'.res = "too small" => bio'.state = "ok"
    BY <1>1
  <2>2. bio'.state = "ok" =>
          found' = "file" /\ \E C : IsMap(bio.runs, Len(vol.chain), C)'
    BY <1>1 DEF FileInv, FileMapped, IsMap
  <2> QED BY <2>1, <2>2 DEF FileMapped
<1> QED BY <1>2, <1>3, <1>11, <1>12 DEF FileInv

LEMMA FileStep ==
  FileInv /\ [File!Next]_(File!vars) => FileInv'
<1> SUFFICES ASSUME FileInv, [File!Next]_(File!vars) PROVE FileInv'
  OBVIOUS
<1>1. ASSUME UNCHANGED File!vars PROVE FileInv'
  <2>1. UNCHANGED <<vol, disk, found, rf, bio, lba, reads, failed>>
    BY <1>1 DEF File!vars
  <2>2. FileVol' /\ FileMounted'
    BY <2>1 DEF FileInv, FileVol, FileMounted, File!Layout, File!ChainFor
  <2>3. FileRead'
    BY <2>1 DEF FileInv, FileRead, File!InOnePiece, Place, File!Lba
  <2>4. FileMapped'
    BY <2>1 DEF FileInv, FileMapped, IsMap
  <2>5. ReadsTheFile'
    BY <2>1 DEF FileInv, ReadsTheFile, File!ReadsTheFile, File!InOnePiece,
       File!Sector, File!FileSectors
  <2> QED BY <2>2, <2>3, <2>4, <2>5 DEF FileInv
(* A step of the disk alone.                                                *)
<1>2. ASSUME UNCHANGED <<vol, bio, lba, reads, failed>>,
             FileMounted', FileRead', FileMapped'
      PROVE  FileInv'
  <2>1. FileVol'
    BY <1>2 DEF FileInv, FileVol, File!ChainFor
  <2>2. ReadsTheFile'
    BY <1>2 DEF FileInv, ReadsTheFile, File!ReadsTheFile, File!InOnePiece,
       File!Sector, File!FileSectors
  <2> QED BY <1>2, <2>1, <2>2 DEF FileInv
<1>3. CASE File!Mount
  <2>1. /\ disk = File!NoDisk /\ UNCHANGED <<vol, found, rf, bio, lba, reads, failed>>
        /\ disk' = File!Layout(vol.boot)
           \/ \E res \in {"no table", "wrong type", "no boot block",
                          "unsupported", "read"} :
                disk' = [File!NoDisk EXCEPT !.state = res]
    <3> DEFINE Fails(res) == disk' = [File!NoDisk EXCEPT !.state = res]
               big == vol.part \in {11, 12} /\ vol.sectors = 4096
    <3>1. /\ disk = File!NoDisk
          /\ UNCHANGED <<vol, found, rf, bio, lba, reads, failed>>
          /\ \/ disk' = File!Layout(vol.boot)
             \/ Fails("no table") \/ Fails("wrong type") \/ Fails("no boot block")
             \/ Fails("unsupported") \/ Fails("read")
      <4>1. /\ disk = File!NoDisk
            /\ UNCHANGED <<vol, found, rf, bio, lba, reads, failed>>
        BY <1>3 DEF File!Mount
      <4>2. \/ vol.part = 0 /\ Fails("no table")
            \/ vol.part \notin {0, 11, 12} /\ Fails("wrong type")
            \/ vol.part \in {11, 12} /\ vol.sectors = 0 /\ Fails("no boot block")
            \/ big /\ Fails("unsupported")
            \/ /\ vol.part \in {11, 12} /\ vol.sectors = 512
               /\ disk' = File!Layout(vol.boot)
            \/ Fails("read")
        BY <1>3, Zenon DEF File!Mount
      <4> HIDE DEF Fails, big
      <4> QED BY <4>1, <4>2, Zenon
    <3> HIDE DEF Fails
    <3>2. disk' = File!Layout(vol.boot)
          \/ \E res \in {"no table", "wrong type", "no boot block",
                         "unsupported", "read"} : Fails(res)
      BY <3>1
    <3> QED BY <3>1, <3>2, Zenon DEF Fails
  <2>2. disk.state # "ok" /\ found = "no"
    BY <2>1 DEF FileInv, FileMounted, File!NoDisk
  <2>3. rf = File!NoReader
    BY <2>2 DEF FileInv, FileRead
  <2>4. FileMounted'
    <3>1. disk'.state = "ok" => disk' = File!Layout(vol.boot)
      BY <2>1 DEF File!NoDisk
    <3>2. File!Layout(vol.boot)' = File!Layout(vol.boot)
      BY <2>1 DEF File!Layout
    <3> QED BY <2>1, <2>2, <3>1, <3>2 DEF FileMounted
  <2>5. FileRead'
    BY <2>1, <2>3 DEF FileInv, FileRead, File!InOnePiece
  <2>6. FileMapped'
    BY <2>1 DEF FileInv, FileMapped, IsMap
  <2> QED BY <1>2, <2>1, <2>4, <2>5, <2>6
<1>4. CASE File!Find
  <2>1. /\ disk.state = "ok" /\ found = "no"
        /\ UNCHANGED <<vol, disk, rf, bio, lba, reads, failed>>
    BY <1>4 DEF File!Find
  <2>2. FileMounted'
    BY <2>1 DEF FileInv, FileMounted, File!Layout
  <2>3. rf = File!NoReader /\ bio.state # "ok"
    BY <2>1 DEF FileInv, FileRead, FileMapped
  <2>4. FileRead'
    BY <2>1, <2>3 DEF FileInv, FileRead, File!InOnePiece
  <2>5. FileMapped'
    BY <2>1, <2>3 DEF FileInv, FileMapped
  <2> QED BY <1>2, <2>1, <2>2, <2>4, <2>5
<1>5. CASE File!ReadInit
  <2>1. /\ found = "file" /\ rf = File!NoReader
        /\ rf' = [left |-> vol.size, clus |-> vol.chain[1],
                  lba |-> File!Lba(vol.chain[1], 0), next |-> vol.chain[1],
                  sec |-> 0, cont |-> 0]
        /\ UNCHANGED <<vol, disk, found, bio, lba, reads, failed>>
    BY <1>5 DEF File!ReadInit
  <2>2. disk = File!Layout(vol.boot)
    BY <2>1 DEF FileInv, FileMounted
  <2>3. rf' \in ReaderType /\ Place(rf', 0, 0) /\ rf' # File!NoReader
    BY <2>1, <2>2, FirstPlace DEF FileInv
  <2>4. rf'.clus >= 2
    <3>1. rf'.clus = vol.chain[1] /\ 1 \in 1 .. Len(vol.chain)
      BY <2>1 DEF FileInv, FileVol
    <3>2. vol.chain[1] \in 2 .. MaxCluster /\ MaxCluster \in Nat
      BY <3>1, StorageAssumption DEF FileInv, FileVol, File!UfatAssumption
    <3> QED BY <3>1, <3>2
  <2>5. FileMounted'
    BY <2>1 DEF FileInv, FileMounted, File!Layout
  <2>6. FileMapped'
    BY <2>1 DEF FileInv, FileMapped, IsMap
  <2>7. FileRead'
    <3>1. File!InOnePiece' <=> File!InOnePiece
      BY <2>1 DEF File!InOnePiece
    <3>2. File!InOnePiece => reads' = 0
      BY <2>1 DEF FileInv, FileRead
    <3>3. File!InOnePiece => Place(rf, 0, reads)'
      BY <2>1, <2>3, <3>2 DEF Place, File!Lba
    <3>4. reads' \in Nat
      BY <2>1 DEF FileInv, FileRead
    <3> HIDE DEF File!NoReader
    <3> QED BY <2>1, <2>3, <2>4, <3>1, <3>3, <3>4 DEF FileRead
  <2> QED BY <1>2, <2>1, <2>5, <2>6, <2>7
<1>6. CASE \E b \in 0 .. MaxChain * MaxPerClus : File!MapBlock(b)
  <2>1. PICK b \in 0 .. MaxChain * MaxPerClus : File!MapBlock(b)
    BY <1>6
  <2>2. b \in Nat
    <3>1. MaxChain * MaxPerClus \in Nat
      BY StorageAssumption DEF File!UfatAssumption
    <3> QED BY <3>1
  <2> QED BY <2>1, <2>2, BlockMapped
<1> QED
  BY <1>1, <1>3, <1>4, <1>5, <1>6, ReadKeeps, MapBegins DEF File!Next

(* A file in one piece is read in its order to the last sector, and a block *)
(* of any mapped file is the file's own (ufat.c).                           *)
THEOREM FilesReadInOrder == File!Spec => []ReadsTheFile
<1>1. FileInv => ReadsTheFile
  BY DEF FileInv
<1> QED BY <1>1, FileBegin, FileStep, PTL DEF File!Spec

==============================================================================
