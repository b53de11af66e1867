-------------------------------- MODULE MemHeap --------------------------------
(***************************************************************************)
(* The heap of the firmware, mcu/src/base/mem.c: a list of free chunks,    *)
(* linked in both directions, with its headers inside the free memory.     *)
(*                                                                         *)
(* Addresses count from mem_start.  "hdr" holds the headers of the free    *)
(* chunks, "blk" the size word that is stored before each block that is    *)
(* handed out.                                                             *)
(*                                                                         *)
(* One branch of free_internal (merge with the next chunk only) leaves the *)
(* list without the freed chunk and with a header that the chunk has       *)
(* absorbed.  What later calls do then depends on what the memory holds:   *)
(* the model stops there ("mangled").                                      *)
(***************************************************************************)
EXTENDS Integers, FiniteSets

CONSTANTS
  MaxFree,    \* max_free: bytes between mem_start and the stack
  HdrSize,    \* sizeof(mem_info_t)
  Requests    \* sizes that callers ask for, or shrink to

ASSUME FreeAssumption == MaxFree \in Nat /\ HdrSize \in Nat \ {0}
                         /\ HdrSize <= MaxFree
ASSUME RequestsAssumption == \A n \in Requests : n \in Nat /\ n + 2 < 65536

VARIABLES
  first,       \* first_mi
  hdr,         \* struct mem_info of each free chunk
  free_total,
  blk,         \* blocks handed out
  lost,        \* bytes handed out with a chunk and not counted in its block
  above,       \* history: nothing was freed below the first chunk
  mangled

vars == <<first, hdr, free_total, blk, lost, above, mangled>>

Null == -1

(* What a block of n bytes takes: its size word, and room for a header when *)
(* it is freed.  The sum is a u16.                                          *)
Footprint(n) == LET size == (n + 2) % 65536
                IN IF size < HdrSize THEN HdrSize ELSE size

Init ==
  /\ first = 0
  /\ hdr = [a \in {0} |-> [prev |-> Null, next |-> Null, size |-> MaxFree]]
  /\ free_total = MaxFree
  /\ blk = [a \in {} |-> 0]
  /\ lost = 0 /\ above = TRUE /\ mangled = FALSE

------------------------------------------------------------------------------
(* Walking the list.                                                        *)

Chunks == DOMAIN hdr

(* The chunks from a on, a included: what lies in every set of chunks that  *)
(* has a in it and that no link leads out of.                               *)
Onward(X) == \A c \in X : hdr[c].next \in X \cup {Null}
Reached(a) ==
  {b \in Chunks : \A X \in SUBSET Chunks :
                   a \in X \cup {Null} /\ Onward(X) => b \in X}

Listed == Reached(first)

(* The one of S that a walk from first on comes to first.                   *)
Foremost(a, S) == a \in S \cap Listed /\ S \cap Listed \subseteq Reached(a)

(* h without the chunk a, its neighbours linked to each other.              *)
Unlink(h, a) ==
  [b \in DOMAIN h \ {a} |->
     [h[b] EXCEPT !.next = IF b = h[a].prev THEN h[a].next ELSE @,
                  !.prev = IF b = h[a].next THEN h[a].prev ELSE @]]

(* h with a new chunk between p and the next one of p.                      *)
Insert(h, at, size, p) ==
  [b \in DOMAIN h \cup {at} |->
     IF b = at THEN [prev |-> p, next |-> h[p].next, size |-> size]
     ELSE IF b = p THEN [h[b] EXCEPT !.next = at]
     ELSE IF b = h[p].next THEN [h[b] EXCEPT !.prev = at]
     ELSE h[b]]

(* h with another size for the chunk a.                                     *)
Resize(h, a, size) == [h EXCEPT ![a].size = size]

------------------------------------------------------------------------------
(* mem_alloc.                                                               *)

Block(a, n) ==
  /\ blk' = [b \in DOMAIN blk \cup {a} |-> IF b = a THEN n ELSE blk[b]]
  /\ UNCHANGED <<above, mangled>>

(* The remainder has no room for a header: the chunk is handed out whole.   *)
AllocWhole(a, n) ==
  /\ hdr[a].size - Footprint(n) \in 0 .. HdrSize - 1
  /\ hdr' = Unlink(hdr, a)
  /\ first' = IF a = first THEN hdr[a].next ELSE first
  /\ free_total' = free_total - hdr[a].size
  /\ lost' = lost + hdr[a].size - Footprint(n)
  /\ Block(a, n)

(* The block is cut from the end of the chunk.                              *)
AllocCut(a, n) ==
  /\ hdr[a].size - Footprint(n) >= HdrSize
  /\ hdr' = Resize(hdr, a, hdr[a].size - Footprint(n))
  /\ free_total' = free_total - Footprint(n)
  /\ Block(a + hdr[a].size - Footprint(n), n)
  /\ UNCHANGED <<first, lost>>

(* The first chunk that fits; without one mem_alloc returns NULL.           *)
Alloc(n) ==
  /\ ~mangled
  /\ free_total >= Footprint(n)
  /\ \E a \in Chunks :
       /\ Foremost(a, {b \in Chunks : hdr[b].size >= Footprint(n)})
       /\ AllocWhole(a, n) \/ AllocCut(a, n)

------------------------------------------------------------------------------
(* free_internal(at, size).                                                 *)

(* The last chunk before the first one that lies above at: never Null, so a *)
(* chunk below the first one is linked behind it.                           *)
Before(at) == {b \in Chunks : hdr[b].next = Null \/ hdr[b].next > at}

ChunkEnd(a) == a + hdr[a].size

(* The chunk is the only one.                                               *)
FreeAlone(at, size) ==
  /\ first = Null
  /\ hdr' = [b \in Chunks \cup {at} |->
               IF b = at THEN [prev |-> Null, next |-> Null, size |-> size]
               ELSE hdr[b]]
  /\ first' = at
  /\ UNCHANGED mangled

(* prev, the chunk and next become one.                                     *)
(* Mutant of MergeBoth: next stays on the list by itself.                   *)
MergeBothKeepsNext(at, size, p) ==
  LET n == hdr[p].next
  IN /\ ChunkEnd(p) = at /\ n # Null /\ at + size = n
     /\ hdr' = Resize(hdr, p, hdr[p].size + size)
     /\ UNCHANGED <<first, mangled>>

MergeBoth(at, size, p) ==
  LET n == hdr[p].next
  IN /\ ChunkEnd(p) = at /\ n # Null /\ at + size = n
     /\ hdr' = Resize(Unlink(hdr, n), p, hdr[p].size + size + hdr[n].size)
     /\ UNCHANGED <<first, mangled>>

(* Mutant of MergePrev: also if there is a gap.                             *)
MergePrevAnyway(at, size, p) ==
  LET n == hdr[p].next
  IN /\ p < at /\ ~(n # Null /\ at + size = n)
     /\ hdr' = Resize(hdr, p, hdr[p].size + size)
     /\ UNCHANGED <<first, mangled>>

MergePrev(at, size, p) ==
  LET n == hdr[p].next
  IN /\ ChunkEnd(p) = at /\ ~(n # Null /\ at + size = n)
     /\ hdr' = Resize(hdr, p, hdr[p].size + size)
     /\ UNCHANGED <<first, mangled>>

(* The chunk and next become one, but prev still leads to next, and nobody  *)
(* to the chunk.                                                            *)
MergeNext(at, size, p) ==
  LET n == hdr[p].next
  IN /\ ChunkEnd(p) # at /\ n # Null /\ at + size = n
     /\ mangled' = TRUE
     /\ UNCHANGED <<first, hdr>>

LinkNew(at, size, p) ==
  LET n == hdr[p].next
  IN /\ ChunkEnd(p) # at /\ ~(n # Null /\ at + size = n)
     /\ hdr' = Insert(hdr, at, size, p)
     /\ UNCHANGED <<first, mangled>>

FreeInternal(at, size) ==
  /\ free_total' = free_total + size
  /\ above' = (above /\ at > first)
  /\ \/ FreeAlone(at, size)
     \/ /\ first # Null
        /\ \E p \in Chunks :
             /\ Foremost(p, Before(at))
             /\ \/ MergeBoth(at, size, p) \/ MergePrev(at, size, p)
                \/ MergeNext(at, size, p) \/ LinkNew(at, size, p)
  /\ UNCHANGED lost

(* mem_free: the size comes from the word before the block.                 *)
Free(a) ==
  /\ ~mangled
  /\ FreeInternal(a, Footprint(blk[a]))
  /\ blk' = [b \in DOMAIN blk \ {a} |-> blk[b]]

(* mem_shrink: only if what is cut off has room for a header; else the      *)
(* stored size stays as well.                                               *)
Shrink(a, n) ==
  LET cut == Footprint(blk[a]) - Footprint(n)
  IN /\ ~mangled
     /\ n < blk[a] /\ cut >= HdrSize
     /\ FreeInternal(a + Footprint(n), cut)
     /\ blk' = [blk EXCEPT ![a] = n]

Next ==
  \/ \E n \in Requests : Alloc(n)
  \/ \E a \in DOMAIN blk : Free(a) \/ \E n \in Requests : Shrink(a, n)

Spec == Init /\ [][Next]_vars

------------------------------------------------------------------------------
(* Types: no header and no block reaches beyond the heap, and none is       *)
(* smaller than a header.                                                   *)
TypeOK ==
  /\ first \in Chunks \cup {Null}
  /\ Chunks \subseteq 0 .. MaxFree - 1
  /\ \A a \in Chunks :
       /\ hdr[a].size \in HdrSize .. MaxFree - a
       /\ {hdr[a].prev, hdr[a].next} \subseteq Chunks \cup {Null}
  /\ \A a \in DOMAIN blk : a \in Nat /\ a + Footprint(blk[a]) <= MaxFree
  /\ {above, mangled} \subseteq BOOLEAN

(* As long as no free has merged with the next chunk only, blocks and free  *)
(* chunks are all apart from each other: no byte is handed out twice, and   *)
(* no header lies in a block, whatever the order of the calls.              *)
Size(a) == IF a \in Chunks THEN hdr[a].size ELSE Footprint(blk[a])
Apart ==
  ~mangled =>
    /\ Chunks \cap DOMAIN blk = {}
    /\ \A a, b \in Chunks \cup DOMAIN blk : a < b => a + Size(a) <= b

(* mem_get_free tells how many bytes can be reached from first_mi, and      *)
(* every byte of the heap is one of them, in a block, or lost.              *)
Bytes(a) == a .. a + Size(a) - 1
Accounted ==
  ~mangled =>
    /\ free_total = Cardinality(UNION {Bytes(a) : a \in Listed})
    /\ free_total + Cardinality(UNION {Bytes(a) : a \in DOMAIN blk}) + lost = MaxFree

(* Callers that give all blocks back, in whatever order, get the whole heap *)
(* back in one piece, and mem_get_free says so: nothing that was taken off  *)
(* free_total is forgotten.  Exempt are heaps that lost bytes, or where the *)
(* chunk at the begin of the heap was used up and something above it freed  *)
(* before it: what lies below the first chunk is linked behind it and stays *)
(* apart.                                                                   *)
Reusable ==
  (above /\ lost = 0 /\ DOMAIN blk = {}) =>
    first = 0 /\ hdr[0].size = MaxFree /\ free_total = MaxFree

==============================================================================
