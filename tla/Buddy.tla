------------------------------- MODULE Buddy -------------------------------
(***************************************************************************)
(* The power-of-two block allocator of src/libsponge/buddy.cc.  An arena   *)
(* of 2^SZ unit slots is handed out in runs of 2^k slots (0 <= k < LEVEL), *)
(* each run named by the index of its first slot.                          *)
(*                                                                         *)
(*   buddy[k]   head of the order-k free list                              *)
(*   blocks[s]  the link word the code stores in the first slot of a free  *)
(*              block: the next block of the same list, or EOL             *)
(*   b          the occupancy bitmap: slot a + 2^k - 1 is set while the    *)
(*              order-k block starting at a is allocated                   *)
(*                                                                         *)
(* live, req and ret are the caller's side: the blocks it holds, and the  *)
(* order its last buddy_alloc2 call asked for and the value it returned.   *)
(***************************************************************************)
EXTENDS Integers, Sequences, FiniteSets

CONSTANTS
  SZ,     \* log2 of the number of slots in the arena (buddy_init's sz)
  LEVEL,  \* number of orders, 0 .. LEVEL-1 (buddy_init's level)
  EOL     \* BUDDY_EOL, the end-of-list link

ASSUME SZ \in Nat /\ LEVEL \in Nat \ {0} /\ EOL \notin Int

Slots  == 0 .. (2^SZ - 1)
Orders == 0 .. (LEVEL - 1)
FAIL   == -1

VARIABLES buddy, blocks, b, live, req, ret
vars == <<buddy, blocks, b, live, req, ret>>

(* The allocator's memory as one record, so that the recursive helpers    *)
(* can thread it through the calls the way the code threads `bs`.         *)
Mem == [buddy |-> buddy, blocks |-> blocks, b |-> b]

(* The order-k free list, read by following the link words.  The walk is *)
(* cut after 2^SZ + 1 links, so a cyclic list shows as a repeated entry.  *)
RECURSIVE ChainFrom(_, _, _)
ChainFrom(m, h, fuel) ==
  IF h = EOL \/ fuel = 0 THEN << >>
  ELSE <<h>> \o ChainFrom(m, m.blocks[h], fuel - 1)

FreeList(m, k) == ChainFrom(m, m.buddy[k], 2^SZ + 1)

(* The link words the code can still read are those of blocks on a free  *)
(* list; the words a block leaves behind when it is popped or unlinked    *)
(* are dead data, reset to EOL so that they do not tell states apart.     *)
Elems(f)  == {f[i] : i \in DOMAIN f}
Listed(m) == UNION {Elems(FreeList(m, k)) : k \in Orders}
Links(m) == LET l == Listed(m) IN [s \in Slots |-> IF s \in l THEN m.blocks[s] ELSE EOL]
Relinked(m) == [m EXCEPT !.blocks = Links(m)]

(***************************************************************************)
(* buddy_init: all lists empty and the bitmap clear; then either the whole *)
(* arena is one order-SZ block (SZ < LEVEL), or it is chained into         *)
(* 2^(SZ-LEVEL+1) blocks of the top order.  Link words the code never     *)
(* writes are uninitialised malloc memory; nothing reads them before they  *)
(* are written, so they are given the value EOL.                          *)
(***************************************************************************)
Init ==
  /\ IF SZ < LEVEL
       THEN /\ buddy  = [k \in Orders |-> IF k = SZ THEN 0 ELSE EOL]
            /\ blocks = [s \in Slots |-> IF s = 0 THEN 0 ELSE EOL]
       ELSE LET top == 2^(LEVEL - 1)
                n   == 2^(SZ - LEVEL + 1)
            IN /\ buddy  = [k \in Orders |-> IF k = LEVEL - 1 THEN 0 ELSE EOL]
               /\ blocks = [s \in Slots |->
                              IF s % top = 0 /\ s \div top < n - 1
                                THEN s + top ELSE EOL]
  /\ b    = {}
  /\ live = {}
  /\ req  = FAIL
  /\ ret  = FAIL

(***************************************************************************)
(* _split_buddy: make the order-lv list non-empty by splitting the head of *)
(* the next order, recursively.  Returns [ok, mem].                       *)
(***************************************************************************)
Failed(m) == [ok |-> FALSE, mem |-> m]

(* The split step once the order-(lv+1) list is non-empty (up): its head *)
(* a is halved, a to the order-lv list, a + 2^lv linked after it.        *)
SplitHead(lv, up) ==
  IF ~up.ok THEN up
  ELSE LET u    == up.mem
           a    == u.buddy[lv + 1]
           next == a + 2^lv
       IN [ok |-> TRUE,
           mem |-> [u EXCEPT !.buddy  = [@ EXCEPT ![lv] = a, ![lv + 1] = u.blocks[a]],
                             !.blocks = [@ EXCEPT ![next] = EOL, ![a] = next]]]

(* Mutant: the split gives up one order below the top.                   *)
RECURSIVE SplitStopsEarly(_, _)
SplitStopsEarly(m, lv) ==
  IF m.buddy[lv] # EOL THEN [ok |-> TRUE, mem |-> m]
  ELSE IF lv + 2 >= LEVEL THEN Failed(m)
  ELSE SplitHead(lv, IF m.buddy[lv + 1] = EOL THEN SplitStopsEarly(m, lv + 1)
                     ELSE [ok |-> TRUE, mem |-> m])

RECURSIVE Split(_, _)
Split(m, lv) ==
  IF m.buddy[lv] # EOL THEN [ok |-> TRUE, mem |-> m]
  ELSE IF lv + 1 >= LEVEL THEN Failed(m)
  ELSE SplitHead(lv, IF m.buddy[lv + 1] = EOL THEN Split(m, lv + 1)
                     ELSE [ok |-> TRUE, mem |-> m])

(***************************************************************************)
(* buddy_alloc2(sz): reject a bad order, split if needed, pop the head of  *)
(* the order-sz list and mark its last slot occupied.  Returns [ret, mem]. *)
(***************************************************************************)
PopHead(m, sz, s) ==
  IF ~s.ok THEN [ret |-> FAIL, mem |-> m]
  ELSE LET u == s.mem
           a == u.buddy[sz]
       IN [ret |-> a, mem |-> Relinked([u EXCEPT !.buddy[sz] = u.blocks[a],
                                                 !.b = @ \cup {a + 2^sz - 1}])]

Alloc2(m, sz) == PopHead(m, sz, IF sz < 0 \/ sz >= LEVEL THEN Failed(m) ELSE Split(m, sz))

(* The call as an action of the caller, who records the block it holds.   *)
BuddyAlloc2(sz) ==
  LET r == Alloc2(Mem, sz)
  IN /\ buddy' = r.mem.buddy
     /\ blocks' = r.mem.blocks
     /\ b' = r.mem.b
     /\ live' = IF r.ret = FAIL THEN live ELSE live \cup {<<r.ret, sz>>}
     /\ req' = sz
     /\ ret' = r.ret

(* buddy_free2's search for the order of the block at a: the smallest sz  *)
(* whose slot a + 2^sz - 1 is marked.  The code's loop has no bound; a    *)
(* search that leaves the bitmap is a read out of bounds, returned as -1. *)
RECURSIVE OrderOf(_, _, _)
OrderOf(bits, a, sz) ==
  IF a + 2^sz - 1 > 2^SZ - 1 THEN -1
  ELSE IF a + 2^sz - 1 \in bits THEN sz
  ELSE OrderOf(bits, a, sz + 1)

(* Insert a into the order-sz list before the first larger index.         *)
InsertInto(m, sz, a, l) ==
  LET pos  == IF \E i \in DOMAIN l : a < l[i]
                THEN CHOOSE i \in DOMAIN l : a < l[i] /\ \A j \in 1 .. (i - 1) : ~(a < l[j])
                ELSE Len(l) + 1
      nxt  == IF pos <= Len(l) THEN l[pos] ELSE EOL
      m1   == IF pos = 1 THEN [m EXCEPT !.buddy[sz] = a]
              ELSE [m EXCEPT !.blocks[l[pos - 1]] = a]
  IN [m1 EXCEPT !.blocks[a] = nxt]
InsertSorted(m, sz, a) == InsertInto(m, sz, a, FreeList(m, sz))

(* _merge's list walk: unlink every entry equal to x or y from the        *)
(* order-lv list.  Each surviving entry ends up linked to the next         *)
(* survivor, which is what rewriting the predecessors' links does.         *)
Relist(m, lv, l) ==
  LET At(s) == CHOOSE i \in DOMAIN l : l[i] = s
  IN [m EXCEPT !.buddy[lv] = IF l = << >> THEN EOL ELSE l[1],
               !.blocks    = [s \in Slots |->
                                IF \E i \in DOMAIN l : l[i] = s
                                  THEN IF At(s) < Len(l) THEN l[At(s) + 1] ELSE EOL
                                  ELSE m.blocks[s]]]
Unlink(m, lv, x, y) == Relist(m, lv, SelectSeq(FreeList(m, lv), LAMBDA e : e # x /\ e # y))

(***************************************************************************)
(* _merge: when no slot of the order-(lv+1) region around off is marked,   *)
(* take both halves out of the order-lv list, push the region onto the     *)
(* order-(lv+1) list and try one order up.  Never merges the top order.    *)
(***************************************************************************)
(* The merged region s, out of the order-lv list, pushed on order lv+1.  *)
Pushed(m1, s, lv) == [m1 EXCEPT !.blocks[s] = m1.buddy[lv + 1], !.buddy[lv + 1] = s]

(* Mutant: the halves are merged without testing the occupancy bits.    *)
RECURSIVE MergeNoOccupancyCheck(_, _, _)
MergeNoOccupancyCheck(m, off, lv) ==
  IF lv + 1 >= LEVEL THEN m
  ELSE LET s == (off \div 2^(lv + 1)) * 2^(lv + 1)
       IN MergeNoOccupancyCheck(Pushed(Unlink(m, lv, s, s + 2^lv), s, lv), s, lv + 1)

(* Mutant: merging stops one order below the top.                          *)
RECURSIVE MergeStopsEarly(_, _, _)
MergeStopsEarly(m, off, lv) ==
  IF lv + 2 >= LEVEL THEN m
  ELSE LET s == (off \div 2^(lv + 1)) * 2^(lv + 1)
       IN IF \E i \in 0 .. (2^(lv + 1) - 1) : s + i \in m.b THEN m
          ELSE MergeStopsEarly(Pushed(Unlink(m, lv, s, s + 2^lv), s, lv), s, lv + 1)

(* Mutant: the merged region starts at off, not at off rounded down.      *)
RECURSIVE MergeUnaligned(_, _, _)
MergeUnaligned(m, off, lv) ==
  IF lv + 1 >= LEVEL THEN m
  ELSE LET s == off
       IN IF \E i \in 0 .. (2^(lv + 1) - 1) : s + i \in m.b THEN m
          ELSE MergeUnaligned(Pushed(Unlink(m, lv, s, s + 2^lv), s, lv), s, lv + 1)

RECURSIVE Merge(_, _, _)
Merge(m, off, lv) ==
  IF lv + 1 >= LEVEL THEN m
  ELSE LET s == (off \div 2^(lv + 1)) * 2^(lv + 1)
       IN IF \E i \in 0 .. (2^(lv + 1) - 1) : s + i \in m.b THEN m
          ELSE Merge(Pushed(Unlink(m, lv, s, s + 2^lv), s, lv), s, lv + 1)

(* Mutant: the block's mark is left set in the bitmap.                    *)
Free2KeepsMark(m, a) ==
  LET Put(sz) == IF sz < 0 \/ sz >= LEVEL THEN m
                 ELSE Relinked(Merge(InsertSorted(m, sz, a), a, sz))
  IN Put(OrderOf(m.b, a, 0))

(***************************************************************************)
(* buddy_free2(a): find the block's order from the bitmap, clear its mark, *)
(* insert it in index order and merge upwards.  A search that runs off the *)
(* bitmap or past the top order changes nothing.                           *)
(***************************************************************************)
FreeAt(m, a, sz) ==
  IF sz < 0 \/ sz >= LEVEL THEN m
  ELSE Relinked(Merge(InsertSorted([m EXCEPT !.b = @ \ {a + 2^sz - 1}], sz, a), a, sz))

Free2(m, a) == FreeAt(m, a, OrderOf(m.b, a, 0))

(* The call as an action of the caller, who forgets the block.            *)
BuddyFree2(a) ==
  LET m == Free2(Mem, a)
  IN /\ OrderOf(b, a, 0) >= 0
     /\ buddy' = m.buddy
     /\ blocks' = m.blocks
     /\ b' = m.b
     /\ live' = {blk \in live : blk[1] # a}
     /\ UNCHANGED <<req, ret>>

Next ==
  \/ \E k \in -1 .. LEVEL : BuddyAlloc2(k)
  \/ \E blk \in live : BuddyFree2(blk[1])

Spec == Init /\ [][Next]_vars

-----------------------------------------------------------------------------
(***************************************************************************)
(* Properties                                                              *)
(***************************************************************************)

(* Types; a block the caller holds is aligned to its own size, as the     *)
(* buddy arithmetic of _split_buddy and _merge assumes.                    *)
TypeOK ==
  /\ buddy  \in [Orders -> Slots \cup {EOL}]
  /\ blocks \in [Slots -> Slots \cup {EOL}]
  /\ b \subseteq Slots
  /\ live \subseteq {blk \in Slots \X Orders : blk[1] % 2^blk[2] = 0}
  /\ req \in -1 .. LEVEL
  /\ ret \in Slots \cup {FAIL}

Covers(a, k, s) == a <= s /\ s < a + 2^k

(* Free-list entries that cover slot s, counted with repetition.          *)
FreeCover(s) ==
  Cardinality({<<k, i>> \in Orders \X (1 .. (2^SZ + 1)) :
                  i <= Len(FreeList(Mem, k)) /\ Covers(FreeList(Mem, k)[i], k, s)})

(* Allocator round trip, uniqueness half (spec 8): across any sequence of  *)
(* buddy_alloc2/buddy_free2 calls, every slot lies in exactly one block,   *)
(* either one the caller holds or one entry of one free list.  A slot in   *)
(* two live blocks is a double allocation; in none, a leak.                *)
BlocksPartitionArena ==
  \A s \in Slots :
    FreeCover(s) + Cardinality({blk \in live : Covers(blk[1], blk[2], s)}) = 1

(* buddy_free2 trusts the bitmap to recover a block's order: the marked    *)
(* slots are exactly the last slots of the blocks the caller holds.        *)
OccupancyMatchesLive ==
  b = {blk[1] + 2^blk[2] - 1 : blk \in live}

(* The free blocks buddy_init sets up.                                     *)
InitialFree ==
  IF SZ < LEVEL THEN {<<0, SZ>>}
  ELSE {<<i * 2^(LEVEL - 1), LEVEL - 1>> : i \in 0 .. (2^(SZ - LEVEL + 1) - 1)}

(* The free blocks, as (index, order) pairs.                               *)
FreeSet ==
  {fb \in Slots \X Orders :
     \E i \in DOMAIN FreeList(Mem, fb[2]) : FreeList(Mem, fb[2])[i] = fb[1]}

(* Allocator round trip, capacity half (spec 8): once the caller has freed *)
(* every block, _merge has coalesced the arena back to the blocks          *)
(* buddy_init created, whatever the order of the frees.                    *)
RoundTrip ==
  live = {} => FreeSet = InitialFree

(* The allocator's promise (spec 4.1, module BlockPool), the blocks the  *)
(* caller holds standing for BlockPool's held blocks.                      *)
BP == INSTANCE BlockPool WITH held <- live

(* buddy_alloc2/buddy_free2 implement BlockPool: every block _split_buddy  *)
(* and the pop hand out is aligned, inside the arena and disjoint from the *)
(* held ones, and a call fails only when no aligned run of 2^k slots is    *)
(* wholly free.  A split that gives up too early, or a _merge that leaves  *)
(* two free buddies apart so that a later large request fails on a         *)
(* fragmented arena, breaks it after a long alloc/free sequence.           *)
BuddyRefinesBlockPool == BP!Spec

=============================================================================
