----------------------------- MODULE BlockPool -----------------------------
(***************************************************************************)
(* What the block allocator promises its callers (spec 4.1 and the        *)
(* allocator round trip of spec 8), with no free lists and no bitmap: an   *)
(* arena of 2^SZ slots from which aligned runs of 2^k slots are handed     *)
(* out.                                                                    *)
(*                                                                         *)
(*   held  the blocks handed out and not yet freed, as <<index, order>>    *)
(*   req   the order the last allocate asked for                           *)
(*   ret   the result of the last allocate: an index, or FAIL              *)
(*                                                                         *)
(* allocate(k) gives a block of order k that overlaps no held block, and   *)
(* fails only for an order outside 0 .. LEVEL-1 or when no aligned run of  *)
(* 2^k slots is entirely free; free(index) returns exactly the block that  *)
(* was handed out at index.                                                *)
(***************************************************************************)
EXTENDS Integers

CONSTANTS SZ, LEVEL

Slots  == 0 .. (2^SZ - 1)
Orders == 0 .. (LEVEL - 1)
FAIL   == -1

VARIABLES held, req, ret

(* The slots of the block of order k at a.                                 *)
Region(a, k) == a .. (a + 2^k - 1)

InUse == UNION {Region(h[1], h[2]) : h \in held}

(* The aligned runs of 2^k slots of the arena that no held block touches.  *)
FreeRuns(k) == {a \in Slots : a % 2^k = 0 /\ a + 2^k - 1 \in Slots /\ Region(a, k) \cap InUse = {}}

Init ==
  /\ held = {}
  /\ req = FAIL
  /\ ret = FAIL

Allocate(k) ==
  /\ req' = k
  /\ \/ /\ k \in Orders
        /\ \E a \in FreeRuns(k) : held' = held \cup {<<a, k>>} /\ ret' = a
     \/ /\ k \notin Orders \/ FreeRuns(k) = {}
        /\ held' = held
        /\ ret' = FAIL

Free(a) ==
  /\ \E h \in held : h[1] = a /\ held' = held \ {h}
  /\ UNCHANGED <<req, ret>>

Next ==
  \/ \E k \in -1 .. LEVEL : Allocate(k)
  \/ \E h \in held : Free(h[1])

Spec == Init /\ [][Next]_<<held, req, ret>>

=============================================================================
