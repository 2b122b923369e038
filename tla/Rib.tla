-------------------------------- MODULE Rib --------------------------------
(***************************************************************************)
(* The authoritative route trie and the next-hop table (FIB) of the        *)
(* poptrie, with the four route operations of src/libsponge/poptrie4.cc    *)
(* that change them (poptrie_route_add/change/update/del).                 *)
(*                                                                         *)
(* A radix node is named by the path of bits that leads to it from the     *)
(* root, so `radix` maps the paths of the nodes that exist to their        *)
(* fields.  The pointers of the code become paths: a child is the path     *)
(* with one more bit, `ext` is the path of the node it points to.          *)
(*                                                                         *)
(* The compressed index rebuild, _update_subtree, is a call into another   *)
(* component; here only its outcome is kept: it either succeeds, and then  *)
(* clears the dirty marks of the subtree (_clear_mark), or it fails with   *)
(* an allocation failure and leaves them.                                  *)
(***************************************************************************)
EXTENDS Integers, Sequences, FiniteSets, FiniteSetsExt, TLC

CONSTANTS
  W,              \* KEYLENGTH, the key width in bits (32 in the code)
  Handles,        \* opaque next-hop handles the caller passes (void *)
  NULL,           \* the null handle, and a null node pointer
  FIBSZ,          \* fib.sz, the number of FIB slots (POPTRIE_INIT_FIB_SIZE)
  MaxRefs,        \* bound on a FIB reference count, to keep the model finite
  RebuildMayFail  \* whether _update_subtree may fail for lack of memory

ASSUME W \in Nat \ {0} /\ FIBSZ \in Nat \ {0} /\ NULL \notin Handles
ASSUME MaxRefs \in Nat /\ RebuildMayFail \in BOOLEAN

Paths    == UNION {[1 .. n -> {0, 1}] : n \in 0 .. W}
Prefixes == 0 .. (2^W - 1)   \* u32 prefix and address values
FibIdx   == 0 .. (FIBSZ - 1)
U16      == 2^16             \* poptrie_leaf_t is a u16

VARIABLES radix, fib
vars == <<radix, fib>>

(* BT(a, KEYLENGTH - depth - 1): bit `depth` of a, counted from the top.  *)
Bit(a, depth) == (a \div 2^(W - depth - 1)) % 2

(* The node a (prefix, len) descent ends at.                              *)
PathOf(prefix, len) == [i \in 1 .. len |-> Bit(prefix, i - 1)]

Child(q, bit) == Append(q, bit)
Parent(q)     == SubSeq(q, 1, Len(q) - 1)
StrictAncestors(q) == {SubSeq(q, 1, i) : i \in 0 .. (Len(q) - 1)}

(* The deepest valid node among a set of nodes on one path.               *)
Deepest(S) == CHOOSE a \in S : \A o \in S : Len(o) <= Len(a)

(* The `ext` argument of the descents: the nearest valid strict ancestor.  *)
NearestValidAbove(r, q) ==
  LET c == {a \in StrictAncestors(q) : a \in DOMAIN r /\ r[a].valid}
  IN IF c = {} THEN NULL ELSE Deepest(c)

(***************************************************************************)
(* A radix_node is [valid, nexthop, ext, mark].  Its `len` field is only   *)
(* set, and only read, while the node is valid, and then equals the        *)
(* node's depth, so Len of the path stands for it.  The nexthop of an      *)
(* invalid node is never read (the code zeroes it on delete).              *)
(***************************************************************************)
Fresh(ext) == [valid |-> FALSE, nexthop |-> 0, ext |-> ext, mark |-> FALSE]

Init ==
  /\ radix = << >>    \* poptrie->radix == NULL: no node
  /\ fib = [entries |-> [i \in FibIdx |-> NULL],
            refs    |-> [i \in FibIdx |-> IF i = 0 THEN 1 ELSE 0]]

-----------------------------------------------------------------------------
(***************************************************************************)
(* The FIB (poptrie_fib_ref / poptrie_fib_deref)                           *)
(***************************************************************************)

(* poptrie_fib_ref: the first slot holding h gains a reference; else the   *)
(* first slot with refs <= 0 is taken over; else -1 (the table is full).   *)
FibRef(f, h) ==
  LET hit  == {i \in FibIdx : f.entries[i] = h}
      free == {i \in FibIdx : f.refs[i] <= 0}
  IN IF hit # {}
       THEN [n |-> Min(hit), fib |-> [f EXCEPT !.refs[Min(hit)] = @ + 1]]
     ELSE IF free # {}
       THEN [n |-> Min(free),
             fib |-> [f EXCEPT !.entries[Min(free)] = h, !.refs[Min(free)] = 1]]
     ELSE [n |-> -1, fib |-> f]

(* poptrie_fib_deref: the first slot holding h loses a reference.          *)
FibDeref(f, h) ==
  LET hit == {i \in FibIdx : f.entries[i] = h}
  IN IF hit = {} THEN f ELSE [f EXCEPT !.refs[Min(hit)] = @ - 1]

(* poptrie->fib.entries[n].refs-- on a node's nexthop.  An index past the  *)
(* table (only the 65535 of an unchecked -1) would be a write out of       *)
(* bounds; no state checked here gets that far.                           *)
DecRef(f, n) == IF n \in FibIdx THEN [f EXCEPT !.refs[n] = @ - 1] ELSE f

-----------------------------------------------------------------------------
(***************************************************************************)
(* The propagate walks of poptrie_private.hh.  Each visits the subtree of  *)
(* node n in the code's order (node, left, right) and returns the trie.    *)
(***************************************************************************)

(* poptrie_route_add_propagate: the new route e becomes the ext of every   *)
(* node below whose cover is shorter; a node with a longer cover is marked *)
(* and its subtree skipped.                                                *)
(* Mutant: a node with no cover yet is marked but not given e as ext.     *)
RECURSIVE AddPropagateNoNullExt(_, _, _)
AddPropagateNoNullExt(r, n, e) ==
  IF r[n].ext = NULL THEN [r EXCEPT ![n].mark = TRUE]
  ELSE IF ~(Len(e) > Len(r[n].ext)) THEN [r EXCEPT ![n].mark = TRUE]
  ELSE LET r1 == [r EXCEPT ![n].mark = TRUE, ![n].ext = e]
           r2 == IF Child(n, 0) \in DOMAIN r1 THEN AddPropagateNoNullExt(r1, Child(n, 0), e) ELSE r1
       IN IF Child(n, 1) \in DOMAIN r2 THEN AddPropagateNoNullExt(r2, Child(n, 1), e) ELSE r2

RECURSIVE AddPropagate(_, _, _)
AddPropagate(r, n, e) ==
  IF r[n].ext # NULL /\ ~(Len(e) > Len(r[n].ext))
    THEN [r EXCEPT ![n].mark = TRUE]
    ELSE LET r1 == [r EXCEPT ![n].mark = TRUE, ![n].ext = e]
             r2 == IF Child(n, 0) \in DOMAIN r1 THEN AddPropagate(r1, Child(n, 0), e) ELSE r1
         IN IF Child(n, 1) \in DOMAIN r2 THEN AddPropagate(r2, Child(n, 1), e) ELSE r2

(* The child's returned mark is or-ed into the parent's.                   *)
OrChildMarks(r, n) ==
  [r EXCEPT ![n].mark = @ \/ (\E bit \in {0, 1} : Child(n, bit) \in DOMAIN r
                                                   /\ r[Child(n, bit)].mark)]

(* poptrie_route_change_propagate: mark every node whose ext is e.         *)
RECURSIVE ChangePropagate(_, _, _)
ChangePropagate(r, n, e) ==
  LET r1 == IF r[n].ext = e THEN [r EXCEPT ![n].mark = TRUE] ELSE r
      r2 == IF Child(n, 0) \in DOMAIN r1 THEN ChangePropagate(r1, Child(n, 0), e) ELSE r1
      r3 == IF Child(n, 1) \in DOMAIN r2 THEN ChangePropagate(r2, Child(n, 1), e) ELSE r2
  IN OrChildMarks(r3, n)

(* poptrie_route_del_propagate: every node whose ext is oext is re-pointed *)
(* to next and marked.                                                     *)
RECURSIVE DelPropagate(_, _, _, _)
DelPropagate(r, n, oext, next) ==
  LET r1 == IF r[n].ext = oext THEN [r EXCEPT ![n].ext = next, ![n].mark = TRUE] ELSE r
      r2 == IF Child(n, 0) \in DOMAIN r1 THEN DelPropagate(r1, Child(n, 0), oext, next) ELSE r1
      r3 == IF Child(n, 1) \in DOMAIN r2 THEN DelPropagate(r2, Child(n, 1), oext, next) ELSE r2
  IN OrChildMarks(r3, n)

(* _clear_mark: unmark the subtree of n, stopping at unmarked nodes.       *)
RECURSIVE ClearMark(_, _)
ClearMark(r, n) ==
  IF ~r[n].mark THEN r
  ELSE LET r1 == [r EXCEPT ![n].mark = FALSE]
           r2 == IF Child(n, 0) \in DOMAIN r1 THEN ClearMark(r1, Child(n, 0)) ELSE r1
       IN IF Child(n, 1) \in DOMAIN r2 THEN ClearMark(r2, Child(n, 1)) ELSE r2

(* The end of _update_subtree as seen from the trie.                      *)
RebuildOutcomes == IF RebuildMayFail THEN BOOLEAN ELSE {TRUE}
AfterRebuild(r, n, ok) == IF ok THEN ClearMark(r, n) ELSE r

-----------------------------------------------------------------------------
(***************************************************************************)
(* The radix descents (_route_add, _route_change, _route_update,           *)
(* _route_del), as functions of the trie.                                  *)
(***************************************************************************)

(* The descent of _route_add / _route_update: every missing node on the    *)
(* way down to t is malloc'ed, invalid, with the nearest valid ancestor    *)
(* seen so far as its ext.                                                 *)
CreatePath(r, t) ==
  LET new == {a \in StrictAncestors(t) \cup {t} : a \notin DOMAIN r}
  IN [q \in DOMAIN r \cup new |->
        IF q \in new THEN Fresh(NearestValidAbove(r, q)) ELSE r[q]]

(* The terminal step of an insertion: make t valid and propagate.         *)
Insert(r, t, nh) ==
  AddPropagate([r EXCEPT ![t].valid = TRUE, ![t].nexthop = nh], t, t)

(* The terminal step of a change with a different nexthop.                *)
Replace(r, t, nh) ==
  ChangePropagate([r EXCEPT ![t].nexthop = nh], t, t)

Present(r, t) == t \in DOMAIN r /\ r[t].valid

(* _route_del's unwinding: each strict ancestor, deepest first, is freed   *)
(* if it has no child left.                                                *)
Drop(r, q) == [p \in DOMAIN r \ {q} |-> r[p]]
Childless(r, q) == Child(q, 0) \notin DOMAIN r /\ Child(q, 1) \notin DOMAIN r

(* Mutant: an ancestor is freed without checking that it is childless.    *)
RECURSIVE PruneUpUnguarded(_, _)
PruneUpUnguarded(r, q) ==
  LET r1 == Drop(r, q)
  IN IF q = << >> THEN r1 ELSE PruneUpUnguarded(r1, Parent(q))

RECURSIVE PruneUp(_, _)
PruneUp(r, q) ==
  LET r1 == IF Childless(r, q) THEN Drop(r, q) ELSE r
  IN IF q = << >> THEN r1 ELSE PruneUp(r1, Parent(q))

Prune(r, t) == IF t = << >> THEN r ELSE PruneUp(r, Parent(t))

-----------------------------------------------------------------------------
(***************************************************************************)
(* The public operations.  Each action is one call, fib_ref first.         *)
(***************************************************************************)

RefsBelowBound == \A i \in FibIdx : fib.refs[i] < MaxRefs

(* poptrie_route_add: fib_ref, _route_add, and on any failure fib_deref.   *)
PoptrieRouteAdd(prefix, len, h) ==
  LET f  == FibRef(fib, h)
      nh == f.n % U16
      t  == PathOf(prefix, len)
      r1 == CreatePath(radix, t)
  IN /\ RefsBelowBound
     /\ IF r1[t].valid
          THEN /\ radix' = r1
               /\ fib' = FibDeref(f.fib, h)
          ELSE \E ok \in RebuildOutcomes :
                 /\ radix' = AfterRebuild(Insert(r1, t, nh), t, ok)
                 /\ fib' = IF ok THEN f.fib ELSE FibDeref(f.fib, h)

(* Mutant: the reference dropped on a real change is the new nexthop's.   *)
PoptrieRouteChangeDerefsNew(prefix, len, h) ==
  LET f  == FibRef(fib, h)
      nh == f.n % U16
      t  == PathOf(prefix, len)
  IN /\ RefsBelowBound
     /\ IF ~Present(radix, t)
          THEN /\ fib' = f.fib
               /\ UNCHANGED radix
        ELSE IF radix[t].nexthop # nh
          THEN \E ok \in RebuildOutcomes :
                 /\ radix' = AfterRebuild(Replace(radix, t, nh), t, ok)
                 /\ fib' = DecRef(f.fib, nh)
        ELSE /\ fib' = DecRef(f.fib, nh)
             /\ UNCHANGED radix

(* poptrie_route_change: fib_ref, then _route_change, which drops the old  *)
(* nexthop's reference, or the new one's if it is the same; a missing      *)
(* route returns -1 with nothing dropped.                                  *)
PoptrieRouteChange(prefix, len, h) ==
  LET f  == FibRef(fib, h)
      nh == f.n % U16
      t  == PathOf(prefix, len)
  IN /\ RefsBelowBound
     /\ IF ~Present(radix, t)
          THEN /\ fib' = f.fib
               /\ UNCHANGED radix
        ELSE IF radix[t].nexthop # nh
          THEN \E ok \in RebuildOutcomes :
                 /\ radix' = AfterRebuild(Replace(radix, t, nh), t, ok)
                 /\ fib' = DecRef(f.fib, radix[t].nexthop)
        ELSE /\ fib' = DecRef(f.fib, nh)
             /\ UNCHANGED radix

(* poptrie_route_update: fib_ref, then _route_update: the path is created, *)
(* then change semantics on a valid node and insert semantics otherwise.   *)
PoptrieRouteUpdate(prefix, len, h) ==
  LET f  == FibRef(fib, h)
      nh == f.n % U16
      t  == PathOf(prefix, len)
      r1 == CreatePath(radix, t)
  IN /\ RefsBelowBound
     /\ IF r1[t].valid /\ r1[t].nexthop # nh
          THEN \E ok \in RebuildOutcomes :
                 /\ radix' = AfterRebuild(Replace(r1, t, nh), t, ok)
                 /\ fib' = DecRef(f.fib, r1[t].nexthop)
        ELSE IF r1[t].valid
          THEN /\ radix' = r1
               /\ fib' = DecRef(f.fib, nh)
        ELSE \E ok \in RebuildOutcomes :
               /\ radix' = AfterRebuild(Insert(r1, t, nh), t, ok)
               /\ fib' = f.fib

(* Mutant: the exact node is only required to exist, not to be valid.   *)
PoptrieRouteDelNoValidCheck(prefix, len) ==
  LET t  == PathOf(prefix, len)
      r1 == DelPropagate(radix, t, t, NearestValidAbove(radix, t))
      r2 == [r1 EXCEPT ![t].valid = FALSE, ![t].nexthop = 0]
  IN IF t \notin DOMAIN radix
       THEN UNCHANGED vars
       ELSE \E ok \in RebuildOutcomes :
              IF ok THEN /\ radix' = Prune(ClearMark(r2, t), t)
                         /\ fib' = DecRef(fib, radix[t].nexthop)
                    ELSE /\ radix' = r2
                         /\ UNCHANGED fib

(* poptrie_route_del: _route_del re-points the covered nodes to the next   *)
(* valid ancestor, invalidates t, rebuilds, and only when that succeeds    *)
(* drops the reference and prunes childless ancestors on the way up.       *)
PoptrieRouteDel(prefix, len) ==
  LET t  == PathOf(prefix, len)
      r1 == DelPropagate(radix, t, t, NearestValidAbove(radix, t))
      r2 == [r1 EXCEPT ![t].valid = FALSE, ![t].nexthop = 0]
  IN IF ~Present(radix, t)
       THEN UNCHANGED vars
       ELSE \E ok \in RebuildOutcomes :
              IF ok THEN /\ radix' = Prune(ClearMark(r2, t), t)
                         /\ fib' = DecRef(fib, radix[t].nexthop)
                    ELSE /\ radix' = r2
                         /\ UNCHANGED fib

Next ==
  \E prefix \in Prefixes, len \in 0 .. W :
    \/ \E h \in Handles :
         \/ PoptrieRouteAdd(prefix, len, h)
         \/ PoptrieRouteChange(prefix, len, h)
         \/ PoptrieRouteUpdate(prefix, len, h)
    \/ PoptrieRouteDel(prefix, len)

Spec == Init /\ [][Next]_vars

-----------------------------------------------------------------------------
(***************************************************************************)
(* Lookup through the trie                                                 *)
(***************************************************************************)

(* _rib_lookup: walk down along addr remembering the last valid node; at  *)
(* a missing child return its nexthop (0 if none).  At depth KEYLENGTH the *)
(* code shifts by -1 to pick a child; both children are absent there, so  *)
(* either result of that shift returns the same value.                     *)
(* Mutant: the walk stops at a missing child before noting a valid node. *)
RECURSIVE RibWalkLateEn(_, _, _, _)
RibWalkLateEn(r, q, addr, en) ==
  LET c == IF Len(q) < W THEN Child(q, Bit(addr, Len(q))) ELSE q
  IN IF Len(q) = W \/ c \notin DOMAIN r
       THEN IF en = NULL THEN 0 ELSE r[en].nexthop
       ELSE RibWalkLateEn(r, c, addr, IF r[q].valid THEN q ELSE en)

RECURSIVE RibWalk(_, _, _, _)
RibWalk(r, q, addr, en) ==
  LET en1 == IF r[q].valid THEN q ELSE en
      c   == IF Len(q) < W THEN Child(q, Bit(addr, Len(q))) ELSE q
  IN IF Len(q) = W \/ c \notin DOMAIN r
       THEN IF en1 = NULL THEN 0 ELSE r[en1].nexthop
       ELSE RibWalk(r, c, addr, en1)

RibLookup(r, addr) == IF << >> \notin DOMAIN r THEN 0 ELSE RibWalk(r, << >>, addr, NULL)

(* poptrie_rib_lookup: the handle of the FIB slot found.                   *)
PoptrieRibLookup(addr) == fib.entries[RibLookup(radix, addr)]

(* The route set the trie and FIB stand for: each valid node's handle.     *)
RibTable ==
  [q \in Paths |-> IF Present(radix, q) THEN fib.entries[radix[q].nexthop] ELSE NULL]

RT == INSTANCE RouteTable WITH Routes <- Paths, NoRoute <- NULL, table <- RibTable

-----------------------------------------------------------------------------
(***************************************************************************)
(* Properties                                                              *)
(***************************************************************************)

(* Types; the nodes form a tree: every node's parent exists, as the       *)
(* owning left/right pointers of radix_node require.                       *)
TypeOK ==
  /\ DOMAIN radix \subseteq Paths
  /\ \A q \in DOMAIN radix :
       /\ q # << >> => Parent(q) \in DOMAIN radix
       /\ radix[q].valid \in BOOLEAN
       /\ radix[q].mark \in BOOLEAN
       /\ radix[q].ext \in Paths \cup {NULL}
       /\ radix[q].nexthop \in 0 .. (U16 - 1)
  /\ fib.entries \in [FibIdx -> Handles \cup {NULL}]
  /\ fib.refs \in [FibIdx -> Int]

(* The propagate walks keep every node's ext equal to its nearest valid    *)
(* ancestor-or-self, across any sequence of adds, changes, updates and     *)
(* deletes; the rebuild reads a missing slot's value through it.           *)
ExtIsNearestCover ==
  \A q \in DOMAIN radix :
    radix[q].ext = IF radix[q].valid THEN q ELSE NearestValidAbove(radix, q)

(* Longest-prefix match (spec 8): poptrie_rib_lookup returns, for every    *)
(* address, the handle of the longest route covering it, as the route set  *)
(* recorded in the trie and the FIB says.                                  *)
RibLookupIsLongestMatch ==
  \A addr \in Prefixes : PoptrieRibLookup(addr) = RT!Lpm(RibTable, PathOf(addr, W))

(* A FIB slot never has fewer references than the valid nodes that name    *)
(* it, so fib_ref never hands a slot still in use to another handle.       *)
FibRefsCoverRoutes ==
  \A i \in FibIdx \ {0} :
    fib.refs[i] >= Cardinality({q \in DOMAIN radix : radix[q].valid /\ radix[q].nexthop = i})

(* Slot 0 is the "no route" sentinel (spec 3): whatever the sequence of   *)
(* fib_ref/fib_deref and refs-- the operations do, it keeps the null       *)
(* handle and a positive count, so fib_ref never hands it out.             *)
SlotZeroReserved ==
  fib.entries[0] = NULL /\ fib.refs[0] >= 1

(* Each FIB slot other than 0 has exactly as many references as valid      *)
(* nodes naming it (spec 6: a failed operation leaves the prior state).    *)
FibRefsExact ==
  \A i \in FibIdx \ {0} :
    fib.refs[i] = Cardinality({q \in DOMAIN radix : radix[q].valid /\ radix[q].nexthop = i})

(* Every route's nexthop is a slot of the FIB: an add that finds the table *)
(* full fails with TableFull (spec 6) rather than storing an index.        *)
NexthopInFib ==
  \A q \in DOMAIN radix : radix[q].valid => radix[q].nexthop \in FibIdx

(* Spec 3: an invalid node is pruned once a delete leaves it childless, so *)
(* every leaf of the trie below the root terminates a route.               *)
NoDeadLeaf ==
  \A q \in DOMAIN radix \ {<< >>} : Childless(radix, q) => radix[q].valid

(* The operations implement the route table of spec section 6: every step  *)
(* is an add onto an absent prefix, a change or delete of a present one,   *)
(* an update, or leaves the route set alone.                               *)
RouteTableRefinement == RT!Spec

=============================================================================
