------------------------------ MODULE Poptrie ------------------------------
(***************************************************************************)
(* The compressed lookup index of src/libsponge/poptrie4.cc and            *)
(* poptrie_private.hh, composed with the route trie and FIB of module Rib  *)
(* and two arenas of module Buddy.                                         *)
(*                                                                         *)
(* The geometry is scaled: keys of W bits, a direct table of 2^S entries   *)
(* (POPTRIE_S = 18 in the code) and internal nodes of stride K (6 in the   *)
(* code, so 2^K slots and 2^K-bit vectors).                                *)
(*                                                                         *)
(*   dir          the direct table: a leaf (a FIB index) or a node index   *)
(*   nodes[i]     poptrie_node: [vector, leafvec, base0, base1], vectors   *)
(*                as the sets of slot numbers whose bit is set             *)
(*   leaves[j]    poptrie_leaf_t: a FIB index                              *)
(*   cn, cl       the buddy allocators of nodes and leaves (cnodes,        *)
(*                cleaves), with the blocks the index holds as a ghost     *)
(*                `held` and a ghost `bad` set by a free of a block not    *)
(*                held                                                     *)
(*                                                                         *)
(* A dir entry with bit 31 set is a leaf; here a leaf is the negative      *)
(* number -(nh + 1), which keeps the code's `(int)entry >= 0` test.        *)
(* altdir is only read after _update_subtree copies dir into it, so it is  *)
(* not kept between operations; poptrie->root is written and never read.   *)
(***************************************************************************)
EXTENDS Integers, Sequences, FiniteSets, FiniteSetsExt, SequencesExt

CONSTANTS
  W, Handles, NULL, FIBSZ, MaxRefs,   \* as in module Rib
  S,          \* POPTRIE_S, bits resolved by the direct table
  K,          \* the stride of an internal node (6 in the code)
  SZ1,        \* poptrie_init's sz1: log2 of the nodes arena
  SZ0,        \* poptrie_init's sz0: log2 of the leaves arena
  EOL,        \* BUDDY_EOL
  MaxRoutes,  \* bound on the number of valid routes
  Ops,        \* the route operations callers issue
  Lens,       \* the prefix lengths callers pass
  Normalised, \* whether callers pass prefixes with zero host bits
  KeepDead    \* whether freed memory keeps its contents (a reader sees it)

ASSUME S \in Nat \ {0} /\ K \in Nat \ {0} /\ S + K <= W
ASSUME Ops \subseteq {"add", "change", "update", "del"} /\ Normalised \in BOOLEAN
ASSUME KeepDead \in BOOLEAN /\ Lens \subseteq 0 .. W

VARIABLES radix, fib, dir, nodes, leaves, cn, cl
vars == <<radix, fib, dir, nodes, leaves, cn, cl>>

R  == INSTANCE Rib WITH RebuildMayFail <- FALSE
BN == INSTANCE Buddy WITH SZ <- SZ1, LEVEL <- SZ1,
                          buddy <- 0, blocks <- 0, b <- {}, live <- {}, req <- 0, ret <- 0
BL == INSTANCE Buddy WITH SZ <- SZ0, LEVEL <- SZ0,
                          buddy <- 0, blocks <- 0, b <- {}, live <- {}, req <- 0, ret <- 0

Slots    == 0 .. (2^K - 1)
DirIdx   == 0 .. (2^S - 1)
NodeIdx  == 0 .. (2^SZ1 - 1)
LeafIdx  == 0 .. (2^SZ0 - 1)

(* INDEX(a, s, n): n bits of a starting s bits from the top.  Past the     *)
(* key the code shifts the key left, filling with zero bits.               *)
Index(a, s, n) ==
  IF s + n <= W THEN (a \div 2^(W - s - n)) % 2^n ELSE (a * 2^(s + n - W)) % 2^n

(* POPCNT_LS(v, i): the set bits of v at positions 0 .. i.                 *)
PopLs(v, i) == Cardinality({j \in v : j <= i})

(* bsr: the index of the highest set bit, 0 for 0.                        *)
Bsr(x) == IF x = 0 THEN 0 ELSE CHOOSE k \in 0 .. 63 : 2^k <= x /\ x < 2^(k + 1)

Leaf(nh)    == -(nh + 1)
IsLeaf(e)   == e < 0
LeafVal(e)  == -e - 1

(* A poptrie_node_t.  Junk stands for memory no live block covers.         *)
Node(vec, lvec, b0, b1) == [vector |-> vec, leafvec |-> lvec, base0 |-> b0, base1 |-> b1]
Junk == Node({}, {}, -1, -1)

-----------------------------------------------------------------------------
(***************************************************************************)
(* The memory the rebuild works on, threaded through its calls as one      *)
(* record: [dir, altdir, nodes, leaves, cn, cl].                           *)
(***************************************************************************)
Mem == [dir |-> dir, altdir |-> dir, nodes |-> nodes, leaves |-> leaves, cn |-> cn, cl |-> cl]

(* buddy_alloc2 / buddy_free2 on the two arenas, returning [ret, P].      *)
Held(a, sz, x) == IF x = BN!FAIL THEN a ELSE [a EXCEPT !.held = @ \cup {<<x, sz>>}]
Released(a, x) == [a EXCEPT !.held = {h \in @ : h[1] # x},
                            !.bad  = @ \/ ~\E h \in a.held : h[1] = x]

AllocNode(P, sz) ==
  LET r == BN!Alloc2(P.cn, sz) IN [ret |-> r.ret, P |-> [P EXCEPT !.cn = Held(r.mem, sz, r.ret)]]
AllocLeaf(P, sz) ==
  LET r == BL!Alloc2(P.cl, sz) IN [ret |-> r.ret, P |-> [P EXCEPT !.cl = Held(r.mem, sz, r.ret)]]
FreeNode(P, x) == [P EXCEPT !.cn = Released(BN!Free2(P.cn, x), x)]
FreeLeaf(P, x) == [P EXCEPT !.cl = Released(BL!Free2(P.cl, x), x)]

(* The slots of the blocks an arena hands out; the rest is dead data.      *)
HeldSlots(a) == UNION {h[1] .. (h[1] + 2^h[2] - 1) : h \in a.held}

(* poptrie_init: dir all leaf 0 (1 << 31), both arenas fresh, the nodes    *)
(* and leaves arrays uninitialised.                                         *)
Arena(n) ==
  [buddy  |-> [k \in 0 .. (n - 1) |-> IF k = n - 1 THEN 0 ELSE EOL],
   blocks |-> [s \in 0 .. (2^n - 1) |-> IF s = 0 THEN 2^(n - 1) ELSE EOL],
   b      |-> {}, held |-> {}, bad |-> FALSE]

Init ==
  /\ R!Init
  /\ dir    = [i \in DirIdx |-> Leaf(0)]
  /\ nodes  = [i \in NodeIdx |-> Junk]
  /\ leaves = [i \in LeafIdx |-> 0]
  /\ cn     = Arena(SZ1)
  /\ cl     = Arena(SZ0)

-----------------------------------------------------------------------------
(***************************************************************************)
(* poptrie_lookup: the FIB index the index gives for addr.  A read the     *)
(* code would make outside both arrays, or a walk past the key, is -1.      *)
(***************************************************************************)
RECURSIVE LookupFrom(_, _, _, _, _)
LookupFrom(P, addr, inode, idx, pos) ==
  IF inode \notin NodeIdx \/ pos > W + K THEN -1
  ELSE LET nd == P.nodes[inode]
       IN IF idx \in nd.vector
            THEN LookupFrom(P, addr, nd.base1 + PopLs(nd.vector, idx) - 1,
                            Index(addr, pos, K), pos + K)
            ELSE LET j == nd.base0 + PopLs(nd.leafvec, idx) - 1
                 IN IF j \in LeafIdx THEN P.leaves[j] ELSE -1

Lookup(P, addr) ==
  LET e == P.dir[Index(addr, 0, S)]
  IN IF IsLeaf(e) THEN LeafVal(e) ELSE LookupFrom(P, addr, e, Index(addr, S, K), S + K)

-----------------------------------------------------------------------------
(***************************************************************************)
(* _parse_triangle: the 2^K nodes K levels below radix node q.  Slot i is  *)
(* the node on the path of i's bits; where that path leaves the trie the   *)
(* code copies the last node it reached, with its children cleared.  Slot  *)
(* i's vector bit is set when the node reached at full depth has a child.  *)
(***************************************************************************)
BitsOf(i, n)   == [j \in 1 .. n |-> (i \div 2^(n - j)) % 2]
SlotPath(q, i) == q \o BitsOf(i, K)
SlotNode(r, q, i) ==
  R!Deepest({SubSeq(SlotPath(q, i), 1, Len(q) + j) : j \in 0 .. K} \cap DOMAIN r)
Internal(r, q, p) ==
  Len(p) = Len(q) + K /\ \E bit \in {0, 1} : R!Child(p, bit) \in DOMAIN r

(* Mutant: only the left child's mark is looked at.                       *)
DirtyLeftOnly(r, p) == R!Child(p, 0) \in DOMAIN r /\ r[R!Child(p, 0)].mark

(* The check of _update_inode: a child of the slot node is marked.         *)
Dirty(r, p) == \E bit \in {0, 1} : R!Child(p, bit) \in DOMAIN r /\ r[R!Child(p, bit)].mark

(* EXT_NH: the nexthop of the node's ext, 0 without one.                   *)
ExtNh(r, p) == IF r[p].ext = NULL THEN 0 ELSE r[r[p].ext].nexthop

Fail(P) == [ret |-> -1, P |-> P, rec |-> Junk, leaf |-> 0]

(* Mutant: the run start is recorded one slot too far.                    *)
RunAtNext(acc, i, v) ==
  IF acc.prev = v THEN acc
  ELSE [acc EXCEPT !.leafvec = @ \cup {i + 1}, !.leaves = Append(@, v), !.prev = v]

(* The leaf run of _update_inode: a leaf starts a run when it differs from *)
(* the previous leaf (prev), internal slots in between not counting.       *)
Run(acc, i, v) ==
  IF acc.prev = v THEN acc
  ELSE [acc EXCEPT !.leafvec = @ \cup {i}, !.leaves = Append(@, v), !.prev = v]

(* The index of the child node of slot i, for a slot of the vector.        *)
ChildAt(nd, i) == nd.base1 + PopLs(nd.vector, i) - 1

(* The leaf of slot i of an old node.                                      *)
OldLeaf(P, nd, i) == P.leaves[nd.base0 + PopLs(nd.leafvec, i) - 1]

WriteNodes(P, base, seq) ==
  [P EXCEPT !.nodes = [j \in NodeIdx |-> IF j - base + 1 \in DOMAIN seq THEN seq[j - base + 1]
                                         ELSE P.nodes[j]]]
WriteLeaves(P, base, seq) ==
  [P EXCEPT !.leaves = [j \in LeafIdx |-> IF j - base + 1 \in DOMAIN seq THEN seq[j - base + 1]
                                          ELSE P.leaves[j]]]

(* A free guarded by the code's test of the block index.                   *)
FreeNodeIf(P, cond, x) == IF cond THEN FreeNode(P, x) ELSE P
FreeLeafIf(P, cond, x) == IF cond THEN FreeLeaf(P, x) ELSE P

(***************************************************************************)
(* _update_inode(node q, inode): rebuild the node of radix node q whose    *)
(* old version is inode (-1: none).  Slot by slot: a leaf slot gives its   *)
(* EXT_NH; an internal slot is rebuilt when a child of its node is marked  *)
(* or there is no old node, and otherwise its old child node or old leaf   *)
(* is reused.  Then base1 and base0 are allocated (2^(bsr(n-1)+1) entries) *)
(* and filled.  Returns [ret, P, rec, leaf]: ret 1 when the node is a      *)
(* single leaf, with that leaf; -1 on allocation failure.                  *)
(* _update_inode_chunk_rec with r = 0, the only r the code passes, is this *)
(* call; _update_inode_chunk also frees the leaves of a node that          *)
(* collapsed to a leaf.                                                     *)
(* Each step's result is passed on as the argument of the next operator   *)
(* (InodeSlot, InodeRebuilt, ...), so that every call is made once.        *)
(***************************************************************************)

(* The slot i result c of a rebuilt child.                                 *)
InodeRebuilt(acc, i, c) ==
  IF c.ret < 0 THEN [acc EXCEPT !.ret = -1, !.P = c.P]
  ELSE IF c.ret > 0 THEN Run([acc EXCEPT !.P = c.P, !.vector = @ \ {i}], i, c.leaf)
  ELSE [acc EXCEPT !.P = c.P, !.nvec = @ + 1, !.children[i] = c.rec]

(* The arrays of the rebuilt node a, once base1 is b1 and base0 is b0.     *)
InodeWrite(a, b1, b0) ==
  LET vs == SetToSortSeq(a.vector, <)
      nl == Len(a.leaves)
  IN IF nl > 0 /\ b0.ret < 0
       THEN Fail(FreeNodeIf(b0.P, b1.ret >= 0, b1.ret))
     ELSE [ret  |-> IF a.nvec = 0 /\ nl = 1 THEN 1 ELSE 0,
           P    |-> WriteLeaves(WriteNodes(b0.P, b1.ret, [k \in DOMAIN vs |-> a.children[vs[k]]]),
                                b0.ret, a.leaves),
           rec  |-> Node(a.vector, a.leafvec, b0.ret, b1.ret),
           leaf |-> IF nl > 0 THEN a.leaves[1] ELSE 0]

InodeLeaves(a, b1) ==
  IF a.nvec > 0 /\ b1.ret < 0 THEN Fail(b1.P)
  ELSE InodeWrite(a, b1, IF Len(a.leaves) > 0 THEN AllocLeaf(b1.P, Bsr(Len(a.leaves) - 1) + 1)
                         ELSE [ret |-> -1, P |-> b1.P])

InodeArrays(a) ==
  IF a.ret < 0 THEN Fail(a.P)
  ELSE InodeLeaves(a, IF a.nvec > 0 THEN AllocNode(a.P, Bsr(a.nvec - 1) + 1)
                      ELSE [ret |-> -1, P |-> a.P])

(* _update_inode_chunk's free of the leaves of a collapsed node.           *)
ChunkOf(c) == IF c.ret > 0 THEN [c EXCEPT !.P = FreeLeaf(c.P, c.rec.base0)] ELSE c

RECURSIVE InodeLoop(_, _, _, _, _), InodeSlot(_, _, _, _, _, _), InodeStep(_, _, _, _, _),
          UpdateInode(_, _, _, _), UpdateInodeChunk(_, _, _, _)

(* Slot i, whose node is p.                                                 *)
InodeSlot(r, q, inode, i, acc, p) ==
  LET old == acc.P.nodes[inode]
  IN IF ~Internal(r, q, p) THEN Run(acc, i, ExtNh(r, p))
     ELSE IF Dirty(r, p) \/ inode < 0 THEN
       InodeRebuilt(acc, i, UpdateInodeChunk(acc.P, r, p,
                              IF inode >= 0 /\ i \in old.vector THEN ChildAt(old, i) ELSE -1))
     ELSE IF i \in old.vector
       THEN [acc EXCEPT !.nvec = @ + 1, !.children[i] = acc.P.nodes[ChildAt(old, i)]]
     ELSE Run([acc EXCEPT !.vector = @ \ {i}], i, OldLeaf(acc.P, old, i))

InodeStep(r, q, inode, i, nx) == IF nx.ret < 0 THEN nx ELSE InodeLoop(r, q, inode, i + 1, nx)

InodeLoop(r, q, inode, i, acc) ==
  IF i > 2^K - 1 THEN acc ELSE InodeStep(r, q, inode, i, InodeSlot(r, q, inode, i, acc, SlotNode(r, q, i)))

UpdateInode(P, r, q, inode) ==
  InodeArrays(InodeLoop(r, q, inode, 0,
    [ret |-> 0, P |-> P, vector |-> {i \in Slots : Internal(r, q, SlotNode(r, q, i))},
     leafvec |-> {}, leaves |-> << >>, prev |-> -1, nvec |-> 0,
     children |-> [i \in Slots |-> Junk]]))

UpdateInodeChunk(P, r, q, inode) == ChunkOf(UpdateInode(P, r, q, inode))

-----------------------------------------------------------------------------
(***************************************************************************)
(* Reclaim: the _update_clean_* walks free the blocks of an old version    *)
(* that the new version does not share.  Blocks are compared by index:    *)
(* a node record copied into a new array still points at the same blocks.  *)
(***************************************************************************)
SlotSeq  == [k \in 1 .. 2^K |-> k - 1]
Ranks(v) == [k \in 1 .. Cardinality(v) |-> k - 1]

(* Mutant: the old arrays are freed even when the new node shares them.    *)
FreeBasesAlways(P, o, n) ==
  FreeLeafIf(FreeNodeIf(P, o.base1 # -1, o.base1), o.base0 # -1, o.base0)

FreeBases(P, o, n) ==
  FreeLeafIf(FreeNodeIf(P, o.base1 # -1 /\ o.base1 # n.base1, o.base1),
             o.base0 # -1 /\ o.base0 # n.base0, o.base0)

(* _update_clean_inode(ninode, oinode): pair each old child with the new   *)
(* child of the same slot (-1 when gone), recursively, then free the old   *)
(* arrays the new node does not use.                                       *)
RECURSIVE CleanInode(_, _, _)
CleanInode(P, ni, oi) ==
  LET o == P.nodes[oi]
      n == IF ni >= 0 THEN P.nodes[ni] ELSE Junk
  IN IF ni = oi THEN P
     ELSE FreeBases(FoldLeft(LAMBDA acc, i :
                               IF i \notin o.vector THEN acc
                               ELSE CleanInode(acc, IF ni >= 0 /\ i \in n.vector
                                                      THEN ChildAt(n, i) ELSE -1,
                                               ChildAt(o, i)),
                             P, SlotSeq), o, n)

(* _update_clean_subtree(oinode): free everything below an old node.       *)
RECURSIVE CleanSubtree(_, _)
CleanSubtree(P, oi) ==
  LET o == P.nodes[oi]
  IN IF oi < 0 THEN P
     ELSE FreeLeafIf(FreeNodeIf(FoldLeft(LAMBDA acc, k : CleanSubtree(acc, o.base1 + k),
                                         P, Ranks(o.vector)),
                                o.base1 >= 0, o.base1),
                     o.base0 >= 0, o.base0)

(* _update_clean_node(node, oinode): node is a live record whose children  *)
(* array moved from oinode to node.base1 in place.                         *)
CleanNode(P, nd, oi) ==
  IF oi < 0 THEN P
  ELSE FreeNodeIf(FoldLeft(LAMBDA acc, k : CleanInode(acc, nd.base1 + k, oi + k),
                           P, Ranks(nd.vector)),
                  nd.base1 # oi, oi)

(* _update_clean_root(nroot, oroot): as CleanInode for two root nodes,     *)
(* then the old root's own block.                                          *)
CleanRoot(P, nr, orr) ==
  LET n == P.nodes[nr]
      o == P.nodes[orr]
  IN FreeNodeIf(FreeBases(FoldLeft(LAMBDA acc, i :
                                     IF i \notin o.vector THEN acc
                                     ELSE CleanInode(acc, IF i \in n.vector THEN ChildAt(n, i) ELSE -1,
                                                     ChildAt(o, i)),
                                   P, SlotSeq), o, n),
                orr # nr, orr)
-----------------------------------------------------------------------------
(***************************************************************************)
(* _update_part and its two loops.  The stack of the descent is a sequence *)
(* of frames [inode, idx], the node of each level above the rebuilt one    *)
(* and the slot taken; its last element is the frame nearest the rebuilt   *)
(* node.  The width of a frame is always K, so NODEINDEX is 0.  The        *)
(* descent pushes a frame only for an existing node, so the branches of    *)
(* both loops for a frame with inode < 0 are never taken and are left out. *)
(* `rt` is the dir or altdir entry the root hangs from.                    *)
(***************************************************************************)
Done(P) == [ret |-> 0, P |-> P, rec |-> Junk, leaf |-> 0]

GetRoot(P, rt)    == P[rt[1]][rt[2]]
SetRoot(P, rt, v) == [P EXCEPT ![rt[1]][rt[2]] = v]

(* The leaf runs over the leaf slots D, with values val: the run starts    *)
(* (leafvec) and one leaf per run.                                         *)
RunStarts(D, val) ==
  {i \in D : {j \in D : j < i} = {} \/ val[Max({j \in D : j < i})] # val[i]}
RunLeaves(D, val) ==
  LET s == SetToSortSeq(RunStarts(D, val), <) IN [k \in DOMAIN s |-> val[s[k]]]

(* The child records of node nd for the slots of vector, in slot order.    *)
ChildRecs(P, nd, vector) ==
  LET vs == SetToSortSeq(vector, <) IN [k \in DOMAIN vs |-> P.nodes[ChildAt(nd, vs[k])]]

(* A loop result: [ret, P, cnodes] and, for loop 1, vcomp.                  *)
Out1(ret, P, cnd, vcomp) == [ret |-> ret, P |-> P, cnodes |-> cnd, vcomp |-> vcomp]
Out2(ret, P, cnd)        == [ret |-> ret, P |-> P, cnodes |-> cnd]

(***************************************************************************)
(* _update_part_loop1: the node below frame fr collapsed to the leaf       *)
(* sleaf.  Slot idx of the frame's node becomes that leaf.  If the node is *)
(* then one leaf run with no child and not the top frame, it collapses     *)
(* too (vcomp stays set).  Otherwise a new leaves array, and when slot idx *)
(* was a child a new children array without it, are built into cnd; when   *)
(* slot idx was already a leaf and the run starts are unchanged, the loop  *)
(* returns 1: nothing is written.  Returns [ret, P, cnd, vcomp].            *)
(* Loop1Leaves, Loop1Kids and Loop1Nodes continue after each allocation.   *)
(***************************************************************************)
Loop1Nodes(P, fr, cnd, lvec, b0, b1) ==
  LET nd     == P.nodes[fr.inode]
      vector == nd.vector \ {fr.idx}
  IN IF vector # {} /\ b1.ret < 0 THEN Out1(-1, b1.P, cnd, FALSE)
     ELSE Out1(0, WriteNodes(b1.P, b1.ret, ChildRecs(P, nd, vector)),
               Node(vector, lvec, b0.ret, b1.ret), FALSE)

Loop1Kids(P, fr, cnd, lvec, b0, P1) ==
  LET nd     == P.nodes[fr.inode]
      vector == nd.vector \ {fr.idx}
  IN IF fr.idx \notin nd.vector
       THEN Out1(0, P1, [nd EXCEPT !.leafvec = lvec, !.base0 = b0.ret], FALSE)
     ELSE Loop1Nodes(P, fr, cnd, lvec, b0,
                     IF vector # {} THEN AllocNode(P1, Bsr(Cardinality(vector) - 1) + 1)
                     ELSE [ret |-> -1, P |-> P1])

Loop1Leaves(P, fr, cnd, lvec, lv, b0) ==
  IF b0.ret < 0 THEN Out1(-1, b0.P, cnd, FALSE)
  ELSE Loop1Kids(P, fr, cnd, lvec, b0, WriteLeaves(b0.P, b0.ret, lv))

Loop1(P, fr, cnd, sleaf, top) ==
  LET nd     == P.nodes[fr.inode]
      vector == nd.vector \ {fr.idx}
      D      == Slots \ vector
      val    == [i \in D |-> IF i = fr.idx THEN sleaf ELSE OldLeaf(P, nd, i)]
      lvec   == RunStarts(D, val)
      lv     == RunLeaves(D, val)
  IN IF Len(lv) = 1 /\ vector = {} /\ ~top THEN Out1(0, P, cnd, TRUE)
     ELSE IF fr.idx \notin nd.vector /\ nd.leafvec = lvec THEN Out1(1, P, cnd, FALSE)
     ELSE Loop1Leaves(P, fr, cnd, lvec, lv, AllocLeaf(P, Bsr(Len(lv) - 1) + 1))

(***************************************************************************)
(* _update_part_loop2: put the rebuilt node cnd under slot idx of frame fr. *)
(* If slot idx already held a child, a new children array is built and     *)
(* spliced into the live node in place (node->base1 = base1), the old one  *)
(* reclaimed, and the walk ends (1).  Otherwise the frame's node gains a   *)
(* child: new children and leaves arrays go into a new record cnd, which    *)
(* the next frame up, or the root, takes.  Returns [ret, P, cnd].           *)
(***************************************************************************)
(* The children array of the frame's node with cnd in slot fr.idx, the    *)
(* other records copied from the old array.                                *)
Loop2Kids(P, fr, cnd) ==
  LET nd == P.nodes[fr.inode]
      vs == SetToSortSeq(nd.vector \cup {fr.idx}, <)
  IN [k \in DOMAIN vs |-> IF vs[k] = fr.idx THEN cnd ELSE P.nodes[ChildAt(nd, vs[k])]]

(* A new child: the leaves array is allocated, and only then are the      *)
(* leaves and the children records written.                               *)
Loop2Leaves(P, fr, cnd, b1, b0) ==
  LET nd     == P.nodes[fr.inode]
      vector == nd.vector \cup {fr.idx}
      D      == Slots \ vector
      val    == [i \in D |-> OldLeaf(P, nd, i)]
  IN IF D # {} /\ b0.ret < 0 THEN Out2(-1, b0.P, cnd)
     ELSE Out2(0, WriteNodes(WriteLeaves(b0.P, b0.ret, RunLeaves(D, val)), b1.ret, Loop2Kids(P, fr, cnd)),
               Node(vector, RunStarts(D, val), b0.ret, b1.ret))

(* The splice: the live node takes the new array, the old one is cleaned.  *)
Spliced(P2, inode, oi) == CleanNode(P2, P2.nodes[inode], oi)

(* After the children array is allocated: an existing child is replaced   *)
(* by copying the array and splicing it in; a new child needs a leaves     *)
(* array for the slots that stay leaves.                                   *)
Loop2Nodes(P, fr, cnd, b1) ==
  LET nd == P.nodes[fr.inode]
      D  == Slots \ (nd.vector \cup {fr.idx})
  IN IF b1.ret < 0 THEN Out2(-1, b1.P, cnd)
     ELSE IF fr.idx \in nd.vector
       THEN Out2(1, Spliced([WriteNodes(b1.P, b1.ret, Loop2Kids(P, fr, cnd))
                               EXCEPT !.nodes[fr.inode].base1 = b1.ret], fr.inode, nd.base1), cnd)
     ELSE Loop2Leaves(P, fr, cnd, b1,
                      IF D # {} THEN AllocLeaf(b1.P, Bsr(Len(RunLeaves(D, [i \in D |-> OldLeaf(P, nd, i)])) - 1) + 1)
                      ELSE [ret |-> -1, P |-> b1.P])

Loop2(P, fr, cnd) ==
  Loop2Nodes(P, fr, cnd,
             AllocNode(P, Bsr(Cardinality(P.nodes[fr.inode].vector \cup {fr.idx}) - 1) + 1))

(* The end of _update_part and of _update_part_dp: a fresh root block      *)
(* takes cnd, the dir entry is swapped to it (__sync_lock_test_and_set),    *)
(* and outside the altdir rebuild the old root is reclaimed.               *)
Swapped(P1, rt, alt, nr) ==
  LET oroot == GetRoot(P1, rt)
  IN Done(IF ~alt /\ oroot >= 0 THEN CleanRoot(SetRoot(P1, rt, nr), nr, oroot)
          ELSE SetRoot(P1, rt, nr))

Rooted(a, cnd, rt, alt) ==
  IF a.ret < 0 THEN Fail(a.P) ELSE Swapped([a.P EXCEPT !.nodes[a.ret] = cnd], rt, alt, a.ret)

Publish(P, cnd, rt, alt) == Rooted(AllocNode(P, 0), cnd, rt, alt)

(* _update_part_dp: rebuild the node right under a dir entry; a node that  *)
(* collapses to a leaf becomes a dir leaf and the old subtree is freed.    *)
Collapsed(P1, rt, alt, leaf) ==
  LET oroot == GetRoot(P1, rt)
  IN IF ~alt /\ oroot >= 0
       THEN Done(FreeNode(CleanSubtree(SetRoot(P1, rt, Leaf(leaf)), oroot), oroot))
     ELSE Done(SetRoot(P1, rt, Leaf(leaf)))

DpBuilt(c, rt, alt) ==
  IF c.ret < 0 THEN Fail(c.P)
  ELSE IF c.ret = 0 THEN Publish(c.P, c.rec, rt, alt)
  ELSE Collapsed(FreeLeaf(c.P, c.rec.base0), rt, alt, c.leaf)

PartDp(P, r, q, inode, rt, alt) == DpBuilt(UpdateInode(P, r, q, inode), rt, alt)

RECURSIVE PartLoop1(_, _, _, _, _, _), PartLoop2(_, _, _, _, _),
          PartUp1(_, _, _, _, _), PartUp2(_, _, _, _)

PartUp2(l, F, rt, alt) ==
  IF l.ret < 0 THEN Fail(l.P)
  ELSE IF l.ret > 0 THEN Done(l.P)
  ELSE PartLoop2(l.P, Front(F), l.cnodes, rt, alt)

PartLoop2(P, F, cnd, rt, alt) ==
  IF F = << >> THEN Publish(P, cnd, rt, alt) ELSE PartUp2(Loop2(P, Last(F), cnd), F, rt, alt)

PartUp1(l, F, sleaf, rt, alt) ==
  IF l.ret < 0 THEN Fail(l.P)
  ELSE IF l.ret > 0 THEN Done(l.P)
  ELSE IF l.vcomp THEN PartLoop1(l.P, Front(F), l.cnodes, sleaf, rt, alt)
  ELSE PartLoop2(l.P, Front(F), l.cnodes, rt, alt)

PartLoop1(P, F, cnd, sleaf, rt, alt) ==
  IF F = << >> THEN PartLoop2(P, F, cnd, rt, alt)
  ELSE PartUp1(Loop1(P, Last(F), cnd, sleaf, Len(F) = 1), F, sleaf, rt, alt)

(* _update_part: with no frame, _update_part_dp; else rebuild the node of  *)
(* q, and walk the frames upwards, first collapsing (loop1) while the node *)
(* below is a single leaf, then splicing (loop2).                          *)
PartBuilt(c, F, rt, alt) ==
  IF c.ret < 0 THEN Fail(c.P)
  ELSE IF c.ret > 0
    THEN PartLoop1(FreeLeaf(c.P, c.rec.base0), F, [c.rec EXCEPT !.base0 = -1], c.leaf, rt, alt)
  ELSE PartLoop2(c.P, F, c.rec, rt, alt)

UpdatePart(P, r, q, inode, F, rt, alt) ==
  IF F = << >> THEN PartDp(P, r, q, inode, rt, alt) ELSE PartBuilt(UpdateInode(P, r, q, inode), F, rt, alt)

-----------------------------------------------------------------------------
(***************************************************************************)
(* Finding the part to rebuild                                             *)
(***************************************************************************)

(* _next_block: the radix node `width` levels below q along idx, or NULL.  *)
NextBlock(r, q, idx, width) ==
  IF q \o BitsOf(idx, width) \in DOMAIN r THEN q \o BitsOf(idx, width) ELSE NULL

(* _descend_and_update: follow the prefix down the old index and the trie  *)
(* together, a frame per level, while the route lies below the current     *)
(* node and both have a node there; then _update_part.  The descent starts *)
(* at depth S >= 1, so its width is always K.                              *)
RECURSIVE Descend(_, _, _, _, _, _, _, _, _)
Descend(P, r, q, inode, F, prefix, len, depth, rt) ==
  LET idx == Index(prefix, depth, K)
      nd  == P.nodes[inode]
      nq  == NextBlock(r, q, idx, K)
  IN IF len <= depth + K \/ inode < 0 \/ nq = NULL
       THEN UpdatePart(P, r, q, inode, F, rt, FALSE)
       ELSE Descend(P, r, nq, IF idx \in nd.vector THEN ChildAt(nd, idx) ELSE -1,
                    Append(F, [inode |-> inode, idx |-> idx]), prefix, len, depth + K, rt)

(* Mutant: the fill loop stops one entry short.                           *)
FillOneShort(P, alt, base, cnt, nh) ==
  LET tbl == IF alt THEN "altdir" ELSE "dir"
  IN [P EXCEPT ![tbl] = [j \in DirIdx |-> IF base <= j /\ j < base + cnt - 1 THEN Leaf(nh)
                                          ELSE P[tbl][j]]]

(* The dir (or altdir) entries base .. base+cnt-1 become the leaf nh.  In  *)
(* dir the code then cleans the entry it has just overwritten: the clean   *)
(* of a leaf does nothing, so the old subtree is not freed.                *)
Fill(P, alt, base, cnt, nh) ==
  LET tbl == IF alt THEN "altdir" ELSE "dir"
  IN [P EXCEPT ![tbl] = [j \in DirIdx |-> IF base <= j /\ j < base + cnt THEN Leaf(nh)
                                          ELSE P[tbl][j]]]

(* The first dir entry of the 2^(S-d) entries a d-bit prefix spans.        *)
DirBase(prefix, d) == (Index(prefix, 0, S) \div 2^(S - d)) * 2^(S - d)

(***************************************************************************)
(* _update_dp2: below a route shorter than S, rebuild every dir entry:     *)
(* recurse to both children (the left result is discarded), filling the    *)
(* entries of a missing child with EXT_NH; at depth S rebuild the entry's  *)
(* node with _update_part.  Going right sets the prefix bit; going left    *)
(* keeps the prefix as it is.                                              *)
(***************************************************************************)
RECURSIVE Dp2(_, _, _, _, _, _, _)
Dp2(P, r, q, alt, prefix, len, depth) ==
  LET idx  == Index(prefix, 0, S)
      e    == P.dir[idx]
      base == DirBase(prefix, depth)
      half == 2^(S - depth - 1)
      pl   == IF R!Child(q, 0) \in DOMAIN r
                THEN Dp2(P, r, R!Child(q, 0), alt, prefix, len, depth + 1).P
                ELSE Fill(P, alt, base, half, ExtNh(r, q))
      rp   == IF R!Bit(prefix, depth) = 1 THEN prefix ELSE prefix + 2^(W - depth - 1)
  IN IF depth = S
       THEN UpdatePart(P, r, q, IF IsLeaf(e) THEN -1 ELSE e, << >>,
                       <<IF alt THEN "altdir" ELSE "dir", idx>>, alt)
     ELSE IF R!Child(q, 1) \in DOMAIN r
       THEN Dp2(pl, r, R!Child(q, 1), alt, rp, len, depth + 1)
     ELSE Done(Fill(pl, alt, base + half, half, ExtNh(r, q)))

(* _update_dp1: descend the trie to the route (depth len <= S), then       *)
(* _update_dp2; a missing node on the way fills the route's dir entries.   *)
RECURSIVE Dp1(_, _, _, _, _, _, _)
Dp1(P, r, q, alt, prefix, len, depth) ==
  LET c == R!Child(q, R!Bit(prefix, depth))
  IN IF depth = len THEN Dp2(P, r, q, alt, prefix, len, depth)
     ELSE IF c \in DOMAIN r THEN Dp1(P, r, c, alt, prefix, len, depth + 1)
     ELSE Done(Fill(P, alt, DirBase(prefix, len), 2^(S - len), ExtNh(r, q)))

(* Mutant: a root replaced by a leaf is cleaned but its block not freed.  *)
ReclaimDirKeepsRoot(P, base, cnt) ==
  FoldLeft(LAMBDA acc, i :
             LET nw == acc.dir[base + i]
                 od == acc.altdir[base + i]
             IN IF nw = od \/ IsLeaf(od) THEN acc
                ELSE IF IsLeaf(nw) THEN CleanSubtree(acc, od)
                ELSE CleanRoot(acc, nw, od),
           P, [k \in 1 .. cnt |-> k - 1])

(* The reclaim after an altdir rebuild: dir is the new table, altdir the   *)
(* old one; each changed entry's old node is freed or cleaned.             *)
ReclaimDir(P, base, cnt) ==
  FoldLeft(LAMBDA acc, i :
             LET nw == acc.dir[base + i]
                 od == acc.altdir[base + i]
             IN IF nw = od \/ IsLeaf(od) THEN acc
                ELSE IF IsLeaf(nw) THEN FreeNode(CleanSubtree(acc, od), od)
                ELSE CleanRoot(acc, nw, od),
           P, [k \in 1 .. cnt |-> k - 1])

(***************************************************************************)
(* _update_subtree(prefix, depth), the rebuild after a route of length     *)
(* depth changed, up to its _clear_mark (done by the caller on success):   *)
(*  - depth < S: copy dir to altdir, rebuild the route's entries in altdir *)
(*    (_update_dp1 with alt), swap the tables, reclaim the replaced nodes; *)
(*    the swap comes before the result is tested;                          *)
(*  - depth = S: rebuild the route's entry in place (_update_dp1);         *)
(*  - depth > S: _descend_and_update from the entry's node.                *)
(***************************************************************************)
DirRebuilt(d, prefix, depth) ==
  IF depth = S THEN d
  ELSE [ret |-> d.ret,
        P   |-> ReclaimDir([d.P EXCEPT !.dir = d.P.altdir, !.altdir = d.P.dir],
                           DirBase(prefix, depth), 2^(S - depth))]

UpdateSubtree(P, r, prefix, depth) ==
  LET idx == Index(prefix, 0, S)
      e   == P.dir[idx]
  IN IF depth <= S
       THEN DirRebuilt(Dp1(IF depth < S THEN [P EXCEPT !.altdir = P.dir] ELSE P, r, << >>, depth < S,
                           prefix, depth, 0), prefix, depth)
     ELSE Descend(P, r, NextBlock(r, << >>, idx, S), IF IsLeaf(e) THEN -1 ELSE e, << >>,
                  prefix, depth, S, <<"dir", idx>>)

-----------------------------------------------------------------------------
(***************************************************************************)
(* The public operations: the trie and FIB steps of module Rib, with the   *)
(* rebuild, publish and reclaim of _update_subtree in the same call.       *)
(***************************************************************************)

(* Memory outside the blocks the arenas hand out is dead data; it is reset *)
(* so that it does not tell states apart.  buddy_free2 writes its links    *)
(* into the arena's own array, never into nodes or leaves, so a freed      *)
(* block keeps its contents until it is handed out again: with KeepDead,   *)
(* for a concurrent reader, nothing is reset.                              *)
Tidy(P) ==
  IF KeepDead THEN P ELSE
  LET hn == HeldSlots(P.cn)
      hl == HeldSlots(P.cl)
  IN
  [P EXCEPT !.nodes  = [j \in NodeIdx |-> IF j \in hn THEN P.nodes[j] ELSE Junk],
            !.leaves = [j \in LeafIdx |-> IF j \in hl THEN P.leaves[j] ELSE 0]]

Commit(P) ==
  /\ dir' = P.dir
  /\ nodes' = P.nodes
  /\ leaves' = P.leaves
  /\ cn' = P.cn
  /\ cl' = P.cl

Index_ == <<dir, nodes, leaves, cn, cl>>

(* _update_subtree on the marked trie r2, then _clear_mark on success.     *)
Rebuilt(r2, t, u) ==
  [ok |-> u.ret >= 0, P |-> Tidy(u.P), radix |-> IF u.ret >= 0 THEN R!ClearMark(r2, t) ELSE r2]

Rebuild(r2, t, prefix, len) == Rebuilt(r2, t, UpdateSubtree(Mem, r2, prefix, len))

(* The route bound: a call that would create a route beyond MaxRoutes is  *)
(* not issued.                                                             *)
NumRoutes == Cardinality({q \in DOMAIN radix : radix[q].valid})

(* The prefixes callers pass for a length.                                 *)
PrefixesOf(len) ==
  IF Normalised THEN {a \in R!Prefixes : a % 2^(W - len) = 0} ELSE R!Prefixes

(* A rebuild's outcome u committed, the FIB becoming fok on success and     *)
(* ffail on failure.                                                       *)
Applied(u, fok, ffail) ==
  /\ radix' = u.radix
  /\ fib' = IF u.ok THEN fok ELSE ffail
  /\ Commit(u.P)

(* poptrie_route_add.                                                      *)
PoptrieRouteAdd(prefix, len, h) ==
  LET f  == R!FibRef(fib, h)
      t  == R!PathOf(prefix, len)
      r1 == R!CreatePath(radix, t)
  IN /\ R!RefsBelowBound /\ (NumRoutes < MaxRoutes \/ r1[t].valid)
     /\ IF r1[t].valid
          THEN /\ radix' = r1
               /\ fib' = R!FibDeref(f.fib, h)
               /\ UNCHANGED Index_
          ELSE Applied(Rebuild(R!Insert(r1, t, f.n % R!U16), t, prefix, len), f.fib, R!FibDeref(f.fib, h))

(* poptrie_route_change: a real change rebuilds; its result is returned    *)
(* after the old nexthop's refs--.                                         *)
PoptrieRouteChange(prefix, len, h) ==
  LET f  == R!FibRef(fib, h)
      nh == f.n % R!U16
      t  == R!PathOf(prefix, len)
  IN /\ R!RefsBelowBound
     /\ IF ~R!Present(radix, t)
          THEN /\ fib' = f.fib
               /\ UNCHANGED <<radix, Index_>>
        ELSE IF radix[t].nexthop # nh
          THEN LET fb == R!DecRef(f.fib, radix[t].nexthop)
               IN Applied(Rebuild(R!Replace(radix, t, nh), t, prefix, len), fb, fb)
        ELSE /\ fib' = R!DecRef(f.fib, nh)
             /\ UNCHANGED <<radix, Index_>>

(* poptrie_route_update: change semantics on a valid node, insert          *)
(* semantics otherwise; the reference is kept even on failure.             *)
PoptrieRouteUpdate(prefix, len, h) ==
  LET f  == R!FibRef(fib, h)
      nh == f.n % R!U16
      t  == R!PathOf(prefix, len)
      r1 == R!CreatePath(radix, t)
  IN /\ R!RefsBelowBound /\ (NumRoutes < MaxRoutes \/ r1[t].valid)
     /\ IF r1[t].valid /\ r1[t].nexthop # nh
          THEN LET fb == R!DecRef(f.fib, r1[t].nexthop)
               IN Applied(Rebuild(R!Replace(r1, t, nh), t, prefix, len), fb, fb)
        ELSE IF r1[t].valid
          THEN /\ radix' = r1
               /\ fib' = R!DecRef(f.fib, nh)
               /\ UNCHANGED Index_
        ELSE Applied(Rebuild(R!Insert(r1, t, nh), t, prefix, len), f.fib, f.fib)

(* The end of a delete: refs-- and the pruning unwind only on success.   *)
DelApplied(u, t) ==
  /\ radix' = IF u.ok THEN R!Prune(u.radix, t) ELSE u.radix
  /\ fib' = IF u.ok THEN R!DecRef(fib, radix[t].nexthop) ELSE fib
  /\ Commit(u.P)

(* poptrie_route_del: the del propagate, invalidate, rebuild; refs-- and   *)
(* the pruning unwind only when the rebuild succeeded.                     *)
PoptrieRouteDel(prefix, len) ==
  LET t  == R!PathOf(prefix, len)
      r1 == R!DelPropagate(radix, t, t, R!NearestValidAbove(radix, t))
  IN IF ~R!Present(radix, t)
       THEN UNCHANGED vars
       ELSE DelApplied(Rebuild([r1 EXCEPT ![t].valid = FALSE, ![t].nexthop = 0], t, prefix, len), t)

(* Each operation is one action over all its inputs: a call with any      *)
(* length, prefix and handle.                                              *)
RouteAdd    == "add" \in Ops /\ \E len \in Lens, h \in Handles :
                 \E prefix \in PrefixesOf(len) : PoptrieRouteAdd(prefix, len, h)
RouteChange == "change" \in Ops /\ \E len \in Lens, h \in Handles :
                 \E prefix \in PrefixesOf(len) : PoptrieRouteChange(prefix, len, h)
RouteUpdate == "update" \in Ops /\ \E len \in Lens, h \in Handles :
                 \E prefix \in PrefixesOf(len) : PoptrieRouteUpdate(prefix, len, h)
RouteDel    == "del" \in Ops /\ \E len \in Lens :
                 \E prefix \in PrefixesOf(len) : PoptrieRouteDel(prefix, len)

Next == RouteAdd \/ RouteChange \/ RouteUpdate \/ RouteDel

Spec == Init /\ [][Next]_vars

-----------------------------------------------------------------------------
(***************************************************************************)
(* Properties                                                              *)
(***************************************************************************)

TypeOK ==
  /\ R!TypeOK
  /\ dir \in [DirIdx -> NodeIdx \cup {Leaf(i) : i \in R!FibIdx}]
  /\ nodes \in [NodeIdx -> [vector : SUBSET Slots, leafvec : SUBSET Slots,
                            base0 : LeafIdx \cup {-1}, base1 : NodeIdx \cup {-1}]]
  /\ leaves \in [LeafIdx -> R!FibIdx]

(* Lookup correctness (spec 8): after every sequence of route operations,  *)
(* poptrie_lookup, which reads only the compressed index, returns for      *)
(* every address the same FIB entry as poptrie_rib_lookup, which walks the *)
(* trie.                                                                   *)
LookupAgreesWithRib ==
  \A addr \in R!Prefixes :
    LET i == Lookup(Mem, addr) IN i \in R!FibIdx /\ fib.entries[i] = R!PoptrieRibLookup(addr)

(* Reported success (spec 6): once no trie node is left marked dirty,     *)
(* which _clear_mark does only after _update_subtree returned 0, the index *)
(* agrees with the trie for every address.  It is about a rebuild step     *)
(* whose failure is dropped on the way up (_update_dp2 does not look at    *)
(* its left recursion's result), so the call returns success over a stale  *)
(* part of dir.                                                            *)
CleanIndexAgrees ==
  (\A q \in DOMAIN radix : ~radix[q].mark) => LookupAgreesWithRib

(* A call whose rebuild failed: the trie was clean before it and is left  *)
(* marked after it, since _clear_mark runs only when _update_subtree      *)
(* returned 0.                                                             *)
Marked(r) == \E q \in DOMAIN r : r[q].mark
FailedCall == ~Marked(radix) /\ Marked(radix')

(* Failure policy (spec 4.4): a rebuild that fails on an allocation has   *)
(* not touched the live dir or root pointers, so no partial mutation is   *)
(* published and poptrie_lookup answers every address as before the call. *)
(* It is about _update_subtree for a prefix shorter than S, which swaps   *)
(* dir and altdir before it tests _update_dp1's result.                   *)
FailedRebuildPublishesNothing ==
  [][FailedCall => \A addr \in R!Prefixes : Lookup(Mem, addr)' = Lookup(Mem, addr)]_vars

(* The nodes the published index reaches: the dir roots and, below each   *)
(* node, the chunk of |vector| children at base1.                           *)
Children(n) ==
  IF nodes[n].vector = {} THEN {}
  ELSE nodes[n].base1 .. (nodes[n].base1 + Cardinality(nodes[n].vector) - 1)

RECURSIVE Subtree(_, _)
Subtree(n, fuel) ==
  {n} \cup (IF fuel = 0 THEN {} ELSE UNION {Subtree(c, fuel - 1) : c \in Children(n) \cap NodeIdx})

RootSlots == {i \in DirIdx : ~IsLeaf(dir[i])}
Live      == UNION {Subtree(dir[i], W) : i \in RootSlots}

(* Who owns each block: a dir slot its root, a node its child chunk or    *)
(* its leaf chunk.                                                          *)
NodeOwners == {<<"dir", i>> : i \in RootSlots} \cup {<<"node", n>> : n \in {m \in Live : nodes[m].vector # {}}}
LeafOwners == {n \in Live : nodes[n].leafvec # {}}
NodeStart(o) == IF o[1] = "dir" THEN dir[o[2]] ELSE nodes[o[2]].base1
NodeCount(o) == IF o[1] = "dir" THEN 1 ELSE Cardinality(nodes[o[2]].vector)
BigEnough(a, x, n) == \E h \in a.held : h[1] = x /\ n <= 2^h[2]

(* Block ownership of the rebuild and reclaim (_update_part*, the          *)
(* _update_clean_* functions, _update_subtree's frees): after every call  *)
(* the blocks each arena has handed out are exactly the blocks the         *)
(* published index reaches, each with one owner and large enough for what *)
(* it holds; no block is leaked, shared, or still read after buddy_free2, *)
(* and nothing is freed that is not held.                                  *)
IndexBlocksExact ==
  /\ ~cn.bad /\ ~cl.bad
  /\ {NodeStart(o) : o \in NodeOwners} = {h[1] : h \in cn.held}
  /\ Cardinality(NodeOwners) = Cardinality(cn.held)
  /\ \A o \in NodeOwners : BigEnough(cn, NodeStart(o), NodeCount(o))
  /\ {nodes[n].base0 : n \in LeafOwners} = {h[1] : h \in cl.held}
  /\ Cardinality(LeafOwners) = Cardinality(cl.held)
  /\ \A n \in LeafOwners : BigEnough(cl, nodes[n].base0, Cardinality(nodes[n].leafvec))

====
