--------------------------- MODULE PoptrieReader ---------------------------
(***************************************************************************)
(* poptrie_lookup (src/libsponge/poptrie4.cc) run by reader threads        *)
(* concurrently with the single writer of module Poptrie, as section 5 of  *)
(* the spec allows: lookups take no lock and the writer publishes each     *)
(* rebuild with one store (dir entry, root or base1).                      *)
(*                                                                         *)
(* A lookup is split into its loads from shared memory: the dir entry,     *)
(* each poptrie_node it walks, the leaf, and the FIB entry.  A writer      *)
(* action (a whole route operation, rebuild, publish and reclaim) may      *)
(* fall between any two of them.  Freed blocks keep their contents         *)
(* (KeepDead), since buddy_free2 never writes into nodes or leaves; a      *)
(* block is only overwritten once the allocator hands it out again.        *)
(*                                                                         *)
(* A node is read in two steps: the load of vector for the bit test, and  *)
(* then the fields of the branch taken (base1 and vector again, or base0   *)
(* and leafvec).  The loads of that second step are taken together.        *)
(***************************************************************************)
EXTENDS Poptrie

CONSTANTS
  Readers,   \* the threads calling poptrie_lookup
  Wild,      \* the outcome of a load outside nodes, leaves or the FIB
  DirReload  \* whether the build loads dir[idx] again after testing its bit

ASSUME DirReload \in BOOLEAN

VARIABLE rd
allvars == <<vars, rd>>

(* A reader between lookups.  seen collects every answer the route table  *)
(* gave for addr while the lookup was in progress; leafbit is the result   *)
(* of the test of dir[idx]'s top bit.                                      *)
Idle == [pc |-> "idle", addr |-> 0, at |-> 0, idx |-> 0, pos |-> 0, res |-> NULL, seen |-> {},
         leafbit |-> FALSE]

Busy == {"dir", "node", "fields", "leaf", "fib"}

ReaderInit ==
  /\ Init
  /\ rd = [r \in Readers |-> Idle]

(* dir[idx] & ((1 << 31) - 1): a leaf's FIB index; a node index is kept.  *)
Masked(e) == IF IsLeaf(e) THEN LeafVal(e) ELSE e

(* The entry e taken from dir[INDEX(addr, 0, S)] after the bit test gave   *)
(* leafbit: a FIB index, or the root of a node walk.  e differs from the   *)
(* tested entry only when the build reloads it and the writer stored in    *)
(* between; a leaf taken as a node base is out of nodes.                   *)
DirLoaded(x, leafbit, e) ==
  IF leafbit THEN [x EXCEPT !.pc = "fib", !.at = Masked(e)]
  ELSE [x EXCEPT !.pc = "node", !.at = e, !.idx = Index(x.addr, S, K), !.pos = S + K]

(* The test of dir[idx]'s top bit.  When the build keeps the loaded value, *)
(* the same load goes on; otherwise the entry is loaded again.             *)
DirTested(x, e) ==
  IF DirReload THEN [x EXCEPT !.pc = "dir", !.leafbit = IsLeaf(e)] ELSE DirLoaded(x, IsLeaf(e), e)

LookupDir(r) ==
  /\ rd[r].pc = "idle"
  /\ \E a \in R!Prefixes :
       rd' = [rd EXCEPT ![r] = DirTested([Idle EXCEPT !.addr = a, !.seen = {R!PoptrieRibLookup(a)}],
                                         dir[Index(a, 0, S)])]
  /\ UNCHANGED vars

(* The second load of dir[idx], in the return of the leaf branch or in     *)
(* base = poptrie->dir[idx].                                               *)
LookupDirReload(r) ==
  /\ rd[r].pc = "dir"
  /\ rd' = [rd EXCEPT ![r] = DirLoaded(rd[r], rd[r].leafbit, dir[Index(rd[r].addr, 0, S)])]
  /\ UNCHANGED vars

(* A load outside the arrays ends the lookup with Wild.                   *)
Stray(x) == [x EXCEPT !.pc = "done", !.res = Wild]

(* INDEX(addr, pos, K): the key sits in the top half of a u64, 2W bits    *)
(* here, shifted right by 2W - pos - K.  Past the key the bits are zero;   *)
(* once the count is negative the shift instruction of x86-64 and AArch64  *)
(* takes it modulo 2W, so the slot depends on pos modulo 2W only.          *)
ShiftIndex(a, s, n) == ((a * 2^W) \div 2^((2 * W - s - n) % (2 * W))) % 2^n

(* One turn of the for(;;) loop, which has no bound of its own.  First    *)
(* VEC_BT(nodes[inode].vector, idx); leafbit records a clear bit.           *)
NodeTested(x, nd) == [x EXCEPT !.pc = "fields", !.leafbit = x.idx \notin nd.vector]

NodeLoaded(x, nd) ==
  IF ~x.leafbit
    THEN [x EXCEPT !.pc = "node", !.at = ChildAt(nd, x.idx), !.idx = ShiftIndex(x.addr, x.pos, K),
                   !.pos = (x.pos + K) % (2 * W)]
    ELSE [x EXCEPT !.pc = "leaf", !.at = nd.base0 + PopLs(nd.leafvec, x.idx) - 1]

LookupNode(r) ==
  /\ rd[r].pc = "node"
  /\ LET x == rd[r]
     IN rd' = [rd EXCEPT ![r] = IF x.at \notin NodeIdx THEN Stray(x) ELSE NodeTested(x, nodes[x.at])]
  /\ UNCHANGED vars

LookupFields(r) ==
  /\ rd[r].pc = "fields"
  /\ rd' = [rd EXCEPT ![r] = NodeLoaded(rd[r], nodes[rd[r].at])]
  /\ UNCHANGED vars

LookupLeaf(r) ==
  /\ rd[r].pc = "leaf"
  /\ LET x == rd[r]
     IN rd' = [rd EXCEPT ![r] = IF x.at \notin LeafIdx THEN Stray(x)
                                ELSE [x EXCEPT !.pc = "fib", !.at = leaves[x.at]]]
  /\ UNCHANGED vars

(* fib.entries[n].entry, the value poptrie_lookup returns.                 *)
LookupFib(r) ==
  /\ rd[r].pc = "fib"
  /\ LET x == rd[r]
     IN rd' = [rd EXCEPT ![r] = IF x.at \notin R!FibIdx THEN Stray(x)
                                ELSE [x EXCEPT !.pc = "done", !.res = fib.entries[x.at]]]
  /\ UNCHANGED vars

LookupReturn(r) ==
  /\ rd[r].pc = "done"
  /\ rd' = [rd EXCEPT ![r] = Idle]
  /\ UNCHANGED vars

(* A route operation of the writer.  Every lookup in progress may return   *)
(* the answer the table gives after it.                                    *)
NewAnswer(a) == fib'.entries[R!RibLookup(radix', a)]

Write ==
  /\ Next
  /\ rd' = [r \in Readers |-> IF rd[r].pc \in Busy
                                THEN [rd[r] EXCEPT !.seen = @ \cup {NewAnswer(rd[r].addr)}]
                                ELSE rd[r]]

ReaderNext ==
  \/ Write
  \/ \E r \in Readers : LookupDir(r) \/ LookupDirReload(r) \/ LookupNode(r) \/ LookupFields(r) \/ LookupLeaf(r)
                        \/ LookupFib(r) \/ LookupReturn(r)

ReaderSpec == ReaderInit /\ [][ReaderNext]_allvars

(* The steps of a lookup in progress.  poptrie_lookup takes no lock and   *)
(* never waits, so a thread inside it stays runnable and the scheduler     *)
(* keeps running it: weak fairness for each reader.  The writer, and the   *)
(* calls that start a lookup, get none.                                    *)
ReaderStep(r) ==
  LookupDirReload(r) \/ LookupNode(r) \/ LookupFields(r) \/ LookupLeaf(r) \/ LookupFib(r)

ReaderFairness == \A r \in Readers : WF_allvars(ReaderStep(r))

ReaderFairSpec == ReaderSpec /\ ReaderFairness

-----------------------------------------------------------------------------
(* Lookups during updates (spec 5): a poptrie_lookup that overlaps route   *)
(* operations returns the next hop the table gave for its address at some  *)
(* moment of the lookup, the old or a new decision, never another value.   *)
(* It is about _update_subtree and the _update_clean_* walks freeing the   *)
(* old blocks right after the publish store, with no grace period for      *)
(* readers still inside them.                                              *)
ReaderSeesOldOrNew ==
  \A r \in Readers : rd[r].pc = "done" => rd[r].res \in rd[r].seen

=============================================================================
