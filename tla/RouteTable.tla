---------------------------- MODULE RouteTable ----------------------------
(***************************************************************************)
(* What the route table promises its caller (spec sections 6 and 8): a map *)
(* from prefixes to next-hop handles, changed by add / change / update /   *)
(* delete, and read by longest-prefix match.  A prefix is the sequence of  *)
(* its bits, most significant first.                                       *)
(***************************************************************************)
EXTENDS Integers, Sequences

CONSTANTS
  Routes,   \* the prefixes, as bit sequences
  Handles,  \* next-hop handles a caller may pass
  NoRoute   \* the handle lookup returns when no prefix matches

VARIABLE table

(* add_route: only onto a prefix that has no route (else DuplicateRoute).  *)
Add(r, h) ==
  /\ table[r] = NoRoute
  /\ table' = [table EXCEPT ![r] = h]

(* change_route: only a prefix that has a route (else NoSuchRoute).        *)
Change(r, h) ==
  /\ table[r] # NoRoute
  /\ table' = [table EXCEPT ![r] = h]

(* update_route: change if present, add otherwise.                         *)
Update(r, h) == table' = [table EXCEPT ![r] = h]

(* delete_route: only a prefix that has a route.                           *)
Delete(r) ==
  /\ table[r] # NoRoute
  /\ table' = [table EXCEPT ![r] = NoRoute]

Init == table = [r \in Routes |-> NoRoute]

Next ==
  \E r \in Routes :
    \/ \E h \in Handles : Add(r, h) \/ Change(r, h) \/ Update(r, h)
    \/ Delete(r)

Spec == Init /\ [][Next]_table

(* r matches the address a (a bit sequence at least as long as r).         *)
Matches(r, a) == Len(r) <= Len(a) /\ SubSeq(a, 1, Len(r)) = r

(* Longest-prefix match: the handle of the longest prefix with a route     *)
(* that matches a, or NoRoute.                                             *)
Lpm(t, a) ==
  LET m == {r \in DOMAIN t : t[r] # NoRoute /\ Matches(r, a)}
  IN IF m = {} THEN NoRoute
     ELSE t[CHOOSE r \in m : \A o \in m : Len(o) <= Len(r)]

=============================================================================
