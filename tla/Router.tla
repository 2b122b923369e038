------------------------------- MODULE Router -------------------------------
(***************************************************************************)
(* The Router of src/libsponge/router.{hh,cc}: routes are kept in one hash *)
(* table per prefix length (_new_routing_tables), keyed by the route       *)
(* prefix as given; new_find probes the tables from the longest length     *)
(* down with destination & mask; route() drains every interface's queue of *)
(* received datagrams through route_one_datagram.                          *)
(*                                                                         *)
(* _interfaces is the sequence `queues`: add_interface appends one, and   *)
(* interface number i is queues[i + 1].                                    *)
(*                                                                         *)
(* A datagram is its destination and TTL; what send_datagram puts on the   *)
(* wire is recorded as a record in `sent`, the output of the last route()  *)
(* call.  Addresses are W-bit numbers (32 in the code).                    *)
(***************************************************************************)
EXTENDS Integers, Sequences, FiniteSets, SequencesExt, Bitwise

CONSTANTS
  W,           \* address width in bits
  MaxIfaces,   \* bound on the number of add_interface calls
  Hops,        \* next-hop addresses a route may name
  NoHop,       \* an empty optional<Address>: the network is attached
  NoEntry,     \* a key absent from an unordered_map
  MaxTTL,      \* largest TTL a received datagram carries
  MaxQueue,    \* bound on each interface's queue of received datagrams
  MaxRoutes,   \* bound on the number of keys stored over all tables
  Normalised   \* whether callers pass route prefixes with zero host bits

ASSUME W \in Nat \ {0} /\ MaxIfaces \in Nat /\ MaxTTL \in Nat /\ MaxQueue \in Nat /\ MaxRoutes \in Nat
ASSUME Normalised \in BOOLEAN /\ NoHop \notin Hops

Addrs == 0 .. (2^W - 1)
Lens  == 0 .. W     \* the 33 tables, one per prefix_length
TTLs  == 0 .. MaxTTL
Ifaces == 0 .. (MaxIfaces - 1)

(* numeric_limits<int>::min() >> (prefix_length - 1): the arithmetic shift *)
(* of INT_MIN copies the sign bit, leaving the top prefix_length bits set. *)
IntMinAsr(n) == 2^(W - 1) \div 2^n + (2^W - 2^(W - n))

(* Mutant: the shift count is prefix_length, one bit too many.           *)
PrefixMaskOffByOne(len) == IF len = 0 THEN 0 ELSE IntMinAsr(len)

(* The _prefix_mask add_route stores.                                     *)
PrefixMask(len) == IF len = 0 THEN 0 ELSE IntMinAsr(len - 1)

RouteEntry(prefix, len, hop, iface) ==
  [prefix |-> prefix, len |-> len, hop |-> hop, iface |-> iface, mask |-> PrefixMask(len)]

(* The route prefixes callers pass for a given length.                     *)
RoutePrefixes(len) ==
  IF Normalised THEN {a \in Addrs : a & PrefixMask(len) = a} ELSE Addrs

VARIABLES tables, queues, sent
vars == <<tables, queues, sent>>

Init ==
  /\ tables = [len \in Lens |-> [k \in Addrs |-> NoEntry]]
  /\ queues = << >>
  /\ sent   = << >>

Keys(t) == {k \in Addrs : t[k] # NoEntry}
NumRoutes == Cardinality(UNION {{<<len, k>> : k \in Keys(tables[len])} : len \in Lens})

(* Router::add_route: _new_routing_tables[len][prefix] = RouteEntry(...), *)
(* replacing an entry already stored under that key.                       *)
AddRoute(prefix, len, hop, iface) ==
  /\ tables[len][prefix] # NoEntry \/ NumRoutes < MaxRoutes
  /\ tables' = [tables EXCEPT ![len][prefix] = RouteEntry(prefix, len, hop, iface)]
  /\ UNCHANGED <<queues, sent>>

(* Router::add_interface: push_back onto _interfaces; the new index is   *)
(* the old size.                                                           *)
AddInterface ==
  /\ Len(queues) < MaxIfaces
  /\ queues' = Append(queues, << >>)
  /\ UNCHANGED <<tables, sent>>

(* AsyncNetworkInterface::recv_frame: an IPv4 datagram the interface       *)
(* parsed is pushed onto its queue.                                        *)
RecvDatagram(i, dst, ttl) ==
  /\ Len(queues[i + 1]) < MaxQueue
  /\ queues' = [queues EXCEPT ![i + 1] = Append(@, [dst |-> dst, ttl |-> ttl])]
  /\ UNCHANGED <<tables, sent>>

(* Router::new_find: from length i down, skip empty tables, take the mask  *)
(* of the table's first entry and look the masked destination up.          *)
RECURSIVE NewFindFrom(_, _)
NewFindFrom(dst, i) ==
  IF i < 0 THEN NoEntry
  ELSE IF Keys(tables[i]) = {} THEN NewFindFrom(dst, i - 1)
  ELSE LET mask == tables[i][CHOOSE k \in Keys(tables[i]) : TRUE].mask
       IN IF tables[i][dst & mask] # NoEntry THEN tables[i][dst & mask]
          ELSE NewFindFrom(dst, i - 1)

NewFind(dst) == NewFindFrom(dst, W)

(* What send_datagram(dgram, next_hop) transmits.                          *)
Frame(e, d) ==
  [iface |-> e.iface, to |-> IF e.hop = NoHop THEN d.dst ELSE e.hop,
   dst |-> d.dst, ttl |-> d.ttl - 1]

(* Mutant: the TTL test is dropped.                                       *)
RouteOneDatagramNoTTLCheck(d) ==
  LET e == NewFind(d.dst)
  IN IF e = NoEntry THEN << >> ELSE << Frame(e, d) >>

(* Router::route_one_datagram: drop on TTL <= 1 or no route; otherwise     *)
(* decrement the TTL and send to the next hop, or to the destination when  *)
(* the route has none.  The frames it sends, as a sequence.                *)
RouteOneDatagram(d) ==
  IF d.ttl <= 1 THEN << >>
  ELSE LET e == NewFind(d.dst)
       IN IF e = NoEntry THEN << >> ELSE << Frame(e, d) >>

(* Router::route: every interface in index order, every queued datagram in *)
(* arrival order, each queue emptied.                                      *)
Received == FlattenSeq(queues)

Route ==
  LET ins == Received
  IN /\ sent'   = FlattenSeq([k \in DOMAIN ins |-> RouteOneDatagram(ins[k])])
     /\ queues' = [k \in DOMAIN queues |-> << >>]
     /\ UNCHANGED tables

(* Callers name an interface add_interface has returned: add_route does   *)
(* not check it, and route_one_datagram indexes _interfaces with it.      *)
Added == 0 .. (Len(queues) - 1)

Next ==
  \/ \E len \in Lens, hop \in Hops \cup {NoHop}, iface \in Added :
       \E prefix \in RoutePrefixes(len) : AddRoute(prefix, len, hop, iface)
  \/ AddInterface
  \/ \E i \in Added, dst \in Addrs, ttl \in TTLs : RecvDatagram(i, dst, ttl)
  \/ Route

Spec == Init /\ [][Next]_vars

-----------------------------------------------------------------------------
(***************************************************************************)
(* Properties                                                              *)
(***************************************************************************)

Datagrams == [dst : Addrs, ttl : TTLs]
Frames    == [iface : Ifaces, to : Hops \cup Addrs, dst : Addrs, ttl : TTLs]

TypeOK ==
  /\ tables \in [Lens -> [Addrs -> {NoEntry} \cup
                       [prefix : Addrs, len : Lens, hop : Hops \cup {NoHop},
                        iface : Ifaces, mask : Addrs]]]
  /\ queues \in Seq(Seq(Datagrams)) /\ Len(queues) <= MaxIfaces
  /\ sent \in Seq(Frames)

(* The reference match of the lab's add_route contract: the top           *)
(* prefix_length bits of the destination equal those of route_prefix.     *)
Covers(e, dst) == dst \div 2^(W - e.len) = e.prefix \div 2^(W - e.len)

Stored == {tables[len][k] : len \in Lens, k \in Addrs} \ {NoEntry}

LongestMatches(dst) ==
  LET m == {e \in Stored : Covers(e, dst)}
  IN {e \in m : \A o \in m : o.len <= e.len}

(* The frames a datagram may produce: none when its TTL has run out or no  *)
(* route covers it, else one through a longest covering route.             *)
Allowed(d) ==
  IF d.ttl <= 1 \/ LongestMatches(d.dst) = {} THEN {<< >>}
  ELSE {<< Frame(e, d) >> : e \in LongestMatches(d.dst)}

RECURSIVE Explains(_, _)
Explains(ins, outs) ==
  IF ins = << >> THEN outs = << >>
  ELSE \E o \in Allowed(Head(ins)) :
         /\ Len(o) <= Len(outs)
         /\ SubSeq(outs, 1, Len(o)) = o
         /\ Explains(Tail(ins), SubSeq(outs, Len(o) + 1, Len(outs)))

(* Longest-prefix match (spec 8) for the Router: every route() call sends  *)
(* each queued datagram, in order, through a longest route covering its    *)
(* destination, with its TTL decremented, and drops exactly the ones whose *)
(* TTL has run out or that no route covers; new_find's masked hash probe   *)
(* must agree with the bitwise reference.                                  *)
RouteFollowsLongestMatch ==
  [][Route => Explains(Received, sent')]_vars

=============================================================================
