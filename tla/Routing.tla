------------------------------- MODULE Routing -------------------------------
(***************************************************************************)
(* The routing tables of the mesh (networklayer.c): every beacon a node    *)
(* sends carries its table; a node that hears one learns its sender and    *)
(* the sender's neighbours.  A beacon waits in tx until it is transmitted, *)
(* it may be lost or fall below the signal threshold, and nodes go down    *)
(* and come back with no table.                                            *)
(*                                                                         *)
(* A table is a function from destinations.  Its order decides only which  *)
(* destinations still fit into a full table; here any that fit may be      *)
(* taken.                                                                  *)
(***************************************************************************)
EXTENDS Naturals, FiniteSets

CONSTANTS
    Node,
    Links,        \* <<sender, hearer>> pairs within radio range
    MaxEntries,   \* MAX_ENTRIES
    Timeout,      \* ROUTE_TIMEOUT_COUNT
    MaxOutages    \* bound of the model: nodes that go down

ASSUME RoutingAssumption ==
    /\ IsFiniteSet(Node)
    /\ Links \subseteq Node \X Node
    /\ MaxEntries \in Nat \ {0}
    /\ Timeout \in Nat \ {0}
    /\ MaxOutages \in Nat

VARIABLES
    table,     \* routing_table of each node
    queued,    \* the beacon in tx of each node: destinations and hops
    up,        \* the nodes in service
    outages

vars == <<table, queued, up, outages>>

NoRoute == [next |-> "none", hop |-> 0, age |-> 0]
RouteRecord == [next : Node, hop : 1 .. 2, age : 0 .. Timeout]
Table == [Node -> RouteRecord \cup {NoRoute}]

EmptyTable == [d \in Node |-> NoRoute]
Known(t) == {d \in Node : t[d] # NoRoute}
Room(t)  == Cardinality(Known(t)) < MaxEntries

\* What a beacon carries of a table: the hops of each destination, 0 for none.
Hops(t) == [d \in Node |-> t[d].hop]
Nothing == [d \in Node |-> 9]   \* no beacon is queued

TypeOK ==
    /\ table \in [Node -> Table]
    /\ \A n \in Node : /\ table[n][n] = NoRoute
                       /\ Cardinality(Known(table[n])) <= MaxEntries
    /\ queued \in [Node -> [Node -> 0 .. 2] \cup {Nothing}]
    /\ up \subseteq Node
    /\ outages \in 0 .. MaxOutages

Init ==
    /\ table = [n \in Node |-> EmptyTable]
    /\ queued = [n \in Node |-> Nothing]
    /\ up = Node
    /\ outages = 0

\* age_routing_table
Aged_NeighboursOnly(t) == [d \in Node |->   \* mutated: what lies two hops away does not expire
    IF t[d].hop = 1 /\ t[d].age = Timeout THEN NoRoute
    ELSE IF t[d] # NoRoute /\ t[d].age < Timeout THEN [t[d] EXCEPT !.age = @ + 1] ELSE t[d]]
Aged(t) == [d \in Node |->
    IF t[d] # NoRoute /\ t[d].age < Timeout THEN [t[d] EXCEPT !.age = @ + 1] ELSE NoRoute]

(***************************************************************************)
(* process_received_beacon, at node n with table t: the sender s is a      *)
(* neighbour; its routes may be shorter; its neighbours are new routes, as *)
(* far as they fit.                                                        *)
(***************************************************************************)
Direct(t, s) ==
    IF t[s] # NoRoute \/ Room(t) THEN [t EXCEPT ![s] = [next |-> s, hop |-> 1, age |-> 0]]
                                 ELSE t

Shorter_Refreshes(n, t, s, hops) == [d \in Node |->   \* mutated: hearsay keeps a route young
    IF d # n /\ t[d] # NoRoute /\ hops[d] # 0 THEN [t[d] EXCEPT !.age = 0] ELSE t[d]]
Shorter(n, t, s, hops) == [d \in Node |->
    IF d # n /\ t[d] # NoRoute /\ hops[d] # 0 /\ hops[d] + 1 < t[d].hop
    THEN [t[d] EXCEPT !.hop = hops[d] + 1, !.next = s] ELSE t[d]]

Learnable(n, t, hops) == {d \in Node \ {n} : t[d] = NoRoute /\ hops[d] = 1}

Learned(t, s, new) == [d \in Node |->
    IF d \in new THEN [next |-> s, hop |-> 2, age |-> 1] ELSE t[d]]

\* The table of m, when it has heard the beacon of n and learns nothing new.
Heard(m, n) == Shorter(m, Direct(table[m], n), n, queued[n])

\* As many of the learnable destinations as fit.
Fits_NoLimit(t, new, learnable) ==   \* mutated: a full table takes more
    new = learnable
Fits(t, new, learnable) ==
    /\ new \subseteq learnable
    /\ Cardinality(Known(t)) + Cardinality(new) <= MaxEntries
    /\ new = learnable \/ Cardinality(Known(t)) + Cardinality(new) = MaxEntries

\* network_outgoing ages the table and attaches it.
Beacon(n) ==
    /\ n \in up
    /\ queued[n] = Nothing
    /\ table' = [table EXCEPT ![n] = Aged(table[n])]
    /\ queued' = [queued EXCEPT ![n] = Hops(Aged(table[n]))]
    /\ UNCHANGED <<up, outages>>

\* The beacon is transmitted; some of the nodes in range hear it.
Transmit(n) ==
    /\ n \in up
    /\ queued[n] # Nothing
    /\ queued' = [queued EXCEPT ![n] = Nothing]
    /\ \E by \in SUBSET {m \in up \ {n} : <<n, m>> \in Links} :
       \E new \in [by -> SUBSET {d \in Node : queued[n][d] = 1}] :
          /\ \A m \in by : Fits(Heard(m, n), new[m], Learnable(m, Heard(m, n), queued[n]))
          /\ table' = [m \in Node |-> IF m \in by THEN Learned(Heard(m, n), n, new[m])
                                               ELSE table[m]]
    /\ UNCHANGED <<up, outages>>

Down(n) ==
    /\ n \in up
    /\ outages < MaxOutages
    /\ outages' = outages + 1
    /\ up' = up \ {n}
    /\ table' = [table EXCEPT ![n] = EmptyTable]
    /\ queued' = [queued EXCEPT ![n] = Nothing]

Restart(n) ==
    /\ n \in Node \ up
    /\ up' = up \cup {n}
    /\ UNCHANGED <<table, queued, outages>>

Next == \E n \in Node : Beacon(n) \/ Transmit(n) \/ Down(n) \/ Restart(n)

Spec == Init /\ [][Next]_vars

\* Every node in service keeps sending beacons; nothing is promised of who hears
\* them, and a node that is down may stay so.
FairSpec == Spec /\ \A n \in Node : WF_vars(Beacon(n)) /\ WF_vars(Transmit(n))

(***************************************************************************)
(* Properties.                                                             *)
(***************************************************************************)

\* A route over two hops leads through a node that is itself in the table as a
\* neighbour, heard from later than the route was learned: also when the table
\* is full, when entries expire, and whatever order beacons come in.
RouteThroughNeighbour ==
    \A n, d \in Node : table[n][d].hop = 2 =>
        LET via == table[n][table[n][d].next]
        IN via.hop = 1 /\ via.age < table[n][d].age

\* A node that stays down is forgotten by every table and no beacon tells of it:
\* two nodes do not keep its memory alive by telling each other.
Forgotten(d) ==
    \A n \in Node : table[n][d] = NoRoute /\ queued[n][d] \in {0, 9}
DeadAreForgotten == \A d \in Node : d \notin up ~> d \in up \/ Forgotten(d)
=============================================================================
