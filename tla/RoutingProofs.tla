--------------------------- MODULE RoutingProofs ---------------------------
(***************************************************************************)
(* Theorems about Routing, for every mesh, table size and timeout.         *)
(***************************************************************************)
EXTENDS Routing, FiniteSetTheorems, TLAPS

(***************************************************************************)
(* Lemmas about tables.                                                    *)
(***************************************************************************)
Neighbour(s) == [next |-> s, hop |-> 1, age |-> 0]

\* Every route over two hops of t leads through a younger neighbour.
Through(t) ==
    \A d \in Node : t[d].hop = 2 =>
        t[t[d].next].hop = 1 /\ t[t[d].next].age < t[d].age

\* What an entry of a table is.
LEMMA RouteFacts ==
    /\ \A r \in RouteRecord : r # NoRoute /\ r.next \in Node /\ r.hop \in 1 .. 2
                              /\ r.age \in 0 .. Timeout
    /\ NoRoute.hop = 0
    /\ \A s \in Node : Neighbour(s) \in RouteRecord
    /\ \A s \in Node : [next |-> s, hop |-> 2, age |-> 1] \in RouteRecord
  BY RoutingAssumption DEF RouteRecord, NoRoute, Neighbour

\* The entries of a table can be counted.
LEMMA KnownFinite ==
    ASSUME NEW t
    PROVE  IsFiniteSet(Known(t)) /\ Cardinality(Known(t)) \in Nat
  BY RoutingAssumption, FS_Subset, FS_CardinalityType DEF Known

\* Ageing keeps a table a table and removes a neighbour only after every route
\* that leads through it.
LEMMA AgedTable ==
    ASSUME NEW t \in Table, Through(t)
    PROVE  Aged(t) \in Table /\ Through(Aged(t)) /\ Known(Aged(t)) \subseteq Known(t)
<1>1. ASSUME NEW d \in Node, t[d] # NoRoute, t[d].age < Timeout
      PROVE  /\ Aged(t)[d] = [t[d] EXCEPT !.age = @ + 1]
             /\ Aged(t)[d] \in RouteRecord
             /\ Aged(t)[d].next = t[d].next /\ Aged(t)[d].hop = t[d].hop
             /\ Aged(t)[d].age = t[d].age + 1
  <2>1. t[d] \in RouteRecord /\ t[d].age \in Nat
    BY <1>1 DEF Table, RouteRecord
  <2>2. Aged(t)[d] = [t[d] EXCEPT !.age = @ + 1]
    BY <1>1 DEF Aged
  <2>3. QED BY <1>1, <2>1, <2>2, RoutingAssumption DEF RouteRecord
<1>2. ASSUME NEW d \in Node, ~ (t[d] # NoRoute /\ t[d].age < Timeout)
      PROVE  Aged(t)[d] = NoRoute
  BY <1>2 DEF Aged
<1>3. Aged(t) \in Table
  BY <1>1, <1>2 DEF Table, Aged
<1>4. Known(Aged(t)) \subseteq Known(t)
  BY <1>2 DEF Known
<1>5. Through(Aged(t))
  <2>1. SUFFICES ASSUME NEW d \in Node, Aged(t)[d].hop = 2
                 PROVE  /\ Aged(t)[Aged(t)[d].next].hop = 1
                        /\ Aged(t)[Aged(t)[d].next].age < Aged(t)[d].age
    BY DEF Through
  <2>2. t[d] # NoRoute /\ t[d].age < Timeout
    BY <1>2, <2>1, RouteFacts
  <2>3. t[d] \in RouteRecord /\ t[d].next \in Node /\ t[d].age \in Nat
    BY <2>2, RouteFacts DEF Table
  <2>4. /\ Aged(t)[d].next = t[d].next /\ t[d].hop = 2 /\ Aged(t)[d].age = t[d].age + 1
    BY <1>1, <2>1, <2>2
  <2>5. t[t[d].next].hop = 1 /\ t[t[d].next].age < t[d].age
    BY <2>4 DEF Through
  <2>6. t[t[d].next] # NoRoute /\ t[t[d].next] \in RouteRecord
    BY <2>3, <2>5, RouteFacts DEF Table
  <2>7. t[t[d].next].age \in Nat /\ t[t[d].next].age < Timeout
    BY <2>2, <2>3, <2>5, <2>6, RouteFacts, RoutingAssumption
  <2>8. /\ Aged(t)[t[d].next].hop = t[t[d].next].hop
        /\ Aged(t)[t[d].next].age = t[t[d].next].age + 1
    BY <1>1, <2>3, <2>6, <2>7
  <2>9. QED BY <2>3, <2>4, <2>5, <2>7, <2>8
<1>6. QED BY <1>3, <1>4, <1>5

\* Hearing s enters it as a neighbour unless the table is full without it.
LEMMA DirectTable ==
    ASSUME NEW t \in Table, Through(t), Cardinality(Known(t)) <= MaxEntries,
           NEW n \in Node, t[n] = NoRoute, NEW s \in Node \ {n}
    PROVE  /\ Direct(t, s) \in Table /\ Through(Direct(t, s))
           /\ Direct(t, s)[n] = NoRoute
           /\ Cardinality(Known(Direct(t, s))) <= MaxEntries
           /\ \/ Direct(t, s)[s] = Neighbour(s)
              \/ Cardinality(Known(Direct(t, s))) = MaxEntries
<1>1. CASE t[s] # NoRoute \/ Room(t)
  <2> DEFINE u == Direct(t, s)
  <2>1. u = [t EXCEPT ![s] = Neighbour(s)]
    BY <1>1 DEF Direct, Neighbour
  <2>2. /\ u \in Table /\ u[s] = Neighbour(s) /\ u[n] = NoRoute
        /\ \A d \in Node \ {s} : u[d] = t[d]
    BY <2>1, RouteFacts DEF Table
  <2>3. Through(u)
    <3>1. SUFFICES ASSUME NEW d \in Node, u[d].hop = 2
                   PROVE  u[u[d].next].hop = 1 /\ u[u[d].next].age < u[d].age
      BY DEF Through
    <3>2. d # s
      BY <2>2, <3>1 DEF Neighbour
    <3>3. u[d] = t[d] /\ t[d] \in RouteRecord /\ t[d].next \in Node /\ t[d].age \in Nat
      BY <2>2, <3>1, <3>2, RouteFacts DEF Table
    <3>4. t[t[d].next].hop = 1 /\ t[t[d].next].age < t[d].age
      BY <3>1, <3>3 DEF Through
    <3>5. t[t[d].next] \in RouteRecord
      BY <3>3, <3>4, RouteFacts DEF Table
    <3>6. 0 < t[d].age
      BY <3>3, <3>4, <3>5, RouteFacts, RoutingAssumption
    <3>7. CASE t[d].next = s
      BY <2>2, <3>3, <3>6, <3>7 DEF Neighbour
    <3>8. CASE t[d].next # s
      BY <2>2, <3>3, <3>4, <3>8
    <3>9. QED BY <3>7, <3>8
  <2>4. Known(u) = Known(t) \cup {s}
    BY <2>2, RouteFacts DEF Known
  <2>5. Cardinality(Known(u)) <= MaxEntries
    <3>1. CASE s \in Known(t)
      <4>1. Known(u) = Known(t)
        BY <2>4, <3>1
      <4>2. QED BY <4>1
    <3>2. CASE s \notin Known(t)
      <4>1. Room(t)
        BY <1>1, <3>2 DEF Known
      <4>2. Cardinality(Known(u)) = Cardinality(Known(t)) + 1
        BY <2>4, <3>2, KnownFinite, FS_AddElement
      <4>3. QED BY <4>1, <4>2, KnownFinite, RoutingAssumption DEF Room
    <3>3. QED BY <3>1, <3>2
  <2>6. QED BY <2>2, <2>3, <2>5
<1>2. CASE ~ (t[s] # NoRoute \/ Room(t))
  <2>1. Direct(t, s) = t
    BY <1>2 DEF Direct
  <2>2. Cardinality(Known(t)) = MaxEntries
    BY <1>2, KnownFinite, RoutingAssumption DEF Room
  <2>3. QED BY <2>1, <2>2
<1>3. QED BY <1>1, <1>2

\* No beacon shortens a route: nothing in a table is nearer than one hop.
LEMMA ShorterIsIdle ==
    ASSUME NEW t \in Table, NEW hops \in [Node -> 0 .. 2], NEW n, NEW s
    PROVE  Shorter(n, t, s, hops) = t
<1>1. ASSUME NEW d \in Node
      PROVE  ~ (d # n /\ t[d] # NoRoute /\ hops[d] # 0 /\ hops[d] + 1 < t[d].hop)
  <2>1. hops[d] \in 0 .. 2
    OBVIOUS
  <2>2. t[d] # NoRoute => t[d].hop \in 1 .. 2
    BY RouteFacts DEF Table
  <2>3. QED BY <2>1, <2>2
<1>2. QED BY <1>1 DEF Shorter, Table

\* What is learned fits, and leads through the neighbour that told of it.
LEMMA LearnedTable ==
    ASSUME NEW t \in Table, Through(t), Cardinality(Known(t)) <= MaxEntries,
           NEW n \in Node, t[n] = NoRoute, NEW s \in Node \ {n},
           NEW hops, NEW new, Fits(t, new, Learnable(n, t, hops)),
           t[s] = Neighbour(s) \/ Cardinality(Known(t)) = MaxEntries
    PROVE  /\ Learned(t, s, new) \in Table /\ Through(Learned(t, s, new))
           /\ Learned(t, s, new)[n] = NoRoute
           /\ Cardinality(Known(Learned(t, s, new))) <= MaxEntries
<1> DEFINE u == Learned(t, s, new)
<1>1. /\ new \subseteq Node \ {n}
      /\ \A d \in new : t[d] = NoRoute
      /\ Cardinality(Known(t)) + Cardinality(new) <= MaxEntries
  BY DEF Fits, Learnable
<1>2. IsFiniteSet(new) /\ Cardinality(new) \in Nat
  BY <1>1, RoutingAssumption, FS_Subset, FS_CardinalityType
<1>3. /\ u \in Table /\ u[n] = NoRoute
      /\ \A d \in new : u[d] = [next |-> s, hop |-> 2, age |-> 1]
      /\ \A d \in Node \ new : u[d] = t[d]
  BY <1>1, RouteFacts DEF Learned, Table
<1>4. Known(u) = Known(t) \cup new /\ Known(t) \cap new = {}
  BY <1>1, <1>3, RouteFacts DEF Known
<1>5. Cardinality(Known(u)) <= MaxEntries
  <2>1. Cardinality(Known(u)) = Cardinality(Known(t)) + Cardinality(new)
    <3> DEFINE K == Known(t)
    <3>1. IsFiniteSet(K) /\ Cardinality(K) \in Nat /\ Cardinality(K \cap new) = 0
      BY <1>4, KnownFinite, FS_EmptySet
    <3> HIDE DEF K
    <3>2. Cardinality(K \cup new) = Cardinality(K) + Cardinality(new) - Cardinality(K \cap new)
      BY <1>2, <3>1, FS_Union
    <3>3. Cardinality(K \cup new) = Cardinality(K) + Cardinality(new)
      BY <1>2, <3>1, <3>2
    <3>4. QED BY <1>4, <3>3 DEF K
  <2>2. QED BY <1>1, <2>1
<1>6. new # {} => t[s] = Neighbour(s) /\ s \notin new
  <2>1. SUFFICES ASSUME new # {} PROVE t[s] = Neighbour(s) /\ s \notin new
    OBVIOUS
  <2>2. Cardinality(new) # 0
    BY <1>2, <2>1, FS_EmptySet
  <2>3. Cardinality(Known(t)) # MaxEntries
    BY <1>1, <1>2, <2>2, KnownFinite, RoutingAssumption
  <2>4. QED BY <1>1, <2>3, RouteFacts
<1>7. Through(u)
  <2>1. SUFFICES ASSUME NEW d \in Node, u[d].hop = 2
                 PROVE  u[u[d].next].hop = 1 /\ u[u[d].next].age < u[d].age
    BY DEF Through
  <2>2. CASE d \in new
    BY <1>3, <1>6, <2>2 DEF Neighbour
  <2>3. CASE d \notin new
    <3>1. u[d] = t[d] /\ t[d].next \in Node
      BY <1>3, <2>1, <2>3, RouteFacts DEF Table
    <3>2. t[t[d].next].hop = 1 /\ t[t[d].next].age < t[d].age
      BY <2>1, <3>1 DEF Through
    <3>3. t[d].next \notin new
      BY <1>1, <3>2, RouteFacts
    <3>4. QED BY <1>3, <3>1, <3>2, <3>3
  <2>4. QED BY <2>2, <2>3
<1>8. QED BY <1>3, <1>5, <1>7

(***************************************************************************)
(* The invariant.                                                          *)
(***************************************************************************)
TableOK(n, t) ==
    /\ t \in Table
    /\ t[n] = NoRoute
    /\ Cardinality(Known(t)) <= MaxEntries
    /\ Through(t)

IInv ==
    /\ table \in [Node -> Table]
    /\ \A n \in Node : TableOK(n, table[n])
    /\ queued \in [Node -> [Node -> 0 .. 2] \cup {Nothing}]
    /\ up \subseteq Node
    /\ outages \in 0 .. MaxOutages

\* The hops that a beacon carries are 0, 1 or 2.
LEMMA HopsType == ASSUME NEW t \in Table PROVE Hops(t) \in [Node -> 0 .. 2]
  BY RouteFacts DEF Hops, Table

\* An empty table is in order.
LEMMA EmptyOK == ASSUME NEW n \in Node PROVE TableOK(n, EmptyTable)
<1>1. EmptyTable \in Table /\ EmptyTable[n] = NoRoute
  BY DEF EmptyTable, Table
<1>2. Known(EmptyTable) = {}
  BY DEF Known, EmptyTable
<1>3. Cardinality(Known(EmptyTable)) <= MaxEntries
  BY <1>2, FS_EmptySet, RoutingAssumption
<1>4. Through(EmptyTable)
  BY RouteFacts DEF Through, EmptyTable
<1>5. QED BY <1>1, <1>3, <1>4 DEF TableOK

\* Hearing a beacon keeps the table of m in order.
LEMMA HearingOK ==
    ASSUME IInv, NEW n \in Node, NEW m \in Node \ {n}, queued[n] # Nothing, NEW new,
           Fits(Heard(m, n), new, Learnable(m, Heard(m, n), queued[n]))
    PROVE  TableOK(m, Learned(Heard(m, n), n, new))
<1>1. TableOK(m, table[m]) /\ queued[n] \in [Node -> 0 .. 2]
  BY DEF IInv
<1>2. /\ Direct(table[m], n) \in Table /\ Through(Direct(table[m], n))
      /\ Direct(table[m], n)[m] = NoRoute
      /\ Cardinality(Known(Direct(table[m], n))) <= MaxEntries
      /\ \/ Direct(table[m], n)[n] = Neighbour(n)
         \/ Cardinality(Known(Direct(table[m], n))) = MaxEntries
  BY <1>1, DirectTable DEF TableOK
<1>3. Heard(m, n) = Direct(table[m], n)
  BY <1>1, <1>2, ShorterIsIdle DEF Heard
<1>4. QED BY <1>2, <1>3, LearnedTable DEF TableOK

\* Every step leaves every table in order.
LEMMA InvStep == IInv /\ [Next]_vars => IInv'
<1> SUFFICES ASSUME IInv, [Next]_vars PROVE IInv'
  OBVIOUS
<1>1. ASSUME NEW n \in Node, Beacon(n) PROVE IInv'
  <2>1. TableOK(n, table[n])
    BY DEF IInv
  <2>2. Aged(table[n]) \in Table /\ Through(Aged(table[n]))
        /\ Known(Aged(table[n])) \subseteq Known(table[n])
    BY <2>1, AgedTable DEF TableOK
  <2>3. Aged(table[n])[n] = NoRoute
    BY <2>1 DEF TableOK, Aged
  <2>4. Cardinality(Known(Aged(table[n]))) <= MaxEntries
    <3>1. Cardinality(Known(Aged(table[n]))) <= Cardinality(Known(table[n]))
      BY <2>2, KnownFinite, FS_Subset
    <3>2. QED BY <2>1, <3>1, KnownFinite, RoutingAssumption DEF TableOK
  <2>5. TableOK(n, Aged(table[n]))
    BY <2>2, <2>3, <2>4 DEF TableOK
  <2>6. Hops(Aged(table[n])) \in [Node -> 0 .. 2]
    BY <2>2, HopsType
  <2>7. QED BY <1>1, <2>2, <2>5, <2>6 DEF Beacon, IInv
<1>2. ASSUME NEW n \in Node, Transmit(n) PROVE IInv'
  <2>0. PICK by \in SUBSET {m \in up \ {n} : <<n, m>> \in Links} :
          \E new \in [by -> SUBSET {d \in Node : queued[n][d] = 1}] :
          /\ \A m \in by : Fits(Heard(m, n), new[m], Learnable(m, Heard(m, n), queued[n]))
          /\ table' = [m \in Node |-> IF m \in by THEN Learned(Heard(m, n), n, new[m])
                                               ELSE table[m]]
    BY <1>2 DEF Transmit
  <2>1. PICK new \in [by -> SUBSET {d \in Node : queued[n][d] = 1}] :
          /\ \A m \in by : Fits(Heard(m, n), new[m], Learnable(m, Heard(m, n), queued[n]))
          /\ table' = [m \in Node |-> IF m \in by THEN Learned(Heard(m, n), n, new[m])
                                               ELSE table[m]]
    BY <2>0
  <2>2. \A m \in by : TableOK(m, Learned(Heard(m, n), n, new[m]))
    BY <1>2, <2>1, HearingOK DEF Transmit, IInv
  <2>3. \A m \in Node : TableOK(m, table'[m])
    BY <2>1, <2>2 DEF IInv
  <2>4. table' \in [Node -> Table]
    <3>1. \A m \in Node : (IF m \in by THEN Learned(Heard(m, n), n, new[m]) ELSE table[m]) \in Table
      BY <2>2 DEF TableOK, IInv
    <3>2. QED BY <2>1, <3>1
  <2>5. QED BY <1>2, <2>3, <2>4 DEF Transmit, IInv
<1>3. ASSUME NEW n \in Node, Down(n) PROVE IInv'
  <2>1. EmptyTable \in Table /\ TableOK(n, EmptyTable)
    BY EmptyOK DEF TableOK
  <2>2. outages' \in 0 .. MaxOutages
    BY <1>3, RoutingAssumption DEF Down, IInv
  <2>3. QED BY <1>3, <2>1, <2>2 DEF Down, IInv
<1>4. ASSUME NEW n \in Node, Restart(n) PROVE IInv'
  BY <1>4 DEF Restart, IInv
<1>5. CASE UNCHANGED vars
  BY <1>5 DEF vars, IInv
<1>6. QED BY <1>1, <1>2, <1>3, <1>4, <1>5 DEF Next

\* So they are in order at any time.
LEMMA Invariant == Spec => []IInv
<1>1. Init => IInv
  BY EmptyOK, RoutingAssumption DEF Init, IInv, TableOK
<1>2. QED BY <1>1, InvStep, PTL DEF Spec

\* No node routes to itself and no table outgrows MAX_ENTRIES
\* (networklayer.c 121-186).
THEOREM TablesStayWithinBounds == Spec => []TypeOK
<1>1. IInv => TypeOK
  BY DEF IInv, TypeOK, TableOK
<1>2. QED BY <1>1, Invariant, PTL

\* A route over two hops always leads through a neighbour heard from since it
\* was learned, whatever is lost, full or expired (networklayer.c 56-65, 121-186).
THEOREM RoutesLeadThroughNeighbours == Spec => []RouteThroughNeighbour
<1>1. IInv => RouteThroughNeighbour
  BY DEF IInv, TableOK, Through, RouteThroughNeighbour
<1>2. QED BY <1>1, Invariant, PTL
=============================================================================
