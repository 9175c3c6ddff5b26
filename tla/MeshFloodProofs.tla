-------------------------- MODULE MeshFloodProofs --------------------------
(***************************************************************************)
(* Theorems about MeshFlood, for every mesh, ring size and TTL.            *)
(*                                                                         *)
(* The argument for DeliveredOnce counts hops.  As long as no ring has     *)
(* lost a message, every relay of it lowers the TTL by one and adds one    *)
(* node to those that had it; so a copy's TTL and the number of nodes that *)
(* had the message add up to at least ttl.  Its source never has it, so in *)
(* a mesh of at most ttl nodes no copy runs out of TTL, and every copy     *)
(* meets the ring of the node that hears it.                               *)
(***************************************************************************)
EXTENDS MeshFlood, FiniteSetTheorems, TLAPS

(***************************************************************************)
(* Type correctness.                                                       *)
(***************************************************************************)
LEMMA IdFacts ==
    /\ \A m \in Message : Id(m) \in Ids /\ Id(m) # NoEntry
    /\ \A m, k \in Message : Id(m) = Id(k) => m.src = k.src /\ m.seq = k.seq
    /\ \A m, k \in Message : Id(m) = Id(k) /\ m.life = k.life => m = k
  BY FloodAssumption DEF Message, Id, Ids, NoEntry

\* The next slot of a ring is a slot of it.
LEMMA NextSlotType == ASSUME NEW s \in Slots PROVE NextSlot(s) \in Slots /\ 0 \in Slots
  BY FloodAssumption DEF Slots, NextSlot

\* What a node sends is on its way to nodes that hear it.
LEMMA CopiesType ==
    ASSUME NEW m \in Message, NEW t \in 0 .. ttl, NEW n \in Node
    PROVE  Copies(m, t, n) \subseteq Copy
  BY MeshAssumption DEF Copies, Copy

\* What is on a copy.
LEMMA CopiesFacts ==
    ASSUME NEW m, NEW t, NEW n
    PROVE  \A c \in Copies(m, t, n) : c.msg = m /\ c.TTL = t
  BY DEF Copies

\* The mesh starts in its types.
LEMMA InitType == Init => TypeOK
  BY NextSlotType, FloodAssumption DEF Init, TypeOK, EmptyHist, Slots

\* A message sent keeps them.
LEMMA SendType == ASSUME TypeOK, NEW n \in Node, Send(n) PROVE TypeOK'
<1>1. [src |-> n, seq |-> seq[n] + 1, life |-> life[n]] \in Message
  BY FloodAssumption DEF Send, TypeOK, Message
<1>2. ttl \in 0 .. ttl
  BY FloodAssumption
<1>3. air' \subseteq Copy
  BY <1>1, <1>2, CopiesType DEF Send, TypeOK
<1>4. seq' \in [Node -> 0 .. MaxSeq]
  BY FloodAssumption DEF Send, TypeOK
<1>5. QED BY <1>3, <1>4 DEF Send, TypeOK

\* A restart keeps them.
LEMMA RestartType == ASSUME TypeOK, NEW n \in Node, Restart(n) PROVE TypeOK'
<1>1. EmptyHist \in [Slots -> Ids \cup {NoEntry}] /\ 0 \in Slots /\ 0 \in 0 .. MaxSeq
  BY FloodAssumption DEF EmptyHist, Slots
<1>2. life' \in [Node -> 0 .. MaxRestarts]
  BY FloodAssumption DEF Restart, TypeOK
<1>3. seq' \in [Node -> 0 .. MaxSeq] /\ rxHistCnt' \in [Node -> Slots]
  BY <1>1 DEF Restart, TypeOK
<1>4. rxHist' \in [Node -> [Slots -> Ids \cup {NoEntry}]]
  BY <1>1 DEF Restart, TypeOK
<1>5. QED BY <1>2, <1>3, <1>4 DEF Restart, TypeOK

\* A delivery keeps them.
LEMMA DeliverType ==
    ASSUME TypeOK, NEW n \in Node, NEW m \in Message, Deliver(n, m)
    PROVE  delivered' \in [Node -> SUBSET Message] /\ repeated' \in [Node -> SUBSET Message]
  BY DEF TypeOK, Deliver

\* An entry into a ring keeps them.
LEMMA NoteType ==
    ASSUME TypeOK, NEW n \in Node, NEW m \in Message, Note(n, m)
    PROVE  /\ rxHist' \in [Node -> [Slots -> Ids \cup {NoEntry}]]
           /\ rxHistCnt' \in [Node -> Slots]
           /\ forgotten' \subseteq Message
<1>1. rxHistCnt' \in [Node -> Slots]
  BY NextSlotType DEF Note, TypeOK
<1>2. rxHist' \in [Node -> [Slots -> Ids \cup {NoEntry}]]
  BY IdFacts DEF Note, TypeOK
<1>3. QED BY <1>1, <1>2 DEF Note, TypeOK

\* A relay keeps them.
LEMMA RelayType == ASSUME TypeOK, NEW c \in air, Relay(c) PROVE TypeOK'
<1>1. c.msg \in Message /\ c.to \in Node /\ c.TTL \in 0 .. ttl /\ c.TTL > 0
  BY DEF TypeOK, Copy, Relay
<1>2. Lowered(c.TTL) \in 0 .. ttl
  BY <1>1, FloodAssumption DEF Lowered
<1>3. air' \subseteq Copy
  BY <1>1, <1>2, CopiesType DEF Relay, TypeOK
<1>4. QED BY <1>1, <1>3, DeliverType, NoteType DEF Relay, TypeOK

\* The last hop of a copy keeps them.
LEMMA HearLastType == ASSUME TypeOK, NEW c \in air, HearLast(c) PROVE TypeOK'
<1>1. c.msg \in Message /\ c.to \in Node
  BY DEF TypeOK, Copy
<1>2. QED BY <1>1, DeliverType DEF HearLast, TypeOK

\* A copy that leaves no trace.
Vanishes(c) == air' = air \ {c} /\ UNCHANGED <<seq, life, rxHist, rxHistCnt, delivered, repeated, forgotten>>

\* A copy that is dropped or lost is gone, and nothing else changes.
LEMMA VanishCases ==
    ASSUME NEW c, HearOwn(c) \/ HearAgain(c) \/ NoRoom(c) \/ Lose(c) PROVE Vanishes(c)
  BY DEF HearOwn, HearAgain, NoRoom, Lose, Vanishes

\* What a step of the mesh can be.
LEMMA NextCases ==
    ASSUME Next
    PROVE  \/ \E n \in Node : Send(n) \/ Restart(n)
           \/ \E c \in air : HearLast(c) \/ Relay(c) \/ Vanishes(c)
  BY VanishCases DEF Next, Channel, Hear

\* Every step keeps the types.
LEMMA NextType == ASSUME TypeOK, [Next]_vars PROVE TypeOK'
<1>1. CASE UNCHANGED vars
  BY <1>1 DEF vars, TypeOK
<1>2. ASSUME NEW n \in Node, Send(n) \/ Restart(n) PROVE TypeOK'
  BY <1>2, SendType, RestartType
<1>3. ASSUME NEW c \in air, HearLast(c) \/ Relay(c) PROVE TypeOK'
  BY <1>3, HearLastType, RelayType
<1>4. ASSUME NEW c \in air, Vanishes(c) PROVE TypeOK'
  BY <1>4 DEF Vanishes, TypeOK
<1>5. QED BY <1>1, <1>2, <1>3, <1>4, NextCases

\* Whatever the mesh does, rings, numbers and copies stay within their types.
THEOREM TypeCorrect == Spec => []TypeOK
<1>1. TypeOK /\ [Next]_vars => TypeOK'
  BY NextType
<1>2. QED BY InitType, <1>1, PTL DEF Spec

(***************************************************************************)
(* A message is delivered once.                                            *)
(***************************************************************************)

\* The nodes that had m.
Had(del, m) == {n \in Node : m \in del[n]}

HopsCounted == \A c \in air :
    c.msg \notin forgotten => c.TTL + Cardinality(Had(delivered, c.msg)) >= ttl

InRing == \A n \in Node : \A m \in delivered[n] : m \in forgotten \/ Heard(rxHist[n], m)

NotToSource == \A n \in Node : \A m \in delivered[n] : m.src # n

Few == Cardinality(Node) <= ttl

FloodInv == TypeOK /\ HopsCounted /\ InRing /\ NotToSource /\ DeliveredOnce

\* The nodes that had a message can be counted.
LEMMA HadFinite ==
    ASSUME NEW del, NEW m
    PROVE  IsFiniteSet(Had(del, m)) /\ Cardinality(Had(del, m)) \in Nat
  BY MeshAssumption, FS_Subset, FS_CardinalityType DEF Had

Grown(del, new, n, m) ==
    \A k \in Node : new[k] = IF k = n THEN del[n] \cup {m} ELSE del[k]

\* One node more.
LEMMA HadGrows ==
    ASSUME NEW del, NEW n \in Node, NEW m, NEW new, Grown(del, new, n, m)
    PROVE  /\ \A k : k # m => Had(new, k) = Had(del, k)
           /\ Cardinality(Had(new, m)) >= Cardinality(Had(del, m))
           /\ n \notin Had(del, m) => Cardinality(Had(new, m)) = Cardinality(Had(del, m)) + 1
<1>1. \A k : k # m => Had(new, k) = Had(del, k)
  BY DEF Had, Grown
<1>2. Had(new, m) = Had(del, m) \cup {n}
  BY DEF Had, Grown
<1>3. Cardinality(Had(new, m)) =
        IF n \in Had(del, m) THEN Cardinality(Had(del, m)) ELSE Cardinality(Had(del, m)) + 1
  BY <1>2, HadFinite, FS_AddElement
<1>4. QED BY <1>1, <1>3, HadFinite

\* In a mesh of at most ttl nodes no copy of a message that no ring has lost runs
\* out of TTL: its source is one of the nodes and never had it.
LEMMA NeverLast ==
    ASSUME FloodInv, Few, NEW c \in air, c.msg \notin forgotten
    PROVE  c.TTL > 0
<1> DEFINE H == Had(delivered, c.msg)
<1>1. c.msg.src \in Node /\ c.TTL \in Nat
  BY FloodAssumption DEF FloodInv, TypeOK, Copy, Message
<1>2. H \subseteq Node \ {c.msg.src}
  BY DEF FloodInv, NotToSource, Had
<1>3. /\ IsFiniteSet(Node \ {c.msg.src})
      /\ Cardinality(Node \ {c.msg.src}) = Cardinality(Node) - 1
  <2>1. IsFiniteSet(Node)
    BY MeshAssumption
  <2>2. \A x : /\ IsFiniteSet(Node \ {x})
               /\ Cardinality(Node \ {x}) = IF x \in Node THEN Cardinality(Node) - 1
                                                          ELSE Cardinality(Node)
    BY <2>1, FS_RemoveElement
  <2>3. QED BY <1>1, <2>2
<1>4. Cardinality(H) <= Cardinality(Node) - 1
  BY <1>2, <1>3, FS_Subset
<1>5. Cardinality(Node) \in Nat /\ Cardinality(H) \in Nat
  BY MeshAssumption, FS_CardinalityType, HadFinite
<1>6. c.TTL + Cardinality(H) >= ttl
  BY DEF FloodInv, HopsCounted
<1>7. QED BY <1>1, <1>4, <1>5, <1>6, FloodAssumption DEF Few

\* A delivery adds one node to those that had the message.
LEMMA DeliverFacts ==
    ASSUME TypeOK, NEW n \in Node, NEW m \in Message, Deliver(n, m)
    PROVE  /\ Grown(delivered, delivered', n, m)
           /\ \A k \in Node : delivered[k] \subseteq delivered'[k]
           /\ m \in delivered'[n]
           /\ \A k \in Node : repeated'[k] = IF k = n /\ m \in delivered[n]
                                             THEN repeated[n] \cup {m} ELSE repeated[k]
  BY DEF Deliver, TypeOK, Grown

\* A message sent has all its hops before it.
LEMMA SendFlood == ASSUME FloodInv, NEW n \in Node, Send(n) PROVE FloodInv'
<1> DEFINE m == [src |-> n, seq |-> seq[n] + 1, life |-> life[n]]
<1>1. TypeOK'
  BY SendType DEF FloodInv
<1>2. \A c \in air' : c \in air \/ (c.msg = m /\ c.TTL = ttl)
  BY CopiesFacts DEF Send
<1>3. \A c \in air' : c.msg \notin forgotten =>
          c.TTL + Cardinality(Had(delivered, c.msg)) >= ttl
  BY <1>2, HadFinite, FloodAssumption DEF FloodInv, HopsCounted
<1>4. UNCHANGED <<rxHist, delivered, repeated, forgotten>>
  BY DEF Send
<1>5. QED BY <1>1, <1>3, <1>4 DEF FloodInv, HopsCounted, InRing, NotToSource, DeliveredOnce

\* A restart forgets what its node had, and that is on record.
LEMMA RestartFlood == ASSUME FloodInv, NEW n \in Node, Restart(n) PROVE FloodInv'
<1>1. TypeOK'
  BY RestartType DEF FloodInv
<1>2. UNCHANGED <<air, delivered, repeated>> /\ forgotten' = forgotten \cup delivered[n]
  BY DEF Restart
<1>3. \A k \in Node : k # n => rxHist'[k] = rxHist[k]
  BY DEF Restart, FloodInv, TypeOK
<1>4. InRing'
  BY <1>2, <1>3 DEF FloodInv, InRing
<1>5. QED BY <1>1, <1>2, <1>4 DEF FloodInv, HopsCounted, NotToSource, DeliveredOnce

\* A copy that vanishes takes nothing along.
LEMMA VanishFlood == ASSUME FloodInv, NEW c \in air, Vanishes(c) PROVE FloodInv'
  BY DEF Vanishes, FloodInv, TypeOK, HopsCounted, InRing, NotToSource, DeliveredOnce

\* A last hop reaches a node that has not had the message.
LEMMA HearLastFlood == ASSUME FloodInv, Few, NEW c \in air, HearLast(c) PROVE FloodInv'
<1> DEFINE m == c.msg
           n == c.to
<1>1. TypeOK /\ m \in Message /\ n \in Node /\ m.src # n /\ c.TTL = 0 /\ Deliver(n, m)
  BY DEF FloodInv, TypeOK, Copy, HearLast
<1>2. m \in forgotten
  BY <1>1, NeverLast
<1>3. /\ Grown(delivered, delivered', n, m)
      /\ \A k \in Node : repeated'[k] = IF k = n /\ m \in delivered[n]
                                        THEN repeated[n] \cup {m} ELSE repeated[k]
  BY <1>1, DeliverFacts
<1>4. TypeOK'
  BY HearLastType DEF FloodInv
<1>5. UNCHANGED <<rxHist, forgotten>> /\ air' = air \ {c}
  BY DEF HearLast
<1>6. HopsCounted'
  <2>1. SUFFICES ASSUME NEW k \in air, k.msg \notin forgotten
                 PROVE  k.TTL + Cardinality(Had(delivered', k.msg)) >= ttl
    BY <1>5 DEF HopsCounted
  <2>2. Had(delivered', k.msg) = Had(delivered, k.msg)
    BY <1>1, <1>2, <1>3, <2>1, HadGrows
  <2>3. QED BY <2>1, <2>2 DEF FloodInv, HopsCounted
<1>7. InRing' /\ NotToSource' /\ DeliveredOnce'
  BY <1>1, <1>2, <1>3, <1>5 DEF FloodInv, InRing, NotToSource, DeliveredOnce, Grown
<1>8. QED BY <1>4, <1>6, <1>7 DEF FloodInv

\* The slot a message is noted in held what is forgotten now.
LEMMA NoteFacts ==
    ASSUME TypeOK, NEW n \in Node, NEW m \in Message, Note(n, m)
    PROVE  /\ \A k \in Node : k # n => rxHist'[k] = rxHist[k]
           /\ Heard(rxHist'[n], m)
           /\ \A d \in delivered[n] : Heard(rxHist[n], d) => d \in forgotten' \/ Heard(rxHist'[n], d)
           /\ forgotten \subseteq forgotten'
           /\ rxHistCnt[n] \in Slots
           /\ \A s \in Slots : rxHist'[n][s] = IF s = rxHistCnt[n] THEN Id(m) ELSE rxHist[n][s]
<1>1. rxHistCnt[n] \in Slots /\ rxHist[n] \in [Slots -> Ids \cup {NoEntry}]
  BY DEF TypeOK
<1>2. /\ \A k \in Node : k # n => rxHist'[k] = rxHist[k]
      /\ rxHist'[n] = [rxHist[n] EXCEPT ![rxHistCnt[n]] = Id(m)]
  BY DEF Note, TypeOK
<1>3. \A s \in Slots : rxHist'[n][s] = IF s = rxHistCnt[n] THEN Id(m) ELSE rxHist[n][s]
  BY <1>1, <1>2
<1>4. forgotten' = forgotten \cup {d \in delivered[n] : Id(d) = rxHist[n][rxHistCnt[n]]}
  BY DEF Note
<1>5. QED BY <1>1, <1>2, <1>3, <1>4 DEF Heard

\* A relay gives a hop away and adds a node.
LEMMA RelayFlood == ASSUME FloodInv, Few, NEW c \in air, Relay(c) PROVE FloodInv'
<1> DEFINE m == c.msg
           n == c.to
           new == Copies(m, Lowered(c.TTL), n)
<1>1. /\ TypeOK /\ m \in Message /\ n \in Node /\ m.src # n /\ c.TTL \in Nat /\ c.TTL > 0
      /\ ~ Heard(rxHist[n], m) /\ Deliver(n, m) /\ Note(n, m)
  BY FloodAssumption DEF FloodInv, TypeOK, Copy, Relay
<1>2. /\ Grown(delivered, delivered', n, m)
      /\ \A k \in Node : repeated'[k] = IF k = n /\ m \in delivered[n]
                                        THEN repeated[n] \cup {m} ELSE repeated[k]
  BY <1>1, DeliverFacts
<1>3. /\ \A k \in Node : k # n => rxHist'[k] = rxHist[k]
      /\ Heard(rxHist'[n], m)
      /\ \A d \in delivered[n] : Heard(rxHist[n], d) => d \in forgotten' \/ Heard(rxHist'[n], d)
      /\ forgotten \subseteq forgotten'
  BY <1>1, NoteFacts
<1>4. TypeOK'
  BY RelayType DEF FloodInv
<1>5. m \in forgotten \/ m \notin delivered[n]
  BY <1>1 DEF FloodInv, InRing
<1>6. HopsCounted'
  <2>1. SUFFICES ASSUME NEW k \in air', k.msg \notin forgotten'
                 PROVE  k.TTL + Cardinality(Had(delivered', k.msg)) >= ttl
    BY DEF HopsCounted
  <2>2. k.msg \notin forgotten
    BY <1>3, <2>1
  <2>3. CASE k \in air
    <3>1. k.TTL + Cardinality(Had(delivered, k.msg)) >= ttl /\ k.TTL \in Nat
      BY <2>2, <2>3, FloodAssumption DEF FloodInv, HopsCounted, TypeOK, Copy
    <3>2. Cardinality(Had(delivered', k.msg)) >= Cardinality(Had(delivered, k.msg))
      BY <1>1, <1>2, HadGrows, HadFinite
    <3>3. QED BY <3>1, <3>2, HadFinite, FloodAssumption
  <2>4. CASE k \in new
    <3>1. k.msg = m /\ k.TTL = c.TTL - 1
      BY <2>4, CopiesFacts DEF Lowered
    <3>2. n \notin Had(delivered, m)
      BY <1>5, <2>2, <3>1 DEF Had
    <3>3. Cardinality(Had(delivered', m)) = Cardinality(Had(delivered, m)) + 1
      BY <1>1, <1>2, <3>2, HadGrows
    <3>4. c.TTL + Cardinality(Had(delivered, m)) >= ttl
      BY <2>2, <3>1 DEF FloodInv, HopsCounted
    <3>5. QED BY <1>1, <3>1, <3>3, <3>4, HadFinite, FloodAssumption
  <2>5. QED BY <2>3, <2>4 DEF Relay
<1>7. InRing'
  BY <1>1, <1>2, <1>3 DEF FloodInv, InRing, Grown
<1>8. NotToSource'
  BY <1>1, <1>2 DEF FloodInv, NotToSource, Grown
<1>9. DeliveredOnce'
  BY <1>2, <1>3, <1>5 DEF FloodInv, DeliveredOnce
<1>10. QED BY <1>4, <1>6, <1>7, <1>8, <1>9 DEF FloodInv

\* Nothing is in the air at the start.
LEMMA InitFlood == ASSUME Init PROVE FloodInv
  BY InitType DEF Init, FloodInv, HopsCounted, InRing, NotToSource, DeliveredOnce

\* Every step keeps the count of hops and nodes.
LEMMA NextFlood == ASSUME Few, FloodInv, [Next]_vars PROVE FloodInv'
<1>1. CASE UNCHANGED vars
  BY <1>1 DEF vars, FloodInv, TypeOK, HopsCounted, InRing, NotToSource, DeliveredOnce
<1>2. ASSUME NEW n \in Node, Send(n) \/ Restart(n) PROVE FloodInv'
  BY <1>2, SendFlood, RestartFlood
<1>3. ASSUME NEW c \in air, HearLast(c) \/ Relay(c) \/ Vanishes(c) PROVE FloodInv'
  BY <1>3, HearLastFlood, RelayFlood, VanishFlood
<1>4. QED BY <1>1, <1>2, <1>3, NextCases

\* In a mesh of at most ttl nodes, an application gets a message twice only after
\* some node's ring has lost it.
THEOREM MessagesDeliveredOnce == Spec => []DeliveredOnce
<1>1. ASSUME Few PROVE Spec => []DeliveredOnce
  <2>1. Init => FloodInv
    BY InitFlood
  <2>2. FloodInv /\ [Next]_vars => FloodInv'
    BY <1>1, NextFlood
  <2>3. FloodInv => DeliveredOnce
    BY DEF FloodInv
  <2>4. QED BY <2>1, <2>2, <2>3, PTL DEF Spec
<1>2. ASSUME ~ Few PROVE Spec => []DeliveredOnce
  <2>1. DeliveredOnce
    BY <1>2 DEF DeliveredOnce, Few
  <2>2. QED BY <2>1, PTL
<1>3. QED BY <1>1, <1>2

(***************************************************************************)
(* What a ring holds was delivered.                                        *)
(***************************************************************************)
RingWasHeard == \A n \in Node : \A s \in Slots :
    rxHist[n][s] # NoEntry =>
        \E m \in delivered[n] : Id(m) = rxHist[n][s] /\ m.life <= life[m.src]

AirIsPast == \A c \in air : c.msg.life <= life[c.msg.src]

KnownInv == TypeOK /\ RingWasHeard /\ AirIsPast

\* Lives only grow.
LEMMA SendKnown == ASSUME KnownInv, NEW n \in Node, Send(n) PROVE KnownInv'
<1> DEFINE m == [src |-> n, seq |-> seq[n] + 1, life |-> life[n]]
<1>1. TypeOK'
  BY SendType DEF KnownInv
<1>2. \A c \in air' : c \in air \/ c.msg = m
  BY CopiesFacts DEF Send
<1>3. life[n] \in Nat
  BY FloodAssumption DEF KnownInv, TypeOK
<1>4. \A c \in air' : c.msg.life <= life[c.msg.src]
  BY <1>2, <1>3 DEF KnownInv, AirIsPast
<1>5. UNCHANGED <<life, rxHist, delivered>>
  BY DEF Send
<1>6. QED BY <1>1, <1>4, <1>5 DEF KnownInv, AirIsPast, RingWasHeard

\* A restart takes its node's messages out of the claim, by their life.
LEMMA RestartKnown == ASSUME KnownInv, NEW n \in Node, Restart(n) PROVE KnownInv'
<1>1. TypeOK /\ TypeOK'
  BY RestartType DEF KnownInv
<1>2. \A k \in Node : life[k] \in Nat /\ life'[k] \in Nat /\ life[k] <= life'[k]
  BY <1>1, FloodAssumption DEF TypeOK, Restart
<1>3. UNCHANGED <<air, delivered>>
  BY DEF Restart
<1>4. \A m \in Message : m.src \in Node /\ m.life \in Nat
  BY FloodAssumption DEF Message
<1>5. AirIsPast'
  <2>1. \A c \in air : c.msg \in Message
    BY <1>1 DEF TypeOK, Copy
  <2>2. QED BY <1>2, <1>3, <1>4, <2>1 DEF KnownInv, AirIsPast
<1>6. ASSUME NEW k \in Node, NEW s \in Slots, rxHist'[k][s] # NoEntry
      PROVE  \E m \in delivered'[k] : Id(m) = rxHist'[k][s] /\ m.life <= life'[m.src]
  <2>1. k # n /\ rxHist'[k] = rxHist[k]
    BY <1>1, <1>6 DEF Restart, TypeOK, EmptyHist
  <2>2. PICK m \in delivered[k] : Id(m) = rxHist[k][s] /\ m.life <= life[m.src]
    BY <1>6, <2>1 DEF KnownInv, RingWasHeard
  <2>3. m \in Message
    BY <1>1 DEF TypeOK
  <2>4. m.life <= life'[m.src]
    BY <1>2, <1>4, <2>2, <2>3
  <2>5. QED BY <1>3, <2>1, <2>2, <2>4
<1>7. QED BY <1>1, <1>5, <1>6 DEF KnownInv, RingWasHeard

\* A last hop enters nothing into a ring.
LEMMA HearLastKnown == ASSUME KnownInv, NEW c \in air, HearLast(c) PROVE KnownInv'
<1>1. TypeOK /\ TypeOK' /\ c.msg \in Message /\ c.to \in Node /\ Deliver(c.to, c.msg)
  BY HearLastType DEF KnownInv, TypeOK, Copy, HearLast
<1>2. \A k \in Node : delivered[k] \subseteq delivered'[k]
  BY <1>1, DeliverFacts
<1>3. QED BY <1>1, <1>2 DEF HearLast, KnownInv, RingWasHeard, AirIsPast

\* A relay enters what it delivered.
LEMMA RelayKnown == ASSUME KnownInv, NEW c \in air, Relay(c) PROVE KnownInv'
<1> DEFINE m == c.msg
           n == c.to
<1>1. TypeOK /\ TypeOK' /\ m \in Message /\ n \in Node /\ Deliver(n, m) /\ Note(n, m)
  BY RelayType DEF KnownInv, TypeOK, Copy, Relay
<1>2. (\A k \in Node : delivered[k] \subseteq delivered'[k]) /\ m \in delivered'[n]
  BY <1>1, DeliverFacts
<1>3. UNCHANGED life /\ air' = (air \ {c}) \cup Copies(m, Lowered(c.TTL), n)
  BY DEF Relay
<1>4. m.life <= life[m.src]
  BY DEF KnownInv, AirIsPast
<1>5. AirIsPast'
  BY <1>3, <1>4, CopiesFacts DEF KnownInv, AirIsPast
<1>6. /\ \A k \in Node : k # n => rxHist'[k] = rxHist[k]
      /\ \A s \in Slots : rxHist'[n][s] = IF s = rxHistCnt[n] THEN Id(m) ELSE rxHist[n][s]
  BY <1>1, NoteFacts
<1>7. ASSUME NEW k \in Node, NEW s \in Slots, rxHist'[k][s] # NoEntry
      PROVE  \E d \in delivered'[k] : Id(d) = rxHist'[k][s] /\ d.life <= life'[d.src]
  <2>1. CASE k = n /\ s = rxHistCnt[n]
    BY <1>2, <1>3, <1>4, <1>6, <2>1
  <2>2. CASE ~ (k = n /\ s = rxHistCnt[n])
    <3>1. rxHist'[k][s] = rxHist[k][s]
      BY <1>6, <2>2
    <3>2. PICK d \in delivered[k] : Id(d) = rxHist[k][s] /\ d.life <= life[d.src]
      BY <1>7, <3>1 DEF KnownInv, RingWasHeard
    <3>3. QED BY <1>2, <1>3, <3>1, <3>2
  <2>3. QED BY <2>1, <2>2
<1>8. QED BY <1>1, <1>5, <1>7 DEF KnownInv, RingWasHeard

\* Every step keeps the rings true.
LEMMA NextKnown == ASSUME KnownInv, [Next]_vars PROVE KnownInv'
<1>1. CASE UNCHANGED vars
  BY <1>1 DEF vars, KnownInv, TypeOK, RingWasHeard, AirIsPast
<1>2. ASSUME NEW n \in Node, Send(n) \/ Restart(n) PROVE KnownInv'
  BY <1>2, SendKnown, RestartKnown
<1>3. ASSUME NEW c \in air, HearLast(c) \/ Relay(c) PROVE KnownInv'
  BY <1>3, HearLastKnown, RelayKnown
<1>4. ASSUME NEW c \in air, Vanishes(c) PROVE KnownInv'
  BY <1>4 DEF Vanishes, KnownInv, TypeOK, RingWasHeard, AirIsPast
<1>5. QED BY <1>1, <1>2, <1>3, <1>4, NextCases

\* Rings that are true say what the property says of them.
LEMMA KnownFollows == ASSUME KnownInv PROVE KnownWasDelivered
<1>1. SUFFICES ASSUME NEW n \in Node, NEW m \in Message,
                      Heard(rxHist[n], m), m.life = 0, life[m.src] = 0
               PROVE  m \in delivered[n]
  BY DEF KnownWasDelivered
<1>2. PICK s \in Slots : rxHist[n][s] = Id(m)
  BY <1>1 DEF Heard
<1>3. PICK d \in delivered[n] : Id(d) = rxHist[n][s] /\ d.life <= life[d.src]
  BY <1>2, IdFacts DEF KnownInv, RingWasHeard
<1>4. d \in Message
  BY DEF KnownInv, TypeOK
<1>5. d.src = m.src /\ d.life \in Nat
  BY <1>2, <1>3, <1>4, IdFacts, FloodAssumption DEF Message
<1>6. d = m
  BY <1>1, <1>2, <1>3, <1>4, <1>5, IdFacts
<1>7. QED BY <1>6

\* A node drops as a duplicate only what its application has had, unless the
\* source has restarted.
THEOREM DuplicatesWereDelivered == Spec => []KnownWasDelivered
<1>1. Init => KnownInv
  BY InitType DEF Init, KnownInv, RingWasHeard, AirIsPast, EmptyHist
<1>2. KnownInv /\ [Next]_vars => KnownInv'
  BY NextKnown
<1>3. KnownInv => KnownWasDelivered
  BY KnownFollows
<1>4. QED BY <1>1, <1>2, <1>3, PTL DEF Spec
=============================================================================
