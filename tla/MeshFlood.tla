----------------------------- MODULE MeshFlood -----------------------------
(***************************************************************************)
(* A mesh floods the messages of its nodes (networklayer.c).  A message    *)
(* starts with a TTL of Nlme.ttl; a node that hears it for the first time  *)
(* notes it in a small ring, rxHist, hands it to its application and       *)
(* relays it with the TTL lowered by one.  A copy whose TTL has run out    *)
(* goes to the application without a look at the ring.                     *)
(*                                                                         *)
(* Hearing and relaying is one step: a relay leaves the node in the        *)
(* iteration that queues it (RelayLeavesAtOnce of NodePipeline), so        *)
(* search_packet_buffer never finds an earlier copy, and a relay that is   *)
(* not transmitted is one whose copies are all lost.                       *)
(***************************************************************************)
EXTENDS Naturals, FiniteSets

CONSTANTS
    Node,            \* the nodes of the mesh
    Link,            \* pairs <<a, b>>: b hears a
    MAX_RX_HIST_CNT, \* slots of rxHist (10)
    ttl,             \* Nlme.ttl (7)
    MaxSeq,          \* bound: messages a node sends between two restarts
    MaxRestarts      \* bound: restarts of one node

ASSUME MeshAssumption == IsFiniteSet(Node) /\ Link \subseteq Node \X Node
ASSUME FloodAssumption ==
    /\ MAX_RX_HIST_CNT \in Nat \ {0}
    /\ ttl \in Nat \ {0}
    /\ MaxSeq \in Nat /\ MaxRestarts \in Nat

\* A message: its header's source and sequence number, and the incarnation of
\* the source, which no header tells.
Message == [src : Node, seq : 1 .. MaxSeq, life : 0 .. MaxRestarts]

\* What rxHist keeps of a message.
Id(m)   == [adr |-> m.src, seq |-> m.seq]
Ids     == [adr : Node, seq : 1 .. MaxSeq]
NoEntry == [adr |-> "nobody", seq |-> 0]

\* A copy on its way over one link.
Copy == [msg : Message, TTL : 0 .. ttl, from : Node, to : Node]

Slots == 0 .. MAX_RX_HIST_CNT - 1

VARIABLES
    seq,       \* the last sequence number a node gave
    life,      \* how often it has restarted
    rxHist,    \* its ring of messages heard, ...
    rxHistCnt, \* ... and the slot the next one goes to
    air,       \* the copies in flight
    delivered, \* history: the messages a node's application has had, ...
    repeated,  \* ... and those it has had twice
    forgotten  \* history: the messages some node had and no longer has in its ring

vars == <<seq, life, rxHist, rxHistCnt, air, delivered, repeated, forgotten>>

EmptyHist == [s \in Slots |-> NoEntry]

Init ==
    /\ seq = [n \in Node |-> 0]
    /\ life = [n \in Node |-> 0]
    /\ rxHist = [n \in Node |-> EmptyHist]
    /\ rxHistCnt = [n \in Node |-> 0]
    /\ air = {}
    /\ delivered = [n \in Node |-> {}]
    /\ repeated = [n \in Node |-> {}]
    /\ forgotten = {}

\* A transmission puts a copy on each link that leaves the node.
Copies(m, t, n) == {[msg |-> m, TTL |-> t, from |-> n, to |-> l[2]] : l \in {k \in Link : k[1] = n}}

\* app_outgoing and network_outgoing: the terminal's send.
Send(n) ==
    /\ seq[n] < MaxSeq
    /\ seq' = [seq EXCEPT ![n] = @ + 1]
    /\ air' = air \cup Copies([src |-> n, seq |-> seq[n] + 1, life |-> life[n]], ttl, n)
    /\ UNCHANGED <<life, rxHist, rxHistCnt, delivered, repeated, forgotten>>

\* The scan of rxHist.
Heard(hist, m) == \E s \in Slots : hist[s] = Id(m)

\* The TTL of the relay.
Lowered_Kept(t) == t   \* mutated: not lowered
Lowered(t) == t - 1

Deliver(n, m) ==
    /\ delivered' = [delivered EXCEPT ![n] = @ \cup {m}]
    /\ repeated' = [repeated EXCEPT ![n] = IF m \in delivered[n] THEN @ \cup {m} ELSE @]

\* The slot a message is noted in.
NextSlot_TooFar(s) == s + 1   \* mutated: not brought back
NextSlot(s) == (s + 1) % MAX_RX_HIST_CNT

Note_Nowhere(n, m) ==   \* mutated: the slot is passed over
    /\ rxHistCnt' = [rxHistCnt EXCEPT ![n] = NextSlot(@)]
    /\ UNCHANGED <<rxHist, forgotten>>

Note(n, m) ==
    /\ rxHist' = [rxHist EXCEPT ![n][rxHistCnt[n]] = Id(m)]
    /\ rxHistCnt' = [rxHistCnt EXCEPT ![n] = NextSlot(@)]
    /\ forgotten' = forgotten \cup {d \in delivered[n] : Id(d) = rxHist[n][rxHistCnt[n]]}

\* mac_incoming drops what this node itself has sent.
HearOwn(c) ==
    /\ c.msg.src = c.to
    /\ air' = air \ {c}
    /\ UNCHANGED <<seq, life, rxHist, rxHistCnt, delivered, repeated, forgotten>>

\* handle_regular_packet: what has no TTL left.
HearLast(c) ==
    /\ c.msg.src # c.to /\ c.TTL = 0
    /\ air' = air \ {c}
    /\ Deliver(c.to, c.msg)
    /\ UNCHANGED <<seq, life, rxHist, rxHistCnt, forgotten>>

HearAgain(c) ==
    /\ c.msg.src # c.to /\ c.TTL > 0
    /\ Heard(rxHist[c.to], c.msg)
    /\ air' = air \ {c}
    /\ UNCHANGED <<seq, life, rxHist, rxHistCnt, delivered, repeated, forgotten>>

\* The first copy, and tx has room.
Relay(c) ==
    /\ c.msg.src # c.to /\ c.TTL > 0
    /\ ~ Heard(rxHist[c.to], c.msg)
    /\ air' = (air \ {c}) \cup Copies(c.msg, Lowered(c.TTL), c.to)
    /\ Note(c.to, c.msg)
    /\ Deliver(c.to, c.msg)
    /\ UNCHANGED <<seq, life>>

\* tx is full: neither relayed, nor noted, nor handed up.
NoRoom_Noted(c) ==   \* mutated: noted before the look at tx
    /\ c.msg.src # c.to /\ c.TTL > 0
    /\ ~ Heard(rxHist[c.to], c.msg)
    /\ air' = air \ {c}
    /\ Note(c.to, c.msg)
    /\ UNCHANGED <<seq, life, delivered, repeated>>

NoRoom(c) ==
    /\ c.msg.src # c.to /\ c.TTL > 0
    /\ ~ Heard(rxHist[c.to], c.msg)
    /\ air' = air \ {c}
    /\ UNCHANGED <<seq, life, rxHist, rxHistCnt, delivered, repeated, forgotten>>

\* A collision, a receiver that is transmitting, noise.
Lose(c) ==
    /\ air' = air \ {c}
    /\ UNCHANGED <<seq, life, rxHist, rxHistCnt, delivered, repeated, forgotten>>

\* A node restarts: .bss is cleared, its numbers begin again.
Restart(n) ==
    /\ life[n] < MaxRestarts
    /\ life' = [life EXCEPT ![n] = @ + 1]
    /\ seq' = [seq EXCEPT ![n] = 0]
    /\ rxHist' = [rxHist EXCEPT ![n] = EmptyHist]
    /\ rxHistCnt' = [rxHistCnt EXCEPT ![n] = 0]
    /\ forgotten' = forgotten \cup delivered[n]
    /\ UNCHANGED <<air, delivered, repeated>>

Hear(c) == HearOwn(c) \/ HearLast(c) \/ HearAgain(c) \/ Relay(c) \/ NoRoom(c)

Channel == \E c \in air : Hear(c) \/ Lose(c)

Next == (\E n \in Node : Send(n) \/ Restart(n)) \/ Channel

Spec == Init /\ [][Next]_vars

\* What is on the air arrives or is lost.
Fairness == WF_vars(Channel)

----------------------------------------------------------------------------
(* Properties. *)

\* All variables stay within their types.
TypeOK ==
    /\ seq \in [Node -> 0 .. MaxSeq]
    /\ life \in [Node -> 0 .. MaxRestarts]
    /\ rxHist \in [Node -> [Slots -> Ids \cup {NoEntry}]]
    /\ rxHistCnt \in [Node -> Slots]
    /\ air \subseteq Copy
    /\ delivered \in [Node -> SUBSET Message]
    /\ repeated \in [Node -> SUBSET Message]
    /\ forgotten \subseteq Message

\* In a mesh with no more nodes than the TTL has hops, an application gets a
\* message twice only after some node's rxHist has lost it, by eviction or a
\* restart.  (In a larger one it happens without: a copy relayed by ttl nodes
\* bypasses the ring of a node that relayed it.)
DeliveredOnce ==
    Cardinality(Node) <= ttl =>
        \A n \in Node : repeated[n] \subseteq forgotten

\* A node drops as a duplicate only what its application has had, also when
\* copies came while tx was full; except the messages of a node that has
\* restarted, whose numbers begin again.
KnownWasDelivered ==
    \A n \in Node, m \in Message :
        Heard(rxHist[n], m) /\ m.life = 0 /\ life[m.src] = 0 => m \in delivered[n]

\* Every flood dies out, also when the rings are too small for the messages
\* under way, so that nodes relay one message again and again.
FloodsEnd == []<>(air = {})
=============================================================================
