------------------------------ MODULE Packets ------------------------------
(***************************************************************************)
(* The packets that travel through a node and the operations of            *)
(* packetBuffer.c on the bounded queues that hold them.                    *)
(*                                                                         *)
(* A queue is the sequence of the live slots of a ring, oldest first.  A   *)
(* packet keeps its hand-off tag (pktDir, pOwner), which is what           *)
(* search_pending_packet looks at, and its kind; the rest of the header    *)
(* and the payload play no part in how packets move inside the node.       *)
(***************************************************************************)
EXTENDS Naturals, Sequences

CONSTANT PACKET_BUFFER_SIZE   \* slots of one buffer (10 in the firmware)

ASSUME BufferSizeAssumption == PACKET_BUFFER_SIZE \in Nat \ {0}

Direction == {"OUTGOING", "INCOMING", "RETX"}
Owner     == {"MAC", "NET", "APP"}

\* What the layers tell apart.  Over the air come a BEACON, a mesh PAYLOAD
\* (flooded while its TTL lasts), a PING, a REQUEST that the application may
\* answer (OTA_*, CFG_OTA_*, CMD_CFG with a radio setting) and CMD_BEACON, the
\* CMD_CFG that sets the beacon interval.  The node itself sends PAYLOAD,
\* OTA_ACK and CONTROL: beacons, pings, pongs, commands and their ACKs.
Kind == {"BEACON", "PAYLOAD", "PING", "REQUEST", "CMD_BEACON", "OTA_ACK", "CONTROL"}

PacketRecord == [dir : Direction, owner : Owner, kind : Kind]

\* The all-zero packet: what memset leaves in a slot, and what
\* search_pending_packet returns when nothing matches.
EmptyPkt == [dir |-> "DIR_EMPTY", owner |-> "OWNER_EMPTY", kind |-> "BEACON"]

Pkt(d, o, k) == [dir |-> d, owner |-> o, kind |-> k]

buffer_full(q) == Len(q) >= PACKET_BUFFER_SIZE

write_packet_OffByOne(q, p) ==   \* mutated: one packet more than there are slots
    IF Len(q) > PACKET_BUFFER_SIZE THEN q ELSE Append(q, p)

\* write_packet: append, or drop the packet when every slot is taken.
write_packet(q, p) == IF buffer_full(q) THEN q ELSE Append(q, p)

Tagged(p, d, o) == p.dir = d /\ p.owner = o

\* Position i holds the first packet tagged (d, o), counting from the head.
FirstPending(q, d, o, i) ==
    /\ i \in DOMAIN q
    /\ Tagged(q[i], d, o)
    /\ \A j \in 1 .. i - 1 : ~ Tagged(q[j], d, o)

NonePending(q, d, o) == \A i \in DOMAIN q : ~ Tagged(q[i], d, o)

TakeAt_StaysPut(q, i) == [q EXCEPT ![i] = EmptyPkt]   \* mutated: no pointer moves

\* search_pending_packet, the state it leaves behind: slot i is zeroed where it
\* stands and the read pointer moves past the head, whichever slot that is.
TakeAt(q, i) == Tail([q EXCEPT ![i] = EmptyPkt])

\* The slots of q that still hold a packet, and the zeroed ones.
Live(q)   == {i \in DOMAIN q : q[i] # EmptyPkt}
Zeroed(q) == {i \in DOMAIN q : q[i] = EmptyPkt}
=============================================================================
