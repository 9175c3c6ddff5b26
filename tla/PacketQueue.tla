---------------------------- MODULE PacketQueue ----------------------------
(***************************************************************************)
(* What a packet buffer does for its users, without the ring: a bounded    *)
(* queue written at one end and taken from by tag.  PacketBuffer shows     *)
(* that the ring of packetBuffer.c implements it.                          *)
(***************************************************************************)
EXTENDS Packets

CONSTANT Packet   \* the packets the users of this buffer handle

VARIABLES
    queue,     \* the live slots, oldest first
    returned   \* the packet the last call handed back

qvars == <<queue, returned>>

Init ==
    /\ queue = <<>>
    /\ returned = EmptyPkt

\* A producer hands in a packet; a full queue drops it.
Write(p) ==
    /\ queue' = write_packet(queue, p)
    /\ returned' = EmptyPkt

\* read_packet: the head leaves.
Read ==
    /\ queue # <<>>
    /\ returned' = Head(queue)
    /\ queue' = Tail(queue)

\* search_pending_packet with a match.
Take(d, o) ==
    \E i \in DOMAIN queue :
        /\ FirstPending(queue, d, o, i)
        /\ returned' = queue[i]
        /\ queue' = TakeAt(queue, i)

\* search_pending_packet without a match, read_packet on an empty buffer.
Nothing ==
    /\ returned' = EmptyPkt
    /\ UNCHANGED queue

Next ==
    \/ \E p \in Packet : Write(p)
    \/ Read
    \/ \E d \in Direction, o \in Owner : Take(d, o)
    \/ Nothing

Spec == Init /\ [][Next]_qvars
=============================================================================
