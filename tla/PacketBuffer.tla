---------------------------- MODULE PacketBuffer ----------------------------
(***************************************************************************)
(* The ring of packetBuffer.c: an array of slots, a read pointer, a write  *)
(* pointer and a count, kept by separate assignments in each operation.    *)
(***************************************************************************)
EXTENDS Packets

CONSTANT Packet   \* the packets the users of this buffer handle

ASSUME PacketAssumption == Packet \subseteq PacketRecord

VARIABLES
    buffer,         \* 0 .. PACKET_BUFFER_SIZE-1 -> packet or zeroed slot
    read_pointer,
    write_pointer,
    data_size,
    returned        \* the packet the last call handed back

bvars == <<buffer, read_pointer, write_pointer, data_size, returned>>

Slot == 0 .. PACKET_BUFFER_SIZE - 1

\* (i + 1) % PACKET_BUFFER_SIZE for a pointer i.
Advance(i) == IF i + 1 = PACKET_BUFFER_SIZE THEN 0 ELSE i + 1

\* (r + i) % PACKET_BUFFER_SIZE for a pointer r and an offset i below the size.
Offset(r, i) == IF r + i < PACKET_BUFFER_SIZE THEN r + i ELSE r + i - PACKET_BUFFER_SIZE

At(i) == Offset(read_pointer, i)

RingTypeOK ==
    /\ buffer \in [Slot -> Packet \cup {EmptyPkt}]
    /\ read_pointer \in Slot
    /\ write_pointer \in Slot
    /\ data_size \in 0 .. PACKET_BUFFER_SIZE
    /\ returned \in Packet \cup {EmptyPkt}

\* init_packet_buffer; the array itself starts as zeroed .bss.
RingInit ==
    /\ buffer = [s \in Slot |-> EmptyPkt]
    /\ read_pointer = 0
    /\ write_pointer = 0
    /\ data_size = 0
    /\ returned = EmptyPkt

full  == data_size >= PACKET_BUFFER_SIZE
empty == data_size = 0

WritePacket(p) ==
    /\ ~ full
    /\ buffer' = [buffer EXCEPT ![write_pointer] = p]
    /\ write_pointer' = Advance(write_pointer)
    /\ data_size' = data_size + 1
    /\ returned' = EmptyPkt
    /\ UNCHANGED read_pointer

ReadPacket ==
    /\ ~ empty
    /\ returned' = buffer[read_pointer]
    /\ read_pointer' = Advance(read_pointer)
    /\ data_size' = data_size - 1
    /\ UNCHANGED <<buffer, write_pointer>>

\* Copy the slot at offset i out, zero it, and advance the read pointer by one.
PopAt_SkipsOlder(i) ==   \* mutated: the read pointer jumps past the match
    /\ buffer' = [buffer EXCEPT ![At(i)] = EmptyPkt]
    /\ read_pointer' = Advance(At(i))
PopAt_NoClear(i) ==      \* mutated: the slot keeps its packet
    /\ buffer' = buffer
    /\ read_pointer' = Advance(read_pointer)
PopAt(i) ==
    /\ buffer' = [buffer EXCEPT ![At(i)] = EmptyPkt]
    /\ read_pointer' = Advance(read_pointer)

\* search_pending_packet: offset i is the first that carries the tag.
SearchPendingPacket(d, o) ==
    \E i \in 0 .. data_size - 1 :
        /\ Tagged(buffer[At(i)], d, o)
        /\ \A j \in 0 .. i - 1 : ~ Tagged(buffer[At(j)], d, o)
        /\ returned' = buffer[At(i)]
        /\ PopAt(i)
        /\ data_size' = data_size - 1
        /\ UNCHANGED write_pointer

\* The calls that find nothing to do: a write to a full buffer, a read of an
\* empty one, a search without a match.
Rejected ==
    /\ \/ full
       \/ empty
       \/ \E d \in Direction, o \in Owner :
              \A i \in 0 .. data_size - 1 : ~ Tagged(buffer[At(i)], d, o)
    /\ returned' = EmptyPkt
    /\ UNCHANGED <<buffer, read_pointer, write_pointer, data_size>>

\* The operations in use: remove_packet_from_buffer, which compacts the slots but
\* leaves write_pointer where it was, is called by nothing in the firmware.
RingNext ==
    \/ \E p \in Packet : WritePacket(p)
    \/ ReadPacket
    \/ \E d \in Direction, o \in Owner : SearchPendingPacket(d, o)
    \/ Rejected

RingSpec == RingInit /\ [][RingNext]_bvars

(***************************************************************************)
(* The live slots as a sequence, and the queue they implement.             *)
(***************************************************************************)
LiveSlots(b, r, n) == [i \in 1 .. n |-> b[Offset(r, i - 1)]]

contents == LiveSlots(buffer, read_pointer, data_size)

Q == INSTANCE PacketQueue WITH queue <- contents

\* The two pointers and the count, each kept by its own assignment, always
\* agree: the next write lands right behind the newest live slot.
PointersAgree == write_pointer = IF data_size = PACKET_BUFFER_SIZE
                                 THEN read_pointer ELSE At(data_size)

\* Every call on the ring is a call on a bounded queue: no operation loses,
\* duplicates or reorders a slot other than the ones PacketQueue says.
ImplementsQueue == Q!Spec
=============================================================================
