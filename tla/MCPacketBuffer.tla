--------------------------- MODULE MCPacketBuffer ---------------------------
(***************************************************************************)
(* PacketBuffer on a ring of three slots.  Two packets share a tag, so that *)
(* "the first match" is a choice; the others carry tags of their own.       *)
(***************************************************************************)
EXTENDS PacketBuffer

MCPacket == {Pkt("OUTGOING", "NET", "PING"), Pkt("OUTGOING", "NET", "CONTROL"),
             Pkt("OUTGOING", "MAC", "PING"), Pkt("RETX", "MAC", "PAYLOAD")}
=============================================================================
