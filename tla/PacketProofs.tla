---------------------------- MODULE PacketProofs ----------------------------
(***************************************************************************)
(* For every buffer size and every set of packets: the pointers and the    *)
(* count of a ring agree, and every call on it is a call on the bounded    *)
(* queue PacketQueue.  And for every set of frames that come in: received  *)
(* packets keep their order in rx and are always taken from its head, rx   *)
(* never overflows once it has three slots, tx is never mute, and a packet *)
(* that is relayed leaves in the pass of the loop in which it came.        *)
(***************************************************************************)
EXTENDS NodePipeline, PacketBuffer, SequenceTheorems, TLAPS

----------------------------------------------------------------------------
(* What the operations of packetBuffer.c do to a queue, slot by slot, for   *)
(* every buffer size and every queue of packets and zeroed slots.           *)

\* Taking slot i: the queue moves up by one, and slot i leaves a zeroed slot
\* behind unless it was the head.
LEMMA TakeSlots ==
    ASSUME NEW S, EmptyPkt \in S, NEW q \in Seq(S), NEW i \in DOMAIN q
    PROVE  /\ TakeAt(q, i) \in Seq(S)
           /\ Len(TakeAt(q, i)) = Len(q) - 1
           /\ \A j \in 1 .. Len(q) - 1 :
                  TakeAt(q, i)[j] = IF j + 1 = i THEN EmptyPkt ELSE q[j + 1]
<1> DEFINE z == [q EXCEPT ![i] = EmptyPkt]
<1>1. /\ i \in 1 .. Len(q) /\ Len(q) \in Nat
  BY LenProperties
<1>2. /\ z \in Seq(S)
      /\ Len(z) = Len(q)
      /\ \A j \in 1 .. Len(q) : z[j] = IF j = i THEN EmptyPkt ELSE q[j]
  BY <1>1, ExceptSeq
<1> HIDE DEF z
<1>3. z # << >>
  BY <1>1, <1>2, EmptySeq
<1>4. /\ Tail(z) \in Seq(S)
      /\ Len(Tail(z)) = Len(z) - 1
      /\ \A j \in 1 .. Len(Tail(z)) : Tail(z)[j] = z[j + 1]
  BY <1>2, <1>3, HeadTailProperties
<1>5. \A j \in 1 .. Len(q) - 1 : Tail(z)[j] = IF j + 1 = i THEN EmptyPkt ELSE q[j + 1]
  BY <1>1, <1>2, <1>4
<1> QED
  BY <1>2, <1>4, <1>5 DEF TakeAt, z

\* Taking the head leaves the rest as it was.
LEMMA TakeHead ==
    ASSUME NEW S, NEW q \in Seq(S), 1 \in DOMAIN q
    PROVE  /\ TakeAt(q, 1) \in Seq(S)
           /\ Len(TakeAt(q, 1)) = Len(q) - 1
           /\ \A j \in 1 .. Len(q) - 1 : TakeAt(q, 1)[j] = q[j + 1]
<1>1. q # << >> /\ Len(q) \in Nat
  BY LenProperties, EmptySeq
<1>2. /\ Tail(q) \in Seq(S)
      /\ Len(Tail(q)) = Len(q) - 1
      /\ \A j \in 1 .. Len(Tail(q)) : Tail(q)[j] = q[j + 1]
  BY <1>1, HeadTailProperties
<1>3. TakeAt(q, 1) = Tail(q)
  BY LenProperties DEF TakeAt
<1> QED
  BY <1>2, <1>3

\* Writing p appends it, or leaves a full queue alone.
LEMMA WriteSlots ==
    ASSUME NEW S, NEW q \in Seq(S), NEW p \in S
    PROVE  /\ write_packet(q, p) \in Seq(S)
           /\ buffer_full(q) => write_packet(q, p) = q
           /\ ~ buffer_full(q) =>
                  /\ Len(write_packet(q, p)) = Len(q) + 1
                  /\ \A j \in 1 .. Len(q) : write_packet(q, p)[j] = q[j]
                  /\ write_packet(q, p)[Len(q) + 1] = p
  BY LenProperties DEF write_packet

\* The packets the layers build are packets.
LEMMA PktType ==
    ASSUME NEW d \in Direction, NEW o \in Owner, NEW k \in Kind
    PROVE  Pkt(d, o, k) \in PacketRecord
BY DEF Pkt, PacketRecord

\* No packet is mistaken for the zeroed slot.
LEMMA EmptyIsNoPacket ==
    /\ EmptyPkt \notin PacketRecord
    /\ \A d \in Direction, o \in Owner : ~ Tagged(EmptyPkt, d, o)
BY DEF EmptyPkt, PacketRecord, Tagged, Direction, Owner

\* A write keeps a queue within its slots, and so does a take.
LEMMA WriteFits ==
    ASSUME NEW S, NEW q \in Seq(S), NEW p \in S, Len(q) <= PACKET_BUFFER_SIZE
    PROVE  write_packet(q, p) \in Seq(S) /\ Len(write_packet(q, p)) <= PACKET_BUFFER_SIZE
<1>1. /\ write_packet(q, p) \in Seq(S)
      /\ buffer_full(q) => write_packet(q, p) = q
      /\ ~ buffer_full(q) => Len(write_packet(q, p)) = Len(q) + 1
  BY WriteSlots
<1>2. Len(q) \in Nat
  BY LenProperties
<1> QED
  BY <1>1, <1>2, BufferSizeAssumption DEF buffer_full

\* A search frees a slot.
LEMMA TakeFits ==
    ASSUME NEW S, EmptyPkt \in S, NEW q \in Seq(S), NEW i \in DOMAIN q, Len(q) <= PACKET_BUFFER_SIZE
    PROVE  /\ TakeAt(q, i) \in Seq(S)
           /\ Len(TakeAt(q, i)) < PACKET_BUFFER_SIZE
           /\ Len(TakeAt(q, i)) <= PACKET_BUFFER_SIZE
BY TakeSlots, LenProperties, BufferSizeAssumption

----------------------------------------------------------------------------
(* The pipeline. *)

\* What a slot of tx holds.
Slots == PacketRecord \cup {EmptyPkt}

\* What rx holds are packets.
LEMMA RxPackets == TypeOK => \A i \in DOMAIN rx : rx[i] \in PacketRecord
<1> SUFFICES ASSUME rx \in Seq(PacketRecord), NEW i \in DOMAIN rx
             PROVE  rx[i] \in PacketRecord
  BY DEF TypeOK
<1> QED
  BY LenProperties, ElementOfSeq

\* What a step may do to tx.
TxMoves ==
    \/ tx' = tx
    \/ \E p \in PacketRecord : tx' = write_packet(tx, p)
    \/ \E i \in DOMAIN tx : tx' = TakeAt(tx, i)
    \/ \E i \in DOMAIN tx : \E p \in PacketRecord : tx' = write_packet(TakeAt(tx, i), p)

\* Every step writes one packet to tx, takes one slot from it, takes and writes,
\* or leaves it.
LEMMA StepMovesTx == TypeOK /\ [Next]_vars => TxMoves
<1> SUFFICES ASSUME TypeOK, [Next]_vars PROVE TxMoves
  OBVIOUS
<1>1. \A d \in Direction, o \in Owner, k \in Kind : Pkt(d, o, k) \in PacketRecord
  BY PktType
<1>2. CASE Top \/ Timer
  BY <1>1, <1>2 DEF Top, Timer, TxMoves, Direction, Owner, Kind
<1>3. CASE Usb \/ TimerPrinted \/ RadioIrq \/ AppPrinted \/ MacIn \/ SendDone \/ UNCHANGED vars
  BY <1>3 DEF Usb, TimerPrinted, RadioIrq, AppPrinted, MacIn, SendDone, Sent, vars, TxMoves
<1>4. CASE AppIn
  <2>1. \A k \in Kind : \A a \in Answers(k) : a = << >> \/ a[1] \in PacketRecord
    BY <1>1 DEF Answers, Kind, Direction, Owner
  <2>2. \A i \in DOMAIN rx : rx[i].kind \in Kind
    BY RxPackets DEF PacketRecord
  <2>3. tx' = tx \/ \E p \in PacketRecord : tx' = write_packet(tx, p)
    BY <1>4, <2>1, <2>2 DEF AppIn, write_packet
  <2> QED
    BY <2>3 DEF TxMoves
<1>5. CASE AppOut
  BY <1>1, <1>5 DEF AppOut, TxMoves, Direction, Owner, Kind
<1>6. CASE NetIn
  <2>1. \A i \in DOMAIN rx : rx[i].kind \in Kind
    BY RxPackets DEF PacketRecord
  <2>2. tx' = tx \/ \E k \in Kind : tx' = write_packet(tx, Pkt("RETX", "MAC", k))
    BY <1>6, <2>1 DEF NetIn
  <2> QED
    BY <1>1, <2>2 DEF TxMoves, Direction, Owner
<1>7. CASE NetOut
  <2>1. tx' = tx \/ \E i \in DOMAIN tx :
            /\ Tagged(tx[i], "OUTGOING", "NET")
            /\ tx' = write_packet(TakeAt(tx, i), [tx[i] EXCEPT !.owner = "MAC"])
    BY <1>7 DEF NetOut, NetOutAt, FirstPending
  <2>2. ASSUME NEW i \in DOMAIN tx, Tagged(tx[i], "OUTGOING", "NET")
        PROVE  [tx[i] EXCEPT !.owner = "MAC"] \in PacketRecord
    <3>1. tx[i] \in Slots /\ tx[i] # EmptyPkt
      BY <2>2, LenProperties, ElementOfSeq, EmptyIsNoPacket DEF TypeOK, Slots, Direction, Owner
    <3> QED
      BY <3>1 DEF Slots, PacketRecord, Owner
  <2> QED
    BY <2>1, <2>2 DEF TxMoves
<1>8. CASE MacOut \/ MacRetx
  BY <1>8 DEF MacOut, MacRetx, MacTake, TxMoves
<1>9. CASE Environment
  BY <1>1, <1>9 DEF Environment, FrameArrives, ReceiverRestarts, FallSilent,
     TerminalSends, BeaconDuringDelay, TxMoves, Direction, Owner, Kind
<1> QED
  BY <1>2, <1>3, <1>4, <1>5, <1>6, <1>7, <1>8, <1>9 DEF Next, Loop

\* The part of the type invariant that speaks of tx.
TxOK == tx \in Seq(Slots) /\ Len(tx) <= PACKET_BUFFER_SIZE

\* Every step keeps tx a queue of slots.
LEMMA TxStep == TypeOK /\ [Next]_vars => TxOK'
<1> SUFFICES ASSUME TypeOK, [Next]_vars PROVE TxOK'
  OBVIOUS
<1>1. tx \in Seq(Slots) /\ Len(tx) <= PACKET_BUFFER_SIZE
  BY DEF TypeOK, Slots
<1>2. PacketRecord \subseteq Slots /\ EmptyPkt \in Slots
  BY DEF Slots
<1>3. \A i \in DOMAIN tx :
        TakeAt(tx, i) \in Seq(Slots) /\ Len(TakeAt(tx, i)) <= PACKET_BUFFER_SIZE
  BY <1>1, <1>2, TakeFits
<1> QED
  BY <1>1, <1>2, <1>3, StepMovesTx, WriteFits DEF TxMoves, TxOK

(***************************************************************************)
(* The order of rx.  A search zeroes the slot it matched but frees the     *)
(* head, so rx holds nothing but packets only because every search finds   *)
(* its packet at the head.  Type correctness therefore rests on the order, *)
(* and the two are inductive together.                                     *)
(***************************************************************************)
IInv == TypeOK /\ RxInOrder

\* The packet that the layer of stage s looks for can only be the head.
LEMMA SearchedIsHead ==
    ASSUME NEW s \in SearchStages, NEW q \in Seq(PacketRecord), InOrder(s, q),
           NEW i \in DOMAIN q, q[i].owner = Searches(s)
    PROVE  i = 1
<1>1. i \in 1 .. Len(q) /\ Len(q) \in Nat /\ DOMAIN q = 1 .. Len(q)
  BY LenProperties
<1>2. ASSUME i # 1 PROVE FALSE
  <2>1. 1 \in DOMAIN q /\ 1 < i
    BY <1>1, <1>2
  <2>2. RxRank(s, q[1].owner) < RxRank(s, q[i].owner) /\ q[1].owner \in RxOwners(s)
    BY <2>1 DEF InOrder
  <2> QED
    BY <2>2 DEF RxRank, RxOwners, Searches, SearchStages, AppStages
<1> QED
  BY <1>2

\* What a search of q by the layer of stage s may leave.
Left(s, q, left) ==
    \/ NonePending(q, "INCOMING", Searches(s)) /\ left = q
    \/ \E i \in DOMAIN q : FirstPending(q, "INCOMING", Searches(s), i) /\ left = TakeAt(q, i)

\* A layer that searches rx takes its packet off the head, or finds none: what
\* is left is a queue of the other layers' packets, in the order they had.
LEMMA SearchLeaves ==
    ASSUME NEW s \in SearchStages, NEW q \in Seq(PacketRecord), Len(q) <= PACKET_BUFFER_SIZE,
           InOrder(s, q), NEW left, Left(s, q, left)
    PROVE  /\ left \in Seq(PacketRecord)
           /\ Len(left) <= PACKET_BUFFER_SIZE
           /\ InOrder(s, left)
           /\ \A j \in DOMAIN left : left[j].owner # Searches(s)
<1>1. Len(q) \in Nat /\ DOMAIN q = 1 .. Len(q)
  BY LenProperties
<1>2. CASE NonePending(q, "INCOMING", Searches(s)) /\ left = q
  BY <1>2 DEF NonePending, Tagged, InOrder
<1>3. ASSUME NEW i \in DOMAIN q, FirstPending(q, "INCOMING", Searches(s), i), left = TakeAt(q, i)
      PROVE  /\ left \in Seq(PacketRecord)
             /\ Len(left) <= PACKET_BUFFER_SIZE
             /\ InOrder(s, left)
             /\ \A j \in DOMAIN left : left[j].owner # Searches(s)
  <2>1. i = 1
    BY <1>3, SearchedIsHead DEF FirstPending, Tagged
  <2>2. /\ left \in Seq(PacketRecord)
        /\ Len(left) = Len(q) - 1
        /\ \A j \in 1 .. Len(q) - 1 : left[j] = q[j + 1]
    BY <1>3, <2>1, TakeHead
  <2>3. DOMAIN left = 1 .. Len(q) - 1
    BY <2>2, LenProperties
  <2>4. \A j \in DOMAIN left : j + 1 \in DOMAIN q /\ j + 1 # 1 /\ left[j] = q[j + 1]
    BY <1>1, <2>2, <2>3
  <2>5. \A j \in DOMAIN left : left[j].owner # Searches(s)
    BY <2>4, SearchedIsHead
  <2>6. \A j \in DOMAIN left : left[j].dir = "INCOMING" /\ left[j].owner \in RxOwners(s)
    BY <2>4 DEF InOrder
  <2>7. \A j, k \in DOMAIN left :
           j < k => RxRank(s, left[j].owner) < RxRank(s, left[k].owner)
    <3> SUFFICES ASSUME NEW j \in DOMAIN left, NEW k \in DOMAIN left, j < k
                 PROVE  RxRank(s, left[j].owner) < RxRank(s, left[k].owner)
      OBVIOUS
    <3>1. j + 1 \in DOMAIN q /\ k + 1 \in DOMAIN q /\ j + 1 < k + 1
      BY <1>1, <2>3
    <3>2. RxRank(s, q[j + 1].owner) < RxRank(s, q[k + 1].owner)
      BY <3>1 DEF InOrder
    <3> QED
      BY <2>4, <3>2
  <2> QED
    BY <1>1, <2>2, <2>5, <2>6, <2>7, BufferSizeAssumption DEF InOrder
<1> QED
  BY <1>2, <1>3 DEF Left

\* A queue in order at stage s is in order at stage t when t admits its packets
\* and orders them alike.
LEMMA NextStage ==
    ASSUME NEW s, NEW t, NEW q, InOrder(s, q),
           \A i \in DOMAIN q : /\ q[i].owner \in RxOwners(t)
                               /\ RxRank(t, q[i].owner) = RxRank(s, q[i].owner)
    PROVE  InOrder(t, q)
BY DEF InOrder

\* Passing p up behind packets that all rank before it keeps the order; a full
\* buffer drops p.
LEMMA WriteKeepsOrder ==
    ASSUME NEW s, NEW q \in Seq(PacketRecord), Len(q) <= PACKET_BUFFER_SIZE, InOrder(s, q),
           NEW p \in PacketRecord, p.dir = "INCOMING", p.owner \in RxOwners(s),
           \A j \in DOMAIN q : RxRank(s, q[j].owner) < RxRank(s, p.owner)
    PROVE  /\ write_packet(q, p) \in Seq(PacketRecord)
           /\ Len(write_packet(q, p)) <= PACKET_BUFFER_SIZE
           /\ InOrder(s, write_packet(q, p))
<1> DEFINE w == write_packet(q, p)
<1>1. Len(q) \in Nat /\ DOMAIN q = 1 .. Len(q)
  BY LenProperties
<1>2. w \in Seq(PacketRecord) /\ Len(w) <= PACKET_BUFFER_SIZE
  BY WriteFits
<1>3. CASE buffer_full(q)
  BY <1>2, <1>3, WriteSlots
<1>4. CASE ~ buffer_full(q)
  <2>1. /\ Len(w) = Len(q) + 1
        /\ \A j \in 1 .. Len(q) : w[j] = q[j]
        /\ w[Len(q) + 1] = p
    BY <1>4, WriteSlots
  <2>2. DOMAIN w = 1 .. Len(q) + 1
    BY <1>2, <2>1, LenProperties
  <2> HIDE DEF w
  <2>3. \A j \in DOMAIN w : (j \in DOMAIN q /\ w[j] = q[j]) \/ (j = Len(q) + 1 /\ w[j] = p)
    BY <1>1, <2>1, <2>2
  <2>4. \A j \in DOMAIN w : w[j].dir = "INCOMING" /\ w[j].owner \in RxOwners(s)
    BY <2>3 DEF InOrder
  <2>5. \A j, k \in DOMAIN w : j < k => RxRank(s, w[j].owner) < RxRank(s, w[k].owner)
    <3> SUFFICES ASSUME NEW j \in DOMAIN w, NEW k \in DOMAIN w, j < k
                 PROVE  RxRank(s, w[j].owner) < RxRank(s, w[k].owner)
      OBVIOUS
    <3>1. j \in DOMAIN q /\ w[j] = q[j]
      BY <1>1, <2>2, <2>3
    <3>2. CASE k \in DOMAIN q /\ w[k] = q[k]
      BY <3>1, <3>2 DEF InOrder
    <3>3. CASE w[k] = p
      BY <3>1, <3>3
    <3> QED
      BY <2>3, <3>2, <3>3
  <2> QED
    BY <1>2, <2>4, <2>5 DEF InOrder, w
<1> QED
  BY <1>3, <1>4

RxOK == rx \in Seq(PacketRecord) /\ Len(rx) <= PACKET_BUFFER_SIZE

\* Where the stages of the timer lead.
LEMMA TimerLeads ==
    /\ Timer => pc' \in {"TIMER_PRINT", "RADIO", "TOP"}
    /\ TimerPrinted => pc' \in {"RADIO", "TOP"}
  BY DEF Timer, TimerPrinted, Goto, AfterTimer

\* Every step keeps rx a queue of packets in order.
LEMMA RxStep == IInv /\ [Next]_vars => RxOK' /\ RxInOrder'
<1> SUFFICES ASSUME IInv, [Next]_vars PROVE RxOK' /\ RxInOrder'
  OBVIOUS
<1>1. rx \in Seq(PacketRecord) /\ Len(rx) <= PACKET_BUFFER_SIZE /\ InOrder(pc, rx)
  BY DEF IInv, TypeOK, RxInOrder
<1>2. ASSUME rx' = rx, RxOwners(pc') = RxOwners(pc),
             \A o \in Owner : RxRank(pc', o) = RxRank(pc, o)
      PROVE  RxOK' /\ RxInOrder'
  <2>1. \A i \in DOMAIN rx : /\ rx[i].owner \in RxOwners(pc')
                             /\ RxRank(pc', rx[i].owner) = RxRank(pc, rx[i].owner)
    BY <1>1, <1>2, RxPackets DEF IInv, PacketRecord, InOrder
  <2>2. InOrder(pc', rx)
    BY <1>1, <2>1, NextStage
  <2> QED
    BY <1>1, <1>2, <2>2 DEF RxOK, RxInOrder
<1>3. CASE Top \/ Usb
  BY <1>2, <1>3 DEF Top, Usb, Goto, RxOwners, RxRank, AppStages
<1>3a. CASE Timer \/ TimerPrinted
  <2>1. rx' = rx /\ pc \in {"TIMER", "TIMER_PRINT"} /\ pc' \in {"TIMER_PRINT", "RADIO", "TOP"}
    BY <1>3a, TimerLeads DEF Timer, TimerPrinted, Goto
  <2>2. RxOwners(pc') = RxOwners(pc) /\ \A o \in Owner : RxRank(pc', o) = RxRank(pc, o)
    BY <2>1 DEF RxOwners, RxRank, AppStages
  <2> QED
    BY <1>2, <2>1, <2>2
<1>4. CASE AppPrinted \/ AppOut
  BY <1>2, <1>4 DEF AppPrinted, AppOut, Goto, RxOwners, RxRank, AppStages
<1>5. CASE NetOut
  BY <1>2, <1>5 DEF NetOut, NetOutAt, Goto, RxOwners, RxRank, AppStages
<1>6. CASE MacOut \/ MacRetx
  BY <1>2, <1>6 DEF MacOut, MacRetx, MacTake, RxOwners, RxRank, AppStages
<1>7. CASE SendDone
  BY <1>2, <1>7 DEF SendDone, Sent, Goto, RxOwners, RxRank, AppStages
<1>8. CASE Environment \/ UNCHANGED vars
  BY <1>2, <1>8 DEF Environment, FrameArrives, ReceiverRestarts, FallSilent,
     TerminalSends, BeaconDuringDelay, vars
<1>9. CASE RadioIrq
  <2>1. pc = "RADIO" /\ pc' = "APP_IN"
    BY <1>9 DEF RadioIrq, Goto
  <2>2. \A i \in DOMAIN rx : /\ rx[i].owner \in RxOwners("APP_IN") \ {"MAC"}
                             /\ RxRank("APP_IN", rx[i].owner) = RxRank(pc, rx[i].owner)
    BY <1>1, <2>1 DEF InOrder, RxOwners, RxRank, AppStages
  <2>3. InOrder("APP_IN", rx)
    BY <1>1, <2>2, NextStage
  <2>4. CASE rx' = rx
    BY <1>1, <2>1, <2>3, <2>4 DEF RxOK, RxInOrder
  <2>5. CASE frame # "NONE" /\ rx' = write_packet(rx, Pkt("INCOMING", "MAC", frame))
    <3> DEFINE p == Pkt("INCOMING", "MAC", frame)
    <3>1. p \in PacketRecord /\ p.dir = "INCOMING" /\ p.owner = "MAC"
      BY <2>5, PktType, RxKindAssumption DEF IInv, TypeOK, Pkt, Direction, Owner
    <3>2. /\ p.owner \in RxOwners("APP_IN")
          /\ \A j \in DOMAIN rx : RxRank("APP_IN", rx[j].owner) < RxRank("APP_IN", p.owner)
      BY <2>2, <3>1 DEF RxOwners, RxRank
    <3> HIDE DEF p
    <3>3. /\ write_packet(rx, p) \in Seq(PacketRecord)
          /\ Len(write_packet(rx, p)) <= PACKET_BUFFER_SIZE
          /\ InOrder("APP_IN", write_packet(rx, p))
      BY <1>1, <2>3, <3>1, <3>2, WriteKeepsOrder
    <3> QED
      BY <2>1, <2>5, <3>3 DEF RxOK, RxInOrder, p
  <2> QED
    BY <1>9, <2>4, <2>5 DEF RadioIrq
<1>10. CASE AppIn
  <2>1. /\ pc = "APP_IN" /\ pc \in SearchStages /\ Searches(pc) = "APP"
        /\ pc' \in {"CMD_NET", "APP_PRINT", "APP_OUT"}
    BY <1>10 DEF AppIn, Searches, SearchStages
  <2>2. Left(pc, rx, rx')
    BY <1>10, <2>1 DEF AppIn, Left
  <2>3. /\ RxOK' /\ InOrder(pc, rx')
        /\ \A j \in DOMAIN rx' : rx'[j].owner # "APP"
    BY <1>1, <2>1, <2>2, SearchLeaves DEF RxOK
  <2>4. \A i \in DOMAIN rx' : /\ rx'[i].owner \in RxOwners(pc')
                              /\ RxRank(pc', rx'[i].owner) = RxRank(pc, rx'[i].owner)
    BY <2>1, <2>3 DEF InOrder, RxOwners, RxRank, AppStages
  <2> QED
    BY <2>3, <2>4, NextStage DEF RxInOrder
<1>11. CASE NetIn
  <2>1. /\ pc = "NET_IN" /\ pc \in SearchStages /\ Searches(pc) = "NET"
        /\ pc' = "NET_OUT"
    BY <1>11 DEF NetIn, Goto, Searches, SearchStages
  <2>2. PICK left, k :
           k \in Kind /\
           Left(pc, rx, left) /\ (rx' = left \/ rx' = write_packet(left, ForApp(k)))
    <3>1. CASE NonePending(rx, "INCOMING", "NET") /\ rx' = rx
      BY <2>1, <3>1 DEF Left, Kind
    <3>2. ASSUME NEW i \in DOMAIN rx, FirstPending(rx, "INCOMING", "NET", i),
                 \/ rx' = TakeAt(rx, i)
                 \/ rx' = write_packet(TakeAt(rx, i), ForApp(rx[i].kind))
          PROVE  \E left, k :
           k \in Kind /\
                    Left(pc, rx, left) /\ (rx' = left \/ rx' = write_packet(left, ForApp(k)))
      BY <2>1, <3>2, RxPackets DEF IInv, PacketRecord, Left
    <3> QED
      BY <1>11, <3>1, <3>2 DEF NetIn
  <2>3. /\ left \in Seq(PacketRecord) /\ Len(left) <= PACKET_BUFFER_SIZE /\ InOrder(pc, left)
        /\ \A j \in DOMAIN left : left[j].owner # "NET"
    BY <1>1, <2>1, <2>2, SearchLeaves
  <2>4. \A j \in DOMAIN left : left[j].owner = "MAC"
    BY <2>1, <2>3 DEF InOrder, RxOwners, AppStages
  <2>5. InOrder("NET_OUT", left)
    BY <2>1, <2>3, <2>4, NextStage DEF RxOwners, RxRank, AppStages
  <2>6. /\ ForApp(k) \in PacketRecord /\ ForApp(k).dir = "INCOMING"
        /\ ForApp(k).owner \in RxOwners("NET_OUT")
        /\ \A j \in DOMAIN left :
              RxRank("NET_OUT", left[j].owner) < RxRank("NET_OUT", ForApp(k).owner)
    <3>1. /\ ForApp(k) \in PacketRecord /\ ForApp(k).dir = "INCOMING"
          /\ ForApp(k).owner = "APP"
      BY <2>2, PktType DEF ForApp, Pkt, Direction, Owner
    <3> QED
      BY <2>4, <3>1 DEF RxOwners, RxRank, AppStages
  <2>7. /\ write_packet(left, ForApp(k)) \in Seq(PacketRecord)
        /\ Len(write_packet(left, ForApp(k))) <= PACKET_BUFFER_SIZE
        /\ InOrder("NET_OUT", write_packet(left, ForApp(k)))
    BY <2>3, <2>5, <2>6, WriteKeepsOrder
  <2> QED
    BY <2>1, <2>2, <2>3, <2>5, <2>7 DEF RxOK, RxInOrder
<1>12. CASE MacIn
  <2>1. /\ pc = "MAC_IN" /\ pc \in SearchStages /\ Searches(pc) = "MAC"
        /\ pc' = "MAC_OUT"
    BY <1>12 DEF MacIn, Goto, Searches, SearchStages
  <2>2. PICK left, p :
           /\ p \in PacketRecord
           /\ Left(pc, rx, left)
           /\ p.dir = "INCOMING" /\ p.owner = "NET"
           /\ rx' = left \/ rx' = write_packet(left, p)
    <3>1. CASE NonePending(rx, "INCOMING", "MAC") /\ rx' = rx
      <4>1. /\ ForApp_KeepsOwner("PING") \in PacketRecord
            /\ ForApp_KeepsOwner("PING").dir = "INCOMING"
            /\ ForApp_KeepsOwner("PING").owner = "NET"
        BY PktType DEF ForApp_KeepsOwner, Pkt, Direction, Owner, Kind
      <4> QED
        BY <2>1, <3>1, <4>1 DEF Left
    <3>2. ASSUME NEW i \in DOMAIN rx, FirstPending(rx, "INCOMING", "MAC", i),
                 \/ rx' = TakeAt(rx, i)
                 \/ rx' = write_packet(TakeAt(rx, i), ForNet(rx[i]))
          PROVE  \E left, p :
                    /\ p \in PacketRecord
                    /\ Left(pc, rx, left)
                    /\ p.dir = "INCOMING" /\ p.owner = "NET"
                    /\ rx' = left \/ rx' = write_packet(left, p)
      <4> DEFINE p == ForNet(rx[i])
      <4>1. rx[i] \in PacketRecord /\ rx[i].dir = "INCOMING"
        BY <3>2, RxPackets DEF IInv, FirstPending, Tagged
      <4>2. p \in PacketRecord /\ p.dir = "INCOMING" /\ p.owner = "NET"
        BY <4>1 DEF ForNet, PacketRecord, Owner
      <4>3. Left(pc, rx, TakeAt(rx, i))
        BY <2>1, <3>2 DEF Left
      <4>4. rx' = TakeAt(rx, i) \/ rx' = write_packet(TakeAt(rx, i), p)
        BY <3>2
      <4> HIDE DEF p
      <4> WITNESS TakeAt(rx, i), p
      <4> QED
        BY <4>2, <4>3, <4>4
    <3> QED
      BY <1>12, <3>1, <3>2 DEF MacIn
  <2>3. /\ left \in Seq(PacketRecord) /\ Len(left) <= PACKET_BUFFER_SIZE /\ InOrder(pc, left)
        /\ \A j \in DOMAIN left : left[j].owner # "MAC"
    BY <1>1, <2>1, <2>2, SearchLeaves
  <2>4. \A j \in DOMAIN left : left[j].owner = "APP"
    BY <2>1, <2>3 DEF InOrder, RxOwners, AppStages
  <2>5. \A i, j \in DOMAIN left : ~ (i < j)
    BY <2>3, <2>4 DEF InOrder, RxRank
  <2>6. InOrder("MAC_OUT", left)
    BY <2>3, <2>4, <2>5 DEF InOrder, RxOwners, AppStages
  <2>7. /\ p.owner \in RxOwners("MAC_OUT")
        /\ \A j \in DOMAIN left : RxRank("MAC_OUT", left[j].owner) < RxRank("MAC_OUT", p.owner)
    BY <2>2, <2>4 DEF RxOwners, RxRank, AppStages
  <2>8. /\ write_packet(left, p) \in Seq(PacketRecord)
        /\ Len(write_packet(left, p)) <= PACKET_BUFFER_SIZE
        /\ InOrder("MAC_OUT", write_packet(left, p))
    BY <2>2, <2>3, <2>6, <2>7, WriteKeepsOrder
  <2> QED
    BY <2>1, <2>2, <2>3, <2>6, <2>8 DEF RxOK, RxInOrder
<1> QED
  BY <1>3, <1>3a, <1>4, <1>5, <1>6, <1>7, <1>8, <1>9, <1>10, <1>11, <1>12 DEF Next, Loop

(***************************************************************************)
(* The theorems.                                                           *)
(***************************************************************************)

\* The inductive invariant holds initially and is kept by every step.
LEMMA InitIInv == Init => IInv
<1> SUFFICES ASSUME Init PROVE IInv
  OBVIOUS
<1>1. /\ << >> \in Seq(PacketRecord) /\ << >> \in Seq(PacketRecord \cup {EmptyPkt})
      /\ Len(<< >>) = 0 /\ DOMAIN << >> = {}
  OBVIOUS
<1>2. RxInOrder
  BY <1>1 DEF Init, RxInOrder, InOrder
<1>3. TypeOK
  <2>1. rx \in Seq(PacketRecord) /\ tx \in Seq(PacketRecord \cup {EmptyPkt})
    BY <1>1 DEF Init
  <2>2. Len(rx) <= PACKET_BUFFER_SIZE /\ Len(tx) <= PACKET_BUFFER_SIZE
    BY <1>1, BufferSizeAssumption DEF Init
  <2>3. pc \in Stage /\ (air # NoPkt <=> pc \in OnAir)
    BY DEF Init, Stage, OnAir
  <2> QED
    BY <2>1, <2>2, <2>3 DEF Init, TypeOK
<1> QED
  BY <1>2, <1>3 DEF IInv

\* Every step keeps the buffers in their types and rx in its order.
LEMMA StepIInv == IInv /\ [Next]_vars => IInv'
<1> SUFFICES ASSUME IInv, [Next]_vars PROVE IInv'
  OBVIOUS
<1>1. TxOK' /\ RxOK' /\ RxInOrder'
  BY TxStep, RxStep DEF IInv
<1>2. TypeOK
  BY DEF IInv
<1>3. (pc \in Stage)'
  <2>1. CASE Timer \/ TimerPrinted
    BY <2>1, TimerLeads DEF Stage
  <2>2. CASE ~ (Timer \/ TimerPrinted)
    BY <1>2, <2>2 DEF TypeOK, Next, Loop, Top, Usb, RadioIrq, AppIn, AppPrinted,
       AppOut, NetIn, NetOut, NetOutAt, MacIn, MacOut, MacRetx, MacTake, SendDone, Sent, Goto, Stage,
       Environment, FrameArrives, ReceiverRestarts, FallSilent, TerminalSends, BeaconDuringDelay, vars
  <2> QED
    BY <2>1, <2>2
<1>4. (frame \in RxKind \cup {"NONE"})'
  BY <1>2 DEF TypeOK, Next, Loop, Top, Usb, Timer, TimerPrinted, RadioIrq, AppIn, AppPrinted,
     AppOut, NetIn, NetOut, NetOutAt, MacIn, MacOut, MacRetx, MacTake, SendDone, Sent,
     Environment, FrameArrives, ReceiverRestarts, FallSilent, TerminalSends, BeaconDuringDelay, vars
<1>5. (printed \in BOOLEAN /\ silent \in BOOLEAN /\ radio_ok \in BOOLEAN)'
  BY <1>2 DEF TypeOK, Next, Loop, Top, Usb, Timer, TimerPrinted, RadioIrq, AppIn, AppPrinted,
     AppOut, NetIn, NetOut, NetOutAt, MacIn, MacOut, MacRetx, MacTake, SendDone, Sent,
     Environment, FrameArrives, ReceiverRestarts, FallSilent, TerminalSends, BeaconDuringDelay, vars
<1>6. (air \in PacketRecord \cup {NoPkt} /\ (air # NoPkt <=> pc \in OnAir))'
  <2>1. CASE MacOut \/ MacRetx
    <3>1. ASSUME NEW d \in Direction, NEW i \in DOMAIN tx, FirstPending(tx, d, "MAC", i)
          PROVE  tx[i] \in PacketRecord /\ tx[i] # NoPkt
      <4>1. tx[i] \in Slots
        BY <1>2, LenProperties, ElementOfSeq DEF TypeOK, Slots
      <4> QED
        BY <3>1, <4>1, EmptyIsNoPacket DEF FirstPending, Slots, NoPkt, Owner
    <3> QED
      BY <1>2, <2>1, <3>1 DEF TypeOK, MacOut, MacRetx, MacTake, OnAir, Direction
  <2>2. CASE SendDone
    BY <2>2 DEF SendDone, Sent, Goto, OnAir
  <2>2a. CASE Timer \/ TimerPrinted
    <3>1. air' = air /\ pc \notin OnAir /\ pc' \notin OnAir
      BY <2>2a, TimerLeads DEF Timer, TimerPrinted, Goto, OnAir
    <3> QED
      BY <1>2, <3>1 DEF TypeOK
  <2>3. CASE ~ (MacOut \/ MacRetx \/ SendDone \/ Timer \/ TimerPrinted)
    BY <1>2, <2>3 DEF TypeOK, Next, Loop, Top, Usb, RadioIrq, AppIn, AppPrinted,
       AppOut, NetIn, NetOut, NetOutAt, MacIn, Goto, OnAir, Environment, FrameArrives,
       ReceiverRestarts, FallSilent, TerminalSends, BeaconDuringDelay, vars
  <2> QED
    BY <2>1, <2>2, <2>2a, <2>3
<1> QED
  BY <1>1, <1>3, <1>4, <1>5, <1>6 DEF IInv, TypeOK, TxOK, RxOK, Slots

\* So they are at any time.
LEMMA Inductive == Spec => []IInv
BY InitIInv, StepIInv, PTL DEF Spec

\* The queues, the radio and the stage always have the values their types allow;
\* above all, rx never holds a zeroed slot.
THEOREM TypeCorrect == Spec => []TypeOK
BY Inductive, PTL DEF IInv

\* Received packets climb through rx in the order of the stages.
THEOREM RxStaysInOrder == Spec => []RxInOrder
BY Inductive, PTL DEF IInv

\* Every search of rx takes the head: no received packet is lost in the node.
THEOREM RxTakesOnlyTheHead == Spec => []RxTakesHead
<1>1. IInv => RxTakesHead
  <2> SUFFICES ASSUME IInv, pc \in SearchStages, NEW i \in DOMAIN rx,
                      FirstPending(rx, "INCOMING", Searches(pc), i)
               PROVE  i = 1
    BY DEF RxTakesHead
  <2> QED
    BY SearchedIsHead DEF IInv, TypeOK, RxInOrder, FirstPending, Tagged
<1> QED
  BY <1>1, Inductive, PTL

\* With three slots or more a frame, and a packet passed up, always finds room.
THEOREM RxNeverOverflows == PACKET_BUFFER_SIZE >= 3 => (Spec => []RxHasRoom)
<1> SUFFICES ASSUME PACKET_BUFFER_SIZE >= 3 PROVE Spec => []RxHasRoom
  OBVIOUS
<1>1. IInv => RxHasRoom
  <2> SUFFICES ASSUME IInv, pc \in {"RADIO", "NET_IN", "MAC_IN"} PROVE ~ buffer_full(rx)
    BY DEF RxHasRoom
  <2>1. rx \in Seq(PacketRecord) /\ InOrder(pc, rx)
    BY DEF IInv, TypeOK, RxInOrder
  <2>2. Len(rx) \in Nat /\ DOMAIN rx = 1 .. Len(rx)
    BY <2>1, LenProperties
  <2>3. ASSUME Len(rx) >= 3 PROVE FALSE
    <3>1. 1 \in DOMAIN rx /\ 2 \in DOMAIN rx /\ 3 \in DOMAIN rx
      BY <2>2, <2>3
    <3>2. /\ RxRank(pc, rx[1].owner) < RxRank(pc, rx[2].owner)
          /\ RxRank(pc, rx[2].owner) < RxRank(pc, rx[3].owner)
          /\ \A i \in {1, 2, 3} : rx[i].owner \in RxOwners(pc)
      BY <2>1, <3>1 DEF InOrder
    <3> QED
      BY <3>2 DEF RxOwners, RxRank, AppStages
  <2> QED
    BY <2>2, <2>3, BufferSizeAssumption DEF buffer_full
<1> QED
  BY <1>1, Inductive, PTL

\* tx never fills with zeroed slots: a search that zeroes one also frees one, and
\* only a packet can take it.
THEOREM NodeIsNeverMuted == Spec => []NeverMute
<1>1. Init => NeverMute
  BY BufferSizeAssumption DEF Init, NeverMute, buffer_full
<1>2. IInv /\ NeverMute /\ [Next]_vars => NeverMute'
  <2> SUFFICES ASSUME IInv, NeverMute, [Next]_vars PROVE NeverMute'
    OBVIOUS
  <2>1. tx \in Seq(Slots) /\ Len(tx) <= PACKET_BUFFER_SIZE
    BY DEF IInv, TypeOK, Slots
  <2>2. Len(tx) \in Nat /\ DOMAIN tx = 1 .. Len(tx)
    BY <2>1, LenProperties
  <2>3. ASSUME NEW q \in Seq(Slots), NEW p \in PacketRecord, tx' = write_packet(q, p),
               ~ buffer_full(q)
        PROVE  NeverMute'
    <3>1. /\ tx' \in Seq(Slots) /\ Len(tx') = Len(q) + 1 /\ tx'[Len(q) + 1] = p
      <4>1. p \in Slots
        BY DEF Slots
      <4> QED
        BY <2>3, <4>1, WriteSlots
    <3>2. Len(q) + 1 \in DOMAIN tx'
      BY <3>1, LenProperties
    <3> QED
      BY <3>1, <3>2, EmptyIsNoPacket DEF NeverMute
  <2>4. CASE tx' = tx
    BY <2>4 DEF NeverMute, buffer_full
  <2>5. ASSUME NEW p \in PacketRecord, tx' = write_packet(tx, p) PROVE NeverMute'
    <3>1. CASE buffer_full(tx)
      BY <2>4, <2>5, <3>1 DEF write_packet
    <3> QED
      BY <2>1, <2>3, <2>5, <3>1
  <2>6. ASSUME NEW i \in DOMAIN tx
        PROVE  TakeAt(tx, i) \in Seq(Slots) /\ ~ buffer_full(TakeAt(tx, i))
    <3>1. EmptyPkt \in Slots
      BY DEF Slots
    <3> QED
      BY <2>1, <2>6, <3>1, TakeFits, LenProperties, BufferSizeAssumption DEF buffer_full
  <2>7. ASSUME NEW i \in DOMAIN tx, tx' = TakeAt(tx, i) PROVE NeverMute'
    BY <2>6, <2>7 DEF NeverMute, buffer_full
  <2>8. ASSUME NEW i \in DOMAIN tx, NEW p \in PacketRecord, tx' = write_packet(TakeAt(tx, i), p)
        PROVE  NeverMute'
    BY <2>3, <2>6, <2>8
  <2> QED
    BY <2>4, <2>5, <2>7, <2>8, StepMovesTx DEF TxMoves, IInv
<1> QED
  BY <1>1, <1>2, Inductive, PTL DEF Spec

(***************************************************************************)
(* Relays in tx.  Only the network stage writes one, when there is none,   *)
(* and it is tagged for the MAC layer; every stage until the MAC layer     *)
(* asks for it keeps it, moves it up or loses it, and none can be added.   *)
(***************************************************************************)
RelayStages == {"NET_OUT", "MAC_IN", "MAC_OUT", "OUT_AIR", "MAC_RETX"}

NoRelay(q) == \A i \in DOMAIN q : q[i].dir # "RETX"

OneRelay(q) ==
    /\ \A i \in DOMAIN q : q[i].dir = "RETX" => q[i].owner = "MAC"
    /\ \A i, j \in DOMAIN q : q[i].dir = "RETX" /\ q[j].dir = "RETX" => i = j

RelayInv == OneRelay(tx) /\ (pc \notin RelayStages => NoRelay(tx))

\* Taking a slot adds no relay.
LEMMA TakeKeepsRelays ==
    ASSUME NEW q \in Seq(Slots), NEW i \in DOMAIN q
    PROVE  /\ NoRelay(q) => NoRelay(TakeAt(q, i))
           /\ OneRelay(q) => OneRelay(TakeAt(q, i))
<1> DEFINE t == TakeAt(q, i)
<1>1. /\ t \in Seq(Slots)
      /\ Len(t) = Len(q) - 1
      /\ \A j \in 1 .. Len(q) - 1 : t[j] = IF j + 1 = i THEN EmptyPkt ELSE q[j + 1]
  <2>1. EmptyPkt \in Slots
    BY DEF Slots
  <2> QED
    BY <2>1, TakeSlots
<1>2. Len(q) \in Nat /\ DOMAIN q = 1 .. Len(q) /\ DOMAIN t = 1 .. Len(t)
  BY <1>1, LenProperties
<1> HIDE DEF t
<1>3. \A j \in DOMAIN t : j \in Nat /\ j + 1 \in DOMAIN q /\ (t[j] = EmptyPkt \/ t[j] = q[j + 1])
  BY <1>1, <1>2
<1>4. \A j \in DOMAIN t : t[j].dir = "RETX" => t[j] = q[j + 1]
  BY <1>3 DEF EmptyPkt
<1>5. NoRelay(q) => NoRelay(t)
  BY <1>3, <1>4 DEF NoRelay
<1>6. ASSUME OneRelay(q) PROVE OneRelay(t)
  <2>1. ASSUME NEW j \in DOMAIN t, NEW k \in DOMAIN t, t[j].dir = "RETX", t[k].dir = "RETX"
        PROVE  j = k
    <3>1. j + 1 = k + 1
      BY <1>3, <1>4, <1>6, <2>1 DEF OneRelay
    <3> QED
      BY <1>3, <3>1
  <2>2. \A j \in DOMAIN t : t[j].dir = "RETX" => t[j].owner = "MAC"
    BY <1>3, <1>4, <1>6 DEF OneRelay
  <2> QED
    BY <2>1, <2>2 DEF OneRelay
<1> QED
  BY <1>5, <1>6 DEF t

\* Neither does writing a packet that is no relay; a relay written where there
\* is none is the only one.
LEMMA WriteKeepsRelays ==
    ASSUME NEW q \in Seq(Slots), NEW p \in PacketRecord
    PROVE  /\ p.dir # "RETX" /\ NoRelay(q) => NoRelay(write_packet(q, p))
           /\ p.dir # "RETX" /\ OneRelay(q) => OneRelay(write_packet(q, p))
           /\ p.owner = "MAC" /\ NoRelay(q) => OneRelay(write_packet(q, p))
<1> DEFINE w == write_packet(q, p)
<1>1. p \in Slots /\ Len(q) \in Nat /\ DOMAIN q = 1 .. Len(q)
  BY LenProperties DEF Slots
<1>2. w \in Seq(Slots) /\ DOMAIN w = 1 .. Len(w)
  BY <1>1, WriteSlots, LenProperties
<1>3. CASE buffer_full(q)
  <2>1. w = q
    BY <1>1, <1>3, WriteSlots
  <2> QED
    BY <2>1 DEF NoRelay, OneRelay
<1>4. CASE ~ buffer_full(q)
  <2>1. Len(w) = Len(q) + 1 /\ (\A j \in 1 .. Len(q) : w[j] = q[j]) /\ w[Len(q) + 1] = p
    <3>1. w = Append(q, p)
      BY <1>4 DEF write_packet
    <3> HIDE DEF w
    <3> QED
      BY <1>1, <3>1, AppendProperties
  <2> HIDE DEF w
  <2>2. \A j \in DOMAIN w : (j \in DOMAIN q /\ w[j] = q[j]) \/ (j = Len(q) + 1 /\ w[j] = p)
    BY <1>1, <1>2, <2>1
  <2>3. p.dir # "RETX" /\ NoRelay(q) => NoRelay(w)
    BY <2>2 DEF NoRelay
  <2>4. p.dir # "RETX" /\ OneRelay(q) => OneRelay(w)
    BY <2>2 DEF OneRelay
  <2>5. p.owner = "MAC" /\ NoRelay(q) => OneRelay(w)
    BY <2>2 DEF OneRelay, NoRelay
  <2> QED
    BY <2>3, <2>4, <2>5 DEF w
<1> QED
  BY <1>3, <1>4

\* What the MAC layer asks for with its last search is every relay there is.
LEMMA LastSearchClearsRelays ==
    ASSUME NEW q \in Seq(Slots), OneRelay(q)
    PROVE  /\ NonePending(q, "RETX", "MAC") => NoRelay(q)
           /\ \A i \in DOMAIN q : FirstPending(q, "RETX", "MAC", i) => NoRelay(TakeAt(q, i))
<1>1. NonePending(q, "RETX", "MAC") => NoRelay(q)
  BY DEF NonePending, Tagged, OneRelay, NoRelay
<1>2. ASSUME NEW i \in DOMAIN q, FirstPending(q, "RETX", "MAC", i)
      PROVE  NoRelay(TakeAt(q, i))
  <2> DEFINE t == TakeAt(q, i)
  <2>1. /\ t \in Seq(Slots)
        /\ Len(t) = Len(q) - 1
        /\ \A j \in 1 .. Len(q) - 1 : t[j] = IF j + 1 = i THEN EmptyPkt ELSE q[j + 1]
    <3>1. EmptyPkt \in Slots
      BY DEF Slots
    <3> QED
      BY <3>1, TakeSlots
  <2>2. Len(q) \in Nat /\ DOMAIN q = 1 .. Len(q) /\ DOMAIN t = 1 .. Len(t)
    BY <2>1, LenProperties
  <2> HIDE DEF t
  <2>3. q[i].dir = "RETX"
    BY <1>2 DEF FirstPending, Tagged
  <2>4. ASSUME NEW j \in DOMAIN t PROVE t[j].dir # "RETX"
    <3>1. j + 1 \in DOMAIN q /\ t[j] = IF j + 1 = i THEN EmptyPkt ELSE q[j + 1]
      BY <2>1, <2>2
    <3>2. CASE j + 1 = i
      BY <3>1, <3>2 DEF EmptyPkt
    <3>3. CASE j + 1 # i
      BY <2>3, <3>1, <3>3 DEF OneRelay
    <3> QED
      BY <3>2, <3>3
  <2> QED
    BY <2>4 DEF NoRelay, t
<1> QED
  BY <1>1, <1>2

\* What a step other than NetIn may do to tx: it writes no relay.
OutMoves ==
    \/ tx' = tx
    \/ \E p \in PacketRecord : p.dir # "RETX" /\ tx' = write_packet(tx, p)
    \/ \E i \in DOMAIN tx : tx' = TakeAt(tx, i)
    \/ \E i \in DOMAIN tx : \E p \in PacketRecord :
          p.dir # "RETX" /\ tx' = write_packet(TakeAt(tx, i), p)

\* Only the network stage writes a relay; what else moves in tx adds none.
LEMMA OthersWriteNoRelay == TypeOK /\ [Next]_vars => NetIn \/ OutMoves
<1> SUFFICES ASSUME TypeOK, [Next]_vars, ~ NetIn PROVE OutMoves
  OBVIOUS
<1>1. \A o \in Owner, k \in Kind :
        Pkt("OUTGOING", o, k) \in PacketRecord /\ Pkt("OUTGOING", o, k).dir # "RETX"
  BY PktType DEF Pkt, Direction
<1>2. CASE Top \/ Timer
  BY <1>1, <1>2 DEF Top, Timer, OutMoves, Owner, Kind
<1>3. CASE Usb \/ TimerPrinted \/ RadioIrq \/ AppPrinted \/ MacIn \/ SendDone \/ UNCHANGED vars
  BY <1>3 DEF Usb, TimerPrinted, RadioIrq, AppPrinted, MacIn, SendDone, Sent, vars, OutMoves
<1>4. CASE AppIn
  <2>1. \A k \in Kind : \A a \in Answers(k) :
          a = << >> \/ (a[1] \in PacketRecord /\ a[1].dir # "RETX")
    BY <1>1 DEF Answers, Kind, Owner
  <2>2. \A i \in DOMAIN rx : rx[i].kind \in Kind
    BY RxPackets DEF PacketRecord
  <2>3. tx' = tx \/ \E p \in PacketRecord : p.dir # "RETX" /\ tx' = write_packet(tx, p)
    BY <1>4, <2>1, <2>2 DEF AppIn, write_packet
  <2> QED
    BY <2>3 DEF OutMoves
<1>5. CASE AppOut
  BY <1>1, <1>5 DEF AppOut, OutMoves, Owner, Kind
<1>6. CASE NetOut
  <2>1. tx' = tx \/ \E i \in DOMAIN tx :
            /\ Tagged(tx[i], "OUTGOING", "NET")
            /\ tx' = write_packet(TakeAt(tx, i), [tx[i] EXCEPT !.owner = "MAC"])
    BY <1>6 DEF NetOut, NetOutAt, FirstPending
  <2>2. ASSUME NEW i \in DOMAIN tx, Tagged(tx[i], "OUTGOING", "NET")
        PROVE  /\ [tx[i] EXCEPT !.owner = "MAC"] \in PacketRecord
               /\ [tx[i] EXCEPT !.owner = "MAC"].dir # "RETX"
    <3>1. tx[i] \in Slots /\ tx[i] # EmptyPkt
      BY <2>2, LenProperties, ElementOfSeq, EmptyIsNoPacket DEF TypeOK, Slots, Direction, Owner
    <3> QED
      BY <2>2, <3>1 DEF Slots, PacketRecord, Owner, Tagged
  <2> QED
    BY <2>1, <2>2 DEF OutMoves
<1>7. CASE MacOut \/ MacRetx
  BY <1>7 DEF MacOut, MacRetx, MacTake, OutMoves
<1>8. CASE Environment
  BY <1>1, <1>8 DEF Environment, FrameArrives, ReceiverRestarts, FallSilent,
     TerminalSends, BeaconDuringDelay, OutMoves, Owner, Kind
<1> QED
  BY <1>2, <1>3, <1>4, <1>5, <1>6, <1>7, <1>8 DEF Next, Loop

\* Every step keeps the relays in tx few.
LEMMA StepRelayInv == IInv /\ RelayInv /\ [Next]_vars => RelayInv'
<1> SUFFICES ASSUME TypeOK, RelayInv, [Next]_vars PROVE RelayInv'
  BY DEF IInv
<1>1. tx \in Seq(Slots) /\ (\A i \in DOMAIN tx : TakeAt(tx, i) \in Seq(Slots))
  <2>1. tx \in Seq(Slots) /\ Len(tx) <= PACKET_BUFFER_SIZE /\ EmptyPkt \in Slots
    BY DEF TypeOK, Slots
  <2> QED
    BY <2>1, TakeFits
<1>2. NoRelay(tx) => OneRelay(tx)
  BY DEF NoRelay, OneRelay
<1>3. CASE NetIn
  <2>1. pc = "NET_IN" /\ pc' = "NET_OUT" /\ NoRelay(tx)
    BY <1>3 DEF NetIn, Goto, RelayInv, RelayStages
  <2>2. \A i \in DOMAIN rx : rx[i].kind \in Kind
    BY RxPackets DEF PacketRecord
  <2>3. tx' = tx \/ \E k \in Kind : tx' = write_packet(tx, Pkt("RETX", "MAC", k))
    BY <1>3, <2>2 DEF NetIn
  <2>4. \A k \in Kind : Pkt("RETX", "MAC", k) \in PacketRecord /\ Pkt("RETX", "MAC", k).owner = "MAC"
    BY PktType DEF Pkt, Direction, Owner
  <2>5. OneRelay(tx')
    BY <1>1, <1>2, <2>1, <2>3, <2>4, WriteKeepsRelays
  <2> QED
    BY <2>1, <2>5 DEF RelayInv, RelayStages
<1>4. CASE MacRetx
  <2>1. NoRelay(tx')
    BY <1>1, <1>4, LastSearchClearsRelays DEF MacRetx, MacTake, RelayInv
  <2> QED
    BY <2>1 DEF RelayInv, NoRelay, OneRelay
<1>5. CASE ~ NetIn /\ ~ MacRetx
  <2>1. pc' \notin RelayStages => pc \notin RelayStages
    BY <1>5 DEF RelayStages, Next, Loop, Top, Usb, Timer, TimerPrinted, RadioIrq, AppIn,
       AppPrinted, AppOut, NetOut, NetOutAt, MacIn, MacOut, MacTake, SendDone, Sent, Goto,
       Environment, FrameArrives, ReceiverRestarts, FallSilent, TerminalSends,
       BeaconDuringDelay, vars
  <2>2. (OneRelay(tx) => OneRelay(tx')) /\ (NoRelay(tx) => NoRelay(tx'))
    BY <1>1, <1>5, OthersWriteNoRelay, TakeKeepsRelays, WriteKeepsRelays DEF OutMoves
  <2> QED
    BY <2>1, <2>2 DEF RelayInv
<1> QED
  BY <1>3, <1>4, <1>5

\* A relayed payload leaves tx, or is lost from it, in the iteration of the loop
\* that queued it: handle_broadcast_packet never finds one waiting.
THEOREM RelaysLeaveAtOnce == Spec => []RelayLeavesAtOnce
<1>1. Init => RelayInv
  BY DEF Init, RelayInv, NoRelay, OneRelay
<1>2. RelayInv => RelayLeavesAtOnce
  BY DEF RelayInv, RelayStages, NoRelay, RelayLeavesAtOnce
<1> QED
  BY <1>1, <1>2, StepRelayInv, Inductive, PTL DEF Spec

----------------------------------------------------------------------------
(* The ring.                                                                *)

\* What a slot of the ring holds.
Cell == Packet \cup {EmptyPkt}

(***************************************************************************)
(* The arithmetic of the ring.                                             *)
(***************************************************************************)

\* Pointers and offsets stay within the array, distinct offsets name distinct
\* slots, and once the pointer has advanced offset j is what j + 1 was.
LEMMA RingArithmetic ==
    ASSUME NEW r \in Slot
    PROVE  /\ Advance(r) \in Slot
           /\ \A i \in Slot : Offset(r, i) \in Slot
           /\ \A i, j \in Slot : Offset(r, i) = Offset(r, j) => i = j
           /\ \A j \in Slot : j + 1 \in Slot => Offset(Advance(r), j) = Offset(r, j + 1)
BY BufferSizeAssumption DEF Slot, Advance, Offset

(***************************************************************************)
(* The pointers.                                                           *)
(***************************************************************************)
RingInv == RingTypeOK /\ PointersAgree

\* An empty ring agrees with its pointers.
LEMMA RingInitInv == RingInit => RingInv
BY BufferSizeAssumption DEF RingInit, RingInv, RingTypeOK, PointersAgree, Slot, At, Offset

\* Every call keeps the pointers where the count says.
LEMMA RingStepInv == RingInv /\ [RingNext]_bvars => RingInv'
<1> SUFFICES ASSUME RingInv, [RingNext]_bvars PROVE RingInv'
  OBVIOUS
<1>1. /\ buffer \in [Slot -> Cell] /\ read_pointer \in Slot /\ write_pointer \in Slot
      /\ data_size \in 0 .. PACKET_BUFFER_SIZE /\ returned \in Cell
      /\ write_pointer = IF data_size = PACKET_BUFFER_SIZE THEN read_pointer ELSE At(data_size)
  BY DEF RingInv, RingTypeOK, PointersAgree, Cell
<1>2. \A i \in Slot : Advance(i) \in Slot /\ At(i) \in Slot
  BY <1>1, RingArithmetic DEF At
<1>3. CASE \E p \in Packet : WritePacket(p)
  <2>1. PICK p \in Packet : WritePacket(p)
    BY <1>3
  <2>2. RingTypeOK'
    BY <1>1, <1>2, <2>1, BufferSizeAssumption DEF WritePacket, full, RingTypeOK, Cell
  <2>3. PointersAgree'
    BY <1>1, <2>1, BufferSizeAssumption DEF WritePacket, full, PointersAgree, At, Offset, Advance, Slot
  <2> QED
    BY <2>2, <2>3 DEF RingInv
<1>4. ASSUME read_pointer' = Advance(read_pointer), data_size' = data_size - 1,
             data_size # 0, write_pointer' = write_pointer
      PROVE  PointersAgree' /\ read_pointer' \in Slot /\ data_size' \in 0 .. PACKET_BUFFER_SIZE
  BY <1>1, <1>4, BufferSizeAssumption DEF PointersAgree, At, Offset, Advance, Slot
<1>5. CASE ReadPacket
  BY <1>1, <1>2, <1>4, <1>5 DEF ReadPacket, empty, RingInv, RingTypeOK, Cell
<1>6. CASE \E d \in Direction, o \in Owner : SearchPendingPacket(d, o)
  <2>1. PICK i \in 0 .. data_size - 1 :
           /\ returned' = buffer[At(i)] /\ PopAt(i)
           /\ data_size' = data_size - 1 /\ write_pointer' = write_pointer
    BY <1>6 DEF SearchPendingPacket
  <2>2. i \in Slot /\ data_size # 0
    BY <1>1, <2>1, BufferSizeAssumption DEF Slot
  <2>3. EmptyPkt \in Cell /\ buffer[At(i)] \in Cell
    BY <1>1, <1>2, <2>2 DEF Cell
  <2> QED
    BY <1>1, <1>2, <1>4, <2>1, <2>2, <2>3 DEF PopAt, RingInv, RingTypeOK, Cell
<1>7. CASE Rejected \/ UNCHANGED bvars
  BY <1>1, <1>7 DEF Rejected, bvars, RingInv, RingTypeOK, PointersAgree, At
<1> QED
  BY <1>3, <1>5, <1>6, <1>7 DEF RingNext

\* So they are there at any time.
LEMMA RingInductive == RingSpec => []RingInv
BY RingInitInv, RingStepInv, PTL DEF RingSpec

\* The pointers stay within the array and the count within its size.
THEOREM RingTypeCorrect == RingSpec => []RingTypeOK
BY RingInductive, PTL DEF RingInv

\* The write pointer stays just behind the newest live slot.
THEOREM PointersAlwaysAgree == RingSpec => []PointersAgree
BY RingInductive, PTL DEF RingInv

(***************************************************************************)
(* The refinement.                                                         *)
(***************************************************************************)

\* The n live slots from r on are a queue of n cells.
LEMMA LiveSlotsType ==
    ASSUME NEW b \in [Slot -> Cell], NEW r \in Slot, NEW n \in 0 .. PACKET_BUFFER_SIZE
    PROVE  /\ LiveSlots(b, r, n) \in Seq(Cell)
           /\ Len(LiveSlots(b, r, n)) = n
           /\ \A i \in 1 .. n : LiveSlots(b, r, n)[i] = b[Offset(r, i - 1)]
<1>1. n \in Nat /\ \A i \in 1 .. n : i - 1 \in Slot
  BY BufferSizeAssumption DEF Slot
<1>2. \A i \in 1 .. n : b[Offset(r, i - 1)] \in Cell
  BY <1>1, RingArithmetic
<1>3. LiveSlots(b, r, n) \in [1 .. n -> Cell]
  BY <1>2 DEF LiveSlots
<1>4. LiveSlots(b, r, n) \in Seq(Cell)
  BY <1>1, <1>3, SeqDef
<1>5. Len(LiveSlots(b, r, n)) = n
  BY <1>1, <1>3, <1>4, LenProperties
<1> QED
  BY <1>4, <1>5 DEF LiveSlots

\* Filling the slot behind the newest live one appends to the queue.
LEMMA WriteAtEnd ==
    ASSUME NEW b \in [Slot -> Cell], NEW r \in Slot, NEW n \in 0 .. PACKET_BUFFER_SIZE,
           n < PACKET_BUFFER_SIZE, NEW p \in Cell
    PROVE  LiveSlots([b EXCEPT ![Offset(r, n)] = p], r, n + 1) = Append(LiveSlots(b, r, n), p)
<1> DEFINE c == [b EXCEPT ![Offset(r, n)] = p]
           new == LiveSlots(c, r, n + 1)
           old == LiveSlots(b, r, n)
<1>1. n \in Nat /\ n \in Slot /\ n + 1 \in 0 .. PACKET_BUFFER_SIZE
  BY BufferSizeAssumption DEF Slot
<1>2. Offset(r, n) \in Slot /\ c \in [Slot -> Cell]
  BY <1>1, RingArithmetic
<1>3. /\ new \in Seq(Cell) /\ Len(new) = n + 1
      /\ \A i \in 1 .. n + 1 : new[i] = c[Offset(r, i - 1)]
  BY <1>1, <1>2, LiveSlotsType
<1>4. /\ old \in Seq(Cell) /\ Len(old) = n
      /\ \A i \in 1 .. n : old[i] = b[Offset(r, i - 1)]
  BY LiveSlotsType
<1>5. \A i \in 1 .. n + 1 :
         /\ Offset(r, i - 1) \in Slot
         /\ Offset(r, i - 1) = Offset(r, n) => i = n + 1
  <2> SUFFICES ASSUME NEW i \in 1 .. n + 1
               PROVE  /\ Offset(r, i - 1) \in Slot
                      /\ Offset(r, i - 1) = Offset(r, n) => i = n + 1
    OBVIOUS
  <2>1. i - 1 \in Slot
    BY <1>1, BufferSizeAssumption DEF Slot
  <2>2. Offset(r, i - 1) = Offset(r, n) => i - 1 = n
    BY <1>1, <2>1, RingArithmetic
  <2> QED
    BY <1>1, <2>1, <2>2, RingArithmetic
<1>6. \A i \in 1 .. n + 1 : c[Offset(r, i - 1)] = IF i = n + 1 THEN p ELSE b[Offset(r, i - 1)]
  BY <1>1, <1>5
<1> HIDE DEF new, old, c
<1>7. /\ Append(old, p) \in Seq(Cell) /\ Len(Append(old, p)) = n + 1
      /\ \A i \in 1 .. n + 1 : Append(old, p)[i] = IF i = n + 1 THEN p ELSE old[i]
  BY <1>1, <1>4
<1>8. \A i \in 1 .. n + 1 : new[i] = Append(old, p)[i]
  <2>1. \A i \in 1 .. n + 1 : i \in 1 .. n \/ i = n + 1
    BY <1>1
  <2> QED
    BY <1>3, <1>4, <1>6, <1>7, <2>1
<1>9. new = Append(old, p)
  BY <1>3, <1>7, <1>8, SeqEqual
<1> QED
  BY <1>9 DEF new, old, c

\* Zeroing the slot at offset i and advancing the read pointer takes position
\* i + 1 of the queue.
LEMMA TakeFromRing ==
    ASSUME NEW b \in [Slot -> Cell], NEW r \in Slot, NEW n \in 1 .. PACKET_BUFFER_SIZE,
           NEW i \in 0 .. n - 1
    PROVE  LiveSlots([b EXCEPT ![Offset(r, i)] = EmptyPkt], Advance(r), n - 1)
               = TakeAt(LiveSlots(b, r, n), i + 1)
<1> DEFINE c == [b EXCEPT ![Offset(r, i)] = EmptyPkt]
           new == LiveSlots(c, Advance(r), n - 1)
           old == LiveSlots(b, r, n)
<1>1. /\ n \in Nat /\ n \in 0 .. PACKET_BUFFER_SIZE /\ n - 1 \in 0 .. PACKET_BUFFER_SIZE
      /\ i \in Slot /\ EmptyPkt \in Cell
  BY BufferSizeAssumption DEF Slot, Cell
<1>2. Advance(r) \in Slot /\ Offset(r, i) \in Slot /\ c \in [Slot -> Cell]
  BY <1>1, RingArithmetic
<1>3. /\ new \in Seq(Cell) /\ Len(new) = n - 1
      /\ \A j \in 1 .. n - 1 : new[j] = c[Offset(Advance(r), j - 1)]
  BY <1>1, <1>2, LiveSlotsType
<1>4. /\ old \in Seq(Cell) /\ Len(old) = n
      /\ \A j \in 1 .. n : old[j] = b[Offset(r, j - 1)]
  BY <1>1, LiveSlotsType
<1>5. \A j \in 1 .. n - 1 : c[Offset(Advance(r), j - 1)] = IF j = i THEN EmptyPkt ELSE b[Offset(r, j)]
  <2> SUFFICES ASSUME NEW j \in 1 .. n - 1
               PROVE  c[Offset(Advance(r), j - 1)] = IF j = i THEN EmptyPkt ELSE b[Offset(r, j)]
    OBVIOUS
  <2>1. j \in Slot /\ j - 1 \in Slot /\ (j - 1) + 1 = j
    BY <1>1, BufferSizeAssumption DEF Slot
  <2>2. Offset(Advance(r), j - 1) = Offset(r, j)
    BY <2>1, RingArithmetic
  <2>3. Offset(r, j) \in Slot /\ (Offset(r, j) = Offset(r, i) => j = i)
    BY <1>1, <2>1, RingArithmetic
  <2> QED
    BY <2>2, <2>3
<1> HIDE DEF new, old, c
<1>6. i + 1 \in DOMAIN old
  BY <1>1, <1>4, LenProperties
<1>7. /\ TakeAt(old, i + 1) \in Seq(Cell) /\ Len(TakeAt(old, i + 1)) = n - 1
      /\ \A j \in 1 .. n - 1 :
            TakeAt(old, i + 1)[j] = IF j + 1 = i + 1 THEN EmptyPkt ELSE old[j + 1]
  BY <1>1, <1>4, <1>6, TakeSlots
<1>8. \A j \in 1 .. n - 1 : new[j] = TakeAt(old, i + 1)[j]
  <2> SUFFICES ASSUME NEW j \in 1 .. n - 1 PROVE new[j] = TakeAt(old, i + 1)[j]
    OBVIOUS
  <2>1. j + 1 \in 1 .. n /\ (j + 1) - 1 = j /\ (j + 1 = i + 1 <=> j = i)
    BY <1>1
  <2>2. old[j + 1] = b[Offset(r, j)]
    BY <1>4, <2>1
  <2>3. TakeAt(old, i + 1)[j] = IF j = i THEN EmptyPkt ELSE old[j + 1]
    BY <1>7, <2>1
  <2>4. new[j] = IF j = i THEN EmptyPkt ELSE b[Offset(r, j)]
    BY <1>3, <1>5
  <2> QED
    BY <2>2, <2>3, <2>4
<1>9. new = TakeAt(old, i + 1)
  BY <1>3, <1>7, <1>8, SeqEqual
<1> QED
  BY <1>9 DEF new, old, c

\* Advancing the read pointer alone drops the head.
LEMMA ReadFromRing ==
    ASSUME NEW b \in [Slot -> Cell], NEW r \in Slot, NEW n \in 1 .. PACKET_BUFFER_SIZE
    PROVE  /\ LiveSlots(b, r, n) # << >>
           /\ Head(LiveSlots(b, r, n)) = b[r]
           /\ LiveSlots(b, Advance(r), n - 1) = Tail(LiveSlots(b, r, n))
<1> DEFINE new == LiveSlots(b, Advance(r), n - 1)
           old == LiveSlots(b, r, n)
<1>1. n \in Nat /\ n \in 0 .. PACKET_BUFFER_SIZE /\ n - 1 \in 0 .. PACKET_BUFFER_SIZE
  BY BufferSizeAssumption
<1>2. Advance(r) \in Slot /\ 0 \in Slot /\ Offset(r, 0) = r
  BY RingArithmetic, BufferSizeAssumption DEF Slot, Offset
<1>3. /\ new \in Seq(Cell) /\ Len(new) = n - 1
      /\ \A j \in 1 .. n - 1 : new[j] = b[Offset(Advance(r), j - 1)]
  BY <1>1, <1>2, LiveSlotsType
<1>4. /\ old \in Seq(Cell) /\ Len(old) = n
      /\ \A j \in 1 .. n : old[j] = b[Offset(r, j - 1)]
  BY <1>1, LiveSlotsType
<1> HIDE DEF new, old
<1>5. old # << >> /\ Head(old) = b[r]
  BY <1>1, <1>2, <1>4
<1>6. /\ Tail(old) \in Seq(Cell) /\ Len(Tail(old)) = n - 1
      /\ \A j \in 1 .. n - 1 : Tail(old)[j] = old[j + 1]
  BY <1>4, <1>5, HeadTailProperties
<1>7. \A j \in 1 .. n - 1 : new[j] = Tail(old)[j]
  <2> SUFFICES ASSUME NEW j \in 1 .. n - 1 PROVE new[j] = Tail(old)[j]
    OBVIOUS
  <2>1. /\ j \in Slot /\ j - 1 \in Slot /\ (j - 1) + 1 = j
        /\ j + 1 \in 1 .. n /\ (j + 1) - 1 = j
    BY <1>1, BufferSizeAssumption DEF Slot
  <2>2. Offset(Advance(r), j - 1) = Offset(r, j)
    BY <2>1, RingArithmetic
  <2>3. old[j + 1] = b[Offset(r, j)]
    BY <1>4, <2>1
  <2> QED
    BY <1>3, <1>6, <2>2, <2>3
<1>8. new = Tail(old)
  BY <1>3, <1>6, <1>7, SeqEqual
<1> QED
  BY <1>5, <1>8 DEF new, old

\* The operators of Packets read through the refinement are the operators of
\* Packets themselves.
LEMMA SamePackets ==
    /\ Q!EmptyPkt = EmptyPkt
    /\ \A q, p : Q!write_packet(q, p) = write_packet(q, p)
    /\ \A q, i : Q!TakeAt(q, i) = TakeAt(q, i)
    /\ \A q, d, o, i : Q!FirstPending(q, d, o, i) = FirstPending(q, d, o, i)
    /\ Q!Direction = Direction /\ Q!Owner = Owner
BY DEF Q!EmptyPkt, EmptyPkt, Q!write_packet, write_packet, Q!buffer_full, buffer_full,
   Q!TakeAt, TakeAt, Q!FirstPending, FirstPending, Q!Tagged, Tagged,
   Q!Direction, Direction, Q!Owner, Owner

\* Each step of the ring is a step of the queue, or leaves it alone.
LEMMA RingStepRefines == RingInv /\ [RingNext]_bvars => [Q!Next]_<<contents, returned>>
<1> SUFFICES ASSUME RingInv, [RingNext]_bvars PROVE Q!Next \/ UNCHANGED <<contents, returned>>
  BY DEF Q!qvars
<1>1. /\ buffer \in [Slot -> Cell] /\ read_pointer \in Slot
      /\ data_size \in 0 .. PACKET_BUFFER_SIZE
      /\ write_pointer = IF data_size = PACKET_BUFFER_SIZE THEN read_pointer ELSE At(data_size)
  BY DEF RingInv, RingTypeOK, PointersAgree, Cell
<1>2. contents' = LiveSlots(buffer', read_pointer', data_size')
  BY DEF contents
<1>3. CASE \E p \in Packet : WritePacket(p)
  <2>1. PICK p \in Packet : WritePacket(p)
    BY <1>3
  <2>2. /\ data_size < PACKET_BUFFER_SIZE /\ data_size' = data_size + 1
        /\ read_pointer' = read_pointer /\ returned' = EmptyPkt
        /\ buffer' = [buffer EXCEPT ![Offset(read_pointer, data_size)] = p]
    <3>1. data_size < PACKET_BUFFER_SIZE
      BY <1>1, <2>1, BufferSizeAssumption DEF WritePacket, full
    <3>2. write_pointer = Offset(read_pointer, data_size)
      BY <1>1, <3>1, BufferSizeAssumption DEF At
    <3> QED
      BY <2>1, <3>1, <3>2 DEF WritePacket
  <2>3. contents' = Append(contents, p)
    BY <1>1, <1>2, <2>2, WriteAtEnd DEF contents, Cell
  <2>4. ~ buffer_full(contents)
    BY <1>1, <2>2, LiveSlotsType, BufferSizeAssumption DEF contents, buffer_full
  <2>5. Q!Write(p)
    BY <2>2, <2>3, <2>4, SamePackets DEF Q!Write, write_packet
  <2> QED
    BY <2>5 DEF Q!Next
<1>4. CASE ReadPacket
  <2>1. /\ data_size \in 1 .. PACKET_BUFFER_SIZE /\ data_size' = data_size - 1
        /\ read_pointer' = Advance(read_pointer) /\ buffer' = buffer
        /\ returned' = buffer[read_pointer]
    BY <1>1, <1>4, BufferSizeAssumption DEF ReadPacket, empty
  <2>2. /\ contents # << >> /\ returned' = Head(contents)
        /\ contents' = Tail(contents)
    BY <1>1, <1>2, <2>1, ReadFromRing DEF contents
  <2> QED
    BY <2>2 DEF Q!Read, Q!Next
<1>5. CASE \E d \in Direction, o \in Owner : SearchPendingPacket(d, o)
  <2>1. PICK d \in Direction, o \in Owner, i \in 0 .. data_size - 1 :
           /\ Tagged(buffer[At(i)], d, o)
           /\ \A j \in 0 .. i - 1 : ~ Tagged(buffer[At(j)], d, o)
           /\ returned' = buffer[At(i)]
           /\ PopAt(i)
           /\ data_size' = data_size - 1
    BY <1>5 DEF SearchPendingPacket
  <2>2. data_size \in 1 .. PACKET_BUFFER_SIZE /\ i + 1 \in 1 .. data_size /\ (i + 1) - 1 = i
    BY <1>1, BufferSizeAssumption
  <2>3. /\ contents \in Seq(Cell) /\ Len(contents) = data_size
        /\ \A j \in 1 .. data_size : contents[j] = buffer[At(j - 1)]
    BY <1>1, LiveSlotsType DEF contents, At
  <2>4. DOMAIN contents = 1 .. data_size /\ contents[i + 1] = buffer[At(i)]
    BY <2>2, <2>3, LenProperties
  <2>5. \A j \in 1 .. i : ~ Tagged(contents[j], d, o)
    <3> SUFFICES ASSUME NEW j \in 1 .. i PROVE ~ Tagged(contents[j], d, o)
      OBVIOUS
    <3>1. j \in 1 .. data_size /\ j - 1 \in 0 .. i - 1
      BY <1>1, <2>2
    <3> QED
      BY <2>1, <2>3, <3>1
  <2>6. FirstPending(contents, d, o, i + 1)
    BY <2>1, <2>2, <2>4, <2>5 DEF FirstPending
  <2>7. contents' = TakeAt(contents, i + 1)
    BY <1>1, <1>2, <2>1, <2>2, TakeFromRing DEF PopAt, At, contents
  <2>8. Q!Take(d, o)
    BY <2>1, <2>2, <2>4, <2>6, <2>7, SamePackets DEF Q!Take
  <2> QED
    BY <2>8, SamePackets DEF Q!Next
<1>6. CASE Rejected
  BY <1>2, <1>6, SamePackets DEF Rejected, Q!Nothing, Q!Next, contents
<1>7. CASE UNCHANGED bvars
  BY <1>2, <1>7 DEF bvars, contents
<1> QED
  BY <1>3, <1>4, <1>5, <1>6, <1>7 DEF RingNext

\* The ring implements the bounded queue, whatever its size.
THEOREM RingImplementsQueue == RingSpec => ImplementsQueue
<1>1. RingInit => Q!Init
  <2> SUFFICES ASSUME RingInit PROVE contents = << >> /\ returned = Q!EmptyPkt
    BY DEF Q!Init
  <2>1. RingTypeOK /\ data_size = 0
    BY RingInitInv DEF RingInit, RingInv
  <2>2. contents \in Seq(Cell) /\ Len(contents) = 0
    BY <2>1, LiveSlotsType DEF RingTypeOK, contents, Cell
  <2> QED
    BY <2>2, EmptySeq, SamePackets DEF RingInit
<1>2. RingInv /\ [RingNext]_bvars => [Q!Next]_<<contents, returned>>
  BY RingStepRefines
<1> QED
  BY <1>1, <1>2, RingInductive, PTL DEF RingSpec, ImplementsQueue, Q!Spec, Q!qvars
=============================================================================
