---------------------------- MODULE NodePipeline ----------------------------
(***************************************************************************)
(* The main loop of a mesh node (Reset_Handler in app/lora/main.c): the    *)
(* radio, MAC, network and application layers hand packets to each other   *)
(* through two shared buffers, rx and tx, one stage of the loop at a time. *)
(*                                                                         *)
(* The loop is single threaded, but it is not atomic: prints poll the USB  *)
(* port and may run a terminal command, and the delays of a transmission   *)
(* poll the timer and may queue a beacon.  Both write to tx in the middle  *)
(* of a stage.                                                             *)
(*                                                                         *)
(* Verdicts that depend on payloads (is this frame for me, is it a         *)
(* duplicate, does the request deserve an answer) are left open here: each *)
(* is a disjunction of the outcomes the code has.                          *)
(***************************************************************************)
EXTENDS Packets, FiniteSets

CONSTANT RxKind   \* the kinds of frames that arrive over the air

ASSUME RxKindAssumption == RxKind \subseteq Kind

NoPkt == EmptyPkt

VARIABLES
    pc,      \* the stage of the loop about to run
    rx, tx,  \* pRxBuf and pTxBuf, as queues
    frame,   \* the frame the radio holds for radio_irq_handler, or NoPkt
    air,     \* the packet being transmitted, or NoPkt
    printed, \* something was printed during this transmission
    silent,  \* no more frames, commands or beacons will come
    radio_ok \* radio_init succeeded at the start: else no layer ever runs

vars == <<pc, rx, tx, frame, air, printed, silent, radio_ok>>

Stage == {"TOP", "USB", "TIMER", "TIMER_PRINT", "RADIO", "APP_IN", "CMD_NET",
          "CMD_MAC", "APP_PRINT", "APP_OUT", "NET_IN", "NET_OUT", "MAC_IN",
          "MAC_OUT", "MAC_RETX", "CMD_AIR", "OUT_AIR", "RETX_AIR"}

\* The stages at which the application has run but the network layer has not.
AppStages == {"CMD_NET", "CMD_MAC", "CMD_AIR", "APP_PRINT", "APP_OUT", "NET_IN"}

OnAir == {"CMD_AIR", "OUT_AIR", "RETX_AIR"}

TypeOK ==
    /\ pc \in Stage
    /\ rx \in Seq(PacketRecord)
    /\ tx \in Seq(PacketRecord \cup {EmptyPkt})
    /\ Len(rx) <= PACKET_BUFFER_SIZE
    /\ Len(tx) <= PACKET_BUFFER_SIZE
    /\ frame \in RxKind \cup {"NONE"}
    /\ air \in PacketRecord \cup {NoPkt}
    /\ (air # NoPkt) <=> (pc \in OnAir)
    /\ printed \in BOOLEAN
    /\ silent \in BOOLEAN
    /\ radio_ok \in BOOLEAN

Init ==
    /\ pc = "TOP"
    /\ rx = <<>>
    /\ tx = <<>>
    /\ frame = "NONE"
    /\ air = NoPkt
    /\ printed = FALSE
    /\ silent = FALSE
    /\ radio_ok \in BOOLEAN

(***************************************************************************)
(* The environment.                                                        *)
(***************************************************************************)

\* A frame arrives while the receiver is on.  The radio holds one: a second
\* one overwrites a first that the loop has not read yet.
FrameArrives(k) ==
    /\ ~ silent /\ radio_ok
    /\ frame' = k
    /\ UNCHANGED <<pc, rx, tx, air, printed, silent, radio_ok>>

\* The world falls silent for good.
FallSilent ==
    /\ ~ silent
    /\ silent' = TRUE
    /\ UNCHANGED <<pc, rx, tx, frame, air, printed, radio_ok>>

\* A setting, from the terminal or from a command, restarts the receiver and
\* discards a frame it still held.
ReceiverRestarts ==
    /\ ~ silent
    /\ pc \in {"USB", "TIMER_PRINT", "APP_PRINT"}
    /\ frame' = "NONE"
    /\ UNCHANGED <<pc, rx, tx, air, printed, silent, radio_ok>>

\* A terminal command that sends: `send <message>` leaves the packet to the
\* application layer, every other one (ping, cfg, cfgota, ota) to the network
\* layer.  It runs where the loop polls the USB port: at its own stage and in a
\* print, which the timeouts, beaconHandler and app_incoming do, and
\* transmitFrame after a message of this node's own.  (A command in a print
\* before app_incoming answers leaves what one at the stage before it leaves.)
TerminalSends(o, k) ==
    /\ ~ silent
    /\ \/ pc \in {"TOP", "USB", "TIMER_PRINT", "APP_PRINT"}
       \/ pc \in OnAir /\ (printed \/ air = Pkt("OUTGOING", "MAC", "PAYLOAD"))
    /\ tx' = write_packet(tx, Pkt("OUTGOING", o, k))
    /\ UNCHANGED <<pc, rx, frame, air, printed, silent, radio_ok>>

\* beaconHandler inside the delays of aloha_channel_access and radio_send.
BeaconDuringDelay ==
    /\ ~ silent
    /\ pc \in OnAir
    /\ ~ buffer_full(tx)
    /\ tx' = write_packet(tx, Pkt("OUTGOING", "NET", "CONTROL"))
    /\ printed' = TRUE
    /\ UNCHANGED <<pc, rx, frame, air, silent, radio_ok>>

(***************************************************************************)
(* The stages of the loop, in order.                                       *)
(***************************************************************************)

Goto(from, to) == pc = from /\ pc' = to

\* Top of the loop: a pending configuration check may queue its ping or its
\* rollback report, if the radio came up.
Top ==
    /\ Goto("TOP", "USB")
    /\ \/ tx' = tx
       \/ ~ silent /\ radio_ok /\ tx' = write_packet(tx, Pkt("OUTGOING", "NET", "CONTROL"))
    /\ UNCHANGED <<rx, frame, air, printed, silent, radio_ok>>

\* usb_cdc_poll; the commands it runs are TerminalSends.
Usb == Goto("USB", "TIMER") /\ UNCHANGED <<rx, tx, frame, air, printed, silent, radio_ok>>

\* The layers run only on a node whose radio came up.
AfterTimer == IF radio_ok THEN "RADIO" ELSE "TOP"

\* timer_poll: the beacon is due and not suspended, or nothing happens.
Timer ==
    /\ \/ Goto("TIMER", AfterTimer) /\ tx' = tx
       \/ /\ Goto("TIMER", "TIMER_PRINT")
          /\ ~ silent
          /\ ~ buffer_full(tx)
          /\ tx' = write_packet(tx, Pkt("OUTGOING", "NET", "CONTROL"))
    /\ UNCHANGED <<rx, frame, air, printed, silent, radio_ok>>

TimerPrinted ==
    /\ Goto("TIMER_PRINT", AfterTimer)
    /\ UNCHANGED <<rx, tx, frame, air, printed, silent, radio_ok>>

\* radio_irq_handler and receive_packet: one frame per iteration, none while
\* the radio is busy.
RadioIrq ==
    /\ Goto("RADIO", "APP_IN")
    /\ \/ UNCHANGED <<rx, frame>>
       \/ /\ frame # "NONE"
          /\ rx' = write_packet(rx, Pkt("INCOMING", "MAC", frame))
          /\ frame' = "NONE"
    /\ UNCHANGED <<tx, air, printed, silent, radio_ok>>

\* What app_incoming queues in answer to a packet of kind k (<<>>: nothing).
Answers(k) ==
    CASE k = "PING"       -> {<<Pkt("OUTGOING", "NET", "CONTROL")>>}
      [] k = "REQUEST"    -> {<<>>, <<Pkt("OUTGOING", "NET", "OTA_ACK")>>,
                                    <<Pkt("OUTGOING", "NET", "CONTROL")>>}
      [] k = "CMD_BEACON" -> {<<>>, <<Pkt("OUTGOING", "NET", "CONTROL")>>}
      [] OTHER            -> {<<>>}

\* dcf_app_interface(INCOMING): take the packet for the application and answer
\* it.  The answer to the beacon-interval command is pushed through the network
\* and MAC layers on the spot.
AppIn ==
    /\ pc = "APP_IN"
    /\ \/ /\ NonePending(rx, "INCOMING", "APP")
          /\ pc' = "APP_OUT"
          /\ UNCHANGED <<rx, tx>>
       \/ \E i \in DOMAIN rx :
          /\ FirstPending(rx, "INCOMING", "APP", i)
          /\ rx' = TakeAt(rx, i)
          /\ \E a \in Answers(rx[i].kind) :
                IF a = <<>> \/ buffer_full(tx)
                THEN tx' = tx /\ pc' = "APP_PRINT"
                ELSE /\ tx' = Append(tx, a[1])
                     /\ pc' = IF rx[i].kind = "CMD_BEACON" THEN "CMD_NET" ELSE "APP_PRINT"
    /\ UNCHANGED <<frame, air, printed, silent, radio_ok>>

AppPrinted ==
    Goto("APP_PRINT", "APP_OUT") /\ UNCHANGED <<rx, tx, frame, air, printed, silent, radio_ok>>

\* dcf_app_interface(OUTGOING) and app_outgoing: number the message and pass it
\* to the network layer.
AppOut ==
    /\ Goto("APP_OUT", "NET_IN")
    /\ \/ NonePending(tx, "OUTGOING", "APP") /\ tx' = tx
       \/ \E i \in DOMAIN tx :
          /\ FirstPending(tx, "OUTGOING", "APP", i)
          /\ tx' = write_packet(TakeAt(tx, i), Pkt("OUTGOING", "NET", "PAYLOAD"))
    /\ UNCHANGED <<rx, frame, air, printed, silent, radio_ok>>

\* The packet as the network layer hands it to the application.
ForApp_KeepsOwner(k) == Pkt("INCOMING", "NET", k)   \* mutated: pOwner left as it was
ForApp(k) == Pkt("INCOMING", "APP", k)

\* network_interface(INCOMING).  A beacon goes up unless it is rejected; a
\* payload is a duplicate, or is relayed and delivered when tx has room; the
\* rest goes up when rx has room.  (handle_broadcast_packet does not relay what
\* tx already holds; RelayLeavesAtOnce shows that no relay waits here.)
NetIn ==
    /\ Goto("NET_IN", "NET_OUT")
    /\ \/ NonePending(rx, "INCOMING", "NET") /\ UNCHANGED <<rx, tx>>
       \/ \E i \in DOMAIN rx :
          LET k       == rx[i].kind
              left    == TakeAt(rx, i)
              deliver == rx' = write_packet(left, ForApp(k))
              drop    == rx' = left
          IN /\ FirstPending(rx, "INCOMING", "NET", i)
             /\ \/ k = "BEACON" /\ (drop \/ deliver) /\ tx' = tx
                \/ /\ k = "PAYLOAD" /\ ~ buffer_full(tx)
                   /\ deliver
                   /\ tx' = write_packet(tx, Pkt("RETX", "MAC", k))
                \/ k = "PAYLOAD" /\ drop /\ tx' = tx
                \/ k \notin {"BEACON", "PAYLOAD"} /\ deliver /\ tx' = tx
    /\ UNCHANGED <<frame, air, printed, silent, radio_ok>>

\* network_interface(OUTGOING), from the loop or from the beacon-interval
\* command: the packet goes back into tx for the MAC layer.
NetOutAt_KeepsOwner(from, to) ==   \* mutated: pOwner = MAC is forgotten
    /\ Goto(from, to)
    /\ \/ NonePending(tx, "OUTGOING", "NET") /\ tx' = tx
       \/ \E i \in DOMAIN tx :
          /\ FirstPending(tx, "OUTGOING", "NET", i)
          /\ tx' = write_packet(TakeAt(tx, i), tx[i])
    /\ UNCHANGED <<rx, frame, air, printed, silent, radio_ok>>

NetOutAt(from, to) ==
    /\ Goto(from, to)
    /\ \/ NonePending(tx, "OUTGOING", "NET") /\ tx' = tx
       \/ \E i \in DOMAIN tx :
          /\ FirstPending(tx, "OUTGOING", "NET", i)
          /\ tx' = write_packet(TakeAt(tx, i), [tx[i] EXCEPT !.owner = "MAC"])
    /\ UNCHANGED <<rx, frame, air, printed, silent, radio_ok>>

NetOut == NetOutAt("NET_OUT", "MAC_IN") \/ NetOutAt("CMD_NET", "CMD_MAC")

\* The packet as the MAC layer hands it to the network layer.
ForNet(p) == [p EXCEPT !.owner = "NET"]

\* mac_interface(INCOMING): a frame of this node's own, or for someone else, is
\* dropped; any other goes to the network layer.
MacIn ==
    /\ Goto("MAC_IN", "MAC_OUT")
    /\ \/ NonePending(rx, "INCOMING", "MAC") /\ rx' = rx
       \/ \E i \in DOMAIN rx :
          /\ FirstPending(rx, "INCOMING", "MAC", i)
          /\ \/ rx' = TakeAt(rx, i)
             \/ rx' = write_packet(TakeAt(rx, i), ForNet(rx[i]))
    /\ UNCHANGED <<tx, frame, air, printed, silent, radio_ok>>

\* mac_interface(OUTGOING / RETX) up to the transmission.
MacTake(from, d, on, none) ==
    /\ pc = from
    /\ \/ /\ NonePending(tx, d, "MAC")
          /\ pc' = none
          /\ UNCHANGED <<tx, air>>
       \/ \E i \in DOMAIN tx :
          /\ FirstPending(tx, d, "MAC", i)
          /\ tx' = TakeAt(tx, i)
          /\ air' = tx[i]
          /\ pc' = on
    /\ UNCHANGED <<rx, frame, printed, silent, radio_ok>>

MacOut == \/ MacTake("MAC_OUT", "OUTGOING", "OUT_AIR", "MAC_RETX")
          \/ MacTake("CMD_MAC", "OUTGOING", "CMD_AIR", "APP_PRINT")

MacRetx_WrongTag == MacTake("MAC_RETX", "OUTGOING", "RETX_AIR", "TOP")   \* mutated
MacRetx == MacTake("MAC_RETX", "RETX", "RETX_AIR", "TOP")

\* radio_send returns; turning the radio round discards a frame it still held.
Sent(from, to) ==
    /\ Goto(from, to)
    /\ air' = NoPkt
    /\ frame' = "NONE"
    /\ printed' = FALSE
    /\ UNCHANGED <<rx, tx, silent, radio_ok>>

SendDone == \/ Sent("OUT_AIR", "MAC_RETX")
            \/ Sent("RETX_AIR", "TOP")
            \/ Sent("CMD_AIR", "APP_PRINT")

Loop == \/ Top \/ Usb \/ Timer \/ TimerPrinted \/ RadioIrq
        \/ AppIn \/ AppPrinted \/ AppOut \/ NetIn \/ NetOut
        \/ MacIn \/ MacOut \/ MacRetx \/ SendDone

Environment ==
    \/ \E k \in RxKind : FrameArrives(k)
    \/ ReceiverRestarts
    \/ FallSilent
    \/ TerminalSends("NET", "CONTROL")
    \/ TerminalSends("APP", "PAYLOAD")
    \/ BeaconDuringDelay

Next == Loop \/ Environment

Spec == Init /\ [][Next]_vars

\* The loop runs whatever happens; nothing is promised of the environment.
FairSpec == Spec /\ WF_vars(Loop)

(***************************************************************************)
(* Properties.                                                             *)
(***************************************************************************)

\* The owners of what rx may hold at stage s, ...
RxOwners(s) ==
    CASE s = "APP_IN"                -> {"APP", "NET", "MAC"}
      [] s \in AppStages             -> {"NET", "MAC"}
      [] s \in {"NET_OUT", "MAC_IN"} -> {"MAC", "APP"}
      [] OTHER                       -> {"APP", "NET"}

\* ... and the order they stand in, from the head.
RxRank(s, o) ==
    CASE o = "NET" -> 2
      [] o = "MAC" -> 3
      [] o = "APP" -> IF s \in {"NET_OUT", "MAC_IN"} THEN 4 ELSE 1

InOrder(s, q) ==
    /\ \A i \in DOMAIN q : q[i].dir = "INCOMING" /\ q[i].owner \in RxOwners(s)
    /\ \A i, j \in DOMAIN q : i < j => RxRank(s, q[i].owner) < RxRank(s, q[j].owner)

\* Frames move up through rx in order: each layer finds its packet before those
\* of the layers that run later.  The order of the stages in Reset_Handler is
\* what keeps it so: no code checks it.
RxInOrder == InOrder(pc, rx)

\* The stages that search rx, and the layer each of them serves.
SearchStages == {"APP_IN", "NET_IN", "MAC_IN"}
Searches(s) == CASE s = "APP_IN" -> "APP" [] s = "NET_IN" -> "NET" [] s = "MAC_IN" -> "MAC"

\* Every search of rx finds its packet at the head, which is the only place
\* where search_pending_packet removes the packet it returns: no received
\* packet is lost, or left behind as a zeroed slot, inside the node.
RxTakesHead ==
    pc \in SearchStages =>
        \A i \in DOMAIN rx : FirstPending(rx, "INCOMING", Searches(pc), i) => i = 1

\* A frame the radio holds always finds room in rx, and so does each layer that
\* passes a packet up: the loop takes packets out as fast as frames come in.
RxHasRoom == pc \in {"RADIO", "NET_IN", "MAC_IN"} => ~ buffer_full(rx)

\* Whatever its searches leave behind, tx never fills up with zeroed slots: a
\* full tx holds a packet that a layer takes when its turn comes, so a node whose
\* radio came up is never muted.
NeverMute == buffer_full(tx) => \E i \in DOMAIN tx : tx[i] # EmptyPkt

\* A relayed payload leaves tx in the iteration that queued it.
RelayLeavesAtOnce ==
    pc \notin {"NET_OUT", "MAC_IN", "MAC_OUT", "OUT_AIR", "MAC_RETX"} =>
        \A i \in DOMAIN tx : tx[i].dir # "RETX"

\* Once the world is silent the loop works off both queues, on a node whose radio
\* came up: on any other commands and beacons fill tx, and nothing ever takes them out.
Drains == silent /\ radio_ok ~> (rx = <<>> /\ Live(tx) = {})
=============================================================================
