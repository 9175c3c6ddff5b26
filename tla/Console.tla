------------------------------ MODULE Console ------------------------------
(***************************************************************************)
(* The console of a node: the USB port (driver/usb_cdc.c), the line that   *)
(* usb_rx_handler gathers, the commands it starts, and everything that     *)
(* prints.  There is no interrupt: the port is served by usb_cdc_poll,     *)
(* from the main loop and from every print that waits for the endpoint.    *)
(* So a print may start a command, whose own prints poll again; and a      *)
(* delay polls the timer, which may start a beacon, which prints.  The     *)
(* model keeps the calls under way as a stack.                             *)
(*                                                                         *)
(* The host enumerates the device, types lines in packets split anywhere,  *)
(* reads what is printed or does not, and may reset the bus at any time.   *)
(***************************************************************************)
EXTENDS Naturals, Sequences, FiniteSets, SequencesExt

CONSTANTS
    Char,        \* characters of a line
    Typed,       \* lines the host may type
    LineMax,     \* sizeof(line) of usb_rx_handler (480)
    PacketMax,   \* bytes of a packet of endpoint 2 (64)
    CommandDoes, \* what a command may do: scripts, see Script
    BeaconDoes,  \* what beaconHandler may print
    LoopDoes,    \* what the rest of the main loop may do
    MaxLines,    \* bound: lines typed
    MaxResets    \* bound: resets of the bus

EOL == "EOL"

\* What a call does that matters here, in order: a number is a print of so
\* many packets, 0 a delay.
Script == Seq(Nat)

ASSUME ConsoleAssumption ==
    /\ EOL \notin Char
    /\ LineMax \in Nat \ {0} /\ PacketMax \in Nat \ {0}
    /\ Typed \subseteq Seq(Char)
    /\ CommandDoes \subseteq Script /\ LoopDoes \subseteq Script
    /\ BeaconDoes \subseteq Seq(Nat \ {0})         \* a beacon does not wait
    /\ MaxLines \in Nat /\ MaxResets \in Nat

VARIABLES
    host,       \* the request the host is at, and what it waits for
    typed,      \* bytes the host has still to send
    reset,      \* the bus was reset, and usb_reset has not run since
    ep0,        \* endpoint 0 and the driver's state of it
    ep1,        \* endpoint 1, IN: a packet ready for the host; one taken
    ep2,        \* endpoint 2, OUT: armed; a packet received, and its bytes
    configured, \* usb_configured
    busy,       \* ep1_tx_busy
    line,       \* the static line of usb_rx_handler, up to pos
    stack,      \* the calls under way, the last one first
    due,        \* a beacon is due
    sent, ran,  \* history: what is kept of the lines typed, see Kept; lines run
    entered,    \* history: number of lines typed
    resets,     \* history: resets of the bus
    cut,        \* history: one of them lost bytes of a line
    late        \* history: a request came before the last one was worked off

usb   == <<reset, ep0, ep1, ep2, configured, busy>>
soft  == <<line, stack, due, ran>>
hist  == <<sent, entered, resets, cut, late>>
vars  == <<host, typed, usb, soft, hist>>

----------------------------------------------------------------------------
(* The calls under way. *)

Rx(bytes)      == [op |-> "RX", bytes |-> bytes]        \* usb_rx_handler
Command(s)     == [op |-> "COMMAND", script |-> s]      \* terminal
Beacon(s)      == [op |-> "BEACON", script |-> s]       \* beaconHandler
Stage(s)       == [op |-> "STAGE", script |-> s]        \* the rest of the loop
Printing(left) == [op |-> "PRINT", left |-> left]       \* cdc_print_str
Delay          == [op |-> "DELAY"]                      \* delay_ms

In(op) == stack # <<>> /\ Head(stack).op = op
Running == In("COMMAND") \/ In("BEACON") \/ In("STAGE")

Called(f)   == <<f>> \o stack
Becomes(f)  == <<f>> \o Tail(stack)
Under(op)   == Cardinality({i \in DOMAIN stack : stack[i].op = op})

----------------------------------------------------------------------------
(* The device before the host has seen it, and after a reset of the bus.   *)

Request == {"ADDRESS", "DESCRIPTOR", "CONFIGURATION"}
Following(r) == CASE r = "ADDRESS" -> "DESCRIPTOR" [] r = "DESCRIPTOR" -> "CONFIGURATION"
              [] OTHER -> "UP"

\* setup: a packet received and not handled.  tx: what the host gets when it
\* asks.  taken: it got it, and that is not handled.
Ep0Reset(e) ==
    [e EXCEPT !.setup = "NONE", !.tx = "NAK", !.taken = FALSE,
              !.address = 0, !.usb_address = 0, !.set_address_pending = FALSE]

Ep1Reset == [ready |-> FALSE, taken |-> FALSE]
Ep2Reset == [armed |-> TRUE, received |-> FALSE, bytes |-> <<>>]

Away == [at |-> "AWAY", phase |-> "NONE", address |-> 0]

Init ==
    /\ host = Away
    /\ typed = <<>>
    /\ reset = FALSE
    /\ ep0 = Ep0Reset([setup |-> "NONE", tx |-> "NAK", taken |-> FALSE, address |-> 0,
                       usb_address |-> 0, set_address_pending |-> FALSE, tx_remaining |-> FALSE])
    /\ ep1 = Ep1Reset
    /\ ep2 = [Ep2Reset EXCEPT !.armed = FALSE]
    /\ configured = FALSE /\ busy = FALSE
    /\ line = <<>> /\ stack = <<>> /\ due = FALSE
    /\ sent = <<>> /\ ran = <<>> /\ entered = 0 /\ resets = 0 /\ cut = FALSE /\ late = FALSE

----------------------------------------------------------------------------
(* usb_cdc_poll: a reset first, else the lowest endpoint that has something. *)

usb_reset ==
    /\ reset
    /\ reset' = FALSE
    /\ ep0' = Ep0Reset(ep0)
    /\ ep1' = Ep1Reset
    /\ ep2' = Ep2Reset
    /\ configured' = FALSE /\ busy' = FALSE
    /\ UNCHANGED <<host, typed, soft, hist>>

\* mutated: the address is in force before the status stage
Handled_AtOnce(e) ==
    IF e.setup = "ADDRESS"
    THEN [e EXCEPT !.setup = "NONE", !.usb_address = 1, !.address = 1, !.tx = "EMPTY"]
    ELSE IF e.setup = "DESCRIPTOR"
    THEN [e EXCEPT !.setup = "NONE", !.tx = "FIRST", !.tx_remaining = TRUE]
    ELSE IF e.setup = "NONE" THEN e ELSE [e EXCEPT !.setup = "NONE", !.tx = "EMPTY"]

\* handle_setup, and a packet that is no request.
Handled(e) ==
    CASE e.setup = "ADDRESS" ->
            [e EXCEPT !.setup = "NONE", !.usb_address = 1, !.set_address_pending = TRUE,
                      !.tx = "EMPTY", !.tx_remaining = FALSE]
      [] e.setup = "DESCRIPTOR" ->
            [e EXCEPT !.setup = "NONE", !.tx = "FIRST", !.tx_remaining = TRUE]
      [] e.setup = "CONFIGURATION" ->
            [e EXCEPT !.setup = "NONE", !.tx = "EMPTY", !.tx_remaining = FALSE]
      [] e.setup = "STATUS" -> [e EXCEPT !.setup = "NONE", !.tx = "EMPTY"]
      [] OTHER -> e

\* A packet of endpoint 0 was taken.
Acknowledged(e) ==
    LET a == IF e.set_address_pending
             THEN [e EXCEPT !.address = e.usb_address, !.set_address_pending = FALSE] ELSE e IN
    IF a.tx_remaining THEN [a EXCEPT !.tx = "REST", !.tx_remaining = FALSE] ELSE a

Pending0 == ep0.setup # "NONE" \/ ep0.taken

PollEp0 ==
    /\ ~ reset /\ Pending0
    /\ ep0' = LET h == [Handled(ep0) EXCEPT !.taken = FALSE] IN
              IF ep0.taken THEN Acknowledged(h) ELSE h
    /\ configured' = (configured \/ ep0.setup = "CONFIGURATION")
    /\ UNCHANGED <<host, typed, reset, ep1, ep2, busy, soft, hist>>

PollEp1 ==
    /\ ~ reset /\ ~ Pending0 /\ ep1.taken
    /\ ep1' = [ep1 EXCEPT !.taken = FALSE]
    /\ busy' = FALSE
    /\ UNCHANGED <<host, typed, reset, ep0, ep2, configured, soft, hist>>

\* mutated: the buffer is given back, the endpoint stays closed
Armed_CountOnly(e) == [e EXCEPT !.bytes = <<>>]

\* ep2_arm_rx: the count of what is received is overwritten.
Armed(e) == [e EXCEPT !.armed = TRUE, !.bytes = <<>>]

\* mutated: the endpoint is opened before its packet is worked off
Noticed_Armed(e) == [Armed(e) EXCEPT !.received = FALSE]

Noticed(e) == [e EXCEPT !.received = FALSE]

PollEp2 ==
    /\ ~ reset /\ ~ Pending0 /\ ~ ep1.taken /\ ep2.received
    /\ IF ep2.bytes = <<>>
       THEN /\ ep2' = Armed(Noticed(ep2))
            /\ UNCHANGED stack
       ELSE /\ ep2' = Noticed(ep2)
            /\ stack' = Called(Rx(ep2.bytes))
    /\ UNCHANGED <<host, typed, reset, ep0, ep1, configured, busy, line, due, ran, hist>>

usb_cdc_poll == usb_reset \/ PollEp0 \/ PollEp1 \/ PollEp2

\* The loop comes to its poll; a print polls while its packet waits.
LoopPolls    == stack = <<>> /\ usb_cdc_poll
LoopReceives == stack = <<>> /\ PollEp2
PrintPolls   == In("PRINT") /\ busy /\ usb_cdc_poll

----------------------------------------------------------------------------
(* usb_rx_handler, a byte at a time. *)

\* mutated: no room kept for the end of the string
Fits_Exactly == Len(line) < LineMax

Fits == Len(line) < LineMax - 1

RxByte ==
    /\ In("RX") /\ Head(stack).bytes # <<>>
    /\ LET c == Head(Head(stack).bytes)
           rest == Becomes(Rx(Tail(Head(stack).bytes))) IN
       IF c = EOL /\ line # <<>>
       THEN /\ \E s \in CommandDoes : stack' = <<Command(s)>> \o rest
            /\ ran' = Append(ran, line)
            /\ UNCHANGED line
       ELSE /\ stack' = rest
            /\ line' = IF c # EOL /\ Fits THEN Append(line, c) ELSE <<>>
            /\ UNCHANGED ran
    /\ UNCHANGED <<host, typed, usb, due, hist>>

\* The packet is worked off: the endpoint is armed for the next.
RxReturns ==
    /\ In("RX") /\ Head(stack).bytes = <<>>
    /\ stack' = Tail(stack)
    /\ ep2' = Armed(ep2)
    /\ UNCHANGED <<host, typed, reset, ep0, ep1, configured, busy, line, due, ran, hist>>

----------------------------------------------------------------------------
(* What runs: commands, beacons, the rest of the loop. *)

Started(n) ==
    IF n = 0 THEN <<Delay>> ELSE IF configured THEN <<Printing(n)>> ELSE <<>>

Goes ==
    /\ Running /\ Head(stack).script # <<>>
    /\ LET s == Head(stack).script IN
       stack' = Started(Head(s)) \o Becomes([Head(stack) EXCEPT !.script = Tail(s)])
    /\ UNCHANGED <<host, typed, usb, line, due, ran, hist>>

Returns ==
    /\ Running /\ Head(stack).script = <<>>
    /\ stack' = Tail(stack)
    /\ line' = IF In("COMMAND") THEN <<>> ELSE line
    /\ due' = IF In("BEACON") THEN FALSE ELSE due
    /\ UNCHANGED <<host, typed, usb, ran, hist>>

\* cdc_print_str: the next packet of the print, or its end.
PrintPacket ==
    /\ In("PRINT") /\ ~ busy
    /\ ep1' = [ep1 EXCEPT !.ready = TRUE]
    /\ busy' = TRUE
    /\ LET left == Head(stack).left - 1 IN
       stack' = IF left = 0 THEN Tail(stack) ELSE Becomes(Printing(left))
    /\ UNCHANGED <<host, typed, reset, ep0, ep2, configured, line, due, ran, hist>>

\* ... or it has polled long enough.
PrintGivesUp ==
    /\ In("PRINT") /\ busy
    /\ stack' = Tail(stack)
    /\ UNCHANGED <<host, typed, usb, line, due, ran, hist>>

DelayEnds ==
    /\ In("DELAY")
    /\ stack' = Tail(stack)
    /\ UNCHANGED <<host, typed, usb, line, due, ran, hist>>

\* timer_poll, in the loop and in every delay.
TimerPoll ==
    /\ stack = <<>> \/ In("DELAY")
    /\ due
    /\ \E s \in BeaconDoes : stack' = Called(Beacon(s))
    /\ UNCHANGED <<host, typed, usb, line, due, ran, hist>>

TimePasses ==
    /\ ~ due /\ due' = TRUE
    /\ UNCHANGED <<host, typed, usb, line, stack, ran, hist>>

\* The stages of the loop that transmit and report.
LoopStage ==
    /\ stack = <<>>
    /\ \E s \in LoopDoes : stack' = Called(Stage(s))
    /\ UNCHANGED <<host, typed, usb, line, due, ran, hist>>

----------------------------------------------------------------------------
(* The host. *)

\* It is plugged in, or starts over; what it had still to send is dropped.
Resets ==
    /\ resets < MaxResets
    /\ resets' = resets + 1
    /\ reset' = TRUE
    /\ host' = [at |-> "ADDRESS", phase |-> "SETUP", address |-> 0]
    /\ cut' = (cut \/ typed # <<>> \/ line # <<>> \/ ep2.received \/ Under("RX") > 0)
    /\ typed' = <<>>
    /\ UNCHANGED <<ep0, ep1, ep2, configured, busy, soft, sent, entered, late>>

Hears == ~ reset /\ ep0.address = host.address

HostRequests ==
    /\ host.phase = "SETUP" /\ Hears
    /\ ep0' = [ep0 EXCEPT !.setup = host.at, !.tx = "NAK"]
    /\ host' = [host EXCEPT !.phase = "IN"]
    /\ late' = (late \/ Pending0)
    /\ UNCHANGED <<typed, reset, ep1, ep2, configured, busy, soft, sent, entered, resets, cut>>

\* What the host makes of a packet: it goes on, is content, or is lost.
After(p) ==
    CASE p = "EMPTY" /\ host.at \in {"ADDRESS", "CONFIGURATION"} ->
            [at |-> Following(host.at), phase |-> IF host.at = "ADDRESS" THEN "SETUP" ELSE "DONE",
             address |-> 1]
      [] p = "FIRST" /\ host.at = "DESCRIPTOR" -> [host EXCEPT !.phase = "REST"]
      [] p = "REST" /\ host.phase = "REST" -> [host EXCEPT !.phase = "STATUS"]
      [] OTHER -> [host EXCEPT !.phase = "FAILED"]

HostTakes ==
    /\ host.phase \in {"IN", "REST"} /\ Hears /\ ep0.tx # "NAK"
    /\ ep0' = [ep0 EXCEPT !.tx = "NAK", !.taken = TRUE]
    /\ host' = After(ep0.tx)
    /\ UNCHANGED <<typed, reset, ep1, ep2, configured, busy, soft, hist>>

HostConfirms ==
    /\ host.phase = "STATUS" /\ Hears /\ ep0.setup = "NONE"
    /\ ep0' = [ep0 EXCEPT !.setup = "STATUS"]
    /\ host' = [host EXCEPT !.at = Following(host.at), !.phase = "SETUP"]
    /\ UNCHANGED <<typed, reset, ep1, ep2, configured, busy, soft, hist>>

Up == host.at = "UP" /\ ~ reset

\* What usb_rx_handler has of a line when its end comes: the line, but of one that
\* is too long only what follows the last character for which there was no room,
\* for the handler forgets that it is in the middle of a line it dropped.
Kept(l) == SubSeq(l, Len(l) - (Len(l) % LineMax) + 1, Len(l))

HostTypes(l) ==
    /\ Up /\ entered < MaxLines
    /\ entered' = entered + 1
    /\ typed' = typed \o Append(l, EOL)
    /\ sent' = IF Kept(l) # <<>> THEN Append(sent, Kept(l)) ELSE sent
    /\ UNCHANGED <<host, usb, soft, resets, cut, late>>

HostSends ==
    /\ Up /\ ep2.armed /\ typed # <<>>
    /\ \E n \in 1 .. PacketMax :
        /\ n <= Len(typed)
        /\ ep2' = [armed |-> FALSE, received |-> TRUE, bytes |-> SubSeq(typed, 1, n)]
        /\ typed' = SubSeq(typed, n + 1, Len(typed))
    /\ UNCHANGED <<host, reset, ep0, ep1, configured, busy, soft, hist>>

HostReads ==
    /\ Up /\ ep1.ready
    /\ ep1' = [ready |-> FALSE, taken |-> TRUE]
    /\ UNCHANGED <<host, typed, reset, ep0, ep2, configured, busy, soft, hist>>

Host == Resets \/ HostRequests \/ HostTakes \/ HostConfirms
        \/ (\E l \in Typed : HostTypes(l)) \/ HostSends \/ HostReads

----------------------------------------------------------------------------
Work == RxByte \/ RxReturns \/ Goes \/ Returns \/ PrintPacket

Next == LoopPolls \/ PrintPolls \/ Work \/ PrintGivesUp \/ DelayEnds
        \/ TimerPoll \/ TimePasses \/ LoopStage \/ Host

Spec == Init /\ [][Next]_vars

\* What is called goes on; a print polls a bounded number of times, a delay is
\* over some time whatever runs in it, and the loop comes round to its poll.
\* A poll handles one event, an endpoint with a lower number first: the loop is
\* assumed not to print in every pass, or endpoint 2 would never have its turn.
\* Of the host: it sends what was typed.
FairSpec ==
    /\ Spec
    /\ WF_vars(Work) /\ SF_vars(PrintGivesUp) /\ SF_vars(DelayEnds)
    /\ SF_vars(LoopPolls) /\ SF_vars(LoopReceives)
    /\ WF_vars(HostSends)

----------------------------------------------------------------------------
(* Properties. *)

\* What the handler runs are the lines that were typed, in order and each once,
\* whatever packets they came in, and although a command that runs may print, poll
\* the port and be there when the next packet arrives.  A line that fits is run
\* whole; of a longer one the tail that Kept names, and nothing more, is run, so it
\* never spoils the line before it or after it (main.c:189 says that such a line is
\* dropped: its tail is not).  A reset of the bus in the middle of a line (cut) is
\* excluded: the handler keeps the half of it.
CommandsAreLines ==
    ~ cut => IsPrefix(ran, sent)

\* The calls never pile up, however the prints and delays interleave: endpoint 2
\* is closed while its packet is worked off, so a command starts inside another
\* only when a reset of the bus has opened it once more (the first reset is that
\* of the enumeration); a beacon does not wait, so it has another inside it only
\* when a command does.  Nothing else bounds the stack.
NestingIsBounded ==
    /\ Under("RX") <= resets
    /\ Under("BEACON") <= 1 + Under("COMMAND")

\* A request is answered at the address at which it was made: the new address
\* comes into force after the status stage and before the next request, and no
\* reset in between leaves an address behind.  Except after a host so fast that
\* its request met the acknowledgement of the last one still unhandled (late).
AnsweredWhereAsked ==
    ~ late /\ ~ reset /\ host.phase \in {"IN", "REST", "STATUS"} => ep0.address = host.address

\* Once the port stays up, every line typed is run, or what is kept of it: the
\* endpoint is opened again after every packet, also when the host reads nothing
\* of what is printed.
LinesAreRun ==
    <>[](host.at = "UP") =>
        <>[](cut \/ (typed = <<>> /\ ran = sent))
=============================================================================
