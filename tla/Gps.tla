-------------------------------- MODULE Gps --------------------------------
(***************************************************************************)
(* The GPS receiver (driver/gps.c).  A module sends NMEA sentences over a  *)
(* serial line for ever.  Its bytes enter one ring from two places: the    *)
(* receive interrupt, and gps_poll, which looks at the same register       *)
(* before it drains the ring into a line.  A line that ends well becomes   *)
(* the fix that the beacon reports.                                        *)
(*                                                                         *)
(* Each byte stands for a field of a sentence: the model keeps the order,  *)
(* the separators and an XOR checksum of one digit.  Bytes are lost when   *)
(* the ring is full or the CPU is stalled by a flash erase, doubled when   *)
(* the interrupt strikes between the poll's two reads, and garbled by the  *)
(* line; at a wrong baud rate only junk arrives.                           *)
(***************************************************************************)
EXTENDS Integers, Sequences, SequencesExt, Bitwise

CONSTANTS
    Sentence,    \* the bodies the module may send: <<type, position, flag>>
    NoiseByte,   \* what a byte may be garbled to
    Resumed,     \* bound: where in a sentence the module may be after a pause
    RingSize,    \* RX_BUF_SIZE
    LineMax,     \* LINE_MAX
    FeLimit,     \* framing errors tolerated before the fallback: 10
    Patience,    \* ticks before the fallback: the 3 s of gps_poll
    MaxFaults,   \* bound: single bytes lost, doubled or garbled
    MaxCommands  \* bound: `get gps ...' commands given

ASSUME BoundAssumption ==
    /\ RingSize \in Nat /\ RingSize > 1 /\ LineMax \in Nat /\ LineMax > 1
    /\ FeLimit \in Nat /\ Patience \in Nat /\ MaxFaults \in Nat /\ MaxCommands \in Nat

\* Bytes: 0 .. 3 are data, the others punctuation.
Dollar == 4   Star == 5   Return == 6   Newline == 7
Byte == 0 .. 7
GGA == 1      RMC == 2
Junk == {0, Newline}   \* what a byte becomes at a wrong baud rate

ASSUME DataAssumption ==
    /\ Sentence # {} /\ Sentence \subseteq [1 .. 3 -> 0 .. 3]
    /\ NoiseByte \subseteq Byte /\ Resumed \subseteq 1 .. 8 /\ 1 \in Resumed

Baud == {4800, 9600}

VARIABLES
    talks,      \* the module's baud rate
    body, at,   \* the sentence it sends and the next byte of it
    rdr,        \* the receive register, and its RXNE and FE flags
    baud,       \* the rate the UART is set to (BRR)
    routed,     \* the pin is routed to the UART (AFRL)
    ring,       \* the bytes of rx_buf from rx_tail to rx_head
    fe,         \* fe_count, up to one past FeLimit
    line,       \* line_buf up to line_len
    fix,        \* gps_fix_t; heard: the count of sentences is not zero
    elapsed,    \* ticks since init_tick, up to Patience
    switched,   \* baud_switched
    pc, held,   \* where gps_poll is, and the byte it took from the ring
    faults,     \* history: those, one more after a loss of many
    commands    \* history: commands given

vars == <<talks, body, at, rdr, baud, routed, ring, fe, line, fix,
          elapsed, switched, pc, held, faults, commands>>

Wire == <<talks, body, at>>
Uart == <<baud, routed>>
Host == <<switched, commands>>

NoFix == [valid |-> FALSE, position |-> 0, quality |-> 0, heard |-> FALSE]
Quiet == [rxne |-> FALSE, fe |-> FALSE, byte |-> 0]

Init ==
    /\ talks \in Baud /\ body \in Sentence /\ at = 1
    /\ rdr = Quiet /\ baud = 9600 /\ routed = TRUE
    /\ ring = <<>> /\ fe = 0 /\ line = <<>> /\ fix = NoFix /\ elapsed = 0
    /\ switched = FALSE
    /\ pc = "AWAY" /\ held = 0 /\ faults = 0 /\ commands = 0

----------------------------------------------------------------------------
(* Sentences. *)

Checksum(bytes) == FoldLeft(LAMBDA x, y : x ^^ y, 0, bytes)

\* A sentence as the module sends it.
Framed == [s \in Sentence |-> <<Dollar>> \o s \o <<Star, Checksum(s), Return, Newline>>]

\* What stands between the first byte and the first star.
Body(l) == SubSeq(l, 2, SelectInSeq(l, LAMBDA b : b = Star) - 1)

\* mutated: a checksum nobody compares.
nmea_checksum_valid_Unchecked(l) ==
    l[1] = Dollar /\ SelectInSeq(l, LAMBDA b : b = Star) > 0

nmea_checksum_valid(l) ==
    LET star == SelectInSeq(l, LAMBDA b : b = Star) IN
    /\ l[1] = Dollar
    /\ star > 0 /\ star < Len(l)
    /\ l[star + 1] = Checksum(Body(l))

\* parse_gga and parse_rmc: too few fields change nothing, RMC leaves the
\* quality alone and clears the position when its status is void.
Parsed(s, f) ==
    IF Len(s) < 3 \/ s[1] \notin {GGA, RMC} THEN f
    ELSE IF s[1] = GGA
         THEN [f EXCEPT !.valid = s[3] > 0, !.position = s[2], !.quality = s[3]]
         ELSE [f EXCEPT !.valid = s[3] = 1, !.position = IF s[3] = 1 THEN s[2] ELSE 0]

\* A line that ended: counted first, parsed if its checksum is right.
AtNewline(l, f) ==
    LET counted == [f EXCEPT !.heard = TRUE] IN
    IF l = <<>> THEN f
    ELSE IF nmea_checksum_valid(l) THEN Parsed(Body(l), counted) ELSE counted

----------------------------------------------------------------------------
(* The wire and the UART.  After MaxFaults faults the loop keeps up with    *)
(* the bytes and the interrupt comes before the poll's look or after it.    *)

Worse == faults' = IF faults <= MaxFaults THEN faults + 1 ELSE faults
MuchWorse == faults' = MaxFaults + 1

\* One slot is left free, to tell a full ring from an empty one.
Full == Len(ring) = RingSize - 1

NextByte ==
    IF at < Len(Framed[body]) THEN at' = at + 1 /\ UNCHANGED body
    ELSE at' = 1 /\ body' \in Sentence

\* After a pause the module is anywhere in any sentence; where it is while
\* nobody can read it is not kept.
Elsewhere ==
    /\ body' \in Sentence
    /\ at' \in IF routed' /\ baud' = talks THEN Resumed ELSE {1}

\* The poll's few instructions between its two reads take less than a byte.
Arrive ==
    /\ pc # "TAKE" /\ routed /\ baud = talks /\ NextByte
    /\ \/ /\ ~ rdr.rxne /\ (faults < MaxFaults \/ ~ Full)
          /\ rdr' = [rxne |-> TRUE, fe |-> FALSE, byte |-> Framed[body][at]]
          /\ UNCHANGED faults
       \/ /\ ~ rdr.rxne /\ faults < MaxFaults
          /\ \E b \in NoiseByte : rdr' = [rxne |-> TRUE, fe |-> TRUE, byte |-> b]
          /\ Worse
       \/ /\ rdr.rxne /\ faults < MaxFaults   \* overrun
          /\ Worse
          /\ UNCHANGED rdr
    /\ UNCHANGED <<talks, Uart, ring, fe, line, fix, elapsed, Host, pc, held>>

\* At a wrong rate every byte is junk and a framing error.
ArriveJunk ==
    /\ pc # "TAKE" /\ routed /\ baud # talks
    /\ \E b \in Junk : rdr' = [rxne |-> TRUE, fe |-> TRUE, byte |-> b]
    /\ UNCHANGED <<Wire, Uart, ring, fe, line, fix, elapsed, Host, pc, held, faults>>

\* One byte into the ring, dropped when the ring is full.
Push(b) == ring' = IF Full THEN ring ELSE Append(ring, b)

\* mutated: the flag cleared and the error not counted.
Counted_Cleared(error) == fe' = fe

Counted(error) == fe' = IF error /\ fe <= FeLimit THEN fe + 1 ELSE fe

\* The interrupt, also between the poll's look at the flags and its read:
\* the poll then reads the same byte again.
USART2_IRQHandler ==
    /\ rdr.rxne /\ (pc = "TAKE" => faults < MaxFaults)
    /\ Counted(rdr.fe)
    /\ Push(rdr.byte)
    /\ rdr' = IF pc = "TAKE" THEN [Quiet EXCEPT !.byte = rdr.byte] ELSE Quiet
    /\ IF baud = talks /\ (Full \/ pc = "TAKE") THEN Worse ELSE UNCHANGED faults
    /\ UNCHANGED <<Wire, Uart, line, fix, elapsed, Host, pc, held>>

\* The clock, as long as the fallback waits for it.
Tick ==
    /\ elapsed < Patience /\ ~ switched /\ ~ fix.heard
    /\ elapsed' = elapsed + 1
    /\ UNCHANGED <<Wire, rdr, Uart, ring, fe, line, fix, Host, pc, held, faults>>

----------------------------------------------------------------------------
(* gps_poll. *)

Look ==
    /\ pc \in {"AWAY", "LOOK"}
    /\ Counted(rdr.fe)
    /\ rdr' = [rdr EXCEPT !.fe = FALSE]
    /\ pc' = IF rdr.rxne THEN "TAKE" ELSE "DRAIN"
    /\ UNCHANGED <<Wire, Uart, ring, line, fix, elapsed, Host, held, faults>>

Take ==
    /\ pc = "TAKE"
    /\ Push(rdr.byte)
    /\ rdr' = Quiet
    /\ pc' = "LOOK"
    /\ IF rdr.rxne /\ baud = talks /\ Full THEN Worse ELSE UNCHANGED faults
    /\ UNCHANGED <<Wire, Uart, fe, line, fix, elapsed, Host, held>>

Drain ==
    /\ pc = "DRAIN" /\ ring # <<>>
    /\ held' = Head(ring)
    /\ ring' = Tail(ring)
    /\ pc' = "FEED"
    /\ UNCHANGED <<Wire, rdr, Uart, fe, line, fix, elapsed, Host, faults>>

\* The byte goes into the line; a line too long is dropped where it stands,
\* and what follows is taken for a new one.
Feed ==
    /\ pc = "FEED"
    /\ fix' = IF held = Newline THEN AtNewline(line, fix) ELSE fix
    /\ line' = CASE held = Return -> line
                 [] held = Newline -> <<>>
                 [] OTHER -> IF Len(line) < LineMax - 1 THEN Append(line, held) ELSE <<>>
    /\ held' = 0
    /\ pc' = "DRAIN"
    /\ UNCHANGED <<Wire, rdr, Uart, ring, fe, elapsed, Host, faults>>

\* The fallback to 4800, once per gps_init.  A line that is junk counts too.
TimeToSwitch == ~ switched /\ ~ fix.heard /\ fe > FeLimit /\ elapsed >= Patience

\* The end of the poll.
AutoBaud ==
    /\ pc = "DRAIN" /\ ring = <<>>
    /\ pc' = "AWAY"
    /\ UNCHANGED <<talks, routed, ring, fix, elapsed, commands, held>>
    /\ IF TimeToSwitch
       THEN /\ switched' = TRUE /\ baud' = 4800 /\ Elsewhere
            /\ fe' = 0 /\ line' = <<>> /\ rdr' = Quiet
            /\ IF baud = talks THEN MuchWorse ELSE UNCHANGED faults
       ELSE UNCHANGED <<switched, baud, body, at, fe, line, rdr, faults>>

----------------------------------------------------------------------------
(* The terminal's `get gps ...', given when the main loop is elsewhere or,  *)
(* with raw_echo on, at the print in the middle of the drain (the echo may  *)
(* be on at any time).  Each switches the UART off and on, and what is in   *)
(* it is lost.  Bound: a command comes before any fault.                   *)

AtPrint == commands < MaxCommands /\ faults = 0 /\ pc \in {"AWAY", "FEED"}

gps_init ==
    /\ AtPrint /\ commands' = commands + 1
    /\ baud' = 9600 /\ routed' = TRUE /\ Elsewhere /\ rdr' = Quiet
    /\ ring' = <<>> /\ fe' = 0 /\ line' = <<>>
    /\ fix' = NoFix /\ elapsed' = 0 /\ switched' = FALSE
    /\ MuchWorse
    /\ UNCHANGED <<talks, pc, held>>

gps_set_baud ==
    /\ AtPrint /\ commands' = commands + 1
    /\ baud' \in Baud /\ UNCHANGED routed /\ Elsewhere
    /\ rdr' = Quiet /\ line' = <<>> /\ elapsed' = 0
    /\ MuchWorse
    /\ UNCHANGED <<talks, ring, fe, fix, switched, pc, held>>

gps_set_af ==
    /\ AtPrint /\ commands' = commands + 1
    /\ routed' \in BOOLEAN /\ UNCHANGED baud /\ Elsewhere
    /\ rdr' = Quiet /\ line' = <<>>
    /\ MuchWorse
    /\ UNCHANGED <<talks, ring, fe, fix, elapsed, switched, pc, held>>

\* The pin is sampled for a second while the module goes on talking; the
\* line under way is kept.
gps_probe_pa3 ==
    /\ AtPrint /\ commands' = commands + 1
    /\ UNCHANGED Uart /\ Elsewhere
    /\ rdr' = Quiet
    /\ MuchWorse
    /\ UNCHANGED <<talks, ring, fe, line, fix, elapsed, switched, pc, held>>

----------------------------------------------------------------------------
Poll == Look \/ Take \/ Drain \/ Feed \/ AutoBaud

Next ==
    \/ Arrive \/ ArriveJunk \/ USART2_IRQHandler \/ Tick \/ Poll
    \/ gps_init \/ gps_set_baud \/ gps_set_af \/ gps_probe_pa3

\* The module talks, the interrupt is served, the clock runs and the main
\* loop calls gps_poll.  Nobody need type a command.
Spec == /\ Init /\ [][Next]_vars
        /\ WF_vars(Arrive \/ ArriveJunk) /\ WF_vars(USART2_IRQHandler)
        /\ WF_vars(Tick) /\ WF_vars(Poll)

----------------------------------------------------------------------------
\* Every variable keeps its type; the line leaves room for its terminator.
\* Code: the full test of both producers, the LINE_MAX test of gps_poll.
TypeOK ==
    /\ talks \in Baud /\ baud \in Baud /\ routed \in BOOLEAN
    /\ body \in Sentence /\ at \in 1 .. 8
    /\ rdr \in [rxne : BOOLEAN, fe : BOOLEAN, byte : Byte]
    /\ ring \in Seq(Byte) /\ Len(ring) < RingSize
    /\ fe \in 0 .. FeLimit + 1 /\ elapsed \in 0 .. Patience
    /\ line \in Seq(Byte) /\ Len(line) < LineMax
    /\ fix \in [valid : BOOLEAN, position : Byte, quality : Byte, heard : BOOLEAN]
    /\ switched \in BOOLEAN
    /\ pc \in {"AWAY", "LOOK", "TAKE", "DRAIN", "FEED"} /\ held \in Byte
    /\ faults \in 0 .. MaxFaults + 1 /\ commands \in 0 .. MaxCommands

\* While no more than one byte was lost, doubled or garbled, the fix changes
\* only to what a sentence of the module says of it, whatever the interrupt,
\* the poll and a full ring did to the bytes on their way.  (A second fault
\* may undo the first in the XOR.)  Code: the two producers of the ring and
\* the checksum gate of gps_poll.
FixFromASentence ==
    [][faults' <= 1 /\ baud' = talks /\ fix' # fix =>
         \/ fix' = [fix EXCEPT !.heard = TRUE]
         \/ \E s \in Sentence : fix' = Parsed(s, [fix EXCEPT !.heard = TRUE])]_vars

\* As long as gps_poll keeps returning (bytes come slower than it drains
\* them), a receiver whose pin is routed hears a line in the end, unless the
\* one fallback was spent and the rate is still wrong.  Code: the counting of
\* framing errors in both producers, and the fallback of gps_poll.
HeardOrOutOfRates ==
    []<>(pc = "AWAY") /\ <>[](routed /\ ~ fix.heard) => <>[](switched /\ baud # talks)
=============================================================================
