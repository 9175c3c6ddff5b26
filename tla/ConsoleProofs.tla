--------------------------- MODULE ConsoleProofs ---------------------------
(***************************************************************************)
(* For every set of lines, commands, beacons and prints, and any number of *)
(* resets of the bus: the port answers at the address it was asked at, the *)
(* calls that prints and delays nest never pile up, and the lines run are  *)
(* the lines typed, or what the handler keeps of one too long for it.      *)
(***************************************************************************)
EXTENDS Console, FiniteSetTheorems, SequenceTheorems, TLAPS

(***************************************************************************)
(* Type correctness.                                                       *)
(***************************************************************************)

Bytes == Seq(Char \cup {EOL})

HostState ==
    {h \in [at : Request \cup {"AWAY", "UP"},
            phase : {"NONE", "SETUP", "IN", "REST", "STATUS", "DONE", "FAILED"},
            address : {0, 1}] :
        /\ h.phase \in {"SETUP", "IN"} => h.at \in Request
        /\ h.phase \in {"REST", "STATUS"} => h.at = "DESCRIPTOR"}

Ep0State == [setup : Request \cup {"NONE", "STATUS"}, tx : {"NAK", "EMPTY", "FIRST", "REST"},
             taken : BOOLEAN, address : {0, 1}, usb_address : {0, 1},
             set_address_pending : BOOLEAN, tx_remaining : BOOLEAN]

Ep1State == [ready : BOOLEAN, taken : BOOLEAN]
Ep2State == [armed : BOOLEAN, received : BOOLEAN, bytes : Bytes]

\* A call under way.
Frame == [op : {"RX"}, bytes : Bytes]
         \cup [op : {"COMMAND", "STAGE"}, script : Script]
         \cup [op : {"BEACON"}, script : Seq(Nat \ {0})]
         \cup [op : {"PRINT"}, left : Nat \ {0}]
         \cup [op : {"DELAY"}]


\* The port, and what the host has to do with it.
PortTypeOK ==
    /\ host \in HostState /\ ep0 \in Ep0State /\ ep1 \in Ep1State /\ ep2 \in Ep2State
    /\ typed \in Bytes

\* The calls under way, and the lines.
CallTypeOK ==
    /\ stack \in Seq(Frame)
    /\ line \in Seq(Char) /\ ran \in Seq(Seq(Char)) /\ sent \in Seq(Seq(Char))
    /\ resets \in Nat /\ entered \in Nat

FlagTypeOK ==
    /\ reset \in BOOLEAN /\ configured \in BOOLEAN /\ busy \in BOOLEAN
    /\ due \in BOOLEAN /\ cut \in BOOLEAN /\ late \in BOOLEAN

TypeOK == PortTypeOK /\ CallTypeOK /\ FlagTypeOK

\* The initial state is within the types.
LEMMA InitType == Init => TypeOK
<1> SUFFICES ASSUME Init PROVE TypeOK
  OBVIOUS
<1>1. ep0 = [setup |-> "NONE", tx |-> "NAK", taken |-> FALSE, address |-> 0, usb_address |-> 0,
             set_address_pending |-> FALSE, tx_remaining |-> FALSE]
  BY DEF Init, Ep0Reset
<1>2. ep2 = [armed |-> FALSE, received |-> FALSE, bytes |-> <<>>]
  BY DEF Init, Ep2Reset
<1>3. PortTypeOK
  <2>1. << >> \in Bytes
    BY DEF Bytes
  <2>2. host \in HostState /\ ep1 \in Ep1State
    BY DEF Init, Away, Ep1Reset, HostState, Ep1State
  <2>3. ep0 \in Ep0State
    BY <1>1 DEF Ep0State
  <2>4. ep2 \in Ep2State
    BY <1>2, <2>1 DEF Ep2State
  <2> QED BY <2>1, <2>2, <2>3, <2>4 DEF Init, PortTypeOK
<1>4. CallTypeOK
  BY DEF Init, CallTypeOK
<1>5. FlagTypeOK
  BY Zenon DEF Init, FlagTypeOK
<1> QED BY <1>3, <1>4, <1>5 DEF TypeOK

\* The driver's operations on the state of an endpoint keep its type.
LEMMA EndpointTypes ==
    /\ \A e \in Ep0State : Ep0Reset(e) \in Ep0State
    /\ \A e \in Ep0State : [Handled(e) EXCEPT !.taken = FALSE] \in Ep0State
    /\ \A e \in Ep0State : Acknowledged(e) \in Ep0State
    /\ \A e \in Ep2State : Noticed(e) \in Ep2State /\ Armed(e) \in Ep2State
    /\ Ep1Reset \in Ep1State /\ Ep2Reset \in Ep2State
<1> USE DEF Ep0State, Ep1State, Ep2State, Request
<1>0. << >> \in Bytes
  BY DEF Bytes
<1>1. ASSUME NEW e \in Ep0State PROVE Ep0Reset(e) \in Ep0State
  BY DEF Ep0Reset
<1>2. ASSUME NEW e \in Ep0State PROVE [Handled(e) EXCEPT !.taken = FALSE] \in Ep0State
  BY DEF Handled
<1>3. ASSUME NEW e \in Ep0State PROVE Acknowledged(e) \in Ep0State
  <2> DEFINE a == IF e.set_address_pending
             THEN [e EXCEPT !.address = e.usb_address, !.set_address_pending = FALSE] ELSE e
  <2>1. a \in Ep0State
    OBVIOUS
  <2> HIDE DEF a
  <2>2. (IF a.tx_remaining THEN [a EXCEPT !.tx = "REST", !.tx_remaining = FALSE] ELSE a) \in Ep0State
    BY <2>1
  <2> QED BY <2>2 DEF Acknowledged, a
<1>4. ASSUME NEW e \in Ep2State PROVE Noticed(e) \in Ep2State /\ Armed(e) \in Ep2State
  BY <1>0 DEF Noticed, Armed
<1>5. Ep1Reset \in Ep1State /\ Ep2Reset \in Ep2State
  BY <1>0 DEF Ep1Reset, Ep2Reset
<1> QED BY <1>1, <1>2, <1>3, <1>4, <1>5

\* A poll of the port leaves it within its types.
LEMMA PollPortType ==
    ASSUME TypeOK, usb_cdc_poll PROVE PortTypeOK'
<1> USE EndpointTypes DEF PortTypeOK, TypeOK
<1>1. CASE usb_reset
  BY <1>1 DEF usb_reset
<1>2. CASE PollEp0
  BY <1>2 DEF PollEp0
<1>3. CASE PollEp1
  <2>1. [ep1 EXCEPT !.taken = FALSE] \in Ep1State
    BY DEF Ep1State
  <2> QED BY <1>3, <2>1 DEF PollEp1
<1>4. CASE PollEp2
  BY <1>4 DEF PollEp2
<1> QED BY <1>1, <1>2, <1>3, <1>4 DEF usb_cdc_poll

\* The host keeps the port within its types, and its packets too.
LEMMA HostPortType ==
    ASSUME TypeOK, Host PROVE PortTypeOK'
<1>0. host \in HostState /\ ep0 \in Ep0State /\ ep1 \in Ep1State /\ ep2 \in Ep2State /\ typed \in Bytes
  BY DEF TypeOK, PortTypeOK
<1>1. CASE Resets
  <2>1. << >> \in Bytes
    BY DEF Bytes
  <2>2. [at |-> "ADDRESS", phase |-> "SETUP", address |-> 0] \in HostState
    BY DEF HostState, Request
  <2> QED BY <1>0, <1>1, <2>1, <2>2 DEF PortTypeOK, Resets
<1>2. CASE HostRequests
  <2>1. host.at \in Request /\ [host EXCEPT !.phase = "IN"] \in HostState
    BY <1>0, <1>2 DEF HostState, HostRequests
  <2>2. \A r \in Request \cup {"NONE", "STATUS"} :
            [ep0 EXCEPT !.setup = r, !.tx = "NAK"] \in Ep0State
    BY <1>0 DEF Ep0State
  <2> QED BY <1>0, <1>2, <2>1, <2>2 DEF PortTypeOK, HostRequests
<1>3. CASE HostTakes
  <2>1. \A p \in {"EMPTY", "FIRST", "REST"} : After(p) \in HostState
    BY <1>0, <1>3 DEF HostTakes, After, Following, Request, HostState
  <2>2. ep0.tx \in {"EMPTY", "FIRST", "REST"} /\ [ep0 EXCEPT !.tx = "NAK", !.taken = TRUE] \in Ep0State
    BY <1>0, <1>3 DEF HostTakes, Ep0State
  <2> QED BY <1>0, <1>3, <2>1, <2>2 DEF PortTypeOK, HostTakes
<1>4. CASE HostConfirms
  <2>1. [ep0 EXCEPT !.setup = "STATUS"] \in Ep0State
    BY <1>0 DEF Ep0State
  <2>2. [host EXCEPT !.at = Following(host.at), !.phase = "SETUP"] \in HostState
    BY <1>0, <1>4 DEF HostConfirms, HostState, Following, Request
  <2> QED BY <1>0, <1>4, <2>1, <2>2 DEF PortTypeOK, HostConfirms
<1>5. ASSUME NEW l \in Typed, HostTypes(l) PROVE PortTypeOK'
  <2>1. l \in Seq(Char)
    BY ConsoleAssumption
  <2>2. Append(l, EOL) \in Bytes
    BY <2>1 DEF Bytes
  <2>3. typed \o Append(l, EOL) \in Bytes
    BY <1>0, <2>2 DEF Bytes
  <2> QED BY <1>0, <1>5, <2>3 DEF HostTypes, usb, PortTypeOK
<1>6. CASE HostSends
  <2>1. PICK n \in 1 .. PacketMax :
            /\ n <= Len(typed)
            /\ ep2' = [armed |-> FALSE, received |-> TRUE, bytes |-> SubSeq(typed, 1, n)]
            /\ typed' = SubSeq(typed, n + 1, Len(typed))
    BY <1>6 DEF HostSends
  <2>2. n \in Nat /\ Len(typed) \in Nat /\ \A i \in 1 .. Len(typed) : typed[i] \in Char \cup {EOL}
    BY <1>0, ConsoleAssumption DEF Bytes
  <2>3. SubSeq(typed, 1, n) \in Bytes /\ SubSeq(typed, n + 1, Len(typed)) \in Bytes
    BY <2>1, <2>2, SubSeqProperties DEF Bytes
  <2>4. ep2' \in Ep2State
    BY <2>1, <2>3 DEF Ep2State
  <2> QED BY <1>0, <1>6, <2>1, <2>3, <2>4 DEF PortTypeOK, HostSends
<1>7. CASE HostReads
  <2>1. [ready |-> FALSE, taken |-> TRUE] \in Ep1State
    BY DEF Ep1State
  <2> QED BY <1>0, <1>7, <2>1 DEF PortTypeOK, HostReads
<1> QED BY <1>1, <1>2, <1>3, <1>4, <1>5, <1>6, <1>7 DEF Host

\* The call that is running, and what it is made of.
LEMMA TopFrame ==
    ASSUME CallTypeOK, stack # << >>
    PROVE  /\ Head(stack) \in Frame /\ Tail(stack) \in Seq(Frame)
           /\ In("RX") => Head(stack).bytes \in Bytes
           /\ In("COMMAND") \/ In("STAGE") => Head(stack).script \in Script
           /\ In("BEACON") => Head(stack).script \in Seq(Nat \ {0})
           /\ In("PRINT") => Head(stack).left \in Nat \ {0}
<1>1. Head(stack) \in Frame /\ Tail(stack) \in Seq(Frame)
  BY HeadTailProperties DEF CallTypeOK
<1> QED BY <1>1 DEF Frame, In

\* A call that is entered, or goes on.
LEMMA EnteredFrames ==
    /\ \A b \in Bytes : Rx(b) \in Frame
    /\ \A s \in Script : Command(s) \in Frame /\ Stage(s) \in Frame
    /\ \A s \in Seq(Nat \ {0}) : Beacon(s) \in Frame
    /\ \A n \in Nat \ {0} : Printing(n) \in Frame
    /\ Delay \in Frame
BY DEF Rx, Command, Stage, Beacon, Printing, Delay, Frame

\* Where a script goes on.
LEMMA ScriptStep ==
    ASSUME CallTypeOK, Running, Head(stack).script # << >>
    PROVE  LET n == Head(Head(stack).script)
               f == [Head(stack) EXCEPT !.script = Tail(Head(stack).script)] IN
           /\ n \in Nat
           /\ In("BEACON") => n # 0
           /\ f \in Frame /\ f.op = Head(stack).op
<1> DEFINE s == Head(stack).script
           f == [Head(stack) EXCEPT !.script = Tail(s)]
<1>1. stack # << >>
  BY DEF Running, In
<1>2. CASE In("BEACON")
  <2>1. Head(stack) \in [op : {"BEACON"}, script : Seq(Nat \ {0})]
    BY <1>1, <1>2, TopFrame DEF Frame, In
  <2>2. s \in Seq(Nat \ {0})
    BY <2>1
  <2>3. Head(s) \in Nat \ {0} /\ Tail(s) \in Seq(Nat \ {0})
    BY <2>2, HeadTailProperties
  <2>4. f \in [op : {"BEACON"}, script : Seq(Nat \ {0})] /\ f.op = Head(stack).op
    BY <2>1, <2>3
  <2> QED BY <2>3, <2>4 DEF Frame
<1>3. CASE In("COMMAND") \/ In("STAGE")
  <2>1. Head(stack) \in [op : {"COMMAND", "STAGE"}, script : Script]
    BY <1>1, <1>3, TopFrame DEF Frame, In
  <2>2. s \in Seq(Nat)
    BY <2>1 DEF Script
  <2>3. Head(s) \in Nat /\ Tail(s) \in Script
    BY <2>2, HeadTailProperties DEF Script
  <2>4. f \in [op : {"COMMAND", "STAGE"}, script : Script] /\ f.op = Head(stack).op
    BY <2>1, <2>3
  <2> QED BY <1>3, <2>3, <2>4 DEF Frame, In
<1> QED BY <1>2, <1>3 DEF Running

\* Pushing calls on a stack.
LEMMA PushType ==
    ASSUME NEW f \in Frame, NEW st \in Seq(Frame) PROVE <<f>> \o st \in Seq(Frame)
OBVIOUS

\* What starts a call, or ends one, keeps a stack of calls.
LEMMA StackType ==
    ASSUME TypeOK
    PROVE  /\ PollEp2 => stack' \in Seq(Frame)
           /\ RxByte => stack' \in Seq(Frame) /\ line' \in Seq(Char) /\ ran' \in Seq(Seq(Char))
           /\ Goes => stack' \in Seq(Frame)
           /\ PrintPacket => stack' \in Seq(Frame)
           /\ TimerPoll \/ LoopStage => stack' \in Seq(Frame)
           /\ RxReturns \/ Returns \/ PrintGivesUp \/ DelayEnds => stack' = Tail(stack) /\ stack' \in Seq(Frame)
<1> USE DEF TypeOK
<1>0. stack \in Seq(Frame) /\ line \in Seq(Char) /\ ran \in Seq(Seq(Char))
  BY DEF CallTypeOK
<1>1. ASSUME PollEp2 PROVE stack' \in Seq(Frame)
  <2>1. Rx(ep2.bytes) \in Frame
    BY <1>1, EnteredFrames DEF PortTypeOK, Ep2State
  <2>2. Called(Rx(ep2.bytes)) \in Seq(Frame)
    BY <1>0, <2>1, PushType DEF Called
  <2>3. stack' = stack \/ stack' = Called(Rx(ep2.bytes))
    BY <1>1 DEF PollEp2
  <2> QED BY <1>0, <2>2, <2>3
<1>2. ASSUME RxByte PROVE stack' \in Seq(Frame) /\ line' \in Seq(Char) /\ ran' \in Seq(Seq(Char))
  <2> DEFINE b == Head(stack).bytes
  <2>1. b \in Seq(Char \cup {EOL}) /\ b # << >> /\ Tail(stack) \in Seq(Frame)
    BY <1>2, TopFrame DEF RxByte, In, Bytes
  <2>2. Head(b) \in Char \cup {EOL} /\ Tail(b) \in Bytes
    BY <2>1, HeadTailProperties DEF Bytes
  <2>3. Rx(Tail(b)) \in Frame
    BY <2>2, EnteredFrames
  <2>4. Becomes(Rx(Tail(b))) \in Seq(Frame)
    BY <2>1, <2>3, PushType DEF Becomes
  <2>5. \A s \in CommandDoes : <<Command(s)>> \o Becomes(Rx(Tail(b))) \in Seq(Frame)
    BY <2>4, PushType, EnteredFrames, ConsoleAssumption
  <2>6. \A c \in Char : Append(line, c) \in Seq(Char)
    BY <1>0
  <2>7. Append(ran, line) \in Seq(Seq(Char)) /\ << >> \in Seq(Char)
    BY <1>0
  <2> QED BY <1>0, <1>2, <2>2, <2>4, <2>5, <2>6, <2>7 DEF RxByte
<1>3. ASSUME Goes PROVE stack' \in Seq(Frame)
  <2> DEFINE n == Head(Head(stack).script)
             f == [Head(stack) EXCEPT !.script = Tail(Head(stack).script)]
  <2>1. n \in Nat /\ f \in Frame /\ Tail(stack) \in Seq(Frame)
    BY <1>3, ScriptStep, TopFrame DEF Goes, Running, In
  <2>2. <<f>> \o Tail(stack) \in Seq(Frame)
    BY <2>1, PushType
  <2>3. Started(n) \in Seq(Frame)
    BY <2>1, EnteredFrames DEF Started
  <2>4. stack' = Started(n) \o (<<f>> \o Tail(stack))
    BY <1>3 DEF Goes, Becomes
  <2> QED BY <2>2, <2>3, <2>4
<1>4. ASSUME PrintPacket PROVE stack' \in Seq(Frame)
  <2>1. Head(stack).left \in Nat \ {0} /\ Tail(stack) \in Seq(Frame)
    BY <1>4, TopFrame DEF PrintPacket, In
  <2>2. Head(stack).left - 1 # 0 => Becomes(Printing(Head(stack).left - 1)) \in Seq(Frame)
    BY <2>1, EnteredFrames, PushType DEF Becomes
  <2> QED BY <1>4, <2>1, <2>2 DEF PrintPacket
<1>5. ASSUME TimerPoll \/ LoopStage PROVE stack' \in Seq(Frame)
  BY <1>0, <1>5, EnteredFrames, PushType, ConsoleAssumption DEF TimerPoll, LoopStage, Called
<1>6. ASSUME RxReturns \/ Returns \/ PrintGivesUp \/ DelayEnds
      PROVE  stack' = Tail(stack) /\ stack' \in Seq(Frame)
  <2>1. stack # << >> /\ stack' = Tail(stack)
    BY <1>6 DEF RxReturns, Returns, PrintGivesUp, DelayEnds, In, Running
  <2> QED BY <2>1, TopFrame
<1> QED BY <1>1, <1>2, <1>3, <1>4, <1>5, <1>6

\* The steps that change neither the port's conversation nor the host.
Inside == Work \/ PrintGivesUp \/ DelayEnds \/ TimerPoll \/ TimePasses \/ LoopStage

\* What is left when n is divided by m.
LEMMA Remainder ==
    ASSUME NEW n \in Nat, NEW m \in Nat \ {0}
    PROVE  n % m \in 0 .. m - 1 /\ n = ((n \div m) * m) + (n % m) /\ n \div m \in Nat
  OBVIOUS

\* Multiples of m are m apart, or more.
LEMMA MultiplesApart ==
    ASSUME NEW k \in Nat, NEW d \in Nat, NEW m \in Nat, k >= d + 1
    PROVE  k * m >= d * m + m
  OBVIOUS

\* There is one remainder only.
LEMMA RemainderUnique ==
    ASSUME NEW n \in Nat, NEW m \in Nat \ {0}, NEW k \in Nat, NEW i \in 0 .. m - 1, n = k * m + i
    PROVE  n % m = i
<1> DEFINE d == n \div m
<1>1. d \in Nat /\ n % m \in 0 .. m - 1 /\ n = (d * m) + (n % m)
  BY Remainder
<1>2. k >= d + 1 \/ d >= k + 1 \/ k = d
  BY <1>1
<1>3. CASE k >= d + 1
  <2>1. k * m >= d * m + m
    BY <1>1, <1>3, MultiplesApart
  <2> QED BY <1>1, <2>1
<1>4. CASE d >= k + 1
  <2>1. d * m >= k * m + m
    BY <1>1, <1>4, MultiplesApart
  <2> QED BY <1>1, <2>1
<1>5. CASE k = d
  BY <1>1, <1>5
<1> QED BY <1>2, <1>3, <1>4, <1>5

\* The remainder goes round.
LEMMA NextRemainder ==
    ASSUME NEW n \in Nat, NEW m \in Nat \ {0}
    PROVE  (n + 1) % m = IF n % m < m - 1 THEN (n % m) + 1 ELSE 0
<1> DEFINE d == n \div m
           i == n % m
<1>1. i \in 0 .. m - 1 /\ n = (d * m) + i /\ d \in Nat
  BY Remainder
<1> HIDE DEF d, i
<1>2. (d + 1) * m = d * m + m /\ n + 1 \in Nat
  BY <1>1
<1>3. CASE i < m - 1
  <2>1. i + 1 \in 0 .. m - 1 /\ n + 1 = d * m + (i + 1)
    BY <1>1, <1>3
  <2>2. (n + 1) % m = i + 1
    BY <1>1, <2>1, RemainderUnique
  <2> QED BY <1>3, <2>2 DEF i
<1>4. CASE ~ (i < m - 1)
  <2>1. 0 \in 0 .. m - 1 /\ n + 1 = (d + 1) * m + 0 /\ d + 1 \in Nat
    BY <1>1, <1>2, <1>4
  <2>2. (n + 1) % m = 0
    BY <1>1, <2>1, RemainderUnique
  <2> QED BY <1>4, <2>2 DEF i
<1> QED BY <1>3, <1>4

\* What is kept of a line is its end.
LEMMA KeptIs ==
    ASSUME NEW l \in Seq(Char)
    PROVE  /\ Kept(l) \in Seq(Char) /\ Len(Kept(l)) = Len(l) % LineMax
           /\ \A i \in 1 .. Len(Kept(l)) : Kept(l)[i] = l[Len(l) - Len(Kept(l)) + i]
<1> DEFINE n == Len(l)
           w == n % LineMax
           a == n - w + 1
           u == SubSeq(l, a, n)
<1>0. n \in Nat /\ LineMax \in Nat \ {0}
  BY ConsoleAssumption, LenProperties
<1> HIDE DEF n
<1>1. w \in 0 .. LineMax - 1 /\ n = ((n \div LineMax) * LineMax) + w /\ n \div LineMax \in Nat
  BY <1>0, Remainder
<1> HIDE DEF w
<1>2. (n \div LineMax) * LineMax \in Nat /\ w \in Nat
  BY <1>0, <1>1
<1>3. a \in Int /\ n \in Int /\ a >= 1 /\ n - a + 1 = w
  BY <1>0, <1>1, <1>2
<1>4. \A i \in a .. n : l[i] \in Char
  <2>1. \A i \in a .. n : i \in 1 .. n
    BY <1>0, <1>3
  <2> QED BY <2>1, ElementOfSeq DEF n
<1> HIDE DEF a
<1>5. /\ u \in Seq(Char) /\ Len(u) = IF a <= n THEN n - a + 1 ELSE 0
      /\ \A i \in 1 .. n - a + 1 : u[i] = l[a + i - 1]
  BY <1>3, <1>4, SubSeqProperties
<1>6. Len(u) = w
  BY <1>2, <1>3, <1>5
<1>7. ASSUME NEW i \in 1 .. w PROVE u[i] = l[n - w + i]
  <2>1. a + i - 1 = n - w + i
    BY <1>0, <1>2 DEF a
  <2> QED BY <1>3, <1>5, <2>1
<1> HIDE DEF u
<1>8. u = Kept(l)
  BY DEF Kept, u, a, w, n
<1> QED BY <1>5, <1>6, <1>7, <1>8 DEF w, n

\* What each step leaves alone, or leaves typed, as far as the rest needs it.
LEMMA CallType ==
    ASSUME TypeOK, [Next]_vars PROVE CallTypeOK'
<1>0. /\ stack \in Seq(Frame) /\ line \in Seq(Char) /\ ran \in Seq(Seq(Char))
      /\ sent \in Seq(Seq(Char)) /\ resets \in Nat /\ entered \in Nat /\ << >> \in Seq(Char)
  BY DEF TypeOK, CallTypeOK
<1>1. CASE usb_cdc_poll
  BY <1>0, <1>1, StackType DEF usb_cdc_poll, usb_reset, PollEp0, PollEp1, PollEp2, soft, hist, CallTypeOK
<1>2. CASE RxByte
  BY <1>0, <1>2, StackType DEF RxByte, hist, CallTypeOK
<1>3. CASE Goes \/ PrintPacket \/ TimerPoll \/ LoopStage \/ PrintGivesUp \/ DelayEnds \/ RxReturns
  BY <1>0, <1>3, StackType DEF Goes, PrintPacket, TimerPoll, LoopStage, PrintGivesUp, DelayEnds,
     RxReturns, hist, CallTypeOK
<1>4. CASE Returns
  <2>1. line' = line \/ line' = << >>
    BY <1>4 DEF Returns
  <2> QED BY <1>0, <1>4, <2>1, StackType DEF Returns, hist, CallTypeOK
<1>5. CASE TimePasses
  BY <1>0, <1>5 DEF TimePasses, hist, CallTypeOK
<1>6. CASE Resets
  BY <1>0, <1>6 DEF Resets, soft, CallTypeOK
<1>7. ASSUME NEW l \in Typed, HostTypes(l) PROVE CallTypeOK'
  <2>1. Kept(l) \in Seq(Char)
    BY KeptIs, ConsoleAssumption
  <2> QED BY <1>0, <1>7, <2>1 DEF HostTypes, soft, CallTypeOK
<1>8. CASE HostRequests \/ HostTakes \/ HostConfirms \/ HostSends \/ HostReads
  BY <1>0, <1>8 DEF HostRequests, HostTakes, HostConfirms, HostSends, HostReads, soft, hist, CallTypeOK
<1>9. CASE UNCHANGED vars
  BY <1>0, <1>9 DEF vars, soft, hist, CallTypeOK
<1> QED
  BY <1>1, <1>2, <1>3, <1>4, <1>5, <1>6, <1>7, <1>8, <1>9 DEF Next, LoopPolls, PrintPolls, Work, Host

\* A step of the device's calls leaves the port typed.
LEMMA InsidePortType ==
    ASSUME TypeOK, Inside \/ UNCHANGED vars PROVE PortTypeOK'
<1>0. host \in HostState /\ ep0 \in Ep0State /\ ep1 \in Ep1State /\ ep2 \in Ep2State /\ typed \in Bytes
  BY DEF TypeOK, PortTypeOK
<1>1. CASE RxReturns
  BY <1>0, <1>1, EndpointTypes DEF RxReturns, PortTypeOK
<1>2. CASE PrintPacket
  <2>1. [ep1 EXCEPT !.ready = TRUE] \in Ep1State
    BY <1>0 DEF Ep1State
  <2> QED BY <1>0, <1>2, <2>1 DEF PrintPacket, PortTypeOK
<1>3. CASE RxByte \/ Goes \/ Returns \/ PrintGivesUp \/ DelayEnds \/ TimerPoll \/ TimePasses \/ LoopStage
           \/ UNCHANGED vars
  BY <1>0, <1>3 DEF RxByte, Goes, Returns, PrintGivesUp, DelayEnds, TimerPoll, TimePasses,
     LoopStage, usb, vars, PortTypeOK
<1> QED BY <1>1, <1>2, <1>3 DEF Inside, Work

\* Every step keeps the flags of the port and of the driver in their types.
LEMMA FlagType ==
    ASSUME TypeOK, [Next]_vars PROVE FlagTypeOK'
<1> USE DEF TypeOK, FlagTypeOK
<1>1. CASE usb_cdc_poll
  BY <1>1, Zenon DEF usb_cdc_poll, usb_reset, PollEp0, PollEp1, PollEp2, soft, hist
<1>2. CASE Inside
  <2>1. CASE Work
    BY <2>1, Zenon DEF Work, RxByte, RxReturns, Goes, Returns, PrintPacket, usb, hist
  <2>2. CASE PrintGivesUp \/ DelayEnds \/ TimerPoll \/ TimePasses \/ LoopStage
    BY <2>2, Zenon DEF PrintGivesUp, DelayEnds, TimerPoll, TimePasses, LoopStage, usb, hist
  <2> QED BY <1>2, <2>1, <2>2 DEF Inside
<1>3. CASE Host
  BY <1>3, Zenon DEF Host, Resets, HostRequests, HostTakes, HostConfirms, HostTypes, HostSends, HostReads,
     usb, soft, hist
<1>4. CASE UNCHANGED vars
  BY <1>4, Zenon DEF vars, usb, soft, hist
<1> QED
  BY <1>1, <1>2, <1>3, <1>4 DEF Next, LoopPolls, PrintPolls, Inside

\* Every step keeps the types.
LEMMA TypeStep == TypeOK /\ [Next]_vars => TypeOK'
<1> SUFFICES ASSUME TypeOK, [Next]_vars PROVE TypeOK'
  OBVIOUS
<1>1. usb_cdc_poll \/ Host \/ Inside \/ UNCHANGED vars
  BY DEF Next, LoopPolls, PrintPolls, Inside
<1>2. PortTypeOK'
  BY <1>1, PollPortType, HostPortType, InsidePortType
<1> QED BY <1>2, CallType, FlagType DEF TypeOK

\* The port, the calls under way and the lines stay within their types.
THEOREM TypeCorrect == Spec => []TypeOK
BY InitType, TypeStep, PTL DEF Spec

(***************************************************************************)
(* The address at which the port answers.                                  *)
(***************************************************************************)

\* The host starts over: it asks at address 0.
StartsOver == host = [at |-> "ADDRESS", phase |-> "SETUP", address |-> 0]

\* The conversation of host and device, from the reset of the bus on: the device
\* is new; it is given an address; it has answered at the old one, and has not
\* noticed that the answer was taken; the new address is in force.
New ==
    StartsOver /\ ep0.address = 0 /\ ep0.setup = "NONE" /\ ~ ep0.taken /\ ~ ep0.set_address_pending

Given ==
    /\ host.at = "ADDRESS" /\ host.phase = "IN" /\ host.address = 0
    /\ ep0.address = 0 /\ ~ ep0.taken
    /\ \/ ep0.setup = "ADDRESS" /\ ep0.tx = "NAK"
       \/ ep0.setup = "NONE" /\ ep0.tx = "EMPTY" /\ ep0.set_address_pending /\ ep0.usb_address = 1

AnswerTaken ==
    /\ host.at = "DESCRIPTOR" /\ host.phase = "SETUP" /\ host.address = 1
    /\ ep0.setup = "NONE" /\ ep0.taken /\ ep0.set_address_pending /\ ep0.usb_address = 1

InForce ==
    /\ host.at \in {"DESCRIPTOR", "CONFIGURATION", "UP"} /\ host.address = 1
    /\ ep0.address = 1 /\ ~ ep0.set_address_pending /\ ep0.setup # "ADDRESS"

AddressInv ==
    /\ reset => StartsOver
    /\ ~ late /\ ~ reset => host.phase = "NONE" \/ New \/ Given \/ AnswerTaken \/ InForce

\* What a poll does to endpoint 0 in each part of the conversation.
LEMMA PollKeepsAddress ==
    ASSUME TypeOK, AddressInv, usb_cdc_poll PROVE AddressInv'
<1>0. ep0 \in Ep0State
  BY DEF TypeOK, PortTypeOK
<1>1. CASE usb_reset
  <2>1. ep0' = Ep0Reset(ep0) /\ StartsOver' /\ ~ reset'
    BY <1>1 DEF usb_reset, AddressInv, StartsOver
  <2>2. /\ ep0'.address = 0 /\ ep0'.setup = "NONE" /\ ~ ep0'.taken
        /\ ~ ep0'.set_address_pending
    BY <1>0, <2>1 DEF Ep0Reset, Ep0State
  <2> QED BY <2>1, <2>2 DEF AddressInv, New
<1>2. CASE PollEp0
  <2> DEFINE h == [Handled(ep0) EXCEPT !.taken = FALSE]
  <2>1. ~ reset /\ UNCHANGED <<host, reset, late>> /\ Pending0
        /\ ep0' = IF ep0.taken THEN Acknowledged(h) ELSE h
    BY <1>2 DEF PollEp0, hist
  <2>2. CASE late \/ host.phase = "NONE"
    BY <2>1, <2>2 DEF AddressInv
  <2>3. CASE New
    BY <2>1, <2>3 DEF New, Pending0
  <2>4. CASE Given
    <3>1. ep0.setup = "ADDRESS" /\ ~ ep0.taken
      BY <2>1, <2>4 DEF Given, Pending0
    <3>2. /\ ep0'.setup = "NONE" /\ ep0'.tx = "EMPTY" /\ ep0'.set_address_pending
          /\ ep0'.usb_address = 1 /\ ~ ep0'.taken /\ ep0'.address = ep0.address
      BY <1>0, <2>1, <3>1 DEF Handled, Ep0State
    <3>3. Given'
      BY <2>1, <2>4, <3>2 DEF Given
    <3> QED BY <2>1, <3>3 DEF AddressInv
  <2>5. CASE AnswerTaken
    <3>1. ep0.setup = "NONE" /\ ep0.taken /\ ep0.set_address_pending /\ ep0.usb_address = 1
      BY <2>5 DEF AnswerTaken
    <3>2. h = [ep0 EXCEPT !.taken = FALSE]
      BY <3>1 DEF Handled
    <3>3. ep0' = Acknowledged([ep0 EXCEPT !.taken = FALSE])
      BY <2>1, <3>1, <3>2
    <3>4. ep0'.address = 1 /\ ~ ep0'.set_address_pending /\ ep0'.setup = "NONE"
      BY <1>0, <3>1, <3>3 DEF Acknowledged, Ep0State
    <3>5. InForce'
      BY <2>1, <2>5, <3>4 DEF AnswerTaken, InForce
    <3> QED BY <2>1, <3>5 DEF AddressInv
  <2>6. CASE InForce
    <3>1. ep0.address = 1 /\ ~ ep0.set_address_pending /\ ep0.setup # "ADDRESS"
      BY <2>6 DEF InForce
    <3>2. h \in Ep0State /\ h.address = 1 /\ ~ h.set_address_pending /\ h.setup = "NONE"
      BY <1>0, <3>1 DEF Handled, Ep0State, Request
    <3> HIDE DEF h
    <3>3. /\ Acknowledged(h).address = 1
          /\ ~ Acknowledged(h).set_address_pending
          /\ Acknowledged(h).setup = "NONE"
      BY <3>2 DEF Acknowledged, Ep0State
    <3>4. ep0'.address = 1 /\ ~ ep0'.set_address_pending /\ ep0'.setup = "NONE"
      BY <2>1, <3>2, <3>3
    <3>5. InForce'
      BY <2>1, <2>6, <3>4 DEF InForce
    <3> QED BY <2>1, <3>5 DEF AddressInv
  <2> QED BY <2>1, <2>2, <2>3, <2>4, <2>5, <2>6 DEF AddressInv
<1>3. CASE PollEp1 \/ PollEp2
  <2>1. UNCHANGED <<host, reset, late, ep0>>
    BY <1>3 DEF PollEp1, PollEp2, hist
  <2> QED BY <2>1 DEF AddressInv, StartsOver, New, Given, AnswerTaken, InForce
<1> QED BY <1>1, <1>2, <1>3 DEF usb_cdc_poll

\* ... and what the host does.
LEMMA HostKeepsAddress ==
    ASSUME TypeOK, AddressInv, Host PROVE AddressInv'
<1>0. ep0 \in Ep0State /\ host \in HostState
  BY DEF TypeOK, PortTypeOK
<1>1. CASE Resets
  BY <1>1 DEF Resets, AddressInv, StartsOver
<1>2. CASE HostRequests
  <2>1. /\ ~ reset /\ ~ reset' /\ host.phase = "SETUP" /\ ep0.address = host.address
        /\ host'.at = host.at /\ host'.phase = "IN" /\ host'.address = host.address
        /\ ep0'.setup = host.at /\ ep0'.tx = "NAK" /\ ep0'.taken = ep0.taken
        /\ ep0'.address = ep0.address /\ ep0'.set_address_pending = ep0.set_address_pending
    BY <1>0, <1>2 DEF HostRequests, Hears, HostState, Ep0State
  <2>2. late' <=> late \/ Pending0
    BY <1>2 DEF HostRequests
  <2>3. CASE New
    <3>1. Given'
      BY <2>1, <2>3 DEF New, StartsOver, Given
    <3> QED BY <2>1, <3>1 DEF AddressInv
  <2>4. CASE Given
    BY <2>1, <2>4 DEF Given
  <2>5. CASE AnswerTaken
    BY <2>1, <2>2, <2>5 DEF AnswerTaken, Pending0, AddressInv
  <2>6. CASE InForce
    <3>1. InForce'
      BY <2>1, <2>6 DEF InForce
    <3> QED BY <2>1, <3>1 DEF AddressInv
  <2> QED BY <2>1, <2>2, <2>3, <2>4, <2>5, <2>6 DEF AddressInv
<1>3. CASE HostTakes
  <2>1. /\ ~ reset /\ ~ reset' /\ host.phase \in {"IN", "REST"} /\ ep0.tx # "NAK"
        /\ late' = late
    BY <1>3 DEF HostTakes, Hears, hist
  <2>2. /\ ep0' = [ep0 EXCEPT !.tx = "NAK", !.taken = TRUE]
        /\ host' = After(ep0.tx)
    BY <1>3 DEF HostTakes
  <2>3. /\ ep0'.taken /\ ep0'.setup = ep0.setup /\ ep0'.address = ep0.address
        /\ ep0'.set_address_pending = ep0.set_address_pending
        /\ ep0'.usb_address = ep0.usb_address
    BY <1>0, <2>2 DEF Ep0State
  <2>4. CASE Given
    <3>1. ep0.tx = "EMPTY" /\ host.at = "ADDRESS" /\ ep0.setup = "NONE"
          /\ ep0.set_address_pending /\ ep0.usb_address = 1
      BY <2>1, <2>4 DEF Given
    <3>2. host' = [at |-> "DESCRIPTOR", phase |-> "SETUP", address |-> 1]
      BY <2>2, <3>1 DEF After, Following
    <3>3. AnswerTaken'
      BY <2>3, <3>1, <3>2 DEF AnswerTaken
    <3> QED BY <2>1, <3>3 DEF AddressInv
  <2>5. CASE InForce
    <3>1. host.at \in {"DESCRIPTOR", "CONFIGURATION", "UP"} /\ host.address = 1
      BY <2>5 DEF InForce
    <3>2. host'.at \in {"DESCRIPTOR", "CONFIGURATION", "UP"} /\ host'.address = 1
      BY <1>0, <2>2, <3>1 DEF After, Following, HostState
    <3>3. InForce'
      BY <2>3, <2>5, <3>2 DEF InForce
    <3> QED BY <2>1, <3>3 DEF AddressInv
  <2>6. CASE late \/ host.phase = "NONE" \/ New \/ AnswerTaken
    BY <2>1, <2>6 DEF New, StartsOver, AnswerTaken, AddressInv
  <2> QED BY <2>1, <2>4, <2>5, <2>6 DEF AddressInv
<1>4. CASE HostConfirms
  <2>1. /\ ~ reset /\ ~ reset' /\ host.phase = "STATUS" /\ late' = late
        /\ host'.at = Following(host.at) /\ host'.address = host.address
        /\ ep0'.setup = "STATUS" /\ ep0'.address = ep0.address
        /\ ep0'.set_address_pending = ep0.set_address_pending
    BY <1>0, <1>4 DEF HostConfirms, Hears, hist, HostState, Ep0State
  <2>2. CASE InForce
    <3>1. InForce'
      BY <2>1, <2>2 DEF InForce, Following
    <3> QED BY <2>1, <3>1 DEF AddressInv
  <2> QED BY <2>1, <2>2 DEF AddressInv, New, StartsOver, Given, AnswerTaken
<1>5. CASE (\E l \in Typed : HostTypes(l)) \/ HostSends \/ HostReads
  <2>1. UNCHANGED <<host, reset, late, ep0>>
    BY <1>5 DEF HostTypes, HostSends, HostReads, usb, hist
  <2> QED BY <2>1 DEF AddressInv, StartsOver, New, Given, AnswerTaken, InForce
<1> QED BY <1>1, <1>2, <1>3, <1>4, <1>5 DEF Host

\* Every step leaves the conversation in one of its four parts.
LEMMA AddressStep == TypeOK /\ AddressInv /\ [Next]_vars => AddressInv'
<1> SUFFICES ASSUME TypeOK, AddressInv, [Next]_vars PROVE AddressInv'
  OBVIOUS
<1>1. CASE Inside \/ UNCHANGED vars
  <2>1. UNCHANGED <<host, reset, late, ep0>>
    BY <1>1 DEF Inside, Work, RxByte, RxReturns, Goes, Returns, PrintPacket, PrintGivesUp, DelayEnds,
       TimerPoll, TimePasses, LoopStage, usb, hist, vars
  <2> QED BY <2>1 DEF AddressInv, StartsOver, New, Given, AnswerTaken, InForce
<1> QED
  BY <1>1, PollKeepsAddress, HostKeepsAddress DEF Next, LoopPolls, PrintPolls, Inside

\* A request is answered at the address at which it was made: the new address is
\* in force after the status stage and before the next request, and a reset of
\* the bus leaves no address behind; the host's handshake and the order in which
\* the poll works off a packet and its acknowledgement leave only the four
\* parts of the conversation above.
THEOREM AnswersWhereAsked == Spec => []AnsweredWhereAsked
<1>1. Init => AddressInv
  BY DEF Init, Away, AddressInv
<1>2. AddressInv => AnsweredWhereAsked
  BY DEF AddressInv, AnsweredWhereAsked, New, StartsOver, Given, AnswerTaken, InForce
<1> QED BY <1>1, <1>2, AddressStep, TypeCorrect, PTL DEF Spec

(***************************************************************************)
(* The calls under way.                                                    *)
(***************************************************************************)

\* What a call may have been made from.
Beneath(op) ==
    CASE op = "RX"      -> {"PRINT"}
      [] op = "COMMAND" -> {"RX"}
      [] op = "BEACON"  -> {"DELAY"}
      [] op = "DELAY"   -> {"COMMAND", "STAGE"}
      [] op = "PRINT"   -> {"COMMAND", "STAGE", "BEACON"}
      [] OTHER          -> {}

\* ... and which of them the loop makes itself.
FromLoop == {"RX", "BEACON", "STAGE"}

Nested(st) ==
    \A i \in 1 .. Len(st) :
        IF i = Len(st) THEN st[i].op \in FromLoop ELSE st[i + 1].op \in Beneath(st[i].op)

\* The calls of one kind in a stack.
Calls(st, op) == {i \in DOMAIN st : st[i].op = op}

One(b) == IF b THEN 1 ELSE 0

\* Endpoint 2 is opened by a reset of the bus, and by the end of the handler that
\* its packet started: so each handler under way, and each chance to start one
\* more, is a reset.
OpensPaidFor ==
    Under("RX") + One(ep2.armed) + One(ep2.received) + One(reset) <= resets

NestingInv == Nested(stack) /\ OpensPaidFor

\* Entering a call, ending one, and going on in one: what it does to the order of
\* the calls and to their numbers.
LEMMA NestedPush ==
    ASSUME NEW st \in Seq(Frame), NEW f \in Frame, Nested(st),
           IF st = << >> THEN f.op \in FromLoop ELSE st[1].op \in Beneath(f.op)
    PROVE  Nested(<<f>> \o st)
<1> DEFINE t == <<f>> \o st
<1>1. Len(st) \in Nat /\ (st = << >> <=> Len(st) = 0)
  BY EmptySeq, LenProperties
<1>2. Len(t) = Len(st) + 1 /\ t[1] = f /\ \A i \in 1 .. Len(st) : t[i + 1] = st[i]
  OBVIOUS
<1> HIDE DEF t
<1>3. SUFFICES ASSUME NEW i \in 1 .. Len(t)
      PROVE  IF i = Len(t) THEN t[i].op \in FromLoop ELSE t[i + 1].op \in Beneath(t[i].op)
  BY DEF Nested, t
<1>4. CASE i = 1
  BY <1>1, <1>2, <1>4
<1>5. CASE i # 1
  <2>1. i - 1 \in 1 .. Len(st) /\ t[i] = st[i - 1]
    BY <1>1, <1>2, <1>5
  <2>2. i # Len(t) => i \in 1 .. Len(st) /\ t[i + 1] = st[i]
    BY <1>1, <1>2
  <2> QED BY <1>1, <1>2, <2>1, <2>2 DEF Nested
<1> QED BY <1>4, <1>5

\* The call below the last one is still made by the one it was made by.
LEMMA NestedTail ==
    ASSUME NEW st \in Seq(Frame), st # << >>, Nested(st)
    PROVE  Nested(Tail(st))
<1> DEFINE t == Tail(st)
           n == Len(st)
<1>1. /\ n \in Nat /\ Len(t) = n - 1
      /\ \A i \in 1 .. n - 1 : t[i] = st[i + 1]
  BY HeadTailProperties, LenProperties
<1>2. \A i \in 1 .. n : IF i = n THEN st[i].op \in FromLoop ELSE st[i + 1].op \in Beneath(st[i].op)
  BY DEF Nested
<1> HIDE DEF t, n
<1>3. ASSUME NEW i \in 1 .. Len(t)
      PROVE  IF i = Len(t) THEN t[i].op \in FromLoop ELSE t[i + 1].op \in Beneath(t[i].op)
  <2> DEFINE j == i + 1
  <2>1. j \in 1 .. n /\ t[i] = st[j] /\ (i = Len(t) <=> j = n)
    BY <1>1
  <2>2. i # Len(t) => t[j] = st[j + 1]
    BY <1>1
  <2> HIDE DEF j
  <2>3. IF i = Len(t) THEN t[i].op \in FromLoop ELSE t[j].op \in Beneath(t[i].op)
    BY <1>2, <2>1, <2>2
  <2> QED BY <2>3 DEF j
<1> QED BY <1>3 DEF Nested, t

\* A call that goes on is where it was.
LEMMA NestedReplace ==
    ASSUME NEW st \in Seq(Frame), st # << >>, Nested(st), NEW f \in Frame, f.op = Head(st).op
    PROVE  Nested(<<f>> \o Tail(st))
<1> DEFINE t == Tail(st)
           n == Len(st)
<1>1. /\ t \in Seq(Frame) /\ Nested(t) /\ n \in Nat /\ Len(t) = n - 1 /\ n > 0
      /\ \A i \in 1 .. n - 1 : t[i] = st[i + 1]
      /\ f.op = st[1].op
  BY NestedTail, HeadTailProperties, LenProperties, EmptySeq
<1>2. \A i \in 1 .. n : IF i = n THEN st[i].op \in FromLoop ELSE st[i + 1].op \in Beneath(st[i].op)
  BY DEF Nested
<1>3. t = << >> <=> n = 1
  BY <1>1, EmptySeq
<1> HIDE DEF t, n
<1>4. n # 1 => 1 \in 1 .. n - 1 /\ t[1] = st[1 + 1] /\ st[1 + 1].op \in Beneath(st[1].op)
  BY <1>1, <1>2
<1>5. n = 1 => st[1].op \in FromLoop
  BY <1>2
<1>6. IF t = << >> THEN f.op \in FromLoop ELSE t[1].op \in Beneath(f.op)
  BY <1>1, <1>3, <1>4, <1>5
<1>7. Nested(<<f>> \o t)
  BY <1>1, <1>6, NestedPush
<1> QED BY <1>7 DEF t

\* A call that starts is one more of its kind.
LEMMA CallsPush ==
    ASSUME NEW st \in Seq(Frame), NEW f \in Frame, NEW op
    PROVE  /\ IsFiniteSet(Calls(st, op)) /\ Cardinality(Calls(st, op)) \in Nat
           /\ Cardinality(Calls(<<f>> \o st, op)) = Cardinality(Calls(st, op)) + One(f.op = op)
<1> DEFINE t == <<f>> \o st
           S == Calls(st, op)
           T == {i \in 2 .. Len(st) + 1 : t[i].op = op}
<1>1. Len(st) \in Nat /\ DOMAIN st = 1 .. Len(st)
  BY LenProperties
<1>2. /\ Len(t) = Len(st) + 1 /\ DOMAIN t = 1 .. Len(st) + 1 /\ t[1] = f
      /\ \A i \in 1 .. Len(st) : t[i + 1] = st[i]
  OBVIOUS
<1> HIDE DEF t
<1>3. IsFiniteSet(S) /\ Cardinality(S) \in Nat
  <2>1. IsFiniteSet(1 .. Len(st)) /\ S \subseteq 1 .. Len(st)
    BY <1>1, FS_Interval DEF Calls
  <2> QED BY <2>1, FS_Subset, FS_CardinalityType
<1>4. ExistsBijection(S, T)
  <2> DEFINE g == [i \in S |-> i + 1]
  <2>1. \A i \in S : i \in 1 .. Len(st) /\ st[i].op = op /\ i + 1 \in T
    BY <1>1, <1>2 DEF Calls
  <2>2. \A j \in T : j - 1 \in S
    BY <1>1, <1>2 DEF Calls
  <2>3. g \in [S -> T]
    BY <2>1
  <2>4. \A i, j \in S : g[i] = g[j] => i = j
    BY <2>1
  <2>5. \A j \in T : \E i \in S : g[i] = j
    BY <1>1, <2>2
  <2>6. g \in Bijection(S, T)
    BY <2>3, <2>4, <2>5 DEF Bijection, Injection, Surjection, IsInjective
  <2> QED BY <2>6 DEF ExistsBijection
<1>5. IsFiniteSet(T) /\ Cardinality(T) = Cardinality(S)
  BY <1>3, <1>4, FS_Bijection
<1>6. 1 \notin T
  BY <1>1
<1>7. Calls(t, op) = IF f.op = op THEN T \cup {1} ELSE T
  BY <1>1, <1>2 DEF Calls
<1>8. Cardinality(T \cup {1}) = Cardinality(T) + 1
  BY <1>5, <1>6, FS_AddElement
<1>9. Cardinality(Calls(t, op)) = Cardinality(S) + One(f.op = op)
  BY <1>3, <1>5, <1>7, <1>8 DEF One
<1> QED BY <1>3, <1>9 DEF t

\* A call that ends is one less.
LEMMA CallsTail ==
    ASSUME NEW st \in Seq(Frame), st # << >>, NEW op
    PROVE  /\ Cardinality(Calls(Tail(st), op)) \in Nat
           /\ Cardinality(Calls(st, op)) = Cardinality(Calls(Tail(st), op)) + One(Head(st).op = op)
<1>1. Head(st) \in Frame /\ Tail(st) \in Seq(Frame) /\ st = <<Head(st)>> \o Tail(st)
  BY HeadTailProperties
<1> DEFINE h == Head(st)
           t == Tail(st)
<1>2. h \in Frame /\ t \in Seq(Frame) /\ st = <<h>> \o t
  BY <1>1
<1> HIDE DEF h, t
<1>3. Cardinality(Calls(t, op)) \in Nat
      /\ Cardinality(Calls(<<h>> \o t, op)) = Cardinality(Calls(t, op)) + One(h.op = op)
  BY <1>2, CallsPush
<1> QED BY <1>2, <1>3 DEF h, t

\* The calls that a property counts are those of the stack.
LEMMA UnderCalls == \A op : Under(op) = Cardinality(Calls(stack, op))
BY DEF Under, Calls

\* The calls of a kind are a number.
LEMMA CallsNat == ASSUME NEW st \in Seq(Frame), NEW op PROVE Cardinality(Calls(st, op)) \in Nat
BY CallsPush, EnteredFrames

\* The same for the stack of the console: its number of handlers changes where a
\* handler starts or ends, and nowhere else.
LEMMA PushedCall ==
    ASSUME CallTypeOK, Nested(stack), NEW f \in Frame,
           IF stack = << >> THEN f.op \in FromLoop ELSE Head(stack).op \in Beneath(f.op)
    PROVE  /\ Nested(<<f>> \o stack)
           /\ Cardinality(Calls(<<f>> \o stack, "RX")) = Under("RX") + One(f.op = "RX")
<1>1. stack \in Seq(Frame) /\ (stack # << >> => Head(stack) = stack[1])
  BY HeadTailProperties DEF CallTypeOK
<1>2. Nested(<<f>> \o stack)
  BY <1>1, NestedPush
<1> QED BY <1>1, <1>2, UnderCalls, CallsPush

\* The last call ends.
LEMMA PoppedCall ==
    ASSUME CallTypeOK, Nested(stack), stack # << >>
    PROVE  /\ Nested(Tail(stack))
           /\ Cardinality(Calls(Tail(stack), "RX")) \in Nat
           /\ Cardinality(Calls(Tail(stack), "RX")) + One(In("RX")) = Under("RX")
<1>1. stack \in Seq(Frame)
  BY DEF CallTypeOK
<1>2. /\ Cardinality(Calls(Tail(stack), "RX")) \in Nat
      /\ Cardinality(Calls(stack, "RX")) = Cardinality(Calls(Tail(stack), "RX")) + One(Head(stack).op = "RX")
  BY <1>1, CallsTail
<1>3. One(In("RX")) = One(Head(stack).op = "RX")
  BY DEF In, One
<1> QED BY <1>1, <1>2, <1>3, NestedTail, UnderCalls

\* The last call goes on.
LEMMA ReplacedCall ==
    ASSUME CallTypeOK, Nested(stack), stack # << >>, NEW f \in Frame, f.op = Head(stack).op
    PROVE  /\ Becomes(f) \in Seq(Frame) /\ Nested(Becomes(f))
           /\ Cardinality(Calls(Becomes(f), "RX")) = Under("RX")
<1> DEFINE t == Tail(stack)
<1>1. stack \in Seq(Frame) /\ t \in Seq(Frame)
  BY HeadTailProperties DEF CallTypeOK
<1>2. Cardinality(Calls(t, "RX")) \in Nat
  BY <1>1, CallsNat
<1>3. Cardinality(Calls(Becomes(f), "RX")) = Cardinality(Calls(t, "RX")) + One(f.op = "RX")
  <2> HIDE DEF t
  <2>1. Cardinality(Calls(<<f>> \o t, "RX")) = Cardinality(Calls(t, "RX")) + One(f.op = "RX")
    BY <1>1, CallsPush
  <2> QED BY <2>1 DEF Becomes, t
<1>4. One(In("RX")) = One(f.op = "RX")
  BY DEF In, One
<1> QED BY <1>1, <1>2, <1>3, <1>4, PoppedCall, NestedReplace, PushType DEF Becomes

\* The numbers of a step.
LEMMA StackStep ==
    ASSUME TypeOK, Nested(stack)
    PROVE  /\ PollEp2 /\ (stack = << >> \/ In("PRINT")) =>
                  Nested(stack') /\ Under("RX")' = Under("RX") + One(ep2.bytes # << >>)
           /\ RxByte \/ Goes \/ TimerPoll \/ LoopStage \/ PrintPacket \/ PrintGivesUp \/ DelayEnds \/ Returns =>
                  Nested(stack') /\ Under("RX")' = Under("RX")
           /\ RxReturns => Nested(stack') /\ Under("RX")' + 1 = Under("RX")
<1> USE DEF TypeOK
<1>0. /\ Under("RX")' = Cardinality(Calls(stack', "RX"))
      /\ Under("RX") = Cardinality(Calls(stack, "RX")) /\ Under("RX") \in Nat
  <2>1. Under("RX")' = Cardinality(Calls(stack', "RX"))
    BY DEF Under, Calls
  <2> QED BY <2>1, UnderCalls, CallsNat DEF CallTypeOK
<1>1. ASSUME PollEp2, stack = << >> \/ In("PRINT")
      PROVE  Nested(stack') /\ Under("RX")' = Under("RX") + One(ep2.bytes # << >>)
  <2>1. CASE ep2.bytes = << >>
    BY <1>0, <1>1, <2>1 DEF PollEp2, One, Under
  <2>2. CASE ep2.bytes # << >>
    <3> DEFINE f == Rx(ep2.bytes)
    <3>1. f \in Frame /\ f.op = "RX" /\ stack' = <<f>> \o stack
      BY <1>1, <2>2, EnteredFrames DEF PollEp2, Called, Rx, PortTypeOK, Ep2State
    <3> HIDE DEF f
    <3>2. IF stack = << >> THEN f.op \in FromLoop ELSE Head(stack).op \in Beneath(f.op)
      BY <1>1, <3>1 DEF In, FromLoop, Beneath
    <3> QED BY <1>0, <2>2, <3>1, <3>2, PushedCall DEF One
  <2> QED BY <2>1, <2>2
<1>2. ASSUME RxByte PROVE Nested(stack') /\ Under("RX")' = Under("RX")
  <2> DEFINE f == Rx(Tail(Head(stack).bytes))
             st == Becomes(f)
  <2>1. Head(stack).bytes \in Seq(Char \cup {EOL}) /\ Head(stack).bytes # << >>
        /\ stack # << >> /\ Head(stack).op = "RX"
    BY <1>2, TopFrame DEF RxByte, In, Bytes
  <2>2. f \in Frame /\ f.op = "RX"
    BY <2>1, HeadTailProperties, EnteredFrames DEF Rx, Bytes
  <2>3. stack' = st \/ \E s \in CommandDoes : stack' = <<Command(s)>> \o st
    BY <1>2 DEF RxByte
  <2> HIDE DEF f
  <2>4. st \in Seq(Frame) /\ Nested(st) /\ Cardinality(Calls(st, "RX")) = Under("RX")
        /\ st # << >> /\ st[1].op = "RX"
    BY <2>1, <2>2, ReplacedCall DEF Becomes
  <2> HIDE DEF st
  <2>5. ASSUME NEW s \in CommandDoes
        PROVE  Nested(<<Command(s)>> \o st) /\ Cardinality(Calls(<<Command(s)>> \o st, "RX")) = Under("RX")
    <3>1. Command(s) \in Frame /\ Command(s).op = "COMMAND"
      BY EnteredFrames, ConsoleAssumption DEF Command
    <3>2. st[1].op \in Beneath(Command(s).op)
      BY <2>4, <3>1 DEF Beneath
    <3> QED BY <1>0, <2>4, <3>1, <3>2, NestedPush, CallsPush DEF One
  <2> QED BY <1>0, <2>3, <2>4, <2>5
<1>3. ASSUME Goes PROVE Nested(stack') /\ Under("RX")' = Under("RX")
  <2> DEFINE n == Head(Head(stack).script)
             f == [Head(stack) EXCEPT !.script = Tail(Head(stack).script)]
             st == Becomes(f)
  <2>1. n \in Nat /\ (In("BEACON") => n # 0) /\ f \in Frame /\ f.op = Head(stack).op
    BY <1>3, ScriptStep DEF Goes
  <2>2. stack # << >> /\ (In("BEACON") \/ f.op \in {"COMMAND", "STAGE"})
    BY <1>3, <2>1 DEF Goes, Running, In
  <2>3. stack' = Started(n) \o st
    BY <1>3 DEF Goes
  <2> HIDE DEF n, f
  <2>4. st \in Seq(Frame) /\ Nested(st) /\ Cardinality(Calls(st, "RX")) = Under("RX")
        /\ st # << >> /\ st[1].op = Head(stack).op
    BY <2>1, <2>2, ReplacedCall DEF Becomes
  <2> HIDE DEF st
  <2>5. CASE Started(n) = << >>
    BY <1>0, <2>3, <2>4, <2>5
  <2>6. ASSUME NEW g \in Frame, Started(n) = <<g>>, g.op # "RX", st[1].op \in Beneath(g.op)
        PROVE  Nested(stack') /\ Under("RX")' = Under("RX")
    BY <1>0, <2>3, <2>4, <2>6, NestedPush, CallsPush DEF One
  <2>7. CASE n = 0
    <3>1. Started(n) = <<Delay>> /\ Delay \in Frame /\ Delay.op = "DELAY"
      BY <2>7, EnteredFrames DEF Started, Delay
    <3>2. st[1].op \in Beneath("DELAY")
      BY <2>1, <2>2, <2>4, <2>7 DEF Beneath
    <3> QED BY <2>6, <3>1, <3>2
  <2>8. CASE n # 0 /\ configured
    <3>1. Started(n) = <<Printing(n)>> /\ Printing(n) \in Frame /\ Printing(n).op = "PRINT"
      BY <2>1, <2>8, EnteredFrames DEF Started, Printing
    <3>2. st[1].op \in Beneath("PRINT")
      BY <2>1, <2>2, <2>4 DEF Beneath, In
    <3> QED BY <2>6, <3>1, <3>2
  <2>9. CASE n # 0 /\ ~ configured
    BY <2>5, <2>9 DEF Started
  <2> QED BY <2>7, <2>8, <2>9
<1>4. ASSUME TimerPoll \/ LoopStage PROVE Nested(stack') /\ Under("RX")' = Under("RX")
  <2>1. PICK f \in Frame : /\ stack' = <<f>> \o stack /\ f.op # "RX"
                           /\ IF stack = << >> THEN f.op \in FromLoop ELSE Head(stack).op \in Beneath(f.op)
    <3>1. CASE TimerPoll
      <4>1. PICK s \in BeaconDoes : stack' = Called(Beacon(s))
        BY <3>1 DEF TimerPoll
      <4>2. Beacon(s) \in Frame /\ Beacon(s).op = "BEACON"
        BY EnteredFrames, ConsoleAssumption DEF Beacon
      <4> QED BY <3>1, <4>1, <4>2 DEF TimerPoll, Called, FromLoop, Beneath, In
    <3>2. CASE LoopStage
      <4>1. PICK s \in LoopDoes : stack' = Called(Stage(s))
        BY <3>2 DEF LoopStage
      <4>2. Stage(s) \in Frame /\ Stage(s).op = "STAGE"
        BY EnteredFrames, ConsoleAssumption DEF Stage
      <4> QED BY <3>2, <4>1, <4>2 DEF LoopStage, Called, FromLoop
    <3> QED BY <1>4, <3>1, <3>2
  <2> QED BY <1>0, <2>1, PushedCall DEF One
<1>5. ASSUME PrintPacket PROVE Nested(stack') /\ Under("RX")' = Under("RX")
  <2>1. stack # << >> /\ Head(stack).op = "PRINT" /\ Head(stack).left \in Nat \ {0}
        /\ ~ In("RX")
    BY <1>5, TopFrame DEF PrintPacket, In
  <2>2. CASE Head(stack).left - 1 = 0
    BY <1>0, <1>5, <2>1, <2>2, PoppedCall DEF PrintPacket, One
  <2>3. CASE Head(stack).left - 1 # 0
    <3> DEFINE f == Printing(Head(stack).left - 1)
    <3>1. f \in Frame /\ f.op = "PRINT" /\ stack' = Becomes(f)
      BY <1>5, <2>1, <2>3, EnteredFrames DEF PrintPacket, Printing
    <3> HIDE DEF f
    <3> QED BY <1>0, <2>1, <3>1, ReplacedCall
  <2> QED BY <2>2, <2>3
<1>6. ASSUME PrintGivesUp \/ DelayEnds \/ Returns PROVE Nested(stack') /\ Under("RX")' = Under("RX")
  <2>1. stack # << >> /\ stack' = Tail(stack) /\ ~ In("RX")
    BY <1>6 DEF PrintGivesUp, DelayEnds, Returns, Running, In
  <2> QED BY <1>0, <2>1, PoppedCall DEF One
<1>7. ASSUME RxReturns PROVE Nested(stack') /\ Under("RX")' + 1 = Under("RX")
  <2>1. stack # << >> /\ stack' = Tail(stack) /\ In("RX")
    BY <1>7 DEF RxReturns, In
  <2> QED BY <1>0, <2>1, PoppedCall DEF One
<1> QED BY <1>1, <1>2, <1>3, <1>4, <1>5, <1>6, <1>7

\* The price of the steps of the port: an opening of endpoint 2 is paid for by a
\* reset of the bus, or by a handler that ends.
LEMMA PollPays ==
    ASSUME TypeOK, NestingInv, usb_cdc_poll, stack = << >> \/ In("PRINT")
    PROVE  NestingInv'
<1> DEFINE u  == Under("RX")        u2 == Under("RX")'
           a  == One(ep2.armed)     a2 == One(ep2'.armed)
           r  == One(ep2.received)  r2 == One(ep2'.received)
           z  == One(reset)         z2 == One(reset')
<1>0. /\ u \in Nat /\ resets \in Nat /\ ep2 \in Ep2State /\ Nested(stack)
      /\ u + a + r + z <= resets
      /\ a \in {0, 1} /\ r \in {0, 1} /\ z \in {0, 1}
      /\ a2 \in {0, 1} /\ r2 \in {0, 1} /\ z2 \in {0, 1}
  BY UnderCalls, CallsNat DEF NestingInv, OpensPaidFor, One, TypeOK, PortTypeOK, CallTypeOK
<1> SUFFICES Nested(stack') /\ u2 + a2 + r2 + z2 <= resets'
  BY DEF NestingInv, OpensPaidFor
<1>1. CASE usb_reset
  <2>1. /\ reset /\ ~ reset' /\ ep2'.armed /\ ~ ep2'.received /\ UNCHANGED <<stack, resets>>
    BY <1>1 DEF usb_reset, Ep2Reset, soft, hist
  <2>2. u2 = u /\ z = 1 /\ z2 = 0 /\ a2 = 1 /\ r2 = 0
    BY <2>1 DEF Under, One
  <2> HIDE DEF u, a, r, z, u2, a2, r2, z2
  <2> QED BY <1>0, <2>1, <2>2
<1>2. CASE PollEp0 \/ PollEp1
  <2>1. UNCHANGED <<stack, resets, ep2, reset>>
    BY <1>2 DEF PollEp0, PollEp1, soft, hist
  <2>2. u2 = u /\ z2 = z /\ a2 = a /\ r2 = r
    BY <2>1 DEF Under
  <2> HIDE DEF u, a, r, z, u2, a2, r2, z2
  <2> QED BY <1>0, <2>1, <2>2
<1>3. CASE PollEp2
  <2>1. /\ Nested(stack') /\ u2 = u + One(ep2.bytes # << >>)
        /\ UNCHANGED <<resets, reset>> /\ ep2.received
    BY <1>0, <1>3, StackStep DEF PollEp2, hist
  <2>2. /\ ~ ep2'.received
        /\ ep2.bytes # << >> => ep2'.armed = ep2.armed
    BY <1>0, <1>3 DEF PollEp2, Noticed, Armed, Ep2State
  <2>3. z2 = z /\ r = 1 /\ r2 = 0 /\ (u2 = u \/ (u2 = u + 1 /\ a2 = a))
    <3>1. CASE ep2.bytes = << >>
      BY <1>0, <2>1, <2>2, <3>1 DEF One
    <3>2. CASE ep2.bytes # << >>
      BY <2>1, <2>2, <3>2 DEF One
    <3> QED BY <3>1, <3>2
  <2> HIDE DEF u, a, r, z, u2, a2, r2, z2
  <2> QED BY <1>0, <2>1, <2>3
<1> QED BY <1>1, <1>2, <1>3 DEF usb_cdc_poll

\* ... of the calls ...
LEMMA InsidePays ==
    ASSUME TypeOK, NestingInv, Inside PROVE NestingInv'
<1> DEFINE u  == Under("RX")        u2 == Under("RX")'
           a  == One(ep2.armed)     a2 == One(ep2'.armed)
           r  == One(ep2.received)  r2 == One(ep2'.received)
           z  == One(reset)         z2 == One(reset')
<1>0. /\ u \in Nat /\ resets \in Nat /\ ep2 \in Ep2State /\ Nested(stack)
      /\ u + a + r + z <= resets
      /\ a \in {0, 1} /\ r \in {0, 1} /\ z \in {0, 1}
      /\ a2 \in {0, 1} /\ r2 \in {0, 1} /\ z2 \in {0, 1}
  BY UnderCalls, CallsNat DEF NestingInv, OpensPaidFor, One, TypeOK, PortTypeOK, CallTypeOK
<1> SUFFICES Nested(stack') /\ u2 + a2 + r2 + z2 <= resets'
  BY DEF NestingInv, OpensPaidFor
<1>1. CASE RxByte \/ Goes \/ TimerPoll \/ LoopStage \/ PrintPacket \/ PrintGivesUp \/ DelayEnds \/ Returns
  <2>1. UNCHANGED <<ep2, reset, resets>>
    BY <1>1 DEF RxByte, Goes, TimerPoll, LoopStage, PrintPacket, PrintGivesUp, DelayEnds, Returns, usb, hist
  <2>2. Nested(stack') /\ u2 = u
    BY <1>0, <1>1, StackStep
  <2>3. z2 = z /\ a2 = a /\ r2 = r
    BY <2>1
  <2> HIDE DEF u, a, r, z, u2, a2, r2, z2
  <2> QED BY <1>0, <2>1, <2>2, <2>3
<1>2. CASE RxReturns
  <2>1. Nested(stack') /\ u2 + 1 = u
    BY <1>0, <1>2, StackStep
  <2>2. UNCHANGED <<reset, resets>> /\ ep2'.received = ep2.received
    BY <1>0, <1>2 DEF RxReturns, Armed, Ep2State, hist
  <2>3. z2 = z /\ r2 = r
    BY <2>2
  <2>4. u2 \in Nat
    <3>1. stack' \in Seq(Frame)
      BY <1>2, StackType
    <3> QED BY <3>1, CallsNat DEF Under, Calls
  <2> HIDE DEF u, a, r, z, u2, a2, r2, z2
  <2> QED BY <1>0, <2>1, <2>2, <2>3, <2>4
<1>3. CASE TimePasses
  <2>1. UNCHANGED <<ep2, reset, resets, stack>>
    BY <1>3 DEF TimePasses, usb, hist
  <2>2. u2 = u /\ z2 = z /\ a2 = a /\ r2 = r
    BY <2>1 DEF Under
  <2> HIDE DEF u, a, r, z, u2, a2, r2, z2
  <2> QED BY <1>0, <2>1, <2>2
<1> QED BY <1>1, <1>2, <1>3 DEF Inside, Work

\* ... and of the host.
LEMMA HostPays ==
    ASSUME TypeOK, NestingInv, Host \/ UNCHANGED vars PROVE NestingInv'
<1> DEFINE u  == Under("RX")        u2 == Under("RX")'
           a  == One(ep2.armed)     a2 == One(ep2'.armed)
           r  == One(ep2.received)  r2 == One(ep2'.received)
           z  == One(reset)         z2 == One(reset')
<1>0. /\ u \in Nat /\ resets \in Nat /\ ep2 \in Ep2State /\ Nested(stack)
      /\ u + a + r + z <= resets
      /\ a \in {0, 1} /\ r \in {0, 1} /\ z \in {0, 1}
      /\ a2 \in {0, 1} /\ r2 \in {0, 1} /\ z2 \in {0, 1}
  BY UnderCalls, CallsNat DEF NestingInv, OpensPaidFor, One, TypeOK, PortTypeOK, CallTypeOK
<1> SUFFICES Nested(stack') /\ u2 + a2 + r2 + z2 <= resets'
  BY DEF NestingInv, OpensPaidFor
<1>1. UNCHANGED stack /\ u2 = u
  <2>1. UNCHANGED stack
    BY DEF Host, Resets, HostRequests, HostTakes, HostConfirms, HostTypes, HostSends, HostReads, usb, soft, vars
  <2> QED BY <2>1 DEF Under
<1>2. CASE Resets
  <2>1. resets' = resets + 1 /\ UNCHANGED ep2
    BY <1>2 DEF Resets
  <2>2. a2 = a /\ r2 = r
    BY <2>1
  <2> HIDE DEF u, a, r, z, u2, a2, r2, z2
  <2> QED BY <1>0, <1>1, <2>1, <2>2
<1>3. CASE HostSends
  <2>1. ep2.armed /\ ~ ep2'.armed /\ UNCHANGED <<reset, resets>>
    BY <1>3 DEF HostSends, hist
  <2>2. a = 1 /\ a2 = 0 /\ z2 = z
    BY <2>1 DEF One
  <2> HIDE DEF u, a, r, z, u2, a2, r2, z2
  <2> QED BY <1>0, <1>1, <2>1, <2>2
<1>4. CASE HostRequests \/ HostTakes \/ HostConfirms \/ (\E l \in Typed : HostTypes(l)) \/ HostReads
           \/ UNCHANGED vars
  <2>1. UNCHANGED <<ep2, reset, resets>>
    BY <1>4 DEF HostRequests, HostTakes, HostConfirms, HostTypes, HostReads, usb, hist, vars
  <2>2. z2 = z /\ a2 = a /\ r2 = r
    BY <2>1
  <2> HIDE DEF u, a, r, z, u2, a2, r2, z2
  <2> QED BY <1>0, <1>1, <2>1, <2>2
<1> QED BY <1>2, <1>3, <1>4 DEF Host

\* Every step pays for the handlers it starts.
LEMMA NestingStep == TypeOK /\ NestingInv /\ [Next]_vars => NestingInv'
<1> SUFFICES ASSUME TypeOK, NestingInv, [Next]_vars PROVE NestingInv'
  OBVIOUS
<1> QED BY PollPays, InsidePays, HostPays DEF Next, LoopPolls, PrintPolls, Inside

\* Where a beacon does not lie at the bottom, a delay lies under it and under that
\* a command, or the stage of the loop at the bottom.
LEMMA BeaconsAreInCommands ==
    ASSUME NEW st \in Seq(Frame), Nested(st)
    PROVE  Cardinality(Calls(st, "BEACON")) <= 1 + Cardinality(Calls(st, "COMMAND"))
<1> DEFINE n == Len(st)
           B == Calls(st, "BEACON")
           C == Calls(st, "COMMAND")
           bottom(i) == i = n \/ st[i + 2].op = "STAGE"
           g == [i \in B |-> IF bottom(i) THEN n + 1 ELSE i + 2]
<1>1. /\ n \in Nat /\ DOMAIN st = 1 .. n
      /\ \A i \in 1 .. n : IF i = n THEN st[i].op \in FromLoop ELSE st[i + 1].op \in Beneath(st[i].op)
  BY LenProperties DEF Nested
<1>2. /\ \A i \in B : i \in 1 .. n /\ st[i].op = "BEACON"
      /\ \A i \in 1 .. n : st[i].op = "COMMAND" => i \in C
      /\ \A i \in C : i \in 1 .. n
  BY <1>1 DEF Calls
<1>3. IsFiniteSet(C) /\ Cardinality(C) \in Nat
  BY CallsPush, EnteredFrames
<1> HIDE DEF n, B, C
<1>4. n + 1 \notin C
  BY <1>1, <1>2
<1>5. IsFiniteSet(C) /\ Cardinality(C) \in Nat /\ n + 1 \notin C
  BY <1>3, <1>4
<1>6. ASSUME NEW i \in B, i # n
      PROVE  i + 2 \in 1 .. n /\ st[i + 2].op \in {"COMMAND", "STAGE"}
             /\ (st[i + 2].op = "STAGE" => i + 2 = n)
  <2>1. i \in 1 .. n /\ st[i].op = "BEACON"
    BY <1>2
  <2>2. st[i + 1].op = "DELAY" /\ i + 1 \in 1 .. n
    BY <1>1, <1>6, <2>1 DEF Beneath
  <2>3. i + 1 # n
    BY <1>1, <2>2 DEF FromLoop
  <2>4. st[(i + 1) + 1].op \in {"COMMAND", "STAGE"}
    BY <1>1, <2>2, <2>3 DEF Beneath
  <2>5. i + 2 \in 1 .. n /\ (i + 1) + 1 = i + 2
    BY <1>1, <2>1, <2>2, <2>3
  <2>6. st[i + 2].op \in {"COMMAND", "STAGE"}
    BY <2>4, <2>5
  <2>7. st[i + 2].op = "STAGE" => i + 2 = n
    BY <1>1, <2>5 DEF Beneath
  <2> QED BY <2>5, <2>6, <2>7
<1>7. IsFiniteSet(C \cup {n + 1}) /\ Cardinality(C \cup {n + 1}) = Cardinality(C) + 1
  BY <1>5, FS_AddElement
<1>8. g \in [B -> C \cup {n + 1}]
  <2>1. ASSUME NEW i \in B, ~ bottom(i) PROVE i + 2 \in C
    BY <1>6, <1>2, <2>1
  <2> QED BY <2>1
<1>9. ASSUME NEW i \in B, NEW j \in B, g[i] = g[j] PROVE i = j
  <2>1. CASE bottom(i) /\ bottom(j)
    <3>1. (i = n \/ i + 2 = n) /\ (j = n \/ j + 2 = n)
      BY <1>6, <2>1
    <3>2. st[n].op = "BEACON" => ~ (\E k \in B : k # n /\ bottom(k))
      BY <1>6
    <3> QED BY <1>1, <1>6, <1>2, <2>1, <3>1, <3>2
  <2>2. CASE ~ bottom(i) /\ ~ bottom(j)
    BY <1>2, <1>9, <2>2
  <2>3. CASE bottom(i) /\ ~ bottom(j)
    <3>1. j + 2 \in 1 .. n /\ n + 1 = j + 2
      BY <1>6, <1>9, <2>3
    <3> QED BY <1>1, <3>1
  <2>4. CASE ~ bottom(i) /\ bottom(j)
    <3>1. i + 2 \in 1 .. n /\ n + 1 = i + 2
      BY <1>6, <1>9, <2>4
    <3> QED BY <1>1, <3>1
  <2> QED BY <2>1, <2>2, <2>3, <2>4
<1>10. g \in Injection(B, C \cup {n + 1})
  BY <1>8, <1>9 DEF Injection, IsInjective
<1>11. Cardinality(B) <= Cardinality(C \cup {n + 1})
  BY <1>7, <1>10, FS_Injection
<1>12. Cardinality(B) <= 1 + Cardinality(C)
  BY <1>5, <1>7, <1>11
<1> QED BY <1>12 DEF B, C

\* However prints and delays interleave, the calls never pile up: each handler of
\* the console has a reset of the bus of its own, and each beacon but one a
\* command that it interrupted.
THEOREM NestingStaysBounded == Spec => []NestingIsBounded
<1>1. Init => NestingInv
  <2> SUFFICES ASSUME Init PROVE NestingInv
    OBVIOUS
  <2>1. stack = << >> /\ resets = 0 /\ ~ reset /\ ~ ep2.armed /\ ~ ep2.received
    BY DEF Init, Ep2Reset
  <2>2. Under("RX") = 0
    BY <2>1, FS_EmptySet DEF Under
  <2> QED BY <2>1, <2>2 DEF NestingInv, Nested, OpensPaidFor, One
<1>2. TypeOK /\ NestingInv => NestingIsBounded
  <2> SUFFICES ASSUME TypeOK, NestingInv PROVE NestingIsBounded
    OBVIOUS
  <2>1. stack \in Seq(Frame) /\ Nested(stack) /\ resets \in Nat
    BY DEF TypeOK, CallTypeOK, NestingInv
  <2>2. Under("RX") \in Nat /\ Under("BEACON") <= 1 + Under("COMMAND")
    BY <2>1, UnderCalls, CallsNat, BeaconsAreInCommands
  <2>3. One(ep2.armed) \in {0, 1} /\ One(ep2.received) \in {0, 1} /\ One(reset) \in {0, 1}
    BY DEF One
  <2>4. Under("RX") <= resets
    BY <2>1, <2>2, <2>3 DEF NestingInv, OpensPaidFor
  <2> QED BY <2>2, <2>4 DEF NestingIsBounded
<1> QED BY <1>1, <1>2, NestingStep, TypeCorrect, PTL DEF Spec

(***************************************************************************)
(* The lines.                                                              *)
(***************************************************************************)

\* The handlers under way, and whether a command is.
Handlers(st)    == {f \in ToSet(st) : f.op = "RX"}
CommandRuns(st) == \E f \in ToSet(st) : f.op = "COMMAND"

\* The bytes the device has and has not worked off, and those still to come.
InDevice ==
    IF ep2.received THEN ep2.bytes
    ELSE IF Handlers(stack) # {} THEN (CHOOSE f \in Handlers(stack) : TRUE).bytes ELSE << >>

Rest == InDevice \o typed

\* What the handler has gathered of the line it is in: while a command runs, the
\* line is still there, but it is over.
Gathered == IF CommandRuns(stack) THEN << >> ELSE line

\* As long as no reset of the bus cut a line, endpoint 2 is open, or has a packet,
\* or a handler works one off; and a reset found nothing of a line.
OneAtATime ==
    /\ Under("RX") + One(ep2.armed) + One(ep2.received) <= 1
    /\ reset => typed = << >> /\ line = << >> /\ ~ ep2.received /\ Under("RX") = 0

\* Something is kept of the line, and run.
Runs(l) == Kept(l) # << >>

\* Bytes to come, and the lines they are of: for each byte its line, the number of
\* lines typed before that one of which something is kept, and its place in the line,
\* the end of the line last; what comes after the last byte is a new line.
Place == [text : Seq(Char), at : Nat, off : Nat]

Follows(q, b, p, lines) ==
    /\ p.text \in Typed
    /\ Runs(p.text) => p.at < Len(lines) /\ lines[p.at + 1] = Kept(p.text)
    /\ IF p.off = Len(p.text) + 1
       THEN b = EOL /\ q.off = 1 /\ q.at = p.at + One(Runs(p.text))
       ELSE /\ p.off \in 1 .. Len(p.text) /\ b = p.text[p.off]
            /\ q.text = p.text /\ q.at = p.at /\ q.off = p.off + 1

Flow(f, bytes, lines) ==
    /\ f \in [1 .. Len(bytes) + 1 -> Place]
    /\ \A i \in 1 .. Len(bytes) : Follows(f[i + 1], bytes[i], f[i], lines)
    /\ f[Len(bytes) + 1].off = 1 /\ f[Len(bytes) + 1].at = Len(lines)

\* What was gathered is what comes before the next byte in its line, since the last
\* character for which there was no room.
Gathers(cur, p) ==
    /\ Len(cur) = (p.off - 1) % LineMax
    /\ \A k \in 1 .. Len(cur) : cur[k] = p.text[p.off - 1 - Len(cur) + k]

\* The lines run are the first of those typed.
RunsFirst(runs, lines, n) ==
    /\ Len(runs) = n /\ n <= Len(lines)
    /\ \A k \in 1 .. Len(runs) : runs[k] = lines[k]

FlowInv ==
    \E f : Flow(f, Rest, sent) /\ Gathers(Gathered, f[1]) /\ RunsFirst(ran, sent, f[1].at)

LinesInv == ~ cut => OneAtATime /\ FlowInv

\* The next byte is taken.
LEMMA FlowTail ==
    ASSUME NEW b \in Bytes, b # << >>, NEW lines \in Seq(Seq(Char)), NEW f, Flow(f, b, lines)
    PROVE  \E g : /\ Flow(g, Tail(b), lines) /\ g[1] = f[2]
                  /\ Follows(g[1], b[1], f[1], lines) /\ f[1] \in Place /\ g[1] \in Place
<1> DEFINE n == Len(b)
           t == Tail(b)
           g == [i \in 1 .. n |-> f[i + 1]]
<1>1. /\ n \in Nat /\ n > 0 /\ Len(t) = n - 1
      /\ \A i \in 1 .. n - 1 : t[i] = b[i + 1]
  BY HeadTailProperties, LenProperties, EmptySeq DEF Bytes
<1>2. /\ f \in [1 .. n + 1 -> Place]
      /\ \A i \in 1 .. n : Follows(f[i + 1], b[i], f[i], lines)
      /\ f[n + 1].off = 1 /\ f[n + 1].at = Len(lines)
  BY DEF Flow
<1> HIDE DEF n, t
<1>3. g \in [1 .. n -> Place] /\ \A i \in 1 .. n : g[i] = f[i + 1]
  BY <1>1, <1>2
<1> HIDE DEF g
<1>4. \A i \in 1 .. n - 1 : Follows(g[i + 1], t[i], g[i], lines)
  <2> SUFFICES ASSUME NEW i \in 1 .. n - 1 PROVE Follows(g[i + 1], t[i], g[i], lines)
    OBVIOUS
  <2> DEFINE j == i + 1
  <2>1. j \in 1 .. n /\ t[i] = b[j] /\ g[i] = f[j] /\ g[j] = f[j + 1]
    BY <1>1, <1>3
  <2> HIDE DEF j
  <2>2. Follows(g[j], t[i], g[i], lines)
    BY <1>2, <2>1
  <2> QED BY <2>2 DEF j
<1>5. g[n] = f[n + 1] /\ g[1] = f[2] /\ g[1] \in Place /\ f[1] \in Place
  BY <1>1, <1>2, <1>3
<1>6. Follows(f[1 + 1], b[1], f[1], lines)
  BY <1>1, <1>2
<1>7. n = (n - 1) + 1
  BY <1>1
<1>8. Flow(g, t, lines)
  BY <1>1, <1>2, <1>3, <1>4, <1>5, <1>7 DEF Flow
<1>9. Follows(g[1], b[1], f[1], lines)
  BY <1>5, <1>6
<1> QED BY <1>5, <1>8, <1>9 DEF t

\* What the handler makes of it: it gathers the byte, runs the line, or drops it.
LEMMA ByteStep ==
    ASSUME NEW b \in Bytes, b # << >>, NEW cur \in Seq(Char), NEW runs \in Seq(Seq(Char)),
           NEW lines \in Seq(Seq(Char)), NEW f, Flow(f, b, lines), Gathers(cur, f[1]),
           RunsFirst(runs, lines, f[1].at), NEW cur2, NEW runs2,
           IF b[1] = EOL /\ cur # << >>
           THEN cur2 = << >> /\ runs2 = Append(runs, cur)
           ELSE /\ runs2 = runs
                /\ cur2 = IF b[1] # EOL /\ Len(cur) < LineMax - 1 THEN Append(cur, b[1]) ELSE << >>
    PROVE  \E g : Flow(g, Tail(b), lines) /\ Gathers(cur2, g[1]) /\ RunsFirst(runs2, lines, g[1].at)
<1>1. PICK g : /\ Flow(g, Tail(b), lines)
               /\ Follows(g[1], b[1], f[1], lines) /\ f[1] \in Place /\ g[1] \in Place
  BY FlowTail
<1> DEFINE p == f[1]
           q == g[1]
           c == b[1]
           l == p.text
<1>2. /\ p.off \in Nat /\ p.at \in Nat /\ q.off \in Nat /\ q.at \in Nat
      /\ l \in Seq(Char) /\ Len(l) \in Nat /\ l \in Typed
      /\ LineMax \in Nat \ {0}
  BY <1>1, ConsoleAssumption, LenProperties DEF Place, Follows
<1>3. /\ Len(cur) \in Nat /\ Len(runs) \in Nat /\ Len(lines) \in Nat
      /\ (cur = << >> <=> Len(cur) = 0)
  BY LenProperties, EmptySeq
<1>4. /\ Follows(q, c, p, lines) /\ Gathers(cur, p) /\ RunsFirst(runs, lines, p.at)
  BY <1>1
<1>5. \A k \in 1 .. Len(l) : l[k] \in Char /\ l[k] # EOL
  BY <1>2, ConsoleAssumption, ElementOfSeq
<1> HIDE DEF p, q, c
<1>6. c = EOL <=> p.off = Len(l) + 1
  BY <1>2, <1>4, <1>5 DEF Follows
<1>6a. ASSUME c = EOL PROVE cur = Kept(l)
  <2>0. p.off = Len(l) + 1
    BY <1>6, <1>6a
  <2>1. p.off - 1 = Len(l)
    BY <1>2, <2>0
  <2>2. Len(cur) = Len(l) % LineMax /\ \A k \in 1 .. Len(cur) : cur[k] = l[Len(l) - Len(cur) + k]
    BY <1>4, <2>1 DEF Gathers
  <2>3. /\ Kept(l) \in Seq(Char) /\ Len(Kept(l)) = Len(l) % LineMax
        /\ \A i \in 1 .. Len(Kept(l)) : Kept(l)[i] = l[Len(l) - Len(Kept(l)) + i]
    BY <1>2, KeptIs
  <2>4. Len(cur) = Len(Kept(l)) /\ \A k \in 1 .. Len(cur) : cur[k] = Kept(l)[k]
    BY <2>2, <2>3
  <2> QED BY <2>3, <2>4, SeqEqual
<1>6b. ASSUME q.off = 1, cur2 = << >> PROVE Gathers(cur2, q)
  <2>1. 0 % LineMax = 0 /\ q.off - 1 = 0
    <3>1. 0 = 0 * LineMax + 0 /\ 0 \in 0 .. LineMax - 1
      BY <1>2
    <3> QED BY <1>2, <1>6b, <3>1, RemainderUnique
  <2> QED BY <1>6b, <2>1, EmptySeq DEF Gathers
<1>7. CASE c = EOL /\ cur # << >>
  <2>3. q.off = 1 /\ q.at = p.at + 1 /\ p.at < Len(lines) /\ lines[p.at + 1] = cur
    BY <1>4, <1>6, <1>6a, <1>7 DEF Follows, Runs, One
  <2>4. cur2 = << >> /\ runs2 = Append(runs, cur)
    BY <1>7 DEF c
  <2>5. /\ Len(runs2) = Len(runs) + 1 /\ runs2[Len(runs) + 1] = cur
        /\ \A k \in 1 .. Len(runs) : runs2[k] = runs[k]
    BY <2>4, AppendProperties
  <2>6. RunsFirst(runs2, lines, q.at)
    <3>1. Len(runs) = p.at /\ \A k \in 1 .. Len(runs) : runs[k] = lines[k]
      BY <1>4 DEF RunsFirst
    <3>2. ASSUME NEW k \in 1 .. Len(runs2) PROVE runs2[k] = lines[k]
      <4>1. k \in 1 .. Len(runs) \/ k = Len(runs) + 1
        BY <1>3, <2>5
      <4> QED BY <2>3, <2>5, <3>1, <4>1
    <3> QED BY <1>2, <1>3, <2>3, <2>5, <3>1, <3>2 DEF RunsFirst
  <2>7. Gathers(cur2, q)
    BY <1>6b, <2>3, <2>4
  <2> QED BY <1>1, <2>6, <2>7 DEF q
<1>8. CASE c = EOL /\ cur = << >>
  <2>1. ~ Runs(l)
    BY <1>6a, <1>8 DEF Runs
  <2>2. q.off = 1 /\ q.at = p.at
    BY <1>2, <1>4, <1>6, <1>8, <2>1 DEF Follows, One
  <2>3. cur2 = << >> /\ runs2 = runs
    BY <1>8 DEF c
  <2>4. Gathers(cur2, q)
    BY <1>6b, <2>2, <2>3
  <2> QED BY <1>1, <1>4, <2>2, <2>3, <2>4 DEF q
<1>9. CASE c # EOL
  <2>1. /\ p.off \in 1 .. Len(l) /\ c = l[p.off]
        /\ q.text = l /\ q.at = p.at /\ q.off = p.off + 1
    BY <1>4, <1>6, <1>9 DEF Follows
  <2> DEFINE n == p.off - 1
  <2>2. n \in Nat /\ p.off = n + 1 /\ q.off - 1 = n + 1
    BY <1>2, <2>1
  <2>3. Len(cur) = n % LineMax /\ \A k \in 1 .. Len(cur) : cur[k] = l[n - Len(cur) + k]
    BY <1>4 DEF Gathers
  <2>4. runs2 = runs /\ cur2 = IF Len(cur) < LineMax - 1 THEN Append(cur, c) ELSE << >>
    BY <1>9 DEF c
  <2> HIDE DEF n
  <2>5. (n + 1) % LineMax = IF Len(cur) < LineMax - 1 THEN Len(cur) + 1 ELSE 0
    BY <1>2, <2>2, <2>3, NextRemainder
  <2>6. Gathers(cur2, q)
    <3>1. CASE Len(cur) < LineMax - 1
      <4>1. c \in Char
        BY <1>5, <2>1
      <4>2. /\ cur2 = Append(cur, c) /\ Len(cur2) = Len(cur) + 1 /\ cur2[Len(cur) + 1] = c
            /\ \A k \in 1 .. Len(cur) : cur2[k] = cur[k]
        BY <2>4, <3>1, <4>1, AppendProperties
      <4>3. ASSUME NEW k \in 1 .. Len(cur2) PROVE cur2[k] = l[n + 1 - Len(cur2) + k]
        <5>1. k \in 1 .. Len(cur) \/ k = Len(cur) + 1
          BY <1>3, <4>2
        <5>2. CASE k \in 1 .. Len(cur)
          <6>1. n + 1 - Len(cur2) + k = n - Len(cur) + k
            BY <1>3, <2>2, <4>2, <5>2
          <6> QED BY <2>3, <4>2, <5>2, <6>1
        <5>3. CASE k = Len(cur) + 1
          <6>1. n + 1 - Len(cur2) + k = p.off
            BY <1>3, <2>2, <4>2, <5>3
          <6> QED BY <2>1, <4>2, <5>3, <6>1
        <5> QED BY <5>1, <5>2, <5>3
      <4>4. Len(cur2) = (q.off - 1) % LineMax
        BY <2>2, <2>5, <3>1, <4>2
      <4>5. \A k \in 1 .. Len(cur2) : cur2[k] = q.text[q.off - 1 - Len(cur2) + k]
        BY <2>1, <2>2, <4>3
      <4> QED BY <4>4, <4>5 DEF Gathers
    <3>2. CASE ~ (Len(cur) < LineMax - 1)
      <4>1. cur2 = << >> /\ Len(cur2) = (q.off - 1) % LineMax
        BY <2>2, <2>4, <2>5, <3>2, EmptySeq
      <4>2. Len(cur2) = 0
        BY <4>1, EmptySeq
      <4> QED BY <4>1, <4>2 DEF Gathers
    <3> QED BY <3>1, <3>2
  <2> QED BY <1>1, <1>4, <2>1, <2>4, <2>6 DEF q
<1> QED BY <1>7, <1>8, <1>9

\* A place says the same of lines to which some were added.
LEMMA FollowsLonger ==
    ASSUME NEW q, NEW b, NEW p \in Place, NEW lines, NEW lines2,
           Len(lines) \in Nat, Len(lines2) \in Nat, Len(lines) <= Len(lines2),
           \A i \in 1 .. Len(lines) : lines2[i] = lines[i], Follows(q, b, p, lines)
    PROVE  Follows(q, b, p, lines2)
<1>1. p.at \in Nat
  BY DEF Place
<1>2. Runs(p.text) => p.at < Len(lines2) /\ lines2[p.at + 1] = Kept(p.text)
  BY <1>1 DEF Follows
<1> QED BY <1>2 DEF Follows

\* The bytes of a line that is typed, after those before it.
LEMMA LineTyped ==
    ASSUME NEW b \in Bytes, NEW l \in Typed
    PROVE  LET n == Len(b)
               m == Len(l)
               e == b \o Append(l, EOL) IN
           /\ n \in Nat /\ m \in Nat /\ l \in Seq(Char)
           /\ e \in Bytes /\ Len(e) = n + m + 1
           /\ \A i \in 1 .. n : e[i] = b[i]
           /\ \A i \in n + 1 .. n + m : e[i] = l[i - n]
           /\ e[n + m + 1] = EOL
<1> DEFINE n == Len(b)
           m == Len(l)
           a == Append(l, EOL)
           e == b \o a
<1>1. n \in Nat /\ m \in Nat /\ l \in Seq(Char) /\ l \in Bytes
  BY ConsoleAssumption, LenProperties DEF Bytes
<1>2. a \in Bytes /\ Len(a) = m + 1 /\ a[m + 1] = EOL /\ \A i \in 1 .. m : a[i] = l[i]
  BY <1>1, AppendProperties DEF Bytes
<1> HIDE DEF a
<1>3. /\ e \in Bytes /\ Len(e) = n + Len(a)
      /\ \A i \in 1 .. n + Len(a) : e[i] = IF i <= n THEN b[i] ELSE a[i - n]
  BY <1>2, ConcatProperties DEF Bytes
<1> HIDE DEF e, n, m
<1>4. Len(e) = n + m + 1
  BY <1>1, <1>2, <1>3
<1>5. ASSUME NEW i \in 1 .. n PROVE e[i] = b[i]
  BY <1>1, <1>2, <1>3
<1>6. ASSUME NEW i \in n + 1 .. n + m PROVE e[i] = l[i - n]
  <2>1. i \in 1 .. n + Len(a) /\ ~ (i <= n) /\ i - n \in 1 .. m
    BY <1>1, <1>2
  <2> QED BY <1>2, <1>3, <2>1
<1>7. e[n + m + 1] = EOL
  <2>1. n + m + 1 \in 1 .. n + Len(a) /\ ~ (n + m + 1 <= n) /\ (n + m + 1) - n = m + 1
    BY <1>1, <1>2
  <2> QED BY <1>2, <1>3, <2>1
<1> QED BY <1>1, <1>3, <1>4, <1>5, <1>6, <1>7 DEF e, n, m, a

\* The places of the bytes when a line of m characters comes after n bytes.
Grown(g, f, n, m, l, N, M) ==
    /\ g \in [1 .. n + m + 2 -> Place]
    /\ \A i \in 1 .. n : g[i] = f[i]
    /\ \A i \in n + 1 .. n + m + 1 : g[i] = [text |-> l, at |-> N, off |-> i - n]
    /\ g[n + m + 2] = [text |-> l, at |-> M, off |-> 1]

\* There are such places.
LEMMA PlacesGrow ==
    ASSUME NEW n \in Nat, NEW m \in Nat, NEW N \in Nat, NEW M \in Nat, NEW l \in Seq(Char),
           NEW f \in [1 .. n + 1 -> Place]
    PROVE  \E g : Grown(g, f, n, m, l, N, M)
<1> DEFINE G(i) == IF i <= n THEN f[i]
                   ELSE IF i <= n + m + 1 THEN [text |-> l, at |-> N, off |-> i - n]
                   ELSE [text |-> l, at |-> M, off |-> 1]
           g == [i \in 1 .. n + m + 2 |-> G(i)]
<1>1. ASSUME NEW i \in 1 .. n + m + 2 PROVE G(i) \in Place
  <2>1. CASE i <= n
    <3>1. i \in 1 .. n + 1
      BY <2>1
    <3>2. f[i] \in Place
      BY <3>1
    <3> QED BY <2>1, <3>2
  <2>2. CASE ~ (i <= n) /\ i <= n + m + 1
    <3>1. i - n \in Nat
      BY <2>2
    <3>2. [text |-> l, at |-> N, off |-> i - n] \in Place
      BY <3>1 DEF Place
    <3> QED BY <2>2, <3>2
  <2>3. CASE ~ (i <= n) /\ ~ (i <= n + m + 1)
    <3>1. [text |-> l, at |-> M, off |-> 1] \in Place
      BY DEF Place
    <3> QED BY <2>3, <3>1
  <2> QED BY <2>1, <2>2, <2>3
<1>2. \A i \in 1 .. n : G(i) = f[i]
  OBVIOUS
<1>3. \A i \in n + 1 .. n + m + 1 : G(i) = [text |-> l, at |-> N, off |-> i - n]
  OBVIOUS
<1>4. G(n + m + 2) = [text |-> l, at |-> M, off |-> 1]
  OBVIOUS
<1> HIDE DEF G
<1>5. g \in [1 .. n + m + 2 -> Place]
  BY <1>1
<1>6. /\ \A i \in 1 .. n : g[i] = f[i]
      /\ \A i \in n + 1 .. n + m + 1 : g[i] = [text |-> l, at |-> N, off |-> i - n]
      /\ g[n + m + 2] = [text |-> l, at |-> M, off |-> 1]
  <2>1. \A i \in 1 .. n + m + 2 : g[i] = G(i)
    OBVIOUS
  <2> HIDE DEF g
  <2>2. /\ 1 .. n \subseteq 1 .. n + m + 2 /\ n + 1 .. n + m + 1 \subseteq 1 .. n + m + 2
        /\ n + m + 2 \in 1 .. n + m + 2
    OBVIOUS
  <2> QED BY <1>2, <1>3, <1>4, <2>1, <2>2
<1> QED BY <1>5, <1>6 DEF Grown

\* What is kept of the lines, with one more line.
Longer(lines, l) == IF Runs(l) THEN Append(lines, Kept(l)) ELSE lines

\* A line is typed.
LEMMA FlowGrows ==
    ASSUME NEW b \in Bytes, NEW l \in Typed, NEW lines \in Seq(Seq(Char)), NEW f, Flow(f, b, lines),
           NEW cur \in Seq(Char), Gathers(cur, f[1])
    PROVE  \E g : /\ Flow(g, b \o Append(l, EOL), Longer(lines, l))
                  /\ Gathers(cur, g[1]) /\ g[1].at = f[1].at
<1>0. PICK n, m, N, M, e, lines2 :
         /\ n = Len(b) /\ m = Len(l) /\ N = Len(lines) /\ M = Len(lines2)
         /\ e = b \o Append(l, EOL) /\ lines2 = Longer(lines, l)
  OBVIOUS
<1>1. /\ n \in Nat /\ m \in Nat /\ l \in Seq(Char)
      /\ e \in Bytes /\ Len(e) = n + m + 1
      /\ \A i \in 1 .. n : e[i] = b[i]
      /\ \A i \in n + 1 .. n + m : e[i] = l[i - n]
      /\ e[n + m + 1] = EOL
  BY <1>0, LineTyped
<1>2. Kept(l) \in Seq(Char) /\ lines2 \in Seq(Seq(Char)) /\ N \in Nat /\ M \in Nat
  <2>1. Kept(l) \in Seq(Char)
    BY <1>1, KeptIs
  <2> QED BY <1>0, <2>1, AppendProperties, LenProperties DEF Longer
<1>3. /\ M = N + One(Runs(l)) /\ N <= M
      /\ \A i \in 1 .. N : lines2[i] = lines[i]
      /\ Runs(l) => N < M /\ lines2[N + 1] = Kept(l)
  <2>1. CASE Runs(l)
    BY <1>0, <1>2, <2>1, AppendProperties DEF One, Longer
  <2>2. CASE ~ Runs(l)
    BY <1>0, <1>2, <2>2 DEF One, Longer
  <2> QED BY <2>1, <2>2
<1>4. /\ f \in [1 .. n + 1 -> Place]
      /\ \A i \in 1 .. n : Follows(f[i + 1], b[i], f[i], lines)
      /\ f[n + 1].off = 1 /\ f[n + 1].at = N
  BY <1>0 DEF Flow
<1>5. PICK g : Grown(g, f, n, m, l, N, M)
  <2>1. n \in Nat /\ m \in Nat
    BY <1>1
  <2>2. N \in Nat /\ M \in Nat
    BY <1>2
  <2>3. l \in Seq(Char)
    BY <1>1
  <2>4. f \in [1 .. n + 1 -> Place]
    BY <1>4
  <2> QED BY Zenon, <2>1, <2>2, <2>3, <2>4, PlacesGrow
<1>5a. /\ g \in [1 .. n + m + 2 -> Place]
       /\ \A i \in 1 .. n : g[i] = f[i]
       /\ \A i \in n + 1 .. n + m + 1 : g[i] = [text |-> l, at |-> N, off |-> i - n]
       /\ g[n + m + 2] = [text |-> l, at |-> M, off |-> 1]
  BY <1>5 DEF Grown
<1>6. ASSUME NEW q, NEW x, NEW p \in Place, Follows(q, x, p, lines) PROVE Follows(q, x, p, lines2)
  BY <1>0, <1>2, <1>3, <1>6, FollowsLonger
<1>7. ASSUME NEW i \in 1 .. n, i # n PROVE Follows(g[i + 1], e[i], g[i], lines2)
  <2>1. i + 1 \in 1 .. n /\ i \in 1 .. n + 1
    BY <1>1, <1>7
  <2>2. g[i + 1] = f[i + 1] /\ g[i] = f[i] /\ e[i] = b[i] /\ f[i] \in Place
    BY <1>1, <1>4, <1>5a, <2>1
  <2> QED BY <1>4, <1>6, <2>2
<1>8. ASSUME n > 0 PROVE Follows(g[n + 1], e[n], g[n], lines2)
  <2>1. n \in 1 .. n /\ n \in 1 .. n + 1 /\ n + 1 \in 1 .. n + 1 /\ n + 1 \in n + 1 .. n + m + 1
        /\ (n + 1) - n = 1
    BY <1>1, <1>8
  <2>2. Follows(f[n + 1], b[n], f[n], lines) /\ f[n] \in Place /\ f[n + 1] \in Place
    BY <1>4, <2>1
  <2>3. g[n] = f[n] /\ e[n] = b[n] /\ g[n + 1] = [text |-> l, at |-> N, off |-> 1]
    BY <1>1, <1>5a, <2>1
  <2>4. f[n].off = Len(f[n].text) + 1 /\ N = f[n].at + One(Runs(f[n].text)) /\ b[n] = EOL
    <3>1. CASE f[n].off = Len(f[n].text) + 1
      BY <1>4, <2>2, <3>1 DEF Follows
    <3>2. CASE f[n].off # Len(f[n].text) + 1
      <4>1. f[n].off >= 1 /\ f[n + 1].off = f[n].off + 1 /\ f[n].off \in Nat
        BY <2>2, <3>2 DEF Follows, Place
      <4> QED BY <1>4, <4>1
    <3> QED BY <3>1, <3>2
  <2>5. Follows(g[n + 1], b[n], f[n], lines)
    BY <2>2, <2>3, <2>4 DEF Follows
  <2> QED BY <1>6, <2>2, <2>3, <2>5
<1>9. ASSUME NEW i \in n + 1 .. n + m PROVE Follows(g[i + 1], e[i], g[i], lines2)
  <2>0. n \in Nat /\ m \in Nat
    BY <1>1
  <2>1. /\ i + 1 \in n + 1 .. n + m + 1 /\ i \in n + 1 .. n + m + 1
        /\ i - n \in 1 .. m /\ (i + 1) - n = (i - n) + 1 /\ i - n # m + 1
    BY <2>0
  <2>2. /\ g[i] = [text |-> l, at |-> N, off |-> i - n]
        /\ g[i + 1] = [text |-> l, at |-> N, off |-> (i - n) + 1]
        /\ e[i] = l[i - n]
    BY <1>1, <1>5a, <2>1
  <2> QED BY <1>0, <1>3, <2>1, <2>2 DEF Follows
<1>10. Follows(g[(n + m + 1) + 1], e[n + m + 1], g[n + m + 1], lines2)
  <2>1. /\ (n + m + 1) + 1 = n + m + 2 /\ n + m + 1 \in n + 1 .. n + m + 1
        /\ (n + m + 1) - n = m + 1
    BY <1>1
  <2>2. /\ g[n + m + 1] = [text |-> l, at |-> N, off |-> m + 1]
        /\ g[(n + m + 1) + 1] = [text |-> l, at |-> M, off |-> 1]
    BY <1>5a, <2>1
  <2> QED BY <1>0, <1>1, <1>3, <2>2 DEF Follows
<1>11. Flow(g, e, lines2)
  <2>1. ASSUME NEW i \in 1 .. Len(e) PROVE Follows(g[i + 1], e[i], g[i], lines2)
    <3>1. \/ i \in 1 .. n /\ i # n
          \/ i = n /\ n > 0
          \/ i \in n + 1 .. n + m
          \/ i = n + m + 1
      BY <1>1
    <3> QED BY <3>1, <1>7, <1>8, <1>9, <1>10
  <2>2. Len(e) + 1 = n + m + 2
    BY <1>1
  <2>3. g[Len(e) + 1].off = 1 /\ g[Len(e) + 1].at = Len(lines2)
    BY <1>0, <1>5a, <2>2
  <2> QED BY <1>5a, <2>1, <2>2, <2>3 DEF Flow
<1>12. Gathers(cur, g[1]) /\ g[1].at = f[1].at
  <2>1. CASE n > 0
    BY <1>1, <1>5a, <2>1
  <2>2. CASE n = 0
    <3>1. g[1] = [text |-> l, at |-> N, off |-> 1] /\ f[1].off = 1 /\ f[1].at = N
      <4>1. 1 \in n + 1 .. n + m + 1 /\ 1 - n = 1 /\ n + 1 = 1
        BY <1>1, <2>2
      <4> QED BY <1>4, <1>5a, <4>1
    <3>2. Len(cur) = 0
      <4>1. 0 = 0 * LineMax + 0 /\ 0 \in 0 .. LineMax - 1 /\ LineMax \in Nat \ {0}
        BY ConsoleAssumption
      <4>2. 0 % LineMax = 0 /\ f[1].off - 1 = 0
        BY <3>1, <4>1, RemainderUnique
      <4> QED BY <4>2 DEF Gathers
    <3>3. g[1].off = f[1].off
      BY <3>1
    <3> QED BY <3>1, <3>2, <3>3 DEF Gathers
  <2> QED BY <1>1, <2>1, <2>2
<1> QED BY <1>0, <1>11, <1>12

\* The frames of a stack that a call is pushed on, and of one that has a last call.
LEMMA FramesOf ==
    /\ \A st \in Seq(Frame), f \in Frame : ToSet(<<f>> \o st) = {f} \cup ToSet(st)
    /\ \A st \in Seq(Frame) : st # << >> => ToSet(st) = {Head(st)} \cup ToSet(Tail(st))
<1>1. ASSUME NEW st \in Seq(Frame), NEW f \in Frame
      PROVE  ToSet(<<f>> \o st) = {f} \cup ToSet(st)
  <2> DEFINE t == <<f>> \o st
  <2>1. Len(st) \in Nat /\ DOMAIN st = 1 .. Len(st)
    BY LenProperties
  <2>2. /\ DOMAIN t = 1 .. Len(st) + 1 /\ t[1] = f
        /\ \A i \in 1 .. Len(st) : t[i + 1] = st[i]
    OBVIOUS
  <2> HIDE DEF t
  <2>3. ASSUME NEW x \in ToSet(t) PROVE x = f \/ x \in ToSet(st)
    <3>1. PICK i \in 1 .. Len(st) + 1 : x = t[i]
      BY <2>2 DEF ToSet
    <3>2. CASE i = 1
      BY <2>2, <3>1, <3>2
    <3>3. CASE i # 1
      <4>1. i - 1 \in 1 .. Len(st) /\ (i - 1) + 1 = i
        BY <2>1, <3>3
      <4>2. x = st[i - 1]
        BY <2>2, <3>1, <4>1
      <4> QED BY <2>1, <4>1, <4>2 DEF ToSet
    <3> QED BY <3>2, <3>3
  <2>4. f \in ToSet(t)
    BY <2>1, <2>2 DEF ToSet
  <2>5. ASSUME NEW x \in ToSet(st) PROVE x \in ToSet(t)
    <3>1. PICK i \in 1 .. Len(st) : x = st[i]
      BY <2>1 DEF ToSet
    <3>2. i + 1 \in DOMAIN t /\ x = t[i + 1]
      BY <2>1, <2>2, <3>1
    <3> QED BY <3>2 DEF ToSet
  <2> QED BY <2>3, <2>4, <2>5 DEF t
<1>2. ASSUME NEW st \in Seq(Frame), st # << >>
      PROVE  ToSet(st) = {Head(st)} \cup ToSet(Tail(st))
  <2>0. Head(st) \in Frame /\ Tail(st) \in Seq(Frame) /\ st = <<Head(st)>> \o Tail(st)
    BY <1>2, HeadTailProperties
  <2> DEFINE h == Head(st)
             t == Tail(st)
  <2>1. h \in Frame /\ t \in Seq(Frame) /\ st = <<h>> \o t
    BY <2>0
  <2> HIDE DEF h, t
  <2>2. ToSet(<<h>> \o t) = {h} \cup ToSet(t)
    BY <1>1, <2>1
  <2> QED BY <2>1, <2>2 DEF h, t
<1> QED BY <1>1, <1>2

\* A stack without a handler has no command either: commands are started by one.
LEMMA NoHandler ==
    ASSUME NEW st \in Seq(Frame), Nested(st), Cardinality(Calls(st, "RX")) = 0
    PROVE  Handlers(st) = {} /\ ~ CommandRuns(st)
<1>1. Calls(st, "RX") = {}
  BY CallsPush, EnteredFrames, FS_EmptySet
<1>2. DOMAIN st = 1 .. Len(st) /\ Len(st) \in Nat
  BY LenProperties
<1>3. \A i \in 1 .. Len(st) : st[i].op # "RX"
  BY <1>1, <1>2 DEF Calls
<1>4. ASSUME NEW i \in 1 .. Len(st), st[i].op = "COMMAND" PROVE FALSE
  <2>1. i # Len(st) /\ st[i + 1].op = "RX"
    BY <1>4 DEF Nested, FromLoop, Beneath
  <2>2. Len(st) \in Nat /\ i # Len(st)
    BY <1>2, <2>1
  <2>3. i + 1 \in 1 .. Len(st)
    BY <2>2
  <2> QED BY <1>3, <2>1, <2>3
<1> QED BY <1>2, <1>3, <1>4 DEF Handlers, CommandRuns, ToSet

\* While a handler runs, and no other is under way, neither is a command.
LEMMA SoleHandler ==
    ASSUME CallTypeOK, Nested(stack), In("RX"), Under("RX") <= 1
    PROVE  /\ Handlers(stack) = {Head(stack)} /\ ~ CommandRuns(stack)
           /\ Handlers(Tail(stack)) = {} /\ ~ CommandRuns(Tail(stack))
           /\ Under("RX") = 1
<1>1. stack \in Seq(Frame) /\ stack # << >> /\ Tail(stack) \in Seq(Frame) /\ Head(stack).op = "RX"
  BY HeadTailProperties DEF CallTypeOK, In
<1>2. /\ Nested(Tail(stack)) /\ Cardinality(Calls(Tail(stack), "RX")) \in Nat
      /\ Cardinality(Calls(Tail(stack), "RX")) + 1 = Under("RX")
  BY <1>1, PoppedCall DEF One
<1>3. Cardinality(Calls(Tail(stack), "RX")) = 0 /\ Under("RX") = 1
  BY <1>2
<1>4. Handlers(Tail(stack)) = {} /\ ~ CommandRuns(Tail(stack))
  BY <1>1, <1>2, <1>3, NoHandler
<1>5. ToSet(stack) = {Head(stack)} \cup ToSet(Tail(stack))
  BY <1>1, FramesOf
<1> QED BY <1>1, <1>3, <1>4, <1>5 DEF Handlers, CommandRuns

\* Calls other than those of the handler and of a command's end leave both alone.
LEMMA OtherCalls ==
    ASSUME TypeOK,
           Goes \/ TimerPoll \/ LoopStage \/ PrintPacket \/ PrintGivesUp \/ DelayEnds \/ Returns
    PROVE  /\ Handlers(stack') = Handlers(stack)
           /\ (In("COMMAND") /\ Returns) \/ (CommandRuns(stack') <=> CommandRuns(stack))
<1> USE DEF TypeOK
<1>0. stack \in Seq(Frame)
  BY DEF CallTypeOK
<1>1. ASSUME NEW f \in Frame, f.op \notin {"RX", "COMMAND"}, NEW st \in Seq(Frame)
      PROVE  /\ Handlers(<<f>> \o st) = Handlers(st)
             /\ CommandRuns(<<f>> \o st) <=> CommandRuns(st)
  <2>1. ToSet(<<f>> \o st) = {f} \cup ToSet(st)
    BY FramesOf
  <2> QED BY <1>1, <2>1 DEF Handlers, CommandRuns
<1>2. ASSUME NEW f \in Frame, stack # << >>, f.op = Head(stack).op, ~ In("RX")
      PROVE  /\ Becomes(f) \in Seq(Frame)
             /\ Handlers(Becomes(f)) = Handlers(stack)
             /\ CommandRuns(Becomes(f)) <=> CommandRuns(stack)
  <2>1. Tail(stack) \in Seq(Frame)
    BY <1>0, <1>2, HeadTailProperties
  <2>2. /\ ToSet(Becomes(f)) = {f} \cup ToSet(Tail(stack))
        /\ ToSet(stack) = {Head(stack)} \cup ToSet(Tail(stack))
    BY <1>0, <1>2, <2>1, FramesOf DEF Becomes
  <2> QED BY <1>2, <2>1, <2>2, PushType DEF Handlers, CommandRuns, Becomes, In
<1>3. ASSUME stack # << >>, ~ In("RX")
      PROVE  /\ Handlers(Tail(stack)) = Handlers(stack)
             /\ In("COMMAND") \/ (CommandRuns(Tail(stack)) <=> CommandRuns(stack))
  <2>1. ToSet(stack) = {Head(stack)} \cup ToSet(Tail(stack))
    BY <1>0, <1>3, FramesOf
  <2> QED BY <1>3, <2>1 DEF Handlers, CommandRuns, In
<1>4. CASE Goes
  <2> DEFINE n == Head(Head(stack).script)
             f == [Head(stack) EXCEPT !.script = Tail(Head(stack).script)]
             st == Becomes(f)
  <2>1. n \in Nat /\ f \in Frame /\ f.op = Head(stack).op
    BY <1>4, ScriptStep DEF Goes
  <2>2. stack # << >> /\ ~ In("RX") /\ stack' = Started(n) \o st
    BY <1>4 DEF Goes, Running, In
  <2> HIDE DEF n, f
  <2>3. /\ st \in Seq(Frame) /\ Handlers(st) = Handlers(stack)
        /\ CommandRuns(st) <=> CommandRuns(stack)
    BY <1>2, <2>1, <2>2
  <2> HIDE DEF st
  <2>4. CASE n = 0
    <3>1. Started(n) = <<Delay>> /\ Delay \in Frame /\ Delay.op = "DELAY"
      BY <2>4, EnteredFrames DEF Started, Delay
    <3>2. Delay.op \notin {"RX", "COMMAND"}
      BY <3>1
    <3> QED BY <1>1, <2>2, <2>3, <3>1, <3>2
  <2>5. CASE n # 0 /\ configured
    <3>1. Started(n) = <<Printing(n)>> /\ Printing(n) \in Frame /\ Printing(n).op = "PRINT"
      BY <2>1, <2>5, EnteredFrames DEF Started, Printing
    <3>2. Printing(n).op \notin {"RX", "COMMAND"}
      BY <3>1
    <3> QED BY <1>1, <2>2, <2>3, <3>1, <3>2
  <2>6. CASE n # 0 /\ ~ configured
    <3>1. stack' = st
      BY <2>2, <2>3, <2>6 DEF Started
    <3> QED BY <2>3, <3>1
  <2> QED BY <2>4, <2>5, <2>6
<1>5. CASE TimerPoll \/ LoopStage
  <2>1. PICK f \in Frame : stack' = <<f>> \o stack /\ f.op \notin {"RX", "COMMAND"}
    <3>1. CASE TimerPoll
      <4>1. PICK s \in BeaconDoes : stack' = Called(Beacon(s))
        BY <3>1 DEF TimerPoll
      <4>2. Beacon(s) \in Frame /\ Beacon(s).op = "BEACON"
        BY EnteredFrames, ConsoleAssumption DEF Beacon
      <4> QED BY <4>1, <4>2 DEF Called
    <3>2. CASE LoopStage
      <4>1. PICK s \in LoopDoes : stack' = Called(Stage(s))
        BY <3>2 DEF LoopStage
      <4>2. Stage(s) \in Frame /\ Stage(s).op = "STAGE"
        BY EnteredFrames, ConsoleAssumption DEF Stage
      <4> QED BY <4>1, <4>2 DEF Called
    <3> QED BY <1>5, <3>1, <3>2
  <2> QED BY <1>0, <1>1, <2>1
<1>6. CASE PrintPacket
  <2>1. stack # << >> /\ Head(stack).op = "PRINT" /\ Head(stack).left \in Nat \ {0}
        /\ ~ In("RX") /\ ~ In("COMMAND")
    BY <1>6, TopFrame DEF PrintPacket, In
  <2>2. CASE Head(stack).left - 1 = 0
    BY <1>3, <1>6, <2>1, <2>2 DEF PrintPacket
  <2>3. CASE Head(stack).left - 1 # 0
    <3> DEFINE f == Printing(Head(stack).left - 1)
    <3>1. f \in Frame /\ f.op = "PRINT" /\ stack' = Becomes(f)
      BY <1>6, <2>1, <2>3, EnteredFrames DEF PrintPacket, Printing
    <3> HIDE DEF f
    <3> QED BY <1>2, <2>1, <3>1
  <2> QED BY <2>2, <2>3
<1>7. CASE PrintGivesUp \/ DelayEnds \/ Returns
  <2>1. stack # << >> /\ stack' = Tail(stack) /\ ~ In("RX") /\ (In("COMMAND") => Returns)
    BY <1>7 DEF PrintGivesUp, DelayEnds, Returns, Running, In
  <2> QED BY <1>3, <2>1
<1> QED BY <1>4, <1>5, <1>6, <1>7

\* What a step does to the bytes the device has, and to what the handler gathered.
LEMMA BytesKept ==
    ASSUME TypeOK, UNCHANGED <<ep2, line>>, Handlers(stack') = Handlers(stack),
           CommandRuns(stack') <=> CommandRuns(stack)
    PROVE  InDevice' = InDevice /\ Gathered' = Gathered
<1>1. InDevice' = InDevice
  BY DEF InDevice
<1>2. Gathered' = Gathered
  BY DEF Gathered
<1> QED BY <1>1, <1>2

\* The types of what the lines are made of.
LEMMA FlowTypes ==
    ASSUME TypeOK
    PROVE  /\ sent \in Seq(Seq(Char)) /\ ran \in Seq(Seq(Char))
           /\ Gathered \in Seq(Char) /\ typed \in Bytes
<1>1. /\ sent \in Seq(Seq(Char)) /\ ran \in Seq(Seq(Char)) /\ line \in Seq(Char)
      /\ typed \in Bytes
  BY DEF TypeOK, CallTypeOK, PortTypeOK
<1>2. Gathered \in Seq(Char)
  <2>1. << >> \in Seq(Char)
    OBVIOUS
  <2> QED BY <1>1, <2>1 DEF Gathered
<1> QED BY <1>1, <1>2

\* A step that leaves the bytes, the line and the histories alone keeps the flow.
LEMMA FlowKept ==
    ASSUME FlowInv, Rest' = Rest, Gathered' = Gathered, UNCHANGED <<sent, ran>>
    PROVE  FlowInv'
<1>1. PICK f : Flow(f, Rest, sent) /\ Gathers(Gathered, f[1]) /\ RunsFirst(ran, sent, f[1].at)
  BY DEF FlowInv
<1> QED BY <1>1 DEF FlowInv

\* The handler takes a byte.
LEMMA RxByteFlow ==
    ASSUME TypeOK, Nested(stack), OneAtATime, FlowInv, RxByte
    PROVE  FlowInv'
<1> DEFINE bytes == Head(stack).bytes
           h == Rx(Tail(bytes))
           c == Head(bytes)
<1>1. In("RX") /\ stack # << >> /\ bytes # << >> /\ bytes \in Bytes /\ CallTypeOK
      /\ Tail(stack) \in Seq(Frame)
  BY TopFrame DEF RxByte, In, TypeOK
<1>2. Under("RX") <= 1 /\ ~ ep2.received
  <2>1. Under("RX") \in Nat /\ One(ep2.armed) \in {0, 1} /\ One(ep2.received) \in {0, 1}
    BY <1>1, UnderCalls, CallsNat DEF CallTypeOK, One
  <2>2. Under("RX") + One(ep2.armed) + One(ep2.received) <= 1
    BY DEF OneAtATime
  <2>3. Under("RX") <= 1
    BY <2>1, <2>2
  <2>4. Under("RX") = 1
    BY <1>1, <2>3, SoleHandler
  <2>5. One(ep2.received) = 0
    BY <2>1, <2>2, <2>4
  <2> QED BY <2>3, <2>5 DEF One
<1>3. /\ Handlers(stack) = {Head(stack)} /\ ~ CommandRuns(stack)
      /\ Handlers(Tail(stack)) = {} /\ ~ CommandRuns(Tail(stack))
  BY <1>1, <1>2, SoleHandler
<1>4. bytes \in Seq(Char \cup {EOL}) /\ Tail(bytes) \in Bytes /\ c = bytes[1]
  BY <1>1, HeadTailProperties DEF Bytes
<1>5. InDevice = bytes /\ Gathered = line
  <2>1. (CHOOSE f \in Handlers(stack) : TRUE) = Head(stack)
    BY <1>3
  <2> QED BY <1>2, <1>3, <2>1 DEF InDevice, Gathered
<1>6. h \in Frame /\ h.op = "RX" /\ h.bytes = Tail(bytes)
  BY <1>4, EnteredFrames DEF Rx
<1> HIDE DEF h
<1>7. Becomes(h) \in Seq(Frame) /\ ToSet(Becomes(h)) = {h} \cup ToSet(Tail(stack))
  BY <1>1, <1>6, PushType, FramesOf DEF Becomes
<1>8. Handlers(Becomes(h)) = {h} /\ ~ CommandRuns(Becomes(h))
  BY <1>3, <1>6, <1>7 DEF Handlers, CommandRuns
<1>9. ASSUME NEW s \in CommandDoes
      PROVE  Handlers(<<Command(s)>> \o Becomes(h)) = {h} /\ CommandRuns(<<Command(s)>> \o Becomes(h))
  <2>1. Command(s) \in Frame /\ Command(s).op = "COMMAND"
    BY EnteredFrames, ConsoleAssumption DEF Command
  <2> DEFINE st == Becomes(h)
  <2>2. st \in Seq(Frame) /\ Handlers(st) = {h}
    BY <1>7, <1>8
  <2> HIDE DEF st
  <2>3. ToSet(<<Command(s)>> \o st) = {Command(s)} \cup ToSet(st)
    BY <2>1, <2>2, FramesOf
  <2>4. Handlers(<<Command(s)>> \o st) = {h} /\ CommandRuns(<<Command(s)>> \o st)
    BY <2>1, <2>2, <2>3 DEF Handlers, CommandRuns
  <2> QED BY <2>4 DEF st
<1>10. /\ Handlers(stack') = {h} /\ UNCHANGED <<ep2, typed, sent>>
       /\ IF c = EOL /\ line # << >>
          THEN CommandRuns(stack') /\ ran' = Append(ran, line)
          ELSE /\ ~ CommandRuns(stack') /\ ran' = ran
               /\ line' = IF c # EOL /\ Fits THEN Append(line, c) ELSE << >>
  <2>1. CASE c = EOL /\ line # << >>
    <3>1. /\ \E s \in CommandDoes : stack' = <<Command(s)>> \o Becomes(h)
          /\ ran' = Append(ran, line)
      BY <2>1 DEF RxByte, h
    <3> QED BY <1>9, <2>1, <3>1 DEF RxByte, usb, hist
  <2>2. CASE ~ (c = EOL /\ line # << >>)
    <3>1. /\ stack' = Becomes(h) /\ UNCHANGED ran
          /\ line' = IF c # EOL /\ Fits THEN Append(line, c) ELSE << >>
      BY <2>2 DEF RxByte, h
    <3> QED BY <1>8, <2>2, <3>1 DEF RxByte, usb, hist
  <2> QED BY <2>1, <2>2
<1>11. InDevice' = Tail(bytes)
  <2>1. (CHOOSE f \in Handlers(stack') : TRUE) = h
    BY <1>10
  <2> QED BY <1>2, <1>6, <1>10, <2>1 DEF InDevice
<1>12. /\ Rest = bytes \o typed /\ Rest' = Tail(bytes) \o typed
  BY <1>5, <1>10, <1>11 DEF Rest
<1>13. Rest \in Bytes /\ Rest # << >> /\ Rest[1] = c /\ Rest' = Tail(Rest)
  <2> DEFINE b == bytes
  <2>1. b \in Seq(Char \cup {EOL}) /\ b # << >> /\ c = b[1] /\ typed \in Seq(Char \cup {EOL})
    BY <1>1, <1>4, FlowTypes DEF Bytes
  <2>2. Rest = b \o typed /\ Rest' = Tail(b) \o typed
    BY <1>12
  <2> HIDE DEF b, c
  <2>3. /\ b \o typed \in Seq(Char \cup {EOL}) /\ b \o typed # << >> /\ (b \o typed)[1] = b[1]
        /\ Tail(b \o typed) = Tail(b) \o typed
    BY <2>1
  <2> QED BY <2>1, <2>2, <2>3 DEF Bytes
<1>14. IF Rest[1] = EOL /\ Gathered # << >>
       THEN Gathered' = << >> /\ ran' = Append(ran, Gathered)
       ELSE /\ ran' = ran
            /\ Gathered' = IF Rest[1] # EOL /\ Len(Gathered) < LineMax - 1
                           THEN Append(Gathered, Rest[1]) ELSE << >>
  BY <1>5, <1>10, <1>13 DEF Gathered, Fits
<1>15. PICK f : Flow(f, Rest, sent) /\ Gathers(Gathered, f[1]) /\ RunsFirst(ran, sent, f[1].at)
  BY DEF FlowInv
<1>16. \E g : Flow(g, Tail(Rest), sent) /\ Gathers(Gathered', g[1]) /\ RunsFirst(ran', sent, g[1].at)
  <2>1. Gathered \in Seq(Char) /\ ran \in Seq(Seq(Char)) /\ sent \in Seq(Seq(Char))
    BY FlowTypes
  <2>2. Rest \in Bytes /\ Rest # << >>
    BY <1>13
  <2> QED BY <1>14, <1>15, <2>1, <2>2, ByteStep
<1> QED BY <1>10, <1>13, <1>16 DEF FlowInv

\* The numbers of OneAtATime, and what holds while no reset is pending.
LEMMA Numbers ==
    ASSUME TypeOK
    PROVE  /\ Under("RX") \in Nat
           /\ One(ep2.armed) \in {0, 1} /\ One(ep2.received) \in {0, 1}
           /\ (One(ep2.armed) = 1 <=> ep2.armed) /\ (One(ep2.received) = 1 <=> ep2.received)
BY UnderCalls, CallsNat DEF TypeOK, CallTypeOK, One

\* Endpoint 2 open, a packet in it, a handler under way: one excludes the others.
LEMMA OneOf ==
    ASSUME TypeOK, OneAtATime
    PROVE  /\ ep2.received => Under("RX") = 0 /\ ~ ep2.armed
           /\ ep2.armed => Under("RX") = 0 /\ ~ ep2.received
<1> DEFINE u == Under("RX")
           a == One(ep2.armed)
           r == One(ep2.received)
<1>1. u \in Nat /\ a \in {0, 1} /\ r \in {0, 1} /\ u + a + r <= 1
  BY Numbers DEF OneAtATime
<1>2. (a = 1 <=> ep2.armed) /\ (r = 1 <=> ep2.received)
  BY Numbers
<1> HIDE DEF u, a, r
<1>3. (r = 1 => u = 0 /\ a # 1) /\ (a = 1 => u = 0 /\ r # 1)
  BY <1>1
<1> QED BY <1>2, <1>3 DEF u

\* The port's own steps keep the lines.
LEMMA PollLines ==
    ASSUME TypeOK, Nested(stack), OneAtATime, FlowInv, usb_cdc_poll, stack = << >> \/ In("PRINT")
    PROVE  OneAtATime' /\ FlowInv'
<1>1. CASE usb_reset
  <2>1. /\ reset /\ ~ reset' /\ ep2'.armed /\ ~ ep2'.received
        /\ UNCHANGED <<stack, typed, line, ran, sent>>
    BY <1>1 DEF usb_reset, Ep2Reset, soft, hist
  <2>2. ~ ep2.received /\ Under("RX") = 0
    BY <2>1 DEF OneAtATime
  <2>3. OneAtATime'
    BY <2>1, <2>2 DEF OneAtATime, One, Under
  <2>4. Rest' = Rest /\ Gathered' = Gathered
    BY <2>1, <2>2 DEF Rest, InDevice, Gathered
  <2> QED BY <2>1, <2>3, <2>4, FlowKept
<1>2. CASE PollEp0 \/ PollEp1
  <2>1. UNCHANGED <<stack, typed, line, ran, sent, ep2, reset>>
    BY <1>2 DEF PollEp0, PollEp1, soft, hist
  <2>2. OneAtATime'
    BY <2>1 DEF OneAtATime, Under
  <2>3. Rest' = Rest /\ Gathered' = Gathered
    BY <2>1 DEF Rest, InDevice, Gathered
  <2> QED BY <2>1, <2>2, <2>3, FlowKept
<1>3. CASE PollEp2
  <2>1. /\ ~ reset /\ ep2.received /\ ep2 \in Ep2State /\ stack \in Seq(Frame)
        /\ UNCHANGED <<reset, typed, line, ran, sent>>
    BY <1>3 DEF PollEp2, hist, TypeOK, PortTypeOK, CallTypeOK
  <2>2. Under("RX") = 0 /\ ~ ep2.armed
    BY <2>1, OneOf
  <2>3. Handlers(stack) = {} /\ ~ CommandRuns(stack)
    BY <2>1, <2>2, NoHandler, UnderCalls
  <2>4. Under("RX")' = One(ep2.bytes # << >>)
    BY <1>3, <2>2, StackStep DEF One
  <2>5. CASE ep2.bytes = << >>
    <3>1. UNCHANGED stack /\ ep2' = Armed(Noticed(ep2))
      BY <1>3, <2>5 DEF PollEp2
    <3>2. ~ ep2'.received
      BY <2>1, <3>1 DEF Armed, Noticed, Ep2State
    <3>3. Under("RX")' = 0 /\ One(ep2'.armed) \in {0, 1} /\ One(ep2'.received) = 0
      BY <2>4, <2>5, <3>2 DEF One
    <3>4. OneAtATime'
      <4>1. Under("RX")' + One(ep2'.armed) + One(ep2'.received) <= 1
        BY <3>3
      <4> QED BY <2>1, <4>1 DEF OneAtATime
    <3>5. Rest' = Rest /\ Gathered' = Gathered
      BY <2>1, <2>3, <2>5, <3>1, <3>2 DEF Rest, InDevice, Gathered
    <3> QED BY <2>1, <3>4, <3>5, FlowKept
  <2>6. CASE ep2.bytes # << >>
    <3> DEFINE f == Rx(ep2.bytes)
    <3>1. stack' = <<f>> \o stack /\ ep2' = Noticed(ep2)
      BY <1>3, <2>6 DEF PollEp2, Called
    <3>2. ~ ep2'.received /\ ~ ep2'.armed
      BY <2>1, <2>2, <3>1 DEF Noticed, Ep2State
    <3>3. f \in Frame /\ f.op = "RX" /\ f.bytes = ep2.bytes
      BY <2>1, EnteredFrames DEF Ep2State, Rx
    <3> HIDE DEF f
    <3>4. ToSet(stack') = {f} \cup ToSet(stack)
      BY <2>1, <3>1, <3>3, FramesOf
    <3>5. Handlers(stack') = {f} /\ ~ CommandRuns(stack')
      BY <2>3, <3>3, <3>4 DEF Handlers, CommandRuns
    <3>6. (CHOOSE h \in Handlers(stack') : TRUE) = f
      BY <3>5
    <3>7. InDevice' = InDevice
      BY <2>1, <3>2, <3>3, <3>5, <3>6 DEF InDevice
    <3>8. Rest' = Rest /\ Gathered' = Gathered
      BY <2>1, <2>3, <3>5, <3>7 DEF Rest, Gathered
    <3>9. OneAtATime'
      BY <2>1, <2>4, <2>6, <3>2 DEF OneAtATime, One
    <3> QED BY <2>1, <3>8, <3>9, FlowKept
  <2> QED BY <2>5, <2>6
<1> QED BY <1>1, <1>2, <1>3 DEF usb_cdc_poll

\* ... and those of the calls ...
LEMMA InsideLines ==
    ASSUME TypeOK, Nested(stack), OneAtATime, FlowInv, Inside
    PROVE  OneAtATime' /\ FlowInv'
<1>1. CASE RxByte
  <2>1. In("RX") /\ CallTypeOK /\ UNCHANGED <<ep2, reset>>
    BY <1>1 DEF RxByte, usb, TypeOK
  <2>2. Under("RX") = 1
    <3>1. Under("RX") <= 1
      BY Numbers DEF OneAtATime
    <3> QED BY <2>1, <3>1, SoleHandler
  <2>3. ~ reset /\ Under("RX")' = Under("RX")
    BY <1>1, <2>2, StackStep DEF OneAtATime
  <2>4. OneAtATime'
    BY <2>1, <2>3 DEF OneAtATime
  <2> QED BY <1>1, <2>4, RxByteFlow
<1>2. CASE RxReturns
  <2>1. /\ In("RX") /\ CallTypeOK /\ stack # << >> /\ Head(stack).bytes = << >> /\ stack' = Tail(stack)
        /\ ep2' = Armed(ep2) /\ ep2 \in Ep2State /\ UNCHANGED <<reset, typed, line, ran, sent>>
    BY <1>2 DEF RxReturns, hist, TypeOK, PortTypeOK, In
  <2>2. Under("RX") <= 1
    BY Numbers DEF OneAtATime
  <2>3. /\ Handlers(stack) = {Head(stack)} /\ ~ CommandRuns(stack)
        /\ Handlers(stack') = {} /\ ~ CommandRuns(stack') /\ Under("RX") = 1
    BY <2>1, <2>2, SoleHandler
  <2>4. ~ reset /\ ~ ep2.received
    BY <2>3, Numbers DEF OneAtATime
  <2>5. ep2'.armed /\ ~ ep2'.received
    BY <2>1, <2>4 DEF Armed, Ep2State
  <2>6. Under("RX")' = 0
    <3>1. Under("RX")' + 1 = Under("RX")
      BY <1>2, StackStep
    <3>2. Under("RX")' \in Nat
      <4>1. stack' \in Seq(Frame)
        BY <1>2, StackType
      <4> QED BY <4>1, CallsNat DEF Under, Calls
    <3> QED BY <2>3, <3>1, <3>2
  <2>7. OneAtATime'
    BY <2>1, <2>4, <2>5, <2>6 DEF OneAtATime, One
  <2>8. InDevice = << >> /\ InDevice' = << >>
    <3>1. (CHOOSE f \in Handlers(stack) : TRUE) = Head(stack)
      BY <2>3
    <3> QED BY <2>1, <2>3, <2>4, <2>5, <3>1 DEF InDevice
  <2>9. Rest' = Rest /\ Gathered' = Gathered
    BY <2>1, <2>3, <2>8 DEF Rest, Gathered
  <2> QED BY <2>1, <2>7, <2>9, FlowKept
<1>3. CASE Goes \/ TimerPoll \/ LoopStage \/ PrintPacket \/ PrintGivesUp \/ DelayEnds \/ Returns
  <2>1. UNCHANGED <<ep2, reset, typed, ran, sent>> /\ (line' = line \/ line' = << >>)
    BY <1>3 DEF Goes, TimerPoll, LoopStage, PrintPacket, PrintGivesUp, DelayEnds, Returns, usb, hist
  <2>2. Under("RX")' = Under("RX")
    BY <1>3, StackStep
  <2>3. OneAtATime'
    BY <2>1, <2>2 DEF OneAtATime
  <2>4. /\ Handlers(stack') = Handlers(stack)
        /\ (In("COMMAND") /\ Returns) \/ (CommandRuns(stack') <=> CommandRuns(stack))
    BY <1>3, OtherCalls
  <2>5. InDevice' = InDevice
    BY <2>1, <2>4 DEF InDevice
  <2>6. Gathered' = Gathered
    <3>1. CASE In("COMMAND") /\ Returns
      <4>1. stack # << >> /\ stack \in Seq(Frame) /\ Head(stack).op = "COMMAND" /\ line' = << >>
        BY <3>1 DEF In, Returns, TypeOK, CallTypeOK
      <4>2. Head(stack) \in ToSet(stack)
        BY <4>1, FramesOf
      <4>3. CommandRuns(stack)
        BY <4>1, <4>2 DEF CommandRuns
      <4> QED BY <4>1, <4>3 DEF Gathered
    <3>2. CASE ~ (In("COMMAND") /\ Returns)
      <4>1. line' = line
        BY <1>3, <3>2 DEF Goes, TimerPoll, LoopStage, PrintPacket, PrintGivesUp, DelayEnds, Returns
      <4> QED BY <2>4, <3>2, <4>1 DEF Gathered
    <3> QED BY <3>1, <3>2
  <2>7. Rest' = Rest
    BY <2>1, <2>5 DEF Rest
  <2> QED BY <2>1, <2>3, <2>6, <2>7, FlowKept
<1>4. CASE TimePasses
  <2>1. UNCHANGED <<stack, typed, line, ran, sent, ep2, reset>>
    BY <1>4 DEF TimePasses, usb, hist
  <2>2. OneAtATime'
    BY <2>1 DEF OneAtATime, Under
  <2>3. Rest' = Rest /\ Gathered' = Gathered
    BY <2>1 DEF Rest, InDevice, Gathered
  <2> QED BY <2>1, <2>2, <2>3, FlowKept
<1> QED BY <1>1, <1>2, <1>3, <1>4 DEF Inside, Work

\* ... and those of the host: it types a line at the end of the bytes, moves some
\* of them into the device, or resets a bus with nothing of a line on it.
LEMMA HostLines ==
    ASSUME TypeOK, Nested(stack), OneAtATime, FlowInv, Host \/ UNCHANGED vars, ~ cut'
    PROVE  OneAtATime' /\ FlowInv'
<1>0. typed \in Bytes /\ ep2 \in Ep2State
  BY DEF TypeOK, PortTypeOK
<1>1. CASE Resets
  <2>1. /\ UNCHANGED <<stack, line, ran, sent, ep2>> /\ typed' = << >>
        /\ typed = << >> /\ line = << >> /\ ~ ep2.received /\ ~ (Under("RX") > 0)
    BY <1>1 DEF Resets, soft
  <2>2. Under("RX") = 0 /\ Under("RX")' = Under("RX")
    BY <2>1, Numbers DEF Under
  <2>3. OneAtATime'
    BY <2>1, <2>2 DEF OneAtATime
  <2>4. Rest' = Rest /\ Gathered' = Gathered
    BY <2>1 DEF Rest, InDevice, Gathered
  <2> QED BY <2>1, <2>3, <2>4, FlowKept
<1>2. CASE \E l \in Typed : HostTypes(l)
  <2>1. PICK l \in Typed : HostTypes(l)
    BY <1>2
  <2>2. /\ ~ reset /\ UNCHANGED <<stack, line, ran, ep2, reset>>
        /\ typed' = typed \o Append(l, EOL)
        /\ sent' = Longer(sent, l)
    BY <2>1 DEF HostTypes, Up, usb, soft, Longer, Runs
  <2>3. OneAtATime'
    BY <2>2 DEF OneAtATime, Under
  <2>4. InDevice' = InDevice /\ Gathered' = Gathered
    BY <2>2 DEF InDevice, Gathered
  <2>5. InDevice \in Bytes
    <3>1. << >> \in Bytes
      BY DEF Bytes
    <3>2. ASSUME NEW h \in Handlers(stack) PROVE h.bytes \in Bytes
      <4>1. h \in Frame /\ h.op = "RX"
        <5>1. stack \in Seq(Frame)
          BY DEF TypeOK, CallTypeOK
        <5> QED BY <5>1, ElementOfSeq, LenProperties DEF Handlers, ToSet
      <4> QED BY <4>1 DEF Frame
    <3>3. Handlers(stack) # {} => (CHOOSE f \in Handlers(stack) : TRUE) \in Handlers(stack)
      OBVIOUS
    <3> QED BY <1>0, <3>1, <3>2, <3>3 DEF InDevice, Ep2State
  <2>6. Rest \in Bytes /\ Rest' = Rest \o Append(l, EOL)
    <3>1. Append(l, EOL) \in Seq(Char \cup {EOL})
      <4>1. l \in Seq(Char \cup {EOL})
        BY ConsoleAssumption
      <4> QED BY <4>1
    <3> DEFINE d == InDevice
               a == Append(l, EOL)
    <3>2. d \in Seq(Char \cup {EOL}) /\ typed \in Seq(Char \cup {EOL}) /\ a \in Seq(Char \cup {EOL})
      BY <1>0, <2>5, <3>1 DEF Bytes
    <3>3. Rest = d \o typed /\ Rest' = d \o (typed \o a)
      BY <2>2, <2>4 DEF Rest
    <3> HIDE DEF d, a
    <3>4. d \o typed \in Seq(Char \cup {EOL}) /\ d \o (typed \o a) = (d \o typed) \o a
      BY <3>2
    <3> QED BY <3>3, <3>4 DEF Bytes, a
  <2>7. PICK f : Flow(f, Rest, sent) /\ Gathers(Gathered, f[1]) /\ RunsFirst(ran, sent, f[1].at)
    BY DEF FlowInv
  <2>8. sent \in Seq(Seq(Char)) /\ Gathered \in Seq(Char) /\ ran \in Seq(Seq(Char))
    BY FlowTypes
  <2>9. PICK g : /\ Flow(g, Rest \o Append(l, EOL), Longer(sent, l))
                 /\ Gathers(Gathered, g[1]) /\ g[1].at = f[1].at
    <3>2. Rest \in Bytes
      BY <2>6
    <3>3. Flow(f, Rest, sent)
      BY <2>7
    <3>4. Gathers(Gathered, f[1])
      BY <2>7
    <3>5. sent \in Seq(Seq(Char))
      BY <2>8
    <3>6. Gathered \in Seq(Char)
      BY <2>8
    <3> QED BY <3>2, <3>3, <3>4, <3>5, <3>6, FlowGrows
  <2>10. RunsFirst(ran, sent', f[1].at)
    <3>1. Len(sent) \in Nat /\ Len(ran) \in Nat
      BY <2>8, LenProperties
    <3>2. Len(sent') \in Nat /\ Len(sent) <= Len(sent') /\ \A i \in 1 .. Len(sent) : sent'[i] = sent[i]
      <4>1. Kept(l) \in Seq(Char)
        BY KeptIs, ConsoleAssumption
      <4>2. CASE Runs(l)
        BY <2>2, <2>8, <3>1, <4>1, <4>2, AppendProperties DEF Longer
      <4>3. CASE ~ Runs(l)
        BY <2>2, <3>1, <4>3 DEF Longer
      <4> QED BY <4>2, <4>3
    <3> QED BY <2>7, <3>1, <3>2 DEF RunsFirst
  <2>11. FlowInv'
    <3>1. Flow(g, Rest', sent') /\ Gathers(Gathered', g[1]) /\ RunsFirst(ran', sent', g[1].at)
      BY <2>2, <2>4, <2>6, <2>9, <2>10
    <3> QED BY <3>1 DEF FlowInv
  <2> QED BY <2>3, <2>11
<1>3. CASE HostSends
  <2>1. /\ ~ reset /\ ep2.armed /\ UNCHANGED <<stack, line, ran, sent, reset>>
    BY <1>3 DEF HostSends, Up, soft, hist
  <2>2. PICK n \in 1 .. PacketMax :
          /\ n <= Len(typed)
          /\ ep2' = [armed |-> FALSE, received |-> TRUE, bytes |-> SubSeq(typed, 1, n)]
          /\ typed' = SubSeq(typed, n + 1, Len(typed))
    BY <1>3 DEF HostSends
  <2>3. Under("RX") = 0 /\ ~ ep2.received /\ Under("RX")' = Under("RX")
    <3>1. Under("RX") = 0 /\ ~ ep2.received
      BY <2>1, OneOf
    <3> QED BY <2>1, <3>1 DEF Under
  <2>4. OneAtATime'
    BY <2>1, <2>2, <2>3 DEF OneAtATime, One
  <2>5. Handlers(stack) = {}
    BY <2>3, NoHandler, UnderCalls DEF TypeOK, CallTypeOK
  <2>6. InDevice = << >> /\ InDevice' = SubSeq(typed, 1, n)
    BY <2>2, <2>3, <2>5 DEF InDevice
  <2>7. Rest' = Rest
    <3>1. typed \in Seq(Char \cup {EOL}) /\ n \in 1 .. Len(typed)
      BY <1>0, <2>2, LenProperties, ConsoleAssumption DEF Bytes
    <3>2. SubSeq(typed, 1, n) \o SubSeq(typed, n + 1, Len(typed)) = typed
      BY <3>1
    <3>3. << >> \o typed = typed
      BY <3>1
    <3> QED BY <2>2, <2>6, <3>2, <3>3 DEF Rest
  <2>8. Gathered' = Gathered
    BY <2>1 DEF Gathered
  <2> QED BY <2>1, <2>4, <2>7, <2>8, FlowKept
<1>4. CASE HostRequests \/ HostTakes \/ HostConfirms \/ HostReads \/ UNCHANGED vars
  <2>1. UNCHANGED <<stack, typed, line, ran, sent, ep2, reset>>
    BY <1>4 DEF HostRequests, HostTakes, HostConfirms, HostReads, soft, usb, hist, vars
  <2>2. OneAtATime'
    BY <2>1 DEF OneAtATime, Under
  <2>3. Rest' = Rest /\ Gathered' = Gathered
    BY <2>1 DEF Rest, InDevice, Gathered
  <2> QED BY <2>1, <2>2, <2>3, FlowKept
<1> QED BY <1>1, <1>2, <1>3, <1>4 DEF Host

\* Every step keeps the lines, as long as none was cut.
LEMMA LinesStep == TypeOK /\ NestingInv /\ LinesInv /\ [Next]_vars => LinesInv'
<1> SUFFICES ASSUME TypeOK, NestingInv, LinesInv, [Next]_vars, ~ cut' PROVE OneAtATime' /\ FlowInv'
  BY DEF LinesInv
<1>1. ~ cut
  <2>1. CASE Resets
    BY <2>1 DEF Resets
  <2>2. CASE ~ Resets
    <3>1. UNCHANGED cut
      BY <2>2 DEF Next, LoopPolls, PrintPolls, usb_cdc_poll, usb_reset, PollEp0, PollEp1, PollEp2, Work,
             RxByte, RxReturns, Goes, Returns, PrintPacket, PrintGivesUp, DelayEnds, TimerPoll, TimePasses,
             LoopStage, Host, HostRequests, HostTakes, HostConfirms, HostTypes, HostSends, HostReads, hist, vars
    <3> QED BY <3>1
  <2> QED BY <2>1, <2>2
<1>2. Nested(stack) /\ OneAtATime /\ FlowInv
  BY <1>1 DEF LinesInv, NestingInv
<1> QED BY <1>2, PollLines, InsideLines, HostLines DEF Next, LoopPolls, PrintPolls, Inside

\* For lines of any length, longer than the buffer too: the lines run are a beginning
\* of the lines typed, each once, in order, a line that fits whole and of a longer
\* one what Kept names; for any packets the host sends them in, and whatever the
\* commands print and wait for meanwhile; as long as no reset of the bus cut a line.
THEOREM CommandsRunAreLines == Spec => []CommandsAreLines
<1>1. Init => LinesInv
  <2> SUFFICES ASSUME Init PROVE OneAtATime /\ FlowInv
    BY DEF LinesInv
  <2>1. /\ stack = << >> /\ typed = << >> /\ line = << >> /\ sent = << >> /\ ran = << >>
        /\ ~ reset /\ ~ ep2.armed /\ ~ ep2.received
    BY DEF Init, Ep2Reset
  <2>2. Under("RX") = 0
    BY <2>1, FS_EmptySet DEF Under
  <2>3. OneAtATime
    BY <2>1, <2>2 DEF OneAtATime, One
  <2>4. Handlers(stack) = {} /\ ~ CommandRuns(stack)
    BY <2>1 DEF Handlers, CommandRuns, ToSet
  <2>5. Rest = << >> /\ Gathered = << >>
    BY <2>1, <2>4 DEF Rest, InDevice, Gathered
  <2> DEFINE p == [text |-> << >>, at |-> 0, off |-> 1]
             f == [i \in 1 .. 1 |-> p]
  <2>6. p \in Place /\ p.off = 1 /\ p.at = 0
    <3>1. << >> \in Seq(Char)
      OBVIOUS
    <3> QED BY <3>1 DEF Place
  <2> HIDE DEF p
  <2>7. f \in [1 .. 1 -> Place] /\ f[1] = p
    BY <2>6
  <2> HIDE DEF f
  <2>8. Len(<< >>) = 0
    OBVIOUS
  <2>9. Flow(f, << >>, << >>)
    BY <2>6, <2>7, <2>8 DEF Flow
  <2>10. Gathers(<< >>, f[1])
    <3>1. 0 = 0 * LineMax + 0 /\ 0 \in 0 .. LineMax - 1 /\ LineMax \in Nat \ {0}
      BY ConsoleAssumption
    <3>2. 0 % LineMax = 0 /\ f[1].off - 1 = 0
      BY <2>6, <2>7, <3>1, RemainderUnique
    <3> QED BY <2>8, <3>2 DEF Gathers
  <2>11. RunsFirst(<< >>, << >>, f[1].at)
    BY <2>6, <2>7, <2>8 DEF RunsFirst
  <2>12. FlowInv
    BY <2>1, <2>5, <2>9, <2>10, <2>11 DEF FlowInv
  <2> QED BY <2>3, <2>12
<1>2. Init => NestingInv
  <2> SUFFICES ASSUME Init PROVE NestingInv
    OBVIOUS
  <2>1. stack = << >> /\ resets = 0 /\ ~ reset /\ ~ ep2.armed /\ ~ ep2.received
    BY DEF Init, Ep2Reset
  <2>2. Under("RX") = 0
    BY <2>1, FS_EmptySet DEF Under
  <2> QED BY <2>1, <2>2 DEF NestingInv, Nested, OpensPaidFor, One
<1>3. TypeOK /\ LinesInv => CommandsAreLines
  <2> SUFFICES ASSUME TypeOK, LinesInv, ~ cut PROVE IsPrefix(ran, sent)
    BY DEF CommandsAreLines
  <2>1. Len(ran) <= Len(sent) /\ \A k \in 1 .. Len(ran) : ran[k] = sent[k]
    BY DEF LinesInv, FlowInv, RunsFirst
  <2>2. /\ ran \in Seq(Seq(Char)) /\ sent \in Seq(Seq(Char))
        /\ Len(ran) \in Nat /\ Len(sent) \in Nat
    BY FlowTypes, LenProperties
  <2> DEFINE n == Len(ran)
             u == SubSeq(ran, 1, n)
             v == SubSeq(sent, 1, n)
  <2>3. \A k \in 1 .. n : ran[k] \in Seq(Char) /\ sent[k] \in Seq(Char)
    <3>1. \A k \in 1 .. n : k \in 1 .. Len(sent)
      BY <2>1, <2>2
    <3> QED BY <2>2, <3>1, ElementOfSeq
  <2>4. n \in Nat /\ n \in Int /\ 1 \in Int
    BY <2>2
  <2> HIDE DEF n
  <2>5. /\ u \in Seq(Seq(Char)) /\ Len(u) = IF 1 <= n THEN n - 1 + 1 ELSE 0
        /\ \A i \in 1 .. n - 1 + 1 : u[i] = ran[1 + i - 1]
    BY <2>3, <2>4, SubSeqProperties
  <2>6. /\ v \in Seq(Seq(Char)) /\ Len(v) = IF 1 <= n THEN n - 1 + 1 ELSE 0
        /\ \A i \in 1 .. n - 1 + 1 : v[i] = sent[1 + i - 1]
    BY <2>3, <2>4, SubSeqProperties
  <2> HIDE DEF u, v
  <2>7. Len(u) = n /\ Len(v) = n
    BY <2>4, <2>5, <2>6
  <2>8. ASSUME NEW k \in 1 .. n PROVE u[k] = v[k]
    <3>1. k \in 1 .. n - 1 + 1 /\ 1 + k - 1 = k
      BY <2>4
    <3> QED BY <2>1, <2>5, <2>6, <3>1 DEF n
  <2>9. u = v
    BY <2>5, <2>6, <2>7, <2>8, SeqEqual
  <2> QED BY <2>1, <2>9 DEF IsPrefix, n, u, v
<1> QED BY <1>1, <1>2, <1>3, LinesStep, NestingStep, TypeCorrect, PTL DEF Spec
=============================================================================
