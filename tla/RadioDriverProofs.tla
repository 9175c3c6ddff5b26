------------------------ MODULE RadioDriverProofs ------------------------
(***************************************************************************)
(* What the SX1262 driver promises, for every set of parameters and values *)
(* and every time a frame is on the air.                                   *)
(*                                                                         *)
(* A driver call is a list of commands, and between any two of them the    *)
(* chip, the watchdog or a failure may step in: what holds at every moment *)
(* is not what the chip is but what the rest of the call will make of it.  *)
(* The invariants say that of the settings, of the receiver and of a       *)
(* transmission; each is carried over the next command by a lemma about    *)
(* any list of commands, and over the end of a call by one about the next. *)
(***************************************************************************)
EXTENDS RadioDriver, FiniteSetTheorems, SequenceTheorems, TLAPS

(* What the commands t, the rest of a call, will make of the chip c.        *)

\* They write no value but the reported one, and every parameter that does not
\* have its reported value s is among them.
SettingsComing(t, c, s) ==
    /\ \A i \in DOMAIN t : t[i].op = "SET" => t[i].value = s[t[i].param]
    /\ \A p \in Param :
          c.reg[p] = s[p] \/ \E i \in DOMAIN t : t[i] = Set(p, s[p])

\* They find the chip in standby wherever they write a parameter.
SetInStandby(t, c) ==
    /\ \A i \in DOMAIN t :
          t[i].op = "SET" => c.mode = "STANDBY" \/ t[1].op = "STANDBY"
    /\ \A i, j \in DOMAIN t :
          i < j /\ t[j].op = "SET" => t[i].op \notin {"RX", "TX"}

\* They leave the receiver on, with its interrupt, a being on the antenna now.
WillListen(t, c, a) ==
    /\ \A i \in DOMAIN t :
          /\ t[i].op # "TX"
          /\ t[i].op = "MASK" => t[i].flags = {"RX_DONE"}
    /\ \/ /\ c.mode = "RX" /\ a = "RX"
          /\ \A i \in DOMAIN t : t[i].op # "STANDBY"
       \/ t # <<>> /\ t[Len(t)] = Rx
    /\ "RX_DONE" \in c.mask \/ \E i \in DOMAIN t : t[i].op = "MASK"

\* They start a transmission, with the interrupt that ends it.
WillSend(t, c) ==
    /\ t[Len(t)] = Tx
    /\ \A i \in DOMAIN t : t[i].op = "MASK" => t[i].flags = {"TX_DONE"}
    /\ "TX_DONE" \in c.mask \/ \E i \in DOMAIN t : t[i].op = "MASK"

\* The frame leaves AirTicks after the watchdog was kicked, or has left.
OnTheAir(c, d) ==
    \/ /\ c.mode = "TX" /\ "TX_DONE" \in c.mask
       /\ c.air > 0 /\ d + c.air = AirTicks
    \/ "TX_DONE" \in c.flags

\* A driver that has not failed has, or is about to have, what it reports.
SettingsInv == ~ failed => SettingsComing(todo, chip, cur) /\ SetInStandby(todo, chip)

\* It has, or is about to have, the receiver on, wherever it is not sending.
ListenInv == ok /\ ~ failed /\ pc \notin {"INIT", "WAIT"} => WillListen(todo, chip, pins)

\* Undisturbed, its loop waits no more ticks than a frame is on the air, whatever
\* beacons take besides.
HealthyInv ==
    ~ failed /\ ~ cut =>
        /\ waits <= AirTicks
        /\ pc = "WAIT" => IF todo = <<>> THEN waits <= dog /\ OnTheAir(chip, dog)
                          ELSE dog = 0 /\ waits = 0 /\ WillSend(todo, chip)

----------------------------------------------------------------------------

\* The rest of a call that has commands left.
LEMMA RestOfCall ==
    ASSUME NEW S, NEW s \in Seq(S), s # <<>>
    PROVE  /\ Head(s) = s[1] /\ s[1] \in S
           /\ 1 \in DOMAIN s
           /\ Tail(s) \in Seq(S)
           /\ Len(Tail(s)) = Len(s) - 1 /\ Len(s) \in Nat \ {0}
           /\ DOMAIN s = 1 .. Len(s) /\ DOMAIN Tail(s) = 1 .. Len(s) - 1
           /\ \A i \in DOMAIN Tail(s) : Tail(s)[i] = s[i + 1] /\ i + 1 \in DOMAIN s
  <1>1. Head(s) = s[1] /\ Tail(s) \in Seq(S) /\ Len(Tail(s)) = Len(s) - 1
        /\ \A i \in 1 .. Len(Tail(s)) : Tail(s)[i] = s[i + 1]
    BY HeadTailProperties
  <1>2. Len(s) \in Nat /\ DOMAIN s = 1 .. Len(s) /\ Len(s) # 0
    BY LenProperties, EmptySeq
  <1>3. s[1] \in S
    BY <1>2, ElementOfSeq
  <1>4. DOMAIN Tail(s) = 1 .. Len(s) - 1
    BY <1>1, LenProperties
  <1> QED
    BY <1>1, <1>2, <1>3, <1>4

\* What a command is made of.
LEMMA CommandFacts ==
    ASSUME NEW cmd \in Command
    PROVE  /\ cmd.op \in {"STANDBY", "RX", "TX", "PLAIN", "MASK", "CLEAR", "SET"}
           /\ cmd.op = "SET" => cmd.param \in Param /\ cmd.value \in Value
           /\ cmd.op = "SET" => cmd = Set(cmd.param, cmd.value)
           /\ cmd.op \in {"MASK", "CLEAR"} => cmd.flags \in SUBSET Flag
           /\ cmd.op = "TX" => cmd = Tx
  BY DEF Command, Standby, Rx, Tx, Plain, Mask, Clear, Set, Flag

\* The commands the driver issues are commands.
LEMMA CommandTypes ==
    /\ {Standby, Rx, Tx, Plain} \subseteq Command
    /\ Mask({"RX_DONE"}) \in Command /\ Mask({"TX_DONE"}) \in Command
    /\ Clear(Flag) \in Command
    /\ Clear({"RX_DONE"}) \in Command /\ Clear({"TX_DONE"}) \in Command
    /\ \A p \in Param, v \in Value : Set(p, v) \in Command
  BY DEF Command, Flag

\* What a command leaves in the chip.
LEMMA ObeyFacts ==
    ASSUME NEW c \in ChipState, NEW cmd \in Command
    PROVE  /\ Obey(c, cmd) \in ChipState
           /\ Obey(c, cmd).mode = IF cmd.op \in {"STANDBY", "RX", "TX"} THEN cmd.op ELSE c.mode
           /\ Obey(c, cmd).mask = IF cmd.op = "MASK" THEN cmd.flags ELSE c.mask
           /\ Obey(c, cmd).air = IF cmd.op = "TX" THEN AirTicks ELSE c.air
           /\ cmd.op # "SET" => Obey(c, cmd).reg = c.reg
           /\ cmd.op = "SET" => Obey(c, cmd).reg =
                  [c.reg EXCEPT ![cmd.param] = IF c.mode = "STANDBY" THEN cmd.value ELSE Undefined]
  <1>1. CASE cmd.op = "STANDBY"
    BY <1>1 DEF Obey, ChipState
  <1>2. CASE cmd.op = "RX"
    BY <1>2 DEF Obey, ChipState
  <1>3. CASE cmd.op = "TX"
    <2>1. AirTicks \in 0 .. AirTicks
      BY TickAssumption
    <2> QED
      BY <1>3, <2>1 DEF Obey, ChipState
  <1>4. CASE cmd.op = "MASK"
    <2>1. cmd.flags \in SUBSET Flag
      BY <1>4, CommandFacts
    <2> QED
      BY <1>4, <2>1 DEF Obey, ChipState
  <1>5. CASE cmd.op = "CLEAR"
    BY <1>5 DEF Obey, ChipState
  <1>6. CASE cmd.op = "SET"
    <2> DEFINE v == IF c.mode = "STANDBY" THEN cmd.value ELSE Undefined
    <2>1. cmd.param \in Param /\ v \in Value \cup {Undefined}
      BY <1>6, CommandFacts
    <2>2. Obey(c, cmd) = [c EXCEPT !.reg[cmd.param] = v]
      BY <1>6 DEF Obey
    <2>3. [c EXCEPT !.reg[cmd.param] = v] = [c EXCEPT !.reg = [c.reg EXCEPT ![cmd.param] = v]]
      BY Zenon
    <2> QED
      BY <1>6, <2>1, <2>2, <2>3 DEF ChipState
  <1>7. CASE cmd.op = "PLAIN"
    BY <1>7 DEF Obey, ChipState
  <1> QED
    BY <1>1, <1>2, <1>3, <1>4, <1>5, <1>6, <1>7, CommandFacts

\* What time on the air leaves in the chip.
LEMMA TickFacts ==
    ASSUME NEW c \in ChipState, NEW n \in Nat \ {0}
    PROVE  /\ AirTime(c, n) \in ChipState
           /\ AirTime(c, n).reg = c.reg
           /\ AirTime(c, n).mask = c.mask
           /\ c.mode = "TX" /\ c.air > n =>
                  AirTime(c, n).mode = "TX" /\ AirTime(c, n).air = c.air - n
           /\ c.mode = "TX" /\ c.air <= n /\ "TX_DONE" \in c.mask =>
                  "TX_DONE" \in AirTime(c, n).flags
  <1>0. c.air \in 0 .. AirTicks /\ AirTicks \in Nat
    BY TickAssumption DEF ChipState
  <1>1. CASE c.mode # "TX"
    BY <1>1 DEF AirTime
  <1>2. CASE c.mode = "TX" /\ c.air > n
    <2>1. AirTime(c, n) = [c EXCEPT !.air = c.air - n]
      BY <1>2 DEF AirTime
    <2>2. c.air - n \in 0 .. AirTicks
      BY <1>0, <1>2
    <2>3. ~ (c.air <= n)
      BY <1>0, <1>2
    <2> QED
      BY <1>2, <2>1, <2>2, <2>3 DEF ChipState
  <1>3. CASE c.mode = "TX" /\ ~ (c.air > n)
    <2> DEFINE d == [c EXCEPT !.mode = "STANDBY", !.air = 0]
    <2>1. AirTime(c, n) = [d EXCEPT !.flags = d.flags \cup ({"TX_DONE"} \cap d.mask)]
      BY <1>3 DEF AirTime, Raise
    <2>2. 0 \in 0 .. AirTicks
      BY TickAssumption
    <2>3. d \in ChipState /\ d.reg = c.reg /\ d.mask = c.mask
      BY <2>2 DEF ChipState
    <2> HIDE DEF d
    <2>4. AirTime(c, n) \in ChipState /\ AirTime(c, n).reg = d.reg /\ AirTime(c, n).mask = d.mask
          /\ AirTime(c, n).flags = d.flags \cup ({"TX_DONE"} \cap d.mask)
      BY <2>1, <2>3 DEF ChipState, Flag
    <2> QED
      BY <1>3, <2>3, <2>4
  <1> QED
    BY <1>1, <1>2, <1>3

\* A wait is some ticks, in which a command may be run, or none.
LEMMA WaitPasses ==
    ASSUME WaitTick
    PROVE  /\ \E n \in 1 .. 1 + BeaconTicks : Passes(n)
           /\ NoCommand \/ \E p \in Param, v \in Value : SetCommand(p, v)
  <1>1. CASE Passes(1)
    <2>1. 1 \in 1 .. 1 + BeaconTicks
      BY TickAssumption
    <2> QED
      BY <1>1, <2>1 DEF WaitTick
  <1>2. CASE \E n \in 0 .. BeaconTicks : Passes(1 + n)
    <2>1. PICK n \in 0 .. BeaconTicks : Passes(1 + n)
      BY <1>2
    <2>2. 1 + n \in 1 .. 1 + BeaconTicks
      BY TickAssumption
    <2> QED
      BY <2>1, <2>2 DEF WaitTick
  <1> QED
    BY <1>1, <1>2 DEF WaitTick

\* Two calls in a row.
LEMMA InARow ==
    ASSUME NEW s \in Seq(Command), NEW t \in Seq(Command)
    PROVE  /\ s \o t \in Seq(Command)
           /\ Len(s) \in Nat /\ Len(t) \in Nat
           /\ DOMAIN s = 1 .. Len(s) /\ DOMAIN t = 1 .. Len(t)
           /\ DOMAIN (s \o t) = 1 .. Len(s) + Len(t)
           /\ Len(s \o t) = Len(s) + Len(t)
           /\ \A i \in 1 .. Len(s) : (s \o t)[i] = s[i]
           /\ \A i \in 1 .. Len(t) : (s \o t)[Len(s) + i] = t[i]
  <1>1. /\ s \o t \in Seq(Command)
        /\ Len(s \o t) = Len(s) + Len(t)
        /\ \A i \in 1 .. Len(s) + Len(t) :
              (s \o t)[i] = IF i <= Len(s) THEN s[i] ELSE t[i - Len(s)]
    BY ConcatProperties
  <1>2. /\ Len(s) \in Nat /\ DOMAIN s = 1 .. Len(s)
        /\ Len(t) \in Nat /\ DOMAIN t = 1 .. Len(t)
        /\ DOMAIN (s \o t) = 1 .. Len(s \o t)
    BY <1>1, LenProperties
  <1>3. \A i \in 1 .. Len(s) : (s \o t)[i] = s[i]
    BY <1>1, <1>2
  <1>4. \A i \in 1 .. Len(t) : (s \o t)[Len(s) + i] = t[i]
    <2> SUFFICES ASSUME NEW i \in 1 .. Len(t)
                 PROVE  (s \o t)[Len(s) + i] = t[i]
      OBVIOUS
    <2>1. Len(s) + i \in 1 .. Len(s) + Len(t) /\ ~ (Len(s) + i <= Len(s))
          /\ (Len(s) + i) - Len(s) = i
      BY <1>2
    <2> QED
      BY <1>1, <2>1
  <1> QED
    BY <1>1, <1>2, <1>3, <1>4

\* The call that switches the receiver on, and what radio_start_rx makes of it.
LEMMA StartRxFacts ==
    /\ start_rx \in Seq(Command) /\ radio_start_rx \in Seq(Command)
    /\ Len(start_rx) = 4 /\ start_rx[4] = Rx /\ start_rx[2] = Mask({"RX_DONE"})
    /\ \A i \in DOMAIN start_rx :
          /\ start_rx[i].op \notin {"SET", "TX"}
          /\ start_rx[i].op = "MASK" => start_rx[i].flags = {"RX_DONE"}
    /\ ok => radio_start_rx = start_rx
    /\ ~ ok => radio_start_rx = <<>>
  <1>1. start_rx \in Seq(Command)
    BY CommandTypes DEF start_rx
  <1>2. radio_start_rx \in Seq(Command)
    BY <1>1 DEF radio_start_rx
  <1>3. Len(start_rx) = 4 /\ DOMAIN start_rx = 1 .. 4
        /\ start_rx[1] = Standby /\ start_rx[2] = Mask({"RX_DONE"})
        /\ start_rx[3] = Clear(Flag) /\ start_rx[4] = Rx
    BY DEF start_rx
  <1>4. \A i \in DOMAIN start_rx :
          /\ start_rx[i].op \notin {"SET", "TX"}
          /\ start_rx[i].op = "MASK" => start_rx[i].flags = {"RX_DONE"}
    BY <1>3 DEF Standby, Mask, Clear, Rx
  <1> QED
    BY <1>1, <1>2, <1>3, <1>4 DEF radio_start_rx

\* The commands of radio_send.
LEMMA SendFacts ==
    /\ Send \in Seq(Command)
    /\ Send # <<>>
    /\ Send[Len(Send)] = Tx
    /\ \A i \in DOMAIN Send :
          /\ Send[i].op # "SET"
          /\ Send[i].op = "MASK" => Send[i].flags = {"TX_DONE"}
    /\ \E i \in DOMAIN Send : Send[i].op = "MASK"
  <1> DEFINE a == StartTx
             b == <<Plain, Plain, Tx>>
  <1>1. a \in Seq(Command) /\ Len(a) = 3
        /\ a[1] = Standby /\ a[2] = Mask({"TX_DONE"}) /\ a[3] = Clear(Flag)
    BY CommandTypes DEF StartTx
  <1>2. b \in Seq(Command) /\ Len(b) = 3 /\ b[1] = Plain /\ b[2] = Plain /\ b[3] = Tx
    BY CommandTypes
  <1>3. Send = a \o b
    BY DEF Send
  <1> HIDE DEF a, b
  <1>4. /\ Send \in Seq(Command)
        /\ DOMAIN Send = 1 .. 6 /\ Len(Send) = 6
        /\ Send[1] = a[1] /\ Send[2] = a[2] /\ Send[3] = a[3]
        /\ Send[3 + 1] = b[1] /\ Send[3 + 2] = b[2] /\ Send[3 + 3] = b[3]
    <2>1. /\ a \o b \in Seq(Command)
          /\ Len(a) \in Nat /\ Len(b) \in Nat
          /\ DOMAIN a = 1 .. Len(a) /\ DOMAIN b = 1 .. Len(b)
          /\ DOMAIN (a \o b) = 1 .. Len(a) + Len(b)
          /\ Len(a \o b) = Len(a) + Len(b)
          /\ \A i \in 1 .. Len(a) : (a \o b)[i] = a[i]
          /\ \A i \in 1 .. Len(b) : (a \o b)[Len(a) + i] = b[i]
      BY <1>1, <1>2, InARow
    <2> QED
      BY <1>1, <1>2, <1>3, <2>1
  <1>5. Send[6] = Tx /\ Send[4] = Plain /\ Send[5] = Plain
    BY <1>2, <1>4
  <1>6. Send # <<>>
    <2>1. Len(<<>>) = 0
      BY EmptySeq
    <2>2. Len(Send) # 0
      BY <1>4
    <2> QED
      BY <2>1, <2>2, Zenon
  <1>7. \A i \in DOMAIN Send :
          /\ Send[i].op # "SET"
          /\ Send[i].op = "MASK" => Send[i].flags = {"TX_DONE"}
    BY <1>1, <1>4, <1>5 DEF Standby, Mask, Clear, Plain, Tx
  <1>8. Send[2].op = "MASK" /\ 2 \in DOMAIN Send
    BY <1>1, <1>4 DEF Mask
  <1> QED
    BY <1>4, <1>5, <1>6, <1>7, <1>8

\* The commands of a call that changes a setting.
LEMMA SetRadioFacts ==
    ASSUME NEW p \in Param, NEW v \in Value, NEW call, call = SetRadio(p, v)
    PROVE  /\ call \in Seq(Command)
           /\ call # <<>> /\ Len(call) \in Nat /\ DOMAIN call = 1 .. Len(call)
           /\ 2 \in DOMAIN call
           /\ call[1] = Standby /\ call[2] = Set(p, v)
           /\ \A i \in DOMAIN call :
                 /\ i # 2 => call[i].op # "SET"
                 /\ call[i].op # "TX"
                 /\ call[i].op = "MASK" => call[i].flags = {"RX_DONE"}
           /\ ok => /\ call[Len(call)] = Rx
                    /\ \E i \in DOMAIN call : call[i].op = "MASK"
  <1> DEFINE a == <<Standby, Set(p, v)>>
             b == radio_start_rx
  <1>1. a \in Seq(Command) /\ Len(a) = 2 /\ a[1] = Standby /\ a[2] = Set(p, v)
    BY CommandTypes
  <1>2. call = a \o b /\ b \in Seq(Command)
    BY StartRxFacts DEF SetRadio
  <1>3. /\ \A i \in DOMAIN b :
              /\ b[i].op \notin {"SET", "TX"}
              /\ b[i].op = "MASK" => b[i].flags = {"RX_DONE"}
        /\ ok => Len(b) = 4 /\ b[4] = Rx /\ b[2] = Mask({"RX_DONE"})
    <2>1. CASE ok
      BY <2>1, StartRxFacts
    <2>2. CASE ~ ok
      BY <2>2 DEF radio_start_rx
    <2> QED
      BY <2>1, <2>2
  <1> HIDE DEF a, b
  <1>4. /\ call \in Seq(Command)
        /\ Len(b) \in Nat /\ DOMAIN b = 1 .. Len(b)
        /\ Len(call) = 2 + Len(b) /\ DOMAIN call = 1 .. 2 + Len(b)
        /\ call[1] = Standby /\ call[2] = Set(p, v)
        /\ \A i \in 1 .. Len(b) : call[2 + i] = b[i]
    <2>1. /\ a \o b \in Seq(Command)
          /\ Len(a) \in Nat /\ Len(b) \in Nat
          /\ DOMAIN a = 1 .. Len(a) /\ DOMAIN b = 1 .. Len(b)
          /\ DOMAIN (a \o b) = 1 .. Len(a) + Len(b)
          /\ Len(a \o b) = Len(a) + Len(b)
          /\ \A i \in 1 .. Len(a) : (a \o b)[i] = a[i]
          /\ \A i \in 1 .. Len(b) : (a \o b)[Len(a) + i] = b[i]
      BY <1>1, <1>2, InARow
    <2> QED
      BY <1>1, <1>2, <2>1
  <1>5. \A i \in DOMAIN call :
          /\ i # 2 => call[i].op # "SET"
          /\ call[i].op # "TX"
          /\ call[i].op = "MASK" => call[i].flags = {"RX_DONE"}
    <2> SUFFICES ASSUME NEW i \in DOMAIN call
                 PROVE  /\ i # 2 => call[i].op # "SET"
                        /\ call[i].op # "TX"
                        /\ call[i].op = "MASK" => call[i].flags = {"RX_DONE"}
      OBVIOUS
    <2>1. CASE i <= 2
      <3>1. i = 1 \/ i = 2
        BY <1>4, <2>1
      <3> QED
        BY <1>4, <3>1 DEF Standby, Set
    <2>2. CASE ~ (i <= 2)
      <3>1. i - 2 \in 1 .. Len(b) /\ 2 + (i - 2) = i
        BY <1>4, <2>2
      <3>2. call[i] = b[i - 2] /\ i - 2 \in DOMAIN b
        BY <1>4, <3>1
      <3> QED
        BY <1>3, <3>2
    <2> QED
      BY <2>1, <2>2
  <1>6. ok => /\ call[Len(call)] = Rx
              /\ \E i \in DOMAIN call : call[i].op = "MASK"
    <2> SUFFICES ASSUME ok
                 PROVE  /\ call[Len(call)] = Rx
                        /\ \E i \in DOMAIN call : call[i].op = "MASK"
      OBVIOUS
    <2>5. Len(b) = 4
      BY <1>3
    <2>3. 4 \in 1 .. Len(b) /\ 2 \in 1 .. Len(b)
      BY <2>5
    <2>4. call[2 + 4] = b[4] /\ call[2 + 2] = b[2]
      BY <1>4, <2>3
    <2>1. Len(b) = 4 /\ call[2 + 4] = Rx /\ call[2 + 2] = Mask({"RX_DONE"})
      BY <1>3, <2>3, <2>4, <2>5
    <2>2. Len(call) = 6 /\ 4 \in DOMAIN call /\ call[6] = Rx /\ call[4].op = "MASK"
      BY <1>4, <2>1 DEF Mask
    <2> QED
      BY <2>2
  <1>7. call # <<>> /\ 2 \in DOMAIN call /\ Len(call) \in Nat /\ DOMAIN call = 1 .. Len(call)
    BY <1>4
  <1> QED
    BY <1>4, <1>5, <1>6, <1>7

\* The commands radio_send's end issues.
LEMMA WaitDoneFacts ==
    ASSUME NEW first \in {<<>>, <<Clear({"TX_DONE"})>>}, NEW call,
           call = first \o radio_start_rx
    PROVE  /\ call \in Seq(Command)
           /\ \A i \in DOMAIN call :
                 /\ call[i].op \notin {"SET", "TX"}
                 /\ call[i].op = "MASK" => call[i].flags = {"RX_DONE"}
           /\ ok => /\ call # <<>> /\ call[Len(call)] = Rx
                    /\ \E i \in DOMAIN call : call[i].op = "MASK"
  <1> DEFINE b == radio_start_rx
  <1>1. first \in Seq(Command) /\ Len(first) \in {0, 1}
        /\ (Len(first) = 1 => first[1] = Clear({"TX_DONE"}))
    <2>1. CASE first = <<>>
      BY <2>1, EmptySeq
    <2>2. CASE first = <<Clear({"TX_DONE"})>>
      BY <2>2, CommandTypes
    <2> QED
      BY <2>1, <2>2
  <1>2. call = first \o b /\ b \in Seq(Command)
    BY StartRxFacts
  <1>3. /\ \A i \in DOMAIN b :
              /\ b[i].op \notin {"SET", "TX"}
              /\ b[i].op = "MASK" => b[i].flags = {"RX_DONE"}
        /\ ok => Len(b) = 4 /\ b[4] = Rx /\ b[2] = Mask({"RX_DONE"})
    <2>1. CASE ok
      BY <2>1, StartRxFacts
    <2>2. CASE ~ ok
      BY <2>2 DEF radio_start_rx
    <2> QED
      BY <2>1, <2>2
  <1> HIDE DEF b
  <1>4. PICK k \in {0, 1} : k = Len(first)
    BY <1>1
  <1>5. /\ call \in Seq(Command)
        /\ Len(b) \in Nat /\ DOMAIN b = 1 .. Len(b)
        /\ Len(call) = k + Len(b) /\ DOMAIN call = 1 .. k + Len(b)
        /\ k = 1 => call[1] = Clear({"TX_DONE"})
        /\ \A i \in 1 .. Len(b) : call[k + i] = b[i]
    <2>1. /\ first \o b \in Seq(Command)
          /\ Len(first) \in Nat /\ Len(b) \in Nat
          /\ DOMAIN first = 1 .. Len(first) /\ DOMAIN b = 1 .. Len(b)
          /\ DOMAIN (first \o b) = 1 .. Len(first) + Len(b)
          /\ Len(first \o b) = Len(first) + Len(b)
          /\ \A i \in 1 .. Len(first) : (first \o b)[i] = first[i]
          /\ \A i \in 1 .. Len(b) : (first \o b)[Len(first) + i] = b[i]
      BY <1>1, <1>2, InARow
    <2> QED
      BY <1>1, <1>2, <1>4, <2>1
  <1>6. \A i \in DOMAIN call :
          /\ call[i].op \notin {"SET", "TX"}
          /\ call[i].op = "MASK" => call[i].flags = {"RX_DONE"}
    <2> SUFFICES ASSUME NEW i \in DOMAIN call
                 PROVE  /\ call[i].op \notin {"SET", "TX"}
                        /\ call[i].op = "MASK" => call[i].flags = {"RX_DONE"}
      OBVIOUS
    <2>1. CASE i <= k
      <3>1. i = 1 /\ k = 1
        BY <1>5, <2>1
      <3> QED
        BY <1>5, <3>1 DEF Clear
    <2>2. CASE ~ (i <= k)
      <3>1. i - k \in 1 .. Len(b) /\ k + (i - k) = i
        BY <1>5, <2>2
      <3>2. call[i] = b[i - k] /\ i - k \in DOMAIN b
        BY <1>5, <3>1
      <3> QED
        BY <1>3, <3>2
    <2> QED
      BY <2>1, <2>2
  <1>7. ok => /\ call # <<>> /\ call[Len(call)] = Rx
              /\ \E i \in DOMAIN call : call[i].op = "MASK"
    <2> SUFFICES ASSUME ok
                 PROVE  /\ call # <<>> /\ call[Len(call)] = Rx
                        /\ \E i \in DOMAIN call : call[i].op = "MASK"
      OBVIOUS
    <2>6. Len(b) = 4
      BY <1>3
    <2>4. 4 \in 1 .. Len(b) /\ 2 \in 1 .. Len(b)
      BY <2>6
    <2>5. call[k + 4] = b[4] /\ call[k + 2] = b[2]
      BY <1>5, <2>4
    <2>1. Len(b) = 4 /\ call[k + 4] = Rx /\ call[k + 2] = Mask({"RX_DONE"})
      BY <1>3, <2>4, <2>5, <2>6
    <2>2. Len(call) = k + 4 /\ k + 2 \in DOMAIN call /\ call[k + 2].op = "MASK"
      BY <1>5, <2>1 DEF Mask
    <2>3. call # <<>>
      BY <2>2
    <2> QED
      BY <2>1, <2>2, <2>3
  <1> QED
    BY <1>5, <1>6, <1>7


\* The commands of radio_irq_handler.
LEMMA IrqCallFacts ==
    ASSUME NEW call, \/ call = <<>>
                     \/ call = <<Clear({"RX_DONE"}), Clear(Flag)>>
                     \/ call = <<Clear({"TX_DONE"}), Clear(Flag)>>
    PROVE  call \in Seq(Command) /\ \A i \in DOMAIN call : call[i].op = "CLEAR"
  <1>1. CASE call = <<>>
    <2>1. <<>> \in Seq(Command) /\ DOMAIN <<>> = {}
      BY EmptySeq, LenProperties
    <2> QED
      BY <1>1, <2>1
  <1>2. CASE call # <<>>
    <2>1. PICK f \in {{"RX_DONE"}, {"TX_DONE"}} : call = <<Clear(f), Clear(Flag)>>
      BY <1>2
    <2>2. DOMAIN call = 1 .. 2 /\ call[1] = Clear(f) /\ call[2] = Clear(Flag)
      BY <2>1
    <2>3. call \in Seq(Command)
      BY <2>1, CommandTypes
    <2> QED
      BY <2>2, <2>3 DEF Clear
  <1> QED
    BY <1>1, <1>2

\* The settings radio_init writes: each parameter once, the stored value.
LEMMA LoadFacts ==
    /\ Load \in Seq(Command)
    /\ \A i \in DOMAIN Load : \E p \in Param : Load[i] = Set(p, Stored)
    /\ \A p \in Param : \E i \in DOMAIN Load : Load[i] = Set(p, Stored)
  <1> DEFINE n == Cardinality(Param)
             order == SetToSeq(Param)
  <1>1. IsFiniteSet(Param) /\ Stored \in Value
    BY SettingAssumption
  <1>2. n \in Nat
    BY <1>1, FS_CardinalityType
  <1>3. order \in Injection(1 .. n, Param)
    <2>1. ExistsBijection(1 .. n, Param)
      BY <1>1, FS_CardinalityType
    <2>2. PICK g : g \in Bijection(1 .. n, Param)
      BY <2>1 DEF ExistsBijection
    <2>3. g \in [1 .. n -> Param] /\ IsInjective(g)
      BY <2>2 DEF Bijection, Injection, IsInjective
    <2>4. order \in [1 .. n -> Param] /\ IsInjective(order)
      BY <2>3 DEF SetToSeq
    <2> QED
      BY <2>4 DEF Injection, IsInjective
  <1>4. order \in Surjection(1 .. n, Param)
    <2>1. IsFiniteSet(1 .. n) /\ Cardinality(1 .. n) = n
      BY <1>2, FS_Interval
    <2> QED
      BY <1>1, <1>3, <2>1, FS_Injection
  <1>5. order \in [1 .. n -> Param] /\ \A p \in Param : \E i \in 1 .. n : order[i] = p
    BY <1>4 DEF Surjection
  <1>6. Load = [i \in 1 .. n |-> Set(order[i], Stored)]
    BY <1>5 DEF Load
  <1> HIDE DEF n, order
  <1>7. \A i \in 1 .. n : Set(order[i], Stored) \in Command
    BY <1>1, <1>5, CommandTypes
  <1>8. Load \in [1 .. n -> Command]
    BY <1>6, <1>7
  <1>9. Load \in Seq(Command)
    BY <1>2, <1>8
  <1> QED
    BY <1>5, <1>6, <1>9

\* The commands of radio_init.
LEMMA InitCallsFacts ==
    /\ InitCalls \in Seq(Command)
    /\ InitCalls[1] = Standby
    /\ \A i \in DOMAIN InitCalls :
          \/ InitCalls[i] \in {Standby, Plain}
          \/ \E p \in Param : InitCalls[i] = Set(p, Stored)
    /\ \A p \in Param : \E i \in DOMAIN InitCalls : InitCalls[i] = Set(p, Stored)
  <1> DEFINE a == <<Standby, Plain, Standby, Plain>>
             c == <<Plain>>
  <1>1. a \in Seq(Command) /\ Len(a) = 4
        /\ a[1] = Standby /\ a[2] = Plain /\ a[3] = Standby /\ a[4] = Plain
    BY CommandTypes
  <1>2. c \in Seq(Command) /\ Len(c) = 1 /\ c[1] = Plain
    BY CommandTypes
  <1>3. InitCalls = (a \o Load) \o c
    BY DEF InitCalls
  <1> HIDE DEF a, c
  <1>4. PICK b : b = a \o Load
    OBVIOUS
  <1>5. /\ b \in Seq(Command)
        /\ DOMAIN b = 1 .. 4 + Len(Load) /\ Len(b) = 4 + Len(Load)
        /\ Len(Load) \in Nat /\ DOMAIN Load = 1 .. Len(Load)
        /\ \A i \in 1 .. 4 : b[i] = a[i]
        /\ \A i \in 1 .. Len(Load) : b[4 + i] = Load[i]
    <2>1. Load \in Seq(Command)
      BY LoadFacts
    <2>2. /\ a \o Load \in Seq(Command)
          /\ Len(a) \in Nat /\ Len(Load) \in Nat
          /\ DOMAIN a = 1 .. Len(a) /\ DOMAIN Load = 1 .. Len(Load)
          /\ DOMAIN (a \o Load) = 1 .. Len(a) + Len(Load)
          /\ Len(a \o Load) = Len(a) + Len(Load)
          /\ \A i \in 1 .. Len(a) : (a \o Load)[i] = a[i]
          /\ \A i \in 1 .. Len(Load) : (a \o Load)[Len(a) + i] = Load[i]
      BY <1>1, <2>1, InARow
    <2> QED
      BY <1>1, <1>4, <2>2
  <1>6. /\ InitCalls \in Seq(Command)
        /\ DOMAIN InitCalls = 1 .. Len(b) + 1
        /\ \A i \in 1 .. Len(b) : InitCalls[i] = b[i]
        /\ InitCalls[Len(b) + 1] = Plain
    <2>1. /\ b \o c \in Seq(Command)
          /\ Len(b) \in Nat /\ Len(c) \in Nat
          /\ DOMAIN b = 1 .. Len(b) /\ DOMAIN c = 1 .. Len(c)
          /\ DOMAIN (b \o c) = 1 .. Len(b) + Len(c)
          /\ Len(b \o c) = Len(b) + Len(c)
          /\ \A i \in 1 .. Len(b) : (b \o c)[i] = b[i]
          /\ \A i \in 1 .. Len(c) : (b \o c)[Len(b) + i] = c[i]
      BY <1>2, <1>5, InARow
    <2>2. 1 \in 1 .. Len(c)
      BY <1>2
    <2> QED
      BY <1>2, <1>3, <1>4, <2>1, <2>2
  <1>7. InitCalls[1] = Standby
    BY <1>1, <1>5, <1>6
  <1>8. ASSUME NEW i \in DOMAIN InitCalls
        PROVE  \/ InitCalls[i] \in {Standby, Plain}
               \/ \E p \in Param : InitCalls[i] = Set(p, Stored)
    <2>1. CASE i \in 1 .. 4
      <3>1. InitCalls[i] = a[i]
        BY <1>5, <1>6, <2>1
      <3>2. i = 1 \/ i = 2 \/ i = 3 \/ i = 4
        BY <2>1
      <3> QED
        BY <1>1, <3>1, <3>2
    <2>2. CASE i \in 5 .. 4 + Len(Load)
      <3>1. i - 4 \in 1 .. Len(Load) /\ 4 + (i - 4) = i /\ i \in 1 .. Len(b)
        BY <1>5, <2>2
      <3>2. InitCalls[i] = Load[i - 4] /\ i - 4 \in DOMAIN Load
        BY <1>5, <1>6, <3>1
      <3> QED
        BY <3>2, LoadFacts
    <2>3. CASE i = Len(b) + 1
      BY <1>6, <2>3
    <2> QED
      BY <1>5, <1>6, <2>1, <2>2, <2>3
  <1>9. ASSUME NEW p \in Param
        PROVE  \E i \in DOMAIN InitCalls : InitCalls[i] = Set(p, Stored)
    <2>1. PICK j \in DOMAIN Load : Load[j] = Set(p, Stored)
      BY LoadFacts
    <2>2. 4 + j \in 1 .. Len(b) /\ 4 + j \in DOMAIN InitCalls
      BY <1>5, <1>6
    <2>3. InitCalls[4 + j] = b[4 + j] /\ b[4 + j] = Load[j]
      BY <1>5, <1>6, <2>2
    <2> QED
      BY <2>1, <2>2, <2>3
  <1> QED
    BY <1>6, <1>7, <1>8, <1>9


----------------------------------------------------------------------------
(* Types. *)

\* A chip that was reset is one.
LEMMA ResetChipType == ResetChip \in ChipState
  <1>1. 0 \in 0 .. AirTicks
    BY TickAssumption
  <1> QED
    BY <1>1 DEF ResetChip, ChipState

\* The processor starts with every variable in its type.
LEMMA BootTypes ==
    /\ Init => TypeOK
    /\ stuck \in BOOLEAN /\ BootState => TypeOK'
  <1>1. /\ InitCalls \in Seq(Command) /\ ResetChip \in ChipState
        /\ [p \in Param |-> Stored] \in [Param -> Value]
        /\ 0 \in 0 .. SendTicks /\ 0 \in 0 .. WatchdogTicks + BeaconTicks
        /\ "INIT" \in Stage /\ "OFF" \in {"OFF", "RX", "TX"}
    BY InitCallsFacts, ResetChipType, SettingAssumption, TickAssumption DEF Stage
  <1>2. Init => TypeOK
    BY <1>1, Zenon DEF Init, TypeOK
  <1>3. ASSUME stuck \in BOOLEAN, BootState
        PROVE  TypeOK'
    <2>1. stuck' \in BOOLEAN
      BY <1>3, Zenon DEF BootState
    <2> QED
      BY <1>1, <1>3, <2>1, Zenon DEF BootState, TypeOK
  <1> QED
    BY <1>2, <1>3

\* So does a change of a setting leave them.
LEMMA SetCommandTypes ==
    ASSUME TypeOK, NEW p \in Param, NEW v \in Value, SetCommand(p, v)
    PROVE  todo' \in Seq(Command) /\ cur' \in [Param -> Value]
  <1>1. todo' \in Seq(Command)
    BY SetRadioFacts DEF SetCommand
  <1>2. cur' \in [Param -> Value]
    BY DEF SetCommand, TypeOK
  <1> QED
    BY <1>1, <1>2

\* Every step keeps the types.
LEMMA TypeStep == TypeOK /\ [Next]_vars => TypeOK'
  <1> SUFFICES ASSUME TypeOK, [Next]_vars
               PROVE  TypeOK'
    OBVIOUS
  <1>1. CASE Issue
    <2>1. Head(todo) \in Command /\ todo' \in Seq(Command)
      <3>1. todo \in Seq(Command) /\ todo # <<>>
        BY <1>1 DEF Issue, TypeOK
      <3> QED
        BY <1>1, <3>1, RestOfCall DEF Issue
    <2>2. chip' \in ChipState
      <3>1. Obey(chip, Head(todo)) \in ChipState
        BY <2>1, ObeyFacts DEF TypeOK
      <3> QED
        BY <1>1, <3>1 DEF Issue, TypeOK
    <2>3. pins' \in {"OFF", "RX", "TX"}
      BY <1>1 DEF Issue, Switch, TypeOK
    <2>4. failed' \in BOOLEAN
      BY <1>1, Zenon DEF Issue, wait_busy_fails
    <2> QED
      BY <1>1, <2>1, <2>2, <2>3, <2>4, Zenon DEF Issue, TypeOK
  <1>2. CASE InitDone
    <2>1. todo' \in Seq(Command)
      <3>1. start_rx \in Seq(Command) /\ <<>> \in Seq(Command)
        BY StartRxFacts, EmptySeq
      <3> QED
        BY <1>2, <3>1 DEF InitDone
    <2>2. ok' \in BOOLEAN /\ pc' \in Stage
      BY <1>2, Zenon DEF InitDone, Stage
    <2> QED
      BY <1>2, <2>1, <2>2, Zenon DEF InitDone, TypeOK
  <1>3. CASE Top
    <2>1. dog' \in 0 .. WatchdogTicks + BeaconTicks /\ pc' \in Stage
      BY <1>3, TickAssumption DEF Top, Stage
    <2> QED
      BY <1>3, <2>1, Zenon DEF Top, TypeOK
  <1>4. CASE Usb
    <2>1. todo' \in Seq(Command) /\ cur' \in [Param -> Value]
      <3>1. CASE NoCommand
        BY <3>1 DEF NoCommand, TypeOK
      <3>2. CASE \E p \in Param, v \in Value : SetCommand(p, v)
        BY <3>2, SetCommandTypes
      <3> QED
        BY <1>4, <3>1, <3>2 DEF Usb
    <2>2. pc' \in Stage
      BY <1>4 DEF Usb, Stage
    <2> QED
      BY <1>4, <2>1, <2>2, Zenon DEF Usb, TypeOK
  <1>5. CASE UsbReset
    BY <1>5, BootTypes, Zenon DEF UsbReset, TypeOK
  <1>6. CASE TimerIdle
    <2>1. pc' \in Stage
      BY <1>6 DEF TimerIdle, AfterTimer, Stage
    <2> QED
      BY <1>6, <2>1, Zenon DEF TimerIdle, TypeOK
  <1>7. CASE TimerBeacon
    <2>1. todo' \in Seq(Command) /\ cur' \in [Param -> Value]
      <3>1. CASE NoCommand
        BY <3>1 DEF NoCommand, TypeOK
      <3>2. CASE \E p \in Param, v \in Value : SetCommand(p, v)
        BY <3>2, SetCommandTypes
      <3> QED
        BY <1>7, <3>1, <3>2 DEF TimerBeacon
    <2>2. pc' \in Stage
      BY <1>7 DEF TimerBeacon, AfterTimer, Stage
    <2>3. queued' \in BOOLEAN
      BY <1>7, Zenon DEF TimerBeacon
    <2> QED
      BY <1>7, <2>1, <2>2, <2>3, Zenon DEF TimerBeacon, TypeOK
  <1>8. CASE Irq
    <2>1. /\ <<Clear({"RX_DONE"}), Clear(Flag)>> \in Seq(Command)
          /\ <<Clear({"TX_DONE"}), Clear(Flag)>> \in Seq(Command)
          /\ <<>> \in Seq(Command)
      BY CommandTypes
    <2>2. todo' \in Seq(Command) /\ pc' \in Stage
      BY <1>8, <2>1 DEF Irq, Stage
    <2> QED
      BY <1>8, <2>2, Zenon DEF Irq, TypeOK
  <1>9. CASE MacIdle
    <2>1. pc' \in Stage
      BY <1>9 DEF MacIdle, Stage
    <2> QED
      BY <1>9, <2>1, Zenon DEF MacIdle, TypeOK
  <1>10. CASE MacSend
    <2>1. todo' \in Seq(Command)
      BY <1>10, SendFacts DEF MacSend
    <2>2. /\ pc' \in Stage
          /\ dog' \in 0 .. WatchdogTicks + BeaconTicks /\ waits' \in 0 .. SendTicks
      BY <1>10, TickAssumption DEF MacSend, Stage
    <2>3. failed' \in BOOLEAN /\ queued' \in BOOLEAN /\ cut' \in BOOLEAN
      BY <1>10, Zenon DEF MacSend, wait_busy_fails
    <2> QED
      BY <1>10, <2>1, <2>2, <2>3, Zenon DEF MacSend, TypeOK
  <1>11. ASSUME WaitTick, ~ Bitten PROVE TypeOK'
    <2>1. todo' \in Seq(Command) /\ cur' \in [Param -> Value]
      <3>1. CASE NoCommand
        BY <3>1 DEF NoCommand, TypeOK
      <3>2. CASE \E p \in Param, v \in Value : SetCommand(p, v)
        BY <3>2, SetCommandTypes
      <3> QED
        BY <1>11, <3>1, <3>2, WaitPasses
    <2>2. chip' \in ChipState
      <3>1. PICK n \in 1 .. 1 + BeaconTicks : Passes(n)
        BY <1>11, WaitPasses
      <3>2. n \in Nat \ {0}
        OBVIOUS
      <3> QED
        BY <3>1, <3>2, TickFacts DEF Passes, TypeOK
    <2>3. dog' \in 0 .. WatchdogTicks + BeaconTicks /\ waits' \in 0 .. SendTicks
      <3>1. PICK n \in 1 .. 1 + BeaconTicks : dog' = dog + n
        BY <1>11, WaitPasses DEF Passes
      <3>2. ~ (dog >= WatchdogTicks) /\ waits # SendTicks /\ waits' = waits + 1
        BY <1>11 DEF WaitTick, GivesUp, Bitten
      <3> QED
        BY <3>1, <3>2, TickAssumption DEF TypeOK
    <2>4. failed' \in BOOLEAN /\ queued' \in BOOLEAN /\ cut' \in BOOLEAN
      BY <1>11, Zenon DEF WaitTick, wait_busy_fails, TypeOK
    <2> QED
      BY <1>11, <2>1, <2>2, <2>3, <2>4, Zenon DEF WaitTick, TypeOK
  <1>12. CASE WaitDone
    <2>1. todo' \in Seq(Command)
      <3>1. todo' = <<>> \o radio_start_rx \/ todo' = <<Clear({"TX_DONE"})>> \o radio_start_rx
        BY <1>12 DEF WaitDone
      <3> QED
        BY <3>1, WaitDoneFacts, Zenon
    <2>2. pc' \in Stage
      BY <1>12 DEF WaitDone, Stage
    <2> QED
      BY <1>12, <2>1, <2>2, Zenon DEF WaitDone, TypeOK
  <1>13. CASE WatchdogBites
    BY <1>13, BootTypes, Zenon DEF WatchdogBites, TypeOK
  <1>14. CASE FrameArrives
    <2>1. chip' \in ChipState
      BY <1>14 DEF FrameArrives, Raise, ChipState, TypeOK, Flag
    <2> QED
      BY <1>14, <2>1, Zenon DEF FrameArrives, TypeOK
  <1>15. CASE Hangs
    <2>1. stuck' \in BOOLEAN
      BY <1>15, Zenon DEF Hangs
    <2> QED
      BY <1>15, <2>1, Zenon DEF Hangs, TypeOK
  <1>16. CASE UNCHANGED vars
    BY <1>16, Zenon DEF vars, TypeOK
  <1> QED
    BY <1>1, <1>2, <1>3, <1>4, <1>5, <1>6, <1>7, <1>8, <1>9, <1>10, <1>11, <1>12,
       <1>13, <1>14, <1>15, <1>16 DEF Next, Processor, Runs

\* Every variable of the driver, its callers and the chip stays within its type.
THEOREM TypeCorrect == Spec => []TypeOK
  <1>1. Init => TypeOK
    BY BootTypes
  <1> QED
    BY <1>1, TypeStep, PTL DEF Spec


----------------------------------------------------------------------------
(* Settings. *)

\* At the end of a call the chip has what is reported, and a call that writes no
\* parameter leaves it so.
LEMMA NothingComing ==
    ASSUME NEW c \in ChipState, NEW s \in [Param -> Value]
    PROVE  /\ SettingsComing(<<>>, c, s) => c.reg = s
           /\ \A t \in Seq(Command) :
                 (\A i \in DOMAIN t : t[i].op # "SET") /\ c.reg = s
                     => SettingsComing(t, c, s) /\ SetInStandby(t, c)
  <1>1. DOMAIN <<>> = {}
    BY EmptySeq, LenProperties
  <1>2. ASSUME SettingsComing(<<>>, c, s)
        PROVE  c.reg = s
    <2>1. \A p \in Param : c.reg[p] = s[p]
      BY <1>1, <1>2 DEF SettingsComing
    <2>2. c.reg \in [Param -> Value \cup {Undefined}]
      BY DEF ChipState
    <2> QED
      BY <2>1, <2>2
  <1>3. ASSUME NEW t \in Seq(Command), \A i \in DOMAIN t : t[i].op # "SET", c.reg = s
        PROVE  SettingsComing(t, c, s) /\ SetInStandby(t, c)
    BY <1>3 DEF SettingsComing, SetInStandby
  <1> QED
    BY <1>2, <1>3

\* radio_init brings the stored settings into a chip that was reset.
LEMMA StoredSettingsComing ==
    /\ SettingsComing(InitCalls, ResetChip, [p \in Param |-> Stored])
    /\ SetInStandby(InitCalls, ResetChip)
  <1>1. \A i \in DOMAIN InitCalls :
          /\ InitCalls[i].op \notin {"RX", "TX"}
          /\ InitCalls[i].op = "SET" => \E p \in Param : InitCalls[i] = Set(p, Stored)
    BY InitCallsFacts DEF Standby, Plain, Set
  <1>2. SetInStandby(InitCalls, ResetChip)
    BY <1>1 DEF SetInStandby, ResetChip
  <1>3. \A p \in Param : Set(p, Stored).param = p /\ Set(p, Stored).value = Stored
    BY DEF Set
  <1>4. SettingsComing(InitCalls, ResetChip, [p \in Param |-> Stored])
    BY <1>1, <1>3, InitCallsFacts DEF SettingsComing
  <1> QED
    BY <1>2, <1>4

\* A change of one parameter keeps the others, and its standby comes first.
LEMMA NewSettingComing ==
    ASSUME NEW c \in ChipState, NEW s \in [Param -> Value], c.reg = s,
           NEW p \in Param, NEW v \in Value
    PROVE  /\ SettingsComing(SetRadio(p, v), c, [s EXCEPT ![p] = v])
           /\ SetInStandby(SetRadio(p, v), c)
  <1>1. PICK call : call = SetRadio(p, v)
    OBVIOUS
  <1>2. /\ DOMAIN call = 1 .. Len(call) /\ Len(call) \in Nat
        /\ 2 \in DOMAIN call
        /\ call[1] = Standby /\ call[2] = Set(p, v)
        /\ \A i \in DOMAIN call : i # 2 => call[i].op # "SET"
    BY <1>1, SetRadioFacts
  <1>3. Standby.op = "STANDBY"
        /\ Set(p, v).op = "SET" /\ Set(p, v).param = p /\ Set(p, v).value = v
    BY DEF Standby, Set
  <1>4. SetInStandby(call, c)
    <2>1. \A i, j \in DOMAIN call :
            i < j /\ call[j].op = "SET" => call[i].op \notin {"RX", "TX"}
      <3> SUFFICES ASSUME NEW i \in DOMAIN call, NEW j \in DOMAIN call,
                          i < j, call[j].op = "SET"
                   PROVE  call[i].op \notin {"RX", "TX"}
        OBVIOUS
      <3>1. j = 2
        BY <1>2
      <3>2. i = 1
        BY <1>2, <3>1
      <3> QED
        BY <1>2, <1>3, <3>2
    <2> QED
      BY <1>2, <1>3, <2>1 DEF SetInStandby
  <1>5. SettingsComing(call, c, [s EXCEPT ![p] = v])
    BY <1>2, <1>3 DEF SettingsComing
  <1> QED
    BY <1>1, <1>4, <1>5

\* The next command keeps the promise of the rest: what it writes, it writes in
\* standby, and the value is the reported one.
LEMMA IssueBringsSettings ==
    ASSUME NEW c \in ChipState, NEW s \in [Param -> Value],
           NEW t \in Seq(Command), t # <<>>,
           SettingsComing(t, c, s), SetInStandby(t, c)
    PROVE  /\ SettingsComing(Tail(t), Obey(c, Head(t)), s)
           /\ SetInStandby(Tail(t), Obey(c, Head(t)))
  <1>1. PICK cmd \in Command, u \in Seq(Command), d \in ChipState :
           cmd = Head(t) /\ u = Tail(t) /\ d = Obey(c, cmd)
    BY RestOfCall, ObeyFacts
  <1>2. /\ cmd = t[1] /\ 1 \in DOMAIN t
        /\ Len(t) \in Nat \ {0}
        /\ DOMAIN t = 1 .. Len(t) /\ DOMAIN u = 1 .. Len(t) - 1
        /\ \A i \in DOMAIN u : u[i] = t[i + 1] /\ i + 1 \in DOMAIN t
    BY <1>1, RestOfCall
  <1>3. /\ d.mode = IF cmd.op \in {"STANDBY", "RX", "TX"} THEN cmd.op ELSE c.mode
        /\ cmd.op # "SET" => d.reg = c.reg
        /\ cmd.op = "SET" => d.reg =
               [c.reg EXCEPT ![cmd.param] = IF c.mode = "STANDBY" THEN cmd.value ELSE Undefined]
    BY <1>1, ObeyFacts
  <1>4. SetInStandby(u, d)
    <2>1. ASSUME NEW i \in DOMAIN u, u[i].op = "SET"
          PROVE  d.mode = "STANDBY"
      <3>1. i + 1 \in DOMAIN t /\ t[i + 1].op = "SET" /\ 1 < i + 1
        BY <1>2, <2>1
      <3>2. cmd.op \notin {"RX", "TX"}
        BY <1>2, <3>1 DEF SetInStandby
      <3>3. c.mode = "STANDBY" \/ cmd.op = "STANDBY"
        BY <1>2, <3>1 DEF SetInStandby
      <3> QED
        BY <1>3, <3>2, <3>3
    <2>2. ASSUME NEW i \in DOMAIN u, NEW j \in DOMAIN u, i < j, u[j].op = "SET"
          PROVE  u[i].op \notin {"RX", "TX"}
      <3>1. /\ i + 1 \in DOMAIN t /\ j + 1 \in DOMAIN t /\ i + 1 < j + 1
            /\ t[j + 1].op = "SET" /\ u[i] = t[i + 1]
        BY <1>2, <2>2
      <3> QED
        BY <3>1 DEF SetInStandby
    <2> QED
      BY <2>1, <2>2 DEF SetInStandby
  <1>5. SettingsComing(u, d, s)
    <2>1. ASSUME NEW i \in DOMAIN u, u[i].op = "SET"
          PROVE  u[i].value = s[u[i].param]
      <3>1. i + 1 \in DOMAIN t /\ u[i] = t[i + 1]
        BY <1>2
      <3> QED
        BY <2>1, <3>1 DEF SettingsComing
    <2>2. ASSUME NEW p \in Param
          PROVE  d.reg[p] = s[p] \/ \E i \in DOMAIN u : u[i] = Set(p, s[p])
      <3>1. CASE c.reg[p] = s[p]
        <4>1. CASE cmd.op = "SET"
          <5>1. c.mode = "STANDBY" /\ cmd.value = s[cmd.param] /\ cmd.param \in Param
            BY <1>2, <4>1, CommandFacts DEF SetInStandby, SettingsComing
          <5>2. d.reg = [c.reg EXCEPT ![cmd.param] = cmd.value]
            BY <1>3, <4>1, <5>1
          <5>3. c.reg \in [Param -> Value \cup {Undefined}]
            BY DEF ChipState
          <5> QED
            BY <3>1, <5>1, <5>2, <5>3
        <4> QED
          BY <1>3, <3>1, <4>1
      <3>2. CASE \E i \in DOMAIN t : t[i] = Set(p, s[p])
        <4>1. PICK i \in DOMAIN t : t[i] = Set(p, s[p])
          BY <3>2
        <4>2. CASE i = 1
          <5>1. cmd.op = "SET" /\ cmd.param = p /\ cmd.value = s[p]
            BY <1>2, <4>1, <4>2 DEF Set
          <5>2. c.mode = "STANDBY"
            BY <1>2, <5>1 DEF SetInStandby
          <5>3. d.reg = [c.reg EXCEPT ![p] = s[p]]
            BY <1>3, <5>1, <5>2
          <5>4. c.reg \in [Param -> Value \cup {Undefined}]
            BY DEF ChipState
          <5> QED
            BY <5>3, <5>4
        <4>3. CASE i # 1
          <5>1. i - 1 \in DOMAIN u /\ (i - 1) + 1 = i
            BY <1>2, <4>3
          <5>2. u[i - 1] = t[i]
            BY <1>2, <5>1
          <5> QED
            BY <4>1, <5>1, <5>2
        <4> QED
          BY <4>2, <4>3
      <3> QED
        BY <3>1, <3>2 DEF SettingsComing
    <2> QED
      BY <2>1, <2>2 DEF SettingsComing
  <1> QED
    BY <1>1, <1>4, <1>5


\* A call without settings, or a change of one, after a call that has ended.
LEMMA NextCallSettings ==
    ASSUME TypeOK, SettingsInv, todo = <<>>, ~ failed,
           NEW c \in ChipState, c.reg = chip.reg
    PROVE  /\ \A t \in Seq(Command) : (\A i \in DOMAIN t : t[i].op # "SET")
                 => SettingsComing(t, c, cur) /\ SetInStandby(t, c)
           /\ \A p \in Param, v \in Value : SetCommand(p, v)
                 => SettingsComing(todo', c, cur') /\ SetInStandby(todo', c)
           /\ NoCommand => SettingsComing(todo', c, cur') /\ SetInStandby(todo', c)
  <1>1. cur \in [Param -> Value] /\ chip \in ChipState
    BY DEF TypeOK
  <1>2. SettingsComing(<<>>, chip, cur)
    BY DEF SettingsInv
  <1>3. c.reg = cur
    BY <1>1, <1>2, NothingComing
  <1>4. \A t \in Seq(Command) : (\A i \in DOMAIN t : t[i].op # "SET")
           => SettingsComing(t, c, cur) /\ SetInStandby(t, c)
    BY <1>1, <1>3, NothingComing
  <1>5. ASSUME NEW p \in Param, NEW v \in Value, SetCommand(p, v)
        PROVE  SettingsComing(todo', c, cur') /\ SetInStandby(todo', c)
    <2>1. /\ SettingsComing(SetRadio(p, v), c, [cur EXCEPT ![p] = v])
          /\ SetInStandby(SetRadio(p, v), c)
      BY <1>1, <1>3, NewSettingComing
    <2>2. todo' = SetRadio(p, v) /\ cur' = [cur EXCEPT ![p] = v]
      BY <1>5 DEF SetCommand
    <2> QED
      BY <2>1, <2>2
  <1>6. ASSUME NoCommand
        PROVE  SettingsComing(todo', c, cur') /\ SetInStandby(todo', c)
    <2>1. todo' = <<>> /\ cur' = cur
      BY <1>6 DEF NoCommand
    <2>2. <<>> \in Seq(Command) /\ \A i \in DOMAIN <<>> : FALSE
      BY EmptySeq, LenProperties
    <2> QED
      BY <1>4, <2>1, <2>2
  <1> QED
    BY <1>4, <1>5, <1>6

\* What FrameArrives leaves of the chip.
LEMMA FrameFacts ==
    ASSUME TypeOK, FrameArrives
    PROVE  /\ chip'.reg = chip.reg /\ chip'.mode = chip.mode /\ chip'.mask = chip.mask
           /\ chip'.air = chip.air /\ chip.flags \subseteq chip'.flags
  BY DEF FrameArrives, Raise, ChipState, TypeOK

\* Every step keeps the settings coming.
LEMMA SettingsStep == TypeOK /\ SettingsInv /\ [Next]_vars => SettingsInv'
  <1> SUFFICES ASSUME TypeOK, SettingsInv, [Next]_vars, ~ failed'
               PROVE  SettingsComing(todo', chip', cur') /\ SetInStandby(todo', chip')
    BY DEF SettingsInv
  <1>0. chip \in ChipState /\ cur \in [Param -> Value] /\ todo \in Seq(Command)
    BY DEF TypeOK
  <1>1. CASE Issue
    <2>1. /\ ~ failed /\ todo # <<>>
          /\ chip' = Obey(chip, Head(todo)) /\ todo' = Tail(todo) /\ cur' = cur
      BY <1>1 DEF Issue, wait_busy_fails
    <2>2. SettingsComing(todo, chip, cur) /\ SetInStandby(todo, chip)
      BY <2>1 DEF SettingsInv
    <2> QED
      BY <1>0, <2>1, <2>2, IssueBringsSettings
  <1>2. CASE InitDone
    <2>1. /\ ~ failed /\ todo = <<>> /\ todo' = start_rx
          /\ chip' = chip /\ cur' = cur
      BY <1>2 DEF InitDone
    <2>2. start_rx \in Seq(Command) /\ \A i \in DOMAIN start_rx : start_rx[i].op # "SET"
      BY StartRxFacts
    <2> QED
      BY <1>0, <2>1, <2>2, NextCallSettings
  <1>3. CASE UNCHANGED <<todo, chip, failed, cur>>
    BY <1>3 DEF SettingsInv
  <1>4. CASE Usb \/ TimerBeacon
    <2>1. todo = <<>> /\ ~ failed /\ chip' = chip
      BY <1>4 DEF Usb, TimerBeacon, At
    <2>2. NoCommand \/ \E p \in Param, v \in Value : SetCommand(p, v)
      BY <1>4 DEF Usb, TimerBeacon
    <2> QED
      BY <1>0, <2>1, <2>2, NextCallSettings
  <1>5. CASE Irq
    <2>1. todo = <<>> /\ ~ failed /\ chip' = chip /\ cur' = cur
      BY <1>5 DEF Irq, At
    <2>2. PICK t : t = todo'
      OBVIOUS
    <2>3. t \in Seq(Command) /\ \A i \in DOMAIN t : t[i].op # "SET"
      <3>1. \/ t = <<>>
            \/ t = <<Clear({"RX_DONE"}), Clear(Flag)>>
            \/ t = <<Clear({"TX_DONE"}), Clear(Flag)>>
        BY <1>5, <2>2 DEF Irq
      <3> QED
        BY <3>1, IrqCallFacts
    <2> QED
      BY <1>0, <2>1, <2>2, <2>3, NextCallSettings
  <1>6. CASE MacSend
    <2>1. todo = <<>> /\ ~ failed /\ chip' = chip /\ cur' = cur /\ todo' = Send
      BY <1>6 DEF MacSend, At, wait_busy_fails
    <2>2. Send \in Seq(Command) /\ \A i \in DOMAIN Send : Send[i].op # "SET"
      BY SendFacts
    <2> QED
      BY <1>0, <2>1, <2>2, NextCallSettings
  <1>7. CASE WaitTick
    <2>1. todo = <<>> /\ ~ failed
      BY <1>7 DEF WaitTick, At, wait_busy_fails
    <2>2. chip' \in ChipState /\ chip'.reg = chip.reg
      <3>1. PICK n \in 1 .. 1 + BeaconTicks : Passes(n)
        BY <1>7, WaitPasses
      <3>2. n \in Nat \ {0}
        OBVIOUS
      <3> QED
        BY <1>0, <3>1, <3>2, TickFacts DEF Passes
    <2>3. NoCommand \/ \E p \in Param, v \in Value : SetCommand(p, v)
      BY <1>7, WaitPasses
    <2> QED
      BY <1>0, <2>1, <2>2, <2>3, NextCallSettings
  <1>8. CASE WaitDone
    <2>1. todo = <<>> /\ ~ failed /\ chip' = chip /\ cur' = cur
      BY <1>8 DEF WaitDone, At
    <2>2. PICK first \in {<<>>, <<Clear({"TX_DONE"})>>} : todo' = first \o radio_start_rx
      BY <1>8 DEF WaitDone
    <2>3. PICK t : t = todo'
      OBVIOUS
    <2>4. t \in Seq(Command) /\ \A i \in DOMAIN t : t[i].op \notin {"SET", "TX"}
      BY <2>2, <2>3, WaitDoneFacts
    <2>5. \A i \in DOMAIN t : t[i].op # "SET"
      BY <2>4
    <2> QED
      BY <1>0, <2>1, <2>3, <2>4, <2>5, NextCallSettings
  <1>9. CASE BootState
    <2>1. todo' = InitCalls /\ chip' = ResetChip /\ cur' = [p \in Param |-> Stored]
      BY <1>9 DEF BootState
    <2> QED
      BY <2>1, StoredSettingsComing
  <1>10. CASE FrameArrives
    <2>1. ~ failed /\ todo' = todo /\ cur' = cur
      BY <1>10 DEF FrameArrives
    <2>2. chip'.reg = chip.reg /\ chip'.mode = chip.mode
      BY <1>10, FrameFacts
    <2> QED
      BY <2>1, <2>2 DEF SettingsInv, SettingsComing, SetInStandby
  <1>11. Top \/ TimerIdle \/ MacIdle \/ Hangs \/ UNCHANGED vars
            => UNCHANGED <<todo, chip, failed, cur>>
    BY DEF Top, TimerIdle, MacIdle, Hangs, vars
  <1>12. UsbReset \/ WatchdogBites => BootState
    BY DEF UsbReset, WatchdogBites
  <1> QED
    BY <1>1, <1>2, <1>3, <1>4, <1>5, <1>6, <1>7, <1>8, <1>9, <1>10, <1>11, <1>12
       DEF Next, Processor, Runs


----------------------------------------------------------------------------
(* The receiver. *)

\* The next command brings the receiver closer, a the antenna before and b after.
LEMMA IssueBringsRx ==
    ASSUME NEW c \in ChipState, NEW t \in Seq(Command), t # <<>>, NEW a, NEW b,
           WillListen(t, c, a),
           Head(t).op = "RX" => b = "RX",
           Head(t).op \notin {"STANDBY", "RX", "TX"} => b = a
    PROVE  WillListen(Tail(t), Obey(c, Head(t)), b)
  <1>1. PICK cmd \in Command, u \in Seq(Command), d \in ChipState :
           cmd = Head(t) /\ u = Tail(t) /\ d = Obey(c, cmd)
    BY RestOfCall, ObeyFacts
  <1>2. /\ cmd = t[1] /\ 1 \in DOMAIN t
        /\ Len(t) \in Nat \ {0} /\ Len(u) = Len(t) - 1
        /\ DOMAIN t = 1 .. Len(t) /\ DOMAIN u = 1 .. Len(t) - 1
        /\ \A i \in DOMAIN u : u[i] = t[i + 1] /\ i + 1 \in DOMAIN t
    BY <1>1, RestOfCall
  <1>3. /\ d.mode = IF cmd.op \in {"STANDBY", "RX", "TX"} THEN cmd.op ELSE c.mode
        /\ d.mask = IF cmd.op = "MASK" THEN cmd.flags ELSE c.mask
    BY <1>1, ObeyFacts
  <1>4. \A i \in DOMAIN u :
          /\ u[i].op # "TX"
          /\ u[i].op = "MASK" => u[i].flags = {"RX_DONE"}
    BY <1>2 DEF WillListen
  <1>5. cmd.op # "TX" /\ (cmd.op = "MASK" => cmd.flags = {"RX_DONE"})
    BY <1>2 DEF WillListen
  <1>6. "RX_DONE" \in d.mask \/ \E i \in DOMAIN u : u[i].op = "MASK"
    <2>1. CASE cmd.op = "MASK"
      BY <1>3, <1>5, <2>1
    <2>2. CASE cmd.op # "MASK" /\ "RX_DONE" \in c.mask
      BY <1>3, <2>2
    <2>3. CASE cmd.op # "MASK" /\ \E i \in DOMAIN t : t[i].op = "MASK"
      <3>1. PICK i \in DOMAIN t : t[i].op = "MASK"
        BY <2>3
      <3>2. i - 1 \in DOMAIN u /\ (i - 1) + 1 = i
        BY <1>2, <2>3, <3>1
      <3>3. u[i - 1] = t[i]
        BY <1>2, <3>2
      <3> QED
        BY <3>1, <3>2, <3>3
    <2> QED
      BY <2>1, <2>2, <2>3 DEF WillListen
  <1>7. \/ /\ d.mode = "RX" /\ b = "RX"
           /\ \A i \in DOMAIN u : u[i].op # "STANDBY"
        \/ u # <<>> /\ u[Len(u)] = Rx
    <2>1. CASE c.mode = "RX" /\ a = "RX" /\ \A i \in DOMAIN t : t[i].op # "STANDBY"
      <3>1. cmd.op # "STANDBY" /\ \A i \in DOMAIN u : u[i].op # "STANDBY"
        BY <1>2, <2>1
      <3>2. d.mode = "RX" /\ b = "RX"
        BY <1>1, <1>3, <1>5, <2>1, <3>1
      <3> QED
        BY <3>1, <3>2
    <2>2. CASE t[Len(t)] = Rx /\ Len(t) = 1
      <3>1. DOMAIN u = {}
        BY <1>2, <2>2
      <3>2. cmd.op = "RX"
        BY <1>2, <2>2 DEF Rx
      <3> QED
        BY <1>1, <1>3, <3>1, <3>2
    <2>3. CASE t[Len(t)] = Rx /\ Len(t) # 1
      <3>1. Len(u) \in DOMAIN u /\ Len(u) + 1 = Len(t) /\ Len(u) # 0
        BY <1>2, <2>3
      <3>2. u[Len(u)] = Rx
        BY <1>2, <2>3, <3>1
      <3>3. u # <<>>
        <4>1. Len(<<>>) = 0
          BY EmptySeq
        <4> QED
          BY <3>1, <4>1, Zenon
      <3> QED
        BY <3>2, <3>3
    <2> QED
      BY <2>1, <2>2, <2>3 DEF WillListen
  <1> QED
    BY <1>1, <1>4, <1>6, <1>7 DEF WillListen

\* What a receiver that is on, no command left, stays through.
LEMMA ListeningStays ==
    ASSUME NEW c \in ChipState, NEW a, WillListen(<<>>, c, a),
           NEW t \in Seq(Command), \A i \in DOMAIN t : t[i].op = "CLEAR"
    PROVE  WillListen(t, c, a)
  <1>1. DOMAIN <<>> = {}
    BY EmptySeq, LenProperties
  <1> QED
    BY <1>1 DEF WillListen

\* A call that ends with RX switches the receiver on, whatever came before.
LEMMA EndsWithRx ==
    ASSUME NEW c, NEW a, NEW t \in Seq(Command), t # <<>>, t[Len(t)] = Rx,
           \A i \in DOMAIN t : /\ t[i].op # "TX"
                               /\ t[i].op = "MASK" => t[i].flags = {"RX_DONE"},
           \E i \in DOMAIN t : t[i].op = "MASK"
    PROVE  WillListen(t, c, a)
  BY DEF WillListen

\* Every step keeps the receiver coming.
LEMMA ListenStep == TypeOK /\ ListenInv /\ [Next]_vars => ListenInv'
  <1> SUFFICES ASSUME TypeOK, ListenInv, [Next]_vars,
                      ok', ~ failed', pc' \notin {"INIT", "WAIT"}
               PROVE  WillListen(todo', chip', pins')
    BY DEF ListenInv
  <1>0. chip \in ChipState /\ todo \in Seq(Command)
    BY DEF TypeOK
  <1>1. CASE Issue
    <2>1. /\ ~ failed /\ ok /\ pc \notin {"INIT", "WAIT"} /\ todo # <<>>
          /\ chip' = Obey(chip, Head(todo)) /\ todo' = Tail(todo)
          /\ pins' = Switch(Head(todo))
      BY <1>1 DEF Issue, wait_busy_fails
    <2>2. WillListen(todo, chip, pins)
      BY <2>1 DEF ListenInv
    <2>3. Head(todo).op = "RX" => pins' = "RX"
      BY <2>1 DEF Switch
    <2>4. Head(todo).op \notin {"STANDBY", "RX", "TX"} => pins' = pins
      BY <2>1 DEF Switch
    <2> QED
      BY <1>0, <2>1, <2>2, <2>3, <2>4, IssueBringsRx
  <1>2. CASE InitDone
    <2>1. todo' = start_rx
      BY <1>2 DEF InitDone
    <2>2. PICK t \in Seq(Command) : t = start_rx
      BY StartRxFacts
    <2>3. /\ Len(t) = 4 /\ t[4] = Rx
          /\ DOMAIN t = 1 .. Len(t) /\ t[2].op = "MASK"
          /\ \A i \in DOMAIN t : /\ t[i].op # "TX"
                                 /\ t[i].op = "MASK" => t[i].flags = {"RX_DONE"}
      BY <2>2, StartRxFacts, LenProperties DEF Mask
    <2>4. t # <<>>
      <3>1. Len(<<>>) = 0 /\ Len(t) # 0
        BY <2>3, EmptySeq
      <3> QED
        BY <3>1, Zenon
    <2>5. t[Len(t)] = Rx /\ 2 \in DOMAIN t
      BY <2>3
    <2>6. WillListen(t, chip', pins')
      BY <2>3, <2>4, <2>5, EndsWithRx
    <2> QED
      BY <2>1, <2>2, <2>6
  <1>3. ASSUME \E p \in Param, v \in Value : SetCommand(p, v), ok
        PROVE  WillListen(todo', chip', pins')
    <2>1. PICK p \in Param, v \in Value : todo' = SetRadio(p, v)
      BY <1>3 DEF SetCommand
    <2>2. PICK t : t = SetRadio(p, v)
      OBVIOUS
    <2>3. /\ t \in Seq(Command) /\ t # <<>> /\ t[Len(t)] = Rx
          /\ \A i \in DOMAIN t : /\ t[i].op # "TX"
                                 /\ t[i].op = "MASK" => t[i].flags = {"RX_DONE"}
          /\ \E i \in DOMAIN t : t[i].op = "MASK"
      BY <1>3, <2>2, SetRadioFacts
    <2> QED
      BY <2>1, <2>2, <2>3, EndsWithRx
  <1>4. CASE Usb \/ TimerBeacon
    <2>4. todo = <<>> /\ pc \notin {"INIT", "WAIT"} /\ chip' = chip /\ pins' = pins
      BY <1>4 DEF Usb, TimerBeacon, At
    <2>5. ok' = ok /\ failed' = failed
      BY <1>4, Zenon DEF Usb, TimerBeacon
    <2>1. /\ todo = <<>> /\ ~ failed /\ ok /\ pc \notin {"INIT", "WAIT"}
          /\ chip' = chip /\ pins' = pins
      BY <2>4, <2>5, Zenon
    <2>2. CASE NoCommand
      <3>1. todo' = todo
        BY <2>2 DEF NoCommand
      <3> QED
        BY <2>1, <3>1 DEF ListenInv
    <2>3. NoCommand \/ \E p \in Param, v \in Value : SetCommand(p, v)
      BY <1>4 DEF Usb, TimerBeacon
    <2> QED
      BY <1>3, <2>1, <2>2, <2>3
  <1>5. CASE Irq
    <2>1. /\ todo = <<>> /\ ~ failed /\ ok /\ pc \notin {"INIT", "WAIT"}
          /\ chip' = chip /\ pins' = pins
      BY <1>5 DEF Irq, At
    <2>2. WillListen(<<>>, chip, pins)
      BY <2>1 DEF ListenInv
    <2>3. PICK t : t = todo'
      OBVIOUS
    <2>4. t \in Seq(Command) /\ \A i \in DOMAIN t : t[i].op = "CLEAR"
      <3>1. \/ t = <<>>
            \/ t = <<Clear({"RX_DONE"}), Clear(Flag)>>
            \/ t = <<Clear({"TX_DONE"}), Clear(Flag)>>
        BY <1>5, <2>3 DEF Irq
      <3> QED
        BY <3>1, IrqCallFacts
    <2> QED
      BY <1>0, <2>1, <2>2, <2>3, <2>4, ListeningStays
  <1>6. CASE WaitDone
    <2>1. ok
      BY <1>6 DEF WaitDone
    <2>2. PICK first \in {<<>>, <<Clear({"TX_DONE"})>>} : todo' = first \o radio_start_rx
      BY <1>6 DEF WaitDone
    <2>3. PICK t : t = todo'
      OBVIOUS
    <2>4. /\ t \in Seq(Command) /\ t # <<>> /\ t[Len(t)] = Rx
          /\ \A i \in DOMAIN t : /\ t[i].op # "TX"
                                 /\ t[i].op = "MASK" => t[i].flags = {"RX_DONE"}
          /\ \E i \in DOMAIN t : t[i].op = "MASK"
      <3>1. t = first \o radio_start_rx
        BY <2>2, <2>3
      <3>2. t \in Seq(Command) /\ t # <<>> /\ t[Len(t)] = Rx
            /\ \E i \in DOMAIN t : t[i].op = "MASK"
        BY <2>1, <3>1, WaitDoneFacts
      <3>3. \A i \in DOMAIN t :
              /\ t[i].op \notin {"SET", "TX"}
              /\ t[i].op = "MASK" => t[i].flags = {"RX_DONE"}
        BY <3>1, WaitDoneFacts
      <3> QED
        BY <3>2, <3>3
    <2> QED
      BY <2>3, <2>4, EndsWithRx
  <1>7. CASE FrameArrives
    <2>1. /\ ~ failed /\ ok /\ pc \notin {"INIT", "WAIT"}
          /\ todo' = todo /\ pins' = pins
      BY <1>7 DEF FrameArrives
    <2>2. chip'.mode = chip.mode /\ chip'.mask = chip.mask
      BY <1>7, FrameFacts
    <2> QED
      BY <2>1, <2>2 DEF ListenInv, WillListen
  <1>8. CASE Top \/ TimerIdle \/ MacIdle \/ Hangs \/ UNCHANGED vars
    <2>2. pc \notin {"INIT", "WAIT"} /\ todo' = todo /\ chip' = chip /\ pins' = pins
      BY <1>8 DEF Top, TimerIdle, MacIdle, Hangs, vars, At
    <2>3. ok' = ok /\ failed' = failed
      BY <1>8, Zenon DEF Top, TimerIdle, MacIdle, Hangs, vars
    <2>1. /\ ~ failed /\ ok /\ pc \notin {"INIT", "WAIT"}
          /\ todo' = todo /\ chip' = chip /\ pins' = pins
      BY <2>2, <2>3, Zenon
    <2> QED
      BY <2>1 DEF ListenInv
  <1>9. UsbReset \/ WatchdogBites \/ MacSend \/ WaitTick => pc' \in {"INIT", "WAIT"}
    BY DEF UsbReset, WatchdogBites, BootState, MacSend, WaitTick, At
  <1> QED
    BY <1>1, <1>2, <1>4, <1>5, <1>6, <1>7, <1>8, <1>9 DEF Next, Processor, Runs


\* The invariants hold when the processor starts.
LEMMA InitInv == Init => SettingsInv /\ ListenInv /\ HealthyInv
  <1> SUFFICES ASSUME Init
               PROVE  SettingsInv /\ ListenInv /\ HealthyInv
    OBVIOUS
  <1>1. pc = "INIT" /\ todo = InitCalls /\ chip = ResetChip
        /\ cur = [p \in Param |-> Stored] /\ dog = 0 /\ waits = 0
    BY DEF Init
  <1>2. SettingsInv
    BY <1>1, StoredSettingsComing DEF SettingsInv
  <1>3. ListenInv
    BY <1>1 DEF ListenInv
  <1>4. HealthyInv
    BY <1>1, TickAssumption DEF HealthyInv
  <1> QED
    BY <1>2, <1>3, <1>4

\* Whatever calls came before, and whichever of them was nested in which, a
\* driver that has not failed listens at the top of the loop, with the antenna,
\* the interrupt and the settings it reports: for every set of parameters and
\* values, and every time a frame, a beacon and the watchdog take.
THEOREM AlwaysListensAsReported == Spec => []ListensAsReported
  <1>1. TypeOK /\ SettingsInv /\ ListenInv => ListensAsReported
    <2> SUFFICES ASSUME TypeOK, SettingsInv, ListenInv, At("TOP"), ok, ~ failed
                 PROVE  /\ chip.mode = "RX" /\ "RX_DONE" \in chip.mask
                        /\ pins = "RX"
                        /\ chip.reg = cur
      BY DEF ListensAsReported
    <2>1. pc = "TOP" /\ todo = <<>>
      BY DEF At
    <2>2. SettingsComing(<<>>, chip, cur) /\ WillListen(<<>>, chip, pins)
      BY <2>1 DEF SettingsInv, ListenInv
    <2>3. chip.reg = cur
      BY <2>2, NothingComing DEF TypeOK
    <2>4. DOMAIN <<>> = {}
      BY EmptySeq, LenProperties
    <2>5. chip.mode = "RX" /\ "RX_DONE" \in chip.mask /\ pins = "RX"
      BY <2>2, <2>4 DEF WillListen
    <2> QED
      BY <2>3, <2>5
  <1>2. Init => TypeOK /\ SettingsInv /\ ListenInv
    BY BootTypes, InitInv
  <1> QED
    BY <1>1, <1>2, TypeStep, SettingsStep, ListenStep, PTL DEF Spec

----------------------------------------------------------------------------
(* The watchdog. *)

\* The next command brings the transmission closer, the last one starts it.
LEMMA IssueBringsTx ==
    ASSUME NEW c \in ChipState, NEW t \in Seq(Command), t # <<>>, WillSend(t, c)
    PROVE  IF Tail(t) = <<>> THEN OnTheAir(Obey(c, Head(t)), 0)
           ELSE WillSend(Tail(t), Obey(c, Head(t)))
  <1>1. PICK cmd \in Command, u \in Seq(Command), d \in ChipState :
           cmd = Head(t) /\ u = Tail(t) /\ d = Obey(c, cmd)
    BY RestOfCall, ObeyFacts
  <1>2. /\ cmd = t[1] /\ 1 \in DOMAIN t
        /\ Len(t) \in Nat \ {0} /\ Len(u) = Len(t) - 1
        /\ DOMAIN t = 1 .. Len(t) /\ DOMAIN u = 1 .. Len(t) - 1
        /\ \A i \in DOMAIN u : u[i] = t[i + 1] /\ i + 1 \in DOMAIN t
    BY <1>1, RestOfCall
  <1>3. /\ d.mode = IF cmd.op \in {"STANDBY", "RX", "TX"} THEN cmd.op ELSE c.mode
        /\ d.mask = IF cmd.op = "MASK" THEN cmd.flags ELSE c.mask
        /\ d.air = IF cmd.op = "TX" THEN AirTicks ELSE c.air
    BY <1>1, ObeyFacts
  <1>4. CASE Len(t) = 1
    <2>1. u = <<>>
      BY <1>1, <1>2, <1>4, EmptySeq
    <2>2. cmd = Tx /\ cmd.op = "TX"
      BY <1>2, <1>4 DEF WillSend, Tx
    <2>3. "TX_DONE" \in c.mask
      <3>1. \A i \in DOMAIN t : i = 1
        BY <1>2, <1>4
      <3> QED
        BY <1>2, <2>2, <3>1 DEF WillSend
    <2>4. d.mode = "TX" /\ "TX_DONE" \in d.mask /\ d.air = AirTicks
      BY <1>3, <2>2, <2>3
    <2>5. AirTicks > 0 /\ 0 + AirTicks = AirTicks
      BY TickAssumption
    <2>6. OnTheAir(d, 0)
      BY <2>4, <2>5 DEF OnTheAir
    <2> QED
      BY <1>1, <2>1, <2>6
  <1>5. CASE Len(t) # 1
    <2>1. Len(u) \in DOMAIN u /\ Len(u) + 1 = Len(t) /\ Len(u) # 0
      BY <1>2, <1>5
    <2>2. u # <<>>
      <3>1. Len(<<>>) = 0
        BY EmptySeq
      <3> QED
        BY <2>1, <3>1, Zenon
    <2>3. u[Len(u)] = Tx
      BY <1>2, <2>1 DEF WillSend
    <2>4. \A i \in DOMAIN u : u[i].op = "MASK" => u[i].flags = {"TX_DONE"}
      BY <1>2 DEF WillSend
    <2>5. cmd.op = "MASK" => cmd.flags = {"TX_DONE"}
      BY <1>2 DEF WillSend
    <2>6. "TX_DONE" \in d.mask \/ \E i \in DOMAIN u : u[i].op = "MASK"
      <3>1. CASE cmd.op = "MASK"
        BY <1>3, <2>5, <3>1
      <3>2. CASE cmd.op # "MASK" /\ "TX_DONE" \in c.mask
        BY <1>3, <3>2
      <3>3. CASE cmd.op # "MASK" /\ \E i \in DOMAIN t : t[i].op = "MASK"
        <4>1. PICK i \in DOMAIN t : t[i].op = "MASK"
          BY <3>3
        <4>2. i - 1 \in DOMAIN u /\ (i - 1) + 1 = i
          BY <1>2, <3>3, <4>1
        <4>3. u[i - 1] = t[i]
          BY <1>2, <4>2
        <4> QED
          BY <4>1, <4>2, <4>3
      <3> QED
        BY <3>1, <3>2, <3>3 DEF WillSend
    <2>7. WillSend(u, d)
      BY <2>3, <2>4, <2>6 DEF WillSend
    <2> QED
      BY <1>1, <2>2, <2>7
  <1> QED
    BY <1>4, <1>5

\* Time of a frame on the air, TX_DONE not seen yet, d ticks after the watchdog was
\* kicked: the loop has waited w of them.
LEMMA TickOnTheAir ==
    ASSUME NEW c \in ChipState, NEW d \in Nat, NEW w \in Nat, NEW n \in Nat \ {0},
           OnTheAir(c, d), w <= d, "TX_DONE" \notin c.flags
    PROVE  OnTheAir(AirTime(c, n), d + n) /\ w + 1 <= AirTicks /\ w + 1 <= d + n
  <1>1. /\ c.mode = "TX" /\ "TX_DONE" \in c.mask
        /\ c.air > 0 /\ d + c.air = AirTicks
        /\ c.air \in 0 .. AirTicks /\ AirTicks \in Nat
    BY TickAssumption DEF OnTheAir, ChipState
  <1>2. w + 1 <= AirTicks /\ w + 1 <= d + n
    BY <1>1
  <1>3. CASE c.air > n
    <2>1. AirTime(c, n).mode = "TX" /\ AirTime(c, n).air = c.air - n
          /\ AirTime(c, n).mask = c.mask
      BY <1>1, <1>3, TickFacts
    <2>2. c.air - n > 0 /\ (d + n) + (c.air - n) = AirTicks
      BY <1>1, <1>3
    <2> QED
      BY <1>1, <1>2, <2>1, <2>2 DEF OnTheAir
  <1>4. CASE c.air <= n
    <2>1. "TX_DONE" \in AirTime(c, n).flags
      BY <1>1, <1>4, TickFacts
    <2> QED
      BY <1>2, <2>1 DEF OnTheAir
  <1>5. c.air > n \/ c.air <= n
    BY <1>1
  <1> QED
    BY <1>3, <1>4, <1>5

\* Every step keeps an undisturbed transmission within its time.
LEMMA HealthyStep == TypeOK /\ HealthyInv /\ [Next]_vars => HealthyInv'
  <1> SUFFICES ASSUME TypeOK, HealthyInv, [Next]_vars, ~ failed', ~ cut'
               PROVE  /\ waits' <= AirTicks
                      /\ pc' = "WAIT" =>
                            IF todo' = <<>> THEN waits' <= dog' /\ OnTheAir(chip', dog')
                            ELSE dog' = 0 /\ waits' = 0 /\ WillSend(todo', chip')
    BY DEF HealthyInv
  <1>0. chip \in ChipState /\ todo \in Seq(Command) /\ dog \in Nat /\ waits \in Nat
        /\ 0 <= AirTicks
    BY TickAssumption DEF TypeOK
  <1>1. CASE Issue
    <2>1. /\ ~ failed /\ ~ cut /\ todo # <<>>
          /\ chip' = Obey(chip, Head(todo)) /\ todo' = Tail(todo)
          /\ pc' = pc /\ dog' = dog /\ waits' = waits
      BY <1>1 DEF Issue, wait_busy_fails
    <2>2. waits <= AirTicks
      BY <2>1 DEF HealthyInv
    <2>3. ASSUME pc = "WAIT"
          PROVE  IF todo' = <<>> THEN waits' <= dog' /\ OnTheAir(chip', dog')
                 ELSE dog' = 0 /\ waits' = 0 /\ WillSend(todo', chip')
      <3>1. dog = 0 /\ waits = 0 /\ WillSend(todo, chip)
        BY <2>1, <2>3 DEF HealthyInv
      <3>2. IF Tail(todo) = <<>> THEN OnTheAir(Obey(chip, Head(todo)), 0)
            ELSE WillSend(Tail(todo), Obey(chip, Head(todo)))
        BY <1>0, <2>1, <3>1, IssueBringsTx
      <3> QED
        BY <2>1, <3>1, <3>2
    <2> QED
      BY <2>1, <2>2, <2>3
  <1>2. CASE MacSend
    <2>1. pc' = "WAIT" /\ dog' = 0 /\ waits' = 0 /\ todo' = Send
      BY <1>2 DEF MacSend
    <2>2. Send # <<>> /\ WillSend(Send, chip')
      BY SendFacts DEF WillSend
    <2> QED
      BY <1>0, <2>1, <2>2
  <1>3. CASE WaitTick
    <2>1. /\ pc = "WAIT" /\ todo = <<>> /\ waits' = waits + 1
          /\ "TX_DONE" \notin irq_status
      BY <1>3 DEF WaitTick, At
    <2>2. ~ failed /\ ~ stuck
      BY <1>3 DEF WaitTick, wait_busy_fails
    <2>3. PICK n \in 1 .. 1 + BeaconTicks : Passes(n)
      BY <1>3, WaitPasses
    <2>4. n \in Nat \ {0}
      OBVIOUS
    <2>5. chip' = AirTime(chip, n) /\ dog' = dog + n /\ "TX_DONE" \notin chip.flags
      <3>1. chip' = AirTime(chip, n) /\ dog' = dog + n
        BY <2>2, <2>3, Zenon DEF Passes
      <3>2. irq_status = chip.flags
        BY <2>2, Zenon DEF irq_status, wait_busy_fails
      <3>3. "TX_DONE" \notin irq_status
        BY <2>1
      <3> QED
        BY <3>1, <3>2, <3>3, Zenon
    <2>6. ~ cut /\ todo' = todo
      <3>1. \/ NoCommand /\ UNCHANGED <<queued, cut>>
            \/ NoCommand /\ cut' = cut
            \/ cut' = TRUE
        BY <1>3, Zenon DEF WaitTick
      <3>2. NoCommand /\ cut' = cut
        BY <3>1
      <3> QED
        BY <3>2 DEF NoCommand
    <2>7. OnTheAir(chip, dog) /\ waits <= dog
      BY <2>1, <2>2, <2>6 DEF HealthyInv
    <2>8. OnTheAir(AirTime(chip, n), dog + n) /\ waits + 1 <= AirTicks /\ waits + 1 <= dog + n
      BY <1>0, <2>4, <2>5, <2>7, TickOnTheAir
    <2> QED
      BY <2>1, <2>5, <2>6, <2>8
  <1>4. CASE BootState
    BY <1>0, <1>4 DEF BootState
  <1>5. CASE FrameArrives
    <2>1. /\ ~ failed /\ ~ cut /\ dog' = dog /\ waits' = waits /\ pc' = pc /\ todo' = todo
      BY <1>5 DEF FrameArrives
    <2>2. /\ chip'.mode = chip.mode /\ chip'.mask = chip.mask
          /\ chip'.air = chip.air /\ chip.flags \subseteq chip'.flags
      BY <1>5, FrameFacts
    <2> QED
      BY <2>1, <2>2 DEF HealthyInv, OnTheAir, WillSend
  <1>6. CASE InitDone \/ Top \/ Usb \/ TimerIdle \/ TimerBeacon \/ Irq \/ MacIdle \/ WaitDone
    <2>1. pc' # "WAIT"
      BY <1>6 DEF InitDone, Top, Usb, TimerIdle, TimerBeacon, AfterTimer, Irq, MacIdle, WaitDone
    <2>2. failed' = failed /\ cut' = cut
      BY <1>6, Zenon DEF InitDone, Top, Usb, TimerIdle, TimerBeacon, Irq, MacIdle, WaitDone
    <2>3. waits' = waits
      BY <1>6, Zenon DEF InitDone, Top, Usb, TimerIdle, TimerBeacon, Irq, MacIdle, WaitDone
    <2>4. waits <= AirTicks
      BY <2>2 DEF HealthyInv
    <2> QED
      BY <2>1, <2>3, <2>4
  <1>7. CASE Hangs \/ UNCHANGED vars
    <2>1. /\ ~ failed /\ ~ cut
          /\ dog' = dog /\ waits' = waits /\ pc' = pc /\ todo' = todo /\ chip' = chip
      BY <1>7 DEF Hangs, vars
    <2> QED
      BY <2>1 DEF HealthyInv
  <1>8. UsbReset \/ WatchdogBites => BootState
    BY DEF UsbReset, WatchdogBites
  <1> QED
    BY <1>1, <1>2, <1>3, <1>4, <1>5, <1>6, <1>7, <1>8 DEF Next, Processor, Runs

\* The watchdog bites in radio_send only if the chip hung, or a command changed the
\* radio in the middle of the transmission, or the beacons that ran in its loop took
\* what the frame leaves of the watchdog's period or more: for every time on the air,
\* every period of the watchdog and every time beacons take.
THEOREM HealthyNeverBitten == Spec => []HealthyIsNotBitten
  <1>1. TypeOK /\ HealthyInv => HealthyIsNotBitten
    <2> SUFFICES ASSUME TypeOK, HealthyInv, dog >= WatchdogTicks, ~ failed, ~ cut
                 PROVE  AirTicks + (dog - waits) >= WatchdogTicks
      BY DEF HealthyIsNotBitten, Bitten, Nested
    <2>1. waits <= AirTicks
      BY DEF HealthyInv
    <2>2. dog \in Int /\ waits \in Int /\ AirTicks \in Int /\ WatchdogTicks \in Int
      BY TickAssumption DEF TypeOK
    <2> QED
      BY <2>1, <2>2
  <1>2. Init => TypeOK /\ HealthyInv
    BY BootTypes, InitInv
  <1> QED
    BY <1>1, <1>2, TypeStep, HealthyStep, PTL DEF Spec

=============================================================================
