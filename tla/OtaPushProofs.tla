---------------------------- MODULE OtaPushProofs ----------------------------
(***************************************************************************)
(* What a pending image rests on, and what the operator of a lone push is  *)
(* told, for every number of drivers, images, chunks, attempts and power   *)
(* failures.                                                               *)
(***************************************************************************)
EXTENDS OtaPush, TLAPS

USE OtaPushAssumption

(***************************************************************************)
(* Types.                                                                  *)
(***************************************************************************)

\* A link takes what it has room for.
LEMMA SentType ==
    ASSUME NEW S, NEW link \in Seq(S), Len(link) <= LinkDepth, NEW m \in S
    PROVE  Sent(link, m) \in Seq(S) /\ Len(Sent(link, m)) <= LinkDepth
BY DEF Sent

\* A link from which a message was taken.
LEMMA TakenType ==
    ASSUME NEW S, NEW link \in Seq(S), Len(link) <= LinkDepth, link # <<>>
    PROVE  Tail(link) \in Seq(S) /\ Len(Tail(link)) <= LinkDepth /\ Head(link) \in S
OBVIOUS

\* An answer leaves the links to the drivers well formed.
LEMMA AnswerType ==
    ASSUME LinkOK, NEW p \in Pusher, cmds[p] # <<>>, cmds' = [cmds EXCEPT ![p] = Tail(@)],
           NEW op \in Active, NEW status \in Status, NEW c \in Nat,
           Answer(op, status, c)
    PROVE  LinkOK'
<1> DEFINE a == [op |-> op, status |-> status, chunk |-> c]
<1>1. a \in Ack
  BY DEF Ack
<1>2. \A q \in Pusher : Sent(acks[q], a) \in Seq(Ack) /\ Len(Sent(acks[q], a)) <= LinkDepth
  BY <1>1, SentType DEF LinkOK
<1>3. acks' \in [Pusher -> Seq(Ack)] /\ \A q \in Pusher : Len(acks'[q]) <= LinkDepth
  BY <1>2 DEF Answer, LinkOK
<1>4. Tail(cmds[p]) \in Seq(Command) /\ Len(Tail(cmds[p])) <= LinkDepth
  BY TakenType DEF LinkOK
<1>5. QED BY <1>3, <1>4 DEF LinkOK

\* A command that arrives is well formed, and leaves a well-formed link.
LEMMA ArrivalType ==
    ASSUME LinkOK, NEW p \in Pusher, NEW op, Arrives(p, op)
    PROVE  /\ Head(cmds[p]).image \in Image
           /\ Head(cmds[p]).chunk \in Nat
           /\ cmds[p] # <<>>
           /\ cmds' = [cmds EXCEPT ![p] = Tail(@)]
           /\ acks' = acks => LinkOK'
<1>1. cmds[p] # <<>> /\ cmds' = [cmds EXCEPT ![p] = Tail(@)]
  BY DEF Arrives
<1>2. /\ Tail(cmds[p]) \in Seq(Command) /\ Len(Tail(cmds[p])) <= LinkDepth
      /\ Head(cmds[p]) \in Command
  BY <1>1, TakenType DEF LinkOK
<1>3. Head(cmds[p]).image \in Image /\ Head(cmds[p]).chunk \in Nat
  BY <1>2 DEF Command
<1>4. acks' = acks => LinkOK'
  BY <1>1, <1>2 DEF LinkOK
<1>5. QED BY <1>1, <1>3, <1>4

\* Drivers, links and node start in their types.
LEMMA InitType == Init => TypeOK
<1> SUFFICES ASSUME Init PROVE TypeOK
  OBVIOUS
<1>1. DriverOK
  <2>1. phase \in [Pusher -> Phase] /\ job \in [Pusher -> Image]
    BY DEF Init, Phase
  <2>2. off \in [Pusher -> Nat] /\ tries \in [Pusher -> 0 .. MaxTries]
    BY DEF Init
  <2>3. waiting \in [Pusher -> BOOLEAN] /\ \A p \in Pusher : ~ waiting[p]
    <3>1. waiting = [p \in Pusher |-> FALSE]
      BY DEF Init
    <3>2. waiting \in [Pusher -> BOOLEAN]
      BY <3>1
    <3>3. \A p \in Pusher : ~ waiting[p]
      BY <3>1, Zenon
    <3>4. QED BY <3>2, <3>3
  <2>4. jobs \in 0 .. MaxJobs
    BY DEF Init
  <2>5. overlapped \in BOOLEAN
    BY DEF Init
  <2>6. QED BY <2>1, <2>2, <2>3, <2>4, <2>5 DEF DriverOK
<1>2. LinkOK
  BY DEF Init, LinkOK
<1>3. NodeOK
  <2>1. app \in Flash
    BY DEF Init, Flash, Chunk
  <2>2. bank \in Flash
    BY DEF Init, Blank, Flash, Chunk
  <2>3. mode \in {"IDLE", "READY", "RECEIVING"} /\ (mode = "IDLE" <=> expected = 0)
    BY DEF Init
  <2>4. reboot \in BOOLEAN /\ power \in {"RUN", "BOOT", "COPY", "DEAD"} /\ version \in Image
    BY DEF Init
  <2>5. /\ expected \in 0 .. MaxSize /\ pending \in 0 .. MaxSize /\ copied \in 0 .. MaxSize
        /\ losses \in 0 .. MaxPowerLosses
    BY DEF Init
  <2>6. trampled = FALSE /\ cut = FALSE
    BY DEF Init
  <2>7. QED BY <2>1, <2>2, <2>3, <2>4, <2>5, <2>6 DEF NodeOK
<1>4. QED BY <1>1, <1>2, <1>3 DEF TypeOK

\* A step of a driver keeps them.
LEMMA DriverType ==
    ASSUME TypeOK, NEW p \in Pusher, Driver(p)
    PROVE  TypeOK'
<1>1. CASE Start(p)
  <2>1. PICK i \in Image : job' = [job EXCEPT ![p] = i]
    BY <1>1 DEF Start
  <2>2. DriverOK'
    <3>1. overlapped' \in BOOLEAN
      BY <1>1, Zenon DEF Start
    <3>2. QED BY <1>1, <2>1, <3>1 DEF Start, TypeOK, DriverOK, Phase, Active
  <2>3. QED BY <1>1, <2>2 DEF Start, TypeOK, LinkOK, NodeOK,
                              linkvars, ramvars, flashvars, bootvars, history
<1>2. CASE Attempt(p)
  <2> DEFINE m == [op |-> phase[p], image |-> job[p], chunk |-> off[p]]
  <2>1. m \in Command
    BY <1>2 DEF Attempt, TypeOK, DriverOK, Command
  <2>2. Sent(cmds[p], m) \in Seq(Command) /\ Len(Sent(cmds[p], m)) <= LinkDepth
    BY <2>1, SentType DEF TypeOK, LinkOK
  <2>3. LinkOK'
    BY <1>2, <2>2 DEF Attempt, TypeOK, LinkOK
  <2>4. DriverOK'
    BY <1>2 DEF Attempt, TypeOK, DriverOK
  <2>5. NodeOK'
    BY <1>2 DEF Attempt, TypeOK, NodeOK, ramvars, flashvars, bootvars, history
  <2>6. QED BY <2>3, <2>4, <2>5 DEF TypeOK
<1>3. CASE Timeout(p)
  <2>1. LinkOK /\ NodeOK /\ UNCHANGED <<linkvars, ramvars, flashvars, bootvars, history>>
    BY <1>3 DEF Timeout, TypeOK
  <2>2. LinkOK' /\ NodeOK'
    BY <2>1 DEF LinkOK, NodeOK, linkvars, ramvars, flashvars, bootvars, history
  <2>3. DriverOK'
    BY <1>3 DEF Timeout, Retry, TypeOK, DriverOK
  <2>4. QED BY <2>2, <2>3 DEF TypeOK
<1>4. CASE GiveUp(p)
  BY <1>4 DEF GiveUp, TypeOK, DriverOK, LinkOK, NodeOK, Phase, Active,
              linkvars, ramvars, flashvars, bootvars, history
<1>5. CASE Acked(p)
  <2>1. LinkOK'
    <3>1. Tail(acks[p]) \in Seq(Ack) /\ Len(Tail(acks[p])) <= LinkDepth
      BY <1>5, TakenType DEF Acked, TypeOK, LinkOK
    <3>2. QED BY <1>5, <3>1 DEF Acked, TypeOK, LinkOK
  <2>2. DriverOK'
    <3> DEFINE a == Head(acks[p])
    <3>1. CASE /\ Advance(p)
               /\ tries' = [tries EXCEPT ![p] = 0]
               /\ waiting' = [waiting EXCEPT ![p] = FALSE]
               /\ UNCHANGED <<job, jobs, overlapped>>
      <4>1. phase' \in [Pusher -> Phase] /\ off' \in [Pusher -> Nat]
        <5>1. /\ phase \in [Pusher -> Phase] /\ off \in [Pusher -> Nat]
              /\ Size[job[p]] \in Nat
          BY DEF TypeOK, DriverOK
        <5>2. {"DATA", "END", "DONE"} \subseteq Phase
          BY DEF Phase, Active
        <5>3. CASE phase[p] = "DATA" /\ off[p] < Size[job[p]] /\ off' = [off EXCEPT ![p] = @ + 1]
                   /\ UNCHANGED phase
          BY <5>1, <5>3
        <5>4. CASE phase' = [phase EXCEPT ![p] = "DATA"] /\ off' = [off EXCEPT ![p] = 1]
          BY <5>1, <5>2, <5>4
        <5>5. CASE phase' = [phase EXCEPT ![p] = "END"] /\ off' = [off EXCEPT ![p] = 0]
          BY <5>1, <5>2, <5>5
        <5>6. CASE phase' = [phase EXCEPT ![p] = "DONE"] /\ UNCHANGED off
          BY <5>1, <5>2, <5>6
        <5>7. QED BY <3>1, <5>3, <5>4, <5>5, <5>6 DEF Advance
      <4>2. /\ tries' \in [Pusher -> 0 .. MaxTries] /\ waiting' \in [Pusher -> BOOLEAN]
            /\ \A q \in Pusher : waiting'[q] => tries'[q] < MaxTries
        BY <3>1 DEF TypeOK, DriverOK
      <4>3. QED BY <3>1, <4>1, <4>2 DEF TypeOK, DriverOK
    <3>2. CASE /\ phase' = [phase EXCEPT ![p] = "UP_TO_DATE"]
               /\ waiting' = [waiting EXCEPT ![p] = FALSE]
               /\ UNCHANGED <<job, off, tries, jobs, overlapped>>
      BY <3>2 DEF TypeOK, DriverOK, Phase
    <3>3. CASE Matches(p, a) /\ Retry(p)
      BY <3>3 DEF Matches, Retry, TypeOK, DriverOK
    <3>4. CASE UNCHANGED drivervars
      BY <3>4 DEF TypeOK, DriverOK, drivervars
    <3>5. QED BY <1>5, <3>1, <3>2, <3>3, <3>4 DEF Acked
  <2>3. QED BY <1>5, <2>1, <2>2 DEF Acked, TypeOK, NodeOK, ramvars, flashvars, bootvars, history
<1>6. QED BY <1>1, <1>2, <1>3, <1>4, <1>5 DEF Driver

\* A loss keeps them.
LEMMA LoseType ==
    ASSUME TypeOK, NEW p \in Pusher, Lose(p)
    PROVE  TypeOK'
<1>1. LinkOK'
  <2>1. CASE cmds[p] # <<>> /\ cmds' = [cmds EXCEPT ![p] = Tail(@)] /\ UNCHANGED acks
    <3>1. Tail(cmds[p]) \in Seq(Command) /\ Len(Tail(cmds[p])) <= LinkDepth
      BY <2>1, TakenType DEF TypeOK, LinkOK
    <3>2. QED BY <2>1, <3>1 DEF TypeOK, LinkOK
  <2>2. CASE acks[p] # <<>> /\ acks' = [acks EXCEPT ![p] = Tail(@)] /\ UNCHANGED cmds
    <3>1. Tail(acks[p]) \in Seq(Ack) /\ Len(Tail(acks[p])) <= LinkDepth
      BY <2>2, TakenType DEF TypeOK, LinkOK
    <3>2. QED BY <2>2, <3>1 DEF TypeOK, LinkOK
  <2>3. QED BY <2>1, <2>2 DEF Lose
<1>2. QED BY <1>1 DEF Lose, TypeOK, DriverOK, NodeOK, drivervars, ramvars, flashvars, bootvars, history

\* An erased flash area, and one chunk programmed in another.
LEMMA FlashType ==
    /\ Blank \in Flash
    /\ \A area \in Flash, c \in Nat, v \in Image \cup {Erased, Bad} :
           [area EXCEPT ![c] = v] \in Flash
BY DEF Blank, Flash, Chunk

\* A PREPARE keeps them.
LEMMA PrepareType ==
    ASSUME TypeOK, NEW p \in Pusher, Prepare(p)
    PROVE  TypeOK'
<1> DEFINE i == Head(cmds[p]).image
<1>1. /\ i \in Image
      /\ cmds[p] # <<>>
      /\ cmds' = [cmds EXCEPT ![p] = Tail(@)]
  BY ArrivalType DEF Prepare, TypeOK
<1>2. LinkOK'
  <2>1. PICK status \in {"BUSY", "SAME_VER", "TOO_LARGE", "OK", "ERASE_FAIL"} : Answer("PREPARE", status, 0)
    BY DEF Prepare
  <2>2. status \in Status /\ "PREPARE" \in Active /\ 0 \in Nat
    BY DEF Status, Active
  <2>3. QED BY <1>1, <2>1, <2>2, AnswerType DEF TypeOK
<1>3. /\ mode' \in {"IDLE", "READY", "RECEIVING"} /\ expected' \in 0 .. MaxSize
      /\ mode' = "IDLE" <=> expected' = 0
  <2>1. Size[i] \in Nat \ {0} /\ (Fits(i) => Size[i] \in 1 .. MaxSize)
    BY <1>1 DEF Fits
  <2>2. QED BY <2>1 DEF Prepare, TypeOK, NodeOK
<1>4. bank' \in Flash
  <2>1. [Blank EXCEPT ![MaxSize] = Bad] \in Flash
    BY FlashType
  <2>2. QED BY <2>1, FlashType DEF Prepare, TypeOK, NodeOK
<1>5. trampled' \in BOOLEAN /\ cut' = cut
  BY Zenon DEF Prepare
<1>6. QED BY <1>2, <1>3, <1>4, <1>5 DEF Prepare, TypeOK, DriverOK, NodeOK, drivervars, bootvars

\* A chunk keeps them.
LEMMA DataType ==
    ASSUME TypeOK, NEW p \in Pusher, Data(p)
    PROVE  TypeOK'
<1> DEFINE i == Head(cmds[p]).image
           c == Head(cmds[p]).chunk
<1>1. /\ i \in Image
      /\ c \in Nat
      /\ cmds[p] # <<>>
      /\ cmds' = [cmds EXCEPT ![p] = Tail(@)]
  BY ArrivalType DEF Data, TypeOK
<1>2. LinkOK'
  <2>1. PICK status \in {"NO_SESSION", "OK", "FAIL"} : Answer("DATA", status, c)
    BY DEF Data
  <2>2. status \in Status /\ "DATA" \in Active
    BY DEF Status, Active
  <2>3. QED BY <1>1, <2>1, <2>2, AnswerType DEF TypeOK
<1>3. mode' \in {"IDLE", "READY", "RECEIVING"} /\ (mode' = "IDLE" <=> mode = "IDLE")
  BY DEF Data, TypeOK, NodeOK
<1>4. bank' \in Flash
  <2>1. bank' = bank \/ bank' = [bank EXCEPT ![c] = i] \/ bank' = [bank EXCEPT ![c] = Bad]
    BY DEF Data
  <2>2. bank \in Flash
    BY DEF TypeOK, NodeOK
  <2>3. \A v \in Image \cup {Erased, Bad} : [bank EXCEPT ![c] = v] \in Flash
    BY <1>1, <2>2, FlashType
  <2>4. QED BY <1>1, <2>1, <2>2, <2>3
<1>5. QED BY <1>2, <1>3, <1>4 DEF Data, TypeOK, DriverOK, NodeOK, drivervars, bootvars, history

\* An END keeps them.
LEMMA EndType ==
    ASSUME TypeOK, NEW p \in Pusher, End(p)
    PROVE  TypeOK'
<1> DEFINE i == Head(cmds[p]).image
<1>1. /\ i \in Image
      /\ cmds[p] # <<>>
      /\ cmds' = [cmds EXCEPT ![p] = Tail(@)]
      /\ acks' = acks => LinkOK'
  BY ArrivalType DEF End, TypeOK
<1>2. LinkOK'
  <2>1. CASE \E status \in {"OK", "CRC_FAIL"} : Answer("END", status, 0)
    <3>1. PICK status \in {"OK", "CRC_FAIL"} : Answer("END", status, 0)
      BY <2>1
    <3>2. status \in Status /\ "END" \in Active /\ 0 \in Nat
      BY DEF Status, Active
    <3>3. QED BY <1>1, <3>1, <3>2, AnswerType DEF TypeOK
  <2>2. CASE acks' = acks
    BY <1>1, <2>2
  <2>3. QED BY <2>1, <2>2 DEF End
<1>3. /\ mode' \in {"IDLE", "READY", "RECEIVING"} /\ expected' \in 0 .. MaxSize
      /\ mode' = "IDLE" <=> expected' = 0
      /\ pending' \in 0 .. MaxSize
      /\ reboot' \in BOOLEAN
  <2>1. CASE UNCHANGED <<mode, expected, pending, reboot>>
    BY <2>1 DEF TypeOK, NodeOK
  <2>2. CASE Verified(i) /\ pending' = Size[i] /\ expected' = 0 /\ mode' = "IDLE" /\ reboot' \in BOOLEAN
    BY <1>1, <2>2 DEF Verified, Holds, Fits
  <2>3. QED BY <2>1, <2>2 DEF End
<1>4. QED BY <1>2, <1>3 DEF End, TypeOK, DriverOK, NodeOK, drivervars, bootvars, history

\* A reset leaves the node's RAM and its power as they should be.
LEMMA ResetType ==
    ASSUME NEW area, Reset(area)
    PROVE  /\ mode' = "IDLE" /\ expected' = 0 /\ reboot' = FALSE /\ copied' = 0
           /\ power' \in {"BOOT", "DEAD"}
           /\ power' = "BOOT" => Ends(area)
           /\ power' = "DEAD" => \A i \in Image : ~ Holds(area, i)
BY DEF Reset

\* A timeout, a restart and a power failure keep them.
LEMMA RestartType ==
    ASSUME TypeOK, power = "BOOT" => Ends(app),
           IdleTimeout \/ Restart \/ PowerLoss
    PROVE  TypeOK'
<1>0. DriverOK' /\ LinkOK'
  BY DEF IdleTimeout, Restart, Reboot, BeginCopy, BootUp, CopyChunk, EndCopy, PowerLoss,
         TypeOK, DriverOK, LinkOK, drivervars, linkvars
<1>1. CASE IdleTimeout
  BY <1>0, <1>1 DEF IdleTimeout, TypeOK, NodeOK, flashvars, bootvars, history
<1>2. CASE Reboot
  <2>1. /\ mode' = "IDLE" /\ expected' = 0 /\ reboot' = FALSE /\ copied' = 0
        /\ power' \in {"BOOT", "DEAD"}
    BY <1>2, ResetType DEF Reboot
  <2>2. 0 \in 0 .. MaxSize
    OBVIOUS
  <2>3. NodeOK'
    BY <1>2, <2>1, <2>2 DEF Reboot, TypeOK, NodeOK, flashvars, history
  <2>4. QED BY <1>0, <2>3 DEF TypeOK
<1>3. CASE BeginCopy
  BY <1>0, <1>3, FlashType DEF BeginCopy, TypeOK, NodeOK, ramvars, history
<1>4. CASE BootUp
  BY <1>0, <1>4 DEF BootUp, Ends, TypeOK, NodeOK, ramvars, history
<1>5. CASE CopyChunk
  <2>1. copied + 1 \in Chunk
    BY <1>5 DEF CopyChunk, TypeOK, NodeOK, Chunk
  <2>2. app' \in Flash
    BY <1>5, <2>1 DEF CopyChunk, TypeOK, NodeOK, Flash
  <2>3. copied' \in 0 .. MaxSize
    BY <1>5, <2>1 DEF CopyChunk, Chunk
  <2>4. QED BY <1>0, <1>5, <2>2, <2>3 DEF CopyChunk, TypeOK, NodeOK, ramvars, history
<1>6. CASE EndCopy
  <2>1. /\ mode' = "IDLE" /\ expected' = 0 /\ reboot' = FALSE /\ copied' = 0
        /\ power' \in {"BOOT", "DEAD"}
    BY <1>6, ResetType DEF EndCopy
  <2>2. 0 \in 0 .. MaxSize
    OBVIOUS
  <2>3. NodeOK'
    BY <1>6, <2>1, <2>2 DEF EndCopy, TypeOK, NodeOK, flashvars, history
  <2>4. QED BY <1>0, <2>3 DEF TypeOK
<1>7. CASE PowerLoss
  <2>1. losses' \in 0 .. MaxPowerLosses /\ cut' \in BOOLEAN
    <3>1. cut' \in BOOLEAN
      BY <1>7, Zenon DEF PowerLoss
    <3> QED BY <1>7, <3>1 DEF PowerLoss, TypeOK, NodeOK
  <2>2. /\ mode' = "IDLE" /\ expected' = 0 /\ reboot' = FALSE /\ copied' = 0
        /\ power' \in {"BOOT", "DEAD"}
    BY <1>7, ResetType DEF PowerLoss
  <2>3. 0 \in 0 .. MaxSize
    OBVIOUS
  <2>4. NodeOK'
    BY <1>7, <2>1, <2>2, <2>3 DEF PowerLoss, TypeOK, NodeOK, flashvars, history
  <2>5. QED BY <1>0, <2>4 DEF TypeOK
<1>8. QED BY <1>1, <1>2, <1>3, <1>4, <1>5, <1>6, <1>7 DEF Restart

(***************************************************************************)
(* The inductive invariant.  A pending image is safe because the session   *)
(* is over when it becomes pending, and only a PREPARE, which tramples it, *)
(* begins another; the copy is safe because it only ever writes what the   *)
(* bank holds, and the bank holds a whole image.  What boots is whole: the *)
(* last chunk, which a boot needs, is copied last.                         *)
(***************************************************************************)

Bootable == power = "BOOT" => Ends(app)

Committed ==
    pending # 0 /\ ~ trampled => /\ mode = "IDLE"
                                 /\ \E i \in Image : Size[i] = pending /\ Holds(bank, i)

InPlace ==
    ~ trampled =>
        /\ power = "RUN" => Holds(app, version)
        /\ power = "BOOT" => /\ \E i \in Image : Holds(app, i)
                             /\ copied = 0
                             /\ pending = 0 => Holds(app, version)
        /\ power = "COPY" => /\ pending # 0
                             /\ copied <= pending
                             /\ \A c \in Chunk : app[c] = IF c <= copied THEN bank[c] ELSE Erased

IInv == TypeOK /\ Bootable /\ Committed /\ InPlace /\ BrickedByThese

\* An image that is whole begins with its first chunk.
LEMMA WholeBegins ==
    ASSUME NEW area, NEW i \in Image, Holds(area, i)
    PROVE  area[1] = i /\ 1 \in Chunk
<1>1. 1 \in 1 .. Size[i] /\ 1 \in Chunk
  BY DEF Chunk
<1>2. QED BY <1>1 DEF Holds

\* A node starts with a whole image and nothing pending.
LEMMA InitInv == Init => IInv
<1> SUFFICES ASSUME Init PROVE IInv
  OBVIOUS
<1>1. TypeOK
  BY InitType
<1>2. \A c \in 1 .. Size[version] : c \in Chunk
  BY DEF Init, Fits, Chunk
<1>3. Holds(app, version)
  BY <1>2 DEF Init, Holds
<1>4. QED BY <1>1, <1>3 DEF Init, IInv, Bootable, Committed, InPlace, BrickedByThese

\* What concerns neither the flash nor the power keeps the invariant.
LEMMA FrameInv ==
    ASSUME IInv, TypeOK', UNCHANGED <<bank, pending, app, copied, version, power, history>>,
           pending # 0 /\ ~ trampled => mode' = mode
    PROVE  IInv'
<1>1. Committed'
  BY DEF IInv, Committed, Holds, history
<1>2. InPlace' /\ Bootable' /\ BrickedByThese'
  BY DEF IInv, InPlace, Bootable, Ends, BrickedByThese, Holds, history
<1>3. QED BY <1>1, <1>2 DEF IInv

\* What leaves the application and the power alone, and changes the bank only
\* while nothing is pending or by trampling on it.
LEMMA BankInv ==
    ASSUME IInv, TypeOK', power = "RUN", UNCHANGED <<app, version, power, cut>>,
           trampled => trampled', Committed'
    PROVE  IInv'
<1>1. InPlace' /\ Bootable' /\ BrickedByThese'
  BY DEF IInv, InPlace, Bootable, BrickedByThese, Holds
<1>2. QED BY <1>1 DEF IInv

\* A PREPARE that finds an image pending erases it and is noted, or leaves it.
LEMMA PrepareTramples ==
    ASSUME IInv, NEW p \in Pusher, Prepare(p)
    PROVE  /\ UNCHANGED <<pending, app, bootvars, cut>>
           /\ trampled => trampled'
           /\ ~ trampled' /\ pending # 0 => bank' = bank /\ mode' = mode
<1>1. UNCHANGED <<pending, app, bootvars, cut>> /\ (trampled => trampled')
  BY DEF Prepare
<1>2. ASSUME ~ trampled', pending # 0 PROVE bank' = bank /\ mode' = mode
  <2>1. bank' = bank /\ ~ trampled
    BY <1>2 DEF Prepare
  <2>2. PICK i \in Image : Holds(bank, i)
    BY <1>2, <2>1 DEF IInv, Committed
  <2>3. bank # Blank
    <3>1. bank[1] \in Image /\ 1 \in Chunk
      BY <2>2, WholeBegins
    <3>2. Blank[1] = Erased
      BY <3>1 DEF Blank
    <3> QED BY <3>1, <3>2
  <2>4. mode' = mode
    BY <2>1, <2>3 DEF Prepare
  <2> QED BY <2>1, <2>4
<1>3. QED BY <1>1, <1>2

\* Nothing is pending while a session is open, or it has been trampled on.
LEMMA HandlerInv ==
    ASSUME IInv, NEW p \in Pusher, Handle(p)
    PROVE  IInv'
<1>1. CASE Prepare(p)
  <2>1. TypeOK'
    BY <1>1, PrepareType DEF IInv
  <2>2. Committed'
    BY <1>1, PrepareTramples DEF IInv, Committed, Holds
  <2>3. power = "RUN" /\ UNCHANGED <<app, version, power, cut>> /\ (trampled => trampled')
    BY <1>1, PrepareTramples DEF Prepare, Arrives, bootvars
  <2>4. QED BY <2>1, <2>2, <2>3, BankInv
<1>2. CASE Data(p)
  <2>1. TypeOK'
    BY <1>2, DataType DEF IInv
  <2>2. power = "RUN" /\ UNCHANGED <<pending, app, version, power, cut, trampled>>
    BY <1>2 DEF Data, Arrives, bootvars, history
  <2>3. Committed'
    BY <1>2, <2>2 DEF Data, IInv, Committed, Holds
  <2>4. QED BY <2>1, <2>2, <2>3, BankInv
<1>3. CASE End(p)
  <2> DEFINE i == Head(cmds[p]).image
  <2>1. TypeOK' /\ i \in Image
    BY <1>3, EndType, ArrivalType DEF End, IInv, TypeOK
  <2>2. power = "RUN" /\ UNCHANGED <<bank, app, version, power, cut, trampled>>
    BY <1>3 DEF End, Arrives, bootvars, history
  <2>3. Committed'
    <3>1. CASE UNCHANGED <<mode, pending>>
      BY <2>2, <3>1 DEF IInv, Committed, Holds
    <3>2. CASE pending' = Size[i] /\ Verified(i) /\ mode' = "IDLE"
      BY <2>1, <2>2, <3>2 DEF Verified, Committed, Holds
    <3>3. QED BY <1>3, <3>1, <3>2 DEF End
  <2>4. QED BY <2>1, <2>2, <2>3, BankInv
<1>4. QED BY <1>1, <1>2, <1>3 DEF Handle

\* A reset of a node whose application is whole leads to the boot.
LEMMA WholeResets ==
    ASSUME NEW i \in Image, Holds(app, i), Reset(app)
    PROVE  power' = "BOOT"
BY ResetType

\* A restart copies the bank chunk by chunk, and power may fail in it.
LEMMA RestartInv ==
    ASSUME IInv, IdleTimeout \/ Restart \/ PowerLoss
    PROVE  IInv'
<1>0. TypeOK' /\ UNCHANGED trampled /\ (cut => cut')
  <2>1. TypeOK'
    BY RestartType DEF IInv, Bootable
  <2>2. UNCHANGED trampled
    BY DEF IdleTimeout, Restart, Reboot, BeginCopy, BootUp, CopyChunk, EndCopy, PowerLoss, history
  <2>3. PowerLoss \/ cut' = cut
    BY DEF IdleTimeout, Restart, Reboot, BeginCopy, BootUp, CopyChunk, EndCopy, history
  <2>4. cut => cut'
    BY <2>3 DEF PowerLoss
  <2>5. QED BY <2>1, <2>2, <2>4
<1>1. CASE IdleTimeout
  BY <1>0, <1>1, FrameInv DEF IdleTimeout, flashvars, bootvars, history, IInv, Committed
<1>2. CASE BeginCopy
  <2>1. /\ UNCHANGED <<bank, pending, mode, copied, version, cut>>
        /\ power' = "COPY" /\ app' = Blank
    BY <1>2 DEF BeginCopy, ramvars, history
  <2>2. pending # 0
    BY <1>2 DEF BeginCopy, Differs, IInv, TypeOK, NodeOK
  <2>3. InPlace'
    <3> SUFFICES ASSUME ~ trampled PROVE InPlace'
      BY <1>0 DEF InPlace
    <3>1. copied = 0
      BY <1>2 DEF BeginCopy, IInv, InPlace
    <3>2. \A c \in Chunk : app'[c] = Erased /\ ~ (c <= 0)
      BY <2>1 DEF Blank, Chunk
    <3> QED BY <2>1, <2>2, <3>1, <3>2 DEF InPlace, IInv, TypeOK, NodeOK
  <2>4. Committed' /\ Bootable' /\ BrickedByThese'
    BY <1>0, <2>1 DEF IInv, Committed, Bootable, BrickedByThese, Holds
  <2>5. QED BY <1>0, <2>3, <2>4 DEF IInv
<1>3. CASE BootUp
  <2>1. pending' = 0 /\ version' = app[1] /\ power' = "RUN" /\ UNCHANGED app
    BY <1>3 DEF BootUp
  <2>2. ASSUME ~ trampled PROVE Holds(app, app[1])
    <3>1. CASE pending = 0
      <4>1. Holds(app, version)
        BY <1>3, <2>2, <3>1 DEF BootUp, IInv, InPlace
      <4>2. app[1] = version
        BY <4>1, WholeBegins DEF IInv, TypeOK, NodeOK
      <4>3. QED BY <4>1, <4>2
    <3>2. CASE pending # 0
      <4>1. PICK i \in Image : Size[i] = pending /\ Holds(bank, i)
        BY <2>2, <3>2 DEF IInv, Committed
      <4>2. Holds(app, i)
        BY <1>3, <4>1 DEF BootUp, Differs, Holds
      <4>3. app[1] = i
        BY <4>2, WholeBegins
      <4>4. QED BY <4>2, <4>3
    <3>3. QED BY <3>1, <3>2
  <2>3. InPlace' /\ Bootable' /\ BrickedByThese' /\ Committed'
    BY <1>0, <2>1, <2>2 DEF InPlace, Bootable, BrickedByThese, Committed, Holds
  <2>4. QED BY <1>0, <2>3 DEF IInv
<1>4. CASE CopyChunk
  <2>1. /\ copied \in Nat /\ pending \in Nat /\ copied < pending /\ copied' = copied + 1
        /\ app \in Flash /\ copied + 1 \in Chunk
    BY <1>4 DEF CopyChunk, IInv, TypeOK, NodeOK, Chunk
  <2>2. /\ UNCHANGED <<bank, pending, mode, version, power, cut>> /\ power = "COPY"
        /\ app' = [app EXCEPT ![copied + 1] = bank[copied + 1]]
    BY <1>4 DEF CopyChunk, ramvars, history
  <2>3. InPlace'
    <3> SUFFICES ASSUME ~ trampled PROVE InPlace'
      BY <1>0 DEF InPlace
    <3>1. \A c \in Chunk : app[c] = IF c <= copied THEN bank[c] ELSE Erased
      BY <2>2 DEF IInv, InPlace
    <3>2. \A c \in Chunk : c \in Nat /\ app'[c] = IF c = copied + 1 THEN bank[c] ELSE app[c]
      BY <2>1, <2>2 DEF Flash, Chunk
    <3>3. \A c \in Chunk : app'[c] = IF c <= copied + 1 THEN bank[c] ELSE Erased
      BY <2>1, <3>1, <3>2
    <3> QED BY <2>1, <2>2, <3>3 DEF InPlace
  <2>4. Committed' /\ Bootable' /\ BrickedByThese'
    BY <1>0, <2>2 DEF IInv, Committed, Bootable, BrickedByThese, Holds
  <2>5. QED BY <1>0, <2>3, <2>4 DEF IInv
\* A reset of the node as it runs, as it boots and as it copies.
<1>5. ASSUME Reset(app), UNCHANGED <<bank, pending, app, version>>, power # "DEAD",
             power = "COPY" => cut' \/ ~ (copied < pending)
      PROVE  IInv'
  <2>1. /\ mode' = "IDLE" /\ copied' = 0 /\ power' \in {"BOOT", "DEAD"}
        /\ power' = "BOOT" => Ends(app)
    BY <1>5, ResetType
  <2>2. Bootable' /\ Committed'
    BY <1>0, <1>5, <2>1 DEF Bootable, Ends, IInv, Committed, Holds
  <2> SUFFICES InPlace' /\ BrickedByThese'
    BY <1>0, <2>2 DEF IInv
  <2>3. CASE trampled
    BY <1>0, <2>3 DEF InPlace, BrickedByThese
  <2>4. CASE ~ trampled /\ power \in {"RUN", "BOOT"}
    <3>1. PICK i \in Image : Holds(app, i)
      BY <2>4 DEF IInv, InPlace, TypeOK, NodeOK
    <3>2. power' = "BOOT"
      BY <1>5, <3>1, WholeResets
    <3>3. pending = 0 => Holds(app, version)
      BY <2>4 DEF IInv, InPlace
    <3> QED BY <1>5, <2>1, <3>1, <3>2, <3>3 DEF InPlace, BrickedByThese, Holds
  <2>5. CASE ~ trampled /\ power = "COPY"
    <3>1. PICK i \in Image : Size[i] = pending /\ Holds(bank, i)
      BY <2>5 DEF IInv, Committed, InPlace
    <3>2. \A c \in Chunk : app[c] = IF c <= copied THEN bank[c] ELSE Erased
      BY <2>5 DEF IInv, InPlace
    <3>3. /\ pending # 0 /\ pending \in Nat /\ copied \in Nat /\ copied <= pending
          /\ Size[i] \in Nat /\ Size[i] <= MaxSize
      BY <2>5, <3>1 DEF IInv, InPlace, TypeOK, NodeOK, Holds, Fits
    <3>4. CASE copied = pending
      <4>1. Holds(app, i)
        <5>1. \A c \in 1 .. Size[i] : c \in Chunk /\ c <= copied
          BY <3>1, <3>3, <3>4 DEF Chunk
        <5> QED BY <3>1, <3>2, <5>1 DEF Holds
      <4>2. power' = "BOOT"
        BY <1>5, <4>1, WholeResets
      <4> QED BY <1>5, <2>1, <3>3, <4>1, <4>2 DEF InPlace, BrickedByThese, Holds
    <3>5. CASE copied < pending
      <4>1. ~ Ends(app)
        <5> SUFFICES ASSUME Ends(app) PROVE FALSE
          OBVIOUS
        <5>1. bank[1] = i /\ 1 \in Chunk
          BY <3>1, WholeBegins
        <5>2. app[1] = i
          BY <3>2, <5>1 DEF Ends
        <5>3. Size[i] \in Chunk /\ ~ (Size[i] <= copied)
          BY <3>1, <3>3, <3>5 DEF Chunk
        <5>4. app[Size[i]] = Erased
          BY <3>2, <5>3
        <5> QED BY <5>2, <5>4 DEF Ends
      <4>2. power' = "DEAD" /\ cut'
        BY <1>5, <2>1, <2>5, <3>3, <3>5, <4>1
      <4> QED BY <4>2 DEF InPlace, BrickedByThese
    <3> QED BY <3>3, <3>4, <3>5
  <2> QED BY <1>5, <2>3, <2>4, <2>5 DEF IInv, TypeOK, NodeOK
<1>6. CASE Reboot
  BY <1>5, <1>6 DEF Reboot, flashvars
<1>7. CASE EndCopy
  <2>1. ~ (copied < pending)
    BY <1>7 DEF EndCopy, IInv, TypeOK, NodeOK
  <2> QED BY <1>5, <1>7, <2>1 DEF EndCopy, flashvars
<1>8. CASE PowerLoss
  <2>1. power = "COPY" => cut' \/ ~ (copied < pending)
    BY <1>8 DEF PowerLoss
  <2> QED BY <1>5, <1>8, <2>1 DEF PowerLoss, flashvars
<1>9. QED BY <1>1, <1>2, <1>3, <1>4, <1>6, <1>7, <1>8 DEF Restart

\* Every step keeps the invariant.
LEMMA StepInv ==
    ASSUME IInv, [Next]_vars
    PROVE  IInv'
<1>1. CASE UNCHANGED vars
  <2>1. TypeOK'
    BY <1>1 DEF IInv, TypeOK, DriverOK, LinkOK, NodeOK,
                vars, drivervars, linkvars, ramvars, flashvars, bootvars, history
  <2>2. QED BY <1>1, <2>1, FrameInv DEF vars, ramvars, flashvars, bootvars, history
<1>2. ASSUME NEW p \in Pusher, Driver(p) PROVE IInv'
  <2>1. TypeOK'
    BY <1>2, DriverType DEF IInv
  <2>2. UNCHANGED <<ramvars, flashvars, bootvars, history>>
    <3>1. CASE Start(p)
      BY <3>1 DEF Start
    <3>2. CASE Attempt(p)
      BY <3>2 DEF Attempt
    <3>3. CASE Timeout(p)
      BY <3>3 DEF Timeout
    <3>4. CASE GiveUp(p)
      BY <3>4 DEF GiveUp
    <3>5. CASE Acked(p)
      BY <3>5 DEF Acked
    <3>6. QED BY <1>2, <3>1, <3>2, <3>3, <3>4, <3>5 DEF Driver
  <2>3. QED BY <2>1, <2>2, FrameInv DEF ramvars, flashvars, bootvars, history
<1>3. ASSUME NEW p \in Pusher, Handle(p) PROVE IInv'
  BY <1>3, HandlerInv
<1>4. ASSUME NEW p \in Pusher, Lose(p) PROVE IInv'
  <2>1. TypeOK'
    BY <1>4, LoseType DEF IInv
  <2>2. QED BY <1>4, <2>1, FrameInv DEF Lose, ramvars, flashvars, bootvars, history
<1>5. CASE IdleTimeout \/ Restart \/ PowerLoss
  BY <1>5, RestartInv
<1>6. QED BY <1>1, <1>2, <1>3, <1>4, <1>5 DEF Next

(***************************************************************************)
(* Theorems.                                                               *)
(***************************************************************************)

\* The invariant holds of every behaviour.
LEMMA Invariant == Spec => []IInv
<1>1. Init => IInv
  BY InitInv
<1>2. IInv /\ [Next]_vars => IInv'
  BY StepInv
<1>3. QED BY <1>1, <1>2, PTL DEF Spec

\* Drivers, links and node stay within their types (main.c 340-525).
THEOREM TypeCorrect == Spec => []TypeOK
<1>1. IInv => TypeOK
  BY DEF IInv
<1>2. QED BY <1>1, Invariant, PTL

\* The bank holds the whole of a pending image, for any number of drivers that
\* push what they like, with any losses, retries and power failures, until a
\* PREPARE that the node accepts before it has restarted erases it (ota_apply.h 9,
\* main.c 400-403).
THEOREM PendingImageIsWhole == Spec => []GoldenCopy
<1>1. IInv => GoldenCopy
  BY DEF IInv, Committed, GoldenCopy
<1>2. QED BY <1>1, Invariant, PTL

\* Until then the node only ever runs whole images, whatever interrupts the copy
\* (ota_apply.c 195-221).
THEOREM NodeRunsWholeImages == Spec => []RunsWholeImage
<1>1. IInv => RunsWholeImage
  BY DEF IInv, InPlace, RunsWholeImage
<1>2. QED BY <1>1, Invariant, PTL

\* A node that no longer boots had a copy cut short or a pending image
\* overwritten: power failures before and after the copy, restarts, failed
\* transfers and any number of pushes do not do it (ota_apply.c 51-132, 210-230).
THEOREM OnlyTheseBrick == Spec => []BrickedByThese
<1>1. IInv => BrickedByThese
  BY DEF IInv
<1>2. QED BY <1>1, Invariant, PTL

\* An update is what FirmwareUpdate says of it: a restart, a retry, a duplicate,
\* another driver or a power failure never shows as anything else.
LEMMA InitRefines == Init => U!Init
BY DEF Init, U!Init

\* What is staged of a node.
StagedImage == IF pending = 0 \/ trampled THEN None ELSE bank[1]

\* Every step stages an image, installs one, ruins one, or is none of the abstract
\* update.
LEMMA StepRefines ==
    ASSUME IInv, [Next]_vars
    PROVE  [U!Next]_<<version, StagedImage, trampled>>
<1>0. pending # 0 /\ ~ trampled => bank[1] \in Image
  BY WholeBegins DEF IInv, Committed
<1>1. SUFFICES ASSUME ~ UNCHANGED <<version, StagedImage, trampled>>
      PROVE  U!Next
  OBVIOUS
<1>2. IInv'
  BY StepInv
<1>3. trampled => trampled'
  BY DEF Next, Driver, Start, Attempt, Timeout, GiveUp, Acked, Handle, Prepare, Data, End, Lose,
         IdleTimeout, Restart, Reboot, BeginCopy, BootUp, CopyChunk, EndCopy, PowerLoss, vars, history
<1>4. CASE trampled
  <2>1. trampled' /\ StagedImage = None /\ StagedImage' = None /\ trampled \in BOOLEAN /\ trampled' \in BOOLEAN
    BY <1>2, <1>3, <1>4 DEF StagedImage, IInv, TypeOK, NodeOK
  <2>2. version' \in Image
    BY <1>2 DEF IInv, TypeOK, NodeOK
  <2>3. U!Adrift
    BY <1>4, <2>1, <2>2, Zenon DEF U!Adrift, StagedImage
  <2>4. QED BY <2>3 DEF U!Next
<1> SUFFICES ASSUME ~ trampled PROVE U!Next
  BY <1>4
<1>5. ASSUME NEW p \in Pusher, Handle(p) PROVE U!Next
  <2>1. CASE Prepare(p)
    <3>1. /\ pending' = pending /\ version' = version
          /\ ~ trampled' /\ pending # 0 => bank' = bank
      BY <2>1, PrepareTramples DEF bootvars
    <3>2. CASE trampled'
      <4>1. pending # 0
        BY <2>1, <3>2 DEF Prepare
      <4>2. StagedImage # None /\ StagedImage' = None
        BY <1>0, <3>2, <4>1 DEF StagedImage
      <4>3. trampled' = TRUE
        BY <1>2, <3>2 DEF IInv, TypeOK, NodeOK
      <4>4. U!Ruin
        BY <3>1, <4>2, <4>3, Zenon DEF U!Ruin, StagedImage
      <4> QED BY <4>4 DEF U!Next
    <3>3. CASE ~ trampled'
      <4>1. trampled' = trampled
        BY <1>2, <3>3 DEF IInv, TypeOK, NodeOK
      <4> QED BY <1>1, <3>1, <3>3, <4>1 DEF StagedImage
    <3> QED BY <3>2, <3>3
  <2>2. CASE Data(p)
    <3>1. pending' = pending /\ version' = version /\ trampled' = trampled
      BY <2>2 DEF Data, bootvars, history
    <3>2. pending # 0 => bank' = bank
      BY <2>2 DEF Data, IInv, Committed
    <3>3. QED BY <1>1, <3>1, <3>2 DEF StagedImage
  <2>3. CASE End(p)
    <3> DEFINE i == Head(cmds[p]).image
    <3>1. i \in Image /\ version' = version /\ bank' = bank /\ trampled' = trampled
      BY <2>3, ArrivalType DEF End, bootvars, history, IInv, TypeOK
    <3>2. mode # "IDLE" /\ Verified(i) /\ pending' = Size[i]
      BY <1>1, <2>3, <3>1 DEF End, StagedImage
    <3>3. pending = 0 /\ pending' # 0 /\ bank'[1] = i
      BY <3>1, <3>2, WholeBegins DEF Verified, IInv, Committed
    <3>4. StagedImage = None /\ StagedImage' = i
      BY <3>1, <3>3 DEF StagedImage
    <3> HIDE DEF i
    <3>5. U!Stage(i)
      BY <3>1, <3>4, Zenon DEF U!Stage, StagedImage
    <3>6. QED BY <3>1, <3>5 DEF U!Next
  <2>4. QED BY <1>5, <2>1, <2>2, <2>3 DEF Handle
<1>6. CASE BootUp
  <2>1. pending' = 0 /\ version' = app[1] /\ bank' = bank /\ trampled' = trampled
    BY <1>6 DEF BootUp, history
  <2>2. CASE pending = 0
    <3>1. Holds(app, version)
      BY <1>6, <2>2 DEF BootUp, IInv, InPlace
    <3>2. app[1] = version
      BY <3>1, WholeBegins DEF IInv, TypeOK, NodeOK
    <3>3. QED BY <1>1, <2>1, <2>2, <3>2 DEF StagedImage
  <2>3. CASE pending # 0
    <3>1. app[1] = bank[1]
      BY <1>6, <2>3 DEF BootUp, Differs, IInv, TypeOK, NodeOK
    <3>2. StagedImage = bank[1] /\ StagedImage # None /\ StagedImage' = None
      BY <1>0, <2>1, <2>3 DEF StagedImage
    <3>3. U!Switch
      BY <2>1, <3>1, <3>2, Zenon DEF U!Switch, StagedImage
    <3>4. QED BY <3>3 DEF U!Next
  <2>4. QED BY <2>2, <2>3
<1>7. ASSUME UNCHANGED <<version, pending, bank, trampled>> PROVE U!Next
  BY <1>1, <1>7 DEF StagedImage
<1>8. ASSUME NEW p \in Pusher, Driver(p) \/ Lose(p) PROVE U!Next
  <2>1. CASE Driver(p)
    BY <1>7, <2>1 DEF Driver, Start, Attempt, Timeout, GiveUp, Acked, flashvars, bootvars, history
  <2>2. CASE Lose(p)
    BY <1>7, <2>2 DEF Lose, flashvars, bootvars, history
  <2>3. QED BY <1>8, <2>1, <2>2
<1>9. CASE IdleTimeout \/ Reboot \/ BeginCopy \/ CopyChunk \/ EndCopy \/ PowerLoss
  BY <1>7, <1>9 DEF IdleTimeout, Reboot, BeginCopy, CopyChunk, EndCopy, PowerLoss,
                    flashvars, bootvars, history
<1>10. CASE UNCHANGED vars
  BY <1>7, <1>10 DEF vars, flashvars, bootvars, history
<1>11. QED BY <1>5, <1>6, <1>8, <1>9, <1>10 DEF Next, Restart

\* The update of a node implements FirmwareUpdate, whoever pushes and whatever is
\* lost (main.c 340-525, ota_apply.c).
THEOREM PushImplementsUpdate == Spec => ImplementsUpdate
<1>1. Init => U!Init
  BY InitRefines
<1>2. IInv /\ [Next]_vars =>
        [U!Next]_<<version, IF pending = 0 \/ trampled THEN None ELSE bank[1], trampled>>
  BY StepRefines DEF StagedImage
<1>3. QED BY <1>1, <1>2, Invariant, PTL DEF Spec, ImplementsUpdate, U!Spec

(***************************************************************************)
(* What operators are told.  A driver cannot tell the acknowledgements of  *)
(* another's push from those of its own; with no other on the air all it   *)
(* hears are its own, its commands are handled in the order of its phases, *)
(* and what it will be told next stays true until it is.                   *)
(***************************************************************************)

In(m, link) == \E k \in 1 .. Len(link) : link[k] = m

Rank(op) == CASE op = "PREPARE" -> 1 [] op = "DATA" -> 2 [] OTHER -> 3

\* The commands on a link are in the order of the phases.
InOrder(link) ==
    \A k, l \in 1 .. Len(link) : k < l => Rank(link[k].op) <= Rank(link[l].op)

OnAir(p) == phase[p] \in Active \/ cmds[p] # << >>

Alone == ~ overlapped => \A p, q \in Pusher : OnAir(p) /\ OnAir(q) => p = q

Orderly(p) ==
    /\ waiting[p] => phase[p] \in Active
    /\ InOrder(cmds[p])
    /\ \A m : In(m, cmds[p]) =>
        m.image = job[p] /\ (phase[p] \in Active => Rank(m.op) <= Rank(phase[p]))
    /\ \A a : In(a, acks[p]) /\ a.status = "SAME_VER" => a.op = "PREPARE"

\* It runs, or will after the restart, and no session is open.
Done(i) == mode = "IDLE" /\ (Staged(i) \/ (pending = 0 /\ version = i))

ToldDone(p) ==
    \A a : ~ overlapped /\ phase[p] \in Active /\ In(a, acks[p]) /\ a.op = "END" /\ a.status = "OK" =>
        /\ Done(job[p])
        /\ phase[p] = "END"
        /\ \A m : In(m, cmds[p]) => m.op = "END"

ToldUpToDate(p) ==
    \A a : ~ overlapped /\ phase[p] = "PREPARE" /\ In(a, acks[p]) /\ a.status = "SAME_VER" =>
        mode = "IDLE" /\ pending = 0 /\ version = job[p]

TruthInv == Alone /\ \A p \in Pusher : Orderly(p) /\ ToldDone(p) /\ ToldUpToDate(p)

\* Once its image is pending all that a lone push may still do is to repeat END,
\* so nothing it sends tramples on the image.
Settling(p) ==
    ~ overlapped /\ pending # 0 =>
        /\ phase[p] \in Active => phase[p] = "END"
        /\ \A m : In(m, cmds[p]) => m.op = "END"

SettleInv == (trampled => overlapped) /\ \A p \in Pusher : Settling(p)

\* A link from which the first message was taken.
LEMMA TailIn ==
    ASSUME NEW S, NEW link \in Seq(S), link # << >>
    PROVE  /\ \A m : In(m, Tail(link)) => In(m, link)
           /\ In(Head(link), link)
           /\ InOrder(link) => /\ InOrder(Tail(link))
                               /\ \A m : In(m, link) => Rank(Head(link).op) <= Rank(m.op)
<1>1. /\ Len(link) \in Nat /\ Len(link) > 0 /\ Head(link) = link[1]
      /\ Len(Tail(link)) = Len(link) - 1
      /\ \A k \in 1 .. Len(link) - 1 : Tail(link)[k] = link[k + 1]
  OBVIOUS
<1>2. \A k \in 1 .. Len(link) - 1 : k + 1 \in 1 .. Len(link)
  BY <1>1
<1>3. \A m : In(m, Tail(link)) => In(m, link)
  BY <1>1, <1>2 DEF In
<1>4. In(Head(link), link)
  <2>1. 1 \in 1 .. Len(link)
    BY <1>1
  <2> QED BY <1>1, <2>1 DEF In
<1>5. ASSUME InOrder(link) PROVE InOrder(Tail(link))
  <2>1. ASSUME NEW k \in 1 .. Len(link) - 1, NEW l \in 1 .. Len(link) - 1, k < l
        PROVE  Rank(link[k + 1].op) <= Rank(link[l + 1].op)
    <3>1. k + 1 \in 1 .. Len(link) /\ l + 1 \in 1 .. Len(link) /\ k + 1 < l + 1
      BY <1>1, <2>1
    <3> QED BY <1>5, <3>1 DEF InOrder
  <2> QED BY <1>1, <2>1 DEF InOrder
<1>6. ASSUME InOrder(link), NEW m, In(m, link) PROVE Rank(Head(link).op) <= Rank(m.op)
  <2>1. PICK k \in 1 .. Len(link) : link[k] = m
    BY <1>6 DEF In
  <2>2. CASE k = 1
    BY <1>1, <2>1, <2>2 DEF Rank
  <2>3. CASE k # 1
    <3>1. 1 \in 1 .. Len(link) /\ 1 < k
      BY <1>1, <2>3
    <3> QED BY <1>1, <1>6, <2>1, <3>1 DEF InOrder
  <2> QED BY <2>2, <2>3
<1> QED BY <1>3, <1>4, <1>5, <1>6

\* A link into which a message was sent.
LEMMA SentIn ==
    ASSUME NEW S, NEW link \in Seq(S), NEW m \in S
    PROVE  /\ \A x : In(x, Sent(link, m)) => In(x, link) \/ x = m
           /\ InOrder(link) /\ (\A x : In(x, link) => Rank(x.op) <= Rank(m.op)) =>
                InOrder(Sent(link, m))
<1>1. CASE Sent(link, m) = link
  BY <1>1
<1>2. CASE Sent(link, m) = Append(link, m)
  <2> DEFINE q == Append(link, m)
  <2>1. /\ Len(link) \in Nat /\ Len(q) = Len(link) + 1 /\ q[Len(link) + 1] = m
        /\ \A k \in 1 .. Len(link) : q[k] = link[k]
    OBVIOUS
  <2> HIDE DEF q
  <2>2. \A k \in 1 .. Len(q) : k = Len(link) + 1 \/ k \in 1 .. Len(link)
    BY <2>1
  <2>3. \A x : In(x, q) => In(x, link) \/ x = m
    BY <2>1, <2>2 DEF In
  <2>4. ASSUME InOrder(link), \A x : In(x, link) => Rank(x.op) <= Rank(m.op) PROVE InOrder(q)
    <3>1. ASSUME NEW k \in 1 .. Len(q), NEW l \in 1 .. Len(q), k < l
          PROVE  Rank(q[k].op) <= Rank(q[l].op)
      <4>1. k \in 1 .. Len(link)
        BY <2>1, <3>1
      <4>2. q[k] = link[k] /\ In(link[k], link)
        BY <2>1, <4>1 DEF In
      <4>3. CASE l = Len(link) + 1
        BY <2>1, <2>4, <4>2, <4>3
      <4>4. CASE l \in 1 .. Len(link)
        BY <2>1, <2>4, <3>1, <4>1, <4>2, <4>4 DEF InOrder
      <4> QED BY <2>2, <4>3, <4>4
    <3> QED BY <3>1 DEF InOrder
  <2> QED BY <1>2, <2>3, <2>4 DEF q
<1> QED BY <1>1, <1>2 DEF Sent

\* Ranks tell the operations apart.
LEMMA RankIs ==
    /\ Rank("PREPARE") = 1 /\ Rank("DATA") = 2 /\ Rank("END") = 3
    /\ \A op \in Active : Rank(op) \in 1 .. 3 /\ (Rank(op) = 3 => op = "END")
BY DEF Rank, Active

\* Nothing is on the air yet.
LEMMA TruthInit == Init => TruthInv
<1> SUFFICES ASSUME Init PROVE TruthInv
  OBVIOUS
<1>1. \A p \in Pusher : phase[p] = "IDLE" /\ cmds[p] = << >> /\ acks[p] = << >>
  BY DEF Init
<1>2. \A p \in Pusher : ~ waiting[p]
  <2>1. waiting = [p \in Pusher |-> FALSE]
    BY DEF Init
  <2> QED BY <2>1, Zenon
<1>3. \A m : ~ In(m, << >>)
  BY DEF In
<1>4. InOrder(<< >>)
  BY DEF InOrder
<1>5. \A p \in Pusher : phase[p] \notin Active
  BY <1>1 DEF Active
<1> QED BY <1>1, <1>2, <1>3, <1>4, <1>5 DEF TruthInv, Alone, OnAir, Orderly, ToldDone, ToldUpToDate, Active

\* What a driver will be told stays true when the node restarts.
LEMMA RestartTruth ==
    ASSUME IInv, TruthInv, SettleInv, IdleTimeout \/ Restart \/ PowerLoss
    PROVE  TruthInv'
<1>1. UNCHANGED <<drivervars, linkvars, bank>> /\ (mode = "IDLE" => mode' = "IDLE")
  BY DEF IdleTimeout, Restart, Reboot, BeginCopy, BootUp, CopyChunk, EndCopy, PowerLoss, Reset,
         ramvars, flashvars, bootvars, history
<1>2. CASE UNCHANGED <<pending, version>>
  <2>1. \A i \in Image : Done(i) => Done(i)'
    BY <1>1, <1>2 DEF Done, Staged, Holds
  <2> QED
    BY <1>1, <1>2, <2>1 DEF TruthInv, Alone, OnAir, Orderly, ToldDone, ToldUpToDate, drivervars, linkvars,
                            IInv, TypeOK, DriverOK
<1>3. CASE BootUp
  <2>1. pending' = 0 /\ version' = app[1]
    BY <1>3 DEF BootUp
  <2>2. pending = 0 /\ ~ overlapped => version' = version
    <3> SUFFICES ASSUME pending = 0, ~ overlapped PROVE version' = version
      OBVIOUS
    <3>1. Holds(app, version) /\ version \in Image
      BY <1>3 DEF BootUp, SettleInv, IInv, InPlace, TypeOK, NodeOK
    <3> QED BY <2>1, <3>1, WholeBegins
  <2>3. \A i \in Image : Staged(i) => version' = i
    <3> SUFFICES ASSUME NEW i \in Image, Staged(i) PROVE version' = i
      OBVIOUS
    <3>1. 1 \in 1 .. Size[i] /\ pending = Size[i]
      BY DEF Staged
    <3> QED BY <1>3, <2>1, <3>1 DEF BootUp, Differs, Staged, Holds
  <2>4. \A i \in Image : Done(i) /\ ~ overlapped => Done(i)'
    BY <1>1, <2>1, <2>2, <2>3 DEF Done
  <2> QED
    BY <1>1, <2>1, <2>2, <2>4 DEF TruthInv, Alone, OnAir, Orderly, ToldDone, ToldUpToDate, drivervars, linkvars,
                            IInv, TypeOK, DriverOK
<1>4. UNCHANGED <<pending, version>> \/ BootUp
  BY DEF IdleTimeout, Restart, Reboot, BeginCopy, CopyChunk, EndCopy, PowerLoss, flashvars, bootvars, history
<1> QED BY <1>2, <1>3, <1>4

\* What a step leaves alone of a driver and what it is told, it leaves true.
LEMMA TruthFrame ==
    ASSUME TruthInv, NEW q \in Pusher,
           phase'[q] = phase[q], job'[q] = job[q], waiting'[q] = waiting[q],
           cmds'[q] = cmds[q], acks'[q] = acks[q], ~ overlapped' => ~ overlapped,
           UNCHANGED <<mode, pending, version, bank>>
    PROVE  (Orderly(q) /\ ToldDone(q) /\ ToldUpToDate(q))'
<1>1. Orderly(q) /\ ToldDone(q) /\ ToldUpToDate(q)
  BY DEF TruthInv
<1>2. Orderly(q)'
  BY <1>1 DEF Orderly
<1>3. ToldDone(q)'
  BY <1>1 DEF ToldDone, Done, Staged, Holds
<1>4. ToldUpToDate(q)'
  BY <1>1 DEF ToldUpToDate
<1> QED BY <1>2, <1>3, <1>4

\* ... whatever is lost on the way.
LEMMA LoseTruth ==
    ASSUME TypeOK, TruthInv, NEW p \in Pusher, Lose(p)
    PROVE  TruthInv'
<1>1. UNCHANGED <<drivervars, ramvars, flashvars, bootvars, history>>
  BY DEF Lose
<1>2. \A q \in Pusher : /\ cmds'[q] = cmds[q] \/ (cmds[q] # << >> /\ cmds'[q] = Tail(cmds[q]))
                        /\ acks'[q] = acks[q] \/ (acks[q] # << >> /\ acks'[q] = Tail(acks[q]))
  BY DEF Lose, TypeOK, LinkOK
<1>3. ASSUME NEW q \in Pusher
      PROVE  /\ \A m : In(m, cmds'[q]) => In(m, cmds[q])
             /\ \A a : In(a, acks'[q]) => In(a, acks[q])
             /\ InOrder(cmds[q]) => InOrder(cmds'[q])
             /\ cmds'[q] # << >> => cmds[q] # << >>
  <2>1. cmds[q] \in Seq(Command) /\ acks[q] \in Seq(Ack)
    BY DEF TypeOK, LinkOK
  <2>2. \A m : In(m, cmds'[q]) => In(m, cmds[q])
    BY <1>2, <2>1, TailIn
  <2>3. \A a : In(a, acks'[q]) => In(a, acks[q])
    BY <1>2, <2>1, TailIn
  <2>4. InOrder(cmds[q]) => InOrder(cmds'[q])
    BY <1>2, <2>1, TailIn
  <2>5. cmds'[q] # << >> => cmds[q] # << >>
    BY <1>2
  <2> QED BY <2>2, <2>3, <2>4, <2>5
<1>4. Alone'
  BY <1>1, <1>3 DEF TruthInv, Alone, OnAir, drivervars
<1>5. ASSUME NEW q \in Pusher PROVE (Orderly(q) /\ ToldDone(q) /\ ToldUpToDate(q))'
  <2>1. Orderly(q) /\ ToldDone(q) /\ ToldUpToDate(q)
    BY DEF TruthInv
  <2>2. Orderly(q)'
    BY <1>1, <1>3, <2>1 DEF Orderly, drivervars
  <2>3. ToldDone(q)'
    BY <1>1, <1>3, <2>1 DEF ToldDone, Done, Staged, Holds, drivervars, ramvars, flashvars, bootvars, history
  <2>4. ToldUpToDate(q)'
    BY <1>1, <1>3, <2>1 DEF ToldUpToDate, drivervars, ramvars, flashvars, bootvars, history
  <2> QED BY <2>2, <2>3, <2>4
<1> QED BY <1>4, <1>5 DEF TruthInv

\* An answer is one more acknowledgement on the links it reaches.
LEMMA AnswerIn ==
    ASSUME TypeOK, NEW op \in Active, NEW status \in Status, NEW c \in Nat,
           Answer(op, status, c), NEW q \in Pusher
    PROVE  \A a : In(a, acks'[q]) =>
              In(a, acks[q]) \/ (a.op = op /\ a.status = status)
<1> DEFINE x == [op |-> op, status |-> status, chunk |-> c]
<1>1. x \in Ack /\ acks[q] \in Seq(Ack) /\ x.op = op /\ x.status = status
  BY DEF Ack, TypeOK, LinkOK
<1>2. acks'[q] = acks[q] \/ acks'[q] = Sent(acks[q], x)
  BY DEF Answer
<1> HIDE DEF x
<1>3. \A a : In(a, Sent(acks[q], x)) => In(a, acks[q]) \/ a = x
  BY <1>1, SentIn
<1> QED BY <1>1, <1>2, <1>3

\* What the node answers each command with.
Answered(p, op) ==
    \/ UNCHANGED acks
    \/ \E status \in Status, c \in Nat :
        /\ Answer(op, status, c)
        /\ status = "SAME_VER" =>
             op = "PREPARE" /\ mode = "IDLE" /\ Head(cmds[p]).image = version
        /\ op = "END" /\ status = "OK" =>
             Verified(Head(cmds[p]).image) /\ pending' = Size[Head(cmds[p]).image] /\ mode' = "IDLE"

\* A handler answers the operation it was asked.
LEMMA HandleAnswers ==
    ASSUME TypeOK, NEW p \in Pusher, Handle(p)
    PROVE  /\ Prepare(p) => Answered(p, "PREPARE")
           /\ Data(p) => Answered(p, "DATA")
           /\ End(p) => Answered(p, "END")
<1> DEFINE h == Head(cmds[p])
<1>0. \A op : Arrives(p, op) => h.chunk \in Nat
  BY ArrivalType DEF TypeOK
<1>1. 0 \in Nat
  OBVIOUS
<1>2. ASSUME Prepare(p) PROVE Answered(p, "PREPARE")
  <2>1. \/ mode # "IDLE" /\ Answer("PREPARE", "BUSY", 0)
        \/ mode = "IDLE" /\ h.image = version /\ Answer("PREPARE", "SAME_VER", 0)
        \/ \E status \in {"TOO_LARGE", "OK", "ERASE_FAIL"} : Answer("PREPARE", status, 0)
    BY <1>2 DEF Prepare
  <2> QED BY <1>1, <2>1 DEF Answered, Status
<1>3. ASSUME Data(p) PROVE Answered(p, "DATA")
  <2>1. Answer("DATA", "NO_SESSION", h.chunk) \/ Answer("DATA", "OK", h.chunk) \/ Answer("DATA", "FAIL", h.chunk)
    BY <1>3 DEF Data
  <2>2. h.chunk \in Nat
    BY <1>0, <1>3 DEF Data
  <2> HIDE DEF h
  <2> QED BY <2>1, <2>2 DEF Answered, Status
<1>4. ASSUME End(p) PROVE Answered(p, "END")
  <2>1. \/ UNCHANGED acks
        \/ Answer("END", "CRC_FAIL", 0)
        \/ /\ Answer("END", "OK", 0) /\ Verified(h.image) /\ pending' = Size[h.image] /\ mode' = "IDLE"
    BY <1>4 DEF End
  <2> QED BY <1>1, <2>1 DEF Answered, Status
<1> QED BY <1>2, <1>3, <1>4

\* ... when the node handles a command: of the only driver on the air, in turn.
LEMMA HandleTruth ==
    ASSUME IInv, TruthInv, SettleInv, NEW p \in Pusher, Handle(p)
    PROVE  TruthInv'
<1> DEFINE h == Head(cmds[p])
<1>0. /\ TypeOK /\ cmds[p] # << >> /\ cmds[p] \in Seq(Command) /\ power = "RUN"
      /\ cmds' = [cmds EXCEPT ![p] = Tail(@)] /\ UNCHANGED <<drivervars, version>>
  BY DEF Handle, Prepare, Data, End, Arrives, bootvars, IInv, TypeOK, LinkOK
<1>1. PICK op \in Active : h.op = op /\ Answered(p, op)
                           /\ (op = "PREPARE" => Prepare(p)) /\ (op = "DATA" => Data(p)) /\ (op = "END" => End(p))
  <2>1. CASE Prepare(p)
    BY <1>0, <2>1, HandleAnswers DEF Prepare, Arrives, Active
  <2>2. CASE Data(p)
    BY <1>0, <2>2, HandleAnswers DEF Data, Arrives, Active
  <2>3. CASE End(p)
    BY <1>0, <2>3, HandleAnswers DEF End, Arrives, Active
  <2> QED BY <2>1, <2>2, <2>3 DEF Handle
<1>2. ASSUME NEW q \in Pusher
      PROVE  /\ \A m : In(m, cmds'[q]) => In(m, cmds[q])
             /\ InOrder(cmds[q]) => InOrder(cmds'[q])
             /\ cmds'[q] # << >> => cmds[q] # << >>
  <2>1. cmds'[q] = cmds[q] \/ (q = p /\ cmds'[q] = Tail(cmds[q]))
    BY <1>0 DEF TypeOK, LinkOK
  <2> QED BY <1>0, <2>1, TailIn
<1>3. In(h, cmds[p]) /\ \A m : In(m, cmds[p]) => Rank(h.op) <= Rank(m.op)
  <2>1. InOrder(cmds[p])
    BY DEF TruthInv, Orderly
  <2> QED BY <1>0, <2>1, TailIn
<1>4. ASSUME NEW q \in Pusher, NEW a, In(a, acks'[q])
      PROVE  \/ In(a, acks[q])
             \/ /\ a.op = op
                /\ a.status = "SAME_VER" => op = "PREPARE" /\ mode = "IDLE" /\ h.image = version
                /\ op = "END" /\ a.status = "OK" =>
                     Verified(h.image) /\ pending' = Size[h.image] /\ mode' = "IDLE"
  <2>1. CASE UNCHANGED acks
    BY <1>4, <2>1
  <2>2. CASE ~ UNCHANGED acks
    <3>1. PICK status \in Status, c \in Nat :
            /\ Answer(op, status, c)
            /\ status = "SAME_VER" => op = "PREPARE" /\ mode = "IDLE" /\ h.image = version
            /\ op = "END" /\ status = "OK" =>
                 Verified(h.image) /\ pending' = Size[h.image] /\ mode' = "IDLE"
      BY <1>1, <2>2 DEF Answered
    <3>2. In(a, acks[q]) \/ (a.op = op /\ a.status = status)
      BY <1>0, <1>4, <3>1, AnswerIn
    <3> HIDE DEF h
    <3> QED BY <3>1, <3>2
  <2> QED BY <2>1, <2>2
<1>5. Alone'
  BY <1>0, <1>2 DEF TruthInv, Alone, OnAir, drivervars
<1>6. ASSUME NEW q \in Pusher PROVE Orderly(q)'
  <2>1. Orderly(q)
    BY DEF TruthInv
  <2>2. \A a : In(a, acks'[q]) /\ a.status = "SAME_VER" => a.op = "PREPARE"
    BY <1>4, <2>1 DEF Orderly
  <2> QED BY <1>0, <1>2, <2>1, <2>2 DEF Orderly, drivervars
<1>7. ASSUME NEW q \in Pusher, ~ overlapped, phase[q] \in Active PROVE q = p
  BY <1>0, <1>7 DEF TruthInv, Alone, OnAir
<1>8. h.image = job[p] /\ (phase[p] \in Active => Rank(h.op) <= Rank(phase[p]))
  BY <1>3 DEF TruthInv, Orderly
<1>9. ToldDone(p)'
  <2> SUFFICES ASSUME NEW a, ~ overlapped, phase[p] \in Active, In(a, acks'[p]), a.op = "END", a.status = "OK"
               PROVE  /\ Done(job[p])' /\ phase[p] = "END"
                      /\ \A m : In(m, cmds'[p]) => m.op = "END"
    BY <1>0 DEF ToldDone, drivervars
  <2>1. op = "END"
    <3>1. CASE In(a, acks[p])
      BY <1>1, <1>3, <3>1 DEF TruthInv, ToldDone
    <3>2. CASE ~ In(a, acks[p])
      BY <1>4, <3>2
    <3> QED BY <3>1, <3>2
  <2>2. phase[p] = "END"
    <3>1. Rank(h.op) = 3
      BY <1>1, <2>1, RankIs
    <3>2. 3 <= Rank(phase[p])
      BY <1>8, <3>1
    <3>3. Rank(phase[p]) \in 1 .. 3
      BY RankIs
    <3>4. Rank(phase[p]) = 3
      BY <3>2, <3>3
    <3> QED BY <3>4, RankIs
  <2>3. ASSUME NEW m, In(m, cmds'[p]) PROVE m.op = "END"
    <3>1. In(m, cmds[p])
      BY <1>2, <2>3
    <3>2. m \in Command
      BY <1>0, <3>1 DEF In
    <3>3. Rank("END") <= Rank(m.op) /\ m.op \in Active
      BY <1>1, <1>3, <2>1, <3>1, <3>2 DEF Command
    <3> QED BY <3>3, RankIs
  <2>4. End(p)
    BY <1>1, <2>1
  <2>5. Done(job[p])'
    <3>1. CASE In(a, acks[p])
      <4>1. Done(job[p])
        BY <3>1 DEF TruthInv, ToldDone
      <4>2. UNCHANGED <<mode, pending, bank, version, job>>
        BY <1>0, <2>4, <4>1 DEF End, Done, drivervars
      <4> QED BY <4>1, <4>2 DEF Done, Staged, Holds
    <3>2. CASE ~ In(a, acks[p])
      <4>1. Verified(h.image) /\ pending' = Size[h.image] /\ mode' = "IDLE"
        BY <1>4, <2>1, <3>2
      <4>2. UNCHANGED <<bank, job>>
        BY <1>0, <2>4 DEF End, drivervars
      <4> HIDE DEF h
      <4> QED BY <1>8, <4>1, <4>2 DEF Verified, Done, Staged, Holds
    <3> QED BY <3>1, <3>2
  <2> QED BY <2>2, <2>3, <2>5
<1>10. ToldUpToDate(p)'
  <2> SUFFICES ASSUME NEW a, ~ overlapped, phase[p] = "PREPARE", In(a, acks'[p]), a.status = "SAME_VER"
               PROVE  mode' = "IDLE" /\ pending' = 0 /\ version = job[p]
    BY <1>0 DEF ToldUpToDate, drivervars
  <2>1. op = "PREPARE"
    <3>1. phase[p] \in Active
      BY DEF Active
    <3>2. Rank(op) <= 1
      BY <1>1, <1>8, <3>1, RankIs
    <3> QED BY <1>1, <3>2, RankIs DEF Active
  <2>2. Prepare(p)
    BY <1>1, <2>1
  <2>3. pending = 0 /\ pending' = 0
    <3>1. pending = 0
      BY <1>1, <1>3, <2>1 DEF SettleInv, Settling
    <3> QED BY <2>2, <3>1 DEF Prepare
  <2>4. mode = "IDLE" /\ version = job[p]
    <3>1. CASE In(a, acks[p])
      BY <3>1 DEF TruthInv, ToldUpToDate
    <3>2. CASE ~ In(a, acks[p])
      BY <1>4, <1>8, <3>2
    <3> QED BY <3>1, <3>2
  <2>5. mode' = "IDLE"
    BY <1>8, <2>2, <2>4 DEF Prepare
  <2> QED BY <2>3, <2>4, <2>5
<1>11. ASSUME NEW q \in Pusher PROVE ToldDone(q)' /\ ToldUpToDate(q)'
  <2>1. CASE q = p
    BY <1>9, <1>10, <2>1
  <2>2. CASE q # p
    <3>1. ~ overlapped => phase[q] \notin Active
      BY <1>7, <2>2
    <3>2. UNCHANGED <<overlapped, phase>>
      BY <1>0 DEF drivervars
    <3> QED BY <3>1, <3>2 DEF ToldDone, ToldUpToDate, Active
  <2> QED BY <2>1, <2>2
<1> QED BY <1>5, <1>6, <1>11 DEF TruthInv

\* ... when a driver takes a step.
LEMMA DriverTruth ==
    ASSUME TypeOK, TruthInv, NEW p \in Pusher, Driver(p)
    PROVE  TruthInv'
<1>0. /\ UNCHANGED <<mode, pending, version, bank>> /\ (~ overlapped' => ~ overlapped)
      /\ \A q \in Pusher : q # p => /\ phase'[q] = phase[q] /\ job'[q] = job[q] /\ waiting'[q] = waiting[q]
                                    /\ cmds'[q] = cmds[q] /\ acks'[q] = acks[q]
  <2>1. CASE Start(p)
    BY <2>1 DEF Start, linkvars, ramvars, flashvars, bootvars, history, TypeOK, DriverOK
  <2>2. CASE Attempt(p)
    BY <2>2 DEF Attempt, ramvars, flashvars, bootvars, history, TypeOK, DriverOK, LinkOK
  <2>3. CASE Timeout(p)
    BY <2>3 DEF Timeout, Retry, linkvars, ramvars, flashvars, bootvars, history, TypeOK, DriverOK
  <2>4. CASE GiveUp(p)
    BY <2>4 DEF GiveUp, linkvars, ramvars, flashvars, bootvars, history, TypeOK, DriverOK
  <2>5. CASE Acked(p)
    <3>1. /\ UNCHANGED <<cmds, ramvars, flashvars, bootvars, history, job, overlapped>>
          /\ acks' = [acks EXCEPT ![p] = Tail(@)]
      BY <2>5 DEF Acked, Retry, drivervars
    <3>2. \A q \in Pusher : q # p => phase'[q] = phase[q] /\ waiting'[q] = waiting[q]
      BY <2>5 DEF Acked, Advance, Retry, drivervars, TypeOK, DriverOK
    <3>3. \A q \in Pusher : q # p => acks'[q] = acks[q]
      BY <3>1 DEF TypeOK, LinkOK
    <3> QED BY <3>1, <3>2, <3>3 DEF ramvars, flashvars, bootvars, history
  <2> QED BY <2>1, <2>2, <2>3, <2>4, <2>5 DEF Driver
<1>1. \A q \in Pusher : q # p => (Orderly(q) /\ ToldDone(q) /\ ToldUpToDate(q))'
  BY <1>0, TruthFrame
<1>2. \A i \in Image : Done(i)' = Done(i)
  BY <1>0 DEF Done, Staged, Holds
<1>3. /\ p \in Pusher /\ phase \in [Pusher -> Phase] /\ job \in [Pusher -> Image]
      /\ waiting \in [Pusher -> BOOLEAN] /\ cmds \in [Pusher -> Seq(Command)]
      /\ acks \in [Pusher -> Seq(Ack)] /\ cmds[p] \in Seq(Command) /\ acks[p] \in Seq(Ack)
      /\ \A q \in Pusher : waiting[q] => tries[q] < MaxTries
  BY DEF TypeOK, DriverOK, LinkOK
<1>4. Orderly(p) /\ ToldDone(p) /\ ToldUpToDate(p) /\ Alone
  BY DEF TruthInv
<1>5. SUFFICES Alone' /\ (Orderly(p) /\ ToldDone(p) /\ ToldUpToDate(p))'
  BY <1>1 DEF TruthInv
\* No other comes on the air.
<1>6. ASSUME OnAir(p)' => OnAir(p), UNCHANGED overlapped PROVE Alone'
  <2>1. \A q \in Pusher : OnAir(q)' => OnAir(q)
    BY <1>0, <1>6 DEF OnAir
  <2> QED BY <1>4, <1>6, <2>1 DEF Alone
<1>7. CASE Start(p)
  <2>1. /\ cmds'[p] = << >> /\ acks'[p] = << >> /\ ~ waiting'[p]
        /\ ~ overlapped' => ~ overlapped /\ ~ \E q \in Pusher \ {p} : phase[q] \in Active \/ cmds[q] # << >>
    <3>1. cmds'[p] = << >> /\ acks'[p] = << >>
      BY <1>7 DEF Start, linkvars
    <3>2. waiting'[p] = FALSE
      BY <1>3, <1>7 DEF Start
    <3>3. ~ overlapped' => ~ overlapped /\ ~ \E q \in Pusher \ {p} : phase[q] \in Active \/ cmds[q] # << >>
      BY <1>7 DEF Start
    <3> QED BY <3>1, <3>2, <3>3
  <2>2. \A m : ~ In(m, << >>)
    BY DEF In
  <2>3. InOrder(<< >>)
    BY DEF InOrder
  <2>4. (Orderly(p) /\ ToldDone(p) /\ ToldUpToDate(p))'
    BY <2>1, <2>2, <2>3 DEF Orderly, ToldDone, ToldUpToDate
  <2>5. Alone'
    <3> SUFFICES ASSUME ~ overlapped', NEW q \in Pusher, NEW r \in Pusher, OnAir(q)', OnAir(r)' PROVE q = r
      BY DEF Alone
    <3>1. \A o \in Pusher \ {p} : ~ OnAir(o)'
      BY <1>0, <2>1 DEF OnAir
    <3> QED BY <3>1
  <2> QED BY <2>4, <2>5
<1>8. CASE Attempt(p)
  <2> DEFINE x == [op |-> phase[p], image |-> job[p], chunk |-> off[p]]
  <2>1. /\ phase[p] \in Active /\ cmds'[p] = Sent(cmds[p], x)
        /\ UNCHANGED <<phase, job, acks, overlapped>>
    BY <1>3, <1>8 DEF Attempt
  <2>2. x \in Command /\ x.op = phase[p] /\ x.image = job[p]
    BY <1>3, <2>1 DEF Command, TypeOK, DriverOK
  <2> HIDE DEF x
  <2>3. \A m : In(m, cmds'[p]) => In(m, cmds[p]) \/ m = x
    BY <1>3, <2>1, <2>2, SentIn
  <2>4. InOrder(cmds'[p])
    <3>1. InOrder(cmds[p]) /\ \A m : In(m, cmds[p]) => Rank(m.op) <= Rank(x.op)
      BY <1>4, <2>1, <2>2 DEF Orderly
    <3> QED BY <1>3, <2>1, <2>2, <3>1, SentIn
  <2>5. Orderly(p)'
    <3>1. Rank(phase[p]) \in 1 .. 3
      BY <2>1, RankIs
    <3>2. \A m : In(m, cmds'[p]) => m.image = job[p] /\ Rank(m.op) <= Rank(phase[p])
      BY <1>4, <2>1, <2>2, <2>3, <3>1 DEF Orderly
    <3>3. \A a : In(a, acks[p]) /\ a.status = "SAME_VER" => a.op = "PREPARE"
      BY <1>4 DEF Orderly
    <3> QED BY <2>1, <2>4, <3>2, <3>3 DEF Orderly
  <2>6. ToldDone(p)'
    <3> SUFFICES ASSUME NEW a, ~ overlapped, In(a, acks[p]), a.op = "END", a.status = "OK"
                 PROVE  /\ Done(job[p])' /\ phase[p] = "END"
                        /\ \A m : In(m, cmds'[p]) => m.op = "END"
      BY <2>1 DEF ToldDone
    <3>1. Done(job[p]) /\ phase[p] = "END" /\ \A m : In(m, cmds[p]) => m.op = "END"
      BY <1>4, <2>1 DEF ToldDone
    <3>2. Done(job[p])'
      BY <1>2, <1>3, <2>1, <3>1
    <3> QED BY <2>2, <2>3, <3>1, <3>2
  <2>7. ToldUpToDate(p)'
    BY <1>0, <1>4, <2>1 DEF ToldUpToDate
  <2>8. Alone'
    BY <1>6, <2>1 DEF OnAir
  <2> QED BY <2>5, <2>6, <2>7, <2>8
\* It hears no more than before, and its phase stays or is over.
<1>9. ASSUME UNCHANGED <<job, cmds, overlapped>>,
             \A a : In(a, acks'[p]) => In(a, acks[p]),
             phase'[p] = phase[p] \/ phase'[p] \notin Active,
             waiting'[p] => waiting[p] /\ phase'[p] = phase[p]
      PROVE  Alone' /\ (Orderly(p) /\ ToldDone(p) /\ ToldUpToDate(p))'
  <2>1. Orderly(p)'
    BY <1>4, <1>9 DEF Orderly
  <2>2. ToldDone(p)'
    BY <1>2, <1>3, <1>4, <1>9 DEF ToldDone
  <2>3. ToldUpToDate(p)'
    <3>1. "PREPARE" \in Active
      BY DEF Active
    <3> QED BY <1>0, <1>4, <1>9, <3>1 DEF ToldUpToDate
  <2>4. Alone'
    BY <1>6, <1>9 DEF OnAir
  <2> QED BY <2>1, <2>2, <2>3, <2>4
<1>10. CASE Timeout(p)
  <2>1. /\ UNCHANGED <<job, cmds, acks, overlapped, phase>>
        /\ waiting' = [waiting EXCEPT ![p] = FALSE]
    BY <1>10 DEF Timeout, Retry, linkvars
  <2>2. waiting'[p] = FALSE
    BY <1>3, <2>1
  <2> QED BY <1>9, <2>1, <2>2
<1>11. CASE GiveUp(p)
  <2>1. /\ UNCHANGED <<job, cmds, acks, overlapped, waiting>>
        /\ phase'[p] = "ERROR" /\ tries[p] = MaxTries
    BY <1>3, <1>11 DEF GiveUp, linkvars
  <2>2. ~ waiting[p]
    BY <1>3, <2>1
  <2>3. "ERROR" \notin Active
    BY DEF Active
  <2> QED BY <1>9, <2>1, <2>2, <2>3
<1>12. CASE Acked(p)
  <2> DEFINE h == Head(acks[p])
  <2>1. /\ acks[p] # << >> /\ acks'[p] = Tail(acks[p]) /\ UNCHANGED <<job, cmds, overlapped>>
    BY <1>3, <1>12 DEF Acked, Retry, drivervars
  <2>2. \A a : In(a, acks'[p]) => In(a, acks[p])
    BY <1>3, <2>1, TailIn
  <2>3. CASE Matches(p, h) /\ Advance(p) /\ waiting' = [waiting EXCEPT ![p] = FALSE]
    <3>1. waiting'[p] = FALSE
      BY <1>3, <2>3
    <3>2. phase[p] \in Active
      BY <1>4, <2>3 DEF Matches, Orderly
    <3>3. \/ phase'[p] = phase[p] \/ phase'[p] \notin Active
          \/ phase[p] = "PREPARE" /\ phase'[p] = "DATA"
          \/ phase[p] = "DATA" /\ phase'[p] = "END"
      BY <1>3, <2>3 DEF Advance, Active
    <3>4. CASE phase'[p] = phase[p] \/ phase'[p] \notin Active
      BY <1>9, <2>1, <2>2, <3>1, <3>4
    <3>5. CASE \/ phase[p] = "PREPARE" /\ phase'[p] = "DATA"
               \/ phase[p] = "DATA" /\ phase'[p] = "END"
      <4>1. Rank(phase[p]) \in 1 .. 2 /\ Rank(phase[p]) <= Rank(phase'[p])
            /\ Rank(phase'[p]) \in 1 .. 3 /\ phase[p] # "END" /\ phase'[p] # "PREPARE"
        BY <3>5, RankIs
      <4>2. \A m \in Command : Rank(m.op) \in 1 .. 3
        BY RankIs DEF Command
      <4>3. \A m : In(m, cmds[p]) => m \in Command
        BY <1>3 DEF In
      <4>4. ASSUME NEW m, In(m, cmds[p]) PROVE m.image = job[p] /\ Rank(m.op) <= Rank(phase'[p])
        <5>1. m.image = job[p] /\ Rank(m.op) <= Rank(phase[p])
          BY <1>4, <3>2, <4>4 DEF Orderly
        <5>2. Rank(m.op) \in 1 .. 3
          BY <4>2, <4>3, <4>4
        <5> QED BY <4>1, <5>1, <5>2
      <4>5. Orderly(p)'
        BY <1>4, <2>1, <2>2, <3>1, <4>4 DEF Orderly
      <4>6. ToldDone(p)'
        BY <1>4, <2>1, <2>2, <3>2, <4>1 DEF ToldDone
      <4>7. ToldUpToDate(p)'
        BY <4>1 DEF ToldUpToDate
      <4>8. Alone'
        BY <1>6, <2>1, <3>2 DEF OnAir
      <4> QED BY <4>5, <4>6, <4>7, <4>8
    <3> QED BY <3>3, <3>4, <3>5
  <2>4. CASE phase' = [phase EXCEPT ![p] = "UP_TO_DATE"] /\ waiting' = [waiting EXCEPT ![p] = FALSE]
    <3>1. phase'[p] = "UP_TO_DATE" /\ waiting'[p] = FALSE
      BY <1>3, <2>4
    <3>2. "UP_TO_DATE" \notin Active
      BY DEF Active
    <3> QED BY <1>9, <2>1, <2>2, <3>1, <3>2
  <2>5. CASE UNCHANGED phase /\ (waiting' = [waiting EXCEPT ![p] = FALSE] \/ UNCHANGED waiting)
    <3>1. waiting'[p] = FALSE \/ waiting'[p] = waiting[p]
      BY <1>3, <2>5
    <3> QED BY <1>9, <2>1, <2>2, <2>5, <3>1
  <2> QED BY <1>12, <2>3, <2>4, <2>5 DEF Acked, Retry, drivervars
<1> QED BY <1>7, <1>8, <1>10, <1>11, <1>12 DEF Driver

\* Only the END of a lone push makes its image pending, and by then the push has
\* sent nothing else.
LEMMA HandleSettles ==
    ASSUME IInv, TruthInv, SettleInv, NEW p \in Pusher, Handle(p)
    PROVE  SettleInv'
<1> DEFINE h == Head(cmds[p])
<1>0. /\ cmds[p] # << >> /\ cmds[p] \in Seq(Command)
      /\ cmds' = [cmds EXCEPT ![p] = Tail(@)] /\ UNCHANGED drivervars
      /\ cmds \in [Pusher -> Seq(Command)]
  BY DEF Handle, Prepare, Data, End, Arrives, IInv, TypeOK, LinkOK
<1>1. UNCHANGED <<phase, overlapped>>
  BY <1>0 DEF drivervars
<1>2. /\ In(h, cmds[p]) /\ h \in Command
      /\ \A m : In(m, cmds[p]) => Rank(h.op) <= Rank(m.op) /\ m \in Command
  <2>1. InOrder(cmds[p])
    BY DEF TruthInv, Orderly
  <2>2. In(h, cmds[p]) /\ \A m : In(m, cmds[p]) => Rank(h.op) <= Rank(m.op)
    BY <1>0, <2>1, TailIn
  <2>3. \A m : In(m, cmds[p]) => m \in Command
    BY <1>0 DEF In
  <2> QED BY <2>2, <2>3
<1>3. \A q \in Pusher : \A m : In(m, cmds'[q]) => In(m, cmds[q])
  <2> SUFFICES ASSUME NEW q \in Pusher PROVE \A m : In(m, cmds'[q]) => In(m, cmds[q])
    OBVIOUS
  <2>1. cmds'[q] = cmds[q] \/ (q = p /\ cmds'[q] = Tail(cmds[q]))
    BY <1>0
  <2> QED BY <1>0, <2>1, TailIn
<1>4. CASE UNCHANGED <<pending, trampled>>
  BY <1>1, <1>3, <1>4 DEF SettleInv, Settling
<1>5. CASE Prepare(p)
  <2>1. pending' = pending
    BY <1>5 DEF Prepare
  <2>2. ~ overlapped => pending = 0
    <3>1. h.op = "PREPARE"
      BY <1>5 DEF Prepare, Arrives
    <3> HIDE DEF h
    <3> QED BY <1>2, <3>1 DEF SettleInv, Settling
  <2>3. ~ overlapped => ~ trampled'
    BY <1>5, <2>2 DEF Prepare, SettleInv
  <2> QED BY <1>1, <2>1, <2>2, <2>3 DEF SettleInv, Settling
<1>6. CASE End(p)
  <2>1. trampled' = trampled /\ h.op = "END"
    BY <1>6 DEF End, Arrives, history
  <2>2. ASSUME NEW q \in Pusher, ~ overlapped PROVE Settling(q)'
    <3>1. CASE q = p
      <4>1. \A m : In(m, cmds'[p]) => m.op = "END"
        <5> SUFFICES ASSUME NEW m, In(m, cmds'[p]) PROVE m.op = "END"
          OBVIOUS
        <5>1. Rank("END") <= Rank(m.op) /\ m.op \in Active
          BY <1>2, <1>3, <2>1 DEF Command
        <5> QED BY <5>1, RankIs
      <4>2. phase[p] \in Active => phase[p] = "END"
        <5> SUFFICES ASSUME phase[p] \in Active PROVE phase[p] = "END"
          OBVIOUS
        <5>1. Rank("END") <= Rank(phase[p])
          BY <1>2, <2>1 DEF TruthInv, Orderly
        <5> QED BY <5>1, RankIs
      <4> QED BY <1>1, <3>1, <4>1, <4>2 DEF Settling
    <3>2. CASE q # p
      <4>1. ~ OnAir(q)
        BY <1>0, <2>2, <3>2 DEF TruthInv, Alone, OnAir
      <4>2. \A m : ~ In(m, cmds[q])
        BY <4>1 DEF OnAir, In
      <4> QED BY <1>1, <1>3, <4>1, <4>2 DEF Settling, OnAir
    <3> QED BY <3>1, <3>2
  <2>3. overlapped => \A q \in Pusher : Settling(q)'
    BY <1>1 DEF Settling
  <2> QED BY <1>1, <2>1, <2>2, <2>3 DEF SettleInv
<1> QED BY <1>4, <1>5, <1>6 DEF Handle, Data, history

\* The other steps make nothing pending, and none of them adds but END.
LEMMA SettleStep ==
    ASSUME IInv, TruthInv, SettleInv, [Next]_vars
    PROVE  SettleInv'
<1>1. ASSUME NEW p \in Pusher, Handle(p) PROVE SettleInv'
  BY <1>1, HandleSettles
<1>2. ASSUME UNCHANGED <<trampled, pending>>, overlapped => overlapped',
             \A q \in Pusher : \/ phase'[q] = phase[q] \/ phase'[q] \notin Active
                               \/ phase[q] # "END" /\ phase[q] \in Active
                               \/ overlapped' \/ pending = 0,
             \A q \in Pusher : \A m : In(m, cmds'[q]) =>
                  In(m, cmds[q]) \/ (m.op = phase[q] /\ phase[q] \in Active)
      PROVE  SettleInv'
  BY <1>2 DEF SettleInv, Settling
<1>3. ASSUME NEW p \in Pusher, Driver(p) PROVE SettleInv'
  <2>0. /\ phase \in [Pusher -> Phase] /\ cmds \in [Pusher -> Seq(Command)]
        /\ overlapped \in BOOLEAN
    BY DEF IInv, TypeOK, DriverOK, LinkOK
  <2>1. CASE Start(p)
    <3>1. UNCHANGED <<cmds, trampled, pending>> /\ (overlapped => overlapped')
          /\ (overlapped' \/ pending = 0)
      BY <2>1 DEF Start, linkvars, flashvars, history
    <3> QED BY <1>2, <3>1
  <2>2. CASE Attempt(p)
    <3> DEFINE x == [op |-> phase[p], image |-> job[p], chunk |-> off[p]]
    <3>1. /\ UNCHANGED <<phase, overlapped, trampled, pending>> /\ phase[p] \in Active
          /\ \A q \in Pusher : cmds'[q] = cmds[q] \/ (q = p /\ cmds'[q] = Sent(cmds[q], x))
      BY <2>0, <2>2 DEF Attempt, flashvars, history
    <3>2. x \in Command /\ x.op = phase[p]
      BY <3>1 DEF Command, IInv, TypeOK, DriverOK
    <3> HIDE DEF x
    <3>3. \A q \in Pusher : \A m : In(m, cmds'[q]) =>
             In(m, cmds[q]) \/ (m.op = phase[q] /\ phase[q] \in Active)
      BY <2>0, <3>1, <3>2, SentIn
    <3> QED BY <1>2, <3>1, <3>3
  <2>3. CASE Timeout(p)
    BY <1>2, <2>3 DEF Timeout, Retry, linkvars, flashvars, history
  <2>4. CASE GiveUp(p)
    <3>1. \A q \in Pusher : phase'[q] = phase[q] \/ phase'[q] \notin Active
      BY <2>0, <2>4 DEF GiveUp, Active
    <3> QED BY <1>2, <2>4, <3>1 DEF GiveUp, linkvars, flashvars, history
  <2>5. CASE Acked(p)
    <3>1. UNCHANGED <<cmds, overlapped, trampled, pending>>
      BY <2>5 DEF Acked, Retry, drivervars, flashvars, history
    <3>2. \A q \in Pusher : \/ phase'[q] = phase[q] \/ phase'[q] \notin Active
                            \/ phase[q] # "END" /\ phase[q] \in Active
      BY <2>0, <2>5 DEF Acked, Advance, Retry, drivervars, Active
    <3> QED BY <1>2, <3>1, <3>2
  <2> QED BY <1>3, <2>1, <2>2, <2>3, <2>4, <2>5 DEF Driver
<1>4. ASSUME NEW p \in Pusher, Lose(p) PROVE SettleInv'
  <2>1. UNCHANGED <<phase, overlapped, trampled, pending>>
    BY <1>4 DEF Lose, drivervars, flashvars, history
  <2>2. \A q \in Pusher : cmds'[q] = cmds[q] \/ (cmds[q] # << >> /\ cmds'[q] = Tail(cmds[q]))
    BY <1>4 DEF Lose, IInv, TypeOK, LinkOK
  <2>3. \A q \in Pusher : \A m : In(m, cmds'[q]) => In(m, cmds[q])
    <3> SUFFICES ASSUME NEW q \in Pusher PROVE \A m : In(m, cmds'[q]) => In(m, cmds[q])
      OBVIOUS
    <3>1. cmds[q] \in Seq(Command)
      BY DEF IInv, TypeOK, LinkOK
    <3> QED BY <2>2, <3>1, TailIn
  <2> QED BY <1>2, <2>1, <2>3
<1>5. CASE UNCHANGED vars
  BY <1>2, <1>5 DEF vars, drivervars, linkvars, flashvars, history
<1>6. CASE IdleTimeout \/ Restart \/ PowerLoss
  <2>1. UNCHANGED <<phase, overlapped, cmds, trampled>> /\ (pending' = pending \/ pending' = 0)
    BY <1>6 DEF IdleTimeout, Restart, Reboot, BeginCopy, BootUp, CopyChunk, EndCopy, PowerLoss,
                drivervars, linkvars, flashvars, history
  <2> QED BY <2>1 DEF SettleInv, Settling
<1> QED BY <1>1, <1>3, <1>4, <1>5, <1>6 DEF Next

\* What is heard is so when it is heard.
LEMMA HeardIsTrue ==
    ASSUME TypeOK, TruthInv, [Next]_vars
    PROVE  [~ overlapped => OutcomesAreTrue]_vars
<1> SUFFICES ASSUME Next, ~ overlapped, NEW p \in Pusher
             PROVE  /\ Told(p, "DONE") => Staged(job[p]) \/ version = job[p]
                    /\ Told(p, "UP_TO_DATE") => version = job[p]
  BY DEF OutcomesAreTrue
<1> SUFFICES ASSUME NEW outcome \in {"DONE", "UP_TO_DATE"}, Told(p, outcome)
             PROVE  \/ outcome = "DONE" /\ Done(job[p])
                    \/ outcome = "UP_TO_DATE" /\ version = job[p]
  BY DEF Done
<1>0. phase \in [Pusher -> Phase] /\ phase'[p] = outcome /\ phase[p] # outcome
  BY DEF TypeOK, DriverOK, Told
<1>1. Acked(p)
  <2>1. \A q \in Pusher : Handle(q) \/ Lose(q) => UNCHANGED phase
    BY DEF Handle, Prepare, Data, End, Lose, drivervars
  <2>2. IdleTimeout \/ Restart \/ PowerLoss => UNCHANGED phase
    BY DEF IdleTimeout, Restart, Reboot, BeginCopy, BootUp, CopyChunk, EndCopy, PowerLoss, drivervars
  <2>3. PICK q \in Pusher : Driver(q)
    BY <1>0, <2>1, <2>2 DEF Next
  <2>4. ~ Start(q) /\ ~ Attempt(q) /\ ~ Timeout(q) /\ ~ GiveUp(q)
    BY <1>0 DEF Start, Attempt, Timeout, Retry, GiveUp
  <2>5. Acked(q)
    BY <2>3, <2>4 DEF Driver
  <2>6. q = p
    BY <1>0, <2>5 DEF Acked, Advance, Retry, drivervars
  <2> QED BY <2>5, <2>6
<1> DEFINE h == Head(acks[p])
<1>2. /\ Matches(p, h)
      /\ \/ h.status = "OK" /\ Advance(p)
         \/ h.status = "SAME_VER" /\ outcome = "UP_TO_DATE"
  <2>1. \/ Matches(p, h) /\ h.status = "OK" /\ Advance(p)
        \/ Matches(p, h) /\ h.status = "SAME_VER" /\ phase' = [phase EXCEPT ![p] = "UP_TO_DATE"]
        \/ UNCHANGED phase
    BY <1>1 DEF Acked, Retry, drivervars
  <2> QED BY <1>0, <2>1
<1>3. In(h, acks[p])
  <2>1. acks[p] # << >> /\ acks[p] \in Seq(Ack)
    BY <1>1 DEF Acked, TypeOK, LinkOK
  <2> QED BY <2>1, TailIn
<1>4. waiting[p] /\ h.op = phase[p] /\ phase[p] \in Active
  BY <1>2 DEF Matches, TruthInv, Orderly
<1>5. CASE h.status = "OK" /\ Advance(p)
  <2>1. phase[p] = "END" /\ outcome = "DONE"
    BY <1>0, <1>5 DEF Advance
  <2>2. Done(job[p])
    BY <1>3, <1>4, <1>5, <2>1 DEF TruthInv, ToldDone
  <2> QED BY <2>1, <2>2
<1>6. CASE h.status = "SAME_VER" /\ outcome = "UP_TO_DATE"
  <2>1. phase[p] = "PREPARE"
    BY <1>3, <1>4, <1>6 DEF TruthInv, Orderly
  <2> QED BY <1>3, <1>6, <2>1 DEF TruthInv, ToldUpToDate
<1> QED BY <1>2, <1>5, <1>6

\* An operator who pushes alone is told the truth, whatever was lost, repeated
\* or late on the way, however often the node restarted, and whoever pushed before.
THEOREM LonePushesAreToldTheTruth == Spec => LonePushesAreTrue
<1>1. IInv /\ TruthInv /\ SettleInv /\ [Next]_vars => (TruthInv /\ SettleInv)'
  <2> SUFFICES ASSUME IInv, TruthInv, SettleInv, [Next]_vars PROVE TruthInv'
    BY SettleStep
  <2>1. ASSUME NEW p \in Pusher, Driver(p) PROVE TruthInv'
    BY <2>1, DriverTruth DEF IInv
  <2>2. ASSUME NEW p \in Pusher, Handle(p) PROVE TruthInv'
    BY <2>2, HandleTruth
  <2>3. ASSUME NEW p \in Pusher, Lose(p) PROVE TruthInv'
    BY <2>3, LoseTruth DEF IInv
  <2>4. CASE UNCHANGED vars
    <3>1. UNCHANGED <<drivervars, linkvars, mode, pending, version, bank>>
      BY <2>4 DEF vars, ramvars, flashvars, bootvars, history
    <3>2. \A q \in Pusher : (Orderly(q) /\ ToldDone(q) /\ ToldUpToDate(q))'
      BY <3>1, TruthFrame DEF drivervars, linkvars
    <3>3. Alone'
      BY <3>1 DEF TruthInv, Alone, OnAir, drivervars, linkvars
    <3> QED BY <3>2, <3>3 DEF TruthInv
  <2> QED BY <2>1, <2>2, <2>3, <2>4, RestartTruth DEF Next
<1>2. IInv /\ TruthInv /\ [Next]_vars => [~ overlapped => OutcomesAreTrue]_vars
  BY HeardIsTrue DEF IInv
<1>3. Init => TruthInv /\ SettleInv
  BY TruthInit DEF Init, SettleInv, Settling
<1> QED BY <1>1, <1>2, <1>3, Invariant, PTL DEF Spec, LonePushesAreTrue

=============================================================================
