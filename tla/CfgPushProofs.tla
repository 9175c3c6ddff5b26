--------------------------- MODULE CfgPushProofs ---------------------------
(***************************************************************************)
(* Theorems about a configuration push: first about its target alone       *)
(* (CfgOta), then about the target and the driver together (CfgPush), for  *)
(* every set of settings, any number of attempts and jobs, and links of    *)
(* any depth.                                                              *)
(*                                                                         *)
(* Of the target: type correctness, the exclusion of the sessions and the  *)
(* bound on the pings hold whatever the power, the mesh and the operator   *)
(* do.  That the node is not stranded is proved of every behaviour up to   *)
(* the first of three things that do strand it: a page rewrite cut by a    *)
(* power failure, a PONG to the ping of another node that settles a check  *)
(* nobody heard, and a command that takes settings nobody hears or comes   *)
(* in the middle of a check.  The history variables torn, misled and       *)
(* retuned say whether one has happened.                                   *)
(*                                                                         *)
(* Of both: a target that is driven by this driver is the target of        *)
(* CfgOta, so what was proved of that holds here; and what the operator of *)
(* a lone push is told is true.  The argument follows the push through     *)
(* four conditions of the target, of which the verdicts name the last two. *)
(* That a command of the same push, late or repeated, cannot bring the     *)
(* target from one of the later conditions back to a commit rests on the   *)
(* order of the commands: behind an END there are ENDs only, and only a    *)
(* PREPARE opens a session.                                                *)
(***************************************************************************)
EXTENDS CfgPush, TLAPS

----------------------------------------------------------------------------
(* The target. *)

(***************************************************************************)
(* Type correctness.                                                       *)
(***************************************************************************)

\* A boot leaves every variable within its type, whatever the page holds.
LEMMA BootType ==
    ASSUME TypeOK, Boot, losses' \in 0 .. MaxPowerLosses, torn' \in BOOLEAN
    PROVE  TypeOK'
<1>1. /\ flash' \in PageRecord /\ image' \in PageRecord /\ live' \in Setting
      /\ staged' \in Setting /\ pings' \in Nat
  BY DEF TypeOK, Boot, PageRecord
<1>2. /\ cursor' \in 0 .. LastSlot + 1 /\ after' = "NONE" /\ cfgota_state' = "IDLE"
      /\ ota' = FALSE /\ reboot' = FALSE /\ verify_waiting' = FALSE
      /\ radio_ok' \in BOOLEAN
  BY DEF Boot, LastSlot
<1>3. verify_active' \in BOOLEAN
  BY ZenonT(20) DEF Boot
<1>4. tries' \in 0 .. MaxTries \cup {Blank}
  BY CfgOtaAssumption DEF TypeOK, Boot, PageRecord
<1>5. out' \in AckRecord
  BY DEF Boot, NoAck, Ack, AckRecord
<1>6. misled' \in BOOLEAN /\ retuned' \in BOOLEAN
  BY DEF TypeOK, Boot
<1>7. QED BY <1>1, <1>2, <1>3, <1>4, <1>5, <1>6 DEF TypeOK

\* A rewrite of the page starts within its type.
LEMMA StartWriteType ==
    ASSUME NEW page \in PageRecord,
           NEW h \in {"END", "PING", "PONG", "ROLLBACK", "OTA"}, StartWrite(page, h)
    PROVE  /\ flash' \in PageRecord /\ image' \in PageRecord
           /\ cursor' \in 0 .. LastSlot + 1
           /\ after' \in {"NONE", "END", "PING", "PONG", "ROLLBACK", "OTA"}
  BY CfgOtaAssumption DEF StartWrite, PageRecord, ErasedPage, LastSlot, Blank

\* So does its end.
LEMMA WrittenType ==
    ASSUME TypeOK, NEW h, Written(h)
    PROVE  /\ flash' \in PageRecord /\ image' \in PageRecord
           /\ cursor' \in 0 .. LastSlot + 1
           /\ after' \in {"NONE", "END", "PING", "PONG", "ROLLBACK", "OTA"}
  BY DEF Written, TypeOK, LastSlot

\* The acknowledgements the handlers queue.
LEMMA AckType ==
    /\ NoAck \in AckRecord
    /\ \A op \in {"PREPARE", "DATA", "END", "RESULT", "OTA", "CMD"} :
       \A st \in {"OK", "BUSY", "BAD_SIZE", "BAD_VALUE", "CRC_FAIL", "VERIFIED", "ROLLBACK"} :
           Ack(op, st) \in AckRecord
  BY DEF NoAck, Ack, AckRecord

\* What leaves the history alone keeps its type.
LEMMA HistoryType ==
    ASSUME TypeOK, UNCHANGED history
    PROVE  torn' \in BOOLEAN /\ misled' \in BOOLEAN /\ retuned' \in BOOLEAN
  BY ZenonT(20) DEF TypeOK, history

\* TypeOK is preserved by every step.
LEMMA TypeStep == TypeOK /\ [Next]_vars => TypeOK'
<1> SUFFICES ASSUME TypeOK, [Next]_vars PROVE TypeOK'
  OBVIOUS
<1> USE CfgOtaAssumption
<1>1. CASE Program
  <2>1. CASE ProgramSlot
    <3>1. flash' \in PageRecord
      BY <2>1 DEF ProgramSlot, TypeOK, PageRecord, SlotOrder, LastSlot
    <3>2. QED
      BY <2>1, <3>1, HistoryType DEF ProgramSlot, TypeOK, verifyvars, LastSlot
  <2>2. CASE EndWritten
    BY <2>2, WrittenType, AckType, HistoryType DEF EndWritten, TypeOK, verifyvars
  <2>3. CASE OtaWritten
    BY <2>3, WrittenType, AckType, HistoryType DEF OtaWritten, TypeOK, verifyvars
  <2>4. CASE PingWritten
    BY <2>4, WrittenType, AckType, HistoryType DEF PingWritten, TypeOK, verifyvars
  <2>5. CASE RollbackWritten
    BY <2>5, WrittenType, AckType, HistoryType DEF RollbackWritten, TypeOK, verifyvars
  <2>6. CASE PongWritten
    BY <2>6, WrittenType, AckType, HistoryType DEF PongWritten, TypeOK, verifyvars
  <2>7. QED BY <1>1, <2>1, <2>2, <2>3, <2>4, <2>5, <2>6 DEF Program
<1>2. CASE Check
  <2>1. CASE AttemptTimeout
    BY <2>1, HistoryType DEF AttemptTimeout, TypeOK, flashvars
  <2>2. CASE SendPing
    <3>1. Counted \in PageRecord /\ tries' \in 0 .. MaxTries \cup {Blank}
      BY <2>2 DEF SendPing, Counted, TypeOK, PageRecord, Blank
    <3>2. QED BY <2>2, <3>1, StartWriteType, HistoryType DEF SendPing, TypeOK
  <2>3. CASE RollBack
    <3>1. RolledBack \in PageRecord /\ Restored \in Setting
      BY DEF RolledBack, Restored, TypeOK, PageRecord
    <3>2. QED BY <2>3, <3>1, StartWriteType, HistoryType DEF RollBack, TypeOK, verifyvars
  <2>4. QED BY <1>2, <2>1, <2>2, <2>3 DEF Check
<1>3. CASE Frames
  <2>1. ASSUME NEW b \in BOOLEAN, Prepare(b) PROVE TypeOK'
    BY <2>1, AckType, HistoryType DEF Prepare, TypeOK, flashvars, verifyvars
  <2>2. CASE OtaPrepare
    BY <2>2, AckType, HistoryType DEF OtaPrepare, TypeOK, flashvars, verifyvars
  <2>3. CASE OtaEnd
    BY <2>3, StartWriteType, HistoryType DEF OtaEnd, TypeOK, verifyvars
  <2>4. ASSUME NEW v \in Setting, NEW b \in BOOLEAN, Data(v, b) PROVE TypeOK'
    BY <2>4, AckType, HistoryType DEF Data, TypeOK, flashvars, verifyvars
  <2>5. ASSUME NEW v \in Setting, End(v) PROVE TypeOK'
    <3>1. CASE StartWrite(Provisional, "END") /\ pings' = 0 /\ UNCHANGED <<cfgota_state, out>>
      <4>1. Provisional \in PageRecord
        BY DEF Provisional, TypeOK, PageRecord
      <4>2. QED BY <2>5, <3>1, <4>1, StartWriteType, HistoryType DEF End, TypeOK, verifyvars
    <3>2. CASE UNCHANGED <<flashvars, pings>>
      BY <2>5, <3>2, AckType, HistoryType DEF End, TypeOK, flashvars, verifyvars
    <3>3. QED BY <2>5, <3>1, <3>2 DEF End, flashvars
  <2>6. ASSUME NEW v \in Setting, Command(v) PROVE TypeOK'
    <3>1. retuned' \in BOOLEAN
      BY <2>6 DEF Command
    <3>2. QED BY <2>6, <3>1, AckType, HistoryType DEF Command, TypeOK, flashvars, verifyvars
  <2>7. QED BY <1>3, <2>1, <2>2, <2>3, <2>4, <2>5, <2>6 DEF Frames
<1>4. CASE IdleTimeout
  BY <1>4, HistoryType DEF IdleTimeout, TypeOK, flashvars, verifyvars
<1>5. CASE OtaTimeout
  BY <1>5, HistoryType DEF OtaTimeout, TypeOK, flashvars, verifyvars
<1>6. CASE Reboot
  BY <1>6, BootType DEF Reboot, TypeOK
<1>7. CASE PowerLoss
  <2>1. losses' \in 0 .. MaxPowerLosses /\ torn' \in BOOLEAN
    BY <1>7 DEF PowerLoss, TypeOK
  <2>2. QED BY <1>7, <2>1, BootType DEF PowerLoss
<1>9. CASE Pong
  <2>1. Confirmed \in PageRecord
    BY DEF Confirmed, TypeOK, PageRecord
  <2>2. CASE verify_active /\ verify_waiting
    <3>1. misled' \in BOOLEAN
      BY <1>9, <2>2 DEF Pong
    <3>2. QED BY <1>9, <2>1, <2>2, <3>1, StartWriteType, HistoryType DEF Pong, TypeOK
  <2>3. CASE ~ (verify_active /\ verify_waiting)
    BY <1>9, <2>3, HistoryType DEF Pong, TypeOK, flashvars
  <2>4. QED BY <2>2, <2>3
<1>10. CASE AckSent
  BY <1>10, AckType, HistoryType DEF AckSent, TypeOK, flashvars, verifyvars
<1>11. CASE UNCHANGED vars
  BY <1>11, HistoryType DEF vars, TypeOK, flashvars, verifyvars
<1>12. QED
  BY <1>1, <1>2, <1>3, <1>4, <1>5, <1>6, <1>7, <1>9, <1>10, <1>11 DEF Next, history

\* The node starts with every variable in its type.
LEMMA InitType ==
    ASSUME Init
    PROVE  TypeOK
<1>1. live \in Setting /\ flash \in PageRecord /\ image \in PageRecord
  BY CfgOtaAssumption DEF Init, PageRecord, Blank
<1>2. out \in AckRecord
  BY AckType DEF Init
<1>3. /\ cursor \in 0 .. LastSlot + 1 /\ tries \in 0 .. MaxTries \cup {Blank}
      /\ pings \in Nat /\ losses \in 0 .. MaxPowerLosses /\ staged \in Setting
  BY <1>1, CfgOtaAssumption DEF Init, LastSlot
<1>4. QED BY <1>1, <1>2, <1>3 DEF Init, TypeOK

\* Every variable of the node stays within its type, with power failures in the
\* middle of a page write included (main.c 567-697, flash_config.c 101-128).
THEOREM TypeCorrect == Spec => []TypeOK
<1>1. QED BY InitType, TypeStep, PTL DEF Spec

(***************************************************************************)
(* The sessions exclude each other.                                        *)
(***************************************************************************)

\* What a rewrite in progress says of the session that started it.
Writer ==
    /\ after = "END" => cfgota_state = "RECEIVED"
    /\ after \in {"PING", "ROLLBACK"} => verify_active
    /\ after = "PONG" => ~ verify_active
    /\ after = "OTA" => ota
    /\ cursor = 0 <=> after = "NONE"

SessionInv == TypeOK /\ OneSession /\ Writer

\* Every step keeps the sessions apart, and the writer the one they name.
LEMMA SessionStep == SessionInv /\ [Next]_vars => SessionInv'
<1> SUFFICES ASSUME SessionInv, [Next]_vars PROVE OneSession' /\ Writer'
  BY TypeStep DEF SessionInv
<1> USE DEF SessionInv, Writer, Running, Receiving
<1>0. /\ verify_active \in BOOLEAN /\ ota \in BOOLEAN
      /\ cursor \in Nat
  BY DEF TypeOK, LastSlot
<1>1. CASE Program
  <2>1. CASE ProgramSlot
    BY <1>0, <2>1 DEF ProgramSlot, OneSession, verifyvars
  <2>2. CASE EndWritten
    BY <2>2 DEF EndWritten, Written, OneSession, verifyvars
  <2>3. CASE OtaWritten
    BY <2>3 DEF OtaWritten, Written, OneSession, verifyvars
  <2>4. CASE PingWritten
    BY <2>4 DEF PingWritten, Written, OneSession, verifyvars
  <2>5. CASE RollbackWritten
    BY <2>5 DEF RollbackWritten, Written, OneSession
  <2>6. CASE PongWritten
    BY <2>6 DEF PongWritten, Written, OneSession, verifyvars
  <2>7. QED BY <1>1, <2>1, <2>2, <2>3, <2>4, <2>5, <2>6 DEF Program
<1>2. CASE Check
  <2>1. CASE AttemptTimeout
    BY <2>1 DEF AttemptTimeout, Checking, OneSession, flashvars
  <2>2. CASE SendPing
    BY <2>2 DEF SendPing, Checking, StartWrite, OneSession
  <2>3. CASE RollBack
    BY <2>3 DEF RollBack, Checking, StartWrite, OneSession, verifyvars
  <2>4. QED BY <1>2, <2>1, <2>2, <2>3 DEF Check
<1>3. CASE Frames
  <2>1. ASSUME NEW b \in BOOLEAN, Prepare(b) PROVE OneSession' /\ Writer'
    <3>1. CASE Busy
      BY <2>1, <3>1 DEF Prepare, OneSession, flashvars, verifyvars
    <3>2. CASE ~ Busy
      BY <2>1, <3>2 DEF Prepare, Busy, OneSession, flashvars, verifyvars
    <3>3. QED BY <3>1, <3>2
  <2>2. CASE OtaPrepare
    <3>1. CASE OtaBusy
      BY <2>2, <3>1 DEF OtaPrepare, OneSession, flashvars, verifyvars
    <3>2. CASE ~ OtaBusy
      BY <2>2, <3>2 DEF OtaPrepare, OtaBusy, OneSession, flashvars, verifyvars
    <3>3. QED BY <3>1, <3>2
  <2>3. CASE OtaEnd
    BY <2>3 DEF OtaEnd, StartWrite, OneSession, verifyvars
  <2>4. ASSUME NEW v \in Setting, NEW b \in BOOLEAN, Data(v, b) PROVE OneSession' /\ Writer'
    BY <2>4 DEF Data, OneSession, flashvars, verifyvars
  <2>5. ASSUME NEW v \in Setting, End(v) PROVE OneSession' /\ Writer'
    <3>1. CASE cfgota_state = "RECEIVED" /\ StartWrite(Provisional, "END")
               /\ UNCHANGED cfgota_state
      BY <2>5, <3>1 DEF End, StartWrite, OneSession, verifyvars
    <3>2. CASE UNCHANGED flashvars /\ cfgota_state' \in {"IDLE", cfgota_state}
      BY <2>5, <3>2 DEF End, OneSession, flashvars, verifyvars
    <3>3. QED BY <2>5, <3>1, <3>2 DEF End
  <2>6. ASSUME NEW v \in Setting, Command(v) PROVE OneSession' /\ Writer'
    BY <2>6 DEF Command, OneSession, flashvars, verifyvars
  <2>7. QED BY <1>3, <2>1, <2>2, <2>3, <2>4, <2>5, <2>6 DEF Frames
<1>4. CASE IdleTimeout
  BY <1>4 DEF IdleTimeout, OneSession, flashvars, verifyvars
<1>5. CASE OtaTimeout
  BY <1>5 DEF OtaTimeout, OneSession, flashvars, verifyvars
<1>6. CASE Boot
  BY <1>6 DEF Boot, OneSession
<1>8. CASE Pong
  <2>1. CASE verify_active /\ verify_waiting
    BY <1>8, <2>1 DEF Pong, StartWrite, OneSession
  <2>2. CASE ~ (verify_active /\ verify_waiting)
    BY <1>8, <2>2 DEF Pong, OneSession, flashvars
  <2>3. QED BY <2>1, <2>2
<1>9. CASE AckSent
  BY <1>9 DEF AckSent, OneSession, flashvars, verifyvars
<1>10. CASE UNCHANGED vars
  BY <1>10 DEF vars, OneSession, flashvars, verifyvars
<1>11. QED
  BY <1>1, <1>2, <1>3, <1>4, <1>5, <1>6, <1>8, <1>9, <1>10
     DEF Next, Reboot, PowerLoss

\* So they are apart at any time.
LEMMA SessionInvariant == Spec => []SessionInv
<1>1. Init => OneSession /\ Writer
  BY DEF Init, OneSession, Writer
<1>2. QED BY <1>1, SessionStep, TypeCorrect, PTL DEF Spec, SessionInv

\* A firmware update, a push and a link check never run side by side, although
\* each is started by a handler of its own (main.c 400, 612, 1202).
THEOREM SessionsExclude == Spec => []OneSession
<1>1. SessionInv => OneSession
  BY DEF SessionInv
<1>2. QED BY <1>1, SessionInvariant, PTL

(***************************************************************************)
(* The pings of one commit are bounded.                                    *)
(***************************************************************************)

\* While a page is rewritten, the slots already programmed hold the image and
\* the others are erased.
Half ==
    cursor # 0 => \A i \in 1 .. LastSlot :
        flash[SlotOrder[i]] = IF i < cursor THEN image[SlotOrder[i]]
                                            ELSE ErasedPage[SlotOrder[i]]

\* Wherever a count of the tries is kept, it is not below the pings sent.
Counts(page) == page.PENDING = 1 => pings <= page.TRIES

PingInv ==
    /\ SessionInv
    /\ Half
    /\ PingsBounded
    /\ Counts(flash)
    /\ Counts(image)
    /\ verify_active => pings <= tries

\* The start of a rewrite and its steps keep the page half old, half new.
LEMMA HalfStarts ==
    ASSUME NEW page \in PageRecord, NEW h, StartWrite(page, h)
    PROVE  Half'
  BY DEF StartWrite, Half

\* One more slot of a rewrite: what is half written stays a page that counts
\* true.
LEMMA HalfGoesOn ==
    ASSUME TypeOK, Half, ProgramSlot
    PROVE  /\ Half'
           /\ flash'.PENDING = 1 => /\ image.PENDING = 1
                                    /\ flash'.TRIES \in {Blank, image.TRIES}
<1>1. /\ cursor \in 1 .. 4 /\ cursor' = cursor + 1 /\ image' = image
      /\ flash \in PageRecord
      /\ flash' = [flash EXCEPT ![SlotOrder[cursor]] = image[SlotOrder[cursor]]]
  BY DEF ProgramSlot, LastSlot, TypeOK
<1>2. /\ SlotOrder[1] = "RADIO" /\ SlotOrder[2] = "PENDING"
      /\ SlotOrder[3] = "BACKUP" /\ SlotOrder[4] = "TRIES"
  BY DEF SlotOrder
<1>3. /\ flash.RADIO = IF 1 < cursor THEN image.RADIO ELSE Default
      /\ flash.PENDING = IF 2 < cursor THEN image.PENDING ELSE Blank
      /\ flash.BACKUP = IF 3 < cursor THEN image.BACKUP ELSE Default
      /\ flash.TRIES = IF 4 < cursor THEN image.TRIES ELSE Blank
  BY <1>1, <1>2 DEF Half, LastSlot, ErasedPage
<1>4. /\ flash'.RADIO = IF 1 < cursor' THEN image.RADIO ELSE Default
      /\ flash'.PENDING = IF 2 < cursor' THEN image.PENDING ELSE Blank
      /\ flash'.BACKUP = IF 3 < cursor' THEN image.BACKUP ELSE Default
      /\ flash'.TRIES = IF 4 < cursor' THEN image.TRIES ELSE Blank
  <2>1. CASE cursor = 1 BY <1>1, <1>2, <1>3, <2>1 DEF PageRecord
  <2>2. CASE cursor = 2 BY <1>1, <1>2, <1>3, <2>2 DEF PageRecord
  <2>3. CASE cursor = 3 BY <1>1, <1>2, <1>3, <2>3 DEF PageRecord
  <2>4. CASE cursor = 4 BY <1>1, <1>2, <1>3, <2>4 DEF PageRecord
  <2>5. QED BY <1>1, <2>1, <2>2, <2>3, <2>4
<1>5. Half'
  <2>1. SUFFICES ASSUME NEW i \in 1 .. 4
                 PROVE  flash'[SlotOrder[i]] = IF i < cursor' THEN image'[SlotOrder[i]]
                                                             ELSE ErasedPage[SlotOrder[i]]
    BY DEF Half, LastSlot
  <2>2. i = 1 \/ i = 2 \/ i = 3 \/ i = 4
    OBVIOUS
  <2>3. QED BY <1>1, <1>2, <1>4, <2>2 DEF ErasedPage
<1>6. QED BY <1>4, <1>5 DEF Blank

\* When the last slot is programmed the page is the image.
LEMMA HalfEnds ==
    ASSUME TypeOK, Half, cursor = LastSlot + 1
    PROVE  flash = image
<1>1. /\ SlotOrder[1] = "RADIO" /\ SlotOrder[2] = "PENDING"
      /\ SlotOrder[3] = "BACKUP" /\ SlotOrder[4] = "TRIES"
  BY DEF SlotOrder
<1>2. /\ flash.RADIO = image.RADIO /\ flash.PENDING = image.PENDING
      /\ flash.BACKUP = image.BACKUP /\ flash.TRIES = image.TRIES
  BY <1>1 DEF Half, LastSlot
<1>3. QED BY <1>2 DEF TypeOK, PageRecord

\* A rewrite keeps the pings below its count when its image does.
LEMMA CountsStart ==
    ASSUME NEW page \in PageRecord, NEW h, StartWrite(page, h), pings' \in Nat,
           page.PENDING = 1 => pings' <= page.TRIES
    PROVE  Counts(flash)' /\ Counts(image)' /\ Half'
  BY HalfStarts DEF StartWrite, Counts, ErasedPage, Blank

\* Every step keeps the count of pings below the tries that are on record.
LEMMA PingStep == PingInv /\ [Next]_vars => PingInv'
<1> SUFFICES ASSUME PingInv, [Next]_vars
             PROVE  /\ Half' /\ PingsBounded' /\ Counts(flash)' /\ Counts(image)'
                    /\ verify_active' => pings' <= tries'
  BY SessionStep DEF PingInv
<1> DEFINE Goal == /\ Half' /\ PingsBounded' /\ Counts(flash)' /\ Counts(image)'
                   /\ verify_active' => pings' <= tries'
<1>0. TypeOK /\ TypeOK' /\ SessionInv
  BY TypeStep DEF PingInv, SessionInv
<1>1. ASSUME UNCHANGED <<flashvars, pings, tries>>, verify_active' => verify_active
      PROVE  Goal
  BY <1>1 DEF PingInv, Half, PingsBounded, Counts, flashvars
<1>2. ASSUME UNCHANGED <<flash, image, pings, tries>>, cursor' = 0,
             verify_active' => verify_active
      PROVE  Goal
  BY <1>2 DEF PingInv, Half, PingsBounded, Counts
<1>3. CASE Program
  <2>1. CASE ProgramSlot
    <3>1. Counts(flash)'
      <4>1. SUFFICES ASSUME flash'.PENDING = 1 PROVE pings <= flash'.TRIES
        BY <2>1 DEF Counts, ProgramSlot
      <4>2. image.PENDING = 1 /\ flash'.TRIES \in {Blank, image.TRIES}
        BY <2>1, <1>0, <4>1, HalfGoesOn DEF PingInv
      <4>3. pings <= image.TRIES /\ pings <= Blank
        BY <1>0, <4>2, CfgOtaAssumption DEF PingInv, Counts, PingsBounded, TypeOK, Blank
      <4>4. QED BY <4>2, <4>3
    <3>2. QED BY <2>1, <1>0, <3>1, HalfGoesOn
              DEF PingInv, ProgramSlot, PingsBounded, Counts, verifyvars
  <2>2. CASE EndWritten
    BY <2>2, <1>2 DEF EndWritten, Written, verifyvars
  <2>3. CASE OtaWritten
    BY <2>3, <1>2 DEF OtaWritten, Written, verifyvars
  <2>4. CASE PingWritten
    BY <2>4, <1>2 DEF PingWritten, Written, verifyvars
  <2>5. CASE RollbackWritten
    BY <2>5, <1>2 DEF RollbackWritten, Written
  <2>6. CASE PongWritten
    BY <2>6, <1>2 DEF PongWritten, Written, verifyvars
  <2>7. QED BY <1>3, <2>1, <2>2, <2>3, <2>4, <2>5, <2>6 DEF Program
<1>4. CASE Check
  <2>1. CASE AttemptTimeout
    BY <2>1, <1>1 DEF AttemptTimeout
  <2>2. CASE SendPing
    <3>1. /\ pings <= tries /\ tries < MaxTries /\ tries \in Nat /\ pings \in Nat
          /\ pings' = pings + 1 /\ tries' = tries + 1 /\ MaxTries \in Nat
          /\ StartWrite(Counted, "PING") /\ flash \in PageRecord
      BY <2>2, <1>0, CfgOtaAssumption DEF SendPing, Checking, PingInv, TypeOK, Blank
    <3>2. Counted \in PageRecord /\ Counted.TRIES = tries + 1
      BY <3>1, CfgOtaAssumption DEF Counted, PageRecord
    <3>3. Counts(flash)' /\ Counts(image)' /\ Half'
      BY <3>1, <3>2, CountsStart
    <3>4. QED BY <3>1, <3>3 DEF PingsBounded
  <2>3. CASE RollBack
    <3>1. RolledBack \in PageRecord /\ RolledBack.PENDING = 0
      BY <1>0 DEF RolledBack, Restored, TypeOK, PageRecord
    <3>2. pings' \in Nat /\ StartWrite(RolledBack, "ROLLBACK")
      BY <2>3, <1>0 DEF RollBack, TypeOK
    <3>3. QED BY <2>3, <3>1, <3>2, CountsStart DEF RollBack, PingInv, PingsBounded, verifyvars
  <2>4. QED BY <1>4, <2>1, <2>2, <2>3 DEF Check
<1>5. CASE Frames
  <2>1. ASSUME NEW b \in BOOLEAN, Prepare(b) PROVE Goal
    BY <2>1, <1>1 DEF Prepare, verifyvars
  <2>2. CASE OtaPrepare
    BY <2>2, <1>1 DEF OtaPrepare, verifyvars
  <2>3. CASE OtaEnd
    <3>1. flash \in PageRecord /\ StartWrite(flash, "OTA") /\ pings' = pings /\ pings \in Nat
      BY <2>3, <1>0 DEF OtaEnd, TypeOK
    <3>2. QED BY <2>3, <3>1, CountsStart DEF OtaEnd, PingInv, Counts, PingsBounded, verifyvars
  <2>4. ASSUME NEW v \in Setting, NEW b \in BOOLEAN, Data(v, b) PROVE Goal
    BY <2>4, <1>1 DEF Data, verifyvars
  <2>5. ASSUME NEW v \in Setting, End(v) PROVE Goal
    <3>1. CASE cfgota_state = "RECEIVED" /\ StartWrite(Provisional, "END") /\ pings' = 0
      <4>1. Provisional \in PageRecord /\ Provisional.TRIES = 0
        BY <1>0, CfgOtaAssumption DEF Provisional, TypeOK, PageRecord
      <4>2. verify_active' = FALSE
        BY <2>5, <3>1 DEF End, verifyvars, PingInv, SessionInv, OneSession, TypeOK
      <4>3. QED BY <3>1, <4>1, <4>2, CountsStart, CfgOtaAssumption DEF PingsBounded
    <3>2. CASE UNCHANGED <<flashvars, pings>>
      BY <2>5, <3>2, <1>1 DEF End, verifyvars
    <3>3. QED BY <2>5, <3>1, <3>2 DEF End, flashvars
  <2>6. ASSUME NEW v \in Setting, Command(v) PROVE Goal
    BY <2>6, <1>1 DEF Command, verifyvars
  <2>7. QED BY <1>5, <2>1, <2>2, <2>3, <2>4, <2>5, <2>6 DEF Frames
<1>6. CASE IdleTimeout
  BY <1>6, <1>1 DEF IdleTimeout, verifyvars
<1>7. CASE OtaTimeout
  BY <1>7, <1>1 DEF OtaTimeout, verifyvars
<1>8. CASE Boot
  <2>1. /\ UNCHANGED <<flash, pings>> /\ cursor' = 0 /\ image' = flash
        /\ verify_active' => flash.PENDING = 1 /\ tries' = flash.TRIES
    BY <1>8 DEF Boot
  <2>2. QED BY <2>1 DEF PingInv, Half, PingsBounded, Counts
<1>10. CASE Pong
  <2>1. CASE verify_active /\ verify_waiting
    <3>1. Confirmed \in PageRecord /\ Confirmed.PENDING = 0
      BY <1>0 DEF Confirmed, TypeOK, PageRecord
    <3>2. pings' \in Nat /\ StartWrite(Confirmed, "PONG")
      BY <1>10, <1>0, <2>1 DEF Pong, TypeOK
    <3>3. QED BY <1>10, <2>1, <3>1, <3>2, CountsStart DEF Pong, PingInv, PingsBounded
  <2>2. CASE ~ (verify_active /\ verify_waiting)
    BY <1>10, <2>2, <1>1 DEF Pong
  <2>3. QED BY <2>1, <2>2
<1>11. CASE AckSent
  BY <1>11, <1>1 DEF AckSent, verifyvars
<1>12. CASE UNCHANGED vars
  BY <1>12, <1>1 DEF vars, verifyvars
<1>13. QED
  BY <1>3, <1>4, <1>5, <1>6, <1>7, <1>8, <1>10, <1>11, <1>12
     DEF Next, Reboot, PowerLoss

\* No ping was sent at the start.
LEMMA PingInitial == Init => PingInv
<1>1. Init => Half /\ PingsBounded /\ Counts(flash) /\ Counts(image)
              /\ (verify_active => pings <= tries)
  BY CfgOtaAssumption DEF Init, Half, PingsBounded, Counts, Blank
<1>2. Init => SessionInv
  BY InitType DEF SessionInv, Init, OneSession, Writer
<1>3. QED BY <1>1, <1>2 DEF PingInv

\* However often the node restarts, also in the middle of a page write, it
\* pings at most MaxTries times for one commit: the count is kept in flash
\* (main.c 1296).
THEOREM PingsStayBounded == Spec => []PingsBounded
<1>1. PingInv => PingsBounded
  BY DEF PingInv
<1>2. QED BY <1>1, PingInitial, PingStep, PTL DEF Spec

(***************************************************************************)
(* The node is not stranded before one of the three things that strand it. *)
(***************************************************************************)
Disturbed == torn \/ misled \/ retuned

\* The page of a node that is not rewriting it, or will be when it is done.
Page == IF cursor = 0 THEN flash ELSE image

\* Booting on this page, the node is heard, now or after the rollback.
Sound(page) == IF page.PENDING = 1 THEN page.BACKUP \in Reaches ELSE page.RADIO \in Reaches

\* Only a node that is checking its link may run on settings it is not heard on,
\* and then its page holds those settings and the flag that guards them.
Guarded ==
    /\ Sound(Page)
    /\ ~ verify_active => live \in Reaches
    /\ after = "ROLLBACK" => live \in Reaches
    /\ verify_active => Page.RADIO = live
    /\ verify_active /\ after # "ROLLBACK" => Page.PENDING = 1

Outcomes == {Ack("END", "OK"), Ack("RESULT", "VERIFIED"), Ack("RESULT", "ROLLBACK")}

Heard == out \in Outcomes => live \in Reaches

SafeInv == PingInv /\ (~ Disturbed => Guarded /\ Heard)

\* The answers to the commands of a push are no report of its outcome.
LEMMA NotOutcomes ==
    /\ NoAck \notin Outcomes
    /\ Ack("CMD", "OK") \notin Outcomes
    /\ \A st \in {"OK", "BUSY", "BAD_SIZE"} :
           Ack("PREPARE", st) \notin Outcomes /\ Ack("OTA", st) \notin Outcomes
    /\ \A st \in {"OK", "BUSY", "BAD_VALUE"} : Ack("DATA", st) \notin Outcomes
    /\ \A st \in {"BUSY", "CRC_FAIL"} : Ack("END", st) \notin Outcomes
  BY DEF NoAck, Ack, Outcomes

\* What has happened has happened.
LEMMA HistoryGrows ==
    ASSUME [Next]_vars
    PROVE  (torn => torn') /\ (misled => misled') /\ (retuned => retuned')
<1>1. CASE Program
  BY <1>1 DEF Program, ProgramSlot, EndWritten, OtaWritten, PingWritten, RollbackWritten,
              PongWritten, history
<1>2. CASE Check
  BY <1>2 DEF Check, AttemptTimeout, SendPing, RollBack, history
<1>3. CASE Frames
  <2>1. CASE \E v \in Setting : Command(v)
    <3>1. PICK v \in Setting : Command(v)
      BY <2>1
    <3>2. UNCHANGED <<torn, misled>>
      BY <3>1 DEF Command
    <3>3. retuned => retuned'
      BY <3>1, ZenonT(20) DEF Command
    <3>4. QED BY <3>2, <3>3
  <2>2. CASE ~ \E v \in Setting : Command(v)
    BY <1>3, <2>2 DEF Frames, Prepare, OtaPrepare, OtaEnd, Data, End, history
  <2>3. QED BY <2>1, <2>2
<1>4. CASE IdleTimeout \/ OtaTimeout \/ AckSent \/ UNCHANGED vars
  BY <1>4 DEF IdleTimeout, OtaTimeout, AckSent, vars, history
<1>5. CASE Reboot
  BY <1>5 DEF Reboot, Boot
<1>6. CASE PowerLoss
  BY <1>6 DEF PowerLoss, Boot
<1>7. CASE Pong
  BY <1>7 DEF Pong
<1>8. QED BY <1>1, <1>2, <1>3, <1>4, <1>5, <1>6, <1>7 DEF Next

\* Every undisturbed step keeps a way back to settings that are heard.
LEMMA SafeStep == SafeInv /\ [Next]_vars => SafeInv'
<1> SUFFICES ASSUME SafeInv, [Next]_vars, ~ Disturbed'
             PROVE  Guarded' /\ Heard'
  BY PingStep DEF SafeInv
<1> DEFINE Goal == Guarded' /\ Heard'
<1>0. /\ TypeOK /\ SessionInv /\ Writer /\ OneSession /\ Half
      /\ ~ Disturbed /\ Guarded /\ Heard
  BY HistoryGrows DEF SafeInv, PingInv, SessionInv, Disturbed
<1>1. ASSUME UNCHANGED <<flashvars, live, verify_active>>,
             out' = out \/ out' \notin Outcomes
      PROVE  Goal
  BY <1>0, <1>1 DEF Guarded, Page, Sound, Heard, Outcomes, flashvars
<1>2. ASSUME NEW h, Written(h), h # "NONE", UNCHANGED live,
             verify_active' => verify_active /\ h # "ROLLBACK",
             verify_active => verify_active' \/ h = "ROLLBACK",
             out' = out \/ live \in Reaches \/ out' \notin Outcomes
      PROVE  Goal
  <2>1. flash = image
    BY <1>0, <1>2, HalfEnds DEF Written
  <2>2. Page' = Page
    BY <1>2, <2>1 DEF Page, Written
  <2>3. after' = "NONE" /\ after = h
    BY <1>2 DEF Written
  <2>4. QED BY <1>0, <1>2, <2>2, <2>3 DEF Guarded, Sound, Heard, Outcomes
<1>3. ASSUME NEW page \in PageRecord, NEW h, StartWrite(page, h), Sound(page)
      PROVE  Page' = page /\ Sound(Page') /\ after' = h
  BY <1>3 DEF StartWrite, Page
<1>4. CASE Program
  <2>1. CASE ProgramSlot
    <3>1. Page' = Page
      BY <2>1 DEF ProgramSlot, Page, LastSlot
    <3>2. QED BY <2>1, <1>0, <3>1
              DEF ProgramSlot, Guarded, Sound, Heard, verifyvars
  <2>2. CASE EndWritten
    <3>1. live \in Reaches
      BY <1>0, <2>2 DEF EndWritten, Written, Writer, OneSession, Guarded
    <3>2. QED BY <1>2, <2>2, <3>1 DEF EndWritten, verifyvars
  <2>3. CASE OtaWritten
    BY <1>2, <2>3, NotOutcomes DEF OtaWritten, verifyvars
  <2>4. CASE PingWritten
    BY <1>2, <2>4 DEF PingWritten, verifyvars
  <2>5. CASE RollbackWritten
    <3>1. live \in Reaches
      BY <1>0, <2>5 DEF RollbackWritten, Written, Guarded
    <3>2. QED BY <1>2, <2>5, <3>1 DEF RollbackWritten
  <2>6. CASE PongWritten
    <3>1. live \in Reaches
      BY <1>0, <2>6 DEF PongWritten, Written, Writer, Guarded
    <3>2. QED BY <1>2, <2>6, <3>1 DEF PongWritten, verifyvars
  <2>7. QED BY <1>4, <2>1, <2>2, <2>3, <2>4, <2>5, <2>6 DEF Program
<1>5. CASE Check
  <2>1. CASE AttemptTimeout
    BY <2>1, <1>1 DEF AttemptTimeout
  <2>2. CASE SendPing
    <3>1. /\ flash \in PageRecord /\ tries + 1 \in 0 .. MaxTries
          /\ StartWrite(Counted, "PING") /\ verify_active /\ cursor = 0 /\ after = "NONE"
      BY <2>2, <1>0, CfgOtaAssumption
         DEF SendPing, Checking, Running, TypeOK, Writer, Blank
    <3>2. /\ Counted \in PageRecord /\ Counted.PENDING = flash.PENDING
          /\ Counted.RADIO = flash.RADIO /\ Counted.BACKUP = flash.BACKUP
      BY <3>1 DEF Counted, PageRecord
    <3>3. Sound(Counted) /\ Counted.RADIO = live /\ Counted.PENDING = 1
      BY <1>0, <3>1, <3>2 DEF Guarded, Page, Sound
    <3>4. Page' = Counted /\ after' = "PING"
      BY <1>3, <3>1, <3>2, <3>3
    <3>5. QED BY <1>0, <2>2, <3>1, <3>3, <3>4
              DEF SendPing, Guarded, Sound, Heard
  <2>3. CASE RollBack
    <3>1. /\ flash \in PageRecord /\ StartWrite(RolledBack, "ROLLBACK")
          /\ verify_active /\ cursor = 0 /\ after = "NONE" /\ live' = Restored
      BY <2>3, <1>0 DEF RollBack, Checking, Running, TypeOK, Writer
    <3>2. Restored \in Reaches /\ Restored \in Setting
      BY <1>0, <3>1, CfgOtaAssumption DEF Guarded, Page, Sound, Restored
    <3>3. /\ RolledBack \in PageRecord /\ RolledBack.PENDING = 0
          /\ RolledBack.RADIO = Restored
      BY <3>1, <3>2 DEF RolledBack, PageRecord
    <3>4. Page' = RolledBack /\ Sound(Page') /\ after' = "ROLLBACK"
      BY <1>3, <3>1, <3>2, <3>3 DEF Sound
    <3>5. QED BY <3>1, <3>2, <3>3, <3>4 DEF Guarded, Heard
  <2>4. QED BY <1>5, <2>1, <2>2, <2>3 DEF Check
<1>6. CASE Frames
  <2>1. ASSUME NEW b \in BOOLEAN, Prepare(b) PROVE Goal
    BY <2>1, <1>1, NotOutcomes DEF Prepare, verifyvars
  <2>2. CASE OtaPrepare
    BY <2>2, <1>1, NotOutcomes DEF OtaPrepare, verifyvars
  <2>3. CASE OtaEnd
    <3>1. /\ flash \in PageRecord /\ StartWrite(flash, "OTA") /\ ~ verify_active
          /\ cursor = 0 /\ UNCHANGED <<live, verify_active, out>>
      BY <2>3, <1>0 DEF OtaEnd, Receiving, Running, TypeOK, OneSession, verifyvars
    <3>2. Sound(Page') /\ after' = "OTA"
      BY <1>0, <1>3, <3>1 DEF Guarded, Page
    <3>3. QED BY <1>0, <3>1, <3>2 DEF Guarded, Heard
  <2>4. ASSUME NEW v \in Setting, NEW b \in BOOLEAN, Data(v, b) PROVE Goal
    BY <2>4, <1>1, NotOutcomes DEF Data, verifyvars
  <2>5. ASSUME NEW v \in Setting, End(v) PROVE Goal
    <3>1. CASE cfgota_state = "RECEIVED" /\ StartWrite(Provisional, "END")
               /\ UNCHANGED out
      <4>1. /\ ~ verify_active /\ live \in Reaches
            /\ UNCHANGED <<live, verify_active>>
        BY <2>5, <1>0, <3>1 DEF End, OneSession, Guarded, verifyvars
      <4>2. Provisional \in PageRecord /\ Sound(Provisional)
        BY <1>0, <4>1, CfgOtaAssumption DEF Provisional, Sound, TypeOK, PageRecord
      <4>3. Sound(Page') /\ after' = "END"
        BY <1>3, <3>1, <4>2
      <4>4. QED BY <3>1, <4>1, <4>3 DEF Guarded, Heard
    <3>2. CASE UNCHANGED flashvars /\ out' \notin Outcomes
      BY <2>5, <3>2, <1>1 DEF End, verifyvars
    <3>3. QED BY <2>5, <3>1, <3>2, NotOutcomes DEF End
  <2>6. ASSUME NEW v \in Setting, Command(v) PROVE Goal
    <3>1. v \in Reaches /\ ~ verify_active /\ live' = v /\ out' = Ack("CMD", "OK")
      BY <2>6 DEF Command, Disturbed
    <3>2. UNCHANGED <<flashvars, verify_active>>
      BY <2>6 DEF Command, verifyvars
    <3>3. QED BY <1>0, <3>1, <3>2, NotOutcomes
              DEF Guarded, Page, Sound, Heard, flashvars
  <2>7. QED BY <1>6, <2>1, <2>2, <2>3, <2>4, <2>5, <2>6 DEF Frames
<1>7. CASE IdleTimeout
  BY <1>7, <1>1 DEF IdleTimeout, verifyvars
<1>8. CASE OtaTimeout
  BY <1>8, <1>1 DEF OtaTimeout, verifyvars
<1>9. ASSUME Boot, ~ Halfway PROVE Goal
  <2>1. /\ Page' = flash /\ live' = flash.RADIO /\ out' = NoAck /\ after' = "NONE"
        /\ verify_active' <=> flash.PENDING = 1
    BY <1>9 DEF Boot, Page
  <2>2. /\ flash.RADIO = Page.RADIO /\ flash.PENDING = Page.PENDING
        /\ flash.BACKUP = Page.BACKUP
    BY <1>9 DEF Halfway, Running, Page
  <2>3. Sound(flash)
    BY <1>0, <2>2 DEF Guarded, Sound
  <2>4. Heard'
    BY <2>1, NotOutcomes DEF Heard
  <2>5. QED BY <2>1, <2>3, <2>4 DEF Guarded, Sound
<1>10. CASE Reboot
  BY <1>9, <1>10 DEF Reboot, Halfway
<1>11. CASE PowerLoss
  BY <1>9, <1>11 DEF PowerLoss, Disturbed
<1>12. CASE Pong
  <2>1. CASE verify_active /\ verify_waiting
    <3>1. /\ flash \in PageRecord /\ StartWrite(Confirmed, "PONG") /\ cursor = 0
          /\ verify_active' = FALSE /\ UNCHANGED <<live, out>> /\ after = "NONE"
      BY <1>12, <1>0, <2>1 DEF Pong, Receiving, Running, TypeOK, Writer
    <3>2. live \in Reaches /\ flash.RADIO = live
      BY <1>0, <1>12, <2>1, <3>1 DEF Pong, Guarded, Page, Disturbed
    <3>3. Confirmed \in PageRecord /\ Sound(Confirmed)
      BY <3>1, <3>2 DEF Confirmed, Sound, PageRecord
    <3>4. Sound(Page') /\ after' = "PONG"
      BY <1>3, <3>1, <3>3
    <3>5. QED BY <3>1, <3>2, <3>4 DEF Guarded, Heard
  <2>2. CASE ~ (verify_active /\ verify_waiting)
    BY <1>12, <2>2, <1>1 DEF Pong
  <2>3. QED BY <2>1, <2>2
<1>13. CASE AckSent
  BY <1>13, <1>1, NotOutcomes DEF AckSent, verifyvars
<1>14. CASE UNCHANGED vars
  BY <1>14, <1>1 DEF vars, verifyvars
<1>15. QED
  BY <1>4, <1>5, <1>6, <1>7, <1>8, <1>10, <1>11, <1>12, <1>13, <1>14 DEF Next

\* So there is one at any time.
LEMMA SafeInvariant == Spec => []SafeInv
<1>1. ASSUME Init PROVE SafeInv
  <2>1. Page = flash /\ flash.PENDING = Blank /\ flash.RADIO = live /\ live \in Reaches
    BY <1>1 DEF Init, Page
  <2>2. Guarded
    BY <1>1, <2>1 DEF Init, Guarded, Sound, Blank
  <2>3. Heard
    BY <2>1 DEF Heard
  <2>4. QED BY <1>1, <2>2, <2>3, PingInitial DEF SafeInv
<1>2. QED BY <1>1, SafeStep, PTL DEF Spec

\* A node that would boot without a link check would boot on settings on which
\* it is heard, unless a power failure cut a page rewrite, a foreign PONG settled
\* a check or a command changed the settings; nothing else strands it, and no
\* other power failure (main.c 657-697, 1192-1300).
THEOREM NodeIsNeverStranded == Spec => []NeverStranded
<1>1. SafeInv => NeverStranded
  BY DEF SafeInv, Disturbed, Guarded, Page, Sound, NeverStranded, Running
<1>2. QED BY <1>1, SafeInvariant, PTL

\* The backup a rollback would restore is one that worked, up to the first of
\* those three (main.c 680-682).
THEOREM BackupStaysGood == Spec => []BackupIsGood
<1>1. SafeInv => BackupIsGood
  BY DEF SafeInv, Disturbed, Guarded, Page, Sound, BackupIsGood, Running
<1>2. QED BY <1>1, SafeInvariant, PTL

\* The acknowledgement of a commit and the report of its outcome are sent where
\* the pusher can hear them, up to the first of those three (main.c 695, 905, 1279).
THEOREM OutcomesAreHeard == Spec => []OutcomeIsHeard
<1>1. SafeInv => OutcomeIsHeard
  BY DEF SafeInv, Disturbed, Heard, Outcomes, OutcomeIsHeard
<1>2. QED BY <1>1, SafeInvariant, PTL

----------------------------------------------------------------------------
(* The target and the driver. *)

(***************************************************************************)
(* The invariant.                                                          *)
(***************************************************************************)

Late == stage \in {"committing", "rebooting_verifying"}

\* The commands under way push the values of the job; behind an END there are
\* ENDs only.
CmdsInOrder ==
    \A i \in 1 .. Len(cmds) :
        /\ cmds[i].values = values
        /\ cmds[i].op = "END" => Late /\ \A j \in i .. Len(cmds) : cmds[j].op = "END"

\* No command under way or still to come could open a session.
OnlyEnds == Late /\ \A i \in 1 .. Len(cmds) : cmds[i].op = "END"

\* The END that started the commit was taken, and the session is over.
Past == OnlyEnds /\ (cfgota_state = "IDLE" \/ (cursor # 0 /\ after = "END"))

(* Where the target stands: as before the push, with the values on trial,   *)
(* with the values for good, or back on what it ran before.                 *)

Untouched ==
    /\ Page.RADIO = before /\ Page.PENDING # 1 /\ live = before
    /\ ~ verify_active /\ cursor = 0

Trying ==
    /\ Page.RADIO = values /\ Page.PENDING = 1 /\ Page.BACKUP = before
    /\ live = IF verify_active THEN values ELSE before
    /\ cursor # 0 => after \in {"END", "PING"}

Committed ==
    /\ Page.RADIO = values /\ Page.PENDING # 1 /\ live = values
    /\ ~ verify_active
    /\ cursor # 0 => after = "PONG"

WentBack ==
    /\ Page.RADIO = before /\ Page.PENDING # 1 /\ live = before
    /\ IF cursor = 0 THEN ~ verify_active ELSE after = "ROLLBACK"

\* A result on its way to the driver.
Reported(status) ==
    \/ out = Ack("RESULT", status)
    \/ \E i \in 1 .. Len(acks) : acks[i] = Ack("RESULT", status)

Conditions == Untouched \/ (Past /\ (Trying \/ Committed \/ WentBack))

LoneInv ==
    /\ CmdsInOrder
    /\ Conditions
    /\ Reported("VERIFIED") \/ state = "done" => Past /\ Committed
    /\ Reported("ROLLBACK") \/ state = "rolled_back" => Past /\ WentBack

PushInv == PushTypeOK /\ PingInv /\ (lone /\ ~ torn => LoneInv)

(***************************************************************************)
(* The commands and the answers under way.                                 *)
(***************************************************************************)

\* The target hears the first command on the link, and takes it for one of its
\* own.
LEMMA HeardIsFrame ==
    ASSUME PushTypeOK, CommandHeard
    PROVE  /\ Head(cmds) \in Cmd /\ Len(cmds) > 0 /\ Head(cmds) = cmds[1]
           /\ Prepare(TRUE) \/ \E v \in Setting : Data(v, TRUE) \/ End(v)
<1>1. /\ Head(cmds) \in Cmd /\ Len(cmds) > 0 /\ Head(cmds) = cmds[1]
  BY DEF PushTypeOK, CommandHeard
<1>2. Head(cmds).values \in Setting
  BY <1>1 DEF Cmd
<1>3. QED BY <1>1, <1>2 DEF CommandHeard, Handle

\* Every step of the composition is one of the target, or leaves it alone.
LEMMA StepOfTarget == ASSUME PushTypeOK, [PushNext]_pushvars PROVE [Next]_vars
<1>1. CASE CommandHeard
  BY <1>1, HeardIsFrame DEF Next, Frames
<1>2. CASE Target
  BY <1>2 DEF Target, Next
<1>3. CASE Driver \/ CommandLost \/ UNCHANGED pushvars
  BY <1>3 DEF Driver, StartJob, DriverReads, StepTimeout, ResultTimeout, CommandLost, pushvars
<1>4. CASE AnswerSent
  BY <1>4 DEF AnswerSent, Next
<1>5. QED BY <1>1, <1>2, <1>3, <1>4 DEF PushNext

\* A link takes a command if it has room for it.
LEMMA SentType ==
    ASSUME cmds \in Seq(Cmd), Len(cmds) <= LinkDepth, NEW v \in Setting,
           NEW op \in {"PREPARE", "DATA", "END"}
    PROVE  Sent(op, v) \in Seq(Cmd) /\ Len(Sent(op, v)) <= LinkDepth
<1>1. [op |-> op, values |-> v] \in Cmd
  BY DEF Cmd
<1>2. QED BY <1>1, PushAssumption DEF Sent

\* What is left of a link when its first message was taken.
LEMMA TailType ==
    ASSUME NEW S, NEW s \in Seq(S), s # <<>>
    PROVE  /\ Tail(s) \in Seq(S) /\ Len(Tail(s)) = Len(s) - 1
           /\ Head(s) \in S /\ Head(s) = s[1] /\ Len(s) > 0
           /\ \A i \in 1 .. Len(s) - 1 : Tail(s)[i] = s[i + 1]
  OBVIOUS

\* What a step of the driver does to the job, and what it sends.
Moves ==
    /\ stage' \in Stages
    /\ stage' = stage \/ (stage \in Step /\ stage' = Following[stage])
    /\ \/ cmds' = cmds
       \/ stage' \in Step /\ cmds' = Sent(OpOf[stage'], values)
    /\ attempt' \in 0 .. CFGOTA_STEP_RETRY - 1
    /\ state' \in JobState

\* A retry stays in the step of the job, or gives the job up.
LEMMA RetryMoves == ASSUME PushTypeOK, stage \in Step, Retry
                    PROVE  Moves /\ state' \in {state, "error"}
  BY PushAssumption DEF PushTypeOK, Retry, Finish, Moves, JobState

\* An answer as hoped takes the job to its next step.
LEMMA AdvanceMoves == ASSUME PushTypeOK, stage \in Step, Advance
                      PROVE  Moves /\ state' = state
  BY PushAssumption DEF PushTypeOK, Advance, Moves, Following, Step, Stages

\* The end of a job.
LEMMA FinishMoves == ASSUME PushTypeOK, NEW s \in JobState, Finish(s)
                     PROVE  Moves /\ state' = s
  BY PushAssumption DEF PushTypeOK, Finish, Moves

\* The driver is done only when it reads a result.
LEMMA DriverMoves ==
    ASSUME PushTypeOK, DriverReads \/ StepTimeout \/ ResultTimeout
    PROVE  /\ Moves
           /\ acks' = acks \/ (acks # <<>> /\ acks' = Tail(acks))
           /\ state' = state \/ state' \in {"error", "unknown"}
              \/ (state' = "done" /\ acks # <<>> /\ Head(acks) = Ack("RESULT", "VERIFIED"))
              \/ (state' = "rolled_back" /\ acks # <<>> /\ Head(acks) = Ack("RESULT", "ROLLBACK"))
           /\ UNCHANGED <<vars, values, jobs, before, lone>>
<1>1. CASE StepTimeout
  BY <1>1, RetryMoves DEF StepTimeout
<1>2. CASE ResultTimeout
  BY <1>2, FinishMoves DEF ResultTimeout, JobState
<1>3. CASE DriverReads
  <2>1. Head(acks) \in AckRecord /\ acks # <<>> /\ acks' = Tail(acks)
    BY <1>3, TailType DEF DriverReads, PushTypeOK
  <2>2. CASE ~ Awaited(Head(acks))
    BY <1>3, <2>1, <2>2 DEF DriverReads, Moves, PushTypeOK
  <2>3. CASE Awaited(Head(acks)) /\ StepAnswered(Head(acks).status)
    <3>1. stage \in Step /\ (Advance \/ Finish("error") \/ Retry)
      BY <2>3 DEF StepAnswered
    <3>2. QED BY <1>3, <2>1, <3>1, AdvanceMoves, RetryMoves, FinishMoves DEF DriverReads, JobState
  <2>4. CASE Awaited(Head(acks)) /\ ResultHeard(Head(acks).status)
    <3>1. Head(acks).op = "RESULT"
      BY <2>4 DEF Awaited, ResultHeard, OpOf
    <3>2. /\ Head(acks).status = "VERIFIED" => Head(acks) = Ack("RESULT", "VERIFIED")
          /\ Head(acks).status = "ROLLBACK" => Head(acks) = Ack("RESULT", "ROLLBACK")
      BY <2>1, <3>1 DEF AckRecord, Ack
    <3>3. Finish(Told(Head(acks).status))
      BY <2>4 DEF ResultHeard
    <3>4. \/ Told(Head(acks).status) = "error"
          \/ Told(Head(acks).status) = "done" /\ Head(acks).status = "VERIFIED"
          \/ Told(Head(acks).status) = "rolled_back" /\ Head(acks).status = "ROLLBACK"
      BY DEF Told
    <3>5. QED BY <1>3, <2>1, <3>2, <3>3, <3>4, FinishMoves DEF DriverReads, JobState
  <2>5. QED BY <1>3, <2>2, <2>3, <2>4 DEF DriverReads
<1>4. QED BY <1>1, <1>2, <1>3

(***************************************************************************)
(* Type correctness.                                                       *)
(***************************************************************************)

\* Links and target keep their types; the driver does not move.
LEMMA LinkStepType ==
    ASSUME PushTypeOK, CommandHeard \/ CommandLost \/ AnswerSent \/ Target
    PROVE  /\ cmds' \in Seq(Cmd) /\ Len(cmds') <= LinkDepth
           /\ acks' \in Seq(AckRecord) /\ Len(acks') <= LinkDepth
           /\ UNCHANGED driver
<1>1. /\ cmds \in Seq(Cmd) /\ Len(cmds) <= LinkDepth
      /\ acks \in Seq(AckRecord) /\ Len(acks) <= LinkDepth /\ out \in AckRecord
      /\ LinkDepth \in Nat
  BY PushAssumption DEF PushTypeOK, TypeOK
<1>2. cmds' = cmds \/ (cmds # <<>> /\ cmds' = Tail(cmds))
  BY DEF CommandHeard, CommandLost, AnswerSent, Target
<1>3. acks' = acks \/ (Len(acks) < LinkDepth /\ acks' = Append(acks, out))
  BY DEF CommandHeard, CommandLost, AnswerSent, Target
<1>4. cmds' \in Seq(Cmd) /\ Len(cmds') <= LinkDepth
  BY <1>1, <1>2, TailType
<1>5. acks' \in Seq(AckRecord) /\ Len(acks') <= LinkDepth
  BY <1>1, <1>3
<1>6. UNCHANGED driver
  BY DEF CommandHeard, CommandLost, AnswerSent, Target
<1>7. QED BY <1>4, <1>5, <1>6

\* Every step of the composition keeps the types.
LEMMA PushTypeStep == ASSUME PushTypeOK, [PushNext]_pushvars PROVE PushTypeOK'
<1>1. TypeOK'
  BY StepOfTarget, TypeStep DEF PushTypeOK
<1>2. CASE UNCHANGED pushvars
  BY <1>1, <1>2 DEF pushvars, driver, PushTypeOK
<1>3. CASE CommandHeard \/ CommandLost \/ AnswerSent \/ Target
  BY <1>1, <1>3, LinkStepType DEF driver, PushTypeOK
<1>4. ASSUME NEW v \in Pushed, StartJob(v) PROVE PushTypeOK'
  <2>1. v \in Setting /\ live \in Setting
    BY PushAssumption DEF PushTypeOK, TypeOK
  <2>2. cmds' \in Seq(Cmd) /\ Len(cmds') <= LinkDepth
    BY <1>4, <2>1, SentType DEF StartJob, PushTypeOK
  <2>3. lone' \in BOOLEAN /\ before' \in Setting
    BY <1>4, <2>1 DEF StartJob, Idle
  <2>4. jobs' \in 0 .. MaxJobs /\ attempt' \in 0 .. CFGOTA_STEP_RETRY - 1
    BY <1>4, PushAssumption DEF StartJob, PushTypeOK
  <2>5. QED BY <1>1, <1>4, <2>1, <2>2, <2>3, <2>4 DEF StartJob, PushTypeOK, JobState, Stages
<1>5. CASE DriverReads \/ StepTimeout \/ ResultTimeout
  <2>1. /\ Moves /\ (acks' = acks \/ (acks # <<>> /\ acks' = Tail(acks)))
        /\ UNCHANGED <<values, jobs, before, lone>>
    BY <1>5, DriverMoves
  <2>2. stage' \in Step => OpOf[stage'] \in {"PREPARE", "DATA", "END"}
    BY DEF Step, OpOf
  <2>3. cmds' \in Seq(Cmd) /\ Len(cmds') <= LinkDepth
    BY <2>1, <2>2, SentType DEF Moves, PushTypeOK
  <2>4. acks' \in Seq(AckRecord) /\ Len(acks') <= LinkDepth
    BY <2>1, TailType, PushAssumption DEF PushTypeOK
  <2>5. QED BY <1>1, <2>1, <2>3, <2>4 DEF Moves, PushTypeOK
<1>6. QED BY <1>2, <1>3, <1>4, <1>5 DEF PushNext, Driver

\* The composition starts in them.
LEMMA PushInitType == PushInit => PushTypeOK
<1> SUFFICES ASSUME PushInit PROVE PushTypeOK
  OBVIOUS
<1>1. TypeOK
  BY InitType DEF PushInit
<1>2. 0 \in 0 .. CFGOTA_STEP_RETRY - 1 /\ 0 \in 0 .. MaxJobs /\ 0 <= LinkDepth
  BY PushAssumption
<1>3. /\ <<>> \in Seq(Cmd) /\ <<>> \in Seq(AckRecord) /\ Len(<<>>) = 0
      /\ live \in Setting
  BY <1>1 DEF TypeOK
<1>4. QED BY <1>1, <1>2, <1>3 DEF PushInit, PushTypeOK, JobState, Stages

\* The driver, the links and the target keep their types (server.py 751-930).
THEOREM PushTypeCorrect == PushSpec => []PushTypeOK
<1>1. PushTypeOK /\ [PushNext]_pushvars => PushTypeOK'
  BY PushTypeStep
<1>2. QED BY <1>1, PushInitType, PTL DEF PushSpec

\* The target of a push behaves as CfgOta says, whatever the driver and the
\* links do: what is true of every peer is true of this one (main.c 602-708).
THEOREM PushImplementsNode == PushSpec => Spec
<1>1. PushInit => Init
  BY DEF PushInit
<1>2. PushTypeOK /\ [PushNext]_pushvars => [Next]_vars
  BY StepOfTarget
<1>3. QED BY <1>1, <1>2, PushTypeCorrect, PTL DEF PushSpec, Spec

(***************************************************************************)
(* What a step of the target does to where it stands.                      *)
(***************************************************************************)

\* It opens or closes no rewrite and reports nothing.
Steady ==
    /\ Page' = Page /\ UNCHANGED <<live, verify_active, after>>
    /\ cursor' = 0 <=> cursor = 0
    /\ out' = out \/ out'.op # "RESULT"

\* It opens a rewrite to page for handler h.
Opens(page, h) ==
    /\ cursor = 0 /\ cursor' # 0 /\ after' = h /\ Page' = page /\ Page = flash
    /\ UNCHANGED out

\* The rewrite of handler h is over.
Closes(h) ==
    /\ cursor # 0 /\ after = h /\ cursor' = 0 /\ Page' = Page
    /\ UNCHANGED live

\* It boots on a page that says what it was to say.
Restarts ==
    /\ cursor' = 0
    /\ Page'.RADIO = Page.RADIO /\ Page'.PENDING = Page.PENDING
    /\ Page'.BACKUP = Page.BACKUP
    /\ live' = Page.RADIO
    /\ verify_active' = (Page.PENDING = 1)
    /\ cfgota_state' = "IDLE"
    /\ out' = NoAck

SameOrIdle == cfgota_state' \in {cfgota_state, "IDLE"}

Effects ==
    \/ Steady /\ SameOrIdle
    \/ CommandHeard /\ Steady /\ cmds[1].op # "END" /\ cursor = 0
    \/ /\ CommandHeard /\ cmds[1].op = "END" /\ cfgota_state = "RECEIVED"
       /\ Opens(Provisional, "END") /\ UNCHANGED <<live, verify_active, cfgota_state>>
       /\ staged = cmds[1].values /\ ~ verify_active
    \/ /\ Opens(Counted, "PING") /\ verify_active
       /\ UNCHANGED <<live, verify_active, cfgota_state>>
    \/ /\ Opens(RolledBack, "ROLLBACK") /\ verify_active /\ live' = Restored
       /\ UNCHANGED <<verify_active, cfgota_state>>
    \/ /\ Opens(Confirmed, "PONG") /\ verify_active /\ ~ verify_active'
       /\ UNCHANGED <<live, cfgota_state>>
    \/ Closes("END") /\ UNCHANGED verify_active /\ out'.op # "RESULT" /\ cfgota_state' = "IDLE"
    \/ /\ Closes("PING") \/ Closes("OTA")
       /\ UNCHANGED <<verify_active, cfgota_state>> /\ (out' = out \/ out'.op # "RESULT")
    \/ /\ Closes("ROLLBACK") /\ ~ verify_active' /\ out' = Ack("RESULT", "ROLLBACK")
       /\ UNCHANGED cfgota_state
    \/ /\ Closes("PONG") /\ UNCHANGED <<verify_active, cfgota_state>>
       /\ out' = Ack("RESULT", "VERIFIED")
    \/ Restarts

\* A rewrite that is complete leaves the page that it was to write.
LEMMA ClosesFacts ==
    ASSUME TypeOK, Half, NEW h, Written(h), UNCHANGED live
    PROVE  Closes(h)
<1>1. flash = image
  BY HalfEnds DEF Written
<1>2. QED BY <1>1 DEF Written, Closes, Page, LastSlot

\* A rewrite that begins already counts as the page it will be.
LEMMA OpensFacts ==
    ASSUME NEW page, NEW h, cursor = 0, StartWrite(page, h), UNCHANGED out
    PROVE  Opens(page, h)
  BY DEF StartWrite, Opens, Page

\* A boot runs on what its page says.
LEMMA BootFacts == ASSUME Boot, ~ Halfway PROVE Restarts
<1>1. /\ flash.RADIO = Page.RADIO /\ flash.PENDING = Page.PENDING
      /\ flash.BACKUP = Page.BACKUP
  BY DEF Halfway, Running, Page
<1>2. QED BY <1>1 DEF Boot, Restarts, Page

\* What writes no page and reports nothing leaves the target as it is.
LEMMA SameFlash ==
    ASSUME UNCHANGED <<flashvars, live, verify_active>>, out' = out \/ out'.op # "RESULT"
    PROVE  Steady
  BY DEF Steady, flashvars, Page

\* What a step of the target or an answer does is one of the few effects.
LEMMA TargetEffects ==
    ASSUME PushTypeOK, PingInv, ~ torn', Target \/ AnswerSent
    PROVE  Effects
<1> USE DEF PushTypeOK, PingInv
<1>1. CASE AnswerSent
  <2>1. UNCHANGED <<flashvars, live, verify_active, cfgota_state>> /\ out' = NoAck
    BY <1>1 DEF AnswerSent, AckSent, verifyvars
  <2>2. QED BY <2>1, SameFlash DEF Effects, SameOrIdle, NoAck, Ack
<1>2. CASE Target /\ Program
  <2>1. CASE ProgramSlot
    <3>1. Page' = Page /\ cursor # 0 /\ cursor' # 0
          /\ UNCHANGED <<live, verify_active, after, out, cfgota_state>>
      BY <2>1 DEF ProgramSlot, Page, LastSlot, verifyvars
    <3>2. QED BY <3>1 DEF Effects, Steady, SameOrIdle
  <2>2. CASE EndWritten
    BY <2>2, ClosesFacts DEF EndWritten, Effects, Ack, verifyvars
  <2>3. CASE OtaWritten
    BY <2>3, ClosesFacts DEF OtaWritten, Effects, Ack, verifyvars
  <2>4. CASE PingWritten
    BY <2>4, ClosesFacts DEF PingWritten, Effects, verifyvars
  <2>5. CASE RollbackWritten
    BY <2>5, ClosesFacts DEF RollbackWritten, Effects
  <2>6. CASE PongWritten
    BY <2>6, ClosesFacts DEF PongWritten, Effects, verifyvars
  <2>7. QED BY <1>2, <2>1, <2>2, <2>3, <2>4, <2>5, <2>6 DEF Program
<1>3. CASE Target /\ Check
  <2>1. CASE AttemptTimeout
    BY <2>1, SameFlash DEF AttemptTimeout, Effects, SameOrIdle
  <2>2. CASE SendPing
    BY <2>2, OpensFacts DEF SendPing, Checking, Running, Effects
  <2>3. CASE RollBack
    BY <2>3, OpensFacts DEF RollBack, Checking, Running, Effects, verifyvars
  <2>4. QED BY <1>3, <2>1, <2>2, <2>3 DEF Check
<1>4. CASE IdleTimeout
  BY <1>4, SameFlash DEF IdleTimeout, Effects, SameOrIdle, verifyvars
<1>5. CASE Reboot
  BY <1>5, BootFacts DEF Reboot, Halfway, Effects
<1>6. CASE PowerLoss
  BY <1>6, BootFacts DEF PowerLoss, Effects
<1>8. CASE Pong
  <2>1. CASE verify_active /\ verify_waiting
    BY <1>8, <2>1, OpensFacts DEF Pong, Receiving, Running, Effects
  <2>2. CASE ~ (verify_active /\ verify_waiting)
    BY <1>8, <2>2, SameFlash DEF Pong, Effects, SameOrIdle
  <2>3. QED BY <2>1, <2>2
<1>9. QED BY <1>1, <1>2, <1>3, <1>4, <1>5, <1>6, <1>8 DEF Target

\* So is what a command does that it hears.
LEMMA CommandEffects ==
    ASSUME PushTypeOK, PingInv, CommandHeard
    PROVE  Effects
<1>1. Head(cmds) = cmds[1] /\ Len(cmds) > 0 /\ cmds[1] \in Cmd
  BY HeardIsFrame
<1>2. CASE cmds[1].op = "PREPARE" /\ Prepare(TRUE)
  BY <1>1, <1>2, SameFlash DEF Prepare, Effects, Ack, verifyvars, Receiving, Running
<1>3. CASE cmds[1].op = "DATA" /\ Data(cmds[1].values, TRUE)
  BY <1>1, <1>3, SameFlash DEF Data, Effects, Ack, verifyvars, Receiving, Running
<1>4. CASE cmds[1].op = "END" /\ End(cmds[1].values)
  <2>1. CASE cfgota_state = "RECEIVED" /\ cmds[1].values = staged
    <3>1. ~ verify_active
      BY <2>1 DEF PingInv, SessionInv, OneSession
    <3>2. QED BY <1>4, <2>1, <3>1, OpensFacts DEF End, Effects, Receiving, Running, verifyvars
  <2>2. CASE ~ (cfgota_state = "RECEIVED" /\ cmds[1].values = staged)
    BY <1>4, <2>2, SameFlash DEF End, Effects, SameOrIdle, Ack, verifyvars
  <2>3. QED BY <2>1, <2>2
<1>5. QED BY <1>1, <1>2, <1>3, <1>4 DEF CommandHeard, Handle

(***************************************************************************)
(* The order of the commands.                                              *)
(***************************************************************************)

LinkStep == CommandHeard \/ CommandLost \/ AnswerSent \/ Target

\* Links lose and deliver at their head: commands in order stay in order.
LEMMA OrderKept ==
    ASSUME PushTypeOK, LinkStep
    PROVE  /\ CmdsInOrder => CmdsInOrder'
           /\ OnlyEnds => OnlyEnds'
           /\ UNCHANGED driver
<1>1. UNCHANGED driver /\ (cmds' = cmds \/ (cmds # <<>> /\ cmds' = Tail(cmds)))
  BY DEF LinkStep, CommandHeard, CommandLost, AnswerSent, Target
<1>2. CASE cmds' = cmds
  BY <1>1, <1>2 DEF CmdsInOrder, OnlyEnds, Late, driver
<1>3. CASE cmds # <<>> /\ cmds' = Tail(cmds)
  <2>1. /\ Len(cmds) \in Nat /\ Len(cmds') = Len(cmds) - 1 /\ Len(cmds) > 0
        /\ \A i \in 1 .. Len(cmds) - 1 : cmds'[i] = cmds[i + 1]
    BY <1>3, TailType DEF PushTypeOK
  <2>2. \A i \in 1 .. Len(cmds') : i + 1 \in 1 .. Len(cmds) /\ cmds'[i] = cmds[i + 1]
    BY <2>1
  <2>3. OnlyEnds => OnlyEnds'
    BY <1>1, <2>2 DEF OnlyEnds, Late, driver
  <2>4. ASSUME CmdsInOrder PROVE CmdsInOrder'
    <3>1. ASSUME NEW i \in 1 .. Len(cmds')
          PROVE  /\ cmds'[i].values = values'
                 /\ cmds'[i].op = "END" =>
                     Late' /\ \A j \in i .. Len(cmds') : cmds'[j].op = "END"
      <4>1. i + 1 \in 1 .. Len(cmds) /\ cmds'[i] = cmds[i + 1]
        BY <2>2
      <4>2. cmds'[i].values = values'
        BY <1>1, <2>4, <4>1 DEF CmdsInOrder, driver
      <4>3. ASSUME cmds'[i].op = "END", NEW j \in i .. Len(cmds') PROVE cmds'[j].op = "END"
        <5>1. j \in 1 .. Len(cmds') /\ j + 1 \in i + 1 .. Len(cmds) /\ cmds'[j] = cmds[j + 1]
          BY <2>1, <2>2
        <5>2. QED BY <2>4, <4>1, <4>3, <5>1 DEF CmdsInOrder
      <4>4. cmds'[i].op = "END" => Late'
        BY <1>1, <2>4, <4>1 DEF CmdsInOrder, Late, driver
      <4>5. QED BY <4>2, <4>3, <4>4
    <3>2. QED BY <3>1 DEF CmdsInOrder
  <2>5. QED BY <1>1, <2>3, <2>4
<1>4. QED BY <1>1, <1>2, <1>3

\* The command that is heard next is of the push, and an END if only ENDs are
\* left.
LEMMA FirstIsEnd ==
    ASSUME PushTypeOK, CommandHeard
    PROVE  /\ OnlyEnds => cmds[1].op = "END"
           /\ CmdsInOrder => cmds[1].values = values /\ (cmds[1].op = "END" => OnlyEnds)
<1>1. Len(cmds) \in Nat /\ Len(cmds) > 0
  BY HeardIsFrame DEF PushTypeOK
<1>2. 1 \in 1 .. Len(cmds)
  BY <1>1
<1>3. QED BY <1>2 DEF OnlyEnds, CmdsInOrder

\* A step of the driver keeps the order too: once ENDs are sent, nothing else is.
LEMMA SendingKeepsOrder ==
    ASSUME PushTypeOK, Moves, UNCHANGED values
    PROVE  /\ CmdsInOrder => CmdsInOrder'
           /\ OnlyEnds => OnlyEnds'
           /\ Late => Late'
<1>1. Late => Late'
  BY DEF Late, Moves, Following, Step
<1>2. /\ cmds \in Seq(Cmd)
      /\ cmds' = cmds \/ (stage' \in Step /\
            cmds' = Append(cmds, [op |-> OpOf[stage'], values |-> values]))
  BY DEF Moves, Sent, PushTypeOK
<1>3. CASE cmds' = cmds
  BY <1>1, <1>3 DEF CmdsInOrder, OnlyEnds
<1>4. CASE stage' \in Step /\ cmds' = Append(cmds, [op |-> OpOf[stage'], values |-> values])
  <2> DEFINE c == [op |-> OpOf[stage'], values |-> values]
  <2>1. /\ Len(cmds) \in Nat /\ Len(cmds') = Len(cmds) + 1 /\ cmds'[Len(cmds')] = c
        /\ \A i \in 1 .. Len(cmds) : cmds'[i] = cmds[i]
    BY <1>2, <1>4
  <2>2. c.values = values /\ (c.op = "END" <=> Late')
    BY <1>4 DEF Late, Step, OpOf
  <2>3. OnlyEnds => OnlyEnds'
    <3>1. ASSUME OnlyEnds, NEW i \in 1 .. Len(cmds') PROVE cmds'[i].op = "END"
      <4>1. i = Len(cmds') \/ i \in 1 .. Len(cmds)
        BY <2>1
      <4>2. QED BY <1>1, <2>1, <2>2, <3>1, <4>1 DEF OnlyEnds
    <3>2. QED BY <1>1, <3>1 DEF OnlyEnds
  <2>4. ASSUME CmdsInOrder PROVE CmdsInOrder'
    <3>1. ASSUME NEW i \in 1 .. Len(cmds') PROVE cmds'[i].values = values'
      <4>1. i = Len(cmds') \/ i \in 1 .. Len(cmds)
        BY <2>1
      <4>2. QED BY <2>1, <2>2, <2>4, <4>1 DEF CmdsInOrder
    <3>2. ASSUME NEW i \in 1 .. Len(cmds'), cmds'[i].op = "END",
                 NEW j \in i .. Len(cmds')
          PROVE  Late' /\ cmds'[j].op = "END"
      <4>1. CASE i = Len(cmds')
        BY <2>1, <2>2, <3>2, <4>1
      <4>2. CASE i \in 1 .. Len(cmds)
        <5>1. Late /\ \A k \in i .. Len(cmds) : cmds[k].op = "END"
          BY <2>1, <2>4, <3>2, <4>2 DEF CmdsInOrder
        <5>2. j = Len(cmds') \/ (j \in i .. Len(cmds) /\ j \in 1 .. Len(cmds))
          BY <2>1, <4>2
        <5>3. QED BY <1>1, <2>1, <2>2, <5>1, <5>2
      <4>3. QED BY <2>1, <4>1, <4>2
    <3>3. ASSUME NEW i \in 1 .. Len(cmds'), cmds'[i].op = "END" PROVE Late'
      <4>1. i \in i .. Len(cmds')
        BY <2>1
      <4>2. QED BY <3>2, <3>3, <4>1
    <3>4. QED BY <3>1, <3>2, <3>3 DEF CmdsInOrder
  <2>5. QED BY <1>1, <2>3, <2>4
<1>5. QED BY <1>2, <1>3, <1>4

(***************************************************************************)
(* How the target goes from one condition to the next.                     *)
(***************************************************************************)

\* What the pages written by the link check hold.
LEMMA Pages ==
    ASSUME TypeOK
    PROVE  /\ Counted.RADIO = flash.RADIO /\ Counted.PENDING = flash.PENDING
           /\ Counted.BACKUP = flash.BACKUP
           /\ RolledBack.RADIO = flash.BACKUP /\ RolledBack.PENDING = 0
           /\ Confirmed.RADIO = flash.RADIO /\ Confirmed.PENDING = 0
           /\ Provisional.RADIO = staged /\ Provisional.PENDING = 1 /\ Provisional.BACKUP = live
           /\ Restored = flash.BACKUP
  BY DEF TypeOK, PageRecord, Counted, RolledBack, Confirmed, Provisional, Restored

\* What the lemmas below have in common.
LEMMA PastKept ==
    ASSUME PushTypeOK, LinkStep, Effects, Past
    PROVE  /\ Past'
           /\ Steady /\ CommandHeard => cmds[1].op = "END"
           /\ ~ (CommandHeard /\ cfgota_state = "RECEIVED" /\ cursor = 0)
           /\ UNCHANGED driver
<1>1. OnlyEnds' /\ UNCHANGED driver
  BY OrderKept DEF Past
<1>2. CommandHeard => cmds[1].op = "END"
  BY FirstIsEnd DEF Past
<1>3. cfgota_state' = "IDLE" \/ (cursor' # 0 /\ after' = "END")
  BY <1>2 DEF Past, Effects, Steady, SameOrIdle, Opens, Closes, Restarts
<1>4. QED BY <1>1, <1>2, <1>3 DEF Past

\* A target that was not touched stays so until an END is taken.
LEMMA UntouchedGoesOn ==
    ASSUME PushTypeOK, LinkStep, Effects, CmdsInOrder, Untouched
    PROVE  Untouched' \/ (Past' /\ Trying')
<1>1. UNCHANGED driver /\ (OnlyEnds => OnlyEnds')
  BY OrderKept
<1>2. CASE /\ CommandHeard /\ cmds[1].op = "END" /\ Opens(Provisional, "END")
           /\ UNCHANGED <<live, verify_active, cfgota_state>> /\ staged = cmds[1].values
  <2>1. OnlyEnds' /\ cmds[1].values = values
    BY <1>1, <1>2, FirstIsEnd
  <2>2. Provisional.RADIO = values /\ Provisional.PENDING = 1 /\ Provisional.BACKUP = before
    BY <1>2, <2>1, Pages DEF Untouched, PushTypeOK
  <2>3. QED BY <1>1, <1>2, <2>1, <2>2 DEF Untouched, Trying, Past, Opens, driver
<1>3. CASE Steady \/ Restarts
  BY <1>1, <1>3 DEF Untouched, Steady, Restarts, driver
<1>4. QED BY <1>2, <1>3 DEF Effects, Untouched, Closes

\* One that tries the settings goes on, keeps them, or goes back.
LEMMA TryingGoesOn ==
    ASSUME PushTypeOK, LinkStep, Effects, Past, Trying
    PROVE  Trying' \/ Committed' \/ WentBack'
<1>1. UNCHANGED driver /\ ~ (CommandHeard /\ cfgota_state = "RECEIVED" /\ cursor = 0)
  BY PastKept
<1>2. CASE Steady
  BY <1>1, <1>2 DEF Trying, Steady, driver
<1>3. CASE Opens(Counted, "PING") /\ verify_active /\ UNCHANGED <<live, verify_active>>
  BY <1>1, <1>3, Pages DEF Trying, Opens, driver, PushTypeOK
<1>4. CASE Opens(RolledBack, "ROLLBACK") /\ live' = Restored
  BY <1>1, <1>4, Pages DEF Trying, WentBack, Opens, driver, PushTypeOK
<1>5. CASE Opens(Confirmed, "PONG") /\ verify_active /\ ~ verify_active' /\ UNCHANGED live
  BY <1>1, <1>5, Pages DEF Trying, Committed, Opens, driver, PushTypeOK
<1>6. CASE (Closes("END") \/ Closes("PING")) /\ UNCHANGED verify_active
  BY <1>1, <1>6 DEF Trying, Closes, driver
<1>7. CASE Restarts
  BY <1>1, <1>7 DEF Trying, Restarts, driver
<1>8. CASE Closes("OTA") \/ Closes("ROLLBACK") \/ Closes("PONG")
  BY <1>8 DEF Trying, Closes
<1>9. QED
  BY <1>1, <1>2, <1>3, <1>4, <1>5, <1>6, <1>7, <1>8 DEF Effects, Opens

\* One that kept them keeps them.
LEMMA CommittedStays ==
    ASSUME PushTypeOK, LinkStep, Effects, Past, Committed
    PROVE  Committed'
<1>1. UNCHANGED driver /\ ~ (CommandHeard /\ cfgota_state = "RECEIVED" /\ cursor = 0)
  BY PastKept
<1>2. CASE Steady
  BY <1>1, <1>2 DEF Committed, Steady, driver
<1>3. CASE Closes("PONG") /\ UNCHANGED verify_active
  BY <1>1, <1>3 DEF Committed, Closes, driver
<1>4. CASE Restarts
  BY <1>1, <1>4 DEF Committed, Restarts, driver
<1>5. QED BY <1>1, <1>2, <1>3, <1>4 DEF Effects, Opens, Closes, Committed

\* One that went back stays there.
LEMMA WentBackStays ==
    ASSUME PushTypeOK, LinkStep, Effects, Past, WentBack
    PROVE  WentBack'
<1>1. UNCHANGED driver /\ ~ (CommandHeard /\ cfgota_state = "RECEIVED" /\ cursor = 0)
  BY PastKept
<1>2. CASE Steady
  BY <1>1, <1>2 DEF WentBack, Steady, driver
<1>3. CASE Closes("ROLLBACK") /\ ~ verify_active'
  BY <1>1, <1>3 DEF WentBack, Closes, driver
<1>4. CASE Restarts
  BY <1>1, <1>4 DEF WentBack, Restarts, driver
<1>5. QED BY <1>1, <1>2, <1>3, <1>4 DEF Effects, Opens, Closes, WentBack

\* A result is reported by a target that stands where it says.
LEMMA ReportIsTrue ==
    ASSUME PushTypeOK, LinkStep, Effects, Conditions
    PROVE  /\ out' = Ack("RESULT", "VERIFIED") => out' = out \/ (Past /\ Committed)
           /\ out' = Ack("RESULT", "ROLLBACK") => out' = out \/ (Past /\ WentBack)
<1>1. CASE Closes("PONG") /\ out' = Ack("RESULT", "VERIFIED")
  <2>1. Past /\ Committed
    BY <1>1 DEF Closes, Conditions, Untouched, Trying, WentBack
  <2>2. QED BY <1>1, <2>1 DEF Ack
<1>2. CASE Closes("ROLLBACK") /\ out' = Ack("RESULT", "ROLLBACK")
  <2>1. Past /\ WentBack
    BY <1>2 DEF Closes, Conditions, Untouched, Trying, Committed
  <2>2. QED BY <1>2, <2>1 DEF Ack
<1>3. CASE out' = out \/ out'.op # "RESULT"
  BY <1>3 DEF Ack
<1>4. QED BY <1>1, <1>2, <1>3 DEF Effects, Steady, Opens, Restarts, NoAck, Ack

(***************************************************************************)
(* The invariant holds.                                                    *)
(***************************************************************************)

\* Every step outside of the driver has one of the effects.
LEMMA LinkEffects == ASSUME PushTypeOK, PingInv, ~ torn', LinkStep PROVE Effects
<1>1. CASE CommandLost
  <2>1. UNCHANGED vars
    BY <1>1 DEF CommandLost
  <2>2. UNCHANGED <<flashvars, live, verify_active, out, cfgota_state>>
    BY <2>1 DEF vars, verifyvars, flashvars
  <2>3. QED BY <2>2, SameFlash DEF Effects, SameOrIdle
<1>2. QED BY <1>1, TargetEffects, CommandEffects DEF LinkStep

\* A result under way was under way before, or is now reported.
LEMMA ReportsTravel ==
    ASSUME PushTypeOK, LinkStep, NEW status, Reported(status)'
    PROVE  Reported(status) \/ out' = Ack("RESULT", status)
<1>1. acks' = acks \/ acks' = Append(acks, out)
  BY DEF LinkStep, CommandHeard, CommandLost, AnswerSent, Target
<1>2. acks \in Seq(AckRecord)
  BY DEF PushTypeOK
<1>3. ASSUME NEW i \in 1 .. Len(acks'), acks'[i] = Ack("RESULT", status)
      PROVE  Reported(status)
  <2>1. (i \in 1 .. Len(acks) /\ acks'[i] = acks[i]) \/ acks'[i] = out
    BY <1>1, <1>2
  <2>2. QED BY <1>3, <2>1 DEF Reported
<1>4. QED BY <1>3 DEF Reported

\* Such a step takes the target of a lone push from one condition to the next.
LEMMA LinkStepKeeps ==
    ASSUME PushTypeOK, PingInv, ~ torn', LinkStep, LoneInv
    PROVE  LoneInv'
<1>1. Effects /\ UNCHANGED driver /\ CmdsInOrder'
  BY LinkEffects, OrderKept DEF LoneInv
<1>2. Past => Past'
  BY <1>1, PastKept
<1>3. Conditions'
  BY <1>1, <1>2, UntouchedGoesOn, TryingGoesOn, CommittedStays, WentBackStays
     DEF LoneInv, Conditions
<1>4. Past /\ Committed => (Past /\ Committed)'
  BY <1>1, <1>2, CommittedStays
<1>5. Past /\ WentBack => (Past /\ WentBack)'
  BY <1>1, <1>2, WentBackStays
<1>6. Reported("VERIFIED")' \/ state' = "done" => Past /\ Committed
  <2>1. state' = state
    BY <1>1 DEF driver
  <2>2. ASSUME Reported("VERIFIED")' PROVE Reported("VERIFIED") \/ (Past /\ Committed)
    BY <1>1, <2>2, ReportsTravel, ReportIsTrue DEF LoneInv, Reported
  <2>3. QED BY <2>1, <2>2 DEF LoneInv
<1>7. Reported("ROLLBACK")' \/ state' = "rolled_back" => Past /\ WentBack
  <2>1. state' = state
    BY <1>1 DEF driver
  <2>2. ASSUME Reported("ROLLBACK")' PROVE Reported("ROLLBACK") \/ (Past /\ WentBack)
    BY <1>1, <2>2, ReportsTravel, ReportIsTrue DEF LoneInv, Reported
  <2>3. QED BY <2>1, <2>2 DEF LoneInv
<1>8. QED BY <1>1, <1>3, <1>4, <1>5, <1>6, <1>7 DEF LoneInv

\* A step of the driver leaves it in its condition, and concludes what it may.
LEMMA DriverStepKeeps ==
    ASSUME PushTypeOK, DriverReads \/ StepTimeout \/ ResultTimeout, LoneInv
    PROVE  LoneInv'
<1>1. /\ Moves /\ (acks' = acks \/ (acks # <<>> /\ acks' = Tail(acks)))
      /\ state' = state \/ state' \in {"error", "unknown"}
         \/ (state' = "done" /\ acks # <<>> /\ Head(acks) = Ack("RESULT", "VERIFIED"))
         \/ (state' = "rolled_back" /\ acks # <<>> /\ Head(acks) = Ack("RESULT", "ROLLBACK"))
      /\ UNCHANGED <<vars, values, jobs, before, lone>>
  BY DriverMoves
<1>2. /\ CmdsInOrder' /\ (OnlyEnds => OnlyEnds')
  BY <1>1, SendingKeepsOrder DEF LoneInv
<1>3. /\ UNCHANGED <<flash, image, cursor, after, live, verify_active, cfgota_state, out>>
      /\ UNCHANGED <<values, before>>
  BY <1>1 DEF vars, flashvars, verifyvars
<1>4. Past => Past'
  BY <1>2, <1>3 DEF Past
<1>5. /\ Untouched => Untouched'
      /\ Trying => Trying'
      /\ Committed => Committed'
      /\ WentBack => WentBack'
  BY <1>3 DEF Untouched, Trying, Committed, WentBack, Page
<1>6. acks # <<>> => /\ Head(acks) = acks[1] /\ 1 \in 1 .. Len(acks)
                     /\ Len(acks) \in Nat
                     /\ \A i \in 1 .. Len(Tail(acks)) : i + 1 \in 1 .. Len(acks)
                                                      /\ Tail(acks)[i] = acks[i + 1]
  <2>1. acks \in Seq(AckRecord)
    BY DEF PushTypeOK
  <2>2. QED BY <2>1, TailType
<1>7. ASSUME NEW status, Reported(status)' PROVE Reported(status)
  BY <1>1, <1>3, <1>6, <1>7 DEF Reported
<1>8. /\ state' = "done" => state = "done" \/ Reported("VERIFIED")
      /\ state' = "rolled_back" => state = "rolled_back" \/ Reported("ROLLBACK")
  BY <1>1, <1>6 DEF Reported
<1>9. QED BY <1>2, <1>4, <1>5, <1>7, <1>8 DEF LoneInv, Conditions

\* A lone job finds an idle target, and links without commands.
LEMMA JobStarts ==
    ASSUME PushTypeOK, NEW v \in Pushed, StartJob(v), lone'
    PROVE  LoneInv'
<1>1. Idle /\ before' = live /\ values' = v /\ state' = "running" /\ UNCHANGED <<vars, acks>>
  BY DEF StartJob
<1>2. /\ UNCHANGED <<flash, image, cursor, after, live, verify_active, cfgota_state, out>>
      /\ cursor = 0 /\ flash.PENDING # 1 /\ live = flash.RADIO /\ ~ verify_active
      /\ out = NoAck /\ acks = <<>> /\ cmds = <<>>
  BY <1>1 DEF vars, flashvars, verifyvars, Idle, Running
<1>3. Untouched'
  BY <1>1, <1>2 DEF Untouched, Page
<1>4. cmds' = <<[op |-> "PREPARE", values |-> v]>>
  BY <1>2, PushAssumption DEF StartJob, Sent
<1>5. CmdsInOrder'
  BY <1>1, <1>4 DEF CmdsInOrder
<1>6. \A status : ~ Reported(status)'
  BY <1>1, <1>2 DEF Reported, NoAck, Ack
<1>7. QED BY <1>1, <1>3, <1>5, <1>6 DEF LoneInv, Conditions

\* Every step of the composition keeps the invariant.
LEMMA PushStep ==
    ASSUME PushInv, [PushNext]_pushvars
    PROVE  PushInv'
<1>1. PushTypeOK' /\ PingInv'
  BY PushTypeStep, StepOfTarget, PingStep DEF PushInv
<1>2. torn => torn'
  BY StepOfTarget, HistoryGrows DEF PushInv
<1>3. CASE LinkStep
  <2>1. lone' = lone
    BY <1>3, OrderKept DEF PushInv, driver
  <2>2. QED BY <1>1, <1>2, <1>3, <2>1, LinkStepKeeps DEF PushInv
<1>4. CASE DriverReads \/ StepTimeout \/ ResultTimeout
  <2>1. lone' = lone
    BY <1>4, DriverMoves DEF PushInv
  <2>2. QED BY <1>1, <1>2, <1>4, <2>1, DriverStepKeeps DEF PushInv
<1>5. CASE \E v \in Pushed : StartJob(v)
  BY <1>1, <1>5, JobStarts DEF PushInv
<1>6. CASE UNCHANGED pushvars
  <2>1. /\ UNCHANGED <<flash, image, cursor, after, live, verify_active, cfgota_state, out>>
        /\ UNCHANGED <<state, stage, values, before, lone, cmds, acks>>
    BY <1>6 DEF pushvars, driver, vars, flashvars, verifyvars
  <2>2. LoneInv => LoneInv'
    BY <2>1 DEF LoneInv, CmdsInOrder, Conditions, Past, OnlyEnds, Late, Untouched, Trying,
                Committed, WentBack, Page, Reported
  <2>3. QED BY <1>1, <1>2, <2>1, <2>2 DEF PushInv
<1>7. QED BY <1>3, <1>4, <1>5, <1>6 DEF PushNext, Driver, LinkStep

\* So it holds at any time.
LEMMA PushInvariant == PushSpec => []PushInv
<1>1. PushInit => PushInv
  BY PushInitType, PingInitial DEF PushInit, PushInv
<1>2. PushInv /\ [PushNext]_pushvars => PushInv'
  BY PushStep
<1>3. QED BY <1>1, <1>2, PTL DEF PushSpec

\* The operator of a lone push is told the truth: "done" of a target that runs
\* the values for good, "rolled_back" and an early error of one that runs what it
\* ran before; unless a power failure has torn the target's page (server.py
\* 840-919).
THEOREM OperatorIsToldTheTruth == PushSpec => []VerdictIsTrue
<1>1. PushInv => VerdictIsTrue
  <2>1. SUFFICES ASSUME PushInv, lone, Running, ~ torn
                 PROVE  /\ state = "done" =>
                              flash.RADIO = values /\ flash.PENDING # 1 /\ live = values
                        /\ state = "rolled_back"
                           \/ (state = "error" /\ stage \in {"handshake", "transmitting"}) =>
                              flash.RADIO = before /\ flash.PENDING # 1 /\ live = before
    BY DEF VerdictIsTrue
  <2>2. LoneInv /\ Page = flash
    BY <2>1 DEF PushInv, Page, Running
  <2>3. state = "done" => Committed
    BY <2>2 DEF LoneInv
  <2>4. state = "rolled_back" => WentBack
    BY <2>2 DEF LoneInv
  <2>5. stage \in {"handshake", "transmitting"} => Untouched
    BY <2>2 DEF LoneInv, Conditions, Past, OnlyEnds, Late
  <2>6. QED BY <2>2, <2>3, <2>4, <2>5 DEF Committed, WentBack, Untouched
<1>2. QED BY <1>1, PushInvariant, PTL
=============================================================================
