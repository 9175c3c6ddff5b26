--------------------------- MODULE NodeBootProofs ---------------------------
(***************************************************************************)
(* For every size of the log and any number of lives: what the boot log    *)
(* says is true, and a node comes up with the settings it had.             *)
(***************************************************************************)
EXTENDS NodeBoot, SequenceTheorems, WellFoundedInduction, TLAPS

(***************************************************************************)
(* The invariants.                                                         *)
(***************************************************************************)

N == EVENT_LOG_REC_COUNT

\* What survives a life is what the history says of its end.
Remembers ==
    pc = InReset =>
        IF ended = << >> THEN ~ diag.valid
        ELSE LET e == ended[Len(ended)] IN
             /\ diag.valid = e.survives
             /\ diag.valid => diag.stage = e.stage /\ diag.chk = e.chk

\* Until it is appended, the record of this start tells how the last life ended.
AboutToTell == pc \in {1, 3, 9, InLog} => TellsEnd(Rec)

\* The lives whose records may be in the log: this one's, once it was appended.
LastLogged == IF pc \in {11, 12, MainLoop} THEN Life ELSE Len(ended)

\* TellsEnd, of lives that ended as en says.
Tells(r, en) ==
    IF r.life = 1 \/ ~ en[r.life - 1].survives
    THEN r.last = 0 /\ r.hung = 0 /\ r.boot_count = 1
    ELSE LET e == en[r.life - 1] IN
         r.last = e.stage /\ r.hung = (IF e.stage = MainLoop THEN e.chk ELSE 0)

\* A sector whose slot n + 1 is the next to be written: the slots before it are
\* whole and true, or torn; that slot is erased, or a program of it was cut short;
\* the slots after it are erased.  The records are of the lives up to last.
Kept(lg, n, last, en) ==
    /\ n \in 0 .. N
    /\ \A i \in 1 .. n : /\ lg[i].magic = "MAGIC"
                         /\ lg[i].torn \/ \E r \in lg[i].records : lg[i].records = {r} /\ Tells(r, en)
    /\ n < N => /\ lg[n + 1].magic \in {"ERASED", "PART"}
                /\ lg[n + 1].torn \/ lg[n + 1] = ErasedSlot
    /\ \A i \in 1 .. N : i > n + 1 => lg[i] = ErasedSlot
    /\ \A i \in 1 .. N : \A r \in lg[i].records : r.life \in 1 .. last
    /\ \A i, j \in 1 .. N : i < j =>
        \A r \in lg[i].records, q \in lg[j].records : r.life < q.life

LogInv == ~ spoiled => Kept(log, Listed(log), LastLogged, ended)

HeadInv == pc = InLog /\ present => head = Listed(log)

BootInv == Remembers /\ AboutToTell /\ LogInv /\ HeadInv

\* What a start makes of the page.
IntervalOf(p) ==
    IF ValidInterval(Read(p, "PARAMETER_N")) THEN Read(p, "PARAMETER_N") ELSE DefaultInterval

AddressOf(p) ==
    IF HasAddress(p) /\ (Unstamped(p) \/ p["UID_FINGERPRINT"] = OwnPrint)
    THEN p["DEVICE_ID"] ELSE Derived

PageInv ==
    /\ pc = 1 => node.interval = DefaultInterval
    /\ pc \in {3, 9, InLog, 11, 12} => node.interval = IntervalOf(page)
    /\ pc = 12 => node.mAddr = AddressOf(page)
    /\ settled # NoSettings =>
        settled.interval = IntervalOf(page) /\ settled.mAddr = AddressOf(page)

(***************************************************************************)
(* Type correctness.                                                       *)
(***************************************************************************)

End  == [stage : InitStage \cup {0}, chk : Check \cup {0}, survives : BOOLEAN]
Diag == [valid : BOOLEAN, boot_count : 0 .. MaxLives, last : InitStage \cup {0},
         stage : InitStage \cup {0}, chk : Check \cup {0}, hung : Check \cup {0}]
Node == [mAddr : 0 .. 254, interval : 1 .. 255,
         flash_data : [deviceID : Byte, paramN : Byte]]
Page == [SlotName -> Byte \cup {Erased}]
Log  == [1 .. N -> SlotOf(LogRecord)]
SettingsType == [mAddr : 0 .. 254, interval : 0 .. 255]

\* The starts since power-up are counted, and there is at most one per life.
DiagOK ==
    /\ diag \in Diag
    /\ diag.boot_count <= IF pc = InReset THEN Len(ended) ELSE Life

LivesOK == pc \in Stage /\ ended \in Seq(End) /\ Len(ended) < MaxLives
PageOK  == page \in Page /\ node \in Node /\ settled \in SettingsType
LogOK   == log \in Log /\ head \in 0 .. N /\ present \in BOOLEAN /\ spoiled \in BOOLEAN

TypeInv == LivesOK /\ DiagOK /\ PageOK /\ LogOK

\* Of the actions, those that neither end a life nor start one.
Within ==
    \/ Settings \/ FlashFound \/ LogInit \/ LogAppend \/ MacInit \/ Main
    \/ \E c \in Check : Loop(c)
    \/ \E a \in Address : SetAddress(a)
    \/ \E i \in Interval : SetInterval(i) \/ PersistInterval(i)
    \/ PersistOther \/ SetFlash \/ ClearLog

Falls == Crash \/ CrashInLog \/ CrashInPage

\* The words that survive a reset keep their types.
LEMMA DiagTypes ==
    /\ \A d \in Diag, t \in InitStage : [d EXCEPT !.stage = t] \in Diag
    /\ \A d \in Diag, c \in Check : [d EXCEPT !.chk = c] \in Diag
    /\ \A d \in Diag, b \in BOOLEAN : [d EXCEPT !.valid = b] \in Diag
    /\ \A d \in Diag : d.boot_count < MaxLives => Survived(d) \in Diag
    /\ Fresh \in Diag
<1>1. MaxLives \in Nat \ {0}
  BY BootAssumption
<1>2. \A d \in Diag, t \in InitStage : [d EXCEPT !.stage = t] \in Diag
  BY DEF Diag
<1>3. \A d \in Diag, c \in Check : [d EXCEPT !.chk = c] \in Diag
  BY DEF Diag
<1>4. \A d \in Diag, b \in BOOLEAN : [d EXCEPT !.valid = b] \in Diag
  BY DEF Diag
<1>5. ASSUME NEW d \in Diag, d.boot_count < MaxLives PROVE Survived(d) \in Diag
  <2>1. d.boot_count + 1 \in 0 .. MaxLives /\ 1 \in InitStage
    BY <1>1, <1>5 DEF Diag, InitStage
  <2>2. (IF d.stage = MainLoop THEN d.chk ELSE 0) \in Check \cup {0}
    BY DEF Diag
  <2> QED BY <2>1, <2>2 DEF Survived, Diag
<1>6. Fresh \in Diag
  BY <1>1 DEF Fresh, Diag, InitStage
<1> QED BY <1>2, <1>3, <1>4, <1>5, <1>6

\* What each action does to the life, its stage, and the words that survive it.
LEMMA StageSteps ==
    /\ Within => UNCHANGED ended /\ pc # InReset /\ pc' # InReset
    /\ Settings => pc' = 3 /\ diag' = [diag EXCEPT !.stage = 3]
    /\ FlashFound => pc' = 9 /\ diag' = [diag EXCEPT !.stage = 9]
    /\ LogInit => pc' = InLog /\ UNCHANGED diag
    /\ LogAppend => pc' = 11 /\ diag' = [diag EXCEPT !.stage = 11]
    /\ MacInit => pc' = 12 /\ diag' = [diag EXCEPT !.stage = 12]
    /\ Main => pc' = MainLoop /\ diag' = [diag EXCEPT !.stage = MainLoop]
    /\ \A c \in Check : Loop(c) => pc' = pc /\ diag' = [diag EXCEPT !.chk = c]
    /\ (\E a \in Address : SetAddress(a)) \/ (\E i \in Interval : SetInterval(i) \/ PersistInterval(i))
       \/ PersistOther \/ SetFlash \/ ClearLog => UNCHANGED <<pc, diag>>
<1> USE DEF Goto, Looping, InReset, InLog, MainLoop
<1>1. Settings => pc = 1 /\ pc' = 3 /\ diag' = [diag EXCEPT !.stage = 3] /\ UNCHANGED ended
  BY DEF Settings
<1>2. FlashFound => pc = 3 /\ pc' = 9 /\ diag' = [diag EXCEPT !.stage = 9] /\ UNCHANGED ended
  BY DEF FlashFound
<1>3. LogInit => pc = 9 /\ pc' = InLog /\ UNCHANGED diag /\ UNCHANGED ended
  BY DEF LogInit
<1>4. LogAppend => pc = InLog /\ pc' = 11 /\ diag' = [diag EXCEPT !.stage = 11] /\ UNCHANGED ended
  BY DEF LogAppend
<1>5. MacInit => pc = 11 /\ pc' = 12 /\ diag' = [diag EXCEPT !.stage = 12] /\ UNCHANGED ended
  BY DEF MacInit
<1>6. Main => pc = 12 /\ pc' = MainLoop /\ diag' = [diag EXCEPT !.stage = MainLoop] /\ UNCHANGED ended
  BY DEF Main
<1>7. \A c \in Check : Loop(c) =>
        pc = MainLoop /\ pc' = pc /\ diag' = [diag EXCEPT !.chk = c] /\ UNCHANGED ended
  BY DEF Loop
<1>8. (\E a \in Address : SetAddress(a)) \/ (\E i \in Interval : SetInterval(i) \/ PersistInterval(i))
      \/ PersistOther \/ SetFlash \/ ClearLog => pc = MainLoop /\ UNCHANGED <<pc, diag, ended>>
  BY DEF SetAddress, SetInterval, PersistInterval, PersistOther, SetFlash, ClearLog
<1>9. Within => UNCHANGED ended /\ pc # InReset /\ pc' # InReset
  BY <1>1, <1>2, <1>3, <1>4, <1>5, <1>6, <1>7, <1>8 DEF Within
<1> QED BY <1>1, <1>2, <1>3, <1>4, <1>5, <1>6, <1>7, <1>8, <1>9

\* The end of a life.
LEMMA EndStep ==
    ASSUME TypeInv, Ends
    PROVE  \E e \in End :
             /\ ended' = Append(ended, e) /\ ended' \in Seq(End) /\ Len(ended') = Len(ended) + 1
             /\ \A i \in 1 .. Len(ended) : ended'[i] = ended[i]
             /\ ended'[Len(ended')] = e /\ Len(ended') < MaxLives
             /\ e.stage = diag.stage /\ e.chk = diag.chk
             /\ diag' = [diag EXCEPT !.valid = e.survives]
             /\ pc' = InReset /\ pc # InReset /\ UNCHANGED <<node, present, head>>
<1>1. PICK b \in BOOLEAN :
        /\ diag' = [diag EXCEPT !.valid = b]
        /\ ended' = Append(ended, [stage |-> diag.stage, chk |-> diag.chk, survives |-> b])
  BY DEF Ends
<1> DEFINE e == [stage |-> diag.stage, chk |-> diag.chk, survives |-> b]
<1>2. e \in End /\ e.stage = diag.stage /\ e.chk = diag.chk /\ e.survives = b
  BY DEF TypeInv, DiagOK, Diag, End
<1> HIDE DEF e
<1>3. ended \in Seq(End) /\ ended' = Append(ended, e) /\ Len(ended) \in Nat /\ MaxLives \in Nat
  BY <1>1, LenProperties, BootAssumption DEF TypeInv, LivesOK, e
<1>4. /\ ended' \in Seq(End) /\ Len(ended') = Len(ended) + 1
      /\ \A i \in 1 .. Len(ended) : ended'[i] = ended[i]
      /\ ended'[Len(ended) + 1] = e
  BY <1>2, <1>3, AppendProperties
<1>5. Len(ended') < MaxLives
  BY <1>3, <1>4 DEF Ends, Life
<1>6. pc' = InReset /\ pc # InReset /\ UNCHANGED <<node, present, head>>
  BY DEF Ends
<1> QED BY <1>1, <1>2, <1>3, <1>4, <1>5, <1>6

\* Stages and lives.
LEMMA LivesType ==
    ASSUME TypeInv, [Next]_vars PROVE LivesOK'
<1>0. pc \in Stage /\ ended \in Seq(End) /\ Len(ended) < MaxLives
  BY DEF TypeInv, LivesOK
<1>1. CASE Within
  <2>1. UNCHANGED ended
    BY <1>1, StageSteps
  <2>2. pc' \in Stage
    BY <1>0, <1>1, StageSteps DEF Within, Stage, InitStage
  <2> QED BY <1>0, <2>1, <2>2 DEF LivesOK
<1>2. CASE Enter
  BY <1>0, <1>2 DEF Enter, Goto, LivesOK, Stage, InitStage
<1>3. CASE Falls
  <2>1. Ends
    BY <1>3 DEF Falls, Crash, CrashInLog, CrashInPage
  <2> QED BY <2>1, EndStep DEF LivesOK, Stage
<1>4. CASE Cloned \/ UNCHANGED vars
  BY <1>0, <1>4 DEF Cloned, vars, LivesOK
<1> QED BY <1>1, <1>2, <1>3, <1>4 DEF Next, Start, Within, Falls

\* The words that survive.
LEMMA DiagType ==
    ASSUME TypeInv, [Next]_vars PROVE DiagOK'
<1>0. /\ diag \in Diag /\ Len(ended) \in Nat /\ MaxLives \in Nat /\ Life = Len(ended) + 1
      /\ Len(ended) < MaxLives /\ diag.boot_count \in 0 .. MaxLives
      /\ diag.boot_count <= IF pc = InReset THEN Len(ended) ELSE Life
  BY LenProperties, BootAssumption DEF TypeInv, LivesOK, DiagOK, Life, Diag
<1>1. CASE Within
  <2>1. UNCHANGED ended /\ pc # InReset /\ pc' # InReset
    BY <1>1, StageSteps
  <2>2. diag' \in Diag /\ diag'.boot_count = diag.boot_count
    <3>1. CASE \E t \in InitStage : diag' = [diag EXCEPT !.stage = t]
      BY <1>0, <3>1, DiagTypes DEF Diag
    <3>2. CASE \E c \in Check : diag' = [diag EXCEPT !.chk = c]
      BY <1>0, <3>2, DiagTypes DEF Diag
    <3>3. CASE UNCHANGED diag
      BY <1>0, <3>3
    <3>4. {3, 9, 11, 12, MainLoop} \subseteq InitStage
      BY DEF InitStage
    <3> QED BY <1>1, <3>1, <3>2, <3>3, <3>4, StageSteps DEF Within
  <2> QED BY <1>0, <2>1, <2>2 DEF DiagOK, Life
<1>2. CASE Enter
  <2>1. pc = InReset /\ pc' = 1 /\ UNCHANGED ended /\ pc' # InReset
    BY <1>2 DEF Enter, Goto, InReset
  <2>2. CASE diag.valid
    <3>1. diag' = Survived(diag)
      BY <1>2, <2>2 DEF Enter
    <3>2. diag.boot_count <= Len(ended)
      BY <1>0, <2>1
    <3>3. Survived(diag) \in Diag
      BY <1>0, <3>2, DiagTypes
    <3>4. Survived(diag).boot_count = diag.boot_count + 1
      BY <1>0 DEF Survived, Diag
    <3> QED BY <1>0, <2>1, <3>1, <3>2, <3>3, <3>4 DEF DiagOK, Life
  <2>3. CASE ~ diag.valid
    <3>1. diag' = Fresh
      BY <1>2, <2>3 DEF Enter
    <3>2. Fresh \in Diag /\ Fresh.boot_count = 1
      BY DiagTypes DEF Fresh
    <3> QED BY <1>0, <2>1, <3>1, <3>2 DEF DiagOK, Life
  <2> QED BY <2>2, <2>3
<1>3. CASE Falls
  <2>1. Ends
    BY <1>3 DEF Falls, Crash, CrashInLog, CrashInPage
  <2>2. PICK e \in End : /\ Len(ended') = Len(ended) + 1 /\ pc' = InReset /\ pc # InReset
                         /\ diag' = [diag EXCEPT !.valid = e.survives]
    BY <2>1, EndStep
  <2>3. e.survives \in BOOLEAN
    BY DEF End
  <2>4. diag' \in Diag /\ diag'.boot_count = diag.boot_count
    BY <1>0, <2>2, <2>3, DiagTypes DEF Diag
  <2> QED BY <1>0, <2>2, <2>4 DEF DiagOK
<1>4. CASE Cloned \/ UNCHANGED vars
  <2>1. UNCHANGED <<pc, diag, ended>>
    BY <1>4 DEF Cloned, vars
  <2> QED BY <1>0, <2>1 DEF DiagOK, Life
<1> QED BY <1>1, <1>2, <1>3, <1>4 DEF Next, Start, Within, Falls

\* The operations on the page keep its type.
LEMMA PageTypes ==
    /\ \A p \in Page, t \in SlotName : Read(p, t) \in Byte
    /\ \A p \in Page : ParamWritten(p) \in Page
    /\ \A p \in Page, v \in Byte, t \in SlotName : [p EXCEPT ![t] = v] \in Page
    /\ \A p \in Page, v \in Byte, t \in SlotName : ByteWritten(p, t, v) \in Page
    /\ \A n \in Node : FlashWritten(n.flash_data) \in Page
    /\ \A q \in Page : Torn(q) \subseteq Page
    /\ ErasedPage \in Page
<1>1. ASSUME NEW p \in Page, NEW t \in SlotName PROVE Read(p, t) \in Byte
  BY DEF Page, Read, Byte, Erased
<1>2. ASSUME NEW p \in Page PROVE ParamWritten(p) \in Page
  BY <1>1 DEF Page, ParamWritten
<1>3. ASSUME NEW p \in Page, NEW v \in Byte \cup {Erased}, NEW t \in SlotName
      PROVE  [p EXCEPT ![t] = v] \in Page
  BY DEF Page
<1>4. ASSUME NEW p \in Page, NEW v \in Byte, NEW t \in SlotName PROVE ByteWritten(p, t, v) \in Page
  BY <1>3 DEF ByteWritten
<1>5. ErasedPage \in Page
  BY DEF ErasedPage, Page
<1>6. {"DEVICE_ID", "PARAMETER_N", "UID_FINGERPRINT"} \subseteq SlotName
  BY DEF SlotName
<1>7. ASSUME NEW n \in Node PROVE FlashWritten(n.flash_data) \in Page
  <2>1. n.flash_data.deviceID \in Byte /\ n.flash_data.paramN \in Byte
    BY DEF Node, Byte
  <2>2. [ErasedPage EXCEPT !["DEVICE_ID"] = n.flash_data.deviceID] \in Page
    BY <1>3, <1>5, <1>6, <2>1
  <2> QED BY <1>3, <1>6, <2>1, <2>2 DEF FlashWritten
<1>8. ASSUME NEW q \in Page PROVE Torn(q) \subseteq Page
  <2>1. q["DEVICE_ID"] \in Byte \cup {Erased}
    BY <1>6 DEF Page
  <2> QED BY <1>3, <1>5, <1>6, <2>1 DEF Torn
<1> QED BY <1>1, <1>2, <1>3, <1>4, <1>5, <1>7, <1>8

\* The page, the RAM and the settings.
LEMMA PageType ==
    ASSUME TypeInv, [Next]_vars PROVE PageOK'
<1>0. page \in Page /\ node \in Node /\ settled \in SettingsType
  BY DEF TypeInv, PageOK
<1>1. /\ node.mAddr \in 0 .. 254 /\ node.interval \in 1 .. 255
      /\ node.flash_data.deviceID \in Byte /\ node.flash_data.paramN \in Byte
      /\ node.flash_data \in [deviceID : Byte, paramN : Byte]
  BY <1>0 DEF Node
<1>2. {"DEVICE_ID", "PARAMETER_N", "UID_FINGERPRINT"} \subseteq SlotName
  BY DEF SlotName
<1>3. NoSettings \in SettingsType /\ Current \in SettingsType /\ Cleared \in Node
  BY <1>1 DEF NoSettings, SettingsType, Current, Cleared, Node, NoData, DefaultInterval, Byte
<1>4. ASSUME NEW a \in 0 .. 254 PROVE [node EXCEPT !.mAddr = a] \in Node
  BY <1>0 DEF Node
<1>5. ASSUME NEW i \in 1 .. 255 PROVE [node EXCEPT !.interval = i] \in Node
  BY <1>0 DEF Node
<1>6. CASE Enter
  BY <1>0, <1>3, <1>6 DEF Enter, PageOK
<1>7. CASE Settings
  <2>1. Read(page, "PARAMETER_N") \in Byte
    BY <1>0, <1>2, PageTypes
  <2> DEFINE i == IF ValidInterval(Read(page, "PARAMETER_N")) THEN Read(page, "PARAMETER_N")
                  ELSE node.interval
  <2>2. i \in 1 .. 255
    BY <1>1, <2>1 DEF ValidInterval, Byte
  <2>3. node' = [node EXCEPT !.interval = i]
    BY <1>7 DEF Settings
  <2> HIDE DEF i
  <2> QED BY <1>0, <1>5, <1>7, <2>2, <2>3 DEF Settings, PageOK
<1>8. CASE FlashFound \/ LogInit \/ LogAppend \/ (\E c \in Check : Loop(c)) \/ ClearLog
           \/ Crash \/ CrashInLog \/ UNCHANGED vars
  <2>1. UNCHANGED <<page, node, settled>>
    BY <1>8 DEF FlashFound, LogInit, LogAppend, Loop, ClearLog, Crash, CrashInLog, Ends, vars
  <2> QED BY <1>0, <2>1 DEF PageOK
<1>9. CASE MacInit
  <2>1. page' \in Page
    <3>1. Stamp \in Byte
      BY BootAssumption DEF Stamp, Byte
    <3> QED BY <1>0, <1>2, <1>9, <3>1, PageTypes DEF MacInit
  <2> DEFINE a == IF HasAddress(page) /\ (Unstamped(page) \/ page["UID_FINGERPRINT"] = OwnPrint)
                  THEN page["DEVICE_ID"] ELSE Derived
  <2>2. a \in 0 .. 254
    <3>1. Derived \in 0 .. 254
      BY BootAssumption
    <3>2. HasAddress(page) => page["DEVICE_ID"] \in 0 .. 254
      BY DEF HasAddress, Read
    <3> QED BY <3>1, <3>2
  <2>3. node' = [node EXCEPT !.mAddr = a]
    BY <1>9 DEF MacInit
  <2> HIDE DEF a
  <2> QED BY <1>0, <1>4, <1>9, <2>1, <2>2, <2>3 DEF MacInit, PageOK
<1>10. CASE Main
  BY <1>0, <1>3, <1>10 DEF Main, PageOK
<1>11. ASSUME NEW a \in Address, SetAddress(a) PROVE PageOK'
  <2> DEFINE d == [node.flash_data EXCEPT !.deviceID = a]
             m == IF a \in 1 .. 254 THEN a ELSE node.mAddr
  <2>1. a \in Byte /\ m \in 0 .. 254
    BY <1>1, BootAssumption DEF Byte
  <2>2. d \in [deviceID : Byte, paramN : Byte]
    BY <1>1, <2>1
  <2>3. node' = [node EXCEPT !.mAddr = m, !.flash_data = d]
    BY <1>11, Zenon DEF SetAddress
  <2> HIDE DEF d, m
  <2>4. node' \in Node
    <3>1. node' = [mAddr |-> m, interval |-> node.interval, flash_data |-> d]
      BY <1>0, <2>3 DEF Node
    <3> QED BY <1>1, <2>1, <2>2, <3>1 DEF Node
  <2> QED BY <1>0, <1>11, <2>4 DEF SetAddress, PageOK
<1>12. ASSUME NEW i \in Interval, SetInterval(i) \/ PersistInterval(i) PROVE PageOK'
  <2>1. i \in 1 .. 255 /\ i \in Byte /\ i \in 0 .. 255
    BY BootAssumption DEF Byte
  <2> DEFINE d == [node.flash_data EXCEPT !.paramN = i]
  <2>2. d \in [deviceID : Byte, paramN : Byte]
    BY <1>1, <2>1
  <2>3. node' \in Node
    <3>1. node' = [node EXCEPT !.interval = i, !.flash_data = d]
      BY <1>12, Zenon DEF SetInterval, PersistInterval
    <3> HIDE DEF d
    <3>2. node' = [mAddr |-> node.mAddr, interval |-> i, flash_data |-> d]
      BY <1>0, <3>1 DEF Node
    <3> QED BY <1>1, <2>1, <2>2, <3>2 DEF Node
  <2>4. Persisted(i) \in Page
    BY <1>0, <1>2, <2>1, PageTypes DEF Persisted
  <2>5. [settled EXCEPT !.interval = i] \in SettingsType
    BY <1>0, <2>1 DEF SettingsType
  <2> QED BY <1>0, <1>3, <1>12, <2>3, <2>4, <2>5 DEF SetInterval, PersistInterval, PageOK
<1>13. CASE PersistOther \/ SetFlash
  BY <1>0, <1>3, <1>13, PageTypes DEF PersistOther, SetFlash, PageOK
<1>14. CASE CrashInPage
  <2>1. UNCHANGED node /\ settled' = NoSettings
    BY <1>14 DEF CrashInPage, Ends
  <2>2. page' \in Page
    BY <1>0, <1>14, PageTypes DEF CrashInPage
  <2> QED BY <1>0, <1>3, <2>1, <2>2 DEF PageOK
<1>15. CASE Cloned
  <2>1. PICK a \in Address, f \in {Erased, 255, OtherPrint} :
          page' = [ErasedPage EXCEPT !["DEVICE_ID"] = a, !["UID_FINGERPRINT"] = f]
    BY <1>15 DEF Cloned
  <2>2. a \in Byte \cup {Erased} /\ f \in Byte \cup {Erased}
    BY BootAssumption DEF Byte
  <2>3. page' \in Page
    BY <1>2, <2>1, <2>2, PageTypes DEF Page
  <2> QED BY <1>0, <1>3, <1>15, <2>3 DEF Cloned, PageOK
<1> QED
  BY <1>6, <1>7, <1>8, <1>9, <1>10, <1>11, <1>12, <1>13, <1>14, <1>15 DEF Next, Start

\* A sector after its programs and erases is one.
LEMMA LogTypes ==
    /\ \A lg \in Log, n \in Nat, r \in LogRecord : Appended(lg, n, r) \in Log
    /\ \A lg \in Log, n \in Nat, r \in LogRecord : TornAppend(lg, n, r) \subseteq Log
    /\ \A lg \in Log : TornErase(lg) \subseteq Log
    /\ ErasedLog \in Log
<1>1. N \in Nat \ {0}
  BY LogAssumption DEF N
<1>2. ErasedSlot \in SlotOf(LogRecord)
  BY DEF ErasedSlot, SlotOf, Magic
<1>3. ErasedLog \in Log
  BY <1>2 DEF ErasedLog, Log, N
<1>4. ASSUME NEW lg \in Log, NEW n \in Nat PROVE Before(lg, n) \in Log /\ Next1(n) \in 1 .. N
  BY <1>1, <1>3 DEF Before, Next1, IsFull, N
<1>5. ASSUME NEW s \in SlotOf(LogRecord), NEW r \in LogRecord
      PROVE  Programmed(s, r) \in SlotOf(LogRecord) /\ TornProgram(s, r) \subseteq SlotOf(LogRecord)
  <2>1. s.records \cup {r} \in SUBSET LogRecord /\ s.magic \in Magic /\ s.torn \in BOOLEAN
    BY DEF SlotOf
  <2>2. Programmed(s, r) \in SlotOf(LogRecord)
    BY <2>1 DEF Programmed, SlotOf, Magic
  <2>3. \A m \in Magic : [magic |-> m, records |-> s.records \cup {r}, torn |-> TRUE] \in SlotOf(LogRecord)
    BY <2>1 DEF SlotOf
  <2>4. (IF s.magic \in {"JUNK", "MAGIC"} THEN {s.magic} ELSE {s.magic, "PART", "MAGIC"}) \subseteq Magic
    BY <2>1 DEF Magic
  <2>5. TornProgram(s, r) \subseteq SlotOf(LogRecord)
    BY <2>3, <2>4 DEF TornProgram
  <2> QED BY <2>2, <2>5
<1>6. ASSUME NEW lg \in Log, NEW i \in 1 .. N, NEW s \in SlotOf(LogRecord)
      PROVE  [lg EXCEPT ![i] = s] \in Log /\ lg[i] \in SlotOf(LogRecord)
  BY DEF Log
<1>7. ASSUME NEW lg \in Log, NEW n \in Nat, NEW r \in LogRecord PROVE Appended(lg, n, r) \in Log
  <2>1. Before(lg, n)[Next1(n)] \in SlotOf(LogRecord)
    BY <1>2, <1>4, <1>6
  <2> QED BY <1>4, <1>5, <1>6, <2>1 DEF Appended
<1>8. ASSUME NEW lg \in Log, NEW n \in Nat, NEW r \in LogRecord PROVE TornAppend(lg, n, r) \subseteq Log
  <2>1. Before(lg, n)[Next1(n)] \in SlotOf(LogRecord)
    BY <1>2, <1>4, <1>6
  <2> QED BY <1>4, <1>5, <1>6, <2>1 DEF TornAppend
<1>9. ASSUME NEW lg \in Log PROVE TornErase(lg) \subseteq Log
  <2>1. ASSUME NEW i \in 1 .. N PROVE [lg[i] EXCEPT !.magic = "JUNK"] \in SlotOf(LogRecord)
    BY DEF Log, SlotOf, Magic
  <2>2. \A i \in 1 .. N : lg[i] \in SlotOf(LogRecord)
    BY DEF Log
  <2> QED BY <1>2, <2>1, <2>2 DEF TornErase, Log, N
<1> QED BY <1>3, <1>7, <1>8, <1>9

\* The slots before the first without the magic word: there is one such number.
LEMMA ListedIs ==
    ASSUME NEW lg
    PROVE  /\ Listed(lg) \in 0 .. N /\ Scan(lg) = Listed(lg)
           /\ \A i \in 1 .. Listed(lg) : lg[i].magic = "MAGIC"
           /\ Listed(lg) < N => lg[Listed(lg) + 1].magic # "MAGIC"
<1> DEFINE T == {k \in 1 .. N : lg[k].magic # "MAGIC"}
           P(n) == /\ \A i \in 1 .. n : lg[i].magic = "MAGIC"
                   /\ n < N => lg[n + 1].magic # "MAGIC"
<1>0. N \in Nat \ {0}
  BY LogAssumption DEF N
<1>1. \E n \in 0 .. N : P(n)
  <2>1. CASE T = {}
    <3>1. P(N)
      BY <1>0, <2>1
    <3> QED BY <1>0, <3>1
  <2>2. CASE T # {}
    <3>1. T \subseteq Nat
      BY <1>0
    <3>2. IsWellFoundedOn(OpToRel(<, Nat), Nat)
      BY NatLessThanWellFounded
    <3> HIDE DEF T
    <3>3. PICK x \in T : \A y \in T : ~ (<<y, x>> \in OpToRel(<, Nat))
      BY <2>2, <3>1, <3>2, WFMin
    <3>4. \A y \in T : ~ (y < x)
      BY <3>1, <3>3 DEF OpToRel
    <3>5. x \in 1 .. N /\ lg[x].magic # "MAGIC"
      BY DEF T
    <3>6. ASSUME NEW i \in 1 .. x - 1 PROVE lg[i].magic = "MAGIC"
      <4>1. i \in 1 .. N /\ i < x
        BY <1>0, <3>5
      <4> QED BY <3>4, <4>1 DEF T
    <3>7. (x - 1) + 1 = x /\ x - 1 \in 0 .. N
      BY <1>0, <3>5
    <3>8. P(x - 1)
      BY <3>5, <3>6, <3>7
    <3> QED BY <3>7, <3>8
  <2> QED BY <2>1, <2>2
<1>2. Listed(lg) = CHOOSE n \in 0 .. N : P(n)
  BY DEF Listed, N
<1>3. Scan(lg) = CHOOSE n \in 0 .. N : P(n)
  BY DEF Scan, N
<1> HIDE DEF P
<1>4. (CHOOSE n \in 0 .. N : P(n)) \in 0 .. N /\ P(CHOOSE n \in 0 .. N : P(n))
  BY <1>1
<1>5. Listed(lg) \in 0 .. N /\ P(Listed(lg))
  BY <1>2, <1>4
<1> QED BY <1>2, <1>3, <1>5 DEF P

\* ... and no other.
LEMMA ListedUnique ==
    ASSUME NEW lg, NEW n \in 0 .. N, \A i \in 1 .. n : lg[i].magic = "MAGIC",
           n < N => lg[n + 1].magic # "MAGIC"
    PROVE  Listed(lg) = n
<1> DEFINE m == Listed(lg)
<1>0. N \in Nat
  BY LogAssumption DEF N
<1>1. /\ m \in 0 .. N
      /\ \A i \in 1 .. m : lg[i].magic = "MAGIC"
      /\ m < N => lg[m + 1].magic # "MAGIC"
  BY ListedIs
<1> HIDE DEF m
<1>2. ~ (m < n)
  <2> SUFFICES ASSUME m < n PROVE FALSE
    OBVIOUS
  <2>1. m + 1 \in 1 .. n /\ m < N
    BY <1>0, <1>1
  <2> QED BY <1>1, <2>1
<1>3. ~ (n < m)
  <2> SUFFICES ASSUME n < m PROVE FALSE
    OBVIOUS
  <2>1. n + 1 \in 1 .. m /\ n < N
    BY <1>0, <1>1
  <2> QED BY <1>1, <2>1
<1>4. m = n
  BY <1>0, <1>1, <1>2, <1>3
<1> QED BY <1>4 DEF m

\* The record of a start.
LEMMA RecType ==
    ASSUME LivesOK, DiagOK PROVE Rec \in LogRecord /\ Rec.life = Life /\ Life \in 1 .. MaxLives
                                 /\ Life = Len(ended) + 1 /\ Len(ended) \in Nat
<1>1. Len(ended) \in Nat /\ Len(ended) < MaxLives /\ MaxLives \in Nat
  BY LenProperties, BootAssumption DEF LivesOK
<1>2. Life \in 1 .. MaxLives /\ Life = Len(ended) + 1
  BY <1>1 DEF Life
<1>3. diag \in Diag
  BY DEF DiagOK
<1> QED BY <1>1, <1>2, <1>3 DEF Rec, Diag, LogRecord

\* The log.
LEMMA LogType ==
    ASSUME TypeInv, [Next]_vars PROVE LogOK'
<1>0. /\ log \in Log /\ head \in 0 .. N /\ present \in BOOLEAN /\ spoiled \in BOOLEAN
      /\ N \in Nat \ {0} /\ Rec \in LogRecord /\ head \in Nat
  BY LogAssumption, RecType DEF TypeInv, LogOK, N
<1>1. CASE Enter
  <2>1. log' \in Log /\ head' \in 0 .. N
    BY <1>0, <1>1 DEF Enter
  <2>2. present' \in BOOLEAN
    BY <1>1, Zenon DEF Enter
  <2>3. spoiled' \in BOOLEAN
    BY <1>0, <1>1, Zenon DEF Enter
  <2> QED BY <2>1, <2>2, <2>3 DEF LogOK
<1>2. CASE FlashFound
  BY <1>0, <1>2 DEF FlashFound, LogOK
<1>3. CASE LogInit
  <2>1. head' \in 0 .. N
    BY <1>0, <1>3, ListedIs DEF LogInit
  <2> QED BY <1>0, <1>3, <2>1 DEF LogInit, LogOK
<1>4. CASE LogAppend
  <2>1. CASE present
    <3>1. log' = Appended(log, head, Rec) /\ head' = Next1(head) /\ UNCHANGED present
          /\ spoiled' = (spoiled /\ ~ IsFull(head))
      BY <1>4, <2>1 DEF LogAppend
    <3>2. log' \in Log
      BY <1>0, <3>1, LogTypes
    <3>3. head' \in 0 .. N
      BY <1>0, <3>1 DEF Next1, IsFull, N
    <3>4. spoiled' \in BOOLEAN
      BY <3>1
    <3>5. present' \in BOOLEAN
      BY <1>0, <3>1
    <3> QED BY <3>2, <3>3, <3>4, <3>5 DEF LogOK
  <2>2. CASE ~ present
    <3>1. UNCHANGED <<log, head, spoiled, present>>
      BY <1>4, <2>2 DEF LogAppend
    <3> QED BY <1>0, <3>1 DEF LogOK
  <2> QED BY <2>1, <2>2
<1>5. CASE ClearLog
  <2>1. log' \in Log /\ head' \in 0 .. N
    BY <1>0, <1>5, LogTypes DEF ClearLog
  <2>2. present' \in BOOLEAN
    BY <1>0, <1>5, Zenon DEF ClearLog
  <2>3. spoiled' \in BOOLEAN
    BY <1>5, Zenon DEF ClearLog
  <2> QED BY <2>1, <2>2, <2>3 DEF LogOK
<1>6. CASE CrashInLog
  <2>1. UNCHANGED <<head, present>>
    BY <1>6 DEF CrashInLog, Ends
  <2>2. log' \in Log
    BY <1>0, <1>6, LogTypes DEF CrashInLog
  <2>3. spoiled' \in BOOLEAN
    BY <1>6 DEF CrashInLog
  <2>4. head' \in 0 .. N /\ present' \in BOOLEAN
    BY <1>0, <2>1
  <2> QED BY <2>2, <2>3, <2>4 DEF LogOK
<1>7. CASE Settings \/ MacInit \/ Main \/ (\E c \in Check : Loop(c)) \/ (\E a \in Address : SetAddress(a))
           \/ (\E i \in Interval : SetInterval(i) \/ PersistInterval(i)) \/ PersistOther \/ SetFlash
           \/ Crash \/ CrashInPage \/ Cloned \/ UNCHANGED vars
  <2>1. UNCHANGED <<log, head, present, spoiled>>
    BY <1>7 DEF Settings, MacInit, Main, Loop, SetAddress, SetInterval, PersistInterval, PersistOther,
       SetFlash, Crash, CrashInPage, Ends, Cloned, vars
  <2> QED BY <1>0, <2>1 DEF LogOK
<1> QED BY <1>1, <1>2, <1>3, <1>4, <1>5, <1>6, <1>7 DEF Next, Start

\* Before the first start.
LEMMA TypeInit == Init => TypeInv
<1> SUFFICES ASSUME Init PROVE TypeInv
  OBVIOUS
<1>1. MaxLives \in Nat \ {0} /\ N \in Nat \ {0}
  BY BootAssumption, LogAssumption DEF N
<1>2. LivesOK
  <2>1. << >> \in Seq(End) /\ Len(<< >>) = 0
    OBVIOUS
  <2> QED BY <1>1, <2>1 DEF Init, LivesOK, Stage
<1>3. DiagOK
  <2>1. Len(<< >>) = 0
    OBVIOUS
  <2> QED BY <1>1, <2>1 DEF Init, DiagOK, Diag, InReset
<1>4. PageOK
  BY PageTypes DEF Init, PageOK, Cleared, Node, NoData, NoSettings, SettingsType, DefaultInterval, Byte
<1>5. LogOK
  <2>1. log \in Log /\ head \in 0 .. N
    BY <1>1, LogTypes DEF Init
  <2>2. present \in BOOLEAN /\ spoiled \in BOOLEAN
    BY Zenon DEF Init
  <2> QED BY <2>1, <2>2 DEF LogOK
<1> QED BY <1>2, <1>3, <1>4, <1>5 DEF TypeInv

\* Every step keeps the types.
LEMMA TypeStep == TypeInv /\ [Next]_vars => TypeInv'
BY LivesType, DiagType, PageType, LogType DEF TypeInv

\* The types, and the bounds they carry: the log never overflows, and the starts
\* it counts are never more than the lives there were.
THEOREM TypeCorrect == Spec => []TypeOK
<1>1. TypeInv => TypeOK
  <2> SUFFICES ASSUME TypeInv PROVE TypeOK
    OBVIOUS
  <2>1. LivesOK /\ DiagOK /\ PageOK /\ LogOK
    BY DEF TypeInv
  <2>2. pc \in Stage /\ Len(ended) < MaxLives
    BY <2>1 DEF LivesOK
  <2>3. diag \in [valid : BOOLEAN, boot_count : 0 .. MaxLives, last : InitStage \cup {0},
                 stage : InitStage \cup {0}, chk : Check \cup {0}, hung : Check \cup {0}]
    BY <2>1 DEF DiagOK, Diag
  <2>4. page \in [SlotName -> Byte \cup {Erased}] /\ node \in Node
        /\ settled \in [mAddr : 0 .. 254, interval : 0 .. 255]
    BY <2>1 DEF PageOK, Page, SettingsType
  <2>5. node.mAddr \in 0 .. 254 /\ node.interval \in 1 .. 255
        /\ node.flash_data.deviceID \in Byte /\ node.flash_data.paramN \in Byte
    BY <2>4 DEF Node
  <2>6. \A i \in 1 .. EVENT_LOG_REC_COUNT :
            log[i] \in [magic : Magic, records : SUBSET LogRecord, torn : BOOLEAN]
    BY <2>1 DEF LogOK, Log, SlotOf, N
  <2>7. head \in 0 .. EVENT_LOG_REC_COUNT
    BY <2>1 DEF LogOK, N
  <2>8. present \in BOOLEAN /\ spoiled \in BOOLEAN
    BY <2>1 DEF LogOK
  <2> QED BY Zenon, <2>2, <2>3, <2>4, <2>5, <2>6, <2>7, <2>8 DEF TypeOK
<1> QED BY <1>1, TypeInit, TypeStep, PTL DEF Spec

(***************************************************************************)
(* The settings.                                                           *)
(***************************************************************************)

\* The writes of the page that keep what a start makes of it, or change the one
\* setting that is stored.
LEMMA PageGives ==
    ASSUME NEW p \in Page
    PROVE  /\ IntervalOf(ParamWritten(p)) = IntervalOf(p)
           /\ AddressOf(ParamWritten(p)) = AddressOf(p)
           /\ \A i \in Interval :
                /\ IntervalOf([ParamWritten(p) EXCEPT !["PARAMETER_N"] = i]) = i
                /\ AddressOf([ParamWritten(p) EXCEPT !["PARAMETER_N"] = i]) = AddressOf(p)
           /\ HasAddress(p) /\ Unstamped(p) =>
                /\ IntervalOf(ByteWritten(p, "UID_FINGERPRINT", Stamp)) = IntervalOf(p)
                /\ AddressOf(ByteWritten(p, "UID_FINGERPRINT", Stamp)) = AddressOf(p)
<1>1. /\ {"DEVICE_ID", "PARAMETER_N", "UID_FINGERPRINT"} \subseteq SlotName
      /\ p["DEVICE_ID"] \in -1 .. 255 /\ p["PARAMETER_N"] \in -1 .. 255
      /\ p["UID_FINGERPRINT"] \in -1 .. 255
      /\ OwnPrint \in 0 .. 254 /\ Interval \subseteq 1 .. 255
  BY BootAssumption DEF SlotName, Page, Byte, Erased
\* A page q whose slots read as those of p do, the address word too.
<1>2. ASSUME NEW q,
             Read(q, "DEVICE_ID") = Read(p, "DEVICE_ID"),
             Read(p, "DEVICE_ID") \in 1 .. 254 => q["DEVICE_ID"] = p["DEVICE_ID"],
             Unstamped(q) \/ q["UID_FINGERPRINT"] = OwnPrint <=>
                Unstamped(p) \/ p["UID_FINGERPRINT"] = OwnPrint
      PROVE  AddressOf(q) = AddressOf(p)
  BY <1>2 DEF AddressOf, HasAddress
<1>3. ASSUME NEW q, Read(q, "PARAMETER_N") = Read(p, "PARAMETER_N") PROVE IntervalOf(q) = IntervalOf(p)
  BY <1>3 DEF IntervalOf
<1> DEFINE w == ParamWritten(p)
<1>4. /\ w["DEVICE_ID"] = Read(p, "DEVICE_ID") /\ w["PARAMETER_N"] = Read(p, "PARAMETER_N")
      /\ w["UID_FINGERPRINT"] = Read(p, "UID_FINGERPRINT") /\ w \in [SlotName -> Byte]
  BY <1>1, PageTypes DEF ParamWritten
<1> HIDE DEF w
<1>5. IntervalOf(w) = IntervalOf(p)
  <2>1. Read(w, "PARAMETER_N") = Read(p, "PARAMETER_N")
    BY <1>1, <1>4 DEF Read, Erased
  <2> QED BY <1>3, <2>1
<1>6. ASSUME NEW q, q["DEVICE_ID"] = w["DEVICE_ID"], q["UID_FINGERPRINT"] = w["UID_FINGERPRINT"]
      PROVE  AddressOf(q) = AddressOf(p)
  <2>1. Read(q, "DEVICE_ID") = Read(p, "DEVICE_ID")
    BY <1>1, <1>4, <1>6 DEF Read, Erased
  <2>2. Read(p, "DEVICE_ID") \in 1 .. 254 => q["DEVICE_ID"] = p["DEVICE_ID"]
    BY <1>1, <1>4, <1>6 DEF Read, Erased
  <2>3. Unstamped(q) \/ q["UID_FINGERPRINT"] = OwnPrint <=>
            Unstamped(p) \/ p["UID_FINGERPRINT"] = OwnPrint
    BY <1>1, <1>4, <1>6 DEF Read, Erased, Unstamped
  <2> QED BY <1>2, <2>1, <2>2, <2>3
<1>7. AddressOf(w) = AddressOf(p)
  BY <1>6
<1>8. ASSUME NEW i \in Interval
      PROVE  /\ IntervalOf([w EXCEPT !["PARAMETER_N"] = i]) = i
             /\ AddressOf([w EXCEPT !["PARAMETER_N"] = i]) = AddressOf(p)
  <2> DEFINE q == [w EXCEPT !["PARAMETER_N"] = i]
  <2>1. q["PARAMETER_N"] = i /\ q["DEVICE_ID"] = w["DEVICE_ID"]
        /\ q["UID_FINGERPRINT"] = w["UID_FINGERPRINT"]
    BY <1>1, <1>4
  <2> HIDE DEF q
  <2>2. AddressOf(q) = AddressOf(p)
    BY <1>6, <2>1
  <2>3. i \in 1 .. 255
    BY <1>1
  <2>4. IntervalOf(q) = i
    BY <2>1, <2>3 DEF IntervalOf, Read, Erased, ValidInterval
  <2> QED BY <2>2, <2>4 DEF q
<1>9. ASSUME HasAddress(p), Unstamped(p)
      PROVE  /\ IntervalOf(ByteWritten(p, "UID_FINGERPRINT", Stamp)) = IntervalOf(p)
             /\ AddressOf(ByteWritten(p, "UID_FINGERPRINT", Stamp)) = AddressOf(p)
  <2> DEFINE q == ByteWritten(p, "UID_FINGERPRINT", Stamp)
  <2>1. q["PARAMETER_N"] = p["PARAMETER_N"] /\ q["DEVICE_ID"] = p["DEVICE_ID"]
        /\ (q = p \/ q["UID_FINGERPRINT"] = OwnPrint)
    BY <1>1 DEF ByteWritten, Page, Stamp
  <2> HIDE DEF q
  <2>2. IntervalOf(q) = IntervalOf(p)
    BY <1>3, <2>1 DEF Read
  <2>3. AddressOf(q) = AddressOf(p)
    <3>1. Unstamped(q) \/ q["UID_FINGERPRINT"] = OwnPrint
      BY <1>9, <2>1
    <3>2. Read(q, "DEVICE_ID") = Read(p, "DEVICE_ID")
      BY <2>1 DEF Read
    <3> QED BY <1>2, <1>9, <2>1, <3>1, <3>2
  <2> QED BY <2>2, <2>3 DEF q
<1> QED BY <1>5, <1>7, <1>8, <1>9 DEF w

\* Every step keeps the settings.
LEMMA SettingsStep == TypeInv /\ PageInv /\ [Next]_vars => PageInv'
<1> SUFFICES ASSUME TypeInv, PageInv, [Next]_vars PROVE PageInv'
  OBVIOUS
<1> USE DEF InReset, InLog, MainLoop
<1>0. page \in Page /\ node \in Node /\ settled \in SettingsType
  BY DEF TypeInv, PageOK
<1>1. CASE Enter
  BY <1>1 DEF Enter, Goto, PageInv, Cleared
<1>2. CASE Settings
  <2>1. pc' = 3 /\ UNCHANGED <<page, settled>> /\ pc = 1
    BY <1>2 DEF Settings, Goto
  <2>2. node'.interval = IntervalOf(page)
    <3>1. Read(page, "PARAMETER_N") \in Byte
      BY <1>0, PageTypes DEF SlotName
    <3>2. ValidInterval(Read(page, "PARAMETER_N")) \/ Read(page, "PARAMETER_N") = 0
      BY <3>1 DEF ValidInterval, Byte
    <3>3. node.interval = DefaultInterval
      BY <2>1 DEF PageInv
    <3> QED BY <1>0, <1>2, <3>2, <3>3 DEF Settings, Node, IntervalOf
  <2> QED BY <2>1, <2>2 DEF PageInv
<1>3. CASE FlashFound \/ LogInit \/ LogAppend
  <2>1. UNCHANGED <<page, node, settled>> /\ pc \in {3, 9, InLog} /\ pc' \in {9, InLog, 11}
    BY <1>3 DEF FlashFound, LogInit, LogAppend, Goto
  <2> QED BY <2>1 DEF PageInv
<1>4. CASE MacInit
  <2>1. /\ pc = 11 /\ pc' = 12 /\ UNCHANGED settled
        /\ page' = IF HasAddress(page) /\ Unstamped(page)
               THEN ByteWritten(page, "UID_FINGERPRINT", Stamp) ELSE page
        /\ node' = [node EXCEPT !.mAddr = AddressOf(page)]
    BY <1>4 DEF MacInit, Goto, AddressOf
  <2>2. IntervalOf(page') = IntervalOf(page) /\ AddressOf(page') = AddressOf(page)
    BY <1>0, <2>1, PageGives
  <2>3. node'.mAddr = AddressOf(page) /\ node'.interval = node.interval
    BY <1>0, <2>1 DEF Node
  <2> QED BY <2>1, <2>2, <2>3 DEF PageInv
<1>5. CASE Main
  <2>1. pc = 12 /\ pc' = MainLoop /\ UNCHANGED <<page, node>> /\ settled' = Current
    BY <1>5 DEF Main, Goto
  <2>2. settled'.interval = node.interval /\ settled'.mAddr = node.mAddr
    BY <2>1 DEF Current
  <2> QED BY <2>1, <2>2 DEF PageInv
<1>6. CASE (\E c \in Check : Loop(c)) \/ (\E a \in Address : SetAddress(a))
           \/ (\E i \in Interval : SetInterval(i)) \/ ClearLog \/ Crash \/ CrashInLog
  <2>1. UNCHANGED <<page, settled>> /\ pc' \in {MainLoop, InReset}
    BY <1>6 DEF Loop, SetAddress, SetInterval, ClearLog, Crash, CrashInLog, Ends, Looping
  <2> QED BY <2>1 DEF PageInv
<1>7. ASSUME NEW i \in Interval, PersistInterval(i) PROVE PageInv'
  <2>1. pc' = MainLoop /\ page' = [ParamWritten(page) EXCEPT !["PARAMETER_N"] = i]
        /\ settled' = IF settled = NoSettings THEN NoSettings ELSE [settled EXCEPT !.interval = i]
    BY <1>7 DEF PersistInterval, Looping, Persisted
  <2>2. IntervalOf(page') = i /\ AddressOf(page') = AddressOf(page)
    BY <1>0, <2>1, PageGives
  <2>3. CASE settled = NoSettings
    BY <2>1, <2>3 DEF PageInv
  <2>4. CASE settled # NoSettings
    <3>1. settled'.interval = i /\ settled'.mAddr = settled.mAddr
      BY <1>0, <2>1, <2>4 DEF SettingsType
    <3> QED BY <2>1, <2>2, <2>4, <3>1 DEF PageInv
  <2> QED BY <2>3, <2>4
<1>8. CASE PersistOther
  <2>1. pc' = MainLoop /\ page' = ParamWritten(page) /\ UNCHANGED settled
    BY <1>8 DEF PersistOther, Looping
  <2>2. IntervalOf(page') = IntervalOf(page) /\ AddressOf(page') = AddressOf(page)
    BY <1>0, <2>1, PageGives
  <2> QED BY <2>1, <2>2 DEF PageInv
<1>9. CASE SetFlash \/ CrashInPage \/ Cloned
  <2>1. settled' = NoSettings /\ pc' \in {MainLoop, InReset}
    BY <1>9 DEF SetFlash, CrashInPage, Ends, Cloned, Looping
  <2> QED BY <2>1 DEF PageInv
<1>10. CASE UNCHANGED vars
  <2>1. UNCHANGED <<pc, page, node, settled>>
    BY <1>10 DEF vars
  <2> QED BY <2>1 DEF PageInv
<1> QED BY <1>1, <1>2, <1>3, <1>4, <1>5, <1>6, <1>7, <1>8, <1>9, <1>10 DEF Next, Start

\* A node comes up with the address and the beacon interval it came up with the
\* last time, or that were stored since, in whatever order other settings were
\* stored, the page was stamped, and starts were cut short.
THEOREM SettingsStayKept == Spec => SettingsAreKept
<1>1. Init => PageInv
  BY DEF Init, PageInv, InReset, InLog, MainLoop
<1>2. PageInv /\ Main /\ settled # NoSettings /\ TypeInv => settled' = settled
  <2> SUFFICES ASSUME PageInv, Main, settled # NoSettings, TypeInv PROVE settled' = settled
    OBVIOUS
  <2>1. pc = 12 /\ settled' = [mAddr |-> node.mAddr, interval |-> node.interval]
    BY DEF Main, Goto, Current
  <2>2. settled.mAddr = node.mAddr /\ settled.interval = node.interval /\ settled \in SettingsType
    BY <2>1 DEF PageInv, TypeInv, PageOK, InReset, InLog, MainLoop
  <2> QED BY <2>1, <2>2 DEF SettingsType
<1>3. TypeInv /\ PageInv /\ [Next]_vars => [Main /\ settled # NoSettings => settled' = settled]_vars
  BY <1>2
<1> QED BY <1>1, <1>3, TypeInit, TypeStep, SettingsStep, PTL DEF Spec, SettingsAreKept

(***************************************************************************)
(* The log.                                                                *)
(***************************************************************************)

\* The number of slots that are kept is the number that is listed.
LEMMA KeptIsListed ==
    ASSUME NEW lg, NEW n, NEW last, NEW en, Kept(lg, n, last, en)
    PROVE  n \in 0 .. N /\ Listed(lg) = n
<1>1. n \in 0 .. N /\ \A i \in 1 .. n : lg[i].magic = "MAGIC"
  BY DEF Kept
<1>2. n < N => lg[n + 1].magic # "MAGIC"
  BY DEF Kept
<1> QED BY <1>1, <1>2, ListedUnique

\* An erased sector has nothing to lose.
LEMMA ErasedIsKept ==
    ASSUME NEW last, NEW en PROVE Kept(ErasedLog, 0, last, en)
<1>1. N \in Nat \ {0}
  BY LogAssumption DEF N
<1>2. \A i \in 1 .. N : ErasedLog[i] = ErasedSlot
  BY DEF ErasedLog, N
<1>3. ErasedSlot.magic = "ERASED" /\ ErasedSlot.records = {}
  BY DEF ErasedSlot
<1>4. 0 + 1 \in 1 .. N
  BY <1>1
<1> QED BY <1>1, <1>2, <1>3, <1>4 DEF Kept

\* What is kept stays so when lives end.
LEMMA KeptLonger ==
    ASSUME NEW lg, NEW n, NEW last \in Nat, NEW later \in Nat, NEW en, NEW en2,
           Kept(lg, n, last, en), last <= later, \A i \in 1 .. last - 1 : en2[i] = en[i]
    PROVE  Kept(lg, n, later, en2)
<1>0. N \in Nat
  BY LogAssumption DEF N
<1>1. n \in 0 .. N /\ \A i \in 1 .. N : \A r \in lg[i].records : r.life \in 1 .. last
  BY DEF Kept
<1>2. ASSUME NEW r, r.life \in 1 .. last, Tells(r, en) PROVE Tells(r, en2)
  <2>1. CASE r.life = 1
    BY <1>2, <2>1 DEF Tells
  <2>2. CASE r.life # 1
    <3>1. r.life - 1 \in 1 .. last - 1
      BY <1>2, <2>2
    <3>2. en2[r.life - 1] = en[r.life - 1]
      BY <3>1
    <3> QED BY <1>2, <3>2 DEF Tells
  <2> QED BY <2>1, <2>2
<1>3. ASSUME NEW i \in 1 .. n
      PROVE  /\ lg[i].magic = "MAGIC"
             /\ lg[i].torn \/ \E r \in lg[i].records : lg[i].records = {r} /\ Tells(r, en2)
  <2>1. i \in 1 .. N
    BY <1>0, <1>1
  <2>2. lg[i].magic = "MAGIC"
        /\ (lg[i].torn \/ \E r \in lg[i].records : lg[i].records = {r} /\ Tells(r, en))
    BY DEF Kept
  <2> QED BY <1>1, <1>2, <2>1, <2>2
<1>4. ASSUME NEW i \in 1 .. N, NEW r \in lg[i].records PROVE r.life \in 1 .. later
  <2>1. r.life \in 1 .. last
    BY <1>1
  <2> QED BY <2>1
<1> QED BY <1>3, <1>4 DEF Kept

\* The next slot is programmed with the record of the next life, whole or in part.
LEMMA SlotWritten ==
    ASSUME NEW lg \in Log, NEW n, NEW last \in Nat, NEW en, NEW r, NEW s, NEW m,
           Kept(lg, n, last, en), n < N, r.life = last + 1,
           s.magic \in {"ERASED", "PART", "MAGIC"}, s.records = lg[n + 1].records \cup {r},
           s.torn \/ (s.magic = "MAGIC" /\ s.records = {r} /\ Tells(r, en)),
           m = IF s.magic = "MAGIC" THEN n + 1 ELSE n
    PROVE  Kept([lg EXCEPT ![n + 1] = s], m, last + 1, en)
<1> DEFINE q == [lg EXCEPT ![n + 1] = s]
<1>0. N \in Nat /\ n \in 0 .. N /\ n + 1 \in 1 .. N
  <2>1. N \in Nat
    BY LogAssumption DEF N
  <2>2. n \in 0 .. N
    BY DEF Kept
  <2> QED BY <2>1, <2>2
<1>1. q[n + 1] = s /\ \A i \in 1 .. N : i # n + 1 => q[i] = lg[i]
  BY <1>0 DEF Log
<1> HIDE DEF q
<1>2. m \in 0 .. N /\ m \in {n, n + 1}
  BY <1>0
<1>3. ASSUME NEW i \in 1 .. m
      PROVE  /\ q[i].magic = "MAGIC"
             /\ q[i].torn \/ \E x \in q[i].records : q[i].records = {x} /\ Tells(x, en)
  <2>1. CASE i = n + 1
    <3>1. s.magic = "MAGIC"
      BY <1>0, <2>1
    <3> QED BY <1>1, <2>1, <3>1
  <2>2. CASE i # n + 1
    <3>1. i \in 1 .. n /\ i \in 1 .. N
      BY <1>0, <1>2, <2>2
    <3>2. q[i] = lg[i]
      BY <1>1, <2>2, <3>1
    <3>3. lg[i].magic = "MAGIC"
          /\ (lg[i].torn \/ \E x \in lg[i].records : lg[i].records = {x} /\ Tells(x, en))
      BY <3>1 DEF Kept
    <3> QED BY <3>2, <3>3
  <2> QED BY <2>1, <2>2
<1>4. ASSUME NEW i \in 1 .. N, i > n + 1 PROVE q[i] = ErasedSlot
  <2>1. lg[i] = ErasedSlot
    BY <1>4 DEF Kept
  <2>2. i # n + 1
    BY <1>0, <1>4
  <2> QED BY <1>1, <2>1, <2>2
<1>5. ASSUME m < N
      PROVE  q[m + 1].magic \in {"ERASED", "PART"} /\ (q[m + 1].torn \/ q[m + 1] = ErasedSlot)
  <2>1. CASE s.magic = "MAGIC"
    <3>1. m + 1 \in 1 .. N /\ m + 1 > n + 1
      BY <1>0, <1>5, <2>1
    <3>2. q[m + 1] = ErasedSlot
      BY <1>4, <3>1
    <3> QED BY <3>2 DEF ErasedSlot
  <2>2. CASE s.magic # "MAGIC"
    BY <1>1, <2>2
  <2> QED BY <2>1, <2>2
<1>6. ASSUME NEW i \in 1 .. N, i > m + 1 PROVE q[i] = ErasedSlot
  <2>1. i > n + 1
    BY <1>0, <1>2, <1>6
  <2> QED BY <1>4, <2>1
<1>7. \A i \in 1 .. N : \A x \in lg[i].records : x.life \in 1 .. last
  BY DEF Kept
<1>8. ASSUME NEW i \in 1 .. N, NEW x \in q[i].records PROVE x.life \in 1 .. last + 1
  <2>1. x = r \/ x \in lg[i].records
    BY <1>1
  <2>2. x.life = last + 1 \/ x.life \in 1 .. last
    BY <1>7, <2>1
  <2> QED BY <2>2
<1>9. ASSUME NEW i \in 1 .. N, NEW j \in 1 .. N, i < j, NEW x \in q[i].records, NEW y \in q[j].records
      PROVE  x.life < y.life
  <2>1. CASE j > n + 1
    <3>1. q[j].records = {}
      BY <1>4, <2>1 DEF ErasedSlot
    <3> QED BY <3>1
  <2>2. CASE ~ (j > n + 1)
    <3>1. i # n + 1
      BY <1>0, <1>9, <2>2
    <3>2. x \in lg[i].records
      BY <1>1, <3>1
    <3>3. x.life \in 1 .. last
      BY <1>7, <3>2
    <3>4. CASE y = r
      BY <3>3, <3>4
    <3>5. CASE y # r
      <4>1. y \in lg[j].records
        BY <1>1, <3>5
      <4> QED BY <1>9, <3>2, <4>1 DEF Kept
    <3> QED BY <3>4, <3>5
  <2> QED BY <2>1, <2>2
<1>10. Kept(q, m, last + 1, en)
  BY <1>2, <1>3, <1>5, <1>6, <1>8, <1>9 DEF Kept
<1> QED BY <1>10 DEF q

\* A record is appended to what is kept: the sector is erased first if it is full.
LEMMA AppendKept ==
    ASSUME NEW lg \in Log, NEW n, NEW last \in Nat, NEW en, NEW r, IsFull(n) \/ Kept(lg, n, last, en),
           n \in 0 .. N, r.life = last + 1, Tells(r, en)
    PROVE  \E m \in 0 .. N : Kept(Appended(lg, n, r), m, last + 1, en)
<1> DEFINE b == Before(lg, n)
           k == IF IsFull(n) THEN 0 ELSE n
           s == Programmed(b[k + 1], r)
<1>1. b \in Log /\ Kept(b, k, last, en) /\ k < N /\ k + 1 = Next1(n) /\ k \in Nat
  BY ErasedIsKept, LogTypes, LogAssumption DEF Before, Next1, IsFull, N
<1>2. Appended(lg, n, r) = [b EXCEPT ![k + 1] = s]
  BY <1>1 DEF Appended
<1>3. b[k + 1].magic \in {"ERASED", "PART"} /\ (b[k + 1].torn \/ b[k + 1] = ErasedSlot)
  BY <1>1 DEF Kept
<1>4. /\ s.magic = "MAGIC" /\ s.records = b[k + 1].records \cup {r}
      /\ s.torn \/ s.records = {r}
  BY <1>3 DEF Programmed, ErasedSlot
<1> HIDE DEF b, k, s
<1>5. Kept([b EXCEPT ![k + 1] = s], k + 1, last + 1, en)
  BY <1>1, <1>4, SlotWritten
<1>6. k + 1 \in 0 .. N
  BY <1>1, LogAssumption DEF N
<1> QED BY <1>2, <1>5, <1>6

\* ... and the same when power fails meanwhile.
LEMMA TornAppendKept ==
    ASSUME NEW lg \in Log, NEW n, NEW last \in Nat, NEW en, NEW r, IsFull(n) \/ Kept(lg, n, last, en),
           n \in 0 .. N, r.life = last + 1, NEW q \in TornAppend(lg, n, r)
    PROVE  \E m \in 0 .. N : Kept(q, m, last + 1, en)
<1> DEFINE b == Before(lg, n)
           k == IF IsFull(n) THEN 0 ELSE n
<1>1. b \in Log /\ Kept(b, k, last, en) /\ k < N /\ k + 1 = Next1(n) /\ k \in Nat
  BY ErasedIsKept, LogTypes, LogAssumption DEF Before, Next1, IsFull, N
<1>2. PICK s \in TornProgram(b[k + 1], r) : q = [b EXCEPT ![k + 1] = s]
  BY <1>1 DEF TornAppend
<1>3. b[k + 1].magic \in {"ERASED", "PART"}
  BY <1>1 DEF Kept
<1> HIDE DEF b, k
<1>4. CASE s = b[k + 1]
  <2>1. q = b
    BY <1>1, <1>2, <1>4 DEF Log
  <2>2. last + 1 \in Nat /\ last <= last + 1
    OBVIOUS
  <2>3. Kept(b, k, last + 1, en)
    BY <1>1, <2>2, KeptLonger
  <2>4. k \in 0 .. N
    BY <1>1, LogAssumption DEF N
  <2> QED BY <2>1, <2>3, <2>4
<1>5. CASE s # b[k + 1]
  <2>1. /\ s.magic \in {"ERASED", "PART", "MAGIC"} /\ s.records = b[k + 1].records \cup {r}
        /\ s.torn = TRUE
    BY <1>2, <1>3, <1>5 DEF TornProgram
  <2> DEFINE m == IF s.magic = "MAGIC" THEN k + 1 ELSE k
  <2>2. m \in 0 .. N
    BY <1>1, LogAssumption DEF N
  <2>3. m = IF s.magic = "MAGIC" THEN k + 1 ELSE k
    OBVIOUS
  <2> HIDE DEF m
  <2>4. Kept([b EXCEPT ![k + 1] = s], m, last + 1, en)
    BY <1>1, <2>1, <2>3, SlotWritten
  <2> QED BY <1>2, <2>2, <2>4
<1> QED BY <1>4, <1>5

\* Before the first start.
LEMMA BootInit == Init => BootInv
<1> SUFFICES ASSUME Init PROVE BootInv
  OBVIOUS
<1>1. Remembers /\ AboutToTell /\ HeadInv
  BY DEF Init, Remembers, AboutToTell, HeadInv, InReset, InLog
<1>2. Kept(ErasedLog, 0, LastLogged, ended)
  BY ErasedIsKept
<1>3. log = ErasedLog
  BY DEF Init
<1>4. LogInv
  BY <1>2, <1>3, KeptIsListed DEF LogInv
<1> QED BY <1>1, <1>4 DEF BootInv

\* The actions of the main loop.
LoopSteps ==
    \/ \E c \in Check : Loop(c)
    \/ \E a \in Address : SetAddress(a)
    \/ \E i \in Interval : SetInterval(i) \/ PersistInterval(i)
    \/ PersistOther \/ SetFlash \/ ClearLog

\* The stages each action leads from, and to.
LEMMA StageMoves ==
    /\ Enter => pc = InReset /\ pc' = 1
    /\ Settings => pc = 1 /\ pc' = 3
    /\ FlashFound => pc = 3 /\ pc' = 9
    /\ LogInit => pc = 9 /\ pc' = InLog
    /\ LogAppend => pc = InLog /\ pc' = 11
    /\ MacInit => pc = 11 /\ pc' = 12
    /\ Main => pc = 12 /\ pc' = MainLoop
    /\ LoopSteps => pc = MainLoop /\ pc' = MainLoop
    /\ Falls => pc' = InReset
    /\ Cloned => pc = InReset /\ pc' = InReset
<1>1. /\ Enter => pc = InReset /\ pc' = 1
      /\ Settings => pc = 1 /\ pc' = 3
      /\ FlashFound => pc = 3 /\ pc' = 9
  BY DEF Enter, Settings, FlashFound, Goto
<1>2. /\ LogInit => pc = 9 /\ pc' = InLog
      /\ LogAppend => pc = InLog /\ pc' = 11
  BY DEF LogInit, LogAppend, Goto
<1>3. /\ MacInit => pc = 11 /\ pc' = 12
      /\ Main => pc = 12 /\ pc' = MainLoop
  BY DEF MacInit, Main, Goto
<1>4. (\E c \in Check : Loop(c)) \/ (\E a \in Address : SetAddress(a)) => pc = MainLoop /\ pc' = MainLoop
  BY DEF Loop, SetAddress, Looping
<1>5. \A i \in Interval : SetInterval(i) \/ PersistInterval(i) => pc = MainLoop /\ pc' = MainLoop
  BY DEF SetInterval, PersistInterval, Looping
<1>6. PersistOther \/ SetFlash \/ ClearLog => pc = MainLoop /\ pc' = MainLoop
  BY DEF PersistOther, SetFlash, ClearLog, Looping
<1>7. Falls => pc' = InReset
  BY DEF Falls, Crash, CrashInLog, CrashInPage, Ends
<1>8. Cloned => pc = InReset /\ pc' = InReset
  BY DEF Cloned
<1> QED BY <1>1, <1>2, <1>3, <1>4, <1>5, <1>6, <1>7, <1>8 DEF LoopSteps

\* The history remembers what the words that survive do.
LEMMA RemembersStep ==
    ASSUME TypeInv, Remembers, [Next]_vars PROVE Remembers'
<1>1. CASE Within
  <2>1. pc' # InReset
    BY <1>1, StageSteps
  <2> QED BY <2>1 DEF Remembers
<1>2. CASE Enter
  BY <1>2 DEF Enter, Goto, Remembers, InReset
<1>3. CASE Falls
  <2>1. Ends
    BY <1>3 DEF Falls, Crash, CrashInLog, CrashInPage
  <2>2. PICK e \in End : /\ Len(ended') = Len(ended) + 1 /\ ended'[Len(ended')] = e
                         /\ e.stage = diag.stage /\ e.chk = diag.chk
                         /\ diag' = [diag EXCEPT !.valid = e.survives]
    BY <2>1, EndStep
  <2>3. diag \in Diag /\ Len(ended) \in Nat
    BY LenProperties DEF TypeInv, DiagOK, LivesOK
  <2>4. ended' # << >>
    <3>1. Len(<< >>) = 0
      OBVIOUS
    <3>2. Len(ended') # 0
      BY <2>2, <2>3
    <3> QED BY <3>1, <3>2
  <2>5. diag'.stage = diag.stage /\ diag'.chk = diag.chk
    BY <2>2, <2>3 DEF Diag
  <2>6. diag'.valid = e.survives
    BY <2>2, <2>3 DEF Diag
  <2> QED BY <2>2, <2>4, <2>5, <2>6 DEF Remembers
<1>4. CASE Cloned \/ UNCHANGED vars
  <2>1. UNCHANGED <<pc, diag, ended>>
    BY <1>4 DEF Cloned, vars
  <2> QED BY <2>1 DEF Remembers
<1> QED BY <1>1, <1>2, <1>3, <1>4 DEF Next, Start, Within, Falls

\* The record of a start is made when it begins, of what survived.
LEMMA AboutToTellStep ==
    ASSUME TypeInv, Remembers, AboutToTell, [Next]_vars PROVE AboutToTell'
<1> USE DEF InLog, InReset, MainLoop
<1>0. diag \in Diag /\ ended \in Seq(End) /\ Len(ended) \in Nat
  BY LenProperties DEF TypeInv, DiagOK, LivesOK
<1>1. CASE Enter
  <2>1. pc = InReset /\ UNCHANGED ended /\ diag' = IF diag.valid THEN Survived(diag) ELSE Fresh
    BY <1>1 DEF Enter, Goto
  <2>2. Rec' = [life |-> Len(ended) + 1, boot_count |-> diag'.boot_count, last |-> diag'.last, hung |-> diag'.hung]
    BY <2>1 DEF Rec, Life
  <2>3. Tells(Rec', ended)
    <3>1. CASE ~ diag.valid
      <4>1. Rec'.last = 0 /\ Rec'.hung = 0 /\ Rec'.boot_count = 1 /\ Rec'.life = Len(ended) + 1
        BY <2>1, <2>2, <3>1 DEF Fresh
      <4>2. CASE ended = << >>
        <5>1. Rec'.life = 1
          BY <4>1, <4>2
        <5> QED BY <4>1, <5>1 DEF Tells
      <4>3. CASE ended # << >>
        <5>1. Rec'.life - 1 = Len(ended)
          BY <1>0, <4>1
        <5>2. ~ ended[Len(ended)].survives
          BY <2>1, <3>1, <4>3 DEF Remembers
        <5> QED BY <4>1, <5>1, <5>2 DEF Tells
      <4> QED BY <4>2, <4>3
    <3>2. CASE diag.valid
      <4>1. ended # << >> /\ ended[Len(ended)].survives
            /\ diag.stage = ended[Len(ended)].stage /\ diag.chk = ended[Len(ended)].chk
        BY <2>1, <3>2 DEF Remembers
      <4>2. Len(ended) # 0
        BY <1>0, <4>1, EmptySeq
      <4>3. diag' = Survived(diag)
        BY <2>1, <3>2
      <4>4. diag'.last = diag.stage
            /\ diag'.hung = (IF diag.stage = MainLoop THEN diag.chk ELSE 0)
        BY <1>0, <4>3 DEF Survived, Diag
      <4>5. Rec'.life - 1 = Len(ended) /\ Rec'.life # 1
        BY <1>0, <2>2, <4>2
      <4>6. Rec'.last = diag'.last /\ Rec'.hung = diag'.hung
        BY <2>2
      <4> QED BY <4>1, <4>4, <4>5, <4>6 DEF Tells
    <3> QED BY <3>1, <3>2
  <2> QED BY <2>1, <2>3 DEF AboutToTell, TellsEnd, Tells
<1>2. CASE Settings \/ FlashFound \/ LogInit
  <2>1. pc \in {1, 3, 9} /\ UNCHANGED ended
        /\ (UNCHANGED diag \/ \E t \in InitStage : diag' = [diag EXCEPT !.stage = t])
    BY <1>2 DEF Settings, FlashFound, LogInit, Goto, InitStage
  <2>2. diag'.boot_count = diag.boot_count /\ diag'.last = diag.last /\ diag'.hung = diag.hung
    BY <1>0, <2>1 DEF Diag
  <2>3. Rec' = Rec
    BY <2>1, <2>2 DEF Rec, Life
  <2> QED BY <2>1, <2>3 DEF AboutToTell, TellsEnd
<1>3. CASE LogAppend \/ MacInit \/ Main \/ LoopSteps \/ Falls \/ Cloned
  <2>1. pc' \notin {1, 3, 9, InLog}
    BY <1>3, StageMoves
  <2> QED BY <2>1 DEF AboutToTell
<1>4. CASE UNCHANGED vars
  <2>1. UNCHANGED <<pc, diag, ended>>
    BY <1>4 DEF vars
  <2> QED BY <2>1 DEF AboutToTell, TellsEnd, Rec, Life
<1> QED BY <1>1, <1>2, <1>3, <1>4 DEF Next, Start, Falls, LoopSteps

\* The head a start finds is the end of what is listed.
LEMMA HeadStep ==
    ASSUME HeadInv, [Next]_vars PROVE HeadInv'
<1> USE DEF InLog, InReset, MainLoop
<1>1. CASE LogInit
  BY <1>1, ListedIs DEF LogInit, HeadInv
<1>2. CASE Enter \/ Settings \/ FlashFound \/ LogAppend \/ MacInit \/ Main \/ LoopSteps
           \/ Falls \/ Cloned
  <2>1. pc' # InLog
    BY <1>2, StageMoves
  <2> QED BY <2>1 DEF HeadInv
<1>3. CASE UNCHANGED vars
  BY <1>3 DEF vars, HeadInv
<1> QED BY <1>1, <1>2, <1>3 DEF Next, Start, Falls, LoopSteps

\* The log is kept by every step.
LEMMA LogStep ==
    ASSUME TypeInv, AboutToTell, LogInv, HeadInv, [Next]_vars PROVE LogInv'
<1> USE DEF InLog, InReset, MainLoop
<1>0. /\ log \in Log /\ head \in 0 .. N /\ Rec.life = Len(ended) + 1 /\ Life = Len(ended) + 1
      /\ Len(ended) \in Nat /\ pc \in Stage /\ LastLogged \in Nat
  <2>1. Rec.life = Len(ended) + 1 /\ Life = Len(ended) + 1 /\ Len(ended) \in Nat
    BY RecType DEF TypeInv
  <2>2. LastLogged \in Nat
    BY <2>1 DEF LastLogged
  <2> QED BY <2>1, <2>2 DEF TypeInv, LogOK, LivesOK
\* It is enough that some number of slots is kept.
<1>1. ASSUME ~ spoiled' => \E m \in 0 .. N : Kept(log', m, LastLogged', ended') PROVE LogInv'
  BY <1>1, KeptIsListed DEF LogInv
<1>2. CASE Within /\ ~ LogAppend /\ ~ ClearLog
  <2>1. UNCHANGED <<log, spoiled, ended>>
    BY <1>2 DEF Within, Settings, FlashFound, LogInit, MacInit, Main, Loop, SetAddress, SetInterval,
       PersistInterval, PersistOther, SetFlash
  <2>2. pc \in {11, 12, MainLoop} <=> pc' \in {11, 12, MainLoop}
    BY <1>2, StageMoves DEF Within, LoopSteps
  <2>3. LastLogged' = LastLogged
    BY <2>1, <2>2 DEF LastLogged, Life
  <2> QED BY <2>1, <2>3 DEF LogInv
<1>3. CASE LogAppend
  <2>1. /\ pc = InLog /\ pc' = 11 /\ UNCHANGED ended
        /\ LastLogged = Len(ended) /\ LastLogged' = Len(ended) + 1
    BY <1>0, <1>3 DEF LogAppend, Goto, LastLogged, Life
  <2>2. CASE present
    <3>1. log' = Appended(log, head, Rec) /\ spoiled' = (spoiled /\ ~ IsFull(head))
      BY <1>3, <2>2 DEF LogAppend
    <3>2. Tells(Rec, ended)
      BY <2>1 DEF AboutToTell, TellsEnd, Tells
    <3> SUFFICES ASSUME ~ spoiled' PROVE \E m \in 0 .. N : Kept(log', m, LastLogged', ended')
      BY <1>1
    <3>3. IsFull(head) \/ Kept(log, head, Len(ended), ended)
      BY <2>1, <2>2, <3>1 DEF LogInv, HeadInv
    <3>4. \E m \in 0 .. N : Kept(Appended(log, head, Rec), m, Len(ended) + 1, ended)
      BY <1>0, <3>2, <3>3, AppendKept
    <3> QED BY <2>1, <3>1, <3>4
  <2>3. CASE ~ present
    <3>1. UNCHANGED <<log, spoiled>>
      BY <1>3, <2>3 DEF LogAppend
    <3> SUFFICES ASSUME ~ spoiled' PROVE LogInv'
      BY DEF LogInv
    <3>2. Kept(log, Listed(log), Len(ended), ended)
      BY <2>1, <3>1 DEF LogInv
    <3>3. Kept(log, Listed(log), Len(ended) + 1, ended)
      <4>1. Len(ended) + 1 \in Nat /\ Len(ended) <= Len(ended) + 1
        BY <1>0
      <4> QED BY <1>0, <3>2, <4>1, KeptLonger
    <3> QED BY <2>1, <3>1, <3>3 DEF LogInv
  <2> QED BY <2>2, <2>3
<1>4. CASE ClearLog
  <2>1. log' = ErasedLog
    BY <1>4 DEF ClearLog
  <2>2. N \in Nat
    BY LogAssumption DEF N
  <2>3. 0 \in 0 .. N
    BY <2>2
  <2> QED BY <1>1, <2>1, <2>3, ErasedIsKept
<1>5. CASE Enter \/ Cloned \/ UNCHANGED vars
  <2>1. UNCHANGED <<log, spoiled, ended>>
    BY <1>5 DEF Enter, Cloned, vars
  <2>2. LastLogged' = LastLogged
    BY <1>5 DEF Enter, Cloned, vars, Goto, LastLogged, Life
  <2> QED BY <2>1, <2>2 DEF LogInv
<1>6. CASE Falls
  <2>1. Ends
    BY <1>6 DEF Falls, Crash, CrashInLog, CrashInPage
  <2>2. /\ Len(ended') = Len(ended) + 1 /\ pc' = InReset
        /\ \A i \in 1 .. Len(ended) : ended'[i] = ended[i]
    BY <2>1, EndStep
  <2>3. LastLogged' = Len(ended) + 1 /\ LastLogged \in {Len(ended), Len(ended) + 1}
    BY <1>0, <2>2 DEF LastLogged
  \* What was kept before the end still is, and what this life leaves is.
  <2>4. ASSUME NEW lg, NEW n, Kept(lg, n, LastLogged, ended) PROVE Kept(lg, n, LastLogged', ended')
    <3>1. LastLogged' \in Nat /\ LastLogged <= LastLogged'
      BY <1>0, <2>3
    <3>2. \A i \in 1 .. LastLogged - 1 : i \in 1 .. Len(ended)
      BY <1>0, <2>3
    <3>3. \A i \in 1 .. LastLogged - 1 : ended'[i] = ended[i]
      BY <2>2, <3>2
    <3> QED BY <1>0, <2>4, <3>1, <3>3, KeptLonger
  <2>5. CASE Crash \/ CrashInPage
    <3>1. UNCHANGED <<log, spoiled>>
      BY <2>5 DEF Crash, CrashInPage
    <3> SUFFICES ASSUME ~ spoiled' PROVE LogInv'
      BY DEF LogInv
    <3>2. Kept(log, Listed(log), LastLogged, ended)
      BY <3>1 DEF LogInv
    <3> QED BY <2>4, <3>1, <3>2 DEF LogInv
  <2>6. CASE CrashInLog
    <3>1. pc = InLog /\ present
      BY <2>6 DEF CrashInLog
    <3> SUFFICES ASSUME ~ spoiled' PROVE \E m \in 0 .. N : Kept(log', m, LastLogged', ended')
      BY <1>1
    <3>2. log' \in TornAppend(log, head, Rec) /\ spoiled' = (spoiled /\ ~ IsFull(head))
      BY <2>6 DEF CrashInLog
    <3>3. LastLogged = Len(ended)
      BY <3>1 DEF LastLogged
    <3>4. head = Listed(log)
      BY <3>1 DEF HeadInv
    <3>5. IsFull(head) \/ Kept(log, head, Len(ended), ended)
      BY <3>2, <3>3, <3>4 DEF LogInv
    <3>6. IsFull(head) \/ Kept(log, head, Len(ended), ended')
      <4>1. Len(ended) \in Nat /\ Len(ended) <= Len(ended)
        BY <1>0
      <4>2. \A i \in 1 .. Len(ended) - 1 : i \in 1 .. Len(ended)
        BY <1>0
      <4>3. \A i \in 1 .. Len(ended) - 1 : ended'[i] = ended[i]
        BY <2>2, <4>2
      <4> QED BY <3>5, <4>1, <4>3, KeptLonger
    <3>7. \E m \in 0 .. N : Kept(log', m, Len(ended) + 1, ended')
      BY <1>0, <3>2, <3>6, TornAppendKept
    <3> QED BY <2>3, <3>7
  <2> QED BY <1>6, <2>5, <2>6 DEF Falls
<1> QED BY <1>2, <1>3, <1>4, <1>5, <1>6 DEF Next, Start, Within, Falls

\* Whatever a start or a crash did to it, what the log lists is true: every whole
\* record in it tells how the life before it ended, they are in the order of the
\* lives, and none is hidden after a slot that is not listed.
THEOREM LogStaysTrue == Spec => []LogIsTrue
<1>1. BootInv /\ TypeInv => LogIsTrue
  <2> SUFFICES ASSUME LogInv, ~ spoiled
      PROVE  /\ \A i \in 1 .. Listed(log) : ~ log[i].torn =>
                   \E r \in log[i].records : log[i].records = {r} /\ TellsEnd(r)
             /\ \A i, j \in 1 .. N : i < j =>
                   \A r \in log[i].records, q \in log[j].records : r.life < q.life
             /\ \A i \in 1 .. N : i > Listed(log) + 1 => log[i] = ErasedSlot
    BY DEF LogIsTrue, BootInv, N
  <2>1. Kept(log, Listed(log), LastLogged, ended)
    BY DEF LogInv
  <2>2. \A r : Tells(r, ended) => TellsEnd(r)
    BY DEF Tells, TellsEnd
  <2>3. \A i \in 1 .. Listed(log) : ~ log[i].torn =>
            \E r \in log[i].records : log[i].records = {r} /\ TellsEnd(r)
    BY <2>1, <2>2 DEF Kept
  <2> QED BY <2>1, <2>3 DEF Kept
<1>2. TypeInv /\ BootInv /\ [Next]_vars => BootInv'
  BY RemembersStep, AboutToTellStep, HeadStep, LogStep DEF BootInv
<1> QED BY <1>1, <1>2, TypeInit, TypeStep, BootInit, PTL DEF Spec

=============================================================================
