------------------------------ MODULE NodeBoot ------------------------------
(***************************************************************************)
(* How a node starts, again and again (Reset_Handler in app/lora/main.c),  *)
(* and what it carries from one life to the next: a few words of RAM that  *)
(* survive a reset (.noinit), the boot log on the external flash, and the  *)
(* configuration page with its address, beacon interval and the            *)
(* fingerprint of the chip it was written on.                              *)
(*                                                                         *)
(* A node may be reset or lose power at every stage of its start, in the   *)
(* middle of a write to either flash too.  Its page may be replaced by     *)
(* that of another board, whose image was cloned.                          *)
(***************************************************************************)
EXTENDS EventLog, Integers

CONSTANTS
    Address,    \* what an operator may give for an address: any byte
    Derived,    \* uid_derive_address of this chip
    OwnPrint,   \* uid_fingerprint of this chip, ...
    OtherPrint, \* ... and of the chip cloned images come from
    Interval,   \* beacon intervals an operator may set, in 1 .. 255
    Check,      \* main-loop checkpoints (MAINCHK_*)
    MaxLives    \* bound: lives of the node

ASSUME BootAssumption ==
    /\ Address \subseteq 0 .. 255 /\ Derived \in 1 .. 253
    /\ {OwnPrint, OtherPrint} \subseteq 0 .. 254 /\ OwnPrint # OtherPrint
    /\ Interval \subseteq 1 .. 255
    /\ MaxLives \in Nat \ {0}

DefaultInterval == 10   \* beacon_interval_ms of timer.c, in seconds

\* The stages of a start, by the value diag.init_stage has while they last:
\* 1 before the watchdog runs, 3 while the sensors are initialised, 9 when the
\* external flash is, 11 for USB and the protocol stack, 12 for the radio.
MainLoop == 255
InitStage == {1, 3, 9, 11, 12, MainLoop}

InReset == 0    \* not a stage: the node is off, or held in reset
InLog   == 10   \* the log has been scanned; init_stage is still 9
Stage   == {InReset, InLog} \cup InitStage

VARIABLES
    pc,       \* the stage of the start, or InReset
    diag,     \* the .noinit words; valid is their DIAG_MAGIC
    page,     \* slots of the configuration page
    node,     \* RAM: mAddr, the beacon interval, and flash_data
    present,  \* s_present: the external flash answered
    log,      \* its first sector
    head,     \* s_head, which s_count always equals
    ended,    \* history: how each life ended
    spoiled,  \* history: power failed in the last erase of the sector
    settled   \* history: the settings the last start came up with, if nothing
              \* replaced them since

vars == <<pc, diag, page, node, present, log, head, ended, spoiled, settled>>

Life == Len(ended) + 1

----------------------------------------------------------------------------
(* The configuration page.  A slot is a 64-bit word: erased, or a byte.     *)

Erased == -1
SlotName == {"DEVICE_ID", "PARAMETER_N", "UID_FINGERPRINT"}
Byte == 0 .. 255
ErasedPage == [s \in SlotName |-> Erased]

\* readFlash.
Read(p, s) == IF p[s] = Erased THEN 255 ELSE p[s]

\* writeFlashParamBytes, of a slot this module has or of another one: every slot
\* is programmed again, the erased ones with the byte they read as.
ParamWritten(p) == [s \in SlotName |-> Read(p, s)]

\* writeFlash: the page holds the fields of deviceData_t and nothing else.
FlashWritten(d) == [ErasedPage EXCEPT !["DEVICE_ID"] = d.deviceID, !["PARAMETER_N"] = d.paramN]

\* writeFlashByte: an erased slot only.
ByteWritten(p, s, v) == IF p[s] = Erased THEN [p EXCEPT ![s] = v] ELSE p

\* What a rewrite of the page to q has reached when power fails: slots are
\* programmed in order after the erase.
Torn(q) == {ErasedPage,
            [ErasedPage EXCEPT !["DEVICE_ID"] = q["DEVICE_ID"]],
            [q EXCEPT !["UID_FINGERPRINT"] = Erased]}

----------------------------------------------------------------------------
(* A start. *)

NoData == [deviceID |-> 0, paramN |-> 0]
Cleared == [mAddr |-> 0, interval |-> DefaultInterval, flash_data |-> NoData]

NoSettings == [mAddr |-> 0, interval |-> 0]

Init ==
    /\ pc = InReset
    /\ diag = [valid |-> FALSE, boot_count |-> 0, last |-> 0, stage |-> 0, chk |-> 0, hung |-> 0]
    /\ page = ErasedPage
    /\ node = Cleared
    /\ present = FALSE
    /\ log = ErasedLog
    /\ head = 0
    /\ ended = <<>>
    /\ spoiled = FALSE
    /\ settled = NoSettings

Goto(from, to) == pc = from /\ pc' = to

\* The words that survived, brought up to date.  (The uptime among them is the
\* one of the last beacon of any life since power-up.)
Survived(d) ==
    [d EXCEPT !.boot_count = @ + 1, !.last = d.stage, !.stage = 1, !.chk = 0,
              !.hung = IF d.stage = MainLoop THEN d.chk ELSE 0]

Fresh == [valid |-> TRUE, boot_count |-> 1, last |-> 0, stage |-> 1, chk |-> 0, hung |-> 0]

\* Reset_Handler up to the watchdog: .bss is cleared.
Enter ==
    /\ Goto(InReset, 1)
    /\ diag' = IF diag.valid THEN Survived(diag) ELSE Fresh
    /\ node' = Cleared
    /\ present' = FALSE
    /\ head' = 0
    /\ UNCHANGED <<page, log, ended, spoiled, settled>>

\* The test at boot: an erased slot reads as 255, which it lets through.
ValidInterval(v) == v >= 1 /\ v <= 255

Settings ==
    /\ Goto(1, 3)
    /\ diag' = [diag EXCEPT !.stage = 3]
    /\ node' = [node EXCEPT !.interval =
                    IF ValidInterval(Read(page, "PARAMETER_N")) THEN Read(page, "PARAMETER_N") ELSE @]
    /\ UNCHANGED <<page, present, log, head, ended, spoiled, settled>>

\* ext_flash_init: the chip answers or it does not, or is busy for too long.
FlashFound ==
    /\ Goto(3, 9)
    /\ diag' = [diag EXCEPT !.stage = 9]
    /\ present' \in BOOLEAN
    /\ UNCHANGED <<page, node, log, head, ended, spoiled, settled>>

LogInit ==
    /\ Goto(9, InLog)
    /\ head' = IF present THEN Scan(log) ELSE 0
    /\ UNCHANGED <<diag, page, node, present, log, ended, spoiled, settled>>

\* The record of this start.
Rec == [life |-> Life, boot_count |-> diag.boot_count, last |-> diag.last, hung |-> diag.hung]

LogAppend ==
    /\ Goto(InLog, 11)
    /\ diag' = [diag EXCEPT !.stage = 11]
    /\ IF present
       THEN /\ log' = Appended(log, head, Rec)
            /\ head' = Next1(head)
            /\ spoiled' = (spoiled /\ ~ IsFull(head))
       ELSE UNCHANGED <<log, head, spoiled>>
    /\ UNCHANGED <<page, node, present, ended, settled>>

HasAddress(p) == Read(p, "DEVICE_ID") \in 1 .. 254

\* What mac_layer_init stamps an unstamped page with.
Stamp_Address == Derived   \* mutated: the address the UID gives, not the print
Stamp == OwnPrint

Unstamped(p) == Read(p, "UID_FINGERPRINT") = 255

\* mac_layer_init: the stored address, unless the page is another chip's.
MacInit ==
    /\ Goto(11, 12)
    /\ diag' = [diag EXCEPT !.stage = 12]
    /\ page' = IF HasAddress(page) /\ Unstamped(page)
               THEN ByteWritten(page, "UID_FINGERPRINT", Stamp) ELSE page
    /\ node' = [node EXCEPT !.mAddr =
                    IF HasAddress(page) /\ (Unstamped(page) \/ page["UID_FINGERPRINT"] = OwnPrint)
                    THEN page["DEVICE_ID"] ELSE Derived]
    /\ UNCHANGED <<present, log, head, ended, spoiled, settled>>

Current == [mAddr |-> node.mAddr, interval |-> node.interval]

\* The radio is up or it is not; the main loop begins.
Main ==
    /\ Goto(12, MainLoop)
    /\ diag' = [diag EXCEPT !.stage = MainLoop]
    /\ settled' = Current
    /\ UNCHANGED <<page, node, present, log, head, ended, spoiled>>

----------------------------------------------------------------------------
(* The main loop. *)

Looping == pc = MainLoop

\* The checkpoint a stage of the loop leaves.
Loop(c) ==
    /\ Looping
    /\ diag' = [diag EXCEPT !.chk = c]
    /\ UNCHANGED <<pc, page, node, present, log, head, ended, spoiled, settled>>

\* set mac_address: in RAM, for `set flash` to write.  set_mac_address refuses 0
\* and 255; flash_data takes them all the same.
SetAddress(a) ==
    /\ Looping
    /\ node' = [node EXCEPT !.mAddr = IF a \in 1 .. 254 THEN a ELSE @, !.flash_data.deviceID = a]
    /\ UNCHANGED <<pc, diag, page, present, log, head, ended, spoiled, settled>>

\* set beacon_interval, with or without persist.  A setting of the page is one
\* of writeFlashParamBytes too, of other slots: v is then what is stored.
SetInterval(i) ==
    /\ Looping
    /\ node' = [node EXCEPT !.interval = i, !.flash_data.paramN = i]
    /\ UNCHANGED <<pc, diag, page, present, log, head, ended, spoiled, settled>>

Persisted(i) == [ParamWritten(page) EXCEPT !["PARAMETER_N"] = i]

PersistInterval(i) ==
    /\ Looping
    /\ node' = [node EXCEPT !.interval = i, !.flash_data.paramN = i]
    /\ page' = Persisted(i)
    /\ settled' = IF settled = NoSettings THEN NoSettings ELSE [settled EXCEPT !.interval = i]
    /\ UNCHANGED <<pc, diag, present, log, head, ended, spoiled>>

\* Any other setting that is stored: a firmware image that is pending, the
\* outcome of a configuration push.
PersistOther ==
    /\ Looping
    /\ page' = ParamWritten(page)
    /\ UNCHANGED <<pc, diag, node, present, log, head, ended, spoiled, settled>>

\* set flash: flash_data holds what was set since the start, and zeros.
SetFlash ==
    /\ Looping
    /\ page' = FlashWritten(node.flash_data)
    /\ settled' = NoSettings
    /\ UNCHANGED <<pc, diag, node, present, log, head, ended, spoiled>>

\* clear log.
ClearLog ==
    /\ Looping /\ present
    /\ log' = ErasedLog
    /\ head' = 0
    /\ spoiled' = FALSE
    /\ UNCHANGED <<pc, diag, page, node, present, ended, settled>>

----------------------------------------------------------------------------
(* The end of a life. *)

\* A reset keeps the RAM, a power failure need not.
Ends ==
    /\ pc # InReset /\ Life < MaxLives
    /\ pc' = InReset
    /\ \E survives \in BOOLEAN :
        /\ diag' = [diag EXCEPT !.valid = survives]
        /\ ended' = Append(ended, [stage |-> diag.stage, chk |-> diag.chk, survives |-> survives])
    /\ UNCHANGED <<node, present, head>>

Crash == Ends /\ UNCHANGED <<page, log, spoiled, settled>>

\* ... while a record is appended, or the sector erased.
CrashInLog ==
    /\ pc = InLog /\ present
    /\ Ends
    /\ \/ /\ log' \in TornAppend(log, head, Rec)
          /\ spoiled' = (spoiled /\ ~ IsFull(head))
       \/ /\ IsFull(head)
          /\ log' \in TornErase(log)
          /\ spoiled' = TRUE
    /\ UNCHANGED <<page, settled>>

\* ... while the page is rewritten.
CrashInPage ==
    /\ Looping
    /\ Ends
    /\ \E q \in {FlashWritten(node.flash_data), ParamWritten(page)} : page' \in Torn(q)
    /\ settled' = NoSettings
    /\ UNCHANGED <<log, spoiled>>

\* The image of another board is flashed, with its page: stamped, or not.
Cloned ==
    /\ pc = InReset
    /\ \E a \in Address, f \in {Erased, 255, OtherPrint} :
        page' = [ErasedPage EXCEPT !["DEVICE_ID"] = a, !["UID_FINGERPRINT"] = f]
    /\ settled' = NoSettings
    /\ UNCHANGED <<pc, diag, node, present, log, head, ended, spoiled>>

Start == Enter \/ Settings \/ FlashFound \/ LogInit \/ LogAppend \/ MacInit \/ Main

Next ==
    \/ Start
    \/ \E c \in Check : Loop(c)
    \/ \E a \in Address : SetAddress(a)
    \/ \E i \in Interval : SetInterval(i) \/ PersistInterval(i)
    \/ PersistOther \/ SetFlash \/ ClearLog
    \/ Crash \/ CrashInLog \/ CrashInPage \/ Cloned

Spec == Init /\ [][Next]_vars

----------------------------------------------------------------------------
(* Properties. *)

LogRecord == [life : 1 .. MaxLives, boot_count : 0 .. MaxLives,
              last : InitStage \cup {0}, hung : Check \cup {0}]

\* All variables stay within their types.
TypeOK ==
    /\ pc \in Stage
    /\ diag \in [valid : BOOLEAN, boot_count : 0 .. MaxLives, last : InitStage \cup {0},
                 stage : InitStage \cup {0}, chk : Check \cup {0}, hung : Check \cup {0}]
    /\ page \in [SlotName -> Byte \cup {Erased}]
    /\ node.mAddr \in 0 .. 254 /\ node.interval \in 1 .. 255
    /\ node.flash_data.deviceID \in Byte /\ node.flash_data.paramN \in Byte
    /\ present \in BOOLEAN /\ spoiled \in BOOLEAN
    /\ \A i \in 1 .. EVENT_LOG_REC_COUNT :
        log[i] \in [magic : Magic, records : SUBSET LogRecord, torn : BOOLEAN]
    /\ head \in 0 .. EVENT_LOG_REC_COUNT
    /\ Len(ended) < MaxLives
    /\ settled \in [mAddr : 0 .. 254, interval : 0 .. 255]

\* What the log says of the end of the life before r, if that is known.
TellsEnd(r) ==
    IF r.life = 1 \/ ~ ended[r.life - 1].survives
    THEN r.last = 0 /\ r.hung = 0 /\ r.boot_count = 1
    ELSE LET e == ended[r.life - 1] IN
         r.last = e.stage /\ r.hung = (IF e.stage = MainLoop THEN e.chk ELSE 0)

\* Unless power failed in its last erase, the log holds one true record in each
\* slot that no power failure tore, in the order of the lives, and lists all of
\* them: a slot that is half written hides no other, and none is written over.
LogIsTrue ==
    ~ spoiled =>
        /\ \A i \in 1 .. Listed(log) : ~ log[i].torn =>
            \E r \in log[i].records : log[i].records = {r} /\ TellsEnd(r)
        /\ \A i, j \in 1 .. EVENT_LOG_REC_COUNT : i < j =>
            \A r \in log[i].records, q \in log[j].records : r.life < q.life
        /\ \A i \in 1 .. EVENT_LOG_REC_COUNT : i > Listed(log) + 1 => log[i] = ErasedSlot

\* A node comes up with the address and the beacon interval it came up with the
\* last time, or that were stored since; whatever other settings were stored and
\* wherever a start was cut short; unless `set flash`, another board's image or
\* a crash during a rewrite replaced its page.
SettingsAreKept ==
    [][ Main /\ settled # NoSettings => settled' = settled ]_vars
=============================================================================
