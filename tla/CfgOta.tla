------------------------------- MODULE CfgOta -------------------------------
(***************************************************************************)
(* The node's side of a configuration push (CFG_OTA_* in app/lora/main.c): *)
(* handshake, values, commit as provisional in flash, reboot, link check   *)
(* by ping, and either commit for good or roll back to the backup.         *)
(*                                                                         *)
(* The radio settings of one push (power, spreading factor, beacon) are    *)
(* one value.  A setting lets the node hear the mesh, or be heard by it,   *)
(* or both, or neither.  Deadlines are left open: a timeout may come at    *)
(* any time after it is armed.                                             *)
(*                                                                         *)
(* The configuration page is rewritten slot by slot after an erase, and    *)
(* the power may fail between two steps.                                   *)
(***************************************************************************)
EXTENDS Naturals, Sequences

CONSTANTS
    Setting,        \* radio settings
    Default,        \* what radio_init makes of an erased slot
    Hears,          \* settings on which the node hears the mesh, ...
    Reaches,        \* ... and on which the mesh hears the node
    MaxTries,       \* CFG_OTA_VERIFY_MAX_TRIES
    MaxPowerLosses  \* bound of the model: power failures in one behaviour

ASSUME CfgOtaAssumption ==
    /\ Default \in Setting
    /\ Hears \subseteq Setting
    /\ Reaches \subseteq Setting
    /\ Reaches \cap Hears # {}
    /\ MaxTries \in 1 .. 254
    /\ MaxPowerLosses \in Nat

VARIABLES
    flash,         \* the configuration page, slot by slot, as readFlash reads it
    image, cursor, \* what a rewrite programs, and the slot it is at (0: no rewrite)
    after,         \* the handler that waits for the rewrite
    live,          \* the settings the radio runs on
    cfgota_state,
    staged,        \* cfgota_new_*, with their CRC in cfgota_staged_crc
    ota,           \* ota_state # OTA_STATE_IDLE
    reboot,        \* cfgota_reboot_at or ota_reboot_at is armed
    verify_active, verify_waiting, tries,
    radio_ok,
    out,           \* the last acknowledgement queued and not yet transmitted
    pings,         \* pings sent since the last commit
    losses,        \* power failures so far
    torn,          \* history: the power failed in the middle of a rewrite,
    misled,        \* ... a PONG settled a check though nobody hears the node,
    retuned        \* ... a command took settings nobody hears, or came in a check

flashvars  == <<flash, image, cursor, after>>
verifyvars == <<verify_active, verify_waiting, tries>>
history    == <<torn, misled, retuned>>
vars == <<flashvars, live, cfgota_state, staged, ota, reboot, verifyvars,
          radio_ok, out, pings, losses, history>>

Blank == 255       \* an erased byte

\* The slots this protocol uses, in the order of addrEnum.  RADIO stands for
\* RADIO_DR, RADIO_TX_PWR and PARAMETER_N, BACKUP for CFG_OTA_BACKUP_*.
SlotOrder == <<"RADIO", "PENDING", "BACKUP", "TRIES">>
LastSlot  == 4

PageRecord == [RADIO : Setting, PENDING : {0, 1, Blank}, BACKUP : Setting,
         TRIES : 0 .. MaxTries \cup {Blank}]

ErasedPage == [RADIO |-> Default, PENDING |-> Blank, BACKUP |-> Default, TRIES |-> Blank]

Ack(op, status) == [op |-> op, status |-> status]
NoAck == Ack("NONE", "NONE")
AckRecord == [op : {"NONE", "PREPARE", "DATA", "END", "RESULT", "OTA", "CMD"},
              status : {"NONE", "OK", "BUSY", "BAD_SIZE", "BAD_VALUE", "CRC_FAIL", "VERIFIED", "ROLLBACK"}]

TypeOK ==
    /\ flash \in PageRecord
    /\ image \in PageRecord
    /\ cursor \in 0 .. LastSlot + 1
    /\ after \in {"NONE", "END", "PING", "PONG", "ROLLBACK", "OTA"}
    /\ live \in Setting
    /\ cfgota_state \in {"IDLE", "READY", "RECEIVED"}
    /\ staged \in Setting
    /\ ota \in BOOLEAN
    /\ reboot \in BOOLEAN
    /\ verify_active \in BOOLEAN
    /\ verify_waiting \in BOOLEAN
    /\ tries \in 0 .. MaxTries \cup {Blank}
    /\ radio_ok \in BOOLEAN
    /\ out \in AckRecord
    /\ pings \in Nat
    /\ losses \in 0 .. MaxPowerLosses
    /\ torn \in BOOLEAN
    /\ misled \in BOOLEAN
    /\ retuned \in BOOLEAN

\* A node in service, on settings that work both ways.
Init ==
    /\ live \in Hears \cap Reaches
    /\ flash = [RADIO |-> live, PENDING |-> Blank, BACKUP |-> Default, TRIES |-> Blank]
    /\ image = flash
    /\ cursor = 0
    /\ after = "NONE"
    /\ cfgota_state = "IDLE"
    /\ staged = live
    /\ ota = FALSE
    /\ reboot = FALSE
    /\ verify_active = FALSE
    /\ verify_waiting = FALSE
    /\ tries = 0
    /\ radio_ok = TRUE
    /\ out = NoAck
    /\ pings = 0
    /\ losses = 0
    /\ torn = FALSE
    /\ misled = FALSE
    /\ retuned = FALSE

Running == cursor = 0

\* The loop takes a frame only while the radio is up and hears the mesh.
Receiving == Running /\ radio_ok /\ live \in Hears

(***************************************************************************)
(* writeFlashParamBytes: erase the page, then program every slot.          *)
(***************************************************************************)
StartWrite(page, handler) ==
    /\ flash' = ErasedPage
    /\ image' = page
    /\ cursor' = 1
    /\ after' = handler

ProgramSlot ==
    /\ cursor \in 1 .. LastSlot
    /\ flash' = [flash EXCEPT ![SlotOrder[cursor]] = image[SlotOrder[cursor]]]
    /\ cursor' = cursor + 1
    /\ UNCHANGED <<image, after, live, cfgota_state, staged, ota, reboot,
                   verifyvars, radio_ok, out, pings, losses, history>>

\* The write of handler h is over and h goes on.
Written(h) ==
    /\ cursor = LastSlot + 1
    /\ after = h
    /\ cursor' = 0
    /\ after' = "NONE"
    /\ UNCHANGED <<flash, image>>

(***************************************************************************)
(* The handshake (cfg_ota_rx_dispatch).                                    *)
(***************************************************************************)
Busy == ota \/ cfgota_state # "IDLE" \/ verify_active

\* A PREPARE that announces as many values as there are, or not.
Prepare(announced) ==
    /\ Receiving
    /\ \/ /\ Busy
          /\ out' = Ack("PREPARE", "BUSY")
          /\ UNCHANGED cfgota_state
       \/ /\ ~ Busy /\ ~ announced
          /\ out' = Ack("PREPARE", "BAD_SIZE")
          /\ UNCHANGED cfgota_state
       \/ /\ ~ Busy /\ announced
          /\ cfgota_state' = "READY"
          /\ out' = Ack("PREPARE", "OK")
    /\ UNCHANGED <<flashvars, live, staged, ota, reboot, verifyvars, radio_ok,
                   pings, losses, history>>

\* Values v; the peer checks their range before it sends them, the node again.
Data(v, inRange) ==
    /\ Receiving
    /\ \/ /\ cfgota_state = "IDLE"
          /\ out' = Ack("DATA", "BUSY")
          /\ UNCHANGED <<cfgota_state, staged>>
       \/ /\ cfgota_state # "IDLE"
          /\ ~ inRange
          /\ cfgota_state' = "IDLE"
          /\ out' = Ack("DATA", "BAD_VALUE")
          /\ UNCHANGED staged
       \/ /\ cfgota_state # "IDLE"
          /\ inRange
          /\ staged' = v
          /\ cfgota_state' = "RECEIVED"
          /\ out' = Ack("DATA", "OK")
    /\ UNCHANGED <<flashvars, live, ota, reboot, verifyvars, radio_ok, pings,
                   losses, history>>

\* The page END writes: the staged values, the live ones as the backup.
Provisional_BackupOfFlash ==   \* mutated: the backup is what flash holds
    [RADIO |-> staged, PENDING |-> 1, BACKUP |-> flash.RADIO, TRIES |-> 0]
Provisional == [RADIO |-> staged, PENDING |-> 1, BACKUP |-> live, TRIES |-> 0]

\* END with the CRC of values v.
End(v) ==
    /\ Receiving
    /\ \/ /\ cfgota_state # "RECEIVED"
          /\ out' = Ack("END", "BUSY")
          /\ UNCHANGED <<flashvars, cfgota_state, pings>>
       \/ /\ cfgota_state = "RECEIVED"
          /\ v # staged
          /\ cfgota_state' = "IDLE"
          /\ out' = Ack("END", "CRC_FAIL")
          /\ UNCHANGED <<flashvars, pings>>
       \/ /\ cfgota_state = "RECEIVED"
          /\ v = staged
          /\ StartWrite(Provisional, "END")
          /\ pings' = 0
          /\ UNCHANGED <<cfgota_state, out>>
    /\ UNCHANGED <<live, staged, ota, reboot, verifyvars, radio_ok, losses,
                   history>>

EndWritten ==
    /\ Written("END")
    /\ cfgota_state' = "IDLE"
    /\ out' = Ack("END", "OK")
    /\ reboot' = TRUE
    /\ UNCHANGED <<live, staged, ota, verifyvars, radio_ok, pings, losses, history>>

\* The peer fell silent in the middle of the handshake.
IdleTimeout ==
    /\ Running
    /\ cfgota_state # "IDLE"
    /\ cfgota_state' = "IDLE"
    /\ UNCHANGED <<flashvars, live, staged, ota, reboot, verifyvars, radio_ok, out,
                   pings, losses, history>>

(***************************************************************************)
(* The other users of the radio and the flash: a firmware update, and the  *)
(* command that changes a radio setting on the spot.                       *)
(***************************************************************************)
OtaBusy_OnlyOta == ota   \* mutated: a firmware update only asks for its own state
OtaBusy == ota \/ cfgota_state # "IDLE" \/ verify_active

OtaPrepare ==
    /\ Receiving
    /\ IF OtaBusy
       THEN /\ out' = Ack("OTA", "BUSY")
            /\ UNCHANGED ota
       ELSE /\ ota' = TRUE
            /\ out' = Ack("OTA", "OK")
    /\ UNCHANGED <<flashvars, live, cfgota_state, staged, reboot, verifyvars,
                   radio_ok, pings, losses, history>>

\* The image is complete: ota_set_pending rewrites the page, then a reboot.
OtaEnd ==
    /\ Receiving
    /\ ota
    /\ StartWrite(flash, "OTA")
    /\ UNCHANGED <<live, cfgota_state, staged, ota, reboot, verifyvars, radio_ok,
                   out, pings, losses, history>>

OtaWritten ==
    /\ Written("OTA")
    /\ ota' = FALSE
    /\ reboot' = TRUE
    /\ out' = Ack("OTA", "OK")
    /\ UNCHANGED <<live, cfgota_state, staged, verifyvars, radio_ok, pings, losses,
                   history>>

OtaTimeout ==
    /\ Running
    /\ ota
    /\ ota' = FALSE
    /\ UNCHANGED <<flashvars, live, cfgota_state, staged, reboot, verifyvars,
                   radio_ok, out, pings, losses, history>>

\* Neither a push nor a check that is under way keeps the command off.
Command(v) ==
    /\ Receiving
    /\ live' = v
    /\ out' = Ack("CMD", "OK")
    /\ retuned' = (retuned \/ v \notin Reaches \/ verify_active)
    /\ UNCHANGED <<flashvars, cfgota_state, staged, ota, reboot, verifyvars,
                   radio_ok, pings, losses, torn, misled>>

(***************************************************************************)
(* Reset_Handler: boot, and the link check driven from the main loop.      *)
(***************************************************************************)
\* RAM is gone; the radio runs on what the page holds; a provisional
\* configuration arms the link check.  The radio may fail to come up.
Boot ==
    /\ live' = flash.RADIO
    /\ cfgota_state' = "IDLE"
    /\ staged' = flash.RADIO
    /\ ota' = FALSE
    /\ reboot' = FALSE
    /\ verify_active' = (flash.PENDING = 1)
    /\ verify_waiting' = FALSE
    /\ tries' = IF flash.PENDING = 1 THEN flash.TRIES ELSE 0
    /\ radio_ok' \in BOOLEAN
    /\ out' = NoAck
    /\ image' = flash
    /\ cursor' = 0
    /\ after' = "NONE"
    /\ UNCHANGED <<flash, pings, misled, retuned>>

Reboot == Running /\ reboot /\ Boot /\ UNCHANGED <<losses, torn>>

\* A rewrite has yet to program a slot that boot or the check depends on.
Halfway == ~ Running /\ \E s \in {"RADIO", "PENDING", "BACKUP"} : flash[s] # image[s]

PowerLoss ==
    /\ losses < MaxPowerLosses
    /\ losses' = losses + 1
    /\ torn' = (torn \/ Halfway)
    /\ Boot

Checking == Running /\ verify_active /\ radio_ok

AttemptTimeout ==
    /\ Checking
    /\ verify_waiting
    /\ verify_waiting' = FALSE
    /\ UNCHANGED <<flashvars, live, cfgota_state, staged, ota, reboot,
                   verify_active, tries, radio_ok, out, pings, losses, history>>

\* The page a ping writes: one try more.
Counted_NotKept == flash                               \* mutated: counted in RAM only
Counted_Twice == [flash EXCEPT !.TRIES = tries + 2]    \* mutated: counted before and after
Counted == [flash EXCEPT !.TRIES = tries + 1]

SendPing ==
    /\ Checking
    /\ ~ verify_waiting
    /\ tries < MaxTries
    /\ verify_waiting' = TRUE
    /\ tries' = tries + 1
    /\ pings' = pings + 1
    /\ StartWrite(Counted, "PING")
    /\ UNCHANGED <<live, cfgota_state, staged, ota, reboot, verify_active, radio_ok,
                   out, losses, history>>

PingWritten ==
    /\ Written("PING")
    /\ UNCHANGED <<live, cfgota_state, staged, ota, reboot, verifyvars, radio_ok,
                   out, pings, losses, history>>

\* Too many tries: back to the backup, live first, then in flash.
Restored_FlashOnly == flash.RADIO   \* mutated: the backup is not restored
Restored == flash.BACKUP
RolledBack == [flash EXCEPT !.RADIO = Restored, !.PENDING = 0]

RollBack ==
    /\ Checking
    /\ ~ verify_waiting
    /\ tries >= MaxTries
    /\ live' = Restored
    /\ StartWrite(RolledBack, "ROLLBACK")
    /\ UNCHANGED <<cfgota_state, staged, ota, reboot, verifyvars, radio_ok, out,
                   pings, losses, history>>

RollbackWritten ==
    /\ Written("ROLLBACK")
    /\ out' = Ack("RESULT", "ROLLBACK")
    /\ verify_active' = FALSE
    /\ reboot' = TRUE
    /\ UNCHANGED <<live, cfgota_state, staged, ota, verify_waiting, tries, radio_ok,
                   pings, losses, history>>

Confirmed == [flash EXCEPT !.PENDING = 0]

\* A PONG arrives.  Whoever sent it, and whosever ping it answers, it settles an
\* attempt that waits.
Pong ==
    /\ Receiving
    /\ IF verify_active /\ verify_waiting
       THEN /\ verify_waiting' = FALSE
            /\ verify_active' = FALSE
            /\ StartWrite(Confirmed, "PONG")
            /\ misled' = (misled \/ live \notin Reaches)
       ELSE UNCHANGED <<flashvars, verify_waiting, verify_active, misled>>
    /\ UNCHANGED <<live, cfgota_state, staged, ota, reboot, tries, radio_ok, out,
                   pings, losses, torn, retuned>>

PongWritten ==
    /\ Written("PONG")
    /\ out' = Ack("RESULT", "VERIFIED")
    /\ UNCHANGED <<live, cfgota_state, staged, ota, reboot, verifyvars, radio_ok,
                   pings, losses, history>>

\* The acknowledgement is transmitted, heard or not.
AckSent ==
    /\ Running
    /\ out # NoAck
    /\ out' = NoAck
    /\ UNCHANGED <<flashvars, live, cfgota_state, staged, ota, reboot, verifyvars,
                   radio_ok, pings, losses, history>>

Program == ProgramSlot \/ EndWritten \/ OtaWritten \/ PingWritten \/ RollbackWritten \/ PongWritten
Check   == AttemptTimeout \/ SendPing \/ RollBack
Frames  == \/ Prepare(TRUE) \/ Prepare(FALSE) \/ OtaPrepare \/ OtaEnd
           \/ \E v \in Setting : Data(v, TRUE) \/ Data(v, FALSE) \/ End(v) \/ Command(v)

Next == \/ Program \/ Check \/ Frames
        \/ IdleTimeout \/ OtaTimeout \/ Reboot \/ PowerLoss
        \/ Pong \/ AckSent

Spec == Init /\ [][Next]_vars

\* The loop goes on programming, checking and rebooting; nothing is promised of
\* the mesh.  A peer that pushes one configuration after the other does not put
\* the reboot off for ever.
FairSpec == Spec /\ WF_vars(Program) /\ WF_vars(Check) /\ SF_vars(Reboot)

(***************************************************************************)
(* Properties.                                                             *)
(***************************************************************************)

\* A node that boots without a link check boots on settings on which the mesh
\* hears it.  END writes settings nobody has tried, so this rests on the flag, the
\* check and the rollback together.  Three things break it: a power failure in
\* the middle of a rewrite (not "ONE flash write", as main.c:675 has it, but a page
\* erased and programmed slot by slot), a PONG that answers the ping of another node
\* (main.c:901 asks for no more than PONG), and a command that changes the settings
\* under check (main.c:973).
NeverStranded ==
    Running /\ flash.PENDING # 1 => flash.RADIO \in Reaches \/ torn \/ misled \/ retuned

\* While a configuration is provisional the backup is one the mesh heard the
\* node on: also after a second push before the reboot of the first.  The same
\* three break it.
BackupIsGood ==
    Running /\ flash.PENDING = 1 => flash.BACKUP \in Reaches \/ torn \/ misled \/ retuned

\* A firmware update, a configuration push and a link check exclude each other:
\* they share the radio and the flash.
OneSession ==
    /\ ~ (ota /\ cfgota_state # "IDLE")
    /\ verify_active => ~ ota /\ cfgota_state = "IDLE"

\* The acknowledgement of a commit and the report of its outcome go out on
\* settings on which the mesh hears the node, but for the three cases above.
OutcomeIsHeard ==
    out \in {Ack("END", "OK"), Ack("RESULT", "VERIFIED"), Ack("RESULT", "ROLLBACK")}
        => live \in Reaches \/ torn \/ misled \/ retuned

\* However often it is restarted, the node pings at most MaxTries times for one
\* commit: the count survives in flash.
PingsBounded == pings <= MaxTries

=============================================================================
