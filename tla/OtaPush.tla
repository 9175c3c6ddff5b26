------------------------------- MODULE OtaPush -------------------------------
(***************************************************************************)
(* A firmware update over LoRa, end to end: the driver of a web tool       *)
(* (ota_driver in tools/lora_web/server.py), its link through a gateway,   *)
(* the node it updates (ota_rx_dispatch in app/lora/main.c), the staging   *)
(* bank (flash_ota.c) and the copy at boot (ota_apply.c), as built with    *)
(* OTA_APPLY_ENABLED.                                                      *)
(*                                                                         *)
(* Several drivers may push to one node.  Acknowledgements are broadcasts: *)
(* every driver's gateway hears them, and a driver tells them apart by     *)
(* operation and offset alone.  Commands and acknowledgements may be lost  *)
(* or late, but do not overtake each other.  Deadlines are left open.      *)
(*                                                                         *)
(* An image is a sequence of chunks; the chunk of an image is told from    *)
(* that of another, and from an erased or a badly programmed one.  What    *)
(* boots needs the first chunk (the vector table) and the last (the copies *)
(* of .data and of the applier, which the linker puts behind the code).    *)
(***************************************************************************)
EXTENDS Naturals, Sequences

CONSTANTS
    Pusher,
    Image,
    Size,            \* chunks of each image
    MaxSize,         \* chunks of the bank
    MaxTries,        \* OTA_MAX_RETRY
    LinkDepth,       \* bound of the model: messages on their way, one direction
    MaxJobs,         \* bound of the model: pushes started
    MaxPowerLosses   \* bound of the model: power failures of the node

None   == "none"
Erased == "erased"
Bad    == "bad"

ASSUME OtaPushAssumption ==
    /\ {None, Erased, Bad} \cap Image = {}
    /\ MaxSize \in Nat \ {0}
    /\ Size \in [Image -> Nat \ {0}]
    /\ \E i \in Image : Size[i] <= MaxSize
    /\ MaxTries \in Nat \ {0}
    /\ LinkDepth \in Nat \ {0}
    /\ MaxJobs \in Nat
    /\ MaxPowerLosses \in Nat

VARIABLES
    phase, job, off, tries, waiting,   \* of each driver: where ota_driver is
    jobs,                              \* pushes started so far
    overlapped,                        \* two pushes have been under way at once
    cmds, acks,                        \* on their way from and to each driver
    mode,                              \* ota_state
    expected,                          \* ota_rx_size, in chunks
    reboot,                            \* ota_reboot_at is armed
    bank,                              \* the staging bank
    pending,                           \* OTA_PENDING_FLAG: chunks to apply, or 0
    app, copied,                       \* the application flash, and the copy's progress
    version,                           \* fw_build_id_string of the code that runs
    power,
    losses,                            \* power failures so far
    trampled,                          \* a pending image has been overwritten in the bank
    cut                                \* a copy has been cut short

drivervars == <<phase, job, off, tries, waiting, jobs, overlapped>>
linkvars   == <<cmds, acks>>
ramvars    == <<mode, expected, reboot>>
flashvars  == <<bank, pending, app>>
bootvars   == <<copied, version, power, losses>>
history    == <<trampled, cut>>
vars == <<drivervars, linkvars, ramvars, flashvars, bootvars, history>>

Chunk == 1 .. MaxSize
Flash == [Chunk -> Image \cup {Erased, Bad}]
Blank == [c \in Chunk |-> Erased]

Active == {"PREPARE", "DATA", "END"}
Phase  == Active \cup {"IDLE", "DONE", "UP_TO_DATE", "ERROR"}

Command == [op : Active, image : Image, chunk : Nat]
Status  == {"OK", "SAME_VER", "BUSY", "TOO_LARGE", "ERASE_FAIL", "FAIL", "CRC_FAIL", "NO_SESSION"}
Ack     == [op : Active, status : Status, chunk : Nat]

Fits(i) == Size[i] <= MaxSize

\* A flash area holds image i.
Holds(area, i) == Fits(i) /\ \A c \in 1 .. Size[i] : area[c] = i

DriverOK ==
    /\ phase \in [Pusher -> Phase]
    /\ job \in [Pusher -> Image]
    /\ off \in [Pusher -> Nat]
    /\ tries \in [Pusher -> 0 .. MaxTries]
    /\ waiting \in [Pusher -> BOOLEAN]
    /\ \A p \in Pusher : waiting[p] => tries[p] < MaxTries
    /\ jobs \in 0 .. MaxJobs
    /\ overlapped \in BOOLEAN

LinkOK ==
    /\ cmds \in [Pusher -> Seq(Command)]
    /\ acks \in [Pusher -> Seq(Ack)]
    /\ \A p \in Pusher : Len(cmds[p]) <= LinkDepth /\ Len(acks[p]) <= LinkDepth

NodeOK ==
    /\ mode \in {"IDLE", "READY", "RECEIVING"}
    /\ expected \in 0 .. MaxSize
    /\ mode = "IDLE" <=> expected = 0
    /\ reboot \in BOOLEAN
    /\ bank \in Flash
    /\ app \in Flash
    /\ pending \in 0 .. MaxSize
    /\ copied \in 0 .. MaxSize
    /\ version \in Image
    /\ power \in {"RUN", "BOOT", "COPY", "DEAD"}
    /\ losses \in 0 .. MaxPowerLosses
    /\ trampled \in BOOLEAN
    /\ cut \in BOOLEAN

TypeOK == DriverOK /\ LinkOK /\ NodeOK

Init ==
    /\ version \in Image /\ Fits(version)
    /\ app = [c \in Chunk |-> IF c <= Size[version] THEN version ELSE Erased]
    /\ phase = [p \in Pusher |-> "IDLE"]
    /\ job = [p \in Pusher |-> version]
    /\ off = [p \in Pusher |-> 0]
    /\ tries = [p \in Pusher |-> 0]
    /\ waiting = [p \in Pusher |-> FALSE]
    /\ jobs = 0
    /\ overlapped = FALSE
    /\ cmds = [p \in Pusher |-> <<>>]
    /\ acks = [p \in Pusher |-> <<>>]
    /\ mode = "IDLE"
    /\ expected = 0
    /\ reboot = FALSE
    /\ bank = Blank
    /\ pending = 0
    /\ copied = 0
    /\ power = "RUN"
    /\ losses = 0
    /\ trampled = FALSE
    /\ cut = FALSE

(***************************************************************************)
(* The driver: PREPARE, then chunk after chunk, then END, each sent again  *)
(* until an acknowledgement that fits says it is done.                     *)
(***************************************************************************)

\* A push starts when nothing of the driver's last one is on the air; others may
\* be at work, and the node may still have to restart on an earlier image.  The
\* web tool refuses an image larger than the bank; one sent by hand may be.
Start(p) ==
    /\ phase[p] \notin Active
    /\ jobs < MaxJobs
    /\ cmds[p] = <<>> /\ acks[p] = <<>>
    /\ \E i \in Image : job' = [job EXCEPT ![p] = i]
    /\ phase' = [phase EXCEPT ![p] = "PREPARE"]
    /\ off' = [off EXCEPT ![p] = 0]
    /\ tries' = [tries EXCEPT ![p] = 0]
    /\ waiting' = [waiting EXCEPT ![p] = FALSE]
    /\ jobs' = jobs + 1
    /\ overlapped' = (\/ overlapped
                      \/ pending # 0
                      \/ \E q \in Pusher \ {p} : phase[q] \in Active \/ cmds[q] # <<>>)
    /\ UNCHANGED <<linkvars, ramvars, flashvars, bootvars, history>>

\* What is sent into a link that is full is lost.
Sent(link, m) == IF Len(link) < LinkDepth THEN Append(link, m) ELSE link

Attempt(p) ==
    /\ phase[p] \in Active
    /\ ~ waiting[p]
    /\ tries[p] < MaxTries
    /\ cmds' = [cmds EXCEPT ![p] =
           Sent(@, [op |-> phase[p], image |-> job[p], chunk |-> off[p]])]
    /\ waiting' = [waiting EXCEPT ![p] = TRUE]
    /\ UNCHANGED <<phase, job, off, tries, jobs, overlapped, acks, ramvars, flashvars, bootvars, history>>

Retry(p) ==
    /\ tries' = [tries EXCEPT ![p] = @ + 1]
    /\ waiting' = [waiting EXCEPT ![p] = FALSE]
    /\ UNCHANGED <<phase, job, off, jobs, overlapped>>

Timeout(p) ==
    /\ waiting[p]
    /\ Retry(p)
    /\ UNCHANGED <<linkvars, ramvars, flashvars, bootvars, history>>

GiveUp(p) ==
    /\ phase[p] \in Active
    /\ tries[p] = MaxTries
    /\ phase' = [phase EXCEPT ![p] = "ERROR"]
    /\ UNCHANGED <<job, off, tries, waiting, jobs, overlapped,
                   linkvars, ramvars, flashvars, bootvars, history>>

\* ota_wait_ack takes the first acknowledgement of the operation, and for a
\* chunk of the offset, that came in after the command went out.
Matches_Any(p, a) == waiting[p]   \* mutated: the acknowledgement of another step will do
Matches(p, a) ==
    /\ waiting[p]
    /\ a.op = phase[p]
    /\ a.op = "DATA" => a.chunk = off[p]

\* The step after one that is acknowledged.
Advance(p) ==
    \/ /\ phase[p] = "PREPARE"
       /\ phase' = [phase EXCEPT ![p] = "DATA"]
       /\ off' = [off EXCEPT ![p] = 1]
    \/ /\ phase[p] = "DATA" /\ off[p] < Size[job[p]]
       /\ off' = [off EXCEPT ![p] = @ + 1]
       /\ UNCHANGED phase
    \/ /\ phase[p] = "DATA" /\ off[p] = Size[job[p]]
       /\ phase' = [phase EXCEPT ![p] = "END"]
       /\ off' = [off EXCEPT ![p] = 0]
    \/ /\ phase[p] = "END"
       /\ phase' = [phase EXCEPT ![p] = "DONE"]
       /\ UNCHANGED off

\* The next acknowledgement comes in.
Acked(p) ==
    /\ acks[p] # <<>>
    /\ acks' = [acks EXCEPT ![p] = Tail(@)]
    /\ LET a == Head(acks[p])
       IN \/ /\ Matches(p, a) /\ a.status = "OK"
             /\ Advance(p)
             /\ tries' = [tries EXCEPT ![p] = 0]
             /\ waiting' = [waiting EXCEPT ![p] = FALSE]
             /\ UNCHANGED <<job, jobs, overlapped>>
          \/ /\ Matches(p, a) /\ a.status = "SAME_VER"
             /\ phase' = [phase EXCEPT ![p] = "UP_TO_DATE"]
             /\ waiting' = [waiting EXCEPT ![p] = FALSE]
             /\ UNCHANGED <<job, off, tries, jobs, overlapped>>
          \/ /\ Matches(p, a) /\ a.status \notin {"OK", "SAME_VER"}
             /\ Retry(p)
          \/ /\ ~ Matches(p, a)
             /\ UNCHANGED drivervars
    /\ UNCHANGED <<cmds, ramvars, flashvars, bootvars, history>>

Lose(p) ==
    /\ \/ /\ cmds[p] # <<>>
          /\ cmds' = [cmds EXCEPT ![p] = Tail(@)]
          /\ UNCHANGED acks
       \/ /\ acks[p] # <<>>
          /\ acks' = [acks EXCEPT ![p] = Tail(@)]
          /\ UNCHANGED cmds
    /\ UNCHANGED <<drivervars, ramvars, flashvars, bootvars, history>>

(***************************************************************************)
(* The node: ota_rx_dispatch and the deadlines of its loop.                *)
(***************************************************************************)

\* A command of op arrives, ...
Arrives(p, op) ==
    /\ power = "RUN"
    /\ cmds[p] # <<>>
    /\ Head(cmds[p]).op = op
    /\ cmds' = [cmds EXCEPT ![p] = Tail(@)]

\* ... and its answer goes out, to every driver at work.
Answer(op, status, chunk) ==
    acks' = [q \in Pusher |->
        IF phase[q] \in Active
        THEN Sent(acks[q], [op |-> op, status |-> status, chunk |-> chunk])
        ELSE acks[q]]

\* That the node waits to restart on a pending image is not asked.
Prepare(p) ==
    /\ Arrives(p, "PREPARE")
    /\ LET i == Head(cmds[p]).image
       IN \/ /\ mode # "IDLE"
             /\ Answer("PREPARE", "BUSY", 0)
             /\ UNCHANGED <<mode, expected, bank>>
          \/ /\ mode = "IDLE" /\ i = version
             /\ Answer("PREPARE", "SAME_VER", 0)
             /\ UNCHANGED <<mode, expected, bank>>
          \/ /\ mode = "IDLE" /\ i # version /\ ~ Fits(i)
             /\ Answer("PREPARE", "TOO_LARGE", 0)
             /\ UNCHANGED <<mode, expected, bank>>
          \/ /\ mode = "IDLE" /\ i # version /\ Fits(i)
             /\ bank' = Blank
             /\ mode' = "READY"
             /\ expected' = Size[i]
             /\ Answer("PREPARE", "OK", 0)
          \/ /\ mode = "IDLE" /\ i # version /\ Fits(i)   \* ota_erase fails
             /\ \E dirt \in {bank, [Blank EXCEPT ![MaxSize] = Bad]} : bank' = dirt
             /\ Answer("PREPARE", "ERASE_FAIL", 0)
             /\ UNCHANGED <<mode, expected>>
    /\ trampled' = (trampled \/ (pending # 0 /\ bank' # bank))
    /\ UNCHANGED <<drivervars, reboot, pending, app, bootvars, cut>>

\* ota_write: what is programmed can be programmed again with the same data.
Programmable(c, i) == c <= expected /\ bank[c] \in {Erased, i}

Data(p) ==
    /\ Arrives(p, "DATA")
    /\ LET i == Head(cmds[p]).image
           c == Head(cmds[p]).chunk
       IN \/ /\ mode = "IDLE"
             /\ Answer("DATA", "NO_SESSION", c)
             /\ UNCHANGED <<mode, bank>>
          \/ /\ mode # "IDLE" /\ Programmable(c, i)
             /\ mode' = "RECEIVING"
             /\ bank' = [bank EXCEPT ![c] = i]
             /\ Answer("DATA", "OK", c)
          \/ /\ mode # "IDLE" /\ ~ Programmable(c, i)
             /\ mode' = "RECEIVING"
             /\ Answer("DATA", "FAIL", c)
             /\ UNCHANGED bank
          \/ /\ mode # "IDLE" /\ Programmable(c, i)   \* it reads back wrong
             /\ mode' = "RECEIVING"
             /\ bank' = [bank EXCEPT ![c] = Bad]
             /\ Answer("DATA", "FAIL", c)
    /\ UNCHANGED <<drivervars, expected, reboot, pending, app, bootvars, history>>

\* The size and CRC of END are those of the bank.
Verified_SizeOnly(i) == Size[i] = expected   \* mutated: the CRC is not compared
Verified(i) == Size[i] = expected /\ Holds(bank, i)

\* END: the image becomes pending, and the node restarts once the answer is out,
\* unless the tick plus 800 is 0, which means no deadline; without a session
\* there is no answer at all.
End(p) ==
    /\ Arrives(p, "END")
    /\ LET i == Head(cmds[p]).image
       IN \/ /\ mode = "IDLE"
             /\ UNCHANGED <<mode, expected, pending, reboot, acks>>
          \/ /\ mode # "IDLE" /\ Verified(i)
             /\ pending' = Size[i]
             /\ expected' = 0
             /\ mode' = "IDLE"
             /\ reboot' \in BOOLEAN
             /\ Answer("END", "OK", 0)
          \/ /\ mode # "IDLE" /\ ~ Verified(i)
             /\ Answer("END", "CRC_FAIL", 0)
             /\ UNCHANGED <<mode, expected, pending, reboot>>
    /\ UNCHANGED <<drivervars, bank, app, bootvars, history>>

IdleTimeout_KeepsSize ==   \* mutated: ota_rx_size is kept
    /\ power = "RUN"
    /\ mode # "IDLE"
    /\ mode' = "IDLE"
    /\ UNCHANGED <<drivervars, linkvars, expected, reboot, flashvars, bootvars, history>>
IdleTimeout ==
    /\ power = "RUN"
    /\ mode # "IDLE"
    /\ mode' = "IDLE"
    /\ expected' = 0
    /\ UNCHANGED <<drivervars, linkvars, reboot, flashvars, bootvars, history>>

(***************************************************************************)
(* Restart, and ota_apply_at_boot.                                         *)
(***************************************************************************)

\* The area begins and ends as what boots does; whether it boots with a hole in
\* between depends on where in .text the reset handler is.
Ends(area) == area[1] \in Image /\ Fits(area[1]) /\ area[Size[area[1]]] \in Image

\* A reset forgets what is in RAM.
Reset(area) ==
    /\ mode' = "IDLE"
    /\ expected' = 0
    /\ reboot' = FALSE
    /\ copied' = 0
    /\ power' \in {"BOOT", "DEAD"}
    /\ power' = "BOOT" => Ends(area)
    /\ power' = "DEAD" => \A i \in Image : ~ Holds(area, i)

Reboot ==
    /\ power = "RUN"
    /\ reboot
    /\ Reset(app)
    /\ UNCHANGED <<drivervars, linkvars, flashvars, version, losses, history>>

Differs == \E c \in 1 .. pending : app[c] # bank[c]

\* The erase begins with the first page, so from here on nothing boots.
BeginCopy_FlagFirst ==   \* mutated: the flag is cleared before the copy
    /\ power = "BOOT"
    /\ Differs
    /\ app' = Blank
    /\ pending' = 0
    /\ power' = "COPY"
    /\ UNCHANGED <<drivervars, linkvars, ramvars, bank, copied, version, losses, history>>
BeginCopy ==
    /\ power = "BOOT"
    /\ Differs
    /\ app' = Blank
    /\ power' = "COPY"
    /\ UNCHANGED <<drivervars, linkvars, ramvars, bank, pending, copied, version, losses, history>>

\* Nothing is pending, or it is in place.
BootUp_KeepsFlag ==   \* mutated: the flag is not cleared
    /\ power = "BOOT"
    /\ ~ Differs
    /\ version' = app[1]
    /\ power' = "RUN"
    /\ UNCHANGED <<drivervars, linkvars, ramvars, bank, pending, app, copied, losses, history>>
BootUp ==
    /\ power = "BOOT"
    /\ ~ Differs
    /\ pending' = 0
    /\ version' = app[1]
    /\ power' = "RUN"
    /\ UNCHANGED <<drivervars, linkvars, ramvars, bank, app, copied, losses, history>>

CopyChunk ==
    /\ power = "COPY"
    /\ copied < pending
    /\ app' = [app EXCEPT ![copied + 1] = bank[copied + 1]]
    /\ copied' = copied + 1
    /\ UNCHANGED <<drivervars, linkvars, ramvars, bank, pending, version, power, losses, history>>

EndCopy ==
    /\ power = "COPY"
    /\ copied = pending
    /\ Reset(app)
    /\ UNCHANGED <<drivervars, linkvars, flashvars, version, losses, history>>

\* Power fails, or a chunk of the copy cannot be programmed in three attempts.
PowerLoss ==
    /\ power # "DEAD"
    /\ losses < MaxPowerLosses
    /\ losses' = losses + 1
    /\ cut' = (cut \/ (power = "COPY" /\ copied < pending))
    /\ Reset(app)
    /\ UNCHANGED <<drivervars, linkvars, flashvars, version, trampled>>

Driver(p) == Start(p) \/ Attempt(p) \/ Timeout(p) \/ GiveUp(p) \/ Acked(p)
Handle(p) == Prepare(p) \/ Data(p) \/ End(p)
Restart   == Reboot \/ BeginCopy \/ BootUp \/ CopyChunk \/ EndCopy

Next ==
    \/ \E p \in Pusher : Driver(p) \/ Handle(p) \/ Lose(p)
    \/ IdleTimeout
    \/ Restart
    \/ PowerLoss

Spec == Init /\ [][Next]_vars

\* The loop of the node reboots once the deadline has passed, and the copy runs
\* with nothing else.
FairSpec == Spec /\ WF_vars(Restart)

(***************************************************************************)
(* Properties.                                                             *)
(***************************************************************************)

\* While an image is pending the bank holds all of it, whoever else pushes and
\* whenever the power fails: it is what the boot copies from.  The one exception
\* is a PREPARE accepted before the node has restarted on it, which erases it.
GoldenCopy == pending # 0 => trampled \/ \E i \in Image : Size[i] = pending /\ Holds(bank, i)

\* The code that runs is a whole image, the one its build id names, unless a
\* pending image has been overwritten.
RunsWholeImage == power = "RUN" => trampled \/ Holds(app, version)

\* What leaves a node that does not boot is a copy cut short or a pending image
\* overwritten, and nothing else.  (ota_apply.h:11 has no such exceptions: "an
\* interruption mid-copy simply retries on the next boot".)
BrickedByThese == power = "DEAD" => cut \/ trampled

\* What an operator is told is so when it is told: "done" means that the image is
\* staged or running, "up to date" that it is running.
Staged(i) == pending = Size[i] /\ Holds(bank, i)
Told(p, outcome) == phase[p] # outcome /\ phase'[p] = outcome
OutcomesAreTrue ==
    \A p \in Pusher :
        /\ Told(p, "DONE") => Staged(job[p]) \/ version = job[p]
        /\ Told(p, "UP_TO_DATE") => version = job[p]

\* That holds as long as no two pushes have been under way at once, the second
\* started before the first was over and its image running: a driver cannot tell
\* the acknowledgements of another's push from those of its own.
LonePushesAreTrue == [][~ overlapped => OutcomesAreTrue]_vars

\* Seen from outside, the update of one operator is what FirmwareUpdate says: no
\* restart, retry, duplicate or power failure shows, and what is staged is lost
\* only to another push.
U == INSTANCE FirmwareUpdate
     WITH staged <- IF pending = 0 \/ trampled THEN None ELSE bank[1], ruined <- trampled
ImplementsUpdate == U!Spec

\* A staged image comes to run once the node restarts, by its deadline or by a
\* power failure, unless its copy is cut short or it is overwritten.
StagedIsInstalled ==
    \A i \in Image : Staged(i) /\ (reboot \/ power # "RUN") ~> version = i \/ cut \/ trampled
=============================================================================
