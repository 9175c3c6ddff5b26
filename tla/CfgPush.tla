------------------------------ MODULE CfgPush ------------------------------
(***************************************************************************)
(* A configuration push end to end: the operator's tool (cfgota_driver of  *)
(* tools/dev_web/server.py), the gateway and the air between it and the    *)
(* target, and the target itself, which is CfgOta.                         *)
(*                                                                         *)
(* The driver takes three steps, each a command that is repeated until an  *)
(* acknowledgement of that operation comes, and then waits for the result. *)
(* An acknowledgement carries no session and no attempt.  A BUSY to a      *)
(* repeated PREPARE or END is taken for success.                           *)
(*                                                                         *)
(* Frames of one direction do not overtake each other, and any of them may *)
(* be lost or late; the driver's timeouts may come at any time.  Nobody    *)
(* else updates the target's firmware or commands it other settings: the   *)
(* tool does not let one update, and CfgOta has the others.                *)
(***************************************************************************)
EXTENDS CfgOta

CONSTANTS
    Pushed,             \* settings an operator may push
    CFGOTA_STEP_RETRY,  \* commands sent per step (5)
    LinkDepth,          \* bound: frames under way in one direction
    MaxJobs             \* bound: jobs started

ASSUME PushAssumption ==
    /\ Pushed \subseteq Setting
    /\ CFGOTA_STEP_RETRY \in Nat \ {0}
    /\ LinkDepth \in Nat \ {0}
    /\ MaxJobs \in Nat

VARIABLES
    state, stage,  \* of the job: how it stands, and the step it is at
    attempt,       \* of the step, from 0
    values,        \* what the job pushes
    cmds, acks,    \* frames to the target and from it
    jobs,          \* jobs started
    before,        \* history: the target's settings when the job started, ...
    lone           \* ... and whether the target was idle then and the air empty

driver == <<state, stage, attempt, values, jobs, before, lone>>
pushvars == <<vars, driver, cmds, acks>>

Stages == {"handshake", "transmitting", "committing", "rebooting_verifying"}
JobState == {"none", "running", "done", "rolled_back", "unknown", "error"}

Step == {"handshake", "transmitting", "committing"}
OpOf == [handshake |-> "PREPARE", transmitting |-> "DATA", committing |-> "END",
         rebooting_verifying |-> "RESULT"]
Following == [handshake |-> "transmitting", transmitting |-> "committing",
              committing |-> "rebooting_verifying"]

Cmd == [op : {"PREPARE", "DATA", "END"}, values : Setting]

PushTypeOK ==
    /\ TypeOK
    /\ state \in JobState
    /\ stage \in Stages
    /\ attempt \in 0 .. CFGOTA_STEP_RETRY - 1
    /\ values \in Setting
    /\ cmds \in Seq(Cmd) /\ Len(cmds) <= LinkDepth
    /\ acks \in Seq(AckRecord) /\ Len(acks) <= LinkDepth
    /\ jobs \in 0 .. MaxJobs
    /\ before \in Setting
    /\ lone \in BOOLEAN

PushInit ==
    /\ Init
    /\ state = "none" /\ stage = "handshake" /\ attempt = 0
    /\ values = live /\ before = live
    /\ cmds = <<>> /\ acks = <<>>
    /\ jobs = 0
    /\ lone = FALSE

----------------------------------------------------------------------------
(* The driver. *)

\* The command of a step goes to the gateway; one too many is lost there.
Sent(op, v) ==
    IF Len(cmds) < LinkDepth THEN Append(cmds, [op |-> op, values |-> v]) ELSE cmds

\* The target has nothing going on, and no frame is under way.
Idle ==
    /\ Running /\ cfgota_state = "IDLE" /\ ~ ota /\ ~ reboot /\ ~ verify_active
    /\ flash.PENDING # 1 /\ live = flash.RADIO /\ out = NoAck
    /\ cmds = <<>> /\ acks = <<>>

\* _do_cfgota_start: one job at a time.
StartJob(v) ==
    /\ state # "running" /\ jobs < MaxJobs
    /\ state' = "running" /\ stage' = "handshake" /\ attempt' = 0
    /\ values' = v
    /\ jobs' = jobs + 1
    /\ lone' = Idle
    /\ before' = IF lone' THEN live ELSE v
    /\ cmds' = Sent("PREPARE", v)
    /\ UNCHANGED <<vars, acks>>

Finish(s) ==
    /\ state' = s
    /\ attempt' = 0
    /\ UNCHANGED <<stage, cmds>>

Advance ==
    /\ stage' = Following[stage] /\ attempt' = 0
    /\ cmds' = IF stage' \in Step THEN Sent(OpOf[stage'], values) ELSE cmds
    /\ UNCHANGED state

Retry ==
    IF attempt + 1 < CFGOTA_STEP_RETRY
    THEN /\ attempt' = attempt + 1
         /\ cmds' = Sent(OpOf[stage], values)
         /\ UNCHANGED <<state, stage>>
    ELSE Finish("error")

\* The driver's verdict on an acknowledgement of the step it is at.
Accepted(status) ==
    \/ status = "OK"
    \/ status = "BUSY" /\ stage # "transmitting" /\ attempt > 0

StepAnswered(status) ==
    /\ stage \in Step
    /\ IF Accepted(status) THEN Advance
       ELSE IF status = "BAD_VALUE" THEN Finish("error") ELSE Retry

\* What the operator is told of a result.
Told_AnyIsGood(status) == "done"   \* mutated: a result is a result
Told(status) ==
    CASE status = "VERIFIED" -> "done"
      [] status = "ROLLBACK" -> "rolled_back"
      [] OTHER -> "error"

ResultHeard(status) ==
    /\ stage = "rebooting_verifying"
    /\ Finish(Told(status))

\* wait_ack: what is not of the operation waited for is dropped; between jobs
\* nobody listens.
Awaited(ack) == state = "running" /\ ack.op = OpOf[stage]

DriverReads ==
    /\ acks # <<>>
    /\ acks' = Tail(acks)
    /\ IF Awaited(Head(acks))
       THEN StepAnswered(Head(acks).status) \/ ResultHeard(Head(acks).status)
       ELSE UNCHANGED <<state, stage, attempt, cmds>>
    /\ UNCHANGED <<vars, values, jobs, before, lone>>

StepTimeout ==
    /\ state = "running" /\ stage \in Step
    /\ Retry
    /\ UNCHANGED <<vars, values, jobs, before, lone, acks>>

ResultTimeout ==
    /\ state = "running" /\ stage = "rebooting_verifying"
    /\ Finish("unknown")
    /\ UNCHANGED <<vars, values, jobs, before, lone, acks>>

Driver == (\E v \in Pushed : StartJob(v)) \/ DriverReads \/ StepTimeout \/ ResultTimeout

----------------------------------------------------------------------------
(* The links. *)

Handle(c) ==
    \/ c.op = "PREPARE" /\ Prepare(TRUE)
    \/ c.op = "DATA" /\ Data(c.values, TRUE)
    \/ c.op = "END" /\ End(c.values)

\* The target hears the next command.
CommandHeard ==
    /\ cmds # <<>>
    /\ Handle(Head(cmds))
    /\ cmds' = Tail(cmds)
    /\ UNCHANGED <<driver, acks>>

CommandLost ==
    /\ cmds # <<>>
    /\ cmds' = Tail(cmds)
    /\ UNCHANGED <<vars, driver, acks>>

\* The target transmits its answer; the gateway hears it, or does not.
AnswerSent ==
    /\ AckSent
    /\ \/ acks' = acks
       \/ live \in Reaches /\ Len(acks) < LinkDepth /\ acks' = Append(acks, out)
    /\ UNCHANGED <<driver, cmds>>

\* What the target does of itself, and the rest of the mesh with it.
Target ==
    /\ Program \/ Check \/ IdleTimeout \/ Reboot \/ PowerLoss \/ Pong
    /\ UNCHANGED <<driver, cmds, acks>>

PushNext == Driver \/ CommandHeard \/ CommandLost \/ AnswerSent \/ Target

PushSpec == PushInit /\ [][PushNext]_pushvars

\* As in CfgOta.
PushFairSpec == PushSpec /\ WF_vars(Program) /\ WF_vars(Check) /\ SF_vars(Reboot)

----------------------------------------------------------------------------
(* Properties. *)

\* What the operator of a lone push is told is true, whichever frames were
\* lost or late, however often the target restarted, and whatever a BUSY was
\* taken for: "done" of a target that runs the values for good, "rolled_back"
\* and a failure before the commit of one that runs what it ran before.  (A
\* failure at the commit, and "unknown", say nothing.)  Not so of a target whose
\* page a power failure has torn: it may roll back to the defaults.
VerdictIsTrue ==
    lone /\ Running /\ ~ torn =>
        /\ state = "done" => flash.RADIO = values /\ flash.PENDING # 1 /\ live = values
        /\ \/ state = "rolled_back"
           \/ state = "error" /\ stage \in {"handshake", "transmitting"}
           => flash.RADIO = before /\ flash.PENDING # 1 /\ live = before
=============================================================================
