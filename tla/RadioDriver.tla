---------------------------- MODULE RadioDriver ----------------------------
(***************************************************************************)
(* The SX1262 driver (driver/sx1262.c) under the main loop, the terminal   *)
(* and the watchdog.  Every driver call is a list of SPI commands; before  *)
(* each the driver waits for the chip's BUSY line, a bounded time, and if  *)
(* that wait fails it sets radio_failed and skips this command and all     *)
(* later ones: the flag is cleared by a reset of the processor only.       *)
(*                                                                         *)
(* A transmission waits for TX_DONE in a loop whose delays poll the timer: *)
(* the beacon that may fall due prints, a print polls USB, and USB may     *)
(* bring a command that changes the radio under the transmission.          *)
(*                                                                         *)
(* Time is counted in coarse ticks, and only in the loop of radio_send.    *)
(* The loop counts its own delays; while a beacon runs in one, with its    *)
(* sensors and prints, the loop counts nothing, but the frame and the      *)
(* watchdog go on.                                                         *)
(***************************************************************************)
EXTENDS Integers, SequencesExt

CONSTANTS
    Param,          \* what the terminal can set: frequency, SF, power
    Value, Stored,  \* the values of a parameter; the one the flash holds
    AirTicks,       \* ticks a frame is on the air
    WatchdogTicks,  \* the 8 s of wdt_init
    SendTicks,      \* the 10 s after which radio_send gives up
    Beacons,        \* the beacon flag of the terminal is on
    BeaconTicks     \* bound: ticks that a beacon takes, with what runs in it

ASSUME SettingAssumption ==
    IsFiniteSet(Param) /\ Stored \in Value /\ Beacons \in BOOLEAN
ASSUME TickAssumption ==
    /\ AirTicks \in Nat \ {0} /\ WatchdogTicks \in Nat \ {0} /\ SendTicks \in Nat
    /\ WatchdogTicks < SendTicks
    /\ BeaconTicks \in Nat

Undefined == "undefined"   \* a register written outside standby

VARIABLES
    pc,      \* the stage of the loop, INIT while radio_init runs
    todo,    \* the SPI commands the running driver call has still to issue
    chip,    \* the SX1262
    stuck,   \* its BUSY line stays high
    pins,    \* what the RXEN and TXEN pins connect to the antenna
    failed,  \* radio_failed
    ok,      \* radio_ok: radio_init succeeded (SLME.radio_initialized)
    cur,     \* current_freq_hz, current_sf, current_tx_power
    queued,  \* a packet waits for the MAC layer
    waits,   \* iterations of the loop in radio_send
    dog,     \* ticks since the watchdog was kicked
    cut      \* history: a command changed the radio under this transmission

vars == <<pc, todo, chip, stuck, pins, failed, ok, cur, queued, waits, dog, cut>>

Flag == {"RX_DONE", "TX_DONE"}
Stage == {"INIT", "TOP", "USB", "TIMER", "IRQ", "MAC", "WAIT"}

----------------------------------------------------------------------------
(* Commands of the chip, and what each does to it. *)

Standby   == [op |-> "STANDBY"]
Rx        == [op |-> "RX"]
Tx        == [op |-> "TX"]
Mask(f)   == [op |-> "MASK", flags |-> f]
Clear(f)  == [op |-> "CLEAR", flags |-> f]
Set(p, v) == [op |-> "SET", param |-> p, value |-> v]
Plain     == [op |-> "PLAIN"]   \* a command that leaves no trace in this model

Command == {Standby, Rx, Tx, Plain}
           \cup {Mask({f}) : f \in Flag} \cup {Clear(f) : f \in {Flag, {"RX_DONE"}, {"TX_DONE"}}}
           \cup {Set(p, v) : p \in Param, v \in Value}

ChipState == [mode : {"STANDBY", "RX", "TX"}, mask : SUBSET Flag,
              flags : SUBSET Flag, air : 0 .. AirTicks,
              reg : [Param -> Value \cup {Undefined}]]

ResetChip == [mode |-> "STANDBY", mask |-> {}, flags |-> {}, air |-> 0,
              reg |-> [p \in Param |-> Undefined]]

\* Modulation, power and frequency are to be set in standby.
Obey(c, cmd) ==
    CASE cmd.op = "STANDBY" -> [c EXCEPT !.mode = "STANDBY"]
      [] cmd.op = "RX"      -> [c EXCEPT !.mode = "RX"]
      [] cmd.op = "TX"      -> [c EXCEPT !.mode = "TX", !.air = AirTicks]
      [] cmd.op = "MASK"    -> [c EXCEPT !.mask = cmd.flags]
      [] cmd.op = "CLEAR"   -> [c EXCEPT !.flags = @ \ cmd.flags]
      [] cmd.op = "SET"     -> [c EXCEPT !.reg[cmd.param] =
                                    IF c.mode = "STANDBY" THEN cmd.value ELSE Undefined]
      [] OTHER              -> c

\* The chip raises what the mask lets through.
Raise(c, f) == [c EXCEPT !.flags = @ \cup ({f} \cap c.mask)]

\* n ticks of a chip that transmits: the frame may be out.
AirTime(c, n) ==
    IF c.mode # "TX" THEN c
    ELSE IF c.air > n THEN [c EXCEPT !.air = @ - n]
    ELSE Raise([c EXCEPT !.mode = "STANDBY", !.air = 0], "TX_DONE")

----------------------------------------------------------------------------
(* Driver calls, as the commands they issue. *)

start_rx == <<Standby, Mask({"RX_DONE"}), Clear(Flag), Rx>>

radio_start_rx == IF ok THEN start_rx ELSE <<>>

StartTx_MaskKept == <<Standby, Clear(Flag)>>   \* mutated: the mask stays RX_DONE
StartTx == <<Standby, Mask({"TX_DONE"}), Clear(Flag)>>

\* radio_send up to its loop: start_tx, the buffer, the length, TX.
Send == StartTx \o <<Plain, Plain, Tx>>

\* radio_set_channel, radio_set_datarate, radio_set_tx_power.
SetRadio_InRx(p, v) == <<Set(p, v)>> \o radio_start_rx   \* mutated: no set_standby
SetRadio(p, v) == <<Standby, Set(p, v)>> \o radio_start_rx

\* The part of radio_init after the chip's reset, for the stored settings.
Load ==
    LET order == SetToSeq(Param) IN [i \in DOMAIN order |-> Set(order[i], Stored)]

InitCalls == <<Standby, Plain, Standby, Plain>> \o Load \o <<Plain>>

----------------------------------------------------------------------------
(* The processor starts: .bss is cleared, the chip is reset through NRST    *)
(* and radio_init begins.  A reset may free a chip that hangs.              *)

BootState ==
    /\ pc' = "INIT"
    /\ todo' = InitCalls
    /\ chip' = ResetChip
    /\ stuck' \in {FALSE, stuck}
    /\ pins' = "OFF"
    /\ failed' = FALSE
    /\ ok' = FALSE
    /\ cur' = [p \in Param |-> Stored]
    /\ queued' = FALSE
    /\ waits' = 0
    /\ dog' = 0
    /\ cut' = FALSE

Init ==
    /\ pc = "INIT"
    /\ todo = InitCalls
    /\ chip = ResetChip
    /\ stuck \in BOOLEAN
    /\ pins = "OFF"
    /\ failed = FALSE /\ ok = FALSE
    /\ cur = [p \in Param |-> Stored]
    /\ queued = FALSE /\ waits = 0 /\ dog = 0 /\ cut = FALSE

\* The antenna switch is set before the command, whether or not it is issued.
Switch(cmd) ==
    CASE cmd.op = "STANDBY" -> "OFF"
      [] cmd.op = "RX"      -> "RX"
      [] cmd.op = "TX"      -> "TX"
      [] OTHER              -> pins

\* wait_busy fails when the line is stuck, and for ever after it failed once.
wait_busy_fails == failed \/ stuck

\* write_command and its kin: the next command of the running call.
Issue ==
    /\ todo # <<>>
    /\ pins' = Switch(Head(todo))
    /\ failed' = wait_busy_fails
    /\ chip' = IF wait_busy_fails THEN chip ELSE Obey(chip, Head(todo))
    /\ todo' = Tail(todo)
    /\ UNCHANGED <<pc, stuck, ok, cur, queued, waits, dog, cut>>

\* radio_init returns.
InitDone ==
    /\ pc = "INIT" /\ todo = <<>>
    /\ ok' = ~ failed
    /\ todo' = IF failed THEN <<>> ELSE start_rx
    /\ pc' = "TOP"
    /\ UNCHANGED <<chip, stuck, pins, failed, cur, queued, waits, dog, cut>>

\* A terminal command, from the loop or from a print in the middle of radio_send.
SetCommand(p, v) ==
    /\ cur' = [cur EXCEPT ![p] = v]
    /\ todo' = SetRadio(p, v)

NoCommand == UNCHANGED <<cur, todo>>

At(s) == pc = s /\ todo = <<>>

Top ==
    /\ At("TOP")
    /\ dog' = 0
    /\ pc' = "USB"
    /\ UNCHANGED <<todo, chip, stuck, pins, failed, ok, cur, queued, waits, cut>>

Usb ==
    /\ At("USB")
    /\ NoCommand \/ \E p \in Param, v \in Value : SetCommand(p, v)
    /\ pc' = "TIMER"
    /\ UNCHANGED <<chip, stuck, pins, failed, ok, queued, waits, dog, cut>>

UsbReset == pc \in {"USB", "TIMER"} /\ BootState   \* the terminal's reset

AfterTimer == IF ok THEN "IRQ" ELSE "TOP"

\* timer_poll with no beacon due.
TimerIdle ==
    /\ At("TIMER")
    /\ pc' = AfterTimer
    /\ UNCHANGED <<todo, chip, stuck, pins, failed, ok, cur, queued, waits, dog, cut>>

\* beaconHandler queues a beacon and prints it; the print may bring a command.
TimerBeacon ==
    /\ At("TIMER") /\ Beacons
    /\ queued' = TRUE
    /\ NoCommand \/ \E p \in Param, v \in Value : SetCommand(p, v)
    /\ pc' = AfterTimer
    /\ UNCHANGED <<chip, stuck, pins, failed, ok, waits, dog, cut>>

\* get_irq_status: nothing when the wait for BUSY fails.
irq_status == IF wait_busy_fails THEN {} ELSE chip.flags

\* radio_irq_handler.  Reading the frame and the verdict on it are not modelled.
Irq ==
    /\ At("IRQ")
    /\ todo' = IF "RX_DONE" \in irq_status THEN <<Clear({"RX_DONE"}), Clear(Flag)>>
               ELSE IF "TX_DONE" \in irq_status THEN <<Clear({"TX_DONE"}), Clear(Flag)>>
               ELSE <<>>
    /\ pc' = "MAC"
    /\ UNCHANGED <<chip, stuck, pins, failed, ok, cur, queued, waits, dog, cut>>

\* mac_interface: carrier sense kicks the watchdog before every back-off and
\* before the transmission, then radio_send.
MacIdle ==
    /\ At("MAC") /\ ~ queued
    /\ pc' = "TOP"
    /\ UNCHANGED <<todo, chip, stuck, pins, failed, ok, cur, queued, waits, dog, cut>>

MacSend ==
    /\ At("MAC") /\ queued
    /\ queued' = FALSE
    /\ failed' = wait_busy_fails
    /\ dog' = 0
    /\ todo' = Send
    /\ waits' = 0
    /\ cut' = FALSE
    /\ pc' = "WAIT"
    /\ UNCHANGED <<chip, stuck, pins, ok, cur>>

Bitten == dog >= WatchdogTicks

\* Time passes in the loop, for the chip and for the watchdog.
Passes(n) ==
    /\ dog' = dog + n
    /\ chip' = IF stuck THEN chip ELSE AirTime(chip, n)

GivesUp_First == waits = 1   \* mutated: it gives up before the watchdog does
GivesUp == waits = SendTicks

\* One more iteration: no TX_DONE yet, a tick passes, a beacon may fall due in it,
\* take its own time, and bring a command with its print.
WaitTick ==
    /\ At("WAIT") /\ ~ GivesUp /\ "TX_DONE" \notin irq_status
    /\ failed' = wait_busy_fails
    /\ waits' = waits + 1
    /\ \/ Passes(1) /\ NoCommand /\ UNCHANGED <<queued, cut>>
       \/ /\ Beacons /\ queued' = TRUE
          /\ \E n \in 0 .. BeaconTicks : Passes(1 + n)
          /\ \/ NoCommand /\ cut' = cut
             \/ (\E p \in Param, v \in Value : SetCommand(p, v)) /\ cut' = TRUE
    /\ UNCHANGED <<pc, stuck, pins, ok>>

\* The loop ends, the receiver is switched on again.
WaitDone ==
    /\ At("WAIT") /\ (GivesUp \/ "TX_DONE" \in irq_status)
    /\ todo' = (IF GivesUp THEN <<>> ELSE <<Clear({"TX_DONE"})>>) \o radio_start_rx
    /\ pc' = "TOP"
    /\ UNCHANGED <<chip, stuck, pins, failed, ok, cur, queued, waits, dog, cut>>

WatchdogBites == Bitten /\ BootState

(* The chip. *)

FrameArrives ==
    /\ chip.mode = "RX" /\ ~ stuck
    /\ chip' = Raise(chip, "RX_DONE")
    /\ chip' # chip
    /\ UNCHANGED <<pc, todo, stuck, pins, failed, ok, cur, queued, waits, dog, cut>>

Hangs ==
    /\ stuck' = ~ stuck   \* it may also come to its senses
    /\ UNCHANGED <<pc, todo, chip, pins, failed, ok, cur, queued, waits, dog, cut>>

\* A processor that the watchdog has bitten does nothing but start again.
Runs == Issue \/ InitDone \/ Top \/ Usb \/ TimerIdle \/ TimerBeacon \/ Irq
        \/ MacIdle \/ MacSend \/ WaitTick \/ WaitDone
Processor == (~ Bitten /\ Runs) \/ WatchdogBites

Next == Processor \/ UsbReset \/ FrameArrives \/ Hangs

Spec == Init /\ [][Next]_vars

\* The loop runs on, and with the flag on a beacon falls due again and again.
FairSpec == Spec /\ WF_vars(Processor) /\ SF_vars(TimerBeacon)

----------------------------------------------------------------------------
(* Properties. *)

\* All variables stay within their types.
TypeOK ==
    /\ pc \in Stage
    /\ todo \in Seq(Command)
    /\ chip \in ChipState
    /\ stuck \in BOOLEAN /\ failed \in BOOLEAN /\ ok \in BOOLEAN
    /\ queued \in BOOLEAN /\ cut \in BOOLEAN
    /\ pins \in {"OFF", "RX", "TX"}
    /\ cur \in [Param -> Value]
    /\ waits \in 0 .. SendTicks /\ dog \in 0 .. WatchdogTicks + BeaconTicks

\* Whatever calls came before, and whichever of them was nested in which, a
\* driver that has not failed has the receiver on at the top of the loop, on
\* the antenna, with the interrupt the handler looks for, and runs with the
\* settings it reports in beacons and to the terminal.
ListensAsReported ==
    At("TOP") /\ ok /\ ~ failed =>
        /\ chip.mode = "RX" /\ "RX_DONE" \in chip.mask
        /\ pins = "RX"
        /\ chip.reg = cur

\* The ticks that beacons have taken in this transmission.
Nested == dog - waits

\* The watchdog bites in radio_send only if the chip hung, or a command changed the
\* radio in the middle of the transmission, or beacons that ran in its loop took all
\* the time that the frame leaves of the watchdog's period: the loop itself never
\* waits longer than a frame is on the air, so a healthy transmission by itself never
\* costs a reset.  (Nothing in the code bounds the time of those beacons.)
HealthyIsNotBitten ==
    Bitten => failed \/ cut \/ AirTicks + Nested >= WatchdogTicks

\* A node that has gone deaf because its radio hung restarts: its next beacon
\* waits for a TX_DONE that cannot come, longer than the watchdog allows
\* ("Recovers from any code path that hangs [...] including SX1262 BUSY hangs",
\* wdt_init).
DeafNodeRestarts == failed /\ ok ~> pc = "INIT"
=============================================================================
