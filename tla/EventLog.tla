------------------------------ MODULE EventLog ------------------------------
(***************************************************************************)
(* The boot log in the first sector of the external flash (event_log.c on  *)
(* ext_flash.c).                                                           *)
(*                                                                         *)
(* Flash bits are only ever cleared by programming and only ever set by an *)
(* erase of the whole sector.  So a slot is what has been programmed into  *)
(* it since its last erase: the state of its magic word, the records whose *)
(* bits are in it, and whether one of them is there in part only.  Two     *)
(* records programmed into one slot leave the bits both of them have.      *)
(***************************************************************************)
EXTENDS Naturals, Sequences

CONSTANT EVENT_LOG_REC_COUNT   \* slots of the sector (128)

ASSUME LogAssumption == EVENT_LOG_REC_COUNT \in Nat \ {0}

\* A magic word: erased, programmed in part, EVENT_LOG_MAGIC, or with a bit
\* cleared that EVENT_LOG_MAGIC has set.
Magic == {"ERASED", "PART", "MAGIC", "JUNK"}

SlotOf(Record) == [magic : Magic, records : SUBSET Record, torn : BOOLEAN]

ErasedSlot == [magic |-> "ERASED", records |-> {}, torn |-> FALSE]
ErasedLog  == [i \in 1 .. EVENT_LOG_REC_COUNT |-> ErasedSlot]

\* event_log_init: the first slot without the magic word is the next to write,
\* whatever is in it; s_head and s_count are the number of slots before it.
Scan_ErasedOnly(log) ==   \* mutated: a slot programmed in part is passed over
    CHOOSE n \in 0 .. EVENT_LOG_REC_COUNT :
        /\ \A i \in 1 .. n : log[i].magic # "ERASED"
        /\ n < EVENT_LOG_REC_COUNT => log[n + 1].magic = "ERASED"

Scan(log) ==
    CHOOSE n \in 0 .. EVENT_LOG_REC_COUNT :
        /\ \A i \in 1 .. n : log[i].magic = "MAGIC"
        /\ n < EVENT_LOG_REC_COUNT => log[n + 1].magic # "MAGIC"

\* `get log` reads slots up to the first without the magic word.
Listed(log) ==
    CHOOSE n \in 0 .. EVENT_LOG_REC_COUNT :
        /\ \A i \in 1 .. n : log[i].magic = "MAGIC"
        /\ n < EVENT_LOG_REC_COUNT => log[n + 1].magic # "MAGIC"

\* A slot after a record was programmed into it, and what it may be when power
\* fails meanwhile.
Programmed(s, r) ==
    [magic   |-> IF s.magic = "JUNK" THEN "JUNK" ELSE "MAGIC",
     records |-> s.records \cup {r},
     torn    |-> s.torn]

TornProgram(s, r) ==
    {[magic |-> m, records |-> s.records \cup {r}, torn |-> TRUE] :
        m \in IF s.magic \in {"JUNK", "MAGIC"} THEN {s.magic} ELSE {s.magic, "PART", "MAGIC"}}
    \cup {s}

\* What a sector may be when power fails during its erase: any slot may be
\* erased, left, or hold bits of neither.
TornErase(log) ==
    {[i \in 1 .. EVENT_LOG_REC_COUNT |->
        IF i \in e THEN ErasedSlot ELSE IF i \in j THEN [log[i] EXCEPT !.magic = "JUNK"] ELSE log[i]]
     : e, j \in SUBSET (1 .. EVENT_LOG_REC_COUNT)}

\* event_log_append with s_head = head: a full sector is erased first.
IsFull(head) == head >= EVENT_LOG_REC_COUNT

Before(log, head) == IF IsFull(head) THEN ErasedLog ELSE log
Next1(head)       == IF IsFull(head) THEN 1 ELSE head + 1

Appended(log, head, r) == [Before(log, head) EXCEPT ![Next1(head)] = Programmed(@, r)]

\* ... and cut short while it programs.
TornAppend(log, head, r) ==
    {[Before(log, head) EXCEPT ![Next1(head)] = s] :
        s \in TornProgram(Before(log, head)[Next1(head)], r)}
=============================================================================
