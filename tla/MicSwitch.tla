----------------------------- MODULE MicSwitch -----------------------------
(***************************************************************************)
(* The microphone switch of the ESPHome API (internal/esphome/server.go,    *)
(* setMicLocked to micObserved).  Android offers a key and no setter, so    *)
(* the worker reads the mute, presses the key if it differs, waits for the  *)
(* press to settle and reads again.  What it settled on answers the next    *)
(* ask without a look at the device, until a poll sees something else.      *)
(*                                                                          *)
(* The device is external: a press through the clone toggles the mute, or   *)
(* is refused, and so does a finger on the button at any time.  The toggle  *)
(* of a press is taken to land within micSettle.                            *)
(***************************************************************************)
EXTENDS Naturals

CONSTANTS MicNone,      \* nothing asked or settled yet
          MicAsks,      \* bound: switch commands of a behaviour
          MicFaults     \* bound: fingers on the button, presses refused, failed reads

ASSUME MicAssumption == MicNone \notin BOOLEAN /\ {MicAsks, MicFaults} \subseteq Nat

VARIABLES muted,          \* the device's microphone mute
          micPending,     \* s.micPending
          micHasPending,  \* s.micHasPending
          micWorking,     \* s.micWorking
          micSettled,     \* s.micSettled
          micLive,        \* s.micLive
          micAt,          \* where micWorker is
          micWant,        \* the want it took
          micAsk,         \* history: the last ask
          micTouched,     \* history: a finger or a fault since that ask
          micLeft         \* budgets: asks and faults left

micVars == <<muted, micPending, micHasPending, micWorking, micSettled, micLive,
             micAt, micWant, micAsk, micTouched, micLeft>>

MicTypeOK ==
    /\ muted \in BOOLEAN
    /\ micPending \in BOOLEAN \cup {MicNone}
    /\ micHasPending \in BOOLEAN
    /\ micWorking \in BOOLEAN
    /\ micSettled \in BOOLEAN
    /\ micLive \in BOOLEAN \cup {MicNone}
    /\ micAt \in {"idle", "take", "read", "press", "back"}
    /\ micWant \in BOOLEAN \cup {MicNone}
    /\ micAsk \in BOOLEAN \cup {MicNone}
    /\ micTouched \in BOOLEAN
    /\ micLeft \in [asks : 0 .. MicAsks, faults : 0 .. MicFaults]

MicInit ==
    /\ muted \in BOOLEAN
    /\ micPending = MicNone
    /\ micHasPending = FALSE
    /\ micWorking = FALSE
    /\ micSettled = FALSE
    /\ micLive = MicNone
    /\ micAt = "idle"
    /\ micWant = MicNone
    /\ micAsk = MicNone
    /\ micTouched = FALSE
    /\ micLeft = [asks |-> MicAsks, faults |-> MicFaults]

----------------------------------------------------------------------------
(* A fault happens, within its budget.                                      *)
MicFault ==
    /\ micLeft.faults > 0
    /\ micLeft' = [micLeft EXCEPT !.faults = @ - 1]
    /\ micTouched' = TRUE

MicWell == UNCHANGED <<micLeft, micTouched>>

(* The ask is dropped when it repeats what is on its way, or what the       *)
(* worker settled on.                                                       *)
MicRepeats(want) ==
    IF micHasPending \/ micWorking THEN micPending = want
    ELSE micSettled /\ micLive = want

SetMicLocked(want) ==
    /\ micLeft.asks > 0
    /\ micLeft' = [micLeft EXCEPT !.asks = @ - 1]
    /\ micAsk' = want
    /\ IF MicRepeats(want)
       THEN UNCHANGED <<micPending, micHasPending, micWorking, micAt, micTouched>>
       ELSE /\ micPending' = want
            /\ micHasPending' = TRUE
            /\ micWorking' = TRUE
            /\ micAt' = IF micWorking THEN micAt ELSE "take"
            /\ micTouched' = FALSE
    /\ UNCHANGED <<muted, micSettled, micLive, micWant>>

MicTake ==
    /\ micAt = "take"
    /\ IF micHasPending
       THEN /\ micWant' = micPending
            /\ micHasPending' = FALSE
            /\ micAt' = "read"
            /\ UNCHANGED micWorking
       ELSE /\ micWorking' = FALSE
            /\ micAt' = "idle"
            /\ micWant' = MicNone
            /\ UNCHANGED micHasPending
    /\ UNCHANGED <<muted, micPending, micSettled, micLive, micAsk, micTouched, micLeft>>

(* setMic records how applyMic ended.                                       *)
MicRecord(settled) ==
    /\ micSettled' = settled
    /\ micLive' = IF settled THEN micWant ELSE micLive
    /\ micAt' = "take"

\* Slip: the worker takes what it settled on last for what the microphone is.
MicReadLive ==
    /\ micAt = "read"
    /\ \/ /\ micLive = micWant
          /\ MicRecord(TRUE)
          /\ MicWell
       \/ /\ micLive # micWant
          /\ micAt' = "press"
          /\ MicWell
          /\ UNCHANGED <<micSettled, micLive>>
       \/ MicRecord(FALSE) /\ MicFault
    /\ UNCHANGED <<muted, micPending, micHasPending, micWorking, micWant, micAsk>>

MicRead ==
    /\ micAt = "read"
    /\ \/ /\ muted = micWant
          /\ MicRecord(TRUE)
          /\ MicWell
       \/ /\ muted # micWant
          /\ micAt' = "press"
          /\ MicWell
          /\ UNCHANGED <<micSettled, micLive>>
       \/ MicRecord(FALSE) /\ MicFault
    /\ UNCHANGED <<muted, micPending, micHasPending, micWorking, micWant, micAsk>>

MicPress ==
    /\ micAt = "press"
    /\ \/ /\ muted' = ~muted
          /\ micAt' = "back"
          /\ MicWell
          /\ UNCHANGED <<micSettled, micLive>>
       \/ MicRecord(FALSE) /\ MicFault /\ UNCHANGED muted
    /\ UNCHANGED <<micPending, micHasPending, micWorking, micWant, micAsk>>

MicBack ==
    /\ micAt = "back"
    /\ \/ MicRecord(muted = micWant) /\ MicWell
       \/ MicRecord(FALSE) /\ MicFault
    /\ UNCHANGED <<muted, micPending, micHasPending, micWorking, micWant, micAsk>>

(* A poll read the mute a moment ago.                                       *)
MicObserved(read) ==
    /\ micSettled' = (micSettled /\ micLive = read)
    /\ UNCHANGED <<muted, micPending, micHasPending, micWorking, micLive, micAt,
                   micWant, micAsk, micTouched, micLeft>>

(* A finger on the button.                                                  *)
MicFinger ==
    /\ MicFault
    /\ muted' = ~muted
    /\ UNCHANGED <<micPending, micHasPending, micWorking, micSettled, micLive,
                   micAt, micWant, micAsk>>

(* The switch on its own: asks, fingers and readings come at any time.      *)
MicNext ==
    \/ \E want \in BOOLEAN : SetMicLocked(want)
    \/ MicTake \/ MicRead \/ MicPress \/ MicBack \/ MicFinger
    \/ \E read \in BOOLEAN : MicObserved(read)

MicSpec == MicInit /\ [][MicNext]_micVars

----------------------------------------------------------------------------
(* With no finger and no fault in it, the last ask is what the microphone   *)
(* ends at, however the asks fell into the worker's turns: the key only     *)
(* toggles, so one press too many would leave it the other way round.       *)
MicEndsAsAsked ==
    (micAsk # MicNone /\ ~micWorking /\ ~micTouched) => muted = micAsk
=============================================================================
