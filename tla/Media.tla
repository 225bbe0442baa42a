------------------------------- MODULE Media --------------------------------
(***************************************************************************)
(* The volume and the mute of the ESPHome API's media player                *)
(* (internal/esphome/media.go, SetSpeakerMute to applyVolume): two workers, *)
(* each with room for one want.  A newer mute replaces an older one; a step *)
(* that finds a want waiting adds to it, an absolute level replaces it.     *)
(* The device is external: the level has VolMax steps, and the Dot's own    *)
(* keys move it too.                                                        *)
(***************************************************************************)
EXTENDS Integers

CONSTANTS VolMax,       \* MusicVolume.Max
          VolAsks,      \* bound: commands of a behaviour
          VolFaults     \* bound: reads and sets that fail, key presses

ASSUME MediaAssumption == VolMax \in Nat \ {0} /\ {VolAsks, VolFaults} \subseteq Nat

VARIABLES level,          \* the device's step
          volWant,        \* s.volWant
          volHasPending,  \* s.volHasPending
          volWorking,     \* s.volWorking
          volAt,          \* where volumeWorker is
          volJob,         \* the want it took
          volTarget,      \* the step it sets
          silenced,       \* the device's stream mute
          muteWant,       \* s.muteWant
          muteHasPending, \* s.muteHasPending
          muteAt,         \* where muteWorker is; not "idle" is s.muteWorking
          muteJob,        \* the mute it took
          volDue,         \* history: what the asks add up to
          volOff,         \* history: a fault, a key or the end of the scale
          volLeft         \* budgets: asks and faults left

volVars == <<level, volWant, volHasPending, volWorking, volAt, volJob, volTarget,
             silenced, muteWant, muteHasPending, muteAt, muteJob, volDue, volOff, volLeft>>

Levels == 0 .. VolMax
Wants == [absolute : BOOLEAN, base : Levels, steps : -VolAsks .. VolAsks]

VolTypeOK ==
    /\ level \in Levels
    /\ {volWant, volJob} \subseteq Wants
    /\ {volHasPending, volWorking, silenced, muteWant, muteHasPending, muteJob, volOff} \subseteq BOOLEAN
    /\ volAt \in {"idle", "take", "read", "set"}
    /\ volTarget \in Levels
    /\ muteAt \in {"idle", "take", "set"}
    /\ volDue \in Int
    /\ volLeft \in [asks : 0 .. VolAsks, faults : 0 .. VolFaults]

Nothing == [absolute |-> FALSE, base |-> 0, steps |-> 0]

VolInit ==
    /\ level \in Levels
    /\ volWant = Nothing
    /\ volJob = Nothing
    /\ volHasPending = FALSE
    /\ volWorking = FALSE
    /\ silenced = FALSE
    /\ muteWant = FALSE
    /\ muteHasPending = FALSE
    /\ muteJob = FALSE
    /\ volOff = FALSE
    /\ volAt = "idle"
    /\ volTarget = 0
    /\ muteAt = "idle"
    /\ volDue = level
    /\ volLeft = [asks |-> VolAsks, faults |-> VolFaults]

----------------------------------------------------------------------------
VolAsk ==
    /\ volLeft.asks > 0
    /\ volLeft' = [volLeft EXCEPT !.asks = @ - 1]

VolFault ==
    /\ volLeft.faults > 0
    /\ volLeft' = [volLeft EXCEPT !.faults = @ - 1]
    /\ volOff' = TRUE

muteVars == <<silenced, muteWant, muteHasPending, muteAt, muteJob>>

\* Slip: a step replaces the want it finds waiting.
Replaced(want) == want

(* queueVolumeLocked.                                                       *)
Joined(want) ==
    IF volHasPending /\ ~want.absolute
    THEN [volWant EXCEPT !.steps = @ + want.steps]
    ELSE want

QueueVolume(want) ==
    /\ VolAsk
    /\ volWant' = Joined(want)
    /\ volHasPending' = TRUE
    /\ volWorking' = TRUE
    /\ volAt' = IF volWorking THEN volAt ELSE "take"
    /\ volDue' = (IF want.absolute THEN want.base
                  ELSE IF volWorking THEN volDue ELSE level) + want.steps
    /\ volOff' = (volOff /\ volWorking)
    /\ UNCHANGED <<level, volJob, volTarget, muteVars>>

SetLevel(base) == QueueVolume([absolute |-> TRUE, base |-> base, steps |-> 0])
StepLevel(steps) == QueueVolume([absolute |-> FALSE, base |-> 0, steps |-> steps])

VolTake ==
    /\ volAt = "take"
    /\ IF volHasPending
       THEN volJob' = volWant /\ volAt' = "read" /\ UNCHANGED volWorking
       ELSE volWorking' = FALSE /\ volAt' = "idle" /\ volJob' = Nothing
    /\ volHasPending' = FALSE
    /\ volTarget' = 0
    /\ UNCHANGED <<level, volWant, muteVars, volDue, volOff, volLeft>>

Target == (IF volJob.absolute THEN volJob.base ELSE level) + volJob.steps
Clamped(step) == IF step < 0 THEN 0 ELSE IF step > VolMax THEN VolMax ELSE step

(* applyVolume: a level that cannot be read ends it, one that is there      *)
(* already sets nothing.                                                    *)
VolRead ==
    /\ volAt = "read"
    /\ \/ /\ volTarget' = Clamped(Target)
          /\ volAt' = IF volTarget' = level THEN "take" ELSE "set"
          /\ volOff' = (volOff \/ volTarget' # Target)
          /\ UNCHANGED volLeft
       \/ volAt' = "take" /\ VolFault /\ UNCHANGED volTarget
    /\ UNCHANGED <<level, volWant, volHasPending, volWorking, volJob, muteVars, volDue>>

(* setStep; its read back is only logged.                                   *)
VolSet ==
    /\ volAt = "set"
    /\ volAt' = "take"
    /\ \/ level' = volTarget /\ UNCHANGED <<volOff, volLeft>>
       \/ VolFault /\ UNCHANGED level
    /\ UNCHANGED <<volWant, volHasPending, volWorking, volJob, volTarget, muteVars,
                   volDue>>

(* A key of the Dot.                                                        *)
VolKey ==
    /\ VolFault
    /\ level' \in Levels \ {level}
    /\ UNCHANGED <<volWant, volHasPending, volWorking, volAt, volJob, volTarget, muteVars,
                   volDue>>

(* queueMuteLocked, from the API or from a Sendspin server.                 *)
QueueMute(on) ==
    /\ VolAsk
    /\ muteWant' = on
    /\ muteHasPending' = TRUE
    /\ muteAt' = IF muteAt = "idle" THEN "take" ELSE muteAt
    /\ UNCHANGED <<level, volWant, volHasPending, volWorking, volAt, volJob, volTarget,
                   silenced, muteJob, volDue, volOff>>

MuteTake ==
    /\ muteAt = "take"
    /\ muteAt' = IF muteHasPending THEN "set" ELSE "idle"
    /\ muteJob' = (muteHasPending /\ muteWant)
    /\ muteHasPending' = FALSE
    /\ UNCHANGED <<level, volWant, volHasPending, volWorking, volAt, volJob, volTarget,
                   silenced, muteWant, volDue, volOff, volLeft>>

(* setSpeakerMute, taken to land (MuteGuard has what can go wrong in it).   *)
MuteSet ==
    /\ muteAt = "set"
    /\ muteAt' = "take"
    /\ silenced' = muteJob
    /\ UNCHANGED <<level, volWant, volHasPending, volWorking, volAt, volJob, volTarget,
                   muteWant, muteHasPending, muteJob, volDue, volOff, volLeft>>

(* The two on their own.                                                    *)
VolNext ==
    \/ \E base \in Levels : SetLevel(base)
    \/ \E steps \in {-1, 1} : StepLevel(steps)
    \/ VolTake \/ VolRead \/ VolSet \/ VolKey
    \/ \E on \in BOOLEAN : QueueMute(on)
    \/ MuteTake \/ MuteSet

VolSpec == VolInit /\ [][VolNext]_volVars

----------------------------------------------------------------------------
(* No step is lost and none is taken twice, however the asks fall into the  *)
(* worker's turns: the level ends at the last absolute one asked for and    *)
(* the steps asked for since, unless something failed, a key was pressed or *)
(* the scale ended; and the last of several mutes is the one that stays.    *)
VolumeAddsUp ==
    /\ ~volWorking /\ ~volOff => level = volDue
    /\ muteAt = "idle" => silenced = muteWant
=============================================================================
