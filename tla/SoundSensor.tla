---------------------------- MODULE SoundSensor ----------------------------
(***************************************************************************)
(* The "speaker playing" sensor (internal/esphome/state.go, readSound and   *)
(* forgetSound): what the device says at each look, debounced both ways.    *)
(* Times are counted in live ticks before the last look, up to the delay    *)
(* they are compared with.                                                  *)
(***************************************************************************)
EXTENDS Naturals

CONSTANTS SoundOnDelay,   \* SoundOnDelay, in live ticks
          SoundOffDelay,  \* SoundOffDelay, in live ticks
          SoundGap,       \* soundGap: looks further apart show nothing between
          NoTime,         \* the zero time.Time
          SoundFlips      \* bound: changes of what plays, failed and late looks

ASSUME SoundAssumption ==
    /\ SoundOnDelay \in Nat /\ SoundOffDelay \in Nat /\ SoundGap \in Nat \ {0}
    /\ SoundFlips \in Nat
    /\ NoTime \notin Nat

VARIABLES heard,          \* the device plays
          soundOn,        \* s.soundOn
          soundSince,     \* s.soundSince, as an age
          soundLastOn,    \* s.soundLastOn, as an age
          soundSeen,      \* s.soundSeen is set
          soundLeft       \* budget: flips, failures and late looks left

soundVars == <<heard, soundOn, soundSince, soundLastOn, soundSeen, soundLeft>>

SoundTypeOK ==
    /\ {heard, soundOn, soundSeen} \subseteq BOOLEAN
    /\ soundSince \in 0 .. SoundOnDelay \cup {NoTime}
    /\ soundLastOn \in 0 .. SoundOffDelay \cup {NoTime}
    /\ soundLeft \in 0 .. SoundFlips

SoundInit ==
    /\ heard = FALSE
    /\ soundOn = FALSE
    /\ soundSeen = FALSE
    /\ soundSince = NoTime
    /\ soundLastOn = NoTime
    /\ soundLeft = SoundFlips

SoundFlip ==
    /\ soundLeft > 0
    /\ soundLeft' = soundLeft - 1
    /\ heard' = ~heard
    /\ UNCHANGED <<soundOn, soundSince, soundLastOn, soundSeen>>

Aged(time, ticks, most) ==
    IF time = NoTime THEN NoTime ELSE IF time + ticks > most THEN most ELSE time + ticks

(* A look that comes `ticks` after the one before: a gap between the two    *)
(* starts the on delay again, and the off delay from here.                  *)
ReadSound(ticks) ==
    LET gapped == soundSeen /\ ticks > SoundGap
        since  == IF gapped THEN NoTime ELSE Aged(soundSince, ticks, SoundOnDelay)
        lastOn == IF gapped THEN 0 ELSE Aged(soundLastOn, ticks, SoundOffDelay)
        late   == ticks > SoundGap
    IN /\ late => soundLeft > 0
       /\ soundLeft' = IF late THEN soundLeft - 1 ELSE soundLeft
       /\ soundSeen' = TRUE
       /\ soundSince' = IF ~heard THEN NoTime ELSE IF since = NoTime THEN 0 ELSE since
       /\ soundLastOn' = IF heard THEN 0 ELSE lastOn
       /\ soundOn' = IF heard THEN soundOn \/ soundSince' = SoundOnDelay
                     ELSE soundOn /\ lastOn \in 0 .. SoundOffDelay - 1
       /\ UNCHANGED heard

(* A look that fails, and is published as missing.                          *)
ReadNoSound(ticks) ==
    /\ soundLeft > 0
    /\ soundLeft' = soundLeft - 1
    /\ soundSeen' = TRUE
    /\ soundSince' = NoTime
    /\ soundLastOn' = Aged(soundLastOn, ticks, SoundOffDelay)
    /\ UNCHANGED <<heard, soundOn>>

ForgetSound ==
    /\ soundOn' = FALSE
    /\ soundSeen' = FALSE
    /\ soundSince' = NoTime
    /\ soundLastOn' = NoTime
    /\ UNCHANGED <<heard, soundLeft>>
=============================================================================
