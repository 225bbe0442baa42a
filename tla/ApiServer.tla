----------------------------- MODULE ApiServer -----------------------------
(***************************************************************************)
(* The ESPHome API server: the connections, the commands they bring, the    *)
(* workers that carry those out and the two polls that read the device      *)
(* (internal/esphome/state.go, PollLive and PollSensors) and publish what   *)
(* they read.  A worker that is through, a change of what plays and the     *)
(* first subscriber wake a poll, through a channel that holds one token.    *)
(*                                                                          *)
(* One behaviour exercises one facility, `focus`, with the connections and  *)
(* the poll that reads it: the facilities meet nowhere else, so a behaviour *)
(* of several is one of each side by side.  Readings are numbers, as they   *)
(* are on the wire.                                                         *)
(***************************************************************************)
EXTENDS Connections, MicSwitch, AdbSwitch, Media, Commands, Playback, SoundSensor

CONSTANTS Foci,           \* bound: the facilities a run exercises
          HeavyEvery      \* HeavyEvery: live ticks from one full reading to the next

(* What the device can be and what a command can say are readings.          *)
ASSUME ServerAssumption ==
    /\ HeavyEvery \in Nat \ {0}
    /\ 0 .. 4 * VolMax + 3 \subseteq Values /\ Texts \subseteq Values

VARIABLES focus,          \* the facility of this behaviour
          liveAt,         \* where PollLive is
          liveWoken,      \* its local `woken`
          liveWatched,    \* its local `watched`
          liveTicks,      \* its local `ticks`, modulo HeavyEvery
          liveRead,       \* what it has read and not published
          liveWake,       \* a token in s.liveWake
          sensorAt,       \* where PollSensors is
          sensorRead,     \* what it has read and not published
          sensorWake      \* a token in s.sensorWake

liveVars == <<liveAt, liveWoken, liveWatched, liveTicks, liveRead>>
sensorVars == <<sensorAt, sensorRead>>
wakes == <<liveWake, sensorWake>>
pollVars == <<liveVars, sensorVars, wakes>>
facilityVars == <<micVars, adbVars, volVars, cmdVars, playVars, soundVars>>
vars == <<focus, connVars, facilityVars, pollVars>>

LiveFoci == {"clients", "press", "sound", "mic", "mute"}

TypeOK ==
    /\ ConnTypeOK /\ MicTypeOK /\ AdbTypeOK /\ VolTypeOK /\ CmdTypeOK /\ PlayTypeOK /\ SoundTypeOK
    /\ focus \in Foci
    /\ liveAt \in {"look", "forget", "read", "observe", "publish", "wait"}
    /\ {liveWoken, liveWatched, liveWake, sensorWake} \subseteq BOOLEAN
    /\ liveTicks \in 0 .. HeavyEvery - 1
    /\ {liveRead, sensorRead} \subseteq Values \cup {None}
    /\ sensorAt \in {"busy", "hold", "read", "observe", "publish", "wait"}

(* What a behaviour does not exercise is as the daemon starts it.  Muted or *)
(* not at the start is the same, the other way round.                       *)
Init ==
    /\ focus \in Foci
    /\ ConnInit /\ MicInit /\ AdbInit /\ VolInit /\ CmdInit /\ PlayInit /\ SoundInit
    /\ ~muted
    /\ focus # "adb" => ~adbPort
    /\ focus # "volume" => level = 0
    /\ liveAt = "look"
    /\ liveWoken = FALSE
    /\ liveWatched = FALSE
    /\ liveWake = FALSE
    /\ sensorWake = FALSE
    /\ liveTicks = 0
    /\ liveRead = None
    /\ sensorRead = None
    /\ sensorAt = "busy"

----------------------------------------------------------------------------
(* The readings.                                                            *)
Bit(b) == IF b THEN 1 ELSE 0
ADBMode(mode) == CASE mode = "Off" -> 0 [] mode = "Insecure" -> 1 [] OTHER -> 2

Key == CASE focus = "adb" -> "network_adb"
         [] focus \in {"volume", "mute", "play"} -> "speaker"
         [] focus = "sound" -> "speaker_playing"
         [] focus = "command" -> "alexa_command"
         [] OTHER -> "microphone_muted"

(* What the device is now.                                                  *)
Real == CASE focus = "adb" -> ADBMode(AdbMode)
          [] focus \in {"volume", "mute", "play"} -> 4 * level + 2 * Bit(silenced) + Bit(playing)
          [] focus = "sound" -> Bit(heard)
          [] OTHER -> Bit(muted)

(* A look that failed is published as missing.                              *)
Missing == 2

PublishRead(read) == Publish([k \in {Key} |-> read])

----------------------------------------------------------------------------
(* PollLive.                                                                *)
AnyStateSubscriber == \E c \in conns : states[c]

(* A wake within wakeGap of the last reading reads nothing.                 *)
LiveLook ==
    /\ liveAt = "look"
    /\ liveWatched' = AnyStateSubscriber
    /\ \/ AnyStateSubscriber /\ liveAt' = "read"
       \/ AnyStateSubscriber /\ liveWoken /\ liveAt' = "wait"
       \/ ~AnyStateSubscriber /\ liveAt' = IF liveWatched THEN "forget" ELSE "wait"
    /\ UNCHANGED <<focus, connVars, facilityVars, liveWoken, liveTicks, liveRead,
                   sensorVars, wakes>>

LiveForget ==
    /\ liveAt = "forget"
    /\ liveAt' = "wait"
    /\ ForgetSound
    /\ Forget("speaker_playing")
    /\ UNCHANGED <<focus, micVars, adbVars, volVars, cmdVars, playVars, liveWoken,
                   liveWatched, liveTicks, liveRead, sensorVars, wakes>>

Heavy == liveWoken \/ liveTicks = 0

(* A look for sound, every time, ...                                        *)
LiveReadSound ==
    /\ focus = "sound"
    /\ liveAt = "read"
    /\ liveAt' = "publish"
    /\ \/ \E ticks \in 1 .. SoundGap + 1 : ReadSound(ticks) /\ liveRead' = Bit(soundOn')
       \/ \E ticks \in 1 .. SoundGap + 1 : ReadNoSound(ticks) /\ liveRead' = Missing
    /\ UNCHANGED <<focus, connVars, micVars, adbVars, volVars, cmdVars, playVars,
                   liveWoken, liveWatched, liveTicks, sensorVars, wakes>>

\* Slip: only a look that reads counts as one of the ticks.
LiveReadSeldom ==
    /\ focus # "sound"
    /\ liveAt = "read"
    /\ IF Heavy THEN liveAt' = "observe" /\ liveRead' = Real
       ELSE liveAt' = "wait" /\ UNCHANGED liveRead
    /\ UNCHANGED <<focus, connVars, facilityVars, liveWoken, liveWatched, liveTicks,
                   sensorVars, wakes>>

(* ... and the rest when woken or every few ticks.                          *)
LiveReadRest ==
    /\ focus # "sound"
    /\ liveAt = "read"
    /\ IF Heavy THEN liveAt' = "observe" /\ liveRead' = Real /\ UNCHANGED liveTicks
       ELSE /\ liveAt' = "wait"
            /\ liveTicks' = (liveTicks + 1) % HeavyEvery
            /\ UNCHANGED liveRead
    /\ UNCHANGED <<focus, connVars, facilityVars, liveWoken, liveWatched, sensorVars,
                   wakes>>

LiveObserve ==
    /\ liveAt = "observe"
    /\ liveAt' = "publish"
    /\ IF Key = "microphone_muted" THEN MicObserved(liveRead = 1) ELSE UNCHANGED micVars
    /\ UNCHANGED <<focus, connVars, adbVars, volVars, cmdVars, playVars, soundVars,
                   liveWoken, liveWatched, liveTicks, liveRead, sensorVars, wakes>>

LivePublish ==
    /\ liveAt = "publish"
    /\ liveAt' = "wait"
    /\ PublishRead(liveRead)
    /\ liveTicks' = (liveTicks + 1) % HeavyEvery
    /\ liveRead' = None
    /\ UNCHANGED <<focus, facilityVars, liveWoken, liveWatched, sensorVars, wakes>>

LiveTick ==
    /\ liveAt = "wait"
    /\ liveAt' = "look"
    /\ liveWoken' = FALSE
    /\ UNCHANGED <<focus, connVars, facilityVars, liveWatched, liveTicks, liveRead,
                   sensorVars, wakes>>

LiveWoken ==
    /\ liveAt = "wait"
    /\ liveWake
    /\ liveAt' = "look"
    /\ liveWoken' = TRUE
    /\ liveWake' = FALSE
    /\ UNCHANGED <<focus, connVars, facilityVars, liveWatched, liveTicks, liveRead,
                   sensorVars, sensorWake>>

LiveWork == LiveLook \/ LiveForget \/ LiveReadSound \/ LiveReadRest \/ LiveObserve \/ LivePublish

----------------------------------------------------------------------------
(* PollSensors.  It looks whether the switch is busy and holds the port     *)
(* open in two steps.                                                       *)
SensorBusy ==
    /\ sensorAt = "busy"
    /\ sensorAt' = IF AdbBusy THEN "read" ELSE "hold"
    /\ UNCHANGED <<focus, connVars, facilityVars, liveVars, sensorRead, wakes>>

SensorHold ==
    /\ sensorAt = "hold"
    /\ sensorAt' = "read"
    /\ HoldADBOpen
    /\ UNCHANGED <<focus, connVars, micVars, volVars, cmdVars, playVars, soundVars,
                   liveVars, sensorRead, wakes>>

SensorRead ==
    /\ sensorAt = "read"
    /\ sensorAt' = "observe"
    /\ sensorRead' = Real
    /\ UNCHANGED <<focus, connVars, facilityVars, liveVars, wakes>>

SensorObserve ==
    /\ sensorAt = "observe"
    /\ sensorAt' = "publish"
    /\ \E mode \in AdbModes : ADBMode(mode) = sensorRead /\ AdbObserved(mode)
    /\ UNCHANGED <<focus, connVars, micVars, volVars, cmdVars, playVars, soundVars,
                   liveVars, sensorRead, wakes>>

SensorPublish ==
    /\ sensorAt = "publish"
    /\ sensorAt' = "wait"
    /\ sensorRead' = None
    /\ PublishRead(sensorRead)
    /\ UNCHANGED <<focus, facilityVars, liveVars, wakes>>

SensorTick ==
    /\ sensorAt = "wait"
    /\ sensorAt' = "busy"
    /\ UNCHANGED <<focus, connVars, facilityVars, liveVars, sensorRead, wakes>>

SensorWoken ==
    /\ sensorAt = "wait"
    /\ sensorWake
    /\ sensorAt' = "busy"
    /\ sensorWake' = FALSE
    /\ UNCHANGED <<focus, connVars, facilityVars, liveVars, sensorRead, liveWake>>

SensorWork == SensorBusy \/ SensorHold \/ SensorRead \/ SensorObserve \/ SensorPublish

----------------------------------------------------------------------------
(* The clients.  Only "press" goes through all of a connection's life, and  *)
(* only "clients" has more than one and loses them.  There are watchers     *)
(* where PollLive runs, and there who asks watches.                         *)
Client(c) == focus = "clients" \/ c = CHOOSE first \in Conns : TRUE

Connect(c) == Accept(c) \/ HandshakeDone(c) \/ WriteFrame(c)

Lost(c) == ReadFails(c) \/ Unlist(c) \/ CloseOut(c) \/ Ended(c)

ClientStep(c) ==
    /\ Client(c)
    /\ \/ Connect(c)
       \/ focus \in {"clients", "sound"} /\ Lost(c)
       \/ focus = "press" /\ ConnStep(c)
    /\ UNCHANGED <<focus, facilityVars, pollVars>>

(* The first who wants states has both polls read at once.                  *)
ClientSubscribes(c) ==
    /\ Client(c) /\ focus \in LiveFoci
    /\ SubscribeStates(c)
    /\ LET first == Fits(c, Cardinality(Told)) /\ ~states[c] /\ ~\E d \in conns \ {c} : states[d]
       IN /\ liveWake' = (liveWake \/ first)
          /\ sensorWake' = (sensorWake \/ first)
    /\ UNCHANGED <<focus, facilityVars, liveVars, sensorVars>>

Asks(c) ==
    /\ Client(c) /\ focus \in LiveFoci => states[c]
    /\ Command(c)
    /\ \/ /\ focus = "mic"
          /\ \E want \in BOOLEAN : SetMicLocked(want)
          /\ UNCHANGED <<adbVars, volVars, cmdVars, playVars>>
       \/ /\ focus = "adb"
          /\ \E want \in AdbModes : SetADBLocked(want)
          /\ UNCHANGED <<micVars, volVars, cmdVars, playVars>>
       \/ /\ focus = "volume"
          /\ \/ \E base \in Levels : SetLevel(base)
             \/ \E steps \in {-1, 1} : StepLevel(steps)
          /\ UNCHANGED <<micVars, adbVars, cmdVars, playVars>>
       \/ /\ focus = "mute"
          /\ \E on \in BOOLEAN : QueueMute(on)
          /\ UNCHANGED <<micVars, adbVars, cmdVars, playVars>>
       \/ /\ focus = "command"
          /\ \E text \in Texts : CommandLocked(text)
          /\ UNCHANGED <<micVars, adbVars, volVars, playVars>>
       \/ /\ focus = "play"
          /\ PlayLocked
          /\ UNCHANGED <<micVars, adbVars, volVars, cmdVars>>
    /\ UNCHANGED <<focus, soundVars, pollVars>>

Pressed ==
    /\ focus = "press"
    /\ FirePress
    /\ UNCHANGED <<focus, facilityVars, pollVars>>

----------------------------------------------------------------------------
(* The workers and the device, with the wake at the end of a turn.          *)
MicWork == MicTake \/ MicRead \/ MicPress \/ MicBack
MicStep ==
    /\ \/ focus = "mic" /\ (MicWork \/ MicFinger)
       \/ focus = "clients" /\ MicFinger
    /\ liveWake' = (liveWake \/ (micAt' = "take" /\ micAt # "take"))
    /\ UNCHANGED <<focus, connVars, adbVars, volVars, cmdVars, playVars, soundVars,
                   liveVars, sensorVars, sensorWake>>

AdbWork == AdbTake \/ SetCall \/ AdbRead \/ AdbShut \/ AdbRecord
AdbStep ==
    /\ focus = "adb"
    /\ AdbWork \/ AdbdRestarts \/ AdbRuleLost
    /\ sensorWake' = (sensorWake \/ (adbAt' = "take" /\ adbAt # "take"))
    /\ UNCHANGED <<focus, connVars, micVars, volVars, cmdVars, playVars, soundVars,
                   liveVars, sensorVars, liveWake>>

VolWork == VolTake \/ VolRead \/ VolSet
MuteWork == MuteTake \/ MuteSet
VolStep ==
    /\ \/ focus = "volume" /\ (VolWork \/ VolKey)
       \/ focus = "mute" /\ MuteWork
    /\ liveWake' = (liveWake \/ (volAt' = "take" /\ volAt # "take")
                             \/ (muteAt' = "take" /\ muteAt # "take"))
    /\ UNCHANGED <<focus, connVars, micVars, adbVars, cmdVars, playVars, soundVars,
                   liveVars, sensorVars, sensorWake>>

PlayStep ==
    /\ focus = "play"
    /\ PlayWork \/ Watch \/ Alexa \/ AlexaSpeaks \/ LineLost
    /\ liveWake' = (liveWake \/ playing' # playing)
    /\ UNCHANGED <<focus, connVars, micVars, adbVars, volVars, cmdVars, soundVars,
                   liveVars, sensorVars, sensorWake>>

(* A command box that says what runs is published.                          *)
CmdStep ==
    /\ focus = "command"
    /\ \E w \in Workers :
         \/ TakeCommand(w) /\ UNCHANGED connVars
         \/ ShowCommand(w) /\ PublishRead(cmdText[w])
         \/ SendCommand(w) /\ UNCHANGED connVars
    /\ UNCHANGED <<focus, micVars, adbVars, volVars, playVars, soundVars, pollVars>>

(* A player or a credential was found: everyone lists again, and the box is *)
(* told to be empty.                                                        *)
FoundPlayer ==
    /\ focus \in {"play", "press"}
    /\ UsePlay
    /\ Relist
    /\ UNCHANGED <<focus, micVars, adbVars, volVars, cmdVars, soundVars, pollVars>>

FoundCommand ==
    /\ focus = "command"
    /\ UseCommand
    /\ RelistWith([published EXCEPT !["alexa_command"] = IF @ = None THEN Empty ELSE @])
    /\ UNCHANGED <<focus, micVars, adbVars, volVars, playVars, soundVars, pollVars>>

SoundStep ==
    /\ focus = "sound"
    /\ SoundFlip
    /\ UNCHANGED <<focus, connVars, micVars, adbVars, volVars, cmdVars, playVars,
                   pollVars>>

----------------------------------------------------------------------------
(* One step of the poll that reads for the facility.                        *)
Polls(live, sensors) ==
    \/ focus \in LiveFoci /\ live
    \/ focus = "adb" /\ sensors

Next ==
    \/ \E c \in Conns : ClientStep(c) \/ ClientSubscribes(c) \/ Asks(c)
    \/ Pressed
    \/ MicStep \/ AdbStep \/ VolStep \/ PlayStep \/ CmdStep \/ SoundStep
    \/ FoundPlayer \/ FoundCommand
    \/ Polls(LiveWork \/ LiveTick \/ LiveWoken, SensorWork \/ SensorTick \/ SensorWoken)

(* Workers and polls are goroutines that go on; a tick is not passed over   *)
(* for a wake for ever, as select takes either.  Alexa plays what she has   *)
(* and ends it.  Nothing is assumed of a client or of the network.          *)
Fairness ==
    /\ WF_pollVars(Polls(LiveWork, SensorWork))
    /\ SF_pollVars(Polls(LiveTick, SensorTick))
    /\ WF_playVars(PlayStep /\ PlayWork)
    /\ WF_playVars(PlayStep /\ (ReadLine \/ ReportLine))
    /\ WF_playVars(PlayStep /\ (Expire \/ ReportExpired))
    /\ WF_playVars(PlayStep /\ AlexaStarts)
    /\ WF_playVars(PlayStep /\ AlexaEnds)

Spec == Init /\ [][Next]_vars /\ Fairness

----------------------------------------------------------------------------
Watching(c) == c \in conns /\ phase[c] = "open" /\ states[c]

(* However asks, keys and polls fall into the workers' turns, the last ask  *)
(* is what the Dot ends at: its microphone, its network adb, its level and  *)
(* its mute.                                                                *)
LastAskStands == MicEndsAsAsked /\ AdbEndsAsAsked /\ VolumeAddsUp

(* A client that watches is told what the device is, in the end: a reading  *)
(* taken before a change, a wake that came too soon after the last reading  *)
(* or during it, a poll that found nobody to read for, a debounced sound    *)
(* that was forgotten; none of them leaves it with an older one.            *)
EventuallyTold ==
    \A c \in Conns : []<>(Watching(c) /\ focus # "command" => told[c][Key] = Real)
=============================================================================
