------------------------------ MODULE Playback ------------------------------
(***************************************************************************)
(* Playing a clip (internal/esphome/media.go, UsePlay to playWorker;        *)
(* internal/alexa/playback.go and speak.go; serve.go, usePlayback): the     *)
(* worker arms the PlaybackWatcher, has am hand the clip to Alexa and       *)
(* extends the deadline.  The watcher follows her log: the start of a       *)
(* playback moves the deadline out, its end disarms, and a sweep of its own *)
(* disarms when the deadline is over.  Its callbacks run unlocked.          *)
(*                                                                          *)
(* Alexa is external: she plays what she was handed, and speaks for reasons *)
(* of her own; a line of her log can be lost while logcat is started again. *)
(***************************************************************************)
EXTENDS Naturals, Sequences

CONSTANTS Clips,        \* bound: clips asked for and speeches of her own
          ClipFaults    \* bound: calls of am that fail, lines that are lost

ASSUME PlaybackAssumption == {Clips, ClipFaults} \subseteq Nat

VARIABLES playReady,      \* s.play is set
          playHasPending, \* s.playHasPending
          playAt,         \* where playWorker is; not "idle" is s.playWorking
          playing,        \* s.mpPlaying
          expecting,      \* the watcher's expecting
          due,            \* what its deadline allows for: a start or a clip
          lineAt,         \* its reader: "read", or a callback not yet made
          sweepAt,        \* its sweep: likewise
          handed,         \* clips Alexa has and has not started
          speaking,       \* Alexa is playing one
          logLines,       \* lines not yet read
          crossed,        \* history: a start's callback is overtaken by what disarms
          clipsLeft       \* budgets: clips and faults left

playVars == <<playReady, playHasPending, playAt, playing, expecting, due, lineAt,
              sweepAt, handed, speaking, logLines, crossed, clipsLeft>>

watcherVars == <<expecting, due, lineAt, sweepAt>>
alexaVars == <<handed, speaking, logLines>>
workerVars == <<playReady, playHasPending, playAt>>

PlayTypeOK ==
    /\ {playReady, playHasPending, playing, expecting, speaking, crossed} \subseteq BOOLEAN
    /\ playAt \in {"idle", "take", "speak", "handed", "extend", "cancel", "failed"}
    /\ due \in {"start", "clip"}
    /\ lineAt \in {"read", "start", "end"}
    /\ sweepAt \in {"wait", "end"}
    /\ handed \in 0 .. Clips
    /\ logLines \in Seq({"started", "ended"})
    /\ clipsLeft \in [clips : 0 .. Clips, faults : 0 .. ClipFaults]

PlayInit ==
    /\ playReady = FALSE
    /\ playHasPending = FALSE
    /\ playing = FALSE
    /\ expecting = FALSE
    /\ speaking = FALSE
    /\ crossed = FALSE
    /\ playAt = "idle"
    /\ due = "start"
    /\ lineAt = "read"
    /\ sweepAt = "wait"
    /\ handed = 0
    /\ logLines = <<>>
    /\ clipsLeft = [clips |-> Clips, faults |-> ClipFaults]

----------------------------------------------------------------------------
ClipFault ==
    /\ clipsLeft.faults > 0
    /\ clipsLeft' = [clipsLeft EXCEPT !.faults = @ - 1]

Clip ==
    /\ clipsLeft.clips > 0
    /\ clipsLeft' = [clipsLeft EXCEPT !.clips = @ - 1]

(* Alexa's package answered: usePlayback.                                   *)
UsePlay ==
    /\ ~playReady
    /\ playReady' = TRUE
    /\ UNCHANGED <<playHasPending, playAt, playing, watcherVars, alexaVars, crossed, clipsLeft>>

PlayLocked ==
    /\ Clip
    /\ playHasPending' = (playHasPending \/ playReady)
    /\ playAt' = IF playReady /\ playAt = "idle" THEN "take" ELSE playAt
    /\ UNCHANGED <<playReady, playing, watcherVars, alexaVars, crossed>>

(* A taken clip arms the watcher: Expect.                                   *)
PlayTake ==
    /\ playAt = "take"
    /\ playHasPending' = FALSE
    /\ IF playHasPending
       THEN /\ playAt' = "speak"
            /\ expecting' = TRUE
            /\ due' = "start"
       ELSE playAt' = "idle" /\ UNCHANGED <<expecting, due>>
    /\ UNCHANGED <<playReady, playing, lineAt, sweepAt, alexaVars, crossed, clipsLeft>>

(* am hands the clip over, returns, or fails.                               *)
Speak ==
    /\ \/ /\ playAt = "speak"
          /\ playAt' = "handed"
          /\ handed' = handed + 1
          /\ UNCHANGED clipsLeft
       \/ playAt = "handed" /\ playAt' = "extend" /\ UNCHANGED <<handed, clipsLeft>>
       \/ playAt \in {"speak", "handed"} /\ playAt' = "cancel" /\ ClipFault /\ UNCHANGED handed
    /\ UNCHANGED <<playReady, playHasPending, playing, watcherVars, speaking, logLines, crossed>>

(* Extend: only while armed, so that an end already seen stays one.         *)
Extend ==
    /\ playAt = "extend"
    /\ playAt' = "take"
    /\ due' = IF expecting THEN "start" ELSE due
    /\ UNCHANGED <<playReady, playHasPending, playing, expecting, lineAt, sweepAt,
                   alexaVars, crossed, clipsLeft>>

Cancel ==
    /\ playAt = "cancel"
    /\ playAt' = "failed"
    /\ expecting' = FALSE
    /\ crossed' = (crossed \/ lineAt = "start")
    /\ UNCHANGED <<playReady, playHasPending, playing, due, lineAt, sweepAt,
                   alexaVars, clipsLeft>>

PlayFailed ==
    /\ playAt = "failed"
    /\ playAt' = "take"
    /\ playing' = FALSE
    /\ UNCHANGED <<playReady, playHasPending, watcherVars, alexaVars, crossed, clipsLeft>>

----------------------------------------------------------------------------
(* Alexa.                                                                   *)
AlexaSpeaks ==
    /\ Clip
    /\ handed < Clips
    /\ handed' = handed + 1
    /\ UNCHANGED <<workerVars, playing, watcherVars, speaking, logLines, crossed>>

AlexaStarts ==
    /\ handed > 0 /\ ~speaking
    /\ handed' = handed - 1
    /\ speaking' = TRUE
    /\ logLines' = Append(logLines, "started")
    /\ UNCHANGED <<workerVars, playing, watcherVars, crossed, clipsLeft>>

AlexaEnds ==
    /\ speaking
    /\ speaking' = FALSE
    /\ logLines' = Append(logLines, "ended")
    /\ UNCHANGED <<workerVars, playing, watcherVars, handed, crossed, clipsLeft>>

LineLost ==
    /\ logLines # <<>>
    /\ ClipFault
    /\ logLines' = Tail(logLines)
    /\ UNCHANGED <<workerVars, playing, watcherVars, handed, speaking, crossed>>

----------------------------------------------------------------------------
(* The watcher's line: decided under its lock ...                           *)
ReadLine ==
    /\ lineAt = "read"
    /\ logLines # <<>>
    /\ logLines' = Tail(logLines)
    /\ LET said == Head(logLines) IN
         /\ expecting' = (expecting /\ said = "started")
         /\ due' = IF expecting /\ said = "started" THEN "clip" ELSE due
         /\ lineAt' = IF ~expecting THEN "read" ELSE IF said = "started" THEN "start" ELSE "end"
    /\ UNCHANGED <<workerVars, playing, sweepAt, handed, speaking, crossed, clipsLeft>>

(* ... and reported after it: OnStart and OnEnd are NotePlayback.           *)
ReportLine ==
    /\ lineAt # "read"
    /\ playing' = (lineAt = "start")
    /\ lineAt' = "read"
    /\ UNCHANGED <<workerVars, expecting, due, sweepAt, alexaVars, crossed, clipsLeft>>

\* Slip: the sweep gives up on a start only.
ExpireStart ==
    /\ sweepAt = "wait"
    /\ expecting /\ due = "start"
    /\ expecting' = FALSE
    /\ sweepAt' = "end"
    /\ crossed' = (crossed \/ lineAt = "start")
    /\ UNCHANGED <<workerVars, playing, due, lineAt, alexaVars, clipsLeft>>

(* The deadline: half a minute for a start, and longer than any clip once   *)
(* it has started, so that one runs out only where no end will come.        *)
Overdue == due = "clip" => ~speaking /\ logLines = <<>>

Expire ==
    /\ sweepAt = "wait"
    /\ expecting /\ Overdue
    /\ expecting' = FALSE
    /\ sweepAt' = "end"
    /\ crossed' = (crossed \/ lineAt = "start")
    /\ UNCHANGED <<workerVars, playing, due, lineAt, alexaVars, clipsLeft>>

ReportExpired ==
    /\ sweepAt = "end"
    /\ sweepAt' = "wait"
    /\ playing' = FALSE
    /\ UNCHANGED <<workerVars, expecting, due, lineAt, alexaVars, crossed, clipsLeft>>

----------------------------------------------------------------------------
PlayWork == PlayTake \/ Speak \/ Extend \/ Cancel \/ PlayFailed
Watch == ReadLine \/ ReportLine \/ Expire \/ ReportExpired
Alexa == AlexaStarts \/ AlexaEnds

----------------------------------------------------------------------------
(* A playback whose end never comes does not last the run: the media player *)
(* goes back to idle.  The exception is the one the code leaves open: the   *)
(* watcher is disarmed, by the failure of a clip that follows or by its      *)
(* deadline, between the start line and the callback for it.                *)
PlayingEnds == []<>(~playing \/ crossed)
=============================================================================
