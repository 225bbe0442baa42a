----------------------------- MODULE MuteGuard -----------------------------
(***************************************************************************)
(* serve.go and internal/button/mute.go: the second grab, on the volume    *)
(* keys, held while the Dot is muted so that a press lifts the mute.  The  *)
(* mute worker, the goroutine that looks at startup and one watcher per    *)
(* guard meet under muted.mu; Wait blocks outside it.                      *)
(*                                                                         *)
(* A critical section of muted.mu is one action.  The device is external:  *)
(* a reading is what the mute flag was at that moment or no reading, and a *)
(* set can be refused or accepted, and take or not, in any combination.    *)
(***************************************************************************)
EXTENDS Naturals

CONSTANTS
  Tries,      \* volumeGuardTries
  MaxGuards   \* bound: guards opened in a behaviour

ASSUME BoundsAreNat == Tries \in Nat /\ MaxGuards \in Nat

Guards == 1..MaxGuards
None == 0

VARIABLES
  speaker,   \* the Dot's mute flag
  wired,     \* muteLevel is set
  looked,    \* holdKeysIfMuted has run
  guard,     \* muted.guard
  lost,      \* muted.lost
  node,      \* per guard: its grab on the node
  watcher,   \* per guard: where its watchVolumeKeys is
  \* history
  retaken    \* guards taken again since the last release

vars == <<speaker, wired, looked, guard, lost, node, watcher, retaken>>

TypeOK ==
  /\ {speaker, wired, looked} \subseteq BOOLEAN
  /\ guard \in Guards \union {None}
  /\ lost \in Nat /\ retaken \in Nat
  /\ node \in [Guards -> {"unopened", "held", "closed"}]
  /\ watcher \in [Guards -> {"none", "waiting", "pressed", "failed", "done"}]

Init ==
  /\ speaker \in BOOLEAN
  /\ wired = FALSE /\ looked = FALSE
  /\ guard = None /\ lost = 0 /\ retaken = 0
  /\ node = [g \in Guards |-> "unopened"]
  /\ watcher = [g \in Guards |-> "none"]

-----------------------------------------------------------------------------
(* What the critical sections are made of *)

\* muteLevel of a Dot whose mute flag is on.
Reading(on) == {IF on THEN "muted" ELSE "unmuted", "unreadable"}

\* muteGuard succeeds: the node is grabbed and its watcher started.  nodes and
\* watchers are what the section has already made of the other guards.
Take(nodes, watchers) ==
  \E g \in Guards :
    /\ nodes[g] = "unopened" /\ \A h \in 1..(g - 1) : nodes[h] # "unopened"
    /\ guard' = g
    /\ node' = [nodes EXCEPT ![g] = "held"]
    /\ watcher' = [watchers EXCEPT ![g] = "waiting"]

Untouched == UNCHANGED <<guard, node, watcher>>

\* Slip: holdVolumeKeys does not look whether a guard is held.
HoldVolumeKeysAgain == Untouched \/ Take(node, watcher)

\* holdVolumeKeys, with muteGuard failing or not.
HoldVolumeKeys == Untouched \/ (guard = None /\ Take(node, watcher))

\* Slip: a release takes one loss back instead of forgetting them all.
ReleaseForgivesOne ==
  /\ lost' = lost - 1 /\ retaken' = 0
  /\ guard' = None
  /\ node' = [g \in Guards |-> IF g = guard THEN "closed" ELSE node[g]]

\* releaseVolumeGuard
ReleaseVolumeGuard ==
  /\ lost' = 0 /\ retaken' = 0
  /\ guard' = None
  /\ node' = [g \in Guards |-> IF g = guard THEN "closed" ELSE node[g]]

KeepVolumeGuard == UNCHANGED <<guard, node, lost, retaken>>

\* setMuteLocked(true)
MuteLocked ==
  /\ UNCHANGED <<lost, retaken>>
  /\ \/ ~wired /\ Untouched /\ UNCHANGED speaker
     \/ wired /\ speaker /\ HoldVolumeKeys /\ UNCHANGED speaker  \* read as muted
     \/ \* unmuted or unreadable, so it is set; Untouched also if that is refused
        wired /\ speaker' \in {speaker, TRUE} /\ HoldVolumeKeys

\* setMuteLocked(false), which leaves the watchers to its caller.
UnmuteLocked ==
  \/ ~wired /\ KeepVolumeGuard /\ UNCHANGED speaker
  \/ wired /\ ~speaker /\ ReleaseVolumeGuard /\ UNCHANGED speaker  \* read so
  \/ /\ wired   \* muted or unreadable, so it is set
     /\ speaker' \in {speaker, FALSE}
     /\ \/ KeepVolumeGuard   \* refused
        \/ \E still \in Reading(speaker') :
             IF still = "muted" THEN KeepVolumeGuard ELSE ReleaseVolumeGuard

-----------------------------------------------------------------------------
(* The goroutines *)

UseMuteLevel ==
  /\ ~wired /\ wired' = TRUE
  /\ UNCHANGED <<speaker, looked, guard, lost, node, watcher, retaken>>

HoldKeysIfMuted ==
  /\ wired /\ ~looked
  /\ looked' = TRUE
  /\ \E on \in Reading(speaker) : IF on = "muted" THEN HoldVolumeKeys ELSE Untouched
  /\ UNCHANGED <<speaker, wired, lost, retaken>>

SetSpeakerMute ==
  /\ MuteLocked \/ (UnmuteLocked /\ UNCHANGED watcher)
  /\ UNCHANGED <<wired, looked>>

\* Slips: the watcher returns after one press, or lifts the mute whether its
\* guard is still the one that is held or not.
LiftOnceAndEnd(g) ==
  /\ watcher[g] = "pressed"
  /\ \/ guard # g /\ KeepVolumeGuard /\ UNCHANGED speaker
     \/ guard = g /\ UnmuteLocked
  /\ watcher' = [watcher EXCEPT ![g] = "done"]
  /\ UNCHANGED <<wired, looked>>

LiftForAnyGuard(g) ==
  /\ watcher[g] = "pressed"
  /\ UnmuteLocked
  /\ watcher' = [watcher EXCEPT ![g] = IF guard' = g THEN "waiting" ELSE "done"]
  /\ UNCHANGED <<wired, looked>>

\* Wait returned nil.  The watcher goes on only while its guard is held.
LiftOnPress(g) ==
  /\ watcher[g] = "pressed"
  /\ \/ /\ guard # g
        /\ watcher' = [watcher EXCEPT ![g] = "done"]
        /\ KeepVolumeGuard /\ UNCHANGED speaker
     \/ /\ guard = g
        /\ UnmuteLocked
        /\ watcher' = [watcher EXCEPT ![g] = IF guard' = g THEN "waiting" ELSE "done"]
  /\ UNCHANGED <<wired, looked>>

\* Wait returned an error: the node went, or somebody closed the guard.
ForgetVolumeGuard(g) ==
  LET closed == [node EXCEPT ![g] = "closed"]
      finished == [watcher EXCEPT ![g] = "done"]
      Closes == node' = closed /\ watcher' = finished
  IN  /\ watcher[g] = "failed"
      /\ UNCHANGED <<speaker, wired, looked>>
      /\ \/ \* a guard released or replaced meanwhile, ...
            guard # g /\ Closes /\ UNCHANGED <<guard, lost, retaken>>
         \/ \* or one nothing needs any more, or that cannot be told, ...
            /\ guard = g
            /\ \E on \in Reading(speaker) : ~wired \/ on # "muted"
            /\ Closes /\ guard' = None /\ UNCHANGED <<lost, retaken>>
         \/ \* or the node went while muted.
            /\ guard = g /\ wired /\ speaker
            /\ lost' = lost + 1
            /\ \/ Closes /\ guard' = None /\ UNCHANGED retaken
               \/ lost' <= Tries /\ Take(closed, finished) /\ retaken' = retaken + 1

-----------------------------------------------------------------------------
(* The device *)

\* A press of a volume key while the daemon holds the node.
VolumeKeyDown(g) ==
  /\ watcher[g] = "waiting" /\ node[g] = "held"
  /\ watcher' = [watcher EXCEPT ![g] = "pressed"]
  /\ UNCHANGED <<speaker, wired, looked, guard, lost, node, retaken>>

\* The node goes away, or Wait finds it closed.
WaitFails(g) ==
  /\ watcher[g] = "waiting"
  /\ watcher' = [watcher EXCEPT ![g] = "failed"]
  /\ UNCHANGED <<speaker, wired, looked, guard, lost, node, retaken>>

\* Alexa mutes or unmutes.
MuteChanges ==
  /\ speaker' = ~speaker
  /\ UNCHANGED <<wired, looked, guard, lost, node, watcher, retaken>>

Next ==
  \/ UseMuteLevel \/ HoldKeysIfMuted \/ SetSpeakerMute
  \/ \E g \in Guards : LiftOnPress(g) \/ ForgetVolumeGuard(g)
                       \/ VolumeKeyDown(g) \/ WaitFails(g)
  \/ MuteChanges

Spec == Init /\ [][Next]_vars

-----------------------------------------------------------------------------
(* Properties *)

\* The volume keys are grabbed by the guard the daemon knows of and by no
\* other: one that was lost, released or replaced has given its grab back,
\* whichever of the goroutines let go of it.  A grab nobody knows of would
\* take the volume keys from Android until the daemon exits.
NoForgottenGrab == \A g \in Guards : node[g] = "held" => g = guard

\* A held guard has a watcher that has still to see its next press, so a press
\* can always lift the mute; a watcher that outlives its guard ends.
EveryGuardIsWatched ==
  guard # None =>
    /\ watcher[guard] \in {"waiting", "pressed", "failed"}
    /\ node[guard] = "held"

\* A node that keeps going away is taken again Tries times and no more until
\* an unmute has gone through here.
RetakesBounded == retaken <= Tries

\* Only the watcher of the held guard, or a mute and unmute asked for, lets go
\* of it or replaces it: a watcher that is late acts on its own guard alone.
LateWatcherIsHarmless ==
  [][\A g \in Guards \ {guard} :
       watcher[g] # watcher'[g] /\ watcher'[g] = "done" =>
         guard' = guard /\ lost' = lost]_vars

=============================================================================
