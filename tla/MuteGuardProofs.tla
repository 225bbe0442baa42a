-------------------------- MODULE MuteGuardProofs ---------------------------
(***************************************************************************)
(* What MuteGuard promises for every number of guards and of tries: one    *)
(* grab, known to the daemon and watched; a node that keeps going away is  *)
(* taken again Tries times at most; a late watcher touches nothing.        *)
(***************************************************************************)
EXTENDS MuteGuard, TLAPS

\* Every guard taken again was lost once since the last release.
RetakesAreLosses == retaken <= lost

IInv == /\ TypeOK
        /\ NoForgottenGrab
        /\ EveryGuardIsWatched
        /\ RetakesBounded
        /\ RetakesAreLosses

\* What a critical section may do to the guard: the part of IInv that the
\* speaker, wired and looked have no say in.
GInv == /\ guard \in Guards \union {None}
        /\ node \in [Guards -> {"unopened", "held", "closed"}]
        /\ watcher \in [Guards -> {"none", "waiting", "pressed", "failed", "done"}]
        /\ NoForgottenGrab
        /\ EveryGuardIsWatched

\* The counts.
CInv == lost \in Nat /\ retaken \in Nat /\ RetakesBounded /\ RetakesAreLosses

LEMMA Parts == IInv <=> GInv /\ CInv /\ {speaker, wired, looked} \subseteq BOOLEAN
  BY DEF IInv, GInv, CInv, TypeOK

LEMMA NextParts ==
  ASSUME GInv', CInv', {speaker', wired', looked'} \subseteq BOOLEAN
  PROVE  IInv'
  BY DEF IInv, GInv, CInv, TypeOK

-----------------------------------------------------------------------------
(* The critical sections *)

\* A guard that is taken while no other grab is held is held and watched.
LEMMA TakeGInv ==
  ASSUME NEW nodes \in [Guards -> {"unopened", "held", "closed"}],
         NEW watchers \in [Guards -> {"none", "waiting", "pressed", "failed", "done"}],
         \A g \in Guards : nodes[g] # "held",
         Take(nodes, watchers)
  PROVE  GInv'
<1>1. PICK g \in Guards : /\ guard' = g
                          /\ node' = [nodes EXCEPT ![g] = "held"]
                          /\ watcher' = [watchers EXCEPT ![g] = "waiting"]
  BY DEF Take
<1>2. QED
  BY <1>1 DEF GInv, NoForgottenGrab, EveryGuardIsWatched

LEMMA TakeHolds ==
  ASSUME NEW nodes, NEW watchers, Take(nodes, watchers)
  PROVE  guard' # None
<1>1. guard' \in 1..MaxGuards
  BY DEF Take, Guards
<1>2. QED
  BY <1>1, BoundsAreNat DEF None

LEMMA HoldGInv == ASSUME GInv, HoldVolumeKeys PROVE GInv'
<1>1. CASE Untouched
  BY <1>1 DEF Untouched, GInv, NoForgottenGrab, EveryGuardIsWatched
<1>2. CASE guard = None /\ Take(node, watcher)
  <2>1. \A g \in Guards : node[g] # "held"
    BY <1>2 DEF GInv, NoForgottenGrab, Guards, None
  <2>2. QED
    BY <1>2, <2>1, TakeGInv DEF GInv
<1>3. QED
  BY <1>1, <1>2 DEF HoldVolumeKeys

\* A release leaves no grab.
LEMMA ReleaseLeavesNone ==
  ASSUME GInv, ReleaseVolumeGuard
  PROVE  /\ guard' = None
         /\ node' \in [Guards -> {"unopened", "held", "closed"}]
         /\ \A g \in Guards : node'[g] # "held"
  BY DEF GInv, NoForgottenGrab, ReleaseVolumeGuard

\* setMuteLocked(false) either keeps the guard or leaves none.
LEMMA UnmuteKeepsOrReleases ==
  ASSUME UnmuteLocked
  PROVE  KeepVolumeGuard \/ ReleaseVolumeGuard
  BY DEF UnmuteLocked

LEMMA UnmuteGInv ==
  ASSUME GInv, UnmuteLocked,
         watcher' \in [Guards -> {"none", "waiting", "pressed", "failed", "done"}],
         guard' # None => watcher'[guard'] \in {"waiting", "pressed", "failed"}
  PROVE  GInv'
<1>1. CASE KeepVolumeGuard
  BY <1>1 DEF KeepVolumeGuard, GInv, NoForgottenGrab, EveryGuardIsWatched
<1>2. CASE ReleaseVolumeGuard
  BY <1>2, ReleaseLeavesNone DEF GInv, NoForgottenGrab, EveryGuardIsWatched
<1>3. QED
  BY <1>1, <1>2, UnmuteKeepsOrReleases

LEMMA UnmuteCInv == ASSUME CInv, UnmuteLocked PROVE CInv'
<1>1. CASE KeepVolumeGuard
  BY <1>1 DEF KeepVolumeGuard, CInv, RetakesBounded, RetakesAreLosses
<1>2. CASE ReleaseVolumeGuard
  BY <1>2, BoundsAreNat DEF ReleaseVolumeGuard, CInv, RetakesBounded, RetakesAreLosses
<1>3. QED
  BY <1>1, <1>2, UnmuteKeepsOrReleases

LEMMA CountsKept == ASSUME CInv, UNCHANGED <<lost, retaken>> PROVE CInv'
  BY DEF CInv, RetakesBounded, RetakesAreLosses

-----------------------------------------------------------------------------
(* The goroutines and the device *)

LEMMA SetSpeakerMuteIInv == ASSUME IInv, SetSpeakerMute PROVE IInv'
<1>a. GInv /\ CInv /\ {speaker, wired, looked} \subseteq BOOLEAN
  BY Parts
<1>1. {speaker', wired', looked'} \subseteq BOOLEAN
  BY <1>a, Zenon DEF SetSpeakerMute, MuteLocked, UnmuteLocked
<1>2. CASE MuteLocked
  <2>1. GInv'
    <3>1. Untouched \/ HoldVolumeKeys
      BY <1>2 DEF MuteLocked
    <3>2. QED
      BY <3>1, <1>a, HoldGInv DEF HoldVolumeKeys
  <2>2. CInv'
    BY <1>2, <1>a, CountsKept DEF MuteLocked
  <2>3. QED
    BY <1>1, <2>1, <2>2, NextParts
<1>3. CASE UnmuteLocked /\ UNCHANGED watcher
  <2>1. guard' # None => guard' = guard
    BY <1>3, UnmuteKeepsOrReleases DEF KeepVolumeGuard, ReleaseVolumeGuard
  <2>2. GInv'
    BY <1>3, <1>a, <2>1, UnmuteGInv DEF GInv, EveryGuardIsWatched
  <2>3. CInv'
    BY <1>3, <1>a, UnmuteCInv
  <2>4. QED
    BY <1>1, <2>2, <2>3, NextParts
<1>4. QED
  BY <1>2, <1>3 DEF SetSpeakerMute

LEMMA HoldKeysIfMutedIInv == ASSUME IInv, HoldKeysIfMuted PROVE IInv'
<1>a. GInv /\ CInv /\ {speaker, wired, looked} \subseteq BOOLEAN
  BY Parts
<1>1. Untouched \/ HoldVolumeKeys
  BY DEF HoldKeysIfMuted
<1>2. GInv'
  BY <1>1, <1>a, HoldGInv DEF HoldVolumeKeys
<1>3. CInv'
  BY <1>a, CountsKept DEF HoldKeysIfMuted
<1>4. {speaker', wired', looked'} \subseteq BOOLEAN
  BY <1>a DEF HoldKeysIfMuted
<1>5. QED
  BY <1>2, <1>3, <1>4, NextParts

LEMMA LiftOnPressIInv ==
  ASSUME IInv, NEW g \in Guards, LiftOnPress(g)
  PROVE  IInv'
<1>a. GInv /\ CInv /\ {speaker, wired, looked} \subseteq BOOLEAN
  BY Parts
<1>1. {speaker', wired', looked'} \subseteq BOOLEAN
  BY <1>a, Zenon DEF LiftOnPress, UnmuteLocked
<1>2. CASE guard # g /\ watcher' = [watcher EXCEPT ![g] = "done"] /\ KeepVolumeGuard
  <2>1. GInv'
    BY <1>2, <1>a DEF KeepVolumeGuard, GInv, NoForgottenGrab, EveryGuardIsWatched
  <2>2. CInv'
    BY <1>2, <1>a, CountsKept DEF KeepVolumeGuard
  <2>3. QED
    BY <1>1, <2>1, <2>2, NextParts
<1>3. CASE /\ guard = g /\ UnmuteLocked
           /\ watcher' = [watcher EXCEPT ![g] = IF guard' = g THEN "waiting" ELSE "done"]
  <2>1. guard' = g \/ guard' = None
    BY <1>3, UnmuteKeepsOrReleases DEF KeepVolumeGuard, ReleaseVolumeGuard
  <2>2. GInv'
    BY <1>3, <1>a, <2>1, UnmuteGInv DEF GInv
  <2>3. CInv'
    BY <1>3, <1>a, UnmuteCInv
  <2>4. QED
    BY <1>1, <2>2, <2>3, NextParts
<1>4. QED
  BY <1>2, <1>3 DEF LiftOnPress

LEMMA ForgetVolumeGuardIInv ==
  ASSUME IInv, NEW g \in Guards, ForgetVolumeGuard(g)
  PROVE  IInv'
<1> DEFINE closed == [node EXCEPT ![g] = "closed"]
           finished == [watcher EXCEPT ![g] = "done"]
<1>a. GInv /\ CInv /\ {speaker, wired, looked} \subseteq BOOLEAN
  BY Parts
<1>1. {speaker', wired', looked'} \subseteq BOOLEAN
  BY <1>a DEF ForgetVolumeGuard
<1>2. CASE guard # g /\ node' = closed /\ watcher' = finished /\ UNCHANGED <<guard, lost, retaken>>
  <2>1. GInv'
    BY <1>2, <1>a DEF GInv, NoForgottenGrab, EveryGuardIsWatched
  <2>2. QED
    BY <1>1, <1>2, <2>1, <1>a, CountsKept, NextParts
<1>3. CASE guard = g /\ node' = closed /\ watcher' = finished /\ guard' = None
  <2>1. GInv'
    BY <1>3, <1>a DEF GInv, NoForgottenGrab, EveryGuardIsWatched
  <2>2. lost' \in {lost, lost + 1} /\ retaken' = retaken
    <3>1. ~Take(closed, finished)
      BY <1>3, TakeHolds
    <3>2. QED
      BY <1>3, <3>1 DEF ForgetVolumeGuard
  <2>3. CInv'
    BY <2>2, <1>a DEF CInv, RetakesBounded, RetakesAreLosses
  <2>4. QED
    BY <1>1, <2>1, <2>3, NextParts
<1>4. CASE /\ guard = g /\ lost' = lost + 1 /\ lost' <= Tries
           /\ Take(closed, finished) /\ retaken' = retaken + 1
  <2>1. \A h \in Guards : closed[h] # "held"
    BY <1>4, <1>a DEF GInv, NoForgottenGrab
  <2>2. /\ closed \in [Guards -> {"unopened", "held", "closed"}]
        /\ finished \in [Guards -> {"none", "waiting", "pressed", "failed", "done"}]
    BY <1>a DEF GInv
  <2>3. GInv'
    <3> HIDE DEF closed, finished
    <3>1. QED
      BY <1>4, <2>1, <2>2, TakeGInv
  <2>4. CInv'
    BY <1>4, <1>a, BoundsAreNat DEF CInv, RetakesBounded, RetakesAreLosses
  <2>5. QED
    BY <1>1, <2>3, <2>4, NextParts
<1>5. QED
  BY <1>2, <1>3, <1>4 DEF ForgetVolumeGuard

\* The device's own steps, and the first look, leave the guard alone.
LEMMA DeviceIInv ==
  ASSUME IInv,
         \/ UseMuteLevel \/ MuteChanges
         \/ \E g \in Guards : VolumeKeyDown(g) \/ WaitFails(g)
         \/ UNCHANGED vars
  PROVE  IInv'
<1>a. GInv /\ CInv /\ {speaker, wired, looked} \subseteq BOOLEAN
  BY Parts
<1>1. CInv'
  BY <1>a, CountsKept DEF UseMuteLevel, MuteChanges, VolumeKeyDown, WaitFails, vars
<1>2. {speaker', wired', looked'} \subseteq BOOLEAN
  BY <1>a, Zenon DEF UseMuteLevel, MuteChanges, VolumeKeyDown, WaitFails, vars
<1>3. GInv'
  <2>1. CASE UNCHANGED <<guard, node, watcher>>
    BY <2>1, <1>a DEF GInv, NoForgottenGrab, EveryGuardIsWatched
  <2>2. CASE \E g \in Guards : VolumeKeyDown(g) \/ WaitFails(g)
    <3>1. PICK g \in Guards, w \in {"pressed", "failed"} :
            watcher' = [watcher EXCEPT ![g] = w] /\ UNCHANGED <<guard, node>>
      BY <2>2 DEF VolumeKeyDown, WaitFails
    <3>2. QED
      BY <3>1, <1>a DEF GInv, NoForgottenGrab, EveryGuardIsWatched
  <2>3. QED
    BY <2>1, <2>2 DEF UseMuteLevel, MuteChanges, vars
<1>4. QED
  BY <1>1, <1>2, <1>3, NextParts

LEMMA InitIInv == Init => IInv
<1> SUFFICES ASSUME Init PROVE IInv
  OBVIOUS
<1>1. {speaker, wired, looked} \subseteq BOOLEAN
  BY Zenon DEF Init
<1>2. GInv
  BY DEF Init, GInv, NoForgottenGrab, EveryGuardIsWatched
<1>3. CInv
  BY BoundsAreNat DEF Init, CInv, RetakesBounded, RetakesAreLosses
<1>4. QED
  BY <1>1, <1>2, <1>3, Parts

LEMMA StepIInv == IInv /\ [Next]_vars => IInv'
<1> SUFFICES ASSUME IInv, [Next]_vars PROVE IInv'
  OBVIOUS
<1>1. CASE SetSpeakerMute
  BY <1>1, SetSpeakerMuteIInv
<1>2. CASE HoldKeysIfMuted
  BY <1>2, HoldKeysIfMutedIInv
<1>3. CASE \E g \in Guards : LiftOnPress(g)
  BY <1>3, LiftOnPressIInv
<1>4. CASE \E g \in Guards : ForgetVolumeGuard(g)
  BY <1>4, ForgetVolumeGuardIInv
<1>5. CASE \/ UseMuteLevel \/ MuteChanges
           \/ \E g \in Guards : VolumeKeyDown(g) \/ WaitFails(g)
           \/ UNCHANGED vars
  BY <1>5, DeviceIInv
<1>6. QED
  BY <1>1, <1>2, <1>3, <1>4, <1>5 DEF Next

-----------------------------------------------------------------------------
\* IInv holds in every state the guard's locks and goroutines can reach.
THEOREM GuardInductive == Spec => []IInv
  BY InitIInv, StepIInv, PTL DEF Spec

\* The volume keys are never left grabbed by a guard the daemon let go of:
\* releaseVolumeGuard, forgetVolumeGuard and the late watchers of serve.go.
THEOREM NoGrabForgotten == Spec => []NoForgottenGrab
<1>1. IInv => NoForgottenGrab
  BY DEF IInv
<1>2. QED
  BY <1>1, GuardInductive, PTL

\* Types: no step leaves a guard, a watcher or a count outside its kind.
THEOREM GuardType == Spec => []TypeOK
<1>1. IInv => TypeOK
  BY DEF IInv
<1>2. QED
  BY <1>1, GuardInductive, PTL

\* A press can lift the mute whenever a guard is held: watchVolumeKeys ends
\* only with its guard.
THEOREM GuardsWatched == Spec => []EveryGuardIsWatched
<1>1. IInv => EveryGuardIsWatched
  BY DEF IInv
<1>2. QED
  BY <1>1, GuardInductive, PTL

\* forgetVolumeGuard retakes a node volumeGuardTries times at most.
THEOREM RetakesEnd == Spec => []RetakesBounded
<1>1. IInv => RetakesBounded
  BY DEF IInv
<1>2. QED
  BY <1>1, GuardInductive, PTL

\* A watcher that ends and is not the held guard's changes neither guard nor
\* count, whatever step it ends in.
THEOREM LateWatchersHarmless == Spec => LateWatcherIsHarmless
<1>1. ASSUME IInv, [Next]_vars, NEW g \in Guards \ {guard},
             watcher[g] # watcher'[g], watcher'[g] = "done"
      PROVE  guard' = guard /\ lost' = lost
  <2>a. GInv
    BY <1>1, Parts
  <2>1. CASE SetSpeakerMute \/ HoldKeysIfMuted
    BY <2>1, <1>1, <2>a DEF SetSpeakerMute, HoldKeysIfMuted, MuteLocked, HoldVolumeKeys,
       Untouched, Take, GInv
  <2>2. CASE \E h \in Guards : LiftOnPress(h)
    <3>1. PICK h \in Guards : LiftOnPress(h)
      BY <2>2
    <3>2. h = g
      BY <3>1, <1>1, <2>a DEF LiftOnPress, GInv
    <3>3. QED
      BY <3>1, <3>2, <1>1 DEF LiftOnPress, KeepVolumeGuard
  <2>3. CASE \E h \in Guards : ForgetVolumeGuard(h)
    <3>1. PICK h \in Guards : ForgetVolumeGuard(h)
      BY <2>3
    <3>2. h = g
      BY <3>1, <1>1, <2>a DEF ForgetVolumeGuard, Take, GInv
    <3>3. QED
      BY <3>1, <3>2, <1>1 DEF ForgetVolumeGuard
  <2>4. CASE \/ UseMuteLevel \/ MuteChanges
             \/ \E h \in Guards : VolumeKeyDown(h) \/ WaitFails(h)
             \/ UNCHANGED vars
    BY <2>4, <1>1, <2>a DEF UseMuteLevel, MuteChanges, VolumeKeyDown, WaitFails, vars, GInv
  <2>5. QED
    BY <2>1, <2>2, <2>3, <2>4, <1>1 DEF Next
<1>2. IInv /\ [Next]_vars =>
        [\A g \in Guards \ {guard} :
           watcher[g] # watcher'[g] /\ watcher'[g] = "done" =>
             guard' = guard /\ lost' = lost]_vars
  BY <1>1
<1>3. QED
  BY <1>2, GuardInductive, PTL DEF Spec, LateWatcherIsHarmless
=============================================================================
