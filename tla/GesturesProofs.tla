--------------------------- MODULE GesturesProofs ---------------------------
(***************************************************************************)
(* What Gestures promises for every HoldTime, Gap and number of presses:   *)
(* no press is lost or reported twice, holds are earned, no run closes     *)
(* under a key, and every step is a step of GestureReports or a stutter.   *)
(***************************************************************************)
EXTENDS Gestures, TLAPS

\* Who holds m.out, and what the holder may still have to fire.
LocksAgree ==
  /\ out = "free" <=> plan = Nothing
  /\ out = "loop" <=> loop = "reporting"
  /\ plan.end <=> out = "loop"
  /\ plan.start => count = 0 /\ (holding \/ loop = "reporting")
  /\ plan.run > 0 /\ (holding \/ plan.end) => plan.start

\* holding is set from the decision of held to the release, and Home
\* Assistant is inside the hold once its start has left plan.
HoldingAgrees ==
  /\ holding => count = 0 /\ loop \in {"down", "released"} /\ ~plan.end
  /\ inHold <=> ~plan.start /\ (holding \/ plan.end)

\* A timer whose generation is current belongs to the latest key event.
FreshHold == loop \in {"down", "released"} /\ ~holding
FreshGap == loop \in {"up", "pressed"}

TimersAgree ==
  /\ Armed(holdTimer) =>
       /\ holdTimer.gen <= gen
       /\ holdTimer.gen = gen =>
            /\ FreshHold
            /\ sinceDown + holdTimer.left >= HoldTime
            /\ [kind |-> "hold", gen |-> gen] \notin fired
  /\ Armed(gapTimer) =>
       gapTimer.gen <= gen /\ (gapTimer.gen = gen => FreshGap)
  /\ \A t \in fired :
       /\ t.gen <= gen
       /\ t.gen = gen /\ t.kind = "hold" => FreshHold /\ sinceDown >= HoldTime
       /\ t.gen = gen /\ t.kind = "gap" => FreshGap

IInv == TypeOK /\ EveryPressOnce /\ LocksAgree /\ HoldingAgrees /\ TimersAgree

-----------------------------------------------------------------------------

LEMMA InitIInv == Init => IInv
<1> SUFFICES ASSUME Init PROVE IInv
  OBVIOUS
<1>1. TypeOK
  <2>1. plan \in [run : Nat, start : BOOLEAN, end : BOOLEAN]
    BY DEF Init, Nothing
  <2>2. holdTimer \in [gen : Nat, left : Nat] /\ gapTimer \in [gen : Nat, left : Nat]
    BY DEF Init, NoTimer
  <2>3. 0 \in 0..HoldTime
    BY TimesAreNat
  <2>4. QED
    BY <2>1, <2>2, <2>3 DEF Init, TypeOK
<1>2. EveryPressOnce /\ LocksAgree /\ HoldingAgrees
  BY DEF Init, EveryPressOnce, LocksAgree, HoldingAgrees, Planned, Undecided, Nothing
<1>3. TimersAgree
  BY DEF Init, TimersAgree, NoTimer, Armed
<1>4. QED
  BY <1>1, <1>2, <1>3 DEF IInv

LEMMA KeyDownIInv ==
  ASSUME IInv, KeyDown
  PROVE  IInv'
PROOF
  <1>a. KeyDown
    OBVIOUS
  <1>1. TypeOK'
    BY <1>a, TimesAreNat DEF KeyDown, IInv, TypeOK
  <1>2. EveryPressOnce'
    BY <1>a DEF KeyDown, IInv, TypeOK, EveryPressOnce, LocksAgree, HoldingAgrees,
       Planned, Undecided
  <1>3. LocksAgree' /\ HoldingAgrees'
    BY <1>a DEF KeyDown, IInv, TypeOK, LocksAgree, HoldingAgrees
  <1>4. TimersAgree'
    BY <1>a, TimesAreNat DEF KeyDown, IInv, TypeOK, TimersAgree, FreshHold, FreshGap,
       HoldingAgrees, LocksAgree, Armed
  <1>5. QED
    BY <1>1, <1>2, <1>3, <1>4 DEF IInv

LEMMA DownIInv ==
  ASSUME IInv, Down
  PROVE  IInv'
PROOF
  <1>a. Down
    OBVIOUS
  <1>1. TypeOK'
    BY <1>a, TimesAreNat DEF Down, IInv, TypeOK, Nothing, NoTimer
  <1>2. EveryPressOnce'
    BY <1>a DEF Down, IInv, TypeOK, EveryPressOnce, LocksAgree, HoldingAgrees,
       Planned, Undecided, Nothing, NoTimer
  <1>3. LocksAgree' /\ HoldingAgrees'
    BY <1>a DEF Down, IInv, TypeOK, LocksAgree, HoldingAgrees, Nothing, NoTimer
  <1>4. TimersAgree'
    BY <1>a, TimesAreNat DEF Down, IInv, TypeOK, TimersAgree, FreshHold, FreshGap,
       HoldingAgrees, LocksAgree, Armed, Nothing, NoTimer
  <1>5. QED
    BY <1>1, <1>2, <1>3, <1>4 DEF IInv

LEMMA KeyUpIInv ==
  ASSUME IInv, KeyUp
  PROVE  IInv'
PROOF
  <1>a. KeyUp
    OBVIOUS
  <1>1. TypeOK'
    BY <1>a, TimesAreNat DEF KeyUp, IInv, TypeOK
  <1>2. EveryPressOnce'
    BY <1>a DEF KeyUp, IInv, TypeOK, EveryPressOnce, LocksAgree, HoldingAgrees,
       Planned, Undecided
  <1>3. LocksAgree' /\ HoldingAgrees'
    BY <1>a DEF KeyUp, IInv, TypeOK, LocksAgree, HoldingAgrees
  <1>4. TimersAgree'
    BY <1>a, TimesAreNat DEF KeyUp, IInv, TypeOK, TimersAgree, FreshHold, FreshGap,
       HoldingAgrees, LocksAgree, Armed
  <1>5. QED
    BY <1>1, <1>2, <1>3, <1>4 DEF IInv

LEMMA UpEndsHoldIInv ==
  ASSUME IInv, UpEndsHold
  PROVE  IInv'
PROOF
  <1>a. UpEndsHold
    OBVIOUS
  <1>1. TypeOK'
    <2>1. plan' \in [run : Nat, start : BOOLEAN, end : BOOLEAN]
      BY <1>a DEF UpEndsHold, Nothing
    <2>2. holdTimer' \in [gen : Nat, left : Nat] /\ gapTimer' \in [gen : Nat, left : Nat]
      BY <1>a DEF UpEndsHold, UpBegins, NoTimer, IInv, TypeOK
    <2>3. gen' \in Nat /\ count' \in Nat /\ presses' \in Nat /\ reported' \in Nat
      BY <1>a DEF UpEndsHold, UpBegins, IInv, TypeOK
    <2>4. QED
      BY <1>a, <2>1, <2>2, <2>3, Zenon DEF UpEndsHold, UpBegins, IInv, TypeOK
  <1>2. EveryPressOnce'
    BY <1>a DEF UpEndsHold, IInv, TypeOK, EveryPressOnce, LocksAgree, HoldingAgrees,
       Planned, Undecided, UpBegins, Nothing, NoTimer
  <1>3. LocksAgree' /\ HoldingAgrees'
    BY <1>a DEF UpEndsHold, IInv, TypeOK, LocksAgree, HoldingAgrees, UpBegins, Nothing, NoTimer
  <1>4. TimersAgree'
    BY <1>a, TimesAreNat DEF UpEndsHold, IInv, TypeOK, TimersAgree, FreshHold, FreshGap,
       HoldingAgrees, LocksAgree, Armed, UpBegins, Nothing, NoTimer
  <1>5. QED
    BY <1>1, <1>2, <1>3, <1>4 DEF IInv

LEMMA UpLateHoldIInv ==
  ASSUME IInv, UpLateHold
  PROVE  IInv'
PROOF
  <1>a. UpLateHold
    OBVIOUS
  <1>1. TypeOK'
    BY <1>a, TimesAreNat DEF UpLateHold, IInv, TypeOK, UpBegins, Nothing, NoTimer
  <1>2. EveryPressOnce'
    BY <1>a DEF UpLateHold, IInv, TypeOK, EveryPressOnce, LocksAgree, HoldingAgrees,
       Planned, Undecided, UpBegins, Nothing, NoTimer
  <1>3. LocksAgree' /\ HoldingAgrees'
    BY <1>a DEF UpLateHold, IInv, TypeOK, LocksAgree, HoldingAgrees, UpBegins, Nothing, NoTimer
  <1>4. TimersAgree'
    BY <1>a, TimesAreNat DEF UpLateHold, IInv, TypeOK, TimersAgree, FreshHold, FreshGap,
       HoldingAgrees, LocksAgree, Armed, UpBegins, Nothing, NoTimer
  <1>5. QED
    BY <1>1, <1>2, <1>3, <1>4 DEF IInv

LEMMA UpCountsIInv ==
  ASSUME IInv, UpCounts
  PROVE  IInv'
PROOF
  <1>a. UpCounts
    OBVIOUS
  <1>1. TypeOK'
    BY <1>a, TimesAreNat DEF UpCounts, IInv, TypeOK, UpBegins, Nothing, NoTimer
  <1>2. EveryPressOnce'
    BY <1>a DEF UpCounts, IInv, TypeOK, EveryPressOnce, LocksAgree, HoldingAgrees,
       Planned, Undecided, UpBegins, Nothing, NoTimer
  <1>3. LocksAgree' /\ HoldingAgrees'
    BY <1>a DEF UpCounts, IInv, TypeOK, LocksAgree, HoldingAgrees, UpBegins, Nothing, NoTimer
  <1>4. TimersAgree'
    BY <1>a, TimesAreNat DEF UpCounts, IInv, TypeOK, TimersAgree, FreshHold, FreshGap,
       HoldingAgrees, LocksAgree, Armed, UpBegins, Nothing, NoTimer
  <1>5. QED
    BY <1>1, <1>2, <1>3, <1>4 DEF IInv

LEMMA HoldTimerFiresIInv ==
  ASSUME IInv, HoldTimerFires
  PROVE  IInv'
PROOF
  <1>a. HoldTimerFires
    OBVIOUS
  <1>1. TypeOK'
    BY <1>a, TimesAreNat DEF HoldTimerFires, IInv, TypeOK, Fires, Nothing, NoTimer
  <1>2. EveryPressOnce'
    BY <1>a DEF HoldTimerFires, IInv, TypeOK, EveryPressOnce, LocksAgree, HoldingAgrees,
       Planned, Undecided, Fires, Nothing, NoTimer
  <1>3. LocksAgree' /\ HoldingAgrees'
    BY <1>a DEF HoldTimerFires, IInv, TypeOK, LocksAgree, HoldingAgrees, Fires, Nothing, NoTimer
  <1>4. TimersAgree'
    BY <1>a, TimesAreNat DEF HoldTimerFires, IInv, TypeOK, TimersAgree, FreshHold, FreshGap,
       HoldingAgrees, LocksAgree, Armed, Fires, Nothing, NoTimer
  <1>5. QED
    BY <1>1, <1>2, <1>3, <1>4 DEF IInv

LEMMA GapTimerFiresIInv ==
  ASSUME IInv, GapTimerFires
  PROVE  IInv'
PROOF
  <1>a. GapTimerFires
    OBVIOUS
  <1>1. TypeOK'
    BY <1>a, TimesAreNat DEF GapTimerFires, IInv, TypeOK, Fires, Nothing, NoTimer
  <1>2. EveryPressOnce'
    BY <1>a DEF GapTimerFires, IInv, TypeOK, EveryPressOnce, LocksAgree, HoldingAgrees,
       Planned, Undecided, Fires, Nothing, NoTimer
  <1>3. LocksAgree' /\ HoldingAgrees'
    BY <1>a DEF GapTimerFires, IInv, TypeOK, LocksAgree, HoldingAgrees, Fires, Nothing, NoTimer
  <1>4. TimersAgree'
    BY <1>a, TimesAreNat DEF GapTimerFires, IInv, TypeOK, TimersAgree, FreshHold, FreshGap,
       HoldingAgrees, LocksAgree, Armed, Fires, Nothing, NoTimer
  <1>5. QED
    BY <1>1, <1>2, <1>3, <1>4 DEF IInv

LEMMA StaleIInv ==
  ASSUME IInv, NEW t \in fired, Stale(t)
  PROVE  IInv'
PROOF
  <1>a. Stale(t)
    OBVIOUS
  <1>1. TypeOK'
    BY <1>a, TimesAreNat DEF Stale, IInv, TypeOK, Takes, Nothing, NoTimer
  <1>2. EveryPressOnce'
    BY <1>a DEF Stale, IInv, TypeOK, EveryPressOnce, LocksAgree, HoldingAgrees,
       Planned, Undecided, Takes, Nothing, NoTimer
  <1>3. LocksAgree' /\ HoldingAgrees'
    BY <1>a DEF Stale, IInv, TypeOK, LocksAgree, HoldingAgrees, Takes, Nothing, NoTimer
  <1>4. TimersAgree'
    BY <1>a, TimesAreNat DEF Stale, IInv, TypeOK, TimersAgree, FreshHold, FreshGap,
       HoldingAgrees, LocksAgree, Armed, Takes, Nothing, NoTimer
  <1>5. QED
    BY <1>1, <1>2, <1>3, <1>4 DEF IInv

LEMMA HeldIInv ==
  ASSUME IInv, NEW t \in fired, Held(t)
  PROVE  IInv'
PROOF
  <1>a. Held(t)
    OBVIOUS
  <1>b. FreshHold
    BY <1>a DEF Held, Takes, IInv, TimersAgree
  <1>1. TypeOK'
    BY <1>a, TimesAreNat DEF Held, IInv, TypeOK, Takes, Nothing, NoTimer
  <1>2. EveryPressOnce'
    <2>1. plan.run = 0 /\ ~plan.start
      BY <1>a DEF Held, Takes, Nothing, IInv, LocksAgree
    <2>2. reported + count + 1 = presses
      BY <2>1, <1>b DEF FreshHold, IInv, TypeOK, EveryPressOnce, Planned, Undecided
    <2>3. plan'.run = count /\ plan'.start /\ holding' /\ count' = 0
          /\ UNCHANGED <<reported, presses>>
      BY <1>a DEF Held, Takes
    <2>4. QED
      BY <2>2, <2>3 DEF IInv, TypeOK, EveryPressOnce, Planned, Undecided
  <1>3. LocksAgree' /\ HoldingAgrees'
    BY <1>a, <1>b DEF FreshHold, Held, IInv, TypeOK, LocksAgree, HoldingAgrees, Takes, Nothing, NoTimer
  <1>4. TimersAgree'
    BY <1>a, TimesAreNat DEF Held, IInv, TypeOK, TimersAgree, FreshHold, FreshGap,
       HoldingAgrees, LocksAgree, Armed, Takes, Nothing, NoTimer
  <1>5. QED
    BY <1>1, <1>2, <1>3, <1>4 DEF IInv

LEMMA ClosedIInv ==
  ASSUME IInv, NEW t \in fired, Closed(t)
  PROVE  IInv'
PROOF
  <1>a. Closed(t)
    OBVIOUS
  <1>1. TypeOK'
    <2>1. plan' \in [run : Nat, start : BOOLEAN, end : BOOLEAN]
      BY <1>a DEF Closed, Takes, Nothing, IInv, TypeOK
    <2>2. holdTimer' \in [gen : Nat, left : Nat] /\ gapTimer' \in [gen : Nat, left : Nat]
      BY <1>a DEF Closed, Takes, NoTimer, IInv, TypeOK
    <2>3. QED
      BY <1>a, <2>1, <2>2 DEF Closed, Takes, IInv, TypeOK
  <1>2. EveryPressOnce'
    BY <1>a DEF Closed, IInv, TypeOK, EveryPressOnce, LocksAgree, HoldingAgrees,
       Planned, Undecided, Takes, Nothing, NoTimer
  <1>3. LocksAgree' /\ HoldingAgrees'
    BY <1>a DEF Closed, IInv, TypeOK, LocksAgree, HoldingAgrees, Takes, Nothing, NoTimer
  <1>4. TimersAgree'
    BY <1>a, TimesAreNat DEF Closed, IInv, TypeOK, TimersAgree, FreshHold, FreshGap,
       HoldingAgrees, LocksAgree, Armed, Takes, Nothing, NoTimer
  <1>5. QED
    BY <1>1, <1>2, <1>3, <1>4 DEF IInv

LEMMA FireRunIInv ==
  ASSUME IInv, FireRun
  PROVE  IInv'
PROOF
  <1>a. FireRun
    OBVIOUS
  <1>1. TypeOK'
    BY <1>a, TimesAreNat DEF FireRun, IInv, TypeOK, Fired, Nothing
  <1>2. EveryPressOnce'
    BY <1>a DEF FireRun, IInv, TypeOK, EveryPressOnce, LocksAgree, HoldingAgrees,
       Planned, Undecided, Fired, Nothing
  <1>3. LocksAgree' /\ HoldingAgrees'
    BY <1>a DEF FireRun, IInv, TypeOK, LocksAgree, HoldingAgrees, Fired, Nothing
  <1>4. TimersAgree'
    BY <1>a, TimesAreNat DEF FireRun, IInv, TypeOK, TimersAgree, FreshHold, FreshGap,
       HoldingAgrees, LocksAgree, Armed, Fired, Nothing
  <1>5. QED
    BY <1>1, <1>2, <1>3, <1>4 DEF IInv

LEMMA FireLongStartIInv ==
  ASSUME IInv, FireLongStart
  PROVE  IInv'
PROOF
  <1>a. FireLongStart
    OBVIOUS
  <1>1. TypeOK'
    <2>1. plan' \in [run : Nat, start : BOOLEAN, end : BOOLEAN]
      BY <1>a DEF FireLongStart, Fired, IInv, TypeOK
    <2>2. QED
      BY <1>a, <2>1 DEF FireLongStart, Fired, IInv, TypeOK
  <1>2. EveryPressOnce'
    BY <1>a DEF FireLongStart, IInv, TypeOK, EveryPressOnce, LocksAgree, HoldingAgrees,
       Planned, Undecided, Fired, Nothing
  <1>3. LocksAgree' /\ HoldingAgrees'
    <2>1. plan.run = 0 /\ plan.start /\ plan'.run = 0 /\ ~plan'.start
          /\ plan'.end = plan.end
      BY <1>a DEF FireLongStart, Fired, IInv, TypeOK
    <2>2. plan' = Nothing <=> ~plan.end
      BY <1>a DEF FireLongStart, Fired, Nothing, IInv, TypeOK
    <2>3. plan # Nothing /\ count = 0 /\ (holding \/ loop = "reporting")
      BY <2>1 DEF Nothing, IInv, LocksAgree
    <2>4. LocksAgree'
      BY <1>a, <2>1, <2>2, <2>3 DEF FireLongStart, Fired, IInv, LocksAgree, HoldingAgrees
    <2>5. HoldingAgrees'
      BY <1>a, <2>1, <2>2, <2>3 DEF FireLongStart, Fired, IInv, LocksAgree, HoldingAgrees
    <2>6. QED
      BY <2>4, <2>5
  <1>4. TimersAgree'
    BY <1>a, TimesAreNat DEF FireLongStart, IInv, TypeOK, TimersAgree, FreshHold, FreshGap,
       HoldingAgrees, LocksAgree, Armed, Fired, Nothing
  <1>5. QED
    BY <1>1, <1>2, <1>3, <1>4 DEF IInv

LEMMA FireLongEndIInv ==
  ASSUME IInv, FireLongEnd
  PROVE  IInv'
PROOF
  <1>a. FireLongEnd
    OBVIOUS
  <1>1. TypeOK'
    BY <1>a, TimesAreNat DEF FireLongEnd, IInv, TypeOK, Fired, Nothing
  <1>2. EveryPressOnce'
    BY <1>a DEF FireLongEnd, IInv, TypeOK, EveryPressOnce, LocksAgree, HoldingAgrees,
       Planned, Undecided, Fired, Nothing
  <1>3. LocksAgree' /\ HoldingAgrees'
    BY <1>a DEF FireLongEnd, IInv, TypeOK, LocksAgree, HoldingAgrees, Fired, Nothing
  <1>4. TimersAgree'
    BY <1>a, TimesAreNat DEF FireLongEnd, IInv, TypeOK, TimersAgree, FreshHold, FreshGap,
       HoldingAgrees, LocksAgree, Armed, Fired, Nothing
  <1>5. QED
    BY <1>1, <1>2, <1>3, <1>4 DEF IInv

LEMMA TickIInv ==
  ASSUME IInv, Tick
  PROVE  IInv'
PROOF
  <1>a. Tick
    OBVIOUS
  <1>1. TypeOK'
    BY <1>a, TimesAreNat DEF Tick, IInv, TypeOK, Ticked
  <1>2. EveryPressOnce'
    BY <1>a DEF Tick, IInv, TypeOK, EveryPressOnce, LocksAgree, HoldingAgrees,
       Planned, Undecided, Ticked
  <1>3. LocksAgree' /\ HoldingAgrees'
    BY <1>a DEF Tick, IInv, TypeOK, LocksAgree, HoldingAgrees, Ticked
  <1>4. TimersAgree'
    BY <1>a, TimesAreNat DEF Tick, IInv, TypeOK, TimersAgree, FreshHold, FreshGap,
       HoldingAgrees, LocksAgree, Armed, Ticked
  <1>5. QED
    BY <1>1, <1>2, <1>3, <1>4 DEF IInv

LEMMA StepIInv == IInv /\ [Next]_vars => IInv'
<1> SUFFICES ASSUME IInv, [Next]_vars PROVE IInv'
  OBVIOUS
<1>1. CASE KeyDown \/ Down \/ KeyUp
  BY <1>1, KeyDownIInv, DownIInv, KeyUpIInv
<1>2. CASE Up
  BY <1>2, UpEndsHoldIInv, UpLateHoldIInv, UpCountsIInv DEF Up
<1>3. CASE HoldTimerFires \/ GapTimerFires
  BY <1>3, HoldTimerFiresIInv, GapTimerFiresIInv
<1>4. ASSUME NEW t \in fired, Stale(t) \/ Held(t) \/ Closed(t) PROVE IInv'
  BY <1>4, StaleIInv, HeldIInv, ClosedIInv
<1>5. CASE Fire
  BY <1>5, FireRunIInv, FireLongStartIInv, FireLongEndIInv DEF Fire
<1>6. CASE Tick
  BY <1>6, TickIInv
<1>7. CASE UNCHANGED vars
  BY <1>7 DEF vars, IInv, TypeOK, EveryPressOnce, LocksAgree, HoldingAgrees,
     TimersAgree, FreshHold, FreshGap, Planned, Undecided, Armed
<1>8. QED
  BY <1>1, <1>2, <1>3, <1>4, <1>5, <1>6, <1>7 DEF Next

THEOREM Inductive == Spec => []IInv
  BY InitIInv, StepIInv, PTL DEF Spec

\* MultiPress never leaves its types, for every HoldTime, Gap and MaxPresses.
THEOREM GesturesType == Spec => []TypeOK
<1>1. IInv => TypeOK
  BY DEF IInv
<1>2. QED
  BY Inductive, <1>1, PTL

\* No press is lost or reported twice, whichever of Up, held and closed gets
\* m.out first and however late a timer fires.
THEOREM PressesConserved == Spec => []EveryPressOnce
<1>1. IInv => EveryPressOnce
  BY DEF IInv
<1>2. QED
  BY Inductive, <1>1, PTL

\* Only a timer armed by the latest key event decides anything: closed never
\* ends a run while a key is down.
THEOREM RunsCloseOpen == Spec => NoRunClosesUnderAKey
<1>1. IInv /\ [Next]_vars =>
        [\A t \in fired : Closed(t) => loop \in {"up", "pressed"}]_vars
  BY DEF IInv, TimersAgree, FreshGap, Closed
<1>2. QED
  BY Inductive, <1>1, PTL DEF Spec, NoRunClosesUnderAKey

\* A hold is declared only for the press under the finger, HoldTime into it.
THEOREM HoldsEarned == Spec => HoldsAreEarned
<1>1. IInv /\ [Next]_vars =>
        [holding' /\ ~holding =>
           loop \in {"down", "released"} /\ sinceDown >= HoldTime]_vars
  <2> SUFFICES ASSUME IInv, Next, holding', ~holding
               PROVE  loop \in {"down", "released"} /\ sinceDown >= HoldTime
    BY DEF vars
  <2>1. ASSUME NEW t \in fired, Held(t)
        PROVE  loop \in {"down", "released"} /\ sinceDown >= HoldTime
    BY <2>1 DEF IInv, TimersAgree, FreshHold, Held, Takes
  <2>2. \E t \in fired : Held(t)
    BY DEF Next, KeyDown, Down, KeyUp, Up, UpEndsHold, UpLateHold, UpCounts,
       HoldTimerFires, GapTimerFires, Fires, Stale, Closed, Fire, FireRun,
       FireLongStart, FireLongEnd, Fired, Tick
  <2>3. QED
    BY <2>1, <2>2
<1>2. QED
  BY Inductive, <1>1, PTL DEF Spec, HoldsAreEarned

-----------------------------------------------------------------------------
(* The refinement: what each action is in GestureReports.                  *)

LEMMA InitImplements == Init => GestureContract!Init
  BY DEF Init, GestureContract!Init

LEMMA FireImplements ==
  ASSUME IInv, Fire
  PROVE  GestureContract!ReportRun \/ GestureContract!LongStart
         \/ GestureContract!LongEnd
<1>1. CASE FireRun
  <2>1. ~inHold
    BY <1>1 DEF FireRun, IInv, TypeOK, LocksAgree, HoldingAgrees
  <2>2. loop' \notin {"pressed", "down"} <=> loop \notin {"pressed", "down"}
    BY <1>1 DEF FireRun, Fired, IInv, LocksAgree
  <2>3. reported' = reported + plan.run /\ UNCHANGED <<presses, inHold>>
    BY <1>1 DEF FireRun, Fired
  <2>4. loop \in {"pressed", "down"} => reported + plan.run + 1 <= presses
    BY <1>1 DEF FireRun, IInv, TypeOK, EveryPressOnce, LocksAgree, HoldingAgrees,
       Planned, Undecided
  <2>5. reported + plan.run <= presses
    BY DEF IInv, TypeOK, EveryPressOnce, Planned, Undecided
  <2>6. plan.run \in Nat /\ plan.run > 0 /\ reported \in Nat /\ presses \in Nat
    BY <1>1 DEF FireRun, IInv, TypeOK
  <2>7. QED
    BY <2>1, <2>2, <2>3, <2>4, <2>5, <2>6 DEF GestureContract!ReportRun
<1>2. CASE FireLongStart
  <2>1. ~inHold /\ count = 0 /\ (holding \/ loop = "reporting")
    BY <1>2 DEF FireLongStart, IInv, LocksAgree, HoldingAgrees
  <2>2. reported + 1 = presses
    BY <1>2, <2>1 DEF FireLongStart, IInv, TypeOK, EveryPressOnce, Planned, Undecided
  <2>3. loop' \notin {"pressed", "down"} <=> loop \notin {"pressed", "down"}
    BY <1>2 DEF FireLongStart, Fired, IInv, LocksAgree
  <2>4. reported' = presses /\ inHold' = TRUE /\ presses' = presses
    BY <1>2, <2>2 DEF FireLongStart, Fired
  <2>5. QED
    BY <2>1, <2>2, <2>3, <2>4 DEF GestureContract!LongStart
<1>3. CASE FireLongEnd
  BY <1>3 DEF FireLongEnd, Fired, IInv, LocksAgree, HoldingAgrees,
     GestureContract!LongEnd
<1>4. QED
  BY <1>1, <1>2, <1>3 DEF Fire

LEMMA StepImplements ==
  IInv /\ [Next]_vars => [GestureContract!Next]_(GestureContract!vars)
<1> SUFFICES ASSUME IInv, [Next]_vars
             PROVE  [GestureContract!Next]_(GestureContract!vars)
  OBVIOUS
<1>1. CASE KeyDown
  BY <1>1 DEF KeyDown, IInv, TypeOK, GestureContract!Next, GestureContract!Press
<1>2. CASE KeyUp
  BY <1>2 DEF KeyUp, IInv, TypeOK, GestureContract!Next, GestureContract!Release
<1>3. CASE Down \/ HoldTimerFires \/ GapTimerFires \/ Tick \/ UNCHANGED vars
  BY <1>3 DEF Down, HoldTimerFires, GapTimerFires, Fires, Tick, vars,
     GestureContract!vars
<1>4. CASE Up
  BY <1>4 DEF Up, UpEndsHold, UpLateHold, UpCounts, UpBegins, GestureContract!vars
<1>5. ASSUME NEW t \in fired, Stale(t) \/ Held(t) \/ Closed(t)
      PROVE  UNCHANGED GestureContract!vars
  BY <1>5 DEF Stale, Held, Closed, Takes, GestureContract!vars
<1>6. CASE Fire
  BY <1>6, FireImplements DEF GestureContract!Next
<1>7. QED
  BY <1>1, <1>2, <1>3, <1>4, <1>5, <1>6 DEF Next

\* MultiPress implements the contract: runs report only finished presses, a
\* hold is the latest press, and nothing comes between its start and its end.
THEOREM GesturesImplement == Spec => Implements
  BY Inductive, InitImplements, StepImplements, PTL
  DEF Spec, Implements, GestureContract!Spec
=============================================================================
