------------------------------ MODULE Gestures ------------------------------
(***************************************************************************)
(* internal/button/button.go: MultiPress, the recogniser that turns the    *)
(* key-downs and key-ups of one button into gestures.  Three goroutines    *)
(* meet in it: the read loop (Down, Up), the timer that declares a hold    *)
(* (held) and the timer that closes a run (closed).                        *)
(*                                                                         *)
(* Locks.  Each critical section of m.mu is one action.  m.out is held     *)
(* from the decision of Up, held or closed until its last gesture has      *)
(* been fired; it is the variable out, and plan is what its holder has     *)
(* still to fire.  m.out is always taken right before m.mu, and only Down  *)
(* can run between the two, which takes no m.out: taking both is one step. *)
(*                                                                         *)
(* Time is relative.  sinceDown saturates at HoldTime, since the code only *)
(* compares it with holdTime, and a timer counts down to zero, after which *)
(* it may fire at any moment: AfterFunc promises "not before" only.        *)
(***************************************************************************)
EXTENDS Naturals

CONSTANTS
  HoldTime,    \* holdTime, in ticks
  Gap,         \* gap, in ticks
  MaxPresses   \* bound: key-downs in a behaviour

ASSUME TimesAreNat == HoldTime \in Nat \ {0} /\ Gap \in Nat
ASSUME PressesAreNat == MaxPresses \in Nat

VARIABLES
  loop,       \* where the read loop is with the current press
  sinceDown,  \* time since w.pressedAt, saturating
  heldFor,    \* the duration the release carries to Up
  gen, count, holding,
  holdTimer, gapTimer,  \* the armed timer, or NoTimer once it fired or stopped
  fired,      \* goroutines of fired timers that have not taken m.out yet
  out, plan,
  \* history: presses made, presses reported, a hold reported and not ended
  presses, reported, inHold

vars == <<loop, sinceDown, heldFor, gen, count, holding, holdTimer, gapTimer,
          fired, out, plan, presses, reported, inHold>>

NoTimer == [gen |-> 0, left |-> 0]
Armed(timer) == timer.gen > 0

\* The gestures a holder of m.out has still to fire, in this order.
Nothing == [run |-> 0, start |-> FALSE, end |-> FALSE]

TypeOK ==
  /\ loop \in {"up", "pressed", "down", "released", "reporting"}
  /\ sinceDown \in 0..HoldTime /\ heldFor \in 0..HoldTime
  /\ gen \in Nat /\ count \in Nat /\ holding \in BOOLEAN
  /\ holdTimer \in [gen : Nat, left : Nat]
  /\ gapTimer \in [gen : Nat, left : Nat]
  /\ fired \subseteq [kind : {"hold", "gap"}, gen : Nat]
  /\ out \in {"free", "loop", "timer"}
  /\ plan \in [run : Nat, start : BOOLEAN, end : BOOLEAN]
  /\ presses \in Nat /\ reported \in Nat /\ inHold \in BOOLEAN

Init ==
  /\ loop = "up" /\ sinceDown = 0 /\ heldFor = 0
  /\ gen = 0 /\ count = 0 /\ holding = FALSE
  /\ holdTimer = NoTimer /\ gapTimer = NoTimer /\ fired = {}
  /\ out = "free" /\ plan = Nothing
  /\ presses = 0 /\ reported = 0 /\ inHold = FALSE

-----------------------------------------------------------------------------
(* The read loop *)

\* route reads a key-down and stamps w.pressedAt.
KeyDown ==
  /\ loop = "up" /\ presses < MaxPresses
  /\ loop' = "pressed" /\ sinceDown' = 0 /\ presses' = presses + 1
  /\ UNCHANGED <<heldFor, gen, count, holding, holdTimer, gapTimer, fired,
                 out, plan, reported, inHold>>

\* Slip: Down leaves the generation alone.
DownKeepsGen ==
  /\ loop = "pressed"
  /\ loop' = "down"
  /\ gapTimer' = NoTimer
  /\ holdTimer' = [gen |-> gen, left |-> HoldTime]
  /\ UNCHANGED <<sinceDown, heldFor, gen, count, holding, fired, out, plan,
                 presses, reported, inHold>>

Down ==
  /\ loop = "pressed"
  /\ loop' = "down"
  /\ gen' = gen + 1
  /\ gapTimer' = NoTimer
  /\ holdTimer' = [gen |-> gen + 1, left |-> HoldTime]
  /\ UNCHANGED <<sinceDown, heldFor, count, holding, fired, out, plan,
                 presses, reported, inHold>>

\* route reads the key-up and computes held before it calls Up.
KeyUp ==
  /\ loop = "down"
  /\ loop' = "released" /\ heldFor' = sinceDown
  /\ UNCHANGED <<sinceDown, gen, count, holding, holdTimer, gapTimer, fired,
                 out, plan, presses, reported, inHold>>

UpBegins ==
  /\ loop = "released" /\ out = "free"
  /\ gen' = gen + 1
  /\ holdTimer' = NoTimer
  /\ UNCHANGED <<sinceDown, heldFor, fired, presses, reported, inHold>>

\* Up after the hold was reported: only its end is left to say.
UpEndsHold ==
  /\ UpBegins
  /\ holding
  /\ holding' = FALSE
  /\ loop' = "reporting" /\ out' = "loop"
  /\ plan' = [run |-> 0, start |-> FALSE, end |-> TRUE]
  /\ UNCHANGED <<count, gapTimer>>

\* Up when the hold timer lost to the release: the duration decides.
UpLateHold ==
  /\ UpBegins
  /\ ~holding /\ heldFor >= HoldTime
  /\ count' = 0
  /\ loop' = "reporting" /\ out' = "loop"
  /\ plan' = [run |-> count, start |-> TRUE, end |-> TRUE]
  /\ UNCHANGED <<holding, gapTimer>>

\* Slip: Up counts the press and arms no timer.
UpArmsNothing ==
  /\ UpBegins
  /\ ~holding /\ heldFor < HoldTime
  /\ count' = count + 1
  /\ loop' = "up"
  /\ UNCHANGED <<holding, gapTimer, out, plan>>

\* Up of a short press: it joins the run, and the gap starts.
UpCounts ==
  /\ UpBegins
  /\ ~holding /\ heldFor < HoldTime
  /\ count' = count + 1
  /\ gapTimer' = [gen |-> gen + 1, left |-> Gap]
  /\ loop' = "up"
  /\ UNCHANGED <<holding, out, plan>>

Up == UpEndsHold \/ UpLateHold \/ UpCounts

-----------------------------------------------------------------------------
(* The timers *)

Fires(kind, timer) ==
  /\ Armed(timer) /\ timer.left = 0
  /\ fired' = fired \union {[kind |-> kind, gen |-> timer.gen]}
  /\ UNCHANGED <<loop, sinceDown, heldFor, gen, count, holding, out, plan,
                 presses, reported, inHold>>

HoldTimerFires ==
  Fires("hold", holdTimer) /\ holdTimer' = NoTimer /\ UNCHANGED gapTimer

GapTimerFires ==
  Fires("gap", gapTimer) /\ gapTimer' = NoTimer /\ UNCHANGED holdTimer

\* What held and closed share: one goroutine takes both locks and checks
\* that no key event came after the timer was armed.
Takes(t) ==
  /\ t \in fired /\ out = "free"
  /\ fired' = fired \ {t}
  /\ UNCHANGED <<loop, sinceDown, heldFor, gen, presses, reported, inHold>>

Stale(t) ==
  /\ Takes(t)
  /\ t.gen # gen
  /\ UNCHANGED <<count, holding, holdTimer, gapTimer, out, plan>>

\* Slips: held leaves the run counted, or does not look at the generation.
HeldKeepsRun(t) ==
  /\ t.kind = "hold"
  /\ Takes(t)
  /\ t.gen = gen
  /\ holding' = TRUE /\ holdTimer' = NoTimer
  /\ out' = "timer"
  /\ plan' = [run |-> count, start |-> TRUE, end |-> FALSE]
  /\ UNCHANGED <<count, gapTimer>>

HeldWhateverCame(t) ==
  /\ t.kind = "hold"
  /\ Takes(t)
  /\ count' = 0 /\ holding' = TRUE /\ holdTimer' = NoTimer
  /\ out' = "timer"
  /\ plan' = [run |-> count, start |-> TRUE, end |-> FALSE]
  /\ UNCHANGED gapTimer

Held(t) ==
  /\ t.kind = "hold"
  /\ Takes(t)
  /\ t.gen = gen
  /\ count' = 0 /\ holding' = TRUE /\ holdTimer' = NoTimer
  /\ out' = "timer"
  /\ plan' = [run |-> count, start |-> TRUE, end |-> FALSE]
  /\ UNCHANGED gapTimer

\* report does nothing for a count of zero, so m.out is free at once then.
Closed(t) ==
  /\ t.kind = "gap"
  /\ Takes(t)
  /\ t.gen = gen
  /\ count' = 0 /\ gapTimer' = NoTimer
  /\ out' = IF count = 0 THEN "free" ELSE "timer"
  /\ plan' = [Nothing EXCEPT !.run = count]
  /\ UNCHANGED <<holding, holdTimer>>

-----------------------------------------------------------------------------
(* The holder of m.out fires what it planned, one call of m.fire a step,   *)
(* and unlocks after the last.                                             *)

Fired(left) ==
  /\ out # "free"
  /\ plan' = left
  /\ out' = IF left = Nothing THEN "free" ELSE out
  /\ loop' = IF left = Nothing /\ out = "loop" THEN "up" ELSE loop
  /\ UNCHANGED <<sinceDown, heldFor, gen, count, holding, holdTimer,
                 gapTimer, fired, presses>>

FireRun ==
  /\ plan.run > 0
  /\ Fired([plan EXCEPT !.run = 0])
  /\ reported' = reported + plan.run
  /\ UNCHANGED inHold

\* Slip: the hold is said before the run in front of it.
FireStartFirst ==
  /\ plan.start
  /\ Fired([plan EXCEPT !.start = FALSE])
  /\ reported' = reported + 1 /\ inHold' = TRUE

FireLongStart ==
  /\ plan.run = 0 /\ plan.start
  /\ Fired([plan EXCEPT !.start = FALSE])
  /\ reported' = reported + 1 /\ inHold' = TRUE

FireLongEnd ==
  /\ plan.run = 0 /\ ~plan.start /\ plan.end
  /\ Fired([plan EXCEPT !.end = FALSE])
  /\ inHold' = FALSE
  /\ UNCHANGED reported

Fire == FireRun \/ FireLongStart \/ FireLongEnd

Ticked(timer) == [timer EXCEPT !.left = IF @ = 0 THEN 0 ELSE @ - 1]

Tick ==
  /\ sinceDown' = IF sinceDown = HoldTime THEN HoldTime ELSE sinceDown + 1
  /\ holdTimer' = Ticked(holdTimer) /\ gapTimer' = Ticked(gapTimer)
  /\ UNCHANGED <<loop, heldFor, gen, count, holding, fired, out, plan,
                 presses, reported, inHold>>

Next ==
  \/ KeyDown \/ Down \/ KeyUp \/ Up
  \/ HoldTimerFires \/ GapTimerFires
  \/ \E t \in fired : Stale(t) \/ Held(t) \/ Closed(t)
  \/ Fire
  \/ Tick

Spec == Init /\ [][Next]_vars

\* Time passes, goroutines run, and a lock that keeps being freed is taken in
\* the end (sync.Mutex hands over to a waiter that starves).  A finger owes
\* nothing: neither KeyDown nor KeyUp is fair.
Fairness ==
  /\ WF_vars(Tick) /\ WF_vars(Down) /\ SF_vars(Up) /\ WF_vars(Fire)
  /\ WF_vars(HoldTimerFires) /\ WF_vars(GapTimerFires)
  /\ SF_vars(\E t \in fired : Stale(t) \/ Held(t) \/ Closed(t))

FairSpec == Spec /\ Fairness

-----------------------------------------------------------------------------
(* Properties *)

\* The current press, while nothing has yet counted it or planned its report.
Undecided == IF loop \in {"pressed", "down", "released"} /\ ~holding THEN 1 ELSE 0

Planned == plan.run + (IF plan.start THEN 1 ELSE 0)

\* No press is lost and none is reported twice, whatever the order in which
\* the release and the two timers get the locks: each one is reported, about
\* to be, in the open run, or still under the finger.
EveryPressOnce == reported + Planned + count + Undecided = presses

\* A run cannot close while a key is down (button.go: closed checks the
\* generation the key-down bumped), or a press held inside the gap would have
\* its run closed under it and be reported again.
NoRunClosesUnderAKey ==
  [][\A t \in fired : Closed(t) => loop \in {"up", "pressed"}]_vars

\* A hold is declared only for the press the finger is on, after HoldTime of
\* it: a timer of an earlier press that fired late declares nothing.
HoldsAreEarned ==
  [][holding' /\ ~holding =>
       loop \in {"down", "released"} /\ sinceDown >= HoldTime]_vars

\* Once a hold is reported nothing but its end is, and its end never comes
\* without its start; the run in front of a hold is reported first.
GestureContract == INSTANCE GestureReports WITH
  ended <- IF loop \in {"pressed", "down"} THEN presses - 1 ELSE presses

Implements == GestureContract!Spec

\* Every press reaches Home Assistant in the end, even when the finger never
\* lifts, and so does the end of a hold: a release always gets through the
\* locks.
EveryPressReported ==
  /\ \A n \in 1..MaxPresses : presses >= n ~> reported >= n
  /\ inHold /\ loop \notin {"pressed", "down"} ~> ~inHold
=============================================================================
