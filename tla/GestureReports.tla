--------------------------- MODULE GestureReports ---------------------------
(***************************************************************************)
(* What Home Assistant is promised about the presses of one button, with   *)
(* no timer, lock or thread in sight: every press is reported exactly      *)
(* once, in the order the presses were made; a run reports only presses    *)
(* whose key has come up again; a hold is always the latest press, and     *)
(* nothing is reported between its start and its end.                      *)
(***************************************************************************)
EXTENDS Naturals

VARIABLES
  presses,   \* key-downs so far
  ended,     \* of those, the ones whose key has come up
  reported,  \* presses Home Assistant has been told of
  inHold     \* long_press_start was sent and long_press_end was not

vars == <<presses, ended, reported, inHold>>

Init == presses = 0 /\ ended = 0 /\ reported = 0 /\ inHold = FALSE

Press ==
  /\ ended = presses
  /\ presses' = presses + 1
  /\ UNCHANGED <<ended, reported, inHold>>

Release ==
  /\ ended < presses
  /\ ended' = presses
  /\ UNCHANGED <<presses, reported, inHold>>

\* press_end for a run of one press, multi_press_end above that.
ReportRun ==
  /\ ~inHold
  /\ reported' \in (reported + 1)..ended
  /\ UNCHANGED <<presses, ended, inHold>>

LongStart ==
  /\ ~inHold
  /\ reported + 1 = presses
  /\ reported' = presses
  /\ inHold' = TRUE
  /\ UNCHANGED <<presses, ended>>

LongEnd ==
  /\ inHold
  /\ ended = presses
  /\ inHold' = FALSE
  /\ UNCHANGED <<presses, ended, reported>>

Next ==
  \/ Press
  \/ Release
  \/ ReportRun
  \/ LongStart
  \/ LongEnd

Spec == Init /\ [][Next]_vars
=============================================================================
