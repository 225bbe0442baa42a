------------------------- MODULE SendspinSwitchProofs -------------------------
(***************************************************************************)
(* What the Sendspin switch keeps for any number of callers, asks,         *)
(* sessions, faults, rebuilds and restarts.  The worker's place decides    *)
(* most of it: on, off or between.  The rest is that the goroutines of a   *)
(* hold are joined before the port is closed, that a rule left over has an *)
(* account, and that Set loses no ask without another to take its place.   *)
(***************************************************************************)
EXTENDS SendspinSwitch, TLAPS

\* Where the worker is and whether the switch is on go together; while the
\* start is under way nobody has asked and nothing sweeps.
WorkerInv ==
  /\ pc \in {"boot", "listen", "allow", "publish", "withdraw", "hang", "join",
             "close", "deny", "exited"} => ~on
  /\ pc = "off" => on
  /\ pc = "boot" => wish = "boot" /\ session = 0
  /\ pc \in {"listen", "allow", "publish"} => wish \in {"on", "boot"} /\ session < MaxSessions
  /\ pc \in {"off", "withdraw", "hang", "join", "close", "deny"} => wish = "off"
  /\ pc = "idle" => wish # "boot"
  /\ pc = "flag" /\ wish = "on" => on \/ "bind" \in failed
  /\ pc = "flag" /\ wish = "off" => ~on
  /\ wish = "boot" => /\ sweeper = "none" /\ want = Empty /\ finished = {}
                      /\ \A c \in Callers : caller[c] = "idle"

\* No goroutine of a hold is left once a switch-off has joined them.
HoldInv ==
  Joined \/ on \/ pc \in {"withdraw", "hang", "join", "exited"}

\* A rule that is there is the switch's, or a sweep or a deletion that went
\* wrong accounts for it.
RuleInv ==
  rule => \/ on \/ sweeper # "done" \/ ~denied
          \/ pc \in {"publish", "withdraw", "hang", "join", "close", "deny", "exited"}

\* What is on is listened for, until the goodbye has closed it.
ListenInv ==
  /\ on \/ pc \in {"allow", "publish", "withdraw"} => listening \/ gone
  /\ ListedIsServed

\* What the worker is on its way to, or at.
Aim == CASE pc \in {"listen", "allow", "publish"} -> "on"
         [] pc \in {"off", "withdraw", "hang", "join", "close", "deny"} -> "off"
         [] OTHER -> IF on THEN "on" ELSE "off"

\* An ask in the mailbox is one of the last, unless a caller is about to drain
\* it; and with the mailbox empty and nobody in Set the worker aims at one of
\* the last, unless the port could not be bound.
MailInv ==
  /\ want # Empty => want \in finished \/ \E c \in Callers : caller[c] = "full"
  /\ pc # "exited" /\ want = Empty /\ (\A c \in Callers : caller[c] = "idle") =>
        \/ finished = {} \/ Aim \in finished
        \/ pc \in {"flag", "idle"} /\ "bind" \in failed

\* The property says what the switch is whenever the worker is through and
\* nothing has failed.
FlagInv ==
  /\ pc = "idle" /\ failed = {} => flag = on
  /\ wish = "boot" /\ pc \in {"listen", "allow", "publish"} => flag
  /\ wish = "boot" /\ pc = "flag" /\ failed = {} => flag = on

IInv == TypeOK /\ WorkerInv /\ HoldInv /\ RuleInv /\ ListenInv /\ MailInv /\ FlagInv

-----------------------------------------------------------------------------
LEMMA InitIInv == Init => IInv
<1> SUFFICES ASSUME Init PROVE IInv
  OBVIOUS
<1>1. TypeOK
  <2>1. /\ caller \in [Callers -> {"idle", "full", "drained"}]
        /\ asking \in [Callers -> Wishes]
        /\ hold \in [Sessions -> BOOLEAN]
        /\ holder \in [Sessions -> {"none", "waiting", "asserting", "done"}]
        /\ advertiser \in [Sessions -> {"none", "waiting", "allowing", "advertising", "done"}]
    BY Zenon DEF Init, Wishes
  <2>2. session \in 0..MaxSessions
    BY BoundsAssumption DEF Init
  <2>3. QED
    BY <2>1, <2>2 DEF Init, TypeOK
<1>2. WorkerInv /\ MailInv
  BY DEF Init, WorkerInv, MailInv
<1>3. HoldInv /\ RuleInv
  BY DEF Init, HoldInv, RuleInv, Joined
<1>4. ListenInv /\ FlagInv
  BY DEF Init, ListenInv, FlagInv, ListedIsServed
<1>5. QED
  BY <1>1, <1>2, <1>3, <1>4 DEF IInv

-----------------------------------------------------------------------------
(* Each part, step by step *)

LEMMA RestartTypes == IInv /\ Restart => TypeOK'
<1> SUFFICES ASSUME IInv, Restart PROVE TypeOK'
  OBVIOUS
<1>1. /\ caller' \in [Callers -> {"idle", "full", "drained"}]
      /\ hold' \in [Sessions -> BOOLEAN]
      /\ holder' \in [Sessions -> {"none", "waiting", "asserting", "done"}]
      /\ advertiser' \in [Sessions -> {"none", "waiting", "allowing", "advertising", "done"}]
  BY Zenon DEF Restart
<1>2. /\ pc' = "boot" /\ wish' = "boot" /\ session' = 0 /\ want' = Empty /\ sweeper' = "none"
      /\ gone' = FALSE /\ finished' = {} /\ denied' = TRUE /\ failed' = {}
      /\ UNCHANGED <<asking, on, listening, rule, listed, flag>>
  BY DEF Restart, surface
<1>3. 0 \in 0..MaxSessions
  BY BoundsAssumption
<1>4. QED
  BY <1>1, <1>2, <1>3 DEF IInv, TypeOK

LEMMA TypeStep == IInv /\ [Next]_vars => TypeOK'
<1> SUFFICES ASSUME IInv, [Next]_vars PROVE TypeOK'
  OBVIOUS
<1> USE BoundsAssumption
<1> USE DEF IInv, TypeOK, WorkerInv, Sessions, Wishes, Empty, mailbox, routines, surface
<1>1. CASE Boot \/ Take
  BY <1>1 DEF Boot, Fails, Take
<1>2. CASE Listen \/ Allow
  BY <1>2 DEF Listen, Fails, Allow, AllowTCP
<1>3. CASE Publish
  BY <1>3 DEF Publish
<1>4. CASE Off \/ Withdraw \/ Hang \/ Join
  BY <1>4 DEF Off, Withdraw, Hang, Join
<1>5. CASE Close \/ Deny
  BY <1>5 DEF Close, Deny, DenyTCP, Fails
<1>6. CASE Flag
  BY <1>6 DEF Flag, Fails
<1>7. CASE Sweep \/ Rebuild
  BY <1>7, ZenonT(30) DEF Sweep, DenyTCP, Fails, Rebuild
<1>8. CASE Goodbye \/ Flush \/ Exit
  BY <1>8, ZenonT(30) DEF Goodbye, Flush, Exit
<1>9. CASE Restart
  BY <1>9, RestartTypes
<1>10. ASSUME NEW c \in Callers, Set(c) \/ SetDrains(c) \/ SetRefills(c) PROVE TypeOK'
  BY <1>10, ZenonT(30) DEF Set, Usable, SetDrains, SetRefills
<1>11. ASSUME NEW n \in Sessions, Tick(n) \/ Reassert(n) PROVE TypeOK'
  BY <1>11, ZenonT(30) DEF Tick, Reassert, AllowTCP, Fails
<1>12. ASSUME NEW n \in Sessions, Reachable(n) \/ AllowAgain(n) \/ Advertise(n) PROVE TypeOK'
  BY <1>12, ZenonT(30) DEF Reachable, AllowAgain, Advertise, AllowTCP, Fails
<1>13. CASE UNCHANGED vars
  BY <1>13 DEF vars
<1>14. QED
  BY <1>1, <1>2, <1>3, <1>4, <1>5, <1>6, <1>7, <1>8, <1>9, <1>10, <1>11, <1>12, <1>13 DEF Next,
     Worker, Holder, Advertiser

LEMMA WorkerStep == IInv /\ [Next]_vars => WorkerInv'
<1> SUFFICES ASSUME IInv, [Next]_vars PROVE WorkerInv'
  OBVIOUS
<1> USE BoundsAssumption
<1> USE DEF IInv, TypeOK, WorkerInv, Wishes, Empty, mailbox, routines, surface
<1>1. CASE Boot \/ Take
  BY <1>1 DEF Boot, Take
<1>2. CASE Listen
  BY <1>2 DEF Listen
<1>3. CASE Allow
  BY <1>3 DEF Allow
<1>4. CASE Publish
  BY <1>4 DEF Publish
<1>5. CASE Off \/ Withdraw \/ Hang \/ Join
  BY <1>5 DEF Off, Withdraw, Hang, Join
<1>6. CASE Close \/ Deny
  BY <1>6 DEF Close, Deny
<1>7. CASE Flag
  BY <1>7 DEF Flag
<1>8. CASE Sweep
  BY <1>8 DEF Sweep
<1>9. CASE Exit
  BY <1>9 DEF Exit
<1>10. CASE Restart
  BY <1>10 DEF Restart
<1>11. ASSUME NEW c \in Callers, Set(c) \/ SetDrains(c) \/ SetRefills(c) PROVE WorkerInv'
  BY <1>11 DEF Set, Usable, SetDrains, SetRefills
<1>12. CASE Rebuild \/ Goodbye \/ Flush \/ UNCHANGED vars
  <2>1. UNCHANGED <<pc, wish, on, session, sweeper, want, finished, caller, failed>>
    BY <1>12 DEF Rebuild, Goodbye, Flush, vars
  <2>2. QED
    BY <2>1
<1>13. ASSUME NEW n \in Sessions, Tick(n) \/ Reassert(n) PROVE WorkerInv'
  <2>1. UNCHANGED <<pc, wish, on, session, sweeper, want, finished, caller, failed>>
    BY <1>13 DEF Tick, Reassert
  <2>2. QED
    BY <2>1
<1>14. ASSUME NEW n \in Sessions, Reachable(n) \/ AllowAgain(n) \/ Advertise(n) PROVE WorkerInv'
  <2>1. UNCHANGED <<pc, wish, on, session, sweeper, want, finished, caller, failed>>
    BY <1>14 DEF Reachable, AllowAgain, Advertise
  <2>2. QED
    BY <2>1
<1>15. QED
  BY <1>1, <1>2, <1>3, <1>4, <1>5, <1>6, <1>7, <1>8, <1>9, <1>10, <1>11, <1>12, <1>13, <1>14 DEF
     Next, Worker, Holder, Advertiser

LEMMA HoldStep == IInv /\ [Next]_vars => HoldInv'
<1> SUFFICES ASSUME IInv, [Next]_vars PROVE HoldInv'
  OBVIOUS
<1> USE DEF IInv, TypeOK, WorkerInv, HoldInv, Joined, Running, mailbox, routines, surface
<1>1. CASE Boot \/ Take
  BY <1>1 DEF Boot, Fails, Take
<1>2. CASE Listen \/ Allow \/ Publish
  BY <1>2 DEF Listen, Fails, Allow, AllowTCP, Publish
<1>3. CASE Off \/ Withdraw \/ Hang \/ Join
  BY <1>3 DEF Off, Withdraw, Hang, Join
<1>4. CASE Close \/ Deny
  BY <1>4 DEF Close, Deny, DenyTCP, Fails
<1>5. CASE Flag
  BY <1>5 DEF Flag, Fails
<1>6. CASE Sweep \/ Rebuild
  BY <1>6 DEF Sweep, DenyTCP, Fails, Rebuild
<1>7. CASE Goodbye \/ Flush \/ Exit
  BY <1>7 DEF Goodbye, Flush, Exit
<1>8. CASE Restart
  BY <1>8 DEF Restart
<1>9. ASSUME NEW c \in Callers, Set(c) \/ SetDrains(c) \/ SetRefills(c) PROVE HoldInv'
  BY <1>9 DEF Set, Usable, SetDrains, SetRefills
<1>10. ASSUME NEW n \in Sessions, Tick(n) \/ Reassert(n) PROVE HoldInv'
  BY <1>10 DEF Tick, Reassert, AllowTCP, Fails
<1>11. ASSUME NEW n \in Sessions, Reachable(n) \/ AllowAgain(n) \/ Advertise(n) PROVE HoldInv'
  BY <1>11 DEF Reachable, AllowAgain, Advertise, AllowTCP, Fails
<1>12. CASE UNCHANGED vars
  BY <1>12 DEF vars
<1>13. QED
  BY <1>1, <1>2, <1>3, <1>4, <1>5, <1>6, <1>7, <1>8, <1>9, <1>10, <1>11, <1>12 DEF Next, Worker,
     Holder, Advertiser

LEMMA RuleStep == IInv /\ [Next]_vars => RuleInv'
<1> SUFFICES ASSUME IInv, [Next]_vars PROVE RuleInv'
  OBVIOUS
<1> USE DEF IInv, TypeOK, WorkerInv, HoldInv, RuleInv, Joined, Running, mailbox, routines, surface
<1>1. CASE Boot \/ Take
  BY <1>1 DEF Boot, Fails, Take
<1>2. CASE Listen \/ Allow \/ Publish
  BY <1>2 DEF Listen, Fails, Allow, AllowTCP, Publish
<1>3. CASE Off \/ Withdraw \/ Hang \/ Join
  BY <1>3 DEF Off, Withdraw, Hang, Join
<1>4. CASE Close \/ Deny
  BY <1>4 DEF Close, Deny, DenyTCP, Fails
<1>5. CASE Flag
  BY <1>5 DEF Flag, Fails
<1>6. CASE Sweep \/ Rebuild
  BY <1>6 DEF Sweep, DenyTCP, Fails, Rebuild
<1>7. CASE Goodbye \/ Flush \/ Exit
  BY <1>7 DEF Goodbye, Flush, Exit
<1>8. CASE Restart
  BY <1>8 DEF Restart
<1>9. ASSUME NEW c \in Callers, Set(c) \/ SetDrains(c) \/ SetRefills(c) PROVE RuleInv'
  BY <1>9 DEF Set, Usable, SetDrains, SetRefills
<1>10. ASSUME NEW n \in Sessions, Tick(n) \/ Reassert(n) PROVE RuleInv'
  BY <1>10 DEF Tick, Reassert, AllowTCP, Fails
<1>11. ASSUME NEW n \in Sessions, Reachable(n) \/ AllowAgain(n) \/ Advertise(n) PROVE RuleInv'
  BY <1>11 DEF Reachable, AllowAgain, Advertise, AllowTCP, Fails
<1>12. CASE UNCHANGED vars
  BY <1>12 DEF vars
<1>13. QED
  BY <1>1, <1>2, <1>3, <1>4, <1>5, <1>6, <1>7, <1>8, <1>9, <1>10, <1>11, <1>12 DEF Next, Worker,
     Holder, Advertiser

LEMMA ListenStep == IInv /\ [Next]_vars => ListenInv'
<1> SUFFICES ASSUME IInv, [Next]_vars PROVE ListenInv'
  OBVIOUS
<1> USE DEF IInv, TypeOK, WorkerInv, ListenInv, ListedIsServed, Running, mailbox, routines, surface
<1>1. CASE Boot \/ Take
  BY <1>1 DEF Boot, Take
<1>2. CASE Listen \/ Allow \/ Publish
  BY <1>2 DEF Listen, Allow, Publish
<1>3. CASE Off \/ Withdraw \/ Hang \/ Join
  BY <1>3 DEF Off, Withdraw, Hang, Join
<1>4. CASE Close \/ Deny
  BY <1>4 DEF Close, Deny
<1>5. CASE Flag
  BY <1>5 DEF Flag
<1>6. CASE Sweep \/ Rebuild
  BY <1>6 DEF Sweep, Rebuild
<1>7. CASE Goodbye \/ Flush \/ Exit
  BY <1>7 DEF Goodbye, Flush, Exit
<1>8. CASE Restart
  BY <1>8 DEF Restart
<1>9. ASSUME NEW c \in Callers, Set(c) \/ SetDrains(c) \/ SetRefills(c) PROVE ListenInv'
  BY <1>9 DEF Set, Usable, SetDrains, SetRefills
<1>10. ASSUME NEW n \in Sessions, Tick(n) \/ Reassert(n) PROVE ListenInv'
  BY <1>10 DEF Tick, Reassert
<1>11. ASSUME NEW n \in Sessions, Reachable(n) \/ AllowAgain(n) \/ Advertise(n) PROVE ListenInv'
  BY <1>11 DEF Reachable, AllowAgain, Advertise
<1>12. CASE UNCHANGED vars
  BY <1>12 DEF vars
<1>13. QED
  BY <1>1, <1>2, <1>3, <1>4, <1>5, <1>6, <1>7, <1>8, <1>9, <1>10, <1>11, <1>12 DEF Next, Worker,
     Holder, Advertiser

LEMMA MailStep == IInv /\ [Next]_vars => MailInv'
<1> SUFFICES ASSUME IInv, [Next]_vars PROVE MailInv'
  OBVIOUS
<1> USE DEF IInv, TypeOK, WorkerInv, MailInv, Aim, Wishes, Empty, Usable, Running, mailbox,
   routines, surface
<1>1. CASE Boot \/ Take
  BY <1>1 DEF Boot, Take
<1>2. CASE Listen \/ Allow \/ Publish
  BY <1>2 DEF Listen, Allow, Publish
<1>3. CASE Off \/ Withdraw \/ Hang \/ Join
  BY <1>3 DEF Off, Withdraw, Hang, Join
<1>4. CASE Close \/ Deny
  BY <1>4 DEF Close, Deny
<1>5. CASE Flag
  BY <1>5 DEF Flag
<1>6. CASE Sweep \/ Rebuild
  BY <1>6 DEF Sweep, Rebuild
<1>7. CASE Goodbye \/ Flush \/ Exit
  BY <1>7 DEF Goodbye, Flush, Exit
<1>8. CASE Restart
  BY <1>8 DEF Restart
<1>9. ASSUME NEW c \in Callers, Set(c) \/ SetDrains(c) \/ SetRefills(c) PROVE MailInv'
  BY <1>9 DEF Set, Usable, SetDrains, SetRefills
<1>10. ASSUME NEW n \in Sessions, Tick(n) \/ Reassert(n) PROVE MailInv'
  BY <1>10 DEF Tick, Reassert
<1>11. ASSUME NEW n \in Sessions, Reachable(n) \/ AllowAgain(n) \/ Advertise(n) PROVE MailInv'
  BY <1>11 DEF Reachable, AllowAgain, Advertise
<1>12. CASE UNCHANGED vars
  BY <1>12 DEF vars
<1>13. QED
  BY <1>1, <1>2, <1>3, <1>4, <1>5, <1>6, <1>7, <1>8, <1>9, <1>10, <1>11, <1>12 DEF Next, Worker,
     Holder, Advertiser

LEMMA FlagStep == IInv /\ [Next]_vars => FlagInv'
<1> SUFFICES ASSUME IInv, [Next]_vars PROVE FlagInv'
  OBVIOUS
<1> USE DEF IInv, TypeOK, WorkerInv, FlagInv, Running, mailbox, routines, surface
<1>1. CASE Boot \/ Take
  BY <1>1 DEF Boot, Take
<1>2. CASE Listen \/ Allow \/ Publish
  BY <1>2 DEF Listen, Allow, Publish
<1>3. CASE Off \/ Withdraw \/ Hang \/ Join
  BY <1>3 DEF Off, Withdraw, Hang, Join
<1>4. CASE Close \/ Deny
  BY <1>4 DEF Close, Deny
<1>5. CASE Flag
  <2>1. CASE wish = "boot"
    BY <1>5, <2>1 DEF Flag
  <2>2. CASE wish # "boot" /\ flag' = (wish = "on") /\ failed' = failed \ {"flag"}
    <3>1. /\ pc' = "idle" /\ UNCHANGED <<on, wish>> /\ ("bind" \notin failed' => "bind" \notin failed)
          /\ flag' \in BOOLEAN /\ (flag' <=> wish = "on")
      BY <1>5, <2>2 DEF Flag
    <3>2. failed' = {} => (flag' <=> on)
      <4>1. failed' = {} => "bind" \notin failed'
        OBVIOUS
      <4>2. pc = "flag" /\ wish \in {"on", "off"}
        BY <1>5, <2>2 DEF Flag, Wishes
      <4>3. /\ wish = "on" /\ "bind" \notin failed => on
            /\ wish = "off" => ~on
        BY <4>2
      <4>4. QED
        BY <3>1, <4>1, <4>2, <4>3
    <3>3. QED
      BY <2>2, <3>1, <3>2
  <2>3. CASE wish # "boot" /\ failed' = failed \union {"flag"}
    BY <1>5, <2>3 DEF Flag
  <2>4. QED
    BY <1>5, <2>1, <2>2, <2>3 DEF Flag
<1>6. CASE Sweep \/ Rebuild
  BY <1>6 DEF Sweep, Rebuild
<1>7. CASE Goodbye \/ Flush \/ Exit
  BY <1>7 DEF Goodbye, Flush, Exit
<1>8. CASE Restart
  BY <1>8 DEF Restart
<1>9. ASSUME NEW c \in Callers, Set(c) \/ SetDrains(c) \/ SetRefills(c) PROVE FlagInv'
  BY <1>9 DEF Set, Usable, SetDrains, SetRefills
<1>10. ASSUME NEW n \in Sessions, Tick(n) \/ Reassert(n) PROVE FlagInv'
  BY <1>10 DEF Tick, Reassert
<1>11. ASSUME NEW n \in Sessions, Reachable(n) \/ AllowAgain(n) \/ Advertise(n) PROVE FlagInv'
  BY <1>11 DEF Reachable, AllowAgain, Advertise
<1>12. CASE UNCHANGED vars
  BY <1>12 DEF vars
<1>13. QED
  BY <1>1, <1>2, <1>3, <1>4, <1>5, <1>6, <1>7, <1>8, <1>9, <1>10, <1>11, <1>12 DEF Next, Worker,
     Holder, Advertiser

-----------------------------------------------------------------------------
\* The invariant and its parts, whatever interleaves.
THEOREM SwitchInductive == Spec => []IInv
<1>1. IInv /\ [Next]_vars => IInv'
  BY TypeStep, WorkerStep, HoldStep, RuleStep, ListenStep, MailStep, FlagStep DEF IInv
<1>2. QED
  BY InitIInv, <1>1, PTL DEF Spec

\* Types, whatever fails and however often the daemon starts again.
THEOREM SwitchType == Spec => []TypeOK
<1>1. IInv => TypeOK
  BY DEF IInv
<1>2. QED
  BY <1>1, SwitchInductive, PTL

\* A switch that has settled off has closed the port: neither a tick that was
\* taken already nor an advertiser, a sweep or an earlier run leaves a rule.
THEOREM SwitchedOffIsClosed == Spec => []OffIsClosed
<1>1. IInv => OffIsClosed
  BY DEF IInv, RuleInv, OffIsClosed, Settled
<1>2. QED
  BY <1>1, SwitchInductive, PTL

\* What the responder lists is bound, or the goodbye has been said.
THEOREM ListedStaysServed == Spec => []ListedIsServed
<1>1. IInv => ListedIsServed
  BY DEF IInv, ListenInv
<1>2. QED
  BY <1>1, SwitchInductive, PTL

\* The mailbox of one loses no last ask, for any number of callers, and the
\* property the next start reads is the switch's.
THEOREM LastAskIsKept == Spec => []LastAskWins
<1>1. IInv => LastAskWins
  <2> SUFFICES ASSUME IInv, Settled PROVE LastAskWins
    BY DEF LastAskWins
  <2>1. pc = "idle" /\ want = Empty /\ \A c \in Callers : caller[c] = "idle"
    BY DEF Settled
  <2>2. failed = {} => flag = on
    BY <2>1 DEF IInv, FlagInv
  <2>3. finished # {} /\ "bind" \notin failed => (IF on THEN "on" ELSE "off") \in finished
    BY <2>1 DEF IInv, MailInv, Aim
  <2>4. QED
    BY <2>2, <2>3 DEF LastAskWins
<1>2. QED
  BY <1>1, SwitchInductive, PTL
=============================================================================
