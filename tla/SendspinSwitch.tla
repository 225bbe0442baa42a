--------------------------- MODULE SendspinSwitch ---------------------------
(***************************************************************************)
(* serve.go (sendspinSwitch): switching the Sendspin surface on and off.   *)
(* Four parts follow the switch: the listener, the firewall rule in front  *)
(* of it, the mDNS advert that names it, and persist.overdub.sendspin,     *)
(* which the next start reads.                                             *)
(*                                                                         *)
(* Home Assistant's connections ask (Set) through a mailbox of one.  One   *)
(* worker applies what it finds there; the start of the daemon applies the *)
(* property before the first ask can come, so it runs as the same worker.  *)
(* Every switch-on starts two goroutines of its own: HoldTCPOpen, which    *)
(* re-asserts the rule at each tick, and advertiseOnceReachable.  A start  *)
(* that leaves the switch off sweeps an earlier run's rule meanwhile, and  *)
(* netd rebuilds its chain whenever it likes.                              *)
(*                                                                         *)
(* The rule and the property outlive the process.  What the delay needs of *)
(* the switch is in DelayKeeping, what Advertise sends in Responder.       *)
(***************************************************************************)
EXTENDS Naturals

CONSTANTS
  Callers,       \* goroutines that call Set
  MaxAsks, MaxSessions, MaxFailures, MaxRebuilds, MaxRestarts   \* bounds

\* A start may find the switch on, so there is a session at least.
ASSUME BoundsAssumption ==
  {MaxAsks, MaxSessions, MaxFailures, MaxRebuilds, MaxRestarts} \subseteq Nat /\ MaxSessions > 0

Sessions == 1..MaxSessions
Empty == "empty"
Wishes == {"on", "off"}

VARIABLES
  want,        \* the mailbox
  caller,      \* per caller: where Set is
  asking,      \* per caller: what it asks for
  pc, wish,    \* the worker, and what it applies
  on,          \* s.on
  session,     \* switch-ons since the start
  hold,        \* per session: its hold channel is closed
  holder, advertiser,  \* per session: its two goroutines
  sweeper,     \* the start's sweepSendspinRule
  listening, rule, listed, flag,  \* what follows the switch
  gone,        \* the responder has said its goodbye
  asks, failures, rebuilds, restarts,  \* bounds
  finished,    \* history: what the Sets ended since the last one began asked for
  denied,      \* history: the last DenyTCP succeeded
  failed       \* history: what failed since the start

mailbox == <<want, caller, asking, asks, finished>>
routines == <<hold, holder, advertiser, sweeper>>
surface == <<listening, rule, listed, flag>>
vars == <<mailbox, pc, wish, on, session, routines, surface, gone, failures,
          rebuilds, restarts, denied, failed>>

TypeOK ==
  /\ want \in Wishes \union {Empty}
  /\ caller \in [Callers -> {"idle", "full", "drained"}] /\ asking \in [Callers -> Wishes]
  /\ pc \in {"boot", "idle", "listen", "allow", "publish", "off", "withdraw",
             "hang", "join", "close", "deny", "flag", "exited"}
  /\ wish \in Wishes \union {"boot"}
  /\ on \in BOOLEAN /\ session \in 0..MaxSessions
  /\ hold \in [Sessions -> BOOLEAN]
  /\ holder \in [Sessions -> {"none", "waiting", "asserting", "done"}]
  /\ advertiser \in [Sessions -> {"none", "waiting", "allowing", "advertising", "done"}]
  /\ sweeper \in {"none", "sweeping", "done"}
  /\ {listening, rule, listed, flag, gone, denied} \subseteq BOOLEAN
  /\ finished \subseteq Wishes /\ failed \subseteq {"bind", "flag", "read"}

Init ==
  /\ want = Empty /\ caller = [c \in Callers |-> "idle"] /\ asking = [c \in Callers |-> "on"]
  /\ pc = "boot" /\ wish = "boot" /\ on = FALSE /\ session = 0
  /\ hold = [n \in Sessions |-> FALSE]
  /\ holder = [n \in Sessions |-> "none"] /\ advertiser = [n \in Sessions |-> "none"]
  /\ sweeper = "none"
  /\ listening = FALSE /\ rule \in BOOLEAN /\ listed = FALSE /\ flag \in BOOLEAN
  /\ gone = FALSE /\ asks = 0 /\ failures = 0 /\ rebuilds = 0 /\ restarts = 0
  /\ finished = {} /\ denied = TRUE /\ failed = {}

Running == pc # "exited"
Fails == failures < MaxFailures /\ failures' = failures + 1

-----------------------------------------------------------------------------
(* internal/device/firewall.go.  Each call holds chainMu throughout; one   *)
(* that times out may have landed.                                         *)

AllowTCP ==
  \/ rule' = TRUE /\ UNCHANGED failures
  \/ rule' \in {rule, TRUE} /\ Fails

DenyTCP ==
  \/ rule' = FALSE /\ denied' = TRUE /\ UNCHANGED failures
  \/ rule' \in {rule, FALSE} /\ denied' = FALSE /\ Fails

-----------------------------------------------------------------------------
(* Set: three selects, each a step of its own *)

\* UseSendspin: the start is over.
Usable == pc # "boot" /\ wish # "boot" /\ Running

Set(c) ==
  /\ Usable /\ caller[c] = "idle" /\ asks < MaxAsks
  /\ asks' = asks + 1
  /\ \E w \in Wishes :
       /\ asking' = [asking EXCEPT ![c] = w]
       /\ \/ want = Empty /\ want' = w /\ finished' = {w} /\ UNCHANGED caller
          \/ /\ want # Empty /\ finished' = {}
             /\ caller' = [caller EXCEPT ![c] = "full"] /\ UNCHANGED want
  /\ UNCHANGED <<pc, wish, on, session, routines, surface, gone, failures,
                 rebuilds, restarts, denied, failed>>

\* Slip: Set leaves the older wish in the mailbox and its own is lost.
SetLeavesOlder(c) ==
  /\ Running /\ caller[c] = "full"
  /\ caller' = [caller EXCEPT ![c] = "drained"]
  /\ UNCHANGED <<want, asking, asks, finished, pc, wish, on, session, routines,
                 surface, gone, failures, rebuilds, restarts, denied, failed>>

SetDrains(c) ==
  /\ Running /\ caller[c] = "full"
  /\ want' = Empty /\ caller' = [caller EXCEPT ![c] = "drained"]
  /\ UNCHANGED <<asking, asks, finished, pc, wish, on, session, routines, surface,
                 gone, failures, rebuilds, restarts, denied, failed>>

\* Another caller that filled the mailbox meanwhile is left its wish.
SetRefills(c) ==
  /\ Running /\ caller[c] = "drained"
  /\ want' = IF want = Empty THEN asking[c] ELSE want
  /\ finished' = finished \union {asking[c]}
  /\ caller' = [caller EXCEPT ![c] = "idle"]
  /\ UNCHANGED <<asking, asks, pc, wish, on, session, routines, surface, gone,
                 failures, rebuilds, restarts, denied, failed>>

-----------------------------------------------------------------------------
(* The worker: run, applyWant, enable, disable *)

\* serveAPI: what the property asks for, off when it cannot be read.
Boot ==
  /\ pc = "boot"
  /\ \/ pc' = (IF flag THEN "listen" ELSE "flag") /\ UNCHANGED <<failures, failed>>
     \/ pc' = "flag" /\ failed' = failed \union {"read"} /\ Fails
  /\ UNCHANGED <<mailbox, wish, on, session, routines, surface, gone, rebuilds,
                 restarts, denied>>

\* begin: a wish for the state the switch is in is refused.
Take ==
  /\ pc = "idle" /\ want # Empty /\ (want = "on" => session < MaxSessions)
  /\ want' = Empty /\ wish' = want
  /\ pc' = CASE want = "on" /\ ~on -> "listen"
             [] want = "off" /\ on -> "off"
             [] OTHER -> "idle"
  /\ UNCHANGED <<caller, asking, asks, finished, on, session, routines, surface,
                 gone, failures, rebuilds, restarts, denied, failed>>

\* A failed bind counts as applied.
Listen ==
  /\ pc = "listen"
  /\ \/ /\ listening' = TRUE /\ pc' = "allow"
        /\ failed' = failed \ {"bind"} /\ UNCHANGED failures
     \/ pc' = "flag" /\ failed' = failed \union {"bind"} /\ Fails /\ UNCHANGED listening
  /\ UNCHANGED <<mailbox, wish, on, session, routines, rule, listed, flag, gone,
                 rebuilds, restarts, denied>>

Allow ==
  /\ pc = "allow" /\ AllowTCP /\ pc' = "publish"
  /\ UNCHANGED <<mailbox, wish, on, session, routines, listening, listed, flag,
                 gone, rebuilds, restarts, denied, failed>>

Publish ==
  /\ pc = "publish" /\ pc' = "flag"
  /\ on' = TRUE /\ session' = session + 1
  /\ holder' = [holder EXCEPT ![session'] = "waiting"]
  /\ advertiser' = [advertiser EXCEPT ![session'] = "waiting"]
  /\ UNCHANGED <<mailbox, wish, hold, sweeper, surface, gone, failures, rebuilds,
                 restarts, denied, failed>>

Off ==
  /\ pc = "off" /\ on' = FALSE /\ pc' = "withdraw"
  /\ UNCHANGED <<mailbox, wish, session, routines, surface, gone, failures,
                 rebuilds, restarts, denied, failed>>

Withdraw ==
  /\ pc = "withdraw" /\ listed' = FALSE /\ pc' = "hang"
  /\ UNCHANGED <<mailbox, wish, on, session, routines, listening, rule, flag, gone,
                 failures, rebuilds, restarts, denied, failed>>

\* Slip: disable does not close the hold.
HangForgotten ==
  /\ pc = "hang" /\ pc' = "join"
  /\ UNCHANGED <<mailbox, wish, on, session, routines, surface, gone, failures,
                 rebuilds, restarts, denied, failed>>

Hang ==
  /\ pc = "hang" /\ hold' = [hold EXCEPT ![session] = TRUE] /\ pc' = "join"
  /\ UNCHANGED <<mailbox, wish, on, session, holder, advertiser, sweeper, surface,
                 gone, failures, rebuilds, restarts, denied, failed>>

Joined == \A n \in Sessions : {holder[n], advertiser[n]} \subseteq {"none", "done"}

\* Slip: disable does not wait for the goroutines of the hold.
JoinAtOnce ==
  /\ pc = "join" /\ pc' = "close"
  /\ UNCHANGED <<mailbox, wish, on, session, routines, surface, gone, failures,
                 rebuilds, restarts, denied, failed>>

Join ==
  /\ pc = "join" /\ Joined /\ pc' = "close"
  /\ UNCHANGED <<mailbox, wish, on, session, routines, surface, gone, failures,
                 rebuilds, restarts, denied, failed>>

\* ln.Close, client.Close, and settle, which waits a bounded time.
Close ==
  /\ pc = "close" /\ listening' = FALSE /\ pc' = "deny"
  /\ UNCHANGED <<mailbox, wish, on, session, routines, rule, listed, flag, gone,
                 failures, rebuilds, restarts, denied, failed>>

Deny ==
  /\ pc = "deny" /\ DenyTCP /\ pc' = "flag"
  /\ UNCHANGED <<mailbox, wish, on, session, routines, listening, listed, flag,
                 gone, rebuilds, restarts, failed>>

\* setFlag; a start writes nothing and sweeps if the surface did not come up.
Flag ==
  /\ pc = "flag" /\ pc' = "idle"
  /\ IF wish = "boot"
     THEN /\ sweeper' = IF on THEN "done" ELSE "sweeping"
          /\ wish' = "off" /\ UNCHANGED <<flag, failed, failures>>
     ELSE /\ \/ flag' = (wish = "on") /\ failed' = failed \ {"flag"} /\ UNCHANGED failures
             \/ /\ flag' \in {flag, wish = "on"}
                /\ failed' = failed \union {"flag"} /\ Fails
          /\ UNCHANGED <<wish, sweeper>>
  /\ UNCHANGED <<mailbox, on, session, hold, holder, advertiser, listening, rule,
                 listed, gone, rebuilds, restarts, denied>>

-----------------------------------------------------------------------------
(* The goroutines beside it *)

\* HoldTCPOpen: a tick already taken asserts the rule whatever happens next.
Tick(n) ==
  /\ Running /\ holder[n] = "waiting"
  /\ holder' = [holder EXCEPT ![n] = IF hold[n] THEN "done" ELSE "asserting"]
  /\ UNCHANGED <<mailbox, pc, wish, on, session, hold, advertiser, sweeper, surface,
                 gone, failures, rebuilds, restarts, denied, failed>>

\* Slip: HoldTCPOpen asserts the rule once.
AssertOnce(n) ==
  /\ Running /\ holder[n] = "asserting" /\ AllowTCP
  /\ holder' = [holder EXCEPT ![n] = "done"]
  /\ UNCHANGED <<mailbox, pc, wish, on, session, hold, advertiser, sweeper, listening,
                 listed, flag, gone, rebuilds, restarts, denied, failed>>

Reassert(n) ==
  /\ Running /\ holder[n] = "asserting" /\ AllowTCP
  /\ holder' = [holder EXCEPT ![n] = "waiting"]
  /\ UNCHANGED <<mailbox, pc, wish, on, session, hold, advertiser, sweeper, listening,
                 listed, flag, gone, rebuilds, restarts, denied, failed>>

\* waitReachable ends with an address, at its limit, or with the hold.
Reachable(n) ==
  /\ Running /\ advertiser[n] = "waiting"
  /\ advertiser' = [advertiser EXCEPT ![n] = IF hold[n] THEN "done" ELSE "allowing"]
  /\ UNCHANGED <<mailbox, pc, wish, on, session, hold, holder, sweeper, surface,
                 gone, failures, rebuilds, restarts, denied, failed>>

AllowAgain(n) ==
  /\ Running /\ advertiser[n] = "allowing" /\ AllowTCP
  /\ advertiser' = [advertiser EXCEPT ![n] = "advertising"]
  /\ UNCHANGED <<mailbox, pc, wish, on, session, hold, holder, sweeper, listening,
                 listed, flag, gone, rebuilds, restarts, denied, failed>>

\* Slip: the advertiser does not look whether the switch is still on.
AdvertiseAnyway(n) ==
  /\ Running /\ advertiser[n] = "advertising"
  /\ advertiser' = [advertiser EXCEPT ![n] = "done"]
  /\ listed' = TRUE
  /\ UNCHANGED <<mailbox, pc, wish, on, session, hold, holder, sweeper, listening,
                 rule, flag, gone, failures, rebuilds, restarts, denied, failed>>

Advertise(n) ==
  /\ Running /\ advertiser[n] = "advertising"
  /\ advertiser' = [advertiser EXCEPT ![n] = "done"]
  /\ listed' = (listed \/ on)
  /\ UNCHANGED <<mailbox, pc, wish, on, session, hold, holder, sweeper, listening,
                 rule, flag, gone, failures, rebuilds, restarts, denied, failed>>

Sweep ==
  /\ Running /\ sweeper = "sweeping" /\ DenyTCP /\ sweeper' = "done"
  /\ UNCHANGED <<mailbox, pc, wish, on, session, hold, holder, advertiser, listening,
                 listed, flag, gone, rebuilds, restarts, failed>>

Rebuild ==
  /\ rule /\ rule' = FALSE /\ rebuilds < MaxRebuilds /\ rebuilds' = rebuilds + 1
  /\ UNCHANGED <<mailbox, pc, wish, on, session, routines, listening, listed, flag,
                 gone, failures, restarts, denied, failed>>

-----------------------------------------------------------------------------
(* Stopping, a kill, and the next start *)

\* stopping: withdraw, then flush, which closes the listener it finds.
Goodbye ==
  /\ Running /\ ~gone /\ restarts < MaxRestarts /\ gone' = TRUE
  /\ UNCHANGED <<mailbox, pc, wish, on, session, routines, surface, failures,
                 rebuilds, restarts, denied, failed>>

Flush ==
  /\ Running /\ gone /\ listening' = (listening /\ ~on)
  /\ UNCHANGED <<mailbox, pc, wish, on, session, routines, rule, listed, flag, gone,
                 failures, rebuilds, restarts, denied, failed>>

\* os.Exit after a flush, or a kill at any time.
Exit ==
  /\ Running /\ restarts < MaxRestarts /\ pc' = "exited"
  /\ on' = FALSE /\ listening' = FALSE /\ listed' = FALSE
  /\ UNCHANGED <<mailbox, wish, session, routines, rule, flag, gone, failures,
                 rebuilds, restarts, denied, failed>>

\* Slip: a start goes on counting the switch-ons of the run before it.
RestartCountsOn ==
  /\ pc = "exited" /\ restarts' = restarts + 1
  /\ pc' = "boot" /\ wish' = "boot"
  /\ want' = Empty /\ caller' = [c \in Callers |-> "idle"]
  /\ hold' = [n \in Sessions |-> FALSE]
  /\ holder' = [n \in Sessions |-> "none"] /\ advertiser' = [n \in Sessions |-> "none"]
  /\ sweeper' = "none" /\ gone' = FALSE /\ finished' = {} /\ denied' = TRUE /\ failed' = {}
  /\ UNCHANGED <<asking, asks, on, session, surface, failures, rebuilds>>

Restart ==
  /\ pc = "exited" /\ restarts' = restarts + 1
  /\ pc' = "boot" /\ wish' = "boot" /\ session' = 0
  /\ want' = Empty /\ caller' = [c \in Callers |-> "idle"]
  /\ hold' = [n \in Sessions |-> FALSE]
  /\ holder' = [n \in Sessions |-> "none"] /\ advertiser' = [n \in Sessions |-> "none"]
  /\ sweeper' = "none" /\ gone' = FALSE /\ finished' = {} /\ denied' = TRUE /\ failed' = {}
  /\ UNCHANGED <<asking, asks, on, surface, failures, rebuilds>>

Worker == Boot \/ Take \/ Listen \/ Allow \/ Publish \/ Off \/ Withdraw \/ Hang
          \/ Join \/ Close \/ Deny \/ Flag
Holder(n) == Tick(n) \/ Reassert(n)
Advertiser(n) == Reachable(n) \/ AllowAgain(n) \/ Advertise(n)

Next == \/ Worker \/ Sweep \/ Rebuild \/ Goodbye \/ Flush \/ Exit \/ Restart
        \/ \E c \in Callers : Set(c) \/ SetDrains(c) \/ SetRefills(c)
        \/ \E n \in Sessions : Holder(n) \/ Advertiser(n)

Spec == Init /\ [][Next]_vars

\* Goroutines get to run, tickers and bounded waits end; nobody has to ask,
\* fail, rebuild or stop, and a supervisor starts the daemon again.
Fairness == /\ WF_<<pc, want>>(Worker) /\ WF_sweeper(Sweep) /\ WF_pc(Restart)
            /\ \A n \in Sessions : WF_holder(Holder(n)) /\ WF_advertiser(Advertiser(n))
FairSpec == Spec /\ Fairness

-----------------------------------------------------------------------------
Settled == pc = "idle" /\ want = Empty /\ \A c \in Callers : caller[c] = "idle"

\* "The rule must never outlive the socket" once the switch is settled off:
\* no tick, no advertiser and no earlier run has left the port open, unless
\* the last deletion failed.
OffIsClosed == Settled /\ ~on /\ sweeper = "done" /\ denied => ~rule

\* Nothing is advertised after the switch is off, and a list the responder
\* still answers from names a port that is bound.
ListedIsServed == listed => (on \/ pc = "withdraw") /\ (listening \/ gone)

\* Asks that overlap may go either way, but the switch ends up as one of
\* them asked, and an ask that came after all the others is never the one
\* that is lost.  When nothing failed since the start, the next start comes
\* up as the switch stands.
LastAskWins ==
  Settled =>
    /\ finished # {} /\ "bind" \notin failed => (IF on THEN "on" ELSE "off") \in finished
    /\ failed = {} => flag = on

\* The worker is never stuck in a switch-off: it always comes back for the
\* next ask, unless the daemon stops.
WorkerComesBack == []<>(pc = "idle" \/ gone)

\* A switch that stays on is reachable in the end: the rule is there whatever
\* a sweep or netd did to it, and the advert is up.
OnIsReachable == <>[]on => <>[](rule /\ (listed \/ gone))
=============================================================================
