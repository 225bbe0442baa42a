---------------------------- MODULE DelayKeeping ----------------------------
(***************************************************************************)
(* serve.go (sendspinSwitch) and internal/sendspin/client.go: how the      *)
(* output delay gets to the property persist.overdub.sendspin_delay.       *)
(*                                                                         *)
(* Two set it: Home Assistant, through the switch's run loop ("loop"), and *)
(* a Sendspin server ("session").  Four write it: the run loop and a stop  *)
(* of the daemon by keepOwed, under s.writing; the client's keeper by      *)
(* keepDelays, and a setter that finds no keeper by keepNow, under the     *)
(* client's own saving.  A write is a decision under one of these locks,   *)
(* the setprop, and the bookkeeping, each a step of its own.               *)
(*                                                                         *)
(* KeepApart is a timer that fires at any moment, and a window that is     *)
(* over or not.                                                            *)
(***************************************************************************)
EXTENDS Naturals

CONSTANTS
  Delays,        \* figures that can be asked for
  KeepTries,
  Refusing,      \* writers whose setprop can be refused
  Unreadable,    \* can the property be unreadable?
  LateSessions,  \* can a session's set outlast the switch-off of its client?
  EarlySets,     \* can a client be set before its Serve has a keeper?
  MaxSets, MaxClients, MaxRefusals   \* bounds

Setters == {"loop", "session"}
Writers == Setters \union {"keeper", "stop"}
Clients == 1..MaxClients
None == 0
NotKnown == 0 - 1   \* onDisk before anything was written

ASSUME DelaysAssumption == Delays \subseteq Nat /\ 0 \in Delays
ASSUME RefusingAssumption == Refusing \subseteq Writers
ASSUME SwitchesAssumption == {Unreadable, LateSessions, EarlySets} \subseteq BOOLEAN
ASSUME BoundsAssumption == {KeepTries, MaxSets, MaxClients, MaxRefusals} \subseteq Nat

VARIABLES
  disk,      \* the property
  switch,    \* sendspinSwitch: what it knows of the delay
  writing,   \* the holder of s.writing
  client,    \* s.client
  made,      \* clients made
  delay, onDisk, wake, serving, saving,  \* per client; wake is keepWake
  keeper,    \* keepDelays' locals, and the client it is of
  pc,        \* per writer: what it is about to do
  of, ms,    \* per writer: the client it acts for, the figure it carries
  then,      \* what the run loop does after keepOwed
  sets, refusals,  \* bounds
  refused,   \* history: the last setprop was refused
  cut        \* history: the stop overlapped a switch-off

clients == <<client, made, delay, onDisk, wake, serving, saving>>
vars == <<disk, switch, writing, clients, keeper, pc, of, ms, then, sets,
          refusals, refused, cut>>

TypeOK ==
  /\ disk \in Delays
  /\ switch \in [delay : Delays, disk : Delays, unknown : BOOLEAN,
                 owes : BOOLEAN, tries : Nat, owedFor : Delays]
  /\ writing \in {"free", "loop", "stop"}
  /\ client \in Clients \union {None} /\ made \in 0..MaxClients
  /\ delay \in [Clients -> Delays] /\ onDisk \in [Clients -> Delays \union {NotKnown}]
  /\ wake \in [Clients -> {"nil", "empty", "posted"}]
  /\ serving \in [Clients -> {"no", "listening", "yes", "closed", "done"}]
  /\ saving \in [Clients -> Writers \union {"free"}]
  /\ keeper \in [unknown : BOOLEAN, written : Delays, attempted : Delays,
                 tries : Nat, ending : BOOLEAN]
  /\ pc["loop"] \in {"idle", "take", "keep", "direct", "owe", "save", "kept",
                     "refused", "enable", "read", "off"}
  /\ pc["session"] \in {"idle", "take", "keep", "direct", "save", "kept", "refused"}
  /\ pc["keeper"] \in {"gone", "idle", "window", "settle", "save", "kept", "refused"}
  /\ pc["stop"] \in {"idle", "owe", "save", "kept", "refused", "listener",
                     "settle", "exited"}
  /\ of \in [Writers -> Clients \union {None}] /\ ms \in [Writers -> Delays]
  /\ then \in {"idle", "enable"}
  /\ {refused, cut} \subseteq BOOLEAN

\* tookDelay
Took(figure, known) ==
  [delay |-> figure, disk |-> figure, unknown |-> ~known, owes |-> FALSE,
   tries |-> 0, owedFor |-> figure]

Init ==
  /\ disk \in Delays
  /\ switch \in {Took(disk, TRUE)} \union (IF Unreadable THEN {Took(0, FALSE)} ELSE {})
  /\ writing = "free" /\ client = None /\ made = 0
  /\ delay = [c \in Clients |-> 0] /\ onDisk = [c \in Clients |-> NotKnown]
  /\ wake = [c \in Clients |-> "nil"] /\ serving = [c \in Clients |-> "no"]
  /\ saving = [c \in Clients |-> "free"]
  /\ keeper = [unknown |-> FALSE, written |-> 0, attempted |-> 0, tries |-> 0,
               ending |-> FALSE]
  /\ pc = [w \in Writers |-> IF w = "keeper" THEN "gone" ELSE "idle"]
  /\ of = [w \in Writers |-> None] /\ ms = [w \in Writers |-> 0]
  /\ then = "idle" /\ sets = 0 /\ refusals = 0
  /\ refused = FALSE /\ cut = FALSE

Goes(w, place) == pc' = [pc EXCEPT ![w] = place]
Running == pc["stop"] # "exited"

-----------------------------------------------------------------------------
(* A setprop, whoever makes it.  One that is refused may have landed: its  *)
(* read back can come too early.                                           *)

Save(w) ==
  /\ pc[w] = "save"
  /\ \/ disk' = ms[w] /\ Goes(w, "kept") /\ refused' = FALSE /\ UNCHANGED refusals
     \/ /\ w \in Refusing /\ refusals < MaxRefusals
        /\ disk' \in {disk, ms[w]} /\ Goes(w, "refused") /\ refused' = TRUE
        /\ refusals' = refusals + 1
  /\ UNCHANGED <<switch, writing, clients, keeper, of, ms, then, sets, cut>>

\* keepDelay's bookkeeping, on which every accepted write ends.
Kept(figure) ==
  [switch EXCEPT !.disk = figure, !.unknown = FALSE,
                 !.delay = IF client # None THEN figure ELSE @]

-----------------------------------------------------------------------------
(* sendspinSwitch.keepOwed, from the run loop and from flush *)

Owed == switch.owes \/ (switch.unknown /\ switch.tries < KeepTries)

After(w) == IF w = "loop" THEN then ELSE "listener"

\* now: the window does not count.
Owe(w, now) ==
  LET tries == IF switch.delay # switch.owedFor THEN 0 ELSE switch.tries
      owes == switch.delay # switch.disk \/ switch.unknown
  IN  /\ pc[w] = "owe" /\ writing = "free"
      /\ switch' = [switch EXCEPT !.owedFor = switch.delay, !.tries = tries, !.owes = owes]
      /\ \/ /\ ~owes \/ ~now   \* nothing is owed, or the window is not over
            /\ Goes(w, After(w)) /\ UNCHANGED <<writing, ms>>
         \/ /\ owes
            /\ writing' = w /\ ms' = [ms EXCEPT ![w] = switch.delay]
            /\ Goes(w, "save")
      /\ cut' = (cut \/ (w = "stop" /\ pc["loop"] = "off"))
      /\ UNCHANGED <<disk, clients, keeper, of, then, sets, refusals, refused>>

\* Slip: keepOwed returns without its unlock.
OweDoneLocked(w) ==
  /\ writing = w /\ pc[w] \in {"kept", "refused"}
  /\ Goes(w, After(w))
  /\ switch' = [Kept(ms[w]) EXCEPT !.owes = FALSE, !.tries = 0]
  /\ UNCHANGED <<disk, writing, clients, keeper, of, ms, then, sets, refusals, refused, cut>>

OweDone(w) ==
  /\ writing = w /\ pc[w] \in {"kept", "refused"}
  /\ writing' = "free" /\ Goes(w, After(w))
  /\ switch' = IF pc[w] = "kept"
               THEN [Kept(ms[w]) EXCEPT !.owes = FALSE, !.tries = 0]
               ELSE [switch EXCEPT !.tries = @ + 1, !.owes = switch.tries + 1 < KeepTries]
  /\ UNCHANGED <<disk, clients, keeper, of, ms, then, sets, refusals, refused, cut>>

-----------------------------------------------------------------------------
(* Client.SetDelay and the server's set_static_delay *)

Ask(w, c, figure) ==
  /\ pc[w] = "idle" /\ sets < MaxSets /\ c # None /\ pc["stop"] = "idle"
  /\ EarlySets \/ of["keeper"] = c
  /\ sets' = sets + 1
  /\ Goes(w, "take")
  /\ of' = [of EXCEPT ![w] = c] /\ ms' = [ms EXCEPT ![w] = figure]
  /\ UNCHANGED <<disk, switch, writing, clients, keeper, then, refusals, refused, cut>>

\* run reads set_static_delay from a server.
SessionAsked(figure) == Ask("session", client, figure)

\* applyDelay with a client up.
LoopAsked(figure) == Ask("loop", client, figure)

\* applyDelay with none.
LoopAskedOff(figure) ==
  /\ pc["loop"] = "idle" /\ sets < MaxSets /\ client = None /\ pc["stop"] = "idle"
  /\ figure # switch.delay
  /\ sets' = sets + 1
  /\ switch' = [switch EXCEPT !.delay = figure]
  /\ Goes("loop", "owe") /\ then' = "idle"
  /\ UNCHANGED <<disk, writing, clients, keeper, of, ms, refusals, refused, cut>>

\* takeDelay: the figure it already holds is not kept again.
Take(w) ==
  /\ pc[w] = "take"
  /\ delay' = [delay EXCEPT ![of[w]] = ms[w]]
  /\ Goes(w, IF delay[of[w]] = ms[w] THEN "idle" ELSE "keep")
  /\ UNCHANGED <<disk, switch, writing, client, made, onDisk, wake, serving,
                 saving, keeper, of, ms, then, sets, refusals, refused, cut>>

\* keep: to the keeper, or to keepNow where there is none.
Keep(w) ==
  /\ pc[w] = "keep"
  /\ IF wake[of[w]] = "nil" THEN Goes(w, "direct") /\ UNCHANGED wake
     ELSE Goes(w, "idle") /\ wake' = [wake EXCEPT ![of[w]] = "posted"]
  /\ UNCHANGED <<disk, switch, writing, client, made, delay, onDisk, serving,
                 saving, keeper, of, ms, then, sets, refusals, refused, cut>>

KeepNow(w) ==
  LET c == of[w] IN
  /\ pc[w] = "direct" /\ saving[c] = "free"
  /\ IF onDisk[c] = delay[c] THEN Goes(w, "idle") /\ UNCHANGED <<saving, ms>>
     ELSE /\ saving' = [saving EXCEPT ![c] = w]
          /\ ms' = [ms EXCEPT ![w] = delay[c]] /\ Goes(w, "save")
  /\ UNCHANGED <<disk, switch, writing, client, made, delay, onDisk, wake,
                 serving, keeper, of, then, sets, refusals, refused, cut>>

KeepNowDone(w) ==
  LET c == of[w] IN
  /\ pc[w] \in {"kept", "refused"} /\ writing # w
  /\ saving' = [saving EXCEPT ![c] = "free"] /\ Goes(w, "idle")
  /\ IF pc[w] = "kept"
     THEN switch' = Kept(ms[w]) /\ onDisk' = [onDisk EXCEPT ![c] = ms[w]]
     ELSE UNCHANGED <<switch, onDisk>>
  /\ UNCHANGED <<disk, writing, client, made, delay, wake, serving, keeper, of,
                 ms, then, sets, refusals, refused, cut>>

-----------------------------------------------------------------------------
(* Client.Serve and keepDelays *)

\* Slip: Serve takes the mark of nothing written for a figure.
StoredUnlooked(c) == onDisk[c]

\* What Serve takes to be on disk, for its keeper.
Stored(c) == IF onDisk[c] # NotKnown THEN onDisk[c] ELSE keeper.written

\* Serve up to its accept loop: the keeper starts, and is woken.
ServeStarts(c) ==
  /\ serving[c] \in {"listening", "closed"} /\ wake[c] = "nil" /\ pc["keeper"] = "gone"
  /\ of["keeper"] # c
  /\ wake' = [wake EXCEPT ![c] = "posted"]
  /\ serving' = [serving EXCEPT ![c] = IF @ = "listening" THEN "yes" ELSE @]
  /\ of' = [of EXCEPT !["keeper"] = c]
  /\ keeper' = [keeper EXCEPT !.written = Stored(c), !.attempted = Stored(c)]
  /\ Goes("keeper", IF keeper.unknown THEN "settle" ELSE "idle")
  /\ UNCHANGED <<disk, switch, writing, client, made, delay, onDisk, saving, ms,
                 then, sets, refusals, refused, cut>>

\* Accept finds the listener closed: no keeper is to be woken any more.
ServeStops(c) ==
  /\ serving[c] = "closed" /\ of["keeper"] = c
  /\ serving' = [serving EXCEPT ![c] = "done"]
  /\ wake' = [wake EXCEPT ![c] = "nil"]
  /\ UNCHANGED <<disk, switch, writing, client, made, delay, onDisk, saving,
                 keeper, pc, of, ms, then, sets, refusals, refused, cut>>

KeeperMoves ==
  LET c == of["keeper"] IN
  /\ \/ /\ pc["keeper"] = "idle" /\ wake[c] = "posted"
        /\ Goes("keeper", "window") /\ wake' = [wake EXCEPT ![c] = "empty"]
        /\ UNCHANGED keeper
     \/ /\ pc["keeper"] = "window"   \* KeepApart is over
        /\ Goes("keeper", "settle") /\ UNCHANGED <<wake, keeper>>
     \/ /\ pc["keeper"] \in {"idle", "window"} /\ serving[c] = "done"
        /\ Goes("keeper", "settle") /\ UNCHANGED wake
        /\ keeper' = [keeper EXCEPT !.ending = TRUE]
  /\ UNCHANGED <<disk, switch, writing, client, made, delay, onDisk, serving,
                 saving, of, ms, then, sets, refusals, refused, cut>>

KeeperTurns(pending) ==
  Goes("keeper", IF keeper.ending THEN "gone" ELSE IF pending THEN "window" ELSE "idle")

\* settled, up to its write.
KeeperSettles ==
  LET c == of["keeper"]
      figure == delay[c]
      tries == IF figure # keeper.attempted THEN 0 ELSE keeper.tries
      Same == ~keeper.unknown /\ figure = keeper.written
      There == onDisk[c] = figure
  IN  /\ pc["keeper"] = "settle" /\ saving[c] = "free"
      /\ keeper' = CASE Same -> keeper
                     [] ~Same /\ There -> [keeper EXCEPT !.written = figure, !.unknown = FALSE]
                     [] OTHER -> [keeper EXCEPT !.attempted = figure, !.tries = tries]
      /\ IF Same \/ There \/ tries >= KeepTries
         THEN KeeperTurns(FALSE) /\ UNCHANGED <<saving, ms>>
         ELSE /\ saving' = [saving EXCEPT ![c] = "keeper"]
              /\ ms' = [ms EXCEPT !["keeper"] = figure] /\ Goes("keeper", "save")
      /\ UNCHANGED <<disk, switch, writing, client, made, delay, onDisk, wake,
                     serving, of, then, sets, refusals, refused, cut>>

KeeperSettled ==
  LET c == of["keeper"] IN
  /\ pc["keeper"] \in {"kept", "refused"}
  /\ saving' = [saving EXCEPT ![c] = "free"]
  /\ IF pc["keeper"] = "kept"
     THEN /\ switch' = Kept(ms["keeper"])
          /\ onDisk' = [onDisk EXCEPT ![c] = ms["keeper"]]
          /\ keeper' = [keeper EXCEPT !.written = ms["keeper"], !.unknown = FALSE, !.tries = 0]
          /\ KeeperTurns(FALSE)
     ELSE /\ keeper' = [keeper EXCEPT !.tries = @ + 1]
          /\ KeeperTurns(keeper.tries + 1 < KeepTries)
          /\ UNCHANGED <<switch, onDisk>>
  /\ UNCHANGED <<disk, writing, client, made, delay, wake, serving, of, ms,
                 then, sets, refusals, refused, cut>>

-----------------------------------------------------------------------------
(* The switch, and the stop *)

LoopDue ==
  /\ pc["loop"] = "idle" /\ Owed
  /\ Goes("loop", "owe") /\ then' = "idle"
  /\ UNCHANGED <<disk, switch, writing, clients, keeper, of, ms, sets, refusals,
                 refused, cut>>

\* applyWant(true): what is owed is written first.
SwitchOn ==
  /\ pc["loop"] = "idle" /\ client = None /\ made < MaxClients
  /\ Goes("loop", "owe") /\ then' = "enable"
  /\ UNCHANGED <<disk, switch, writing, clients, keeper, of, ms, sets, refusals,
                 refused, cut>>

\* enable reads the property, or its port is taken.
EnableReads ==
  /\ pc["loop"] = "enable"
  /\ \/ Goes("loop", "idle") /\ UNCHANGED <<ms, keeper>>
     \/ /\ Goes("loop", "read") /\ ms' = [ms EXCEPT !["loop"] = disk]
        /\ keeper' \in {[keeper EXCEPT !.unknown = u] :
                          u \in IF Unreadable THEN BOOLEAN ELSE {FALSE}}
  /\ UNCHANGED <<disk, switch, writing, clients, of, then, sets, refusals,
                 refused, cut>>

\* ... and starts its client on that, or on a figure the property refused.
EnableStarts ==
  LET known == ~keeper.unknown /\ switch.delay = switch.disk
      figure == IF known THEN ms["loop"] ELSE switch.delay
      c == made + 1
  IN  /\ pc["loop"] = "read"
      /\ switch' = Took(figure, known)
      /\ client' = c /\ made' = c
      /\ delay' = [delay EXCEPT ![c] = figure]
      /\ serving' = [serving EXCEPT ![c] = "listening"]
      /\ keeper' = [unknown |-> ~known, written |-> figure, attempted |-> figure,
                    tries |-> 0, ending |-> FALSE]
      /\ Goes("loop", "idle")
      /\ UNCHANGED <<disk, writing, onDisk, wake, saving, of, ms, then, sets,
                     refusals, refused, cut>>

Closed(c) == [serving EXCEPT ![c] = "closed"]

SwitchOff ==
  /\ pc["loop"] = "idle" /\ client # None
  /\ of' = [of EXCEPT !["loop"] = client]
  /\ client' = None
  /\ serving' = IF serving[client] = "done" THEN serving ELSE Closed(client)
  /\ Goes("loop", "off")
  /\ UNCHANGED <<disk, switch, writing, made, delay, onDisk, wake, saving,
                 keeper, ms, then, sets, refusals, refused, cut>>

\* Slip: Serve returns without waiting for its keeper.
ServedAtOnce(c) == serving[c] = "done"

\* settle: served is closed once Serve returned.
Served(c) == serving[c] = "done" /\ ~(of["keeper"] = c /\ pc["keeper"] # "gone")

\* Slip: disable forgets the figure of the client it closed.
SwitchedOffForgets ==
  /\ pc["loop"] = "off" /\ Served(of["loop"])
  /\ Goes("loop", "idle")
  /\ UNCHANGED <<disk, switch, writing, clients, keeper, of, ms, then, sets,
                 refusals, refused, cut>>

SwitchedOff ==
  LET c == of["loop"] IN
  /\ pc["loop"] = "off" /\ Served(c)
  /\ LateSessions \/ pc["session"] = "idle" \/ of["session"] # c
  /\ switch' = [switch EXCEPT !.delay = delay[c]]
  /\ Goes("loop", "idle")
  /\ UNCHANGED <<disk, writing, clients, keeper, of, ms, then, sets, refusals,
                 refused, cut>>

\* A signal: flush writes what is owed, ...
Stop ==
  /\ pc["stop"] = "idle" /\ Goes("stop", "owe")
  /\ UNCHANGED <<disk, switch, writing, clients, keeper, of, ms, then, sets,
                 refusals, refused, cut>>

\* ... closes the listener and waits for the client, if there is one.
StopCloses ==
  /\ pc["stop"] = "listener"
  /\ cut' = (cut \/ pc["loop"] = "off")
  /\ IF client = None
     THEN Goes("stop", "exited") /\ UNCHANGED <<serving, of>>
     ELSE /\ Goes("stop", "settle")
          /\ serving' = Closed(client) /\ of' = [of EXCEPT !["stop"] = client]
  /\ UNCHANGED <<disk, switch, writing, client, made, delay, onDisk, wake,
                 saving, keeper, ms, then, sets, refusals, refused>>

StopExits ==
  /\ pc["stop"] = "settle" /\ Served(of["stop"])
  /\ Goes("stop", "exited")
  /\ UNCHANGED <<disk, switch, writing, clients, keeper, of, ms, then, sets,
                 refusals, refused, cut>>

-----------------------------------------------------------------------------
Asked == \E figure \in Delays :
           SessionAsked(figure) \/ LoopAsked(figure) \/ LoopAskedOff(figure)

\* What the daemon does of its own accord.
Daemon ==
  \/ \E w \in Writers : Save(w)
  \/ LoopDue
  \/ Owe("loop", then = "enable") \/ Owe("stop", TRUE)
  \/ OweDone("loop") \/ OweDone("stop")
  \/ \E w \in Setters : Take(w) \/ Keep(w) \/ KeepNow(w) \/ KeepNowDone(w)
  \/ \E c \in Clients : ServeStarts(c) \/ ServeStops(c)
  \/ KeeperMoves \/ KeeperSettles \/ KeeperSettled
  \/ EnableReads \/ EnableStarts \/ SwitchedOff
  \/ StopCloses \/ StopExits

Next == Running /\ (Asked \/ Daemon \/ SwitchOn \/ SwitchOff \/ Stop)

Spec == Init /\ [][Next]_vars

\* Every goroutine runs, and the window is over in the end.  Nobody has to ask
\* for anything, switch anything or stop the daemon.
Fairness ==
  /\ \A w \in Writers : WF_vars(Running /\ Save(w))
  /\ WF_vars(Running /\ LoopDue) /\ SF_vars(Running /\ Owe("loop", TRUE))
  /\ SF_vars(Running /\ Owe("stop", TRUE))
  /\ WF_vars(Running /\ (OweDone("loop") \/ OweDone("stop")))
  /\ \A w \in Setters :
       /\ WF_vars(Running /\ (Take(w) \/ Keep(w) \/ KeepNowDone(w)))
       /\ SF_vars(Running /\ KeepNow(w))
  /\ WF_vars(Running /\ \E c \in Clients : ServeStarts(c) \/ ServeStops(c))
  /\ WF_vars(Running /\ (KeeperMoves \/ KeeperSettled)) /\ SF_vars(Running /\ KeeperSettles)
  /\ WF_vars(Running /\ (EnableReads \/ EnableStarts \/ SwitchedOff))
  /\ WF_vars(Running /\ (StopCloses \/ StopExits))

FairSpec == Spec /\ Fairness

-----------------------------------------------------------------------------
(* Properties *)

\* The figure in force: what Delay() answers.
InForce == IF client # None THEN delay[client] ELSE switch.delay

NobodyIsSetting == pc["session"] = "idle" /\ pc["loop"] = "idle"

Settled ==
  /\ NobodyIsSetting /\ pc["stop"] = "idle" /\ ~Owed
  /\ client # None =>
       serving[client] = "yes" /\ wake[client] = "empty" /\ pc["keeper"] = "idle"

\* Once nothing is owed any more the property holds the figure in force, so a
\* reboot keeps it: neither a change that raced the write before it, nor one
\* made while a client was starting or stopping, is left in memory alone.  A
\* setprop that was refused is the one thing that can be given up on.
SettledMeansKept == Settled /\ ~refused => disk = InForce

\* "So every stop that can writes first": a stop leaves the figure in force on
\* disk, whatever was in flight when the signal came.
KeptAtExit == ~Running /\ NobodyIsSetting /\ ~cut /\ ~refused => disk = InForce

\* Figures are not owed for ever: the locks, the keeper's wake and the waits of
\* a switch-off and a stop for the keeper all come to an end.
WritesCatchUp == []<>(Settled \/ ~Running)
=============================================================================
