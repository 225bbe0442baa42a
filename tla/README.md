# overdub in TLA+

overdub is a daemon for a rooted Echo Dot. It takes the Dot's buttons over,
answers Home Assistant on the ESPHome native API, plays Sendspin audio, and
leaves Alexa running beside it. It is one Go process that starts goroutines in
some forty places, with half a dozen locks, several timers, and state
outside the process: Android properties, a firewall rule, input devices that
are grabbed, records in other machines' mDNS caches. This directory holds
specifications of the parts where that makes the code hard to get right, the
TLC runs that check them, and proofs.

Paths below are relative to the repository's root. The modules translate the
code, not its documents; where the two disagree there is a run that shows it.

## 1. Inventory

| part | code | state | operations | what is hard about it |
|---|---|---|---|---|
| gesture recogniser | `internal/button/button.go` 209-356 | `gen`, `count`, `holding`, two timers, `mu`, `out` | `Down`, `Up`, `held`, `closed`, `report` | a timer that fired against a key event; reports in order |
| button interceptor | `internal/button/button.go` 20-207, `internal/evdev` | grab, uinput clone, mode and latch per key | `Open`, `route`, `SetMode`, `Press`, `Close` | modes that change inside a press; closing order; what is in the buffer at start |
| volume-key mute guard | `serve.go` 890-1035, `internal/button/mute.go` | `muted.guard`, `muted.lost`, the grab | mute, unmute, the watcher, the startup look | a watcher that blocks outside the lock and acts later |
| Sendspin switch | `serve.go` 432-860 | mailbox `want`, `on`, listener, hold | `Set`, `run`, `enable`, `disable`, `flush` | two goroutines per switch-on that outlive it; four parts to keep in step; a kill at any moment |
| firewall | `internal/device/firewall.go` | a rule in netd's chain | `AllowTCP`, `DenyTCP`, `HoldTCPOpen` | the rule outlives the process, and netd drops it |
| output delay | `serve.go` 494-668, `internal/sendspin/client.go` 196-242, 676-808 | the property, what switch, client and keeper each think is in it | set by two, written by four | lost and stale writes, retries, the stop |
| mDNS responder | `internal/mdns/mdns.go` | service list, generation, `gone`, socket, ladder | `Advertise`, `Run`, announcements, replies, `Goodbye` | packets built, checked and written at different times |
| ESPHome server | `internal/esphome/server.go`, `entities.go`, `proto.go`, `noise.go` | connections, their queues, `published` | accept, subscribe, publish, commands, the deferred cleanup | a queue that is full; a snapshot against a publish; a queue closed on another goroutine |
| state polling | `internal/esphome/state.go` | last readings, wake channels, the sound's debounce | `PollSensors`, `PollLive`, `publish`, `readSound` | a wake that is dropped; a reading that is stale when published |
| workers | `internal/esphome/media.go` | a pending wish and a working flag each, a queue of commands | play, volume, mute, command | a wish that arrives while the worker leaves |
| network adb, microphone | `internal/esphome/server.go` 780-1011, `internal/device/adb.go`, `mic.go` | settled mode, firewall hold | set, poll, toggle | an answer from a stale "settled"; a toggle pressed twice; a port held open as it is shut |
| playback watcher | `internal/alexa/playback.go`, `speak.go` | what is expected, its deadline | `Expect`, `Extend`, `Cancel`, log lines, `expire` | the deadline of one clip and the end of another; callbacks after the lock |
| focus watcher and duck | `internal/alexa/focus.go`, `Duck` of `internal/audio/chime_android.go` | who has focus with what gain, the level, the cut | log lines, the sweep, logcat's end, `Duck`, `OpenStream` | two goroutines that change and call; a stream opened meanwhile; a client that asks again is logged as removed |
| audio | `internal/audio` | mixer, ring of a stream, the one stream slot | `OpenStream`, the writer's look and retune, `Close` | a slot emptied by whoever is late; a wake that is missed |
| Sendspin sessions | `internal/sendspin` | `held`, live connections, what all sessions share of what was told, clock filter | handshake, hold, release, reports, streams, `Close` | several servers, one player; four goroutines a session |
| device facts, logs, Alexa commands, start, deployment | the rest | little | reads, one-shot writes | sequential, mostly I/O and parsing |

How they interact. `serve` opens the interceptor; its `route` goroutine feeds
one `MultiPress` per button, whose `fire` publishes an event to the API
server's connections. The API server calls back into `SetMode`, into the mute
and microphone workers (which call `setSpeakerMute` and `Press`) and into
`sendspinSwitch.Set`, and into `PlaybackWatcher` and Alexa for a clip. Its two
polls read what the device is, and workers that end wake them. The switch owns
a listener, the firewall rule, the Sendspin client and the responder's second
service; the client's sessions share the player and its one stream, which the
focus watcher lowers while somebody else has audio focus. A signal runs `stopping`:
the responder's `Goodbye`, then the switch's `flush`, then `os.Exit`, with no
goroutine waited for but what `flush` waits for.

What makes each part correct is the list of properties in section 4, and
`PROJECT.json` has the hazards line by line.

## 2. Modules

Each module models a critical section, or the span between two points where
another goroutine can be noticed, as one action. Names are the source's where
TLA+ allows it. Operators marked `Slip:` are plausible mistakes in the
definition that follows them; `PROJECT.json` lists them as mutants, and every
property is broken by one.

**GestureReports** is the contract of the recogniser, with no timer or lock:
presses are reported once and in order, runs hold only released presses, a hold
is the latest press and has an end.

**Gestures** is `MultiPress`. `loop` is the read loop's place in one press,
`fired` holds the goroutines of timers that fired and have not taken `m.out`,
and `out`/`plan` are the report lock and what its holder has yet to fire: the
calls of `m.fire` are steps of their own, since the lock is held across them.
Time is relative and counted in ticks; a timer whose count is zero may fire at
any later moment. It implements GestureReports (`Implements`).

**Interceptor** is the node, the grab, the clone and the two keys. The kernel is
external and described by four rules in the module's header. `queue` is the
reader's buffer, with a mark on events that Android has natively seen. `route`
reads one event a step: `Latch` decides the mode that governs it, and the event
is consumed or emitted. `Press` is two emits under `emitMu`, which `RouteEmits`
waits for. `Lifecycle` has the steps of `Open` and `Close` in the code's order.

**MuteGuard** is `muted.mu`'s critical sections, one watcher per guard and the
node. The device answers as it likes: unreadable, refusing, or accepting
without effect.

**SendspinSwitch** is the worker's walk through `enable` and `disable`, `Set`'s
three selects, each switch-on's firewall holder and advertiser, the startup
sweep, netd's rebuild, and a kill with a restart. The property and the rule
survive the restart.

**DelayKeeping** is the same switch seen from the delay: who holds which figure
and which lock, with the decision, the `setprop` and the bookkeeping of a write
as separate steps. `keeper` is `keepDelays`' locals.

**Responder** is mdns.go: five kinds of goroutine that build, check and write
packets, on sockets that are closed and rebuilt. A packet is the set of
services it names. `cached` is what the segment believes.

**ApiServer** composes seven modules and adds the two polls and the wakes.
Each extended module has one component's variables and actions and leaves the
others' to ApiServer, whose actions say what is unchanged.

- **Connections** is `serveConn` from accept to the three steps of its deferred
  cleanup, the queue between handlers and `writeLoop`, and `publish` with what
  it does to a connection that takes no more. A queue is a count and `told` the
  last reading put into it for each key, since frames leave in order. A call
  that holds `s.mu` throughout is one action.
- **MicSwitch** and **AdbSwitch** are the asks, the answer from "settled", the
  worker and what it reads back. `SetADBMode` is its calls in order (`AfterCall`);
  `adbDevice` is the property, the rule, the port and the hold that keeps the
  rule there.
- **Media** is the volume's and the mute's workers, with relative and absolute
  asks that `Joined` folds into one.
- **Commands** is the queue of texts for Alexa. `Workers` are slots for the
  goroutines that `CommandLocked` starts, so that two could run if the flag
  allowed it. `cmdAccepted` and `cmdRun` are histories.
- **Playback** is play's worker, the watcher's two goroutines and Alexa with
  her log: `line` decides under the watcher's lock and `ReportLine` calls back
  after it.
- **SoundSensor** is the debounce of "speaker playing", in ticks.

One behaviour of ApiServer exercises one facility, `focus`, with connections
and the poll that reads for it. What two facilities share is the connections
they publish to and the polls' two wake tokens, where another's wake only adds
a reading; a pair of them would else add only interleavings of steps that do not
touch each other. Three foci go to the
connections themselves: "clients" has two that are lost at any point, "press"
the whole life of one with events and relisting.

**StreamSlot** is the player's one stream: sessions open, resume, finish and
close streams as they like, and the writer looks, tunes, mixes and waits. It
has a specification of its own, `SlotSpec`, against which users of it are judged.

**Ducking** is the focus watcher over the slot. Android's focus, and the log it
writes of it, are external: `gains`, `top` and `focusLog`. `line` and the sweep
are two goroutines; `Change` is what one of them does under `notify`, and
`telling` an `OnLevel` that has not returned, which `Duck` ends. `StartsDucked`
is what `OpenStream` gives a new stream. `excused` is a history of whom the
watcher cannot know about: who died (its binder is logged, which names no
holder), who was dropped after 15 minutes, and all of them when logcat ends.

**Sessions** is the Sendspin client over StreamSlot and Ducking. Each session is `run`, with
what `serveConn` does before and after it, `reportDelays`, `watchOutput` and
`watchVolume`; `said` and `wanted` are what each server knows. The reads of
`reporting` are steps apart from the send they lead to, as they are in the code,
and `Stating` is the lock `stating`. `focus` names what varies in a behaviour:
streams, the delay, the output, the level, `Close` or the duck.

Composition. Gestures takes "Down and Up alternate" for granted, which
Interceptor checks (`DownsAndUpsAlternate`). SendspinSwitch takes an `Advertise`
for one step, and Responder models what it does, with the two lists the switch
uses; that calls of `Advertise` do not overlap is the switch's doing.
DelayKeeping and SendspinSwitch share the switch's on/off walk and each keep
only what they need of it: their product is far beyond what TLC can enumerate.
DelayKeeping and Sessions share `delay`: the one has who keeps it on disk, the
other who tells it to the server. ApiServer and Sessions are compositions with a
machine-checked interface: each is proved to use its parts only as their own
specifications allow (section 6).

There are eight proof modules: GesturesProofs, InterceptorProofs,
MuteGuardProofs, DelayKeepingProofs, SendspinSwitchProofs, ResponderProofs,
ApiServerProofs (with the proofs of its facilities) and SessionsProofs (with
those of the slot and the duck).

## 3. Runs

| run | instance | distinct states |
|---|---|---|
| `gestures` | 3 presses, hold 3 ticks, gap 2 | 6,443 |
| `interceptor` | 2 keys, one of them the microphone's; 2 unread events; keys moving from `os.Open` on | 423,904 |
| `mute_guard` | 5 guards, 2 tries | 15,358 |
| `delay_keeping` | figures 0 and 1, 2 sets, 2 clients, 2 tries, 1 refused write of the keeper; a stop at any point | 224,043 |
| `sendspin_switch` | 2 callers, 3 asks, 2 switch-ons, 1 failure, 1 rebuild, 1 restart | 970,862 |
| `responder` | 1 fixed service and 1 that comes and goes; 2 swaps, 2 sockets, 2 ladders at once of 1 rung, 1 trouble (a lost packet, a refused write or a moved address) | 1,065,898 |
| `api_server` | 2 connections, queues of 1 frame; 2 asks and 1 fault of the microphone and of adb, 3 asks and 1 fault of the volume or mute, 5 commands in a queue of 2, 2 clips and 1 fault, 2 changes of what plays; nine foci | 334,371 |
| `sessions` | 2 servers, 2 connections in all, 5 events with one of them, 4 with both (3 where the output moves), 3 streams, 2 rates, delays and levels; a player that may die; where Alexa ducks, 1 connection, 2 events, 2 clients with 1 gain and 3 of their events; six foci | 825,541 up to symmetry |
| `sessions_available`, `delay_keeping_start`, `interceptor_start`, `responder_late_advert` | the smallest instance that reaches the disagreement | up to the counterexample |

Why the bounds are enough. Gestures: a run of two and a hold, or a stale timer
and two later presses, need three presses; hold and gap are unequal, so that
either can come first. Gestures' safety is proved for all values besides.
Interceptor: keys meet only in the clone, the queue and Press, so two keys show
every pair; two unread events let a mode change fall before, between and after
the events of a press. MuteGuard: `Tries` + 1 lost guards, a release and a
replacement need five. DelayKeeping: a lost update needs two figures and two
sets; two clients let one end while another starts. SendspinSwitch: an on, an
off and another on; two callers to overlap; a restart after any prefix.
Responder: a service that comes and goes and may come again is two swaps, one
ladder outlives its replacement, and a socket is replaced once.
ApiServer: a queue of one is full after one publish, so a second, or a
snapshot, finds it so; a second ask
comes before, in or after the turn of the first, and a fault falls into either;
five commands overfill a queue of two behind one that runs, and leave one for a
worker that comes after; two clips let the end of one cross the start of the next.
Sessions: an activation, its loss, a regained role and two changes, with a
second server that takes over or ends in between; three streams are one that
plays, one that the writer is closing and one that is opened meanwhile. Two
clients with one gain show one that goes while the other stays, and three of
their events let one ask, ask again and expire, die or go; which of several
gains is the deepest is left to the proof. Connections are
interchangeable in Sessions, and so are Alexa's clients: no action tells one
from another, so the run takes states up to their permutation.
The safety of the keys, the guard, the delay's keeping, the switch, the
responder, connections and workers, the slot, the duck and the sessions, their
streams and what they tell, is proved for all values besides (section 6).

Two runs name what they leave out of an instance. `delay_keeping` sets
`EarlySets` to FALSE, since with it TRUE the run of section 5 fails;
`responder` sets `LateAdverts` to FALSE for the same reason. `LateSessions`
(a session whose set outlasts the switch-off of its client) is FALSE too: the
bounded wait of `settle` is then not over before the session is. `Refusing` is
the keeper alone: a refusal by `keepNow` is given up at once, which is the
code's stated choice.

`CHECK_DEADLOCK FALSE` appears where the system may stop: the daemon exits, or
the responder's `Run` returns, or a bound is used up.

Fairness. Goroutines run (`WF` on their steps). `sync.Mutex` hands over to a
waiter that starves, so the steps that wait for a lock others keep taking are
strongly fair: `Up` and the timers of Gestures, `Route` behind Press, `Owe`,
`KeepNow` and `KeeperSettles` behind a write. Timers and tickers fire.
In ApiServer the polls, play's worker, the watcher and Alexa go on, and a
tick is strongly fair beside wakes, since `select` takes either. Fingers,
peers, netd, failures, signals and callers of `Set` or `Advertise` owe nothing. A restart is fair in SendspinSwitch only, where a supervisor
(`deploy/overdub.sh`) loops.

## 4. What the runs show

- `EveryPressOnce`, `Implements`, `EveryPressReported`: whichever of the release
  and the two timers gets the locks first, a press is reported once, in order,
  and in the end. `NoRunClosesUnderAKey`, `HoldsAreEarned`: a timer that fired
  late closes and declares nothing.
- `NoStuckKey`, `InterceptedStaysUnseen`, `DownsAndUpsAlternate`: the latch
  carries a press through a mode change and a close.
  `ReleasesReachAndroid`: a release waits for Press and then arrives.
  The first two set apart the presses that Press *crossed*, that is, a
  microphone command while the finger holds the mute key passed on; the
  documents describe what happens then (`docs/button.md:114`).
- `NoForgottenGrab`, `EveryGuardIsWatched`, `LateWatcherIsHarmless`: at most one
  grab, known to the daemon, with a watcher that has its press yet to see.
- `SettledMeansKept`, `KeptAtExit`, `WritesCatchUp`: what is in force is what a
  reboot finds, unless the last `setprop` was refused or the stop overlapped a
  switch-off (`cut`).
- `OffIsClosed`, `ListedIsServed`, `LastAskWins`, `WorkerComesBack`,
  `OnIsReachable`: the four parts follow the last ask; off is
  closed even though a tick, an advertiser and a sweep may be under way.
- `WithdrawnStaysWithdrawn`, `GoodbyeIsLast`, `AddedIsAnnounced`: the second of
  two goodbyes undoes whatever was in flight at the first, and a service that
  stays is announced whatever socket was there.
- `NoSendAfterClose`: a queue is closed by the cleanup on one goroutine while
  publishes run on others, and a send into a closed channel would end the
  daemon. `SubscribersAgree`: a client that is listed knows what was published
  last; one that could not be told is gone. `EventuallyTold`: it also knows what
  the device is, in the end, whatever was read, woken or forgotten before; a
  change is only missed while nobody watches.
- `LastAskStands`: the microphone, network adb, the level and the mute end as
  the last ask of them says, unless a call failed or somebody else changed them.
  `CommandsInOrder`: one worker, one order, nothing left behind.
  `PlayingEnds`: the media player returns to idle even if a line of the log is
  lost, but for the behaviours of section 5.
- `SettledIsTold`: when nothing is under way, the server that holds the player
  has been told the delay, the level, the lead and the rate in force.
  `OpenIsNeverRefused`: whoever holds finds the slot free.
  `OpenIsHeard`: a stream that was opened is mixed, or the writer is on its way.
  `DuckedAsHeld`: with no call under way the stream in the slot plays at the
  level of the deepest holder, and with the log read the holders are those
  Android has, whoever is not `excused`.

## 5. Where documents and code disagree

- `interceptor_start`. `docs/button.md:109` has a key held across the start
  report nothing. The node is opened before it is grabbed, so a key-down
  between the two reaches Android and is reported too.
- `sessions_available`. `docs/sendspin.md:656` has an `available: true` never
  withdrawn. `reportDelays` and `watchOutput` read whether the player is
  available before they take `stating`; the clock agrees meanwhile, `run` says
  so, and the older `false` goes out after it. The server has the player for
  unavailable until the next report.
- `delay_keeping_start`. `docs/sendspin.md:811` has no snapshot to go stale.
  `Client.Serve` passes its keeper one, and a set, written, and a set back
  before the keeper runs leave the first figure in the property.
- `responder_late_advert`. `docs/sendspin.md:611` has SIGTERM withdraw the
  advert. `Goodbye` builds its packet before it marks the responder gone, so a
  service listed in between is announced and not withdrawn.

Seen while modelling and left at that: a failed bind followed by an off leaves
the property on (`begin` refuses the off; `docs/sendspin.md:623` says so);
`Advertise` between two sockets says no goodbye (`docs/mdns.md:42` says so); a
withdrawal cancels the remaining services' rungs too; a refused announcement
of `Advertise` is logged and does not mark the socket for a rebuild; a rung on
an old socket can mark the new one for a rebuild it does not need;
`docs/api.md:491` puts mute on the volume's worker, and `media.go` has one for
each.

Six more are in the models and set apart from a property that would otherwise
say too much:

- The read back after an unmute fails and the volume keys are released
  (`serve.go:941`), though `docs/api.md:507` keeps them until it confirms.
- `Extend` comes after `Playback started` was logged and puts the deadline of
  the start in place of the clip's (`serve.go:388`, `playback.go:47`); a long
  clip is then given up while it plays (`docs/api.md:532`). Playback has a
  started clip's deadline longer than the clip, as it is meant to be.
- The watcher is disarmed between deciding on a start line and calling
  `OnStart`, which then says "playing" with no end expected: `crossed`.
- `toldVolume` and `bluetooth` belong to the client and are written by any
  session; one that has just lost the hold can leave the new holder untold
  (`client.go:869`, `client.go:823`; `docs/sendspin.md:892`): `astray`,
  `strayLead`.
- A request for a rate that is sent around a regained role is heeded and then
  forgotten by `watchOutput` (`client.go:850`), which leaves the server at that
  rate when the output is back at the other: `late`.
- `watchOutput` compares the client's `bluetooth` with a copy of its own
  (`client.go:810`). When a session that has lost the hold changes `bluetooth`, and
  `reportDelays` of the holder tells the lead that goes with it before the watcher
  looks and the first value comes back, the watcher sees no change, and its server
  keeps the other lead: `unaware`. The proof of
  `SettledIsTold` came upon it; it takes more events of two servers than the run has.

## 6. Proofs

`GesturesProofs` proves, for every `HoldTime` > 0, `Gap` and number of presses:
`Spec => []TypeOK` (which no run repeats), `Spec => []EveryPressOnce`,
`Spec => NoRunClosesUnderAKey`, `Spec => HoldsAreEarned` and
`Spec => Implements`. The assumptions are the two of Gestures on its constants.

`EveryPressOnce` is not inductive: it does not say that a run being closed was
counted under the current generation. `IInv` adds three parts. `LocksAgree`
ties the holder of `m.out` to what is planned, so that taking the lock finds
nothing left over. `HoldingAgrees` says when `holding` can be set, and that
Home Assistant is inside a hold exactly between the firing of its start and of
its end. `TimersAgree` carries the argument about generations: an armed or
fired timer of the current generation belongs to the latest key event, so the
key is down for a hold timer, with `HoldTime` elapsed when it fires, and up for
a gap timer. Each action has a lemma with one step per part; `StepIInv` puts
them together, and the refinement maps each step to one of GestureReports or to
a stutter from `IInv` and the step.

`InterceptorProofs` proves, for any watched keys and a buffer of any length,
`TypeOK`, `NoStuckKey`, `InterceptedStaysUnseen` and `DownsAndUpsAlternate`. None of the
last three speaks of the reader's buffer, and each depends on it. `TurnsAgree` says that what
waits there follows the finger: of a key that is up the release is the last
there is, and a key-down comes after the release of the press before. `CloneAgrees`
says that Android holds what the clone holds, which is the presses that route
read and passed on, and what Press is typing, as long as no press was crossed;
`PhaseAgrees` has what `Open` and `Close` leave of each.

`MuteGuardProofs` proves, for every number of guards and of tries, `TypeOK`,
`NoForgottenGrab`, `EveryGuardIsWatched`, `RetakesBounded` and
`LateWatcherIsHarmless`. `NoForgottenGrab` and `EveryGuardIsWatched` are inductive together (`GInv`): a guard
is taken only where no other grab is held, and lemmas say so of `Take`, of
`HoldVolumeKeys` and of the two outcomes of an unmute, so that each goroutine's
step is one of a few cases. `RetakesBounded` needs `RetakesAreLosses`, that
every guard taken again was counted as lost.

`DelayKeepingProofs` proves `TypeOK` whatever is refused or late, and
`SettledMeansKept` and `KeptAtExit`, for any number of figures, sets, clients
and tries and of refused writes by keeper, session and stop, from the hypothesis
`Careful`. It rules out what the code does lose a figure to, and TLC finds a
counterexample with any part of it dropped: a property that cannot be read
(`Unreadable`) or a refusal to the run loop (the hazard at `serve.go:591`: the
next client starts on what the property holds), a client that is set before its keeper runs
(`EarlySets`, the run of section 5), a session that outlasts the wait of
`settle` (`LateSessions`), and no tries at all. The argument is about who
writes. While a client is up, or waited for, no owed figure is claimed
(`IdleInv`), so only its keeper and its setters write, one at a time under
`saving` (`LockInv`), and a setter only after `Serve` is over (`ServeInv`). Then
the figure in force is `Covered`: in the property already, on its way there, or
a setter is still to look at it; or the keeper is to look (`KeeperComes`).
`FreshInv` is why a look of the keeper is good: what it believes written is, or it
is the last look and the figure is covered without it. `CarryInv` says of a
write with an older figure that another follows. Without a client the switch's
figure is in the property, being written, or owed (`OwedInv`). The stop needs
`StopInv`, since a client can start after the stop chose which one to wait for.
Of a stop that overlaps a switch-off (`cut`) nothing is claimed.

`SendspinSwitchProofs` proves `TypeOK`, `OffIsClosed`, `ListedIsServed` and
`LastAskWins` for any number of callers, asks, switch-ons, failures and
restarts. `WorkerInv` ties the worker's place to `on` and to what it was asked.
`OffIsClosed` needs `HoldInv`, that a switch-off has joined the goroutines of
its hold before it closes the port, so that none of them opens it again, and
`RuleInv`, which accounts for every moment at which the rule may be there while
the switch is off. `LastAskWins` needs `MailInv`: an ask leaves the mailbox only
into the worker's hands or those of a `Set` that is about to put its own there,
and an empty mailbox leaves the worker on its way to one of the last asks. `FlagInv` has the
same for the property.

`ResponderProofs` proves `TypeOK` and `WithdrawnStaysWithdrawn` for any services,
announcers, sockets and ladders, and `GoodbyeIsLast` from `~LateAdverts`, the
case that section 5 shows to fail. The invariants follow what can still get out:
caches, packets past their check and the read loop's reply are within a set
(`Carried`). For `ListInv` that set is the list and what a goodbye is owed for;
for `ByeInv`, once `Goodbye` has built its packet, the packet and what is owed.
`PacketInv` is why a check suffices: a packet that would pass it was built from
the list in force.

`ApiServerProofs` proves each facility's own specification first.
`ConnSpec => []NoSendAfterClose` and `ConnSpec => []SubscribersAgree`, for every
number of connections and keys and every queue: `ConnInv` adds, of each
connection, `ShutIsOver` (a queue is closed only by the step that comes after
unlisting, and whoever is listed has not come that far) and `AsksFirst` (nobody
has subscribed before its first message, so a connection that opens owes no
snapshot). `CmdSpec => []CommandsInOrder`, for every queue limit and number of
texts: `CmdInv` adds `FlagAgrees`, that `cmdWorking` is set exactly while a
worker lives, which is why an ask that starts none leaves its text to one that
will look again. `LastAskStands` is the conjunction of `MicEndsAsAsked`,
`AdbEndsAsAsked` and `VolumeAddsUp`, proved of `MicSpec`, `AdbSpec` and `VolSpec`
for any number of asks and readings. `MicTurn`, `AdbTurn`, `VolTurn` and
`MuteTurn` say that the worker is at the last ask, or at one that the next turn
replaces. `MicUndisturbed` and `AdbUndisturbed` have what a turn without a fault
has brought about at each of its calls, `AdbKeyed` how one fault in `SetADBMode`
is made good, and `VolTurn` what asks that are relative add up to. For the whole,
a step of ApiServer is one of a facility or leaves that facility's variables
alone, so `Spec` implies each of these specifications and what was proved of them.

`SessionsProofs` proves the parts of Sessions first.
`SlotSpec => []OpenIsHeard`, for any number of streams and rates: `OpenIsHeard`
speaks of open streams and is not inductive, since `Resume` opens one that was done.
`SlotInv` says it of every stream that is not spent, adds that a stream of the
rate the player runs at is mixed (so that `Retune` has nothing to do for it), and
that what the writer closed stays closed until it has let go of it.
`DuckSpec => []DuckedAsHeld`, for any number of clients, gains and streams, and
logs of any length: `DuckInv` has the level, which is that under `notify` one call is
under way and brings the newest level (`OneTells`), and that the slot's stream is at
the cut (`SlotAtCut`). `LogInv` has the holders, which agree with Android only
when the log is read. `WillKnow` says it of a log that waits: the last line that
decides of a client says what its gain is, and where no line does, the watcher
has it right. A line decides unless it is the removal that follows the client's
own request; lemmas say what lines that are added, and the one that is read, do
to that.

Of Sessions it proves, for any number of sessions, that it refines
`SlotSpec` (`SessionsUseTheSlot`) and `DuckSpec`, hence `OpenIsHeard` and
`DuckedAsHeld` (`SessionsAreDucked`), and `OpenIsNeverRefused`.
`SessInv` says which stages a session can be in while it holds (`ServesHeld`),
that a session without the role plays nothing (`Roleless`), that one with a
stream holds the player and is in a stage that closes it before it lets go
(`HeldSounds`), that a closer is called for a closed stream (`ClosersClosed`),
and that a slot which refuses is some session's (`SlotIsOwned`). The session
that is about to open holds the player, the slot's owner does too, so they are
one, and it has just closed its own.

`SettledIsTold` and `TypeOK` are proved of Sessions too, for any number of sessions
and rates, and at least two events (`SessionsAssumption`). What
has to be invariant is where each server stands while it is *not* settled
(`ToldInv`). `WalkInv` follows the walk of a session through its report: which of
the figures it has read, and who still has to say which. `SaidInv` says of the
delay and of the level that the server of the holder was told the one in force, or
a wake is waiting, or a report is under way that will read it. `LeadInv` and `RateInv` do so of the lead
and the rate, where the reader is `watchOutput` with a memory of its own; each
excludes just the behaviours that section 5 names, by the flag that
records them.

`ServerType` is `TypeOK` of ApiServer. Two parts of it are not typing alone. A
poll that is about to publish has a reading in hand (`PollsTyped`), which is why
what is published and told is one. And no more clips are under way than
were asked for (`ClipsCounted`). Beside the assumptions on each constant it
needs that there are finitely many keys, since a connection's queue is filled by
their number, and that what the device can be is among `Values`
(`ServerAssumption`).

Only model-checked: all liveness (`EveryPressReported`, `WritesCatchUp`,
`EventuallyTold` and the like), which the prover cannot do, and the runs that expect a
violation, which are counterexamples. Induction over data is out of its reach as
well; no theorem here needs it.

## 7. What is left

1. The ring of a stream: its samples and what `Spent` says of them.
2. The burst schedule of the clock.

## 8. Not modelled, and why

Parsing and packing (protobuf, Noise, DNS, WebSocket, FLAC, `dumpsys`, `input_event`):
sequential functions over bytes, which the unit tests exercise and TLC would
only enumerate. The clock filter: floating point. The placing of samples, the
chime's clip and the ramp between two levels: arithmetic over blocks of audio by
one writer. The untrusted log: nobody reads its state. Alexa's commands over HTTP: a request and a cached
token, by one worker. The selects of the API server for button modes and the
Sendspin switch: their setters are in Interceptor, SendspinSwitch and
DelayKeeping. The deployment scripts: run by a person, one after another.
