---------------------------- MODULE Interceptor ----------------------------
(***************************************************************************)
(* internal/button/button.go: the grab on /dev/input/event1, the uinput    *)
(* clone that stands in for it, the per-key modes and latches of route,    *)
(* and Press, by which the microphone switch types the mute key.           *)
(*                                                                         *)
(* The kernel is external and is what the code relies on: a node delivers  *)
(* to every reader until one grabs it; a reader's buffer starts at its     *)
(* open and the grab does not flush it; an uinput device drops a key-down  *)
(* or key-up that repeats its state, and passes an autorepeat on whatever  *)
(* its state; destroying the device releases what it held.                 *)
(***************************************************************************)
EXTENDS Naturals, Sequences

CONSTANTS
  Keys,       \* the watched keycodes, serve.go buttons
  MicKey,     \* muteKey, the one UseMicMute presses
  MaxQueue,   \* bound: unread events in the reader's buffer
  EarlyEvents \* can a key move between os.Open and EVIOCGRAB?

ASSUME KeysAssumption == MicKey \in Keys
ASSUME EarlyIsBoolean == EarlyEvents \in BOOLEAN

Modes == {"intercept", "monitor", "pass through"}

\* buttonStart: what the daemon starts each key in.
StartMode == [k \in Keys |-> IF k = MicKey THEN "monitor" ELSE "intercept"]

Value == {"down", "up", "repeat"}

VARIABLES
  phase,    \* how far Open, or Close, has got
  queue,    \* our reader's buffer: events route has not read
  finger,   \* keys physically down
  mode, latched, pressed,  \* per key: w.mode, w.latched, w.pressedAt # 0
  routing,  \* route is still reading
  held,     \* the clone's own key state, in the kernel
  android,  \* keys Android holds down on the clone
  mic,      \* Press: "idle", or "down" between its two emits under emitMu
  chain,    \* keys whose MultiPress had Down and not yet Up
  crossed   \* history: Press typed a key that was already down on the clone

vars == <<phase, queue, finger, mode, latched, pressed, routing, held, android,
          mic, chain, crossed>>

Opening == {"start", "opened", "cloned"}
Reading == {"running", "closing", "cloneGone", "ungrabbed"}
Grabbed == phase \in {"running", "closing", "cloneGone"}
CloneLive == phase \in {"cloned", "running", "closing"}
NodeOpen == phase \in {"opened", "cloned"} \union Reading

\* An event, and whether Android also took it from the node: before the grab,
\* after it was given up, or not at all.
Event == [key : Keys, value : Value, native : {"no", "before", "after"}]

TypeOK ==
  /\ phase \in Opening \union Reading \union {"exited"}
  /\ queue \in Seq(Event)
  /\ finger \subseteq Keys /\ pressed \subseteq Keys /\ held \subseteq Keys
  /\ android \subseteq Keys /\ chain \subseteq Keys
  /\ mode \in [Keys -> Modes] /\ latched \in [Keys -> Modes]
  /\ mic \in {"idle", "down"}
  /\ {routing, crossed} \subseteq BOOLEAN

Init ==
  /\ phase = "start" /\ queue = <<>>
  /\ finger \in SUBSET Keys
  /\ mode = StartMode /\ latched = [k \in Keys |-> "intercept"]
  /\ pressed = {} /\ routing = FALSE
  /\ held = {} /\ android = {} /\ mic = "idle" /\ chain = {}
  /\ crossed = FALSE

-----------------------------------------------------------------------------
(* The key pad and the kernel *)

Native == IF Grabbed THEN "no" ELSE IF phase \in Opening THEN "before" ELSE "after"

Delivered(k, value) ==
  /\ Len(queue) < MaxQueue
  /\ phase \in {"opened", "cloned"} => EarlyEvents
  /\ queue' = IF NodeOpen
              THEN Append(queue, [key |-> k, value |-> value, native |-> Native])
              ELSE queue
  /\ UNCHANGED <<phase, mode, latched, pressed, routing, held, android, mic,
                 chain, crossed>>

FingerDown(k) == k \notin finger /\ finger' = finger \union {k} /\ Delivered(k, "down")
FingerUp(k) == k \in finger /\ finger' = finger \ {k} /\ Delivered(k, "up")
AutoRepeat(k) == k \in finger /\ UNCHANGED finger /\ Delivered(k, "repeat")

\* What a write of one event to the clone does to the clone and to Android.
Emitted(k, value) ==
  /\ CloneLive
  /\ held' = CASE value = "down" -> held \union {k}
               [] value = "up" -> held \ {k}
               [] OTHER -> held
  /\ android' = CASE value = "down" /\ k \in held -> android
                  [] value = "up" /\ k \notin held -> android
                  [] value = "up" -> android \ {k}
                  [] OTHER -> android \union {k}

-----------------------------------------------------------------------------
(* Open and Close *)

OpenNode == phase = "start" /\ phase' = "opened" /\ UNCHANGED routing
NewUinput == phase = "opened" /\ phase' = "cloned" /\ UNCHANGED routing
Grab == phase = "cloned" /\ phase' = "running" /\ routing' = TRUE

\* A signal, a failed re-emission or a stuck Press: i.Close, under i.once.
BeginClose == phase = "running" /\ phase' = "closing" /\ UNCHANGED routing
Ungrab == phase = "cloneGone" /\ phase' = "ungrabbed" /\ UNCHANGED routing
CloseNode == phase = "ungrabbed" /\ phase' = "exited" /\ routing' = FALSE

\* uiDevDestroy; in Open it is the cleanup after EVIOCGRAB failed, and the
\* file is closed and serve returns right after.
DestroyClone ==
  /\ phase' = CASE phase = "closing" -> "cloneGone" [] phase = "cloned" -> "exited"
  /\ held' = {} /\ android' = {}
  /\ UNCHANGED routing

GrabFails == phase = "cloned" /\ DestroyClone
CloseClone == phase = "closing" /\ DestroyClone

Lifecycle ==
  /\ \/ (OpenNode \/ NewUinput \/ Grab \/ BeginClose \/ Ungrab \/ CloseNode)
        /\ UNCHANGED <<held, android>>
     \/ GrabFails
     \/ CloseClone
  /\ queue' = IF phase' = "exited" THEN <<>> ELSE queue
  /\ UNCHANGED <<finger, mode, latched, pressed, mic, chain, crossed>>

\* Slip: SetMode stores whatever word it was given.
SetAnyMode(k) ==
  /\ phase \in Reading
  /\ mode' = [mode EXCEPT ![k] = "passthrough"]
  /\ UNCHANGED <<phase, queue, finger, latched, pressed, routing, held,
                 android, mic, chain, crossed>>

\* A select in Home Assistant, while the reader is wherever it is.
SetMode(k) ==
  /\ phase \in Reading
  /\ mode' \in {[mode EXCEPT ![k] = m] : m \in Modes}
  /\ UNCHANGED <<phase, queue, finger, latched, pressed, routing, held,
                 android, mic, chain, crossed>>

-----------------------------------------------------------------------------
(* route, one event at a time *)

\* Slip: route goes by the mode of the moment.
NoLatch(e) == [latched EXCEPT ![e.key] = mode[e.key]]

\* The mode that governs event e, after the latch it sets.
Latch(e) ==
  LET sets == e.value = "down" \/ (e.value = "up" /\ e.key \notin pressed)
  IN  IF sets THEN [latched EXCEPT ![e.key] = mode[e.key]] ELSE latched

\* Slip: route re-emits every repeat.
ConsumedButRepeats(e) == Latch(e)[e.key] = "intercept" /\ e.value # "repeat"

Consumed(e) ==
  \/ Latch(e)[e.key] = "intercept"
  \/ e.value = "repeat" /\ e.key \notin pressed

Reads(e) ==
  /\ routing /\ phase \in Reading /\ queue # <<>> /\ e = Head(queue)
  /\ queue' = Tail(queue)
  /\ latched' = Latch(e)
  /\ pressed' = CASE e.value = "down" -> pressed \union {e.key}
                  [] e.value = "up" -> pressed \ {e.key}
                  [] OTHER -> pressed
  /\ chain' = IF Latch(e)[e.key] = "pass through" THEN chain
              ELSE CASE e.value = "down" -> chain \union {e.key}
                     [] e.value = "up" /\ e.key \in pressed -> chain \ {e.key}
                     [] OTHER -> chain
  /\ UNCHANGED <<finger, mode, mic, crossed>>

RouteConsumes(e) ==
  /\ Reads(e)
  /\ Consumed(e)
  /\ UNCHANGED <<phase, routing, held, android>>

\* emit waits for emitMu, which Press holds from its down to its up.
RouteEmits(e) ==
  /\ Reads(e)
  /\ ~Consumed(e)
  /\ mic = "idle"
  /\ Emitted(e.key, e.value)
  /\ UNCHANGED <<phase, routing>>

\* Slip: nobody closes the interceptor of a route that returned.
RouteStopsAlone == routing' = FALSE /\ UNCHANGED phase

\* route returns an error, and serve's deferred Close takes the interceptor
\* down: a write to the clone failed, with the key written or not, ...
RouteStops ==
  /\ routing' = FALSE
  /\ phase' = IF phase = "running" THEN "closing" ELSE phase

EmitFails(e) ==
  /\ Reads(e)
  /\ ~Consumed(e)
  /\ mic = "idle"
  /\ RouteStops
  /\ \/ Emitted(e.key, e.value)
     \/ UNCHANGED <<held, android>>

\* ... or the node could not be read.
ReadFails ==
  /\ routing /\ phase \in Reading
  /\ RouteStops
  /\ UNCHANGED <<queue, finger, mode, latched, pressed, held, android, mic,
                 chain, crossed>>

Route == \E e \in {queue[i] : i \in DOMAIN queue} :
           RouteConsumes(e) \/ RouteEmits(e) \/ EmitFails(e)

-----------------------------------------------------------------------------
(* Press, called by the microphone worker *)

\* emit(code, 1), and press has still to send the key-up.
PressDown ==
  /\ mic = "idle" /\ phase \in Reading
  /\ mic' = "down"
  /\ Emitted(MicKey, "down")
  /\ crossed' = (crossed \/ MicKey \in held)
  /\ UNCHANGED phase

PressUp ==
  /\ mic = "down"
  /\ mic' = "idle"
  /\ Emitted(MicKey, "up")
  /\ UNCHANGED <<phase, crossed>>

\* Either emit fails, landed or not: ErrKeyStuck, and UseMicMute closes the
\* interceptor and exits.
PressFails ==
  /\ phase \in Reading
  /\ mic' = "idle"
  /\ phase' = IF phase = "running" THEN "closing" ELSE phase
  /\ \/ Emitted(MicKey, IF mic = "idle" THEN "down" ELSE "up")
     \/ UNCHANGED <<held, android>>
  /\ UNCHANGED crossed

Press ==
  /\ PressDown \/ PressUp \/ PressFails
  /\ UNCHANGED <<queue, finger, mode, latched, pressed, routing, chain>>

Next ==
  \/ \E k \in Keys : FingerDown(k) \/ FingerUp(k) \/ AutoRepeat(k) \/ SetMode(k)
  \/ Lifecycle
  \/ Route \/ ReadFails
  \/ Press

Spec == Init /\ [][Next]_vars

\* The daemon's goroutines run, and route gets emitMu in the end.  Fingers,
\* peers and failures owe nothing, and neither does BeginClose.
Fairness ==
  /\ SF_vars(Route)
  /\ WF_vars(mic = "down" /\ Press)
  /\ WF_vars(phase # "running" /\ Lifecycle)

FairSpec == Spec /\ Fairness

-----------------------------------------------------------------------------
(* Properties *)

\* A key nobody is touching is up on the clone once route has read everything
\* and Press is between calls: no mode change between a down and its up, no
\* key held across the start and no closing order leaves Android holding it.
\* Press typing a key that is already down is set apart: see crossed.
NoStuckKey ==
  \A k \in Keys \ finger :
    \/ k \notin android
    \/ \E i \in DOMAIN queue : queue[i].key = k
    \/ mic = "down" \/ phase = "closing"
    \/ crossed

\* While a press latched as intercepted lasts, Android holds nothing of it,
\* whatever the mode is changed to meanwhile.
InterceptedStaysUnseen ==
  \A k \in pressed :
    latched[k] = "intercept" /\ mic = "idle" /\ phase # "closing" /\ ~crossed =>
      k \notin android

\* MultiPress sees Down and Up in turn for each key (Gestures' read loop):
\* the calls of a press agree although the mode can change inside it.
DownsAndUpsAlternate ==
  \A k \in Keys : k \in chain <=> k \in pressed /\ latched[k] # "pass through"

\* A key that is up for good does not stay down for Android: its release gets
\* past Press, which holds emitMu, or the clone goes.
ReleasesReachAndroid ==
  \A k \in Keys : <>[](k \notin finger /\ ~crossed) => []<>(k \notin android)

-----------------------------------------------------------------------------
(* Said in docs/button.md, and not so *)

\* "A key held across daemon start has no latch: Android took its key-down
\* from the real node before the grab.  Nothing is reported."
HeldAcrossStartIsSilent ==
  [][Route /\ Head(queue).native = "before" => chain' \subseteq chain]_vars
=============================================================================
