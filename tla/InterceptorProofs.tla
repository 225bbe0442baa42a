------------------------- MODULE InterceptorProofs -------------------------
(***************************************************************************)
(* What Interceptor promises, for any watched keys and any length of the   *)
(* reader's buffer.                                                        *)
(*                                                                         *)
(* The argument is in two halves.  What waits in the buffer follows the    *)
(* finger (`TurnsAgree`): a key that is up has its release in there if     *)
(* anything of it is, and a key-down comes only after the release of the   *)
(* press before.  And what Android holds is what the presses that were     *)
(* read and passed on hold, or Press (`CloneAgrees`), as long as the clone *)
(* runs and Press has typed no key that was down.                          *)
(***************************************************************************)
EXTENDS Interceptor, TLAPS

Is(i, k, value) == queue[i].key = k /\ queue[i].value = value

\* The key's press, as far as route has read, is passed on to Android.
Passed(k) == k \in pressed /\ latched[k] # "intercept"

\* The clone runs, and Press has typed no key that was down on it.
Clean == phase = "running" /\ ~crossed

\* Nothing is read, typed or held before the grab, and nothing is held once
\* the clone is gone.
PhaseAgrees ==
  /\ phase \in Opening => pressed = {} /\ chain = {} /\ mic = "idle"
  /\ phase = "start" => queue = <<>>
  /\ ~CloneLive => held = {} /\ android = {}
  /\ phase = "cloned" => held = {} /\ android = {}

\* Of a key that is up the buffer ends with the release, if route knows it as
\* pressed or anything else of it waits.
UpIsLast ==
  NodeOpen => \A k \in Keys \ finger :
    /\ k \in pressed => \E l \in DOMAIN queue : Is(l, k, "up")
    /\ \A j \in DOMAIN queue : queue[j].key = k /\ queue[j].value # "up" =>
         \E l \in DOMAIN queue : l > j /\ Is(l, k, "up")

\* A key-down comes after the release of the press before it.
DownIsAfterUp ==
  \A k \in Keys : \A i \in DOMAIN queue : Is(i, k, "down") =>
    /\ k \in pressed => \E l \in DOMAIN queue : l < i /\ Is(l, k, "up")
    /\ \A j \in DOMAIN queue :
         j < i /\ queue[j].key = k /\ queue[j].value # "up" =>
           \E l \in DOMAIN queue : j < l /\ l < i /\ Is(l, k, "up")

TurnsAgree == UpIsLast /\ DownIsAfterUp

\* Android holds what the clone holds, and that is the presses passed on and
\* what Press is typing.
CloneAgrees ==
  Clean =>
    /\ android = held
    /\ \A k \in android : Passed(k) \/ (mic = "down" /\ k = MicKey)
    /\ \A k \in pressed : Passed(k) => k \in held
    /\ mic = "down" => MicKey \in held /\ ~Passed(MicKey)

IInv == TypeOK /\ PhaseAgrees /\ TurnsAgree /\ CloneAgrees /\ DownsAndUpsAlternate

-----------------------------------------------------------------------------
(* Sequences and the shape of steps *)

\* What is at each place after an event was added at the end.
LEMMA Appended ==
  ASSUME NEW q \in Seq(Event), NEW e \in Event
  PROVE  /\ Append(q, e) \in Seq(Event) /\ Len(Append(q, e)) = Len(q) + 1
         /\ DOMAIN Append(q, e) = 1 .. (Len(q) + 1) /\ DOMAIN q = 1 .. Len(q)
         /\ \A i \in DOMAIN q : Append(q, e)[i] = q[i]
         /\ Append(q, e)[Len(q) + 1] = e /\ Len(q) \in Nat
OBVIOUS

\* What is at each place after the first event was taken.
LEMMA Taken ==
  ASSUME NEW q \in Seq(Event), q # <<>>
  PROVE  /\ Tail(q) \in Seq(Event) /\ Head(q) = q[1] /\ Head(q) \in Event
         /\ Len(q) \in Nat /\ 1 \in DOMAIN q
         /\ DOMAIN q = 1 .. Len(q) /\ DOMAIN Tail(q) = 1 .. (Len(q) - 1)
         /\ \A i \in DOMAIN Tail(q) : Tail(q)[i] = q[i + 1] /\ i + 1 \in DOMAIN q
OBVIOUS

\* A step of route takes the first event and moves the key's press with it.
LEMMA Read ==
  ASSUME TypeOK, NEW e, Reads(e)
  PROVE  /\ queue # <<>> /\ e = Head(queue) /\ e \in Event /\ queue' = Tail(queue)
         /\ 1 \in DOMAIN queue /\ queue[1] = e
         /\ routing /\ phase \in Reading /\ NodeOpen
         /\ pressed' = CASE e.value = "down" -> pressed \union {e.key}
                         [] e.value = "up" -> pressed \ {e.key}
                         [] OTHER -> pressed
         /\ latched' = Latch(e)
         /\ UNCHANGED <<finger, mode, mic, crossed>>
BY Taken DEF Reads, TypeOK, NodeOpen

\* Latch changes the latch of the event's key only, and only where the event
\* begins a press or ends none.
LEMMA Latching ==
  ASSUME TypeOK, NEW e \in Event
  PROVE  /\ Latch(e) \in [Keys -> Modes]
         /\ \A k \in Keys \ {e.key} : Latch(e)[k] = latched[k]
         /\ e.value = "repeat" \/ (e.value = "up" /\ e.key \in pressed) => Latch(e) = latched
<1>1. e.key \in Keys /\ e.value \in {"down", "up", "repeat"} /\ mode[e.key] \in Modes
  BY DEF TypeOK, Event, Value
<1>2. CASE e.value = "down" \/ (e.value = "up" /\ e.key \notin pressed)
  BY <1>1, <1>2 DEF Latch, TypeOK
<1>3. CASE ~(e.value = "down" \/ (e.value = "up" /\ e.key \notin pressed))
  BY <1>1, <1>3 DEF Latch, TypeOK
<1> QED
  BY <1>2, <1>3

\* A write moves the event's key only, and Android holds as before what the
\* clone holds.
LEMMA Emission ==
  ASSUME TypeOK, NEW k \in Keys, NEW v \in Value, Emitted(k, v)
  PROVE  /\ CloneLive /\ held' \subseteq Keys /\ android' \subseteq Keys
         /\ v = "down" /\ android = held =>
              held' = held \union {k} /\ android' = android \union {k}
         /\ v = "up" /\ android = held => held' = held \ {k} /\ android' = android \ {k}
         /\ v = "repeat" => held' = held /\ android' = android \union {k}
BY DEF Emitted, Value, TypeOK

-----------------------------------------------------------------------------
(* Types and phases *)

LEMMA InitIInv == Init => IInv
<1> SUFFICES ASSUME Init PROVE IInv
  OBVIOUS
<1>1. queue = <<>> /\ DOMAIN queue = {} /\ queue \in Seq(Event)
  BY DEF Init
<1>2. TypeOK
  BY <1>1, KeysAssumption DEF Init, TypeOK, Modes, StartMode, Opening
<1>3. PhaseAgrees /\ DownsAndUpsAlternate
  BY DEF Init, PhaseAgrees, DownsAndUpsAlternate
<1>4. TurnsAgree
  BY <1>1 DEF Init, TurnsAgree, UpIsLast, DownIsAfterUp
<1>5. CloneAgrees
  BY DEF Init, CloneAgrees, Clean
<1> QED
  BY <1>2, <1>3, <1>4, <1>5 DEF IInv

\* What each kind of step does to the phase, the buffer and the presses.
LEMMA Kinds ==
  ASSUME [Next]_vars
  PROVE  \/ \E k \in Keys : FingerDown(k) \/ FingerUp(k) \/ AutoRepeat(k)
         \/ \E k \in Keys : SetMode(k)
         \/ Lifecycle
         \/ \E e : RouteConsumes(e) \/ RouteEmits(e) \/ EmitFails(e)
         \/ ReadFails
         \/ Press
         \/ UNCHANGED vars
BY DEF Next, Route

LEMMA TypeStep == TypeOK /\ [Next]_vars => TypeOK'
<1> SUFFICES ASSUME TypeOK, [Next]_vars PROVE TypeOK'
  OBVIOUS
<1>1. CASE \E k \in Keys : FingerDown(k) \/ FingerUp(k) \/ AutoRepeat(k)
  <2> PICK k \in Keys : FingerDown(k) \/ FingerUp(k) \/ AutoRepeat(k)
    BY <1>1
  <2>1. PICK v \in Value : Delivered(k, v)
    BY DEF FingerDown, FingerUp, AutoRepeat, Value
  <2> DEFINE e == [key |-> k, value |-> v, native |-> Native]
  <2>2. e \in Event
    BY DEF Event, Native
  <2>3. queue' \in Seq(Event)
    BY <2>1, <2>2, Appended DEF Delivered, TypeOK
  <2>4. finger' \subseteq Keys
    BY DEF FingerDown, FingerUp, AutoRepeat, TypeOK
  <2> QED
    BY <2>1, <2>3, <2>4 DEF Delivered, TypeOK
<1>2. CASE \E k \in Keys : SetMode(k)
  BY <1>2 DEF SetMode, TypeOK
<1>3. CASE Lifecycle
  <2>1. queue' \in Seq(Event)
    BY <1>3 DEF Lifecycle, TypeOK
  <2>2. phase' \in Opening \union Reading \union {"exited"} /\ routing' \in BOOLEAN
        /\ held' \subseteq Keys /\ android' \subseteq Keys
    BY <1>3 DEF Lifecycle, OpenNode, NewUinput, Grab, BeginClose, Ungrab, CloseNode, GrabFails,
                CloseClone, DestroyClone, TypeOK, Opening, Reading
  <2> QED
    BY <1>3, <2>1, <2>2 DEF Lifecycle, TypeOK
<1>4. CASE \E e : RouteConsumes(e) \/ RouteEmits(e) \/ EmitFails(e)
  <2> PICK e : RouteConsumes(e) \/ RouteEmits(e) \/ EmitFails(e)
    BY <1>4
  <2>1. Reads(e)
    BY DEF RouteConsumes, RouteEmits, EmitFails
  <2>2. e \in Event /\ e.key \in Keys /\ e.value \in Value /\ queue' \in Seq(Event)
    BY <2>1, Read, Taken DEF Event, TypeOK
  <2>3. pressed' \subseteq Keys /\ chain' \subseteq Keys /\ latched' \in [Keys -> Modes]
    BY <2>1, <2>2, Latching DEF Reads, TypeOK
  <2>4. held' \subseteq Keys /\ android' \subseteq Keys
    BY <2>2, Emission DEF RouteConsumes, RouteEmits, EmitFails, TypeOK
  <2>5. phase' \in Opening \union Reading \union {"exited"} /\ routing' \in BOOLEAN
    BY DEF RouteConsumes, RouteEmits, EmitFails, RouteStops, TypeOK, Reading
  <2> QED
    BY <2>1, <2>2, <2>3, <2>4, <2>5 DEF Reads, TypeOK
<1>5. CASE ReadFails
  BY <1>5 DEF ReadFails, RouteStops, TypeOK, Reading
<1>6. CASE Press
  <2>1. held' \subseteq Keys /\ android' \subseteq Keys
    BY <1>6, Emission, KeysAssumption
       DEF Press, PressDown, PressUp, PressFails, TypeOK, Value
  <2> QED
    BY <1>6, <2>1 DEF Press, PressDown, PressUp, PressFails, TypeOK, Reading
<1>7. CASE UNCHANGED vars
  BY <1>7 DEF vars, TypeOK
<1> QED
  BY <1>1, <1>2, <1>3, <1>4, <1>5, <1>6, <1>7, Kinds

LEMMA PhaseStep == TypeOK /\ PhaseAgrees /\ [Next]_vars => PhaseAgrees'
<1> SUFFICES ASSUME TypeOK, PhaseAgrees, [Next]_vars PROVE PhaseAgrees'
  OBVIOUS
<1> USE DEF PhaseAgrees, Opening, Reading, CloneLive, NodeOpen
<1>1. CASE \E k \in Keys : FingerDown(k) \/ FingerUp(k) \/ AutoRepeat(k)
  BY <1>1 DEF FingerDown, FingerUp, AutoRepeat, Delivered
<1>2. CASE \E k \in Keys : SetMode(k)
  BY <1>2 DEF SetMode
<1>3. CASE Lifecycle
  BY <1>3 DEF Lifecycle, OpenNode, NewUinput, Grab, BeginClose, Ungrab, CloseNode, GrabFails,
              CloseClone, DestroyClone
<1>4. CASE \E e : RouteConsumes(e) \/ RouteEmits(e) \/ EmitFails(e)
  BY <1>4 DEF RouteConsumes, RouteEmits, EmitFails, RouteStops, Reads, Emitted
<1>5. CASE ReadFails
  BY <1>5 DEF ReadFails, RouteStops
<1>6. CASE Press
  BY <1>6 DEF Press, PressDown, PressUp, PressFails, Emitted, TypeOK
<1>7. CASE UNCHANGED vars
  BY <1>7 DEF vars
<1> QED
  BY <1>1, <1>2, <1>3, <1>4, <1>5, <1>6, <1>7, Kinds

-----------------------------------------------------------------------------
(* The buffer follows the finger *)

\* A key that moves while nobody reads the node leaves the buffer as it is.
LEMMA Unread ==
  ASSUME NEW k \in Keys, NEW v \in Value, Delivered(k, v), ~NodeOpen
  PROVE  UNCHANGED queue /\ ~NodeOpen'
BY DEF Delivered, NodeOpen

\* A key that moves is added at the end.
LEMMA Moved ==
  ASSUME TypeOK, NEW k \in Keys, NEW v \in Value, Delivered(k, v), NodeOpen
  PROVE  /\ DOMAIN queue = 1 .. Len(queue) /\ Len(queue) \in Nat
         /\ DOMAIN queue' = 1 .. (Len(queue) + 1)
         /\ \A i \in DOMAIN queue : queue'[i] = queue[i]
         /\ queue'[Len(queue) + 1].key = k /\ queue'[Len(queue) + 1].value = v
<1> DEFINE e == [key |-> k, value |-> v, native |-> Native]
<1>1. e \in Event /\ e.key = k /\ e.value = v
  BY DEF Event, Native
<1>2. queue' = Append(queue, e) /\ queue \in Seq(Event)
  BY DEF Delivered, TypeOK
<1> HIDE DEF e
<1> QED
  BY <1>1, <1>2, Appended

LEMMA FingerKeepsTurns ==
  ASSUME TypeOK, TurnsAgree, NEW k \in Keys, FingerDown(k) \/ FingerUp(k) \/ AutoRepeat(k)
  PROVE  TurnsAgree'
<1>1. PICK v \in Value :
        /\ Delivered(k, v)
        /\ \/ v = "down" /\ k \notin finger /\ finger' = finger \union {k}
           \/ v = "up" /\ k \in finger /\ finger' = finger \ {k}
           \/ v = "repeat" /\ k \in finger /\ finger' = finger
  BY DEF FingerDown, FingerUp, AutoRepeat, Value
<1>2. UNCHANGED <<phase, pressed>>
  BY <1>1 DEF Delivered
<1>3. CASE ~NodeOpen
  BY <1>1, <1>2, <1>3, Unread DEF TurnsAgree, UpIsLast, DownIsAfterUp, Is
<1>4. CASE NodeOpen
  <2> PICK n \in Nat : n = Len(queue) + 1
    BY <1>1, <1>4, Moved
  <2>1. /\ DOMAIN queue = 1 .. (n - 1) /\ n \in Nat /\ DOMAIN queue' = 1 .. n
        /\ \A i \in 1 .. (n - 1) : queue'[i] = queue[i]
        /\ queue'[n].key = k /\ queue'[n].value = v
    BY <1>1, <1>4, Moved
  <2>2. UpIsLast'
    <3> SUFFICES ASSUME NEW c \in Keys \ finger'
                 PROVE  /\ c \in pressed => \E l \in 1 .. n : Is(l, c, "up")'
                        /\ \A j \in 1 .. n : queue'[j].key = c /\ queue'[j].value # "up" =>
                             \E l \in 1 .. n : l > j /\ Is(l, c, "up")'
      BY <1>2, <2>1 DEF UpIsLast
    <3>1. CASE c = k
      <4>1. v = "up" /\ Is(n, c, "up")'
        BY <1>1, <2>1, <3>1 DEF Is
      <4> QED
        BY <2>1, <3>1, <4>1
    <3>2. CASE c # k
      <4>1. c \in Keys \ finger
        BY <1>1, <3>2
      <4>2. \A l \in 1 .. (n - 1) : Is(l, c, "up") => Is(l, c, "up")'
        BY <2>1 DEF Is
      <4>3. c \in pressed => \E l \in 1 .. n : Is(l, c, "up")'
        BY <1>4, <2>1, <4>1, <4>2 DEF TurnsAgree, UpIsLast
      <4>4. ASSUME NEW j \in 1 .. n, queue'[j].key = c, queue'[j].value # "up"
            PROVE  \E l \in 1 .. n : l > j /\ Is(l, c, "up")'
        <5>1. j \in 1 .. (n - 1) /\ queue[j].key = c /\ queue[j].value # "up"
          BY <2>1, <3>2, <4>4
        <5>2. PICK l \in 1 .. (n - 1) : l > j /\ Is(l, c, "up")
          BY <1>4, <2>1, <4>1, <5>1 DEF TurnsAgree, UpIsLast
        <5> QED
          BY <2>1, <4>2, <5>2
      <4> QED
        BY <4>3, <4>4
    <3> QED
      BY <3>1, <3>2
  <2>3. DownIsAfterUp'
    <3> SUFFICES ASSUME NEW c \in Keys, NEW i \in 1 .. n, Is(i, c, "down")'
                 PROVE  /\ c \in pressed => \E l \in 1 .. n : l < i /\ Is(l, c, "up")'
                        /\ \A j \in 1 .. n :
                             j < i /\ queue'[j].key = c /\ queue'[j].value # "up" =>
                               \E l \in 1 .. n : j < l /\ l < i /\ Is(l, c, "up")'
      BY <1>2, <2>1 DEF DownIsAfterUp
    <3>0. \A l \in 1 .. (n - 1) : Is(l, c, "up") => Is(l, c, "up")'
      BY <2>1 DEF Is
    <3>1. CASE i = n
      <4>1. c = k /\ v = "down" /\ c \in Keys \ finger
        BY <1>1, <2>1, <3>1 DEF Is
      <4>2. c \in pressed => \E l \in 1 .. n : l < i /\ Is(l, c, "up")'
        BY <1>4, <2>1, <3>0, <3>1, <4>1 DEF TurnsAgree, UpIsLast
      <4>3. ASSUME NEW j \in 1 .. n, j < i, queue'[j].key = c, queue'[j].value # "up"
            PROVE  \E l \in 1 .. n : j < l /\ l < i /\ Is(l, c, "up")'
        <5>1. j \in 1 .. (n - 1) /\ queue[j].key = c /\ queue[j].value # "up"
          BY <2>1, <3>1, <4>3
        <5>2. PICK l \in 1 .. (n - 1) : l > j /\ Is(l, c, "up")
          BY <1>4, <2>1, <4>1, <5>1 DEF TurnsAgree, UpIsLast
        <5> QED
          BY <2>1, <3>0, <3>1, <5>2
      <4> QED
        BY <4>2, <4>3
    <3>2. CASE i # n
      <4>1. i \in 1 .. (n - 1) /\ Is(i, c, "down")
        BY <2>1, <3>2 DEF Is
      <4>2. c \in pressed => \E l \in 1 .. n : l < i /\ Is(l, c, "up")'
        BY <2>1, <3>0, <4>1 DEF TurnsAgree, DownIsAfterUp
      <4>3. ASSUME NEW j \in 1 .. n, j < i, queue'[j].key = c, queue'[j].value # "up"
            PROVE  \E l \in 1 .. n : j < l /\ l < i /\ Is(l, c, "up")'
        <5>1. j \in 1 .. (n - 1) /\ queue[j].key = c /\ queue[j].value # "up"
          BY <2>1, <4>1, <4>3
        <5>2. PICK l \in 1 .. (n - 1) : j < l /\ l < i /\ Is(l, c, "up")
          BY <2>1, <4>1, <4>3, <5>1 DEF TurnsAgree, DownIsAfterUp
        <5> QED
          BY <2>1, <3>0, <5>2
      <4> QED
        BY <4>2, <4>3
    <3> QED
      BY <3>1, <3>2
  <2> QED
    BY <2>2, <2>3 DEF TurnsAgree
<1> QED
  BY <1>3, <1>4

\* Route reads a key-down of a key it knows as up only.
LEMMA DownIsNew ==
  ASSUME TypeOK, TurnsAgree, NEW e, Reads(e), e.value = "down"
  PROVE  e.key \notin pressed
<1>1. e \in Event /\ e.key \in Keys /\ 1 \in DOMAIN queue /\ Is(1, e.key, "down")
  BY Read DEF Event, Is
<1>2. \A l \in DOMAIN queue : ~(l < 1)
  BY DEF TypeOK
<1> QED
  BY <1>1, <1>2 DEF TurnsAgree, DownIsAfterUp

LEMMA ReadKeepsTurns ==
  ASSUME TypeOK, TurnsAgree, NEW e, Reads(e), phase' \in Reading
  PROVE  TurnsAgree'
<1> DEFINE n == Len(queue)
<1>1. /\ n \in Nat /\ DOMAIN queue = 1 .. n /\ DOMAIN queue' = 1 .. (n - 1) /\ n > 0
      /\ \A i \in 1 .. (n - 1) : queue'[i] = queue[i + 1]
      /\ queue[1] = e /\ e \in Event /\ finger' = finger /\ NodeOpen
      /\ e.key \in Keys /\ e.value \in {"down", "up", "repeat"}
  BY Read, Taken DEF TypeOK, Event, Value
<1> HIDE DEF n
<1>2. \A k \in Keys, i \in 1 .. (n - 1), v \in Value : Is(i, k, v)' <=> Is(i + 1, k, v)
  BY <1>1 DEF Is
<1>3. \A k \in Keys : k \in pressed' => k \in pressed \/ (k = e.key /\ e.value = "down")
  BY Read
<1>3a. e.value = "up" => e.key \notin pressed'
  BY Read
<1>4. UpIsLast'
  <2> SUFFICES ASSUME NEW c \in Keys \ finger
               PROVE  /\ c \in pressed' => \E l \in 1 .. (n - 1) : Is(l, c, "up")'
                      /\ \A j \in 1 .. (n - 1) : queue'[j].key = c /\ queue'[j].value # "up" =>
                           \E l \in 1 .. (n - 1) : l > j /\ Is(l, c, "up")'
    BY <1>1 DEF UpIsLast
  <2>1. ASSUME c \in pressed'
        PROVE  \E l \in 1 .. (n - 1) : Is(l, c, "up")'
    <3>1. \E l \in 1 .. n : Is(l, c, "up") /\ l # 1
      <4>1. CASE c \in pressed
        <5>1. PICK l \in 1 .. n : Is(l, c, "up")
          BY <1>1, <4>1 DEF TurnsAgree, UpIsLast
        <5> QED
          BY <1>1, <1>3a, <2>1, <5>1 DEF Is
      <4>2. CASE c = e.key /\ e.value = "down"
        <5>1. 1 \in 1 .. n /\ queue[1].key = c /\ queue[1].value # "up"
          BY <1>1, <4>2
        <5> QED
          BY <1>1, <5>1 DEF TurnsAgree, UpIsLast
      <4> QED
        BY <1>3, <2>1, <4>1, <4>2
    <3>2. PICK l \in 1 .. n : Is(l, c, "up") /\ l # 1
      BY <3>1
    <3>3. l - 1 \in 1 .. (n - 1) /\ (l - 1) + 1 = l
      BY <1>1, <3>2
    <3> QED
      BY <1>2, <3>2, <3>3 DEF Value
  <2>2. ASSUME NEW j \in 1 .. (n - 1), queue'[j].key = c, queue'[j].value # "up"
        PROVE  \E l \in 1 .. (n - 1) : l > j /\ Is(l, c, "up")'
    <3>1. j + 1 \in 1 .. n /\ queue[j + 1].key = c /\ queue[j + 1].value # "up"
      BY <1>1, <2>2
    <3>2. PICK l \in 1 .. n : l > j + 1 /\ Is(l, c, "up")
      BY <1>1, <3>1 DEF TurnsAgree, UpIsLast
    <3>3. l - 1 \in 1 .. (n - 1) /\ (l - 1) + 1 = l /\ l - 1 > j
      BY <1>1, <3>2
    <3> QED
      BY <1>2, <3>2, <3>3 DEF Value
  <2> QED
    BY <2>1, <2>2
<1>5. DownIsAfterUp'
  <2> SUFFICES ASSUME NEW c \in Keys, NEW i \in 1 .. (n - 1), Is(i, c, "down")'
               PROVE  /\ c \in pressed' => \E l \in 1 .. (n - 1) : l < i /\ Is(l, c, "up")'
                      /\ \A j \in 1 .. (n - 1) :
                           j < i /\ queue'[j].key = c /\ queue'[j].value # "up" =>
                             \E l \in 1 .. (n - 1) : j < l /\ l < i /\ Is(l, c, "up")'
    BY <1>1 DEF DownIsAfterUp
  <2>0. i + 1 \in 1 .. n /\ Is(i + 1, c, "down") /\ 1 < i + 1
    BY <1>1, <1>2 DEF Value
  <2>1. ASSUME c \in pressed'
        PROVE  \E l \in 1 .. (n - 1) : l < i /\ Is(l, c, "up")'
    <3>1. \E l \in 1 .. n : l < i + 1 /\ Is(l, c, "up") /\ l # 1
      <4>1. CASE c \in pressed
        <5>1. PICK l \in 1 .. n : l < i + 1 /\ Is(l, c, "up")
          BY <1>1, <2>0, <4>1 DEF TurnsAgree, DownIsAfterUp
        <5> QED
          BY <1>1, <1>3a, <2>1, <5>1 DEF Is
      <4>2. CASE c = e.key /\ e.value = "down"
        <5>1. 1 \in 1 .. n /\ queue[1].key = c /\ queue[1].value # "up"
          BY <1>1, <4>2
        <5> QED
          BY <1>1, <2>0, <5>1 DEF TurnsAgree, DownIsAfterUp
      <4> QED
        BY <1>3, <2>1, <4>1, <4>2
    <3>2. PICK l \in 1 .. n : l < i + 1 /\ Is(l, c, "up") /\ l # 1
      BY <3>1
    <3>3. l - 1 \in 1 .. (n - 1) /\ (l - 1) + 1 = l /\ l - 1 < i
      BY <1>1, <3>2
    <3> QED
      BY <1>2, <3>2, <3>3 DEF Value
  <2>2. ASSUME NEW j \in 1 .. (n - 1), j < i, queue'[j].key = c, queue'[j].value # "up"
        PROVE  \E l \in 1 .. (n - 1) : j < l /\ l < i /\ Is(l, c, "up")'
    <3>1. j + 1 \in 1 .. n /\ j + 1 < i + 1 /\ queue[j + 1].key = c
          /\ queue[j + 1].value # "up"
      BY <1>1, <2>2
    <3>2. PICK l \in 1 .. n : j + 1 < l /\ l < i + 1 /\ Is(l, c, "up")
      BY <1>1, <2>0, <3>1 DEF TurnsAgree, DownIsAfterUp
    <3>3. l - 1 \in 1 .. (n - 1) /\ (l - 1) + 1 = l /\ j < l - 1 /\ l - 1 < i
      BY <1>1, <3>2
    <3> QED
      BY <1>2, <3>2, <3>3 DEF Value
  <2> QED
    BY <2>1, <2>2
<1> QED
  BY <1>4, <1>5 DEF TurnsAgree

LEMMA TurnsStep == TypeOK /\ PhaseAgrees /\ TurnsAgree /\ [Next]_vars => TurnsAgree'
<1> SUFFICES ASSUME TypeOK, PhaseAgrees, TurnsAgree, [Next]_vars PROVE TurnsAgree'
  OBVIOUS
<1>1. CASE \E k \in Keys : FingerDown(k) \/ FingerUp(k) \/ AutoRepeat(k)
  BY <1>1, FingerKeepsTurns
<1>2. CASE \E k \in Keys : SetMode(k)
  BY <1>2 DEF SetMode, TurnsAgree, UpIsLast, DownIsAfterUp, Is, NodeOpen
<1>3. CASE Lifecycle
  <2>1. CASE phase' = "exited"
    BY <1>3, <2>1 DEF Lifecycle, TurnsAgree, UpIsLast, DownIsAfterUp, NodeOpen, Reading
  <2>2. CASE phase = "start" /\ phase' # "exited"
    <3>1. queue' = <<>> /\ DOMAIN queue' = {} /\ pressed' = {}
      BY <1>3, <2>2 DEF Lifecycle, PhaseAgrees, Opening
    <3> QED
      BY <3>1 DEF TurnsAgree, UpIsLast, DownIsAfterUp
  <2>3. CASE phase # "start" /\ phase' # "exited"
    <3>1. NodeOpen /\ UNCHANGED <<queue, finger, pressed>>
      BY <1>3, <2>3
         DEF Lifecycle, OpenNode, NewUinput, Grab, BeginClose, Ungrab, CloseNode, GrabFails,
             CloseClone, DestroyClone, NodeOpen, Reading
    <3> QED
      BY <3>1 DEF TurnsAgree, UpIsLast, DownIsAfterUp, Is
  <2> QED
    BY <2>1, <2>2, <2>3
<1>4. CASE \E e : RouteConsumes(e) \/ RouteEmits(e) \/ EmitFails(e)
  <2> PICK e : RouteConsumes(e) \/ RouteEmits(e) \/ EmitFails(e)
    BY <1>4
  <2>1. Reads(e) /\ phase' \in Reading
    BY DEF RouteConsumes, RouteEmits, EmitFails, Reads, RouteStops, Reading
  <2> QED
    BY <2>1, ReadKeepsTurns
<1>5. CASE ReadFails
  BY <1>5 DEF ReadFails, RouteStops, TurnsAgree, UpIsLast, DownIsAfterUp, Is, NodeOpen, Reading
<1>6. CASE Press
  <2>1. UNCHANGED <<queue, finger, pressed>> /\ (NodeOpen' => NodeOpen)
    BY <1>6 DEF Press, PressDown, PressUp, PressFails, NodeOpen, Reading
  <2> QED
    BY <2>1 DEF TurnsAgree, UpIsLast, DownIsAfterUp, Is
<1>7. CASE UNCHANGED vars
  BY <1>7 DEF vars, TurnsAgree, UpIsLast, DownIsAfterUp, Is, NodeOpen
<1> QED
  BY <1>1, <1>2, <1>3, <1>4, <1>5, <1>6, <1>7, Kinds

-----------------------------------------------------------------------------
(* Android holds what was passed on *)

LEMMA RouteKeepsClone ==
  ASSUME TypeOK, TurnsAgree, CloneAgrees, NEW e,
         RouteConsumes(e) \/ RouteEmits(e) \/ EmitFails(e)
  PROVE  CloneAgrees'
<1>1. Reads(e)
  BY DEF RouteConsumes, RouteEmits, EmitFails
<1>2. e.key \in Keys /\ e.value \in {"down", "up", "repeat"} /\ e \in Event
  BY <1>1, Read DEF Event, Value
<1>3. /\ \A k \in Keys \ {e.key} : (Passed(k)' <=> Passed(k)) /\ (k \in pressed' <=> k \in pressed)
      /\ e.key \in pressed' <=> e.value = "down" \/ (e.value = "repeat" /\ e.key \in pressed)
      /\ Passed(e.key)' <=> e.key \in pressed' /\ Latch(e)[e.key] # "intercept"
      /\ UNCHANGED <<mic, crossed>> /\ pressed' \subseteq Keys
  BY <1>1, <1>2, Read, Latching DEF Passed, TypeOK
<1>4. e.value = "down" => ~Passed(e.key)
  BY <1>1, DownIsNew DEF Passed
<1>5. e.value = "repeat" \/ (e.value = "up" /\ e.key \in pressed) => Latch(e) = latched
  BY <1>2, Latching
<1>6. CASE EmitFails(e)
  BY <1>6 DEF EmitFails, RouteStops, CloneAgrees, Clean
<1>7. CASE RouteConsumes(e)
  <2>1. UNCHANGED <<phase, held, android>> /\ Consumed(e)
    BY <1>7 DEF RouteConsumes
  <2>2. Passed(e.key)' => Passed(e.key)
    BY <1>2, <1>3, <1>5, <2>1 DEF Consumed, Passed
  <2>3. Passed(e.key) => Passed(e.key)'
    BY <1>2, <1>3, <1>4, <1>5, <2>1 DEF Consumed, Passed
  <2>4. \A k \in Keys : Passed(k)' <=> Passed(k)
    BY <1>3, <2>2, <2>3
  <2>5. \A k \in Keys : Passed(k) => k \in pressed
    BY DEF Passed
  <2> QED
    BY <1>3, <2>1, <2>4, <2>5, KeysAssumption DEF CloneAgrees, Clean, TypeOK
<1>8. CASE RouteEmits(e)
  <2>1. UNCHANGED phase /\ ~Consumed(e) /\ mic = "idle" /\ Emitted(e.key, e.value)
    BY <1>8 DEF RouteEmits
  <2> SUFFICES ASSUME Clean' PROVE CloneAgrees'
    BY DEF CloneAgrees
  <2>2. /\ Clean /\ android = held /\ mic' = "idle" /\ held \subseteq Keys
        /\ \A k \in android : Passed(k)
        /\ \A k \in pressed : Passed(k) => k \in held
    BY <1>3, <2>1 DEF CloneAgrees, Clean, TypeOK
  <2>3. CASE e.value = "down"
    <3>1. Passed(e.key)' /\ held' = held \union {e.key} /\ android' = android \union {e.key}
      BY <1>2, <1>3, <2>1, <2>2, <2>3, Emission DEF Consumed, Value
    <3> QED
      BY <1>3, <2>2, <3>1 DEF CloneAgrees, TypeOK
  <2>4. CASE e.value = "up"
    <3>1. ~Passed(e.key)' /\ held' = held \ {e.key} /\ android' = android \ {e.key}
      BY <1>2, <1>3, <2>1, <2>2, <2>4, Emission DEF Value
    <3> QED
      BY <1>3, <2>2, <3>1 DEF CloneAgrees, TypeOK
  <2>5. CASE e.value = "repeat"
    <3>1. Passed(e.key) /\ Passed(e.key)' /\ held' = held /\ android' = android \union {e.key}
      BY <1>2, <1>3, <1>5, <2>1, <2>5, Emission DEF Consumed, Value, Passed
    <3>2. e.key \in android
      BY <2>2, <3>1 DEF Passed
    <3> QED
      BY <1>3, <2>2, <3>1, <3>2 DEF CloneAgrees, TypeOK, Passed
  <2> QED
    BY <1>2, <2>3, <2>4, <2>5
<1> QED
  BY <1>6, <1>7, <1>8

LEMMA PressKeepsClone ==
  ASSUME TypeOK, CloneAgrees, Press
  PROVE  CloneAgrees'
<1> SUFFICES ASSUME Clean' PROVE CloneAgrees'
  BY DEF CloneAgrees
<1>1. \A k : Passed(k)' <=> Passed(k)
  BY DEF Press, Passed
<1>2. UNCHANGED pressed /\ MicKey \in Keys
  BY KeysAssumption DEF Press
<1>3. CASE PressDown
  <2>1. Clean /\ MicKey \notin held /\ mic' = "down" /\ android = held
    BY <1>3 DEF PressDown, Clean, CloneAgrees
  <2>2. held' = held \union {MicKey} /\ android' = android \union {MicKey}
    BY <1>2, <1>3, <2>1, Emission DEF PressDown, Value
  <2>3. ~Passed(MicKey)
    BY <2>1 DEF CloneAgrees, Passed
  <2> QED
    BY <1>1, <1>2, <1>3, <2>1, <2>2, <2>3 DEF CloneAgrees, PressDown
<1>4. CASE PressUp
  <2>1. Clean /\ mic = "down" /\ mic' = "idle" /\ android = held /\ ~Passed(MicKey)
    BY <1>4 DEF PressUp, Clean, CloneAgrees
  <2>2. held' = held \ {MicKey} /\ android' = android \ {MicKey}
    BY <1>2, <1>4, <2>1, Emission DEF PressUp, Value
  <2> QED
    BY <1>1, <1>2, <2>1, <2>2 DEF CloneAgrees
<1>5. CASE PressFails
  BY <1>5 DEF PressFails, Clean
<1> QED
  BY <1>3, <1>4, <1>5 DEF Press

LEMMA CloneStep ==
  TypeOK /\ PhaseAgrees /\ TurnsAgree /\ CloneAgrees /\ [Next]_vars => CloneAgrees'
<1> SUFFICES ASSUME TypeOK, PhaseAgrees, TurnsAgree, CloneAgrees, [Next]_vars
             PROVE  CloneAgrees'
  OBVIOUS
<1>1. CASE \E k \in Keys : FingerDown(k) \/ FingerUp(k) \/ AutoRepeat(k)
  BY <1>1 DEF FingerDown, FingerUp, AutoRepeat, Delivered, CloneAgrees, Clean, Passed
<1>2. CASE \E k \in Keys : SetMode(k)
  BY <1>2 DEF SetMode, CloneAgrees, Clean, Passed
<1>3. CASE Lifecycle
  <2>1. CASE Clean'
    <3>1. phase = "cloned" /\ UNCHANGED <<held, android, pressed, latched, mic>>
      BY <1>3, <2>1
         DEF Lifecycle, OpenNode, NewUinput, Grab, BeginClose, Ungrab, CloseNode, GrabFails,
             CloseClone, DestroyClone, Clean
    <3> QED
      BY <3>1 DEF PhaseAgrees, Opening, CloneAgrees, Passed
  <2> QED
    BY <2>1 DEF CloneAgrees
<1>4. CASE \E e : RouteConsumes(e) \/ RouteEmits(e) \/ EmitFails(e)
  BY <1>4, RouteKeepsClone
<1>5. CASE ReadFails
  BY <1>5 DEF ReadFails, RouteStops, CloneAgrees, Clean, Passed
<1>6. CASE Press
  BY <1>6, PressKeepsClone
<1>7. CASE UNCHANGED vars
  BY <1>7 DEF vars, CloneAgrees, Clean, Passed
<1> QED
  BY <1>1, <1>2, <1>3, <1>4, <1>5, <1>6, <1>7, Kinds

LEMMA AlternateStep ==
  TypeOK /\ TurnsAgree /\ DownsAndUpsAlternate /\ [Next]_vars => DownsAndUpsAlternate'
<1> SUFFICES ASSUME TypeOK, TurnsAgree, DownsAndUpsAlternate, [Next]_vars
             PROVE  DownsAndUpsAlternate'
  OBVIOUS
<1> USE DEF DownsAndUpsAlternate
<1>1. CASE \E k \in Keys : FingerDown(k) \/ FingerUp(k) \/ AutoRepeat(k)
  BY <1>1 DEF FingerDown, FingerUp, AutoRepeat, Delivered
<1>2. CASE \E k \in Keys : SetMode(k)
  BY <1>2 DEF SetMode
<1>3. CASE Lifecycle
  BY <1>3 DEF Lifecycle
<1>4. CASE \E e : RouteConsumes(e) \/ RouteEmits(e) \/ EmitFails(e)
  <2> PICK e : RouteConsumes(e) \/ RouteEmits(e) \/ EmitFails(e)
    BY <1>4
  <2>1. Reads(e)
    BY DEF RouteConsumes, RouteEmits, EmitFails
  <2>2. e \in Event
    BY <2>1, Read
  <2>2a. e.key \in Keys /\ e.value \in {"down", "up", "repeat"}
    BY <2>2 DEF Event, Value
  <2>3. \A k \in Keys \ {e.key} : Latch(e)[k] = latched[k]
    BY <2>2, Latching
  <2>4. CASE e.value = "down"
    BY <2>1, <2>2, <2>2a, <2>3, <2>4, DownIsNew, Read DEF Reads
  <2>5. CASE e.value = "up"
    BY <2>1, <2>2, <2>2a, <2>3, <2>5, Latching, Read, ZenonT(30) DEF Reads
  <2>6. CASE e.value = "repeat"
    BY <2>1, <2>2, <2>2a, <2>3, <2>6, Latching, Read, ZenonT(30) DEF Reads
  <2> QED
    BY <2>2a, <2>4, <2>5, <2>6
<1>5. CASE ReadFails
  BY <1>5 DEF ReadFails
<1>6. CASE Press
  BY <1>6 DEF Press
<1>7. CASE UNCHANGED vars
  BY <1>7 DEF vars
<1> QED
  BY <1>1, <1>2, <1>3, <1>4, <1>5, <1>6, <1>7, Kinds

-----------------------------------------------------------------------------
(* The theorems *)

\* The invariant that ties the buffer to the finger and the clone to the
\* presses holds in every reachable state of button.go's interceptor.
THEOREM InterceptorInductive == Spec => []IInv
<1>1. IInv /\ [Next]_vars => IInv'
  BY TypeStep, PhaseStep, TurnsStep, CloneStep, AlternateStep DEF IInv
<1> QED
  BY InitIInv, <1>1, PTL DEF Spec

\* Grab, clone, latches and the two keys' states keep their types.
THEOREM InterceptorType == Spec => []TypeOK
<1>1. IInv => TypeOK
  BY DEF IInv
<1> QED
  BY InterceptorInductive, <1>1, PTL

\* No mode change, start or close leaves Android holding a key that nobody
\* touches, for any number of keys and of events that wait for route.
THEOREM NoKeySticks == Spec => []NoStuckKey
<1>1. IInv => NoStuckKey
  <2> SUFFICES ASSUME IInv, NEW k \in Keys \ finger, k \in android, phase # "closing",
                      mic # "down", ~crossed
               PROVE  \E i \in DOMAIN queue : queue[i].key = k
    BY DEF NoStuckKey
  <2>1. Clean
    BY DEF IInv, PhaseAgrees, CloneLive, Clean
  <2>2. k \in pressed
    BY <2>1 DEF IInv, CloneAgrees, Passed
  <2> QED
    BY <2>1, <2>2 DEF IInv, TurnsAgree, UpIsLast, Clean, NodeOpen, Reading, Is
<1> QED
  BY InterceptorInductive, <1>1, PTL

\* Nothing of a press that was latched as intercepted reaches Android,
\* whatever SetMode does meanwhile.
THEOREM InterceptedUnseen == Spec => []InterceptedStaysUnseen
<1>1. IInv => InterceptedStaysUnseen
  BY DEF IInv, InterceptedStaysUnseen, PhaseAgrees, CloneLive, CloneAgrees, Clean, Passed
<1> QED
  BY InterceptorInductive, <1>1, PTL

\* Every MultiPress gets Down and Up in turn, which Gestures takes for
\* granted, although the mode can change inside a press.
THEOREM GesturesAreFedInTurn == Spec => []DownsAndUpsAlternate
<1>1. IInv => DownsAndUpsAlternate
  BY DEF IInv
<1> QED
  BY InterceptorInductive, <1>1, PTL
=============================================================================
