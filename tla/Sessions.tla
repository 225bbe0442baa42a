------------------------------ MODULE Sessions ------------------------------
(***************************************************************************)
(* The Sendspin client (internal/sendspin/client.go, play.go, and what      *)
(* stream.go, command.go and hello.go decide of a message): the connections *)
(* of its servers, which of them holds the player, what each is told in     *)
(* client/state and stream/request-format, and the stream it plays.         *)
(*                                                                          *)
(* A session has a goroutine that reads (run), one that answers tokens      *)
(* (reportDelays), one that follows the output (watchOutput) and one that   *)
(* follows the volume (watchVolume).  They share c.mu (held, heldReady),    *)
(* c.stating (one client/state at a time) and three atomics.  A step is     *)
(* what happens between two of those.                                       *)
(*                                                                          *)
(* Servers are external: they send what they like and may go at any time.   *)
(* The handshake, the messages' parsing, the clock filter and the audio are *)
(* not modelled, nor is the keeping of the delay, which is DelayKeeping.    *)
(***************************************************************************)
EXTENDS Ducking, FiniteSets, TLC

CONSTANTS Peers,        \* connections at a time
          Nobody,       \* no session
          MaxConns,     \* maxConns
          Delays,       \* output delays
          Volumes,      \* levels of the speaker
          Untold,       \* no level told yet
          Speaker,      \* StreamRate
          Bluetooth,    \* BluetoothRate
          Foci,         \* bound: what the behaviours of a run exercise
          Visits,       \* bound: connections of a behaviour
          DuckedEvents, \* bound: Events, where Alexa ducks
          Events        \* bound: what servers, users and the network do with them

ASSUME SessionsAssumption ==
    /\ Nobody \notin Peers
    /\ MaxConns \in Nat \ {0}
    /\ 0 \in Delays /\ 0 \in Volumes /\ Untold \notin Delays \cup Volumes
    /\ Visits \in Nat \ {0} /\ Events \in Nat \ {0, 1}
    /\ DuckedEvents \in 0 .. Events
    /\ {Speaker, Bluetooth} \subseteq Rates /\ Speaker # Bluetooth

VARIABLES focus,        \* what this behaviour exercises
          left,         \* budgets: connections and events left
          held, heldReady, live, closed,            \* fields of the Client
          delay, bluetooth, toldVolume,             \* its atomics
          output,       \* the rate of the Dot's output
          volume,       \* its level
          setAt,        \* where SetDelay is
          setFor,       \* the session it found holding
          at,           \* where run is, or what comes before and after it
          then,         \* where it goes when its stream is closed
          sock,         \* the connection is open
          roles,        \* the session holds player@v1
          stated, available, roleless,              \* run's locals
          stream,       \* playback.stream
          asking,       \* the rate of a stream/start being handled
          report, reformat,                         \* tokens of the Session
          reporter, reportAs,                       \* reportDelays, its `available`
          watcher, watchRate, watchAs, watchTold, asked,    \* watchOutput, its locals
          draft,        \* the client/state a reportDelays has made up and not sent
          farewell,     \* connections Close has yet to say goodbye on
          said,         \* the last client/state each server got
          wanted,       \* the rate each server was asked for
          astray,       \* history: the level told last went to no holder
          strayLead,    \* history: an output rate was stored by no holder
          unaware,      \* history: a lead was told that the session's watcher did not tell
          late          \* history: a rate was asked for around a regained role

clientVars == <<held, heldReady, live, closed, farewell>>
dotVars == <<output, volume, setAt, setFor>>
factVars == <<stated, available, roleless, asking>>
mainVars == <<then, factVars>>
runVars == <<at, mainVars, sock, roles>>
playVars == <<stream, slotVars>>
tokens == <<report, reformat>>
reporterVars == <<reporter, reportAs, draft>>
watcherVars == <<watcher, watchRate, watchAs, watchTold, asked, bluetooth, strayLead>>
askVars == <<wanted, late>>
sayVars == <<said, toldVolume, astray, unaware>>
talkVars == <<reporterVars, watcherVars, askVars, sayVars>>
ownVars == <<left, clientVars, dotVars, delay, runVars, stream, tokens, talkVars>>
vars == <<focus, ownVars, slotVars, duckVars>>

(* "hello": upgrade, handshake and greeting.  Those of run: "read" to       *)
(* "new".  "stop" and "closer" close the stream.  What follows run: "end",   *)
(* "release", "leave", and "over" until its goroutines have ended.          *)
Stages == {"out", "hello",
           "read", "hold", "first", "regain", "quit", "ready", "agree", "answer", "open", "new",
           "stop", "closer", "end", "release", "leave", "over"}

Silent == [available |-> FALSE, delay |-> Untold, bluetooth |-> FALSE, volume |-> Untold]

Messages == [available : BOOLEAN, delay : Delays \cup {Untold}, bluetooth : BOOLEAN,
             volume : Volumes \cup {Untold}]

TypeOK ==
    /\ SlotTypeOK /\ DuckTypeOK
    /\ focus \in Foci
    /\ left \in [visits : 0 .. Visits, events : 0 .. Events]
    /\ held \in live \cup {Nobody} /\ setFor \in Peers \cup {Nobody}
    /\ {heldReady, closed, bluetooth, astray, strayLead} \subseteq BOOLEAN
    /\ live \subseteq Peers /\ farewell \subseteq live
    /\ delay \in Delays /\ volume \in Volumes /\ toldVolume \in Volumes \cup {Untold}
    /\ output \in {Speaker, Bluetooth}
    /\ setAt \in {"idle", "tell", "put"}
    /\ at \in [Peers -> Stages] /\ then \in [Peers -> Stages]
    /\ {sock, roles, stated, available, roleless, report, reformat, reportAs, watchAs, watchTold,
        late, unaware} \subseteq [Peers -> BOOLEAN]
    /\ stream \in [Peers -> Streams \cup {NoStream}]
    /\ asking \in [Peers -> Rates]
    /\ reporter \in [Peers -> {"off", "wait", "read", "write", "send"}]
    /\ watcher \in [Peers -> {"off", "start", "look", "held", "store", "tell", "ask", "wait"}]
    /\ {watchRate, asked, wanted} \subseteq [Peers -> {Speaker, Bluetooth}]
    /\ said \in [Peers -> Messages] /\ draft \in Messages

(* One connection with all the events, or several with fewer of them: fewer *)
(* still where the output moves, and watchers are busier.  Where Alexa      *)
(* ducks, one is enough to open streams.                                    *)
Shared == IF focus = "output" THEN Events - 2 ELSE Events - 1

Budgets ==
    IF focus = "duck" THEN {[visits |-> 1, events |-> DuckedEvents]}
    ELSE {[visits |-> 1, events |-> Events], [visits |-> Visits, events |-> Shared]}

Init ==
    /\ focus \in Foci
    /\ left \in Budgets
    /\ SlotInit /\ DuckInit
    /\ held = Nobody /\ heldReady = FALSE
    /\ live = {} /\ closed = FALSE /\ farewell = {}
    /\ delay = 0 /\ bluetooth = FALSE
    /\ volume = 0 /\ toldVolume = Untold
    /\ output = Speaker
    /\ setAt = "idle" /\ setFor = Nobody
    /\ at = [p \in Peers |-> "out"] /\ then = [p \in Peers |-> "read"]
    /\ sock = [p \in Peers |-> FALSE]
    /\ roles = [p \in Peers |-> FALSE]
    /\ stated = [p \in Peers |-> FALSE]
    /\ available = [p \in Peers |-> FALSE]
    /\ roleless = [p \in Peers |-> FALSE]
    /\ stream = [p \in Peers |-> NoStream]
    /\ asking = [p \in Peers |-> Speaker]
    /\ report = [p \in Peers |-> FALSE] /\ reformat = [p \in Peers |-> FALSE]
    /\ reporter = [p \in Peers |-> "off"] /\ reportAs = [p \in Peers |-> FALSE]
    /\ watcher = [p \in Peers |-> "off"] /\ watchAs = [p \in Peers |-> FALSE]
    /\ watchTold = [p \in Peers |-> FALSE]
    /\ watchRate = [p \in Peers |-> Speaker]
    /\ asked = [p \in Peers |-> Speaker] /\ wanted = [p \in Peers |-> Speaker]
    /\ said = [p \in Peers |-> Silent] /\ draft = Silent
    /\ astray = FALSE /\ strayLead = FALSE
    /\ late = [p \in Peers |-> FALSE] /\ unaware = [p \in Peers |-> FALSE]

----------------------------------------------------------------------------
Event == left.events > 0 /\ left' = [left EXCEPT !.events = @ - 1]

Streaming == focus \in {"stream", "duck"}

Goes(p, stage) == at' = [at EXCEPT ![p] = stage]

\* Slip: run returns and leaves its stream playing.
ReturnsSounding(p) == Goes(p, "end") /\ UNCHANGED then

(* run returns: its deferred calls close the stream before anything else.   *)
Returns(p) == Goes(p, "stop") /\ then' = [then EXCEPT ![p] = "end"]
Stops(p, stage) == Goes(p, "stop") /\ then' = [then EXCEPT ![p] = stage]

(* state: one client/state at a time, under c.stating, as things stand.  A  *)
(* level is told when it is read, whether or not the message gets out.      *)
Message(ready) ==
    [available |-> ready, delay |-> delay, bluetooth |-> bluetooth, volume |-> volume]

Stating(p) ==
    /\ \A q \in Peers : reporter[q] # "send"
    /\ toldVolume' = volume
    /\ astray' = (held # p)
    /\ unaware' = [unaware EXCEPT ![p] = watcher[p] \notin {"off", "start", "tell"}
                                            /\ watchTold[p] # bluetooth]

State(p, ready) ==
    /\ Stating(p)
    /\ said' = IF sock[p] THEN [said EXCEPT ![p] = Message(ready)] ELSE said

(* tellServer: a token for the session that holds.                          *)
TellServer == report' = [p \in Peers |-> report[p] \/ p = held]

----------------------------------------------------------------------------
(* Serve and serveConn.                                                     *)
Enter(p) ==
    /\ at[p] = "out"
    /\ ~closed /\ Cardinality(live) < MaxConns
    /\ left.visits > 0
    /\ left' = [left EXCEPT !.visits = @ - 1]
    /\ live' = live \cup {p}
    /\ sock' = [sock EXCEPT ![p] = TRUE]
    /\ Goes(p, "hello")
    /\ UNCHANGED <<held, heldReady, closed, farewell, dotVars, delay, mainVars, roles,
                   playVars, tokens, talkVars>>

(* The handshake and the greeting are through, or fail.                     *)
Handshakes(p) ==
    /\ at[p] = "hello"
    /\ \/ sock[p] /\ Goes(p, "read")
       \/ Goes(p, "leave")
    /\ UNCHANGED <<left, clientVars, dotVars, delay, mainVars, sock, roles, playVars,
                   tokens, talkVars>>

(* Either side closes the connection, a keepalive fails, nothing came for   *)
(* idleWait, or the time a session may hold no role is over.                *)
Drop(p) ==
    /\ Event
    /\ sock[p]
    /\ sock' = [sock EXCEPT ![p] = FALSE]
    /\ UNCHANGED <<clientVars, dotVars, delay, at, mainVars, roles, playVars, tokens,
                   talkVars>>

ReadFails(p) ==
    /\ at[p] = "read"
    /\ Returns(p)
    /\ UNCHANGED <<left, clientVars, dotVars, delay, factVars, sock, roles, playVars,
                   tokens, talkVars>>

Reads(p) == at[p] = "read" /\ sock[p]

----------------------------------------------------------------------------
(* server/activate.  One that is refused ends the session; an aborted       *)
(* pairing leaves the roles as they are, which is one of the two.           *)
Activate(p) ==
    /\ Event
    /\ Reads(p)
    /\ roles' = [roles EXCEPT ![p] = TRUE]
    /\ Goes(p, "hold")
    /\ UNCHANGED <<clientVars, dotVars, delay, mainVars, sock, playVars, tokens,
                   talkVars>>

(* Without a role the stream goes, then the hold; the server forgets what   *)
(* rate it was asked for.                                                   *)
Deactivate(p) ==
    /\ Event
    /\ Reads(p)
    /\ roles' = [roles EXCEPT ![p] = FALSE]
    /\ Stops(p, "quit")
    /\ wanted' = [wanted EXCEPT ![p] = Speaker]
    /\ UNCHANGED <<clientVars, dotVars, delay, factVars, sock, playVars, tokens,
                   reporterVars, watcherVars, late, sayVars>>

LetsGo(p) ==
    /\ held' = IF held = p THEN Nobody ELSE held
    /\ heldReady' = (held # p /\ heldReady)

(* The allowance for a session without a role may be spent already.         *)
Quit(p) ==
    /\ at[p] = "quit"
    /\ LetsGo(p)
    /\ \/ roleless' = [roleless EXCEPT ![p] = TRUE] /\ Goes(p, "read") /\ UNCHANGED then
       \/ Returns(p) /\ UNCHANGED roleless
    /\ UNCHANGED <<left, live, closed, farewell, dotVars, delay, stated, available,
                   asking, sock, roles, playVars, tokens, talkVars>>

(* hold: one session at a time; another gets a goodbye.                     *)
Hold(p) ==
    /\ at[p] = "hold"
    /\ IF held \in {Nobody, p}
       THEN /\ held' = p /\ heldReady' = available[p]
            /\ Goes(p, IF ~stated[p] THEN "first" ELSE IF roleless[p] THEN "regain" ELSE "read")
            /\ roleless' = [roleless EXCEPT ![p] = FALSE]
            /\ UNCHANGED then
       ELSE Returns(p) /\ UNCHANGED <<held, heldReady, roleless>>
    /\ UNCHANGED <<left, live, closed, farewell, dotVars, delay, stated, available,
                   asking, sock, roles, playVars, tokens, talkVars>>

(* The first hold is stated, and the session's goroutines begin.            *)
First(p) ==
    /\ at[p] = "first"
    /\ State(p, available[p])
    /\ IF sock[p]
       THEN /\ stated' = [stated EXCEPT ![p] = TRUE]
            /\ reporter' = [reporter EXCEPT ![p] = "wait"]
            /\ watcher' = [watcher EXCEPT ![p] = IF focus = "output" THEN "start" ELSE "off"]
            /\ Goes(p, "read") /\ UNCHANGED then
       ELSE Returns(p) /\ UNCHANGED <<stated, reporter, watcher>>
    /\ UNCHANGED <<left, clientVars, dotVars, delay, available, roleless, asking, sock,
                   roles, playVars, tokens, reportAs, draft, watchRate, watchAs,
                   watchTold, asked, bluetooth, strayLead, askVars>>

(* One that was lost and is held again: both goroutines are told.           *)
Regain(p) ==
    /\ at[p] = "regain"
    /\ TellServer
    /\ reformat' = [reformat EXCEPT ![p] = TRUE]
    /\ Goes(p, "read")
    /\ UNCHANGED <<left, clientVars, dotVars, delay, mainVars, sock, roles, playVars,
                   talkVars>>

----------------------------------------------------------------------------
(* server/time: the measurement with which the clock agrees.                *)
ClockAgrees(p) ==
    /\ Event
    /\ focus = "delay"
    /\ Reads(p) /\ stated[p] /\ ~available[p]
    /\ available' = [available EXCEPT ![p] = TRUE]
    /\ Goes(p, "ready")
    /\ UNCHANGED <<clientVars, dotVars, delay, then, stated, roleless, asking, sock,
                   roles, playVars, tokens, talkVars>>

HoldReady(p) ==
    /\ at[p] = "ready"
    /\ heldReady' = (heldReady \/ held = p)
    /\ Goes(p, "agree")
    /\ UNCHANGED <<left, held, live, closed, farewell, dotVars, delay, mainVars, sock,
                   roles, playVars, tokens, talkVars>>

(* The state that follows an agreed clock or a delay that was set.          *)
Answer(p) ==
    /\ at[p] \in {"agree", "answer"}
    /\ State(p, available[p])
    /\ IF sock[p] THEN Goes(p, "read") /\ UNCHANGED then ELSE Returns(p)
    /\ UNCHANGED <<left, clientVars, dotVars, delay, factVars, sock, roles, playVars,
                   tokens, reporterVars, watcherVars, askVars>>

(* server/command set_static_delay: one that changes nothing is not         *)
(* answered.                                                                *)
StaticDelay(p, ms) ==
    /\ Event
    /\ focus = "delay"
    /\ Reads(p) /\ roles[p]
    /\ delay # ms
    /\ delay' = ms
    /\ Goes(p, "answer")
    /\ UNCHANGED <<clientVars, dotVars, mainVars, sock, roles, playVars, tokens,
                   talkVars>>

----------------------------------------------------------------------------
(* stream/start.  One this player cannot play closes what it played.        *)
StartStream(p, rate) ==
    /\ Event
    /\ Streaming
    /\ Reads(p) /\ roles[p]
    /\ asking' = [asking EXCEPT ![p] = rate]
    /\ Goes(p, "open")
    /\ UNCHANGED <<clientVars, dotVars, delay, then, stated, available, roleless, sock,
                   roles, playVars, tokens, talkVars>>

Unplayable(p) ==
    /\ Event
    /\ Streaming
    /\ Reads(p) /\ roles[p]
    /\ Stops(p, "read")
    /\ UNCHANGED <<clientVars, dotVars, delay, factVars, sock, roles, playVars, tokens,
                   talkVars>>

(* playback.open: the stream at hand if it has the rate and is not over,    *)
(* or else a new one once that is closed ...                                *)
Open(p) ==
    /\ at[p] = "open"
    /\ \/ /\ stream[p] # NoStream /\ streamRate[stream[p]] = asking[p]
          /\ Resume(stream[p])
          /\ Goes(p, "read")
          /\ UNCHANGED then
       \/ /\ stream[p] # NoStream => streamRate[stream[p]] # asking[p] \/ Spent(stream[p])
          /\ Stops(p, "new")
          /\ UNCHANGED slotVars
    /\ UNCHANGED <<left, clientVars, dotVars, delay, factVars, sock, roles, stream,
                   tokens, talkVars>>

(* Which of the streams nothing refers to stands for the new one is all one.*)
Free(s) == Loose(s) /\ \A p \in Peers : stream[p] # s
Fresh == CHOOSE s \in Streams : Free(s)

(* ... which the player refuses while it holds one.                         *)
OpenNew(p) ==
    /\ at[p] = "new"
    /\ IF Refused THEN UNCHANGED playVars
       ELSE /\ \E s \in Streams : Free(s)
            /\ OpenStream(Fresh, asking[p])
            /\ stream' = [stream EXCEPT ![p] = Fresh]
    /\ Goes(p, "read")
    /\ UNCHANGED <<left, clientVars, dotVars, delay, mainVars, sock, roles, tokens,
                   talkVars>>

EndStream(p) ==
    /\ Event
    /\ Streaming
    /\ Reads(p)
    /\ stream[p] # NoStream
    /\ Finish(stream[p])
    /\ UNCHANGED <<clientVars, dotVars, delay, runVars, stream, tokens, talkVars>>

(* playback.stop: Close, and its closer if it was not closed before.        *)
Stop(p) ==
    /\ at[p] = "stop"
    /\ IF stream[p] = NoStream \/ streamAt[stream[p]] = "closed"
       THEN /\ stream' = [stream EXCEPT ![p] = NoStream]
            /\ Goes(p, then[p]) /\ then' = [then EXCEPT ![p] = "read"]
            /\ UNCHANGED slotVars
       ELSE CloseStream(stream[p]) /\ Goes(p, "closer") /\ UNCHANGED <<stream, then>>
    /\ UNCHANGED <<left, clientVars, dotVars, delay, factVars, sock, roles, tokens,
                   talkVars>>

LetStreamGo(p) ==
    /\ at[p] = "closer"
    /\ Closer(stream[p])
    /\ stream' = [stream EXCEPT ![p] = NoStream]
    /\ Goes(p, then[p]) /\ then' = [then EXCEPT ![p] = "read"]
    /\ UNCHANGED <<left, clientVars, dotVars, delay, factVars, sock, roles, tokens,
                   talkVars>>

----------------------------------------------------------------------------
(* What follows run: its goroutines are told to stop, the hold is given     *)
(* up, the connection closed and forgotten.                                 *)
End(p) ==
    /\ at[p] = "end"
    /\ Goes(p, "release")
    /\ roleless' = [roleless EXCEPT ![p] = FALSE]
    /\ UNCHANGED <<left, clientVars, dotVars, delay, then, stated, available, asking,
                   sock, roles, playVars, tokens, talkVars>>

\* Slip: a session that ends keeps the hold.
ReleaseNothing(p) ==
    /\ at[p] = "release"
    /\ Goes(p, "leave")
    /\ UNCHANGED <<left, held, heldReady, live, closed, farewell, dotVars, delay,
                   mainVars, sock, roles, playVars, tokens, talkVars>>

Release(p) ==
    /\ at[p] = "release"
    /\ LetsGo(p)
    /\ Goes(p, "leave")
    /\ UNCHANGED <<left, live, closed, farewell, dotVars, delay, mainVars, sock, roles,
                   playVars, tokens, talkVars>>

Leave(p) ==
    /\ at[p] = "leave"
    /\ sock' = [sock EXCEPT ![p] = FALSE]
    /\ live' = live \ {p}
    /\ farewell' = farewell \ {p}
    /\ Goes(p, "over")
    /\ UNCHANGED <<left, held, heldReady, closed, dotVars, delay, mainVars, roles,
                   playVars, tokens, talkVars>>

(* The goroutines have ended too: p stands for the next connection.         *)
Over(p) ==
    /\ at[p] = "over"
    /\ reporter[p] = "off" /\ watcher[p] = "off" /\ setFor # p
    /\ Goes(p, "out")
    /\ stated' = [stated EXCEPT ![p] = FALSE]
    /\ available' = [available EXCEPT ![p] = FALSE]
    /\ roles' = [roles EXCEPT ![p] = FALSE]
    /\ report' = [report EXCEPT ![p] = FALSE]
    /\ reformat' = [reformat EXCEPT ![p] = FALSE]
    /\ said' = [said EXCEPT ![p] = Silent]
    /\ wanted' = [wanted EXCEPT ![p] = Speaker]
    /\ asked' = [asked EXCEPT ![p] = Speaker]
    /\ late' = [late EXCEPT ![p] = FALSE]
    /\ unaware' = [unaware EXCEPT ![p] = FALSE]
    /\ asking' = [asking EXCEPT ![p] = Speaker]
    /\ UNCHANGED <<left, clientVars, dotVars, delay, then, roleless, sock, playVars,
                   reporterVars, watcher, watchRate, watchAs, watchTold, bluetooth,
                   strayLead, toldVolume, astray>>

Stopped(p) == at[p] \in {"release", "leave", "over"}

(* Close: no connection is let in, and each that is open is said goodbye    *)
(* to, if it got that far, and closed.                                      *)
Close ==
    /\ focus = "close"
    /\ ~closed
    /\ closed' = TRUE
    /\ farewell' = live
    /\ UNCHANGED <<left, held, heldReady, live, dotVars, delay, runVars, playVars, tokens,
                   talkVars>>

Farewell(p) ==
    /\ p \in farewell
    /\ farewell' = farewell \ {p}
    /\ sock' = [sock EXCEPT ![p] = FALSE]
    /\ UNCHANGED <<left, held, heldReady, live, closed, dotVars, delay, at, mainVars,
                   roles, playVars, tokens, talkVars>>

----------------------------------------------------------------------------
(* SetDelay, by Home Assistant: a delay that is new is told to the server   *)
(* that holds, found first and given its token then.                        *)
SetDelay(ms) ==
    /\ Event
    /\ focus = "delay"
    /\ setAt = "idle" /\ delay # ms
    /\ delay' = ms
    /\ setAt' = "tell"
    /\ UNCHANGED <<clientVars, output, volume, setFor, runVars, playVars, tokens,
                   talkVars>>

TellsServer ==
    /\ setAt = "tell"
    /\ setFor' = held
    /\ setAt' = IF held = Nobody THEN "idle" ELSE "put"
    /\ UNCHANGED <<left, clientVars, output, volume, delay, runVars, playVars, tokens,
                   talkVars>>

\* Slip: the channel has no room, so a reporter that is busy misses the token.
PutsTokenUnbuffered ==
    /\ setAt = "put"
    /\ report' = [report EXCEPT ![setFor] = reporter[setFor] = "wait"]
    /\ setFor' = Nobody /\ setAt' = "idle"
    /\ UNCHANGED <<left, clientVars, output, volume, delay, runVars, playVars, reformat,
                   talkVars>>

PutsToken ==
    /\ setAt = "put"
    /\ report' = [report EXCEPT ![setFor] = TRUE]
    /\ setFor' = Nobody /\ setAt' = "idle"
    /\ UNCHANGED <<left, clientVars, output, volume, delay, runVars, playVars, reformat,
                   talkVars>>

----------------------------------------------------------------------------
(* reportDelays: a token, then who holds and whether it is available, then  *)
(* the state with that, made up and sent.                                   *)
TokenTaken(p) ==
    /\ reporter[p] = "wait" /\ report[p]
    /\ report' = [report EXCEPT ![p] = FALSE]
    /\ reporter' = [reporter EXCEPT ![p] = "read"]
    /\ UNCHANGED <<left, clientVars, dotVars, delay, runVars, playVars, reformat,
                   reportAs, draft, watcherVars, askVars, sayVars>>

Reporting(p) ==
    /\ reporter[p] = "read"
    /\ reporter' = [reporter EXCEPT ![p] = IF held = p THEN "write" ELSE "wait"]
    /\ reportAs' = [reportAs EXCEPT ![p] = held = p /\ heldReady]
    /\ UNCHANGED <<left, draft, clientVars, dotVars, delay, runVars, playVars, tokens,
                   watcherVars, askVars, sayVars>>

MakesUp(p) ==
    /\ reporter[p] = "write"
    /\ Stating(p)
    /\ draft' = Message(reportAs[p])
    /\ reporter' = [reporter EXCEPT ![p] = "send"]
    /\ reportAs' = [reportAs EXCEPT ![p] = FALSE]
    /\ UNCHANGED <<left, clientVars, dotVars, delay, runVars, playVars, tokens,
                   watcherVars, askVars, said>>

Sends(p) ==
    /\ reporter[p] = "send"
    /\ said' = IF sock[p] THEN [said EXCEPT ![p] = draft] ELSE said
    /\ draft' = Silent
    /\ reporter' = [reporter EXCEPT ![p] = IF sock[p] THEN "wait" ELSE "off"]
    /\ UNCHANGED <<left, clientVars, dotVars, delay, runVars, playVars, tokens, reportAs,
                   watcherVars, askVars, toldVolume, astray, unaware>>

ReporterEnds(p) ==
    /\ reporter[p] = "wait" /\ Stopped(p)
    /\ reporter' = [reporter EXCEPT ![p] = "off"]
    /\ UNCHANGED <<left, clientVars, dotVars, delay, runVars, playVars, tokens, reportAs,
                   draft, watcherVars, askVars, sayVars>>

(* watchVolume, of any session: a level that is not the one told last.      *)
WatchVolume(p) ==
    /\ focus = "volume"
    /\ stated[p]
    /\ toldVolume # volume
    /\ TellServer
    /\ UNCHANGED <<left, clientVars, dotVars, delay, runVars, playVars, reformat,
                   talkVars>>

----------------------------------------------------------------------------
(* watchOutput: the rate, who holds, then for the one that does the lead it *)
(* needs, told when another, and the rate it wants, asked when another.     *)
WatchStarts(p) ==
    /\ watcher[p] = "start"
    /\ watchTold' = [watchTold EXCEPT ![p] = bluetooth]
    /\ watcher' = [watcher EXCEPT ![p] = "look"]
    /\ UNCHANGED <<left, clientVars, dotVars, delay, runVars, playVars, tokens,
                   reporterVars, watchRate, watchAs, asked, bluetooth, strayLead, askVars,
                   sayVars>>

WatchLooks(p) ==
    /\ watcher[p] = "look"
    /\ watchRate' = [watchRate EXCEPT ![p] = output]
    /\ watcher' = [watcher EXCEPT ![p] = "held"]
    /\ UNCHANGED <<left, clientVars, dotVars, delay, runVars, playVars, tokens,
                   reporterVars, watchAs, watchTold, asked, bluetooth, strayLead, askVars,
                   sayVars>>

WatchHeld(p) ==
    /\ watcher[p] = "held"
    /\ watcher' = [watcher EXCEPT ![p] = IF held = p THEN "store" ELSE "wait"]
    /\ watchAs' = [watchAs EXCEPT ![p] = held = p /\ heldReady]
    /\ UNCHANGED <<left, clientVars, dotVars, delay, runVars, playVars, tokens,
                   reporterVars, watchRate, watchTold, asked, bluetooth, strayLead,
                   askVars, sayVars>>

WatchStores(p) ==
    /\ watcher[p] = "store"
    /\ bluetooth' = (watchRate[p] = Bluetooth)
    /\ strayLead' = (strayLead \/ held # p)
    /\ watcher' = [watcher EXCEPT ![p] = "tell"]
    /\ UNCHANGED <<left, clientVars, dotVars, delay, runVars, playVars, tokens,
                   reporterVars, watchRate, watchAs, watchTold, asked, askVars, sayVars>>

WatchTells(p) ==
    /\ watcher[p] = "tell"
    /\ IF bluetooth # watchTold[p]
       THEN /\ State(p, watchAs[p])
            /\ watchTold' = [watchTold EXCEPT ![p] = bluetooth]
            /\ watcher' = [watcher EXCEPT ![p] = IF sock[p] THEN "ask" ELSE "off"]
       ELSE watcher' = [watcher EXCEPT ![p] = "ask"] /\ UNCHANGED <<watchTold, sayVars>>
    /\ watchAs' = [watchAs EXCEPT ![p] = FALSE]
    /\ UNCHANGED <<left, clientVars, dotVars, delay, runVars, playVars, tokens,
                   reporterVars, watchRate, asked, bluetooth, strayLead, askVars>>

(* A server that has taken the role away does not heed the request.  One    *)
(* that is sent late, when the role is back but the watcher does not know,  *)
(* is heeded.                                                               *)
WatchAsks(p) ==
    /\ watcher[p] = "ask"
    /\ IF watchRate[p] # asked[p] /\ sock[p]
       THEN /\ asked' = [asked EXCEPT ![p] = watchRate[p]]
            /\ wanted' = [wanted EXCEPT ![p] = IF roles[p] THEN watchRate[p] ELSE @]
            /\ late' = [late EXCEPT ![p] = reformat[p] \/ at[p] \in {"hold", "regain"}]
       ELSE UNCHANGED <<asked, askVars>>
    /\ watcher' = [watcher EXCEPT ![p] = IF sock[p] \/ watchRate[p] = asked[p]
                                        THEN "wait" ELSE "off"]
    /\ UNCHANGED <<left, clientVars, dotVars, delay, runVars, playVars, tokens,
                   reporterVars, watchRate, watchAs, watchTold, bluetooth, strayLead,
                   sayVars>>

(* A regained role: the server has forgotten what it was asked for.         *)
WatchReformats(p) ==
    /\ watcher[p] = "wait"
    /\ reformat[p]
    /\ reformat' = [reformat EXCEPT ![p] = FALSE]
    /\ asked' = [asked EXCEPT ![p] = Speaker]
    /\ watcher' = [watcher EXCEPT ![p] = "look"]
    /\ UNCHANGED <<left, clientVars, dotVars, delay, runVars, playVars, report,
                   reporterVars, watchRate, watchAs, watchTold, bluetooth, strayLead,
                   askVars, sayVars>>

WatchTicks(p) ==
    /\ watcher[p] = "wait"
    /\ watcher' = [watcher EXCEPT ![p] = IF Stopped(p) THEN "off" ELSE "look"]
    /\ UNCHANGED <<left, clientVars, dotVars, delay, runVars, playVars, tokens,
                   reporterVars, watchRate, watchAs, watchTold, asked, bluetooth,
                   strayLead, askVars, sayVars>>

----------------------------------------------------------------------------
(* The Dot's output moves to a Bluetooth speaker or back; its level changes,*)
(* by the buttons, Home Assistant or a server's volume or mute command.     *)
OutputMoves ==
    /\ Event
    /\ focus = "output"
    /\ output' = IF output = Speaker THEN Bluetooth ELSE Speaker
    /\ UNCHANGED <<clientVars, volume, setAt, setFor, delay, runVars, playVars, tokens,
                   talkVars>>

LevelChanges ==
    /\ Event
    /\ focus = "volume"
    /\ volume' \in Volumes
    /\ UNCHANGED <<clientVars, output, setAt, setFor, delay, runVars, playVars, tokens,
                   talkVars>>

Writer ==
    /\ Writes
    /\ UNCHANGED <<focus, left, clientVars, dotVars, delay, runVars, stream, tokens,
                   talkVars>>

Run(p) ==
    \/ Activate(p) \/ Deactivate(p) \/ Quit(p) \/ Hold(p) \/ First(p) \/ Regain(p)
    \/ ClockAgrees(p) \/ HoldReady(p) \/ Answer(p)
    \/ \E ms \in Delays : StaticDelay(p, ms)
    \/ \E rate \in Rates : StartStream(p, rate)
    \/ Unplayable(p) \/ Open(p) \/ OpenNew(p) \/ EndStream(p)
    \/ Stop(p) \/ LetStreamGo(p)

ServeConn(p) ==
    \/ Enter(p) \/ Handshakes(p) \/ Drop(p) \/ ReadFails(p) \/ Run(p)
    \/ End(p) \/ Release(p) \/ Leave(p) \/ Over(p) \/ Farewell(p)

ReportDelays(p) == TokenTaken(p) \/ Reporting(p) \/ MakesUp(p) \/ Sends(p) \/ ReporterEnds(p)

WatchOutput(p) ==
    \/ WatchStarts(p) \/ WatchLooks(p) \/ WatchHeld(p) \/ WatchStores(p) \/ WatchTells(p)
    \/ WatchAsks(p) \/ WatchReformats(p) \/ WatchTicks(p)

ClientStep ==
    \/ \E p \in Peers : ServeConn(p) \/ ReportDelays(p) \/ WatchOutput(p) \/ WatchVolume(p)
    \/ \E ms \in Delays : SetDelay(ms)
    \/ TellsServer \/ PutsToken
    \/ Close \/ OutputMoves \/ LevelChanges \/ Writer

(* A stream that is opened is opened at the duck's level; what Alexa and    *)
(* the watcher of her focus do touches nothing of the client's.             *)
Next ==
    \/ ClientStep /\ StartsDucked /\ UNCHANGED <<focus, watchVars>>
    \/ focus = "duck" /\ DuckStep /\ UNCHANGED <<focus, ownVars, slotVars>>

Spec == Init /\ [][Next]_vars

(* For TLC: no step tells one connection, or one client of Alexa's, from    *)
(* another.                                                                 *)
Interchangeable == Permutations(Peers) \cup Permutations(Clients)

----------------------------------------------------------------------------
(* Nothing is under way that would still tell p's server something.         *)
Quiet(p) ==
    /\ held = p /\ stated[p] /\ sock[p] /\ at[p] = "read"
    /\ ~report[p] /\ reporter[p] = "wait"

Watched(p) == watcher[p] = "wait" /\ ~reformat[p] /\ watchRate[p] = output

(* The server that holds the player has been told what holds, however the   *)
(* tokens, the two goroutines that read them, a role lost and regained and  *)
(* another session's end cross: the delay always; the level, unless what    *)
(* was told last went to a session that had lost the hold; the output's     *)
(* rate, unless the request was written around a regained role; and the     *)
(* lead it needs, unless a session that had lost the hold stored the rate,  *)
(* or a state that another's rate went into was sent past its watcher.      *)
SettledIsTold ==
    \A p \in Peers : Quiet(p) =>
        /\ setAt = "idle" => said[p].delay = delay
        /\ toldVolume = volume /\ ~astray => said[p].volume = volume
        /\ Watched(p) /\ ~late[p] => wanted[p] = output
        /\ Watched(p) /\ ~strayLead /\ ~unaware[p] => said[p].bluetooth = (output = Bluetooth)

(* The player is never asked for a stream while it holds one that plays: a  *)
(* session closes its own before it opens another, and before it lets go of *)
(* the hold, so that the next one to hold is not left silent.               *)
OpenIsNeverRefused == \A p \in Peers : at[p] = "new" => ~Refused

(* docs/sendspin.md:656: "An `available: true` is never withdrawn."         *)
NeverWithdrawn ==
    [][\A p \in Peers : said[p].available => said'[p].available \/ at'[p] = "out"]_vars
=============================================================================
