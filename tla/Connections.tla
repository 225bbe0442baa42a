---------------------------- MODULE Connections ----------------------------
(***************************************************************************)
(* The connections of the ESPHome API (internal/esphome/server.go,          *)
(* state.go): serveConn's life of one connection, the queue between a       *)
(* handler and its writeLoop, and publish, which tells every subscriber     *)
(* what changed.                                                            *)
(*                                                                          *)
(* What happens under s.mu is one action.  A queue is a count: frames leave *)
(* it in the order they entered, so told[c], the last reading put in for    *)
(* each key, is what the client knows once its queue has drained.  A        *)
(* connection that is over goes back to "out" and stands for the next one.  *)
(***************************************************************************)
EXTENDS Naturals, FiniteSets

CONSTANTS Conns,        \* connections that may be open at a time
          Keys,         \* entities whose readings vary
          Values,       \* what a reading can say
          None,         \* no reading yet
          MaxConns,     \* maxConns
          SendQueue,    \* sendQueue, the capacity of conn.out
          ListFrames    \* frames listEntities sends

ASSUME ConnectionsAssumption ==
    /\ None \notin Values
    /\ IsFiniteSet(Keys)
    /\ MaxConns \in Nat \ {0}
    /\ SendQueue \in Nat \ {0}
    /\ ListFrames \in Nat \ {0}

VARIABLES conns,        \* s.conns
          phase,        \* where serveConn is
          sock,         \* conn.sock is open
          queued,       \* frames waiting in conn.out
          shut,         \* conn.out has been closed
          writer,       \* writeLoop: "none", "runs" or "done"
          states,       \* conn.states
          services,     \* conn.services
          pinged,       \* serveConn's local of that name
          told,         \* the last reading sent for each key
          published     \* s.published

connVars == <<conns, phase, sock, queued, shut, writer, states, services,
              pinged, told, published>>

(* "hello": in the Noise handshake.  "fresh": encrypted, nothing decrypted  *)
(* yet.  "open": messages are handled.  "leaving", "closing", "draining":   *)
(* the three steps of the deferred cleanup.                                 *)
Phases == {"out", "hello", "fresh", "open", "leaving", "closing", "draining"}

NothingTold == [k \in Keys |-> None]

ConnTypeOK ==
    /\ conns \subseteq Conns
    /\ phase \in [Conns -> Phases]
    /\ sock \in [Conns -> BOOLEAN]
    /\ queued \in [Conns -> 0 .. SendQueue]
    /\ shut \in [Conns -> BOOLEAN]
    /\ writer \in [Conns -> {"none", "runs", "done"}]
    /\ states \in [Conns -> BOOLEAN]
    /\ services \in [Conns -> BOOLEAN]
    /\ pinged \in [Conns -> BOOLEAN]
    /\ told \in [Conns -> [Keys -> Values \cup {None}]]
    /\ published \in [Keys -> Values \cup {None}]

ConnInit ==
    /\ conns = {}
    /\ phase = [c \in Conns |-> "out"]
    /\ sock = [c \in Conns |-> FALSE]
    /\ queued = [c \in Conns |-> 0]
    /\ shut = [c \in Conns |-> FALSE]
    /\ writer = [c \in Conns |-> "none"]
    /\ states = [c \in Conns |-> FALSE]
    /\ services = [c \in Conns |-> FALSE]
    /\ pinged = [c \in Conns |-> FALSE]
    /\ told = [c \in Conns |-> NothingTold]
    /\ published = NothingTold

----------------------------------------------------------------------------
\* Slip: the frame that finds the queue full is still put in.
FitsOneMore(c, n) == queued[c] + n <= SendQueue + 1

(* send never blocks: a frame that finds the queue full is refused.         *)
Fits(c, n) == queued[c] + n <= SendQueue
Filled(c, n) == IF Fits(c, n) THEN queued[c] + n ELSE SendQueue

(* The connection starts over as a new one.                                 *)
Fresh(c) ==
    /\ phase' = [phase EXCEPT ![c] = "out"]
    /\ sock' = [sock EXCEPT ![c] = FALSE]
    /\ queued' = [queued EXCEPT ![c] = 0]
    /\ shut' = [shut EXCEPT ![c] = FALSE]
    /\ writer' = [writer EXCEPT ![c] = "none"]
    /\ states' = [states EXCEPT ![c] = FALSE]
    /\ services' = [services EXCEPT ![c] = FALSE]
    /\ pinged' = [pinged EXCEPT ![c] = FALSE]
    /\ told' = [told EXCEPT ![c] = NothingTold]

Accept(c) ==
    /\ phase[c] = "out"
    /\ Cardinality(conns) < MaxConns
    /\ conns' = conns \cup {c}
    /\ phase' = [phase EXCEPT ![c] = "hello"]
    /\ sock' = [sock EXCEPT ![c] = TRUE]
    /\ UNCHANGED <<queued, shut, writer, states, services, pinged, told, published>>

(* Plaintext, a wrong key, the deadline, or a socket closed meanwhile: the  *)
(* cleanup of a connection that has no writer.                              *)
HandshakeFails(c) ==
    /\ phase[c] = "hello"
    /\ conns' = conns \ {c}
    /\ Fresh(c)
    /\ UNCHANGED published

HandshakeDone(c) ==
    /\ phase[c] = "hello"
    /\ sock[c]
    /\ phase' = [phase EXCEPT ![c] = "fresh"]
    /\ writer' = [writer EXCEPT ![c] = "runs"]
    /\ UNCHANGED <<conns, sock, queued, shut, states, services, pinged, told, published>>

(* A message is read, decrypted and handled.                                *)
Reads(c) == phase[c] \in {"fresh", "open"} /\ sock[c]

(* handle returned: nil, or an error that ends the connection.              *)
Handled(c, ok) ==
    /\ phase' = [phase EXCEPT ![c] = IF ok THEN "open" ELSE "leaving"]
    /\ pinged' = [pinged EXCEPT ![c] = FALSE]

(* Hello, connect, ping and device info are answered with one frame, a list *)
(* of the entities with one each and one to end it.                         *)
Answer(c, frames) ==
    /\ Reads(c)
    /\ queued' = [queued EXCEPT ![c] = Filled(c, frames)]
    /\ Handled(c, Fits(c, frames))
    /\ UNCHANGED <<conns, sock, shut, writer, states, services, told, published>>

ListEntities(c) == Answer(c, ListFrames + 1)

(* A command for one of the facilities: handle sends nothing for it.        *)
Command(c) ==
    /\ Reads(c)
    /\ Handled(c, TRUE)
    /\ UNCHANGED <<conns, sock, queued, shut, writer, states, services, told, published>>

Disconnect(c) ==
    /\ Reads(c)
    /\ queued' = [queued EXCEPT ![c] = Filled(c, 1)]
    /\ Handled(c, FALSE)
    /\ UNCHANGED <<conns, sock, shut, writer, states, services, told, published>>

Told == {k \in Keys : published[k] # None}

(* The snapshot and the flag go in under one lock.                          *)
SubscribeStates(c) ==
    /\ Reads(c)
    /\ states' = [states EXCEPT ![c] = TRUE]
    /\ queued' = [queued EXCEPT ![c] = Filled(c, Cardinality(Told))]
    /\ told' = [told EXCEPT ![c] = [k \in Keys |-> IF k \in Told THEN published[k] ELSE @[k]]]
    /\ Handled(c, Fits(c, Cardinality(Told)))
    /\ UNCHANGED <<conns, sock, shut, writer, services, published>>

SubscribeServices(c) ==
    /\ Reads(c)
    /\ services' = [services EXCEPT ![c] = TRUE]
    /\ Handled(c, TRUE)
    /\ UNCHANGED <<conns, sock, queued, shut, writer, states, told, published>>

(* Nothing came for pingWait: one ping, sent without s.mu.                  *)
PingDue(c) ==
    /\ phase[c] = "open"
    /\ sock[c]
    /\ ~pinged[c]
    /\ queued' = [queued EXCEPT ![c] = Filled(c, 1)]
    /\ pinged' = [pinged EXCEPT ![c] = Fits(c, 1)]
    /\ phase' = [phase EXCEPT ![c] = IF Fits(c, 1) THEN "open" ELSE "leaving"]
    /\ UNCHANGED <<conns, sock, shut, writer, states, services, told, published>>

(* The deadline of a fresh or a pinged connection, a message that will not  *)
(* parse, or the socket closed by either side.                              *)
ReadFails(c) ==
    /\ phase[c] \in {"fresh", "open"}
    /\ phase' = [phase EXCEPT ![c] = "leaving"]
    /\ UNCHANGED <<conns, sock, queued, shut, writer, states, services, pinged, told, published>>

----------------------------------------------------------------------------
\* Slip: the queue is closed while the connection is still listed.
UnlistNothing(c) ==
    /\ phase[c] = "leaving"
    /\ phase' = [phase EXCEPT ![c] = "closing"]
    /\ UNCHANGED <<conns, sock, queued, shut, writer, states, services, pinged, told, published>>

(* The deferred cleanup.                                                    *)
Unlist(c) ==
    /\ phase[c] = "leaving"
    /\ conns' = conns \ {c}
    /\ phase' = [phase EXCEPT ![c] = "closing"]
    /\ UNCHANGED <<sock, queued, shut, writer, states, services, pinged, told, published>>

CloseOut(c) ==
    /\ phase[c] = "closing"
    /\ shut' = [shut EXCEPT ![c] = TRUE]
    /\ phase' = [phase EXCEPT ![c] = "draining"]
    /\ UNCHANGED <<conns, sock, queued, writer, states, services, pinged, told, published>>

(* The writer is done, or two seconds are over.                             *)
Ended(c) ==
    /\ phase[c] = "draining"
    /\ Fresh(c)
    /\ UNCHANGED <<conns, published>>

(* writeLoop.                                                               *)
WriteFrame(c) ==
    /\ writer[c] = "runs"
    /\ queued[c] > 0
    /\ sock[c]
    /\ queued' = [queued EXCEPT ![c] = @ - 1]
    /\ UNCHANGED <<conns, phase, sock, shut, writer, states, services, pinged, told, published>>

(* The write deadline, or a socket that is closed.                          *)
WriteFails(c) ==
    /\ writer[c] = "runs"
    /\ queued[c] > 0
    /\ writer' = [writer EXCEPT ![c] = "done"]
    /\ sock' = [sock EXCEPT ![c] = FALSE]
    /\ UNCHANGED <<conns, phase, queued, shut, states, services, pinged, told, published>>

WriterEnds(c) ==
    /\ writer[c] = "runs"
    /\ queued[c] = 0
    /\ shut[c]
    /\ writer' = [writer EXCEPT ![c] = "done"]
    /\ UNCHANGED <<conns, phase, sock, queued, shut, states, services, pinged, told, published>>

----------------------------------------------------------------------------
\* Slip: a connection that refused a frame stays listed.
RefusingNobody(who, n) == {}

(* eachConn: who is sent n frames; one whose queue will not take them is    *)
(* dropped from s.conns and its socket closed, which its reader finds.      *)
Refusing(who, n) == {c \in who : ~Fits(c, n)}

EachConn(who, n) ==
    /\ conns' = conns \ Refusing(who, n)
    /\ sock' = [c \in Conns |-> sock[c] /\ c \notin Refusing(who, n)]
    /\ queued' = [c \in Conns |-> IF c \in who THEN Filled(c, n) ELSE queued[c]]

WantsStates == {c \in conns : states[c]}
WantsServices == {c \in conns : services[c]}

Changed(readings) == {k \in DOMAIN readings : published[k] # readings[k]}

Publish(readings) ==
    /\ published' = [k \in Keys |-> IF k \in DOMAIN readings THEN readings[k] ELSE published[k]]
    /\ EachConn(WantsStates, Cardinality(Changed(readings)))
    /\ told' = [c \in Conns |->
                  IF c \in WantsStates /\ Fits(c, Cardinality(Changed(readings)))
                  THEN [k \in Keys |-> IF k \in Changed(readings) THEN readings[k] ELSE told[c][k]]
                  ELSE told[c]]
    /\ UNCHANGED <<phase, shut, writer, states, services, pinged>>

(* FirePress: the event to who wants states, then the action to those of    *)
(* the others that want services.                                           *)
FirePress ==
    LET lost == Refusing(WantsStates, 1)
        full == {c \in WantsServices \ lost :
                   queued[c] + (IF states[c] THEN 2 ELSE 1) > SendQueue}
    IN /\ conns' = conns \ (lost \cup full)
       /\ sock' = [c \in Conns |-> sock[c] /\ c \notin lost \cup full]
       /\ queued' = [c \in Conns |->
                       LET n == (IF c \in WantsStates THEN 1 ELSE 0)
                                 + (IF c \in WantsServices \ lost THEN 1 ELSE 0)
                       IN Filled(c, n)]
       /\ UNCHANGED <<phase, shut, writer, states, services, pinged, told, published>>

(* UsePlay and UseCommand, the first time: everyone has to list again.      *)
RelistWith(seeded) ==
    /\ conns' = {}
    /\ sock' = [c \in Conns |-> sock[c] /\ c \notin conns]
    /\ published' = seeded
    /\ UNCHANGED <<phase, queued, shut, writer, states, services, pinged, told>>

Relist == RelistWith(published)

(* A reading is taken back, for nobody to be told (forgetSound).            *)
Forget(k) ==
    /\ published' = [published EXCEPT ![k] = None]
    /\ UNCHANGED <<conns, phase, sock, queued, shut, writer, states, services, pinged, told>>

----------------------------------------------------------------------------
ConnStep(c) ==
    \/ Accept(c) \/ HandshakeFails(c) \/ HandshakeDone(c)
    \/ Answer(c, 1) \/ ListEntities(c) \/ Disconnect(c)
    \/ SubscribeServices(c)
    \/ PingDue(c) \/ ReadFails(c)
    \/ Unlist(c) \/ CloseOut(c) \/ Ended(c)
    \/ WriteFrame(c) \/ WriteFails(c) \/ WriterEnds(c)

Readings == UNION {[S -> Values] : S \in SUBSET Keys}
Seeds == [Keys -> Values \cup {None}]

ConnNext ==
    \/ \E c \in Conns : ConnStep(c) \/ SubscribeStates(c) \/ Command(c)
    \/ \E readings \in Readings : Publish(readings)
    \/ \E k \in Keys : Forget(k)
    \/ \E seeded \in Seeds : RelistWith(seeded)
    \/ FirePress

ConnSpec == ConnInit /\ [][ConnNext]_connVars

----------------------------------------------------------------------------
(* No frame is put into a closed queue, which would end the daemon: whoever *)
(* publish can reach, and whoever handles a message or a ping, has its      *)
(* queue open, though the cleanup closes it on a goroutine of its own.      *)
NoSendAfterClose ==
    \A c \in Conns : c \in conns \/ phase[c] \in {"fresh", "open"} => ~shut[c]

(* A subscriber knows what was published last: no publish falls between its *)
(* snapshot and its flag, and one that could not be told does not stay      *)
(* listed with an older reading.                                            *)
SubscribersAgree ==
    \A c \in conns : phase[c] = "open" /\ states[c] =>
        \A k \in Keys : published[k] # None => told[c][k] = published[k]
=============================================================================
