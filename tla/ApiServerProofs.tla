-------------------------- MODULE ApiServerProofs --------------------------
(***************************************************************************)
(* What the parts of the API server promise each on its own - connections, *)
(* commands, the microphone switch, network adb, volume and mute - for     *)
(* every number of connections, asks and faults and every size of a queue; *)
(* and that the server as a whole keeps it: whichever facility a step is   *)
(* of, it is a step of the parts or leaves them as they are.  Last, the    *)
(* types of the whole server.                                              *)
(***************************************************************************)
EXTENDS ApiServer, SequenceTheorems, FiniteSetTheorems, TLAPS

(* The connections.                                                         *)

(* What the argument needs to know of the shapes; values are of no concern. *)
Shapes ==
    /\ conns \subseteq Conns
    /\ phase \in [Conns -> Phases]
    /\ shut \in [Conns -> BOOLEAN]
    /\ states \in [Conns -> BOOLEAN]
    /\ told = [c \in Conns |-> [k \in Keys |-> told[c][k]]]

(* A queue is closed by a cleanup that has taken its connection off s.conns *)
(* before, and nobody but a connection that begins gets onto it.            *)
ShutIsOver(c) ==
    /\ shut[c] => phase[c] = "draining"
    /\ c \in conns => phase[c] \in {"hello", "fresh", "open", "leaving"}

(* Nobody subscribes before the first message.                              *)
AsksFirst(c) == phase[c] \in {"out", "hello", "fresh"} => ~states[c]

Agrees(c) ==
    c \in conns /\ phase[c] = "open" /\ states[c] =>
        \A k \in Keys : published[k] # None => told[c][k] = published[k]

ConnInv == Shapes /\ \A c \in Conns : ShutIsOver(c) /\ AsksFirst(c) /\ Agrees(c)

LEMMA ConnInitInv == ConnInit => ConnInv
<1> SUFFICES ASSUME ConnInit PROVE ConnInv
  OBVIOUS
<1>1. Shapes
  BY DEF ConnInit, Shapes, Phases, NothingTold
<1>2. ASSUME NEW c \in Conns PROVE ShutIsOver(c) /\ AsksFirst(c) /\ Agrees(c)
  BY DEF ConnInit, ShutIsOver, AsksFirst, Agrees
<1>3. QED
  BY <1>1, <1>2 DEF ConnInv

----------------------------------------------------------------------------
(* Steps of one connection that tell it nothing: it goes from one phase to  *)
(* another, and its states flag stays as it is.                             *)
LEMMA PhaseKeeps ==
  ASSUME ConnInv, NEW c \in Conns, NEW to \in Phases,
         phase' = [phase EXCEPT ![c] = to],
         UNCHANGED <<shut, states, told, published>>,
         conns' \subseteq conns, c \notin conns' \/ to \in {"fresh", "open", "leaving"},
         to = "open" => phase[c] \in {"fresh", "open"},
         to = "fresh" => phase[c] = "hello",
         to \notin {"out", "hello", "draining"}, phase[c] # "draining"
  PROVE  ConnInv'
<1>1. Shapes'
  BY DEF ConnInv, Shapes
<1>2. ASSUME NEW d \in Conns PROVE (ShutIsOver(d) /\ AsksFirst(d) /\ Agrees(d))'
  <2>1. CASE d = c
    BY <2>1 DEF ConnInv, Shapes, ShutIsOver, AsksFirst, Agrees
  <2>2. CASE d # c
    BY <2>2 DEF ConnInv, Shapes, ShutIsOver, AsksFirst, Agrees
  <2>3. QED
    BY <2>1, <2>2
<1>3. QED
  BY <1>1, <1>2 DEF ConnInv

(* Steps that leave the phases as they are, and list nobody.                *)
LEMMA QueueKeeps ==
  ASSUME ConnInv, conns' \subseteq conns, UNCHANGED <<phase, shut, states, told, published>>
  PROVE  ConnInv'
  BY DEF ConnInv, Shapes, ShutIsOver, AsksFirst, Agrees

LEMMA AcceptKeeps == ASSUME ConnInv, NEW c \in Conns, Accept(c) PROVE ConnInv'
<1>1. Shapes'
  BY DEF Accept, ConnInv, Shapes, Phases
<1>2. ASSUME NEW d \in Conns PROVE (ShutIsOver(d) /\ AsksFirst(d) /\ Agrees(d))'
  BY DEF Accept, ConnInv, Shapes, ShutIsOver, AsksFirst, Agrees
<1>3. QED
  BY <1>1, <1>2 DEF ConnInv

(* A connection that is over starts afresh.                                 *)
LEMMA FreshKeeps ==
  ASSUME ConnInv, NEW c \in Conns, conns' = conns \ {c}, Fresh(c), UNCHANGED published
  PROVE  ConnInv'
<1>1. Shapes'
  BY DEF Fresh, ConnInv, Shapes, Phases, NothingTold
<1>2. ASSUME NEW d \in Conns PROVE (ShutIsOver(d) /\ AsksFirst(d) /\ Agrees(d))'
  BY DEF Fresh, ConnInv, Shapes, ShutIsOver, AsksFirst, Agrees
<1>3. QED
  BY <1>1, <1>2 DEF ConnInv

LEMMA CloseOutKeeps == ASSUME ConnInv, NEW c \in Conns, CloseOut(c) PROVE ConnInv'
<1>1. Shapes'
  BY DEF CloseOut, ConnInv, Shapes, Phases
<1>2. ASSUME NEW d \in Conns PROVE (ShutIsOver(d) /\ AsksFirst(d) /\ Agrees(d))'
  BY DEF CloseOut, ConnInv, Shapes, ShutIsOver, AsksFirst, Agrees
<1>3. QED
  BY <1>1, <1>2 DEF ConnInv

(* Subscribed and told everything at once, or on the way out.               *)
LEMMA SubscribeKeeps == ASSUME ConnInv, NEW c \in Conns, SubscribeStates(c) PROVE ConnInv'
<1>1. Shapes'
  BY DEF SubscribeStates, Handled, ConnInv, Shapes, Phases
<1>2. ASSUME NEW d \in Conns PROVE (ShutIsOver(d) /\ AsksFirst(d) /\ Agrees(d))'
  <2>1. CASE d = c
    BY <2>1 DEF SubscribeStates, Reads, Handled, Told, ConnInv, Shapes, ShutIsOver, AsksFirst, Agrees
  <2>2. CASE d # c
    BY <2>2 DEF SubscribeStates, Reads, Handled, ConnInv, Shapes, ShutIsOver, AsksFirst, Agrees
  <2>3. QED
    BY <2>1, <2>2
<1>3. QED
  BY <1>1, <1>2 DEF ConnInv

(* Whoever stays listed is told each change; the rest is as it was told.    *)
LEMMA PublishKeeps == ASSUME ConnInv, NEW readings, Publish(readings) PROVE ConnInv'
<1>1. Shapes'
  BY DEF Publish, EachConn, ConnInv, Shapes
<1>2. ASSUME NEW d \in Conns PROVE (ShutIsOver(d) /\ AsksFirst(d) /\ Agrees(d))'
  <2>1. (ShutIsOver(d) /\ AsksFirst(d))'
    BY DEF Publish, EachConn, ConnInv, Shapes, ShutIsOver, AsksFirst
  <2>2. ASSUME d \in conns', phase[d] = "open", states[d], NEW k \in Keys, published'[k] # None
        PROVE  told'[d][k] = published'[k]
    <3>1. d \in WantsStates /\ Fits(d, Cardinality(Changed(readings)))
      BY <2>2 DEF Publish, EachConn, Refusing, WantsStates
    <3>2. told'[d][k] = IF k \in Changed(readings) THEN readings[k] ELSE told[d][k]
      BY <3>1 DEF Publish
    <3>3. published'[k] = IF k \in DOMAIN readings THEN readings[k] ELSE published[k]
      BY DEF Publish
    <3>4. published[k] # None => told[d][k] = published[k]
      BY <2>2, <3>1 DEF ConnInv, Agrees, WantsStates
    <3>5. QED
      BY <2>2, <3>2, <3>3, <3>4 DEF Changed
  <2>3. QED
    BY <2>1, <2>2 DEF Agrees, Publish
<1>3. QED
  BY <1>1, <1>2 DEF ConnInv

LEMMA ForgetKeeps == ASSUME ConnInv, NEW k, Forget(k) PROVE ConnInv'
  BY DEF Forget, ConnInv, Shapes, ShutIsOver, AsksFirst, Agrees

LEMMA RelistKeeps == ASSUME ConnInv, NEW seeded, RelistWith(seeded) PROVE ConnInv'
  BY DEF RelistWith, ConnInv, Shapes, ShutIsOver, AsksFirst, Agrees

LEMMA FirePressKeeps == ASSUME ConnInv, FirePress PROVE ConnInv'
  BY QueueKeeps DEF FirePress

(* The handlers that answer, or fail to.                                    *)
LEMMA HandlesKeeps ==
  ASSUME ConnInv, NEW c \in Conns, NEW ok, Reads(c), Handled(c, ok),
         UNCHANGED <<conns, shut, states, told, published>>
  PROVE  ConnInv'
<1>1. PICK to \in {"open", "leaving"} : phase' = [phase EXCEPT ![c] = to]
  BY DEF Handled
<1>2. QED
  BY <1>1, PhaseKeeps DEF Reads, Phases

LEMMA CommandConnKeeps == ASSUME ConnInv, NEW c \in Conns, Command(c) PROVE ConnInv'
  BY HandlesKeeps DEF Command

LEMMA ConnStepKeeps == ASSUME ConnInv, NEW c \in Conns, ConnStep(c) PROVE ConnInv'
<1>1. CASE HandshakeFails(c)
  BY <1>1, FreshKeeps DEF HandshakeFails
<1>2. CASE HandshakeDone(c)
  BY <1>2, PhaseKeeps DEF HandshakeDone, Phases
<1>3. CASE Answer(c, 1) \/ ListEntities(c)
  BY <1>3, HandlesKeeps DEF Answer, ListEntities
<1>4. CASE Disconnect(c) \/ SubscribeServices(c)
  BY <1>4, HandlesKeeps DEF Disconnect, SubscribeServices
<1>5. CASE PingDue(c)
  <2>1. PICK to \in {"open", "leaving"} : phase' = [phase EXCEPT ![c] = to]
    BY <1>5 DEF PingDue
  <2>2. QED
    BY <1>5, <2>1, PhaseKeeps DEF PingDue, Phases
<1>6. CASE ReadFails(c)
  BY <1>6, PhaseKeeps DEF ReadFails, Phases
<1>7. CASE Unlist(c)
  BY <1>7, PhaseKeeps DEF Unlist, Phases
<1>8. CASE Ended(c)
  <2>1. conns' = conns \ {c}
    BY <1>8 DEF Ended, ConnInv, ShutIsOver
  <2>2. QED
    BY <1>8, <2>1, FreshKeeps DEF Ended
<1>9. CASE WriteFrame(c) \/ WriteFails(c) \/ WriterEnds(c)
  BY <1>9, QueueKeeps DEF WriteFrame, WriteFails, WriterEnds
<1>10. QED
  BY <1>1, <1>2, <1>3, <1>4, <1>5, <1>6, <1>7, <1>8, <1>9, AcceptKeeps, CloseOutKeeps DEF ConnStep

LEMMA ConnNextKeeps == ConnInv /\ [ConnNext]_connVars => ConnInv'
<1> SUFFICES ASSUME ConnInv, [ConnNext]_connVars PROVE ConnInv'
  OBVIOUS
<1>1. CASE \E c \in Conns : ConnStep(c) \/ SubscribeStates(c) \/ Command(c)
  BY <1>1, ConnStepKeeps, SubscribeKeeps, CommandConnKeeps
<1>2. CASE \E readings \in Readings : Publish(readings)
  BY <1>2, PublishKeeps
<1>3. CASE (\E k \in Keys : Forget(k)) \/ (\E seeded \in Seeds : RelistWith(seeded))
  BY <1>3, ForgetKeeps, RelistKeeps
<1>4. CASE FirePress
  BY <1>4, FirePressKeeps
<1>5. CASE UNCHANGED connVars
  BY <1>5, QueueKeeps DEF connVars
<1>6. QED
  BY <1>1, <1>2, <1>3, <1>4, <1>5 DEF ConnNext

----------------------------------------------------------------------------
LEMMA ConnInvSafe == ConnInv => NoSendAfterClose /\ SubscribersAgree
<1> SUFFICES ASSUME ConnInv PROVE NoSendAfterClose /\ SubscribersAgree
  OBVIOUS
<1>1. NoSendAfterClose
  BY DEF ConnInv, Shapes, ShutIsOver, NoSendAfterClose
<1>2. SubscribersAgree
  BY DEF ConnInv, Shapes, Agrees, SubscribersAgree
<1>3. QED
  BY <1>1, <1>2

THEOREM ConnectionsInductive == ConnSpec => []ConnInv
  BY ConnInitInv, ConnNextKeeps, PTL DEF ConnSpec

(* serveConn's cleanup and the two senders, send and eachConn, never meet   *)
(* on a closed channel, whatever the numbers of connections and frames.     *)
THEOREM SendsAreSafe == ConnSpec => []NoSendAfterClose
  BY ConnectionsInductive, ConnInvSafe, PTL

(* A subscriber that stays listed knows what was published last.            *)
THEOREM SubscribersKnow == ConnSpec => []SubscribersAgree
  BY ConnectionsInductive, ConnInvSafe, PTL

-----------------------------------------------------------------------------
(* The queue of Alexa commands.                                             *)

Idle(w) == cmdAt[w] = "idle"

(* s.cmdWorking says whether there is a worker.                             *)
FlagAgrees == cmdWorking <=> \E w \in Workers : ~Idle(w)

CmdInv == CmdTypeOK /\ CommandsInOrder /\ FlagAgrees

USE CommandsAssumption

----------------------------------------------------------------------------
(* What waits moves on: a text that is queued, taken and run is the same    *)
(* one of the same sequence.                                                *)
LEMMA Queued ==
  ASSUME NEW run \in Seq(Texts), NEW hand \in Seq(Texts), NEW queue \in Seq(Texts),
         NEW text \in Texts
  PROVE  Append(run \o hand \o queue, text) = run \o hand \o Append(queue, text)
<1>1. run \o hand \in Seq(Texts) /\ <<text>> \in Seq(Texts)
  BY ConcatProperties
<1>2. run \o hand \o queue \in Seq(Texts)
  BY <1>1, ConcatProperties
<1>3. Append(run \o hand \o queue, text) = run \o hand \o queue \o <<text>>
  BY <1>2, AppendIsConcat
<1>4. Append(queue, text) = queue \o <<text>>
  BY AppendIsConcat
<1>5. QED
  BY <1>1, <1>3, <1>4, ConcatAssociative

LEMMA Taken ==
  ASSUME NEW run \in Seq(Texts), NEW queue \in Seq(Texts), queue # <<>>
  PROVE  run \o <<>> \o queue = run \o <<Head(queue)>> \o Tail(queue)
<1>1. queue = <<Head(queue)>> \o Tail(queue)
  <2>1. Len(queue) \in 1 .. Len(queue) /\ 1 \in 1 .. Len(queue)
    BY EmptySeq
  <2>2. SubSeq(queue, 1, Len(queue)) = <<queue[1]>> \o SubSeq(queue, 2, Len(queue))
    BY <2>1, SubSeqRecursiveFirst
  <2>3. QED
    BY <2>2, SubSeqFull, TailIsSubSeq
<1>2. run \o <<>> = run
  BY ConcatEmptySeq
<1>3. <<Head(queue)>> \in Seq(Texts) /\ Tail(queue) \in Seq(Texts)
  BY HeadTailProperties
<1>4. (run \o <<Head(queue)>>) \o Tail(queue) = run \o (<<Head(queue)>> \o Tail(queue))
  BY <1>3, ConcatAssociative
<1>5. QED
  BY <1>1, <1>2, <1>4

LEMMA RunOne ==
  ASSUME NEW run \in Seq(Texts), NEW queue \in Seq(Texts), NEW text \in Texts
  PROVE  run \o <<text>> \o queue = Append(run, text) \o <<>> \o queue
<1>1. Append(run, text) = run \o <<text>> /\ Append(run, text) \in Seq(Texts)
  BY AppendIsConcat, AppendProperties
<1>2. Append(run, text) \o <<>> = Append(run, text)
  BY <1>1, ConcatEmptySeq
<1>3. QED
  BY <1>1, <1>2

----------------------------------------------------------------------------
LEMMA CmdInitInv == CmdInit => CmdInv
<1> SUFFICES ASSUME CmdInit PROVE CmdInv
  OBVIOUS
<1>1. CmdTypeOK
  <2>1. <<>> \in Seq(Texts) /\ Len(<<>>) \in 0 .. CommandQueue
    BY EmptySeq
  <2>2. cmdReady \in BOOLEAN /\ cmdWorking \in BOOLEAN
    BY Zenon DEF CmdInit
  <2>3. QED
    BY <2>1, <2>2 DEF CmdInit, CmdTypeOK
<1>2. CommandsInOrder /\ FlagAgrees
  BY DEF CmdInit, CommandsInOrder, FlagAgrees, Idle
<1>3. QED
  BY <1>1, <1>2 DEF CmdInv

LEMMA UseKeeps == CmdInv /\ UseCommand => CmdInv'
<1> SUFFICES ASSUME CmdInv, UseCommand PROVE CmdInv'
  OBVIOUS
<1>1. cmdReady' \in BOOLEAN
  BY Zenon DEF UseCommand
<1>2. QED
  BY <1>1 DEF CmdInv, CmdTypeOK, CommandsInOrder, FlagAgrees, Idle, InHand, Busy, UseCommand

(* A text is queued behind the others, and a worker started for it if there *)
(* is none: then everything accepted before has been run.                   *)
LEMMA CommandKeeps ==
  ASSUME CmdInv, NEW text \in Texts, CommandLocked(text) PROVE CmdInv'
<1>1. CASE ~Takes
  BY <1>1 DEF CmdInv, CmdTypeOK, CommandsInOrder, FlagAgrees, Idle, InHand, Busy, CommandLocked
<1>2. CASE Takes
  <2>1. /\ cmdQueue' = Append(cmdQueue, text) /\ cmdAccepted' = Append(cmdAccepted, text)
        /\ UNCHANGED <<cmdReady, cmdText, cmdRun, cmdSent>>
    BY <1>2 DEF CommandLocked
  <2>2. cmdWorking' = TRUE
    BY <1>2, Zenon DEF CommandLocked
  <2>3. /\ cmdQueue' \in Seq(Texts) /\ Len(cmdQueue') \in 0 .. CommandQueue
        /\ cmdAccepted' \in Seq(Texts)
    BY <1>2, <2>1, AppendProperties DEF Takes, CmdInv, CmdTypeOK
  <2>4. PICK w \in Workers :
          /\ ~Idle(w)'
          /\ \A v \in Workers \ {w} : Idle(v)'
          /\ cmdAt' \in [Workers -> {"idle", "take", "show", "send"}]
          /\ cmdAccepted = cmdRun \o InHand(w)' \o cmdQueue
    <3>1. CASE cmdWorking
      <4>1. PICK w \in Workers : ~Idle(w)
        BY <3>1 DEF CmdInv, FlagAgrees
      <4>2. cmdAt' = cmdAt
        BY <1>2, <3>1 DEF CommandLocked
      <4>3. InHand(w)' = InHand(w)
        BY <2>1, <4>2 DEF InHand, Busy
      <4>4. QED
        BY <4>1, <4>2, <4>3 DEF CmdInv, CmdTypeOK, CommandsInOrder, Idle
    <3>2. CASE ~cmdWorking
      <4>1. PICK w \in Workers : cmdAt[w] = "idle" /\ cmdAt' = [cmdAt EXCEPT ![w] = "take"]
        BY <1>2, <3>2 DEF CommandLocked
      <4>2. \A v \in Workers : Idle(v)
        BY <3>2 DEF CmdInv, FlagAgrees
      <4>3. cmdQueue = <<>> /\ cmdRun = cmdAccepted
        BY <4>2 DEF CmdInv, CommandsInOrder, Idle
      <4>4. InHand(w)' = <<>>
        BY <4>1 DEF InHand, Busy, CmdInv, CmdTypeOK
      <4>5. cmdRun \in Seq(Texts)
        BY DEF CmdInv, CmdTypeOK
      <4>6. cmdAccepted = cmdRun \o InHand(w)' \o cmdQueue
        BY <4>3, <4>4, <4>5, ConcatEmptySeq
      <4>7. QED
        BY <4>1, <4>2, <4>6 DEF CmdInv, CmdTypeOK, Idle
    <3>3. QED
      BY <3>1, <3>2
  <2>5. CmdTypeOK'
    BY <2>1, <2>2, <2>3, <2>4 DEF CmdInv, CmdTypeOK
  <2>6. cmdAccepted' = cmdRun' \o InHand(w)' \o cmdQueue'
    <3>1. InHand(w)' \in Seq(Texts)
      BY <2>5 DEF InHand, CmdTypeOK
    <3>2. cmdRun \in Seq(Texts) /\ cmdQueue \in Seq(Texts)
      BY DEF CmdInv, CmdTypeOK
    <3>3. Append(cmdRun \o InHand(w)' \o cmdQueue, text) = cmdRun \o InHand(w)' \o Append(cmdQueue, text)
      BY <3>1, <3>2, Queued, ZenonT(30)
    <3>4. cmdRun' = cmdRun
      BY <2>1
    <3>5. QED
      BY <2>1, <2>4, <3>3, <3>4
  <2>7. CommandsInOrder' /\ FlagAgrees'
    BY <2>2, <2>4, <2>6 DEF CommandsInOrder, FlagAgrees, Idle
  <2>8. QED
    BY <2>5, <2>7 DEF CmdInv
<1>3. QED
  BY <1>1, <1>2

(* The one worker takes the oldest text or, with none left, ends.           *)
LEMMA TakeKeeps == ASSUME CmdInv, NEW w \in Workers, TakeCommand(w) PROVE CmdInv'
<1>1. /\ ~Idle(w) /\ InHand(w) = <<>>
      /\ \A v \in Workers \ {w} : Idle(v)
      /\ cmdAccepted = cmdRun \o <<>> \o cmdQueue
      /\ cmdRun \in Seq(Texts) /\ cmdQueue \in Seq(Texts)
  BY DEF TakeCommand, CmdInv, CmdTypeOK, CommandsInOrder, Idle, InHand, Busy
<1>2. CASE cmdQueue = <<>>
  <2>1. cmdWorking' = FALSE
    BY <1>2, Zenon DEF TakeCommand
  <2>2. cmdAt' = [cmdAt EXCEPT ![w] = "idle"]
        /\ UNCHANGED <<cmdReady, cmdQueue, cmdText, cmdAccepted, cmdRun, cmdSent>>
    BY <1>2 DEF TakeCommand
  <2>3. CmdTypeOK'
    BY <2>1, <2>2 DEF CmdInv, CmdTypeOK
  <2>4. \A v \in Workers : Idle(v)'
    BY <1>1, <2>2 DEF Idle, CmdInv, CmdTypeOK
  <2>5. cmdRun = cmdAccepted
    BY <1>1, <1>2, ConcatEmptySeq
  <2>6. QED
    BY <1>2, <2>1, <2>2, <2>3, <2>4, <2>5 DEF CmdInv, CommandsInOrder, FlagAgrees, Idle
<1>3. CASE cmdQueue # <<>>
  <2>1. /\ cmdText' = [cmdText EXCEPT ![w] = Head(cmdQueue)]
        /\ cmdQueue' = Tail(cmdQueue)
        /\ cmdAt' = [cmdAt EXCEPT ![w] = "show"]
        /\ UNCHANGED <<cmdReady, cmdWorking, cmdAccepted, cmdRun, cmdSent>>
    BY <1>3 DEF TakeCommand
  <2>2. Head(cmdQueue) \in Texts /\ Tail(cmdQueue) \in Seq(Texts)
        /\ Len(Tail(cmdQueue)) = Len(cmdQueue) - 1 /\ Len(cmdQueue) \in Nat \ {0}
    BY <1>1, <1>3, HeadTailProperties, EmptySeq
  <2>3. CmdTypeOK'
    BY <2>1, <2>2 DEF CmdInv, CmdTypeOK
  <2>4. ~Idle(w)' /\ InHand(w)' = <<Head(cmdQueue)>> /\ \A v \in Workers \ {w} : Idle(v)'
    BY <1>1, <2>1 DEF Idle, InHand, Busy, CmdInv, CmdTypeOK
  <2>5. cmdAccepted' = cmdRun' \o InHand(w)' \o cmdQueue'
    BY <1>1, <1>3, <2>1, <2>4, Taken
  <2>6. cmdWorking'
    BY <1>1, <2>1 DEF CmdInv, FlagAgrees
  <2>7. QED
    BY <2>3, <2>4, <2>5, <2>6 DEF CmdInv, CommandsInOrder, FlagAgrees, Idle
<1>4. QED
  BY <1>2, <1>3

LEMMA ShowKeeps == ASSUME CmdInv, NEW w \in Workers, ShowCommand(w) PROVE CmdInv'
  BY DEF CmdInv, CmdTypeOK, CommandsInOrder, FlagAgrees, Idle, InHand, Busy, ShowCommand

LEMMA SendKeeps == ASSUME CmdInv, NEW w \in Workers, SendCommand(w) PROVE CmdInv'
<1>1. /\ ~Idle(w) /\ InHand(w) = <<cmdText[w]>>
      /\ \A v \in Workers \ {w} : Idle(v)
      /\ cmdAccepted = cmdRun \o <<cmdText[w]>> \o cmdQueue
      /\ cmdRun \in Seq(Texts) /\ cmdQueue \in Seq(Texts) /\ cmdText[w] \in Texts
  BY DEF SendCommand, CmdInv, CmdTypeOK, CommandsInOrder, Idle, InHand, Busy
<1>2. /\ cmdAt' = [cmdAt EXCEPT ![w] = "take"]
      /\ cmdRun' = Append(cmdRun, cmdText[w])
      /\ cmdSent' \in {cmdSent, cmdText[w]}
      /\ UNCHANGED <<cmdReady, cmdQueue, cmdWorking, cmdText, cmdAccepted>>
  BY DEF SendCommand
<1>3. cmdRun' \in Seq(Texts)
  BY <1>1, <1>2, AppendProperties
<1>4. CmdTypeOK'
  BY <1>1, <1>2, <1>3 DEF CmdInv, CmdTypeOK
<1>5. ~Idle(w)' /\ InHand(w)' = <<>> /\ \A v \in Workers \ {w} : Idle(v)'
  <2>1. cmdAt'[w] = "take" /\ \A v \in Workers \ {w} : cmdAt'[v] = cmdAt[v]
    BY <1>2 DEF CmdInv, CmdTypeOK
  <2>2. QED
    BY <1>1, <2>1 DEF Idle, InHand, Busy
<1>6. cmdAccepted' = cmdRun' \o InHand(w)' \o cmdQueue'
  <2>1. cmdAccepted = Append(cmdRun, cmdText[w]) \o <<>> \o cmdQueue
    BY <1>1, RunOne
  <2>2. QED
    BY <1>2, <1>5, <2>1
<1>7. cmdWorking'
  BY <1>1, <1>2 DEF CmdInv, FlagAgrees
<1>8. QED
  BY <1>4, <1>5, <1>6, <1>7 DEF CmdInv, CommandsInOrder, FlagAgrees, Idle

LEMMA CmdStepInv == CmdInv /\ [CmdNext]_cmdVars => CmdInv'
<1> SUFFICES ASSUME CmdInv, [CmdNext]_cmdVars PROVE CmdInv'
  OBVIOUS
<1>1. CASE UseCommand
  BY <1>1, UseKeeps
<1>2. CASE \E text \in Texts : CommandLocked(text)
  BY <1>2, CommandKeeps
<1>3. CASE \E w \in Workers : CmdWork(w)
  BY <1>3, TakeKeeps, ShowKeeps, SendKeeps DEF CmdWork
<1>4. CASE UNCHANGED cmdVars
  BY <1>4 DEF cmdVars, CmdInv, CmdTypeOK, CommandsInOrder, FlagAgrees, Idle, InHand, Busy
<1>5. QED
  BY <1>1, <1>2, <1>3, <1>4 DEF CmdNext

----------------------------------------------------------------------------
(* Types, the order and the flag together, in every state of the queue.     *)
THEOREM CommandsInductive == CmdSpec => []CmdInv
  BY CmdInitInv, CmdStepInv, PTL DEF CmdSpec

(* commandWorker runs what commandLocked accepted, once each and in order,  *)
(* whatever the capacity and however the two fall into each other.          *)
THEOREM CommandsRunInOrder == CmdSpec => []CommandsInOrder
<1>1. CmdInv => CommandsInOrder
  BY DEF CmdInv
<1>2. QED
  BY <1>1, CommandsInductive, PTL

----------------------------------------------------------------------------

(* A budget that something is left of stays one when that is used.          *)
LEMMA Budgeted ==
  ASSUME NEW A \in Nat, NEW F \in Nat, NEW left \in [asks : 0 .. A, faults : 0 .. F]
  PROVE  /\ left.asks \in 0 .. A /\ left.faults \in 0 .. F
         /\ left.asks > 0 =>
               /\ [left EXCEPT !.asks = @ - 1] \in [asks : 0 .. A, faults : 0 .. F]
               /\ [left EXCEPT !.asks = @ - 1].asks = left.asks - 1
               /\ [left EXCEPT !.asks = @ - 1].faults = left.faults
         /\ left.faults > 0 =>
               /\ [left EXCEPT !.faults = @ - 1] \in [asks : 0 .. A, faults : 0 .. F]
               /\ [left EXCEPT !.faults = @ - 1].asks = left.asks
               /\ [left EXCEPT !.faults = @ - 1].faults = left.faults - 1
  OBVIOUS

LEMMA Unspent ==
  ASSUME NEW A \in Nat, NEW F \in Nat
  PROVE  [asks |-> A, faults |-> F] \in [asks : 0 .. A, faults : 0 .. F]
  OBVIOUS

(* The microphone switch.  While it works it is at the last ask, or at one  *)
(* that the next turn will replace; and a turn without a fault or a finger  *)
(* leaves the mute as it was asked.                                         *)
MicTurn ==
    /\ micWorking <=> micAt # "idle"
    /\ micHasPending => micWorking
    /\ micWorking => micPending = micAsk /\ micAsk \in BOOLEAN
    /\ micAt \in {"read", "press", "back"} =>
           micWant \in BOOLEAN /\ (~micHasPending => micWant = micPending)

MicUndisturbed ==
    ~micHasPending /\ ~micTouched =>
        /\ micAt = "press" => muted # micWant
        /\ micAt = "back" => muted = micWant
        /\ micAt = "take" => muted = micAsk
        /\ micAt = "idle" /\ micAsk # MicNone => muted = micAsk
        /\ micAt \in {"take", "idle"} /\ micSettled => muted = micLive

MicInv == MicTypeOK /\ MicTurn /\ MicUndisturbed

LEMMA MicInitInv == MicInit => MicInv
<1> SUFFICES ASSUME MicInit PROVE MicInv
  OBVIOUS
<1>1. MicTypeOK
  <2>1. micLeft \in [asks : 0 .. MicAsks, faults : 0 .. MicFaults]
    BY MicAssumption, Unspent DEF MicInit
  <2>2. QED
    BY <2>1 DEF MicInit, MicTypeOK
<1>2. MicTurn /\ MicUndisturbed
  BY MicAssumption DEF MicInit, MicTurn, MicUndisturbed
<1>3. QED
  BY <1>1, <1>2 DEF MicInv

LEMMA MicStepInv == MicInv /\ [MicNext]_micVars => MicInv'
<1> SUFFICES ASSUME MicInv, [MicNext]_micVars PROVE MicInv'
  OBVIOUS
<1>l. micLeft' \in [asks : 0 .. MicAsks, faults : 0 .. MicFaults]
  <2>1. \/ UNCHANGED micLeft
        \/ micLeft.asks > 0 /\ micLeft' = [micLeft EXCEPT !.asks = @ - 1]
        \/ micLeft.faults > 0 /\ micLeft' = [micLeft EXCEPT !.faults = @ - 1]
    BY DEF MicNext, SetMicLocked, MicTake, MicRead, MicPress, MicBack, MicFinger, MicObserved, MicWell,
       MicFault, micVars
  <2>2. QED
    BY <2>1, Budgeted, MicAssumption DEF MicInv, MicTypeOK
<1> USE MicAssumption, <1>l DEF MicInv, MicTypeOK, MicTurn, MicUndisturbed, MicFault, MicWell, MicRecord
<1>1. ASSUME NEW want \in BOOLEAN, SetMicLocked(want) PROVE MicInv'
  <2>1. CASE MicRepeats(want)
    BY <1>1, <2>1 DEF SetMicLocked, MicRepeats
  <2>2. CASE ~MicRepeats(want)
    BY <1>1, <2>2 DEF SetMicLocked
  <2>3. QED
    BY <2>1, <2>2
<1>2. CASE MicTake
  BY <1>2 DEF MicTake
<1>3. CASE MicRead
  <2>1. CASE MicRecord(FALSE) /\ MicFault
    BY <1>3, <2>1 DEF MicRead
  <2>2. CASE MicRecord(TRUE)
    BY <1>3, <2>2 DEF MicRead
  <2>3. CASE micAt' = "press"
    BY <1>3, <2>3 DEF MicRead
  <2>4. QED
    BY <1>3, <2>1, <2>2, <2>3 DEF MicRead
<1>4. CASE MicPress
  <2>1. CASE micAt' = "back"
    BY <1>4, <2>1 DEF MicPress
  <2>2. CASE micAt' = "take"
    BY <1>4, <2>2 DEF MicPress
  <2>3. QED
    BY <1>4, <2>1, <2>2 DEF MicPress
<1>5. CASE MicBack
  <2>1. CASE muted = micWant
    BY <1>5, <2>1 DEF MicBack
  <2>2. CASE muted # micWant
    BY <1>5, <2>2 DEF MicBack
  <2>3. QED
    BY <2>1, <2>2
<1>6. CASE MicFinger
  BY <1>6 DEF MicFinger
<1>7. ASSUME NEW read \in BOOLEAN, MicObserved(read) PROVE MicInv'
  BY <1>7 DEF MicObserved
<1>8. CASE UNCHANGED micVars
  BY <1>8 DEF micVars
<1>9. QED
  BY <1>1, <1>2, <1>3, <1>4, <1>5, <1>6, <1>7, <1>8 DEF MicNext

(* The worker's turns are the last ask's, whatever came in between.         *)
THEOREM MicInductive == MicSpec => []MicInv
  BY MicInitInv, MicStepInv, PTL DEF MicSpec

(* With no finger and no fault since it, the last ask is what the mute is   *)
(* when the worker is through, for any number of asks.                      *)
THEOREM MicStands == MicSpec => []MicEndsAsAsked
<1>1. MicInv => MicEndsAsAsked
  BY DEF MicInv, MicTypeOK, MicTurn, MicUndisturbed, MicEndsAsAsked
<1>2. QED
  BY <1>1, MicInductive, PTL

----------------------------------------------------------------------------
(* Network adb.  The rule, the property and adbd agree.                     *)
AdbStable == ~adbRestart /\ (adbUp <=> adbPort) /\ (adbRule <=> adbPort)

(* Nothing listens and nothing will.                                        *)
AdbClosed == ~adbRestart /\ ~adbUp /\ ~adbPort

AdbTurn ==
    /\ adbWorking <=> adbAt # "idle"
    /\ adbHasPending => adbWorking
    /\ adbWorking => adbPending = adbAsk /\ adbAsk \in AdbModes
    /\ adbAt \notin {"idle", "take"} =>
           /\ {adbWant, adbTarget} \subseteq AdbModes
           /\ adbTarget \in {adbWant, "Off"}
           /\ ~adbHasPending => adbWant = adbPending
    /\ adbAt \in {"key", "allow"} => adbTarget # "Off"
    /\ adbAt \in {"deny", "clear"} => adbTarget = "Off"
    /\ adbSettled => adbAsk \in AdbModes
    /\ adbAt = "shut" => adbSeen = "Off"
    /\ adbAt = "record" /\ adbSeen = "Secure" => adbSecure

(* The one fault there may be has not happened.                             *)
AdbUnused == AdbFaults < 2 /\ adbLeft.faults > 0

(* How far a turn has come that no fault has got into.                      *)
AdbProgress ==
    /\ adbAt \notin {"idle", "take"} => adbTarget = adbWant /\ ~adbErr
    /\ adbAt \in {"port", "restart", "allow", "read", "record"} /\ adbWant # "Off" =>
           (adbSecure <=> adbWant = "Secure")
    /\ adbAt \in {"restart", "allow", "deny", "clear", "read", "shut", "record"} =>
           (adbPort <=> adbWant # "Off")
    /\ adbAt \in {"allow", "deny", "clear", "read"} => adbRestart \/ (adbUp <=> adbPort)
    /\ adbAt = "read" /\ adbWant # "Off" => adbRule
    /\ adbAt = "shut" => AdbClosed
    /\ adbAt \in {"shut", "record"} => adbSeen = adbWant
    /\ adbAt = "record" => AdbStable

AdbUndisturbed ==
    /\ (~adbFaulty /\ ~adbHasPending) \/ AdbUnused => AdbProgress
    /\ AdbUnused /\ adbAt \in {"idle", "take", "key", "port"} => AdbStable

(* A worker that is through has left what the last ask was for.             *)
AdbDone ==
    adbAt \in {"idle", "take"} /\ ~adbHasPending =>
        /\ ~adbFaulty /\ adbAsk # AdbNone =>
               /\ AdbStable
               /\ adbPort <=> adbAsk # "Off"
               /\ adbAsk # "Off" => (adbSecure <=> adbAsk = "Secure")
               /\ adbSettled => adbLive = adbAsk
        /\ adbSettled /\ adbLive = "Secure" => adbSecure

(* An ask for a key sets the key, or the one fault kept it from that and    *)
(* the turn falls back to closing adb, which nothing can stop then.         *)
AdbKeyed ==
    AdbFaults < 2 /\ adbAsk = "Secure" /\ ~adbHasPending =>
        /\ adbAt \in {"port", "restart", "allow"} /\ adbTarget = "Secure" => adbSecure
        /\ adbAt = "read" /\ adbTarget = "Secure" =>
               adbSecure \/ (adbLeft.faults = 0 /\ AdbStable)
        /\ adbAt \notin {"idle", "take"} /\ adbTarget = "Off" => adbLeft.faults = 0
        /\ adbAt \in {"restart", "deny", "clear", "read"} /\ adbTarget = "Off" => ~adbPort
        /\ adbAt \in {"deny", "clear", "read"} /\ adbTarget = "Off" => adbRestart \/ ~adbUp
        /\ adbAt \in {"shut", "record", "take", "idle"} => adbSecure \/ AdbClosed

AdbInv == AdbTypeOK /\ AdbTurn /\ AdbUndisturbed /\ AdbDone /\ AdbKeyed

LEMMA AdbInitInv == AdbInit => AdbInv
<1> SUFFICES ASSUME AdbInit PROVE AdbInv
  OBVIOUS
<1>1. AdbTypeOK
  <2>1. adbLeft \in [asks : 0 .. AdbAsks, faults : 0 .. AdbFaults]
    BY AdbAssumption, Unspent DEF AdbInit
  <2>2. QED
    BY <2>1 DEF AdbInit, AdbTypeOK
<1>2. AdbTurn /\ AdbUndisturbed /\ AdbDone /\ AdbKeyed
  BY AdbAssumption DEF AdbInit, AdbTurn, AdbUndisturbed, AdbProgress, AdbDone, AdbKeyed, AdbStable,
     AdbClosed, AdbUnused, AdbModes
<1>3. QED
  BY <1>1, <1>2 DEF AdbInv

(* What each call of SetADBMode does when it does not fail.                 *)
LEMMA CallDoes ==
  ASSUME AdbTypeOK, SetCall, AdbWell
  PROVE  /\ UNCHANGED <<adbUp, adbServer, adbWant, adbTarget, adbSeen, adbAsk, adbErr>>
         /\ adbAt = "key" => /\ adbAt' = "port" /\ adbSecure' \in BOOLEAN
                             /\ adbSecure' <=> adbTarget = "Secure"
                             /\ UNCHANGED <<adbPort, adbRestart, adbRule>>
         /\ adbAt = "port" => /\ adbAt' = "restart" /\ adbPort' \in BOOLEAN
                              /\ adbPort' <=> adbTarget # "Off"
                              /\ UNCHANGED <<adbSecure, adbRestart, adbRule>>
         /\ adbAt = "restart" => /\ adbAt' = IF adbTarget = "Off" THEN "deny" ELSE "allow"
                                 /\ adbRestart' = TRUE
                                 /\ UNCHANGED <<adbSecure, adbPort, adbRule>>
         /\ adbAt = "allow" => /\ adbAt' = "read" /\ adbRule' = TRUE
                               /\ UNCHANGED <<adbSecure, adbPort, adbRestart>>
         /\ adbAt = "deny" => /\ adbAt' = "clear" /\ adbRule' = FALSE
                              /\ UNCHANGED <<adbSecure, adbPort, adbRestart>>
         /\ adbAt = "clear" => /\ adbAt' = "read" /\ adbSecure' = FALSE
                               /\ UNCHANGED <<adbPort, adbRule, adbRestart>>
<1>1. UNCHANGED <<adbUp, adbServer, adbWant, adbTarget, adbSeen, adbAsk, adbErr>>
  <2>1. adbLeft' # [adbLeft EXCEPT !.faults = @ - 1] \/ ~(adbLeft.faults > 0)
    BY AdbAssumption DEF AdbTypeOK, AdbWell
  <2>2. QED
    BY <2>1 DEF SetCall, AdbFault
<1>2. ~AdbFault
  <2>1. adbLeft' # [adbLeft EXCEPT !.faults = @ - 1] \/ ~(adbLeft.faults > 0)
    BY AdbAssumption DEF AdbTypeOK, AdbWell
  <2>2. QED
    BY <2>1 DEF AdbFault
<1>3. QED
  BY <1>1, <1>2 DEF SetCall, AfterCall, AdbTypeOK, AdbLocked, AdbSetting

(* And what one that fails does.                                            *)
LEMMA CallFails ==
  ASSUME AdbTypeOK, SetCall, AdbFault
  PROVE  /\ adbAt' = "read"
         /\ UNCHANGED <<adbDevice, adbServer, adbWant, adbTarget, adbSeen, adbAsk>>
<1>1. ~AdbWell
  <2>1. adbLeft'.faults = adbLeft.faults - 1 /\ adbLeft.faults \in Nat
    BY AdbAssumption, Budgeted DEF AdbTypeOK, AdbFault
  <2>2. QED
    BY <2>1 DEF AdbWell
<1>2. QED
  BY <1>1 DEF SetCall, adbDevice

(* A call that does not fail takes the turn further.                        *)
LEMMA CallProgress ==
  ASSUME AdbTypeOK, AdbTurn, SetCall, AdbWell, AdbProgress
  PROVE  AdbProgress'
<1> USE CallDoes DEF AdbTypeOK, AdbTurn, AdbProgress, AdbModes, AdbSetting, AdbStable, AdbClosed
<1>1. adbAt' \in {"port", "restart", "allow", "deny", "clear", "read"}
  BY DEF SetCall, AdbLocked
<1>2. adbTarget' = adbWant' /\ ~adbErr'
  <2>1. adbTarget = adbWant /\ ~adbErr
    BY DEF SetCall, AdbLocked
  <2>2. UNCHANGED <<adbTarget, adbWant, adbErr>>
    OBVIOUS
  <2>3. QED
    BY ONLY <2>1, <2>2
<1>3. adbAt' \in {"port", "restart", "allow", "read"} /\ adbWant' # "Off" =>
          (adbSecure' <=> adbWant' = "Secure")
  BY DEF SetCall, AdbLocked
<1>4. adbAt' \in {"restart", "allow", "deny", "clear", "read"} => (adbPort' <=> adbWant' # "Off")
  BY DEF SetCall, AdbLocked
<1>5. adbAt' \in {"allow", "deny", "clear", "read"} => adbRestart' \/ (adbUp' <=> adbPort')
  BY DEF SetCall, AdbLocked
<1>6. adbAt' = "read" /\ adbWant' # "Off" => adbRule'
  BY DEF SetCall, AdbLocked
<1>7. QED
  BY <1>1, <1>2, <1>3, <1>4, <1>5, <1>6

LEMMA AdbStepInv == AdbInv /\ [AdbNext]_adbVars => AdbInv'
<1> SUFFICES ASSUME AdbInv, [AdbNext]_adbVars PROVE AdbInv'
  OBVIOUS
<1> USE DEF adbDevice, adbWorker, adbServer
<1>l. /\ adbLeft' \in [asks : 0 .. AdbAsks, faults : 0 .. AdbFaults]
      /\ AdbFault => adbFaulty' = TRUE /\ adbLeft.faults > 0 /\ adbLeft'.faults = adbLeft.faults - 1
      /\ AdbWell => UNCHANGED <<adbLeft, adbFaulty>>
      /\ \A want \in AdbModes : SetADBLocked(want) => adbLeft'.faults = adbLeft.faults
      /\ adbLeft.faults \in 0 .. AdbFaults
  <2>1. \/ UNCHANGED adbLeft
        \/ adbLeft.asks > 0 /\ adbLeft' = [adbLeft EXCEPT !.asks = @ - 1]
        \/ adbLeft.faults > 0 /\ adbLeft' = [adbLeft EXCEPT !.faults = @ - 1]
    BY DEF AdbNext, SetADBLocked, AdbTake, SetCall, AdbRead, AdbShut, AdbRecord, AdbdRestarts, AdbRuleLost,
       HoldADBOpen, AdbObserved, adbVars, AdbFault, AdbWell
  <2>2. QED
    BY <2>1, Budgeted, AdbAssumption DEF AdbInv, AdbTypeOK, AdbFault, AdbWell, SetADBLocked
<1> USE AdbAssumption, <1>l DEF AdbInv, AdbTypeOK, AdbTurn, AdbUndisturbed, AdbProgress, AdbDone, AdbKeyed,
        AdbStable, AdbClosed, AdbUnused, AdbModes, AdbSetting, AdbLocked
<1>1. ASSUME NEW want \in AdbModes, SetADBLocked(want) PROVE AdbInv'
  <2>1. CASE AdbRepeats(want)
    <3>1. AdbTypeOK'
      BY <1>1, <2>1 DEF SetADBLocked, AdbRepeats, AdbBusy
    <3>2. AdbTurn'
      BY <1>1, <2>1 DEF SetADBLocked, AdbRepeats, AdbBusy
    <3>3. AdbUndisturbed'
      BY <1>1, <2>1 DEF SetADBLocked, AdbRepeats, AdbBusy
    <3>4. AdbDone'
      BY <1>1, <2>1 DEF SetADBLocked, AdbRepeats, AdbBusy
    <3>5. AdbKeyed'
      BY <1>1, <2>1 DEF SetADBLocked, AdbRepeats, AdbBusy
    <3>6. QED
      BY <3>1, <3>2, <3>3, <3>4, <3>5 DEF AdbInv
  <2>2. CASE ~AdbRepeats(want)
    <3>1. AdbTypeOK'
      BY <1>1, <2>2 DEF SetADBLocked
    <3>2. AdbTurn'
      BY <1>1, <2>2 DEF SetADBLocked
    <3>3. AdbUndisturbed'
      BY <1>1, <2>2 DEF SetADBLocked
    <3>4. AdbDone'
      BY <1>1, <2>2 DEF SetADBLocked
    <3>5. AdbKeyed'
      BY <1>1, <2>2 DEF SetADBLocked
    <3>6. QED
      BY <3>1, <3>2, <3>3, <3>4, <3>5 DEF AdbInv
  <2>3. QED
    BY <2>1, <2>2
<1>2. CASE AdbTake
  BY <1>2 DEF AdbTake, SetStart
<1>3. CASE SetCall
  <2>0. adbErr' \in BOOLEAN /\ AdbLocked
    BY <1>3 DEF SetCall
  <2>1. CASE AdbFault
    <3>1. AdbTypeOK'
      BY <1>3, <2>1, CallFails, <2>0
    <3>2. AdbTurn'
      BY <1>3, <2>1, CallFails, <2>0
    <3>3. AdbUndisturbed'
      BY <1>3, <2>1, CallFails, <2>0
    <3>4. AdbDone'
      BY <1>3, <2>1, CallFails, <2>0
    <3>5. AdbKeyed'
      BY <1>3, <2>1, CallFails, <2>0
    <3>6. QED
      BY <3>1, <3>2, <3>3, <3>4, <3>5 DEF AdbInv
  <2>2. CASE AdbWell /\ adbAt = "key"
    <3>1. AdbTypeOK'
      BY <1>3, <2>2, CallDoes
    <3>2. AdbTurn'
      BY <1>3, <2>2, CallDoes
    <3>3. AdbUndisturbed'
      <4>1. ((~adbFaulty /\ ~adbHasPending) \/ AdbUnused)' => ((~adbFaulty /\ ~adbHasPending) \/ AdbUnused)
        BY <1>3, <2>2, CallDoes
      <4>2. ASSUME AdbProgress PROVE AdbProgress'
        BY <1>3, <2>2, <4>2, CallProgress
      <4>3. AdbUnused /\ AdbStable => (adbAt \in {"idle", "take", "key", "port"} => AdbStable)'
        BY <1>3, <2>2, CallDoes
      <4>4. QED
        BY <4>1, <4>2, <4>3, <1>3, <2>2, CallDoes
    <3>4. AdbDone'
      BY <1>3, <2>2, CallDoes
    <3>5. AdbKeyed'
      BY <1>3, <2>2, CallDoes
    <3>6. QED
      BY <3>1, <3>2, <3>3, <3>4, <3>5 DEF AdbInv
  <2>3. CASE AdbWell /\ adbAt = "port"
    <3>1. AdbTypeOK'
      BY <1>3, <2>3, CallDoes
    <3>2. AdbTurn'
      BY <1>3, <2>3, CallDoes
    <3>3. AdbUndisturbed'
      <4>1. ((~adbFaulty /\ ~adbHasPending) \/ AdbUnused)' => ((~adbFaulty /\ ~adbHasPending) \/ AdbUnused)
        BY <1>3, <2>3, CallDoes
      <4>2. ASSUME AdbProgress PROVE AdbProgress'
        BY <1>3, <2>3, <4>2, CallProgress
      <4>3. AdbUnused /\ AdbStable => (adbAt \in {"idle", "take", "key", "port"} => AdbStable)'
        BY <1>3, <2>3, CallDoes
      <4>4. QED
        BY <4>1, <4>2, <4>3, <1>3, <2>3, CallDoes
    <3>4. AdbDone'
      BY <1>3, <2>3, CallDoes
    <3>5. AdbKeyed'
      BY <1>3, <2>3, CallDoes
    <3>6. QED
      BY <3>1, <3>2, <3>3, <3>4, <3>5 DEF AdbInv
  <2>4. CASE AdbWell /\ adbAt = "restart"
    <3>1. AdbTypeOK'
      BY <1>3, <2>4, CallDoes
    <3>2. AdbTurn'
      BY <1>3, <2>4, CallDoes
    <3>3. AdbUndisturbed'
      <4>1. ((~adbFaulty /\ ~adbHasPending) \/ AdbUnused)' => ((~adbFaulty /\ ~adbHasPending) \/ AdbUnused)
        BY <1>3, <2>4, CallDoes
      <4>2. ASSUME AdbProgress PROVE AdbProgress'
        BY <1>3, <2>4, <4>2, CallProgress
      <4>3. AdbUnused /\ AdbStable => (adbAt \in {"idle", "take", "key", "port"} => AdbStable)'
        BY <1>3, <2>4, CallDoes
      <4>4. QED
        BY <4>1, <4>2, <4>3, <1>3, <2>4, CallDoes
    <3>4. AdbDone'
      BY <1>3, <2>4, CallDoes
    <3>5. AdbKeyed'
      BY <1>3, <2>4, CallDoes
    <3>6. QED
      BY <3>1, <3>2, <3>3, <3>4, <3>5 DEF AdbInv
  <2>5. CASE AdbWell /\ adbAt = "allow"
    <3>1. AdbTypeOK'
      BY <1>3, <2>5, CallDoes
    <3>2. AdbTurn'
      BY <1>3, <2>5, CallDoes
    <3>3. AdbUndisturbed'
      <4>1. ((~adbFaulty /\ ~adbHasPending) \/ AdbUnused)' => ((~adbFaulty /\ ~adbHasPending) \/ AdbUnused)
        BY <1>3, <2>5, CallDoes
      <4>2. ASSUME AdbProgress PROVE AdbProgress'
        BY <1>3, <2>5, <4>2, CallProgress
      <4>3. AdbUnused /\ AdbStable => (adbAt \in {"idle", "take", "key", "port"} => AdbStable)'
        BY <1>3, <2>5, CallDoes
      <4>4. QED
        BY <4>1, <4>2, <4>3, <1>3, <2>5, CallDoes
    <3>4. AdbDone'
      BY <1>3, <2>5, CallDoes
    <3>5. AdbKeyed'
      BY <1>3, <2>5, CallDoes
    <3>6. QED
      BY <3>1, <3>2, <3>3, <3>4, <3>5 DEF AdbInv
  <2>6. CASE AdbWell /\ adbAt = "deny"
    <3>1. AdbTypeOK'
      BY <1>3, <2>6, CallDoes
    <3>2. AdbTurn'
      BY <1>3, <2>6, CallDoes
    <3>3. AdbUndisturbed'
      <4>1. ((~adbFaulty /\ ~adbHasPending) \/ AdbUnused)' => ((~adbFaulty /\ ~adbHasPending) \/ AdbUnused)
        BY <1>3, <2>6, CallDoes
      <4>2. ASSUME AdbProgress PROVE AdbProgress'
        BY <1>3, <2>6, <4>2, CallProgress
      <4>3. AdbUnused /\ AdbStable => (adbAt \in {"idle", "take", "key", "port"} => AdbStable)'
        BY <1>3, <2>6, CallDoes
      <4>4. QED
        BY <4>1, <4>2, <4>3, <1>3, <2>6, CallDoes
    <3>4. AdbDone'
      BY <1>3, <2>6, CallDoes
    <3>5. AdbKeyed'
      BY <1>3, <2>6, CallDoes
    <3>6. QED
      BY <3>1, <3>2, <3>3, <3>4, <3>5 DEF AdbInv
  <2>7. CASE AdbWell /\ adbAt = "clear"
    <3>1. AdbTypeOK'
      BY <1>3, <2>7, CallDoes
    <3>2. AdbTurn'
      BY <1>3, <2>7, CallDoes
    <3>3. AdbUndisturbed'
      <4>1. ((~adbFaulty /\ ~adbHasPending) \/ AdbUnused)' => ((~adbFaulty /\ ~adbHasPending) \/ AdbUnused)
        BY <1>3, <2>7, CallDoes
      <4>2. ASSUME AdbProgress PROVE AdbProgress'
        BY <1>3, <2>7, <4>2, CallProgress
      <4>3. AdbUnused /\ AdbStable => (adbAt \in {"idle", "take", "key", "port"} => AdbStable)'
        BY <1>3, <2>7, CallDoes
      <4>4. QED
        BY <4>1, <4>2, <4>3, <1>3, <2>7, CallDoes
    <3>4. AdbDone'
      BY <1>3, <2>7, CallDoes
    <3>5. AdbKeyed'
      BY <1>3, <2>7, CallDoes
    <3>6. QED
      BY <3>1, <3>2, <3>3, <3>4, <3>5 DEF AdbInv
  <2>8. QED
    BY <1>3, <2>1, <2>2, <2>3, <2>4, <2>5, <2>6, <2>7 DEF SetCall
<1>4. CASE AdbRead
  <2>1. CASE adbSeen' = "unknown"
    BY <1>4, <2>1 DEF AdbRead, AdbMode, FallsBack
  <2>2. CASE adbSeen' = "Off"
    <3>1. AdbTypeOK'
      BY <1>4, <2>2 DEF AdbRead, AdbMode, FallsBack
    <3>2. AdbTurn'
      BY <1>4, <2>2 DEF AdbRead, AdbMode, FallsBack
    <3>3. AdbUndisturbed'
      BY <1>4, <2>2 DEF AdbRead, AdbMode, FallsBack
    <3>4. AdbDone'
      BY <1>4, <2>2 DEF AdbRead, AdbMode, FallsBack
    <3>5. AdbKeyed'
      BY <1>4, <2>2 DEF AdbRead, AdbMode, FallsBack
    <3>6. QED
      BY <3>1, <3>2, <3>3, <3>4, <3>5 DEF AdbInv
  <2>3. CASE adbSeen' = "Insecure"
    <3>1. AdbTypeOK'
      BY <1>4, <2>3 DEF AdbRead, AdbMode, FallsBack
    <3>2. AdbTurn'
      BY <1>4, <2>3 DEF AdbRead, AdbMode, FallsBack
    <3>3. AdbUndisturbed'
      BY <1>4, <2>3 DEF AdbRead, AdbMode, FallsBack
    <3>4. AdbDone'
      BY <1>4, <2>3 DEF AdbRead, AdbMode, FallsBack
    <3>5. AdbKeyed'
      BY <1>4, <2>3 DEF AdbRead, AdbMode, FallsBack
    <3>6. QED
      BY <3>1, <3>2, <3>3, <3>4, <3>5 DEF AdbInv
  <2>4. CASE adbSeen' = "Secure"
    <3>1. AdbTypeOK'
      BY <1>4, <2>4 DEF AdbRead, AdbMode, FallsBack
    <3>2. AdbTurn'
      BY <1>4, <2>4 DEF AdbRead, AdbMode, FallsBack
    <3>3. AdbUndisturbed'
      BY <1>4, <2>4 DEF AdbRead, AdbMode, FallsBack
    <3>4. AdbDone'
      BY <1>4, <2>4 DEF AdbRead, AdbMode, FallsBack
    <3>5. AdbKeyed'
      BY <1>4, <2>4 DEF AdbRead, AdbMode, FallsBack
    <3>6. QED
      BY <3>1, <3>2, <3>3, <3>4, <3>5 DEF AdbInv
  <2>5. QED
    BY <1>4, <2>1, <2>2, <2>3, <2>4 DEF AdbRead, AdbMode
<1>5. CASE AdbShut
  <2>1. CASE AdbWell
    <3>1. AdbTypeOK'
      BY <1>5, <2>1 DEF AdbShut
    <3>2. AdbTurn'
      BY <1>5, <2>1 DEF AdbShut
    <3>3. AdbUndisturbed'
      BY <1>5, <2>1 DEF AdbShut
    <3>4. AdbDone'
      BY <1>5, <2>1 DEF AdbShut
    <3>5. AdbKeyed'
      BY <1>5, <2>1 DEF AdbShut
    <3>6. QED
      BY <3>1, <3>2, <3>3, <3>4, <3>5 DEF AdbInv
  <2>2. CASE AdbFault
    <3>1. AdbTypeOK'
      BY <1>5, <2>2 DEF AdbShut
    <3>2. AdbTurn'
      BY <1>5, <2>2 DEF AdbShut
    <3>3. AdbUndisturbed'
      BY <1>5, <2>2 DEF AdbShut
    <3>4. AdbDone'
      BY <1>5, <2>2 DEF AdbShut
    <3>5. AdbKeyed'
      BY <1>5, <2>2 DEF AdbShut
    <3>6. QED
      BY <3>1, <3>2, <3>3, <3>4, <3>5 DEF AdbInv
  <2>3. QED
    BY <1>5, <2>1, <2>2 DEF AdbShut
<1>6. CASE AdbRecord
  BY <1>6, ZenonT(30) DEF AdbRecord
<1>7. CASE AdbdRestarts
  <2>1. AdbTypeOK'
    BY <1>7 DEF AdbdRestarts
  <2>2. AdbTurn'
    BY <1>7 DEF AdbdRestarts
  <2>3. AdbUndisturbed'
    BY <1>7 DEF AdbdRestarts
  <2>4. AdbDone'
    BY <1>7 DEF AdbdRestarts
  <2>5. AdbKeyed'
    BY <1>7 DEF AdbdRestarts
  <2>6. QED
    BY <2>1, <2>2, <2>3, <2>4, <2>5 DEF AdbInv
<1>8. CASE AdbRuleLost
  <2>1. AdbTypeOK'
    BY <1>8 DEF AdbRuleLost
  <2>2. AdbTurn'
    BY <1>8 DEF AdbRuleLost
  <2>3. AdbUndisturbed'
    BY <1>8 DEF AdbRuleLost
  <2>4. AdbDone'
    BY <1>8 DEF AdbRuleLost
  <2>5. AdbKeyed'
    BY <1>8 DEF AdbRuleLost
  <2>6. QED
    BY <2>1, <2>2, <2>3, <2>4, <2>5 DEF AdbInv
<1>9. CASE HoldADBOpen
  BY <1>9 DEF HoldADBOpen
<1>10. ASSUME NEW mode \in AdbModes, AdbObserved(mode) PROVE AdbInv'
  BY <1>10 DEF AdbObserved
<1>11. CASE UNCHANGED adbVars
  BY <1>11 DEF adbVars
<1>12. QED
  BY <1>1, <1>2, <1>3, <1>4, <1>5, <1>6, <1>7, <1>8, <1>9, <1>10, <1>11 DEF AdbNext

(* A turn without a fault sets what was asked, and one fault at most is     *)
(* made good.                                                               *)
THEOREM AdbInductive == AdbSpec => []AdbInv
  BY AdbInitInv, AdbStepInv, PTL DEF AdbSpec

(* The last ask is the mode network adb ends in, for any number of asks and *)
(* readings; and no single fault leaves an ask for a key open without.      *)
THEOREM AdbStands == AdbSpec => []AdbEndsAsAsked
<1>1. AdbInv => AdbEndsAsAsked
  BY AdbAssumption DEF AdbInv, AdbTypeOK, AdbTurn, AdbDone, AdbKeyed, AdbStable, AdbClosed, AdbModes,
     AdbMode, AdbEndsAsAsked
<1>2. QED
  BY <1>1, AdbInductive, PTL

----------------------------------------------------------------------------
(* Volume and mute.  What waits, applied to a level.                        *)
AfterWaiting(from) ==
    IF volHasPending THEN (IF volWant.absolute THEN volWant.base ELSE from) + volWant.steps
    ELSE from

(* What the asks add up to is what the worker will have come to.            *)
VolTurn ==
    /\ volWorking <=> volAt # "idle"
    /\ volHasPending => volWorking
    /\ volWant.steps \in volLeft.asks - VolAsks .. VolAsks - volLeft.asks
    /\ ~volOff =>
           /\ volAt \in {"idle", "take"} => AfterWaiting(level) = volDue
           /\ volAt = "read" => AfterWaiting(Target) = volDue
           /\ volAt = "set" => AfterWaiting(volTarget) = volDue

MuteTurn ==
    /\ muteHasPending => muteAt # "idle"
    /\ ~muteHasPending =>
           IF muteAt = "set" THEN muteJob = muteWant ELSE silenced = muteWant

VolInv == VolTypeOK /\ VolTurn /\ MuteTurn

LEMMA VolInitInv == VolInit => VolInv
<1> SUFFICES ASSUME VolInit PROVE VolInv
  OBVIOUS
<1>1. volLeft \in [asks : 0 .. VolAsks, faults : 0 .. VolFaults] /\ volLeft.asks = VolAsks
  BY MediaAssumption, Unspent DEF VolInit
<1>2. Nothing \in Wants /\ Nothing.steps = 0
  BY MediaAssumption DEF Nothing, Wants, Levels
<1>3. VolTypeOK
  <2>1. {volWant, volJob} \subseteq Wants
    BY <1>2 DEF VolInit
  <2>2. volDue \in Int /\ volTarget \in Levels
    BY MediaAssumption DEF VolInit, Levels
  <2>3. QED
    BY <1>1, <2>1, <2>2 DEF VolInit, VolTypeOK
<1>4. VolTurn /\ MuteTurn
  <2>1. volWant.steps = 0 /\ volLeft.asks = VolAsks
    BY <1>1, <1>2 DEF VolInit
  <2>2. VolTurn
    BY <2>1, MediaAssumption DEF VolInit, VolTurn, AfterWaiting
  <2>3. QED
    BY <2>2 DEF VolInit, MuteTurn
<1>5. QED
  BY <1>3, <1>4 DEF VolInv

(* What a step does to the budgets.                                         *)
LEMMA VolBudgets ==
  ASSUME VolTypeOK
  PROVE  /\ volLeft.asks \in 0 .. VolAsks
         /\ VolAsk => /\ volLeft' \in [asks : 0 .. VolAsks, faults : 0 .. VolFaults]
                      /\ volLeft.asks > 0 /\ volLeft'.asks = volLeft.asks - 1
         /\ VolFault => /\ volLeft' \in [asks : 0 .. VolAsks, faults : 0 .. VolFaults]
                        /\ volLeft'.asks = volLeft.asks
                        /\ volOff'
  BY Budgeted, MediaAssumption DEF VolTypeOK, VolAsk, VolFault

(* A want that joins one that waits stays within what asks can add up to.   *)
LEMMA JoinedFits ==
  ASSUME VolInv, NEW want \in [absolute : BOOLEAN, base : Levels, steps : {-1, 0, 1}],
         want.absolute => want.steps = 0, volLeft.asks > 0
  PROVE  /\ Joined(want) \in Wants
         /\ Joined(want).steps \in volLeft.asks - 1 - VolAsks .. VolAsks - (volLeft.asks - 1)
         /\ Joined(want).absolute <=> want.absolute \/ (volHasPending /\ volWant.absolute)
         /\ Joined(want).base = IF volHasPending /\ ~want.absolute THEN volWant.base ELSE want.base
         /\ Joined(want).steps = want.steps + IF volHasPending /\ ~want.absolute THEN volWant.steps ELSE 0
<1>1. volLeft.asks \in 0 .. VolAsks
  BY VolBudgets DEF VolInv
<1>2. volWant \in Wants /\ volWant.steps \in volLeft.asks - VolAsks .. VolAsks - volLeft.asks
  BY DEF VolInv, VolTypeOK, VolTurn
<1>3. CASE volHasPending /\ ~want.absolute
  BY <1>1, <1>2, <1>3, MediaAssumption DEF Joined, Wants
<1>4. CASE ~(volHasPending /\ ~want.absolute)
  BY <1>1, <1>2, <1>4, MediaAssumption DEF Joined, Wants
<1>5. QED
  BY <1>3, <1>4

LEMMA QueueKeepsVol ==
  ASSUME VolInv, NEW want \in [absolute : BOOLEAN, base : Levels, steps : {-1, 0, 1}],
         want.absolute => want.steps = 0, QueueVolume(want)
  PROVE  VolInv'
<1>1. /\ volLeft.asks \in 0 .. VolAsks
      /\ volLeft' \in [asks : 0 .. VolAsks, faults : 0 .. VolFaults]
      /\ volLeft.asks > 0 /\ volLeft'.asks = volLeft.asks - 1
  BY VolBudgets DEF VolInv, QueueVolume
<1>2. VolTypeOK'
  BY <1>1, JoinedFits, MediaAssumption DEF VolInv, VolTypeOK, Levels, QueueVolume, muteVars
<1>3. VolTurn'
  BY <1>1, JoinedFits, MediaAssumption DEF VolInv, VolTypeOK, VolTurn, AfterWaiting, Wants, Levels, QueueVolume,
     Target, muteVars
<1>4. MuteTurn'
  BY DEF VolInv, MuteTurn, QueueVolume, muteVars
<1>5. QED
  BY <1>2, <1>3, <1>4 DEF VolInv

LEMMA VolStepInv == VolInv /\ [VolNext]_volVars => VolInv'
<1> SUFFICES ASSUME VolInv, [VolNext]_volVars PROVE VolInv'
  OBVIOUS
<1>1. ASSUME NEW base \in Levels, SetLevel(base) PROVE VolInv'
  BY <1>1, QueueKeepsVol DEF SetLevel
<1>2. ASSUME NEW steps \in {-1, 1}, StepLevel(steps) PROVE VolInv'
  <2>1. 0 \in Levels
    BY MediaAssumption DEF Levels
  <2> DEFINE want == [absolute |-> FALSE, base |-> 0, steps |-> steps]
  <2>2. want \in [absolute : BOOLEAN, base : Levels, steps : {-1, 0, 1}] /\ ~want.absolute
    BY <2>1
  <2>3. QueueVolume(want)
    BY <1>2 DEF StepLevel
  <2> HIDE DEF want
  <2>4. QED
    BY <2>2, <2>3, QueueKeepsVol
<1>f. ASSUME NEW want \in Wants
      PROVE  want.absolute \in BOOLEAN /\ want.base \in 0 .. VolMax /\ want.steps \in Int
  BY DEF Wants, Levels
<1> USE VolBudgets, MediaAssumption DEF VolInv, VolTypeOK, VolTurn, MuteTurn, AfterWaiting, Levels, muteVars, Target
<1>3. CASE VolTake
  <2>1. UNCHANGED <<volOff, volLeft, level, volWant, muteVars, volDue>> /\ volHasPending' = FALSE /\ volTarget' = 0
    BY <1>3 DEF VolTake
  <2>2. /\ volJob' \in Wants
        /\ volWorking' \in BOOLEAN
        /\ volAt' \in {"read", "idle"}
    <3>1. Nothing \in Wants
      BY DEF Nothing, Wants
    <3>2. QED
      BY <1>3, <3>1 DEF VolTake
  <2>3. VolTypeOK'
    <3>1. {volWant, volJob}' \subseteq Wants
      BY <2>1, <2>2
    <3>2. {volHasPending, volWorking, silenced, muteWant, muteHasPending, muteJob, volOff}' \subseteq BOOLEAN
      BY <2>1, <2>2
    <3>3. /\ (volTarget \in Levels)'
          /\ UNCHANGED <<volOff, volLeft, level, muteAt, volDue>>
      BY <2>1
    <3>4. QED
      BY <2>2, <3>1, <3>2, <3>3
  <2>4. MuteTurn'
    BY <2>1
  <2>5. VolTurn'
    <3>1. CASE volHasPending
      BY <1>3, <3>1 DEF VolTake
    <3>2. CASE ~volHasPending
      BY <1>3, <3>2 DEF VolTake
    <3>3. QED
      BY <3>1, <3>2
  <2>6. QED
    BY <2>3, <2>4, <2>5
<1>4. CASE VolRead
  <2>1. CASE UNCHANGED volLeft
    <3>1. Target \in Int
      BY <1>f
    <3> HIDE DEF Target
    <3>2. volTarget' = Clamped(Target) /\ Clamped(Target) \in 0 .. VolMax
      BY <1>4, <2>1, <3>1 DEF VolRead, Clamped, VolFault
    <3>3. VolTypeOK' /\ MuteTurn'
      BY <1>4, <2>1, <3>2 DEF VolRead
    <3>4. VolTurn'
      <4>1. ~volOff' => ~volOff /\ volTarget' = Target
        BY <1>4, <2>1, <3>1 DEF VolRead
      <4>2. QED
        BY <1>4, <2>1, <3>1, <3>2, <4>1 DEF VolRead
    <3>5. QED
      BY <3>3, <3>4
  <2>2. CASE VolFault /\ UNCHANGED volTarget
    BY <1>4, <1>f, <2>2 DEF VolRead
  <2>3. QED
    BY <1>4, <2>1, <2>2 DEF VolRead
<1>5. CASE VolSet
  <2>1. CASE VolFault
    BY <1>5, <2>1 DEF VolSet
  <2>2. CASE level' = volTarget /\ UNCHANGED <<volOff, volLeft>>
    BY <1>5, <2>2 DEF VolSet
  <2>3. QED
    BY <1>5, <2>1, <2>2 DEF VolSet
<1>6. CASE VolKey
  BY <1>6 DEF VolKey
<1>7. ASSUME NEW on \in BOOLEAN, QueueMute(on) PROVE VolInv'
  BY <1>7 DEF QueueMute
<1>8. CASE MuteTake
  BY <1>8 DEF MuteTake
<1>9. CASE MuteSet
  BY <1>9 DEF MuteSet
<1>10. CASE UNCHANGED volVars
  BY <1>10 DEF volVars
<1>11. QED
  BY <1>1, <1>2, <1>3, <1>4, <1>5, <1>6, <1>7, <1>8, <1>9, <1>10 DEF VolNext

(* What waits and what is under way add up to what was asked.               *)
THEOREM VolInductive == VolSpec => []VolInv
  BY VolInitInv, VolStepInv, PTL DEF VolSpec

(* No step is lost or taken twice, for any scale and any number of asks.    *)
THEOREM VolumeStands == VolSpec => []VolumeAddsUp
<1>1. VolInv => VolumeAddsUp
  BY DEF VolInv, VolTypeOK, VolTurn, MuteTurn, AfterWaiting, VolumeAddsUp
<1>2. QED
  BY <1>1, VolInductive, PTL

-----------------------------------------------------------------------------
(* The server as a whole.                                                   *)

(* Steps of the workers, the device and the polls that touch neither.       *)
Aside ==
    \/ MicStep \/ AdbStep \/ VolStep \/ PlayStep \/ SoundStep
    \/ LiveLook \/ LiveReadSound \/ LiveReadRest \/ LiveObserve \/ LiveTick \/ LiveWoken
    \/ SensorBusy \/ SensorHold \/ SensorRead \/ SensorObserve \/ SensorTick \/ SensorWoken

LEMMA AsideLeaves == Aside => UNCHANGED <<connVars, cmdVars>>
<1> USE DEF facilityVars
<1>1. MicStep \/ AdbStep \/ VolStep \/ PlayStep \/ SoundStep => UNCHANGED <<connVars, cmdVars>>
  BY DEF MicStep, AdbStep, VolStep, PlayStep, SoundStep
<1>2. LiveLook \/ LiveReadSound \/ LiveReadRest \/ LiveObserve \/ LiveTick \/ LiveWoken
        => UNCHANGED <<connVars, cmdVars>>
  BY DEF LiveLook, LiveReadSound, LiveReadRest, LiveObserve, LiveTick, LiveWoken
<1>3. SensorBusy \/ SensorHold \/ SensorRead \/ SensorObserve \/ SensorTick \/ SensorWoken
        => UNCHANGED <<connVars, cmdVars>>
  BY DEF SensorBusy, SensorHold, SensorRead, SensorObserve, SensorTick, SensorWoken
<1>4. QED
  BY <1>1, <1>2, <1>3 DEF Aside

(* The polls that publish or forget.                                        *)
Tells == LivePublish \/ SensorPublish \/ LiveForget

LEMMA NextParts ==
  Next => \/ Aside \/ Tells \/ Pressed \/ CmdStep \/ FoundPlayer \/ FoundCommand
          \/ \E c \in Conns : ClientStep(c) \/ ClientSubscribes(c) \/ Asks(c)
  BY DEF Next, Polls, Aside, Tells, LiveWork, SensorWork

----------------------------------------------------------------------------
LEMMA ServerKeepsConns == ConnInv /\ [Next]_vars => ConnInv'
<1> SUFFICES ASSUME ConnInv, [Next]_vars PROVE ConnInv'
  OBVIOUS
<1>1. CASE Aside \/ UNCHANGED vars
  BY <1>1, AsideLeaves, QueueKeeps DEF vars, connVars
<1>2. CASE Tells
  BY <1>2, PublishKeeps, ForgetKeeps DEF Tells, LivePublish, SensorPublish, LiveForget, PublishRead
<1>3. CASE Pressed
  BY <1>3, FirePressKeeps DEF Pressed
<1>4. CASE CmdStep
  <2>1. UNCHANGED connVars \/ \E read : PublishRead(read)
    BY <1>4 DEF CmdStep
  <2>2. QED
    BY <2>1, PublishKeeps, QueueKeeps DEF PublishRead, connVars
<1>5. CASE FoundPlayer \/ FoundCommand
  BY <1>5, RelistKeeps DEF FoundPlayer, FoundCommand, Relist
<1>6. ASSUME NEW c \in Conns, ClientStep(c) \/ ClientSubscribes(c) \/ Asks(c) PROVE ConnInv'
  <2>1. ConnStep(c) \/ SubscribeStates(c) \/ Command(c)
    BY <1>6 DEF ClientStep, Connect, Lost, ConnStep, ClientSubscribes, Asks
  <2>2. QED
    BY <2>1, ConnStepKeeps, SubscribeKeeps, CommandConnKeeps
<1>7. QED
  BY <1>1, <1>2, <1>3, <1>4, <1>5, <1>6, NextParts

LEMMA ServerStepsQueue == [Next]_vars => [CmdNext]_cmdVars
<1> SUFFICES ASSUME [Next]_vars PROVE [CmdNext]_cmdVars
  OBVIOUS
<1>1. CASE Aside \/ UNCHANGED vars
  BY <1>1, AsideLeaves DEF vars, facilityVars
<1>2. CASE Tells \/ Pressed \/ FoundPlayer
  BY <1>2 DEF Tells, LivePublish, SensorPublish, LiveForget, Pressed, FoundPlayer, facilityVars
<1>3. CASE CmdStep
  BY <1>3 DEF CmdStep, CmdNext, CmdWork
<1>4. CASE FoundCommand
  BY <1>4 DEF FoundCommand, CmdNext
<1>5. CASE \E c \in Conns : ClientStep(c) \/ ClientSubscribes(c) \/ Asks(c)
  BY <1>5 DEF ClientStep, ClientSubscribes, Asks, CmdNext, facilityVars
<1>6. QED
  BY <1>1, <1>2, <1>3, <1>4, <1>5, NextParts

----------------------------------------------------------------------------
(* The microphone, network adb and the levels: a step of the server is a    *)
(* step of each or leaves it.  Who asks is a connection; who looks, a poll. *)
PollsAside ==
    \/ LiveLook \/ LiveForget \/ LiveReadSound \/ LiveReadRest \/ LivePublish \/ LiveTick \/ LiveWoken
    \/ SensorBusy \/ SensorRead \/ SensorPublish \/ SensorTick \/ SensorWoken

LEMMA PollsLeave ==
  /\ PollsAside => UNCHANGED <<micVars, adbVars, volVars>>
  /\ LiveObserve => UNCHANGED <<adbVars, volVars>>
  /\ SensorHold \/ SensorObserve => UNCHANGED <<micVars, volVars>>
<1> USE DEF facilityVars
<1>1. LiveLook \/ LiveForget \/ LiveReadSound \/ LiveReadRest => UNCHANGED <<micVars, adbVars, volVars>>
  BY DEF LiveLook, LiveForget, LiveReadSound, LiveReadRest
<1>2. LivePublish \/ LiveTick \/ LiveWoken => UNCHANGED <<micVars, adbVars, volVars>>
  BY DEF LivePublish, LiveTick, LiveWoken
<1>3. LiveObserve => UNCHANGED <<adbVars, volVars>>
  BY DEF LiveObserve
<1>4. SensorBusy \/ SensorRead \/ SensorPublish \/ SensorTick \/ SensorWoken
        => UNCHANGED <<micVars, adbVars, volVars>>
  BY DEF SensorBusy, SensorRead, SensorPublish, SensorTick, SensorWoken
<1>5. SensorHold \/ SensorObserve => UNCHANGED <<micVars, volVars>>
  BY DEF SensorHold, SensorObserve
<1>6. QED
  BY <1>1, <1>2, <1>3, <1>4, <1>5, Zenon DEF PollsAside

(* Steps of everything else.                                                *)
Elsewhere ==
    \/ PlayStep \/ SoundStep \/ CmdStep \/ FoundPlayer \/ FoundCommand \/ Pressed \/ UNCHANGED vars
    \/ \E c \in Conns : ClientStep(c) \/ ClientSubscribes(c)

LEMMA RestLeave ==
  /\ Elsewhere => UNCHANGED <<micVars, adbVars, volVars>>
  /\ MicStep => UNCHANGED <<adbVars, volVars>>
  /\ AdbStep => UNCHANGED <<micVars, volVars>>
  /\ VolStep => UNCHANGED <<micVars, adbVars>>
<1> USE DEF facilityVars
<1>1. PlayStep \/ SoundStep \/ CmdStep => UNCHANGED <<micVars, adbVars, volVars>>
  BY DEF PlayStep, SoundStep, CmdStep
<1>2. FoundPlayer \/ FoundCommand \/ Pressed \/ UNCHANGED vars => UNCHANGED <<micVars, adbVars, volVars>>
  BY DEF FoundPlayer, FoundCommand, Pressed, vars
<1>3. (\E c \in Conns : ClientStep(c) \/ ClientSubscribes(c)) => UNCHANGED <<micVars, adbVars, volVars>>
  BY DEF ClientStep, ClientSubscribes
<1>4. MicStep => UNCHANGED <<adbVars, volVars>>
  BY DEF MicStep
<1>5. AdbStep => UNCHANGED <<micVars, volVars>>
  BY DEF AdbStep
<1>6. VolStep => UNCHANGED <<micVars, adbVars>>
  BY DEF VolStep
<1>7. QED
  BY <1>1, <1>2, <1>3, <1>4, <1>5, <1>6, Zenon DEF Elsewhere

LEMMA AskParts ==
  ASSUME NEW c \in Conns, Asks(c)
  PROVE  /\ UNCHANGED micVars \/ \E want \in BOOLEAN : SetMicLocked(want)
         /\ UNCHANGED adbVars \/ \E want \in AdbModes : SetADBLocked(want)
         /\ \/ UNCHANGED volVars
            \/ \E base \in Levels : SetLevel(base)
            \/ \E steps \in {-1, 1} : StepLevel(steps)
            \/ \E on \in BOOLEAN : QueueMute(on)
  BY DEF Asks

LEMMA StepParts ==
  ASSUME [Next]_vars
  PROVE  \/ MicStep \/ AdbStep \/ VolStep \/ LiveObserve \/ SensorHold \/ SensorObserve
         \/ PollsAside \/ Elsewhere \/ \E c \in Conns : Asks(c)
  BY DEF Next, Polls, LiveWork, SensorWork, PollsAside, Elsewhere

LEMMA ServerStepsSwitches == [Next]_vars => [MicNext]_micVars /\ [AdbNext]_adbVars /\ [VolNext]_volVars
<1> SUFFICES ASSUME [Next]_vars PROVE [MicNext]_micVars /\ [AdbNext]_adbVars /\ [VolNext]_volVars
  OBVIOUS
<1>1. CASE MicStep
  <2>1. MicNext
    BY <1>1 DEF MicStep, MicWork, MicNext
  <2>2. QED
    BY <1>1, <2>1, RestLeave
<1>2. CASE AdbStep
  <2>1. AdbNext
    BY <1>2 DEF AdbStep, AdbWork, AdbNext
  <2>2. QED
    BY <1>2, <2>1, RestLeave
<1>3. CASE VolStep
  <2>1. VolNext
    BY <1>3 DEF VolStep, VolWork, MuteWork, VolNext
  <2>2. QED
    BY <1>3, <2>1, RestLeave
<1>4. ASSUME NEW c \in Conns, Asks(c) PROVE [MicNext]_micVars /\ [AdbNext]_adbVars /\ [VolNext]_volVars
  BY <1>4, AskParts DEF MicNext, AdbNext, VolNext
<1>5. CASE LiveObserve
  <2>1. [MicNext]_micVars
    <3>1. (liveRead = 1) \in BOOLEAN
      OBVIOUS
    <3>2. MicObserved(liveRead = 1) \/ UNCHANGED micVars
      BY <1>5 DEF LiveObserve
    <3>3. QED
      BY <3>1, <3>2 DEF MicNext
  <2>2. QED
    BY <1>5, <2>1, PollsLeave
<1>6. CASE SensorHold \/ SensorObserve
  <2>1. AdbNext
    BY <1>6 DEF SensorHold, SensorObserve, AdbNext
  <2>2. QED
    BY <1>6, <2>1, PollsLeave
<1>7. CASE PollsAside
  BY <1>7, PollsLeave
<1>8. CASE Elsewhere
  BY <1>8, RestLeave
<1>9. QED
  BY <1>1, <1>2, <1>3, <1>4, <1>5, <1>6, <1>7, <1>8, StepParts

----------------------------------------------------------------------------
(* The server's use of the command queue is the queue's own specification,  *)
(* so its order holds of the server.                                        *)
THEOREM ServerRunsInOrder == Spec => CmdSpec /\ []CommandsInOrder
<1>1. Init => CmdInit
  BY DEF Init
<1>2. QED
  BY <1>1, ServerStepsQueue, CommandsRunInOrder, PTL DEF Spec, CmdSpec

(* Whatever is published, by whichever poll or worker, and however many     *)
(* connections come and go: no send into a closed queue, and no subscriber  *)
(* left listed with an older reading than was published.                    *)
THEOREM ServerIsSafe == Spec => []NoSendAfterClose /\ []SubscribersAgree
<1>1. Init => ConnInv
  BY ConnInitInv DEF Init
<1>2. QED
  BY <1>1, ServerKeepsConns, ConnInvSafe, PTL DEF Spec

(* However asks, keys and polls fall into the workers' turns, and however   *)
(* many asks there are: the microphone, network adb and the levels end as   *)
(* the last of them has it.                                                 *)
THEOREM ServerLastAskStands == Spec => []LastAskStands
<1>1. Init => MicInit /\ AdbInit /\ VolInit
  BY DEF Init
<1>2. Spec => MicSpec /\ AdbSpec /\ VolSpec
  BY <1>1, ServerStepsSwitches, PTL DEF Spec, MicSpec, AdbSpec, VolSpec
<1>3. MicEndsAsAsked /\ AdbEndsAsAsked /\ VolumeAddsUp => LastAskStands
  BY DEF LastAskStands
<1>4. QED
  BY <1>2, <1>3, MicStands, AdbStands, VolumeStands, PTL
----------------------------------------------------------------------------
(* Types of the connections.                                                *)
LEMMA FewReadings ==
  /\ Cardinality(Told) \in Nat
  /\ \A read : Cardinality(Changed([k \in {Key} |-> read])) \in Nat
<1>1. IsFiniteSet(Told)
  BY ConnectionsAssumption, FS_Subset DEF Told
<1>2. ASSUME NEW read PROVE IsFiniteSet(Changed([k \in {Key} |-> read]))
  BY FS_Singleton, FS_Subset DEF Changed
<1>3. QED
  BY <1>1, <1>2, FS_CardinalityType

LEMMA Fill ==
  ASSUME ConnTypeOK, NEW c \in Conns, NEW n \in Nat
  PROVE  Filled(c, n) \in 0 .. SendQueue
<1>1. queued[c] \in 0 .. SendQueue /\ SendQueue \in Nat \ {0}
  BY ConnectionsAssumption DEF ConnTypeOK
<1>2. QED
  BY <1>1 DEF Filled, Fits

LEMMA FreshTyped ==
  ASSUME ConnTypeOK, NEW c \in Conns, conns' \subseteq conns, Fresh(c), UNCHANGED published
  PROVE  ConnTypeOK'
<1>1. NothingTold \in [Keys -> Values \cup {None}]
  BY DEF NothingTold
<1>2. QED
  BY <1>1, ConnectionsAssumption DEF ConnTypeOK, Fresh, Phases

LEMMA AnswerTyped ==
  ASSUME ConnTypeOK, NEW c \in Conns, NEW n \in Nat, Answer(c, n)
  PROVE  ConnTypeOK'
<1>1. Filled(c, n) \in 0 .. SendQueue
  BY Fill
<1>2. QED
  BY <1>1 DEF ConnTypeOK, Answer, Handled, Phases

LEMMA ConnStepTyped == ASSUME ConnTypeOK, NEW c \in Conns, ConnStep(c) PROVE ConnTypeOK'
<1>1. Filled(c, 1) \in 0 .. SendQueue
  BY Fill
<1>2. CASE Accept(c)
  BY <1>2 DEF ConnTypeOK, Accept, Phases
<1>3. CASE HandshakeFails(c) \/ Ended(c)
  BY <1>3, FreshTyped DEF HandshakeFails, Ended
<1>4. CASE HandshakeDone(c)
  BY <1>4 DEF ConnTypeOK, HandshakeDone, Phases
<1>5. CASE Answer(c, 1) \/ ListEntities(c)
  BY <1>5, AnswerTyped, ConnectionsAssumption DEF ListEntities
<1>6. CASE Disconnect(c)
  BY <1>1, <1>6 DEF ConnTypeOK, Disconnect, Handled, Phases
<1>7. CASE SubscribeServices(c)
  BY <1>7 DEF ConnTypeOK, SubscribeServices, Handled, Phases
<1>8. CASE PingDue(c)
  BY <1>1, <1>8 DEF ConnTypeOK, PingDue, Fits, Phases
<1>9. CASE ReadFails(c) \/ Unlist(c) \/ CloseOut(c)
  BY <1>9 DEF ConnTypeOK, ReadFails, Unlist, CloseOut, Phases
<1>10. CASE WriteFrame(c)
  <2>1. queued[c] - 1 \in 0 .. SendQueue
    BY <1>10, ConnectionsAssumption DEF ConnTypeOK, WriteFrame
  <2>2. QED
    BY <1>10, <2>1 DEF ConnTypeOK, WriteFrame
<1>11. CASE WriteFails(c) \/ WriterEnds(c)
  BY <1>11 DEF ConnTypeOK, WriteFails, WriterEnds
<1>12. QED
  BY <1>2, <1>3, <1>4, <1>5, <1>6, <1>7, <1>8, <1>9, <1>10, <1>11 DEF ConnStep

LEMMA SubscribeTyped == ASSUME ConnTypeOK, NEW c \in Conns, SubscribeStates(c) PROVE ConnTypeOK'
<1>1. Filled(c, Cardinality(Told)) \in 0 .. SendQueue
  BY Fill, FewReadings
<1>2. told[c] \in [Keys -> Values \cup {None}] /\ published \in [Keys -> Values \cup {None}]
  BY DEF ConnTypeOK
<1>3. [k \in Keys |-> IF k \in Told THEN published[k] ELSE told[c][k]] \in [Keys -> Values \cup {None}]
  BY <1>2
<1>4. QED
  BY <1>1, <1>3 DEF ConnTypeOK, SubscribeStates, Handled, Phases

LEMMA PublishTyped == ASSUME ConnTypeOK, NEW read \in Values, PublishRead(read) PROVE ConnTypeOK'
<1> DEFINE readings == [k \in {Key} |-> read]
<1>1. Publish(readings)
  BY DEF PublishRead
<1>2. ASSUME NEW c \in Conns PROVE Filled(c, Cardinality(Changed(readings))) \in 0 .. SendQueue
  BY Fill, FewReadings
<1>3. queued' \in [Conns -> 0 .. SendQueue]
  BY <1>1, <1>2 DEF Publish, EachConn, ConnTypeOK
<1>4. published' \in [Keys -> Values \cup {None}]
  BY <1>1 DEF Publish, ConnTypeOK
<1>5. told' \in [Conns -> [Keys -> Values \cup {None}]]
  <2>1. ASSUME NEW c \in Conns
        PROVE  [k \in Keys |-> IF k \in Changed(readings) THEN readings[k] ELSE told[c][k]]
                   \in [Keys -> Values \cup {None}]
    BY DEF Changed, ConnTypeOK
  <2>2. QED
    BY <1>1, <2>1 DEF Publish, ConnTypeOK
<1>6. conns' \subseteq Conns /\ sock' \in [Conns -> BOOLEAN]
  BY <1>1 DEF Publish, EachConn, ConnTypeOK
<1>7. QED
  BY <1>1, <1>3, <1>4, <1>5, <1>6 DEF Publish, ConnTypeOK

LEMMA FirePressTyped == ConnTypeOK /\ FirePress => ConnTypeOK'
<1> SUFFICES ASSUME ConnTypeOK, FirePress PROVE ConnTypeOK'
  OBVIOUS
<1> DEFINE lost == Refusing(WantsStates, 1)
           n(c) == (IF c \in WantsStates THEN 1 ELSE 0) + (IF c \in WantsServices \ lost THEN 1 ELSE 0)
<1>1. ASSUME NEW c \in Conns PROVE Filled(c, n(c)) \in 0 .. SendQueue
  <2>1. n(c) \in Nat
    OBVIOUS
  <2>2. QED
    BY <2>1, Fill
<1>2. queued' = [c \in Conns |-> Filled(c, n(c))]
  BY DEF FirePress
<1>3. queued' \in [Conns -> 0 .. SendQueue]
  BY <1>1, <1>2
<1>4. conns' \subseteq conns /\ sock' \in [Conns -> BOOLEAN]
  BY DEF FirePress, ConnTypeOK
<1>5. UNCHANGED <<phase, shut, writer, states, services, pinged, told, published>>
  BY DEF FirePress
<1>6. QED
  BY <1>3, <1>4, <1>5 DEF ConnTypeOK

LEMMA RelistTyped ==
  ASSUME ConnTypeOK, NEW seeded \in [Keys -> Values \cup {None}], RelistWith(seeded)
  PROVE  ConnTypeOK'
  BY DEF ConnTypeOK, RelistWith

LEMMA ForgetTyped == ASSUME ConnTypeOK, NEW k, Forget(k) PROVE ConnTypeOK'
  BY DEF ConnTypeOK, Forget

LEMMA CommandTyped == ASSUME ConnTypeOK, NEW c \in Conns, Command(c) PROVE ConnTypeOK'
  BY DEF ConnTypeOK, Command, Handled, Phases
----------------------------------------------------------------------------
PlayFlags ==
    /\ playReady \in BOOLEAN /\ playHasPending \in BOOLEAN /\ playing \in BOOLEAN
    /\ expecting \in BOOLEAN /\ speaking \in BOOLEAN /\ crossed \in BOOLEAN
    /\ playAt \in {"idle", "take", "speak", "handed", "extend", "cancel", "failed"}
    /\ due \in {"start", "clip"}
    /\ lineAt \in {"read", "start", "end"} /\ sweepAt \in {"wait", "end"}

LogTyped == logLines \in Seq({"started", "ended"})

(* The clips that Alexa has were handed to her or were her own, and each    *)
(* was counted when it was asked for: so she never has more than there are. *)
ClipsUnderWay == (IF playHasPending THEN 1 ELSE 0) + (IF playAt = "speak" THEN 1 ELSE 0)

ClipsCounted ==
    /\ handed \in 0 .. Clips
    /\ clipsLeft \in [clips : 0 .. Clips, faults : 0 .. ClipFaults]
    /\ handed + ClipsUnderWay + clipsLeft.clips <= Clips

LEMMA PlayInitTyped == PlayInit => PlayFlags /\ LogTyped /\ ClipsCounted
<1> SUFFICES ASSUME PlayInit PROVE PlayFlags /\ LogTyped /\ ClipsCounted
  OBVIOUS
<1>1. PlayFlags /\ LogTyped
  <2>1. <<>> \in Seq({"started", "ended"})
    OBVIOUS
  <2>2. QED
    BY <2>1 DEF PlayInit, PlayFlags, LogTyped
<1>2. clipsLeft.clips = Clips /\ ClipsUnderWay = 0 /\ handed = 0
  BY DEF PlayInit, ClipsUnderWay
<1>3. clipsLeft \in [clips : 0 .. Clips, faults : 0 .. ClipFaults]
  BY PlaybackAssumption DEF PlayInit
<1>4. QED
  BY <1>1, <1>2, <1>3, PlaybackAssumption DEF ClipsCounted

PlayNext == PlayLocked \/ UsePlay \/ PlayWork \/ Watch \/ Alexa \/ AlexaSpeaks \/ LineLost

LEMMA PlayFlagsStep == PlayFlags /\ [PlayNext]_playVars => PlayFlags'
<1> SUFFICES ASSUME PlayFlags, [PlayNext]_playVars PROVE PlayFlags'
  OBVIOUS
<1> USE DEF PlayFlags, workerVars, watcherVars, alexaVars
<1>1. CASE UsePlay \/ PlayLocked
  <2>1. CASE UsePlay
    BY <2>1 DEF UsePlay
  <2>2. CASE PlayLocked
    BY <2>2 DEF PlayLocked
  <2>3. QED
    BY <1>1, <2>1, <2>2
<1>2. CASE PlayTake
  BY <1>2 DEF PlayTake
<1>3. CASE Speak
  BY <1>3 DEF Speak
<1>4. CASE Extend \/ PlayFailed
  BY <1>4 DEF Extend, PlayFailed
<1>5. CASE Cancel
  BY <1>5 DEF Cancel
<1>6. CASE AlexaSpeaks \/ LineLost \/ AlexaStarts \/ AlexaEnds
  <2>1. /\ speaking' \in BOOLEAN
        /\ UNCHANGED <<playing, watcherVars, crossed, workerVars>>
    BY <1>6 DEF AlexaSpeaks, LineLost, AlexaStarts, AlexaEnds
  <2>2. QED
    BY <2>1
<1>7. CASE ReadLine
  BY <1>7 DEF ReadLine
<1>8. CASE ReportLine
  BY <1>8 DEF ReportLine
<1>9. CASE Expire
  BY <1>9 DEF Expire
<1>10. CASE ReportExpired
  BY <1>10 DEF ReportExpired
<1>11. CASE UNCHANGED playVars
  BY <1>11 DEF playVars
<1>12. QED
  BY <1>1, <1>2, <1>3, <1>4, <1>5, <1>6, <1>7, <1>8, <1>9, <1>10, <1>11
     DEF PlayNext, PlayWork, Watch, Alexa

LEMMA LogStep == LogTyped /\ [PlayNext]_playVars => LogTyped'
<1> SUFFICES ASSUME LogTyped, [PlayNext]_playVars PROVE LogTyped'
  OBVIOUS
<1>1. CASE UNCHANGED logLines
  BY <1>1 DEF LogTyped
<1>2. CASE AlexaStarts \/ AlexaEnds
  <2>1. logLines' \in {Append(logLines, "started"), Append(logLines, "ended")}
    BY <1>2 DEF AlexaStarts, AlexaEnds
  <2>2. QED
    BY <2>1 DEF LogTyped
<1>3. CASE LineLost \/ ReadLine
  <2>1. logLines # <<>> /\ logLines' = Tail(logLines)
    BY <1>3 DEF LineLost, ReadLine
  <2>2. QED
    BY <2>1 DEF LogTyped
<1>4. UNCHANGED logLines \/ AlexaStarts \/ AlexaEnds \/ LineLost \/ ReadLine
  BY DEF PlayNext, PlayWork, Watch, Alexa, playVars, alexaVars, PlayLocked, UsePlay, PlayTake, Speak,
     Extend, Cancel, PlayFailed, AlexaSpeaks, ReportLine, Expire, ReportExpired
<1>5. QED
  BY <1>1, <1>2, <1>3, <1>4

LEMMA ClipSpent ==
  ASSUME ClipsCounted
  PROVE  /\ Clip => /\ clipsLeft' \in [clips : 0 .. Clips, faults : 0 .. ClipFaults]
                    /\ clipsLeft'.clips = clipsLeft.clips - 1
         /\ ClipFault => /\ clipsLeft' \in [clips : 0 .. Clips, faults : 0 .. ClipFaults]
                         /\ clipsLeft'.clips = clipsLeft.clips
  BY PlaybackAssumption DEF ClipsCounted, Clip, ClipFault

LEMMA ClipsStep == PlayFlags /\ ClipsCounted /\ [PlayNext]_playVars => ClipsCounted'
<1> SUFFICES ASSUME PlayFlags, ClipsCounted, [PlayNext]_playVars PROVE ClipsCounted'
  OBVIOUS
<1> DEFINE left == clipsLeft.clips
<1>1. /\ handed \in 0 .. Clips /\ left \in 0 .. Clips /\ Clips \in Nat
      /\ handed + ClipsUnderWay + left <= Clips /\ ClipsUnderWay \in 0 .. 2
      /\ ClipsUnderWay' \in 0 .. 2
  BY PlaybackAssumption DEF ClipsCounted, ClipsUnderWay
<1>2. ASSUME handed' \in Nat, handed' + ClipsUnderWay' + left' <= Clips,
             UNCHANGED clipsLeft \/ Clip \/ ClipFault
      PROVE  ClipsCounted'
  <2>1. clipsLeft' \in [clips : 0 .. Clips, faults : 0 .. ClipFaults]
    BY <1>2, ClipSpent DEF ClipsCounted
  <2>2. left' \in 0 .. Clips
    BY <2>1
  <2>3. handed' <= Clips
    BY <1>1, <1>2, <2>2
  <2>4. QED
    BY <1>2, <2>1, <2>3 DEF ClipsCounted
<1>3. CASE PlayLocked
  <2>1. ClipsUnderWay' <= ClipsUnderWay + 1 /\ handed' = handed /\ Clip
    BY <1>3 DEF PlayLocked, ClipsUnderWay, PlayFlags, alexaVars
  <2>2. QED
    BY <1>1, <1>2, <2>1, ClipSpent
<1>4. CASE AlexaSpeaks
  <2>1. ClipsUnderWay' = ClipsUnderWay /\ handed' = handed + 1 /\ Clip
    BY <1>4 DEF AlexaSpeaks, ClipsUnderWay, workerVars
  <2>2. QED
    BY <1>1, <1>2, <2>1, ClipSpent
<1>5. CASE Speak
  <2>1. CASE playAt = "speak" /\ playAt' = "handed" /\ handed' = handed + 1 /\ UNCHANGED clipsLeft
    <3>1. ClipsUnderWay' = ClipsUnderWay - 1
      BY <1>5, <2>1 DEF Speak, ClipsUnderWay
    <3>2. QED
      BY <1>1, <1>2, <2>1, <3>1
  <2>2. CASE handed' = handed /\ playAt' # "speak" /\ (UNCHANGED clipsLeft \/ ClipFault)
    <3>1. ClipsUnderWay' <= ClipsUnderWay
      BY <1>5, <2>2 DEF Speak, ClipsUnderWay
    <3>2. QED
      BY <1>1, <1>2, <2>2, <3>1, ClipSpent
  <2>3. QED
    BY <1>5, <2>1, <2>2 DEF Speak
<1>6. CASE PlayTake \/ Extend \/ Cancel \/ PlayFailed \/ UsePlay
  <2>1. ClipsUnderWay' <= ClipsUnderWay
    BY <1>6 DEF PlayTake, Extend, Cancel, PlayFailed, UsePlay, ClipsUnderWay
  <2>2. UNCHANGED <<handed, clipsLeft>>
    BY <1>6 DEF PlayTake, Extend, Cancel, PlayFailed, UsePlay, alexaVars
  <2>3. QED
    BY <1>1, <1>2, <2>1, <2>2
<1>7. CASE AlexaStarts \/ AlexaEnds \/ LineLost \/ Watch \/ UNCHANGED playVars
  <2>1. ClipsUnderWay' = ClipsUnderWay
    BY <1>7 DEF AlexaStarts, AlexaEnds, LineLost, Watch, ReadLine, ReportLine, Expire,
       ReportExpired, playVars, workerVars, ClipsUnderWay
  <2>2. UNCHANGED clipsLeft \/ ClipFault
    BY <1>7 DEF AlexaStarts, AlexaEnds, LineLost, Watch, ReadLine, ReportLine, Expire,
       ReportExpired, playVars
  <2>3. handed' \in Nat /\ handed' <= handed
    BY <1>1, <1>7 DEF AlexaStarts, AlexaEnds, LineLost, Watch, ReadLine, ReportLine, Expire,
       ReportExpired, playVars, alexaVars
  <2>4. QED
    BY <1>1, <1>2, <2>1, <2>2, <2>3, ClipSpent
<1>8. QED
  BY <1>3, <1>4, <1>5, <1>6, <1>7 DEF PlayNext, PlayWork, Alexa

----------------------------------------------------------------------------
(* The sound.                                                               *)
SoundNext ==
    \/ SoundFlip \/ ForgetSound
    \/ \E ticks \in 1 .. SoundGap + 1 : ReadSound(ticks) \/ ReadNoSound(ticks)

SoundTyped ==
    /\ heard \in BOOLEAN /\ soundOn \in BOOLEAN /\ soundSeen \in BOOLEAN
    /\ soundSince \in 0 .. SoundOnDelay \cup {NoTime}
    /\ soundLastOn \in 0 .. SoundOffDelay \cup {NoTime}
    /\ soundLeft \in 0 .. SoundFlips

LEMMA AgedTyped ==
  ASSUME NEW most \in Nat, NEW time \in 0 .. most \cup {NoTime}, NEW ticks \in Nat
  PROVE  Aged(time, ticks, most) \in 0 .. most \cup {NoTime}
  BY SoundAssumption DEF Aged

LEMMA SoundStepTyped == SoundTyped /\ [SoundNext]_soundVars => SoundTyped'
<1> SUFFICES ASSUME SoundTyped, [SoundNext]_soundVars PROVE SoundTyped'
  OBVIOUS
<1> USE SoundAssumption DEF SoundTyped
<1>1. CASE SoundFlip \/ ForgetSound
  <2>1. soundLeft' \in 0 .. SoundFlips
    BY <1>1 DEF SoundFlip, ForgetSound
  <2>2. QED
    BY <1>1, <2>1 DEF SoundFlip, ForgetSound
<1>2. ASSUME NEW ticks \in 1 .. SoundGap + 1, ReadSound(ticks) PROVE SoundTyped'
  <2>1. /\ Aged(soundSince, ticks, SoundOnDelay) \in 0 .. SoundOnDelay \cup {NoTime}
        /\ Aged(soundLastOn, ticks, SoundOffDelay) \in 0 .. SoundOffDelay \cup {NoTime}
    BY AgedTyped
  <2>2. soundSince' \in 0 .. SoundOnDelay \cup {NoTime}
    BY <1>2, <2>1 DEF ReadSound
  <2>3. soundLastOn' \in 0 .. SoundOffDelay \cup {NoTime}
    BY <1>2, <2>1 DEF ReadSound
  <2>4. soundLeft' \in 0 .. SoundFlips
    BY <1>2 DEF ReadSound
  <2>5. soundOn' \in BOOLEAN /\ soundSeen' \in BOOLEAN /\ heard' \in BOOLEAN
    BY <1>2 DEF ReadSound
  <2>6. QED
    BY <2>2, <2>3, <2>4, <2>5
<1>3. ASSUME NEW ticks \in 1 .. SoundGap + 1, ReadNoSound(ticks) PROVE SoundTyped'
  <2>1. Aged(soundLastOn, ticks, SoundOffDelay) \in 0 .. SoundOffDelay \cup {NoTime}
    BY AgedTyped
  <2>2. QED
    BY <1>3, <2>1 DEF ReadNoSound
<1>4. CASE UNCHANGED soundVars
  BY <1>4 DEF soundVars
<1>5. QED
  BY <1>1, <1>2, <1>3, <1>4 DEF SoundNext

----------------------------------------------------------------------------
(* The polls.                                                               *)
PollsTyped ==
    /\ focus \in Foci
    /\ liveAt \in {"look", "forget", "read", "observe", "publish", "wait"}
    /\ liveWoken \in BOOLEAN /\ liveWatched \in BOOLEAN
    /\ liveWake \in BOOLEAN /\ sensorWake \in BOOLEAN
    /\ liveTicks \in 0 .. HeavyEvery - 1
    /\ liveRead \in Values \cup {None} /\ sensorRead \in Values \cup {None}
    /\ sensorAt \in {"busy", "hold", "read", "observe", "publish", "wait"}
    /\ liveAt \in {"observe", "publish"} => liveRead \in Values
    /\ sensorAt \in {"observe", "publish"} => sensorRead \in Values

LEMMA Readable ==
  /\ VolTypeOK => Real \in Values
  /\ 0 \in Values /\ 1 \in Values /\ Missing \in Values
<1>1. VolMax \in Nat \ {0} /\ 0 .. 4 * VolMax + 3 \subseteq Values
  BY MediaAssumption, ServerAssumption
<1>2. 0 .. 3 \subseteq Values
  BY <1>1
<1>3. ASSUME VolTypeOK PROVE 4 * level + 2 * Bit(silenced) + Bit(playing) \in Values
  <2>1. level \in 0 .. VolMax
    BY <1>3 DEF VolTypeOK, Levels
  <2>2. Bit(silenced) \in 0 .. 1 /\ Bit(playing) \in 0 .. 1
    BY DEF Bit
  <2>3. QED
    BY <1>1, <2>1, <2>2
<1>4. ADBMode(AdbMode) \in 0 .. 2 /\ Bit(heard) \in 0 .. 1 /\ Bit(muted) \in 0 .. 1
  BY DEF ADBMode, Bit
<1>5. QED
  BY <1>2, <1>3, <1>4 DEF Real, Missing

LEMMA NextTick ==
  ASSUME PollsTyped PROVE (liveTicks + 1) % HeavyEvery \in 0 .. HeavyEvery - 1
  BY ServerAssumption DEF PollsTyped

LEMMA LiveTyped ==
  ASSUME PollsTyped, VolTypeOK, LiveWork \/ LiveTick \/ LiveWoken PROVE PollsTyped'
<1> USE DEF PollsTyped, liveVars, sensorVars, wakes
<1>1. CASE LiveLook
  BY <1>1 DEF LiveLook, AnyStateSubscriber
<1>2. CASE LiveForget
  BY <1>2 DEF LiveForget
<1>3. CASE LiveReadSound
  BY <1>3, Readable DEF LiveReadSound, Bit
<1>4. CASE LiveReadRest
  BY <1>4, Readable, NextTick DEF LiveReadRest
<1>5. CASE LiveObserve
  BY <1>5 DEF LiveObserve
<1>6. CASE LivePublish
  BY <1>6, NextTick DEF LivePublish
<1>7. CASE LiveTick \/ LiveWoken
  BY <1>7 DEF LiveTick, LiveWoken
<1>8. QED
  BY <1>1, <1>2, <1>3, <1>4, <1>5, <1>6, <1>7 DEF LiveWork

LEMMA SensorTyped ==
  ASSUME PollsTyped, VolTypeOK, SensorWork \/ SensorTick \/ SensorWoken PROVE PollsTyped'
<1> USE DEF PollsTyped, liveVars, sensorVars, wakes
<1>1. CASE SensorBusy \/ SensorHold
  BY <1>1 DEF SensorBusy, SensorHold
<1>2. CASE SensorRead
  BY <1>2, Readable DEF SensorRead
<1>3. CASE SensorObserve
  BY <1>3 DEF SensorObserve
<1>4. CASE SensorPublish
  BY <1>4 DEF SensorPublish
<1>5. CASE SensorTick \/ SensorWoken
  BY <1>5 DEF SensorTick, SensorWoken
<1>6. QED
  BY <1>1, <1>2, <1>3, <1>4, <1>5 DEF SensorWork

(* Who is not a poll leaves them alone, but for the wakes.                  *)
LEMMA WokenTyped ==
  ASSUME PollsTyped, UNCHANGED <<focus, liveVars, sensorVars>>,
         liveWake' \in BOOLEAN, sensorWake' \in BOOLEAN
  PROVE  PollsTyped'
  BY DEF PollsTyped, liveVars, sensorVars

LEMMA PollsStep == PollsTyped /\ VolTypeOK /\ [Next]_vars => PollsTyped'
<1> SUFFICES ASSUME PollsTyped, VolTypeOK, [Next]_vars PROVE PollsTyped'
  OBVIOUS
<1>1. CASE Polls(LiveWork \/ LiveTick \/ LiveWoken, SensorWork \/ SensorTick \/ SensorWoken)
  BY <1>1, LiveTyped, SensorTyped DEF Polls
<1>2. CASE \E c \in Conns : ClientStep(c) \/ ClientSubscribes(c) \/ Asks(c)
  BY <1>2, WokenTyped DEF ClientStep, ClientSubscribes, Asks, pollVars, wakes, PollsTyped
<1>3. CASE MicStep \/ AdbStep \/ VolStep \/ PlayStep
  BY <1>3, WokenTyped DEF MicStep, AdbStep, VolStep, PlayStep, PollsTyped
<1>4. CASE Pressed \/ CmdStep \/ SoundStep \/ FoundPlayer \/ FoundCommand
  BY <1>4, WokenTyped DEF Pressed, CmdStep, SoundStep, FoundPlayer, FoundCommand, pollVars, wakes, PollsTyped
<1>5. CASE UNCHANGED vars
  BY <1>5, WokenTyped DEF vars, pollVars, wakes, PollsTyped
<1>6. QED
  BY <1>1, <1>2, <1>3, <1>4, <1>5 DEF Next
----------------------------------------------------------------------------
LEMMA ServerStepsPlay == [Next]_vars => [PlayNext]_playVars /\ [SoundNext]_soundVars
<1> SUFFICES ASSUME [Next]_vars PROVE [PlayNext]_playVars /\ [SoundNext]_soundVars
  OBVIOUS
<1> USE DEF facilityVars
<1>1. CASE PlayStep \/ FoundPlayer
  BY <1>1 DEF PlayStep, FoundPlayer, PlayNext
<1>2. CASE SoundStep
  BY <1>2 DEF SoundStep, SoundNext
<1>3. CASE LiveForget
  BY <1>3 DEF LiveForget, SoundNext
<1>4. CASE LiveReadSound
  BY <1>4 DEF LiveReadSound, SoundNext
<1>5. CASE LiveLook \/ LiveReadRest \/ LiveObserve \/ LivePublish \/ LiveTick \/ LiveWoken
  BY <1>5 DEF LiveLook, LiveReadRest, LiveObserve, LivePublish, LiveTick, LiveWoken
<1>6. CASE SensorWork \/ SensorTick \/ SensorWoken
  BY <1>6 DEF SensorWork, SensorBusy, SensorHold, SensorRead, SensorObserve, SensorPublish,
     SensorTick, SensorWoken
<1>7. CASE \E c \in Conns : ClientStep(c) \/ ClientSubscribes(c) \/ Asks(c)
  BY <1>7 DEF ClientStep, ClientSubscribes, Asks, PlayNext
<1>8. CASE Pressed \/ MicStep \/ AdbStep \/ VolStep \/ CmdStep \/ FoundCommand
  BY <1>8 DEF Pressed, MicStep, AdbStep, VolStep, CmdStep, FoundCommand
<1>9. CASE UNCHANGED vars
  BY <1>9 DEF vars
<1>10. QED
  BY <1>1, <1>2, <1>3, <1>4, <1>5, <1>6, <1>7, <1>8, <1>9 DEF Next, Polls, LiveWork

(* What is published is a reading: a poll publishes what it has read, and a *)
(* worker the text it runs.                                                 *)
LEMMA ServerConnsTyped == ConnTypeOK /\ PollsTyped /\ CmdTypeOK /\ [Next]_vars => ConnTypeOK'
<1> SUFFICES ASSUME ConnTypeOK, PollsTyped, CmdTypeOK, [Next]_vars PROVE ConnTypeOK'
  OBVIOUS
<1>1. CASE Aside \/ UNCHANGED vars
  <2>1. UNCHANGED connVars
    BY <1>1, AsideLeaves DEF vars
  <2>2. QED
    BY <2>1 DEF connVars, ConnTypeOK
<1>2. CASE LivePublish \/ SensorPublish
  BY <1>2, PublishTyped DEF LivePublish, SensorPublish, PollsTyped
<1>3. CASE LiveForget
  BY <1>3, ForgetTyped DEF LiveForget
<1>4. CASE Pressed
  BY <1>4, FirePressTyped DEF Pressed
<1>5. CASE CmdStep
  <2>1. PICK w \in Workers : UNCHANGED connVars \/ PublishRead(cmdText[w])
    BY <1>5 DEF CmdStep
  <2>2. cmdText[w] \in Values
    BY ServerAssumption DEF CmdTypeOK
  <2>3. QED
    BY <2>1, <2>2, PublishTyped DEF connVars, ConnTypeOK
<1>6. CASE FoundPlayer \/ FoundCommand
  <2>1. PICK seeded : /\ RelistWith(seeded)
                      /\ \/ seeded = published
                         \/ seeded = [published EXCEPT !["alexa_command"] = IF @ = None THEN Empty ELSE @]
    BY <1>6 DEF FoundPlayer, FoundCommand, Relist
  <2>2. published \in [Keys -> Values \cup {None}] /\ Empty \in Values
    BY CommandsAssumption, ServerAssumption DEF ConnTypeOK
  <2>3. seeded \in [Keys -> Values \cup {None}]
    BY <2>1, <2>2
  <2>4. QED
    BY <2>1, <2>3, RelistTyped
<1>7. ASSUME NEW c \in Conns, ClientStep(c) \/ ClientSubscribes(c) \/ Asks(c) PROVE ConnTypeOK'
  <2>1. ConnStep(c) \/ SubscribeStates(c) \/ Command(c)
    BY <1>7 DEF ClientStep, Connect, Lost, ConnStep, ClientSubscribes, Asks
  <2>2. QED
    BY <2>1, ConnStepTyped, SubscribeTyped, CommandTyped
<1>8. QED
  BY <1>1, <1>2, <1>3, <1>4, <1>5, <1>6, <1>7, NextParts DEF Tells

(* The types of the server, and what they need of each other.               *)
ServerTyped == ConnTypeOK /\ PollsTyped /\ PlayFlags /\ LogTyped /\ ClipsCounted /\ SoundTyped

LEMMA ServerInitTyped == Init => ServerTyped
<1> SUFFICES ASSUME Init PROVE ServerTyped
  OBVIOUS
<1>1. ConnTypeOK
  <2>1. ConnInit
    BY DEF Init
  <2>2. 0 \in 0 .. SendQueue
    BY ConnectionsAssumption
  <2>3. NothingTold \in [Keys -> Values \cup {None}]
    BY DEF NothingTold
  <2>4. QED
    BY <2>1, <2>2, <2>3 DEF ConnInit, ConnTypeOK, Phases
<1>2. PollsTyped
  <2>1. 0 \in 0 .. HeavyEvery - 1
    BY ServerAssumption
  <2>2. QED
    BY <2>1 DEF Init, PollsTyped
<1>3. SoundTyped
  <2>1. SoundInit
    BY DEF Init
  <2>2. SoundFlips \in 0 .. SoundFlips
    BY SoundAssumption
  <2>3. QED
    BY <2>1, <2>2 DEF SoundInit, SoundTyped
<1>4. QED
  BY <1>1, <1>2, <1>3, PlayInitTyped DEF Init, ServerTyped

(* The server keeps its types (src/internal/esphome/server.go and the       *)
(* facilities of serve.go): a connection's queue stays within sendQueue,    *)
(* what is published and told is a reading, a poll that publishes has read  *)
(* before, and no clip is handed over that nobody asked for.                *)
THEOREM ServerType == Spec => []TypeOK
<1>1. Init => MicInit /\ AdbInit /\ VolInit /\ CmdInit
  BY DEF Init
<1>2. Spec => []MicInv /\ []AdbInv /\ []VolInv /\ []CmdInv
  BY <1>1, ServerStepsSwitches, ServerStepsQueue, MicInductive, AdbInductive, VolInductive,
     CommandsInductive, PTL DEF Spec, MicSpec, AdbSpec, VolSpec, CmdSpec
<1>3. VolInv => VolTypeOK
  BY DEF VolInv
<1>4. CmdInv => CmdTypeOK
  BY DEF CmdInv
<1>5. ServerTyped /\ VolTypeOK /\ CmdTypeOK /\ [Next]_vars => ServerTyped'
  BY ServerConnsTyped, PollsStep, ServerStepsPlay, PlayFlagsStep, LogStep, ClipsStep,
     SoundStepTyped DEF ServerTyped
<1>6. ServerTyped /\ MicInv /\ AdbInv /\ VolInv /\ CmdInv => TypeOK
  BY DEF ServerTyped, PollsTyped, PlayFlags, LogTyped, ClipsCounted, SoundTyped, MicInv, AdbInv, VolInv, CmdInv,
     TypeOK, PlayTypeOK, SoundTypeOK
<1>7. QED
  BY <1>2, <1>3, <1>4, <1>5, <1>6, ServerInitTyped, PTL DEF Spec
=============================================================================
