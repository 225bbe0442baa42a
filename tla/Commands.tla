----------------------------- MODULE Commands ------------------------------
(***************************************************************************)
(* The Alexa commands of the ESPHome API (internal/esphome/media.go,        *)
(* UseCommand to commandWorker): a queue of at most CommandQueue texts and  *)
(* a worker that is started by whoever finds none.  A text is taken, shown  *)
(* in the command box and, unless it is empty, sent to Alexa.  Workers are  *)
(* slots for goroutines: that there is only ever one is the code's doing.   *)
(***************************************************************************)
EXTENDS Naturals, Sequences

CONSTANTS Texts,          \* what a command can say
          Empty,          \* the text that empties the box
          Workers,        \* slots for commandWorker goroutines
          CommandQueue,   \* commandQueue
          CmdAsks         \* bound: commands of a behaviour

ASSUME CommandsAssumption ==
    /\ Empty \in Texts
    /\ CommandQueue \in Nat \ {0}
    /\ CmdAsks \in Nat

VARIABLES cmdReady,       \* s.command is set
          cmdQueue,       \* s.cmdQueue
          cmdWorking,     \* s.cmdWorking
          cmdAt,          \* where each worker is
          cmdText,        \* the text each worker took
          cmdAccepted,    \* history: texts that were queued
          cmdRun,         \* history: texts a worker is through with
          cmdSent         \* history: the last text handed to Alexa

cmdVars == <<cmdReady, cmdQueue, cmdWorking, cmdAt, cmdText, cmdAccepted, cmdRun, cmdSent>>

CmdTypeOK ==
    /\ cmdReady \in BOOLEAN
    /\ cmdQueue \in Seq(Texts) /\ Len(cmdQueue) \in 0 .. CommandQueue
    /\ cmdWorking \in BOOLEAN
    /\ cmdAt \in [Workers -> {"idle", "take", "show", "send"}]
    /\ cmdText \in [Workers -> Texts]
    /\ cmdAccepted \in Seq(Texts)
    /\ cmdRun \in Seq(Texts)
    /\ cmdSent \in Texts

CmdInit ==
    /\ cmdReady = FALSE
    /\ cmdQueue = <<>>
    /\ cmdWorking = FALSE
    /\ cmdAt = [w \in Workers |-> "idle"]
    /\ cmdText = [w \in Workers |-> Empty]
    /\ cmdAccepted = <<>>
    /\ cmdRun = <<>>
    /\ cmdSent = Empty

----------------------------------------------------------------------------
(* UseCommand: a credential was found.                                      *)
UseCommand ==
    /\ ~cmdReady
    /\ cmdReady' = TRUE
    /\ UNCHANGED <<cmdQueue, cmdWorking, cmdAt, cmdText, cmdAccepted, cmdRun, cmdSent>>

Takes == cmdReady /\ Len(cmdQueue) < CommandQueue

CommandLocked(text) ==
    /\ Len(cmdAccepted) < CmdAsks
    /\ IF Takes
       THEN /\ cmdQueue' = Append(cmdQueue, text)
            /\ cmdAccepted' = Append(cmdAccepted, text)
            /\ cmdWorking' = TRUE
            /\ IF cmdWorking THEN UNCHANGED cmdAt
               ELSE \E w \in Workers : /\ cmdAt[w] = "idle"
                                       /\ cmdAt' = [cmdAt EXCEPT ![w] = "take"]
       ELSE UNCHANGED <<cmdQueue, cmdAccepted, cmdWorking, cmdAt>>
    /\ UNCHANGED <<cmdReady, cmdText, cmdRun, cmdSent>>

\* Slip: the worker that takes the last text says it is done already.
TakeLastCommand(w) ==
    /\ cmdAt[w] = "take"
    /\ IF cmdQueue = <<>>
       THEN /\ cmdWorking' = FALSE
            /\ cmdAt' = [cmdAt EXCEPT ![w] = "idle"]
            /\ UNCHANGED <<cmdQueue, cmdText>>
       ELSE /\ cmdText' = [cmdText EXCEPT ![w] = Head(cmdQueue)]
            /\ cmdQueue' = Tail(cmdQueue)
            /\ cmdAt' = [cmdAt EXCEPT ![w] = "show"]
            /\ cmdWorking' = (Len(cmdQueue) > 1)
    /\ UNCHANGED <<cmdReady, cmdAccepted, cmdRun, cmdSent>>

(* Under s.mu the worker takes the oldest text or, with none left, ends.    *)
TakeCommand(w) ==
    /\ cmdAt[w] = "take"
    /\ IF cmdQueue = <<>>
       THEN /\ cmdWorking' = FALSE
            /\ cmdAt' = [cmdAt EXCEPT ![w] = "idle"]
            /\ UNCHANGED <<cmdQueue, cmdText>>
       ELSE /\ cmdText' = [cmdText EXCEPT ![w] = Head(cmdQueue)]
            /\ cmdQueue' = Tail(cmdQueue)
            /\ cmdAt' = [cmdAt EXCEPT ![w] = "show"]
            /\ UNCHANGED cmdWorking
    /\ UNCHANGED <<cmdReady, cmdAccepted, cmdRun, cmdSent>>

(* The command box says what is about to run.                               *)
ShowCommand(w) ==
    /\ cmdAt[w] = "show"
    /\ cmdAt' = [cmdAt EXCEPT ![w] = "send"]
    /\ UNCHANGED <<cmdReady, cmdQueue, cmdWorking, cmdText, cmdAccepted, cmdRun, cmdSent>>

(* The call to Alexa returns, an error or not; an empty text is not sent.   *)
SendCommand(w) ==
    /\ cmdAt[w] = "send"
    /\ cmdAt' = [cmdAt EXCEPT ![w] = "take"]
    /\ cmdRun' = Append(cmdRun, cmdText[w])
    /\ cmdSent' = IF cmdText[w] = Empty THEN cmdSent ELSE cmdText[w]
    /\ UNCHANGED <<cmdReady, cmdQueue, cmdWorking, cmdText, cmdAccepted>>

CmdWork(w) == TakeCommand(w) \/ ShowCommand(w) \/ SendCommand(w)

CmdNext ==
    \/ UseCommand
    \/ \E text \in Texts : CommandLocked(text)
    \/ \E w \in Workers : CmdWork(w)

CmdSpec == CmdInit /\ [][CmdNext]_cmdVars

----------------------------------------------------------------------------
Busy(w) == cmdAt[w] \in {"show", "send"}
InHand(w) == IF Busy(w) THEN <<cmdText[w]>> ELSE <<>>

(* Every command that was accepted is run, once and in the order accepted:  *)
(* what is run, what a worker has in hand and what waits are together what  *)
(* was accepted; nothing waits without a worker; there is never a second    *)
(* worker to overtake the first.                                            *)
CommandsInOrder ==
    /\ \A w \in Workers : cmdAt[w] # "idle" => cmdAccepted = cmdRun \o InHand(w) \o cmdQueue
    /\ \A v, w \in Workers : cmdAt[v] # "idle" /\ cmdAt[w] # "idle" => v = w
    /\ (\A w \in Workers : cmdAt[w] = "idle") => cmdQueue = <<>> /\ cmdRun = cmdAccepted
=============================================================================
