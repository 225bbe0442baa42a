------------------------------ MODULE Ducking ------------------------------
(***************************************************************************)
(* The duck: while somebody on the Dot holds audio focus, the player's      *)
(* stream is lowered (internal/alexa/focus.go and Chime.Duck of             *)
(* internal/audio/chime_android.go).  FocusWatcher follows the log in which *)
(* Android says who asks for focus and who lets go of it, keeps the         *)
(* holders, drops one that never lets go, and calls Duck when the level     *)
(* changes.  A stream that is opened meanwhile starts at the level there is.*)
(*                                                                          *)
(* Android's stack of focus and the lines it logs are external.  Levels are *)
(* percents; the ramp from one to the other is not modelled.                *)
(***************************************************************************)
EXTENDS StreamSlot, Sequences

CONSTANTS Clients,      \* who may ask for audio focus
          Requests,     \* the gains they ask for: req= of the log
          NoClient,     \* ""
          Untouched,    \* nothing to call OnLevel with
          DuckEvents    \* bound: what clients, the log and the sweep do

ASSUME DuckingAssumption ==
    /\ NoClient \notin Clients
    /\ Requests \subseteq Nat \ {0}
    /\ Untouched \notin Nat

VARIABLES gains,        \* Android's: who has focus, with what gain, or 0
          top,          \* who of them is on top of its stack
          focusLog,     \* lines written and not read
          requested, holders, level,    \* fields of the FocusWatcher
          telling,      \* the level of an OnLevel under way, by goroutine
          cut,          \* c.cut of the Chime, as the level it leaves
          cutTo,        \* s.cutTo of each stream, likewise
          excused,      \* history: clients the watcher may be wrong about
          duckLeft      \* budget: events left

heldVars == <<requested, holders, level, telling>>
cutVars == <<cut, cutTo>>
watchVars == <<gains, top, focusLog, heldVars, cut, excused, duckLeft>>
duckVars == <<watchVars, cutTo>>

(* line and reset run on one goroutine, expire on the other.                *)
Goroutines == {"line", "sweep"}

(* percentFor.                                                              *)
PercentFor(req) == CASE req = 3 -> 20 [] req \in {2, 4} -> 10 [] OTHER -> 100

NoHolders == [c \in Clients |-> 0]
Deepest(held) ==
    LET levels == {100} \cup {PercentFor(held[c]) : c \in Clients}
    IN CHOOSE least \in levels : \A other \in levels : least <= other

Line(kind, c, req) == [kind |-> kind, client |-> c, req |-> req]

(* The lines that matter; a death names the binder, which is no client.     *)
Lines ==
    {Line("request", c, req) : c \in Clients, req \in Requests}
    \cup {Line(kind, c, 0) : kind \in {"abandon", "remove"}, c \in Clients}
    \cup {Line("death", NoClient, 0)}

DuckLevels == {10, 20, 100}

DuckTypeOK ==
    /\ gains \in [Clients -> Requests \cup {0}]
    /\ top \in Clients \cup {NoClient}
    /\ focusLog \in Seq(Lines)
    /\ requested \in Clients \cup {NoClient}
    /\ holders \in [Clients -> Requests \cup {0}]
    /\ level \in DuckLevels /\ cut \in DuckLevels
    /\ telling \in [Goroutines -> DuckLevels \cup {Untouched}]
    /\ cutTo \in [Streams -> DuckLevels]
    /\ excused \subseteq Clients

DuckInit ==
    /\ gains = NoHolders /\ top = NoClient /\ focusLog = <<>>
    /\ requested = NoClient /\ holders = NoHolders /\ level = 100
    /\ telling = [g \in Goroutines |-> Untouched]
    /\ cut = 100 /\ cutTo = [s \in Streams |-> 100]
    /\ excused = {}
    /\ duckLeft = DuckEvents

----------------------------------------------------------------------------
(* Android.  A client below the top of the stack is removed from where it   *)
(* is, which is logged, when it asks again or lets go.  Who comes to the    *)
(* top when another leaves it is left open.                                 *)
DuckEvent == duckLeft > 0 /\ duckLeft' = duckLeft - 1

Has(c) == gains[c] # 0
Logs(c, line) ==
    focusLog' = focusLog \o (IF Has(c) /\ top # c THEN <<line, Line("remove", c, 0)>>
                             ELSE <<line>>)

AsksFocus(c, req) ==
    /\ DuckEvent
    /\ gains' = [gains EXCEPT ![c] = req]
    /\ top' = c
    /\ Logs(c, Line("request", c, req))
    /\ excused' = excused \ {c}
    /\ UNCHANGED <<heldVars, cutVars>>

LeavesStack(c) ==
    /\ Has(c)
    /\ gains' = [gains EXCEPT ![c] = 0]
    /\ \/ top # c /\ top' = top
       \/ top = c /\ top' \in {d \in Clients : gains'[d] # 0}
       \/ top = c /\ gains' = NoHolders /\ top' = NoClient

AbandonsFocus(c) ==
    /\ DuckEvent
    /\ LeavesStack(c)
    /\ Logs(c, Line("abandon", c, 0))
    /\ UNCHANGED <<heldVars, cutVars, excused>>

(* A client that dies is logged by its binder, which names no holder.       *)
DiesHolding(c) ==
    /\ DuckEvent
    /\ LeavesStack(c)
    /\ focusLog' = focusLog \o <<Line("death", NoClient, 0)>>
    /\ excused' = excused \cup {c}
    /\ UNCHANGED <<heldVars, cutVars>>

----------------------------------------------------------------------------
\* Slip: the call is made under no lock, and may overtake another.
MayChangeAnytime(g) == telling[g] = Untouched

(* notify is held from before a change until OnLevel has returned.          *)
MayChange(g) == \A other \in Goroutines : telling[other] = Untouched

Change(g, held) ==
    /\ MayChange(g)
    /\ holders' = held
    /\ level' = Deepest(held)
    /\ telling' = [telling EXCEPT ![g] = IF level' # level THEN level' ELSE Untouched]

Holding(c, req) == [holders EXCEPT ![c] = req]

\* Slip: a removal is a release, whatever came before it.
HeardRemoval(line) ==
    IF line.kind = "death" THEN holders
    ELSE Holding(line.client, IF line.kind = "request" THEN line.req ELSE 0)

(* A removal straight after the same client's request is no release.        *)
Heard(line) ==
    CASE line.kind = "request" -> Holding(line.client, line.req)
      [] line.kind = "abandon" -> Holding(line.client, 0)
      [] line.kind = "remove" /\ line.client # requested -> Holding(line.client, 0)
      [] OTHER -> holders

ReadFocusLine ==
    /\ focusLog # <<>>
    /\ focusLog' = Tail(focusLog)
    /\ Change("line", Heard(Head(focusLog)))
    /\ requested' = IF Head(focusLog).kind = "request" THEN Head(focusLog).client ELSE NoClient
    /\ UNCHANGED <<gains, top, cutVars, excused, duckLeft>>

(* The last line of the log; one that was read already may be any.          *)
LastLines == IF focusLog = <<>> THEN Lines ELSE {focusLog[Len(focusLog)]}

(* reset: logcat ended.  What it would have said is lost, but for the last  *)
(* line there is, with which the next one starts, read before or not.       *)
LogcatEnds ==
    /\ DuckEvent
    /\ focusLog' \in {<<>>} \cup {<<line>> : line \in LastLines}
    /\ requested' = NoClient
    /\ Change("line", NoHolders)
    /\ excused' = Clients
    /\ UNCHANGED <<gains, top, cutVars>>

(* expire: holders that have not let go in holdFor.                         *)
ExpireHolders ==
    /\ DuckEvent
    /\ \E late \in SUBSET {c \in Clients : holders[c] # 0} :
         /\ late # {}
         /\ Change("sweep", [c \in Clients |-> IF c \in late THEN 0 ELSE holders[c]])
         /\ excused' = excused \cup late
    /\ UNCHANGED <<gains, top, focusLog, requested, cutVars>>

(* Duck, under c.mu: for the stream there is, and the next ones.            *)
Duck(g) ==
    /\ telling[g] # Untouched
    /\ cut' = telling[g]
    /\ cutTo' = IF slot = NoStream THEN cutTo ELSE [cutTo EXCEPT ![slot] = telling[g]]
    /\ telling' = [telling EXCEPT ![g] = Untouched]
    /\ UNCHANGED <<gains, top, focusLog, requested, holders, level, excused, duckLeft>>

DuckStep ==
    \/ \E c \in Clients, req \in Requests : AsksFocus(c, req)
    \/ \E c \in Clients : AbandonsFocus(c) \/ DiesHolding(c)
    \/ ReadFocusLine \/ LogcatEnds \/ ExpireHolders
    \/ \E g \in Goroutines : Duck(g)

(* OpenStream: the stream that comes into the slot starts at the level.     *)
StartsDucked ==
    cutTo' = IF slot' \in Streams \ {slot} THEN [cutTo EXCEPT ![slot'] = cut] ELSE cutTo

DuckNext ==
    \/ SlotNext /\ StartsDucked /\ UNCHANGED watchVars
    \/ DuckStep /\ UNCHANGED slotVars

DuckSpec == SlotInit /\ DuckInit /\ [][DuckNext]_<<slotVars, duckVars>>

----------------------------------------------------------------------------
(* Whoever changes the holders, and whenever a stream is opened: with no    *)
(* call under way, the stream plays at the level of the deepest holder.     *)
LevelFollows ==
    (\A g \in Goroutines : telling[g] = Untouched) =>
        /\ cut = Deepest(holders)
        /\ slot # NoStream => cutTo[slot] = cut

(* With the log read, the watcher knows who has focus in Android, and with  *)
(* what gain, but for who died with it, was given up after holdFor, or      *)
(* asked while logcat was down.                                             *)
HoldersKnown == focusLog = <<>> => \A c \in Clients \ excused : holders[c] = gains[c]

(* Overlapping requests, requests asked again, the expiry and logcat's end  *)
(* leave the stream ducked exactly while somebody has focus that ducks it.  *)
DuckedAsHeld == LevelFollows /\ HoldersKnown
=============================================================================
