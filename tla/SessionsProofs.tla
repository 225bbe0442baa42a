-------------------------- MODULE SessionsProofs ---------------------------
(***************************************************************************)
(* The player and who uses it, for every number of connections, streams,   *)
(* clients and rates, and of what servers and users do.                    *)
(*                                                                         *)
(* First the stream slot and the duck each on its own: a stream that was   *)
(* opened sounds, or the writer is awake to tune to it, or has died; and   *)
(* with no call under way the stream in the slot plays at the level of the *)
(* deepest holder the watcher knows of.  Then the sessions of client.go:   *)
(* what they do with streams is what StreamSlot and Ducking expect, so that *)
(* those theorems hold of them, and the player is never asked for a stream *)
(* while it plays one.  Last what they tell their servers: once everything *)
(* on its way has arrived, a server knows the delay, level, rate and lead. *)
(***************************************************************************)
EXTENDS Sessions, TLAPS

(* The slot, the mixer and the writer.                                      *)

(* A stream that plays is the one in the slot; it is mixed, unless the      *)
(* writer has still to tune to its rate, and for that the writer is awake   *)
(* or has a token to be woken by.                                           *)
InSlot(s) ==
    /\ slot = s
    /\ s \in mixed \/ woke \/ writerAt \in {"look", "tune", "dead"}
    /\ streamRate[s] = tuned => s \in mixed

Sounding == \A s \in Streams : ~Spent(s) => InSlot(s)

(* What the writer closed stays closed until it has let go of it.           *)
ClosingIsClosed ==
    closing # NoStream => streamAt[closing] = "closed" /\ writerAt \in {"look", "idle"}

SlotInv == SlotTypeOK /\ Sounding /\ ClosingIsClosed

USE StreamsAssumption

----------------------------------------------------------------------------
LEMMA SlotInitInv == SlotInit => SlotInv
  BY DEF SlotInit, SlotInv, SlotTypeOK, Sounding, ClosingIsClosed, Spent

LEMMA OpenKeeps ==
  ASSUME SlotInv, NEW s \in Streams, NEW rate \in Rates, ~Refused, OpenStream(s, rate)
  PROVE  SlotInv'
<1>1. SlotTypeOK'
  BY DEF SlotInv, SlotTypeOK, OpenStream
<1>2. Sounding'
  BY DEF SlotInv, SlotTypeOK, Sounding, InSlot, Spent, Refused, Loose, OpenStream
<1>3. ClosingIsClosed'
  BY DEF SlotInv, SlotTypeOK, ClosingIsClosed, Loose, OpenStream
<1>4. QED
  BY <1>1, <1>2, <1>3 DEF SlotInv

LEMMA ResumeKeeps == ASSUME SlotInv, NEW s \in Streams, Resume(s) PROVE SlotInv'
  BY DEF SlotInv, SlotTypeOK, Sounding, InSlot, ClosingIsClosed, Spent, Resume

LEMMA FinishKeeps == ASSUME SlotInv, NEW s \in Streams, Finish(s) PROVE SlotInv'
  BY DEF SlotInv, SlotTypeOK, Sounding, InSlot, ClosingIsClosed, Spent, Finish

LEMMA CloseKeeps == ASSUME SlotInv, NEW s \in Streams, CloseStream(s) PROVE SlotInv'
  BY DEF SlotInv, SlotTypeOK, Sounding, InSlot, ClosingIsClosed, Spent, CloseStream

LEMMA CloserKeeps ==
  ASSUME SlotInv, NEW s \in Streams, streamAt[s] = "closed", Closer(s) PROVE SlotInv'
  BY DEF SlotInv, SlotTypeOK, Sounding, InSlot, ClosingIsClosed, Spent, Closer, Without

LEMMA LookKeeps == ASSUME SlotInv, Look PROVE SlotInv'
  BY DEF SlotInv, SlotTypeOK, Sounding, InSlot, ClosingIsClosed, Spent, Look

LEMMA LetGoKeeps == ASSUME SlotInv, LetGo PROVE SlotInv'
  BY DEF SlotInv, SlotTypeOK, Sounding, InSlot, ClosingIsClosed, Spent, LetGo, Without

(* The writer leaves "tune" with what it is tuned to mixed.                 *)
LEMMA RetuneKeeps == ASSUME SlotInv, Retune PROVE SlotInv'
<1>1. SlotTypeOK'
  <2>1. woke' \in BOOLEAN
    BY Zenon DEF SlotInv, SlotTypeOK, Retune
  <2>2. QED
    BY <2>1 DEF SlotInv, SlotTypeOK, Retune
<1>2. Sounding'
  <2> SUFFICES ASSUME NEW s \in Streams, ~Spent(s)' PROVE InSlot(s)'
    BY DEF Sounding
  <2>1. InSlot(s) /\ ~Spent(s)
    BY DEF SlotInv, Sounding, Spent, Retune
  <2>2. CASE writerAt' = "dead"
    BY <2>1, <2>2 DEF InSlot, Retune
  <2>3. CASE writerAt' = "next" /\ streamRate[s] # tuned
    BY <2>1, <2>3, StreamsAssumption DEF InSlot, Retune
  <2>4. CASE writerAt' = "next" /\ streamRate[s] = tuned
    BY <2>1, <2>4 DEF InSlot, Retune
  <2>5. QED
    BY <2>2, <2>3, <2>4 DEF Retune
<1>3. ClosingIsClosed'
  BY DEF SlotInv, ClosingIsClosed, Retune
<1>4. QED
  BY <1>1, <1>2, <1>3 DEF SlotInv

LEMMA MixKeeps == ASSUME SlotInv, MixNext PROVE SlotInv'
  BY DEF SlotInv, SlotTypeOK, Sounding, InSlot, ClosingIsClosed, Spent, MixNext

LEMMA WokenKeeps == ASSUME SlotInv, Woken PROVE SlotInv'
  BY DEF SlotInv, SlotTypeOK, Sounding, InSlot, ClosingIsClosed, Spent, Woken

(* One lemma for each step of the sessions and of the writer.               *)
LEMMA SlotStep == SlotInv /\ [SlotNext]_slotVars => SlotInv'
<1> SUFFICES ASSUME SlotInv, [SlotNext]_slotVars PROVE SlotInv'
  OBVIOUS
<1>1. CASE \E s \in Streams, rate \in Rates : ~Refused /\ OpenStream(s, rate)
  BY <1>1, OpenKeeps
<1>2. CASE \E s \in Streams : \/ Resume(s) \/ Finish(s) \/ CloseStream(s)
                              \/ streamAt[s] = "closed" /\ Closer(s)
  BY <1>2, ResumeKeeps, FinishKeeps, CloseKeeps, CloserKeeps
<1>3. CASE Writes
  BY <1>3, LookKeeps, LetGoKeeps, RetuneKeeps, MixKeeps, WokenKeeps DEF Writes
<1>4. CASE UNCHANGED slotVars
  BY <1>4 DEF slotVars, SlotInv, SlotTypeOK, Sounding, InSlot, ClosingIsClosed, Spent
<1>5. QED
  BY <1>1, <1>2, <1>3, <1>4 DEF SlotNext

----------------------------------------------------------------------------
(* The invariant holds in every state the sessions and the writer reach.    *)
THEOREM SlotInductive == SlotSpec => []SlotInv
  BY SlotInitInv, SlotStep, PTL DEF SlotSpec

(* An open stream is in the slot, and mixed or about to be: chime_android   *)
(* .go's compare-and-swap never takes a later stream out, and write never   *)
(* sleeps on one it has not tuned to.                                       *)
THEOREM OpenHeard == SlotSpec => []OpenIsHeard
<1>1. SlotInv => OpenIsHeard
  BY DEF SlotInv, SlotTypeOK, Sounding, InSlot, Spent, OpenIsHeard
<1>2. QED
  BY <1>1, SlotInductive, PTL

-----------------------------------------------------------------------------
(* The duck.                                                                *)

AllQuiet == \A g \in Goroutines : telling[g] = Untouched

(* The lock notify: one call at a time, and the level it brings is the      *)
(* newest.                                                                  *)
OneTells ==
    \A g, other \in Goroutines :
        telling[g] # Untouched =>
            /\ telling[g] = level
            /\ telling[other] # Untouched => other = g

LevelIsDeepest == level = Deepest(holders) /\ (AllQuiet => cut = level)

SlotAtCut == slot # NoStream => cutTo[slot] = cut

DuckInv ==
    /\ SlotInv
    /\ DOMAIN telling = Goroutines /\ DOMAIN cutTo = Streams
    /\ OneTells /\ LevelIsDeepest /\ SlotAtCut

USE DuckingAssumption

----------------------------------------------------------------------------
(* There is a least level among those the holders call for, and it is one   *)
(* of the three there are.                                                  *)
LEMMA DeepestIsDuck == ASSUME NEW table PROVE Deepest(table) \in DuckLevels
<1> DEFINE levels == {100} \cup {PercentFor(table[c]) : c \in Clients}
<1>1. levels \subseteq DuckLevels
  BY DEF PercentFor, DuckLevels
<1>2. \E l \in levels : \A other \in levels : l <= other
  <2>1. CASE 10 \in levels
    BY <2>1, <1>1 DEF DuckLevels
  <2>2. CASE 10 \notin levels /\ 20 \in levels
    BY <2>2, <1>1 DEF DuckLevels
  <2>3. CASE 10 \notin levels /\ 20 \notin levels
    <3>1. levels = {100}
      BY <2>3, <1>1 DEF DuckLevels
    <3>2. QED
      BY <3>1
  <2>4. QED
    BY <2>1, <2>2, <2>3
<1>3. Deepest(table) \in levels
  BY <1>2 DEF Deepest
<1>4. QED
  BY <1>1, <1>3

LEMMA DuckInitInv == SlotInit /\ DuckInit => DuckInv
<1> SUFFICES ASSUME SlotInit, DuckInit PROVE DuckInv
  OBVIOUS
<1>1. Deepest(NoHolders) = 100
  <2> DEFINE levels == {100} \cup {PercentFor(NoHolders[c]) : c \in Clients}
  <2>1. levels = {100}
    BY DEF NoHolders, PercentFor
  <2>2. QED
    BY <2>1 DEF Deepest
<1>2. QED
  BY <1>1, SlotInitInv DEF DuckInit, SlotInit, DuckInv, OneTells, LevelIsDeepest, AllQuiet,
     SlotAtCut, Goroutines

----------------------------------------------------------------------------
(* The steps of the slot: a stream that comes into it has the cut.          *)
LEMMA SlotKeepsDuck == ASSUME DuckInv, SlotNext, StartsDucked, UNCHANGED watchVars PROVE DuckInv'
<1> USE DEF watchVars, heldVars
<1>1. SlotInv'
  BY SlotStep DEF DuckInv
<1>2. DOMAIN telling' = Goroutines /\ DOMAIN cutTo' = Streams
  BY DEF DuckInv, StartsDucked
<1>3. OneTells' /\ LevelIsDeepest'
  BY DEF DuckInv, OneTells, LevelIsDeepest, AllQuiet
<1>4. SlotAtCut'
  <2>1. slot' \in Streams \cup {NoStream}
    BY <1>1 DEF SlotInv, SlotTypeOK
  <2>2. QED
    BY <2>1 DEF DuckInv, SlotAtCut, StartsDucked
<1>5. QED
  BY <1>1, <1>2, <1>3, <1>4 DEF DuckInv

(* A change of the holders, made under notify.                              *)
LEMMA ChangeKeeps ==
  ASSUME DuckInv, NEW g \in Goroutines, NEW table, Change(g, table),
         UNCHANGED <<slotVars, cutVars>>
  PROVE  DuckInv'
<1> USE DEF cutVars
<1>1. SlotInv'
  BY SlotStep DEF DuckInv
<1>2. AllQuiet /\ cut = level
  BY DEF Change, MayChange, DuckInv, LevelIsDeepest, AllQuiet
<1>3. level' \in Nat
  BY DeepestIsDuck DEF Change, DuckLevels
<1>4. DOMAIN telling' = Goroutines /\ DOMAIN cutTo' = Streams
  BY DEF Change, DuckInv
<1>5. OneTells'
  BY <1>2 DEF Change, DuckInv, OneTells, AllQuiet
<1>6. LevelIsDeepest'
  BY <1>2, <1>3 DEF Change, DuckInv, LevelIsDeepest, AllQuiet
<1>7. SlotAtCut'
  BY DEF DuckInv, SlotAtCut, slotVars
<1>8. QED
  BY <1>1, <1>4, <1>5, <1>6, <1>7 DEF DuckInv

(* What Android does is known only from the log.                            *)
LEMMA AndroidKeeps ==
  ASSUME DuckInv, UNCHANGED <<slotVars, heldVars, cutVars>> PROVE DuckInv'
<1>1. SlotInv'
  BY SlotStep DEF DuckInv
<1>2. QED
  BY <1>1 DEF DuckInv, OneTells, LevelIsDeepest, AllQuiet, SlotAtCut, heldVars, cutVars, slotVars

LEMMA DuckKeeps == ASSUME DuckInv, NEW g \in Goroutines, Duck(g), UNCHANGED slotVars PROVE DuckInv'
<1>1. SlotInv'
  BY SlotStep DEF DuckInv
<1>2. telling[g] = level /\ \A other \in Goroutines : other # g => telling[other] = Untouched
  BY DEF Duck, DuckInv, OneTells
<1>3. DOMAIN telling' = Goroutines /\ DOMAIN cutTo' = Streams
  BY DEF Duck, DuckInv
<1>4. OneTells' /\ LevelIsDeepest'
  BY <1>2 DEF Duck, DuckInv, OneTells, LevelIsDeepest, AllQuiet
<1>5. SlotAtCut'
  BY DEF Duck, DuckInv, SlotInv, SlotTypeOK, SlotAtCut, slotVars
<1>6. QED
  BY <1>1, <1>3, <1>4, <1>5 DEF DuckInv

LEMMA DuckStepKeeps == ASSUME DuckInv, DuckStep, UNCHANGED slotVars PROVE DuckInv'
<1>1. CASE \E c \in Clients, req \in Requests : AsksFocus(c, req)
  BY <1>1, AndroidKeeps DEF AsksFocus
<1>2. CASE \E c \in Clients : AbandonsFocus(c) \/ DiesHolding(c)
  BY <1>2, AndroidKeeps DEF AbandonsFocus, DiesHolding
<1>3. CASE ReadFocusLine \/ LogcatEnds
  BY <1>3, ChangeKeeps DEF ReadFocusLine, LogcatEnds, Goroutines
<1>4. CASE ExpireHolders
  BY <1>4, ChangeKeeps DEF ExpireHolders, Goroutines
<1>5. CASE \E g \in Goroutines : Duck(g)
  BY <1>5, DuckKeeps
<1>6. QED
  BY <1>1, <1>2, <1>3, <1>4, <1>5 DEF DuckStep

LEMMA DuckInvStep == DuckInv /\ [DuckNext]_<<slotVars, duckVars>> => DuckInv'
<1> SUFFICES ASSUME DuckInv, [DuckNext]_<<slotVars, duckVars>> PROVE DuckInv'
  OBVIOUS
<1>1. CASE SlotNext /\ StartsDucked /\ UNCHANGED watchVars
  BY <1>1, SlotKeepsDuck
<1>2. CASE DuckStep /\ UNCHANGED slotVars
  BY <1>2, DuckStepKeeps
<1>3. CASE UNCHANGED <<slotVars, duckVars>>
  BY <1>3, AndroidKeeps DEF duckVars, watchVars, cutVars
<1>4. QED
  BY <1>1, <1>2, <1>3 DEF DuckNext

----------------------------------------------------------------------------
(* The lock held around OnLevel keeps the calls in the order of the changes,*)
(* and c.mu makes a stream that is opened start where Duck left it.         *)
THEOREM DuckInductive == DuckSpec => []DuckInv
  BY DuckInitInv, DuckInvStep, PTL DEF DuckSpec

----------------------------------------------------------------------------
(* What the watcher will know of a client once the log is read: what the    *)
(* last line that decides it says, or, where no line does, what it knows.   *)
AfterRequest(i, c) ==
    IF i = 1 THEN requested = c
    ELSE focusLog[i - 1].kind = "request" /\ focusLog[i - 1].client = c

Decides(i, c) ==
    /\ focusLog[i].client = c /\ focusLog[i].kind # "death"
    /\ focusLog[i].kind = "remove" => ~AfterRequest(i, c)

Says(i) == IF focusLog[i].kind = "request" THEN focusLog[i].req ELSE 0

LastDecides(i, c) ==
    /\ i \in DOMAIN focusLog /\ Decides(i, c)
    /\ \A j \in DOMAIN focusLog : j > i => ~Decides(j, c)

Undecided(c) == \A i \in DOMAIN focusLog : ~Decides(i, c)

WillKnow(c) ==
    \/ Undecided(c) /\ holders[c] = gains[c]
    \/ \E i \in DOMAIN focusLog : LastDecides(i, c) /\ Says(i) = gains[c]

LogTypes ==
    /\ gains \in [Clients -> Requests \cup {0}]
    /\ focusLog \in Seq(Lines)
    /\ requested \in Clients \cup {NoClient}
    /\ holders \in [Clients -> Requests \cup {0}]

LogInv == LogTypes /\ \A c \in Clients \ excused : WillKnow(c)

LEMMA LineFields ==
  ASSUME NEW line \in Lines
  PROVE  /\ line.kind \in {"request", "abandon", "remove", "death"}
         /\ line.client \in Clients \cup {NoClient} /\ line.req \in Requests \cup {0}
<1>1. CASE \E c \in Clients, req \in Requests : line = Line("request", c, req)
  BY <1>1 DEF Line
<1>2. CASE \E kind \in {"abandon", "remove"}, c \in Clients : line = Line(kind, c, 0)
  BY <1>2 DEF Line
<1>3. CASE line = Line("death", NoClient, 0)
  BY <1>3 DEF Line
<1>4. QED
  BY <1>1, <1>2, <1>3 DEF Lines

LEMMA LogInitInv == DuckInit => LogInv
  BY DEF DuckInit, LogInv, LogTypes, NoHolders, WillKnow, Undecided

(* Lines that are added change nothing of those that wait.                  *)
LEMMA MoreLines ==
  ASSUME LogTypes, NEW more \in Seq(Lines), focusLog' = focusLog \o more, UNCHANGED requested
  PROVE  LET n == Len(focusLog)
         IN /\ n \in Nat /\ DOMAIN focusLog = 1 .. n
            /\ DOMAIN focusLog' = 1 .. n + Len(more)
            /\ \A i \in 1 .. n : focusLog'[i] = focusLog[i]
            /\ \A k \in 1 .. Len(more) : focusLog'[n + k] = more[k]
            /\ focusLog' \in Seq(Lines)
            /\ \A i \in 1 .. n, c \in Clients : Decides(i, c)' <=> Decides(i, c)
<1> DEFINE n == Len(focusLog)
<1>1. n \in Nat /\ DOMAIN focusLog = 1 .. n /\ focusLog' \in Seq(Lines)
  BY DEF LogTypes
<1>2. DOMAIN focusLog' = 1 .. n + Len(more)
  BY <1>1 DEF LogTypes
<1>3. \A i \in 1 .. n : focusLog'[i] = focusLog[i]
  BY <1>1 DEF LogTypes
<1>4. \A k \in 1 .. Len(more) : focusLog'[n + k] = more[k]
  BY <1>1 DEF LogTypes
<1>5. ASSUME NEW i \in 1 .. n, NEW c \in Clients PROVE Decides(i, c)' <=> Decides(i, c)
  <2>1. i # 1 => i - 1 \in 1 .. n
    BY <1>1
  <2>2. focusLog'[i] = focusLog[i] /\ (i # 1 => focusLog'[i - 1] = focusLog[i - 1])
    BY <2>1, <1>3
  <2>3. QED
    BY <2>2 DEF Decides, AfterRequest
<1>6. QED
  BY <1>1, <1>2, <1>3, <1>4, <1>5

(* They are of other clients, ...                                           *)
LEMMA OthersStillKnown ==
  ASSUME LogTypes, NEW more \in Seq(Lines), focusLog' = focusLog \o more, UNCHANGED requested,
         NEW c \in Clients, \A k \in 1 .. Len(more) : more[k].client # c,
         holders'[c] = holders[c], gains'[c] = gains[c], WillKnow(c)
  PROVE  WillKnow(c)'
<1> DEFINE n == Len(focusLog)
<1> HIDE DEF n
<1>1. /\ n \in Nat /\ Len(more) \in Nat /\ DOMAIN focusLog = 1 .. n
      /\ DOMAIN focusLog' = 1 .. n + Len(more)
      /\ \A i \in 1 .. n : focusLog'[i] = focusLog[i] /\ (Decides(i, c)' <=> Decides(i, c))
      /\ \A k \in 1 .. Len(more) : focusLog'[n + k] = more[k]
  BY MoreLines DEF n
<1>2. \A i \in DOMAIN focusLog' : i \notin 1 .. n => ~Decides(i, c)'
  <2> SUFFICES ASSUME NEW i \in DOMAIN focusLog', i \notin 1 .. n PROVE ~Decides(i, c)'
    OBVIOUS
  <2>1. i - n \in 1 .. Len(more) /\ i = n + (i - n)
    BY <1>1
  <2>2. focusLog'[i] = more[i - n]
    BY <2>1, <1>1
  <2>3. QED
    BY <2>1, <2>2 DEF Decides
<1>3. CASE Undecided(c) /\ holders[c] = gains[c]
  BY <1>1, <1>2, <1>3 DEF Undecided, WillKnow
<1>4. CASE \E i \in DOMAIN focusLog : LastDecides(i, c) /\ Says(i) = gains[c]
  <2>1. PICK i \in DOMAIN focusLog : LastDecides(i, c) /\ Says(i) = gains[c]
    BY <1>4
  <2>2. LastDecides(i, c)'
    BY <2>1, <1>1, <1>2 DEF LastDecides
  <2>3. Says(i)' = gains'[c]
    BY <2>1, <1>1 DEF Says
  <2>4. QED
    BY <2>2, <2>3 DEF WillKnow, LastDecides
<1>5. QED
  BY <1>3, <1>4 DEF WillKnow

(* ... or of one, and the last says what it has now: a request with or      *)
(* without the removal that comes with it, or an abandon with one.          *)
LEMMA NewlyKnown ==
  ASSUME LogTypes, NEW more \in Seq(Lines), focusLog' = focusLog \o more, UNCHANGED requested,
         NEW c \in Clients, more # <<>>, Len(more) <= 2, more[1].client = c,
         more[1].kind \in {"request", "abandon"},
         gains'[c] = IF more[1].kind = "request" THEN more[1].req ELSE 0,
         Len(more) = 2 => more[2].kind = "remove" /\ more[2].client = c
  PROVE  WillKnow(c)'
<1>1. PICK n : n = Len(focusLog)
  OBVIOUS
<1>2. n \in Nat /\ DOMAIN focusLog' = 1 .. n + Len(more)
  BY <1>1, MoreLines
<1>3. \A k \in 1 .. Len(more) : focusLog'[n + k] = more[k]
  BY <1>1, MoreLines
<1>4. Len(more) = 1 \/ Len(more) = 2
  <2>1. Len(more) \in Nat /\ Len(more) # 0
    OBVIOUS
  <2>2. \A m \in Nat : m <= 2 /\ m # 0 => m = 1 \/ m = 2
    OBVIOUS
  <2>3. QED
    BY <2>1, <2>2
<1>5. 1 \in 1 .. Len(more) /\ (Len(more) = 2 => 2 \in 1 .. Len(more))
  BY <1>4
<1>6. focusLog'[n + 1] = more[1] /\ (Len(more) = 2 => focusLog'[n + 2] = more[2])
  BY <1>3, <1>5
<1>7. Decides(n + 1, c)' /\ Says(n + 1)' = gains'[c]
  BY <1>6 DEF Decides, Says
<1>8. CASE Len(more) = 1
  <2>1. LastDecides(n + 1, c)'
    <3>1. DOMAIN focusLog' = 1 .. n + 1
      BY <1>2, <1>8
    <3>2. n + 1 \in DOMAIN focusLog' /\ \A j \in DOMAIN focusLog' : ~(j > n + 1)
      BY <3>1, <1>2
    <3>3. QED
      BY <3>2, <1>7 DEF LastDecides
  <2>2. QED
    BY <2>1, <1>7 DEF WillKnow, LastDecides
<1>9. CASE Len(more) = 2
  <2>1. focusLog'[n + 2] = more[2] /\ (n + 2) - 1 = n + 1 /\ n + 2 # 1
    BY <1>2, <1>6, <1>9
  <2>2. /\ n + 1 \in DOMAIN focusLog' /\ n + 2 \in DOMAIN focusLog'
        /\ \A j \in DOMAIN focusLog' : (j > n + 1 => j = n + 2) /\ ~(j > n + 2)
    <3>1. DOMAIN focusLog' = 1 .. n + 2
      BY <1>2, <1>9
    <3>2. QED
      BY <3>1, <1>2
  <2>3. AfterRequest(n + 2, c)' <=> more[1].kind = "request"
    BY <2>1, <1>6 DEF AfterRequest
  <2>4. CASE more[1].kind = "request"
    <3>1. ~Decides(n + 2, c)'
      BY <2>1, <2>3, <2>4, <1>9 DEF Decides
    <3>2. LastDecides(n + 1, c)'
      BY <3>1, <2>2, <1>7 DEF LastDecides
    <3>3. QED
      BY <3>2, <1>7 DEF WillKnow, LastDecides
  <2>5. CASE more[1].kind = "abandon"
    <3>1. Decides(n + 2, c)' /\ Says(n + 2)' = gains'[c]
      BY <2>1, <2>3, <2>5, <1>9 DEF Decides, Says
    <3>2. LastDecides(n + 2, c)'
      BY <3>1, <2>2 DEF LastDecides
    <3>3. QED
      BY <3>1, <3>2 DEF WillKnow, LastDecides
  <2>6. QED
    BY <2>4, <2>5
<1>10. QED
  BY <1>4, <1>8, <1>9

(* A client moves in Android's stack, which logs it.                        *)
LEMMA MoveKeeps ==
  ASSUME LogInv, NEW c \in Clients, NEW line \in Lines, Logs(c, line),
         line.client = c, line.kind \in {"request", "abandon"},
         gains' \in [Clients -> Requests \cup {0}],
         gains'[c] = IF line.kind = "request" THEN line.req ELSE 0,
         \A d \in Clients \ {c} : gains'[d] = gains[d],
         UNCHANGED <<requested, holders>>, Clients \ excused' \subseteq (Clients \ excused) \cup {c}
  PROVE  LogInv'
<1> DEFINE gone == Line("remove", c, 0)
<1>1. PICK more : more \in {<<line>>, <<line, gone>>} /\ focusLog' = focusLog \o more
  BY DEF Logs
<1>2. gone \in Lines /\ gone.client = c /\ gone.kind = "remove"
  BY DEF Line, Lines
<1>3. more \in Seq(Lines) /\ more # <<>> /\ Len(more) <= 2
  <2>1. CASE more = <<line>>
    BY <2>1
  <2>2. CASE more = <<line, gone>>
    <3>1. PICK second \in Lines : second = gone
      BY <1>2
    <3>2. more = <<line, second>>
      BY <2>2, <3>1
    <3>3. QED
      BY <3>2
  <2>3. QED
    BY <1>1, <2>1, <2>2
<1>4. more[1] = line /\ (Len(more) = 2 => more[2] = gone)
  BY <1>1
<1>5. \A k \in 1 .. Len(more) : more[k].client = c
  BY <1>1, <1>2
<1>6. LogTypes /\ UNCHANGED requested
  BY DEF LogInv
<1>7. LogTypes'
  BY <1>1, <1>3, <1>6 DEF LogTypes
<1>8. WillKnow(c)'
  BY <1>1, <1>2, <1>3, <1>4, <1>6, NewlyKnown
<1>9. ASSUME NEW d \in Clients \ excused', d # c PROVE WillKnow(d)'
  <2>1. d \in Clients /\ WillKnow(d) /\ holders'[d] = holders[d] /\ gains'[d] = gains[d]
    BY <1>9 DEF LogInv
  <2>2. \A k \in 1 .. Len(more) : more[k].client # d
    BY <1>5, <1>9
  <2>3. QED
    BY <2>1, <2>2, <1>1, <1>3, <1>6, OthersStillKnown
<1>10. QED
  BY <1>7, <1>8, <1>9 DEF LogInv

LEMMA AsksKeeps == ASSUME LogInv, NEW c \in Clients, NEW req \in Requests, AsksFocus(c, req)
                   PROVE  LogInv'
<1> DEFINE line == Line("request", c, req)
<1>1. line \in Lines
  BY DEF Lines
<1>2. line.client = c /\ line.kind = "request" /\ line.req = req
  BY DEF Line
<1>3. gains' \in [Clients -> Requests \cup {0}] /\ gains'[c] = req
  BY DEF AsksFocus, LogInv, LogTypes
<1>4. \A d \in Clients \ {c} : gains'[d] = gains[d]
  BY DEF AsksFocus, LogInv, LogTypes
<1>5. Logs(c, line) /\ UNCHANGED <<requested, holders>> /\ excused' = excused \ {c}
  BY DEF AsksFocus, heldVars
<1> HIDE DEF line
<1>6. QED
  BY <1>1, <1>2, <1>3, <1>4, <1>5, MoveKeeps

LEMMA LeavesGains ==
  ASSUME LogTypes, NEW c \in Clients, LeavesStack(c)
  PROVE  /\ gains' \in [Clients -> Requests \cup {0}] /\ gains'[c] = 0
         /\ \A d \in Clients \ {c} : gains'[d] = gains[d]
  BY DEF LeavesStack, LogTypes

LEMMA AbandonsKeeps == ASSUME LogInv, NEW c \in Clients, AbandonsFocus(c) PROVE LogInv'
<1> DEFINE line == Line("abandon", c, 0)
<1>1. line \in Lines /\ line.client = c /\ line.kind = "abandon"
  BY DEF Line, Lines
<1>2. /\ gains' \in [Clients -> Requests \cup {0}] /\ gains'[c] = 0
      /\ \A d \in Clients \ {c} : gains'[d] = gains[d]
  BY LeavesGains DEF AbandonsFocus, LogInv
<1>3. Logs(c, line) /\ UNCHANGED <<requested, holders>> /\ excused' = excused
  BY DEF AbandonsFocus, heldVars
<1> HIDE DEF line
<1>4. QED
  BY <1>1, <1>2, <1>3, MoveKeeps

(* A death names no client: the one that died is excused.                   *)
LEMMA DeathKeeps == ASSUME LogInv, NEW c \in Clients, DiesHolding(c) PROVE LogInv'
<1>1. PICK more : more = <<Line("death", NoClient, 0)>>
  OBVIOUS
<1>2. Line("death", NoClient, 0) \in Lines /\ Line("death", NoClient, 0).client = NoClient
  BY DEF Line, Lines
<1>3. more \in Seq(Lines) /\ Len(more) = 1 /\ more[1].client = NoClient
  BY <1>1, <1>2
<1>4. /\ gains' \in [Clients -> Requests \cup {0}]
      /\ \A d \in Clients \ {c} : gains'[d] = gains[d]
  BY LeavesGains DEF DiesHolding, LogInv
<1>5. /\ focusLog' = focusLog \o more /\ UNCHANGED requested /\ UNCHANGED holders
      /\ excused' = excused \cup {c}
  BY <1>1 DEF DiesHolding, heldVars
<1>6. LogTypes /\ LogTypes'
  BY <1>3, <1>4, <1>5 DEF LogInv, LogTypes
<1>7. ASSUME NEW d \in Clients \ excused' PROVE WillKnow(d)'
  <2>1. d \in Clients \ {c} /\ WillKnow(d)
    BY <1>5 DEF LogInv
  <2>2. \A k \in 1 .. Len(more) : more[k].client # d
    BY <1>3
  <2>3. QED
    BY <2>1, <2>2, <1>3, <1>4, <1>5, <1>6, OthersStillKnown
<1>8. QED
  BY <1>6, <1>7 DEF LogInv

----------------------------------------------------------------------------
(* The line that is read: what it decides is now what the watcher knows.    *)
LEMMA HeardDecides ==
  ASSUME LogTypes, focusLog # <<>>, NEW c \in Clients
  PROVE  LET after == Heard(Head(focusLog))
         IN /\ after \in [Clients -> Requests \cup {0}]
            /\ after[c] = IF Decides(1, c) THEN Says(1) ELSE holders[c]
<1>1. Head(focusLog) = focusLog[1] /\ focusLog[1] \in Lines
  BY DEF LogTypes
<1>2. PICK line \in Lines : line = focusLog[1]
  BY <1>1
<1>3. /\ line.kind \in {"request", "abandon", "remove", "death"}
      /\ line.client \in Clients \cup {NoClient} /\ line.req \in Requests \cup {0}
  BY LineFields
<1>4. \A req \in Requests \cup {0} :
        /\ Holding(line.client, req) \in [Clients -> Requests \cup {0}]
        /\ Holding(line.client, req)[c] = IF line.client = c THEN req ELSE holders[c]
  BY <1>3 DEF Holding, LogTypes
<1>5. Heard(line) \in [Clients -> Requests \cup {0}]
  BY <1>3, <1>4 DEF Heard, LogTypes
<1>6. Heard(line)[c] = IF Decides(1, c) THEN Says(1) ELSE holders[c]
  <2>1. CASE line.kind = "request"
    BY <2>1, <1>2, <1>3, <1>4 DEF Heard, Decides, Says
  <2>2. CASE line.kind = "abandon"
    BY <2>2, <1>2, <1>3, <1>4 DEF Heard, Decides, Says
  <2>3. CASE line.kind = "remove"
    BY <2>3, <1>2, <1>3, <1>4 DEF Heard, Decides, Says, AfterRequest
  <2>4. CASE line.kind = "death"
    BY <2>4, <1>2 DEF Heard, Decides
  <2>5. QED
    BY <1>3, <2>1, <2>2, <2>3, <2>4
<1>7. QED
  BY <1>1, <1>2, <1>5, <1>6

LEMMA ReadKeeps == ASSUME LogInv, ReadFocusLine PROVE LogInv'
<1>1. LogTypes /\ focusLog # <<>> /\ holders' = Heard(Head(focusLog))
  BY DEF LogInv, ReadFocusLine, Change
<1>2. focusLog' = Tail(focusLog) /\ UNCHANGED <<gains, excused>>
  BY DEF ReadFocusLine
<1>3. PICK n : n = Len(focusLog)
  OBVIOUS
<1>4. n \in Nat \ {0} /\ DOMAIN focusLog = 1 .. n
  BY <1>1, <1>3 DEF LogTypes
<1>5. /\ DOMAIN focusLog' = 1 .. n - 1
      /\ \A i \in 1 .. n - 1 : focusLog'[i] = focusLog[i + 1]
  BY <1>1, <1>2, <1>3, <1>4 DEF LogTypes
<1>6. /\ focusLog[1] \in Lines
      /\ requested' = IF focusLog[1].kind = "request" THEN focusLog[1].client ELSE NoClient
  BY <1>1, <1>4 DEF LogTypes, ReadFocusLine
<1>7. LogTypes'
  <2>1. focusLog' \in Seq(Lines) /\ gains' \in [Clients -> Requests \cup {0}]
    BY <1>1, <1>2 DEF LogTypes
  <2>2. requested' \in Clients \cup {NoClient}
    BY <1>6, LineFields
  <2>3. holders' \in [Clients -> Requests \cup {0}]
    <3>1. CASE Clients = {}
      BY <3>1, <1>1 DEF Heard, Holding, LogTypes
    <3>2. CASE Clients # {}
      BY <3>2, <1>1, HeardDecides
    <3>3. QED
      BY <3>1, <3>2
  <2>4. QED
    BY <2>1, <2>2, <2>3 DEF LogTypes
<1>8. ASSUME NEW c \in Clients \ excused' PROVE WillKnow(c)'
  <2>1. c \in Clients /\ WillKnow(c)
    BY <1>2 DEF LogInv
  <2>2. holders'[c] = IF Decides(1, c) THEN Says(1) ELSE holders[c]
    BY <2>1, <1>1, HeardDecides
  <2>3. ASSUME NEW i \in 1 .. n - 1 PROVE Decides(i, c)' <=> Decides(i + 1, c)
    <3>1. AfterRequest(i, c)' <=> AfterRequest(i + 1, c)
      <4>1. CASE i = 1
        BY <4>1, <1>6, <2>1 DEF AfterRequest
      <4>2. CASE i # 1
        <5>1. i - 1 \in 1 .. n - 1 /\ (i - 1) + 1 = i /\ (i + 1) - 1 = i /\ i + 1 # 1
          BY <4>2, <1>4
        <5>2. focusLog'[i - 1] = focusLog[i]
          BY <5>1, <1>5
        <5>3. QED
          BY <5>1, <5>2, <4>2 DEF AfterRequest
      <4>3. QED
        BY <4>1, <4>2
    <3>2. QED
      BY <3>1, <1>5 DEF Decides
  <2>4. CASE Undecided(c) /\ holders[c] = gains[c]
    <3>1. Undecided(c)' /\ ~Decides(1, c)
      BY <2>3, <2>4, <1>4, <1>5 DEF Undecided
    <3>2. QED
      BY <3>1, <2>2, <2>4, <1>2 DEF WillKnow
  <2>5. CASE \E i \in DOMAIN focusLog : LastDecides(i, c) /\ Says(i) = gains[c]
    <3>1. PICK i \in 1 .. n : LastDecides(i, c) /\ Says(i) = gains[c]
      BY <2>5, <1>4
    <3>2. CASE i = 1
      <4>1. Undecided(c)'
        BY <3>1, <3>2, <2>3, <1>4, <1>5 DEF LastDecides, Undecided
      <4>2. QED
        BY <4>1, <3>1, <3>2, <2>2, <1>2 DEF WillKnow, LastDecides
    <3>3. CASE i # 1
      <4>1. PICK k \in 1 .. n - 1 : k + 1 = i
        BY <3>3, <1>4
      <4>2. Decides(k, c)' /\ Says(k)' = gains'[c]
        BY <4>1, <3>1, <2>3, <1>2, <1>5 DEF LastDecides, Says
      <4>3. \A j \in DOMAIN focusLog' : j > k => ~Decides(j, c)'
        <5>1. \A j \in 1 .. n - 1 : j > k => j + 1 \in 1 .. n /\ j + 1 > i
          BY <4>1, <1>4
        <5>2. QED
          BY <5>1, <3>1, <2>3, <1>4, <1>5 DEF LastDecides
      <4>4. LastDecides(k, c)'
        BY <4>2, <4>3, <1>5 DEF LastDecides
      <4>5. QED
        BY <4>2, <4>4, <1>5 DEF WillKnow
    <3>4. QED
      BY <3>2, <3>3
  <2>6. QED
    BY <2>1, <2>4, <2>5 DEF WillKnow
<1>9. QED
  BY <1>7, <1>8 DEF LogInv

----------------------------------------------------------------------------
(* Logcat's end excuses everyone, the sweep those it drops.                 *)
LEMMA EndsKeeps == ASSUME LogInv, LogcatEnds PROVE LogInv'
<1>1. focusLog' \in Seq(Lines)
  <2>1. focusLog' = <<>> \/ \E line \in Lines : focusLog' = <<line>>
    <3>1. focusLog # <<>> => focusLog[Len(focusLog)] \in Lines
      BY DEF LogInv, LogTypes
    <3>2. LastLines \subseteq Lines
      BY <3>1 DEF LastLines
    <3>3. QED
      BY <3>2 DEF LogcatEnds
  <2>2. CASE focusLog' = <<>>
    BY <2>2
  <2>3. CASE \E line \in Lines : focusLog' = <<line>>
    <3>1. PICK line \in Lines : focusLog' = <<line>>
      BY <2>3
    <3>2. QED
      BY <3>1
  <2>4. QED
    BY <2>1, <2>2, <2>3
<1>2. QED
  BY <1>1 DEF LogcatEnds, Change, NoHolders, LogInv, LogTypes

LEMMA ExpireKeeps == ASSUME LogInv, ExpireHolders PROVE LogInv'
<1>1. PICK overdue \in SUBSET Clients :
        /\ holders' = [c \in Clients |-> IF c \in overdue THEN 0 ELSE holders[c]]
        /\ excused' = excused \cup overdue
  BY DEF ExpireHolders, Change
<1>2. UNCHANGED <<gains, focusLog, requested>>
  BY DEF ExpireHolders
<1>3. \A c \in Clients \ excused' : holders'[c] = holders[c] /\ WillKnow(c)
  BY <1>1 DEF LogInv
<1>4. LogTypes'
  BY <1>1, <1>2 DEF LogInv, LogTypes
<1>5. \A c \in Clients \ excused' : WillKnow(c)'
  BY <1>2, <1>3 DEF WillKnow, Undecided, LastDecides, Decides, AfterRequest, Says
<1>6. QED
  BY <1>4, <1>5 DEF LogInv

LEMMA ElsewhereKeeps ==
  ASSUME LogInv, UNCHANGED <<gains, focusLog, requested, holders, excused>> PROVE LogInv'
  BY DEF LogInv, LogTypes, WillKnow, Undecided, LastDecides, Decides, AfterRequest, Says

LEMMA LogStep == LogInv /\ [DuckNext]_<<slotVars, duckVars>> => LogInv'
<1> SUFFICES ASSUME LogInv, [DuckNext]_<<slotVars, duckVars>> PROVE LogInv'
  OBVIOUS
<1>1. CASE \E c \in Clients, req \in Requests : AsksFocus(c, req)
  BY <1>1, AsksKeeps
<1>2. CASE \E c \in Clients : AbandonsFocus(c) \/ DiesHolding(c)
  BY <1>2, AbandonsKeeps, DeathKeeps
<1>3. CASE ReadFocusLine \/ LogcatEnds \/ ExpireHolders
  BY <1>3, ReadKeeps, EndsKeeps, ExpireKeeps
<1>4. CASE \E g \in Goroutines : Duck(g)
  BY <1>4, ElsewhereKeeps DEF Duck
<1>5. CASE UNCHANGED watchVars
  BY <1>5, ElsewhereKeeps DEF watchVars, heldVars
<1>6. QED
  BY <1>1, <1>2, <1>3, <1>4, <1>5 DEF DuckNext, DuckStep, duckVars

(* Of every client that is not excused the watcher knows what Android does, *)
(* or the log has yet to tell it.                                           *)
THEOREM LogInductive == DuckSpec => []LogInv
  BY LogInitInv, LogStep, PTL DEF DuckSpec

(* With no call under way, the stream plays at the level of the deepest     *)
(* holder, whoever changed the holders last; and with the log read, the     *)
(* holders are those Android has.                                           *)
THEOREM DuckedRight == DuckSpec => []DuckedAsHeld
<1>1. DuckInv => LevelFollows
  BY DEF DuckInv, LevelIsDeepest, SlotAtCut, AllQuiet, LevelFollows
<1>2. LogInv => HoldersKnown
  BY DEF LogInv, WillKnow, HoldersKnown
<1>3. QED
  BY <1>1, <1>2, DuckInductive, LogInductive, PTL DEF DuckedAsHeld

----------------------------------------------------------------------------
(* Types of what the log does not say.                                      *)
LevelTypes ==
    /\ level \in DuckLevels /\ cut \in DuckLevels
    /\ telling \in [Goroutines -> DuckLevels \cup {Untouched}]
    /\ cutTo \in [Streams -> DuckLevels]
    /\ top \in Clients \cup {NoClient} /\ excused \subseteq Clients

LEMMA LevelTypesStep == LevelTypes /\ SlotTypeOK /\ [DuckNext]_<<slotVars, duckVars>> => LevelTypes'
<1> SUFFICES ASSUME LevelTypes, SlotTypeOK, [DuckNext]_<<slotVars, duckVars>> PROVE LevelTypes'
  OBVIOUS
<1>1. ASSUME NEW g \in Goroutines, NEW table, Change(g, table) 
      PROVE  level' \in DuckLevels /\ telling' \in [Goroutines -> DuckLevels \cup {Untouched}]
  BY <1>1, DeepestIsDuck DEF Change, LevelTypes
<1>2. CASE \E c \in Clients, req \in Requests : AsksFocus(c, req)
  BY <1>2 DEF AsksFocus, LevelTypes, heldVars, cutVars
<1>3. CASE \E c \in Clients : AbandonsFocus(c) \/ DiesHolding(c)
  BY <1>3 DEF AbandonsFocus, DiesHolding, LeavesStack, LevelTypes, heldVars, cutVars
<1>4. CASE ReadFocusLine \/ LogcatEnds
  <2>1. \E table : Change("line", table)
    BY <1>4 DEF ReadFocusLine, LogcatEnds
  <2>2. UNCHANGED <<cut, cutTo, top>> /\ excused' \in {excused, Clients}
    BY <1>4 DEF ReadFocusLine, LogcatEnds, cutVars
  <2>3. QED
    BY <2>1, <2>2, <1>1 DEF Goroutines, LevelTypes
<1>5. CASE ExpireHolders
  <2>1. \E table : Change("sweep", table)
    BY <1>5 DEF ExpireHolders
  <2>2. UNCHANGED <<cut, cutTo, top>> /\ excused' \subseteq Clients
    BY <1>5 DEF ExpireHolders, cutVars, LevelTypes
  <2>3. QED
    BY <2>1, <2>2, <1>1 DEF Goroutines, LevelTypes
<1>6. CASE \E g \in Goroutines : Duck(g)
  BY <1>6 DEF Duck, LevelTypes, SlotTypeOK
<1>7. CASE StartsDucked /\ UNCHANGED watchVars
  BY <1>7 DEF StartsDucked, LevelTypes, watchVars, heldVars
<1>8. CASE UNCHANGED duckVars
  BY <1>8 DEF duckVars, LevelTypes, watchVars, heldVars
<1>9. QED
  BY <1>2, <1>3, <1>4, <1>5, <1>6, <1>7, <1>8 DEF DuckNext, DuckStep

LEMMA DuckTyped == DuckSpec => []DuckTypeOK
<1>1. SlotInit /\ DuckInit => LevelTypes
  BY DEF DuckInit, LevelTypes, DuckLevels
<1>2. DuckInv => SlotTypeOK
  BY DEF DuckInv, SlotInv
<1>3. LogInv /\ LevelTypes => DuckTypeOK
  BY DEF LogInv, LogTypes, LevelTypes, DuckTypeOK
<1>4. QED
  BY <1>1, <1>2, <1>3, LevelTypesStep, DuckInductive, LogInductive, PTL DEF DuckSpec

-----------------------------------------------------------------------------
(* The sessions.                                                            *)

(* Where a session can have a stream at hand: from the opening of one to    *)
(* the end of its stop, which comes before any loss of the hold.            *)
Sounds == {"read", "hold", "first", "regain", "ready", "agree", "answer", "open", "stop", "closer"}

(* What a session that has a role does between two messages, or for one.    *)
Serving == {"read", "ready", "agree", "answer", "open", "new"}

Types ==
    /\ held \in Peers \cup {Nobody}
    /\ at \in [Peers -> Stages]
    /\ then \in [Peers -> {"read", "new", "quit", "end"}]
    /\ roles \in [Peers -> BOOLEAN]
    /\ stream \in [Peers -> Streams \cup {NoStream}]
    /\ asking \in [Peers -> Rates]

(* The stops of a stream/start, which the session survives with its role,   *)
(* and those of a role that was taken away.                                 *)
Restarts(p) == at[p] \in {"stop", "closer"} /\ then[p] \in {"read", "new"}
Quits(p) == at[p] = "quit" \/ (at[p] \in {"stop", "closer"} /\ then[p] = "quit")

(* A session that serves a role holds the player ...                        *)
ServesHeld(p) ==
    /\ at[p] \in {"first", "regain"} => held = p
    /\ at[p] \in Serving /\ roles[p] => held = p
    /\ at[p] \in {"open", "new"} => roles[p]
    /\ Restarts(p) => roles[p] /\ held = p

(* ... and one that has lost it, or never had it, has no role.              *)
Roleless(p) == at[p] \in {"out", "hello"} \/ Quits(p) => ~roles[p]

(* Only who holds the player has a stream, and only while it may.           *)
HeldSounds(p) == stream[p] # NoStream => held = p /\ at[p] \in Sounds

(* A closer is called for a stream that is closed.                          *)
ClosersClosed(p) ==
    at[p] = "closer" => stream[p] \in Streams /\ streamAt[stream[p]] = "closed"

Orderly == \A p \in Peers : ServesHeld(p) /\ Roleless(p) /\ HeldSounds(p) /\ ClosersClosed(p)

(* A stream that keeps the slot is at some session's hand.                  *)
SlotIsOwned == Refused => \E p \in Peers : stream[p] = slot

SessParts == Types /\ Orderly /\ SlotIsOwned
SessInv == SlotInv /\ SessParts

USE SessionsAssumption

----------------------------------------------------------------------------
(* What a step that has nothing to do with the stream leaves alone.         *)
sessVars == <<held, at, then, roles, asking, playVars>>

LEMMA SessInitInv == Init => SessInv
<1> SUFFICES ASSUME Init PROVE SessInv
  OBVIOUS
<1>1. SlotInv
  BY SlotInitInv DEF Init
<1>2. Types
  BY DEF Init, Types, Stages
<1>3. Orderly
  BY DEF Init, Orderly, ServesHeld, Roleless, HeldSounds, ClosersClosed, Restarts, Quits, Serving
<1>4. SlotIsOwned
  BY DEF Init, SlotInit, SlotIsOwned, Refused
<1>5. QED
  BY <1>1, <1>2, <1>3, <1>4 DEF SessInv, SessParts

LEMMA StillKeeps == ASSUME SessParts, UNCHANGED sessVars PROVE SessParts'
  BY DEF sessVars, playVars, slotVars, SessParts, Types, Orderly, ServesHeld, Roleless,
     HeldSounds, ClosersClosed, Restarts, Quits, SlotIsOwned, Refused, Spent

(* A session walks from one stage to another, the rest is as it was.        *)
LEMMA WalkKeeps ==
  ASSUME SessParts, NEW p \in Peers, NEW stage \in Stages, Goes(p, stage),
         UNCHANGED <<held, then, roles, asking, playVars>>,
         stage \in {"first", "regain"} => held = p,
         stage \in Serving /\ roles[p] => held = p,
         stage \in {"open", "new"} => roles[p],
         stage \in {"out", "hello", "quit"} => ~roles[p],
         stage \notin {"stop", "closer"},
         stream[p] # NoStream => stage \in Sounds
  PROVE  SessParts'
<1>1. Types'
  BY DEF SessParts, Types, Goes, playVars
<1>2. Orderly'
  <2> SUFFICES ASSUME NEW q \in Peers
               PROVE  (ServesHeld(q) /\ Roleless(q) /\ HeldSounds(q) /\ ClosersClosed(q))'
    BY DEF Orderly
  <2>1. CASE q = p
    BY <2>1 DEF SessParts, Types, Orderly, ServesHeld, Roleless, HeldSounds, ClosersClosed,
       Restarts, Quits, Goes, playVars, slotVars
  <2>2. CASE q # p
    BY <2>2 DEF SessParts, Types, Orderly, ServesHeld, Roleless, HeldSounds, ClosersClosed,
       Restarts, Quits, Goes, playVars, slotVars
  <2>3. QED
    BY <2>1, <2>2
<1>3. SlotIsOwned'
  BY DEF SessParts, SlotIsOwned, Refused, Spent, playVars, slotVars
<1>4. QED
  BY <1>1, <1>2, <1>3 DEF SessParts

(* A session begins to stop its stream, for something to follow.            *)
LEMMA StopsKeeps ==
  ASSUME SessParts, NEW p \in Peers, NEW stage \in {"read", "new", "quit", "end"},
         Stops(p, stage), UNCHANGED <<held, asking, playVars>>,
         roles' \in [Peers -> BOOLEAN], \A q \in Peers \ {p} : roles'[q] = roles[q],
         stage \in {"read", "new"} => roles'[p] /\ held = p,
         stage = "quit" => ~roles'[p]
  PROVE  SessParts'
<1>1. Types'
  BY DEF SessParts, Types, Stages, Stops, Goes, playVars
<1>2. Orderly'
  <2> SUFFICES ASSUME NEW q \in Peers
               PROVE  (ServesHeld(q) /\ Roleless(q) /\ HeldSounds(q) /\ ClosersClosed(q))'
    BY DEF Orderly
  <2>1. CASE q = p
    BY <2>1 DEF SessParts, Types, Orderly, ServesHeld, Roleless, HeldSounds, ClosersClosed,
       Restarts, Quits, Serving, Sounds, Stops, Goes, playVars, slotVars
  <2>2. CASE q # p
    BY <2>2 DEF SessParts, Types, Orderly, ServesHeld, Roleless, HeldSounds, ClosersClosed,
       Restarts, Quits, Stops, Goes, playVars, slotVars
  <2>3. QED
    BY <2>1, <2>2
<1>3. SlotIsOwned'
  BY DEF SessParts, SlotIsOwned, Refused, Spent, playVars, slotVars
<1>4. QED
  BY <1>1, <1>2, <1>3 DEF SessParts

(* Steps of the others: the goroutines of a session, Close, the user.       *)
Stills ==
    \/ \E p \in Peers : Drop(p) \/ Farewell(p) \/ ReportDelays(p) \/ WatchOutput(p) \/ WatchVolume(p)
    \/ \E ms \in Delays : SetDelay(ms)
    \/ TellsServer \/ PutsToken \/ Close \/ OutputMoves \/ LevelChanges

LEMMA StillSteps == Stills => UNCHANGED sessVars
<1> USE DEF sessVars, clientVars, runVars, mainVars, factVars
<1>1. ASSUME NEW p \in Peers, Drop(p) \/ Farewell(p) \/ WatchVolume(p) PROVE UNCHANGED sessVars
  BY <1>1 DEF Drop, Farewell, WatchVolume
<1>2. ASSUME NEW p \in Peers, ReportDelays(p) PROVE UNCHANGED sessVars
  BY <1>2 DEF ReportDelays, TokenTaken, Reporting, MakesUp, Sends, ReporterEnds
<1>3. ASSUME NEW p \in Peers, WatchOutput(p) PROVE UNCHANGED sessVars
  BY <1>3 DEF WatchOutput, WatchStarts, WatchLooks, WatchHeld, WatchStores, WatchTells,
     WatchAsks, WatchReformats, WatchTicks
<1>4. ASSUME NEW ms \in Delays, SetDelay(ms) PROVE UNCHANGED sessVars
  BY <1>4 DEF SetDelay
<1>5. TellsServer \/ PutsToken \/ Close \/ OutputMoves \/ LevelChanges => UNCHANGED sessVars
  BY DEF TellsServer, PutsToken, Close, OutputMoves, LevelChanges
<1>6. QED
  BY <1>1, <1>2, <1>3, <1>4, <1>5 DEF Stills

(* Stages walked through on the strength of WalkKeeps.                      *)
LEMMA EnterKeeps == ASSUME SessParts, NEW p \in Peers, Enter(p) PROVE SessParts'
<1>1. UNCHANGED <<held, then, roles, asking, playVars>> /\ Goes(p, "hello")
  BY DEF Enter, mainVars, factVars
<1>2. ~roles[p] /\ stream[p] = NoStream
  BY DEF Enter, SessParts, Types, Orderly, Roleless, HeldSounds, Sounds
<1>3. QED
  BY <1>1, <1>2, WalkKeeps DEF Stages, Serving

LEMMA HandshakesKeeps == ASSUME SessParts, NEW p \in Peers, Handshakes(p) PROVE SessParts'
<1>1. UNCHANGED <<held, then, roles, asking, playVars>>
  BY DEF Handshakes, clientVars, mainVars, factVars
<1>2. ~roles[p] /\ stream[p] = NoStream
  BY DEF Handshakes, SessParts, Types, Orderly, Roleless, HeldSounds, Sounds
<1>3. Goes(p, "read") \/ Goes(p, "leave")
  BY DEF Handshakes
<1>4. QED
  BY <1>1, <1>2, <1>3, WalkKeeps DEF Stages, Serving

LEMMA ReadFailsKeeps == ASSUME SessParts, NEW p \in Peers, ReadFails(p) PROVE SessParts'
<1>1. Stops(p, "end") /\ UNCHANGED <<held, roles, asking, playVars>>
  BY DEF ReadFails, Returns, Stops, clientVars, factVars
<1>2. QED
  BY <1>1, StopsKeeps DEF SessParts, Types

(* The role comes before the hold does, on the way to which nothing sounds  *)
(* that was not held before.                                                *)
LEMMA ActivateKeeps == ASSUME SessParts, NEW p \in Peers, Activate(p) PROVE SessParts'
<1>1. UNCHANGED <<held, then, asking, playVars>> /\ roles' = [roles EXCEPT ![p] = TRUE]
      /\ Goes(p, "hold")
  BY DEF Activate, clientVars, mainVars, factVars
<1>2. Types'
  BY <1>1 DEF SessParts, Types, Goes, Stages, playVars
<1>3. Orderly'
  BY <1>1 DEF SessParts, Types, Orderly, ServesHeld, Roleless, HeldSounds, ClosersClosed,
     Restarts, Quits, Serving, Sounds, Goes, playVars, slotVars
<1>4. SlotIsOwned'
  BY <1>1 DEF SessParts, SlotIsOwned, Refused, Spent, playVars, slotVars
<1>5. QED
  BY <1>2, <1>3, <1>4 DEF SessParts

LEMMA DeactivateKeeps == ASSUME SessParts, NEW p \in Peers, Deactivate(p) PROVE SessParts'
<1>1. Stops(p, "quit") /\ UNCHANGED <<held, asking, playVars>>
      /\ roles' = [roles EXCEPT ![p] = FALSE]
  BY DEF Deactivate, clientVars, factVars
<1>2. QED
  BY <1>1, StopsKeeps DEF SessParts, Types

(* The hold is let go of by a session without a stream or a role to serve.  *)
LEMMA LetsGoKeeps ==
  ASSUME SessParts, NEW p \in Peers, LetsGo(p), UNCHANGED <<roles, asking, playVars>>,
         \/ at[p] = "quit" /\ Goes(p, "read") /\ UNCHANGED then
         \/ at[p] = "quit" /\ Returns(p)
         \/ at[p] = "release" /\ Goes(p, "leave") /\ UNCHANGED then
  PROVE  SessParts'
<1>1. held' \in Peers \cup {Nobody} /\ \A q \in Peers \ {p} : held = q => held' = q
  BY DEF SessParts, Types, LetsGo
<1>2. Types'
  BY <1>1 DEF SessParts, Types, Stages, Returns, Goes, playVars
<1>3. Orderly'
  <2> SUFFICES ASSUME NEW q \in Peers
               PROVE  (ServesHeld(q) /\ Roleless(q) /\ HeldSounds(q) /\ ClosersClosed(q))'
    BY DEF Orderly
  <2>1. CASE q = p
    BY <2>1 DEF SessParts, Types, Orderly, ServesHeld, Roleless, HeldSounds, ClosersClosed,
       Restarts, Quits, Serving, Sounds, Returns, Goes, playVars, slotVars
  <2>2. CASE q # p
    BY <1>1, <2>2 DEF SessParts, Types, Orderly, ServesHeld, Roleless, HeldSounds, ClosersClosed,
       Restarts, Quits, Returns, Goes, playVars, slotVars
  <2>3. QED
    BY <2>1, <2>2
<1>4. SlotIsOwned'
  BY DEF SessParts, SlotIsOwned, Refused, Spent, playVars, slotVars
<1>5. QED
  BY <1>2, <1>3, <1>4 DEF SessParts

LEMMA QuitKeeps == ASSUME SessParts, NEW p \in Peers, Quit(p) PROVE SessParts'
  BY LetsGoKeeps DEF Quit

LEMMA ReleaseKeeps == ASSUME SessParts, NEW p \in Peers, Release(p) PROVE SessParts'
  BY LetsGoKeeps DEF Release, runVars, mainVars, factVars

(* One that finds the player free holds it; one that does not, and has no   *)
(* stream therefore, ends.                                                  *)
LEMMA HoldKeeps == ASSUME SessParts, NEW p \in Peers, Hold(p) PROVE SessParts'
<1>1. UNCHANGED <<roles, asking, playVars>> /\ at[p] = "hold"
  BY DEF Hold, factVars
<1>2. CASE held \in {Nobody, p}
  <2>1. UNCHANGED then /\ held' = p
        /\ Goes(p, IF ~stated[p] THEN "first" ELSE IF roleless[p] THEN "regain" ELSE "read")
    BY <1>2 DEF Hold
  <2>2. PICK stage \in {"first", "regain", "read"} : Goes(p, stage)
    BY <2>1
  <2>3. Types'
    BY <1>1, <2>1, <2>2 DEF SessParts, Types, Stages, Goes, playVars
  <2>4. Orderly'
    <3> SUFFICES ASSUME NEW q \in Peers
                 PROVE  (ServesHeld(q) /\ Roleless(q) /\ HeldSounds(q) /\ ClosersClosed(q))'
      BY DEF Orderly
    <3>1. CASE q = p
      BY <1>1, <2>1, <2>2, <3>1 DEF SessParts, Types, Orderly, ServesHeld, Roleless, HeldSounds,
         ClosersClosed, Restarts, Quits, Sounds, Goes, playVars, slotVars
    <3>2. CASE q # p
      BY <1>1, <1>2, <2>1, <2>2, <3>2 DEF SessParts, Types, Orderly, ServesHeld, Roleless,
         HeldSounds, ClosersClosed, Restarts, Quits, Goes, playVars, slotVars
    <3>3. QED
      BY <3>1, <3>2
  <2>5. SlotIsOwned'
    BY <1>1 DEF SessParts, SlotIsOwned, Refused, Spent, playVars, slotVars
  <2>6. QED
    BY <2>3, <2>4, <2>5 DEF SessParts
<1>3. CASE held \notin {Nobody, p}
  <2>1. Stops(p, "end") /\ UNCHANGED held
    BY <1>3 DEF Hold, Returns, Stops
  <2>2. QED
    BY <1>1, <2>1, StopsKeeps DEF SessParts, Types
<1>4. QED
  BY <1>2, <1>3

(* A state that cannot be sent ends the session.                            *)
LEMMA FirstKeeps == ASSUME SessParts, NEW p \in Peers, First(p) PROVE SessParts'
<1>1. UNCHANGED <<held, roles, asking, playVars>> /\ held = p
  BY DEF First, SessParts, Orderly, ServesHeld, clientVars
<1>2. \/ Goes(p, "read") /\ UNCHANGED then
      \/ Stops(p, "end")
  BY DEF First, Returns, Stops
<1>3. QED
  BY <1>1, <1>2, WalkKeeps, StopsKeeps DEF Stages, Sounds, SessParts, Types

LEMMA AnswerKeeps == ASSUME SessParts, NEW p \in Peers, Answer(p) PROVE SessParts'
<1>1. UNCHANGED <<held, roles, asking, playVars>> /\ (roles[p] => held = p)
  BY DEF Answer, SessParts, Orderly, ServesHeld, Serving, clientVars, factVars
<1>2. \/ Goes(p, "read") /\ UNCHANGED then
      \/ Stops(p, "end")
  BY DEF Answer, Returns, Stops
<1>3. QED
  BY <1>1, <1>2, WalkKeeps, StopsKeeps DEF Stages, Sounds, SessParts, Types

LEMMA RegainKeeps == ASSUME SessParts, NEW p \in Peers, Regain(p) PROVE SessParts'
<1>1. UNCHANGED <<held, then, roles, asking, playVars>> /\ Goes(p, "read")
  BY DEF Regain, runVars, mainVars, factVars, clientVars
<1>2. held = p
  BY DEF Regain, SessParts, Orderly, ServesHeld
<1>3. QED
  BY <1>1, <1>2, WalkKeeps DEF Stages, Sounds

LEMMA ClockAgreesKeeps == ASSUME SessParts, NEW p \in Peers, ClockAgrees(p) PROVE SessParts'
<1>1. UNCHANGED <<held, then, roles, asking, playVars>> /\ Goes(p, "ready")
  BY DEF ClockAgrees, runVars, mainVars, factVars, clientVars
<1>2. (roles[p] => held = p)
  BY DEF ClockAgrees, SessParts, Orderly, ServesHeld, Serving, Reads
<1>3. QED
  BY <1>1, <1>2, WalkKeeps DEF Stages, Sounds

LEMMA HoldReadyKeeps == ASSUME SessParts, NEW p \in Peers, HoldReady(p) PROVE SessParts'
<1>1. UNCHANGED <<held, then, roles, asking, playVars>> /\ Goes(p, "agree")
  BY DEF HoldReady, runVars, mainVars, factVars, clientVars
<1>2. (roles[p] => held = p)
  BY DEF HoldReady, SessParts, Orderly, ServesHeld, Serving, Reads
<1>3. QED
  BY <1>1, <1>2, WalkKeeps DEF Stages, Sounds

LEMMA StaticDelayKeeps == ASSUME SessParts, NEW p \in Peers, NEW ms \in Delays, StaticDelay(p, ms) PROVE SessParts'
<1>1. UNCHANGED <<held, then, roles, asking, playVars>> /\ Goes(p, "answer")
  BY DEF StaticDelay, runVars, mainVars, factVars, clientVars
<1>2. (roles[p] => held = p)
  BY DEF StaticDelay, SessParts, Orderly, ServesHeld, Serving, Reads
<1>3. QED
  BY <1>1, <1>2, WalkKeeps DEF Stages, Sounds

LEMMA StartStreamKeeps ==
  ASSUME SessParts, NEW p \in Peers, NEW rate \in Rates, StartStream(p, rate) PROVE SessParts'
<1>1. /\ UNCHANGED <<held, then, roles, playVars>> /\ Goes(p, "open")
      /\ asking' = [asking EXCEPT ![p] = rate]
      /\ roles[p] /\ held = p
  BY DEF StartStream, Reads, SessParts, Orderly, ServesHeld, Serving, clientVars
<1>2. Types'
  BY <1>1 DEF SessParts, Types, Goes, Stages, playVars
<1>3. Orderly'
  BY <1>1 DEF SessParts, Types, Orderly, ServesHeld, Roleless, HeldSounds, ClosersClosed,
     Restarts, Quits, Serving, Sounds, Goes, playVars, slotVars
<1>4. SlotIsOwned'
  BY <1>1 DEF SessParts, SlotIsOwned, Refused, Spent, playVars, slotVars
<1>5. QED
  BY <1>2, <1>3, <1>4 DEF SessParts

LEMMA UnplayableKeeps == ASSUME SessParts, NEW p \in Peers, Unplayable(p) PROVE SessParts'
<1>1. Stops(p, "read") /\ UNCHANGED <<held, roles, asking, playVars>> /\ roles[p] /\ held = p
  BY DEF Unplayable, Reads, SessParts, Orderly, ServesHeld, Serving, clientVars, factVars
<1>2. QED
  BY <1>1, StopsKeeps DEF SessParts, Types

LEMMA EndKeeps == ASSUME SessParts, NEW p \in Peers, End(p) PROVE SessParts'
<1>1. UNCHANGED <<held, then, roles, asking, playVars>> /\ Goes(p, "release")
  BY DEF End, runVars, mainVars, factVars, clientVars
<1>2. stream[p] = NoStream
  BY DEF End, SessParts, Types, Orderly, HeldSounds, Sounds
<1>3. QED
  BY <1>1, <1>2, WalkKeeps DEF Stages, Serving

LEMMA LeaveKeeps == ASSUME SessParts, NEW p \in Peers, Leave(p) PROVE SessParts'
<1>1. UNCHANGED <<held, then, roles, asking, playVars>> /\ Goes(p, "over")
  BY DEF Leave, runVars, mainVars, factVars, clientVars
<1>2. stream[p] = NoStream
  BY DEF Leave, SessParts, Types, Orderly, HeldSounds, Sounds
<1>3. QED
  BY <1>1, <1>2, WalkKeeps DEF Stages, Serving

LEMMA OverKeeps == ASSUME SessParts, NEW p \in Peers, Over(p) PROVE SessParts'
<1>1. /\ UNCHANGED <<held, then, playVars>> /\ Goes(p, "out") /\ at[p] = "over"
      /\ asking' = [asking EXCEPT ![p] = Speaker] /\ roles' = [roles EXCEPT ![p] = FALSE]
  BY DEF Over, clientVars
<1>2. Types'
  BY <1>1, StreamsAssumption DEF SessParts, Types, Goes, Stages, playVars
<1>3. Orderly'
  BY <1>1 DEF SessParts, Types, Orderly, ServesHeld, Roleless, HeldSounds, ClosersClosed,
     Restarts, Quits, Serving, Sounds, Goes, playVars, slotVars
<1>4. SlotIsOwned'
  BY <1>1 DEF SessParts, SlotIsOwned, Refused, Spent, playVars, slotVars
<1>5. QED
  BY <1>2, <1>3, <1>4 DEF SessParts

----------------------------------------------------------------------------
(* The steps that touch a stream, each with what StreamSlot calls it.       *)
LEMMA WriterSteps == Writer => SlotNext /\ UNCHANGED <<held, at, then, roles, asking, stream>>
  BY DEF Writer, SlotNext, clientVars, runVars, mainVars, factVars

(* Only what is closed, of the streams that were, and no more in the slot.  *)
LEMMA SlotKeeps ==
  ASSUME SessParts, UNCHANGED <<held, at, then, roles, asking, stream>>,
         \A s \in Streams : streamAt[s] = "closed" => streamAt'[s] = "closed",
         Refused' => Refused /\ slot' = slot
  PROVE  SessParts'
<1>1. Types'
  BY DEF SessParts, Types
<1>2. Orderly'
  BY DEF SessParts, Orderly, ServesHeld, Roleless, HeldSounds, ClosersClosed, Restarts, Quits
<1>3. SlotIsOwned'
  BY DEF SessParts, SlotIsOwned
<1>4. QED
  BY <1>1, <1>2, <1>3 DEF SessParts

LEMMA WriterKeeps == ASSUME SessInv, Writer PROVE SessParts'
<1>1. \A s \in Streams : streamAt[s] = "closed" => streamAt'[s] = "closed"
  BY DEF Writer, Writes, Look, LetGo, Retune, MixNext, Woken, SessInv, SlotInv, SlotTypeOK
<1>2. Refused' => Refused /\ slot' = slot
  BY StreamsAssumption DEF Writer, Writes, Look, LetGo, Retune, MixNext, Woken, Refused, Spent,
     Without, SessInv, SlotInv, SlotTypeOK
<1>3. QED
  BY <1>1, <1>2, WriterSteps, SlotKeeps DEF SessInv

LEMMA EndStreamSteps ==
  ASSUME SessParts, NEW p \in Peers, EndStream(p)
  PROVE  /\ stream[p] \in Streams /\ Finish(stream[p])
         /\ UNCHANGED <<held, at, then, roles, asking, stream>>
  BY DEF EndStream, SessParts, Types, clientVars, runVars, mainVars, factVars

LEMMA EndStreamKeeps == ASSUME SessInv, NEW p \in Peers, EndStream(p) PROVE SessParts'
<1>1. stream[p] \in Streams /\ Finish(stream[p])
  BY EndStreamSteps DEF SessInv
<1>2. \A s \in Streams : streamAt[s] = "closed" => streamAt'[s] = "closed"
  BY <1>1 DEF Finish, SessInv, SlotInv, SlotTypeOK
<1>3. Refused' => Refused /\ slot' = slot
  BY <1>1 DEF Finish, Refused, Spent, SessInv, SlotInv, SlotTypeOK
<1>4. QED
  BY <1>2, <1>3, EndStreamSteps, SlotKeeps DEF SessInv

(* A stream/start goes on with the stream at hand, or stops it first.       *)
LEMMA OpenSteps ==
  ASSUME SessParts, NEW p \in Peers, Open(p)
  PROVE  /\ UNCHANGED <<held, roles, asking, stream>>
         /\ at[p] = "open" /\ roles[p] /\ held = p
         /\ \/ /\ stream[p] \in Streams /\ Resume(stream[p])
               /\ Goes(p, "read") /\ UNCHANGED then
            \/ Stops(p, "new") /\ UNCHANGED slotVars
<1>1. at[p] = "open" /\ roles[p] /\ held = p
  BY DEF Open, SessParts, Orderly, ServesHeld, Serving
<1>2. UNCHANGED <<held, roles, asking, stream>>
  BY DEF Open, clientVars, factVars
<1>3. \/ /\ stream[p] \in Streams /\ Resume(stream[p])
         /\ Goes(p, "read") /\ UNCHANGED then
      \/ Stops(p, "new") /\ UNCHANGED slotVars
  BY DEF Open, SessParts, Types
<1>4. QED
  BY <1>1, <1>2, <1>3

LEMMA OpenKept == ASSUME SessInv, NEW p \in Peers, Open(p) PROVE SessParts'
<1> SessParts
  BY DEF SessInv
<1>1. CASE stream[p] \in Streams /\ Resume(stream[p]) /\ Goes(p, "read") /\ UNCHANGED then
  <2>1. UNCHANGED <<held, roles, asking, stream>> /\ roles[p] /\ held = p
    BY OpenSteps
  <2>2. Types'
    BY <1>1, <2>1 DEF SessParts, Types, Goes, Stages
  <2>3. \A s \in Streams : streamAt[s] = "closed" => streamAt'[s] = "closed"
    BY <1>1 DEF Resume, Spent, SessInv, SlotInv, SlotTypeOK
  <2>4. Orderly'
    BY <1>1, <2>1, <2>3 DEF SessParts, Types, Orderly, ServesHeld, Roleless, HeldSounds,
       ClosersClosed, Restarts, Quits, Sounds, Goes
  <2>5. SlotIsOwned'
    BY <1>1, <2>1 DEF Resume, SessParts, SlotIsOwned, Refused, Spent, SessInv, SlotInv, SlotTypeOK
  <2>6. QED
    BY <2>2, <2>4, <2>5 DEF SessParts
<1>2. CASE Stops(p, "new") /\ UNCHANGED slotVars
  BY <1>2, OpenSteps, StopsKeeps DEF SessParts, Types, playVars
<1>3. QED
  BY <1>1, <1>2, OpenSteps

(* A new stream is one that no session has at hand.                         *)
LEMMA OpenNewSteps ==
  ASSUME SessParts, NEW p \in Peers, OpenNew(p)
  PROVE  /\ UNCHANGED <<held, then, roles, asking>> /\ Goes(p, "read")
         /\ at[p] = "new" /\ roles[p] /\ held = p
         /\ \/ UNCHANGED playVars
            \/ /\ ~Refused /\ Free(Fresh) /\ Fresh \in Streams
               /\ OpenStream(Fresh, asking[p])
               /\ stream' = [stream EXCEPT ![p] = Fresh]
<1>1. at[p] = "new" /\ roles[p] /\ held = p
  BY DEF OpenNew, SessParts, Orderly, ServesHeld, Serving
<1>2. UNCHANGED <<held, then, roles, asking>> /\ Goes(p, "read")
  BY DEF OpenNew, clientVars, mainVars, factVars
<1>3. (\E s \in Streams : Free(s)) => Fresh \in Streams /\ Free(Fresh)
  BY DEF Fresh
<1>4. QED
  BY <1>1, <1>2, <1>3 DEF OpenNew

LEMMA OpenNewKeeps == ASSUME SessInv, NEW p \in Peers, OpenNew(p) PROVE SessParts'
<1> SessParts
  BY DEF SessInv
<1>1. CASE UNCHANGED playVars
  BY <1>1, OpenNewSteps, WalkKeeps DEF Stages, Sounds
<1>2. CASE /\ ~Refused /\ Free(Fresh) /\ Fresh \in Streams
           /\ OpenStream(Fresh, asking[p])
           /\ stream' = [stream EXCEPT ![p] = Fresh]
  <2>1. UNCHANGED <<held, then, roles, asking>> /\ Goes(p, "read") /\ at[p] = "new"
        /\ roles[p] /\ held = p
    BY OpenNewSteps
  <2> HIDE DEF Fresh
  <2>2. Types'
    BY <1>2, <2>1 DEF SessParts, Types, Goes, Stages
  <2>3. \A q \in Peers : stream[q] # Fresh
    BY <1>2 DEF Free
  <2>4. \A s \in Streams \ {Fresh} : streamAt[s] = "closed" => streamAt'[s] = "closed"
    BY <1>2 DEF OpenStream, SessInv, SlotInv, SlotTypeOK
  <2>5. Orderly'
    <3> SUFFICES ASSUME NEW q \in Peers
                 PROVE  (ServesHeld(q) /\ Roleless(q) /\ HeldSounds(q) /\ ClosersClosed(q))'
      BY DEF Orderly
    <3>1. CASE q = p
      BY <1>2, <2>1, <3>1 DEF SessParts, Types, Orderly, ServesHeld, Roleless, HeldSounds,
         ClosersClosed, Restarts, Quits, Sounds, Goes
    <3>2. CASE q # p
      BY <1>2, <2>1, <2>3, <2>4, <3>2 DEF SessParts, Types, Orderly, ServesHeld, Roleless,
         HeldSounds, ClosersClosed, Restarts, Quits, Goes
    <3>3. QED
      BY <3>1, <3>2
  <2>6. SlotIsOwned'
    BY <1>2 DEF OpenStream, SlotIsOwned, SessParts, Types
  <2>7. QED
    BY <2>2, <2>5, <2>6 DEF SessParts
<1>3. QED
  BY <1>1, <1>2, OpenNewSteps

(* A stop lets go of what is over, or closes and then has the closer let go.*)
LEMMA StopSteps ==
  ASSUME SessParts, NEW p \in Peers, Stop(p)
  PROVE  /\ UNCHANGED <<held, roles, asking>> /\ at[p] = "stop"
         /\ \/ /\ stream[p] \notin Streams \/ streamAt[stream[p]] = "closed"
               /\ stream' = [stream EXCEPT ![p] = NoStream]
               /\ Goes(p, then[p]) /\ then' = [then EXCEPT ![p] = "read"]
               /\ UNCHANGED slotVars
            \/ /\ stream[p] \in Streams /\ CloseStream(stream[p])
               /\ Goes(p, "closer") /\ UNCHANGED <<stream, then>>
  BY StreamsAssumption DEF Stop, SessParts, Types, clientVars, factVars

LEMMA LetStreamGoSteps ==
  ASSUME SessParts, NEW p \in Peers, LetStreamGo(p)
  PROVE  /\ UNCHANGED <<held, roles, asking>> /\ at[p] = "closer"
         /\ stream[p] \in Streams /\ streamAt[stream[p]] = "closed" /\ Closer(stream[p])
         /\ stream' = [stream EXCEPT ![p] = NoStream]
         /\ Goes(p, then[p]) /\ then' = [then EXCEPT ![p] = "read"]
  BY DEF LetStreamGo, SessParts, Orderly, ClosersClosed, clientVars, factVars

(* Either way the session goes on without a stream to what the stop was for.*)
LEMMA StoppedKeeps ==
  ASSUME SessParts, NEW p \in Peers, at[p] \in {"stop", "closer"},
         UNCHANGED <<held, roles, asking, streamAt>>,
         stream' = [stream EXCEPT ![p] = NoStream],
         Goes(p, then[p]), then' = [then EXCEPT ![p] = "read"]
  PROVE  Types' /\ Orderly'
<1>1. Types'
  BY DEF SessParts, Types, Goes, Stages
<1>2. Orderly'
  <2> SUFFICES ASSUME NEW q \in Peers
               PROVE  (ServesHeld(q) /\ Roleless(q) /\ HeldSounds(q) /\ ClosersClosed(q))'
    BY DEF Orderly
  <2>1. CASE q = p
    BY <2>1 DEF SessParts, Types, Orderly, ServesHeld, Roleless, HeldSounds, ClosersClosed,
       Restarts, Quits, Serving, Sounds, Goes
  <2>2. CASE q # p
    BY <2>2 DEF SessParts, Types, Orderly, ServesHeld, Roleless, HeldSounds, ClosersClosed,
       Restarts, Quits, Goes
  <2>3. QED
    BY <2>1, <2>2
<1>3. QED
  BY <1>1, <1>2

LEMMA StopKeeps == ASSUME SessInv, NEW p \in Peers, Stop(p) PROVE SessParts'
<1> SessParts
  BY DEF SessInv
<1>1. UNCHANGED <<held, roles, asking>> /\ at[p] = "stop"
  BY StopSteps
<1>2. CASE /\ stream[p] \notin Streams \/ streamAt[stream[p]] = "closed"
           /\ stream' = [stream EXCEPT ![p] = NoStream]
           /\ Goes(p, then[p]) /\ then' = [then EXCEPT ![p] = "read"]
           /\ UNCHANGED slotVars
  <2>1. Types' /\ Orderly'
    BY <1>1, <1>2, StoppedKeeps DEF slotVars
  <2>2. SlotIsOwned'
    BY <1>2
       DEF slotVars, SessInv, SlotInv, SlotTypeOK, SessParts, Types, SlotIsOwned, Refused, Spent
  <2>3. QED
    BY <2>1, <2>2 DEF SessParts
<1>3. CASE /\ stream[p] \in Streams /\ CloseStream(stream[p])
           /\ Goes(p, "closer") /\ UNCHANGED <<stream, then>>
  <2>1. Types'
    BY <1>1, <1>3 DEF SessParts, Types, Goes, Stages
  <2>2. \A s \in Streams : streamAt[s] = "closed" \/ s = stream[p] => streamAt'[s] = "closed"
    BY <1>3 DEF CloseStream, SessInv, SlotInv, SlotTypeOK
  <2>3. Orderly'
    <3> SUFFICES ASSUME NEW q \in Peers
                 PROVE  (ServesHeld(q) /\ Roleless(q) /\ HeldSounds(q) /\ ClosersClosed(q))'
      BY DEF Orderly
    <3>1. CASE q = p
      BY <1>1, <1>3, <2>2, <3>1 DEF SessParts, Types, Orderly, ServesHeld, Roleless, HeldSounds,
         ClosersClosed, Restarts, Quits, Serving, Sounds, Goes
    <3>2. CASE q # p
      BY <1>1, <1>3, <2>2, <3>2 DEF SessParts, Types, Orderly, ServesHeld, Roleless, HeldSounds,
         ClosersClosed, Restarts, Quits, Goes
    <3>3. QED
      BY <3>1, <3>2
  <2>4. SlotIsOwned'
    BY <1>3 DEF CloseStream, SessInv, SlotInv, SlotTypeOK, SessParts, SlotIsOwned, Refused, Spent
  <2>5. QED
    BY <2>1, <2>3, <2>4 DEF SessParts
<1>4. QED
  BY <1>2, <1>3, StopSteps

LEMMA LetStreamGoKeeps == ASSUME SessInv, NEW p \in Peers, LetStreamGo(p) PROVE SessParts'
<1> SessParts
  BY DEF SessInv
<1>1. Types' /\ Orderly'
  BY LetStreamGoSteps, StoppedKeeps DEF Closer
<1>2. SlotIsOwned'
  BY LetStreamGoSteps, StreamsAssumption DEF Closer, Without, SessParts, Types, SlotIsOwned,
     Refused, Spent, SessInv, SlotInv, SlotTypeOK
<1>3. QED
  BY <1>1, <1>2 DEF SessParts

----------------------------------------------------------------------------
(* Every step, by what it is of.                                            *)
Walks(p) ==
    \/ Enter(p) \/ Handshakes(p) \/ ReadFails(p)
    \/ Activate(p) \/ Deactivate(p) \/ Quit(p) \/ Hold(p) \/ First(p) \/ Regain(p)
    \/ ClockAgrees(p) \/ HoldReady(p) \/ Answer(p)
    \/ \E ms \in Delays : StaticDelay(p, ms)
    \/ \E rate \in Rates : StartStream(p, rate)
    \/ Unplayable(p) \/ End(p) \/ Release(p) \/ Leave(p) \/ Over(p)

Plays(p) == Open(p) \/ OpenNew(p) \/ EndStream(p) \/ Stop(p) \/ LetStreamGo(p)

LEMMA ClientStepIs == ClientStep => Stills \/ Writer \/ \E p \in Peers : Walks(p) \/ Plays(p)
  BY DEF ClientStep, ServeConn, Run, Stills, Walks, Plays

Idles == UNCHANGED <<ownVars, slotVars>>

LEMMA NextIs == [Next]_vars => Stills \/ Idles \/ Writer \/ \E p \in Peers : Walks(p) \/ Plays(p)
  BY ClientStepIs DEF Next, Idles, vars

LEMMA WalksKeep == ASSUME SessParts, NEW p \in Peers, Walks(p) PROVE SessParts'
  BY EnterKeeps, HandshakesKeeps, ReadFailsKeeps, ActivateKeeps, DeactivateKeeps, QuitKeeps,
     HoldKeeps, FirstKeeps, RegainKeeps, ClockAgreesKeeps, HoldReadyKeeps, AnswerKeeps,
     StaticDelayKeeps, StartStreamKeeps, UnplayableKeeps, EndKeeps, ReleaseKeeps, LeaveKeeps,
     OverKeeps DEF Walks

LEMMA WalksLeaveSlot == ASSUME NEW p \in Peers, Walks(p) PROVE UNCHANGED slotVars
<1> USE DEF playVars
<1>1. Enter(p) \/ Handshakes(p) \/ ReadFails(p) \/ Activate(p) \/ Deactivate(p) => UNCHANGED slotVars
  BY DEF Enter, Handshakes, ReadFails, Activate, Deactivate
<1>2. Quit(p) \/ Hold(p) \/ First(p) \/ Regain(p) => UNCHANGED slotVars
  BY DEF Quit, Hold, First, Regain
<1>3. ClockAgrees(p) \/ HoldReady(p) \/ Answer(p) \/ Unplayable(p) => UNCHANGED slotVars
  BY DEF ClockAgrees, HoldReady, Answer, Unplayable
<1>4. (\E ms \in Delays : StaticDelay(p, ms)) => UNCHANGED slotVars
  BY DEF StaticDelay
<1>5. (\E rate \in Rates : StartStream(p, rate)) => UNCHANGED slotVars
  BY DEF StartStream
<1>6. End(p) \/ Release(p) \/ Leave(p) \/ Over(p) => UNCHANGED slotVars
  BY DEF End, Release, Leave, Over
<1>7. QED
  BY <1>1, <1>2, <1>3, <1>4, <1>5, <1>6 DEF Walks

(* What a session does with its stream is a step of the slot.               *)
LEMMA StreamsStep ==
  ASSUME SessInv, NEW p \in Peers, Plays(p) PROVE [SlotNext]_slotVars
<1> SessParts
  BY DEF SessInv
<1>1. CASE Open(p)
  BY <1>1, OpenSteps DEF SlotNext
<1>2. CASE OpenNew(p)
  <2>1. asking[p] \in Rates
    BY DEF SessParts, Types
  <2>2. QED
    BY <1>2, <2>1, OpenNewSteps DEF SlotNext, playVars
<1>3. CASE EndStream(p)
  BY <1>3, EndStreamSteps DEF SlotNext
<1>4. CASE Stop(p)
  BY <1>4, StopSteps DEF SlotNext
<1>5. CASE LetStreamGo(p)
  BY <1>5, LetStreamGoSteps DEF SlotNext
<1>6. QED
  BY <1>1, <1>2, <1>3, <1>4, <1>5 DEF Plays

LEMMA NextIsSlotStep == SessInv /\ [Next]_vars => [SlotNext]_slotVars
<1> SUFFICES ASSUME SessInv, [Next]_vars PROVE [SlotNext]_slotVars
  OBVIOUS
<1>1. CASE Stills \/ Idles
  BY <1>1, StillSteps DEF sessVars, playVars, Idles
<1>2. CASE Writer
  BY <1>2, WriterSteps
<1>3. CASE \E p \in Peers : Walks(p) \/ Plays(p)
  BY <1>3, WalksLeaveSlot, StreamsStep
<1>4. QED
  BY <1>1, <1>2, <1>3, NextIs

LEMMA SessStep == SessInv /\ [Next]_vars => SessInv'
<1> SUFFICES ASSUME SessInv, [Next]_vars PROVE SessInv'
  OBVIOUS
<1>1. SlotInv'
  BY NextIsSlotStep, SlotStep DEF SessInv
<1>2. SessParts'
  <2>1. CASE Stills \/ Idles
    BY <2>1, StillSteps, StillKeeps DEF SessInv, sessVars, Idles, ownVars, playVars, clientVars,
       runVars, mainVars, factVars
  <2>2. CASE Writer
    BY <2>2, WriterKeeps
  <2>3. CASE \E p \in Peers : Walks(p)
    BY <2>3, WalksKeep DEF SessInv
  <2>4. CASE \E p \in Peers : Plays(p)
    BY <2>4, OpenKept, OpenNewKeeps, EndStreamKeeps, StopKeeps, LetStreamGoKeeps DEF Plays
  <2>5. QED
    BY <2>1, <2>2, <2>3, <2>4, NextIs
<1>3. QED
  BY <1>1, <1>2 DEF SessInv

----------------------------------------------------------------------------
(* Who has a role holds the player, and only who holds it has a stream, in  *)
(* every state the sessions reach.                                          *)
THEOREM SessionsInductive == Spec => []SessInv
  BY SessInitInv, SessStep, PTL DEF Spec

(* What the sessions do with their streams is what the slot expects of them:*)
(* streams are opened in a slot that is free, resumed while they play, and  *)
(* let go of by a closer only once closed.                                  *)
THEOREM SessionsUseTheSlot == Spec => SlotSpec
<1>1. Init => SlotInit
  BY DEF Init
<1>2. QED
  BY <1>1, NextIsSlotStep, SessionsInductive, PTL DEF Spec, SlotSpec

(* So whatever the sessions do, a stream that is open is heard.             *)
THEOREM SessionsAreHeard == Spec => []OpenIsHeard
  BY SessionsUseTheSlot, OpenHeard, PTL

(* The steps of the sessions are steps of Ducking, since nothing else       *)
(* touches a stream's level ...                                             *)
LEMMA SessionsDuck == Spec => DuckSpec
<1>1. Init => SlotInit /\ DuckInit
  BY DEF Init
<1>2. SessInv /\ [Next]_vars => [DuckNext]_<<slotVars, duckVars>>
  <2> SUFFICES ASSUME SessInv, [Next]_vars PROVE [DuckNext]_<<slotVars, duckVars>>
    OBVIOUS
  <2>1. CASE ClientStep /\ StartsDucked /\ UNCHANGED <<focus, watchVars>>
    <3>1. CASE SlotNext
      BY <2>1, <3>1 DEF DuckNext
    <3>2. CASE UNCHANGED slotVars
      <4>1. cutTo' = cutTo
        BY <2>1, <3>2 DEF StartsDucked, slotVars
      <4>2. QED
        BY <2>1, <3>2, <4>1 DEF duckVars
    <3>3. QED
      BY <3>1, <3>2, NextIsSlotStep
  <2>2. CASE focus = "duck" /\ DuckStep /\ UNCHANGED <<focus, ownVars, slotVars>>
    BY <2>2 DEF DuckNext
  <2>3. CASE UNCHANGED vars
    BY <2>3 DEF vars
  <2>4. QED
    BY <2>1, <2>2, <2>3 DEF Next
<1>3. QED
  BY <1>1, <1>2, SessionsInductive, PTL DEF Spec, DuckSpec

(* ... so a stream is played at the level of who has focus.                 *)
THEOREM SessionsAreDucked == Spec => []DuckedAsHeld
  BY SessionsDuck, DuckedRight, PTL

(* The player is not asked for a stream while it plays another's: the hold  *)
(* is given up only once the stream that was played under it is closed.     *)
THEOREM NeverRefused == Spec => []OpenIsNeverRefused
<1>1. SessInv => OpenIsNeverRefused
  <2> SUFFICES ASSUME SessInv, NEW p \in Peers, at[p] = "new", Refused PROVE FALSE
    BY DEF OpenIsNeverRefused
  <2>1. PICK q \in Peers : stream[q] = slot
    BY DEF SessInv, SessParts, SlotIsOwned
  <2>2. held = q /\ at[q] \in Sounds
    BY <2>1 DEF SessInv, SessParts, Orderly, HeldSounds, Refused
  <2>3. held = p
    BY DEF SessInv, SessParts, Orderly, ServesHeld, Serving
  <2>4. QED
    BY <2>2, <2>3 DEF Sounds
<1>2. QED
  BY <1>1, SessionsInductive, PTL

----------------------------------------------------------------------------
(* Types of what the parts above do not speak of.                           *)
LeftTyped == left \in [visits : 0 .. Visits, events : 0 .. Events]

FieldTypes ==
    /\ heldReady \in BOOLEAN /\ closed \in BOOLEAN /\ bluetooth \in BOOLEAN
    /\ astray \in BOOLEAN /\ strayLead \in BOOLEAN
    /\ live \subseteq Peers /\ farewell \subseteq live
    /\ delay \in Delays /\ volume \in Volumes /\ toldVolume \in Volumes \cup {Untold}
    /\ output \in {Speaker, Bluetooth}
    /\ setAt \in {"idle", "tell", "put"} /\ setFor \in Peers \cup {Nobody}
    /\ sock \in [Peers -> BOOLEAN] /\ stated \in [Peers -> BOOLEAN]
    /\ available \in [Peers -> BOOLEAN] /\ roleless \in [Peers -> BOOLEAN]
    /\ report \in [Peers -> BOOLEAN] /\ reformat \in [Peers -> BOOLEAN]
    /\ reportAs \in [Peers -> BOOLEAN] /\ watchAs \in [Peers -> BOOLEAN]
    /\ watchTold \in [Peers -> BOOLEAN] /\ late \in [Peers -> BOOLEAN]
    /\ unaware \in [Peers -> BOOLEAN]
    /\ reporter \in [Peers -> {"off", "wait", "read", "write", "send"}]
    /\ watcher \in [Peers -> {"off", "start", "look", "held", "store", "tell", "ask", "wait"}]
    /\ watchRate \in [Peers -> {Speaker, Bluetooth}] /\ asked \in [Peers -> {Speaker, Bluetooth}]
    /\ wanted \in [Peers -> {Speaker, Bluetooth}]
    /\ said \in [Peers -> Messages] /\ draft \in Messages

LEMMA MessageTyped == ASSUME FieldTypes, NEW ready \in BOOLEAN PROVE Message(ready) \in Messages
  BY DEF FieldTypes, Message, Messages

LEMMA SilentTyped == Silent \in Messages
  BY DEF Silent, Messages

LEMMA StatingTyped ==
  ASSUME FieldTypes, NEW p \in Peers, Stating(p)
  PROVE  /\ toldVolume' \in Volumes \cup {Untold} /\ astray' \in BOOLEAN
         /\ unaware' \in [Peers -> BOOLEAN]
  BY DEF FieldTypes, Stating

LEMMA StateTyped ==
  ASSUME FieldTypes, NEW p \in Peers, NEW ready \in BOOLEAN, State(p, ready)
  PROVE  /\ toldVolume' \in Volumes \cup {Untold} /\ astray' \in BOOLEAN
         /\ unaware' \in [Peers -> BOOLEAN] /\ said' \in [Peers -> Messages]
<1>1. said \in [Peers -> Messages]
  BY DEF FieldTypes
<1>2. QED
  BY <1>1, StatingTyped, MessageTyped DEF State

(* The comings and goings of a session ...                                  *)
ComesOrGoes(p) ==
    \/ Enter(p) \/ Handshakes(p) \/ Drop(p) \/ End(p)
    \/ Release(p) \/ Leave(p) \/ Over(p) \/ Farewell(p)

(* ... and what the user, the output and the writer do.                     *)
Others ==
    \/ \E p \in Peers : WatchVolume(p)
    \/ \E ms \in Delays : SetDelay(ms)
    \/ TellsServer \/ PutsToken \/ Close \/ OutputMoves \/ LevelChanges \/ Writer

LEMMA VisitTyped ==
  ASSUME FieldTypes, Types, NEW p \in Peers, ComesOrGoes(p)
  PROVE  FieldTypes'
<1> USE DEF FieldTypes, Types, clientVars, dotVars, factVars, mainVars, runVars, tokens, reporterVars,
            watcherVars, askVars, sayVars, talkVars
<1>1. CASE Enter(p)
  BY <1>1 DEF Enter
<1>2. CASE Handshakes(p)
  BY <1>2 DEF Handshakes
<1>3. CASE Drop(p)
  BY <1>3 DEF Drop
<1>4. CASE End(p)
  BY <1>4 DEF End
<1>5. CASE Release(p)
  BY <1>5 DEF Release, LetsGo
<1>6. CASE Leave(p)
  BY <1>6 DEF Leave
<1>7. CASE Over(p)
  BY <1>7, SilentTyped DEF Over
<1>8. CASE Farewell(p)
  BY <1>8 DEF Farewell
<1>9. QED
  BY <1>1, <1>2, <1>3, <1>4, <1>5, <1>6, <1>7, <1>8 DEF ComesOrGoes

(* What run does for a message.                                             *)
LEMMA RunTyped ==
  ASSUME FieldTypes, Types, NEW p \in Peers, Run(p) \/ ReadFails(p) PROVE FieldTypes'
<1> USE DEF FieldTypes, Types, clientVars, dotVars, factVars, mainVars, runVars, tokens, reporterVars,
            watcherVars, askVars, sayVars, talkVars
<1>1. CASE ReadFails(p)
  BY <1>1 DEF ReadFails
<1>2. CASE Activate(p)
  BY <1>2 DEF Activate
<1>3. CASE Deactivate(p)
  BY <1>3 DEF Deactivate
<1>4. CASE Quit(p)
  BY <1>4, ZenonT(30) DEF Quit, LetsGo
<1>5. CASE Hold(p)
  <2>1. UNCHANGED <<dotVars, delay, live, closed, farewell, stated, available, sock, tokens, talkVars>>
    BY <1>5 DEF Hold
  <2>2. heldReady' \in BOOLEAN
    BY <1>5 DEF Hold
  <2>3. roleless' \in [Peers -> BOOLEAN]
    BY <1>5, ZenonT(30) DEF Hold
  <2>4. QED
    BY <2>1, <2>2, <2>3
<1>6. CASE First(p)
  <2>1. available[p] \in BOOLEAN
    OBVIOUS
  <2>2. State(p, available[p])
    BY <1>6, ZenonT(30) DEF First
  <2>3. /\ toldVolume' \in Volumes \cup {Untold} /\ astray' \in BOOLEAN
        /\ unaware' \in [Peers -> BOOLEAN] /\ said' \in [Peers -> Messages]
    BY <2>1, <2>2, StateTyped
  <2>4. stated' \in [Peers -> BOOLEAN]
    BY <1>6, ZenonT(30) DEF First
  <2>5. reporter' \in [Peers -> {"off", "wait", "read", "write", "send"}]
    BY <1>6, ZenonT(30) DEF First
  <2>6. watcher' \in [Peers -> {"off", "start", "look", "held", "store", "tell", "ask", "wait"}]
    BY <1>6, ZenonT(30) DEF First
  <2>7. UNCHANGED <<clientVars, dotVars, delay, available, roleless, sock, tokens, reportAs, draft,
                    watchRate, watchAs, watchTold, asked, bluetooth, strayLead, askVars>>
    BY <1>6, ZenonT(30) DEF First
  <2>8. QED
    BY <2>3, <2>4, <2>5, <2>6, <2>7
<1>7. CASE Regain(p)
  BY <1>7 DEF Regain, TellServer
<1>8. CASE ClockAgrees(p)
  BY <1>8 DEF ClockAgrees
<1>9. CASE HoldReady(p)
  BY <1>9 DEF HoldReady
<1>10. CASE Answer(p)
  <2>1. available[p] \in BOOLEAN
    OBVIOUS
  <2>2. State(p, available[p])
    BY <1>10 DEF Answer
  <2>3. /\ toldVolume' \in Volumes \cup {Untold} /\ astray' \in BOOLEAN
        /\ unaware' \in [Peers -> BOOLEAN] /\ said' \in [Peers -> Messages]
    BY <2>1, <2>2, StateTyped
  <2>4. QED
    BY <1>10, <2>3 DEF Answer
<1>11. CASE \E ms \in Delays : StaticDelay(p, ms)
  BY <1>11 DEF StaticDelay
<1>12. CASE \E rate \in Rates : StartStream(p, rate)
  BY <1>12 DEF StartStream
<1>13. CASE Unplayable(p) \/ Open(p) \/ OpenNew(p)
  BY <1>13 DEF Unplayable, Open, OpenNew
<1>14. CASE EndStream(p) \/ Stop(p) \/ LetStreamGo(p)
  BY <1>14 DEF EndStream, Stop, LetStreamGo
<1>15. QED
  BY <1>1, <1>2, <1>3, <1>4, <1>5, <1>6, <1>7, <1>8, <1>9, <1>10, <1>11, <1>12, <1>13, <1>14 DEF Run

LEMMA ReporterTyped ==
  ASSUME FieldTypes, Types, NEW p \in Peers, ReportDelays(p) PROVE FieldTypes'
<1> USE DEF FieldTypes, Types, clientVars, dotVars, factVars, mainVars, runVars, tokens, reporterVars,
            watcherVars, askVars, sayVars, talkVars
<1>1. CASE TokenTaken(p)
  BY <1>1 DEF TokenTaken
<1>2. CASE Reporting(p)
  BY <1>2 DEF Reporting
<1>3. CASE MakesUp(p)
  <2>1. reportAs[p] \in BOOLEAN
    OBVIOUS
  <2>2. Stating(p) /\ draft' = Message(reportAs[p])
    BY <1>3 DEF MakesUp
  <2>3. /\ toldVolume' \in Volumes \cup {Untold} /\ astray' \in BOOLEAN
        /\ unaware' \in [Peers -> BOOLEAN] /\ draft' \in Messages
    BY <2>1, <2>2, StatingTyped, MessageTyped
  <2>4. QED
    BY <1>3, <2>3 DEF MakesUp
<1>4. CASE Sends(p)
  BY <1>4, SilentTyped DEF Sends
<1>5. CASE ReporterEnds(p)
  BY <1>5 DEF ReporterEnds
<1>6. QED
  BY <1>1, <1>2, <1>3, <1>4, <1>5 DEF ReportDelays

LEMMA WatcherTyped ==
  ASSUME FieldTypes, Types, NEW p \in Peers, WatchOutput(p) PROVE FieldTypes'
<1> USE DEF FieldTypes, Types, clientVars, dotVars, factVars, mainVars, runVars, tokens, reporterVars,
            watcherVars, askVars, sayVars, talkVars
<1>1. CASE WatchStarts(p) \/ WatchLooks(p)
  BY <1>1 DEF WatchStarts, WatchLooks
<1>2. CASE WatchHeld(p)
  BY <1>2 DEF WatchHeld
<1>3. CASE WatchStores(p)
  BY <1>3 DEF WatchStores
<1>4. CASE WatchTells(p)
  <2>1. watchAs[p] \in BOOLEAN
    OBVIOUS
  <2>2. State(p, watchAs[p]) \/ UNCHANGED sayVars
    BY <1>4, ZenonT(30) DEF WatchTells
  <2>3. /\ toldVolume' \in Volumes \cup {Untold} /\ astray' \in BOOLEAN
        /\ unaware' \in [Peers -> BOOLEAN] /\ said' \in [Peers -> Messages]
    BY <2>1, <2>2, StateTyped
  <2>4. watchTold' \in [Peers -> BOOLEAN]
    BY <1>4, ZenonT(30) DEF WatchTells
  <2>5. watchAs' \in [Peers -> BOOLEAN]
    BY <1>4, ZenonT(30) DEF WatchTells
  <2>6. watcher' \in [Peers -> {"off", "start", "look", "held", "store", "tell", "ask", "wait"}]
    BY <1>4, SMTT(30) DEF WatchTells
  <2>7. UNCHANGED <<clientVars, dotVars, delay, runVars, tokens, reporterVars, watchRate, asked,
                    bluetooth, strayLead, askVars>>
    BY <1>4, ZenonT(30) DEF WatchTells
  <2>8. QED
    BY <2>3, <2>4, <2>5, <2>6, <2>7
<1>5. CASE WatchAsks(p)
  BY <1>5 DEF WatchAsks
<1>6. CASE WatchReformats(p)
  BY <1>6 DEF WatchReformats
<1>7. CASE WatchTicks(p)
  BY <1>7 DEF WatchTicks
<1>8. QED
  BY <1>1, <1>2, <1>3, <1>4, <1>5, <1>6, <1>7 DEF WatchOutput

LEMMA OthersTyped ==
  ASSUME FieldTypes, Types,
         Others
  PROVE  FieldTypes'
<1> USE DEF FieldTypes, Types, clientVars, dotVars, factVars, mainVars, runVars, tokens, reporterVars,
            watcherVars, askVars, sayVars, talkVars
<1>1. CASE \E p \in Peers : WatchVolume(p)
  BY <1>1 DEF WatchVolume, TellServer
<1>2. CASE \E ms \in Delays : SetDelay(ms)
  BY <1>2 DEF SetDelay
<1>3. CASE TellsServer
  BY <1>3 DEF TellsServer
<1>4. CASE PutsToken
  BY <1>4 DEF PutsToken
<1>5. CASE Close
  BY <1>5 DEF Close
<1>6. CASE OutputMoves
  BY <1>6 DEF OutputMoves
<1>7. CASE LevelChanges \/ Writer
  BY <1>7 DEF LevelChanges, Writer
<1>8. QED
  BY <1>1, <1>2, <1>3, <1>4, <1>5, <1>6, <1>7 DEF Others

LEMMA FieldsStep == FieldTypes /\ Types /\ [Next]_vars => FieldTypes'
<1> SUFFICES ASSUME FieldTypes, Types, [Next]_vars PROVE FieldTypes'
  OBVIOUS
<1>1. CASE ClientStep
  BY <1>1, VisitTyped, RunTyped, ReporterTyped, WatcherTyped, OthersTyped
     DEF ClientStep, ServeConn, ComesOrGoes, Others
<1>2. CASE UNCHANGED ownVars
  BY <1>2 DEF ownVars, FieldTypes, clientVars, dotVars, factVars, mainVars, runVars, tokens,
     reporterVars, watcherVars, askVars, sayVars, talkVars
<1>3. QED
  BY <1>1, <1>2 DEF Next, vars

----------------------------------------------------------------------------
(* Where a session is, and what its server was told.                        *)

Ending(p) ==
    \/ at[p] \in {"end", "release", "leave", "over"}
    \/ at[p] \in {"stop", "closer"} /\ then[p] = "end"

(* A connection is counted from its start to its end.                       *)
LiveAt(p) == at[p] \notin {"out", "over"} => p \in live

(* Its goroutines begin with its first hold, and only then can it regain.   *)
StatedAt(p) ==
    /\ at[p] \in {"out", "hello", "first"} => ~stated[p]
    /\ at[p] = "regain" => stated[p]

(* Who lost the hold knows it, until it holds again or ends ...             *)
LostIsKnown(p) == stated[p] /\ held # p => roleless[p] \/ Ending(p)
RolelessLost(p) == roleless[p] => held # p /\ (roles[p] => at[p] = "hold" \/ Ending(p))

(* ... and who holds the player has a role, or is about to let go.          *)
HolderIn(p) ==
    /\ held = p => /\ at[p] \notin {"out", "hello", "leave", "over"}
                   /\ roles[p] \/ Quits(p) \/ Ending(p)
    /\ at[p] = "hold" => roles[p]

WalkInv ==
    \A p \in Peers : LiveAt(p) /\ StatedAt(p) /\ LostIsKnown(p) /\ RolelessLost(p) /\ HolderIn(p)

(* A server that can be told; the state it was told last, or is about to    *)
(* be; and what will tell it the next, as things stand then.                *)
Tellable(p) == held = p /\ stated[p] /\ sock[p]
Latest(p) == IF reporter[p] = "send" THEN draft ELSE said[p]
Coming(p) ==
    report[p] \/ reporter[p] \in {"read", "write"} \/ at[p] \in {"regain", "agree", "answer"}

Unstated(p) ==
    ~stated[p] => /\ reporter[p] = "off" /\ watcher[p] = "off"
                  /\ asked[p] = Speaker /\ wanted[p] = Speaker

OneSends == \A p, q \in Peers : reporter[p] = "send" /\ reporter[q] = "send" => p = q

DelayTold(p) ==
    Tellable(p) /\ ~Coming(p) =>
        Latest(p).delay = delay \/ setAt = "tell" \/ (setAt = "put" /\ setFor = p)

(* toldVolume is what the holder's server was told, unless it is astray.    *)
VolumeTold(p) == Tellable(p) /\ ~Coming(p) => Latest(p).volume = toldVolume \/ astray

SaidInv == OneSends /\ \A p \in Peers : Unstated(p) /\ DelayTold(p) /\ VolumeTold(p)

(* From the loss of the role until the watcher reads the token of its       *)
(* return the server wants nothing, and the watcher may not know it;        *)
(* otherwise the server wants what the watcher asked for, and the watcher   *)
(* asked for the rate it saw.                                               *)
Regaining(p) == reformat[p] \/ at[p] = "regain" \/ (at[p] = "hold" /\ roleless[p])

AsksAgree(p) ==
    /\ ~roles[p] => wanted[p] = Speaker
    /\ stated[p] /\ roles[p] /\ ~late[p] =>
           /\ Regaining(p) => wanted[p] = Speaker
           /\ held = p /\ ~Regaining(p) => wanted[p] = asked[p]

AskedFor(p) == Tellable(p) /\ watcher[p] = "wait" /\ ~Regaining(p) => asked[p] = watchRate[p]

RateInv == \A p \in Peers : AsksAgree(p) /\ AskedFor(p)

(* The watcher's watchTold is what its server was told of the lead, but for *)
(* what went past it; and it tells of the rate it saw.                      *)
LeadTold(p) ==
    Tellable(p) /\ ~strayLead /\ ~Coming(p) =>
        /\ watcher[p] = "start" => (Latest(p).bluetooth <=> bluetooth)
        /\ watcher[p] = "tell" /\ ~unaware[p] =>
               \/ Latest(p).bluetooth <=> bluetooth
               \/ Latest(p).bluetooth <=> watchTold[p]
        /\ watcher[p] \in {"look", "held", "store", "ask", "wait"} /\ ~unaware[p] =>
               (Latest(p).bluetooth <=> watchTold[p])

LeadAgrees(p) ==
    Tellable(p) /\ ~strayLead /\ ~Regaining(p) =>
        /\ watcher[p] = "tell" => (bluetooth <=> watchRate[p] = Bluetooth)
        /\ watcher[p] \in {"ask", "wait"} => (watchTold[p] <=> watchRate[p] = Bluetooth)

LeadInv == \A p \in Peers : LeadTold(p) /\ LeadAgrees(p)

ToldInv == FieldTypes /\ WalkInv /\ SaidInv /\ RateInv /\ LeadInv

----------------------------------------------------------------------------
(* Where the session is.                                                    *)
LEMMA VisitWalk ==
  ASSUME FieldTypes, SessParts, WalkInv,
         NEW p \in Peers, ComesOrGoes(p)
  PROVE  WalkInv'
<1> USE DEF FieldTypes, SessParts, Types, Orderly, ServesHeld, Roleless, Restarts, Serving,
            Goes, WalkInv, LiveAt, StatedAt, LostIsKnown, RolelessLost, HolderIn, Ending,
            Quits, clientVars, dotVars, factVars, mainVars, runVars, playVars, tokens,
            reporterVars, watcherVars, askVars, sayVars, talkVars
<1>1. CASE Enter(p)
  BY <1>1 DEF Enter
<1>2. CASE Handshakes(p) \/ Leave(p)
  BY <1>2 DEF Handshakes, Leave
<1>3. CASE Drop(p) \/ Farewell(p)
  BY <1>3 DEF Drop, Farewell
<1>4. CASE End(p)
  BY <1>4 DEF End
<1>5. CASE Release(p)
  BY <1>5 DEF Release, LetsGo
<1>6. CASE Over(p)
  BY <1>6 DEF Over
<1>7. QED
  BY <1>1, <1>2, <1>3, <1>4, <1>5, <1>6 DEF ComesOrGoes

LEMMA RunWalk ==
  ASSUME FieldTypes, SessParts, WalkInv,
         NEW p \in Peers, Run(p) \/ ReadFails(p)
  PROVE  WalkInv'
<1> USE DEF FieldTypes, SessParts, Types, Orderly, ServesHeld, Roleless, Restarts, Serving,
            Goes, WalkInv, LiveAt, StatedAt, LostIsKnown, RolelessLost, HolderIn, Ending,
            Quits, clientVars, dotVars, factVars, mainVars, runVars, playVars, tokens,
            reporterVars, watcherVars, askVars, sayVars, talkVars
<1>1. CASE ReadFails(p)
  BY <1>1 DEF ReadFails, Returns
<1>2. CASE Activate(p)
  BY <1>2 DEF Activate, Reads
<1>3. CASE Deactivate(p)
  BY <1>3 DEF Deactivate, Stops, Reads
<1>4. CASE Quit(p)
  BY <1>4 DEF Quit, LetsGo, Returns
<1>5. CASE Hold(p)
  BY <1>5, SMTT(20) DEF Hold, Returns
<1>6. CASE First(p)
  BY <1>6 DEF First, State, Stating, Message, Returns
<1>7. CASE Regain(p)
  BY <1>7 DEF Regain, TellServer
<1>8. CASE ClockAgrees(p) \/ HoldReady(p)
  BY <1>8 DEF ClockAgrees, Reads, HoldReady
<1>9. CASE Answer(p)
  BY <1>9 DEF Answer, State, Stating, Message, Returns
<1>10. CASE \E ms \in Delays : StaticDelay(p, ms)
  BY <1>10 DEF StaticDelay, Reads
<1>11. CASE \E rate \in Rates : StartStream(p, rate)
  BY <1>11 DEF StartStream, Reads
<1>12. CASE Unplayable(p)
  BY <1>12 DEF Unplayable, Stops, Reads
<1>13. CASE Open(p)
  BY <1>13 DEF Open, Stops
<1>14. CASE OpenNew(p)
  BY <1>14 DEF OpenNew
<1>15. CASE EndStream(p)
  BY <1>15 DEF EndStream, Reads
<1>16. CASE Stop(p)
  BY <1>16 DEF Stop
<1>17. CASE LetStreamGo(p)
  BY <1>17 DEF LetStreamGo
<1>18. QED
  BY <1>1, <1>2, <1>3, <1>4, <1>5, <1>6, <1>7, <1>8, <1>9, <1>10, <1>11, <1>12, <1>13,
     <1>14, <1>15, <1>16, <1>17 DEF Run

LEMMA ReporterWalk ==
  ASSUME FieldTypes, SessParts, WalkInv,
         NEW p \in Peers, ReportDelays(p)
  PROVE  WalkInv'
<1> USE DEF FieldTypes, SessParts, Types, Orderly, ServesHeld, Roleless, Restarts, Serving,
            Goes, WalkInv, LiveAt, StatedAt, LostIsKnown, RolelessLost, HolderIn, Ending,
            Quits, clientVars, dotVars, factVars, mainVars, runVars, playVars, tokens,
            reporterVars, watcherVars, askVars, sayVars, talkVars
<1>1. CASE TokenTaken(p) \/ Reporting(p) \/ MakesUp(p) \/ Sends(p) \/ ReporterEnds(p)
  BY <1>1 DEF TokenTaken, Reporting, MakesUp, Stating, Message, Sends, ReporterEnds
<1>2. QED
  BY <1>1 DEF ReportDelays

LEMMA WatcherWalk ==
  ASSUME FieldTypes, SessParts, WalkInv,
         NEW p \in Peers, WatchOutput(p)
  PROVE  WalkInv'
<1> USE DEF FieldTypes, SessParts, Types, Orderly, ServesHeld, Roleless, Restarts, Serving,
            Goes, WalkInv, LiveAt, StatedAt, LostIsKnown, RolelessLost, HolderIn, Ending,
            Quits, clientVars, dotVars, factVars, mainVars, runVars, playVars, tokens,
            reporterVars, watcherVars, askVars, sayVars, talkVars
<1>1. CASE WatchOutput(p)
  BY <1>1 DEF WatchStarts, WatchLooks, WatchHeld, WatchStores, WatchTells, State, Stating,
     Message, WatchAsks, WatchReformats, WatchTicks, Stopped, WatchOutput
<1>2. QED
  BY <1>1

LEMMA OthersWalk ==
  ASSUME FieldTypes, SessParts, WalkInv,
         Others
  PROVE  WalkInv'
<1> USE DEF FieldTypes, SessParts, Types, Orderly, ServesHeld, Roleless, Restarts, Serving,
            Goes, WalkInv, LiveAt, StatedAt, LostIsKnown, RolelessLost, HolderIn, Ending,
            Quits, clientVars, dotVars, factVars, mainVars, runVars, playVars, tokens,
            reporterVars, watcherVars, askVars, sayVars, talkVars
<1>1. CASE \E p \in Peers : WatchVolume(p)
  BY <1>1 DEF WatchVolume, TellServer
<1>2. CASE \E ms \in Delays : SetDelay(ms)
  BY <1>2 DEF SetDelay
<1>3. CASE TellsServer
  BY <1>3 DEF TellsServer
<1>4. CASE PutsToken
  BY <1>4 DEF PutsToken
<1>5. CASE Close \/ OutputMoves
  BY <1>5 DEF Close, OutputMoves
<1>6. CASE LevelChanges \/ Writer
  BY <1>6 DEF LevelChanges, Writer
<1>7. QED
  BY <1>1, <1>2, <1>3, <1>4, <1>5, <1>6 DEF Others

----------------------------------------------------------------------------
(* What was said of delay and level.                                        *)
LEMMA VisitSaid ==
  ASSUME FieldTypes, SessParts, WalkInv, SaidInv,
         NEW p \in Peers, ComesOrGoes(p)
  PROVE  SaidInv'
<1> USE DEF FieldTypes, SessParts, Types, Orderly, ServesHeld, Roleless, Restarts, Serving,
            Goes, WalkInv, StatedAt, LostIsKnown, Ending, SaidInv, OneSends, Unstated,
            DelayTold, VolumeTold, Tellable, Latest, Coming, clientVars, dotVars, factVars,
            mainVars, runVars, playVars, tokens, reporterVars, watcherVars, askVars,
            sayVars, talkVars
<1>1. CASE Enter(p)
  BY <1>1 DEF Enter
<1>2. CASE Handshakes(p) \/ Leave(p)
  BY <1>2 DEF Handshakes, Leave
<1>3. CASE Drop(p) \/ Farewell(p)
  BY <1>3 DEF Drop, Farewell
<1>4. CASE End(p)
  BY <1>4 DEF End
<1>5. CASE Release(p)
  BY <1>5 DEF Release, LetsGo
<1>6. CASE Over(p)
  BY <1>6 DEF Over
<1>7. QED
  BY <1>1, <1>2, <1>3, <1>4, <1>5, <1>6 DEF ComesOrGoes

LEMMA RunSaid ==
  ASSUME FieldTypes, SessParts, WalkInv, SaidInv,
         NEW p \in Peers, Run(p) \/ ReadFails(p)
  PROVE  SaidInv'
<1> USE DEF FieldTypes, SessParts, Types, Orderly, ServesHeld, Roleless, Restarts, Serving,
            Goes, WalkInv, StatedAt, LostIsKnown, Ending, SaidInv, OneSends, Unstated,
            DelayTold, VolumeTold, Tellable, Latest, Coming, clientVars, dotVars, factVars,
            mainVars, runVars, playVars, tokens, reporterVars, watcherVars, askVars,
            sayVars, talkVars
<1>1. CASE ReadFails(p)
  BY <1>1 DEF ReadFails, Returns
<1>2. CASE Activate(p)
  BY <1>2 DEF Activate, Reads
<1>3. CASE Deactivate(p)
  BY <1>3 DEF Deactivate, Stops, Reads
<1>4. CASE Quit(p)
  BY <1>4 DEF Quit, LetsGo, Returns
<1>5. CASE Hold(p)
  BY <1>5, SMTT(20) DEF Hold, Returns
<1>6. CASE First(p)
  BY <1>6 DEF First, State, Stating, Message, Returns
<1>7. CASE Regain(p)
  BY <1>7 DEF Regain, TellServer
<1>8. CASE ClockAgrees(p) \/ HoldReady(p)
  BY <1>8 DEF ClockAgrees, Reads, HoldReady
<1>9. CASE Answer(p)
  BY <1>9 DEF Answer, State, Stating, Message, Returns
<1>10. CASE \E ms \in Delays : StaticDelay(p, ms)
  BY <1>10 DEF StaticDelay, Reads
<1>11. CASE \E rate \in Rates : StartStream(p, rate)
  BY <1>11 DEF StartStream, Reads
<1>12. CASE Unplayable(p)
  BY <1>12 DEF Unplayable, Stops, Reads
<1>13. CASE Open(p)
  BY <1>13 DEF Open, Stops
<1>14. CASE OpenNew(p)
  BY <1>14 DEF OpenNew
<1>15. CASE EndStream(p)
  BY <1>15 DEF EndStream, Reads
<1>16. CASE Stop(p)
  BY <1>16 DEF Stop
<1>17. CASE LetStreamGo(p)
  BY <1>17 DEF LetStreamGo
<1>18. QED
  BY <1>1, <1>2, <1>3, <1>4, <1>5, <1>6, <1>7, <1>8, <1>9, <1>10, <1>11, <1>12, <1>13,
     <1>14, <1>15, <1>16, <1>17 DEF Run

LEMMA ReporterSaid ==
  ASSUME FieldTypes, SessParts, WalkInv, SaidInv,
         NEW p \in Peers, ReportDelays(p)
  PROVE  SaidInv'
<1> USE DEF FieldTypes, SessParts, Types, Orderly, ServesHeld, Roleless, Restarts, Serving,
            Goes, WalkInv, StatedAt, LostIsKnown, Ending, SaidInv, OneSends, Unstated,
            DelayTold, VolumeTold, Tellable, Latest, Coming, clientVars, dotVars, factVars,
            mainVars, runVars, playVars, tokens, reporterVars, watcherVars, askVars,
            sayVars, talkVars
<1>1. CASE TokenTaken(p)
  BY <1>1 DEF TokenTaken
<1>2. CASE Reporting(p)
  BY <1>2 DEF Reporting
<1>3. CASE MakesUp(p)
  BY <1>3 DEF MakesUp, Stating, Message
<1>4. CASE Sends(p)
  BY <1>4 DEF Sends
<1>5. CASE ReporterEnds(p)
  BY <1>5 DEF ReporterEnds
<1>6. QED
  BY <1>1, <1>2, <1>3, <1>4, <1>5 DEF ReportDelays

LEMMA WatcherSaid ==
  ASSUME FieldTypes, SessParts, WalkInv, SaidInv,
         NEW p \in Peers, WatchOutput(p)
  PROVE  SaidInv'
<1> USE DEF FieldTypes, SessParts, Types, Orderly, ServesHeld, Roleless, Restarts, Serving,
            Goes, WalkInv, StatedAt, LostIsKnown, Ending, SaidInv, OneSends, Unstated,
            DelayTold, VolumeTold, Tellable, Latest, Coming, clientVars, dotVars, factVars,
            mainVars, runVars, playVars, tokens, reporterVars, watcherVars, askVars,
            sayVars, talkVars
<1>1. CASE WatchStarts(p) \/ WatchLooks(p)
  BY <1>1 DEF WatchStarts, WatchLooks
<1>2. CASE WatchHeld(p)
  BY <1>2 DEF WatchHeld
<1>3. CASE WatchStores(p)
  BY <1>3 DEF WatchStores
<1>4. CASE WatchTells(p)
  BY <1>4 DEF WatchTells, State, Stating, Message
<1>5. CASE WatchAsks(p)
  BY <1>5 DEF WatchAsks
<1>6. CASE WatchReformats(p)
  BY <1>6 DEF WatchReformats
<1>7. CASE WatchTicks(p)
  BY <1>7 DEF WatchTicks, Stopped
<1>8. QED
  BY <1>1, <1>2, <1>3, <1>4, <1>5, <1>6, <1>7 DEF WatchOutput

LEMMA OthersSaid ==
  ASSUME FieldTypes, SessParts, WalkInv, SaidInv,
         Others
  PROVE  SaidInv'
<1> USE DEF FieldTypes, SessParts, Types, Orderly, ServesHeld, Roleless, Restarts, Serving,
            Goes, WalkInv, StatedAt, LostIsKnown, Ending, SaidInv, OneSends, Unstated,
            DelayTold, VolumeTold, Tellable, Latest, Coming, clientVars, dotVars, factVars,
            mainVars, runVars, playVars, tokens, reporterVars, watcherVars, askVars,
            sayVars, talkVars
<1>1. CASE \E p \in Peers : WatchVolume(p)
  BY <1>1 DEF WatchVolume, TellServer
<1>2. CASE \E ms \in Delays : SetDelay(ms)
  BY <1>2 DEF SetDelay
<1>3. CASE TellsServer
  BY <1>3 DEF TellsServer
<1>4. CASE PutsToken
  BY <1>4 DEF PutsToken
<1>5. CASE Close \/ OutputMoves
  BY <1>5 DEF Close, OutputMoves
<1>6. CASE LevelChanges \/ Writer
  BY <1>6 DEF LevelChanges, Writer
<1>7. QED
  BY <1>1, <1>2, <1>3, <1>4, <1>5, <1>6 DEF Others

----------------------------------------------------------------------------
(* The rate that was asked for.                                             *)
LEMMA VisitRate ==
  ASSUME FieldTypes, SessParts, WalkInv, SaidInv, RateInv,
         NEW p \in Peers, ComesOrGoes(p)
  PROVE  RateInv'
<1> USE DEF FieldTypes, SessParts, Types, Orderly, ServesHeld, Roleless, Restarts, Serving,
            Goes, WalkInv, StatedAt, LostIsKnown, RolelessLost, HolderIn, Ending, Quits,
            SaidInv, Unstated, RateInv, AsksAgree, AskedFor, Tellable, Regaining,
            clientVars, dotVars, factVars, mainVars, runVars, playVars, tokens,
            reporterVars, watcherVars, askVars, sayVars, talkVars
<1>1. CASE Enter(p)
  BY <1>1 DEF Enter
<1>2. CASE Handshakes(p) \/ Leave(p)
  BY <1>2 DEF Handshakes, Leave
<1>3. CASE Drop(p) \/ Farewell(p)
  BY <1>3 DEF Drop, Farewell
<1>4. CASE End(p)
  BY <1>4 DEF End
<1>5. CASE Release(p)
  BY <1>5 DEF Release, LetsGo
<1>6. CASE Over(p)
  BY <1>6 DEF Over
<1>7. QED
  BY <1>1, <1>2, <1>3, <1>4, <1>5, <1>6 DEF ComesOrGoes

LEMMA RunRate ==
  ASSUME FieldTypes, SessParts, WalkInv, SaidInv, RateInv,
         NEW p \in Peers, Run(p) \/ ReadFails(p)
  PROVE  RateInv'
<1> USE DEF FieldTypes, SessParts, Types, Orderly, ServesHeld, Roleless, Restarts, Serving,
            Goes, WalkInv, StatedAt, LostIsKnown, RolelessLost, HolderIn, Ending, Quits,
            SaidInv, Unstated, RateInv, AsksAgree, AskedFor, Tellable, Regaining,
            clientVars, dotVars, factVars, mainVars, runVars, playVars, tokens,
            reporterVars, watcherVars, askVars, sayVars, talkVars
<1>1. CASE ReadFails(p)
  BY <1>1 DEF ReadFails, Returns
<1>2. CASE Activate(p)
  BY <1>2 DEF Activate, Reads
<1>3. CASE Deactivate(p)
  BY <1>3 DEF Deactivate, Stops, Reads
<1>4. CASE Quit(p)
  BY <1>4 DEF Quit, LetsGo, Returns
<1>5. CASE Hold(p)
  BY <1>5, SMTT(20) DEF Hold, Returns
<1>6. CASE First(p)
  BY <1>6 DEF First, State, Stating, Message, Returns
<1>7. CASE Regain(p)
  BY <1>7 DEF Regain, TellServer
<1>8. CASE ClockAgrees(p) \/ HoldReady(p)
  BY <1>8 DEF ClockAgrees, Reads, HoldReady
<1>9. CASE Answer(p)
  BY <1>9 DEF Answer, State, Stating, Message, Returns
<1>10. CASE \E ms \in Delays : StaticDelay(p, ms)
  BY <1>10 DEF StaticDelay, Reads
<1>11. CASE \E rate \in Rates : StartStream(p, rate)
  BY <1>11 DEF StartStream, Reads
<1>12. CASE Unplayable(p)
  BY <1>12 DEF Unplayable, Stops, Reads
<1>13. CASE Open(p)
  BY <1>13 DEF Open, Stops
<1>14. CASE OpenNew(p)
  BY <1>14 DEF OpenNew
<1>15. CASE EndStream(p)
  BY <1>15 DEF EndStream, Reads
<1>16. CASE Stop(p)
  BY <1>16 DEF Stop
<1>17. CASE LetStreamGo(p)
  BY <1>17 DEF LetStreamGo
<1>18. QED
  BY <1>1, <1>2, <1>3, <1>4, <1>5, <1>6, <1>7, <1>8, <1>9, <1>10, <1>11, <1>12, <1>13,
     <1>14, <1>15, <1>16, <1>17 DEF Run

LEMMA ReporterRate ==
  ASSUME FieldTypes, SessParts, WalkInv, SaidInv, RateInv,
         NEW p \in Peers, ReportDelays(p)
  PROVE  RateInv'
<1> USE DEF FieldTypes, SessParts, Types, Orderly, ServesHeld, Roleless, Restarts, Serving,
            Goes, WalkInv, StatedAt, LostIsKnown, RolelessLost, HolderIn, Ending, Quits,
            SaidInv, Unstated, RateInv, AsksAgree, AskedFor, Tellable, Regaining,
            clientVars, dotVars, factVars, mainVars, runVars, playVars, tokens,
            reporterVars, watcherVars, askVars, sayVars, talkVars
<1>1. CASE TokenTaken(p)
  BY <1>1 DEF TokenTaken
<1>2. CASE Reporting(p)
  BY <1>2 DEF Reporting
<1>3. CASE MakesUp(p)
  BY <1>3 DEF MakesUp, Stating, Message
<1>4. CASE Sends(p)
  BY <1>4 DEF Sends
<1>5. CASE ReporterEnds(p)
  BY <1>5 DEF ReporterEnds
<1>6. QED
  BY <1>1, <1>2, <1>3, <1>4, <1>5 DEF ReportDelays

LEMMA WatcherRate ==
  ASSUME FieldTypes, SessParts, WalkInv, SaidInv, RateInv,
         NEW p \in Peers, WatchOutput(p)
  PROVE  RateInv'
<1> USE DEF FieldTypes, SessParts, Types, Orderly, ServesHeld, Roleless, Restarts, Serving,
            Goes, WalkInv, StatedAt, LostIsKnown, RolelessLost, HolderIn, Ending, Quits,
            SaidInv, Unstated, RateInv, AsksAgree, AskedFor, Tellable, Regaining,
            clientVars, dotVars, factVars, mainVars, runVars, playVars, tokens,
            reporterVars, watcherVars, askVars, sayVars, talkVars
<1>1. CASE WatchStarts(p) \/ WatchLooks(p)
  BY <1>1 DEF WatchStarts, WatchLooks
<1>2. CASE WatchHeld(p)
  BY <1>2 DEF WatchHeld
<1>3. CASE WatchStores(p)
  BY <1>3 DEF WatchStores
<1>4. CASE WatchTells(p)
  BY <1>4 DEF WatchTells, State, Stating, Message
<1>5. CASE WatchAsks(p)
  BY <1>5 DEF WatchAsks
<1>6. CASE WatchReformats(p)
  BY <1>6 DEF WatchReformats
<1>7. CASE WatchTicks(p)
  BY <1>7 DEF WatchTicks, Stopped
<1>8. QED
  BY <1>1, <1>2, <1>3, <1>4, <1>5, <1>6, <1>7 DEF WatchOutput

LEMMA OthersRate ==
  ASSUME FieldTypes, SessParts, WalkInv, SaidInv, RateInv,
         Others
  PROVE  RateInv'
<1> USE DEF FieldTypes, SessParts, Types, Orderly, ServesHeld, Roleless, Restarts, Serving,
            Goes, WalkInv, StatedAt, LostIsKnown, RolelessLost, HolderIn, Ending, Quits,
            SaidInv, Unstated, RateInv, AsksAgree, AskedFor, Tellable, Regaining,
            clientVars, dotVars, factVars, mainVars, runVars, playVars, tokens,
            reporterVars, watcherVars, askVars, sayVars, talkVars
<1>1. CASE \E p \in Peers : WatchVolume(p)
  BY <1>1 DEF WatchVolume, TellServer
<1>2. CASE \E ms \in Delays : SetDelay(ms)
  BY <1>2 DEF SetDelay
<1>3. CASE TellsServer
  BY <1>3 DEF TellsServer
<1>4. CASE PutsToken
  BY <1>4 DEF PutsToken
<1>5. CASE Close \/ OutputMoves
  BY <1>5 DEF Close, OutputMoves
<1>6. CASE LevelChanges \/ Writer
  BY <1>6 DEF LevelChanges, Writer
<1>7. QED
  BY <1>1, <1>2, <1>3, <1>4, <1>5, <1>6 DEF Others

----------------------------------------------------------------------------
(* The lead.                                                                *)
LEMMA VisitLead ==
  ASSUME FieldTypes, SessParts, WalkInv, SaidInv, LeadInv,
         NEW p \in Peers, ComesOrGoes(p)
  PROVE  LeadInv'
<1> USE DEF FieldTypes, SessParts, Types, Orderly, ServesHeld, Roleless, Restarts, Serving,
            Goes, WalkInv, StatedAt, LostIsKnown, Ending, SaidInv, Unstated, OneSends,
            LeadInv, LeadTold, LeadAgrees, Tellable, Latest, Coming, Regaining, clientVars,
            dotVars, factVars, mainVars, runVars, playVars, tokens, reporterVars,
            watcherVars, askVars, sayVars, talkVars
<1>1. CASE Enter(p)
  BY <1>1 DEF Enter
<1>2. CASE Handshakes(p) \/ Leave(p)
  BY <1>2 DEF Handshakes, Leave
<1>3. CASE Drop(p) \/ Farewell(p)
  BY <1>3 DEF Drop, Farewell
<1>4. CASE End(p)
  BY <1>4 DEF End
<1>5. CASE Release(p)
  BY <1>5 DEF Release, LetsGo
<1>6. CASE Over(p)
  BY <1>6 DEF Over
<1>7. QED
  BY <1>1, <1>2, <1>3, <1>4, <1>5, <1>6 DEF ComesOrGoes

LEMMA RunLead ==
  ASSUME FieldTypes, SessParts, WalkInv, SaidInv, LeadInv,
         NEW p \in Peers, Run(p) \/ ReadFails(p)
  PROVE  LeadInv'
<1> USE DEF FieldTypes, SessParts, Types, Orderly, ServesHeld, Roleless, Restarts, Serving,
            Goes, WalkInv, StatedAt, LostIsKnown, Ending, SaidInv, Unstated, OneSends,
            LeadInv, LeadTold, LeadAgrees, Tellable, Latest, Coming, Regaining, clientVars,
            dotVars, factVars, mainVars, runVars, playVars, tokens, reporterVars,
            watcherVars, askVars, sayVars, talkVars
<1>1. CASE ReadFails(p)
  BY <1>1 DEF ReadFails, Returns
<1>2. CASE Activate(p)
  BY <1>2 DEF Activate, Reads
<1>3. CASE Deactivate(p)
  BY <1>3 DEF Deactivate, Stops, Reads
<1>4. CASE Quit(p)
  BY <1>4 DEF Quit, LetsGo, Returns
<1>5. CASE Hold(p)
  BY <1>5, SMTT(20) DEF Hold, Returns
<1>6. CASE First(p)
  BY <1>6, SMTT(30) DEF First, State, Stating, Message, Returns
<1>7. CASE Regain(p)
  BY <1>7 DEF Regain, TellServer
<1>8. CASE ClockAgrees(p) \/ HoldReady(p)
  BY <1>8 DEF ClockAgrees, Reads, HoldReady
<1>9. CASE Answer(p)
  BY <1>9, SMTT(30) DEF Answer, State, Stating, Message, Returns
<1>10. CASE \E ms \in Delays : StaticDelay(p, ms)
  BY <1>10 DEF StaticDelay, Reads
<1>11. CASE \E rate \in Rates : StartStream(p, rate)
  BY <1>11 DEF StartStream, Reads
<1>12. CASE Unplayable(p)
  BY <1>12 DEF Unplayable, Stops, Reads
<1>13. CASE Open(p)
  BY <1>13 DEF Open, Stops
<1>14. CASE OpenNew(p)
  BY <1>14 DEF OpenNew
<1>15. CASE EndStream(p)
  BY <1>15 DEF EndStream, Reads
<1>16. CASE Stop(p)
  BY <1>16 DEF Stop
<1>17. CASE LetStreamGo(p)
  BY <1>17 DEF LetStreamGo
<1>18. QED
  BY <1>1, <1>2, <1>3, <1>4, <1>5, <1>6, <1>7, <1>8, <1>9, <1>10, <1>11, <1>12, <1>13,
     <1>14, <1>15, <1>16, <1>17 DEF Run

LEMMA ReporterLead ==
  ASSUME FieldTypes, SessParts, WalkInv, SaidInv, LeadInv,
         NEW p \in Peers, ReportDelays(p)
  PROVE  LeadInv'
<1> USE DEF FieldTypes, SessParts, Types, Orderly, ServesHeld, Roleless, Restarts, Serving,
            Goes, WalkInv, StatedAt, LostIsKnown, Ending, SaidInv, Unstated, OneSends,
            LeadInv, LeadTold, LeadAgrees, Tellable, Latest, Coming, Regaining, clientVars,
            dotVars, factVars, mainVars, runVars, playVars, tokens, reporterVars,
            watcherVars, askVars, sayVars, talkVars
<1>1. CASE TokenTaken(p)
  BY <1>1 DEF TokenTaken
<1>2. CASE Reporting(p)
  BY <1>2 DEF Reporting
<1>3. CASE MakesUp(p)
  BY <1>3 DEF MakesUp, Stating, Message
<1>4. CASE Sends(p)
  BY <1>4 DEF Sends
<1>5. CASE ReporterEnds(p)
  BY <1>5 DEF ReporterEnds
<1>6. QED
  BY <1>1, <1>2, <1>3, <1>4, <1>5 DEF ReportDelays

LEMMA WatcherLead ==
  ASSUME FieldTypes, SessParts, WalkInv, SaidInv, LeadInv,
         NEW p \in Peers, WatchOutput(p)
  PROVE  LeadInv'
<1> USE DEF FieldTypes, SessParts, Types, Orderly, ServesHeld, Roleless, Restarts, Serving,
            Goes, WalkInv, StatedAt, LostIsKnown, Ending, SaidInv, Unstated, OneSends,
            LeadInv, LeadTold, LeadAgrees, Tellable, Latest, Coming, Regaining, clientVars,
            dotVars, factVars, mainVars, runVars, playVars, tokens, reporterVars,
            watcherVars, askVars, sayVars, talkVars
<1>1. CASE WatchStarts(p) \/ WatchLooks(p)
  BY <1>1 DEF WatchStarts, WatchLooks
<1>2. CASE WatchHeld(p)
  BY <1>2 DEF WatchHeld
<1>3. CASE WatchStores(p)
  BY <1>3 DEF WatchStores
<1>4. CASE WatchTells(p)
  BY <1>4 DEF WatchTells, State, Stating, Message
<1>5. CASE WatchAsks(p)
  BY <1>5 DEF WatchAsks
<1>6. CASE WatchReformats(p)
  BY <1>6 DEF WatchReformats
<1>7. CASE WatchTicks(p)
  BY <1>7 DEF WatchTicks, Stopped
<1>8. QED
  BY <1>1, <1>2, <1>3, <1>4, <1>5, <1>6, <1>7 DEF WatchOutput

LEMMA OthersLead ==
  ASSUME FieldTypes, SessParts, WalkInv, SaidInv, LeadInv,
         Others
  PROVE  LeadInv'
<1> USE DEF FieldTypes, SessParts, Types, Orderly, ServesHeld, Roleless, Restarts, Serving,
            Goes, WalkInv, StatedAt, LostIsKnown, Ending, SaidInv, Unstated, OneSends,
            LeadInv, LeadTold, LeadAgrees, Tellable, Latest, Coming, Regaining, clientVars,
            dotVars, factVars, mainVars, runVars, playVars, tokens, reporterVars,
            watcherVars, askVars, sayVars, talkVars
<1>1. CASE \E p \in Peers : WatchVolume(p)
  BY <1>1 DEF WatchVolume, TellServer
<1>2. CASE \E ms \in Delays : SetDelay(ms)
  BY <1>2 DEF SetDelay
<1>3. CASE TellsServer
  BY <1>3 DEF TellsServer
<1>4. CASE PutsToken
  BY <1>4 DEF PutsToken
<1>5. CASE Close \/ OutputMoves
  BY <1>5 DEF Close, OutputMoves
<1>6. CASE LevelChanges \/ Writer
  BY <1>6 DEF LevelChanges, Writer
<1>7. QED
  BY <1>1, <1>2, <1>3, <1>4, <1>5, <1>6 DEF Others

----------------------------------------------------------------------------
(* All of it.                                                               *)
LEMMA ToldInit == Init => ToldInv
<1> SUFFICES ASSUME Init PROVE ToldInv
  OBVIOUS
<1> USE DEF Init
<1>1. FieldTypes
  BY SilentTyped DEF FieldTypes
<1>2. WalkInv
  BY DEF WalkInv, LiveAt, StatedAt, LostIsKnown, RolelessLost, HolderIn
<1>3. SaidInv
  BY DEF SaidInv, OneSends, Unstated, DelayTold, VolumeTold, Tellable
<1>4. RateInv
  BY DEF RateInv, AsksAgree, AskedFor, Tellable
<1>5. LeadInv
  BY DEF LeadInv, LeadTold, LeadAgrees, Tellable
<1>6. QED
  BY <1>1, <1>2, <1>3, <1>4, <1>5 DEF ToldInv

LEMMA ToldStep == ToldInv /\ SessParts /\ [Next]_vars => ToldInv'
<1> SUFFICES ASSUME ToldInv, SessParts, [Next]_vars PROVE ToldInv'
  OBVIOUS
<1> FieldTypes /\ Types /\ WalkInv /\ SaidInv /\ RateInv /\ LeadInv
  BY DEF ToldInv, SessParts
<1>1. FieldTypes'
  BY FieldsStep
<1>2. CASE ClientStep
  <2>1. WalkInv'
    BY <1>2, VisitWalk, RunWalk, ReporterWalk, WatcherWalk, OthersWalk
       DEF ClientStep, ServeConn, ComesOrGoes, Others
  <2>2. SaidInv'
    BY <1>2, VisitSaid, RunSaid, ReporterSaid, WatcherSaid, OthersSaid
       DEF ClientStep, ServeConn, ComesOrGoes, Others
  <2>3. RateInv'
    BY <1>2, VisitRate, RunRate, ReporterRate, WatcherRate, OthersRate
       DEF ClientStep, ServeConn, ComesOrGoes, Others
  <2>4. LeadInv'
    BY <1>2, VisitLead, RunLead, ReporterLead, WatcherLead, OthersLead
       DEF ClientStep, ServeConn, ComesOrGoes, Others
  <2>5. QED
    BY <1>1, <2>1, <2>2, <2>3, <2>4 DEF ToldInv
<1>3. CASE UNCHANGED ownVars
  <2> USE <1>3 DEF ownVars, clientVars, dotVars, factVars, mainVars, runVars, tokens, reporterVars,
          watcherVars, askVars, sayVars, talkVars
  <2>1. WalkInv'
    BY DEF WalkInv, LiveAt, StatedAt, LostIsKnown, RolelessLost, HolderIn, Ending, Quits
  <2>2. SaidInv'
    BY DEF SaidInv, OneSends, Unstated, DelayTold, VolumeTold, Tellable, Latest, Coming
  <2>3. RateInv'
    BY DEF RateInv, AsksAgree, AskedFor, Tellable, Regaining
  <2>4. LeadInv'
    BY DEF LeadInv, LeadTold, LeadAgrees, Tellable, Latest, Coming, Regaining
  <2>5. QED
    BY <1>1, <2>1, <2>2, <2>3, <2>4 DEF ToldInv
<1>4. QED
  BY <1>2, <1>3 DEF Next, vars

(* A server that holds the player was told the delay and the level, wants   *)
(* the rate the watcher asked for, and knows of the lead what the watcher   *)
(* told, or a step that will tell it is on its way, in every state reached. *)
THEOREM SessionsTell == Spec => []ToldInv
<1>1. SessInv => SessParts
  BY DEF SessInv
<1>2. QED
  BY <1>1, ToldInit, ToldStep, SessionsInductive, PTL DEF Spec

(* With nothing on its way, what the server was told last of delay, level,  *)
(* rate and lead is what they are, but for the mishaps the model names: a   *)
(* figure stored by a session that had lost the hold (astray, strayLead), a *)
(* request sent without a role (late), a lead told past its watcher         *)
(* (unaware).                                                               *)
THEOREM SettledTold == Spec => []SettledIsTold
<1>1. ToldInv => SettledIsTold
  <2> SUFFICES ASSUME ToldInv, NEW p \in Peers, Quiet(p)
               PROVE  /\ setAt = "idle" => said[p].delay = delay
                      /\ toldVolume = volume /\ ~astray => said[p].volume = volume
                      /\ Watched(p) /\ ~late[p] => wanted[p] = output
                      /\ Watched(p) /\ ~strayLead /\ ~unaware[p] =>
                             said[p].bluetooth = (output = Bluetooth)
    BY DEF SettledIsTold
  <2>1. Tellable(p) /\ ~Coming(p) /\ Latest(p) = said[p]
    BY DEF Quiet, Tellable, Coming, Latest
  <2>2. setAt = "idle" => said[p].delay = delay
    BY <2>1 DEF ToldInv, SaidInv, DelayTold
  <2>3. toldVolume = volume /\ ~astray => said[p].volume = volume
    BY <2>1 DEF ToldInv, SaidInv, VolumeTold
  <2>4. roles[p]
    BY DEF ToldInv, WalkInv, HolderIn, Quits, Ending, Quiet
  <2>5. ASSUME Watched(p), ~late[p] PROVE wanted[p] = output
    BY <2>1, <2>4, <2>5 DEF ToldInv, RateInv, AsksAgree, AskedFor, Regaining, Watched, Quiet
  <2>6. ASSUME Watched(p), ~strayLead, ~unaware[p] PROVE said[p].bluetooth = (output = Bluetooth)
    <3>1. said[p].bluetooth \in BOOLEAN
      BY DEF ToldInv, FieldTypes, Messages
    <3>2. said[p].bluetooth <=> watchTold[p]
      BY <2>1, <2>6 DEF ToldInv, LeadInv, LeadTold, Watched
    <3>3. watchTold[p] <=> output = Bluetooth
      BY <2>1, <2>6 DEF ToldInv, LeadInv, LeadAgrees, Regaining, Watched, Quiet
    <3>4. QED
      BY <3>1, <3>2, <3>3
  <2>7. QED
    BY <2>2, <2>3, <2>5, <2>6
<1>2. QED
  BY <1>1, SessionsTell, PTL

----------------------------------------------------------------------------
(* The events left.                                                         *)
LEMMA LeftStep == LeftTyped /\ [Next]_vars => LeftTyped'
<1> SUFFICES ASSUME LeftTyped, [Next]_vars PROVE LeftTyped'
  OBVIOUS
<1>1. ASSUME Event PROVE LeftTyped'
  BY <1>1 DEF LeftTyped, Event
<1>2. ASSUME NEW p \in Peers, ServeConn(p) PROVE LeftTyped'
  <2>1. CASE Run(p) \/ Drop(p)
    <3>1. Event \/ UNCHANGED left
      BY <2>1
         DEF Run, Drop, Activate, Deactivate, Quit, Hold, First, Regain, ClockAgrees, HoldReady,
         Answer, StaticDelay, StartStream, Unplayable, Open, OpenNew, EndStream, Stop, LetStreamGo
    <3>2. QED
      BY <3>1, <1>1 DEF LeftTyped
  <2>2. CASE Enter(p)
    BY <2>2 DEF Enter, LeftTyped
  <2>3. CASE UNCHANGED left
    BY <2>3 DEF LeftTyped
  <2>4. QED
    BY <1>2, <2>1, <2>2, <2>3
       DEF ServeConn, Handshakes, ReadFails, End, Release, Leave, Over, Farewell
<1>3. ASSUME NEW p \in Peers, ReportDelays(p) \/ WatchOutput(p) \/ WatchVolume(p) PROVE LeftTyped'
  BY <1>3
     DEF LeftTyped, ReportDelays, TokenTaken, Reporting, MakesUp, Sends, ReporterEnds, WatchOutput,
     WatchStarts, WatchLooks, WatchHeld, WatchStores, WatchTells, WatchAsks, WatchReformats,
     WatchTicks, WatchVolume
<1>4. CASE (\E ms \in Delays : SetDelay(ms)) \/ OutputMoves \/ LevelChanges
  BY <1>1, <1>4 DEF SetDelay, OutputMoves, LevelChanges
<1>5. CASE TellsServer \/ PutsToken \/ Close \/ Writer
  BY <1>5 DEF LeftTyped, TellsServer, PutsToken, Close, Writer
<1>6. CASE UNCHANGED ownVars
  BY <1>6 DEF ownVars, LeftTyped
<1>7. QED
  BY <1>2, <1>3, <1>4, <1>5, <1>6 DEF Next, ClientStep, vars

(* Every variable of the sessions, the slot and the duck keeps its type.    *)
THEOREM SessionsType == Spec => []TypeOK
<1>1. Init => LeftTyped /\ focus \in Foci
  <2> SUFFICES ASSUME Init PROVE LeftTyped /\ focus \in Foci
    OBVIOUS
  <2>1. Shared \in 0 .. Events
    BY DEF Shared
  <2>2. QED
    BY <2>1 DEF Init, Budgets, LeftTyped
<1>2. focus \in Foci /\ [Next]_vars => (focus \in Foci)'
  BY DEF Next, vars
<1>3. SessInv /\ ToldInv /\ LeftTyped /\ focus \in Foci /\ DuckTypeOK => TypeOK
  <2> SUFFICES ASSUME SessInv, ToldInv, LeftTyped, focus \in Foci, DuckTypeOK PROVE TypeOK
    OBVIOUS
  <2> USE DEF SessInv, SessParts, ToldInv
  <2>1. SlotTypeOK
    BY DEF SlotInv
  <2>2. held \in live \cup {Nobody}
    BY DEF Types, WalkInv, LiveAt, HolderIn
  <2>3. then \in [Peers -> Stages]
    BY DEF Types, Stages
  <2>4. QED
    BY <2>1, <2>2, <2>3 DEF TypeOK, Types, FieldTypes, LeftTyped
<1>4. QED
  BY <1>1, <1>2, <1>3, LeftStep, SessionsInductive, SessionsTell, SessionsDuck, DuckTyped, PTL
     DEF Spec
=============================================================================
