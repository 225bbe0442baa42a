----------------------------- MODULE StreamSlot -----------------------------
(***************************************************************************)
(* The one stream of the player (internal/audio: chime_android.go,          *)
(* mixer.go and the life of a Stream in stream.go).  A Chime has a slot for *)
(* one stream and a writer that mixes what sounds and tunes the player to   *)
(* the stream's rate.  A stream leaves the slot when whoever closes it, the *)
(* session that played it or the writer that found it spent, gets to its    *)
(* compare-and-swap, which comes after the Close: a new stream may be in    *)
(* the slot by then.                                                        *)
(*                                                                          *)
(* Samples, their placing and the ducking are not modelled, nor is the      *)
(* chime's own clip.  What is done under Chime.mu or Stream.mu is one       *)
(* action.                                                                  *)
(***************************************************************************)
EXTENDS Naturals

CONSTANTS Streams,      \* streams anything still refers to at a time
          NoStream,     \* nil
          Rates,        \* rates the player opens at
          ChimeRate,    \* the rate it starts at
          PlayerDies    \* the player may refuse a block or to be opened again

ASSUME StreamsAssumption ==
    /\ NoStream \notin Streams
    /\ ChimeRate \in Rates
    /\ PlayerDies \in BOOLEAN

VARIABLES slot,         \* c.stream
          streamAt,     \* where each Stream is
          streamRate,   \* its rate
          mixed,        \* the streams in c.mix.srcs
          tuned,        \* c.rate
          woke,         \* a token in c.mix.woke
          writerAt,     \* where write is
          closing       \* the stream the writer closed and has not let go of

slotVars == <<slot, streamAt, streamRate, mixed, tuned, woke, writerAt, closing>>

SlotTypeOK ==
    /\ slot \in Streams \cup {NoStream}
    /\ streamAt \in [Streams -> {"open", "done", "spent", "closed"}]
    /\ streamRate \in [Streams -> Rates]
    /\ mixed \subseteq Streams
    /\ tuned \in Rates
    /\ woke \in BOOLEAN
    /\ writerAt \in {"look", "tune", "next", "idle", "wait", "dead"}
    /\ closing \in Streams \cup {NoStream}

SlotInit ==
    /\ slot = NoStream
    /\ streamAt = [s \in Streams |-> "closed"]
    /\ streamRate = [s \in Streams |-> ChimeRate]
    /\ mixed = {}
    /\ tuned = ChimeRate
    /\ woke = FALSE
    /\ writerAt = "wait"
    /\ closing = NoStream

Spent(s) == streamAt[s] \in {"spent", "closed"}
\* Slip: a closer empties the slot whatever it holds.
Emptied(s) == NoStream

Without(s) == IF slot = s THEN NoStream ELSE slot

(* Nothing of the player refers to s any more: it stands for a new stream.  *)
Loose(s) == Spent(s) /\ s \notin mixed \cup {slot, closing}

----------------------------------------------------------------------------
(* A slot that holds a stream which still plays is refused ...              *)
Refused == slot # NoStream /\ ~Spent(slot)

(* ... and one that is over makes room for stream s.                        *)
OpenStream(s, rate) ==
    /\ Loose(s)
    /\ slot' = s
    /\ streamAt' = [t \in Streams |-> IF t = s THEN "open"
                                      ELSE IF t = slot THEN "closed" ELSE streamAt[t]]
    /\ streamRate' = [streamRate EXCEPT ![s] = rate]
    /\ mixed' = IF rate = tuned THEN mixed \cup {s} ELSE mixed
    /\ woke' = TRUE
    /\ UNCHANGED <<tuned, writerAt, closing>>

(* Resume, of a stream that was finished or never stopped.                  *)
Resume(s) ==
    /\ ~Spent(s)
    /\ streamAt' = [streamAt EXCEPT ![s] = "open"]
    /\ UNCHANGED <<slot, streamRate, mixed, tuned, woke, writerAt, closing>>

Finish(s) ==
    /\ streamAt' = [streamAt EXCEPT ![s] = IF @ = "open" THEN "done" ELSE @]
    /\ UNCHANGED <<slot, streamRate, mixed, tuned, woke, writerAt, closing>>

(* Close by a session: only who closed it calls the closer, later.          *)
CloseStream(s) ==
    /\ streamAt' = [streamAt EXCEPT ![s] = "closed"]
    /\ UNCHANGED <<slot, streamRate, mixed, tuned, woke, writerAt, closing>>

(* closer: only its own stream leaves the slot.                             *)
Closer(s) ==
    /\ slot' = Without(s)
    /\ UNCHANGED <<streamAt, streamRate, mixed, tuned, woke, writerAt, closing>>

----------------------------------------------------------------------------
(* look: a spent stream is closed; "idle" is the look of a writer that had  *)
(* nothing to mix.                                                          *)
Look ==
    /\ writerAt \in {"look", "idle"}
    /\ closing = NoStream
    /\ IF slot # NoStream /\ streamAt[slot] = "spent"
       THEN /\ streamAt' = [streamAt EXCEPT ![slot] = "closed"]
            /\ closing' = slot
            /\ UNCHANGED writerAt
       ELSE /\ writerAt' = IF writerAt = "look" THEN "tune" ELSE "wait"
            /\ UNCHANGED <<streamAt, closing>>
    /\ UNCHANGED <<slot, streamRate, mixed, tuned, woke>>

LetGo ==
    /\ closing # NoStream
    /\ slot' = Without(closing)
    /\ closing' = NoStream
    /\ writerAt' = IF writerAt = "look" THEN "tune" ELSE "wait"
    /\ UNCHANGED <<streamAt, streamRate, mixed, tuned, woke>>

(* retune: the player is opened again at the rate of the stream it has.     *)
Retune ==
    /\ writerAt = "tune"
    /\ \/ /\ writerAt' = "next"
          /\ IF slot # NoStream /\ ~Spent(slot) /\ streamRate[slot] # tuned
             THEN tuned' = streamRate[slot] /\ mixed' = mixed \cup {slot} /\ woke' = TRUE
             ELSE UNCHANGED <<tuned, mixed, woke>>
       \/ /\ PlayerDies
          /\ slot # NoStream /\ ~Spent(slot) /\ streamRate[slot] # tuned
          /\ writerAt' = "dead"
          /\ UNCHANGED <<tuned, mixed, woke>>
    /\ UNCHANGED <<slot, streamAt, streamRate, closing>>

(* next reads a block of everything mixed: one that is done is spent by it, *)
(* and leaves as one that was closed does.  The block is pushed.            *)
MixNext ==
    /\ writerAt = "next"
    /\ \/ writerAt' = IF mixed = {} THEN "idle" ELSE "look"
       \/ PlayerDies /\ mixed # {} /\ writerAt' = "dead"
    /\ streamAt' = [s \in Streams |->
                      IF s \in mixed /\ streamAt[s] = "done" THEN "spent" ELSE streamAt[s]]
    /\ mixed' = {s \in mixed : streamAt[s] = "open"}
    /\ UNCHANGED <<slot, streamRate, tuned, woke, closing>>

Woken ==
    /\ writerAt = "wait"
    /\ woke
    /\ woke' = FALSE
    /\ writerAt' = "look"
    /\ UNCHANGED <<slot, streamAt, streamRate, mixed, tuned, closing>>

Writes == Look \/ LetGo \/ Retune \/ MixNext \/ Woken

SlotNext ==
    \/ \E s \in Streams, rate \in Rates : ~Refused /\ OpenStream(s, rate)
    \/ \E s \in Streams :
         \/ Resume(s) \/ Finish(s) \/ CloseStream(s)
         \/ streamAt[s] = "closed" /\ Closer(s)
    \/ Writes

SlotSpec == SlotInit /\ [][SlotNext]_slotVars

----------------------------------------------------------------------------
(* A stream that was opened sounds, or the writer is awake to tune to it,   *)
(* or has died: it is not left asleep, with no token, on a stream nobody    *)
(* mixes, and nobody empties the slot under a stream that still plays.      *)
OpenIsHeard ==
    \A s \in Streams : streamAt[s] = "open" =>
        /\ slot = s
        /\ s \in mixed \/ woke \/ writerAt \in {"look", "tune", "dead"}
=============================================================================
