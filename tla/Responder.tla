----------------------------- MODULE Responder ------------------------------
(***************************************************************************)
(* internal/mdns/mdns.go: the responder's list of services changes while   *)
(* it announces, answers and rebuilds its socket.                          *)
(*                                                                         *)
(* Everything it sends is a packet for a set of services that either puts  *)
(* them into the caches of the segment or, at TTL 0, takes them out.  A    *)
(* packet is built from the list at one moment, checked at another and     *)
(* written at a third, by five kinds of goroutine: the announcement of a   *)
(* serve cycle, the rungs of a ladder, the caller of Advertise, the read   *)
(* loop and Goodbye.  Calls of Advertise do not overlap (SendspinSwitch:   *)
(* enable's under s.mu while on, disable's after on is cleared).           *)
(*                                                                         *)
(* One assumption on time: what was about to be written when the first of  *)
(* two goodbyes went out has left before the second, goodbyeGap later.     *)
(***************************************************************************)
EXTENDS Naturals

CONSTANTS
  Base,          \* services in every list
  Extra,         \* services Advertise adds and drops
  MaxLadders,    \* bound: ladder goroutines alive at once
  Rungs,         \* rungs of a ladder
  WritesFail,    \* can a serve cycle's announcement, or a withdrawal, be refused
                 \* on an open socket?
  LateAdverts,   \* can Advertise run between Goodbye's packet and its mark?
  MaxAdverts, MaxSockets,
  MaxTroubles    \* bound: packets lost, writes refused and moves of the address

ASSUME ServicesAssumption == Base \intersect Extra = {} /\ {WritesFail, LateAdverts} \subseteq BOOLEAN
ASSUME BoundsAssumption ==
  {MaxLadders, Rungs, MaxAdverts, MaxSockets, MaxTroubles} \subseteq Nat

Services == Base \union Extra
Ladders == 1..MaxLadders
Serve == MaxLadders + 1       \* the announcement of a serve cycle
Advertising == MaxLadders + 2 \* the one of a call of Advertise
Announcers == Ladders \union {Serve, Advertising}
None == 0    \* no ladder
Nil == 0     \* no socket; Goodbye then writes to one of its own
Sockets == 1..MaxSockets

VARIABLES
  services, gen, gone,       \* the Responder's fields
  conn, sendFailed, ladder,
  run,         \* Run and serve
  sockets, open,  \* sockets made, and those not closed
  ann,         \* per announcer: its announceOnce
  adv,         \* the call of Advertise
  reply,       \* the answer the read loop has in hand
  bye,         \* the call of Goodbye
  cached,      \* what the segment holds a live record for
  troubles,    \* bounded
  unsaid       \* history: services dropped without both goodbyes

responder == <<services, gen, gone>>
vars == <<responder, conn, sendFailed, ladder, run, sockets, open, ann, adv,
          reply, bye, cached, troubles, unsaid>>

TypeOK ==
  /\ services \subseteq Services /\ gen \in 0..MaxAdverts
  /\ {gone, sendFailed} \subseteq BOOLEAN /\ ladder \in Ladders \union {None}
  /\ sockets \in 0..MaxSockets /\ conn \in Sockets \union {Nil}
  /\ open \subseteq Sockets \union {Nil}
  /\ run \in {"top", "opening", "serving", "returned"}
  /\ ann \in [Announcers -> [pc : {"idle", "wait", "gen", "build", "check", "write", "ladder"},
                             sock : Sockets \union {Nil}, gen : 0..MaxAdverts,
                             packet : SUBSET Services, rungs : 0..Rungs]]
  /\ adv \in [pc : {"idle", "stop", "first", "second", "announce"},
              sock : Sockets \union {Nil}, dropped : SUBSET Services, adds : BOOLEAN]
  /\ reply \subseteq Services
  /\ bye \in [pc : {"idle", "mark", "first", "second", "said", "failed"},
              packet : SUBSET Services, sock : Sockets \union {Nil}]
  /\ cached \subseteq Services /\ unsaid \subseteq Services

Idle == [pc |-> "idle", sock |-> Nil, gen |-> 0, packet |-> {}, rungs |-> 0]
Quiet == [pc |-> "idle", sock |-> Nil, dropped |-> {}, adds |-> FALSE]

Init ==
  /\ services = Base /\ gen = 0 /\ gone = FALSE
  /\ conn = Nil /\ sendFailed = FALSE /\ ladder = None
  /\ run = "top" /\ sockets = 0 /\ open = {Nil}
  /\ ann = [a \in Announcers |-> Idle] /\ adv = Quiet
  /\ reply = {}
  /\ bye = [pc |-> "idle", packet |-> {}, sock |-> Nil]
  /\ cached = {} /\ troubles = 0
  /\ unsaid = {}

-----------------------------------------------------------------------------
(* WriteToUDP: it lands, is lost on the way, or is refused *)

Trouble == troubles < MaxTroubles /\ troubles' = troubles + 1

Lands(s, held) == s \in open /\ cached' = held /\ UNCHANGED troubles

IsLost(s) == s \in open /\ Trouble /\ UNCHANGED cached

\* can: it fails on an open socket too.
IsRefused(can, s) ==
  /\ UNCHANGED cached
  /\ \/ s \notin open /\ UNCHANGED troubles
     \/ s \in open /\ can /\ WritesFail /\ Trouble

-----------------------------------------------------------------------------
(* announceOnce and announceGen: the generation, the packet, the check *)

Step(a, r) == ann' = [ann EXCEPT ![a] = r]

ReadGen(a) ==
  /\ ann[a].pc = "gen"
  /\ Step(a, [ann[a] EXCEPT !.pc = "build", !.gen = gen])
  /\ UNCHANGED <<responder, conn, sendFailed, ladder, run, sockets, open, adv,
                 reply, bye, cached, troubles, unsaid>>

Build(a) ==
  /\ ann[a].pc = "build"
  /\ Step(a, [ann[a] EXCEPT !.pc = "check", !.packet = services])
  /\ UNCHANGED <<responder, conn, sendFailed, ladder, run, sockets, open, adv,
                 reply, bye, cached, troubles, unsaid>>

\* Slip: the ladder counts past its last rung.
NextRungPastLast(a) ==
  LET r == ann[a]
  IN  IF a \notin Ladders THEN [Idle EXCEPT !.pc = "ladder", !.sock = r.sock]
      ELSE [Idle EXCEPT !.pc = "wait", !.sock = r.sock, !.rungs = r.rungs - 1]

\* The announcement is over: announce goes on to its ladder, a rung to the
\* next one.
NextRung(a) ==
  LET r == ann[a]
  IN  CASE a \notin Ladders -> [Idle EXCEPT !.pc = "ladder", !.sock = r.sock]
        [] a \in Ladders /\ r.rungs > 1 -> [Idle EXCEPT !.pc = "wait", !.sock = r.sock, !.rungs = r.rungs - 1]
        [] OTHER -> Idle

\* Slips: an announcement does not look at the generation, or at gone.
CheckGone(a) ==
  /\ ann[a].pc = "check"
  /\ Step(a, IF gone THEN NextRung(a) ELSE [ann[a] EXCEPT !.pc = "write"])
  /\ UNCHANGED <<responder, conn, sendFailed, ladder, run, sockets, open, adv,
                 reply, bye, cached, troubles, unsaid>>

CheckGen(a) ==
  /\ ann[a].pc = "check"
  /\ Step(a, IF ann[a].gen # gen THEN NextRung(a) ELSE [ann[a] EXCEPT !.pc = "write"])
  /\ UNCHANGED <<responder, conn, sendFailed, ladder, run, sockets, open, adv,
                 reply, bye, cached, troubles, unsaid>>

Check(a) ==
  /\ ann[a].pc = "check"
  /\ Step(a, IF gone \/ ann[a].gen # gen THEN NextRung(a) ELSE [ann[a] EXCEPT !.pc = "write"])
  /\ UNCHANGED <<responder, conn, sendFailed, ladder, run, sockets, open, adv,
                 reply, bye, cached, troubles, unsaid>>

\* A failure counts toward a rebuild, but for Advertise, whose caller logs it,
\* and for a serve cycle that is over.
Write(a) ==
  LET r == ann[a]
      noted == a \in Ladders \/ (a = Serve /\ conn = r.sock)
  IN  /\ r.pc = "write"
      /\ \/ /\ Lands(r.sock, cached \union r.packet) \/ IsLost(r.sock)
            /\ Step(a, NextRung(a)) /\ UNCHANGED <<sendFailed, adv>>
         \/ /\ IsRefused(a = Serve, r.sock)
            /\ Step(a, Idle) /\ sendFailed' = (sendFailed \/ noted)
            /\ adv' = IF a = Advertising THEN Quiet ELSE adv
      /\ UNCHANGED <<responder, conn, ladder, run, sockets, open, reply, bye,
                     unsaid>>

StartLadder(a) ==
  /\ ann[a].pc = "ladder"
  /\ \E l \in Ladders :
       /\ ann[l].pc = "idle" /\ \A k \in 1..(l - 1) : ann[k].pc # "idle"
       /\ ladder' = l
       /\ ann' = [ann EXCEPT ![a] = Idle,
                             ![l] = [Idle EXCEPT !.pc = "wait", !.sock = ann[a].sock,
                                                 !.rungs = Rungs]]
  /\ adv' = IF a = Advertising THEN Quiet ELSE adv
  /\ UNCHANGED <<responder, conn, sendFailed, run, sockets, open, reply, bye,
                 cached, troubles, unsaid>>

\* Slip: a rung gives up on the socket it was started for.
RungGivesUp(l) ==
  /\ l \in Ladders /\ ann[l].pc = "wait"
  /\ Step(l, IF ladder # l \/ conn = ann[l].sock \/ gone
             THEN Idle ELSE [ann[l] EXCEPT !.pc = "gen"])
  /\ UNCHANGED <<responder, conn, sendFailed, ladder, run, sockets, open, adv,
                 reply, bye, cached, troubles, unsaid>>

\* A rung comes due, unless the ladder was cancelled or replaced.
Rung(l) ==
  /\ l \in Ladders /\ ann[l].pc = "wait"
  /\ Step(l, IF ladder # l \/ conn # ann[l].sock \/ gone
             THEN Idle ELSE [ann[l] EXCEPT !.pc = "gen"])
  /\ UNCHANGED <<responder, conn, sendFailed, ladder, run, sockets, open, adv,
                 reply, bye, cached, troubles, unsaid>>

-----------------------------------------------------------------------------
(* Advertise *)

\* enable's list and disable's, the one that may be in force already: the
\* advertiser of a switch-off had not got as far as advertising.
Lists == {Base} \union ({Services} \ {services})

Swap ==
  /\ adv.pc = "idle" /\ gen < MaxAdverts
  /\ bye.pc # "mark" \/ LateAdverts
  /\ \E list \in Lists :
       LET dropped == services \ list
           adds == ~(list \subseteq services)
       IN  /\ services' = list /\ gen' = gen + 1
           /\ unsaid' = (unsaid \union dropped) \ (IF bye.pc = "idle" THEN list ELSE {})
           /\ IF conn = Nil \/ gone
              THEN UNCHANGED <<adv, ann>>
              ELSE /\ adv' = [pc |-> IF dropped # {} THEN "stop"
                                     ELSE IF adds THEN "announce" ELSE "idle",
                              sock |-> conn, dropped |-> dropped, adds |-> adds]
                   /\ IF dropped = {} /\ adds
                      THEN Step(Advertising, [Idle EXCEPT !.pc = "gen", !.sock = conn])
                      ELSE UNCHANGED ann
  /\ UNCHANGED <<gone, conn, sendFailed, ladder, run, sockets, open, reply, bye,
                 cached, troubles>>

StopLadder ==
  /\ adv.pc = "stop" /\ ladder' = None /\ adv' = [adv EXCEPT !.pc = "first"]
  /\ UNCHANGED <<responder, conn, sendFailed, run, sockets, open, ann, reply, bye,
                 cached, troubles, unsaid>>

\* Packets on their way out that a goodbye for these services must not precede.
Leaving(those) ==
  \/ \E a \in Announcers : ann[a].pc = "write" /\ ann[a].packet \intersect those # {}
  \/ reply \intersect those # {}

AfterWithdrawal ==
  IF adv.adds
  THEN /\ adv' = [adv EXCEPT !.pc = "announce"]
       /\ Step(Advertising, [Idle EXCEPT !.pc = "gen", !.sock = adv.sock])
  ELSE adv' = Quiet /\ UNCHANGED ann

Withdraw ==
  /\ adv.pc \in {"first", "second"}
  /\ adv.pc = "second" => ~Leaving(adv.dropped)
  /\ \/ /\ Lands(adv.sock, cached \ adv.dropped)
        /\ IF adv.pc = "first"
           THEN adv' = [adv EXCEPT !.pc = "second"] /\ UNCHANGED <<ann, unsaid>>
           ELSE AfterWithdrawal /\ unsaid' = unsaid \ adv.dropped
     \/ IsRefused(TRUE, adv.sock) /\ AfterWithdrawal /\ UNCHANGED unsaid
  /\ UNCHANGED <<responder, conn, sendFailed, ladder, run, sockets, open, reply,
                 bye>>

-----------------------------------------------------------------------------
(* Run, serve and watchAddress *)

Top ==
  /\ run = "top" /\ run' = (IF gone THEN "returned" ELSE "opening")
  /\ UNCHANGED <<responder, conn, sendFailed, ladder, sockets, open, ann, adv,
                 reply, bye, cached, troubles, unsaid>>

Open ==
  /\ run = "opening" /\ sockets < MaxSockets /\ ann[Serve].pc = "idle"
  /\ run' = "serving" /\ sockets' = sockets + 1 /\ conn' = sockets'
  /\ open' = open \union {sockets'} /\ sendFailed' = FALSE
  /\ Step(Serve, [Idle EXCEPT !.pc = "gen", !.sock = sockets'])
  /\ UNCHANGED <<responder, ladder, adv, reply, bye, cached, troubles, unsaid>>

\* watchAddress: the address moved, or a send failed.
CloseSocket ==
  /\ run = "serving" /\ conn \in open /\ sockets < MaxSockets
  /\ sendFailed' = FALSE /\ open' = open \ {conn}
  /\ UNCHANGED <<responder, conn, ladder, run, sockets, ann, adv, reply, bye,
                 cached, unsaid>>

Moved == Trouble /\ CloseSocket
Watch == sendFailed /\ CloseSocket /\ UNCHANGED troubles

ServeEnds ==
  /\ run = "serving" /\ conn \notin open /\ reply = {}
  /\ run' = "top" /\ conn' = Nil
  /\ UNCHANGED <<responder, sendFailed, ladder, sockets, open, ann, adv, reply,
                 bye, cached, troubles, unsaid>>

\* wants and replyTo: a query comes in, the rate limit lets it through, and the
\* read loop has an answer in hand.  One for fewer than all services puts less
\* in the caches, which is all that the properties ask of it.
Query ==
  /\ run = "serving" /\ conn \in open /\ reply = {} /\ ~gone
  /\ reply' = services
  /\ UNCHANGED <<responder, conn, sendFailed, ladder, run, sockets, open, ann, adv,
                 bye, cached, troubles, unsaid>>

Reply ==
  /\ reply # {} /\ reply' = {}
  /\ \/ Lands(conn, cached \union reply) /\ UNCHANGED sendFailed
     \/ IsRefused(FALSE, conn) /\ sendFailed' \in {sendFailed, TRUE}
  /\ UNCHANGED <<responder, conn, ladder, run, sockets, open, ann, adv, bye, unsaid>>

-----------------------------------------------------------------------------
(* Goodbye *)

BuildGoodbye ==
  /\ bye.pc = "idle"
  /\ bye' = [bye EXCEPT !.pc = "mark", !.packet = services]
  /\ UNCHANGED <<responder, conn, sendFailed, ladder, run, sockets, open, ann, adv,
                 reply, cached, troubles, unsaid>>

\* Without a socket it opens its own, if it can.
MarkGone ==
  /\ bye.pc = "mark" /\ gone' = TRUE
  /\ bye' \in {[bye EXCEPT !.pc = "first", !.sock = conn]} \union
              (IF conn = Nil THEN {[bye EXCEPT !.pc = "failed"]} ELSE {})
  /\ UNCHANGED <<services, gen, conn, sendFailed, ladder, run, sockets, open, ann,
                 adv, reply, cached, troubles, unsaid>>

SayGoodbye ==
  /\ bye.pc \in {"first", "second"}
  /\ bye.pc = "second" => ~Leaving(bye.packet)
  /\ \/ /\ Lands(bye.sock, cached \ bye.packet)
        /\ bye' = [bye EXCEPT !.pc = IF bye.pc = "first" THEN "second" ELSE "said"]
     \/ IsRefused(FALSE, bye.sock) /\ bye' = [bye EXCEPT !.pc = "failed"]
  /\ UNCHANGED <<responder, conn, sendFailed, ladder, run, sockets, open, ann, adv,
                 reply, unsaid>>

Announcer(a) == ReadGen(a) \/ Build(a) \/ Check(a) \/ Write(a) \/ StartLadder(a)
Serving == Top \/ Open \/ Watch \/ ServeEnds
Leave == MarkGone \/ SayGoodbye

Next == \/ \E a \in Announcers : Announcer(a) \/ Rung(a)
        \/ Swap \/ StopLadder \/ Withdraw
        \/ Serving \/ Moved \/ Query \/ Reply
        \/ BuildGoodbye \/ Leave

Spec == Init /\ [][Next]_vars

\* Every goroutine runs and every timer fires; nobody has to query, to call
\* Advertise or Goodbye, and the address has not to move.
Fairness == /\ \A a \in Announcers : WF_ann(Announcer(a)) /\ WF_ann(Rung(a))
            /\ WF_adv(StopLadder \/ Withdraw) /\ WF_vars(Serving)
            /\ WF_reply(Reply) /\ WF_bye(Leave)
FairSpec == Spec /\ Fairness

-----------------------------------------------------------------------------
\* Between calls of Advertise the segment holds nothing that is not in the
\* list, whoever was announcing or answering when the list changed, but for
\* what a goodbye could not be sent for.
WithdrawnStaysWithdrawn == adv.pc = "idle" => cached \subseteq services \union unsaid

\* After a Goodbye that was sent, nothing comes back.
GoodbyeIsLast == bye.pc = "said" => cached \subseteq unsaid

\* A service that is added and stays reaches the segment, or the responder
\* is on its way out: whatever socket was there, closed or failing, and
\* whatever the first packets met.
AddedIsAnnounced ==
  \A s \in Extra : <>[](s \in services) => <>[](s \in cached \/ gone)

\* docs/sendspin.md: "`SIGTERM` withdraws the advert."
GoodbyeRetiresEveryRecord == bye.pc = "said" /\ unsaid = {} => cached = {}
=============================================================================
