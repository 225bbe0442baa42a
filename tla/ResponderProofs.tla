--------------------------- MODULE ResponderProofs ---------------------------
(***************************************************************************)
(* What the mDNS responder keeps for any number of services, announcers,   *)
(* lists and sockets.  Everything that may still get out is followed: what *)
(* an announcement built before its check, what the read loop has in hand, *)
(* what is in the caches already.  At every moment it is within the list   *)
(* or within what a goodbye is still owed for; and once Goodbye has built  *)
(* its packet, within that packet or what is owed.                         *)
(***************************************************************************)
EXTENDS Responder, TLAPS

\* What an announcer may be at.
Announcement == [pc : {"idle", "wait", "gen", "build", "check", "write", "ladder"},
                 sock : Sockets \union {Nil}, gen : 0..MaxAdverts,
                 packet : SUBSET Services, rungs : 0..Rungs]

\* Nothing but these is in a cache or in a packet that nothing stops any more.
Carried(held) ==
  /\ cached \subseteq held /\ reply \subseteq held
  /\ \A a \in Announcers : ann[a].pc = "write" => ann[a].packet \subseteq held

\* A packet that will pass its check is of the list in force.
PacketInv ==
  \A a \in Announcers :
    /\ ann[a].pc \in {"build", "check"} => ann[a].gen <= gen
    /\ ann[a].pc = "check" /\ ann[a].gen = gen => ann[a].packet = services

\* What is out or on its way out is in the list, or a goodbye is owed for it.
ListInv == Carried(services \union unsaid)

\* gone is set after Goodbye has built its packet, never unset, and the packet
\* has all that is owed no other goodbye, unless Advertise came between.
ByeInv ==
  /\ gone <=> bye.pc \notin {"idle", "mark"}
  /\ ~LateAdverts =>
       /\ bye.pc = "mark" => bye.packet = services
       /\ bye.pc # "idle" => Carried(bye.packet \union unsaid)
       /\ bye.pc = "said" => Carried(unsaid)

IInv == TypeOK /\ PacketInv /\ ListInv /\ ByeInv

-----------------------------------------------------------------------------
LEMMA Numbers ==
  /\ MaxLadders \in Nat /\ Rungs \in Nat /\ MaxAdverts \in Nat /\ MaxSockets \in Nat
  /\ Serve \in Announcers /\ Advertising \in Announcers /\ Ladders \subseteq Announcers
  /\ Nil \in Sockets \union {Nil} /\ Base \subseteq Services
  BY BoundsAssumption DEF Serve, Advertising, Announcers, Ladders, Services

\* The records an announcement goes through.
LEMMA Records ==
  ASSUME NEW r \in Announcement
  PROVE  /\ r.pc \in {"idle", "wait", "gen", "build", "check", "write", "ladder"}
         /\ r.sock \in Sockets \union {Nil} /\ r.gen \in 0..MaxAdverts
         /\ r.packet \in SUBSET Services /\ r.rungs \in 0..Rungs
  BY DEF Announcement

LEMMA WriteRecord ==
  ASSUME NEW r \in Announcement, NEW s, s = [r EXCEPT !.pc = "write"]
  PROVE  s \in Announcement /\ s.pc = "write" /\ s.packet = r.packet
  BY DEF Announcement

LEMMA GenRecord ==
  ASSUME NEW r \in Announcement, NEW s, s = [r EXCEPT !.pc = "gen"]
  PROVE  s \in Announcement /\ s.pc = "gen"
  BY DEF Announcement

LEMMA FreshRecords ==
  /\ Idle \in Announcement /\ Idle.pc = "idle"
  /\ \A k \in Sockets \union {Nil} :
       /\ LET s == [Idle EXCEPT !.pc = "gen", !.sock = k]
          IN  s \in Announcement /\ s.pc = "gen"
       /\ LET s == [Idle EXCEPT !.pc = "ladder", !.sock = k]
          IN  s \in Announcement /\ s.pc = "ladder"
<1>1. 0 \in 0..MaxAdverts /\ 0 \in 0..Rungs
  BY Numbers
<1>2. QED
  BY <1>1 DEF Idle, Announcement, Nil

LEMMA FreshWait ==
  ASSUME NEW k \in Sockets \union {Nil}, NEW n \in 0..Rungs,
         NEW r, r = [Idle EXCEPT !.pc = "wait", !.sock = k, !.rungs = n]
  PROVE  r \in Announcement /\ r.pc = "wait"
<1>1. 0 \in 0..MaxAdverts
  BY Numbers
<1>2. QED
  BY <1>1 DEF Idle, Announcement, Nil

LEMMA NextRungIs ==
  ASSUME TypeOK, NEW a \in Announcers
  PROVE  NextRung(a) \in Announcement /\ NextRung(a).pc \in {"idle", "wait", "ladder"}
<1>1. ann[a] \in Announcement
  BY DEF TypeOK, Announcement
<1>2. ann[a].sock \in Sockets \union {Nil} /\ ann[a].rungs \in 0..Rungs
  BY <1>1, Records
<1>3. ann[a].rungs > 1 => ann[a].rungs - 1 \in 0..Rungs
  BY <1>2, Numbers
<1>4. CASE a \notin Ladders
  BY <1>2, <1>4, FreshRecords DEF NextRung
<1>5. CASE a \in Ladders /\ ann[a].rungs > 1
  <2>1. NextRung(a) = [Idle EXCEPT !.pc = "wait", !.sock = ann[a].sock, !.rungs = ann[a].rungs - 1]
    BY <1>5 DEF NextRung
  <2>2. PICK k \in Sockets \union {Nil}, m \in 0..Rungs :
           NextRung(a) = [Idle EXCEPT !.pc = "wait", !.sock = k, !.rungs = m]
    BY <1>2, <1>3, <1>5, <2>1
  <2>3. QED
    BY <2>2, FreshWait
<1>6. CASE a \in Ladders /\ ~(ann[a].rungs > 1)
  BY <1>6, FreshRecords DEF NextRung
<1>7. QED
  BY <1>4, <1>5, <1>6

LEMMA StepIs ==
  ASSUME TypeOK, NEW a \in Announcers, NEW r \in Announcement, Step(a, r)
  PROVE  /\ ann' \in [Announcers -> Announcement] /\ ann'[a] = r
         /\ \A b \in Announcers \ {a} : ann'[b] = ann[b]
  BY DEF TypeOK, Announcement, Step

-----------------------------------------------------------------------------
\* How far a step may bring an announcement.
Fate(b) ==
  \/ ann'[b] = ann[b]
  \/ ann'[b].pc \in {"idle", "wait", "gen", "ladder"}
  \/ ann'[b].pc = "build" /\ ann'[b].gen = gen /\ UNCHANGED responder
  \/ /\ ann[b].pc = "build" /\ ann'[b].pc = "check"
     /\ ann'[b].packet = services /\ ann'[b].gen = ann[b].gen /\ UNCHANGED responder
  \/ /\ ann[b].pc = "check" /\ ann'[b].pc = "write" /\ ann'[b].packet = ann[b].packet
     /\ ~gone /\ ann[b].gen = gen /\ UNCHANGED <<responder, bye, unsaid, cached, reply>>

Fated == ann' \in [Announcers -> Announcement] /\ \A b \in Announcers : Fate(b)

LEMMA StepFated ==
  ASSUME TypeOK, NEW a \in Announcers, NEW r \in Announcement, Step(a, r),
         ann'[a] = r => Fate(a)
  PROVE  Fated
  BY StepIs DEF Fated, Fate

LEMMA SameFated == ASSUME TypeOK, UNCHANGED ann PROVE Fated
  BY DEF TypeOK, Announcement, Fated, Fate

LEMMA AnnouncerFated ==
  ASSUME TypeOK, NEW a \in Announcers, Announcer(a) \/ Rung(a)
  PROVE  Fated
<1> DEFINE r == ann[a]
<1>1. r \in Announcement
  BY DEF TypeOK, Announcement
<1>2. gen \in 0..MaxAdverts /\ services \in SUBSET Services
  BY DEF TypeOK
<1>3. NextRung(a) \in Announcement /\ NextRung(a).pc \in {"idle", "wait", "ladder"}
  BY NextRungIs
<1>4. CASE ReadGen(a)
  <2> DEFINE s == [r EXCEPT !.pc = "build", !.gen = gen]
  <2>1. s \in Announcement /\ s.pc = "build" /\ s.gen = gen
    BY <1>1, <1>2 DEF Announcement
  <2>2. Step(a, s) /\ UNCHANGED responder
    BY <1>4 DEF ReadGen
  <2> HIDE DEF s
  <2>3. QED
    BY <2>1, <2>2, StepFated DEF Fate
<1>5. CASE Build(a)
  <2> DEFINE s == [r EXCEPT !.pc = "check", !.packet = services]
  <2>1. s \in Announcement /\ s.pc = "check" /\ s.packet = services /\ s.gen = ann[a].gen
    BY <1>1, <1>2 DEF Announcement
  <2>2. Step(a, s) /\ ann[a].pc = "build" /\ UNCHANGED responder
    BY <1>5 DEF Build
  <2> HIDE DEF s
  <2>3. QED
    BY <2>1, <2>2, StepFated DEF Fate
<1>6. CASE Check(a)
  <2>1. CASE gone \/ ann[a].gen # gen
    BY <1>3, <1>6, <2>1, StepFated DEF Fate, Check
  <2>2. CASE ~(gone \/ ann[a].gen # gen)
    <3>1. PICK s \in Announcement : Step(a, s) /\ s.pc = "write" /\ s.packet = ann[a].packet
      BY <1>1, <1>6, <2>2, WriteRecord DEF Check
    <3>2. QED
      BY <1>6, <2>2, <3>1, StepFated DEF Fate, Check
  <2>3. QED
    BY <2>1, <2>2
<1>7. CASE Write(a)
  <2>1. Step(a, NextRung(a)) \/ Step(a, Idle)
    BY <1>7 DEF Write
  <2>2. QED
    BY <1>3, <2>1, FreshRecords, StepFated DEF Fate
<1>8. CASE StartLadder(a)
  <2>1. PICK l \in Ladders :
           ann' = [ann EXCEPT ![a] = Idle,
                              ![l] = [Idle EXCEPT !.pc = "wait", !.sock = ann[a].sock, !.rungs = Rungs]]
    BY <1>8 DEF StartLadder
  <2>2. ann[a].sock \in Sockets \union {Nil} /\ Rungs \in 0..Rungs /\ l \in Announcers
    BY <1>1, Records, Numbers
  <2>3. PICK w \in Announcement :
           w.pc = "wait" /\ ann' = [ann EXCEPT ![a] = Idle, ![l] = w]
    BY <2>1, <2>2, FreshWait
  <2>4. QED
    BY <2>2, <2>3, FreshRecords, ZenonT(30) DEF Fated, Fate, TypeOK, Announcement
<1>9. CASE Rung(a)
  <2>1. Step(a, Idle) \/ \E s \in Announcement : Step(a, s) /\ s.pc = "gen"
    BY <1>1, <1>9, GenRecord DEF Rung
  <2>2. QED
    BY <2>1, FreshRecords, StepFated DEF Fate
<1>10. QED
  BY <1>4, <1>5, <1>6, <1>7, <1>8, <1>9 DEF Announcer

\* A new announcement is at its start.
LEMMA BeginsFated ==
  ASSUME TypeOK, NEW a \in Announcers, NEW k \in Sockets \union {Nil},
         Step(a, [Idle EXCEPT !.pc = "gen", !.sock = k])
  PROVE  Fated
<1>1. PICK s \in Announcement : Step(a, s) /\ s.pc = "gen"
  BY FreshRecords
<1>2. QED
  BY <1>1, StepFated DEF Fate

LEMMA FateOf == ASSUME TypeOK, [Next]_vars PROVE Fated
<1>1. CASE \E a \in Announcers : Announcer(a) \/ Rung(a)
  BY <1>1, AnnouncerFated
<1>2. CASE Swap
  <2>1. conn \in Sockets \union {Nil}
    BY DEF TypeOK
  <2>2. UNCHANGED ann \/ Step(Advertising, [Idle EXCEPT !.pc = "gen", !.sock = conn])
    BY <1>2 DEF Swap
  <2>3. QED
    BY <2>1, <2>2, Numbers, BeginsFated, SameFated
<1>3. CASE Withdraw
  <2>1. adv.sock \in Sockets \union {Nil}
    BY DEF TypeOK
  <2>2. UNCHANGED ann \/ Step(Advertising, [Idle EXCEPT !.pc = "gen", !.sock = adv.sock])
    BY <1>3 DEF Withdraw, AfterWithdrawal
  <2>3. QED
    BY <2>1, <2>2, Numbers, BeginsFated, SameFated
<1>4. CASE Open
  <2>1. sockets' \in Sockets
    BY <1>4, Numbers DEF Open, TypeOK, Sockets
  <2>2. PICK k \in Sockets \union {Nil} : Step(Serve, [Idle EXCEPT !.pc = "gen", !.sock = k])
    BY <1>4, <2>1 DEF Open
  <2>3. QED
    BY <2>2, Numbers, BeginsFated
<1>5. CASE Top \/ Watch \/ ServeEnds \/ Moved
  <2>1. UNCHANGED ann
    BY <1>5 DEF Top, Watch, ServeEnds, Moved, CloseSocket
  <2>2. QED
    BY <2>1, SameFated
<1>6. CASE StopLadder \/ Query \/ Reply \/ BuildGoodbye \/ Leave \/ UNCHANGED vars
  <2>1. UNCHANGED ann
    BY <1>6 DEF StopLadder, Query, Reply, BuildGoodbye, Leave, MarkGone, SayGoodbye, vars
  <2>2. QED
    BY <2>1, SameFated
<1>7. QED
  BY <1>1, <1>2, <1>3, <1>4, <1>5, <1>6 DEF Next, Serving

-----------------------------------------------------------------------------
\* What a step does to the list, and when.
LEMMA ListMoves ==
  ASSUME [Next]_vars
  PROVE  UNCHANGED <<services, gen>> \/ Swap
<1>1. CASE \E a \in Announcers : Announcer(a) \/ Rung(a)
  BY <1>1 DEF Announcer, ReadGen, Build, Check, Write, StartLadder, Rung, responder
<1>2. CASE StopLadder \/ Withdraw \/ Serving \/ Moved \/ Query \/ Reply \/ BuildGoodbye \/ Leave
           \/ UNCHANGED vars
  BY <1>2 DEF StopLadder, Withdraw, Serving, Top, Open, Watch, ServeEnds, Moved, CloseSocket, Query,
     Reply, BuildGoodbye, Leave, MarkGone, SayGoodbye, responder, vars
<1>3. QED
  BY <1>1, <1>2 DEF Next

\* What a step does to what a goodbye is owed for.
LEMMA OwedMoves ==
  ASSUME [Next]_vars
  PROVE  \/ UNCHANGED unsaid
         \/ Swap
         \/ /\ Withdraw /\ ~Leaving(adv.dropped)
            /\ unsaid' = unsaid \ adv.dropped /\ cached' = cached \ adv.dropped
            /\ UNCHANGED <<services, gone, reply, bye>>
<1>1. CASE \E a \in Announcers : Announcer(a) \/ Rung(a)
  BY <1>1 DEF Announcer, ReadGen, Build, Check, Write, StartLadder, Rung
<1>2. CASE StopLadder \/ Serving \/ Moved \/ Query \/ Reply \/ BuildGoodbye \/ Leave \/ UNCHANGED vars
  BY <1>2 DEF StopLadder, Serving, Top, Open, Watch, ServeEnds, Moved, CloseSocket, Query,
     Reply, BuildGoodbye, Leave, MarkGone, SayGoodbye, vars
<1>3. CASE Withdraw
  BY <1>3 DEF Withdraw, Lands, responder
<1>4. QED
  BY <1>1, <1>2, <1>3 DEF Next

\* What a step does to Goodbye.
LEMMA ByeMoves ==
  ASSUME [Next]_vars
  PROVE  \/ UNCHANGED <<bye, gone>>
         \/ BuildGoodbye \/ MarkGone \/ SayGoodbye
<1>1. CASE \E a \in Announcers : Announcer(a) \/ Rung(a)
  BY <1>1 DEF Announcer, ReadGen, Build, Check, Write, StartLadder, Rung, responder
<1>2. CASE StopLadder \/ Withdraw \/ Serving \/ Moved \/ Query \/ Reply \/ Swap \/ UNCHANGED vars
  BY <1>2 DEF StopLadder, Withdraw, Serving, Top, Open, Watch, ServeEnds, Moved, CloseSocket, Query,
     Reply, Swap, responder, vars
<1>3. QED
  BY <1>1, <1>2 DEF Next, Leave

LEMMA PacketStep == ASSUME IInv, [Next]_vars PROVE PacketInv'
<1>1. Fated
  BY FateOf DEF IInv
<1>2. gen \in Nat /\ \A b \in Announcers : ann[b].gen \in Nat
  BY Numbers DEF IInv, TypeOK
<1>3. UNCHANGED <<services, gen>> \/ gen' = gen + 1
  BY ListMoves DEF Swap
<1>4. ASSUME NEW b \in Announcers
      PROVE  /\ ann'[b].pc \in {"build", "check"} => ann'[b].gen <= gen'
             /\ ann'[b].pc = "check" /\ ann'[b].gen = gen' => ann'[b].packet = services'
  <2>1. Fate(b)
    BY <1>1 DEF Fated
  <2>2. /\ ann[b].pc \in {"build", "check"} => ann[b].gen <= gen
        /\ ann[b].pc = "check" /\ ann[b].gen = gen => ann[b].packet = services
    BY DEF IInv, PacketInv
  <2>3. CASE ann'[b] = ann[b]
    BY <1>2, <1>3, <2>2, <2>3
  <2>4. CASE ann'[b] # ann[b]
    BY <1>2, <1>3, <2>1, <2>2, <2>4 DEF Fate, responder
  <2>5. QED
    BY <2>3, <2>4
<1>5. QED
  BY <1>4 DEF PacketInv

-----------------------------------------------------------------------------
\* Carried, of the state a step leads to.
CarriesOn(held) ==
  /\ cached' \subseteq held /\ reply' \subseteq held
  /\ \A a \in Announcers : ann'[a].pc = "write" => ann'[a].packet \subseteq held

\* Nothing is put on its way but the list, and that before the goodbye.
LEMMA Carries ==
  ASSUME IInv, [Next]_vars, NEW held, Carried(held), ~gone => services \subseteq held
  PROVE  CarriesOn(held)
<1>1. cached' \subseteq held
  <2>1. ASSUME NEW a \in Announcers, Announcer(a) \/ Rung(a) PROVE cached' \subseteq held
    <3>1. CASE Write(a)
      BY <3>1 DEF Carried, Write, Lands, IsLost, IsRefused
    <3>2. CASE ~Write(a)
      BY <2>1, <3>2 DEF Carried, Announcer, ReadGen, Build, Check, StartLadder, Rung
    <3>3. QED
      BY <3>1, <3>2
  <2>2. CASE Withdraw \/ Reply \/ SayGoodbye
    BY <2>2 DEF Carried, Withdraw, Reply, SayGoodbye, Lands, IsRefused
  <2>3. CASE Swap \/ StopLadder \/ Serving \/ Moved \/ Query \/ BuildGoodbye \/ MarkGone \/ UNCHANGED vars
    BY <2>3 DEF Carried, Swap, StopLadder, Serving, Top, Open, Watch, ServeEnds, Moved, CloseSocket,
       Query, BuildGoodbye, MarkGone, vars
  <2>4. QED
    BY <2>1, <2>2, <2>3 DEF Next, Leave
<1>2. reply' \subseteq held
  <2>1. CASE \E a \in Announcers : Announcer(a) \/ Rung(a)
    BY <2>1 DEF Carried, Announcer, ReadGen, Build, Check, Write, StartLadder, Rung
  <2>2. CASE Query \/ Reply
    BY <2>2 DEF Carried, Query, Reply
  <2>3. CASE Withdraw \/ Swap \/ StopLadder \/ Serving \/ Moved \/ BuildGoodbye \/ Leave \/ UNCHANGED vars
    BY <2>3 DEF Carried, Withdraw, Swap, StopLadder, Serving, Top, Open, Watch, ServeEnds, Moved,
       CloseSocket, BuildGoodbye, Leave, MarkGone, SayGoodbye, vars
  <2>4. QED
    BY <2>1, <2>2, <2>3 DEF Next
<1>3. ASSUME NEW a \in Announcers, ann'[a].pc = "write" PROVE ann'[a].packet \subseteq held
  BY <1>3, FateOf DEF IInv, Fated, Fate, Carried, PacketInv
<1>4. QED
  BY <1>1, <1>2, <1>3 DEF CarriesOn

\* The second of two goodbyes takes what it names out of it.
LEMMA WithdrawalCarries ==
  ASSUME IInv, [Next]_vars, NEW held, Carried(held),
         ~Leaving(adv.dropped), unsaid' # unsaid,
         cached' = cached \ adv.dropped, UNCHANGED reply
  PROVE  CarriesOn(held \ adv.dropped)
<1>1. ASSUME NEW a \in Announcers, ann'[a].pc = "write"
      PROVE  ann'[a].packet \subseteq held \ adv.dropped
  <2>1. ann'[a] = ann[a]
    BY <1>1, FateOf DEF IInv, Fated, Fate
  <2>2. QED
    BY <1>1, <2>1 DEF Carried, Leaving
<1>2. QED
  BY <1>1 DEF Carried, Leaving, CarriesOn

LEMMA SwapOwes ==
  ASSUME Swap
  PROVE  /\ services \union unsaid \subseteq services' \union unsaid'
         /\ bye.pc # "idle" => unsaid \subseteq unsaid'
         /\ UNCHANGED <<bye, gone>>
  BY DEF Swap

LEMMA CarriedLater ==
  ASSUME NEW held, NEW more, CarriesOn(held), held \subseteq more
  PROVE  CarriesOn(more)
  BY DEF CarriesOn

LEMMA ListStep == ASSUME IInv, [Next]_vars PROVE ListInv'
<1> DEFINE held == services \union unsaid
<1>1. Carried(held)
  BY DEF IInv, ListInv
<1>2. CarriesOn(services' \union unsaid')
  <2>1. CASE Swap \/ UNCHANGED unsaid
    <3>1. CarriesOn(held)
      BY <1>1, Carries
    <3>2. held \subseteq services' \union unsaid'
      BY <2>1, SwapOwes, ListMoves
    <3> HIDE DEF held
    <3>3. QED
      BY <3>1, <3>2, CarriedLater
  <2>2. CASE ~Swap /\ unsaid' # unsaid
    <3>1. CarriesOn(held \ adv.dropped)
      BY <1>1, <2>2, OwedMoves, WithdrawalCarries
    <3>2. held \ adv.dropped \subseteq services' \union unsaid'
      BY <2>2, OwedMoves
    <3> HIDE DEF held
    <3>3. QED
      BY <3>1, <3>2, CarriedLater
  <2>3. QED
    BY <2>1, <2>2
<1>3. QED
  BY <1>2 DEF ListInv, Carried, CarriesOn

\* What is carried at the goodbye stays carried: nothing new gets out, and
\* what is taken off what is owed is taken out of the caches too.
LEMMA OwedCarries ==
  ASSUME IInv, [Next]_vars, NEW kept, Carried(kept \union unsaid),
         bye.pc # "idle", bye.pc = "mark" => services \subseteq kept, UNCHANGED bye
  PROVE  CarriesOn(kept \union unsaid')
<1> DEFINE held == kept \union unsaid
<1>1. ~gone => services \subseteq held
  BY DEF IInv, ByeInv
<1>2. CASE Swap \/ UNCHANGED unsaid
  <2>1. CarriesOn(held)
    BY <1>1, Carries
  <2>2. held \subseteq kept \union unsaid'
    BY <1>2, SwapOwes
  <2> HIDE DEF held
  <2>3. QED
    BY <2>1, <2>2, CarriedLater
<1>3. CASE ~Swap /\ unsaid' # unsaid
  <2>1. CarriesOn(held \ adv.dropped)
    BY <1>3, OwedMoves, WithdrawalCarries
  <2>2. held \ adv.dropped \subseteq kept \union unsaid'
    BY <1>3, OwedMoves
  <2> HIDE DEF held
  <2>3. QED
    BY <2>1, <2>2, CarriedLater
<1>4. QED
  BY <1>2, <1>3

LEMMA ByeStep == ASSUME IInv, [Next]_vars PROVE ByeInv'
<1>t. TypeOK
  BY DEF IInv
<1>1. CASE UNCHANGED <<bye, gone>>
  <2>1. (gone <=> bye.pc \notin {"idle", "mark"})'
    BY <1>1 DEF IInv, ByeInv
  <2>2. ASSUME ~LateAdverts, bye.pc # "idle"
        PROVE  /\ bye.pc = "mark" => bye.packet = services'
               /\ CarriesOn(bye.packet \union unsaid')
               /\ bye.pc = "said" => CarriesOn(unsaid')
    <3>1. bye.pc = "mark" => bye.packet = services
      BY <2>2 DEF IInv, ByeInv
    <3>2. bye.pc = "mark" => UNCHANGED services
      BY <2>2, ListMoves DEF Swap
    <3>3. Carried(bye.packet \union unsaid)
      BY <2>2 DEF IInv, ByeInv
    <3>4. CarriesOn(bye.packet \union unsaid')
      BY <1>1, <2>2, <3>1, <3>3, OwedCarries
    <3>5. ASSUME bye.pc = "said" PROVE CarriesOn(unsaid')
      <4>1. Carried({} \union unsaid)
        BY <2>2, <3>5 DEF IInv, ByeInv, Carried
      <4>2. CarriesOn({} \union unsaid')
        BY <1>1, <2>2, <3>5, <4>1, OwedCarries
      <4>3. QED
        BY <4>2 DEF CarriesOn
    <3>6. QED
      BY <3>1, <3>2, <3>4, <3>5
  <2>3. QED
    BY <1>1, <2>1, <2>2 DEF ByeInv, Carried, CarriesOn
<1>2. CASE BuildGoodbye
  <2>1. bye'.pc = "mark" /\ bye'.packet = services /\ ~gone' /\ UNCHANGED <<services, unsaid>>
    BY <1>2, <1>t DEF BuildGoodbye, responder, TypeOK, IInv, ByeInv
  <2>2. CarriesOn(services \union unsaid)
    BY Carries DEF IInv, ListInv
  <2>3. QED
    BY <2>1, <2>2 DEF ByeInv, Carried, CarriesOn
<1>3. CASE MarkGone
  <2>1. /\ bye.pc = "mark" /\ bye'.pc \in {"first", "failed"} /\ bye'.packet = bye.packet
        /\ gone' = TRUE /\ UNCHANGED <<services, unsaid>>
    BY <1>3, <1>t DEF MarkGone, TypeOK
  <2>2. ~LateAdverts => CarriesOn(bye.packet \union unsaid)
    BY <2>1, Carries DEF IInv, ByeInv
  <2>3. QED
    BY <2>1, <2>2 DEF ByeInv, Carried, CarriesOn
<1>4. CASE SayGoodbye
  <2>1. /\ bye.pc \in {"first", "second"} /\ bye'.pc \in {"second", "said", "failed"}
        /\ bye'.packet = bye.packet
    BY <1>4, <1>t DEF SayGoodbye, TypeOK
  <2>2. gone /\ gone' /\ UNCHANGED <<services, unsaid, reply, ann>>
    BY <1>4, <2>1 DEF SayGoodbye, responder, IInv, ByeInv
  <2>3. ~LateAdverts => CarriesOn(bye.packet \union unsaid)
    BY <2>1, <2>2, Carries DEF IInv, ByeInv
  <2>4. ASSUME ~LateAdverts, bye'.pc = "said" PROVE CarriesOn(unsaid)
    <3>1. cached' = cached \ bye.packet /\ ~Leaving(bye.packet)
      BY <1>4, <1>t, <2>4 DEF SayGoodbye, Lands, TypeOK
    <3>2. Carried(bye.packet \union unsaid)
      BY <2>1, <2>4 DEF IInv, ByeInv
    <3>3. QED
      BY <2>2, <3>1, <3>2 DEF Leaving, Carried, CarriesOn
  <2>5. QED
    BY <2>1, <2>2, <2>3, <2>4 DEF ByeInv, Carried, CarriesOn
<1>5. QED
  BY <1>1, <1>2, <1>3, <1>4, ByeMoves

-----------------------------------------------------------------------------
\* Types, apart from the announcements'.
RestOK ==
  /\ services \subseteq Services /\ gen \in 0..MaxAdverts
  /\ {gone, sendFailed} \subseteq BOOLEAN /\ ladder \in Ladders \union {None}
  /\ sockets \in 0..MaxSockets /\ conn \in Sockets \union {Nil}
  /\ open \subseteq Sockets \union {Nil}
  /\ run \in {"top", "opening", "serving", "returned"}
  /\ reply \subseteq Services /\ cached \subseteq Services /\ unsaid \subseteq Services

AdvOK == adv \in [pc : {"idle", "stop", "first", "second", "announce"},
                  sock : Sockets \union {Nil}, dropped : SUBSET Services, adds : BOOLEAN]

ByeOK == bye \in [pc : {"idle", "mark", "first", "second", "said", "failed"},
                  packet : SUBSET Services, sock : Sockets \union {Nil}]

LEMMA RestStep == ASSUME IInv, [Next]_vars PROVE RestOK'
<1>r. RestOK
  BY DEF IInv, TypeOK, RestOK
<1> USE Numbers DEF RestOK, Sockets, Nil, None
<1>1. ASSUME NEW a \in Announcers, Announcer(a) \/ Rung(a) PROVE RestOK'
  <2>1. CASE Write(a)
    <3>1. ann[a].packet \subseteq Services
      BY DEF IInv, TypeOK
    <3>2. UNCHANGED <<responder, ladder, sockets, conn, open, run, reply, unsaid>>
          /\ cached' \in {cached, cached \union ann[a].packet}
      BY <2>1 DEF Write, Lands, IsLost, IsRefused
    <3>3. sendFailed' \in BOOLEAN
      BY <1>r, <2>1, Zenon DEF Write
    <3>4. QED
      BY <1>r, <3>1, <3>2, <3>3 DEF responder
  <2>2. CASE StartLadder(a)
    BY <1>r, <2>2 DEF StartLadder, responder
  <2>3. CASE ReadGen(a) \/ Build(a) \/ Check(a) \/ Rung(a)
    BY <1>r, <2>3 DEF ReadGen, Build, Check, Rung, responder
  <2>4. QED
    BY <1>1, <2>1, <2>2, <2>3 DEF Announcer
<1>2. CASE Swap
  BY <1>r, <1>2 DEF Swap, Lists
<1>3. CASE StopLadder
  BY <1>r, <1>3 DEF StopLadder, responder
<1>4. CASE Withdraw
  BY <1>r, <1>4 DEF Withdraw, Lands, IsRefused, responder
<1>5. CASE Top \/ ServeEnds
  BY <1>r, <1>5 DEF Top, ServeEnds, responder
<1>6. CASE Open
  <2>1. sockets + 1 \in 1..MaxSockets
    BY <1>r, <1>6 DEF Open
  <2>2. /\ UNCHANGED <<responder, ladder, reply, cached, unsaid>>
        /\ run' = "serving" /\ sendFailed' = FALSE
        /\ sockets' = sockets + 1 /\ conn' = sockets + 1 /\ open' = open \union {sockets + 1}
    BY <1>6 DEF Open
  <2>3. sockets' \in 0..MaxSockets /\ conn' \in Sockets /\ open' \subseteq Sockets \union {Nil}
    BY <1>r, <2>1, <2>2
  <2>4. QED
    BY <1>r, <2>2, <2>3 DEF responder
<1>7. CASE Watch \/ Moved
  BY <1>r, <1>7 DEF Watch, Moved, CloseSocket, responder
<1>8. CASE Query
  BY <1>r, <1>8 DEF Query, responder
<1>9. CASE Reply
  BY <1>r, <1>9 DEF Reply, Lands, IsRefused, responder
<1>10. CASE BuildGoodbye \/ MarkGone
  BY <1>r, <1>10 DEF BuildGoodbye, MarkGone, responder
<1>11. CASE SayGoodbye
  BY <1>r, <1>11 DEF SayGoodbye, Lands, IsRefused, responder
<1>12. CASE UNCHANGED vars
  BY <1>r, <1>12 DEF vars, responder
<1>13. QED
  BY <1>1, <1>2, <1>3, <1>4, <1>5, <1>6, <1>7, <1>8, <1>9, <1>10, <1>11, <1>12
     DEF Next, Serving, Leave

LEMMA QuietOK == Quiet \in [pc : {"idle", "stop", "first", "second", "announce"},
                            sock : Sockets \union {Nil}, dropped : SUBSET Services, adds : BOOLEAN]
  BY DEF Quiet, Nil

LEMMA AdvStep == ASSUME IInv, [Next]_vars PROVE AdvOK'
<1>a. AdvOK
  BY DEF IInv, TypeOK, AdvOK
<1>1. CASE \E a \in Announcers : Announcer(a) \/ Rung(a)
  <2>1. adv' \in {adv, Quiet}
    BY <1>1 DEF Announcer, ReadGen, Build, Check, Write, StartLadder, Rung
  <2>2. QED
    BY <1>a, <2>1, QuietOK DEF AdvOK
<1>2. CASE Swap
  <2> DEFINE Reached(pc, dropped, adds) ==
               [pc |-> pc, sock |-> conn, dropped |-> dropped, adds |-> adds]
  <2>1. services \subseteq Services /\ conn \in Sockets \union {Nil}
    BY DEF IInv, TypeOK
  <2>2. UNCHANGED adv \/
        \E list \in Lists :
          adv' = Reached(IF services \ list # {} THEN "stop"
                         ELSE IF ~(list \subseteq services) THEN "announce" ELSE "idle",
                         services \ list, ~(list \subseteq services))
    BY <1>2 DEF Swap
  <2>3. ASSUME NEW pc \in {"idle", "stop", "announce"}, NEW dropped \in SUBSET Services,
               NEW adds \in BOOLEAN, adv' = Reached(pc, dropped, adds)
        PROVE  AdvOK'
    BY <2>1, <2>3 DEF AdvOK
  <2> HIDE DEF Reached
  <2>4. UNCHANGED adv \/
        \E pc \in {"idle", "stop", "announce"}, dropped \in SUBSET Services, adds \in BOOLEAN :
          adv' = Reached(pc, dropped, adds)
    BY <2>1, <2>2
  <2>5. QED
    BY <1>a, <2>3, <2>4 DEF AdvOK
<1>3. CASE StopLadder
  BY <1>a, <1>3 DEF StopLadder, AdvOK
<1>4. CASE Withdraw
  <2>1. \/ adv' = [adv EXCEPT !.pc = "second"] \/ adv' = [adv EXCEPT !.pc = "announce"]
        \/ adv' = Quiet
    BY <1>4 DEF Withdraw, AfterWithdrawal
  <2>2. QED
    BY <1>a, <2>1, QuietOK DEF AdvOK
<1>5. CASE Serving \/ Moved \/ Query \/ Reply \/ BuildGoodbye \/ Leave \/ UNCHANGED vars
  <2>1. UNCHANGED adv
    BY <1>5 DEF Serving, Top, Open, Watch, ServeEnds, Moved, CloseSocket, Query, Reply, BuildGoodbye,
       Leave, MarkGone, SayGoodbye, vars
  <2>2. QED
    BY <1>a, <2>1 DEF AdvOK
<1>6. QED
  BY <1>1, <1>2, <1>3, <1>4, <1>5 DEF Next

LEMMA ByeTypeStep == ASSUME IInv, [Next]_vars PROVE ByeOK'
<1>a. ByeOK /\ services \subseteq Services /\ conn \in Sockets \union {Nil}
  BY DEF IInv, TypeOK, ByeOK
<1>1. CASE BuildGoodbye
  BY <1>a, <1>1 DEF BuildGoodbye, ByeOK
<1>2. CASE MarkGone
  BY <1>a, <1>2 DEF MarkGone, ByeOK
<1>3. CASE SayGoodbye
  BY <1>a, <1>3 DEF SayGoodbye, ByeOK
<1>4. CASE UNCHANGED bye
  BY <1>a, <1>4 DEF ByeOK
<1>5. QED
  BY <1>1, <1>2, <1>3, <1>4, ByeMoves

LEMMA TypeStep == ASSUME IInv, [Next]_vars PROVE TypeOK'
<1>1. ann' \in [Announcers -> Announcement]
  BY FateOf DEF IInv, Fated
<1>2. QED
  BY <1>1, RestStep, AdvStep, ByeTypeStep DEF TypeOK, RestOK, AdvOK, ByeOK, Announcement

-----------------------------------------------------------------------------
LEMMA InitIInv == Init => IInv
<1> SUFFICES ASSUME Init PROVE IInv
  OBVIOUS
<1>1. TypeOK
  <2>1. ann \in [Announcers -> Announcement]
    BY FreshRecords DEF Init
  <2>2. adv \in [pc : {"idle", "stop", "first", "second", "announce"},
                 sock : Sockets \union {Nil}, dropped : SUBSET Services, adds : BOOLEAN]
    BY QuietOK DEF Init
  <2>3. gen \in 0..MaxAdverts /\ sockets \in 0..MaxSockets /\ services \subseteq Services
    BY Numbers DEF Init
  <2>4. bye \in [pc : {"idle", "mark", "first", "second", "said", "failed"},
                 packet : SUBSET Services, sock : Sockets \union {Nil}]
    BY DEF Init
  <2>5. QED
    BY <2>1, <2>2, <2>3, <2>4 DEF Init, TypeOK, Announcement
<1>2. \A a \in Announcers : ann[a].pc = "idle"
  BY FreshRecords DEF Init
<1>3. PacketInv /\ ListInv
  BY <1>2 DEF Init, PacketInv, ListInv, Carried
<1>4. ByeInv
  BY DEF Init, ByeInv
<1>5. QED
  BY <1>1, <1>3, <1>4 DEF IInv

-----------------------------------------------------------------------------
\* The invariant, whoever announces, answers, advertises or says goodbye.
THEOREM ResponderInductive == Spec => []IInv
<1>1. IInv /\ [Next]_vars => IInv'
  BY TypeStep, PacketStep, ListStep, ByeStep DEF IInv
<1>2. QED
  BY InitIInv, <1>1, PTL DEF Spec

\* Types, for any number of ladders, rungs, lists and sockets.
THEOREM ResponderType == Spec => []TypeOK
<1>1. IInv => TypeOK
  BY DEF IInv
<1>2. QED
  BY <1>1, ResponderInductive, PTL

\* What Advertise has withdrawn no announcement, answer or rung brings back:
\* the generation is looked at after the packet is built, and the second
\* goodbye leaves behind what passed before.
THEOREM WithdrawalLasts == Spec => []WithdrawnStaysWithdrawn
<1>1. IInv => WithdrawnStaysWithdrawn
  BY DEF IInv, ListInv, Carried, WithdrawnStaysWithdrawn
<1>2. QED
  BY <1>1, ResponderInductive, PTL

\* After both packets of a Goodbye nothing comes back, whatever was on its
\* way, as long as no Advertise runs between its packet and its mark.
THEOREM GoodbyeLasts == ASSUME ~LateAdverts PROVE Spec => []GoodbyeIsLast
<1>1. IInv => GoodbyeIsLast
  BY DEF IInv, ByeInv, Carried, GoodbyeIsLast
<1>2. QED
  BY <1>1, ResponderInductive, PTL
=============================================================================
