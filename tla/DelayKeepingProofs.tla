---------------------------- MODULE DelayKeepingProofs -------------------------
(***************************************************************************)
(* What is kept of the output delay, for any number of figures, sets,       *)
(* clients, tries and refusals: types always, and, where nothing is lost to *)
(* what the code does not guard against (Careful), that a settled daemon    *)
(* and one that exits have the figure in force in the property.             *)
(***************************************************************************)
EXTENDS DelayKeeping, TLAPS

(* Places.  Who is setting a figure, and who of them has saving's lock or,  *)
(* of loop and stop, writing.                                               *)
Setting == {"take", "keep", "direct", "save", "kept", "refused"}
Saving == {"save", "kept", "refused"}

(* What TypeOK leaves open about who is where.                              *)
Shape ==
  /\ pc = [w \in Writers |-> pc[w]]
  /\ pc["session"] # "idle" => of["session"] \in Clients
  /\ pc["loop"] \in Setting /\ writing # "loop" => of["loop"] \in Clients
  /\ pc["loop"] = "off" => of["loop"] \in Clients
  /\ pc["keeper"] # "gone" => of["keeper"] \in Clients
  /\ writing = "loop" => pc["loop"] \in Saving
  /\ writing = "stop" <=> pc["stop"] \in Saving
  /\ pc["loop"] = "owe" /\ then = "enable" => made < MaxClients
  /\ writing = "loop" /\ then = "enable" => made < MaxClients
  /\ pc["loop"] \in {"enable", "read"} => made < MaxClients

(* Goes moves one goroutine and nobody else.                                *)
LEMMA Going ==
  ASSUME Shape, NEW w \in Writers, NEW p, Goes(w, p)
  PROVE  /\ pc'[w] = p /\ \A v \in Writers \ {w} : pc'[v] = pc[v]
         /\ pc' = [v \in Writers |-> pc'[v]]
BY DEF Shape, Goes

LEMMA Names == /\ "loop" \in Writers /\ "session" \in Writers /\ "keeper" \in Writers /\ "stop" \in Writers
               /\ "loop" \in Setters /\ "session" \in Setters
               /\ \A w \in Setters : w \in Writers /\ (w = "loop" \/ w = "session")
               /\ \A w \in Writers : w = "loop" \/ w = "session" \/ w = "keeper" \/ w = "stop"
BY DEF Writers, Setters

(* Records, and what an update of one leaves of the other fields.           *)
SwitchType == [delay : Delays, disk : Delays, unknown : BOOLEAN,
                 owes : BOOLEAN, tries : Nat, owedFor : Delays]
KeeperType == [unknown : BOOLEAN, written : Delays, attempted : Delays,
                 tries : Nat, ending : BOOLEAN]

LEMMA KeptIs ==
  ASSUME switch \in SwitchType, NEW f \in Delays
  PROVE  /\ Kept(f) \in SwitchType
         /\ Kept(f).disk = f /\ Kept(f).unknown = FALSE /\ Kept(f).owes = switch.owes
         /\ Kept(f).delay = IF client # None THEN f ELSE switch.delay
         /\ Kept(f).tries = switch.tries
BY DEF Kept, SwitchType

LEMMA Cleared ==
  ASSUME NEW r \in SwitchType, NEW s, s = [r EXCEPT !.owes = FALSE, !.tries = 0]
  PROVE  /\ s \in SwitchType
         /\ s.delay = r.delay /\ s.disk = r.disk /\ s.unknown = r.unknown /\ s.owes = FALSE
BY DEF SwitchType

LEMMA KeeperFailed ==
  ASSUME NEW r \in KeeperType, NEW s, s = [r EXCEPT !.tries = r.tries + 1]
  PROVE  /\ s \in KeeperType /\ s.written = r.written /\ (s.unknown <=> r.unknown) /\ s.attempted = r.attempted
         /\ s.tries = r.tries + 1 /\ (s.ending <=> r.ending)
BY DEF KeeperType

-----------------------------------------------------------------------------
(* What the longer actions do, field by field.                              *)
Moves(w, places) ==
  /\ pc'[w] \in places /\ \A v \in Writers \ {w} : pc'[v] = pc[v]
  /\ pc' = [v \in Writers |-> pc'[v]]

LEMMA OweDoneDoes ==
  ASSUME TypeOK, Shape, NEW w \in {"loop", "stop"}, OweDone(w)
  PROVE  /\ Moves(w, {After(w)}) /\ switch' \in SwitchType
         /\ pc[w] = "kept" =>
              /\ switch'.disk = ms[w] /\ ~switch'.unknown /\ ~switch'.owes
              /\ switch'.delay = IF client # None THEN ms[w] ELSE switch.delay
         /\ pc[w] # "kept" =>
              /\ switch'.disk = switch.disk /\ (switch'.unknown <=> switch.unknown)
              /\ switch'.delay = switch.delay
<1>1. Moves(w, {After(w)})
  BY Going, Names DEF OweDone, Moves
<1>2. switch \in SwitchType /\ ms[w] \in Delays
  BY Names DEF TypeOK, SwitchType
<1>3. CASE pc[w] = "kept"
  <2> DEFINE r == Kept(ms[w])
  <2>1. switch' = [r EXCEPT !.owes = FALSE, !.tries = 0]
    BY <1>3 DEF OweDone
  <2>2. /\ r \in SwitchType /\ r.disk = ms[w] /\ r.unknown = FALSE
        /\ r.delay = IF client # None THEN ms[w] ELSE switch.delay
    BY <1>2, KeptIs
  <2> HIDE DEF r
  <2> QED
    BY <1>1, <1>3, <2>1, <2>2, Cleared
<1>4. CASE pc[w] # "kept"
  <2> DEFINE b == switch.tries + 1 < KeepTries
  <2>1. switch' = [switch EXCEPT !.tries = switch.tries + 1, !.owes = b] /\ b \in BOOLEAN
    BY <1>4 DEF OweDone
  <2>2. switch.tries + 1 \in Nat
    BY <1>2 DEF SwitchType
  <2> HIDE DEF b
  <2>3. PICK n \in Nat, u \in BOOLEAN : switch' = [switch EXCEPT !.tries = n, !.owes = u]
    BY <2>1, <2>2
  <2>4. /\ switch' \in SwitchType /\ switch'.delay = switch.delay
        /\ switch'.disk = switch.disk /\ (switch'.unknown <=> switch.unknown)
    BY <1>2, <2>3 DEF SwitchType
  <2> QED
    BY <1>1, <1>2, <1>4, <2>4
<1> QED
  BY <1>3, <1>4

LEMMA KeepNowDoneDoes ==
  ASSUME TypeOK, Shape, NEW w \in Setters, KeepNowDone(w)
  PROVE  /\ Moves(w, {"idle"}) /\ switch' \in SwitchType /\ of[w] \in Clients
         /\ saving' = [saving EXCEPT ![of[w]] = "free"]
         /\ pc[w] = "kept" =>
              /\ onDisk' = [onDisk EXCEPT ![of[w]] = ms[w]]
              /\ switch'.disk = ms[w] /\ ~switch'.unknown /\ (switch'.owes <=> switch.owes)
              /\ switch'.delay = IF client # None THEN ms[w] ELSE switch.delay
         /\ pc[w] # "kept" => UNCHANGED <<switch, onDisk>>
<1>1. Moves(w, {"idle"})
  BY Going, Names DEF KeepNowDone, Moves
<1>2. switch \in SwitchType /\ ms[w] \in Delays
  BY Names DEF TypeOK, SwitchType
<1>3. of[w] \in Clients
  BY Names DEF KeepNowDone, Shape, Setting
<1>4. CASE pc[w] = "kept"
  BY <1>1, <1>2, <1>3, <1>4, KeptIs DEF KeepNowDone
<1>5. CASE pc[w] # "kept"
  BY <1>1, <1>2, <1>3, <1>5 DEF KeepNowDone
<1> QED
  BY <1>4, <1>5

KeeperRests == Moves("keeper", {IF keeper.ending THEN "gone" ELSE "idle"})

LEMMA KeeperSettlesDoes ==
  ASSUME TypeOK, Shape, KeeperSettles
  PROVE  LET c == of["keeper"] IN
         /\ c \in Clients /\ keeper' \in KeeperType /\ (keeper'.ending <=> keeper.ending)
         /\ (keeper'.unknown => keeper.unknown)
         /\ \/ /\ KeeperRests /\ UNCHANGED <<saving, ms>>
               /\ \/ ~keeper.unknown /\ delay[c] = keeper.written /\ keeper' = keeper
                  \/ onDisk[c] = delay[c] /\ keeper'.written = delay[c]
                     /\ keeper'.tries = keeper.tries
                  \/ /\ keeper'.written = keeper.written /\ keeper'.tries >= KeepTries
                     /\ IF delay[c] = keeper.attempted THEN keeper'.tries = keeper.tries
                        ELSE keeper'.tries = 0
            \/ /\ Moves("keeper", {"save"}) /\ delay[c] # onDisk[c]
               /\ keeper.unknown \/ delay[c] # keeper.written
               /\ saving' = [saving EXCEPT ![c] = "keeper"]
               /\ ms' = [ms EXCEPT !["keeper"] = delay[c]]
               /\ keeper'.written = keeper.written
               /\ keeper'.tries = keeper.tries \/ keeper'.tries = 0
<1> DEFINE c == of["keeper"]
           n == IF delay[c] # keeper.attempted THEN 0 ELSE keeper.tries
           same == ~keeper.unknown /\ delay[c] = keeper.written
           there == onDisk[c] = delay[c]
<1>1. c \in Clients
  BY DEF KeeperSettles, Shape
<1>2. keeper \in KeeperType /\ delay[c] \in Delays /\ n \in Nat /\ KeepTries \in Nat
  BY <1>1, BoundsAssumption DEF TypeOK, KeeperType
<1>3. CASE same
  <2>1. keeper' = keeper /\ KeeperRests /\ UNCHANGED <<saving, ms>>
    BY <1>3, Going, Names DEF KeeperSettles, KeeperTurns, KeeperRests, Moves
  <2> QED
    BY <1>1, <1>2, <1>3, <2>1
<1>4. CASE ~same /\ there
  <2>1. keeper' = [keeper EXCEPT !.written = delay[c], !.unknown = FALSE]
    BY <1>4 DEF KeeperSettles
  <2>2. KeeperRests /\ UNCHANGED <<saving, ms>>
    BY <1>4, Going, Names DEF KeeperSettles, KeeperTurns, KeeperRests, Moves
  <2>3. PICK f \in Delays : f = delay[c]
    BY <1>2
  <2>4. keeper' = [keeper EXCEPT !.written = f, !.unknown = FALSE]
    BY <2>1, <2>3
  <2>5. /\ keeper' \in KeeperType /\ keeper'.written = f /\ ~keeper'.unknown
        /\ keeper'.tries = keeper.tries /\ (keeper'.ending <=> keeper.ending)
    BY <1>2, <2>4 DEF KeeperType
  <2> QED
    BY <1>1, <1>2, <1>4, <2>2, <2>3, <2>5
<1>5. CASE ~same /\ ~there
  <2>1. keeper' = [keeper EXCEPT !.attempted = delay[c], !.tries = n]
    BY <1>5 DEF KeeperSettles
  <2>2. /\ keeper' \in KeeperType /\ keeper'.written = keeper.written /\ keeper'.tries = n
        /\ (keeper'.unknown <=> keeper.unknown) /\ (keeper'.ending <=> keeper.ending)
    <3>1. PICK f \in Delays, m \in Nat : f = delay[c] /\ m = n
      BY <1>2
    <3>2. keeper' = [keeper EXCEPT !.attempted = f, !.tries = m]
      BY <2>1, <3>1
    <3> HIDE DEF n
    <3> QED
      BY <1>2, <3>1, <3>2 DEF KeeperType
  <2>3. CASE n >= KeepTries
    <3>1. KeeperRests /\ UNCHANGED <<saving, ms>>
      BY <1>5, <2>3, Going, Names DEF KeeperSettles, KeeperTurns, KeeperRests, Moves
    <3> QED
      BY <1>1, <1>2, <2>2, <2>3, <3>1
  <2>4. CASE ~(n >= KeepTries)
    <3>1. /\ Moves("keeper", {"save"}) /\ saving' = [saving EXCEPT ![c] = "keeper"]
          /\ ms' = [ms EXCEPT !["keeper"] = delay[c]]
      BY <1>5, <2>4, Going, Names DEF KeeperSettles, Moves
    <3> QED
      BY <1>1, <1>2, <1>5, <2>2, <3>1
  <2> QED
    BY <2>3, <2>4
<1> QED
  BY <1>3, <1>4, <1>5

LEMMA KeeperSettledDoes ==
  ASSUME TypeOK, Shape, KeeperSettled
  PROVE  LET c == of["keeper"] IN
         /\ c \in Clients /\ keeper' \in KeeperType /\ (keeper'.ending <=> keeper.ending)
         /\ (keeper'.unknown => keeper.unknown)
         /\ saving' = [saving EXCEPT ![c] = "free"] /\ switch' \in SwitchType
         /\ \/ /\ pc["keeper"] = "kept" /\ KeeperRests
               /\ keeper'.written = ms["keeper"] /\ keeper'.tries = 0
               /\ onDisk' = [onDisk EXCEPT ![c] = ms["keeper"]]
               /\ switch'.disk = ms["keeper"] /\ ~switch'.unknown /\ (switch'.owes <=> switch.owes)
               /\ switch'.delay = IF client # None THEN ms["keeper"] ELSE switch.delay
            \/ /\ pc["keeper"] = "refused"
               /\ Moves("keeper", IF keeper.ending THEN {"gone"} ELSE {"idle", "window"})
               /\ keeper'.written = keeper.written /\ UNCHANGED <<switch, onDisk>>
<1> DEFINE c == of["keeper"]
<1>1. c \in Clients
  BY DEF KeeperSettled, Shape
<1>2. keeper \in KeeperType /\ ms["keeper"] \in Delays /\ switch \in SwitchType
  BY Names DEF TypeOK, KeeperType, SwitchType
<1>3. CASE pc["keeper"] = "kept"
  <2>1. keeper' = [keeper EXCEPT !.written = ms["keeper"], !.unknown = FALSE, !.tries = 0]
    BY <1>3 DEF KeeperSettled
  <2>2. KeeperRests
    BY <1>3, Going, Names DEF KeeperSettled, KeeperTurns, KeeperRests, Moves
  <2>3. /\ onDisk' = [onDisk EXCEPT ![c] = ms["keeper"]] /\ switch' = Kept(ms["keeper"])
        /\ saving' = [saving EXCEPT ![c] = "free"]
    BY <1>3 DEF KeeperSettled
  <2>4. /\ keeper' \in KeeperType /\ keeper'.written = ms["keeper"] /\ keeper'.tries = 0
        /\ ~keeper'.unknown /\ (keeper'.ending <=> keeper.ending)
    <3>1. PICK f \in Delays : f = ms["keeper"]
      BY <1>2
    <3>2. keeper' = [keeper EXCEPT !.written = f, !.unknown = FALSE, !.tries = 0]
      BY <2>1, <3>1
    <3> QED
      BY <1>2, <3>1, <3>2 DEF KeeperType
  <2>5. /\ switch' \in SwitchType /\ switch'.disk = ms["keeper"] /\ ~switch'.unknown
        /\ (switch'.owes <=> switch.owes)
        /\ switch'.delay = IF client # None THEN ms["keeper"] ELSE switch.delay
    BY <1>2, <2>3, KeptIs
  <2> QED
    BY <1>1, <1>3, <2>2, <2>3, <2>4, <2>5
<1>4. CASE pc["keeper"] = "refused"
  <2>1. keeper' = [keeper EXCEPT !.tries = keeper.tries + 1]
    BY <1>4 DEF KeeperSettled
  <2>2. Moves("keeper", IF keeper.ending THEN {"gone"} ELSE {"idle", "window"})
    BY <1>4, Going, Names DEF KeeperSettled, KeeperTurns, Moves
  <2>3. UNCHANGED <<switch, onDisk>> /\ saving' = [saving EXCEPT ![c] = "free"]
    BY <1>4 DEF KeeperSettled
  <2> QED
    BY <1>1, <1>2, <1>4, <2>1, <2>2, <2>3, KeeperFailed
<1> QED
  BY <1>3, <1>4 DEF KeeperSettled

LEMMA SaveDoes ==
  ASSUME TypeOK, Shape, NEW w \in Writers, Save(w)
  PROVE  /\ pc[w] = "save" /\ ms[w] \in Delays
         /\ \/ Moves(w, {"kept"}) /\ disk' = ms[w] /\ refused' = FALSE
            \/ Moves(w, {"refused"}) /\ disk' \in {disk, ms[w]} /\ refused' = TRUE /\ w \in Refusing
BY Going DEF Save, Moves, TypeOK

LEMMA KeeperMovesDoes ==
  ASSUME TypeOK, Shape, KeeperMoves
  PROVE  LET c == of["keeper"] IN
         /\ c \in Clients /\ keeper' \in KeeperType
         /\ keeper'.written = keeper.written /\ keeper'.tries = keeper.tries
         /\ (keeper'.unknown <=> keeper.unknown)
         /\ \/ /\ pc["keeper"] = "idle" /\ Moves("keeper", {"window"}) /\ UNCHANGED keeper
               /\ wake[c] = "posted" /\ wake' = [wake EXCEPT ![c] = "empty"]
            \/ /\ pc["keeper"] = "window" /\ Moves("keeper", {"settle"}) /\ UNCHANGED <<keeper, wake>>
            \/ /\ pc["keeper"] \in {"idle", "window"} /\ serving[c] = "done"
               /\ Moves("keeper", {"settle"}) /\ UNCHANGED wake /\ keeper'.ending
<1>1. of["keeper"] \in Clients
  BY DEF KeeperMoves, Shape
<1>2. keeper \in KeeperType
  BY DEF TypeOK, KeeperType
<1>3. CASE /\ pc["keeper"] = "idle" /\ wake[of["keeper"]] = "posted" /\ Goes("keeper", "window")
           /\ wake' = [wake EXCEPT ![of["keeper"]] = "empty"] /\ UNCHANGED keeper
  BY <1>1, <1>2, <1>3, Going, Names DEF Moves
<1>4. CASE pc["keeper"] = "window" /\ Goes("keeper", "settle") /\ UNCHANGED <<wake, keeper>>
  BY <1>1, <1>2, <1>4, Going, Names DEF Moves
<1>5. CASE /\ pc["keeper"] \in {"idle", "window"} /\ serving[of["keeper"]] = "done"
           /\ Goes("keeper", "settle") /\ UNCHANGED wake /\ keeper' = [keeper EXCEPT !.ending = TRUE]
  <2>1. /\ keeper' \in KeeperType /\ keeper'.written = keeper.written /\ keeper'.ending
        /\ keeper'.tries = keeper.tries /\ (keeper'.unknown <=> keeper.unknown)
    BY <1>2, <1>5 DEF KeeperType
  <2> QED
    BY <1>1, <1>5, <2>1, Going, Names DEF Moves
<1> QED
  BY <1>3, <1>4, <1>5 DEF KeeperMoves

LEMMA ServeStartsDoes ==
  ASSUME TypeOK, Shape, NEW c \in Clients, ServeStarts(c)
  PROVE  /\ Moves("keeper", IF keeper.unknown THEN {"settle"} ELSE {"idle"})
         /\ keeper' \in KeeperType
         /\ keeper'.written = Stored(c) /\ keeper'.tries = keeper.tries
         /\ (keeper'.unknown <=> keeper.unknown) /\ (keeper'.ending <=> keeper.ending)
<1>1. PICK f \in Delays : f = Stored(c)
  BY DEF TypeOK, Stored
<1>2. keeper' = [keeper EXCEPT !.written = f, !.attempted = f] /\ keeper \in KeeperType
  BY <1>1 DEF ServeStarts, TypeOK, KeeperType
<1>3. /\ keeper' \in KeeperType /\ keeper'.written = f /\ keeper'.tries = keeper.tries
      /\ (keeper'.unknown <=> keeper.unknown) /\ (keeper'.ending <=> keeper.ending)
  BY <1>2 DEF KeeperType
<1> QED
  BY <1>1, <1>3, Going, Names DEF ServeStarts, Moves

LEMMA EnableReadsDoes ==
  ASSUME TypeOK, Shape, EnableReads
  PROVE  \/ Moves("loop", {"idle"}) /\ UNCHANGED <<ms, keeper>>
         \/ /\ Moves("loop", {"read"}) /\ ms' = [ms EXCEPT !["loop"] = disk]
            /\ keeper' \in KeeperType /\ (keeper'.unknown => Unreadable)
<1>1. CASE UNCHANGED <<ms, keeper>> /\ Goes("loop", "idle")
  BY <1>1, Going, Names DEF Moves
<1>2. CASE /\ Goes("loop", "read") /\ ms' = [ms EXCEPT !["loop"] = disk]
           /\ keeper' \in {[keeper EXCEPT !.unknown = u] : u \in IF Unreadable THEN BOOLEAN ELSE {FALSE}}
  <2>1. PICK u \in BOOLEAN : keeper' = [keeper EXCEPT !.unknown = u] /\ (u => Unreadable)
    BY <1>2
  <2>2. keeper \in KeeperType
    BY DEF TypeOK, KeeperType
  <2>3. keeper' \in KeeperType /\ (keeper'.unknown <=> u)
    BY <2>1, <2>2 DEF KeeperType
  <2> QED
    BY <1>2, <2>1, <2>3, Going, Names DEF Moves
<1> QED
  BY <1>1, <1>2 DEF EnableReads

LEMMA EnableStartsDoes ==
  ASSUME TypeOK, Shape, EnableStarts
  PROVE  LET known == ~keeper.unknown /\ switch.delay = switch.disk
             figure == IF known THEN ms["loop"] ELSE switch.delay
             c == made + 1
         IN  /\ Moves("loop", {"idle"}) /\ c \in Clients /\ figure \in Delays
             /\ client' = c /\ made' = c
             /\ delay' = [delay EXCEPT ![c] = figure]
             /\ serving' = [serving EXCEPT ![c] = "listening"]
             /\ switch' \in SwitchType /\ switch'.delay = figure /\ switch'.disk = figure
             /\ (switch'.unknown <=> ~known) /\ ~switch'.owes
             /\ keeper' \in KeeperType /\ (keeper'.unknown <=> ~known) /\ ~keeper'.ending
             /\ keeper'.written = figure /\ keeper'.tries = 0
<1> DEFINE known == ~keeper.unknown /\ switch.delay = switch.disk
           figure == IF known THEN ms["loop"] ELSE switch.delay
<1>1. Moves("loop", {"idle"})
  BY Going, Names DEF EnableStarts, Moves
<1>2. made + 1 \in Clients
  BY BoundsAssumption DEF EnableStarts, Shape, Clients, TypeOK
<1>3. figure \in Delays /\ known \in BOOLEAN
  BY Names DEF TypeOK
<1>4. /\ switch' = Took(figure, known) /\ client' = made + 1 /\ made' = made + 1
      /\ delay' = [delay EXCEPT ![made + 1] = figure]
      /\ serving' = [serving EXCEPT ![made + 1] = "listening"]
      /\ keeper' = [unknown |-> ~known, written |-> figure, attempted |-> figure,
                    tries |-> 0, ending |-> FALSE]
  BY DEF EnableStarts
<1>5. /\ switch' \in SwitchType /\ keeper' \in KeeperType
      /\ switch'.delay = figure /\ switch'.disk = figure
      /\ (switch'.unknown <=> ~known) /\ ~switch'.owes
      /\ (keeper'.unknown <=> ~known) /\ ~keeper'.ending
      /\ keeper'.written = figure /\ keeper'.tries = 0
  <2> HIDE DEF known, figure
  <2> QED
    BY <1>3, <1>4 DEF Took, SwitchType, KeeperType
<1> QED
  BY <1>1, <1>2, <1>3, <1>4, <1>5

LEMMA OweDoes ==
  ASSUME TypeOK, Shape, NEW w \in {"loop", "stop"}, NEW now \in BOOLEAN, Owe(w, now)
  PROVE  /\ switch'.delay = switch.delay /\ switch'.disk = switch.disk
         /\ (switch'.unknown <=> switch.unknown)
         /\ (switch'.owes <=> switch.delay # switch.disk \/ switch.unknown)
         /\ \/ /\ Moves(w, {After(w)}) /\ UNCHANGED <<writing, ms>>
               /\ ~now \/ (switch.delay = switch.disk /\ ~switch.unknown)
            \/ /\ Moves(w, {"save"}) /\ writing' = w /\ ms' = [ms EXCEPT ![w] = switch.delay]
               /\ switch.delay # switch.disk \/ switch.unknown
<1>1. switch \in SwitchType
  BY DEF TypeOK, SwitchType
<1>2. PICK n \in Nat, u \in BOOLEAN, f \in Delays :
        /\ switch' = [switch EXCEPT !.owedFor = f, !.tries = n, !.owes = u]
        /\ (u <=> switch.delay # switch.disk \/ switch.unknown)
  BY <1>1 DEF Owe, SwitchType
<1>3. /\ switch'.delay = switch.delay /\ switch'.disk = switch.disk
      /\ (switch'.unknown <=> switch.unknown) /\ (switch'.owes <=> u)
  BY <1>1, <1>2 DEF SwitchType
<1>4. \/ /\ Goes(w, After(w)) /\ UNCHANGED <<writing, ms>>
         /\ ~now \/ (switch.delay = switch.disk /\ ~switch.unknown)
      \/ /\ Goes(w, "save") /\ writing' = w /\ ms' = [ms EXCEPT ![w] = switch.delay]
         /\ switch.delay # switch.disk \/ switch.unknown
  BY DEF Owe
<1>5. \A p : Goes(w, p) => Moves(w, {p})
  BY Going, Names DEF Moves
<1> QED
  BY <1>2, <1>3, <1>4, <1>5

-----------------------------------------------------------------------------
(* Types and shapes, action by action.                                      *)
LEMMA InitTypes == Init => TypeOK /\ Shape
<1> SUFFICES ASSUME Init PROVE TypeOK /\ Shape
  OBVIOUS
<1>1. switch \in SwitchType /\ disk \in Delays
  <2>1. \A f \in Delays, known \in BOOLEAN : Took(f, known) \in SwitchType
    BY DEF Took, SwitchType
  <2> QED
    BY <2>1, DelaysAssumption DEF Init
<1>2. TypeOK
  <2>1. /\ delay \in [Clients -> Delays] /\ onDisk \in [Clients -> Delays \union {NotKnown}]
        /\ wake \in [Clients -> {"nil", "empty", "posted"}]
        /\ serving \in [Clients -> {"no", "listening", "yes", "closed", "done"}]
        /\ saving \in [Clients -> Writers \union {"free"}]
        /\ of \in [Writers -> Clients \union {None}] /\ ms \in [Writers -> Delays]
    BY DelaysAssumption DEF Init
  <2>2. keeper \in KeeperType /\ made \in 0 .. MaxClients
    BY DelaysAssumption, BoundsAssumption DEF Init, KeeperType
  <2> QED
    BY <1>1, <2>1, <2>2, Names DEF Init, TypeOK, SwitchType, KeeperType
<1> QED
  BY <1>2, Names DEF Init, Shape, Setting, Saving

LEMMA SaveTypes ==
  ASSUME TypeOK, Shape, NEW w \in Writers, Save(w) PROVE TypeOK' /\ Shape'
<1>1. TypeOK'
  <2>1. disk' \in Delays /\ refused' \in BOOLEAN /\ Moves(w, {"kept", "refused"})
    <3>1. disk \in Delays
      BY DEF TypeOK
    <3> QED
      BY <3>1, SaveDoes DEF Moves
  <2>2. CASE w = "stop" \/ w = "keeper"
    BY <2>1, <2>2, Names DEF Save, Moves, TypeOK, clients
  <2>3. CASE w = "loop" \/ w = "session"
    BY <2>1, <2>3, Names DEF Save, Moves, TypeOK, clients
  <2> QED
    BY <2>2, <2>3, Names
<1>2. Shape'
  BY SaveDoes, Names DEF Save, Moves, Shape, clients, Setting, Saving
<1> QED
  BY <1>1, <1>2

LEMMA OweTypes ==
  ASSUME TypeOK, Shape, NEW w \in {"loop", "stop"}, NEW now \in BOOLEAN, Owe(w, now), w = "loop" => (now <=> then = "enable")
  PROVE  TypeOK' /\ Shape'
<1>1. \/ Moves(w, {After(w)}) /\ UNCHANGED <<writing, ms>>
      \/ Moves(w, {"save"}) /\ writing' = w /\ ms' = [ms EXCEPT ![w] = switch.delay]
  BY OweDoes
<1>2. switch' \in [delay : Delays, disk : Delays, unknown : BOOLEAN, owes : BOOLEAN, tries : Nat, owedFor : Delays]
  BY DEF Owe, TypeOK
<1>3. TypeOK'
  BY <1>1, <1>2, Names DEF Owe, Moves, TypeOK, clients, After
<1>4. Shape'
  BY <1>1, Names DEF Owe, Moves, TypeOK, Shape, clients, After, Setting, Saving
<1> QED
  BY <1>3, <1>4

LEMMA OweDoneTypes ==
  ASSUME TypeOK, Shape, NEW w \in {"loop", "stop"}, OweDone(w) PROVE TypeOK' /\ Shape'
<1>1. Moves(w, {After(w)}) /\ switch' \in SwitchType
  BY OweDoneDoes
<1>2. TypeOK'
  BY <1>1, Names DEF OweDone, Moves, TypeOK, SwitchType, clients, After
<1>3. Shape'
  BY <1>1, Names DEF OweDone, Moves, TypeOK, Shape, clients, After, Setting, Saving
<1> QED
  BY <1>2, <1>3

LEMMA AskTypes ==
  ASSUME TypeOK, Shape, NEW figure \in Delays,
         SessionAsked(figure) \/ LoopAsked(figure) \/ LoopAskedOff(figure)
  PROVE  TypeOK' /\ Shape'
<1>1. ASSUME NEW w \in Setters, Ask(w, client, figure) PROVE TypeOK' /\ Shape'
  <2>1. Moves(w, {"take"}) /\ client \in Clients /\ of' = [of EXCEPT ![w] = client]
    BY <1>1, Going, Names DEF Ask, Moves, TypeOK
  <2>2. of' \in [Writers -> Clients \union {None}] /\ ms' \in [Writers -> Delays]
    BY <1>1, <2>1, Names DEF Ask, TypeOK
  <2> QED
    BY <1>1, <2>1, <2>2, Names DEF Ask, Moves, TypeOK, Shape, clients, Setting, Saving
<1>2. CASE LoopAskedOff(figure)
  <2>1. Moves("loop", {"owe"})
    BY <1>2, Going, Names DEF LoopAskedOff, Moves
  <2> QED
    BY <1>2, <2>1, Names DEF LoopAskedOff, Moves, TypeOK, Shape, clients, Setting, Saving
<1> QED
  BY <1>1, <1>2, Names DEF SessionAsked, LoopAsked

LEMMA SetTypes ==
  ASSUME TypeOK, Shape, NEW w \in Setters, Take(w) \/ Keep(w) \/ KeepNow(w) \/ KeepNowDone(w)
  PROVE  TypeOK' /\ Shape'
<1>1. CASE Take(w)
  <2>1. Moves(w, {"idle", "keep"})
    BY <1>1, Going, Names DEF Take, Moves
  <2>2. delay' \in [Clients -> Delays]
    BY <1>1, Names DEF Take, TypeOK
  <2> QED
    BY <1>1, <2>1, <2>2, Names DEF Take, Moves, TypeOK, Shape, Setting, Saving
<1>2. CASE Keep(w)
  <2>1. Moves(w, {"idle", "direct"}) /\ wake' \in [Clients -> {"nil", "empty", "posted"}]
    BY <1>2, Going, Names DEF Keep, Moves, TypeOK
  <2> QED
    BY <1>2, <2>1, Names DEF Keep, Moves, TypeOK, Shape, Setting, Saving
<1>3. CASE KeepNow(w)
  <2>1. Moves(w, {"idle", "save"}) /\ of[w] \in Clients
    BY <1>3, Going, Names DEF KeepNow, Moves, Shape, Setting, Saving
  <2>2. saving' \in [Clients -> Writers \union {"free"}] /\ ms' \in [Writers -> Delays]
    BY <1>3, <2>1, Names DEF KeepNow, TypeOK
  <2> QED
    BY <1>3, <2>1, <2>2, Names DEF KeepNow, Moves, TypeOK, Shape, Setting, Saving
<1>4. CASE KeepNowDone(w)
  <2>1. saving' \in [Clients -> Writers \union {"free"}]
        /\ onDisk' \in [Clients -> Delays \union {NotKnown}] /\ switch' \in SwitchType
    BY <1>4, KeepNowDoneDoes, Names DEF TypeOK, SwitchType
  <2>2. Moves(w, {"idle"})
    BY <1>4, KeepNowDoneDoes
  <2> QED
    BY <1>4, <2>1, <2>2, Names DEF KeepNowDone, Moves, TypeOK, SwitchType, Shape, Setting,
       Saving
<1> QED
  BY <1>1, <1>2, <1>3, <1>4

LEMMA ServeTypes ==
  ASSUME TypeOK, Shape, NEW c \in Clients, ServeStarts(c) \/ ServeStops(c)
  PROVE  TypeOK' /\ Shape'
<1>1. /\ serving' \in [Clients -> {"no", "listening", "yes", "closed", "done"}]
      /\ wake' \in [Clients -> {"nil", "empty", "posted"}]
      /\ of' \in [Writers -> Clients \union {None}]
  BY Names DEF ServeStarts, ServeStops, TypeOK
<1>2. CASE ServeStarts(c)
  <2>1. of'["keeper"] \in Clients /\ \A w \in Writers \ {"keeper"} : of'[w] = of[w]
    BY <1>2, Names DEF ServeStarts, TypeOK
  <2>2. Moves("keeper", {"settle", "idle"}) /\ keeper' \in KeeperType
    BY <1>2, ServeStartsDoes DEF Moves
  <2>3. TypeOK'
    BY <1>1, <1>2, <2>2, Names DEF ServeStarts, Moves, TypeOK, KeeperType
  <2>4. Shape'
    BY <1>2, <2>1, <2>2, Names DEF ServeStarts, Moves, Shape, Setting, Saving
  <2> QED
    BY <2>3, <2>4
<1>3. CASE ServeStops(c)
  BY <1>1, <1>3 DEF ServeStops, TypeOK, Shape
<1> QED
  BY <1>2, <1>3

LEMMA KeeperTypes ==
  ASSUME TypeOK, Shape, KeeperMoves \/ KeeperSettles \/ KeeperSettled
  PROVE  TypeOK' /\ Shape'
<1>1. CASE KeeperMoves
  <2>1. wake' \in [Clients -> {"nil", "empty", "posted"}]
    BY <1>1, KeeperMovesDoes DEF TypeOK
  <2> QED
    BY <1>1, <2>1, KeeperMovesDoes, Names DEF KeeperMoves, Moves, TypeOK, KeeperType, Shape,
       Setting, Saving
<1>2. CASE KeeperSettles
  <2>1. saving' \in [Clients -> Writers \union {"free"}] /\ ms' \in [Writers -> Delays]
    BY <1>2, KeeperSettlesDoes, Names DEF TypeOK
  <2>2. Moves("keeper", {"gone", "idle", "save"}) /\ keeper' \in KeeperType
    BY <1>2, KeeperSettlesDoes DEF KeeperRests, Moves
  <2> QED
    BY <1>2, <2>1, <2>2, Names, KeeperSettlesDoes DEF KeeperSettles, Moves, TypeOK, KeeperType,
       Shape, Setting, Saving
<1>3. CASE KeeperSettled
  <2>1. saving' \in [Clients -> Writers \union {"free"}]
        /\ onDisk' \in [Clients -> Delays \union {NotKnown}] /\ switch' \in SwitchType
    BY <1>3, KeeperSettledDoes, Names DEF TypeOK, SwitchType
  <2>2. Moves("keeper", {"gone", "idle", "window"}) /\ keeper' \in KeeperType
    BY <1>3, KeeperSettledDoes DEF KeeperRests, Moves
  <2> QED
    BY <1>3, <2>1, <2>2, Names DEF KeeperSettled, Moves, TypeOK, KeeperType, SwitchType, Shape,
       Setting, Saving
<1> QED
  BY <1>1, <1>2, <1>3

LEMMA SwitchTypes ==
  ASSUME TypeOK, Shape,
         LoopDue \/ SwitchOn \/ EnableReads \/ EnableStarts \/ SwitchOff \/ SwitchedOff
  PROVE  TypeOK' /\ Shape'
<1>1. CASE LoopDue \/ SwitchOn
  <2>1. Moves("loop", {"owe"})
    BY <1>1, Going, Names DEF LoopDue, SwitchOn, Moves
  <2> QED
    BY <1>1, <2>1, Names DEF LoopDue, SwitchOn, Moves, TypeOK, Shape, clients, Setting, Saving
<1>2. CASE EnableReads
  <2>1. ms' \in [Writers -> Delays] /\ keeper' \in KeeperType
    BY <1>2, EnableReadsDoes, Names DEF TypeOK, KeeperType
  <2>2. Moves("loop", {"idle", "read"})
    BY <1>2, EnableReadsDoes DEF Moves
  <2> QED
    BY <1>2, <2>1, <2>2, Names DEF EnableReads, Moves, TypeOK, KeeperType, Shape, clients,
       Setting, Saving
<1>3. CASE EnableStarts
  <2>1. delay' \in [Clients -> Delays]
        /\ serving' \in [Clients -> {"no", "listening", "yes", "closed", "done"}]
    BY <1>3, EnableStartsDoes DEF TypeOK
  <2>2. made' \in 0 .. MaxClients /\ client' \in Clients
    BY <1>3, EnableStartsDoes, BoundsAssumption DEF Clients
  <2> QED
    BY <1>3, <2>1, <2>2, EnableStartsDoes, Names
       DEF EnableStarts, Moves, TypeOK, KeeperType, SwitchType, Shape, Setting, Saving
<1>4. CASE SwitchOff
  <2>1. Moves("loop", {"off"}) /\ client \in Clients
    BY <1>4, Going, Names DEF SwitchOff, Moves, TypeOK
  <2>2. /\ serving' \in [Clients -> {"no", "listening", "yes", "closed", "done"}]
        /\ of' = [of EXCEPT !["loop"] = client] /\ of' \in [Writers -> Clients \union {None}]
    BY <1>4, <2>1, Names DEF SwitchOff, Closed, TypeOK
  <2> QED
    BY <1>4, <2>1, <2>2, Names DEF SwitchOff, Moves, TypeOK, Shape, Setting, Saving
<1>5. CASE SwitchedOff
  <2>1. Moves("loop", {"idle"}) /\ of["loop"] \in Clients
    BY <1>5, Going, Names DEF SwitchedOff, Moves, Shape
  <2> QED
    BY <1>5, <2>1, Names DEF SwitchedOff, Moves, TypeOK, Shape, clients, Setting, Saving
<1> QED
  BY <1>1, <1>2, <1>3, <1>4, <1>5

LEMMA StopTypes ==
  ASSUME TypeOK, Shape, Stop \/ StopCloses \/ StopExits
  PROVE  TypeOK' /\ Shape'
<1>1. CASE Stop \/ StopExits
  <2>1. Moves("stop", {"owe", "exited"})
    BY <1>1, Going, Names DEF Stop, StopExits, Moves
  <2> QED
    BY <1>1, <2>1, Names DEF Stop, StopExits, Moves, TypeOK, Shape, clients, Setting, Saving
<1>2. CASE StopCloses
  <2>1. Moves("stop", {"settle", "exited"})
    BY <1>2, Going, Names DEF StopCloses, Moves
  <2>2. /\ serving' \in [Clients -> {"no", "listening", "yes", "closed", "done"}]
        /\ of' \in [Writers -> Clients \union {None}] /\ \A w \in Writers \ {"stop"} : of'[w] = of[w]
    BY <1>2, Names DEF StopCloses, Closed, TypeOK
  <2> QED
    BY <1>2, <2>1, <2>2, Names DEF StopCloses, Moves, TypeOK, Shape, Setting, Saving
<1> QED
  BY <1>1, <1>2

LEMMA TypesStep == TypeOK /\ Shape /\ [Next]_vars => TypeOK' /\ Shape'
<1> SUFFICES ASSUME TypeOK, Shape, [Next]_vars PROVE TypeOK' /\ Shape'
  OBVIOUS
<1>1. CASE UNCHANGED vars
  BY <1>1 DEF vars, clients, TypeOK, Shape
<1>2. CASE Next
  BY <1>2, SaveTypes, OweTypes, OweDoneTypes, AskTypes, SetTypes, ServeTypes, KeeperTypes,
     SwitchTypes, StopTypes
     DEF Next, Asked, Daemon
<1> QED
  BY <1>1, <1>2

\* Types, whatever is refused, unreadable, late or early.
THEOREM DelayType == Spec => []TypeOK
<1>1. TypeOK /\ Shape /\ [Next]_vars => (TypeOK /\ Shape)'
  BY TypesStep
<1>2. Init => TypeOK /\ Shape
  BY InitTypes
<1> QED
  BY <1>1, <1>2, PTL DEF Spec

-----------------------------------------------------------------------------
\* A client is up, or the switch is waiting for one it closed.
Alive == client # None \/ pc["loop"] = "off"

\* What the last accepted write of the client at hand put into the property,
\* or what it was started on.
Last == IF onDisk[made] = NotKnown THEN keeper.written ELSE onDisk[made]

OfMade == of["keeper"] = made

\* Who holds which lock, and for which client.
ClientsInv ==
  /\ of["keeper"] <= made
  /\ client # None => client = made /\ pc["loop"] # "off"
  /\ pc["loop"] = "off" => of["loop"] = made
  /\ Alive => made \in Clients
  /\ \A c \in Clients : c > made =>
       serving[c] = "no" /\ wake[c] = "nil" /\ onDisk[c] = NotKnown /\ saving[c] = "free"
  /\ \A c \in Clients : c < made \/ (c = made /\ ~Alive) => serving[c] = "done"

\* The loop while no client is there.
IdleInv ==
  /\ writing # "free" => ~Alive /\ ms[writing] = switch.delay
  /\ pc["loop"] \in {"owe", "enable", "read"} => ~Alive
  /\ pc["loop"] \in {"enable", "read"} => writing # "stop"
  /\ ~Alive => /\ pc["keeper"] = "gone" /\ pc["session"] = "idle"
               /\ pc["loop"] \in Setting => writing = "loop" /\ pc["loop"] \in Saving

LockInv ==
  Alive =>
    /\ ~switch.owes
    /\ \A w \in Setters \union {"keeper"} : saving[made] = w <=> pc[w] \in Saving
    /\ saving[made] # "stop"
    /\ pc["loop"] \in Setting => client # None
    /\ \A w \in Setters : /\ pc[w] \in Setting => of[w] = made /\ OfMade
                          /\ pc[w] \in Saving \union {"direct"} => serving[made] = "done"

\* How far Serve and the keeper of the client at hand have come.
ServeInv ==
  Alive =>
    /\ client # None /\ pc["stop"] \notin {"settle", "exited"} =>
         serving[made] \in {"listening", "yes"}
    /\ ~OfMade => /\ pc["keeper"] = "gone" /\ serving[made] \in {"listening", "closed"}
                  /\ wake[made] = "nil" /\ onDisk[made] = NotKnown
                  /\ keeper.written = delay[made] /\ keeper.tries = 0 /\ ~keeper.ending
    /\ OfMade => /\ serving[made] \in {"yes", "closed", "done"}
                 /\ serving[made] = "done" <=> wake[made] = "nil"
                 /\ keeper.ending => serving[made] = "done"
                 /\ pc["keeper"] = "gone" => keeper.ending
                 /\ keeper.ending => pc["keeper"] \notin {"idle", "window"}

\* What is in the property, and what switch and client think is in it.
FigureInv ==
  /\ ~switch.unknown /\ ~keeper.unknown /\ pc["loop"] # "refused"
  /\ client # None \/ pc["loop"] \in {"enable", "read"} => switch.delay = switch.disk
  /\ pc["loop"] = "read" => ms["loop"] = disk
  /\ Alive => switch.disk = Last
  /\ \A w \in Writers : /\ pc[w] = "kept" => disk = ms[w] /\ ~refused
                        /\ pc[w] = "refused" => refused
  /\ (\A w \in Writers : pc[w] # "kept") => refused \/ disk = switch.disk

\* A setter that still has to see to its figure, and a write of figure f.
SetterComes == \E w \in Setters : pc[w] \in {"keep", "direct"}
InFlight(f) == saving[made] # "free" /\ ms[saving[made]] = f /\ pc[saving[made]] \in {"save", "kept"}

\* The figure in force is on disk, or goes there without the keeper's doing.
Covered == refused \/ delay[made] = Last \/ SetterComes \/ InFlight(delay[made])

\* Nobody but the keeper has written since it began.
Fresh == keeper.written = Last /\ (keeper.tries > 0 => refused)

\* The keeper is to look at the figure again.
KeeperComes ==
  /\ OfMade /\ pc["keeper"] # "gone"
  /\ \/ wake[made] = "posted" \/ pc["keeper"] \in {"window", "settle"}
     \/ serving[made] = "done" /\ ~keeper.ending

SeenInv == Alive => Covered \/ KeeperComes

FreshInv ==
  Alive /\ OfMade /\ pc["keeper"] \notin {"gone", "kept"} =>
    Fresh \/ (serving[made] = "done" /\ Covered)

\* A write under way carries the figure in force, or another follows it.
CarryInv ==
  Alive =>
    /\ saving[made] = "keeper" => ms["keeper"] = delay[made] \/ SetterComes \/ KeeperComes
    /\ saving[made] \in Setters => ms[saving[made]] = delay[made] \/ SetterComes

\* Without a client the switch's own figure is on disk, or owed.
OwedInv ==
  /\ ~Alive =>
       \/ refused \/ switch.delay = switch.disk \/ writing # "free"
       \/ (pc["stop"] \in {"idle", "owe"} /\ (switch.owes \/ pc["loop"] = "owe"))

\* A client that starts while the daemon stops is left as it started.
StopInv ==
  pc["stop"] \in {"settle", "exited"} /\ Alive /\ of["stop"] # made =>
    /\ delay[made] = Last /\ pc["session"] = "idle"
    /\ pc["loop"] \notin Setting /\ pc["keeper"] \notin Saving
ExitInv == pc["stop"] = "exited" /\ Alive /\ of["stop"] = made => pc["keeper"] = "gone" \/ ~OfMade

Inv ==
  /\ ClientsInv /\ IdleInv /\ LockInv /\ ServeInv /\ FigureInv /\ SeenInv
  /\ FreshInv /\ CarryInv /\ OwedInv /\ StopInv /\ ExitInv

(* No figure is lost to what the code leaves open: a property that cannot   *)
(* be read, a set before Serve or from a session that outlasts its client's *)
(* switch-off, a refusal to the loop, which a client that starts forgets.   *)
Careful == ~Unreadable /\ ~LateSessions /\ ~EarlySets /\ "loop" \notin Refusing /\ KeepTries > 0

-----------------------------------------------------------------------------
(* What each action leaves of the invariant.  An action of someone who is  *)
(* about no write leaves what is to be written as it is.                   *)

LEMMA SomeClient == None \notin Clients
BY DEF None, Clients

LEMMA InFlightStays ==
  ASSUME TypeOK, Inv, Alive, NEW v \in Writers, pc[v] \notin Saving, pc'[v] \notin Saving,
         \A w \in Writers \ {v} : pc'[w] = pc[w] /\ ms'[w] = ms[w], UNCHANGED <<made, saving>>
  PROVE  \A f : InFlight(f)' <=> InFlight(f)
<1>1. saving[made] # v \/ saving[made] = "free"
  BY Names DEF Inv, LockInv, Saving, TypeOK
<1> QED
  BY <1>1, Names DEF InFlight, TypeOK, Inv, ClientsInv, Saving

Elsewhere == {"idle", "take", "owe", "off", "enable", "read", "listener", "settle", "exited"}

LEMMA WritesStay ==
  ASSUME TypeOK, Inv, NEW v \in Writers \ {"keeper"}, pc[v] \in Elsewhere, Moves(v, Elsewhere),
         UNCHANGED <<made, delay, onDisk, wake, saving, keeper, refused>>,
         of'["keeper"] = of["keeper"], \A w \in Writers \ {v} : ms'[w] = ms[w],
         Alive' => Alive /\ (serving[made] = "done" <=> serving'[made] = "done")
  PROVE  SeenInv' /\ FreshInv' /\ CarryInv'
<1> SUFFICES ASSUME Alive, Alive' PROVE SeenInv' /\ FreshInv' /\ CarryInv'
  BY DEF SeenInv, FreshInv, CarryInv
<1>1. SetterComes' <=> SetterComes
  BY Names DEF SetterComes, Moves, Elsewhere
<1>2. \A f : InFlight(f)' <=> InFlight(f)
  <2>1. \A w \in Writers \ {v} : pc'[w] = pc[w] /\ ms'[w] = ms[w]
    BY DEF Moves
  <2> QED
    BY <2>1, InFlightStays DEF Moves, Saving, Elsewhere
<1>3. (Covered' <=> Covered) /\ (KeeperComes' <=> KeeperComes) /\ (Fresh' <=> Fresh)
  BY <1>1, <1>2, Names DEF Covered, KeeperComes, Fresh, Last, OfMade, Moves
<1>4. SeenInv' /\ FreshInv'
  BY <1>3, Names DEF Inv, SeenInv, FreshInv, OfMade, Moves
<1>5. CarryInv'
  <2>1. saving[made] # v \/ v = "stop"
    BY Names DEF Inv, LockInv, Saving, Elsewhere
  <2> QED
    BY <1>1, <1>3, <2>1, Names DEF Inv, CarryInv
<1> QED
  BY <1>4, <1>5

LEMMA Unwritten == NotKnown \notin Delays
BY DelaysAssumption DEF NotKnown

(* Each action, with what it does first, then the invariant's parts.        *)
LEMMA SaveKeeps ==
  ASSUME Careful, TypeOK, Shape, Inv, Running, NEW w \in Writers, Save(w), ~cut', TypeOK',
         Shape'
  PROVE  Inv'
<1>1. /\ pc[w] = "save"
      /\ \/ Moves(w, {"kept"}) /\ disk' = ms[w] /\ ~refused'
         \/ Moves(w, {"refused"}) /\ disk' \in {disk, ms[w]} /\ refused' /\ w \in Refusing
  BY SaveDoes DEF Save
<1>2. UNCHANGED <<switch, writing, client, made, delay, onDisk, wake, serving, saving, keeper,
                  of, ms, then, cut>>
  BY DEF Save, clients
<1>3. SeenInv' /\ FreshInv' /\ CarryInv'
  BY <1>1, <1>2, Names, SMTT(30) DEF Shape, Inv, IdleInv, LockInv, SeenInv, FreshInv, CarryInv,
     Moves, Alive, Last, OfMade, SetterComes, InFlight, Covered, Fresh, KeeperComes, Saving
<1>4. ClientsInv'
  BY <1>1, <1>2, Names, SMTT(30) DEF Inv, ClientsInv, Moves, Alive
<1>5. IdleInv'
  BY <1>1, <1>2, Names, SMTT(30) DEF Inv, IdleInv, Moves, Alive, Setting, Saving
<1>6. LockInv'
  BY <1>1, <1>2, Names, SMTT(30) DEF Inv, LockInv, Moves, Alive, OfMade, Setting, Saving
<1>7. ServeInv'
  BY <1>1, <1>2, Names, SMTT(30) DEF Inv, ServeInv, Moves, Alive, OfMade
<1>8. FigureInv'
  BY <1>1, <1>2, Names, SMTT(30) DEF Shape, Inv, IdleInv, LockInv, FigureInv, Careful, Moves,
     Alive, Last, Setting, Saving
<1>9. OwedInv'
  BY <1>1, <1>2, Names, SMTT(30) DEF Shape, Inv, IdleInv, OwedInv, Moves, Alive, Setting, Saving
<1>10. StopInv'
  BY <1>1, <1>2, Names, SMTT(30) DEF Inv, StopInv, Moves, Alive, Last, Setting, Saving
<1>11. ExitInv'
  BY <1>1, <1>2, Names, SMTT(30) DEF Inv, ExitInv, Moves, Alive, OfMade
<1> QED
  BY <1>2, <1>3, <1>4, <1>5, <1>6, <1>7, <1>8, <1>9, <1>10, <1>11 DEF Inv

LEMMA LoopDueKeeps ==
  ASSUME Careful, TypeOK, Shape, Inv, Running, LoopDue, ~cut', TypeOK', Shape' PROVE Inv'
<1>1. Moves("loop", {"owe"}) /\ ~Alive
  BY Going, Names DEF LoopDue, Moves, Owed, Alive, Inv, LockInv, FigureInv
<1>2. SeenInv' /\ FreshInv' /\ CarryInv'
  BY <1>1, WritesStay, Names DEF LoopDue, clients, Elsewhere, Alive, Moves
<1>3. ClientsInv'
  BY <1>1, Names, SMTT(30) DEF Inv, ClientsInv, Moves, LoopDue, clients, Alive
<1>4. IdleInv'
  BY <1>1, Names, SMTT(30) DEF Inv, IdleInv, Moves, LoopDue, clients, Alive, Setting, Saving
<1>5. LockInv'
  BY <1>1, Names, SMTT(30) DEF Inv, LockInv, Moves, LoopDue, clients, Alive, Saving
<1>6. ServeInv'
  BY <1>1, Names, SMTT(30) DEF ServeInv, Moves, LoopDue, clients, Alive, OfMade
<1>7. FigureInv'
  BY <1>1, Names, SMTT(30) DEF Inv, FigureInv, Moves, LoopDue, clients, Alive, Last
<1>8. OwedInv'
  BY <1>1, Names, SMTT(30) DEF Inv, OwedInv, Moves, LoopDue, clients, Alive
<1>9. StopInv'
  BY <1>1, Names, SMTT(30) DEF Inv, StopInv, Moves, LoopDue, clients, Alive, Saving
<1>10. ExitInv'
  BY <1>1, Names, SMTT(30) DEF ExitInv, Moves, LoopDue, clients, Alive, OfMade
<1> QED
  BY <1>2, <1>3, <1>4, <1>5, <1>6, <1>7, <1>8, <1>9, <1>10 DEF Inv

LEMMA OweLoopKeeps ==
  ASSUME Careful, TypeOK, Shape, Inv, Running, Owe("loop", then = "enable"), ~cut', TypeOK',
         Shape'
  PROVE  Inv'
<1>1. /\ ~Alive /\ switch'.delay = switch.delay /\ switch'.disk = switch.disk
      /\ (switch'.unknown <=> switch.unknown) /\ (switch'.owes <=> switch.delay # switch.disk \/ switch.unknown)
      /\ \/ /\ Moves("loop", {then}) /\ UNCHANGED <<writing, ms>>
            /\ then # "enable" \/ (switch.delay = switch.disk /\ ~switch.unknown)
         \/ /\ Moves("loop", {"save"}) /\ writing' = "loop" /\ ms' = [ms EXCEPT !["loop"] = switch.delay]
            /\ switch.delay # switch.disk \/ switch.unknown
  <2>1. (then = "enable") \in BOOLEAN /\ "loop" \in {"loop", "stop"} /\ After("loop") = then
    BY DEF After
  <2>2. ~Alive
    BY DEF Owe, Inv, IdleInv
  <2> QED
    BY <2>1, <2>2, OweDoes
<1>2. SeenInv' /\ FreshInv' /\ CarryInv'
  BY <1>1, Names DEF TypeOK, SeenInv, FreshInv, CarryInv, Alive, Owe, clients, Moves
<1>3. /\ writing = "free" /\ pc["loop"] = "owe"
      /\ UNCHANGED <<disk, client, made, delay, onDisk, wake, serving, saving, keeper, of, then,
                     refused>>
  BY DEF Owe, clients
<1>4. ClientsInv'
  BY <1>1, <1>3, Names, SMTT(30) DEF Inv, ClientsInv, Moves, Alive, TypeOK, Saving, Setting
<1>5. IdleInv'
  BY <1>1, <1>3, Names, SMTT(30) DEF Inv, IdleInv, Moves, Alive, Setting, Saving, TypeOK
<1>6. LockInv'
  BY <1>1, <1>3, Names, SMTT(30) DEF Inv, LockInv, Moves, Alive, Saving, TypeOK
<1>7. ServeInv'
  BY <1>1, <1>3, Names, SMTT(30) DEF Inv, ServeInv, Moves, Alive, OfMade, TypeOK, Saving,
     Setting
<1>8. FigureInv'
  BY <1>1, <1>3, Names, SMTT(30) DEF Inv, FigureInv, Moves, Alive, Last, TypeOK, Saving, Setting
<1>9. OwedInv'
  BY <1>1, <1>3, Names, SMTT(30) DEF Inv, OwedInv, Moves
<1>10. StopInv'
  BY <1>1, <1>3, Names, SMTT(30) DEF Inv, StopInv, Moves, Alive, Saving, TypeOK
<1>11. ExitInv'
  BY <1>1, <1>3, Names, SMTT(30) DEF Inv, ExitInv, Moves, Alive, OfMade, TypeOK, Saving, Setting
<1> QED
  BY <1>2, <1>3, <1>4, <1>5, <1>6, <1>7, <1>8, <1>9, <1>10, <1>11 DEF Inv

LEMMA OweStopKeeps ==
  ASSUME Careful, TypeOK, Shape, Inv, Running, Owe("stop", TRUE), ~cut', TypeOK', Shape'
  PROVE  Inv'
<1>1. /\ switch'.delay = switch.delay /\ switch'.disk = switch.disk /\ pc["loop"] # "off"
      /\ (switch'.unknown <=> switch.unknown) /\ (switch'.owes <=> switch.delay # switch.disk \/ switch.unknown)
      /\ \/ /\ Moves("stop", {"listener"}) /\ UNCHANGED <<writing, ms>>
            /\ switch.delay = switch.disk /\ ~switch.unknown
         \/ /\ Moves("stop", {"save"}) /\ writing' = "stop" /\ ms' = [ms EXCEPT !["stop"] = switch.delay]
            /\ switch.delay # switch.disk \/ switch.unknown
  <2>1. TRUE \in BOOLEAN /\ "stop" \in {"loop", "stop"} /\ After("stop") = "listener"
    BY DEF After
  <2>2. pc["loop"] # "off"
    BY DEF Owe
  <2> QED
    BY <2>1, <2>2, OweDoes
<1>2. /\ writing = "free" /\ pc["stop"] = "owe"
      /\ UNCHANGED <<disk, client, made, delay, onDisk, wake, serving, saving, keeper, of, then,
                     refused>>
  BY DEF Owe, clients
<1>3. SeenInv' /\ FreshInv' /\ CarryInv'
  <2>1. CASE Moves("stop", {"listener"}) /\ UNCHANGED ms
    BY <1>2, <2>1, WritesStay, Names DEF Elsewhere, Alive, Moves
  <2>2. CASE Moves("stop", {"save"}) /\ (switch.delay # switch.disk \/ switch.unknown)
    BY <1>1, <1>2, <2>2, Names DEF Inv, FigureInv, SeenInv, FreshInv, CarryInv, Alive, Moves
  <2> QED
    BY <1>1, <2>1, <2>2
<1>4. ClientsInv'
  BY <1>1, <1>2, Names, SMTT(30) DEF Inv, ClientsInv, Moves, Alive
<1>5. IdleInv'
  BY <1>1, <1>2, Names, SMTT(30) DEF TypeOK, Inv, IdleInv, LockInv, FigureInv, SeenInv, Running,
     Moves, Alive
<1>6. LockInv'
  BY <1>1, <1>2, Names, SMTT(30) DEF Inv, LockInv, FigureInv, Moves, Alive, OfMade
<1>7. ServeInv'
  BY <1>1, <1>2, Names, SMTT(30) DEF Inv, ServeInv, Moves, Alive, OfMade
<1>8. FigureInv'
  BY <1>1, <1>2, Names, SMTT(30) DEF Inv, FigureInv, Moves, Alive, Last, TypeOK, Saving, Setting
<1>9. OwedInv'
  BY <1>1, SMTT(30) DEF OwedInv
<1>10. StopInv'
  BY <1>1, <1>2, Names, SMTT(30) DEF StopInv, Moves
<1>11. ExitInv'
  BY <1>1, <1>2, Names, SMTT(30) DEF ExitInv, Moves, OfMade
<1> QED
  BY <1>2, <1>3, <1>4, <1>5, <1>6, <1>7, <1>8, <1>9, <1>10, <1>11 DEF Inv

LEMMA OweDoneKeeps ==
  ASSUME Careful, TypeOK, Shape, Inv, Running, NEW w \in {"loop", "stop"}, OweDone(w), ~cut',
         TypeOK', Shape'
  PROVE  Inv'
<1>1. /\ Moves(w, {After(w)}) /\ ~Alive /\ writing = w /\ pc[w] \in {"kept", "refused"} /\ writing' = "free"
      /\ ms[w] = switch.delay /\ w \in Writers
      /\ pc[w] = "kept" => switch'.disk = ms[w] /\ ~switch'.unknown /\ switch'.delay = switch.delay
      /\ pc[w] # "kept" => /\ switch'.disk = switch.disk /\ (switch'.unknown <=> switch.unknown)
                           /\ switch'.delay = switch.delay
  BY OweDoneDoes, Names DEF OweDone, Alive, Inv, IdleInv
<1>2. UNCHANGED <<disk, client, made, delay, onDisk, wake, serving, saving, keeper, of, ms,
                  then, refused, cut>>
  BY DEF OweDone, clients
<1>3. SeenInv' /\ FreshInv' /\ CarryInv'
  BY <1>1, <1>2, Names DEF After, TypeOK, SeenInv, FreshInv, CarryInv, Alive, Moves
<1>4. ClientsInv'
  BY <1>1, <1>2, Names, SMTT(30) DEF Inv, ClientsInv, Moves, After, Alive, TypeOK, Saving,
     Setting
<1>5. IdleInv'
  BY <1>1, <1>2, Names, SMTT(30) DEF Inv, IdleInv, Moves, After, Alive, Setting, Saving, TypeOK
<1>6. LockInv'
  BY <1>1, <1>2, Names, SMTT(30) DEF Inv, LockInv, Moves, After, Alive, OfMade, TypeOK
<1>7. ServeInv'
  BY <1>1, <1>2, Names, SMTT(30) DEF Inv, ServeInv, Moves, After, Alive, OfMade, TypeOK, Saving,
     Setting
<1>8. FigureInv'
  BY <1>1, <1>2, Names, SMTT(30) DEF Inv, FigureInv, Moves, After, Alive, Last, TypeOK, Saving,
     Setting
<1>9. OwedInv'
  BY <1>1, <1>2, Names, SMTT(30) DEF Inv, FigureInv, OwedInv
<1>10. StopInv'
  BY <1>1, <1>2, Names, SMTT(30) DEF Inv, StopInv, Moves, After, Alive, Last, TypeOK
<1>11. ExitInv'
  BY <1>1, <1>2, Names, SMTT(30) DEF Inv, ExitInv, Moves, After, Alive, OfMade, TypeOK, Saving,
     Setting
<1> QED
  BY <1>2, <1>3, <1>4, <1>5, <1>6, <1>7, <1>8, <1>9, <1>10, <1>11 DEF Inv

LEMMA AskKeeps ==
  ASSUME Careful, TypeOK, Shape, Inv, Running, NEW w \in Setters, NEW figure \in Delays, Ask(w,
         client, figure), ~cut', TypeOK', Shape'
  PROVE  Inv'
<1>1. /\ Moves(w, {"take"}) /\ pc[w] = "idle" /\ client \in Clients /\ client = made /\ Alive /\ OfMade
      /\ of' = [of EXCEPT ![w] = client] /\ ms' = [ms EXCEPT ![w] = figure]
  BY Going, SomeClient, Names DEF Ask, Moves, TypeOK, Careful, OfMade, Inv, ClientsInv, Alive
<1>2. SeenInv' /\ FreshInv' /\ CarryInv'
  BY <1>1, WritesStay, SomeClient, Names DEF Ask, TypeOK, clients, Elsewhere, Alive, Moves
<1>3. LockInv'
  <2>1. UNCHANGED <<switch, made, saving, serving, client>> /\ client # None
    BY <1>1, SomeClient DEF Ask, clients
  <2>2. of'[w] = made /\ of'["keeper"] = of["keeper"] /\ \A v \in Setters \ {w} : of'[v] = of[v]
    BY <1>1, Names DEF TypeOK
  <2> QED
    BY <1>1, <2>1, <2>2, Names DEF Inv, LockInv, OfMade, Moves, Setting, Saving, Alive
<1>4. ClientsInv'
  BY <1>1, Names, SMTT(30) DEF Inv, ClientsInv, Moves, Ask, clients, Alive
<1>5. IdleInv'
  BY <1>1, Names, SMTT(30) DEF Inv, IdleInv, Moves, Ask, clients, Alive
<1>6. ServeInv'
  BY <1>1, Names, SMTT(30) DEF Inv, ServeInv, Moves, Ask, clients, Alive, OfMade
<1>7. FigureInv'
  BY <1>1, Names, SMTT(30) DEF Inv, FigureInv, Moves, Ask, clients, Alive, Last
<1>8. OwedInv'
  BY <1>1, Names, SMTT(30) DEF OwedInv, Ask, clients, Alive
<1>9. StopInv'
  BY <1>1, Names, SMTT(30) DEF StopInv, Moves, Ask, Saving
<1>10. ExitInv'
  BY <1>1, Names, SMTT(30) DEF Inv, ExitInv, Moves, OfMade
<1> QED
  BY <1>2, <1>3, <1>4, <1>5, <1>6, <1>7, <1>8, <1>9, <1>10 DEF Inv

LEMMA AskOffKeeps ==
  ASSUME Careful, TypeOK, Shape, Inv, Running, NEW figure \in Delays, LoopAskedOff(figure),
         ~cut', TypeOK', Shape'
  PROVE  Inv'
<1>1. Moves("loop", {"owe"}) /\ ~Alive
  BY Going, Names DEF LoopAskedOff, Moves, Alive
<1>2. SeenInv' /\ FreshInv' /\ CarryInv'
  BY <1>1, WritesStay, Names DEF LoopAskedOff, clients, Elsewhere, Alive, Moves
<1>3. ClientsInv'
  BY <1>1, Names, SMTT(30) DEF Inv, ClientsInv, Moves, LoopAskedOff, clients, Alive
<1>4. IdleInv'
  BY <1>1, Names, SMTT(30) DEF TypeOK, Shape, Inv, IdleInv, Moves, LoopAskedOff, clients, Alive,
     Setting, Saving
<1>5. LockInv'
  BY <1>1, Names, SMTT(30) DEF Inv, LockInv, Moves, LoopAskedOff, clients, Alive, Saving
<1>6. ServeInv'
  BY <1>1, Names, SMTT(30) DEF ServeInv, Moves, LoopAskedOff, clients, Alive, OfMade
<1>7. FigureInv'
  BY <1>1, Names, SMTT(30) DEF Inv, FigureInv, Moves, LoopAskedOff, clients, Alive, Last
<1>8. OwedInv'
  BY <1>1, Names, SMTT(30) DEF OwedInv, Moves, LoopAskedOff, clients, Alive
<1>9. StopInv'
  BY <1>1, Names, SMTT(30) DEF StopInv, Moves, LoopAskedOff, Saving
<1>10. ExitInv'
  BY <1>1, Names, SMTT(30) DEF ExitInv, Moves, LoopAskedOff, clients, Alive, OfMade
<1> QED
  BY <1>2, <1>3, <1>4, <1>5, <1>6, <1>7, <1>8, <1>9, <1>10 DEF Inv

LEMMA TakeKeeps ==
  ASSUME Careful, TypeOK, Shape, Inv, Running, NEW w \in Setters, Take(w), ~cut', TypeOK',
         Shape'
  PROVE  Inv'
<1>1. Moves(w, IF delay[made] = ms[w] THEN {"idle"} ELSE {"keep"}) /\ Alive /\ of[w] = made /\ OfMade
  BY Going, Names DEF Take, Moves, TypeOK, Inv, LockInv, IdleInv, Setting, Saving
<1>2. SeenInv' /\ FreshInv' /\ CarryInv'
  <2>1. CASE delay[made] = ms[w]
    <3>1. delay' = delay
      BY <1>1, <2>1 DEF Take, TypeOK
    <3> QED
      BY <1>1, <2>1, <3>1, WritesStay, Names DEF Take, clients, Elsewhere, Alive, Moves
  <2>2. CASE delay[made] # ms[w]
    <3>1. SetterComes'
      BY <1>1, <2>2, Names DEF SetterComes, Moves
    <3>2. (Fresh' <=> Fresh) /\ made' = made
      BY DEF Take, Fresh, Last
    <3> QED
      BY <1>1, <2>2, <3>1, <3>2, Names DEF Take, SeenInv, FreshInv, CarryInv, Covered, Inv,
         Moves, OfMade
  <2> QED
    BY <2>1, <2>2
<1>3. ClientsInv'
  BY <1>1, Names, SMTT(30) DEF Inv, ClientsInv, Moves, Take, Alive
<1>4. IdleInv'
  BY <1>1, Names, SMTT(30) DEF Inv, IdleInv, Moves, Take, Alive, Setting, Saving
<1>5. LockInv'
  BY <1>1, Names, SMTT(30) DEF Inv, LockInv, Moves, Take, Alive, OfMade, Setting, Saving
<1>6. ServeInv'
  BY <1>1, Names, SMTT(30) DEF Inv, ServeInv, Moves, Take, Alive, OfMade
<1>7. FigureInv'
  BY <1>1, Names, SMTT(30) DEF Inv, FigureInv, Moves, Take, Alive, Last
<1>8. OwedInv'
  BY <1>1, Names, SMTT(30) DEF OwedInv, Moves, Take, Alive
<1>9. StopInv'
  BY <1>1, Names, SMTT(30) DEF Inv, StopInv, Moves, Take, Setting, Saving
<1>10. ExitInv'
  BY <1>1, Names, SMTT(30) DEF Inv, ExitInv, Moves, Take, Alive, OfMade
<1> QED
  BY <1>2, <1>3, <1>4, <1>5, <1>6, <1>7, <1>8, <1>9, <1>10 DEF Inv

LEMMA KeepKeeps ==
  ASSUME Careful, TypeOK, Shape, Inv, Running, NEW w \in Setters, Keep(w), ~cut', TypeOK',
         Shape'
  PROVE  Inv'
<1>1. Moves(w, IF wake[made] = "nil" THEN {"direct"} ELSE {"idle"}) /\ Alive /\ of[w] = made /\ OfMade
  BY Going, Names DEF Keep, Moves, TypeOK, Inv, LockInv, IdleInv, Setting, Saving
<1>2. SeenInv' /\ FreshInv' /\ CarryInv'
  <2>1. SeenInv'
    BY <1>1, Names, SMTT(30) DEF TypeOK, Inv, ClientsInv, ServeInv, SeenInv, Moves, Keep,
       OfMade, SetterComes, Covered, KeeperComes
  <2>2. FreshInv'
    BY <1>1, Names, SMTT(30) DEF Inv, ServeInv, FreshInv, Moves, Keep, Last, SetterComes,
       Covered, Fresh
  <2>3. CarryInv'
    <3>1. CASE wake[made] = "nil"
      BY <1>1, <3>1, Names DEF CarryInv, SetterComes, Moves
    <3>2. CASE wake[made] # "nil"
      <4>1. serving[made] # "done" /\ ~keeper.ending /\ pc["keeper"] # "gone"
        BY <1>1, <3>2 DEF Inv, ServeInv
      <4>2. \A v \in Setters : saving[made] # v
        BY <1>1, <4>1, Names DEF Inv, LockInv, Saving
      <4>3. wake'[made] = "posted" /\ UNCHANGED <<made, saving, of>>
        BY <1>1, <3>2 DEF Keep, TypeOK, Inv, ClientsInv
      <4>4. KeeperComes'
        BY <1>1, <4>1, <4>3, Names DEF KeeperComes, OfMade, Moves
      <4> QED
        BY <4>2, <4>3, <4>4 DEF CarryInv
    <3> QED
      BY <3>1, <3>2
  <2> QED
    BY <2>1, <2>2, <2>3
<1>3. ClientsInv'
  BY <1>1, Names, SMTT(30) DEF Inv, ClientsInv, Moves, Keep, Alive, TypeOK, Saving, Setting
<1>4. IdleInv'
  BY <1>1, Names, SMTT(30) DEF Inv, IdleInv, Moves, Keep, Alive, Setting, Saving
<1>5. LockInv'
  BY <1>1, Names, SMTT(30) DEF Inv, LockInv, ServeInv, Moves, Keep, OfMade, Setting, Saving,
     None
<1>6. ServeInv'
  BY <1>1, Names, SMTT(30) DEF Inv, ServeInv, Moves, Keep, Alive, OfMade, TypeOK, Saving,
     Setting
<1>7. FigureInv'
  BY <1>1, Names, SMTT(30) DEF Inv, FigureInv, Moves, Keep, Alive, Last
<1>8. OwedInv'
  BY <1>1, Names, SMTT(30) DEF OwedInv, Moves, Keep, Alive
<1>9. StopInv'
  BY <1>1, Names, SMTT(30) DEF Inv, StopInv, Moves, Keep, Setting, Saving
<1>10. ExitInv'
  BY <1>1, Names, SMTT(30) DEF Inv, ExitInv, Moves, Keep, Alive, OfMade
<1> QED
  BY <1>2, <1>3, <1>4, <1>5, <1>6, <1>7, <1>8, <1>9, <1>10 DEF Inv

LEMMA KeepNowKeeps ==
  ASSUME Careful, TypeOK, Shape, Inv, Running, NEW w \in Setters, KeepNow(w), ~cut', TypeOK',
         Shape'
  PROVE  Inv'
<1>1. /\ Moves(w, IF onDisk[made] = delay[made] THEN {"idle"} ELSE {"save"}) /\ Alive /\ of[w] = made /\ OfMade
      /\ serving[made] = "done" /\ saving[made] = "free"
  BY Going, Names DEF KeepNow, Moves, TypeOK, Inv, LockInv, IdleInv, Setting, Saving
<1>2. SeenInv' /\ FreshInv' /\ CarryInv'
  <2>1. Covered'
    <3>1. CASE onDisk[made] = delay[made]
      BY <1>1, <3>1, Unwritten DEF KeepNow, Covered, Last, TypeOK, Inv, ClientsInv
    <3>2. CASE onDisk[made] # delay[made]
      BY <1>1, <3>2, Names DEF KeepNow, Covered, InFlight, TypeOK, Inv, ClientsInv, Moves
    <3> QED
      BY <3>1, <3>2
  <2>2. (Fresh' <=> Fresh) /\ UNCHANGED <<made, serving, delay>> /\ of'["keeper"] = of["keeper"] /\ pc'["keeper"] = pc["keeper"]
    BY <1>1, Names DEF KeepNow, Fresh, Last, Moves
  <2>3. saving'[made] \in {"free", w} /\ (saving'[made] = w => ms'[w] = delay[made])
    BY <1>1, Names DEF KeepNow, TypeOK, Inv, ClientsInv
  <2> QED
    BY <1>1, <2>1, <2>2, <2>3, Names DEF SeenInv, FreshInv, CarryInv, Inv, OfMade
<1>3. ClientsInv'
  BY <1>1, Names, SMTT(30) DEF Inv, ClientsInv, Moves, KeepNow, Alive, TypeOK, Saving, Setting
<1>4. IdleInv'
  BY <1>1, Names, SMTT(30) DEF Inv, IdleInv, Moves, KeepNow, Alive, Setting, Saving
<1>5. LockInv'
  BY <1>1, Names, SMTT(30) DEF TypeOK, Inv, ClientsInv, LockInv, Moves, KeepNow, OfMade,
     Setting, Saving
<1>6. ServeInv'
  BY <1>1, Names, SMTT(30) DEF Inv, ServeInv, Moves, KeepNow, Alive, OfMade
<1>7. FigureInv'
  BY <1>1, Names, SMTT(30) DEF Inv, FigureInv, Moves, KeepNow, Alive, Last, TypeOK, Saving,
     Setting
<1>8. OwedInv'
  BY <1>1, Names, SMTT(30) DEF OwedInv, Moves, KeepNow, Alive
<1>9. StopInv'
  BY <1>1, Names, SMTT(30) DEF Inv, StopInv, Moves, KeepNow, Setting, Saving
<1>10. ExitInv'
  BY <1>1, Names, SMTT(30) DEF Inv, ExitInv, Moves, KeepNow, Alive, OfMade
<1> QED
  BY <1>2, <1>3, <1>4, <1>5, <1>6, <1>7, <1>8, <1>9, <1>10 DEF Inv

LEMMA KeepNowDoneKeeps ==
  ASSUME Careful, TypeOK, Shape, Inv, Running, NEW w \in Setters, KeepNowDone(w), ~cut',
         TypeOK', Shape'
  PROVE  Inv'
<1>1. /\ Moves(w, {"idle"}) /\ of[w] = made /\ OfMade /\ Alive /\ made \in Clients
      /\ serving[made] = "done" /\ saving[made] = w /\ pc[w] \in Saving
      /\ saving' = [saving EXCEPT ![made] = "free"]
      /\ \/ /\ pc[w] = "kept" /\ onDisk' = [onDisk EXCEPT ![made] = ms[w]]
            /\ switch'.disk = ms[w] /\ ~switch'.unknown /\ (switch'.owes <=> switch.owes)
            /\ switch'.delay = IF client # None THEN ms[w] ELSE switch.delay
         \/ pc[w] = "refused" /\ UNCHANGED <<switch, onDisk>>
  <2>1. Alive /\ of[w] = made /\ OfMade /\ serving[made] = "done" /\ saving[made] = w
    BY Names DEF KeepNowDone, Inv, IdleInv, LockInv, Setting, Saving
  <2>2. pc[w] \in {"kept", "refused"} /\ made \in Clients
    BY <2>1 DEF KeepNowDone, Inv, ClientsInv
  <2> QED
    BY <2>1, <2>2, KeepNowDoneDoes DEF Saving
<1>2. UNCHANGED <<disk, writing, client, made, delay, wake, serving, keeper, of, ms, then, refused>>
  BY DEF KeepNowDone
<1>3. onDisk'[made] = (IF pc[w] = "kept" THEN ms[w] ELSE onDisk[made]) /\ ms[w] \in Delays /\ ms[w] # NotKnown
  BY <1>1, Unwritten, Names DEF TypeOK
<1>4. SeenInv' /\ FreshInv' /\ CarryInv'
  <2>1. Covered'
    <3>1. CASE pc[w] = "kept"
      <4>1. delay[made] = ms[w] \/ SetterComes'
        BY <1>1, <3>1, Names DEF Inv, CarryInv, SetterComes, Moves
      <4> QED
        BY <1>1, <1>2, <1>3, <3>1, <4>1 DEF Covered, Last
    <3>2. CASE pc[w] = "refused"
      BY <1>2, <3>2, Names DEF Covered, Inv, FigureInv
    <3> QED
      BY <1>1, <3>1, <3>2
  <2> QED
    BY <1>1, <1>2, <2>1, Names DEF SeenInv, FreshInv, CarryInv, Moves, TypeOK
<1>5. FigureInv'
  <2>1. switch'.disk = Last'
    BY <1>1, <1>2, <1>3 DEF Last, Inv, FigureInv
  <2>2. client' # None => switch'.delay = switch'.disk
    BY <1>1, <1>2 DEF Inv, FigureInv
  <2>3. Alive /\ pc["loop"] \notin {"enable", "read"} /\ pc'["loop"] \notin {"enable", "read"}
    BY <1>1, Names DEF Inv, IdleInv, Moves
  <2> QED
    BY <1>1, <1>2, <1>3, <2>1, <2>2, <2>3, Names DEF Inv, FigureInv, Moves, Saving
<1>6. ClientsInv'
  BY <1>1, <1>2, Names, SMTT(30) DEF Inv, ClientsInv, Moves, TypeOK, Saving, Setting
<1>7. IdleInv'
  BY <1>1, <1>2, Names, SMTT(30) DEF Inv, IdleInv, Moves, Alive, Setting, Saving
<1>8. LockInv'
  BY <1>1, <1>2, Names, SMTT(30) DEF Inv, LockInv, Moves, Alive, OfMade, Setting, Saving, TypeOK
<1>9. ServeInv'
  BY <1>1, <1>2, Names, SMTT(30) DEF Inv, ServeInv, Moves, OfMade
<1>10. OwedInv'
  BY <1>1, <1>2, Names, SMTT(30) DEF OwedInv, Moves, Alive
<1>11. StopInv'
  BY <1>1, <1>2, Names, SMTT(30) DEF Inv, StopInv, Moves, Last, Setting, Saving
<1>12. ExitInv'
  BY <1>1, <1>2, Names, SMTT(30) DEF Inv, ExitInv, Moves, OfMade
<1> QED
  BY <1>2, <1>3, <1>4, <1>5, <1>6, <1>7, <1>8, <1>9, <1>10, <1>11, <1>12 DEF Inv

LEMMA ServeStartsKeeps ==
  ASSUME Careful, TypeOK, Shape, Inv, Running, NEW c \in Clients, ServeStarts(c), ~cut',
         TypeOK', Shape'
  PROVE  Inv'
<1>1. /\ c = made /\ Alive /\ ~OfMade /\ pc["keeper"] = "gone" /\ serving[c] \in {"listening", "closed"} /\ wake[c] = "nil"
      /\ wake' = [wake EXCEPT ![c] = "posted"]
      /\ serving' = [serving EXCEPT ![c] = IF serving[c] = "listening" THEN "yes" ELSE "closed"]
      /\ of' = [of EXCEPT !["keeper"] = c] /\ Moves("keeper", {"idle"})
      /\ keeper'.written = keeper.written /\ keeper'.tries = keeper.tries
      /\ ~keeper'.unknown /\ (keeper'.ending <=> keeper.ending)
  <2>1. serving[c] \in {"listening", "closed"} /\ wake[c] = "nil" /\ pc["keeper"] = "gone" /\ of["keeper"] # c
    BY DEF ServeStarts
  <2>2. c = made /\ Alive
    BY <2>1, BoundsAssumption, SMTT(30) DEF Inv, ClientsInv, TypeOK, Clients
  <2>3. keeper.unknown = FALSE /\ onDisk[c] = NotKnown /\ Stored(c) = keeper.written
    BY <2>1, <2>2 DEF Inv, FigureInv, ServeInv, OfMade, Stored, TypeOK
  <2>4. /\ wake' = [wake EXCEPT ![c] = "posted"] /\ of' = [of EXCEPT !["keeper"] = c]
        /\ serving' = [serving EXCEPT ![c] = IF serving[c] = "listening" THEN "yes" ELSE serving[c]]
    BY DEF ServeStarts
  <2> QED
    BY <2>1, <2>2, <2>3, <2>4, ServeStartsDoes DEF OfMade
<1>2. UNCHANGED <<disk, switch, writing, client, made, delay, onDisk, saving, ms, then, refused>>
  BY DEF ServeStarts
<1>3. SeenInv' /\ FreshInv' /\ CarryInv'
  BY <1>1, <1>2, Names, SMTT(30) DEF Inv, ServeInv, SeenInv, FreshInv, CarryInv, Moves, Last,
     SetterComes, Covered, Fresh, KeeperComes
<1>4. ClientsInv'
  BY <1>1, <1>2, Names, SMTT(30) DEF Inv, ClientsInv, Moves, Alive, TypeOK, Saving, Setting
<1>5. IdleInv'
  BY <1>1, <1>2, Names, SMTT(30) DEF Inv, IdleInv, Moves, Alive, Setting, Saving
<1>6. LockInv'
  BY <1>1, <1>2, Names, SMTT(30) DEF Inv, LockInv, Moves, Saving
<1>7. ServeInv'
  BY <1>1, <1>2, Names, SMTT(30) DEF Inv, ServeInv, Moves, Alive, OfMade, TypeOK, Saving,
     Setting
<1>8. FigureInv'
  BY <1>1, <1>2, Names, SMTT(30) DEF Inv, FigureInv, Moves, Last
<1>9. OwedInv'
  BY <1>1, <1>2, Names, SMTT(30) DEF OwedInv, Moves, Alive
<1>10. StopInv'
  BY <1>1, <1>2, Names, SMTT(30) DEF Inv, StopInv, Moves, Last, Setting, Saving
<1>11. ExitInv'
  BY <1>1, <1>2, Names, SMTT(30) DEF ExitInv, Careful, Running, Moves
<1> QED
  BY <1>2, <1>3, <1>4, <1>5, <1>6, <1>7, <1>8, <1>9, <1>10, <1>11 DEF Inv

LEMMA ServeStopsKeeps ==
  ASSUME Careful, TypeOK, Shape, Inv, Running, NEW c \in Clients, ServeStops(c), ~cut', TypeOK',
         Shape'
  PROVE  Inv'
<1>1. c = made /\ Alive /\ OfMade /\ serving[made] = "closed"
  BY BoundsAssumption DEF ServeStops, Inv, ClientsInv, TypeOK, Clients, OfMade
<1>2. SeenInv' /\ FreshInv' /\ CarryInv'
  BY <1>1, SMTT(30) DEF TypeOK, Inv, ServeInv, SeenInv, FreshInv, CarryInv, ServeStops, Last,
     OfMade, SetterComes, Fresh, KeeperComes
<1>3. ClientsInv'
  BY <1>1, Names, SMTT(30) DEF Inv, ClientsInv, Moves, ServeStops, Alive
<1>4. IdleInv'
  BY <1>1, Names, SMTT(30) DEF Inv, IdleInv, Moves, ServeStops, Alive, Setting, Saving
<1>5. LockInv'
  BY <1>1, Names, SMTT(30) DEF Inv, LockInv, Moves, ServeStops, Alive, OfMade
<1>6. ServeInv'
  BY <1>1, Names, SMTT(30) DEF Inv, ServeInv, Moves, ServeStops, Alive, OfMade, TypeOK, Saving,
     Setting
<1>7. FigureInv'
  BY <1>1, Names, SMTT(30) DEF Inv, FigureInv, Moves, ServeStops, Alive, Last
<1>8. OwedInv'
  BY <1>1, Names, SMTT(30) DEF OwedInv, ServeStops, Alive
<1>9. StopInv'
  BY <1>1, Names, SMTT(30) DEF Inv, StopInv, Moves, ServeStops, Alive, Last
<1>10. ExitInv'
  BY <1>1, Names, SMTT(30) DEF Inv, ExitInv, Moves, ServeStops, Alive, OfMade
<1> QED
  BY <1>2, <1>3, <1>4, <1>5, <1>6, <1>7, <1>8, <1>9, <1>10 DEF Inv

LEMMA KeeperMovesKeeps ==
  ASSUME Careful, TypeOK, Shape, Inv, Running, KeeperMoves, ~cut', TypeOK', Shape' PROVE Inv'
<1>1. /\ Alive /\ OfMade /\ made \in Clients /\ keeper'.written = keeper.written /\ keeper'.tries = keeper.tries
      /\ (keeper'.unknown <=> keeper.unknown)
      /\ \/ /\ pc["keeper"] = "idle" /\ Moves("keeper", {"window"}) /\ UNCHANGED keeper
            /\ wake[made] = "posted" /\ wake' = [wake EXCEPT ![made] = "empty"]
         \/ /\ pc["keeper"] = "window" /\ Moves("keeper", {"settle"}) /\ UNCHANGED <<keeper, wake>>
         \/ /\ pc["keeper"] \in {"idle", "window"} /\ serving[made] = "done"
            /\ Moves("keeper", {"settle"}) /\ UNCHANGED wake /\ keeper'.ending
  <2>1. pc["keeper"] # "gone"
    BY DEF KeeperMoves
  <2>2. Alive /\ of["keeper"] = made
    BY <2>1 DEF Inv, IdleInv, ServeInv, OfMade
  <2> QED
    BY <2>1, <2>2, KeeperMovesDoes DEF OfMade
<1>2. UNCHANGED <<disk, switch, writing, client, made, delay, onDisk, serving, saving, of, ms,
                  then, refused>>
  BY DEF KeeperMoves
<1>3. SeenInv' /\ FreshInv' /\ CarryInv'
  BY <1>1, <1>2, Names, SMTT(30) DEF Inv, SeenInv, FreshInv, CarryInv, Moves, Last, OfMade,
     SetterComes, InFlight, Covered, Fresh, KeeperComes, TypeOK
<1>4. ClientsInv'
  BY <1>1, <1>2, Names, SMTT(30) DEF Inv, ClientsInv, Moves, Alive, TypeOK, Saving, Setting
<1>5. IdleInv'
  BY <1>1, <1>2, Names, SMTT(30) DEF Inv, IdleInv, Moves, Alive, Setting, Saving
<1>6. LockInv'
  BY <1>1, <1>2, Names, SMTT(30) DEF Inv, LockInv, Moves, OfMade, Setting, Saving
<1>7. ServeInv'
  BY <1>1, <1>2, Names, SMTT(30) DEF Inv, ServeInv, Moves, Alive, OfMade, TypeOK, Saving,
     Setting
<1>8. FigureInv'
  BY <1>1, <1>2, Names, SMTT(30) DEF Inv, FigureInv, Moves, Last
<1>9. OwedInv'
  BY <1>1, <1>2, Names, SMTT(30) DEF OwedInv, Moves, Alive
<1>10. StopInv'
  BY <1>1, <1>2, Names, SMTT(30) DEF Inv, StopInv, Moves, Last, Setting, Saving
<1>11. ExitInv'
  BY <1>1, <1>2, Names, SMTT(30) DEF Inv, ExitInv, Moves, OfMade
<1> QED
  BY <1>2, <1>3, <1>4, <1>5, <1>6, <1>7, <1>8, <1>9, <1>10, <1>11 DEF Inv

LEMMA KeeperSettlesKeeps ==
  ASSUME Careful, TypeOK, Shape, Inv, Running, KeeperSettles, ~cut', TypeOK', Shape' PROVE Inv'
<1>1. /\ Alive /\ OfMade /\ made \in Clients /\ pc["keeper"] = "settle" /\ saving[made] = "free"
      /\ ~keeper'.unknown /\ (keeper'.ending <=> keeper.ending)
      /\ \/ /\ Moves("keeper", {IF keeper.ending THEN "gone" ELSE "idle"}) /\ UNCHANGED <<saving, ms>>
            /\ \/ delay[made] = keeper.written /\ keeper' = keeper
               \/ onDisk[made] = delay[made] /\ keeper'.written = delay[made]
                  /\ keeper'.tries = keeper.tries
               \/ /\ keeper'.written = keeper.written /\ keeper.tries > 0 /\ keeper'.tries = keeper.tries
         \/ /\ Moves("keeper", {"save"}) /\ delay[made] # onDisk[made]
            /\ saving' = [saving EXCEPT ![made] = "keeper"]
            /\ ms' = [ms EXCEPT !["keeper"] = delay[made]]
            /\ keeper'.written = keeper.written /\ delay[made] # keeper.written
            /\ keeper'.tries = keeper.tries \/ keeper'.tries = 0
  <2>1. pc["keeper"] = "settle" /\ saving[of["keeper"]] = "free"
    BY DEF KeeperSettles
  <2>2. Alive /\ of["keeper"] = made /\ ~keeper.unknown
    BY <2>1 DEF Inv, IdleInv, ServeInv, FigureInv, OfMade
  <2>3. KeepTries \in Nat /\ KeepTries > 0 /\ keeper.tries \in Nat
    BY BoundsAssumption DEF Careful, TypeOK
  <2>4. /\ made \in Clients /\ (keeper'.ending <=> keeper.ending) /\ ~keeper'.unknown
    BY <2>2, KeeperSettlesDoes
  <2> QED
    BY <2>1, <2>2, <2>3, <2>4, KeeperSettlesDoes DEF OfMade, KeeperRests
<1>2. UNCHANGED <<disk, switch, writing, client, made, delay, onDisk, wake, serving, of, then,
                  refused>>
  BY DEF KeeperSettles
<1>3. Last' = Last
  BY <1>1, <1>2, Unwritten DEF Last, TypeOK, Inv, FigureInv
<1>4. SeenInv' /\ FreshInv' /\ CarryInv'
  BY <1>1, <1>2, Names, SMTT(30) DEF Inv, SeenInv, FreshInv, CarryInv, Moves, Last, SetterComes,
     InFlight, Covered, Fresh, TypeOK
<1>5. FigureInv'
  BY <1>1, <1>2, <1>3, Names DEF Inv, FigureInv, Moves, Alive, TypeOK
<1>6. StopInv'
  BY <1>1, <1>2, <1>3, Names DEF Inv, StopInv, Moves, Alive, Saving, Setting, Last
<1>7. ClientsInv'
  BY <1>1, <1>2, Names, SMTT(30) DEF Inv, ClientsInv, Moves, Alive, TypeOK, Saving, Setting
<1>8. IdleInv'
  BY <1>1, <1>2, Names, SMTT(30) DEF Inv, IdleInv, Moves, Alive, Setting, Saving
<1>9. LockInv'
  BY <1>1, <1>2, Names, SMTT(30) DEF Inv, LockInv, Moves, Alive, OfMade, Setting, Saving, TypeOK
<1>10. ServeInv'
  BY <1>1, <1>2, Names, SMTT(30) DEF Inv, ServeInv, Moves, OfMade
<1>11. OwedInv'
  BY <1>1, <1>2, Names, SMTT(30) DEF OwedInv, Moves, Alive
<1>12. ExitInv'
  BY <1>1, <1>2, Names, SMTT(30) DEF Inv, ExitInv, Moves, OfMade
<1> QED
  BY <1>2, <1>3, <1>4, <1>5, <1>6, <1>7, <1>8, <1>9, <1>10, <1>11, <1>12 DEF Inv

LEMMA KeeperSettledKeeps ==
  ASSUME Careful, TypeOK, Shape, Inv, Running, KeeperSettled, ~cut', TypeOK', Shape' PROVE Inv'
<1>1. /\ Alive /\ OfMade /\ made \in Clients /\ (keeper'.ending <=> keeper.ending)
      /\ ~keeper'.unknown
      /\ saving' = [saving EXCEPT ![made] = "free"]
      /\ \/ /\ pc["keeper"] = "kept" /\ Moves("keeper", {IF keeper.ending THEN "gone" ELSE "idle"})
            /\ keeper'.written = ms["keeper"] /\ keeper'.tries = 0
            /\ onDisk' = [onDisk EXCEPT ![made] = ms["keeper"]]
            /\ switch'.disk = ms["keeper"] /\ ~switch'.unknown /\ (switch'.owes <=> switch.owes)
            /\ switch'.delay = IF client # None THEN ms["keeper"] ELSE switch.delay
         \/ /\ pc["keeper"] = "refused"
            /\ Moves("keeper", IF keeper.ending THEN {"gone"} ELSE {"idle", "window"})
            /\ keeper'.written = keeper.written /\ UNCHANGED <<switch, onDisk>>
  <2>1. pc["keeper"] # "gone"
    BY DEF KeeperSettled
  <2>2. Alive /\ of["keeper"] = made /\ ~keeper.unknown
    BY <2>1 DEF Inv, IdleInv, ServeInv, FigureInv, OfMade
  <2> QED
    BY <2>1, <2>2, KeeperSettledDoes DEF OfMade, KeeperRests
<1>2. UNCHANGED <<disk, writing, client, made, delay, wake, serving, of, ms, then, refused>>
  BY DEF KeeperSettled
<1>3. SeenInv' /\ FreshInv' /\ CarryInv'
  <2>1. SeenInv'
    BY <1>1, <1>2, Names, SMTT(30) DEF TypeOK, Inv, LockInv, ServeInv, SeenInv, CarryInv, Moves,
       Last, OfMade, SetterComes, InFlight, Covered, KeeperComes, Saving
  <2>2. FreshInv'
    BY <1>1, <1>2, Names, SMTT(30) DEF TypeOK, Inv, FigureInv, FreshInv, Last, Covered, Fresh
  <2>3. CarryInv'
    BY <1>1, <1>2, Names, SMTT(30) DEF Inv, ServeInv, CarryInv, Moves, OfMade, SetterComes,
       KeeperComes
  <2> QED
    BY <2>1, <2>2, <2>3
<1>4. ClientsInv'
  BY <1>1, <1>2, Names, SMTT(30) DEF Inv, ClientsInv, Moves, Alive, TypeOK, Saving, Setting
<1>5. IdleInv'
  BY <1>1, <1>2, Names, SMTT(30) DEF Inv, IdleInv, Moves, Alive, Setting, Saving
<1>6. LockInv'
  BY <1>1, <1>2, Names, SMTT(30) DEF Inv, LockInv, Moves, Alive, OfMade, Setting, Saving, TypeOK
<1>7. ServeInv'
  BY <1>1, <1>2, Names, SMTT(30) DEF Inv, ServeInv, Moves, OfMade
<1>8. FigureInv'
  BY <1>1, <1>2, Names, SMTT(30) DEF Inv, FigureInv, Moves, Alive, Last, TypeOK, Saving, Setting
<1>9. OwedInv'
  BY <1>1, <1>2, Names, SMTT(30) DEF OwedInv, Moves, Alive
<1>10. StopInv'
  BY <1>1, <1>2, Names, SMTT(30) DEF Inv, StopInv, Moves, Saving
<1>11. ExitInv'
  BY <1>1, <1>2, Names, SMTT(30) DEF Inv, ExitInv, Moves, OfMade
<1> QED
  BY <1>2, <1>3, <1>4, <1>5, <1>6, <1>7, <1>8, <1>9, <1>10, <1>11 DEF Inv

LEMMA SwitchOnKeeps ==
  ASSUME Careful, TypeOK, Shape, Inv, Running, SwitchOn, ~cut', TypeOK', Shape' PROVE Inv'
<1>1. Moves("loop", {"owe"}) /\ ~Alive
  BY Going, Names DEF SwitchOn, Moves, Alive
<1>2. SeenInv' /\ FreshInv' /\ CarryInv'
  BY <1>1, WritesStay, Names DEF SwitchOn, clients, Elsewhere, Alive, Moves
<1>3. ClientsInv'
  BY <1>1, Names, SMTT(30) DEF Inv, ClientsInv, Moves, SwitchOn, clients, Alive
<1>4. IdleInv'
  BY <1>1, Names, SMTT(30) DEF Inv, IdleInv, Moves, SwitchOn, clients, Alive, Setting, Saving
<1>5. LockInv'
  BY <1>1, Names, SMTT(30) DEF Inv, LockInv, Moves, SwitchOn, clients, Alive, Saving
<1>6. ServeInv'
  BY <1>1, Names, SMTT(30) DEF ServeInv, Moves, SwitchOn, clients, Alive, OfMade
<1>7. FigureInv'
  BY <1>1, Names, SMTT(30) DEF Inv, FigureInv, Moves, SwitchOn, clients, Alive, Last
<1>8. OwedInv'
  BY <1>1, Names, SMTT(30) DEF Inv, OwedInv, Moves, SwitchOn, clients, Alive
<1>9. StopInv'
  BY <1>1, Names, SMTT(30) DEF Inv, StopInv, Moves, SwitchOn, clients, Alive, Saving
<1>10. ExitInv'
  BY <1>1, Names, SMTT(30) DEF ExitInv, Moves, SwitchOn, clients, Alive, OfMade
<1> QED
  BY <1>2, <1>3, <1>4, <1>5, <1>6, <1>7, <1>8, <1>9, <1>10 DEF Inv

LEMMA EnableReadsKeeps ==
  ASSUME Careful, TypeOK, Shape, Inv, Running, EnableReads, ~cut', TypeOK', Shape' PROVE Inv'
<1>1. /\ Moves("loop", {"idle", "read"}) /\ ~Alive /\ pc["loop"] = "enable" /\ ~keeper'.unknown
      /\ (pc'["loop"] = "read" => ms'["loop"] = disk) /\ \A w \in Writers \ {"loop"} : ms'[w] = ms[w]
  BY EnableReadsDoes, Names DEF TypeOK, EnableReads, Moves, Careful, Inv, IdleInv, FigureInv
<1>2. SeenInv' /\ FreshInv' /\ CarryInv'
  BY <1>1, Names DEF EnableReads, clients, Alive, Moves, SeenInv, FreshInv, CarryInv
<1>3. UNCHANGED <<disk, switch, writing, client, made, delay, onDisk, wake, serving, saving, of,
                  then, refused>>
  BY DEF EnableReads, clients
<1>4. ClientsInv'
  BY <1>1, <1>3, Names, SMTT(30) DEF Inv, ClientsInv, Moves, Alive
<1>5. IdleInv'
  BY <1>1, <1>3, Names, SMTT(30) DEF TypeOK, Shape, Inv, IdleInv, Moves, Alive, Setting, Saving
<1>6. LockInv'
  BY <1>1, <1>3, Names, SMTT(30) DEF LockInv, Moves, Alive, OfMade, Setting, Saving
<1>7. ServeInv'
  BY <1>1, <1>3, Names, SMTT(30) DEF ServeInv, Moves, Alive, OfMade
<1>8. FigureInv'
  BY <1>1, <1>3, Names, SMTT(30) DEF Inv, FigureInv, Moves, Alive, Last
<1>9. OwedInv'
  BY <1>1, <1>3, Names, SMTT(30) DEF Inv, OwedInv, Moves
<1>10. StopInv'
  BY <1>1, <1>3, Names, SMTT(30) DEF StopInv, Moves, Alive, Last, Setting, Saving
<1>11. ExitInv'
  BY <1>1, <1>3, Names, SMTT(30) DEF ExitInv, Moves, Alive, OfMade
<1> QED
  BY <1>2, <1>3, <1>4, <1>5, <1>6, <1>7, <1>8, <1>9, <1>10, <1>11 DEF Inv

LEMMA EnableStartsKeeps ==
  ASSUME Careful, TypeOK, Shape, Inv, Running, EnableStarts, ~cut', TypeOK', Shape' PROVE Inv'
<1>1. /\ Moves("loop", {"idle"}) /\ ~Alive /\ pc["loop"] = "read" /\ client' = made' /\ made' = made + 1 /\ made' \in Clients
      /\ delay' = [delay EXCEPT ![made'] = disk] /\ serving' = [serving EXCEPT ![made'] = "listening"]
      /\ switch'.delay = disk /\ switch'.disk = disk /\ ~switch'.unknown /\ ~switch'.owes
      /\ ~keeper'.unknown /\ ~keeper'.ending /\ keeper'.written = disk /\ keeper'.tries = 0
  <2>1. pc["loop"] = "read"
    BY DEF EnableStarts
  <2>2. ~Alive /\ ~keeper.unknown /\ switch.delay = switch.disk /\ ms["loop"] = disk
    BY <2>1 DEF Inv, IdleInv, FigureInv
  <2> QED
    BY <2>1, <2>2, EnableStartsDoes
<1>2. /\ UNCHANGED <<disk, writing, onDisk, wake, saving, of, ms, then, refused>>
      /\ wake[made'] = "nil" /\ onDisk[made'] = NotKnown /\ saving[made'] = "free" /\ of["keeper"] < made' /\ of["keeper"] <= made'
      /\ \A c \in Clients : c > made' => c > made /\ c # made'
      /\ \A c \in Clients : c < made' => c # made' /\ (c < made \/ c = made)
  <2>1. made \in Nat /\ made' = made + 1 /\ Clients \subseteq Nat /\ of["keeper"] \in Nat /\ of["keeper"] <= made
    BY <1>1, BoundsAssumption, Names DEF Inv, ClientsInv, TypeOK, Clients, None
  <2>2. \A c \in Clients : c > made' => c > made /\ c # made'
    BY <2>1
  <2>3. \A c \in Clients : c < made' => c # made' /\ (c < made \/ c = made)
    BY <2>1
  <2>4. of["keeper"] < made' /\ of["keeper"] <= made' /\ made' > made
    BY <2>1
  <2> QED
    BY <1>1, <2>2, <2>3, <2>4 DEF EnableStarts, Inv, ClientsInv
<1>3. ClientsInv'
  <2>1. serving'[made'] = "listening" /\ \A c \in Clients \ {made'} : serving'[c] = serving[c]
    BY <1>1 DEF TypeOK
  <2>2. \A c \in Clients : c > made' =>
          serving'[c] = "no" /\ wake'[c] = "nil" /\ onDisk'[c] = NotKnown /\ saving'[c] = "free"
    BY <1>2, <2>1 DEF Inv, ClientsInv
  <2>3. \A c \in Clients : c < made' => serving'[c] = "done"
    <3>1. \A c \in Clients : c < made' => serving[c] = "done"
      BY <1>1, <1>2 DEF Inv, ClientsInv
    <3> QED
      BY <1>2, <2>1, <3>1
  <2>4. client' = made' /\ client' # None /\ Alive'
    BY <1>1, SomeClient DEF Alive
  <2>5. pc'["loop"] = "idle" /\ of'["keeper"] <= made'
    BY <1>1, <1>2, Names DEF Moves
  <2> QED
    BY <1>1, <2>2, <2>3, <2>4, <2>5 DEF ClientsInv
<1>4. SeenInv' /\ FreshInv' /\ CarryInv'
  BY <1>1, <1>2, Names, SMTT(30) DEF Inv, SeenInv, FreshInv, CarryInv, Last, Covered, Fresh,
     TypeOK
<1>5. IdleInv'
  BY <1>1, <1>2, Names, SMTT(30) DEF TypeOK, Shape, Inv, IdleInv, LockInv, Moves, Setting,
     Saving
<1>6. LockInv'
  BY <1>1, <1>2, Names, SMTT(30) DEF TypeOK, Inv, IdleInv, LockInv, Moves, Setting, Saving
<1>7. ServeInv'
  BY <1>1, <1>2, Names, SMTT(30) DEF TypeOK, Inv, IdleInv, ServeInv, Moves, OfMade
<1>8. FigureInv'
  BY <1>1, <1>2, Names, SMTT(30) DEF Inv, FigureInv, Moves, Last
<1>9. OwedInv'
  BY <1>1, SMTT(30) DEF OwedInv
<1>10. StopInv'
  BY <1>1, <1>2, Names, SMTT(30) DEF TypeOK, Inv, IdleInv, StopInv, Moves, Last, Setting,
     Saving, None
<1>11. ExitInv'
  BY <1>1, <1>2, Names, SMTT(30) DEF ExitInv, OfMade
<1> QED
  BY <1>2, <1>3, <1>4, <1>5, <1>6, <1>7, <1>8, <1>9, <1>10, <1>11 DEF Inv

LEMMA SwitchOffKeeps ==
  ASSUME Careful, TypeOK, Shape, Inv, Running, SwitchOff, ~cut', TypeOK', Shape' PROVE Inv'
<1>1. /\ Moves("loop", {"off"}) /\ client \in Clients /\ client = made /\ pc["loop"] = "idle"
      /\ of' = [of EXCEPT !["loop"] = made] /\ serving'[made] = IF serving[made] = "done" THEN "done" ELSE "closed"
  BY Going, Names DEF SwitchOff, Closed, Moves, TypeOK, Inv, ClientsInv
<1>2. SeenInv' /\ FreshInv' /\ CarryInv'
  BY <1>1, WritesStay, SomeClient, Names DEF SwitchOff, Elsewhere, Alive, Moves, TypeOK
<1>3. ClientsInv'
  BY <1>1, Names, SMTT(30) DEF Inv, ClientsInv, Moves, SwitchOff, Closed, Alive, TypeOK, Saving,
     Setting
<1>4. IdleInv'
  BY <1>1, Names, SMTT(30) DEF Inv, IdleInv, Moves, SwitchOff, Closed, Alive
<1>5. LockInv'
  BY <1>1, Names, SMTT(30) DEF Inv, LockInv, Moves, SwitchOff, Closed, Alive, OfMade, Setting,
     Saving
<1>6. ServeInv'
  BY <1>1, Names, SMTT(30) DEF Inv, ServeInv, Moves, SwitchOff, Closed, Alive, OfMade
<1>7. FigureInv'
  BY <1>1, Names, SMTT(30) DEF Inv, FigureInv, Moves, SwitchOff, Closed, Alive, Last
<1>8. OwedInv'
  BY <1>1, Names, SMTT(30) DEF OwedInv, Moves, Closed, Alive
<1>9. StopInv'
  BY <1>1, Names, SMTT(30) DEF Inv, StopInv, Moves, SwitchOff, Closed, Alive, Last, Setting,
     Saving
<1>10. ExitInv'
  BY <1>1, Names, SMTT(30) DEF Inv, ExitInv, Moves, SwitchOff, Closed, Alive, OfMade
<1> QED
  BY <1>2, <1>3, <1>4, <1>5, <1>6, <1>7, <1>8, <1>9, <1>10 DEF Inv

LEMMA SwitchedOffKeeps ==
  ASSUME Careful, TypeOK, Shape, Inv, Running, SwitchedOff, ~cut', TypeOK', Shape' PROVE Inv'
<1>1. Moves("loop", {"idle"}) /\ of["loop"] = made /\ client = None
  BY Going, Names DEF SwitchedOff, Moves, Inv, ClientsInv
<1>2. SeenInv' /\ FreshInv' /\ CarryInv'
  BY <1>1, WritesStay, Names DEF SwitchedOff, clients, Elsewhere, Alive, Moves
<1>3. ClientsInv'
  BY <1>1, Names, SMTT(30) DEF Inv, ClientsInv, SwitchedOff, Served, clients, Alive
<1>4. IdleInv'
  BY <1>1, Names, SMTT(30) DEF TypeOK, Inv, IdleInv, LockInv, ServeInv, Careful, Moves,
     SwitchedOff, Served, Alive, OfMade, Setting
<1>5. LockInv'
  BY <1>1, Names, SMTT(30) DEF LockInv, Moves, SwitchedOff, clients, Alive
<1>6. ServeInv'
  BY <1>1, Names, SMTT(30) DEF Inv, ServeInv, Moves, SwitchedOff, Served, clients, Alive, OfMade
<1>7. FigureInv'
  BY <1>1, Names, SMTT(30) DEF Inv, FigureInv, Moves, SwitchedOff, Served, clients, Alive, Last
<1>8. OwedInv'
  BY <1>1, Names, SMTT(30) DEF TypeOK, Inv, ClientsInv, LockInv, ServeInv, FigureInv, SeenInv,
     OwedInv, Careful, SwitchedOff, Served, Alive, OfMade, SetterComes, InFlight, Covered,
     KeeperComes, Setting
<1>9. StopInv'
  BY <1>1, Names, SMTT(30) DEF StopInv, Moves, SwitchedOff, clients, Alive
<1>10. ExitInv'
  BY <1>1, Names, SMTT(30) DEF Inv, ExitInv, Moves, SwitchedOff, Served, clients, Alive, OfMade
<1> QED
  BY <1>2, <1>3, <1>4, <1>5, <1>6, <1>7, <1>8, <1>9, <1>10 DEF Inv

LEMMA StopKeeps ==
  ASSUME Careful, TypeOK, Shape, Inv, Running, Stop, ~cut', TypeOK', Shape' PROVE Inv'
<1>1. Moves("stop", {"owe"}) /\ pc["stop"] = "idle"
  BY Going, Names DEF Stop, Moves
<1>2. SeenInv' /\ FreshInv' /\ CarryInv'
  BY <1>1, WritesStay, Names DEF Stop, clients, Elsewhere, Alive, Moves
<1>3. ClientsInv'
  BY <1>1, Names, SMTT(30) DEF Inv, ClientsInv, Moves, Stop, clients, Alive
<1>4. IdleInv'
  BY <1>1, Names, SMTT(30) DEF Inv, IdleInv, Moves, Stop, clients, Alive
<1>5. LockInv'
  BY <1>1, Names, SMTT(30) DEF Inv, LockInv, Moves, Stop, clients, Alive, OfMade, Setting,
     Saving
<1>6. ServeInv'
  BY <1>1, Names, SMTT(30) DEF Inv, ServeInv, Moves, Stop, clients, Alive, OfMade
<1>7. FigureInv'
  BY <1>1, Names, SMTT(30) DEF Inv, FigureInv, Moves, Stop, clients, Alive, Last
<1>8. OwedInv'
  BY <1>1, Names, SMTT(30) DEF Inv, OwedInv, Moves, Stop, clients, Alive
<1>9. StopInv'
  BY <1>1, Names, SMTT(30) DEF StopInv, Moves, Saving
<1>10. ExitInv'
  BY <1>1, Names, SMTT(30) DEF ExitInv, Moves
<1> QED
  BY <1>2, <1>3, <1>4, <1>5, <1>6, <1>7, <1>8, <1>9, <1>10 DEF Inv

LEMMA StopClosesKeeps ==
  ASSUME Careful, TypeOK, Shape, Inv, Running, StopCloses, ~cut', TypeOK', Shape' PROVE Inv'
<1>1. /\ Moves("stop", {"settle", "exited"}) /\ pc["stop"] = "listener" /\ pc["loop"] # "off"
      /\ \/ client = None /\ UNCHANGED <<serving, of>>
         \/ /\ client # None /\ Moves("stop", {"settle"})
            /\ serving' = [serving EXCEPT ![client] = "closed"] /\ of' = [of EXCEPT !["stop"] = client]
  BY Going, Names DEF StopCloses, Closed, Moves
<1>2. /\ client = None => ~Alive
      /\ client # None => client = made /\ made \in Clients /\ serving[made] \in {"listening", "yes"}
  BY <1>1 DEF Alive, Inv, ClientsInv, ServeInv
<1>3. SeenInv' /\ FreshInv' /\ CarryInv'
  BY <1>1, <1>2, WritesStay, SomeClient, Names DEF StopCloses, Elsewhere, Alive, Moves, TypeOK
<1>4. ClientsInv'
  BY <1>1, <1>2, Names, SMTT(30) DEF Inv, ClientsInv, Moves, StopCloses, Alive, TypeOK, Saving,
     Setting
<1>5. IdleInv'
  BY <1>1, <1>2, Names, SMTT(30) DEF Inv, IdleInv, Moves, StopCloses, Alive, Setting, Saving
<1>6. LockInv'
  BY <1>1, <1>2, Names, SMTT(30) DEF Inv, LockInv, Moves, StopCloses, Alive, OfMade, TypeOK
<1>7. ServeInv'
  BY <1>1, <1>2, Names, SMTT(30) DEF Inv, ServeInv, Moves, StopCloses, Alive, OfMade, TypeOK,
     Saving, Setting
<1>8. FigureInv'
  BY <1>1, <1>2, Names, SMTT(30) DEF Inv, FigureInv, Moves, StopCloses, Alive, Last
<1>9. OwedInv'
  BY <1>1, <1>2, Names, SMTT(30) DEF Inv, OwedInv, StopCloses, Alive
<1>10. StopInv'
  BY <1>1, <1>2, Names, SMTT(30) DEF Inv, StopInv, Moves, StopCloses, Alive, Last, TypeOK
<1>11. ExitInv'
  BY <1>1, <1>2, Names, SMTT(30) DEF ExitInv, Moves, StopCloses, Alive, OfMade
<1> QED
  BY <1>2, <1>3, <1>4, <1>5, <1>6, <1>7, <1>8, <1>9, <1>10, <1>11 DEF Inv

LEMMA StopExitsKeeps ==
  ASSUME Careful, TypeOK, Shape, Inv, Running, StopExits, ~cut', TypeOK', Shape' PROVE Inv'
<1>1. Moves("stop", {"exited"}) /\ pc["stop"] = "settle"
  BY Going, Names DEF StopExits, Moves
<1>2. SeenInv' /\ FreshInv' /\ CarryInv'
  BY <1>1, WritesStay, Names DEF StopExits, clients, Elsewhere, Alive, Moves
<1>3. ClientsInv'
  BY <1>1, Names, SMTT(30) DEF Inv, ClientsInv, Moves, StopExits, Served, clients, Alive
<1>4. IdleInv'
  BY <1>1, Names, SMTT(30) DEF Inv, IdleInv, Moves, StopExits, Served, clients, Alive, Setting,
     Saving
<1>5. LockInv'
  BY <1>1, Names, SMTT(30) DEF Inv, LockInv, Moves, StopExits, clients, Alive, OfMade
<1>6. ServeInv'
  BY <1>1, Names, SMTT(30) DEF Inv, ServeInv, Moves, StopExits, Served, clients, Alive, OfMade
<1>7. FigureInv'
  BY <1>1, Names, SMTT(30) DEF Inv, FigureInv, Moves, StopExits, Served, clients, Alive, Last
<1>8. OwedInv'
  BY <1>1, Names, SMTT(30) DEF Inv, OwedInv, Moves, StopExits, Served, clients, Alive
<1>9. StopInv'
  BY <1>1, Names, SMTT(30) DEF Inv, StopInv, Moves, StopExits, clients, Alive, Last
<1>10. ExitInv'
  BY <1>1, Names, SMTT(30) DEF Inv, ExitInv, Moves, StopExits, Served, clients, Alive, OfMade
<1> QED
  BY <1>2, <1>3, <1>4, <1>5, <1>6, <1>7, <1>8, <1>9, <1>10 DEF Inv

-----------------------------------------------------------------------------
(* The theorems *)

(* While the stop has not overlapped a switch-off, all of Inv.              *)
IInv ==
  /\ TypeOK /\ Shape
  /\ cut => pc["stop"] # "idle"
  /\ cut \/ Inv

LEMMA InitIInv == ASSUME Careful, Init PROVE IInv
<1>1. TypeOK /\ Shape
  BY InitTypes
<1>2. switch = Took(disk, TRUE) /\ disk \in Delays
  BY DEF Init, Careful
<1>3. switch.delay = disk /\ switch.disk = disk /\ ~switch.unknown /\ ~switch.owes
  BY <1>2 DEF Took
<1>4. made = 0 /\ client = None /\ writing = "free" /\ of["keeper"] = None /\ ~Alive /\ ~cut
  BY Names DEF Init, Alive
<1>5. /\ pc["loop"] = "idle" /\ pc["session"] = "idle" /\ pc["stop"] = "idle" /\ pc["keeper"] = "gone"
  BY Names DEF Init
<1>6. ClientsInv
  <2>1. \A c \in Clients : ~(c < 0) /\ c # 0
    BY BoundsAssumption DEF Clients
  <2>2. \A c \in Clients : serving[c] = "no" /\ wake[c] = "nil" /\ onDisk[c] = NotKnown /\ saving[c] = "free"
    BY DEF Init
  <2> QED
    BY <1>4, <1>5, <2>1, <2>2 DEF ClientsInv, None
<1>7. FigureInv
  BY <1>3, <1>4, <1>5, Names DEF FigureInv, Init
<1>8. IdleInv /\ LockInv /\ ServeInv /\ SeenInv /\ FreshInv /\ CarryInv /\ OwedInv /\ StopInv /\ ExitInv
  BY <1>3, <1>4, <1>5 DEF IdleInv, LockInv, ServeInv, SeenInv, FreshInv, CarryInv, OwedInv,
     StopInv, ExitInv, Setting
<1> QED
  BY <1>1, <1>4, <1>6, <1>7, <1>8 DEF IInv, Inv

\* Once the stop has overlapped a switch-off it has, and it has begun.
LEMMA CutStep ==
  ASSUME TypeOK, Shape, cut => pc["stop"] # "idle", Next
  PROVE  (cut => cut') /\ (cut' => pc'["stop"] # "idle")
<1>1. \A w \in Writers : \A p : Goes(w, p) => pc'[w] = p /\ \A v \in Writers \ {w} : pc'[v] = pc[v]
  BY Going
<1>2. CASE \E w \in Writers : Save(w)
  <2>1. PICK w \in Writers : Save(w)
    BY <1>2
  <2> QED
    BY <1>1, <2>1, Names DEF Save
<1>3. CASE LoopDue \/ EnableReads \/ EnableStarts
  <2>1. UNCHANGED cut /\ (Goes("loop", "owe") \/ Goes("loop", "idle") \/ Goes("loop", "read"))
    BY <1>3 DEF LoopDue, EnableReads, EnableStarts
  <2> QED
    BY <1>1, <2>1, Names
<1>4. CASE SwitchedOff \/ SwitchOn \/ SwitchOff
  BY <1>1, <1>4, Names DEF SwitchedOff, SwitchOn, SwitchOff
<1>5. CASE Owe("loop", then = "enable") \/ Owe("stop", TRUE)
  BY <1>5, Names DEF Goes, Shape, Owe, After
<1>6. CASE OweDone("loop") \/ OweDone("stop")
  BY <1>1, <1>6, Names DEF OweDone, After
<1>7. CASE \E w \in Setters : Take(w) \/ Keep(w) \/ KeepNow(w) \/ KeepNowDone(w)
  <2>1. PICK w \in Setters : Take(w) \/ Keep(w) \/ KeepNow(w) \/ KeepNowDone(w)
    BY <1>7
  <2>2. w \in Writers /\ w # "stop"
    BY Names
  <2> QED
    BY <1>1, <2>1, <2>2, Names DEF Take, Keep, KeepNow, KeepNowDone
<1>8. CASE (\E c \in Clients : ServeStarts(c) \/ ServeStops(c)) \/ KeeperMoves
  <2>1. UNCHANGED cut /\ (UNCHANGED pc \/ \E p : Goes("keeper", p))
    BY <1>8, Zenon DEF ServeStarts, ServeStops, KeeperMoves
  <2> QED
    BY <1>1, <2>1, Names
<1>9. CASE KeeperSettles \/ KeeperSettled
  <2>1. UNCHANGED cut /\ \E p : Goes("keeper", p)
    BY <1>9, Zenon DEF KeeperSettles, KeeperSettled, KeeperTurns
  <2> QED
    BY <1>1, <2>1, Names
<1>10. CASE Stop \/ StopExits
  BY <1>1, <1>10, Names DEF Stop, StopExits
<1>11. CASE StopCloses
  <2>1. Goes("stop", "settle") \/ Goes("stop", "exited")
    BY <1>11 DEF StopCloses
  <2> QED
    BY <1>1, <1>11, <2>1, Names DEF StopCloses, TypeOK
<1>12. CASE Asked
  <2>1. PICK figure \in Delays : SessionAsked(figure) \/ LoopAsked(figure) \/ LoopAskedOff(figure)
    BY <1>12 DEF Asked
  <2> QED
    BY <1>1, <2>1, Names DEF SessionAsked, LoopAsked, LoopAskedOff, Ask
<1> QED
  BY <1>2, <1>3, <1>5, <1>6, <1>7, <1>8, <1>10, <1>12, <1>4, <1>9, <1>11 DEF Next, Daemon

LEMMA StepIInv == ASSUME Careful, IInv, [Next]_vars PROVE IInv'
<1>1. TypeOK' /\ Shape'
  BY TypesStep DEF IInv
<1>2. CASE Next
  <2>1. (cut => cut') /\ (cut' => pc'["stop"] # "idle")
    BY <1>2, CutStep DEF IInv
  <2>2. ASSUME ~cut' PROVE Inv'
    <3>1. Inv /\ Running /\ TypeOK /\ Shape
      BY <1>2, <2>1, <2>2 DEF IInv, Next
    <3>2. CASE \E w \in Writers : Save(w)
      BY <1>1, <2>2, <3>1, <3>2, SaveKeeps
    <3>3. CASE LoopDue \/ SwitchOn \/ EnableReads \/ EnableStarts \/ SwitchOff \/ SwitchedOff
      BY <1>1, <2>2, <3>1, <3>3, LoopDueKeeps, SwitchOnKeeps, EnableReadsKeeps,
         EnableStartsKeeps,
         SwitchOffKeeps, SwitchedOffKeeps
    <3>4. CASE Owe("loop", then = "enable") \/ Owe("stop", TRUE) \/ OweDone("loop") \/ OweDone("stop")
      BY <1>1, <2>2, <3>1, <3>4, OweLoopKeeps, OweStopKeeps, OweDoneKeeps
    <3>5. CASE \E w \in Setters : Take(w) \/ Keep(w) \/ KeepNow(w) \/ KeepNowDone(w)
      BY <1>1, <2>2, <3>1, <3>5, TakeKeeps, KeepKeeps, KeepNowKeeps, KeepNowDoneKeeps
    <3>6. CASE \/ \E c \in Clients : ServeStarts(c) \/ ServeStops(c)
               \/ KeeperMoves \/ KeeperSettles \/ KeeperSettled
      BY <1>1, <2>2, <3>1, <3>6, ServeStartsKeeps, ServeStopsKeeps, KeeperMovesKeeps,
         KeeperSettlesKeeps, KeeperSettledKeeps
    <3>7. CASE Stop \/ StopCloses \/ StopExits
      BY <1>1, <2>2, <3>1, <3>7, StopKeeps, StopClosesKeeps, StopExitsKeeps
    <3>8. CASE Asked
      BY <1>1, <2>2, <3>1, <3>8, AskKeeps, AskOffKeeps, Names DEF Asked, SessionAsked, LoopAsked
    <3> QED
      BY <1>2, <3>2, <3>3, <3>4, <3>5, <3>6, <3>7, <3>8 DEF Next, Daemon
  <2> QED
    BY <1>1, <2>1, <2>2 DEF IInv
<1>3. CASE UNCHANGED vars
  <2>1. Inv => Inv'
    BY <1>3 DEF vars, clients, Inv, ClientsInv, IdleInv, LockInv, ServeInv, FigureInv, SeenInv,
       FreshInv, CarryInv, OwedInv, StopInv, ExitInv, Alive, Last, OfMade, SetterComes,
       InFlight, Covered, Fresh, KeeperComes
  <2> QED
    BY <1>1, <1>3, <2>1 DEF IInv, vars
<1> QED
  BY <1>2, <1>3

(* Writers, keeper and switch as the parts say, in every reachable state.   *)
THEOREM DelayInductive == ASSUME Careful PROVE Spec => []IInv
<1>1. IInv /\ [Next]_vars => IInv'
  BY StepIInv
<1> QED
  BY <1>1, InitIInv, PTL DEF Spec

LEMMA SettledHolds == ASSUME IInv PROVE SettledMeansKept
<1> SUFFICES ASSUME Settled, ~refused PROVE disk = InForce
  BY DEF SettledMeansKept
<1>1. /\ Inv /\ TypeOK /\ Shape /\ ~Owed
      /\ pc["session"] = "idle" /\ pc["loop"] = "idle" /\ pc["stop"] = "idle"
  BY DEF IInv, Settled, NobodyIsSetting
<1>2. CASE client = None
  <2>1. ~Alive /\ writing = "free"
    BY <1>1, <1>2 DEF Alive, Shape, TypeOK, Saving
  <2>2. switch.delay = switch.disk
    BY <1>1, <2>1 DEF Inv, OwedInv, Owed
  <2>3. disk = switch.disk
    BY <1>1, <2>1, Names DEF Inv, IdleInv, FigureInv
  <2> QED
    BY <1>2, <2>2, <2>3 DEF InForce
<1>3. CASE client # None
  <2>1. Alive /\ client = made /\ made \in Clients
    BY <1>1, <1>3 DEF Alive, Inv, ClientsInv
  <2>2. serving[made] = "yes" /\ wake[made] = "empty" /\ pc["keeper"] = "idle"
    BY <1>3, <2>1 DEF Settled
  <2>3. disk = Last
    BY <1>1, <2>1, <2>2, Names DEF Inv, FigureInv
  <2>4. ~SetterComes /\ ~KeeperComes
    BY <1>1, <2>2, Names DEF SetterComes, KeeperComes
  <2>5. ~InFlight(delay[made])
    BY <1>1, <2>1, <2>2, Names DEF InFlight, TypeOK
  <2> QED
    BY <1>1, <1>3, <2>1, <2>3, <2>4, <2>5 DEF Inv, SeenInv, Covered, InForce
<1> QED
  BY <1>2, <1>3

(* When nobody is about a write, the property holds the figure in force:    *)
(* no set is overtaken by an older figure, and none is left to nobody.      *)
THEOREM SettledIsKept == ASSUME Careful PROVE Spec => []SettledMeansKept
<1>1. IInv => SettledMeansKept
  BY SettledHolds
<1> QED
  BY <1>1, DelayInductive, PTL

LEMMA ExitHolds == ASSUME IInv PROVE KeptAtExit
<1> SUFFICES ASSUME ~Running, NobodyIsSetting, ~cut, ~refused PROVE disk = InForce
  BY DEF KeptAtExit
<1>1. /\ Inv /\ TypeOK /\ Shape
      /\ pc["session"] = "idle" /\ pc["loop"] = "idle" /\ pc["stop"] = "exited"
  BY DEF IInv, NobodyIsSetting, Running
<1>2. CASE client = None
  <2>1. ~Alive /\ writing = "free"
    BY <1>1, <1>2 DEF Alive, Shape, TypeOK, Saving
  <2>2. switch.delay = switch.disk
    BY <1>1, <2>1 DEF Inv, OwedInv
  <2>3. disk = switch.disk
    BY <1>1, <2>1, Names DEF Inv, IdleInv, FigureInv
  <2> QED
    BY <1>2, <2>2, <2>3 DEF InForce
<1>3. CASE client # None
  <2>1. Alive /\ client = made /\ made \in Clients
    BY <1>1, <1>3 DEF Alive, Inv, ClientsInv
  <2>2. pc["keeper"] \notin Saving
    BY <1>1, <2>1 DEF Inv, StopInv, ExitInv, ServeInv, Saving
  <2>3. disk = Last
    BY <1>1, <2>1, <2>2, Names DEF Inv, FigureInv, Saving
  <2>4. ~SetterComes /\ ~InFlight(delay[made])
    BY <1>1, <2>1, <2>2, Names DEF SetterComes, InFlight, TypeOK, Saving
  <2>5. delay[made] = Last
    <3>1. CASE of["stop"] # made
      BY <1>1, <2>1, <3>1 DEF Inv, StopInv
    <3>2. CASE of["stop"] = made /\ ~OfMade
      BY <1>1, <2>1, <3>2 DEF Inv, ServeInv, Last
    <3>3. CASE of["stop"] = made /\ OfMade
      BY <1>1, <2>1, <2>4, <3>3 DEF Inv, SeenInv, ExitInv, Covered, KeeperComes
    <3> QED
      BY <3>1, <3>2, <3>3
  <2> QED
    BY <1>3, <2>1, <2>3, <2>5 DEF InForce
<1> QED
  BY <1>2, <1>3

(* A daemon that stops exits with the figure in force in the property,      *)
(* unless the stop overlapped a switch-off.                                 *)
THEOREM ExitIsKept == ASSUME Careful PROVE Spec => []KeptAtExit
<1>1. IInv => KeptAtExit
  BY ExitHolds
<1> QED
  BY <1>1, DelayInductive, PTL

=============================================================================
