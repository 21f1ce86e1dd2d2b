----------------------------- MODULE KWinProofs -----------------------------
(***************************************************************************)
(* What a run of kwin_session keeps for any number of compositors, any      *)
(* stability window and deadlines, and whichever queries fail.             *)
(***************************************************************************)
EXTENDS KWinSession, TLAPS

(* The query that is put next. *)
Asked == IF todo = <<>> THEN "none" ELSE Head(todo)

(* What may be ahead of a probe at each place. *)
Ahead(place) ==
  CASE place = "adopt" ->
         {<<"active", "pid", "socket", "old", "tail">>,
          <<"pid", "socket", "old", "tail">>, <<"socket", "old", "tail">>,
          <<"old", "tail">>, <<"tail">>, <<>>}
    [] place = "judge" -> {<<"session">>, <<>>}
    [] place = "protect" -> {<<"active", "pid">>, <<"pid">>, <<>>}
    [] place = "gate" ->
         {<<"active", "pid", "socket", "inv", "journal", "session">>,
          <<"pid", "socket", "inv", "journal", "session">>,
          <<"socket", "inv", "journal", "session">>,
          <<"inv", "journal", "session">>, <<"journal", "session">>,
          <<"session">>, <<>>}
    [] place = "late" ->
         {<<"active", "pid", "socket", "tail">>, <<"pid", "socket", "tail">>,
          <<"socket", "tail">>, <<"tail">>, <<>>}
    [] place = "scope" -> {<<"inv", "journal">>, <<"journal">>, <<>>}
    [] place = "verify" -> {<<"again">>, <<>>}
    [] OTHER -> {<<>>}

(* The order of the queries. *)
Follow(place, q) ==
  IF q = "active" THEN {"pid"}
  ELSE IF q = "pid" THEN IF place = "protect" THEN {"none"} ELSE {"socket"}
  ELSE IF q = "socket" THEN IF place = "adopt" THEN {"old"}
                            ELSE IF place = "gate" THEN {"inv"} ELSE {"tail"}
  ELSE IF q = "old" THEN {"tail"}
  ELSE IF q = "inv" THEN {"journal"}
  ELSE IF q = "journal" /\ place = "gate" THEN {"session"}
  ELSE {"none"}

PutAt(place) ==
  IF place = "adopt" THEN {"active", "pid", "socket", "old", "tail", "none"}
  ELSE IF place = "judge" THEN {"session", "none"}
  ELSE IF place = "protect" THEN {"active", "pid", "none"}
  ELSE IF place = "gate"
    THEN {"active", "pid", "socket", "inv", "journal", "session", "none"}
  ELSE IF place = "late" THEN {"active", "pid", "socket", "tail", "none"}
  ELSE IF place = "scope" THEN {"inv", "journal", "none"}
  ELSE IF place = "verify" THEN {"again", "none"}
  ELSE {"none"}

TodoOK == todo \in Ahead(pc)

(* Generations only grow, so what is asked later is not older; and what has *)
(* not been asked yet is blank.                                             *)
Known ==
  /\ sample.pid <= kwin.gen /\ sample.inv <= kwin.gen /\ sample.again <= kwin.gen
  /\ gate.pid <= kwin.gen /\ gate.inv <= kwin.gen /\ seen <= kwin.gen
  /\ kwin.up => kwin.gen > 0
  /\ Asked \in {"active", "pid"} => sample.pid = 0 /\ ~sample.old
  /\ Asked \in {"active", "pid", "socket", "inv"} \/ pc = "late" => sample.inv = 0
  /\ pc \in {"gate", "late", "scope"} => sample.again = 0
  /\ sample.inv # 0 => sample.inv >= sample.pid
  /\ sample.again # 0 => sample.again >= sample.inv

(* A compositor that is old was not started within this probe. *)
OldOne ==
  /\ pc = "adopt" /\ kwin.up /\ kwin.old /\ sample.pid > 0 => sample.pid = kwin.gen
  /\ sample.old /\ sample.pid > 0 => sample.oldGen = sample.pid

(* An extension does not pause. *)
Debt == IF gate.extended THEN 1 ELSE 0
Lived(ticks) == ticks + Debt >= gate.count \/ ticks + Debt >= Confirms

(* The compositor whose samples are counted has lived that long, if it is   *)
(* still there, and so had it when it was last sampled.                     *)
Steady ==
  pc = "gate" =>
    /\ gate.pid > 0 /\ kwin.up /\ kwin.gen = gate.pid => Lived(kwin.ticks)
    /\ gate.pid > 0 /\ sample.pid = gate.pid => Lived(sample.lived)
    /\ sample.pid > 0 => sample.pid >= gate.inv

(* Nobody whose socket is to be kept is there when sockets are removed. *)
Gone == ~(kwin.up /\ kwin.gen = seen)
Spared ==
  /\ pc \in {"pkill", "unlink"} => Gone
  /\ pc = "protect" /\ Asked # "active" => sample.active \/ Gone
  /\ pc = "protect" /\ Asked = "none" => sample.pid > 0 \/ Gone

KWinInv ==
  TypeOK /\ TodoOK /\ Known /\ OldOne /\ Steady /\ Spared /\ DoneSawOneCompositor

Kept == (file = "live" /\ file' = "none" /\ kwin'.up) => kwin'.gen # seen
-----------------------------------------------------------------------------
LEMMA AheadAsked ==
  ASSUME pc \in Place, TodoOK
  PROVE  Asked \in PutAt(pc) /\ (Asked = "none" <=> todo = <<>>)
  BY DEF TodoOK, Ahead, Asked, PutAt, Place

LEMMA NextAsked ==
  ASSUME pc \in Place, TodoOK, todo # <<>>, todo' = Tail(todo), pc' = pc
  PROVE  TodoOK' /\ Asked' \in Follow(pc, Asked)
<1>1. CASE pc = "adopt"
  <2>1. CASE todo = <<"active", "pid", "socket", "old", "tail">>
    BY <1>1, <2>1 DEF TodoOK, Ahead, Asked, Follow
  <2>2. CASE todo = <<"pid", "socket", "old", "tail">>
    BY <1>1, <2>2 DEF TodoOK, Ahead, Asked, Follow
  <2>3. CASE todo = <<"socket", "old", "tail">>
    BY <1>1, <2>3 DEF TodoOK, Ahead, Asked, Follow
  <2>4. CASE todo = <<"old", "tail">>
    BY <1>1, <2>4 DEF TodoOK, Ahead, Asked, Follow
  <2>5. CASE todo = <<"tail">>
    BY <1>1, <2>5 DEF TodoOK, Ahead, Asked, Follow
  <2> QED
    BY <1>1, <2>1, <2>2, <2>3, <2>4, <2>5 DEF TodoOK, Ahead
<1>2. CASE pc = "judge"
  BY <1>2 DEF TodoOK, Ahead, Asked, Follow
<1>3. CASE pc = "protect"
  <2>1. CASE todo = <<"active", "pid">>
    BY <1>3, <2>1 DEF TodoOK, Ahead, Asked, Follow
  <2>2. CASE todo = <<"pid">>
    BY <1>3, <2>2 DEF TodoOK, Ahead, Asked, Follow
  <2> QED
    BY <1>3, <2>1, <2>2 DEF TodoOK, Ahead
<1>4. CASE pc = "gate"
  <2>1. CASE todo = <<"active", "pid", "socket", "inv", "journal", "session">>
    BY <1>4, <2>1 DEF TodoOK, Ahead, Asked, Follow
  <2>2. CASE todo = <<"pid", "socket", "inv", "journal", "session">>
    BY <1>4, <2>2 DEF TodoOK, Ahead, Asked, Follow
  <2>3. CASE todo = <<"socket", "inv", "journal", "session">>
    BY <1>4, <2>3 DEF TodoOK, Ahead, Asked, Follow
  <2>4. CASE todo = <<"inv", "journal", "session">>
    BY <1>4, <2>4 DEF TodoOK, Ahead, Asked, Follow
  <2>5. CASE todo = <<"journal", "session">>
    BY <1>4, <2>5 DEF TodoOK, Ahead, Asked, Follow
  <2>6. CASE todo = <<"session">>
    BY <1>4, <2>6 DEF TodoOK, Ahead, Asked, Follow
  <2> QED
    BY <1>4, <2>1, <2>2, <2>3, <2>4, <2>5, <2>6 DEF TodoOK, Ahead
<1>5. CASE pc = "late"
  <2>1. CASE todo = <<"active", "pid", "socket", "tail">>
    BY <1>5, <2>1 DEF TodoOK, Ahead, Asked, Follow
  <2>2. CASE todo = <<"pid", "socket", "tail">>
    BY <1>5, <2>2 DEF TodoOK, Ahead, Asked, Follow
  <2>3. CASE todo = <<"socket", "tail">>
    BY <1>5, <2>3 DEF TodoOK, Ahead, Asked, Follow
  <2>4. CASE todo = <<"tail">>
    BY <1>5, <2>4 DEF TodoOK, Ahead, Asked, Follow
  <2> QED
    BY <1>5, <2>1, <2>2, <2>3, <2>4 DEF TodoOK, Ahead
<1>6. CASE pc = "scope"
  <2>1. CASE todo = <<"inv", "journal">>
    BY <1>6, <2>1 DEF TodoOK, Ahead, Asked, Follow
  <2>2. CASE todo = <<"journal">>
    BY <1>6, <2>2 DEF TodoOK, Ahead, Asked, Follow
  <2> QED
    BY <1>6, <2>1, <2>2 DEF TodoOK, Ahead
<1>7. CASE pc = "verify"
  BY <1>7 DEF TodoOK, Ahead, Asked, Follow
<1> QED
  BY <1>1, <1>2, <1>3, <1>4, <1>5, <1>6, <1>7 DEF TodoOK, Ahead, Place

LEMMA ProbesTyped ==
  /\ AdoptionProbe \in Seq(Queries) /\ LateProbe \in Seq(Queries)
  /\ HealthProbe \in Seq(Queries) /\ <<"session">> \in Seq(Queries)
  /\ <<"active", "pid">> \in Seq(Queries) /\ <<"inv", "journal">> \in Seq(Queries)
  /\ <<"again">> \in Seq(Queries) /\ <<>> \in Seq(Queries)
<1>1. /\ "active" \in Queries /\ "pid" \in Queries /\ "socket" \in Queries /\ "old" \in Queries
      /\ "tail" \in Queries /\ "inv" \in Queries /\ "journal" \in Queries
      /\ "session" \in Queries /\ "again" \in Queries
  BY DEF Queries
<1> QED
  BY <1>1 DEF AdoptionProbe, LateProbe, HealthProbe

LEMMA QueryEffect ==
  ASSUME KWinInv, Query
  PROVE  /\ UNCHANGED <<kwin, file, fatals, status, pc, gate, by>>
         /\ TodoOK' /\ Asked \in PutAt(pc) \ {"none"} /\ Asked' \in Follow(pc, Asked)
         /\ sample' \in Sample /\ seen' \in {seen, 0}
         /\ Asked # "active" => sample'.active = sample.active
         /\ Asked = "active" => (sample'.active <=> kwin.up) \/ seen' = 0
         /\ Asked # "pid" => sample'.pid = sample.pid /\ sample'.lived = sample.lived
         /\ Asked = "pid" =>
              \/ sample'.pid = Pid /\ sample'.lived = kwin.ticks
              \/ sample'.pid = 0 /\ seen' = 0
         /\ Asked # "old" => sample'.old = sample.old /\ sample'.oldGen = sample.oldGen
         /\ Asked = "old" /\ sample'.old => kwin.up /\ kwin.old /\ sample'.oldGen = kwin.gen
         /\ Asked # "inv" => sample'.inv = sample.inv
         /\ Asked = "inv" => sample'.inv \in {kwin.gen, 0}
         /\ Asked # "again" => sample'.again = sample.again
         /\ Asked = "again" => sample'.again \in {Pid, 0}
<1> USE DEF KWinInv
<1> DEFINE q == Head(todo)
<1>1. pc' = pc /\ todo # <<>> /\ todo' = Tail(todo) /\ q = Asked
  BY DEF Query, Asked
<1>2. TodoOK' /\ Asked' \in Follow(pc, Asked) /\ Asked \in PutAt(pc) \ {"none"}
  BY <1>1, AheadAsked, NextAsked DEF TypeOK
<1>3. q \in Queries
  BY <1>1, <1>2 DEF PutAt, Queries
<1> HIDE DEF q
<1>4. UNCHANGED <<kwin, file, fatals, status, pc, gate, by>>
  BY DEF Query, host
<1>5. sample \in Sample /\ kwin \in Compositor /\ Pid \in Gens /\ kwin.gen \in Gens /\ 0 \in Gens
  BY KWinAssumption DEF TypeOK, Pid, Compositor, Gens
<1>6. CASE /\ \E a \in Answers(q) :
                 sample' = [sample EXCEPT
                   ![q] = a,
                   !.lived = IF q = "pid" THEN kwin.ticks ELSE @,
                   !.oldGen = IF q = "old" THEN Pid ELSE @]
           /\ UNCHANGED seen
  <2>1. PICK a \in Answers(q) : sample' = [sample EXCEPT ![q] = a,
                   !.lived = IF q = "pid" THEN kwin.ticks ELSE @,
                   !.oldGen = IF q = "old" THEN Pid ELSE @]
    BY <1>6
  <2> seen' = seen
    BY <1>6
  <2>2. CASE q = "active"
    BY <1>1, <1>2, <1>4, <1>5, <2>1, <2>2 DEF Answers, Sample, Compositor
  <2>3. CASE q = "pid"
    BY <1>1, <1>2, <1>4, <1>5, <2>1, <2>3 DEF Answers, Sample, Compositor
  <2>4. CASE q = "socket"
    BY <1>1, <1>2, <1>4, <1>5, <2>1, <2>4 DEF Answers, Sample, Compositor
  <2>5. CASE q = "old"
    BY <1>1, <1>2, <1>4, <1>5, <2>1, <2>5 DEF Answers, Sample, Compositor, Pid
  <2>6. CASE q = "tail"
    BY <1>1, <1>2, <1>4, <1>5, <2>1, <2>6 DEF Answers, Sample, Compositor
  <2>7. CASE q = "inv"
    BY <1>1, <1>2, <1>4, <1>5, <2>1, <2>7 DEF Answers, Sample, Compositor
  <2>8. CASE q = "journal"
    <3>1. a \in BOOLEAN
      <4>1. /\ (sample.inv \in fatals) \in BOOLEAN /\ (kwin.gen \in fatals) \in BOOLEAN
            /\ (fatals # {}) \in BOOLEAN
        OBVIOUS
      <4>2. CASE sample.inv # 0
        BY <2>8, <4>1, <4>2 DEF Answers
      <4>3. CASE sample.inv = 0
        BY <2>8, <4>1, <4>3 DEF Answers
      <4> QED
        BY <4>2, <4>3
    <3>2. sample' \in Sample
      BY <1>5, <2>1, <2>8, <3>1 DEF Sample
    <3> QED
      BY <1>1, <1>2, <1>4, <1>5, <2>1, <2>8, <3>2 DEF Sample
  <2>9. CASE q = "session"
    BY <1>1, <1>2, <1>4, <1>5, <2>1, <2>9 DEF Answers, Sample, Compositor, SessionMatches
  <2>10. CASE q = "again"
    BY <1>1, <1>2, <1>4, <1>5, <2>1, <2>10 DEF Answers, Sample, Compositor
  <2> QED
    BY <1>3, <2>2, <2>3, <2>4, <2>5, <2>6, <2>7, <2>8, <2>9, <2>10 DEF Queries
<1>7. CASE q # "socket" /\ sample' = [sample EXCEPT ![q] = Unanswered(q)] /\ seen' = 0
  <2>1. sample' \in Sample
    BY <1>3, <1>5, <1>7 DEF Unanswered, Sample, Queries
  <2>2. seen' = 0
    BY <1>7
  <2>3. CASE q = "active"
    BY <1>1, <1>2, <1>4, <1>5, <1>7, <2>1, <2>3 DEF Unanswered, Sample
  <2>4. CASE q = "pid"
    BY <1>1, <1>2, <1>4, <1>5, <1>7, <2>1, <2>4 DEF Unanswered, Sample
  <2>5. CASE q = "old"
    BY <1>1, <1>2, <1>4, <1>5, <1>7, <2>1, <2>5 DEF Unanswered, Sample
  <2>6. CASE q = "inv"
    BY <1>1, <1>2, <1>4, <1>5, <1>7, <2>1, <2>6 DEF Unanswered, Sample
  <2>7. CASE q = "again"
    BY <1>1, <1>2, <1>4, <1>5, <1>7, <2>1, <2>7 DEF Unanswered, Sample
  <2>8. CASE q \in {"tail", "journal", "session"}
    BY <1>1, <1>2, <1>4, <1>5, <1>7, <2>1, <2>8 DEF Unanswered, Sample
  <2> QED
    BY <1>3, <1>7, <2>3, <2>4, <2>5, <2>6, <2>7, <2>8 DEF Queries
<1> QED
  BY <1>6, <1>7 DEF Query, q
-----------------------------------------------------------------------------
(* What every proof below uses of the types. *)
LEMMA Types ==
  ASSUME TypeOK
  PROVE  /\ kwin.gen \in Nat /\ kwin.ticks \in Nat /\ kwin.ticks <= Confirms
         /\ kwin.up \in BOOLEAN /\ kwin.old \in BOOLEAN
         /\ sample.pid \in Nat /\ sample.inv \in Nat /\ sample.again \in Nat
         /\ sample.lived \in Nat /\ sample.oldGen \in Nat
         /\ sample.active \in BOOLEAN /\ sample.old \in BOOLEAN
         /\ gate.pid \in Nat /\ gate.inv \in Nat /\ gate.count \in Nat
         /\ gate.count <= Confirms + 1 /\ gate.extended \in BOOLEAN
         /\ seen \in Nat /\ Confirms \in Nat /\ Confirms > 0
  BY KWinAssumption DEF TypeOK, Compositor, Sample, Gate, Gens

LEMMA KWinInit == Init => KWinInv
<1> SUFFICES ASSUME Init PROVE KWinInv
  OBVIOUS
<1>1. kwin \in Compositor /\ (kwin.up => kwin.gen > 0)
  <2>1. CASE kwin = Off
    BY <2>1, KWinAssumption DEF Off, Compositor, Gens
  <2>2. CASE kwin \in [gen : {1}, up : BOOLEAN, bound : BOOLEAN, seat : BOOLEAN,
                       old : {FALSE}, ticks : {0}]
    <3>1. 1 \in Gens /\ 0 \in 0..Confirms
      BY KWinAssumption DEF Gens
    <3>2. kwin.gen = 1 /\ kwin.old = FALSE /\ kwin.ticks = 0
      BY <2>2
    <3>3. kwin \in [gen : Gens, up : BOOLEAN, bound : BOOLEAN, seat : BOOLEAN,
                    old : BOOLEAN, ticks : 0..Confirms]
      BY <2>2, <3>1, <3>2
    <3> QED
      BY <3>2, <3>3 DEF Compositor
  <2> QED
    BY <2>1, <2>2 DEF Init
<1>2. /\ sample \in Sample /\ gate \in Gate /\ seen \in Gens
      /\ sample.pid = 0 /\ sample.inv = 0 /\ sample.again = 0 /\ ~sample.old
      /\ gate.pid = 0 /\ gate.inv = 0
  BY KWinAssumption DEF Init, Blank, NoGate, Sample, Gate, Gens
<1>3. fatals \subseteq Gens
  BY <1>1, KWinAssumption DEF Init, Compositor, Gens
<1>4. TypeOK
  BY <1>1, <1>2, <1>3, ProbesTyped DEF Init, TypeOK, Place
<1>5. TodoOK /\ Asked = "none"
  BY DEF Init, TodoOK, Ahead, Asked
<1>6. Known
  BY <1>1, <1>2, <1>4, <1>5, Types DEF Init, Known
<1>7. OldOne /\ Steady /\ Spared /\ DoneSawOneCompositor
  BY <1>2 DEF Init, OldOne, Steady, Spared, DoneSawOneCompositor, GateSawOneCompositor,
              LateSawOneCompositor, AdoptionSawOneCompositor
<1> QED
  BY <1>4, <1>5, <1>6, <1>7 DEF KWinInv

LEMMA QueryStep ==
  ASSUME KWinInv, Query
  PROVE  KWinInv' /\ Kept
<1> USE DEF KWinInv
<1>1. Kept
  BY QueryEffect DEF Kept
<1>2. TypeOK'
  <2>1. todo # <<>> /\ todo' = Tail(todo) /\ todo \in Seq(Queries)
    BY DEF Query, TypeOK
  <2>2. todo' \in Seq(Queries)
    BY <2>1
  <2>3. 0 \in Gens
    BY KWinAssumption DEF Gens
  <2> QED
    BY <2>2, <2>3, QueryEffect DEF TypeOK
<1>3. Known'
  <2>1. /\ sample'.pid \in Nat /\ sample'.inv \in Nat /\ sample'.again \in Nat
    BY <1>2 DEF TypeOK, Sample, Gens
  <2>2. (kwin.gen >= sample'.pid /\ kwin.gen >= sample'.inv /\ kwin.gen >= sample'.again)
    BY <2>1, Types, QueryEffect DEF Known, Pid
  <2>3. (Asked' \in {"active", "pid"} => sample'.pid = 0 /\ ~sample'.old)
    BY QueryEffect DEF Known, Follow, PutAt
  <2>4. (Asked' \in {"active", "pid", "socket", "inv"} \/ pc' = "late" => sample'.inv = 0)
    BY QueryEffect DEF Known, Follow, PutAt
  <2>5. (pc' \in {"gate", "late", "scope"} => sample'.again = 0)
    BY QueryEffect DEF Known, PutAt
  <2>6. (sample'.inv # 0 => sample'.inv >= sample'.pid)
    BY <2>1, Types, QueryEffect DEF Known, PutAt
  <2>7. (sample'.again # 0 => sample'.again >= sample'.inv)
    BY <2>1, Types, QueryEffect DEF Known, PutAt, Pid
  <2> QED
    BY <2>2, <2>3, <2>4, <2>5, <2>6, <2>7, Types, QueryEffect DEF Known
<1>4. OldOne'
  BY <1>2, Types, QueryEffect DEF OldOne, Known, PutAt, Pid
<1>5. Steady'
  BY <1>2, Types, QueryEffect DEF Steady, Known, Lived, Debt, Pid
<1>6. Spared'
  BY <1>2, Types, QueryEffect DEF Spared, Known, Gone, Follow, PutAt, Pid
<1>7. DoneSawOneCompositor'
  <2>1. pc' # "mark"
    BY QueryEffect DEF PutAt
  <2> QED
    BY <2>1 DEF DoneSawOneCompositor, GateSawOneCompositor, LateSawOneCompositor,
                AdoptionSawOneCompositor
<1> QED
  BY <1>1, <1>2, <1>3, <1>4, <1>5, <1>6, <1>7, QueryEffect

(* A blank sample, where a probe begins and where there is none. *)
LEMMA BlankSample ==
  /\ Blank \in Sample /\ Blank.pid = 0 /\ Blank.inv = 0 /\ Blank.again = 0 /\ ~Blank.old
  /\ NoGate \in Gate /\ NoGate.pid = 0 /\ NoGate.inv = 0
  BY KWinAssumption DEF Blank, NoGate, Sample, Gate, Gens

LEMMA EndsStep ==
  ASSUME KWinInv, Ends, status' \in {"running", "failed", "done", "pending"}
  PROVE  KWinInv' /\ Kept
<1> USE DEF KWinInv
<1>1. Kept
  BY DEF Ends, Kept
<1>2. kwin' \in Compositor /\ kwin'.gen = kwin.gen /\ kwin'.up = kwin.up
  BY KWinAssumption DEF Ends, TypeOK, Compositor
<1>3. /\ pc' = "idle" /\ todo' = <<>> /\ sample' = Blank /\ gate' = NoGate
      /\ by' = "none" /\ seen' = 0 /\ UNCHANGED <<file, fatals>>
  BY DEF Ends
<1>4. TypeOK'
  BY <1>2, <1>3, BlankSample, ProbesTyped, KWinAssumption DEF TypeOK, Place, Gens
<1>5. TodoOK' /\ Asked' = "none"
  BY <1>3 DEF TodoOK, Ahead, Asked
<1>6. Known'
  BY <1>2, <1>3, <1>5, BlankSample, Types DEF Known
<1>7. OldOne' /\ Steady' /\ Spared' /\ DoneSawOneCompositor'
  BY <1>3, BlankSample DEF OldOne, Steady, Spared, DoneSawOneCompositor,
     GateSawOneCompositor, LateSawOneCompositor, AdoptionSawOneCompositor
<1> QED
  BY <1>1, <1>4, <1>5, <1>6, <1>7

(* A probe begins. *)
LEMMA ProbeStep ==
  ASSUME KWinInv, NEW place \in {"adopt", "write", "stop", "protect", "gate", "late"},
         NEW queries, Probe(place, queries), queries \in Ahead(place),
         Asked' = "none" => place \in {"write", "stop"},
         Asked' # "none" => Asked' = "active",
         queries \in Seq(Queries), kwin' \in Compositor, gate' \in Gate, seen' \in Gens,
         UNCHANGED <<file, fatals, by>>,
         status' \in {"pending", "running", "failed", "done"},
         kwin'.gen >= kwin.gen, kwin'.up => kwin'.gen > 0,
         gate'.pid <= kwin.gen, gate'.inv <= kwin.gen, seen' <= kwin.gen,
         Steady'
  PROVE  KWinInv' /\ Kept
<1> USE DEF KWinInv
<1>1. Kept
  BY DEF Kept
<1>2. pc' = place /\ todo' = queries /\ sample' = Blank
  BY DEF Probe
<1>3. TypeOK'
  BY <1>2, BlankSample DEF TypeOK, Place
<1>4. TodoOK'
  BY <1>2 DEF TodoOK
<1>5. Known'
  <2>1. /\ kwin'.gen \in Nat /\ gate'.pid \in Nat /\ gate'.inv \in Nat /\ seen' \in Nat
    BY DEF Compositor, Gate, Gens
  <2>2. kwin.gen \in Nat
    BY Types
  <2>3. gate'.pid <= kwin'.gen /\ gate'.inv <= kwin'.gen /\ seen' <= kwin'.gen
    BY <2>1, <2>2
  <2> QED
    BY <1>2, <2>1, <2>3, BlankSample DEF Known
<1>6. OldOne' /\ Spared' /\ DoneSawOneCompositor'
  BY <1>2, BlankSample DEF OldOne, Spared, DoneSawOneCompositor,
     GateSawOneCompositor, LateSawOneCompositor, AdoptionSawOneCompositor
<1> QED
  BY <1>1, <1>3, <1>4, <1>5, <1>6

LEMMA BeginStep ==
  ASSUME KWinInv, Begin
  PROVE  KWinInv' /\ Kept
<1> USE DEF KWinInv
<1>1. Probe("adopt", AdoptionProbe) /\ UNCHANGED <<kwin, file, fatals, gate, by, seen>>
      /\ status' = "running"
  BY DEF Begin, host
<1>2. AdoptionProbe \in Ahead("adopt") /\ todo' = AdoptionProbe
  BY <1>1 DEF Ahead, AdoptionProbe, Probe
<1>3. Asked' = "active"
  BY <1>2 DEF Asked, AdoptionProbe
<1>4. kwin \in Compositor /\ gate \in Gate /\ seen \in Gens /\ seen <= kwin.gen
  BY DEF TypeOK, Known
<1>5. Steady'
  BY <1>1 DEF Probe, Steady
<1> QED
  BY <1>1, <1>2, <1>3, <1>4, <1>5, ProbeStep, ProbesTyped, Types DEF Known

(* The run moves on with what it sampled. *)
LEMMA MoveStep ==
  ASSUME KWinInv, UNCHANGED <<sample, gate, status, fatals>>, TodoOK',
         pc' \in {"judge", "pkill", "unlink", "write", "prep", "start", "scope", "verify", "mark"},
         todo' \in Seq(Queries), kwin' \in Compositor, file' \in {"none", "live", "orphan"},
         by' \in {"none", "adopt", "gate", "late"}, seen' \in {seen, 0},
         kwin'.gen = kwin.gen, kwin'.up => kwin.up,
         Asked' \notin {"active", "pid", "socket"},
         Asked' = "inv" => sample.inv = 0,
         pc' = "scope" => sample.again = 0,
         pc' \in {"pkill", "unlink"} => Gone',
         DoneSawOneCompositor'
  PROVE  KWinInv'
<1> USE DEF KWinInv
<1>1. TypeOK'
  BY KWinAssumption DEF TypeOK, Place, Gens
<1>2. Known'
  BY Types DEF Known
<1>3. OldOne' /\ Steady' /\ Spared'
  BY DEF OldOne, Steady, Spared
<1> QED
  BY <1>1, <1>2, <1>3

LEMMA AdoptStep ==
  ASSUME KWinInv, Adopt
  PROVE  KWinInv' /\ Kept
<1> USE DEF KWinInv
<1>1. /\ UNCHANGED <<kwin, file, fatals, status, gate, seen>> /\ pc = "adopt" /\ todo = <<>>
      /\ kwin \in Compositor /\ file \in {"none", "live", "orphan"} /\ gate \in Gate /\ seen \in Gens
      /\ status \in {"pending", "running", "failed", "done"}
      /\ by \in {"none", "adopt", "gate", "late"}
  BY DEF Adopt, host, TypeOK
<1>2. Kept
  BY <1>1 DEF Kept
<1>3. CASE Adoptable(TRUE)
  <2>1. pc' = "mark" /\ by' = "adopt" /\ UNCHANGED <<todo, sample>>
    BY <1>3 DEF Adopt
  <2>2. TodoOK' /\ Asked' = "none"
    BY <1>1, <2>1 DEF TodoOK, Ahead, Asked
  <2>3. DoneSawOneCompositor'
    BY <1>3, <2>1 DEF OldOne, Adoptable, DoneSawOneCompositor, GateSawOneCompositor,
                      LateSawOneCompositor, AdoptionSawOneCompositor
  <2> QED
    BY <1>1, <1>2, <2>1, <2>2, <2>3, MoveStep, ProbesTyped
<1>4. CASE ~Adoptable(TRUE) /\ UnlinkedCandidate
  <2>1. pc' = "judge" /\ todo' = <<"session">> /\ UNCHANGED <<sample, by>>
    BY <1>4 DEF Adopt
  <2>2. TodoOK' /\ Asked' = "session"
    BY <2>1 DEF TodoOK, Ahead, Asked
  <2>3. DoneSawOneCompositor'
    BY <2>1 DEF DoneSawOneCompositor, GateSawOneCompositor, LateSawOneCompositor,
                AdoptionSawOneCompositor
  <2> QED
    BY <1>1, <1>2, <2>1, <2>2, <2>3, MoveStep, ProbesTyped
<1>5. CASE ~Adoptable(TRUE) /\ ~UnlinkedCandidate
  <2>1. Probe("write", <<>>) /\ UNCHANGED by
    BY <1>5 DEF Adopt
  <2>2. <<>> \in Ahead("write") /\ Asked' = "none" /\ Steady'
    BY <2>1 DEF Ahead, Probe, Asked, Steady
  <2>3. /\ <<>> \in Seq(Queries) /\ kwin'.gen >= kwin.gen /\ (kwin'.up => kwin'.gen > 0)
        /\ gate'.pid <= kwin.gen /\ gate'.inv <= kwin.gen /\ seen' <= kwin.gen
    BY <1>1, Types DEF Known
  <2> QED
    BY <1>1, <2>1, <2>2, <2>3, ProbeStep
<1> QED
  BY <1>3, <1>4, <1>5

LEMMA PidTyped ==
  ASSUME TypeOK
  PROVE  Pid \in Gens /\ Pid <= kwin.gen
BY Types, KWinAssumption DEF Pid, TypeOK, Compositor, Gens

LEMMA JudgeStep ==
  ASSUME KWinInv, Judge
  PROVE  KWinInv' /\ Kept
<1> USE DEF KWinInv
<1>1. /\ UNCHANGED <<kwin, file, fatals, status, gate, by>>
      /\ kwin \in Compositor /\ gate \in Gate /\ seen' = Pid
      /\ status \in {"pending", "running", "failed", "done"}
  BY DEF Judge, host, TypeOK
<1>2. PICK place \in {"stop", "write"} : Probe(place, <<>>)
  BY DEF Judge
<1>3. <<>> \in Ahead(place) /\ Asked' = "none" /\ Steady'
  BY <1>2 DEF Ahead, Probe, Asked, Steady
<1>4. /\ <<>> \in Seq(Queries) /\ kwin'.gen >= kwin.gen /\ (kwin'.up => kwin'.gen > 0)
      /\ gate'.pid <= kwin.gen /\ gate'.inv <= kwin.gen
      /\ seen' \in Gens /\ seen' <= kwin.gen
  BY <1>1, Types, PidTyped DEF Known
<1> QED
  BY <1>1, <1>2, <1>3, <1>4, ProbeStep

LEMMA DownTyped ==
  ASSUME TypeOK
  PROVE  /\ Down \in Compositor /\ Down.gen = kwin.gen /\ ~Down.up
         /\ Left \subseteq {"none", "live", "orphan"}
<1>1. kwin \in Compositor /\ 0 \in 0..Confirms /\ file \in {"none", "live", "orphan"}
  BY KWinAssumption DEF TypeOK
<1> QED
  BY <1>1 DEF Down, Compositor, Left

LEMMA StopUnitStep ==
  ASSUME KWinInv, StopUnit
  PROVE  KWinInv' /\ Kept
<1> USE DEF KWinInv
<1>1. /\ UNCHANGED <<fatals, status, todo, sample, gate, by>> /\ pc \in {"stop", "pkill"}
      /\ pc' \in {"pkill", "unlink"}
      /\ kwin \in Compositor /\ file \in {"none", "live", "orphan"} /\ seen \in Gens
      /\ by \in {"none", "adopt", "gate", "late"} /\ todo \in Seq(Queries)
  BY DEF StopUnit, TypeOK
<1>2. \/ kwin' = Down /\ file' \in Left /\ UNCHANGED seen
      \/ seen' = 0 /\ UNCHANGED <<kwin, file>>
  BY DEF StopUnit
<1>3. /\ kwin' \in Compositor /\ kwin'.gen = kwin.gen /\ (kwin'.up => kwin.up)
      /\ seen' \in {seen, 0}
      /\ kwin'.up => kwin' = kwin /\ file' = file /\ seen' = 0
  <2>1. CASE kwin' = Down /\ UNCHANGED seen
    <3>1. Down \in Compositor /\ Down.gen = kwin.gen /\ ~Down.up
      BY DownTyped
    <3> QED
      BY <1>1, <2>1, <3>1
  <2>2. CASE seen' = 0 /\ UNCHANGED <<kwin, file>>
    BY <1>1, <2>2
  <2> QED
    BY <1>2, <2>1, <2>2
<1>4. file' \in {"none", "live", "orphan"}
  BY <1>1, <1>2 DEF Left
<1>5. Gone'
  BY <1>3 DEF Gone, Known
<1>6. Kept
  BY <1>3 DEF Kept
<1>7. TodoOK' /\ Asked' = "none"
  BY <1>1 DEF TodoOK, Ahead, Asked
<1>8. DoneSawOneCompositor'
  BY <1>1 DEF DoneSawOneCompositor, GateSawOneCompositor, LateSawOneCompositor,
              AdoptionSawOneCompositor
<1> QED
  BY <1>1, <1>3, <1>4, <1>5, <1>6, <1>7, <1>8, MoveStep

(* The sockets are removed, or a place without effect on the host is left. *)
LEMMA QuietStep ==
  ASSUME KWinInv, pc' \in {"write", "prep", "start"}, todo = <<>>,
         pc # "mark", Gone \/ UNCHANGED file, RemoveSockets \/ UNCHANGED host,
         UNCHANGED <<status, todo, sample, gate, by>>, seen' \in {seen, 0}
  PROVE  KWinInv' /\ Kept
<1> USE DEF KWinInv
<1>1. /\ UNCHANGED <<kwin, fatals>> /\ file' \in {"none", file}
  BY DEF RemoveSockets, host
<1>2. /\ kwin \in Compositor /\ file' \in {"none", "live", "orphan"}
      /\ by \in {"none", "adopt", "gate", "late"} /\ todo \in Seq(Queries)
  BY <1>1 DEF TypeOK
<1>3. Kept
  BY <1>1 DEF Kept, Gone
<1>4. TodoOK' /\ Asked' = "none"
  BY DEF TodoOK, Ahead, Asked
<1>5. DoneSawOneCompositor'
  BY DEF DoneSawOneCompositor, GateSawOneCompositor, LateSawOneCompositor,
         AdoptionSawOneCompositor
<1> QED
  BY <1>1, <1>2, <1>3, <1>4, <1>5, MoveStep

LEMMA UnlinkStep ==
  ASSUME KWinInv, Unlink
  PROVE  KWinInv' /\ Kept
<1>1. todo = <<>> /\ Gone
  BY DEF KWinInv, TodoOK, Ahead, Spared, Unlink
<1> QED
  BY <1>1, QuietStep DEF Unlink, Goto, run

LEMMA CleanStaleConfigStep ==
  ASSUME KWinInv, CleanStaleConfig
  PROVE  KWinInv' /\ Kept
<1>1. pc = "protect" /\ todo = <<>> /\ Asked = "none"
  BY DEF CleanStaleConfig, Asked
<1>2. Gone \/ UNCHANGED file
  BY <1>1, Types DEF CleanStaleConfig, KWinInv, Spared, host
<1> QED
  BY <1>1, <1>2, QuietStep DEF CleanStaleConfig, Goto, run

LEMMA ExternalPrepStep ==
  ASSUME KWinInv, ExternalPrep
  PROVE  KWinInv' /\ Kept
<1>1. todo = <<>>
  BY DEF KWinInv, TodoOK, Ahead, ExternalPrep
<1> QED
  BY <1>1, QuietStep DEF ExternalPrep, host

LEMMA FailStep ==
  ASSUME KWinInv, Ends, status' \in {status, "failed", "done"}
  PROVE  KWinInv' /\ Kept
<1>1. status' \in {"running", "failed", "done", "pending"}
  BY DEF KWinInv, TypeOK
<1> QED
  BY <1>1, EndsStep

LEMMA WriteUnitStep ==
  ASSUME KWinInv, WriteUnit
  PROVE  KWinInv' /\ Kept
<1>1. CASE Fail
  BY <1>1, FailStep DEF Fail
<1>2. CASE /\ Probe("protect", <<"active", "pid">>)
           /\ seen' = Pid
           /\ UNCHANGED <<host, status, gate, by>>
  <2> USE DEF KWinInv
  <2>1. <<"active", "pid">> \in Ahead("protect") /\ Asked' = "active" /\ Steady'
    BY <1>2 DEF Ahead, Probe, Asked, Steady
  <2>2. /\ UNCHANGED <<kwin, file, fatals, status, gate, by>> /\ seen' = Pid
        /\ kwin \in Compositor /\ gate \in Gate
        /\ status \in {"pending", "running", "failed", "done"}
    BY <1>2 DEF host, TypeOK
  <2>3. /\ <<"active", "pid">> \in Seq(Queries)
        /\ kwin'.gen >= kwin.gen /\ (kwin'.up => kwin'.gen > 0)
        /\ gate'.pid <= kwin.gen /\ gate'.inv <= kwin.gen
        /\ seen' \in Gens /\ seen' <= kwin.gen
    BY <2>2, Types, PidTyped, ProbesTyped DEF Known
  <2> QED
    BY <1>2, <2>1, <2>2, <2>3, ProbeStep
<1> QED
  BY <1>1, <1>2 DEF WriteUnit

LEMMA LaunchedTyped ==
  ASSUME TypeOK, MayLaunch
  PROVE  /\ Launched \in Compositor /\ Launched.gen = kwin.gen + 1 /\ kwin.gen \in Nat
         /\ ~Launched.old /\ ~kwin.up
<1>1. kwin.gen + 1 \in Gens /\ kwin.gen \in Nat /\ 0 \in 0..Confirms /\ ~kwin.up
  BY KWinAssumption DEF TypeOK, Compositor, MayLaunch, Gens
<1> QED
  BY <1>1 DEF Launched, Off, Compositor

LEMMA StartUnitStep ==
  ASSUME KWinInv, StartUnit
  PROVE  KWinInv' /\ Kept
<1>1. CASE Fail
  BY <1>1, FailStep DEF Fail
<1>2. CASE /\ kwin' = IF MayLaunch THEN Launched ELSE kwin
           /\ Probe("gate", HealthProbe)
           /\ gate' = [NoGate EXCEPT !.budget = Wait]
           /\ UNCHANGED <<file, fatals, status, by, seen>>
  <2> USE DEF KWinInv
  <2>1. HealthProbe \in Ahead("gate") /\ Asked' = "active"
    BY <1>2 DEF Ahead, Probe, Asked, HealthProbe
  <2>2. gate' \in Gate /\ gate'.pid = 0 /\ gate'.inv = 0
    BY <1>2, BlankSample, KWinAssumption DEF NoGate, Gate
  <2>3. kwin' \in Compositor /\ kwin'.gen >= kwin.gen /\ (kwin'.up => kwin'.gen > 0)
    <3>1. CASE MayLaunch
      BY <1>2, <3>1, LaunchedTyped
    <3>2. CASE ~MayLaunch
      BY <1>2, <3>2, Types DEF TypeOK, Known
    <3> QED
      BY <3>1, <3>2
  <2>4. Steady'
    BY <1>2, <2>2, BlankSample DEF Steady, Probe
  <2>5. /\ gate'.pid <= kwin.gen /\ gate'.inv <= kwin.gen /\ seen' <= kwin.gen /\ seen' \in Gens
        /\ HealthProbe \in Seq(Queries) /\ status' \in {"pending", "running", "failed", "done"}
    BY <1>2, <2>2, Types, ProbesTyped DEF Known, TypeOK
  <2> QED
    BY <1>2, <2>1, <2>2, <2>3, <2>4, <2>5, ProbeStep
<1> QED
  BY <1>1, <1>2 DEF StartUnit

(* Counting a sample. *)
LEMMA CountedSound ==
  ASSUME KWinInv, pc = "gate"
  PROVE  /\ Counted \in Gate /\ Counted.extended = gate.extended
         /\ Counted.pid = sample.pid
         /\ Counted.pid <= kwin.gen /\ Counted.inv <= kwin.gen
         /\ ~SameAsLast => Counted.count = 1
         /\ SameAsLast => /\ Counted.pid = gate.pid /\ gate.pid > 0
                          /\ Counted.count <= gate.count + 1
         /\ Counted.count <= Confirms + 1
<1> USE DEF KWinInv
<1>1. gate \in Gate /\ sample \in Sample /\ Confirms \in Nat /\ gate.count \in 0..(Confirms + 1)
  BY KWinAssumption DEF TypeOK, Gate
<1>2. CASE SameAsLast
  <2>1. Counted = [gate EXCEPT !.count = IF @ > Confirms THEN @ ELSE @ + 1]
    BY <1>2 DEF Counted
  <2> QED
    BY <1>1, <1>2, <2>1, Types DEF SameAsLast, Gate, Known
<1>3. CASE ~SameAsLast
  <2>1. Counted = [gate EXCEPT !.count = 1, !.pid = sample.pid, !.inv = sample.inv]
    BY <1>3 DEF Counted
  <2>2. 1 \in 0..(Confirms + 1) /\ 1 <= Confirms + 1
    BY KWinAssumption
  <2>3. Counted \in Gate
    BY <1>1, <2>1, <2>2 DEF Gate, Sample
  <2> QED
    <3>1. /\ Counted.count = 1 /\ Counted.pid = sample.pid /\ Counted.inv = sample.inv
          /\ Counted.extended = gate.extended
      BY <1>1, <2>1 DEF Gate
    <3>2. sample.pid <= kwin.gen /\ sample.inv <= kwin.gen
      BY DEF Known
    <3> QED
      BY <1>3, <2>2, <2>3, <3>1, <3>2
<1> QED
  BY <1>2, <1>3

(* A healthy window: the last sample of one compositor completes it. *)
LEMMA GatePasses ==
  ASSUME KWinInv, pc = "gate", AllGatesPass, gate' = Counted, sample' = sample
  PROVE  GateSawOneCompositor'
<1> USE DEF KWinInv
<1>1. Counted.count > Confirms
  BY DEF AllGatesPass
<1>2. SameAsLast
  BY <1>1, CountedSound, KWinAssumption
<1>3. gate.count >= Confirms
  BY <1>1, <1>2, CountedSound, Types DEF Gate
<1>4. sample.lived + Debt >= Confirms
  BY <1>2, <1>3, Types DEF SameAsLast, Steady, Lived, Debt
<1>5. sample.inv \in {0, sample.pid}
  BY <1>2, Types DEF SameAsLast, Steady, Known
<1>6. gate'.extended = gate.extended
  BY CountedSound
<1> QED
  BY <1>4, <1>5, <1>6 DEF GateSawOneCompositor, Debt

LEMMA TickedSound ==
  ASSUME KWinInv
  PROVE  /\ Ticked \in Compositor /\ Ticked.gen = kwin.gen /\ Ticked.up = kwin.up
         /\ kwin.up => Ticked.ticks \in {kwin.ticks + 1, Confirms}
<1>1. kwin \in Compositor /\ kwin.ticks \in 0..Confirms /\ Confirms \in Nat
  BY KWinAssumption DEF KWinInv, TypeOK, Compositor
<1>2. CASE kwin.up /\ kwin.ticks < Confirms
  <2>1. kwin.ticks + 1 \in 0..Confirms
    BY <1>1, <1>2
  <2> QED
    BY <1>1, <1>2, <2>1 DEF Ticked, Compositor
<1>3. CASE ~(kwin.up /\ kwin.ticks < Confirms)
  BY <1>1, <1>3 DEF Ticked
<1> QED
  BY <1>2, <1>3

(* The window goes on, a tick or an extension later. *)
LEMMA StaysSteady ==
  ASSUME KWinInv, pc = "gate", sample' = Blank,
         gate'.count = Counted.count, gate'.pid = Counted.pid, gate'.extended \in BOOLEAN,
         kwin'.gen = kwin.gen, kwin'.up = kwin.up, kwin'.ticks \in Nat,
         \/ /\ gate'.extended = gate.extended
            /\ kwin.up => kwin'.ticks \in {kwin.ticks + 1, Confirms}
         \/ gate'.extended /\ ~gate.extended /\ kwin'.ticks = kwin.ticks
  PROVE  Steady'
<1> USE DEF KWinInv
<1>1. SUFFICES ASSUME kwin.up, gate'.pid > 0, kwin.gen = gate'.pid
               PROVE  kwin'.ticks + Debt' >= gate'.count \/ kwin'.ticks + Debt' >= Confirms
  BY BlankSample DEF Steady, Lived
<1>2. gate'.count \in Nat /\ Debt' \in {0, 1}
  BY CountedSound DEF Gate, Debt
<1>3. kwin'.ticks + Debt' >= kwin.ticks + Debt + 1 \/ kwin'.ticks + Debt' >= Confirms
  BY <1>1, Types DEF Debt
<1>4. CASE SameAsLast
  <2>1. gate.pid > 0 /\ kwin.gen = gate.pid /\ gate'.count <= gate.count + 1
    BY <1>1, <1>4, CountedSound
  <2>2. kwin.ticks + Debt >= gate.count \/ kwin.ticks + Debt >= Confirms
    BY <1>1, <2>1 DEF Steady, Lived
  <2>3. Debt \in {0, 1}
    BY DEF Debt
  <2> QED
    BY <1>2, <1>3, <2>1, <2>2, <2>3, Types
<1>5. CASE ~SameAsLast
  <2>1. gate'.count = 1 /\ Debt \in {0, 1}
    BY <1>5, CountedSound DEF Debt
  <2> QED
    BY <1>2, <1>3, <2>1, Types
<1> QED
  BY <1>4, <1>5

LEMMA GatePollStep ==
  ASSUME KWinInv, GatePoll
  PROVE  KWinInv' /\ Kept
<1> USE DEF KWinInv
<1>1. /\ pc = "gate" /\ todo = <<>> /\ UNCHANGED <<file, fatals, status, seen>>
      /\ kwin \in Compositor /\ seen \in Gens /\ file \in {"none", "live", "orphan"}
      /\ status \in {"pending", "running", "failed", "done"}
      /\ by \in {"none", "adopt", "gate", "late"}
      /\ seen <= kwin.gen /\ kwin.gen \in Nat /\ kwin.ticks \in Nat
      /\ kwin.up => kwin.gen > 0
  BY Types DEF GatePoll, TypeOK, Known
<1>2. CASE AllGatesPass
  <2>1. /\ pc' = "mark" /\ by' = "gate" /\ gate' = Counted
        /\ UNCHANGED <<kwin, todo, sample>>
    BY <1>2 DEF GatePoll
  <2>2. GateSawOneCompositor'
    BY <1>1, <1>2, <2>1, GatePasses
  <2>3. DoneSawOneCompositor' /\ Kept
    BY <1>1, <2>1, <2>2
       DEF DoneSawOneCompositor, LateSawOneCompositor, AdoptionSawOneCompositor, Kept
  <2>4. TypeOK'
    BY <1>1, <2>1, CountedSound DEF TypeOK, Place
  <2>5. TodoOK' /\ Asked' = "none"
    BY <1>1, <2>1 DEF TodoOK, Ahead, Asked
  <2>6. Known'
    BY <1>1, <2>1, <2>5, CountedSound DEF Known
  <2>7. OldOne' /\ Steady' /\ Spared'
    BY <2>1 DEF OldOne, Steady, Spared
  <2> QED
    BY <2>3, <2>4, <2>5, <2>6, <2>7
<1>3. CASE /\ kwin' \in {Ticked, kwin} /\ Probe("gate", HealthProbe)
           /\ \/ kwin' = Ticked /\ gate' = [Counted EXCEPT !.budget = @ - 1] /\ gate.budget > 0
              \/ /\ kwin' = kwin /\ ~gate.extended
                 /\ gate' = [Counted EXCEPT !.budget = Extension, !.extended = TRUE]
           /\ UNCHANGED by
  <2>1. HealthProbe \in Ahead("gate") /\ Asked' = "active" /\ sample' = Blank
    BY <1>3 DEF Ahead, Probe, Asked, HealthProbe
  <2>2. Counted \in Gate /\ Counted.budget = gate.budget /\ gate.budget \in Nat
    BY <1>1, CountedSound DEF Counted, TypeOK, Gate
  <2>3. /\ gate' \in Gate /\ gate'.pid = Counted.pid /\ gate'.inv = Counted.inv
        /\ gate'.count = Counted.count /\ gate'.extended \in BOOLEAN
        /\ \/ gate'.extended = Counted.extended /\ kwin' = Ticked
           \/ gate'.extended /\ ~gate.extended /\ kwin' = kwin
    <3>1. CASE /\ kwin' = Ticked /\ gate.budget > 0
               /\ gate' = [Counted EXCEPT !.budget = @ - 1]
      <4>1. Counted.budget - 1 \in Nat
        BY <2>2, <3>1
      <4> QED
        BY <2>2, <3>1, <4>1 DEF Gate
    <3>2. CASE /\ kwin' = kwin /\ ~gate.extended
               /\ gate' = [Counted EXCEPT !.budget = Extension, !.extended = TRUE]
      BY <2>2, <3>2, KWinAssumption DEF Gate
    <3> QED
      BY <1>3, <3>1, <3>2
  <2>4. /\ kwin' \in Compositor /\ kwin'.gen = kwin.gen /\ kwin'.up = kwin.up
        /\ kwin'.ticks \in Nat
    BY <1>1, <1>3, TickedSound, KWinAssumption DEF Compositor
  <2>5. Steady'
    BY <1>1, <2>1, <2>3, <2>4, StaysSteady, TickedSound, CountedSound
  <2>6. gate'.pid <= kwin.gen /\ gate'.inv <= kwin.gen
    BY <1>1, <2>3, CountedSound
  <2> QED
    BY <1>1, <1>3, <2>1, <2>3, <2>4, <2>5, <2>6, ProbeStep, ProbesTyped
<1>4. CASE /\ Probe("late", LateProbe) /\ gate' = [NoGate EXCEPT !.budget = Grace]
           /\ kwin' = [kwin EXCEPT !.ticks = 0] /\ UNCHANGED by
  <2>1. LateProbe \in Ahead("late") /\ Asked' = "active" /\ Steady'
    BY <1>4 DEF Ahead, Probe, Asked, LateProbe, Steady
  <2>2. gate' \in Gate /\ gate'.pid = 0 /\ gate'.inv = 0
    BY <1>4, BlankSample, KWinAssumption DEF NoGate, Gate
  <2>3. kwin' \in Compositor /\ kwin'.gen = kwin.gen /\ kwin'.up = kwin.up
    BY <1>1, <1>4, KWinAssumption DEF Compositor
  <2>4. /\ gate'.pid <= kwin.gen /\ gate'.inv <= kwin.gen /\ kwin'.gen >= kwin.gen
        /\ kwin'.up => kwin'.gen > 0
    BY <1>1, <2>2, <2>3
  <2> QED
    BY <1>1, <1>4, <2>1, <2>2, <2>3, <2>4, ProbeStep, ProbesTyped
<1> QED
  BY <1>2, <1>3, <1>4, Zenon DEF GatePoll, MayExtend

LEMMA RejectedStep ==
  ASSUME KWinInv, Rejected
  PROVE  KWinInv' /\ Kept
<1>1. CASE Fail
  BY <1>1, FailStep DEF Fail
<1>2. CASE /\ gate.budget > 0 /\ gate' = [gate EXCEPT !.budget = @ - 1]
           /\ Probe("late", LateProbe)
           /\ UNCHANGED <<host, status, by, seen>>
  <2> USE DEF KWinInv
  <2>1. /\ UNCHANGED <<kwin, file, fatals, status, by, seen>> /\ kwin \in Compositor
        /\ seen \in Gens /\ status \in {"pending", "running", "failed", "done"}
    BY <1>2 DEF host, TypeOK
  <2>2. LateProbe \in Ahead("late") /\ Asked' = "active" /\ Steady'
    BY <1>2 DEF Ahead, Probe, Asked, LateProbe, Steady
  <2>3. gate' \in Gate /\ gate'.pid = gate.pid /\ gate'.inv = gate.inv
    <3>1. gate \in Gate /\ gate.budget - 1 \in Nat
      BY <1>2 DEF TypeOK, Gate
    <3> QED
      BY <1>2, <3>1 DEF Gate
  <2>4. /\ gate'.pid <= kwin.gen /\ gate'.inv <= kwin.gen /\ kwin'.gen >= kwin.gen
        /\ (kwin'.up => kwin'.gen > 0) /\ seen' <= kwin.gen
    BY <2>1, <2>3, Types DEF Known
  <2> QED
    BY <1>2, <2>1, <2>2, <2>3, <2>4, ProbeStep, ProbesTyped
<1> QED
  BY <1>1, <1>2 DEF Rejected

(* What was sampled is kept for the next questions. *)
LEMMA ContinueStep ==
  ASSUME KWinInv, NEW place \in {"scope", "verify"}, NEW queries, Continue(place, queries),
         queries \in Ahead(place), queries \in Seq(Queries),
         Asked' \notin {"active", "pid", "socket"},
         place = "scope" => sample.inv = 0 /\ sample.again = 0,
         Asked' = "inv" => place = "scope"
  PROVE  KWinInv' /\ Kept
<1> USE DEF KWinInv
<1>1. /\ pc' = place /\ todo' = queries
      /\ UNCHANGED <<kwin, file, fatals, status, sample, gate, by, seen>>
      /\ kwin \in Compositor /\ file \in {"none", "live", "orphan"}
      /\ by \in {"none", "adopt", "gate", "late"}
  BY DEF Continue, host, TypeOK
<1>2. TodoOK'
  BY <1>1 DEF TodoOK
<1>3. DoneSawOneCompositor' /\ Kept
  BY <1>1 DEF DoneSawOneCompositor, GateSawOneCompositor, LateSawOneCompositor,
              AdoptionSawOneCompositor, Kept
<1> QED
  BY <1>1, <1>2, <1>3, MoveStep

LEMMA LateStep ==
  ASSUME KWinInv, Late
  PROVE  KWinInv' /\ Kept
<1>1. CASE Rejected
  BY <1>1, RejectedStep
<1>2. CASE Continue("scope", <<"inv", "journal">>)
  <2>1. <<"inv", "journal">> \in Ahead("scope") /\ Asked' = "inv"
    BY <1>2 DEF Ahead, Continue, Asked
  <2>2. sample.inv = 0 /\ sample.again = 0
    BY DEF Late, KWinInv, Known
  <2> QED
    BY <1>2, <2>1, <2>2, ContinueStep, ProbesTyped
<1> QED
  BY <1>1, <1>2 DEF Late

LEMMA LateScopeStep ==
  ASSUME KWinInv, LateScope
  PROVE  KWinInv' /\ Kept
<1>1. CASE Rejected
  BY <1>1, RejectedStep
<1>2. CASE Continue("verify", <<"again">>)
  <2>1. <<"again">> \in Ahead("verify") /\ Asked' = "again"
    BY <1>2 DEF Ahead, Continue, Asked
  <2> QED
    BY <1>2, <2>1, ContinueStep, ProbesTyped
<1> QED
  BY <1>1, <1>2 DEF LateScope

LEMMA LateVerifyStep ==
  ASSUME KWinInv, LateVerify
  PROVE  KWinInv' /\ Kept
<1>1. CASE Rejected
  BY <1>1, RejectedStep
<1>2. CASE /\ SamePid /\ pc' = "mark" /\ by' = "late"
           /\ UNCHANGED <<host, status, todo, sample, gate, seen>>
  <2> USE DEF KWinInv
  <2>1. /\ UNCHANGED <<kwin, file, fatals>> /\ todo = <<>>
        /\ kwin \in Compositor /\ file \in {"none", "live", "orphan"} /\ todo \in Seq(Queries)
    BY <1>2 DEF LateVerify, host, TypeOK
  <2>2. sample.inv \in {0, sample.pid}
    BY <1>2, Types DEF SamePid, Known
  <2>3. DoneSawOneCompositor' /\ Kept
    BY <1>2, <2>1, <2>2 DEF DoneSawOneCompositor, GateSawOneCompositor,
       LateSawOneCompositor, AdoptionSawOneCompositor, Kept
  <2>4. TodoOK' /\ Asked' = "none"
    BY <1>2, <2>1 DEF TodoOK, Ahead, Asked
  <2> QED
    BY <1>2, <2>1, <2>3, <2>4, MoveStep
<1> QED
  BY <1>1, <1>2 DEF LateVerify

(* What the host does to the compositor. *)
LEMMA CompositorStep ==
  ASSUME KWinInv, Bind \/ Seated \/ Age \/ Crash \/ StartedByOther
  PROVE  /\ kwin' \in Compositor /\ file' \in {"none", "live", "orphan"}
         /\ kwin'.gen >= kwin.gen /\ (kwin'.up => kwin'.gen > 0)
         /\ kwin'.up /\ kwin'.gen = kwin.gen => kwin.up /\ kwin'.ticks = kwin.ticks
         /\ kwin'.up /\ kwin'.old => kwin'.gen = kwin.gen /\ (kwin.old \/ pc = "idle")
         /\ (file = "live" /\ file' = "none") => ~kwin'.up
<1> USE DEF KWinInv
<1>1. kwin \in Compositor /\ file \in {"none", "live", "orphan"} /\ kwin.gen \in Nat
  BY Types DEF TypeOK
<1>2. CASE Bind \/ Seated \/ Age
  <2>1. /\ kwin' \in Compositor /\ kwin'.gen = kwin.gen /\ kwin'.up /\ kwin.up
        /\ kwin'.ticks = kwin.ticks /\ (kwin'.old => kwin.old \/ pc = "idle")
        /\ file' \in {file, "live"}
    <3>1. CASE Bind
      BY <1>1, <3>1 DEF Bind, Compositor
    <3>2. CASE Seated
      BY <1>1, <3>2 DEF Seated, Compositor
    <3>3. CASE Age
      BY <1>1, <3>3 DEF Age, Compositor
    <3> QED
      BY <1>2, <3>1, <3>2, <3>3
  <2>2. kwin.gen > 0
    BY <2>1 DEF Known
  <2> QED
    BY <1>1, <2>1, <2>2
<1>3. CASE Crash
  BY <1>1, <1>3, DownTyped DEF Crash
<1>4. CASE StartedByOther
  BY <1>1, <1>4, LaunchedTyped DEF StartedByOther
<1> QED
  BY <1>2, <1>3, <1>4

LEMMA HostStep ==
  ASSUME KWinInv, Host
  PROVE  KWinInv' /\ Kept
<1> USE DEF KWinInv
<1>1. UNCHANGED <<status, pc, todo, sample, gate, by, seen>>
  BY DEF Host, run
<1>2. /\ kwin' \in Compositor /\ file' \in {"none", "live", "orphan"}
      /\ kwin'.gen >= kwin.gen /\ (kwin'.up => kwin'.gen > 0)
      /\ kwin'.up /\ kwin'.gen = kwin.gen => kwin.up /\ kwin'.ticks = kwin.ticks
      /\ kwin'.up /\ kwin'.old => kwin'.gen = kwin.gen /\ (kwin.old \/ pc = "idle")
      /\ (file = "live" /\ file' = "none") => ~kwin'.up
  <2>1. CASE Bind \/ Seated \/ Age \/ Crash \/ StartedByOther
    BY <2>1, CompositorStep
  <2>2. CASE UNCHANGED <<kwin, file>>
    BY <2>2, Types DEF TypeOK, Known
  <2> QED
    BY <2>1, <2>2 DEF Host
<1>3. fatals' \subseteq Gens
  BY DEF Host, Log, TypeOK, Compositor
<1>4. kwin'.gen \in Nat /\ kwin.gen \in Nat
  BY <1>2, Types DEF Compositor, Gens
<1>5. TypeOK'
  BY <1>1, <1>2, <1>3 DEF TypeOK
<1>6. TodoOK' /\ Asked' = Asked
  BY <1>1 DEF TodoOK, Asked
<1>7. Known'
  BY <1>1, <1>2, <1>4, <1>6, Types DEF Known
<1>8. OldOne'
  BY <1>1, <1>2, <1>4, Types DEF OldOne, Known
<1>9. Steady'
  BY <1>1, <1>2, <1>4, Types DEF Steady, Known, Lived, Debt
<1>10. Spared'
  BY <1>1, <1>2, <1>4, <1>6, Types DEF Spared, Gone, Known
<1>11. DoneSawOneCompositor' /\ Kept
  BY <1>1, <1>2 DEF DoneSawOneCompositor, GateSawOneCompositor, LateSawOneCompositor,
     AdoptionSawOneCompositor, Kept
<1> QED
  BY <1>5, <1>6, <1>7, <1>8, <1>9, <1>10, <1>11

LEMMA KWinStep ==
  ASSUME KWinInv, [Next]_vars
  PROVE  KWinInv' /\ Kept
<1>1. CASE UNCHANGED vars
  BY <1>1 DEF vars, host, run, KWinInv, TypeOK, TodoOK, Known, OldOne, Steady, Spared,
     DoneSawOneCompositor, GateSawOneCompositor, LateSawOneCompositor,
     AdoptionSawOneCompositor, Asked, Lived, Debt, Gone, Kept
<1>2. CASE Begin
  BY <1>2, BeginStep
<1>3. CASE Phase
  <2>1. CASE Mark
    BY <2>1, FailStep DEF Mark
  <2> QED
    BY <1>3, <2>1, QueryStep, AdoptStep, JudgeStep, StopUnitStep, UnlinkStep, WriteUnitStep,
       CleanStaleConfigStep, ExternalPrepStep, StartUnitStep, GatePollStep, LateStep,
       LateScopeStep, LateVerifyStep DEF Phase
<1>4. CASE Killed
  BY <1>4, FailStep DEF Killed
<1>5. CASE Host
  BY <1>5, HostStep
<1> QED
  BY <1>1, <1>2, <1>3, <1>4, <1>5 DEF Next
-----------------------------------------------------------------------------
LEMMA KWinInvariant == Spec => []KWinInv
<1>1. KWinInv /\ [Next]_vars => KWinInv'
  BY KWinStep
<1> QED
  BY <1>1, KWinInit, PTL DEF Spec

(* Types, for any number of compositors and any deadlines. *)
THEOREM SessionTypeCorrect == Spec => []TypeOK
<1>1. KWinInv => TypeOK
  BY DEF KWinInv
<1> QED
  BY <1>1, KWinInvariant, PTL

(* Whatever path marks the phase done, what it trusted was read from one    *)
(* compositor, whatever restarts and times out between two queries          *)
(* (kwin_session_prep.go:1073, kwin_session.go:1118).                       *)
THEOREM OneCompositorSampled == Spec => []DoneSawOneCompositor
<1>1. KWinInv => DoneSawOneCompositor
  BY DEF KWinInv
<1> QED
  BY <1>1, KWinInvariant, PTL

(* No step of the phase takes the socket from a compositor that was up when *)
(* the run asked for one and still is (kwin_session.go:875).                *)
THEOREM SocketIsKept == Spec => SocketKept
<1>1. KWinInv /\ [Next]_vars => [Kept]_vars
  BY KWinStep
<1>2. Spec => [][Kept]_vars
  BY <1>1, KWinInvariant, PTL DEF Spec
<1> QED
  BY <1>2 DEF SocketKept, Kept
-----------------------------------------------------------------------------
(* No probe has more than six queries. *)
LEMMA ProbeLength ==
  ASSUME NEW place, NEW probe \in Ahead(place)
  PROVE  Len(probe) \in 0..6
<1>1. CASE place \in {"adopt", "judge", "protect"}
  BY <1>1 DEF Ahead
<1>2. CASE place = "gate"
  BY <1>2 DEF Ahead
<1>3. CASE place \in {"late", "scope", "verify"}
  BY <1>3 DEF Ahead
<1>4. CASE place \notin {"adopt", "judge", "protect", "gate", "late", "scope", "verify"}
  <2>1. probe = <<>>
    BY <1>4 DEF Ahead
  <2> QED
    BY <2>1
<1> QED
  BY <1>1, <1>2, <1>3, <1>4

LEMMA Deadlines ==
  /\ Lateness \in Nat /\ Lateness = 3 * Grace + 4
  /\ Start \in Nat /\ Start = Lateness + Wait + Extension + 3
  /\ Wait \in Nat /\ Extension \in Nat /\ Grace \in Nat
  BY KWinAssumption DEF Lateness, Start

LEMMA PlacesTyped ==
  ASSUME KWinInv
  PROVE  PlacesAhead \in Nat /\ gate.budget \in Nat /\ gate.extended \in BOOLEAN
<1>1. pc \in Place /\ gate.budget \in Nat /\ gate.extended \in BOOLEAN
  BY DEF KWinInv, TypeOK, Gate
<1> QED
  BY <1>1, Deadlines DEF PlacesAhead, Place

(* One place less is worth any probe. *)
LEMMA Closer ==
  ASSUME KWinInv, KWinInv', PlacesAhead' \in 0..(PlacesAhead - 1)
  PROVE  StepsAhead' \in 0..(StepsAhead - 1)
<1>1. Len(todo) \in 0..6 /\ Len(todo') \in 0..6
  BY ProbeLength DEF KWinInv, TodoOK
<1>2. PlacesAhead \in Nat
  BY PlacesTyped
<1>3. \A m \in Nat, l \in 0..6, k \in 0..6 :
        \A n \in 0..(m - 1) : 7 * n + k \in 0..((7 * m + l) - 1)
  OBVIOUS
<1>4. 7 * PlacesAhead' + Len(todo') \in 0..((7 * PlacesAhead + Len(todo)) - 1)
  BY <1>1, <1>2, <1>3, Zenon
<1> QED
  BY <1>4 DEF StepsAhead

LEMMA QueryIsAStep ==
  ASSUME KWinInv, Query
  PROVE  StepsAhead' \in 0..(StepsAhead - 1)
<1>1. todo # <<>> /\ todo' = Tail(todo) /\ todo \in Seq(Queries)
  BY DEF Query, KWinInv, TypeOK
<1>2. Len(todo) \in Nat /\ Len(todo') \in Nat /\ Len(todo') = Len(todo) - 1
  BY <1>1
<1>3. PlacesAhead' = PlacesAhead /\ PlacesAhead \in Nat
  BY PlacesTyped DEF Query, PlacesAhead
<1> HIDE DEF PlacesAhead
<1> QED
  BY <1>2, <1>3 DEF StepsAhead

(* Everything up to the gate poll goes through Run once. *)
LEMMA HeadMoves ==
  ASSUME KWinInv,
         Adopt \/ Judge \/ StopUnit \/ Unlink \/ WriteUnit \/ CleanStaleConfig
           \/ ExternalPrep \/ StartUnit
  PROVE  PlacesAhead' \in 0..(PlacesAhead - 1)
<1>1. CASE Adopt
  <2>1. pc = "adopt" /\ pc' \in {"mark", "judge", "write"}
    BY <1>1 DEF Adopt, Probe
  <2>2. PlacesAhead = Start + 8 /\ PlacesAhead' \in {1, Start + 7, Start + 3}
    BY <2>1 DEF PlacesAhead
  <2> QED
    BY <2>2, Deadlines
<1>2. CASE Judge
  <2>1. pc = "judge" /\ pc' \in {"stop", "write"}
    BY <1>2 DEF Judge, Probe
  <2>2. PlacesAhead = Start + 7 /\ PlacesAhead' \in {Start + 6, Start + 3}
    BY <2>1 DEF PlacesAhead
  <2> QED
    BY <2>2, Deadlines
<1>3. CASE StopUnit
  BY <1>3, Deadlines DEF StopUnit, PlacesAhead
<1>4. CASE Unlink \/ CleanStaleConfig
  <2>1. \/ pc = "unlink" /\ pc' = "write"
        \/ pc = "protect" /\ pc' = "prep"
    BY <1>4 DEF Unlink, CleanStaleConfig, Goto
  <2>2. \/ PlacesAhead = Start + 4 /\ PlacesAhead' = Start + 3
        \/ PlacesAhead = Start + 2 /\ PlacesAhead' = Start + 1
    BY <2>1 DEF PlacesAhead
  <2> QED
    BY <2>2, Deadlines
<1>5. CASE WriteUnit
  <2>1. pc = "write" /\ pc' \in {"protect", "idle"}
    BY <1>5 DEF WriteUnit, Probe, Fail, Ends
  <2>2. PlacesAhead = Start + 3 /\ PlacesAhead' \in {Start + 2, 0}
    BY <2>1 DEF PlacesAhead
  <2> QED
    BY <2>2, Deadlines
<1>6. CASE ExternalPrep
  BY <1>6, Deadlines DEF ExternalPrep, PlacesAhead
<1>7. CASE StartUnit
  <2>1. /\ pc = "start"
        /\ \/ pc' = "idle"
           \/ pc' = "gate" /\ gate' = [NoGate EXCEPT !.budget = Wait]
    BY <1>7 DEF StartUnit, Probe, Fail, Ends
  <2>2. pc' = "gate" => gate'.budget = Wait /\ gate'.extended = FALSE
    BY <2>1 DEF NoGate
  <2>3. /\ PlacesAhead = Start
        /\ PlacesAhead' \in {0, Lateness + 1 + Wait + (Extension + 1)}
    BY <2>1, <2>2 DEF PlacesAhead
  <2> QED
    BY <2>3, Deadlines
<1> QED
  BY <1>1, <1>2, <1>3, <1>4, <1>5, <1>6, <1>7

(* A turn of a window costs one of its turns, the extension is granted      *)
(* once, and late adoption comes after both.                                *)
LEMMA GateMoves ==
  ASSUME KWinInv, GatePoll
  PROVE  PlacesAhead' \in 0..(PlacesAhead - 1)
<1>1. pc = "gate" /\ gate \in Gate
  BY DEF GatePoll, KWinInv, TypeOK
<1>2. Counted.budget = gate.budget /\ Counted.extended = gate.extended /\ Counted \in Gate
  BY <1>1, CountedSound DEF Counted, Gate
<1>3. gate.budget \in Nat /\ gate.extended \in BOOLEAN
  BY PlacesTyped
<1>4. CASE AllGatesPass
  <2>1. pc' = "mark"
    BY <1>4 DEF GatePoll
  <2> QED
    BY <1>1, <1>3, <2>1, Deadlines DEF PlacesAhead
<1>5. CASE ~AllGatesPass /\ gate.budget > 0
  <2>1. pc' = "gate" /\ gate' = [Counted EXCEPT !.budget = @ - 1]
    BY <1>5 DEF GatePoll, Probe
  <2>2. gate'.budget = gate.budget - 1 /\ gate'.extended = gate.extended
    BY <1>2, <2>1 DEF Gate
  <2> QED
    BY <1>1, <1>3, <1>5, <2>1, <2>2, Deadlines DEF PlacesAhead
<1>6. CASE ~AllGatesPass /\ ~(gate.budget > 0) /\ MayExtend
  <2>1. /\ pc' = "gate" /\ ~gate.extended
        /\ gate' = [Counted EXCEPT !.budget = Extension, !.extended = TRUE]
    BY <1>6 DEF GatePoll, Probe, MayExtend
  <2>2. gate'.budget = Extension /\ gate'.extended = TRUE
    BY <1>2, <2>1 DEF Gate
  <2> QED
    BY <1>1, <1>3, <2>1, <2>2, Deadlines DEF PlacesAhead
<1>7. CASE ~AllGatesPass /\ ~(gate.budget > 0) /\ ~MayExtend
  <2>1. pc' = "late" /\ gate'.budget = Grace
    BY <1>7 DEF GatePoll, Probe, NoGate
  <2> QED
    BY <1>1, <1>3, <2>1, Deadlines DEF PlacesAhead
<1> QED
  BY <1>4, <1>5, <1>6, <1>7

LEMMA LateMoves ==
  ASSUME KWinInv, Late \/ LateScope \/ LateVerify \/ Mark
  PROVE  PlacesAhead' \in 0..(PlacesAhead - 1)
<1>1. gate \in Gate /\ gate.budget \in Nat
  BY PlacesTyped DEF KWinInv, TypeOK
<1>2. ASSUME Rejected, pc \in {"late", "scope", "verify"}
      PROVE  PlacesAhead' \in 0..(PlacesAhead - 1)
  <2>1. CASE gate.budget = 0 /\ Fail
    BY <1>1, <1>2, <2>1 DEF Fail, Ends, PlacesAhead
  <2>2. CASE gate.budget > 0 /\ gate' = [gate EXCEPT !.budget = @ - 1] /\ pc' = "late"
    <3>1. gate'.budget = gate.budget - 1
      BY <1>1, <2>2 DEF Gate
    <3> QED
      BY <1>1, <1>2, <2>2, <3>1 DEF PlacesAhead
  <2> QED
    BY <1>2, <2>1, <2>2 DEF Rejected, Probe
<1>3. CASE Late
  <2>1. CASE Adoptable(FALSE)
    <3>1. pc = "late" /\ pc' = "scope" /\ gate' = gate
      BY <1>3, <2>1 DEF Late, Continue
    <3> QED
      BY <1>1, <3>1 DEF PlacesAhead
  <2> QED
    BY <1>2, <1>3, <2>1 DEF Late
<1>4. CASE LateScope
  <2>1. CASE ~sample.journal
    <3>1. pc = "scope" /\ pc' = "verify" /\ gate' = gate
      BY <1>4, <2>1 DEF LateScope, Continue
    <3> QED
      BY <1>1, <3>1 DEF PlacesAhead
  <2> QED
    BY <1>2, <1>4, <2>1 DEF LateScope
<1>5. CASE LateVerify
  <2>1. CASE SamePid
    <3>1. pc = "verify" /\ pc' = "mark"
      BY <1>5, <2>1 DEF LateVerify
    <3> QED
      BY <1>1, <3>1 DEF PlacesAhead
  <2> QED
    BY <1>2, <1>5, <2>1 DEF LateVerify
<1>6. CASE Mark
  BY <1>6 DEF Mark, Ends, PlacesAhead
<1> QED
  BY <1>3, <1>4, <1>5, <1>6

(* Whatever the compositor and the queries do, a run asks and waits no more *)
(* often than its deadlines allow (kwin_session_prep.go:861).               *)
THEOREM RunsAreBounded == Spec => RunIsBounded
<1> DEFINE Closing == Phase => StepsAhead' \in 0..(StepsAhead - 1)
<1>1. KWinInv /\ KWinInv' /\ [Next]_vars => [Closing]_vars
  <2> SUFFICES ASSUME KWinInv, KWinInv', Phase PROVE StepsAhead' \in 0..(StepsAhead - 1)
    OBVIOUS
  <2>1. CASE Query
    BY <2>1, QueryIsAStep
  <2>2. CASE ~Query
    BY <2>2, HeadMoves, GateMoves, LateMoves, Closer DEF Phase
  <2> QED
    BY <2>1, <2>2
<1> HIDE DEF Closing
<1>2. Spec => [][Closing]_vars
  BY <1>1, KWinInvariant, PTL DEF Spec
<1> QED
  BY <1>2 DEF RunIsBounded, Closing
-----------------------------------------------------------------------------
(* The phase as the pipeline sees it. *)
WorksOn == pc' # "idle" /\ status' = status
EndsRun == pc' = "idle" /\ status' \in {"done", "failed"}

LEMMA PhaseGoesOn == Phase /\ ~Query => pc # "idle" /\ (WorksOn \/ EndsRun)
<1>1. Fail => EndsRun
  BY DEF Fail, Ends, EndsRun
<1>2. ASSUME Rejected, pc # "idle" PROVE WorksOn \/ EndsRun
  BY <1>1, <1>2 DEF Rejected, Probe, WorksOn
<1>3. Adopt \/ Judge \/ StopUnit \/ Unlink \/ CleanStaleConfig \/ ExternalPrep \/ GatePoll
        => pc # "idle" /\ WorksOn
  BY DEF Adopt, Judge, StopUnit, Unlink, CleanStaleConfig, ExternalPrep, GatePoll, Goto, Probe,
         WorksOn
<1>4. WriteUnit \/ StartUnit => pc # "idle" /\ (WorksOn \/ EndsRun)
  BY <1>1 DEF WriteUnit, StartUnit, Probe, WorksOn
<1>5. Late \/ LateScope \/ LateVerify => pc # "idle" /\ (WorksOn \/ EndsRun)
  BY <1>2 DEF Late, LateScope, LateVerify, Continue, WorksOn
<1>6. Mark => pc # "idle" /\ EndsRun
  BY DEF Mark, Ends, EndsRun
<1> QED
  BY <1>3, <1>4, <1>5, <1>6 DEF Phase

LEMMA LifeStep == KWinInv /\ [Next]_vars => [Life!Next]_(Life!lifeVars)
<1> USE DEF LifeAt, LifeStatus, Life!lifeVars
<1>1. ASSUME KWinInv, Begin PROVE Life!Enter
  <2>1. status \notin {"done", "skipped"}
    BY <1>1 DEF KWinInv, TypeOK, Begin
  <2> QED
    BY <1>1, <2>1 DEF Begin, Probe, Life!Enter, Life!Due
<1>2. ASSUME Phase PROVE Life!End \/ UNCHANGED Life!lifeVars
  <2>1. CASE Query
    BY <2>1 DEF Query
  <2>2. CASE ~Query /\ WorksOn
    BY <1>2, <2>2, PhaseGoesOn DEF WorksOn
  <2>3. CASE ~Query /\ EndsRun
    <3>1. LifeStatus' \in Table!KWinSession \ {"reboot"}
      BY <2>3 DEF EndsRun, Table!KWinSession, Table!DoneOrFatal, Table!failPhase
    <3>2. LifeAt = "in" /\ LifeAt' = "out"
      BY <1>2, <2>3, PhaseGoesOn DEF EndsRun
    <3> QED
      BY <3>1, <3>2 DEF Life!End, Life!Record
  <2> QED
    BY <1>2, <2>1, <2>2, <2>3, PhaseGoesOn
<1>3. ASSUME Killed PROVE Life!Leave
  BY <1>3 DEF Killed, Ends, Life!Leave, Life!Record
<1>4. ASSUME Host \/ UNCHANGED vars PROVE UNCHANGED Life!lifeVars
  BY <1>4 DEF Host, vars
<1> QED
  BY <1>1, <1>2, <1>3, <1>4 DEF Next, Life!Next

(* The session phase is what Deploy takes it for: begun when it is due,     *)
(* marked running first, ended as PhaseTable has it, and done for good.     *)
THEOREM SessionLivesAsTabled == Spec => LivesAsTabled
<1>1. Init => Life!Init
  BY DEF Init, Life!Init, LifeAt, LifeStatus
<1> QED
  BY <1>1, LifeStep, KWinInvariant, PTL DEF Spec, LivesAsTabled, Life!Spec
=============================================================================
