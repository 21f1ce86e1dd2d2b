----------------------------- MODULE KWinSession -----------------------------
(***************************************************************************)
(* The kwin_session phase on the real-VT unit (kwin_session.go,            *)
(* kwin_session_prep.go), one query of systemctl, journalctl or loginctl a *)
(* step, beside a compositor that starts, binds its socket, gets its seat, *)
(* prints and dies when it likes.  A compositor is named by its generation *)
(* which stands for both its MainPID and its InvocationID.                 *)
(***************************************************************************)
EXTENDS Naturals, Sequences

CONSTANTS
  Generations,   \* bound: how many compositors are started, an earlier one
                 \* that the run finds included
  Confirms,      \* gate stability / probe interval (10 s / 2 s)
  Wait,          \* turns of the gate poll (360 s / 2 s)
  Extension,     \* turns of its one extension (120 s / 2 s); 0: none
  Grace,         \* turns of late adoption (120 s / 2 s)
  QueriesFail,   \* whether a query may fail or time out
  LeaderShown    \* whether loginctl lists the leader of a session

ASSUME KWinAssumption ==
  /\ Generations \in Nat \ {0} /\ Confirms \in Nat \ {0}
  /\ Wait \in Nat /\ Extension \in Nat /\ Grace \in Nat
  /\ QueriesFail \in BOOLEAN /\ LeaderShown \in BOOLEAN

VARIABLES
  kwin,      \* the compositor of the unit that is, or was last, running
  file,      \* /run/user/<uid>/wayland-0: none, bound by kwin, or an orphan
  fatals,    \* generations with a fatal line in the last 200 of the journal
  status,    \* the entry of kwin_session in state.json
  pc,        \* where Run is
  todo,      \* queries of the current probe that are still ahead
  sample,    \* what its answers were
  gate,      \* kwinHealthProbeState (consecutive samples, their pid, their
             \* id) and the turns until the deadline of the current window
  by,        \* history: which path found a healthy session
  seen       \* history, until the unit is started: the generation that was up
             \* when Run set out to make room for its own; 0 for none, and
             \* once a query or a stop failed

host == <<kwin, file, fatals>>
run == <<todo, sample, gate, by, seen>>
vars == <<host, status, pc, run>>

Gens == 0..Generations
Queries == {"active", "pid", "socket", "old", "tail", "inv", "journal",
            "session", "again"}

(* ticks: history, probe intervals of this gate window it has lived through *)
Compositor == [gen : Gens, up : BOOLEAN, bound : BOOLEAN, seat : BOOLEAN,
               old : BOOLEAN, ticks : 0..Confirms]
(* lived, oldGen: history, its ticks when its pid was read, and whose       *)
(* uptime was read.                                                         *)
Sample == [active : BOOLEAN, pid : Gens, socket : BOOLEAN, old : BOOLEAN,
           tail : BOOLEAN, inv : Gens, journal : BOOLEAN, session : BOOLEAN,
           again : Gens, lived : 0..Confirms, oldGen : Gens]
Gate == [count : 0..(Confirms + 1), pid : Gens, inv : Gens, budget : Nat,
         extended : BOOLEAN]
Place == {"idle", "adopt", "judge", "stop", "pkill", "unlink", "write", "protect",
          "prep", "start", "gate", "late", "scope", "verify", "mark"}
-----------------------------------------------------------------------------
AdoptionProbe == <<"active", "pid", "socket", "old", "tail">>
(* Late adoption asks for the uptime too, and for none of it. *)
LateProbe == <<"active", "pid", "socket", "tail">>
HealthProbe == <<"active", "pid", "socket", "inv", "journal", "session">>

Blank == [active |-> FALSE, pid |-> 0, socket |-> FALSE, old |-> FALSE,
          tail |-> FALSE, inv |-> 0, journal |-> FALSE, session |-> FALSE,
          again |-> 0, lived |-> 0, oldGen |-> 0]
NoGate == [count |-> 0, pid |-> 0, inv |-> 0, budget |-> 0, extended |-> FALSE]

Probe(place, queries) ==
  pc' = place /\ todo' = queries /\ sample' = Blank

Off == [gen |-> 0, up |-> FALSE, bound |-> FALSE, seat |-> FALSE,
        old |-> FALSE, ticks |-> 0]

(* Nothing was ever started; or an earlier run, or an operator, left a      *)
(* compositor behind, whose socket may have been removed under it.          *)
Init ==
  /\ kwin \in {Off} \cup [gen : {1}, up : BOOLEAN, bound : BOOLEAN,
                          seat : BOOLEAN, old : {FALSE}, ticks : {0}]
  /\ kwin.up \/ ~(kwin.bound \/ kwin.seat)
  /\ file \in {"none", "orphan"} \cup (IF kwin.bound THEN {"live"} ELSE {})
  /\ fatals \in SUBSET (1..kwin.gen)
  /\ status = "pending" /\ pc = "idle" /\ todo = <<>> /\ sample = Blank
  /\ gate = NoGate /\ by = "none" /\ seen = 0
-----------------------------------------------------------------------------
(* The queries. *)

Pid == IF kwin.up THEN kwin.gen ELSE 0

(* The session that logind shows on seat0 and the tty, and its leader.      *)
SessionMatches(pid) ==
  kwin.up /\ kwin.seat /\ (LeaderShown => pid \in {0, kwin.gen})

(* The answers of a query that is answered.  The InvocationID of a unit     *)
(* that is down may be empty, and its journal is then cut by time or not at *)
(* all.                                                                     *)
Answers(q) ==
  IF q = "active" THEN {kwin.up}
  ELSE IF q \in {"pid", "again"} THEN {Pid}
  ELSE IF q = "socket" THEN {file # "none"}
  ELSE IF q = "old" THEN {kwin.up /\ kwin.old}
  ELSE IF q = "tail" THEN {fatals # {}}
  ELSE IF q = "inv" THEN {kwin.gen} \cup (IF kwin.up THEN {} ELSE {0})
  ELSE IF q = "session" THEN {SessionMatches(sample.pid)}
  ELSE IF sample.inv # 0 THEN {sample.inv \in fatals}
  ELSE {kwin.gen \in fatals, fatals # {}}

(* A failed query is taken for no pid, no id, not active, not old, no       *)
(* session, and a clean journal.  os.Stat of the socket does not fail.      *)
Unanswered(q) == IF q \in {"pid", "inv", "again"} THEN 0 ELSE FALSE

Query ==
  /\ todo # <<>>
  /\ LET q == Head(todo)
     IN  \/ /\ \E a \in Answers(q) :
                 sample' = [sample EXCEPT
                   ![q] = a,
                   !.lived = IF q = "pid" THEN kwin.ticks ELSE @,
                   !.oldGen = IF q = "old" THEN Pid ELSE @]
            /\ UNCHANGED seen
         \/ /\ QueriesFail /\ q # "socket"
            /\ sample' = [sample EXCEPT ![q] = Unanswered(q)]
            /\ seen' = 0
  /\ todo' = Tail(todo)
  /\ UNCHANGED <<host, status, pc, gate, by>>
-----------------------------------------------------------------------------
(* The phase. *)

(* MarkRunning, unless the phase is done. *)
Begin ==
  /\ pc = "idle" /\ status # "done"
  /\ status' = "running"
  /\ Probe("adopt", AdoptionProbe)
  /\ UNCHANGED <<host, gate, by, seen>>

(* Run ends, and its variables with it. *)
Ends ==
  /\ pc' = "idle" /\ todo' = <<>> /\ sample' = Blank /\ gate' = NoGate
  /\ by' = "none" /\ seen' = 0
  /\ kwin' = [kwin EXCEPT !.ticks = 0]
  /\ UNCHANGED <<file, fatals>>

Fail == Ends /\ status' = "failed"

Goto(place) == pc' = place /\ UNCHANGED <<status, run>>

(* probeKWinAdoption, with a minimum uptime of 30 s or of none. *)
Adoptable(minUptime) ==
  /\ sample.active /\ sample.pid > 0 /\ sample.socket /\ ~sample.tail
  /\ minUptime => sample.old

(* An active compositor with a clean journal and no socket. *)
UnlinkedCandidate ==
  sample.active /\ sample.pid > 0 /\ ~sample.socket /\ ~sample.tail

(* The session is asked for only where there is something to recover. *)
Adopt ==
  /\ pc = "adopt" /\ todo = <<>>
  /\ IF Adoptable(TRUE)
       THEN pc' = "mark" /\ by' = "adopt" /\ UNCHANGED <<todo, sample>>
     ELSE IF UnlinkedCandidate
       THEN pc' = "judge" /\ todo' = <<"session">> /\ UNCHANGED <<sample, by>>
       ELSE Probe("write", <<>>) /\ UNCHANGED by
  /\ UNCHANGED <<host, status, gate, seen>>

(* shouldRecoverUnlinkedKWinSocket: the session, and KWin on the bus of the *)
(* user, which a compositor may or may not be yet.                          *)
Judge ==
  /\ pc = "judge" /\ todo = <<>>
  /\ \E onBus \in BOOLEAN :
       Probe(IF sample.session /\ kwin.up /\ onBus THEN "stop" ELSE "write", <<>>)
  /\ seen' = Pid
  /\ UNCHANGED <<host, status, gate, by>>

Down == [kwin EXCEPT !.up = FALSE, !.bound = FALSE, !.seat = FALSE,
                     !.old = FALSE, !.ticks = 0]

(* What is left of the socket of a compositor that ends: it may remove it.  *)
Left == IF file = "live" THEN {"none", "orphan"} ELSE {file}

(* recoverUnlinkedKWinSocket: systemctl stop, pkill, then the removal of    *)
(* every wayland-* file, whatever the first two did.                        *)
StopUnit ==
  /\ pc \in {"stop", "pkill"}
  /\ \/ kwin' = Down /\ file' \in Left /\ UNCHANGED seen
     \/ seen' = 0 /\ UNCHANGED <<kwin, file>>
  /\ pc' = IF pc = "stop" THEN "pkill" ELSE "unlink"
  /\ UNCHANGED <<fatals, status, todo, sample, gate, by>>

RemoveSockets == file' = "none" /\ UNCHANGED <<kwin, fatals>>

Unlink == pc = "unlink" /\ RemoveSockets /\ Goto("write")

(* The unit file and the mode helper; then activeMainPID is asked.          *)
WriteUnit ==
  /\ pc = "write"
  /\ \/ /\ Probe("protect", <<"active", "pid">>)
        /\ seen' = Pid
        /\ UNCHANGED <<host, status, gate, by>>
     \/ Fail

(* Mutant: the sockets are always removed. *)
CleanStaleConfig_Always ==
  pc = "protect" /\ todo = <<>> /\ RemoveSockets /\ Goto("prep")

(* cleanStaleKDEConfigIfNeeded: the entry was just marked running, so the   *)
(* clean-up is always needed.                                               *)
CleanStaleConfig ==
  /\ pc = "protect" /\ todo = <<>>
  /\ IF sample.active /\ sample.pid > 0 THEN UNCHANGED host ELSE RemoveSockets
  /\ Goto("prep")

(* kwinExternalPrep: no result of its steps is looked at. *)
ExternalPrep ==
  /\ pc = "prep" /\ pc' = "start"
  /\ seen' = 0
  /\ UNCHANGED <<host, status, todo, sample, gate, by>>

Launched == [Off EXCEPT !.gen = kwin.gen + 1, !.up = TRUE]
MayLaunch == ~kwin.up /\ kwin.gen < Generations

(* daemon-reload, enable, start --no-block: a start of an active unit does  *)
(* nothing.  Then the gate poll begins.                                     *)
StartUnit ==
  /\ pc = "start"
  /\ \/ Fail
     \/ /\ kwin' = IF MayLaunch THEN Launched ELSE kwin
        /\ Probe("gate", HealthProbe)
        /\ gate' = [NoGate EXCEPT !.budget = Wait]
        /\ UNCHANGED <<file, fatals, status, by, seen>>
-----------------------------------------------------------------------------
(* The gate poll. *)

(* Mutant: a sample counts whatever its pid is. *)
SameAsLast_AnyPid == sample.pid > 0

SameAsLast ==
  /\ sample.pid > 0 /\ sample.pid = gate.pid
  /\ sample.inv = 0 \/ sample.inv = gate.inv

(* defaultHealthProbe: the first sample of a pid confirms nothing. *)
Counted ==
  IF SameAsLast
    THEN [gate EXCEPT !.count = IF @ > Confirms THEN @ ELSE @ + 1]
    ELSE [gate EXCEPT !.count = 1, !.pid = sample.pid, !.inv = sample.inv]

AllGatesPass ==
  /\ sample.active /\ sample.pid > 0 /\ sample.socket /\ ~sample.journal
  /\ sample.session
  /\ Counted.count > Confirms

StartProgressing ==
  sample.active /\ sample.pid > 0 /\ ~sample.journal /\ Counted.count > 1

(* Mutant: the window is extended as often as the start makes progress. *)
MayExtend_Again == Extension > 0 /\ StartProgressing

MayExtend == ~gate.extended /\ Extension > 0 /\ StartProgressing

(* A tick of the probe interval goes by. *)
Ticked ==
  IF kwin.up /\ kwin.ticks < Confirms THEN [kwin EXCEPT !.ticks = @ + 1] ELSE kwin

(* awaitKWinHealthy: one turn of the loop. *)
GatePoll ==
  /\ pc = "gate" /\ todo = <<>>
  /\ IF AllGatesPass
       THEN /\ pc' = "mark" /\ by' = "gate" /\ gate' = Counted
            /\ UNCHANGED <<kwin, todo, sample>>
     ELSE IF gate.budget > 0
       THEN /\ kwin' = Ticked
            /\ Probe("gate", HealthProbe)
            /\ gate' = [Counted EXCEPT !.budget = @ - 1]
            /\ UNCHANGED by
     ELSE IF MayExtend
       THEN /\ Probe("gate", HealthProbe)
            /\ gate' = [Counted EXCEPT !.budget = Extension, !.extended = TRUE]
            /\ UNCHANGED <<kwin, by>>
     ELSE /\ Probe("late", LateProbe)
          /\ gate' = [NoGate EXCEPT !.budget = Grace]
          /\ kwin' = [kwin EXCEPT !.ticks = 0]
          /\ UNCHANGED by
  /\ UNCHANGED <<file, fatals, status, seen>>
-----------------------------------------------------------------------------
(* Late adoption. *)

(* Mutant: the deadline is not looked at. *)
Rejected_Endless ==
  /\ gate' = [gate EXCEPT !.budget = @ - 1]
  /\ Probe("late", LateProbe)
  /\ UNCHANGED <<host, status, by, seen>>

Rejected ==
  \/ gate.budget = 0 /\ Fail
  \/ /\ gate.budget > 0
     /\ gate' = [gate EXCEPT !.budget = @ - 1]
     /\ Probe("late", LateProbe)
     /\ UNCHANGED <<host, status, by, seen>>

Continue(place, queries) ==
  /\ pc' = place /\ todo' = queries
  /\ UNCHANGED <<host, status, sample, gate, by, seen>>

Late ==
  /\ pc = "late" /\ todo = <<>>
  /\ IF Adoptable(FALSE) THEN Continue("scope", <<"inv", "journal">>) ELSE Rejected

LateScope ==
  /\ pc = "scope" /\ todo = <<>>
  /\ IF sample.journal THEN Rejected ELSE Continue("verify", <<"again">>)

SamePid == sample.again = sample.pid /\ sample.again > 0

LateVerify ==
  /\ pc = "verify" /\ todo = <<>>
  /\ IF SamePid
       THEN /\ pc' = "mark" /\ by' = "late"
            /\ UNCHANGED <<host, status, todo, sample, gate, seen>>
       ELSE Rejected

(* MarkDone, after the bus probe, supportInformation and the mode helper,   *)
(* none of which changes the result.                                        *)
Mark == pc = "mark" /\ Ends /\ status' = "done"

Phase ==
  \/ Query \/ Adopt \/ Judge \/ StopUnit \/ Unlink \/ WriteUnit
  \/ CleanStaleConfig \/ ExternalPrep \/ StartUnit \/ GatePoll
  \/ Late \/ LateScope \/ LateVerify \/ Mark

(* The invocation is killed. *)
Killed == pc # "idle" /\ Ends /\ UNCHANGED status
-----------------------------------------------------------------------------
(* The compositor, systemd and logind. *)

(* KWin replaces an orphan when it binds. *)
Bind == kwin.up /\ ~kwin.bound /\ kwin' = [kwin EXCEPT !.bound = TRUE] /\ file' = "live"

Seated == kwin.up /\ ~kwin.seat /\ kwin' = [kwin EXCEPT !.seat = TRUE] /\ UNCHANGED file

(* Thirty seconds.  Only the probe at the head of a run looks at them, and  *)
(* they do not go by within it.                                             *)
Age ==
  /\ kwin.up /\ ~kwin.old /\ pc = "idle"
  /\ kwin' = [kwin EXCEPT !.old = TRUE]
  /\ UNCHANGED file

Crash == kwin.up /\ kwin' = Down /\ file' \in Left

(* At boot, by an operator, or by a Restart= that an operator set. *)
StartedByOther == MayLaunch /\ kwin' = Launched /\ UNCHANGED file

Log ==
  \/ kwin.gen > 0 /\ fatals' = fatals \cup {kwin.gen}
  \/ \E g \in fatals : g < kwin.gen /\ fatals' = fatals \ {g}

Host ==
  /\ \/ (Bind \/ Seated \/ Age \/ Crash \/ StartedByOther) /\ UNCHANGED fatals
     \/ Log /\ UNCHANGED <<kwin, file>>
  /\ UNCHANGED <<status, pc, run>>

Next == Begin \/ Phase \/ Killed \/ Host

(* Each command of the phase ends (CommandRunner); nothing else is assumed. *)
Spec == Init /\ [][Next]_vars /\ WF_vars(Phase)
-----------------------------------------------------------------------------
(* What the pipeline sees of the phase. *)
Table == INSTANCE PhaseTable

LifeAt == IF pc = "idle" THEN "out" ELSE "in"

LifeStatus == IF status = "failed" THEN "failed_fatal" ELSE status

Life == INSTANCE PhaseLife WITH
  Body <- Table!KWinSession, Early <- {}, Resets <- FALSE,
  status <- LifeStatus, saved <- LifeStatus, at <- LifeAt

(* shouldSkip, MarkRunning and the endings that PhaseTable lists: the phase *)
(* is what the pipeline takes it for, and done once it is done.            *)
LivesAsTabled == Life!Spec

-----------------------------------------------------------------------------
TypeOK ==
  /\ kwin \in Compositor
  /\ file \in {"none", "live", "orphan"}
  /\ fatals \subseteq Gens
  /\ status \in {"pending", "running", "failed", "done"}
  /\ pc \in Place
  /\ todo \in Seq(Queries)
  /\ sample \in Sample
  /\ gate \in Gate
  /\ by \in {"none", "adopt", "gate", "late"}
  /\ seen \in Gens

(* The gate poll accepts what had lived through the whole stability window  *)
(* when its pid was read, whatever restarted or timed out between the       *)
(* samples (one tick less after an extension, which does not pause), and    *)
(* found the journal of that very process clean                             *)
(* (kwin_session_prep.go:1073-1110).                                        *)
GateSawOneCompositor ==
  (pc = "mark" /\ by = "gate") =>
     /\ sample.lived + (IF gate.extended THEN 1 ELSE 0) >= Confirms
     /\ sample.inv \in {0, sample.pid}

(* Late adoption samples once: the pid read before and after makes the      *)
(* invocation between them its own (kwin_session.go:1118).                  *)
LateSawOneCompositor ==
  (pc = "mark" /\ by = "late") => sample.inv \in {0, sample.pid}

(* The compositor that early adoption records is the one that has been up   *)
(* for 30 s (kwin_session_prep.go:550-570).                                 *)
AdoptionSawOneCompositor ==
  (pc = "mark" /\ by = "adopt") => sample.oldGen = sample.pid

(* Whatever path marks the phase done, the pid in its details, the uptime,  *)
(* the stability and the journal it trusted are those of one compositor,    *)
(* although each came from a query of its own.                              *)
DoneSawOneCompositor ==
  GateSawOneCompositor /\ LateSawOneCompositor /\ AdoptionSawOneCompositor

(* "removing /run/user/<uid>/wayland-0 while kwin_wayland was already       *)
(* running left KWin alive on DBus" (kwin_session.go:875): a compositor     *)
(* that was up when the run asked whether there is one (or when it decided  *)
(* to stop it), and still is, keeps the socket it has bound, unless that    *)
(* query or stop failed.  Only one that starts after it was asked for can   *)
(* lose its socket: the answer is stale by then.                            *)
SocketKept ==
  [][(file = "live" /\ file' = "none" /\ kwin'.up) => kwin'.gen # seen]_vars

(* What a run may still do at most: the queries of this probe, and for each *)
(* place of Run it can still come to, in the unit of a whole probe.         *)
Lateness == 3 * Grace + 4
Start == Lateness + Wait + Extension + 3

PlacesAhead ==
  CASE pc = "idle"   -> 0
    [] pc = "mark"   -> 1
    [] pc = "verify" -> 3 * gate.budget + 2
    [] pc = "scope"  -> 3 * gate.budget + 3
    [] pc = "late"   -> 3 * gate.budget + 4
    [] pc = "gate"   -> Lateness + 1 + gate.budget
                          + (IF gate.extended THEN 0 ELSE Extension + 1)
    [] pc = "start"   -> Start
    [] pc = "prep"    -> Start + 1
    [] pc = "protect" -> Start + 2
    [] pc = "write"   -> Start + 3
    [] pc = "unlink"  -> Start + 4
    [] pc = "pkill"   -> Start + 5
    [] pc = "stop"    -> Start + 6
    [] pc = "judge"   -> Start + 7
    [] pc = "adopt"   -> Start + 8

StepsAhead == 7 * PlacesAhead + Len(todo)

(* Whatever the compositor does meanwhile and however queries end, each     *)
(* step of a run brings it closer to its end, so that it asks for no more   *)
(* than Start and the deadlines allow: the window is extended once, and no  *)
(* answer starts a wait over (kwin_session_prep.go:861, kwin_session.go:    *)
(* 1046).                                                                   *)
RunIsBounded == [][Phase => StepsAhead' \in 0..(StepsAhead - 1)]_vars

(* A run ends: two windows, one extension, a bounded number of queries.     *)
RunEnds == (pc # "idle") ~> (pc = "idle")
-----------------------------------------------------------------------------
(* kwin_session.go:1106: "Late-adoption journal must be invocation-scoped   *)
(* or it inherits the pre-restart fatal markers we already saw".  It does:  *)
(* the scoped scan comes only after the unscoped one found nothing, so a    *)
(* healthy compositor is rejected for what an earlier one has printed.      *)
LateJournalIsScoped ==
  [][(pc = "late" /\ status' = "failed") =>
       ~(sample.active /\ sample.pid > 0 /\ sample.socket /\ sample.pid \notin fatals)]_vars

(* kwin_session_prep.go:1084: "One probe tick == StablePIDInterval (default *)
(* 2s) wall-clock".  Not for the sample after an extension, which follows   *)
(* the one before with no pause and still counts as a tick.                 *)
StabilityIsTime == (pc = "mark" /\ by = "gate") => sample.lived = Confirms
=============================================================================
