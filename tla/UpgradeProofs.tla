--------------------------- MODULE UpgradeProofs ---------------------------
(* Theorems about UbuntuPlan and UbuntuUpgrade, for every host, profile,   *)
(* set of source files, and number of commands, crashes and reboots.       *)
EXTENDS UbuntuUpgrade, FiniteSetTheorems, WellFoundedInduction, TLAPS

Direct(v) == PlanUpgrade(v, given.profile).action = "direct-codename-rewrite"
Hop(v) == PlanUpgrade(v, given.profile).hop
-----------------------------------------------------------------------------
(* What the planner promises for a hop that the phase carries out itself:  *)
(* a known release, the waypoint when it starts from 22.04, and the        *)
(* consent of the profile.                                                 *)
LEMMA DirectHop ==
  ASSUME NEW current, NEW p \in Profile,
         PlanUpgrade(current, p).action = "direct-codename-rewrite"
  PROVE  /\ current # FinalTarget(p) /\ current # PlanUpgrade(current, p).hop
         /\ PlanUpgrade(current, p).hop \in Codenamed
         /\ current = 2204 => PlanUpgrade(current, p).hop = 2404
         /\ p.auto
         /\ IsLTS(PlanUpgrade(current, p).hop) \/ p.nonLTS
         /\ p.direct # "off"
<1> DEFINE final == FinalTarget(p)
           hop == NextHopForUpgrade(current, final)
<1>0. p.auto \in BOOLEAN /\ p.nonLTS \in BOOLEAN /\ p.direct \in {"auto", "force", "off"}
  BY DEF Profile
<1>1. /\ final # None /\ current # final
      /\ p.auto /\ (IsLTS(final) \/ p.nonLTS)
      /\ {current, final} \ Codenamed = {}
      /\ PlanUpgrade(current, p).hop = hop
      /\ p.direct # "off"
  BY <1>0 DEF PlanUpgrade, Plan
<1>2. current \in Codenamed /\ final \in Codenamed
  BY <1>1
<1>3. hop = final \/ (current = 2204 /\ hop = 2404)
  BY DEF NextHopForUpgrade
<1>4. current = 2204 => hop = 2404
  BY <1>1, <1>2 DEF NextHopForUpgrade
<1>5. hop \in Codenamed
  BY <1>2, <1>3 DEF Codenamed
<1>6. IsLTS(2404)
  BY DEF IsLTS
<1> QED
  BY <1>1, <1>3, <1>4, <1>5, <1>6

(* "Nothing to do" is said of the final release only. *)
LEMMA NoopHop ==
  ASSUME NEW current, NEW p, PlanUpgrade(current, p).action = "noop"
  PROVE  current = FinalTarget(p) /\ PlanUpgrade(current, p).hop = current
BY DEF PlanUpgrade, Plan
-----------------------------------------------------------------------------
(* The resolver.  Any set of positions in a list of candidates has a first. *)
LEMMA FirstExists ==
  ASSUME NEW S, S \subseteq Nat, S # {}
  PROVE  \E i \in S : \A j \in S : i <= j
<1> DEFINE R == OpToRel(<, Nat)
<1>1. IsWellFoundedOn(R, Nat)
  BY NatLessThanWellFounded
<1>2. R = {ss \in Nat \X Nat : ss[1] < ss[2]}
  BY DEF OpToRel
<1> HIDE DEF R
<1>3. PICK i \in S : \A j \in S : <<j, i>> \notin R
  BY <1>1, WFMin
<1>4. \A j \in S : ~(j < i)
  BY <1>2, <1>3
<1> QED
  BY <1>3, <1>4

(* resolver.go: the release it picks is the first of the list that the      *)
(* profile accepts, and it picks none only when it accepts none or when an  *)
(* exact selection leaves the choice open.                                  *)
THEOREM ResolverPicksFirst ==
  ASSUME NEW p \in Profile
  PROVE  LET ok == {i \in DOMAIN p.candidates : EvaluateOSCandidate(p.candidates[i], p)}
         IN  IF ResolveOSTarget(p) = None
               THEN ok = {} \/ (p.selection = "exact" /\ Len(p.candidates) # 1)
               ELSE \E i \in ok : /\ ResolveOSTarget(p) = p.candidates[i]
                                  /\ \A j \in 1..(i - 1) : j \notin ok
<1> DEFINE ok == {i \in DOMAIN p.candidates : EvaluateOSCandidate(p.candidates[i], p)}
           Open == p.selection = "exact" /\ Len(p.candidates) # 1
<1>1. CASE ok = {} \/ Open
  BY <1>1 DEF ResolveOSTarget
<1>2. CASE ok # {} /\ ~Open
  <2>1. ok \subseteq Nat
    <3>1. p.candidates \in Seq(Nat)
      BY DEF Profile
    <3>2. DOMAIN p.candidates = 1..Len(p.candidates) /\ Len(p.candidates) \in Nat
      BY <3>1
    <3> QED
      BY <3>2
  <2>2. PICK i \in ok : \A j \in ok : i <= j
    <3> HIDE DEF ok
    <3> QED
      BY <1>2, <2>1, FirstExists
  <2>3. ResolveOSTarget(p) = p.candidates[CHOOSE k \in ok : \A j \in ok : k <= j]
    BY <1>2 DEF ResolveOSTarget
  <2>4. (CHOOSE k \in ok : \A j \in ok : k <= j) = i
    <3> DEFINE c == CHOOSE k \in ok : \A j \in ok : k <= j
    <3> HIDE DEF ok
    <3>1. c \in ok /\ \A j \in ok : c <= j
      BY <2>2
    <3> HIDE DEF c
    <3>2. c = i
      BY <2>1, <2>2, <3>1
    <3> QED
      BY <3>2 DEF c
  <2>5. \A j \in 1..(i - 1) : j \notin ok
    <3> HIDE DEF ok
    <3> QED
      BY <2>1, <2>2
  <2>6. p.candidates[i] # None
    BY <2>2 DEF EvaluateOSCandidate, Codenamed, None
  <2> QED
    BY <2>2, <2>3, <2>4, <2>5, <2>6
<1> QED
  BY <1>1, <1>2

(* upgrade.go, "The deploy's reboot+resume loop naturally chains these": a  *)
(* hop the phase carries out reaches the final release, or the waypoint     *)
(* 24.04 from where the next plan goes on to it.  It is carried out too     *)
(* when it is forced or one of the known hops; to any other release it is   *)
(* do-release-upgrade, which Run refuses, and the host stays at 24.04.      *)
THEOREM HopsChain ==
  ASSUME NEW current, NEW p \in Profile,
         PlanUpgrade(current, p).action = "direct-codename-rewrite"
  PROVE  LET final == FinalTarget(p)
             hop   == PlanUpgrade(current, p).hop
         IN  \/ hop = final
             \/ /\ current = 2204 /\ hop = 2404
                /\ PlanUpgrade(hop, p) =
                     Plan(IF p.direct = "force" \/ final \in {2510, 2604}
                       THEN "direct-codename-rewrite" ELSE "do-release-upgrade", final)
<1> DEFINE final == FinalTarget(p)
<1>0. p.auto \in BOOLEAN /\ p.nonLTS \in BOOLEAN /\ p.direct \in {"auto", "force", "off"}
  BY DEF Profile
<1>1. /\ final # None /\ current # final
      /\ p.auto /\ (IsLTS(final) \/ p.nonLTS)
      /\ {current, final} \ Codenamed = {}
      /\ PlanUpgrade(current, p).hop = NextHopForUpgrade(current, final)
      /\ p.direct # "off"
  BY <1>0 DEF PlanUpgrade, Plan
<1>2. CASE NextHopForUpgrade(current, final) = final
  BY <1>1, <1>2
<1>3. CASE NextHopForUpgrade(current, final) # final
  <2>1. current = 2204 /\ final \in Codenamed \ {2204, 2404} /\ PlanUpgrade(current, p).hop = 2404
    BY <1>1, <1>3 DEF NextHopForUpgrade
  <2>2. NextHopForUpgrade(2404, final) = final
    BY DEF NextHopForUpgrade
  <2>3. IsKnownDirectHop(2404, final) <=> final \in {2510, 2604}
    BY <2>1 DEF IsKnownDirectHop, Codenamed
  <2>4. 2404 # final /\ {2404, final} \ Codenamed = {}
    BY <2>1 DEF Codenamed
  <2> HIDE DEF final
  <2>5. PlanUpgrade(2404, p) =
          IF p.direct = "force" \/ (p.direct = "auto" /\ IsKnownDirectHop(2404, final))
            THEN Plan("direct-codename-rewrite", final) ELSE Plan("do-release-upgrade", final)
    BY <1>1, <2>2, <2>4 DEF PlanUpgrade, final
  <2> QED
    BY <1>0, <1>1, <2>1, <2>3, <2>5 DEF final
<1> QED
  BY <1>2, <1>3

(* Policy auto only ever moves a host to a later release. *)
THEOREM AutoMovesUp ==
  ASSUME NEW current, NEW p \in Profile, p.direct = "auto",
         PlanUpgrade(current, p).action = "direct-codename-rewrite"
  PROVE  PlanUpgrade(current, p).hop > current
<1> DEFINE hop == NextHopForUpgrade(current, FinalTarget(p))
<1>1. IsKnownDirectHop(current, hop) /\ PlanUpgrade(current, p).hop = hop
  BY DEF PlanUpgrade, Plan
<1> HIDE DEF hop
<1> QED
  BY <1>1 DEF IsKnownDirectHop
-----------------------------------------------------------------------------
LEMMA StageNames ==
  /\ "none" \in Stages
  /\ \A i \in 1..6 : Stage[i] \in Stages
BY DEF Stages, Stage

(* A phase without a marker is past no stage. *)
LEMMA NoStage == ASSUME NEW target PROVE ~StageAtLeast("none", target)
BY DEF StageAtLeast, Stage

LEMMA Releases == Release \subseteq Nat
BY UpgradeAssumption DEF Release, Codenamed
-----------------------------------------------------------------------------
(* Types.  The recovery is the first, and so the last; the hop that the     *)
(* sources are rewritten to is a release with a codename.                   *)
Preparing == pc \in {"quarantine", "guards", "transaction", "rewrite"}

HostTyped ==
  /\ given \in Hosts
  /\ release \in Release /\ packages \in Release
  /\ sources \in [Files -> Release \cup {None}]
  /\ foreign \subseteq Foreign
  /\ dpkg \in {"ok", "broken", "efi"} /\ guards \in {"none", "stale", "fresh"}
  /\ host \in {"up", "down"} /\ unit \in {"none", "manual", "auto"}
  /\ starts \in Nat /\ crashes \in Nat /\ stuck \subseteq Release

RunTyped ==
  /\ pc \in ControlPoint /\ run \in Run
  /\ mem \in Record /\ disk \in Record
  /\ pc = "recovery" => run.try = 1
  /\ Preparing => run.hop \in Codenamed

Typed == HostTyped /\ RunTyped

LEMMA TypedTypes == Typed => TypeOK
BY DEF Typed, HostTyped, RunTyped, TypeOK

LEMMA HostFacts ==
  ASSUME Typed
  PROVE  /\ given.profile \in Profile /\ given.saveFails \in BOOLEAN
         /\ release \in Nat
         /\ Offered \subseteq Release
<1>1. given \in [profile : Profile, release : Nat \ {None}, bios : BOOLEAN, saveFails : BOOLEAN]
  BY UpgradeAssumption DEF Typed, HostTyped
<1>2. release \in Nat
  BY Releases DEF Typed, HostTyped
<1>3. Offered \subseteq Release
  BY DEF Typed, HostTyped, Offered
<1> QED BY <1>1, <1>2, <1>3

LEMMA PersistTyped ==
  ASSUME NEW r \in Record, disk \in Record, Persist(r)
  PROVE  mem' \in Record /\ disk' \in Record
BY DEF Persist

LEMMA EndTyped ==
  ASSUME Ends
  PROVE  pc' \in ControlPoint /\ run' \in Run /\ pc' # "recovery" /\ ~Preparing'
BY DEF Ends, NoRun, Run, ControlPoint, None, Preparing

LEMMA FailTyped ==
  ASSUME RunTyped, Fails
  PROVE  RunTyped'
<1>1. MarkStatus(mem, "failed_fatal") \in Record
  BY DEF RunTyped, Record, MarkStatus
<1>2. mem' \in Record /\ disk' \in Record
  BY <1>1, PersistTyped DEF Fails, RunTyped
<1> QED
  BY <1>2, EndTyped DEF Fails, RunTyped

LEMMA AdvanceTyped ==
  ASSUME RunTyped, NEW stage \in Stages, AdvanceStage(stage)
  PROVE  mem' \in Record /\ disk' \in Record
<1>1. [mem EXCEPT !.details.stage = stage] \in Record
  BY DEF RunTyped, Record, Details
<1> QED
  BY <1>1, PersistTyped DEF AdvanceStage, RunTyped

LEMMA RecoveredTyped ==
  ASSUME NEW r \in Record
  PROVE  Recovered(r) \in Record
BY StageNames DEF Recovered, Record, Details, Unmarked, None

LEMMA RunningTyped ==
  ASSUME NEW r \in Record
  PROVE  MarkRunning(r) \in Record /\ MarkRunning(r).details = Nil
<1>1. Nil \in Details
  BY StageNames DEF Nil, Details, None
<1> QED
  BY <1>1 DEF MarkRunning, Record

LEMMA StartTyped ==
  ASSUME Typed, NEW cmd \in {"apply", "resume", "phase"}, NEW auto \in BOOLEAN,
         Start(cmd, auto)
  PROVE  RunTyped' /\ unit' \in {"none", "manual", "auto"}
<1>1. mem' \in Record /\ disk' \in Record
  BY RecoveredTyped DEF Start, Typed, RunTyped
<1>2. NoRun \in Run
  BY DEF NoRun, Run, None
<1>3. [NoRun EXCEPT !.auto = auto] \in Run
  BY <1>2 DEF Run
<1>4. pc' \in ControlPoint /\ run' \in Run /\ pc' # "recovery" /\ ~Preparing'
  BY <1>3, EndTyped DEF Start, ControlPoint, Preparing
<1> QED
  BY <1>1, <1>4 DEF Start, Typed, HostTyped, RunTyped
LEMMA HostTypedStep == Typed /\ [Next]_vars => HostTyped'
<1> SUFFICES ASSUME Typed, [Next]_vars PROVE HostTyped'
  OBVIOUS
<1> USE DEF Typed, HostTyped, Packages, Sources, Machine, Bounds
<1>1. Offered \subseteq Release
  BY HostFacts
<1>2. CASE Operator
  BY <1>2, StartTyped DEF Operator
<1>3. CASE Skip \/ RefuseToLoop \/ AlreadyThere \/ Refuse \/ Begin
  BY <1>3 DEF Skip, RefuseToLoop, AlreadyThere, Refuse, Begin
<1>4. CASE Quarantine \/ Quarantined \/ Guard \/ Transaction
  BY <1>4 DEF Quarantine, Quarantined, Guard, Transaction
<1>5. CASE Rewrite
  <2>1. PICK f \in Files : /\ sources[f] = run.from
                            /\ \E v \in {run.from, run.hop, None} :
                                 sources' = [sources EXCEPT ![f] = v]
    BY <1>5 DEF Rewrite
  <2>2. {run.from, run.hop, None} \subseteq Release \cup {None}
    BY <1>5, <2>1 DEF Rewrite, RunTyped, Preparing, Release
  <2> QED BY <1>5, <2>1, <2>2 DEF Rewrite
<1>6. CASE Rewritten \/ NothingToRewrite \/ Update
  BY <1>6 DEF Rewritten, NothingToRewrite, Update
<1>7. CASE Unpack
  BY <1>1, <1>7 DEF Unpack
<1>8. CASE NothingUnpacked
  BY <1>8 DEF NothingUnpacked
<1>9. CASE DistUpgrade
  BY <1>1, <1>9 DEF DistUpgrade
<1>10. CASE Recovery \/ EfiPurge \/ Gate \/ EndTransaction
  BY <1>10 DEF Recovery, EfiPurge, Gate, EndTransaction
<1>11. CASE Reboot
  BY <1>11 DEF Reboot
<1>12. CASE Boot
  BY <1>12, StartTyped DEF Boot
<1>13. CASE OperatorReboots \/ AddSource
  BY <1>13 DEF OperatorReboots, AddSource
<1>14. CASE Crash
  BY <1>14 DEF Crash
<1>15. CASE UNCHANGED vars
  BY <1>15 DEF vars
<1> QED
  BY <1>2, <1>3, <1>4, <1>5, <1>6, <1>7, <1>8, <1>9, <1>10, <1>11, <1>12, <1>13, <1>14, <1>15
     DEF Next, Step

LEMMA RunTypedStep == Typed /\ [Next]_vars => RunTyped'
<1> SUFFICES ASSUME Typed, [Next]_vars PROVE RunTyped'
  OBVIOUS
<1> USE DEF Typed, RunTyped, Unsaved, Preparing
<1>1. CASE Operator
  BY <1>1, StartTyped DEF Operator
<1>2. CASE Skip
  BY <1>2, EndTyped DEF Skip
<1>3. CASE RefuseToLoop
  BY <1>3, FailTyped DEF RefuseToLoop
<1>4. CASE AlreadyThere
  <2>1. MarkDone(mem) \in Record
    BY StageNames DEF MarkDone, Record, Details, Unmarked, None
  <2> QED BY <1>4, <2>1, PersistTyped, EndTyped DEF AlreadyThere
<1>5. CASE Refuse
  <2>1. MarkStatus(mem, "skipped") \in Record /\ MarkStatus(mem, "failed_fatal") \in Record
    BY DEF MarkStatus, Record
  <2>2. mem' \in Record /\ disk' \in Record
    BY <1>5, <2>1, PersistTyped DEF Refuse
  <2> QED BY <1>5, <2>2, EndTyped DEF Refuse
<1>6. CASE Begin
  <2> DEFINE r == MarkRunning(mem)
             pre == IF r.details.pre # None THEN r.details.pre ELSE release
             b == [r EXCEPT !.details = [nil |-> FALSE, pre |-> pre, stage |-> Stage[1]]]
             quarantine == ~StageAtLeast(r.details.stage, Stage[2])
             next == [run EXCEPT !.hop = PlanUpgrade(release, given.profile).hop,
                                 !.from = release, !.quarantine = quarantine]
  <2>1. r \in Record
    BY RunningTyped
  <2>2. release \in Nat /\ given.profile \in Profile
    BY HostFacts
  <2>3. b \in Record
    <3>1. r.details.pre \in Nat
      BY <2>1 DEF Record, Details
    <3>2. [nil |-> FALSE, pre |-> pre, stage |-> Stage[1]] \in Details
      BY <2>2, <3>1, StageNames DEF Details
    <3> QED BY <2>1, <3>2 DEF Record
  <2>4. PlanUpgrade(release, given.profile).hop \in Codenamed
    BY <1>6, <2>2, DirectHop DEF Begin, Action
  <2>5. quarantine \in BOOLEAN /\ Codenamed \subseteq Nat
    BY DEF Codenamed
  <2>6. next \in Run /\ next.hop \in Codenamed
    BY <2>2, <2>4, <2>5 DEF Run
  <2>7. Persist(b) /\ run' = next /\ pc' = "quarantine"
    BY <1>6 DEF Begin
  <2>8. mem' \in Record /\ disk' \in Record
    BY <2>3, <2>7, PersistTyped
  <2> QED BY <2>6, <2>7, <2>8 DEF ControlPoint
<1>7. CASE Quarantine
  BY <1>7, FailTyped DEF Quarantine
<1>8. CASE Quarantined
  BY <1>8, AdvanceTyped, StageNames DEF Quarantined, ControlPoint
<1>9. CASE Guard
  BY <1>9, FailTyped DEF Guard, ControlPoint
<1>10. CASE Transaction
  BY <1>10, FailTyped DEF Transaction, ControlPoint
<1>11. CASE Rewrite
  BY <1>11, FailTyped DEF Rewrite
<1>12. CASE Rewritten
  BY <1>12, AdvanceTyped, StageNames DEF Rewritten, ControlPoint
<1>13. CASE NothingToRewrite
  BY <1>13, FailTyped DEF NothingToRewrite
<1>14. CASE Update
  BY <1>14, AdvanceTyped, StageNames, FailTyped DEF Update, ControlPoint
<1>15. CASE Unpack
  BY <1>15 DEF Unpack, ControlPoint
<1>16. CASE NothingUnpacked \/ DistUpgrade
  BY <1>16, FailTyped
     DEF NothingUnpacked, DistUpgrade, DistUpgradeExits0, DistUpgradeFails, ControlPoint
<1>17. CASE Recovery
  BY <1>17 DEF Recovery, Run, ControlPoint
<1>18. CASE EfiPurge
  BY <1>18, FailTyped DEF EfiPurge, ControlPoint
<1>19. CASE Gate
  <2> DEFINE blind == dpkg' # "ok"
  <2>1. blind \in BOOLEAN
    OBVIOUS
  <2>2. [run EXCEPT !.blind = blind] \in Run /\ [run EXCEPT !.blind = blind].try = run.try
    <3> HIDE DEF blind
    <3> QED BY <2>1 DEF Run
  <2> QED BY <1>19, <2>2, AdvanceTyped, StageNames, FailTyped DEF Gate, ControlPoint
<1>20. CASE EndTransaction
  BY <1>20, AdvanceTyped, StageNames, FailTyped DEF EndTransaction, ControlPoint
<1>21. CASE Reboot
  <2>1. [mem EXCEPT !.count = @ + 1] \in Record
    BY DEF Record
  <2> QED BY <1>21, <2>1, EndTyped DEF Reboot
<1>22. CASE Boot
  BY <1>22, StartTyped DEF Boot, ControlPoint
<1>23. CASE OperatorReboots \/ AddSource
  BY <1>23 DEF OperatorReboots, AddSource
<1>24. CASE Crash
  BY <1>24, EndTyped DEF Crash
<1>25. CASE UNCHANGED vars
  BY <1>25 DEF vars
<1> QED
  BY <1>1, <1>2, <1>3, <1>4, <1>5, <1>6, <1>7, <1>8, <1>9, <1>10, <1>11, <1>12, <1>13,
     <1>14, <1>15, <1>16, <1>17, <1>18, <1>19, <1>20, <1>21, <1>22, <1>23, <1>24, <1>25
     DEF Next, Step

LEMMA TypedInit == Init => Typed
BY UpgradeAssumption, StageNames
   DEF Init, Typed, HostTyped, RunTyped, Preparing, Release, ControlPoint, Fresh, Nil, NoRun,
       Run, Record, Details, None

(* Types, and with them that a failed dist-upgrade is recovered from once.  *)
THEOREM UpgradeTypeCorrect == Spec => []TypeOK
<1>1. Typed /\ [Next]_vars => Typed'
  BY HostTypedStep, RunTypedStep DEF Typed
<1> QED
  BY <1>1, TypedInit, TypedTypes, PTL DEF Spec
-----------------------------------------------------------------------------
(* Releases and sources.  While dist-upgrade is near, every source names    *)
(* the hop that was planned; at any other time a source may name the        *)
(* release of the host or the hop planned from it, which is how each retry  *)
(* plans the same hop again.                                                *)
Changing == pc \in {"update", "dist_upgrade", "unpacked", "recovery"}

HopPlanned ==
  Preparing \/ Changing => Direct(run.from) /\ run.hop = Hop(run.from)

FromHere ==
  /\ Preparing \/ pc = "update" => release = run.from
  /\ Changing => release \in {run.from, run.hop}

SourcesKnown == \A f \in Files : sources[f] \in {None, release, Hop(release)}

HopOffered == Changing => Offered = {run.hop}

FinalOffered == release = FinalTarget(given.profile) => Offered = {release}

HopInv == HopPlanned /\ FromHere /\ SourcesKnown /\ HopOffered /\ FinalOffered

(* Ending the invocation, or going on outside, keeps all of it.             *)
LEMMA HopKept ==
  ASSUME HopInv, UNCHANGED <<given, release, sources>>,
         \/ ~Preparing' /\ ~Changing'
         \/ /\ run'.hop = run.hop /\ run'.from = run.from
            /\ (pc' = pc \/ (Preparing /\ Preparing')
                  \/ (pc' = "dist_upgrade" /\ Changing) \/ (pc' = "recovery" /\ Changing))
  PROVE  HopInv'
BY DEF HopInv, HopPlanned, FromHere, SourcesKnown, HopOffered, FinalOffered, Direct, Hop,
       Preparing, Changing, Offered

LEMMA EndsOutside == ASSUME Ends PROVE ~Preparing' /\ ~Changing'
BY DEF Ends, Preparing, Changing

LEMMA StartsOutside ==
  ASSUME NEW cmd, NEW auto, Start(cmd, auto) PROVE ~Preparing' /\ ~Changing'
BY DEF Start, Ends, Preparing, Changing

(* What dist-upgrade takes the host to is the hop.                          *)
LEMMA HopMoves ==
  ASSUME HopInv, Changing, UNCHANGED <<given, sources>>, release' \in {release} \cup Offered,
         pc' # "update", (run'.hop = run.hop /\ run'.from = run.from) \/ ~Changing',
         ~Preparing'
  PROVE  HopInv'
<1> USE DEF HopInv
<1>1. Offered = {run.hop} /\ Offered' = Offered
  BY DEF HopOffered, Offered
<1>2. \A f \in Files : sources[f] \in {None, run.hop}
  BY <1>1 DEF Offered
<1>3. HopPlanned' /\ HopOffered'
  BY <1>1 DEF HopPlanned, HopOffered, Direct, Hop
<1>4. FromHere'
  BY <1>1 DEF FromHere, Changing
<1>5. SourcesKnown'
  BY <1>1, <1>2 DEF SourcesKnown, Hop
<1>6. FinalOffered'
  BY <1>1 DEF FinalOffered
<1> QED BY <1>3, <1>4, <1>5, <1>6
LEMMA HopInvStep ==
  ASSUME Typed, HopInv, [Next]_vars
  PROVE  HopInv'
<1> USE DEF Packages, Sources, Machine, Bounds
<1>1. CASE Operator
  BY <1>1, StartsOutside, HopKept DEF Operator
<1>2. CASE Skip \/ RefuseToLoop \/ AlreadyThere \/ Refuse
  BY <1>2, EndsOutside, HopKept DEF Skip, RefuseToLoop, AlreadyThere, Refuse, Fails
<1>3. CASE Begin
  <2>1. Direct(release)
    BY <1>3 DEF Begin, Action, Direct
  <2>2. run'.from = release /\ run'.hop = Hop(release)
    BY <1>3 DEF Begin, Hop, Typed, RunTyped, Run
  <2>3. HopPlanned' /\ FromHere'
    BY <1>3, <2>1, <2>2 DEF HopPlanned, FromHere, Begin, Direct, Hop, Changing
  <2> QED
    BY <1>3, <2>3 DEF Begin, HopInv, SourcesKnown, HopOffered, FinalOffered, Changing, Hop, Offered
<1>4. CASE Quarantine \/ Quarantined \/ Guard \/ Transaction
  BY <1>4, EndsOutside, HopKept
     DEF Quarantine, Quarantined, Guard, Transaction, Fails, Preparing, Changing
<1>5. CASE Rewrite
  <2>1. run.from = release /\ run.hop = Hop(release) /\ Direct(release)
    BY <1>5 DEF Rewrite, HopInv, HopPlanned, FromHere, Preparing
  <2>2. release # FinalTarget(given.profile)
    BY <2>1, HostFacts, DirectHop DEF Direct
  <2>3. \A f \in Files : sources'[f] \in {None, release, Hop(release)}
    <3>1. PICK f \in Files, v \in {run.from, run.hop, None} : sources' = [sources EXCEPT ![f] = v]
      BY <1>5 DEF Rewrite
    <3> QED BY <2>1, <3>1 DEF HopInv, SourcesKnown, Typed, HostTyped
  <2>4. SourcesKnown' /\ FinalOffered'
    BY <1>5, <2>2, <2>3 DEF Rewrite, SourcesKnown, FinalOffered, Hop
  <2>5. ~Changing' /\ (Preparing' => UNCHANGED run)
    BY <1>5, EndsOutside DEF Rewrite, Fails, Changing
  <2> QED
    BY <1>5, <2>1, <2>4, <2>5 DEF Rewrite, HopInv, HopPlanned, FromHere, HopOffered, Direct, Hop,
       Changing
<1>6. CASE Rewritten
  <2>1. run.from = release /\ run.hop = Hop(release) /\ Direct(release)
    BY <1>6 DEF Rewritten, HopInv, HopPlanned, FromHere, Preparing
  <2>2. run.hop # None
    BY <1>6 DEF Rewritten, Typed, RunTyped, Preparing, Codenamed, None
  <2>3. Offered = {run.hop}
    BY <1>6, <2>1, <2>2 DEF Rewritten, Mentions, Offered, HopInv, SourcesKnown
  <2>4. HopPlanned' /\ FromHere' /\ HopOffered'
    BY <1>6, <2>1, <2>3 DEF Rewritten, HopPlanned, FromHere, HopOffered, Direct, Hop, Offered
  <2> QED
    BY <1>6, <2>4 DEF Rewritten, HopInv, SourcesKnown, FinalOffered, Hop, Offered
<1>7. CASE NothingToRewrite
  BY <1>7, EndsOutside, HopKept DEF NothingToRewrite, Fails
<1>8. CASE Update
  BY <1>8, EndsOutside, HopKept DEF Update, Fails, Preparing, Changing
<1>9. CASE Unpack
  BY <1>9, HopMoves DEF Unpack, Preparing, Changing
<1>10. CASE NothingUnpacked
  BY <1>10, EndsOutside, HopKept
     DEF NothingUnpacked, DistUpgradeExits0, DistUpgradeFails, Fails, Preparing, Changing
<1>11. CASE DistUpgrade
  BY <1>11, EndsOutside, HopMoves
     DEF DistUpgrade, DistUpgradeExits0, DistUpgradeFails, Fails, Preparing, Changing
<1>12. CASE Recovery
  <2>1. run'.hop = run.hop /\ run'.from = run.from
    BY <1>12 DEF Recovery, Typed, RunTyped, Run
  <2> QED BY <1>12, <2>1, HopKept DEF Recovery, Preparing, Changing
<1>13. CASE EfiPurge \/ Gate \/ EndTransaction
  BY <1>13, EndsOutside, HopKept
     DEF EfiPurge, Gate, EndTransaction, Fails, Preparing, Changing
<1>14. CASE Reboot
  BY <1>14, EndsOutside, HopKept DEF Reboot
<1>15. CASE Boot
  BY <1>15, StartsOutside, HopKept DEF Boot, Preparing, Changing
<1>16. CASE OperatorReboots \/ AddSource
  BY <1>16, HopKept DEF OperatorReboots, AddSource
<1>17. CASE Crash
  <2>1. CASE UNCHANGED sources
    BY <1>17, <2>1, EndsOutside, HopKept DEF Crash
  <2>2. CASE pc = "rewrite" /\ \E f \in Files : sources' = [sources EXCEPT ![f] = None]
    <3>1. release = run.from /\ Direct(release)
      BY <2>2 DEF HopInv, HopPlanned, FromHere, Preparing
    <3>2. release # FinalTarget(given.profile)
      BY <3>1, HostFacts, DirectHop DEF Direct
    <3>3. \A f \in Files : sources'[f] \in {None, release, Hop(release)}
      BY <2>2 DEF HopInv, SourcesKnown, Typed, HostTyped
    <3> QED
      BY <1>17, <3>2, <3>3, EndsOutside
         DEF Crash, HopInv, HopPlanned, FromHere, SourcesKnown, HopOffered, FinalOffered, Hop,
             Preparing, Changing
  <2> QED BY <1>17, <2>1, <2>2 DEF Crash
<1>18. CASE UNCHANGED vars
  BY <1>18, HopKept DEF vars
<1> QED
  BY <1>1, <1>2, <1>3, <1>4, <1>5, <1>6, <1>7, <1>8, <1>9, <1>10, <1>11, <1>12, <1>13, <1>14,
     <1>15, <1>16, <1>17, <1>18 DEF Next, Step

LEMMA HopInvInit == Init => HopInv
<1> SUFFICES ASSUME Init PROVE HopInv
  OBVIOUS
<1>1. release # None
  BY UpgradeAssumption DEF Init
<1>2. Offered = {release} /\ SourcesKnown
  BY <1>1 DEF Init, Offered, SourcesKnown
<1> QED
  BY <1>2 DEF Init, HopInv, HopPlanned, FromHere, HopOffered, FinalOffered, Preparing, Changing
-----------------------------------------------------------------------------
(* Third-party sources.  The quarantine is always done, because MarkRunning *)
(* has emptied the details that could call it done, and nobody adds a       *)
(* source while the phase runs.                                             *)
QuarantineDue == pc = "quarantine" => run.quarantine

ForeignGone ==
  pc \in {"guards", "transaction", "rewrite"} \/ Changing => foreign = {}

ForeignInv == QuarantineDue /\ ForeignGone

LEMMA ForeignInvStep ==
  ASSUME Typed, ForeignInv, [Next]_vars
  PROVE  ForeignInv'
<1> USE DEF ForeignInv, QuarantineDue, ForeignGone, Sources, Changing, Ends
<1>1. CASE Operator
  BY <1>1 DEF Operator, Start
<1>2. CASE Skip \/ RefuseToLoop \/ AlreadyThere \/ Refuse
  BY <1>2 DEF Skip, RefuseToLoop, AlreadyThere, Refuse, Fails
<1>3. CASE Begin
  <2>1. MarkRunning(mem).details.stage = "none"
    BY RunningTyped DEF Typed, RunTyped, Nil
  <2>2. ~StageAtLeast(MarkRunning(mem).details.stage, Stage[2])
    BY <2>1, NoStage
  <2>3. run'.quarantine
    BY <1>3, <2>2 DEF Begin, Typed, RunTyped, Run
  <2> QED BY <1>3, <2>3 DEF Begin
<1>4. CASE Quarantine
  BY <1>4 DEF Quarantine, Fails
<1>5. CASE Quarantined \/ Guard \/ Transaction
  BY <1>5 DEF Quarantined, Guard, Transaction, Fails
<1>6. CASE Rewrite \/ Rewritten \/ NothingToRewrite \/ Update
  BY <1>6 DEF Rewrite, Rewritten, NothingToRewrite, Update, Fails
<1>7. CASE Unpack \/ NothingUnpacked \/ DistUpgrade
  BY <1>7 DEF Unpack, NothingUnpacked, DistUpgrade, DistUpgradeExits0, DistUpgradeFails, Fails
<1>8. CASE Recovery \/ EfiPurge \/ Gate \/ EndTransaction \/ Reboot
  BY <1>8 DEF Recovery, EfiPurge, Gate, EndTransaction, Reboot, Fails
<1>9. CASE Boot
  BY <1>9 DEF Boot, Start
<1>10. CASE OperatorReboots \/ Crash \/ AddSource
  BY <1>10 DEF OperatorReboots, Crash, AddSource
<1>11. CASE UNCHANGED vars
  BY <1>11 DEF vars
<1> QED
  BY <1>1, <1>2, <1>3, <1>4, <1>5, <1>6, <1>7, <1>8, <1>9, <1>10, <1>11 DEF Next, Step

(* Whatever earlier attempts left behind and however they ended, a          *)
(* dist-upgrade runs with official sources of the planned hop only.         *)
THEOREM SourcesClean == Spec => []CleanSources
<1> DEFINE Inv == Typed /\ HopInv /\ ForeignInv
<1>1. Init => Inv
  BY TypedInit, HopInvInit DEF Init, ForeignInv, QuarantineDue, ForeignGone, Changing
<1>2. Inv /\ [Next]_vars => Inv'
  BY HostTypedStep, RunTypedStep, HopInvStep, ForeignInvStep DEF Typed
<1>3. Inv => CleanSources
  BY DEF CleanSources, HopInv, HopOffered, ForeignInv, ForeignGone, Changing
<1> QED
  BY <1>1, <1>2, <1>3, PTL DEF Spec
-----------------------------------------------------------------------------
(* Every step that changes the release is one of a planned hop.             *)
THEOREM HopsAreOrdered == Spec => HopByHop
<1> DEFINE Inv == Typed /\ HopInv
           Hops == release' # release =>
                     /\ release = 2204 => release' = 2404
                     /\ given.profile.auto
                     /\ IsLTS(release') \/ given.profile.nonLTS
                     /\ given.profile.direct # "off"
<1>1. Init => Inv
  BY TypedInit, HopInvInit
<1>2. Inv /\ [Next]_vars => Inv'
  BY HostTypedStep, RunTypedStep, HopInvStep DEF Typed
<1>3. Inv /\ [Next]_vars => [Hops]_vars
  <2> SUFFICES ASSUME Inv, [Next]_vars, release' # release PROVE Hops
    OBVIOUS
  <2>1. Unpack \/ DistUpgrade
    BY DEF Next, Step, vars, Packages, Operator, Skip, RefuseToLoop, AlreadyThere, Refuse, Begin,
           Quarantine, Quarantined, Guard, Transaction, Rewrite, Rewritten, NothingToRewrite,
           Update, NothingUnpacked, Recovery, EfiPurge, Gate, EndTransaction, Reboot, Boot,
           OperatorReboots, Crash, AddSource
  <2>2. Changing /\ release' \in Offered
    BY <2>1 DEF Unpack, DistUpgrade, Changing
  <2>3. release' = run.hop /\ release = run.from
    BY <2>2 DEF HopInv, HopOffered, FromHere
  <2>4. Direct(run.from) /\ run.hop = Hop(run.from)
    BY <2>2 DEF HopInv, HopPlanned
  <2> QED
    BY <2>3, <2>4, HostFacts, DirectHop DEF Direct, Hop
<1>4. Spec => [][Hops]_vars
  BY <1>1, <1>2, <1>3, PTL DEF Spec
<1> QED
  BY <1>4 DEF HopByHop
-----------------------------------------------------------------------------
(* A phase that is recorded as done is done on the release it was asked for. *)
DoneInv ==
  /\ disk.status = "done" => release = FinalTarget(given.profile)
  /\ pc = "plan" => /\ mem.status = "done" => release = FinalTarget(given.profile)
                    /\ disk.status = "done" => mem.status = "done"
  /\ pc \notin {"idle", "plan"} => disk.status # "done" /\ mem.status # "done"

LEMMA StatusKept ==
  ASSUME Typed
  PROVE  /\ MarkStatus(mem, "failed_fatal").status = "failed_fatal"
         /\ MarkStatus(mem, "skipped").status = "skipped"
         /\ \A stage : [mem EXCEPT !.details.stage = stage].status = mem.status
         /\ [mem EXCEPT !.count = @ + 1].status = mem.status
         /\ Recovered(disk).status = "done" <=> disk.status = "done"
BY DEF Typed, RunTyped, Record, MarkStatus, Recovered

LEMMA DoneInvStep ==
  ASSUME Typed, DoneInv, [Next]_vars
  PROVE  DoneInv'
<1> USE StatusKept DEF DoneInv, Packages, Sources, Machine, Bounds, Ends, Unsaved
<1>1. ASSUME Fails, pc # "idle", UNCHANGED <<given, release>> PROVE DoneInv'
  BY <1>1 DEF Fails, Persist
<1>2. ASSUME NEW stage, AdvanceStage(stage), pc \notin {"idle", "plan"}, UNCHANGED <<given, release>>
      PROVE  DoneInv'
  BY <1>2 DEF AdvanceStage, Persist
<1>3. ASSUME NEW cmd, NEW auto, Start(cmd, auto), UNCHANGED <<given, release>>
      PROVE  DoneInv'
  BY <1>3 DEF Start
<1>4. CASE Operator
  BY <1>3, <1>4 DEF Operator
<1>5. CASE Skip
  BY <1>5 DEF Skip
<1>6. CASE RefuseToLoop
  BY <1>1, <1>6 DEF RefuseToLoop, Planned
<1>7. CASE AlreadyThere
  <2>1. release = FinalTarget(given.profile)
    BY <1>7, NoopHop DEF AlreadyThere, Action
  <2> QED BY <1>7, <2>1 DEF AlreadyThere
<1>8. CASE Refuse
  BY <1>8 DEF Refuse, Planned, Persist
<1>9. CASE Begin
  <2> DEFINE r == MarkRunning(mem)
             pre == IF r.details.pre # None THEN r.details.pre ELSE release
             b == [r EXCEPT !.details = [nil |-> FALSE, pre |-> pre, stage |-> Stage[1]]]
  <2>1. b.status = "running"
    BY DEF Typed, RunTyped, Record, MarkRunning
  <2>2. Persist(b) /\ pc' = "quarantine" /\ Planned
    BY <1>9 DEF Begin
  <2> QED BY <1>9, <2>1, <2>2 DEF Begin, Persist, Planned
<1>10. CASE Quarantine \/ Guard \/ Transaction \/ Rewrite \/ NothingToRewrite
  BY <1>1, <1>10 DEF Quarantine, Guard, Transaction, Rewrite, NothingToRewrite
<1>11. CASE Quarantined \/ Rewritten
  BY <1>2, <1>11 DEF Quarantined, Rewritten
<1>12. CASE Update \/ EndTransaction
  BY <1>1, <1>2, <1>12 DEF Update, EndTransaction
<1>13. CASE Gate
  BY <1>1, <1>2, <1>13 DEF Gate
<1>14. CASE Unpack
  BY <1>14 DEF Unpack
<1>15. CASE NothingUnpacked
  BY <1>1, <1>15 DEF NothingUnpacked, DistUpgradeExits0, DistUpgradeFails
<1>16. CASE DistUpgrade
  <2>1. CASE Fails
    BY <1>16, <2>1 DEF DistUpgrade, Fails, Persist
  <2>2. CASE Unsaved /\ pc' \in {"gate", "recovery", "efi_purge"}
    BY <1>16, <2>2 DEF DistUpgrade
  <2> QED BY <1>16, <2>1, <2>2 DEF DistUpgrade, DistUpgradeExits0, DistUpgradeFails
<1>17. CASE Recovery
  BY <1>17 DEF Recovery
<1>18. CASE EfiPurge
  BY <1>1, <1>18 DEF EfiPurge
<1>19. CASE Reboot
  BY <1>19 DEF Reboot
<1>20. CASE Boot
  BY <1>3, <1>20 DEF Boot
<1>21. CASE OperatorReboots \/ Crash \/ AddSource
  BY <1>21 DEF OperatorReboots, Crash, AddSource
<1>22. CASE UNCHANGED vars
  BY <1>22 DEF vars
<1> QED
  BY <1>4, <1>5, <1>6, <1>7, <1>8, <1>9, <1>10, <1>11, <1>12, <1>13, <1>14, <1>15, <1>16, <1>17,
     <1>18, <1>19, <1>20, <1>21, <1>22 DEF Next, Step

(* What state.json calls done has the release of the profile, and sources   *)
(* that name no other.                                                      *)
THEOREM DoneMeansSettled == Spec => []DoneIsSettled
<1> DEFINE Inv == Typed /\ HopInv /\ DoneInv
<1>1. Init => Inv
  BY TypedInit, HopInvInit DEF Init, DoneInv, Fresh
<1>2. Inv /\ [Next]_vars => Inv'
  BY HostTypedStep, RunTypedStep, HopInvStep, DoneInvStep DEF Typed
<1>3. Inv => DoneIsSettled
  BY DEF DoneIsSettled, DoneInv, HopInv, FinalOffered
<1> QED
  BY <1>1, <1>2, <1>3, PTL DEF Spec
-----------------------------------------------------------------------------
(* The last gate of the hop is passed once, and nothing touches packages or *)
(* boot artifacts between it and the reboot.                                *)
Audited ==
  pc \in {"restore", "reboot"} => /\ dpkg = "ok" \/ run.blind
                                 /\ guards = "fresh"

(* No reboot is asked for on half-configured packages unless the audit was  *)
(* blind, nor without boot guards for the kernel it boots.                  *)
THEOREM RebootsAreSound == Spec => []RebootSound
<1> DEFINE Inv == Typed /\ Audited
<1>1. Init => Inv
  BY TypedInit DEF Init, Audited
<1>2. Inv /\ [Next]_vars => Inv'
  <2> SUFFICES ASSUME Typed, Audited, [Next]_vars PROVE Audited'
    BY HostTypedStep, RunTypedStep DEF Typed
  <2> USE DEF Audited, Packages, Ends, Fails
  <2>1. CASE Operator \/ Boot
    BY <2>1 DEF Operator, Boot, Start
  <2>2. CASE Skip \/ RefuseToLoop \/ AlreadyThere \/ Refuse \/ Begin
    BY <2>2 DEF Skip, RefuseToLoop, AlreadyThere, Refuse, Begin
  <2>3. CASE Quarantine \/ Quarantined \/ Guard \/ Transaction
    BY <2>3 DEF Quarantine, Quarantined, Guard, Transaction
  <2>4. CASE Rewrite \/ Rewritten \/ NothingToRewrite \/ Update
    BY <2>4 DEF Rewrite, Rewritten, NothingToRewrite, Update
  <2>5. CASE Unpack \/ NothingUnpacked \/ DistUpgrade \/ Recovery \/ EfiPurge
    BY <2>5 DEF Unpack, NothingUnpacked, DistUpgrade, DistUpgradeExits0, DistUpgradeFails,
                Recovery, EfiPurge
  <2>6. CASE Gate
    <3>1. CASE pc' = "restore"
      <4>1. run' = [run EXCEPT !.blind = dpkg' # "ok"] /\ guards' = "fresh"
        BY <2>6, <3>1 DEF Gate
      <4>2. run'.blind = (dpkg' # "ok")
        BY <4>1 DEF Typed, RunTyped, Run
      <4> QED BY <4>1, <4>2
    <3> QED BY <2>6, <3>1 DEF Gate
  <2>7. CASE EndTransaction \/ Reboot
    BY <2>7 DEF EndTransaction, Reboot
  <2>8. CASE OperatorReboots \/ Crash \/ AddSource
    BY <2>8 DEF OperatorReboots, Crash, AddSource
  <2>9. CASE UNCHANGED vars
    BY <2>9 DEF vars
  <2> QED
    BY <2>1, <2>2, <2>3, <2>4, <2>5, <2>6, <2>7, <2>8, <2>9 DEF Next, Step
<1>3. Inv => RebootSound
  BY DEF Audited, RebootSound
<1> QED
  BY <1>1, <1>2, <1>3, PTL DEF Spec
-----------------------------------------------------------------------------
(* Sizes.  A file that was rewritten does not name the old release any      *)
(* more, for no hop leads back to where it starts.                          *)
LEMMA Sizes ==
  ASSUME Typed
  PROVE  /\ IsFiniteSet(foreign) /\ Cardinality(foreign) \in Nat
         /\ IsFiniteSet(ToRewrite) /\ Cardinality(ToRewrite) \in Nat
         /\ Cardinality(Files) \in Nat /\ Cardinality(ToRewrite) <= Cardinality(Files)
<1>1. IsFiniteSet(Files) /\ IsFiniteSet(Foreign)
  BY UpgradeAssumption
<1>2. foreign \in SUBSET Foreign /\ ToRewrite \in SUBSET Files
  BY DEF Typed, HostTyped, ToRewrite
<1>3. IsFiniteSet(foreign) /\ IsFiniteSet(ToRewrite) /\ Cardinality(ToRewrite) <= Cardinality(Files)
  BY <1>1, <1>2, FS_Subset
<1> QED
  BY <1>1, <1>3, FS_CardinalityType

LEMMA Tries ==
  ASSUME Typed
  PROVE  run.try \in {1, 2} /\ (pc = "recovery" => run.try = 1)
  BY DEF Typed, RunTyped, Run

(* What is ahead where an invocation ends or has a place of its own.        *)
LEMMA EndsNext ==
  ASSUME Typed, pc # "idle", Ends
  PROVE  StepsAhead' \in 0..(StepsAhead - 1)
<1>1. StepsAhead' = 0
  BY DEF Ends, StepsAhead
<1>2. pc \in ControlPoint
  BY DEF Typed, RunTyped
<1>3. StepsAhead \in Nat /\ StepsAhead > 0
  <2> HIDE DEF ToRewrite
  <2>1. CASE pc \in {"quarantine", "guards", "transaction", "rewrite", "plan"}
    <3>1. StepsAhead \in
            {11 + Cardinality(ToRewrite), 12 + Cardinality(Files), 13 + Cardinality(Files),
             14 + Cardinality(Files) + Cardinality(foreign),
             15 + Cardinality(Files) + Cardinality(foreign)}
      BY <2>1 DEF StepsAhead
    <3> QED
      BY <3>1, Sizes
  <2>2. CASE pc \in {"dist_upgrade", "unpacked"}
    <3>1. StepsAhead \in {5 + 3 * (2 - run.try), 6 + 3 * (2 - run.try)}
      BY <2>2 DEF StepsAhead, Again
    <3> QED
      BY <3>1, Tries
  <2>3. CASE pc \in {"update", "recovery", "efi_purge", "gate", "restore", "reboot"}
    <3>1. StepsAhead \in {10, 7, 4, 3, 2, 1}
      BY <2>3 DEF StepsAhead
    <3> QED
      BY <3>1
  <2> QED
    BY <1>2, <2>1, <2>2, <2>3 DEF ControlPoint
<1> QED
  BY <1>1, <1>3

(* A third-party file that was moved away has not to be moved again. *)
LEMMA QuarantineMoves ==
  ASSUME Typed, Quarantine
  PROVE  StepsAhead' \in 0..(StepsAhead - 1)
<1>1. pc = "quarantine"
  BY DEF Quarantine
<1>2. CASE Fails
  BY <1>1, <1>2, EndsNext DEF Fails
<1>3. CASE \E f \in foreign : foreign' = foreign \ {f} /\ UNCHANGED pc
  <2>1. PICK f \in foreign : foreign' = foreign \ {f}
    BY <1>3
  <2>2. Cardinality(foreign') = Cardinality(foreign) - 1 /\ Cardinality(foreign') \in Nat
    BY <2>1, Sizes, FS_RemoveElement, FS_CardinalityType
  <2>3. /\ StepsAhead = 14 + Cardinality(Files) + Cardinality(foreign)
        /\ StepsAhead' = 14 + Cardinality(Files) + Cardinality(foreign')
    BY <1>1, <1>3 DEF StepsAhead
  <2> QED
    BY <2>2, <2>3, Sizes
<1> QED
  BY <1>2, <1>3 DEF Quarantine

LEMMA RewriteMoves ==
  ASSUME Typed, HopInv, Rewrite
  PROVE  StepsAhead' \in 0..(StepsAhead - 1)
<1>1. pc = "rewrite"
  BY DEF Rewrite
<1>2. CASE Fails
  BY <1>1, <1>2, EndsNext DEF Fails
<1>3. CASE \E f \in Files : /\ sources[f] = run.from
                            /\ sources' = [sources EXCEPT ![f] = run.hop]
                            /\ UNCHANGED <<pc, run>>
  <2>1. PICK f \in Files : /\ sources[f] = run.from
                           /\ sources' = [sources EXCEPT ![f] = run.hop]
                           /\ UNCHANGED <<pc, run>>
    BY <1>3
  <2>2. run.hop # run.from
    BY <1>1, HostFacts, DirectHop DEF HopInv, HopPlanned, Preparing, Direct, Hop
  <2>3. ToRewrite' = ToRewrite \ {f} /\ f \in ToRewrite
    BY <2>1, <2>2 DEF ToRewrite, Typed, HostTyped
  <2>4. Cardinality(ToRewrite') = Cardinality(ToRewrite) - 1 /\ Cardinality(ToRewrite') \in Nat
    BY <2>3, Sizes, FS_RemoveElement, FS_CardinalityType
  <2>5. /\ StepsAhead = 11 + Cardinality(ToRewrite)
        /\ StepsAhead' = 11 + Cardinality(ToRewrite')
    BY <1>1, <2>1 DEF StepsAhead
  <2> HIDE DEF ToRewrite
  <2> QED
    BY <2>4, <2>5, Sizes
<1> QED
  BY <1>2, <1>3 DEF Rewrite

(* Up to dist-upgrade each place is passed once. *)
LEMMA PreparationMoves ==
  ASSUME Typed, Begin \/ Quarantined \/ Guard \/ Transaction \/ Rewritten \/ Update,
         ~Fails
  PROVE  StepsAhead' \in 0..(StepsAhead - 1)
<1>1. CASE Begin
  <2>1. pc = "plan" /\ pc' = "quarantine" /\ foreign' = foreign
    BY <1>1 DEF Begin, Planned, Sources
  <2>2. /\ StepsAhead = 15 + Cardinality(Files) + Cardinality(foreign)
        /\ StepsAhead' = 14 + Cardinality(Files) + Cardinality(foreign)
    BY <2>1 DEF StepsAhead
  <2> QED
    BY <2>2, Sizes
<1>2. CASE Quarantined
  <2>1. pc = "quarantine" /\ pc' = "guards"
    BY <1>2 DEF Quarantined
  <2>2. /\ StepsAhead = 14 + Cardinality(Files) + Cardinality(foreign)
        /\ StepsAhead' = 13 + Cardinality(Files)
    BY <2>1 DEF StepsAhead
  <2> QED
    BY <2>2, Sizes
<1>3. CASE Guard
  <2>1. pc = "guards" /\ pc' = "transaction"
    BY <1>3 DEF Guard
  <2>2. StepsAhead = 13 + Cardinality(Files) /\ StepsAhead' = 12 + Cardinality(Files)
    BY <2>1 DEF StepsAhead
  <2> QED
    BY <2>2, Sizes
<1>4. CASE Transaction
  <2>1. pc = "transaction" /\ pc' = "rewrite" /\ ToRewrite' = ToRewrite
    BY <1>4 DEF Transaction, Sources, ToRewrite
  <2>2. StepsAhead = 12 + Cardinality(Files) /\ StepsAhead' = 11 + Cardinality(ToRewrite)
    BY <2>1 DEF StepsAhead
  <2> HIDE DEF ToRewrite
  <2> QED
    BY <2>2, Sizes
<1>5. CASE Rewritten
  <2>1. pc = "rewrite" /\ pc' = "update"
    BY <1>5 DEF Rewritten
  <2>2. StepsAhead = 11 + Cardinality(ToRewrite) /\ StepsAhead' = 10
    BY <2>1 DEF StepsAhead
  <2> HIDE DEF ToRewrite
  <2> QED
    BY <2>2, Sizes
<1>6. CASE Update
  <2>1. pc = "update" /\ pc' = "dist_upgrade" /\ run' = run
    BY <1>6 DEF Update
  <2>2. StepsAhead = 10 /\ StepsAhead' = 6 + 3 * (2 - run.try)
    BY <2>1 DEF StepsAhead, Again
  <2> QED
    BY <2>2, Tries
<1> QED
  BY <1>1, <1>2, <1>3, <1>4, <1>5, <1>6

(* The recovery comes back to dist-upgrade with the last try. *)
LEMMA UpgradeMoves ==
  ASSUME Typed,
         Unpack \/ NothingUnpacked \/ DistUpgrade \/ Recovery \/ EfiPurge \/ Gate
           \/ EndTransaction,
         ~Fails
  PROVE  StepsAhead' \in 0..(StepsAhead - 1)
<1>1. CASE Unpack
  <2>1. pc = "dist_upgrade" /\ pc' = "unpacked" /\ run' = run
    BY <1>1 DEF Unpack
  <2>2. StepsAhead = 6 + 3 * (2 - run.try) /\ StepsAhead' = 5 + 3 * (2 - run.try)
    BY <2>1 DEF StepsAhead, Again
  <2> QED
    BY <2>2, Tries
<1>2. CASE NothingUnpacked \/ DistUpgrade
  <2>1. /\ pc \in {"dist_upgrade", "unpacked"}
        /\ pc' \in {"gate", "efi_purge"} \/ (pc' = "recovery" /\ run.try = 1)
    BY <1>2 DEF NothingUnpacked, DistUpgrade, DistUpgradeExits0, DistUpgradeFails
  <2>2. /\ StepsAhead \in {5 + 3 * (2 - run.try), 6 + 3 * (2 - run.try)}
        /\ StepsAhead' \in {3, 4} \/ (StepsAhead' = 7 /\ run.try = 1)
    BY <2>1 DEF StepsAhead, Again
  <2> QED
    BY <2>2, Tries
<1>3. CASE Recovery
  <2>1. pc = "recovery" /\ pc' = "dist_upgrade" /\ run'.try = 2
    BY <1>3, Tries DEF Recovery, Typed, RunTyped, Run
  <2>2. StepsAhead = 7 /\ StepsAhead' = 6 + 3 * (2 - 2)
    BY <2>1 DEF StepsAhead, Again
  <2> QED
    BY <2>2
<1>4. CASE EfiPurge \/ Gate \/ EndTransaction
  <2>1. \/ pc = "efi_purge" /\ pc' = "gate"
        \/ pc = "gate" /\ pc' = "restore"
        \/ pc = "restore" /\ pc' = "reboot"
    BY <1>4 DEF EfiPurge, Gate, EndTransaction
  <2>2. \/ StepsAhead = 4 /\ StepsAhead' = 3
        \/ StepsAhead = 3 /\ StepsAhead' = 2
        \/ StepsAhead = 2 /\ StepsAhead' = 1
    BY <2>1 DEF StepsAhead
  <2> QED
    BY <2>2
<1> QED
  BY <1>1, <1>2, <1>3, <1>4

LEMMA StepMoves ==
  ASSUME Typed, HopInv, Step
  PROVE  StepsAhead' \in 0..(StepsAhead - 1)
<1>1. CASE Skip \/ RefuseToLoop \/ AlreadyThere \/ Refuse \/ NothingToRewrite \/ Reboot
  <2>1. pc # "idle" /\ Ends
    BY <1>1 DEF Skip, RefuseToLoop, AlreadyThere, Refuse, NothingToRewrite, Reboot, Planned, Fails
  <2> QED
    BY <2>1, EndsNext
<1>2. CASE Begin \/ Quarantined \/ Guard \/ Transaction \/ Rewritten \/ Update
  <2>1. pc # "idle"
    BY <1>2 DEF Begin, Quarantined, Guard, Transaction, Rewritten, Update, Planned
  <2> QED
    BY <1>2, <2>1, PreparationMoves, EndsNext DEF Fails
<1>3. CASE \/ Unpack \/ NothingUnpacked \/ DistUpgrade \/ Recovery \/ EfiPurge \/ Gate
           \/ EndTransaction
  <2>1. pc # "idle"
    BY <1>3 DEF Unpack, NothingUnpacked, DistUpgrade, Recovery, EfiPurge, Gate, EndTransaction
  <2> QED
    BY <1>3, <2>1, UpgradeMoves, EndsNext DEF Fails
<1> QED
  BY <1>1, <1>2, <1>3, QuarantineMoves, RewriteMoves DEF Step

(* However the commands of an invocation end, there are only so many of     *)
(* them: every file once, dist-upgrade at most twice ("ONE bounded recovery *)
(* cycle", ubuntu_upgrade.go:1150).                                         *)
THEOREM InvocationsAreBounded == Spec => InvocationIsBounded
<1> DEFINE Closing == Step => StepsAhead' \in 0..(StepsAhead - 1)
<1>1. Typed /\ HopInv /\ [Next]_vars => [Closing]_vars
  BY StepMoves
<1> HIDE DEF Closing
<1>2. Typed /\ HopInv /\ [Next]_vars => Typed' /\ HopInv'
  BY HostTypedStep, RunTypedStep, HopInvStep DEF Typed
<1>3. Spec => [][Closing]_vars
  BY <1>1, <1>2, TypedInit, HopInvInit, PTL DEF Spec
<1> QED
  BY <1>3 DEF InvocationIsBounded, Closing
-----------------------------------------------------------------------------
(* Reboots.  Between two saves of the count an invocation counts from what  *)
(* it loaded.                                                               *)
CountLoaded == pc # "idle" => mem.count = disk.count

Counting ==
  /\ disk'.count # disk.count =>
       disk'.count = disk.count + 1 /\ ~LoopProtection(disk'.count)
  /\ (host = "up" /\ host' = "down" /\ UNCHANGED <<starts, crashes>>) =>
       disk'.count # disk.count

LEMMA PersistCounts ==
  ASSUME NEW r, Persist(r), r.count = mem.count, mem.count = disk.count
  PROVE  mem'.count = disk'.count /\ disk'.count = disk.count
  BY DEF Persist

LEMMA CountKept ==
  ASSUME Typed
  PROVE  /\ \A s : MarkStatus(mem, s).count = mem.count
         /\ MarkDone(mem).count = mem.count /\ MarkRunning(mem).count = mem.count
         /\ \A d : [mem EXCEPT !.details.stage = d].count = mem.count
         /\ \A d : [MarkRunning(mem) EXCEPT !.details = d].count = mem.count
         /\ Recovered(disk).count = disk.count
         /\ mem.count \in Nat /\ disk.count \in Nat
  BY DEF Typed, RunTyped, Record, MarkStatus, MarkDone, MarkRunning, Recovered

LEMMA StartCounts ==
  ASSUME Typed, NEW cmd, NEW auto, Start(cmd, auto)
  PROVE  CountLoaded' /\ disk'.count = disk.count
  BY CountKept DEF Start, Ends, CountLoaded

LEMMA SavesCount ==
  ASSUME Typed, pc # "idle", CountLoaded, host' = host,
         \/ Unsaved
         \/ Fails
         \/ \E stage : AdvanceStage(stage)
         \/ Persist(MarkDone(mem))
         \/ \E s : Persist(MarkStatus(mem, s))
         \/ \E d : Persist([MarkRunning(mem) EXCEPT !.details = d])
  PROVE  CountLoaded' /\ Counting
<1>1. mem.count = disk.count
  BY DEF CountLoaded
<1>2. mem'.count = disk'.count /\ disk'.count = disk.count
  <2>1. CASE Unsaved
    BY <1>1, <2>1 DEF Unsaved
  <2>2. CASE Fails
    BY <1>1, <2>2, CountKept, PersistCounts DEF Fails
  <2>3. CASE \E stage : AdvanceStage(stage)
    <3>1. PICK stage : Persist([mem EXCEPT !.details.stage = stage])
      BY <2>3 DEF AdvanceStage
    <3>2. [mem EXCEPT !.details.stage = stage].count = mem.count
      BY DEF Typed, RunTyped, Record
    <3> QED
      BY <1>1, <3>1, <3>2, PersistCounts
  <2>4. CASE Persist(MarkDone(mem))
    BY <1>1, <2>4, CountKept, PersistCounts
  <2>5. CASE \E s : Persist(MarkStatus(mem, s))
    BY <1>1, <2>5, CountKept, PersistCounts
  <2>6. CASE \E d : Persist([MarkRunning(mem) EXCEPT !.details = d])
    BY <1>1, <2>6, CountKept, PersistCounts
  <2> QED
    BY <2>1, <2>2, <2>3, <2>4, <2>5, <2>6
<1> QED
  BY <1>2 DEF CountLoaded, Counting

LEMMA CountingStep ==
  ASSUME Typed, CountLoaded, [Next]_vars
  PROVE  CountLoaded' /\ [Counting]_vars
<1> USE DEF Machine
<1>1. CASE Operator
  BY <1>1, StartCounts DEF Operator, Counting
<1>2. CASE Skip \/ RefuseToLoop \/ AlreadyThere
  <2>1. pc # "idle" /\ host' = host
    BY <1>2 DEF Skip, RefuseToLoop, AlreadyThere, Planned
  <2> QED
    BY <1>2, <2>1, SavesCount DEF Skip, RefuseToLoop, AlreadyThere
<1>3. CASE Refuse
  <2>1. pc # "idle" /\ host' = host
    BY <1>3 DEF Refuse, Planned
  <2>2. Unsaved \/ \E s : Persist(MarkStatus(mem, s))
    BY <1>3 DEF Refuse, Unsaved
  <2> QED
    BY <2>1, <2>2, SavesCount
<1>4. CASE Begin
  <2>1. pc # "idle" /\ host' = host
    BY <1>4 DEF Begin, Planned
  <2>2. \E d : Persist([MarkRunning(mem) EXCEPT !.details = d])
    BY <1>4 DEF Begin
  <2> QED
    BY <2>1, <2>2, SavesCount
<1>5. CASE Quarantine \/ Quarantined \/ Guard \/ Transaction
  <2>1. pc # "idle" /\ host' = host /\ (Unsaved \/ Fails \/ \E stage : AdvanceStage(stage))
    BY <1>5 DEF Quarantine, Quarantined, Guard, Transaction
  <2> QED
    BY <2>1, SavesCount
<1>6. CASE Rewrite \/ Rewritten \/ NothingToRewrite \/ Update
  <2>1. pc # "idle" /\ host' = host /\ (Unsaved \/ Fails \/ \E stage : AdvanceStage(stage))
    BY <1>6 DEF Rewrite, Rewritten, NothingToRewrite, Update
  <2> QED
    BY <2>1, SavesCount
<1>7. CASE Unpack \/ NothingUnpacked \/ DistUpgrade
  <2>1. pc # "idle" /\ host' = host /\ (Unsaved \/ Fails)
    BY <1>7 DEF Unpack, NothingUnpacked, DistUpgrade, DistUpgradeExits0, DistUpgradeFails
  <2> QED
    BY <2>1, SavesCount
<1>8. CASE Recovery \/ EfiPurge \/ Gate \/ EndTransaction
  <2>1. pc # "idle" /\ host' = host /\ (Unsaved \/ Fails \/ \E stage : AdvanceStage(stage))
    BY <1>8 DEF Recovery, EfiPurge, Gate, EndTransaction
  <2> QED
    BY <2>1, SavesCount
<1>9. CASE Reboot
  <2>1. mem.count = disk.count /\ mem'.count = mem.count + 1 /\ pc' = "idle"
    BY <1>9, CountKept DEF Reboot, Ends, CountLoaded, Typed, RunTyped, Record
  <2>2. \/ disk' = disk /\ host' = host
        \/ disk' = mem' /\ ~LoopProtection(mem'.count)
    BY <1>9 DEF Reboot
  <2> QED
    BY <2>1, <2>2, CountKept DEF CountLoaded, Counting
<1>10. CASE Boot
  <2>1. host' = "up"
    BY <1>10 DEF Boot
  <2>2. CASE unit = "none"
    BY <1>10, <2>1, <2>2 DEF Boot, CountLoaded, Counting
  <2>3. CASE unit # "none"
    BY <1>10, <2>1, <2>3, StartCounts DEF Boot, Counting
  <2> QED
    BY <2>2, <2>3
<1>11. CASE OperatorReboots
  <2>1. starts' # starts /\ disk' = disk /\ pc' = pc /\ pc = "idle"
    BY <1>11 DEF OperatorReboots, Unsaved, Typed, HostTyped
  <2> QED
    BY <2>1 DEF CountLoaded, Counting
<1>12. CASE Crash
  <2>1. crashes' # crashes /\ disk' = disk /\ pc' = "idle"
    BY <1>12 DEF Crash, Ends, Unsaved, Typed, HostTyped
  <2> QED
    BY <2>1 DEF CountLoaded, Counting
<1>13. CASE AddSource
  BY <1>13 DEF AddSource, Unsaved, CountLoaded, Counting
<1>14. CASE UNCHANGED vars
  BY <1>14 DEF vars, CountLoaded
<1> QED
  BY <1>1, <1>2, <1>3, <1>4, <1>5, <1>6, <1>7, <1>8, <1>9, <1>10, <1>11, <1>12, <1>13, <1>14
     DEF Next, Step

(* In the whole life of a host the phase takes it down no more often than   *)
(* the limits of handleRebootRequired say (main.go:2202), whatever is       *)
(* killed, fails to be saved or is begun again: the reason why a dist-      *)
(* upgrade without effect does not go on for ever.                          *)
THEOREM RebootsStayCounted == Spec => RebootsAreCounted
<1>1. Init => CountLoaded
  BY DEF Init, CountLoaded
<1>2. Typed /\ CountLoaded /\ [Next]_vars => CountLoaded' /\ [Counting]_vars
  BY CountingStep
<1>3. Typed /\ [Next]_vars => Typed'
  BY HostTypedStep, RunTypedStep DEF Typed
<1>4. Spec => [][Counting]_vars
  BY <1>1, <1>2, <1>3, TypedInit, PTL DEF Spec
<1> QED
  BY <1>4 DEF RebootsAreCounted, Counting
-----------------------------------------------------------------------------
(* The phase as the pipeline sees it. *)
Working == {"quarantine", "guards", "transaction", "rewrite", "update", "dist_upgrade",
            "unpacked", "recovery", "efi_purge", "gate", "restore"}

(* It works on or asks for a reboot, and saves its status or not; or fails. *)
WorksOn == pc' \in Working \cup {"reboot"} /\ (Unsaved \/ \E stage : AdvanceStage(stage))

LEMMA WorkGoesOn ==
  ASSUME Step, pc \notin {"plan", "reboot"}
  PROVE  pc \in Working /\ (WorksOn \/ Fails)
<1> USE DEF Working, WorksOn
<1>1. CASE Quarantine \/ Quarantined \/ Guard \/ Transaction
  BY <1>1 DEF Quarantine, Quarantined, Guard, Transaction
<1>2. CASE Rewrite \/ Rewritten \/ NothingToRewrite \/ Update
  BY <1>2 DEF Rewrite, Rewritten, NothingToRewrite, Update
<1>3. CASE Unpack \/ NothingUnpacked \/ DistUpgrade
  BY <1>3 DEF Unpack, NothingUnpacked, DistUpgrade, DistUpgradeExits0, DistUpgradeFails
<1>4. CASE Recovery \/ EfiPurge \/ Gate \/ EndTransaction
  BY <1>4 DEF Recovery, EfiPurge, Gate, EndTransaction
<1> QED
  BY <1>1, <1>2, <1>3, <1>4
     DEF Step, Skip, RefuseToLoop, AlreadyThere, Refuse, Begin, Planned, Reboot

(* A host that is down runs nothing. *)
DownIdle == host = "down" => pc = "idle"

LEMMA DownIdleStep == DownIdle /\ [Next]_vars => DownIdle'
<1> SUFFICES ASSUME DownIdle, [Next]_vars PROVE DownIdle'
  OBVIOUS
<1> USE DEF DownIdle, Machine
<1>1. CASE Step
  <2>1. pc # "idle"
    BY <1>1, WorkGoesOn DEF Working
  <2>2. CASE Reboot
    BY <2>2 DEF Reboot, Ends
  <2>3. CASE ~Reboot
    BY <1>1, <2>1, <2>3
       DEF Step, Skip, RefuseToLoop, AlreadyThere, Refuse, Begin, Quarantine, Quarantined, Guard,
           Transaction, Rewrite, Rewritten, NothingToRewrite, Update, Unpack, NothingUnpacked,
           DistUpgrade, Recovery, EfiPurge, Gate, EndTransaction
  <2> QED
    BY <2>2, <2>3
<1>2. CASE Operator \/ Boot \/ OperatorReboots \/ Crash \/ AddSource
  BY <1>2 DEF Operator, Boot, OperatorReboots, Crash, Ends, AddSource
<1>3. CASE UNCHANGED vars
  BY <1>3 DEF vars
<1> QED
  BY <1>1, <1>2, <1>3 DEF Next

LEMMA StartLife ==
  ASSUME Typed, pc = "idle", NEW cmd, NEW auto, Start(cmd, auto)
  PROVE  Life!Again \/ UNCHANGED Life!lifeVars
<1> USE DEF LifeAt, LifeStatus, Life!lifeVars
<1>1. pc' \in {"idle", "plan"} /\ disk'.status \in {disk.status, mem'.status}
      /\ (pc' = "plan" => disk' = mem')
  BY DEF Start, Ends
<1>2. mem'.status = disk.status \/ (disk.status = "running" /\ mem'.status = "pending")
  BY DEF Start, Recovered, Typed, RunTyped, Record
<1> QED
  BY <1>1, <1>2 DEF Life!Again, Life!Record

LEMMA PlanLife ==
  ASSUME Typed, Skip \/ RefuseToLoop \/ AlreadyThere \/ Refuse \/ Begin
  PROVE  Life!Enter \/ Life!EndEarly \/ Life!Leave
<1> USE DEF LifeAt, LifeStatus, Ends
<1>1. CASE Skip
  BY <1>1 DEF Skip, Unsaved, Life!Leave, Life!Record
<1>2. ASSUME NEW st \in {"done", "skipped", "failed_fatal"}, Planned, pc' = "idle",
             disk'.status \in {disk.status, st}
      PROVE  Life!EndEarly
  BY <1>2 DEF Planned, Life!EndEarly, Life!Due, Life!Record, Table!UbuntuUpgradeEarly,
              Table!DoneOrFatal, Table!failPhase
<1>3. CASE RefuseToLoop
  <2>1. Planned /\ pc' = "idle" /\ disk'.status \in {disk.status, "failed_fatal"}
    BY <1>3, StatusKept DEF RefuseToLoop, Fails, Persist
  <2> QED
    BY <1>2, <2>1
<1>4. CASE AlreadyThere
  <2>1. MarkDone(mem).status = "done"
    BY DEF MarkDone, Typed, RunTyped, Record
  <2>2. Planned /\ pc' = "idle" /\ disk'.status \in {disk.status, "done"}
    BY <1>4, <2>1 DEF AlreadyThere, Persist
  <2> QED
    BY <1>2, <2>2
<1>5. CASE Refuse
  <2>1. Planned /\ pc' = "idle"
    BY <1>5 DEF Refuse
  <2>2. disk'.status = disk.status \/ disk'.status \in {"skipped", "failed_fatal"}
    BY <1>5, StatusKept DEF Refuse, Persist
  <2> QED
    BY <1>2, <2>1, <2>2
<1>6. CASE Begin
  <2>1. PICK d : Persist([MarkRunning(mem) EXCEPT !.details = d])
    BY <1>6 DEF Begin
  <2>2. [MarkRunning(mem) EXCEPT !.details = d].status = "running"
    BY DEF MarkRunning, Typed, RunTyped, Record
  <2>3. mem'.status = "running" /\ disk'.status \in {disk.status, "running"}
    BY <2>1, <2>2 DEF Persist
  <2>4. Planned /\ pc' = "quarantine"
    BY <1>6 DEF Begin
  <2> QED
    BY <2>3, <2>4 DEF Planned, Life!Enter, Life!Due
<1> QED
  BY <1>1, <1>3, <1>4, <1>5, <1>6

LEMMA WorkLife ==
  ASSUME Typed, pc \in Working, WorksOn \/ Fails
  PROVE  Life!End \/ Life!AskReboot \/ Life!Save \/ UNCHANGED Life!lifeVars
<1> USE DEF LifeAt, LifeStatus, Working, Life!lifeVars
<1>1. CASE WorksOn
  <2>1. mem'.status = mem.status /\ disk'.status \in {disk.status, mem.status}
    BY <1>1, StatusKept DEF WorksOn, Unsaved, AdvanceStage, Persist
  <2>2. CASE pc' = "reboot"
    BY <2>1, <2>2 DEF Life!AskReboot, Table!UbuntuUpgrade
  <2>3. CASE pc' \in Working
    BY <2>1, <2>3 DEF Life!Save
  <2> QED
    BY <1>1, <2>2, <2>3 DEF WorksOn
<1>2. CASE Fails
  <2>1. pc' = "idle" /\ disk'.status \in {disk.status, "failed_fatal"}
    BY <1>2, StatusKept DEF Fails, Ends, Persist
  <2> QED
    BY <2>1 DEF Life!End, Life!Record, Table!UbuntuUpgrade, Table!failPhase
<1> QED
  BY <1>1, <1>2

LEMMA LifeStep == Typed /\ DownIdle /\ [Next]_vars => [Life!Next]_(Life!lifeVars)
<1> SUFFICES ASSUME Typed, DownIdle, [Next]_vars PROVE [Life!Next]_(Life!lifeVars)
  OBVIOUS
<1>1. CASE Operator
  BY <1>1, StartLife DEF Operator, Life!Next
<1>2. CASE Boot
  <2>1. pc = "idle"
    BY <1>2 DEF Boot, DownIdle
  <2>2. CASE unit = "none"
    BY <1>2, <2>1, <2>2 DEF Boot, LifeAt, LifeStatus, Life!lifeVars
  <2> QED
    BY <1>2, <2>1, <2>2, StartLife DEF Boot, Life!Next
<1>3. CASE Step /\ pc = "plan"
  <2>1. Skip \/ RefuseToLoop \/ AlreadyThere \/ Refuse \/ Begin
    BY <1>3 DEF Step, Quarantine, Quarantined, Guard, Transaction, Rewrite, Rewritten,
                NothingToRewrite, Update, Unpack, NothingUnpacked, DistUpgrade, Recovery,
                EfiPurge, Gate, EndTransaction, Reboot
  <2> QED
    BY <2>1, PlanLife DEF Life!Next
<1>4. CASE Step /\ pc = "reboot"
  <2>1. Reboot
    BY <1>4 DEF Step, Skip, RefuseToLoop, AlreadyThere, Refuse, Begin, Planned, Quarantine,
                Quarantined, Guard, Transaction, Rewrite, Rewritten, NothingToRewrite, Update,
                Unpack, NothingUnpacked, DistUpgrade, Recovery, EfiPurge, Gate, EndTransaction
  <2>2. pc' = "idle" /\ disk'.status \in {disk.status, mem.status}
    BY <2>1, StatusKept DEF Reboot, Ends
  <2> QED
    BY <1>4, <2>2 DEF LifeAt, LifeStatus, Life!Leave, Life!Record, Life!Next
<1>5. CASE Step /\ pc \notin {"plan", "reboot"}
  BY <1>5, WorkGoesOn, WorkLife DEF Life!Next
<1>6. CASE Crash
  BY <1>6 DEF Crash, Ends, Unsaved, LifeAt, LifeStatus, Life!Leave, Life!Record, Life!Next
<1>7. CASE OperatorReboots \/ AddSource \/ UNCHANGED vars
  BY <1>7 DEF OperatorReboots, AddSource, Unsaved, vars, LifeAt, LifeStatus, Life!lifeVars
<1> QED
  BY <1>1, <1>2, <1>3, <1>4, <1>5, <1>6, <1>7 DEF Next

(* The upgrade is what Deploy takes it for, over crashes, reboots and lost  *)
(* saves: begun when it is due, marked running before it touches the host,  *)
(* ended as PhaseTable has it, and done for good.                           *)
THEOREM UpgradeLivesAsTabled == Spec => LivesAsTabled
<1>1. Init => Typed /\ DownIdle /\ Life!Init
  BY TypedInit DEF Init, DownIdle, Fresh, Life!Init, LifeAt, LifeStatus
<1>2. Typed /\ DownIdle /\ [Next]_vars => Typed' /\ DownIdle'
  BY HostTypedStep, RunTypedStep, DownIdleStep DEF Typed
<1> QED
  BY <1>1, <1>2, LifeStep, PTL DEF Spec, LivesAsTabled, Life!Spec
=============================================================================
