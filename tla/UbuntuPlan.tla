---------------------------- MODULE UbuntuPlan ----------------------------
(***************************************************************************)
(* internal/ubuntu: which release a profile asks for and which hop the     *)
(* host takes towards it.  A release is the number versionInt gives its    *)
(* VERSION_ID (24.04 is 2404); None stands for the empty string.           *)
(***************************************************************************)
EXTENDS Naturals, Sequences

None == 0

Codenamed == {2204, 2210, 2304, 2310, 2404, 2410, 2504, 2510, 2604}

Supported == {2204, 2404, 2510}

IsLTS(v) == v % 100 = 4 /\ (v \div 100) % 2 = 0

(* What config.Profile says of the upgrade.                                *)
Profile == [target : Nat, candidates : Seq(Nat),
            selection : {"", "latest-compatible", "exact", "min-version", "any"},
            min : Nat, auto : BOOLEAN, nonLTS : BOOLEAN,
            direct : {"auto", "force", "off"}]

(* The package probe is nil in the pipeline that main.go builds. *)
EvaluateOSCandidate(v, p) ==
  /\ v \in Codenamed
  /\ (p.selection = "min-version" /\ p.min # None) => v >= p.min
  /\ IsLTS(v) \/ p.nonLTS
  /\ p.selection # "any" => v \in Supported

(* The first candidate that passes; the order is the operator's. *)
ResolveOSTarget(p) ==
  LET ok == {i \in DOMAIN p.candidates : EvaluateOSCandidate(p.candidates[i], p)}
  IN  IF ok = {} \/ (p.selection = "exact" /\ Len(p.candidates) # 1)
        THEN None
        ELSE p.candidates[CHOOSE i \in ok : \A j \in ok : i <= j]

(* Run keeps ubuntu_version when no candidate passed. *)
FinalTarget(p) ==
  IF ResolveOSTarget(p) # None THEN ResolveOSTarget(p) ELSE p.target

(* Mutant: straight to the final target. *)
NextHopForUpgrade_Straight(current, final) == final

NextHopForUpgrade(current, final) ==
  IF current = 2204 /\ final \in Codenamed \ {2204, 2404} THEN 2404 ELSE final

IsKnownDirectHop(current, target) ==
  <<current, target>> \in {<<2204, 2404>>, <<2404, 2510>>, <<2404, 2604>>}

Plan(action, hop) == [action |-> action, hop |-> hop]

PlanUpgrade(current, p) ==
  LET final == FinalTarget(p)
      hop   == NextHopForUpgrade(current, final)
  IN  IF final = None THEN Plan("no-target", None)
      ELSE IF current = final THEN Plan("noop", final)
      ELSE IF ~p.auto THEN Plan("auto-upgrade-off", final)
      ELSE IF ~IsLTS(final) /\ ~p.nonLTS THEN Plan("refused-non-lts", final)
      ELSE IF {current, final} \ Codenamed # {} THEN Plan("refused-unknown-hop", final)
      ELSE IF p.direct = "force" \/ (p.direct = "auto" /\ IsKnownDirectHop(current, hop))
        THEN Plan("direct-codename-rewrite", hop)
      ELSE Plan("do-release-upgrade", hop)

ReleaseGate(current, target) ==
  IF target # None THEN current = target ELSE current \in Supported

(* main.go: apply refuses a release other than the one asked for, unless    *)
(* the upgrade phase will see to it.                                        *)
GatePasses(current, p) ==
  \/ ReleaseGate(current, p.target)
  \/ /\ p.auto /\ (p.target # None \/ p.candidates # <<>>)
     /\ current \in Supported

(* buildOSResolverDetails has something to report; prefer_lts, which is only *)
(* recorded, is left out.                                                    *)
ReportsSelection(p) == p.candidates # <<>> \/ p.selection # ""
=============================================================================
