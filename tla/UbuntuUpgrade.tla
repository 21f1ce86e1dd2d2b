--------------------------- MODULE UbuntuUpgrade ---------------------------
(***************************************************************************)
(* The ubuntu_upgrade phase across failures, crashes and reboots: what it  *)
(* records in the Details of its phase, what a later invocation still      *)
(* finds there, and what it does to the host: apt sources, packages, boot  *)
(* guards, release.  One invocation at a time; the rest of the pipeline,   *)
(* the lock and the unit are Deploy's, the apt transaction is reduced to   *)
(* its outcomes, which AptTransaction derives.                             *)
(***************************************************************************)
EXTENDS UbuntuPlan, FiniteSets

CONSTANTS
  Hosts,       \* hosts under study
  Files,       \* source files that ship with Ubuntu
  Foreign,     \* source files of third parties
  MaxReboots,  \* deploy.max_auto_reboots
  MaxStarts,   \* bound: commands the operator issues
  MaxCrashes   \* bound: kills and power losses

ASSUME UpgradeAssumption ==
  /\ Hosts \subseteq [profile : Profile, release : Nat \ {None},
                     bios : BOOLEAN,        \* no /sys/firmware/efi
                     saveFails : BOOLEAN]   \* a write of state.json may fail
  /\ IsFiniteSet(Files) /\ IsFiniteSet(Foreign)
  /\ MaxReboots \in Nat \ {0}
  /\ MaxStarts \in Nat /\ MaxCrashes \in Nat

VARIABLES
  given,    \* the host: its profile, first release, firmware, disk
  release,  \* VERSION_ID of /etc/os-release, which base-files brings
  packages, \* release of the packages that a dist-upgrade moves last
  sources,  \* the release each official source file names; None when empty
  foreign,  \* third-party source files that are active
  dpkg,     \* "ok", "broken", or "efi": only EFI and shim packages are stuck
  guards,   \* nouveau boot guards: "none", "stale" (for an older kernel), "fresh"
  host,     \* "up" or "down"
  unit,     \* continuation unit: "none", or the kind of resume it starts
  pc,
  mem,      \* the record of the phase and the reboot count, in memory
  disk,     \* and as they are saved
  run,      \* local variables of the invocation
  starts, crashes,
  stuck     \* history: releases a reboot asked for by this phase came back to

vars == <<given, release, packages, sources, foreign, dpkg, guards, host,
          unit, pc, mem, disk, run, starts, crashes, stuck>>
-----------------------------------------------------------------------------
Stage == <<"started", "third-party-sources-disabled", "sources-rewritten",
           "dist-upgrade-started", "dist-upgrade-complete", "reboot-required">>
Stages == {Stage[i] : i \in DOMAIN Stage} \cup {"none"}

(* Details without a marker is a map with other keys; nil is no map.        *)
Details == [nil : BOOLEAN, pre : Nat, stage : Stages]
Nil == [nil |-> TRUE, pre |-> None, stage |-> "none"]
Unmarked == [nil |-> FALSE, pre |-> None, stage |-> "none"]

Record == [status : {"pending", "running", "done", "skipped", "failed_fatal"},
           details : Details, count : Nat]

Fresh == [status |-> "pending", details |-> Nil, count |-> 0]

Run == [auto : BOOLEAN, hop : Nat, from : Nat,
        quarantine : BOOLEAN,  \* whether the stage read calls for it
        try : 1..2,            \* runs of dist-upgrade
        blind : BOOLEAN]       \* dpkg --audit could not be run

NoRun == [auto |-> FALSE, hop |-> None, from |-> None, quarantine |-> TRUE, try |-> 1,
          blind |-> FALSE]

ControlPoint ==
  {"idle", "plan", "quarantine", "guards", "transaction", "rewrite", "update",
   "dist_upgrade", "unpacked", "recovery", "efi_purge", "gate", "restore", "reboot"}

(* Operations of internal/state on the record. *)
MarkStatus(r, status) == [r EXCEPT !.status = status]

MarkDone(r) == [r EXCEPT !.status = "done", !.details = Unmarked]

(* Mutant: what the record held before is kept. *)
MarkRunning_KeepsDetails(r) == [r EXCEPT !.status = "running"]

(* A new record: the details of earlier attempts are gone. *)
MarkRunning(r) == [r EXCEPT !.status = "running", !.details = Nil]

(* The details are replaced, markers included. *)
Recovered(r) ==
  IF r.status = "running" THEN [r EXCEPT !.status = "pending", !.details = Unmarked] ELSE r

StageAtLeast(recorded, target) ==
  \E i, j \in DOMAIN Stage : Stage[i] = recorded /\ Stage[j] = target /\ i >= j

StageRequiresAdvance(stage) == stage \in {"dist-upgrade-complete", "reboot-required"}
-----------------------------------------------------------------------------
Packages == UNCHANGED <<release, packages, dpkg>>
Sources == UNCHANGED <<sources, foreign>>
Machine == UNCHANGED <<host, unit, stuck>>
Bounds == UNCHANGED <<given, starts, crashes>>
Unsaved == UNCHANGED <<mem, disk>>

(* `_ = deps.PersistState()`: the error is dropped. *)
Persist(r) == mem' = r /\ (disk' = r \/ (given.saveFails /\ UNCHANGED disk))

AdvanceStage(stage) == Persist([mem EXCEPT !.details.stage = stage])

(* The invocation ends, and its local variables with it. *)
Ends == pc' = "idle" /\ run' = NoRun

(* MarkFailed keeps the details. *)
Fails == Persist(MarkStatus(mem, "failed_fatal")) /\ Ends
-----------------------------------------------------------------------------
Init ==
  /\ given \in Hosts
  /\ release = given.release /\ packages = release
  /\ sources \in [Files -> {release, None}] /\ \E f \in Files : sources[f] = release
  /\ foreign = {}
  /\ dpkg = "ok" /\ guards = "none"
  /\ host = "up" /\ unit = "none"
  /\ pc = "idle" /\ mem = Fresh /\ disk = Fresh /\ run = NoRun
  /\ starts = 0 /\ crashes = 0 /\ stuck = {}

(* loadDeps and what each command does before the phase: apply and resume  *)
(* recover interrupted phases, and end if that cannot be saved; apply stops *)
(* at the gate unless given --allow-unsupported; an automatic one installs  *)
(* the unit.  `phase` does none of this.                                    *)
Start(cmd, auto) ==
  /\ mem' = IF cmd = "phase" THEN disk ELSE Recovered(disk)
  /\ \/ disk' = mem' /\ pc' = "plan" /\ run' = [NoRun EXCEPT !.auto = auto]
     \/ cmd = "apply" /\ ~GatePasses(release, given.profile) /\ disk' = mem' /\ Ends
     \/ given.saveFails /\ mem' # disk /\ UNCHANGED disk /\ Ends
  /\ unit' = IF auto /\ cmd # "phase" /\ pc' = "plan" THEN "auto" ELSE unit

Operator ==
  /\ host = "up" /\ pc = "idle" /\ starts < MaxStarts /\ starts' = starts + 1
  /\ \E cmd \in {"apply", "resume", "phase"}, auto \in BOOLEAN : Start(cmd, auto)
  /\ UNCHANGED <<given, guards, host, crashes, stuck>> /\ Packages /\ Sources

(* Run up to the decision.  The map of a fresh record is nil: writing the   *)
(* resolver's report into it panics before anything is saved.               *)
Skip ==
  /\ pc = "plan" /\ mem.status \in {"done", "skipped"}
  /\ Ends
  /\ UNCHANGED guards /\ Unsaved /\ Packages /\ Sources /\ Machine /\ Bounds

Planned == pc = "plan" /\ mem.status \notin {"done", "skipped"}

Action == PlanUpgrade(release, given.profile).action

WouldLoop ==
  /\ Action # "noop" /\ mem.details.pre = release
  /\ StageRequiresAdvance(mem.details.stage)

RefuseToLoop ==
  /\ Planned /\ WouldLoop /\ Fails
  /\ UNCHANGED guards /\ Packages /\ Sources /\ Machine /\ Bounds

AlreadyThere ==
  /\ Planned /\ Action = "noop"
  /\ Persist(MarkDone(mem)) /\ Ends
  /\ UNCHANGED guards /\ Packages /\ Sources /\ Machine /\ Bounds

Refuse ==
  /\ Planned /\ ~WouldLoop /\ Action \notin {"noop", "direct-codename-rewrite"}
  /\ Ends
  /\ IF ReportsSelection(given.profile) /\ mem.details.nil
       THEN mem' = mem /\ UNCHANGED disk
       ELSE Persist(MarkStatus(mem, IF Action = "no-target" THEN "skipped"
                                                           ELSE "failed_fatal"))
  /\ UNCHANGED guards /\ Packages /\ Sources /\ Machine /\ Bounds

(* runDirectCodenameRewrite: the details of the previous attempt are read   *)
(* from the record that MarkRunning has just made.                          *)
Begin ==
  /\ Planned /\ ~WouldLoop /\ Action = "direct-codename-rewrite"
  /\ LET r == MarkRunning(mem)
         pre == IF r.details.pre # None THEN r.details.pre ELSE release
     IN  /\ Persist([r EXCEPT !.details = [nil |-> FALSE, pre |-> pre, stage |-> Stage[1]]])
         /\ run' = [run EXCEPT !.hop = PlanUpgrade(release, given.profile).hop,
                               !.from = release,
                               !.quarantine = ~StageAtLeast(r.details.stage, Stage[2])]
  /\ pc' = "quarantine"
  /\ UNCHANGED guards /\ Packages /\ Sources /\ Machine /\ Bounds
-----------------------------------------------------------------------------
(* quarantineNonOfficialAptSources moves one file after the other. *)
Quarantine ==
  /\ pc = "quarantine" /\ run.quarantine
  /\ \/ \E f \in foreign : foreign' = foreign \ {f} /\ Unsaved /\ UNCHANGED <<pc, run>>
     \/ Fails /\ UNCHANGED foreign
  /\ UNCHANGED <<sources, guards>> /\ Packages /\ Machine /\ Bounds

Quarantined ==
  /\ pc = "quarantine" /\ (run.quarantine => foreign = {})
  /\ AdvanceStage(Stage[2]) /\ pc' = "guards"
  /\ UNCHANGED <<guards, run>> /\ Packages /\ Sources /\ Machine /\ Bounds

(* The nouveau guards, and the boot artifacts that carry them.  The grub    *)
(* preseed before it is best effort.                                        *)
Guard ==
  /\ pc = "guards"
  /\ \/ guards' = "fresh" /\ pc' = "transaction" /\ Unsaved /\ UNCHANGED run
     \/ Fails /\ guards' \in {guards, "stale"}
  /\ Packages /\ Sources /\ Machine /\ Bounds

(* The head of the apt transaction: locks, policy helper, RepairIfNeeded;   *)
(* then unhold and purge, whose errors are logged only.                     *)
Transaction ==
  /\ pc = "transaction"
  /\ \/ dpkg' \in {dpkg, "ok", "broken"} /\ pc' = "rewrite" /\ Unsaved /\ UNCHANGED run
     \/ dpkg' \in {dpkg, "broken"} /\ Fails
  /\ UNCHANGED <<release, packages, guards>> /\ Sources /\ Machine /\ Bounds

Mentions(v) == \E f \in Files : sources[f] = v

(* Mutant: one file is thought to be enough. *)
Rewritten_OneFile ==
  /\ pc = "rewrite" /\ Mentions(run.hop)
  /\ AdvanceStage(Stage[3]) /\ pc' = "update"
  /\ UNCHANGED <<guards, run>> /\ Packages /\ Sources /\ Machine /\ Bounds

(* rewriteAptCodename: file by file; a failing WriteFile may leave the file *)
(* empty.                                                                   *)
Rewrite ==
  /\ pc = "rewrite"
  /\ \E f \in Files :
       /\ sources[f] = run.from
       /\ \/ sources' = [sources EXCEPT ![f] = run.hop] /\ Unsaved /\ UNCHANGED <<pc, run>>
          \/ \E v \in {run.from, None} : sources' = [sources EXCEPT ![f] = v] /\ Fails
  /\ UNCHANGED <<foreign, guards>> /\ Packages /\ Machine /\ Bounds

Rewritten ==
  /\ pc = "rewrite" /\ ~Mentions(run.from) /\ Mentions(run.hop)
  /\ AdvanceStage(Stage[3]) /\ pc' = "update"
  /\ UNCHANGED <<guards, run>> /\ Packages /\ Sources /\ Machine /\ Bounds

NothingToRewrite ==
  /\ pc = "rewrite" /\ ~Mentions(run.from) /\ ~Mentions(run.hop)
  /\ Fails
  /\ UNCHANGED guards /\ Packages /\ Sources /\ Machine /\ Bounds

Update ==
  /\ pc = "update"
  /\ \/ AdvanceStage(Stage[4]) /\ pc' = "dist_upgrade" /\ UNCHANGED run
     \/ Fails
  /\ UNCHANGED guards /\ Packages /\ Sources /\ Machine /\ Bounds
-----------------------------------------------------------------------------
(* apt-get dist-upgrade.  apt never goes back to an older release by        *)
(* itself, so a hop to one finds nothing to do.                             *)
Offered == {sources[f] : f \in Files} \ {None}

(* The second run came from the recovery, which audits before it believes   *)
(* an exit code of 0.  An audit that cannot be run prints nothing, and      *)
(* counts as clean.                                                         *)
Purgeable == run.try = 2 /\ given.bios /\ dpkg' = "efi"

DistUpgradeExits0 ==
  \/ pc' = "gate" /\ Unsaved /\ UNCHANGED run
  \/ run.try = 2 /\ dpkg' # "ok" /\ ~Purgeable /\ Fails
  \/ Purgeable /\ pc' = "efi_purge" /\ Unsaved /\ UNCHANGED run

(* Mutant: the recovery is tried again and again. *)
DistUpgradeFails_Again ==
  \/ Fails
  \/ pc' = "recovery" /\ Unsaved /\ UNCHANGED run

(* The recovery needs the name of a failed package, which it may also find  *)
(* in the older part of term.log.                                           *)
DistUpgradeFails ==
  \/ ~Purgeable /\ Fails
  \/ run.try = 1 /\ pc' = "recovery" /\ Unsaved /\ UNCHANGED run
  \/ Purgeable /\ pc' = "efi_purge" /\ Unsaved /\ UNCHANGED run

(* Packages are unpacked; base-files, and so VERSION_ID, early or late.     *)
Unpack ==
  /\ pc = "dist_upgrade" /\ pc' = "unpacked"
  /\ \E v \in Offered : v >= release /\ release' \in {release, v}
  /\ dpkg' = "broken"
  /\ guards' = (IF guards = "fresh" THEN "stale" ELSE guards)
  /\ UNCHANGED <<packages, run>> /\ Unsaved /\ Sources /\ Machine /\ Bounds

NothingUnpacked ==
  /\ pc = "dist_upgrade"
  /\ Packages
  /\ DistUpgradeExits0 \/ DistUpgradeFails
  /\ UNCHANGED guards /\ Sources /\ Machine /\ Bounds

DistUpgrade ==
  /\ pc = "unpacked"
  /\ \/ /\ \E v \in Offered : v >= release /\ release' = v /\ packages' = v
        /\ dpkg' \in {"ok", "efi"} /\ DistUpgradeExits0
     \/ /\ UNCHANGED <<release, packages>>
        /\ dpkg' \in {"ok", "broken", "efi"} /\ DistUpgradeFails
  /\ UNCHANGED guards /\ Sources /\ Machine /\ Bounds

(* runDpkgRecovery: preseed, dpkg --configure -a, apt-get -f install, whose *)
(* errors are logged only, then dist-upgrade once more.                     *)
Recovery ==
  /\ pc = "recovery" /\ pc' = "dist_upgrade"
  /\ dpkg' \in {dpkg, "ok", "efi"}
  /\ run' = [run EXCEPT !.try = @ + 1]
  /\ UNCHANGED <<release, packages, guards>>
  /\ Unsaved /\ Sources /\ Machine /\ Bounds

(* The BIOS-only fallback: a clean audit after the purge is taken for a     *)
(* recovery, whatever dist-upgrade returned.                                *)
EfiPurge ==
  /\ pc = "efi_purge"
  /\ dpkg' \in {"ok", "efi"}
  /\ \/ pc' = "gate" /\ Unsaved /\ UNCHANGED run
     \/ dpkg' # "ok" /\ Fails
  /\ UNCHANGED <<release, packages, guards>> /\ Sources /\ Machine /\ Bounds

(* Mutant: no audit before the hop is declared done. *)
Gate_NoAudit ==
  /\ pc = "gate" /\ pc' = "restore"
  /\ AdvanceStage(Stage[5]) /\ guards' = "fresh"
  /\ UNCHANGED run /\ Packages /\ Sources /\ Machine /\ Bounds

(* autoremove and dpkg --configure -a (best effort), then dpkg --audit,     *)
(* apt-get check and the boot guards for the new kernel.                    *)
Gate ==
  /\ pc = "gate"
  /\ dpkg' \in {dpkg, "ok"} /\ UNCHANGED <<release, packages>>
  /\ \/ /\ run' = [run EXCEPT !.blind = dpkg' # "ok"]
        /\ guards' = "fresh" /\ AdvanceStage(Stage[5]) /\ pc' = "restore"
     \/ guards' \in {guards, "stale"} /\ Fails
  /\ Sources /\ Machine /\ Bounds

(* The end of the apt transaction: putting back the policy helper may fail. *)
EndTransaction ==
  /\ pc = "restore"
  /\ \/ AdvanceStage(Stage[6]) /\ pc' = "reboot" /\ UNCHANGED run
     \/ Fails
  /\ UNCHANGED guards /\ Packages /\ Sources /\ Machine /\ Bounds
-----------------------------------------------------------------------------
LoopProtection(count) == count > MaxReboots \/ count > 2

(* Mutant: a request is not counted. *)
Reboot_Uncounted ==
  /\ pc = "reboot" /\ Ends
  /\ unit' = (IF run.auto THEN "auto" ELSE "manual")
  /\ host' = (IF run.auto THEN "down" ELSE host)
  /\ UNCHANGED <<guards, stuck>> /\ Unsaved /\ Packages /\ Sources /\ Bounds

(* handleRebootRequired: count, compare, save, install the unit, reboot;    *)
(* what fails first ends it.                                                *)
Reboot ==
  /\ pc = "reboot" /\ Ends
  /\ mem' = [mem EXCEPT !.count = @ + 1]
  /\ IF LoopProtection(mem'.count)
       THEN UNCHANGED <<disk, unit, host>>
       ELSE \/ /\ disk' = mem'
               /\ unit' = (IF run.auto THEN "auto" ELSE "manual")
               /\ host' \in (IF run.auto THEN {"down", host} ELSE {host})
            \/ given.saveFails /\ disk' \in {disk, mem'} /\ UNCHANGED <<unit, host>>
  /\ UNCHANGED <<guards, stuck>> /\ Packages /\ Sources /\ Bounds

(* The unit starts a resume.  History: whether the host came back, by a     *)
(* reboot this phase had asked for, to the release it had asked for it on.  *)
Boot ==
  /\ host = "down" /\ host' = "up"
  /\ IF unit = "none"
       THEN pc' = "idle" /\ UNCHANGED <<mem, disk, run, unit>>
       ELSE Start("resume", unit = "auto")
  /\ stuck' = IF disk.details.stage = Stage[6] /\ disk.details.pre = release
                THEN stuck \cup {release} ELSE stuck
  /\ UNCHANGED <<guards>> /\ Packages /\ Sources /\ Bounds

(* The reboot that the operator of a manual deploy is asked for. *)
OperatorReboots ==
  /\ host = "up" /\ pc = "idle" /\ starts < MaxStarts /\ starts' = starts + 1
  /\ host' = "down"
  /\ UNCHANGED <<given, crashes, guards, pc, run, unit, stuck>>
  /\ Unsaved /\ Packages /\ Sources

(* A kill or a power loss; package tools and WriteFile stop half way.       *)
Crash ==
  /\ pc # "idle" /\ Ends
  /\ crashes < MaxCrashes /\ crashes' = crashes + 1
  /\ host' \in {"up", "down"}
  /\ dpkg' \in IF pc \in {"transaction", "unpacked", "recovery", "efi_purge", "gate"}
                 THEN {dpkg, "broken"} ELSE {dpkg}
  /\ \/ UNCHANGED sources
     \/ /\ pc = "rewrite"
        /\ \E f \in Files : sources[f] = run.from /\ sources' = [sources EXCEPT ![f] = None]
  /\ UNCHANGED <<given, release, packages, foreign, guards, unit, starts, stuck>>
  /\ Unsaved

(* Somebody adds a repository while CloudDeploy is not running. *)
AddSource ==
  /\ pc = "idle" /\ host = "up" /\ foreign # Foreign
  /\ \E f \in Foreign : foreign' = foreign \cup {f}
  /\ UNCHANGED <<sources, guards, pc, run>> /\ Unsaved /\ Packages /\ Machine /\ Bounds

Step ==
  \/ Skip \/ RefuseToLoop \/ AlreadyThere \/ Refuse \/ Begin
  \/ Quarantine \/ Quarantined \/ Guard
  \/ Transaction \/ Rewrite \/ Rewritten \/ NothingToRewrite \/ Update
  \/ Unpack \/ NothingUnpacked \/ DistUpgrade \/ Recovery \/ EfiPurge
  \/ Gate \/ EndTransaction \/ Reboot

Next == Operator \/ Step \/ Boot \/ OperatorReboots \/ Crash \/ AddSource

Spec == Init /\ [][Next]_vars

FairSpec == Spec /\ WF_vars(Step) /\ WF_vars(Boot)
-----------------------------------------------------------------------------
(* What the pipeline sees of the phase: its status in memory while the      *)
(* invocation is alive, and on disk.                                        *)
Table == INSTANCE PhaseTable

LifeAt ==
  IF pc \in {"idle", "plan"} THEN "out" ELSE IF pc = "reboot" THEN "asked" ELSE "in"

LifeStatus == IF pc = "idle" THEN disk.status ELSE mem.status

Life == INSTANCE PhaseLife WITH
  Body <- Table!UbuntuUpgrade, Early <- Table!UbuntuUpgradeEarly, Resets <- FALSE,
  status <- LifeStatus, saved <- disk.status, at <- LifeAt

(* shouldSkip, MarkRunning and the endings that PhaseTable lists: the phase *)
(* is what the pipeline takes it for, whatever crashes, reboots and lost    *)
(* saves come between two attempts.                                         *)
LivesAsTabled == Life!Spec

-----------------------------------------------------------------------------
Release == Codenamed \cup {h.release : h \in Hosts}

TypeOK ==
  /\ given \in Hosts
  /\ release \in Release /\ packages \in Release
  /\ sources \in [Files -> Release \cup {None}]
  /\ foreign \subseteq Foreign
  /\ dpkg \in {"ok", "broken", "efi"} /\ guards \in {"none", "stale", "fresh"}
  /\ host \in {"up", "down"} /\ unit \in {"none", "manual", "auto"}
  /\ pc \in ControlPoint /\ run \in Run
  /\ mem \in Record /\ disk \in Record
  /\ starts \in Nat /\ crashes \in Nat /\ stuck \subseteq Release

(* The host leaves 22.04 only for 24.04 ("some upgrades skip too many       *)
(* releases to be safe in a single apt-rewrite", upgrade.go:210), and       *)
(* leaves any release only towards one the operator consented to.           *)
HopByHop ==
  [][release' # release =>
       /\ release = 2204 => release' = 2404
       /\ given.profile.auto
       /\ IsLTS(release') \/ given.profile.nonLTS
       /\ given.profile.direct # "off"]_vars

(* A dist-upgrade runs with every third-party source out of the way and no  *)
(* official source file left on another release (ubuntu_upgrade.go:410),    *)
(* whatever earlier attempts left behind and recorded.                      *)
CleanSources ==
  pc \in {"dist_upgrade", "unpacked"} =>
    /\ foreign = {}
    /\ Offered = {run.hop}

(* No reboot is asked for while packages are half configured, unless the    *)
(* audit could not be run, nor with a kernel that may load nouveau.         *)
RebootSound ==
  pc = "reboot" => /\ dpkg = "ok" \/ run.blind
                   /\ guards = "fresh"

(* A phase recorded as done left the release that was asked for, and no     *)
(* source file names another one.                                           *)
DoneIsSettled ==
  (pc = "idle" /\ disk.status = "done") =>
    /\ release = FinalTarget(given.profile)
    /\ Offered = {release}

(* What an invocation may still do at most: a step for each place it can    *)
(* come to, for each third-party file it has to move, and for each official *)
(* one it has to rewrite.                                                   *)
ToRewrite == {f \in Files : sources[f] = run.from}
Again == 3 * (2 - run.try)

StepsAhead ==
  CASE pc = "idle"         -> 0
    [] pc = "reboot"       -> 1
    [] pc = "restore"      -> 2
    [] pc = "gate"         -> 3
    [] pc = "efi_purge"    -> 4
    [] pc = "unpacked"     -> 5 + Again
    [] pc = "dist_upgrade" -> 6 + Again
    [] pc = "recovery"     -> 7
    [] pc = "update"       -> 10
    [] pc = "rewrite"      -> 11 + Cardinality(ToRewrite)
    [] pc = "transaction"  -> 12 + Cardinality(Files)
    [] pc = "guards"       -> 13 + Cardinality(Files)
    [] pc = "quarantine"   -> 14 + Cardinality(Files) + Cardinality(foreign)
    [] pc = "plan"         -> 15 + Cardinality(Files) + Cardinality(foreign)

(* Whatever dpkg, apt and the disk answer, each step of an invocation       *)
(* brings it closer to its end: no file is moved or rewritten twice, and    *)
(* dist-upgrade is tried again once ("ONE bounded recovery cycle",          *)
(* ubuntu_upgrade.go:1150).                                                 *)
InvocationIsBounded == [][Step => StepsAhead' \in 0..(StepsAhead - 1)]_vars

(* handleRebootRequired (main.go:2202): the phase takes the host down only  *)
(* with one more request in the count on disk, which nothing takes back and *)
(* which never goes over the limits, so that it can do so only so often in  *)
(* the life of a host.                                                      *)
RebootsAreCounted ==
  [][ /\ disk'.count # disk.count =>
           disk'.count = disk.count + 1 /\ ~LoopProtection(disk'.count)
      /\ (host = "up" /\ host' = "down" /\ UNCHANGED <<starts, crashes>>) =>
           disk'.count # disk.count ]_vars

(* However often dist-upgrade fails, succeeds without effect or is cut off, *)
(* the phase comes to rest: the continuation unit does not reboot for ever. *)
UpgradeSettles == <>[](pc = "idle" /\ host = "up")

(* ubuntu_upgrade.go:39: stage "dist-upgrade-started -> retry               *)
(* dist-upgrade": a hop that has begun is not called done half way.         *)
StartedUpgradeRetried ==
  (pc = "idle" /\ disk.status = "done") => packages = release

(* V2-V3-PARITY.md:42: "After reboot, if VERSION_ID didn't move, it dies    *)
(* instead of looping".                                                     *)
DiesInsteadOfLooping == pc = "reboot" => run.from \notin stuck
=============================================================================
