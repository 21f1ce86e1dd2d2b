---------------------------- MODULE NvidiaDriver ----------------------------
(***************************************************************************)
(* The nvidia_driver phase: evidence about the host (internal/nvidia/      *)
(* host.go), the choice of a package family (family.go), what to do with   *)
(* families already there and the verdict after the install (cleanup.go),  *)
(* and the phase around them (internal/phase/nvidia_driver.go) over        *)
(* failures, kills, reboots and further invocations.                       *)
(***************************************************************************)
EXTENDS Naturals, Sequences

CONSTANTS
  Offers,        \* sets of families apt may have a candidate for
  FoundThere,    \* sets of families that may be installed at first
  Repair,        \* NvidiaDriver.Repair
  MajorListed,   \* DriverMajor is one of those packagesFor goes through
  MaxRuns,       \* bound: invocations by an operator
  MaxReboots     \* reboots handleRebootRequired allows this phase

Families == {"server", "server-open", "non-server", "non-server-open"}
IsOpen(f) == f \in {"server-open", "non-server-open"}
Unknown == "none"

ASSUME DriverAssumption ==
  /\ Offers \subseteq SUBSET Families /\ FoundThere \subseteq SUBSET Families
  /\ Repair \in BOOLEAN /\ MajorListed \in BOOLEAN
  /\ MaxRuns \in Nat /\ MaxReboots \in Nat
-----------------------------------------------------------------------------
(* Evidence: what GatherEvidenceFromHost finds, and the hints of the        *)
(* profile.  "blackwell" is any of the three Blackwell flags.               *)

Evidence == [pci : BOOLEAN, blackwell : BOOLEAN, dataCenter : BOOLEAN,
             notice : BOOLEAN, installed : SUBSET Families, known : BOOLEAN,
             available : SUBSET Families, smi : BOOLEAN,
             preferOpen : BOOLEAN, preferServer : BOOLEAN]

IsAvailable(e, f) == ~e.known \/ f \in e.available
AnyAvailable(e) == ~e.known \/ e.available # {}

RequiresOpenKernelModule(e) == e.notice \/ e.blackwell

(* Zero or several families count as unknown. *)
AlreadyInstalled(e) ==
  IF \E f \in Families : e.installed = {f}
  THEN CHOOSE f \in Families : e.installed = {f}
  ELSE Unknown

OpenOnlyOrderFor(e) ==
  IF e.preferServer THEN <<"server-open", "non-server-open">>
                    ELSE <<"non-server-open", "server-open">>
OpenFirstOrder == <<"server-open", "non-server-open", "server", "non-server">>
ServerFirstOrder == <<"server", "server-open", "non-server", "non-server-open">>
DefaultOrder == <<"server-open", "server", "non-server-open", "non-server">>

FirstAvailable(e, order) ==
  LET ok == {i \in DOMAIN order : IsAvailable(e, order[i])}
  IN  IF ok = {} THEN Unknown
      ELSE order[CHOOSE i \in ok : \A j \in ok : i <= j]

(* Rules 3 to 6: the first hint that applies. *)
PreferenceOrder(e) ==
  IF e.dataCenter /\ e.preferServer THEN ServerFirstOrder
  ELSE IF e.preferOpen THEN OpenFirstOrder
  ELSE IF e.preferServer THEN ServerFirstOrder
  ELSE DefaultOrder

(* Mutant: closed families as the fallback of a hard requirement. *)
SelectFamily_FallsBack(e) ==
  IF AlreadyInstalled(e) # Unknown /\ e.smi /\ ~RequiresOpenKernelModule(e)
  THEN AlreadyInstalled(e)
  ELSE FirstAvailable(e, IF RequiresOpenKernelModule(e) THEN OpenFirstOrder
                                                        ELSE PreferenceOrder(e))

(* Unknown stands for the two errors. *)
SelectFamily(e) ==
  IF RequiresOpenKernelModule(e) THEN FirstAvailable(e, OpenOnlyOrderFor(e))
  ELSE IF AlreadyInstalled(e) # Unknown /\ e.smi THEN AlreadyInstalled(e)
  ELSE IF ~AnyAvailable(e) THEN Unknown
  ELSE FirstAvailable(e, PreferenceOrder(e))

(* The plan: an action, and the families to purge first. *)
Plan == [action : {"install", "keep", "purge", "refuse"}, purge : SUBSET Families]
PlanTo(a, fams) == [action |-> a, purge |-> fams]

PlanCleanup(target, e, repair) ==
  LET installed == AlreadyInstalled(e)
  IN  IF installed = target /\ e.smi THEN PlanTo("keep", {})
      ELSE IF e.installed # {} /\ installed = Unknown THEN
             IF repair THEN PlanTo("purge", e.installed \ {target})
                       ELSE PlanTo("refuse", {})
      ELSE IF /\ installed \notin {Unknown, target}
              /\ RequiresOpenKernelModule(e) \/ IsOpen(target)
              /\ ~e.smi
           THEN PlanTo("purge", {installed})
      ELSE PlanTo("install", {})

(* packagesFor: the non-server families are purged by a list of majors, the *)
(* server ones by a pattern.                                                *)
Purgeable(f) == MajorListed \/ f \in {"server", "server-open"}

(* Mutant: packages are enough. *)
EvaluatePostInstall_Packages(target, e, dmesg) ==
  IF e.installed # {} THEN "ok" ELSE "not installed"

EvaluatePostInstall(target, e, dmesg) ==
  IF e.smi THEN "ok"
  ELSE IF dmesg /\ ~IsOpen(target) THEN "wrong flavor"
  ELSE IF e.installed # {} THEN "reboot"
  ELSE "not installed"
-----------------------------------------------------------------------------
VARIABLES
  host,       \* fixed: the GPU, lspci, the archive, the profile, kern.log
  installed,  \* families of DriverMajor that dpkg has as "ii"
  module,     \* the kernel module that is loaded
  smi,        \* nvidia-smi -L works
  notice,     \* the NVRM line: in dmesg, in kern.log
  status,     \* of the phase in state.json
  recorded,   \* package_family in its Details
  pc,         \* where Run is
  ev,         \* its Evidence
  plan,       \* its CleanupPlan
  runs,       \* invocations by an operator so far
  reboots,    \* SamePhaseRebootCount
  wrong       \* history: verdicts "wrong flavor"

vars == <<host, installed, module, smi, notice, status, recorded, pc, ev, plan,
          runs, reboots, wrong>>

(* refuses: the GPU does not work with the closed module, which the Blackwell *)
(* ones do not, and others may not although no table says so.                *)
Host == [blackwell : BOOLEAN, refuses : BOOLEAN, dataCenter : BOOLEAN,
         pci : BOOLEAN, offer : Offers, keepsLog : BOOLEAN,
         preferOpen : BOOLEAN, preferServer : BOOLEAN]
NoEvidence == [pci |-> FALSE, blackwell |-> FALSE, dataCenter |-> FALSE,
               notice |-> FALSE, installed |-> {}, known |-> FALSE,
               available |-> {}, smi |-> FALSE,
               preferOpen |-> FALSE, preferServer |-> FALSE]

Packages == <<installed, module, smi, notice>>
Entry == <<status, recorded>>
Counts == <<runs, reboots, wrong>>

Init ==
  /\ host \in {h \in Host : h.blackwell => h.refuses}
  /\ installed \in FoundThere
  /\ module \in {"none", "open"} \cup (IF host.refuses THEN {} ELSE {"closed"})
  /\ smi \in {FALSE, module # "none"}
  /\ notice \in [dmesg : {FALSE}, log : {FALSE, host.keepsLog}]
  /\ status = "pending" /\ recorded = Unknown
  /\ pc = "idle" /\ ev = NoEvidence /\ plan = PlanTo("install", {})
  /\ runs = 0 /\ reboots = 0 /\ wrong = 0
-----------------------------------------------------------------------------
(* The host. *)

(* The module of one of the packages is tried, or none is (blacklist, secure *)
(* boot, no build for this kernel).  d: what dmesg says already.             *)
LoadModule(fams, d) ==
  \/ /\ module' = "none" /\ smi' = FALSE
     /\ notice' = [notice EXCEPT !.dmesg = d]
  \/ \E f \in fams :
       IF host.refuses /\ ~IsOpen(f)
       THEN /\ module' = "none" /\ smi' = FALSE
            /\ notice' = [dmesg |-> TRUE, log |-> notice.log \/ host.keepsLog]
       ELSE /\ module' = IF IsOpen(f) THEN "open" ELSE "closed"
            /\ smi' \in BOOLEAN
            /\ notice' = [notice EXCEPT !.dmesg = d]

(* Packages change: a loaded module stays, and nvidia-smi may or may not    *)
(* match it afterwards.                                                     *)
SetPackages(fams) ==
  /\ installed' = fams
  /\ IF module = "none" THEN LoadModule(fams, notice.dmesg)
     ELSE smi' \in BOOLEAN /\ UNCHANGED <<module, notice>>

(* A reboot of the operator or the one the phase asked for. *)
Boot ==
  /\ pc \in {"idle", "rebooting"}
  /\ LoadModule(installed, FALSE)
  /\ pc' = IF pc = "rebooting" THEN "resume" ELSE "idle"
  /\ UNCHANGED <<host, installed, status, recorded, ev, plan, runs, reboots, wrong>>

(* The process dies; what it did stays, and the status stays running. *)
Kill ==
  /\ pc \notin {"idle", "resume", "rebooting"}
  /\ pc' = "idle"
  /\ UNCHANGED <<host, ev, plan>> /\ UNCHANGED <<Packages, Entry, Counts>>

(* clouddeployctl state reset nvidia_driver. *)
Reset ==
  /\ pc = "idle" /\ status # "pending"
  /\ status' = "pending" /\ recorded' = Unknown
  /\ UNCHANGED <<host, pc, ev, plan>> /\ UNCHANGED <<Packages, Counts>>
-----------------------------------------------------------------------------
(* The phase. *)

(* Mutant: only the dmesg of this boot is read. *)
Gather_DmesgOnly ==
  [pci |-> host.pci, blackwell |-> host.pci /\ host.blackwell,
   dataCenter |-> host.pci /\ host.dataCenter, notice |-> notice.dmesg,
   installed |-> installed, known |-> TRUE, available |-> host.offer, smi |-> smi,
   preferOpen |-> host.preferOpen, preferServer |-> host.preferServer]

(* Without lspci nothing is known of the GPU; apt-cache is always there. *)
Gather ==
  [pci |-> host.pci, blackwell |-> host.pci /\ host.blackwell,
   dataCenter |-> host.pci /\ host.dataCenter,
   notice |-> notice.dmesg \/ notice.log,
   installed |-> installed, known |-> TRUE, available |-> host.offer, smi |-> smi,
   preferOpen |-> host.preferOpen, preferServer |-> host.preferServer]

GpuFound(e) == e.pci \/ e.smi \/ e.installed # {}

(* apply, resume or phase; the resume of the unit after a reboot. *)
Begin ==
  /\ status # "done"
  /\ \/ pc = "idle" /\ runs < MaxRuns /\ runs' = runs + 1
     \/ pc = "resume" /\ UNCHANGED runs
  /\ status' = "running" /\ recorded' = Unknown
  /\ ev' = Gather
  /\ pc' = "gathered"
  /\ UNCHANGED <<host, plan, reboots, wrong>> /\ UNCHANGED Packages

MarkFailed == status' = "failed" /\ pc' = "idle" /\ UNCHANGED recorded
MarkDone(f) == status' = "done" /\ recorded' = f /\ pc' = "idle"

Decide ==
  LET family == SelectFamily(ev)
      chosen == PlanCleanup(family, ev, Repair)
  IN  /\ pc = "gathered"
      /\ IF ~GpuFound(ev) \/ family = Unknown
         THEN MarkFailed /\ UNCHANGED plan
         ELSE /\ plan' = chosen
              /\ IF chosen.action = "keep" THEN MarkDone(family)
                 ELSE IF chosen.action = "refuse" THEN MarkFailed
                 ELSE /\ pc' = IF chosen.purge # {} THEN "purge" ELSE "install"
                      /\ UNCHANGED Entry
      /\ UNCHANGED <<host, ev>> /\ UNCHANGED <<Packages, Counts>>

(* The transaction fails somewhere, the packages as they are: locks, the    *)
(* guard, the repair, apt-get update, or Restore after everything else.     *)
AptFails ==
  /\ pc \in {"purge", "install", "verify"}
  /\ MarkFailed
  /\ UNCHANGED <<host, ev, plan>> /\ UNCHANGED <<Packages, Counts>>

Purge ==
  /\ pc = "purge"
  /\ \E gone \in SUBSET {f \in plan.purge : Purgeable(f)} :
       /\ SetPackages(installed \ gone)
       /\ IF gone = {f \in plan.purge : Purgeable(f)}
          THEN pc' = "install" /\ UNCHANGED Entry ELSE MarkFailed
  /\ UNCHANGED <<host, ev, plan>> /\ UNCHANGED Counts

(* apt-get install: which other families conflict with the target is apt's  *)
(* to say.  It may fail with any of it done.                                *)
Install ==
  LET family == SelectFamily(ev)
  IN  /\ pc = "install"
      /\ \E gone \in SUBSET (installed \ {family}), got \in BOOLEAN :
           /\ SetPackages((installed \ gone) \cup (IF got THEN {family} ELSE {}))
           /\ IF got THEN pc' = "verify" /\ UNCHANGED Entry ELSE MarkFailed
      /\ UNCHANGED <<host, ev, plan>> /\ UNCHANGED Counts

Verify ==
  LET family  == SelectFamily(ev)
      verdict == EvaluatePostInstall(family, Gather, notice.dmesg)
  IN  /\ pc = "verify"
      /\ IF verdict = "ok" THEN MarkDone(family)
         ELSE IF verdict = "reboot" THEN pc' = "ask" /\ UNCHANGED Entry
         ELSE MarkFailed
      /\ wrong' = wrong + (IF verdict = "wrong flavor" THEN 1 ELSE 0)
      /\ UNCHANGED <<host, ev, plan, runs, reboots>> /\ UNCHANGED Packages

(* Loop protection; otherwise the count is saved and the host goes down.    *)
(* The status stays running either way.                                     *)
HandleRebootRequired ==
  /\ pc = "ask"
  /\ IF reboots >= MaxReboots THEN pc' = "idle" /\ UNCHANGED reboots
     ELSE pc' = "rebooting" /\ reboots' = reboots + 1
  /\ UNCHANGED <<host, ev, plan, runs, wrong>> /\ UNCHANGED <<Packages, Entry>>

Run == Begin \/ Decide \/ AptFails \/ Purge \/ Install \/ Verify
         \/ HandleRebootRequired
Next == Run \/ Boot \/ Kill \/ Reset

Spec == Init /\ [][Next]_vars
-----------------------------------------------------------------------------
(* What the pipeline sees of the phase. *)
Table == INSTANCE PhaseTable

LifeAt ==
  IF pc \in {"gathered", "purge", "install", "verify"} THEN "in"
  ELSE IF pc = "ask" THEN "asked" ELSE "out"

LifeStatus == IF status = "failed" THEN "failed_fatal" ELSE status

Life == INSTANCE PhaseLife WITH
  Body <- Table!NvidiaDriver, Early <- {}, Resets <- TRUE,
  status <- LifeStatus, saved <- LifeStatus, at <- LifeAt

(* shouldSkip, MarkRunning and the endings that PhaseTable lists: the phase *)
(* is what the pipeline takes it for, through reboots, kills and resets.    *)
LivesAsTabled == Life!Spec

-----------------------------------------------------------------------------
TypeOK ==
  /\ host \in Host
  /\ installed \subseteq Families
  /\ module \in {"none", "open", "closed"}
  /\ smi \in BOOLEAN /\ (smi => module # "none")
  /\ notice \in [dmesg : BOOLEAN, log : BOOLEAN]
  /\ status \in {"pending", "running", "done", "failed"}
  /\ recorded \in Families \cup {Unknown}
  /\ pc \in {"idle", "gathered", "purge", "install", "verify", "ask",
             "rebooting", "resume"}
  /\ ev \in Evidence
  /\ plan \in Plan
  /\ runs \in 0..MaxRuns /\ reboots \in 0..MaxReboots
  /\ wrong \in Nat

SingleWorking(e) == AlreadyInstalled(e) # Unknown /\ e.smi

(* family.go:275: with the kernel's notice or a Blackwell GPU no closed     *)
(* family is ever installed, and without them no package of a single        *)
(* working family is touched (cleanup.go:62 for the purge).                 *)
InstallsAreJustified ==
  [][ installed' # installed =>
        /\ SingleWorking(ev) => RequiresOpenKernelModule(ev)
        /\ RequiresOpenKernelModule(ev) =>
             \A f \in installed' \ installed : IsOpen(f)
        /\ installed' \subseteq installed \cup ev.available ]_vars

(* Done (nvidia_driver.go:171) says that nvidia-smi works with the packages *)
(* as they are now, that the recorded family is one of them, and an open    *)
(* one where it has to be.                                                  *)
DoneIsServed ==
  [][ status # "done" /\ status' = "done" =>
        /\ smi
        /\ recorded' \in installed
        /\ RequiresOpenKernelModule(ev) => IsOpen(recorded') ]_vars

(* cleanup.go:204: after a wrong flavor the selector picks "the open family *)
(* next time": no host that keeps its kern.log gets that verdict twice,     *)
(* whatever reboots clear in dmesg.                                         *)
WrongFlavorOnce == host.keepsLog => wrong <= 1
-----------------------------------------------------------------------------
(* family.go:15: "the operator had nvidia-driver-580-server-open installed  *)
(* and working.  A working installed family must be preserved."  On a GPU   *)
(* that needs open modules it is replaced by the other open family, which   *)
(* comes first unless the profile prefers server.                           *)
WorkingFamilyPreserved ==
  [][ installed' # installed =>
        ~(SingleWorking(ev)
          /\ (RequiresOpenKernelModule(ev) => IsOpen(AlreadyInstalled(ev)))) ]_vars
=============================================================================
