------------------------------- MODULE Deploy -------------------------------
(***************************************************************************)
(* The resumable phase pipeline of clouddeployctl: state.json on disk and  *)
(* in the memory of each invocation, the ordered phases, the reboot        *)
(* counters with their loop protection, the systemd continuation unit, and *)
(* the host they run on (kills, power losses, reboots).                    *)
(*                                                                         *)
(* One invocation of the binary is a process p of Procs.  Its control      *)
(* points (pc) are the places of main.go between which another process, a  *)
(* kill or a power loss can come.  Phases are numbered in the order of     *)
(* applyPhases(); what a phase does to the host is abstracted to how its   *)
(* Run may end.  The process lock is atomic here and ProcessLock takes it  *)
(* apart.                                                                  *)
(***************************************************************************)
EXTENDS Naturals, FiniteSets

CONSTANTS
  Procs,        \* invocations that may be alive at the same time
  NPhases,      \* length of the pipeline
  BodyEnds,     \* BodyEnds[i]: how Run of phase i may end once it marked itself running
  EarlyEnds,    \* EarlyEnds[i]: how it may end before that
  Reopening,    \* phases that run again although recorded as skipped
  MaxReboots,   \* deploy.max_auto_reboots
  Cmds,         \* commands the operator issues
  Autos,        \* whether an operator's command is --auto-reboot/--unattended
  SaveMayFail,  \* whether a write to disk may fail (no space left, I/O error)
  KillAt,       \* control points at which a process may be killed
  LossAt,       \* control points at which the host may go down unasked
  MaxStarts,    \* bound: commands the operator issues
  MaxCrashes,   \* bound: kills and unasked restarts
  Free, Stale   \* lock file absent; lock file naming a dead process

Phases == 1..NPhases
Status == {"pending", "running", "done", "skipped", "failed_fatal",
           "failed_nonfatal", "pending_moonlight_connect"}
Ending == (Status \ {"pending", "running"}) \cup {"reboot"}
Passed == {"done", "skipped", "failed_nonfatal", "pending_moonlight_connect"}
Commands == {"apply", "resume", "phase", "reset", "creds"}

ASSUME DeployAssumption ==
  /\ NPhases \in Nat \ {0}
  /\ BodyEnds \in [Phases -> SUBSET Ending]
  /\ EarlyEnds \in [Phases -> SUBSET (Ending \ {"reboot"})]
  /\ Reopening \subseteq Phases
  /\ MaxReboots \in Nat \ {0}
  /\ Cmds \subseteq Commands
  /\ Autos \subseteq BOOLEAN
  /\ SaveMayFail \in BOOLEAN
  /\ MaxStarts \in Nat
  /\ MaxCrashes \in Nat
  /\ Free \notin Procs /\ Stale \notin Procs /\ Free # Stale

VARIABLES
  disk,     \* the content of state.json
  present,  \* whether state.json exists
  unit,     \* the continuation unit: its file, its enablement, its flag
  lock,     \* state.lock: Free, Stale or the process it names
  host,     \* "up", "rebooting" (systemctl reboot accepted) or "down"
  pc,       \* control point of each process; "idle" when there is none
  mem,      \* deps.State of each process
  job,      \* the command each process executes
  starts,   \* commands issued so far
  crashes,  \* kills and unasked restarts so far
  seen      \* history: what an outside observer has seen happen

vars == <<disk, present, unit, lock, host, pc, mem, job, starts, crashes, seen>>
-----------------------------------------------------------------------------
(* state.State: phase 0 stands for the empty string of a reboot target. *)
StateFile == [st : [Phases -> Status], needed : BOOLEAN, target : 0..NPhases,
              count : Nat, last : 0..NPhases, same : Nat]

Fresh == [st |-> [i \in Phases |-> "pending"], needed |-> FALSE, target |-> 0,
          count |-> 0, last |-> 0, same |-> 0]

Job == [cmd : Commands, at : 1..(NPhases + 1), auto : BOOLEAN,
        boot : BOOLEAN,       \* started by the continuation unit
        early : BOOLEAN]      \* inside installContinuationForAutoResume

NoJob == [cmd |-> "creds", at |-> 1, auto |-> FALSE, boot |-> FALSE, early |-> FALSE]

ContinuationUnit == [file : {"none", "torn", "ok"}, enabled : BOOLEAN, auto : BOOLEAN]

History == [issued : Nat,                         \* reboots asked of systemd
            ended : {"no", "error", "complete"},  \* how the last invocation ended
            cleared : SUBSET Phases]              \* reset since, and not run again

ControlPoint ==
  {"idle", "lock", "recover", "gate", "preflight", "clear", "run", "body", "record",
   "unit_open", "unit_write", "unit_enable", "reboot", "disable", "remove",
   "creds", "reset", "release", "release_exit2", "deferred", "again"}

(* Operations of internal/state on a state value. *)
MarkStatus(s, i, status) == [s EXCEPT !.st[i] = status]

Running(s) == {i \in Phases : s.st[i] = "running"}

(* Mutant: an interrupted phase is taken for a finished one. *)
RecoverInterruptedRunningPhases_AsDone(s) ==
  [s EXCEPT !.st = [i \in Phases |-> IF i \in Running(s) THEN "done" ELSE s.st[i]]]

RecoverInterruptedRunningPhases(s) ==
  [s EXCEPT !.st = [i \in Phases |-> IF i \in Running(s) THEN "pending" ELSE s.st[i]]]

SetRebootNeeded(s, needed, target) == [s EXCEPT !.needed = needed, !.target = target]

RecordRebootRequest(s, target) ==
  LET again == target # 0 /\ target = s.last
  IN  [s EXCEPT !.count = @ + 1,
                !.last  = target,
                !.same  = IF again THEN @ + 1 ELSE 1]

(* Mutant: both limits off by one. *)
LoopProtection_Late(s) == s.count > MaxReboots + 1 \/ s.same > 3

LoopProtection(s) == s.count > MaxReboots \/ s.same > 2

(* shouldSkip: recorded done or skipped.  Tailscale asks again when it was  *)
(* skipped and its key has appeared since.                                  *)
ShouldSkip(s, i) == s.st[i] \in {"done", "skipped"}
MayReopen(s, i) == i \in Reopening /\ s.st[i] = "skipped"
-----------------------------------------------------------------------------
Armed == unit.file = "ok" /\ unit.enabled

(* State.Save is atomic (temp file, fsync, rename): it happened or it did   *)
(* not.                                                                     *)
SaveOK(s) == disk' = s /\ present' = TRUE
SaveFails == SaveMayFail /\ UNCHANGED <<disk, present>>

(* `_ = deps.PersistState()`: the error is dropped.                         *)
Persist(p, s) == mem' = [mem EXCEPT ![p] = s] /\ (SaveOK(s) \/ SaveFails)

Goto(p, l) == pc' = [pc EXCEPT ![p] = l]

(* Where an invocation goes when it returns an error from the pipeline. *)
Return(p) == IF job[p].cmd \in {"apply", "resume"} THEN "release" ELSE "deferred"

Unchanged == UNCHANGED <<host, starts, crashes>>
-----------------------------------------------------------------------------
Init ==
  /\ disk = Fresh /\ present = FALSE
  /\ unit = [file |-> "none", enabled |-> FALSE, auto |-> FALSE]
  /\ lock = Free
  /\ host = "up"
  /\ pc = [p \in Procs |-> "idle"]
  /\ mem = [p \in Procs |-> Fresh]
  /\ job = [p \in Procs |-> NoJob]
  /\ starts = 0
  /\ crashes = 0
  /\ seen = [issued |-> 0, ended |-> "no", cleared |-> {}]

(* A process begins with state.Load: before it has the lock. *)
Load(p, c, i, auto, boot) ==
  /\ pc[p] = "idle"
  /\ mem' = [mem EXCEPT ![p] = disk]
  /\ job' = [job EXCEPT ![p] = [cmd |-> c, at |-> i, auto |-> auto, boot |-> boot,
                                early |-> FALSE]]
  /\ Goto(p, IF c = "reset" THEN "reset" ELSE "lock")

Start(p) ==
  /\ host = "up" /\ starts < MaxStarts
  /\ \E c \in Cmds, a \in Autos, i \in Phases :
       /\ c \in {"apply", "resume", "creds"} => i = 1
       /\ c = "reset" => present
       /\ Load(p, c, i, a, FALSE)
  /\ starts' = starts + 1
  /\ seen' = [seen EXCEPT !.ended = "no"]
  /\ UNCHANGED <<disk, present, unit, lock, host, crashes>>

(* Mutant: ErrLocked is taken for a stale lock. *)
Acquire_Anyway(p) ==
  /\ pc[p] = "lock"
  /\ lock' = p
  /\ Goto(p, CASE job[p].cmd \in {"apply", "resume"} -> "recover"
               [] job[p].cmd = "phase" -> "run"
               [] OTHER -> "creds")
  /\ UNCHANGED <<disk, present, unit, mem, job, seen>> /\ Unchanged

(* AcquireWithRecovery, taken as one step: a dead holder's file is stolen.  *)
Acquire(p) ==
  /\ pc[p] = "lock"
  /\ IF lock \in {Free, Stale}
       THEN /\ lock' = p
            /\ Goto(p, CASE job[p].cmd \in {"apply", "resume"} -> "recover"
                         [] job[p].cmd = "phase" -> "run"
                         [] OTHER -> "creds")
            /\ UNCHANGED seen
       ELSE /\ Goto(p, "idle")
            /\ seen' = [seen EXCEPT !.ended = "error"]
            /\ UNCHANGED lock
  /\ UNCHANGED <<disk, present, unit, mem, job>> /\ Unchanged

Fail(p) ==
  /\ Goto(p, Return(p))
  /\ seen' = [seen EXCEPT !.ended = "error"]

(* An error before the pipeline: only the deferred Release runs. *)
Refuse(p) ==
  /\ Goto(p, "deferred")
  /\ seen' = [seen EXCEPT !.ended = "error"]

Recover(p) ==
  /\ pc[p] = "recover"
  /\ LET s == RecoverInterruptedRunningPhases(mem[p])
         next == IF job[p].cmd = "apply" THEN "gate" ELSE "clear"
     IN  IF Running(mem[p]) = {}
           THEN Goto(p, next) /\ UNCHANGED <<disk, present, mem, seen>>
           ELSE /\ mem' = [mem EXCEPT ![p] = s]
                /\ \/ SaveOK(s) /\ Goto(p, next) /\ UNCHANGED seen
                   \/ SaveFails /\ Refuse(p)
  /\ UNCHANGED <<unit, lock, job>> /\ Unchanged

(* The supported-Ubuntu gate of apply may turn the host away. *)
Gate(p) ==
  /\ pc[p] = "gate"
  /\ \/ Goto(p, "preflight") /\ UNCHANGED seen
     \/ Refuse(p)
  /\ UNCHANGED <<disk, present, unit, lock, mem, job>> /\ Unchanged

(* preflightUnattendedCredentials, then installContinuationForAutoResume. *)
Preflight(p) ==
  /\ pc[p] = "preflight"
  /\ Persist(p, mem[p])
  /\ \/ ~job[p].auto /\ Goto(p, "run") /\ UNCHANGED <<job, seen>>
     \/ /\ job[p].auto /\ Goto(p, "unit_open")
        /\ job' = [job EXCEPT ![p].early = TRUE] /\ UNCHANGED seen
     \/ job[p].auto /\ Refuse(p) /\ UNCHANGED job
  /\ UNCHANGED <<unit, lock>> /\ Unchanged

(* Mutant: resume removes the unit that started it (the regression that the  *)
(* comment of runPhasesAndBanner tells of).                                 *)
Clear_DisablesUnit(p) ==
  /\ pc[p] = "clear"
  /\ IF mem[p].needed
       THEN Persist(p, SetRebootNeeded(mem[p], FALSE, 0))
       ELSE UNCHANGED <<disk, present, mem>>
  /\ unit' = [file |-> "none", enabled |-> FALSE, auto |-> FALSE]
  /\ Goto(p, "run")
  /\ UNCHANGED <<lock, job, seen>> /\ Unchanged

(* resume: it is running again, so no reboot is queued any more. *)
Clear(p) ==
  /\ pc[p] = "clear"
  /\ IF mem[p].needed
       THEN Persist(p, SetRebootNeeded(mem[p], FALSE, 0))
       ELSE UNCHANGED <<disk, present, mem>>
  /\ Goto(p, "run")
  /\ UNCHANGED <<unit, lock, job, seen>> /\ Unchanged
-----------------------------------------------------------------------------
(* The loop of runPhasesAndBanner; `phase <name>` runs one turn of it. *)
Advance(p) ==
  IF job[p].cmd = "phase"
    THEN Goto(p, "deferred") /\ UNCHANGED job
    ELSE Goto(p, "run") /\ job' = [job EXCEPT ![p].at = @ + 1]

AtPhase(p) == pc[p] = "run" /\ job[p].at <= NPhases

Skip(p) ==
  /\ AtPhase(p)
  /\ ShouldSkip(mem[p], job[p].at)
  /\ Advance(p)
  /\ UNCHANGED <<disk, present, unit, lock, mem, seen>> /\ Unchanged

Touch(p) == seen' = [seen EXCEPT !.cleared = @ \ {job[p].at}]

(* Mutant: Run without shouldSkip. *)
MustRun_Always(p) == AtPhase(p)

MustRun(p) == ~ShouldSkip(mem[p], job[p].at) \/ MayReopen(mem[p], job[p].at)

Begin(p) ==
  /\ AtPhase(p)
  /\ MustRun(p)
  /\ Persist(p, MarkStatus(mem[p], job[p].at, "running"))
  /\ Goto(p, "body")
  /\ Touch(p)
  /\ UNCHANGED <<unit, lock, job>> /\ Unchanged

(* Mutant: Run returns nil after MarkFailed. *)
Settle_Swallow(p, status) ==
  /\ Persist(p, MarkStatus(mem[p], job[p].at, status))
  /\ Advance(p) /\ Touch(p)
  /\ UNCHANGED <<unit, lock>> /\ Unchanged

(* Run returns without asking for a reboot. *)
Settle(p, status) ==
  /\ Persist(p, MarkStatus(mem[p], job[p].at, status))
  /\ IF status = "failed_fatal"
       THEN /\ Goto(p, Return(p))
            /\ seen' = [seen EXCEPT !.ended = "error", !.cleared = @ \ {job[p].at}]
            /\ UNCHANGED job
       ELSE Advance(p) /\ Touch(p)
  /\ UNCHANGED <<unit, lock>> /\ Unchanged

EndEarly(p) ==
  /\ AtPhase(p)
  /\ MustRun(p)
  /\ \E o \in EarlyEnds[job[p].at] : Settle(p, o)

Finish(p) ==
  /\ pc[p] = "body"
  /\ \E o \in BodyEnds[job[p].at] \ {"reboot"} : Settle(p, o)

(* Run returns ErrRebootRequired: the phase stays "running". *)
AskReboot(p) ==
  /\ pc[p] = "body"
  /\ "reboot" \in BodyEnds[job[p].at]
  /\ Persist(p, SetRebootNeeded(mem[p], TRUE, job[p].at))
  /\ Goto(p, "record")
  /\ UNCHANGED <<unit, lock, job, seen>> /\ Unchanged
-----------------------------------------------------------------------------
(* Mutant: the error of PersistState is dropped, as everywhere else. *)
Record_Unsaved(p) ==
  /\ pc[p] = "record"
  /\ LET s == RecordRebootRequest(mem[p], mem[p].target)
     IN  /\ mem' = [mem EXCEPT ![p] = s]
         /\ \/ LoopProtection(s) /\ Fail(p) /\ UNCHANGED <<disk, present>>
            \/ /\ ~LoopProtection(s)
               /\ SaveOK(s) \/ SaveFails
               /\ Goto(p, "unit_open") /\ UNCHANGED seen
  /\ UNCHANGED <<unit, lock, job>> /\ Unchanged

(* handleRebootRequired *)
Record(p) ==
  /\ pc[p] = "record"
  /\ LET s == RecordRebootRequest(mem[p], mem[p].target)
     IN  /\ mem' = [mem EXCEPT ![p] = s]
         /\ \/ LoopProtection(s) /\ Fail(p) /\ UNCHANGED <<disk, present>>
            \/ ~LoopProtection(s) /\ SaveOK(s) /\ Goto(p, "unit_open") /\ UNCHANGED seen
            \/ ~LoopProtection(s) /\ SaveFails /\ Fail(p)
  /\ UNCHANGED <<unit, lock, job>> /\ Unchanged

(* Service.Install: os.WriteFile empties the unit file before it fills it;  *)
(* then the env file, daemon-reload and enable.                             *)
InstallFails(p) == IF job[p].early THEN Refuse(p) ELSE Fail(p)

UnitOpen(p) ==
  /\ pc[p] = "unit_open"
  /\ \/ unit' = [unit EXCEPT !.file = "torn"] /\ Goto(p, "unit_write") /\ UNCHANGED seen
     \/ SaveMayFail /\ InstallFails(p) /\ UNCHANGED unit
  /\ UNCHANGED <<disk, present, lock, mem, job>> /\ Unchanged

UnitWrite(p) ==
  /\ pc[p] = "unit_write"
  /\ \/ /\ unit' = [unit EXCEPT !.file = "ok", !.auto = job[p].auto]
        /\ Goto(p, "unit_enable") /\ UNCHANGED seen
     \/ SaveMayFail /\ InstallFails(p) /\ UNCHANGED unit
  /\ UNCHANGED <<disk, present, lock, mem, job>> /\ Unchanged

(* Mutant: a failing `systemctl enable` is ignored. *)
UnitEnable_Ignored(p) ==
  /\ pc[p] = "unit_enable"
  /\ \E e \in {unit.enabled, TRUE} : unit' = [unit EXCEPT !.enabled = e]
  /\ Goto(p, IF job[p].early THEN "run" ELSE "reboot")
  /\ job' = [job EXCEPT ![p].early = FALSE]
  /\ UNCHANGED <<disk, present, lock, mem, seen>> /\ Unchanged

UnitEnable(p) ==
  /\ pc[p] = "unit_enable"
  /\ \/ /\ unit' = [unit EXCEPT !.enabled = TRUE]
        /\ Goto(p, IF job[p].early THEN "run" ELSE "reboot")
        /\ job' = [job EXCEPT ![p].early = FALSE] /\ UNCHANGED seen
     \/ InstallFails(p) /\ UNCHANGED <<unit, job>>
  /\ UNCHANGED <<disk, present, lock, mem>> /\ Unchanged

(* ErrRebootRequired reaches the command: apply and resume release the lock *)
(* and os.Exit(2); `phase` calls os.Exit(2) at once, with the lock held.    *)
ExitTwo(p) ==
  IF job[p].cmd = "phase"
    THEN Goto(p, "idle") /\ lock' = IF lock = p THEN Stale ELSE lock
    ELSE Goto(p, "release_exit2") /\ UNCHANGED lock

Reboot(p) ==
  /\ pc[p] = "reboot"
  /\ \/ /\ job[p].auto
        /\ host' = "rebooting"
        /\ ExitTwo(p)
        /\ seen' = [seen EXCEPT !.issued = @ + 1]
     \/ job[p].auto /\ Fail(p) /\ UNCHANGED <<lock, host>>
     \/ ~job[p].auto /\ ExitTwo(p) /\ UNCHANGED <<host, seen>>
  /\ UNCHANGED <<disk, present, unit, mem, job, starts, crashes>>
-----------------------------------------------------------------------------
(* Mutant: the last phase is forgotten. *)
EndOfPipeline_Short(p) ==
  /\ pc[p] = "run" /\ job[p].at = NPhases
  /\ Goto(p, IF unit.file = "none" THEN "release" ELSE "disable")
  /\ seen' = [seen EXCEPT !.ended = "complete"]
  /\ UNCHANGED <<disk, present, unit, lock, mem, job>> /\ Unchanged

(* The end of the loop: disableContinuationIfPresent, banner, release. *)
EndOfPipeline(p) ==
  /\ pc[p] = "run" /\ job[p].at = NPhases + 1
  /\ Goto(p, IF unit.file = "none" THEN "release" ELSE "disable")
  /\ seen' = [seen EXCEPT !.ended = "complete"]
  /\ UNCHANGED <<disk, present, unit, lock, mem, job>> /\ Unchanged

(* Service.Disable: `systemctl disable` is best effort, as is the removal   *)
(* for the caller, which only prints a warning.                             *)
Disable(p) ==
  /\ pc[p] = "disable"
  /\ \E e \in {FALSE, unit.enabled} : unit' = [unit EXCEPT !.enabled = e]
  /\ Goto(p, "remove")
  /\ UNCHANGED <<disk, present, lock, mem, job, seen>> /\ Unchanged

Remove(p) ==
  /\ pc[p] = "remove"
  /\ \/ unit' = [unit EXCEPT !.file = "none"]
     \/ SaveMayFail /\ UNCHANGED unit
  /\ Goto(p, "release")
  /\ UNCHANGED <<disk, present, lock, mem, job, seen>> /\ Unchanged

(* Lock.Release removes whatever file is there.  apply and resume call it   *)
(* and then return through the deferred second call.                        *)
Release(p) ==
  /\ pc[p] \in {"release", "release_exit2", "deferred", "again"}
  /\ lock' = Free
  /\ Goto(p, IF pc[p] = "release" THEN "again" ELSE "idle")
  /\ UNCHANGED <<disk, present, unit, mem, job, seen>> /\ Unchanged

(* sunshine reset-credentials: the lock and one save, or an error without a  *)
(* password; no recovery of interrupted phases.                             *)
ResetCredentials(p) ==
  /\ pc[p] = "creds"
  /\ Persist(p, mem[p]) \/ UNCHANGED <<disk, present, mem>>
  /\ Goto(p, "deferred")
  /\ UNCHANGED <<unit, lock, job, seen>> /\ Unchanged

(* Mutant: the command reports success whatever Save returned. *)
StateReset_Unchecked(p) ==
  /\ pc[p] = "reset"
  /\ Persist(p, MarkStatus(mem[p], job[p].at, "pending"))
  /\ seen' = [seen EXCEPT !.cleared = @ \cup {job[p].at}]
  /\ Goto(p, "idle")
  /\ UNCHANGED <<unit, lock, job>> /\ Unchanged

(* state reset --phase: load, delete the entry, save; no lock.  A phase that *)
(* has no entry is an error.                                                *)
StateReset(p) ==
  /\ pc[p] = "reset"
  /\ LET s == MarkStatus(mem[p], job[p].at, "pending")
     IN  \/ /\ mem' = [mem EXCEPT ![p] = s]
            /\ \/ /\ SaveOK(s)
                  /\ seen' = [seen EXCEPT !.cleared = @ \cup {job[p].at}]
               \/ SaveFails /\ UNCHANGED seen
         \/ s = mem[p] /\ UNCHANGED <<disk, present, mem, seen>>
  /\ Goto(p, "idle")
  /\ UNCHANGED <<unit, lock, job>> /\ Unchanged
-----------------------------------------------------------------------------
(* The environment. *)
Kill(p) ==
  /\ pc[p] \in KillAt \ {"idle"}
  /\ crashes < MaxCrashes /\ crashes' = crashes + 1
  /\ Goto(p, "idle")
  /\ lock' = IF lock = p THEN Stale ELSE lock
  /\ UNCHANGED <<disk, present, unit, host, mem, job, starts, seen>>

AllDie ==
  /\ host' = "down"
  /\ pc' = [p \in Procs |-> "idle"]
  /\ mem' = [p \in Procs |-> Fresh]
  /\ job' = [p \in Procs |-> NoJob]
  /\ lock' = IF lock \in Procs THEN Stale ELSE lock
  /\ UNCHANGED <<disk, present, unit, starts, seen>>

(* Power loss, an operator's reboot, or one caused by a package upgrade. *)
PowerLoss ==
  /\ host # "down"
  /\ \A p \in Procs : pc[p] \in LossAt \cup {"idle"}
  /\ crashes < MaxCrashes /\ crashes' = crashes + 1
  /\ AllDie

Shutdown == host = "rebooting" /\ AllDie /\ UNCHANGED crashes

(* multi-user.target starts the enabled unit; ConditionPathExists is         *)
(* state.json; ExecStart is resume with the flags of Install.               *)
Boot ==
  /\ host = "down" /\ host' = "up"
  /\ IF Armed /\ present
       THEN \E p \in Procs : Load(p, "resume", 1, unit.auto, TRUE)
       ELSE UNCHANGED <<pc, mem, job>>
  /\ UNCHANGED <<disk, present, unit, lock, starts, crashes, seen>>
-----------------------------------------------------------------------------
Step(p) ==
  /\ host # "down"
  /\ \/ Acquire(p) \/ Recover(p) \/ Gate(p) \/ Preflight(p) \/ Clear(p)
     \/ Skip(p) \/ Begin(p) \/ EndEarly(p) \/ Finish(p) \/ AskReboot(p)
     \/ Record(p) \/ UnitOpen(p) \/ UnitWrite(p) \/ UnitEnable(p) \/ Reboot(p)
     \/ EndOfPipeline(p) \/ Disable(p) \/ Remove(p) \/ Release(p)
     \/ ResetCredentials(p) \/ StateReset(p)

Next ==
  \/ \E p \in Procs : Start(p) \/ Step(p) \/ Kill(p)
  \/ PowerLoss \/ Shutdown \/ Boot

Spec == Init /\ [][Next]_vars

(* The kernel schedules a runnable process, a requested shutdown happens,   *)
(* a host that is down comes back.                                          *)
Fairness == (\A p \in Procs : WF_vars(Step(p))) /\ WF_vars(Shutdown) /\ WF_vars(Boot)

FairSpec == Spec /\ Fairness
-----------------------------------------------------------------------------
(* Every variable has its type; a lock file that names a process names one  *)
(* that is alive.                                                           *)
TypeOK ==
  /\ disk \in StateFile
  /\ present \in BOOLEAN
  /\ unit \in ContinuationUnit
  /\ lock \in Procs \cup {Free, Stale}
  /\ host \in {"up", "rebooting", "down"}
  /\ pc \in [Procs -> ControlPoint]
  /\ mem \in [Procs -> StateFile]
  /\ job \in [Procs -> Job]
  /\ starts \in Nat /\ crashes \in Nat
  /\ seen \in History
  /\ \A p \in Procs : lock = p => pc[p] # "idle"

(* Loop protection (main.go:2200): whatever crashes, fails to save or runs  *)
(* at the same time, state.json never records more reboots than             *)
(* max_auto_reboots, nor a third one in a row for the same phase.           *)
CountersBounded == disk.count <= MaxReboots /\ disk.same <= 2

(* A reboot is only ever asked of systemd after it was counted on disk, so  *)
(* no crash or lost save lets a host reboot more often than the limit.      *)
EveryRebootCounted == seen.issued <= disk.count

(* state.go:374: "so the state survives the reboot".  When the host is told *)
(* to reboot, state.json names the phase that asked, still running, and the *)
(* continuation unit is whole, enabled and automatic.                       *)
RebootSurvivable ==
  [][seen'.issued # seen.issued =>
       /\ disk.needed /\ disk.target # 0 /\ disk.target = disk.last
       /\ disk.st[disk.target] = "running"
       /\ Armed /\ unit.auto]_vars

(* A phase that modifies the host runs only when every earlier phase of the *)
(* pipeline is settled and none of them failed fatally (main.go:541).       *)
PipelineOrder ==
  \A p \in Procs :
    (pc[p] \in {"body", "record"} /\ job[p].cmd \in {"apply", "resume"}) =>
      \A j \in 1..(job[p].at - 1) : mem[p].st[j] \in Passed

(* A phase recorded as done stays done through crashes, lost saves, reboots *)
(* and later commands, until an operator resets that very phase.            *)
CompletedStaysCompleted ==
  [][\A i \in Phases : (disk.st[i] = "done" /\ disk'.st[i] # "done") =>
       \E p \in Procs : pc[p] = "reset" /\ job[p].at = i]_vars

(* `state reset` ("Force a phase back to pending", main.go:2292): after it  *)
(* reported success the phase stays pending until it is run again.          *)
ResetSticks == \A i \in seen.cleared : disk.st[i] = "pending"

(* main.go:667: from its first phase until it asks for a reboot, an         *)
(* unexpected one would find the continuation unit of an automatic deploy   *)
(* whole and enabled.  The one exception is the moment in which Install,    *)
(* called a second time, has emptied the file (reboot.go:249): a power loss *)
(* then leaves an enabled unit with nothing in it, and the deploy stops.    *)
Unattended(p) == job[p].auto /\ (job[p].cmd = "apply" \/ job[p].boot)

AmongPhases(p) ==
  \/ pc[p] \in {"run", "body", "record", "reboot"}
  \/ pc[p] \in {"unit_open", "unit_enable"} /\ ~job[p].early

ArmedWhilePhasesRun ==
  \A p \in Procs : (Unattended(p) /\ AmongPhases(p)) => Armed

(* The continuation unit goes away only for an invocation that saw every    *)
(* phase of the pipeline pass.                                              *)
UnitRemovedOnlyWhenPassed ==
  [][(unit.file # "none" /\ unit'.file = "none") =>
       \E p \in Procs : pc[p] = "remove" /\ \A i \in Phases : mem[p].st[i] \in Passed]_vars

(* The ledger of the work that was done: on disk, and as whoever is alive  *)
(* knows it.                                                                *)
DoneIn(s) == {i \in Phases : s.st[i] = "done"}
Recorded == DoneIn(disk)
Known == Recorded \cup UNION {DoneIn(mem[p]) : p \in {q \in Procs : pc[q] # "idle"}}
UnderWay == {job[p].at : p \in {q \in Procs : pc[q] = "body"}}
FoundDone == {i \in Phases : "done" \in EarlyEnds[i]}

Ledger == INSTANCE PhaseLedger WITH
  Instant <- FoundDone, done <- Recorded, known <- Known, doing <- UnderWay

(* "apply / resume / phase consult it to decide which work to skip"         *)
(* (state.go:6).  Where invocations do not overlap, nothing that is done is *)
(* done again before it is reset, through every crash and reboot, and the   *)
(* only work that is lost is what could not be saved before the end.        *)
ImplementsLedger == Ledger!Spec

(* Who goes on as if it had the lock, and whose deferred Release is still   *)
(* to come.                                                                 *)
AtWork(p) == pc[p] \notin {"idle", "lock", "reset", "again"}
Works == {p \in Procs : AtWork(p)}
Clearing == {p \in Procs : pc[p] = "again"}

Service == INSTANCE LockService WITH
  Left <- Stale, works <- Works, clearing <- Clearing

(* The commands use the lock as ProcessLock provides it: they go on only    *)
(* once they took it, whoever ends gives it back or leaves it for a dead    *)
(* one's, and nobody but a second Release removes it under them.            *)
UsesLockService == Service!Spec

(* From one invocation at work to two the way leads only through the        *)
(* deferred Release of a third, after the explicit one had already given    *)
(* the lock back (main.go:492): no kill, exit code, power loss or failing   *)
(* command does it.                                                         *)
ExclusionLostOnlyToSecondRelease ==
  [][(Service!Exclusive /\ ~Service!Exclusive') =>
       \E q \in Procs : pc[q] = "again" /\ pc'[q] = "idle" /\ lock \notin {q, Free, Stale}]_vars

(* An automatic deploy that reached its phases ends, complete or with an    *)
(* error an operator sees, whatever the phases ask for and across reboots.  *)
AutoDeploySettles ==
  (\E p \in Procs : pc[p] = "body" /\ Unattended(p)) ~> seen.ended # "no"
=============================================================================
