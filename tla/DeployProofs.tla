---------------------------- MODULE DeployProofs ----------------------------
(***************************************************************************)
(* Theorems about Deploy, for every pipeline, every table of phase         *)
(* endings, every limit and every set of processes.                        *)
(***************************************************************************)
EXTENDS Deploy, TLAPS

(* What the typing of a step rests on: the phase a process works at exists, *)
(* and the lock file names only a process that passed Acquire.              *)
PhaseInRange == \A p \in Procs : pc[p] \in {"body", "record", "reset"} => job[p].at \in Phases
HolderInside == \A p \in Procs : lock = p => pc[p] \notin {"idle", "lock", "reset", "again"}

Typed == TypeOK /\ PhaseInRange /\ HolderInside
-----------------------------------------------------------------------------
(* The operations of internal/state keep a state file a state file. *)
LEMMA MarkStatusType ==
  ASSUME NEW s \in StateFile, NEW i, NEW status \in Status
  PROVE  MarkStatus(s, i, status) \in StateFile
BY DEF MarkStatus, StateFile

LEMMA RecoverType ==
  ASSUME NEW s \in StateFile
  PROVE  RecoverInterruptedRunningPhases(s) \in StateFile
BY DEF RecoverInterruptedRunningPhases, StateFile, Status

LEMMA SetRebootNeededType ==
  ASSUME NEW s \in StateFile, NEW needed \in BOOLEAN, NEW target \in 0..NPhases
  PROVE  SetRebootNeeded(s, needed, target) \in StateFile
BY DEF SetRebootNeeded, StateFile

LEMMA RecordType ==
  ASSUME NEW s \in StateFile, NEW target \in 0..NPhases
  PROVE  RecordRebootRequest(s, target) \in StateFile
<1> DEFINE n == IF target # 0 /\ target = s.last THEN s.same + 1 ELSE 1
<1>1. RecordRebootRequest(s, target)
        = [s EXCEPT !.count = s.count + 1, !.last = target, !.same = n]
  BY DEF RecordRebootRequest
<1>2. n \in Nat /\ s.count + 1 \in Nat
  BY DEF StateFile
<1> HIDE DEF n
<1> QED
  BY <1>1, <1>2 DEF StateFile

LEMMA FreshType == Fresh \in StateFile
BY DeployAssumption DEF Fresh, StateFile, Status, Phases

LEMMA NoJobType == NoJob \in Job
BY DeployAssumption DEF NoJob, Job, Commands

LEMMA TypedInit == Init => Typed
<1> SUFFICES ASSUME Init PROVE Typed
  OBVIOUS
<1> USE DEF Init
<1>1. TypeOK
  <2>1. pc \in [Procs -> ControlPoint]
    BY DEF ControlPoint
  <2>2. mem \in [Procs -> StateFile] /\ disk \in StateFile
    BY FreshType
  <2>3. job \in [Procs -> Job]
    BY NoJobType
  <2>4. unit \in ContinuationUnit
    BY DEF ContinuationUnit
  <2>5. lock \in Procs \cup {Free, Stale} /\ \A p \in Procs : lock = p => pc[p] # "idle"
    BY DeployAssumption
  <2>6. seen \in History
    BY DEF History
  <2> QED
    BY <2>1, <2>2, <2>3, <2>4, <2>5, <2>6 DEF TypeOK
<1>2. PhaseInRange
  BY DEF PhaseInRange
<1>3. HolderInside
  BY DeployAssumption DEF HolderInside
<1> QED
  BY <1>1, <1>2, <1>3 DEF Typed


(* A step of p is typed when what it gives p, the disk, the unit, the lock  *)
(* and the history is.                                                      *)
LEMMA TypedFrame ==
  ASSUME Typed, NEW p \in Procs,
         \A q \in Procs \ {p} : pc'[q] = pc[q] /\ job'[q] = job[q],
         pc' \in [Procs -> ControlPoint], mem' \in [Procs -> StateFile],
         job' \in [Procs -> Job],
         pc'[p] \in {"body", "record", "reset"} => job'[p].at \in Phases,
         lock' \in {lock, p, Free, Stale},
         lock' = p => pc'[p] \notin {"idle", "lock", "reset", "again"},
         disk' \in StateFile, present' \in BOOLEAN, unit' \in ContinuationUnit,
         host' \in {"up", "rebooting", "down"}, starts' \in Nat, crashes' \in Nat,
         seen' \in History
  PROVE  Typed'
BY DeployAssumption DEF Typed, TypeOK, PhaseInRange, HolderInside

(* What PersistState leaves in memory and on disk. *)
LEMMA PersistTyped ==
  ASSUME Typed, NEW p \in Procs, NEW s \in StateFile, Persist(p, s)
  PROVE  mem' \in [Procs -> StateFile] /\ disk' \in StateFile /\ present' \in BOOLEAN
BY DEF Persist, SaveOK, SaveFails, Typed, TypeOK

(* The loop moves on within the pipeline. *)
LEMMA AdvanceTyped ==
  ASSUME Typed, NEW p \in Procs, job[p].at \in Phases, Advance(p)
  PROVE  /\ job' \in [Procs -> Job] /\ pc' \in [Procs -> ControlPoint]
         /\ pc'[p] \in {"run", "deferred"}
         /\ \A q \in Procs \ {p} : pc'[q] = pc[q] /\ job'[q] = job[q]
<1> USE DeployAssumption DEF Typed, TypeOK, Advance, Goto
<1>1. job[p].at \in 1..NPhases /\ job[p].at + 1 \in 1..(NPhases + 1)
  BY DEF Phases
<1>2. job' \in [Procs -> Job]
  BY <1>1 DEF Job
<1> QED
  BY <1>2 DEF ControlPoint

(* A process that begins has a phase of the pipeline and no lock. *)
LEMMA LoadTyped ==
  ASSUME Typed, NEW p \in Procs, NEW c \in Commands, NEW i \in Phases,
         NEW auto \in BOOLEAN, NEW boot \in BOOLEAN, Load(p, c, i, auto, boot),
         disk' = disk, present' = present, unit' = unit, lock' = lock,
         host' \in {"up", "rebooting", "down"}, starts' \in Nat, crashes' \in Nat,
         seen' \in History
  PROVE  Typed'
<1> USE DEF Typed, TypeOK
<1>1. lock # p
  BY DEF Load, HolderInside
<1>2. mem' \in [Procs -> StateFile] /\ pc' \in [Procs -> ControlPoint]
  BY DEF Load, Goto, ControlPoint
<1>3. job' \in [Procs -> Job] /\ job'[p].at \in Phases
  BY DeployAssumption DEF Load, Job, Phases
<1>4. \A q \in Procs \ {p} : pc'[q] = pc[q] /\ job'[q] = job[q]
  BY DEF Load, Goto
<1> QED
  BY <1>1, <1>2, <1>3, <1>4, TypedFrame

LEMMA TypedStep == Typed /\ [Next]_vars => Typed'
<1> SUFFICES ASSUME Typed, [Next]_vars PROVE Typed'
  OBVIOUS
<1> USE DEF Typed, TypeOK, PhaseInRange, HolderInside, Unchanged
<1>1. ASSUME NEW p \in Procs, Acquire(p) PROVE Typed'
  <2> USE <1>1 DEF Acquire
  <2>1. /\ pc' \in [Procs -> ControlPoint] /\ pc'[p] \in {"recover", "run", "creds", "idle"}
        /\ \A q \in Procs \ {p} : pc'[q] = pc[q] /\ job'[q] = job[q]
    BY DEF Goto, ControlPoint
  <2>2. seen' \in History
    BY DEF History
  <2>3. lock' \in {lock, p} /\ (lock' = p => pc'[p] # "idle")
    BY DEF Goto
  <2> QED
    BY <2>1, <2>2, <2>3, TypedFrame
<1>2. ASSUME NEW p \in Procs, Recover(p) PROVE Typed'
  <2> USE <1>2 DEF Recover
  <2>1. /\ pc' \in [Procs -> ControlPoint] /\ pc'[p] \in {"gate", "clear", "deferred"}
        /\ \A q \in Procs \ {p} : pc'[q] = pc[q] /\ job'[q] = job[q]
    BY DEF Goto, Refuse, ControlPoint
  <2>2. seen' \in History
    BY DEF Refuse, History
  <2>3. mem' \in [Procs -> StateFile] /\ disk' \in StateFile /\ present' \in BOOLEAN
    BY RecoverType DEF SaveOK, SaveFails
  <2> QED
    BY <2>1, <2>2, <2>3, TypedFrame
<1>3. ASSUME NEW p \in Procs, Gate(p) PROVE Typed'
  <2> USE <1>3 DEF Gate
  <2>1. /\ pc' \in [Procs -> ControlPoint] /\ pc'[p] \in {"preflight", "deferred"}
        /\ \A q \in Procs \ {p} : pc'[q] = pc[q] /\ job'[q] = job[q]
    BY DEF Goto, Refuse, ControlPoint
  <2>2. seen' \in History
    BY DEF Refuse, History
  <2> QED
    BY <2>1, <2>2, TypedFrame
<1>4. ASSUME NEW p \in Procs, Preflight(p) PROVE Typed'
  <2> USE <1>4 DEF Preflight
  <2>1. /\ pc' \in [Procs -> ControlPoint] /\ pc'[p] \in {"run", "unit_open", "deferred"}
        /\ \A q \in Procs \ {p} : pc'[q] = pc[q] /\ job'[q] = job[q]
    BY DEF Goto, Refuse, ControlPoint
  <2>2. seen' \in History
    BY DEF Refuse, History
  <2>3. mem' \in [Procs -> StateFile] /\ disk' \in StateFile /\ present' \in BOOLEAN
    BY DEF Persist, SaveOK, SaveFails
  <2>4. job' = job \/ job' = [job EXCEPT ![p].early = TRUE]
    OBVIOUS
  <2>5. [job[p] EXCEPT !.early = TRUE] \in Job
    BY DEF Job
  <2>6. job' \in [Procs -> Job]
    BY ONLY <2>4, <2>5, job \in [Procs -> Job]
  <2> QED
    BY <2>1, <2>2, <2>3, <2>6, TypedFrame
<1>5. ASSUME NEW p \in Procs, Clear(p) PROVE Typed'
  <2> USE <1>5 DEF Clear
  <2>1. /\ pc' \in [Procs -> ControlPoint] /\ pc'[p] \in {"run"}
        /\ \A q \in Procs \ {p} : pc'[q] = pc[q] /\ job'[q] = job[q]
    BY DEF Goto, ControlPoint
  <2>2. 0 \in 0..NPhases /\ mem[p] \in StateFile
    BY DeployAssumption
  <2>3. SetRebootNeeded(mem[p], FALSE, 0) \in StateFile
    BY <2>2, SetRebootNeededType
  <2>4. mem' \in [Procs -> StateFile] /\ disk' \in StateFile /\ present' \in BOOLEAN
    BY <2>3, PersistTyped
  <2> QED
    BY <2>1, <2>2, <2>3, <2>4, TypedFrame
<1>6. ASSUME NEW p \in Procs, Skip(p) PROVE Typed'
  <2> USE <1>6 DEF Skip
  <2>1. job[p].at \in Phases
    BY DeployAssumption DEF AtPhase, Job, Phases
  <2> QED
    BY <2>1, AdvanceTyped, TypedFrame
<1>7. ASSUME NEW p \in Procs, Begin(p) PROVE Typed'
  <2> USE <1>7 DEF Begin
  <2>1. /\ pc' \in [Procs -> ControlPoint] /\ pc'[p] \in {"body"}
        /\ \A q \in Procs \ {p} : pc'[q] = pc[q] /\ job'[q] = job[q]
    BY DEF Goto, ControlPoint
  <2>2. seen' \in History
    BY DEF Touch, History
  <2>3. job'[p].at \in Phases
    BY DeployAssumption DEF AtPhase, Job, Phases
  <2>4. MarkStatus(mem[p], job[p].at, "running") \in StateFile
    BY MarkStatusType DEF Status
  <2>5. mem' \in [Procs -> StateFile] /\ disk' \in StateFile /\ present' \in BOOLEAN
    BY <2>4, PersistTyped
  <2> QED
    BY <2>1, <2>2, <2>3, <2>4, <2>5, TypedFrame
<1>8. ASSUME NEW p \in Procs, NEW status \in Ending \ {"reboot"}, Settle(p, status),
             job[p].at \in Phases, pc[p] \in {"run", "body"}
      PROVE  Typed'
  <2> USE <1>8 DEF Settle
  <2>1. mem' \in [Procs -> StateFile] /\ disk' \in StateFile /\ present' \in BOOLEAN
    <3>1. MarkStatus(mem[p], job[p].at, status) \in StateFile
      BY MarkStatusType DEF Ending
    <3> QED
      BY <3>1, PersistTyped
  <2>2. seen' \in History
    BY DEF Touch, History
  <2>3. CASE status = "failed_fatal"
    <3>1. /\ pc' \in [Procs -> ControlPoint] /\ pc'[p] \in {"release", "deferred"}
          /\ \A q \in Procs \ {p} : pc'[q] = pc[q] /\ job'[q] = job[q]
      BY <2>3 DEF Goto, Return, ControlPoint
    <3> QED
      BY <2>1, <2>2, <2>3, <3>1, TypedFrame
  <2>4. CASE status # "failed_fatal"
    BY <2>1, <2>2, <2>4, AdvanceTyped, TypedFrame
  <2> QED
    BY <2>3, <2>4
<1>9. ASSUME NEW p \in Procs, EndEarly(p) PROVE Typed'
  <2>1. job[p].at \in Phases
    BY <1>9, DeployAssumption DEF EndEarly, AtPhase, Job, Phases
  <2> QED
    BY <1>9, <1>8, <2>1, DeployAssumption DEF EndEarly, AtPhase
<1>10. ASSUME NEW p \in Procs, Finish(p) PROVE Typed'
  <2>1. job[p].at \in Phases
    BY <1>10 DEF Finish
  <2> QED
    BY <1>10, <1>8, <2>1, DeployAssumption DEF Finish
<1>11. ASSUME NEW p \in Procs, AskReboot(p) PROVE Typed'
  <2> USE <1>11 DEF AskReboot
  <2>1. /\ pc' \in [Procs -> ControlPoint] /\ pc'[p] \in {"record"}
        /\ \A q \in Procs \ {p} : pc'[q] = pc[q] /\ job'[q] = job[q]
    BY DEF Goto, ControlPoint
  <2>2. job'[p].at \in Phases /\ job[p].at \in 0..NPhases
    BY DeployAssumption DEF Phases
  <2>3. SetRebootNeeded(mem[p], TRUE, job[p].at) \in StateFile
    BY <2>2, SetRebootNeededType
  <2>4. mem' \in [Procs -> StateFile] /\ disk' \in StateFile /\ present' \in BOOLEAN
    BY <2>3, PersistTyped
  <2> QED
    BY <2>1, <2>2, <2>3, <2>4, TypedFrame
<1>12. ASSUME NEW p \in Procs, Record(p) PROVE Typed'
  <2> USE <1>12 DEF Record
  <2>1. /\ pc' \in [Procs -> ControlPoint] /\ pc'[p] \in {"release", "deferred", "unit_open"}
        /\ \A q \in Procs \ {p} : pc'[q] = pc[q] /\ job'[q] = job[q]
    BY DEF Goto, Fail, Return, ControlPoint
  <2>2. seen' \in History
    BY DEF Fail, History
  <2>3. mem[p].target \in 0..NPhases
    BY DEF StateFile
  <2>4. mem' \in [Procs -> StateFile] /\ disk' \in StateFile /\ present' \in BOOLEAN
    BY <2>3, RecordType DEF SaveOK, SaveFails
  <2> QED
    BY <2>1, <2>2, <2>3, <2>4, TypedFrame
<1>13. ASSUME NEW p \in Procs, UnitOpen(p) PROVE Typed'
  <2> USE <1>13 DEF UnitOpen
  <2>1. /\ pc' \in [Procs -> ControlPoint] /\ pc'[p] \in {"release", "deferred", "unit_write"}
        /\ \A q \in Procs \ {p} : pc'[q] = pc[q] /\ job'[q] = job[q]
    BY DEF Goto, Fail, Refuse, Return, InstallFails, ControlPoint
  <2>2. seen' \in History
    BY DEF InstallFails, Fail, Refuse, History
  <2>3. unit' \in ContinuationUnit
    BY DEF ContinuationUnit
  <2> QED
    BY <2>1, <2>2, <2>3, TypedFrame
<1>14. ASSUME NEW p \in Procs, UnitWrite(p) PROVE Typed'
  <2> USE <1>14 DEF UnitWrite
  <2>1. /\ pc' \in [Procs -> ControlPoint] /\ pc'[p] \in {"release", "deferred", "unit_enable"}
        /\ \A q \in Procs \ {p} : pc'[q] = pc[q] /\ job'[q] = job[q]
    BY DEF Goto, Fail, Refuse, Return, InstallFails, ControlPoint
  <2>2. seen' \in History
    BY DEF InstallFails, Fail, Refuse, History
  <2>3. unit' \in ContinuationUnit
    BY DEF ContinuationUnit, Job
  <2> QED
    BY <2>1, <2>2, <2>3, TypedFrame
<1>15. ASSUME NEW p \in Procs, UnitEnable(p) PROVE Typed'
  <2> USE <1>15 DEF UnitEnable
  <2>1. /\ pc' \in [Procs -> ControlPoint] /\ pc'[p] \in {"release", "deferred", "run", "reboot"}
        /\ \A q \in Procs \ {p} : pc'[q] = pc[q] /\ job'[q] = job[q]
    BY DEF Goto, Fail, Refuse, Return, InstallFails, ControlPoint
  <2>2. seen' \in History
    BY DEF InstallFails, Fail, Refuse, History
  <2>3. unit' \in ContinuationUnit
    BY DEF ContinuationUnit
  <2>4. [job[p] EXCEPT !.early = FALSE] \in Job
    BY DEF Job
  <2>5. job' \in [Procs -> Job]
    BY <2>4
  <2> QED
    BY <2>1, <2>2, <2>3, <2>4, <2>5, TypedFrame
<1>16. ASSUME NEW p \in Procs, Reboot(p) PROVE Typed'
  <2> USE <1>16 DEF Reboot
  <2>1. /\ pc' \in [Procs -> ControlPoint] /\ pc'[p] \in {"release_exit2", "idle", "release", "deferred"}
        /\ \A q \in Procs \ {p} : pc'[q] = pc[q] /\ job'[q] = job[q]
    BY DEF Goto, Fail, Return, ExitTwo, ControlPoint
  <2>2. seen' \in History
    BY DEF Fail, History
  <2>3. lock' \in {lock, Stale} /\ (pc'[p] = "idle" => lock' # p)
    BY DeployAssumption DEF Goto, Fail, Return, ExitTwo
  <2> QED
    BY <2>1, <2>2, <2>3, TypedFrame
<1>17. ASSUME NEW p \in Procs, EndOfPipeline(p) PROVE Typed'
  <2> USE <1>17 DEF EndOfPipeline
  <2>1. /\ pc' \in [Procs -> ControlPoint] /\ pc'[p] \in {"release", "disable"}
        /\ \A q \in Procs \ {p} : pc'[q] = pc[q] /\ job'[q] = job[q]
    BY DEF Goto, ControlPoint
  <2>2. seen' \in History
    BY DEF History
  <2> QED
    BY <2>1, <2>2, TypedFrame
<1>18. ASSUME NEW p \in Procs, Disable(p) PROVE Typed'
  <2> USE <1>18 DEF Disable
  <2>1. /\ pc' \in [Procs -> ControlPoint] /\ pc'[p] \in {"remove"}
        /\ \A q \in Procs \ {p} : pc'[q] = pc[q] /\ job'[q] = job[q]
    BY DEF Goto, ControlPoint
  <2>2. unit' \in ContinuationUnit
    BY DEF ContinuationUnit
  <2> QED
    BY <2>1, <2>2, TypedFrame
<1>19. ASSUME NEW p \in Procs, Remove(p) PROVE Typed'
  <2> USE <1>19 DEF Remove
  <2>1. /\ pc' \in [Procs -> ControlPoint] /\ pc'[p] \in {"release"}
        /\ \A q \in Procs \ {p} : pc'[q] = pc[q] /\ job'[q] = job[q]
    BY DEF Goto, ControlPoint
  <2>2. unit' \in ContinuationUnit
    BY DEF ContinuationUnit
  <2> QED
    BY <2>1, <2>2, TypedFrame
<1>20. ASSUME NEW p \in Procs, Release(p) PROVE Typed'
  <2> USE <1>20 DEF Release
  <2>1. /\ pc' \in [Procs -> ControlPoint] /\ pc'[p] \in {"again", "idle"}
        /\ \A q \in Procs \ {p} : pc'[q] = pc[q] /\ job'[q] = job[q]
    BY DEF Goto, ControlPoint
  <2>2. lock' # p
    BY DeployAssumption
  <2> QED
    BY <2>1, <2>2, TypedFrame
<1>21. ASSUME NEW p \in Procs, ResetCredentials(p) PROVE Typed'
  <2> USE <1>21 DEF ResetCredentials
  <2>1. /\ pc' \in [Procs -> ControlPoint] /\ pc'[p] \in {"deferred"}
        /\ \A q \in Procs \ {p} : pc'[q] = pc[q] /\ job'[q] = job[q]
    BY DEF Goto, ControlPoint
  <2>2. mem' \in [Procs -> StateFile] /\ disk' \in StateFile /\ present' \in BOOLEAN
    BY DEF Persist, SaveOK, SaveFails
  <2> QED
    BY <2>1, <2>2, TypedFrame
<1>22. ASSUME NEW p \in Procs, StateReset(p) PROVE Typed'
  <2> USE <1>22 DEF StateReset
  <2>1. /\ pc' \in [Procs -> ControlPoint] /\ pc'[p] \in {"idle"}
        /\ \A q \in Procs \ {p} : pc'[q] = pc[q] /\ job'[q] = job[q]
    BY DEF Goto, ControlPoint
  <2>2. MarkStatus(mem[p], job[p].at, "pending") \in StateFile
    BY MarkStatusType DEF Status
  <2>3. mem' \in [Procs -> StateFile] /\ disk' \in StateFile /\ present' \in BOOLEAN
    BY <2>2 DEF SaveOK, SaveFails
  <2>4. seen' \in History
    BY DEF History
  <2> QED
    BY <2>1, <2>2, <2>3, <2>4, TypedFrame
<1>23. ASSUME NEW p \in Procs, Kill(p) PROVE Typed'
  <2> USE <1>23 DEF Kill
  <2>1. /\ pc' \in [Procs -> ControlPoint] /\ pc'[p] \in {"idle"}
        /\ \A q \in Procs \ {p} : pc'[q] = pc[q] /\ job'[q] = job[q]
    BY DEF Goto, ControlPoint
  <2>2. lock' \in {lock, Stale} /\ lock' # p
    BY DeployAssumption
  <2> QED
    BY <2>1, <2>2, TypedFrame
<1>24. ASSUME NEW p \in Procs, Start(p) PROVE Typed'
  <2>1. seen' \in History
    BY <1>24 DEF Start, History
  <2>2. PICK c \in Cmds, a \in Autos, i \in Phases : Load(p, c, i, a, FALSE)
    BY <1>24 DEF Start
  <2>3. c \in Commands /\ a \in BOOLEAN
    BY DeployAssumption
  <2>4. /\ disk' = disk /\ present' = present /\ unit' = unit /\ lock' = lock
        /\ host' \in {"up", "rebooting", "down"} /\ starts' \in Nat /\ crashes' \in Nat
    BY <1>24 DEF Start
  <2> HIDE DEF Typed
  <2> QED
    BY <2>1, <2>2, <2>3, <2>4, LoadTyped
<1>25. ASSUME AllDie, crashes' \in Nat PROVE Typed'
  BY <1>25, FreshType, NoJobType, DeployAssumption DEF AllDie, ControlPoint
<1>26. ASSUME Boot PROVE Typed'
  <2>1. 1 \in Phases
    BY DeployAssumption DEF Phases
  <2>2. unit.auto \in BOOLEAN
    BY DEF ContinuationUnit
  <2>3. CASE Armed /\ present
    BY <1>26, <2>1, <2>2, <2>3, LoadTyped DEF Boot, Commands
  <2>4. CASE ~(Armed /\ present)
    BY <1>26, <2>4 DEF Boot
  <2> QED
    BY <2>3, <2>4
<1>27. CASE UNCHANGED vars
  BY <1>27 DEF vars
<1> QED
  <2>1. PowerLoss => AllDie /\ crashes' \in Nat
    BY DEF PowerLoss
  <2>2. Shutdown => AllDie /\ crashes' \in Nat
    BY DEF Shutdown
  <2> QED
    BY <2>1, <2>2, <1>1, <1>2, <1>3, <1>4, <1>5, <1>6, <1>7, <1>8, <1>9, <1>10, <1>11, <1>12, <1>13, <1>14, <1>15, <1>16, <1>17, <1>18, <1>19, <1>20, <1>21, <1>22, <1>23, <1>24, <1>25, <1>26, <1>27 DEF Next, Step

(* Every variable keeps its type, and the lock file never names a process   *)
(* that has ended.                                                          *)
THEOREM TypeCorrect == Spec => []TypeOK
<1>1. Spec => []Typed
  BY TypedInit, TypedStep, PTL DEF Spec
<1>2. Typed => TypeOK
  BY DEF Typed
<1> QED
  BY <1>1, <1>2, PTL
-----------------------------------------------------------------------------
(* The reboot counters.  An invocation that may still save is Live; one     *)
(* that was refused its reboot keeps the higher counters in memory only.    *)
Live == ControlPoint \ {"idle", "release", "release_exit2", "deferred", "again"}

(* p has counted a reboot that it has not asked of systemd yet. *)
Granted(p) == \/ pc[p] = "reboot"
              \/ pc[p] \in {"unit_open", "unit_write", "unit_enable"} /\ ~job[p].early

SameCounters(s, t) == s.count = t.count /\ s.same = t.same

Others(p) ==
  \A q \in Procs \ {p} : pc'[q] = pc[q] /\ mem'[q] = mem[q] /\ (Granted(q)' <=> Granted(q))

(* What a step does to the counters unless it is Record. *)
Loads(p) ==
  /\ mem'[p] = disk /\ disk' = disk /\ ~Granted(p)' /\ seen'.issued = seen.issued

Keeps(p) ==
  /\ pc'[p] \in Live => pc[p] \in Live
  /\ SameCounters(mem'[p], mem[p])
  /\ disk' = disk \/ (disk' = mem'[p] /\ pc[p] \in Live)
  /\ Granted(p)' => Granted(p)
  /\ \/ seen'.issued = seen.issued
     \/ seen'.issued = seen.issued + 1 /\ Granted(p) /\ ~Granted(p)'

Idles == (\A p \in Procs : pc'[p] = "idle") /\ disk' = disk /\ seen'.issued = seen.issued

LEMMA KeptCounters ==
  ASSUME NEW s \in StateFile, NEW i, NEW x
  PROVE  /\ SameCounters(MarkStatus(s, i, x), s)
         /\ SameCounters(RecoverInterruptedRunningPhases(s), s)
         /\ \A b \in BOOLEAN : SameCounters(SetRebootNeeded(s, b, x), s)
BY DEF SameCounters, MarkStatus, RecoverInterruptedRunningPhases, SetRebootNeeded, StateFile

LEMMA LoadLoads ==
  ASSUME Typed, NEW p \in Procs, NEW c, NEW i, NEW a, NEW b, Load(p, c, i, a, b),
         disk' = disk, seen'.issued = seen.issued
  PROVE  Others(p) /\ Loads(p)
BY DEF Typed, TypeOK, Load, Goto, Others, Loads, Granted

(* Every step loads, keeps or records the counters of one process, or ends  *)
(* them all.                                                                *)
LEMMA StepCounters ==
  ASSUME Typed, [Next]_vars
  PROVE  \/ \E p \in Procs : Others(p) /\ (Loads(p) \/ Keeps(p) \/ Record(p))
         \/ Idles
         \/ UNCHANGED vars
<1> USE DEF Typed, TypeOK, Unchanged
<1>1. ASSUME NEW p \in Procs, Acquire(p) PROVE Others(p) /\ Keeps(p)
  BY <1>1 DEF Acquire, Goto, SameCounters, Others, Keeps, Granted, Live, ControlPoint, History
<1>2. ASSUME NEW p \in Procs, Recover(p) PROVE Others(p) /\ Keeps(p)
  <2>1. SameCounters(RecoverInterruptedRunningPhases(mem[p]), mem[p]) /\ SameCounters(mem[p], mem[p])
    BY KeptCounters DEF SameCounters
  <2> QED
    BY <1>2, <2>1 DEF Recover, Goto, Refuse, SaveOK, SaveFails, Others, Keeps, Granted, Live, ControlPoint, History
<1>3. ASSUME NEW p \in Procs, Gate(p) PROVE Others(p) /\ Keeps(p)
  BY <1>3 DEF Gate, Goto, Refuse, SameCounters, Others, Keeps, Granted, Live, ControlPoint, History
<1>4. ASSUME NEW p \in Procs, Preflight(p) PROVE Others(p) /\ Keeps(p)
  <2> USE <1>4 DEF Preflight
  <2>1. mem' = mem /\ (disk' = disk \/ disk' = mem'[p])
    BY DEF Persist, SaveOK, SaveFails
  <2>2. seen'.issued = seen.issued
    BY DEF Refuse, History
  <2>3. \/ pc'[p] \in {"run", "deferred"}
        \/ pc'[p] = "unit_open" /\ job'[p].early
    BY DEF Goto, Refuse, Job
  <2>4. \A q \in Procs \ {p} : pc'[q] = pc[q] /\ job'[q] = job[q]
    BY DEF Goto, Refuse
  <2> QED
    BY <2>1, <2>2, <2>3, <2>4 DEF SameCounters, Others, Keeps, Granted, Live, ControlPoint
<1>5. ASSUME NEW p \in Procs, Clear(p) PROVE Others(p) /\ Keeps(p)
  <2>1. SameCounters(SetRebootNeeded(mem[p], FALSE, 0), mem[p]) /\ SameCounters(mem[p], mem[p])
    BY KeptCounters DEF SameCounters
  <2> QED
    BY <1>5, <2>1 DEF Clear, Goto, Persist, SaveOK, SaveFails, Others, Keeps, Granted, Live, ControlPoint, History
<1>6. ASSUME NEW p \in Procs, Skip(p) PROVE Others(p) /\ Keeps(p)
  BY <1>6 DEF Skip, Goto, AtPhase, Advance, SameCounters, Others, Keeps, Granted, Live, ControlPoint, History
<1>7. ASSUME NEW p \in Procs, Begin(p) PROVE Others(p) /\ Keeps(p)
  <2>1. SameCounters(MarkStatus(mem[p], job[p].at, "running"), mem[p]) /\ SameCounters(mem[p], mem[p])
    BY KeptCounters DEF SameCounters
  <2> QED
    BY <1>7, <2>1 DEF Begin, Goto, AtPhase, Touch, Persist, SaveOK, SaveFails, Others, Keeps, Granted, Live, ControlPoint, History
<1>8. ASSUME NEW p \in Procs, NEW x, Settle(p, x), pc[p] \in {"run", "body"}
      PROVE  Others(p) /\ Keeps(p)
  <2>1. SameCounters(MarkStatus(mem[p], job[p].at, x), mem[p])
    BY KeptCounters
  <2> QED
    BY <1>8, <2>1 DEF Settle, Advance, Touch, Persist, SaveOK, SaveFails, Goto, Return,
       Others, Keeps, Granted, Live, ControlPoint, History
<1>9. ASSUME NEW p \in Procs, EndEarly(p) PROVE Others(p) /\ Keeps(p)
  BY <1>9, <1>8 DEF EndEarly, AtPhase
<1>10. ASSUME NEW p \in Procs, Finish(p) PROVE Others(p) /\ Keeps(p)
  BY <1>10, <1>8 DEF Finish, AtPhase
<1>11. ASSUME NEW p \in Procs, AskReboot(p) PROVE Others(p) /\ Keeps(p)
  <2>1. SameCounters(SetRebootNeeded(mem[p], TRUE, job[p].at), mem[p]) /\ SameCounters(mem[p], mem[p])
    BY KeptCounters DEF SameCounters
  <2> QED
    BY <1>11, <2>1 DEF AskReboot, Goto, Persist, SaveOK, SaveFails, Others, Keeps, Granted, Live, ControlPoint, History
<1>12. ASSUME NEW p \in Procs, Record(p) PROVE Others(p)
  BY <1>12 DEF Record, Others, Granted, Fail, Goto
<1>13. ASSUME NEW p \in Procs, UnitOpen(p) PROVE Others(p) /\ Keeps(p)
  BY <1>13 DEF UnitOpen, Goto, InstallFails, Fail, Refuse, Return, SameCounters, Others, Keeps, Granted, Live, ControlPoint, History
<1>14. ASSUME NEW p \in Procs, UnitWrite(p) PROVE Others(p) /\ Keeps(p)
  BY <1>14 DEF UnitWrite, Goto, InstallFails, Fail, Refuse, Return, SameCounters, Others, Keeps, Granted, Live, ControlPoint, History
<1>15. ASSUME NEW p \in Procs, UnitEnable(p) PROVE Others(p) /\ Keeps(p)
  BY <1>15 DEF UnitEnable, Goto, InstallFails, Fail, Refuse, Return, SameCounters, Others, Keeps, Granted, Live, ControlPoint, History
<1>16. ASSUME NEW p \in Procs, Reboot(p) PROVE Others(p) /\ Keeps(p)
  BY <1>16 DEF Reboot, Goto, Fail, Return, ExitTwo, SameCounters, Others, Keeps, Granted, Live, ControlPoint, History
<1>17. ASSUME NEW p \in Procs, EndOfPipeline(p) PROVE Others(p) /\ Keeps(p)
  BY <1>17 DEF EndOfPipeline, Goto, SameCounters, Others, Keeps, Granted, Live, ControlPoint, History
<1>18. ASSUME NEW p \in Procs, Disable(p) PROVE Others(p) /\ Keeps(p)
  BY <1>18 DEF Disable, Goto, SameCounters, Others, Keeps, Granted, Live, ControlPoint, History
<1>19. ASSUME NEW p \in Procs, Remove(p) PROVE Others(p) /\ Keeps(p)
  BY <1>19 DEF Remove, Goto, SameCounters, Others, Keeps, Granted, Live, ControlPoint, History
<1>20. ASSUME NEW p \in Procs, Release(p) PROVE Others(p) /\ Keeps(p)
  BY <1>20 DEF Release, Goto, SameCounters, Others, Keeps, Granted, Live, ControlPoint, History
<1>21. ASSUME NEW p \in Procs, ResetCredentials(p) PROVE Others(p) /\ Keeps(p)
  BY <1>21 DEF ResetCredentials, Goto, Persist, SaveOK, SaveFails, SameCounters, Others, Keeps, Granted, Live, ControlPoint, History
<1>22. ASSUME NEW p \in Procs, StateReset(p) PROVE Others(p) /\ Keeps(p)
  <2>1. SameCounters(MarkStatus(mem[p], job[p].at, "pending"), mem[p]) /\ SameCounters(mem[p], mem[p])
    BY KeptCounters DEF SameCounters
  <2> QED
    BY <1>22, <2>1 DEF StateReset, Goto, SaveOK, SaveFails, Others, Keeps, Granted, Live, ControlPoint, History
<1>23. ASSUME NEW p \in Procs, Kill(p) PROVE Others(p) /\ Keeps(p)
  BY <1>23 DEF Kill, Goto, SameCounters, Others, Keeps, Granted, Live, ControlPoint, History
<1>24. ASSUME NEW p \in Procs, Start(p) PROVE Others(p) /\ Loads(p)
  <2>1. PICK c \in Cmds, a \in Autos, i \in Phases : Load(p, c, i, a, FALSE)
    BY <1>24 DEF Start
  <2>2. disk' = disk /\ seen'.issued = seen.issued
    BY <1>24 DEF Start, History
  <2> QED
    BY <2>1, <2>2, LoadLoads
<1>25. ASSUME AllDie PROVE Idles
  BY <1>25 DEF AllDie, Idles
<1>26. ASSUME Boot, Armed, present PROVE \E p \in Procs : Others(p) /\ Loads(p)
  <2>1. PICK p \in Procs : Load(p, "resume", 1, unit.auto, TRUE)
    BY <1>26 DEF Boot
  <2> QED
    BY <1>26, <2>1, LoadLoads DEF Boot
<1>27. ASSUME Boot, ~(Armed /\ present), NEW p \in Procs PROVE Others(p) /\ Keeps(p)
  BY <1>27 DEF Boot, Others, Keeps, Granted, SameCounters
<1> QED
  <2>1. CASE Boot
    <3>1. CASE Procs = {}
      BY <2>1, <3>1 DEF Boot, Idles
    <3> QED
      BY <2>1, <3>1, <1>26, <1>27
  <2>2. CASE PowerLoss \/ Shutdown
    BY <2>2, <1>25 DEF PowerLoss, Shutdown
  <2>3. CASE UNCHANGED vars
    BY <2>3
  <2>4. CASE \E p \in Procs : Start(p) \/ Step(p) \/ Kill(p)
    BY <2>4, <1>1, <1>2, <1>3, <1>4, <1>5, <1>6, <1>7, <1>8, <1>9, <1>10, <1>11, <1>12, <1>13, <1>14, <1>15, <1>16, <1>17, <1>18, <1>19, <1>20, <1>21, <1>22, <1>23, <1>24 DEF Step
  <2> QED
    BY <2>1, <2>2, <2>3, <2>4 DEF Next
-----------------------------------------------------------------------------
(* CountersBounded is not inductive: what a Live process may still save has *)
(* to be within the limits as well.                                         *)
Bounded(s) == s.count <= MaxReboots /\ s.same <= 2

MemoryBounded == \A p \in Procs : pc[p] \in Live => Bounded(mem[p])

BoundedInv == Typed /\ CountersBounded /\ MemoryBounded

LEMMA BoundedRecord ==
  ASSUME Typed, NEW p \in Procs, Record(p), Bounded(disk)
  PROVE  Bounded(disk') /\ (pc'[p] \in Live => Bounded(mem'[p]))
<1> DEFINE s == RecordRebootRequest(mem[p], mem[p].target)
<1>1. s \in StateFile
  BY RecordType DEF Typed, TypeOK, StateFile
<1>2. ~LoopProtection(s) => Bounded(s)
  BY <1>1, DeployAssumption DEF LoopProtection, Bounded, StateFile
<1>3. pc'[p] \in Live => ~LoopProtection(s) /\ mem'[p] = s
  BY DEF Record, Fail, Goto, Return, Live, Typed, TypeOK
<1>4. disk' = disk \/ (disk' = s /\ ~LoopProtection(s))
  BY DEF Record, SaveOK, SaveFails
<1> QED
  BY <1>2, <1>3, <1>4

LEMMA BoundedStep == BoundedInv /\ [Next]_vars => BoundedInv'
<1> SUFFICES ASSUME BoundedInv, [Next]_vars PROVE BoundedInv'
  OBVIOUS
<1> USE DEF BoundedInv, MemoryBounded
<1>1. Typed'
  BY TypedStep
<1>2. CountersBounded <=> Bounded(disk)
  BY DEF CountersBounded, Bounded
<1>3. CountersBounded' <=> Bounded(disk')
  BY DEF CountersBounded, Bounded
<1>4. ASSUME NEW p \in Procs, Others(p), Loads(p) \/ Keeps(p) \/ Record(p)
      PROVE  CountersBounded' /\ MemoryBounded'
  <2>1. Bounded(disk') /\ (pc'[p] \in Live => Bounded(mem'[p]))
    <3>1. CASE Loads(p)
      BY <1>2, <3>1 DEF Loads
    <3>2. CASE Keeps(p)
      BY <1>2, <3>2 DEF Keeps, SameCounters, Bounded
    <3>3. CASE Record(p)
      BY <1>2, <3>3, BoundedRecord
    <3> QED
      BY <1>4, <3>1, <3>2, <3>3
  <2> QED
    BY <1>3, <1>4, <2>1 DEF Others
<1>5. CASE Idles
  BY <1>1, <1>2, <1>3, <1>5 DEF Idles, Live
<1>6. CASE UNCHANGED vars
  BY <1>1, <1>6 DEF vars, CountersBounded
<1> QED
  BY <1>1, <1>4, <1>5, <1>6, StepCounters

(* Loop protection (main.go:2200-2208) holds of what is on disk, whatever   *)
(* crashes, fails to save or runs at the same time.                         *)
THEOREM CountersWithinLimits == Spec => []CountersBounded
<1>1. Init => BoundedInv
  <2>1. Init => CountersBounded /\ MemoryBounded
    BY DeployAssumption DEF Init, Fresh, CountersBounded, MemoryBounded, Live
  <2> QED
    BY <2>1, TypedInit DEF BoundedInv
<1>2. BoundedInv => CountersBounded
  BY DEF BoundedInv
<1> QED
  BY <1>1, <1>2, BoundedStep, PTL DEF Spec
-----------------------------------------------------------------------------
(* EveryRebootCounted needs one invocation at a time, which is what the     *)
(* process lock is for: a second one could write its older counters back.   *)
OneInvocation == \A p, q \in Procs : p = q

InStep == \A p \in Procs : pc[p] \in Live => mem[p].count = disk.count
GrantedCounted == \A p \in Procs : Granted(p) => seen.issued < disk.count

CountedInv == Typed /\ EveryRebootCounted /\ InStep /\ GrantedCounted

LEMMA CountedRecord ==
  ASSUME CountedInv, NEW p \in Procs, Record(p)
  PROVE  /\ seen'.issued = seen.issued
         /\ \/ disk' = disk /\ pc'[p] \notin Live
            \/ disk'.count = disk.count + 1 /\ mem'[p] = disk'
<1> USE DEF CountedInv, Typed, TypeOK
<1>1. RecordRebootRequest(mem[p], mem[p].target).count = disk.count + 1
  BY DEF RecordRebootRequest, InStep, Live, ControlPoint, Record, StateFile
<1>2. seen'.issued = seen.issued
  BY DEF Record, Fail, History
<1> QED
  BY <1>1, <1>2 DEF Record, Fail, Goto, Return, SaveOK, SaveFails, Live

LEMMA CountedStep ==
  ASSUME OneInvocation
  PROVE  CountedInv /\ [Next]_vars => CountedInv'
<1> SUFFICES ASSUME CountedInv, [Next]_vars PROVE CountedInv'
  OBVIOUS
<1> USE DEF CountedInv, InStep, GrantedCounted, EveryRebootCounted
<1>1. Typed'
  BY TypedStep
<1>2. /\ disk.count \in Nat /\ seen.issued \in Nat /\ disk'.count \in Nat
      /\ seen'.issued \in Nat
  BY <1>1 DEF Typed, TypeOK, StateFile, History
<1>3. ASSUME NEW p \in Procs, Others(p), Loads(p) \/ Keeps(p) \/ Record(p)
      PROVE  EveryRebootCounted' /\ InStep' /\ GrantedCounted'
  <2>1. /\ seen'.issued <= disk'.count
        /\ pc'[p] \in Live => mem'[p].count = disk'.count
        /\ Granted(p)' => seen'.issued < disk'.count
    <3>1. CASE Loads(p)
      BY <3>1 DEF Loads
    <3>2. CASE Keeps(p)
      BY <1>2, <3>2 DEF Keeps, SameCounters
    <3>3. CASE Record(p)
      <4>1. Granted(p)' => pc'[p] \in Live
        BY DEF Granted, Live, ControlPoint
      <4> QED
        BY <1>2, <3>3, <4>1, CountedRecord
    <3> QED
      BY <1>3, <3>1, <3>2, <3>3
  <2>2. \A q \in Procs : q = p
    BY DEF OneInvocation
  <2> QED
    BY <2>1, <2>2
<1>4. CASE Idles
  BY <1>1, <1>4 DEF Idles, Live, Granted
<1>5. CASE UNCHANGED vars
  BY <1>1, <1>5 DEF vars, Granted
<1> QED
  BY <1>1, <1>3, <1>4, <1>5, StepCounters

(* As long as invocations do not overlap, a host is never asked to reboot   *)
(* more often than state.json says, whatever crashes or fails to save.      *)
THEOREM RebootsCounted ==
  ASSUME OneInvocation
  PROVE  Spec => []EveryRebootCounted
<1>1. Init => CountedInv
  <2>1. Init => EveryRebootCounted /\ InStep /\ GrantedCounted
    BY DEF Init, Fresh, EveryRebootCounted, InStep, GrantedCounted, Granted, Live
  <2> QED
    BY <2>1, TypedInit DEF CountedInv
<1>2. CountedInv /\ [Next]_vars => CountedInv'
  BY CountedStep
<1>3. CountedInv => EveryRebootCounted
  BY DEF CountedInv
<1> QED
  BY <1>1, <1>2, <1>3, PTL DEF Spec
-----------------------------------------------------------------------------
(* PipelineOrder speaks of a process inside a phase; that the phases before *)
(* it are settled is true all along its way through the pipeline.           *)
PassedBefore ==
  \A p \in Procs : job[p].cmd \in {"apply", "resume"} =>
    \A j \in 1..(job[p].at - 1) : mem[p].st[j] \in Passed

OrderInv == Typed /\ PassedBefore

(* What a step of p that does not advance has to keep, and one that does.   *)
Carries(p) ==
  /\ job'[p].cmd = job[p].cmd /\ job'[p].at = job[p].at
  /\ \A j \in 1..(job[p].at - 1) : mem[p].st[j] \in Passed => mem'[p].st[j] \in Passed

Advances(p) ==
  /\ job'[p].cmd = job[p].cmd /\ job'[p].at = job[p].at + 1
  /\ \A j \in 1..(job[p].at - 1) : mem[p].st[j] \in Passed => mem'[p].st[j] \in Passed
  /\ mem'[p].st[job[p].at] \in Passed

Begins(p) == job'[p].cmd \in {"apply", "resume"} => job'[p].at = 1

Private(p) == \A q \in Procs \ {p} : mem'[q] = mem[q] /\ job'[q] = job[q]

LEMMA KeptStatus ==
  ASSUME NEW s \in StateFile, NEW i \in Nat, NEW x
  PROVE  /\ \A j \in 1..(i - 1) : MarkStatus(s, i, x).st[j] = s.st[j]
         /\ i \in Phases => MarkStatus(s, i, x).st[i] = x
         /\ \A j \in Phases : s.st[j] \in Passed =>
              RecoverInterruptedRunningPhases(s).st[j] \in Passed
         /\ \A b \in BOOLEAN : SetRebootNeeded(s, b, x).st = s.st
         /\ RecordRebootRequest(s, x).st = s.st
BY DEF MarkStatus, RecoverInterruptedRunningPhases, SetRebootNeeded, RecordRebootRequest,
       StateFile, Running, Passed

LEMMA StepOrder ==
  ASSUME Typed, [Next]_vars
  PROVE  \/ \E p \in Procs : Private(p) /\ (Carries(p) \/ Advances(p) \/ Begins(p))
         \/ \A p \in Procs : job'[p] = NoJob
         \/ UNCHANGED <<mem, job>>
<1> USE DEF Typed, TypeOK
<1>1. ASSUME NEW p \in Procs,
             \/ Acquire(p) \/ Gate(p) \/ UnitOpen(p) \/ UnitWrite(p) \/ Reboot(p) \/ EndOfPipeline(p)
             \/ Disable(p) \/ Remove(p) \/ Release(p) \/ Kill(p)
      PROVE  UNCHANGED <<mem, job>>
  BY <1>1 DEF Acquire, Gate, UnitOpen, UnitWrite, Reboot, EndOfPipeline, Disable, Remove,
     Release, Kill
<1>2. ASSUME NEW p \in Procs
      PROVE  job[p].at \in Nat /\ (\A j \in 1..(job[p].at - 1) : j \in Phases)
  BY DeployAssumption DEF Job, Phases
<1>3. ASSUME NEW p \in Procs, Recover(p) PROVE Private(p) /\ Carries(p)
  <2>1. mem' \in {mem, [mem EXCEPT ![p] = RecoverInterruptedRunningPhases(mem[p])]} /\ job' = job
    BY <1>3 DEF Recover
  <2>2. \A j \in 1..(job[p].at - 1) : mem[p].st[j] \in Passed => RecoverInterruptedRunningPhases(mem[p]).st[j] \in Passed
    BY <1>2, KeptStatus, DeployAssumption
  <2> QED
    BY <2>1, <2>2 DEF Private, Carries
<1>4. ASSUME NEW p \in Procs, Clear(p) PROVE Private(p) /\ Carries(p)
  <2>1. mem' \in {mem, [mem EXCEPT ![p] = SetRebootNeeded(mem[p], FALSE, 0)]} /\ job' = job
    BY <1>4 DEF Clear, Persist
  <2>2. \A j \in 1..(job[p].at - 1) : mem[p].st[j] \in Passed => SetRebootNeeded(mem[p], FALSE, 0).st[j] \in Passed
    BY <1>2, KeptStatus, DeployAssumption
  <2> QED
    BY <2>1, <2>2 DEF Private, Carries
<1>5. ASSUME NEW p \in Procs, Begin(p) PROVE Private(p) /\ Carries(p)
  <2>1. mem' \in {mem, [mem EXCEPT ![p] = MarkStatus(mem[p], job[p].at, "running")]} /\ job' = job
    BY <1>5 DEF Begin, Persist
  <2>2. \A j \in 1..(job[p].at - 1) : mem[p].st[j] \in Passed => MarkStatus(mem[p], job[p].at, "running").st[j] \in Passed
    BY <1>2, KeptStatus, DeployAssumption
  <2> QED
    BY <2>1, <2>2 DEF Private, Carries
<1>6. ASSUME NEW p \in Procs, AskReboot(p) PROVE Private(p) /\ Carries(p)
  <2>1. mem' \in {mem, [mem EXCEPT ![p] = SetRebootNeeded(mem[p], TRUE, job[p].at)]} /\ job' = job
    BY <1>6 DEF AskReboot, Persist
  <2>2. \A j \in 1..(job[p].at - 1) : mem[p].st[j] \in Passed => SetRebootNeeded(mem[p], TRUE, job[p].at).st[j] \in Passed
    BY <1>2, KeptStatus, DeployAssumption
  <2> QED
    BY <2>1, <2>2 DEF Private, Carries
<1>7. ASSUME NEW p \in Procs, Record(p) PROVE Private(p) /\ Carries(p)
  <2>1. mem' \in {mem, [mem EXCEPT ![p] = RecordRebootRequest(mem[p], mem[p].target)]} /\ job' = job
    BY <1>7 DEF Record
  <2>2. \A j \in 1..(job[p].at - 1) : mem[p].st[j] \in Passed => RecordRebootRequest(mem[p], mem[p].target).st[j] \in Passed
    BY <1>2, KeptStatus, DeployAssumption
  <2> QED
    BY <2>1, <2>2 DEF Private, Carries
<1>8. ASSUME NEW p \in Procs, StateReset(p) PROVE Private(p) /\ Carries(p)
  <2>1. mem' \in {mem, [mem EXCEPT ![p] = MarkStatus(mem[p], job[p].at, "pending")]} /\ job' = job
    BY <1>8 DEF StateReset
  <2>2. \A j \in 1..(job[p].at - 1) : mem[p].st[j] \in Passed => MarkStatus(mem[p], job[p].at, "pending").st[j] \in Passed
    BY <1>2, KeptStatus, DeployAssumption
  <2> QED
    BY <2>1, <2>2 DEF Private, Carries
<1>9. ASSUME NEW p \in Procs, ResetCredentials(p) PROVE Private(p) /\ Carries(p)
  <2>1. mem' \in {mem, [mem EXCEPT ![p] = mem[p]]} /\ job' = job
    BY <1>9 DEF ResetCredentials, Persist
  <2>2. \A j \in 1..(job[p].at - 1) : mem[p].st[j] \in Passed => mem[p].st[j] \in Passed
    BY <1>2, KeptStatus, DeployAssumption
  <2> QED
    BY <2>1, <2>2 DEF Private, Carries
<1>10. ASSUME NEW p \in Procs, Preflight(p) \/ UnitEnable(p) PROVE Private(p) /\ Carries(p)
  <2>1. mem' = mem
    BY <1>10 DEF Preflight, Persist, UnitEnable
  <2>2. \/ job' = job
        \/ \E b \in BOOLEAN : job' = [job EXCEPT ![p].early = b]
    BY <1>10 DEF Preflight, UnitEnable
  <2>3. /\ \A q \in Procs \ {p} : job'[q] = job[q]
        /\ job'[p].cmd = job[p].cmd /\ job'[p].at = job[p].at
    BY <2>2 DEF Job
  <2> QED
    BY <2>1, <2>3 DEF Private, Carries
<1>11. ASSUME NEW p \in Procs, Advance(p)
       PROVE  /\ \A q \in Procs \ {p} : job'[q] = job[q]
              /\ job'[p].cmd = job[p].cmd
              /\ job'[p].at \in {job[p].at, job[p].at + 1}
  BY <1>11 DEF Advance, Job
<1>12. ASSUME NEW p \in Procs, Skip(p) PROVE Private(p) /\ (Carries(p) \/ Advances(p))
  <2>1. mem' = mem /\ mem[p].st[job[p].at] \in Passed
    BY <1>12 DEF Skip, ShouldSkip, Passed
  <2> QED
    BY <1>11, <1>12, <2>1 DEF Skip, Private, Carries, Advances
<1>13. ASSUME NEW p \in Procs, NEW x \in Ending \ {"reboot"}, Settle(p, x), job[p].at \in Phases
       PROVE  Private(p) /\ (Carries(p) \/ Advances(p))
  <2> DEFINE s == MarkStatus(mem[p], job[p].at, x)
  <2>1. mem' = [mem EXCEPT ![p] = s]
    BY <1>13 DEF Settle, Persist
  <2>2. (\A j \in 1..(job[p].at - 1) : s.st[j] = mem[p].st[j]) /\ s.st[job[p].at] = x
    BY <1>2, <1>13, KeptStatus
  <2> HIDE DEF s
  <2>3. CASE x = "failed_fatal"
    BY <1>13, <2>1, <2>2, <2>3 DEF Settle, Private, Carries
  <2>4. CASE x # "failed_fatal"
    <3>1. x \in Passed /\ Advance(p)
      BY <1>13, <2>4 DEF Ending, Status, Passed, Settle
    <3> QED
      BY <1>11, <2>1, <2>2, <3>1 DEF Private, Carries, Advances
  <2> QED
    BY <2>3, <2>4
<1>14. ASSUME NEW p \in Procs, EndEarly(p) PROVE Private(p) /\ (Carries(p) \/ Advances(p))
  <2>1. job[p].at \in Phases
    BY <1>14, DeployAssumption DEF EndEarly, AtPhase, Job, Phases
  <2> QED
    BY <1>13, <1>14, <2>1, DeployAssumption DEF EndEarly
<1>15. ASSUME NEW p \in Procs, Finish(p) PROVE Private(p) /\ (Carries(p) \/ Advances(p))
  <2>1. job[p].at \in Phases
    BY <1>15 DEF Finish, PhaseInRange
  <2> QED
    BY <1>13, <1>15, <2>1, DeployAssumption DEF Finish
<1>16. ASSUME NEW p \in Procs, Start(p) PROVE Private(p) /\ Begins(p)
  BY <1>16 DEF Start, Load, Private, Begins
<1>17. ASSUME Boot PROVE (\E p \in Procs : Private(p) /\ Begins(p)) \/ UNCHANGED <<mem, job>>
  <2>1. CASE Armed /\ present
    <3>1. PICK p \in Procs : Load(p, "resume", 1, unit.auto, TRUE)
      BY <1>17, <2>1 DEF Boot
    <3>2. Private(p) /\ Begins(p)
      BY <3>1 DEF Load, Private, Begins
    <3> QED
      BY <3>2
  <2>2. CASE ~(Armed /\ present)
    BY <1>17, <2>2 DEF Boot
  <2> QED
    BY <2>1, <2>2
<1>18. ASSUME PowerLoss \/ Shutdown PROVE \A p \in Procs : job'[p] = NoJob
  BY <1>18 DEF PowerLoss, Shutdown, AllDie
<1>19. CASE UNCHANGED vars
  BY <1>19 DEF vars
<1> QED
  BY <1>1, <1>3, <1>4, <1>5, <1>6, <1>7, <1>8, <1>9, <1>10, <1>12, <1>14, <1>15, <1>16,
     <1>17, <1>18, <1>19 DEF Next, Step

LEMMA OrderStep == OrderInv /\ [Next]_vars => OrderInv'
<1> SUFFICES ASSUME OrderInv, [Next]_vars PROVE OrderInv'
  OBVIOUS
<1> USE DEF OrderInv, PassedBefore
<1>1. Typed'
  BY TypedStep
<1>2. ASSUME NEW p \in Procs, Private(p), Carries(p) \/ Advances(p) \/ Begins(p)
      PROVE  PassedBefore'
  <2>1. job[p].at \in Nat /\ job'[p].at \in Nat
    BY <1>1 DEF Typed, TypeOK, Job
  <2>2. job'[p].cmd \in {"apply", "resume"} =>
          \A j \in 1..(job'[p].at - 1) : mem'[p].st[j] \in Passed
    <3>1. CASE Carries(p)
      BY <3>1 DEF Carries
    <3>2. CASE Advances(p)
      BY <2>1, <3>2 DEF Advances
    <3>3. CASE Begins(p)
      BY <3>3 DEF Begins
    <3> QED
      BY <1>2, <3>1, <3>2, <3>3
  <2> QED
    BY <1>2, <2>2 DEF Private
<1>3. CASE \A p \in Procs : job'[p] = NoJob
  BY <1>1, <1>3 DEF NoJob
<1>4. CASE UNCHANGED <<mem, job>>
  BY <1>1, <1>4
<1> QED
  BY <1>1, <1>2, <1>3, <1>4, StepOrder

(* A phase runs only when all the earlier ones are settled (main.go:541),   *)
(* for every pipeline and every table of endings.                           *)
THEOREM PhasesInOrder == Spec => []PipelineOrder
<1>1. Init => OrderInv
  BY TypedInit DEF Init, OrderInv, PassedBefore, NoJob
<1>2. OrderInv => PipelineOrder
  BY DEF OrderInv, PassedBefore, PipelineOrder
<1> QED
  BY <1>1, <1>2, OrderStep, PTL DEF Spec
-----------------------------------------------------------------------------
(* A step that leaves the lock alone, and p on the same side of it.         *)
LEMMA NothingOfTheLock ==
  ASSUME NEW p \in Procs, lock' = lock,
         \A q \in Procs \ {p} : pc'[q] = pc[q],
         AtWork(p)' <=> AtWork(p), pc[p] # "again", pc'[p] # "again"
  PROVE  UNCHANGED Service!lockVars
<1>1. Works' = Works
  BY DEF Works, AtWork
<1>2. Clearing' = Clearing
  BY DEF Clearing
<1> QED
  BY <1>1, <1>2 DEF Service!lockVars

(* The lock file of a living process is freed by Release only. *)
LEMMA OnlyReleaseFrees ==
  ASSUME Typed, [Next]_vars, lock \in Procs, lock' = Free
  PROVE  \E r \in Procs : Release(r)
<1> SUFFICES ASSUME \A r \in Procs : ~Release(r) PROVE FALSE
  OBVIOUS
<1>0. lock \notin {Free, Stale} /\ Free # Stale /\ lock' # lock
  BY DeployAssumption
<1>1. ASSUME NEW p \in Procs, Step(p) PROVE FALSE
  <2>1. ~Acquire(p) /\ ~Reboot(p)
    BY <1>0, DeployAssumption DEF Acquire, Reboot, ExitTwo
  <2>2. ~Recover(p) /\ ~Gate(p) /\ ~Preflight(p) /\ ~Clear(p) /\ ~Skip(p) /\ ~Begin(p)
    BY <1>0 DEF Recover, Gate, Preflight, Clear, Skip, Begin
  <2>3. ~EndEarly(p) /\ ~Finish(p) /\ ~AskReboot(p) /\ ~Record(p)
    BY <1>0, Zenon DEF EndEarly, Finish, Settle, AskReboot, Record
  <2>4. ~UnitOpen(p) /\ ~UnitWrite(p) /\ ~UnitEnable(p) /\ ~EndOfPipeline(p)
    BY <1>0 DEF UnitOpen, UnitWrite, UnitEnable, EndOfPipeline
  <2>5. ~Disable(p) /\ ~Remove(p) /\ ~ResetCredentials(p) /\ ~StateReset(p)
    BY <1>0 DEF Disable, Remove, ResetCredentials, StateReset
  <2> QED
    BY <1>1, <2>1, <2>2, <2>3, <2>4, <2>5 DEF Step
<1>2. ASSUME NEW p \in Procs, Start(p) \/ Kill(p) PROVE FALSE
  BY <1>0, <1>2 DEF Start, Kill
<1>3. CASE PowerLoss \/ Shutdown \/ Boot \/ UNCHANGED vars
  BY <1>0, <1>3 DEF PowerLoss, Shutdown, Boot, AllDie, vars
<1> QED
  BY <1>1, <1>2, <1>3 DEF Next

LEMMA DeployServiceStep == Typed /\ [Next]_vars => [Service!Next]_(Service!lockVars)
<1> SUFFICES ASSUME Typed, [Next]_vars PROVE [Service!Next]_(Service!lockVars)
  OBVIOUS
<1> USE DEF Typed, TypeOK, Goto
<1>1. ASSUME NEW p \in Procs, Step(p)
      PROVE  UNCHANGED Service!lockVars \/ Service!Take(p) \/ Service!Give(p)
               \/ Service!Clear(p) \/ Service!End({p})
  <2> DEFINE Same == /\ lock' = lock /\ (\A q \in Procs \ {p} : pc'[q] = pc[q])
                     /\ (AtWork(p)' <=> AtWork(p)) /\ pc[p] # "again" /\ pc'[p] # "again"
  <2>0. ASSUME Same PROVE UNCHANGED Service!lockVars
    BY <2>0, NothingOfTheLock
  <2>1. CASE Acquire(p)
    <3>1. CASE lock \in {Free, Stale}
      <4>1. pc[p] = "lock" /\ lock' = p /\ pc'[p] \in {"recover", "run", "creds"}
        BY <2>1, <3>1 DEF Acquire
      <4>2. \A q \in Procs \ {p} : pc'[q] = pc[q]
        BY <2>1, <3>1 DEF Acquire
      <4>3. Works' = Works \cup {p} /\ Clearing' = Clearing
        BY <4>1, <4>2 DEF Works, Clearing, AtWork
      <4> QED
        BY <3>1, <4>1, <4>3 DEF Service!Take
    <3>2. CASE lock \notin {Free, Stale}
      <4>1. Same
        BY <2>1, <3>2 DEF Acquire, AtWork
      <4> QED
        BY <4>1, <2>0
    <3> QED
      BY <3>1, <3>2
  <2>2. CASE Reboot(p)
    <3>1. CASE pc'[p] = "idle"
      <4>1. /\ lock' = IF lock = p THEN Stale ELSE lock
            /\ \A q \in Procs \ {p} : pc'[q] = pc[q]
        BY <2>2, <3>1 DEF Reboot, ExitTwo, Fail, Return
      <4>2. pc[p] = "reboot"
        BY <2>2 DEF Reboot
      <4>3. Works' = Works \ {p} /\ Clearing' = Clearing \ {p} /\ p \in Works
        BY <3>1, <4>1, <4>2 DEF Works, Clearing, AtWork
      <4> QED
        BY <4>1, <4>3 DEF Service!End
    <3>2. CASE pc'[p] # "idle"
      <4>1. Same
        BY <2>2, <3>2 DEF Reboot, ExitTwo, Fail, Return, AtWork
      <4> QED
        BY <4>1, <2>0
    <3> QED
      BY <3>1, <3>2
  <2>3. CASE Release(p)
    <3>1. lock' = Free /\ \A q \in Procs \ {p} : pc'[q] = pc[q]
      BY <2>3 DEF Release
    <3>2. CASE pc[p] = "again"
      <4>1. pc'[p] = "idle"
        BY <2>3, <3>2 DEF Release
      <4>2. Works' = Works /\ Clearing' = Clearing \ {p} /\ p \in Clearing
        BY <3>1, <3>2, <4>1 DEF Works, Clearing, AtWork
      <4> QED
        BY <3>1, <4>2 DEF Service!Clear
    <3>3. CASE pc[p] \in {"release", "release_exit2", "deferred"}
      <4>1. pc'[p] \in {"again", "idle"}
        BY <2>3 DEF Release
      <4>2. Works' = Works \ {p} /\ p \in Works
        BY <3>1, <3>3, <4>1 DEF Works, AtWork
      <4>3. Clearing' = Clearing \/ Clearing' = Clearing \cup {p}
        BY <3>1, <3>3, <4>1 DEF Clearing
      <4> QED
        BY <3>1, <4>2, <4>3 DEF Service!Give
    <3> QED
      BY <2>3, <3>2, <3>3 DEF Release
  <2>4. CASE Recover(p) \/ Gate(p) \/ Preflight(p) \/ Clear(p)
    <3>1. Same
      BY <2>4 DEF Recover, Gate, Preflight, Clear, Refuse, AtWork
    <3> QED
      BY <3>1, <2>0
  <2>5. CASE Skip(p) \/ Begin(p) \/ AskReboot(p)
    <3>1. Same
      BY <2>5 DEF Skip, Begin, AskReboot, AtPhase, Advance, AtWork
    <3> QED
      BY <3>1, <2>0
  <2>6. CASE EndEarly(p) \/ Finish(p)
    <3>1. pc[p] \in {"run", "body"} /\ \E o : Settle(p, o)
      BY <2>6 DEF EndEarly, Finish, AtPhase
    <3>2. Same
      BY <3>1 DEF Settle, Advance, Return, AtWork
    <3> QED
      BY <3>2, <2>0
  <2>7. CASE Record(p) \/ UnitOpen(p) \/ UnitWrite(p) \/ UnitEnable(p)
    <3>1. Same
      BY <2>7 DEF Record, UnitOpen, UnitWrite, UnitEnable, InstallFails, Refuse, Fail, Return,
         AtWork
    <3> QED
      BY <3>1, <2>0
  <2>8. CASE EndOfPipeline(p) \/ Disable(p) \/ Remove(p) \/ ResetCredentials(p)
    <3>1. Same
      BY <2>8 DEF EndOfPipeline, Disable, Remove, ResetCredentials, AtWork
    <3> QED
      BY <3>1, <2>0
  <2>9. CASE StateReset(p)
    <3>1. Same
      BY <2>9 DEF StateReset, AtWork
    <3> QED
      BY <3>1, <2>0
  <2> QED
    BY <1>1, <2>1, <2>2, <2>3, <2>4, <2>5, <2>6, <2>7, <2>8, <2>9 DEF Step
<1>2. ASSUME NEW p \in Procs, NEW c, NEW i, NEW a, NEW b, Load(p, c, i, a, b), lock' = lock
      PROVE  UNCHANGED Service!lockVars
  <2>1. /\ \A q \in Procs \ {p} : pc'[q] = pc[q]
        /\ pc[p] = "idle" /\ pc'[p] \in {"reset", "lock"}
    BY <1>2 DEF Load
  <2> QED
    BY <1>2, <2>1, NothingOfTheLock DEF AtWork
<1>3. ASSUME NEW p \in Procs, Kill(p) PROVE Service!End({p})
  <2>1. /\ lock' = IF lock = p THEN Stale ELSE lock
        /\ pc'[p] = "idle" /\ \A q \in Procs \ {p} : pc'[q] = pc[q]
    BY <1>3 DEF Kill
  <2>2. Works' = Works \ {p} /\ Clearing' = Clearing \ {p}
    BY <2>1 DEF Works, Clearing, AtWork
  <2>3. lock \in Works \cap {p} <=> lock = p
    BY DEF Works, AtWork, HolderInside
  <2> QED
    BY <2>1, <2>2, <2>3 DEF Service!End
<1>4. ASSUME AllDie PROVE Service!End(Procs)
  <2>1. Works' = {} /\ Clearing' = {}
    BY <1>4 DEF AllDie, Works, Clearing, AtWork
  <2>2. lock \in Works \cap Procs <=> lock \in Procs
    BY DEF Works, AtWork, HolderInside
  <2>3. Works \ Procs = {} /\ Clearing \ Procs = {}
    BY DEF Works, Clearing
  <2> QED
    BY <1>4, <2>1, <2>2, <2>3 DEF AllDie, Service!End
<1>5. CASE UNCHANGED vars
  BY <1>5 DEF vars, Service!lockVars, Works, Clearing, AtWork
<1>6. ASSUME NEW p \in Procs, \/ Service!Take(p) \/ Service!Give(p) \/ Service!Clear(p)
                               \/ Service!End({p})
      PROVE  Service!Next
  BY <1>6 DEF Service!Next
<1>7. Service!End(Procs) => Service!Next
  BY DEF Service!Next
<1>8. ASSUME NEW p \in Procs, Start(p) PROVE UNCHANGED Service!lockVars
  BY <1>2, <1>8 DEF Start
<1>9. CASE Boot
  BY <1>2, <1>9 DEF Boot, Service!lockVars, Works, Clearing, AtWork
<1>10. PowerLoss \/ Shutdown => AllDie
  BY DEF PowerLoss, Shutdown
<1> QED
  BY <1>1, <1>3, <1>4, <1>5, <1>6, <1>7, <1>8, <1>9, <1>10 DEF Next

(* Every command takes, uses and leaves the lock as ProcessLock provides    *)
(* it: no step of Deploy is at work without having taken it, and none frees *)
(* another's but a second Release.                                          *)
THEOREM DeployUsesLockService == Spec => UsesLockService
<1>1. Init => Service!Init
  BY DEF Init, Service!Init, Works, Clearing, AtWork
<1> QED
  BY <1>1, TypedInit, TypedStep, DeployServiceStep, PTL
     DEF Spec, Service!Spec, UsesLockService

(* What the service allows then says how exclusion can be lost at all.      *)
Robbed ==
  (Service!Exclusive /\ ~Service!Exclusive') =>
    \E q \in Procs : pc[q] = "again" /\ pc'[q] = "idle" /\ lock \notin {q, Free, Stale}

LEMMA ExclusionStep == Typed /\ Typed' /\ [Next]_vars => Robbed
<1> SUFFICES ASSUME Typed, Typed', [Next]_vars, Service!Exclusive, ~Service!Exclusive'
             PROVE  \E q \in Procs : /\ pc[q] = "again" /\ pc'[q] = "idle"
                                    /\ lock \notin {q, Free, Stale}
  BY DEF Robbed
<1> USE DEF Service!Exclusive
<1>1. Service!Next
  BY DeployServiceStep DEF Service!lockVars
<1>2. PICK q \in Procs : Service!Clear(q)
  <2>1. ASSUME NEW q \in Procs, Service!Take(q) \/ Service!Give(q) \/ Service!Suspect(q)
        PROVE  FALSE
    BY <2>1, DeployAssumption DEF Service!Take, Service!Give, Service!Suspect, Works
  <2>2. ASSUME NEW gone, Service!End(gone) PROVE FALSE
    BY <2>2 DEF Service!End
  <2> QED
    BY <1>1, <2>1, <2>2 DEF Service!Next
<1>3. lock' = Free /\ Works' = Works /\ Works # {} /\ Works = {lock}
  BY <1>2 DEF Service!Clear
<1>4. lock \in Procs /\ AtWork(lock)
  BY <1>3 DEF Works
<1>5. \E r \in Procs : Release(r) /\ pc[r] = "again" /\ pc'[r] = "idle"
  <2>1. lock' # lock /\ lock' # Stale
    BY <1>3, <1>4, DeployAssumption
  <2>2. PICK r \in Procs : Release(r)
    BY <1>3, <1>4, <2>1, OnlyReleaseFrees
  <2>3. pc[r] = "again" \/ r \in Works
    BY <2>2 DEF Release, Works, AtWork
  <2>4. pc'[r] = "idle" \/ pc[r] = "release"
    BY <2>2 DEF Release, Typed, TypeOK, Goto
  <2>5. r \notin Works
    BY <2>2, <1>3 DEF Release, Typed, TypeOK, Goto, Works, AtWork
  <2> QED
    BY <2>2, <2>3, <2>4, <2>5 DEF Works, AtWork
<1> QED
  BY <1>4, <1>5, DeployAssumption DEF AtWork

(* No kill, power loss, exit code or failing command takes the lock from an *)
(* invocation at work: only the deferred Release of another one, after its  *)
(* explicit call (main.go:492), does.                                       *)
THEOREM OnlySecondReleaseRobs == Spec => ExclusionLostOnlyToSecondRelease
<1>1. Typed /\ Typed' /\ [Next]_vars => [Robbed]_vars
  BY ExclusionStep
<1> QED
  BY <1>1, TypedInit, TypedStep, PTL DEF Spec, ExclusionLostOnlyToSecondRelease, Robbed
-----------------------------------------------------------------------------
(* What an invocation knows of its phase.  It concerns nobody else, and     *)
(* therefore holds for any number of invocations.                           *)
Promised(s) ==
  s.needed /\ s.target \in Phases /\ s.target = s.last /\ s.st[s.target] = "running"

InPhase(p) ==
  /\ pc[p] \in {"body", "record"} => mem[p].st[job[p].at] = "running"
  /\ pc[p] = "record" => mem[p].needed /\ mem[p].target = job[p].at
  /\ Granted(p) => Promised(mem[p])

PhaseInv == Typed /\ \A p \in Procs : InPhase(p)

Alone(p) ==
  \A q \in Procs \ {p} : pc'[q] = pc[q] /\ mem'[q] = mem[q] /\ job'[q] = job[q]

(* p is not inside a phase after the step. *)
Outside(p) == pc'[p] \notin {"body", "record"} /\ ~Granted(p)'

LEMMA PhaseStep == PhaseInv /\ [Next]_vars => PhaseInv'
<1> SUFFICES ASSUME PhaseInv, [Next]_vars PROVE \A q \in Procs : InPhase(q)'
  BY TypedStep DEF PhaseInv
<1> USE DEF PhaseInv, Typed, TypeOK, PhaseInRange, Goto
<1>1. ASSUME NEW p \in Procs, \/ Acquire(p) \/ Recover(p) \/ Gate(p) \/ Clear(p)
      PROVE  Alone(p) /\ Outside(p)
  BY <1>1 DEF Acquire, Recover, Gate, Clear, Refuse, Persist, Alone, Outside, Granted
<1>2. ASSUME NEW p \in Procs, Preflight(p) PROVE Alone(p) /\ Outside(p)
  BY <1>2 DEF Preflight, Persist, Refuse, Alone, Outside, Granted, Job
<1>3. ASSUME NEW p \in Procs, Skip(p) PROVE Alone(p) /\ Outside(p)
  BY <1>3 DEF Skip, Advance, Alone, Outside, Granted
<1>4. ASSUME NEW p \in Procs, NEW x, Settle(p, x) PROVE Alone(p) /\ Outside(p)
  BY <1>4 DEF Settle, Persist, Advance, Return, Alone, Outside, Granted
<1>5. ASSUME NEW p \in Procs, EndEarly(p) \/ Finish(p) PROVE Alone(p) /\ Outside(p)
  BY <1>4, <1>5 DEF EndEarly, Finish
<1>6. ASSUME NEW p \in Procs,
             \/ Reboot(p) \/ EndOfPipeline(p) \/ Disable(p) \/ Remove(p) \/ Release(p)
      PROVE  Alone(p) /\ Outside(p)
  BY <1>6 DEF Reboot, ExitTwo, Fail, Return, EndOfPipeline, Disable, Remove, Release,
     Alone, Outside, Granted
<1>7. ASSUME NEW p \in Procs, ResetCredentials(p) \/ StateReset(p) \/ Kill(p)
      PROVE  Alone(p) /\ Outside(p)
  BY <1>7 DEF ResetCredentials, StateReset, Kill, Persist, Alone, Outside, Granted
<1>8. ASSUME NEW p \in Procs, NEW c, NEW i, NEW a, NEW b, Load(p, c, i, a, b)
      PROVE  Alone(p) /\ Outside(p)
  BY <1>8 DEF Load, Alone, Outside, Granted
<1>9. ASSUME NEW p \in Procs, Begin(p) PROVE Alone(p) /\ InPhase(p)'
  <2>1. job[p].at \in Phases
    BY <1>9, DeployAssumption DEF Begin, AtPhase, Job, Phases
  <2>2. MarkStatus(mem[p], job[p].at, "running").st[job[p].at] = "running"
    BY <2>1, KeptStatus, DeployAssumption DEF Phases
  <2> QED
    BY <1>9, <2>2 DEF Begin, Persist, Alone, InPhase, Granted
<1>10. ASSUME NEW p \in Procs, AskReboot(p) PROVE Alone(p) /\ InPhase(p)'
  <2> DEFINE s == SetRebootNeeded(mem[p], TRUE, job[p].at)
  <2>1. s.st = mem[p].st /\ s.needed /\ s.target = job[p].at
    BY DEF SetRebootNeeded, StateFile
  <2>2. mem' = [mem EXCEPT ![p] = s]
    BY <1>10 DEF AskReboot, Persist
  <2> HIDE DEF s
  <2> QED
    BY <1>10, <2>1, <2>2 DEF AskReboot, Alone, InPhase, Granted
<1>11. ASSUME NEW p \in Procs, Record(p) PROVE Alone(p) /\ InPhase(p)'
  <2> DEFINE s == RecordRebootRequest(mem[p], mem[p].target)
  <2>1. /\ s.st = mem[p].st /\ s.needed = mem[p].needed
        /\ s.target = mem[p].target /\ s.last = mem[p].target
    BY DEF RecordRebootRequest, StateFile
  <2>2. mem' = [mem EXCEPT ![p] = s] /\ pc[p] = "record" /\ job' = job
        /\ pc' \in {[pc EXCEPT ![p] = "unit_open"], [pc EXCEPT ![p] = Return(p)]}
    BY <1>11 DEF Record, Fail
  <2> HIDE DEF s
  <2>3. InPhase(p) /\ job[p].at \in Phases
    BY <2>2
  <2>4. Promised(s)
    BY <2>1, <2>2, <2>3 DEF InPhase, Promised
  <2> QED
    BY <2>2, <2>4 DEF Return, Alone, InPhase, Granted
<1>12. ASSUME NEW p \in Procs, UnitOpen(p) \/ UnitWrite(p) \/ UnitEnable(p)
       PROVE  Alone(p) /\ InPhase(p)'
  <2>1. Alone(p) /\ mem' = mem /\ (Granted(p)' => Granted(p)) /\ pc'[p] \notin {"body", "record"}
    BY <1>12 DEF UnitOpen, UnitWrite, UnitEnable, InstallFails, Refuse, Fail, Return,
       Alone, Granted, Job
  <2> QED
    BY <2>1 DEF InPhase
<1>13. ASSUME NEW p \in Procs, Alone(p), Outside(p) \/ InPhase(p)'
       PROVE  \A q \in Procs : InPhase(q)'
  BY <1>13 DEF Alone, Outside, InPhase, Granted
<1>14. CASE \E p \in Procs : Start(p) \/ Step(p) \/ Kill(p)
  BY <1>14, <1>1, <1>2, <1>3, <1>5, <1>6, <1>7, <1>8, <1>9, <1>10, <1>11, <1>12, <1>13
     DEF Step, Start
<1>15. CASE PowerLoss \/ Shutdown
  BY <1>15 DEF PowerLoss, Shutdown, AllDie, InPhase, Granted
<1>16. CASE Boot
  BY <1>16, <1>8, <1>13 DEF Boot, InPhase, Granted
<1>17. CASE UNCHANGED vars
  BY <1>17 DEF vars, InPhase, Granted
<1> QED
  BY <1>14, <1>15, <1>16, <1>17 DEF Next
-----------------------------------------------------------------------------
(* Where these steps leave p. *)
Away(p) ==
  /\ pc[p] # "idle" /\ pc'[p] \notin {"body", "reset"}
  /\ disk' = disk \/ (disk' = mem'[p] /\ pc'[p] # "idle")

LEMMA StepAway ==
  ASSUME Typed, NEW p \in Procs,
         \/ Acquire(p) \/ Gate(p) \/ Preflight(p) \/ Skip(p) \/ Recover(p) \/ Clear(p)
         \/ AskReboot(p) \/ Record(p) \/ UnitOpen(p) \/ UnitWrite(p) \/ UnitEnable(p)
         \/ Reboot(p) \/ EndOfPipeline(p) \/ Disable(p) \/ Remove(p) \/ Release(p)
         \/ Kill(p) \/ ResetCredentials(p)
  PROVE  Away(p)
<1> USE DEF Typed, TypeOK, Goto, Away
<1>1. CASE Acquire(p)
  BY <1>1 DEF Acquire
<1>2. CASE Gate(p)
  BY <1>2 DEF Gate, Refuse
<1>3. CASE Preflight(p)
  BY <1>3 DEF Preflight, Refuse, Persist, SaveOK, SaveFails
<1>4. CASE Skip(p)
  BY <1>4 DEF Skip, AtPhase, Advance
<1>5. CASE Recover(p)
  BY <1>5 DEF Recover, Refuse, SaveOK, SaveFails
<1>6. CASE Clear(p)
  BY <1>6 DEF Clear, Persist, SaveOK, SaveFails
<1>7. CASE AskReboot(p)
  BY <1>7 DEF AskReboot, Persist, SaveOK, SaveFails
<1>8. CASE Record(p)
  BY <1>8 DEF Record, Fail, Return, SaveOK, SaveFails
<1>9. CASE UnitOpen(p) \/ UnitWrite(p) \/ UnitEnable(p)
  BY <1>9 DEF UnitOpen, UnitWrite, UnitEnable, InstallFails, Refuse, Fail, Return
<1>10. CASE Reboot(p)
  BY <1>10 DEF Reboot, ExitTwo, Fail, Return
<1>11. CASE EndOfPipeline(p) \/ Disable(p) \/ Remove(p) \/ Release(p)
  BY <1>11 DEF EndOfPipeline, Disable, Remove, Release
<1>12. CASE Kill(p)
  BY <1>12 DEF Kill
<1>13. CASE ResetCredentials(p)
  BY <1>13 DEF ResetCredentials, Persist, SaveOK, SaveFails
<1> QED
  BY <1>1, <1>2, <1>3, <1>4, <1>5, <1>6, <1>7, <1>8, <1>9, <1>10, <1>11, <1>12, <1>13

(* What a step does to the statuses, in memory, on disk and in the history. *)
KeepsStatus(p) ==
  /\ Away(p)
  /\ \A i \in Phases : \/ mem'[p].st[i] = mem[p].st[i]
                       \/ mem[p].st[i] = "running" /\ mem'[p].st[i] = "pending"
  /\ seen'.cleared = seen.cleared

MovesStatus(p) ==
  /\ pc[p] \in {"run", "body"} /\ pc'[p] \notin {"idle", "reset"}
  /\ job[p].at \in Phases /\ mem[p].st[job[p].at] # "done"
  /\ \A i \in Phases \ {job[p].at} : mem'[p].st[i] = mem[p].st[i]
  /\ IF pc'[p] = "body"
       THEN pc[p] = "run" /\ job'[p].at = job[p].at /\ mem'[p].st[job[p].at] # "done"
       ELSE \/ mem'[p].st[job[p].at] # "done"
            \/ pc[p] = "body"
            \/ job[p].at \in FoundDone
  /\ disk' = disk \/ disk' = mem'[p]
  /\ seen'.cleared = seen.cleared \ {job[p].at}

ResetsStatus(p) ==
  /\ pc[p] = "reset" /\ pc'[p] = "idle" /\ job[p].at \in Phases
  /\ \/ disk' = disk /\ seen'.cleared = seen.cleared
     \/ /\ \A i \in Phases \ {job[p].at} : disk'.st[i] = mem[p].st[i]
        /\ disk'.st[job[p].at] = "pending"
        /\ seen'.cleared = seen.cleared \cup {job[p].at}

LoadsStatus(p) ==
  /\ pc[p] = "idle" /\ pc'[p] \notin {"idle", "body"}
  /\ mem'[p] = disk /\ disk' = disk /\ seen'.cleared = seen.cleared

LEMMA StepStatus ==
  ASSUME PhaseInv, [Next]_vars
  PROVE  \/ \E p \in Procs : KeepsStatus(p) \/ MovesStatus(p) \/ ResetsStatus(p) \/ LoadsStatus(p)
         \/ (\A p \in Procs : pc'[p] = "idle") /\ disk' = disk /\ seen'.cleared = seen.cleared
         \/ UNCHANGED <<pc, mem, job, disk, seen>>
<1> USE DEF PhaseInv, Typed, TypeOK, PhaseInRange, Goto
<1>1. ASSUME NEW p \in Procs, \/ Acquire(p) \/ Gate(p) \/ Preflight(p) \/ Skip(p)
      PROVE  KeepsStatus(p)
  <2>1. Away(p)
    BY <1>1, StepAway
  <2> QED
    BY <1>1, <2>1 DEF Acquire, Gate, Preflight, Skip, Refuse, Persist, KeepsStatus, History
<1>2. ASSUME NEW p \in Procs, Recover(p) PROVE KeepsStatus(p)
  <2> DEFINE s == RecoverInterruptedRunningPhases(mem[p])
  <2>1. \A i \in Phases : \/ s.st[i] = mem[p].st[i]
                          \/ mem[p].st[i] = "running" /\ s.st[i] = "pending"
    BY DEF RecoverInterruptedRunningPhases, Running, StateFile
  <2> HIDE DEF s
  <2>2. mem' \in {mem, [mem EXCEPT ![p] = s]} /\ Away(p)
    BY <1>2, StepAway DEF Recover, s
  <2> QED
    BY <1>2, <2>1, <2>2 DEF Recover, Refuse, KeepsStatus, History
<1>3. ASSUME NEW p \in Procs, Clear(p) PROVE KeepsStatus(p)
  <2>1. SetRebootNeeded(mem[p], FALSE, 0).st = mem[p].st
    BY DEF SetRebootNeeded, StateFile
  <2> QED
    BY <1>3, <2>1, StepAway DEF Clear, Persist, KeepsStatus
<1>4. ASSUME NEW p \in Procs, AskReboot(p) PROVE KeepsStatus(p)
  <2>1. SetRebootNeeded(mem[p], TRUE, job[p].at).st = mem[p].st
    BY DEF SetRebootNeeded, StateFile
  <2> QED
    BY <1>4, <2>1, StepAway DEF AskReboot, Persist, KeepsStatus
<1>5. ASSUME NEW p \in Procs, Record(p) PROVE KeepsStatus(p)
  <2>1. RecordRebootRequest(mem[p], mem[p].target).st = mem[p].st
    BY DEF RecordRebootRequest, StateFile
  <2> QED
    BY <1>5, <2>1, StepAway DEF Record, Fail, KeepsStatus, History
<1>6. ASSUME NEW p \in Procs, \/ UnitOpen(p) \/ UnitWrite(p) \/ UnitEnable(p) \/ Reboot(p)
                              \/ EndOfPipeline(p) \/ Disable(p) \/ Remove(p) \/ Release(p) \/ Kill(p)
      PROVE  KeepsStatus(p)
  <2>1. Away(p)
    BY <1>6, StepAway
  <2>2. mem' = mem /\ seen'.cleared = seen.cleared
    BY <1>6 DEF UnitOpen, UnitWrite, UnitEnable, InstallFails, Refuse, Fail, Reboot,
       EndOfPipeline, Disable, Remove, Release, Kill, History
  <2> QED
    BY <2>1, <2>2 DEF KeepsStatus
<1>7. ASSUME NEW p \in Procs, ResetCredentials(p) PROVE KeepsStatus(p)
  BY <1>7, StepAway DEF ResetCredentials, Persist, KeepsStatus
<1>8. ASSUME NEW p \in Procs, AtPhase(p) PROVE job[p].at \in Phases
  BY <1>8, DeployAssumption DEF AtPhase, Job, Phases
<1>9. ASSUME NEW p \in Procs, AtPhase(p), MustRun(p) PROVE mem[p].st[job[p].at] # "done"
  BY <1>9 DEF MustRun, ShouldSkip, MayReopen
<1>10. ASSUME NEW p \in Procs, NEW x, NEW i \in Phases
       PROVE  \A j \in Phases \ {i} : MarkStatus(mem[p], i, x).st[j] = mem[p].st[j]
  BY DEF MarkStatus, StateFile
<1>11. ASSUME NEW p \in Procs, Begin(p) PROVE MovesStatus(p)
  <2>1. AtPhase(p) /\ MustRun(p)
    BY <1>11 DEF Begin
  <2>2. /\ pc[p] = "run" /\ pc'[p] = "body" /\ job' = job
        /\ mem'[p] = MarkStatus(mem[p], job[p].at, "running")
        /\ disk' = disk \/ disk' = mem'[p]
        /\ seen'.cleared = seen.cleared \ {job[p].at}
    BY <1>11 DEF Begin, AtPhase, Touch, Persist, SaveOK, SaveFails, History
  <2>3. job[p].at \in Phases /\ mem[p].st[job[p].at] # "done"
    BY <2>1, <1>8, <1>9
  <2>4. MarkStatus(mem[p], job[p].at, "running").st[job[p].at] = "running"
    BY <2>3, KeptStatus, DeployAssumption DEF Phases
  <2> QED
    BY <2>2, <2>3, <2>4, <1>10 DEF MovesStatus
<1>12. ASSUME NEW p \in Procs, NEW x \in Status, Settle(p, x), job[p].at \in Phases,
              mem[p].st[job[p].at] # "done", pc[p] \in {"run", "body"},
              pc[p] = "body" \/ x \in EarlyEnds[job[p].at]
       PROVE  MovesStatus(p)
  <2>1. seen'.cleared = seen.cleared \ {job[p].at}
    BY <1>12 DEF Settle, Touch, History
  <2>2. /\ \A i \in Phases \ {job[p].at} : mem'[p].st[i] = mem[p].st[i]
        /\ disk' = disk \/ disk' = mem'[p]
    BY <1>12, <1>10 DEF Settle, Persist, SaveOK, SaveFails
  <2>3. mem'[p].st[job[p].at] = x
    BY <1>12, KeptStatus, DeployAssumption DEF Settle, Persist, Phases
  <2>4. pc'[p] \notin {"idle", "reset", "body"}
    BY <1>12 DEF Settle, Return, Advance
  <2>5. mem'[p].st[job[p].at] # "done" \/ pc[p] = "body" \/ job[p].at \in FoundDone
    BY <1>12, <2>3 DEF FoundDone
  <2> QED
    BY <1>12, <2>1, <2>2, <2>4, <2>5 DEF MovesStatus
<1>13. ASSUME NEW p \in Procs, EndEarly(p) PROVE MovesStatus(p)
  <2>1. AtPhase(p) /\ MustRun(p)
    BY <1>13 DEF EndEarly
  <2> QED
    <3>1. PICK x \in EarlyEnds[job[p].at] : Settle(p, x)
      BY <1>13 DEF EndEarly
    <3>2. job[p].at \in Phases /\ mem[p].st[job[p].at] # "done" /\ pc[p] = "run"
      BY <2>1, <1>8, <1>9 DEF AtPhase
    <3>3. x \in Status
      BY <3>1, <3>2, DeployAssumption DEF Ending
    <3> QED
      BY <3>1, <3>2, <3>3, <1>12
<1>14. ASSUME NEW p \in Procs, Finish(p) PROVE MovesStatus(p)
  <2>1. mem[p].st[job[p].at] = "running" /\ job[p].at \in Phases
    BY <1>14 DEF Finish, InPhase
  <2> QED
    <3>1. PICK x \in BodyEnds[job[p].at] \ {"reboot"} : Settle(p, x)
      BY <1>14 DEF Finish
    <3>2. x \in Status
      BY <2>1, <3>1, DeployAssumption DEF Ending
    <3> QED
      BY <1>14, <2>1, <3>1, <3>2, <1>12 DEF Finish
<1>15. ASSUME NEW p \in Procs, StateReset(p) PROVE ResetsStatus(p)
  <2> DEFINE s == MarkStatus(mem[p], job[p].at, "pending")
  <2>1. job[p].at \in Phases /\ s.st[job[p].at] = "pending"
    BY <1>15, KeptStatus, DeployAssumption DEF StateReset, Phases
  <2>2. \A i \in Phases \ {job[p].at} : s.st[i] = mem[p].st[i]
    BY <1>10, <2>1
  <2> HIDE DEF s
  <2>3. \/ disk' = disk /\ seen' = seen
        \/ disk' = s /\ seen' = [seen EXCEPT !.cleared = @ \cup {job[p].at}]
    BY <1>15 DEF StateReset, SaveOK, SaveFails, s
  <2> QED
    BY <1>15, <2>1, <2>2, <2>3 DEF StateReset, ResetsStatus, History
<1>16. ASSUME NEW p \in Procs, Start(p) PROVE LoadsStatus(p)
  BY <1>16 DEF Start, Load, LoadsStatus, History
<1>17. CASE Boot
  BY <1>17 DEF Boot, Load, LoadsStatus
<1>18. CASE PowerLoss \/ Shutdown
  BY <1>18 DEF PowerLoss, Shutdown, AllDie
<1>19. CASE UNCHANGED vars
  BY <1>19 DEF vars
<1> QED
  BY <1>1, <1>2, <1>3, <1>4, <1>5, <1>6, <1>7, <1>11, <1>13, <1>14, <1>15, <1>16, <1>17,
     <1>18, <1>19 DEF Next, Step

(* With one invocation at a time memory is never behind the disk: what is   *)
(* done there is done here, and what was reset there is pending here.  A    *)
(* reset works on what it has just read.                                    *)
StatusKnown(p) ==
  /\ pc[p] = "reset" => mem[p] = disk
  /\ pc[p] # "idle" => \A i \in Phases :
       /\ disk.st[i] = "done" => mem[p].st[i] = "done"
       /\ i \in seen.cleared => mem[p].st[i] = "pending"

StatusInv == PhaseInv /\ ResetSticks /\ \A p \in Procs : StatusKnown(p)

Completed ==
  \A i \in Phases : (disk.st[i] = "done" /\ disk'.st[i] # "done") =>
    \E p \in Procs : pc[p] = "reset" /\ job[p].at = i

LEMMA StatusStep ==
  ASSUME OneInvocation, StatusInv, [Next]_vars
  PROVE  StatusInv' /\ Completed
<1> USE DEF StatusInv, ResetSticks
<1>1. PhaseInv'
  BY PhaseStep
<1>2. seen.cleared \subseteq Phases
  BY DEF PhaseInv, Typed, TypeOK, History
<1>3. ASSUME NEW p \in Procs,
             KeepsStatus(p) \/ MovesStatus(p) \/ ResetsStatus(p) \/ LoadsStatus(p)
      PROVE  ResetSticks' /\ StatusKnown(p)' /\ Completed
  <2>1. CASE KeepsStatus(p)
    BY <1>2, <2>1 DEF KeepsStatus, Away, StatusKnown, Completed
  <2>2. CASE MovesStatus(p)
    BY <1>2, <2>2 DEF MovesStatus, StatusKnown, Completed
  <2>3. CASE ResetsStatus(p)
    BY <1>2, <2>3 DEF ResetsStatus, StatusKnown, Completed
  <2>4. CASE LoadsStatus(p)
    BY <1>2, <2>4 DEF LoadsStatus, StatusKnown, Completed
  <2> QED
    BY <1>3, <2>1, <2>2, <2>3, <2>4
<1>4. ASSUME \A p \in Procs : pc'[p] = "idle", disk' = disk, seen'.cleared = seen.cleared
      PROVE  ResetSticks' /\ (\A p \in Procs : StatusKnown(p)') /\ Completed
  BY <1>4 DEF StatusKnown, Completed
<1>5. ASSUME UNCHANGED <<pc, mem, job, disk, seen>>
      PROVE  ResetSticks' /\ (\A p \in Procs : StatusKnown(p)') /\ Completed
  BY <1>5 DEF StatusKnown, Completed
<1> QED
  BY <1>1, <1>3, <1>4, <1>5, StepStatus DEF OneInvocation

LEMMA StatusInit == Init => StatusInv
BY TypedInit DEF Init, Fresh, StatusInv, PhaseInv, InPhase, ResetSticks, StatusKnown, Granted

(* A phase that was reset stays pending until it is run again (main.go:2292), *)
(* whatever crashes or fails to save, if invocations do not overlap.          *)
THEOREM ResetsStick ==
  ASSUME OneInvocation
  PROVE  Spec => []ResetSticks
<1>1. StatusInv /\ [Next]_vars => StatusInv'
  BY StatusStep
<1>2. StatusInv => ResetSticks
  BY DEF StatusInv
<1> QED
  BY <1>1, <1>2, StatusInit, PTL DEF Spec

(* What is recorded as done stays done until that phase is reset, however   *)
(* many saves are lost and however often the host goes down.                *)
THEOREM DoneIsKept ==
  ASSUME OneInvocation
  PROVE  Spec => CompletedStaysCompleted
<1>1. StatusInv /\ [Next]_vars => StatusInv' /\ [Completed]_vars
  BY StatusStep
<1> QED
  BY <1>1, StatusInit, PTL DEF Spec, CompletedStaysCompleted, Completed
-----------------------------------------------------------------------------
(* What the only invocation knows is what it has in memory. *)
LEMMA LedgerOfOne ==
  ASSUME OneInvocation, StatusInv, NEW p \in Procs
  PROVE  /\ Known = IF pc[p] = "idle" THEN Recorded ELSE DoneIn(mem[p])
         /\ UnderWay = IF pc[p] = "body" THEN {job[p].at} ELSE {}
<1>1. Procs = {p}
  BY DEF OneInvocation
<1>2. pc[p] # "idle" => Recorded \subseteq DoneIn(mem[p])
  BY DEF StatusInv, StatusKnown, Recorded, DoneIn
<1> QED
  BY <1>1, <1>2 DEF Known, UnderWay

LEMMA LedgerOfOneNext ==
  ASSUME OneInvocation, StatusInv', NEW p \in Procs
  PROVE  /\ Known' = IF pc'[p] = "idle" THEN Recorded' ELSE DoneIn(mem'[p])
         /\ UnderWay' = IF pc'[p] = "body" THEN {job'[p].at} ELSE {}
<1>1. Procs = {p}
  BY DEF OneInvocation
<1>2. pc'[p] # "idle" => Recorded' \subseteq DoneIn(mem'[p])
  BY DEF StatusInv, StatusKnown, Recorded, DoneIn
<1> QED
  BY <1>1, <1>2 DEF Known, UnderWay

LEMMA LedgerStep ==
  ASSUME OneInvocation, StatusInv, [Next]_vars, StatusInv'
  PROVE  [Ledger!Next]_(Ledger!ledgerVars)
<1> USE DEF Recorded, DoneIn
<1>1. ASSUME NEW p \in Procs, KeepsStatus(p) PROVE Ledger!Leave \/ Ledger!Stop
  <2>1. Known = DoneIn(mem[p]) /\ UnderWay' = {}
    BY <1>1, LedgerOfOne, LedgerOfOneNext DEF KeepsStatus, Away
  <2>2. DoneIn(mem'[p]) = DoneIn(mem[p])
    BY <1>1 DEF KeepsStatus
  <2>3. CASE pc'[p] = "idle"
    BY <1>1, <2>1, <2>3, LedgerOfOneNext DEF KeepsStatus, Away, Ledger!Stop
  <2>4. CASE pc'[p] # "idle"
    BY <1>1, <2>1, <2>2, <2>4, LedgerOfOneNext DEF KeepsStatus, Away, Ledger!Leave, Ledger!Save
  <2> QED
    BY <2>3, <2>4
<1>2. ASSUME NEW p \in Procs, MovesStatus(p)
      PROVE  Ledger!Leave \/ \E i \in Phases : Ledger!Work(i) \/ Ledger!Complete(i)
  <2> DEFINE i == job[p].at
  <2>1. /\ Known = DoneIn(mem[p]) /\ Known' = DoneIn(mem'[p])
        /\ i \in Phases /\ i \notin Known
        /\ UnderWay = IF pc[p] = "body" THEN {i} ELSE {}
        /\ UnderWay' = IF pc'[p] = "body" THEN {job'[p].at} ELSE {}
    BY <1>2, LedgerOfOne, LedgerOfOneNext DEF MovesStatus
  <2>2. Ledger!Save
    BY <1>2, <2>1 DEF MovesStatus, Ledger!Save
  <2>3. CASE pc'[p] = "body"
    <3>1. Known' = Known
      BY <1>2, <2>1, <2>3 DEF MovesStatus
    <3>2. UnderWay = {} /\ UnderWay' = {i}
      BY <1>2, <2>1, <2>3 DEF MovesStatus
    <3> QED
      BY <2>1, <2>2, <3>1, <3>2 DEF Ledger!Work
  <2>4. CASE pc'[p] # "body" /\ mem'[p].st[i] = "done"
    <3>1. Known' = Known \cup {i}
      BY <1>2, <2>1, <2>4 DEF MovesStatus
    <3>2. UnderWay = {i} \/ (UnderWay = {} /\ i \in FoundDone)
      BY <1>2, <2>1, <2>4 DEF MovesStatus
    <3> QED
      BY <2>1, <2>2, <2>4, <3>1, <3>2 DEF Ledger!Complete
  <2>5. CASE pc'[p] # "body" /\ mem'[p].st[i] # "done"
    <3>1. Known' = Known
      BY <1>2, <2>1, <2>5 DEF MovesStatus
    <3> QED
      BY <2>1, <2>2, <2>5, <3>1 DEF Ledger!Leave
  <2> QED
    BY <2>3, <2>4, <2>5
<1>3. ASSUME NEW p \in Procs, ResetsStatus(p)
      PROVE  Ledger!Stop \/ \E i \in Phases : Ledger!Forget(i)
  <2>1. UnderWay = {} /\ UnderWay' = {} /\ Known = Recorded /\ Known' = Recorded'
    <3>1. mem[p] = disk
      BY <1>3 DEF ResetsStatus, StatusInv, StatusKnown
    <3> QED
      BY <1>3, <3>1, LedgerOfOne, LedgerOfOneNext DEF ResetsStatus
  <2>2. CASE disk' = disk
    BY <2>1, <2>2 DEF Ledger!Stop
  <2>3. CASE disk' # disk
    <3>1. mem[p] = disk /\ job[p].at \in Phases
      BY <1>3 DEF ResetsStatus, StatusInv, StatusKnown
    <3>2. Recorded' = Recorded \ {job[p].at}
      BY <1>3, <2>3, <3>1 DEF ResetsStatus
    <3> QED
      BY <2>1, <3>1, <3>2 DEF Ledger!Forget
  <2> QED
    BY <2>2, <2>3
<1>4. ASSUME NEW p \in Procs, LoadsStatus(p) PROVE UNCHANGED <<Recorded, Known, UnderWay>>
  BY <1>4, LedgerOfOne, LedgerOfOneNext DEF LoadsStatus
<1>5. ASSUME \A p \in Procs : pc'[p] = "idle", disk' = disk PROVE Ledger!Stop
  BY <1>5 DEF Ledger!Stop, Known, UnderWay
<1>6. ASSUME UNCHANGED <<pc, mem, job, disk>> PROVE UNCHANGED <<Recorded, Known, UnderWay>>
  BY <1>6 DEF Known, UnderWay
<1>7. PhaseInv
  BY DEF StatusInv
<1> QED
  BY <1>1, <1>2, <1>3, <1>4, <1>5, <1>6, <1>7, StepStatus DEF Ledger!Next, Ledger!ledgerVars

(* Commands, kills, reboots and lost saves together do no more than the     *)
(* abstract ledger: the work of a phase is done once, and again only after  *)
(* a reset or when it could not be recorded before the end.                 *)
THEOREM DeployKeepsLedger ==
  ASSUME OneInvocation
  PROVE  Spec => ImplementsLedger
<1>1. Init => Ledger!Init
  BY DEF Init, Ledger!Init, Recorded, Known, UnderWay, DoneIn, Fresh
<1>2. StatusInv /\ [Next]_vars => StatusInv'
  BY StatusStep
<1>3. StatusInv /\ [Next]_vars /\ StatusInv' => [Ledger!Next]_(Ledger!ledgerVars)
  BY LedgerStep
<1> QED
  BY <1>1, <1>2, <1>3, StatusInit, PTL DEF Spec, ImplementsLedger, Ledger!Spec
-----------------------------------------------------------------------------
(* Which command is where. *)
Route(p) ==
  /\ pc[p] \in {"recover", "gate", "preflight", "clear", "disable", "remove"} =>
       job[p].cmd \in {"apply", "resume"}
  /\ pc[p] \in {"run", "body", "record", "unit_open", "unit_write", "unit_enable", "reboot"} =>
       job[p].cmd \in {"apply", "resume", "phase"}
  /\ job[p].cmd = "phase" => job[p].at \in Phases
  /\ pc[p] = "clear" => job[p].cmd # "apply"
  /\ pc[p] \in {"disable", "remove"} => job[p].at = NPhases + 1

RouteInv == Typed /\ \A p \in Procs : Route(p)

LEMMA RouteStep == RouteInv /\ [Next]_vars => RouteInv'
<1> SUFFICES ASSUME RouteInv, [Next]_vars PROVE \A q \in Procs : Route(q)'
  BY TypedStep DEF RouteInv
<1> USE DEF RouteInv, Typed, TypeOK, Goto
<1> DEFINE Moved(p) == Alone(p) /\ Route(p)'
<1>1. ASSUME NEW p \in Procs, Acquire(p) \/ Gate(p) \/ Clear(p) PROVE Moved(p)
  BY <1>1 DEF Acquire, Gate, Clear, Refuse, Persist, Alone, Route, Job, Commands
<1>2. ASSUME NEW p \in Procs, Recover(p) PROVE Moved(p)
  BY <1>2 DEF Recover, Refuse, Alone, Route
<1>3. ASSUME NEW p \in Procs, Preflight(p) PROVE Moved(p)
  BY <1>3 DEF Preflight, Refuse, Persist, Alone, Route, Job
<1>4. ASSUME NEW p \in Procs, pc[p] \in {"run", "body"}, Advance(p)
      PROVE  /\ \A q \in Procs \ {p} : pc'[q] = pc[q] /\ job'[q] = job[q]
             /\ Route(p)'
  BY <1>4 DEF Advance, Route, Job
<1>5. ASSUME NEW p \in Procs, Skip(p) PROVE Moved(p)
  BY <1>4, <1>5 DEF Skip, AtPhase, Alone
<1>6. ASSUME NEW p \in Procs, NEW x, pc[p] \in {"run", "body"}, Settle(p, x) PROVE Moved(p)
  <2>1. CASE x = "failed_fatal"
    BY <1>6, <2>1 DEF Settle, Persist, Return, Alone, Route
  <2>2. CASE x # "failed_fatal"
    BY <1>4, <1>6, <2>2 DEF Settle, Persist, Alone
  <2> QED
    BY <2>1, <2>2
<1>7. ASSUME NEW p \in Procs, EndEarly(p) \/ Finish(p) PROVE Moved(p)
  BY <1>6, <1>7 DEF EndEarly, Finish, AtPhase
<1>8. ASSUME NEW p \in Procs, Begin(p) \/ AskReboot(p) \/ Record(p) PROVE Moved(p)
  BY <1>8 DEF Begin, AskReboot, Record, AtPhase, Persist, Fail, Return, Alone, Route
<1>9. ASSUME NEW p \in Procs, UnitOpen(p) \/ UnitWrite(p) \/ UnitEnable(p) PROVE Moved(p)
  BY <1>9 DEF UnitOpen, UnitWrite, UnitEnable, InstallFails, Refuse, Fail, Return, Alone,
     Route, Job
<1>10. ASSUME NEW p \in Procs, EndOfPipeline(p) PROVE Moved(p)
  <2>1. job[p].cmd \in {"apply", "resume"}
    BY <1>10, DeployAssumption DEF EndOfPipeline, Route, Phases
  <2> QED
    BY <1>10, <2>1 DEF EndOfPipeline, Alone, Route
<1>11. ASSUME NEW p \in Procs, Reboot(p) \/ Disable(p) \/ Remove(p) \/ Release(p)
       PROVE  Moved(p)
  BY <1>11 DEF Reboot, ExitTwo, Fail, Return, Disable, Remove, Release, Alone, Route
<1>12. ASSUME NEW p \in Procs, ResetCredentials(p) \/ StateReset(p) \/ Kill(p) PROVE Moved(p)
  BY <1>12 DEF ResetCredentials, StateReset, Kill, Persist, Alone, Route
<1>13. ASSUME NEW p \in Procs, NEW c, NEW i \in Phases, NEW a, NEW b, Load(p, c, i, a, b)
       PROVE  Moved(p)
  BY <1>13 DEF Load, Alone, Route
<1>14. ASSUME NEW p \in Procs, Moved(p) PROVE \A q \in Procs : Route(q)'
  BY <1>14 DEF Alone, Route
<1>15. CASE \E p \in Procs : Start(p) \/ Step(p) \/ Kill(p)
  BY <1>15, <1>1, <1>2, <1>3, <1>5, <1>7, <1>8, <1>9, <1>10, <1>11, <1>12, <1>13, <1>14
     DEF Step, Start
<1>16. CASE PowerLoss \/ Shutdown
  BY <1>16 DEF PowerLoss, Shutdown, AllDie, Route, NoJob
<1>17. CASE Boot
  <2>1. 1 \in Phases
    BY DeployAssumption DEF Phases
  <2> QED
    BY <1>17, <2>1, <1>13, <1>14 DEF Boot, Route
<1>18. CASE UNCHANGED vars
  BY <1>18 DEF vars, Route
<1> QED
  BY <1>15, <1>16, <1>17, <1>18 DEF Next

LEMMA RouteInit == Init => RouteInv
BY TypedInit DEF Init, RouteInv, Route, NoJob
-----------------------------------------------------------------------------
(* The unit file is only ever removed at `remove`. *)
LEMMA OnlyRemoveRemoves ==
  ASSUME [Next]_vars, unit.file # "none", unit'.file = "none", TypeOK
  PROVE  \E p \in Procs : pc[p] = "remove"
<1>1. ASSUME NEW p \in Procs, Step(p), pc[p] # "remove" PROVE FALSE
  <2>1. CASE UnitOpen(p) \/ UnitWrite(p) \/ UnitEnable(p) \/ Disable(p)
    BY <2>1 DEF UnitOpen, UnitWrite, UnitEnable, Disable, TypeOK, ContinuationUnit
  <2>2. CASE \/ Acquire(p) \/ Recover(p) \/ Gate(p) \/ Preflight(p) \/ Clear(p) \/ Skip(p)
             \/ Begin(p) \/ EndEarly(p) \/ Finish(p) \/ AskReboot(p) \/ Record(p) \/ Reboot(p)
             \/ EndOfPipeline(p) \/ Release(p) \/ ResetCredentials(p) \/ StateReset(p)
    <3>1. UNCHANGED unit
      BY <2>2, Zenon DEF Acquire, Recover, Gate, Preflight, Clear, Skip, Begin, EndEarly, Finish,
         Settle, AskReboot, Record, Reboot, EndOfPipeline, Release, ResetCredentials, StateReset
    <3> QED
      BY <3>1
  <2> QED
    BY <1>1, <2>1, <2>2 DEF Step, Remove
<1>2. ASSUME NEW p \in Procs, Start(p) \/ Kill(p) PROVE FALSE
  BY <1>2 DEF Start, Kill
<1>3. CASE PowerLoss \/ Shutdown \/ Boot \/ UNCHANGED vars
  BY <1>3 DEF PowerLoss, Shutdown, AllDie, Boot, vars
<1> QED
  BY <1>1, <1>2, <1>3 DEF Next

(* The continuation unit is only taken away by an invocation that saw every *)
(* phase pass, for any number of them at the same time.                     *)
THEOREM UnitOutlivesPipeline == Spec => UnitRemovedOnlyWhenPassed
<1> DEFINE Justified ==
      (unit.file # "none" /\ unit'.file = "none") =>
        \E p \in Procs : pc[p] = "remove" /\ \A i \in Phases : mem[p].st[i] \in Passed
<1>1. ASSUME RouteInv, OrderInv, [Next]_vars PROVE Justified
  <2> SUFFICES ASSUME unit.file # "none", unit'.file = "none" PROVE Justified
    OBVIOUS
  <2>1. PICK p \in Procs : pc[p] = "remove"
    BY <1>1, OnlyRemoveRemoves DEF RouteInv, Typed
  <2>2. job[p].at = NPhases + 1 /\ job[p].cmd \in {"apply", "resume"}
    BY <1>1, <2>1 DEF RouteInv, Route
  <2>3. \A i \in Phases : mem[p].st[i] \in Passed
    BY <1>1, <2>2, DeployAssumption DEF OrderInv, PassedBefore, Phases
  <2> QED
    BY <2>1, <2>3
<1>2. Init => OrderInv
  BY TypedInit DEF Init, OrderInv, PassedBefore, NoJob
<1>3. RouteInv /\ OrderInv /\ [Next]_vars => [Justified]_vars
  BY <1>1
<1> QED
  BY <1>2, <1>3, RouteInit, RouteStep, OrderStep, PTL DEF Spec, UnitRemovedOnlyWhenPassed
-----------------------------------------------------------------------------
(* The continuation unit, with one invocation at a time: whole and enabled  *)
(* wherever an automatic deploy is at work, and when a reboot is asked for. *)
UnitReady(p) ==
  /\ Granted(p) => disk = mem[p]
  /\ pc[p] = "unit_enable" => unit.file = "ok" /\ unit.auto = job[p].auto
  /\ pc[p] = "reboot" => Armed /\ unit.auto = job[p].auto
  /\ (Unattended(p) /\ AmongPhases(p)) => Armed
  /\ (Unattended(p) /\ pc[p] = "unit_write" /\ ~job[p].early) => unit.enabled
  /\ (Unattended(p) /\ job[p].boot /\ pc[p] \in {"lock", "recover", "clear"}) => Armed

UnitInv == PhaseInv /\ RouteInv /\ \A p \in Procs : UnitReady(p)

Survivable ==
  seen'.issued # seen.issued =>
    /\ disk.needed /\ disk.target # 0 /\ disk.target = disk.last
    /\ disk.st[disk.target] = "running"
    /\ Armed /\ unit.auto

LEMMA UnitStep ==
  ASSUME OneInvocation, UnitInv, [Next]_vars
  PROVE  UnitInv' /\ Survivable
<1> USE DEF PhaseInv, RouteInv, Typed, TypeOK, Goto, UnitInv, AmongPhases
<1> DEFINE Quiet == seen'.issued = seen.issued
<1>0. PhaseInv' /\ RouteInv'
  BY PhaseStep, RouteStep
<1>1. ASSUME NEW p \in Procs, Acquire(p) \/ Gate(p) \/ Recover(p) PROVE Quiet /\ UnitReady(p)'
  BY <1>1 DEF Acquire, Gate, Recover, Refuse, UnitReady, Unattended, Armed, Granted, Route,
     Job, Commands, History
<1>2. ASSUME NEW p \in Procs, Preflight(p) PROVE Quiet /\ UnitReady(p)'
  BY <1>2 DEF Preflight, Refuse, UnitReady, Unattended, Armed, Granted, Job, History
<1>3. ASSUME NEW p \in Procs, Clear(p) PROVE Quiet /\ UnitReady(p)'
  BY <1>3 DEF Clear, UnitReady, Unattended, Armed, Granted, Route
<1>4. ASSUME NEW p \in Procs, pc[p] \in {"run", "body"}, Advance(p), unit' = unit
      PROVE  UnitReady(p)'
  BY <1>4 DEF Advance, UnitReady, Unattended, Armed, Granted, Job
<1>5. ASSUME NEW p \in Procs, Skip(p) PROVE Quiet /\ UnitReady(p)'
  BY <1>4, <1>5 DEF Skip, AtPhase
<1>6. ASSUME NEW p \in Procs, NEW x, pc[p] \in {"run", "body"}, Settle(p, x)
      PROVE  Quiet /\ UnitReady(p)'
  <2>1. CASE x = "failed_fatal"
    BY <1>6, <2>1 DEF Settle, Return, UnitReady, Granted, History
  <2>2. CASE x # "failed_fatal"
    BY <1>4, <1>6, <2>2 DEF Settle, Touch, History
  <2> QED
    BY <2>1, <2>2
<1>7. ASSUME NEW p \in Procs, EndEarly(p) \/ Finish(p) PROVE Quiet /\ UnitReady(p)'
  BY <1>6, <1>7 DEF EndEarly, Finish, AtPhase
<1>8. ASSUME NEW p \in Procs, Begin(p) \/ AskReboot(p) PROVE Quiet /\ UnitReady(p)'
  BY <1>8 DEF Begin, AskReboot, AtPhase, Touch, UnitReady, Unattended, Armed, Granted, History
<1>9. ASSUME NEW p \in Procs, Record(p) PROVE Quiet /\ UnitReady(p)'
  BY <1>9 DEF Record, Fail, Return, SaveOK, UnitReady, Granted, History,
     Unattended, Armed, Job
<1>10. ASSUME NEW p \in Procs, UnitOpen(p) PROVE Quiet /\ UnitReady(p)'
  <2>1. CASE unit' = unit /\ InstallFails(p)
    BY <1>10, <2>1 DEF UnitOpen, InstallFails, Refuse, Fail, Return, UnitReady, Granted, History
  <2>2. CASE unit' = [unit EXCEPT !.file = "torn"] /\ Goto(p, "unit_write") /\ UNCHANGED seen
    <3>1. unit'.enabled = unit.enabled
      BY <2>2 DEF ContinuationUnit
    <3>2. pc[p] = "unit_open" /\ pc'[p] = "unit_write" /\ Quiet
      BY <1>10, <2>2 DEF UnitOpen
    <3>3. job' = job /\ disk' = disk /\ mem' = mem
      BY <1>10 DEF UnitOpen
    <3>4. (Unattended(p) /\ ~job[p].early) => unit.enabled
      BY <3>2 DEF UnitReady, Armed
    <3> QED
      BY <3>1, <3>2, <3>3, <3>4 DEF UnitReady, Granted, Unattended
  <2> QED
    BY <1>10, <2>1, <2>2 DEF UnitOpen
<1>11. ASSUME NEW p \in Procs, UnitWrite(p) PROVE Quiet /\ UnitReady(p)'
  <2>1. /\ pc[p] = "unit_write" /\ job' = job /\ disk' = disk /\ mem' = mem /\ Quiet
        /\ \/ /\ pc'[p] = "unit_enable"
              /\ unit' = [unit EXCEPT !.file = "ok", !.auto = job[p].auto]
           \/ pc'[p] \in {"release", "deferred"}
    <3>1. CASE unit' = unit /\ InstallFails(p)
      BY <1>11, <3>1 DEF UnitWrite, InstallFails, Refuse, Fail, Return, History
    <3>2. CASE /\ unit' = [unit EXCEPT !.file = "ok", !.auto = job[p].auto]
               /\ Goto(p, "unit_enable") /\ UNCHANGED seen
      BY <1>11, <3>2, Zenon DEF UnitWrite, Unchanged
    <3> QED
      BY <1>11, <3>1, <3>2 DEF UnitWrite
  <2>2. CASE pc'[p] = "unit_enable"
    <3>1. unit'.file = "ok" /\ unit'.auto = job[p].auto /\ unit'.enabled = unit.enabled
      BY <2>1, <2>2 DEF ContinuationUnit
    <3>2. (Unattended(p) /\ ~job[p].early) => unit.enabled
      BY <2>1 DEF UnitReady
    <3> QED
      BY <2>1, <2>2, <3>1, <3>2 DEF UnitReady, Granted, Unattended, Armed
  <2>3. CASE pc'[p] \in {"release", "deferred"}
    BY <2>1, <2>3 DEF UnitReady, Granted
  <2> QED
    BY <2>1, <2>2, <2>3
<1>12. ASSUME NEW p \in Procs, UnitEnable(p) PROVE Quiet /\ UnitReady(p)'
  BY <1>12 DEF UnitEnable, InstallFails, Refuse, Fail, Return, UnitReady, Armed, Granted,
     History, ContinuationUnit, Job
<1>13. ASSUME NEW p \in Procs, Reboot(p) PROVE Survivable /\ UnitReady(p)'
  <2>1. UnitReady(p)'
    BY <1>13 DEF Reboot, ExitTwo, Fail, Return, UnitReady, Granted
  <2>2. Promised(disk) /\ Armed /\ unit.auto = job[p].auto
    BY <1>13 DEF Reboot, UnitReady, InPhase, Granted
  <2>3. seen'.issued # seen.issued => job[p].auto
    BY <1>13 DEF Reboot, Fail, History
  <2> QED
    BY <2>1, <2>2, <2>3, DeployAssumption DEF Survivable, Promised, Phases
<1>14. ASSUME NEW p \in Procs, \/ EndOfPipeline(p) \/ Disable(p) \/ Remove(p) \/ Release(p)
                               \/ ResetCredentials(p) \/ StateReset(p) \/ Kill(p)
       PROVE  Quiet /\ UnitReady(p)'
  BY <1>14 DEF EndOfPipeline, Disable, Remove, Release, ResetCredentials, StateReset, Kill,
     UnitReady, Granted, History
<1>15. ASSUME NEW p \in Procs, Start(p) PROVE Quiet /\ UnitReady(p)'
  BY <1>15 DEF Start, Load, UnitReady, Granted, History
<1>16. CASE PowerLoss \/ Shutdown
  BY <1>0, <1>16 DEF PowerLoss, Shutdown, AllDie, UnitReady, Granted, Survivable
<1>17. CASE Boot
  <2>1. ASSUME NEW p \in Procs, Load(p, "resume", 1, unit.auto, TRUE), Armed
        PROVE  UnitReady(p)'
    BY <1>17, <2>1 DEF Boot, Load, UnitReady, Armed, Granted
  <2>2. CASE Armed /\ present
    BY <1>0, <1>17, <2>1, <2>2 DEF Boot, Survivable, OneInvocation
  <2>3. CASE ~(Armed /\ present)
    BY <1>0, <1>17, <2>3 DEF Boot, Survivable, UnitReady, Granted, Armed, Unattended
  <2> QED
    BY <2>2, <2>3
<1>18. CASE UNCHANGED vars
  BY <1>0, <1>18 DEF vars, Survivable, UnitReady, Granted, Armed, Unattended
<1>19. ASSUME NEW p \in Procs, Quiet \/ Survivable, UnitReady(p)'
       PROVE  UnitInv' /\ Survivable
  BY <1>0, <1>19 DEF OneInvocation, Survivable
<1> QED
  BY <1>1, <1>2, <1>3, <1>5, <1>7, <1>8, <1>9, <1>10, <1>11, <1>12, <1>13, <1>14, <1>15,
     <1>16, <1>17, <1>18, <1>19 DEF Next, Step

LEMMA UnitInit == Init => UnitInv
BY RouteInit, StatusInit DEF Init, UnitInv, StatusInv, UnitReady, Granted, AmongPhases

(* While an automatic deploy changes the host, an unexpected reboot finds   *)
(* the continuation unit whole and enabled (main.go:667).                   *)
THEOREM ArmedThroughout ==
  ASSUME OneInvocation
  PROVE  Spec => []ArmedWhilePhasesRun
<1>1. UnitInv /\ [Next]_vars => UnitInv'
  BY UnitStep
<1>2. UnitInv => ArmedWhilePhasesRun
  BY DEF UnitInv, UnitReady, ArmedWhilePhasesRun
<1> QED
  BY <1>1, <1>2, UnitInit, PTL DEF Spec

(* When the host is told to reboot, state.json names the running phase that *)
(* asked for it and the unit that will resume is in place (state.go:374).   *)
THEOREM RebootsAreSurvived ==
  ASSUME OneInvocation
  PROVE  Spec => RebootSurvivable
<1>1. UnitInv /\ [Next]_vars => UnitInv' /\ [Survivable]_vars
  BY UnitStep
<1> QED
  BY <1>1, UnitInit, PTL DEF Spec, RebootSurvivable, Survivable

(* So no deploy reboots a host more often than max_auto_reboots allows.     *)
THEOREM RebootsBounded ==
  ASSUME OneInvocation
  PROVE  Spec => [](seen.issued <= MaxReboots)
<1>1. TypeOK /\ EveryRebootCounted /\ CountersBounded => seen.issued <= MaxReboots
  BY DeployAssumption DEF TypeOK, History, StateFile, EveryRebootCounted, CountersBounded
<1> QED
  BY <1>1, TypeCorrect, RebootsCounted, CountersWithinLimits, PTL
=============================================================================
