---------------------------- MODULE ProcessLock ----------------------------
(***************************************************************************)
(* The process lock of internal/state/lock.go, one system call a step.     *)
(* Deploy takes Acquire as atomic; here the file is created and then       *)
(* written, read and then removed, and removed by name whoever made it.    *)
(***************************************************************************)
EXTENDS Naturals

CONSTANTS
  Procs,         \* invocations of clouddeployctl
  Pids,          \* process ids of the host
  None,          \* no lock file
  NoPid,         \* an unreadable lock file; the pid of an invocation that is not alive
  Kills,         \* whether an invocation may be killed
  WriteMayFail,  \* whether the write of the pid may fail (its error is dropped)
  Releases       \* calls of Release before an invocation ends: 2 for apply and
                 \* resume, 1 for the others, 0 for os.Exit(2) in `phase`

ASSUME LockAssumption ==
  /\ NoPid \notin Pids
  /\ None \notin Procs /\ NoPid \notin Procs /\ None # NoPid
  /\ None \notin [by : Procs, pid : Pids \cup {NoPid}]
  /\ Kills \in BOOLEAN /\ WriteMayFail \in BOOLEAN
  /\ Releases \subseteq 0..2

VARIABLES
  file,     \* state.lock: None, or who created it and the pid in it
  pc,       \* control point of each invocation
  pid,      \* its process id
  attempt,  \* turns of the loop of AcquireWithRecovery behind it
  left,     \* calls of Release ahead of it
  others,   \* pids of other programs
  company,  \* history: another invocation was alive while this one was
  robbed    \* history: a lock file was removed under an invocation that had the lock

vars == <<file, pc, pid, attempt, left, others, company, robbed>>

LockFile == [by : Procs, pid : Pids \cup {NoPid}]
ControlPoint == {"off", "create", "write", "read", "steal", "held", "release", "refused"}
-----------------------------------------------------------------------------
Goto(p, l) == pc' = [pc EXCEPT ![p] = l]

Alive == {p \in Procs : pc[p] # "off"}
PidsInUse == others \cup {pid[p] : p \in Alive}

(* A dead holder's pid is free again, and may be the next process's. *)
FreePids == Pids \ PidsInUse

(* The lock is p's from the moment the file was created, whether or not its *)
(* pid could be written, until it begins to release it.                     *)
Holding(p) == pc[p] \in {"write", "held"}

Init ==
  /\ file = None
  /\ pc = [p \in Procs |-> "off"]
  /\ pid = [p \in Procs |-> NoPid]
  /\ attempt = [p \in Procs |-> 0]
  /\ left = [p \in Procs |-> 0]
  /\ others = {}
  /\ company = [p \in Procs |-> FALSE]
  /\ robbed = FALSE

Start(p) ==
  /\ pc[p] = "off"
  /\ \E x \in FreePids : pid' = [pid EXCEPT ![p] = x]
  /\ company' = [q \in Procs |-> IF q = p THEN Alive # {}
                                          ELSE company[q] \/ q \in Alive]
  /\ Goto(p, "create")
  /\ UNCHANGED <<file, attempt, left, others, robbed>>

(* An invocation that is gone leaves nothing but its lock file. *)
Dies(p) ==
  /\ Goto(p, "off")
  /\ pid' = [pid EXCEPT ![p] = NoPid]
  /\ attempt' = [attempt EXCEPT ![p] = 0]
  /\ left' = [left EXCEPT ![p] = 0]
  /\ company' = [company EXCEPT ![p] = FALSE]
  /\ UNCHANGED <<file, others, robbed>>

(* Mutant: O_CREATE without O_EXCL. *)
Create_NoExcl(p) ==
  /\ pc[p] = "create"
  /\ file' = [by |-> p, pid |-> NoPid]
  /\ Goto(p, "write")
  /\ UNCHANGED <<pid, attempt, left, others, company, robbed>>

(* os.OpenFile with O_CREATE and O_EXCL. *)
Create(p) ==
  /\ pc[p] = "create"
  /\ IF file = None
       THEN file' = [by |-> p, pid |-> NoPid] /\ Goto(p, "write")
       ELSE UNCHANGED file /\ Goto(p, "read")
  /\ UNCHANGED <<pid, attempt, left, others, company, robbed>>

(* The lock files that p may have created. *)
Made(p) == [by : {p}, pid : Pids \cup {NoPid}]

(* The pid goes to the file p has open: nowhere, if that was removed.  The  *)
(* command then runs, and will release as often as its kind does.           *)
Write(p) ==
  /\ pc[p] = "write"
  /\ \/ file' = IF file \in Made(p) THEN [file EXCEPT !.pid = pid[p]] ELSE file
     \/ WriteMayFail /\ UNCHANGED file
  /\ \E n \in Releases : left' = [left EXCEPT ![p] = n]
  /\ Goto(p, "held")
  /\ UNCHANGED <<pid, attempt, others, company, robbed>>

(* readPID and processAlive: the file is stolen from a dead holder, and     *)
(* when it is gone or has no pid.                                           *)
Read(p) ==
  /\ pc[p] = "read"
  /\ LET holder == IF file = None THEN NoPid ELSE file.pid
     IN  Goto(p, IF holder \in PidsInUse THEN "refused" ELSE "steal")
  /\ UNCHANGED <<file, pid, attempt, left, others, company, robbed>>

Remove(p) ==
  /\ file' = None
  /\ robbed' = (robbed \/ (file # None /\ file.by # p /\ Holding(file.by)))

(* Mutant: no second attempt after a theft. *)
Steal_Once(p) ==
  /\ pc[p] = "steal"
  /\ Remove(p)
  /\ attempt' = [attempt EXCEPT ![p] = @ + 1]
  /\ Goto(p, "refused")
  /\ UNCHANGED <<pid, left, others, company>>

(* os.Remove, then the second and last attempt. *)
Steal(p) ==
  /\ pc[p] = "steal"
  /\ Remove(p)
  /\ attempt' = [attempt EXCEPT ![p] = @ + 1]
  /\ Goto(p, IF attempt[p] = 0 THEN "create" ELSE "refused")
  /\ UNCHANGED <<pid, left, others, company>>

(* An invocation that has no call of Release ahead ends. *)
Exit(p) ==
  /\ pc[p] = "refused" \/ (pc[p] \in {"held", "release"} /\ left[p] = 0)
  /\ Dies(p)

(* Release removes whatever file is there. *)
Release(p) ==
  /\ pc[p] \in {"held", "release"} /\ left[p] > 0
  /\ Remove(p)
  /\ left' = [left EXCEPT ![p] = @ - 1]
  /\ Goto(p, "release")
  /\ UNCHANGED <<pid, attempt, others, company>>

Kill(p) == Kills /\ pc[p] # "off" /\ Dies(p)

(* Other programs of the host. *)
Others ==
  /\ \/ \E x \in FreePids : others' = others \cup {x}
     \/ \E x \in others : others' = others \ {x}
  /\ UNCHANGED <<file, pc, pid, attempt, left, company, robbed>>

Step(p) ==
  Create(p) \/ Write(p) \/ Read(p) \/ Steal(p) \/ Exit(p) \/ Release(p)

Next == (\E p \in Procs : Start(p) \/ Step(p) \/ Kill(p)) \/ Others

Spec == Init /\ [][Next]_vars
-----------------------------------------------------------------------------
(* Types; the loop of AcquireWithRecovery turns at most twice. *)
TypeOK ==
  /\ file \in LockFile \cup {None}
  /\ pc \in [Procs -> ControlPoint]
  /\ pid \in [Procs -> Pids \cup {NoPid}]
  /\ attempt \in [Procs -> 0..2]
  /\ left \in [Procs -> 0..2]
  /\ others \subseteq Pids
  /\ company \in [Procs -> BOOLEAN]
  /\ robbed \in BOOLEAN

(* O_EXCL keeps two invocations apart (lock.go:70) as long as nobody        *)
(* removes a lock file that another invocation still relies on.             *)
ExclusiveUnlessRobbed ==
  ~robbed => \A p, q \in Procs : (Holding(p) /\ Holding(q)) => p = q

(* Who has the lock, who goes on as if, and who is about to remove it.      *)
Holder == IF file = None THEN None ELSE IF Holding(file.by) THEN file.by ELSE NoPid
Works == {p \in Procs : Holding(p)}
Clearing == {p \in Procs : pc[p] = "steal" \/ (pc[p] = "release" /\ left[p] > 0)}

Service == INSTANCE LockService WITH
  Free <- None, Left <- NoPid, lock <- Holder, works <- Works, clearing <- Clearing

(* The system calls on the file amount to a lock that is taken in one step  *)
(* while nobody has it, and that is lost only to an invocation that removes *)
(* the file without having it: a thief that read it before (lock.go:85,     *)
(* lock.go:92) or a second Release (lock.go:121).                           *)
ImplementsLockService == Service!Spec

(* Only "another clouddeployctl process" (lock.go:15) keeps an invocation   *)
(* out.  What a dead one left behind does so in one case, for signal 0      *)
(* cannot tell whose pid it reaches (signal_unix.go:15): when the pid in    *)
(* the file is by now that of another program or of this very invocation.   *)
RefusedOnlyInCompany ==
  [][\A p \in Procs : (pc[p] # "refused" /\ pc'[p] = "refused") =>
       \/ company[p]
       \/ pc[p] = "read" /\ file # None /\ file.pid \in others \cup {pid[p]}]_vars
-----------------------------------------------------------------------------
(* What the repository says of the lock and the code does not keep. *)

(* state.go:14: "A lock file prevents two clouddeployctl invocations from   *)
(* racing".                                                                 *)
MutualExclusion == \A p, q \in Procs : (Holding(p) /\ Holding(q)) => p = q

(* lock.go:115: "Release removes the lock file.  Safe to call multiple      *)
(* times".                                                                  *)
ReleaseKeepsOthersLock ==
  [][\A p \in Procs : (pc[p] \in {"held", "release"} /\ left'[p] < left[p]) =>
       (file # None /\ file.by # p => ~Holding(file.by))]_vars
=============================================================================
