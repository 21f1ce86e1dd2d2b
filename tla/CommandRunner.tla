--------------------------- MODULE CommandRunner ---------------------------
(***************************************************************************)
(* One call of Runner.Exec (internal/runner): the caller's goroutine, the  *)
(* one that waits for the command, the one that copies its output, and the *)
(* command with the processes it forks.  Both output streams are one pipe. *)
(***************************************************************************)
EXTENDS Naturals

CONSTANTS
  Root,        \* the process Exec starts, leader of its own process group
  Kids,        \* processes the command may fork
  LogMayFail   \* whether a write to the log file may fail

ASSUME RunnerAssumption == Root \notin Kids /\ LogMayFail \in BOOLEAN

Members == Kids \cup {Root}

VARIABLES
  spec,     \* the CommandSpec and what the host makes of it
  pc,       \* where the caller is in Exec and runCommandWithTreeTimeout
  tree,     \* the processes of the command
  code,     \* exit code of Root: 0, or 1 for any failure and any signal
  reaped,   \* Process.Wait has returned: the pid of Root is gone
  copying,  \* the goroutine that copies the pipe to the buffer and the log
  wait,     \* what cmd.Wait has sent to waitCh
  expired,  \* the deadline of cmdCtx is past
  result,   \* Result.Err by kind, and whether a buffer was read while written
  killed    \* history: SIGKILL went to the process group

vars == <<spec, pc, tree, code, reaped, copying, wait, expired, result, killed>>

CommandSpec == [argv : BOOLEAN, rootOK : BOOLEAN, dryRun : BOOLEAN,
                found : BOOLEAN, timeout : BOOLEAN, log : BOOLEAN]
Process == [life : {"unborn", "alive", "dead"}, group : BOOLEAN,
            writes : BOOLEAN, deaf : BOOLEAN]
Result == [err : {"open", "none", "refused", "timeout", "exit", "copy"},
           torn : BOOLEAN]
-----------------------------------------------------------------------------
Unborn == [life |-> "unborn", group |-> FALSE, writes |-> FALSE, deaf |-> FALSE]

Alive(p) == tree[p].life = "alive"
Writers == {p \in Members : Alive(p) /\ tree[p].writes}
Group == {p \in Members : Alive(p) /\ tree[p].group}

Init ==
  /\ spec \in CommandSpec
  /\ pc = "check"
  /\ tree = [p \in Members |-> Unborn]
  /\ code = 0
  /\ reaped = FALSE
  /\ copying = "off"
  /\ wait = "pending"
  /\ expired = FALSE
  /\ result = [err |-> "open", torn |-> FALSE]
  /\ killed = FALSE
-----------------------------------------------------------------------------
(* The caller. *)

Return(e, t) == result' = [err |-> e, torn |-> t] /\ pc' = "done"

(* Empty argv; Sudo without root; a program that is not in PATH. *)
Refused == ~spec.argv \/ (~spec.dryRun /\ ~(spec.rootOK /\ spec.found))

Check ==
  /\ pc = "check"
  /\ IF Refused THEN Return("refused", FALSE)
     ELSE IF spec.dryRun THEN Return("none", FALSE)
     ELSE pc' = "start" /\ UNCHANGED result
  /\ UNCHANGED <<spec, tree, code, reaped, copying, wait, expired, killed>>

(* cmd.Start with Setpgid; the fork or the exec may fail. *)
Start ==
  /\ pc = "start"
  /\ \/ /\ tree' = [tree EXCEPT ![Root] = [life |-> "alive", group |-> TRUE,
                                           writes |-> TRUE, deaf |-> FALSE]]
        /\ copying' = "on"
        /\ pc' = "wait"
        /\ UNCHANGED result
     \/ Return("exit", FALSE) /\ UNCHANGED <<tree, copying>>
  /\ UNCHANGED <<spec, code, reaped, wait, expired, killed>>

(* A signal that ends a process that does not catch it. *)
Struck(sig, targets) ==
  LET dead == {p \in targets : Alive(p) /\ (sig = "KILL" \/ ~tree[p].deaf)}
  IN  /\ tree' = [p \in Members |->
                    IF p \in dead THEN [tree[p] EXCEPT !.life = "dead"] ELSE tree[p]]
      /\ code' = IF Root \in dead THEN 1 ELSE code

(* Mutant: the signal goes to the leader alone. *)
SignalProcessGroup_Leader(sig) ==
  /\ IF reaped THEN UNCHANGED <<tree, code>> ELSE Struck(sig, {Root})
  /\ killed' = (killed \/ (sig = "KILL" /\ ~reaped))

(* Getpgid knows the leader until it is reaped; afterwards Process.Signal   *)
(* is called, which does nothing to a process that was waited for.          *)
SignalProcessGroup(sig) ==
  /\ IF reaped THEN UNCHANGED <<tree, code>> ELSE Struck(sig, Group)
  /\ killed' = (killed \/ (sig = "KILL" /\ ~reaped))

Terminate ==
  /\ pc = "wait" /\ expired
  /\ SignalProcessGroup("TERM")
  /\ pc' = "grace"
  /\ UNCHANGED <<spec, reaped, copying, wait, expired, result>>

(* Two seconds later. *)
ForceKill ==
  /\ pc = "grace"
  /\ SignalProcessGroup("KILL")
  /\ pc' = "last"
  /\ UNCHANGED <<spec, reaped, copying, wait, expired, result>>

(* Mutant: a last wait without its five seconds. *)
GiveUp_Never ==
  /\ FALSE
  /\ UNCHANGED vars

(* Five more seconds later, ctx.Err(): the buffers are read as they are. *)
GiveUp ==
  /\ pc = "last"
  /\ Return("timeout", copying = "on")
  /\ UNCHANGED <<spec, tree, code, reaped, copying, wait, expired, killed>>

(* waitCh; a timeout is looked up in the context, after the command ended. *)
TakeWait ==
  /\ pc \in {"wait", "grace", "last"}
  /\ wait # "pending"
  /\ Return(IF wait = "none" THEN "none"
            ELSE IF expired THEN "timeout" ELSE wait,
            copying = "on")
  /\ UNCHANGED <<spec, tree, code, reaped, copying, wait, expired, killed>>

Exec == Check \/ Start \/ Terminate \/ ForceKill \/ GiveUp \/ TakeWait
-----------------------------------------------------------------------------
(* The goroutine of cmd.Wait and the one that copies. *)

Reap ==
  /\ tree[Root].life = "dead" /\ ~reaped
  /\ reaped' = TRUE
  /\ UNCHANGED <<spec, pc, tree, code, copying, wait, expired, result, killed>>

(* The pipe ends when nobody can write to it.  A failed write to the log    *)
(* ends the copy too; the log is closed when Exec returns.                  *)
CopyEnds ==
  /\ copying = "on"
  /\ \/ Writers = {} /\ copying' = "eof"
     \/ spec.log /\ (LogMayFail \/ pc = "done") /\ copying' = "broken"
  /\ UNCHANGED <<spec, pc, tree, code, reaped, wait, expired, result, killed>>

(* Mutant: WaitDelay, or output that is a file: nobody waits for the copy. *)
WaitReturns_NoCopy ==
  /\ reaped /\ wait = "pending"
  /\ wait' = IF code # 0 THEN "exit" ELSE "none"
  /\ UNCHANGED <<spec, pc, tree, code, reaped, copying, expired, result, killed>>

WaitReturns ==
  /\ reaped /\ copying # "on" /\ wait = "pending"
  /\ wait' = IF code # 0 THEN "exit" ELSE IF copying = "broken" THEN "copy" ELSE "none"
  /\ UNCHANGED <<spec, pc, tree, code, reaped, copying, expired, result, killed>>

Deadline ==
  /\ spec.timeout /\ ~expired /\ pc \notin {"check", "start", "done"}
  /\ expired' = TRUE
  /\ UNCHANGED <<spec, pc, tree, code, reaped, copying, wait, result, killed>>
-----------------------------------------------------------------------------
(* The processes of the command. *)

Fork(p, c) ==
  /\ Alive(p) /\ c # Root /\ tree[c].life = "unborn"
  /\ tree' = [tree EXCEPT ![c] = tree[p]]
  /\ UNCHANGED code

(* setsid, which the leader of a group cannot call; closing the output;     *)
(* catching SIGTERM.                                                        *)
Change(p) ==
  /\ Alive(p)
  /\ \/ p # Root /\ tree[p].group /\ tree' = [tree EXCEPT ![p].group = FALSE]
     \/ tree[p].writes /\ tree' = [tree EXCEPT ![p].writes = FALSE]
     \/ ~tree[p].deaf /\ tree' = [tree EXCEPT ![p].deaf = TRUE]
  /\ UNCHANGED code

Exit(p) ==
  /\ Alive(p)
  /\ tree' = [tree EXCEPT ![p].life = "dead"]
  /\ IF p = Root THEN code' \in {0, 1} ELSE UNCHANGED code

Command ==
  /\ \/ \E p, c \in Members : Fork(p, c)
     \/ \E p \in Members : Change(p) \/ Exit(p)
  /\ UNCHANGED <<spec, pc, reaped, copying, wait, expired, result, killed>>

Next == Exec \/ Reap \/ CopyEnds \/ WaitReturns \/ Deadline \/ Command

(* Go runs a goroutine that can run, and timers fire.  Nothing is assumed   *)
(* of the command.                                                          *)
Fairness ==
  /\ WF_vars(Exec) /\ WF_vars(Deadline)
  /\ WF_vars(Reap) /\ WF_vars(CopyEnds) /\ WF_vars(WaitReturns)

Spec == Init /\ [][Next]_vars /\ Fairness
-----------------------------------------------------------------------------
TypeOK ==
  /\ spec \in CommandSpec
  /\ pc \in {"check", "start", "wait", "grace", "last", "done"}
  /\ tree \in [Members -> Process]
  /\ code \in {0, 1}
  /\ reaped \in BOOLEAN /\ (reaped => tree[Root].life = "dead")
  /\ copying \in {"off", "on", "eof", "broken"}
  /\ wait \in {"pending", "none", "exit", "copy"}
  /\ expired \in BOOLEAN
  /\ result \in Result
  /\ killed \in BOOLEAN

(* A nil error of a command that ran (runner.go:274) means that its leader  *)
(* ended with 0 and that its output is whole.  Only a timeout leaves Exec   *)
(* while capWriter.Write may still run (runner.go:269 then reads a buffer   *)
(* that is being written): every other result comes after the copy.         *)
SuccessIsWhole ==
  /\ (result.err = "none" /\ ~spec.dryRun) =>
       reaped /\ code = 0 /\ copying = "eof" /\ Writers = {}
  /\ result.torn => result.err = "timeout"

(* Once the SIGKILL of forceKillProcessTree went to the group, no process   *)
(* of it lives, those it forked between the two signals included.           *)
KilledTreeIsDead == killed => Group = {}

(* A command with a Timeout returns, whatever it and its children do: the   *)
(* two and five seconds of runner.go:322-328 bound a pipe that never ends.  *)
ExecReturns == (pc = "wait" /\ spec.timeout) ~> pc = "done"
-----------------------------------------------------------------------------
(* runner.go:228: "on timeout/cancel we need to kill the whole process      *)
(* group, not just the immediate child ... where a child can otherwise keep *)
(* running under PID 1 and keep pipes open forever".  It does, when the     *)
(* leader has ended before the deadline: its reaped pid names no group.     *)
TimedOutTreeIsDead == result.err = "timeout" => Group = {}
=============================================================================
