---------------------------- MODULE RunnerProofs ----------------------------
(***************************************************************************)
(* Theorems about CommandRunner, for a command with any number of          *)
(* processes.                                                              *)
(***************************************************************************)
EXTENDS CommandRunner, TLAPS

RootIn == Root \in Members
LEMMA RootIsMember == RootIn
BY DEF RootIn, Members

(* A signal changes nothing about a process but its life, and the exit code *)
(* only with the life of the leader.                                        *)
LEMMA StruckEffect ==
  ASSUME TypeOK, NEW sig, NEW targets \in SUBSET Members, Struck(sig, targets)
  PROVE  /\ tree' \in [Members -> Process] /\ code' \in {0, 1}
         /\ \A p \in Members : tree'[p] = tree[p] \/ (Alive(p) /\ tree'[p].life = "dead")
         /\ \A p \in Members : tree[p].life # "alive" => tree'[p] = tree[p]
         /\ (sig = "KILL" => \A p \in targets : ~(tree'[p].life = "alive"))
         /\ (~Alive(Root) => code' = code)
<1> USE RootIsMember DEF TypeOK, Struck, Alive, Process, RootIn
<1> DEFINE dead == {p \in targets : Alive(p) /\ (sig = "KILL" \/ ~tree[p].deaf)}
<1>1. tree' = [p \in Members |-> IF p \in dead THEN [tree[p] EXCEPT !.life = "dead"] ELSE tree[p]]
  OBVIOUS
<1>2. code' = IF Root \in dead THEN 1 ELSE code
  OBVIOUS
<1>3. ASSUME NEW p \in Members
      PROVE  /\ tree'[p] \in Process
             /\ tree'[p] = tree[p] \/ (Alive(p) /\ tree'[p].life = "dead")
             /\ tree[p].life # "alive" => tree'[p] = tree[p]
             /\ (sig = "KILL" /\ p \in targets) => ~(tree'[p].life = "alive")
  <2>1. tree[p] \in Process
    OBVIOUS
  <2>2. CASE p \in dead
    BY <1>1, <2>1, <2>2
  <2>3. CASE p \notin dead
    BY <1>1, <2>1, <2>3
  <2> QED
    BY <2>2, <2>3
<1> QED
  BY <1>1, <1>2, <1>3

LEMMA SignalEffect ==
  ASSUME TypeOK, NEW sig \in {"TERM", "KILL"}, SignalProcessGroup(sig)
  PROVE  /\ tree' \in [Members -> Process] /\ code' \in {0, 1}
         /\ \A p \in Members : tree'[p] = tree[p] \/ (Alive(p) /\ tree'[p].life = "dead")
         /\ \A p \in Members : tree[p].life # "alive" => tree'[p] = tree[p]
         /\ (sig = "KILL" /\ ~reaped) => \A p \in Group : ~(tree'[p].life = "alive")
         /\ (~Alive(Root) => code' = code)
<1>1. CASE reaped
  BY <1>1 DEF SignalProcessGroup, TypeOK
<1>2. CASE ~reaped
  <2>1. Struck(sig, Group)
    BY <1>2 DEF SignalProcessGroup
  <2>2. Group \in SUBSET Members
    BY DEF Group
  <2> QED
    BY <1>2, <2>1, <2>2, StruckEffect
<1> QED
  BY <1>1, <1>2
-----------------------------------------------------------------------------
(* Before Start there is no process; a tree that cannot write any more      *)
(* never can again; what Wait has sent stays true; a tree that was killed   *)
(* stays dead.                                                              *)
NotYet ==
  pc \in {"check", "start"} =>
     /\ \A p \in Members : tree[p].life = "unborn"
     /\ copying = "off" /\ ~reaped /\ wait = "pending" /\ ~killed

OutputEnded == copying = "eof" => Writers = {}

WaitIsTrue ==
  /\ wait # "pending" => reaped /\ copying # "on"
  /\ wait = "none" => code = 0 /\ copying = "eof"
  /\ reaped => copying # "off"

RunnerInv ==
  /\ TypeOK /\ NotYet /\ OutputEnded /\ WaitIsTrue /\ SuccessIsWhole /\ KilledTreeIsDead
  /\ (copying = "off" <=> tree[Root].life = "unborn")

LEMMA RunnerInit == Init => RunnerInv
<1> SUFFICES ASSUME Init PROVE RunnerInv
  OBVIOUS
<1> USE RootIsMember DEF Init, RootIn
<1>1. tree \in [Members -> Process] /\ \A p \in Members : tree[p].life = "unborn"
  BY DEF Unborn, Process
<1>2. TypeOK
  BY <1>1 DEF TypeOK, Result
<1> QED
  BY <1>1, <1>2 DEF RunnerInv, NotYet, OutputEnded, WaitIsTrue, SuccessIsWhole,
                    KilledTreeIsDead, Writers, Group, Alive
-----------------------------------------------------------------------------
(* Steps that touch no process. *)
LEMMA CallerStep ==
  ASSUME RunnerInv, Check \/ GiveUp \/ TakeWait \/ Reap \/ CopyEnds \/ WaitReturns \/ Deadline
  PROVE  RunnerInv'
<1> USE RootIsMember DEF RootIn
<1>0. tree' = tree /\ code' = code /\ killed' = killed /\ spec' = spec
  BY DEF Check, GiveUp, TakeWait, Reap, CopyEnds, WaitReturns, Deadline, Return
<1>1. Writers' = Writers /\ Group' = Group
  BY <1>0 DEF Writers, Group, Alive
<1>2. CASE Check
  <2>1. /\ \/ pc' = "start" /\ result' = result
           \/ pc' = "done" /\ result' = [err |-> "refused", torn |-> FALSE]
           \/ pc' = "done" /\ result' = [err |-> "none", torn |-> FALSE] /\ spec.dryRun
        /\ pc = "check"
        /\ UNCHANGED <<reaped, copying, wait, expired>>
    BY <1>2 DEF Check, Return
  <2>2. result \in Result
    BY DEF RunnerInv, TypeOK
  <2>3. /\ [err |-> "refused", torn |-> FALSE] \in Result
        /\ [err |-> "none", torn |-> FALSE] \in Result
    BY DEF Result
  <2>4. TypeOK'
    BY <1>0, <2>1, <2>2, <2>3 DEF RunnerInv, TypeOK
  <2>5. SuccessIsWhole'
    BY <1>0, <1>1, <2>1 DEF RunnerInv, SuccessIsWhole
  <2> QED
    BY <1>0, <1>1, <2>1, <2>4, <2>5 DEF RunnerInv, NotYet, OutputEnded, WaitIsTrue,
       KilledTreeIsDead
<1>3. CASE GiveUp
  BY <1>0, <1>1, <1>3 DEF GiveUp, Return, RunnerInv, TypeOK, Result, NotYet, OutputEnded,
     WaitIsTrue, SuccessIsWhole, KilledTreeIsDead
<1>4. CASE TakeWait
  <2>1. /\ copying # "on" /\ wait # "pending"
        /\ pc' = "done" /\ pc \in {"wait", "grace", "last"}
        /\ UNCHANGED <<reaped, copying, wait, expired>>
    BY <1>4 DEF TakeWait, Return, RunnerInv, WaitIsTrue
  <2>2. PICK e \in {"none", "timeout", "exit", "copy"} :
           result' = [err |-> e, torn |-> copying = "on"] /\ (e = "none" => wait = "none")
    BY <1>4 DEF TakeWait, Return, RunnerInv, TypeOK
  <2>3. result' \in Result /\ result'.err = e /\ ~result'.torn
    BY <2>1, <2>2 DEF Result
  <2>4. TypeOK'
    BY <1>0, <2>1, <2>3 DEF RunnerInv, TypeOK
  <2>5. SuccessIsWhole'
    BY <1>0, <1>1, <2>1, <2>2, <2>3 DEF RunnerInv, WaitIsTrue, OutputEnded, SuccessIsWhole
  <2> QED
    BY <1>0, <1>1, <2>1, <2>4, <2>5 DEF RunnerInv, NotYet, OutputEnded, WaitIsTrue,
       KilledTreeIsDead
<1>5. CASE Reap
  BY <1>0, <1>1, <1>5 DEF Reap, RunnerInv, TypeOK, NotYet, OutputEnded,
     WaitIsTrue, SuccessIsWhole, KilledTreeIsDead
<1>6. CASE CopyEnds
  BY <1>0, <1>1, <1>6 DEF CopyEnds, RunnerInv, TypeOK, NotYet, OutputEnded,
     WaitIsTrue, SuccessIsWhole, KilledTreeIsDead
<1>7. CASE WaitReturns
  BY <1>0, <1>1, <1>7 DEF WaitReturns, RunnerInv, TypeOK, NotYet, OutputEnded,
     WaitIsTrue, SuccessIsWhole, KilledTreeIsDead
<1>8. CASE Deadline
  BY <1>0, <1>1, <1>8 DEF Deadline, RunnerInv, TypeOK, NotYet, OutputEnded,
     WaitIsTrue, SuccessIsWhole, KilledTreeIsDead
<1> QED
  BY <1>2, <1>3, <1>4, <1>5, <1>6, <1>7, <1>8

LEMMA StartStep == RunnerInv /\ Start => RunnerInv'
<1> SUFFICES ASSUME RunnerInv, Start PROVE RunnerInv'
  OBVIOUS
<1> USE RootIsMember DEF RootIn, RunnerInv, TypeOK, Start
<1>1. CASE pc' = "done"
  <2>1. tree' = tree /\ copying' = copying /\ result' = [err |-> "exit", torn |-> FALSE]
    BY <1>1 DEF Return
  <2> QED
    BY <1>1, <2>1 DEF Return, Result, NotYet, OutputEnded, WaitIsTrue, SuccessIsWhole,
       KilledTreeIsDead, Writers, Group, Alive
<1>2. CASE pc' = "wait"
  <2>1. /\ tree' = [tree EXCEPT ![Root] = [life |-> "alive", group |-> TRUE,
                                           writes |-> TRUE, deaf |-> FALSE]]
        /\ copying' = "on" /\ result' = result
    BY <1>2 DEF Return
  <2>2. tree' \in [Members -> Process] /\ tree'[Root].life = "alive"
    BY <2>1 DEF Process
  <2> QED
    BY <1>2, <2>1, <2>2 DEF NotYet, OutputEnded, WaitIsTrue, SuccessIsWhole,
       KilledTreeIsDead
<1> QED
  BY <1>1, <1>2 DEF Return
-----------------------------------------------------------------------------
(* Steps of the processes, and signals: no process starts to write or joins *)
(* the group but as the child of one that did.                              *)
LEMMA TreeStep ==
  ASSUME RunnerInv, tree' \in [Members -> Process], code' \in {0, 1},
         Writers' # {} => Writers # {},
         Group' # {} => Group # {},
         tree[Root].life # "alive" => tree'[Root] = tree[Root] /\ code' = code,
         tree[Root].life = "alive" => tree'[Root].life \in {"alive", "dead"},
         \A p \in Members : tree[p].life = "unborn" \/ tree'[p].life # "unborn",
         killed' \in BOOLEAN, killed' => Group' = {},
         pc \in {"check", "start"} => tree' = tree /\ ~killed',
         pc' \in {"check", "start", "wait", "grace", "last", "done"},
         pc' \in {"check", "start"} => pc' = pc,
         UNCHANGED <<spec, reaped, copying, wait, expired, result>>
  PROVE  RunnerInv'
<1> USE RootIsMember DEF RootIn, RunnerInv
<1>1. TypeOK'
  BY DEF TypeOK
<1>2. NotYet'
  BY DEF NotYet
<1>3. OutputEnded'
  BY DEF OutputEnded
<1>4. reaped => code' = code
  BY DEF TypeOK
<1>5. WaitIsTrue'
  BY <1>4 DEF WaitIsTrue
<1>6. SuccessIsWhole'
  BY <1>4 DEF SuccessIsWhole
<1>7. KilledTreeIsDead'
  BY DEF KilledTreeIsDead
<1>8. (copying = "off" <=> tree[Root].life = "unborn")'
  <2>1. tree[Root].life \in {"unborn", "alive", "dead"}
    BY DEF TypeOK, Process
  <2> QED
    BY <2>1
<1> QED
  BY <1>1, <1>2, <1>3, <1>5, <1>6, <1>7, <1>8

LEMMA SignalStep == RunnerInv /\ (Terminate \/ ForceKill) => RunnerInv'
<1> SUFFICES ASSUME RunnerInv, Terminate \/ ForceKill PROVE RunnerInv'
  OBVIOUS
<1> USE RootIsMember DEF RootIn
<1>1. PICK sig \in {"TERM", "KILL"} : SignalProcessGroup(sig)
  BY DEF Terminate, ForceKill
<1>2. TypeOK
  BY DEF RunnerInv
<1>3. /\ tree' \in [Members -> Process] /\ code' \in {0, 1}
      /\ \A p \in Members : tree'[p] = tree[p] \/ (Alive(p) /\ tree'[p].life = "dead")
      /\ \A p \in Members : tree[p].life # "alive" => tree'[p] = tree[p]
      /\ (sig = "KILL" /\ ~reaped) => \A p \in Group : ~(tree'[p].life = "alive")
      /\ (~Alive(Root) => code' = code)
  BY <1>1, <1>2, SignalEffect
<1>4. Writers' \subseteq Writers /\ Group' \subseteq Group
  BY <1>3 DEF Writers, Group, Alive
<1>5. killed' = (killed \/ (sig = "KILL" /\ ~reaped))
  BY <1>1 DEF SignalProcessGroup
<1>6. killed' => Group' = {}
  <2>1. CASE killed
    BY <2>1, <1>4 DEF RunnerInv, KilledTreeIsDead
  <2>2. CASE sig = "KILL" /\ ~reaped
    <3>1. ASSUME NEW p \in Members, p \in Group' PROVE FALSE
      <4>1. p \in Group /\ tree'[p].life = "alive"
        BY <3>1, <1>4 DEF Group, Alive
      <4> QED
        BY <4>1, <2>2, <1>3
    <3> QED
      BY <3>1 DEF Group
  <2> QED
    BY <1>5, <2>1, <2>2
<1>7. killed' \in BOOLEAN
  BY <1>2, <1>5 DEF TypeOK
<1>8. /\ pc' \in {"grace", "last"} /\ pc \in {"wait", "grace"}
      /\ UNCHANGED <<spec, reaped, copying, wait, expired, result>>
  BY DEF Terminate, ForceKill
<1>9. /\ tree[Root].life # "alive" => tree'[Root] = tree[Root] /\ code' = code
      /\ tree[Root].life = "alive" => tree'[Root].life \in {"alive", "dead"}
      /\ \A p \in Members : tree[p].life = "unborn" \/ tree'[p].life # "unborn"
  BY <1>3 DEF Alive
<1> QED
  BY <1>3, <1>4, <1>6, <1>7, <1>8, <1>9, TreeStep

LEMMA CommandStep == RunnerInv /\ Command => RunnerInv'
<1> SUFFICES ASSUME RunnerInv, Command PROVE RunnerInv'
  OBVIOUS
<1> USE RootIsMember DEF RootIn
<1>0. /\ UNCHANGED <<spec, pc, reaped, copying, wait, expired, result, killed>>
      /\ tree \in [Members -> Process] /\ code \in {0, 1}
      /\ pc \in {"check", "start", "wait", "grace", "last", "done"}
      /\ killed \in BOOLEAN /\ KilledTreeIsDead
      /\ pc \in {"check", "start"} => (\A p \in Members : ~Alive(p)) /\ ~killed
  BY DEF Command, RunnerInv, TypeOK, NotYet, Alive
<1> DEFINE Good ==
      /\ tree' \in [Members -> Process] /\ code' \in {0, 1}
      /\ Writers' # {} => Writers # {}
      /\ Group' # {} => Group # {}
      /\ tree[Root].life # "alive" => tree'[Root] = tree[Root] /\ code' = code
      /\ tree[Root].life = "alive" => tree'[Root].life \in {"alive", "dead"}
      /\ \A p \in Members : tree[p].life = "unborn" \/ tree'[p].life # "unborn"
      /\ \E p \in Members : Alive(p)
<1>1. ASSUME NEW p \in Members, NEW c \in Members, Fork(p, c) PROVE Good
  <2>1. tree' = [tree EXCEPT ![c] = tree[p]] /\ c # Root /\ Alive(p) /\ code' = code
    BY <1>1 DEF Fork
  <2>2. tree' \in [Members -> Process]
    BY <2>1, <1>0
  <2>3. (\A q \in Members \ {c} : tree'[q] = tree[q]) /\ tree'[c] = tree[p]
    BY <2>1, <1>0
  <2>4. (Writers' # {} => Writers # {}) /\ (Group' # {} => Group # {})
    BY <2>3 DEF Writers, Group, Alive
  <2> QED
    BY <1>0, <2>1, <2>2, <2>3, <2>4 DEF Alive
<1>2. ASSUME NEW p \in Members, Change(p) PROVE Good
  <2>1. /\ Alive(p) /\ code' = code
        /\ \/ tree' = [tree EXCEPT ![p].group = FALSE]
           \/ tree' = [tree EXCEPT ![p].writes = FALSE]
           \/ ~tree[p].deaf /\ tree' = [tree EXCEPT ![p].deaf = TRUE]
    BY <1>2 DEF Change
  <2>2. tree[p] \in Process
    BY <1>0
  <2>3. /\ tree' \in [Members -> Process]
        /\ \A q \in Members \ {p} : tree'[q] = tree[q]
        /\ tree'[p].life = tree[p].life
        /\ tree'[p].writes => tree[p].writes
        /\ tree'[p].group => tree[p].group
    <3>1. CASE tree' = [tree EXCEPT ![p].group = FALSE]
      BY <1>0, <2>2, <3>1 DEF Process
    <3>2. CASE tree' = [tree EXCEPT ![p].writes = FALSE]
      BY <1>0, <2>2, <3>2 DEF Process
    <3>3. CASE tree' = [tree EXCEPT ![p].deaf = TRUE]
      BY <1>0, <2>2, <3>3 DEF Process
    <3> QED
      BY <2>1, <3>1, <3>2, <3>3
  <2>4. Writers' \subseteq Writers /\ Group' \subseteq Group
    BY <2>3 DEF Writers, Group, Alive
  <2> QED
    BY <1>0, <2>1, <2>3, <2>4 DEF Alive
<1>3. ASSUME NEW p \in Members, Exit(p) PROVE Good
  <2>1. /\ Alive(p) /\ tree' = [tree EXCEPT ![p].life = "dead"]
        /\ code' \in {0, 1} /\ (p # Root => code' = code)
    BY <1>0, <1>3 DEF Exit
  <2>2. /\ tree' \in [Members -> Process]
        /\ \A q \in Members \ {p} : tree'[q] = tree[q]
        /\ tree'[p].life = "dead"
    BY <1>0, <2>1 DEF Process
  <2>3. Writers' \subseteq Writers /\ Group' \subseteq Group
    BY <2>2 DEF Writers, Group, Alive
  <2> QED
    BY <1>0, <2>1, <2>2, <2>3 DEF Alive
<1>4. Good
  BY <1>1, <1>2, <1>3 DEF Command
<1>5. pc \notin {"check", "start"}
  BY <1>0, <1>4
<1>6. killed' => Group' = {}
  BY <1>0, <1>4 DEF KilledTreeIsDead
<1> QED
  BY <1>0, <1>4, <1>5, <1>6, TreeStep

LEMMA RunnerStep == RunnerInv /\ [Next]_vars => RunnerInv'
<1> SUFFICES ASSUME RunnerInv, [Next]_vars PROVE RunnerInv'
  OBVIOUS
<1>1. CASE UNCHANGED vars
  BY <1>1 DEF vars, RunnerInv, TypeOK, NotYet, OutputEnded, WaitIsTrue, SuccessIsWhole,
     KilledTreeIsDead, Writers, Group, Alive
<1> QED
  BY <1>1, CallerStep, StartStep, SignalStep, CommandStep DEF Next, Exec
-----------------------------------------------------------------------------
(* Types, and that a pid is only forgotten when its process has ended.      *)
THEOREM RunnerTypeCorrect == Spec => []TypeOK
<1>1. RunnerInv => TypeOK
  BY DEF RunnerInv
<1> QED
  BY <1>1, RunnerInit, RunnerStep, PTL DEF Spec

(* A nil error is only returned for a command whose leader ended with 0 and *)
(* whose output was copied to its end, however the deadline, the signals    *)
(* and the exits of its processes interleave; and only a timeout returns    *)
(* while the copy goes on.                                                  *)
THEOREM SuccessIsReal == Spec => []SuccessIsWhole
<1>1. RunnerInv => SuccessIsWhole
  BY DEF RunnerInv
<1> QED
  BY <1>1, RunnerInit, RunnerStep, PTL DEF Spec

(* After the SIGKILL nothing of the group is alive, for any number of       *)
(* processes that fork while they are being killed.                         *)
THEOREM KillIsComplete == Spec => []KilledTreeIsDead
<1>1. RunnerInv => KilledTreeIsDead
  BY DEF RunnerInv
<1> QED
  BY <1>1, RunnerInit, RunnerStep, PTL DEF Spec
=============================================================================
