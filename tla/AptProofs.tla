----------------------------- MODULE AptProofs -----------------------------
(* What AptTransaction promises for every number of crashes. *)
EXTENDS AptTransaction, TLAPS

USE AptAssumption

(* From the end of InstallPolicyRcD to the end of the repair or the         *)
(* callback, the helper in place is ours.                                   *)
GuardInv ==
  /\ pc \in ControlPoint
  /\ pc \in DpkgRuns \cup {"audit"} => policy = "ours"

(* dpkg never runs a package script while services may be started, whatever *)
(* fails and wherever the process dies.                                     *)
THEOREM Guarded == Spec => []GuardedWhileDpkgRuns
<1>1. Init => GuardInv
  BY DEF Init, GuardInv, DpkgRuns, ControlPoint
<1>2. GuardInv /\ [Next]_vars => GuardInv'
  <2> SUFFICES ASSUME GuardInv, [Next]_vars PROVE GuardInv'
    OBVIOUS
  <2> USE DEF GuardInv, DpkgRuns, ControlPoint
  <2>1. CASE Begin BY <2>1 DEF Begin
  <2>2. CASE WaitForLocks BY <2>2 DEF WaitForLocks, Ended
  <2>3. CASE Stat BY <2>3 DEF Stat, Ended, Files
  <2>4. CASE Rename BY <2>4 DEF Rename, Ended
  <2>5. CASE Open BY <2>5 DEF Open, WriteFails, Ended
  <2>6. CASE Fill BY <2>6 DEF Fill, WriteFails, Ended
  <2>7. CASE Audit BY <2>7 DEF Audit, Files
  <2>8. CASE Configure BY <2>8 DEF Configure, Files
  <2>9. CASE Fix BY <2>9 DEF Fix, Defer, Files
  <2>10. CASE Reconfigure BY <2>10 DEF Reconfigure, Defer, Files
  <2>11. CASE Callback BY <2>11 DEF Callback, Defer, Files
  <2>12. CASE Restore BY <2>12 DEF Restore, Ended
  <2>13. CASE PutBack BY <2>13 DEF PutBack, Ended
  <2>14. CASE Crash BY <2>14 DEF Crash, Ended
  <2>15. CASE OtherProgram BY <2>15 DEF OtherProgram, Files
  <2>16. CASE UNCHANGED vars BY <2>16 DEF vars
  <2> QED
    BY <2>1, <2>2, <2>3, <2>4, <2>5, <2>6, <2>7, <2>8, <2>9, <2>10, <2>11, <2>12,
       <2>13, <2>14, <2>15, <2>16 DEF Next
<1>3. GuardInv => GuardedWhileDpkgRuns
  BY DEF GuardInv, GuardedWhileDpkgRuns
<1> QED
  BY <1>1, <1>2, <1>3, PTL DEF Spec
-----------------------------------------------------------------------------
(* What a crash leaves behind when it never falls between the opening of    *)
(* the helper and the writing of it: a torn file is only seen by Fill, the  *)
(* host's helper is only moved to the backup, and only ours is removed.     *)
WholeFiles ==
  /\ policy \in Helper /\ backup \in {"none", "theirs"}
  /\ policy = "torn" => pc = "fill"
  /\ pc = "rename" => policy = "theirs"
  /\ pc \in {"open", "put_back"} => policy = "none"
  /\ pc = "fill" => policy = "torn"
  /\ pc \in DpkgRuns \cup {"audit", "restore"} => policy = "ours"

(* On any other host too, what a transaction removes is ours, and what it   *)
(* renames over the backup is the host's helper or an empty one.            *)
KeptInv ==
  /\ pc \in ControlPoint /\ policy \in Helper /\ backup \in Helper
  /\ pc = "rename" => policy \in {"theirs", "torn"}
  /\ pc = "open" => policy = "none"
  /\ pc = "fill" => policy = "torn"
  /\ pc \in DpkgRuns \cup {"audit", "restore"} => policy = "ours"
  /\ pc = "put_back" => policy \in {"none", "ours"}
  /\ sound => (policy = "torn" => pc = "fill") /\ backup # "torn"

LostOnlyToEmpty ==
  ("theirs" \in {policy, backup} /\ "theirs" \notin {policy', backup'}) =>
    ~sound /\ pc = "rename" /\ policy = "torn"

(* The host's helper is never lost but to an empty one that a crash left,   *)
(* on every host and however often the process dies or its files fail.      *)
THEOREM HelperKept == Spec => OriginalKept
<1>1. Init => KeptInv
  BY DEF Init, KeptInv, DpkgRuns, ControlPoint, Helper
<1>2. KeptInv /\ [Next]_vars => KeptInv' /\ [LostOnlyToEmpty]_vars
  <2> SUFFICES ASSUME KeptInv, [Next]_vars PROVE KeptInv' /\ LostOnlyToEmpty
    OBVIOUS
  <2> USE DEF KeptInv, LostOnlyToEmpty, DpkgRuns, ControlPoint, Helper, History, Files
  <2>1. CASE Begin BY <2>1 DEF Begin
  <2>2. CASE WaitForLocks BY <2>2 DEF WaitForLocks, Ended
  <2>3. CASE Stat BY <2>3 DEF Stat, Ended
  <2>4. CASE Rename BY <2>4 DEF Rename, Ended
  <2>5. CASE Open BY <2>5 DEF Open, WriteFails, Ended
  <2>6. CASE Fill BY <2>6 DEF Fill, WriteFails, Ended
  <2>7. CASE Audit BY <2>7 DEF Audit
  <2>8. CASE Configure BY <2>8 DEF Configure
  <2>9. CASE Fix BY <2>9 DEF Fix, Defer
  <2>10. CASE Reconfigure BY <2>10 DEF Reconfigure, Defer
  <2>11. CASE Callback BY <2>11 DEF Callback, Defer
  <2>12. CASE Restore BY <2>12 DEF Restore, Ended
  <2>13. CASE PutBack BY <2>13 DEF PutBack, Ended
  <2>14. CASE Crash BY <2>14 DEF Crash, Ended
  <2>15. CASE OtherProgram BY <2>15 DEF OtherProgram
  <2>16. CASE UNCHANGED vars BY <2>16 DEF vars
  <2> QED
    BY <2>1, <2>2, <2>3, <2>4, <2>5, <2>6, <2>7, <2>8, <2>9, <2>10, <2>11, <2>12,
       <2>13, <2>14, <2>15, <2>16 DEF Next
<1> QED
  BY <1>1, <1>2, PTL DEF Spec, OriginalKept, LostOnlyToEmpty
-----------------------------------------------------------------------------
(* The remaining facts need what no single one of them says: between two    *)
(* repairs of dpkg it is sound, a backup that is about to be made is not of *)
(* ours, and where the host's helper is depends on the kind of the guard.   *)
Repaired == pc = "fix" => dpkg = "ok"

NotOurs == pc = "rename" => policy # "ours"

(* Without a crash the guard knows what it took away. *)
Undisturbed ==
  /\ pc \in {"idle", "wait", "stat"} => policy = found /\ backup = "none"
  /\ pc = "rename" => kind = "backed_up" /\ policy = found /\ backup = "none"
  /\ pc \notin {"idle", "wait", "stat", "rename"} =>
       \/ kind = "backed_up" /\ backup = found
       \/ kind = "created" /\ backup = "none" /\ found = "none"
  /\ pc = "put_back" => kind = "backed_up"

(* A host without a helper has none to back up; what a crash leaves there   *)
(* is ours, and the next transaction removes it whatever it takes it for.   *)
Bare ==
  /\ policy # "theirs" /\ backup = "none" /\ kind # "backed_up"
  /\ pc \notin {"rename", "put_back"}
  /\ (pc = "idle" /\ last \in {"ok", "failed"}) => policy = "none"

AptInv ==
  /\ TypeOK /\ Repaired /\ NotOurs
  /\ sound => WholeFiles
  /\ (sound /\ crashes = 0) => Undisturbed
  /\ (sound /\ found = "none") => Bare

(* The callback is only entered with a sound dpkg, or unaudited. *)
SoundEntry ==
  (pc # "callback" /\ pc' = "callback" /\ last' # "unaudited") => dpkg' = "ok"

LEMMA AptInit == Init => AptInv
  BY DEF Init, AptInv, TypeOK, Repaired, NotOurs, WholeFiles, Undisturbed, Bare,
         DpkgRuns, ControlPoint, Helper

LEMMA AptStep == AptInv /\ [Next]_vars => AptInv' /\ SoundEntry
<1> SUFFICES ASSUME AptInv, [Next]_vars PROVE AptInv' /\ SoundEntry
  OBVIOUS
<1> USE DEF AptInv, TypeOK, Repaired, NotOurs, WholeFiles, Undisturbed, Bare, SoundEntry,
            DpkgRuns, ControlPoint, Helper, History, Files
<1>1. CASE Begin BY <1>1 DEF Begin
<1>2. CASE WaitForLocks BY <1>2 DEF WaitForLocks, Ended
<1>3. CASE Stat BY <1>3 DEF Stat, Ended
<1>4. CASE Rename BY <1>4 DEF Rename, Ended
<1>5. CASE Open BY <1>5 DEF Open, WriteFails, Ended
<1>6. CASE Fill BY <1>6 DEF Fill, WriteFails, Ended
<1>7. CASE Audit BY <1>7 DEF Audit
<1>8. CASE Configure BY <1>8 DEF Configure
<1>9. CASE Fix BY <1>9 DEF Fix, Defer
<1>10. CASE Reconfigure BY <1>10 DEF Reconfigure, Defer
<1>11. CASE Callback BY <1>11 DEF Callback, Defer
<1>12. CASE Restore BY <1>12 DEF Restore, Ended, RestoreError
<1>13. CASE PutBack BY <1>13 DEF PutBack, Ended, RestoreError
<1>14. CASE Crash BY <1>14 DEF Crash, Ended
<1>15. CASE OtherProgram BY <1>15 DEF OtherProgram
<1>16. CASE UNCHANGED vars BY <1>16 DEF vars
<1> QED
  BY <1>1, <1>2, <1>3, <1>4, <1>5, <1>6, <1>7, <1>8,
     <1>9, <1>10, <1>11, <1>12, <1>13, <1>14, <1>15, <1>16 DEF Next

LEMMA AptInvariant == Spec => []AptInv
  BY AptInit, AptStep, PTL DEF Spec

(* Types; a helper of ours is never kept as the backup of the host's.       *)
THEOREM AptTypeCorrect == Spec => []TypeOK
<1>1. AptInv => TypeOK
  BY DEF AptInv
<1> QED
  BY <1>1, AptInvariant, PTL

(* Whichever of the two repairs failed first, the caller's commands start   *)
(* from a dpkg that was found sound or repaired (transaction.go:94).        *)
THEOREM CallbackIsSound == Spec => CallbackOnSoundDpkg
<1>1. AptInv /\ [Next]_vars => [SoundEntry]_vars
  BY AptStep
<1> QED
  BY <1>1, AptInvariant, PTL DEF Spec, CallbackOnSoundDpkg, SoundEntry

(* Without a crash every transaction that got as far as dpkg leaves the     *)
(* helper of the host as it was (policy_rc_d.go:109).                       *)
THEOREM FoundAsLeft == Spec => []AsFoundUnlessCrashed
<1>1. AptInv => AsFoundUnlessCrashed
  BY DEF AptInv, Undisturbed, AsFoundUnlessCrashed, AsFoundWhenDone
<1> QED
  BY <1>1, AptInvariant, PTL

(* A host without a helper has none after the first transaction that ends,  *)
(* however many died before it.                                             *)
THEOREM NoneLeft == Spec => []NothingLeftBehind
<1>1. AptInv => NothingLeftBehind
  BY DEF AptInv, Bare, TypeOK, NothingLeftBehind, AsFoundWhenDone
<1> QED
  BY <1>1, AptInvariant, PTL
=============================================================================
