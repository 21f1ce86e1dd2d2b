--------------------------- MODULE AptTransaction ---------------------------
(***************************************************************************)
(* internal/apt: a transaction waits for the dpkg locks, puts a policy     *)
(* helper that forbids service starts in place of whatever the host has,   *)
(* repairs dpkg, runs the caller's apt commands and puts the host's helper *)
(* back.  One transaction at a time: the process lock sees to that.        *)
(***************************************************************************)
EXTENDS Naturals

CONSTANT MaxCrashes   \* bound: deaths of the process

ControlPoint ==
  {"idle", "wait", "stat", "rename", "open", "fill", "audit", "configure", "fix",
   "fix_first", "reconfigure", "callback", "restore", "put_back"}

ASSUME AptAssumption == MaxCrashes \in Nat

VARIABLES
  policy,   \* /usr/sbin/policy-rc.d
  backup,   \* policy-rc.d.clouddeploy-backup
  dpkg,     \* "ok", "half" (configured), "broken" (dependencies missing)
  other,    \* whether another program holds a dpkg or apt lock
  pc,
  kind,     \* GuardKind
  last,     \* how the last transaction ended
  found,    \* the helper the host had at first
  sound,    \* whether file operations on this host succeed, and happen as a whole
  crashes

vars == <<policy, backup, dpkg, other, pc, kind, last, found, sound, crashes>>

(* "torn" is a file that was opened, and so emptied, but not filled. *)
Helper == {"none", "theirs", "ours", "torn"}
-----------------------------------------------------------------------------
Init ==
  /\ policy \in {"none", "theirs"} /\ found = policy
  /\ backup = "none"
  /\ sound \in BOOLEAN
  /\ dpkg \in {"ok", "half", "broken"}
  /\ other \in BOOLEAN
  /\ pc = "idle"
  /\ kind = "created"
  /\ last = "none"
  /\ crashes = 0

History == UNCHANGED <<found, sound, crashes>>
Files == UNCHANGED <<policy, backup>>

Ended(result) == pc' = "idle" /\ last' = result

Begin ==
  /\ pc = "idle" /\ pc' = "wait"
  /\ UNCHANGED <<dpkg, other, kind, last>> /\ Files /\ History

(* waitForLocks gives up after LockWait; nothing was touched by then. *)
WaitForLocks ==
  /\ pc = "wait"
  /\ IF other THEN Ended("refused") ELSE pc' = "stat" /\ UNCHANGED last
  /\ UNCHANGED <<dpkg, other, kind>> /\ Files /\ History

(* Mutant: whatever is there is taken for ours. *)
Stat_AnyIsOurs ==
  /\ pc = "stat"
  /\ IF policy = "none" THEN kind' = "created" /\ pc' = "open"
                        ELSE kind' = "adopted" /\ pc' = "audit"
  /\ UNCHANGED <<dpkg, other, last>> /\ Files /\ History

(* Mutant: the marker is not looked for; a stale helper of ours is kept as  *)
(* if it was the host's.                                                    *)
Stat_NoMarker ==
  /\ pc = "stat"
  /\ IF policy = "none" THEN kind' = "created" /\ pc' = "open"
                        ELSE kind' = "backed_up" /\ pc' = "rename"
  /\ UNCHANGED <<dpkg, other, last>> /\ Files /\ History

(* InstallPolicyRcD: ours is known by its marker, so an empty file is       *)
(* somebody else's.                                                         *)
Stat ==
  /\ pc = "stat"
  /\ \/ /\ CASE policy = "none" -> kind' = "created" /\ pc' = "open"
            [] policy = "ours" -> kind' = "adopted" /\ pc' = "audit"
            [] OTHER -> kind' = "backed_up" /\ pc' = "rename"
        /\ UNCHANGED last
     \/ ~sound /\ Ended("guard_error") /\ UNCHANGED kind
  /\ UNCHANGED <<dpkg, other>> /\ Files /\ History

(* Mutant: a copy is forgotten; the helper is simply overwritten. *)
Rename_Overwrites ==
  /\ pc = "rename" /\ pc' = "open"
  /\ UNCHANGED <<dpkg, other, kind, last>> /\ Files /\ History

(* os.Rename replaces a backup that is there already. *)
Rename ==
  /\ pc = "rename"
  /\ \/ backup' = policy /\ policy' = "none" /\ pc' = "open" /\ UNCHANGED last
     \/ ~sound /\ Ended("guard_error") /\ Files
  /\ UNCHANGED <<dpkg, other, kind>> /\ History

(* A failing WriteFile: the backup is renamed back, which may fail as well. *)
WriteFails ==
  /\ ~sound /\ Ended("guard_error")
  /\ \/ kind = "backed_up" /\ policy' = backup /\ backup' = "none"
     \/ Files

Open ==
  /\ pc = "open"
  /\ \/ policy' = "torn" /\ pc' = "fill" /\ UNCHANGED <<backup, last>>
     \/ WriteFails
  /\ UNCHANGED <<dpkg, other, kind>> /\ History

Fill ==
  /\ pc = "fill"
  /\ \/ policy' = "ours" /\ pc' = "audit" /\ UNCHANGED <<backup, last>>
     \/ WriteFails
  /\ UNCHANGED <<dpkg, other, kind>> /\ History
-----------------------------------------------------------------------------
(* Whatever happens from here on, the deferred Restore runs. *)
Defer(result) == pc' = "restore" /\ last' = result

(* RepairIfNeeded.  An audit that cannot be run does not block. *)
Audit ==
  /\ pc = "audit"
  /\ \/ pc' = (IF dpkg = "ok" THEN "callback" ELSE "configure") /\ UNCHANGED last
     \/ pc' = "callback" /\ last' = "unaudited"
  /\ UNCHANGED <<dpkg, other, kind>> /\ Files /\ History

(* dpkg --configure -a finishes half-configured packages, not those whose  *)
(* dependencies are missing.                                                *)
Configure ==
  /\ pc = "configure"
  /\ \/ dpkg = "half" /\ ~other /\ dpkg' = "ok" /\ pc' = "fix"
     \/ pc' = "fix_first" /\ UNCHANGED dpkg
  /\ UNCHANGED <<other, kind, last>> /\ Files /\ History

(* Mutant: configure is not tried again, and its failure is forgotten. *)
Fix_NoRetry ==
  /\ pc \in {"fix", "fix_first"}
  /\ \/ /\ ~other /\ dpkg' \in (IF dpkg = "broken" THEN {"half", "ok"} ELSE {dpkg})
        /\ pc' = "callback" /\ UNCHANGED last
     \/ Defer("failed") /\ UNCHANGED dpkg
  /\ UNCHANGED <<other, kind>> /\ Files /\ History

(* apt-get -f install, after configure or, if that failed, before a retry. *)
Fix ==
  /\ pc \in {"fix", "fix_first"}
  /\ \/ /\ ~other /\ dpkg' \in (IF dpkg = "broken" THEN {"half", "ok"} ELSE {dpkg})
        /\ pc' = (IF pc = "fix" THEN "callback" ELSE "reconfigure") /\ UNCHANGED last
     \/ Defer("failed") /\ UNCHANGED dpkg
  /\ UNCHANGED <<other, kind>> /\ Files /\ History

Reconfigure ==
  /\ pc = "reconfigure"
  /\ \/ ~other /\ dpkg' = "ok" /\ pc' = "callback" /\ UNCHANGED last
     \/ Defer("failed") /\ UNCHANGED dpkg
  /\ UNCHANGED <<other, kind>> /\ Files /\ History

(* The caller's apt commands; one of them may fail at any package. *)
Callback ==
  /\ pc = "callback"
  /\ \/ ~other /\ dpkg = "ok" /\ Defer("ok") /\ UNCHANGED dpkg
     \/ Defer("failed") /\ dpkg' \in {dpkg, "half", "broken"}
  /\ UNCHANGED <<other, kind>> /\ Files /\ History

(* An error of Restore shows only when nothing failed before. *)
RestoreError == IF last = "ok" THEN "restore_error" ELSE last

(* Mutant: ours is removed, and a backup is not put back. *)
Restore_OnlyRemoves ==
  /\ pc = "restore"
  /\ policy' = "none" /\ Ended(last)
  /\ UNCHANGED <<backup, dpkg, other, kind>> /\ History

(* Mutant: an adopted helper is taken to belong to the host. *)
Restore_KeepsAdopted ==
  /\ pc = "restore"
  /\ policy' = (IF kind = "adopted" THEN policy ELSE "none")
  /\ IF kind = "backed_up" THEN pc' = "put_back" /\ UNCHANGED last ELSE Ended(last)
  /\ UNCHANGED <<backup, dpkg, other, kind>> /\ History

(* Guard.Restore: for a backed-up helper an error of Remove is ignored. *)
Restore ==
  /\ pc = "restore"
  /\ \/ policy' = "none"
     \/ ~sound /\ UNCHANGED policy
  /\ IF kind = "backed_up"
       THEN pc' = "put_back" /\ UNCHANGED last
       ELSE Ended(IF policy' = "none" THEN last ELSE RestoreError)
  /\ UNCHANGED <<backup, dpkg, other, kind>> /\ History

PutBack ==
  /\ pc = "put_back"
  /\ \/ backup # "none" /\ policy' = backup /\ backup' = "none" /\ Ended(last)
     \/ (~sound \/ backup = "none") /\ Ended(RestoreError) /\ Files
  /\ UNCHANGED <<dpkg, other, kind>> /\ History
-----------------------------------------------------------------------------
DpkgRuns == {"configure", "fix", "fix_first", "reconfigure", "callback"}

(* A kill, a power loss, a panic of the host; apt may be in the middle of   *)
(* packages.                                                                *)
Crash ==
  /\ pc # "idle" /\ (sound => pc # "fill")
  /\ crashes < MaxCrashes /\ crashes' = crashes + 1
  /\ Ended("crashed")
  /\ dpkg' \in IF pc \in DpkgRuns
                 THEN {dpkg, "half", "broken"} ELSE {dpkg}
  /\ UNCHANGED <<other, kind, found, sound>> /\ Files

(* unattended-upgrades and the like. *)
OtherProgram ==
  /\ other' = ~other
  /\ UNCHANGED <<dpkg, pc, kind, last>> /\ Files /\ History

Next ==
  \/ Begin \/ WaitForLocks \/ Stat \/ Rename \/ Open \/ Fill
  \/ Audit \/ Configure \/ Fix \/ Reconfigure \/ Callback \/ Restore \/ PutBack
  \/ Crash \/ OtherProgram

Spec == Init /\ [][Next]_vars
-----------------------------------------------------------------------------
TypeOK ==
  /\ policy \in Helper /\ backup \in Helper \ {"ours"}
  /\ dpkg \in {"ok", "half", "broken"}
  /\ other \in BOOLEAN
  /\ pc \in ControlPoint
  /\ kind \in {"created", "backed_up", "adopted"}
  /\ last \in {"none", "ok", "failed", "unaudited", "refused", "guard_error",
               "restore_error", "crashed"}
  /\ found \in {"none", "theirs"} /\ sound \in BOOLEAN
  /\ crashes \in Nat

(* No package is configured while services could be started, which is what  *)
(* deadlocked the v2 deploy (policy_rc_d.go:3): after any crash and any     *)
(* failure, dpkg only runs behind the helper of CloudDeploy.                *)
GuardedWhileDpkgRuns ==
  pc \in DpkgRuns => policy = "ours"

(* The caller's commands start from a dpkg that was found sound or          *)
(* repaired, unless it could not be audited (transaction.go:94).           *)
CallbackOnSoundDpkg ==
  [][(pc # "callback" /\ pc' = "callback" /\ last' # "unaudited") => dpkg' = "ok"]_vars

(* The host's own helper, in place or as a backup, survives every crash and *)
(* every failing file operation but one: an empty helper, left by a crash   *)
(* between opening and writing, does not bear our marker; the next          *)
(* transaction takes it for the host's and renames it over the backup       *)
(* (policy_rc_d.go:147).  No host whose files are written as a whole meets  *)
(* it.                                                                      *)
OriginalKept ==
  [][("theirs" \in {policy, backup} /\ "theirs" \notin {policy', backup'}) =>
       ~sound /\ pc = "rename" /\ policy = "torn"]_vars

(* policy_rc_d.go:109: "Always call Restore (typically via defer) so the    *)
(* on-disk state ends up the way we found it".                              *)
AsFoundWhenDone ==
  (sound /\ pc = "idle" /\ last \in {"ok", "failed"}) => policy = found

(* Without a crash it does, whichever step of the transaction failed. *)
AsFoundUnlessCrashed == crashes = 0 => AsFoundWhenDone

(* A host without a helper gets rid of ours in the first transaction that   *)
(* ends after a crash.                                                      *)
NothingLeftBehind == found = "none" => AsFoundWhenDone
=============================================================================
