---------------------------- MODULE PhaseLedger ----------------------------
(***************************************************************************)
(* What the pipeline promises of the work it does, without commands,       *)
(* statuses, counters, units or a lock: a phase that is known to be done   *)
(* is not done again, and what an invocation knows and could not write     *)
(* down is all that a crash takes away.  Deploy implements it as long as   *)
(* invocations do not overlap.                                             *)
(***************************************************************************)
CONSTANTS
  Phases,
  Instant   \* phases that may find nothing left to do

VARIABLES
  done,    \* phases recorded as done in state.json
  known,   \* those, and what the invocation that is alive has done since
  doing    \* the phase whose work is under way: one or none

ledgerVars == <<done, known, doing>>

Init == done = {} /\ known = {} /\ doing = {}

(* PersistState: everything that is known is written, or nothing is. *)
Save == done' \in {done, known'}

Work(i) == doing = {} /\ i \notin known /\ doing' = {i} /\ known' = known /\ Save

Complete(i) ==
  /\ i \notin known
  /\ doing = {i} \/ (doing = {} /\ i \in Instant)
  /\ doing' = {} /\ known' = known \cup {i} /\ Save

(* The work failed, asked for a reboot or was left for later; or something  *)
(* else was saved.                                                          *)
Leave == doing' \in {doing, {}} /\ known' = known /\ Save

(* The invocation ends, or dies with what it did not write down. *)
Stop == doing' = {} /\ known' = done /\ done' = done

(* An operator has the phase done again. *)
Forget(i) == doing = {} /\ doing' = {} /\ done' = done \ {i} /\ known' = done'

Next ==
  \/ \E i \in Phases : Work(i) \/ Complete(i) \/ Forget(i)
  \/ Leave \/ Stop

Spec == Init /\ [][Next]_ledgerVars
=============================================================================
