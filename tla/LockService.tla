---------------------------- MODULE LockService ----------------------------
(***************************************************************************)
(* What the rest of clouddeployctl relies on when it calls                 *)
(* AcquireWithRecovery and Release: a lock that is taken in one step, only *)
(* when nobody has it, and that ends with whoever has it.  The one way to  *)
(* lose it is said too: Release and the theft of a stale lock remove the   *)
(* lock file by its name, and by then it may be somebody else's.           *)
(***************************************************************************)
CONSTANTS
  Procs,       \* invocations
  Free, Left   \* there is no lock; there is one that nobody relies on

VARIABLES
  lock,     \* Free, Left or the invocation that has it
  works,    \* invocations that go on as if they had it
  clearing  \* invocations that do not have it and are about to remove it

lockVars == <<lock, works, clearing>>

(* Whoever goes on has the lock, so it is one invocation at most. *)
Exclusive == works \subseteq {lock}

Init == lock = Free /\ works = {} /\ clearing = {}

(* A lock that somebody has is not taken. *)
Take(p) ==
  /\ lock \in {Free, Left}
  /\ lock' = p
  /\ works' = works \cup {p}
  /\ UNCHANGED clearing

(* p gives it back, by removing what is there; a second Release may follow. *)
Give(p) ==
  /\ p \in works
  /\ lock' = Free
  /\ works' = works \ {p}
  /\ clearing' \in {clearing, clearing \cup {p}}

(* Invocations end without giving it back. *)
End(gone) ==
  /\ lock' = IF lock \in works \cap gone THEN Left ELSE lock
  /\ works' = works \ gone
  /\ clearing' = clearing \ gone

(* One that waits takes the lock for a stale one. *)
Suspect(p) ==
  /\ p \notin works
  /\ clearing' = clearing \cup {p}
  /\ UNCHANGED <<lock, works>>

(* The lock is removed, whoever has it, by one that has come to do so. *)
Clear(p) ==
  /\ p \in clearing
  /\ lock' = Free
  /\ clearing' \in {clearing, clearing \ {p}}
  /\ UNCHANGED works

Next ==
  \/ \E p \in Procs : Take(p) \/ Give(p) \/ Suspect(p) \/ Clear(p)
  \/ \E gone \in SUBSET Procs : End(gone)

Spec == Init /\ [][Next]_lockVars
=============================================================================
