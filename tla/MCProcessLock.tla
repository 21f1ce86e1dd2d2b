--------------------------- MODULE MCProcessLock ---------------------------
(* Small hosts for ProcessLock. *)
EXTENDS ProcessLock, TLC

(* Invocations differ in nothing but their names, and so do pids. *)
Interchangeable == Permutations(Procs) \cup Permutations(Pids)
=============================================================================
