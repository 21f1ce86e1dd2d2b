----------------------------- MODULE PhaseLife -----------------------------
(***************************************************************************)
(* What Deploy takes for granted of the Run of a phase: it begins only when *)
(* the phase is due, marks it running before it works, and ends in one of   *)
(* the ways PhaseTable gives for it; a crash or a lost save may take away   *)
(* what it recorded but brings back nothing else.  The phases that have a   *)
(* module of their own implement this one.                                 *)
(***************************************************************************)
CONSTANTS
  Body,    \* how Run may end once it marked the phase running
  Early,   \* what it may record without having done so
  Resets   \* whether an operator may reset the phase

VARIABLES
  status,  \* of the phase, to whoever is alive, or else on disk
  saved,   \* on disk
  at       \* "out"; "in" Run, once the phase is marked running; "asked" for a reboot

lifeVars == <<status, saved, at>>

Init == status = "pending" /\ saved = "pending" /\ at = "out"

Due == at = "out" /\ status \notin {"done", "skipped"}

(* s is recorded.  The save may be lost, and if the invocation ends here    *)
(* what it had in memory is lost too.                                       *)
Record(s) == saved' \in {saved, s} /\ status' \in {s, saved'}

Enter == Due /\ at' = "in" /\ status' = "running" /\ saved' \in {saved, "running"}

EndEarly == Due /\ at' = "out" /\ \E s \in Early : Record(s)

End == at = "in" /\ at' = "out" /\ \E s \in Body \ {"reboot"} : Record(s)

AskReboot ==
  /\ at = "in" /\ "reboot" \in Body /\ at' = "asked"
  /\ status' = status /\ saved' \in {saved, status}

(* Something else of the record is saved, and the status with it. *)
Save == saved' = status /\ UNCHANGED <<status, at>>

(* The reboot was asked for or refused, or the process or the host dies. *)
Leave == at' = "out" /\ Record(status)

(* Recovery of an interrupted phase, or an operator's reset. *)
Again == at = "out" /\ at' = "out" /\ (Resets \/ status = "running") /\ Record("pending")

Next == Enter \/ EndEarly \/ End \/ AskReboot \/ Save \/ Leave \/ Again

Spec == Init /\ [][Next]_lifeVars
=============================================================================
