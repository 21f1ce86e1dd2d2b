---- MODULE MCCudaToolkit ----
(* Profiles for TLC: those config/profiles ships with, reduced to what the  *)
(* phase reads, and the corners around them.                                *)
EXTENDS CudaToolkit

Base == [mode |-> "optional", method |-> "apt", url |-> FALSE, sha |-> NoSHA,
         policy |-> "any", major |-> 12, explicit |-> NoPackage, fallback |-> TRUE]
Exact13 == [Base EXCEPT !.policy = "exact-major", !.major = 13, !.fallback = FALSE]

MCProfiles ==
  {[Base EXCEPT !.mode = m] : m \in {"none", "optional", "required"}}
  \cup {[Base EXCEPT !.policy = "min-major", !.major = 13, !.mode = "required"],
        [Base EXCEPT !.explicit = Drivers], [Base EXCEPT !.explicit = Archive],
        [Base EXCEPT !.method = "none", !.mode = "required"],
        [Exact13 EXCEPT !.mode = "required"],
        [Exact13 EXCEPT !.mode = "required", !.url = TRUE],
        [Exact13 EXCEPT !.method = "runfile"]}
  \cup {[Exact13 EXCEPT !.mode = m, !.method = w, !.url = TRUE, !.sha = s] :
          m \in {"optional", "required"}, w \in {"auto", "runfile"},
          s \in {NoSHA, CHOOSE b \in Bytes : b \notin Corrupt}}
====
