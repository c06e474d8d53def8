----------------------------- MODULE PiSessionMC -----------------------------
(* Instances of PiSession for TLC: calls, processes and request ids are      *)
(* interchangeable.  Sessions are not, one of them is restored at the start. *)
EXTENDS PiSession, TLC

Symmetry == Permutations(Calls) \cup Permutations(Procs) \cup Permutations(Requests)
=============================================================================
