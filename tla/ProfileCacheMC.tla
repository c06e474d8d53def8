--------------------------- MODULE ProfileCacheMC ---------------------------
(***************************************************************************)
(* Instance of ProfileCache for TLC: what resolveWorkingDir and            *)
(* sanitizeForName make of a git URL and of two paths that sanitizeForName *)
(* turns into one name.                                                    *)
(***************************************************************************)
EXTENDS ProfileCache, TLC

Resolved == [s \in Sources |-> IF s = "~/a.b" THEN "/srv/a.b" ELSE s]

Sanitized ==
    [x \in Users \cup Places |->
       IF x \in {"/srv/a.b", "/srv/a-b"} THEN "-srv-a-b" ELSE x]

\* Ids, command goroutines and users are interchangeable.
IdSymmetry ==
    Permutations(Ids) \cup Permutations(Handlers) \cup Permutations(Users)
=============================================================================
