---------------------------- MODULE MessagePathMC ----------------------------
(* Instances of MessagePath for TLC; its constants are in MessagePath_*.cfg. *)
EXTENDS MessagePath, TLC

\* Session ids and messages are interchangeable; for the safety runs only.
Symmetry == Permutations(Sessions) \cup Permutations(Messages)
=============================================================================
