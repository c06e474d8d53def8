---------------------------- MODULE AppServiceMC ----------------------------
(***************************************************************************)
(* Model-checking instance of AppService.  Its constants are given in the  *)
(* AppService_*.cfg files.                                                 *)
(***************************************************************************)
EXTENDS AppService, TLC

\* Session ids and command goroutines are interchangeable; safety runs only.
IdSymmetry == Permutations(Sessions) \cup Permutations(Handlers)
=============================================================================
