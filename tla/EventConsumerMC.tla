---------------------------- MODULE EventConsumerMC ----------------------------
(***************************************************************************)
(* Model-checking instance of EventConsumer.  Its constants are given in   *)
(* the EventConsumer_*.cfg files.                                          *)
(***************************************************************************)
EXTENDS EventConsumer, TLC

\* sessionState objects are interchangeable; safety runs only.
ObjectSymmetry == Permutations(States)
=============================================================================
