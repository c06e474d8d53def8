------------------------------ MODULE PiEventsMC ------------------------------
(* Instances of PiEvents for TLC; its constants are in the PiEvents_*.cfg.   *)
EXTENDS PiEvents
=============================================================================
