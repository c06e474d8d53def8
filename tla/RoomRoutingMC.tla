---------------------------- MODULE RoomRoutingMC ----------------------------
(* Instances of RoomRouting for TLC: users, rooms and handlers are           *)
(* interchangeable.  Its constants are in RoomRouting_routing.cfg.           *)
EXTENDS RoomRouting, TLC

Symmetry == Permutations(Users) \cup Permutations(Rooms) \cup Permutations(Handlers)
=============================================================================
