---------------------------- MODULE MCStationMgmt ----------------------------
(* StationMgmt for TLC. *)
EXTENDS StationMgmt, TLC

Symmetric == Permutations(Addr)
=============================================================================
