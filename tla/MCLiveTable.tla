---------------------------- MODULE MCLiveTable ----------------------------
(***************************************************************************)
(* LiveTable for TLC: players are interchangeable.                         *)
(***************************************************************************)
EXTENDS LiveTable, TLC

AnyPlayers == Permutations(Users)
=============================================================================
