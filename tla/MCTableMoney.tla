---------------------------- MODULE MCTableMoney ----------------------------
(* TableMoney, for TLC: players are alike, and so are handlers.              *)
EXTENDS TableMoney, TLC

AlikeAll == Permutations(Players) \cup Permutations(Handlers)
=============================================================================
