----------------------------- MODULE MCAccounts -----------------------------
(***************************************************************************)
(* Accounts for TLC: ann has a key of her own, and anybody may use the     *)
(* others; the handlers are alike.                                         *)
(***************************************************************************)
EXTENDS Accounts, TLC

CONSTANTS ann, lockedKey

Holders == [k \in Keys |-> IF k = lockedKey THEN {ann} ELSE People]

AlikeHandlers == Permutations(Handlers)
=============================================================================
