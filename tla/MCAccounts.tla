----------------------------- MODULE MCAccounts -----------------------------
(* An account with a password and one that a Discord identity may create; two  *)
(* tabs of a player's browser; two browsers of one administrator.              *)
EXTENDS Accounts, TLC

CONSTANTS a1, a2, x1, t1, t2, b1, b2

MCAccounts == {a1, a2}
MCKnown == {a1}
MCDiscords == {x1}
MCEmailOf == x1 :> a2
MCTabs == {t1, t2}
MCBrowsers == {b1, b2}
Symmetry == Permutations(MCTabs) \cup Permutations(MCBrowsers)
=============================================================================
