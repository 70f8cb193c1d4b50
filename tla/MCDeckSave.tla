---------------------------- MODULE MCDeckSave -----------------------------
(* Two pages: one edits the deck twice and opens it again, the other once. *)
EXTENDS DeckSave, TLC

CONSTANTS p1, p2, A, B

TwoPages == {p1, p2}
MCContents == {A, B}
TwiceThenOnce == [p \in Pages |-> IF p = p1 THEN 2 ELSE 1]

Symmetry == Permutations(MCContents)
=============================================================================
