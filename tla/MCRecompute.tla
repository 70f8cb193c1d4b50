---------------------------- MODULE MCRecompute ----------------------------
(* Two decks, two contents for each, two libraries; see scenario. *)
EXTENDS Recompute, TLC

CONSTANTS d1, d2

MCDecks == {d1, d2}
MCLocals == 0..1
MCLibraries == 0..1
MCFaults == AllFaults

VARIABLE scenario   \* "library": one opening, with writes.  "openings": two, without, once the bootstrap is answered.
MCInit ==
    /\ Init
    /\ scenario \in {"library", "openings"}
    /\ library = 0 /\ local = 0     \* by symmetry
MCNext ==
    /\ Next
    /\ target'[1] \in {NoDeck, d1}
    /\ scenario = "library" => opening' <= 1
    /\ scenario = "openings" => writes' = 0 /\ library' = library /\ ~starting'
    /\ UNCHANGED scenario
MCSpec == MCInit /\ [][MCNext]_<<vars, scenario>> /\ Fairness
=============================================================================
