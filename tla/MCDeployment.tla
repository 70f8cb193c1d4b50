---------------------------- MODULE MCDeployment ----------------------------
(***************************************************************************)
(* Releases over the bases the sequence is tested on: one of before 001,   *)
(* one already purged, one that lacks only 006, an empty one.              *)
(***************************************************************************)
EXTENDS Deployment

CONSTANTS pair, late, card

Flags == {[hopt |-> "false", profile |-> TRUE, choice |-> "plain"]}
MCPairRows == {pair, late}
MCCardRows == {card}
Historical(rows) ==
    {[Empty EXCEPT !.kept = 0, !.users = [rows |-> 1, role |-> "plain"], !.flags = f, !.decks = "current",
                   !.legacy = rows] : f \in Flags}
Purged8C ==
    {[Empty EXCEPT !.kept = 0, !.users = [rows |-> 1, role |-> "plain"], !.flags = f, !.decks = "current",
                   !.groups = "plain", !.journal = {"001", "002", "003"}] : f \in Flags}
MCStarts ==
    {[base |-> b, events |-> 2] : b \in Historical({pair, card})}
        \cup {[base |-> b, events |-> 1] : b \in Historical({}) \cup Purged8C \cup {Empty}}
=============================================================================
