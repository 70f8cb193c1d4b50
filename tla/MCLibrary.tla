----------------------------- MODULE MCLibrary ----------------------------
(***************************************************************************)
(* Constants for TLC.                                                      *)
(***************************************************************************)
EXTENDS Library

CONSTANTS c1, p1, p2, r1, r2, early, late

MCProfiles == {early, late}
MCBuiltinGroup == [id |-> "base", name |-> "Mulcharmy", cap |-> 2]
\* The text of every card detects an early profile under the builtin cap.
MCDetected == [c \in Cards |-> [hopt |-> TRUE, availability |-> early, name |-> "Mulcharmy"]]
MCReferenceRows ==
    { [hopt |-> FALSE, set |-> TRUE, availability |-> late, name |-> "own"],
      [hopt |-> Null, set |-> TRUE, availability |-> Null, name |-> Null] }
\* The page that does everything, and the other tab of the same account.
MCGestures ==
    [p \in Pages |->
        IF p = p1
        THEN [do : {"hopt"}, card : Cards]
             \cup [do : {"reset"}, card : Cards, aspect : {"hopt", "nonengine"}]
             \cup [do : {"nonengine"}, card : Cards, label : Labels, profile : {early}]
             \cup [do : {"nonengine"}, card : Cards, label : {Null}, profile : {early}]
             \cup [do : {"nonengine"}, card : Cards, label : Labels, profile : {Null}]
             \cup [do : {"profile"}, card : Cards, profile : {late}]
             \cup [do : {"group"}, card : Cards, group : {"g1"}]
             \cup [do : {"addGroup"}, name : {"own"}, cap : {2}]
             \cup [do : {"capGroup"}, group : {"base"}, cap : {1}]
             \cup [do : {"deleteGroup"}, group : {"g1"}]
             \cup [do : {"addLabel", "deleteLabel"}, label : Labels]
             \cup [do : {"setReference"}, card : Cards,
                     row : {[hopt |-> Null, set |-> TRUE, availability |-> Null, name |-> Null]}]
        ELSE [do : {"addGroup"}, name : {"own"}, cap : {1}]]
MCMaxGestures == [p \in Pages |-> IF p = p1 THEN 2 ELSE 1]
MCMaxReads == [p \in Pages |-> IF p = p1 THEN 1 ELSE 0]
===========================================================================
