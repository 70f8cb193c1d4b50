----------------------------- MODULE MCFigures ----------------------------
(***************************************************************************)
(* Decks of five or six copies and hands of three, then four: enough for   *)
(* every alternative of the engine and for brute force.                    *)
(***************************************************************************)
EXTENDS Figures

AtLeast(c, n) == [kind |-> "remaining", card |-> c, atLeast |-> n]
And(S) == [kind |-> "and", all |-> S]
Or(S) == [kind |-> "or", all |-> S]

Plain ==
    [main |-> <<[card |-> "b", copies |-> 2], [card |-> "a", copies |-> 2],
                [card |-> "c", copies |-> 1], [card |-> "f", copies |-> 1]>>,
     hopt |-> {}, starters |-> {}, starterCondition |-> [c \in Cards |-> None],
     pairs |-> {}, profiles |-> [c \in Cards |-> None],
     groupOf |-> [c \in Cards |-> None], caps |-> [g \in Groups |-> 1],
     categories |-> Labels, cardCategories |-> [c \in Cards |-> {}],
     dead |-> [x \in Contexts |-> {}]]

Pair(a, b, condition) == [a |-> a, b |-> b, excluded |-> FALSE, condition |-> condition]

\* Starts: once-per-turn cards, starters, combos, conditions, dead cards.
StartDecks ==
    {[Plain EXCEPT !.hopt = h, !.starters = st,
        !.starterCondition = [@ EXCEPT !["a"] = ca],
        !.pairs = ps, !.dead = [@ EXCEPT !["second"] = d]] :
        h \in {{}, {"a"}}, st \in {{}, {"a"}, {"a", "c"}},
        ca \in {None, And({AtLeast("b", 1)}), Or({AtLeast("b", 2), AtLeast("n", 1)})},
        ps \in {{}, {Pair("a", "b", None)},
                {Pair("a", "b", And({AtLeast("f", 1)})), Pair("b", "c", None)},
                {Pair("a", "b", None), Pair("b", "c", None), Pair("a", "c", None)},
                {[Pair("a", "b", None) EXCEPT !.excluded = TRUE], Pair("a", "n", None)}},
        d \in {{}, {"b"}}}

\* Non-engine: profiles, labels, once-per-turn cards, shared caps.
NonEngineDecks ==
    {[Plain EXCEPT !.hopt = h,
        !.profiles = [@ EXCEPT !["a"] = pa, !["b"] = pb, !["c"] = pc],
        !.groupOf = [c \in Cards |-> IF c \in g[1] THEN "g" ELSE None],
        !.caps = [@ EXCEPT !["g"] = g[2]],
        !.cardCategories = [@ EXCEPT !["a"] = {"x"}, !["b"] = {"x", "y"}]] :
        h \in {{}, {"a"}}, pa \in {"early", "flexible", "prepared", "reactive"},
        pb \in {None, "flexible", "breaker"}, pc \in {None, "flexible", "prepared"},
        g \in {<<{}, 1>>, <<{"a", "b"}, 1>>, <<{"a", "b", "c"}, 2>>, <<{"a", "b"}, None>>}}

Mixed ==
    [Plain EXCEPT !.starters = {"a"}, !.pairs = {Pair("b", "c", None)},
        !.profiles = [@ EXCEPT !["b"] = "flexible", !["f"] = "early"],
        !.cardCategories = [@ EXCEPT !["b"] = {"x"}, !["f"] = {"y"}]]
\* The first card taken away and another one added; a label lost, the combo given up.
MCWallDecks ==
    {Mixed,
     [Mixed EXCEPT !.main = <<[card |-> "a", copies |-> 3], [card |-> "f", copies |-> 2]>>],
     [Mixed EXCEPT !.cardCategories = [@ EXCEPT !["b"] = {}], !.pairs = {},
                   !.starters = {"a", "b"}, !.hopt = {"b"}]}

\* The opening is possible, the sixth card is not.
Short == [Plain EXCEPT !.main = <<[card |-> "a", copies |-> 2], [card |-> "c", copies |-> 1]>>,
                       !.starters = {"a"}]

MCDecks == StartDecks \cup NonEngineDecks \cup MCWallDecks \cup {Short}

MCQueries ==
    { {[subject |-> [kind |-> "starts"], min |-> 1, max |-> None]},
      {[subject |-> [kind |-> "group", labels |-> {"y"}], min |-> 1, max |-> None],
       [subject |-> [kind |-> "redundancy"], min |-> None, max |-> 1]},
      {[subject |-> [kind |-> "group", labels |-> {"x", "y"}], min |-> None, max |-> 1],
       [subject |-> [kind |-> "nonengine"], min |-> 1, max |-> None]},
      {[subject |-> [kind |-> "redundancy"], min |-> 2, max |-> 1]} }
===========================================================================
