----------------------------- MODULE MCArchive ------------------------------
(* Two passcodes, 1 and 4, of the card the source now has as 3, and another *)
(* card, 2: a pair with an orphan changes its order when it is renamed.     *)
EXTENDS Archive

CONSTANTS d1, d2, p1, k1, k2, g1, g2, hand, board, early, breaker, i1, i2, ref

MCCardName == <<1, 2, 1, 1>>
MCAnswers == {{2, 3}, {1, 2, 3}, {3}, {}}
MCReferences == {ref}

At(list) == [c \in Cards |-> IF c \in DOMAIN list THEN list[c] ELSE 0]
Row2(hopt, choice, availability, group) ==
    [hopt |-> hopt, choice |-> choice, availability |-> availability, group |-> group]
P(id, a, b) == [id |-> id, a |-> a, b |-> b, disabled |-> FALSE]
OnCard(c, leaves) == [card |-> c, pair |-> Null, leaves |-> leaves]
OnPair(id, leaves) == [card |-> Null, pair |-> id, leaves |-> leaves]
Plain == [Empty EXCEPT !.cards["main"] = At(<<2, 1>>), !.queries = {k1}]

\* Decks, one aspect at a time: copies and starters, ...
Copies ==
    {[Plain EXCEPT !.cards["main"] = At(<<a, 1, b, c>>), !.cards["side"] = At(<<s>>),
                   !.starters = t, !.dead = {<<x, "first">> : x \in t}] :
        a, b \in {0, 2}, c, s \in {0, 1}, t \in SUBSET {1, 3}}
\* ... pairs and conditions, ...
Couples == {P(1, 1, 2), P(2, 2, 3), P(3, 1, 3), P(4, 2, 4)}
Combos ==
    {[Plain EXCEPT !.pairs = ps, !.conditions = ks] :
        ps \in {s \in SUBSET Couples : Cardinality(s) \in 1..3},
        ks \in {s \in SUBSET {OnCard(1, <<3, 1>>), OnCard(3, <<2>>), OnPair(1, <<1>>),
                              OnPair(2, <<4, 2>>), OnPair(3, <<2>>)} : Cardinality(s) <= 2}}
\* ... and a plan.
Sided ==
    {[Plain EXCEPT !.plans[p1] = [out |-> At(<<a, 0, b>>), in |-> At(<<x, 1, y, z>>)]] :
        a, b, x, y \in {0, 2}, z \in {0, 1}}
\* An orphan among the copies, in a pair, a condition and a starter; a card of the plan only.
Rich == [Plain EXCEPT !.pairs = {P(1, 1, 2)}, !.conditions = {OnPair(1, <<4, 2>>)}, !.starters = {1},
                      !.plans[p1] = [out |-> At(<<0, 1>>), in |-> At(<<0, 0, 1>>)]]
Sheets == {s \in Copies \cup Combos \cup Sided : Acceptable(s)}

Rows == {Row2(Null, TRUE, early, g1), Row2(FALSE, TRUE, Null, Null), Row2(TRUE, FALSE, Null, Null),
         Row2(Null, TRUE, breaker, Null)}
MCChosen == {Row2(FALSE, TRUE, breaker, Null), Row2(TRUE, TRUE, early, g1)}
NoRows == [c \in Cards |-> NoChoice]
Annotations ==
    {[NoRows EXCEPT ![1] = r, ![3] = s] : r, s \in Rows \cup {NoChoice}}

G(id, name, cap) == [id |-> id, name |-> name, cap |-> cap]
K(id, name) == [id |-> id, name |-> name]
\* Archives of another account: its identities are not those of this one.
MCFiles ==
    {[deck |-> [Plain EXCEPT !.queries = {k2}], hopt |-> {2}, labels |-> {<<1, k2>>},
      categories |-> {K(k2, hand)}, profiles |-> (1 :> [availability |-> early, group |-> g2]),
      groups |-> {G(g2, hand, cap)}] : cap \in {1, 2}}
MCPaired == {P(2, 2, 3)}
L(is, zone, c, n) == [is |-> is, zone |-> zone, card |-> c, copies |-> n]
MCTexts == {<<L("card", "main", 1, 4), L("section", "side", 1, 0), L("card", "main", 1, 2), L("card", "main", 2, 1)>>,
            <<L("section", "extra", 1, 0), L("card", "main", 3, 0), L("header", "main", 1, 0), L("other", "main", 1, 0)>>}

Base ==
    /\ catalog = Cards
    /\ groups = {G(g1, hand, 1)} /\ categories = {K(k1, hand), K(k2, board)}
    /\ lock = Null /\ imports = [i \in Importers |-> Served]
    /\ held = Null /\ checked = Null /\ files = {}
    /\ PruneInit
\* One gesture of a page at any moment of the script, on every sheet; two on one sheet,
\* with every annotation.
Sheeted ==
    /\ labels = {<<1, k1>>}
    /\ decks \in {(d1 :> s @@ d2 :> NoDeck) : s \in Sheets}
    /\ flags = NoRows
    /\ references = [c \in Cards |-> NoReference]
    /\ events = MaxEvents - 1
Annotated ==
    /\ labels \in {{<<1, k1>>}, {<<1, k1>>, <<3, k1>>}}
    /\ decks = (d1 :> Rich @@ d2 :> NoDeck)
    /\ \/ flags \in Annotations /\ references = [c \in Cards |-> NoReference]
       \/ flags = NoRows
          /\ references \in {[c \in Cards |-> IF c \in s THEN ref ELSE NoReference] : s \in SUBSET {1, 3}}
    /\ events = MaxEvents - 2
Init == Base /\ (Sheeted \/ Annotated) /\ ArchiveInit
Spec == Init /\ [][ArchiveNext]_archiveVars
=============================================================================
