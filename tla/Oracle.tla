------------------------------ MODULE Oracle ------------------------------
(***************************************************************************)
(* The reference of engine/reference: every physical hand is drawn and     *)
(* judged by brute force, from the rules and from none of the engine's     *)
(* operators.  It reads a deck as the engine's source does.                *)
(***************************************************************************)
EXTENDS Integers, FiniteSets, Sequences, FiniteSetsExt, TLC

CONSTANTS OpeningSize, Nothing

\* The copies of the deck, told apart though they bear the same name.
Physical(s) ==
    UNION {{<<s.main[i].card, n>> : n \in 1..s.main[i].copies} : i \in DOMAIN s.main}

\* chronologicalHands: the order of the opening is irrelevant, the sixth card is not.
PhysicalHands(s, position) ==
    LET deck == Physical(s) IN
    IF position = "first"
    THEN {[opening |-> o, sixth |-> {}] : o \in kSubset(OpeningSize, deck)}
    ELSE UNION {{[opening |-> o, sixth |-> {d}] : d \in deck \ o}
                : o \in kSubset(OpeningSize, deck)}

Named(copies, card) == Cardinality({v \in copies : v[1] = card})

\* Two hands of the same names are judged alike.
NamesOf(hand) ==
    LET cards == {v[1] : v \in hand.opening \cup hand.sixth}
    IN [held |-> [c \in cards |-> Named(hand.opening \cup hand.sixth, c)],
        sixth |-> {v[1] : v \in hand.sixth}]

RECURSIVE True(_, _)
True(c, remaining) ==
    CASE c.kind = "remaining" -> Cardinality({v \in remaining : v[1] = c.card}) >= c.atLeast
      [] c.kind = "and" -> \A child \in c.all : True(child, remaining)
      [] c.kind = "or" -> \E child \in c.all : True(child, remaining)

\* theoreticalStarts: the most actions with disjoint vertices.
RECURSIVE MostDisjoint(_)
MostDisjoint(actions) ==
    IF actions = {} THEN 0
    ELSE LET a == CHOOSE x \in actions : TRUE
             skip == MostDisjoint(actions \ {a})
             take == 1 + MostDisjoint({x \in actions : x \cap a = {}})
         IN IF take > skip THEN take ELSE skip

OnTable(s, position, observed) ==
    {v \in observed :
        /\ v[1] \notin s.dead[position]
        /\ v[1] \in s.hopt => \A w \in observed : w[1] = v[1] => w[2] >= v[2]}

OracleStarts(s, position, observed) ==
    LET remaining == Physical(s) \ observed
        vertices == OnTable(s, position, observed)
        met(c) == c = Nothing \/ True(c, remaining)
        single == {{v} : v \in {x \in vertices : x[1] \in s.starters /\ met(s.starterCondition[x[1]])}}
        joined(v, w) == \E p \in s.pairs : /\ ~p.excluded /\ met(p.condition)
                                           /\ {p.a, p.b} = {v[1], w[1]} /\ v[1] # w[1]
        double == {e \in kSubset(2, vertices) : \E v, w \in e : joined(v, w)}
    IN [starts |-> MostDisjoint(single \cup double), redundancy |-> Cardinality(double)]

\* windows
WindowsOf(profile, position, isSixth) ==
    CASE position = "first" -> IF profile \in {"flexible", "prepared", "reactive"}
                               THEN {"opponent"} ELSE {}
      [] position # "first" /\ profile \in {"early", "reactive"} -> IF isSixth THEN {} ELSE {"opponent"}
      [] position # "first" /\ profile = "flexible" -> IF isSixth THEN {"own"} ELSE {"opponent", "own"}
      [] OTHER -> {"own"}

\* potential: the most copies of the cards counted that a legal assignment to the two turns uses.
OraclePotential(s, position, hand, counted) ==
    LET eligible == {v \in hand.opening \cup hand.sixth :
                        s.profiles[v[1]] # Nothing /\ v[1] \in counted}
        open(v) == WindowsOf(s.profiles[v[1]], position, v \in hand.sixth)
        capOf(v) == IF s.groupOf[v[1]] = Nothing THEN Nothing ELSE s.caps[s.groupOf[v[1]]]
        legal(a) ==
            \A v \in eligible :
                /\ a[v] \in open(v) \cup {Nothing}
                /\ a[v] # Nothing => LET same == {w \in eligible : a[w] = a[v]} IN
                    /\ v[1] \in s.hopt => Named(same, v[1]) <= 1
                    /\ capOf(v) # Nothing =>
                        Cardinality({w \in same : s.groupOf[w[1]] = s.groupOf[v[1]]}) <= capOf(v)
    IN Max({Cardinality({v \in eligible : a[v] # Nothing})
              : a \in {x \in [eligible -> {"opponent", "own", Nothing}] : legal(x)}})

\* evaluateOracleHand, with the potential of each set of labels of asked.
OracleHand(s, position, hand, asked) ==
    LET observed == hand.opening \cup hand.sixth IN
    OracleStarts(s, position, observed) @@
    [nonEngine |-> OraclePotential(s, position, hand, DOMAIN s.profiles),
     raw |-> [l \in s.categories |->
                Cardinality({v \in observed : l \in s.cardCategories[v[1]]})],
     of |-> [ids \in asked |->
                OraclePotential(s, position, hand,
                    {c \in DOMAIN s.profiles : s.cardCategories[c] \cap s.categories \cap ids # {}})]]

\* enumerateExact: each hand by its names, how many hands bear them, its worth.
Exact(s, position, asked) ==
    LET hands == PhysicalHands(s, position)
        representative(n) == CHOOSE h \in hands : NamesOf(h) = n
    IN {[hands |-> Cardinality({h \in hands : NamesOf(h) = n}),
         worth |-> OracleHand(s, position, representative(n), asked)]
          @@ [names |-> n] : n \in {NamesOf(h) : h \in hands}}

\* tally
OracleTally(V(_), exact) ==
    [v \in {V(x.worth) : x \in exact} |->
        MapThenSumSet(LAMBDA x : x.hands, {x \in exact : V(x.worth) = v})]

OracleCount(P(_), exact) ==
    MapThenSumSet(LAMBDA x : x.hands, {x \in exact : P(x.worth)})

\* withOneCopyReplaced: one physical copy becomes a card without annotation.
OneCopyReplaced(s, card, neutral) ==
    LET less == {i \in DOMAIN s.main : s.main[i].card = card}
        main == [i \in DOMAIN s.main |->
                    IF i \in less THEN [s.main[i] EXCEPT !.copies = @ - 1] ELSE s.main[i]]
    IN [s EXCEPT !.main = Append(main, [card |-> neutral, copies |-> 1])]
===========================================================================
