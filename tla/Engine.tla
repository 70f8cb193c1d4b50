------------------------------ MODULE Engine ------------------------------
(***************************************************************************)
(* The engine of web/src/engine: the exact distribution of the hands a     *)
(* deck opens, by compositions of the annotated cards rather than card by  *)
(* card, and what is read from it: queries, the note of a hand, marginal   *)
(* contributions, the comparison of two decks.                             *)
(*                                                                         *)
(* Weights stay integers over the number of outcomes, as the engine keeps  *)
(* them before its last division.  A type of card is its card, and an      *)
(* absent required card, which the engine calls the null type, is a card   *)
(* outside the types.                                                      *)
(***************************************************************************)
EXTENDS Integers, FiniteSets, Sequences, SequencesExt

CONSTANTS Cards, Labels, Groups,
          Opening,       \* cards of the opening hand, five in the code
          LastStart,     \* the row of the matrix that ends with "or more": three
          LastColumn,    \* its last column: five
          None

Contexts == {"first", "second"}
Profiles == {"early", "flexible", "prepared", "breaker", "reactive"}
MaxCopies == 3

\* handSizeOf
Observed(context) == IF context = "first" THEN Opening ELSE Opening + 1

---------------------------------------------------------------------------
(* Start conditions: trees of AND and OR over "at least n copies left".    *)

RECURSIVE WellFormed(_), RequiredCards(_), Holds(_, _, _)

\* normalizeCondition: an empty group is refused, it never becomes true.
WellFormed(c) ==
    CASE c.kind = "remaining" -> c.atLeast >= 1
      [] OTHER -> c.all # {} /\ \A child \in c.all : WellFormed(child)

RequiredCards(c) ==
    CASE c.kind = "remaining" -> {c.card}
      [] OTHER -> UNION {RequiredCards(child) : child \in c.all}

Holds(c, k, copies) ==
    CASE c.kind = "remaining" ->
            c.card \in DOMAIN copies /\ copies[c.card] - k[c.card] >= c.atLeast
      [] c.kind = "and" -> \A child \in c.all : Holds(child, k, copies)
      [] c.kind = "or" -> \E child \in c.all : Holds(child, k, copies)

Satisfied(c, k, copies) == c = None \/ Holds(c, k, copies)

---------------------------------------------------------------------------
(* The model of a deck: buildEngineModel, then prepare.                    *)

CardsOf(s) == {s.main[i].card : i \in DOMAIN s.main}
CopiesOf(s, c) == s.main[CHOOSE i \in DOMAIN s.main : s.main[i].card = c].copies
DeckSize(s) == FoldLeft(LAMBDA n, entry : n + entry.copies, 0, s.main)

ActivePairs(s) == {p \in s.pairs : ~p.excluded /\ {p.a, p.b} \subseteq CardsOf(s)}
LabelsOf(s, c) == s.cardCategories[c] \cap s.categories

ConditionsOf(s) ==
    {s.starterCondition[c] : c \in Cards} \cup {p.condition : p \in s.pairs}

\* What the model must follow one by one; every other card is filler.
Annotated(s) ==
    CardsOf(s) \cap
       (s.starters \cup UNION {{p.a, p.b} : p \in ActivePairs(s)}
        \cup {c \in Cards : LabelsOf(s, c) # {} \/ s.profiles[c] # None}
        \cup UNION {RequiredCards(x) : x \in ConditionsOf(s) \ {None}})

BuildModel(s) ==
    LET types == SelectSeq([i \in DOMAIN s.main |-> s.main[i].card],
                           LAMBDA c : c \in Annotated(s))
        tracked == ToSet(types)
        groupOf(c) == IF s.profiles[c] = None \/ s.groupOf[c] = None THEN None
                      ELSE IF s.caps[s.groupOf[c]] = None THEN None ELSE s.groupOf[c]
    IN [deckSize |-> DeckSize(s),
        types |-> types,
        copies |-> [c \in tracked |-> CopiesOf(s, c)],
        hopt |-> s.hopt \cap tracked,
        starters |-> s.starters \cap tracked,
        starterCondition |-> [c \in tracked |-> IF c \in s.starters
                                                THEN s.starterCondition[c] ELSE None],
        edges |-> {[ends |-> {p.a, p.b}, condition |-> p.condition] : p \in ActivePairs(s)},
        labels |-> [c \in tracked |-> LabelsOf(s, c)],
        profile |-> [c \in tracked |-> s.profiles[c]],
        group |-> [c \in tracked |-> groupOf(c)],
        caps |-> s.caps,
        dead |-> s.dead]

Types(m) == DOMAIN m.copies
Total(k) == FoldFunction(+, 0, k)
Filler(m) == m.deckSize - Total(m.copies)

\* The sets of labels of the profiled types, in the order they are met.
Signatures(m) ==
    FoldLeft(LAMBDA seen, c : IF m.profile[c] = None \/ Contains(seen, m.labels[c])
                              THEN seen ELSE Append(seen, m.labels[c]),
             <<>>, m.types)

SixthSensitive(m) ==
    {c \in Types(m) : m.profile[c] \in {"early", "flexible", "reactive"}}

---------------------------------------------------------------------------
(* What one outcome is worth: k counts the observed cards of each type, in *)
(* second the sixth is one of them (None when it is not followed).         *)

\* The maximum matching of a small graph: the first vertex alone, or matched.
RECURSIVE MaxMatching(_, _)
MaxMatching(vertices, edges) ==
    IF vertices = {} THEN 0
    ELSE LET a == CHOOSE v \in vertices : TRUE
             without == vertices \ {a}
             mates == {b \in without : {a[1], b[1]} \in edges}
         IN Max({MaxMatching(without, edges)}
                \cup {1 + MaxMatching(without \ {b}, edges) : b \in mates})

\* countEdges: the pairs of vertices joined by an edge.
CountEdges(vertices, edges) ==
    Cardinality({e \in vertices \X vertices : {e[1][1], e[2][1]} \in edges}) \div 2

ActiveEdges(m, k) ==
    {e.ends : e \in m.edges}
      \ {e.ends : e \in {x \in m.edges : ~Satisfied(x.condition, k, m.copies)}}

Vertices(m, k, dead) ==
    UNION {{<<c, i>> : i \in 1..(IF c \in m.hopt /\ k[c] > 0 THEN 1 ELSE k[c])}
           : c \in Types(m) \ dead}

Starting(m, k, v) ==
    v[1] \in m.starters /\ Satisfied(m.starterCondition[v[1]], k, m.copies)

AtMostOnce(isHopt, n) == IF isHopt THEN Min({n, 1}) ELSE n

\* capacities: what the copies of a type can do in each of the two turns.
Capacities(profile, isHopt, context, initial, sixth) ==
    LET opponent ==
            CASE context = "first" ->
                    IF profile \in {"flexible", "prepared", "reactive"} THEN initial ELSE 0
              [] OTHER ->
                    IF profile \in {"early", "reactive", "flexible"} THEN initial ELSE 0
        own == IF context = "second" /\ profile \in {"flexible", "prepared", "breaker"}
               THEN initial + sixth ELSE 0
    IN [opponent |-> AtMostOnce(isHopt, opponent),
        own |-> AtMostOnce(isHopt, own),
        total |-> Max({opponent, own})]

Alone(member) == Min({member.total, member.opponent + member.own})

\* A slip: the cut that closes the opponent's turn is forgotten.
CappedPotentialOneCut(unit) ==
    LET sum(field(_)) ==
            MapThenSumSet(LAMBDA x : unit.members[x] * field(x), DOMAIN unit.members)
    IN Min({sum(LAMBDA x : Alone(x)), unit.cap + sum(LAMBDA x : x.opponent), 2 * unit.cap})

\* cappedPotential: a maximum flow over two turns, read from its minimum cuts.
CappedPotential(unit) ==
    LET cap == unit.cap
        sum(field(_)) ==
            MapThenSumSet(LAMBDA x : unit.members[x] * field(x), DOMAIN unit.members)
        each == sum(LAMBDA x : Alone(x))
        opponent == sum(LAMBDA x : x.opponent)
        own == sum(LAMBDA x : x.own)
    IN Min({each, cap + own, cap + opponent, 2 * cap})

\* How many elements of S have each value of F.
Tally(F(_), S) == [v \in {F(x) : x \in S} |-> Cardinality({x \in S : F(x) = v})]

Evaluate(m, context, k, sixth) ==
    LET edges == ActiveEdges(m, k)
        vertices == Vertices(m, k, m.dead[context])
        starting == {v \in vertices : Starting(m, k, v)}
        sigs == Signatures(m)
        present == {c \in Types(m) : m.profile[c] # None /\ k[c] > 0}
        isSixth(c) == IF context = "second" /\ sixth = c THEN 1 ELSE 0
        member(c) == Capacities(m.profile[c], c \in m.hopt, context,
                                k[c] - isSixth(c), isSixth(c))
                     @@ [sig |-> CHOOSE i \in DOMAIN sigs : sigs[i] = m.labels[c]]
        contrib == [i \in DOMAIN sigs |->
                      MapThenSumSet(LAMBDA c : Alone(member(c)),
                        {c \in present : m.group[c] = None /\ m.labels[c] = sigs[i]})]
        capped == [g \in {m.group[c] : c \in present} \ {None} |->
                     [cap |-> m.caps[g],
                      members |-> Tally(LAMBDA c : member(c), {c \in present : m.group[c] = g})]]
    IN [starts |-> Cardinality(starting) + MaxMatching(vertices \ starting, edges),
        redundancy |-> CountEdges(vertices, edges),
        raw |-> [l \in Labels |->
                   MapThenSumSet(LAMBDA c : k[c], {c \in Types(m) : l \in m.labels[c]})],
        contrib |-> contrib,
        capped |-> capped,
        nonEngine |-> FoldLeft(+, 0, contrib)
            + MapThenSumSet(LAMBDA g : CappedPotential(capped[g]), DOMAIN capped)]

---------------------------------------------------------------------------
(* The distribution of a context.                                          *)

\* binom: the product divided at each factor, which is exact.
Binom(n, k) ==
    LET kk == Min({k, n - k})
        product[i \in 0..kk] ==
            IF i = 0 THEN 1 ELSE (product[i - 1] * (n - i + 1)) \div i
    IN IF k < 0 \/ k > n THEN 0 ELSE product[kk]

\* enumerate: the compositions of n cards, the filler being what is left.
Compositions(m, n) ==
    {k \in [Types(m) -> 0..MaxCopies] :
        /\ \A c \in Types(m) : k[c] <= m.copies[c]
        /\ Total(k) <= n
        /\ n - Total(k) <= Filler(m)}

Weight(m, n, k) ==
    FoldFunction(LAMBDA a, b : a * b, 1, [c \in Types(m) |-> Binom(m.copies[c], k[c])])
        * Binom(Filler(m), n - Total(k))

\* enumerateOutcomes: any of the six copies may be the last one drawn; only
\* the types it changes something for are told apart.
Outcomes(m, context) ==
    IF context = "first"
    THEN {[k |-> k, sixth |-> None, weight |-> Weight(m, Opening, k)]
            : k \in Compositions(m, Opening)}
    ELSE UNION {
        LET present == {c \in SixthSensitive(m) : k[c] > 0}
            weight == Weight(m, Opening + 1, k)
            plain == Opening + 1 - MapThenSumSet(LAMBDA c : k[c], present)
        IN {[k |-> k, sixth |-> c, weight |-> weight * k[c]] : c \in present}
           \cup {[k |-> k, sixth |-> None, weight |-> weight * n] : n \in {plain} \ {0}}
        : k \in Compositions(m, Opening + 1)}

OutcomesOf(size, context) ==
    Binom(size, Opening) * (IF context = "first" THEN 1 ELSE Max({0, size - Opening}))

Available(m, context) ==
    /\ \A c \in Types(m) : m.copies[c] <= MaxCopies
    /\ Total(m.copies) <= m.deckSize
    /\ Binom(m.deckSize, Observed(context)) > 0

\* The weight of each value of V among what was visited.
WeightOf(V(_), visited) ==
    [v \in {V(x) : x \in visited} |->
        MapThenSumSet(LAMBDA x : x.weight, {x \in visited : V(x) = v})]

Bucket(out) == [f \in DOMAIN out \ {"raw"} |-> out[f]]

ComputePass(m, context) ==
    IF ~Available(m, context) THEN [available |-> FALSE]
    ELSE LET visited == {[visit |-> o, weight |-> o.weight,
                          out |-> Evaluate(m, context, o.k, o.sixth)]
                           : o \in Outcomes(m, context)}
         IN [available |-> TRUE,
             deckSize |-> m.deckSize,
             outcomes |-> OutcomesOf(m.deckSize, context),
             signatures |-> Signatures(m),
             buckets |-> WeightOf(LAMBDA x : Bucket(x.out), visited),
             starts |-> WeightOf(LAMBDA x : x.out.starts, visited),
             raw |-> [l \in Labels |-> WeightOf(LAMBDA x : x.out.raw[l], visited)],
             cross |-> WeightOf(LAMBDA x : <<Min({x.out.starts, LastStart}),
                                             x.out.nonEngine>>, visited)]

---------------------------------------------------------------------------
(* Marginal contributions.                                                 *)

\* startsAtLeastOne: a predicate, without matching.
StartsAtLeastOne(m, context, k) ==
    LET alive(c) == c \notin m.dead[context] /\ k[c] > 0 IN
    \/ \E c \in m.starters : alive(c) /\ Satisfied(m.starterCondition[c], k, m.copies)
    \/ \E e \in m.edges : /\ \A c \in e.ends : alive(c)
                          /\ Satisfied(e.condition, k, m.copies)

\* probStart, the weight of the hands that start.
StartWeight(m, context) ==
    MapThenSumSet(LAMBDA k : Weight(m, Observed(context), k),
        {k \in Compositions(m, Observed(context)) : StartsAtLeastOne(m, context, k)})

\* One copy becomes filler: the size of the deck stays.
OneLess(m, c) == [m EXCEPT !.copies[c] = @ - 1]

\* The difference of two fractions, as a numerator and a denominator.
Delta(m, context, pass, c) ==
    LET all == Binom(m.deckSize, Observed(context))
        base == MapThenSumSet(LAMBDA n : pass.starts[n], DOMAIN pass.starts \ {0})
    IN <<base * all - StartWeight(OneLess(m, c), context) * pass.outcomes,
         pass.outcomes * all>>

ComputeAll(m) ==
    LET passes == [x \in Contexts |-> ComputePass(m, x)]
    IN [passes |-> passes,
        deltas |-> [c \in Types(m) |-> [x \in Contexts |->
                      IF passes[x].available THEN Delta(m, x, passes[x], c) ELSE <<0, 1>>]]]

---------------------------------------------------------------------------
(* Queries (query.ts) and notes (hand.ts).                                 *)

\* A sum with a missing term, NaN in the program, fails every comparison.
NotANumber == -1

\* groupAggregate over the signatures of the pass, the values of the outcome.
GroupAggregate(ids, out, sigs) ==
    LET chosen == {i \in DOMAIN sigs : sigs[i] \cap ids # {}}
        kept(unit) == [unit EXCEPT !.members =
            [x \in {y \in DOMAIN unit.members : y.sig \in chosen} |-> unit.members[x]]]
    IN IF chosen \subseteq DOMAIN out.contrib
       THEN MapThenSumSet(LAMBDA i : out.contrib[i], chosen)
            + MapThenSumSet(LAMBDA g : CappedPotential(kept(out.capped[g])), DOMAIN out.capped)
       ELSE NotANumber

SubjectValue(subject, out, sigs) ==
    CASE subject.kind = "starts" -> out.starts
      [] subject.kind = "redundancy" -> out.redundancy
      [] subject.kind = "nonengine" -> out.nonEngine
      [] subject.kind = "group" -> GroupAggregate(subject.labels, out, sigs)

CriterionInvalid(q) == q.min # None /\ q.max # None /\ q.min > q.max

CriterionMatches(q, value) ==
    \/ value = NotANumber
    \/ /\ q.min # None => value >= q.min
       /\ q.max # None => value <= q.max

QueryMatches(criteria, out, sigs) ==
    \A q \in criteria : CriterionMatches(q, SubjectValue(q.subject, out, sigs))

\* queryProbability, as a weight over the outcomes of the pass.
QueryWeight(pass, criteria) ==
    IF ~pass.available \/ \E q \in criteria : CriterionInvalid(q) THEN None
    ELSE MapThenSumSet(LAMBDA b : pass.buckets[b],
            {b \in DOMAIN pass.buckets : QueryMatches(criteria, b, pass.signatures)})

HandScore(starts, nonEngine, importance) == starts * 100 + importance * nonEngine

\* Ten times the share of the hands below, half of the equal ones, rounded.
Rounded(num, den) == (2 * num + den) \div (2 * den)
Note(pass, starts, nonEngine, importance) ==
    LET score == HandScore(starts, nonEngine, importance)
        weigh(S) == MapThenSumSet(LAMBDA b : pass.buckets[b], S)
        of(b) == HandScore(b.starts, b.nonEngine, importance)
        below == weigh({b \in DOMAIN pass.buckets : of(b) < score})
        equal == weigh({b \in DOMAIN pass.buckets : of(b) = score})
    IN Max({0, Min({10, Rounded(10 * (2 * below + equal), 2 * pass.outcomes)})})

---------------------------------------------------------------------------
(* The comparison of two decks (compare.ts): cells are weights over the    *)
(* outcomes of their pass, equalities compare fractions.                   *)

StarterCount(m, context) ==
    MapThenSumSet(LAMBDA c : m.copies[c], m.starters \ m.dead[context])
NonEngineCount(m) ==
    MapThenSumSet(LAMBDA c : m.copies[c], {c \in Types(m) : m.profile[c] # None})

Rows == 0..LastStart
Columns == 0..LastColumn

\* toComparisonMatrix: the columns beyond the last are added to it.
Matrix(m, context, pass) ==
    [size |-> pass.deckSize, outcomes |-> pass.outcomes,
     starters |-> StarterCount(m, context), nonEngine |-> NonEngineCount(m),
     cells |-> [i \in Rows |-> [j \in Columns |->
        MapThenSumSet(LAMBDA v : pass.cross[v],
            {v \in DOMAIN pass.cross : v[1] = i /\ Min({v[2], LastColumn}) = j})]]]

TailSum(cells, i0, j0) ==
    MapThenSumSet(LAMBDA x : cells[x[1]][x[2]], (i0..LastStart) \X (j0..LastColumn))

RowMargin(cells, i) == MapThenSumSet(LAMBDA j : cells[i][j], Columns)
ColumnMargin(cells, j) == MapThenSumSet(LAMBDA i : cells[i][j], Rows)

Aggregates(cells) ==
    [brick |-> RowMargin(cells, 0),
     starts |-> [i \in 1..LastStart |-> TailSum(cells, i, 0)],
     noNonEngine |-> ColumnMargin(cells, 0),
     nonEngine |-> [j \in 1..LastColumn |-> TailSum(cells, 0, j)],
     playable |-> TailSum(cells, 1, 1),
     strong |-> TailSum(cells, 2, 2),
     meanStarts |-> MapThenSumSet(LAMBDA i : i * RowMargin(cells, i), Rows),
     meanNonEngine |-> MapThenSumSet(LAMBDA j : j * ColumnMargin(cells, j), Columns)]

SameFraction(x, n, y, d) == x * d = y * n

\* compareDecks for one scenario.
Comparison(A, B) ==
    LET marginsEqual == \A i \in Rows : SameFraction(RowMargin(A.cells, i), A.outcomes,
                                                     RowMargin(B.cells, i), B.outcomes)
    IN [aggregates |-> <<Aggregates(A.cells), Aggregates(B.cells)>>,
        sums |-> <<TailSum(A.cells, 0, 0) = A.outcomes, TailSum(B.cells, 0, 0) = B.outcomes>>,
        marginsEqual |-> marginsEqual,
        marginsDifferSameS |-> /\ ~marginsEqual
                               /\ A.starters = B.starters /\ A.size = B.size
                               /\ A.starters > 0,
        equalCells |-> \A i \in Rows, j \in Columns :
            SameFraction(A.cells[i][j], A.outcomes, B.cells[i][j], B.outcomes)]
===========================================================================
