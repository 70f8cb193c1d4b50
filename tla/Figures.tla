------------------------------ MODULE Figures -----------------------------
(***************************************************************************)
(* What the editor shows of the engine's answer: the distribution, the     *)
(* marginal contributions, the wall of hands noted and filtered by the     *)
(* query, the comparison with another deck.  The deck is edited meanwhile: *)
(* until the recomputation answers (module Recompute), the page holds the  *)
(* distribution of the deck before, marked stale, and the wall keeps its   *)
(* hands or draws new ones.                                                *)
(***************************************************************************)
EXTENDS Engine

O == INSTANCE Oracle WITH OpeningSize <- Opening, Nothing <- None

CONSTANTS Decks,         \* bound: decks the editor may hold (EngineModelSource)
          WallDecks,     \* bound: those whose hands are drawn, edited one into another
          Neutral,       \* a card without annotation, in no deck
          Importances,   \* bound: weights of the non-engine in the note
          Queries        \* bound: sets of criteria asked

ASSUME FiguresAssumption ==
    /\ WallDecks \subseteq Decks
    /\ \A s \in Decks : /\ Neutral \notin CardsOf(s)
                        /\ \A c \in ConditionsOf(s) \ {None} : WellFormed(c)

VARIABLES deck,        \* the configuration of the editor
          result,      \* the engine's last answer
          model,       \* the model it was computed from
          stale,       \* the deck has changed since
          context,     \* the position studied
          importance,
          hand,        \* rawHands: the cards of one hand of the wall, and the sixth
          noted,       \* what the wall shows of it
          verdict      \* the comparison shown, and the deck compared with

vars == <<deck, result, model, stale, context, importance, hand, noted, verdict>>

---------------------------------------------------------------------------
\* evaluateHands, then the scorer of the pass on screen (noteHandsFromStore).
EvaluateHand(m, x, h) ==
    LET k == [c \in Types(m) |-> IF c \in DOMAIN h.cards THEN h.cards[c] ELSE 0]
        sixth == IF x = "second" /\ h.last \in Types(m) THEN h.last ELSE None
    IN Evaluate(m, x, k, sixth)

Noted(s, x, i, res, h) ==
    IF h = None \/ res = None THEN None
    ELSE IF ~res.passes[x].available THEN None
    ELSE LET m == BuildModel(s)
             out == EvaluateHand(m, x, h)
         IN [out |-> out, signatures |-> Signatures(m),
             note |-> Note(res.passes[x], out.starts, out.nonEngine, i)]

\* drawHands: any hand of the deck, of the size of the position; the order of
\* the draw matters for the sixth card only.
Drawn(s, x) ==
    LET held == {f \in [CardsOf(s) -> 0..MaxCopies] :
                    /\ \A c \in CardsOf(s) : f[c] <= CopiesOf(s, c)
                    /\ Total(f) = Observed(x)}
    IN IF x = "first" THEN [cards : held, last : {None}]
       ELSE {h \in [cards : held, last : CardsOf(s)] : h.cards[h.last] > 0}

\* The wall: what it shows is recomputed when the hands, the position, the
\* pass, the composition or the importance change.
Show(s, x, i, res, h) == hand' = h /\ noted' = Noted(s, x, i, res, h)

\* A wall without hands stays empty; another composition draws new ones.
Resample(s, x, i, res) ==
    IF hand = None \/ Drawn(s, x) = {} THEN Show(s, x, i, res, None)
    ELSE \E h \in Drawn(s, x) : Show(s, x, i, res, h)

---------------------------------------------------------------------------
Init ==
    /\ deck \in Decks
    /\ result = None /\ model = None /\ stale = FALSE
    /\ context = "first"
    /\ importance \in Importances
    /\ hand = None /\ noted = None
    /\ verdict = None
    /\ deck \notin WallDecks => importance = CHOOSE i \in Importances : TRUE

\* The answer of the engine for the deck of the editor.
Compute ==
    /\ result = None \/ stale
    /\ result' = ComputeAll(BuildModel(deck))
    /\ model' = BuildModel(deck)
    /\ stale' = FALSE
    /\ Show(deck, context, importance, result', hand)
    /\ verdict' = None
    /\ UNCHANGED <<deck, context, importance>>

\* An edit of the composition draws new hands; an annotation leaves the wall
\* as it is, and the distribution too when the model is the same.
Edit ==
    /\ deck \in WallDecks /\ result # None
    /\ \E s \in WallDecks \ {deck} :
        /\ deck' = s
        /\ IF s.main # deck.main
           THEN stale' = TRUE /\ Resample(s, context, importance, result)
           ELSE /\ stale' = (stale \/ BuildModel(s) # model)
                /\ UNCHANGED <<hand, noted>>
    /\ verdict' = None
    /\ UNCHANGED <<result, model, context, importance>>

Draw ==
    /\ deck \in WallDecks /\ result # None
    /\ \E h \in Drawn(deck, context) : Show(deck, context, importance, result, h)
    /\ UNCHANGED <<deck, result, model, stale, context, importance, verdict>>

SetContext ==
    /\ deck \in WallDecks /\ result # None
    /\ context' \in Contexts \ {context}
    /\ Resample(deck, context', importance, result)
    /\ UNCHANGED <<deck, result, model, stale, importance, verdict>>

SetImportance ==
    /\ hand # None
    /\ importance' \in Importances \ {importance}
    /\ Show(deck, context, importance', result, hand)
    /\ UNCHANGED <<deck, result, model, stale, context, verdict>>

\* comparisonDeckOf: both decks are computed again, refused when a hand cannot
\* be drawn.
Compare ==
    /\ deck \in WallDecks /\ hand = None /\ ~stale /\ result # None
    /\ \E s \in WallDecks :
        LET a == BuildModel(deck)
            b == BuildModel(s)
        IN /\ \A x \in Contexts : Available(a, x) /\ Available(b, x)
           /\ verdict' = [deck |-> s,
                of |-> [x \in Contexts |->
                    Comparison(Matrix(a, x, ComputePass(a, x)), Matrix(b, x, ComputePass(b, x)))]]
    /\ UNCHANGED <<deck, result, model, stale, context, importance, hand, noted>>

Next == Compute \/ Edit \/ Draw \/ SetContext \/ SetImportance \/ Compare

Spec == Init /\ [][Next]_vars

---------------------------------------------------------------------------
(* What is shown, when it is not marked stale, against the rules.          *)

Fresh == result # None /\ ~stale
LabelSets == (SUBSET Labels) \ {{}}

\* A query, asked of a hand of the reference.
OracleValue(subject, w) ==
    CASE subject.kind = "starts" -> w.starts
      [] subject.kind = "redundancy" -> w.redundancy
      [] subject.kind = "nonengine" -> w.nonEngine
      [] subject.kind = "group" -> w.of[subject.labels]

OracleMatches(criteria, w) ==
    \A q \in criteria : /\ q.min # None => OracleValue(q.subject, w) >= q.min
                        /\ q.max # None => OracleValue(q.subject, w) <= q.max

Valid(criteria) == \A q \in criteria : ~CriterionInvalid(q)

\* A bucket, and a hand of the reference, by what a query can ask of them.
AskedOfBucket(pass, b) ==
    [starts |-> b.starts, redundancy |-> b.redundancy, nonEngine |-> b.nonEngine,
     of |-> [ids \in LabelSets |-> GroupAggregate(ids, b, pass.signatures)]]
Asked(w) == [starts |-> w.starts, redundancy |-> w.redundancy,
             nonEngine |-> w.nonEngine, of |-> w.of]

\* One statistic of the pass is the exact count of the hands.
SameCounts(weights, counts) ==
    /\ DOMAIN weights = DOMAIN counts
    /\ \A v \in DOMAIN counts : weights[v] = counts[v]

\* The engine's buckets are the hands counted one by one: for each value a
\* query can ask together (starts, redundancy, potential, potential of each
\* set of labels) the weight is the number of physical hands having it, and so
\* are the copies of each label, the matrix and the answer to a query.  It is about the compositions,
\* the sixth card drawn among copies that do not matter, the minimum cut and
\* the buckets merged by signature.
DistributionIsExact ==
    Fresh /\ hand = None /\ verdict = None =>
        \A x \in Contexts : result.passes[x].available =>
            LET pass == result.passes[x]
                exact == O!Exact(deck, x, LabelSets)
                visited == {[weight |-> pass.buckets[b], asked |-> AskedOfBucket(pass, b)] @@ [b |-> b]
                              : b \in DOMAIN pass.buckets}
            IN /\ pass.outcomes = Cardinality(O!PhysicalHands(deck, x))
               /\ SameCounts(WeightOf(LAMBDA v : v.asked, visited), O!OracleTally(Asked, exact))
               /\ SameCounts(pass.cross,
                    O!OracleTally(LAMBDA w : <<Min({w.starts, LastStart}), w.nonEngine>>, exact))
               /\ \A l \in deck.categories :
                    SameCounts(pass.raw[l], O!OracleTally(LAMBDA w : w.raw[l], exact))
               /\ \A criteria \in Queries :
                    QueryWeight(pass, criteria) =
                        IF Valid(criteria)
                        THEN O!OracleCount(LAMBDA w : OracleMatches(criteria, w), exact)
                        ELSE None

\* The marginal contribution of a card is the difference between the deck and
\* the deck where one physical copy is replaced by a card nothing is said of,
\* computed by a predicate without matching and a model with one copy less.
MarginalsAreExact ==
    Fresh /\ hand = None /\ verdict = None =>
        \A x \in Contexts : result.passes[x].available =>
            LET starting(s) == O!OracleCount(LAMBDA w : w.starts >= 1, O!Exact(s, x, {}))
                all == Cardinality(O!PhysicalHands(deck, x))
                base == starting(deck)
            IN \A c \in DOMAIN result.deltas :
                LET delta == result.deltas[c][x]
                IN SameFraction(delta[1], delta[2],
                                base - starting(O!OneCopyReplaced(deck, c, Neutral)), all)

\* The hand of the wall as physical copies.
Copies(h, x) ==
    LET held == UNION {{<<c, n>> : n \in 1..h.cards[c]} : c \in DOMAIN h.cards}
        sixth == IF x = "second" THEN {<<h.last, h.cards[h.last]>>} ELSE {}
    IN [opening |-> held \ sixth, sixth |-> sixth]

\* On a wall whose figures are not marked stale, each hand is judged as the
\* rules judge its cards, its note is its exact rank among the hands the deck
\* opens, and the query keeps it exactly when the probability beside counts it,
\* whatever edits, new draws and renotings it went through.
WallIsExact ==
    Fresh /\ noted # None =>
        LET pass == result.passes[context]
            worth == O!OracleHand(deck, context, Copies(hand, context), LabelSets)
            exact == O!Exact(deck, context, {})
            rank(w) == w.starts * 100 + importance * w.nonEngine
            below == O!OracleCount(LAMBDA w : rank(w) < rank(worth), exact)
            equal == O!OracleCount(LAMBDA w : rank(w) = rank(worth), exact)
            all == Cardinality(O!PhysicalHands(deck, context))
        IN /\ noted.out.starts = worth.starts
           /\ noted.out.redundancy = worth.redundancy
           /\ noted.out.nonEngine = worth.nonEngine
           /\ 4 * all * noted.note \in
                (20 * (2 * below + equal) - 2 * all + 1)..(20 * (2 * below + equal) + 2 * all)
           /\ \A criteria \in Queries : Valid(criteria) =>
                QueryMatches(criteria, noted.out, pass.signatures) = OracleMatches(criteria, worth)

\* A comparison says of each deck what its hands say: the zones of the matrix
\* are counts of hands, "identical" and "same distribution of starts" are said
\* exactly when no hand of the rules tells the decks apart.
ComparisonIsExact ==
    verdict # None =>
        \A x \in Contexts :
            LET both == <<deck, verdict.deck>>
                exact == [i \in 1..2 |-> O!Exact(both[i], x, {})]
                all == [i \in 1..2 |-> Cardinality(O!PhysicalHands(both[i], x))]
                count(P(_), i) == O!OracleCount(P, exact[i])
                of == verdict.of[x]
                same(P(_)) == SameFraction(count(P, 1), all[1], count(P, 2), all[2])
            IN /\ of.sums = <<TRUE, TRUE>>
               /\ \A i \in 1..2 :
                    /\ of.aggregates[i].brick = count(LAMBDA w : w.starts = 0, i)
                    /\ of.aggregates[i].starts[2] = count(LAMBDA w : w.starts >= 2, i)
                    /\ of.aggregates[i].nonEngine[LastColumn] =
                         count(LAMBDA w : w.nonEngine >= LastColumn, i)
                    /\ of.aggregates[i].playable =
                         count(LAMBDA w : w.starts >= 1 /\ w.nonEngine >= 1, i)
               /\ of.marginsEqual =
                    (\A n \in Rows : same(LAMBDA w : Min({w.starts, LastStart}) = n))
               /\ of.equalCells =
                    (\A n \in Rows, j \in Columns :
                        same(LAMBDA w : /\ Min({w.starts, LastStart}) = n
                                        /\ Min({w.nonEngine, LastColumn}) = j))

\* Every probability told of a deck, of a deck with one copy less, and of two decks.
FiguresAreExact == DistributionIsExact /\ MarginalsAreExact /\ ComparisonIsExact /\ WallIsExact
===========================================================================
