--------------------------- MODULE Configurations ---------------------------
(***************************************************************************)
(* A stored deck (the rows deckRepository.ts reads and writes) and what    *)
(* the server demands of one (domain/deckConfiguration.ts), down to what   *)
(* tells two decks apart: which cards, how many, in which relation.  A     *)
(* name, a note, an importance is left out; a condition keeps the cards of *)
(* its leaves, in order, and not the operators between them.               *)
(***************************************************************************)
EXTENDS Integers, Sequences, FiniteSets, FiniteSetsExt

CONSTANTS Cards,      \* passcodes
          PairIds,    \* identities of pairs within a deck
          Plans,      \* side plans: an opponent and a position
          CategoryIds,
          Null        \* absence of a value

ASSUME ConfigurationAssumption ==
    Cards \subseteq Nat /\ IsFiniteSet(Cards) /\ PairIds \subseteq Nat /\ Null \notin Cards \cup PairIds

MaxCopies == 3
Zones == {"main", "extra", "side"}
Directions == {"out", "in"}

List == [Cards -> Nat]
Pair == [id : PairIds, a : Cards, b : Cards, disabled : BOOLEAN]
Condition == [card : Cards \cup {Null}, pair : PairIds \cup {Null}, leaves : Seq(Cards)]
Configuration == [cards : [Zones -> List], starters : SUBSET Cards, pairs : SUBSET Pair,
                  conditions : SUBSET Condition, dead : SUBSET (Cards \X {"first", "second"}),
                  plans : [Plans -> [Directions -> List]], queries : SUBSET CategoryIds]

NoCards == [c \in Cards |-> 0]

\* emptyConfiguration
Empty == [cards |-> [z \in Zones |-> NoCards], starters |-> {}, pairs |-> {}, conditions |-> {},
          dead |-> {}, plans |-> [p \in Plans |-> [d \in Directions |-> NoCards]], queries |-> {}]

---------------------------------------------------------------------------
(* What a configuration says of a card, and what makes it acceptable *)
Of(list) == {c \in Cards : list[c] > 0}
CopiesOf(list, cards) == UNION {{c} \X (1..list[c]) : c \in cards}
PairsOf(deck) == {p.id : p \in deck.pairs}
Leaves(condition) == {condition.leaves[i] : i \in DOMAIN condition.leaves}

\* The places of a passcode, as buildDeckJson and the REFS of prune-stale-cards list them.
Mentions(deck) ==
    (UNION {Of(deck.cards[z]) : z \in Zones})
    \cup deck.starters \cup {x[1] : x \in deck.dead}
    \cup (UNION {{p.a, p.b} : p \in deck.pairs})
    \cup (UNION {Leaves(k) : k \in deck.conditions})
    \cup ({k.card : k \in deck.conditions} \ {Null})
    \cup (UNION {Of(deck.plans[p][d]) : p \in Plans, d \in Directions})

AcceptableCards(deck) == \A z \in Zones, c \in Cards : deck.cards[z][c] <= MaxCopies

\* Canonical order, one identity and one row per couple of cards.
AcceptablePairs(deck) ==
    /\ \A p \in deck.pairs : p.a < p.b
    /\ \A p, q \in deck.pairs : p # q => p.id # q.id /\ <<p.a, p.b>> # <<q.a, q.b>>

\* validateCondition
WellFormed(condition) == condition.leaves # <<>>

\* One source each, a card or a pair of this deck; one condition per source; no empty group.
AcceptableConditions(deck) ==
    /\ \A k \in deck.conditions :
           /\ (k.card = Null) # (k.pair = Null)
           /\ k.pair # Null => k.pair \in PairsOf(deck)
           /\ WellFormed(k)
    /\ \A k, l \in deck.conditions : k # l => <<k.card, k.pair>> # <<l.card, l.pair>>

\* validateMatchups, sidePlanCards
AcceptablePlans(deck) ==
    \A p \in Plans :
        /\ \A d \in Directions, c \in Cards : deck.plans[p][d][c] <= MaxCopies
        /\ Of(deck.plans[p]["in"]) \cap Of(deck.plans[p]["out"]) = {}

\* parseConfiguration
Acceptable(deck) ==
    /\ AcceptableCards(deck)
    /\ AcceptablePairs(deck)
    /\ AcceptableConditions(deck)
    /\ AcceptablePlans(deck)

\* remapCategoryReferences: refused when a query names a category that is not there.
Resolves(deck, known) == deck.queries \subseteq known
Remapped(deck, mapping) == [deck EXCEPT !.queries = {mapping[q] : q \in @}]

---------------------------------------------------------------------------
(* writeConfiguration: every table is replaced but deck_combo_pairs, whose *)
(* rows keep the cards they have when their identity stays.                *)
KeptCards(stored, pair) ==
    IF pair.id \in PairsOf(stored)
    THEN LET row == CHOOSE p \in stored.pairs : p.id = pair.id
         IN [row EXCEPT !.disabled = pair.disabled]
    ELSE pair
Written(stored, deck) == [deck EXCEPT !.pairs = {KeptCards(stored, p) : p \in @}]

\* What PUT /:id requires of the pairs before it writes.
KeepsPairCards(stored, deck) ==
    \A p \in stored.pairs, q \in deck.pairs : p.id = q.id => p.a = q.a /\ p.b = q.b

\* unique (deck_id, card_a_id, card_b_id): the insertion of a row that repeats one fails.
Duplicates(deck) ==
    \E p, q \in deck.pairs : p # q /\ <<p.a, p.b>> = <<q.a, q.b>>

---------------------------------------------------------------------------
(* clampToConvention (lib/ydk.ts), of a list read from a file: three per   *)
(* zone, then three in all, taken from the side first, then the extra.     *)
AtMost(n, list) == [c \in Cards |-> Min({n, list[c]})]
InAll(cards, c) == cards["main"][c] + cards["extra"][c] + cards["side"][c]
TakenFrom(cards, zone) ==
    [cards EXCEPT ![zone] =
        [c \in Cards |-> LET excess == InAll(cards, c) - MaxCopies
                         IN IF excess > 0 THEN Max({0, @[c] - excess}) ELSE @[c]]]
Clamped(cards) ==
    TakenFrom(TakenFrom([z \in Zones |-> AtMost(MaxCopies, cards[z])], "side"), "extra")

\* overLimit, overTotal: what the dialog shows before it clamps.
Conventional(cards) == \A c \in Cards : InAll(cards, c) <= MaxCopies
=============================================================================
