---------------------------- MODULE Decks_proofs -----------------------------
(***************************************************************************)
(* Proofs about the decks an account keeps.                                *)
(*                                                                         *)
(* Their routes and the script that carries passcodes over (Archive): what *)
(* is stored is always what the server would accept, an import adds to the *)
(* library, what is exported comes back, and the script does nothing but   *)
(* rename, for any catalogue, cards, decks, archives, texts and pages.     *)
(*                                                                         *)
(* Saving a deck (DeckSave), for any pages, configurations, revisions,     *)
(* openings and edits.  These suppose that the user does not save while    *)
(* the deck is being opened again: with SaveWhileLoading a save asked from *)
(* one content is answered on the next, and the page loses track.          *)
(***************************************************************************)
EXTENDS DeckSave, Archive, SequenceTheorems, FiniteSetTheorems, TLAPS

(***************************************************************************)
(* The decks on the server                                                 *)
(***************************************************************************)

LEMMA LesserOfTwo ==
    ASSUME NEW a \in Int, NEW b \in Int
    PROVE  Min({a, b}) = (IF a <= b THEN a ELSE b) /\ Max({a, b}) = (IF a <= b THEN b ELSE a)
<1>1. \E x \in {a, b} : \A y \in {a, b} : x <= y
  <2>1. CASE a <= b BY <2>1
  <2>2. CASE b <= a BY <2>2
  <2>3. QED BY <2>1, <2>2
<1>2. Min({a, b}) \in {a, b} /\ \A y \in {a, b} : Min({a, b}) <= y
  BY <1>1 DEF Min
<1>3. \E x \in {a, b} : \A y \in {a, b} : x >= y
  <2>1. CASE a <= b BY <2>1
  <2>2. CASE b <= a BY <2>2
  <2>3. QED BY <2>1, <2>2
<1>4. Max({a, b}) \in {a, b} /\ \A y \in {a, b} : Max({a, b}) >= y
  BY <1>3 DEF Max
<1>5. QED BY <1>2, <1>4

(***************************************************************************)
(* A passcode is carried over                                              *)
(***************************************************************************)

LEMMA CardsAreNumbers == \A c \in Cards : c \in Int
BY ConfigurationAssumption

LEMMA RenamedCard ==
    ASSUME NEW o \in Cards, NEW n \in Cards, NEW c \in Cards
    PROVE  Renamed(o, n, c) \in Cards /\ Renamed(o, n, c) \in Int
BY CardsAreNumbers DEF Renamed

\* Copies are added up to three.
LEMMA AddedList ==
    ASSUME NEW o \in Cards, NEW n \in Cards, o # n, NEW list \in List
    PROVE  /\ Added(o, n, list) \in List
           /\ \A c \in Cards : list[c] <= MaxCopies => Added(o, n, list)[c] <= MaxCopies
           /\ Added(o, n, list)[o] = 0
           /\ Added(o, n, list)[n] = Min({MaxCopies, list[n] + list[o]})
           /\ \A c \in Cards \ {o, n} : Added(o, n, list)[c] = list[c]
<1>1. list[n] + list[o] \in Nat /\ MaxCopies \in Nat
  BY DEF List, MaxCopies
<1>2. Min({MaxCopies, list[n] + list[o]}) = IF MaxCopies <= list[n] + list[o] THEN MaxCopies ELSE list[n] + list[o]
  BY <1>1, LesserOfTwo
<1>3. /\ Min({MaxCopies, list[n] + list[o]}) \in Nat
      /\ Min({MaxCopies, list[n] + list[o]}) <= MaxCopies
  BY <1>1, <1>2
<1> DEFINE both == Min({MaxCopies, list[n] + list[o]})
<1> HIDE DEF both
<1>4. \A c \in Cards : Added(o, n, list)[c] = IF c = o THEN 0 ELSE IF c = n THEN both ELSE list[c]
  <2> TAKE c \in Cards
  <2>1. CASE c = o
    BY <2>1 DEF Added
  <2>2. CASE c # o /\ c = n
    BY <2>2 DEF Added, both
  <2>3. CASE c # o /\ c # n
    BY <2>3 DEF Added
  <2>4. QED BY <2>1, <2>2, <2>3
<1>5. \A c \in Cards : Added(o, n, list)[c] \in Nat /\ (list[c] <= MaxCopies => Added(o, n, list)[c] <= MaxCopies)
  <2> TAKE c \in Cards
  <2>1. CASE c = o
    BY <2>1, <1>4, <1>1 DEF MaxCopies
  <2>2. CASE c # o /\ c = n
    BY <2>2, <1>4, <1>3 DEF both
  <2>3. CASE c # o /\ c # n
    BY <2>3, <1>4 DEF List
  <2>4. QED BY <2>1, <2>2, <2>3
<1>6. Added(o, n, list) \in List
  BY <1>5 DEF Added, List
<1>7. QED
  BY <1>4, <1>5, <1>6 DEF both

\* The row of a pair keeps its identity and its canonical order.
LEMMA FinalPair ==
    ASSUME NEW o \in Cards, NEW n \in Cards, o # n, NEW p \in Pair, p.a < p.b, ~Degenerate(o, n, p)
    PROVE  /\ Final(o, n, p) \in Pair
           /\ Final(o, n, p).id = p.id
           /\ Final(o, n, p).a < Final(o, n, p).b
           /\ {Final(o, n, p).a, Final(o, n, p).b} = {Renamed(o, n, p.a), Renamed(o, n, p.b)}
           /\ ~Concerned(o, n, p) => Final(o, n, p) = p
<1> DEFINE a == Renamed(o, n, p.a)  b == Renamed(o, n, p.b)
<1>1. p.a \in Cards /\ p.b \in Cards /\ p.a \in Int /\ p.b \in Int
  <2>1. p.a \in Cards /\ p.b \in Cards
    BY DEF Pair
  <2>2. QED BY <2>1, CardsAreNumbers
<1>2. a \in Cards /\ b \in Cards /\ a \in Int /\ b \in Int
  BY <1>1, RenamedCard
<1>3. a # b
  BY <1>1 DEF Renamed, Degenerate
<1>4. Final(o, n, p) = [p EXCEPT !.a = Min({a, b}), !.b = Max({a, b})]
  BY DEF Final
<1>5. ~Concerned(o, n, p) => a = p.a /\ b = p.b
  BY DEF Concerned, Renamed
<1> HIDE DEF a, b
<1>6. Min({a, b}) = (IF a <= b THEN a ELSE b) /\ Max({a, b}) = (IF a <= b THEN b ELSE a)
  BY <1>2, LesserOfTwo
<1>7. Final(o, n, p) = [p EXCEPT !.a = IF a <= b THEN a ELSE b, !.b = IF a <= b THEN b ELSE a]
  BY <1>4, <1>6
<1>8. Final(o, n, p) \in Pair /\ Final(o, n, p).id = p.id
  BY <1>2, <1>7 DEF Pair
<1>9. Final(o, n, p).a = (IF a <= b THEN a ELSE b) /\ Final(o, n, p).b = (IF a <= b THEN b ELSE a)
  BY <1>7 DEF Pair
<1>10. ~Concerned(o, n, p) => Final(o, n, p) = p
  <2> HAVE ~Concerned(o, n, p)
  <2>1. a = p.a /\ b = p.b /\ a <= b
    BY <1>1, <1>5
  <2>2. QED
    BY <2>1, <1>7 DEF Pair
<1>11. QED
  BY <1>2, <1>3, <1>8, <1>9, <1>10 DEF a, b

LEMMA StandingPair ==
    ASSUME NEW o \in Cards, NEW n \in Cards, o # n,
           NEW deck \in Configuration, AcceptablePairs(deck), NEW p \in Standing(o, n, deck)
    PROVE  /\ p \in deck.pairs /\ p \in Pair /\ p.a < p.b /\ ~Degenerate(o, n, p)
           /\ p.a \in Cards /\ p.b \in Cards /\ p.a # p.b
<1>1. p \in deck.pairs /\ ~Degenerate(o, n, p) /\ p \in Pair
  BY DEF Standing, Configuration
<1>2. p.a < p.b
  BY <1>1 DEF AcceptablePairs
<1>3. p.a \in Cards /\ p.b \in Cards
  BY <1>1 DEF Pair
<1>4. p.a # p.b
  BY <1>2, <1>3, CardsAreNumbers
<1>5. QED
  BY <1>1, <1>2, <1>3, <1>4

\* Two pairs that a report makes one: only one of them names the orphan.
LEMMA OneOfTwo ==
    ASSUME NEW o \in Cards, NEW n \in Cards, o # n,
           NEW deck \in Configuration, AcceptablePairs(deck),
           NEW p \in Standing(o, n, deck), NEW q \in Standing(o, n, deck),
           SameCards(Final(o, n, p), Final(o, n, q)), Concerned(o, n, p) <=> Concerned(o, n, q)
    PROVE  p = q
<1>1. /\ p \in deck.pairs /\ p \in Pair /\ p.a < p.b /\ ~Degenerate(o, n, p)
      /\ p.a \in Cards /\ p.b \in Cards /\ p.a # p.b
  BY StandingPair
<1>2. /\ q \in deck.pairs /\ q \in Pair /\ q.a < q.b /\ ~Degenerate(o, n, q)
      /\ q.a \in Cards /\ q.b \in Cards /\ q.a # q.b
  BY StandingPair
<1>3. {Final(o, n, p).a, Final(o, n, p).b} = {Renamed(o, n, p.a), Renamed(o, n, p.b)}
  BY <1>1, FinalPair
<1>4. {Final(o, n, q).a, Final(o, n, q).b} = {Renamed(o, n, q.a), Renamed(o, n, q.b)}
  BY <1>2, FinalPair
<1>5. {Renamed(o, n, p.a), Renamed(o, n, p.b)} = {Renamed(o, n, q.a), Renamed(o, n, q.b)}
  BY <1>3, <1>4 DEF SameCards
<1>6. {p.a, p.b} = {q.a, q.b}
  <2>1. CASE ~Concerned(o, n, p)
    <3>1. o \notin {p.a, p.b} /\ o \notin {q.a, q.b}
      BY <2>1 DEF Concerned
    <3>2. QED BY <1>5, <3>1 DEF Renamed
  <2>2. CASE Concerned(o, n, p)
    <3>1. o \in {p.a, p.b} /\ o \in {q.a, q.b}
      BY <2>2 DEF Concerned
    <3>2. PICK x \in Cards : {p.a, p.b} = {o, x} /\ x # o
      BY <1>1, <3>1
    <3>3. PICK y \in Cards : {q.a, q.b} = {o, y} /\ y # o
      BY <1>2, <3>1
    <3>4. x # n /\ y # n
      BY <1>1, <1>2, <3>2, <3>3 DEF Degenerate
    <3>5. {Renamed(o, n, p.a), Renamed(o, n, p.b)} = {n, x}
      BY <1>1, <3>2 DEF Renamed
    <3>6. {Renamed(o, n, q.a), Renamed(o, n, q.b)} = {n, y}
      BY <1>2, <3>3 DEF Renamed
    <3>7. x = y
      BY <1>5, <3>4, <3>5, <3>6
    <3>8. QED BY <3>2, <3>3, <3>7
  <2>3. QED BY <2>1, <2>2
<1>7. p.a = q.a /\ p.b = q.b
  BY <1>1, <1>2, <1>6, CardsAreNumbers
<1>8. QED
  BY <1>1, <1>2, <1>7 DEF AcceptablePairs

\* A loser names the orphan, its winner does not and stays; it wins over one pair.
LEMMA LosersAndWinners ==
    ASSUME NEW o \in Cards, NEW n \in Cards, o # n, NEW deck \in Configuration, AcceptablePairs(deck)
    PROVE  /\ \A p \in Losers(o, n, deck) :
                  /\ p \in Standing(o, n, deck) /\ Concerned(o, n, p) /\ Winner(o, n, deck, p) # {}
                  /\ \A q \in Winner(o, n, deck, p) :
                         /\ q \in Standing(o, n, deck) \ Losers(o, n, deck)
                         /\ SameCards(Final(o, n, p), Final(o, n, q)) /\ Final(o, n, q) = q
           /\ \A p, r \in Losers(o, n, deck) :
                  Winner(o, n, deck, p) \cap Winner(o, n, deck, r) # {} => p = r
           /\ \A p, q \in Standing(o, n, deck) \ Losers(o, n, deck) :
                  p # q => ~SameCards(Final(o, n, p), Final(o, n, q))
<1>1. ASSUME NEW p \in Losers(o, n, deck)
      PROVE  p \in Standing(o, n, deck) /\ Concerned(o, n, p) /\ Winner(o, n, deck, p) # {}
  BY DEF Losers, Winner
<1>2. ASSUME NEW p \in Losers(o, n, deck), NEW q \in Winner(o, n, deck, p)
      PROVE  /\ q \in Standing(o, n, deck) \ Losers(o, n, deck)
             /\ SameCards(Final(o, n, p), Final(o, n, q)) /\ Final(o, n, q) = q
  <2>1. /\ p \in Standing(o, n, deck) /\ q \in Standing(o, n, deck) /\ q # p
        /\ Concerned(o, n, p) /\ SameCards(Final(o, n, p), Final(o, n, q))
    BY <1>1 DEF Winner
  <2>2. ~Concerned(o, n, q)
    BY <2>1, OneOfTwo
  <2>3. q \notin Losers(o, n, deck)
    BY <1>1, <2>2
  <2>4. Final(o, n, q) = q
    <3>1. q \in Pair /\ q.a < q.b /\ ~Degenerate(o, n, q)
      BY <2>1, StandingPair
    <3>2. QED BY <2>2, <3>1, FinalPair
  <2>5. QED BY <2>1, <2>3, <2>4
<1>3. ASSUME NEW p \in Losers(o, n, deck), NEW r \in Losers(o, n, deck),
             NEW q \in Winner(o, n, deck, p), q \in Winner(o, n, deck, r)
      PROVE  p = r
  <2>1. /\ p \in Standing(o, n, deck) /\ Concerned(o, n, p)
        /\ r \in Standing(o, n, deck) /\ Concerned(o, n, r)
    BY <1>1
  <2>2. SameCards(Final(o, n, p), Final(o, n, q)) /\ SameCards(Final(o, n, r), Final(o, n, q))
    BY <1>2, <1>3
  <2>3. SameCards(Final(o, n, p), Final(o, n, r))
    BY <2>2 DEF SameCards
  <2>4. QED BY <2>1, <2>3, OneOfTwo
<1>4. ASSUME NEW p \in Standing(o, n, deck), NEW q \in Standing(o, n, deck),
             p \notin Losers(o, n, deck), q \notin Losers(o, n, deck), p # q,
             SameCards(Final(o, n, p), Final(o, n, q))
      PROVE  FALSE
  <2>1. SameCards(Final(o, n, q), Final(o, n, p))
    BY <1>4 DEF SameCards
  <2>2. ~Concerned(o, n, p)
    BY <1>4 DEF Losers, Winner
  <2>3. ~Concerned(o, n, q)
    BY <1>4, <2>1 DEF Losers, Winner
  <2>4. QED
    BY <1>4, <2>2, <2>3, OneOfTwo
<1>5. QED
  BY <1>1, <1>2, <1>3, <1>4

\* The pairs left have a row each.
LEMMA PairsLeft ==
    ASSUME NEW o \in Cards, NEW n \in Cards, o # n, NEW deck \in Configuration, AcceptablePairs(deck)
    PROVE  /\ Pairs(o, n, deck) \subseteq Pair
           /\ \A p \in Pairs(o, n, deck) : p.a < p.b
           /\ \A p, q \in Pairs(o, n, deck) : p # q => p.id # q.id /\ <<p.a, p.b>> # <<q.a, q.b>>
           /\ {p.id : p \in Pairs(o, n, deck)} = {p.id : p \in Standing(o, n, deck) \ Losers(o, n, deck)}
<1> DEFINE S == Standing(o, n, deck) \ Losers(o, n, deck)
<1>1. \A p \in S : Final(o, n, p) \in Pair /\ Final(o, n, p).id = p.id /\ Final(o, n, p).a < Final(o, n, p).b
  <2> TAKE p \in S
  <2>1. p \in Pair /\ p.a < p.b /\ ~Degenerate(o, n, p)
    BY StandingPair
  <2>2. QED BY <2>1, FinalPair
<1>2. \A p, q \in S : p # q => p.id # q.id /\ ~SameCards(Final(o, n, p), Final(o, n, q))
  <2> SUFFICES ASSUME NEW p \in S, NEW q \in S, p # q
               PROVE  p.id # q.id /\ ~SameCards(Final(o, n, p), Final(o, n, q))
    OBVIOUS
  <2>1. p \in deck.pairs /\ q \in deck.pairs
    BY DEF Standing
  <2>2. p.id # q.id
    BY <2>1 DEF AcceptablePairs
  <2>3. QED
    BY <2>2, LosersAndWinners
<1>3. Pairs(o, n, deck) = {Final(o, n, p) : p \in S}
  BY DEF Pairs
<1> HIDE DEF S
<1>4. Pairs(o, n, deck) \subseteq Pair /\ \A p \in Pairs(o, n, deck) : p.a < p.b
  BY <1>1, <1>3
<1>5. \A p, q \in Pairs(o, n, deck) : p # q => p.id # q.id /\ <<p.a, p.b>> # <<q.a, q.b>>
  BY <1>1, <1>2, <1>3 DEF SameCards
<1>6. {p.id : p \in Pairs(o, n, deck)} = {p.id : p \in S}
  BY <1>1, <1>3
<1>7. QED
  BY <1>4, <1>5, <1>6 DEF S

\* A condition on a pair follows it; that of a loser goes to its winner.
LEMMA SourceFollows ==
    ASSUME NEW o \in Cards, NEW n \in Cards, o # n, NEW deck \in Configuration, AcceptablePairs(deck),
           NEW k, NEW p \in Standing(o, n, deck), p.id = k.pair
    PROVE  \E q \in Standing(o, n, deck) \ Losers(o, n, deck) :
               /\ Source(o, n, deck, k) = q.id
               /\ p \notin Losers(o, n, deck) => q = p
               /\ p \in Losers(o, n, deck) => q \in Winner(o, n, deck, p)
<1> DEFINE losing == {x \in Losers(o, n, deck) : x.id = k.pair}
<1>1. \A x \in losing : x = p
  <2> TAKE x \in losing
  <2>1. x \in deck.pairs /\ p \in deck.pairs /\ x.id = p.id
    BY LosersAndWinners, StandingPair
  <2>2. QED BY <2>1 DEF AcceptablePairs
<1>2. CASE p \notin Losers(o, n, deck)
  <2>1. losing = {}
    BY <1>1, <1>2
  <2>2. Source(o, n, deck, k) = p.id
    BY <2>1 DEF Source
  <2>3. QED BY <1>2, <2>2
<1>3. CASE p \in Losers(o, n, deck)
  <2>1. losing = {p}
    BY <1>1, <1>3
  <2>2. UNION {Winner(o, n, deck, x) : x \in losing} = Winner(o, n, deck, p)
    BY <2>1
  <2>3. losing # {}
    BY <2>1
  <2>4. Source(o, n, deck, k) = (CHOOSE q \in Winner(o, n, deck, p) : TRUE).id
    BY <2>2, <2>3 DEF Source
  <2>5. PICK q \in Winner(o, n, deck, p) : q = CHOOSE w \in Winner(o, n, deck, p) : TRUE
    <3>1. Winner(o, n, deck, p) # {}
      BY <1>3, LosersAndWinners
    <3>2. QED BY <3>1
  <2>6. q \in Standing(o, n, deck) \ Losers(o, n, deck)
    BY <1>3, LosersAndWinners
  <2>7. QED BY <1>3, <2>4, <2>5, <2>6
<1>4. QED
  BY <1>2, <1>3

LEMMA SourceOfCard ==
    ASSUME NEW o \in Cards, NEW n \in Cards, o # n, NEW deck \in Configuration, AcceptablePairs(deck),
           NEW k, k.pair = Null
    PROVE  Source(o, n, deck, k) = Null
<1>1. \A p \in Losers(o, n, deck) : p.id \in PairIds
  <2> TAKE p \in Losers(o, n, deck)
  <2>1. p \in Standing(o, n, deck) BY LosersAndWinners
  <2>2. p \in Pair BY <2>1, StandingPair
  <2>3. QED BY <2>2 DEF Pair
<1>2. Null \notin PairIds
  BY ConfigurationAssumption
<1>3. {p \in Losers(o, n, deck) : p.id = k.pair} = {}
  BY <1>1, <1>2
<1>4. QED
  BY <1>3 DEF Source

(***************************************************************************)
(* A report leaves a deck the server would accept                          *)
(***************************************************************************)

Unrefused(o, n, deck) ==
    ~MergesPairs(o, n, deck) /\ ~MergesCards(o, n, deck) /\ ~MergesDirections(o, n, deck)

Kept(o, n, deck) == {k \in deck.conditions : k.pair = Null \/ \E p \in Standing(o, n, deck) : p.id = k.pair}
Carried(o, n, deck, k) ==
    [card |-> Renamed(o, n, k.card), pair |-> Source(o, n, deck, k),
     leaves |-> RenamedLeaves(o, n, k.leaves)]

LEMMA ConditionFields ==
    ASSUME NEW deck \in Configuration, NEW k \in deck.conditions
    PROVE  /\ k \in Condition /\ k.card \in Cards \cup {Null} /\ k.pair \in PairIds \cup {Null}
           /\ k.leaves \in Seq(Cards) /\ k = [card |-> k.card, pair |-> k.pair, leaves |-> k.leaves]
<1>1. k \in Condition
  BY DEF Configuration
<1>2. QED
  BY <1>1 DEF Condition

LEMMA LeavesCarried ==
    ASSUME NEW o \in Cards, NEW n \in Cards, NEW leaves \in Seq(Cards)
    PROVE  /\ RenamedLeaves(o, n, leaves) \in Seq(Cards)
           /\ leaves # <<>> => RenamedLeaves(o, n, leaves) # <<>>
<1>1. RenamedLeaves(o, n, leaves) = [i \in 1..Len(leaves) |-> Renamed(o, n, leaves[i])]
  BY DEF RenamedLeaves
<1>2. \A i \in 1..Len(leaves) : Renamed(o, n, leaves[i]) \in Cards
  <2> TAKE i \in 1..Len(leaves)
  <2>1. leaves[i] \in Cards OBVIOUS
  <2>2. QED BY <2>1, RenamedCard
<1>3. Len(leaves) \in Nat
  OBVIOUS
<1>4. RenamedLeaves(o, n, leaves) \in Seq(Cards) /\ Len(RenamedLeaves(o, n, leaves)) = Len(leaves)
  BY <1>1, <1>2, <1>3
<1>5. QED
  BY <1>4

LEMMA ConditionsLeft ==
    ASSUME NEW o \in Cards, NEW n \in Cards, o # n, NEW deck \in Configuration, Acceptable(deck)
    PROVE  /\ Conditions(o, n, deck) = {Carried(o, n, deck, k) : k \in Kept(o, n, deck)}
           /\ Conditions(o, n, deck) \subseteq Condition
           /\ \A k \in Conditions(o, n, deck) :
                  /\ (k.card = Null) # (k.pair = Null)
                  /\ k.pair # Null => k.pair \in {p.id : p \in Pairs(o, n, deck)}
                  /\ WellFormed(k)
<1> USE DEF Acceptable
<1>1. Conditions(o, n, deck) = {Carried(o, n, deck, k) : k \in Kept(o, n, deck)}
  BY DEF Conditions, Carried, Kept
<1>2. ASSUME NEW k \in Kept(o, n, deck)
      PROVE  /\ Carried(o, n, deck, k) \in Condition
             /\ (Carried(o, n, deck, k).card = Null) # (Carried(o, n, deck, k).pair = Null)
             /\ Carried(o, n, deck, k).pair # Null =>
                    Carried(o, n, deck, k).pair \in {p.id : p \in Pairs(o, n, deck)}
             /\ WellFormed(Carried(o, n, deck, k))
  <2>1. k \in deck.conditions
    BY DEF Kept
  <2>2. /\ k.card \in Cards \cup {Null} /\ k.pair \in PairIds \cup {Null} /\ k.leaves \in Seq(Cards)
    BY <2>1, ConditionFields
  <2>3. (k.card = Null) # (k.pair = Null) /\ k.leaves # <<>>
    BY <2>1 DEF AcceptableConditions, WellFormed
  <2>4. /\ Renamed(o, n, k.card) \in Cards \cup {Null}
        /\ Renamed(o, n, k.card) = Null <=> k.card = Null
    BY <2>2, ConfigurationAssumption DEF Renamed
  <2>5. /\ Source(o, n, deck, k) \in PairIds \cup {Null}
        /\ Source(o, n, deck, k) = Null <=> k.pair = Null
        /\ k.pair # Null => Source(o, n, deck, k) \in {p.id : p \in Pairs(o, n, deck)}
    <3>1. CASE k.pair = Null
      BY <3>1, SourceOfCard
    <3>2. CASE k.pair # Null
      <4>1. PICK p \in Standing(o, n, deck) : p.id = k.pair
        BY <3>2 DEF Kept
      <4>2. PICK q \in Standing(o, n, deck) \ Losers(o, n, deck) : Source(o, n, deck, k) = q.id
        BY <4>1, SourceFollows
      <4>3. q.id \in PairIds
        BY StandingPair DEF Pair
      <4>4. q.id \in {x.id : x \in Pairs(o, n, deck)}
        BY PairsLeft
      <4>5. QED
        BY <3>2, <4>2, <4>3, <4>4, ConfigurationAssumption
    <3>3. QED BY <3>1, <3>2
  <2>6. /\ RenamedLeaves(o, n, k.leaves) \in Seq(Cards)
        /\ RenamedLeaves(o, n, k.leaves) # <<>>
    BY <2>2, <2>3, LeavesCarried
  <2>7. QED
    BY <2>3, <2>4, <2>5, <2>6 DEF Carried, Condition, WellFormed
<1>3. QED
  BY <1>1, <1>2

\* A source of starts keeps one condition.
LEMMA OneConditionASource ==
    ASSUME NEW o \in Cards, NEW n \in Cards, o # n, NEW deck \in Configuration, Acceptable(deck),
           ~MergesPairs(o, n, deck), ~MergesCards(o, n, deck),
           NEW k \in Kept(o, n, deck), NEW l \in Kept(o, n, deck), k # l
    PROVE  <<Carried(o, n, deck, k).card, Carried(o, n, deck, k).pair>>
               # <<Carried(o, n, deck, l).card, Carried(o, n, deck, l).pair>>
<1> USE DEF Acceptable
<1>1. /\ k \in deck.conditions /\ l \in deck.conditions
      /\ k.card \in Cards \cup {Null} /\ l.card \in Cards \cup {Null}
  BY ConditionFields DEF Kept
<1>2. /\ (k.card = Null) # (k.pair = Null) /\ (l.card = Null) # (l.pair = Null)
      /\ <<k.card, k.pair>> # <<l.card, l.pair>>
  BY <1>1 DEF AcceptableConditions
<1>3. SUFFICES ASSUME Renamed(o, n, k.card) = Renamed(o, n, l.card),
                      Source(o, n, deck, k) = Source(o, n, deck, l)
               PROVE  FALSE
  BY DEF Carried
<1>4. k.card = Null <=> l.card = Null
  BY <1>1, <1>3, ConfigurationAssumption DEF Renamed
<1>5. CASE k.card # Null
  <2>1. k.card # l.card
    BY <1>2, <1>4, <1>5
  <2>2. (k.card = o /\ l.card = n) \/ (k.card = n /\ l.card = o)
    BY <1>3, <2>1 DEF Renamed
  <2>3. QED
    BY <1>1, <2>2 DEF MergesCards
<1>6. CASE k.card = Null
  <2>1. k.pair # Null /\ l.pair # Null /\ k.pair # l.pair
    BY <1>2, <1>4, <1>6
  <2>2. PICK p \in Standing(o, n, deck) : p.id = k.pair
    BY <2>1 DEF Kept
  <2>3. PICK r \in Standing(o, n, deck) : r.id = l.pair
    BY <2>1 DEF Kept
  <2>4. PICK q \in Standing(o, n, deck) \ Losers(o, n, deck) :
            /\ Source(o, n, deck, k) = q.id
            /\ p \notin Losers(o, n, deck) => q = p
            /\ p \in Losers(o, n, deck) => q \in Winner(o, n, deck, p)
    BY <2>2, SourceFollows
  <2>5. PICK s \in Standing(o, n, deck) \ Losers(o, n, deck) :
            /\ Source(o, n, deck, l) = s.id
            /\ r \notin Losers(o, n, deck) => s = r
            /\ r \in Losers(o, n, deck) => s \in Winner(o, n, deck, r)
    BY <2>3, SourceFollows
  <2>6. q = s
    <3>1. q \in deck.pairs /\ s \in deck.pairs /\ q.id = s.id
      BY <1>3, <2>4, <2>5 DEF Standing
    <3>2. QED BY <3>1 DEF AcceptablePairs
  <2>7. HasCondition(deck, p) /\ HasCondition(deck, r)
    BY <1>1, <2>2, <2>3 DEF HasCondition
  <2>8. p # r
    BY <2>1, <2>2, <2>3
  <2>9. CASE p \notin Losers(o, n, deck) /\ r \notin Losers(o, n, deck)
    BY <2>4, <2>5, <2>6, <2>8, <2>9
  <2>10. CASE p \in Losers(o, n, deck) /\ r \notin Losers(o, n, deck)
    BY <2>4, <2>5, <2>6, <2>7, <2>10 DEF MergesPairs
  <2>11. CASE p \notin Losers(o, n, deck) /\ r \in Losers(o, n, deck)
    BY <2>4, <2>5, <2>6, <2>7, <2>11 DEF MergesPairs
  <2>12. CASE p \in Losers(o, n, deck) /\ r \in Losers(o, n, deck)
    BY <2>4, <2>5, <2>6, <2>8, <2>12, LosersAndWinners
  <2>13. QED
    BY <2>9, <2>10, <2>11, <2>12
<1>7. QED
  BY <1>5, <1>6

LEMMA PlansLeft ==
    ASSUME NEW o \in Cards, NEW n \in Cards, o # n,
           NEW in \in List, NEW out \in List, Of(in) \cap Of(out) = {},
           ~(in[o] > 0 /\ out[n] > 0), ~(out[o] > 0 /\ in[n] > 0)
    PROVE  Of(Added(o, n, in)) \cap Of(Added(o, n, out)) = {}
<1>1. SUFFICES ASSUME NEW c \in Cards, Added(o, n, in)[c] > 0, Added(o, n, out)[c] > 0
               PROVE  FALSE
  BY DEF Of
<1>2. Added(o, n, in)[o] = 0
  BY AddedList
<1>3. c # o
  BY <1>1, <1>2
<1>4. CASE c = n
  <2>1. /\ in[n] \in Nat /\ in[o] \in Nat /\ out[n] \in Nat /\ out[o] \in Nat /\ MaxCopies \in Nat
    BY DEF List, MaxCopies
  <2>2. /\ Added(o, n, in)[n] = Min({MaxCopies, in[n] + in[o]})
        /\ Added(o, n, out)[n] = Min({MaxCopies, out[n] + out[o]})
    BY AddedList
  <2>3. in[n] + in[o] \in Int /\ out[n] + out[o] \in Int
    BY <2>1
  <2>4. in[n] + in[o] > 0 /\ out[n] + out[o] > 0
    BY <1>1, <1>4, <2>1, <2>2, <2>3, LesserOfTwo DEF MaxCopies
  <2>5. (in[n] > 0 \/ in[o] > 0) /\ (out[n] > 0 \/ out[o] > 0)
    BY <2>1, <2>4
  <2>6. ~(in[n] > 0 /\ out[n] > 0) /\ ~(in[o] > 0 /\ out[o] > 0)
    BY DEF Of
  <2>7. QED
    BY <2>5, <2>6
<1>5. CASE c # n
  <2>1. Added(o, n, in)[c] = in[c] /\ Added(o, n, out)[c] = out[c]
    <3>1. c \in Cards \ {o, n} BY <1>3, <1>5
    <3>2. \A x \in Cards \ {o, n} : Added(o, n, in)[x] = in[x]
      BY ZenonT(30), AddedList
    <3>3. \A x \in Cards \ {o, n} : Added(o, n, out)[x] = out[x]
      BY ZenonT(30), AddedList
    <3>4. QED BY <3>1, <3>2, <3>3
  <2>2. QED
    BY <1>1, <2>1 DEF Of
<1>6. QED
  BY <1>4, <1>5

LEMMA DeckFields ==
    ASSUME NEW deck \in Configuration
    PROVE  /\ deck.cards \in [Zones -> List] /\ deck.starters \subseteq Cards /\ deck.pairs \subseteq Pair
           /\ deck.conditions \subseteq Condition /\ deck.dead \subseteq Cards \X {"first", "second"}
           /\ deck.plans \in [Plans -> [Directions -> List]] /\ deck.queries \subseteq CategoryIds
           /\ deck = [cards |-> deck.cards, starters |-> deck.starters, pairs |-> deck.pairs,
                      conditions |-> deck.conditions, dead |-> deck.dead, plans |-> deck.plans,
                      queries |-> deck.queries]
BY DEF Configuration

LEMMA RemappedFields ==
    ASSUME NEW o, NEW n, NEW deck \in Configuration
    PROVE  RemapDeck(o, n, deck) =
               [cards |-> [z \in Zones |-> Added(o, n, deck.cards[z])],
                starters |-> {Renamed(o, n, c) : c \in deck.starters},
                pairs |-> Pairs(o, n, deck), conditions |-> Conditions(o, n, deck),
                dead |-> {<<Renamed(o, n, x[1]), x[2]>> : x \in deck.dead},
                plans |-> [p \in Plans |-> [d \in Directions |-> Added(o, n, deck.plans[p][d])]],
                queries |-> deck.queries]
<1>1. deck = [cards |-> deck.cards, starters |-> deck.starters, pairs |-> deck.pairs,
              conditions |-> deck.conditions, dead |-> deck.dead, plans |-> deck.plans,
              queries |-> deck.queries]
  BY DeckFields
<1> DEFINE cs == [z \in Zones |-> Added(o, n, deck.cards[z])]
           st == {Renamed(o, n, c) : c \in deck.starters}
           ds == {<<Renamed(o, n, x[1]), x[2]>> : x \in deck.dead}
           ps == [p \in Plans |-> [d \in Directions |-> Added(o, n, deck.plans[p][d])]]
<1>2. RemapDeck(o, n, deck) =
          [deck EXCEPT !.cards = cs, !.starters = st, !.pairs = Pairs(o, n, deck),
                       !.conditions = Conditions(o, n, deck), !.dead = ds, !.plans = ps]
  BY DEF RemapDeck
<1> HIDE DEF cs, st, ds, ps
<1>3. RemapDeck(o, n, deck) =
          [cards |-> cs, starters |-> st, pairs |-> Pairs(o, n, deck),
           conditions |-> Conditions(o, n, deck), dead |-> ds, plans |-> ps, queries |-> deck.queries]
  BY <1>1, <1>2
<1>4. QED
  BY <1>3 DEF cs, st, ds, ps

\* A report keeps the type of a deck.
LEMMA RemapKeepsType ==
    ASSUME NEW o \in Cards, NEW n \in Cards, o # n, NEW deck \in Configuration, Acceptable(deck)
    PROVE  RemapDeck(o, n, deck) \in Configuration
<1> USE DeckFields
<1>1. [z \in Zones |-> Added(o, n, deck.cards[z])] \in [Zones -> List]
  <2>1. \A z \in Zones : deck.cards[z] \in List
    OBVIOUS
  <2>2. \A z \in Zones : Added(o, n, deck.cards[z]) \in List
    BY <2>1, AddedList
  <2>3. QED BY <2>2
<1>2. {Renamed(o, n, c) : c \in deck.starters} \subseteq Cards
  BY RenamedCard
<1>3. Pairs(o, n, deck) \subseteq Pair
  BY PairsLeft DEF Acceptable
<1>4. Conditions(o, n, deck) \subseteq Condition
  BY ConditionsLeft
<1>5. {<<Renamed(o, n, x[1]), x[2]>> : x \in deck.dead} \subseteq Cards \X {"first", "second"}
  <2>1. \A x \in deck.dead : x[1] \in Cards /\ x[2] \in {"first", "second"}
    OBVIOUS
  <2>2. \A x \in deck.dead : Renamed(o, n, x[1]) \in Cards
    BY <2>1, RenamedCard
  <2>3. QED BY <2>1, <2>2
<1>6. [p \in Plans |-> [d \in Directions |-> Added(o, n, deck.plans[p][d])]] \in [Plans -> [Directions -> List]]
  <2>1. \A p \in Plans, d \in Directions : deck.plans[p][d] \in List
    OBVIOUS
  <2>2. \A p \in Plans, d \in Directions : Added(o, n, deck.plans[p][d]) \in List
    BY <2>1, AddedList
  <2>3. QED BY <2>2
<1>7. QED
  BY <1>1, <1>2, <1>3, <1>4, <1>5, <1>6, RemappedFields DEF Configuration

\* The report of one card into another leaves what the server would accept, when nothing of it
\* is refused.
LEMMA RemapKeepsAcceptable ==
    ASSUME NEW o \in Cards, NEW n \in Cards, o # n, NEW deck \in Configuration, Acceptable(deck),
           Unrefused(o, n, deck)
    PROVE  Acceptable(RemapDeck(o, n, deck))
<1> DEFINE after == RemapDeck(o, n, deck)
<1>1. /\ after.cards = [z \in Zones |-> Added(o, n, deck.cards[z])]
      /\ after.pairs = Pairs(o, n, deck) /\ after.conditions = Conditions(o, n, deck)
      /\ after.plans = [p \in Plans |-> [d \in Directions |-> Added(o, n, deck.plans[p][d])]]
  BY RemappedFields
<1> HIDE DEF after
<1>2. AcceptableCards(after)
  <2> SUFFICES ASSUME NEW z \in Zones, NEW c \in Cards
               PROVE  Added(o, n, deck.cards[z])[c] <= MaxCopies
    BY <1>1 DEF AcceptableCards
  <2>1. deck.cards[z] \in List /\ deck.cards[z][c] <= MaxCopies
    BY DeckFields DEF Acceptable, AcceptableCards
  <2>2. QED BY <2>1, AddedList
<1>3. AcceptablePairs(after)
  BY <1>1, PairsLeft DEF AcceptablePairs, Acceptable
<1>4. AcceptableConditions(after)
  <2>1. \A k \in after.conditions :
            /\ (k.card = Null) # (k.pair = Null)
            /\ k.pair # Null => k.pair \in PairsOf(after)
            /\ WellFormed(k)
    BY <1>1, ConditionsLeft DEF PairsOf
  <2>2. ASSUME NEW k \in after.conditions, NEW l \in after.conditions, k # l
        PROVE  <<k.card, k.pair>> # <<l.card, l.pair>>
    <3>1. PICK x \in Kept(o, n, deck) : k = Carried(o, n, deck, x)
      BY <1>1, ConditionsLeft
    <3>2. PICK y \in Kept(o, n, deck) : l = Carried(o, n, deck, y)
      BY <1>1, ConditionsLeft
    <3>3. x # y
      BY <2>2, <3>1, <3>2
    <3>4. QED
      BY <3>1, <3>2, <3>3, OneConditionASource DEF Unrefused
  <2>3. QED
    BY <2>1, <2>2 DEF AcceptableConditions
<1>5. AcceptablePlans(after)
  <2>9. \A p \in Plans, d \in Directions : after.plans[p][d] = Added(o, n, deck.plans[p][d])
    BY <1>1
  <2>10. "in" \in Directions /\ "out" \in Directions
    BY DEF Directions
  <2> SUFFICES ASSUME NEW p \in Plans
               PROVE  /\ \A d \in Directions, c \in Cards : Added(o, n, deck.plans[p][d])[c] <= MaxCopies
                      /\ Of(Added(o, n, deck.plans[p]["in"])) \cap Of(Added(o, n, deck.plans[p]["out"])) = {}
    BY <2>9, <2>10 DEF AcceptablePlans
  <2>1. \A d \in Directions : deck.plans[p][d] \in List
    BY DeckFields
  <2>2. /\ \A d \in Directions, c \in Cards : deck.plans[p][d][c] <= MaxCopies
        /\ Of(deck.plans[p]["in"]) \cap Of(deck.plans[p]["out"]) = {}
    BY DEF Acceptable, AcceptablePlans
  <2>3. \A d \in Directions, c \in Cards : Added(o, n, deck.plans[p][d])[c] <= MaxCopies
    BY <2>1, <2>2, AddedList
  <2>4. "in" \in Directions /\ "out" \in Directions /\ "in" # "out"
    BY DEF Directions
  <2>5. /\ ~(deck.plans[p]["in"][o] > 0 /\ deck.plans[p]["out"][n] > 0)
        /\ ~(deck.plans[p]["out"][o] > 0 /\ deck.plans[p]["in"][n] > 0)
    BY <2>4 DEF Unrefused, MergesDirections
  <2>6. deck.plans[p]["in"] \in List /\ deck.plans[p]["out"] \in List
    BY <2>1, <2>4
  <2>7. Of(Added(o, n, deck.plans[p]["in"])) \cap Of(Added(o, n, deck.plans[p]["out"])) = {}
    BY <2>2, <2>5, <2>6, PlansLeft
  <2>8. QED BY <2>3, <2>7
<1>6. QED
  BY <1>2, <1>3, <1>4, <1>5 DEF Acceptable, after

(***************************************************************************)
(* What the routes write                                                   *)
(***************************************************************************)

\* A save: the rows of pairs that stay keep their cards.
LEMMA WrittenIsSound ==
    ASSUME NEW stored \in Configuration, Acceptable(stored), NEW deck \in Configuration, Acceptable(deck)
    PROVE  /\ Written(stored, deck) \in Configuration
           /\ ~Duplicates(Written(stored, deck)) => Acceptable(Written(stored, deck))
<1> DEFINE after == Written(stored, deck)
           rows == {KeptCards(stored, p) : p \in deck.pairs}
<1>1. ASSUME NEW p \in deck.pairs
      PROVE  KeptCards(stored, p) \in Pair /\ KeptCards(stored, p).id = p.id
             /\ KeptCards(stored, p).a < KeptCards(stored, p).b
  <2>1. p \in Pair /\ p.a < p.b
    BY DEF Configuration, Acceptable, AcceptablePairs
  <2>2. CASE p.id \in PairsOf(stored)
    <3> DEFINE row == CHOOSE x \in stored.pairs : x.id = p.id
    <3>1. \E x \in stored.pairs : x.id = p.id
      BY <2>2 DEF PairsOf
    <3>2. row \in stored.pairs /\ row.id = p.id
      BY <3>1
    <3>3. row \in Pair /\ row.a < row.b
      BY <3>2 DEF Configuration, Acceptable, AcceptablePairs
    <3>4. KeptCards(stored, p) = [row EXCEPT !.disabled = p.disabled]
      BY <2>2 DEF KeptCards
    <3> HIDE DEF row
    <3>5. KeptCards(stored, p) = [id |-> row.id, a |-> row.a, b |-> row.b, disabled |-> p.disabled]
      BY <3>3, <3>4 DEF Pair
    <3>6. QED
      BY <2>1, <3>2, <3>3, <3>5 DEF Pair
  <2>3. CASE p.id \notin PairsOf(stored)
    BY <2>1, <2>3 DEF KeptCards
  <2>4. QED BY <2>2, <2>3
<1>2. after = [deck EXCEPT !.pairs = rows]
  BY DEF Written
<1>3. rows \subseteq Pair
  BY <1>1
<1>4. {p.id : p \in rows} = PairsOf(deck)
  BY <1>1 DEF PairsOf
<1>5. \A p, q \in rows : p # q => p.id # q.id
  <2>1. \A p, q \in deck.pairs : p # q => p.id # q.id
    BY DEF Acceptable, AcceptablePairs
  <2>2. QED BY <1>1, <2>1
<1>6. \A p \in rows : p.a < p.b
  BY <1>1
<1> HIDE DEF rows
<1>7. /\ after.cards = deck.cards /\ after.conditions = deck.conditions /\ after.plans = deck.plans
      /\ after.pairs = rows
      /\ after = [cards |-> deck.cards, starters |-> deck.starters, pairs |-> rows,
                  conditions |-> deck.conditions, dead |-> deck.dead, plans |-> deck.plans,
                  queries |-> deck.queries]
  BY <1>2, DeckFields
<1>8. after \in Configuration
  BY <1>3, <1>7, DeckFields DEF Configuration
<1> HIDE DEF after
<1>9. ASSUME ~Duplicates(after)
      PROVE  Acceptable(after)
  <2>1. AcceptablePairs(after)
    BY <1>5, <1>6, <1>7, <1>9 DEF AcceptablePairs, Duplicates
  <2>2. PairsOf(after) = PairsOf(deck)
    BY <1>4, <1>7 DEF PairsOf
  <2>3. AcceptableConditions(after)
    BY <1>7, <2>2 DEF AcceptableConditions, Acceptable
  <2>4. AcceptableCards(after) /\ AcceptablePlans(after)
    BY <1>7 DEF AcceptableCards, AcceptablePlans, Acceptable
  <2>5. QED BY <2>1, <2>3, <2>4 DEF Acceptable
<1>10. QED
  BY <1>8, <1>9 DEF after

\* An import: the queries name other categories.
LEMMA RemappedIsSound ==
    ASSUME NEW deck \in Configuration, Acceptable(deck), NEW mapping,
           \A q \in deck.queries : mapping[q] \in CategoryIds
    PROVE  /\ Remapped(deck, mapping) \in Configuration /\ Acceptable(Remapped(deck, mapping))
           /\ Remapped(deck, mapping).queries = {mapping[q] : q \in deck.queries}
<1> DEFINE after == Remapped(deck, mapping)
           qs == {mapping[q] : q \in deck.queries}
<1>1. after = [deck EXCEPT !.queries = qs]
  BY DEF Remapped
<1>2. qs \subseteq CategoryIds
  OBVIOUS
<1> HIDE DEF qs
<1>3. /\ after.cards = deck.cards /\ after.conditions = deck.conditions /\ after.plans = deck.plans
      /\ after.pairs = deck.pairs /\ after.queries = qs
      /\ after = [cards |-> deck.cards, starters |-> deck.starters, pairs |-> deck.pairs,
                  conditions |-> deck.conditions, dead |-> deck.dead, plans |-> deck.plans,
                  queries |-> qs]
  BY <1>1, DeckFields
<1>4. after \in Configuration
  BY <1>2, <1>3, DeckFields DEF Configuration
<1> HIDE DEF after
<1>5. Acceptable(after)
  BY <1>3 DEF Acceptable, AcceptableCards, AcceptablePairs, AcceptableConditions, AcceptablePlans, PairsOf
<1>6. QED
  BY <1>3, <1>4, <1>5 DEF after, qs

\* A copy: the pairs have identities of their own, the conditions follow them.
LEMMA CopyIsSound ==
    ASSUME NEW deck \in Configuration, Acceptable(deck), \A p \in deck.pairs : Fresh(p.id) \in PairIds
    PROVE  Copy(deck) \in Configuration /\ Acceptable(Copy(deck))
<1> DEFINE after == Copy(deck)
           Moved(p) == [p EXCEPT !.id = Fresh(p.id)]
           Attached(k) == [k EXCEPT !.pair = Fresh(k.pair)]
           rows == {Moved(p) : p \in deck.pairs}
           conds == {Attached(k) : k \in deck.conditions}
<1>1. \A x, y \in PairIds : Fresh(x) = Fresh(y) => x = y
  <2>1. PairIds \subseteq Nat /\ Null \notin PairIds /\ Offset \in Nat
    BY ConfigurationAssumption, ArchiveAssumption
  <2>2. QED BY <2>1 DEF Fresh
<1>2. ASSUME NEW p \in deck.pairs
      PROVE  /\ Moved(p) \in Pair /\ p \in Pair /\ p.id \in PairIds
             /\ Moved(p).id = Fresh(p.id) /\ Moved(p).a = p.a /\ Moved(p).b = p.b
  <2>1. p \in Pair
    BY DEF Configuration
  <2>2. QED BY <2>1 DEF Pair
<1>3. ASSUME NEW k \in deck.conditions, k.pair # Null
      PROVE  Fresh(k.pair) \in PairIds /\ k.pair \in PairIds /\ \E p \in deck.pairs : p.id = k.pair
  <2>1. PICK p \in deck.pairs : p.id = k.pair
    BY <1>3 DEF Acceptable, AcceptableConditions, PairsOf
  <2>2. QED BY <2>1, <1>2
<1>4. Fresh(Null) = Null
  BY DEF Fresh
<1>5. ASSUME NEW k \in deck.conditions
      PROVE  /\ Attached(k) \in Condition
             /\ Attached(k).card = k.card /\ Attached(k).pair = Fresh(k.pair) /\ Attached(k).leaves = k.leaves
             /\ Fresh(k.pair) = Null <=> k.pair = Null
  <2>1. k \in Condition
    BY DEF Configuration
  <2>2. Fresh(k.pair) \in PairIds \cup {Null} /\ (Fresh(k.pair) = Null <=> k.pair = Null)
    <3>1. CASE k.pair = Null BY <1>4, <3>1
    <3>2. CASE k.pair # Null BY <1>3, <3>2, ConfigurationAssumption
    <3>3. QED BY <3>1, <3>2
  <2>3. Attached(k) = [card |-> k.card, pair |-> Fresh(k.pair), leaves |-> k.leaves]
    BY <2>1 DEF Condition
  <2>4. QED BY <2>1, <2>2, <2>3 DEF Condition
<1>6. after = [deck EXCEPT !.pairs = rows, !.conditions = conds]
  BY DEF Copy
<1> HIDE DEF Moved, Attached
<1>7. rows \subseteq Pair /\ conds \subseteq Condition
  BY <1>2, <1>5
<1>8. AcceptablePairs([deck EXCEPT !.pairs = rows, !.conditions = conds])
  <2>1. [deck EXCEPT !.pairs = rows, !.conditions = conds].pairs = rows
    BY DeckFields
  <2>2. \A p \in rows : p.a < p.b
    BY <1>2 DEF Acceptable, AcceptablePairs
  <2>3. ASSUME NEW x \in deck.pairs, NEW y \in deck.pairs, Moved(x) # Moved(y)
        PROVE  Moved(x).id # Moved(y).id /\ <<Moved(x).a, Moved(x).b>> # <<Moved(y).a, Moved(y).b>>
    <3>1. x # y
      BY <2>3
    <3>2. x.id # y.id /\ <<x.a, x.b>> # <<y.a, y.b>>
      BY <3>1 DEF Acceptable, AcceptablePairs
    <3>3. QED BY <1>1, <1>2, <3>2
  <2>4. QED
    BY <2>1, <2>2, <2>3 DEF AcceptablePairs
<1>9. {p.id : p \in rows} = {Fresh(i) : i \in PairsOf(deck)}
  BY <1>2 DEF PairsOf
<1>10. \A k \in conds :
          /\ (k.card = Null) # (k.pair = Null)
          /\ k.pair # Null => k.pair \in {p.id : p \in rows}
          /\ WellFormed(k)
  <2> SUFFICES ASSUME NEW k \in deck.conditions
               PROVE  /\ (Attached(k).card = Null) # (Attached(k).pair = Null)
                      /\ Attached(k).pair # Null => Attached(k).pair \in {p.id : p \in rows}
                      /\ WellFormed(Attached(k))
    OBVIOUS
  <2>1. (k.card = Null) # (k.pair = Null) /\ (k.pair # Null => k.pair \in PairsOf(deck)) /\ WellFormed(k)
    BY DEF Acceptable, AcceptableConditions
  <2>2. /\ Attached(k).card = k.card /\ Attached(k).pair = Fresh(k.pair) /\ Attached(k).leaves = k.leaves
        /\ Fresh(k.pair) = Null <=> k.pair = Null
    BY <1>5
  <2>3. QED
    BY <1>9, <2>1, <2>2 DEF WellFormed
<1>11. \A k, l \in conds : k # l => <<k.card, k.pair>> # <<l.card, l.pair>>
  <2> SUFFICES ASSUME NEW k \in deck.conditions, NEW l \in deck.conditions, Attached(k) # Attached(l)
               PROVE  <<Attached(k).card, Attached(k).pair>> # <<Attached(l).card, Attached(l).pair>>
    OBVIOUS
  <2>1. <<k.card, k.pair>> # <<l.card, l.pair>>
    BY DEF Acceptable, AcceptableConditions
  <2>2. k.pair # l.pair => Fresh(k.pair) # Fresh(l.pair)
    BY <1>1, <1>3, <1>5
  <2>3. QED
    BY <1>5, <2>1, <2>2
<1> HIDE DEF rows, conds
<1>12. /\ after.cards = deck.cards /\ after.conditions = conds /\ after.plans = deck.plans
       /\ after.pairs = rows
       /\ after = [cards |-> deck.cards, starters |-> deck.starters, pairs |-> rows,
                   conditions |-> conds, dead |-> deck.dead, plans |-> deck.plans,
                   queries |-> deck.queries]
  BY <1>6, DeckFields
<1>13. after \in Configuration
  BY <1>7, <1>12, DeckFields DEF Configuration
<1>14. AcceptablePairs(after)
  BY <1>6, <1>8
<1> HIDE DEF after
<1>15. AcceptableConditions(after)
  BY <1>10, <1>11, <1>12 DEF AcceptableConditions, PairsOf
<1>16. AcceptableCards(after) /\ AcceptablePlans(after)
  BY <1>12 DEF AcceptableCards, AcceptablePlans, Acceptable
<1>17. QED
  BY <1>13, <1>14, <1>15, <1>16 DEF Acceptable, after

\* A list read has some number of copies of each card.
LEMMA PlacesAreFinite ==
    ASSUME NEW lines \in Seq(Line), NEW S, S \subseteq DOMAIN lines
    PROVE  IsFiniteSet(S) /\ Cardinality(S) \in Nat
<1>1. DOMAIN lines = 1..Len(lines) /\ Len(lines) \in Nat
  OBVIOUS
<1>2. IsFiniteSet(DOMAIN lines)
  BY <1>1, FS_Interval
<1>3. IsFiniteSet(S)
  BY <1>2, FS_Subset
<1>4. QED
  BY <1>3, FS_CardinalityType

LEMMA YdkIsAList ==
    ASSUME NEW lines \in Seq(Line)
    PROVE  ReadYdk(lines).cards \in [Zones -> List]
<1>1. \A z \in Zones, c \in Cards : Cardinality(Read(lines, z, c)) \in Nat
  <2> TAKE z \in Zones, c \in Cards
  <2>1. Read(lines, z, c) \subseteq DOMAIN lines
    BY DEF Read, Places
  <2>2. QED BY <2>1, PlacesAreFinite
<1>2. ReadYdk(lines).cards = [z \in Zones |-> [c \in Cards |-> Cardinality(Read(lines, z, c))]]
  BY DEF ReadYdk
<1>3. QED
  BY <1>1, <1>2 DEF List

LEMMA PastedIsAList ==
    ASSUME NEW lines \in Seq(Line)
    PROVE  ReadPasted(lines).cards \in [Zones -> List]
<1>1. ASSUME NEW c \in Cards
      PROVE  Cardinality(Pasted(lines, c)) \in Nat
  <2> DEFINE S == {i \in Given(lines) : lines[i].card = c}
             f == [i \in S |-> {i} \X (1..lines[i].copies)]
             T == {{i} \X (1..lines[i].copies) : i \in S}
  <2>1. S \subseteq DOMAIN lines
    BY DEF Given, Places
  <2>2. IsFiniteSet(S)
    BY <2>1, PlacesAreFinite
  <2>3. \A i \in S : IsFiniteSet({i} \X (1..lines[i].copies))
    <3> TAKE i \in S
    <3>1. lines[i] \in Line
      BY <2>1
    <3>2. lines[i].copies \in Nat
      BY <3>1 DEF Line
    <3>3. IsFiniteSet(1..lines[i].copies) /\ IsFiniteSet({i})
      <4>1. 1 \in Int /\ lines[i].copies \in Int
        BY <3>2
      <4>2. QED BY <4>1, FS_Interval, FS_Singleton
    <3>4. QED BY <3>3, FS_Product
  <2>4. Pasted(lines, c) = UNION T
    BY DEF Pasted
  <2> HIDE DEF S
  <2>5. f \in Surjection(S, T)
    BY DEF Surjection
  <2>6. IsFiniteSet(T)
    BY <2>2, <2>5, FS_Surjection
  <2>7. \A X \in T : IsFiniteSet(X)
    BY <2>3
  <2> HIDE DEF T
  <2>8. IsFiniteSet(UNION T)
    BY <2>6, <2>7, FS_UNION
  <2>9. QED
    BY <2>4, <2>8, FS_CardinalityType
<1>2. ReadPasted(lines).cards =
          [z \in Zones |-> [c \in Cards |-> IF z = "main" THEN Cardinality(Pasted(lines, c)) ELSE 0]]
  BY DEF ReadPasted
<1>3. QED
  BY <1>1, <1>2 DEF List

\* The dialog leaves three copies of a card in a zone at most.
LEMMA TakenIsLess ==
    ASSUME NEW cards \in [Zones -> List], NEW zone \in Zones
    PROVE  /\ TakenFrom(cards, zone) \in [Zones -> List]
           /\ \A z \in Zones, c \in Cards : TakenFrom(cards, zone)[z][c] <= cards[z][c]
<1> DEFINE left(c) == LET excess == InAll(cards, c) - MaxCopies
                      IN IF excess > 0 THEN Max({0, cards[zone][c] - excess}) ELSE cards[zone][c]
<1>1. TakenFrom(cards, zone) = [cards EXCEPT ![zone] = [c \in Cards |-> left(c)]]
  BY DEF TakenFrom
<1>2. \A c \in Cards : left(c) \in Nat /\ left(c) <= cards[zone][c]
  <2> TAKE c \in Cards
  <2>1. \A z \in Zones : cards[z][c] \in Nat
    BY DEF List
  <2>2. InAll(cards, c) - MaxCopies \in Int
    BY <2>1 DEF InAll, MaxCopies, Zones
  <2> DEFINE excess == InAll(cards, c) - MaxCopies
  <2> HIDE DEF excess
  <2>3. cards[zone][c] \in Nat
    BY <2>1
  <2>4. cards[zone][c] - excess \in Int /\ excess \in Int
    BY <2>2, <2>3 DEF excess
  <2> DEFINE rest == cards[zone][c] - excess
  <2> HIDE DEF rest
  <2>8. rest \in Int /\ 0 \in Int
    BY <2>4 DEF rest
  <2>9. Max({0, rest}) = IF 0 <= rest THEN rest ELSE 0
    BY <2>8, LesserOfTwo
  <2>5. Max({0, cards[zone][c] - excess}) = IF 0 <= cards[zone][c] - excess THEN cards[zone][c] - excess ELSE 0
    BY <2>9 DEF rest
  <2>6. left(c) = IF excess > 0 THEN Max({0, cards[zone][c] - excess}) ELSE cards[zone][c]
    BY DEF excess
  <2> HIDE DEF left
  <2>10. QED
    BY <2>3, <2>4, <2>5, <2>6
<1> HIDE DEF left
<1>3. [c \in Cards |-> left(c)] \in List
  BY <1>2 DEF List
<1>4. TakenFrom(cards, zone) \in [Zones -> List]
  BY <1>1, <1>3
<1>5. ASSUME NEW z \in Zones, NEW c \in Cards
      PROVE  TakenFrom(cards, zone)[z][c] <= cards[z][c]
  <2>1. cards[z][c] \in Nat
    BY DEF List
  <2>2. CASE z = zone
    BY <1>1, <1>2, <2>2
  <2>3. CASE z # zone
    BY <1>1, <2>1, <2>3
  <2>4. QED BY <2>2, <2>3
<1>6. QED
  BY <1>4, <1>5

LEMMA ClampedIsSound ==
    ASSUME NEW cards \in [Zones -> List]
    PROVE  /\ Clamped(cards) \in [Zones -> List]
           /\ \A z \in Zones, c \in Cards : Clamped(cards)[z][c] <= MaxCopies
<1> DEFINE first == [z \in Zones |-> AtMost(MaxCopies, cards[z])]
           second == TakenFrom(first, "side")
<1>1. /\ first \in [Zones -> List]
      /\ \A z \in Zones, c \in Cards : first[z][c] <= MaxCopies
  <2>1. ASSUME NEW z \in Zones, NEW c \in Cards
        PROVE  /\ Min({MaxCopies, cards[z][c]}) \in Nat
               /\ Min({MaxCopies, cards[z][c]}) <= MaxCopies
    <3>1. cards[z][c] \in Nat /\ MaxCopies \in Nat
      BY DEF List, MaxCopies
    <3>2. QED BY <3>1, LesserOfTwo
  <2>2. \A z \in Zones, c \in Cards : first[z][c] = Min({MaxCopies, cards[z][c]})
    BY DEF AtMost
  <2>3. first = [z \in Zones |-> [c \in Cards |-> Min({MaxCopies, cards[z][c]})]]
    BY DEF AtMost
  <2>4. first \in [Zones -> List]
    <3> HIDE DEF first
    <3>1. QED BY <2>1, <2>3 DEF List
  <2>5. \A z \in Zones, c \in Cards : first[z][c] <= MaxCopies
    <3> HIDE DEF first
    <3>1. QED BY <2>1, <2>2
  <2>6. QED BY <2>4, <2>5
<1>2. "side" \in Zones /\ "extra" \in Zones
  BY DEF Zones
<1> HIDE DEF first
<1>3. second \in [Zones -> List] /\ \A z \in Zones, c \in Cards : second[z][c] <= first[z][c]
  BY <1>1, <1>2, TakenIsLess
<1> HIDE DEF second
<1>4. /\ TakenFrom(second, "extra") \in [Zones -> List]
      /\ \A z \in Zones, c \in Cards : TakenFrom(second, "extra")[z][c] <= second[z][c]
  BY <1>2, <1>3, TakenIsLess
<1>5. Clamped(cards) = TakenFrom(second, "extra")
  BY DEF Clamped, first, second
<1>6. ASSUME NEW z \in Zones, NEW c \in Cards
      PROVE  Clamped(cards)[z][c] <= MaxCopies
  <2>1. /\ Clamped(cards)[z][c] \in Nat /\ second[z][c] \in Nat /\ first[z][c] \in Nat /\ MaxCopies \in Nat
    BY <1>1, <1>3, <1>4, <1>5 DEF List, MaxCopies
  <2>2. Clamped(cards)[z][c] <= second[z][c] /\ second[z][c] <= first[z][c] /\ first[z][c] <= MaxCopies
    BY <1>1, <1>3, <1>4, <1>5
  <2>3. QED BY <2>1, <2>2
<1>7. QED
  BY <1>4, <1>5, <1>6

LEMMA ConfirmedIsSound ==
    ASSUME NEW report, report.cards \in [Zones -> List]
    PROVE  /\ [Empty EXCEPT !.cards = Confirmed(report)] \in Configuration
           /\ Acceptable([Empty EXCEPT !.cards = Confirmed(report)])
<1> DEFINE deck == [Empty EXCEPT !.cards = Confirmed(report)]
<1>1. /\ Confirmed(report) \in [Zones -> List]
      /\ \A z \in Zones, c \in Cards : Confirmed(report)[z][c] <= MaxCopies
  <2>1. CASE Anomalous(report)
    BY <2>1, ClampedIsSound DEF Confirmed
  <2>2. CASE ~Anomalous(report)
    <3>1. Confirmed(report) = report.cards /\ Conventional(report.cards)
      BY <2>2 DEF Confirmed, Anomalous
    <3>2. ASSUME NEW z \in Zones, NEW c \in Cards
          PROVE  report.cards[z][c] <= MaxCopies
      <4>1. InAll(report.cards, c) <= MaxCopies
        BY <3>1 DEF Conventional
      <4>2. \A x \in Zones : report.cards[x][c] \in Nat
        BY DEF List
      <4>3. QED BY <4>1, <4>2 DEF InAll, MaxCopies, Zones
    <3>3. QED BY <3>1, <3>2
  <2>3. QED BY <2>1, <2>2
<1>2. NoCards \in List /\ \A c \in Cards : NoCards[c] = 0
  BY DEF NoCards, List
<1> DEFINE plans == [p \in Plans |-> [d \in Directions |-> NoCards]]
           none == [z \in Zones |-> NoCards]
<1>10. Empty = [cards |-> none, starters |-> {}, pairs |-> {}, conditions |-> {}, dead |-> {},
                plans |-> plans, queries |-> {}]
  BY DEF Empty
<1>11. plans \in [Plans -> [Directions -> List]]
  BY <1>2
<1> HIDE DEF plans, none
<1>3. deck = [cards |-> Confirmed(report), starters |-> {}, pairs |-> {}, conditions |-> {},
              dead |-> {}, plans |-> plans, queries |-> {}]
  BY <1>10
<1>4. deck \in Configuration
  BY <1>1, <1>11, <1>3 DEF Configuration
<1>5. deck.cards = Confirmed(report) /\ deck.pairs = {} /\ deck.conditions = {} /\ deck.plans = plans
  BY <1>3
<1>6. \A p \in Plans, d \in Directions : deck.plans[p][d] = NoCards
  BY <1>5 DEF plans
<1> HIDE DEF deck
<1>7. AcceptableCards(deck) /\ AcceptablePairs(deck) /\ AcceptableConditions(deck)
  BY <1>1, <1>5 DEF AcceptableCards, AcceptablePairs, AcceptableConditions
<1>8. AcceptablePlans(deck)
  <2>1. "in" \in Directions /\ "out" \in Directions
    BY DEF Directions
  <2>2. Of(NoCards) = {}
    BY <1>2 DEF Of
  <2>3. QED
    BY <1>2, <1>6, <2>1, <2>2 DEF AcceptablePlans, MaxCopies
<1>9. QED
  BY <1>4, <1>7, <1>8 DEF Acceptable, deck

(***************************************************************************)
(* Rows joined by their name                                               *)
(***************************************************************************)

\* What groups and categories have in common.
IsRows(T, ids) ==
    \A r \in T :
        /\ r.id \in ids
        /\ \A i \in ids :
               [r EXCEPT !.id = i] \in T /\ [r EXCEPT !.id = i].id = i /\ [r EXCEPT !.id = i].name = r.name

LEMMA GroupsAreRows ==
    /\ IsRows(GroupRows, GroupIds)
    /\ \A r \in GroupRows, i \in GroupIds : [r EXCEPT !.id = i].cap = r.cap
BY DEF IsRows, GroupRows

LEMMA CategoriesAreRows == IsRows(CategoryRows, CategoryIds)
BY DEF IsRows, CategoryRows

LEMMA RowOf ==
    ASSUME NEW rows, NamedOnce(rows), NEW r \in rows
    PROVE  Row(rows, r.id) = r
<1>1. \A s \in rows : s.id = r.id => s = r
  BY DEF NamedOnce
<1>2. QED
  BY <1>1 DEF Row

\* The rows that are there stay, and each name brought has one row.
LEMMA JoinedRows ==
    ASSUME NEW T, NEW ids, IsRows(T, ids),
           NEW rows \in SUBSET T, NamedOnce(rows), NEW brought \in SUBSET T, NamedOnce(brought),
           Numberings(rows, brought, ids) # {}
    PROVE  /\ rows \subseteq Joined(rows, brought, ids)
           /\ Joined(rows, brought, ids) \subseteq T
           /\ NamedOnce(Joined(rows, brought, ids))
           /\ \A s \in Joined(rows, brought, ids) : s \notin rows =>
                  \E r \in brought : Called(rows, r.name) = {} /\ s = [r EXCEPT !.id = s.id]
           /\ \A r \in brought : \E s \in Joined(rows, brought, ids) : s.name = r.name
<1> DEFINE new == New(rows, brought)
           number == CHOOSE f \in Numberings(rows, brought, ids) : TRUE
           Numbered(r) == [r EXCEPT !.id = number[r]]
           J == Joined(rows, brought, ids)
<1>1. number \in Numberings(rows, brought, ids)
  OBVIOUS
<1> HIDE DEF number
<1>2. /\ number \in [new -> ids \ Ids(rows)]
      /\ \A r, s \in new : number[r] = number[s] => r = s
  BY <1>1 DEF Numberings, Injection, IsInjective
<1>3. J = rows \cup {Numbered(r) : r \in new}
  BY DEF Joined, number
<1>4. ASSUME NEW r \in new
      PROVE  /\ r \in brought /\ Called(rows, r.name) = {}
             /\ number[r] \in ids /\ number[r] \notin Ids(rows)
             /\ Numbered(r) \in T /\ Numbered(r).id = number[r] /\ Numbered(r).name = r.name
  <2>1. r \in brought /\ Called(rows, r.name) = {}
    BY DEF New
  <2>2. number[r] \in ids /\ number[r] \notin Ids(rows)
    BY <1>2
  <2>3. QED BY <2>1, <2>2 DEF IsRows
<1> HIDE DEF Numbered, new
<1>5. rows \subseteq J /\ J \subseteq T
  BY <1>3, <1>4
<1>6. ASSUME NEW r \in new, NEW s \in rows
      PROVE  Numbered(r).id # s.id /\ Numbered(r).name # s.name
  BY <1>4 DEF Ids, Called
<1>7. ASSUME NEW r \in new, NEW s \in new, r # s
      PROVE  Numbered(r).id # Numbered(s).id /\ Numbered(r).name # Numbered(s).name
  <2>1. r.name # s.name
    BY <1>4, <1>7 DEF NamedOnce
  <2>2. QED
    BY <1>2, <1>4, <1>7, <2>1
<1>8. NamedOnce(J)
  <2> SUFFICES ASSUME NEW r \in J, NEW s \in J, r # s
               PROVE  r.id # s.id /\ r.name # s.name
    BY DEF NamedOnce
  <2>1. CASE r \in rows /\ s \in rows
    BY <2>1 DEF NamedOnce
  <2>2. CASE r \in rows /\ s \notin rows
    BY <1>3, <1>6, <2>2
  <2>3. CASE r \notin rows /\ s \in rows
    BY <1>3, <1>6, <2>3
  <2>4. CASE r \notin rows /\ s \notin rows
    BY <1>3, <1>7, <2>4
  <2>5. QED BY <2>1, <2>2, <2>3, <2>4
<1>9. ASSUME NEW s \in J, s \notin rows
      PROVE  \E r \in brought : Called(rows, r.name) = {} /\ s = [r EXCEPT !.id = s.id]
  <2>1. PICK r \in new : s = Numbered(r)
    BY <1>3, <1>9
  <2>2. s.id = number[r]
    BY <1>4, <2>1
  <2>3. s = [r EXCEPT !.id = s.id]
    BY <2>1, <2>2 DEF Numbered
  <2>4. QED BY <1>4, <2>3
<1>10. ASSUME NEW r \in brought
       PROVE  \E s \in J : s.name = r.name
  <2>1. CASE r \in new
    BY <1>3, <1>4, <2>1
  <2>2. CASE r \notin new
    <3>1. Called(rows, r.name) # {}
      BY <2>2 DEF New, new
    <3>2. QED BY <1>5, <3>1 DEF Called
  <2>3. QED BY <2>1, <2>2
<1> HIDE DEF J
<1>11. QED
  BY <1>5, <1>8, <1>9, <1>10 DEF J

\* An identity of the archive stands for the row of the same name.
LEMMA MappedRow ==
    ASSUME NEW T, NEW ids, IsRows(T, ids),
           NEW rows \in SUBSET T, NamedOnce(rows), NEW brought \in SUBSET T, NamedOnce(brought),
           Numberings(rows, brought, ids) # {}, NEW r \in brought
    PROVE  LET J == Joined(rows, brought, ids)
               id == Mapping(J, brought)[r.id]
           IN /\ id \in Ids(J) /\ id \in ids
              /\ Row(J, id) \in J /\ Row(J, id).id = id /\ Row(J, id).name = r.name
              /\ Row(J, id) \in rows \/ Row(J, id) = [r EXCEPT !.id = id]
<1> DEFINE J == Joined(rows, brought, ids)
           s == CHOOSE x \in Called(J, r.name) : TRUE
<1>1. /\ rows \subseteq J /\ J \subseteq T /\ NamedOnce(J)
      /\ \A x \in J : x \notin rows => \E y \in brought : Called(rows, y.name) = {} /\ x = [y EXCEPT !.id = x.id]
      /\ \E x \in J : x.name = r.name
  BY JoinedRows
<1> HIDE DEF J
<1>2. s \in J /\ s.name = r.name
  BY <1>1 DEF Called
<1>3. Row(brought, r.id) = r
  BY RowOf
<1>4. r.id \in Ids(brought)
  BY DEF Ids
<1>5. Mapping(J, brought)[r.id] = s.id
  BY <1>3, <1>4 DEF Mapping
<1> HIDE DEF s
<1>6. Row(J, s.id) = s
  BY <1>1, <1>2, RowOf
<1>7. s.id \in Ids(J) /\ s.id \in ids
  BY <1>1, <1>2 DEF Ids, IsRows
<1>8. s \in rows \/ s = [r EXCEPT !.id = s.id]
  <2> SUFFICES ASSUME s \notin rows PROVE s = [r EXCEPT !.id = s.id]
    OBVIOUS
  <2>1. PICK y \in brought : s = [y EXCEPT !.id = s.id]
    BY <1>1, <1>2
  <2>2. s.name = y.name
    <3>1. [y EXCEPT !.id = s.id].name = y.name
      BY <1>7 DEF IsRows
    <3>2. QED BY <2>1, <3>1
  <2>3. y = r
    BY <1>2, <2>2 DEF NamedOnce
  <2>4. QED BY <2>1, <2>3
<1>9. QED
  BY <1>2, <1>5, <1>6, <1>7, <1>8 DEF J

(***************************************************************************)
(* The merge of an archive                                                 *)
(***************************************************************************)

LEMMA ArchiveFields ==
    ASSUME NEW file \in Archives
    PROVE  /\ file.deck \in Configuration /\ file.hopt \subseteq Cards
           /\ file.labels \subseteq Cards \X CategoryIds
           /\ file.categories \subseteq CategoryRows /\ file.groups \subseteq GroupRows
           /\ DOMAIN file.profiles \subseteq Cards
           /\ \A c \in DOMAIN file.profiles :
                  /\ file.profiles[c].availability \in Profiles
                  /\ file.profiles[c].group \in GroupIds \cup {Null}
<1>1. PICK s \in SUBSET Cards : file.profiles \in [s -> Profile]
  BY DEF Archives
<1>2. \A c \in s : file.profiles[c] \in Profile
  BY <1>1
<1>3. /\ DOMAIN file.profiles \subseteq Cards
      /\ \A c \in DOMAIN file.profiles :
             /\ file.profiles[c].availability \in Profiles
             /\ file.profiles[c].group \in GroupIds \cup {Null}
  BY <1>1, <1>2 DEF Profile
<1>4. QED
  BY <1>3 DEF Archives

LEMMA AnnotationFields ==
    ASSUME NEW row \in Annotation
    PROVE  /\ row.hopt \in BOOLEAN \cup {Null} /\ row.choice \in BOOLEAN
           /\ row.availability \in Profiles \cup {Null} /\ row.group \in GroupIds \cup {Null}
           /\ row.availability # Null => row.choice
           /\ row.group # Null => row.availability # Null
           /\ row = [hopt |-> row.hopt, choice |-> row.choice, availability |-> row.availability,
                     group |-> row.group]
BY DEF Annotation, Choice

\* The groups of an archive, and its categories, have their row in the library merged.
LEMMA MergedRows ==
    ASSUME NEW library, Consistent(library), NEW file \in Archives, Parses(file), Room(library, file)
    PROVE  LET caps == Joined(library.groups, file.groups, GroupIds)
               cats == Joined(library.categories, file.categories, CategoryIds)
           IN /\ library.groups \subseteq caps /\ caps \subseteq GroupRows /\ NamedOnce(caps)
              /\ library.categories \subseteq cats /\ cats \subseteq CategoryRows /\ NamedOnce(cats)
              /\ \A r \in file.groups :
                     LET id == Mapping(caps, file.groups)[r.id]
                     IN /\ id \in Ids(caps) /\ Row(caps, id).name = r.name
                        /\ ~LimitDiffers(library, file) => Row(caps, id).cap = r.cap
              /\ \A r \in file.categories :
                     LET id == Mapping(cats, file.categories)[r.id]
                     IN id \in Ids(cats) /\ id \in CategoryIds /\ Row(cats, id).name = r.name
<1> DEFINE caps == Joined(library.groups, file.groups, GroupIds)
           cats == Joined(library.categories, file.categories, CategoryIds)
<1>1. /\ library.groups \in SUBSET GroupRows /\ NamedOnce(library.groups)
      /\ library.categories \in SUBSET CategoryRows /\ NamedOnce(library.categories)
  BY DEF Consistent
<1>2. /\ file.groups \in SUBSET GroupRows /\ NamedOnce(file.groups)
      /\ file.categories \in SUBSET CategoryRows /\ NamedOnce(file.categories)
  BY ArchiveFields DEF Parses
<1>3. /\ Numberings(library.groups, file.groups, GroupIds) # {}
      /\ Numberings(library.categories, file.categories, CategoryIds) # {}
  BY DEF Room
<1>4. library.groups \subseteq caps /\ caps \subseteq GroupRows /\ NamedOnce(caps)
  BY <1>1, <1>2, <1>3, GroupsAreRows, JoinedRows
<1>5. library.categories \subseteq cats /\ cats \subseteq CategoryRows /\ NamedOnce(cats)
  BY <1>1, <1>2, <1>3, CategoriesAreRows, JoinedRows
<1>6. ASSUME NEW r \in file.groups
      PROVE  LET id == Mapping(caps, file.groups)[r.id]
             IN /\ id \in Ids(caps) /\ Row(caps, id).name = r.name
                /\ ~LimitDiffers(library, file) => Row(caps, id).cap = r.cap
  <2> DEFINE id == Mapping(caps, file.groups)[r.id]
             s == Row(caps, id)
  <2>1. /\ id \in Ids(caps) /\ id \in GroupIds /\ s \in caps /\ s.id = id /\ s.name = r.name
        /\ s \in library.groups \/ s = [r EXCEPT !.id = id]
    BY <1>1, <1>2, <1>3, GroupsAreRows, MappedRow
  <2> HIDE DEF s, id
  <2>2. ASSUME ~LimitDiffers(library, file)
        PROVE  s.cap = r.cap
    <3>1. CASE s \in library.groups
      <4>1. s \in Called(library.groups, r.name)
        BY <2>1, <3>1 DEF Called
      <4>2. QED BY <2>2, <4>1 DEF LimitDiffers
    <3>2. CASE s = [r EXCEPT !.id = id]
      <4>1. r \in GroupRows
        BY <1>2
      <4>2. [r EXCEPT !.id = id].cap = r.cap
        BY <2>1, <4>1, GroupsAreRows
      <4>3. QED BY <3>2, <4>2
    <3>3. QED BY <2>1, <3>1, <3>2
  <2>3. QED BY <2>1, <2>2 DEF s, id
<1>7. ASSUME NEW r \in file.categories
      PROVE  LET id == Mapping(cats, file.categories)[r.id]
             IN id \in Ids(cats) /\ id \in CategoryIds /\ Row(cats, id).name = r.name
  <2> DEFINE id == Mapping(cats, file.categories)[r.id]
             s == Row(cats, id)
  <2>1. /\ id \in Ids(cats) /\ id \in CategoryIds /\ s \in cats /\ s.id = id /\ s.name = r.name
        /\ s \in library.categories \/ s = [r EXCEPT !.id = id]
    BY <1>1, <1>2, <1>3, CategoriesAreRows, MappedRow
  <2>2. QED BY <2>1
<1> HIDE DEF caps, cats
<1>8. QED
  BY <1>4, <1>5, <1>6, <1>7 DEF caps, cats

CapsAfter(library, file) == Joined(library.groups, file.groups, GroupIds)
CategoriesAfter(library, file) == Joined(library.categories, file.categories, CategoryIds)
CapOf(library, file) == Mapping(CapsAfter(library, file), file.groups)
CategoryOf(library, file) == Mapping(CategoriesAfter(library, file), file.categories)

LEMMA MergeFields ==
    ASSUME NEW library, NEW file
    PROVE  LET after == Merge(library, file)
           IN /\ after.groups = CapsAfter(library, file)
              /\ after.categories = CategoriesAfter(library, file)
              /\ after.labels = library.labels \cup {<<x[1], CategoryOf(library, file)[x[2]]>> : x \in file.labels}
              /\ after.flags = [c \in Cards |-> FlagAfter(library.flags[c], c, file, CapOf(library, file))]
              /\ after.deck = Remapped(file.deck, CategoryOf(library, file))
BY DEF Merge, CapsAfter, CategoriesAfter, CapOf, CategoryOf

\* What stands in the merged library for what the archive names.
LEMMA MergedNames ==
    ASSUME NEW library, Consistent(library), NEW file \in Archives, Parses(file), Room(library, file)
    PROVE  /\ library.groups \subseteq CapsAfter(library, file)
           /\ CapsAfter(library, file) \subseteq GroupRows /\ NamedOnce(CapsAfter(library, file))
           /\ library.categories \subseteq CategoriesAfter(library, file)
           /\ CategoriesAfter(library, file) \subseteq CategoryRows /\ NamedOnce(CategoriesAfter(library, file))
           /\ \A id \in Ids(file.groups) :
                  /\ CapOf(library, file)[id] \in Ids(CapsAfter(library, file))
                  /\ CapOf(library, file)[id] \in GroupIds
                  /\ Row(CapsAfter(library, file), CapOf(library, file)[id]).name = Row(file.groups, id).name
                  /\ ~LimitDiffers(library, file) =>
                         Row(CapsAfter(library, file), CapOf(library, file)[id]).cap = Row(file.groups, id).cap
           /\ \A id \in Ids(file.categories) :
                  /\ CategoryOf(library, file)[id] \in Ids(CategoriesAfter(library, file))
                  /\ CategoryOf(library, file)[id] \in CategoryIds
                  /\ Row(CategoriesAfter(library, file), CategoryOf(library, file)[id]).name
                         = Row(file.categories, id).name
<1>1. /\ library.groups \subseteq CapsAfter(library, file)
      /\ CapsAfter(library, file) \subseteq GroupRows /\ NamedOnce(CapsAfter(library, file))
      /\ library.categories \subseteq CategoriesAfter(library, file)
      /\ CategoriesAfter(library, file) \subseteq CategoryRows /\ NamedOnce(CategoriesAfter(library, file))
      /\ \A r \in file.groups :
             /\ CapOf(library, file)[r.id] \in Ids(CapsAfter(library, file))
             /\ Row(CapsAfter(library, file), CapOf(library, file)[r.id]).name = r.name
             /\ ~LimitDiffers(library, file) =>
                    Row(CapsAfter(library, file), CapOf(library, file)[r.id]).cap = r.cap
      /\ \A r \in file.categories :
             /\ CategoryOf(library, file)[r.id] \in Ids(CategoriesAfter(library, file))
             /\ CategoryOf(library, file)[r.id] \in CategoryIds
             /\ Row(CategoriesAfter(library, file), CategoryOf(library, file)[r.id]).name = r.name
  BY MergedRows DEF CapsAfter, CategoriesAfter, CapOf, CategoryOf
<1>2. \A id \in Ids(CapsAfter(library, file)) : id \in GroupIds
  BY <1>1 DEF Ids, GroupRows
<1>3. ASSUME NEW id \in Ids(file.groups)
      PROVE  Row(file.groups, id) \in file.groups /\ Row(file.groups, id).id = id
  <2>1. PICK r \in file.groups : id = r.id
    BY DEF Ids
  <2>2. Row(file.groups, r.id) = r
    BY RowOf DEF Parses
  <2>3. QED BY <2>1, <2>2
<1>4. ASSUME NEW id \in Ids(file.categories)
      PROVE  Row(file.categories, id) \in file.categories /\ Row(file.categories, id).id = id
  <2>1. PICK r \in file.categories : id = r.id
    BY DEF Ids
  <2>2. Row(file.categories, r.id) = r
    BY RowOf DEF Parses
  <2>3. QED BY <2>1, <2>2
<1>5. ASSUME NEW id \in Ids(file.groups)
      PROVE  /\ CapOf(library, file)[id] \in Ids(CapsAfter(library, file))
             /\ CapOf(library, file)[id] \in GroupIds
             /\ Row(CapsAfter(library, file), CapOf(library, file)[id]).name = Row(file.groups, id).name
             /\ ~LimitDiffers(library, file) =>
                    Row(CapsAfter(library, file), CapOf(library, file)[id]).cap = Row(file.groups, id).cap
  BY <1>1, <1>2, <1>3
<1>6. ASSUME NEW id \in Ids(file.categories)
      PROVE  /\ CategoryOf(library, file)[id] \in Ids(CategoriesAfter(library, file))
             /\ CategoryOf(library, file)[id] \in CategoryIds
             /\ Row(CategoriesAfter(library, file), CategoryOf(library, file)[id]).name
                    = Row(file.categories, id).name
  BY <1>1, <1>4
<1>7. QED
  BY <1>1, <1>5, <1>6

AsLibrary(after) == [flags |-> after.flags, labels |-> after.labels, groups |-> after.groups,
                     categories |-> after.categories]

\* The library stays consistent and the new deck is one the server would accept.
LEMMA MergeIsSound ==
    ASSUME NEW library, Consistent(library), NEW file \in Archives, Parses(file), Room(library, file)
    PROVE  /\ Consistent(AsLibrary(Merge(library, file)))
           /\ Merge(library, file).deck \in Configuration /\ Acceptable(Merge(library, file).deck)
<1> DEFINE after == Merge(library, file)
           cap == CapOf(library, file)
           category == CategoryOf(library, file)
<1>1. /\ after.groups = CapsAfter(library, file)
      /\ after.categories = CategoriesAfter(library, file)
      /\ after.labels = library.labels \cup {<<x[1], category[x[2]]>> : x \in file.labels}
      /\ after.flags = [c \in Cards |-> FlagAfter(library.flags[c], c, file, cap)]
      /\ after.deck = Remapped(file.deck, category)
  BY MergeFields
<1>2. /\ library.groups \subseteq after.groups /\ after.groups \subseteq GroupRows /\ NamedOnce(after.groups)
      /\ library.categories \subseteq after.categories /\ after.categories \subseteq CategoryRows
      /\ NamedOnce(after.categories)
      /\ \A id \in Ids(file.groups) : cap[id] \in Ids(after.groups) /\ cap[id] \in GroupIds
      /\ \A id \in Ids(file.categories) : category[id] \in Ids(after.categories) /\ category[id] \in CategoryIds
  BY <1>1, MergedNames
<1> HIDE DEF after, cap, category
<1>3. ASSUME NEW c \in Cards
      PROVE  after.flags[c] \in Annotation /\ after.flags[c].group \in Ids(after.groups) \cup {Null}
  <2> DEFINE row == library.flags[c]
             theirs == file.profiles[c]
  <2>1. /\ row.hopt \in BOOLEAN \cup {Null} /\ row.choice \in BOOLEAN
        /\ row.availability \in Profiles \cup {Null} /\ row.group \in GroupIds \cup {Null}
        /\ row.availability # Null => row.choice
        /\ row.group # Null => row.availability # Null
        /\ row.group \in Ids(library.groups) \cup {Null}
    <3>1. row \in Annotation /\ row.group \in Ids(library.groups) \cup {Null}
      BY DEF Consistent
    <3>2. QED BY <3>1, AnnotationFields
  <2>2. row.group \in Ids(after.groups) \cup {Null}
    BY <1>2, <2>1 DEF Ids
  <2>3. after.flags[c] = FlagAfter(row, c, file, cap)
    BY <1>1
  <2>4. CASE c \in DOMAIN file.profiles
    <3>1. /\ theirs.availability \in Profiles /\ theirs.group \in GroupIds \cup {Null}
          /\ theirs.group # Null => theirs.group \in Ids(file.groups)
      BY <2>4, ArchiveFields DEF Parses
    <3> HIDE DEF row, theirs
    <3>2. GroupOf(cap, theirs) \in GroupIds \cup {Null} /\ GroupOf(cap, theirs) \in Ids(after.groups) \cup {Null}
      BY <1>2, <3>1 DEF GroupOf
    <3>3. Coalesce(row.group, GroupOf(cap, theirs)) \in GroupIds \cup {Null}
          /\ Coalesce(row.group, GroupOf(cap, theirs)) \in Ids(after.groups) \cup {Null}
      BY <2>1, <2>2, <3>2 DEF Coalesce
    <3>4. theirs.availability # Null
      BY <3>1, PruneAssumption
    <3>5. FlagAfter(row, c, file, cap) =
              [hopt |-> IF c \in file.hopt THEN TRUE ELSE row.hopt, choice |-> TRUE,
               availability |-> theirs.availability, group |-> Coalesce(row.group, GroupOf(cap, theirs))]
      BY <2>4 DEF FlagAfter, theirs
    <3>6. (IF c \in file.hopt THEN TRUE ELSE row.hopt) \in BOOLEAN \cup {Null}
      BY <2>1
    <3> DEFINE h == IF c \in file.hopt THEN TRUE ELSE row.hopt
               g == Coalesce(row.group, GroupOf(cap, theirs))
    <3>7. h \in BOOLEAN \cup {Null} /\ g \in GroupIds \cup {Null} /\ g \in Ids(after.groups) \cup {Null}
      BY <3>3, <3>6
    <3>8. after.flags[c] = [hopt |-> h, choice |-> TRUE, availability |-> theirs.availability, group |-> g]
      BY <2>3, <3>5
    <3> HIDE DEF h, g
    <3>9. after.flags[c] \in Choice
      BY <3>1, <3>7, <3>8 DEF Choice
    <3>10. after.flags[c].choice = TRUE /\ after.flags[c].availability # Null /\ after.flags[c].group = g
      BY <3>4, <3>8
    <3>11. QED
      BY <3>7, <3>9, <3>10 DEF Annotation
  <2>5. CASE c \notin DOMAIN file.profiles
    <3> HIDE DEF row
    <3> DEFINE h == IF c \in file.hopt THEN TRUE ELSE row.hopt
    <3>1. FlagAfter(row, c, file, cap) =
              [hopt |-> h, choice |-> FALSE \/ row.choice, availability |-> row.availability, group |-> row.group]
      BY <2>5 DEF FlagAfter
    <3>2. h \in BOOLEAN \cup {Null}
      BY <2>1
    <3>3. (FALSE \/ row.choice) = row.choice
      BY <2>1
    <3> HIDE DEF h
    <3>4. QED
      BY <2>1, <2>2, <2>3, <3>1, <3>2, <3>3 DEF Annotation, Choice
  <2>6. QED BY <2>4, <2>5
<1>4. after.flags \in [Cards -> Annotation]
  BY <1>1, <1>3
<1>5. after.labels \subseteq Cards \X Ids(after.categories)
  <2>1. library.labels \subseteq Cards \X Ids(library.categories)
    BY DEF Consistent
  <2>2. Ids(library.categories) \subseteq Ids(after.categories)
    BY <1>2 DEF Ids
  <2>3. \A x \in file.labels : x[1] \in Cards /\ x[2] \in Ids(file.categories)
    BY ArchiveFields DEF Parses
  <2>4. \A x \in file.labels : category[x[2]] \in Ids(after.categories)
    BY <1>2, <2>3
  <2>5. QED
    BY <1>1, <2>1, <2>2, <2>3, <2>4
<1>6. Consistent(AsLibrary(after))
  BY <1>2, <1>3, <1>4, <1>5 DEF Consistent, AsLibrary
<1>7. after.deck \in Configuration /\ Acceptable(after.deck)
  <2>1. file.deck \in Configuration /\ Acceptable(file.deck) /\ file.deck.queries \subseteq Ids(file.categories)
    BY ArchiveFields DEF Parses, Resolves
  <2>2. \A q \in file.deck.queries : category[q] \in CategoryIds
    BY <1>2, <2>1
  <2>3. QED
    BY <1>1, <2>1, <2>2, RemappedIsSound
<1>8. QED
  BY <1>6, <1>7 DEF after

\* What `Adds' says of the library before and after, and of the deck created.
AddsTo(library, after, file) ==
    /\ \A c \in Cards :
           /\ library.flags[c].hopt = FALSE => after.flags[c].hopt = FALSE
           /\ library.flags[c].choice => after.flags[c].availability = library.flags[c].availability
           /\ library.flags[c].group # Null => after.flags[c].group = library.flags[c].group
    /\ library.groups \subseteq after.groups /\ library.categories \subseteq after.categories
    /\ library.labels \subseteq after.labels
    /\ \A c \in file.hopt : after.flags[c].hopt = TRUE
    /\ \A c \in DOMAIN file.profiles :
           /\ after.flags[c].availability = file.profiles[c].availability
           /\ file.profiles[c].group # Null =>
                  LET theirs == Row(file.groups, file.profiles[c].group)
                      mine == Row(after.groups, after.flags[c].group)
                  IN mine.name = theirs.name /\ mine.cap = theirs.cap
    /\ {Row(after.categories, q).name : q \in after.deck.queries}
           = {Row(file.categories, q).name : q \in file.deck.queries}

\* What the import compared is enough: the merge overrides nothing, and all of the archive holds.
LEMMA MergeAdds ==
    ASSUME NEW library, Consistent(library), NEW file \in Archives, Parses(file), Room(library, file),
           ~Contradicts(library, file)
    PROVE  AddsTo(library, Merge(library, file), file)
<1> DEFINE after == Merge(library, file)
           cap == CapOf(library, file)
           category == CategoryOf(library, file)
<1>1. /\ after.groups = CapsAfter(library, file)
      /\ after.categories = CategoriesAfter(library, file)
      /\ after.labels = library.labels \cup {<<x[1], category[x[2]]>> : x \in file.labels}
      /\ after.flags = [c \in Cards |-> FlagAfter(library.flags[c], c, file, cap)]
      /\ after.deck = Remapped(file.deck, category)
  BY MergeFields
<1>2. ~LimitDiffers(library, file) /\ ~HoptDiffers(library, file) /\ ~ProfileDiffers(library, file)
  BY DEF Contradicts
<1>3. /\ library.groups \subseteq after.groups /\ NamedOnce(after.groups)
      /\ library.categories \subseteq after.categories
      /\ \A id \in Ids(file.groups) :
             /\ cap[id] \in Ids(after.groups)
             /\ Row(after.groups, cap[id]).name = Row(file.groups, id).name
             /\ Row(after.groups, cap[id]).cap = Row(file.groups, id).cap
      /\ \A id \in Ids(file.categories) :
             /\ category[id] \in Ids(after.categories) /\ category[id] \in CategoryIds
             /\ Row(after.categories, category[id]).name = Row(file.categories, id).name
  BY <1>1, <1>2, MergedNames
<1>4. ASSUME NEW c \in DOMAIN file.profiles
      PROVE  /\ ~(library.flags[c].choice /\ library.flags[c].availability = Null)
             /\ library.flags[c].availability # Null =>
                    library.flags[c].availability = file.profiles[c].availability
             /\ ~(library.flags[c].group # Null /\ file.profiles[c].group # Null
                  /\ library.flags[c].group # GroupOf(cap, file.profiles[c]))
  BY <1>2 DEF ProfileDiffers, CapOf, CapsAfter
<1> HIDE DEF after, cap, category
<1>12. \A c \in Cards : after.flags[c] = FlagAfter(library.flags[c], c, file, cap)
  BY <1>1
<1>5. ASSUME NEW c \in Cards
      PROVE  /\ after.flags[c].hopt = (IF c \in file.hopt THEN TRUE ELSE library.flags[c].hopt)
             /\ after.flags[c].availability = (IF c \in DOMAIN file.profiles THEN file.profiles[c].availability
                                               ELSE library.flags[c].availability)
             /\ after.flags[c].group = (IF c \in DOMAIN file.profiles
                                        THEN Coalesce(library.flags[c].group, GroupOf(cap, file.profiles[c]))
                                        ELSE library.flags[c].group)
  <2> DEFINE h == IF c \in file.hopt THEN TRUE ELSE library.flags[c].hopt
             ch == c \in DOMAIN file.profiles \/ library.flags[c].choice
             a == IF c \in DOMAIN file.profiles THEN file.profiles[c].availability
                  ELSE library.flags[c].availability
             g == IF c \in DOMAIN file.profiles
                  THEN Coalesce(library.flags[c].group, GroupOf(cap, file.profiles[c]))
                  ELSE library.flags[c].group
  <2>1. after.flags[c] = [hopt |-> h, choice |-> ch, availability |-> a, group |-> g]
    BY <1>12 DEF FlagAfter
  <2> HIDE DEF h, ch, a, g
  <2>2. after.flags[c].hopt = h /\ after.flags[c].availability = a /\ after.flags[c].group = g
    BY <2>1
  <2>3. QED
    BY <2>2, Zenon DEF h, a, g
<1>6. ASSUME NEW c \in Cards
      PROVE  /\ library.flags[c].hopt = FALSE => after.flags[c].hopt = FALSE
             /\ library.flags[c].choice => after.flags[c].availability = library.flags[c].availability
             /\ library.flags[c].group # Null => after.flags[c].group = library.flags[c].group
  <2>1. ASSUME library.flags[c].hopt = FALSE
        PROVE  after.flags[c].hopt = FALSE
    <3>1. c \notin file.hopt
      BY <1>2, <2>1 DEF HoptDiffers
    <3>2. QED BY <1>5, <2>1, <3>1
  <2>2. ASSUME library.flags[c].choice
        PROVE  after.flags[c].availability = library.flags[c].availability
    <3>1. CASE c \in DOMAIN file.profiles
      <4>1. library.flags[c].availability = file.profiles[c].availability
        BY <1>4, <2>2, <3>1
      <4>2. QED BY <1>5, <3>1, <4>1
    <3>2. CASE c \notin DOMAIN file.profiles
      BY <1>5, <3>2
    <3>3. QED BY <3>1, <3>2
  <2>3. ASSUME library.flags[c].group # Null
        PROVE  after.flags[c].group = library.flags[c].group
    BY <1>5, <2>3 DEF Coalesce
  <2>4. QED BY <2>1, <2>2, <2>3
<1>7. library.labels \subseteq after.labels
  BY <1>1
<1>8. \A c \in file.hopt : after.flags[c].hopt = TRUE
  <2> TAKE c \in file.hopt
  <2>1. c \in Cards
    BY ArchiveFields
  <2>2. QED BY <1>5, <2>1
<1>9. ASSUME NEW c \in DOMAIN file.profiles
      PROVE  /\ after.flags[c].availability = file.profiles[c].availability
             /\ file.profiles[c].group # Null =>
                    /\ Row(after.groups, after.flags[c].group).name
                           = Row(file.groups, file.profiles[c].group).name
                    /\ Row(after.groups, after.flags[c].group).cap
                           = Row(file.groups, file.profiles[c].group).cap
  <2>1. c \in Cards
    BY ArchiveFields
  <2>2. after.flags[c].availability = file.profiles[c].availability
    BY <1>5, <2>1
  <2>3. ASSUME file.profiles[c].group # Null
        PROVE  after.flags[c].group = cap[file.profiles[c].group] /\ file.profiles[c].group \in Ids(file.groups)
    <3>1. GroupOf(cap, file.profiles[c]) = cap[file.profiles[c].group]
      BY <2>3 DEF GroupOf
    <3>2. after.flags[c].group = Coalesce(library.flags[c].group, GroupOf(cap, file.profiles[c]))
      BY <1>5, <2>1
    <3>3. library.flags[c].group # Null => library.flags[c].group = GroupOf(cap, file.profiles[c])
      BY <1>4, <2>3
    <3>4. after.flags[c].group = cap[file.profiles[c].group]
      BY <3>1, <3>2, <3>3 DEF Coalesce
    <3>5. file.profiles[c].group \in Ids(file.groups)
      BY <2>3 DEF Parses
    <3>6. QED BY <3>4, <3>5
  <2>4. QED
    BY <1>3, <2>2, <2>3
<1>10. {Row(after.categories, q).name : q \in after.deck.queries}
           = {Row(file.categories, q).name : q \in file.deck.queries}
  <2>1. file.deck \in Configuration /\ Acceptable(file.deck) /\ file.deck.queries \subseteq Ids(file.categories)
    BY ArchiveFields DEF Parses, Resolves
  <2>2. \A q \in file.deck.queries : category[q] \in CategoryIds
    BY <1>3, <2>1
  <2>3. after.deck.queries = {category[q] : q \in file.deck.queries}
    BY <1>1, <2>1, <2>2, RemappedIsSound
  <2>4. \A q \in file.deck.queries : Row(after.categories, category[q]).name = Row(file.categories, q).name
    BY <1>3, <2>1
  <2>5. QED
    BY <2>3, <2>4
<1>11. QED
  BY <1>3, <1>6, <1>7, <1>8, <1>9, <1>10 DEF AddsTo, after

(***************************************************************************)
(* The invariant: what is stored, and what the script would leave if it    *)
(* committed now, is in order; an import writes what it has compared.      *)
(***************************************************************************)
Sound(deck) == deck \in Configuration /\ Acceptable(deck)
SoundDecks(all) ==
    /\ all \in [Decks -> Configuration \cup {NoDeck}]
    /\ \A d \in Decks : all[d] # NoDeck => Sound(all[d])

ScriptFields(s) ==
    s = [at |-> s.at, answer |-> s.answer, todo |-> s.todo, doomed |-> s.doomed, touched |-> s.touched,
         annotations |-> s.annotations, work |-> s.work, apply |-> s.apply, moved |-> s.moved, late |-> s.late]
SeenDecks(all, s) == [d \in Decks |-> IF d \in s.touched THEN s.work.decks[d] ELSE all[d]]
SeenLibrary(library, s) ==
    IF s.annotations
    THEN [flags |-> s.work.flags, labels |-> s.work.labels, groups |-> library.groups,
          categories |-> library.categories]
    ELSE library

DecksInv(all, s) ==
    /\ SoundDecks(all) /\ SoundDecks(SeenDecks(all, s))
    /\ s.touched \subseteq Decks /\ \A d \in s.touched : SeenDecks(all, s)[d] # NoDeck
LibraryInv(library, s) == Consistent(library) /\ Consistent(SeenLibrary(library, s))
\* A report is from an orphan to the one card of its name.
Named(s, c) == CHOOSE t \in Targets(s.answer, c) : TRUE
Reports(s) == \A c \in s.todo : c \in Cards /\ Named(s, c) \in Cards /\ c # Named(s, c)
ScriptInv(s) ==
    /\ ScriptFields(s) /\ s.annotations \in BOOLEAN
    /\ s.at \notin {"remap", "controlled"} => s.touched = {} /\ s.annotations = FALSE
ReportsInv == script.at = "remap" => Reports(script)
ImportsInv(serving, holder, library) ==
    /\ serving \in [Importers -> Requested]
    /\ \A i \in Importers : serving[i].at = "write" =>
           /\ holder = i
           /\ serving[i].file \in Archives /\ Parses(serving[i].file) /\ Room(library, serving[i].file)
           /\ ~serving[i].disturbed => ~Contradicts(library, serving[i].file)
HeldInv(page) == page # Null => page \in [deck : Decks, reading : Configuration]
CheckedInv(all, save) ==
    save # Null => /\ save \in [deck : Decks, writes : Configuration]
                   /\ Acceptable(save.writes) /\ all[save.deck] # NoDeck
\* An archive is made from a library the database has held.
Exported(x) ==
    /\ x.file \in Archives /\ Parses(x.file)
    /\ Consistent(x.from) /\ x.from = AsLibrary(x.from) /\ x.file = Build(x.file.deck, x.from)
FilesInv(exported) == \A x \in exported : Exported(x)

ArchiveInv ==
    /\ catalog \subseteq Cards
    /\ DecksInv(decks, script) /\ LibraryInv(Library, script)
    /\ ScriptInv(script) /\ ReportsInv
    /\ ImportsInv(imports, lock, Library)
    /\ HeldInv(held) /\ CheckedInv(decks, checked) /\ FilesInv(files)

LEMMA SeenIsOverlaid ==
    /\ Seen.decks = SeenDecks(decks, script)
    /\ SeenLibrary(Library, script)
           = [flags |-> Seen.flags, labels |-> Seen.labels, groups |-> groups, categories |-> categories]
<1>1. Seen.decks = SeenDecks(decks, script)
  BY DEF Seen, SeenDecks
<1>2. CASE script.annotations
  BY <1>1, <1>2 DEF Seen, SeenLibrary, Library
<1>3. CASE ~script.annotations
  BY <1>1, <1>3 DEF Seen, SeenLibrary, Library
<1>4. QED BY <1>1, <1>2, <1>3

\* What others write is remembered by the script, and changes nothing else of it.
LEMMA OnlyLate ==
    ASSUME NEW s, ScriptFields(s), NEW w
    PROVE  LET t == [s EXCEPT !.late = s.late \cup w]
           IN /\ ScriptFields(t)
              /\ t.at = s.at /\ t.answer = s.answer /\ t.todo = s.todo /\ t.doomed = s.doomed
              /\ t.touched = s.touched /\ t.annotations = s.annotations /\ t.work = s.work
              /\ t.apply = s.apply /\ t.moved = s.moved /\ t.late = s.late \cup w
<1> DEFINE t == [s EXCEPT !.late = s.late \cup w]
<1>1. t = [at |-> s.at, answer |-> s.answer, todo |-> s.todo, doomed |-> s.doomed, touched |-> s.touched,
           annotations |-> s.annotations, work |-> s.work, apply |-> s.apply, moved |-> s.moved,
           late |-> s.late \cup w]
  BY DEF ScriptFields
<1> HIDE DEF t
<1>2. QED
  BY <1>1 DEF ScriptFields, t

LEMMA LateIsUnseen ==
    ASSUME ScriptFields(script), NEW w, ScriptAfter(w)
    PROVE  /\ ScriptFields(script')
           /\ script'.at = script.at /\ script'.answer = script.answer /\ script'.todo = script.todo
           /\ script'.doomed = script.doomed /\ script'.touched = script.touched
           /\ script'.annotations = script.annotations /\ script'.work = script.work
           /\ script'.apply = script.apply /\ script'.moved = script.moved
           /\ script'.late = IF script.at = "controlled" THEN script.late \cup w ELSE script.late
<1>1. CASE script.at = "controlled"
  <2>1. script' = [script EXCEPT !.late = script.late \cup w]
    BY <1>1 DEF ScriptAfter
  <2>2. QED BY <1>1, <2>1, OnlyLate
<1>2. CASE script.at # "controlled"
  BY <1>2 DEF ScriptAfter
<1>3. QED BY <1>1, <1>2

\* What is said of a script depends on what it has done, not on what came after its control.
SameWork(t, s) ==
    /\ ScriptFields(t) /\ t.at = s.at /\ t.answer = s.answer /\ t.todo = s.todo
    /\ t.touched = s.touched /\ t.annotations = s.annotations /\ t.work = s.work

LEMMA SameWorkKeeps ==
    ASSUME NEW s, NEW t, SameWork(t, s)
    PROVE  /\ \A all : DecksInv(all, t) <=> DecksInv(all, s)
           /\ \A library : LibraryInv(library, t) <=> LibraryInv(library, s)
           /\ ScriptInv(s) => ScriptInv(t)
           /\ Reports(s) => Reports(t)
<1>1. \A all : SeenDecks(all, t) = SeenDecks(all, s)
  BY DEF SeenDecks, SameWork
<1>2. \A library : SeenLibrary(library, t) = SeenLibrary(library, s)
  BY DEF SeenLibrary, SameWork
<1>3. \A all : DecksInv(all, t) <=> DecksInv(all, s)
  BY <1>1 DEF DecksInv, SameWork
<1>4. \A library : LibraryInv(library, t) <=> LibraryInv(library, s)
  BY <1>2 DEF LibraryInv
<1>5. ScriptInv(s) => ScriptInv(t)
  BY DEF ScriptInv, SameWork
<1>6. \A c : Named(t, c) = Named(s, c)
  BY DEF Named, SameWork
<1>7. Reports(s) => Reports(t)
  BY <1>6 DEF Reports, SameWork
<1>8. QED BY <1>3, <1>4, <1>5, <1>7

\* A row of decks is written, or deleted when the script does not hold it.
LEMMA DeckWrittenInv ==
    ASSUME NEW all, NEW s, DecksInv(all, s), NEW d \in Decks, NEW v,
           Sound(v) \/ (v = NoDeck /\ d \notin s.touched)
    PROVE  DecksInv([all EXCEPT ![d] = v], s)
<1> DEFINE after == [all EXCEPT ![d] = v]
<1>1. v # NoDeck => Sound(v)
  OBVIOUS
<1>2. v \in Configuration \cup {NoDeck}
  BY DEF Sound
<1>3. /\ all \in [Decks -> Configuration \cup {NoDeck}]
      /\ \A e \in Decks : all[e] # NoDeck => Sound(all[e])
  BY DEF DecksInv, SoundDecks
<1>4. after \in [Decks -> Configuration \cup {NoDeck}]
  BY <1>2, <1>3
<1>5. \A e \in Decks : after[e] = IF e = d THEN v ELSE all[e]
  BY <1>3
<1>6. SoundDecks(after)
  BY <1>1, <1>3, <1>4, <1>5 DEF SoundDecks
<1>7. \A e \in Decks : SeenDecks(after, s)[e] = IF e \in s.touched THEN SeenDecks(all, s)[e] ELSE after[e]
  BY DEF SeenDecks
<1>8. /\ SeenDecks(all, s) \in [Decks -> Configuration \cup {NoDeck}]
      /\ \A e \in Decks : SeenDecks(all, s)[e] # NoDeck => Sound(SeenDecks(all, s)[e])
  BY DEF DecksInv, SoundDecks
<1> HIDE DEF after
<1>9. \A e \in Decks : /\ SeenDecks(after, s)[e] \in Configuration \cup {NoDeck}
                       /\ SeenDecks(after, s)[e] # NoDeck => Sound(SeenDecks(after, s)[e])
  BY <1>4, <1>6, <1>7, <1>8 DEF SoundDecks
<1>10. SeenDecks(after, s) \in [Decks -> Configuration \cup {NoDeck}]
  BY <1>9 DEF SeenDecks
<1>11. \A e \in s.touched : SeenDecks(after, s)[e] # NoDeck
  BY <1>7 DEF DecksInv
<1>12. QED
  BY <1>6, <1>9, <1>10, <1>11 DEF DecksInv, SoundDecks, after

\* What is reported: an orphan, to a card its source still has.
LEMMA ReportedIsAnOrphan ==
    ASSUME catalog \subseteq Cards, NEW source, NEW c \in Remappable(source)
    PROVE  LET t == CHOOSE t \in Targets(source, c) : TRUE
           IN /\ c \in Cards /\ c \in catalog /\ c \notin source
              /\ t \in Cards /\ t \in catalog /\ t \in source /\ c # t
<1>1. c \in catalog /\ c \notin source /\ Cardinality(Targets(source, c)) = 1
  BY DEF Remappable, Orphans
<1>2. Targets(source, c) # {}
  BY <1>1, FS_EmptySet
<1>3. (CHOOSE t \in Targets(source, c) : TRUE) \in Targets(source, c)
  BY <1>2
<1>4. Targets(source, c) \subseteq catalog \cap source
  BY DEF Targets
<1>5. QED BY <1>1, <1>3, <1>4

LEMMA RemapsDecks ==
    ASSUME DecksInv(decks, script), NEW o \in Cards, NEW n \in Cards, o # n, ~Refuses(o, n, Seen),
           NEW hit, hit \subseteq {d \in Decks : Seen.decks[d] # NoDeck},
           NEW t, t.touched = script.touched \cup hit, t.work = Remap(o, n, Seen)
    PROVE  DecksInv(decks, t)
<1> DEFINE now == SeenDecks(decks, script)
           then == SeenDecks(decks, t)
<1>1. Seen.decks = now
  BY SeenIsOverlaid
<1>2. \A d \in Decks : t.work.decks[d] = IF now[d] = NoDeck THEN NoDeck ELSE RemapDeck(o, n, now[d])
  BY <1>1 DEF Remap
<1>3. now \in [Decks -> Configuration \cup {NoDeck}] /\ \A d \in Decks : now[d] # NoDeck => Sound(now[d])
  BY DEF DecksInv, SoundDecks
<1>4. /\ decks \in [Decks -> Configuration \cup {NoDeck}]
      /\ \A d \in Decks : decks[d] # NoDeck => Sound(decks[d])
  BY DEF DecksInv, SoundDecks
<1>5. \A d \in t.touched : now[d] # NoDeck /\ d \in Decks
  BY <1>1 DEF DecksInv
<1>6. ASSUME NEW d \in Decks, now[d] # NoDeck
      PROVE  Sound(RemapDeck(o, n, now[d])) /\ RemapDeck(o, n, now[d]) # NoDeck
  <2>1. now[d] \in Configuration /\ Acceptable(now[d])
    BY <1>3, <1>6 DEF Sound
  <2>2. Unrefused(o, n, now[d])
    BY <1>1, <1>6 DEF Refuses, Unrefused
  <2> HIDE DEF now
  <2>3. RemapDeck(o, n, now[d]) \in Configuration /\ Acceptable(RemapDeck(o, n, now[d]))
    BY <2>1, <2>2, RemapKeepsType, RemapKeepsAcceptable
  <2>4. QED BY <2>3, PruneAssumption DEF Sound
<1>7. \A d \in Decks : then[d] = IF d \in t.touched THEN RemapDeck(o, n, now[d]) ELSE decks[d]
  BY <1>2, <1>5 DEF SeenDecks
<1>10. then = [d \in Decks |-> then[d]]
  BY DEF SeenDecks
<1> HIDE DEF now, then
<1>8. \A d \in Decks : /\ then[d] \in Configuration \cup {NoDeck}
                       /\ then[d] # NoDeck => Sound(then[d])
                       /\ d \in t.touched => then[d] # NoDeck
  BY <1>4, <1>5, <1>6, <1>7 DEF Sound
<1>9. SoundDecks(then)
  BY <1>8, <1>10 DEF SoundDecks
<1>11. QED
  BY <1>5, <1>8, <1>9 DEF DecksInv, then

LEMMA MergedIsAnAnnotation ==
    ASSUME NEW s \in Annotation, NEW d \in Annotation
    PROVE  /\ Merged(s, d) \in Annotation
           /\ Merged(s, d).group = Coalesce(d.group, s.group)
<1> DEFINE h == IF TRUE \in {d.hopt, s.hopt} THEN TRUE ELSE Coalesce(d.hopt, s.hopt)
           ch == d.choice \/ s.choice
           a == Coalesce(d.availability, s.availability)
           g == Coalesce(d.group, s.group)
<1>1. Merged(s, d) = [hopt |-> h, choice |-> ch, availability |-> a, group |-> g]
  BY DEF Merged
<1>2. h \in BOOLEAN \cup {Null}
  <2>1. d.hopt \in BOOLEAN \cup {Null} /\ s.hopt \in BOOLEAN \cup {Null}
    BY DEF Annotation, Choice
  <2>2. QED BY <2>1 DEF Coalesce
<1>3. ch \in BOOLEAN
  OBVIOUS
<1>4. /\ a \in Profiles \cup {Null} /\ g \in GroupIds \cup {Null}
      /\ a # Null => d.availability # Null \/ s.availability # Null
      /\ g # Null => a # Null
  BY AnnotationFields DEF Coalesce
<1>5. (d.availability # Null \/ s.availability # Null) => ch
  BY AnnotationFields
<1> HIDE DEF h, ch, a, g
<1>6. Merged(s, d) \in Annotation
  BY <1>1, <1>2, <1>3, <1>4, <1>5 DEF Annotation, Choice
<1>7. Merged(s, d).group = g
  BY <1>1
<1>8. QED BY <1>6, <1>7 DEF g

LEMMA RemapsLibrary ==
    ASSUME NEW library, Consistent(library), NEW o \in Cards, NEW n \in Cards, o # n
    PROVE  Consistent([flags |-> RemapFlags(o, n, library.flags),
                       labels |-> {<<Renamed(o, n, x[1]), x[2]>> : x \in library.labels},
                       groups |-> library.groups, categories |-> library.categories])
<1> DEFINE f == library.flags
           after == [flags |-> RemapFlags(o, n, f),
                     labels |-> {<<Renamed(o, n, x[1]), x[2]>> : x \in library.labels},
                     groups |-> library.groups, categories |-> library.categories]
           known == Ids(library.groups) \cup {Null}
<1>1. f \in [Cards -> Annotation] /\ \A c \in Cards : f[c].group \in known
  BY DEF Consistent
<1>2. NoChoice \in Annotation /\ NoChoice.group = Null
  BY DEF NoChoice, Annotation, Choice
<1>3. Merged(f[o], f[n]) \in Annotation /\ Merged(f[o], f[n]).group \in known
  BY <1>1, MergedIsAnAnnotation DEF Coalesce
<1>4. RemapFlags(o, n, f) \in [Cards -> Annotation]
  BY <1>1, <1>2, <1>3 DEF RemapFlags
<1>5. \A c \in Cards : RemapFlags(o, n, f)[c] = IF c = n THEN Merged(f[o], f[n]) ELSE IF c = o THEN NoChoice ELSE f[c]
  BY <1>1 DEF RemapFlags
<1>6. \A c \in Cards : RemapFlags(o, n, f)[c].group \in known
  BY <1>1, <1>2, <1>3, <1>5
<1>7. {<<Renamed(o, n, x[1]), x[2]>> : x \in library.labels} \subseteq Cards \X Ids(library.categories)
  BY RenamedCard DEF Consistent
<1>8. /\ after.flags = RemapFlags(o, n, f) /\ after.groups = library.groups
      /\ after.labels = {<<Renamed(o, n, x[1]), x[2]>> : x \in library.labels}
      /\ after.categories = library.categories
  OBVIOUS
<1>9. NamedOnce(library.groups) /\ library.groups \subseteq GroupRows
      /\ NamedOnce(library.categories) /\ library.categories \subseteq CategoryRows
  BY DEF Consistent
<1> HIDE DEF after, f
<1>10. Consistent(after)
  BY <1>4, <1>6, <1>7, <1>8, <1>9 DEF Consistent
<1>11. QED BY <1>10 DEF after, f

LEMMA ReportsKept ==
    ASSUME ReportsInv, UNCHANGED catalog,
           script'.at = script.at, script'.answer = script.answer, script'.todo \subseteq script.todo
    PROVE  ReportsInv'
<1>1. \A c : Targets(script.answer, c)' = Targets(script.answer, c)
  BY DEF Targets
<1>2. ASSUME script'.at = "remap"
      PROVE  Reports(script)'
  <2>1. Reports(script)
    BY <1>2 DEF ReportsInv
  <2>2. \A c : Named(script, c)' = Named(script, c)
    BY <1>1 DEF Named
  <2>3. QED
    BY <2>1, <2>2 DEF Reports
<1>3. QED BY <1>2 DEF ReportsInv

\* A step of a page: the script has done what it had done.
LEMMA ScriptKept ==
    ASSUME ArchiveInv, UNCHANGED catalog, SameWork(script', script)
    PROVE  /\ catalog' \subseteq Cards /\ ScriptInv(script') /\ ReportsInv'
           /\ \A all : DecksInv(all, script) => DecksInv(all, script')
           /\ \A library : LibraryInv(library, script) => LibraryInv(library, script')
<1>1. ScriptInv(script') /\ \A all : DecksInv(all, script) => DecksInv(all, script')
  BY SameWorkKeeps DEF ArchiveInv
<1>2. \A library : LibraryInv(library, script) => LibraryInv(library, script')
  BY SameWorkKeeps
<1>3. ReportsInv'
  BY ReportsKept DEF ArchiveInv, SameWork
<1>4. QED BY <1>1, <1>2, <1>3 DEF ArchiveInv

LEMMA SameScript ==
    ASSUME ArchiveInv, UNCHANGED script \/ \E w : ScriptAfter(w)
    PROVE  SameWork(script', script)
<1>1. ScriptFields(script)
  BY DEF ArchiveInv, ScriptInv
<1>2. CASE UNCHANGED script
  BY <1>1, <1>2 DEF SameWork
<1>3. ASSUME NEW w, ScriptAfter(w)
      PROVE  SameWork(script', script)
  BY <1>1, <1>3, LateIsUnseen DEF SameWork
<1>4. QED BY <1>2, <1>3

LEMMA LibraryKept ==
    ASSUME UNCHANGED <<flags, labels, groups, categories>>
    PROVE  Library' = Library
BY DEF Library

LEMMA AbsentDeck ==
    ASSUME Absent # {}
    PROVE  NewDeck \in Decks /\ decks[NewDeck] = NoDeck
<1>1. NewDeck \in Absent
  BY DEF NewDeck
<1>2. QED BY <1>1 DEF Absent

LEMMA CheckedKept ==
    ASSUME NEW all \in [Decks -> Configuration \cup {NoDeck}], NEW save, CheckedInv(all, save),
           NEW d \in Decks, NEW v, v # NoDeck \/ save = Null \/ save.deck # d
    PROVE  CheckedInv([all EXCEPT ![d] = v], save)
BY DEF CheckedInv

LEMMA ImportCheckInv ==
    ASSUME ArchiveInv, NEW i \in Importers, NEW file \in Archives, ImportCheck(i, file)
    PROVE  ArchiveInv'
<1> USE DEF ImportCheck, databaseVars, scriptVars
<1>1. /\ UNCHANGED <<catalog, decks, flags, labels, script, groups, categories, held, checked, files>>
      /\ Parses(file) /\ Room(Library, file) /\ lock = Null
  OBVIOUS
<1>2. Library' = Library
  BY LibraryKept
<1>3. /\ catalog' \subseteq Cards /\ ScriptInv(script') /\ ReportsInv'
      /\ DecksInv(decks', script') /\ LibraryInv(Library', script')
  BY <1>1, <1>2, ScriptKept, SameScript DEF ArchiveInv
<1>4. ImportsInv(imports, lock, Library) /\ Null \notin Importers
  BY ArchiveAssumption DEF ArchiveInv
<1>5. ASSUME Contradicts(Library, file)
      PROVE  ImportsInv(imports', lock', Library')
  <2>1. lock' = lock /\ imports' = imports
    BY <1>5
  <2>2. QED BY <1>2, <1>4, <2>1
<1>6. ASSUME ~Contradicts(Library, file)
      PROVE  ImportsInv(imports', lock', Library')
  <2> DEFINE r == [at |-> "write", file |-> file, disturbed |-> FALSE]
  <2>1. lock' = i /\ imports' = [imports EXCEPT ![i] = r]
    BY <1>6
  <2>2. r \in Requested /\ r.at = "write" /\ r.file = file /\ r.disturbed = FALSE
    BY DEF Requested
  <2>3. imports' \in [Importers -> Requested] /\ imports'[i] = r
        /\ \A j \in Importers \ {i} : imports'[j] = imports[j]
    BY <1>4, <2>1, <2>2 DEF ImportsInv
  <2>4. \A j \in Importers : imports[j].at # "write"
    BY <1>1, <1>4 DEF ImportsInv
  <2> HIDE DEF r
  <2>5. ImportsInv(imports', lock', Library)
    BY <1>1, <1>6, <2>1, <2>2, <2>3, <2>4 DEF ImportsInv
  <2>6. QED BY <1>2, <2>5
<1>7. ImportsInv(imports', lock', Library')
  BY <1>5, <1>6
<1>8. HeldInv(held') /\ CheckedInv(decks', checked') /\ FilesInv(files')
  BY <1>1 DEF ArchiveInv
<1>9. QED BY <1>3, <1>7, <1>8 DEF ArchiveInv

LEMMA Unwritten ==
    ASSUME ArchiveInv, UNCHANGED <<groups, categories, lock, imports>>,
           \/ lock = Null
           \/ UNCHANGED <<flags, labels>>
    PROVE  ImportsInv(imports', lock', Library')
<1>1. ImportsInv(imports, lock, Library)
  BY DEF ArchiveInv
<1>2. CASE UNCHANGED <<flags, labels>>
  BY <1>1, <1>2, LibraryKept
<1>3. CASE lock = Null
  <2>1. \A i \in Importers : imports[i].at # "write"
    BY <1>1, <1>3, ArchiveAssumption DEF ImportsInv
  <2>2. QED BY <1>1, <2>1 DEF ImportsInv
<1>4. QED BY <1>2, <1>3

LEMMA FreeAnnotations ==
    ASSUME ArchiveInv, AnnotationsFree
    PROVE  \A library : Consistent(library) => LibraryInv(library, script)
BY DEF LibraryInv, SeenLibrary, AnnotationsFree

LEMMA AnnotateInv ==
    ASSUME ArchiveInv, NEW c \in Cards, NEW row \in Chosen, Annotate(c, row)
    PROVE  ArchiveInv'
<1>1. /\ UNCHANGED <<catalog, decks, labels, groups, categories, lock, imports, held, checked, files>>
      /\ lock = Null /\ AnnotationsFree /\ flags' = [flags EXCEPT ![c] = row]
      /\ row.group # Null => row.group \in Ids(groups)
      /\ ScriptAfter({"library"})
  BY DEF Annotate
<1>2. Consistent(Library) /\ row \in Annotation
  BY ArchiveAssumption DEF ArchiveInv, LibraryInv
<1>3. /\ Library.flags = flags /\ Library.labels = labels /\ Library.groups = groups
      /\ Library.categories = categories
      /\ Library'.flags = flags' /\ Library'.labels = labels' /\ Library'.groups = groups'
      /\ Library'.categories = categories'
  BY DEF Library
<1>4. Consistent(Library')
  <2>1. flags' \in [Cards -> Annotation]
    BY <1>1, <1>2, <1>3 DEF Consistent
  <2>2. \A k \in Cards : flags'[k].group \in Ids(groups) \cup {Null}
    BY <1>1, <1>2, <1>3 DEF Consistent
  <2>3. QED
    BY <1>1, <1>2, <1>3, <2>1, <2>2 DEF Consistent
<1>5. SameWork(script', script)
  BY <1>1, SameScript
<1>6. LibraryInv(Library', script')
  BY <1>1, <1>4, <1>5, ScriptKept, FreeAnnotations
<1>7. /\ catalog' \subseteq Cards /\ ScriptInv(script') /\ ReportsInv' /\ DecksInv(decks', script')
  BY <1>1, <1>5, ScriptKept DEF ArchiveInv
<1>8. ImportsInv(imports', lock', Library')
  BY <1>1, Unwritten
<1>9. HeldInv(held') /\ CheckedInv(decks', checked') /\ FilesInv(files')
  BY <1>1 DEF ArchiveInv
<1>10. QED BY <1>6, <1>7, <1>8, <1>9 DEF ArchiveInv

LEMMA DeleteCategoryInv ==
    ASSUME ArchiveInv, NEW id \in CategoryIds, DeleteCategory(id)
    PROVE  ArchiveInv'
<1>1. /\ UNCHANGED <<catalog, decks, flags, groups, lock, imports, held, checked, files>>
      /\ lock = Null /\ AnnotationsFree
      /\ categories' = {k \in categories : k.id # id} /\ labels' = {x \in labels : x[2] # id}
      /\ ScriptAfter({})
  BY DEF DeleteCategory
<1>2. Consistent(Library)
  BY DEF ArchiveInv, LibraryInv
<1>3. /\ Library.flags = flags /\ Library.labels = labels /\ Library.groups = groups
      /\ Library.categories = categories
      /\ Library'.flags = flags' /\ Library'.labels = labels' /\ Library'.groups = groups'
      /\ Library'.categories = categories'
  BY DEF Library
<1>4. Consistent(Library')
  <2>1. categories' \subseteq CategoryRows /\ NamedOnce(categories')
    BY <1>1, <1>2, <1>3 DEF Consistent, NamedOnce
  <2>2. labels \subseteq Cards \X Ids(categories)
    BY <1>2, <1>3 DEF Consistent
  <2>3. labels' \subseteq Cards \X Ids(categories')
    BY <1>1, <2>2 DEF Ids
  <2>4. QED
    BY <1>1, <1>2, <1>3, <2>1, <2>3 DEF Consistent
<1>5. SameWork(script', script)
  BY <1>1, SameScript
<1>6. LibraryInv(Library', script')
  BY <1>1, <1>4, <1>5, ScriptKept, FreeAnnotations
<1>7. /\ catalog' \subseteq Cards /\ ScriptInv(script') /\ ReportsInv' /\ DecksInv(decks', script')
  BY <1>1, <1>5, ScriptKept DEF ArchiveInv
<1>8. ImportsInv(imports', lock', Library')
  <2>1. \A i \in Importers : imports[i].at # "write"
    BY <1>1, ArchiveAssumption DEF ArchiveInv, ImportsInv
  <2>2. QED BY <1>1, <2>1 DEF ArchiveInv, ImportsInv
<1>9. HeldInv(held') /\ CheckedInv(decks', checked') /\ FilesInv(files')
  BY <1>1 DEF ArchiveInv
<1>10. QED BY <1>6, <1>7, <1>8, <1>9 DEF ArchiveInv

\* A page writes a deck: what was said of the decks, of the script and of the saves still holds.
LEMMA DeckPartsKept ==
    ASSUME ArchiveInv, UNCHANGED <<catalog, checked>>, SameWork(script', script),
           NEW d \in Decks, Sound(decks'[d]) \/ (decks'[d] = NoDeck /\ DeckFree(d) /\ Unlocked(d)),
           decks' = [decks EXCEPT ![d] = decks'[d]]
    PROVE  DecksInv(decks', script') /\ CheckedInv(decks', checked')
<1> DEFINE v == decks'[d]
<1>1. DecksInv(decks, script) /\ CheckedInv(decks, checked)
  BY DEF ArchiveInv
<1>2. Sound(v) \/ (v = NoDeck /\ d \notin script.touched)
  BY DEF DeckFree
<1>3. v # NoDeck \/ checked = Null \/ checked.deck # d
  BY PruneAssumption DEF Sound, Unlocked
<1>4. decks \in [Decks -> Configuration \cup {NoDeck}]
  BY <1>1 DEF DecksInv, SoundDecks
<1>5. decks' = [decks EXCEPT ![d] = v]
  OBVIOUS
<1> HIDE DEF v
<1>6. DecksInv([decks EXCEPT ![d] = v], script)
  BY <1>1, <1>2, DeckWrittenInv
<1>7. CheckedInv([decks EXCEPT ![d] = v], checked)
  BY <1>1, <1>3, <1>4, CheckedKept
<1>8. DecksInv([decks EXCEPT ![d] = v], script')
  BY <1>6, SameWorkKeeps
<1>9. QED BY <1>5, <1>7, <1>8

LEMMA CreatesDeck ==
    ASSUME ArchiveInv, Absent # {}, UNCHANGED <<catalog, checked>>, SameWork(script', script),
           Sound(decks'[NewDeck]), decks' = [decks EXCEPT ![NewDeck] = decks'[NewDeck]]
    PROVE  DecksInv(decks', script') /\ CheckedInv(decks', checked')
<1>1. NewDeck \in Decks
  BY AbsentDeck
<1> DEFINE d == NewDeck
<1>2. d \in Decks /\ Sound(decks'[d]) /\ decks' = [decks EXCEPT ![d] = decks'[d]]
  BY <1>1
<1> HIDE DEF d
<1>3. QED BY <1>2, DeckPartsKept

LEMMA ImportWriteInv ==
    ASSUME ArchiveInv, NEW i \in Importers, ImportWrite(i)
    PROVE  ArchiveInv'
<1> DEFINE file == imports[i].file
           after == Merge(Library, file)
<1>1. /\ UNCHANGED <<catalog, held, checked, files>>
      /\ imports[i].at = "write" /\ AnnotationsFree /\ Absent # {}
      /\ categories' = after.categories /\ groups' = after.groups
      /\ labels' = after.labels /\ flags' = after.flags
      /\ decks' = [decks EXCEPT ![NewDeck] = after.deck]
      /\ lock' = IF lock = i THEN Null ELSE lock
      /\ imports' = [imports EXCEPT ![i] = Served]
      /\ ScriptAfter({NewDeck, "library"})
  BY DEF ImportWrite
<1>2. /\ Consistent(Library) /\ imports \in [Importers -> Requested] /\ lock = i
      /\ file \in Archives /\ Parses(file) /\ Room(Library, file)
      /\ \A j \in Importers : imports[j].at = "write" => lock = j
  BY <1>1 DEF ArchiveInv, LibraryInv, ImportsInv
<1>3. Consistent(AsLibrary(after)) /\ Sound(after.deck)
  <2> HIDE DEF file
  <2>1. QED BY <1>2, MergeIsSound DEF Sound
<1>4. Library' = AsLibrary(after)
  BY <1>1 DEF Library, AsLibrary
<1> HIDE DEF after
<1>5. SameWork(script', script)
  BY <1>1, SameScript
<1>6. LibraryInv(Library', script')
  BY <1>1, <1>3, <1>4, <1>5, ScriptKept, FreeAnnotations
<1>7. DecksInv(decks', script') /\ CheckedInv(decks', checked')
  <2>1. decks \in [Decks -> Configuration \cup {NoDeck}] /\ NewDeck \in Decks
    BY <1>1, AbsentDeck DEF ArchiveInv, DecksInv, SoundDecks
  <2>2. decks'[NewDeck] = after.deck
    BY <1>1, <2>1
  <2>3. QED BY <1>1, <1>3, <1>5, <2>2, CreatesDeck
<1>8. catalog' \subseteq Cards /\ ScriptInv(script') /\ ReportsInv'
  BY <1>1, <1>5, ScriptKept
<1>9. ImportsInv(imports', lock', Library')
  <2>1. Served \in Requested /\ Served.at # "write"
    BY DEF Served, Requested
  <2>2. imports' \in [Importers -> Requested]
    BY <1>1, <1>2, <2>1
  <2>3. \A j \in Importers : imports'[j].at # "write"
    BY <1>1, <1>2, <2>1
  <2>4. QED BY <2>2, <2>3 DEF ImportsInv
<1>10. HeldInv(held') /\ FilesInv(files')
  BY <1>1 DEF ArchiveInv
<1>11. QED BY <1>6, <1>7, <1>8, <1>9, <1>10 DEF ArchiveInv

\* Creation and duplication: a deck the server would accept, and the rest as it was.
LEMMA CreationInv ==
    ASSUME ArchiveInv, Absent # {}, NEW w, ScriptAfter(w), Sound(decks'[NewDeck]),
           decks' = [decks EXCEPT ![NewDeck] = decks'[NewDeck]],
           UNCHANGED <<catalog, flags, labels, groups, categories, lock, imports, held, checked, files>>
    PROVE  ArchiveInv'
<1>1. SameWork(script', script)
  BY SameScript
<1>2. DecksInv(decks', script') /\ CheckedInv(decks', checked')
  BY <1>1, CreatesDeck
<1>3. Library' = Library
  BY LibraryKept
<1>4. /\ catalog' \subseteq Cards /\ ScriptInv(script') /\ ReportsInv'
      /\ LibraryInv(Library', script')
  BY <1>1, <1>3, ScriptKept DEF ArchiveInv
<1>5. ImportsInv(imports', lock', Library')
  BY Unwritten
<1>6. HeldInv(held') /\ FilesInv(files')
  BY DEF ArchiveInv
<1>7. QED BY <1>2, <1>4, <1>5, <1>6 DEF ArchiveInv

LEMMA CreateInv ==
    ASSUME ArchiveInv, NEW report, report.cards \in [Zones -> List], Create(report)
    PROVE  ArchiveInv'
<1> DEFINE v == [Empty EXCEPT !.cards = Confirmed(report)]
<1>1. Sound(v)
  BY ConfirmedIsSound DEF Sound
<1>2. /\ Absent # {} /\ decks' = [decks EXCEPT ![NewDeck] = v] /\ ScriptAfter({NewDeck})
      /\ UNCHANGED <<catalog, flags, labels, groups, categories, lock, imports, held, checked, files>>
  BY DEF Create
<1> HIDE DEF v
<1>3. decks'[NewDeck] = v
  BY <1>2, AbsentDeck DEF ArchiveInv, DecksInv, SoundDecks
<1>4. QED BY <1>1, <1>2, <1>3, CreationInv

LEMMA DuplicateInv ==
    ASSUME ArchiveInv, NEW d \in Decks, Duplicate(d)
    PROVE  ArchiveInv'
<1> DEFINE v == Copy(decks[d])
<1>1. /\ Exists(d) /\ Absent # {} /\ \A p \in decks[d].pairs : Fresh(p.id) \in PairIds
      /\ decks' = [decks EXCEPT ![NewDeck] = v] /\ ScriptAfter({NewDeck})
      /\ UNCHANGED <<catalog, flags, labels, groups, categories, lock, imports, held, checked, files>>
  BY DEF Duplicate
<1>2. Sound(decks[d])
  BY <1>1 DEF ArchiveInv, DecksInv, SoundDecks, Exists
<1>3. Sound(v)
  BY <1>1, <1>2, CopyIsSound DEF Sound
<1> HIDE DEF v
<1>4. decks'[NewDeck] = v
  BY <1>1, AbsentDeck DEF ArchiveInv, DecksInv, SoundDecks
<1>5. QED BY <1>1, <1>3, <1>4, CreationInv

\* The cards a deck names are passcodes.
LEMMA MentionsAreCards ==
    ASSUME NEW deck \in Configuration
    PROVE  Mentions(deck) \subseteq Cards
<1>1. /\ deck.cards \in [Zones -> List] /\ deck.starters \subseteq Cards /\ deck.pairs \subseteq Pair
      /\ deck.conditions \subseteq Condition /\ deck.dead \subseteq Cards \X {"first", "second"}
      /\ deck.plans \in [Plans -> [Directions -> List]]
  BY DeckFields
<1>2. UNION {Of(deck.cards[z]) : z \in Zones} \subseteq Cards
  BY DEF Of
<1>3. {x[1] : x \in deck.dead} \subseteq Cards
  BY <1>1
<1>4. UNION {{p.a, p.b} : p \in deck.pairs} \subseteq Cards
  BY <1>1 DEF Pair
<1>5. UNION {Leaves(k) : k \in deck.conditions} \subseteq Cards
  <2>1. ASSUME NEW k \in deck.conditions
        PROVE  Leaves(k) \subseteq Cards
    <3>1. k.leaves \in Seq(Cards)
      BY ConditionFields
    <3>2. QED BY <3>1 DEF Leaves
  <2>2. QED BY <2>1
<1>6. {k.card : k \in deck.conditions} \ {Null} \subseteq Cards
  BY <1>1 DEF Condition
<1>7. UNION {Of(deck.plans[p][d]) : p \in Plans, d \in Directions} \subseteq Cards
  BY DEF Of
<1> DEFINE a == UNION {Of(deck.cards[z]) : z \in Zones}
           b == {x[1] : x \in deck.dead}
           c == UNION {{p.a, p.b} : p \in deck.pairs}
           d == UNION {Leaves(k) : k \in deck.conditions}
           e == {k.card : k \in deck.conditions} \ {Null}
           f == UNION {Of(deck.plans[p][w]) : p \in Plans, w \in Directions}
<1>8. \A x \in Mentions(deck) :
          x \in a \/ x \in deck.starters \/ x \in b \/ x \in c \/ x \in d \/ x \in e \/ x \in f
  BY DEF Mentions
<1>9. a \subseteq Cards /\ b \subseteq Cards /\ c \subseteq Cards /\ d \subseteq Cards /\ e \subseteq Cards
      /\ f \subseteq Cards
  BY <1>2, <1>3, <1>4, <1>5, <1>6, <1>7
<1> HIDE DEF a, b, c, d, e, f
<1>10. QED BY <1>1, <1>8, <1>9

LEMMA BuildIsAnArchive ==
    ASSUME NEW deck \in Configuration, NEW library, Consistent(library)
    PROVE  Build(deck, library) \in Archives
<1> DEFINE file == Build(deck, library)
<1>1. Mentions(deck) \subseteq Cards
  BY MentionsAreCards
<1>2. library.flags \in [Cards -> Annotation] /\ library.labels \subseteq Cards \X Ids(library.categories)
      /\ library.categories \subseteq CategoryRows /\ library.groups \subseteq GroupRows
  BY DEF Consistent
<1>3. Ids(library.categories) \subseteq CategoryIds
  BY <1>2 DEF Ids, CategoryRows
<1>4. /\ file.deck = deck
      /\ file.hopt = {c \in Mentions(deck) : library.flags[c].hopt = TRUE}
      /\ file.labels = {x \in library.labels : x[1] \in Mentions(deck)}
      /\ file.categories \subseteq library.categories /\ file.groups \subseteq library.groups
  BY DEF Build
<1>5. /\ file.deck \in Configuration /\ file.hopt \in SUBSET Cards
      /\ file.categories \in SUBSET CategoryRows /\ file.groups \in SUBSET GroupRows
      /\ file.labels \in SUBSET (Cards \X CategoryIds)
  <2> HIDE DEF file
  <2>1. QED BY <1>1, <1>2, <1>3, <1>4
<1>6. file.profiles \in UNION {[s -> Profile] : s \in SUBSET Cards}
  <2> DEFINE s == {c \in Mentions(deck) : library.flags[c].availability # Null}
  <2>1. s \in SUBSET Cards
    BY <1>1
  <2>2. \A c \in s : [availability |-> library.flags[c].availability, group |-> library.flags[c].group] \in Profile
    BY <1>1, <1>2, AnnotationFields DEF Profile
  <2>3. file.profiles = [c \in s |-> [availability |-> library.flags[c].availability,
                                      group |-> library.flags[c].group]]
    BY DEF Build
  <2> HIDE DEF s, file
  <2>4. file.profiles \in [s -> Profile]
    BY <2>2, <2>3
  <2>5. QED BY <2>1, <2>4
<1>7. file = [deck |-> file.deck, hopt |-> file.hopt, labels |-> file.labels,
              categories |-> file.categories, profiles |-> file.profiles, groups |-> file.groups]
  BY DEF Build
<1> HIDE DEF file
<1>8. file \in Archives
  BY <1>5, <1>6, <1>7 DEF Archives
<1>9. QED BY <1>8 DEF file

LEMMA EditedIsTyped ==
    ASSUME HeldInv(held), held # Null, NEW edited \in Edited
    PROVE  edited \in Configuration
<1> DEFINE r == held.reading
<1>1. r \in Configuration
  BY DEF HeldInv
<1>2. \/ edited = r
      \/ \E c \in Searched : edited = [r EXCEPT !.cards["side"][c] = 1]
      \/ \E p \in Paired : edited = [r EXCEPT !.pairs = @ \cup {p}]
  BY DEF Edited
<1> HIDE DEF r
<1>3. /\ r.cards \in [Zones -> List] /\ r.starters \subseteq Cards /\ r.pairs \subseteq Pair
      /\ r.conditions \subseteq Condition /\ r.dead \subseteq Cards \X {"first", "second"}
      /\ r.plans \in [Plans -> [Directions -> List]] /\ r.queries \subseteq CategoryIds
      /\ r = [cards |-> r.cards, starters |-> r.starters, pairs |-> r.pairs,
              conditions |-> r.conditions, dead |-> r.dead, plans |-> r.plans, queries |-> r.queries]
  BY <1>1, DeckFields
<1>4. ASSUME NEW c \in Searched, edited = [r EXCEPT !.cards["side"][c] = 1]
      PROVE  edited \in Configuration
  <2> DEFINE cs == [r.cards EXCEPT !["side"][c] = 1]
  <2>1. r.cards["side"] \in [Cards -> Nat] /\ [r.cards["side"] EXCEPT ![c] = 1] \in [Cards -> Nat]
    BY <1>3 DEF Zones, List
  <2>2. cs = [r.cards EXCEPT !["side"] = [r.cards["side"] EXCEPT ![c] = 1]]
    BY <1>3 DEF Zones
  <2>3. cs \in [Zones -> List]
    BY <1>3, <2>1, <2>2 DEF Zones, List
  <2>4. edited = [cards |-> cs, starters |-> r.starters, pairs |-> r.pairs, conditions |-> r.conditions,
                  dead |-> r.dead, plans |-> r.plans, queries |-> r.queries]
    BY <1>3, <1>4
  <2> HIDE DEF cs
  <2>5. QED BY <1>3, <2>3, <2>4 DEF Configuration
<1>5. ASSUME NEW p \in Paired, edited = [r EXCEPT !.pairs = @ \cup {p}]
      PROVE  edited \in Configuration
  <2> DEFINE ps == r.pairs \cup {p}
  <2>1. ps \subseteq Pair
    BY <1>3, ArchiveAssumption
  <2>2. edited = [cards |-> r.cards, starters |-> r.starters, pairs |-> ps, conditions |-> r.conditions,
                  dead |-> r.dead, plans |-> r.plans, queries |-> r.queries]
    BY <1>3, <1>5
  <2> HIDE DEF ps
  <2>3. QED BY <1>3, <2>1, <2>2 DEF Configuration
<1>6. QED BY <1>1, <1>2, <1>4, <1>5

LEMMA OpenDeckInv ==
    ASSUME ArchiveInv, NEW d \in Decks, OpenDeck(d)
    PROVE  ArchiveInv'
<1>1. /\ UNCHANGED <<catalog, decks, flags, labels, groups, categories, script, lock, imports, checked, files>>
      /\ decks[d] # NoDeck /\ held' = [deck |-> d, reading |-> decks[d]]
  BY DEF OpenDeck, Exists, databaseVars, scriptVars
<1>2. decks[d] \in Configuration
  BY <1>1 DEF ArchiveInv, DecksInv, SoundDecks, Sound
<1>3. HeldInv(held')
  BY <1>1, <1>2 DEF HeldInv
<1>4. Library' = Library
  BY <1>1, LibraryKept
<1>5. ReportsInv'
  BY <1>1, ReportsKept DEF ArchiveInv
<1>6. QED BY <1>1, <1>3, <1>4, <1>5 DEF ArchiveInv

LEMMA SaveCheckInv ==
    ASSUME ArchiveInv, held # Null, NEW edited \in Edited, SaveCheck(edited)
    PROVE  ArchiveInv'
<1>1. /\ UNCHANGED <<catalog, decks, flags, labels, groups, categories, script, lock, imports, held, files>>
      /\ decks[held.deck] # NoDeck /\ Acceptable(edited)
      /\ checked' = [deck |-> held.deck, writes |-> edited]
  BY DEF SaveCheck, Exists, databaseVars, scriptVars
<1>2. held.deck \in Decks /\ edited \in Configuration
  BY EditedIsTyped DEF ArchiveInv, HeldInv
<1>3. CheckedInv(decks', checked')
  BY <1>1, <1>2 DEF CheckedInv
<1>4. Library' = Library
  BY <1>1, LibraryKept
<1>5. ReportsInv'
  BY <1>1, ReportsKept DEF ArchiveInv
<1>6. QED BY <1>1, <1>3, <1>4, <1>5 DEF ArchiveInv

LEMMA ExportInv ==
    ASSUME ArchiveInv, Export
    PROVE  ArchiveInv'
<1> DEFINE file == Build(held.reading, Library)
<1>1. /\ UNCHANGED <<catalog, decks, flags, labels, groups, categories, script, lock, imports, held, checked>>
      /\ held # Null /\ Parses(file) /\ files' = files \cup {[file |-> file, from |-> Library]}
  BY DEF Export, databaseVars, scriptVars
<1>2. file \in Archives /\ Consistent(Library)
  BY <1>1, BuildIsAnArchive DEF ArchiveInv, HeldInv, LibraryInv
<1>7. file = Build(file.deck, Library) /\ Library = AsLibrary(Library)
  <2>1. file.deck = held.reading
    BY DEF Build
  <2>2. QED BY <2>1 DEF Library, AsLibrary
<1> HIDE DEF file
<1>8. Exported([file |-> file, from |-> Library])
  BY <1>1, <1>2, <1>7 DEF Exported
<1>3. FilesInv(files')
  BY <1>1, <1>8 DEF ArchiveInv, FilesInv
<1>4. Library' = Library
  BY <1>1, LibraryKept
<1>5. ReportsInv'
  BY <1>1, ReportsKept DEF ArchiveInv
<1>6. QED BY <1>1, <1>3, <1>4, <1>5 DEF ArchiveInv

LEMMA SaveWriteInv ==
    ASSUME ArchiveInv, SaveWrite
    PROVE  ArchiveInv'
<1> DEFINE d == checked.deck
           after == Written(decks[d], checked.writes)
<1>1. /\ UNCHANGED <<catalog, flags, labels, groups, categories, lock, imports, files>>
      /\ checked # Null /\ checked' = Null /\ DeckFree(d)
      /\ IF Duplicates(after)
         THEN UNCHANGED <<decks, script>>
         ELSE decks' = [decks EXCEPT ![d] = after] /\ ScriptAfter({d})
      /\ held' = IF Duplicates(after) \/ held = Null \/ held.deck # d
                 THEN held
                 ELSE [held EXCEPT !.reading = checked.writes]
  BY DEF SaveWrite
<1>2. /\ checked \in [deck : Decks, writes : Configuration]
      /\ Acceptable(checked.writes) /\ decks[d] # NoDeck /\ d \in Decks
      /\ checked.writes \in Configuration
  BY <1>1 DEF ArchiveInv, CheckedInv
<1>3. Sound(decks[d])
  BY <1>2 DEF ArchiveInv, DecksInv, SoundDecks
<1>4. ~Duplicates(after) => Sound(after)
  BY <1>2, <1>3, WrittenIsSound DEF Sound
<1>5. decks \in [Decks -> Configuration \cup {NoDeck}]
  BY DEF ArchiveInv, DecksInv, SoundDecks
<1> HIDE DEF after, d
<1>6. SameWork(script', script)
  BY <1>1, SameScript
<1>7. DecksInv(decks', script')
  <2>1. CASE Duplicates(after)
    <3>1. decks' = decks /\ DecksInv(decks, script)
      BY <1>1, <2>1 DEF ArchiveInv
    <3>2. QED BY <3>1, <1>6, SameWorkKeeps
  <2>2. CASE ~Duplicates(after)
    <3>1. decks' = [decks EXCEPT ![d] = after] /\ DecksInv(decks, script)
      BY <1>1, <2>2 DEF ArchiveInv
    <3>2. DecksInv([decks EXCEPT ![d] = after], script)
      BY <1>2, <1>4, <2>2, <3>1, DeckWrittenInv
    <3>3. QED BY <3>1, <3>2, <1>6, SameWorkKeeps
  <2>3. QED BY <2>1, <2>2
<1>8. HeldInv(held')
  BY <1>1, <1>2 DEF ArchiveInv, HeldInv
<1>9. CheckedInv(decks', checked')
  BY <1>1 DEF CheckedInv
<1>10. Library' = Library
  BY <1>1, LibraryKept
<1>11. /\ catalog' \subseteq Cards /\ ScriptInv(script') /\ ReportsInv' /\ LibraryInv(Library', script')
  BY <1>1, <1>6, <1>10, ScriptKept DEF ArchiveInv
<1>12. ImportsInv(imports', lock', Library')
  BY <1>1, Unwritten
<1>13. FilesInv(files')
  BY <1>1 DEF ArchiveInv
<1>14. QED BY <1>7, <1>8, <1>9, <1>11, <1>12, <1>13 DEF ArchiveInv

LEMMA DeleteInv ==
    ASSUME ArchiveInv, NEW d \in Decks, Delete(d)
    PROVE  ArchiveInv'
<1>1. /\ UNCHANGED <<catalog, flags, labels, groups, categories, lock, imports, checked, files>>
      /\ Unlocked(d) /\ DeckFree(d) /\ decks' = [decks EXCEPT ![d] = NoDeck]
      /\ held' = IF held # Null /\ held.deck = d THEN Null ELSE held
      /\ ScriptAfter({})
  BY DEF Delete
<1>2. SameWork(script', script)
  BY <1>1, SameScript
<1>3. decks \in [Decks -> Configuration \cup {NoDeck}]
  BY DEF ArchiveInv, DecksInv, SoundDecks
<1>4. decks'[d] = NoDeck
  BY <1>1, <1>3
<1>5. DecksInv(decks', script') /\ CheckedInv(decks', checked')
  BY <1>1, <1>2, <1>4, DeckPartsKept
<1>6. HeldInv(held')
  BY <1>1 DEF ArchiveInv, HeldInv
<1>7. Library' = Library
  BY <1>1, LibraryKept
<1>8. /\ catalog' \subseteq Cards /\ ScriptInv(script') /\ ReportsInv' /\ LibraryInv(Library', script')
  BY <1>1, <1>2, <1>7, ScriptKept DEF ArchiveInv
<1>9. ImportsInv(imports', lock', Library')
  BY <1>1, Unwritten
<1>10. FilesInv(files')
  BY <1>1 DEF ArchiveInv
<1>11. QED BY <1>5, <1>6, <1>8, <1>9, <1>10 DEF ArchiveInv

---------------------------------------------------------------------------
\* What an import compares: the flags and the groups; where it finds room: the groups and the
\* categories.
LEMMA ComparedRows ==
    ASSUME NEW library, NEW other, NEW file,
           other.groups = library.groups, other.categories = library.categories
    PROVE  /\ Room(other, file) <=> Room(library, file)
           /\ other.flags = library.flags => (Contradicts(other, file) <=> Contradicts(library, file))
<1>1. Room(other, file) <=> Room(library, file)
  BY DEF Room
<1>2. ASSUME other.flags = library.flags
      PROVE  Contradicts(other, file) <=> Contradicts(library, file)
  <2>1. LimitDiffers(other, file) <=> LimitDiffers(library, file)
    BY DEF LimitDiffers
  <2>2. HoptDiffers(other, file) <=> HoptDiffers(library, file)
    BY <1>2 DEF HoptDiffers
  <2>3. ProfileDiffers(other, file) <=> ProfileDiffers(library, file)
    BY <1>2 DEF ProfileDiffers
  <2>4. QED BY <2>1, <2>2, <2>3 DEF Contradicts
<1>3. QED BY <1>1, <1>2

\* The script moves the flags under an import, which knows it; nothing else it compared.
LEMMA ScriptKeepsImports ==
    ASSUME ArchiveInv, Script
    PROVE  ImportsInv(imports', lock', Library')
<1>1. /\ UNCHANGED <<groups, categories, lock>>
      /\ imports' = [i \in Importers |->
                       IF flags' # flags /\ imports[i].at = "write"
                       THEN [imports[i] EXCEPT !.disturbed = TRUE] ELSE imports[i]]
  BY DEF Script
<1>2. ImportsInv(imports, lock, Library)
  BY DEF ArchiveInv
<1>3. /\ Library'.groups = Library.groups /\ Library'.categories = Library.categories
      /\ flags' = flags => Library'.flags = Library.flags
  BY <1>1 DEF Library
<1>4. ASSUME NEW i \in Importers
      PROVE  /\ imports'[i] \in Requested /\ imports'[i].at = imports[i].at
             /\ imports'[i].file = imports[i].file
             /\ ~imports'[i].disturbed /\ imports[i].at = "write" =>
                    ~imports[i].disturbed /\ flags' = flags
  <2>1. imports[i] \in Requested
    BY <1>2 DEF ImportsInv
  <2>2. CASE flags' # flags /\ imports[i].at = "write"
    <3> DEFINE r == [imports[i] EXCEPT !.disturbed = TRUE]
    <3>1. imports'[i] = r
      BY <1>1, <2>2
    <3>2. r \in Requested /\ r.at = imports[i].at /\ r.file = imports[i].file /\ r.disturbed = TRUE
      BY <2>1 DEF Requested
    <3> HIDE DEF r
    <3>3. QED BY <3>1, <3>2
  <2>3. CASE ~(flags' # flags /\ imports[i].at = "write")
    BY <1>1, <2>1, <2>3
  <2>4. QED BY <2>2, <2>3
<1>5. imports' = [i \in Importers |-> imports'[i]]
  BY <1>1
<1>6. imports' \in [Importers -> Requested]
  BY <1>4, <1>5
<1>7. ASSUME NEW i \in Importers, imports'[i].at = "write"
      PROVE  /\ lock' = i
             /\ imports'[i].file \in Archives /\ Parses(imports'[i].file) /\ Room(Library', imports'[i].file)
             /\ ~imports'[i].disturbed => ~Contradicts(Library', imports'[i].file)
  <2> DEFINE file == imports[i].file
  <2>1. imports[i].at = "write" /\ imports'[i].file = file
    BY <1>4, <1>7
  <2>2. /\ lock = i /\ file \in Archives /\ Parses(file) /\ Room(Library, file)
        /\ ~imports[i].disturbed => ~Contradicts(Library, file)
    BY <1>2, <2>1 DEF ImportsInv
  <2> HIDE DEF file
  <2>3. Room(Library', file)
    BY <1>3, <2>2, ComparedRows
  <2>4. flags' = flags => (Contradicts(Library', file) <=> Contradicts(Library, file))
    BY <1>3, ComparedRows
  <2>5. QED BY <1>1, <1>4, <2>1, <2>2, <2>3, <2>4
<1>8. QED BY <1>6, <1>7 DEF ImportsInv

\* What the script has done is cancelled, or not begun.
LEMMA NothingDone ==
    ASSUME NEW s, s.touched = {}, s.annotations = FALSE
    PROVE  /\ \A all : SoundDecks(all) => DecksInv(all, s)
           /\ \A library : Consistent(library) => LibraryInv(library, s)
<1>1. ASSUME NEW all, SoundDecks(all)
      PROVE  DecksInv(all, s)
  <2>1. SeenDecks(all, s) = all
    BY <1>1 DEF SeenDecks, SoundDecks
  <2>2. QED BY <1>1, <2>1 DEF DecksInv
<1>2. ASSUME NEW library, Consistent(library)
      PROVE  LibraryInv(library, s)
  BY <1>2 DEF LibraryInv, SeenLibrary
<1>3. QED BY <1>1, <1>2

LEMMA IdleScript ==
    /\ ScriptInv(Idle) /\ Idle.touched = {} /\ Idle.annotations = FALSE /\ Idle.at = "idle"
    /\ LET failed == [Idle EXCEPT !.at = "failed"]
       IN ScriptInv(failed) /\ failed.touched = {} /\ failed.annotations = FALSE /\ failed.at = "failed"
<1>1. /\ Idle.touched = {} /\ Idle.annotations = FALSE /\ Idle.at = "idle" /\ ScriptFields(Idle)
  BY DEF Idle, ScriptFields
<1> DEFINE failed == [Idle EXCEPT !.at = "failed"]
<1>5. failed = [at |-> "failed", answer |-> Idle.answer, todo |-> Idle.todo, doomed |-> Idle.doomed,
                touched |-> {}, annotations |-> FALSE, work |-> Idle.work, apply |-> Idle.apply,
                moved |-> Idle.moved, late |-> Idle.late]
  <2>1. \A s : ScriptFields(s) =>
            [s EXCEPT !.at = "failed"]
                = [at |-> "failed", answer |-> s.answer, todo |-> s.todo, doomed |-> s.doomed,
                   touched |-> s.touched, annotations |-> s.annotations, work |-> s.work,
                   apply |-> s.apply, moved |-> s.moved, late |-> s.late]
    BY DEF ScriptFields
  <2>2. QED BY <1>1, <2>1
<1> HIDE DEF failed
<1>2. failed.touched = {} /\ failed.annotations = FALSE /\ failed.at = "failed" /\ ScriptFields(failed)
  BY <1>5 DEF ScriptFields
<1>3. ScriptInv(Idle) /\ ScriptInv(failed)
  BY <1>1, <1>2 DEF ScriptInv
<1>4. QED BY <1>1, <1>2, <1>3 DEF failed

\* The script ends, with what it has done or without.
LEMMA EndsInv ==
    ASSUME ArchiveInv, Script, script' = Idle \/ script' = [Idle EXCEPT !.at = "failed"],
           UNCHANGED databaseVars
    PROVE  ArchiveInv'
<1>1. UNCHANGED <<catalog, decks, flags, labels, groups, categories, held, checked, files>>
  BY DEF Script, databaseVars
<1>2. /\ ScriptInv(script') /\ script'.touched = {} /\ script'.annotations = FALSE
      /\ script'.at # "remap"
  BY IdleScript
<1>3. Library' = Library
  BY <1>1, LibraryKept
<1>4. SoundDecks(decks) /\ Consistent(Library)
  BY DEF ArchiveInv, DecksInv, LibraryInv
<1>5. DecksInv(decks', script') /\ LibraryInv(Library', script')
  BY <1>1, <1>2, <1>3, <1>4, NothingDone
<1>6. ReportsInv'
  BY <1>2 DEF ReportsInv
<1>7. ImportsInv(imports', lock', Library')
  BY ScriptKeepsImports
<1>8. QED BY <1>1, <1>2, <1>5, <1>6, <1>7 DEF ArchiveInv

LEMMA StartInv ==
    ASSUME ArchiveInv, Script, NEW source, NEW apply, NEW only, PruneStart(source, apply, only)
    PROVE  ArchiveInv'
<1> DEFINE todo == Remappable(source) \cap MentionedIn(Committed)
           doomed == Remappable(source) \cup IF only THEN {} ELSE Deletable(source)
<1>1. /\ UNCHANGED <<catalog, decks, flags, labels, groups, categories, held, checked, files>>
      /\ script' = [Idle EXCEPT !.at = "remap", !.answer = source, !.apply = apply, !.work = Committed,
                                !.todo = todo, !.doomed = doomed]
  BY DEF Script, databaseVars, PruneStart
<1>9. todo \subseteq Remappable(source)
  OBVIOUS
<1> HIDE DEF todo, doomed
<1>2. script' = [at |-> "remap", answer |-> source, todo |-> todo, doomed |-> doomed, touched |-> {},
                 annotations |-> FALSE, work |-> Committed, apply |-> apply, moved |-> {}, late |-> {}]
  BY <1>1 DEF Idle
<1>3. /\ script'.at = "remap" /\ script'.answer = source /\ script'.todo = todo
      /\ script'.touched = {} /\ script'.annotations = FALSE /\ ScriptFields(script')
  BY <1>2 DEF ScriptFields
<1>4. ScriptInv(script')
  BY <1>3 DEF ScriptInv
<1>5. Library' = Library
  BY <1>1, LibraryKept
<1>6. DecksInv(decks', script') /\ LibraryInv(Library', script')
  <2>1. SoundDecks(decks) /\ Consistent(Library)
    BY DEF ArchiveInv, DecksInv, LibraryInv
  <2>2. QED BY <1>1, <1>3, <1>5, <2>1, NothingDone
<1>7. ReportsInv'
  <2>1. \A c \in todo : /\ c \in Cards
                        /\ (CHOOSE t \in Targets(source, c) : TRUE) \in Cards
                        /\ (CHOOSE t \in Targets(source, c) : TRUE) # c
    BY <1>9, ReportedIsAnOrphan DEF ArchiveInv
  <2>2. \A c : Named(script, c)' = CHOOSE t \in Targets(source, c) : TRUE
    BY <1>1, <1>3 DEF Named, Targets
  <2>3. Reports(script)'
    BY <1>3, <2>1, <2>2 DEF Reports
  <2>4. QED BY <2>3 DEF ReportsInv
<1>8. ImportsInv(imports', lock', Library')
  BY ScriptKeepsImports
<1>10. QED BY <1>1, <1>4, <1>6, <1>7, <1>8 DEF ArchiveInv

LEMMA RemapInv ==
    ASSUME ArchiveInv, Script, NEW c \in Cards, PruneRemap(c)
    PROVE  ArchiveInv'
<1> DEFINE n == CHOOSE t \in Targets(script.answer, c) : TRUE
           hit == {d \in Decks : Seen.decks[d] # NoDeck /\ c \in Mentions(Seen.decks[d])}
           after == Remap(c, n, Seen)
           changed == <<after.flags, after.labels, after.references>>
                          # <<Seen.flags, Seen.labels, Seen.references>>
<1>1. /\ UNCHANGED databaseVars /\ script.at = "remap" /\ c \in script.todo
      /\ script' = IF Refuses(c, n, Seen) THEN [Idle EXCEPT !.at = "failed"]
                   ELSE [script EXCEPT
                         !.todo = @ \ {c}, !.moved = @ \cup {c}, !.work = after, !.touched = @ \cup hit,
                         !.annotations = @ \/ changed]
  BY DEF PruneRemap
<1>2. CASE Refuses(c, n, Seen)
  BY <1>1, <1>2, EndsInv
<1>3. CASE ~Refuses(c, n, Seen)
  <2>1. n \in Cards /\ c # n
    <3>1. Reports(script) /\ c \in script.todo
      BY <1>1 DEF ArchiveInv, ReportsInv
    <3>2. n = Named(script, c)
      BY DEF Named
    <3>3. QED BY <3>1, <3>2 DEF Reports
  <2>2. hit \subseteq {d \in Decks : Seen.decks[d] # NoDeck} /\ changed \in BOOLEAN
    OBVIOUS
  <2>11. after.flags = RemapFlags(c, n, Seen.flags)
         /\ after.labels = {<<Renamed(c, n, x[1]), x[2]>> : x \in Seen.labels}
    BY DEF Remap
  <2>12. after = Remap(c, n, Seen)
    OBVIOUS
  <2> HIDE DEF n, hit, after, changed
  <2>3. ScriptFields(script) /\ script.annotations \in BOOLEAN
    BY DEF ArchiveInv, ScriptInv
  <2>4. script' = [at |-> script.at, answer |-> script.answer, todo |-> script.todo \ {c},
                   doomed |-> script.doomed, touched |-> script.touched \cup hit,
                   annotations |-> script.annotations \/ changed, work |-> after,
                   apply |-> script.apply, moved |-> script.moved \cup {c}, late |-> script.late]
    BY <1>1, <1>3, <2>3 DEF ScriptFields
  <2>5. /\ script'.at = "remap" /\ script'.answer = script.answer /\ script'.todo = script.todo \ {c}
        /\ script'.touched = script.touched \cup hit /\ script'.work = after
        /\ ScriptFields(script')
    BY SMTT(30), <1>1, <2>4 DEF ScriptFields
  <2>6. script'.annotations = (script.annotations \/ changed) /\ script'.annotations \in BOOLEAN
    <3> DEFINE b == script.annotations \/ changed
    <3>1. b \in BOOLEAN
      OBVIOUS
    <3>2. script'.annotations = b
      BY <2>4
    <3>3. QED BY <3>1, <3>2
  <2>7. ScriptInv(script')
    BY <2>5, <2>6 DEF ScriptInv
  <2>8. DecksInv(decks, script')
    BY <1>3, <2>1, <2>2, <2>5, <2>12, RemapsDecks DEF ArchiveInv
  <2>9. LibraryInv(Library, script')
    <3>1. Consistent(Library) /\ Consistent(SeenLibrary(Library, script))
      BY DEF ArchiveInv, LibraryInv
    <3>2. SeenLibrary(Library, script)
              = [flags |-> Seen.flags, labels |-> Seen.labels, groups |-> groups, categories |-> categories]
      BY SeenIsOverlaid
    <3> DEFINE seen == SeenLibrary(Library, script)
    <3>3. seen.flags = Seen.flags /\ seen.labels = Seen.labels /\ seen.groups = groups
          /\ seen.categories = categories
      BY <3>2
    <3>4. Consistent([flags |-> after.flags, labels |-> after.labels, groups |-> groups,
                      categories |-> categories])
      <4> HIDE DEF seen
      <4>1. Consistent(seen)
        BY <3>1 DEF seen
      <4>2. Consistent([flags |-> RemapFlags(c, n, seen.flags),
                        labels |-> {<<Renamed(c, n, x[1]), x[2]>> : x \in seen.labels},
                        groups |-> seen.groups, categories |-> seen.categories])
        BY <2>1, <4>1, RemapsLibrary
      <4>3. QED BY <2>11, <3>3, <4>2
    <3>5. SeenLibrary(Library, script') =
              IF script'.annotations
              THEN [flags |-> after.flags, labels |-> after.labels, groups |-> groups, categories |-> categories]
              ELSE Library
      BY <2>5 DEF SeenLibrary, Library
    <3>6. QED BY <3>1, <3>4, <3>5 DEF LibraryInv
  <2>10. QED
    <3>1. UNCHANGED <<catalog, decks, flags, labels, groups, categories, held, checked, files>>
      BY <1>1 DEF Script, databaseVars
    <3>2. Library' = Library
      BY <3>1, LibraryKept
    <3>3. ReportsInv'
      BY <1>1, <2>5, <3>1, ReportsKept DEF ArchiveInv
    <3>4. ImportsInv(imports', lock', Library')
      BY ScriptKeepsImports
    <3>5. QED BY <2>7, <2>8, <2>9, <3>1, <3>2, <3>3, <3>4 DEF ArchiveInv
<1>4. QED BY <1>2, <1>3

LEMMA ControlInv ==
    ASSUME ArchiveInv, Script, PruneControl
    PROVE  ArchiveInv'
<1>1. /\ UNCHANGED databaseVars /\ script.at = "remap"
      /\ script' = IF script.doomed \cap MentionedIn(Seen) = {} THEN [script EXCEPT !.at = "controlled"]
                   ELSE [Idle EXCEPT !.at = "failed"]
  BY DEF PruneControl
<1>2. CASE script.doomed \cap MentionedIn(Seen) # {}
  BY <1>1, <1>2, EndsInv
<1>3. CASE script.doomed \cap MentionedIn(Seen) = {}
  <2>1. ScriptFields(script) /\ script.annotations \in BOOLEAN
    BY DEF ArchiveInv, ScriptInv
  <2>2. script' = [at |-> "controlled", answer |-> script.answer, todo |-> script.todo,
                   doomed |-> script.doomed, touched |-> script.touched,
                   annotations |-> script.annotations, work |-> script.work,
                   apply |-> script.apply, moved |-> script.moved, late |-> script.late]
    BY <1>1, <1>3, <2>1 DEF ScriptFields
  <2>3. /\ script'.at = "controlled" /\ script'.touched = script.touched
        /\ script'.annotations = script.annotations /\ script'.work = script.work
        /\ ScriptFields(script')
    BY <2>2 DEF ScriptFields
  <2>4. ScriptInv(script')
    BY <2>1, <2>3 DEF ScriptInv
  <2>5. UNCHANGED <<catalog, decks, flags, labels, groups, categories, held, checked, files>>
    BY <1>1 DEF Script, databaseVars
  <2>6. Library' = Library
    BY <2>5, LibraryKept
  <2>7. DecksInv(decks, script') /\ LibraryInv(Library, script')
    <3>1. SeenDecks(decks, script') = SeenDecks(decks, script)
      BY <2>3 DEF SeenDecks
    <3>2. SeenLibrary(Library, script') = SeenLibrary(Library, script)
      BY <2>3 DEF SeenLibrary
    <3>3. QED BY <2>3, <3>1, <3>2 DEF ArchiveInv, DecksInv, LibraryInv
  <2>8. ReportsInv'
    BY <2>3 DEF ReportsInv
  <2>9. ImportsInv(imports', lock', Library')
    BY ScriptKeepsImports
  <2>10. QED BY <2>4, <2>5, <2>6, <2>7, <2>8, <2>9 DEF ArchiveInv
<1>4. QED BY <1>2, <1>3

LEMMA CommitInv ==
    ASSUME ArchiveInv, Script, PruneCommit
    PROVE  ArchiveInv'
<1>1. /\ catalog' = catalog \ script.doomed
      /\ decks' = Seen.decks /\ flags' = Seen.flags /\ labels' = Seen.labels
      /\ script' = Idle /\ UNCHANGED <<groups, categories, held, checked, files>>
  BY DEF Script, PruneCommit, Catalogued
<1>2. decks' = SeenDecks(decks, script)
  BY <1>1, SeenIsOverlaid
<1>3. Library' = SeenLibrary(Library, script)
  BY <1>1, SeenIsOverlaid DEF Library
<1>4. SoundDecks(decks') /\ Consistent(Library')
  BY <1>2, <1>3 DEF ArchiveInv, DecksInv, LibraryInv
<1>5. ScriptInv(script') /\ script'.touched = {} /\ script'.annotations = FALSE /\ script'.at # "remap"
  BY <1>1, IdleScript
<1>6. DecksInv(decks', script') /\ LibraryInv(Library', script')
  BY <1>4, <1>5, NothingDone
<1>7. ReportsInv'
  BY <1>5 DEF ReportsInv
<1>8. CheckedInv(decks', checked')
  <2>1. \A d \in Decks : decks[d] # NoDeck => decks'[d] # NoDeck
    BY <1>2 DEF ArchiveInv, DecksInv, SeenDecks
  <2>2. CheckedInv(decks, checked)
    BY DEF ArchiveInv
  <2>3. QED BY <1>1, <2>1, <2>2 DEF CheckedInv
<1>9. ImportsInv(imports', lock', Library')
  BY ScriptKeepsImports
<1>10. catalog' \subseteq Cards /\ HeldInv(held') /\ FilesInv(files')
  BY <1>1 DEF ArchiveInv
<1>11. QED BY <1>5, <1>6, <1>7, <1>8, <1>9, <1>10 DEF ArchiveInv

LEMMA ScriptStepInv ==
    ASSUME ArchiveInv, Script
    PROVE  ArchiveInv'
<1>1. ASSUME NEW source \in Answers, NEW apply \in BOOLEAN, NEW only \in BOOLEAN, PruneStart(source, apply, only)
      PROVE  ArchiveInv'
  BY <1>1, StartInv
<1>2. ASSUME NEW c \in Cards, PruneRemap(c)
      PROVE  ArchiveInv'
  BY <1>2, RemapInv
<1>3. CASE PruneControl BY <1>3, ControlInv
<1>4. CASE PruneCommit BY <1>4, CommitInv
<1>5. CASE PruneRollback BY <1>5, EndsInv DEF PruneRollback
<1>6. CASE PruneAbort BY <1>6, EndsInv DEF PruneAbort
<1>7. QED
  BY <1>1, <1>2, <1>3, <1>4, <1>5, <1>6 DEF Script, PruneStep

LEMMA TextsAreLists ==
    ASSUME NEW text \in Texts
    PROVE  /\ ReadYdk(text).cards \in [Zones -> List]
           /\ ReadPasted(text).cards \in [Zones -> List]
BY ArchiveAssumption, YdkIsAList, PastedIsAList

LEMMA RouteInv ==
    ASSUME ArchiveInv, Route
    PROVE  ArchiveInv'
<1>1. ASSUME NEW i \in Importers, NEW f \in Files \cup {x.file : x \in files}, ImportCheck(i, f)
      PROVE  ArchiveInv'
  <2>1. f \in Archives
    BY ArchiveAssumption DEF ArchiveInv, FilesInv, Exported
  <2>2. QED BY <1>1, <2>1, ImportCheckInv
<1>2. ASSUME NEW i \in Importers, ImportWrite(i)
      PROVE  ArchiveInv'
  BY <1>2, ImportWriteInv
<1>3. ASSUME NEW c \in Cards, NEW row \in Chosen, Annotate(c, row)
      PROVE  ArchiveInv'
  BY <1>3, AnnotateInv
<1>4. ASSUME NEW id \in CategoryIds, DeleteCategory(id)
      PROVE  ArchiveInv'
  BY <1>4, DeleteCategoryInv
<1>5. ASSUME NEW text \in Texts, Create(ReadYdk(text)) \/ Create(ReadPasted(text))
      PROVE  ArchiveInv'
  BY <1>5, TextsAreLists, CreateInv
<1>6. ASSUME NEW d \in Decks, OpenDeck(d)
      PROVE  ArchiveInv'
  BY <1>6, OpenDeckInv
<1>7. ASSUME held # Null, NEW edited \in Edited, SaveCheck(edited)
      PROVE  ArchiveInv'
  BY <1>7, SaveCheckInv
<1>8. CASE SaveWrite BY <1>8, SaveWriteInv
<1>9. ASSUME NEW d \in Decks, Duplicate(d)
      PROVE  ArchiveInv'
  BY <1>9, DuplicateInv
<1>10. ASSUME NEW d \in Decks, Delete(d)
       PROVE  ArchiveInv'
  BY <1>10, DeleteInv
<1>11. CASE Export BY <1>11, ExportInv
<1>12. QED
  BY <1>1, <1>2, <1>3, <1>4, <1>5, <1>6, <1>7, <1>8, <1>9, <1>10, <1>11 DEF Route

LEMMA ArchiveStutter ==
    ASSUME ArchiveInv, UNCHANGED archiveVars
    PROVE  ArchiveInv'
<1>1. UNCHANGED <<catalog, decks, flags, labels, script, groups, categories, lock, imports, held, checked, files>>
  BY DEF archiveVars, databaseVars, scriptVars, routeVars
<1>2. Library' = Library
  BY <1>1, LibraryKept
<1>3. ReportsInv'
  BY <1>1, ReportsKept DEF ArchiveInv
<1>4. QED BY <1>1, <1>2, <1>3 DEF ArchiveInv

LEMMA ArchiveStart == ArchiveInit => ArchiveInv
<1> SUFFICES ASSUME ArchiveInit PROVE ArchiveInv
  OBVIOUS
<1>1. /\ ScriptInv(script) /\ script.touched = {} /\ script.annotations = FALSE /\ script.at # "remap"
  BY IdleScript DEF ArchiveInit, PruneInit
<1>2. SoundDecks(decks) /\ Consistent(Library)
  BY DEF ArchiveInit, SoundDecks, Sound, Exists
<1>3. DecksInv(decks, script) /\ LibraryInv(Library, script)
  BY <1>1, <1>2, NothingDone
<1>4. ImportsInv(imports, lock, Library)
  <2>1. Served \in Requested /\ Served.at # "write"
    BY DEF Served, Requested
  <2>2. imports = [i \in Importers |-> Served]
    BY DEF ArchiveInit
  <2>3. QED BY <2>1, <2>2 DEF ImportsInv
<1>5. HeldInv(held) /\ CheckedInv(decks, checked) /\ FilesInv(files)
  BY DEF ArchiveInit, HeldInv, CheckedInv, FilesInv
<1>6. QED
  BY <1>1, <1>3, <1>4, <1>5 DEF ArchiveInv, ReportsInv, ArchiveInit

\* What is stored, and what the script would leave, is in order; an import writes what it has
\* compared.
THEOREM ArchiveInvariant == ArchiveSpec => []ArchiveInv
<1>1. ArchiveInv /\ [ArchiveNext]_archiveVars => ArchiveInv'
  BY RouteInv, ScriptStepInv, ArchiveStutter DEF ArchiveNext
<1>2. QED BY <1>1, ArchiveStart, PTL DEF ArchiveSpec

THEOREM StoredDecksAreAcceptable == ArchiveSpec => []StoredIsAcceptable
<1>1. ArchiveInv => StoredIsAcceptable
  BY DEF ArchiveInv, DecksInv, SoundDecks, Sound, StoredIsAcceptable, Exists
<1>2. QED BY <1>1, ArchiveInvariant, PTL

LEMMA OnlyImportsServe ==
    ASSUME ArchiveInv, ArchiveNext, NEW i \in Importers, Writes(i)
    PROVE  ImportWrite(i)
<1>1. /\ imports \in [Importers -> Requested] /\ imports[i].at = "write"
      /\ imports'[i].at = "none"
  BY DEF ArchiveInv, ImportsInv, Writes
<1>2. ~Script
  <2>1. ASSUME Script PROVE FALSE
    <3>1. imports'[i] = IF flags' # flags /\ imports[i].at = "write"
                        THEN [imports[i] EXCEPT !.disturbed = TRUE] ELSE imports[i]
      BY <2>1 DEF Script
    <3>2. imports[i] \in Requested
      BY <1>1
    <3>3. [imports[i] EXCEPT !.disturbed = TRUE].at = imports[i].at
      BY <3>2 DEF Requested
    <3>4. QED BY <1>1, <3>1, <3>3
  <2>2. QED BY <2>1
<1>3. imports' # imports
  BY <1>1
<1>4. ASSUME NEW j \in Importers, NEW f, ImportCheck(j, f)
      PROVE  FALSE
  <2>1. imports[j].at = "none" /\ j # i
    BY <1>1, <1>4 DEF ImportCheck
  <2>2. imports'[i] = imports[i]
    BY <1>1, <1>4, <2>1 DEF ImportCheck
  <2>3. QED BY <1>1, <2>2
<1>5. ASSUME NEW j \in Importers, ImportWrite(j)
      PROVE  ImportWrite(i)
  <2>1. CASE j = i BY <1>5, <2>1
  <2>2. CASE j # i
    <3>1. imports'[i] = imports[i]
      BY <1>1, <1>5, <2>2 DEF ImportWrite
    <3>2. QED BY <1>1, <3>1
  <2>3. QED BY <2>1, <2>2
<1>6. QED
  BY <1>2, <1>3, <1>4, <1>5
     DEF ArchiveNext, Route, Annotate, DeleteCategory, Create, OpenDeck, SaveCheck, SaveWrite,
         Duplicate, Delete, Export

\* An import adds to the library and overrides no choice of the account.
THEOREM ImportsOnlyAdd == ArchiveSpec => ImportAdds
<1>1. ASSUME ArchiveInv, [ArchiveNext]_archiveVars, NEW i \in Importers, Writes(i), ~imports[i].disturbed
      PROVE  Adds(imports[i].file)
  <2> DEFINE file == imports[i].file
             after == Merge(Library, file)
  <2>1. ArchiveNext
    BY <1>1 DEF Writes, archiveVars, databaseVars, routeVars
  <2>2. ImportWrite(i)
    BY <1>1, <2>1, OnlyImportsServe
  <2>3. /\ imports[i].at = "write" /\ Absent # {}
        /\ categories' = after.categories /\ groups' = after.groups
        /\ labels' = after.labels /\ flags' = after.flags
        /\ decks' = [decks EXCEPT ![NewDeck] = after.deck]
    BY <2>2 DEF ImportWrite
  <2>4. /\ Consistent(Library) /\ file \in Archives /\ Parses(file) /\ Room(Library, file)
        /\ ~Contradicts(Library, file)
    BY <1>1, <2>3 DEF ArchiveInv, LibraryInv, ImportsInv
  <2>5. decks'[NewDeck] = after.deck
    BY <1>1, <2>3, AbsentDeck DEF ArchiveInv, DecksInv, SoundDecks
  <2>6. /\ Library.flags = flags /\ Library.labels = labels /\ Library.groups = groups
        /\ Library.categories = categories
    BY DEF Library
  <2>7. AddsTo(Library, after, file)
    <3> HIDE DEF file
    <3>1. QED BY <2>4, MergeAdds
  <2> HIDE DEF after, file
  <2>10. \A c \in Cards :
           /\ flags[c].hopt = FALSE => flags'[c].hopt = FALSE
           /\ flags[c].choice => flags'[c].availability = flags[c].availability
           /\ flags[c].group # Null => flags'[c].group = flags[c].group
    <3>1. \A c \in Cards :
              /\ Library.flags[c].hopt = FALSE => after.flags[c].hopt = FALSE
              /\ Library.flags[c].choice => after.flags[c].availability = Library.flags[c].availability
              /\ Library.flags[c].group # Null => after.flags[c].group = Library.flags[c].group
      BY <2>7, Zenon DEF AddsTo
    <3>2. QED BY <3>1, <2>3, <2>6
  <2>11. groups \subseteq groups' /\ categories \subseteq categories' /\ labels \subseteq labels'
    BY <2>3, <2>6, <2>7 DEF AddsTo
  <2>12. \A c \in file.hopt : flags'[c].hopt = TRUE
    BY <2>3, <2>7 DEF AddsTo
  <2>13. \A c \in DOMAIN file.profiles :
           /\ flags'[c].availability = file.profiles[c].availability
           /\ file.profiles[c].group # Null =>
                  /\ Row(groups', flags'[c].group).name = Row(file.groups, file.profiles[c].group).name
                  /\ Row(groups', flags'[c].group).cap = Row(file.groups, file.profiles[c].group).cap
    BY <2>3, <2>7 DEF AddsTo
  <2>14. {Row(categories', q).name : q \in decks'[NewDeck].queries}
             = {Row(file.categories, q).name : q \in file.deck.queries}
    <3>1. {Row(after.categories, q).name : q \in after.deck.queries}
              = {Row(file.categories, q).name : q \in file.deck.queries}
      BY <2>7, Zenon DEF AddsTo
    <3> DEFINE qs == decks'[NewDeck].queries
               rows == categories'
    <3>2. qs = after.deck.queries /\ rows = after.categories
      BY <2>3, <2>5
    <3> HIDE DEF qs, rows
    <3>3. {Row(rows, q).name : q \in qs} = {Row(file.categories, q).name : q \in file.deck.queries}
      BY <3>1, <3>2, Zenon
    <3>4. QED BY <3>3 DEF qs, rows
  <2>8. Adds(file)
    BY <2>10, <2>11, <2>12, <2>13, <2>14, Zenon DEF Adds
  <2>9. QED BY <2>8 DEF file
<1>2. ArchiveInv /\ [ArchiveNext]_archiveVars
          => [\A i \in Importers : Writes(i) /\ ~imports[i].disturbed => Adds(imports[i].file)]_archiveVars
  BY <1>1
<1>3. QED BY <1>2, ArchiveInvariant, PTL DEF ImportAdds, ArchiveSpec

(***************************************************************************)
(* What is exported comes back                                             *)
(***************************************************************************)

\* Rows that are there already: none is created, each stands for itself.
LEMMA NothingNew ==
    ASSUME NEW rows, NamedOnce(rows), NEW brought, brought \subseteq rows, NEW ids
    PROVE  /\ Joined(rows, brought, ids) = rows
           /\ \A id \in Ids(brought) : Mapping(rows, brought)[id] = id /\ id \in Ids(rows)
                                       /\ Row(brought, id) = Row(rows, id)
<1>1. New(rows, brought) = {}
  BY DEF New, Called
<1>2. Joined(rows, brought, ids) = rows
  BY <1>1 DEF Joined
<1>3. NamedOnce(brought)
  BY DEF NamedOnce
<1>4. ASSUME NEW r \in brought
      PROVE  Mapping(rows, brought)[r.id] = r.id /\ Row(brought, r.id) = r /\ Row(rows, r.id) = r
  <2>1. Row(brought, r.id) = r /\ Row(rows, r.id) = r
    BY <1>3, RowOf
  <2>2. Called(rows, r.name) = {r}
    BY DEF Called, NamedOnce
  <2>3. (CHOOSE s \in Called(rows, r.name) : TRUE) = r
    BY <2>2
  <2>4. r.id \in Ids(brought)
    BY DEF Ids
  <2>5. Mapping(rows, brought)[r.id] = r.id
    BY <2>1, <2>3, <2>4 DEF Mapping
  <2>6. QED BY <2>1, <2>5
<1>5. \A id \in Ids(brought) : \E r \in brought : r.id = id
  BY DEF Ids
<1>6. QED
  BY <1>2, <1>4, <1>5 DEF Ids

\* What an archive says, in the library it was made from.
LEMMA ExportedFields ==
    ASSUME NEW x, Exported(x)
    PROVE  /\ x.file.hopt = {c \in Mentions(x.file.deck) : x.from.flags[c].hopt = TRUE}
           /\ x.file.labels = {y \in x.from.labels : y[1] \in Mentions(x.file.deck)}
           /\ x.file.categories \subseteq x.from.categories /\ x.file.groups \subseteq x.from.groups
           /\ DOMAIN x.file.profiles = {c \in Mentions(x.file.deck) : x.from.flags[c].availability # Null}
           /\ \A c \in DOMAIN x.file.profiles :
                  /\ x.file.profiles[c].availability = x.from.flags[c].availability
                  /\ x.file.profiles[c].group = x.from.flags[c].group
           /\ Mentions(x.file.deck) \subseteq Cards
<1> DEFINE deck == x.file.deck
           file == Build(deck, x.from)
<1>1. /\ file.hopt = {c \in Mentions(deck) : x.from.flags[c].hopt = TRUE}
      /\ file.labels = {y \in x.from.labels : y[1] \in Mentions(deck)}
      /\ file.categories \subseteq x.from.categories /\ file.groups \subseteq x.from.groups
  BY DEF Build
<1>2. file.profiles = [c \in {c \in Mentions(deck) : x.from.flags[c].availability # Null} |->
                          [availability |-> x.from.flags[c].availability,
                           group |-> x.from.flags[c].group]]
  BY DEF Build
<1>3. x.file = file
  BY DEF Exported
<1>4. Mentions(deck) \subseteq Cards
  BY MentionsAreCards, ArchiveFields DEF Exported
<1> HIDE DEF file
<1>5. QED BY <1>1, <1>2, <1>3, <1>4

\* In the library it was made from, nothing contradicts an archive.
LEMMA NothingContradicts ==
    ASSUME NEW x, Exported(x)
    PROVE  ~Contradicts(x.from, x.file)
<1> DEFINE library == x.from
           file == x.file
<1>1. /\ NamedOnce(library.groups) /\ library.flags \in [Cards -> Annotation]
      /\ Parses(file)
  BY DEF Exported, Consistent
<1>2. /\ file.hopt = {c \in Mentions(file.deck) : library.flags[c].hopt = TRUE}
      /\ file.groups \subseteq library.groups
      /\ DOMAIN file.profiles = {c \in Mentions(file.deck) : library.flags[c].availability # Null}
      /\ \A c \in DOMAIN file.profiles :
                  /\ file.profiles[c].availability = library.flags[c].availability
                  /\ file.profiles[c].group = library.flags[c].group
  BY ExportedFields
<1> HIDE DEF library, file
<1>3. ~LimitDiffers(library, file)
  BY <1>1, <1>2 DEF LimitDiffers, Called, NamedOnce
<1>4. ~HoptDiffers(library, file)
  BY <1>2 DEF HoptDiffers
<1>5. ~ProfileDiffers(library, file)
  <2> DEFINE mapping == Mapping(Joined(library.groups, file.groups, GroupIds), file.groups)
  <2>1. \A id \in Ids(file.groups) : mapping[id] = id
    BY <1>1, <1>2, NothingNew
  <2>2. ASSUME NEW c \in DOMAIN file.profiles
        PROVE  LET mine == library.flags[c]
                   theirs == file.profiles[c]
               IN /\ mine.availability # Null /\ mine.availability = theirs.availability
                  /\ mine.group # Null => mine.group = GroupOf(mapping, theirs)
    <3>1. file.profiles[c].group # Null => file.profiles[c].group \in Ids(file.groups)
      BY <1>1 DEF Parses
    <3>2. QED BY <1>2, <2>1, <3>1 DEF GroupOf
  <2> HIDE DEF mapping
  <2>3. QED BY <2>2 DEF ProfileDiffers, mapping
<1>6. QED BY <1>3, <1>4, <1>5 DEF Contradicts, library, file

\* Merged with the library it was made from, an archive changes nothing of it.
LEMMA MergeChangesNothing ==
    ASSUME NEW x, Exported(x)
    PROVE  LET after == Merge(x.from, x.file)
           IN /\ after.groups = x.from.groups /\ after.categories = x.from.categories
              /\ after.labels = x.from.labels /\ after.flags = x.from.flags
              /\ after.deck = x.file.deck
<1> DEFINE library == x.from
           file == x.file
           after == Merge(library, file)
           cap == CapOf(library, file)
           category == CategoryOf(library, file)
<1>1. /\ NamedOnce(library.groups) /\ NamedOnce(library.categories)
      /\ library.flags \in [Cards -> Annotation]
      /\ Parses(file) /\ file \in Archives
  BY DEF Exported, Consistent
<1>2. /\ file.hopt = {c \in Mentions(file.deck) : library.flags[c].hopt = TRUE}
      /\ file.labels \subseteq library.labels /\ library.labels \subseteq Cards \X Ids(library.categories)
      /\ file.categories \subseteq library.categories /\ file.groups \subseteq library.groups
      /\ DOMAIN file.profiles = {c \in Mentions(file.deck) : library.flags[c].availability # Null}
      /\ \A c \in DOMAIN file.profiles :
                  /\ file.profiles[c].availability = library.flags[c].availability
                  /\ file.profiles[c].group = library.flags[c].group
  BY ExportedFields DEF Exported, Consistent
<1>3. /\ after.groups = CapsAfter(library, file)
      /\ after.categories = CategoriesAfter(library, file)
      /\ after.labels = library.labels \cup {<<y[1], category[y[2]]>> : y \in file.labels}
      /\ after.flags = [c \in Cards |-> FlagAfter(library.flags[c], c, file, cap)]
      /\ after.deck = Remapped(file.deck, category)
  BY MergeFields
<1> HIDE DEF library, file, after
<1>4. /\ CapsAfter(library, file) = library.groups
      /\ \A id \in Ids(file.groups) : cap[id] = id
  <2> DEFINE mine == library.groups
             brought == file.groups
  <2>1. NamedOnce(mine) /\ brought \subseteq mine
    BY <1>1, <1>2
  <2> HIDE DEF mine, brought
  <2>2. /\ Joined(mine, brought, GroupIds) = mine
        /\ \A id \in Ids(brought) : Mapping(mine, brought)[id] = id
    BY <2>1, NothingNew
  <2>3. CapsAfter(library, file) = mine
    BY <2>2 DEF CapsAfter, mine, brought
  <2>4. cap = Mapping(mine, brought)
    BY <2>2 DEF CapOf, CapsAfter, mine, brought
  <2> HIDE DEF cap
  <2>5. QED BY <2>2, <2>3, <2>4 DEF mine, brought
<1>5. /\ CategoriesAfter(library, file) = library.categories
      /\ \A id \in Ids(file.categories) : category[id] = id
  <2> DEFINE mine == library.categories
             brought == file.categories
  <2>1. NamedOnce(mine) /\ brought \subseteq mine
    BY <1>1, <1>2
  <2> HIDE DEF mine, brought
  <2>2. /\ Joined(mine, brought, CategoryIds) = mine
        /\ \A id \in Ids(brought) : Mapping(mine, brought)[id] = id
    BY <2>1, NothingNew
  <2>3. CategoriesAfter(library, file) = mine
    BY <2>2 DEF CategoriesAfter, mine, brought
  <2>4. category = Mapping(mine, brought)
    BY <2>2 DEF CategoryOf, CategoriesAfter, mine, brought
  <2> HIDE DEF category
  <2>5. QED BY <2>2, <2>3, <2>4 DEF mine, brought
<1> HIDE DEF cap, category
<1>6. after.labels = library.labels
  <2>1. \A y \in file.labels : category[y[2]] = y[2] /\ y = <<y[1], y[2]>>
    BY <1>1, <1>2, <1>5 DEF Parses
  <2>2. {<<y[1], category[y[2]]>> : y \in file.labels} \subseteq library.labels
    BY <1>2, <2>1
  <2>3. QED BY <1>3, <2>2
<1>7. ASSUME NEW c \in Cards
      PROVE  FlagAfter(library.flags[c], c, file, cap) = library.flags[c]
  <2> DEFINE row == library.flags[c]
             brought == c \in DOMAIN file.profiles
             h == IF c \in file.hopt THEN TRUE ELSE row.hopt
             ch == brought \/ row.choice
             a == IF brought THEN file.profiles[c].availability ELSE row.availability
             g == IF brought THEN Coalesce(row.group, GroupOf(cap, file.profiles[c])) ELSE row.group
  <2>1. FlagAfter(row, c, file, cap) = [hopt |-> h, choice |-> ch, availability |-> a, group |-> g]
    BY DEF FlagAfter
  <2>2. row \in Annotation
    BY <1>1
  <2>3. /\ row.choice \in BOOLEAN
        /\ row.availability # Null => row.choice
        /\ row = [hopt |-> row.hopt, choice |-> row.choice, availability |-> row.availability,
                  group |-> row.group]
    BY <2>2, AnnotationFields
  <2>4. h = row.hopt
    BY <1>2
  <2>5. ch = row.choice
    <3>1. CASE brought
      <4>1. row.availability # Null
        BY <1>2, <3>1
      <4> HIDE DEF row
      <4>2. row.choice
        BY <2>3, <4>1, Zenon
      <4>3. row.choice = TRUE
        BY <2>3, <4>2, Zenon
      <4>4. QED BY <3>1, <4>3
    <3>2. CASE ~brought
      <4> HIDE DEF row, brought
      <4>1. QED BY <2>3, <3>2, Zenon
    <3>3. QED BY <3>1, <3>2
  <2>6. a = row.availability
    BY <1>2
  <2>7. g = row.group
    BY <1>2 DEF Coalesce, GroupOf
  <2> HIDE DEF h, ch, a, g, row
  <2>8. FlagAfter(row, c, file, cap) = row
    BY <2>1, <2>3, <2>4, <2>5, <2>6, <2>7
  <2>9. QED BY <2>8 DEF row
<1>8. after.flags = library.flags
  BY <1>1, <1>3, <1>7
<1>9. after.deck = file.deck
  <2>1. file.deck \in Configuration /\ Acceptable(file.deck) /\ file.deck.queries \subseteq Ids(file.categories)
    BY <1>1, ArchiveFields DEF Parses, Resolves
  <2>2. \A q \in file.deck.queries : category[q] = q
    BY <1>5, <2>1
  <2> DEFINE deck == file.deck
  <2>3. {category[q] : q \in deck.queries} = deck.queries
    BY <2>2
  <2>4. Remapped(deck, category) = [deck EXCEPT !.queries = {category[q] : q \in deck.queries}]
    BY DEF Remapped
  <2>5. [deck EXCEPT !.queries = deck.queries] = deck
    <3> HIDE DEF deck
    <3>1. deck \in Configuration
      BY <2>1 DEF deck
    <3>2. QED BY <3>1 DEF Configuration
  <2>6. QED BY <1>3, <2>3, <2>4, <2>5
<1>10. QED
  BY <1>3, <1>4, <1>5, <1>6, <1>8, <1>9 DEF library, file, after

LEMMA ArchiveComes ==
    ASSUME NEW x, Exported(x)
    PROVE  Comes(x)
<1> DEFINE after == Merge(x.from, x.file)
           same == [f \in DOMAIN EmptyLibrary |-> after[f]]
<1>1. /\ after.groups = x.from.groups /\ after.categories = x.from.categories
      /\ after.labels = x.from.labels /\ after.flags = x.from.flags
      /\ after.deck = x.file.deck
  BY MergeChangesNothing
<1>2. DOMAIN EmptyLibrary = {"flags", "labels", "groups", "categories"}
  BY DEF EmptyLibrary
<1>3. x.from = [flags |-> x.from.flags, labels |-> x.from.labels, groups |-> x.from.groups,
                categories |-> x.from.categories]
  BY DEF Exported, AsLibrary
<1>4. same = [flags |-> after.flags, labels |-> after.labels, groups |-> after.groups,
              categories |-> after.categories]
  <2> HIDE DEF after
  <2>1. QED BY <1>2
<1> HIDE DEF after
<1>5. same = x.from
  BY <1>1, <1>3, <1>4
<1>6. QED
  BY <1>1, <1>5, NothingContradicts DEF Comes, after

\* Nothing is numbered twice: an archive finds room in an empty library, and nothing to contradict.
LEMMA EmptyWelcomes ==
    ASSUME NEW file \in Archives, Parses(file)
    PROVE  /\ Consistent(EmptyLibrary) /\ Room(EmptyLibrary, file)
           /\ ~Contradicts(EmptyLibrary, file)
<1>1. /\ EmptyLibrary.flags = [c \in Cards |-> NoChoice] /\ EmptyLibrary.labels = {}
      /\ EmptyLibrary.groups = {} /\ EmptyLibrary.categories = {}
  BY DEF EmptyLibrary
<1>2. \A c \in Cards : EmptyLibrary.flags[c] = NoChoice
  BY <1>1
<1>3. NoChoice \in Annotation
  BY DEF NoChoice, Annotation, Choice
<1>4. /\ NoChoice.hopt = Null /\ NoChoice.choice = FALSE /\ NoChoice.availability = Null
      /\ NoChoice.group = Null
  BY DEF NoChoice
<1>5. Consistent(EmptyLibrary)
  BY <1>1, <1>2, <1>3, <1>4 DEF Consistent, NamedOnce
<1>6. /\ file.groups \subseteq GroupRows /\ NamedOnce(file.groups)
      /\ file.categories \subseteq CategoryRows /\ NamedOnce(file.categories)
      /\ file.hopt \subseteq Cards /\ DOMAIN file.profiles \subseteq Cards
  BY ArchiveFields DEF Parses
<1>7. ASSUME NEW brought, NamedOnce(brought), NEW ids, \A r \in brought : r.id \in ids
      PROVE  Numberings({}, brought, ids) # {}
  <2> DEFINE f == [r \in New({}, brought) |-> r.id]
  <2>1. New({}, brought) \subseteq brought /\ Ids({}) = {}
    BY DEF New, Ids
  <2>2. f \in [New({}, brought) -> ids \ Ids({})]
    BY <1>7, <2>1
  <2>3. IsInjective(f)
    BY <1>7, <2>1 DEF IsInjective, NamedOnce
  <2>4. f \in Numberings({}, brought, ids)
    BY <2>2, <2>3 DEF Numberings, Injection
  <2>5. QED BY <2>4
<1>8. Room(EmptyLibrary, file)
  BY <1>1, <1>6, <1>7 DEF Room, GroupRows, CategoryRows
<1>9. ~LimitDiffers(EmptyLibrary, file)
  BY <1>1 DEF LimitDiffers, Called
<1>10. ~HoptDiffers(EmptyLibrary, file)
  <2>1. \A c \in file.hopt : EmptyLibrary.flags[c].hopt = Null
    BY <1>2, <1>4, <1>6
  <2>2. Null # FALSE
    BY PruneAssumption
  <2>3. QED BY <2>1, <2>2 DEF HoptDiffers
<1>11. ~ProfileDiffers(EmptyLibrary, file)
  BY <1>2, <1>4, <1>6 DEF ProfileDiffers
<1>12. QED
  BY <1>5, <1>8, <1>9, <1>10, <1>11 DEF Contradicts

\* What the archive of a library says of a card is what the library says of it.
LEMMA ArchiveBrings ==
    ASSUME NEW x, Exported(x)
    PROVE  Brings(x)
<1> DEFINE library == x.from
           file == x.file
           cards == Mentions(x.file.deck)
           after == Merge(EmptyLibrary, x.file)
           cap == CapOf(EmptyLibrary, file)
           category == CategoryOf(EmptyLibrary, file)
<1>1. /\ file \in Archives /\ Parses(file)
      /\ NamedOnce(library.groups) /\ NamedOnce(library.categories)
      /\ library.flags \in [Cards -> Annotation]
      /\ library.labels \subseteq Cards \X Ids(library.categories)
  BY DEF Exported, Consistent
<1>2. /\ file.hopt = {c \in cards : library.flags[c].hopt = TRUE}
      /\ file.labels = {y \in library.labels : y[1] \in cards}
      /\ file.categories \subseteq library.categories /\ file.groups \subseteq library.groups
      /\ DOMAIN file.profiles = {c \in cards : library.flags[c].availability # Null}
      /\ \A c \in DOMAIN file.profiles :
             /\ file.profiles[c].availability = library.flags[c].availability
             /\ file.profiles[c].group = library.flags[c].group
      /\ cards \subseteq Cards
  BY ExportedFields
<1>3. /\ Consistent(EmptyLibrary) /\ Room(EmptyLibrary, file) /\ ~Contradicts(EmptyLibrary, file)
  BY <1>1, EmptyWelcomes
<1>4. ~LimitDiffers(EmptyLibrary, file)
  BY <1>3 DEF Contradicts
<1>5. /\ after.groups = CapsAfter(EmptyLibrary, file)
      /\ after.categories = CategoriesAfter(EmptyLibrary, file)
      /\ after.labels = EmptyLibrary.labels \cup {<<y[1], category[y[2]]>> : y \in file.labels}
      /\ after.flags = [c \in Cards |-> FlagAfter(EmptyLibrary.flags[c], c, file, cap)]
  BY MergeFields
<1>6. /\ \A id \in Ids(file.groups) :
             Row(after.groups, cap[id]).cap = Row(file.groups, id).cap
      /\ \A id \in Ids(file.categories) :
             Row(after.categories, category[id]).name = Row(file.categories, id).name
  BY <1>1, <1>3, <1>4, <1>5, MergedNames
<1>7. /\ EmptyLibrary.labels = {}
      /\ \A c \in Cards : EmptyLibrary.flags[c] = NoChoice
  BY DEF EmptyLibrary
<1>8. NamedOnce(file.groups) /\ NamedOnce(file.categories)
  BY <1>1 DEF Parses
<1>9. \A id \in Ids(file.groups) : Row(file.groups, id) = Row(library.groups, id)
  BY <1>1, <1>2, NothingNew
<1>10. \A id \in Ids(file.categories) : Row(file.categories, id) = Row(library.categories, id)
  <2> DEFINE mine == library.categories
             brought == file.categories
  <2>1. NamedOnce(mine) /\ brought \subseteq mine
    BY <1>1, <1>2
  <2> HIDE DEF mine, brought
  <2>2. \A id \in Ids(brought) : Row(brought, id) = Row(mine, id)
    BY <2>1, NothingNew
  <2>3. QED BY <2>2 DEF mine, brought
<1>11. /\ \A y \in file.labels : y[2] \in Ids(file.categories)
       /\ \A c \in DOMAIN file.profiles :
              file.profiles[c].group # Null => file.profiles[c].group \in Ids(file.groups)
  BY <1>1 DEF Parses
<1> HIDE DEF library, file, cards, after, cap, category
<1>12. ASSUME NEW c \in cards
       PROVE  /\ after.flags[c].hopt = IF c \in file.hopt THEN TRUE ELSE Null
              /\ after.flags[c].availability = IF c \in DOMAIN file.profiles THEN file.profiles[c].availability ELSE Null
              /\ after.flags[c].group = IF c \in DOMAIN file.profiles THEN GroupOf(cap, file.profiles[c]) ELSE Null
  <2> DEFINE h == IF c \in file.hopt THEN TRUE ELSE NoChoice.hopt
             ch == c \in DOMAIN file.profiles \/ NoChoice.choice
             a == IF c \in DOMAIN file.profiles THEN file.profiles[c].availability ELSE NoChoice.availability
             g == IF c \in DOMAIN file.profiles THEN Coalesce(NoChoice.group, GroupOf(cap, file.profiles[c]))
                  ELSE NoChoice.group
  <2>1. after.flags[c] = FlagAfter(NoChoice, c, file, cap)
    BY <1>2, <1>5, <1>7
  <2>2. after.flags[c] = [hopt |-> h, choice |-> ch, availability |-> a, group |-> g]
    BY <2>1 DEF FlagAfter
  <2>3. NoChoice.hopt = Null /\ NoChoice.availability = Null /\ NoChoice.group = Null
    BY DEF NoChoice
  <2> HIDE DEF h, ch, a, g
  <2>4. after.flags[c].hopt = h /\ after.flags[c].availability = a /\ after.flags[c].group = g
    BY <2>2
  <2>5. h = IF c \in file.hopt THEN TRUE ELSE Null
    BY <2>3, Zenon DEF h
  <2>6. a = IF c \in DOMAIN file.profiles THEN file.profiles[c].availability ELSE Null
    BY <2>3, Zenon DEF a
  <2>7. g = IF c \in DOMAIN file.profiles THEN GroupOf(cap, file.profiles[c]) ELSE Null
    BY <2>3 DEF g, Coalesce
  <2>8. QED BY <2>4, <2>5, <2>6, <2>7
<1>13. ASSUME NEW c \in cards
       PROVE  LET theirs == library.flags[c]
                  mine == after.flags[c]
              IN /\ theirs.hopt = TRUE <=> mine.hopt = TRUE
                 /\ mine.availability = theirs.availability
                 /\ theirs.group # Null =>
                        Row(after.groups, mine.group).cap = Row(library.groups, theirs.group).cap
                 /\ {Row(library.categories, y[2]).name : y \in {y \in library.labels : y[1] = c}}
                        = {Row(after.categories, y[2]).name : y \in {y \in after.labels : y[1] = c}}
  <2> DEFINE theirs == library.flags[c]
             mine == after.flags[c]
  <2>1. theirs.hopt = TRUE <=> mine.hopt = TRUE
    <3>1. Null # TRUE
      BY PruneAssumption
    <3>2. mine.hopt = IF c \in file.hopt THEN TRUE ELSE Null
      BY <1>12
    <3>3. c \in file.hopt <=> theirs.hopt = TRUE
      BY <1>2
    <3> HIDE DEF mine, theirs
    <3>4. CASE c \in file.hopt
      BY <3>2, <3>3, <3>4, Zenon
    <3>5. CASE c \notin file.hopt
      <4>1. mine.hopt = Null
        BY <3>2, <3>5, Zenon
      <4>2. QED BY <3>1, <3>3, <3>5, <4>1, Zenon
    <3>6. QED BY <3>4, <3>5
  <2>2. mine.availability = theirs.availability
    BY <1>2, <1>12
  <2>3. ASSUME theirs.group # Null
        PROVE  Row(after.groups, mine.group).cap = Row(library.groups, theirs.group).cap
    <3>1. theirs \in Annotation
      BY <1>1, <1>2
    <3>2. theirs.availability # Null
      BY <2>3, <3>1, AnnotationFields
    <3>3. c \in DOMAIN file.profiles /\ file.profiles[c].group = theirs.group
      BY <1>2, <3>2
    <3>4. mine.group = cap[theirs.group] /\ theirs.group \in Ids(file.groups)
      BY <1>11, <1>12, <2>3, <3>3 DEF GroupOf
    <3>5. QED BY <1>6, <1>9, <3>4
  <2>4. {Row(library.categories, y[2]).name : y \in {y \in library.labels : y[1] = c}}
            = {Row(after.categories, y[2]).name : y \in {y \in after.labels : y[1] = c}}
    <3> DEFINE told == {y \in library.labels : y[1] = c}
               kept == {y \in after.labels : y[1] = c}
               Theirs(y) == Row(library.categories, y[2]).name
               Mine(y) == Row(after.categories, y[2]).name
    <3>1. after.labels = {<<y[1], category[y[2]]>> : y \in file.labels}
      BY <1>5, <1>7
    <3>2. told \subseteq file.labels /\ \A y \in file.labels : y[1] = c => y \in told
      BY <1>2
    <3>3. \A y \in file.labels : Row(after.categories, category[y[2]]).name = Row(library.categories, y[2]).name
      BY <1>6, <1>10, <1>11
    <3>4. \A y \in told : <<y[1], category[y[2]]>> \in kept /\ Mine(<<y[1], category[y[2]]>>) = Theirs(y)
      BY <3>1, <3>2, <3>3
    <3>5. \A z \in kept : \E y \in told : z = <<y[1], category[y[2]]>>
      <4> TAKE z \in kept
      <4>1. PICK y \in file.labels : z = <<y[1], category[y[2]]>>
        BY <3>1
      <4>2. y[1] = c
        BY <4>1
      <4>3. QED BY <3>2, <4>1, <4>2
    <3>6. \A z \in kept : \E y \in told : Mine(z) = Theirs(y)
      BY <3>4, <3>5
    <3>7. \A y \in told : \E z \in kept : Mine(z) = Theirs(y)
      BY <3>4
    <3> HIDE DEF told, kept, Theirs, Mine
    <3>8. {Theirs(y) : y \in told} = {Mine(z) : z \in kept}
      BY <3>6, <3>7, Zenon
    <3>9. QED BY <3>8, Zenon DEF told, kept, Theirs, Mine
  <2>5. QED
    BY <2>1, <2>2, <2>3, <2>4, Zenon
<1>14. QED
  BY <1>13, Zenon DEF Brings, library, cards, after

(***************************************************************************)
(* A list written as text                                                  *)
(***************************************************************************)
LEMMA OneToOne ==
    ASSUME NEW S, IsFiniteSet(S), NEW T, NEW f \in [S -> T],
           \A a, b \in S : f[a] = f[b] => a = b, \A t \in T : \E s \in S : f[s] = t
    PROVE  IsFiniteSet(T) /\ Cardinality(T) = Cardinality(S)
<1>1. f \in Bijection(S, T)
  BY DEF Bijection, Injection, Surjection, IsInjective
<1>2. QED
  BY <1>1, FS_Bijection DEF ExistsBijection

\* Every element once, in some order.
LEMMA ListsAll ==
    ASSUME NEW S, IsFiniteSet(S)
    PROVE  /\ Cardinality(S) \in Nat
           /\ SetToSeq(S) \in [1..Cardinality(S) -> S]
           /\ \A i, j \in 1..Cardinality(S) : SetToSeq(S)[i] = SetToSeq(S)[j] => i = j
           /\ \A x \in S : \E i \in 1..Cardinality(S) : SetToSeq(S)[i] = x
<1> DEFINE n == Cardinality(S)
           s == SetToSeq(S)
<1>1. n \in Nat /\ ExistsBijection(1..n, S)
  BY FS_CardinalityType
<1>2. \E g \in [1..n -> S] : IsInjective(g)
  BY <1>1 DEF ExistsBijection, Bijection, Injection
<1>3. s \in [1..n -> S] /\ IsInjective(s)
  BY <1>2 DEF SetToSeq
<1>4. s \in Injection(1..n, S)
  BY <1>3 DEF Injection
<1>5. IsFiniteSet(1..n) /\ Cardinality(1..n) = n
  <2>1. 1 \in Int /\ n \in Int
    BY <1>1
  <2>2. QED BY <1>1, <2>1, FS_Interval
<1> HIDE DEF n, s
<1>6. n = Cardinality(S)
  BY DEF n
<1>7. s \in Surjection(1..n, S)
  BY <1>4, <1>5, <1>6, FS_Injection
<1>8. QED
  BY <1>1, <1>3, <1>7 DEF n, s, Surjection, IsInjective

LEMMA CopiesAreFinite ==
    ASSUME NEW list \in List
    PROVE  /\ IsFiniteSet(CopiesOf(list, Cards))
           /\ \A c \in Cards : /\ IsFiniteSet({x \in CopiesOf(list, Cards) : x[1] = c})
                               /\ Cardinality({x \in CopiesOf(list, Cards) : x[1] = c}) = list[c]
<1> DEFINE Of1(c) == {c} \X (1..list[c])
           f == [c \in Cards |-> Of1(c)]
           T == {Of1(c) : c \in Cards}
           all == CopiesOf(list, Cards)
<1>1. \A c \in Cards : list[c] \in Nat
  BY DEF List
<1>2. ASSUME NEW c \in Cards
      PROVE  IsFiniteSet(1..list[c]) /\ Cardinality(1..list[c]) = list[c]
  <2>1. 1 \in Int /\ list[c] \in Int /\ list[c] \in Nat
    BY <1>1
  <2>2. QED BY <2>1, FS_Interval
<1>3. \A c \in Cards : IsFiniteSet(Of1(c))
  BY <1>2, FS_Singleton, FS_Product
<1>4. IsFiniteSet(Cards)
  BY ConfigurationAssumption
<1>5. all = UNION T
  BY DEF CopiesOf
<1>6. f \in Surjection(Cards, T)
  <2> HIDE DEF Of1
  <2>1. QED BY DEF Surjection
<1>7. IsFiniteSet(T)
  BY <1>4, <1>6, FS_Surjection
<1>8. \A X \in T : IsFiniteSet(X)
  BY <1>3
<1>9. IsFiniteSet(all)
  <2> HIDE DEF T
  <2>1. IsFiniteSet(UNION T)
    BY <1>7, <1>8, FS_UNION
  <2>2. QED BY <1>5, <2>1
<1>10. ASSUME NEW c \in Cards
       PROVE  /\ IsFiniteSet({x \in all : x[1] = c})
              /\ Cardinality({x \in all : x[1] = c}) = list[c]
  <2> DEFINE S == 1..list[c]
             own == {x \in all : x[1] = c}
             g == [i \in S |-> <<c, i>>]
  <2>1. own = Of1(c)
    BY <1>5
  <2> HIDE DEF own
  <2>2. g \in [S -> own]
    BY <2>1
  <2>3. \A a, b \in S : g[a] = g[b] => a = b
    OBVIOUS
  <2>4. \A t \in own : \E s \in S : g[s] = t
    BY <2>1
  <2>5. IsFiniteSet(S) /\ Cardinality(S) = list[c]
    BY <1>2
  <2> HIDE DEF g, S
  <2>6. IsFiniteSet(own) /\ Cardinality(own) = Cardinality(S)
    BY <2>2, <2>3, <2>4, <2>5, OneToOne
  <2>7. QED BY <2>5, <2>6 DEF own
<1>11. QED BY <1>9, <1>10

\* What a section written is made of: a line that opens it, then a line per copy.
Printed == [is : {"section", "card"}, zone : Zones, card : Cards \cup {CHOOSE c \in Cards : TRUE}, copies : Nat]
Told(lines, c) == {i \in 2..Len(lines) : lines[i].card = c}
Opens(lines, zone) ==
    /\ lines \in Seq(Printed) /\ Len(lines) > 0 /\ lines[1].is = "section" /\ lines[1].zone = zone
    /\ \A i \in 2..Len(lines) : lines[i].is = "card"

LEMMA SectionTells ==
    ASSUME NEW zone \in Zones, NEW list \in List
    PROVE  /\ Opens(Section(zone, list), zone)
           /\ \A c \in Cards : /\ IsFiniteSet(Told(Section(zone, list), c))
                               /\ Cardinality(Told(Section(zone, list), c)) = list[c]
<1> DEFINE all == CopiesOf(list, Cards)
           n == Cardinality(all)
           copies == SetToSeq(all)
           head == [is |-> "section", zone |-> zone, card |-> CHOOSE c \in Cards : TRUE, copies |-> 0]
           Copy1(i) == [is |-> "card", zone |-> zone, card |-> copies[i][1], copies |-> 1]
           body == [i \in DOMAIN copies |-> Copy1(i)]
           s == Section(zone, list)
<1>1. IsFiniteSet(all)
  BY CopiesAreFinite
<1>2. /\ n \in Nat
      /\ copies \in [1..n -> all]
      /\ \A i, j \in 1..n : copies[i] = copies[j] => i = j
      /\ \A x \in all : \E i \in 1..n : copies[i] = x
  BY <1>1, ListsAll
<1>3. s = <<head>> \o body
  BY DEF Section
<1>4. \A x \in all : x[1] \in Cards
  BY DEF CopiesOf
<1>5. head \in Printed
  BY DEF Printed
<1> HIDE DEF all, n, copies, s
<1>6. \A i \in 1..n : Copy1(i) \in Printed
  BY <1>2, <1>4 DEF Printed
<1>7. body \in Seq(Printed) /\ Len(body) = n /\ DOMAIN body = 1..n
  <2> HIDE DEF Copy1
  <2>1. DOMAIN copies = 1..n
    BY <1>2
  <2>2. body \in [1..n -> Printed]
    BY <1>6, <2>1
  <2>3. QED BY <1>2, <2>2
<1>8. <<head>> \in Seq(Printed) /\ Len(<<head>>) = 1 /\ <<head>>[1] = head
  <2> HIDE DEF head
  <2>1. QED BY <1>5
<1>9. head.is = "section" /\ head.zone = zone
  OBVIOUS
<1>10. \A i \in 1..n : body[i].is = "card" /\ body[i].card = copies[i][1]
  BY <1>2
<1> HIDE DEF head, body
<1>11. s \in Seq(Printed) /\ Len(s) = n + 1
  BY <1>2, <1>3, <1>7, <1>8
<1>12. s[1] = head
  BY <1>2, <1>3, <1>7, <1>8, <1>11
<1>13. \A i \in 2..n+1 : s[i] = body[i - 1] /\ i - 1 \in 1..n
  BY <1>2, <1>3, <1>7, <1>8, <1>11
<1>17. \A i \in 2..n+1 : s[i].is = "card" /\ s[i].card = copies[i - 1][1]
  <2> TAKE i \in 2..n+1
  <2>1. s[i] = body[i - 1] /\ i - 1 \in 1..n
    BY <1>13
  <2> DEFINE j == i - 1
  <2> HIDE DEF j
  <2>2. body[j].is = "card" /\ body[j].card = copies[j][1]
    BY <1>10, <2>1 DEF j
  <2>3. QED BY <2>1, <2>2 DEF j
<1>14. Opens(s, zone)
  BY <1>2, <1>9, <1>11, <1>12, <1>17 DEF Opens
<1>15. ASSUME NEW c \in Cards
       PROVE  IsFiniteSet(Told(s, c)) /\ Cardinality(Told(s, c)) = list[c]
  <2> DEFINE own == {x \in all : x[1] = c}
             told == Told(s, c)
             f == [i \in told |-> copies[i - 1]]
  <2>1. told = {i \in 2..n+1 : copies[i - 1][1] = c}
    BY <1>2, <1>11, <1>17 DEF Told
  <2>2. IsFiniteSet(own) /\ Cardinality(own) = list[c]
    BY CopiesAreFinite DEF all
  <2>3. IsFiniteSet(told)
    <3>1. 2 \in Int /\ n + 1 \in Int
      BY <1>2
    <3>2. IsFiniteSet(2..n+1)
      BY <3>1, FS_Interval
    <3>3. told \subseteq 2..n+1
      BY <2>1
    <3>4. QED BY <3>2, <3>3, FS_Subset
  <2> HIDE DEF told
  <2>4. \A i \in told : i - 1 \in 1..n /\ i \in Int
    BY <1>2, <2>1
  <2>5. f \in [told -> own]
    BY <1>2, <2>1, <2>4
  <2>6. \A a, b \in told : f[a] = f[b] => a = b
    <3> TAKE a, b \in told
    <3>1. f[a] = f[b] => a - 1 = b - 1
      BY <1>2, <2>4
    <3>2. a \in Int /\ b \in Int
      BY <2>4
    <3>3. QED BY <3>1, <3>2
  <2>7. \A t \in own : \E i \in told : f[i] = t
    <3> TAKE t \in own
    <3>1. PICK j \in 1..n : copies[j] = t
      BY <1>2
    <3>2. j + 1 \in 2..n+1 /\ (j + 1) - 1 = j
      BY <1>2
    <3>3. j + 1 \in told
      BY <2>1, <3>1, <3>2
    <3>4. f[j + 1] = t
      BY <3>1, <3>2, <3>3
    <3>5. QED BY <3>3, <3>4
  <2> HIDE DEF f, own
  <2>8. Cardinality(own) = Cardinality(told)
    BY <2>3, <2>5, <2>6, <2>7, OneToOne
  <2>9. QED BY <2>2, <2>3, <2>8 DEF told
<1>16. QED
  BY <1>14, <1>15 DEF s

\* A section of a text: where it begins, what is read there.
LEMMA Shifted ==
    ASSUME NEW S, IsFiniteSet(S), S \subseteq Nat, NEW o \in Nat
    PROVE  Cardinality({o + i : i \in S}) = Cardinality(S)
<1> DEFINE T == {o + i : i \in S}
           f == [i \in S |-> o + i]
<1>1. f \in [S -> T]
  OBVIOUS
<1>2. \A a, b \in S : f[a] = f[b] => a = b
  OBVIOUS
<1>3. \A t \in T : \E s \in S : f[s] = t
  OBVIOUS
<1> HIDE DEF f, T
<1>4. Cardinality(T) = Cardinality(S)
  BY <1>1, <1>2, <1>3, OneToOne
<1>5. QED BY <1>4 DEF T

\* A text of three sections, one after the other.
LEMMA ThreeSections ==
    ASSUME NEW A, Opens(A, "main"), NEW B, Opens(B, "extra"), NEW C, Opens(C, "side")
    PROVE  LET lines == A \o B \o C
               a == Len(A)
               b == Len(B)
           IN /\ DOMAIN lines = 1..(a + b + Len(C))
              /\ Places(lines, "section") = {1, a + 1, a + b + 1}
              /\ Places(lines, "other") = {} /\ Places(lines, "header") = {}
              /\ \A c \in Cards :
                     /\ Read(lines, "main", c) = {0 + i : i \in Told(A, c)}
                     /\ Read(lines, "extra", c) = {a + i : i \in Told(B, c)}
                     /\ Read(lines, "side", c) = {(a + b) + i : i \in Told(C, c)}
<1> DEFINE lines == A \o B \o C
           a == Len(A)
           b == Len(B)
           d == Len(C)
<1>1. /\ A \in Seq(Printed) /\ B \in Seq(Printed) /\ C \in Seq(Printed)
      /\ a \in Nat /\ b \in Nat /\ d \in Nat /\ a > 0 /\ b > 0 /\ d > 0
      /\ A[1].is = "section" /\ A[1].zone = "main"
      /\ B[1].is = "section" /\ B[1].zone = "extra"
      /\ C[1].is = "section" /\ C[1].zone = "side"
      /\ \A i \in 2..a : A[i].is = "card"
      /\ \A i \in 2..b : B[i].is = "card"
      /\ \A i \in 2..d : C[i].is = "card"
  BY DEF Opens
<1>2. /\ A \o B \in Seq(Printed) /\ Len(A \o B) = a + b
      /\ \A i \in 1..a : (A \o B)[i] = A[i]
      /\ \A i \in 1..b : (A \o B)[a + i] = B[i]
  BY <1>1, ConcatProperties
<1>3. /\ lines \in Seq(Printed) /\ Len(lines) = (a + b) + d
      /\ \A i \in 1..(a + b) : lines[i] = (A \o B)[i]
      /\ \A i \in 1..d : lines[(a + b) + i] = C[i]
  BY <1>1, <1>2, ConcatProperties
<1>4. DOMAIN lines = 1..(a + b + d)
  BY <1>1, <1>3
<1> HIDE DEF lines, a, b, d
<1>5. /\ \A i \in 1..a : lines[i] = A[i]
      /\ \A i \in 1..b : lines[a + i] = B[i]
      /\ \A i \in 1..d : lines[(a + b) + i] = C[i]
  <2>1. \A i \in 1..a : i \in 1..(a + b)
    BY <1>1
  <2>2. \A i \in 1..b : a + i \in 1..(a + b)
    BY <1>1
  <2>3. \A i \in 1..a : lines[i] = A[i]
    BY <1>2, <1>3, <2>1 DEF a
  <2>4. \A i \in 1..b : lines[a + i] = B[i]
    BY <1>2, <1>3, <2>2 DEF a, b
  <2>5. QED BY <1>3, <2>3, <2>4
<1>6. \A j \in 1..(a + b + d) : \/ j = 1 \/ j = a + 1 \/ j = a + b + 1
                                \/ \E i \in 2..a : j = i
                                \/ \E i \in 2..b : j = a + i
                                \/ \E i \in 2..d : j = (a + b) + i
  <2> TAKE j \in 1..(a + b + d)
  <2>1. CASE j <= a
    BY <1>1, <2>1
  <2>2. CASE j > a /\ j <= a + b
    <3>1. j - a \in 1..b /\ j = a + (j - a)
      BY <1>1, <2>2
    <3>2. QED BY <1>1, <3>1
  <2>3. CASE j > a + b
    <3>1. j - (a + b) \in 1..d /\ j = (a + b) + (j - (a + b))
      BY <1>1, <2>3
    <3>2. QED BY <1>1, <3>1
  <2>4. QED BY <1>1, <2>1, <2>2, <2>3
<1>7. /\ lines[1] = A[1] /\ lines[a + 1] = B[1] /\ lines[a + b + 1] = C[1]
      /\ \A i \in 2..a : lines[i] = A[i]
      /\ \A i \in 2..b : lines[a + i] = B[i]
      /\ \A i \in 2..d : lines[(a + b) + i] = C[i]
  BY <1>1, <1>5
<1>8. /\ lines[1].is = "section" /\ lines[a + 1].is = "section" /\ lines[a + b + 1].is = "section"
      /\ lines[1].zone = "main" /\ lines[a + 1].zone = "extra" /\ lines[a + b + 1].zone = "side"
      /\ \A i \in 2..a : lines[i].is = "card"
      /\ \A i \in 2..b : lines[a + i].is = "card"
      /\ \A i \in 2..d : lines[(a + b) + i].is = "card"
  BY <1>1, <1>7
<1>9. 1 \in DOMAIN lines /\ a + 1 \in DOMAIN lines /\ a + b + 1 \in DOMAIN lines
  BY <1>1, <1>4
<1>10. \A j \in DOMAIN lines : \/ j \in {1, a + 1, a + b + 1}
                               \/ lines[j].is = "card"
  BY <1>4, <1>6, <1>8
<1>11. /\ Places(lines, "section") = {1, a + 1, a + b + 1}
       /\ Places(lines, "other") = {} /\ Places(lines, "header") = {}
  <2>1. Places(lines, "section") = {1, a + 1, a + b + 1}
    BY <1>8, <1>9, <1>10 DEF Places
  <2>2. Places(lines, "other") = {} /\ Places(lines, "header") = {}
    BY <1>8, <1>10 DEF Places
  <2>3. QED BY <2>1, <2>2
<1>12. /\ \A i \in 2..a : SectionAt(lines, i) = "main"
       /\ \A i \in 2..b : SectionAt(lines, a + i) = "extra"
       /\ \A i \in 2..d : SectionAt(lines, (a + b) + i) = "side"
  <2>1. ASSUME NEW i \in 2..a
        PROVE  SectionAt(lines, i) = "main"
    <3>1. {j \in Places(lines, "section") : j < i} = {1}
      BY <1>1, <1>11
    <3>2. Max({1}) = 1
      BY DEF Max
    <3>3. QED BY <1>8, <3>1, <3>2 DEF SectionAt
  <2>2. ASSUME NEW i \in 2..b
        PROVE  SectionAt(lines, a + i) = "extra"
    <3>1. {j \in Places(lines, "section") : j < a + i} = {1, a + 1}
      BY <1>1, <1>11
    <3>2. Max({1, a + 1}) = a + 1
      BY <1>1 DEF Max
    <3>3. QED BY <1>8, <3>1, <3>2 DEF SectionAt
  <2>3. ASSUME NEW i \in 2..d
        PROVE  SectionAt(lines, (a + b) + i) = "side"
    <3>1. {j \in Places(lines, "section") : j < (a + b) + i} = {1, a + 1, a + b + 1}
      BY <1>1, <1>11
    <3>2. Max({1, a + 1, a + b + 1}) = a + b + 1
      BY <1>1 DEF Max
    <3>3. QED BY <1>8, <3>1, <3>2 DEF SectionAt
  <2>4. QED BY <2>1, <2>2, <2>3
<1>13. \A i \in 2..a : i \in Places(lines, "card")
  BY <1>1, <1>4, <1>8 DEF Places
<1>14. \A i \in 2..b : a + i \in Places(lines, "card")
  <2>1. \A i \in 2..b : a + i \in DOMAIN lines
    BY <1>1, <1>4
  <2>2. QED BY <1>8, <2>1 DEF Places
<1>15. \A i \in 2..d : (a + b) + i \in Places(lines, "card")
  <2>1. \A i \in 2..d : (a + b) + i \in DOMAIN lines
    BY <1>1, <1>4
  <2>2. QED BY <1>8, <2>1 DEF Places
<1>16. \A j \in Places(lines, "card") : \/ \E i \in 2..a : j = i
                                        \/ \E i \in 2..b : j = a + i
                                        \/ \E i \in 2..d : j = (a + b) + i
  BY <1>4, <1>6, <1>8 DEF Places
<1>17. ASSUME NEW c \in Cards
       PROVE  /\ Read(lines, "main", c) = {0 + i : i \in Told(A, c)}
              /\ Read(lines, "extra", c) = {a + i : i \in Told(B, c)}
              /\ Read(lines, "side", c) = {(a + b) + i : i \in Told(C, c)}
  <2>1. /\ Told(A, c) = {i \in 2..a : lines[i].card = c}
        /\ Told(B, c) = {i \in 2..b : lines[a + i].card = c}
        /\ Told(C, c) = {i \in 2..d : lines[(a + b) + i].card = c}
    BY <1>7 DEF Told, a, b, d
  <2>2. \A zone \in Zones : Read(lines, zone, c)
            = {j \in Places(lines, "card") : lines[j].card = c /\ SectionAt(lines, j) = zone}
    BY DEF Read
  <2>3. Read(lines, "main", c) = {0 + i : i \in Told(A, c)}
    <3>1. \A i \in 2..a : 0 + i = i
      BY <1>1
    <3>2. QED BY <1>12, <1>13, <1>16, <2>1, <2>2, <3>1 DEF Zones
  <2>4. Read(lines, "extra", c) = {a + i : i \in Told(B, c)}
    BY <1>12, <1>14, <1>16, <2>1, <2>2 DEF Zones
  <2>5. Read(lines, "side", c) = {(a + b) + i : i \in Told(C, c)}
    BY <1>12, <1>15, <1>16, <2>1, <2>2 DEF Zones
  <2>6. QED BY <2>3, <2>4, <2>5
<1>18. QED
  BY <1>4, <1>11, <1>17 DEF lines, a, b, d

\* A list written as text and read is the same list.
LEMMA ListsAreReadBack ==
    ASSUME NEW cards \in [Zones -> List]
    PROVE  ReadBack(cards)
<1> DEFINE A == Section("main", cards["main"])
           B == Section("extra", cards["extra"])
           C == Section("side", cards["side"])
           lines == ToYdk(cards)
<1>1. cards["main"] \in List /\ cards["extra"] \in List /\ cards["side"] \in List
  BY DEF Zones
<1>2. Opens(A, "main") /\ Opens(B, "extra") /\ Opens(C, "side")
  BY <1>1, SectionTells DEF Zones
<1>3. \A c \in Cards :
          /\ IsFiniteSet(Told(A, c)) /\ Cardinality(Told(A, c)) = cards["main"][c]
          /\ IsFiniteSet(Told(B, c)) /\ Cardinality(Told(B, c)) = cards["extra"][c]
          /\ IsFiniteSet(Told(C, c)) /\ Cardinality(Told(C, c)) = cards["side"][c]
  BY <1>1, SectionTells DEF Zones
<1>4. lines = A \o B \o C
  BY DEF ToYdk
<1> HIDE DEF A, B, C, lines
<1> DEFINE a == Len(A)
           b == Len(B)
<1>5. /\ a \in Nat /\ b \in Nat
      /\ Places(lines, "other") = {} /\ Places(lines, "header") = {}
      /\ \A c \in Cards : /\ Read(lines, "main", c) = {0 + i : i \in Told(A, c)}
                          /\ Read(lines, "extra", c) = {a + i : i \in Told(B, c)}
                          /\ Read(lines, "side", c) = {(a + b) + i : i \in Told(C, c)}
  <2>1. a \in Nat /\ b \in Nat
    BY <1>2 DEF Opens
  <2>2. QED BY <1>2, <1>4, <2>1, ThreeSections
<1> HIDE DEF a, b
<1>6. ASSUME NEW c \in Cards
      PROVE  /\ Cardinality(Read(lines, "main", c)) = cards["main"][c]
             /\ Cardinality(Read(lines, "extra", c)) = cards["extra"][c]
             /\ Cardinality(Read(lines, "side", c)) = cards["side"][c]
  <2>1. Told(A, c) \subseteq Nat /\ Told(B, c) \subseteq Nat /\ Told(C, c) \subseteq Nat
    BY <1>2 DEF Told, Opens
  <2>2. 0 \in Nat /\ a + b \in Nat
    BY <1>5
  <2>3. Cardinality({0 + i : i \in Told(A, c)}) = Cardinality(Told(A, c))
    BY <1>3, <2>1, <2>2, Shifted
  <2>4. Cardinality({a + i : i \in Told(B, c)}) = Cardinality(Told(B, c))
    BY <1>3, <1>5, <2>1, Shifted
  <2>5. Cardinality({(a + b) + i : i \in Told(C, c)}) = Cardinality(Told(C, c))
    BY <1>3, <2>1, <2>2, Shifted
  <2>6. QED BY <1>3, <1>5, <2>3, <2>4, <2>5
<1>7. \A z \in Zones, c \in Cards : Cardinality(Read(lines, z, c)) = cards[z][c]
  BY <1>6 DEF Zones
<1>8. [z \in Zones |-> [c \in Cards |-> Cardinality(Read(lines, z, c))]] = cards
  <2>1. \A z \in Zones : [c \in Cards |-> Cardinality(Read(lines, z, c))] = cards[z]
    <3> TAKE z \in Zones
    <3>1. cards[z] = [c \in Cards |-> cards[z][c]]
      BY DEF List
    <3>2. QED BY <1>7, <3>1
  <2>2. QED BY <2>1
<1>9. Cardinality(Places(lines, "other")) = 0 /\ Cardinality(Places(lines, "header")) = 0
  BY <1>5, FS_EmptySet
<1>10. ReadYdk(lines) = [cards |-> cards, ignored |-> 0, headers |-> 0]
  BY <1>8, <1>9 DEF ReadYdk
<1>11. QED
  BY <1>10 DEF ReadBack, lines

\* An archive comes back as it left; a list written as text is read back.
LEMMA ComesBack ==
    ASSUME ArchiveInv
    PROVE  ExportsComeBack
<1> SUFFICES ASSUME NEW x \in files
             PROVE  Comes(x) /\ Brings(x) /\ ReadBack(x.file.deck.cards)
  BY DEF ExportsComeBack
<1>1. Exported(x)
  BY DEF ArchiveInv, FilesInv
<1>2. x.file.deck.cards \in [Zones -> List]
  <2>1. x.file.deck \in Configuration
    BY <1>1, ArchiveFields DEF Exported
  <2>2. QED BY <2>1 DEF Configuration
<1>3. QED
  BY <1>1, <1>2, ArchiveComes, ArchiveBrings, ListsAreReadBack

\* A deck stays whole: the server would accept every deck it has stored - whatever the script
\* has rewritten -, and what has been exported comes back (DecksStayWhole).
THEOREM DecksStayWholeHolds == ArchiveSpec => []DecksStayWhole
<1>1. ArchiveInv => DecksStayWhole
  <2>1. ArchiveInv => StoredIsAcceptable
    BY DEF ArchiveInv, DecksInv, SoundDecks, Sound, StoredIsAcceptable, Exists
  <2>2. QED BY <2>1, ComesBack DEF DecksStayWhole
<1>2. QED BY <1>1, ArchiveInvariant, PTL

(***************************************************************************)
(* The script renames: what it has done so far                             *)
(***************************************************************************)
Renaming(s, u) == [o \in u |-> Named(s, o)]
Covers(old, new) ==
    /\ old.hopt = TRUE => new.hopt = TRUE
    /\ old.availability # Null => new.availability = old.availability
    /\ old.group # Null => new.group = old.group

\* What is reported, or is to be, is an orphan to be deleted; what it becomes is not.
OrphansInv ==
    script.at \in {"remap", "controlled"} =>
        /\ script.doomed \subseteq catalog \ script.answer
        /\ script.todo \cup script.moved \subseteq script.doomed
        /\ script.todo \cap script.moved = {}
        /\ \A c \in script.todo \cup script.moved : Named(script, c) \in catalog \cap script.answer

\* A card annotated after its report is still named, and the control will see it.
NotesInv ==
    script.annotations =>
        \A c \in Cards :
            \/ Covers(flags[c], script.work.flags[NewName(Renaming(script, script.moved), c)])
            \/ c \in script.moved /\ script.work.flags[c] # NoChoice

\* A deck reads as it did under what has been reported since it was first touched.
TouchedInv ==
    \A d \in script.touched :
        /\ decks[d] # NoDeck
        /\ \E u \in SUBSET script.moved : Reads(Renaming(script, u), decks[d], script.work.decks[d])

\* After the control, what nobody has written since names nothing to be deleted.
QuietInv ==
    script.at = "controlled" =>
        /\ \A d \in Decks :
               (d \in script.touched \/ d \notin script.late) /\ Seen.decks[d] # NoDeck =>
                   Mentions(Seen.decks[d]) \cap script.doomed = {}
        /\ script.annotations \/ "library" \notin script.late =>
               \A c \in script.doomed :
                   /\ Seen.flags[c] = NoChoice /\ Seen.references[c] = NoReference
                   /\ \A x \in Seen.labels : x[1] # c

RenamesInv == OrphansInv /\ NotesInv /\ TouchedInv /\ QuietInv

(***************************************************************************)
(* One report after others                                                 *)
(***************************************************************************)
\* The map `next' is `map' and the report from o to n.
Follows(map, o, n, next) ==
    \A c \in Cards : NewName(map, c) \in Cards /\ NewName(next, c) = Renamed(o, n, NewName(map, c))

LEMMA CopiesCount ==
    ASSUME NEW list \in List, NEW S \in SUBSET Cards
    PROVE  /\ IsFiniteSet(CopiesOf(list, S)) /\ Cardinality(CopiesOf(list, S)) \in Nat
           /\ \A x : x \in CopiesOf(list, S) <=> \E k \in S : \E i \in 1..list[k] : x = <<k, i>>
<1>1. \A x : x \in CopiesOf(list, S) <=> \E k \in S : \E i \in 1..list[k] : x = <<k, i>>
  BY DEF CopiesOf
<1>2. CopiesOf(list, S) \subseteq CopiesOf(list, Cards)
  BY DEF CopiesOf
<1>3. IsFiniteSet(CopiesOf(list, S))
  BY <1>2, CopiesAreFinite, FS_Subset
<1>4. QED BY <1>1, <1>3, FS_CardinalityType

LEMMA CopiesOfBoth ==
    ASSUME NEW list \in List, NEW S \in SUBSET Cards, NEW T \in SUBSET Cards, S \cap T = {}
    PROVE  Cardinality(CopiesOf(list, S \cup T)) = Cardinality(CopiesOf(list, S)) + Cardinality(CopiesOf(list, T))
<1> DEFINE A == CopiesOf(list, S)
           B == CopiesOf(list, T)
<1>1. IsFiniteSet(A) /\ IsFiniteSet(B) /\ Cardinality(A) \in Nat /\ Cardinality(B) \in Nat
  BY CopiesCount
<1>2. CopiesOf(list, S \cup T) = A \cup B
  BY DEF CopiesOf
<1>3. A \cap B = {}
  <2>1. /\ \A x \in A : x[1] \in S
        /\ \A x \in B : x[1] \in T
    BY DEF CopiesOf
  <2>2. QED BY <2>1
<1> HIDE DEF A, B
<1>4. Cardinality(A \cup B) = Cardinality(A) + Cardinality(B) - Cardinality(A \cap B)
  BY <1>1, FS_Union
<1>5. Cardinality(A \cap B) = 0
  BY <1>3, FS_EmptySet
<1>6. Cardinality(A \cup B) = Cardinality(A) + Cardinality(B)
  BY <1>1, <1>4, <1>5
<1>7. QED BY <1>2, <1>6 DEF A, B

LEMMA CopiesOfNone ==
    ASSUME NEW list \in List
    PROVE  /\ Cardinality(CopiesOf(list, {})) = 0
           /\ \A c \in Cards : Cardinality(CopiesOf(list, {c})) = list[c]
<1>1. CopiesOf(list, {}) = {}
  BY DEF CopiesOf
<1>2. ASSUME NEW c \in Cards
      PROVE  Cardinality(CopiesOf(list, {c})) = list[c]
  <2>1. CopiesOf(list, {c}) = {x \in CopiesOf(list, Cards) : x[1] = c}
    BY DEF CopiesOf
  <2>2. QED BY <2>1, CopiesAreFinite
<1>3. QED BY <1>1, <1>2, FS_EmptySet

Under(map, c) == {k \in Cards : NewName(map, k) = c}
Capped(n) == IF MaxCopies <= n THEN MaxCopies ELSE n

LEMMA SumIsCapped ==
    ASSUME NEW map, NEW list \in List, NEW c
    PROVE  /\ Cardinality(CopiesOf(list, Under(map, c))) \in Nat
           /\ SumUnder(map, list, c) = Capped(Cardinality(CopiesOf(list, Under(map, c))))
<1> DEFINE count == Cardinality(CopiesOf(list, Under(map, c)))
<1>1. count \in Nat
  BY CopiesCount DEF Under
<1>2. SumUnder(map, list, c) = Min({MaxCopies, count})
  BY DEF SumUnder, Under
<1> HIDE DEF count
<1>3. Min({MaxCopies, count}) = Capped(count)
  BY <1>1, LesserOfTwo DEF Capped, MaxCopies
<1>4. QED BY <1>1, <1>2, <1>3 DEF count

\* Copies added up to three, again.
LEMMA SumsAdd ==
    ASSUME NEW o \in Cards, NEW n \in Cards, o # n, NEW map, NEW next, Follows(map, o, n, next),
           NEW list \in List, NEW mid \in List, \A c \in Cards : mid[c] = SumUnder(map, list, c)
    PROVE  \A c \in Cards : Added(o, n, mid)[c] = SumUnder(next, list, c)
<1> DEFINE Count(S) == Cardinality(CopiesOf(list, S))
<1>1. /\ Added(o, n, mid)[o] = 0
      /\ Added(o, n, mid)[n] = Min({MaxCopies, mid[n] + mid[o]})
      /\ \A c \in Cards \ {o, n} : Added(o, n, mid)[c] = mid[c]
  BY AddedList
<1>2. \A m, c : Count(Under(m, c)) \in Nat /\ SumUnder(m, list, c) = Capped(Count(Under(m, c)))
  BY SumIsCapped
<1>3. Under(next, o) = {}
  BY DEF Under, Follows, Renamed
<1>4. Under(next, n) = Under(map, n) \cup Under(map, o) /\ Under(map, n) \cap Under(map, o) = {}
  BY DEF Under, Follows, Renamed
<1>5. \A c \in Cards \ {o, n} : Under(next, c) = Under(map, c)
  BY DEF Under, Follows, Renamed
<1>6. Count({}) = 0
  BY CopiesOfNone
<1>7. Count(Under(next, n)) = Count(Under(map, n)) + Count(Under(map, o))
  <2>1. Under(map, n) \in SUBSET Cards /\ Under(map, o) \in SUBSET Cards
    BY DEF Under
  <2>2. QED BY <1>4, <2>1, CopiesOfBoth
<1> HIDE DEF Count
<1>8. Added(o, n, mid)[o] = SumUnder(next, list, o)
  BY <1>1, <1>2, <1>3, <1>6 DEF Capped, MaxCopies
<1>9. Added(o, n, mid)[n] = SumUnder(next, list, n)
  <2> DEFINE x == Count(Under(map, n))
             y == Count(Under(map, o))
  <2>1. x \in Nat /\ y \in Nat /\ mid[n] = Capped(x) /\ mid[o] = Capped(y)
    BY <1>2
  <2>2. SumUnder(next, list, n) = Capped(x + y)
    BY <1>2, <1>7
  <2> HIDE DEF x, y
  <2>3. Capped(x) + Capped(y) \in Nat
    BY <2>1 DEF Capped, MaxCopies
  <2>4. Min({MaxCopies, Capped(x) + Capped(y)}) = Capped(Capped(x) + Capped(y))
    <3> DEFINE t == Capped(x) + Capped(y)
    <3>1. t \in Int
      BY <2>3
    <3> HIDE DEF t
    <3>2. Min({MaxCopies, t}) = Capped(t)
      BY <3>1, LesserOfTwo DEF Capped, MaxCopies
    <3>3. QED BY <3>2 DEF t
  <2>5. Capped(Capped(x) + Capped(y)) = Capped(x + y)
    BY <2>1 DEF Capped, MaxCopies
  <2>6. QED BY <1>1, <2>1, <2>2, <2>4, <2>5
<1>10. \A c \in Cards \ {o, n} : Added(o, n, mid)[c] = SumUnder(next, list, c)
  BY <1>1, <1>2, <1>5
<1>11. QED BY <1>8, <1>9, <1>10

\* A couple, and what a report makes of it.
Image(o, n, s) == {Renamed(o, n, x) : x \in s}

LEMMA TwoCards ==
    ASSUME NEW x, NEW y
    PROVE  /\ Cardinality({x, y}) = 2 <=> x # y
           /\ Cardinality({x}) # 2
<1>1. IsFiniteSet({x}) /\ Cardinality({x}) = 1
  BY FS_Singleton
<1>2. Cardinality({x} \cup {y}) = IF y \in {x} THEN Cardinality({x}) ELSE Cardinality({x}) + 1
  BY <1>1, FS_AddElement
<1>3. {x} \cup {y} = {x, y}
  OBVIOUS
<1>4. QED BY <1>1, <1>2, <1>3

LEMMA PairsAfter ==
    ASSUME NEW o \in Cards, NEW n \in Cards, o # n, NEW deck \in Configuration, AcceptablePairs(deck)
    PROVE  {{p.a, p.b} : p \in Pairs(o, n, deck)}
               = {s \in {Image(o, n, {p.a, p.b}) : p \in deck.pairs} : Cardinality(s) = 2}
<1> DEFINE S == Standing(o, n, deck) \ Losers(o, n, deck)
           Couple(p) == {p.a, p.b}
           F(p) == Final(o, n, p)
<1>1. \A p : Image(o, n, Couple(p)) = {Renamed(o, n, p.a), Renamed(o, n, p.b)}
  BY DEF Image
<1>2. \A p \in deck.pairs : p \in Pair /\ p.a \in Cards /\ p.b \in Cards /\ p.a < p.b /\ p.a # p.b
  <2> TAKE p \in deck.pairs
  <2>1. p \in Pair /\ p.a < p.b
    BY DEF Configuration, AcceptablePairs
  <2>2. p.a \in Cards /\ p.b \in Cards
    BY <2>1 DEF Pair
  <2>3. p.a # p.b
    BY <2>1, <2>2, CardsAreNumbers
  <2>4. QED BY <2>1, <2>2, <2>3
<1>3. \A p \in deck.pairs : p \in Standing(o, n, deck) <=> Cardinality(Image(o, n, Couple(p))) = 2
  <2> TAKE p \in deck.pairs
  <2>1. Cardinality(Image(o, n, Couple(p))) = 2 <=> Renamed(o, n, p.a) # Renamed(o, n, p.b)
    <3> DEFINE x == Renamed(o, n, p.a)
               y == Renamed(o, n, p.b)
    <3>1. Image(o, n, Couple(p)) = {x, y}
      BY <1>1
    <3> HIDE DEF x, y
    <3>2. Cardinality({x, y}) = 2 <=> x # y
      BY TwoCards
    <3>3. QED BY <3>1, <3>2 DEF x, y
  <2>2. Renamed(o, n, p.a) = Renamed(o, n, p.b) <=> Degenerate(o, n, p)
    BY <1>2 DEF Renamed, Degenerate
  <2>3. QED BY <2>1, <2>2 DEF Standing
<1>4. \A p \in Standing(o, n, deck) : Couple(F(p)) = Image(o, n, Couple(p)) /\ p \in deck.pairs
  <2> TAKE p \in Standing(o, n, deck)
  <2>1. p \in Pair /\ p.a < p.b /\ ~Degenerate(o, n, p) /\ p \in deck.pairs
    BY StandingPair
  <2>2. {F(p).a, F(p).b} = {Renamed(o, n, p.a), Renamed(o, n, p.b)}
    BY <2>1, FinalPair
  <2>3. QED BY <1>1, <2>1, <2>2
<1>5. \A p \in Standing(o, n, deck) : \E q \in S : Couple(F(q)) = Couple(F(p))
  <2> TAKE p \in Standing(o, n, deck)
  <2>1. CASE p \in Losers(o, n, deck)
    <3>1. PICK q \in Winner(o, n, deck, p) : TRUE
      BY <2>1, LosersAndWinners
    <3>2. q \in S /\ SameCards(F(p), F(q))
      BY <2>1, LosersAndWinners
    <3>3. QED BY <3>2 DEF SameCards
  <2>2. CASE p \notin Losers(o, n, deck)
    BY <2>2
  <2>3. QED BY <2>1, <2>2
<1>6. Pairs(o, n, deck) = {F(p) : p \in S}
  BY DEF Pairs
<1>7. S \subseteq Standing(o, n, deck) /\ Standing(o, n, deck) \subseteq deck.pairs
  BY DEF Standing
<1> HIDE DEF S, F, Couple
<1>8. {Couple(p) : p \in Pairs(o, n, deck)}
          = {s \in {Image(o, n, Couple(p)) : p \in deck.pairs} : Cardinality(s) = 2}
  <2>1. ASSUME NEW q \in Pairs(o, n, deck)
        PROVE  \E p \in deck.pairs : Couple(q) = Image(o, n, Couple(p)) /\ Cardinality(Couple(q)) = 2
    <3>1. PICK p \in S : q = F(p)
      BY <1>6
    <3>2. QED BY <1>3, <1>4, <1>7, <3>1
  <2>2. ASSUME NEW p \in deck.pairs, Cardinality(Image(o, n, Couple(p))) = 2
        PROVE  \E q \in Pairs(o, n, deck) : Couple(q) = Image(o, n, Couple(p))
    <3>1. p \in Standing(o, n, deck)
      BY <1>3, <2>2
    <3>2. PICK r \in S : Couple(F(r)) = Couple(F(p))
      BY <1>5, <3>1
    <3>3. F(r) \in Pairs(o, n, deck)
      BY <1>6
    <3>4. QED BY <1>4, <3>1, <3>2, <3>3
  <2>3. QED BY <2>1, <2>2
<1>9. QED BY <1>8 DEF Couple

LEMMA StandingImage ==
    ASSUME NEW o \in Cards, NEW n \in Cards, o # n, NEW deck \in Configuration, AcceptablePairs(deck),
           NEW p \in deck.pairs
    PROVE  /\ p \in Standing(o, n, deck) <=> Cardinality(Image(o, n, {p.a, p.b})) = 2
           /\ Image(o, n, {p.a, p.b}) = {Renamed(o, n, p.a), Renamed(o, n, p.b)}
           /\ Cardinality({p.a, p.b}) = 2
<1> DEFINE x == Renamed(o, n, p.a)
           y == Renamed(o, n, p.b)
<1>1. Image(o, n, {p.a, p.b}) = {x, y}
  BY DEF Image
<1>2. p \in Pair /\ p.a \in Cards /\ p.b \in Cards /\ p.a < p.b /\ p.a # p.b
  <2>1. p \in Pair /\ p.a < p.b
    BY DEF Configuration, AcceptablePairs
  <2>2. p.a \in Cards /\ p.b \in Cards
    BY <2>1 DEF Pair
  <2>3. p.a # p.b
    BY <2>1, <2>2, CardsAreNumbers
  <2>4. QED BY <2>1, <2>2, <2>3
<1>3. x = y <=> Degenerate(o, n, p)
  BY <1>2 DEF Renamed, Degenerate
<1>4. p \in Standing(o, n, deck) <=> x # y
  BY <1>3 DEF Standing
<1> HIDE DEF x, y
<1>5. Cardinality({x, y}) = 2 <=> x # y
  BY TwoCards
<1>6. Cardinality({p.a, p.b}) = 2
  <2> DEFINE a == p.a  b == p.b
  <2>1. a # b
    BY <1>2
  <2> HIDE DEF a, b
  <2>2. Cardinality({a, b}) = 2
    BY <2>1, TwoCards
  <2>3. QED BY <2>2 DEF a, b
<1>7. QED BY <1>1, <1>4, <1>5, <1>6 DEF x, y

LEMMA CoupleFollows ==
    ASSUME NEW o \in Cards, NEW n \in Cards, o # n, NEW map, NEW next, Follows(map, o, n, next),
           NEW p \in Pair
    PROVE  /\ CoupleUnder(next, p) = Image(o, n, CoupleUnder(map, p))
           /\ Cardinality(CoupleUnder(next, p)) = 2 => Cardinality(CoupleUnder(map, p)) = 2
<1> DEFINE x == NewName(map, p.a)
           y == NewName(map, p.b)
           u == NewName(next, p.a)
           v == NewName(next, p.b)
<1>1. u = Renamed(o, n, x) /\ v = Renamed(o, n, y)
  BY DEF Follows, Pair
<1>2. CoupleUnder(map, p) = {x, y} /\ CoupleUnder(next, p) = {u, v}
  BY DEF CoupleUnder
<1> HIDE DEF x, y, u, v
<1>3. Image(o, n, {x, y}) = {u, v}
  BY <1>1 DEF Image
<1>4. (Cardinality({x, y}) = 2 <=> x # y) /\ (Cardinality({u, v}) = 2 <=> u # v)
  BY TwoCards
<1>5. x = y => u = v
  BY <1>1
<1>6. QED BY <1>2, <1>3, <1>4, <1>5

PairsRead(map, before, pairs) ==
    {{p.a, p.b} : p \in pairs} = {s \in {CoupleUnder(map, p) : p \in before.pairs} : Cardinality(s) = 2}
ConditionsRead(map, before, after) ==
    {<<SourceUnder(<<>>, after, k), k.leaves>> : k \in after.conditions}
        = {<<SourceUnder(map, before, k), [i \in DOMAIN k.leaves |-> NewName(map, k.leaves[i])]>> :
              k \in {k \in before.conditions : Real(map, before, k)}}

LEMMA PairsCompose ==
    ASSUME NEW o \in Cards, NEW n \in Cards, o # n, NEW map, NEW next, Follows(map, o, n, next),
           NEW before \in Configuration, NEW mid \in Configuration, AcceptablePairs(mid),
           PairsRead(map, before, mid.pairs)
    PROVE  PairsRead(next, before, Pairs(o, n, mid))
<1> DEFINE Couple(p) == {p.a, p.b}
<1>1. {Couple(p) : p \in Pairs(o, n, mid)} = {s \in {Image(o, n, Couple(p)) : p \in mid.pairs} : Cardinality(s) = 2}
  BY PairsAfter
<1>2. \A p \in before.pairs :
          /\ CoupleUnder(next, p) = Image(o, n, CoupleUnder(map, p))
          /\ Cardinality(CoupleUnder(next, p)) = 2 => Cardinality(CoupleUnder(map, p)) = 2
  <2> TAKE p \in before.pairs
  <2>1. p \in Pair
    BY DEF Configuration
  <2>2. QED BY <2>1, CoupleFollows
<1>3. {Couple(p) : p \in mid.pairs} = {s \in {CoupleUnder(map, p) : p \in before.pairs} : Cardinality(s) = 2}
  BY DEF PairsRead
<1> HIDE DEF Couple
<1>4. \A q \in mid.pairs : \E p \in before.pairs : Couple(q) = CoupleUnder(map, p)
  BY <1>3
<1>5. \A p \in before.pairs : Cardinality(CoupleUnder(map, p)) = 2 => \E q \in mid.pairs : Couple(q) = CoupleUnder(map, p)
  BY <1>3
<1>6. {Couple(p) : p \in Pairs(o, n, mid)} = {s \in {CoupleUnder(next, p) : p \in before.pairs} : Cardinality(s) = 2}
  <2>1. ASSUME NEW q \in mid.pairs
        PROVE  \E p \in before.pairs : Image(o, n, Couple(q)) = CoupleUnder(next, p)
    BY <1>2, <1>4
  <2>2. ASSUME NEW p \in before.pairs, Cardinality(CoupleUnder(next, p)) = 2
        PROVE  \E q \in mid.pairs : Image(o, n, Couple(q)) = CoupleUnder(next, p)
    BY <1>2, <1>5, <2>2
  <2>3. QED BY <1>1, <2>1, <2>2
<1>7. QED BY <1>6 DEF Couple, PairsRead

\* The source of a condition is one card, or two.
LEMMA SourceOf ==
    ASSUME NEW deck \in Configuration, AcceptablePairs(deck), AcceptableConditions(deck),
           NEW k \in deck.conditions
    PROVE  /\ k.pair = Null => k.card \in Cards /\ \A map : SourceUnder(map, deck, k) = {NewName(map, k.card)}
           /\ k.pair # Null => \E p \in deck.pairs :
                  /\ p.id = k.pair
                  /\ \A map : SourceUnder(map, deck, k) = CoupleUnder(map, p)
<1>1. /\ (k.card = Null) # (k.pair = Null)
      /\ k.pair # Null => k.pair \in PairsOf(deck)
  BY DEF AcceptableConditions
<1>2. CASE k.pair = Null
  <2>1. k.card \in Cards
    BY <1>1, <1>2, ConditionFields
  <2>2. \A map : SourceUnder(map, deck, k) = {NewName(map, k.card)}
    BY <1>2 DEF SourceUnder
  <2>3. QED BY <1>2, <2>1, <2>2
<1>3. CASE k.pair # Null
  <2>1. PICK p \in deck.pairs : p.id = k.pair
    BY <1>1, <1>3 DEF PairsOf
  <2>2. \A q \in deck.pairs : q.id = k.pair => q = p
    BY <2>1 DEF AcceptablePairs
  <2>3. (CHOOSE q \in deck.pairs : q.id = k.pair) = p
    BY <2>1, <2>2
  <2>4. \A map : SourceUnder(map, deck, k) = CoupleUnder(map, p)
    BY <1>3, <2>3 DEF SourceUnder
  <2>5. QED BY <1>3, <2>1, <2>4
<1>4. QED BY <1>2, <1>3

LEMMA NoNewName == \A c : NewName(<<>>, c) = c
BY DEF NewName

\* A source is one card if it is not a pair, and stays one.
LEMMA SourceSize ==
    ASSUME NEW deck \in Configuration, AcceptablePairs(deck), AcceptableConditions(deck),
           NEW k \in deck.conditions, NEW map, Real(map, deck, k)
    PROVE  k.pair = Null <=> Cardinality(SourceUnder(map, deck, k)) # 2
<1>1. CASE k.pair = Null
  <2>1. SourceUnder(map, deck, k) = {NewName(map, k.card)}
    BY <1>1, SourceOf
  <2> DEFINE x == NewName(map, k.card)
  <2> HIDE DEF x
  <2>2. Cardinality({x}) # 2
    BY TwoCards
  <2>3. QED BY <1>1, <2>1, <2>2 DEF x
<1>2. CASE k.pair # Null
  BY <1>2 DEF Real
<1>3. QED BY <1>1, <1>2

LEMMA SourceAfter ==
    ASSUME NEW o \in Cards, NEW n \in Cards, o # n, NEW map, NEW next, Follows(map, o, n, next),
           NEW deck \in Configuration, AcceptablePairs(deck), AcceptableConditions(deck),
           NEW k \in deck.conditions
    PROVE  /\ SourceUnder(next, deck, k) = Image(o, n, SourceUnder(map, deck, k))
           /\ Real(next, deck, k) => Real(map, deck, k)
           /\ [i \in DOMAIN k.leaves |-> NewName(next, k.leaves[i])]
                  = RenamedLeaves(o, n, [i \in DOMAIN k.leaves |-> NewName(map, k.leaves[i])])
<1>1. ASSUME k.pair = Null
      PROVE  /\ SourceUnder(next, deck, k) = Image(o, n, SourceUnder(map, deck, k))
             /\ Real(next, deck, k) => Real(map, deck, k)
  <2>1. /\ k.card \in Cards /\ SourceUnder(map, deck, k) = {NewName(map, k.card)}
        /\ SourceUnder(next, deck, k) = {NewName(next, k.card)}
    BY <1>1, SourceOf
  <2>2. NewName(next, k.card) = Renamed(o, n, NewName(map, k.card))
    BY <2>1 DEF Follows
  <2>3. SourceUnder(next, deck, k) = Image(o, n, SourceUnder(map, deck, k))
    BY <2>1, <2>2 DEF Image
  <2>4. Real(map, deck, k)
    BY <1>1 DEF Real
  <2>5. QED BY <2>3, <2>4
<1>2. ASSUME k.pair # Null
      PROVE  /\ SourceUnder(next, deck, k) = Image(o, n, SourceUnder(map, deck, k))
             /\ Real(next, deck, k) => Real(map, deck, k)
  <2>1. PICK p \in deck.pairs : \A m : SourceUnder(m, deck, k) = CoupleUnder(m, p)
    BY <1>2, SourceOf
  <2>2. p \in Pair
    BY DEF Configuration
  <2>3. /\ CoupleUnder(next, p) = Image(o, n, CoupleUnder(map, p))
        /\ Cardinality(CoupleUnder(next, p)) = 2 => Cardinality(CoupleUnder(map, p)) = 2
    BY <2>2, CoupleFollows
  <2>4. SourceUnder(next, deck, k) = CoupleUnder(next, p) /\ SourceUnder(map, deck, k) = CoupleUnder(map, p)
    BY <2>1
  <2>5. QED BY <1>2, <2>3, <2>4 DEF Real
<1>3. [i \in DOMAIN k.leaves |-> NewName(next, k.leaves[i])]
          = RenamedLeaves(o, n, [i \in DOMAIN k.leaves |-> NewName(map, k.leaves[i])])
  <2>1. \A i \in DOMAIN k.leaves : k.leaves[i] \in Cards
    <3>1. k.leaves \in Seq(Cards)
      BY ConditionFields
    <3>2. QED BY <3>1
  <2>2. \A i \in DOMAIN k.leaves : NewName(next, k.leaves[i]) = Renamed(o, n, NewName(map, k.leaves[i]))
    BY <2>1 DEF Follows
  <2>3. QED BY <2>2 DEF RenamedLeaves
<1>4. /\ SourceUnder(next, deck, k) = Image(o, n, SourceUnder(map, deck, k))
      /\ Real(next, deck, k) => Real(map, deck, k)
  BY <1>1, <1>2
<1>5. QED BY <1>3, <1>4

\* What a report makes of the conditions of a deck.
LEMMA ConditionsAfter ==
    ASSUME NEW o \in Cards, NEW n \in Cards, o # n, NEW deck \in Configuration, Acceptable(deck),
           NEW after \in Configuration, after.pairs = Pairs(o, n, deck),
           after.conditions = Conditions(o, n, deck)
    PROVE  {<<SourceUnder(<<>>, after, k), k.leaves>> : k \in after.conditions}
               = {<<Image(o, n, SourceUnder(<<>>, deck, k)), RenamedLeaves(o, n, k.leaves)>> :
                     k \in {k \in deck.conditions :
                               k.pair = Null \/ Cardinality(Image(o, n, SourceUnder(<<>>, deck, k))) = 2}}
<1> USE DEF Acceptable
<1>1. after.conditions = {Carried(o, n, deck, k) : k \in Kept(o, n, deck)}
  BY ConditionsLeft
<1>2. ASSUME NEW k \in deck.conditions, k.pair # Null
      PROVE  \E p \in deck.pairs :
                 /\ p.id = k.pair /\ SourceUnder(<<>>, deck, k) = {p.a, p.b}
                 /\ \A q \in deck.pairs : q.id = k.pair => q = p
  <2>1. PICK p \in deck.pairs : p.id = k.pair /\ \A m : SourceUnder(m, deck, k) = CoupleUnder(m, p)
    BY <1>2, SourceOf
  <2>2. SourceUnder(<<>>, deck, k) = {p.a, p.b}
    BY <2>1, NoNewName DEF CoupleUnder
  <2>3. \A q \in deck.pairs : q.id = k.pair => q = p
    BY <2>1 DEF AcceptablePairs
  <2>4. QED BY <2>1, <2>2, <2>3
<1>3. ASSUME NEW k \in deck.conditions
      PROVE  k \in Kept(o, n, deck) <=> k.pair = Null \/ Cardinality(Image(o, n, SourceUnder(<<>>, deck, k))) = 2
  <2>1. CASE k.pair = Null
    BY <2>1 DEF Kept
  <2>2. CASE k.pair # Null
    <3>1. PICK p \in deck.pairs :
              /\ p.id = k.pair /\ SourceUnder(<<>>, deck, k) = {p.a, p.b}
              /\ \A q \in deck.pairs : q.id = k.pair => q = p
      BY <1>2, <2>2
    <3>2. p \in Standing(o, n, deck) <=> Cardinality(Image(o, n, {p.a, p.b})) = 2
      BY StandingImage
    <3>3. k \in Kept(o, n, deck) <=> p \in Standing(o, n, deck)
      <4>1. k \in Kept(o, n, deck) => p \in Standing(o, n, deck)
        BY <2>2, <3>1 DEF Kept, Standing
      <4>2. p \in Standing(o, n, deck) => k \in Kept(o, n, deck)
        BY <3>1 DEF Kept
      <4>3. QED BY <4>1, <4>2
    <3>4. QED BY <2>2, <3>1, <3>2, <3>3
  <2>3. QED BY <2>1, <2>2
<1>4. ASSUME NEW k \in Kept(o, n, deck)
      PROVE  /\ SourceUnder(<<>>, after, Carried(o, n, deck, k)) = Image(o, n, SourceUnder(<<>>, deck, k))
             /\ Carried(o, n, deck, k).leaves = RenamedLeaves(o, n, k.leaves)
  <2> DEFINE l == Carried(o, n, deck, k)
  <2>1. l.card = Renamed(o, n, k.card) /\ l.pair = Source(o, n, deck, k) /\ l.leaves = RenamedLeaves(o, n, k.leaves)
    BY DEF Carried
  <2>2. k \in deck.conditions
    BY DEF Kept
  <2> HIDE DEF l
  <2>3. CASE k.pair = Null
    <3>1. l.pair = Null
      BY <2>1, <2>3, SourceOfCard
    <3>2. SourceUnder(<<>>, after, l) = {Renamed(o, n, k.card)}
      BY <2>1, <3>1, NoNewName DEF SourceUnder
    <3>3. SourceUnder(<<>>, deck, k) = {k.card}
      BY <2>3, NoNewName DEF SourceUnder
    <3>4. QED BY <2>1, <3>2, <3>3 DEF Image, l
  <2>4. CASE k.pair # Null
    <3>1. PICK p \in deck.pairs :
              /\ p.id = k.pair /\ SourceUnder(<<>>, deck, k) = {p.a, p.b}
              /\ \A q \in deck.pairs : q.id = k.pair => q = p
      BY <1>2, <2>2, <2>4
    <3>2. p \in Standing(o, n, deck)
      BY <2>4, <3>1 DEF Kept, Standing
    <3>3. PICK q \in Standing(o, n, deck) \ Losers(o, n, deck) :
               /\ Source(o, n, deck, k) = q.id
               /\ p \notin Losers(o, n, deck) => q = p
               /\ p \in Losers(o, n, deck) => q \in Winner(o, n, deck, p)
      BY <3>1, <3>2, SourceFollows
    <3>4. SameCards(Final(o, n, p), Final(o, n, q))
      <4>1. CASE p \in Losers(o, n, deck)
        BY <3>3, <4>1, LosersAndWinners
      <4>2. CASE p \notin Losers(o, n, deck)
        BY <3>3, <4>2 DEF SameCards
      <4>3. QED BY <4>1, <4>2
    <3>5. q \in Pair /\ q.a < q.b /\ ~Degenerate(o, n, q)
      BY StandingPair
    <3>6. Final(o, n, q).id = q.id /\ q.id \in PairIds
      BY <3>5, FinalPair DEF Pair
    <3>7. Final(o, n, q) \in after.pairs
      BY DEF Pairs
    <3>8. \A r \in after.pairs : r.id = q.id => r = Final(o, n, q)
      BY <3>6, <3>7, PairsLeft
    <3>9. l.pair = q.id /\ l.pair # Null
      BY <2>1, <3>3, <3>6, ConfigurationAssumption
    <3>10. (CHOOSE r \in after.pairs : r.id = l.pair) = Final(o, n, q)
      BY <3>6, <3>7, <3>8, <3>9
    <3>11. SourceUnder(<<>>, after, l) = {Final(o, n, q).a, Final(o, n, q).b}
      BY <3>9, <3>10, NoNewName DEF SourceUnder, CoupleUnder
    <3>12. p \in Pair /\ p.a < p.b /\ ~Degenerate(o, n, p)
      BY <3>2, StandingPair
    <3>13. {Final(o, n, p).a, Final(o, n, p).b} = {Renamed(o, n, p.a), Renamed(o, n, p.b)}
      BY <3>12, FinalPair
    <3>14. Image(o, n, {p.a, p.b}) = {Renamed(o, n, p.a), Renamed(o, n, p.b)}
      BY StandingImage
    <3>15. QED BY <2>1, <3>1, <3>4, <3>11, <3>13, <3>14 DEF SameCards, l
  <2>5. QED BY <2>3, <2>4
<1> DEFINE From(k) == SourceUnder(<<>>, after, k)
           Made(k) == Image(o, n, SourceUnder(<<>>, deck, k))
           Leads(k) == RenamedLeaves(o, n, k.leaves)
           C(k) == Carried(o, n, deck, k)
           K == Kept(o, n, deck)
<1>5. {k \in deck.conditions : k.pair = Null \/ Cardinality(Made(k)) = 2} = K
  BY <1>3 DEF Kept
<1>6. \A k \in K : From(C(k)) = Made(k) /\ C(k).leaves = Leads(k)
  BY <1>4
<1>7. after.conditions = {C(k) : k \in K}
  BY <1>1
<1> HIDE DEF From, Made, Leads, C, K
<1>8. {<<From(k), k.leaves>> : k \in after.conditions} = {<<Made(k), Leads(k)>> : k \in K}
  <2>1. \A l \in after.conditions : \E k \in K : From(l) = Made(k) /\ l.leaves = Leads(k)
    BY <1>6, <1>7
  <2>2. \A k \in K : \E l \in after.conditions : From(l) = Made(k) /\ l.leaves = Leads(k)
    BY <1>6, <1>7
  <2>3. QED BY <2>1, <2>2
<1>9. {<<From(k), k.leaves>> : k \in after.conditions}
          = {<<Made(k), Leads(k)>> : k \in {k \in deck.conditions : k.pair = Null \/ Cardinality(Made(k)) = 2}}
  BY <1>5, <1>8
<1>10. QED BY <1>9 DEF From, Made, Leads

LEMMA ConditionsCompose ==
    ASSUME NEW o \in Cards, NEW n \in Cards, o # n, NEW map, NEW next, Follows(map, o, n, next),
           NEW before \in Configuration, Acceptable(before),
           NEW mid \in Configuration, Acceptable(mid),
           ConditionsRead(map, before, mid),
           NEW after \in Configuration, after.pairs = Pairs(o, n, mid),
           after.conditions = Conditions(o, n, mid)
    PROVE  ConditionsRead(next, before, after)
<1> USE DEF Acceptable
<1> DEFINE Now(k) == SourceUnder(<<>>, after, k)
           Mid(k) == SourceUnder(<<>>, mid, k)
           Old(k) == SourceUnder(map, before, k)
           Anew(k) == SourceUnder(next, before, k)
           OldLeaves(k) == [i \in DOMAIN k.leaves |-> NewName(map, k.leaves[i])]
           NewLeaves(k) == [i \in DOMAIN k.leaves |-> NewName(next, k.leaves[i])]
           I(s) == Image(o, n, s)
           L(x) == RenamedLeaves(o, n, x)
           Two(s) == Cardinality(s) = 2
           Was(k) == Real(map, before, k)
           Is(k) == Real(next, before, k)
<1>1. {<<Now(k), k.leaves>> : k \in after.conditions}
          = {<<I(Mid(k)), L(k.leaves)>> : k \in {k \in mid.conditions : k.pair = Null \/ Two(I(Mid(k)))}}
  BY ConditionsAfter
<1>2. {<<Mid(k), k.leaves>> : k \in mid.conditions} = {<<Old(k), OldLeaves(k)>> : k \in {k \in before.conditions : Was(k)}}
  BY DEF ConditionsRead
<1>3. \A k \in before.conditions : Anew(k) = I(Old(k)) /\ NewLeaves(k) = L(OldLeaves(k)) /\ (Is(k) => Was(k))
  BY SourceAfter
<1>4. \A k \in before.conditions : Was(k) => (k.pair = Null <=> ~Two(Old(k)))
  BY SourceSize
<1>5. \A k \in mid.conditions : k.pair = Null <=> ~Two(Mid(k))
  <2> TAKE k \in mid.conditions
  <2>1. Real(<<>>, mid, k)
    <3>1. CASE k.pair = Null
      BY <3>1 DEF Real
    <3>2. CASE k.pair # Null
      <4>1. PICK p \in mid.pairs : \A m : SourceUnder(m, mid, k) = CoupleUnder(m, p)
        BY <3>2, SourceOf
      <4>2. SourceUnder(<<>>, mid, k) = {p.a, p.b}
        BY <4>1, NoNewName DEF CoupleUnder
      <4>3. Cardinality({p.a, p.b}) = 2
        BY StandingImage
      <4>4. QED BY <4>2, <4>3 DEF Real
    <3>3. QED BY <3>1, <3>2
  <2>2. QED BY <2>1, SourceSize
<1>6. \A k \in before.conditions : Is(k) <=> k.pair = Null \/ Two(Anew(k))
  BY DEF Real
<1> HIDE DEF Now, Mid, Old, Anew, OldLeaves, NewLeaves, I, L, Two, Was, Is
<1>7. \A k \in mid.conditions : \E l \in before.conditions : Was(l) /\ Mid(k) = Old(l) /\ k.leaves = OldLeaves(l)
  <2> TAKE k \in mid.conditions
  <2>1. <<Mid(k), k.leaves>> \in {<<Old(l), OldLeaves(l)>> : l \in {l \in before.conditions : Was(l)}}
    BY <1>2
  <2>2. QED BY <2>1
<1>8. \A l \in before.conditions : Was(l) => \E k \in mid.conditions : Mid(k) = Old(l) /\ k.leaves = OldLeaves(l)
  <2> TAKE l \in before.conditions
  <2>1. Was(l) => <<Old(l), OldLeaves(l)>> \in {<<Mid(k), k.leaves>> : k \in mid.conditions}
    BY <1>2
  <2>2. QED BY <2>1
<1>9. ASSUME NEW k \in mid.conditions, k.pair = Null \/ Two(I(Mid(k)))
      PROVE  \E l \in before.conditions : Is(l) /\ I(Mid(k)) = Anew(l) /\ L(k.leaves) = NewLeaves(l)
  <2>1. PICK l \in before.conditions : Was(l) /\ Mid(k) = Old(l) /\ k.leaves = OldLeaves(l)
    BY <1>7
  <2>2. I(Mid(k)) = Anew(l) /\ L(k.leaves) = NewLeaves(l)
    BY <1>3, <2>1
  <2>3. l.pair = Null <=> k.pair = Null
    BY <1>4, <1>5, <2>1
  <2>4. Is(l)
    BY <1>6, <1>9, <2>2, <2>3
  <2>5. QED BY <2>2, <2>4
<1>10. ASSUME NEW l \in before.conditions, Is(l)
       PROVE  \E k \in {k \in mid.conditions : k.pair = Null \/ Two(I(Mid(k)))} :
                  I(Mid(k)) = Anew(l) /\ L(k.leaves) = NewLeaves(l)
  <2>1. Was(l)
    BY <1>3, <1>10
  <2>2. PICK k \in mid.conditions : Mid(k) = Old(l) /\ k.leaves = OldLeaves(l)
    BY <1>8, <2>1
  <2>3. I(Mid(k)) = Anew(l) /\ L(k.leaves) = NewLeaves(l)
    BY <1>3, <2>2
  <2>4. l.pair = Null <=> k.pair = Null
    BY <1>4, <1>5, <2>1, <2>2
  <2>5. k.pair = Null \/ Two(I(Mid(k)))
    BY <1>6, <1>10, <2>3, <2>4
  <2>6. QED BY <2>3, <2>5
<1> DEFINE K == {k \in mid.conditions : k.pair = Null \/ Two(I(Mid(k)))}
           B == {l \in before.conditions : Is(l)}
<1>11. {<<I(Mid(k)), L(k.leaves)>> : k \in K} = {<<Anew(l), NewLeaves(l)>> : l \in B}
  <2>1. \A k \in K : \E l \in B : I(Mid(k)) = Anew(l) /\ L(k.leaves) = NewLeaves(l)
    BY <1>9
  <2>2. \A l \in B : \E k \in K : I(Mid(k)) = Anew(l) /\ L(k.leaves) = NewLeaves(l)
    BY <1>10
  <2> HIDE DEF K, B
  <2>3. QED BY <2>1, <2>2
<1>12. {<<Now(k), k.leaves>> : k \in after.conditions} = {<<Anew(l), NewLeaves(l)>> : l \in {l \in before.conditions : Is(l)}}
  BY <1>1, <1>11
<1>13. QED BY <1>12 DEF Now, Anew, NewLeaves, Is, ConditionsRead

\* A deck that reads as it did under a map reads so, after one more report, under that map and it.
LEMMA ReadsCompose ==
    ASSUME NEW o \in Cards, NEW n \in Cards, o # n, NEW map, NEW next, Follows(map, o, n, next),
           NEW before, Sound(before), NEW mid, Sound(mid), Reads(map, before, mid)
    PROVE  Reads(next, before, RemapDeck(o, n, mid))
<1> DEFINE after == RemapDeck(o, n, mid)
<1>1. before \in Configuration /\ Acceptable(before) /\ mid \in Configuration /\ Acceptable(mid)
  BY DEF Sound
<1>2. after = [cards |-> [z \in Zones |-> Added(o, n, mid.cards[z])],
               starters |-> {Renamed(o, n, c) : c \in mid.starters},
               pairs |-> Pairs(o, n, mid), conditions |-> Conditions(o, n, mid),
               dead |-> {<<Renamed(o, n, x[1]), x[2]>> : x \in mid.dead},
               plans |-> [p \in Plans |-> [d \in Directions |-> Added(o, n, mid.plans[p][d])]],
               queries |-> mid.queries]
  BY <1>1, RemappedFields
<1>3. after \in Configuration
  BY <1>1, RemapKeepsType
<1> HIDE DEF after
<1>4. /\ after.cards = [z \in Zones |-> Added(o, n, mid.cards[z])]
      /\ after.starters = {Renamed(o, n, c) : c \in mid.starters}
      /\ after.pairs = Pairs(o, n, mid) /\ after.conditions = Conditions(o, n, mid)
      /\ after.dead = {<<Renamed(o, n, x[1]), x[2]>> : x \in mid.dead}
      /\ after.plans = [p \in Plans |-> [d \in Directions |-> Added(o, n, mid.plans[p][d])]]
      /\ after.queries = mid.queries
  BY <1>2
<1>5. /\ \A z \in Zones : before.cards[z] \in List /\ mid.cards[z] \in List
      /\ \A p \in Plans, d \in Directions : before.plans[p][d] \in List /\ mid.plans[p][d] \in List
      /\ before.starters \subseteq Cards /\ before.dead \subseteq Cards \X {"first", "second"}
  <2>1. /\ before.cards \in [Zones -> List] /\ before.plans \in [Plans -> [Directions -> List]]
        /\ before.starters \subseteq Cards /\ before.dead \subseteq Cards \X {"first", "second"}
    BY <1>1, DeckFields
  <2>2. mid.cards \in [Zones -> List] /\ mid.plans \in [Plans -> [Directions -> List]]
    BY <1>1, DeckFields
  <2>3. QED BY <2>1, <2>2
<1>6. \A c \in Cards, z \in Zones : after.cards[z][c] = SumUnder(next, before.cards[z], c)
  <2> SUFFICES ASSUME NEW z \in Zones
               PROVE  \A c \in Cards : after.cards[z][c] = SumUnder(next, before.cards[z], c)
    OBVIOUS
  <2> DEFINE list == before.cards[z]
             there == mid.cards[z]
  <2>1. list \in List /\ there \in List /\ \A c \in Cards : there[c] = SumUnder(map, list, c)
    BY <1>5 DEF Reads
  <2> HIDE DEF list, there
  <2>2. \A c \in Cards : Added(o, n, there)[c] = SumUnder(next, list, c)
    BY <2>1, SumsAdd
  <2>3. QED BY <1>4, <2>2 DEF list, there
<1>7. \A c \in Cards, p \in Plans, d \in Directions : after.plans[p][d][c] = SumUnder(next, before.plans[p][d], c)
  <2> SUFFICES ASSUME NEW p \in Plans, NEW d \in Directions
               PROVE  \A c \in Cards : after.plans[p][d][c] = SumUnder(next, before.plans[p][d], c)
    OBVIOUS
  <2> DEFINE list == before.plans[p][d]
             there == mid.plans[p][d]
  <2>1. list \in List /\ there \in List /\ \A c \in Cards : there[c] = SumUnder(map, list, c)
    BY <1>5 DEF Reads
  <2> HIDE DEF list, there
  <2>2. \A c \in Cards : Added(o, n, there)[c] = SumUnder(next, list, c)
    BY <2>1, SumsAdd
  <2>3. QED BY <1>4, <2>2 DEF list, there
<1>8. after.starters = {NewName(next, c) : c \in before.starters}
  <2>1. mid.starters = {NewName(map, c) : c \in before.starters}
    BY DEF Reads
  <2>2. \A c \in before.starters : NewName(next, c) = Renamed(o, n, NewName(map, c))
    BY <1>5 DEF Follows
  <2>3. QED BY <1>4, <2>1, <2>2
<1>9. after.dead = {<<NewName(next, x[1]), x[2]>> : x \in before.dead}
  <2> DEFINE M(x) == <<NewName(map, x[1]), x[2]>>
             N(x) == <<NewName(next, x[1]), x[2]>>
             R(x) == <<Renamed(o, n, x[1]), x[2]>>
  <2>1. mid.dead = {M(x) : x \in before.dead}
    BY DEF Reads
  <2>2. after.dead = {R(x) : x \in mid.dead}
    BY <1>4
  <2>3. \A x \in before.dead : N(x) = R(M(x))
    BY <1>5 DEF Follows
  <2> HIDE DEF M, N, R
  <2>4. after.dead = {N(x) : x \in before.dead}
    BY <2>1, <2>2, <2>3
  <2>5. QED BY <2>4 DEF N
<1>10. PairsRead(next, before, after.pairs)
  <2>1. AcceptablePairs(mid)
    BY <1>1 DEF Acceptable
  <2>2. PairsRead(map, before, mid.pairs)
    BY DEF Reads, PairsRead
  <2>3. QED BY <1>1, <1>4, <2>1, <2>2, PairsCompose
<1>11. ConditionsRead(next, before, after)
  <2>1. ConditionsRead(map, before, mid)
    BY DEF Reads, ConditionsRead
  <2>2. QED BY <1>1, <1>3, <1>4, <2>1, ConditionsCompose
<1>12. after.queries = before.queries
  BY <1>4 DEF Reads
<1>13. QED BY <1>6, <1>7, <1>8, <1>9, <1>10, <1>11, <1>12 DEF Reads, PairsRead, ConditionsRead, after

(***************************************************************************)
(* No report, and reports of cards a deck does not mention                 *)
(***************************************************************************)
LEMMA TwoOfAPair ==
    ASSUME NEW deck \in Configuration, AcceptablePairs(deck), NEW p \in deck.pairs
    PROVE  p.a \in Cards /\ p.b \in Cards /\ p.a # p.b /\ Cardinality({p.a, p.b}) = 2
<1>1. p \in Pair /\ p.a < p.b
  BY DEF Configuration, AcceptablePairs
<1>2. p.a \in Cards /\ p.b \in Cards
  BY <1>1 DEF Pair
<1>3. p.a # p.b
  BY <1>1, <1>2, CardsAreNumbers
<1> DEFINE a == p.a  b == p.b
<1> HIDE DEF a, b
<1>4. Cardinality({a, b}) = 2 <=> a # b
  BY TwoCards
<1>5. QED BY <1>2, <1>3, <1>4 DEF a, b

LEMMA ReadsItself ==
    ASSUME NEW map, \A c \in Cards : NewName(map, c) = c, NEW deck, Sound(deck)
    PROVE  Reads(map, deck, deck)
<1>1. deck \in Configuration /\ Acceptable(deck)
  BY DEF Sound
<1>2. \A list \in List, c \in Cards : list[c] <= MaxCopies => list[c] = SumUnder(map, list, c)
  <2> SUFFICES ASSUME NEW list \in List, NEW c \in Cards, list[c] <= MaxCopies
               PROVE  list[c] = SumUnder(map, list, c)
    OBVIOUS
  <2>1. Under(map, c) = {c}
    BY DEF Under
  <2>2. Cardinality(CopiesOf(list, {c})) = list[c]
    BY CopiesOfNone
  <2>3. SumUnder(map, list, c) = Capped(list[c])
    BY <2>1, <2>2, SumIsCapped
  <2>4. list[c] \in Nat
    BY DEF List
  <2>5. QED BY <2>3, <2>4 DEF Capped, MaxCopies
<1>3. /\ deck.cards \in [Zones -> List] /\ deck.plans \in [Plans -> [Directions -> List]]
      /\ deck.starters \subseteq Cards /\ deck.dead \subseteq Cards \X {"first", "second"}
  BY <1>1, DeckFields
<1>4. /\ \A c \in Cards, z \in Zones : deck.cards[z][c] = SumUnder(map, deck.cards[z], c)
      /\ \A c \in Cards, p \in Plans, d \in Directions : deck.plans[p][d][c] = SumUnder(map, deck.plans[p][d], c)
  <2>1. /\ \A z \in Zones : deck.cards[z] \in List
        /\ \A p \in Plans, d \in Directions : deck.plans[p][d] \in List
    BY <1>3
  <2>2. /\ \A z \in Zones, c \in Cards : deck.cards[z][c] <= MaxCopies
        /\ \A p \in Plans, d \in Directions, c \in Cards : deck.plans[p][d][c] <= MaxCopies
    BY <1>1 DEF Acceptable, AcceptableCards, AcceptablePlans
  <2>3. QED BY <1>2, <2>1, <2>2
<1>5. deck.starters = {NewName(map, c) : c \in deck.starters}
  BY <1>3
<1>6. deck.dead = {<<NewName(map, x[1]), x[2]>> : x \in deck.dead}
  <2> DEFINE M(x) == <<NewName(map, x[1]), x[2]>>
  <2>1. \A x \in deck.dead : M(x) = x
    BY <1>3
  <2> HIDE DEF M
  <2>2. deck.dead = {M(x) : x \in deck.dead}
    BY <2>1
  <2>3. QED BY <2>2 DEF M
<1>7. PairsRead(map, deck, deck.pairs)
  <2> DEFINE Couple(p) == {p.a, p.b}
             Then(p) == CoupleUnder(map, p)
  <2>1. \A p \in deck.pairs : Then(p) = Couple(p) /\ Cardinality(Then(p)) = 2
    <3> TAKE p \in deck.pairs
    <3>1. p.a \in Cards /\ p.b \in Cards /\ Cardinality({p.a, p.b}) = 2
      BY <1>1, TwoOfAPair DEF Acceptable
    <3>2. Then(p) = Couple(p)
      BY <3>1 DEF CoupleUnder
    <3>3. QED BY <3>1, <3>2
  <2> HIDE DEF Couple, Then
  <2>2. {Couple(p) : p \in deck.pairs} = {s \in {Then(p) : p \in deck.pairs} : Cardinality(s) = 2}
    BY <2>1
  <2>3. QED BY <2>2 DEF PairsRead, Couple, Then
<1>8. ConditionsRead(map, deck, deck)
  <2> DEFINE Was(k) == SourceUnder(<<>>, deck, k)
             Then(k) == SourceUnder(map, deck, k)
             Leading(k) == [i \in DOMAIN k.leaves |-> NewName(map, k.leaves[i])]
             Is(k) == Real(map, deck, k)
  <2>1. \A k \in deck.conditions : Was(k) = Then(k) /\ Is(k) /\ Leading(k) = k.leaves
    <3> TAKE k \in deck.conditions
    <3>1. Was(k) = Then(k) /\ Is(k)
      <4>1. CASE k.pair = Null
        <5>1. k.card \in Cards /\ \A m : SourceUnder(m, deck, k) = {NewName(m, k.card)}
          BY <1>1, <4>1, SourceOf DEF Acceptable
        <5>2. QED BY <4>1, <5>1, NoNewName DEF Real
      <4>2. CASE k.pair # Null
        <5>1. PICK p \in deck.pairs : \A m : SourceUnder(m, deck, k) = CoupleUnder(m, p)
          BY <1>1, <4>2, SourceOf DEF Acceptable
        <5>2. p.a \in Cards /\ p.b \in Cards /\ Cardinality({p.a, p.b}) = 2
          BY <1>1, TwoOfAPair DEF Acceptable
        <5>3. Was(k) = {p.a, p.b} /\ Then(k) = {p.a, p.b}
          BY <5>1, <5>2, NoNewName DEF CoupleUnder
        <5>4. QED BY <5>2, <5>3 DEF Real
      <4>3. QED BY <4>1, <4>2
    <3>2. Leading(k) = k.leaves
      <4>1. k.leaves \in Seq(Cards)
        BY <1>1, ConditionFields
      <4>2. \A i \in DOMAIN k.leaves : NewName(map, k.leaves[i]) = k.leaves[i]
        BY <4>1
      <4>3. k.leaves = [i \in DOMAIN k.leaves |-> k.leaves[i]]
        BY <4>1
      <4>4. QED BY <4>2, <4>3
    <3>3. QED BY <3>1, <3>2
  <2> HIDE DEF Was, Then, Leading, Is
  <2>2. {<<Was(k), k.leaves>> : k \in deck.conditions} = {<<Then(k), Leading(k)>> : k \in {k \in deck.conditions : Is(k)}}
    BY <2>1
  <2>3. QED BY <2>2 DEF ConditionsRead, Was, Then, Leading, Is
<1>9. QED BY <1>4, <1>5, <1>6, <1>7, <1>8 DEF Reads, PairsRead, ConditionsRead

\* X: cards the second map renames and the first does not, that the deck no longer mentions.
LEMMA ReadsOn ==
    ASSUME NEW map, NEW next, NEW X,
           \A c \in Cards \ X : NewName(next, c) = NewName(map, c),
           \A c \in X : NewName(map, c) = c,
           \A c \in X, k \in Cards : NewName(map, k) = c => k = c,
           NEW before, Sound(before), NEW after, Sound(after), Reads(map, before, after),
           Mentions(after) \cap X = {}
    PROVE  Reads(next, before, after)
<1>1. before \in Configuration /\ Acceptable(before) /\ after \in Configuration /\ Acceptable(after)
  BY DEF Sound
<1>2. /\ before.cards \in [Zones -> List] /\ before.plans \in [Plans -> [Directions -> List]]
      /\ before.starters \subseteq Cards /\ before.dead \subseteq Cards \X {"first", "second"}
  BY <1>1, DeckFields
<1>3. ASSUME NEW list \in List, \A c \in X \cap Cards : ~(SumUnder(map, list, c) > 0)
      PROVE  \A c \in Cards : SumUnder(next, list, c) = SumUnder(map, list, c)
  <2>1. \A c \in X \cap Cards : list[c] = 0
    <3> TAKE c \in X \cap Cards
    <3>1. Under(map, c) = {c}
      BY DEF Under
    <3>2. Cardinality(CopiesOf(list, {c})) = list[c]
      BY CopiesOfNone
    <3>3. SumUnder(map, list, c) = Capped(list[c])
      BY <3>1, <3>2, SumIsCapped
    <3>4. list[c] \in Nat /\ ~(SumUnder(map, list, c) > 0)
      BY <1>3 DEF List
    <3>5. QED BY <3>3, <3>4 DEF Capped, MaxCopies
  <2>2. \A c \in Cards : CopiesOf(list, Under(next, c)) = CopiesOf(list, Under(map, c))
    <3> TAKE c \in Cards
    <3>1. \A S \in SUBSET Cards : \A x : x \in CopiesOf(list, S) <=> \E k \in S : \E i \in 1..list[k] : x = <<k, i>>
      BY CopiesCount
    <3>2. \A k \in Cards : (\E i \in 1..list[k] : TRUE) => k \notin X
      BY <2>1
    <3>3. \A k \in Cards \ X : k \in Under(next, c) <=> k \in Under(map, c)
      BY DEF Under
    <3>4. Under(next, c) \in SUBSET Cards /\ Under(map, c) \in SUBSET Cards
      BY DEF Under
    <3> DEFINE N == Under(next, c)
               M == Under(map, c)
    <3> HIDE DEF N, M
    <3>5. \A x : x \in CopiesOf(list, N) <=> x \in CopiesOf(list, M)
      <4> TAKE x
      <4>1. x \in CopiesOf(list, N) <=> \E k \in N : \E i \in 1..list[k] : x = <<k, i>>
        BY <3>1, <3>4 DEF N
      <4>2. x \in CopiesOf(list, M) <=> \E k \in M : \E i \in 1..list[k] : x = <<k, i>>
        BY <3>1, <3>4 DEF M
      <4>3. \A k \in Cards : (\E i \in 1..list[k] : TRUE) => (k \in N <=> k \in M)
        BY <3>2, <3>3 DEF N, M
      <4>4. N \subseteq Cards /\ M \subseteq Cards
        BY <3>4 DEF N, M
      <4>5. QED BY <4>1, <4>2, <4>3, <4>4
    <3>6. CopiesOf(list, N) = CopiesOf(list, M)
      BY <3>5
    <3>7. QED BY <3>6 DEF N, M
  <2>3. \A c : /\ SumUnder(map, list, c) = Capped(Cardinality(CopiesOf(list, Under(map, c))))
               /\ SumUnder(next, list, c) = Capped(Cardinality(CopiesOf(list, Under(next, c))))
    BY SumIsCapped
  <2>4. QED BY <2>2, <2>3
<1>4. \A c \in Cards, z \in Zones : after.cards[z][c] = SumUnder(next, before.cards[z], c)
  <2> SUFFICES ASSUME NEW z \in Zones
               PROVE  \A c \in Cards : after.cards[z][c] = SumUnder(next, before.cards[z], c)
    OBVIOUS
  <2> DEFINE list == before.cards[z]
  <2>1. list \in List
    BY <1>2
  <2>2. \A c \in Cards : after.cards[z][c] = SumUnder(map, list, c)
    BY DEF Reads
  <2>3. \A c \in X \cap Cards : ~(after.cards[z][c] > 0)
    BY DEF Mentions, Of
  <2> HIDE DEF list
  <2>4. \A c \in Cards : SumUnder(next, list, c) = SumUnder(map, list, c)
    BY <1>3, <2>1, <2>2, <2>3
  <2>5. QED BY <2>2, <2>4 DEF list
<1>5. \A c \in Cards, p \in Plans, d \in Directions : after.plans[p][d][c] = SumUnder(next, before.plans[p][d], c)
  <2> SUFFICES ASSUME NEW p \in Plans, NEW d \in Directions
               PROVE  \A c \in Cards : after.plans[p][d][c] = SumUnder(next, before.plans[p][d], c)
    OBVIOUS
  <2> DEFINE list == before.plans[p][d]
  <2>1. list \in List
    BY <1>2
  <2>2. \A c \in Cards : after.plans[p][d][c] = SumUnder(map, list, c)
    BY DEF Reads
  <2>3. \A c \in X \cap Cards : ~(after.plans[p][d][c] > 0)
    <3> DEFINE F(q, e) == Of(after.plans[q][e])
               T == UNION {F(q, e) : q \in Plans, e \in Directions}
    <3>1. T \subseteq Mentions(after)
      BY DEF Mentions
    <3>2. F(p, d) \subseteq T
      <4> HIDE DEF F
      <4>1. QED OBVIOUS
    <3> HIDE DEF T
    <3>3. QED BY <3>1, <3>2 DEF Of
  <2> HIDE DEF list
  <2>4. \A c \in Cards : SumUnder(next, list, c) = SumUnder(map, list, c)
    BY <1>3, <2>1, <2>2, <2>3
  <2>5. QED BY <2>2, <2>4 DEF list
<1>6. after.starters = {NewName(next, c) : c \in before.starters}
  <2>1. after.starters = {NewName(map, c) : c \in before.starters}
    BY DEF Reads
  <2>2. after.starters \cap X = {}
    BY DEF Mentions
  <2>3. \A c \in before.starters : NewName(next, c) = NewName(map, c)
    BY <1>2, <2>1, <2>2
  <2>4. QED BY <2>1, <2>3
<1>7. after.dead = {<<NewName(next, x[1]), x[2]>> : x \in before.dead}
  <2> DEFINE M(x) == <<NewName(map, x[1]), x[2]>>
             N(x) == <<NewName(next, x[1]), x[2]>>
  <2>1. after.dead = {M(x) : x \in before.dead}
    BY DEF Reads
  <2>2. \A y \in after.dead : y[1] \notin X
    BY DEF Mentions
  <2>3. \A x \in before.dead : M(x) = N(x)
    <3> TAKE x \in before.dead
    <3>1. M(x) \in after.dead /\ M(x)[1] = NewName(map, x[1])
      BY <2>1
    <3>2. x[1] \in Cards \ X
      BY <1>2, <2>2, <3>1
    <3>3. QED BY <3>2
  <2> HIDE DEF M, N
  <2>4. after.dead = {N(x) : x \in before.dead}
    BY <2>1, <2>3
  <2>5. QED BY <2>4 DEF N
<1>8. \A p \in before.pairs : CoupleUnder(next, p) = CoupleUnder(map, p)
  <2> TAKE p \in before.pairs
  <2>1. p.a \in Cards /\ p.b \in Cards /\ p.a # p.b
    BY <1>1, TwoOfAPair DEF Acceptable
  <2> DEFINE x == NewName(map, p.a)
             y == NewName(map, p.b)
  <2>2. CoupleUnder(map, p) = {x, y}
    BY DEF CoupleUnder
  <2>3. p.a \in X \/ p.b \in X => x # y
    BY <2>1
  <2>4. (p.a \in X => x = p.a) /\ (p.b \in X => y = p.b)
    OBVIOUS
  <2>5. x # y => {x, y} \cap X = {}
    <3> SUFFICES ASSUME x # y
                 PROVE  {x, y} \cap X = {}
      OBVIOUS
    <3> DEFINE u == x  v == y
    <3>1. u # v
      OBVIOUS
    <3> HIDE DEF u, v
    <3>2. Cardinality({u, v}) = 2
      BY <3>1, TwoCards
    <3>3. CoupleUnder(map, p) \in {s \in {CoupleUnder(map, q) : q \in before.pairs} : Cardinality(s) = 2}
      BY <2>2, <3>2 DEF u, v
    <3>4. PICK q \in after.pairs : CoupleUnder(map, p) = {q.a, q.b}
      BY <3>3 DEF Reads
    <3>5. {q.a, q.b} \cap X = {}
      BY DEF Mentions
    <3>6. QED BY <2>2, <3>4, <3>5
  <2> HIDE DEF x, y
  <2>6. p.a \notin X /\ p.b \notin X
    BY <2>3, <2>4, <2>5
  <2>7. QED BY <2>1, <2>6 DEF CoupleUnder
<1>9. PairsRead(next, before, after.pairs)
  <2> DEFINE M(p) == CoupleUnder(map, p)
             N(p) == CoupleUnder(next, p)
             Couple(p) == {p.a, p.b}
  <2>1. {Couple(p) : p \in after.pairs} = {s \in {M(p) : p \in before.pairs} : Cardinality(s) = 2}
    BY DEF Reads
  <2>2. \A p \in before.pairs : N(p) = M(p)
    BY <1>8
  <2> HIDE DEF M, N, Couple
  <2>3. {Couple(p) : p \in after.pairs} = {s \in {N(p) : p \in before.pairs} : Cardinality(s) = 2}
    BY <2>1, <2>2
  <2>4. QED BY <2>3 DEF PairsRead, N, Couple
<1>10. ConditionsRead(next, before, after)
  <2> DEFINE Now(k) == SourceUnder(<<>>, after, k)
             M(k) == SourceUnder(map, before, k)
             N(k) == SourceUnder(next, before, k)
             MLeaves(k) == [i \in DOMAIN k.leaves |-> NewName(map, k.leaves[i])]
             NLeaves(k) == [i \in DOMAIN k.leaves |-> NewName(next, k.leaves[i])]
             MReal(k) == Real(map, before, k)
             NReal(k) == Real(next, before, k)
  <2>1. {<<Now(k), k.leaves>> : k \in after.conditions} = {<<M(k), MLeaves(k)>> : k \in {k \in before.conditions : MReal(k)}}
    BY DEF Reads
  <2>2. \A k \in before.conditions : MReal(k) => \E l \in after.conditions : Now(l) = M(k) /\ l.leaves = MLeaves(k)
    <3> SUFFICES ASSUME NEW k \in before.conditions, MReal(k)
                 PROVE  \E l \in after.conditions : Now(l) = M(k) /\ l.leaves = MLeaves(k)
      OBVIOUS
    <3> HIDE DEF Now, M, MLeaves, MReal
    <3>1. <<M(k), MLeaves(k)>> \in {<<Now(l), l.leaves>> : l \in after.conditions}
      BY <2>1
    <3>2. QED BY <3>1
  <2>3. \A l \in after.conditions : Now(l) \cap X = {} /\ Leaves(l) \cap X = {}
    <3> TAKE l \in after.conditions
    <3>1. Leaves(l) \cap X = {}
      BY DEF Mentions
    <3>2. CASE l.pair = Null
      <4>1. l.card \in Cards /\ \A m : SourceUnder(m, after, l) = {NewName(m, l.card)}
        BY <1>1, <3>2, SourceOf DEF Acceptable
      <4>2. l.card \notin X
        BY <4>1, ConfigurationAssumption DEF Mentions
      <4>3. QED BY <3>1, <4>1, <4>2, NoNewName
    <3>3. CASE l.pair # Null
      <4>1. PICK p \in after.pairs : \A m : SourceUnder(m, after, l) = CoupleUnder(m, p)
        BY <1>1, <3>3, SourceOf DEF Acceptable
      <4>2. {p.a, p.b} \cap X = {}
        BY DEF Mentions
      <4>3. QED BY <3>1, <4>1, <4>2, NoNewName DEF CoupleUnder
    <3>4. QED BY <3>2, <3>3
  <2>4. ASSUME NEW k \in before.conditions
        PROVE  /\ N(k) = M(k)
               /\ NReal(k) <=> MReal(k)
               /\ MReal(k) => NLeaves(k) = MLeaves(k)
    <3>1. N(k) = M(k)
      <4>1. CASE k.pair = Null
        <5>1. k.card \in Cards /\ \A m : SourceUnder(m, before, k) = {NewName(m, k.card)}
          BY <1>1, <4>1, SourceOf DEF Acceptable
        <5>2. MReal(k)
          BY <4>1 DEF Real
        <5>3. M(k) \cap X = {}
          BY <2>2, <2>3, <5>2
        <5>4. k.card \notin X
          BY <5>1, <5>3
        <5>5. QED BY <5>1, <5>4
      <4>2. CASE k.pair # Null
        <5>1. PICK p \in before.pairs : \A m : SourceUnder(m, before, k) = CoupleUnder(m, p)
          BY <1>1, <4>2, SourceOf DEF Acceptable
        <5>2. QED BY <1>8, <5>1
      <4>3. QED BY <4>1, <4>2
    <3>2. NReal(k) <=> MReal(k)
      BY <3>1 DEF Real
    <3>3. MReal(k) => NLeaves(k) = MLeaves(k)
      <4> SUFFICES ASSUME MReal(k)
                   PROVE  NLeaves(k) = MLeaves(k)
        OBVIOUS
      <4>1. PICK l \in after.conditions : l.leaves = MLeaves(k)
        BY <2>2
      <4>2. k.leaves \in Seq(Cards)
        BY <1>1, ConditionFields
      <4>3. \A i \in DOMAIN k.leaves : NewName(map, k.leaves[i]) \in Leaves(l)
        BY <4>1 DEF Leaves
      <4>4. \A i \in DOMAIN k.leaves : k.leaves[i] \in Cards \ X
        BY <2>3, <4>2, <4>3
      <4>5. QED BY <4>4
    <3>4. QED BY <3>1, <3>2, <3>3
  <2> HIDE DEF Now, M, N, MLeaves, NLeaves, MReal, NReal
  <2>5. {k \in before.conditions : MReal(k)} = {k \in before.conditions : NReal(k)}
    BY <2>4
  <2>6. {<<Now(k), k.leaves>> : k \in after.conditions} = {<<N(k), NLeaves(k)>> : k \in {k \in before.conditions : NReal(k)}}
    BY <2>1, <2>4, <2>5
  <2>7. QED BY <2>6 DEF ConditionsRead, Now, N, NLeaves, NReal
<1>11. after.queries = before.queries
  BY DEF Reads
<1>12. QED BY <1>4, <1>5, <1>6, <1>7, <1>9, <1>10, <1>11 DEF Reads, PairsRead, ConditionsRead

(***************************************************************************)
(* What the site does meanwhile, and what the script does, keep it         *)
(***************************************************************************)
LEMMA SiteStep ==
    ASSUME ArchiveInv, RenamesInv, UNCHANGED <<catalog, references>>,
           NEW w, ScriptAfter(w),
           \A d \in Decks : \/ decks'[d] = decks[d]
                            \/ d \notin script.touched /\ (d \in w \/ decks'[d] = NoDeck),
           script.annotations => flags' = flags,
           "library" \notin w => flags' = flags /\ labels' \subseteq labels
    PROVE  RenamesInv'
<1>1. /\ ScriptFields(script')
      /\ script'.at = script.at /\ script'.answer = script.answer /\ script'.todo = script.todo
      /\ script'.doomed = script.doomed /\ script'.touched = script.touched
      /\ script'.annotations = script.annotations /\ script'.work = script.work
      /\ script'.apply = script.apply /\ script'.moved = script.moved
      /\ script'.late = IF script.at = "controlled" THEN script.late \cup w ELSE script.late
  BY LateIsUnseen DEF ArchiveInv, ScriptInv
<1>2. \A c : Named(script, c)' = Named(script, c)
  BY <1>1 DEF Named, Targets
<1>3. \A u : Renaming(script, u)' = Renaming(script, u)
  BY <1>2 DEF Renaming
<1>4. OrphansInv'
  BY <1>1, <1>2 DEF OrphansInv, RenamesInv
<1>5. NotesInv'
  <2>1. Renaming(script, script.moved)' = Renaming(script, script.moved)
    BY <1>1, <1>2 DEF Renaming
  <2>2. QED BY <1>1, <2>1 DEF NotesInv, RenamesInv
<1>6. TouchedInv'
  <2> SUFFICES ASSUME NEW d \in script.touched
               PROVE  /\ decks'[d] # NoDeck
                      /\ \E u \in SUBSET script.moved : Reads(Renaming(script, u)', decks'[d], script.work.decks[d])
    BY <1>1 DEF TouchedInv
  <2>1. d \in Decks
    BY DEF ArchiveInv, DecksInv
  <2>2. decks'[d] = decks[d]
    BY <2>1
  <2>3. decks[d] # NoDeck /\ \E u \in SUBSET script.moved : Reads(Renaming(script, u), decks[d], script.work.decks[d])
    BY DEF TouchedInv, RenamesInv
  <2>4. QED BY <1>3, <2>2, <2>3
<1>7. QuietInv'
  <2> SUFFICES ASSUME script.at = "controlled"
               PROVE  QuietInv'
    BY <1>1 DEF QuietInv
  <2>1. script'.late = script.late \cup w
    BY <1>1
  <2>2. ASSUME NEW d \in Decks, d \in script.touched \/ d \notin script'.late, Seen'.decks[d] # NoDeck
        PROVE  Mentions(Seen'.decks[d]) \cap script.doomed = {}
    <3>1. Seen'.decks[d] = Seen.decks[d]
      <4>1. CASE d \in script.touched
        BY <1>1, <4>1 DEF Seen
      <4>2. CASE d \notin script.touched
        <5>1. Seen'.decks[d] = decks'[d] /\ Seen.decks[d] = decks[d]
          BY <1>1, <4>2 DEF Seen
        <5>2. d \notin w
          BY <2>1, <2>2, <4>2
        <5>3. QED BY <2>2, <5>1, <5>2
      <4>3. QED BY <4>1, <4>2
    <3>2. d \in script.touched \/ d \notin script.late
      BY <2>1, <2>2
    <3>3. QED BY <2>2, <3>1, <3>2 DEF QuietInv, RenamesInv
  <2>3. ASSUME script.annotations \/ "library" \notin script'.late, NEW c \in script.doomed
        PROVE  /\ Seen'.flags[c] = NoChoice /\ Seen'.references[c] = NoReference
               /\ \A x \in Seen'.labels : x[1] # c
    <3>1. script.annotations \/ "library" \notin script.late
      BY <2>1, <2>3
    <3>2. /\ Seen.flags[c] = NoChoice /\ Seen.references[c] = NoReference
          /\ \A x \in Seen.labels : x[1] # c
      BY <3>1 DEF QuietInv, RenamesInv
    <3>3. Seen'.flags = Seen.flags /\ Seen'.references = Seen.references /\ Seen'.labels \subseteq Seen.labels
      <4>1. CASE script.annotations
        BY <1>1, <4>1 DEF Seen
      <4>2. CASE ~script.annotations
        <5>1. "library" \notin w
          BY <2>1, <2>3, <4>2
        <5>2. QED BY <1>1, <4>2, <5>1 DEF Seen
      <4>3. QED BY <4>1, <4>2
    <3>4. QED BY <3>2, <3>3
  <2>4. QED BY <1>1, <2>2, <2>3 DEF QuietInv
<1>8. QED BY <1>4, <1>5, <1>6, <1>7 DEF RenamesInv

LEMMA Unheard ==
    ASSUME ArchiveInv, UNCHANGED script
    PROVE  ScriptAfter({})
<1>1. ScriptFields(script)
  BY DEF ArchiveInv, ScriptInv
<1>2. [script EXCEPT !.late = script.late \cup {}] = script
  <2>1. script.late \cup {} = script.late
    OBVIOUS
  <2>2. [script EXCEPT !.late = script.late] = script
    BY <1>1 DEF ScriptFields
  <2>3. QED BY <2>1, <2>2
<1>3. QED BY <1>2 DEF ScriptAfter

\* A deck that is added was not there, so the script has not touched it.
LEMMA NewDeckStep ==
    ASSUME ArchiveInv, RenamesInv, Absent # {}, NEW v, decks' = [decks EXCEPT ![NewDeck] = v]
    PROVE  \A d \in Decks : decks'[d] = decks[d] \/ (d \notin script.touched /\ d = NewDeck)
<1>1. NewDeck \in Absent
  BY DEF NewDeck
<1>2. NewDeck \notin script.touched
  BY <1>1 DEF Absent, TouchedInv, RenamesInv
<1>3. \A d \in Decks : d # NewDeck => decks'[d] = decks[d]
  <2>1. decks \in [Decks -> Configuration \cup {NoDeck}]
    BY DEF ArchiveInv, DecksInv, SoundDecks
  <2>2. QED BY <2>1
<1>4. QED BY <1>2, <1>3

LEMMA RouteRenames ==
    ASSUME ArchiveInv, RenamesInv, Route
    PROVE  RenamesInv'
<1>1. ASSUME UNCHANGED <<databaseVars, scriptVars>>
      PROVE  RenamesInv'
  <2>1. ScriptAfter({})
    BY <1>1, Unheard DEF scriptVars
  <2>2. UNCHANGED <<catalog, decks, flags, labels, references>>
    BY <1>1 DEF databaseVars
  <2>3. QED BY <2>1, <2>2, SiteStep
<1>2. ASSUME NEW i \in Importers, ImportWrite(i)
      PROVE  RenamesInv'
  <2>1. /\ AnnotationsFree /\ Absent # {} /\ ScriptAfter({NewDeck, "library"})
        /\ UNCHANGED <<catalog, references>>
        /\ decks' = [decks EXCEPT ![NewDeck] = Merge(Library, imports[i].file).deck]
    BY <1>2 DEF ImportWrite
  <2>2. \A d \in Decks : decks'[d] = decks[d] \/ (d \notin script.touched /\ d = NewDeck)
    BY <2>1, NewDeckStep
  <2> DEFINE w == {NewDeck, "library"}
  <2>3. "library" \in w /\ NewDeck \in w /\ ScriptAfter(w)
    BY <2>1
  <2> HIDE DEF w
  <2>4. QED BY <2>1, <2>2, <2>3, SiteStep DEF AnnotationsFree
<1>3. ASSUME NEW c \in Cards, NEW row \in Chosen, Annotate(c, row)
      PROVE  RenamesInv'
  <2>1. AnnotationsFree /\ ScriptAfter({"library"}) /\ UNCHANGED <<catalog, decks, references>>
    BY <1>3 DEF Annotate
  <2> DEFINE w == {"library"}
  <2>2. "library" \in w /\ ScriptAfter(w)
    BY <2>1
  <2> HIDE DEF w
  <2>3. QED BY <2>1, <2>2, SiteStep DEF AnnotationsFree
<1>4. ASSUME NEW id \in CategoryIds, DeleteCategory(id)
      PROVE  RenamesInv'
  <2>1. /\ ScriptAfter({}) /\ UNCHANGED <<catalog, decks, references, flags>>
        /\ labels' \subseteq labels
    BY <1>4 DEF DeleteCategory
  <2>2. QED BY <2>1, SiteStep
<1>5. ASSUME NEW v, Absent # {}, decks' = [decks EXCEPT ![NewDeck] = v], ScriptAfter({NewDeck}),
             UNCHANGED <<catalog, references, flags, labels>>
      PROVE  RenamesInv'
  <2>1. \A d \in Decks : decks'[d] = decks[d] \/ (d \notin script.touched /\ d = NewDeck)
    BY <1>5, NewDeckStep
  <2> DEFINE w == {NewDeck}
  <2>2. NewDeck \in w /\ ScriptAfter(w)
    BY <1>5
  <2> HIDE DEF w
  <2>3. QED BY <1>5, <2>1, <2>2, SiteStep
<1>6. ASSUME NEW report, Create(report)
      PROVE  RenamesInv'
  BY <1>5, <1>6 DEF Create
<1>7. ASSUME NEW d \in Decks, Duplicate(d)
      PROVE  RenamesInv'
  BY <1>5, <1>7 DEF Duplicate
<1>8. ASSUME SaveWrite
      PROVE  RenamesInv'
  <2> DEFINE d == checked.deck
             after == Written(decks[d], checked.writes)
  <2>1. /\ checked # Null /\ DeckFree(d) /\ UNCHANGED <<catalog, references, flags, labels>>
        /\ IF Duplicates(after)
           THEN UNCHANGED <<decks, script>>
           ELSE decks' = [decks EXCEPT ![d] = after] /\ ScriptAfter({d})
    BY <1>8 DEF SaveWrite
  <2>2. decks \in [Decks -> Configuration \cup {NoDeck}]
    BY DEF ArchiveInv, DecksInv, SoundDecks
  <2> HIDE DEF d, after
  <2>3. CASE Duplicates(after)
    <3>1. ScriptAfter({})
      BY <2>1, <2>3, Unheard
    <3>2. QED BY <2>1, <2>3, <3>1, SiteStep
  <2>4. CASE ~Duplicates(after)
    <3> DEFINE w == {d}
    <3>1. d \in w /\ ScriptAfter(w) /\ d \notin script.touched
      BY <2>1, <2>4 DEF DeckFree
    <3>2. \A e \in Decks : decks'[e] = decks[e] \/ (e \notin script.touched /\ e \in w)
      BY <2>1, <2>2, <2>4, <3>1
    <3> HIDE DEF w
    <3>3. QED BY <2>1, <3>1, <3>2, SiteStep
  <2>5. QED BY <2>3, <2>4
<1>9. ASSUME NEW d \in Decks, Delete(d)
      PROVE  RenamesInv'
  <2>1. /\ DeckFree(d) /\ decks' = [decks EXCEPT ![d] = NoDeck] /\ ScriptAfter({})
        /\ UNCHANGED <<catalog, references, flags, labels>>
    BY <1>9 DEF Delete
  <2>2. \A e \in Decks : decks'[e] = decks[e] \/ (e \notin script.touched /\ decks'[e] = NoDeck)
    <3>1. decks \in [Decks -> Configuration \cup {NoDeck}]
      BY DEF ArchiveInv, DecksInv, SoundDecks
    <3>2. QED BY <2>1, <3>1 DEF DeckFree
  <2>3. QED BY <2>1, <2>2, SiteStep
<1>10. QED
  <2>1. ASSUME NEW i, NEW f, ImportCheck(i, f)
        PROVE  RenamesInv'
    BY <1>1, <2>1 DEF ImportCheck
  <2>2. ASSUME NEW d, OpenDeck(d)
        PROVE  RenamesInv'
    BY <1>1, <2>2 DEF OpenDeck
  <2>3. ASSUME NEW edited, SaveCheck(edited)
        PROVE  RenamesInv'
    BY <1>1, <2>3 DEF SaveCheck
  <2>4. CASE Export
    BY <1>1, <2>4 DEF Export
  <2>5. QED
    BY <1>2, <1>3, <1>4, <1>6, <1>7, <1>8, <1>9, <2>1, <2>2, <2>3, <2>4 DEF Route

\* A script that is not at work has nothing to keep.
LEMMA NothingToKeep ==
    ASSUME script'.at \notin {"remap", "controlled"}, script'.touched = {}, script'.annotations = FALSE
    PROVE  RenamesInv'
<1>1. OrphansInv' /\ QuietInv'
  BY DEF OrphansInv, QuietInv
<1>2. NotesInv' /\ TouchedInv'
  BY DEF NotesInv, TouchedInv
<1>3. QED BY <1>1, <1>2 DEF RenamesInv

LEMMA EndsRenames ==
    ASSUME script' = Idle \/ script' = [Idle EXCEPT !.at = "failed"]
    PROVE  RenamesInv'
BY IdleScript, NothingToKeep

LEMMA StartRenames ==
    ASSUME ArchiveInv, NEW source, NEW apply, NEW only, PruneStart(source, apply, only)
    PROVE  RenamesInv'
<1> DEFINE todo == Remappable(source) \cap MentionedIn(Committed)
           doomed == Remappable(source) \cup IF only THEN {} ELSE Deletable(source)
<1>1. /\ UNCHANGED catalog
      /\ script' = [Idle EXCEPT !.at = "remap", !.answer = source, !.apply = apply, !.work = Committed,
                                !.todo = todo, !.doomed = doomed]
  BY DEF databaseVars, PruneStart
<1>2. todo \subseteq Remappable(source) /\ todo \subseteq doomed
  OBVIOUS
<1>3. doomed \subseteq catalog \ source
  BY DEF Remappable, Deletable, Orphans
<1> HIDE DEF todo, doomed
<1>4. script' = [at |-> "remap", answer |-> source, todo |-> todo, doomed |-> doomed, touched |-> {},
                 annotations |-> FALSE, work |-> Committed, apply |-> apply, moved |-> {}, late |-> {}]
  BY <1>1 DEF Idle
<1>5. /\ script'.at = "remap" /\ script'.answer = source /\ script'.todo = todo /\ script'.doomed = doomed
      /\ script'.touched = {} /\ script'.annotations = FALSE /\ script'.moved = {}
  BY <1>4
<1>6. OrphansInv'
  <2>1. \A c \in todo : LET t == CHOOSE t \in Targets(source, c) : TRUE IN t \in catalog \cap source
    BY <1>2, ReportedIsAnOrphan DEF ArchiveInv
  <2>2. \A c : Named(script, c)' = CHOOSE t \in Targets(source, c) : TRUE
    BY <1>1, <1>5 DEF Named, Targets
  <2>3. \A c \in todo : Named(script, c)' \in catalog' \cap source
    BY <1>1, <2>1, <2>2
  <2>4. script'.doomed \subseteq catalog' \ script'.answer
    BY <1>1, <1>3, <1>5
  <2>5. script'.todo \cup script'.moved \subseteq script'.doomed /\ script'.todo \cap script'.moved = {}
    BY <1>2, <1>5
  <2>6. \A c \in script'.todo \cup script'.moved : Named(script, c)' \in catalog' \cap script'.answer
    BY <1>5, <2>3
  <2>7. QED BY <2>4, <2>5, <2>6 DEF OrphansInv
<1>7. NotesInv' /\ TouchedInv'
  BY <1>5 DEF NotesInv, TouchedInv
<1>8. QuietInv'
  BY <1>5 DEF QuietInv
<1>9. QED BY <1>6, <1>7, <1>8 DEF RenamesInv

LEMMA ControlRenames ==
    ASSUME ArchiveInv, RenamesInv, PruneControl
    PROVE  RenamesInv'
<1>1. /\ UNCHANGED databaseVars /\ script.at = "remap"
      /\ script' = IF script.doomed \cap MentionedIn(Seen) = {} THEN [script EXCEPT !.at = "controlled"]
                   ELSE [Idle EXCEPT !.at = "failed"]
  BY DEF PruneControl
<1>2. CASE script.doomed \cap MentionedIn(Seen) # {}
  BY <1>1, <1>2, EndsRenames
<1>3. CASE script.doomed \cap MentionedIn(Seen) = {}
  <2>1. ScriptFields(script)
    BY DEF ArchiveInv, ScriptInv
  <2>2. script' = [at |-> "controlled", answer |-> script.answer, todo |-> script.todo,
                   doomed |-> script.doomed, touched |-> script.touched,
                   annotations |-> script.annotations, work |-> script.work,
                   apply |-> script.apply, moved |-> script.moved, late |-> script.late]
    BY <1>1, <1>3, <2>1 DEF ScriptFields
  <2>3. /\ script'.at = "controlled" /\ script'.touched = script.touched /\ script'.answer = script.answer
        /\ script'.todo = script.todo /\ script'.doomed = script.doomed
        /\ script'.annotations = script.annotations /\ script'.work = script.work /\ script'.moved = script.moved
    BY <2>2
  <2>4. UNCHANGED <<catalog, decks, flags, labels, references>>
    BY <1>1 DEF databaseVars
  <2>5. \A c : Named(script, c)' = Named(script, c)
    BY <2>3, <2>4 DEF Named, Targets
  <2>6. OrphansInv'
    BY <1>1, <2>3, <2>4, <2>5 DEF OrphansInv, RenamesInv
  <2>7. NotesInv'
    <3>1. Renaming(script, script.moved)' = Renaming(script, script.moved)
      BY <2>3, <2>5 DEF Renaming
    <3>2. QED BY <2>3, <2>4, <3>1 DEF NotesInv, RenamesInv
  <2>8. TouchedInv'
    <3>1. \A u : Renaming(script, u)' = Renaming(script, u)
      BY <2>5 DEF Renaming
    <3>2. \A d \in script.touched :
              decks[d] # NoDeck /\ \E u \in SUBSET script.moved : Reads(Renaming(script, u), decks[d], script.work.decks[d])
      BY DEF TouchedInv, RenamesInv
    <3>3. QED BY <2>3, <2>4, <3>1, <3>2 DEF TouchedInv
  <2>9. QuietInv'
    <3>1. Seen' = Seen
      BY <2>3, <2>4 DEF Seen
    <3>2. \A d \in Decks : Seen.decks[d] # NoDeck => Mentions(Seen.decks[d]) \cap script.doomed = {}
      <4> SUFFICES ASSUME NEW d \in Decks, Seen.decks[d] # NoDeck
                   PROVE  Mentions(Seen.decks[d]) \subseteq MentionedIn(Seen)
        BY <1>3
      <4> DEFINE F(e) == Mentions(Seen.decks[e])
                 S == {e \in Decks : Seen.decks[e] # NoDeck}
                 T == UNION {F(e) : e \in S}
      <4>1. T \subseteq MentionedIn(Seen)
        BY DEF MentionedIn
      <4>2. d \in S
        OBVIOUS
      <4>3. F(d) \subseteq T
        <5> HIDE DEF F, S
        <5>1. QED BY <4>2
      <4>4. QED BY <4>1, <4>3
    <3>3. script.doomed \subseteq Cards
      BY <1>1 DEF OrphansInv, RenamesInv, ArchiveInv
    <3>4. \A c \in script.doomed : /\ Seen.flags[c] = NoChoice /\ Seen.references[c] = NoReference
                                   /\ \A x \in Seen.labels : x[1] # c
      <4> SUFFICES ASSUME NEW c \in script.doomed
                   PROVE  /\ Seen.flags[c] = NoChoice /\ Seen.references[c] = NoReference
                          /\ \A x \in Seen.labels : x[1] # c
        OBVIOUS
      <4>1. c \notin MentionedIn(Seen) /\ c \in Cards
        BY <1>3, <3>3
      <4>2. /\ c \notin {k \in Cards : Seen.flags[k] # NoChoice} /\ c \notin {x[1] : x \in Seen.labels}
            /\ c \notin {k \in Cards : Seen.references[k] # NoReference}
        BY <4>1 DEF MentionedIn
      <4>3. QED BY <4>1, <4>2
    <3>5. QED BY <2>3, <3>1, <3>2, <3>4 DEF QuietInv
  <2>10. QED BY <2>6, <2>7, <2>8, <2>9 DEF RenamesInv
<1>4. QED BY <1>2, <1>3

\* What two rows say is in the row that merges them, unless they contradict each other.
LEMMA MergedCovers ==
    ASSUME NEW s \in Annotation, NEW d \in Annotation, ~Contradict(s, d)
    PROVE  Covers(s, Merged(s, d)) /\ Covers(d, Merged(s, d))
<1> DEFINE h == IF TRUE \in {d.hopt, s.hopt} THEN TRUE ELSE Coalesce(d.hopt, s.hopt)
           m == Merged(s, d)
<1>1. /\ m.hopt = h /\ m.availability = Coalesce(d.availability, s.availability)
      /\ m.group = Coalesce(d.group, s.group)
  BY DEF Merged
<1>2. ASSUME d.hopt = TRUE \/ s.hopt = TRUE
      PROVE  h = TRUE
  BY <1>2
<1> HIDE DEF h, m
<1>3. /\ s.availability # Null => m.availability = s.availability
      /\ d.availability # Null => m.availability = d.availability
      /\ s.group # Null => m.group = s.group
      /\ d.group # Null => m.group = d.group
  BY <1>1 DEF Coalesce, Contradict
<1>4. s.hopt = TRUE => m.hopt = TRUE
  BY <1>1, <1>2
<1>5. d.hopt = TRUE => m.hopt = TRUE
  BY <1>1, <1>2
<1>6. QED BY <1>3, <1>4, <1>5 DEF Covers, m

LEMMA CoversOn ==
    ASSUME NEW a, NEW b, NEW c, Covers(a, b), Covers(b, c)
    PROVE  Covers(a, c)
BY DEF Covers

LEMMA CoversItself ==
    ASSUME NEW a
    PROVE  Covers(a, a) /\ Covers(NoChoice, a)
BY PruneAssumption DEF Covers, NoChoice

LEMMA OneMoreName ==
    ASSUME NEW s, NEW u \in SUBSET Cards, NEW c \in Cards, c \notin u,
           Named(s, c) \in Cards, \A k \in u : Named(s, k) \in Cards /\ Named(s, k) # c
    PROVE  Follows(Renaming(s, u), c, Named(s, c), Renaming(s, u \cup {c}))
<1> DEFINE map == Renaming(s, u)
           next == Renaming(s, u \cup {c})
<1>1. /\ DOMAIN map = u /\ \A k \in u : map[k] = Named(s, k)
      /\ DOMAIN next = u \cup {c} /\ \A k \in u \cup {c} : next[k] = Named(s, k)
  BY DEF Renaming
<1> HIDE DEF map, next
<1>2. \A k \in Cards : NewName(map, k) \in Cards /\ NewName(next, k) = Renamed(c, Named(s, c), NewName(map, k))
  <2> TAKE k \in Cards
  <2>1. CASE k \in u
    BY <1>1, <2>1 DEF NewName, Renamed
  <2>2. CASE k = c
    BY <1>1, <2>2 DEF NewName, Renamed
  <2>3. CASE k \notin u /\ k # c
    BY <1>1, <2>3 DEF NewName, Renamed
  <2>4. QED BY <2>1, <2>2, <2>3
<1>3. QED BY <1>2 DEF Follows, map, next

LEMMA RemapRenames ==
    ASSUME ArchiveInv, RenamesInv, NEW c \in Cards, PruneRemap(c)
    PROVE  RenamesInv'
<1> DEFINE n == Named(script, c)
           hit == {d \in Decks : Seen.decks[d] # NoDeck /\ c \in Mentions(Seen.decks[d])}
           after == Remap(c, n, Seen)
           changed == <<after.flags, after.labels, after.references>>
                          # <<Seen.flags, Seen.labels, Seen.references>>
<1>1. /\ UNCHANGED databaseVars /\ script.at = "remap" /\ c \in script.todo
      /\ script' = IF Refuses(c, n, Seen) THEN [Idle EXCEPT !.at = "failed"]
                   ELSE [script EXCEPT
                         !.todo = @ \ {c}, !.moved = @ \cup {c}, !.work = after, !.touched = @ \cup hit,
                         !.annotations = @ \/ changed]
  BY DEF PruneRemap, Named
<1>2. CASE Refuses(c, n, Seen)
  BY <1>1, <1>2, EndsRenames
<1>3. CASE ~Refuses(c, n, Seen)
  <2>1. /\ after.flags = RemapFlags(c, n, Seen.flags)
        /\ after.decks = [d \in Decks |-> IF Seen.decks[d] = NoDeck THEN NoDeck ELSE RemapDeck(c, n, Seen.decks[d])]
    BY DEF Remap
  <2>2. \A d \in hit : d \in Decks /\ Seen.decks[d] # NoDeck
    OBVIOUS
  <2>3. ~changed => after.flags = Seen.flags
    OBVIOUS
  <2>4. /\ script.doomed \subseteq catalog \ script.answer
        /\ script.todo \cup script.moved \subseteq script.doomed
        /\ script.todo \cap script.moved = {}
        /\ \A k \in script.todo \cup script.moved : Named(script, k) \in catalog \cap script.answer
    BY <1>1 DEF OrphansInv, RenamesInv
  <2>5. catalog \subseteq Cards
    BY DEF ArchiveInv
  <2>6. /\ n \in Cards /\ n # c /\ c \notin script.moved /\ c \notin script.answer /\ n \in script.answer
        /\ \A k \in script.moved : k \in Cards /\ k \notin script.answer /\ Named(script, k) \in Cards
                                   /\ Named(script, k) \in script.answer /\ Named(script, k) # c
    BY <1>1, <2>4, <2>5
  <2>7. \A u \in SUBSET script.moved : Follows(Renaming(script, u), c, n, Renaming(script, u \cup {c}))
    <3> TAKE u \in SUBSET script.moved
    <3>1. u \in SUBSET Cards /\ c \notin u /\ \A k \in u : Named(script, k) \in Cards /\ Named(script, k) # c
      BY <2>6
    <3>2. QED BY <2>6, <3>1, OneMoreName
  <2>8. ~Contradict(Seen.flags[c], Seen.flags[n])
    BY <1>3 DEF Refuses
  <2> HIDE DEF n, hit, after, changed
  <2>9. ScriptFields(script) /\ script.annotations \in BOOLEAN
    BY DEF ArchiveInv, ScriptInv
  <2>10. script' = [at |-> script.at, answer |-> script.answer, todo |-> script.todo \ {c},
                    doomed |-> script.doomed, touched |-> script.touched \cup hit,
                    annotations |-> script.annotations \/ changed, work |-> after,
                    apply |-> script.apply, moved |-> script.moved \cup {c}, late |-> script.late]
    BY <1>1, <1>3, <2>9 DEF ScriptFields
  <2>11. /\ script'.at = "remap" /\ script'.answer = script.answer /\ script'.todo = script.todo \ {c}
         /\ script'.doomed = script.doomed /\ script'.touched = script.touched \cup hit
         /\ script'.work = after /\ script'.moved = script.moved \cup {c}
    BY <1>1, <2>10
  <2>12. script'.annotations => script.annotations \/ changed
    <3> DEFINE b == script.annotations \/ changed
    <3>1. script'.annotations = b
      BY <2>10
    <3>2. QED BY <3>1
  <2>13. UNCHANGED <<catalog, decks, flags>>
    BY <1>1 DEF databaseVars
  <2>14. \A k : Named(script, k)' = Named(script, k)
    BY <2>11, <2>13 DEF Named, Targets
  <2>15. \A u : Renaming(script, u)' = Renaming(script, u)
    BY <2>14 DEF Renaming
  <2>16. OrphansInv'
    <3>1. script'.doomed \subseteq catalog' \ script'.answer
      BY <2>4, <2>11, <2>13
    <3>2. script'.todo \cup script'.moved \subseteq script'.doomed /\ script'.todo \cap script'.moved = {}
      BY <1>1, <2>4, <2>11
    <3>3. \A k \in script'.todo \cup script'.moved : Named(script, k)' \in catalog' \cap script'.answer
      BY <1>1, <2>4, <2>11, <2>13, <2>14
    <3>4. QED BY <3>1, <3>2, <3>3 DEF OrphansInv
  <2>17. QuietInv'
    BY <2>11 DEF QuietInv
  <2>18. TouchedInv'
    <3>1. ASSUME NEW d \in script.touched
          PROVE  /\ decks[d] # NoDeck
                 /\ \E u \in SUBSET (script.moved \cup {c}) : Reads(Renaming(script, u), decks[d], after.decks[d])
      <4>1. PICK u \in SUBSET script.moved : Reads(Renaming(script, u), decks[d], script.work.decks[d])
        BY DEF TouchedInv, RenamesInv
      <4>2. decks[d] # NoDeck /\ d \in Decks
        BY DEF TouchedInv, RenamesInv, ArchiveInv, DecksInv
      <4>3. Seen.decks[d] = script.work.decks[d]
        BY <4>2 DEF Seen
      <4>4. Sound(decks[d])
        BY <4>2 DEF ArchiveInv, DecksInv, SoundDecks
      <4>5. Seen.decks[d] # NoDeck /\ Sound(Seen.decks[d])
        BY <4>2, SeenIsOverlaid DEF ArchiveInv, DecksInv, SoundDecks
      <4>6. after.decks[d] = RemapDeck(c, n, Seen.decks[d])
        BY <2>1, <4>2, <4>5
      <4>7. Follows(Renaming(script, u), c, n, Renaming(script, u \cup {c}))
        BY <2>7
      <4> DEFINE map == Renaming(script, u)
                 next == Renaming(script, u \cup {c})
                 before == decks[d]
                 mid == Seen.decks[d]
      <4>8. Follows(map, c, n, next) /\ Sound(before) /\ Sound(mid) /\ Reads(map, before, mid)
        BY <4>1, <4>3, <4>4, <4>5, <4>7
      <4> HIDE DEF map, next, before, mid
      <4>9. Reads(next, before, RemapDeck(c, n, mid))
        BY <2>6, <4>8, ReadsCompose
      <4>10. u \cup {c} \in SUBSET (script.moved \cup {c})
        OBVIOUS
      <4>11. Reads(Renaming(script, u \cup {c}), decks[d], after.decks[d])
        BY <4>6, <4>9 DEF next, before, mid
      <4>12. QED BY <4>2, <4>10, <4>11
    <3>2. ASSUME NEW d \in hit, d \notin script.touched
          PROVE  /\ decks[d] # NoDeck
                 /\ \E u \in SUBSET (script.moved \cup {c}) : Reads(Renaming(script, u), decks[d], after.decks[d])
      <4>1. d \in Decks /\ Seen.decks[d] # NoDeck
        BY <2>2
      <4>2. Seen.decks[d] = decks[d] /\ decks[d] # NoDeck
        BY <3>2, <4>1 DEF Seen
      <4>3. Sound(decks[d])
        BY <4>1, <4>2 DEF ArchiveInv, DecksInv, SoundDecks
      <4>4. after.decks[d] = RemapDeck(c, n, decks[d])
        BY <2>1, <4>1, <4>2
      <4> DEFINE map == Renaming(script, {})
                 next == Renaming(script, {} \cup {c})
                 before == decks[d]
      <4>5. \A k \in Cards : NewName(map, k) = k
        BY DEF NewName, Renaming
      <4>6. Follows(map, c, n, next) /\ Sound(before)
        BY <2>7, <4>3
      <4> HIDE DEF map, next, before
      <4>7. Reads(map, before, before)
        BY <4>5, <4>6, ReadsItself
      <4>8. Reads(next, before, RemapDeck(c, n, before))
        BY <2>6, <4>6, <4>7, ReadsCompose
      <4>9. {} \cup {c} \in SUBSET (script.moved \cup {c})
        OBVIOUS
      <4>10. Reads(Renaming(script, {} \cup {c}), decks[d], after.decks[d])
        BY <4>4, <4>8 DEF next, before
      <4>11. QED BY <4>2, <4>9, <4>10
    <3>3. \A d \in script'.touched :
              /\ decks'[d] # NoDeck
              /\ \E u \in SUBSET script'.moved : Reads(Renaming(script, u), decks'[d], script'.work.decks[d])
      BY <2>11, <2>13, <3>1, <3>2
    <3>4. QED BY <2>15, <3>3 DEF TouchedInv
  <2>19. NotesInv'
    <3> SUFFICES ASSUME script'.annotations, NEW k \in Cards
                 PROVE  \/ Covers(flags[k], after.flags[NewName(Renaming(script, script.moved \cup {c}), k)])
                        \/ k \in script.moved \cup {c} /\ after.flags[k] # NoChoice
      <4>1. Renaming(script, script.moved)' = Renaming(script, script.moved \cup {c})
        BY <2>11, <2>14 DEF Renaming
      <4>2. QED BY <2>11, <2>13, <4>1 DEF NotesInv
    <3>1. /\ flags \in [Cards -> Annotation] /\ Seen.flags \in [Cards -> Annotation]
      BY SeenIsOverlaid DEF ArchiveInv, LibraryInv, Consistent, Library
    <3>2. /\ after.flags[n] = Merged(Seen.flags[c], Seen.flags[n])
          /\ \A m \in Cards \ {c, n} : after.flags[m] = Seen.flags[m]
      BY <2>1, <2>6, <3>1 DEF RemapFlags
    <3>3. \A m \in Cards : Covers(Seen.flags[m], after.flags[Renamed(c, n, m)])
      <4> TAKE m \in Cards
      <4> DEFINE s == Seen.flags[c]
                 d == Seen.flags[n]
      <4>1. s \in Annotation /\ d \in Annotation /\ ~Contradict(s, d)
        BY <2>6, <2>8, <3>1
      <4> HIDE DEF s, d
      <4>2. Covers(s, Merged(s, d)) /\ Covers(d, Merged(s, d))
        BY <4>1, MergedCovers
      <4>3. CASE m = c
        BY <3>2, <4>2, <4>3 DEF Renamed, s, d
      <4>4. CASE m = n
        BY <2>6, <3>2, <4>2, <4>4 DEF Renamed, s, d
      <4>5. CASE m # c /\ m # n
        BY <3>2, <4>5, CoversItself DEF Renamed
      <4>6. QED BY <4>3, <4>4, <4>5
    <3>4. Follows(Renaming(script, script.moved), c, n, Renaming(script, script.moved \cup {c}))
      BY <2>7
    <3> DEFINE m == NewName(Renaming(script, script.moved), k)
               m2 == NewName(Renaming(script, script.moved \cup {c}), k)
    <3>5. m \in Cards /\ m2 = Renamed(c, n, m)
      BY <3>4 DEF Follows
    <3>6. k \notin script.moved => m = k
      BY DEF NewName, Renaming
    <3> HIDE DEF m, m2
    <3>7. k \in script.moved => k # c /\ k # n
      BY <2>6
    <3>8. ASSUME Covers(flags[k], Seen.flags[m])
          PROVE  Covers(flags[k], after.flags[m2])
      BY <3>3, <3>5, <3>8, CoversOn
    <3>9. ASSUME k \in script.moved, Seen.flags[k] # NoChoice
          PROVE  k \in script.moved \cup {c} /\ after.flags[k] # NoChoice
      BY <3>2, <3>7, <3>9
    <3>10. CASE script.annotations
      <4>1. Seen.flags = script.work.flags
        BY <3>10 DEF Seen
      <4>2. \/ Covers(flags[k], script.work.flags[m])
            \/ k \in script.moved /\ script.work.flags[k] # NoChoice
        BY <3>10 DEF NotesInv, RenamesInv, m
      <4>3. QED BY <3>8, <3>9, <4>1, <4>2 DEF m2
    <3>11. CASE ~script.annotations
      <4>1. Seen.flags = flags
        BY <3>11 DEF Seen
      <4>2. CASE k \notin script.moved
        BY <3>6, <3>8, <4>1, <4>2, CoversItself DEF m2
      <4>3. CASE k \in script.moved /\ flags[k] # NoChoice
        BY <3>9, <4>1, <4>3
      <4>4. CASE k \in script.moved /\ flags[k] = NoChoice
        BY <4>4, CoversItself
      <4>5. QED BY <4>2, <4>3, <4>4
    <3>12. QED BY <3>10, <3>11
  <2>20. QED BY <2>16, <2>17, <2>18, <2>19 DEF RenamesInv
<1>4. QED BY <1>2, <1>3

LEMMA RenamesStart == ArchiveInit => RenamesInv
<1> SUFFICES ASSUME ArchiveInit PROVE RenamesInv
  OBVIOUS
<1>1. script.touched = {} /\ script.annotations = FALSE /\ script.at = "idle"
  BY IdleScript DEF ArchiveInit, PruneInit
<1>2. OrphansInv /\ QuietInv
  BY <1>1 DEF OrphansInv, QuietInv
<1>3. NotesInv /\ TouchedInv
  BY <1>1 DEF NotesInv, TouchedInv
<1>4. QED BY <1>2, <1>3 DEF RenamesInv

LEMMA ScriptRenames ==
    ASSUME ArchiveInv, RenamesInv, Script
    PROVE  RenamesInv'
<1>1. ASSUME NEW source \in Answers, NEW apply \in BOOLEAN, NEW only \in BOOLEAN, PruneStart(source, apply, only)
      PROVE  RenamesInv'
  BY <1>1, StartRenames
<1>2. ASSUME NEW c \in Cards, PruneRemap(c)
      PROVE  RenamesInv'
  BY <1>2, RemapRenames
<1>3. CASE PruneControl BY <1>3, ControlRenames
<1>4. CASE PruneCommit BY <1>4, EndsRenames DEF PruneCommit
<1>5. CASE PruneRollback BY <1>5, EndsRenames DEF PruneRollback
<1>6. CASE PruneAbort BY <1>6, EndsRenames DEF PruneAbort
<1>7. QED
  BY <1>1, <1>2, <1>3, <1>4, <1>5, <1>6 DEF Script, PruneStep

LEMMA RenamesStutter ==
    ASSUME RenamesInv, UNCHANGED archiveVars
    PROVE  RenamesInv'
<1>1. UNCHANGED <<catalog, decks, flags, labels, references, script>>
  BY DEF archiveVars, databaseVars, scriptVars, routeVars
<1>2. \A c : Named(script, c)' = Named(script, c)
  BY <1>1 DEF Named, Targets
<1>3. \A u : Renaming(script, u)' = Renaming(script, u)
  BY <1>2 DEF Renaming
<1>4. OrphansInv'
  BY <1>1, <1>2 DEF OrphansInv, RenamesInv
<1>5. NotesInv'
  <2>1. Renaming(script, script.moved)' = Renaming(script, script.moved)
    BY <1>1, <1>2 DEF Renaming
  <2>2. QED BY <1>1, <2>1 DEF NotesInv, RenamesInv
<1>6. TouchedInv'
  <2>1. \A d \in script.touched :
            decks[d] # NoDeck /\ \E u \in SUBSET script.moved : Reads(Renaming(script, u), decks[d], script.work.decks[d])
    BY DEF TouchedInv, RenamesInv
  <2>2. QED BY <1>1, <1>3, <2>1 DEF TouchedInv
<1>7. QuietInv'
  <2>1. Seen' = Seen
    BY <1>1 DEF Seen
  <2>2. QED BY <1>1, <2>1 DEF QuietInv, RenamesInv
<1>8. QED BY <1>4, <1>5, <1>6, <1>7 DEF RenamesInv

\* At the commit, every deck touched reads as it did under all that was reported.
LEMMA CommitRenames ==
    ASSUME ArchiveInv, RenamesInv, PruneCommit
    PROVE  Renames /\ LeavesNoReference
<1>1. /\ script.at = "controlled" /\ catalog' = catalog \ script.doomed
      /\ decks' = Seen.decks /\ flags' = Seen.flags /\ labels' = Seen.labels /\ references' = Seen.references
  BY DEF PruneCommit, Catalogued
<1>2. /\ script.doomed \subseteq catalog \ script.answer
      /\ script.moved \subseteq script.doomed
      /\ \A k \in script.moved : Named(script, k) \in catalog \cap script.answer
  BY <1>1 DEF OrphansInv, RenamesInv
<1>3. /\ \A d \in Decks :
             (d \in script.touched \/ d \notin script.late) /\ Seen.decks[d] # NoDeck =>
                 Mentions(Seen.decks[d]) \cap script.doomed = {}
      /\ script.annotations \/ "library" \notin script.late =>
             \A c \in script.doomed :
                 /\ Seen.flags[c] = NoChoice /\ Seen.references[c] = NoReference
                 /\ \A x \in Seen.labels : x[1] # c
  BY <1>1 DEF QuietInv, RenamesInv
<1>4. catalog \ catalog' \subseteq script.doomed
  BY <1>1
<1>5. LeavesNoReference
  BY <1>1, <1>3, <1>4 DEF LeavesNoReference
<1>6. [k \in script.moved |-> Target(k)] = Renaming(script, script.moved)
  BY DEF Target, Renaming, Named
<1>7. \A d \in script.touched : Reads(Renaming(script, script.moved), decks[d], decks'[d])
  <2> TAKE d \in script.touched
  <2>1. PICK u \in SUBSET script.moved : Reads(Renaming(script, u), decks[d], script.work.decks[d])
    BY DEF TouchedInv, RenamesInv
  <2>2. decks[d] # NoDeck /\ d \in Decks
    BY DEF TouchedInv, RenamesInv, ArchiveInv, DecksInv
  <2>3. Seen.decks[d] = script.work.decks[d]
    BY <2>2 DEF Seen
  <2>4. Sound(decks[d])
    BY <2>2 DEF ArchiveInv, DecksInv, SoundDecks
  <2>5. Seen.decks[d] # NoDeck /\ Sound(Seen.decks[d])
    BY <2>2, SeenIsOverlaid DEF ArchiveInv, DecksInv, SoundDecks
  <2> DEFINE map == Renaming(script, u)
             next == Renaming(script, script.moved)
             before == decks[d]
             after == Seen.decks[d]
             X == script.moved \ u
  <2>6. /\ DOMAIN map = u /\ \A k \in u : map[k] = Named(script, k)
        /\ DOMAIN next = script.moved /\ \A k \in script.moved : next[k] = Named(script, k)
    BY DEF Renaming
  <2>7. Mentions(after) \cap X = {}
    BY <1>2, <1>3, <2>2, <2>5
  <2>8. Sound(before) /\ Sound(after) /\ Reads(map, before, after)
    BY <2>1, <2>3, <2>4, <2>5
  <2> HIDE DEF map, next, before, after
  <2>9. \A c \in Cards \ X : NewName(next, c) = NewName(map, c)
    BY <2>6 DEF NewName
  <2>10. \A c \in X : NewName(map, c) = c
    BY <2>6 DEF NewName
  <2>11. \A c \in X, k \in Cards : NewName(map, k) = c => k = c
    BY <1>2, <2>6 DEF NewName
  <2> HIDE DEF X
  <2>12. Reads(next, before, after)
    BY <2>7, <2>8, <2>9, <2>10, <2>11, ReadsOn
  <2>13. QED BY <1>1, <2>12 DEF next, before, after
<1>8. script.annotations =>
          \A c \in Cards : Covers(flags[c], flags'[NewName(Renaming(script, script.moved), c)])
  <2> SUFFICES ASSUME script.annotations, NEW c \in Cards
               PROVE  Covers(flags[c], flags'[NewName(Renaming(script, script.moved), c)])
    OBVIOUS
  <2>1. flags' = script.work.flags /\ Seen.flags = script.work.flags
    BY <1>1 DEF Seen
  <2>2. \/ Covers(flags[c], script.work.flags[NewName(Renaming(script, script.moved), c)])
        \/ c \in script.moved /\ script.work.flags[c] # NoChoice
    BY DEF NotesInv, RenamesInv
  <2>3. QED BY <1>2, <1>3, <2>1, <2>2
<1>9. Renames
  BY <1>6, <1>7, <1>8 DEF Renames, Covers
<1>10. QED BY <1>5, <1>9

\* The script renames: when it deletes passcodes from the catalogue, each deck it has touched
\* reads as it did with the cards under their new passcode, no annotation is lost, and nothing
\* written before its control names a card it deletes - however its reports and what the site
\* commits meanwhile interleave.
THEOREM RenamesOnlyHolds == ArchiveSpec => RenamesOnly
<1>1. ArchiveInit => ArchiveInv /\ RenamesInv
  BY ArchiveStart, RenamesStart
<1>2. ASSUME ArchiveInv, RenamesInv, [ArchiveNext]_archiveVars
      PROVE  ArchiveInv' /\ RenamesInv'
  <2>1. CASE Route BY <1>2, <2>1, RouteInv, RouteRenames
  <2>2. CASE Script BY <1>2, <2>2, ScriptStepInv, ScriptRenames
  <2>3. CASE UNCHANGED archiveVars BY <1>2, <2>3, ArchiveStutter, RenamesStutter
  <2>4. QED BY <1>2, <2>1, <2>2, <2>3 DEF ArchiveNext
<1>3. ASSUME ArchiveInv, RenamesInv, [ArchiveNext]_archiveVars, catalog' # catalog
      PROVE  Renames /\ LeavesNoReference
  <2>1. Route => catalog' = catalog
    BY DEF Route, ImportCheck, ImportWrite, Annotate, DeleteCategory, Create, OpenDeck, SaveCheck, SaveWrite,
           Duplicate, Delete, Export, databaseVars
  <2>2. Script => PruneCommit
    BY <1>3 DEF Script, PruneStep, PruneStart, PruneRemap, PruneControl, PruneRollback, PruneAbort, databaseVars
  <2>3. UNCHANGED archiveVars => catalog' = catalog
    BY DEF archiveVars, databaseVars
  <2>4. PruneCommit
    BY <1>3, <2>1, <2>2, <2>3 DEF ArchiveNext
  <2>5. QED BY <1>3, <2>4, CommitRenames
<1>4. QED BY <1>1, <1>2, <1>3, PTL DEF ArchiveSpec, RenamesOnly

(***************************************************************************)
(* Saving a deck                                                           *)
(***************************************************************************)

(***************************************************************************)
(* The inductive invariant                                                 *)
(***************************************************************************)

\* A save under way was asked by this opening or by an earlier one.  While the
\* opening is still the one that asked, nothing has replaced the content: only
\* edits, which are counted, tell it from what was sent.  A save accepted is in the
\* server's history, as the revision after the one it was expected at.
SaveInOrder(p) ==
    /\ saving[p].opening <= opening[p]
    /\ SameOpening(p) =>
         /\ loaded[p] /\ phase[p] = "over" /\ ~saving[p].replaced
         /\ saving[p].edits <= edits[p]
         /\ Unchanged(p) => content[p] = saving[p].request.content
    /\ saving[p].stage \in {"accepted", "clearing"} =>
         /\ NextRevision(p) <= Stored
         /\ history[NextRevision(p)] = saving[p].request.content

\* What a page holds, with respect to what the server keeps.
PageInOrder(p) ==
    /\ revision[p] <= Stored /\ answer[p] <= Stored
    /\ loaded[p] => revision[p] = origin[p]
    /\ loaded[p] /\ ~dirty[p] => content[p] = history[revision[p]]
    /\ loaded[p] /\ dirty[p] /\ ~uncaptured[p] => Recoverable(p)
    /\ saving[p] # NoSave => SaveInOrder(p)

\* A request expects the revision that went into its content.
RequestsAreSeen == \A r \in requests : r.origin = r.expected

IInv ==
    /\ TypeOK /\ NoLostUpdate /\ RequestsAreSeen
    /\ \A p \in Pages : PageInOrder(p)

-----------------------------------------------------------------------------
(***************************************************************************)
(* Types                                                                   *)
(***************************************************************************)

ServerTypes ==
    /\ history \in Seq(Contents) /\ Stored \in Revisions
    /\ written \in Seq(0..MaxRevision) /\ Len(written) = Stored
    /\ requests \subseteq Requests

PageTypes ==
    /\ draft \in [Pages -> Drafts] /\ offered \in [Pages -> Drafts]
    /\ opening \in [Pages -> Nat]
    /\ phase \in [Pages -> {"none", "asked", "read", "draft", "over"}]
    /\ answer \in [Pages -> Revisions]
    /\ loaded \in [Pages -> BOOLEAN] /\ dirty \in [Pages -> BOOLEAN]
    /\ content \in [Pages -> Contents]
    /\ revision \in [Pages -> Revisions] /\ origin \in [Pages -> Revisions]
    /\ edits \in [Pages -> Nat]
    /\ uncaptured \in [Pages -> BOOLEAN]

SaveTypes == saving \in [Pages -> Saves \cup {NoSave}]

LEMMA TypesSplit == TypeOK <=> ServerTypes /\ PageTypes /\ SaveTypes
  BY DEF TypeOK, ServerTypes, PageTypes, SaveTypes

LEMMA TypesSplitNext == TypeOK' <=> ServerTypes' /\ PageTypes' /\ SaveTypes'
  BY DEF TypeOK, ServerTypes, PageTypes, SaveTypes

LEMMA RevisionFacts == 1 \in Revisions /\ \A r \in Revisions : r \in Nat
  BY DeckSaveAssumption DEF Revisions

\* Every revision kept is a configuration.
LEMMA HistoryFacts ==
    ASSUME ServerTypes
    PROVE  1 \in 1..Stored /\ \A r \in 1..Stored : history[r] \in Contents
  <1>1. Stored \in Nat /\ Stored >= 1
    BY DeckSaveAssumption DEF ServerTypes, Revisions
  <1>2. \A r \in 1..Stored : history[r] \in Contents
    BY ElementOfSeq DEF ServerTypes, Stored
  <1> QED
    BY <1>1, <1>2

(***************************************************************************)
(* The server                                                              *)
(***************************************************************************)

\* A write adds one revision and changes none.
LEMMA WriteAppends ==
    ASSUME ServerTypes, NEW c \in Contents, NEW from \in 0..MaxRevision, Write(c, from)
    PROVE  /\ Stored' = Stored + 1 /\ Stored' \in Revisions
           /\ history' \in Seq(Contents) /\ written' \in Seq(0..MaxRevision)
           /\ Len(written') = Stored'
           /\ history'[Stored + 1] = c /\ written'[Stored + 1] = from
           /\ \A r \in 1..Stored : history'[r] = history[r] /\ written'[r] = written[r]
  <1>1. history' = Append(history, c) /\ written' = Append(written, from) /\ Stored < MaxRevision
    BY DEF Write
  <1>2. history \in Seq(Contents) /\ written \in Seq(0..MaxRevision) /\ Len(written) = Len(history)
        /\ Len(history) \in Nat
    BY DEF ServerTypes, Stored, Revisions
  <1>3. Stored' = Stored + 1
    BY <1>1, <1>2 DEF Stored
  <1>4. Stored' \in Revisions
    BY <1>1, <1>2, <1>3, DeckSaveAssumption DEF Stored, Revisions
  <1>5. history' \in Seq(Contents) /\ written' \in Seq(0..MaxRevision) /\ Len(written') = Stored'
    BY <1>1, <1>2 DEF Stored
  <1>6. history'[Stored + 1] = c /\ written'[Stored + 1] = from
    BY <1>1, <1>2 DEF Stored
  <1>7. \A r \in 1..Stored : history'[r] = history[r] /\ written'[r] = written[r]
    BY <1>1, <1>2 DEF Stored
  <1> QED
    BY <1>3, <1>4, <1>5, <1>6, <1>7

\* A write edited from the last revision loses nothing.
LEMMA WriteKeepsUpdates ==
    ASSUME ServerTypes, NoLostUpdate, NEW c \in Contents, Write(c, Stored)
    PROVE  NoLostUpdate'
  <1>1. Stored \in 0..MaxRevision /\ Stored \in Nat
    BY DEF ServerTypes, Revisions
  <1>2. /\ Stored' = Stored + 1 /\ written'[Stored + 1] = Stored
        /\ \A r \in 1..Stored : written'[r] = written[r]
    BY <1>1, WriteAppends
  <1>3. ASSUME NEW r \in 1..Stored' PROVE written'[r] = r - 1
    <2>1. CASE r = Stored + 1
      BY <1>1, <1>2, <2>1
    <2>2. CASE r # Stored + 1
      BY <1>1, <1>2, <2>2 DEF NoLostUpdate
    <2> QED
      BY <2>1, <2>2
  <1> QED
    BY <1>3 DEF NoLostUpdate

\* What becomes of a save when the server answers: it is as it was, or accepted with
\* its content the last revision, or refused.
LEMMA PageKeptByServer ==
    ASSUME IInv, UNCHANGED <<loadVars, editVars, draftVars>>, NEW p \in Pages,
           Stored' \in Nat, Stored <= Stored', \A r \in 1..Stored : history'[r] = history[r],
           \/ saving'[p] = saving[p]
           \/ /\ saving[p] # NoSave
              /\ \E stage \in {"accepted", "refused"} :
                   /\ saving'[p] = [saving[p] EXCEPT !.stage = stage]
                   /\ stage = "accepted" =>
                        NextRevision(p) <= Stored' /\ history'[NextRevision(p)] = saving[p].request.content
    PROVE  PageInOrder(p)'
  <1>0. PageTypes /\ SaveTypes /\ ServerTypes /\ PageInOrder(p) /\ Stored \in Nat
    BY TypesSplit DEF IInv, ServerTypes, Revisions
  <1>1. revision[p] \in 1..Stored /\ answer[p] \in 1..Stored /\ revision[p] \in Nat /\ answer[p] \in Nat
    BY <1>0 DEF PageTypes, PageInOrder, Revisions
  <1> USE DEF loadVars, editVars, draftVars
  <1>2. /\ revision'[p] <= Stored' /\ answer'[p] <= Stored'
        /\ loaded'[p] => revision'[p] = origin'[p]
        /\ loaded'[p] /\ ~dirty'[p] => content'[p] = history'[revision'[p]]
    BY <1>0, <1>1 DEF PageInOrder
  <1>3. loaded'[p] /\ dirty'[p] /\ ~uncaptured'[p] => Recoverable(p)'
    <2> SUFFICES ASSUME loaded[p], dirty[p], ~uncaptured[p], draft[p] # content[p]
                 PROVE  \E r \in 1..Stored' : history'[r] = content[p]
      BY DEF Recoverable
    <2>1. PICK r \in 1..Stored : history[r] = content[p]
      BY <1>0 DEF PageInOrder, Recoverable
    <2>2. r \in 1..Stored'
      BY <1>0
    <2> QED
      BY <2>1, <2>2
  <1>4. ASSUME saving'[p] # NoSave PROVE SaveInOrder(p)'
    <2>1. saving[p] # NoSave /\ saving[p] \in Saves /\ SaveInOrder(p)
      BY <1>0, <1>4 DEF SaveTypes, PageInOrder
    <2>2. saving[p].request \in Requests /\ NextRevision(p) \in Nat /\ NextRevision(p) >= 1
      BY <2>1 DEF Saves, Requests, NextRevision, Revisions
    <2>3. /\ saving'[p].opening = saving[p].opening /\ saving'[p].edits = saving[p].edits
          /\ saving'[p].replaced = saving[p].replaced /\ saving'[p].request = saving[p].request
      BY <2>1 DEF Saves
    <2>4. /\ SameOpening(p)' <=> SameOpening(p)
          /\ Unchanged(p)' <=> Unchanged(p)
          /\ NextRevision(p)' = NextRevision(p)
      BY <2>3 DEF SameOpening, Unchanged, NextRevision
    <2>5. ASSUME saving'[p].stage \in {"accepted", "clearing"}
          PROVE  NextRevision(p) <= Stored' /\ history'[NextRevision(p)] = saving[p].request.content
      <3>1. CASE saving'[p] = saving[p]
        <4>1. NextRevision(p) <= Stored /\ history[NextRevision(p)] = saving[p].request.content
          BY <2>1, <2>5, <3>1 DEF SaveInOrder
        <4>2. NextRevision(p) \in 1..Stored
          BY <1>0, <2>2, <4>1
        <4> QED
          BY <1>0, <2>2, <4>1, <4>2
      <3>2. CASE saving'[p] # saving[p]
        BY <2>1, <2>5, <3>2 DEF Saves
      <3> QED
        BY <3>1, <3>2
    <2> QED
      BY <2>1, <2>3, <2>4, <2>5 DEF SaveInOrder
  <1> QED
    BY <1>2, <1>3, <1>4 DEF PageInOrder

LEMMA RenameOk == ASSUME IInv, NEW c \in Contents, Rename(c) PROVE IInv'
  <1>0. ServerTypes /\ PageTypes /\ SaveTypes /\ NoLostUpdate /\ RequestsAreSeen
    BY TypesSplit DEF IInv
  <1>1. Stored \in 0..MaxRevision /\ Stored \in Nat
    BY <1>0 DEF ServerTypes, Revisions
  <1>2. Write(c, Stored) /\ UNCHANGED <<requests, loadVars, editVars, draftVars, saving>>
    BY DEF Rename
  <1>3. ServerTypes'
    BY <1>0, <1>1, <1>2, WriteAppends DEF ServerTypes
  <1>4. PageTypes' /\ SaveTypes'
    BY <1>0, <1>2 DEF PageTypes, SaveTypes, loadVars, editVars, draftVars
  <1>5. \A p \in Pages : PageInOrder(p)'
    BY <1>0, <1>1, <1>2, WriteAppends, PageKeptByServer
  <1>6. NoLostUpdate' /\ RequestsAreSeen'
    BY <1>0, <1>2, WriteKeepsUpdates DEF RequestsAreSeen
  <1> QED
    BY <1>3, <1>4, <1>5, <1>6, TypesSplitNext DEF IInv

\* The answer of a request reaches at most the page that waits for it.
LEMMA AnswerSaveFacts ==
    ASSUME SaveTypes, NEW r \in Requests, NEW stage \in {"accepted", "refused"}, AnswerSave(r, stage)
    PROVE  /\ SaveTypes'
           /\ \A p \in Pages :
                \/ saving'[p] = saving[p]
                \/ /\ saving[p] # NoSave /\ saving[p].request = r
                   /\ saving'[p] = [saving[p] EXCEPT !.stage = stage]
  <1>1. ASSUME NEW p \in Pages
        PROVE  /\ saving'[p] \in Saves \cup {NoSave}
               /\ \/ saving'[p] = saving[p]
                  \/ /\ saving[p] # NoSave /\ saving[p].request = r
                     /\ saving'[p] = [saving[p] EXCEPT !.stage = stage]
    BY DEF AnswerSave, SaveTypes, Saves
  <1>2. saving' \in [Pages -> Saves \cup {NoSave}]
    BY <1>1 DEF AnswerSave
  <1> QED
    BY <1>1, <1>2 DEF SaveTypes

LEMMA PutOk == ASSUME IInv, NEW r \in requests, Put(r) PROVE IInv'
  <1>0. ServerTypes /\ PageTypes /\ SaveTypes /\ NoLostUpdate /\ RequestsAreSeen
    BY TypesSplit DEF IInv
  <1>1. /\ r \in Requests /\ r.content \in Contents /\ r.origin \in Revisions /\ r.expected \in Revisions
        /\ r.origin = r.expected /\ Stored \in Nat /\ Stored \in 0..MaxRevision
    BY <1>0 DEF ServerTypes, Requests, RequestsAreSeen, Revisions
  <1>2. requests' = requests \ {r} /\ UNCHANGED <<loadVars, editVars, draftVars>>
    BY DEF Put
  <1>3. PageTypes' /\ RequestsAreSeen'
    BY <1>0, <1>2 DEF PageTypes, loadVars, editVars, draftVars, RequestsAreSeen
  <1>4. CASE r.expected = Stored
    <2>1. Write(r.content, Stored) /\ AnswerSave(r, "accepted")
      BY <1>1, <1>4 DEF Put
    <2>2. /\ SaveTypes'
          /\ \A p \in Pages :
               \/ saving'[p] = saving[p]
               \/ /\ saving[p] # NoSave /\ saving[p].request = r
                  /\ saving'[p] = [saving[p] EXCEPT !.stage = "accepted"]
      BY <1>0, <1>1, <2>1, AnswerSaveFacts
    <2>3. /\ Stored' = Stored + 1 /\ history'[Stored + 1] = r.content
          /\ \A k \in 1..Stored : history'[k] = history[k]
          /\ ServerTypes'
      BY <1>0, <1>1, <1>2, <2>1, WriteAppends DEF ServerTypes
    <2>4. ASSUME NEW p \in Pages PROVE PageInOrder(p)'
      <3>1. saving[p] # NoSave /\ saving[p].request = r =>
              NextRevision(p) <= Stored' /\ history'[NextRevision(p)] = saving[p].request.content
        BY <1>1, <1>4, <2>3 DEF NextRevision
      <3>2. \/ saving'[p] = saving[p]
            \/ /\ saving[p] # NoSave
               /\ \E stage \in {"accepted", "refused"} :
                    /\ saving'[p] = [saving[p] EXCEPT !.stage = stage]
                    /\ stage = "accepted" =>
                         NextRevision(p) <= Stored' /\ history'[NextRevision(p)] = saving[p].request.content
        BY <2>2, <3>1
      <3>3. Stored' \in Nat /\ Stored <= Stored'
        BY <1>1, <2>3
      <3> QED
        BY <1>2, <2>3, <3>2, <3>3, PageKeptByServer
    <2>5. NoLostUpdate'
      BY <1>0, <1>1, <2>1, WriteKeepsUpdates
    <2> QED
      BY <1>3, <2>2, <2>3, <2>4, <2>5, TypesSplitNext DEF IInv
  <1>5. CASE r.expected # Stored
    <2>1. AnswerSave(r, "refused") /\ UNCHANGED <<history, written>>
      BY <1>5 DEF Put
    <2>2. /\ SaveTypes'
          /\ \A p \in Pages :
               \/ saving'[p] = saving[p]
               \/ /\ saving[p] # NoSave /\ saving[p].request = r
                  /\ saving'[p] = [saving[p] EXCEPT !.stage = "refused"]
      BY <1>0, <1>1, <2>1, AnswerSaveFacts
    <2>3. Stored' = Stored /\ ServerTypes'
      BY <1>0, <1>2, <2>1 DEF ServerTypes, Stored
    <2>4. ASSUME NEW p \in Pages PROVE PageInOrder(p)'
      <3>1. \/ saving'[p] = saving[p]
            \/ /\ saving[p] # NoSave
               /\ \E stage \in {"accepted", "refused"} :
                    /\ saving'[p] = [saving[p] EXCEPT !.stage = stage]
                    /\ stage = "accepted" =>
                         NextRevision(p) <= Stored' /\ history'[NextRevision(p)] = saving[p].request.content
        BY <2>2
      <3> QED
        BY <1>1, <1>2, <2>1, <2>3, <3>1, PageKeptByServer
    <2>5. NoLostUpdate'
      BY <1>0, <2>1, <2>3 DEF NoLostUpdate
    <2> QED
      BY <1>3, <2>2, <2>3, <2>4, <2>5, TypesSplitNext DEF IInv
  <1> QED
    BY <1>4, <1>5

(***************************************************************************)
(* The pages                                                               *)
(***************************************************************************)

\* What the other pages hold is not touched.
OnlyPage(p) == \A q \in Pages \ {p} :
    /\ opening'[q] = opening[q] /\ phase'[q] = phase[q] /\ answer'[q] = answer[q]
    /\ loaded'[q] = loaded[q] /\ content'[q] = content[q] /\ revision'[q] = revision[q]
    /\ dirty'[q] = dirty[q] /\ edits'[q] = edits[q] /\ origin'[q] = origin[q]
    /\ draft'[q] = draft[q] /\ uncaptured'[q] = uncaptured[q] /\ saving'[q] = saving[q]

LEMMA PageStepOk ==
    ASSUME IInv, NEW p \in Pages, UNCHANGED <<history, written>>, OnlyPage(p),
           requests' \subseteq Requests, RequestsAreSeen', PageTypes', SaveTypes', PageInOrder(p)'
    PROVE  IInv'
  <1>1. Stored' = Stored /\ ServerTypes' /\ NoLostUpdate'
    BY TypesSplit DEF IInv, ServerTypes, Stored, NoLostUpdate
  <1>2. ASSUME NEW q \in Pages \ {p} PROVE PageInOrder(q)'
    <2>1. PageInOrder(q)
      BY DEF IInv
    <2>2. Recoverable(q)' <=> Recoverable(q)
      BY <1>1 DEF OnlyPage, Recoverable
    <2>3. SaveInOrder(q)' <=> SaveInOrder(q)
      BY <1>1 DEF OnlyPage, SaveInOrder, SameOpening, Unchanged, NextRevision
    <2> QED
      BY <1>1, <2>1, <2>2, <2>3 DEF OnlyPage, PageInOrder
  <1> QED
    BY <1>1, <1>2, TypesSplitNext DEF IInv

\* Opening the deck, and its answers but the one that replaces the content: the
\* save under way is then of an earlier opening.
LEMMA OpenOk == ASSUME IInv, NEW p \in Pages, Open(p) PROVE IInv'
  <1>0. PageTypes /\ SaveTypes /\ ServerTypes /\ PageInOrder(p) /\ RequestsAreSeen
    BY TypesSplit DEF IInv
  <1>1. /\ opening' = [opening EXCEPT ![p] = @ + 1] /\ phase' = [phase EXCEPT ![p] = "asked"]
        /\ UNCHANGED <<history, written, requests, answer, loaded, content, revision, dirty, edits,
                       origin, draft, offered, uncaptured, saving>>
    BY DEF Open, serverVars, editVars, draftVars
  <1>2. PageTypes' /\ SaveTypes'
    BY <1>0, <1>1 DEF PageTypes, SaveTypes
  <1>3. PageInOrder(p)'
    <2>1. ASSUME saving[p] # NoSave PROVE SaveInOrder(p)'
      <3>1. SaveInOrder(p) /\ saving[p].opening \in Nat
        BY <1>0, <2>1 DEF PageInOrder, SaveTypes, Saves
      <3>2. opening'[p] = opening[p] + 1 /\ opening[p] \in Nat
        BY <1>0, <1>1 DEF PageTypes
      <3>3. saving'[p].opening <= opening'[p] /\ ~SameOpening(p)'
        BY <1>1, <3>1, <3>2 DEF SaveInOrder, SameOpening
      <3> QED
        BY <1>1, <3>1, <3>3 DEF SaveInOrder, NextRevision, Stored
    <2> QED
      BY <1>0, <1>1, <2>1 DEF PageInOrder, Recoverable, Stored
  <1>4. OnlyPage(p)
    BY <1>0, <1>1 DEF OnlyPage, PageTypes
  <1> QED
    BY <1>0, <1>1, <1>2, <1>3, <1>4, PageStepOk DEF RequestsAreSeen, ServerTypes

\* While the deck is being opened, the save under way is of an earlier opening.
LEMMA SaveOfAnEarlierOpening ==
    ASSUME IInv, NEW p \in Pages, saving[p] # NoSave, phase[p] # "over"
    PROVE  ~SameOpening(p)
  BY DEF IInv, PageInOrder, SaveInOrder

LEMMA OpeningAnswersOk ==
    ASSUME IInv, NEW p \in Pages, Get(p) \/ LoadFails(p) \/ DraftAnswer(p)
    PROVE  IInv'
  <1>0. PageTypes /\ SaveTypes /\ ServerTypes /\ PageInOrder(p) /\ RequestsAreSeen
    BY TypesSplit DEF IInv
  <1>1. /\ UNCHANGED <<history, written, requests, opening, loaded, content, revision, dirty, edits,
                       origin, draft, uncaptured, saving>>
        /\ phase[p] # "over"
        /\ \E f \in {"read", "over"} : phase' = [phase EXCEPT ![p] = f]
    BY DEF Get, LoadFails, DraftAnswer, serverVars, editVars, draftVars
  <1>2. /\ answer' \in [Pages -> Revisions] /\ answer'[p] <= Stored
        /\ \A q \in Pages \ {p} : answer'[q] = answer[q]
    <2>1. Stored \in Revisions /\ Stored \in Nat /\ 1 <= Stored /\ 1 \in Revisions
      BY <1>0, RevisionFacts, HistoryFacts DEF ServerTypes, Revisions
    <2>2. \/ answer' = answer
          \/ answer' = [answer EXCEPT ![p] = Stored]
          \/ answer' = [answer EXCEPT ![p] = 1]
      BY DEF Get, LoadFails, DraftAnswer
    <2> QED
      BY <1>0, <2>1, <2>2 DEF PageTypes, PageInOrder
  <1>3. offered' \in [Pages -> Drafts]
    BY <1>0 DEF Get, LoadFails, DraftAnswer, draftVars, PageTypes, Drafts
  <1>4. PageTypes' /\ SaveTypes'
    BY <1>0, <1>1, <1>2, <1>3 DEF PageTypes, SaveTypes
  <1>5. PageInOrder(p)'
    <2>1. ASSUME saving[p] # NoSave PROVE SaveInOrder(p)'
      <3>1. ~SameOpening(p) /\ SaveInOrder(p)
        BY <1>0, <1>1, <2>1, SaveOfAnEarlierOpening DEF PageInOrder
      <3> QED
        BY <1>1, <3>1 DEF SaveInOrder, SameOpening, NextRevision, Stored
    <2> QED
      BY <1>0, <1>1, <1>2, <2>1 DEF PageInOrder, Recoverable, Stored
  <1>6. OnlyPage(p)
    BY <1>0, <1>1, <1>2 DEF OnlyPage, PageTypes
  <1> QED
    BY <1>0, <1>1, <1>4, <1>5, <1>6, PageStepOk DEF RequestsAreSeen, ServerTypes

\* The content read is that of its revision, and the save under way, of an earlier
\* opening, is told apart from it.
LEMMA LoadAnswerOk == ASSUME IInv, NEW p \in Pages, LoadAnswer(p) PROVE IInv'
  <1>0. PageTypes /\ SaveTypes /\ ServerTypes /\ PageInOrder(p) /\ RequestsAreSeen
    BY TypesSplit DEF IInv
  <1>1. answer[p] \in 1..Stored /\ answer[p] \in Revisions /\ history[answer[p]] \in Contents
    BY <1>0, HistoryFacts DEF PageTypes, PageInOrder, Revisions
  <1>2. /\ UNCHANGED <<history, written, requests, opening, draft>>
        /\ phase[p] = "read" /\ phase' = [phase EXCEPT ![p] = "draft"]
        /\ loaded' = [loaded EXCEPT ![p] = TRUE] /\ dirty' = [dirty EXCEPT ![p] = FALSE]
        /\ content' = [content EXCEPT ![p] = history[answer[p]]]
        /\ revision' = [revision EXCEPT ![p] = answer[p]]
        /\ origin' = [origin EXCEPT ![p] = answer[p]]
        /\ answer' = [answer EXCEPT ![p] = 1]
        /\ edits' = [edits EXCEPT ![p] = 0]
        /\ offered' = [offered EXCEPT ![p] = NoContent]
        /\ uncaptured' = [uncaptured EXCEPT ![p] = FALSE]
        /\ saving' = [saving EXCEPT ![p] = IF @ = NoSave THEN @ ELSE [@ EXCEPT !.replaced = TRUE]]
    BY DEF LoadAnswer, serverVars
  <1>3. PageTypes'
    BY <1>0, <1>1, <1>2, RevisionFacts DEF PageTypes, Drafts
  <1>4. SaveTypes'
    <2>1. (IF saving[p] = NoSave THEN NoSave ELSE [saving[p] EXCEPT !.replaced = TRUE])
            \in Saves \cup {NoSave}
      BY <1>0 DEF SaveTypes, Saves
    <2> QED
      BY <1>0, <1>2, <2>1 DEF SaveTypes
  <1>5. /\ loaded'[p] /\ ~dirty'[p] /\ content'[p] = history[answer[p]] /\ revision'[p] = answer[p]
        /\ origin'[p] = answer[p] /\ answer'[p] = 1
    BY <1>0, <1>2 DEF PageTypes
  <1>6. PageInOrder(p)'
    <2>1. ASSUME saving'[p] # NoSave PROVE SaveInOrder(p)'
      <3>1. saving[p] # NoSave /\ saving'[p] = [saving[p] EXCEPT !.replaced = TRUE] /\ saving[p] \in Saves
        BY <1>0, <1>2, <2>1 DEF SaveTypes
      <3>2. ~SameOpening(p) /\ SaveInOrder(p)
        BY <1>0, <1>2, <3>1, SaveOfAnEarlierOpening DEF PageInOrder
      <3>3. /\ saving'[p].opening = saving[p].opening /\ saving'[p].stage = saving[p].stage
            /\ saving'[p].request = saving[p].request
        BY <3>1 DEF Saves
      <3> QED
        BY <1>2, <3>2, <3>3 DEF SaveInOrder, SameOpening, NextRevision, Stored
    <2>2. 1 <= Stored /\ answer[p] <= Stored
      BY <1>0, HistoryFacts DEF ServerTypes, Revisions, PageInOrder
    <2> QED
      BY <1>2, <1>5, <2>1, <2>2 DEF PageInOrder, Stored
  <1>7. OnlyPage(p)
    BY <1>0, <1>2 DEF OnlyPage, PageTypes, SaveTypes
  <1> QED
    BY <1>0, <1>2, <1>3, <1>4, <1>6, <1>7, PageStepOk DEF RequestsAreSeen, ServerTypes

\* An edit, typed or resumed, is counted: a save under way sees that the content is
\* no longer what was sent.
LEMMA EditsOk ==
    ASSUME IInv, NEW p \in Pages, (\E c \in Contents : Edit(p, c)) \/ ResumeDraft(p)
    PROVE  IInv'
  <1>0. PageTypes /\ SaveTypes /\ ServerTypes /\ PageInOrder(p) /\ RequestsAreSeen
    BY TypesSplit DEF IInv
  <1>1. /\ UNCHANGED <<history, written, requests, opening, phase, answer, loaded, revision, origin, saving>>
        /\ dirty' = [dirty EXCEPT ![p] = TRUE] /\ edits' = [edits EXCEPT ![p] = @ + 1]
    BY DEF Edit, ResumeDraft, serverVars, loadVars
  <1>2. \E c \in Contents :
           /\ content' = [content EXCEPT ![p] = c]
           /\ \/ /\ draft' = [draft EXCEPT ![p] = c] /\ offered' = offered
                 /\ uncaptured' = [uncaptured EXCEPT ![p] = FALSE]
              \/ /\ draft' = draft /\ offered' = [offered EXCEPT ![p] = NoContent]
                 /\ uncaptured' = [uncaptured EXCEPT ![p] = TRUE]
    <2>1. offered[p] # NoContent => offered[p] \in Contents
      BY <1>0 DEF PageTypes, Drafts
    <2> QED
      BY <2>1 DEF Edit, ResumeDraft
  <1>3. PageTypes' /\ SaveTypes'
    <2>1. /\ content' \in [Pages -> Contents] /\ draft' \in [Pages -> Drafts]
          /\ offered' \in [Pages -> Drafts] /\ uncaptured' \in [Pages -> BOOLEAN]
      BY ZenonT(30), <1>0, <1>2 DEF PageTypes, Drafts
    <2>2. dirty' \in [Pages -> BOOLEAN] /\ edits' \in [Pages -> Nat]
      BY <1>0, <1>1 DEF PageTypes
    <2> QED
      BY <1>0, <1>1, <2>1, <2>2 DEF PageTypes, SaveTypes
  <1>4. edits'[p] = edits[p] + 1 /\ dirty'[p] = TRUE /\ (uncaptured'[p] \/ draft'[p] = content'[p])
    BY <1>0, <1>1, <1>2 DEF PageTypes
  <1>5. PageInOrder(p)'
    <2>1. ASSUME saving[p] # NoSave PROVE SaveInOrder(p)'
      <3>1. SaveInOrder(p) /\ saving[p].edits \in Nat /\ edits[p] \in Nat
        BY <1>0, <2>1 DEF PageInOrder, SaveTypes, PageTypes, Saves
      <3>2. SameOpening(p) => ~Unchanged(p)' /\ saving[p].edits <= edits'[p]
        BY <1>1, <1>4, <3>1 DEF SaveInOrder, Unchanged
      <3> QED
        BY <1>1, <3>1, <3>2 DEF SaveInOrder, SameOpening, NextRevision, Stored
    <2> QED
      BY <1>0, <1>1, <1>4, <2>1 DEF PageInOrder, Recoverable, Stored
  <1>6. OnlyPage(p)
    BY <1>0, <1>1, <1>2 DEF OnlyPage, PageTypes
  <1> QED
    BY <1>0, <1>1, <1>3, <1>5, <1>6, PageStepOk DEF RequestsAreSeen, ServerTypes

LEMMA DiscardDraftOk == ASSUME IInv, NEW p \in Pages, DiscardDraft(p) PROVE IInv'
  <1>0. PageTypes /\ SaveTypes /\ ServerTypes /\ PageInOrder(p) /\ RequestsAreSeen
    BY TypesSplit DEF IInv
  <1>1. /\ UNCHANGED <<history, written, requests, opening, phase, answer, loaded, content, revision,
                       dirty, edits, origin, saving>>
        /\ offered' = [offered EXCEPT ![p] = NoContent] /\ draft' = [draft EXCEPT ![p] = NoContent]
        /\ uncaptured' = [uncaptured EXCEPT ![p] = TRUE]
    BY DEF DiscardDraft, serverVars, loadVars, editVars
  <1>2. PageTypes' /\ SaveTypes'
    BY <1>0, <1>1 DEF PageTypes, SaveTypes, Drafts
  <1>3. PageInOrder(p)'
    <2>1. uncaptured'[p]
      BY <1>0, <1>1 DEF PageTypes
    <2>2. SaveInOrder(p)' <=> SaveInOrder(p)
      BY <1>1 DEF SaveInOrder, SameOpening, Unchanged, NextRevision, Stored
    <2> QED
      BY <1>0, <1>1, <2>1, <2>2 DEF PageInOrder, Stored
  <1>4. OnlyPage(p)
    BY <1>0, <1>1 DEF OnlyPage, PageTypes
  <1> QED
    BY <1>0, <1>1, <1>2, <1>3, <1>4, PageStepOk DEF RequestsAreSeen, ServerTypes

(***************************************************************************)
(* Saving                                                                  *)
(***************************************************************************)

LEMMA SaveDeckOk == ASSUME IInv, ~SaveWhileLoading, NEW p \in Pages, SaveDeck(p) PROVE IInv'
  <1>0. PageTypes /\ SaveTypes /\ ServerTypes /\ PageInOrder(p) /\ RequestsAreSeen
    BY TypesSplit DEF IInv
  <1> DEFINE request == [page |-> p, expected |-> revision[p], content |-> content[p],
                         origin |-> origin[p]]
             save == [request |-> request, opening |-> opening[p], edits |-> edits[p],
                      stage |-> "sent", replaced |-> FALSE]
  <1>1. /\ requests' = requests \cup {request} /\ saving' = [saving EXCEPT ![p] = save]
        /\ UNCHANGED <<history, written, opening, phase, answer, loaded, content, revision, dirty,
                       edits, origin, draft, offered, uncaptured>>
        /\ loaded[p] /\ phase[p] = "over"
    BY DEF SaveDeck, Shown, loadVars, editVars, draftVars
  <1>2. request \in Requests /\ request.origin = request.expected /\ request.content = content[p]
    BY <1>0, <1>1 DEF PageTypes, Requests, PageInOrder
  <1> HIDE DEF request
  <1>3. save \in Saves
    BY <1>0, <1>2 DEF Saves, PageTypes
  <1>4. saving'[p] = save
    BY <1>0, <1>1 DEF SaveTypes
  <1>5. PageTypes' /\ SaveTypes'
    BY <1>0, <1>1, <1>3 DEF PageTypes, SaveTypes
  <1>6. PageInOrder(p)'
    <2>1. SaveInOrder(p)'
      BY <1>0, <1>1, <1>2, <1>4 DEF SaveInOrder, SameOpening, PageTypes
    <2> QED
      BY <1>0, <1>1, <2>1 DEF PageInOrder, Recoverable, Stored
  <1>7. OnlyPage(p)
    BY <1>0, <1>1 DEF OnlyPage, SaveTypes
  <1>8. requests' \subseteq Requests /\ RequestsAreSeen'
    BY <1>0, <1>1, <1>2 DEF RequestsAreSeen, ServerTypes
  <1> QED
    BY <1>1, <1>5, <1>6, <1>7, <1>8, PageStepOk

\* The opening that asked holds the revision accepted: clean if its content is still
\* what was sent, and with its edits in the draft otherwise.
LEMMA SavedOk == ASSUME IInv, NEW p \in Pages, Saved(p) PROVE IInv'
  <1>0. PageTypes /\ SaveTypes /\ ServerTypes /\ PageInOrder(p) /\ RequestsAreSeen
    BY TypesSplit DEF IInv
  <1>1. /\ saving[p] # NoSave /\ saving[p].stage = "accepted" /\ saving[p] \in Saves
        /\ saving' = [saving EXCEPT ![p].stage = "clearing"]
        /\ UNCHANGED <<history, written, requests, opening, phase, answer, loaded, content, edits,
                       offered, uncaptured>>
    BY <1>0 DEF Saved, SaveTypes, serverVars, loadVars
  <1>2. /\ NextRevision(p) \in 1..Stored /\ history[NextRevision(p)] = saving[p].request.content
        /\ NextRevision(p) \in Revisions /\ NextRevision(p) <= Stored
    <2>1. saving[p].request.expected \in Nat /\ NextRevision(p) = saving[p].request.expected + 1
      BY <1>1 DEF Saves, Requests, Revisions, NextRevision
    <2>2. NextRevision(p) <= Stored /\ history[NextRevision(p)] = saving[p].request.content
      BY <1>0, <1>1 DEF PageInOrder, SaveInOrder
    <2>3. Stored \in Nat /\ Stored <= MaxRevision /\ MaxRevision \in Nat
      BY <1>0, DeckSaveAssumption DEF ServerTypes, Revisions
    <2> QED
      BY <2>1, <2>2, <2>3 DEF Revisions
  <1>3. /\ saving'[p] = [saving[p] EXCEPT !.stage = "clearing"] /\ saving'[p] \in Saves
        /\ saving'[p].opening = saving[p].opening /\ saving'[p].edits = saving[p].edits
        /\ saving'[p].replaced = saving[p].replaced /\ saving'[p].request = saving[p].request
    BY <1>0, <1>1 DEF SaveTypes, Saves
  <1>4. SaveTypes'
    BY <1>0, <1>1, <1>3 DEF SaveTypes
  <1>5. CASE ~SameOpening(p)
    <2>1. UNCHANGED <<revision, origin, dirty, draft>>
      BY <1>5 DEF Saved
    <2>2. PageTypes'
      BY <1>0, <1>1, <2>1 DEF PageTypes
    <2>3. SaveInOrder(p)'
      BY <1>0, <1>1, <1>2, <1>3, <1>5
         DEF PageInOrder, SaveInOrder, SameOpening, NextRevision, Stored
    <2>4. PageInOrder(p)'
      BY <1>0, <1>1, <2>1, <2>3 DEF PageInOrder, Recoverable, Stored
    <2>5. OnlyPage(p)
      BY <1>0, <1>1, <2>1 DEF OnlyPage, SaveTypes
    <2> QED
      BY <1>0, <1>1, <1>4, <2>2, <2>4, <2>5, PageStepOk DEF RequestsAreSeen, ServerTypes
  <1>6. CASE SameOpening(p)
    <2>1. /\ loaded[p] /\ phase[p] = "over" /\ ~saving[p].replaced /\ saving[p].edits <= edits[p]
          /\ Unchanged(p) => content[p] = saving[p].request.content
      BY <1>0, <1>1, <1>6 DEF PageInOrder, SaveInOrder
    <2>2. /\ revision' = [revision EXCEPT ![p] = NextRevision(p)]
          /\ origin' = [origin EXCEPT ![p] = NextRevision(p)]
          /\ dirty' = [dirty EXCEPT ![p] = ~Unchanged(p)]
          /\ draft' = [draft EXCEPT ![p] = IF Unchanged(p) THEN @ ELSE content[p]]
      BY <1>6, <2>1 DEF Saved, NextRevision
    <2>3. PageTypes'
      <3>1. revision' \in [Pages -> Revisions] /\ origin' \in [Pages -> Revisions]
        BY <1>0, <1>2, <2>2 DEF PageTypes
      <3>2. dirty' \in [Pages -> BOOLEAN]
        BY <1>0, <2>2 DEF PageTypes, Unchanged
      <3>3. draft' \in [Pages -> Drafts]
        BY <1>0, <2>2 DEF PageTypes, Drafts
      <3> QED
        BY <1>0, <1>1, <3>1, <3>2, <3>3 DEF PageTypes
    <2>4. /\ revision'[p] = NextRevision(p) /\ origin'[p] = NextRevision(p)
          /\ dirty'[p] = ~Unchanged(p) /\ (~Unchanged(p) => draft'[p] = content[p])
      BY <1>0, <2>2 DEF PageTypes
    <2>5. SaveInOrder(p)'
      BY <1>0, <1>1, <1>2, <1>3, <2>1
         DEF PageInOrder, SaveInOrder, SameOpening, Unchanged, NextRevision, Stored
    <2>6. dirty'[p] => Recoverable(p)'
      BY <1>1, <2>4 DEF Recoverable
    <2>7. ~dirty'[p] => content'[p] = history'[revision'[p]]
      BY <1>1, <1>2, <2>1, <2>4
    <2>8. PageInOrder(p)'
      BY <1>0, <1>1, <1>2, <2>4, <2>5, <2>6, <2>7 DEF PageInOrder, Stored
    <2>9. OnlyPage(p)
      BY <1>0, <1>1, <2>2 DEF OnlyPage, SaveTypes, PageTypes
    <2> QED
      BY <1>0, <1>1, <1>4, <2>3, <2>8, <2>9, PageStepOk DEF RequestsAreSeen, ServerTypes
  <1> QED
    BY <1>5, <1>6

\* What the draft loses is what the server has.
LEMMA ClearDraftOk == ASSUME IInv, NEW p \in Pages, ClearDraft(p) PROVE IInv'
  <1>0. PageTypes /\ SaveTypes /\ ServerTypes /\ PageInOrder(p) /\ RequestsAreSeen
    BY TypesSplit DEF IInv
  <1>1. /\ saving[p] # NoSave /\ saving[p].stage = "clearing" /\ saving[p] \in Saves
        /\ saving' = [saving EXCEPT ![p] = NoSave]
        /\ draft' = [draft EXCEPT ![p] = IF @ = saving[p].request.content THEN NoContent ELSE @]
        /\ UNCHANGED <<history, written, requests, opening, phase, answer, loaded, content, revision,
                       dirty, edits, origin, offered, uncaptured>>
    BY <1>0 DEF ClearDraft, SaveTypes, serverVars, loadVars, editVars
  <1>2. NextRevision(p) \in 1..Stored /\ history[NextRevision(p)] = saving[p].request.content
    <2>1. saving[p].request.expected \in Nat /\ NextRevision(p) = saving[p].request.expected + 1
      BY <1>1 DEF Saves, Requests, Revisions, NextRevision
    <2>2. NextRevision(p) <= Stored /\ history[NextRevision(p)] = saving[p].request.content
      BY <1>0, <1>1 DEF PageInOrder, SaveInOrder
    <2>3. Stored \in Nat
      BY <1>0 DEF ServerTypes, Revisions
    <2> QED
      BY <2>1, <2>2, <2>3
  <1>3. PageTypes' /\ SaveTypes'
    <2>1. draft' \in [Pages -> Drafts]
      BY <1>0, <1>1 DEF PageTypes, Drafts
    <2> QED
      BY <1>0, <1>1, <2>1 DEF PageTypes, SaveTypes
  <1>4. PageInOrder(p)'
    <2>1. Recoverable(p) => Recoverable(p)'
      <3>1. draft'[p] = draft[p] \/ draft[p] = history[NextRevision(p)]
        BY <1>0, <1>1, <1>2 DEF PageTypes
      <3> QED
        BY <1>1, <1>2, <3>1 DEF Recoverable, Stored
    <2>2. saving'[p] = NoSave
      BY <1>0, <1>1 DEF SaveTypes
    <2> QED
      BY <1>0, <1>1, <2>1, <2>2 DEF PageInOrder, Stored
  <1>5. OnlyPage(p)
    BY <1>0, <1>1 DEF OnlyPage, SaveTypes, PageTypes
  <1> QED
    BY <1>0, <1>1, <1>3, <1>4, <1>5, PageStepOk DEF RequestsAreSeen, ServerTypes

\* A clean page that is told of a failure still holds what the server keeps.
LEMMA SaveFailsOk == ASSUME IInv, NEW p \in Pages, SaveFails(p) PROVE IInv'
  <1>0. PageTypes /\ SaveTypes /\ ServerTypes /\ PageInOrder(p) /\ RequestsAreSeen
    BY TypesSplit DEF IInv
  <1>1. /\ saving' = [saving EXCEPT ![p] = NoSave]
        /\ dirty' = [dirty EXCEPT ![p] = IF SameOpening(p) THEN TRUE ELSE @]
        /\ UNCHANGED <<history, written, requests, opening, phase, answer, loaded, content, revision,
                       edits, origin, draft, offered, uncaptured>>
    BY DEF SaveFails, serverVars, loadVars, draftVars
  <1>2. PageTypes' /\ SaveTypes'
    <2>1. dirty' \in [Pages -> BOOLEAN]
      BY <1>0, <1>1 DEF PageTypes
    <2> QED
      BY <1>0, <1>1, <2>1 DEF PageTypes, SaveTypes
  <1>3. PageInOrder(p)'
    <2>1. saving'[p] = NoSave /\ (dirty'[p] = dirty[p] \/ dirty'[p])
      BY <1>0, <1>1 DEF SaveTypes, PageTypes
    <2>2. loaded[p] /\ ~uncaptured[p] => Recoverable(p)
      <3>1. CASE dirty[p]
        BY <1>0, <3>1 DEF PageInOrder
      <3>2. CASE loaded[p] /\ ~dirty[p]
        <4>1. revision[p] \in 1..Stored /\ history[revision[p]] = content[p]
          BY <1>0, <3>2 DEF PageInOrder, PageTypes, ServerTypes, Revisions
        <4> QED
          BY <4>1 DEF Recoverable
      <3> QED
        BY <3>1, <3>2
    <2>3. Recoverable(p)' <=> Recoverable(p)
      BY <1>1 DEF Recoverable, Stored
    <2> QED
      BY <1>0, <1>1, <2>1, <2>2, <2>3 DEF PageInOrder, Stored
  <1>4. OnlyPage(p)
    BY <1>0, <1>1 DEF OnlyPage, SaveTypes, PageTypes
  <1> QED
    BY <1>0, <1>1, <1>2, <1>3, <1>4, PageStepOk DEF RequestsAreSeen, ServerTypes

LEMMA CloseOk == ASSUME IInv, NEW p \in Pages, Close(p) PROVE IInv'
  <1>0. PageTypes /\ SaveTypes /\ ServerTypes /\ PageInOrder(p) /\ RequestsAreSeen
    BY TypesSplit DEF IInv
  <1>1. /\ phase' = [phase EXCEPT ![p] = "none"] /\ answer' = [answer EXCEPT ![p] = 1]
        /\ loaded' = [loaded EXCEPT ![p] = FALSE] /\ content' = [content EXCEPT ![p] = history[1]]
        /\ revision' = [revision EXCEPT ![p] = 1] /\ origin' = [origin EXCEPT ![p] = 1]
        /\ dirty' = [dirty EXCEPT ![p] = FALSE] /\ edits' = [edits EXCEPT ![p] = 0]
        /\ offered' = [offered EXCEPT ![p] = NoContent]
        /\ uncaptured' = [uncaptured EXCEPT ![p] = FALSE]
        /\ saving' = [saving EXCEPT ![p] = NoSave]
        /\ UNCHANGED <<history, written, requests, opening, draft>>
    BY DEF Close, serverVars
  <1>2. 1 \in Revisions /\ 1 <= Stored /\ history[1] \in Contents
    BY <1>0, RevisionFacts, HistoryFacts DEF ServerTypes, Revisions
  <1>3. PageTypes' /\ SaveTypes'
    BY <1>0, <1>1, <1>2 DEF PageTypes, SaveTypes, Drafts
  <1>4. PageInOrder(p)'
    <2>1. saving'[p] = NoSave /\ ~loaded'[p] /\ revision'[p] = 1 /\ answer'[p] = 1
      BY <1>0, <1>1 DEF SaveTypes, PageTypes
    <2> QED
      BY <1>1, <1>2, <2>1 DEF PageInOrder, Stored
  <1>5. OnlyPage(p)
    BY <1>0, <1>1 DEF OnlyPage, SaveTypes, PageTypes
  <1> QED
    BY <1>0, <1>1, <1>3, <1>4, <1>5, PageStepOk DEF RequestsAreSeen, ServerTypes

(***************************************************************************)
(* The specification                                                       *)
(***************************************************************************)

LEMMA InitOk == Init => IInv
  <1> SUFFICES ASSUME Init PROVE IInv
    OBVIOUS
  <1>1. PICK c \in Contents : history = <<c>> /\ content = [p \in Pages |-> c]
    BY DEF Init
  <1>2. Stored = 1 /\ 1 \in Revisions /\ history \in Seq(Contents)
    BY <1>1, RevisionFacts DEF Stored
  <1>3. ServerTypes
    <2>1. 0 \in 0..MaxRevision /\ written = <<0>> /\ requests = {}
      BY DeckSaveAssumption DEF Init
    <2> QED
      BY <1>2, <2>1 DEF ServerTypes
  <1>4. PageTypes /\ SaveTypes
    BY <1>1, <1>2 DEF Init, PageTypes, SaveTypes, Drafts
  <1>5. NoLostUpdate /\ RequestsAreSeen
    BY <1>2 DEF Init, NoLostUpdate, RequestsAreSeen
  <1>6. ASSUME NEW p \in Pages PROVE PageInOrder(p)
    <2>1. revision[p] = 1 /\ answer[p] = 1 /\ loaded[p] = FALSE /\ saving[p] = NoSave
      BY DEF Init
    <2> QED
      BY <1>2, <2>1 DEF PageInOrder
  <1> QED
    BY <1>3, <1>4, <1>5, <1>6, TypesSplit DEF IInv

LEMMA StutterOk == IInv /\ UNCHANGED vars => IInv'
  <1> SUFFICES ASSUME IInv, UNCHANGED vars PROVE IInv'
    OBVIOUS
  <1>1. UNCHANGED <<history, written, requests, saving>> /\ UNCHANGED loadVars /\ UNCHANGED editVars
        /\ UNCHANGED draftVars
    BY DEF vars, serverVars
  <1>2. ServerTypes' /\ NoLostUpdate' /\ RequestsAreSeen'
    BY <1>1, TypesSplit DEF IInv, ServerTypes, Stored, NoLostUpdate, RequestsAreSeen
  <1>3. PageTypes' /\ SaveTypes'
    BY <1>1, TypesSplit DEF IInv, PageTypes, SaveTypes, loadVars, editVars, draftVars
  <1>4. ASSUME NEW p \in Pages PROVE PageInOrder(p)'
    <2>1. Stored' = Stored /\ Stored \in Nat
      BY <1>1, TypesSplit DEF IInv, ServerTypes, Stored, Revisions
    <2> QED
      BY <1>1, <2>1, PageKeptByServer
  <1> QED
    BY <1>2, <1>3, <1>4, TypesSplitNext DEF IInv

LEMMA NextOk == ASSUME ~SaveWhileLoading PROVE IInv /\ [Next]_vars => IInv'
  BY PutOk, RenameOk, OpenOk, OpeningAnswersOk, LoadAnswerOk, EditsOk, DiscardDraftOk, SaveDeckOk,
     SavedOk, ClearDraftOk, SaveFailsOk, CloseOk, StutterOk
     DEF Next, SaveEnds

LEMMA Invariant == ASSUME ~SaveWhileLoading PROVE Spec => []IInv
  BY InitOk, NextOk, PTL DEF Spec

-----------------------------------------------------------------------------
(***************************************************************************)
(* Theorems                                                                *)
(***************************************************************************)

\* However late a save reaches the server, and whatever the other pages saved
\* meanwhile, it is written only over the revision its content was edited from
\* (PUT /decks/:id in routes/decks.ts, expectedRevision in deckStore.ts).
THEOREM NoUpdateIsLost == ASSUME ~SaveWhileLoading PROVE Spec => []NoLostUpdate
  <1>1. IInv => NoLostUpdate
    BY DEF IInv
  <1> QED
    BY <1>1, Invariant, PTL

\* A page that says "saved" holds the configuration of the revision it saves against,
\* and that revision is the one its content comes from (saveDeck of deckStore.ts).
THEOREM PagesKnowWhatTheyHold == ASSUME ~SaveWhileLoading PROVE Spec => []PageKnowsWhatItHolds
  <1>1. IInv => PageKnowsWhatItHolds
    BY DEF IInv, PageInOrder, PageKnowsWhatItHolds, CleanIsSaved, HoldsItsRevision
  <1> QED
    BY <1>1, Invariant, PTL

\* Unsaved work is in the browser's draft or on the server, through refusals, lost
\* answers and saves that end while the user types (saveDeck, draft.ts).
THEOREM DraftsHoldUnsaved == ASSUME ~SaveWhileLoading PROVE Spec => []DraftHoldsUnsaved
  <1>1. IInv => DraftHoldsUnsaved
    BY DEF IInv, PageInOrder, DraftHoldsUnsaved
  <1> QED
    BY <1>1, Invariant, PTL

=============================================================================
