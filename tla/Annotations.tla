---------------------------- MODULE Annotations ----------------------------
(***************************************************************************)
(* The annotations of an open deck that belong to it: starters, dead       *)
(* cards, combos, the conditions of starts, saved queries.  The gestures   *)
(* of the grid and its modes (AnnotationGrid.tsx), of the list of combos,  *)
(* of the menu of a card, of the editor of conditions and of the query     *)
(* panel, over lib/conditions.ts and the store; then what the server would *)
(* say of the deck they have built (domain/deckConfiguration.ts).          *)
(*                                                                         *)
(* A start has a source: a set of one card for a starter, of two for a     *)
(* combo, which is also the identity of the combo.  A condition is a tree; *)
(* its groups keep the order of their members, by which the editor names   *)
(* them (a path).                                                          *)
(***************************************************************************)
EXTENDS Integers, Sequences, FiniteSets

CONSTANTS Cards,
          Nothing,           \* absence of a value
          MaxLeft,           \* copies of a card that may be left in the deck
          Quantities,        \* what may be typed for the copies a leaf demands
          Numbers,           \* what may be typed for the bound of a criterion
          NotANumber,        \* typed too
          Subjects,          \* what a criterion may count
          DepthLimit, LeafLimit, QuantityLimit, SafeLimit,   \* of the server
          Documents,         \* annotations of decks as they are stored
          OlderDocuments,    \* and before conditions: a set of requirements each
          MaxGestures        \* bound: gestures on the annotations

VARIABLES
    main, side,        \* cards of these zones, edited elsewhere
    starters,
    dead,              \* cards that do nothing in a position
    pairs,             \* combos of the deck
    excluded,          \* those put out of use
    conditions,        \* the condition of each source that has one
    criteria,          \* the query being written
    saved,             \* queries saved under a name
    tab,               \* part of the editor shown beside the query panel
    mode,              \* of the grid
    pivot,             \* card whose combos are being made
    dependent,         \* card whose condition is being made
    modCount,          \* changes made since the mode was entered
    gestures

annotated == <<starters, dead, pairs, excluded, conditions, saved>>
grid == <<tab, mode, pivot, dependent, modCount>>
vars == <<annotated, criteria, grid, gestures>>

---------------------------------------------------------------------------
(* Trees of conditions: lib/conditions.ts *)

Leaf(c) == [kind |-> "remaining", card |-> c, atLeast |-> 1]
All(children) == [kind |-> "and", all |-> children]
Any(children) == [kind |-> "or", all |-> children]
IsLeaf(t) == t.kind = "remaining"

WithChildren(t, children) == [t EXCEPT !.all = children]
Joining(t, new) == WithChildren(t, Append(t.all, new))
Kept(children) == SelectSeq(children, LAMBDA t : t # Nothing)

RECURSIVE NodeAt(_, _), PathsOf(_), CardsRequired(_), Normal(_), Put(_, _, _), Pruned(_, _)

NodeAt(t, path) == IF path = <<>> THEN t ELSE NodeAt(t.all[Head(path)], Tail(path))

PathsOf(t) ==
    {<<>>} \cup (IF IsLeaf(t) THEN {}
                 ELSE UNION {{<<i>> \o p : p \in PathsOf(t.all[i])} : i \in DOMAIN t.all})

LeavesOf(t) == {p \in PathsOf(t) : IsLeaf(NodeAt(t, p))}

\* requiredCardIds
CardsRequired(t) ==
    IF IsLeaf(t) THEN {t.card} ELSE UNION {CardsRequired(t.all[i]) : i \in DOMAIN t.all}

\* (mutant) an emptied group stays
NormalWithEmptyGroups(t) ==
    IF IsLeaf(t) THEN t
    ELSE LET children == Kept([i \in DOMAIN t.all |-> Normal(t.all[i])])
         IN IF t.kind = "or" /\ Len(children) = 1 THEN children[1] ELSE WithChildren(t, children)

\* normalize, below the root: no empty group, no alternative of one.
Normal(t) ==
    IF IsLeaf(t) THEN t
    ELSE LET children == Kept([i \in DOMAIN t.all |-> Normal(t.all[i])])
         IN CASE children = <<>> -> Nothing
              [] t.kind = "or" /\ Len(children) = 1 -> children[1]
              [] OTHER -> WithChildren(t, children)

\* The root stays a conjunction.
Rooted(t) ==
    LET normal == IF t = Nothing THEN Nothing ELSE Normal(t)
    IN IF normal = Nothing \/ t.kind = "and" THEN normal ELSE All(<<normal>>)

Put(t, path, new) ==
    IF path = <<>> THEN new
    ELSE WithChildren(t, Kept([t.all EXCEPT ![Head(path)] = Put(@, Tail(path), new)]))

ReplacedAt(t, path, new) == Rooted(Put(t, path, new))

\* (mutant) a root that is an alternative gets the clause among its members
ClauseJoined(t, new) == IF t = Nothing THEN All(<<new>>) ELSE Joining(t, new)

AddClause(t, new) ==
    IF t = Nothing THEN All(<<new>>)
    ELSE IF t.kind = "and" THEN Joining(t, new) ELSE All(<<t, new>>)

AddToGroup(t, path, new) == ReplacedAt(t, path, Joining(NodeAt(t, path), new))

WrapOr(t, path, new) ==
    LET target == NodeAt(t, path)
    IN ReplacedAt(t, path, IF target.kind = "or" THEN Joining(target, new) ELSE Any(<<target, new>>))

TreeWithout(t, path) == ReplacedAt(t, path, Nothing)

Pruned(t, c) ==
    IF IsLeaf(t) THEN IF t.card = c THEN Nothing ELSE t
    ELSE WithChildren(t, Kept([i \in DOMAIN t.all |-> Pruned(t.all[i], c)]))

\* (mutant) one leaf of the card is removed
RemoveOneLeaf(t, c) ==
    TreeWithout(t, CHOOSE p \in LeavesOf(t) : NodeAt(t, p).card = c)

RemoveLeavesOfCard(t, c) == Rooted(Pruned(t, c))

AtLeast(n) == IF n < 1 THEN 1 ELSE n
SetAtLeast(t, path, n) == ReplacedAt(t, path, [NodeAt(t, path) EXCEPT !.atLeast = AtLeast(n)])

\* toEngineCondition, as the engine judges it by what is left of each card in the
\* deck.  A card that is not there has none left.
RECURSIVE Holds(_, _)
Holds(t, left) ==
    CASE IsLeaf(t) -> left[t.card] >= t.atLeast
      [] t.kind = "and" -> \A i \in DOMAIN t.all : Holds(t.all[i], left)
      [] t.kind = "or" -> \E i \in DOMAIN t.all : Holds(t.all[i], left)

---------------------------------------------------------------------------
(* What is stored, and what the server demands of it *)

\* The requirements of an older document become one conjunction a source.
Upgraded(requirements) ==
    [s \in {r.source : r \in requirements} |->
        LET rows == {r \in requirements : r.source = s}
            order == CHOOSE f \in [1..Cardinality(rows) -> rows] :
                         \A i, j \in DOMAIN f : i < j => f[i].rank < f[j].rank
        IN All([i \in DOMAIN order |-> [Leaf(order[i].card) EXCEPT !.atLeast = order[i].min]])]

UpgradeConfiguration(d) == [d EXCEPT !.conditions = Upgraded(@)]

\* configurationFromState
Document ==
    [starters |-> starters, dead |-> dead, pairs |-> [p \in pairs |-> p \in excluded],
     conditions |-> conditions, saved |-> saved]

\* stateFromConfiguration
Opened(d) ==
    /\ starters = d.starters /\ dead = d.dead
    /\ pairs = DOMAIN d.pairs /\ excluded = {p \in DOMAIN d.pairs : d.pairs[p]}
    /\ conditions = d.conditions
    /\ saved = d.saved

\* criterionInvalid
Inverted(k) == k.min # Nothing /\ k.max # Nothing /\ k.min > k.max

\* validateCondition
EmptyGroup(t) == \E p \in PathsOf(t) : ~IsLeaf(NodeAt(t, p)) /\ NodeAt(t, p).all = <<>>
TooDeep(t) == \E p \in PathsOf(t) : Len(p) >= DepthLimit
TooLong(t) == Cardinality(LeavesOf(t)) > LeafLimit
TooMany(t) == \E p \in LeavesOf(t) : NodeAt(t, p).atLeast > QuantityLimit

\* validateParams
BadBounds(k) == Inverted(k) \/ \E b \in {k.min, k.max} \ {Nothing} : b \notin 0..SafeLimit

\* parseConfiguration, of the annotations: a combo joins two cards, a condition has
\* a source of this deck and no empty group.
WellBuilt(d) ==
    /\ \A p \in DOMAIN d.pairs : Cardinality(p) = 2
    /\ \A s \in DOMAIN d.conditions :
           /\ Cardinality(s) = 1 \/ s \in DOMAIN d.pairs
           /\ ~EmptyGroup(d.conditions[s])
           /\ \A p \in LeavesOf(d.conditions[s]) : NodeAt(d.conditions[s], p).atLeast >= 1

\* What the editor lets a user write and the server refuses.
Oversized(d) ==
    \/ \E s \in DOMAIN d.conditions :
           LET t == d.conditions[s] IN TooDeep(t) \/ TooLong(t) \/ TooMany(t)
    \/ \E i \in DOMAIN d.saved : \E j \in DOMAIN d.saved[i] : BadBounds(d.saved[i][j])

ParseConfiguration(d) == WellBuilt(d) /\ ~Oversized(d)

Init ==
    /\ \E d \in Documents \cup {UpgradeConfiguration(d) : d \in OlderDocuments} : Opened(d)
    /\ criteria = <<[subject |-> "starts", min |-> 1, max |-> Nothing]>>
    /\ tab = "annotate"
    /\ mode = "select" /\ pivot = Nothing /\ dependent = Nothing /\ modCount = 0
    /\ gestures = 0

Gesture == gestures < MaxGestures /\ gestures' = gestures + 1

---------------------------------------------------------------------------
(* Annotations of the store *)

ToggleStarter(c) ==
    /\ starters' = IF c \in starters THEN starters \ {c} ELSE starters \cup {c}
    /\ UNCHANGED <<dead, pairs, excluded, conditions, saved>>

\* toggleDeadFirst, toggleDeadSecond
ToggleDead(c, position) ==
    /\ dead' = IF <<c, position>> \in dead THEN dead \ {<<c, position>>} ELSE dead \cup {<<c, position>>}
    /\ UNCHANGED <<starters, pairs, excluded, conditions, saved>>

SetPairExcluded(p, out) ==
    /\ excluded' = IF out THEN excluded \cup {p} ELSE excluded \ {p}
    /\ UNCHANGED <<starters, dead, pairs, conditions, saved>>

\* A combo the deck has goes out of use or back; otherwise it is made.
TogglePair(a, b) ==
    /\ a # b
    /\ \/ {a, b} \in pairs /\ SetPairExcluded({a, b}, {a, b} \notin excluded)
       \/ /\ {a, b} \notin pairs
          /\ pairs' = pairs \cup {{a, b}}
          /\ UNCHANGED <<starters, dead, excluded, conditions, saved>>

RemovePairFromDeck(p) ==
    /\ pairs' = pairs \ {p} /\ excluded' = excluded \ {p}
    /\ conditions' = [s \in DOMAIN conditions \ {p} |-> conditions[s]]
    /\ UNCHANGED <<starters, dead, saved>>

TreeOf(s) == IF s \in DOMAIN conditions THEN conditions[s] ELSE Nothing

SetCondition(s, t) ==
    /\ conditions' = IF t = Nothing THEN [x \in DOMAIN conditions \ {s} |-> conditions[x]]
                     ELSE [x \in DOMAIN conditions \cup {s} |-> IF x = s THEN t ELSE conditions[x]]
    /\ UNCHANGED <<starters, dead, pairs, excluded, saved>>

\* A card the source requires anywhere is no longer required; another is, once.
ToggleRequirement(s, c) ==
    LET t == TreeOf(s)
    IN SetCondition(s, IF t # Nothing /\ c \in CardsRequired(t) THEN RemoveLeavesOfCard(t, c)
                       ELSE AddClause(t, Leaf(c)))

---------------------------------------------------------------------------
(* The grid: one tile for each card of main and side, one mode for all *)

\* The clicks of the modes "hopt" and "nonengine" write the library of the account
\* (module Library).
Modes == {"select", "combo", "hopt", "starter", "nonengine", "prereq"}
Tabs == {"annotate", "combos", "inventory"}

Tiles == main \cup side

\* The grid is mounted anew each time its tab is.
ShowTab(t) ==
    /\ t # tab /\ tab' = t
    /\ mode' = "select" /\ pivot' = Nothing /\ dependent' = Nothing /\ modCount' = 0
    /\ UNCHANGED <<annotated, criteria, gestures>>

\* From the bar of modes, there when the main deck has a card, or a key, which no
\* selection has: what was being made is left.
EnterMode(m) ==
    /\ tab = "annotate" /\ (main # {} \/ m # "select")
    /\ mode' = m /\ pivot' = Nothing /\ dependent' = Nothing /\ modCount' = 0
    /\ UNCHANGED <<tab, annotated, criteria, gestures>>

\* Escape, or "Terminer".
ExitMode ==
    /\ tab = "annotate" /\ mode # "select"
    /\ mode' = "select" /\ pivot' = Nothing /\ dependent' = Nothing
    /\ UNCHANGED <<tab, modCount, annotated, criteria, gestures>>

\* "Nouveau pivot", "Nouvelle source" of the banner.
StartAfresh ==
    /\ main # {} /\ (pivot # Nothing \/ dependent # Nothing)
    /\ pivot' = Nothing /\ dependent' = Nothing
    /\ UNCHANGED <<tab, mode, modCount, annotated, criteria, gestures>>

\* linkedSet: the tiles marked as joined to the pivot.
LinkedSet == {c \in Tiles \ {pivot} : {pivot, c} \in pairs \ excluded}

\* requiredByActive: the tiles marked as required by the source.
RequiredByActive ==
    IF dependent = Nothing \/ {dependent} \notin DOMAIN conditions THEN {}
    ELSE CardsRequired(conditions[{dependent}])

\* What the tiles show of the mode.
Marks ==
    CASE mode = "combo" -> LinkedSet
      [] mode = "prereq" -> RequiredByActive
      [] mode = "starter" -> starters
      [] OTHER -> {}

Changed == Gesture /\ modCount' = modCount + 1 /\ UNCHANGED <<tab, mode, pivot, dependent, criteria>>

\* The first click names the card, a second on it lets it go.
Pick(held, c) == IF held = c THEN Nothing ELSE c

\* dispatch
Click(c) ==
    \/ mode = "starter" /\ Changed /\ ToggleStarter(c)
    \/ /\ mode = "combo" /\ pivot \in {Nothing, c}
       /\ pivot' = Pick(pivot, c)
       /\ UNCHANGED <<tab, mode, dependent, modCount, annotated, criteria, gestures>>
    \/ mode = "combo" /\ pivot \notin {Nothing, c} /\ Changed /\ TogglePair(pivot, c)
    \/ /\ mode = "prereq" /\ dependent \in {Nothing, c}
       /\ dependent' = Pick(dependent, c)
       /\ UNCHANGED <<tab, mode, pivot, modCount, annotated, criteria, gestures>>
    \/ mode = "prereq" /\ dependent \notin {Nothing, c} /\ Changed /\ ToggleRequirement({dependent}, c)

\* "Ses combos" of the menu
CombosOf(c) == {p \in pairs : c \in p}

\* The menu of a tile, in any mode: what it writes of the deck.
CardMenu(c) ==
    /\ tab = "annotate" /\ Gesture
    /\ \/ \E position \in {"first", "second"} : ToggleDead(c, position)
       \/ \E p \in CombosOf(c) : RemovePairFromDeck(p)
    /\ UNCHANGED <<criteria, grid>>

---------------------------------------------------------------------------
(* The list of combos, and the editor of a condition *)

\* Two cards of the main deck are chosen; a combo the deck has is toggled.
NewCombo(a, b) ==
    /\ tab = "combos" /\ Gesture /\ TogglePair(a, b)
    /\ UNCHANGED <<criteria, grid>>

\* A combo whose cards are both there is put out of use or back; any is removed.
Applicable(p) == p \subseteq main
ComboRow(p) ==
    /\ tab = "combos" /\ Gesture
    /\ \/ Applicable(p) /\ SetPairExcluded(p, p \notin excluded)
       \/ RemovePairFromDeck(p)
    /\ UNCHANGED <<criteria, grid>>

\* The inventory lists every condition, once there is a card; the list of combos those
\* of its rows.
SourcesShown ==
    CASE tab = "inventory" /\ main # {} -> DOMAIN conditions
      [] tab = "combos" -> {p \in pairs : Applicable(p)}
      [] OTHER -> {}

\* What the editor makes of a tree with the leaf at this path: an alternative, another
\* quantity, or nothing; and of its groups below the root, one member more.
EditsOfLeaf(t, path) ==
    {WrapOr(t, path, Leaf(c)) : c \in main}
    \cup {SetAtLeast(t, path, n) : n \in Quantities}
    \cup {TreeWithout(t, path)}
EditsOfGroups(t) ==
    {AddToGroup(t, g, Leaf(c)) : g \in PathsOf(t) \ (LeavesOf(t) \cup {<<>>}), c \in main}
Edits(t) ==
    {AddClause(t, Leaf(c)) : c \in main}
    \cup (IF t = Nothing THEN {}
          ELSE EditsOfGroups(t) \cup UNION {EditsOfLeaf(t, p) : p \in LeavesOf(t)})

EditCondition(s) ==
    /\ Gesture
    /\ \E t \in Edits(TreeOf(s)) : SetCondition(s, t)
    /\ UNCHANGED <<criteria, grid>>

---------------------------------------------------------------------------
(* The query panel *)

\* Bound: an empty field is no bound, what is no number changes nothing.
Bound(old, typed) ==
    CASE typed = Nothing -> Nothing
      [] typed = NotANumber -> old
      [] OTHER -> IF typed < 0 THEN 0 ELSE typed

Typed == Numbers \cup {Nothing, NotANumber}

CriterionRow(i) ==
    \/ \E s \in Subjects : criteria' = [criteria EXCEPT ![i].subject = s]
    \/ \E x \in Typed : criteria' = [criteria EXCEPT ![i].min = Bound(@, x)]
    \/ \E x \in Typed : criteria' = [criteria EXCEPT ![i].max = Bound(@, x)]
    \/ criteria' = [j \in 1..(Len(criteria) - 1) |-> criteria[IF j < i THEN j ELSE j + 1]]

\* The query is the page's: nothing of the deck changes.
EditQuery ==
    /\ Gesture
    /\ \/ \E i \in DOMAIN criteria : CriterionRow(i)
       \/ criteria' = Append(criteria, [subject |-> "starts", min |-> 1, max |-> Nothing])
    /\ UNCHANGED <<annotated, grid>>

\* Whatever its bounds, a query that has a name is saved.
SaveQuery ==
    /\ Gesture
    /\ saved' = Append(saved, criteria)
    /\ UNCHANGED <<starters, dead, pairs, excluded, conditions, criteria, grid>>

LoadSavedQuery(i) ==
    /\ Gesture
    /\ criteria' = saved[i]
    /\ UNCHANGED <<annotated, grid>>

DeleteSavedQuery(i) ==
    /\ Gesture
    /\ saved' = [j \in 1..(Len(saved) - 1) |-> saved[IF j < i THEN j ELSE j + 1]]
    /\ UNCHANGED <<starters, dead, pairs, excluded, conditions, criteria, grid>>

---------------------------------------------------------------------------

Next ==
    \/ \E t \in Tabs : ShowTab(t)
    \/ \E m \in Modes : EnterMode(m)
    \/ ExitMode \/ StartAfresh
    \/ \E c \in Tiles : Click(c) \/ CardMenu(c)
    \/ \E a, b \in main : NewCombo(a, b)
    \/ \E p \in pairs : ComboRow(p)
    \/ \E s \in SourcesShown : EditCondition(s)
    \/ EditQuery \/ SaveQuery
    \/ \E i \in DOMAIN saved : LoadSavedQuery(i) \/ DeleteSavedQuery(i)

---------------------------------------------------------------------------
(* Properties *)

\* Whatever the gestures, the deck is saved (and its draft kept) unless it has
\* outgrown what the server accepts of a condition or holds a query with bounds it
\* refuses; and what is saved opens again as it was.
SavedAsItIs ==
    /\ ParseConfiguration(Document) \/ Oversized(Document)
    /\ Opened(Document)

\* The editor's gestures say what they do to a condition, wherever in the tree: a
\* clause demands its card besides, an alternative accepts it instead and nothing
\* else, and a tree put in normal form means what it meant; a requirement clicked
\* on then off leaves the condition it found.
ConditionsMeanWhatIsClicked ==
    \A s \in DOMAIN conditions, c \in main :
        LET t == conditions[s]
            normal == Rooted(t)
            clause == AddClause(t, Leaf(c))
            unclicked == IF c \in CardsRequired(t) THEN t ELSE RemoveLeavesOfCard(clause, c)
            alternatives == {WrapOr(t, p, Leaf(c)) : p \in LeavesOf(t)}
        IN \A left \in [CardsRequired(t) \cup {c} -> 0..MaxLeft] :
              LET before == Holds(t, left)
                  enough == left[c] >= 1
              IN  /\ Holds(normal, left) = before
                  /\ Holds(clause, left) = (before /\ enough)
                  /\ Holds(unclicked, left) = before
                  /\ \A x \in alternatives :
                        LET after == Holds(x, left)
                        IN (before => after) /\ (after => before \/ enough)

\* A click of a mode changes the mark of one tile and of no other.
OneMarkAClick ==
    [][modCount' > modCount =>
         Cardinality((Marks \ Marks') \cup (Marks' \ Marks)) = 1]_vars
=============================================================================
