------------------------------ MODULE MCEditor ------------------------------
(* One card in the main deck and one in the extra; in the side a card that   *)
(* can replace the first, and room for one that can replace the second; one  *)
(* opponent.  Or the annotations of a deck of two cards, one more in its      *)
(* side, whose zones change once.                                            *)
EXTENDS Editor, Integers, TLC

CONSTANTS m, x, s, y, o1

MCCards == {m, x, s, y}
MCZoneOf == [c \in MCCards |-> IF c \in {x, y} THEN "extra" ELSE "main"]
MCOpponents == {o1}
MCMainSizes == 2..3

List(copies) == [c \in MCCards |-> IF c \in DOMAIN copies THEN copies[c] ELSE 0]

\* Against o1: both copies of m leave for s when first, nothing when second.
TwoForTwo ==
    [o \in MCOpponents |->
        [first |-> [outgoing |-> List(m :> 2), incoming |-> List(s :> 2)],
         second |-> [outgoing |-> List(<<>>), incoming |-> List(<<>>)]]]

Saved ==
    [deck |-> [main |-> List(m :> 2), extra |-> List(x :> 1),
               side |-> List(s :> 2)],
     matchups |-> MCOpponents, plans |-> TwoForTwo]

\* The same plans, which the deck of the draft no longer allows.
Drafted ==
    [Saved EXCEPT !.deck = [main |-> List(m :> 1 @@ s :> 1), extra |-> List(x :> 1),
                            side |-> List(s :> 1)]]

MCConfigurations == {Saved, Drafted}

---------------------------------------------------------------------------
Remains(c, n) == [kind |-> "remaining", card |-> c, atLeast |-> n]
Group(kind, children) == [kind |-> kind, all |-> children]
Query == <<[subject |-> "group", min |-> Nothing, max |-> 0]>>
\* What an archive may bring: a group of one, a root that is an alternative or a leaf.
Imported ==
    [starters |-> {s}, dead |-> {<<s, "second">>}, pairs |-> {m, s} :> FALSE @@ {m, y} :> TRUE,
     conditions |-> {m, s} :> Group("or", <<Group("and", <<Remains(s, 1)>>), Remains(y, 1)>>)
                    @@ {s} :> Remains(m, 1),
     saved |-> <<Query>>]
Requires(source, rank, card, min) == [source |-> source, rank |-> rank, card |-> card, min |-> min]
Older ==
    [starters |-> {m}, dead |-> {}, pairs |-> {m, s} :> FALSE, saved |-> <<>>,
     conditions |-> {Requires({m}, 2, s, 1), Requires({m}, 1, y, 2), Requires({m, s}, 3, y, 1)}]
Bare == [starters |-> {}, dead |-> {}, pairs |-> <<>>, conditions |-> <<>>, saved |-> <<>>]
MCNumbers == {-1, 0, 2, 4}
MCDocuments == {Bare, Imported}
MCOlderDocuments == {Older}

\* Three stories, so that the gestures of one do not multiply those of another: the
\* zones and plans; the annotations, while at most one card leaves; the query.
VARIABLE story
OneLeaves == edits' = 1 /\ removalToast' # NoToast /\ deck'["extra"] = deck["extra"]
grid == <<tab, mode, pivot, dependent, modCount>>
WithoutLibrary == mode' \notin {"hopt", "nonengine"}
MCInit ==
    /\ EditorInit
    /\ \/ story = "plans" /\ A!Opened(Bare) /\ draft = (deck = Drafted.deck)
       \/ story = "annotations" /\ ~draft /\ deck = Drafted.deck /\ ~A!Opened(Bare)
       \/ story = "queries" /\ ~draft /\ deck = Saved.deck /\ saved # <<>>
MCNext ==
    /\ story' = story
    /\ \/ story = "plans" /\ PlanStep
       \/ story = "annotations" /\ ZoneStep /\ OneLeaves
       \/ /\ story # "plans" /\ AnnotationStep
          /\ IF story = "annotations" THEN WithoutLibrary /\ UNCHANGED <<criteria, saved>>
             ELSE UNCHANGED <<starters, dead, pairs, excluded, conditions, grid>>
MCSpec == MCInit /\ [][MCNext]_<<vars, annotationVars, story>>
=============================================================================
