------------------------------- MODULE Prune --------------------------------
(***************************************************************************)
(* server/scripts/prune-stale-cards.ts.  The catalogue of cards keeps the  *)
(* passcodes its source has dropped; the script carries every reference to *)
(* such an orphan over to the one card of the same name the source still   *)
(* has, then deletes the orphan.  No foreign key does it: each place of a  *)
(* passcode is rewritten by statements of its own, in one transaction,     *)
(* while the site may be serving.                                          *)
(*                                                                         *)
(* Under READ COMMITTED the script sees, at each statement, what others    *)
(* have committed; a row it has rewritten is locked, and others see its    *)
(* former value, until it ends.  `work' is what the script has rewritten,  *)
(* `touched' the decks concerned.  A report is one step: the statements of *)
(* others fall between two reports, not within one.                        *)
(***************************************************************************)
EXTENDS Configurations, TLC

CONSTANTS Decks,
          NoDeck,
          CardName,     \* CardName[c]: the name of c in the catalogue, a number
          Answers,      \* what the source may answer
          MinExpected,  \* below this the answer is taken for a failure
          Profiles, GroupIds,
          NoReference, References,
          MaxScripts    \* bound: times the script is started

ASSUME PruneAssumption == NoDeck \notin Configuration /\ Null \notin Profiles \cup GroupIds \cup BOOLEAN

VARIABLES catalog,    \* cards
          decks,      \* committed decks, NoDeck for none
          flags,      \* card_flags of the account
          labels,     \* card_categories: pairs of a card and a category
          references, \* card_references
          script,     \* the transaction of the script
          scripts

databaseVars == <<catalog, decks, flags, labels, references>>
scriptVars == <<script, scripts>>

Choice == [hopt : BOOLEAN \cup {Null}, choice : BOOLEAN,
           availability : Profiles \cup {Null}, group : GroupIds \cup {Null}]
NoChoice == [hopt |-> Null, choice |-> FALSE, availability |-> Null, group |-> Null]
\* What card_flags keeps: a profile is a choice, a shared limit demands a profile.
Annotation == {row \in Choice : /\ row.availability # Null => row.choice
                                /\ row.group # Null => row.availability # Null}

View == [decks : [Decks -> Configuration \cup {NoDeck}], flags : [Cards -> Annotation],
         labels : SUBSET (Cards \X CategoryIds), references : [Cards -> References \cup {NoReference}]]

---------------------------------------------------------------------------
(* One report, from the passcode o to the passcode n *)
Renamed(o, n, c) == IF c = o THEN n ELSE c

\* Mutant: the order of the two cards is kept.
FinalUnordered(o, n, p) == [p EXCEPT !.a = Renamed(o, n, @), !.b = Renamed(o, n, @)]

\* least and greatest of the two cards, once renamed: the row keeps its canonical order.
Final(o, n, p) ==
    LET a == Renamed(o, n, p.a)
        b == Renamed(o, n, p.b)
    IN [p EXCEPT !.a = Min({a, b}), !.b = Max({a, b})]
SameCards(p, q) == p.a = q.a /\ p.b = q.b
Degenerate(o, n, p) == {p.a, p.b} = {o, n}
Concerned(o, n, p) == o \in {p.a, p.b}

Standing(o, n, deck) == {p \in deck.pairs : ~Degenerate(o, n, p)}
\* dcp_dup: of two pairs that become one, the pair the report does not concern wins.
Winner(o, n, deck, p) ==
    {q \in Standing(o, n, deck) : q # p /\ Concerned(o, n, p) /\ SameCards(Final(o, n, p), Final(o, n, q))}
Losers(o, n, deck) == {p \in Standing(o, n, deck) : Winner(o, n, deck, p) # {}}
HasCondition(deck, p) == \E k \in deck.conditions : k.pair = p.id

\* A source of starts would have two conditions: a pair, a card.
MergesPairs(o, n, deck) ==
    \E p \in Losers(o, n, deck) :
        HasCondition(deck, p) /\ \E q \in Winner(o, n, deck, p) : HasCondition(deck, q)
MergesCards(o, n, deck) == \E k, l \in deck.conditions : k.card = o /\ l.card = n

\* A plan would bring a card in and take it out.
MergesDirections(o, n, deck) ==
    \E p \in Plans, d, e \in Directions : d # e /\ deck.plans[p][d][o] > 0 /\ deck.plans[p][e][n] > 0

Pairs(o, n, deck) ==
    {Final(o, n, p) : p \in Standing(o, n, deck) \ Losers(o, n, deck)}

RenamedLeaves(o, n, leaves) == [i \in DOMAIN leaves |-> Renamed(o, n, leaves[i])]

\* The condition of a degenerate pair is deleted, that of a loser goes to the winner.
Source(o, n, deck, k) ==
    LET losing == {p \in Losers(o, n, deck) : p.id = k.pair}
    IN IF losing = {} THEN k.pair
       ELSE (CHOOSE q \in UNION {Winner(o, n, deck, p) : p \in losing} : TRUE).id
Conditions(o, n, deck) ==
    {[card |-> Renamed(o, n, k.card), pair |-> Source(o, n, deck, k),
      leaves |-> RenamedLeaves(o, n, k.leaves)] :
        k \in {k \in deck.conditions : k.pair = Null \/ \E p \in Standing(o, n, deck) : p.id = k.pair}}

\* Mutant: the row of the orphan is deleted when the other card has one.
AddedToNone(o, n, list) ==
    [c \in Cards |-> CASE c = o -> 0
                       [] c = n -> IF list[n] > 0 THEN list[n] ELSE list[o]
                       [] OTHER -> list[c]]

\* Copies are added up to three; the row of the orphan goes, or becomes the other's.
Added(o, n, list) ==
    [c \in Cards |-> CASE c = o -> 0
                       [] c = n -> Min({MaxCopies, list[n] + list[o]})
                       [] OTHER -> list[c]]

RemapDeck(o, n, deck) ==
    [deck EXCEPT !.cards = [z \in Zones |-> Added(o, n, @[z])],
                 !.starters = {Renamed(o, n, c) : c \in @},
                 !.pairs = Pairs(o, n, deck),
                 !.conditions = Conditions(o, n, deck),
                 !.dead = {<<Renamed(o, n, x[1]), x[2]>> : x \in @},
                 !.plans = [p \in Plans |-> [d \in Directions |-> Added(o, n, @[p][d])]]]

\* card_flags: the two rows say different things.
Contradict(s, d) ==
    \/ s.availability # Null /\ d.availability # Null /\ s.availability # d.availability
    \/ s.choice /\ s.availability = Null /\ d.availability # Null
    \/ d.choice /\ d.availability = Null /\ s.availability # Null
    \/ s.group # Null /\ d.group # Null /\ s.group # d.group

Coalesce(a, b) == IF a # Null THEN a ELSE b
Merged(s, d) ==
    [hopt |-> IF TRUE \in {d.hopt, s.hopt} THEN TRUE ELSE Coalesce(d.hopt, s.hopt),
     choice |-> d.choice \/ s.choice,
     availability |-> Coalesce(d.availability, s.availability),
     group |-> Coalesce(d.group, s.group)]
RemapFlags(o, n, f) == [f EXCEPT ![o] = NoChoice, ![n] = Merged(f[o], f[n])]

RemapReferences(o, n, r) ==
    IF r[o] = NoReference THEN r ELSE [r EXCEPT ![o] = NoReference, ![n] = r[o]]

\* remap: what it refuses cancels the whole transaction.
Refuses(o, n, view) ==
    \/ \E d \in Decks : view.decks[d] # NoDeck /\
           \/ MergesPairs(o, n, view.decks[d])
           \/ MergesCards(o, n, view.decks[d])
           \/ MergesDirections(o, n, view.decks[d])
    \/ Contradict(view.flags[o], view.flags[n])
    \/ view.references[o] # NoReference /\ view.references[n] # NoReference
Remap(o, n, view) ==
    [decks |-> [d \in Decks |-> IF view.decks[d] = NoDeck THEN NoDeck ELSE RemapDeck(o, n, view.decks[d])],
     flags |-> RemapFlags(o, n, view.flags),
     labels |-> {<<Renamed(o, n, x[1]), x[2]>> : x \in view.labels},
     references |-> RemapReferences(o, n, view.references)]

---------------------------------------------------------------------------
(* What the script sees *)
MentionedIn(view) ==
    (UNION {Mentions(view.decks[d]) : d \in {d \in Decks : view.decks[d] # NoDeck}})
    \cup {c \in Cards : view.flags[c] # NoChoice} \cup {x[1] : x \in view.labels}
    \cup {c \in Cards : view.references[c] # NoReference}

Committed == [decks |-> decks, flags |-> flags, labels |-> labels, references |-> references]
Seen ==
    [decks |-> [d \in Decks |-> IF d \in script.touched THEN script.work.decks[d] ELSE decks[d]],
     flags |-> IF script.annotations THEN script.work.flags ELSE flags,
     labels |-> IF script.annotations THEN script.work.labels ELSE labels,
     references |-> IF script.annotations THEN script.work.references ELSE references]

Orphans(answer) == catalog \ answer
Targets(answer, c) == {t \in catalog \cap answer : CardName[t] = CardName[c]}
Remappable(answer) == {c \in Orphans(answer) : Cardinality(Targets(answer, c)) = 1}
Deletable(answer) ==
    {c \in Orphans(answer) \ Remappable(answer) : c \notin MentionedIn(Committed)}

Idle == [at |-> "idle", answer |-> {}, todo |-> {}, doomed |-> {}, touched |-> {},
         annotations |-> FALSE, work |-> Null, apply |-> FALSE, moved |-> {}, late |-> {}]

PruneInit == script = Idle /\ scripts = 0

\* What was fetched is taken for the whole source.
Trusted(answer) == Cardinality(answer) >= MinExpected

\* Fetching, and steps 0 to 4.  History: `moved', the orphans reported; `late', what others
\* have written since the control.
PruneStart(answer, apply, onlyRemappable) ==
    /\ script.at = "idle" /\ scripts < MaxScripts
    /\ Trusted(answer)
    /\ scripts' = scripts + 1
    /\ script' = [Idle EXCEPT
           !.at = "remap", !.answer = answer, !.apply = apply, !.work = Committed,
           !.todo = Remappable(answer) \cap MentionedIn(Committed),
           !.doomed = Remappable(answer) \cup IF onlyRemappable THEN {} ELSE Deletable(answer)]
    /\ UNCHANGED databaseVars

\* In the order of the names.
PruneRemap(c) ==
    LET n == CHOOSE t \in Targets(script.answer, c) : TRUE
        hit == {d \in Decks : Seen.decks[d] # NoDeck /\ c \in Mentions(Seen.decks[d])}
        after == Remap(c, n, Seen)
        before == Seen
    IN
    /\ script.at = "remap"
    /\ c \in script.todo /\ \A k \in script.todo : CardName[c] <= CardName[k]
    /\ script' = IF Refuses(c, n, before) THEN [Idle EXCEPT !.at = "failed"]
                 ELSE [script EXCEPT
                         !.todo = @ \ {c}, !.moved = @ \cup {c}, !.work = after, !.touched = @ \cup hit,
                         !.annotations = @ \/ <<after.flags, after.labels, after.references>>
                                              # <<before.flags, before.labels, before.references>>]
    /\ UNCHANGED <<databaseVars, scripts>>

\* Step 6, after the orphans are deleted: nothing it can see may name one of them.
PruneControl ==
    /\ script.at = "remap" /\ script.todo = {}
    /\ script' = IF script.doomed \cap MentionedIn(Seen) = {} THEN [script EXCEPT !.at = "controlled"]
                 ELSE [Idle EXCEPT !.at = "failed"]
    /\ UNCHANGED <<databaseVars, scripts>>

Catalogued(doomed) == catalog' = catalog \ doomed

PruneCommit ==
    /\ script.at = "controlled" /\ script.apply
    /\ Catalogued(script.doomed)
    /\ decks' = Seen.decks /\ flags' = Seen.flags /\ labels' = Seen.labels
    /\ references' = Seen.references
    /\ script' = Idle
    /\ UNCHANGED scripts

\* The simulation plays everything, then cancels.
PruneRollback ==
    /\ script.at = "controlled" /\ ~script.apply
    /\ script' = Idle
    /\ UNCHANGED <<databaseVars, scripts>>

\* A refusal, or a statement that fails (a deadlock with a page that saves, a lost
\* connection): the transaction is cancelled.
PruneAbort ==
    /\ script.at \in {"failed", "remap"}
    /\ script' = Idle
    /\ UNCHANGED <<databaseVars, scripts>>

PruneStep ==
    \/ \E answer \in Answers, apply, only \in BOOLEAN : PruneStart(answer, apply, only)
    \/ \E c \in Cards : PruneRemap(c)
    \/ PruneControl
    \/ PruneCommit
    \/ PruneRollback
    \/ PruneAbort

---------------------------------------------------------------------------
(* What others may do meanwhile *)
\* A row the script has rewritten is locked until it ends.
DeckFree(d) == d \notin script.touched
AnnotationsFree == ~script.annotations
\* The script learns what others commit; `late' remembers what came after its control.
ScriptAfter(written) ==
    script' = IF script.at = "controlled" THEN [script EXCEPT !.late = @ \cup written] ELSE script

---------------------------------------------------------------------------
(* What a report must do, stated without its statements: every card of a   *)
(* deck is read under its new passcode.                                    *)
NewName(map, c) == IF c \in DOMAIN map THEN map[c] ELSE c
SumUnder(map, list, c) ==
    Min({MaxCopies, Cardinality(CopiesOf(list, {k \in Cards : NewName(map, k) = c}))})
CoupleUnder(map, p) == {NewName(map, p.a), NewName(map, p.b)}
\* The source of a condition under the new passcodes: a card, or a couple of cards.
SourceUnder(map, deck, k) ==
    IF k.pair = Null THEN {NewName(map, k.card)}
    ELSE CoupleUnder(map, CHOOSE p \in deck.pairs : p.id = k.pair)
Real(map, deck, k) == k.pair = Null \/ Cardinality(SourceUnder(map, deck, k)) = 2

Reads(map, before, after) ==
    /\ \A c \in Cards, z \in Zones : after.cards[z][c] = SumUnder(map, before.cards[z], c)
    /\ \A c \in Cards, p \in Plans, d \in Directions :
           after.plans[p][d][c] = SumUnder(map, before.plans[p][d], c)
    /\ after.starters = {NewName(map, c) : c \in before.starters}
    /\ after.dead = {<<NewName(map, x[1]), x[2]>> : x \in before.dead}
    /\ {{p.a, p.b} : p \in after.pairs}
           = {s \in {CoupleUnder(map, p) : p \in before.pairs} : Cardinality(s) = 2}
    /\ {<<SourceUnder(<<>>, after, k), k.leaves>> : k \in after.conditions}
           = {<<SourceUnder(map, before, k),
                [i \in DOMAIN k.leaves |-> NewName(map, k.leaves[i])]>> :
                  k \in {k \in before.conditions : Real(map, before, k)}}
    /\ after.queries = before.queries
=============================================================================
