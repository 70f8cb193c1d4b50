------------------------------ MODULE SidePlan ------------------------------
(***************************************************************************)
(* Editing the zones of a deck and its side plans: the gestures of         *)
(* web/src/store/deckStore.ts on a deck that is open, over the pure rules  *)
(* of web/src/lib (zones.ts, sidePlan.ts, matchups.ts, swapPreview.ts).    *)
(*                                                                         *)
(* A plan says, for an opponent and a position, which copies leave the     *)
(* main or the extra deck and which enter from the side.  Plans are kept   *)
(* beside the deck and are not rewritten when it changes; nor is the       *)
(* selection, the swap being prepared on the open plan.                    *)
(*                                                                         *)
(* A list of cards is the function from cards to their copies: the order   *)
(* of cards in a zone or a plan is left out.                               *)
(***************************************************************************)
EXTENDS Naturals, Sequences, FiniteSets

CONSTANTS
    Cards,              \* the cards the gestures meet
    ZoneOf,             \* zone of play of each card by its type, "none" if unknown
    Opponents,          \* opponents a plan can be made against
    NoOpponent,         \* the base deck is studied
    NoToast,            \* no removal to undo
    MaxCopies,          \* copies of a card: 3
    MainSizes,          \* sizes of a legal main deck: 40..60
    ZoneMax,            \* size of a legal extra or side deck: 15
    Configurations,     \* decks with their plans, as the server or a draft holds them
    MaxEdits            \* bound: edits of the deck or its plans

PlayZones == {"main", "extra"}
Zones == PlayZones \cup {"side"}
Positions == {"first", "second"}
Directions == {"outgoing", "incoming"}

Lists == [Cards -> Nat]
NoCards == [c \in Cards |-> 0]
Plans == [Directions -> Lists]
EmptyPlan == [dir \in Directions |-> NoCards]
Decks == [Zones -> [Cards -> 0..MaxCopies]]
Removals == [card : Cards, zone : Zones, copies : 1..MaxCopies]

\* A card does not enter and leave in one plan (R2).
OneWay(plan) == \A c \in Cards : plan.outgoing[c] = 0 \/ plan.incoming[c] = 0

\* What validateMatchups accepts of a plan's lists.
ValidPlan(plan) ==
    /\ OneWay(plan)
    /\ \A c \in Cards : plan.outgoing[c] <= MaxCopies /\ plan.incoming[c] <= MaxCopies

ASSUME SidePlanAssumption ==
    /\ IsFiniteSet(Cards)
    /\ NoOpponent \notin Opponents /\ NoToast \notin Removals
    /\ ZoneOf \in [Cards -> PlayZones \cup {"none"}]
    /\ MaxCopies \in Nat \ {0} /\ MainSizes \subseteq Nat /\ ZoneMax \in Nat /\ MaxEdits \in Nat
    /\ \A k \in Configurations :
          /\ k.deck \in Decks
          /\ k.matchups \subseteq Opponents
          /\ k.plans \in [Opponents -> [Positions -> Plans]]
          /\ \A o \in Opponents, p \in Positions : ValidPlan(k.plans[o][p])

VARIABLES
    deck,           \* copies of each card in each zone
    matchups,       \* opponents that have plans
    plans,          \* their plans, by opponent and position
    draft,          \* a draft is offered
    study,          \* opponent studied; he may have been removed
    context,        \* position studied
    selection,      \* the swap being prepared
    swapHistory,    \* swaps made on the open plan, with the plan before (history)
    removalToast,   \* the removal that can be undone
    edits,          \* edits made
    retouched,      \* history: the open plan was retouched since the first of swapHistory
    grown,          \* history: the card of the toast may have come back since
    exempt          \* history: cards loaded above MaxCopies, or restored over what came back

deckVars == <<deck, removalToast, grown, exempt>>
planVars == <<matchups, plans>>
studyVars == <<study, context, selection, swapHistory, retouched>>
vars == <<deckVars, planVars, studyVars, draft, edits>>

Swaps == [Directions -> [Cards -> 0..MaxCopies]]

TypeOK ==
    /\ deck \in Decks
    /\ matchups \subseteq Opponents
    /\ plans \in [Opponents -> [Positions -> Plans]]
    /\ draft \in BOOLEAN
    /\ study \in Opponents \cup {NoOpponent} /\ context \in Positions
    /\ selection \in Swaps
    /\ swapHistory \in Seq([swap : Swaps, before : Plans])
    /\ removalToast \in Removals \cup {NoToast}
    /\ edits \in 0..MaxEdits
    /\ retouched \in BOOLEAN /\ grown \in BOOLEAN
    /\ exempt \subseteq Cards

-----------------------------------------------------------------------------
(* Counting copies: zones.ts *)

\* Copies in a list.
Size(list) == Cardinality(UNION {{c} \X (1..list[c]) : c \in Cards})

Total(d, c) == d["main"][c] + d["extra"][c] + d["side"][c]

AboveLimit(d) == {c \in Cards : Total(d, c) > MaxCopies}

\* What makes a deck out of format, and nothing else of it (deckLegality).
DeckIssues(d) ==
    {<<"main-size", n>> : n \in {Size(d["main"])} \ MainSizes}
    \cup {<<"zone-size", z>> : z \in {z \in {"extra", "side"} : Size(d[z]) > ZoneMax}}
    \cup {<<"over-total", c>> : c \in AboveLimit(d)}
    \cup {<<"wrong-zone", at>> :
            at \in {at \in Cards \X PlayZones :
                       d[at[2]][at[1]] > 0 /\ ZoneOf[at[1]] \notin {at[2], "none"}}}

-----------------------------------------------------------------------------
(* Applying a plan to a deck: sidePlan.ts *)

Less(m, n) == IF m >= n THEN m - n ELSE 0

\* The copies of a list that play in a zone.
Playing(list, zone, c) == IF ZoneOf[c] = zone THEN list[c] ELSE 0

InZone(list, zone) == [c \in Cards |-> Playing(list, zone, c)]

CountIn(list, zone) == Size(InZone(list, zone))

\* A zone after the plan: a card the zone had loses what leaves, the others enter.
Derived(d, plan, zone) ==
    [c \in Cards |->
        LET entering == Playing(plan.incoming, zone, c)
        IN  IF d[zone][c] > 0 THEN Less(d[zone][c] + entering, Playing(plan.outgoing, zone, c))
                              ELSE entering]

\* (mutant) the balance is judged over all zones
BalancedOverall(plan) == Size(plan.outgoing) = Size(plan.incoming)

Balanced(plan) == \A z \in PlayZones : CountIn(plan.outgoing, z) = CountIn(plan.incoming, z)

\* What is wrong with a plan on a deck: the kind of each issue and its card.
PlanIssues(d, plan) ==
    LET known == {c \in Cards : ZoneOf[c] # "none"}
    IN  {<<"unknown-zone", c>> : c \in {c \in Cards \ known : plan.outgoing[c] + plan.incoming[c] > 0}}
        \cup {<<"outgoing-missing", c>> : c \in {c \in known : plan.outgoing[c] > d[ZoneOf[c]][c]}}
        \cup {<<"incoming-missing", c>> : c \in {c \in known : plan.incoming[c] > d["side"][c]}}
        \cup {<<"over-limit", c>> :
                c \in {c \in Cards : \E z \in PlayZones : Derived(d, plan, z)[c] > MaxCopies}}

Status(d, plan) ==
    IF PlanIssues(d, plan) # {} THEN "review"
    ELSE IF ~Balanced(plan) THEN "incomplete" ELSE "ready"

-----------------------------------------------------------------------------
(* The rule of a swap: matchups.ts *)

Plus(list, more) == [c \in Cards |-> list[c] + more[c]]

WithSwap(plan, swap) == [dir \in Directions |-> Plus(plan[dir], swap[dir])]

\* trySwap: some copies, all of known zones, as many each way zone by zone, no card
\* both ways, and no issue of a kind and card the plan does not already have.
SwapAllowed(d, plan, swap) ==
    /\ swap # EmptyPlan
    /\ \A c \in Cards : ZoneOf[c] = "none" => swap.outgoing[c] = 0 /\ swap.incoming[c] = 0
    /\ Balanced(swap)
    /\ OneWay(WithSwap(plan, swap))
    /\ PlanIssues(d, WithSwap(plan, swap)) \subseteq PlanIssues(d, plan)

\* undoSwap: what is still there of the swap is taken back.
WithoutSwap(plan, swap) ==
    [dir \in Directions |-> [c \in Cards |-> Less(plan[dir][c], swap[dir][c])]]

-----------------------------------------------------------------------------
(* The open plan and its selection: swapPreview.ts *)

Open == study \in matchups

OpenPlan == plans[study][context]

OpenPlanBecomes(plan) == plans' = [plans EXCEPT ![study][context] = plan]

\* Copies of a card offered to leave, a card of both zones having those of the
\* extra deck, or to enter.
Pool(dir, c) ==
    CASE dir = "incoming" -> deck["side"][c]
      [] dir = "outgoing" /\ deck["extra"][c] > 0 -> deck["extra"][c]
      [] OTHER -> deck["main"][c]

FreeCopies(dir, c) == Less(Pool(dir, c), OpenPlan[dir][c] + selection[dir][c])

OneCopy(dir, c) == [EmptyPlan EXCEPT ![dir][c] = 1]

\* (mutant) the whole selection is completed
WholeSelection(swap) == swap

MainPart(swap) == [dir \in Directions |-> InZone(swap[dir], "main")]

\* One more copy this way would balance the main deck's part of the selection.
Wanting(dir) ==
    LET out == CountIn(selection.outgoing, "main")
        in == CountIn(selection.incoming, "main")
    IN  IF dir = "incoming" THEN out = in + 1 ELSE in = out + 1

\* candidatesOf: the cards one copy of which completes the selection's part of
\* the main deck into a swap that would be accepted and leave the plan ready.
Candidates(dir) ==
    {c \in Cards :
        LET swap == WithSwap(MainPart(selection), OneCopy(dir, c))
            zone == IF dir = "incoming" THEN "side" ELSE "main"
        IN  /\ Wanting(dir) /\ ZoneOf[c] = "main"
            /\ deck[zone][c] > OpenPlan[dir][c] + selection[dir][c]
            /\ SwapAllowed(deck, OpenPlan, swap)
            /\ Status(deck, WithSwap(OpenPlan, swap)) = "ready"}

-----------------------------------------------------------------------------

Init ==
    /\ \E k \in Configurations :
          /\ deck = k.deck /\ matchups = k.matchups /\ plans = k.plans
          /\ exempt = AboveLimit(k.deck)
    /\ draft \in BOOLEAN
    /\ study = NoOpponent /\ context = "first"
    /\ selection = EmptyPlan /\ swapHistory = <<>> /\ retouched = FALSE
    /\ removalToast = NoToast /\ grown = FALSE
    /\ edits = 0

CountEdit == edits < MaxEdits /\ edits' = edits + 1

-----------------------------------------------------------------------------
(* Editing the zones *)

\* c has n copies in the zone; the toast may have been overtaken.
CopiesBecome(zone, c, n) ==
    /\ deck' = [deck EXCEPT ![zone][c] = n]
    /\ grown' = (grown \/ (removalToast # NoToast /\ removalToast.card = c /\ n > deck[zone][c]))
    /\ UNCHANGED <<removalToast, exempt>>

\* As many copies as allowed over all zones (S9).
WithinLimit(zone, c, n) == Total(deck, c) - deck[zone][c] + n <= MaxCopies

\* One more copy from the dialog, of a card the zone has or not.
AddCard(zone, c) ==
    /\ CountEdit
    /\ WithinLimit(zone, c, deck[zone][c] + 1)
    /\ CopiesBecome(zone, c, deck[zone][c] + 1)
    /\ UNCHANGED <<planVars, studyVars, draft>>

\* The card leaves the zone; its annotations and plans stay.
RemoveCard(zone, c) ==
    /\ CountEdit
    /\ deck[zone][c] > 0
    /\ deck' = [deck EXCEPT ![zone][c] = 0]
    /\ removalToast' = [card |-> c, zone |-> zone, copies |-> deck[zone][c]]
    /\ grown' = FALSE
    /\ UNCHANGED <<exempt, planVars, studyVars, draft>>

\* The stepper of a tile: one copy more or one less; none is a removal.
SetCopies(zone, c, n) ==
    /\ deck[zone][c] > 0 /\ n \in {deck[zone][c] - 1, deck[zone][c] + 1}
    /\ \/ n = 0 /\ RemoveCard(zone, c)
       \/ /\ n > 0 /\ WithinLimit(zone, c, n)
          /\ CountEdit
          /\ CopiesBecome(zone, c, n)
          /\ UNCHANGED <<planVars, studyVars, draft>>

\* The card removed has in its zone the copies it had, whatever it has now.
UndoRemove ==
    /\ CountEdit
    /\ removalToast # NoToast
    /\ deck' = [deck EXCEPT ![removalToast.zone][removalToast.card] = removalToast.copies]
    /\ exempt' = exempt \cup (IF grown THEN {removalToast.card} ELSE {})
    /\ removalToast' = NoToast /\ grown' = FALSE
    /\ UNCHANGED <<planVars, studyVars, draft>>

\* Six seconds have passed, or the user has closed the toast.
DismissToast ==
    /\ removalToast # NoToast
    /\ removalToast' = NoToast /\ grown' = FALSE
    /\ UNCHANGED <<deck, exempt, planVars, studyVars, draft, edits>>

-----------------------------------------------------------------------------
(* What is studied *)

\* (mutant) the history of the plan left is kept
PlanLeftKeepingHistory ==
    selection' = EmptyPlan /\ UNCHANGED <<swapHistory, retouched>>

\* Another plan is open: nothing is prepared on it and nothing was swapped.
PlanLeft == selection' = EmptyPlan /\ swapHistory' = <<>> /\ retouched' = FALSE

SetContext(p) ==
    /\ p # context
    /\ context' = p /\ PlanLeft
    /\ UNCHANGED <<deckVars, planVars, study, draft, edits>>

SetStudy(o) ==
    /\ o \in matchups \cup {NoOpponent} /\ o # study
    /\ study' = o /\ PlanLeft
    /\ UNCHANGED <<deckVars, planVars, context, draft, edits>>

\* A new opponent, with two empty plans, is studied at once.
AddMatchup(o) ==
    /\ CountEdit
    /\ o \in Opponents \ matchups
    /\ matchups' = matchups \cup {o}
    /\ plans' = [plans EXCEPT ![o] = [p \in Positions |-> EmptyPlan]]
    /\ study' = o /\ PlanLeft
    /\ UNCHANGED <<deckVars, context, draft>>

\* The opponent studied is removed with his plans; study still names him.
RemoveMatchup ==
    /\ CountEdit
    /\ Open
    /\ matchups' = matchups \ {study}
    /\ plans' = [plans EXCEPT ![study] = [p \in Positions |-> EmptyPlan]]
    /\ PlanLeft
    /\ UNCHANGED <<deckVars, study, context, draft>>

-----------------------------------------------------------------------------
(* Swaps *)

\* The tiles of an open plan; that of a card whose zone is not known does nothing.
Tile(dir, c) == Open /\ ZoneOf[c] # "none" /\ Pool(dir, c) > 0

\* A click on a tile selects a free copy more, a right click one less.
AdjustSelection(dir, c) ==
    /\ Tile(dir, c)
    /\ \/ FreeCopies(dir, c) > 0 /\ selection' = [selection EXCEPT ![dir][c] = @ + 1]
       \/ selection[dir][c] > 0 /\ selection' = [selection EXCEPT ![dir][c] = @ - 1]
    /\ UNCHANGED <<deckVars, planVars, study, context, swapHistory, retouched, draft, edits>>

ClearSelection ==
    /\ selection # EmptyPlan
    /\ selection' = EmptyPlan
    /\ UNCHANGED <<deckVars, planVars, study, context, swapHistory, retouched, draft, edits>>

\* (mutant) a swap is refused only if unbalanced
CommitUnchecked ==
    /\ CountEdit
    /\ Open /\ selection # EmptyPlan /\ Balanced(selection) /\ OneWay(WithSwap(OpenPlan, selection))
    /\ OpenPlanBecomes(WithSwap(OpenPlan, selection))
    /\ swapHistory' = Append(swapHistory, [swap |-> selection, before |-> OpenPlan])
    /\ selection' = EmptyPlan
    /\ UNCHANGED <<deckVars, matchups, study, context, retouched, draft>>

CommitSelection ==
    /\ CountEdit
    /\ Open /\ SwapAllowed(deck, OpenPlan, selection)
    /\ OpenPlanBecomes(WithSwap(OpenPlan, selection))
    /\ swapHistory' = Append(swapHistory, [swap |-> selection, before |-> OpenPlan])
    /\ selection' = EmptyPlan
    /\ UNCHANGED <<deckVars, matchups, study, context, retouched, draft>>

\* The page offers to take a swap back while the plan still has some of it.
Undoable(swap) == \E dir \in Directions, c \in Cards : swap[dir][c] > 0 /\ OpenPlan[dir][c] > 0

UndoLastSwap ==
    /\ CountEdit
    /\ Open /\ swapHistory # <<>>
    /\ LET last == swapHistory[Len(swapHistory)].swap
       IN  /\ Undoable(last)
           /\ OpenPlanBecomes(WithoutSwap(OpenPlan, last))
    /\ swapHistory' = SubSeq(swapHistory, 1, Len(swapHistory) - 1)
    /\ retouched' = (retouched /\ Len(swapHistory) > 1)
    /\ selection' = EmptyPlan
    /\ UNCHANGED <<deckVars, matchups, study, context, draft>>

ClearOpenPlan ==
    /\ CountEdit
    /\ Open /\ OpenPlan # EmptyPlan
    /\ OpenPlanBecomes(EmptyPlan)
    /\ PlanLeft
    /\ UNCHANGED <<deckVars, matchups, study, context, draft>>

Retouch == retouched' = (swapHistory # <<>>) /\ UNCHANGED <<selection, swapHistory>>

\* What the two lists of an open plan show, each card with its button.
Listed(dir, c) == Open /\ OpenPlan[dir][c] > 0

\* Every copy of a card is taken out of the plan; nothing is balanced again.
RemoveFromPlan(dir, c) ==
    /\ CountEdit
    /\ Listed(dir, c)
    /\ OpenPlanBecomes([OpenPlan EXCEPT ![dir][c] = 0])
    /\ Retouch
    /\ UNCHANGED <<deckVars, matchups, study, context, draft>>

\* The plan of the other position replaces the open one.
CopyPlan ==
    /\ CountEdit
    /\ Open
    /\ \E other \in Positions \ {context} : OpenPlanBecomes(plans[study][other])
    /\ Retouch
    /\ UNCHANGED <<deckVars, matchups, study, context, draft>>

-----------------------------------------------------------------------------
(* Another configuration *)

Adopt(k) ==
    /\ deck' = k.deck /\ matchups' = k.matchups /\ plans' = k.plans
    /\ exempt' = AboveLimit(k.deck)

\* The draft's configuration replaces the deck and its plans; the toast and the
\* study stay.
ResumeDraft(k) ==
    /\ CountEdit
    /\ draft /\ draft' = FALSE
    /\ Adopt(k)
    /\ PlanLeft
    /\ grown' = (removalToast # NoToast)
    /\ UNCHANGED <<removalToast, study, context>>

\* loadDeck adopts what it has read: a fresh study, nothing to undo.
LoadDeck(k) ==
    /\ CountEdit
    /\ draft' \in BOOLEAN
    /\ Adopt(k)
    /\ study' = NoOpponent /\ context' = "first" /\ PlanLeft
    /\ removalToast' = NoToast /\ grown' = FALSE

-----------------------------------------------------------------------------

EditDeck ==
    \/ \E zone \in Zones, c \in Cards :
          \/ AddCard(zone, c) \/ RemoveCard(zone, c)
          \/ \E n \in 0..MaxCopies : SetCopies(zone, c, n)
    \/ UndoRemove \/ DismissToast

\* The gestures on plans that are judged or only take away.
EditPlans ==
    \/ \E o \in Opponents : AddMatchup(o)
    \/ RemoveMatchup
    \/ CommitSelection \/ UndoLastSwap \/ ClearOpenPlan
    \/ \E dir \in Directions, c \in Cards : RemoveFromPlan(dir, c)

Navigate ==
    \/ \E p \in Positions : SetContext(p)
    \/ \E o \in Opponents \cup {NoOpponent} : SetStudy(o)
    \/ \E dir \in Directions, c \in Cards : AdjustSelection(dir, c)
    \/ ClearSelection

Next ==
    \/ EditDeck \/ EditPlans \/ Navigate
    \/ CopyPlan
    \/ \E k \in Configurations : ResumeDraft(k) \/ LoadDeck(k)

Spec == Init /\ [][Next]_vars

-----------------------------------------------------------------------------
(* Properties *)

\* S9: the editor never takes a card above its copies over all zones, except by
\* putting back a removal when the card may have come back meanwhile.
CopiesWithinLimit == AboveLimit(deck) \subseteq exempt

\* The deck a plan gives, its side deck included.
Sided(plan) ==
    [z \in Zones |->
        IF z = "side"
          THEN [c \in Cards |-> Less(deck["side"][c], plan.incoming[c]) + plan.outgoing[c]]
          ELSE Derived(deck, plan, z)]

\* S8: whatever the deck has become since a plan was made, if the plan swaps cards
\* and is ready the deck it gives is out of format for the very reasons the deck is.
SidedDeckIsLegal ==
    \A o \in matchups, p \in Positions :
        plans[o][p] # EmptyPlan /\ Status(deck, plans[o][p]) = "ready"
            => DeckIssues(Sided(plans[o][p])) = DeckIssues(deck)

\* R2: over swaps, undos, withdrawals and copies, no card enters and leaves in
\* one plan.
NotBoth == \A o \in Opponents, p \in Positions : OneWay(plans[o][p])

\* A figure is shown on exactly the tiles whose click would complete the main
\* part of the selection into a swap with a ready plan, though one is found from
\* the zones and the other from the copies left free; cards of both main and
\* extra deck, whose free copies are those of the extra, are set aside.
CandidatesAreTheClicks ==
    Open => \A dir \in Directions : Wanting(dir) =>
        LET candidates == Candidates(dir)
        IN  \A c \in {c \in Cards : deck["main"][c] = 0 \/ deck["extra"][c] = 0} :
                LET swap == [d \in Directions |->
                               Plus(InZone(selection[d], "main"), OneCopy(dir, c)[d])]
                IN  c \in candidates <=>
                        /\ ZoneOf[c] = "main" /\ FreeCopies(dir, c) > 0
                        /\ SwapAllowed(deck, OpenPlan, swap)
                        /\ Status(deck, WithSwap(OpenPlan, swap)) = "ready"

\* D11: no gesture on the plans puts one in the state "to review" that was not,
\* the copy of another plan set aside: only the deck's own changes do.
NeverToReview ==
    [][plans' # plans /\ EditPlans => \A o \in matchups \cap matchups', p \in Positions :
         Status(deck, plans[o][p]) # "review" => Status(deck', plans'[o][p]) # "review"]_vars

\* D13: undoing a swap gives back the plan as it was before it, and touches no
\* other, unless the plan was retouched since.
UndoRestores ==
    [][UndoLastSwap /\ ~retouched =>
         plans' = [plans EXCEPT ![study][context] = swapHistory[Len(swapHistory)].before]]_vars

\* What the gestures build stays well formed, and what a ready plan gives is as legal as the deck.
PlansStaySound == TypeOK /\ CopiesWithinLimit /\ SidedDeckIsLegal /\ NotBoth
=============================================================================
