--------------------------- MODULE SidePlan_proofs ---------------------------
(***************************************************************************)
(* Proofs about zones and side plans, for any cards, opponents,            *)
(* configurations and limits.                                              *)
(***************************************************************************)
EXTENDS SidePlan, SequenceTheorems, FiniteSetTheorems, TLAPS

(***************************************************************************)
(* Lists and plans                                                         *)
(***************************************************************************)

LEMMA EmptyPlanTyped == EmptyPlan \in Plans /\ EmptyPlan \in Swaps /\ OneWay(EmptyPlan)
  BY SidePlanAssumption DEF EmptyPlan, Plans, Swaps, Lists, NoCards, OneWay, Directions

\* Making a swap adds copies to both lists, undoing one takes some away.
LEMMA WithSwapTyped ==
    ASSUME NEW plan \in Plans, NEW swap \in Swaps
    PROVE  /\ WithSwap(plan, swap) \in Plans
           /\ \A dir \in Directions, c \in Cards :
                 WithSwap(plan, swap)[dir][c] = plan[dir][c] + swap[dir][c]
  <1>1. \A dir \in Directions : plan[dir] \in [Cards -> Nat] /\ swap[dir] \in [Cards -> Nat]
    BY SidePlanAssumption DEF Plans, Swaps, Lists
  <1>2. \A dir \in Directions : Plus(plan[dir], swap[dir]) \in [Cards -> Nat]
    BY <1>1 DEF Plus
  <1> QED
    BY <1>1, <1>2 DEF WithSwap, Plus, Plans, Lists

LEMMA WithoutSwapTyped ==
    ASSUME NEW plan \in Plans, NEW swap \in Swaps
    PROVE  /\ WithoutSwap(plan, swap) \in Plans
           /\ \A dir \in Directions, c \in Cards :
                 WithoutSwap(plan, swap)[dir][c] = Less(plan[dir][c], swap[dir][c])
  <1>1. \A dir \in Directions : plan[dir] \in [Cards -> Nat] /\ swap[dir] \in [Cards -> Nat]
    BY SidePlanAssumption DEF Plans, Swaps, Lists
  <1>2. \A dir \in Directions, c \in Cards : Less(plan[dir][c], swap[dir][c]) \in Nat
    BY <1>1 DEF Less
  <1> QED
    BY <1>1, <1>2 DEF WithoutSwap, Plans, Lists

\* Two plans are the same when they have the same copies.
LEMMA SamePlan ==
    ASSUME NEW p \in Plans, NEW q \in Plans,
           \A dir \in Directions, c \in Cards : p[dir][c] = q[dir][c]
    PROVE  p = q
  <1>1. \A dir \in Directions : p[dir] = q[dir]
    BY DEF Plans, Lists
  <1> QED
    BY <1>1 DEF Plans

\* What is undone of a swap just made is the swap.
LEMMA UndoneSwap ==
    ASSUME NEW plan \in Plans, NEW swap \in Swaps
    PROVE  WithoutSwap(WithSwap(plan, swap), swap) = plan
  <1>1. WithSwap(plan, swap) \in Plans
    BY WithSwapTyped
  <1>2. \A dir \in Directions : plan[dir] \in [Cards -> Nat] /\ swap[dir] \in [Cards -> Nat]
    BY SidePlanAssumption DEF Plans, Swaps, Lists
  <1>3. ASSUME NEW dir \in Directions, NEW c \in Cards
        PROVE  WithoutSwap(WithSwap(plan, swap), swap)[dir][c] = plan[dir][c]
    <2>1. plan[dir][c] \in Nat /\ swap[dir][c] \in Nat
      BY <1>2
    <2>2. WithoutSwap(WithSwap(plan, swap), swap)[dir][c]
            = Less(plan[dir][c] + swap[dir][c], swap[dir][c])
      BY <1>1, WithSwapTyped, WithoutSwapTyped
    <2> QED
      BY <2>1, <2>2 DEF Less
  <1> QED
    BY <1>1, <1>3, SamePlan, WithoutSwapTyped

\* Taking copies away keeps a plan one way.
LEMMA FewerOneWay ==
    ASSUME NEW p \in Plans, NEW q \in Plans, OneWay(p),
           \A dir \in Directions, c \in Cards : q[dir][c] <= p[dir][c]
    PROVE  OneWay(q)
  <1> SUFFICES ASSUME NEW c \in Cards PROVE q.outgoing[c] = 0 \/ q.incoming[c] = 0
    BY DEF OneWay
  <1>1. /\ q.outgoing[c] <= p.outgoing[c] /\ q.incoming[c] <= p.incoming[c]
        /\ p.outgoing[c] = 0 \/ p.incoming[c] = 0
    BY DEF OneWay, Directions
  <1>2. q.outgoing[c] \in Nat /\ q.incoming[c] \in Nat /\ p.outgoing[c] \in Nat /\ p.incoming[c] \in Nat
    BY DEF Plans, Lists, Directions
  <1> QED
    BY <1>1, <1>2

(***************************************************************************)
(* Types                                                                   *)
(***************************************************************************)

History == Seq([swap : Swaps, before : Plans])

DeckOK ==
    /\ deck \in Decks
    /\ removalToast \in Removals \cup {NoToast}
    /\ grown \in BOOLEAN
    /\ exempt \subseteq Cards

PlansOK == matchups \subseteq Opponents /\ plans \in [Opponents -> [Positions -> Plans]]

StudyOK ==
    /\ study \in Opponents \cup {NoOpponent} /\ context \in Positions
    /\ selection \in Swaps
    /\ swapHistory \in History
    /\ retouched \in BOOLEAN

RestOK == draft \in BOOLEAN /\ edits \in 0..MaxEdits

LEMMA TypeParts == TypeOK <=> DeckOK /\ PlansOK /\ StudyOK /\ RestOK
  BY DEF TypeOK, DeckOK, PlansOK, StudyOK, RestOK, History

LEMMA NoHistory == <<>> \in History /\ Len(<<>>) = 0
  BY DEF History

LEMMA ConfigurationTyped ==
    ASSUME NEW k \in Configurations
    PROVE  /\ k.deck \in Decks /\ k.matchups \subseteq Opponents
           /\ k.plans \in [Opponents -> [Positions -> Plans]]
           /\ \A o \in Opponents, p \in Positions : OneWay(k.plans[o][p])
           /\ AboveLimit(k.deck) \subseteq Cards
  BY SidePlanAssumption DEF ValidPlan, AboveLimit

LEMMA NextTypeParts == DeckOK' /\ PlansOK' /\ StudyOK' /\ RestOK' => TypeOK'
  BY DEF TypeOK, DeckOK, PlansOK, StudyOK, RestOK, History

\* The last entry of a sequence, and the sequence without it.
LEMMA LastOf ==
    ASSUME NEW S, NEW q \in Seq(S), q # <<>>
    PROVE  /\ Len(q) \in Nat \ {0} /\ q[Len(q)] \in S
           /\ SubSeq(q, 1, Len(q) - 1) \in Seq(S)
           /\ Len(SubSeq(q, 1, Len(q) - 1)) = Len(q) - 1
           /\ \A i \in 1..Len(q) - 1 : SubSeq(q, 1, Len(q) - 1)[i] = q[i]
  <1>1. Len(q) \in Nat \ {0} /\ q[Len(q)] \in S
    OBVIOUS
  <1>2. SubSeq(q, 1, Len(q) - 1) \in Seq(S)
    BY <1>1
  <1>3. /\ Len(SubSeq(q, 1, Len(q) - 1)) = Len(q) - 1
        /\ \A i \in 1..Len(q) - 1 : SubSeq(q, 1, Len(q) - 1)[i] = q[i]
    <2>1. PICK n \in Nat : n = Len(q) - 1
      BY <1>1
    <2>2. \A i \in 1..n : q[i] \in S
      BY <1>1, <2>1
    <2>3. /\ Len(SubSeq(q, 1, n)) = IF 1 <= n THEN n - 1 + 1 ELSE 0
          /\ \A i \in 1..n - 1 + 1 : SubSeq(q, 1, n)[i] = q[1 + i - 1]
      BY <2>2, SubSeqProperties
    <2>4. Len(SubSeq(q, 1, n)) = n
      BY <2>3
    <2>5. ASSUME NEW i \in 1..n PROVE SubSeq(q, 1, n)[i] = q[i]
      <3>1. i \in 1..n - 1 + 1 /\ 1 + i - 1 = i
        OBVIOUS
      <3> QED
        BY <2>3, <3>1
    <2> QED
      BY <2>1, <2>4, <2>5
  <1> QED
    BY <1>1, <1>2, <1>3

LEMMA InitTyped == Init => TypeOK
  <1> SUFFICES ASSUME Init PROVE DeckOK /\ PlansOK /\ StudyOK /\ RestOK
    BY TypeParts
  <1>1. DeckOK /\ PlansOK
    BY ConfigurationTyped DEF Init, DeckOK, PlansOK
  <1>2. retouched \in BOOLEAN
    BY DEF Init
  <1>3. StudyOK
    BY <1>2, EmptyPlanTyped, NoHistory DEF Init, StudyOK, Positions
  <1>4. RestOK
    BY SidePlanAssumption DEF Init, RestOK
  <1> QED
    BY <1>1, <1>3, <1>4

LEMMA EditCounted == RestOK /\ CountEdit => edits' \in 0..MaxEdits
  BY SidePlanAssumption DEF RestOK, CountEdit

LEMMA PlanLeftTyped == PlanLeft => selection' \in Swaps /\ swapHistory' \in History /\ retouched' \in BOOLEAN
  <1>1. PlanLeft => retouched' \in BOOLEAN
    BY DEF PlanLeft
  <1> QED
    BY <1>1, EmptyPlanTyped, NoHistory DEF PlanLeft

LEMMA OpenPlanTyped ==
    ASSUME PlansOK, StudyOK, Open
    PROVE  /\ OpenPlan \in Plans /\ study \in Opponents /\ study \in matchups
           /\ \A plan \in Plans : OpenPlanBecomes(plan) => plans' \in [Opponents -> [Positions -> Plans]]
  BY DEF PlansOK, StudyOK, Open, OpenPlan, OpenPlanBecomes

LEMMA CopiesTyped ==
    ASSUME DeckOK, NEW zone \in Zones, NEW c \in Cards, NEW n \in 0..MaxCopies, CopiesBecome(zone, c, n)
    PROVE  DeckOK'
  <1>1. deck' \in Decks
    BY DEF DeckOK, CopiesBecome, Decks
  <1>2. grown' \in BOOLEAN
    BY DEF CopiesBecome
  <1> QED
    BY <1>1, <1>2 DEF DeckOK, CopiesBecome

LEMMA RemovalTyped ==
    ASSUME DeckOK, NEW zone \in Zones, NEW c \in Cards, RemoveCard(zone, c)
    PROVE  DeckOK'
  <1>1. deck[zone][c] \in 0..MaxCopies /\ deck' \in Decks
    BY SidePlanAssumption DEF DeckOK, RemoveCard, Decks
  <1>2. [card |-> c, zone |-> zone, copies |-> deck[zone][c]] \in Removals
    BY <1>1, SidePlanAssumption DEF Removals, RemoveCard
  <1> QED
    BY <1>1, <1>2 DEF DeckOK, RemoveCard

\* A click takes a copy that is free, so that a selection stays within the zone.
LEMMA AdjustmentTyped ==
    ASSUME DeckOK, PlansOK, StudyOK, NEW dir \in Directions, NEW c \in Cards, AdjustSelection(dir, c)
    PROVE  selection' \in Swaps
  <1>1. /\ selection[dir][c] \in 0..MaxCopies /\ OpenPlan[dir][c] \in Nat
        /\ selection[dir] \in [Cards -> 0..MaxCopies]
    BY OpenPlanTyped DEF AdjustSelection, Tile, StudyOK, Swaps, Plans, Lists
  <1>2. Pool(dir, c) \in 0..MaxCopies
    BY DEF Pool, DeckOK, Decks, Zones, PlayZones, Directions
  <1>3. PICK n : n \in 0..MaxCopies /\ selection' = [selection EXCEPT ![dir][c] = n]
    <2>1. CASE FreeCopies(dir, c) > 0 /\ selection' = [selection EXCEPT ![dir][c] = @ + 1]
      <3>1. selection[dir][c] + 1 \in 0..MaxCopies
        BY <1>1, <1>2, <2>1, SidePlanAssumption DEF FreeCopies, Less
      <3> QED
        BY <2>1, <3>1, <1>1 DEF StudyOK, Swaps
    <2>2. CASE selection[dir][c] > 0 /\ selection' = [selection EXCEPT ![dir][c] = @ - 1]
      <3>1. selection[dir][c] - 1 \in 0..MaxCopies
        BY <1>1, <2>2, SidePlanAssumption
      <3> QED
        BY <2>2, <3>1, <1>1 DEF StudyOK, Swaps
    <2> QED
      BY <2>1, <2>2 DEF AdjustSelection
  <1> QED
    BY <1>1, <1>3 DEF StudyOK, Swaps

LEMMA WithdrawalTyped ==
    ASSUME NEW plan \in Plans, NEW dir \in Directions, NEW c \in Cards
    PROVE  /\ [plan EXCEPT ![dir][c] = 0] \in Plans
           /\ \A d \in Directions, e \in Cards :
                 [plan EXCEPT ![dir][c] = 0][d][e] = IF d = dir /\ e = c THEN 0 ELSE plan[d][e]
  BY DEF Plans, Lists

LEMMA StepTyped == TypeOK /\ [Next]_vars => TypeOK'
  <1> SUFFICES ASSUME TypeOK, [Next]_vars PROVE DeckOK' /\ PlansOK' /\ StudyOK' /\ RestOK'
    BY NextTypeParts
  <1>0. DeckOK /\ PlansOK /\ StudyOK /\ RestOK
    BY TypeParts
  <1> USE <1>0
  <1>1. ASSUME NEW zone \in Zones, NEW c \in Cards, AddCard(zone, c)
        PROVE  DeckOK' /\ PlansOK' /\ StudyOK' /\ RestOK'
    <2>1. deck[zone][c] + 1 \in 0..MaxCopies
      BY <1>1, SidePlanAssumption DEF AddCard, WithinLimit, Total, DeckOK, Decks, Zones, PlayZones
    <2>2. DeckOK'
      BY <1>1, <2>1, CopiesTyped DEF AddCard
    <2> QED
      BY <1>1, <2>2, EditCounted DEF AddCard, planVars, studyVars, PlansOK, StudyOK, RestOK
  <1>2. ASSUME NEW zone \in Zones, NEW c \in Cards, RemoveCard(zone, c)
        PROVE  DeckOK' /\ PlansOK' /\ StudyOK' /\ RestOK'
    BY <1>2, RemovalTyped, EditCounted DEF RemoveCard, planVars, studyVars, PlansOK, StudyOK, RestOK
  <1>3. ASSUME NEW zone \in Zones, NEW c \in Cards, NEW n \in 0..MaxCopies, SetCopies(zone, c, n)
        PROVE  DeckOK' /\ PlansOK' /\ StudyOK' /\ RestOK'
    <2>1. CASE RemoveCard(zone, c)
      BY <1>2, <2>1
    <2>2. CASE CopiesBecome(zone, c, n) /\ CountEdit /\ UNCHANGED <<planVars, studyVars, draft>>
      BY <2>2, CopiesTyped, EditCounted DEF planVars, studyVars, PlansOK, StudyOK, RestOK
    <2> QED
      BY <1>3, <2>1, <2>2 DEF SetCopies
  <1>4. CASE UndoRemove
    <2>1. /\ removalToast \in Removals
          /\ deck' = [deck EXCEPT ![removalToast.zone][removalToast.card] = removalToast.copies]
      BY <1>4 DEF UndoRemove, DeckOK
    <2>2. /\ removalToast.zone \in Zones /\ removalToast.card \in Cards
          /\ removalToast.copies \in 1..MaxCopies
      BY <2>1 DEF Removals
    <2>3. deck' \in Decks
      BY <2>1, <2>2, SidePlanAssumption DEF DeckOK, Decks
    <2>4. grown' \in BOOLEAN
      BY <1>4 DEF UndoRemove
    <2>5. exempt' \subseteq Cards /\ removalToast' = NoToast
      BY <1>4, <2>2 DEF UndoRemove, DeckOK
    <2> QED
      BY <1>4, <2>3, <2>4, <2>5, EditCounted DEF UndoRemove, planVars, studyVars, DeckOK, PlansOK, StudyOK, RestOK
  <1>5. CASE DismissToast
    <2>1. grown' \in BOOLEAN
      BY <1>5 DEF DismissToast
    <2> QED
      BY <1>5, <2>1 DEF DismissToast, planVars, studyVars, DeckOK, PlansOK, StudyOK, RestOK
  <1>6. ASSUME NEW p \in Positions, SetContext(p)
        PROVE  DeckOK' /\ PlansOK' /\ StudyOK' /\ RestOK'
    BY <1>6, PlanLeftTyped DEF SetContext, deckVars, planVars, DeckOK, PlansOK, StudyOK, RestOK
  <1>7. ASSUME NEW o \in Opponents \cup {NoOpponent}, SetStudy(o)
        PROVE  DeckOK' /\ PlansOK' /\ StudyOK' /\ RestOK'
    BY <1>7, PlanLeftTyped DEF SetStudy, deckVars, planVars, DeckOK, PlansOK, StudyOK, RestOK
  <1>8. ASSUME NEW o \in Opponents, AddMatchup(o)
        PROVE  DeckOK' /\ PlansOK' /\ StudyOK' /\ RestOK'
    <2>1. PlansOK'
      BY <1>8, EmptyPlanTyped DEF AddMatchup, PlansOK
    <2> QED
      BY <1>8, <2>1, PlanLeftTyped, EditCounted DEF AddMatchup, deckVars, DeckOK, StudyOK, RestOK
  <1>9. CASE RemoveMatchup
    <2>1. PlansOK'
      BY <1>9, EmptyPlanTyped DEF RemoveMatchup, PlansOK
    <2> QED
      BY <1>9, <2>1, PlanLeftTyped, EditCounted DEF RemoveMatchup, deckVars, DeckOK, StudyOK, RestOK
  <1>10. ASSUME NEW dir \in Directions, NEW c \in Cards, AdjustSelection(dir, c)
         PROVE  DeckOK' /\ PlansOK' /\ StudyOK' /\ RestOK'
    BY <1>10, AdjustmentTyped DEF AdjustSelection, deckVars, planVars, DeckOK, PlansOK, StudyOK, RestOK
  <1>11. CASE ClearSelection
    BY <1>11, EmptyPlanTyped DEF ClearSelection, deckVars, planVars, DeckOK, PlansOK, StudyOK, RestOK
  <1>12. CASE CommitSelection
    <2>1. WithSwap(OpenPlan, selection) \in Plans /\ OpenPlan \in Plans
      BY <1>12, OpenPlanTyped, WithSwapTyped DEF CommitSelection, StudyOK
    <2>2. plans' \in [Opponents -> [Positions -> Plans]]
      BY <1>12, <2>1, OpenPlanTyped DEF CommitSelection
    <2>3. swapHistory' \in History
      BY <1>12, <2>1 DEF CommitSelection, StudyOK, History
    <2> QED
      BY <1>12, <2>2, <2>3, EmptyPlanTyped, EditCounted
      DEF CommitSelection, deckVars, DeckOK, PlansOK, StudyOK, RestOK
  <1>13. CASE UndoLastSwap
    <2> DEFINE last == swapHistory[Len(swapHistory)]
    <2>1. Open /\ Len(swapHistory) \in Nat \ {0} /\ last \in [swap : Swaps, before : Plans]
      BY <1>13, LastOf DEF UndoLastSwap, StudyOK, History
    <2>2. WithoutSwap(OpenPlan, last.swap) \in Plans
      BY <2>1, OpenPlanTyped, WithoutSwapTyped
    <2>3. plans' \in [Opponents -> [Positions -> Plans]]
      BY <1>13, <2>1, <2>2, OpenPlanTyped DEF UndoLastSwap
    <2>4. swapHistory' \in History
      BY <1>13, LastOf DEF UndoLastSwap, StudyOK, History
    <2>5. retouched' \in BOOLEAN
      BY <1>13 DEF UndoLastSwap
    <2> QED
      BY <1>13, <2>3, <2>4, <2>5, EmptyPlanTyped, EditCounted
      DEF UndoLastSwap, deckVars, DeckOK, PlansOK, StudyOK, RestOK
  <1>14. CASE ClearOpenPlan
    <2>1. plans' \in [Opponents -> [Positions -> Plans]]
      BY <1>14, OpenPlanTyped, EmptyPlanTyped DEF ClearOpenPlan
    <2> QED
      BY <1>14, <2>1, PlanLeftTyped, EditCounted DEF ClearOpenPlan, deckVars, DeckOK, PlansOK, StudyOK, RestOK
  <1>15. ASSUME NEW dir \in Directions, NEW c \in Cards, RemoveFromPlan(dir, c)
         PROVE  DeckOK' /\ PlansOK' /\ StudyOK' /\ RestOK'
    <2>1. plans' \in [Opponents -> [Positions -> Plans]]
      BY <1>15, OpenPlanTyped, WithdrawalTyped DEF RemoveFromPlan, Listed
    <2>2. retouched' \in BOOLEAN
      BY <1>15 DEF RemoveFromPlan, Retouch
    <2> QED
      BY <1>15, <2>1, <2>2, EditCounted
      DEF RemoveFromPlan, Retouch, deckVars, DeckOK, PlansOK, StudyOK, RestOK
  <1>16. CASE CopyPlan
    <2>1. PICK other \in Positions : OpenPlanBecomes(plans[study][other])
      BY <1>16 DEF CopyPlan
    <2>2. plans[study][other] \in Plans
      BY <1>16, OpenPlanTyped DEF CopyPlan, PlansOK
    <2>3. plans' \in [Opponents -> [Positions -> Plans]]
      BY <1>16, <2>1, <2>2, OpenPlanTyped DEF CopyPlan
    <2>4. retouched' \in BOOLEAN
      BY <1>16 DEF CopyPlan, Retouch
    <2> QED
      BY <1>16, <2>3, <2>4, EditCounted DEF CopyPlan, Retouch, deckVars, DeckOK, PlansOK, StudyOK, RestOK
  <1>17. ASSUME NEW k \in Configurations, ResumeDraft(k)
         PROVE  DeckOK' /\ PlansOK' /\ StudyOK' /\ RestOK'
    <2>1. grown' \in BOOLEAN
      BY <1>17 DEF ResumeDraft
    <2>2. draft' \in BOOLEAN
      BY <1>17 DEF ResumeDraft
    <2> QED
      BY <1>17, <2>1, <2>2, ConfigurationTyped, PlanLeftTyped, EditCounted
      DEF ResumeDraft, Adopt, DeckOK, PlansOK, StudyOK, RestOK
  <1>18. ASSUME NEW k \in Configurations, LoadDeck(k)
         PROVE  DeckOK' /\ PlansOK' /\ StudyOK' /\ RestOK'
    <2>1. grown' \in BOOLEAN
      BY <1>18 DEF LoadDeck
    <2> QED
      BY <1>18, <2>1, ConfigurationTyped, PlanLeftTyped, EditCounted
      DEF LoadDeck, Adopt, DeckOK, PlansOK, StudyOK, RestOK, Positions
  <1>19. CASE UNCHANGED vars
    BY <1>19 DEF vars, deckVars, planVars, studyVars, DeckOK, PlansOK, StudyOK, RestOK
  <1> QED
    BY <1>1, <1>2, <1>3, <1>4, <1>5, <1>6, <1>7, <1>8, <1>9, <1>10, <1>11, <1>12, <1>13, <1>14,
       <1>15, <1>16, <1>17, <1>18, <1>19
    DEF Next, EditDeck, EditPlans, Navigate

\* The editor's state keeps its types: no list of a zone passes the copies of a
\* card, no selection passes what the zone has.
THEOREM TypeCorrect == Spec => []TypeOK
  BY InitTyped, StepTyped, PTL DEF Spec

(***************************************************************************)
(* A card never enters and leaves in one plan                              *)
(***************************************************************************)

LEMMA OpenPlanChange ==
    ASSUME PlansOK, StudyOK, Open, NotBoth, NEW plan \in Plans, OpenPlanBecomes(plan), OneWay(plan)
    PROVE  NotBoth'
  <1> SUFFICES ASSUME NEW o \in Opponents, NEW p \in Positions PROVE OneWay(plans'[o][p])
    BY DEF NotBoth, OneWay
  <1>1. study \in Opponents /\ context \in Positions
    BY OpenPlanTyped DEF StudyOK
  <1>2. plans'[o][p] = IF o = study /\ p = context THEN plan ELSE plans[o][p]
    BY <1>1 DEF PlansOK, OpenPlanBecomes
  <1> QED
    BY <1>2 DEF NotBoth

LEMMA OtherPlansUnchanged == NotBoth /\ UNCHANGED plans => NotBoth'
  BY DEF NotBoth, OneWay

LEMMA NotBothStep == TypeOK /\ NotBoth /\ [Next]_vars => NotBoth'
  <1> SUFFICES ASSUME TypeOK, NotBoth, [Next]_vars PROVE NotBoth'
    OBVIOUS
  <1>0. DeckOK /\ PlansOK /\ StudyOK /\ RestOK
    BY TypeParts
  <1>1. ASSUME NEW o \in Opponents, AddMatchup(o) PROVE NotBoth'
    BY <1>0, <1>1, EmptyPlanTyped DEF AddMatchup, PlansOK, NotBoth, OneWay
  <1>2. CASE RemoveMatchup
    BY <1>0, <1>2, EmptyPlanTyped DEF RemoveMatchup, PlansOK, NotBoth, OneWay
  <1>3. CASE CommitSelection
    <2>1. WithSwap(OpenPlan, selection) \in Plans /\ OneWay(WithSwap(OpenPlan, selection))
      BY <1>0, <1>3, OpenPlanTyped, WithSwapTyped DEF CommitSelection, SwapAllowed, StudyOK
    <2> QED
      BY <1>0, <1>3, <2>1, OpenPlanChange DEF CommitSelection
  <1>4. CASE UndoLastSwap
    <2> DEFINE last == swapHistory[Len(swapHistory)].swap
               plan == WithoutSwap(OpenPlan, last)
    <2>1. last \in Swaps /\ OpenPlan \in Plans /\ OneWay(OpenPlan)
      <3>1. swapHistory[Len(swapHistory)] \in [swap : Swaps, before : Plans]
        BY <1>0, <1>4, LastOf DEF UndoLastSwap, StudyOK, History
      <3>2. OpenPlan \in Plans /\ OneWay(OpenPlan)
        BY <1>0, <1>4, OpenPlanTyped DEF UndoLastSwap, StudyOK, OpenPlan, NotBoth
      <3> QED
        BY <3>1, <3>2
    <2>2. plan \in Plans /\ \A dir \in Directions, c \in Cards : plan[dir][c] = Less(OpenPlan[dir][c], last[dir][c])
      BY <2>1, WithoutSwapTyped
    <2>3. \A dir \in Directions, c \in Cards : OpenPlan[dir][c] \in Nat /\ last[dir][c] \in Nat
      BY <2>1, SidePlanAssumption DEF Plans, Lists, Swaps
    <2> HIDE DEF plan, last
    <2>4. \A dir \in Directions, c \in Cards : plan[dir][c] <= OpenPlan[dir][c]
      BY <2>2, <2>3 DEF Less
    <2>5. OneWay(plan)
      BY <2>1, <2>2, <2>4, FewerOneWay
    <2> QED
      BY <1>0, <1>4, <2>2, <2>5, OpenPlanChange DEF UndoLastSwap, plan, last
  <1>5. CASE ClearOpenPlan
    BY <1>0, <1>5, EmptyPlanTyped, OpenPlanChange DEF ClearOpenPlan
  <1>6. ASSUME NEW dir \in Directions, NEW c \in Cards, RemoveFromPlan(dir, c) PROVE NotBoth'
    <2> DEFINE plan == [OpenPlan EXCEPT ![dir][c] = 0]
    <2>1. OpenPlan \in Plans /\ OneWay(OpenPlan)
      BY <1>0, <1>6, OpenPlanTyped DEF RemoveFromPlan, Listed, StudyOK, OpenPlan, NotBoth
    <2>2. plan \in Plans /\ \A d \in Directions, e \in Cards : plan[d][e] = IF d = dir /\ e = c THEN 0 ELSE OpenPlan[d][e]
      BY <2>1, WithdrawalTyped
    <2>3. \A d \in Directions, e \in Cards : OpenPlan[d][e] \in Nat
      BY <2>1 DEF Plans, Lists
    <2> HIDE DEF plan
    <2>4. OneWay(plan)
      BY <2>1, <2>2, <2>3, FewerOneWay
    <2> QED
      BY <1>0, <1>6, <2>2, <2>4, OpenPlanChange DEF RemoveFromPlan, Listed, plan
  <1>7. CASE CopyPlan
    <2>1. PICK other \in Positions : OpenPlanBecomes(plans[study][other])
      BY <1>7 DEF CopyPlan
    <2>2. plans[study][other] \in Plans /\ OneWay(plans[study][other])
      BY <1>0, <1>7, OpenPlanTyped DEF CopyPlan, PlansOK, NotBoth
    <2> QED
      BY <1>0, <1>7, <2>1, <2>2, OpenPlanChange DEF CopyPlan
  <1>8. ASSUME NEW k \in Configurations, ResumeDraft(k) \/ LoadDeck(k) PROVE NotBoth'
    BY <1>8, ConfigurationTyped DEF ResumeDraft, LoadDeck, Adopt, NotBoth, OneWay
  <1>9. CASE EditDeck \/ Navigate \/ UNCHANGED vars
    <2>1. UNCHANGED plans
      BY <1>9 DEF EditDeck, Navigate, vars, planVars, AddCard, RemoveCard, SetCopies, UndoRemove, DismissToast,
                  SetContext, SetStudy, AdjustSelection, ClearSelection
    <2> QED
      BY <2>1, OtherPlansUnchanged
  <1> QED
    BY <1>1, <1>2, <1>3, <1>4, <1>5, <1>6, <1>7, <1>8, <1>9 DEF Next, EditPlans

\* R2: over swaps, undos, withdrawals and copies of plans, no card enters and
\* leaves in one plan.
THEOREM NotBothHolds == Spec => []NotBoth
  <1>1. Init => NotBoth
    BY ConfigurationTyped DEF Init, NotBoth
  <1> QED
    BY <1>1, NotBothStep, TypeCorrect, PTL DEF Spec

(***************************************************************************)
(* Copies of a card over all zones                                         *)
(***************************************************************************)

\* What the toast would restore fits, unless the card may have come back.
RemovalFits ==
    \A t \in Removals :
        removalToast = t /\ ~grown /\ t.card \notin exempt
        => Total(deck, t.card) - deck[t.zone][t.card] + t.copies <= MaxCopies

\* The total of a card after its copies in one zone have changed.
LEMMA TotalOf ==
    ASSUME NEW d \in Decks, NEW e \in Decks, NEW zone \in Zones, NEW c \in Cards,
           \A z \in Zones, b \in Cards : (z = zone /\ b = c) \/ e[z][b] = d[z][b]
    PROVE  Total(e, c) = Total(d, c) - d[zone][c] + e[zone][c]
  <1>1. \A z \in Zones, b \in Cards : d[z][b] \in Nat /\ e[z][b] \in Nat
    BY SidePlanAssumption DEF Decks
  <1>2. Total(e, c) = Total(d, c) - d[zone][c] + e[zone][c]
    <2>1. \A z \in Zones \ {zone} : e[z][c] = d[z][c]
      OBVIOUS
    <2>2. zone = "main" \/ zone = "extra" \/ zone = "side"
      BY DEF Zones, PlayZones
    <2> QED
      BY <1>1, <2>1, <2>2 DEF Total, Zones, PlayZones
  <1> QED
    BY <1>2

LEMMA SameTotal ==
    ASSUME NEW d, NEW e, NEW b, \A z \in Zones : e[z][b] = d[z][b]
    PROVE  Total(e, b) = Total(d, b)
  BY DEF Total, Zones, PlayZones

LEMMA TotalTyped ==
    ASSUME NEW d \in Decks, NEW c \in Cards
    PROVE  Total(d, c) \in Nat /\ \A z \in Zones : d[z][c] \in Nat /\ d[z][c] <= Total(d, c)
  BY SidePlanAssumption DEF Total, Decks, Zones, PlayZones

\* A step that gives a zone n copies of a card, within the limit or fewer than it had.
LEMMA CopiesStep ==
    ASSUME DeckOK, CopiesWithinLimit, RemovalFits,
           NEW zone \in Zones, NEW c \in Cards, NEW n \in 0..MaxCopies,
           WithinLimit(zone, c, n), CopiesBecome(zone, c, n)
    PROVE  CopiesWithinLimit' /\ RemovalFits'
  <1>0. deck \in Decks /\ deck' = [deck EXCEPT ![zone][c] = n]
    BY DEF CopiesBecome, DeckOK
  <1>1. /\ deck \in Decks /\ deck' \in Decks
        /\ Total(deck', c) = Total(deck, c) - deck[zone][c] + n
        /\ \A b \in Cards \ {c} : Total(deck', b) = Total(deck, b)
        /\ \A z \in Zones, b \in Cards : deck'[z][b] = IF z = zone /\ b = c THEN n ELSE deck[z][b]
    <2>1. deck' \in Decks /\ \A z \in Zones, b \in Cards :
             deck'[z][b] = IF z = zone /\ b = c THEN n ELSE deck[z][b]
      BY <1>0 DEF Decks
    <2>2. \A z \in Zones, b \in Cards : (z = zone /\ b = c) \/ deck'[z][b] = deck[z][b]
      BY <2>1
    <2>3. Total(deck', c) = Total(deck, c) - deck[zone][c] + deck'[zone][c]
      BY <1>0, <2>1, <2>2, TotalOf
    <2>4. ASSUME NEW b \in Cards \ {c} PROVE Total(deck', b) = Total(deck, b)
      BY <2>1, SameTotal
    <2> QED
      BY <1>0, <2>1, <2>3, <2>4
  <1>2. CopiesWithinLimit'
    <2> SUFFICES ASSUME NEW b \in Cards, Total(deck', b) > MaxCopies PROVE b \in exempt
      BY DEF CopiesWithinLimit, AboveLimit, CopiesBecome
    <2>1. b # c
      BY <1>1, SidePlanAssumption, TotalTyped DEF WithinLimit
    <2> QED
      BY <1>1, <2>1 DEF CopiesWithinLimit, AboveLimit
  <1>3. RemovalFits'
    <2> SUFFICES ASSUME NEW t \in Removals, removalToast = t, ~grown', t.card \notin exempt
                 PROVE  Total(deck', t.card) - deck'[t.zone][t.card] + t.copies <= MaxCopies
      BY DEF RemovalFits, CopiesBecome
    <2>1. /\ t.card \in Cards /\ t.zone \in Zones /\ t.copies \in Nat
          /\ ~grown /\ (t.card = c /\ t # NoToast => n <= deck[zone][c])
      <3>1. ~grown /\ (t.card = c /\ t # NoToast => ~(n > deck[zone][c]))
        BY DEF CopiesBecome
      <3>2. deck[zone][c] \in Nat
        BY <1>1, TotalTyped
      <3> QED
        BY <3>1, <3>2, SidePlanAssumption DEF Removals
    <2>2. Total(deck, t.card) - deck[t.zone][t.card] + t.copies <= MaxCopies
      BY <2>1 DEF RemovalFits
    <2>3. CASE t.card # c
      BY <1>1, <2>1, <2>2, <2>3
    <2>4. CASE t.card = c
      <3>1. n <= deck[zone][c]
        BY <2>1, <2>4, SidePlanAssumption
      <3>2. /\ Total(deck, c) \in Nat /\ deck[zone][c] \in Nat /\ deck[t.zone][c] \in Nat
        BY <1>1, <2>1, TotalTyped
      <3>3. deck'[t.zone][c] = IF t.zone = zone THEN n ELSE deck[t.zone][c]
        BY <1>1, <2>1
      <3> QED
        BY <1>1, <2>1, <2>2, <2>4, <3>1, <3>2, <3>3, SidePlanAssumption
    <2> QED
      BY <2>3, <2>4
  <1> QED
    BY <1>2, <1>3

LEMMA RemovalStep ==
    ASSUME DeckOK, CopiesWithinLimit, NEW zone \in Zones, NEW c \in Cards, RemoveCard(zone, c)
    PROVE  CopiesWithinLimit' /\ RemovalFits'
  <1>0. deck \in Decks /\ deck' = [deck EXCEPT ![zone][c] = 0]
    BY DEF RemoveCard, DeckOK
  <1>1. /\ Total(deck', c) = Total(deck, c) - deck[zone][c]
        /\ \A b \in Cards \ {c} : Total(deck', b) = Total(deck, b)
        /\ deck'[zone][c] = 0
    <2>1. 0 \in 0..MaxCopies /\ Total(deck, c) \in Nat /\ deck[zone][c] \in Nat
      BY <1>0, SidePlanAssumption, TotalTyped
    <2>2. deck' \in Decks /\ \A z \in Zones, b \in Cards :
             deck'[z][b] = IF z = zone /\ b = c THEN 0 ELSE deck[z][b]
      BY <1>0, <2>1 DEF Decks
    <2>3. \A z \in Zones, b \in Cards : (z = zone /\ b = c) \/ deck'[z][b] = deck[z][b]
      BY <2>2
    <2>4. Total(deck', c) = Total(deck, c) - deck[zone][c] + deck'[zone][c]
      BY <1>0, <2>2, <2>3, TotalOf
    <2>5. ASSUME NEW b \in Cards \ {c} PROVE Total(deck', b) = Total(deck, b)
      BY <2>2, SameTotal
    <2> QED
      BY <2>1, <2>2, <2>4, <2>5
  <1>2. /\ Total(deck, c) \in Nat /\ deck[zone][c] \in Nat
        /\ \A b \in Cards : Total(deck, b) > MaxCopies => b \in exempt
    BY <1>0, TotalTyped DEF CopiesWithinLimit, AboveLimit
  <1>3. CopiesWithinLimit'
    <2> SUFFICES ASSUME NEW b \in Cards, Total(deck', b) > MaxCopies PROVE b \in exempt
      BY DEF CopiesWithinLimit, AboveLimit, RemoveCard
    <2> QED
      BY <1>1, <1>2, SidePlanAssumption
  <1>4. RemovalFits'
    <2> SUFFICES ASSUME NEW t \in Removals, removalToast' = t, t.card \notin exempt
                 PROVE  Total(deck', t.card) - deck'[t.zone][t.card] + t.copies <= MaxCopies
      BY DEF RemovalFits, RemoveCard
    <2>1. t.card = c /\ t.zone = zone /\ t.copies = deck[zone][c]
      BY DEF RemoveCard
    <2> QED
      BY <1>1, <1>2, <2>1, SidePlanAssumption
  <1> QED
    BY <1>3, <1>4

LEMMA UndoStep ==
    ASSUME DeckOK, CopiesWithinLimit, RemovalFits, UndoRemove
    PROVE  CopiesWithinLimit' /\ RemovalFits'
  <1>1. PICK t \in Removals : t = removalToast
    BY DEF UndoRemove, DeckOK
  <1>2. t.card \in Cards /\ t.zone \in Zones /\ t.copies \in 0..MaxCopies
    BY <1>1, SidePlanAssumption DEF Removals
  <1>3. deck \in Decks /\ deck' = [deck EXCEPT ![t.zone][t.card] = t.copies]
    BY <1>1 DEF UndoRemove, DeckOK
  <1>4. /\ Total(deck', t.card) = Total(deck, t.card) - deck[t.zone][t.card] + t.copies
        /\ \A b \in Cards \ {t.card} : Total(deck', b) = Total(deck, b)
    <2>1. deck' \in Decks /\ \A z \in Zones, b \in Cards :
             deck'[z][b] = IF z = t.zone /\ b = t.card THEN t.copies ELSE deck[z][b]
      BY <1>2, <1>3 DEF Decks
    <2>2. \A z \in Zones, b \in Cards : (z = t.zone /\ b = t.card) \/ deck'[z][b] = deck[z][b]
      BY <2>1
    <2>3. PICK c \in Cards, zone \in Zones : c = t.card /\ zone = t.zone
      BY <1>2
    <2>4. Total(deck', c) = Total(deck, c) - deck[zone][c] + deck'[zone][c]
      <3>1. \A z \in Zones, b \in Cards : (z = zone /\ b = c) \/ deck'[z][b] = deck[z][b]
        BY <2>2, <2>3
      <3>2. deck \in Decks /\ deck' \in Decks
        BY <1>3, <2>1
      <3> QED
        BY ONLY <3>1, <3>2, TotalOf, zone \in Zones, c \in Cards
    <2>5. ASSUME NEW b \in Cards \ {t.card} PROVE Total(deck', b) = Total(deck, b)
      BY <2>1, SameTotal
    <2> QED
      BY <1>2, <2>1, <2>3, <2>4, <2>5
  <1>5. CopiesWithinLimit'
    <2> SUFFICES ASSUME NEW b \in Cards, Total(deck', b) > MaxCopies PROVE b \in exempt'
      BY DEF CopiesWithinLimit, AboveLimit
    <2>1. CASE b # t.card
      BY <1>4, <2>1 DEF CopiesWithinLimit, AboveLimit, UndoRemove
    <2>2. CASE b = t.card /\ grown
      BY <1>1, <2>2 DEF UndoRemove
    <2>3. CASE b = t.card /\ ~grown
      <3>1. ~(Total(deck, t.card) - deck[t.zone][t.card] + t.copies <= MaxCopies)
        <4>1. Total(deck, t.card) \in Nat /\ deck[t.zone][t.card] \in Nat
          BY <1>2, <1>3, TotalTyped
        <4> QED
          BY <1>2, <1>4, <2>3, <4>1, SidePlanAssumption
      <3>2. t.card \in exempt
        BY <1>1, <2>3, <3>1 DEF RemovalFits
      <3> QED
        BY <2>3, <3>2 DEF UndoRemove
    <2> QED
      BY <2>1, <2>2, <2>3
  <1>6. RemovalFits'
    BY SidePlanAssumption DEF RemovalFits, UndoRemove
  <1> QED
    BY <1>5, <1>6

\* A configuration adopted: what it has above the limit is excepted, and nothing
\* is known of the toast any more.
LEMMA AdoptStep ==
    ASSUME NEW k \in Configurations, Adopt(k), removalToast' = NoToast \/ grown'
    PROVE  CopiesWithinLimit' /\ RemovalFits'
  BY SidePlanAssumption DEF Adopt, CopiesWithinLimit, RemovalFits, AboveLimit

LEMMA LimitUnchanged ==
    ASSUME CopiesWithinLimit, RemovalFits, UNCHANGED deckVars
    PROVE  CopiesWithinLimit' /\ RemovalFits'
  BY DEF CopiesWithinLimit, RemovalFits, AboveLimit, Total, deckVars

LEMMA LimitStep == TypeOK /\ CopiesWithinLimit /\ RemovalFits /\ [Next]_vars => CopiesWithinLimit' /\ RemovalFits'
  <1> SUFFICES ASSUME TypeOK, CopiesWithinLimit, RemovalFits, [Next]_vars
               PROVE  CopiesWithinLimit' /\ RemovalFits'
    OBVIOUS
  <1>0. DeckOK
    BY TypeParts
  <1>1. ASSUME NEW zone \in Zones, NEW c \in Cards, AddCard(zone, c)
        PROVE  CopiesWithinLimit' /\ RemovalFits'
    <2>1. deck[zone][c] + 1 \in 0..MaxCopies
      BY <1>0, <1>1, SidePlanAssumption DEF AddCard, WithinLimit, Total, DeckOK, Decks, Zones, PlayZones
    <2> QED
      BY <1>0, <1>1, <2>1, CopiesStep DEF AddCard
  <1>2. ASSUME NEW zone \in Zones, NEW c \in Cards, RemoveCard(zone, c)
        PROVE  CopiesWithinLimit' /\ RemovalFits'
    BY <1>0, <1>2, RemovalStep
  <1>3. ASSUME NEW zone \in Zones, NEW c \in Cards, NEW n \in 0..MaxCopies, SetCopies(zone, c, n)
        PROVE  CopiesWithinLimit' /\ RemovalFits'
    <2>1. CASE RemoveCard(zone, c)
      BY <1>2, <2>1
    <2>2. CASE WithinLimit(zone, c, n) /\ CopiesBecome(zone, c, n)
      BY <1>0, <2>2, CopiesStep
    <2> QED
      BY <1>3, <2>1, <2>2 DEF SetCopies
  <1>4. CASE UndoRemove
    BY <1>0, <1>4, UndoStep
  <1>5. CASE DismissToast
    BY <1>5, SidePlanAssumption DEF DismissToast, CopiesWithinLimit, RemovalFits, AboveLimit, Total
  <1>6. ASSUME NEW k \in Configurations, ResumeDraft(k)
        PROVE  CopiesWithinLimit' /\ RemovalFits'
    <2>1. removalToast' = NoToast \/ grown'
      BY <1>6 DEF ResumeDraft
    <2> QED
      BY <1>6, <2>1, AdoptStep DEF ResumeDraft
  <1>7. ASSUME NEW k \in Configurations, LoadDeck(k)
        PROVE  CopiesWithinLimit' /\ RemovalFits'
    BY <1>7, AdoptStep DEF LoadDeck
  <1>8. CASE EditPlans \/ Navigate \/ CopyPlan \/ UNCHANGED vars
    <2>1. UNCHANGED deckVars
      BY <1>8 DEF EditPlans, Navigate, vars, AddMatchup, RemoveMatchup, CommitSelection, UndoLastSwap,
                  ClearOpenPlan, RemoveFromPlan, CopyPlan, SetContext, SetStudy, AdjustSelection, ClearSelection
    <2> QED
      BY <2>1, LimitUnchanged
  <1> QED
    BY <1>1, <1>2, <1>3, <1>4, <1>5, <1>6, <1>7, <1>8 DEF Next, EditDeck

\* S9: the editor takes no card above its copies over all zones, the removals
\* put back after a return of the card excepted.
THEOREM CopiesWithinLimitHolds == Spec => []CopiesWithinLimit
  <1>1. Init => CopiesWithinLimit /\ RemovalFits
    BY SidePlanAssumption DEF Init, CopiesWithinLimit, RemovalFits, AboveLimit
  <1> QED
    BY <1>1, LimitStep, TypeCorrect, PTL DEF Spec

(***************************************************************************)
(* An undo gives back the plan before the swap                             *)
(***************************************************************************)

\* The swaps of the history lead from each plan to the next and to the open one.
HistoryChains ==
    ~retouched =>
        \A i \in 1..Len(swapHistory) :
            WithSwap(swapHistory[i].before, swapHistory[i].swap)
              = IF i = Len(swapHistory) THEN OpenPlan ELSE swapHistory[i + 1].before

LEMMA NoHistoryChains == swapHistory' = <<>> => HistoryChains'
  BY NoHistory DEF HistoryChains

LEMMA HistoryUnchanged == HistoryChains /\ UNCHANGED <<planVars, studyVars>> => HistoryChains'
  BY DEF HistoryChains, planVars, studyVars, OpenPlan

LEMMA SelectionChanged ==
    HistoryChains /\ UNCHANGED <<plans, study, context, swapHistory, retouched>> => HistoryChains'
  BY DEF HistoryChains, OpenPlan

\* While nothing has retouched the open plan, undoing its last swap gives the
\* plan before it.
LEMMA UndoGivesBefore ==
    ASSUME TypeOK, HistoryChains, UndoLastSwap, ~retouched
    PROVE  WithoutSwap(OpenPlan, swapHistory[Len(swapHistory)].swap) = swapHistory[Len(swapHistory)].before
  <1>1. swapHistory \in History /\ swapHistory # <<>>
    BY TypeParts DEF StudyOK, UndoLastSwap
  <1>2. Len(swapHistory) \in Nat \ {0} /\ swapHistory[Len(swapHistory)] \in [swap : Swaps, before : Plans]
    BY <1>1, LastOf DEF History
  <1>3. PICK last \in [swap : Swaps, before : Plans] : last = swapHistory[Len(swapHistory)]
    BY <1>2
  <1>4. last.swap \in Swaps /\ last.before \in Plans
    BY <1>3
  <1>5. WithSwap(last.before, last.swap) = OpenPlan
    BY <1>2, <1>3 DEF HistoryChains
  <1> QED
    BY <1>3, <1>4, <1>5, UndoneSwap

LEMMA HistoryStep == TypeOK /\ HistoryChains /\ [Next]_vars => HistoryChains'
  <1> SUFFICES ASSUME TypeOK, HistoryChains, [Next]_vars PROVE HistoryChains'
    OBVIOUS
  <1>0. PlansOK /\ StudyOK
    BY TypeParts
  <1>1. CASE CommitSelection
    <2>1. /\ OpenPlan' = WithSwap(OpenPlan, selection)
          /\ swapHistory' = Append(swapHistory, [swap |-> selection, before |-> OpenPlan])
          /\ retouched' = retouched
      <3>1. study \in Opponents /\ context \in Positions
        BY <1>0, <1>1, OpenPlanTyped DEF CommitSelection, StudyOK
      <3> QED
        BY <1>0, <1>1, <3>1 DEF CommitSelection, OpenPlanBecomes, OpenPlan, PlansOK
    <2>2. PICK n \in Nat : n = Len(swapHistory)
      BY <1>0 DEF StudyOK, History
    <2>3. /\ Len(swapHistory') = n + 1
          /\ \A i \in 1..n : swapHistory'[i] = swapHistory[i]
          /\ swapHistory'[n + 1] = [swap |-> selection, before |-> OpenPlan]
      <3>1. selection \in Swaps /\ OpenPlan \in Plans
        BY <1>0, <1>1, OpenPlanTyped DEF CommitSelection, StudyOK
      <3>2. [swap |-> selection, before |-> OpenPlan] \in [swap : Swaps, before : Plans]
        BY <3>1
      <3> QED
        BY <1>0, <2>1, <2>2, <3>2, AppendProperties DEF StudyOK, History
    <2> SUFFICES ASSUME ~retouched', NEW i \in 1..n + 1
                 PROVE  WithSwap(swapHistory'[i].before, swapHistory'[i].swap)
                          = IF i = n + 1 THEN OpenPlan' ELSE swapHistory'[i + 1].before
      BY <2>3 DEF HistoryChains
    <2>4. CASE i = n + 1
      BY <2>1, <2>3, <2>4
    <2>5. CASE i \in 1..n
      <3>1. WithSwap(swapHistory[i].before, swapHistory[i].swap)
              = IF i = n THEN OpenPlan ELSE swapHistory[i + 1].before
        BY <2>1, <2>2, <2>5 DEF HistoryChains
      <3>2. CASE i = n
        BY <2>3, <2>5, <3>1, <3>2
      <3>3. CASE i # n
        BY <2>3, <2>5, <3>1, <3>3
      <3> QED
        BY <3>2, <3>3
    <2> QED
      BY <2>4, <2>5
  <1>2. CASE UndoLastSwap
    <2> DEFINE last == swapHistory[Len(swapHistory)]
    <2>1. swapHistory \in History /\ swapHistory # <<>>
      BY <1>0, <1>2 DEF StudyOK, UndoLastSwap
    <2>2. PICK n \in Nat : n = Len(swapHistory) - 1
      <3>1. Len(swapHistory) \in Nat \ {0}
        BY <2>1, LastOf DEF History
      <3> QED
        BY <3>1
    <2>3. /\ Len(swapHistory) = n + 1 /\ Len(swapHistory') = n
          /\ \A i \in 1..n : swapHistory'[i] = swapHistory[i]
      <3>1. swapHistory' = SubSeq(swapHistory, 1, Len(swapHistory) - 1)
        BY <1>2 DEF UndoLastSwap
      <3> QED
        BY <2>1, <2>2, <3>1, LastOf DEF History
    <2>4. CASE n = 0
      BY <2>3, <2>4 DEF HistoryChains
    <2>5. CASE n # 0
      <3>1. retouched' = retouched
        <4>1. Len(swapHistory) > 1
          BY <2>3, <2>5
        <4>2. retouched' = (retouched /\ Len(swapHistory) > 1) /\ retouched \in BOOLEAN
          BY <1>0, <1>2 DEF UndoLastSwap, StudyOK
        <4> QED
          BY <4>1, <4>2, Zenon
      <3>2. CASE retouched
        BY <3>1, <3>2 DEF HistoryChains
      <3>3. CASE ~retouched
        <4>1. OpenPlan' = WithoutSwap(OpenPlan, last.swap)
          <5>1. study \in Opponents /\ context \in Positions
            BY <1>0, <1>2, OpenPlanTyped DEF UndoLastSwap, StudyOK
          <5> QED
            BY <1>0, <1>2, <5>1 DEF UndoLastSwap, OpenPlanBecomes, OpenPlan, PlansOK
        <4>2. OpenPlan' = last.before
          BY <1>2, <3>3, <4>1, UndoGivesBefore
        <4> SUFFICES ASSUME NEW i \in 1..n
                     PROVE  WithSwap(swapHistory'[i].before, swapHistory'[i].swap)
                              = IF i = n THEN OpenPlan' ELSE swapHistory'[i + 1].before
          BY <2>3 DEF HistoryChains
        <4>3. WithSwap(swapHistory[i].before, swapHistory[i].swap) = swapHistory[i + 1].before
          BY <2>3, <3>3 DEF HistoryChains
        <4>4. CASE i = n
          BY <2>3, <4>2, <4>3, <4>4
        <4>5. CASE i # n
          BY <2>3, <4>3, <4>5
        <4> QED
          BY <4>4, <4>5
      <3> QED
        BY <3>2, <3>3
    <2> QED
      BY <2>4, <2>5
  <1>3. ASSUME NEW dir \in Directions, NEW c \in Cards, RemoveFromPlan(dir, c) PROVE HistoryChains'
    <2>1. retouched' \/ swapHistory' = <<>>
      BY <1>3 DEF RemoveFromPlan, Retouch
    <2> QED
      BY <2>1, NoHistoryChains DEF HistoryChains
  <1>4. CASE CopyPlan
    <2>1. retouched' \/ swapHistory' = <<>>
      BY <1>4 DEF CopyPlan, Retouch
    <2> QED
      BY <2>1, NoHistoryChains DEF HistoryChains
  <1>5. ASSUME \/ \E p \in Positions : SetContext(p)
               \/ \E o \in Opponents \cup {NoOpponent} : SetStudy(o)
               \/ \E o \in Opponents : AddMatchup(o)
               \/ RemoveMatchup \/ ClearOpenPlan
               \/ \E k \in Configurations : ResumeDraft(k) \/ LoadDeck(k)
        PROVE  HistoryChains'
    BY <1>5, NoHistoryChains
    DEF SetContext, SetStudy, AddMatchup, RemoveMatchup, ClearOpenPlan, ResumeDraft, LoadDeck, PlanLeft
  <1>6. CASE EditDeck \/ UNCHANGED vars
    <2>1. UNCHANGED <<planVars, studyVars>>
      BY <1>6 DEF EditDeck, vars, AddCard, RemoveCard, SetCopies, UndoRemove, DismissToast
    <2> QED
      BY <2>1, HistoryUnchanged
  <1>7. ASSUME (\E dir \in Directions, c \in Cards : AdjustSelection(dir, c)) \/ ClearSelection PROVE HistoryChains'
    <2>1. UNCHANGED <<plans, study, context, swapHistory, retouched>>
      BY <1>7 DEF AdjustSelection, ClearSelection, planVars
    <2> QED
      BY <2>1, SelectionChanged
  <1> QED
    BY <1>1, <1>2, <1>3, <1>4, <1>5, <1>6, <1>7 DEF Next, EditPlans, Navigate

\* D13: whatever has happened to the deck and to the other plans since, undoing
\* the last swap gives back the plan as it was before it and touches no other,
\* unless the plan was retouched otherwise.
THEOREM UndoRestoresHolds == Spec => UndoRestores
  <1>1. Init => HistoryChains
    BY NoHistory DEF Init, HistoryChains
  <1>2. TypeOK /\ HistoryChains /\ [Next]_vars
          => [UndoLastSwap /\ ~retouched =>
                plans' = [plans EXCEPT ![study][context] = swapHistory[Len(swapHistory)].before]]_vars
    BY UndoGivesBefore DEF UndoLastSwap, OpenPlanBecomes
  <1> QED
    BY <1>1, <1>2, HistoryStep, TypeCorrect, PTL DEF Spec, UndoRestores

-----------------------------------------------------------------------------
(***************************************************************************)
(* What the status of a plan is worth: no gesture on plans puts one in     *)
(* review, and a ready plan gives a deck that is out of format for the     *)
(* very reasons the deck is.                                               *)
(***************************************************************************)

(***************************************************************************)
(* The size of a list                                                      *)
(***************************************************************************)

\* One pair for each copy of a list.
Slots(list) == UNION {{c} \X (1..list[c]) : c \in Cards}

LEMMA InSlots ==
    ASSUME NEW f \in Lists
    PROVE  \A x : x \in Slots(f) <=> \E c \in Cards, i \in Nat : i \in 1..f[c] /\ x = <<c, i>>
  BY DEF Slots

LEMMA FiniteSlots ==
    ASSUME NEW f \in Lists
    PROVE  IsFiniteSet(Slots(f))
  <1> DEFINE T == {{c} \X (1..f[c]) : c \in Cards}
             slotsOf == [c \in Cards |-> {c} \X (1..f[c])]
  <1>1. slotsOf \in Surjection(Cards, T)
    BY DEF Surjection
  <1>2. IsFiniteSet(T)
    BY <1>1, FS_Surjection, SidePlanAssumption
  <1>3. ASSUME NEW t \in T PROVE IsFiniteSet(t)
    <2>1. PICK c \in Cards : t = {c} \X (1..f[c])
      OBVIOUS
    <2>2. IsFiniteSet({c})
      BY FS_Singleton
    <2>3. f[c] \in Int /\ 1 \in Int
      BY DEF Lists
    <2>4. IsFiniteSet(1..f[c])
      BY <2>3, FS_Interval
    <2> QED
      BY <2>1, <2>2, <2>4, FS_Product
  <1> HIDE DEF T
  <1>4. IsFiniteSet(UNION T)
    BY <1>2, <1>3, FS_UNION
  <1> QED
    BY <1>4 DEF Slots, T

LEMMA SizeType == ASSUME NEW f \in Lists PROVE Size(f) = Cardinality(Slots(f)) /\ Size(f) \in Nat
  <1>1. Size(f) = Cardinality(Slots(f))
    BY DEF Size, Slots
  <1> QED
    BY <1>1, FiniteSlots, FS_CardinalityType

\* The size of a sum of lists is the sum of their sizes.
LEMMA SizeOfSum ==
    ASSUME NEW f \in Lists, NEW g \in Lists, NEW h \in Lists, \A c \in Cards : h[c] = f[c] + g[c]
    PROVE  Size(h) = Size(f) + Size(g)
  <1> DEFINE over == Slots(h) \ Slots(f)
             up == [s \in Slots(g) |-> <<s[1], f[s[1]] + s[2]>>]
  <1>0. \A c \in Cards : f[c] \in Nat /\ g[c] \in Nat /\ h[c] \in Nat
    BY DEF Lists
  <1>1. \A x : x \in over <=> \E c \in Cards, i \in Nat : i \in 1..g[c] /\ x = <<c, f[c] + i>>
    <2>1. ASSUME NEW x, x \in over PROVE \E c \in Cards, i \in Nat : i \in 1..g[c] /\ x = <<c, f[c] + i>>
      <3>1. PICK c \in Cards, j \in Nat : j \in 1..h[c] /\ x = <<c, j>>
        BY <2>1, InSlots
      <3>2. j \notin 1..f[c]
        BY <2>1, <3>1, InSlots
      <3>3. j - f[c] \in 1..g[c] /\ j = f[c] + (j - f[c])
        BY <1>0, <3>1, <3>2
      <3> QED
        BY <3>1, <3>3
    <2>2. ASSUME NEW c \in Cards, NEW i \in 1..g[c] PROVE <<c, f[c] + i>> \in over
      <3>1. f[c] + i \in 1..h[c] /\ f[c] + i \notin 1..f[c]
        BY <1>0
      <3>2. <<c, f[c] + i>> \in Slots(h)
        BY <3>1, InSlots
      <3>3. ASSUME <<c, f[c] + i>> \in Slots(f) PROVE FALSE
        <4>1. PICK b \in Cards, j \in Nat : j \in 1..f[b] /\ <<c, f[c] + i>> = <<b, j>>
          BY <3>3, InSlots
        <4> QED
          BY <3>1, <4>1
      <3> QED
        BY <3>2, <3>3
    <2> QED
      BY <2>1, <2>2
  <1>2. up \in Bijection(Slots(g), over)
    <2>1. ASSUME NEW s \in Slots(g) PROVE s[1] \in Cards /\ s[2] \in 1..g[s[1]] /\ s = <<s[1], s[2]>>
      <3>1. PICK c \in Cards, i \in Nat : i \in 1..g[c] /\ s = <<c, i>>
        BY InSlots
      <3> QED
        BY <3>1
    <2>2. ASSUME NEW s \in Slots(g) PROVE up[s] \in over
      BY <1>1, <2>1
    <2>3. ASSUME NEW s \in Slots(g), NEW t \in Slots(g), up[s] = up[t] PROVE s = t
      <3>1. s[1] = t[1] /\ f[s[1]] + s[2] = f[t[1]] + t[2]
        BY <2>3
      <3>2. s[2] = t[2]
        BY <1>0, <2>1, <3>1
      <3> QED
        BY <2>1, <3>1, <3>2
    <2>4. ASSUME NEW x \in over PROVE \E s \in Slots(g) : up[s] = x
      <3>1. PICK c \in Cards, i \in Nat : i \in 1..g[c] /\ x = <<c, f[c] + i>>
        BY <1>1
      <3>2. <<c, i>> \in Slots(g) /\ up[<<c, i>>] = x
        BY <3>1, InSlots
      <3> QED
        BY <3>2
    <2> HIDE DEF over
    <2>5. up \in [Slots(g) -> over]
      BY <2>2
    <2> HIDE DEF up
    <2>6. up \in Injection(Slots(g), over)
      <3>1. \A s, t \in Slots(g) : up[s] = up[t] => s = t
        BY <2>3
      <3> QED
        BY <2>5, <3>1 DEF Injection, IsInjective
    <2>7. up \in Surjection(Slots(g), over)
      BY <2>4, <2>5 DEF Surjection
    <2> QED
      BY <2>6, <2>7 DEF Bijection
  <1>3. Cardinality(over) = Size(g) /\ IsFiniteSet(over)
    <2>1. ExistsBijection(Slots(g), over)
      BY <1>2 DEF ExistsBijection
    <2> HIDE DEF over
    <2> QED
      BY <2>1, FiniteSlots, SizeType, FS_Bijection
  <1>4. Slots(f) \cup over = Slots(h) /\ Slots(f) \cap over = {}
    <2>1. ASSUME NEW x \in Slots(f) PROVE x \in Slots(h)
      <3>1. PICK c \in Cards, i \in Nat : i \in 1..f[c] /\ x = <<c, i>>
        BY InSlots
      <3>2. i \in 1..h[c]
        BY <1>0, <3>1
      <3> QED
        BY <3>1, <3>2, InSlots
    <2> QED
      BY <2>1
  <1> HIDE DEF over
  <1>5. Cardinality(Slots(f) \cup over) = Cardinality(Slots(f)) + Cardinality(over) - 0
    BY <1>3, <1>4, FiniteSlots, FS_Union, FS_EmptySet
  <1> QED
    BY <1>3, <1>4, <1>5, SizeType

(***************************************************************************)
(* What a ready plan leaves                                                *)
(***************************************************************************)

LEMMA InZoneTyped ==
    ASSUME NEW list \in Lists, NEW zone
    PROVE  /\ InZone(list, zone) \in Lists
           /\ \A c \in Cards : InZone(list, zone)[c] = IF ZoneOf[c] = zone THEN list[c] ELSE 0
  BY DEF InZone, Playing, Lists

LEMMA DeckTyped ==
    ASSUME NEW d \in Decks
    PROVE  /\ d["main"] \in Lists /\ d["extra"] \in Lists /\ d["side"] \in Lists
           /\ \A z \in Zones : d[z] \in Lists
           /\ \A z \in Zones, c \in Cards : d[z][c] \in Nat
  <1>1. \A z \in Zones : d[z] \in Lists
    BY SidePlanAssumption DEF Decks, Lists
  <1> QED
    BY <1>1 DEF Zones, PlayZones, Lists

LEMMA PlanTyped ==
    ASSUME NEW plan \in Plans
    PROVE  /\ plan.outgoing \in Lists /\ plan.incoming \in Lists
           /\ \A c \in Cards : plan.outgoing[c] \in Nat /\ plan.incoming[c] \in Nat
  BY DEF Plans, Directions, Lists

\* A plan without an issue takes what is there, and only cards that play somewhere.
LEMMA NoIssue ==
    ASSUME NEW d \in Decks, NEW plan \in Plans, Status(d, plan) = "ready", NEW c \in Cards
    PROVE  /\ Balanced(plan)
           /\ ZoneOf[c] = "none" => plan.outgoing[c] = 0 /\ plan.incoming[c] = 0
           /\ ZoneOf[c] # "none" => plan.outgoing[c] <= d[ZoneOf[c]][c] /\ plan.incoming[c] <= d["side"][c]
           /\ ZoneOf[c] = "none" \/ ZoneOf[c] \in PlayZones
  <1>1. PlanIssues(d, plan) = {} /\ Balanced(plan)
    BY DEF Status
  <1>2. plan.outgoing[c] \in Nat /\ plan.incoming[c] \in Nat
    BY PlanTyped
  <1>3. ZoneOf[c] = "none" \/ ZoneOf[c] \in PlayZones
    BY SidePlanAssumption
  <1>4. ASSUME ZoneOf[c] = "none" PROVE plan.outgoing[c] = 0 /\ plan.incoming[c] = 0
    <2>1. ~(plan.outgoing[c] + plan.incoming[c] > 0)
      BY <1>1, <1>4 DEF PlanIssues
    <2> QED
      BY <1>2, <2>1
  <1>5. ASSUME ZoneOf[c] # "none" PROVE plan.outgoing[c] <= d[ZoneOf[c]][c] /\ plan.incoming[c] <= d["side"][c]
    <2>1. ~(plan.outgoing[c] > d[ZoneOf[c]][c])
      BY <1>1, <1>5 DEF PlanIssues
    <2>2. ~(plan.incoming[c] > d["side"][c])
      BY <1>1, <1>5 DEF PlanIssues
    <2>3. d[ZoneOf[c]][c] \in Nat /\ d["side"][c] \in Nat
      BY <1>3, <1>5, DeckTyped DEF Zones
    <2> QED
      BY <1>2, <2>1, <2>2, <2>3
  <1> QED
    BY <1>1, <1>3, <1>4, <1>5

\* What a ready plan leaves of each card: what was there, less what leaves, with
\* what enters.
LEMMA DerivedCopies ==
    ASSUME NEW d \in Decks, NEW plan \in Plans, Status(d, plan) = "ready",
           NEW c \in Cards, NEW z \in PlayZones
    PROVE  /\ Derived(d, plan, z)[c] \in Nat
           /\ ZoneOf[c] = z => Derived(d, plan, z)[c] + plan.outgoing[c] = d[z][c] + plan.incoming[c]
           /\ ZoneOf[c] # z => Derived(d, plan, z)[c] = d[z][c]
  <1>1. /\ plan.outgoing[c] \in Nat /\ plan.incoming[c] \in Nat /\ d[z][c] \in Nat
        /\ ZoneOf[c] = z => plan.outgoing[c] <= d[z][c]
    <2>1. d[z][c] \in Nat
      BY DeckTyped DEF Zones
    <2>2. ZoneOf[c] = z => plan.outgoing[c] <= d[z][c]
      BY NoIssue DEF PlayZones
    <2> QED
      BY <2>1, <2>2, PlanTyped
  <1>2. CASE ZoneOf[c] = z
    <2>1. Derived(d, plan, z)[c]
            = IF d[z][c] > 0 THEN Less(d[z][c] + plan.incoming[c], plan.outgoing[c]) ELSE plan.incoming[c]
      BY <1>2 DEF Derived, Playing
    <2> QED
      BY <1>1, <1>2, <2>1 DEF Less
  <1>3. CASE ZoneOf[c] # z
    <2>1. Derived(d, plan, z)[c] = IF d[z][c] > 0 THEN Less(d[z][c] + 0, 0) ELSE 0
      BY <1>3 DEF Derived, Playing
    <2> QED
      BY <1>1, <1>3, <2>1 DEF Less
  <1> QED
    BY <1>2, <1>3

LEMMA DerivedTyped ==
    ASSUME NEW d \in Decks, NEW plan \in Plans, Status(d, plan) = "ready", NEW z \in PlayZones
    PROVE  Derived(d, plan, z) \in Lists
  <1>1. \A c \in Cards : Derived(d, plan, z)[c] \in Nat
    BY DerivedCopies
  <1> QED
    BY <1>1 DEF Derived, Lists

\* A zone keeps its size: as many copies of it leave as enter.
LEMMA ZoneKeepsSize ==
    ASSUME NEW d \in Decks, NEW plan \in Plans, Status(d, plan) = "ready", NEW z \in PlayZones
    PROVE  Size(Derived(d, plan, z)) = Size(d[z])
  <1> DEFINE out == InZone(plan.outgoing, z)
             in == InZone(plan.incoming, z)
             derived == Derived(d, plan, z)
             all == [c \in Cards |-> d[z][c] + in[c]]
  <1>1. out \in Lists /\ in \in Lists /\ derived \in Lists /\ d[z] \in Lists
    BY InZoneTyped, PlanTyped, DerivedTyped, DeckTyped DEF Zones
  <1>2. all \in Lists
    BY <1>1 DEF Lists
  <1>3. ASSUME NEW c \in Cards PROVE all[c] = derived[c] + out[c]
    <2>1. /\ derived[c] \in Nat /\ d[z][c] \in Nat
          /\ plan.outgoing[c] \in Nat /\ plan.incoming[c] \in Nat
      BY <1>1, PlanTyped DEF Lists
    <2>2. CASE ZoneOf[c] = z
      <3>1. out[c] = plan.outgoing[c] /\ in[c] = plan.incoming[c]
        BY <2>2, InZoneTyped, PlanTyped
      <3>2. derived[c] + plan.outgoing[c] = d[z][c] + plan.incoming[c]
        BY <2>2, DerivedCopies
      <3> HIDE DEF derived, out, in
      <3> QED
        BY <3>1, <3>2
    <2>3. CASE ZoneOf[c] # z
      <3>1. out[c] = 0 /\ in[c] = 0
        BY <2>3, InZoneTyped, PlanTyped
      <3>2. derived[c] = d[z][c]
        BY <2>3, DerivedCopies
      <3> HIDE DEF derived, out, in
      <3> QED
        BY <2>1, <3>1, <3>2
    <2> QED
      BY <2>2, <2>3
  <1>4. Size(out) = Size(in)
    <2>1. Balanced(plan)
      <3>1. Status(d, plan) = "ready" => Balanced(plan)
        BY DEF Status
      <3> QED
        BY <3>1
    <2> QED
      BY <2>1 DEF Balanced, CountIn
  <1>5. \A c \in Cards : all[c] = d[z][c] + in[c]
    OBVIOUS
  <1> HIDE DEF out, in, derived, all
  <1>6. Size(all) = Size(derived) + Size(out)
    BY <1>1, <1>2, <1>3, SizeOfSum
  <1>7. Size(all) = Size(d[z]) + Size(in)
    BY <1>1, <1>2, <1>5, SizeOfSum
  <1>8. Size(derived) \in Nat /\ Size(out) \in Nat /\ Size(in) \in Nat /\ Size(d[z]) \in Nat
    BY <1>1, SizeType
  <1> QED
    BY <1>4, <1>6, <1>7, <1>8 DEF derived

(***************************************************************************)
(* The deck a ready plan gives                                             *)
(***************************************************************************)

LEMMA SidedZones ==
    ASSUME NEW plan
    PROVE  /\ Sided(plan)["main"] = Derived(deck, plan, "main")
           /\ Sided(plan)["extra"] = Derived(deck, plan, "extra")
           /\ \A z \in PlayZones : Sided(plan)[z] = Derived(deck, plan, z)
           /\ Sided(plan)["side"]
                = [c \in Cards |-> Less(deck["side"][c], plan.incoming[c]) + plan.outgoing[c]]
  BY DEF Sided, Zones, PlayZones

\* What enters comes from the side deck, where what leaves goes.
LEMMA SideCopies ==
    ASSUME deck \in Decks, NEW plan \in Plans, Status(deck, plan) = "ready", NEW c \in Cards
    PROVE  /\ Sided(plan)["side"][c] \in Nat
           /\ Sided(plan)["side"][c] + plan.incoming[c] = deck["side"][c] + plan.outgoing[c]
  <1>1. Sided(plan)["side"][c] = Less(deck["side"][c], plan.incoming[c]) + plan.outgoing[c]
    BY ZenonT(30), SidedZones
  <1>2. plan.outgoing[c] \in Nat /\ plan.incoming[c] \in Nat /\ deck["side"][c] \in Nat
    BY PlanTyped, DeckTyped DEF Zones
  <1>3. plan.incoming[c] <= deck["side"][c]
    BY <1>2, NoIssue
  <1> QED
    BY <1>1, <1>2, <1>3 DEF Less

\* A ready plan's cards all play in the main or the extra deck.
LEMMA SizeByZone ==
    ASSUME NEW list \in Lists,
           \A c \in Cards : ZoneOf[c] \in PlayZones \/ (ZoneOf[c] = "none" /\ list[c] = 0)
    PROVE  Size(list) = CountIn(list, "main") + CountIn(list, "extra")
  <1>1. InZone(list, "main") \in Lists /\ InZone(list, "extra") \in Lists
    BY InZoneTyped
  <1>2. ASSUME NEW c \in Cards PROVE list[c] = InZone(list, "main")[c] + InZone(list, "extra")[c]
    <2>1. /\ InZone(list, "main")[c] = IF ZoneOf[c] = "main" THEN list[c] ELSE 0
          /\ InZone(list, "extra")[c] = IF ZoneOf[c] = "extra" THEN list[c] ELSE 0
          /\ list[c] \in Nat
      BY InZoneTyped DEF Lists
    <2>2. ZoneOf[c] = "main" \/ ZoneOf[c] = "extra" \/ (ZoneOf[c] = "none" /\ list[c] = 0)
      BY DEF PlayZones
    <2> QED
      BY <2>1, <2>2
  <1> QED
    BY <1>1, <1>2, SizeOfSum DEF CountIn

LEMMA SideKeepsSize ==
    ASSUME deck \in Decks, NEW plan \in Plans, Status(deck, plan) = "ready"
    PROVE  Size(Sided(plan)["side"]) = Size(deck["side"])
  <1> DEFINE side == Sided(plan)["side"]
             out == plan.outgoing
             in == plan.incoming
             all == [c \in Cards |-> deck["side"][c] + out[c]]
  <1>1. out \in Lists /\ in \in Lists /\ deck["side"] \in Lists
    BY PlanTyped, DeckTyped
  <1>2. side \in Lists
    <2>1. \A c \in Cards : side[c] \in Nat
      BY SideCopies
    <2>2. side = [c \in Cards |-> side[c]]
      BY SidedZones
    <2> HIDE DEF side
    <2> QED
      BY <2>1, <2>2 DEF Lists
  <1>3. all \in Lists
    BY <1>1 DEF Lists
  <1>4. \A c \in Cards : all[c] = deck["side"][c] + out[c]
    OBVIOUS
  <1>5. \A c \in Cards : all[c] = side[c] + in[c]
    BY SideCopies
  <1>6. Size(out) = Size(in)
    <2>1. Balanced(plan)
      <3>1. Status(deck, plan) = "ready" => Balanced(plan)
        BY DEF Status
      <3> QED
        BY <3>1
    <2>2. CountIn(out, "main") = CountIn(in, "main") /\ CountIn(out, "extra") = CountIn(in, "extra")
      BY <2>1 DEF Balanced, PlayZones
    <2>3. \A c \in Cards : ZoneOf[c] \in PlayZones \/ (ZoneOf[c] = "none" /\ out[c] = 0)
      BY NoIssue
    <2>4. \A c \in Cards : ZoneOf[c] \in PlayZones \/ (ZoneOf[c] = "none" /\ in[c] = 0)
      BY NoIssue
    <2>5. Size(out) = CountIn(out, "main") + CountIn(out, "extra")
      BY <1>1, <2>3, SizeByZone
    <2>6. Size(in) = CountIn(in, "main") + CountIn(in, "extra")
      BY <1>1, <2>4, SizeByZone
    <2> QED
      BY <2>2, <2>5, <2>6
  <1> HIDE DEF side, out, in, all
  <1>7. Size(all) = Size(deck["side"]) + Size(out)
    BY <1>1, <1>3, <1>4, SizeOfSum
  <1>8. Size(all) = Size(side) + Size(in)
    BY <1>1, <1>2, <1>3, <1>5, SizeOfSum
  <1>9. Size(side) \in Nat /\ Size(out) \in Nat /\ Size(in) \in Nat /\ Size(deck["side"]) \in Nat
    BY <1>1, <1>2, SizeType
  <1> QED
    BY <1>6, <1>7, <1>8, <1>9 DEF side

\* Swaps move copies between zones; the copies of a card over all zones stay.
LEMMA TotalKept ==
    ASSUME deck \in Decks, NEW plan \in Plans, Status(deck, plan) = "ready", NEW c \in Cards
    PROVE  Total(Sided(plan), c) = Total(deck, c)
  <1> DEFINE main == Derived(deck, plan, "main")[c]
             extra == Derived(deck, plan, "extra")[c]
             side == Sided(plan)["side"][c]
  <1>1. Total(Sided(plan), c) = main + extra + side
    BY SidedZones DEF Total
  <1>2. /\ plan.outgoing[c] \in Nat /\ plan.incoming[c] \in Nat
        /\ deck["main"][c] \in Nat /\ deck["extra"][c] \in Nat /\ deck["side"][c] \in Nat
    BY PlanTyped, DeckTyped DEF Zones, PlayZones
  <1>3. side \in Nat /\ side + plan.incoming[c] = deck["side"][c] + plan.outgoing[c]
    BY SideCopies
  <1>4. /\ main \in Nat
        /\ ZoneOf[c] = "main" => main + plan.outgoing[c] = deck["main"][c] + plan.incoming[c]
        /\ ZoneOf[c] # "main" => main = deck["main"][c]
    BY DerivedCopies DEF PlayZones
  <1>5. /\ extra \in Nat
        /\ ZoneOf[c] = "extra" => extra + plan.outgoing[c] = deck["extra"][c] + plan.incoming[c]
        /\ ZoneOf[c] # "extra" => extra = deck["extra"][c]
    BY DerivedCopies DEF PlayZones
  <1>6. \/ ZoneOf[c] = "main" \/ ZoneOf[c] = "extra"
        \/ ZoneOf[c] = "none" /\ plan.outgoing[c] = 0 /\ plan.incoming[c] = 0
    BY NoIssue DEF PlayZones
  <1> HIDE DEF main, extra, side
  <1>7. main + extra + side = deck["main"][c] + deck["extra"][c] + deck["side"][c]
    <2>1. CASE ZoneOf[c] = "main"
      BY <1>2, <1>3, <1>4, <1>5, <2>1
    <2>2. CASE ZoneOf[c] = "extra"
      BY <1>2, <1>3, <1>4, <1>5, <2>2
    <2>3. CASE ZoneOf[c] = "none" /\ plan.outgoing[c] = 0 /\ plan.incoming[c] = 0
      BY <1>2, <1>3, <1>4, <1>5, <2>3
    <2> QED
      BY <1>6, <2>1, <2>2, <2>3
  <1> QED
    BY <1>1, <1>7 DEF Total

LEMMA SameIssues ==
    ASSUME deck \in Decks, NEW plan \in Plans, Status(deck, plan) = "ready"
    PROVE  DeckIssues(Sided(plan)) = DeckIssues(deck)
  <1> DEFINE sided == Sided(plan)
  <1>1. /\ Size(sided["main"]) = Size(deck["main"])
        /\ Size(sided["extra"]) = Size(deck["extra"])
        /\ Size(sided["side"]) = Size(deck["side"])
    BY SidedZones, ZoneKeepsSize, SideKeepsSize DEF PlayZones
  <1>2. AboveLimit(sided) = AboveLimit(deck)
    BY TotalKept DEF AboveLimit
  <1>3. ASSUME NEW at \in Cards \X PlayZones
        PROVE  sided[at[2]][at[1]] > 0 /\ ZoneOf[at[1]] \notin {at[2], "none"}
                 <=> deck[at[2]][at[1]] > 0 /\ ZoneOf[at[1]] \notin {at[2], "none"}
    <2>1. PICK c \in Cards, z \in PlayZones : at = <<c, z>>
      OBVIOUS
    <2>2. sided[z] = Derived(deck, plan, z)
      BY SidedZones
    <2>3. ZoneOf[c] # z => sided[z][c] = deck[z][c]
      BY <2>2, DerivedCopies
    <2> HIDE DEF sided
    <2> QED
      BY <2>1, <2>3
  <1> HIDE DEF sided
  <1>4. {z \in {"extra", "side"} : Size(sided[z]) > ZoneMax} = {z \in {"extra", "side"} : Size(deck[z]) > ZoneMax}
    BY <1>1
  <1>5. {at \in Cards \X PlayZones : sided[at[2]][at[1]] > 0 /\ ZoneOf[at[1]] \notin {at[2], "none"}}
          = {at \in Cards \X PlayZones : deck[at[2]][at[1]] > 0 /\ ZoneOf[at[1]] \notin {at[2], "none"}}
    BY <1>3
  <1>6. DeckIssues(sided) = DeckIssues(deck)
    BY <1>1, <1>2, <1>4, <1>5, Zenon DEF DeckIssues
  <1> QED
    BY <1>6 DEF sided

\* S8: whatever the deck has become since a plan was made, if the plan is ready
\* the deck it gives is out of format for the very reasons the deck is.
THEOREM SidedDeckIsLegalHolds == Spec => []SidedDeckIsLegal
  <1>1. TypeOK => SidedDeckIsLegal
    <2> SUFFICES ASSUME TypeOK, NEW o \in matchups, NEW p \in Positions,
                        Status(deck, plans[o][p]) = "ready"
                 PROVE  DeckIssues(Sided(plans[o][p])) = DeckIssues(deck)
      BY DEF SidedDeckIsLegal
    <2>1. deck \in Decks /\ plans[o][p] \in Plans
      BY DEF TypeOK
    <2> QED
      BY <2>1, SameIssues
  <1> QED
    BY <1>1, TypeCorrect, PTL

(***************************************************************************)
(* No gesture on plans puts one in review                                  *)
(***************************************************************************)

LEMMA ReviewIsIssues ==
    ASSUME NEW d, NEW plan
    PROVE  Status(d, plan) # "review" <=> PlanIssues(d, plan) = {}
  BY DEF Status

\* What a zone has of a card after a plan.
LEMMA DerivedIs ==
    ASSUME NEW d \in Decks, NEW plan \in Plans, NEW c \in Cards, NEW z \in PlayZones
    PROVE  Derived(d, plan, z)[c]
             = IF ZoneOf[c] # z THEN d[z][c]
               ELSE IF d[z][c] > 0 THEN Less(d[z][c] + plan.incoming[c], plan.outgoing[c])
               ELSE plan.incoming[c]
  <1>1. d[z][c] \in Nat
    BY DeckTyped DEF Zones
  <1>2. CASE ZoneOf[c] = z
    BY <1>2 DEF Derived, Playing
  <1>3. CASE ZoneOf[c] # z
    <2>1. Derived(d, plan, z)[c] = IF d[z][c] > 0 THEN Less(d[z][c] + 0, 0) ELSE 0
      BY <1>3 DEF Derived, Playing
    <2> QED
      BY <1>1, <1>3, <2>1 DEF Less
  <1> QED
    BY <1>2, <1>3

\* A plan with fewer copies than one without an issue has none, since no card
\* enters and leaves: what stays of the card that left can not pass the limit.
LEMMA FewerNoIssue ==
    ASSUME NEW d \in Decks, NEW p \in Plans, NEW q \in Plans, OneWay(p), PlanIssues(d, p) = {},
           \A dir \in Directions, c \in Cards : q[dir][c] <= p[dir][c]
    PROVE  PlanIssues(d, q) = {}
  <1>1. ASSUME NEW c \in Cards
        PROVE  /\ q.outgoing[c] \in Nat /\ q.incoming[c] \in Nat /\ p.outgoing[c] \in Nat /\ p.incoming[c] \in Nat
               /\ q.outgoing[c] <= p.outgoing[c] /\ q.incoming[c] <= p.incoming[c]
               /\ p.outgoing[c] = 0 \/ p.incoming[c] = 0
    BY PlanTyped DEF OneWay, Directions
  <1>2. ASSUME NEW c \in Cards, ZoneOf[c] = "none" PROVE ~(q.outgoing[c] + q.incoming[c] > 0)
    <2>1. ~(p.outgoing[c] + p.incoming[c] > 0)
      BY <1>2 DEF PlanIssues
    <2> QED
      BY <1>1, <2>1
  <1>3. ASSUME NEW c \in Cards, ZoneOf[c] # "none"
        PROVE  ~(q.outgoing[c] > d[ZoneOf[c]][c]) /\ ~(q.incoming[c] > d["side"][c])
    <2>1. ~(p.outgoing[c] > d[ZoneOf[c]][c]) /\ ~(p.incoming[c] > d["side"][c])
      BY <1>3 DEF PlanIssues
    <2>2. d[ZoneOf[c]][c] \in Nat /\ d["side"][c] \in Nat
      BY <1>3, DeckTyped, SidePlanAssumption DEF Zones
    <2> QED
      BY <1>1, <2>1, <2>2
  <1>4. ASSUME NEW c \in Cards, NEW z \in PlayZones PROVE ~(Derived(d, q, z)[c] > MaxCopies)
    <2>1. ~(Derived(d, p, z)[c] > MaxCopies)
      BY DEF PlanIssues
    <2>2. d[z][c] \in 0..MaxCopies
      BY DEF Decks, Zones
    <2>3. CASE ZoneOf[c] # z
      BY <2>2, <2>3, DerivedIs, SidePlanAssumption
    <2>4. CASE ZoneOf[c] = z /\ d[z][c] = 0
      <3>1. Derived(d, p, z)[c] = p.incoming[c] /\ Derived(d, q, z)[c] = q.incoming[c]
        BY <2>4, DerivedIs
      <3> QED
        BY <1>1, <2>1, <3>1, SidePlanAssumption
    <2>5. CASE ZoneOf[c] = z /\ d[z][c] > 0
      <3>1. /\ Derived(d, p, z)[c] = Less(d[z][c] + p.incoming[c], p.outgoing[c])
            /\ Derived(d, q, z)[c] = Less(d[z][c] + q.incoming[c], q.outgoing[c])
        BY <2>5, DerivedIs
      <3> QED
        BY <1>1, <2>1, <2>2, <3>1, SidePlanAssumption DEF Less
    <2> QED
      BY <2>2, <2>3, <2>4, <2>5, SidePlanAssumption
  <1> QED
    BY <1>2, <1>3, <1>4 DEF PlanIssues

\* A change of the open plan only.
LEMMA OpenPlanReview ==
    ASSUME TypeOK, Open, NEW plan \in Plans, OpenPlanBecomes(plan), UNCHANGED deck,
           PlanIssues(deck, OpenPlan) = {} => PlanIssues(deck, plan) = {},
           NEW o \in matchups, NEW p \in Positions, Status(deck, plans[o][p]) # "review"
    PROVE  Status(deck', plans'[o][p]) # "review"
  <1>1. PlansOK /\ StudyOK
    BY TypeParts
  <1>2. o \in Opponents /\ study \in Opponents /\ context \in Positions
    BY <1>1, OpenPlanTyped DEF PlansOK, StudyOK
  <1>3. plans'[o][p] = IF o = study /\ p = context THEN plan ELSE plans[o][p]
    BY <1>1, <1>2 DEF PlansOK, OpenPlanBecomes
  <1>4. PlanIssues(deck, plans[o][p]) = {}
    BY ReviewIsIssues
  <1>5. PlanIssues(deck, plans'[o][p]) = {}
    BY <1>3, <1>4 DEF OpenPlan
  <1> QED
    BY <1>5, ReviewIsIssues

LEMMA ReviewStep ==
    ASSUME TypeOK, NotBoth, EditPlans,
           NEW o \in matchups, o \in matchups', NEW p \in Positions, Status(deck, plans[o][p]) # "review"
    PROVE  Status(deck', plans'[o][p]) # "review"
  <1>0. /\ DeckOK /\ PlansOK /\ StudyOK /\ deck \in Decks
        /\ Open => OpenPlan \in Plans /\ OneWay(OpenPlan)
    <2>1. DeckOK /\ PlansOK /\ StudyOK
      BY TypeParts
    <2> QED
      BY <2>1, OpenPlanTyped DEF DeckOK, StudyOK, OpenPlan, NotBoth
  <1>1. ASSUME NEW n \in Opponents, AddMatchup(n) PROVE Status(deck', plans'[o][p]) # "review"
    <2>1. deck' = deck /\ plans'[o][p] = plans[o][p]
      BY <1>0, <1>1 DEF AddMatchup, PlansOK, deckVars
    <2> QED
      BY <2>1
  <1>2. CASE RemoveMatchup
    <2>1. deck' = deck /\ plans'[o][p] = plans[o][p]
      BY <1>0, <1>2 DEF RemoveMatchup, PlansOK, deckVars
    <2> QED
      BY <2>1
  <1>3. CASE CommitSelection
    <2>1. WithSwap(OpenPlan, selection) \in Plans
      BY <1>0, <1>3, WithSwapTyped DEF CommitSelection, StudyOK
    <2>2. PlanIssues(deck, OpenPlan) = {} => PlanIssues(deck, WithSwap(OpenPlan, selection)) = {}
      BY <1>3 DEF CommitSelection, SwapAllowed
    <2> QED
      BY <1>3, <2>1, <2>2, OpenPlanReview DEF CommitSelection, deckVars
  <1>4. CASE UndoLastSwap
    <2> DEFINE last == swapHistory[Len(swapHistory)].swap
               plan == WithoutSwap(OpenPlan, last)
    <2>1. last \in Swaps
      <3>1. swapHistory[Len(swapHistory)] \in [swap : Swaps, before : Plans]
        BY <1>0, <1>4, LastOf DEF UndoLastSwap, StudyOK, History
      <3> QED
        BY <3>1
    <2>2. Open /\ OpenPlan \in Plans /\ OneWay(OpenPlan)
      BY <1>0, <1>4 DEF UndoLastSwap
    <2>3. plan \in Plans /\ \A dir \in Directions, c \in Cards : plan[dir][c] = Less(OpenPlan[dir][c], last[dir][c])
      BY <2>1, <2>2, WithoutSwapTyped
    <2>4. \A dir \in Directions, c \in Cards : OpenPlan[dir][c] \in Nat /\ last[dir][c] \in Nat
      BY <2>1, <2>2, SidePlanAssumption DEF Plans, Lists, Swaps
    <2>5. OpenPlanBecomes(plan) /\ UNCHANGED deck
      BY <1>4 DEF UndoLastSwap, deckVars
    <2> HIDE DEF plan, last
    <2>6. \A dir \in Directions, c \in Cards : plan[dir][c] <= OpenPlan[dir][c]
      BY <2>3, <2>4 DEF Less
    <2>7. PlanIssues(deck, OpenPlan) = {} => PlanIssues(deck, plan) = {}
      BY <1>0, <2>2, <2>3, <2>6, FewerNoIssue
    <2> QED
      BY <2>2, <2>3, <2>5, <2>7, OpenPlanReview
  <1>5. CASE ClearOpenPlan
    <2>1. Open /\ OpenPlan \in Plans /\ OneWay(OpenPlan) /\ EmptyPlan \in Plans
      BY <1>0, <1>5, EmptyPlanTyped DEF ClearOpenPlan
    <2>2. \A dir \in Directions, c \in Cards : EmptyPlan[dir][c] <= OpenPlan[dir][c]
      BY <2>1 DEF EmptyPlan, NoCards, Plans, Lists
    <2>3. PlanIssues(deck, OpenPlan) = {} => PlanIssues(deck, EmptyPlan) = {}
      BY <1>0, <2>1, <2>2, FewerNoIssue
    <2> QED
      BY <1>5, <2>1, <2>3, OpenPlanReview DEF ClearOpenPlan, deckVars
  <1>6. ASSUME NEW dir \in Directions, NEW c \in Cards, RemoveFromPlan(dir, c)
        PROVE  Status(deck', plans'[o][p]) # "review"
    <2> DEFINE plan == [OpenPlan EXCEPT ![dir][c] = 0]
    <2>1. Open /\ OpenPlan \in Plans /\ OneWay(OpenPlan)
      BY <1>0, <1>6 DEF RemoveFromPlan, Listed
    <2>2. plan \in Plans /\ \A d \in Directions, e \in Cards : plan[d][e] = IF d = dir /\ e = c THEN 0 ELSE OpenPlan[d][e]
      BY <2>1, WithdrawalTyped
    <2>3. \A d \in Directions, e \in Cards : OpenPlan[d][e] \in Nat
      BY <2>1 DEF Plans, Lists
    <2>4. OpenPlanBecomes(plan) /\ UNCHANGED deck
      BY <1>6 DEF RemoveFromPlan, deckVars
    <2> HIDE DEF plan
    <2>5. PlanIssues(deck, OpenPlan) = {} => PlanIssues(deck, plan) = {}
      <3>1. \A d \in Directions, e \in Cards : plan[d][e] <= OpenPlan[d][e]
        BY <2>2, <2>3
      <3> QED
        BY <1>0, <2>1, <2>2, <3>1, FewerNoIssue
    <2> QED
      BY <2>1, <2>2, <2>4, <2>5, OpenPlanReview
  <1> QED
    BY <1>1, <1>2, <1>3, <1>4, <1>5, <1>6 DEF EditPlans

\* What the gestures build stays well formed, within the limit of copies, one-way, and gives
\* decks as legal as the one it is made for.
THEOREM PlansStaySoundHolds == Spec => []PlansStaySound
  BY TypeCorrect, CopiesWithinLimitHolds, SidedDeckIsLegalHolds, NotBothHolds, PTL
     DEF PlansStaySound

\* D11: no swap, undo, withdrawal or clearing puts in review a plan that was not,
\* be it the open one or another; only the deck's own changes do.
THEOREM NeverToReviewHolds == Spec => NeverToReview
  <1>1. TypeOK /\ NotBoth /\ [Next]_vars
          => [plans' # plans /\ EditPlans => \A o \in matchups \cap matchups', p \in Positions :
                Status(deck, plans[o][p]) # "review" => Status(deck', plans'[o][p]) # "review"]_vars
    BY ReviewStep
  <1> QED
    BY <1>1, TypeCorrect, NotBothHolds, PTL DEF Spec, NeverToReview

(***************************************************************************)
(* Candidates                                                              *)
(***************************************************************************)

\* The swap a click on c would complete the main part of the selection into.
Completed(dir, c) == WithSwap(MainPart(selection), OneCopy(dir, c))

LEMMA CompletedTyped ==
    ASSUME StudyOK, NEW dir \in Directions, NEW c \in Cards
    PROVE  /\ \A d \in Directions, e \in Cards : Completed(dir, c)[d][e] \in Nat
           /\ Completed(dir, c)[dir][c] >= 1
           /\ Completed(dir, c) = [d \in Directions |-> Plus(InZone(selection[d], "main"), OneCopy(dir, c)[d])]
  <1>1. Completed(dir, c) = [d \in Directions |-> Plus(InZone(selection[d], "main"), OneCopy(dir, c)[d])]
    BY DEF Completed, WithSwap, MainPart
  <1>2. \A d \in Directions : selection[d] \in Lists
    BY SidePlanAssumption DEF StudyOK, Swaps, Lists
  <1>3. \A d \in Directions, e \in Cards : InZone(selection[d], "main")[e] \in Nat
    BY <1>2, InZoneTyped DEF Lists
  <1>4. \A d \in Directions, e \in Cards : OneCopy(dir, c)[d][e] = IF d = dir /\ e = c THEN 1 ELSE 0
    BY DEF OneCopy, EmptyPlan, NoCards
  <1>5. \A d \in Directions, e \in Cards :
           Completed(dir, c)[d][e] = InZone(selection[d], "main")[e] + OneCopy(dir, c)[d][e]
    BY <1>1 DEF Plus
  <1> QED
    BY <1>1, <1>3, <1>4, <1>5

\* A card of the main deck that only the extra has can not leave by a ready plan.
LEMMA ReadyLeavesMain ==
    ASSUME TypeOK, Open, NEW c \in Cards, ZoneOf[c] = "main",
           Status(deck, WithSwap(OpenPlan, Completed("outgoing", c))) = "ready"
    PROVE  deck["main"][c] > 0
  <1> DEFINE plan == WithSwap(OpenPlan, Completed("outgoing", c))
  <1>1. PlansOK /\ StudyOK /\ deck \in Decks /\ OpenPlan \in Plans
    BY TypeParts, OpenPlanTyped DEF DeckOK
  <1>2. \A d \in Directions, e \in Cards : plan[d][e] = OpenPlan[d][e] + Completed("outgoing", c)[d][e]
    BY DEF WithSwap, Plus
  <1>3. \A d \in Directions, e \in Cards : OpenPlan[d][e] \in Nat
    BY <1>1 DEF Plans, Lists
  <1>4. /\ \A d \in Directions, e \in Cards : Completed("outgoing", c)[d][e] \in Nat
        /\ Completed("outgoing", c)["outgoing"][c] >= 1
    BY <1>1, CompletedTyped DEF Directions
  <1>5. plan["outgoing"][c] >= 1
    BY <1>2, <1>3, <1>4 DEF Directions
  <1>6. plan \in Plans
    <2>1. plan = [d \in Directions |-> [e \in Cards |-> OpenPlan[d][e] + Completed("outgoing", c)[d][e]]]
      BY DEF WithSwap, Plus
    <2>2. \A d \in Directions, e \in Cards : OpenPlan[d][e] + Completed("outgoing", c)[d][e] \in Nat
      BY <1>3, <1>4
    <2> HIDE DEF plan
    <2> QED
      BY <2>1, <2>2 DEF Plans, Lists
  <1>7. deck["main"][c] \in Nat
    BY <1>1, DeckTyped DEF Zones, PlayZones
  <1> HIDE DEF plan
  <1>8. plan.outgoing[c] <= deck["main"][c]
    BY <1>1, <1>6, NoIssue DEF plan
  <1>9. plan.outgoing[c] \in Nat
    BY <1>6, PlanTyped
  <1> QED
    BY <1>5, <1>7, <1>8, <1>9

\* A figure is shown on exactly the tiles whose click would complete the main
\* part of the selection into a swap with a ready plan.
THEOREM CandidatesAreTheClicksHolds == Spec => []CandidatesAreTheClicks
  <1>1. TypeOK => CandidatesAreTheClicks
    <2> SUFFICES ASSUME TypeOK, Open, NEW dir \in Directions, Wanting(dir),
                        NEW c \in Cards, deck["main"][c] = 0 \/ deck["extra"][c] = 0
                 PROVE  c \in Candidates(dir) <=>
                          /\ ZoneOf[c] = "main" /\ FreeCopies(dir, c) > 0
                          /\ SwapAllowed(deck, OpenPlan, Completed(dir, c))
                          /\ Status(deck, WithSwap(OpenPlan, Completed(dir, c))) = "ready"
      <3>1. TypeOK => StudyOK
        BY TypeParts
      <3> QED
        BY <3>1, CompletedTyped DEF CandidatesAreTheClicks
    <2>1. PlansOK /\ StudyOK /\ deck \in Decks /\ OpenPlan \in Plans
      BY TypeParts, OpenPlanTyped DEF DeckOK
    <2>2. /\ OpenPlan[dir][c] \in Nat /\ selection[dir][c] \in Nat
          /\ deck["main"][c] \in Nat /\ deck["extra"][c] \in Nat /\ deck["side"][c] \in Nat
      BY <2>1, DeckTyped, SidePlanAssumption DEF Plans, Lists, StudyOK, Swaps, Zones, PlayZones
    <2> DEFINE zone == IF dir = "incoming" THEN "side" ELSE "main"
    <2>3. c \in Candidates(dir) <=>
            /\ ZoneOf[c] = "main" /\ deck[zone][c] > OpenPlan[dir][c] + selection[dir][c]
            /\ SwapAllowed(deck, OpenPlan, Completed(dir, c))
            /\ Status(deck, WithSwap(OpenPlan, Completed(dir, c))) = "ready"
      BY DEF Candidates, Completed
    <2>4. ASSUME ZoneOf[c] = "main", Status(deck, WithSwap(OpenPlan, Completed(dir, c))) = "ready"
          PROVE  deck[zone][c] > OpenPlan[dir][c] + selection[dir][c] <=> FreeCopies(dir, c) > 0
      <3>1. Pool(dir, c) = deck[zone][c]
        <4>1. CASE dir = "incoming"
          BY <4>1 DEF Pool
        <4>2. CASE dir = "outgoing"
          <5>1. deck["main"][c] > 0
            BY <2>4, <4>2, ReadyLeavesMain
          <5>2. ~(deck["extra"][c] > 0)
            BY <2>2, <5>1
          <5> QED
            BY <4>2, <5>2 DEF Pool
        <4> QED
          BY <4>1, <4>2 DEF Directions
      <3>2. deck[zone][c] \in Nat
        BY <2>2 DEF Directions
      <3> HIDE DEF zone
      <3> QED
        BY <2>2, <3>1, <3>2 DEF FreeCopies, Less
    <2> HIDE DEF zone
    <2> QED
      BY <2>3, <2>4
  <1> QED
    BY <1>1, TypeCorrect, PTL
==============================================================================
