------------------------------- MODULE Editor -------------------------------
(* One deck open in the editor: its zones and side plans (SidePlan) and its     *)
(* annotations (Annotations).  The annotations see of the zones which cards     *)
(* are there, and outlive them: a card that leaves keeps its annotations, and   *)
(* those that name it.                                                          *)
EXTENDS SidePlan, Integers

CONSTANTS Nothing, Quantities, Numbers, NotANumber, Subjects,
          DepthLimit, LeafLimit, QuantityLimit, SafeLimit, Documents, OlderDocuments,
          MaxGestures

ASSUME AnnotationsAssumption ==
    /\ Quantities \subseteq Int /\ Numbers \subseteq Int
    /\ DepthLimit \in Nat /\ LeafLimit \in Nat /\ QuantityLimit \in Nat /\ SafeLimit \in Nat
    /\ MaxGestures \in Nat

VARIABLES starters, dead, pairs, excluded, conditions, criteria, saved,
          tab, mode, pivot, dependent, modCount, gestures

annotationVars == <<starters, dead, pairs, excluded, conditions, criteria, saved,
                    tab, mode, pivot, dependent, modCount, gestures>>

CardsIn(zone) == {c \in Cards : deck[zone][c] > 0}

A == INSTANCE Annotations WITH main <- CardsIn("main"), side <- CardsIn("side"), MaxLeft <- MaxCopies

EditorInit == Init /\ A!Init

PlanStep == Next /\ UNCHANGED annotationVars
ZoneStep == EditDeck /\ UNCHANGED annotationVars
AnnotationStep == A!Next /\ UNCHANGED vars

\* What the annotations' gestures build is accepted by the server and opens again as it
\* was, whatever the zones become, unless it outgrows a limit the editor does not know.
SavedAsItIs == A!SavedAsItIs

\* The gestures on a condition do to its meaning what they say.
ConditionsMeanWhatIsClicked == A!ConditionsMeanWhatIsClicked

\* A click on a tile changes its mark and no other, also when the card whose combos or
\* condition are being made has left the deck.
OneMarkAClick == A!OneMarkAClick
=============================================================================
