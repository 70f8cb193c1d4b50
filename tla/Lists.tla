-------------------------------- MODULE Lists --------------------------------
(***************************************************************************)
(* Lists of cards as text (lib/ydk.ts, toYdk of lib/exportDeck.ts).  A     *)
(* line opens a section, gives a passcode (pasted text: with a number of   *)
(* copies), looks like a section and is none, or is nothing that is        *)
(* understood; comments and blank lines say nothing and are left out.      *)
(* Nothing is reduced by reading: the report tells what is not             *)
(* conventional, and the dialog asks before it clamps.                     *)
(***************************************************************************)
EXTENDS Configurations, SequencesExt

\* A line of a list.
Line == [is : {"section", "card", "header", "other"}, zone : Zones, card : Cards, copies : Nat]
Places(lines, is) == {i \in DOMAIN lines : lines[i].is = is}

\* parseYdk: what precedes any section goes to the main deck; a line is one copy.
SectionAt(lines, i) ==
    LET opened == {j \in Places(lines, "section") : j < i} IN
    IF opened = {} THEN "main" ELSE lines[Max(opened)].zone
Read(lines, zone, c) == {i \in Places(lines, "card") : lines[i].card = c /\ SectionAt(lines, i) = zone}
ReadYdk(lines) ==
    [cards |-> [z \in Zones |-> [c \in Cards |-> Cardinality(Read(lines, z, c))]],
     ignored |-> Cardinality(Places(lines, "other")),
     headers |-> Cardinality(Places(lines, "header"))]

\* parsePastedIds: the main deck only; what begins as a section is a comment.
Given(lines) == {i \in Places(lines, "card") : lines[i].copies > 0}
Pasted(lines, c) == UNION {{i} \X (1..lines[i].copies) : i \in {i \in Given(lines) : lines[i].card = c}}
ReadPasted(lines) ==
    [cards |-> [z \in Zones |-> [c \in Cards |-> IF z = "main" THEN Cardinality(Pasted(lines, c)) ELSE 0]],
     ignored |-> Cardinality((Places(lines, "card") \ Given(lines)) \cup Places(lines, "other")),
     headers |-> 0]

\* overLimit, overTotal; a main deck that is empty is shown too.
Anomalous(report) ==
    \/ report.ignored > 0 \/ report.headers > 0
    \/ ~Conventional(report.cards)
    \/ Of(report.cards["main"]) = {}
NoCard(report) == \A z \in Zones : Of(report.cards[z]) = {}

\* toYdk: a passcode is repeated.
Section(zone, list) ==
    LET copies == SetToSeq(CopiesOf(list, Cards)) IN
    <<[is |-> "section", zone |-> zone, card |-> CHOOSE c \in Cards : TRUE, copies |-> 0]>>
    \o [i \in DOMAIN copies |-> [is |-> "card", zone |-> zone, card |-> copies[i][1], copies |-> 1]]
ToYdk(cards) == Section("main", cards["main"]) \o Section("extra", cards["extra"]) \o Section("side", cards["side"])
=============================================================================
