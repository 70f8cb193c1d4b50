----------------------------- MODULE Comparison -----------------------------
(***************************************************************************)
(* The comparison of two decks (components/ComparePage.tsx), of which      *)
(* either may be a deck after one of its plans (lib/comparison.ts).  Each  *)
(* address the page is given starts a load with a client of its own; going *)
(* to another address disposes of the client, while the answers of the     *)
(* server are still due.                                                   *)
(***************************************************************************)
EXTENDS PlanFigures

CONSTANTS Base,         \* the deck as it is, and not after a plan
          Addresses,    \* addresses the page may be given: a target for each side
          Loads,        \* loads the page may start, one after the other: 1..n
          MinSize       \* cards a hand of six takes

VARIABLES address,      \* the two sides, or None
          load,         \* the loads started
          shown         \* what the page shows

compareVars == <<address, load, shown>>
pagesVars == <<figureVars, compareVars>>

Targets == Volets \cup {Base}
Sides == {"a", "b"}
ASSUME ComparisonAssumption == Addresses \subseteq [Sides -> Targets]

Unstarted == [at |-> "unstarted", of |-> None, cancelled |-> FALSE, version |-> 0,
              details |-> [i \in Sides |-> None], library |-> None, results |-> [i \in Sides |-> None]]
Loading == [is |-> "loading", of |-> None, results |-> [i \in Sides |-> None]]
Failed(l) == [Loading EXCEPT !.is = "error", !.of = l.of]

\* compareSideOf: a plan that is not ready, or an opponent that is gone, has no deck to compare.
SideExchange(plans, target) ==
    CASE target = Base -> NoExchange
      [] target # Base /\ \A p \in Positions : plans[<<target[1], p>>] = Absent -> None
      [] OTHER -> PlanOf(plans, target)
SideInput(l, i) ==
    LET e == SideExchange(l.details[i], l.of[i]) IN IF e = None THEN None ELSE Input(e, l.library)

\* setState, unless the effect was cleaned up.
Conclude(n, result) ==
    /\ load' = [load EXCEPT ![n] = [Unstarted EXCEPT !.at = "over"]]
    /\ shown' = IF load[n].cancelled THEN shown ELSE result

\* The former effect is cleaned up - its flag, its client -, then the new one runs.
Cleaned(l) == IF l.at = "computing" THEN [Unstarted EXCEPT !.at = "over"] ELSE [l EXCEPT !.cancelled = TRUE]
GoTo(to, n) ==
    /\ Gesture
    /\ load[n].at = "unstarted" /\ \A k \in Loads : k < n => load[k].at # "unstarted"
    /\ address' = to
    /\ load' = [k \in Loads |-> CASE k = n -> [Unstarted EXCEPT !.at = "reading", !.of = to, !.version = deployed]
                                  [] load[k].at \in {"reading", "computing"} -> Cleaned(load[k])
                                  [] OTHER -> load[k]]
    /\ shown' = Loading
    /\ UNCHANGED <<serverVars, sheet, editor>>
LeaveComparison ==
    /\ Gesture
    /\ address # None /\ address' = None
    /\ load' = [k \in Loads |-> IF load[k].at \in {"reading", "computing"} THEN Cleaned(load[k]) ELSE load[k]]
    /\ shown' = Loading
    /\ UNCHANGED <<serverVars, sheet, editor>>

\* Three requests at once, each answered on its own.
ReadSide(n, i) ==
    /\ load[n].at = "reading" /\ load[n].details[i] = None
    /\ load' = [load EXCEPT ![n].details[i] = deck.plans]
    /\ UNCHANGED <<figureVars, address, shown>>
ReadLibraryToCompare(n) ==
    /\ load[n].at = "reading" /\ load[n].library = None
    /\ load' = [load EXCEPT ![n].library = library]
    /\ UNCHANGED <<figureVars, address, shown>>
ReadFails(n) ==
    /\ load[n].at = "reading"
    /\ Conclude(n, Failed(load[n]))
    /\ UNCHANGED <<figureVars, address>>

\* Both sides are judged before any is computed.  A load that was cancelled goes as far: its
\* client refuses the tasks.
Comparable(l) == \A i \in Sides : SideInput(l, i) # None /\ SideInput(l, i).size >= MinSize
StartComparing(n) ==
    LET l == load[n] IN
    /\ l.at = "reading" /\ l.library # None /\ \A i \in Sides : l.details[i] # None
    /\ IF l.cancelled \/ ~Comparable(l)
       THEN Conclude(n, Failed(l))
       ELSE load' = [load EXCEPT ![n].at = "computing"] /\ UNCHANGED shown
    /\ UNCHANGED <<figureVars, address>>
ComputeSide(n, i) ==
    LET l == load[n] IN
    /\ l.at = "computing" /\ l.results[i] = None
    /\ load' = [load EXCEPT ![n].results[i] = [p \in Positions |-> Figures(l.version, p, SideInput(l, i))]]
    /\ UNCHANGED <<figureVars, address, shown>>
ComputeSideFails(n) ==
    /\ load[n].at = "computing"
    /\ Conclude(n, Failed(load[n]))
    /\ UNCHANGED <<figureVars, address>>
ShowComparison(n) ==
    /\ load[n].at = "computing" /\ \A i \in Sides : load[n].results[i] # None
    /\ Conclude(n, [is |-> "ready", of |-> load[n].of, results |-> load[n].results])
    /\ UNCHANGED <<figureVars, address>>

LoadRuns(n) ==
    \/ \E i \in Sides : ReadSide(n, i) \/ ComputeSide(n, i)
    \/ ReadLibraryToCompare(n) \/ ReadFails(n) \/ StartComparing(n) \/ ComputeSideFails(n) \/ ShowComparison(n)
CompareStep ==
    \/ \E to \in Addresses, n \in Loads : GoTo(to, n)
    \/ LeaveComparison
    \/ \E n \in Loads : LoadRuns(n)

CompareInit == address = None /\ load = [n \in Loads |-> Unstarted] /\ shown = Loading
PagesInit == FiguresInit /\ CompareInit
PagesNext == CompareStep \/ (FiguresNext /\ UNCHANGED compareVars)

\* The worker and the server answer, or the request fails: no step of a page is put off for ever.
Fairness ==
    /\ \A s \in Sheets : WF_pagesVars(SheetRuns(s) /\ UNCHANGED compareVars)
    /\ \A n \in Loads : WF_pagesVars(LoadRuns(n))
PagesSpec == PagesInit /\ [][PagesNext]_pagesVars /\ Fairness

---------------------------------------------------------------------------
(* Properties *)
\* "jamais bloquees ni adoptees": what is on screen is the comparison of the address the page is
\* at, at both positions, each deck under its own name.
ComparisonIsOfItsAddress ==
    shown.is # "loading" =>
        /\ shown.of = address
        /\ shown.is = "ready" =>
               \A i \in Sides, p \in Positions :
                   /\ shown.results[i][p][2] = p
                   /\ address[i] = Base => shown.results[i][p][3].swap = NoExchange.swap

\* What the pages show is of the decks, plans and positions they name.
FiguresAreOfTheirDeck == ShownIsCurrent /\ FiguresFit /\ ComparisonIsOfItsAddress

\* A run of the sheet ends, and so does the load of the address the page is at.
PagesSettle ==
    /\ \A s \in Sheets : (sheet[s].step # "none") ~> (sheet[s].step = "none")
    /\ (address # None /\ shown.is = "loading") ~> (address = None \/ shown.is # "loading")

\* Every run ends, and one that tells no error has done all it was asked for.
RunsEnd == RunLeavesNothing /\ PagesSettle
=============================================================================
