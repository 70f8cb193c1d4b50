---------------------------- MODULE PlanFigures ----------------------------
(***************************************************************************)
(* The figures of the side plans kept beside them (deck_side_plans.summary *)
(* of the server).  They are a cache the pages fill: the printed sheet     *)
(* (components/SideSheet.tsx) computes what it lacks, one plan after the   *)
(* other, on a client of its own; the editor (persistSummary of            *)
(* store/study.ts) writes what it has computed anyway.  Meanwhile decks    *)
(* and annotations are saved from elsewhere, pages of an older build stay  *)
(* open, and the server, which knows no engine, checks a revision and a    *)
(* number of cards (PUT .../plans/:position/summary of routes/decks.ts).   *)
(*                                                                         *)
(* An exchange is what applyPlan makes of a plan on the deck it is with;   *)
(* `swap' names what it does to the main deck, all the engine sees of it.  *)
(***************************************************************************)
EXTENDS Integers, FiniteSets

CONSTANTS Opponents,
          Exchanges,    \* exchanges a plan may be
          NoExchange,   \* the one of an empty plan
          Absent,       \* the opponent has no plan for this position
          Saves,        \* what another page may save: a plan, and what it becomes
          None,
          Sheets,       \* pages of the sheet
          MainSize,     \* cards of the main deck
          MaxLibrary, MaxVersion,   \* bounds: library writes, builds
          MaxGestures   \* bound: gestures of the users, writes from elsewhere

VARIABLES deck,         \* [revision, plans] as saved
          library,      \* version of the account's annotations
          rows,         \* the figures kept with each plan
          deployed,     \* version of the engine a page gets when it is loaded
          sheet,        \* the pages of the sheet
          editor,       \* the page of the editor
          gestures

serverVars == <<deck, library, rows, deployed>>
figureVars == <<serverVars, sheet, editor, gestures>>

Positions == {"first", "second"}
Volets == Opponents \X Positions
Plans == [Volets -> Exchanges \cup {Absent}]

\* What the engine computes from, and what is kept of its figures.
Inputs == [size : Int, swap : {e.swap : e \in Exchanges}, library : Nat]
Computations == Nat \X Positions \X Inputs
Summaries == [version : Nat, fingerprint : Computations, size : Int, figures : Computations]

ASSUME PlanFiguresAssumption ==
    /\ NoExchange \in Exchanges /\ Absent \notin Exchanges
    /\ \A e \in Exchanges : {e.main.out, e.main.in, e.extra.out, e.extra.in} \subseteq Nat
    /\ Saves \subseteq Volets \X (Exchanges \cup {Absent})
    /\ None \notin Inputs /\ None \notin Summaries /\ None \notin {"stale", "unknown", "refused", "written"}
    /\ MainSize \in Nat /\ MaxLibrary \in Nat /\ MaxVersion \in Nat

---------------------------------------------------------------------------
(* From a plan to its figures *)
\* applyPlan: each zone gives back what it takes.
Ready(e) == ~e.review /\ e.main.out = e.main.in /\ e.extra.out = e.extra.in

\* planOf: a plan that is not there reads as an empty one.
PlanOf(plans, v) == IF plans[v] = Absent THEN NoExchange ELSE plans[v]

\* sidedSource, buildEngineModel: the derived main deck with all annotations, or nothing.
Input(e, lib) ==
    IF Ready(e) THEN [size |-> MainSize - e.main.out + e.main.in, swap |-> e.swap, library |-> lib] ELSE None

\* The engine, at the position of the plan.
Figures(version, position, input) == <<version, position, input>>

\* Mutant: the position is left out.
FingerprintOfInput(version, position, input) == <<version, input>>
Fingerprint(version, position, input) == <<version, position, input>>

\* planSummaryFromPass
Summary(version, position, input) ==
    [version |-> version, fingerprint |-> Fingerprint(version, position, input),
     size |-> input.size, figures |-> Figures(version, position, input)]

\* usablePlanSummary
Usable(value, version, position, input) ==
    /\ value # None
    /\ value.version = version
    /\ value.fingerprint = Fingerprint(version, position, input)
    /\ value.size = input.size

---------------------------------------------------------------------------
(* The server *)
\* Cards of every zone are counted: what leaves the extra deck must come back there.
SizeAfter(e) == MainSize - (e.main.out + e.extra.out) + (e.main.in + e.extra.in)

\* 409, 404, 400 or 200.
Outcome(v, summary, revision) ==
    IF revision # deck.revision THEN "stale"
    ELSE IF deck.plans[v] = Absent THEN "unknown"
    ELSE IF summary.size # SizeAfter(deck.plans[v]) THEN "refused"
    ELSE "written"
PutSummary(v, summary, revision) ==
    /\ rows' = IF Outcome(v, summary, revision) = "written" THEN [rows EXCEPT ![v] = summary] ELSE rows
    /\ UNCHANGED <<deck, library, deployed>>

\* writeConfiguration: a plan that stays keeps its row, and the figures in it.
RowsKept(plans) == [v \in Volets |-> IF plans[v] = Absent THEN None ELSE rows[v]]

Gesture == gestures < MaxGestures /\ gestures' = gestures + 1

\* From another page: a rename, a save, an annotation.  And a new build.
Rename ==
    /\ Gesture
    /\ deck' = [deck EXCEPT !.revision = @ + 1]
    /\ UNCHANGED <<library, rows, deployed, sheet, editor>>
SaveElsewhere(plans) ==
    /\ Gesture
    /\ deck' = [revision |-> deck.revision + 1, plans |-> plans]
    /\ rows' = RowsKept(plans)
    /\ UNCHANGED <<library, deployed, sheet, editor>>
Annotate ==
    /\ Gesture
    /\ library < MaxLibrary /\ library' = library + 1
    /\ UNCHANGED <<deck, rows, deployed, sheet, editor>>
Deploy ==
    /\ Gesture
    /\ deployed < MaxVersion /\ deployed' = deployed + 1
    /\ UNCHANGED <<deck, library, rows, sheet, editor>>

---------------------------------------------------------------------------
(* The sheet *)
ClosedSheet == [at |-> "closed", version |-> 0, detail |-> None, library |-> None,
                stored |-> [v \in Volets |-> None], step |-> "none", todo |-> {}, plan |-> None,
                made |-> {}, outcome |-> None, error |-> FALSE]

InputOn(p, v) == Input(PlanOf(p.detail.plans, v), p.library)
\* sheetOf, plansToCompute
Shown(p, v) ==
    IF InputOn(p, v) # None /\ Usable(p.stored[v], p.version, v[2], InputOn(p, v)) THEN p.stored[v] ELSE None
Pending(p) == {v \in Volets : InputOn(p, v) # None /\ Shown(p, v) = None}

OpenSheet(s) ==
    /\ Gesture
    /\ sheet[s].at = "closed"
    /\ sheet' = [sheet EXCEPT ![s] = [ClosedSheet EXCEPT !.at = "reading", !.version = deployed]]
    /\ UNCHANGED <<serverVars, editor>>

\* Two requests at once.
ReadDetail(s) ==
    /\ sheet[s].at = "reading" /\ sheet[s].detail = None
    /\ sheet' = [sheet EXCEPT ![s].detail = [revision |-> deck.revision, plans |-> deck.plans, rows |-> rows]]
    /\ UNCHANGED <<serverVars, editor, gestures>>
ReadLibrary(s) ==
    /\ sheet[s].at = "reading" /\ sheet[s].library = None
    /\ sheet' = [sheet EXCEPT ![s].library = library]
    /\ UNCHANGED <<serverVars, editor, gestures>>

\* The cards are read last; a failure leaves no sheet.
ShowSheet(s) ==
    /\ sheet[s].at = "reading" /\ sheet[s].detail # None /\ sheet[s].library # None
    /\ \/ sheet' = [sheet EXCEPT ![s].at = "shown", ![s].stored = sheet[s].detail.rows,
                                 ![s].detail.rows = [v \in Volets |-> None]]
       \/ sheet' = [sheet EXCEPT ![s] = ClosedSheet]
    /\ UNCHANGED <<serverVars, editor, gestures>>

\* The client is disposed of: the task it computes is cancelled, a run that waits for the
\* server goes on until it needs the client.
LeaveSheet(s) ==
    /\ Gesture
    /\ sheet[s].at = "shown" /\ sheet[s].step # "next"
    /\ sheet' = [sheet EXCEPT ![s] = IF @.step \in {"put", "answer"} THEN [@ EXCEPT !.at = "left"] ELSE ClosedSheet]
    /\ UNCHANGED <<serverVars, editor>>

\* The button is disabled while a run goes on, or when there is nothing to compute.
ComputeAll(s) ==
    /\ Gesture
    /\ sheet[s].at = "shown" /\ sheet[s].step = "none" /\ Pending(sheet[s]) # {}
    /\ sheet' = [sheet EXCEPT ![s].step = "next", ![s].todo = Pending(sheet[s]), ![s].made = {}, ![s].error = FALSE]
    /\ UNCHANGED <<serverVars, editor>>

EndRun(p, error) ==
    IF p.at = "left" THEN ClosedSheet
    ELSE [p EXCEPT !.step = "none", !.todo = {}, !.plan = None, !.made = {}, !.outcome = None, !.error = error]
Adopt(p, v, summary) == [p EXCEPT !.stored[v] = summary, !.made = @ \cup {summary}, !.step = "put"]
Known(p, v) == {m \in p.made : m.fingerprint = Fingerprint(p.version, v[2], InputOn(p, v))}

\* Two plans of the same sided deck, at the same position, are computed once.  (The order of
\* the sheet is not kept: any plan that is left may come next.)
NextPlan(s) ==
    LET p == sheet[s] IN
    /\ p.step = "next" /\ p.todo # {}
    /\ \E v \in p.todo :
           LET q == [p EXCEPT !.todo = @ \ {v}, !.plan = v] IN
           sheet' = [sheet EXCEPT ![s] =
               CASE Known(q, v) # {} -> Adopt(q, v, CHOOSE m \in Known(q, v) : TRUE)
                 [] Known(q, v) = {} /\ q.at = "shown" -> [q EXCEPT !.step = "compute"]
                 [] OTHER -> EndRun(q, FALSE)]
    /\ UNCHANGED <<serverVars, editor, gestures>>
LastPlan(s) ==
    /\ sheet[s].step = "next" /\ sheet[s].todo = {}
    /\ sheet' = [sheet EXCEPT ![s] = EndRun(@, FALSE)]
    /\ UNCHANGED <<serverVars, editor, gestures>>

Computed(s) ==
    LET p == sheet[s] IN
    /\ p.step = "compute"
    /\ sheet' = [sheet EXCEPT ![s] = Adopt(p, p.plan, Summary(p.version, p.plan[2], InputOn(p, p.plan)))]
    /\ UNCHANGED <<serverVars, editor, gestures>>

\* Mutant: the error is told, the run is not ended.
ComputeFailsSilently(s) ==
    /\ sheet[s].step = "compute"
    /\ sheet' = [sheet EXCEPT ![s] = [@ EXCEPT !.error = TRUE, !.step = "failed"]]
    /\ UNCHANGED <<serverVars, editor, gestures>>
ComputeFails(s) ==
    /\ sheet[s].step = "compute"
    /\ sheet' = [sheet EXCEPT ![s] = EndRun(@, TRUE)]
    /\ UNCHANGED <<serverVars, editor, gestures>>

\* The figures are shown already when they are sent.
SheetPuts(s) ==
    LET p == sheet[s] IN
    /\ p.step = "put"
    /\ PutSummary(p.plan, p.stored[p.plan], p.detail.revision)
    /\ sheet' = [sheet EXCEPT ![s].step = "answer",
                              ![s].outcome = Outcome(p.plan, p.stored[p.plan], p.detail.revision)]
    /\ UNCHANGED <<editor, gestures>>
SheetIsAnswered(s) ==
    /\ sheet[s].step = "answer"
    /\ sheet' = [sheet EXCEPT ![s] = IF @.outcome = "written" THEN [@ EXCEPT !.step = "next", !.outcome = None]
                                     ELSE EndRun(@, TRUE)]
    /\ UNCHANGED <<serverVars, editor, gestures>>
SheetLosesAnswer(s) ==
    /\ sheet[s].step \in {"put", "answer"}
    /\ sheet' = [sheet EXCEPT ![s] = EndRun(@, TRUE)]
    /\ UNCHANGED <<serverVars, editor, gestures>>

SheetRuns(s) ==
    NextPlan(s) \/ LastPlan(s) \/ Computed(s) \/ ComputeFails(s) \/ SheetPuts(s)
    \/ SheetIsAnswered(s) \/ SheetLosesAnswer(s)
SheetStep(s) ==
    OpenSheet(s) \/ ReadDetail(s) \/ ReadLibrary(s) \/ ShowSheet(s) \/ LeaveSheet(s) \/ ComputeAll(s)
    \/ SheetRuns(s)

---------------------------------------------------------------------------
(* The editor: what it persists of the decks it studies *)
NotStudied == [input |-> None, done |-> FALSE]
ClosedEditor == [at |-> "closed", version |-> 0, revision |-> 0, plans |-> [v \in Volets |-> Absent],
                 library |-> None, dirty |-> FALSE, opponent |-> None,
                 studied |-> [p \in Positions |-> NotStudied], timer |-> FALSE,
                 stored |-> [v \in Volets |-> None], persisted |-> {}, requests |-> {}]

\* A deck is opened on one of its opponents.
OpenEditor(o) ==
    /\ Gesture
    /\ editor.at = "closed"
    /\ editor' = [ClosedEditor EXCEPT !.at = "open", !.version = deployed, !.revision = deck.revision,
                      !.plans = deck.plans, !.library = library, !.opponent = o, !.timer = TRUE, !.stored = rows]
    /\ UNCHANGED <<serverVars, sheet>>
EditPlan(p, e) ==
    /\ Gesture
    /\ editor.at = "open" /\ editor.plans[<<editor.opponent, p>>] # e
    /\ editor' = [editor EXCEPT !.plans[<<editor.opponent, p>>] = e, !.dirty = TRUE, !.timer = TRUE]
    /\ UNCHANGED <<serverVars, sheet>>
RemoveOpponent ==
    /\ Gesture
    /\ editor.at = "open" /\ \E p \in Positions : editor.plans[<<editor.opponent, p>>] # Absent
    /\ editor' = [editor EXCEPT !.plans = [v \in Volets |-> IF v[1] = editor.opponent THEN Absent ELSE @[v]],
                                !.dirty = TRUE, !.timer = TRUE]
    /\ UNCHANGED <<serverVars, sheet>>

\* saveDeck, its request and its answer (module DeckSave takes them apart).
SavePlans ==
    /\ Gesture
    /\ editor.at = "open" /\ editor.dirty /\ editor.revision = deck.revision
    /\ deck' = [revision |-> deck.revision + 1, plans |-> editor.plans]
    /\ rows' = RowsKept(editor.plans)
    /\ editor' = [editor EXCEPT !.revision = @ + 1, !.dirty = FALSE, !.timer = TRUE]
    /\ UNCHANGED <<library, deployed, sheet>>

Key(v, summary, revision) == <<v, summary.fingerprint, revision>>
\* Mutant: an unsaved edit does not matter.
PersistableUnsaved(ed, p, summary) ==
    LET v == <<ed.opponent, p>> IN
    /\ ed.studied[p].done
    /\ ed.plans[v] # Absent
    /\ ~(ed.stored[v] # None /\ ed.stored[v].fingerprint = summary.fingerprint)
    /\ Key(v, summary, ed.revision) \notin ed.persisted
Persistable(ed, p, summary) ==
    LET v == <<ed.opponent, p>> IN
    /\ ed.studied[p].done
    /\ ~ed.dirty
    /\ ed.plans[v] # Absent
    /\ ~(ed.stored[v] # None /\ ed.stored[v].fingerprint = summary.fingerprint)
    /\ Key(v, summary, ed.revision) \notin ed.persisted

\* persistSummary.  History: `late', the studied deck is that of before the last edit.
Persist(ed, p) ==
    IF ed.studied[p].input = None THEN ed
    ELSE LET v == <<ed.opponent, p>>
             summary == Summary(ed.version, p, ed.studied[p].input)
         IN IF ~Persistable(ed, p, summary) THEN ed
            ELSE [ed EXCEPT !.persisted = @ \cup {Key(v, summary, ed.revision)},
                            !.requests = @ \cup {[volet |-> v, summary |-> summary, revision |-> ed.revision,
                                                  late |-> ed.timer, outcome |-> None]}]

\* syncStudied
StudiedNow(ed, p) ==
    LET input == Input(PlanOf(ed.plans, <<ed.opponent, p>>), ed.library) IN
    IF input = None THEN NotStudied
    ELSE IF ed.studied[p].input = input THEN ed.studied[p] ELSE [input |-> input, done |-> FALSE]
SyncStudied ==
    LET ed == [editor EXCEPT !.studied = [p \in Positions |-> StudiedNow(editor, p)], !.timer = FALSE] IN
    /\ editor.timer
    /\ editor' = Persist(Persist(ed, "first"), "second")
    /\ UNCHANGED <<serverVars, sheet, gestures>>
\* adopt
StudyAnswer(p) ==
    /\ editor.studied[p].input # None /\ ~editor.studied[p].done
    /\ editor' = Persist([editor EXCEPT !.studied[p].done = TRUE], p)
    /\ UNCHANGED <<serverVars, sheet, gestures>>

EditorPuts(r) ==
    /\ r.outcome = None
    /\ PutSummary(r.volet, r.summary, r.revision)
    /\ editor' = [editor EXCEPT !.requests =
                      (@ \ {r}) \cup {[r EXCEPT !.outcome = Outcome(r.volet, r.summary, r.revision)]}]
    /\ UNCHANGED <<sheet, gestures>>
\* A refusal or a lost answer is forgotten: the next gesture tries again.
EditorIsAnswered(r) ==
    /\ editor' = [editor EXCEPT
                      !.requests = @ \ {r},
                      !.stored[r.volet] = IF r.outcome = "written" THEN r.summary ELSE @,
                      !.persisted = IF r.outcome = "written" THEN @
                                    ELSE @ \ {Key(r.volet, r.summary, r.revision)}]
    /\ UNCHANGED <<serverVars, sheet, gestures>>
EditorLosesAnswer(r) ==
    /\ editor' = [editor EXCEPT !.requests = @ \ {r},
                                !.persisted = @ \ {Key(r.volet, r.summary, r.revision)}]
    /\ UNCHANGED <<serverVars, sheet, gestures>>

EditorStep ==
    \/ \E o \in Opponents : OpenEditor(o)
    \/ \E p \in Positions, e \in Exchanges : EditPlan(p, e)
    \/ RemoveOpponent
    \/ SavePlans
    \/ SyncStudied
    \/ \E p \in Positions : StudyAnswer(p)
    \/ \E r \in editor.requests : EditorPuts(r) \/ EditorIsAnswered(r) \/ EditorLosesAnswer(r)

Elsewhere ==
    \/ Rename
    \/ \E x \in Saves : deck.plans[x[1]] # x[2] /\ SaveElsewhere([deck.plans EXCEPT ![x[1]] = x[2]])
    \/ Annotate
    \/ Deploy
FiguresNext == Elsewhere \/ (\E s \in Sheets : SheetStep(s)) \/ EditorStep

\* The rows hold what earlier pages have left there.
Earlier ==
    {None} \cup {Summary(1, p, Input(e, lib)) :
                    p \in Positions, e \in {e \in Exchanges : Ready(e)}, lib \in 1..MaxLibrary}
KeptWell == \A v \in Volets : deck.plans[v] = Absent => rows[v] = None
FiguresStart ==
    /\ deployed = 1 /\ gestures = 0
    /\ sheet = [s \in Sheets |-> ClosedSheet] /\ editor = ClosedEditor
FiguresInit ==
    /\ deck \in [revision : {1}, plans : [Volets -> Exchanges \cup {Absent}]]
    /\ library \in 1..MaxLibrary
    /\ rows \in [Volets -> Earlier] /\ KeptWell
    /\ FiguresStart

---------------------------------------------------------------------------
(* Properties *)
\* R9: what the sheet shows - and prints - for a plan is what its own build of the engine makes
\* of the deck and the annotations it has loaded, at that plan's position; whatever other pages
\* have written there.
ShownIsCurrent ==
    \A s \in Sheets, v \in Volets :
        LET p == sheet[s] IN
        p.at = "shown" /\ Shown(p, v) # None =>
            Shown(p, v).figures = Figures(p.version, v[2], InputOn(p, v))

\* "seulement pour un deck sans modification non enregistree, pour la revision lue": figures are
\* written with the plan they are of (annotations may differ), but for those the editor sends
\* between an edit and the synchronisation it schedules.
Late(r) == r.late
WrittenDescribesSaved ==
    [][\A v \in Volets :
          rows'[v] \notin {None, rows[v]}
          /\ ~(\E r \in editor.requests : r.volet = v /\ r.summary = rows'[v] /\ Late(r))
          => LET e == deck.plans[v] IN e # Absent /\ Ready(e) /\ rows'[v].figures[3].swap = e.swap]_figureVars

\* The server never finds that figures the sheet has computed are not those of the plan it
\* keeps: its count over all zones is the client's count of the main deck.
FiguresFit ==
    \A s \in Sheets :
        LET p == sheet[s] IN
        /\ p.outcome # "refused"
        /\ p.outcome = "unknown" => p.detail.plans[p.plan] = Absent

\* "Tout calculer": when it ends and tells no error, nothing is left to compute.
RunLeavesNothing ==
    [][\A s \in Sheets :
          sheet[s].step # "none" /\ sheet'[s].step = "none" /\ sheet'[s].at = "shown" /\ ~sheet'[s].error
          => Pending(sheet'[s]) = {}]_figureVars
=============================================================================
