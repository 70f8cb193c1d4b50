------------------------------- MODULE Study -------------------------------
(***************************************************************************)
(* The decks studied against an opponent, the preview of a swap and the    *)
(* candidates that would complete one (web/src/store/study.ts), as the     *)
(* store's mutators drive them (web/src/store/deckStore.ts).  Three        *)
(* compute clients work at once: one for the base deck and the studied     *)
(* decks, one for the preview, one for the candidates; session caches and  *)
(* the state of the page link them.                                        *)
(*                                                                         *)
(* An engine input is a key, as in the code.  What the pure rules of lib/  *)
(* compute from a deck, a plan and a selection is a choice among the keys: *)
(* an edit of the deck may change all of them.  A result, or a pass of it, *)
(* is the key it was computed from.  Clients keep TaskService's promises:  *)
(* a cancelled task is never answered, and the reaction to an answer runs  *)
(* with it.  Which entry of a full cache is the oldest is not kept: a new  *)
(* one may evict any other.                                                *)
(***************************************************************************)
EXTENDS Naturals, Sequences, FiniteSets, SequencesExt

CONSTANTS
    Opponents,      \* opponents of the deck (matchups)
    Keys,           \* engine inputs
    PreviewKeys,    \* those a previewed swap may give
    Completions,    \* sets of inputs the candidates of a selection may give
    NotReady,       \* the plan has no deck (incomplete, or to review)
    Nothing,        \* the selection is empty
    Withheld,       \* the selection has no preview (unbalanced, refused, not ready)
    None,           \* null
    MaxGestures     \* bound: what the user does

ASSUME StudyAssumption ==
    /\ IsFiniteSet(Keys)
    /\ PreviewKeys \subseteq Keys
    /\ Completions \subseteq SUBSET Keys /\ {} \in Completions
    /\ {Nothing, Withheld, NotReady, None} \cap Keys = {}
    /\ Nothing # Withheld /\ NotReady \notin {Nothing, Withheld}
    /\ None \notin Opponents
    /\ MaxGestures \in Nat

VARIABLES
    base,           \* engine input of the base deck
    plan,           \* engine input of the deck after each position's plan
    study,          \* the opponent studied, or None
    context,        \* the position whose plan is open
    selected,       \* what the selection previews: Nothing, Withheld or an input
    completions,    \* inputs of the candidates that would complete it
    gestures,       \* how many gestures the user has made
    result,         \* the base result shown
    baseStale,      \* it is of an earlier version
    baseTimer,      \* the base deck's debounce timer runs
    baseTask,       \* the base deck's task is awaited
    studied,        \* the studied deck of each position
    timer,          \* the studied decks' debounce timer runs
    running,        \* mode each input is being computed in, on the main client
    resultCache,    \* modes each input's results are kept in
    passCache,      \* passes kept, by position and input
    preview,        \* the preview of the selection
    previewTimer,   \* input the preview's debounce timer will launch, or None
    previewTask,    \* input the preview's client computes, or None
    candidates,     \* the candidates and the figures known of them
    signature,      \* what the candidates in hand are for (candidateSignature)
    waiting,        \* inputs the candidates' client computes, the oldest first
    refused         \* history: the engine refused one of these candidates while
                    \* others waited

deckVars == <<base, plan>>
pageVars == <<deckVars, study, context, selected, completions, gestures>>
baseVars == <<result, baseStale, baseTimer, baseTask>>
studiedVars == <<studied, timer, running>>
cacheVars == <<resultCache, passCache>>
previewVars == <<preview, previewTimer, previewTask>>
candidateVars == <<candidates, signature, waiting, refused>>
vars == <<pageVars, baseVars, studiedVars, cacheVars, previewVars, candidateVars>>

Positions == {"first", "second"}
Modes == {"passes", "full"}
OrNone(S) == S \cup {None}

\* A result and the opponent under whose name it was asked for.
Results == [key : Keys, opponent : Opponents]

StudiedResults ==
    [opponent : OrNone(Opponents), key : OrNone(Keys), reusesBase : BOOLEAN,
     result : OrNone(Results), computing : BOOLEAN, stale : BOOLEAN, failed : BOOLEAN]

\* A previewed pass, with the opponent and the position it was asked for.
Passes == [key : Keys, opponent : Opponents, position : Positions]

PreviewStates ==
    [kind : {"none", "withheld", "ready"}, affectsEngine : BOOLEAN, key : OrNone(Keys),
     pass : OrNone(Passes), computing : BOOLEAN, stale : BOOLEAN, failed : BOOLEAN]

CandidatesStates ==
    [status : {"none", "pending", "running", "done"}, inputs : SUBSET Keys,
     done : Nat, indicators : SUBSET Keys, failed : BOOLEAN]

Signatures == [position : Positions, inputs : SUBSET Keys]

ASSUME NoneAssumption == None \notin Modes /\ None \notin Signatures

Plans == [Positions -> Keys \cup {NotReady}]

TypeOK ==
    /\ base \in Keys /\ plan \in Plans
    /\ study \in OrNone(Opponents) /\ context \in Positions
    /\ selected \in Keys \cup {Nothing, Withheld} /\ completions \in Completions
    /\ gestures \in 0..MaxGestures
    /\ result \in OrNone(Keys)
    /\ baseStale \in BOOLEAN /\ baseTimer \in BOOLEAN /\ baseTask \in BOOLEAN
    /\ studied \in [Positions -> StudiedResults]
    /\ timer \in BOOLEAN /\ running \in [Keys -> OrNone(Modes)]
    /\ resultCache \in [Keys -> SUBSET Modes] /\ passCache \subseteq Positions \X Keys
    /\ preview \in PreviewStates
    /\ previewTimer \in OrNone(Keys) /\ previewTask \in OrNone(Keys)
    /\ candidates \in CandidatesStates
    /\ signature \in OrNone(Signatures) /\ waiting \in Seq(Keys) /\ refused \in BOOLEAN

NoStudied == [opponent |-> None, key |-> None, reusesBase |-> FALSE, result |-> None,
              computing |-> FALSE, stale |-> FALSE, failed |-> FALSE]

\* Same input as the base deck: its figures are the base deck's.
Reusing == [NoStudied EXCEPT !.reusesBase = TRUE]

NoPreview == [kind |-> "none", affectsEngine |-> FALSE, key |-> None, pass |-> None,
              computing |-> FALSE, stale |-> FALSE, failed |-> FALSE]
NoCandidates == [status |-> "none", inputs |-> {}, done |-> 0, indicators |-> {}, failed |-> FALSE]

\* A deck has just been opened, its first computation waiting for the timer.
Init ==
    /\ base \in Keys /\ plan \in Plans
    /\ study = None /\ context = "first" /\ selected = Nothing /\ completions = {}
    /\ gestures = 0
    /\ result = None /\ baseStale = FALSE /\ baseTimer = TRUE /\ baseTask = FALSE
    /\ studied = [p \in Positions |-> Reusing]
    /\ timer = FALSE /\ running = [k \in Keys |-> None]
    /\ resultCache = [k \in Keys |-> {}] /\ passCache = {}
    /\ preview = NoPreview /\ previewTimer = None /\ previewTask = None
    /\ candidates = NoCandidates /\ signature = None /\ waiting = <<>> /\ refused = FALSE

-----------------------------------------------------------------------------
(* Caches *)

\* bounded: a new entry of a full cache takes the place of an older one.
RememberPasses(passes) ==
    \E gone \in SUBSET passCache :
       /\ Cardinality(gone) <= Cardinality(passes \ passCache)
       /\ passCache' = (passCache \ gone) \cup passes

RememberResult(k, mode) ==
    \E gone \in IF resultCache[k] = {} THEN OrNone(Keys \ {k}) ELSE {None} :
       resultCache' = [j \in Keys |-> IF j = k THEN resultCache[j] \cup {mode}
                                     ELSE IF j = gone THEN {} ELSE resultCache[j]]

\* The pass of an input that is known already, and the input it is really of:
\* cached, of a fresh base deck, or of the position's fresh studied deck.
KnownPass(p, k) ==
    IF <<p, k>> \in passCache \/ resultCache[k] # {} THEN k
    ELSE IF k = base /\ result # None /\ ~baseStale THEN result
    ELSE IF studied[p].key = k /\ studied[p].result # None /\ ~studied[p].stale
      THEN studied[p].result.key
    ELSE None

-----------------------------------------------------------------------------
(* syncPreview and syncCandidates, once the store has its new state *)

Ready(k) == [NoPreview EXCEPT !.kind = "ready", !.affectsEngine = TRUE, !.key = k]

Previewed(k) == [key |-> k, opponent |-> study, position |-> context]

\* A pass of the preview before is not of this one.
Outdated(before) == before # None

\* The preview of a selection: none, withheld, neutral (the plan's figures
\* hold), known already, or to compute; the pass of the preview before then
\* stays meanwhile, marked stale.
PreviewAfter(before) ==
    CASE study = None \/ selected = Nothing -> NoPreview
      [] study # None /\ selected = Withheld -> [NoPreview EXCEPT !.kind = "withheld"]
      [] study # None /\ selected = plan[context] -> [NoPreview EXCEPT !.kind = "ready"]
      [] OTHER ->
           LET known == KnownPass(context, selected)
           IN  IF known # None THEN [Ready(selected) EXCEPT !.pass = Previewed(known)]
               ELSE [Ready(selected) EXCEPT !.computing = TRUE, !.pass = before,
                                            !.stale = Outdated(before)]

\* The task and the timer of the preview before are cancelled.
SyncPreview ==
    /\ \E before \in {preview.pass} : preview' = PreviewAfter(before)'
    /\ previewTimer' = IF preview'.computing THEN preview'.key ELSE None
    /\ previewTask' = None

NewSignature == [position |-> context, inputs |-> completions]

\* The candidates whose pass is known.
KnownCandidates == {k \in completions : KnownPass(context, k) # None}

CandidatesNone ==
    /\ study' = None \/ completions' = {}
    /\ candidates' = NoCandidates /\ signature' = None /\ waiting' = <<>> /\ refused' = FALSE

\* The same candidates are being computed: they gain what is known meanwhile.
CandidatesGoOn ==
    /\ study' # None /\ completions' # {}
    /\ signature = NewSignature' /\ candidates.status = "running"
    /\ candidates' = [candidates EXCEPT !.indicators = @ \cup KnownCandidates']
    /\ UNCHANGED <<signature, waiting, refused>>

\* Those still unknown are launched if their estimated cost allows it, or on
\* demand, in the order of the plan's cards; measured durations put the estimate on
\* either side.  What waits for other candidates is cancelled.
CandidatesStart(manual) ==
    LET kept == IF signature = NewSignature' THEN waiting ELSE <<>>
        unknown == completions' \ KnownCandidates'
    IN  /\ study' # None /\ completions' # {}
        /\ signature # NewSignature' \/ candidates.status # "running"
        /\ signature' = NewSignature' /\ refused' = (refused /\ signature = signature')
        /\ \E launched \in {manual, TRUE}, order \in SetToSeqs(unknown) :
              /\ candidates' = [status |-> IF unknown = {} THEN "done"
                                           ELSE IF launched THEN "running" ELSE "pending",
                                inputs |-> completions', failed |-> FALSE,
                                done |-> Cardinality(KnownCandidates'),
                                indicators |-> KnownCandidates']
              /\ waiting' = IF launched THEN kept \o order ELSE kept

SyncCandidates(manual) == CandidatesNone \/ CandidatesGoOn \/ CandidatesStart(manual)

SyncSelection == SyncPreview /\ SyncCandidates(FALSE)

-----------------------------------------------------------------------------
(* The studied decks *)

\* (mutant) the previous result is kept whoever the opponent was
KeptForAnyone(p) == studied[p].result

\* A result being replaced stays, marked stale, for the same opponent only.
Kept(p) == IF studied[p].opponent = study THEN studied[p].result ELSE None

\* The studied deck of a position; without an opponent it is the base deck.
StudiedAfter(p) ==
    LET k == plan[p]
        asked == [NoStudied EXCEPT !.opponent = study, !.key = k]
    IN  CASE study = None -> Reusing
          [] study # None /\ k = NotReady -> [NoStudied EXCEPT !.opponent = study]
          [] study # None /\ k = base -> [Reusing EXCEPT !.opponent = study]
          [] OTHER ->
               IF resultCache[k] # {}
                 THEN [asked EXCEPT !.result = [key |-> k, opponent |-> study],
                                    !.computing = "full" \notin resultCache[k]]
                 ELSE [asked EXCEPT !.result = Kept(p), !.computing = TRUE,
                                    !.stale = Kept(p) # None]

\* What is computed for an input after a synchronisation: inputs no longer
\* wanted are cancelled, wanted ones launched unless known or running.
RunningAfter(k) ==
    IF \A p \in Positions : studied'[p].key # k THEN None
    ELSE IF "full" \in resultCache[k] \/ running[k] # None THEN running[k]
    ELSE IF "passes" \in resultCache[k] THEN "full" ELSE "passes"

SyncStudied ==
    /\ timer' = FALSE
    /\ studied' = [p \in Positions |-> StudiedAfter(p)]
    /\ running' = [k \in Keys |-> RunningAfter(k)]

ScheduleStudied == timer' = TRUE

\* studySync: the preview and the candidates do not wait.
StudySync ==
    /\ ScheduleStudied
    /\ UNCHANGED <<studied, running, baseVars, cacheVars>>
    /\ SyncSelection

\* The timer of the studied decks fires.
TimerFires ==
    /\ timer
    /\ SyncStudied
    /\ UNCHANGED <<pageVars, baseVars, cacheVars, previewVars, candidateVars>>

\* launchCompute: the base deck's task, then the studied decks' behind it.
LaunchBase ==
    /\ baseTimer
    /\ baseTimer' = FALSE /\ baseTask' = TRUE
    /\ SyncStudied
    /\ UNCHANGED <<pageVars, result, baseStale, cacheVars, previewVars, candidateVars>>

-----------------------------------------------------------------------------
(* Answers of the main client *)

BaseAnswer ==
    /\ baseTask
    /\ baseTask' = FALSE
    /\ result' = base /\ baseStale' = FALSE
    /\ UNCHANGED <<pageVars, baseTimer, studiedVars, cacheVars, previewVars, candidateVars>>

Awaiting(k) == {p \in Positions : studied[p].key = k}

\* adopt: the result is laid on every position that still awaits the input.
Adopt(k, mode) ==
    /\ studied' = [p \in Positions |->
                     IF p \in Awaiting(k)
                       THEN [studied[p] EXCEPT !.result = [key |-> k, opponent |-> studied[p].opponent],
                                               !.computing = mode = "passes",
                                               !.stale = FALSE, !.failed = FALSE]
                       ELSE studied[p]]
    /\ RememberPasses({<<p, k>> : p \in Awaiting(k)})

\* The passes come first, the full result is asked for next.
NextMode(k) == IF running[k] = "passes" /\ Awaiting(k) # {} THEN "full" ELSE None

StudiedAnswer(k) ==
    /\ running[k] # None
    /\ RememberResult(k, running[k])
    /\ Adopt(k, running[k])
    /\ running' = [running EXCEPT ![k] = NextMode(k)]
    /\ UNCHANGED <<pageVars, baseVars, timer, previewVars, candidateVars>>

\* A task fails, or the worker with every task: the positions that await these
\* inputs show the error and wait no more.
MainFails ==
    \E lost \in SUBSET {k \in Keys : running[k] # None}, baseLost \in BOOLEAN :
       /\ baseLost => baseTask
       /\ Cardinality(lost) + (IF baseLost THEN 1 ELSE 0) > 0
       /\ baseTask' = (baseTask /\ ~baseLost)
       /\ studied' = [p \in Positions |->
                        IF studied[p].key \in lost
                          THEN [studied[p] EXCEPT !.computing = FALSE, !.failed = TRUE]
                          ELSE studied[p]]
       /\ running' = [k \in Keys |-> IF k \in lost THEN None ELSE running[k]]
       /\ UNCHANGED <<pageVars, result, baseStale, baseTimer, timer, cacheVars, previewVars,
                      candidateVars>>

MainClient == BaseAnswer \/ MainFails \/ \E k \in Keys : StudiedAnswer(k)

-----------------------------------------------------------------------------
(* The preview's client and the candidates' *)

PreviewLaunch ==
    /\ previewTimer # None
    /\ previewTimer' = None
    /\ previewTask' = previewTimer
    /\ UNCHANGED <<pageVars, baseVars, studiedVars, cacheVars, preview, candidateVars>>

\* An answer counts as long as the preview awaits its input.
PreviewAwaits(k) == preview.kind = "ready" /\ preview.key = k

PreviewAnswer ==
    /\ previewTask # None
    /\ previewTask' = None
    /\ preview' = IF PreviewAwaits(previewTask)
                    THEN [preview EXCEPT !.pass = Previewed(previewTask), !.computing = FALSE, !.stale = FALSE]
                    ELSE preview
    /\ RememberPasses({<<context, previewTask>>})
    /\ UNCHANGED <<pageVars, baseVars, studiedVars, resultCache, previewTimer, candidateVars>>

PreviewFails ==
    /\ previewTask # None
    /\ previewTask' = None
    /\ preview' = IF PreviewAwaits(previewTask)
                    THEN [preview EXCEPT !.computing = FALSE, !.failed = TRUE]
                    ELSE preview
    /\ UNCHANGED <<pageVars, baseVars, studiedVars, cacheVars, previewTimer, candidateVars>>

\* (mutant) the figures known at the launch are counted again
DoneFromZero == candidates.done + 1 + Cardinality(candidates.indicators)

DoneNext == candidates.done + 1

\* A candidate's figure; the last one ends the computation.
CandidateAnswer ==
    /\ waiting # <<>>
    /\ waiting' = Tail(waiting)
    /\ candidates' = [candidates EXCEPT
                        !.indicators = @ \cup {Head(waiting)}, !.done = DoneNext,
                        !.status = IF DoneNext >= Cardinality(candidates.inputs)
                                     THEN "done" ELSE "running"]
    /\ RememberPasses({<<context, Head(waiting)>>})
    /\ UNCHANGED <<pageVars, baseVars, studiedVars, resultCache, previewVars, signature, refused>>

\* One candidate fails, or the worker with all of them.
CandidateFails ==
    /\ waiting # <<>>
    /\ waiting' \in {Tail(waiting), <<>>} /\ refused' = (refused \/ waiting' # <<>>)
    /\ candidates' = [candidates EXCEPT !.status = "done", !.failed = TRUE]
    /\ UNCHANGED <<pageVars, baseVars, studiedVars, cacheVars, previewVars, signature>>

-----------------------------------------------------------------------------
(* Gestures *)

Gesture == gestures < MaxGestures /\ gestures' = gestures + 1

\* What a selection gives: candidates only when it is one copy short.
AnySelection ==
    \/ selected' = Nothing /\ completions' = {}
    \/ selected' \in PreviewKeys /\ completions' = {}
    \/ selected' = Withheld /\ completions' \in Completions

SelectionDropped == selected' = Nothing /\ completions' = {}

\* The same selection, judged again after a change of the deck or of a plan.
SelectionJudgedAgain ==
    IF selected = Nothing THEN SelectionDropped ELSE AnySelection /\ selected' # Nothing

\* An edit of the main deck, or an annotation that changes the base deck's
\* input (resuming a draft drops the selection): scheduleCompute cancels the
\* running base task and starts its timer; the selection does not wait.
EditDeck ==
    /\ Gesture
    /\ base' \in Keys /\ plan' \in Plans
    /\ SelectionJudgedAgain \/ SelectionDropped
    /\ baseStale' = (result # None) /\ baseTimer' = TRUE /\ baseTask' = FALSE
    /\ UNCHANGED <<study, context, result, studiedVars, cacheVars>>
    /\ SyncSelection

\* A swap, a withdrawal, the copy of a plan, an edit of the side, an annotation
\* of a side card: the base deck's input stays.  Committing, undoing or
\* clearing also drops the selection.
EditPlan ==
    /\ Gesture
    /\ plan' \in Plans
    /\ SelectionJudgedAgain \/ SelectionDropped
    /\ UNCHANGED <<base, study, context>>
    /\ StudySync

\* setStudy; removing the opponent studied leaves none.
SetStudy(m) ==
    /\ Gesture
    /\ study # m
    /\ study' = m /\ plan' \in Plans
    /\ SelectionDropped
    /\ UNCHANGED <<base, context>>
    /\ StudySync

SetContext ==
    /\ Gesture
    /\ context' \in Positions \ {context}
    /\ SelectionDropped
    /\ UNCHANGED <<deckVars, study, baseVars, studiedVars, cacheVars>>
    /\ SyncSelection

\* setSelection, adjustSelectionCopy, clearSelection
Select ==
    /\ Gesture
    /\ study # None
    /\ AnySelection
    /\ UNCHANGED <<deckVars, study, context, baseVars, studiedVars, cacheVars>>
    /\ SyncSelection

\* The button that launches the candidates over the automatic budget.
RunCandidates ==
    /\ Gesture
    /\ candidates.status = "pending"
    /\ UNCHANGED <<deckVars, study, context, selected, completions, baseVars, studiedVars,
                   cacheVars, previewVars>>
    /\ SyncCandidates(TRUE)

\* saveDeck, once the content on the page is saved.
Saved ==
    /\ Gesture
    /\ timer' = TRUE
    /\ UNCHANGED <<deckVars, study, context, selected, completions, baseVars, studied, running,
                   cacheVars, previewVars, candidateVars>>

\* reset: every task and timer of the study is cancelled, the caches emptied.
Reset ==
    /\ timer' = FALSE /\ running' = [k \in Keys |-> None]
    /\ resultCache' = [k \in Keys |-> {}] /\ passCache' = {}
    /\ previewTimer' = None /\ previewTask' = None
    /\ signature' = None /\ waiting' = <<>> /\ refused' = FALSE

\* loadDeck, once the deck and its cards have been read.
Load ==
    /\ Gesture
    /\ base' \in Keys /\ plan' \in Plans
    /\ study' = None /\ context' = "first" /\ SelectionDropped
    /\ result' = None /\ baseStale' = FALSE /\ baseTimer' = TRUE /\ baseTask' = FALSE
    /\ studied' = [p \in Positions |-> Reusing]
    /\ preview' = NoPreview /\ candidates' = NoCandidates
    /\ Reset

Next ==
    \/ EditDeck \/ EditPlan \/ SetContext \/ Select \/ RunCandidates \/ Saved \/ Load
    \/ \E m \in OrNone(Opponents) : SetStudy(m)
    \/ LaunchBase \/ TimerFires \/ MainClient
    \/ PreviewLaunch \/ PreviewAnswer \/ PreviewFails
    \/ CandidateAnswer \/ CandidateFails

Spec == Init /\ [][Next]_vars

-----------------------------------------------------------------------------
(* What the page shows of all this *)

\* studiedPass: what a figure is compared with, the base deck's figures included;
\* none that are old.
StudiedPass(p) ==
    LET s == studied[p]
    IN  CASE s.reusesBase /\ ~baseStale -> result
          [] ~s.reusesBase /\ s.result # None /\ ~s.stale -> s.result.key
          [] OTHER -> None

PlanColumn(p) ==
    LET s == studied[p]
    IN  IF s.reusesBase THEN [pass |-> result, stale |-> baseStale, isPreview |-> FALSE]
        ELSE [pass |-> IF s.result = None THEN None ELSE s.result.key,
              stale |-> s.stale, isPreview |-> FALSE]

\* columnOf: the column of a position in the panel.  A preview that changes the
\* figures takes its place, not marked as old whatever its pass is of.
ColumnOf(p) ==
    IF p = context /\ preview.kind = "ready" /\ preview.affectsEngine
    THEN IF preview.pass # None
           THEN [pass |-> preview.pass.key, stale |-> FALSE, isPreview |-> TRUE]
           ELSE [PlanColumn(p) EXCEPT !.stale = PlanColumn(p).pass # None, !.isPreview = TRUE]
    ELSE PlanColumn(p)

\* PassColumn: the figures of a column that are not dimmed.
Vivid(p) == ColumnOf(p).pass # None /\ ~ColumnOf(p).stale

\* The figures of the plan, once the studied deck is of the opponent on the page,
\* and those of the base deck they are compared with.
PlanFigure(p) == IF study # None /\ studied[p].opponent = study THEN StudiedPass(p) ELSE None
BaseFigure == IF baseStale \/ baseTimer \/ baseTask THEN None ELSE result

PreviewFigure == IF preview.kind = "ready" THEN preview.pass ELSE None

\* PlanFigures, PreviewFigures: a difference is shown when both its figures are,
\* and not dimmed with "calcul de l'apercu".
PlanCompared(p) == PlanFigure(p) # None /\ BaseFigure # None
PreviewCompared == PreviewFigure # None /\ ~preview.computing /\ PlanFigure(context) # None

\* candidateDeltaOf: the candidates whose tile shows a difference with the plan.
CandidateDeltas ==
    IF StudiedPass(context) = None THEN {} ELSE candidates.inputs \cap candidates.indicators

-----------------------------------------------------------------------------
(* Properties *)

\* Once no synchronisation is due, each column is of the deck and of the
\* opponent on the page: it reuses the base deck's figures only if the plan
\* leaves the base deck's input, has none without a plan to apply (S2), and
\* what it shows as fresh is of the present input.
StudiedIsCurrent ==
    ~timer /\ ~baseTimer =>
        \A p \in Positions :
           LET s == studied[p]
           IN  /\ s.opponent = study
               /\ s.reusesBase <=> study = None \/ plan[p] = base
               /\ study # None /\ plan[p] = NotReady => s.result = None /\ ~s.computing
               /\ s.result # None /\ ~s.stale => s.result.key = plan[p]

\* "Jamais un chiffre de M1 sous le nom de M2" (study.ts): at every moment,
\* delays and late answers included, a figure was asked for under the name it
\* is shown.
NeverAnothersFigure ==
    /\ \A p \in Positions :
          studied[p].result # None => studied[p].result.opponent = studied[p].opponent
    /\ preview.pass # None => preview.pass.opponent = study /\ preview.pass.position = context

\* No column, preview or set of candidates waits for nothing: what says it
\* computes has a task or a timer of its own, and what is shown as old is
\* being replaced or has failed.  Candidates are excepted once the engine has
\* refused one of them while others waited: see the README.
SpinnersAreOwed ==
    /\ \A p \in Positions :
          /\ studied[p].computing => running[studied[p].key] # None
          /\ studied[p].stale => studied[p].computing \/ studied[p].failed
    /\ preview.computing => preview.key \in {previewTimer, previewTask}
    /\ preview.stale => preview.computing \/ preview.failed
    /\ candidates.status = "running" /\ ~refused => waiting # <<>>

\* The preview is always of the selection and the plan on the page, with no
\* delay, and a pass it does not mark as old is of its own input.
PreviewIsCurrent ==
    /\ preview.kind = "ready" /\ preview.affectsEngine => preview.key = selected
    /\ preview.kind = "ready" => study # None /\ selected \in Keys
    /\ preview.pass # None /\ ~preview.stale => preview.pass.key = preview.key

\* Candidates that say they are done have all their figures, whatever was
\* relaunched or learnt from elsewhere meanwhile; an error may be shown instead.
CandidatesAreComplete ==
    candidates.status = "done" /\ ~candidates.failed /\ ~refused =>
        candidates.indicators = candidates.inputs

\* Once no synchronisation is due, figures that are not dimmed are of the deck the
\* column names; a preview's may be the previous selection's while its own are
\* computed, or after they failed: see the README.
VividFiguresAreCurrent ==
    ~timer /\ ~baseTimer =>
        \A p \in Positions :
           Vivid(p) =>
              LET column == ColumnOf(p)
              IN  IF column.isPreview
                  THEN column.pass = selected \/ preview.computing \/ preview.failed
                  ELSE column.pass = IF study = None THEN base ELSE plan[p]

\* Both terms of a difference are of the page: a plan's with the base deck, even
\* while the base deck waits to be computed again; a preview's or a candidate's
\* with the open plan, of the selection at hand.
DifferencesAreOfThePage ==
    ~timer =>
        /\ \A p \in Positions :
              PlanCompared(p) => PlanFigure(p) = plan[p] /\ BaseFigure = base
        /\ PreviewCompared /\ ~baseTimer =>
              /\ PlanFigure(context) = plan[context]
              /\ PreviewFigure.key = selected \/ preview.failed
        /\ CandidateDeltas \subseteq completions
        /\ ~baseTimer /\ CandidateDeltas # {} => StudiedPass(context) = plan[context]

\* A column is of the deck and the opponent it is shown with.
ColumnsAreOfTheirDeck ==
    /\ TypeOK /\ StudiedIsCurrent /\ NeverAnothersFigure /\ PreviewIsCurrent
    /\ VividFiguresAreCurrent /\ DifferencesAreOfThePage

\* Nothing on the page waits for what will not come, or says it has what it has not.
NothingIsLeftWaiting == SpinnersAreOwed /\ CandidatesAreComplete
=============================================================================
