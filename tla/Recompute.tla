----------------------------- MODULE Recompute -----------------------------
(***************************************************************************)
(* The statistics of the open deck (web/src/store/deckStore.ts): what the  *)
(* user edits, what the account's library says, and the engine result the  *)
(* page shows for them.  Every edit invalidates the result at once, waits  *)
(* for a debounce timer, and gives one task to the compute client, which   *)
(* is TaskService here (ComputeClient implements it).  Decks are opened    *)
(* one over the other, each opening a chain of awaited answers, and        *)
(* library writes go through a queue of their own.                         *)
(*                                                                         *)
(* The engine's input is abstracted to the part that comes from the deck   *)
(* (local) and the part that comes from the account (library).  Answers of *)
(* the server carry any library and any deck: other tabs write them too.   *)
(* Reactions to a settled promise are steps of their own, so anything may  *)
(* happen before them: a browser interleaves less than that.               *)
(***************************************************************************)
EXTENDS Naturals

CONSTANTS
    Decks,          \* deck identifiers
    Locals,         \* deck-local parts of the engine input
    Libraries,      \* account parts of the engine input
    NoDeck,         \* deckId = null
    NoModel,        \* result = null
    Faults,         \* which environment faults happen, see below
    MaxVersions,    \* bound: invalidations (modelVersion)
    MaxOpenings,    \* bound: calls of loadDeck (opening)
    MaxWrites       \* bound: library writes queued at once

AllFaults == {"lateBootstrap",      \* the library asked for when the application
                                    \* starts may arrive after a deck is open
              "readFails",          \* reading a deck or its cards may fail
              "secondWriteFails"}   \* the profile write that follows a label
                                    \* write may fail

ASSUME RecomputeAssumption ==
    /\ NoDeck \notin Decks
    /\ Faults \subseteq AllFaults
    /\ MaxVersions \in Nat /\ MaxOpenings \in Nat /\ MaxWrites \in Nat

VARIABLES
    seq, disposed, promise,     \* the compute client, see TaskService
    deckId,         \* the deck in the store, or NoDeck
    local,          \* its part of the engine input
    library,        \* the account's part of the engine input
    modelVersion,   \* advances at each invalidation
    result,         \* the result shown, with what it was computed from
    stale,          \* the result is of an earlier version
    computing,      \* a version is asked for and not computed yet
    failed,         \* computeError # null
    timer,          \* version the debounce timer will launch, or NoTimer
    inflight,       \* the task being computed, or NoTask
    task,           \* what each task was given to compute, until the reaction
                    \* to its promise has run (NoModel before and after)
    opening,        \* number of the latest opening
    target,         \* deck each opening loads
    phase,          \* what each opening is waiting for
    ahead,          \* library writes an opening still waits for
    writes,         \* how many library writes are queued, the first being executed
    halfWritten,    \* its label is acknowledged, its profile is not yet
    starting,       \* the application's own bootstrap has not been answered
    draft,          \* a draft is offered
    draftCards,     \* deck whose draft's cards are awaited, or NoDeck
    drift           \* history: the library was replaced, and no recomputation
                    \* asked for, since the last model was built

clientVars == <<seq, disposed, promise>>
inputVars == <<deckId, local, library>>
viewVars == <<modelVersion, result, stale, computing, failed>>
taskVars == <<timer, inflight, task>>
loadVars == <<opening, target, phase, ahead>>
writeVars == <<writes, halfWritten>>
draftVars == <<draft, draftCards>>
vars == <<clientVars, inputVars, viewVars, taskVars, loadVars, writeVars, starting, draftVars, drift>>

Client == INSTANCE TaskService WITH MaxTasks <- MaxVersions

NoTimer == 0
NoTask == 0
Tasks == 1..MaxVersions
Openings == 1..MaxOpenings
Inputs == [local : Locals, library : Libraries]
Models == [version : 1..MaxVersions, deck : Decks \cup {NoDeck}, input : Inputs]

ASSUME NoModelAssumption == NoModel \notin Models

Phases == {"none", "queue", "library", "read", "draft", "over"}

TypeOK ==
    /\ seq \in 0..MaxVersions /\ disposed \in BOOLEAN
    /\ promise \in [Tasks -> {"none", "waiting", "resolved", "failed", "cancelled"}]
    /\ deckId \in Decks \cup {NoDeck} /\ local \in Locals /\ library \in Libraries
    /\ modelVersion \in 0..MaxVersions
    /\ result \in Models \cup {NoModel}
    /\ stale \in BOOLEAN /\ computing \in BOOLEAN /\ failed \in BOOLEAN
    /\ timer \in 0..MaxVersions /\ inflight \in 0..MaxVersions
    /\ task \in [Tasks -> Models \cup {NoModel}]
    /\ opening \in 0..MaxOpenings
    /\ target \in [Openings -> Decks \cup {NoDeck}]
    /\ phase \in [Openings -> Phases]
    /\ ahead \in [Openings -> 0..MaxWrites]
    /\ writes \in 0..MaxWrites /\ halfWritten \in BOOLEAN
    /\ starting \in BOOLEAN
    /\ draft \in BOOLEAN /\ draftCards \in Decks \cup {NoDeck}
    /\ drift \in BOOLEAN

Init ==
    /\ Client!Init
    /\ deckId = NoDeck
    /\ local \in Locals /\ library \in Libraries
    /\ modelVersion = 0 /\ result = NoModel
    /\ stale = FALSE /\ computing = FALSE /\ failed = FALSE
    /\ timer = NoTimer /\ inflight = NoTask
    /\ task = [t \in Tasks |-> NoModel]
    /\ opening = 0
    /\ target = [o \in Openings |-> NoDeck]
    /\ phase = [o \in Openings |-> "none"]
    /\ ahead = [o \in Openings |-> 0]
    /\ writes = 0 /\ halfWritten = FALSE
    /\ starting = TRUE
    /\ draft = FALSE /\ draftCards = NoDeck
    /\ drift = FALSE

Input == [local |-> local, library |-> library]

\* The page shows the deck once the latest opening has ended, if the store
\* holds the deck the page was opened for.
Shown == opening > 0 /\ phase[opening] = "over" /\ deckId = target[opening]

-----------------------------------------------------------------------------
(* The recomputation *)

\* (mutant) the running task is forgotten instead of cancelled
Forget == UNCHANGED clientVars

CancelInflight ==
    IF inflight # NoTask /\ promise[inflight] = "waiting"
      THEN Client!Cancel(inflight)
      ELSE UNCHANGED clientVars

\* scheduleCompute, the result shown being as given: the version advances at
\* once, the running task is cancelled and the debounce timer starts again.
Invalidate(shown) ==
    /\ modelVersion < MaxVersions
    /\ modelVersion' = modelVersion + 1
    /\ stale' = (shown # NoModel)
    /\ computing' = TRUE
    /\ failed' = FALSE
    /\ CancelInflight
    /\ inflight' = NoTask
    /\ timer' = modelVersion'
    /\ result' = shown
    /\ UNCHANGED task

\* (mutant) only the account's part of the input is compared
ModelUnchangedForAccount(input) ==
    /\ result # NoModel /\ ~computing /\ ~stale
    /\ result.version = modelVersion
    /\ result.input.library = input.library

\* modelUnchanged, after the input has become the one given.
ModelUnchanged(input) ==
    /\ result # NoModel /\ ~computing /\ ~stale
    /\ result.version = modelVersion
    /\ result.input = input

\* annotationCalc and libraryCalc: nothing is computed again when the engine
\* would be given what it was given before.
CalcIfChanged(input) ==
    IF ModelUnchanged(input)
      THEN /\ drift' = FALSE
           /\ UNCHANGED <<viewVars, taskVars, clientVars>>
      ELSE /\ Invalidate(result)
           /\ UNCHANGED drift

\* The debounce timer fires: launchCompute.
Launch ==
    /\ timer # NoTimer
    /\ timer' = NoTimer
    /\ IF timer = modelVersion
         THEN /\ Client!Submit
              /\ inflight' = seq'
              /\ task' = [task EXCEPT ![seq'] =
                            [version |-> timer, deck |-> deckId, input |-> Input]]
              /\ drift' = FALSE
         ELSE UNCHANGED <<clientVars, inflight, task, drift>>
    /\ UNCHANGED <<inputVars, viewVars, loadVars, writeVars, starting, draftVars>>

\* A resolved task of the version still asked for becomes the result shown.
Adopt(t) ==
    /\ promise[t] = "resolved" /\ task[t].version = modelVersion
    /\ result' = task[t]
    /\ stale' = FALSE /\ computing' = FALSE /\ failed' = FALSE

\* (mutant) an error leaves the page waiting
FailSilently(t) ==
    /\ promise[t] = "failed" /\ task[t].version = modelVersion
    /\ UNCHANGED <<result, stale, computing, failed>>

\* A failed one leaves the old result, marked stale, and the error.
Fail(t) ==
    /\ promise[t] = "failed" /\ task[t].version = modelVersion
    /\ computing' = FALSE /\ failed' = TRUE
    /\ UNCHANGED <<result, stale>>

\* The reaction to a settled task: cancelled, or of an older version, it is mute.
React(t) ==
    /\ task[t] # NoModel /\ promise[t] \in Client!Settled
    /\ task' = [task EXCEPT ![t] = NoModel]
    /\ inflight' = IF inflight = t THEN NoTask ELSE inflight
    /\ \/ Adopt(t)
       \/ Fail(t)
       \/ /\ promise[t] = "cancelled" \/ task[t].version # modelVersion
          /\ UNCHANGED <<result, stale, computing, failed>>
    /\ UNCHANGED <<clientVars, inputVars, modelVersion, timer, loadVars, writeVars,
                   starting, draftVars, drift>>

\* The compute client answers, or loses its engine.
Engine ==
    /\ Client!Progress
    /\ UNCHANGED <<inputVars, viewVars, taskVars, loadVars, writeVars, starting, draftVars, drift>>

-----------------------------------------------------------------------------
(* Edits of the deck shown *)

\* An edit of the main deck, or the user's request to compute again.
Edit(content) ==
    /\ Shown
    /\ local' = content
    /\ Invalidate(result)
    /\ UNCHANGED <<deckId, library, loadVars, writeVars, starting, draftVars, drift>>

\* An annotation of the deck: starters, pairs, conditions, dead cards.
Annotate(content) ==
    /\ Shown
    /\ local' = content
    /\ CalcIfChanged([local |-> content, library |-> library])
    /\ UNCHANGED <<deckId, library, loadVars, writeVars, starting, draftVars>>

\* resumeDraft: the draft's content replaces the deck's; the text of the cards
\* it brings may have to be asked for.
ResumeDraft(content) ==
    /\ Shown /\ draft
    /\ draft' = FALSE
    /\ local' = content
    /\ Invalidate(result)
    /\ \E missing \in BOOLEAN : draftCards' = IF missing THEN deckId ELSE draftCards
    /\ UNCHANGED <<deckId, library, loadVars, writeVars, starting, drift>>

\* Their answer, which counts as long as the store holds that deck.
DraftCardsAnswer ==
    /\ draftCards # NoDeck
    /\ draftCards' = NoDeck
    /\ \/ /\ draftCards = deckId
          /\ library' \in Libraries
          /\ Invalidate(result)
       \/ /\ UNCHANGED <<library, viewVars, taskVars, clientVars>>
    /\ UNCHANGED <<deckId, local, loadVars, writeVars, starting, draft, drift>>

-----------------------------------------------------------------------------
(* The account's library *)

\* A gesture on the account's annotations joins the queue.  Which gesture it is
\* shows when it is executed.
Write ==
    /\ Shown
    /\ writes < MaxWrites
    /\ writes' = writes + 1
    /\ UNCHANGED <<clientVars, inputVars, viewVars, taskVars, loadVars, halfWritten, starting,
                   draftVars, drift>>

\* The first write ends; openings that wait for the queue see it go.
Dequeue ==
    /\ writes' = writes - 1
    /\ halfWritten' = FALSE
    /\ ahead' = [o \in Openings |-> IF ahead[o] > 0 THEN ahead[o] - 1 ELSE 0]

\* Flags, profiles, labels and references: adopted, then libraryCalc.
AckAnnotation ==
    /\ library' \in Libraries
    /\ CalcIfChanged([local |-> local, library |-> library'])
    /\ Dequeue

\* Categories and shared caps: adopted, then recompute.
AckShared ==
    /\ ~halfWritten
    /\ library' \in Libraries
    /\ Invalidate(result)
    /\ Dequeue
    /\ UNCHANGED drift

\* The label of applyNonEngine: adopted, and the profile's write follows.
AckLabel ==
    /\ ~halfWritten
    /\ library' \in Libraries
    /\ halfWritten' = TRUE
    /\ drift' = TRUE
    /\ UNCHANGED <<viewVars, taskVars, clientVars, ahead, writes>>

\* A write that fails leaves what was adopted before it, and stops there; a
\* gesture that finds nothing to write ends the same way.
WriteFails ==
    /\ halfWritten => "secondWriteFails" \in Faults
    /\ Dequeue
    /\ UNCHANGED <<library, viewVars, taskVars, clientVars, drift>>

WriteAnswer ==
    /\ writes > 0
    /\ AckAnnotation \/ AckShared \/ AckLabel \/ WriteFails
    /\ UNCHANGED <<deckId, local, opening, target, phase, starting, draftVars>>

\* bootstrap adopts the account's library; nothing is computed again.
AdoptLibrary ==
    \/ /\ library' \in Libraries
       /\ drift' = TRUE
    \/ UNCHANGED <<library, drift>>

\* The answer to the bootstrap of the application's start.
StartAnswer ==
    /\ starting
    /\ deckId = NoDeck \/ "lateBootstrap" \in Faults
    /\ starting' = FALSE
    /\ AdoptLibrary
    /\ UNCHANGED <<clientVars, deckId, local, viewVars, taskVars, loadVars, writeVars, draftVars>>

-----------------------------------------------------------------------------
(* Opening a deck: loadDeck, one step per awaited answer *)

To(o, p) == phase' = [phase EXCEPT ![o] = p]

Open(d) ==
    /\ opening < MaxOpenings
    /\ opening' = opening + 1
    /\ target' = [target EXCEPT ![opening'] = d]
    /\ To(opening', "queue")
    /\ ahead' = [ahead EXCEPT ![opening'] = writes]
    /\ UNCHANGED <<clientVars, inputVars, viewVars, taskVars, writeVars, starting, draftVars, drift>>

QueueEmpty(o) ==
    /\ phase[o] = "queue" /\ ahead[o] = 0
    /\ To(o, "library")
    /\ UNCHANGED <<clientVars, inputVars, viewVars, taskVars, opening, target, ahead, writeVars,
                   starting, draftVars, drift>>

\* The library is adopted even if a later opening has begun; a failure ends
\* the opening.
LibraryAnswer(o) ==
    /\ phase[o] = "library"
    /\ \/ /\ library' \in Libraries
          /\ drift' = TRUE
          /\ To(o, IF o = opening THEN "read" ELSE "over")
       \/ /\ UNCHANGED <<library, drift>>
          /\ To(o, "over")
    /\ UNCHANGED <<clientVars, deckId, local, viewVars, taskVars, opening, target, ahead,
                   writeVars, starting, draftVars>>

\* The deck and the text of its cards: the store's state is replaced, nothing
\* of the result before survives, and the recomputation starts.
DeckAnswer(o) ==
    /\ phase[o] = "read" /\ o = opening
    /\ "lateBootstrap" \in Faults \/ ~starting
    /\ deckId' = target[o]
    /\ local' \in Locals
    /\ Invalidate(NoModel)
    /\ draft' = FALSE
    /\ To(o, "draft")
    /\ UNCHANGED <<library, opening, target, ahead, writeVars, starting, draftCards, drift>>

\* The deck or its cards cannot be read, or a later opening has begun.
DeckMute(o) ==
    /\ phase[o] = "read"
    /\ o # opening \/ "readFails" \in Faults
    /\ To(o, "over")
    /\ UNCHANGED <<clientVars, inputVars, viewVars, taskVars, opening, target, ahead, writeVars,
                   starting, draftVars, drift>>

DraftAnswer(o) ==
    /\ phase[o] = "draft"
    /\ To(o, "over")
    /\ \E found \in BOOLEAN : draft' = IF found /\ o = opening THEN TRUE ELSE draft
    /\ UNCHANGED <<clientVars, inputVars, viewVars, taskVars, opening, target, ahead, writeVars,
                   starting, draftCards, drift>>

-----------------------------------------------------------------------------

Reactions == \E t \in Tasks : React(t)

Next ==
    \/ Launch
    \/ Engine
    \/ Reactions
    \/ \E c \in Locals : Edit(c) \/ Annotate(c) \/ ResumeDraft(c)
    \/ DraftCardsAnswer
    \/ Write
    \/ WriteAnswer
    \/ StartAnswer
    \/ \E d \in Decks : Open(d)
    \/ \E o \in Openings : QueueEmpty(o) \/ LibraryAnswer(o) \/ DeckAnswer(o)
                             \/ DeckMute(o) \/ DraftAnswer(o)

SafetySpec == Init /\ [][Next]_vars

\* Timers fire, the engine answers or is lost, and reactions run.  Requests to
\* the server may stay unanswered for ever.
Fairness == WF_vars(Launch) /\ WF_vars(Engine) /\ WF_vars(Reactions)
Spec == SafetySpec /\ Fairness

-----------------------------------------------------------------------------
(* Properties *)

Fresh == result # NoModel /\ ~stale

\* A result not marked stale is the engine's result for the deck's present
\* content: across edits, cancellations, engine failures and openings.  It is
\* what the page and the summary attached to a save both rely on.
FreshDescribesDeck == Fresh => result.deck = deckId /\ result.input.local = local

\* It is also the result for the account's present library, except after the
\* library was replaced with no recomputation asked for (a bootstrap, or the
\* label of a non-engine gesture whose profile is not acknowledged).
FreshDescribesLibrary == Fresh /\ ~drift => result.input.library = library

\* Rule 2: the store has at most one task; it is the one in flight, computes
\* the version asked for, and no timer runs beside it.
OneTask ==
    \A t \in Client!Waiting :
       t = inflight /\ task[t].version = modelVersion /\ timer = NoTimer

\* The page never waits for nothing: while it says it computes, the timer runs
\* or the task in flight has yet to be reacted to.  A result marked stale is
\* being replaced, or its replacement has failed and the page offers to retry.
SpinnerIsOwed ==
    /\ computing =>
         \/ timer # NoTimer /\ timer = modelVersion
         \/ /\ inflight # NoTask /\ task[inflight] # NoModel
            /\ task[inflight].version = modelVersion
            /\ promise[inflight] \in {"waiting", "resolved", "failed"}
    /\ stale => computing \/ failed

\* Two openings answered in any order leave the deck of the latest one, as soon
\* as its deck has been read.
LastOpeningWins == opening > 0 /\ phase[opening] = "draft" => deckId = target[opening]

\* The page of the latest opening: what it says is fresh is of its deck, its content and its library.
PageIsOfItsDeck == FreshDescribesDeck /\ FreshDescribesLibrary /\ LastOpeningWins

\* The page waits for exactly what is under way: one task, of the version asked for.
WaitsForItsTask == TypeOK /\ OneTask /\ SpinnerIsOwed

\* A computation asked for ends with a result or an error.
ComputationEnds == computing ~> ~computing
=============================================================================
