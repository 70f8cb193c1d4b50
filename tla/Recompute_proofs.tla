-------------------------- MODULE Recompute_proofs --------------------------
(***************************************************************************)
(* Proofs about the recomputation of the open deck, for any number of      *)
(* decks, contents, libraries, versions, openings and queued writes, and   *)
(* any faults.                                                             *)
(***************************************************************************)
EXTENDS Recompute, TLAPS

(***************************************************************************)
(* The inductive invariant                                                 *)
(***************************************************************************)

\* The store never disposes of its client; only its task in flight waits there.
OneAtATime ==
    /\ disposed = FALSE
    /\ \A t \in Tasks : promise[t] = "waiting" => t = inflight

\* The task in flight is of the version asked for, not cancelled, and no timer
\* runs beside it; every other task not reacted to is of an older version.
TasksAreOfVersions ==
    /\ inflight # NoTask =>
         /\ task[inflight] # NoModel /\ task[inflight].version = modelVersion
         /\ promise[inflight] \in {"waiting", "resolved", "failed"}
         /\ timer = NoTimer
    /\ timer # NoTimer => timer = modelVersion
    /\ \A t \in Tasks : task[t] # NoModel /\ t # inflight => task[t].version < modelVersion

\* The page says it computes exactly while a timer runs or a task is in flight,
\* and shows nothing as fresh meanwhile.
ComputingIsOwed ==
    /\ computing <=> timer # NoTimer \/ inflight # NoTask
    /\ computing => ~Fresh
    /\ stale => computing \/ failed

\* What is being computed is what the page holds, up to a drift of the library.
TaskIsOfThePage ==
    inflight # NoTask =>
        /\ task[inflight].deck = deckId /\ task[inflight].input.local = local
        /\ ~drift => task[inflight].input.library = library

Bookkeeping ==
    /\ OneAtATime /\ TasksAreOfVersions /\ ComputingIsOwed /\ TaskIsOfThePage
    /\ FreshDescribesDeck /\ FreshDescribesLibrary

IInv == TypeOK /\ Bookkeeping /\ LastOpeningWins

-----------------------------------------------------------------------------
(***************************************************************************)
(* Types                                                                   *)
(***************************************************************************)

\* What the recomputation writes, and the rest of the page.
ComputeTypes ==
    /\ seq \in 0..MaxVersions /\ disposed \in BOOLEAN
    /\ promise \in [Tasks -> {"none", "waiting", "resolved", "failed", "cancelled"}]
    /\ modelVersion \in 0..MaxVersions
    /\ result \in Models \cup {NoModel}
    /\ stale \in BOOLEAN /\ computing \in BOOLEAN /\ failed \in BOOLEAN
    /\ timer \in 0..MaxVersions /\ inflight \in 0..MaxVersions
    /\ task \in [Tasks -> Models \cup {NoModel}]

PageTypes ==
    /\ deckId \in Decks \cup {NoDeck} /\ local \in Locals /\ library \in Libraries
    /\ opening \in 0..MaxOpenings
    /\ target \in [Openings -> Decks \cup {NoDeck}]
    /\ phase \in [Openings -> Phases]
    /\ ahead \in [Openings -> 0..MaxWrites]
    /\ writes \in 0..MaxWrites /\ halfWritten \in BOOLEAN
    /\ starting \in BOOLEAN
    /\ draft \in BOOLEAN /\ draftCards \in Decks \cup {NoDeck}
    /\ drift \in BOOLEAN

LEMMA TypesSplit == TypeOK <=> ComputeTypes /\ PageTypes
  BY DEF TypeOK, ComputeTypes, PageTypes

LEMMA TypesSplitNext == TypeOK' <=> ComputeTypes' /\ PageTypes'
  BY DEF TypeOK, ComputeTypes, PageTypes

LEMMA ModelFacts ==
    /\ NoModel \notin Models
    /\ \A m \in Models : m.version \in 1..MaxVersions
    /\ \A m \in Models : m.input \in Inputs
  BY NoModelAssumption DEF Models

LEMMA InvalidateKeepsTypes ==
    ASSUME ComputeTypes, NEW shown \in Models \cup {NoModel}, Invalidate(shown)
    PROVE  ComputeTypes'
  <1>1. promise' \in [Tasks -> {"none", "waiting", "resolved", "failed", "cancelled"}]
        /\ seq' = seq /\ disposed' = disposed
    BY DEF ComputeTypes, Invalidate, CancelInflight, Client!Cancel, clientVars
  <1>2. /\ stale' \in BOOLEAN /\ computing' \in BOOLEAN /\ failed' \in BOOLEAN
        /\ result' \in Models \cup {NoModel} /\ task' = task
    BY DEF Invalidate
  <1>3. modelVersion' \in 0..MaxVersions /\ timer' \in 0..MaxVersions /\ inflight' \in 0..MaxVersions
    BY RecomputeAssumption DEF ComputeTypes, Invalidate, NoTask
  <1> QED
    BY <1>1, <1>2, <1>3 DEF ComputeTypes

LEMMA CalcKeepsTypes ==
    ASSUME ComputeTypes, drift \in BOOLEAN, NEW input, CalcIfChanged(input)
    PROVE  ComputeTypes' /\ drift' \in BOOLEAN
  <1>1. CASE ModelUnchanged(input)
    BY <1>1 DEF CalcIfChanged, ComputeTypes, viewVars, taskVars, clientVars
  <1>2. CASE ~ModelUnchanged(input)
    <2>1. Invalidate(result) /\ drift' = drift
      BY <1>2 DEF CalcIfChanged
    <2> QED
      BY <2>1, InvalidateKeepsTypes DEF ComputeTypes
  <1> QED
    BY <1>1, <1>2

(***************************************************************************)
(* Bookkeeping                                                             *)
(***************************************************************************)

\* Whatever the edit that asks for it, an invalidation leaves nothing fresh and no
\* task in flight.
LEMMA InvalidateKeeps ==
    ASSUME ComputeTypes, Bookkeeping, NEW shown \in {result, NoModel}, Invalidate(shown)
    PROVE  Bookkeeping'
  <1>1. OneAtATime'
    <2>1. ASSUME NEW t \in Tasks PROVE promise'[t] # "waiting"
      <3>1. CASE inflight # NoTask /\ promise[inflight] = "waiting"
        <4>1. promise' = [promise EXCEPT ![inflight] = "cancelled"]
          BY <3>1 DEF Invalidate, CancelInflight, Client!Cancel
        <4> QED
          BY <4>1 DEF ComputeTypes, Bookkeeping, OneAtATime
      <3>2. CASE ~(inflight # NoTask /\ promise[inflight] = "waiting")
        <4>1. promise' = promise
          BY <3>2 DEF Invalidate, CancelInflight, clientVars
        <4>2. t # NoTask
          BY DEF Tasks, NoTask
        <4> QED
          BY <3>2, <4>1, <4>2 DEF Bookkeeping, OneAtATime
      <3> QED
        BY <3>1, <3>2
    <2>2. disposed' = FALSE
      BY DEF Bookkeeping, OneAtATime, Invalidate, CancelInflight, Client!Cancel, clientVars
    <2> QED
      BY <2>1, <2>2 DEF OneAtATime
  <1>2. TasksAreOfVersions'
    <2>1. ASSUME NEW t \in Tasks, task[t] # NoModel PROVE task[t].version < modelVersion + 1
      <3>1. task[t].version \in 1..MaxVersions
        BY <2>1, ModelFacts DEF ComputeTypes
      <3> QED
        BY <2>1, <3>1 DEF ComputeTypes, Bookkeeping, TasksAreOfVersions, Tasks, NoTask
    <2> QED
      BY <2>1 DEF Invalidate, TasksAreOfVersions
  <1>3. ComputingIsOwed'
    <2>1. timer' # NoTimer
      BY DEF Invalidate, ComputeTypes, NoTimer
    <2>2. computing' = TRUE /\ ~Fresh'
      BY DEF Invalidate, Fresh
    <2> QED
      BY <2>1, <2>2 DEF ComputingIsOwed
  <1>4. TaskIsOfThePage'
    BY DEF Invalidate, TaskIsOfThePage
  <1>5. ~Fresh'
    BY DEF Invalidate, Fresh
  <1> QED
    BY <1>1, <1>2, <1>3, <1>4, <1>5 DEF Bookkeeping, FreshDescribesDeck, FreshDescribesLibrary

\* A step that computes nothing may replace the library only if it says so.
LEMMA NothingComputed ==
    ASSUME Bookkeeping, UNCHANGED <<viewVars, taskVars, clientVars, deckId, local>>,
           UNCHANGED <<library, drift>> \/ drift' = TRUE
    PROVE  Bookkeeping'
  <1>1. OneAtATime' /\ TasksAreOfVersions' /\ ComputingIsOwed'
    BY DEF Bookkeeping, OneAtATime, TasksAreOfVersions, ComputingIsOwed, Fresh, viewVars, taskVars,
           clientVars
  <1>2. TaskIsOfThePage'
    BY DEF Bookkeeping, TaskIsOfThePage, viewVars, taskVars, clientVars
  <1>3. FreshDescribesDeck' /\ FreshDescribesLibrary'
    BY DEF Bookkeeping, FreshDescribesDeck, FreshDescribesLibrary, Fresh, viewVars, taskVars,
           clientVars
  <1> QED
    BY <1>1, <1>2, <1>3 DEF Bookkeeping

\* When the engine would be given what it was given before, the result shown is of
\* the new content too.
LEMMA CalcKeeps ==
    ASSUME ComputeTypes, Bookkeeping, deckId' = deckId, CalcIfChanged(Input')
    PROVE  Bookkeeping'
  <1>1. CASE ModelUnchanged(Input')
    <2>1. UNCHANGED <<viewVars, taskVars, clientVars>> /\ drift' = FALSE
      BY <1>1 DEF CalcIfChanged
    <2>2. result.input = Input' /\ ~computing
      BY <1>1 DEF ModelUnchanged
    <2>3. inflight = NoTask
      BY <2>2 DEF Bookkeeping, ComputingIsOwed
    <2>4. OneAtATime' /\ TasksAreOfVersions' /\ ComputingIsOwed'
      BY <2>1 DEF Bookkeeping, OneAtATime, TasksAreOfVersions, ComputingIsOwed, Fresh, viewVars,
                  taskVars, clientVars
    <2>5. TaskIsOfThePage'
      BY <2>1, <2>3 DEF TaskIsOfThePage, taskVars
    <2>6. FreshDescribesDeck' /\ FreshDescribesLibrary'
      BY <2>1, <2>2 DEF Bookkeeping, FreshDescribesDeck, FreshDescribesLibrary, Fresh, viewVars, Input
    <2> QED
      BY <2>4, <2>5, <2>6 DEF Bookkeeping
  <1>2. CASE ~ModelUnchanged(Input')
    <2>1. Invalidate(result)
      BY <1>2 DEF CalcIfChanged
    <2> QED
      BY <2>1, InvalidateKeeps
  <1> QED
    BY <1>1, <1>2

(***************************************************************************)
(* Each step                                                               *)
(***************************************************************************)

LEMMA InitOk == Init => IInv
  <1> SUFFICES ASSUME Init PROVE IInv
    OBVIOUS
  <1> USE RecomputeAssumption DEF Init, Client!Init, NoTimer, NoTask
  <1>1. ComputeTypes
    <2>1. 0 \in 0..MaxVersions
      OBVIOUS
    <2>2. promise \in [Tasks -> {"none", "waiting", "resolved", "failed", "cancelled"}]
          /\ task \in [Tasks -> Models \cup {NoModel}]
      BY DEF Tasks, Client!TaskIds
    <2> QED
      BY <2>1, <2>2 DEF ComputeTypes
  <1>2. PageTypes
    <2>1. 0 \in 0..MaxOpenings /\ 0 \in 0..MaxWrites
      OBVIOUS
    <2>2. target \in [Openings -> Decks \cup {NoDeck}] /\ phase \in [Openings -> Phases]
          /\ ahead \in [Openings -> 0..MaxWrites]
      BY <2>1 DEF Phases
    <2> QED
      BY <2>1, <2>2 DEF PageTypes
  <1>3. OneAtATime /\ TasksAreOfVersions
    BY DEF OneAtATime, TasksAreOfVersions, Tasks, Client!TaskIds
  <1>4. ~Fresh
    BY DEF Fresh
  <1>5. ComputingIsOwed /\ TaskIsOfThePage
    BY <1>4 DEF ComputingIsOwed, TaskIsOfThePage
  <1>6. LastOpeningWins
    BY DEF LastOpeningWins
  <1> QED
    BY <1>1, <1>2, <1>3, <1>4, <1>5, <1>6, TypesSplit
       DEF IInv, Bookkeeping, FreshDescribesDeck, FreshDescribesLibrary

LEMMA LaunchOk == IInv /\ Launch => IInv'
  <1> SUFFICES ASSUME IInv, Launch PROVE IInv'
    OBVIOUS
  <1>0. ComputeTypes /\ PageTypes /\ Bookkeeping
    BY TypesSplit DEF IInv
  <1>1. /\ timer # NoTimer /\ timer = modelVersion /\ timer \in 1..MaxVersions
        /\ inflight = NoTask /\ computing /\ ~Fresh
    BY <1>0 DEF Launch, Bookkeeping, TasksAreOfVersions, ComputingIsOwed, ComputeTypes, NoTimer, NoTask
  <1> DEFINE model == [version |-> timer, deck |-> deckId, input |-> Input]
  <1>2. /\ timer' = NoTimer /\ inflight' = seq + 1 /\ drift' = FALSE
        /\ seq < MaxVersions /\ seq' = seq + 1 /\ disposed' = disposed
        /\ task' = [task EXCEPT ![seq + 1] = model]
        /\ promise' = [promise EXCEPT ![seq + 1] = IF disposed THEN "cancelled" ELSE "waiting"]
    BY <1>1 DEF Launch, Client!Submit
  <1>3. model \in Models /\ model # NoModel /\ model.version = modelVersion
    BY <1>0, <1>1, NoModelAssumption DEF Models, Inputs, Input, PageTypes
  <1>4. seq + 1 \in Tasks /\ seq + 1 # NoTask
    BY <1>0, <1>2, RecomputeAssumption DEF ComputeTypes, Tasks, NoTask
  <1> HIDE DEF model
  <1>5. UNCHANGED <<inputVars, viewVars, loadVars, writeVars, starting, draftVars>>
    BY DEF Launch
  <1>6. ComputeTypes'
    <2>1. UNCHANGED viewVars
      BY <1>5
    <2>2. seq' \in 0..MaxVersions /\ inflight' \in 0..MaxVersions /\ timer' \in 0..MaxVersions
      BY <1>2, <1>4, RecomputeAssumption DEF Tasks, NoTimer
    <2> QED
      BY <1>0, <1>2, <1>3, <2>1, <2>2 DEF ComputeTypes, viewVars
  <1>7. PageTypes'
    BY <1>0, <1>2, <1>5 DEF PageTypes, inputVars, loadVars, writeVars, draftVars
  <1>8. ~disposed /\ \A t \in Tasks : promise[t] # "waiting"
    BY <1>0, <1>1 DEF Bookkeeping, OneAtATime, Tasks, NoTask
  <1>9. OneAtATime'
    BY <1>0, <1>2, <1>4, <1>8 DEF OneAtATime, ComputeTypes, Bookkeeping
  <1>10. TasksAreOfVersions'
    <2>1. modelVersion' = modelVersion
      BY <1>5 DEF viewVars
    <2>2. task'[seq + 1] = model /\ promise'[seq + 1] = "waiting"
      BY <1>0, <1>2, <1>4, <1>8 DEF ComputeTypes
    <2>3. \A t \in Tasks : t # seq + 1 => task'[t] = task[t] /\ t # NoTask
      BY <1>0, <1>2 DEF ComputeTypes, Tasks, NoTask
    <2> QED
      BY <1>0, <1>1, <1>2, <1>3, <2>1, <2>2, <2>3 DEF TasksAreOfVersions, Bookkeeping
  <1>11. ComputingIsOwed' /\ ~Fresh'
    BY <1>0, <1>1, <1>2, <1>4, <1>5 DEF ComputingIsOwed, Fresh, viewVars, Bookkeeping
  <1>12. TaskIsOfThePage'
    <2>1. task'[inflight'] = model
      BY <1>0, <1>2, <1>4 DEF ComputeTypes
    <2> QED
      BY <1>5, <2>1 DEF TaskIsOfThePage, inputVars, model, Input
  <1>13. LastOpeningWins'
    BY <1>5 DEF IInv, LastOpeningWins, inputVars, loadVars
  <1> QED
    BY <1>6, <1>7, <1>9, <1>10, <1>11, <1>12, <1>13, TypesSplitNext
       DEF IInv, Bookkeeping, FreshDescribesDeck, FreshDescribesLibrary

\* The client's answer reaches only the task in flight.
LEMMA EngineOk == IInv /\ Engine => IInv'
  <1> SUFFICES ASSUME IInv, Engine PROVE IInv'
    OBVIOUS
  <1>0. ComputeTypes /\ PageTypes /\ Bookkeeping
    BY TypesSplit DEF IInv
  <1>1. /\ UNCHANGED <<inputVars, viewVars, taskVars, loadVars, writeVars, starting, draftVars, drift>>
        /\ Client!Progress
    BY DEF Engine
  <1>2. /\ seq' = seq /\ disposed' = disposed
        /\ promise' \in [Tasks -> {"none", "waiting", "resolved", "failed", "cancelled"}]
        /\ \A t \in Tasks :
              promise'[t] # promise[t] =>
                 promise[t] = "waiting" /\ promise'[t] \in {"resolved", "failed"}
    <2>1. CASE Client!EngineLost
      BY <1>0, <2>1 DEF Client!EngineLost, Client!Reject, Client!Waiting, Client!TaskIds, Tasks,
                        ComputeTypes
    <2>2. ASSUME NEW u \in Client!TaskIds, Client!Answer(u)
          PROVE  /\ seq' = seq /\ disposed' = disposed
                 /\ promise' \in [Tasks -> {"none", "waiting", "resolved", "failed", "cancelled"}]
                 /\ \A t \in Tasks :
                      promise'[t] # promise[t] =>
                         promise[t] = "waiting" /\ promise'[t] \in {"resolved", "failed"}
      <3>1. PICK a \in {"resolved", "failed"} : promise' = [promise EXCEPT ![u] = a]
        BY <2>2 DEF Client!Answer
      <3>2. promise[u] = "waiting" /\ UNCHANGED <<seq, disposed>>
        BY <2>2 DEF Client!Answer, Client!Waiting
      <3> QED
        BY <1>0, <3>1, <3>2 DEF ComputeTypes, Tasks
    <2> QED
      BY <1>1, <2>1, <2>2 DEF Client!Progress
  <1>3. ComputeTypes'
    BY <1>0, <1>1, <1>2 DEF ComputeTypes, viewVars, taskVars
  <1>4. PageTypes' /\ LastOpeningWins'
    BY <1>0, <1>1 DEF PageTypes, LastOpeningWins, IInv, inputVars, loadVars, writeVars, draftVars
  <1>5. OneAtATime'
    BY <1>0, <1>1, <1>2 DEF OneAtATime, Bookkeeping, taskVars
  <1>6. TasksAreOfVersions'
    <2>1. inflight # NoTask => inflight \in Tasks
      BY <1>0 DEF ComputeTypes, Tasks, NoTask
    <2> QED
      BY <1>0, <1>1, <1>2, <2>1 DEF TasksAreOfVersions, Bookkeeping, taskVars, viewVars
  <1>7. ComputingIsOwed' /\ TaskIsOfThePage'
    BY <1>0, <1>1 DEF ComputingIsOwed, TaskIsOfThePage, Fresh, Bookkeeping, taskVars, viewVars, inputVars
  <1>8. FreshDescribesDeck' /\ FreshDescribesLibrary'
    BY <1>0, <1>1 DEF FreshDescribesDeck, FreshDescribesLibrary, Fresh, Bookkeeping, viewVars, inputVars
  <1> QED
    BY <1>3, <1>4, <1>5, <1>6, <1>7, <1>8, TypesSplitNext DEF IInv, Bookkeeping

\* A task of the version asked for is the one in flight; a cancelled one is not.
LEMMA ReactOk == IInv /\ Reactions => IInv'
  <1> SUFFICES ASSUME IInv, NEW t \in Tasks, React(t) PROVE IInv'
    BY DEF Reactions
  <1>0. ComputeTypes /\ PageTypes /\ Bookkeeping
    BY TypesSplit DEF IInv
  <1>1. /\ task[t] # NoModel
        /\ task' = [task EXCEPT ![t] = NoModel]
        /\ inflight' = IF inflight = t THEN NoTask ELSE inflight
        /\ UNCHANGED <<clientVars, inputVars, modelVersion, timer, loadVars, writeVars, starting,
                        draftVars, drift>>
    BY DEF React
  <1>2. task[t] \in Models /\ t # NoTask /\ task[t].version \in Nat /\ modelVersion \in Nat
    BY <1>0, <1>1, ModelFacts DEF ComputeTypes, Tasks, NoTask
  <1>3. task[t].version = modelVersion <=> inflight = t
    BY <1>0, <1>1, <1>2 DEF Bookkeeping, TasksAreOfVersions
  <1>4. inflight = t => promise[t] # "cancelled"
    BY <1>0, <1>2 DEF Bookkeeping, TasksAreOfVersions
  <1>5. inflight' # NoTask => inflight' = inflight /\ inflight # t
    BY <1>1
  <1>6. \/ inflight = t /\ Adopt(t)
        \/ inflight = t /\ Fail(t)
        \/ inflight # t /\ UNCHANGED <<result, stale, computing, failed>>
    BY <1>3, <1>4 DEF React, Adopt, Fail
  <1>7. ComputeTypes'
    <2>1. result' \in Models \cup {NoModel} /\ stale' \in BOOLEAN /\ computing' \in BOOLEAN
          /\ failed' \in BOOLEAN
      BY <1>0, <1>2, <1>6 DEF ComputeTypes, Adopt, Fail
    <2>2. inflight' \in 0..MaxVersions /\ task' \in [Tasks -> Models \cup {NoModel}]
      BY <1>0, <1>1, RecomputeAssumption DEF ComputeTypes, NoTask
    <2> QED
      BY <1>0, <1>1, <2>1, <2>2 DEF ComputeTypes, clientVars
  <1>8. PageTypes' /\ LastOpeningWins'
    BY <1>0, <1>1 DEF PageTypes, LastOpeningWins, IInv, inputVars, loadVars, writeVars, draftVars
  <1>9. OneAtATime'
    <2>1. promise[t] # "waiting"
      BY DEF React, Client!Settled
    <2> QED
      BY <1>0, <1>1, <2>1 DEF OneAtATime, Bookkeeping, clientVars
  <1>10. TasksAreOfVersions'
    <2>1. \A u \in Tasks : task'[u] # NoModel => u # t /\ task'[u] = task[u]
      BY <1>0, <1>1 DEF ComputeTypes
    <2>2. inflight' # NoTask => inflight' = inflight /\ inflight \in Tasks /\ task'[inflight] = task[inflight]
      BY <1>0, <1>1, <1>5 DEF ComputeTypes, Tasks, NoTask
    <2>3. \A u \in Tasks : u # t /\ u # inflight' => u # inflight
      BY <1>1
    <2> QED
      BY <1>0, <1>1, <2>1, <2>2, <2>3 DEF TasksAreOfVersions, Bookkeeping, clientVars
  <1>11. ComputingIsOwed'
    <2>1. CASE inflight = t
      <3>1. timer' = NoTimer /\ inflight' = NoTask
        BY <1>0, <1>1, <1>2, <2>1 DEF Bookkeeping, TasksAreOfVersions
      <3>2. computing' = FALSE /\ (stale' => failed')
        BY <1>6, <2>1 DEF Adopt, Fail
      <3> QED
        BY <3>1, <3>2 DEF ComputingIsOwed
    <2>2. CASE inflight # t
      BY <1>0, <1>1, <1>6, <2>2 DEF Bookkeeping, ComputingIsOwed, Fresh
    <2> QED
      BY <2>1, <2>2
  <1>12. TaskIsOfThePage'
    <2>1. inflight' # NoTask => task'[inflight'] = task[inflight]
      BY <1>0, <1>1, <1>5 DEF ComputeTypes, Tasks, NoTask
    <2> QED
      BY <1>0, <1>1, <1>5, <2>1 DEF TaskIsOfThePage, Bookkeeping, inputVars
  <1>13. FreshDescribesDeck' /\ FreshDescribesLibrary'
    <2>1. CASE inflight = t /\ Adopt(t)
      <3>1. result' = task[t]
        BY <2>1 DEF Adopt
      <3> QED
        BY <1>0, <1>1, <1>2, <2>1, <3>1
           DEF FreshDescribesDeck, FreshDescribesLibrary, Bookkeeping, TaskIsOfThePage, inputVars
    <2>2. CASE UNCHANGED <<result, stale>>
      BY <1>0, <1>1, <2>2 DEF FreshDescribesDeck, FreshDescribesLibrary, Fresh, Bookkeeping, inputVars
    <2> QED
      BY <1>6, <2>1, <2>2 DEF Fail
  <1> QED
    BY <1>7, <1>8, <1>9, <1>10, <1>11, <1>12, <1>13, TypesSplitNext DEF IInv, Bookkeeping

\* Steps of the page that open nothing.
LEMMA OpeningsStay ==
    ASSUME IInv, UNCHANGED <<deckId, opening, target, phase>> PROVE LastOpeningWins'
  BY DEF IInv, LastOpeningWins

LEMMA EditsOk ==
    ASSUME IInv, NEW c \in Locals, Edit(c) \/ Annotate(c) \/ ResumeDraft(c)
    PROVE  IInv'
  <1>0. ComputeTypes /\ PageTypes /\ Bookkeeping
    BY TypesSplit DEF IInv
  <1>1. /\ UNCHANGED <<deckId, library, loadVars, writeVars, starting>> /\ local' = c
    BY DEF Edit, Annotate, ResumeDraft
  <1>2. LastOpeningWins'
    BY <1>1, OpeningsStay DEF loadVars
  <1>3. CASE Edit(c) \/ ResumeDraft(c)
    <2>1. Invalidate(result) /\ drift' = drift
      BY <1>3 DEF Edit, ResumeDraft
    <2>2. ComputeTypes'
      BY <1>0, <2>1, InvalidateKeepsTypes DEF ComputeTypes
    <2>3. Bookkeeping'
      BY <1>0, <2>1, InvalidateKeeps
    <2>4. draft' \in BOOLEAN /\ draftCards' \in Decks \cup {NoDeck}
      BY <1>0, <1>3 DEF Edit, ResumeDraft, PageTypes, draftVars
    <2>5. PageTypes'
      BY <1>0, <1>1, <2>1, <2>4 DEF PageTypes, loadVars, writeVars
    <2> QED
      BY <1>2, <2>2, <2>3, <2>5, TypesSplitNext DEF IInv
  <1>4. CASE Annotate(c)
    <2>1. CalcIfChanged(Input')
      BY <1>1, <1>4 DEF Annotate, Input
    <2>2. ComputeTypes' /\ drift' \in BOOLEAN
      BY <1>0, <2>1, CalcKeepsTypes DEF PageTypes
    <2>3. Bookkeeping'
      BY <1>0, <1>1, <2>1, CalcKeeps
    <2>4. UNCHANGED draftVars
      BY <1>4 DEF Annotate
    <2>5. PageTypes'
      BY <1>0, <1>1, <2>2, <2>4 DEF PageTypes, loadVars, writeVars, draftVars
    <2> QED
      BY <1>2, <2>2, <2>3, <2>5, TypesSplitNext DEF IInv
  <1> QED
    BY <1>3, <1>4

LEMMA DraftCardsOk == IInv /\ DraftCardsAnswer => IInv'
  <1> SUFFICES ASSUME IInv, DraftCardsAnswer PROVE IInv'
    OBVIOUS
  <1>0. ComputeTypes /\ PageTypes /\ Bookkeeping
    BY TypesSplit DEF IInv
  <1>1. /\ draftCards' = NoDeck
        /\ UNCHANGED <<deckId, local, loadVars, writeVars, starting, draft, drift>>
        /\ \/ library' \in Libraries /\ Invalidate(result)
           \/ UNCHANGED <<library, viewVars, taskVars, clientVars>>
    BY DEF DraftCardsAnswer
  <1>2. LastOpeningWins'
    BY <1>1, OpeningsStay DEF loadVars
  <1>3. PageTypes'
    BY <1>0, <1>1 DEF PageTypes, loadVars, writeVars
  <1>4. CASE Invalidate(result)
    BY <1>0, <1>2, <1>3, <1>4, InvalidateKeeps, InvalidateKeepsTypes, TypesSplitNext
       DEF IInv, ComputeTypes
  <1>5. CASE UNCHANGED <<library, viewVars, taskVars, clientVars>>
    <2>1. ComputeTypes'
      BY <1>0, <1>5 DEF ComputeTypes, viewVars, taskVars, clientVars
    <2>2. Bookkeeping'
      BY <1>0, <1>1, <1>5, NothingComputed
    <2> QED
      BY <1>2, <1>3, <2>1, <2>2, TypesSplitNext DEF IInv
  <1> QED
    BY <1>1, <1>4, <1>5

\* A write is acknowledged in one of four ways; each keeps the library on the page
\* and the result together, or says that they have drifted.
LEMMA WriteAnswerOk == IInv /\ WriteAnswer => IInv'
  <1> SUFFICES ASSUME IInv, WriteAnswer PROVE IInv'
    OBVIOUS
  <1>0. ComputeTypes /\ PageTypes /\ Bookkeeping
    BY TypesSplit DEF IInv
  <1>1. /\ UNCHANGED <<deckId, local, opening, target, phase, starting, draftVars>>
        /\ writes \in 1..MaxWrites
    BY <1>0 DEF WriteAnswer, PageTypes
  <1>2. LastOpeningWins'
    BY <1>1, OpeningsStay
  <1>3. Dequeue => /\ writes' \in 0..MaxWrites /\ halfWritten' \in BOOLEAN
                   /\ ahead' \in [Openings -> 0..MaxWrites]
    <2> SUFFICES ASSUME Dequeue
                 PROVE  /\ writes' \in 0..MaxWrites /\ halfWritten' \in BOOLEAN
                        /\ ahead' \in [Openings -> 0..MaxWrites]
      OBVIOUS
    <2>1. writes - 1 \in 0..MaxWrites
      BY <1>1, RecomputeAssumption
    <2>2. \A o \in Openings : (IF ahead[o] > 0 THEN ahead[o] - 1 ELSE 0) \in 0..MaxWrites
      BY <1>0, RecomputeAssumption DEF PageTypes
    <2> QED
      BY <2>1, <2>2 DEF Dequeue
  <1>4. CASE AckAnnotation
    <2>1. /\ library' \in Libraries /\ CalcIfChanged(Input') /\ Dequeue
      BY <1>1, <1>4 DEF AckAnnotation, Input
    <2>2. ComputeTypes' /\ drift' \in BOOLEAN
      BY <1>0, <2>1, CalcKeepsTypes DEF PageTypes
    <2>3. Bookkeeping'
      BY <1>0, <1>1, <2>1, CalcKeeps
    <2>4. PageTypes'
      BY <1>0, <1>1, <1>3, <2>1, <2>2 DEF PageTypes, draftVars
    <2> QED
      BY <1>2, <2>2, <2>3, <2>4, TypesSplitNext DEF IInv
  <1>5. CASE AckShared
    <2>1. /\ library' \in Libraries /\ Invalidate(result) /\ Dequeue /\ drift' = drift
      BY <1>5 DEF AckShared
    <2>2. ComputeTypes'
      BY <1>0, <2>1, InvalidateKeepsTypes DEF ComputeTypes
    <2>3. Bookkeeping'
      BY <1>0, <2>1, InvalidateKeeps
    <2>4. PageTypes'
      BY <1>0, <1>1, <1>3, <2>1 DEF PageTypes, draftVars
    <2> QED
      BY <1>2, <2>2, <2>3, <2>4, TypesSplitNext DEF IInv
  <1>6. CASE AckLabel \/ WriteFails
    <2>1. /\ UNCHANGED <<viewVars, taskVars, clientVars>>
          /\ UNCHANGED <<library, drift>> \/ drift' = TRUE
      BY <1>6 DEF AckLabel, WriteFails
    <2>2. ComputeTypes'
      BY <1>0, <2>1 DEF ComputeTypes, viewVars, taskVars, clientVars
    <2>3. Bookkeeping'
      BY <1>0, <1>1, <2>1, NothingComputed
    <2>4. PageTypes'
      <3>1. CASE AckLabel
        BY <1>0, <1>1, <3>1 DEF PageTypes, draftVars, AckLabel
      <3>2. CASE WriteFails
        BY <1>0, <1>1, <1>3, <3>2 DEF PageTypes, draftVars, WriteFails
      <3> QED
        BY <1>6, <3>1, <3>2
    <2> QED
      BY <1>2, <2>2, <2>3, <2>4, TypesSplitNext DEF IInv
  <1> QED
    BY <1>4, <1>5, <1>6 DEF WriteAnswer

\* Steps that touch neither the result nor what is computed, and replace the library
\* only by saying so.
LEMMA QuietOk ==
    ASSUME IInv, PageTypes', LastOpeningWins',
           UNCHANGED <<viewVars, taskVars, clientVars, deckId, local>>,
           UNCHANGED <<library, drift>> \/ drift' = TRUE
    PROVE  IInv'
  <1>1. ComputeTypes' /\ Bookkeeping'
    BY TypesSplit, NothingComputed DEF IInv, ComputeTypes, viewVars, taskVars, clientVars
  <1> QED
    BY <1>1, TypesSplitNext DEF IInv

LEMMA WriteOk == IInv /\ Write => IInv'
  <1> SUFFICES ASSUME IInv, Write PROVE IInv'
    OBVIOUS
  <1>1. PageTypes /\ UNCHANGED <<clientVars, inputVars, viewVars, taskVars, loadVars, halfWritten,
                                starting, draftVars, drift>>
    BY TypesSplit DEF IInv, Write
  <1>2. writes' \in 0..MaxWrites
    BY <1>1, RecomputeAssumption DEF Write, PageTypes
  <1>3. PageTypes'
    BY <1>1, <1>2 DEF PageTypes, inputVars, loadVars, draftVars
  <1> QED
    BY <1>1, <1>3, OpeningsStay, QuietOk DEF inputVars, loadVars

LEMMA StartAnswerOk == IInv /\ StartAnswer => IInv'
  <1> SUFFICES ASSUME IInv, StartAnswer PROVE IInv'
    OBVIOUS
  <1>1. PageTypes /\ UNCHANGED <<clientVars, deckId, local, viewVars, taskVars, loadVars, writeVars,
                                draftVars>>
    BY TypesSplit DEF IInv, StartAnswer
  <1>2. /\ library' \in Libraries /\ drift' \in BOOLEAN /\ starting' = FALSE
        /\ UNCHANGED <<library, drift>> \/ drift' = TRUE
    BY <1>1 DEF StartAnswer, AdoptLibrary, PageTypes
  <1>3. PageTypes'
    BY <1>1, <1>2 DEF PageTypes, writeVars, loadVars, draftVars
  <1> QED
    BY <1>1, <1>2, <1>3, OpeningsStay, QuietOk DEF loadVars

LEMMA OpenOk == ASSUME IInv, NEW d \in Decks, Open(d) PROVE IInv'
  <1>1. PageTypes /\ UNCHANGED <<clientVars, inputVars, viewVars, taskVars, writeVars, starting,
                                draftVars, drift>>
    BY TypesSplit DEF IInv, Open
  <1>2. opening' = opening + 1 /\ opening' \in Openings
    BY <1>1, RecomputeAssumption DEF Open, PageTypes, Openings
  <1>3. /\ target' \in [Openings -> Decks \cup {NoDeck}] /\ ahead' \in [Openings -> 0..MaxWrites]
        /\ phase' \in [Openings -> Phases] /\ phase'[opening'] = "queue"
    BY <1>1, <1>2 DEF Open, To, PageTypes, Phases
  <1>4. PageTypes'
    BY <1>1, <1>2, <1>3 DEF PageTypes, inputVars, writeVars, draftVars, Openings
  <1>5. LastOpeningWins'
    BY <1>3 DEF LastOpeningWins
  <1> QED
    BY <1>1, <1>4, <1>5, QuietOk DEF inputVars

\* The answers of an opening, but that of its deck: none makes it wait for a draft.
LEMMA OpeningQuietOk ==
    ASSUME IInv, NEW o \in Openings,
           QueueEmpty(o) \/ LibraryAnswer(o) \/ DeckMute(o) \/ DraftAnswer(o)
    PROVE  IInv'
  <1>1. /\ PageTypes
        /\ UNCHANGED <<clientVars, deckId, local, viewVars, taskVars, opening, target, ahead,
                       writeVars, starting, draftCards>>
    BY TypesSplit DEF IInv, QueueEmpty, LibraryAnswer, DeckMute, DraftAnswer, inputVars, draftVars
  <1>2. PICK p \in Phases \ {"draft"} : phase' = [phase EXCEPT ![o] = p]
    BY DEF QueueEmpty, LibraryAnswer, DeckMute, DraftAnswer, To, Phases
  <1>3. /\ library' \in Libraries /\ drift' \in BOOLEAN
        /\ UNCHANGED <<library, drift>> \/ drift' = TRUE
    BY <1>1 DEF QueueEmpty, LibraryAnswer, DeckMute, DraftAnswer, inputVars, PageTypes
  <1>4. draft' \in BOOLEAN
    BY <1>1 DEF QueueEmpty, LibraryAnswer, DeckMute, DraftAnswer, draftVars, PageTypes
  <1>5. PageTypes'
    <2>1. phase' \in [Openings -> Phases]
      BY <1>1, <1>2 DEF PageTypes
    <2> QED
      BY <1>1, <1>3, <1>4, <2>1 DEF PageTypes, writeVars
  <1>6. LastOpeningWins'
    BY <1>1, <1>2 DEF LastOpeningWins, IInv, PageTypes, Openings
  <1> QED
    BY <1>1, <1>3, <1>5, <1>6, QuietOk

LEMMA DeckAnswerOk == ASSUME IInv, NEW o \in Openings, DeckAnswer(o) PROVE IInv'
  <1>0. ComputeTypes /\ PageTypes /\ Bookkeeping
    BY TypesSplit DEF IInv
  <1>1. /\ o = opening /\ deckId' = target[o] /\ local' \in Locals /\ draft' = FALSE
        /\ Invalidate(NoModel) /\ phase' = [phase EXCEPT ![o] = "draft"]
        /\ UNCHANGED <<library, opening, target, ahead, writeVars, starting, draftCards, drift>>
    BY DEF DeckAnswer, To
  <1>2. ComputeTypes' /\ Bookkeeping'
    BY <1>0, <1>1, InvalidateKeeps, InvalidateKeepsTypes
  <1>3. PageTypes'
    <2>1. phase' \in [Openings -> Phases] /\ deckId' \in Decks \cup {NoDeck}
      BY <1>0, <1>1 DEF PageTypes, Phases
    <2> QED
      BY <1>0, <1>1, <2>1 DEF PageTypes, writeVars
  <1>4. LastOpeningWins'
    BY <1>1 DEF LastOpeningWins
  <1> QED
    BY <1>2, <1>3, <1>4, TypesSplitNext DEF IInv

LEMMA NextOk == IInv /\ [Next]_vars => IInv'
  <1> SUFFICES ASSUME IInv, [Next]_vars PROVE IInv'
    OBVIOUS
  <1>1. CASE UNCHANGED vars
    <2>1. PageTypes' /\ LastOpeningWins'
      BY <1>1, TypesSplit
         DEF IInv, LastOpeningWins, PageTypes, vars, inputVars, loadVars, writeVars, draftVars
    <2> QED
      BY <1>1, <2>1, QuietOk DEF vars, inputVars
  <1>2. CASE Next
    BY <1>2, LaunchOk, EngineOk, ReactOk, EditsOk, DraftCardsOk, WriteOk, WriteAnswerOk,
       StartAnswerOk, OpenOk, OpeningQuietOk, DeckAnswerOk DEF Next
  <1> QED
    BY <1>1, <1>2

-----------------------------------------------------------------------------
(***************************************************************************)
(* Theorems                                                                *)
(***************************************************************************)

LEMMA Invariant == SafetySpec => []IInv
  BY InitOk, NextOk, PTL DEF SafetySpec

\* Whatever is edited, opened, written or answered, in any order: a result not marked
\* stale is of the deck, the content and (up to a drift) the library on the page, and
\* the deck on the page is that of the last opening (scheduleCompute, launchCompute,
\* loadDeck of deckStore.ts).
THEOREM PageIsOfItsDeckHolds == SafetySpec => []PageIsOfItsDeck
  <1>1. IInv => PageIsOfItsDeck
    BY DEF IInv, Bookkeeping, PageIsOfItsDeck
  <1> QED
    BY <1>1, Invariant, PTL

\* The page computes one version at a time, the one asked for (rule 2 of deckStore.ts);
\* a spinner is owed an answer, and a stale result a replacement or an error.
THEOREM WaitsForItsTaskHolds == SafetySpec => []WaitsForItsTask
  <1>1. ASSUME IInv PROVE WaitsForItsTask
    <2>1. OneTask
      <3> SUFFICES ASSUME NEW t \in Client!Waiting
                   PROVE  t = inflight /\ task[t].version = modelVersion /\ timer = NoTimer
        BY DEF OneTask
      <3>1. t \in Tasks /\ promise[t] = "waiting" /\ t # NoTask
        BY DEF Client!Waiting, Client!TaskIds, Tasks, NoTask
      <3> QED
        BY <1>1, <3>1 DEF IInv, Bookkeeping, OneAtATime, TasksAreOfVersions
    <2>2. SpinnerIsOwed
      BY <1>1 DEF IInv, Bookkeeping, TasksAreOfVersions, ComputingIsOwed, SpinnerIsOwed
    <2> QED
      BY <1>1, <2>1, <2>2 DEF IInv, WaitsForItsTask
  <1>2. IInv => WaitsForItsTask
    BY <1>1
  <1> QED
    BY <1>2, Invariant, PTL

\* The store drives its client by the client's own operations: what ComputeClient
\* promises an owner (Clients_proofs) is what the page relies on.
THEOREM ClientIsAService == SafetySpec => Client!SafetySpec
  <1>1. Init => Client!Init
    BY DEF Init
  <1>2. ASSUME IInv, [Next]_vars PROVE [Client!Next]_(Client!taskVars)
    <2> USE DEF Client!Next, Client!taskVars, clientVars
    <2>1. ASSUME NEW shown, Invalidate(shown) PROVE [Client!Next]_(Client!taskVars)
      <3>1. CASE inflight # NoTask /\ promise[inflight] = "waiting"
        <4>1. Client!Cancel(inflight) /\ inflight \in Client!TaskIds
          BY <1>2, <2>1, <3>1 DEF Invalidate, CancelInflight, Client!Cancel, Client!Waiting
        <4> QED
          BY <4>1
      <3>2. CASE ~(inflight # NoTask /\ promise[inflight] = "waiting")
        BY <2>1, <3>2 DEF Invalidate, CancelInflight
      <3> QED
        BY <3>1, <3>2
    <2>2. ASSUME NEW input, CalcIfChanged(input) PROVE [Client!Next]_(Client!taskVars)
      BY <2>1, <2>2 DEF CalcIfChanged
    <2>3. CASE Launch
      BY <2>3 DEF Launch
    <2>4. CASE Engine
      BY <2>4 DEF Engine
    <2>5. ASSUME NEW c \in Locals, Edit(c) \/ Annotate(c) \/ ResumeDraft(c)
          PROVE  [Client!Next]_(Client!taskVars)
      BY <2>1, <2>2, <2>5 DEF Edit, Annotate, ResumeDraft
    <2>6. CASE DraftCardsAnswer
      BY <2>1, <2>6 DEF DraftCardsAnswer
    <2>7. CASE WriteAnswer
      BY <2>1, <2>2, <2>7 DEF WriteAnswer, AckAnnotation, AckShared, AckLabel, WriteFails
    <2>8. ASSUME NEW o \in Openings, DeckAnswer(o) PROVE [Client!Next]_(Client!taskVars)
      BY <2>1, <2>8 DEF DeckAnswer
    <2>9. CASE UNCHANGED clientVars
      BY <2>9
    <2>10. Reactions \/ Write \/ StartAnswer \/ (\E d \in Decks : Open(d)) => UNCHANGED clientVars
      BY DEF Reactions, React, Write, StartAnswer, Open
    <2>11. ASSUME NEW o \in Openings,
                  QueueEmpty(o) \/ LibraryAnswer(o) \/ DeckMute(o) \/ DraftAnswer(o)
           PROVE  UNCHANGED clientVars
      BY <2>11 DEF QueueEmpty, LibraryAnswer, DeckMute, DraftAnswer
    <2> QED
      BY <1>2, <2>3, <2>4, <2>5, <2>6, <2>7, <2>8, <2>9, <2>10, <2>11 DEF Next, vars
  <1>3. IInv /\ [Next]_vars => [Client!Next]_(Client!taskVars)
    BY <1>2
  <1> QED
    BY <1>1, <1>3, Invariant, PTL DEF SafetySpec, Client!SafetySpec

=============================================================================
