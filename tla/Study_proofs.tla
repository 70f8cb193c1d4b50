---------------------------- MODULE Study_proofs ----------------------------
(***************************************************************************)
(* Proofs about the studied decks, the preview and the candidates, for any *)
(* opponents, engine inputs, completions and gestures.                     *)
(***************************************************************************)
EXTENDS Study, SequenceTheorems, FiniteSetTheorems, TLAPS

(***************************************************************************)
(* The inductive invariant                                                 *)
(***************************************************************************)

\* The base result not marked stale is of the base deck.
BaseInOrder == result # None /\ ~baseStale => result = base

\* What a position shows is of its own input, under its own opponent's name, unless
\* it is marked as old; its task runs while it computes.
StudiedInOrder(p) ==
    LET s == studied[p]
    IN  /\ s.result # None => s.result.opponent = s.opponent
        /\ s.result # None /\ ~s.stale => s.result.key = s.key
        /\ s.computing => s.key # None /\ running[s.key] # None
        /\ s.stale => s.computing \/ s.failed
        /\ s.key # None => s.opponent # None

\* What a synchronisation leaves of a position.
Synchronised(p) ==
    LET s == studied[p]
    IN  /\ s.opponent = study
        /\ s.reusesBase <=> study = None \/ plan[p] = base
        /\ study # None /\ plan[p] = NotReady => s.result = None /\ ~s.computing
        /\ s.key # None => s.key = plan[p]

PreviewInOrder ==
    /\ preview.affectsEngine => preview.kind = "ready" /\ preview.key = selected
    /\ preview.kind = "ready" => study # None /\ selected \in Keys
    /\ preview.key # None \/ preview.pass # None => preview.affectsEngine
    /\ preview.pass # None =>
         /\ preview.pass.opponent = study /\ preview.pass.position = context
         /\ ~preview.stale => preview.pass.key = preview.key
    /\ preview.computing => preview.key # None /\ preview.key \in {previewTimer, previewTask}
    /\ preview.stale => preview.computing \/ preview.failed
    /\ previewTimer # None => previewTask = None

\* The candidates at hand, what their figures are of and what is computed for them.
CandidatesInOrder ==
    /\ candidates.inputs \in {completions, {}}
    /\ candidates.inputs # {} => study # None
    /\ signature # None => signature.inputs = candidates.inputs
    /\ signature = None => waiting = <<>>
    /\ candidates.indicators \subseteq candidates.inputs
    /\ \A i \in 1..Len(waiting) : waiting[i] \in candidates.inputs

\* As long as the engine refuses none: the count of what is done and the tasks that
\* wait make up the candidates, and a figure that is missing is waited for.
CandidatesCounted ==
    ~refused =>
      /\ candidates.status # "running" => waiting = <<>>
      /\ candidates.status = "running" =>
           /\ waiting # <<>>
           /\ candidates.done + Len(waiting) = Cardinality(candidates.inputs)
           /\ \A k \in candidates.inputs \ candidates.indicators :
                 \E i \in 1..Len(waiting) : waiting[i] = k
      /\ candidates.status = "done" /\ ~candidates.failed =>
           candidates.indicators = candidates.inputs

PageTypes ==
    /\ base \in Keys /\ plan \in Plans
    /\ study \in OrNone(Opponents) /\ context \in Positions
    /\ selected \in Keys \cup {Nothing, Withheld} /\ completions \in Completions
    /\ gestures \in 0..MaxGestures

DeckTypes ==
    /\ result \in OrNone(Keys)
    /\ baseStale \in BOOLEAN /\ baseTimer \in BOOLEAN /\ baseTask \in BOOLEAN
    /\ studied \in [Positions -> StudiedResults]
    /\ timer \in BOOLEAN /\ running \in [Keys -> OrNone(Modes)]
    /\ resultCache \in [Keys -> SUBSET Modes] /\ passCache \subseteq Positions \X Keys

PreviewTypes ==
    /\ preview \in PreviewStates
    /\ previewTimer \in OrNone(Keys) /\ previewTask \in OrNone(Keys)

CandidateTypes ==
    /\ candidates \in CandidatesStates
    /\ signature \in OrNone(Signatures) /\ waiting \in Seq(Keys) /\ refused \in BOOLEAN

DecksInOrder ==
    /\ PageTypes /\ DeckTypes /\ BaseInOrder
    /\ \A p \in Positions : StudiedInOrder(p)
    /\ ~timer /\ ~baseTimer => \A p \in Positions : Synchronised(p)

IInv ==
    /\ DecksInOrder
    /\ PreviewTypes /\ PreviewInOrder
    /\ CandidateTypes /\ CandidatesInOrder /\ CandidatesCounted

LEMMA TypesSplit == TypeOK <=> PageTypes /\ DeckTypes /\ PreviewTypes /\ CandidateTypes
  BY DEF TypeOK, PageTypes, DeckTypes, PreviewTypes, CandidateTypes

\* An input is none of the marks that stand for none.
LEMMA MarkFacts ==
    /\ None \notin Keys /\ NotReady \notin Keys /\ Nothing \notin Keys /\ Withheld \notin Keys
    /\ None \notin Opponents /\ Nothing # Withheld /\ NotReady \notin {Nothing, Withheld}
  BY StudyAssumption

-----------------------------------------------------------------------------
(***************************************************************************)
(* The studied decks                                                       *)
(***************************************************************************)

LEMMA NoStudiedFacts ==
    /\ NoStudied \in StudiedResults
    /\ NoStudied.opponent = None /\ NoStudied.key = None /\ NoStudied.reusesBase = FALSE
    /\ NoStudied.result = None /\ NoStudied.computing = FALSE /\ NoStudied.stale = FALSE
    /\ NoStudied.failed = FALSE
  BY DEF NoStudied, StudiedResults, OrNone

LEMMA ReusingFacts ==
    /\ Reusing \in StudiedResults
    /\ Reusing.opponent = None /\ Reusing.key = None /\ Reusing.reusesBase = TRUE
    /\ Reusing.result = None /\ Reusing.computing = FALSE /\ Reusing.stale = FALSE
    /\ Reusing.failed = FALSE
  BY NoStudiedFacts DEF Reusing, StudiedResults

\* What a synchronisation makes of a position.
Fits(s, p) ==
    /\ s \in StudiedResults
    /\ s.opponent = study
    /\ s.result # None => s.result.opponent = study
    /\ s.result # None /\ ~s.stale => s.result.key = s.key
    /\ s.computing => s.key # None /\ "full" \notin resultCache[s.key]
    /\ s.stale => s.computing
    /\ s.reusesBase <=> study = None \/ plan[p] = base
    /\ study # None /\ plan[p] = NotReady => s.result = None /\ ~s.computing
    /\ s.key # None => s.key = plan[p] /\ study # None

LEMMA StudiedAfterFits ==
    ASSUME PageTypes, DeckTypes, \A q \in Positions : StudiedInOrder(q), NEW p \in Positions
    PROVE  Fits(StudiedAfter(p), p)
  <1> DEFINE k == plan[p]
  <1>0. base \in Keys /\ k \in Keys \cup {NotReady} /\ study \in OrNone(Opponents)
    BY DEF PageTypes, Plans
  <1>2. CASE study = None
    <2>1. StudiedAfter(p) = Reusing
      BY <1>2 DEF StudiedAfter
    <2> QED
      BY <1>2, <2>1, ReusingFacts DEF Fits
  <1>3. CASE study # None /\ k = NotReady
    <2>1. StudiedAfter(p) = [NoStudied EXCEPT !.opponent = study] /\ k # base
      BY <1>0, <1>3, MarkFacts DEF StudiedAfter
    <2> QED
      BY <1>0, <1>3, <2>1, NoStudiedFacts DEF Fits, StudiedResults
  <1>4. CASE study # None /\ k # NotReady /\ k = base
    <2>1. StudiedAfter(p) = [Reusing EXCEPT !.opponent = study]
      BY <1>4 DEF StudiedAfter
    <2> QED
      BY <1>0, <1>4, <2>1, ReusingFacts DEF Fits, StudiedResults
  <1>5. CASE study # None /\ k # NotReady /\ k # base
    <2> DEFINE asked == [NoStudied EXCEPT !.opponent = study, !.key = k]
    <2>0. k \in Keys /\ k # None /\ study \in Opponents
      BY <1>0, <1>5, MarkFacts DEF OrNone
    <2>1. /\ asked \in StudiedResults /\ asked.opponent = study /\ asked.key = k
          /\ asked.reusesBase = FALSE /\ asked.stale = FALSE
      BY <2>0, NoStudiedFacts DEF StudiedResults, OrNone
    <2>2. StudiedAfter(p) = IF resultCache[k] # {}
                THEN [asked EXCEPT !.result = [key |-> k, opponent |-> study],
                                   !.computing = "full" \notin resultCache[k]]
                ELSE [asked EXCEPT !.result = Kept(p), !.computing = TRUE,
                                   !.stale = Kept(p) # None]
      BY <1>5 DEF StudiedAfter
    <2> HIDE DEF asked
    <2>3. CASE resultCache[k] # {}
      <3> DEFINE r == [key |-> k, opponent |-> study]
                 c == "full" \notin resultCache[k]
      <3>1. r \in Results /\ r.key = k /\ r.opponent = study /\ c \in BOOLEAN
        BY <2>0 DEF Results
      <3>2. StudiedAfter(p) = [asked EXCEPT !.result = r, !.computing = c]
        BY <2>2, <2>3
      <3>3. c => "full" \notin resultCache[k]
        OBVIOUS
      <3> HIDE DEF r, c
      <3>4. /\ StudiedAfter(p) \in StudiedResults
            /\ StudiedAfter(p).opponent = study /\ StudiedAfter(p).key = k
            /\ StudiedAfter(p).reusesBase = FALSE /\ StudiedAfter(p).stale = FALSE
            /\ StudiedAfter(p).result = r /\ StudiedAfter(p).computing = c
        BY <2>1, <3>1, <3>2 DEF StudiedResults, OrNone
      <3> QED
        BY <1>5, <2>0, <3>1, <3>3, <3>4 DEF Fits
    <2>4. CASE resultCache[k] = {}
      <3> DEFINE r == Kept(p)
                 old == r # None
      <3>1. /\ r \in OrNone(Results) /\ (r # None => r.opponent = study)
            /\ old \in BOOLEAN /\ (old <=> r # None)
        BY DEF Kept, DeckTypes, StudiedResults, StudiedInOrder, OrNone
      <3>2. StudiedAfter(p) = [asked EXCEPT !.result = r, !.computing = TRUE, !.stale = old]
        BY <2>2, <2>4
      <3> HIDE DEF r, old
      <3>3. /\ StudiedAfter(p) \in StudiedResults
            /\ StudiedAfter(p).opponent = study /\ StudiedAfter(p).key = k
            /\ StudiedAfter(p).reusesBase = FALSE /\ StudiedAfter(p).stale = old
            /\ StudiedAfter(p).result = r /\ StudiedAfter(p).computing = TRUE
        BY <2>1, <3>1, <3>2 DEF StudiedResults
      <3> QED
        BY <1>5, <2>0, <2>4, <3>1, <3>3 DEF Fits
    <2> QED
      BY <2>3, <2>4
  <1> QED
    BY <1>2, <1>3, <1>4, <1>5

\* A synchronisation leaves every position of the deck and of the opponent on the
\* page, with its task.
LEMMA SyncStudiedOk ==
    ASSUME DecksInOrder, SyncStudied, UNCHANGED <<base, plan, study, resultCache>>
    PROVE  /\ studied' \in [Positions -> StudiedResults] /\ running' \in [Keys -> OrNone(Modes)]
           /\ timer' = FALSE
           /\ \A p \in Positions : StudiedInOrder(p)' /\ Synchronised(p)'
  <1>0. PageTypes /\ DeckTypes /\ \A p \in Positions : StudiedInOrder(p)
    BY DEF DecksInOrder
  <1>1. /\ studied' = [p \in Positions |-> StudiedAfter(p)]
        /\ running' = [k \in Keys |-> RunningAfter(k)] /\ timer' = FALSE
    BY DEF SyncStudied
  <1>2. studied' \in [Positions -> StudiedResults]
    <2>1. \A p \in Positions : StudiedAfter(p) \in StudiedResults
      BY <1>0, StudiedAfterFits DEF Fits
    <2> QED
      BY <1>1, <2>1
  <1>3. running' \in [Keys -> OrNone(Modes)]
    BY <1>0, <1>1 DEF RunningAfter, DeckTypes, OrNone, Modes
  <1>4. ASSUME NEW p \in Positions PROVE StudiedInOrder(p)' /\ Synchronised(p)'
    <2> DEFINE s == StudiedAfter(p)
    <2>1. studied'[p] = s
      BY <1>1
    <2>2. Fits(s, p)
      BY <1>0, StudiedAfterFits
    <2> HIDE DEF s
    <2>3. ASSUME s.computing PROVE running'[s.key] # None
      <3>1. s.key \in Keys /\ "full" \notin resultCache[s.key] /\ studied'[p].key = s.key
        BY <2>1, <2>2, <2>3 DEF Fits, StudiedResults, OrNone
      <3>2. running'[s.key] = RunningAfter(s.key)
        BY <1>1, <3>1
      <3>3. RunningAfter(s.key) # None
        BY <3>1, NoneAssumption DEF RunningAfter, Modes
      <3> QED
        BY <3>2, <3>3
    <2>4. StudiedInOrder(p)'
      BY <2>1, <2>2, <2>3 DEF Fits, StudiedInOrder
    <2>5. Synchronised(p)'
      BY <2>1, <2>2 DEF Fits, Synchronised
    <2> QED
      BY <2>4, <2>5
  <1> QED
    BY <1>1, <1>2, <1>3, <1>4

\* A base deck's answer is of the base deck; a studied deck's, of the input awaited.
LEMMA BaseAnswerOk ==
    ASSUME DecksInOrder, BaseAnswer
    PROVE  DecksInOrder'
  <1>0. PageTypes /\ DeckTypes /\ \A p \in Positions : StudiedInOrder(p)
    BY DEF DecksInOrder
  <1>1. /\ baseTask' = FALSE /\ result' = base /\ baseStale' = FALSE
        /\ UNCHANGED <<base, plan, study, context, selected, completions, gestures, baseTimer,
                       studied, timer, running, resultCache, passCache>>
    BY DEF BaseAnswer, pageVars, deckVars, studiedVars, cacheVars
  <1>2. PageTypes' /\ DeckTypes' /\ BaseInOrder'
    BY <1>0, <1>1 DEF PageTypes, DeckTypes, BaseInOrder, OrNone
  <1>3. ASSUME NEW p \in Positions
        PROVE  StudiedInOrder(p)' /\ (Synchronised(p)' <=> Synchronised(p))
    BY <1>0, <1>1 DEF StudiedInOrder, Synchronised
  <1> QED
    BY <1>1, <1>2, <1>3 DEF DecksInOrder

LEMMA SyncsOk ==
    ASSUME DecksInOrder, LaunchBase \/ TimerFires
    PROVE  DecksInOrder'
  <1>0. PageTypes /\ DeckTypes
    BY DEF DecksInOrder
  <1>1. /\ SyncStudied
        /\ UNCHANGED <<base, plan, study, context, selected, completions, gestures, result, baseStale,
                       resultCache, passCache>>
        /\ baseTimer' \in BOOLEAN /\ baseTask' \in BOOLEAN
    BY <1>0 DEF LaunchBase, TimerFires, pageVars, deckVars, baseVars, cacheVars, DeckTypes
  <1>2. /\ studied' \in [Positions -> StudiedResults] /\ running' \in [Keys -> OrNone(Modes)]
        /\ timer' = FALSE
        /\ \A p \in Positions : StudiedInOrder(p)' /\ Synchronised(p)'
    BY <1>1, SyncStudiedOk
  <1>3. PageTypes' /\ DeckTypes' /\ BaseInOrder'
    BY <1>0, <1>1, <1>2 DEF DecksInOrder, PageTypes, DeckTypes, BaseInOrder
  <1> QED
    BY <1>2, <1>3 DEF DecksInOrder

LEMMA RememberTypes ==
    ASSUME DeckTypes, NEW passes \in SUBSET (Positions \X Keys), RememberPasses(passes)
    PROVE  passCache' \subseteq Positions \X Keys
  BY DEF DeckTypes, RememberPasses

LEMMA StudiedAnswerOk ==
    ASSUME DecksInOrder, NEW k \in Keys, StudiedAnswer(k)
    PROVE  DecksInOrder'
  <1>0. PageTypes /\ DeckTypes /\ \A p \in Positions : StudiedInOrder(p)
    BY DEF DecksInOrder
  <1> DEFINE mode == running[k]
             computes == mode = "passes"
             answer(p) == [key |-> k, opponent |-> studied[p].opponent]
  <1>1. /\ mode \in Modes /\ Adopt(k, mode) /\ RememberResult(k, mode)
        /\ running' = [running EXCEPT ![k] = NextMode(k)]
        /\ UNCHANGED <<base, plan, study, context, selected, completions, gestures, result, baseStale,
                       baseTimer, baseTask, timer>>
    BY <1>0 DEF StudiedAnswer, pageVars, deckVars, baseVars, DeckTypes, OrNone
  <1>2. ASSUME NEW p \in Positions, studied[p].key = k
        PROVE  /\ studied'[p] \in StudiedResults
               /\ studied'[p].opponent = studied[p].opponent /\ studied'[p].key = k
               /\ studied'[p].reusesBase = studied[p].reusesBase
               /\ studied'[p].result = answer(p) /\ studied'[p].computing = computes
               /\ studied'[p].stale = FALSE
    <2>1. studied'[p] = [studied[p] EXCEPT !.result = answer(p), !.computing = computes,
                                           !.stale = FALSE, !.failed = FALSE]
      BY <1>1, <1>2 DEF Adopt, Awaiting
    <2>2. studied[p].opponent \in OrNone(Opponents) /\ studied[p] \in StudiedResults
      BY <1>0 DEF DeckTypes, StudiedResults
    <2>3. computes \in BOOLEAN
      OBVIOUS
    <2> HIDE DEF computes
    <2>4. answer(p) \in OrNone(Results)
      <3>1. studied[p].opponent \in Opponents
        BY <1>0, <1>2, <2>2, MarkFacts DEF OrNone, StudiedInOrder
      <3> QED
        BY <3>1 DEF Results, OrNone
    <2> HIDE DEF answer
    <2> QED
      BY <1>2, <2>1, <2>2, <2>3, <2>4 DEF StudiedResults
  <1>3. ASSUME NEW p \in Positions, studied[p].key # k PROVE studied'[p] = studied[p]
    BY <1>1, <1>3 DEF Adopt, Awaiting
  <1> HIDE DEF answer
  <1>4. studied' \in [Positions -> StudiedResults]
    <2>1. \A p \in Positions : studied'[p] \in StudiedResults
      BY <1>0, <1>2, <1>3 DEF DeckTypes
    <2>2. studied' = [p \in Positions |-> studied'[p]]
      BY <1>1 DEF Adopt
    <2> QED
      BY <2>1, <2>2
  <1>5. /\ running' \in [Keys -> OrNone(Modes)]
        /\ \A j \in Keys \ {k} : running'[j] = running[j]
        /\ computes /\ (\E p \in Positions : studied[p].key = k) => running'[k] # None
    <2>1. NextMode(k) \in OrNone(Modes)
      BY DEF NextMode, OrNone, Modes
    <2>2. computes /\ (\E p \in Positions : studied[p].key = k) => NextMode(k) # None
      BY NoneAssumption DEF NextMode, Awaiting, Modes
    <2> QED
      BY <1>0, <1>1, <2>1, <2>2 DEF DeckTypes
  <1>6. resultCache' \in [Keys -> SUBSET Modes]
    <2>1. PICK gone : resultCache' = [j \in Keys |-> IF j = k THEN resultCache[j] \cup {mode}
                                     ELSE IF j = gone THEN {} ELSE resultCache[j]]
      BY <1>1 DEF RememberResult
    <2>2. \A j \in Keys : (IF j = k THEN resultCache[j] \cup {mode}
                           ELSE IF j = gone THEN {} ELSE resultCache[j]) \in SUBSET Modes
      BY <1>0, <1>1 DEF DeckTypes
    <2> QED
      BY <2>1, <2>2
  <1>7. passCache' \subseteq Positions \X Keys
    <2> DEFINE passes == {<<p, k>> : p \in Awaiting(k)}
    <2>1. RememberPasses(passes)
      BY <1>1 DEF Adopt
    <2>2. Awaiting(k) \subseteq Positions
      BY DEF Awaiting
    <2>3. passes \in SUBSET (Positions \X Keys)
      BY <2>2
    <2> QED
      BY <1>0, <2>1, <2>3, RememberTypes
  <1>8. PageTypes' /\ DeckTypes' /\ BaseInOrder'
    BY <1>0, <1>1, <1>4, <1>5, <1>6, <1>7 DEF DecksInOrder, PageTypes, DeckTypes, BaseInOrder
  <1>9. ASSUME NEW p \in Positions PROVE StudiedInOrder(p)'
    <2>1. CASE studied[p].key = k
      <3>1. answer(p).key = k /\ answer(p).opponent = studied[p].opponent
        BY DEF answer
      <3>2. k # None
        BY MarkFacts
      <3>3. studied[p].opponent # None
        BY <1>0, <2>1, <3>2 DEF StudiedInOrder
      <3> QED
        BY <1>2, <1>5, <2>1, <3>1, <3>2, <3>3 DEF StudiedInOrder
    <2>2. CASE studied[p].key # k
      <3>1. StudiedInOrder(p) /\ studied[p].key \in OrNone(Keys)
        BY <1>0 DEF DeckTypes, StudiedResults
      <3> QED
        BY <1>3, <1>5, <2>2, <3>1 DEF StudiedInOrder, OrNone
    <2> QED
      BY <2>1, <2>2
  <1>10. ASSUME NEW p \in Positions, Synchronised(p) PROVE Synchronised(p)'
    <2>1. CASE studied[p].key = k
      <3>1. k # None /\ k # NotReady /\ plan[p] = k
        BY <1>10, <2>1, MarkFacts DEF Synchronised
      <3> QED
        BY <1>1, <1>2, <1>10, <2>1, <3>1 DEF Synchronised
    <2>2. CASE studied[p].key # k
      BY <1>1, <1>3, <1>10, <2>2 DEF Synchronised
    <2> QED
      BY <2>1, <2>2
  <1> QED
    BY <1>1, <1>8, <1>9, <1>10 DEF DecksInOrder

LEMMA MainFailsOk ==
    ASSUME DecksInOrder, MainFails
    PROVE  DecksInOrder'
  <1>0. PageTypes /\ DeckTypes /\ \A p \in Positions : StudiedInOrder(p)
    BY DEF DecksInOrder
  <1>1. PICK lost \in SUBSET {k \in Keys : running[k] # None} :
           /\ studied' = [p \in Positions |->
                            IF studied[p].key \in lost
                              THEN [studied[p] EXCEPT !.computing = FALSE, !.failed = TRUE]
                              ELSE studied[p]]
           /\ running' = [k \in Keys |-> IF k \in lost THEN None ELSE running[k]]
    BY DEF MainFails
  <1>2. /\ baseTask' \in BOOLEAN
        /\ UNCHANGED <<base, plan, study, context, selected, completions, gestures, result, baseStale,
                       baseTimer, timer, resultCache, passCache>>
    BY DEF MainFails, pageVars, deckVars, cacheVars
  <1>3. ASSUME NEW p \in Positions
        PROVE  /\ studied'[p] \in StudiedResults
               /\ studied'[p].opponent = studied[p].opponent /\ studied'[p].key = studied[p].key
               /\ studied'[p].reusesBase = studied[p].reusesBase
               /\ studied'[p].result = studied[p].result /\ studied'[p].stale = studied[p].stale
               /\ studied[p].key \in lost => studied'[p].computing = FALSE /\ studied'[p].failed = TRUE
               /\ studied[p].key \notin lost => studied'[p] = studied[p]
    BY <1>0, <1>1 DEF DeckTypes, StudiedResults
  <1>4. studied' \in [Positions -> StudiedResults] /\ running' \in [Keys -> OrNone(Modes)]
    <2>1. studied' \in [Positions -> StudiedResults]
      BY <1>1, <1>3
    <2>2. running' \in [Keys -> OrNone(Modes)]
      BY <1>0, <1>1 DEF DeckTypes, OrNone
    <2> QED
      BY <2>1, <2>2
  <1>5. PageTypes' /\ DeckTypes' /\ BaseInOrder'
    BY <1>0, <1>2, <1>4 DEF DecksInOrder, PageTypes, DeckTypes, BaseInOrder
  <1>6. ASSUME NEW p \in Positions PROVE StudiedInOrder(p)'
    <2>1. studied[p].key \in OrNone(Keys) /\ StudiedInOrder(p)
      BY <1>0 DEF DeckTypes, StudiedResults
    <2>2. studied[p].key \notin lost /\ studied[p].key # None =>
            running'[studied[p].key] = running[studied[p].key]
      BY <1>1, <2>1 DEF OrNone
    <2> QED
      BY <1>3, <2>1, <2>2 DEF StudiedInOrder
  <1>7. ASSUME NEW p \in Positions, Synchronised(p) PROVE Synchronised(p)'
    BY <1>2, <1>3, <1>7 DEF Synchronised
  <1> QED
    BY <1>2, <1>5, <1>6, <1>7 DEF DecksInOrder

-----------------------------------------------------------------------------
(***************************************************************************)
(* The preview                                                             *)
(***************************************************************************)

PreviewOk == PreviewTypes /\ PreviewInOrder

LEMMA NoPreviewFacts ==
    /\ NoPreview \in PreviewStates
    /\ NoPreview.kind = "none" /\ NoPreview.affectsEngine = FALSE /\ NoPreview.key = None
    /\ NoPreview.pass = None /\ NoPreview.computing = FALSE /\ NoPreview.stale = FALSE
    /\ NoPreview.failed = FALSE
  BY DEF NoPreview, PreviewStates, OrNone

LEMMA ReadyFacts ==
    ASSUME NEW k \in Keys
    PROVE  /\ Ready(k) \in PreviewStates
           /\ Ready(k).kind = "ready" /\ Ready(k).affectsEngine = TRUE /\ Ready(k).key = k
           /\ Ready(k).pass = None /\ Ready(k).computing = FALSE /\ Ready(k).stale = FALSE
           /\ Ready(k).failed = FALSE
  BY NoPreviewFacts DEF Ready, PreviewStates, OrNone

\* A pass known for an input is of that input.
LEMMA KnownPassNext ==
    ASSUME DecksInOrder', NEW p \in Positions, NEW k \in Keys
    PROVE  KnownPass(p, k)' \in {k, None}
  BY DEF DecksInOrder, BaseInOrder, StudiedInOrder, KnownPass

\* What the preview is after a synchronisation, for the selection on the page.
PreviewFits(v, before) ==
    /\ v \in PreviewStates
    /\ v.affectsEngine => v.kind = "ready" /\ v.key = selected
    /\ v.kind = "ready" => study # None /\ selected \in Keys
    /\ v.key # None \/ v.pass # None => v.affectsEngine
    /\ v.pass # None =>
         /\ v.pass = before \/ (v.pass.opponent = study /\ v.pass.position = context)
         /\ ~v.stale => v.pass.key = v.key
    /\ v.computing => v.key # None
    /\ v.stale => v.computing

LEMMA PreviewAfterNext ==
    ASSUME DecksInOrder', NEW before \in OrNone(Passes)
    PROVE  PreviewFits(PreviewAfter(before), before)'
  <1> DEFINE v == PreviewAfter(before)'
  <1> USE DEF PreviewFits
  <1>0. /\ study' \in OrNone(Opponents) /\ context' \in Positions
        /\ selected' \in Keys \cup {Nothing, Withheld} /\ plan'[context'] \in Keys \cup {NotReady}
    BY DEF DecksInOrder, PageTypes, Plans
  <1>1. CASE study' = None \/ selected' = Nothing
    <2>1. v = NoPreview
      BY <1>0, <1>1, MarkFacts DEF PreviewAfter
    <2> QED
      BY <2>1, NoPreviewFacts
  <1>2. CASE study' # None /\ selected' = Withheld
    <2>1. v = [NoPreview EXCEPT !.kind = "withheld"]
      BY <1>0, <1>2, MarkFacts DEF PreviewAfter
    <2> QED
      BY <2>1, NoPreviewFacts DEF PreviewStates
  <1>3. CASE study' # None /\ selected' \in Keys /\ selected' = plan'[context']
    <2>1. v = [NoPreview EXCEPT !.kind = "ready"]
      BY <1>0, <1>3, MarkFacts DEF PreviewAfter
    <2> QED
      BY <1>3, <2>1, NoPreviewFacts DEF PreviewStates
  <1>4. CASE study' # None /\ selected' \in Keys /\ selected' # plan'[context']
    <2> DEFINE k == selected'
               known == KnownPass(context, selected)'
               pass == [key |-> known, opponent |-> study', position |-> context']
               old == before # None
    <2>1. v = IF known # None THEN [Ready(k) EXCEPT !.pass = pass]
              ELSE [Ready(k) EXCEPT !.computing = TRUE, !.pass = before, !.stale = old]
      BY <1>4, MarkFacts DEF PreviewAfter, Previewed, Outdated, Ready
    <2>2. known \in {k, None} /\ k # None /\ study' \in Opponents
      BY <1>0, <1>4, KnownPassNext, MarkFacts DEF OrNone
    <2>3. old \in BOOLEAN /\ (old <=> before # None)
      OBVIOUS
    <2>4. known # None => pass \in OrNone(Passes) /\ pass.key = k /\ pass.opponent = study'
                           /\ pass.position = context'
      BY <1>0, <1>4, <2>2 DEF Passes, OrNone
    <2> HIDE DEF v, known, pass, old
    <2>5. CASE known # None
      <3>1. v = [Ready(k) EXCEPT !.pass = pass]
        BY <2>1, <2>5
      <3>2. /\ v \in PreviewStates /\ v.kind = "ready" /\ v.affectsEngine = TRUE /\ v.key = k
            /\ v.pass = pass /\ v.computing = FALSE /\ v.stale = FALSE
        BY <1>4, <2>4, <2>5, <3>1, ReadyFacts DEF PreviewStates
      <3> QED
        BY <1>4, <2>2, <2>4, <2>5, <3>2 DEF v
    <2>6. CASE known = None
      <3>1. v = [Ready(k) EXCEPT !.computing = TRUE, !.pass = before, !.stale = old]
        BY <2>1, <2>6
      <3>2. /\ v \in PreviewStates /\ v.kind = "ready" /\ v.affectsEngine = TRUE /\ v.key = k
            /\ v.pass = before /\ v.computing = TRUE /\ v.stale = old
        BY <1>4, <2>3, <3>1, ReadyFacts DEF PreviewStates
      <3> QED
        BY <1>4, <2>2, <2>3, <3>2 DEF v
    <2> QED
      BY <2>5, <2>6
  <1> QED
    BY <1>0, <1>1, <1>2, <1>3, <1>4

\* A preview is synchronised with every gesture that changes what it is of; the
\* opponent and the position change only when the selection is dropped.
LEMMA SyncPreviewOk ==
    ASSUME PreviewOk, DecksInOrder', SyncPreview,
           UNCHANGED <<study, context>> \/ selected' = Nothing
    PROVE  PreviewOk'
  <1>1. PICK before \in {preview.pass} : preview' = PreviewAfter(before)'
    BY DEF SyncPreview
  <1>2. before \in OrNone(Passes) /\ (before # None => before.opponent = study /\ before.position = context)
    BY DEF PreviewOk, PreviewTypes, PreviewInOrder, PreviewStates
  <1>3. PreviewFits(PreviewAfter(before), before)'
    BY <1>2, PreviewAfterNext
  <1>4. previewTimer' = (IF preview'.computing THEN preview'.key ELSE None) /\ previewTask' = None
    BY DEF SyncPreview
  <1>5. /\ preview' \in PreviewStates
        /\ preview'.affectsEngine => preview'.kind = "ready" /\ preview'.key = selected'
        /\ preview'.kind = "ready" => study' # None /\ selected' \in Keys
        /\ preview'.key # None \/ preview'.pass # None => preview'.affectsEngine
        /\ preview'.pass # None =>
             /\ preview'.pass = before \/ (preview'.pass.opponent = study' /\ preview'.pass.position = context')
             /\ ~preview'.stale => preview'.pass.key = preview'.key
        /\ preview'.computing => preview'.key # None
        /\ preview'.stale => preview'.computing
    BY <1>1, <1>3 DEF PreviewFits
  <1>6. ASSUME preview'.pass # None
        PROVE  preview'.pass.opponent = study' /\ preview'.pass.position = context'
    <2>1. preview'.kind = "ready" /\ selected' # Nothing
      BY <1>5, <1>6, MarkFacts
    <2> QED
      BY <1>2, <1>5, <1>6, <2>1
  <1>7. previewTimer' \in OrNone(Keys) /\ previewTask' \in OrNone(Keys)
    BY <1>4, <1>5 DEF PreviewStates, OrNone
  <1> QED
    BY <1>4, <1>5, <1>6, <1>7 DEF PreviewOk, PreviewTypes, PreviewInOrder

-----------------------------------------------------------------------------
(***************************************************************************)
(* The candidates                                                          *)
(***************************************************************************)

CandidatesOk == CandidateTypes /\ CandidatesInOrder /\ CandidatesCounted

LEMMA CompletionFacts ==
    ASSUME NEW inputs \in Completions, NEW S \in SUBSET inputs
    PROVE  /\ inputs \subseteq Keys /\ IsFiniteSet(inputs) /\ IsFiniteSet(S)
           /\ Cardinality(S) \in Nat /\ Cardinality(inputs) \in Nat
           /\ Cardinality(inputs \ S) = Cardinality(inputs) - Cardinality(S)
  <1>1. inputs \in SUBSET Keys
    BY StudyAssumption
  <1>2. IsFiniteSet(inputs)
    BY <1>1, StudyAssumption, FS_Subset
  <1>3. IsFiniteSet(S) /\ inputs \cap S = S
    BY <1>2, FS_Subset
  <1>4. Cardinality(inputs \ S) = Cardinality(inputs) - Cardinality(inputs \cap S)
    BY <1>2, FS_Difference
  <1> QED
    BY <1>1, <1>2, <1>3, <1>4, FS_CardinalityType

\* An order of a set has each of its elements, and nothing more.
LEMMA OrderFacts ==
    ASSUME NEW S, IsFiniteSet(S), NEW order \in SetToSeqs(S)
    PROVE  /\ order \in Seq(S) /\ Len(order) = Cardinality(S)
           /\ \A k \in S : \E i \in 1..Len(order) : order[i] = k
  <1> DEFINE n == Cardinality(S)
  <1>1. n \in Nat
    BY FS_CardinalityType
  <1>2. order \in [1..n -> S] /\ \A i, j \in 1..n : i # j => order[i] # order[j]
    BY DEF SetToSeqs
  <1>3. order \in Seq(S) /\ Len(order) = n
    BY <1>1, <1>2
  <1>4. order \in Injection(1..n, S)
    BY <1>2 DEF Injection, IsInjective
  <1>5. Cardinality(1..n) = n
    <2>1. 1 \in Int /\ n \in Int
      BY <1>1
    <2> QED
      BY <1>1, <2>1, FS_Interval
  <1>6. order \in Surjection(1..n, S)
    BY <1>4, <1>5, FS_Injection
  <1> QED
    BY <1>3, <1>6 DEF Surjection

\* Candidates are judged again with every gesture: none, those at hand, or others.
LEMMA SyncCandidatesOk ==
    ASSUME CandidatesOk, PageTypes', NEW manual \in BOOLEAN, SyncCandidates(manual)
    PROVE  CandidatesOk'
  <1>0. CandidateTypes /\ CandidatesInOrder /\ CandidatesCounted
    BY DEF CandidatesOk
  <1>1. /\ completions' \in Completions /\ completions' \in SUBSET Keys
        /\ KnownCandidates' \in SUBSET completions'
    BY StudyAssumption DEF PageTypes, KnownCandidates
  <1>2. CASE CandidatesNone
    <2>1. candidates' = NoCandidates /\ signature' = None /\ waiting' = <<>> /\ refused' = FALSE
      BY <1>2 DEF CandidatesNone
    <2>2. /\ NoCandidates \in CandidatesStates /\ NoCandidates.inputs = {}
          /\ NoCandidates.indicators = {} /\ NoCandidates.status = "none"
      BY DEF NoCandidates, CandidatesStates
    <2>3. CandidateTypes'
      <3>1. <<>> \in Seq(Keys)
        BY EmptySeq
      <3> QED
        BY <2>1, <2>2, <3>1 DEF CandidateTypes, OrNone
    <2>4. CandidatesInOrder' /\ CandidatesCounted'
      BY <2>1, <2>2 DEF CandidatesInOrder, CandidatesCounted
    <2> QED
      BY <2>3, <2>4 DEF CandidatesOk
  <1> DEFINE new == [position |-> context', inputs |-> completions']
  <1>3. NewSignature' = new /\ new \in Signatures /\ new # None /\ new.inputs = completions'
    BY <1>1, NoneAssumption DEF NewSignature, Signatures, PageTypes
  <1> HIDE DEF new
  <1>4. CASE CandidatesGoOn
    <2>1. /\ study' # None /\ signature = new /\ candidates.status = "running"
          /\ candidates' = [candidates EXCEPT !.indicators = @ \cup KnownCandidates']
          /\ signature' = signature /\ waiting' = waiting /\ refused' = refused
      BY <1>3, <1>4 DEF CandidatesGoOn
    <2>2. candidates.inputs = completions'
      BY <1>0, <1>3, <2>1 DEF CandidatesInOrder
    <2>3. /\ candidates' \in CandidatesStates
          /\ candidates'.inputs = completions' /\ candidates'.status = "running"
          /\ candidates'.indicators = candidates.indicators \cup KnownCandidates'
          /\ candidates'.done = candidates.done
      BY <1>0, <1>1, <2>1, <2>2 DEF CandidateTypes, CandidatesStates
    <2>4. CandidateTypes'
      BY <1>0, <2>1, <2>3 DEF CandidateTypes
    <2>5. CandidatesInOrder'
      BY <1>0, <1>1, <1>3, <2>1, <2>2, <2>3 DEF CandidatesInOrder
    <2>6. CandidatesCounted'
      BY <1>0, <2>1, <2>2, <2>3 DEF CandidatesCounted
    <2> QED
      BY <2>4, <2>5, <2>6 DEF CandidatesOk
  <1>5. CASE CandidatesStart(manual)
    <2> DEFINE kept == IF signature = new THEN waiting ELSE <<>>
               known == KnownCandidates'
               unknown == completions' \ known
    <2>1. PICK launched \in {manual, TRUE}, order \in SetToSeqs(unknown) :
            /\ candidates' = [status |-> IF unknown = {} THEN "done"
                                         ELSE IF launched THEN "running" ELSE "pending",
                              inputs |-> completions', failed |-> FALSE,
                              done |-> Cardinality(known), indicators |-> known]
            /\ waiting' = IF launched THEN kept \o order ELSE kept
      BY <1>3, <1>5 DEF CandidatesStart
    <2>2. /\ study' # None /\ signature' = new /\ refused' = (refused /\ signature = new)
          /\ signature # new \/ candidates.status # "running"
      BY <1>3, <1>5 DEF CandidatesStart
    <2>3. /\ known \subseteq completions' /\ Cardinality(known) \in Nat /\ IsFiniteSet(unknown)
          /\ Cardinality(unknown) \in Nat
          /\ Cardinality(known) + Cardinality(unknown) = Cardinality(completions')
      <3>1. Cardinality(unknown) = Cardinality(completions') - Cardinality(known)
        BY <1>1, CompletionFacts
      <3>2. IsFiniteSet(unknown) /\ Cardinality(unknown) \in Nat
        BY <1>1, CompletionFacts
      <3>3. Cardinality(known) \in Nat /\ Cardinality(completions') \in Nat
        BY <1>1, CompletionFacts
      <3> QED
        BY <1>1, <3>1, <3>2, <3>3
    <2> DEFINE st == IF unknown = {} THEN "done" ELSE IF launched THEN "running" ELSE "pending"
    <2>4. /\ candidates' \in CandidatesStates
          /\ candidates'.status = st /\ candidates'.inputs = completions'
          /\ candidates'.done = Cardinality(known) /\ candidates'.indicators = known
      <3>1. st \in {"none", "pending", "running", "done"} /\ known \in SUBSET Keys
        BY <1>1
      <3>2. candidates' = [status |-> st, inputs |-> completions', failed |-> FALSE,
                           done |-> Cardinality(known), indicators |-> known]
        BY <2>1
      <3> HIDE DEF st, known
      <3> QED
        BY <1>1, <2>3, <3>1, <3>2 DEF CandidatesStates
    <2>5. /\ order \in Seq(completions') /\ Len(order) = Cardinality(unknown)
          /\ \A k \in unknown : \E i \in 1..Len(order) : order[i] = k
      <3>1. /\ order \in Seq(unknown) /\ Len(order) = Cardinality(unknown)
            /\ \A k \in unknown : \E i \in 1..Len(order) : order[i] = k
        BY SMTT(30), <2>3, OrderFacts
      <3>2. unknown \subseteq completions'
        OBVIOUS
      <3> QED
        BY <3>1, <3>2, SeqMonotonic
    <2>6. kept \in Seq(completions')
      <3>1. CASE signature = new
        <4>1. candidates.inputs = completions'
          BY <1>0, <1>3, <3>1 DEF CandidatesInOrder
        <4>2. waiting \in Seq(Keys) /\ \A i \in 1..Len(waiting) : waiting[i] \in completions'
          BY <1>0, <4>1 DEF CandidateTypes, CandidatesInOrder
        <4>3. Len(waiting) \in Nat /\ waiting \in [1..Len(waiting) -> Keys]
          BY <4>2, LenProperties
        <4>4. waiting \in Seq(completions')
          BY <4>2, <4>3
        <4> QED
          BY <3>1, <4>4
      <3>2. CASE signature # new
        BY <3>2
      <3> QED
        BY <3>1, <3>2
    <2> HIDE DEF kept, known, unknown, st
    <2>7. waiting' \in Seq(completions')
      BY <2>1, <2>5, <2>6, ConcatProperties
    <2>8. CandidateTypes'
      <3>1. waiting' \in Seq(Keys)
        BY <1>1, <2>7, SeqMonotonic
      <3>2. refused' \in BOOLEAN
        BY <1>0, <2>2 DEF CandidateTypes
      <3> QED
        BY <1>3, <2>2, <2>4, <3>1, <3>2 DEF CandidateTypes, OrNone
    <2>9. CandidatesInOrder'
      <3>1. \A i \in 1..Len(waiting') : waiting'[i] \in completions'
        BY <2>7, ElementOfSeq
      <3> QED
        BY <1>3, <2>2, <2>3, <2>4, <3>1 DEF CandidatesInOrder
    <2>10. CandidatesCounted'
      <3> SUFFICES ASSUME ~refused' PROVE CandidatesCounted'
        BY DEF CandidatesCounted
      <3>1. kept = <<>>
        BY <1>0, <2>2 DEF CandidatesCounted, CandidateTypes, kept
      <3>2. waiting' = IF launched THEN order ELSE <<>>
        BY <2>1, <2>5, <3>1, ConcatEmptySeq
      <3>3. Cardinality(unknown) = 0 <=> unknown = {}
        BY <2>3, FS_EmptySet
      <3>4. order = <<>> <=> unknown = {}
        BY <2>3, <2>5, <3>3, EmptySeq
      <3>5. CASE unknown = {}
        <4>1. st = "done" /\ waiting' = <<>> /\ known = completions'
          BY <2>3, <3>2, <3>4, <3>5 DEF st, unknown
        <4> QED
          BY <2>4, <4>1 DEF CandidatesCounted
      <3>6. CASE unknown # {} /\ ~launched
        <4>1. st = "pending" /\ waiting' = <<>>
          BY <3>2, <3>6 DEF st
        <4> QED
          BY <2>4, <4>1 DEF CandidatesCounted
      <3>7. CASE unknown # {} /\ launched
        <4>1. st = "running" /\ waiting' = order /\ order # <<>>
          BY <3>2, <3>4, <3>7 DEF st
        <4>2. candidates'.done + Len(waiting') = Cardinality(candidates'.inputs)
          BY <2>3, <2>4, <2>5, <4>1
        <4>3. \A k \in candidates'.inputs \ candidates'.indicators :
                 \E i \in 1..Len(waiting') : waiting'[i] = k
          BY <2>4, <2>5, <4>1 DEF unknown
        <4> QED
          BY <2>4, <4>1, <4>2, <4>3 DEF CandidatesCounted
      <3> QED
        BY <3>5, <3>6, <3>7
    <2> QED
      BY <2>8, <2>9, <2>10 DEF CandidatesOk
  <1> QED
    BY <1>2, <1>4, <1>5 DEF SyncCandidates

\* The task at the head is answered: one figure more, one task less.
LEMMA CandidateAnswerOk ==
    ASSUME CandidatesOk, PageTypes, CandidateAnswer
    PROVE  CandidatesOk'
  <1>0. CandidateTypes /\ CandidatesInOrder /\ CandidatesCounted
    BY DEF CandidatesOk
  <1> DEFINE st == IF DoneNext >= Cardinality(candidates.inputs) THEN "done" ELSE "running"
             k == Head(waiting)
  <1>1. /\ waiting # <<>> /\ waiting' = Tail(waiting)
        /\ candidates' = [candidates EXCEPT !.indicators = @ \cup {k}, !.done = DoneNext, !.status = st]
        /\ UNCHANGED <<study, completions, signature, refused>>
    BY DEF CandidateAnswer, pageVars, deckVars
  <1>2. /\ waiting \in Seq(Keys) /\ Len(waiting) \in Nat \ {0} /\ k = waiting[1]
        /\ waiting' \in Seq(Keys) /\ Len(waiting') = Len(waiting) - 1
        /\ \A i \in 1..Len(waiting') : waiting'[i] = waiting[i + 1]
    <2>1. waiting \in Seq(Keys) /\ Len(waiting) \in Nat \ {0}
      BY <1>0, <1>1, EmptySeq DEF CandidateTypes
    <2> QED
      BY <1>1, <2>1, HeadTailProperties
  <1>3. k \in candidates.inputs /\ k \in Keys
    <2>1. 1 \in 1..Len(waiting)
      BY <1>2
    <2>2. candidates.inputs \subseteq Keys
      BY <1>0 DEF CandidateTypes, CandidatesStates
    <2> QED
      BY <1>0, <1>2, <2>1, <2>2 DEF CandidatesInOrder
  <1>4. DoneNext = candidates.done + 1 /\ DoneNext \in Nat /\ candidates.done \in Nat
    BY <1>0 DEF DoneNext, CandidateTypes, CandidatesStates
  <1> HIDE DEF k
  <1>5. /\ candidates' \in CandidatesStates /\ candidates'.inputs = candidates.inputs
        /\ candidates'.indicators = candidates.indicators \cup {k}
        /\ candidates'.done = candidates.done + 1 /\ candidates'.status = st
        /\ candidates'.failed = candidates.failed
    <2>1. st \in {"none", "pending", "running", "done"}
      OBVIOUS
    <2> HIDE DEF st
    <2> QED
      BY <1>0, <1>1, <1>3, <1>4, <2>1 DEF CandidateTypes, CandidatesStates
  <1>6. CandidateTypes'
    BY <1>0, <1>1, <1>2, <1>5 DEF CandidateTypes
  <1>7. \A i \in 1..Len(waiting') : i + 1 \in 1..Len(waiting)
    BY <1>2
  <1>8. CandidatesInOrder'
    <2>1. \A i \in 1..Len(waiting') : waiting'[i] \in candidates.inputs
      BY <1>0, <1>2, <1>7 DEF CandidatesInOrder
    <2>2. signature # None
      BY <1>0, <1>1 DEF CandidatesInOrder
    <2> QED
      BY <1>0, <1>1, <1>3, <1>5, <2>1, <2>2 DEF CandidatesInOrder
  <1>9. CandidatesCounted'
    <2> SUFFICES ASSUME ~refused PROVE CandidatesCounted'
      BY <1>1 DEF CandidatesCounted
    <2>1. /\ candidates.status = "running"
          /\ candidates.done + Len(waiting) = Cardinality(candidates.inputs)
          /\ \A j \in candidates.inputs \ candidates.indicators :
                \E i \in 1..Len(waiting) : waiting[i] = j
      BY <1>0, <1>1 DEF CandidatesCounted
    <2>2. \A j \in candidates'.inputs \ candidates'.indicators :
             \E i \in 1..Len(waiting') : waiting'[i] = j
      <3> SUFFICES ASSUME NEW j \in candidates.inputs \ candidates.indicators, j # k
                   PROVE  \E i \in 1..Len(waiting') : waiting'[i] = j
        BY <1>5
      <3>1. PICK i \in 1..Len(waiting) : waiting[i] = j
        BY <2>1
      <3>2. i # 1
        BY <1>2, <3>1
      <3>3. i - 1 \in 1..Len(waiting') /\ waiting'[i - 1] = j
        BY <1>2, <3>1, <3>2
      <3> QED
        BY <3>3
    <2>3. candidates'.done + Len(waiting') = Cardinality(candidates'.inputs)
      BY <1>2, <1>4, <1>5, <2>1
    <2>4. st = "done" <=> Len(waiting') = 0
      BY <1>2, <1>4, <2>1
    <2>5. Len(waiting') = 0 <=> waiting' = <<>>
      BY <1>2, EmptySeq
    <2>6. st = "done" => candidates'.indicators = candidates'.inputs
      <3>1. candidates'.indicators \subseteq candidates'.inputs
        BY <1>8 DEF CandidatesInOrder
      <3>2. Len(waiting') = 0 => ~\E i \in 1..Len(waiting') : TRUE
        OBVIOUS
      <3> HIDE DEF st
      <3> QED
        BY <2>2, <2>4, <3>1, <3>2
    <2> QED
      BY <1>5, <2>2, <2>3, <2>4, <2>5, <2>6 DEF CandidatesCounted
  <1> QED
    BY <1>6, <1>8, <1>9 DEF CandidatesOk

LEMMA CandidateFailsOk ==
    ASSUME CandidatesOk, PageTypes, CandidateFails
    PROVE  CandidatesOk'
  <1>0. CandidateTypes /\ CandidatesInOrder /\ CandidatesCounted
    BY DEF CandidatesOk
  <1>1. /\ waiting # <<>> /\ waiting' \in {Tail(waiting), <<>>}
        /\ refused' = (refused \/ waiting' # <<>>)
        /\ candidates' = [candidates EXCEPT !.status = "done", !.failed = TRUE]
        /\ UNCHANGED <<study, completions, signature>>
    BY DEF CandidateFails, pageVars, deckVars
  <1>2. /\ candidates' \in CandidatesStates /\ candidates'.inputs = candidates.inputs
        /\ candidates'.indicators = candidates.indicators
        /\ candidates'.status = "done" /\ candidates'.failed = TRUE
    BY <1>0, <1>1 DEF CandidateTypes, CandidatesStates
  <1>3. waiting' \in Seq(Keys) /\ \A i \in 1..Len(waiting') : waiting'[i] \in candidates.inputs
    <2>1. CASE waiting' = <<>>
      BY <2>1, EmptySeq
    <2>2. CASE waiting' = Tail(waiting)
      <3>1. /\ waiting \in Seq(Keys) /\ Len(waiting) \in Nat \ {0}
            /\ waiting' \in Seq(Keys) /\ Len(waiting') = Len(waiting) - 1
            /\ \A i \in 1..Len(waiting') : waiting'[i] = waiting[i + 1]
        BY <1>0, <1>1, <2>2, EmptySeq, HeadTailProperties DEF CandidateTypes
      <3>2. \A i \in 1..Len(waiting') : i + 1 \in 1..Len(waiting)
        BY <3>1
      <3> QED
        BY <1>0, <3>1, <3>2 DEF CandidatesInOrder
    <2> QED
      BY <1>1, <2>1, <2>2
  <1>4. CandidateTypes'
    <2>1. refused' \in BOOLEAN
      BY <1>1
    <2> QED
      BY <1>0, <1>1, <1>2, <1>3, <2>1 DEF CandidateTypes
  <1>5. CandidatesInOrder'
    BY <1>0, <1>1, <1>2, <1>3 DEF CandidatesInOrder
  <1>6. CandidatesCounted'
    BY <1>1, <1>2 DEF CandidatesCounted
  <1> QED
    BY <1>4, <1>5, <1>6 DEF CandidatesOk

-----------------------------------------------------------------------------
(***************************************************************************)
(* Each step                                                               *)
(***************************************************************************)

LEMMA IInvSplit == IInv <=> DecksInOrder /\ PreviewOk /\ CandidatesOk
  BY DEF IInv, PreviewOk, CandidatesOk

LEMMA IInvSplitNext == IInv' <=> DecksInOrder' /\ PreviewOk' /\ CandidatesOk'
  BY DEF IInv, PreviewOk, CandidatesOk

\* What the preview and the candidates are judged against.
LEMMA PreviewKept ==
    ASSUME PreviewOk, UNCHANGED <<study, context, selected, preview, previewTimer, previewTask>>
    PROVE  PreviewOk'
  BY DEF PreviewOk, PreviewTypes, PreviewInOrder

LEMMA CandidatesKept ==
    ASSUME CandidatesOk, UNCHANGED <<study, completions, candidates, signature, waiting, refused>>
    PROVE  CandidatesOk'
  BY DEF CandidatesOk, CandidateTypes, CandidatesInOrder, CandidatesCounted

LEMMA SelectionTypes ==
    ASSUME AnySelection \/ SelectionDropped \/ SelectionJudgedAgain
    PROVE  selected' \in Keys \cup {Nothing, Withheld} /\ completions' \in Completions
  BY StudyAssumption DEF AnySelection, SelectionDropped, SelectionJudgedAgain

LEMMA GestureTypes == ASSUME PageTypes, Gesture PROVE gestures' \in 0..MaxGestures
  BY StudyAssumption DEF PageTypes, Gesture

\* The main client's answers touch neither the preview nor the candidates.
LEMMA MainOk ==
    ASSUME IInv, LaunchBase \/ TimerFires \/ MainClient
    PROVE  IInv'
  <1>0. DecksInOrder /\ PreviewOk /\ CandidatesOk
    BY IInvSplit
  <1>1. DecksInOrder'
    BY <1>0, BaseAnswerOk, SyncsOk, StudiedAnswerOk, MainFailsOk DEF MainClient
  <1>2. UNCHANGED <<study, context, selected, completions>> /\ UNCHANGED previewVars
        /\ UNCHANGED candidateVars
    BY DEF LaunchBase, TimerFires, MainClient, BaseAnswer, StudiedAnswer, MainFails, pageVars
  <1>3. PreviewOk' /\ CandidatesOk'
    BY <1>0, <1>2, PreviewKept, CandidatesKept DEF previewVars, candidateVars
  <1> QED
    BY <1>1, <1>3, IInvSplitNext

LEMMA DecksKept ==
    ASSUME DecksInOrder, UNCHANGED <<base, plan, study>>, UNCHANGED baseVars, UNCHANGED studiedVars,
           UNCHANGED resultCache, passCache' \subseteq Positions \X Keys, PageTypes'
    PROVE  DecksInOrder'
  <1>1. DeckTypes' /\ BaseInOrder'
    BY DEF DecksInOrder, DeckTypes, BaseInOrder, baseVars, studiedVars
  <1>2. ASSUME NEW p \in Positions
        PROVE  StudiedInOrder(p)' <=> StudiedInOrder(p)
    BY DEF StudiedInOrder, studiedVars
  <1>3. ASSUME NEW p \in Positions PROVE Synchronised(p)' <=> Synchronised(p)
    BY DEF Synchronised, studiedVars
  <1> QED
    BY <1>1, <1>2, <1>3 DEF DecksInOrder, baseVars, studiedVars

LEMMA PreviewStepsOk ==
    ASSUME IInv, PreviewLaunch \/ PreviewAnswer \/ PreviewFails
    PROVE  IInv'
  <1>0. DecksInOrder /\ PreviewOk /\ CandidatesOk /\ PreviewTypes /\ PreviewInOrder /\ PageTypes
    BY IInvSplit DEF PreviewOk, DecksInOrder
  <1>1. /\ UNCHANGED <<base, plan, study, context, selected, completions, gestures, resultCache>>
        /\ UNCHANGED baseVars /\ UNCHANGED studiedVars /\ UNCHANGED candidateVars
    BY DEF PreviewLaunch, PreviewAnswer, PreviewFails, pageVars, deckVars, cacheVars
  <1>2. PageTypes' /\ CandidatesOk'
    BY <1>0, <1>1, CandidatesKept DEF PageTypes, candidateVars
  <1>3. passCache' \subseteq Positions \X Keys
    <2>1. CASE PreviewAnswer
      <3>1. <<context, previewTask>> \in Positions \X Keys
        BY <1>0, <2>1 DEF PreviewAnswer, PreviewTypes, PageTypes, OrNone
      <3>2. RememberPasses({<<context, previewTask>>})
        BY <2>1 DEF PreviewAnswer
      <3> QED
        BY <1>0, <3>1, <3>2, RememberTypes DEF DecksInOrder
    <2>2. CASE PreviewLaunch \/ PreviewFails
      BY <1>0, <2>2 DEF PreviewLaunch, PreviewFails, cacheVars, DecksInOrder, DeckTypes
    <2> QED
      BY <2>1, <2>2
  <1>4. DecksInOrder'
    BY <1>0, <1>1, <1>2, <1>3, DecksKept
  <1>5. PreviewOk'
    <2>1. CASE PreviewLaunch
      BY <1>0, <1>1, <2>1 DEF PreviewLaunch, PreviewOk, PreviewTypes, PreviewInOrder, OrNone
    <2> DEFINE pass == Previewed(previewTask)
    <2>2. CASE PreviewAnswer /\ PreviewAwaits(previewTask)
      <3>1. previewTask \in Keys /\ previewTask # None /\ preview.key = previewTask
            /\ preview.affectsEngine = TRUE
        BY <1>0, <2>2 DEF PreviewAnswer, PreviewAwaits, PreviewTypes, PreviewInOrder, PreviewStates, OrNone
      <3>2. study \in Opponents
        BY <1>0, <3>1 DEF PreviewInOrder, PageTypes, OrNone
      <3>3. pass \in Passes /\ pass.key = previewTask /\ pass.opponent = study /\ pass.position = context
        BY <1>0, <3>1, <3>2 DEF Previewed, Passes, PageTypes
      <3>4. /\ preview' = [preview EXCEPT !.pass = pass, !.computing = FALSE, !.stale = FALSE]
            /\ previewTimer' = previewTimer /\ previewTask' = None
        BY <2>2 DEF PreviewAnswer
      <3> HIDE DEF pass
      <3>5. /\ preview' \in PreviewStates /\ preview'.kind = preview.kind
            /\ preview'.affectsEngine = preview.affectsEngine /\ preview'.key = preview.key
            /\ preview'.pass = pass /\ preview'.computing = FALSE /\ preview'.stale = FALSE
        BY <1>0, <3>3, <3>4 DEF PreviewTypes, PreviewStates, OrNone
      <3>6. PreviewTypes'
        BY <1>0, <3>4, <3>5 DEF PreviewTypes, OrNone
      <3>7. PreviewInOrder'
        BY <1>0, <1>1, <3>1, <3>3, <3>4, <3>5 DEF PreviewInOrder
      <3> QED
        BY <3>6, <3>7 DEF PreviewOk
    <2>3. CASE PreviewFails /\ PreviewAwaits(previewTask)
      <3>1. /\ preview' = [preview EXCEPT !.computing = FALSE, !.failed = TRUE]
            /\ previewTimer' = previewTimer /\ previewTask' = None
        BY <2>3 DEF PreviewFails
      <3>2. /\ preview' \in PreviewStates /\ preview'.kind = preview.kind
            /\ preview'.affectsEngine = preview.affectsEngine /\ preview'.key = preview.key
            /\ preview'.pass = preview.pass /\ preview'.stale = preview.stale
            /\ preview'.computing = FALSE /\ preview'.failed = TRUE
        BY <1>0, <3>1 DEF PreviewTypes, PreviewStates
      <3>3. PreviewTypes'
        BY <1>0, <3>1, <3>2 DEF PreviewTypes, OrNone
      <3>4. PreviewInOrder'
        BY <1>0, <1>1, <3>1, <3>2 DEF PreviewInOrder
      <3> QED
        BY <3>3, <3>4 DEF PreviewOk
    <2>4. CASE (PreviewAnswer \/ PreviewFails) /\ ~PreviewAwaits(previewTask)
      <3>1. preview' = preview /\ previewTimer' = previewTimer /\ previewTask' = None
        BY <2>4 DEF PreviewAnswer, PreviewFails
      <3>2. preview.computing => preview.key # previewTask
        BY <1>0, <2>4 DEF PreviewAwaits, PreviewInOrder
      <3> QED
        BY <1>0, <1>1, <3>1, <3>2 DEF PreviewOk, PreviewTypes, PreviewInOrder, OrNone
    <2> QED
      BY <2>1, <2>2, <2>3, <2>4
  <1> QED
    BY <1>2, <1>4, <1>5, IInvSplitNext

LEMMA CandidateStepsOk ==
    ASSUME IInv, CandidateAnswer \/ CandidateFails
    PROVE  IInv'
  <1>0. DecksInOrder /\ PreviewOk /\ CandidatesOk /\ PageTypes
    BY IInvSplit DEF DecksInOrder
  <1>1. /\ UNCHANGED <<base, plan, study, context, selected, completions, gestures, resultCache>>
        /\ UNCHANGED baseVars /\ UNCHANGED studiedVars /\ UNCHANGED previewVars
    BY DEF CandidateAnswer, CandidateFails, pageVars, deckVars, cacheVars
  <1>2. PageTypes' /\ PreviewOk'
    BY <1>0, <1>1, PreviewKept DEF PageTypes, previewVars
  <1>3. passCache' \subseteq Positions \X Keys
    <2>1. CASE CandidateAnswer
      <3>1. Head(waiting) \in Keys
        BY <1>0, <2>1, HeadTailProperties DEF CandidateAnswer, CandidatesOk, CandidateTypes
      <3>2. <<context, Head(waiting)>> \in Positions \X Keys
        BY <1>0, <3>1 DEF PageTypes
      <3>3. RememberPasses({<<context, Head(waiting)>>})
        BY <2>1 DEF CandidateAnswer
      <3> QED
        BY <1>0, <3>2, <3>3, RememberTypes DEF DecksInOrder
    <2>2. CASE CandidateFails
      BY <1>0, <2>2 DEF CandidateFails, cacheVars, DecksInOrder, DeckTypes
    <2> QED
      BY <2>1, <2>2
  <1>4. DecksInOrder'
    BY <1>0, <1>1, <1>2, <1>3, DecksKept
  <1>5. CandidatesOk'
    BY <1>0, CandidateAnswerOk, CandidateFailsOk
  <1> QED
    BY <1>2, <1>4, <1>5, IInvSplitNext

\* The gestures that change neither the base deck nor a plan.
LEMMA SelectionGesturesOk ==
    ASSUME IInv, SetContext \/ Select \/ RunCandidates \/ Saved
    PROVE  IInv'
  <1>0. DecksInOrder /\ PreviewOk /\ CandidatesOk /\ PageTypes /\ DeckTypes
    BY IInvSplit DEF DecksInOrder
  <1>1. /\ UNCHANGED <<base, plan, study, studied, running, resultCache, passCache>>
        /\ UNCHANGED baseVars /\ (timer' = timer \/ timer' = TRUE) /\ Gesture
    BY DEF SetContext, Select, RunCandidates, Saved, deckVars, studiedVars, cacheVars
  <1>2. /\ context' \in Positions
        /\ selected' \in Keys \cup {Nothing, Withheld} /\ completions' \in Completions
    BY <1>0, SelectionTypes DEF SetContext, Select, RunCandidates, Saved, PageTypes
  <1>3. PageTypes'
    BY <1>0, <1>1, <1>2, GestureTypes DEF PageTypes
  <1>4. DecksInOrder'
    <2>1. DeckTypes' /\ BaseInOrder'
      BY <1>0, <1>1 DEF DecksInOrder, DeckTypes, BaseInOrder, baseVars
    <2>2. ASSUME NEW p \in Positions
          PROVE  (StudiedInOrder(p)' <=> StudiedInOrder(p)) /\ (Synchronised(p)' <=> Synchronised(p))
      BY <1>1 DEF StudiedInOrder, Synchronised
    <2> QED
      BY <1>0, <1>1, <1>3, <2>1, <2>2 DEF DecksInOrder, baseVars
  <1>5. CASE SetContext \/ Select
    <2>1. SyncSelection /\ (UNCHANGED <<study, context>> \/ selected' = Nothing)
      BY <1>5 DEF SetContext, Select, SelectionDropped
    <2> QED
      BY <1>0, <1>3, <1>4, <2>1, SyncPreviewOk, SyncCandidatesOk, IInvSplitNext DEF SyncSelection
  <1>6. CASE RunCandidates
    <2>1. SyncCandidates(TRUE) /\ UNCHANGED <<study, context, selected>> /\ UNCHANGED previewVars
      BY <1>6 DEF RunCandidates
    <2> QED
      BY <1>0, <1>3, <1>4, <2>1, PreviewKept, SyncCandidatesOk, IInvSplitNext DEF previewVars
  <1>7. CASE Saved
    <2>1. UNCHANGED <<study, context, selected, completions>> /\ UNCHANGED previewVars
          /\ UNCHANGED candidateVars
      BY <1>7 DEF Saved
    <2> QED
      BY <1>0, <1>4, <2>1, PreviewKept, CandidatesKept, IInvSplitNext DEF previewVars, candidateVars
  <1> QED
    BY <1>5, <1>6, <1>7

\* The gestures that change the base deck, a plan or the opponent: the studied decks
\* are due a synchronisation, the preview and the candidates do not wait for it.
LEMMA DeckGesturesOk ==
    ASSUME IInv, EditDeck \/ EditPlan \/ (\E m \in OrNone(Opponents) : SetStudy(m))
    PROVE  IInv'
  <1>0. DecksInOrder /\ PreviewOk /\ CandidatesOk /\ PageTypes /\ DeckTypes
    BY IInvSplit DEF DecksInOrder
  <1>1. /\ UNCHANGED <<studied, running, resultCache, passCache, result, context>>
        /\ Gesture /\ SyncSelection /\ plan' \in Plans /\ base' \in Keys
        /\ study' \in OrNone(Opponents) /\ (study' = study \/ selected' = Nothing)
    BY <1>0 DEF EditDeck, EditPlan, SetStudy, StudySync, baseVars, studiedVars, cacheVars, PageTypes,
                SelectionDropped
  <1>2. /\ baseStale' \in BOOLEAN /\ baseTimer' \in BOOLEAN /\ baseTask' \in BOOLEAN
        /\ timer' \in BOOLEAN /\ (timer' \/ baseTimer')
        /\ BaseInOrder'
    <2>1. CASE EditDeck
      BY <1>0, <2>1 DEF EditDeck, studiedVars, DeckTypes, BaseInOrder
    <2>2. CASE ~EditDeck
      <3>1. timer' = TRUE /\ UNCHANGED baseVars /\ base' = base
        BY <2>2 DEF EditPlan, SetStudy, StudySync, ScheduleStudied
      <3> QED
        BY <1>0, <3>1 DEF DecksInOrder, DeckTypes, BaseInOrder, baseVars
    <2> QED
      BY <2>1, <2>2
  <1>3. PageTypes'
    <2>1. selected' \in Keys \cup {Nothing, Withheld} /\ completions' \in Completions
      BY SelectionTypes DEF EditDeck, EditPlan, SetStudy
    <2> QED
      BY <1>0, <1>1, <2>1, GestureTypes DEF PageTypes
  <1>4. DecksInOrder'
    <2>1. DeckTypes'
      BY <1>0, <1>1, <1>2 DEF DeckTypes
    <2>2. \A p \in Positions : StudiedInOrder(p)'
      BY <1>0, <1>1 DEF DecksInOrder, StudiedInOrder
    <2> QED
      BY <1>2, <1>3, <2>1, <2>2 DEF DecksInOrder
  <1> QED
    BY <1>0, <1>1, <1>3, <1>4, SyncPreviewOk, SyncCandidatesOk, IInvSplitNext DEF SyncSelection

\* What a deck just opened starts from.
Fresh ==
    /\ base \in Keys /\ plan \in Plans
    /\ study = None /\ context = "first" /\ selected = Nothing /\ completions = {}
    /\ gestures \in 0..MaxGestures
    /\ result = None /\ baseStale = FALSE /\ baseTimer = TRUE /\ baseTask = FALSE
    /\ studied = [p \in Positions |-> Reusing]
    /\ timer = FALSE /\ running = [k \in Keys |-> None]
    /\ resultCache = [k \in Keys |-> {}] /\ passCache = {}
    /\ preview = NoPreview /\ previewTimer = None /\ previewTask = None
    /\ candidates = NoCandidates /\ signature = None /\ waiting = <<>> /\ refused = FALSE

LEMMA FreshOk == Fresh => IInv
  <1> SUFFICES ASSUME Fresh PROVE IInv
    OBVIOUS
  <1>1. PageTypes
    BY StudyAssumption DEF Fresh, PageTypes, Positions, OrNone
  <1>2. DeckTypes
    <2>1. studied \in [Positions -> StudiedResults]
      BY ReusingFacts DEF Fresh
    <2>2. running \in [Keys -> OrNone(Modes)] /\ resultCache \in [Keys -> SUBSET Modes]
      BY DEF Fresh, OrNone
    <2> QED
      BY <2>1, <2>2 DEF Fresh, DeckTypes, OrNone
  <1>3. ASSUME NEW p \in Positions PROVE StudiedInOrder(p)
    <2>1. studied[p] = Reusing
      BY DEF Fresh
    <2> QED
      BY <2>1, ReusingFacts DEF StudiedInOrder
  <1>4. DecksInOrder
    BY <1>1, <1>2, <1>3 DEF Fresh, DecksInOrder, BaseInOrder
  <1>5. PreviewOk
    <2>1. preview = NoPreview /\ previewTimer = None /\ previewTask = None
      BY DEF Fresh
    <2> QED
      BY <2>1, NoPreviewFacts DEF PreviewOk, PreviewTypes, PreviewInOrder, OrNone
  <1>6. CandidatesOk
    <2>1. /\ NoCandidates \in CandidatesStates /\ NoCandidates.inputs = {}
          /\ NoCandidates.indicators = {} /\ NoCandidates.status = "none"
      BY DEF NoCandidates, CandidatesStates
    <2>2. candidates = NoCandidates /\ signature = None /\ waiting = <<>> /\ refused = FALSE
      BY DEF Fresh
    <2>3. waiting \in Seq(Keys) /\ Len(waiting) = 0
      BY <2>2, EmptySeq
    <2>4. CandidateTypes
      BY <2>1, <2>2, <2>3 DEF CandidateTypes, OrNone
    <2>5. CandidatesInOrder /\ CandidatesCounted
      BY <2>1, <2>2, <2>3 DEF CandidatesInOrder, CandidatesCounted
    <2> QED
      BY <2>4, <2>5 DEF CandidatesOk
  <1> QED
    BY <1>4, <1>5, <1>6, IInvSplit

LEMMA FreshNext == Fresh' => IInv'
  <1>1. Fresh => IInv
    BY FreshOk
  <1> QED
    BY <1>1, PTL

LEMMA LoadOk == ASSUME IInv, Load PROVE IInv'
  <1>1. gestures' \in 0..MaxGestures
    BY IInvSplit, GestureTypes DEF Load, DecksInOrder
  <1>2. Fresh'
    BY <1>1 DEF Load, Reset, SelectionDropped, Fresh
  <1> QED
    BY <1>2, FreshNext

LEMMA NextOk == IInv /\ [Next]_vars => IInv'
  <1> SUFFICES ASSUME IInv, [Next]_vars PROVE IInv'
    OBVIOUS
  <1>1. CASE UNCHANGED vars
    <2>1. DecksInOrder /\ PreviewOk /\ CandidatesOk /\ PageTypes /\ DeckTypes
      BY IInvSplit DEF DecksInOrder
    <2>2. /\ UNCHANGED <<base, plan, study, context, selected, completions, gestures>>
          /\ UNCHANGED baseVars /\ UNCHANGED studiedVars /\ UNCHANGED cacheVars
          /\ UNCHANGED previewVars /\ UNCHANGED candidateVars
      BY <1>1 DEF vars, pageVars, deckVars
    <2>3. PageTypes' /\ passCache' \subseteq Positions \X Keys /\ UNCHANGED resultCache
      BY <2>1, <2>2 DEF PageTypes, DeckTypes, cacheVars
    <2>4. DecksInOrder'
      BY <2>1, <2>2, <2>3, DecksKept
    <2> QED
      BY <2>1, <2>2, <2>4, PreviewKept, CandidatesKept, IInvSplitNext DEF previewVars, candidateVars
  <1>2. CASE Next
    BY <1>2, DeckGesturesOk, SelectionGesturesOk, LoadOk, MainOk, PreviewStepsOk, CandidateStepsOk
       DEF Next
  <1> QED
    BY <1>1, <1>2

LEMMA Invariant == Spec => []IInv
  <1>1. Init => Fresh
    BY StudyAssumption DEF Init, Fresh
  <1> QED
    BY <1>1, FreshOk, NextOk, PTL DEF Spec

-----------------------------------------------------------------------------
(***************************************************************************)
(* Theorems                                                                *)
(***************************************************************************)

\* What a column shows as fresh, once nothing is due.
LEMMA ShownFacts ==
    ASSUME IInv, ~timer, ~baseTimer, NEW p \in Positions, StudiedPass(p) # None
    PROVE  StudiedPass(p) = IF study = None THEN base ELSE plan[p]
  <1>1. StudiedInOrder(p) /\ Synchronised(p) /\ BaseInOrder /\ studied[p] \in StudiedResults
    BY DEF IInv, DecksInOrder, DeckTypes
  <1>2. CASE studied[p].reusesBase
    BY <1>1, <1>2 DEF StudiedPass, Synchronised, BaseInOrder
  <1>3. CASE ~studied[p].reusesBase
    <2>1. studied[p].result # None /\ ~studied[p].stale /\ StudiedPass(p) = studied[p].result.key
      BY <1>3 DEF StudiedPass
    <2>2. studied[p].result \in Results /\ studied[p].result.key \in Keys
      BY <1>1, <2>1 DEF StudiedResults, OrNone, Results
    <2>3. studied[p].key = studied[p].result.key /\ studied[p].key # None
      BY <1>1, <2>1, <2>2, MarkFacts DEF StudiedInOrder
    <2> QED
      BY <1>1, <1>3, <2>1, <2>3 DEF Synchronised
  <1> QED
    BY <1>2, <1>3

\* Through delays, late answers and changes of opponent, position, deck and selection:
\* a column, a preview and the differences are of the deck, the plan and the opponent
\* they are shown with (study.ts, StudyPanel, "Jamais un chiffre de M1 sous le nom de M2").
THEOREM ColumnsAreOfTheirDeckHolds == Spec => []ColumnsAreOfTheirDeck
  <1>1. ASSUME IInv PROVE ColumnsAreOfTheirDeck
    <2>0. /\ PageTypes /\ DeckTypes /\ BaseInOrder /\ PreviewTypes /\ PreviewInOrder
          /\ CandidateTypes /\ CandidatesInOrder /\ TypeOK
          /\ \A p \in Positions : StudiedInOrder(p) /\ studied[p] \in StudiedResults
          /\ ~timer /\ ~baseTimer => \A p \in Positions : Synchronised(p)
      BY <1>1, TypesSplit DEF IInv, DecksInOrder, DeckTypes
    <2>1. StudiedIsCurrent
      <3> SUFFICES ASSUME ~timer, ~baseTimer, NEW p \in Positions
                   PROVE  LET s == studied[p]
                          IN  /\ s.opponent = study
                              /\ s.reusesBase <=> study = None \/ plan[p] = base
                              /\ study # None /\ plan[p] = NotReady => s.result = None /\ ~s.computing
                              /\ s.result # None /\ ~s.stale => s.result.key = plan[p]
        BY DEF StudiedIsCurrent
      <3>1. ASSUME studied[p].result # None, ~studied[p].stale PROVE studied[p].result.key = plan[p]
        <4>1. studied[p].result.key \in Keys /\ studied[p].key = studied[p].result.key
          BY <2>0, <3>1 DEF StudiedResults, OrNone, Results, StudiedInOrder
        <4> QED
          BY <2>0, <4>1, MarkFacts DEF Synchronised
      <3> QED
        BY <2>0, <3>1 DEF Synchronised
    <2>2. NeverAnothersFigure
      BY <2>0 DEF NeverAnothersFigure, StudiedInOrder, PreviewInOrder
    <2>3. PreviewIsCurrent
      BY <2>0 DEF PreviewIsCurrent, PreviewInOrder
    <2>4. VividFiguresAreCurrent
      <3> SUFFICES ASSUME ~timer, ~baseTimer, NEW p \in Positions, Vivid(p)
                   PROVE  LET column == ColumnOf(p)
                          IN  IF column.isPreview
                              THEN column.pass = selected \/ preview.computing \/ preview.failed
                              ELSE column.pass = IF study = None THEN base ELSE plan[p]
        BY DEF VividFiguresAreCurrent
      <3>1. CASE p = context /\ preview.kind = "ready" /\ preview.affectsEngine
        <4>1. preview.pass # None
          BY <3>1 DEF Vivid, ColumnOf, PlanColumn
        <4>2. ColumnOf(p) = [pass |-> preview.pass.key, stale |-> FALSE, isPreview |-> TRUE]
          BY <3>1, <4>1 DEF ColumnOf
        <4>3. preview.pass.key = selected \/ preview.computing \/ preview.failed
          BY <2>0, <3>1, <4>1 DEF PreviewInOrder
        <4> QED
          BY <4>2, <4>3
      <3>2. CASE ~(p = context /\ preview.kind = "ready" /\ preview.affectsEngine)
        <4>1. ColumnOf(p) = PlanColumn(p) /\ PlanColumn(p).isPreview = FALSE
          BY <3>2 DEF ColumnOf, PlanColumn
        <4>2. PlanColumn(p).pass = StudiedPass(p) /\ StudiedPass(p) # None
          BY <3>2, <4>1 DEF Vivid, PlanColumn, StudiedPass
        <4> QED
          BY <1>1, <4>1, <4>2, ShownFacts
      <3> QED
        BY <3>1, <3>2
    <2>5. DifferencesAreOfThePage
      <3> SUFFICES ASSUME ~timer
                   PROVE  /\ \A p \in Positions :
                                PlanCompared(p) => PlanFigure(p) = plan[p] /\ BaseFigure = base
                          /\ PreviewCompared /\ ~baseTimer =>
                                /\ PlanFigure(context) = plan[context]
                                /\ PreviewFigure.key = selected \/ preview.failed
                          /\ CandidateDeltas \subseteq completions
                          /\ ~baseTimer /\ CandidateDeltas # {} => StudiedPass(context) = plan[context]
        BY DEF DifferencesAreOfThePage
      <3>1. ASSUME NEW p \in Positions, PlanFigure(p) # None, ~baseTimer
            PROVE  PlanFigure(p) = plan[p]
        BY <1>1, <3>1, ShownFacts DEF PlanFigure
      <3>2. ASSUME BaseFigure # None PROVE BaseFigure = base /\ ~baseTimer
        BY <2>0, <3>2 DEF BaseFigure, BaseInOrder
      <3>3. \A p \in Positions : PlanCompared(p) => PlanFigure(p) = plan[p] /\ BaseFigure = base
        BY <3>1, <3>2 DEF PlanCompared
      <3>4. ASSUME PreviewCompared, ~baseTimer
            PROVE  PlanFigure(context) = plan[context] /\ (PreviewFigure.key = selected \/ preview.failed)
        <4>1. PlanFigure(context) = plan[context]
          BY <2>0, <3>1, <3>4 DEF PreviewCompared, PageTypes
        <4>2. PreviewFigure = preview.pass /\ preview.pass # None /\ ~preview.computing
          BY <3>4 DEF PreviewCompared, PreviewFigure
        <4>3. preview.pass.key = selected \/ preview.failed
          BY <2>0, <4>2 DEF PreviewInOrder
        <4> QED
          BY <4>1, <4>2, <4>3
      <3>5. CandidateDeltas \subseteq completions
        BY <2>0 DEF CandidateDeltas, CandidatesInOrder
      <3>6. ASSUME ~baseTimer, CandidateDeltas # {} PROVE StudiedPass(context) = plan[context]
        <4>1. study # None /\ StudiedPass(context) # None /\ context \in Positions
          BY <2>0, <3>6 DEF CandidateDeltas, CandidatesInOrder, PageTypes
        <4> QED
          BY <1>1, <3>6, <4>1, ShownFacts
      <3> QED
        BY <3>3, <3>4, <3>5, <3>6
    <2> QED
      BY <2>0, <2>1, <2>2, <2>3, <2>4, <2>5 DEF ColumnsAreOfTheirDeck
  <1>2. IInv => ColumnsAreOfTheirDeck
    BY <1>1
  <1> QED
    BY <1>2, Invariant, PTL

\* What says it computes has a task or a timer of its own, and candidates that say
\* they are done have all their figures, whatever answers, fails, is relaunched or is
\* learnt from elsewhere, in any order (study.ts: launch, adopt, syncCandidates).
THEOREM NothingIsLeftWaitingHolds == Spec => []NothingIsLeftWaiting
  <1>1. ASSUME IInv PROVE NothingIsLeftWaiting
    <2>1. SpinnersAreOwed
      BY <1>1 DEF IInv, DecksInOrder, StudiedInOrder, PreviewInOrder, CandidatesCounted, SpinnersAreOwed
    <2>2. CandidatesAreComplete
      BY <1>1 DEF IInv, CandidatesCounted, CandidatesAreComplete
    <2> QED
      BY <2>1, <2>2 DEF NothingIsLeftWaiting
  <1>2. IInv => NothingIsLeftWaiting
    BY <1>1
  <1> QED
    BY <1>2, Invariant, PTL

=============================================================================
