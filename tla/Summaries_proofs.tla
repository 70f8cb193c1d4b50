-------------------------- MODULE Summaries_proofs --------------------------
(***************************************************************************)
(* Proofs about the decks' summaries, for any decks, cards, annotations    *)
(* and pages.                                                              *)
(***************************************************************************)
EXTENDS Summaries, TLAPS

(***************************************************************************)
(* Figures and annotations                                                 *)
(***************************************************************************)

\* The figures of a main deck are figures, and tell the main deck.
LEMMA FiguresTyped ==
    ASSUME NEW main \in Contents, NEW lib \in Libraries
    PROVE  /\ Figures(main, lib) \in AllFigures
           /\ Figures(main, lib) \in Summaries
           /\ Figures(main, lib) # NoSummary
           /\ DOMAIN Figures(main, lib) = main
  <1>1. main \subseteq Cards
    BY SummariesAssumption
  <1>2. Figures(main, lib) \in [main -> Notes]
    BY <1>1 DEF Figures, Libraries
  <1> QED
    BY <1>2, SummariesAssumption DEF AllFigures, Summaries, Figures

\* Figures are the annotations of a main deck.
LEMMA FiguresDomain ==
    ASSUME NEW f \in AllFigures
    PROVE  DOMAIN f \in Contents
  BY DEF AllFigures

LEMMA AnnotatedTyped ==
    ASSUME NEW lib \in Libraries, NEW change \in Changes
    PROVE  /\ Annotated(lib, change) \in Libraries
           /\ DOMAIN change = Cards \/ \E c \in Cards : DOMAIN change = {c}
  <1>1. PICK cs \in Scopes : change \in [cs -> Notes]
    BY DEF Changes
  <1>2. cs = Cards \/ \E c \in Cards : cs = {c}
    BY DEF Scopes
  <1> QED
    BY <1>1, <1>2 DEF Annotated, Libraries

(***************************************************************************)
(* Types                                                                   *)
(***************************************************************************)

LEMMA InitTyped == Init => TypeOK
  <1> SUFFICES ASSUME Init PROVE TypeOK
    OBVIOUS
  <1>1. ServerOK
    BY SummariesAssumption DEF Init, ServerOK, Revisions, Summaries
  <1>2. HomesOK
    BY <1>1, SummariesAssumption DEF Init, HomesOK, ServerOK
  <1>3. EditorsOK
    BY <1>1, SummariesAssumption DEF Init, EditorsOK, ServerOK, Revisions, Summaries
  <1> QED
    BY <1>1, <1>2, <1>3 DEF TypeOK

LEMMA WriteLibraryTyped ==
    ASSUME ServerOK, NEW change \in Changes, WriteLibrary(change)
    PROVE  ServerOK'
  BY AnnotatedTyped DEF ServerOK, WriteLibrary, Summaries

LEMMA RestartTyped ==
    ASSUME HomesOK, NEW h \in Homes, NEW ds \in SUBSET Decks, Restart(h, ds)
    PROVE  /\ pending' \in [Homes -> SUBSET Decks] /\ todo' \in [Homes -> SUBSET Decks]
           /\ previews' \in [Homes -> [Decks -> {"none", "computing", "ready", "unavailable"}]]
           /\ stage' \in [Homes -> {"idle", "library", "loop", "compute"}]
           /\ library' \in [Homes -> Libraries]
           /\ detail' \in [Homes -> Details \cup {None}]
           /\ \A g \in Homes : stage'[g] = "compute" => detail'[g] # None
  <1>1. NotReady(h, ds) \subseteq Decks
    BY DEF NotReady
  <1>2. [d \in Decks |-> IF d \in NotReady(h, ds) THEN "computing" ELSE previews[h][d]]
          \in [Decks -> {"none", "computing", "ready", "unavailable"}]
    BY DEF HomesOK
  <1>3. pending' \in [Homes -> SUBSET Decks] /\ todo' \in [Homes -> SUBSET Decks]
    BY <1>1 DEF Restart, HomesOK
  <1>4. previews' \in [Homes -> [Decks -> {"none", "computing", "ready", "unavailable"}]]
    BY <1>2 DEF Restart, HomesOK
  <1>5. /\ stage' \in [Homes -> {"idle", "library", "loop", "compute"}]
        /\ library' \in [Homes -> Libraries]
        /\ detail' \in [Homes -> Details \cup {None}]
    BY DEF Restart, HomesOK
  <1>6. \A g \in Homes : stage'[g] = "compute" => detail'[g] # None
    BY DEF Restart, HomesOK
  <1> QED
    BY <1>3, <1>4, <1>5, <1>6

LEMMA StepTyped == TypeOK /\ [Next]_vars => TypeOK'
  <1> SUFFICES ASSUME TypeOK, [Next]_vars PROVE TypeOK'
    OBVIOUS
  <1> USE SummariesAssumption
  <1>0. ServerOK /\ HomesOK /\ EditorsOK
    BY DEF TypeOK
  <1>1. ASSUME NEW change \in Changes, OtherWrites(change)
        PROVE  ServerOK' /\ HomesOK' /\ EditorsOK'
    <2>1. ServerOK'
      BY <1>0, <1>1, WriteLibraryTyped DEF OtherWrites
    <2> QED
      BY <1>0, <1>1, <2>1 DEF OtherWrites, homeVars, editVars, HomesOK, EditorsOK
  <1>2. ASSUME NEW d \in Decks, Rename(d)
        PROVE  ServerOK' /\ HomesOK' /\ EditorsOK'
    BY <1>0, <1>2 DEF Rename, Revisions, serverVars, homeVars, editVars, ServerOK, HomesOK, EditorsOK
  <1>3. ASSUME NEW r \in puts, Put(r)
        PROVE  ServerOK' /\ HomesOK' /\ EditorsOK'
    BY <1>0, <1>3 DEF Put, Puts, Summaries, serverVars, homeVars, editVars, ServerOK, HomesOK, EditorsOK
  <1>4. ASSUME NEW r \in puts, Lose(r)
        PROVE  ServerOK' /\ HomesOK' /\ EditorsOK'
    BY <1>0, <1>4 DEF Lose, serverVars, homeVars, editVars, ServerOK, HomesOK, EditorsOK
  <1>5. ASSUME NEW h \in Homes, ReadList(h)
        PROVE  ServerOK' /\ HomesOK' /\ EditorsOK'
    BY <1>0, <1>5 DEF ReadList, serverVars, homeVars, editVars, ServerOK, HomesOK, EditorsOK
  <1>6. ASSUME NEW h \in Homes, AdoptList(h)
        PROVE  ServerOK' /\ HomesOK' /\ EditorsOK'
    <2>1. PICK ds \in listing[h] :
             /\ listing' = [listing EXCEPT ![h] = listing[h] \ {ds}]
             /\ IF ds = pending[h]
                  THEN UNCHANGED <<pending, previews, stage, todo, library, detail>>
                  ELSE Restart(h, ds)
             /\ UNCHANGED <<serverVars, puts, lists, editVars>>
      BY <1>6 DEF AdoptList
    <2>2. ds \subseteq Decks
      BY <1>0 DEF HomesOK
    <2>3. CASE ds = pending[h]
      BY <1>0, <2>1, <2>3 DEF serverVars, homeVars, editVars, ServerOK, HomesOK, EditorsOK
    <2>4. CASE ds # pending[h]
      BY <1>0, <2>1, <2>2, <2>4, RestartTyped DEF serverVars, homeVars, editVars, ServerOK, HomesOK, EditorsOK
    <2> QED
      BY <2>3, <2>4
  <1>7. ASSUME NEW h \in Homes, ListFails(h)
        PROVE  ServerOK' /\ HomesOK' /\ EditorsOK'
    <2>1. Restart(h, {}) /\ listing' \in [Homes -> SUBSET SUBSET Decks]
      BY <1>0, <1>7 DEF ListFails, HomesOK
    <2> QED
      BY <1>0, <1>7, <2>1, RestartTyped DEF ListFails, serverVars, homeVars, editVars, ServerOK, HomesOK, EditorsOK
  <1>8. ASSUME NEW h \in Homes, TakeLibrary(h)
        PROVE  ServerOK' /\ HomesOK' /\ EditorsOK'
    BY <1>0, <1>8 DEF TakeLibrary, serverVars, homeVars, editVars, ServerOK, HomesOK, EditorsOK
  <1>9. ASSUME NEW h \in Homes, LibraryFails(h)
        PROVE  ServerOK' /\ HomesOK' /\ EditorsOK'
    BY <1>0, <1>9 DEF LibraryFails, serverVars, homeVars, editVars, ServerOK, HomesOK, EditorsOK
  <1>10. ASSUME NEW h \in Homes, NEW d \in Decks, TakeDeck(h, d)
        PROVE  ServerOK' /\ HomesOK' /\ EditorsOK'
    <2>1. [deck |-> d, content |-> content[d], revision |-> revision[d]] \in Details
      BY <1>0 DEF ServerOK, Details
    <2>2. [deck |-> d, content |-> content[d], revision |-> revision[d]] # None
      BY <2>1, NoneAssumption
    <2>3. detail' \in [Homes -> Details \cup {None}] /\ stage' \in [Homes -> {"idle", "library", "loop", "compute"}]
      BY <1>0, <1>10, <2>1 DEF TakeDeck, HomesOK
    <2>4. \A g \in Homes : stage'[g] = "compute" => detail'[g] # None
      BY <1>0, <1>10, <2>2 DEF TakeDeck, HomesOK
    <2> QED
      BY <1>0, <1>10, <2>3, <2>4 DEF TakeDeck, serverVars, homeVars, editVars, ServerOK, HomesOK, EditorsOK
  <1>11. ASSUME NEW h \in Homes, NEW d \in Decks, DeckFails(h, d)
        PROVE  ServerOK' /\ HomesOK' /\ EditorsOK'
    BY <1>0, <1>11 DEF DeckFails, Done, serverVars, homeVars, editVars, ServerOK, HomesOK, EditorsOK
  <1>12. ASSUME NEW h \in Homes, Computed(h)
        PROVE  ServerOK' /\ HomesOK' /\ EditorsOK'
    <2>1. detail[h] # None
      BY <1>0, <1>12 DEF Computed, HomesOK
    <2>2. detail[h] \in Details
      BY <1>0, <2>1 DEF HomesOK
    <2>3. detail[h].deck \in Decks /\ detail[h].content \in Contents /\ detail[h].revision \in Revisions
      BY <2>2 DEF Details
    <2>4. [deck |-> detail[h].deck, expected |-> detail[h].revision,
           figures |-> Figures(detail[h].content, library[h])] \in Puts
      BY <1>0, <2>3, FiguresTyped DEF HomesOK, Puts
    <2>5. puts' \subseteq Puts
      BY <1>0, <1>12, <2>4 DEF Computed, HomesOK
    <2> QED
      BY <1>0, <1>12, <2>3, <2>5 DEF Computed, Done, serverVars, homeVars, editVars, ServerOK, HomesOK, EditorsOK
  <1>13. ASSUME NEW h \in Homes, ComputeFails(h)
        PROVE  ServerOK' /\ HomesOK' /\ EditorsOK'
    BY <1>0, <1>13 DEF ComputeFails, Done, serverVars, homeVars, editVars, ServerOK, HomesOK, EditorsOK
  <1>14. ASSUME NEW h \in Homes, Leave(h)
        PROVE  ServerOK' /\ HomesOK' /\ EditorsOK'
    BY <1>0, <1>14 DEF Leave, serverVars, homeVars, editVars, ServerOK, HomesOK, EditorsOK
  <1>15. ASSUME NEW e \in Editors, OpenLibrary(e)
        PROVE  ServerOK' /\ HomesOK' /\ EditorsOK'
    BY <1>0, <1>15 DEF OpenLibrary, serverVars, homeVars, editVars, ServerOK, HomesOK, EditorsOK
  <1>16. ASSUME NEW e \in Editors, NEW d \in Decks, OpenDeck(e, d)
        PROVE  ServerOK' /\ HomesOK' /\ EditorsOK'
    BY <1>0, <1>16 DEF OpenDeck, Summaries, serverVars, homeVars, editVars, ServerOK, HomesOK, EditorsOK
  <1>17. ASSUME NEW e \in Editors, Close(e)
        PROVE  ServerOK' /\ HomesOK' /\ EditorsOK'
    BY <1>0, <1>17 DEF Close, serverVars, homeVars, editVars, ServerOK, HomesOK, EditorsOK
  <1>18. ASSUME NEW e \in Editors, NEW main \in Contents, Edit(e, main)
        PROVE  ServerOK' /\ HomesOK' /\ EditorsOK'
    BY <1>0, <1>18 DEF Edit, Summaries, serverVars, homeVars, editVars, ServerOK, HomesOK, EditorsOK
  <1>19. ASSUME NEW e \in Editors, Recomputed(e)
        PROVE  ServerOK' /\ HomesOK' /\ EditorsOK'
    <2>1. Figures(edited[e], copy[e]) \in Summaries
      BY <1>0, FiguresTyped DEF EditorsOK
    <2> QED
      BY <1>0, <1>19, <2>1 DEF Recomputed, serverVars, homeVars, editVars, ServerOK, HomesOK, EditorsOK
  <1>20. ASSUME NEW e \in Editors, NEW change \in Changes, AskWrite(e, change)
        PROVE  ServerOK' /\ HomesOK' /\ EditorsOK'
    BY <1>0, <1>20 DEF AskWrite, Writes, serverVars, homeVars, editVars, ServerOK, HomesOK, EditorsOK
  <1>21. ASSUME NEW e \in Editors, ServeWrite(e)
        PROVE  ServerOK' /\ HomesOK' /\ EditorsOK'
    <2>1. note[e] \in Writes /\ note[e].change \in Changes
      BY <1>0, <1>21 DEF ServeWrite, EditorsOK, Writes
    <2>2. ServerOK'
      BY <1>0, <1>21, <2>1, WriteLibraryTyped DEF ServeWrite
    <2>3. [note[e] EXCEPT !.done = TRUE] \in Writes
      BY <2>1 DEF Writes
    <2>4. note' \in [Editors -> Writes \cup {None}]
      BY <1>0, <1>21, <2>3 DEF ServeWrite, EditorsOK
    <2> QED
      BY <1>0, <1>21, <2>2, <2>4 DEF ServeWrite, homeVars, HomesOK, EditorsOK
  <1>22. ASSUME NEW e \in Editors, WriteAnswer(e)
        PROVE  ServerOK' /\ HomesOK' /\ EditorsOK'
    <2>1. note[e] \in Writes /\ note[e].change \in Changes
      BY <1>0, <1>22 DEF WriteAnswer, EditorsOK, Writes
    <2>2. Annotated(copy[e], note[e].change) \in Libraries
      BY <1>0, <2>1, AnnotatedTyped DEF EditorsOK
    <2> QED
      BY <1>0, <1>22, <2>2 DEF WriteAnswer, Summaries, serverVars, homeVars, editVars, ServerOK, HomesOK, EditorsOK
  <1>23. ASSUME NEW e \in Editors, WriteFails(e)
        PROVE  ServerOK' /\ HomesOK' /\ EditorsOK'
    BY <1>0, <1>23 DEF WriteFails, serverVars, homeVars, editVars, ServerOK, HomesOK, EditorsOK
  <1>24. ASSUME NEW e \in Editors, Save(e)
        PROVE  ServerOK' /\ HomesOK' /\ EditorsOK'
    <2>1. [deck |-> deck[e], expected |-> base[e], content |-> edited[e], summary |-> result[e]] \in Saves
      BY <1>0 DEF EditorsOK, Saves
    <2> QED
      BY <1>0, <1>24, <2>1 DEF Save, serverVars, homeVars, editVars, ServerOK, HomesOK, EditorsOK
  <1>25. ASSUME NEW e \in Editors, ServeSave(e)
        PROVE  ServerOK' /\ HomesOK' /\ EditorsOK'
    <2> DEFINE s == save[e]
    <2>1. s \in Saves
      BY <1>0, <1>25 DEF ServeSave, EditorsOK
    <2>2. s.deck \in Decks /\ s.expected \in Revisions /\ s.content \in Contents /\ s.summary \in Summaries
      BY <2>1 DEF Saves
    <2>3. save' \in [Editors -> Saves \cup {None}]
      BY <1>0, <1>25 DEF ServeSave, EditorsOK
    <2>4. CASE revision[s.deck] = s.expected
      <3>1. s.expected + 1 \in Revisions /\ revision[s.deck] + 1 \in Revisions
        BY <1>0, <1>25, <2>2, <2>4 DEF ServeSave, ServerOK, Revisions
      <3>2. /\ content' = [content EXCEPT ![s.deck] = s.content]
            /\ revision' = [revision EXCEPT ![s.deck] = revision[s.deck] + 1]
            /\ summary' = [summary EXCEPT ![s.deck] = s.summary]
            /\ base' = [base EXCEPT ![e] = s.expected + 1]
        BY <1>25, <2>4 DEF ServeSave
      <3>3. ServerOK'
        BY <1>0, <1>25, <2>2, <3>1, <3>2 DEF ServeSave, ServerOK
      <3>4. base' \in [Editors -> Revisions]
        BY <1>0, <3>1, <3>2 DEF EditorsOK
      <3> QED
        BY <1>0, <1>25, <2>3, <3>3, <3>4 DEF ServeSave, homeVars, HomesOK, EditorsOK
    <2>5. CASE revision[s.deck] # s.expected
      BY <1>0, <1>25, <2>3, <2>5 DEF ServeSave, serverVars, homeVars, editVars, ServerOK, HomesOK, EditorsOK
    <2> QED
      BY <2>4, <2>5
  <1>26. ASSUME NEW e \in Editors, SaveFails(e)
        PROVE  ServerOK' /\ HomesOK' /\ EditorsOK'
    BY <1>0, <1>26 DEF SaveFails, serverVars, homeVars, editVars, ServerOK, HomesOK, EditorsOK
  <1>27. CASE UNCHANGED vars
    BY <1>0, <1>27 DEF vars, TypeOK, serverVars, homeVars, editVars, ServerOK, HomesOK, EditorsOK
  <1> QED
    BY <1>1, <1>2, <1>3, <1>4, <1>5, <1>6, <1>7, <1>8, <1>9, <1>10, <1>11, <1>12, <1>13, <1>14, <1>15, <1>16, <1>17, <1>18, <1>19, <1>20, <1>21, <1>22, <1>23, <1>24, <1>25, <1>26, <1>27 DEF Next, HomeStep, EditorStep, TypeOK

\* Every variable keeps its type: the lists, requests and answers of every page.
THEOREM TypeCorrect == SafetySpec => []TypeOK
  <1> QED
    BY InitTyped, StepTyped, PTL DEF SafetySpec

(***************************************************************************)
(* A stored summary is of the deck stored with it                          *)
(***************************************************************************)

LEMMA InitDescribes == Init => DescribesInv
  BY InitTyped DEF Init, DescribesInv, StoredDescribesDeck, PutsDescribe, DetailsDescribe, EditorsDescribe

LEMMA StepDescribes == DescribesInv /\ [Next]_vars => DescribesInv'
  <1> SUFFICES ASSUME DescribesInv, [Next]_vars PROVE DescribesInv'
    OBVIOUS
  <1> USE SummariesAssumption
  <1>0. /\ ServerOK /\ HomesOK /\ EditorsOK
        /\ StoredDescribesDeck /\ PutsDescribe /\ DetailsDescribe /\ EditorsDescribe
    BY DEF DescribesInv, TypeOK
  <1>t. TypeOK'
    BY StepTyped DEF DescribesInv
  <1>1. ASSUME NEW change \in Changes, OtherWrites(change)
        PROVE  StoredDescribesDeck' /\ PutsDescribe' /\ DetailsDescribe' /\ EditorsDescribe'
    BY <1>0, <1>1 DEF OtherWrites, WriteLibrary, serverVars, homeVars, editVars, StoredDescribesDeck, PutsDescribe, DetailsDescribe, EditorsDescribe, ServerOK, HomesOK, EditorsOK
  <1>2. ASSUME NEW d \in Decks, Rename(d)
        PROVE  StoredDescribesDeck' /\ PutsDescribe' /\ DetailsDescribe' /\ EditorsDescribe'
    <2>p. \A r \in puts : r.deck \in Decks /\ r.expected \in Revisions /\ r.figures \in AllFigures
      BY <1>0 DEF HomesOK, Puts
    <2>d. \A h \in Homes : detail[h] # None =>
             detail[h].deck \in Decks /\ detail[h].revision \in Revisions /\ detail[h].content \in Contents
      BY <1>0 DEF HomesOK, Details
    <2>1. \A x \in Decks : revision[x] \in Nat /\ revision'[x] = IF x = d THEN revision[x] + 1 ELSE revision[x]
      BY <1>0, <1>2 DEF Rename, ServerOK, Revisions
    <2>2. PutsDescribe'
      BY <1>0, <1>2, <2>p, <2>1 DEF Rename, PutsDescribe, Revisions
    <2>3. DetailsDescribe'
      BY <1>0, <1>2, <2>d, <2>1 DEF Rename, homeVars, DetailsDescribe, Revisions
    <2> QED
      BY <1>0, <1>2, <2>2, <2>3 DEF Rename, editVars, StoredDescribesDeck, EditorsDescribe
  <1>3. ASSUME NEW r \in puts, Put(r)
        PROVE  StoredDescribesDeck' /\ PutsDescribe' /\ DetailsDescribe' /\ EditorsDescribe'
    <2>1. r \in Puts /\ r.deck \in Decks
      BY <1>0, <1>3 DEF HomesOK, Puts
    <2>2. StoredDescribesDeck'
      BY <1>0, <1>3, <2>1 DEF Put, Accepts, StoredDescribesDeck, PutsDescribe, ServerOK
    <2> QED
      BY <1>0, <1>3, <2>2 DEF Put, homeVars, editVars, PutsDescribe, DetailsDescribe, EditorsDescribe
  <1>4. ASSUME NEW r \in puts, Lose(r)
        PROVE  StoredDescribesDeck' /\ PutsDescribe' /\ DetailsDescribe' /\ EditorsDescribe'
    BY <1>0, <1>4 DEF Lose, serverVars, homeVars, editVars, StoredDescribesDeck, PutsDescribe, DetailsDescribe, EditorsDescribe, ServerOK, HomesOK, EditorsOK
  <1>5. ASSUME NEW h \in Homes, ReadList(h)
        PROVE  StoredDescribesDeck' /\ PutsDescribe' /\ DetailsDescribe' /\ EditorsDescribe'
    BY <1>0, <1>5 DEF ReadList, serverVars, homeVars, editVars, StoredDescribesDeck, PutsDescribe, DetailsDescribe, EditorsDescribe, ServerOK, HomesOK, EditorsOK
  <1>6. ASSUME NEW h \in Homes, AdoptList(h)
        PROVE  StoredDescribesDeck' /\ PutsDescribe' /\ DetailsDescribe' /\ EditorsDescribe'
    BY <1>0, <1>6 DEF AdoptList, Restart, serverVars, homeVars, editVars, StoredDescribesDeck, PutsDescribe, DetailsDescribe, EditorsDescribe, ServerOK, HomesOK, EditorsOK
  <1>7. ASSUME NEW h \in Homes, ListFails(h)
        PROVE  StoredDescribesDeck' /\ PutsDescribe' /\ DetailsDescribe' /\ EditorsDescribe'
    BY <1>0, <1>7 DEF ListFails, Restart, serverVars, homeVars, editVars, StoredDescribesDeck, PutsDescribe, DetailsDescribe, EditorsDescribe, ServerOK, HomesOK, EditorsOK
  <1>8. ASSUME NEW h \in Homes, TakeLibrary(h)
        PROVE  StoredDescribesDeck' /\ PutsDescribe' /\ DetailsDescribe' /\ EditorsDescribe'
    BY <1>0, <1>8 DEF TakeLibrary, serverVars, homeVars, editVars, StoredDescribesDeck, PutsDescribe, DetailsDescribe, EditorsDescribe, ServerOK, HomesOK, EditorsOK
  <1>9. ASSUME NEW h \in Homes, LibraryFails(h)
        PROVE  StoredDescribesDeck' /\ PutsDescribe' /\ DetailsDescribe' /\ EditorsDescribe'
    BY <1>0, <1>9 DEF LibraryFails, serverVars, homeVars, editVars, StoredDescribesDeck, PutsDescribe, DetailsDescribe, EditorsDescribe, ServerOK, HomesOK, EditorsOK
  <1>10. ASSUME NEW h \in Homes, NEW d \in Decks, TakeDeck(h, d)
        PROVE  StoredDescribesDeck' /\ PutsDescribe' /\ DetailsDescribe' /\ EditorsDescribe'
    <2>1. \A g \in Homes : detail'[g] =
             IF g = h THEN [deck |-> d, content |-> content[d], revision |-> revision[d]] ELSE detail[g]
      BY <1>0, <1>10 DEF TakeDeck, HomesOK
    <2>2. revision[d] \in Nat
      BY <1>0 DEF ServerOK, Revisions
    <2>3. DetailsDescribe'
      BY <1>0, <1>10, <2>1, <2>2 DEF TakeDeck, serverVars, DetailsDescribe
    <2> QED
      BY <1>0, <1>10, <2>3 DEF TakeDeck, serverVars, editVars, StoredDescribesDeck, PutsDescribe, EditorsDescribe
  <1>11. ASSUME NEW h \in Homes, NEW d \in Decks, DeckFails(h, d)
        PROVE  StoredDescribesDeck' /\ PutsDescribe' /\ DetailsDescribe' /\ EditorsDescribe'
    BY <1>0, <1>11 DEF DeckFails, Done, serverVars, homeVars, editVars, StoredDescribesDeck, PutsDescribe, DetailsDescribe, EditorsDescribe, ServerOK, HomesOK, EditorsOK
  <1>12. ASSUME NEW h \in Homes, Computed(h)
        PROVE  StoredDescribesDeck' /\ PutsDescribe' /\ DetailsDescribe' /\ EditorsDescribe'
    <2> DEFINE r == [deck |-> detail[h].deck, expected |-> detail[h].revision,
                     figures |-> Figures(detail[h].content, library[h])]
    <2>1. detail[h] # None /\ detail[h] \in Details
      BY <1>0, <1>12 DEF Computed, HomesOK
    <2>2. detail[h].content \in Contents /\ library[h] \in Libraries
      BY <1>0, <2>1 DEF Details, HomesOK
    <2>3. /\ r.deck = detail[h].deck /\ r.expected = detail[h].revision
          /\ DOMAIN r.figures = detail[h].content
      BY <2>2, FiguresTyped
    <2>4. puts' = puts \cup {r} /\ UNCHANGED serverVars
      BY <1>12 DEF Computed, Done
    <2> HIDE DEF r
    <2>5. PutsDescribe'
      BY <1>0, <2>1, <2>3, <2>4 DEF serverVars, PutsDescribe, DetailsDescribe
    <2>6. DetailsDescribe'
      BY <1>0, <1>12 DEF Computed, Done, serverVars, DetailsDescribe, HomesOK
    <2> QED
      BY <1>0, <1>12, <2>5, <2>6 DEF Computed, Done, serverVars, editVars, StoredDescribesDeck, EditorsDescribe
  <1>13. ASSUME NEW h \in Homes, ComputeFails(h)
        PROVE  StoredDescribesDeck' /\ PutsDescribe' /\ DetailsDescribe' /\ EditorsDescribe'
    BY <1>0, <1>13 DEF ComputeFails, Done, serverVars, homeVars, editVars, StoredDescribesDeck, PutsDescribe, DetailsDescribe, EditorsDescribe, ServerOK, HomesOK, EditorsOK
  <1>14. ASSUME NEW h \in Homes, Leave(h)
        PROVE  StoredDescribesDeck' /\ PutsDescribe' /\ DetailsDescribe' /\ EditorsDescribe'
    BY <1>0, <1>14 DEF Leave, serverVars, homeVars, editVars, StoredDescribesDeck, PutsDescribe, DetailsDescribe, EditorsDescribe, ServerOK, HomesOK, EditorsOK
  <1>15. ASSUME NEW e \in Editors, OpenLibrary(e)
        PROVE  StoredDescribesDeck' /\ PutsDescribe' /\ DetailsDescribe' /\ EditorsDescribe'
    BY <1>0, <1>15 DEF OpenLibrary, serverVars, homeVars, editVars, StoredDescribesDeck, PutsDescribe, DetailsDescribe, EditorsDescribe, ServerOK, HomesOK, EditorsOK
  <1>16. ASSUME NEW e \in Editors, NEW d \in Decks, OpenDeck(e, d)
        PROVE  StoredDescribesDeck' /\ PutsDescribe' /\ DetailsDescribe' /\ EditorsDescribe'
    BY <1>0, <1>16 DEF OpenDeck, serverVars, homeVars, editVars, StoredDescribesDeck, PutsDescribe, DetailsDescribe, EditorsDescribe, ServerOK, HomesOK, EditorsOK
  <1>17. ASSUME NEW e \in Editors, Close(e)
        PROVE  StoredDescribesDeck' /\ PutsDescribe' /\ DetailsDescribe' /\ EditorsDescribe'
    BY <1>0, <1>17 DEF Close, serverVars, homeVars, editVars, StoredDescribesDeck, PutsDescribe, DetailsDescribe, EditorsDescribe, ServerOK, HomesOK, EditorsOK
  <1>18. ASSUME NEW e \in Editors, NEW main \in Contents, Edit(e, main)
        PROVE  StoredDescribesDeck' /\ PutsDescribe' /\ DetailsDescribe' /\ EditorsDescribe'
    BY <1>0, <1>18 DEF Edit, serverVars, homeVars, editVars, StoredDescribesDeck, PutsDescribe, DetailsDescribe, EditorsDescribe, ServerOK, HomesOK, EditorsOK
  <1>19. ASSUME NEW e \in Editors, Recomputed(e)
        PROVE  StoredDescribesDeck' /\ PutsDescribe' /\ DetailsDescribe' /\ EditorsDescribe'
    <2>1. DOMAIN Figures(edited[e], copy[e]) = edited[e]
      BY <1>0, FiguresTyped DEF EditorsOK
    <2>2. EditorsDescribe'
      BY <1>0, <1>19, <2>1 DEF Recomputed, EditorsDescribe, EditorsOK
    <2> QED
      BY <1>0, <1>19, <2>2 DEF Recomputed, serverVars, homeVars, StoredDescribesDeck, PutsDescribe, DetailsDescribe
  <1>20. ASSUME NEW e \in Editors, NEW change \in Changes, AskWrite(e, change)
        PROVE  StoredDescribesDeck' /\ PutsDescribe' /\ DetailsDescribe' /\ EditorsDescribe'
    BY <1>0, <1>20 DEF AskWrite, serverVars, homeVars, editVars, StoredDescribesDeck, PutsDescribe, DetailsDescribe, EditorsDescribe, ServerOK, HomesOK, EditorsOK
  <1>21. ASSUME NEW e \in Editors, ServeWrite(e)
        PROVE  StoredDescribesDeck' /\ PutsDescribe' /\ DetailsDescribe' /\ EditorsDescribe'
    BY <1>0, <1>21 DEF ServeWrite, WriteLibrary, serverVars, homeVars, editVars, StoredDescribesDeck, PutsDescribe, DetailsDescribe, EditorsDescribe, ServerOK, HomesOK, EditorsOK
  <1>22. ASSUME NEW e \in Editors, WriteAnswer(e)
        PROVE  StoredDescribesDeck' /\ PutsDescribe' /\ DetailsDescribe' /\ EditorsDescribe'
    BY <1>0, <1>22 DEF WriteAnswer, serverVars, homeVars, editVars, StoredDescribesDeck, PutsDescribe, DetailsDescribe, EditorsDescribe, ServerOK, HomesOK, EditorsOK
  <1>23. ASSUME NEW e \in Editors, WriteFails(e)
        PROVE  StoredDescribesDeck' /\ PutsDescribe' /\ DetailsDescribe' /\ EditorsDescribe'
    BY <1>0, <1>23 DEF WriteFails, serverVars, homeVars, editVars, StoredDescribesDeck, PutsDescribe, DetailsDescribe, EditorsDescribe, ServerOK, HomesOK, EditorsOK
  <1>24. ASSUME NEW e \in Editors, Save(e)
        PROVE  StoredDescribesDeck' /\ PutsDescribe' /\ DetailsDescribe' /\ EditorsDescribe'
    BY <1>0, <1>24 DEF Save, serverVars, homeVars, editVars, StoredDescribesDeck, PutsDescribe, DetailsDescribe, EditorsDescribe, ServerOK, HomesOK, EditorsOK
  <1>25. ASSUME NEW e \in Editors, ServeSave(e)
        PROVE  StoredDescribesDeck' /\ PutsDescribe' /\ DetailsDescribe' /\ EditorsDescribe'
    <2> DEFINE s == save[e]
    <2>1. s \in Saves /\ s # None
      BY <1>0, <1>25 DEF ServeSave, EditorsOK
    <2>2. s.deck \in Decks /\ s.expected \in Revisions
      BY <2>1 DEF Saves
    <2>3. EditorsDescribe'
      BY <1>0, <1>25 DEF ServeSave, EditorsDescribe, EditorsOK
    <2>4. CASE revision[s.deck] # s.expected
      BY <1>0, <1>25, <2>3, <2>4 DEF ServeSave, homeVars, StoredDescribesDeck, PutsDescribe, DetailsDescribe
    <2>5. CASE revision[s.deck] = s.expected
      <3>p. \A r \in puts : r.deck \in Decks /\ r.expected \in Revisions /\ r.figures \in AllFigures
        BY <1>0 DEF HomesOK, Puts
      <3>d. \A h \in Homes : detail[h] # None =>
               detail[h].deck \in Decks /\ detail[h].revision \in Revisions /\ detail[h].content \in Contents
        BY <1>0 DEF HomesOK, Details
      <3>1. /\ content' = [content EXCEPT ![s.deck] = s.content]
            /\ revision' = [revision EXCEPT ![s.deck] = revision[s.deck] + 1]
            /\ summary' = [summary EXCEPT ![s.deck] = s.summary]
            /\ UNCHANGED <<puts, homeVars>>
        BY <1>25, <2>5 DEF ServeSave
      <3>2. \A x \in Decks : /\ revision[x] \in Nat
                             /\ revision'[x] = IF x = s.deck THEN revision[x] + 1 ELSE revision[x]
                             /\ content'[x] = IF x = s.deck THEN s.content ELSE content[x]
                             /\ summary'[x] = IF x = s.deck THEN s.summary ELSE summary[x]
        BY <1>0, <3>1 DEF ServerOK, Revisions
      <3>3. s.summary # NoSummary => DOMAIN s.summary = s.content
        BY <1>0, <2>1 DEF EditorsDescribe
      <3> HIDE DEF s
      <3>4. StoredDescribesDeck'
        BY <1>0, <3>2, <3>3 DEF StoredDescribesDeck
      <3>5. PutsDescribe'
        BY <1>0, <3>p, <3>1, <3>2 DEF PutsDescribe, Revisions
      <3>6. DetailsDescribe'
        BY <1>0, <3>d, <3>1, <3>2 DEF homeVars, DetailsDescribe, Revisions
      <3> QED
        BY <2>3, <3>4, <3>5, <3>6
    <2> QED
      BY <2>4, <2>5
  <1>26. ASSUME NEW e \in Editors, SaveFails(e)
        PROVE  StoredDescribesDeck' /\ PutsDescribe' /\ DetailsDescribe' /\ EditorsDescribe'
    BY <1>0, <1>26 DEF SaveFails, serverVars, homeVars, editVars, StoredDescribesDeck, PutsDescribe, DetailsDescribe, EditorsDescribe, ServerOK, HomesOK, EditorsOK
  <1>27. ASSUME UNCHANGED vars
        PROVE  StoredDescribesDeck' /\ PutsDescribe' /\ DetailsDescribe' /\ EditorsDescribe'
    BY <1>0, <1>27 DEF vars, serverVars, homeVars, editVars, StoredDescribesDeck, PutsDescribe, DetailsDescribe, EditorsDescribe
  <1>28. StoredDescribesDeck' /\ PutsDescribe' /\ DetailsDescribe' /\ EditorsDescribe'
    BY <1>1, <1>2, <1>3, <1>4, <1>5, <1>6, <1>7, <1>8, <1>9, <1>10, <1>11, <1>12, <1>13, <1>14, <1>15, <1>16, <1>17, <1>18, <1>19, <1>20, <1>21, <1>22, <1>23, <1>24, <1>25, <1>26, <1>27 DEF Next, HomeStep, EditorStep
  <1> QED
    BY <1>t, <1>28 DEF DescribesInv

\* A stored summary is of the deck stored with it, for any number of pages that
\* edit, save, rename and compute, however late their requests arrive.
THEOREM StoredDescribesDeckHolds == SafetySpec => []StoredDescribesDeck
  <1>1. DescribesInv => StoredDescribesDeck
    BY DEF DescribesInv
  <1> QED
    BY <1>1, InitDescribes, StepDescribes, PTL DEF SafetySpec

(***************************************************************************)
(* Without overlaps, it was computed with the current library              *)
(***************************************************************************)

LEMMA InitCurrent == Init => CurrentInv
  BY InitDescribes DEF Init, CurrentInv, CopyIsCurrent, StoredDescribesLibrary, WritesAlone, HomesAreCurrent, EditorsAreCurrent

\* A library write clears every summary it makes false.
LEMMA WriteClears ==
    ASSUME ServerOK, StoredDescribesDeck, StoredDescribesLibrary,
           NEW change \in Changes, WriteLibrary(change)
    PROVE  StoredDescribesLibrary'
  <1> SUFFICES ASSUME NEW d \in Decks, summary'[d] # NoSummary
               PROVE  summary'[d] = Figures(DOMAIN summary'[d], notes')
    BY DEF StoredDescribesLibrary
  <1>1. d \notin Concerned(change) /\ summary'[d] = summary[d] /\ summary[d] # NoSummary
    BY DEF WriteLibrary
  <1>2. PICK c \in Cards : DOMAIN change = {c} /\ c \notin content[d]
    <2>1. DOMAIN change = Cards \/ \E c \in Cards : DOMAIN change = {c}
      BY AnnotatedTyped DEF ServerOK
    <2>2. DOMAIN change # Cards /\ ~(DOMAIN change \subseteq content[d])
      BY <1>1 DEF Concerned
    <2> QED
      BY <2>1, <2>2
  <1>3. summary[d] = Figures(content[d], notes) /\ DOMAIN summary[d] = content[d] /\ content[d] \subseteq Cards
    BY <1>1, SummariesAssumption DEF StoredDescribesDeck, StoredDescribesLibrary, ServerOK
  <1>4. \A x \in content[d] : notes'[x] = notes[x]
    BY <1>2, <1>3 DEF WriteLibrary, Annotated
  <1>5. Figures(content[d], notes') = Figures(content[d], notes)
    BY <1>4 DEF Figures
  <1> QED
    BY <1>1, <1>3, <1>5

LEMMA StepCurrent ==
    ASSUME Overlaps = {}, CurrentInv, [Next]_vars
    PROVE  CurrentInv'
  <1> USE SummariesAssumption
  <1>0. /\ ServerOK /\ HomesOK /\ EditorsOK
        /\ StoredDescribesDeck /\ PutsDescribe /\ DetailsDescribe /\ EditorsDescribe
        /\ StoredDescribesLibrary /\ WritesAlone /\ HomesAreCurrent /\ EditorsAreCurrent
    BY DEF CurrentInv, DescribesInv, TypeOK
  <1>t. DescribesInv'
    BY StepDescribes DEF CurrentInv
  <1>i. DescribesInv' => ServerOK' /\ HomesOK' /\ EditorsOK' /\ StoredDescribesDeck'
    BY DEF DescribesInv, TypeOK
  <1>1. ASSUME NEW change \in Changes, OtherWrites(change)
        PROVE  StoredDescribesLibrary' /\ WritesAlone' /\ HomesAreCurrent' /\ EditorsAreCurrent'
    <2>1. /\ HomesQuiet /\ EditorsQuiet /\ WriteLibrary(change)
          /\ UNCHANGED <<puts, homeVars, editVars>>
      BY <1>1 DEF OtherWrites
    <2>2. WritesAlone' /\ EditorsAreCurrent'
      BY <2>1 DEF EditorsQuiet, editVars, WritesAlone, EditorsAreCurrent
    <2>3. HomesAreCurrent'
      BY <2>1 DEF HomesQuiet, homeVars, HomesAreCurrent
    <2> QED
      BY <1>0, <2>1, <2>2, <2>3, WriteClears
  <1>2. ASSUME NEW d \in Decks, Rename(d)
        PROVE  StoredDescribesLibrary' /\ WritesAlone' /\ HomesAreCurrent' /\ EditorsAreCurrent'
    BY <1>0, <1>2 DEF Rename, serverVars, homeVars, editVars, StoredDescribesLibrary, WritesAlone, HomesAreCurrent, EditorsAreCurrent, CopyIsCurrent, Alone, ServerOK, HomesOK, EditorsOK
  <1>3. ASSUME NEW r \in puts, Put(r)
        PROVE  StoredDescribesLibrary' /\ WritesAlone' /\ HomesAreCurrent' /\ EditorsAreCurrent'
    BY <1>0, <1>3 DEF Put, serverVars, homeVars, editVars, StoredDescribesLibrary, WritesAlone, HomesAreCurrent, EditorsAreCurrent, CopyIsCurrent, Alone, ServerOK, HomesOK, EditorsOK
  <1>4. ASSUME NEW r \in puts, Lose(r)
        PROVE  StoredDescribesLibrary' /\ WritesAlone' /\ HomesAreCurrent' /\ EditorsAreCurrent'
    BY <1>0, <1>4 DEF Lose, serverVars, homeVars, editVars, StoredDescribesLibrary, WritesAlone, HomesAreCurrent, EditorsAreCurrent, CopyIsCurrent, Alone, ServerOK, HomesOK, EditorsOK
  <1>5. ASSUME NEW h \in Homes, ReadList(h)
        PROVE  StoredDescribesLibrary' /\ WritesAlone' /\ HomesAreCurrent' /\ EditorsAreCurrent'
    BY <1>0, <1>5 DEF ReadList, serverVars, homeVars, editVars, StoredDescribesLibrary, WritesAlone, HomesAreCurrent, EditorsAreCurrent, CopyIsCurrent, Alone, ServerOK, HomesOK, EditorsOK
  <1>6. ASSUME NEW h \in Homes, AdoptList(h)
        PROVE  StoredDescribesLibrary' /\ WritesAlone' /\ HomesAreCurrent' /\ EditorsAreCurrent'
    BY <1>0, <1>6 DEF AdoptList, Restart, serverVars, homeVars, editVars, StoredDescribesLibrary, WritesAlone, HomesAreCurrent, EditorsAreCurrent, CopyIsCurrent, Alone, ServerOK, HomesOK, EditorsOK
  <1>7. ASSUME NEW h \in Homes, ListFails(h)
        PROVE  StoredDescribesLibrary' /\ WritesAlone' /\ HomesAreCurrent' /\ EditorsAreCurrent'
    BY <1>0, <1>7 DEF ListFails, Restart, serverVars, homeVars, editVars, StoredDescribesLibrary, WritesAlone, HomesAreCurrent, EditorsAreCurrent, CopyIsCurrent, Alone, ServerOK, HomesOK, EditorsOK
  <1>8. ASSUME NEW h \in Homes, TakeLibrary(h)
        PROVE  StoredDescribesLibrary' /\ WritesAlone' /\ HomesAreCurrent' /\ EditorsAreCurrent'
    <2>1. LibraryQuiet /\ UNCHANGED <<serverVars, puts, editVars>>
      BY <1>8 DEF TakeLibrary
    <2>2. \A g \in Homes : /\ library'[g] = IF g = h THEN notes ELSE library[g]
                           /\ stage'[g] = IF g = h THEN "loop" ELSE stage[g]
      BY <1>0, <1>8 DEF TakeLibrary, HomesOK
    <2>3. HomesAreCurrent'
      BY <1>0, <2>1, <2>2 DEF serverVars, HomesAreCurrent
    <2>4. WritesAlone'
      BY <2>1 DEF LibraryQuiet, editVars, WritesAlone
    <2> QED
      BY <1>0, <2>1, <2>3, <2>4 DEF serverVars, editVars, StoredDescribesLibrary, EditorsAreCurrent, CopyIsCurrent
  <1>9. ASSUME NEW h \in Homes, LibraryFails(h)
        PROVE  StoredDescribesLibrary' /\ WritesAlone' /\ HomesAreCurrent' /\ EditorsAreCurrent'
    BY <1>0, <1>9 DEF LibraryFails, serverVars, homeVars, editVars, StoredDescribesLibrary, WritesAlone, HomesAreCurrent, EditorsAreCurrent, CopyIsCurrent, Alone, ServerOK, HomesOK, EditorsOK
  <1>10. ASSUME NEW h \in Homes, NEW d \in Decks, TakeDeck(h, d)
        PROVE  StoredDescribesLibrary' /\ WritesAlone' /\ HomesAreCurrent' /\ EditorsAreCurrent'
    BY <1>0, <1>10 DEF TakeDeck, serverVars, homeVars, editVars, StoredDescribesLibrary, WritesAlone, HomesAreCurrent, EditorsAreCurrent, CopyIsCurrent, Alone, ServerOK, HomesOK, EditorsOK
  <1>11. ASSUME NEW h \in Homes, NEW d \in Decks, DeckFails(h, d)
        PROVE  StoredDescribesLibrary' /\ WritesAlone' /\ HomesAreCurrent' /\ EditorsAreCurrent'
    BY <1>0, <1>11 DEF DeckFails, Done, serverVars, homeVars, editVars, StoredDescribesLibrary, WritesAlone, HomesAreCurrent, EditorsAreCurrent, CopyIsCurrent, Alone, ServerOK, HomesOK, EditorsOK
  <1>12. ASSUME NEW h \in Homes, Computed(h)
        PROVE  StoredDescribesLibrary' /\ WritesAlone' /\ HomesAreCurrent' /\ EditorsAreCurrent'
    <2> DEFINE r == [deck |-> detail[h].deck, expected |-> detail[h].revision,
                     figures |-> Figures(detail[h].content, library[h])]
    <2>1. detail[h].content \in Contents /\ library[h] \in Libraries
      BY <1>0, <1>12 DEF Computed, HomesOK, Details
    <2>2. r.figures = Figures(detail[h].content, notes) /\ DOMAIN r.figures = detail[h].content
      BY <1>0, <1>12, <2>1, FiguresTyped DEF Computed, HomesAreCurrent
    <2>3. puts' = puts \cup {r} /\ UNCHANGED <<serverVars, library, editVars>>
      BY <1>12 DEF Computed, Done
    <2> HIDE DEF r
    <2>4. \A g \in Homes : stage'[g] \in {"loop", "compute"} => stage[g] \in {"loop", "compute"}
      BY <1>0, <1>12 DEF Computed, Done, HomesOK
    <2>5. HomesAreCurrent'
      BY <1>0, <2>2, <2>3, <2>4 DEF serverVars, HomesAreCurrent
    <2>6. \A f \in Editors : note[f] = None
      BY <1>0, <1>12 DEF Computed, WritesAlone
    <2>7. WritesAlone'
      BY <2>3, <2>6 DEF editVars, WritesAlone
    <2> QED
      BY <1>0, <2>3, <2>5, <2>7 DEF serverVars, editVars, StoredDescribesLibrary, EditorsAreCurrent, CopyIsCurrent
  <1>13. ASSUME NEW h \in Homes, ComputeFails(h)
        PROVE  StoredDescribesLibrary' /\ WritesAlone' /\ HomesAreCurrent' /\ EditorsAreCurrent'
    BY <1>0, <1>13 DEF ComputeFails, Done, serverVars, homeVars, editVars, StoredDescribesLibrary, WritesAlone, HomesAreCurrent, EditorsAreCurrent, CopyIsCurrent, Alone, ServerOK, HomesOK, EditorsOK
  <1>14. ASSUME NEW h \in Homes, Leave(h)
        PROVE  StoredDescribesLibrary' /\ WritesAlone' /\ HomesAreCurrent' /\ EditorsAreCurrent'
    BY <1>0, <1>14 DEF Leave, serverVars, homeVars, editVars, StoredDescribesLibrary, WritesAlone, HomesAreCurrent, EditorsAreCurrent, CopyIsCurrent, Alone, ServerOK, HomesOK, EditorsOK
  <1>15. ASSUME NEW e \in Editors, OpenLibrary(e)
        PROVE  StoredDescribesLibrary' /\ WritesAlone' /\ HomesAreCurrent' /\ EditorsAreCurrent'
    <2>1. LibraryQuiet /\ UNCHANGED <<serverVars, puts, homeVars, edited, result, note, save>>
      BY <1>15 DEF OpenLibrary
    <2>2. \A f \in Editors : /\ copy'[f] = IF f = e THEN notes ELSE copy[f]
                             /\ phase'[f] = IF f = e THEN "opening" ELSE phase[f]
      BY <1>0, <1>15 DEF OpenLibrary, EditorsOK
    <2>3. WritesAlone'
      BY <2>1 DEF LibraryQuiet, WritesAlone
    <2>4. EditorsAreCurrent'
      BY <1>0, <2>1, <2>2 DEF LibraryQuiet, serverVars, EditorsAreCurrent, CopyIsCurrent
    <2> QED
      BY <1>0, <2>1, <2>3, <2>4 DEF serverVars, homeVars, StoredDescribesLibrary, HomesAreCurrent
  <1>16. ASSUME NEW e \in Editors, NEW d \in Decks, OpenDeck(e, d)
        PROVE  StoredDescribesLibrary' /\ WritesAlone' /\ HomesAreCurrent' /\ EditorsAreCurrent'
    BY <1>0, <1>16 DEF OpenDeck, serverVars, homeVars, editVars, StoredDescribesLibrary, WritesAlone, HomesAreCurrent, EditorsAreCurrent, CopyIsCurrent, Alone, ServerOK, HomesOK, EditorsOK
  <1>17. ASSUME NEW e \in Editors, Close(e)
        PROVE  StoredDescribesLibrary' /\ WritesAlone' /\ HomesAreCurrent' /\ EditorsAreCurrent'
    BY <1>0, <1>17 DEF Close, serverVars, homeVars, editVars, StoredDescribesLibrary, WritesAlone, HomesAreCurrent, EditorsAreCurrent, CopyIsCurrent, Alone, ServerOK, HomesOK, EditorsOK
  <1>18. ASSUME NEW e \in Editors, NEW main \in Contents, Edit(e, main)
        PROVE  StoredDescribesLibrary' /\ WritesAlone' /\ HomesAreCurrent' /\ EditorsAreCurrent'
    BY <1>0, <1>18 DEF Edit, serverVars, homeVars, editVars, StoredDescribesLibrary, WritesAlone, HomesAreCurrent, EditorsAreCurrent, CopyIsCurrent, Alone, ServerOK, HomesOK, EditorsOK
  <1>19. ASSUME NEW e \in Editors, Recomputed(e)
        PROVE  StoredDescribesLibrary' /\ WritesAlone' /\ HomesAreCurrent' /\ EditorsAreCurrent'
    BY <1>0, <1>19 DEF Recomputed, serverVars, homeVars, editVars, StoredDescribesLibrary, WritesAlone, HomesAreCurrent, EditorsAreCurrent, CopyIsCurrent, Alone, ServerOK, HomesOK, EditorsOK
  <1>20. ASSUME NEW e \in Editors, NEW change \in Changes, AskWrite(e, change)
        PROVE  StoredDescribesLibrary' /\ WritesAlone' /\ HomesAreCurrent' /\ EditorsAreCurrent'
    <2>1. /\ HomesQuiet /\ Alone(e) /\ save[e] = None /\ note[e] = None /\ phase[e] = "open"
          /\ UNCHANGED <<serverVars, puts, homeVars, phase, edited, copy, result, save>>
      BY <1>20 DEF AskWrite
    <2>2. \A f \in Editors : note'[f] = IF f = e THEN [change |-> change, done |-> FALSE] ELSE note[f]
      BY <1>0, <1>20 DEF AskWrite, EditorsOK
    <2>3. \A f \in Editors : note[f] = None
      BY <2>1 DEF Alone
    <2>4. WritesAlone'
      BY <2>1, <2>2, <2>3 DEF HomesQuiet, homeVars, WritesAlone, Alone
    <2>5. EditorsAreCurrent'
      BY <1>0, <2>1, <2>2, <2>3 DEF serverVars, EditorsAreCurrent, CopyIsCurrent
    <2> QED
      BY <1>0, <2>1, <2>4, <2>5 DEF serverVars, homeVars, StoredDescribesLibrary, HomesAreCurrent
  <1>21. ASSUME NEW e \in Editors, ServeWrite(e)
        PROVE  StoredDescribesLibrary' /\ WritesAlone' /\ HomesAreCurrent' /\ EditorsAreCurrent'
    <2> DEFINE change == note[e].change
    <2>1. /\ note[e] \in Writes /\ change \in Changes /\ note[e] # None /\ ~note[e].done
          /\ WriteLibrary(change)
          /\ UNCHANGED <<puts, homeVars, phase, edited, copy, result, save>>
      BY <1>0, <1>21 DEF ServeWrite, EditorsOK, Writes
    <2>2. /\ puts = {} /\ \A h \in Homes : stage[h] \in {"idle", "library"}
          /\ save[e] = None /\ Alone(e)
      BY <1>0, <2>1 DEF WritesAlone
    <2> DEFINE answered == [note[e] EXCEPT !.done = TRUE]
    <2>3. \A f \in Editors : note'[f] = IF f = e THEN answered ELSE note[f]
      BY <1>0, <1>21 DEF ServeWrite, EditorsOK
    <2>n. answered # None /\ answered.done /\ answered.change = change
      <3>1. answered \in Writes /\ answered.done = TRUE /\ answered.change = change
        BY <2>1 DEF Writes
      <3> QED
        BY <3>1, NoneAssumption
    <2> HIDE DEF answered
    <2>4. WritesAlone'
      BY <2>1, <2>2, <2>3 DEF homeVars, WritesAlone, Alone
    <2>5. HomesAreCurrent'
      BY <2>1, <2>2 DEF homeVars, HomesAreCurrent
    <2>6. phase[e] # "closed" => Annotated(copy[e], change) = notes'
      BY <1>0, <2>1 DEF WriteLibrary, EditorsAreCurrent, CopyIsCurrent
    <2>7. EditorsAreCurrent'
      BY <1>0, <2>1, <2>2, <2>3, <2>6, <2>n DEF EditorsAreCurrent, CopyIsCurrent, Alone
    <2>9. StoredDescribesLibrary'
      BY <1>0, <2>1, WriteClears
    <2> QED
      BY <2>4, <2>5, <2>7, <2>9
  <1>22. ASSUME NEW e \in Editors, WriteAnswer(e)
        PROVE  StoredDescribesLibrary' /\ WritesAlone' /\ HomesAreCurrent' /\ EditorsAreCurrent'
    <2> DEFINE change == note[e].change
    <2>1. /\ note[e] # None /\ note[e].done
          /\ UNCHANGED <<serverVars, puts, homeVars, phase, edited, save>>
      BY <1>22 DEF WriteAnswer
    <2>2. \A f \in Editors : /\ note'[f] = IF f = e THEN None ELSE note[f]
                             /\ copy'[f] = IF f = e THEN Annotated(copy[e], change) ELSE copy[f]
                             /\ result'[f] = IF f = e /\ ~KeepsResult(e, change) THEN NoSummary ELSE result[f]
      BY <1>0, <1>22 DEF WriteAnswer, EditorsOK
    <2>3. WritesAlone'
      BY <1>0, <2>1, <2>2 DEF homeVars, WritesAlone, Alone
    <2>4. phase[e] # "closed" => Annotated(copy[e], change) = notes
      BY <1>0, <2>1 DEF EditorsAreCurrent, CopyIsCurrent
    <2>5. KeepsResult(e, change) => Figures(edited[e], Annotated(copy[e], change)) = Figures(edited[e], copy[e])
      BY DEF KeepsResult
    <2>6. EditorsAreCurrent'
      BY <1>0, <2>1, <2>2, <2>4, <2>5 DEF serverVars, EditorsAreCurrent, CopyIsCurrent
    <2> QED
      BY <1>0, <2>1, <2>3, <2>6 DEF serverVars, homeVars, StoredDescribesLibrary, HomesAreCurrent
  <1>23. ASSUME NEW e \in Editors, WriteFails(e)
        PROVE  StoredDescribesLibrary' /\ WritesAlone' /\ HomesAreCurrent' /\ EditorsAreCurrent'
    BY <1>0, <1>23 DEF WriteFails, serverVars, homeVars, editVars, StoredDescribesLibrary, WritesAlone, HomesAreCurrent, EditorsAreCurrent, CopyIsCurrent, Alone, ServerOK, HomesOK, EditorsOK
  <1>24. ASSUME NEW e \in Editors, Save(e)
        PROVE  StoredDescribesLibrary' /\ WritesAlone' /\ HomesAreCurrent' /\ EditorsAreCurrent'
    BY <1>0, <1>24 DEF Save, serverVars, homeVars, editVars, StoredDescribesLibrary, WritesAlone, HomesAreCurrent, EditorsAreCurrent, CopyIsCurrent, Alone, ServerOK, HomesOK, EditorsOK
  <1>25. ASSUME NEW e \in Editors, ServeSave(e)
        PROVE  StoredDescribesLibrary' /\ WritesAlone' /\ HomesAreCurrent' /\ EditorsAreCurrent'
    <2> DEFINE s == save[e]
    <2>1. /\ s \in Saves /\ s # None /\ s.deck \in Decks
          /\ UNCHANGED <<notes, puts, homeVars, phase, edited, copy, result, note>>
      BY <1>0, <1>25 DEF ServeSave, EditorsOK, Saves
    <2>2. \A f \in Editors : save'[f] = IF f = e THEN None ELSE save[f]
      BY <1>0, <1>25 DEF ServeSave, EditorsOK
    <2>3. WritesAlone'
      BY <1>0, <2>1, <2>2 DEF homeVars, WritesAlone, Alone
    <2>4. HomesAreCurrent'
      BY <1>0, <2>1 DEF homeVars, HomesAreCurrent
    <2>5. EditorsAreCurrent'
      BY <1>0, <2>1, <2>2 DEF EditorsAreCurrent, CopyIsCurrent
    <2>6. s.summary # NoSummary => s.summary = Figures(DOMAIN s.summary, notes)
      BY <1>0, <2>1 DEF EditorsAreCurrent, EditorsDescribe
    <2>7. \A d \in Decks : summary'[d] = summary[d] \/ summary'[d] = s.summary
      BY <1>0, <1>25 DEF ServeSave, ServerOK
    <2> HIDE DEF s
    <2>8. StoredDescribesLibrary'
      BY <1>0, <2>1, <2>6, <2>7 DEF StoredDescribesLibrary
    <2> QED
      BY <2>3, <2>4, <2>5, <2>8
  <1>26. ASSUME NEW e \in Editors, SaveFails(e)
        PROVE  StoredDescribesLibrary' /\ WritesAlone' /\ HomesAreCurrent' /\ EditorsAreCurrent'
    BY <1>0, <1>26 DEF SaveFails, serverVars, homeVars, editVars, StoredDescribesLibrary, WritesAlone, HomesAreCurrent, EditorsAreCurrent, CopyIsCurrent, Alone, ServerOK, HomesOK, EditorsOK
  <1>27. ASSUME UNCHANGED vars
        PROVE  StoredDescribesLibrary' /\ WritesAlone' /\ HomesAreCurrent' /\ EditorsAreCurrent'
    BY <1>0, <1>27 DEF vars, serverVars, homeVars, editVars, StoredDescribesLibrary, WritesAlone, HomesAreCurrent, EditorsAreCurrent, CopyIsCurrent, Alone
  <1>28. StoredDescribesLibrary' /\ WritesAlone' /\ HomesAreCurrent' /\ EditorsAreCurrent'
    BY <1>1, <1>2, <1>3, <1>4, <1>5, <1>6, <1>7, <1>8, <1>9, <1>10, <1>11, <1>12, <1>13, <1>14, <1>15, <1>16, <1>17, <1>18, <1>19, <1>20, <1>21, <1>22, <1>23, <1>24, <1>25, <1>26, <1>27 DEF Next, HomeStep, EditorStep
  <1> QED
    BY <1>t, <1>28 DEF CurrentInv

\* When no library write overlaps a computation or a save, a stored summary was
\* computed with the annotations the account has now: the two kinds of write
\* the server makes clear every summary they make false.
THEOREM StoredDescribesLibraryHolds ==
    ASSUME Overlaps = {}
    PROVE  SafetySpec => []StoredDescribesLibrary
  <1>1. CurrentInv /\ [Next]_vars => CurrentInv'
    BY StepCurrent
  <1>2. CurrentInv => StoredDescribesLibrary
    BY DEF CurrentInv
  <1> QED
    BY <1>1, <1>2, InitCurrent, PTL DEF SafetySpec


\* Well-formed pages, and every stored summary of the deck stored with it.
THEOREM StoredIsOfItsDeckHolds == SafetySpec => []StoredIsOfItsDeck
  BY TypeCorrect, StoredDescribesDeckHolds, PTL DEF StoredIsOfItsDeck

=============================================================================
