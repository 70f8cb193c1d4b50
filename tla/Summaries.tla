----------------------------- MODULE Summaries -----------------------------
(***************************************************************************)
(* The preview of each deck on the home page.  decks.summary is a cache    *)
(* the server keeps but cannot compute: an editor joins the figures of its *)
(* fresh result to a save (summaryOfState), a home page computes what is   *)
(* missing and sends it back (usePreviews of                               *)
(* web/src/components/HomePage.tsx), and every write of the account's      *)
(* library or of the common references clears the decks that contain the   *)
(* card (server/src/routes/library.ts and references.ts).                  *)
(*                                                                         *)
(* The figures of a deck are the annotations of the cards it contains:     *)
(* equal figures, equal inputs of the engine.  Every page runs the same    *)
(* build, so the engine version a summary carries is left out.             *)
(*                                                                         *)
(* A page gets its library and its decks when the server reads them: until *)
(* it uses them nothing else looks at them.  Recompute is what keeps an    *)
(* editor's result true to its page, DeckSave what keeps its revision      *)
(* true to the deck; here the answer of a save comes with the save.        *)
(***************************************************************************)
EXTENDS Naturals, FiniteSets

CONSTANTS
    Decks,          \* the decks of one account
    Cards,          \* cards the account or a referent annotates
    Notes,          \* annotations of a card
    Contents,       \* main decks: sets of cards
    Homes,          \* home pages
    Editors,        \* editor pages
    NoSummary,      \* summary = null
    None,           \* nothing under way
    Overlaps,       \* what may happen at the same time, see below
    MaxRevision,    \* bound: revisions of a deck
    MaxLists        \* bound: lists of decks read by one home page

AllOverlaps == {"writeWhileComputing",  \* the library is written while another
                                        \* page computes, by any page or account
                "saveWhileWriting",     \* the user saves while the annotation
                                        \* just made is being written
                "answerLost"}           \* a library write is done and its answer
                                        \* lost

AllFigures == UNION {[c -> Notes] : c \in Contents}

ASSUME SummariesAssumption ==
    /\ Contents \subseteq SUBSET Cards
    /\ Overlaps \subseteq AllOverlaps
    /\ NoSummary \notin AllFigures
    /\ MaxRevision \in Nat \ {0} /\ MaxLists \in Nat

VARIABLES
    content,    \* the main deck stored for each deck
    revision,   \* its revision
    summary,    \* the figures stored with it, or NoSummary
    notes,      \* the annotations stored for the account
    puts,       \* summaries sent by home pages
    listing,    \* lists on their way: the decks without a summary in each
    lists,      \* how many lists each home page has read
    pending,    \* decks without a summary in the list shown (pendingKey)
    previews,   \* state of each preview computed here
    stage,      \* what the home page's computation waits for
    todo,       \* decks it still has to compute
    library,    \* the library it computes with
    detail,     \* the deck being computed, or None
    phase,      \* of an editor: the deck is being opened, is open, or neither
    deck,       \* the deck it opened last
    base,       \* the revision it saves against
    edited,     \* its main deck
    copy,       \* its library
    result,     \* its figures if they are fresh, or NoSummary
    note,       \* its library write under way, or None
    save        \* its save under way, or None

serverVars == <<content, revision, summary, notes>>
homeVars == <<listing, lists, pending, previews, stage, todo, library, detail>>
editVars == <<phase, deck, base, edited, copy, result, note, save>>
vars == <<serverVars, puts, homeVars, editVars>>

Libraries == [Cards -> Notes]
Summaries == AllFigures \cup {NoSummary}
Revisions == 1..MaxRevision
Puts == [deck : Decks, expected : Revisions, figures : AllFigures]
Details == [deck : Decks, content : Contents, revision : Revisions]
Saves == [deck : Decks, expected : Revisions, content : Contents, summary : Summaries]

\* A library write annotates one card, or may touch every card (a label, a cap,
\* an imported archive).
Scopes == {{c} : c \in Cards} \cup {Cards}
Changes == UNION {[cs -> Notes] : cs \in Scopes}
Writes == [change : Changes, done : BOOLEAN]

ASSUME NoneAssumption == None \notin Details \cup Writes \cup Saves

Figures(main, lib) == [c \in main |-> lib[c]]

ServerOK ==
    /\ content \in [Decks -> Contents] /\ revision \in [Decks -> Revisions]
    /\ summary \in [Decks -> Summaries]
    /\ notes \in Libraries

HomesOK ==
    /\ puts \subseteq Puts
    /\ listing \in [Homes -> SUBSET SUBSET Decks]
    /\ lists \in [Homes -> 0..MaxLists]
    /\ pending \in [Homes -> SUBSET Decks] /\ todo \in [Homes -> SUBSET Decks]
    /\ previews \in [Homes -> [Decks -> {"none", "computing", "ready", "unavailable"}]]
    /\ stage \in [Homes -> {"idle", "library", "loop", "compute"}]
    /\ library \in [Homes -> Libraries]
    /\ detail \in [Homes -> Details \cup {None}]
    /\ \A h \in Homes : stage[h] = "compute" => detail[h] # None

EditorsOK ==
    /\ phase \in [Editors -> {"closed", "opening", "open"}]
    /\ deck \in [Editors -> Decks] /\ base \in [Editors -> Revisions]
    /\ edited \in [Editors -> Contents] /\ copy \in [Editors -> Libraries]
    /\ result \in [Editors -> Summaries]
    /\ note \in [Editors -> Writes \cup {None}]
    /\ save \in [Editors -> Saves \cup {None}]

TypeOK == ServerOK /\ HomesOK /\ EditorsOK

Init ==
    /\ content \in [Decks -> Contents] /\ revision = [d \in Decks |-> 1]
    /\ summary = [d \in Decks |-> NoSummary]
    /\ notes \in Libraries
    /\ puts = {}
    /\ listing = [h \in Homes |-> {}]
    /\ lists = [h \in Homes |-> 0]
    /\ pending = [h \in Homes |-> {}] /\ todo = pending
    /\ previews = [h \in Homes |-> [d \in Decks |-> "none"]]
    /\ stage = [h \in Homes |-> "idle"]
    /\ library = [h \in Homes |-> notes] /\ detail = [h \in Homes |-> None]
    /\ phase = [e \in Editors |-> "closed"]
    /\ deck \in [Editors -> Decks] /\ base = [e \in Editors |-> 1]
    /\ edited = [e \in Editors |-> content[deck[e]]]
    /\ copy = [e \in Editors |-> notes]
    /\ result = [e \in Editors |-> NoSummary]
    /\ note = [e \in Editors |-> None] /\ save = note

\* No home page computes or sends a preview.
HomesQuiet == puts = {} /\ \A h \in Homes : stage[h] = "idle"

\* No other editor is at work.
Alone(e) == \A f \in Editors \ {e} : phase[f] = "closed" /\ note[f] = None /\ save[f] = None

\* No editor is open or has sent anything.
EditorsQuiet == \A e \in Editors : phase[e] = "closed" /\ note[e] = None /\ save[e] = None

\* No library write is under way.
LibraryQuiet == \A e \in Editors : note[e] = None

-----------------------------------------------------------------------------
(* The server *)

Annotated(lib, change) ==
    [c \in Cards |-> IF c \in DOMAIN change THEN change[c] ELSE lib[c]]

\* The decks a write clears: those that contain the card, or all of them.
ConcernedByCards(change) == {d \in Decks : DOMAIN change \subseteq content[d]}
Concerned(change) ==
    {d \in Decks : DOMAIN change = Cards \/ DOMAIN change \subseteq content[d]}

\* libraryWrite: the annotations and the summaries in one transaction.
WriteLibrary(change) ==
    /\ notes' = Annotated(notes, change)
    /\ summary' = [d \in Decks |-> IF d \in Concerned(change) THEN NoSummary ELSE summary[d]]
    /\ UNCHANGED <<content, revision>>

\* Annotations written by another page, or a common reference by a referent.
OtherWrites(change) ==
    /\ "writeWhileComputing" \in Overlaps \/ (HomesQuiet /\ EditorsQuiet)
    /\ WriteLibrary(change)
    /\ UNCHANGED <<puts, homeVars, editVars>>

\* The deck is renamed: a new revision, the same figures.
Rename(d) ==
    /\ revision[d] < MaxRevision
    /\ revision' = [revision EXCEPT ![d] = @ + 1]
    /\ UNCHANGED <<content, summary, notes, puts, homeVars, editVars>>

\* A summary is of the deck stored if its size is (checkSummaryMatches).
SameSize(figures, main) == Cardinality(DOMAIN figures) = Cardinality(main)

AcceptsAnyRevision(r) == SameSize(r.figures, content[r.deck])
Accepts(r) ==
    /\ revision[r.deck] = r.expected
    /\ SameSize(r.figures, content[r.deck])

\* PUT /decks/:id/summary.  A refusal is ignored by the page that sent it.
Put(r) ==
    /\ puts' = puts \ {r}
    /\ summary' = IF Accepts(r) THEN [summary EXCEPT ![r.deck] = r.figures] ELSE summary
    /\ UNCHANGED <<content, revision, notes, homeVars, editVars>>

Lose(r) ==
    /\ puts' = puts \ {r}
    /\ UNCHANGED <<serverVars, homeVars, editVars>>

-----------------------------------------------------------------------------
(* A home page *)

\* The list is asked for when the page opens and after a duplication or a
\* deletion.
ReadList(h) ==
    /\ lists[h] < MaxLists
    /\ lists' = [lists EXCEPT ![h] = @ + 1]
    /\ listing' = [listing EXCEPT ![h] = @ \cup {{d \in Decks : summary[d] = NoSummary}}]
    /\ UNCHANGED <<serverVars, puts, pending, previews, stage, todo, library, detail, editVars>>

\* What an effect run for these decks has to compute.
NeverStarted(h, ds) == {d \in ds : previews[h][d] = "none"}
NotReady(h, ds) == {d \in ds : previews[h][d] # "ready"}

\* The decks without a summary have changed: the computation under way is given
\* up with its client, and another starts.
Restart(h, ds) ==
    /\ pending' = [pending EXCEPT ![h] = ds]
    /\ todo' = [todo EXCEPT ![h] = NotReady(h, ds)]
    /\ stage' = [stage EXCEPT ![h] = IF NotReady(h, ds) = {} THEN "idle" ELSE "library"]
    /\ previews' = [previews EXCEPT ![h] =
                      [d \in Decks |-> IF d \in NotReady(h, ds) THEN "computing" ELSE @[d]]]
    /\ detail' = [detail EXCEPT ![h] = None]
    /\ UNCHANGED library

AdoptList(h) ==
    \E ds \in listing[h] :
       /\ listing' = [listing EXCEPT ![h] = @ \ {ds}]
       /\ IF ds = pending[h]
            THEN UNCHANGED <<pending, previews, stage, todo, library, detail>>
            ELSE Restart(h, ds)
       /\ UNCHANGED <<serverVars, puts, lists, editVars>>

\* The list asked for does not come: the page shows no deck.
ListFails(h) ==
    /\ pending[h] # {}
    /\ Restart(h, {})
    /\ UNCHANGED <<serverVars, puts, listing, lists, editVars>>

TakeLibrary(h) ==
    /\ stage[h] = "library"
    /\ "writeWhileComputing" \in Overlaps \/ LibraryQuiet
    /\ library' = [library EXCEPT ![h] = notes]
    /\ stage' = [stage EXCEPT ![h] = "loop"]
    /\ UNCHANGED <<serverVars, puts, listing, lists, pending, previews, todo, detail, editVars>>

\* Without the library no deck is computed.
LibraryFails(h) ==
    /\ stage[h] = "library"
    /\ previews' = [previews EXCEPT ![h] =
                      [d \in Decks |-> IF d \in todo[h] THEN "unavailable" ELSE @[d]]]
    /\ todo' = [todo EXCEPT ![h] = {}]
    /\ stage' = [stage EXCEPT ![h] = "idle"]
    /\ UNCHANGED <<serverVars, puts, listing, lists, pending, library, detail, editVars>>

\* The next deck and the texts of its cards.
TakeDeck(h, d) ==
    /\ stage[h] = "loop" /\ d \in todo[h]
    /\ detail' = [detail EXCEPT ![h] = [deck |-> d, content |-> content[d], revision |-> revision[d]]]
    /\ stage' = [stage EXCEPT ![h] = "compute"]
    /\ UNCHANGED <<serverVars, puts, listing, lists, pending, previews, todo, library, editVars>>

\* The loop is done with a deck.
Done(h, d, preview) ==
    /\ previews' = [previews EXCEPT ![h][d] = preview]
    /\ todo' = [todo EXCEPT ![h] = @ \ {d}]
    /\ stage' = [stage EXCEPT ![h] = IF todo[h] = {d} THEN "idle" ELSE "loop"]
    /\ detail' = [detail EXCEPT ![h] = None]
    /\ UNCHANGED <<serverVars, listing, lists, pending, library, editVars>>

DeckFails(h, d) ==
    /\ stage[h] = "loop" /\ d \in todo[h]
    /\ Done(h, d, "unavailable")
    /\ UNCHANGED puts

\* The preview is shown, then sent with the revision that was read.
Computed(h) ==
    /\ stage[h] = "compute"
    /\ Done(h, detail[h].deck, "ready")
    /\ puts' = puts \cup {[deck |-> detail[h].deck, expected |-> detail[h].revision,
                            figures |-> Figures(detail[h].content, library[h])]}

\* The engine fails, or has no opening hand to count.
ComputeFails(h) ==
    /\ stage[h] = "compute"
    /\ Done(h, detail[h].deck, "unavailable")
    /\ UNCHANGED puts

\* The page is left; what it has sent is still on its way.
Leave(h) ==
    /\ listing' = [listing EXCEPT ![h] = {}]
    /\ pending' = [pending EXCEPT ![h] = {}]
    /\ todo' = [todo EXCEPT ![h] = {}]
    /\ previews' = [previews EXCEPT ![h] = [d \in Decks |-> "none"]]
    /\ stage' = [stage EXCEPT ![h] = "idle"]
    /\ detail' = [detail EXCEPT ![h] = None]
    /\ UNCHANGED <<serverVars, puts, lists, library, editVars>>

-----------------------------------------------------------------------------
(* An editor *)

\* Opening a deck waits for the library writes under way, then reads the library.
OpenLibrary(e) ==
    /\ note[e] = None /\ save[e] = None
    /\ "writeWhileComputing" \in Overlaps \/ LibraryQuiet
    /\ copy' = [copy EXCEPT ![e] = notes]
    /\ phase' = [phase EXCEPT ![e] = "opening"]
    /\ UNCHANGED <<serverVars, puts, homeVars, deck, base, edited, result, note, save>>

OpenDeck(e, d) ==
    /\ phase[e] = "opening"
    /\ phase' = [phase EXCEPT ![e] = "open"]
    /\ deck' = [deck EXCEPT ![e] = d]
    /\ base' = [base EXCEPT ![e] = revision[d]]
    /\ edited' = [edited EXCEPT ![e] = content[d]]
    /\ result' = [result EXCEPT ![e] = NoSummary]
    /\ UNCHANGED <<serverVars, puts, homeVars, copy, note, save>>

Close(e) ==
    /\ phase[e] # "closed"
    /\ phase' = [phase EXCEPT ![e] = "closed"]
    /\ UNCHANGED <<serverVars, puts, homeVars, deck, base, edited, copy, result, note, save>>

Edit(e, main) ==
    /\ phase[e] = "open"
    /\ main # edited[e]
    /\ edited' = [edited EXCEPT ![e] = main]
    /\ result' = [result EXCEPT ![e] = NoSummary]
    /\ UNCHANGED <<serverVars, puts, homeVars, phase, deck, base, copy, note, save>>

Recomputed(e) ==
    /\ phase[e] = "open" /\ result[e] = NoSummary
    /\ result' = [result EXCEPT ![e] = Figures(edited[e], copy[e])]
    /\ UNCHANGED <<serverVars, puts, homeVars, phase, deck, base, edited, copy, note, save>>

\* Annotations are written at once, and adopted when the server has answered.
AskWrite(e, change) ==
    /\ phase[e] = "open" /\ note[e] = None
    /\ "writeWhileComputing" \in Overlaps \/ (HomesQuiet /\ Alone(e))
    /\ "saveWhileWriting" \in Overlaps \/ save[e] = None
    /\ note' = [note EXCEPT ![e] = [change |-> change, done |-> FALSE]]
    /\ UNCHANGED <<serverVars, puts, homeVars, phase, deck, base, edited, copy, result, save>>

ServeWrite(e) ==
    /\ note[e] # None /\ ~note[e].done
    /\ WriteLibrary(note[e].change)
    /\ note' = [note EXCEPT ![e].done = TRUE]
    /\ UNCHANGED <<puts, homeVars, phase, deck, base, edited, copy, result, save>>

\* The result stays when the engine's input does (libraryCalc); a label or a
\* cap always invalidates it.
KeepsResult(e, change) ==
    /\ DOMAIN change # Cards
    /\ Figures(edited[e], Annotated(copy[e], change)) = Figures(edited[e], copy[e])

WriteAnswer(e) ==
    /\ note[e] # None /\ note[e].done
    /\ copy' = [copy EXCEPT ![e] = Annotated(@, note[e].change)]
    /\ result' = [result EXCEPT ![e] = IF KeepsResult(e, note[e].change) THEN @ ELSE NoSummary]
    /\ note' = [note EXCEPT ![e] = None]
    /\ UNCHANGED <<serverVars, puts, homeVars, phase, deck, base, edited, save>>

\* The write is refused or lost, or only its answer is: nothing is adopted.
WriteFails(e) ==
    /\ note[e] # None
    /\ note[e].done => "answerLost" \in Overlaps
    /\ note' = [note EXCEPT ![e] = None]
    /\ UNCHANGED <<serverVars, puts, homeVars, phase, deck, base, edited, copy, result, save>>

\* The figures are joined if they are fresh (summaryOfState).
Save(e) ==
    /\ phase[e] = "open" /\ save[e] = None
    /\ "saveWhileWriting" \in Overlaps \/ note[e] = None
    /\ save' = [save EXCEPT ![e] = [deck |-> deck[e], expected |-> base[e],
                                    content |-> edited[e], summary |-> result[e]]]
    /\ UNCHANGED <<serverVars, puts, homeVars, phase, deck, base, edited, copy, result, note>>

\* PUT /decks/:id: the configuration, and the summary that came with it or none.
ServeSave(e) ==
    /\ save[e] # None
    /\ LET s == save[e] IN
         IF revision[s.deck] = s.expected
           THEN /\ revision[s.deck] < MaxRevision
                /\ content' = [content EXCEPT ![s.deck] = s.content]
                /\ revision' = [revision EXCEPT ![s.deck] = @ + 1]
                /\ summary' = [summary EXCEPT ![s.deck] = s.summary]
                /\ base' = [base EXCEPT ![e] = s.expected + 1]
           ELSE UNCHANGED <<content, revision, summary, base>>
    /\ save' = [save EXCEPT ![e] = None]
    /\ UNCHANGED <<notes, puts, homeVars, phase, deck, edited, copy, result, note>>

SaveFails(e) ==
    /\ save[e] # None
    /\ save' = [save EXCEPT ![e] = None]
    /\ UNCHANGED <<serverVars, puts, homeVars, phase, deck, base, edited, copy, result, note>>

-----------------------------------------------------------------------------
HomeStep(h) ==
    \/ ReadList(h) \/ AdoptList(h) \/ ListFails(h)
    \/ TakeLibrary(h) \/ LibraryFails(h)
    \/ \E d \in Decks : TakeDeck(h, d) \/ DeckFails(h, d)
    \/ Computed(h) \/ ComputeFails(h) \/ Leave(h)

EditorStep(e) ==
    \/ OpenLibrary(e) \/ Close(e) \/ Recomputed(e)
    \/ \E d \in Decks : OpenDeck(e, d)
    \/ \E main \in Contents : Edit(e, main)
    \/ \E change \in Changes : AskWrite(e, change)
    \/ ServeWrite(e) \/ WriteAnswer(e) \/ WriteFails(e)
    \/ Save(e) \/ ServeSave(e) \/ SaveFails(e)

Next ==
    \/ \E change \in Changes : OtherWrites(change)
    \/ \E d \in Decks : Rename(d)
    \/ \E r \in puts : Put(r) \/ Lose(r)
    \/ \E h \in Homes : HomeStep(h)
    \/ \E e \in Editors : EditorStep(e)

\* A home page's answers arrive or fail, and its computations end (ComputationEnds
\* of ComputeClient).
Fairness ==
    \A h \in Homes :
        /\ WF_vars(AdoptList(h))
        /\ WF_vars(TakeLibrary(h) \/ LibraryFails(h))
        /\ WF_vars(\E d \in Decks : TakeDeck(h, d) \/ DeckFails(h, d))
        /\ WF_vars(Computed(h) \/ ComputeFails(h))

SafetySpec == Init /\ [][Next]_vars
Spec == SafetySpec /\ Fairness

-----------------------------------------------------------------------------
(* Safety *)

\* A stored summary is of the deck stored with it, whichever page computed it,
\* whatever was saved meanwhile and however late it arrives.
StoredDescribesDeck ==
    \A d \in Decks : summary[d] # NoSummary => DOMAIN summary[d] = content[d]

\* It was computed with the annotations the account has now: « Aucun résumé
\* calculé avec d'autres annotations que les annotations effectives courantes
\* n'est affiché » (docs/annotations-par-defaut.md, R7), and a home page shows
\* what is stored.
StoredDescribesLibrary ==
    \A d \in Decks : summary[d] # NoSummary => summary[d] = Figures(DOMAIN summary[d], notes)

-----------------------------------------------------------------------------
(* Why it holds: what the pages carry. *)

\* A summary on its way is of the revision it expects, if that is still stored.
PutsDescribe ==
    \A r \in puts :
       /\ r.expected <= revision[r.deck]
       /\ r.expected = revision[r.deck] => DOMAIN r.figures = content[r.deck]

\* So is the deck a home page computes.
DetailsDescribe ==
    \A h \in Homes : detail[h] # None =>
       /\ detail[h].revision <= revision[detail[h].deck]
       /\ detail[h].revision = revision[detail[h].deck] => detail[h].content = content[detail[h].deck]

\* An editor's result and the summary it saves are of its main deck.
EditorsDescribe ==
    \A e \in Editors :
       /\ result[e] # NoSummary => DOMAIN result[e] = edited[e]
       /\ save[e] # None /\ save[e].summary # NoSummary => DOMAIN save[e].summary = save[e].content

DescribesInv == TypeOK /\ StoredDescribesDeck /\ PutsDescribe /\ DetailsDescribe /\ EditorsDescribe

\* Without overlaps, a page writes the library alone.
WritesAlone ==
    \A e \in Editors : note[e] # None =>
       /\ puts = {} /\ \A h \in Homes : stage[h] \in {"idle", "library"}
       /\ save[e] = None /\ Alone(e)

\* Then what the pages compute with, and what they send, is current.
HomesAreCurrent ==
    /\ \A h \in Homes : stage[h] \in {"loop", "compute"} => library[h] = notes
    /\ \A r \in puts : r.figures = Figures(DOMAIN r.figures, notes)

CopyIsCurrent(e) ==
    IF note[e] # None /\ note[e].done THEN Annotated(copy[e], note[e].change) = notes
    ELSE copy[e] = notes

EditorsAreCurrent ==
    \A e \in Editors :
       /\ phase[e] # "closed" => CopyIsCurrent(e)
       /\ phase[e] = "open" /\ result[e] # NoSummary => result[e] = Figures(edited[e], copy[e])
       /\ save[e] # None /\ save[e].summary # NoSummary => save[e].summary = Figures(save[e].content, notes)

CurrentInv ==
    DescribesInv /\ StoredDescribesLibrary /\ WritesAlone /\ HomesAreCurrent /\ EditorsAreCurrent

-----------------------------------------------------------------------------
(* Liveness *)

Computing(h, d) == d \in pending[h] /\ previews[h][d] = "computing"

\* A deck shown as being computed does not stay so, though the list is read
\* again and the computations under way given up.
PreviewEnds == \A h \in Homes, d \in Decks : Computing(h, d) ~> ~Computing(h, d)


\* Well-formed pages, and a stored summary that is of the deck stored with it.
StoredIsOfItsDeck == TypeOK /\ StoredDescribesDeck
=============================================================================
