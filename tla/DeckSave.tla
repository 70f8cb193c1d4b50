------------------------------ MODULE DeckSave ------------------------------
(***************************************************************************)
(* Saving a deck: the pages that edit it (saveDeck and loadDeck of         *)
(* web/src/store/deckStore.ts), the drafts each keeps in its browser       *)
(* (web/src/lib/draft.ts), and the server's revision check                 *)
(* (server/src/routes/decks.ts).  One deck, several pages, each in a       *)
(* browser of its own: a draft survives its page, which may be closed or   *)
(* reloaded at any time.  A save request may reach the server late, and    *)
(* its page may be told of a failure whatever became of it; one that is    *)
(* lost is one the server never takes.                                     *)
(*                                                                         *)
(* A configuration is one value.  IndexedDB transactions commit in the     *)
(* order they are begun and are taken as done at once; the awaits between  *)
(* them are steps.                                                         *)
(***************************************************************************)
EXTENDS Naturals, Sequences

CONSTANTS
    Pages,              \* the pages on which the deck is edited
    Contents,           \* configurations of the deck
    NoContent,          \* no draft
    NoSave,             \* saving = false
    SaveWhileLoading,   \* the user may press Ctrl+S while a deck is loading
    MaxRevision,        \* bound: revisions of the deck
    MaxOpenings,        \* bound: openings of the deck by each page
    MaxEdits            \* bound: edits of each page between two openings (editRevision)

ASSUME DeckSaveAssumption ==
    /\ NoContent \notin Contents
    /\ SaveWhileLoading \in BOOLEAN
    /\ MaxRevision \in Nat \ {0} /\ MaxOpenings \in [Pages -> Nat] /\ MaxEdits \in [Pages -> Nat]

VARIABLES
    history,        \* contents of the deck's revisions: the last one is stored
    written,        \* history: the revision each revision was edited from
    requests,       \* save requests on their way to the server
    draft,          \* draft kept by each page's browser
    opening,        \* number of each page's latest opening
    phase,          \* what that opening waits for
    answer,         \* revision read for it
    loaded,         \* the page's store holds the deck
    content,        \* the configuration being edited
    revision,       \* the revision it is saved against
    dirty,          \* "modified, not saved"
    edits,          \* editRevision
    offered,        \* draft offered to the user (draftAvailable)
    saving,         \* the save under way, or NoSave
    origin,         \* history: the last revision that went into the content
    uncaptured      \* history: a draft was resumed or discarded since the last edit

serverVars == <<history, written, requests>>
loadVars == <<opening, phase, answer, loaded>>
editVars == <<content, revision, dirty, edits, origin>>
draftVars == <<draft, offered, uncaptured>>
vars == <<serverVars, loadVars, editVars, draftVars, saving>>

Revisions == 1..MaxRevision
Drafts == Contents \cup {NoContent}

\* What a save asks of the server; origin is history.
Requests == [page : Pages, expected : Revisions, content : Contents, origin : Revisions]

\* The save of a page: what it asked, the opening and the edits it was asked
\* from, and how far it is.  replaced is history: an opening has replaced the
\* content since.
Saves == [request : Requests, opening : Nat, edits : Nat,
          stage : {"sent", "accepted", "refused", "clearing"}, replaced : BOOLEAN]

ASSUME NoSaveAssumption == NoSave \notin Saves

Stored == Len(history)      \* decks.revision

TypeOK ==
    /\ history \in Seq(Contents) /\ Stored \in Revisions
    /\ written \in Seq(0..MaxRevision) /\ Len(written) = Stored
    /\ requests \subseteq Requests
    /\ draft \in [Pages -> Drafts] /\ offered \in [Pages -> Drafts]
    /\ opening \in [Pages -> Nat]
    /\ phase \in [Pages -> {"none", "asked", "read", "draft", "over"}]
    /\ answer \in [Pages -> Revisions]
    /\ loaded \in [Pages -> BOOLEAN] /\ dirty \in [Pages -> BOOLEAN]
    /\ content \in [Pages -> Contents]
    /\ revision \in [Pages -> Revisions] /\ origin \in [Pages -> Revisions]
    /\ edits \in [Pages -> Nat]
    /\ uncaptured \in [Pages -> BOOLEAN]
    /\ saving \in [Pages -> Saves \cup {NoSave}]

Init ==
    /\ \E c \in Contents :
          /\ history = <<c>>
          /\ content = [p \in Pages |-> c]
    /\ written = <<0>>
    /\ requests = {}
    /\ draft = [p \in Pages |-> NoContent] /\ offered = draft
    /\ opening = [p \in Pages |-> 0] /\ edits = opening
    /\ phase = [p \in Pages |-> "none"]
    /\ answer = [p \in Pages |-> 1] /\ revision = answer /\ origin = answer
    /\ loaded = [p \in Pages |-> FALSE] /\ dirty = loaded /\ uncaptured = loaded
    /\ saving = [p \in Pages |-> NoSave]

\* The deck is on the screen.
Shown(p) == loaded[p] /\ phase[p] = "over"

-----------------------------------------------------------------------------
(* The server *)

\* A new revision of the deck.
Write(c, from) ==
    /\ Stored < MaxRevision
    /\ history' = Append(history, c)
    /\ written' = Append(written, from)

\* The page that waits for this request, if it still does, is answered.
AnswerSave(r, stage) ==
    saving' = [p \in Pages |->
                 IF saving[p] # NoSave /\ saving[p].request = r /\ saving[p].stage = "sent"
                   THEN [saving[p] EXCEPT !.stage = stage]
                   ELSE saving[p]]

\* (mutant) the revision expected is not compared
PutUnchecked(r) ==
    /\ r \in requests
    /\ requests' = requests \ {r}
    /\ Write(r.content, r.origin)
    /\ AnswerSave(r, "accepted")
    /\ UNCHANGED <<loadVars, editVars, draftVars>>

\* PUT /decks/:id, one transaction with the deck's row locked: written under the
\* next revision if the deck is still at the one expected, refused otherwise.
Put(r) ==
    /\ r \in requests
    /\ requests' = requests \ {r}
    /\ \/ /\ r.expected = Stored
          /\ Write(r.content, r.origin)
          /\ AnswerSave(r, "accepted")
       \/ /\ r.expected # Stored
          /\ AnswerSave(r, "refused")
          /\ UNCHANGED <<history, written>>
    /\ UNCHANGED <<loadVars, editVars, draftVars>>

\* PATCH /decks/:id from the home page: another name, whatever the revision.
Rename(c) ==
    /\ Write(c, Stored)
    /\ UNCHANGED <<requests, loadVars, editVars, draftVars, saving>>

-----------------------------------------------------------------------------
(* Opening the deck: loadDeck *)

Open(p) ==
    /\ opening[p] < MaxOpenings[p]
    /\ opening' = [opening EXCEPT ![p] = @ + 1]
    /\ phase' = [phase EXCEPT ![p] = "asked"]
    /\ UNCHANGED <<serverVars, answer, loaded, editVars, draftVars, saving>>

\* GET /decks/:id reads one revision of the deck.
Get(p) ==
    /\ phase[p] = "asked"
    /\ phase' = [phase EXCEPT ![p] = "read"]
    /\ answer' = [answer EXCEPT ![p] = Stored]
    /\ UNCHANGED <<serverVars, opening, loaded, editVars, draftVars, saving>>

\* The configuration read replaces the store's.
LoadAnswer(p) ==
    /\ phase[p] = "read"
    /\ phase' = [phase EXCEPT ![p] = "draft"]
    /\ loaded' = [loaded EXCEPT ![p] = TRUE]
    /\ content' = [content EXCEPT ![p] = history[answer[p]]]
    /\ revision' = [revision EXCEPT ![p] = answer[p]]
    /\ origin' = [origin EXCEPT ![p] = answer[p]]
    /\ answer' = [answer EXCEPT ![p] = 1]
    /\ dirty' = [dirty EXCEPT ![p] = FALSE]
    /\ edits' = [edits EXCEPT ![p] = 0]
    /\ offered' = [offered EXCEPT ![p] = NoContent]
    /\ uncaptured' = [uncaptured EXCEPT ![p] = FALSE]
    /\ saving' = [saving EXCEPT ![p] = IF @ = NoSave THEN @ ELSE [@ EXCEPT !.replaced = TRUE]]
    /\ UNCHANGED <<serverVars, opening, draft>>

\* The deck cannot be read: what the store holds stays.
LoadFails(p) ==
    /\ phase[p] \in {"asked", "read"}
    /\ phase' = [phase EXCEPT ![p] = "over"]
    /\ answer' = [answer EXCEPT ![p] = 1]
    /\ UNCHANGED <<serverVars, opening, loaded, editVars, draftVars, saving>>

\* The browser's draft is offered when it differs from what was read.
DraftAnswer(p) ==
    /\ phase[p] = "draft"
    /\ phase' = [phase EXCEPT ![p] = "over"]
    /\ offered' = [offered EXCEPT ![p] =
                     IF draft[p] # history[origin[p]] THEN draft[p] ELSE NoContent]
    /\ UNCHANGED <<serverVars, opening, answer, loaded, editVars, draft, uncaptured, saving>>

-----------------------------------------------------------------------------
(* Editing *)

\* Any edit: markDirty, and the draft is written with it.
Edit(p, c) ==
    /\ Shown(p) /\ edits[p] < MaxEdits[p]
    /\ content' = [content EXCEPT ![p] = c]
    /\ dirty' = [dirty EXCEPT ![p] = TRUE]
    /\ edits' = [edits EXCEPT ![p] = @ + 1]
    /\ draft' = [draft EXCEPT ![p] = c]
    /\ uncaptured' = [uncaptured EXCEPT ![p] = FALSE]
    /\ UNCHANGED <<serverVars, loadVars, revision, origin, offered, saving>>

\* The draft offered replaces the content; the revision read is kept, and the
\* draft in the browser is left as it is.
ResumeDraft(p) ==
    /\ Shown(p) /\ edits[p] < MaxEdits[p]
    /\ offered[p] # NoContent
    /\ content' = [content EXCEPT ![p] = offered[p]]
    /\ dirty' = [dirty EXCEPT ![p] = TRUE]
    /\ edits' = [edits EXCEPT ![p] = @ + 1]
    /\ offered' = [offered EXCEPT ![p] = NoContent]
    /\ uncaptured' = [uncaptured EXCEPT ![p] = TRUE]
    /\ UNCHANGED <<serverVars, loadVars, revision, origin, draft, saving>>

\* The draft offered is dropped, and with it the one in the browser.
DiscardDraft(p) ==
    /\ Shown(p)
    /\ offered[p] # NoContent
    /\ offered' = [offered EXCEPT ![p] = NoContent]
    /\ draft' = [draft EXCEPT ![p] = NoContent]
    /\ uncaptured' = [uncaptured EXCEPT ![p] = TRUE]
    /\ UNCHANGED <<serverVars, loadVars, editVars, saving>>

-----------------------------------------------------------------------------
(* Saving: saveDeck *)

\* One save at a time.  The key is listened to as soon as the page is mounted,
\* so the deck saved may be one that is being opened again.
SaveDeck(p) ==
    /\ loaded[p] /\ saving[p] = NoSave
    /\ SaveWhileLoading \/ Shown(p)
    /\ LET request == [page |-> p, expected |-> revision[p], content |-> content[p],
                       origin |-> origin[p]]
       IN  /\ requests' = requests \cup {request}
           /\ saving' = [saving EXCEPT ![p] =
                           [request |-> request, opening |-> opening[p], edits |-> edits[p],
                            stage |-> "sent", replaced |-> FALSE]]
    /\ UNCHANGED <<history, written, loadVars, editVars, draftVars>>

SameOpening(p) == opening[p] = saving[p].opening

\* (mutant) edits made since the save was asked for are forgotten
NothingEdited(p) == TRUE

Unchanged(p) == edits[p] = saving[p].edits

NextRevision(p) == saving[p].request.expected + 1

\* The save was accepted: the opening that asked for it holds the new revision,
\* is clean if nothing was edited since, and drafts its edits otherwise.
Saved(p) ==
    /\ saving[p] # NoSave /\ saving[p].stage = "accepted"
    /\ saving' = [saving EXCEPT ![p].stage = "clearing"]
    /\ IF SameOpening(p)
         THEN /\ revision' = [revision EXCEPT ![p] = NextRevision(p)]
              /\ origin' = [origin EXCEPT ![p] =
                              IF saving[p].replaced THEN @ ELSE saving[p].request.expected + 1]
              /\ dirty' = [dirty EXCEPT ![p] = ~Unchanged(p)]
              /\ draft' = [draft EXCEPT ![p] = IF Unchanged(p) THEN @ ELSE content[p]]
         ELSE UNCHANGED <<revision, origin, dirty, draft>>
    /\ UNCHANGED <<serverVars, loadVars, content, edits, offered, uncaptured>>

\* (mutant) the draft is deleted whatever it holds
ClearAnyDraft(p) ==
    /\ saving[p] # NoSave /\ saving[p].stage = "clearing"
    /\ draft' = [draft EXCEPT ![p] = NoContent]
    /\ saving' = [saving EXCEPT ![p] = NoSave]
    /\ UNCHANGED <<serverVars, loadVars, editVars, offered, uncaptured>>

\* The draft is deleted if it is what was saved, and the save is over.
ClearDraft(p) ==
    /\ saving[p] # NoSave /\ saving[p].stage = "clearing"
    /\ draft' = [draft EXCEPT ![p] =
                   IF @ = saving[p].request.content THEN NoContent ELSE @]
    /\ saving' = [saving EXCEPT ![p] = NoSave]
    /\ UNCHANGED <<serverVars, loadVars, editVars, offered, uncaptured>>

\* The save was refused, or its answer is lost: the deck stays modified.
SaveFails(p) ==
    /\ saving[p] # NoSave /\ saving[p].stage \in {"sent", "refused", "accepted"}
    /\ dirty' = [dirty EXCEPT ![p] = IF SameOpening(p) THEN TRUE ELSE @]
    /\ saving' = [saving EXCEPT ![p] = NoSave]
    /\ UNCHANGED <<serverVars, loadVars, content, revision, edits, origin, draftVars>>

\* The page is closed or reloaded: its store is gone, its requests may still
\* arrive, and the draft stays in the browser.
Close(p) ==
    /\ opening[p] > 0
    /\ phase' = [phase EXCEPT ![p] = "none"]
    /\ answer' = [answer EXCEPT ![p] = 1]
    /\ loaded' = [loaded EXCEPT ![p] = FALSE]
    /\ content' = [content EXCEPT ![p] = history[1]]
    /\ revision' = [revision EXCEPT ![p] = 1]
    /\ origin' = [origin EXCEPT ![p] = 1]
    /\ dirty' = [dirty EXCEPT ![p] = FALSE]
    /\ edits' = [edits EXCEPT ![p] = 0]
    /\ offered' = [offered EXCEPT ![p] = NoContent]
    /\ uncaptured' = [uncaptured EXCEPT ![p] = FALSE]
    /\ saving' = [saving EXCEPT ![p] = NoSave]
    /\ UNCHANGED <<serverVars, opening, draft>>

-----------------------------------------------------------------------------

SaveEnds(p) == Saved(p) \/ ClearDraft(p) \/ SaveFails(p)

Next ==
    \/ \E r \in requests : Put(r)
    \/ \E c \in Contents : Rename(c)
    \/ \E p \in Pages :
         \/ Open(p) \/ Get(p) \/ LoadAnswer(p) \/ LoadFails(p) \/ DraftAnswer(p)
         \/ \E c \in Contents : Edit(p, c)
         \/ ResumeDraft(p) \/ DiscardDraft(p)
         \/ SaveDeck(p) \/ SaveEnds(p)
         \/ Close(p)

Spec == Init /\ [][Next]_vars

-----------------------------------------------------------------------------
(* Properties *)

\* Nothing is overwritten unseen: every revision of the deck was edited from the
\* one before it, whoever saved it and however late the request arrived.
NoLostUpdate == \A r \in 1..Stored : written[r] = r - 1

\* A page that says "saved" holds the configuration of the revision it saves
\* against, which the server keeps.
CleanIsSaved == \A p \in Pages : loaded[p] /\ ~dirty[p] =>
    revision[p] <= Stored /\ content[p] = history[revision[p]]

\* saveDeck's comment: no answer puts a revision on a configuration reloaded
\* since.  The revision a page saves against is the last one that went into its
\* content.
HoldsItsRevision == \A p \in Pages : loaded[p] => revision[p] = origin[p]

Recoverable(p) ==
    draft[p] = content[p] \/ \E r \in 1..Stored : history[r] = content[p]

\* Work that is not saved survives the page: the browser's draft holds it, or
\* the server does, except between a draft resumed or discarded and the next edit.
DraftHoldsUnsaved == \A p \in Pages : loaded[p] /\ dirty[p] /\ ~uncaptured[p] => Recoverable(p)

\* A page knows what it holds: saved when it says so, against the revision its content is of.
PageKnowsWhatItHolds == TypeOK /\ CleanIsSaved /\ HoldsItsRevision
=============================================================================
