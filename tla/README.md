# Deck-Stats: formal verification

Deck-Stats is a workbench for Yu-Gi-Oh decks. A React page edits a deck, its annotations and
its side plans, computes exact opening-hand probabilities in Web Workers, and saves the deck,
with the figures it has computed, to a Fastify server over PostgreSQL. An ASP.NET back office
administers the accounts.

Every number shown is computed by the page, asynchronously, from state that the user, the
server and other pages change meanwhile. That is where the project starts: when is a figure on
the screen, or stored, the figure of what it is shown beside?

- [The system](#the-system)
- [The modules](#the-modules)
- [The runs](#the-runs)
- [The proofs](#the-proofs)
- [What the runs found in the code](#what-the-runs-found-in-the-code)
- [Known behaviours no run shows](#known-behaviours-no-run-shows)
- [What is not modelled](#what-is-not-modelled)
- [Plan](#plan)

## The system

| Component | State | Operations | Hard because | Correct when |
|---|---|---|---|---|
| Compute client, `web/src/worker/computeClient.ts`, and the worker thread behind it | pending map, current worker, identifiers; the worker's inbox and messages in flight | compute, cancel, cancelAll, dispose, the worker's answers and errors | cancelling the running task kills the worker and reposts the others; answers may be in flight | every promise settles once, in order, and none is forgotten |
| Recomputation of the open deck, `web/src/store/deckStore.ts` | deck, library, result, version, timer, task, openings, library queue | edits, annotations, openings, library writes and their answers | everything awaited may come back after something else has changed | a result not marked stale is of what the page holds; no spinner waits for nothing |
| Saving and drafts, `deckStore.ts`, `lib/draft.ts`, `server/src/routes/decks.ts` | deck and revision on the server; content, revision, dirty flag and draft on each page | open, edit, save, resume or discard a draft, rename, close | several pages; requests late or lost; a page reopened during a save | no revision is overwritten unseen, "saved" is true, unsaved work is in a draft |
| Previews of the home page, `HomePage.tsx`, `lib/summary.ts`, `server/src/routes/library.ts` | `decks.summary` on the server, a computation per home page | compute and send, clear on a library write, joined to a save | a cache the server cannot compute, filled by any page, cleared by others | the summary stored is of the deck stored and of the present annotations |
| Study of an opponent, `web/src/store/study.ts` | studied decks, preview, candidates, three compute clients, two caches | choose an opponent, a position, a selection; synchronise; answers | three clients answer in any order while the user goes on | never a figure of one opponent under another's name |
| Zones and side plans, `lib/zones.ts`, `lib/sidePlan.ts`, `lib/matchups.ts`, `lib/swapPreview.ts` | copies per zone, plans per opponent and position, selection, history of swaps | add, remove, undo, swap, withdraw, copy, clear | plans outlive the deck they were made for | sided decks stay legal, undo undoes |
| Annotations of a deck, `lib/conditions.ts`, `AnnotationGrid.tsx`, `ConditionEditor.tsx`, `ComboList.tsx`, the query panel | starters, dead cards, combos, conditions as trees, saved queries; the tab, the mode and the card in hand | mark a tile, make a combo, edit a condition by its path, save a query | a card leaves while its combos are made; trees are normalised after each gesture; limits only the server knows | a gesture does to the meaning what it says; what is built is accepted and opens again as it was |
| Account library, `lib/effectiveLibrary.ts`, `lib/nonEngine.ts`, `routes/library.ts`, and common references, `routes/references.ts` | choices of an account over common references over detection; each page's copy, its derived values and its queue of gestures; the journal | first write of an aspect copies what it inherits; gestures queue while others write | references change under the accounts, the page redoes the server's cascades by itself, transactions of referents overlap | what the account sees changes only as it asks; a page rebuilds what the server stores; the journal tells the rows |
| Probability engine, `web/src/engine`, `lib/engineModel.ts`, `components/HandWall.tsx` | the model built, the result, the wall of hands | compile a deck, enumerate, match, query, note, compare | combinatorics at the boundaries; hands kept across edits | what is shown is what counting physical hands gives |
| Decks on the server: archives, lists and renames, `routes/decks.ts`, `deckRepository.ts`, `domain/`, `lib/ydk.ts`, `scripts/prune-stale-cards.ts` | decks, configurations, library rows, the card catalogue | create from a list, save, duplicate, delete, export, import, merge; carry dropped passcodes over | an archive carries a library that may contradict the account's; no foreign key renames a passcode, and the site serves meanwhile | what is stored is acceptable; an export comes back; a rename leaves every deck as it read; an import adds and overrides nothing |
| Figures of plans and comparison, `SideSheet.tsx`, `ComparePage.tsx`, `study.ts`, `routes/decks.ts` | a summary per plan, the runs of the pages | compute what is missing one after the other, write, show, compare | decks, annotations and builds change meanwhile; the server cannot compute | a figure shown or written is of its deck; a run ends |
| Accounts and sessions, `server/src/auth`, `routes/auth.ts`, `routes/discord.ts` | users, identities, sessions, cookies, pending Discord cookies | sign up, in and out, sliding expiry, link, unlink | requests of one browser overlap and share its cookie jar | a session ends when it should, and stays ended; every account keeps a way in |
| Back office, `admin/src` | sessions, second factor | sign in, enrol, disable, revoke | concurrent enrolments and codes | a code is accepted once; a confirmed enrolment is not undone |
| Releases, backups and restorations, `deploy/` and `db/migrations` | the database, archives and their fingerprints, the application serving or not | migrate with a purge, back up, verify, restore, roll back | any command may fail, any script be killed, while the site writes or cron backs up | nothing is lost that cannot be had back, and no replay takes back a choice |
| Interface, catalogue, detection, start-up | – | – | – | – |

How they interact. `deckStore` owns a compute client and drives `study`, which owns two more and
shares the first; both read the deck, the plans and the effective library. The store talks to
the server by `fetch`: library writes one by one through a queue, saves one at a time, each
with the revision it expects. The worker answers by messages. The browser keeps a draft per
deck. The home page, the printed sheet and the comparison have compute clients of their own and
share only the database with the rest. The scripts meet the programs in the database; the back
office only reads the accounts of the site.

`PROJECT.json` lists the components with their sources, the definitions with the lines each
stands for, and the hazards: what is hard to test in this code, at the line where it bites,
with the properties aimed at it.

## The modules

| Module | Models | Is composed with |
|---|---|---|
| `TaskService` | what a compute client promises its owner | abstract specification of `ComputeClient`; instantiated by `Recompute` |
| `ComputeClient` | `computeClient.ts`, `engine.worker.ts` | refines `TaskService` |
| `Recompute` | the open deck's result in `deckStore.ts` | instantiates `TaskService` for its client |
| `DeckSave` | `saveDeck`, `loadDeck`, drafts, `PUT`/`GET`/`PATCH /decks/:id` | – |
| `Summaries` | `decks.summary` between home pages, editors and library writes | takes from `Recompute` and `DeckSave` what they establish of an editor |
| `Study` | `study.ts` as the store drives it | keeps `TaskService`'s promises for its three clients |
| `SidePlan` | the gestures of `deckStore.ts` on zones, plans and swaps, and the rules of `lib/` that judge them | extended by `Editor` |
| `Annotations` | the annotations of an open deck, what they mean, what the server says of them | instantiated by `Editor` |
| `Editor` | the open deck: zones, plans and annotations together | extends `SidePlan`, instantiates `Annotations` |
| `References` | the common references and their journal, statement by statement | extended by `Library` |
| `AccountView` | what the library promises an account (D1 and D6 of `docs/annotations-par-defaut.md`) | abstract specification of `Library` |
| `Library` | the rows of an account, its pages, their queues, what they derive | extends `References`, refines `AccountView` |
| `Engine` | the engine's algorithms as operators | extended by `Figures` |
| `Oracle` | the repository's brute-force reference, `engine/reference`, as operators of its own | instantiated by `Figures` |
| `Figures` | what an editor shows of the engine's answers: distribution, contributions, wall of hands, query, comparison | extends `Engine` |
| `Configurations`, `Lists` | what a stored deck is and must satisfy; decks as text | extended by `Prune` and `Archive` |
| `Prune` | `prune-stale-cards.ts` | extended by `Archive` |
| `Archive` | the deck routes, archives and their merge, beside the script | extends `Prune`, `Lists` |
| `PlanFigures` | the figures stored beside the plans | extended by `Comparison` |
| `Comparison` | `ComparePage.tsx` over the same database | extends `PlanFigures` |
| `Sessions` | `server/src/auth` and its routes, the tabs of a browser | extended by `Accounts` |
| `Backoffice` | `Testhand.Admin` | instantiated by `Accounts` |
| `Accounts` | both programs on one database | extends `Sessions`, instantiates `Backoffice` |
| `Deployment` | `deploy.sh`, `backup.sh`, `restore.sh`, the migrations they replay | – |

`MC*` modules give the constants their values for TLC, `*_proofs` modules hold the theorems.

### TaskService and ComputeClient

`ComputeClient` keeps apart what the page can see (`seq`, `pending`, `worker`, `disposed`, as in
the code) and what it cannot: the worker's `inbox`, the request it is `running`, the `events`
posted and not delivered, tagged with the worker they come from. `Compute`, `Cancel`,
`CancelAll` and `Dispose` are the client's methods; `Deliver` is the browser calling `onmessage`
or `onerror`, or nobody if the worker was replaced; `WorkerBegin`, `WorkerFinish` and
`WorkerCrash` are the thread. `Cancel(i)` of the first pending task terminates the worker and
posts what remains to a new one: that it does so rests on the first key of the Map being the
request in hand or its answer being in flight, which is `WorkInOrder`.

`TaskService` has only `seq`, `disposed` and `promise`: a task is submitted, answered when it is
the oldest one waiting, cancelled, or lost with the engine.

### Recompute

The engine's input is a pair: a part from the deck (`local`), a part from the account
(`library`). `Invalidate` is `scheduleCompute`, `Launch` is `launchCompute`, `React` is the
reaction to the settled promise. `Edit`, `Annotate` and `ResumeDraft` are the mutators of the
store, by what they do to the computation: `scheduleCompute` at once, or `annotationCalc`,
which compares the input first. `Write` joins the library queue, `WriteAnswer` is the first
write's acknowledgement with one disjunct per kind (`AckAnnotation`, `AckShared`, `AckLabel`
which is the first half of `applyNonEngine`, `WriteFails`). `Open` … `DraftAnswer` are
`loadDeck`, one action per `await`. Answers of the server carry any library and any deck,
since other pages write them too.

`drift` is a history variable: the library was replaced without a recomputation since the last
model was built. It names the exact exceptions to `FreshDescribesLibrary`. `Faults` enables the
environment faults one by one.

### DeckSave

One deck, several pages, each in its browser. `history` is the sequence of the contents of the
deck's revisions, `written[r]` the revision from which revision `r` was edited. `Put` is the
server's transaction; a request may arrive after its page was told of a failure
(`SaveFails` in stage "sent"), and one that is lost is one that never arrives. `Saved`, `ClearDraft` and `SaveFails` are the three continuations
of `saveDeck`. `origin` (the last revision that went into the page's content), `replaced` and
`uncaptured` are history variables. `SaveWhileLoading` allows Ctrl+S while a deck is loading, as
the code does; the passing runs leave it out to show that nothing else breaks.

### Summaries

Figures are the annotations of the cards of the main deck, so that two summaries are equal when
the engine would have been given the same input. The server's part: `WriteLibrary`
(transaction of `libraryWrite`, with the clearing), `Put` (with `checkSummaryMatches` and the
revision), `ServeSave`, `Rename`. A home page runs `usePreviews`: `stage` says which `await`
the loop is at; a new list restarts it. An editor is reduced to what the summary depends on.
`Overlaps` names what may happen at the same time: with none, the stored summaries are current;
each one breaks it, `saveWhileWriting` being the one a single user meets.

### Study

An engine input is a key, a result the key it was computed from. The pure rules that turn a
deck, a plan and a selection into inputs are choices: an edit of the deck may change every
input. `SyncStudied`, `SyncPreview` and `SyncCandidates` are `sync`, `syncPreview` and
`syncCandidates` of `study.ts`, called in the order the store calls them; the gestures of the
store are grouped by what they call. The caches may lose any entry when a new one enters, which
allows more than the code's oldest-first rule. The order of the main client's tasks is
abstracted: any may be answered first, and the candidates of a selection are launched in any
order.

What the panel shows is derived from the state as `StudyPanel` derives it: the columns, the
preview, the differences between a figure and that of the plan, the candidates with their count.
`VividFiguresAreCurrent` is about figures not shown dimmed, `DifferencesAreOfThePage` about
both terms of a difference, `NothingIsLeftWaiting` about the spinners and the candidates called done.

### SidePlan

A list of cards is the function from cards to copies: the order of a zone or a plan, which no
rule reads, is left out. `deck` has a list per zone, `plans` two lists per opponent and position;
`selection` is the swap being prepared and `swapHistory` the swaps made on the open plan.

The first half of the module is the pure code: `DeckIssues` is `deckLegality`, `PlanIssues` and
`Status` are `applyPlan`, `SwapAllowed` is `trySwap`, `WithSwap` and `WithoutSwap` make and undo
a swap, `FreeCopies` and `Candidates` are `freeCopies` and `candidatesOf`, with the code's
treatment of a card that is in two zones. The second half has one action per gesture. `Adopt`
is a configuration read from the server or a draft: any of `Configurations`, which the
constants' assumption requires to be what `validateMatchups` accepts, no more: a plan may have
nothing to do with the deck.

History variables name the exceptions: `retouched` (the open plan was changed by something
other than the swaps in its history), `grown` and `exempt` (a card removed, added again, then
put back by the toast; or a card above the limit in what was read), and each entry of
`swapHistory` remembers the plan before the swap.

### Annotations and Editor

`starters`, `dead`, `pairs`, `conditions` and `saved` are the annotations stored with the deck; `tab`,
`mode`, `pivot`, `dependent`, `modCount` and `criteria` are where the user is. A start has a source, a
set of one card or of two; a condition is a tree whose groups keep the order of their members, by
which the editor names them. Each gesture of the grid, of the menu, of the list of combos, of the
condition editor and of the query panel is an action with the normalisation the code ends it
with. `SavedAsItIs` puts what is built through the server's parser and back, except where it has
outgrown limits the editor does not know. `ConditionsMeanWhatIsClicked` judges a condition by what
may be left in the deck (`Holds`) and holds each gesture of the condition editor to what it says.

`Editor` puts annotations over `SidePlan`: they see which cards the zones have and outlive them.
Clicks on the account's annotations (hand trap, non-engine) are `Library`'s.

### References and Library

`References` keeps the READ COMMITTED steps of a referent's transaction apart (`read`, `write`,
`commit`), because a row that does not exist yet is not locked; nobody sees a transaction before
its commit. `Library` has the rows of one account (`flags`, `labels`, `categories`, `groups`) as
the server stores them and, per page, `lib` (the raw rows it holds), `eff` (what it derived from
them and shows) and a queue of gestures. A gesture is decided on what the page holds when its turn
comes (`Start`), served in one step (`Serve`: `libraryWrite` locks the account's row) and adopted
when it is acknowledged (`Adopt`), with the page's own version of the cascades. `Read` and
`AdoptReading` are the bootstrap or the reading of an opening, whose answer may be late.
`KeepsItsPromises` is the refinement of `AccountView`: a value seen changes by a choice, a
withdrawn choice, a reference where nothing is chosen, or the life of a shared cap.

History variables name the exceptions: `reading.late`, an answer adopted after an acknowledgement
it does not contain, and a gesture whose answer was lost.

### Engine, Oracle and Figures

Probabilities are integers over the number of outcomes, as the engine keeps them before its last
division. `Engine` follows the code: compositions of annotated types with the filler merged,
the maximum matching for starts, minimum cuts for the capped non-engine, buckets merged by
signature, one copy less for a contribution, the matrices of a comparison. `Oracle` follows
`engine/reference`: every physical hand, judged from the rules. `Figures` has the page's life
around them: the deck is edited under a result marked stale, hands are drawn, kept, judged again
and noted, and `FiguresAreExact` compares everything shown that is not marked stale with the
count. These modules and `Annotations` hold the only recursive operators, and no theorem reaches
them.

### Configurations, Lists, Prune and Archive

`Configurations` keeps of a deck what tells two decks apart, `Acceptable` is `parseConfiguration`.
`Lists` reads and writes lists of cards line by line. `Archive` has an action per route, each a
transaction, except `import`, whose steps up to its commit are apart: it holds the account's row.
The script of `Prune` runs under them one report at a time: it reads the catalogue and the
source's answer, rewrites each place that names an orphan, controls, deletes. `work` is what it
has rewritten and not committed. A write of the site waits for the rows it has touched.
`ExportsComeBack` composes export, transport and import, and both list formats with their
readers. `disturbed` marks an import the script runs across.

### PlanFigures and Comparison

`rows` are the summaries stored, each with the revision it was given for; `sheet`, `editor` and
`address` are the pages. A sheet's run goes plan by plan: `next`, `compute`, `write`, each an
await; `persistSummary` of the editor writes what it has computed anyway. `Saves`, the library
counter and the version counter are everybody else: other pages, annotations, a deployment. The
server's checks (`Outcome`) are the revision and the number of cards. The `late` flag names what
`WrittenDescribesSaved` excepts: the editor writing between an edit and the synchronisation
that follows it.

### Sessions, Backoffice and Accounts

A request is served in the steps between which the server awaits its database: the guard's read,
the slide of the expiry, the page's own work, the cookie set by the answer. The tabs share a
cookie jar; answers come in any order, or never. `Backoffice` has its guard, the sign-in with
password and code, the enrolment of the second factor and its removal; codes are accepted within
`Window` steps, once (`last`). `Accounts` puts both on one `users` table and follows the visitors
of one program at a time: no step of one enables, disables or changes a step of the other.

### Deployment

A database is a record of its tables with the few values the scripts tell apart: its fingerprint
is the record. A script is its sequence of commands; each may fail where the script tests it or
under `set -e`, and a kill may fall between any two. The action of a file of migrations is what its
SQL does to a base in any of the states the sequence can leave: replaying a file is part of the
design. `Judged` and `Accepted` are the two decisions people and scripts take: that an archive is
verified, and that a purge report was read.

## The runs

| Run | Checks | Instance |
|---|---|---|
| `MCComputeClient` | `EveryPromiseKept`, `WorkInOrder`, `EveryTaskSettles`, `ServiceSpec` (implements `TaskService` with its fairness) | 3 tasks |
| `MCRecompute` | `PageIsOfItsDeck`, `WaitsForItsTask`, `ComputationEnds` | 2 decks, 2 contents each, 3 versions; either 1 opening with 2 libraries, 1 queued write and every fault, or 2 openings |
| `MCDeckSave` | `NoLostUpdate`, `PageKnowsWhatItHolds`, `DraftHoldsUnsaved` | 2 pages, 2 contents (symmetric), 3 revisions; one page opens and edits twice, the other once |
| `MCSummaries` | `StoredIsOfItsDeck`, `StoredDescribesLibrary`, `PreviewEnds` | 1 deck of one of 2 cards, 2 annotations, 1 home page, 1 editor, no overlap; 3 revisions and 1 list, or 2 of each |
| `MCStudy` | `ColumnsAreOfTheirDeck`, `NothingIsLeftWaiting` | 2 opponents (symmetric), 2 inputs, 3 gestures |
| `MCEditor` | `PlansStaySound`, `CandidatesAreTheClicks`, `SavedAsItIs`, `ConditionsMeanWhatIsClicked`, `NeverToReview`, `UndoRestores`, `OneMarkAClick` | 4 cards, 1 opponent, 2 configurations, 2 copies of a card instead of 3, main decks of 2 or 3, other zones of up to 3, 3 edits; or 2 gestures on the annotations of 2 documents and an older one, with conditions of 3 levels and 3 leaves, while a card leaves; or 2 gestures on a query |
| `MCLibrary` | `OneLibrary`, `JournalTellsTheRows`, `StoresTheScreen`, `KeepsItsPromises` | 1 card, 2 pages with 2 and 1 gestures, 2 referents with 1 write each, 1 late reading, 1 lost answer kind |
| `MCFigures` | `FiguresAreExact` | two families of decks of 6 copies of 4 cards (some 470), 3 decks for the wall, one too short; hands of 3 then 4, 4 queries, 2 importances |
| `MCArchive` | `DecksStayWhole`, `RenamesOnly`, `ImportAdds` | 4 passcodes of 2 cards, 2 decks, 1 script, 1 import; every small sheet with one gesture, one rich sheet with every annotation and two |
| `MCPlanFigures` | `FiguresAreOfTheirDeck`, `WrittenDescribesSaved`, `RunsEnd` | 2 opponents, up to 4 plans, 5 exchanges; one kind of page at a time, 3 gestures of anyone |
| `MCAccounts` | `TermFollowsUse`, `EveryAccountCanSignIn`, `OneCodeOneSession`, `DoneStaysDone` | 2 accounts, 1 Discord identity, 2 tabs, 2 administrator's browsers (both symmetric), 4 events |
| `MCDeployment` | `NothingIsTakenBack`, `RestoresExactly`, `ReleasesWhatWasThere` | 2 scripts over 4 kinds of base, 2 events over the historical one, 1 over the others |

What the conjunctions say. `EveryPromiseKept`: every task waiting is pending and owed an answer, and a
disposed client has none. `PageIsOfItsDeck`: a result not marked stale is of the present deck,
library and content, and of the last opening. `WaitsForItsTask`: the spinner is lit for the one
task of the present version. `PageKnowsWhatItHolds`: a page that says "saved" is, and the
revision it names is the one its content comes from. `StoredIsOfItsDeck`: a summary stored
or travelling is of the deck of its revision. `ColumnsAreOfTheirDeck`: a studied column, and the
preview's, is of the opponent, deck and selection it is shown with. `NothingIsLeftWaiting`: what
says it computes has a task or a timer, and candidates called done are complete. `PlansStaySound`: no plan
makes a card enter and leave, no gesture passes the limit of copies, a ready plan leaves a legal
deck. `OneLibrary`: the rows make sense, each page shows what follows from what it holds, and holds
what is stored. `DecksStayWhole`: what is stored is acceptable and an export comes back.
`NothingIsTakenBack`: what a script replaces can be had back, and no replay undoes a choice. `FiguresAreOfTheirDeck`: the sheet's figures fit the plan beside them, are those it would
compute now, and a comparison is of its address.

Why these bounds are enough:

- Three tasks: one can be cancelled at the head, in the middle and at the tail of the pending
  list, and what was reposted once can be reposted again. The proofs remove the bound.
- Three versions of the model, two openings: an answer two versions late, and an answer of an
  opening overtaken before its library, before its deck and before its draft. The variable
  `scenario` of `MCRecompute` shares out the dimensions: libraries, writes and faults on one side,
  decks and openings on the other.
- Three revisions: two saves after the one loaded, so that a late request finds its expected
  revision either still there or gone. Two contents: what was saved, and something else; two
  edits can come back to the first content, which the draft's comparison depends on.
- One deck and one home page for the summaries: decks meet only in a write that clears several,
  where each is treated alike, and home pages meet only at the server. The proofs remove the
  bound. Two lists with a failing refresh between them make a preview be abandoned and taken
  up again; three revisions bring a deck back to its first content. The two counters are
  bounded together, in steps that no fairness is about.
- Two inputs for the study: what is asked for and what was asked for before; three gestures: a
  selection, a change of opponent or deck, a change back. Completions are both inputs or none,
  so that a candidate can be known, waiting or both in turn.
- Two copies of a card: one of them, and all. Cards of the main and of the extra deck, so that a
  swap can be balanced in all and not zone by zone. A configuration whose plan fits its deck,
  one whose plan does not. Three edits besides selecting: two swaps and an undo, a removal, an
  addition and its undo, a change of the deck between two changes of a plan. The proofs remove
  the bounds.
- Two gestures on documents that already hold a condition of each shape: a gesture that makes a
  tree to normalise and one on what is left of it; a card whose combos are made, and its removal.
  Limits of three are reached and passed by a document and one gesture. The stories of `MCEditor`
  (plans, annotations, queries) meet only in the cards of the zones.
- One card for the library: no rule relates two cards except a shared cap and a label, which the
  other page and the deletion of the cap reach. Two gestures in one queue: the second is decided
  on what the first brought back. One page makes every gesture, the other the one that meets it
  (a cap of the same name). Two overlapping transactions of one reference are all the journal
  can be wrong about.
- Hands of three or four out of six copies: a sixth card among copies that matter and do not, cards
  of two and three copies, every profile, condition, combo, dead card and cap in the families
  of decks; a deck too short for a position. The last row and column of the matrix are
  both reached and passed.
- Four passcodes of two cards: two orphans of one card that both become a third, one of which
  changes the order of a pair, and a card that stays. A gesture at any moment of the script on any
  small sheet; the second gesture (an import between a save and the commit) where the sheet has
  something in every place.
- Three gestures around a run of the sheet: a change before, during and after the plan it is
  about. One kind of page at a time (`pages`): pages meet only in the database, where what another
  page does is a gesture of anyone.
- Four events of accounts: two sign-ins, two starts of a Discord round trip, a process stop or a lost
  answer are drawn on one budget, so that any two of them overlap. Time is in units of which a
  session lasts three and slides in the last two.
- Two scripts: a release and its restoration, a release again after a failure, a restoration
  again. Two events: a failure and what follows it, a write between the two halves of a check.
  The bases are those the repository tests its sequence on (`deploy/rehearsal.sh`).

Fairness, and what justifies it:

- `ComputeClient`: weak fairness of `Deliver` (the browser delivers queued messages),
  `WorkerBegin` (a started worker takes what was posted) and `WorkerFinish` (an enumeration is
  finite). None on the user.
- `Recompute`: `Launch` (a timer fires), `Engine` (the promise of `ComputeClient`, checked by
  `ServiceSpec`), `Reactions` (microtasks run). Answers of the server may never come.
- `DeckSave`: none; its properties are safety properties.
- `Summaries`: answers to a home page come or fail, its computations end.
- `Study`: none; its properties are safety properties. `NothingIsLeftWaiting` is what makes the
  spinners end, given that the clients answer.
- `Editor`: none; nothing in it waits.
- `PlanFigures` and `Comparison`: a run's own steps (computation ends, the server answers or the
  request fails). None on people: `RunsEnd` holds though anyone may save at any time.
- `Library`, `Archive`, `Figures`, `Accounts`, `Deployment`: none. Their properties are safety
  properties, and an answer or a script that never comes violates none of them.

Deadlock is not checked where every counter has a bound and the user may stop.

## The proofs

TLAPS checks, for every value of the constants:

`Clients_proofs` (of `ComputeClient`, and of `PlanFigures` and `Comparison`: what runs in a browser
around the engine)
- `IInv` = `TypeOK` ∧ `PendingIsWaiting` ∧ `EveryPendingIsOwed` ∧ `WorkInOrder` ∧
  `DisposedIsQuiet` ∧ `Fresh` is inductive. None of the parts is inductive alone: that a
  reposted task is owed needs the order (the head is the only task a terminated worker had in
  hand), the order needs identifiers beyond `seq` to be new (`Fresh`), and a message is safe
  to drop only because its worker number is not the current one. `PromisesKept`,
  `PromisesOwed`, `WorkOrdered`, `DisposeIsFinal` and `TypeCorrect` are its parts;
  `EveryPromiseIsKept` joins all of them but the order and `Fresh`, as the run checks them.
- `ClientImplementsService`: every step maps to a step or a stutter of `TaskService`'s safety
  part. `Deliver` maps to `Answer` because, by `WorkInOrder`, the answer delivered is of the
  oldest task waiting.
- `PagesKeepTheirFigures`: `PagesInv` = `ServerTypes` ∧ `SheetsInOrder` ∧ `EditorInOrder` ∧
  `ComparisonInOrder`. Figures are `Genuine` wherever they are kept: of what their fingerprint says. A
  page that names a revision has its plans as long as the revision stands (`Reads`), which any save
  preserves because it makes another revision. `RunInOrder` says of a run that what is pending is in
  `todo` or being computed, and that figures are shown before they are sent; `RequestInOrder` of
  a request of the editor that, unless it is `late` or another revision has come, its figures are of the
  plan saved; `LoadInOrder` that a load not cancelled is that of the page's address.
- `FiguresAreOfTheirDeckHolds`, `WrittenDescribesSavedHolds` and `RunLeavesNothingHolds` (the safety half
  of `RunsEnd`) follow. `InputFacts` is why the server never refuses the sheet's figures: it counts every
  zone and the client the main deck, and a ready plan leaves the extra deck its size.

`Summaries_proofs`
- `StoredDescribesDeckHolds`, with any overlap: `DescribesInv` adds what travels. A summary on
  its way to the server, and the deck a home page computes, are of the revision they name, if
  that is still stored (`PutsDescribe`, `DetailsDescribe`); an editor's result and the summary
  of its save are of its main deck (`EditorsDescribe`).
- `StoredDescribesLibraryHolds`, assuming `Overlaps = {}`: `CurrentInv` adds that a page which
  writes the library is alone (`WritesAlone`), that what home pages compute with and send is
  current (`HomesAreCurrent`), and likewise the editors' copy, up to an acknowledgement on its
  way (`EditorsAreCurrent`). The lemma `WriteClears` is why the server's clearing is enough: a
  deck whose summary a write leaves has no card the write touches.
- `StoredIsOfItsDeckHolds` is the first of these, in the form the run checks.

`SidePlan_proofs` (with `TypeCorrect`, on which the others rest)
- `NotBothHolds` is inductive with the types: a swap is refused when it would break it, and every
  other gesture takes copies away or replaces a plan by another.
- `CopiesWithinLimitHolds`: `RemovalFits` adds that what the toast would put back fits, unless the
  card may have come back. It is why `exempt` has no more cards than it must.
- `UndoRestoresHolds`: `HistoryChains` adds that the swaps of the history lead from each plan to
  the next and to the open one. `UndoneSwap` is the arithmetic: copies added, then taken away.
- `SidedDeckIsLegalHolds`: a theorem of any deck and any ready plan, not only of reachable ones.
  `DerivedCopies` and `SideCopies` give what the plan leaves of each card; `SizeOfSum` (the size of
  a sum of lists, by a bijection between their copies) turns the balance of a zone into its size,
  `TotalKept` does the same for a card over all zones.
- `NeverToReviewHolds` needs `NotBoth`: taking copies out of a plan (`FewerNoIssue`) could put a
  card above its limit if it were both leaving and entering.
- `CandidatesAreTheClicksHolds`: `ReadyLeavesMain` is the one case where the copies left free are
  not those of the zone the candidates are looked for in.
- `PlansStaySoundHolds` joins the first, the second and the fourth, as the run checks them.

`Recompute_proofs`, of `SafetySpec` (the specification without its fairness)
- `IInv` = `TypeOK` ∧ `Bookkeeping` ∧ `LastOpeningWins`. `Bookkeeping` ties what is computed to what
  is shown: one task at a time, tasks of versions given out, a version not reached by the result is
  owed a timer or a task (`ComputingIsOwed`), the task of the present version has the page's own
  input up to `drift` (`TaskIsOfThePage`), and so has a result not marked stale. `PageIsOfItsDeckHolds`
  and `WaitsForItsTaskHolds` follow.
- `ClientIsAService`: what the store does to its client are steps of `TaskService`, so that what
  `Clients_proofs` shows is what `Recompute` assumes.

`Decks_proofs` (of `Archive` and of `DeckSave`: the decks of an account)
- `ArchiveInvariant`, for any cards, decks, archives, texts and gestures. `DecksInv` and `LibraryInv` say
  that what is stored is typed and in order, and so is what the script would leave if it committed
  now (`SeenDecks`, `SeenLibrary`), which is what its next report starts from; `ReportsInv` that a report is
  from an orphan to another card; `ImportsInv` that an import about to write holds the account and
  still contradicts nothing, unless the script moved a row (`disturbed`); `FilesInv` that an archive was
  made from a library the database has held. `RemapKeepsAcceptable` is the heart of it: seven places
  of a passcode are rewritten one after the other, and pairs stay ordered and one a couple, conditions
  one a source, and no plan makes a card enter and leave.
- `DecksStayWholeHolds`. `WrittenIsSound` is why a save that keeps the cards of the pairs it finds stores
  an acceptable deck; `MergeChangesNothing` why an archive comes back into its own library;
  `EmptyWelcomes` and `ArchiveBrings` why it comes whole into an empty one; `ListsAreReadBack`
  why the text of a list is read as that list: three sections, a line a copy, counted by bijections.
- `ImportsOnlyAdd` (an action property), from `MergeAdds`: names are matched, identities are made up,
  and what was compared decides all that is written.
- `RenamesOnlyHolds` (an action property, true when the script commits) needs to know of every step before,
  `RenamesInv`: `TouchedInv`, each deck touched reads as it does outside the transaction under *some* of
  the reports made (those since it was first touched: reports made earlier are already in its row);
  `NotesInv`, every choice of the account is under its card's new passcode, or it was made after the
  report and is still under the old one, where the control will find it; `QuietInv`, once controlled,
  what nobody has written since names nothing that will be deleted; `OrphansInv`, the passcodes to
  move are absent from the answer and their targets in it, so that no report is reported again.
  `ReadsCompose` (a reading under one report of a reading under some is a reading under all) and
  `RemapRenames` carry the reports, `SiteStep` whatever the site commits between them, and `CommitRenames`
  closes the gap between "some" and "all": by the control, a passcode the deck still named when it was
  touched cannot be left in it, and one it did not name changes nothing.
- `NoUpdateIsLost`, `PagesKnowWhatTheyHold`, `DraftsHoldUnsaved`, assuming `~SaveWhileLoading` (with it, the
  properties are false: see below). `RequestsAreSeen` says of every request
  still on its way, however late, that its content was edited from the revision it expects;
  `SaveInOrder` what each stage of a save knows of the page it will come back to.

`Study_proofs`
- `ColumnsAreOfTheirDeckHolds`, `NothingIsLeftWaitingHolds`. `PreviewInOrder` and `CandidatesInOrder` say
  for what key each task was launched and by which signature its answer will be recognised;
  `CandidatesCounted` that a pass called done has the answers of all its tasks.

`Server_proofs` (of `Accounts` and of `Deployment`: what the server keeps)
- `ProgramsKeepApart`: a behaviour of both programs is one of the site and one of the back office,
  so that each is proved alone.
- `TermFollowsUseHolds`, `EveryAccountCanSignInHolds`, from `SiteInOrder`: what a request has read
  between two awaits is typed as a set of requests that may be on their way (`ProperRequests`), each
  of which knows no later use than the row it will write.
- `OneCodeOneSessionHolds`, `DoneStaysDoneHolds` (an action property), from `BackofficeInOrder`:
  `RowRemembers` is why a code cannot be taken twice, `CodesInOrder` why the step it was drawn in is
  not yet in the row when it is accepted.
- `DeploymentInvariant`, for any bases, and any number of runs, failures, kills and writes. Its parts
  say what is true at each command an operator may be at. `OperatorInOrder`: the site is down, and there is
  a base to serve. `BaseInOrder`: that base is as it was fingerprinted, copied or replayed so far.
  `ArchivesInOrder` (`Coherent`): an archive with a fingerprint holds what was fingerprinted, unless its
  sum is missing or two verifications crossed, and one judged good differs from what its backup *began*
  with by what moved meanwhile. `OwedIsCopied`: what a script altered has a copy that no script will
  touch again. `RestorationInOrder`: what is being restored is the archive's, up to what moved.
  `ChoiceInOrder`: no file replayed undoes a choice.
- `NothingIsTakenBackHolds`, `RestoresExactlyHolds` and `ReleasesWhatWasThereHolds` follow, the last
  two as action properties.

`Library_proofs`
- `JournalTellsTheRowsHolds`, for any number of referents: `TransactionsInOrder` says that at most one
  transaction has written the row of a card, and that its entry will be the last of that card.
- `OneLibraryHolds`, from `IInv` = `ReferencesInOrder` ∧ `RowsInOrder` ∧ `PagesInOrder`.
  `FlagsRowSensible` is the server's merge of a request, a row and what is inherited;
  `AdoptedIsStored` that a page's version of a write is the server's, field by field, cascades
  included; `AdoptedTwice` why a reading that already contains an acknowledgement still to be adopted
  does no harm; `DeriveDepends` why the mutators of labels need not derive again.
- `StoresTheScreenHolds` (an action property), from `CarriesTheScreen`: a request on a profile carries
  what was on the screen when it left.
- `KeepsItsPromisesHolds`: every step maps to a step or a stutter of `AccountView`. `ValueDepends` says
  what the value of a card depends on; a write of a row maps to `Choose` or `Forget`, of a reference to
  `Default`, of a cap to `Caps`.

Three of these modules prove about two components each, which share no variable.

Each inductive invariant was checked by TLC on the instance of the run before it was proved.
Assumptions on the constants are named `ASSUME`s of the modules and are evaluated by the runs.

Only model-checked:

- liveness (`EveryTaskSettles`, `ComputationEnds`, `PreviewEnds`, `RunsEnd`) and the fairness part of
  `ServiceSpec`: liveness under fairness and `ENABLED` are beyond the prover's backends;
- `FiguresAreExact`, `SavedAsItIs`, `ConditionsMeanWhatIsClicked`, `OneMarkAClick`: `Engine`, `Oracle` and
  `Annotations` are recursive, and what a recursive definition computes for every input needs an
  induction over data the backends cannot do.

## What the runs found in the code

No run expects a violation. Where the code departs from what its comments or documents say, the
property excepts exactly that case, through a history variable or a setting named in its module,
and the departure is told below.

## Known behaviours no run shows

Editing, saving and computing:

- `applyNonEngine` (`deckStore.ts:973`) adopts a label, then writes a profile; when the second
  write is refused it returns before `libraryCalc`: the result stays fresh though the input has
  changed, against `deckStore.ts:227` (`drift`).
- Ctrl+S is listened to while a deck is loading (`EditorPage.tsx:97`). `saveDeck` reads the opening
  number after the key is pressed (`deckStore.ts:553`), so that the answer may put the new
  revision on the reloaded old content, against `deckStore.ts:548-551`, and the next save undoes
  the edits. `SaveWhileLoading` turns it on; the run leaves it out to show that nothing else breaks.
- A save made while an annotation is being written may store, after the clearing, figures computed
  without it, against `summary.ts:56-58` and R7 of `docs/annotations-par-defaut.md`
  (`Overlaps`). A preview sent after a reference or library write may do the same
  (`decks.ts:154`, acknowledged at `docs/annotations-par-defaut.md:786`).
- `columnOf` (`study.ts:147-150`) shows the former selection's pass, not marked stale, while a new
  preview is computed, and after it has failed, against `study.ts:143-144` and the comment of
  `SidePlanner.tsx` that says them dimmed.
- For 50 ms after a change of plan the studied columns hold the old plan's figures, and differences
  are taken with them (`StudiedIsCurrent` and `DifferencesAreOfThePage` start after the timers).
- `resumeDraft` does not write a draft and `discardDraft` deletes the one there is, whatever was
  edited in between, though `deckStore.ts:301` says that each draft captures the edited deck at
  once. `DraftHoldsUnsaved` excepts it through `uncaptured`. Two tabs of one browser share a deck's
  draft slot (`draft.ts:41`).
- When the engine refuses one candidate while others wait, a resynchronisation with the same
  signature falls back to "pending" and the relaunch button is not offered
  (`SidePlanner.tsx:311`); it ends with the next selection (`refused`).
- A bootstrap answered after a deck is open replaces the library and recomputes nothing
  (`deckStore.ts:450`); the answer of an opening overtaken by another still replaces the library
  (`deckStore.ts:511`) until the later one reads it. Both are `drift`.
- A task cancelled while it waits is still computed by the worker, its answer dropped
  (`computeClient.ts:134`). A save whose answer was lost is answered 409 when retried, though the
  other writer is the page itself (`decks.ts:132`).
- The wall's filter judges a hand with the deck of the moment, but with the signatures it was
  noted with (`HandWall.tsx:70`); `WallIsExact` is about figures not marked stale. In a comparison
  the sentence about equal margins (`compare.ts:330`) may be said of rows that differ.

Zones and plans:

- `trySwap` compares the issues before and after a swap by kind and card only (`matchups.ts:136`):
  a swap which takes still more of a card already missing is accepted, against
  `matchups.ts:112-113`. `copyPlan` (`deckStore.ts:780`) keeps the selection made for the plan
  it replaces: the sum may pass the copies a configuration may hold (`deckConfiguration.ts:181`),
  and the deck cannot be saved, against `docs/plans-de-side-v2.md:386-387`, until the card is
  taken out of the plan.
- `undoRemove` puts back the copies a card had in a zone, whatever the other zones have gained
  since (`deckStore.ts:663-671`); its toast also survives `resumeDraft`. `exempt` excepts it. A deck
  read with too many copies of a card cannot be brought back one copy at a time from the zone
  that has few (`deckStore.ts:641`).
- For a card in both the main and the extra deck `freeCopies` has the extra's copies
  (`swapPreview.ts:143`); `CandidatesAreTheClicks` sets such cards aside.
- On the printed sheet an absent plan reads as an empty one: "Tout calculer" computes it, its PUT is
  answered 404 and the run stops, again after each reload. `FiguresFit` excepts it.
- `persistSummary`, called between an edit and the synchronisation it has scheduled, writes the
  figures of the former plan at the new revision (`late`). The comparison reads its two decks
  separately: a save between them makes it of two moments.

Annotations:

- A saved query whose minimum is above its maximum is accepted by the panel and refused by
  `validateParams`: the deck cannot be saved, and its draft is not kept either (`scheduleDraft`
  swallows the error), until the query is removed. The editor of conditions does not know the
  server's limits of depth, leaves and quantities, with the same end. `SavedAsItIs` excepts both.
- The card whose combos or condition are being made may leave the deck and stay in hand.

Library, archives and passcodes:

- A reading of the library adopted after an acknowledgement it does not contain puts the old
  annotation back on the page, until the next one (`reading.late`). The version shown of the
  references may then not change either. The journal's `before` may miss a row
  another referent was creating.
- Deleting a category leaves the saved queries of other decks naming it: those decks cannot be
  saved or imported until the query is edited. `validateReferences` reads the categories without a
  lock.
- The script that carries passcodes over does not change `revision` nor clear summaries: a page
  opened before saves the dropped passcode back, or is refused for the identity of a pair, and
  the passcode is no orphan row any more, so that no later run carries it. Merged copies are capped
  at three a zone: figures of another main size stay stored, and the total over zones may pass
  three. An enabled pair merged into a disabled one is disabled; a starter with a condition merged
  with one without becomes conditional. A write committed between the last control and the
  commit leaves a reference to a deleted passcode. It does not take the account's row
  (`disturbed`). The SQL it prints is right for a base of the same content only.
- `migrate-cards` writes the stamp of the source's version even when the second reading of that
  version failed.

Accounts:

- When the answer that slides a session is lost, the row has slid and the cookie keeps its term. The
  purge of expired sessions may delete one extended after it was read.
- A sign-out whose request is lost leaves cookie and row alive, though the page says otherwise
  (`auth.tsx:76`). A session that ends and another account that signs in keep the store and the
  drafts of the first (`auth.tsx:78-82`).
- An enrolment restarted by another page replaces the secret the first displays
  (`TotpRepository.cs:9`); an answer lost after it was drawn is a secret never displayed. The journal
  of the back office is written after the change it reports.

Releases:

- Exit code 1 says "base intacte" (`deploy.sh:15`, `lib.sh:20`), but a later file of the sequence may
  fail after 001 and 002 were replayed, and the old application then runs on the migrated base;
  if 006 was replayed, what it writes as a default is read later as a choice.
- After a failed check the application is stopped; a second release that fails early starts it again
  on the altered base (`deploy.sh:69`), and takes its first fingerprint from it.
- `hook_start_app` returns the status of `dc ps`: a start that fails ends in "Déployé".
- `restore.sh`, killed between its two renames, leaves no database under the served name (the former
  one is kept beside); run again, it fails at its backup and starts the application without one.
  `|| true` on the renaming back has the same end with another message.
- An archive may carry a fingerprint and not be verified: it is written before it is compared
  (against the comment of `lib.sh`). Cron's verification and an operator's use one scratch
  database, and each may read the other's (`crossed`). A daily backup whose first
  fingerprint failed is called verified without comparison; a write during it makes one called not
  verified.

## What is not modelled

`PROJECT.json` gives each component's reason. The interface's rendering, the spreadsheet, PDF and
image exports, the detection of annotations in card texts and the read-only catalogue have no
state of their own; start-up is wiring. Of the configurations' parser the shape checks of names,
notes and importances are left out, and of the upgrade of older archives all but that of the
requirements. Of the annotations, the order and identifiers of the lists, the names of queries and
groups, and reading the deck again while it is annotated. Of the engine, old prerequisites and floating point. Of the deployment, `--check-only`,
the build and the health of containers, the privileges of the back office's role and
`rehearsal.sh`, which is itself a test.

## Plan

The models are complete as far as the code has behaviour a model can be wrong about, and every safety
and action property the runs check is proved but those of the recursive modules. What is left needs
other provers, and in this order would say most:

1. `Engine`: `FiguresAreExact` by induction on the rows of the enumeration, with the identities of
   binomial coefficients it rests on.
2. `Annotations`, `Oracle`: the same for the lists they fold.
3. The fairness part of `ServiceSpec`, then the liveness of `ComputeClient` and of `Recompute` from it.

One thing the proofs taught about the models themselves: where two arms of a `CASE` overlap, TLC
evaluates the first and TLA+ says nothing, so that no proof can use either. Arms that the code tries
in order (`Simulate`, `Lost`, `WindowsOf`, the merge of `hopt` in `Merged`) are therefore made
disjoint.
