------------------------------ MODULE Archive -------------------------------
(***************************************************************************)
(* The decks of one account on the server (routes/decks.ts): created from  *)
(* a list, saved, duplicated, deleted, exported with what the library says *)
(* of their cards (lib/exportDeck.ts) and imported back, in this account   *)
(* or another, by a transaction that merges that library with the          *)
(* account's - while the script of module Prune rewrites passcodes under   *)
(* them.                                                                   *)
(*                                                                         *)
(* An import holds the row of the account from its first statement to its  *)
(* end, and every write of the library takes the same row.                 *)
(***************************************************************************)
EXTENDS Prune, Lists

CONSTANTS Names,        \* what a shared limit or a category may be called
          Importers,    \* requests to import
          Files,        \* archives another account has exported
          Texts,        \* lists of cards a page may be given, as lines
          Searched,     \* cards a page may add to the side it edits
          Paired,       \* pairs it may add
          Chosen,       \* rows a gesture of the account may leave in card_flags
          Offset,       \* identities of a copy's pairs follow the original's by this
          MaxEvents     \* bound: gestures of the pages

VARIABLES groups,       \* nonengine_groups
          categories,   \* nonengine_categories
          lock,         \* the transaction that holds the row of the account
          imports,      \* imports[i]: a request being served
          held,         \* the deck a page has read, to edit or to export it
          checked,      \* a save that has checked what it replaces
          files,        \* archives exported here, with the library they were made from
          events

routeVars == <<groups, categories, lock, imports, held, checked, files, events>>
archiveVars == <<databaseVars, scriptVars, routeVars>>

Library == [flags |-> flags, labels |-> labels, groups |-> groups, categories |-> categories]
Ids(rows) == {r.id : r \in rows}
Row(rows, id) == CHOOSE r \in rows : r.id = id
Called(rows, name) == {r \in rows : r.name = name}

GroupRows == [id : GroupIds, name : Names, cap : Nat]
CategoryRows == [id : CategoryIds, name : Names]
NamedOnce(rows) == \A r, s \in rows : r # s => r.id # s.id /\ r.name # s.name

\* A library the database may hold.
Consistent(library) ==
    /\ library.flags \in [Cards -> Annotation]
    /\ library.groups \subseteq GroupRows /\ NamedOnce(library.groups)
    /\ library.categories \subseteq CategoryRows /\ NamedOnce(library.categories)
    /\ library.labels \subseteq Cards \X Ids(library.categories)
    /\ \A c \in Cards : library.flags[c].group \in Ids(library.groups) \cup {Null}

\* What has the shape of an archive, and of a request to import one.
Profile == [availability : Profiles, group : GroupIds \cup {Null}]
Archives == [deck : Configuration, hopt : SUBSET Cards, labels : SUBSET (Cards \X CategoryIds),
             categories : SUBSET CategoryRows, profiles : UNION {[s -> Profile] : s \in SUBSET Cards},
             groups : SUBSET GroupRows]
Requested == [at : {"none", "write"}, file : Archives \cup {Null}, disturbed : BOOLEAN]

ASSUME ArchiveAssumption ==
    /\ Null \notin Importers
    /\ Files \subseteq Archives
    /\ Texts \subseteq Seq(Line)
    /\ Searched \subseteq Cards /\ Paired \subseteq Pair /\ Chosen \subseteq Annotation
    /\ Offset \in Nat

Gesture == events < MaxEvents /\ events' = events + 1

---------------------------------------------------------------------------
(* Archives *)
\* buildDeckJson: the deck, and what the library says of the cards it mentions.
Build(deck, library) ==
    LET cards == Mentions(deck)
        tags == {x \in library.labels : x[1] \in cards}
        profiles == {c \in cards : library.flags[c].availability # Null}
        caps == {library.flags[c].group : c \in profiles}
        tagged == {x[2] : x \in tags} \cup deck.queries
    IN [deck |-> deck,
        hopt |-> {c \in cards : library.flags[c].hopt = TRUE},
        labels |-> tags,
        categories |-> {k \in library.categories : k.id \in tagged},
        profiles |-> [c \in profiles |-> [availability |-> library.flags[c].availability,
                                          group |-> library.flags[c].group]],
        groups |-> {g \in library.groups : g.id \in caps}]

\* parseArchive, at the export and at the import.
Parses(file) ==
    /\ Acceptable(file.deck)
    /\ NamedOnce(file.categories) /\ NamedOnce(file.groups)
    /\ Resolves(file.deck, Ids(file.categories))
    /\ \A x \in file.labels : x[2] \in Ids(file.categories)
    /\ \A c \in DOMAIN file.profiles :
           file.profiles[c].group # Null => file.profiles[c].group \in Ids(file.groups)

---------------------------------------------------------------------------
(* mergeLibrary *)
\* Rows are found by their name, or created with an identity of their own.
New(rows, brought) == {r \in brought : Called(rows, r.name) = {}}
Numberings(rows, brought, ids) == Injection(New(rows, brought), ids \ Ids(rows))
Joined(rows, brought, ids) ==
    LET number == CHOOSE f \in Numberings(rows, brought, ids) : TRUE IN
    rows \cup {[r EXCEPT !.id = number[r]] : r \in New(rows, brought)}
\* Bound: there are identities left (the database makes them up).
Room(library, file) ==
    /\ Numberings(library.groups, file.groups, GroupIds) # {}
    /\ Numberings(library.categories, file.categories, CategoryIds) # {}
Mapping(rows, brought) ==
    [id \in Ids(brought) |-> (CHOOSE r \in Called(rows, Row(brought, id).name) : TRUE).id]

GroupOf(mapping, profile) == IF profile.group = Null THEN Null ELSE mapping[profile.group]

\* What cancels the whole import.
LimitDiffers(library, file) ==
    \E g \in file.groups : \E h \in Called(library.groups, g.name) : h.cap # g.cap
HoptDiffers(library, file) == \E c \in file.hopt : library.flags[c].hopt = FALSE
ProfileDiffers(library, file) ==
    LET mapping == Mapping(Joined(library.groups, file.groups, GroupIds), file.groups) IN
    \E c \in DOMAIN file.profiles :
        LET mine == library.flags[c]
            theirs == file.profiles[c]
        IN \/ mine.choice /\ mine.availability = Null
           \/ mine.availability # Null /\ mine.availability # theirs.availability
           \/ mine.group # Null /\ theirs.group # Null /\ mine.group # GroupOf(mapping, theirs)
Contradicts(library, file) ==
    LimitDiffers(library, file) \/ HoptDiffers(library, file) \/ ProfileDiffers(library, file)

\* The upserts, on the rows that are there when they run.
FlagAfter(row, c, file, mapping) ==
    LET brought == c \in DOMAIN file.profiles IN
    [hopt |-> IF c \in file.hopt THEN TRUE ELSE row.hopt,
     choice |-> brought \/ row.choice,
     availability |-> IF brought THEN file.profiles[c].availability ELSE row.availability,
     group |-> IF brought THEN Coalesce(row.group, GroupOf(mapping, file.profiles[c])) ELSE row.group]

Merge(library, file) ==
    LET cats == Joined(library.categories, file.categories, CategoryIds)
        caps == Joined(library.groups, file.groups, GroupIds)
        category == Mapping(cats, file.categories)
        cap == Mapping(caps, file.groups)
    IN [categories |-> cats, groups |-> caps,
        labels |-> library.labels \cup {<<x[1], category[x[2]]>> : x \in file.labels},
        flags |-> [c \in Cards |-> FlagAfter(library.flags[c], c, file, cap)],
        deck |-> Remapped(file.deck, category)]

---------------------------------------------------------------------------
(* POST /import *)
Served == [at |-> "none", file |-> Null, disturbed |-> FALSE]
Absent == {d \in Decks : decks[d] = NoDeck}
NewDeck == CHOOSE d \in Absent : TRUE

\* Mutant: the account is not locked.
ImportCheckUnlocked(i, file) ==
    /\ Gesture
    /\ imports[i].at = "none"
    /\ Parses(file) /\ Room(Library, file)
    /\ IF Contradicts(Library, file)
       THEN UNCHANGED imports
       ELSE imports' = [imports EXCEPT ![i] = [at |-> "write", file |-> file, disturbed |-> FALSE]]
    /\ UNCHANGED <<databaseVars, scriptVars, groups, categories, lock, held, checked, files>>

\* Locks the account, then reads the rows it will compare.  A refusal, like a statement that
\* fails, cancels the transaction: nothing of it was visible.
ImportCheck(i, file) ==
    /\ Gesture
    /\ imports[i].at = "none"
    /\ Parses(file) /\ Room(Library, file)
    /\ lock = Null
    /\ IF Contradicts(Library, file)
       THEN UNCHANGED <<lock, imports>>
       ELSE /\ lock' = i
            /\ imports' = [imports EXCEPT ![i] = [at |-> "write", file |-> file, disturbed |-> FALSE]]
    /\ UNCHANGED <<databaseVars, scriptVars, groups, categories, held, checked, files>>

\* Writes them - once the script has let them go -, creates the deck and commits.
ImportWrite(i) ==
    LET after == Merge(Library, imports[i].file) IN
    /\ imports[i].at = "write"
    /\ AnnotationsFree
    /\ Absent # {}
    /\ categories' = after.categories /\ groups' = after.groups
    /\ labels' = after.labels /\ flags' = after.flags
    /\ decks' = [decks EXCEPT ![NewDeck] = after.deck]
    /\ lock' = IF lock = i THEN Null ELSE lock
    /\ imports' = [imports EXCEPT ![i] = Served]
    /\ ScriptAfter({NewDeck, "library"})
    /\ UNCHANGED <<catalog, references, scripts, held, checked, files, events>>

\* libraryWrite, for two of its gestures (module Library has them all).
Annotate(c, row) ==
    /\ Gesture
    /\ lock = Null /\ AnnotationsFree
    /\ row.group # Null => row.group \in Ids(groups)
    /\ flags' = [flags EXCEPT ![c] = row]
    /\ ScriptAfter({"library"})
    /\ UNCHANGED <<catalog, decks, labels, references, scripts, groups, categories, lock,
                   imports, held, checked, files>>

DeleteCategory(id) ==
    /\ Gesture
    /\ lock = Null /\ AnnotationsFree
    /\ id \in Ids(categories)
    /\ categories' = {k \in categories : k.id # id}
    /\ labels' = {x \in labels : x[2] # id}
    /\ ScriptAfter({})
    /\ UNCHANGED <<catalog, decks, flags, references, scripts, groups, lock, imports, held,
                   checked, files>>

---------------------------------------------------------------------------
(* Decks *)
Exists(d) == decks[d] # NoDeck
Unlocked(d) == ~(checked # Null /\ checked.deck = d)

\* The import dialog: a list with anything to tell is shown, then clamped.
Confirmed(report) == IF Anomalous(report) THEN Clamped(report.cards) ELSE report.cards

\* POST /, from the import dialog.
Create(report) ==
    /\ Gesture
    /\ ~NoCard(report)
    /\ Absent # {}
    /\ decks' = [decks EXCEPT ![NewDeck] = [Empty EXCEPT !.cards = Confirmed(report)]]
    /\ ScriptAfter({NewDeck})
    /\ UNCHANGED <<catalog, flags, labels, references, scripts, groups, categories, lock,
                   imports, held, checked, files>>

\* GET /:id waits for a save of that deck.
OpenDeck(d) ==
    /\ Gesture
    /\ Exists(d) /\ Unlocked(d)
    /\ held' = [deck |-> d, reading |-> decks[d]]
    /\ UNCHANGED <<databaseVars, scriptVars, groups, categories, lock, imports, checked, files>>

\* The page saves the deck it holds as it is, with a card or with a pair more.
Edited ==
    {held.reading} \cup {[held.reading EXCEPT !.cards["side"][c] = 1] : c \in Searched}
    \cup {[held.reading EXCEPT !.pairs = @ \cup {p}] : p \in Paired}

\* PUT /:id: the revision is the one the page has read - the script does not move it -,
\* the categories are there and no pair changes cards: what it has to say is then decided.
SaveCheck(edited) ==
    /\ Gesture
    /\ held # Null /\ Exists(held.deck) /\ Unlocked(held.deck)
    /\ Acceptable(edited) /\ Resolves(edited, Ids(categories))
    /\ KeepsPairCards(decks[held.deck], edited)
    /\ checked' = [deck |-> held.deck, writes |-> edited]
    /\ UNCHANGED <<databaseVars, scriptVars, groups, categories, lock, imports, held, files>>

\* writeConfiguration, once the script has let the rows of the deck go.
SaveWrite ==
    LET d == checked.deck
        after == Written(decks[d], checked.writes)
    IN
    /\ checked # Null
    /\ DeckFree(d)
    /\ IF Duplicates(after)
       THEN UNCHANGED <<decks, script>>
       ELSE decks' = [decks EXCEPT ![d] = after] /\ ScriptAfter({d})
    /\ checked' = Null
    /\ held' = IF Duplicates(after) \/ held = Null \/ held.deck # d
               THEN held
               ELSE [held EXCEPT !.reading = checked.writes]
    /\ UNCHANGED <<catalog, flags, labels, references, scripts, groups, categories, lock,
                   imports, files, events>>

\* POST /:id/duplicate: fresh identities, and the conditions follow their pairs.
Fresh(id) == IF id = Null THEN Null ELSE id + Offset
Copy(deck) ==
    [deck EXCEPT !.pairs = {[p EXCEPT !.id = Fresh(p.id)] : p \in @},
                 !.conditions = {[k EXCEPT !.pair = Fresh(k.pair)] : k \in @}]
Duplicate(d) ==
    /\ Gesture
    /\ Exists(d) /\ Unlocked(d) /\ Absent # {}
    /\ \A p \in decks[d].pairs : Fresh(p.id) \in PairIds
    /\ decks' = [decks EXCEPT ![NewDeck] = Copy(decks[d])]
    /\ ScriptAfter({NewDeck})
    /\ UNCHANGED <<catalog, flags, labels, references, scripts, groups, categories, lock,
                   imports, held, checked, files>>

\* DELETE /:id.  The page on that deck gets 404 from then on.
Delete(d) ==
    /\ Gesture
    /\ Exists(d) /\ Unlocked(d) /\ DeckFree(d)
    /\ decks' = [decks EXCEPT ![d] = NoDeck]
    /\ held' = IF held # Null /\ held.deck = d THEN Null ELSE held
    /\ ScriptAfter({})
    /\ UNCHANGED <<catalog, flags, labels, references, scripts, groups, categories, lock,
                   imports, checked, files>>

\* exportJson: the deck was read, now the library; a category deleted in between has the
\* archive refused.
Export ==
    LET file == Build(held.reading, Library) IN
    /\ Gesture
    /\ held # Null
    /\ Parses(file)
    /\ files' = files \cup {[file |-> file, from |-> Library]}
    /\ UNCHANGED <<databaseVars, scriptVars, groups, categories, lock, imports, held, checked>>

---------------------------------------------------------------------------
Route ==
    \/ \E i \in Importers, f \in Files \cup {x.file : x \in files} : ImportCheck(i, f)
    \/ \E i \in Importers : ImportWrite(i)
    \/ \E c \in Cards, row \in Chosen : Annotate(c, row)
    \/ \E id \in CategoryIds : DeleteCategory(id)
    \/ \E text \in Texts : Create(ReadYdk(text)) \/ Create(ReadPasted(text))
    \/ \E d \in Decks : OpenDeck(d)
    \/ held # Null /\ \E edited \in Edited : SaveCheck(edited)
    \/ SaveWrite
    \/ \E d \in Decks : Duplicate(d)
    \/ \E d \in Decks : Delete(d)
    \/ Export

\* The script does not take the row of the account: an import that has compared its rows
\* writes over those the script has moved meanwhile.
Script ==
    /\ PruneStep
    /\ imports' = [i \in Importers |->
                     IF flags' # flags /\ imports[i].at = "write"
                     THEN [imports[i] EXCEPT !.disturbed = TRUE] ELSE imports[i]]
    /\ UNCHANGED <<groups, categories, lock, held, checked, files, events>>

ArchiveNext == Route \/ Script

\* Nobody is being served, on a database in order.
ArchiveInit ==
    /\ catalog \subseteq Cards
    /\ decks \in [Decks -> Configuration \cup {NoDeck}]
    /\ \A d \in Decks : Exists(d) => Acceptable(decks[d])
    /\ Consistent(Library)
    /\ references \in [Cards -> References \cup {NoReference}]
    /\ lock = Null /\ imports = [i \in Importers |-> Served]
    /\ held = Null /\ checked = Null /\ files = {}
    /\ PruneInit

ArchiveSpec == ArchiveInit /\ [][ArchiveNext]_archiveVars

---------------------------------------------------------------------------
(* Properties *)
\* What is stored can be read back, edited and saved: the server itself would accept it.
\* (The script rewrites rows without parseConfiguration, and a save keeps the cards of the
\* pairs it finds.)
StoredIsAcceptable ==
    \A d \in Decks : Exists(d) => Acceptable(decks[d])

\* The script renames: in each deck it has touched, every list, pair, condition and plan reads
\* as it did with the cards under their new passcode, copies added up to three and pairs of
\* one card with itself gone; and no annotation of the account is lost.
\* "Aucune reference pendante vers une carte supprimee": when it commits, nothing names a card it
\* deletes, but what was written after its control.
Target(o) == CHOOSE t \in Targets(script.answer, o) : TRUE
Renames ==
    LET map == [o \in script.moved |-> Target(o)] IN
         /\ \A d \in script.touched : Reads(map, decks[d], decks'[d])
         /\ script.annotations => \A c \in Cards :
                LET old == flags[c]
                    new == flags'[NewName(map, c)]
                IN /\ old.hopt = TRUE => new.hopt = TRUE
                   /\ old.availability # Null => new.availability = old.availability
                   /\ old.group # Null => new.group = old.group
LeavesNoReference ==
    LET lost == catalog \ catalog' IN
       /\ \A d \in Decks \ script.late :
              decks'[d] # NoDeck /\ lost # {} => Mentions(decks'[d]) \cap lost = {}
       /\ lost # {} /\ "library" \notin script.late =>
              \A c \in lost : flags'[c] = NoChoice /\ references'[c] = NoReference
                             /\ \A x \in labels' : x[1] # c
RenamesOnly == [][catalog' # catalog => Renames /\ LeavesNoReference]_archiveVars

\* An import adds to the library and overrides no choice of the account; when it commits, all
\* the archive says holds there, and the queries of the new deck name the same categories.
Writes(i) == imports[i].at = "write" /\ imports'[i].at = "none" /\ decks' # decks
Adds(file) ==
    /\ \A c \in Cards :
           /\ flags[c].hopt = FALSE => flags'[c].hopt = FALSE
           /\ flags[c].choice => flags'[c].availability = flags[c].availability
           /\ flags[c].group # Null => flags'[c].group = flags[c].group
    /\ groups \subseteq groups' /\ categories \subseteq categories' /\ labels \subseteq labels'
    /\ \A c \in file.hopt : flags'[c].hopt = TRUE
    /\ \A c \in DOMAIN file.profiles :
           /\ flags'[c].availability = file.profiles[c].availability
           /\ file.profiles[c].group # Null =>
                  LET theirs == Row(file.groups, file.profiles[c].group)
                      mine == Row(groups', flags'[c].group)
                  IN mine.name = theirs.name /\ mine.cap = theirs.cap
    /\ {Row(categories', q).name : q \in decks'[NewDeck].queries}
           = {Row(file.categories, q).name : q \in file.deck.queries}
ImportAdds ==
    [][\A i \in Importers : Writes(i) /\ ~imports[i].disturbed => Adds(imports[i].file)]_archiveVars

\* An archive comes back as it left: imported into the library it was exported from, it is not
\* refused, changes nothing there and gives the same deck; imported into an empty one, it
\* brings every explicit annotation of the cards the deck mentions, wherever it mentions them.
\* Its list of cards, written as text and read, is the same list.
EmptyLibrary == [flags |-> [c \in Cards |-> NoChoice], labels |-> {}, groups |-> {}, categories |-> {}]
Comes(x) ==
    LET after == Merge(x.from, x.file) IN
    /\ ~Contradicts(x.from, x.file)
    /\ [f \in DOMAIN EmptyLibrary |-> after[f]] = x.from
    /\ after.deck = x.file.deck
Brings(x) ==
    LET after == Merge(EmptyLibrary, x.file) IN
    \A c \in Mentions(x.file.deck) :
        LET theirs == x.from.flags[c]
            mine == after.flags[c]
        IN /\ theirs.hopt = TRUE <=> mine.hopt = TRUE
           /\ mine.availability = theirs.availability
           /\ theirs.group # Null =>
                  Row(after.groups, mine.group).cap = Row(x.from.groups, theirs.group).cap
           /\ {Row(x.from.categories, y[2]).name : y \in {y \in x.from.labels : y[1] = c}}
                  = {Row(after.categories, y[2]).name : y \in {y \in after.labels : y[1] = c}}
ReadBack(cards) == ReadYdk(ToYdk(cards)) = [cards |-> cards, ignored |-> 0, headers |-> 0]
ExportsComeBack == \A x \in files : Comes(x) /\ Brings(x) /\ ReadBack(x.file.deck.cards)

\* A deck stays whole: what is stored can be read and saved, what is sent comes back.
DecksStayWhole == StoredIsAcceptable /\ ExportsComeBack
=============================================================================
