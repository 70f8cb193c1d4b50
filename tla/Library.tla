----------------------------- MODULE Library ------------------------------
(***************************************************************************)
(* The library of one account: what routes/library.ts stores, what the     *)
(* pages of the account hold and derive from it (deckStore.ts,             *)
(* lib/effectiveLibrary.ts, lib/nonEngine.ts), over the common references  *)
(* that other accounts write meanwhile (module References).                *)
(*                                                                         *)
(* The value of a card is the account's choice, else the reference, else   *)
(* what the text of the card detects, for each of two aspects.  The server *)
(* never detects anything: at the first gesture on an inherited profile    *)
(* the page sends what it shows, and the server stores that before it      *)
(* applies the gesture.                                                    *)
(*                                                                         *)
(* A page runs its gestures one at a time, from a queue: each is decided   *)
(* on what the page holds when its turn comes, sent, and adopted when it   *)
(* is acknowledged.  A transaction of the server is one step: libraryWrite *)
(* serialises them on the account's row.                                   *)
(***************************************************************************)
EXTENDS References, Sequences

CONSTANTS Pages,            \* pages open on the account, in any number of tabs
          Account,          \* the account, one of the referents
          Profiles,         \* profiles of availability
          Detected,         \* Detected[c]: what the text of c detects
          Labels,           \* labels the account may have
          GroupIds,         \* identifiers of shared caps
          Names,            \* their names
          Limits,           \* their limits per turn
          Builtin,          \* the cap every account has
          BuiltinGroup,     \* its row
          Null,             \* absence of a value
          Keep,             \* a field the request does not mention
          MaxGestures,      \* bound: gestures of each page
          MaxQueue,         \* bound: gestures of a page not finished
          MaxReads,         \* bound: readings of the library by each page
          Gestures,         \* bound: the gestures each page may make
          Faults            \* subset of {"lost", "unanswered"}

\* parseReference: what the body of a reference must be.
WellFormed(row) ==
    /\ row.set \/ (row.availability = Null /\ row.name = Null)
    /\ row.name = Null \/ row.availability # Null
    /\ row.hopt # Null \/ row.set

ASSUME LibraryAssumption ==
    /\ ReferenceRows \subseteq [hopt : BOOLEAN \cup {Null}, set : BOOLEAN,
                                availability : Profiles \cup {Null}, name : Names \cup {Null}]
    /\ \A row \in ReferenceRows : WellFormed(row)
    /\ Detected \in [Cards -> [hopt : BOOLEAN, availability : Profiles \cup {Null},
                               name : Names \cup {Null}]]
    /\ Account \in Referents
    /\ BuiltinGroup \in [id : GroupIds, name : Names, cap : Limits] /\ BuiltinGroup.id = Builtin
    /\ MaxGestures \in [Pages -> Nat] /\ MaxQueue \in Nat /\ MaxReads \in [Pages -> Nat]

\* The absences are no values, and differ.
ASSUME AbsenceAssumption ==
    /\ Null # Keep /\ Keep \notin [availability : Profiles \cup {Null}, name : Names \cup {Null}]
    /\ \A absence \in {Null, Keep} :
          /\ absence \notin BOOLEAN /\ absence \notin Profiles /\ absence \notin GroupIds
          /\ absence \notin Names /\ absence \notin Labels
          /\ absence \notin {"choice", "reference", "detection"}

VARIABLES flags,      \* card_flags: the choices of the account, NoChoice for no row
          groups,     \* nonengine_groups
          categories, \* nonengine_categories: the labels that exist
          labels,     \* card_categories: pairs of a card and a label
          lib,        \* lib[p]: the library page p holds
          eff,        \* eff[p]: the values it has derived
          queue,      \* queue[p]: its gestures, the first being carried out
          call,       \* call[p]: the request of that gesture
          reading,    \* reading[p]: the library an opening has read and not adopted
          clicks, reads,
          behind      \* history: behind[p], p may not know of something committed

serverVars == <<flags, groups, categories, labels>>
pageVars == <<lib, eff, queue, call, reading, clicks, reads>>
vars == <<referenceVars, serverVars, pageVars, behind>>

---------------------------------------------------------------------------
(* Values *)
Choice == [hopt : BOOLEAN \cup {Null}, choice : BOOLEAN,
           availability : Profiles \cup {Null}, group : GroupIds \cup {Null}]
NoChoice == [hopt |-> Null, choice |-> FALSE, availability |-> Null, group |-> Null]
Group == [id : GroupIds, name : Names, cap : Limits]
Raw == [flags : [Cards -> Choice], groups : SUBSET Group, categories : SUBSET Labels,
        labels : SUBSET (Cards \X Labels), references : [Cards -> Row]]
Effective == [hopt : BOOLEAN, availability : Profiles \cup {Null},
              group : GroupIds \cup {Null}, name : Names \cup {Null},
              origin : {"choice", "reference", "detection", Null}]

Stored == [flags |-> flags, groups |-> groups, categories |-> categories,
           labels |-> labels, references |-> references]

HasGroup(raw, g) == \E x \in raw.groups : x.id = g
GroupNamed(raw, name) ==
    IF \E x \in raw.groups : x.name = name
    THEN (CHOOSE x \in raw.groups : x.name = name).id ELSE Null
NameOf(raw, g) ==
    IF HasGroup(raw, g) THEN (CHOOSE x \in raw.groups : x.id = g).name ELSE Null

\* effectiveOf: choice, else reference, else detection, aspect by aspect.
EffectiveHopt(raw, c) ==
    LET ref == raw.references[c] IN
    CASE raw.flags[c].hopt # Null -> raw.flags[c].hopt
      [] raw.flags[c].hopt = Null /\ ref # NoReference /\ ref.hopt # Null -> ref.hopt
      [] OTHER -> Detected[c].hopt

Inherited(raw, availability, name, origin) ==
    [availability |-> availability,
     group |-> IF availability = Null THEN Null ELSE GroupNamed(raw, name),
     name |-> IF availability = Null THEN Null ELSE name, origin |-> origin]

EffectiveProfile(raw, c) ==
    LET choice == raw.flags[c]
        ref == raw.references[c]
        detected == Detected[c] IN
    IF choice.choice
    THEN [availability |-> choice.availability, group |-> choice.group,
          name |-> NameOf(raw, choice.group), origin |-> "choice"]
    ELSE IF ref # NoReference /\ ref.set
    THEN Inherited(raw, ref.availability, ref.name, "reference")
    ELSE IF detected.availability # Null
    THEN Inherited(raw, detected.availability, detected.name, "detection")
    ELSE Inherited(raw, Null, Null, Null)

EffectiveOf(raw, c) ==
    LET profile == EffectiveProfile(raw, c) IN
    [hopt |-> EffectiveHopt(raw, c), availability |-> profile.availability,
     group |-> profile.group, name |-> profile.name, origin |-> profile.origin]

\* effectiveLibrary, for the cards the page knows.
Derive(raw) == [c \in Cards |-> EffectiveOf(raw, c)]

---------------------------------------------------------------------------
(* Gestures, and the requests they turn into *)
Gesture ==
    [do : {"hopt"}, card : Cards]
    \cup [do : {"reset"}, card : Cards, aspect : {"hopt", "nonengine"}]
    \cup [do : {"nonengine"}, card : Cards, label : Labels \cup {Null}, profile : Profiles \cup {Null}]
    \cup [do : {"profile"}, card : Cards, profile : Profiles \cup {Null}]
    \cup [do : {"group"}, card : Cards, group : GroupIds \cup {Null}]
    \cup [do : {"addGroup"}, name : Names, cap : Limits]
    \cup [do : {"capGroup"}, group : GroupIds, cap : Limits]
    \cup [do : {"deleteGroup"}, group : GroupIds]
    \cup [do : {"addLabel", "deleteLabel"}, label : Labels]
    \cup [do : {"setReference"}, card : Cards, row : ReferenceRows]
    \cup [do : {"clearReference"}, card : Cards]

ASSUME GesturesAssumption == \A p \in Pages : Gestures[p] \subseteq Gesture

\* What the page offers, judged when the user clicks on what it shows then: the
\* annotation modes (a mode may keep a label that was deleted since), ...
OnGrid(p, g) ==
    \/ g.do = "hopt"
    \/ g.do = "nonengine" /\ (g.label # Null \/ g.profile # Null)

\* ... the menu of a card, ...
OnMenu(p, g) ==
    \/ g.do = "profile"
    \/ g.do = "reset" /\ g.aspect = "hopt" /\ lib[p].flags[g.card].hopt # Null
    \/ g.do = "reset" /\ g.aspect = "nonengine" /\ eff[p][g.card].origin = "choice"
    \/ /\ g.do = "group" /\ eff[p][g.card].availability # Null
       /\ g.group \in {x.id : x \in lib[p].groups} \cup {Null}
       /\ g.group # eff[p][g.card].group

\* ... its detail, where a referent writes its reference, ...
OnDetail(p, g) ==
    \/ g.do = "setReference"
    \/ g.do = "clearReference" /\ lib[p].references[g.card] # NoReference

\* ... and the lists of labels and caps.
OnLists(p, g) ==
    \/ g.do \in {"addLabel", "addGroup"}
    \/ g.do = "deleteLabel" /\ g.label \in lib[p].categories
    \/ g.do = "capGroup" /\ \E x \in lib[p].groups : x.id = g.group /\ x.cap # g.cap
    \/ g.do = "deleteGroup" /\ g.group # Builtin /\ HasGroup(lib[p], g.group)

Offered(p, g) == OnGrid(p, g) \/ OnMenu(p, g) \/ OnDetail(p, g) \/ OnLists(p, g)

SetFlags(c, hopt, availability, group, inherits) ==
    [op |-> "flags", card |-> c, hopt |-> hopt, availability |-> availability,
     group |-> group, inherits |-> inherits, inherited |-> Keep]

\* nonEngineEffect: what a click of the non-engine mode will do.
NonEngineEffect(p, g) ==
    LET shown == eff[p][g.card]
        labelled == g.label # Null /\ <<g.card, g.label>> \in lib[p].labels IN
    CASE g.profile = Null -> IF labelled THEN "remove" ELSE "put"
      [] g.profile # Null /\ shown.availability # g.profile -> "put"
      [] g.profile # Null /\ shown.availability = g.profile /\ shown.origin # "choice" -> "adopt"
      [] OTHER -> IF g.label = Null \/ labelled THEN "remove" ELSE "put"

NonEngineRequests(p, g) ==
    LET effect == NonEngineEffect(p, g)
        labelled == g.label # Null /\ <<g.card, g.label>> \in lib[p].labels
        when(guard, request) == IF guard THEN <<request>> ELSE <<>> IN
    IF effect = "remove"
    THEN when(labelled, [op |-> "dropLabel", card |-> g.card, label |-> g.label])
         \o when(g.profile # Null, SetFlags(g.card, Keep, Null, Keep, FALSE))
    ELSE when(g.label # Null /\ ~labelled, [op |-> "putLabel", card |-> g.card, label |-> g.label])
         \o when(g.profile # Null /\ (eff[p][g.card].availability # g.profile \/ effect = "adopt"),
                 SetFlags(g.card, Keep, g.profile, Keep, TRUE))

\* The requests of gesture g, decided on what page p holds when its turn comes.
Requests(p, g) ==
    CASE g.do = "hopt" -> <<SetFlags(g.card, ~eff[p][g.card].hopt, Keep, Keep, FALSE)>>
      [] g.do = "reset" -> <<[op |-> "reset", card |-> g.card, aspect |-> g.aspect]>>
      [] g.do = "nonengine" -> NonEngineRequests(p, g)
      [] g.do = "profile" -> <<SetFlags(g.card, Keep, g.profile, Keep, TRUE)>>
      [] g.do = "group" -> <<SetFlags(g.card, Keep, Keep, g.group, TRUE)>>
      [] g.do = "addGroup" -> <<[op |-> "addGroup", name |-> g.name, cap |-> g.cap]>>
      [] g.do = "capGroup" -> <<[op |-> "capGroup", group |-> g.group, cap |-> g.cap]>>
      [] g.do = "deleteGroup" -> <<[op |-> "deleteGroup", group |-> g.group]>>
      [] g.do \in {"addLabel", "deleteLabel"} -> <<[op |-> g.do, label |-> g.label]>>
      [] g.do = "setReference" -> <<[op |-> "reference", card |-> g.card, row |-> g.row]>>
      [] OTHER -> <<[op |-> "reference", card |-> g.card, row |-> NoReference]>>

\* inheritedOf: what the server must store before the first gesture on a profile the
\* page shows as inherited; nothing when the page knows a choice, or no default.
InheritedOf(p, c) ==
    IF lib[p].flags[c].choice \/ eff[p][c].origin = Null THEN Keep
    ELSE [availability |-> eff[p][c].availability, name |-> eff[p][c].name]

\* (mutant) the inherited profile is not sent
SentPlain(p, request) == request

\* A request leaves with what the page shows at that moment.
Sent(p, request) ==
    IF request.op = "flags" /\ request.inherits
    THEN [request EXCEPT !.inherited = InheritedOf(p, request.card)] ELSE request

NoCall == [stage |-> "none"]
\* known and shown are history: what was held and on the screen when the request left.
Asking(p, requests) == [stage |-> "asked", request |-> Sent(p, Head(requests)),
                        rest |-> Tail(requests), known |-> lib[p], shown |-> eff[p]]
---------------------------------------------------------------------------
Init ==
    /\ ReferencesInit
    /\ flags = [c \in Cards |-> NoChoice]
    /\ groups = {BuiltinGroup}
    /\ categories = Labels
    /\ labels = {}
    /\ lib = [p \in Pages |-> Stored]
    /\ eff = [p \in Pages |-> Derive(lib[p])]
    /\ queue = [p \in Pages |-> <<>>]
    /\ call = [p \in Pages |-> NoCall]
    /\ reading = [p \in Pages |-> Null]
    /\ clicks = [p \in Pages |-> 0]
    /\ reads = [p \in Pages |-> 0]
    /\ behind = [p \in Pages |-> FALSE]

\* The turn of the first gesture of queue q: it is decided and sent at once.
Begin(p, q) ==
    /\ queue' = [queue EXCEPT ![p] = q]
    /\ call' = [call EXCEPT ![p] = Asking(p, Requests(p, Head(q)))]

\* A gesture joins the queue (persist).
Click(p, g) ==
    /\ clicks[p] < MaxGestures[p] /\ Len(queue[p]) < MaxQueue
    /\ Offered(p, g)
    /\ IF queue[p] = <<>> THEN Begin(p, <<g>>)
       ELSE queue' = [queue EXCEPT ![p] = Append(@, g)] /\ UNCHANGED call
    /\ clicks' = [clicks EXCEPT ![p] = @ + 1]
    /\ UNCHANGED <<referenceVars, serverVars, lib, eff, reading, reads, behind>>

\* The gesture before is over.
Start(p) ==
    /\ queue[p] # <<>> /\ call[p] = NoCall
    /\ Begin(p, queue[p])
    /\ UNCHANGED <<referenceVars, serverVars, lib, eff, reading, clicks, reads, behind>>

\* Something was committed by page p: the other pages do not know, nor do the
\* readings that are on their way.
Committed(p) ==
    /\ behind' = [q \in Pages |-> behind[q] \/ q # p]
    /\ reading' = [q \in Pages |-> IF reading[q] = Null THEN Null
                                   ELSE [reading[q] EXCEPT !.late = TRUE]]

Answer(p, row) ==
    /\ call' = [call EXCEPT ![p] = [stage |-> "answered", request |-> @.request,
                                    rest |-> @.rest, row |-> row]]
    /\ Committed(p)

---------------------------------------------------------------------------
(* The server: one transaction per request, or a refusal that stores nothing *)

\* (mutant) what the request does not mention is overwritten
FlagsRowOverwriting(r) ==
    [hopt |-> IF r.hopt = Keep THEN Null ELSE r.hopt, choice |-> r.hopt = Keep,
     availability |-> IF r.availability = Keep THEN Null ELSE r.availability, group |-> Null]

\* PUT /flags/:cardId, the row it stores.
FlagsRow(r) ==
    LET current == flags[r.card]
        touches == r.availability # Keep \/ r.group # Keep
        copies == touches /\ ~current.choice /\ r.inherited # Keep
        availability == IF copies THEN r.inherited.availability ELSE current.availability
        group == CASE ~copies -> current.group
                   [] copies /\ availability = Null -> Null
                   [] OTHER -> GroupNamed(Stored, r.inherited.name) IN
    [hopt |-> IF r.hopt # Keep THEN r.hopt ELSE current.hopt,
     choice |-> current.choice \/ touches,
     availability |-> IF r.availability # Keep THEN r.availability ELSE availability,
     group |-> CASE r.group # Keep -> r.group
                 [] r.group = Keep /\ r.availability = Null -> Null
                 [] OTHER -> group]

\* DELETE /flags/:cardId?aspect=.
ResetRow(r) ==
    IF r.aspect = "hopt" THEN [flags[r.card] EXCEPT !.hopt = Null]
    ELSE [NoChoice EXCEPT !.hopt = flags[r.card].hopt]

SameName(r) == {x \in groups : x.name = r.name}

Refused(r) ==
    CASE r.op = "flags" ->
           \/ r.group \notin {Keep, Null} /\ ~HasGroup(Stored, r.group)
           \/ FlagsRow(r).group # Null /\ FlagsRow(r).availability = Null
      [] r.op = "putLabel" -> r.label \notin categories
      [] r.op = "deleteLabel" -> r.label \notin categories
      [] r.op = "addGroup" -> \E x \in SameName(r) : x.cap # r.cap
      [] r.op = "capGroup" -> ~HasGroup(Stored, r.group)
      [] r.op = "deleteGroup" -> r.group = Builtin \/ ~HasGroup(Stored, r.group)
      [] r.op = "reference" -> r.row = NoReference /\ references[r.card] = NoReference
      [] OTHER -> FALSE

ServeFlags(p, r) ==
    /\ r.op \in {"flags", "reset"}
    /\ LET row == IF r.op = "flags" THEN FlagsRow(r) ELSE ResetRow(r) IN
       flags' = [flags EXCEPT ![r.card] = row] /\ Answer(p, row)
    /\ UNCHANGED <<referenceVars, groups, categories, labels>>

ServeCardLabel(p, r) ==
    /\ r.op \in {"putLabel", "dropLabel"}
    /\ labels' = IF r.op = "putLabel" THEN labels \cup {<<r.card, r.label>>}
                 ELSE labels \ {<<r.card, r.label>>}
    /\ Answer(p, Null)
    /\ UNCHANGED <<referenceVars, flags, groups, categories>>

\* A category goes with the labels that carry it (on delete cascade).
ServeLabel(p, r) ==
    /\ r.op \in {"addLabel", "deleteLabel"}
    /\ categories' = IF r.op = "addLabel" THEN categories \cup {r.label}
                     ELSE categories \ {r.label}
    /\ labels' = IF r.op = "addLabel" THEN labels
                 ELSE {x \in labels : x[2] # r.label}
    /\ Answer(p, Null)
    /\ UNCHANGED <<referenceVars, flags, groups>>

\* An identifier no row, no page and no request has: gen_random_uuid.
Fresh(g) ==
    /\ ~HasGroup(Stored, g)
    /\ \A c \in Cards : flags[c].group # g
    /\ \A q \in Pages :
          /\ ~HasGroup(lib[q], g)
          /\ \A c \in Cards : lib[q].flags[c].group # g
          /\ \A i \in DOMAIN queue[q] :
                queue[q][i].do \in {"group", "capGroup", "deleteGroup"} => queue[q][i].group # g

ServeAddGroup(p, r) ==
    /\ r.op = "addGroup"
    /\ \/ /\ SameName(r) # {}
          /\ Answer(p, CHOOSE x \in SameName(r) : TRUE)
          /\ UNCHANGED groups
       \/ /\ SameName(r) = {}
          /\ \E g \in GroupIds :
                /\ Fresh(g)
                /\ groups' = groups \cup {[id |-> g, name |-> r.name, cap |-> r.cap]}
                /\ Answer(p, [id |-> g, name |-> r.name, cap |-> r.cap])
    /\ UNCHANGED <<referenceVars, flags, categories, labels>>

ServeCapGroup(p, r) ==
    /\ r.op = "capGroup"
    /\ LET old == CHOOSE x \in groups : x.id = r.group
           new == [old EXCEPT !.cap = r.cap] IN
       groups' = (groups \ {old}) \cup {new} /\ Answer(p, new)
    /\ UNCHANGED <<referenceVars, flags, categories, labels>>

\* The members lose their cap, never their profile (on delete set null).
ServeDeleteGroup(p, r) ==
    /\ r.op = "deleteGroup"
    /\ groups' = {x \in groups : x.id # r.group}
    /\ flags' = [c \in Cards |-> IF flags[c].group = r.group
                                 THEN [flags[c] EXCEPT !.group = Null] ELSE flags[c]]
    /\ Answer(p, Null)
    /\ UNCHANGED <<referenceVars, categories, labels>>

\* (mutant) a write of a reference waits for nobody
ServeReferenceAtOnce(p, r) ==
    /\ r.op = "reference" /\ Room(Account)
    /\ references' = [references EXCEPT ![r.card] = r.row]
    /\ lastId' = lastId + 1
    /\ log' = log \cup {[id |-> lastId + 1, by |-> Account, card |-> r.card,
                         before |-> references[r.card], after |-> r.row]}
    /\ Answer(p, Null)
    /\ UNCHANGED <<tx, serverVars>>

\* PUT and DELETE /references/:cardId by a page of this account, once no transaction of
\* another referent holds the row.
ServeReference(p, r) ==
    /\ r.op = "reference"
    /\ Unlocked(Account, r.card)
    /\ Room(Account)
    /\ references' = [references EXCEPT ![r.card] = r.row]
    /\ lastId' = lastId + 1
    /\ log' = log \cup {[id |-> lastId + 1, by |-> Account, card |-> r.card,
                         before |-> references[r.card], after |-> r.row]}
    /\ Answer(p, Null)
    /\ UNCHANGED <<tx, serverVars>>

Serve(p) ==
    /\ call[p].stage = "asked" /\ ~Refused(call[p].request)
    /\ LET r == call[p].request IN
       \/ ServeFlags(p, r) \/ ServeCardLabel(p, r) \/ ServeLabel(p, r)
       \/ ServeAddGroup(p, r) \/ ServeCapGroup(p, r) \/ ServeDeleteGroup(p, r)
       \/ ServeReference(p, r)
    /\ UNCHANGED <<lib, eff, queue, clicks, reads>>

\* The server refuses, or the request is lost: nothing is stored, the gesture ends
\* there and the next one takes its turn.
Fail(p) ==
    /\ call[p].stage = "asked"
    /\ Refused(call[p].request) \/ "lost" \in Faults
    /\ call' = [call EXCEPT ![p] = NoCall]
    /\ queue' = [queue EXCEPT ![p] = Tail(@)]
    /\ UNCHANGED <<referenceVars, serverVars, lib, eff, reading, clicks, reads, behind>>

\* What was asked is stored and its acknowledgement lost.
LoseAnswer(p) ==
    /\ "unanswered" \in Faults /\ call[p].stage = "answered"
    /\ call' = [call EXCEPT ![p] = NoCall]
    /\ queue' = [queue EXCEPT ![p] = Tail(@)]
    /\ behind' = [behind EXCEPT ![p] = TRUE]
    /\ UNCHANGED <<referenceVars, serverVars, lib, eff, reading, clicks, reads>>

---------------------------------------------------------------------------
(* The page adopts what is acknowledged *)

\* (mutant) the cards of a deleted cap keep pointing to it
WithoutGroupOnly(raw, g) == [raw EXCEPT !.groups = {x \in @ : x.id # g}]

\* deleteGroup: the page does itself what the server's foreign key does.
WithoutGroup(raw, g) ==
    [raw EXCEPT !.groups = {x \in @ : x.id # g},
                !.flags = [c \in Cards |-> IF @[c].group = g
                              THEN [@[c] EXCEPT !.group = Null] ELSE @[c]]]

\* What acknowledgement of request r, with the server's row, makes of a library.
Adopted(raw, r, row) ==
    CASE r.op \in {"flags", "reset"} -> [raw EXCEPT !.flags[r.card] = row]
      [] r.op = "putLabel" -> [raw EXCEPT !.labels = @ \cup {<<r.card, r.label>>}]
      [] r.op = "dropLabel" -> [raw EXCEPT !.labels = @ \ {<<r.card, r.label>>}]
      [] r.op = "addLabel" -> [raw EXCEPT !.categories = @ \cup {r.label}]
      [] r.op = "deleteLabel" -> [raw EXCEPT !.categories = @ \ {r.label},
                                             !.labels = {x \in @ : x[2] # r.label}]
      [] r.op = "addGroup" -> [raw EXCEPT !.groups = {x \in @ : x.id # row.id} \cup {row}]
      [] r.op = "capGroup" -> [raw EXCEPT !.groups = {IF x.id = row.id THEN row ELSE x : x \in @}]
      [] r.op = "deleteGroup" -> WithoutGroup(raw, r.group)
      [] OTHER -> [raw EXCEPT !.references[r.card] = r.row]

\* The mutators that can change the value of a card derive it again; labels do not.
Rederives(r) == r.op \notin {"putLabel", "dropLabel", "addLabel", "deleteLabel"}

Adopt(p) ==
    /\ call[p].stage = "answered"
    /\ lib' = [lib EXCEPT ![p] = Adopted(@, call[p].request, call[p].row)]
    /\ eff' = IF Rederives(call[p].request) THEN [eff EXCEPT ![p] = Derive(lib'[p])] ELSE eff
    /\ IF call[p].rest = <<>>
       THEN /\ call' = [call EXCEPT ![p] = NoCall]
            /\ queue' = [queue EXCEPT ![p] = Tail(@)]
       ELSE /\ call' = [call EXCEPT ![p] = Asking(p, @.rest)]
            /\ UNCHANGED queue
    /\ UNCHANGED <<referenceVars, serverVars, reading, clicks, reads, behind>>

---------------------------------------------------------------------------
(* Reading the whole library: bootstrap, from loadDeck or from an import *)
Read(p) ==
    /\ reads[p] < MaxReads[p] /\ reading[p] = Null
    /\ reading' = [reading EXCEPT ![p] = [lib |-> Stored, late |-> FALSE]]
    /\ reads' = [reads EXCEPT ![p] = @ + 1]
    /\ UNCHANGED <<referenceVars, serverVars, lib, eff, queue, call, clicks, behind>>

\* An acknowledgement still to come may put back a row that is older than the reading.
AdoptReading(p) ==
    /\ reading[p] # Null
    /\ lib' = [lib EXCEPT ![p] = reading[p].lib]
    /\ eff' = [eff EXCEPT ![p] = Derive(reading[p].lib)]
    /\ behind' = [behind EXCEPT ![p] = \/ reading[p].late
                                       \/ behind[p] /\ call[p].stage = "answered"]
    /\ reading' = [reading EXCEPT ![p] = Null]
    /\ UNCHANGED <<referenceVars, serverVars, queue, call, clicks, reads>>

\* A referent of another account writes a reference.
OthersReferences ==
    \/ /\ \E r \in Referents \ {Account} : ReferencesStep(r)
       /\ UNCHANGED <<serverVars, pageVars, behind>>
    \/ /\ \E r \in Referents \ {Account} : Commit(r)
       /\ behind' = [p \in Pages |-> TRUE]
       /\ reading' = [q \in Pages |-> IF reading[q] = Null THEN Null
                                      ELSE [reading[q] EXCEPT !.late = TRUE]]
       /\ UNCHANGED <<serverVars, lib, eff, queue, call, clicks, reads>>

Next ==
    \/ \E p \in Pages :
          \/ \E g \in Gestures[p] : Click(p, g)
          \/ Start(p) \/ Serve(p) \/ Fail(p) \/ LoseAnswer(p) \/ Adopt(p)
          \/ Read(p) \/ AdoptReading(p)
    \/ OthersReferences

Spec == Init /\ [][Next]_vars

---------------------------------------------------------------------------
(* Properties *)
TypeOK ==
    /\ ReferencesTypeOK
    /\ flags \in [Cards -> Choice] /\ groups \subseteq Group
    /\ categories \subseteq Labels /\ labels \subseteq Cards \X Labels
    /\ DOMAIN lib = Pages /\ \A p \in Pages : lib[p] \in Raw
    /\ DOMAIN eff = Pages /\ \A p \in Pages : eff[p] \in [Cards -> Effective]
    /\ \A p \in Pages : \A i \in DOMAIN queue[p] : queue[p][i] \in Gesture
    /\ \A p \in Pages : call[p].stage \in {"none", "asked", "answered"}

\* The account's rows always make sense: a cap is one of the account's and is on a
\* card that has a profile, a profile is on a card whose profile was chosen, labels
\* exist, no two caps share a name (routes/library.ts, checks of the schema).
RowsMakeSense ==
    /\ \A c \in Cards :
          /\ flags[c].group # Null => flags[c].availability # Null /\ HasGroup(Stored, flags[c].group)
          /\ flags[c].availability # Null => flags[c].choice
    /\ \A x \in labels : x[2] \in categories
    /\ \A x, y \in groups : x.id = y.id \/ x.name = y.name => x = y

\* Whatever it has adopted, in whatever order, a page shows the values that follow
\* from the library it holds (deriveEffective after every mutator that needs it).
ShowsWhatItHolds == \A p \in Pages : eff[p] = Derive(lib[p])

Coherent == TypeOK /\ RowsMakeSense /\ ShowsWhatItHolds

\* The page rebuilds, gesture by gesture, what the server's transactions did, the
\* cascades of its foreign keys included: unless another page or a referent wrote, or
\* an answer was lost, or a reading was overtaken, it holds exactly what is stored.
HoldsWhatIsStored ==
    \A p \in Pages : behind[p] \/ call[p].stage = "answered" \/ lib[p] = Stored

\* The library, on the server and on the pages, is one and the same, and makes sense.
OneLibrary == Coherent /\ HoldsWhatIsStored

\* The first gesture on an inherited profile stores what the page was showing, even
\* when the reference has changed since: the parts of the profile the gesture does
\* not change are those on the screen; adopting changes none.  The page must know the
\* account's own rows, not the references.
StoresTheScreen ==
    [][\A p \in Pages :
         LET r == call[p].request
             c == r.card
             shown == call[p].shown[c] IN
         (/\ call[p].stage = "asked" /\ call'[p].stage = "answered"
          /\ r.op = "flags" /\ r.hopt = Keep
          /\ call[p].known.flags = flags /\ call[p].known.groups = groups)
         => /\ r.availability = Keep => flags'[c].availability = shown.availability
            /\ r.group = Keep /\ r.availability # Null => flags'[c].group = shown.group
      ]_vars

\* The server's rows keep the promises made to the account, whatever references are
\* written and whatever the account's pages do.
Seen == [c \in Cards |-> [hopt |-> EffectiveOf(Stored, c).hopt,
                          availability |-> EffectiveOf(Stored, c).availability,
                          group |-> EffectiveOf(Stored, c).group]]
Chosen == [c \in Cards |-> {a \in {"hopt", "nonengine"} :
              IF a = "hopt" THEN flags[c].hopt # Null ELSE flags[c].choice}]
View == INSTANCE AccountView WITH seen <- Seen, chosen <- Chosen
KeepsItsPromises == View!Spec
===========================================================================
