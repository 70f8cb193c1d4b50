--------------------------- MODULE Library_proofs ---------------------------
(***************************************************************************)
(* Proofs about the library of an account and the common references under  *)
(* it, for any cards, referents, pages, labels, caps and gestures.         *)
(***************************************************************************)
EXTENDS Library, SequenceTheorems, TLAPS

(***************************************************************************)
(* The references                                                          *)
(***************************************************************************)

Writing(r) == tx[r].stage = "written"

\* One transaction at most has written the row of a card; its entry and those of
\* the journal have numbers of their own, and it has the last one of its card.
TransactionsInOrder ==
    /\ tx[Account] = Idle
    /\ \A e \in log : e.id <= lastId
    /\ \A e, f \in log : e.id = f.id => e = f
    /\ \A r \in Referents : Writing(r) =>
          /\ tx[r].entry.id <= lastId
          /\ \A e \in log : e.id # tx[r].entry.id
          /\ \A e \in log : e.card = tx[r].entry.card => e.id < tx[r].entry.id
          /\ \A o \in Referents : Writing(o) /\ o # r =>
                tx[o].entry.id # tx[r].entry.id /\ tx[o].entry.card # tx[r].entry.card

ReferencesInOrder == ReferencesTypeOK /\ TransactionsInOrder /\ JournalTellsTheRows

(***************************************************************************)
(* The account                                                             *)
(***************************************************************************)

RowTypes ==
    /\ flags \in [Cards -> Choice] /\ groups \subseteq Group
    /\ categories \subseteq Labels /\ labels \subseteq Cards \X Labels

RowsInOrder == RowTypes /\ RowsMakeSense

(***************************************************************************)
(* The pages                                                               *)
(***************************************************************************)

\* A click of the non-engine mode always has something to ask.
Clicked == {g \in Gesture : g.do = "nonengine" => g.label # Null \/ g.profile # Null}

Shown == [availability : Profiles \cup {Null}, name : Names \cup {Null}]
\* A request on the row of a card is about one aspect; about the profile, it carries
\* what was inherited, except where it withdraws the profile.
HoptRequests ==
    [op : {"flags"}, card : Cards, hopt : BOOLEAN, availability : {Keep}, group : {Keep},
     inherits : {FALSE}, inherited : {Keep}]
WithdrawRequests ==
    [op : {"flags"}, card : Cards, hopt : {Keep}, availability : {Null}, group : {Keep},
     inherits : {FALSE}, inherited : {Keep}]
ProfileRequests ==
    [op : {"flags"}, card : Cards, hopt : {Keep}, availability : Profiles \cup {Null},
     group : {Keep}, inherits : {TRUE}, inherited : Shown \cup {Keep}]
GroupRequests ==
    [op : {"flags"}, card : Cards, hopt : {Keep}, availability : {Keep},
     group : GroupIds \cup {Null}, inherits : {TRUE}, inherited : Shown \cup {Keep}]
FlagsRequests == HoptRequests \cup WithdrawRequests \cup ProfileRequests \cup GroupRequests
OtherRequests ==
    [op : {"reset"}, card : Cards, aspect : {"hopt", "nonengine"}]
    \cup [op : {"putLabel", "dropLabel"}, card : Cards, label : Labels]
    \cup [op : {"addLabel", "deleteLabel"}, label : Labels]
    \cup [op : {"addGroup"}, name : Names, cap : Limits]
    \cup [op : {"capGroup"}, group : GroupIds, cap : Limits]
    \cup [op : {"deleteGroup"}, group : GroupIds]
    \cup [op : {"reference"}, card : Cards, row : Row]
Asked == FlagsRequests \cup OtherRequests

Views == [Cards -> Effective]

AskedCalls == [stage : {"asked"}, request : Asked, rest : Seq(Asked), known : Raw, shown : Views]
\* What the server answers a request with.
Answers(r) ==
    CASE r.op \in {"flags", "reset"} -> Choice
      [] r.op \in {"addGroup", "capGroup"} -> Group
      [] OTHER -> {Null}
AnsweredCalls ==
    UNION {[stage : {"answered"}, request : {r}, rest : Seq(Asked), row : Answers(r)] : r \in Asked}

PageTypes ==
    /\ lib \in [Pages -> Raw] /\ eff \in [Pages -> Views]
    /\ queue \in [Pages -> Seq(Clicked)]
    /\ call \in [Pages -> {NoCall} \cup AskedCalls \cup AnsweredCalls]
    /\ reading \in [Pages -> {Null} \cup [lib : Raw, late : BOOLEAN]]
    /\ behind \in [Pages -> BOOLEAN]

\* A request on a profile carries what the page showed when it left.
CarriesTheScreen(p) ==
    call[p].stage = "asked" =>
      LET r == call[p].request IN
      /\ call[p].shown = Derive(call[p].known)
      /\ r.op = "flags" /\ r.inherits =>
           r.inherited = IF call[p].known.flags[r.card].choice
                            \/ call[p].shown[r.card].origin = Null THEN Keep
                         ELSE [availability |-> call[p].shown[r.card].availability,
                               name |-> call[p].shown[r.card].name]

\* Up to the answer it has not adopted, a page that may know everything does; and so does
\* a reading nothing was committed after.
KnowsOrIsBehind(p) ==
    /\ \/ behind[p]
       \/ call[p].stage = "answered" /\ Adopted(lib[p], call[p].request, call[p].row) = Stored
       \/ call[p].stage # "answered" /\ lib[p] = Stored
    /\ reading[p] # Null /\ ~reading[p].late => reading[p].lib = Stored

PageInOrder(p) ==
    /\ eff[p] = Derive(lib[p])
    /\ queue[p] = <<>> => call[p] = NoCall
    /\ CarriesTheScreen(p)
    /\ KnowsOrIsBehind(p)

PagesInOrder == PageTypes /\ \A p \in Pages : PageInOrder(p)

IInv == ReferencesInOrder /\ RowsInOrder /\ PagesInOrder

-----------------------------------------------------------------------------
(* The journal *)

USE ReferencesAssumption

LEMMA ReferencesStart == ReferencesInit => ReferencesInOrder
<1> SUFFICES ASSUME ReferencesInit PROVE ReferencesInOrder
  OBVIOUS
<1> USE DEF ReferencesInit
<1>1. ReferencesTypeOK
  BY DEF ReferencesTypeOK, Row
<1>2. TransactionsInOrder
  BY LibraryAssumption DEF TransactionsInOrder, Writing, Idle
<1>3. JournalTellsTheRows
  BY DEF JournalTellsTheRows, EntriesOf
<1> QED
  BY <1>1, <1>2, <1>3 DEF ReferencesInOrder

\* The entry with the greatest number is the last one.
LEMMA LastIsGreatest ==
    ASSUME log \subseteq Entry, \A e, f \in log : e.id = f.id => e = f,
           NEW c \in Cards, NEW e \in EntriesOf(c), \A o \in EntriesOf(c) : o.id <= e.id
    PROVE  LastEntry(c) = e
<1>1. \A o \in EntriesOf(c) : o \in log /\ o.id \in Nat
  BY DEF EntriesOf, Entry
<1>2. ASSUME NEW f \in EntriesOf(c), \A o \in EntriesOf(c) : o.id <= f.id PROVE f = e
  <2>1. f.id = e.id
    BY <1>1, <1>2
  <2> QED
    BY <1>1, <2>1
<1> QED
  BY <1>2 DEF LastEntry

LEMMA StageTypes ==
    ASSUME ReferencesTypeOK, NEW r \in Referents
    PROVE  /\ tx[r] = Idle \/ tx[r] \in Reading \/ tx[r] \in Written
           /\ tx[r].stage = "read" => tx[r] \in Reading
           /\ Writing(r) => tx[r] \in Written /\ tx[r].entry \in Entry
BY DEF ReferencesTypeOK, Idle, Reading, Written, Writing

\* A referent reads what it will replace.
LEMMA BeginSetStep ==
    ASSUME ReferencesInOrder, NEW r \in Referents, r # Account,
           NEW c \in Cards, NEW row \in ReferenceRows, BeginSet(r, c, row)
    PROVE  ReferencesInOrder'
<1> DEFINE t == [stage |-> "read", card |-> c, before |-> references[c], after |-> row]
<1>1. ReferencesTypeOK /\ TransactionsInOrder /\ JournalTellsTheRows
  BY DEF ReferencesInOrder
<1>2. t \in Reading /\ t.stage = "read"
  BY <1>1 DEF ReferencesTypeOK, Reading
<1>3. tx' = [tx EXCEPT ![r] = t] /\ UNCHANGED <<references, log, lastId>>
  BY DEF BeginSet
<1> HIDE DEF t
<1>4. ReferencesTypeOK'
  BY <1>1, <1>2, <1>3 DEF ReferencesTypeOK
<1>5. /\ \A o \in Referents : Writing(o)' => o # r /\ Writing(o) /\ tx'[o] = tx[o]
      /\ tx'[Account] = Idle
  BY <1>1, <1>2, <1>3 DEF Writing, ReferencesTypeOK, TransactionsInOrder
<1>6. TransactionsInOrder'
  BY <1>1, <1>3, <1>5 DEF TransactionsInOrder, EntriesOf
<1>7. JournalTellsTheRows'
  BY <1>1, <1>3 DEF JournalTellsTheRows, EntriesOf, LastEntry
<1> QED
  BY <1>4, <1>6, <1>7 DEF ReferencesInOrder

\* An entry with the next number, of a card no other transaction has written.
LEMMA WritingStep ==
    ASSUME ReferencesInOrder, NEW r \in Referents, r # Account, NEW e \in Entry,
           e.id = lastId + 1, Unlocked(r, e.card),
           tx' = [tx EXCEPT ![r] = [stage |-> "written", entry |-> e]],
           lastId' = lastId + 1, UNCHANGED <<references, log>>
    PROVE  ReferencesInOrder'
<1> DEFINE t == [stage |-> "written", entry |-> e]
<1>1. ReferencesTypeOK /\ TransactionsInOrder /\ JournalTellsTheRows
  BY DEF ReferencesInOrder
<1>2. t \in Written /\ t.stage = "written" /\ t.entry = e /\ tx' = [tx EXCEPT ![r] = t]
  BY DEF Written
<1>3. /\ lastId \in Nat /\ log \subseteq Entry /\ e.id \in Nat /\ e.card \in Cards
      /\ \A f \in log : f.id \in Nat
      /\ \A o \in Referents : Writing(o) => tx[o].entry.id \in Nat
  BY <1>1, StageTypes DEF ReferencesTypeOK, Entry
<1> HIDE DEF t
<1>4. ReferencesTypeOK'
  BY <1>1, <1>2, <1>3 DEF ReferencesTypeOK
<1>5. /\ Writing(r)' /\ tx'[r].entry = e /\ tx'[Account] = Idle
      /\ \A o \in Referents \ {r} : tx'[o] = tx[o] /\ (Writing(o)' <=> Writing(o))
  BY <1>1, <1>2 DEF Writing, ReferencesTypeOK, TransactionsInOrder
<1>6. \A o \in Referents : Writing(o) /\ o # r => tx[o].entry.card # e.card
  BY DEF Unlocked, Holds, Writing
<1>7. \A f \in log : f.id < e.id
  BY <1>1, <1>3 DEF TransactionsInOrder
<1>8. \A o \in Referents : Writing(o) => tx[o].entry.id < e.id
  BY <1>1, <1>3 DEF TransactionsInOrder
<1>9. /\ tx'[Account] = Idle
      /\ \A f \in log' : f.id <= lastId'
      /\ \A f, g \in log' : f.id = g.id => f = g
  BY <1>1, <1>3, <1>5 DEF TransactionsInOrder
<1>10. ASSUME NEW s \in Referents, Writing(s)'
       PROVE  /\ tx'[s].entry.id <= lastId'
              /\ \A f \in log' : f.id # tx'[s].entry.id
              /\ \A f \in log' : f.card = tx'[s].entry.card => f.id < tx'[s].entry.id
              /\ \A o \in Referents : Writing(o)' /\ o # s =>
                    tx'[o].entry.id # tx'[s].entry.id /\ tx'[o].entry.card # tx'[s].entry.card
  <2>1. CASE s = r
    <3>1. tx'[s].entry.id <= lastId' /\ \A f \in log' : f.id # tx'[s].entry.id
      BY <2>1, <1>3, <1>5, <1>7
    <3>2. \A f \in log' : f.card = tx'[s].entry.card => f.id < tx'[s].entry.id
      BY <2>1, <1>5, <1>7 DEF EntriesOf
    <3>3. \A o \in Referents : Writing(o)' /\ o # s =>
             tx'[o].entry.id # tx'[s].entry.id /\ tx'[o].entry.card # tx'[s].entry.card
      BY <2>1, <1>3, <1>5, <1>6, <1>8
    <3> QED
      BY <3>1, <3>2, <3>3
  <2>2. CASE s # r
    <3>1. Writing(s) /\ tx'[s] = tx[s]
      BY <2>2, <1>5, <1>10
    <3>2. tx'[s].entry.id <= lastId' /\ \A f \in log' : f.id # tx'[s].entry.id
      BY <3>1, <1>1, <1>3 DEF TransactionsInOrder
    <3>3. \A f \in log' : f.card = tx'[s].entry.card => f.id < tx'[s].entry.id
      BY <3>1, <1>1 DEF TransactionsInOrder, EntriesOf
    <3>4. \A o \in Referents : Writing(o)' /\ o # s =>
             tx'[o].entry.id # tx'[s].entry.id /\ tx'[o].entry.card # tx'[s].entry.card
      <4>1. ASSUME NEW o \in Referents \ {r}, Writing(o)', o # s
            PROVE  tx'[o].entry.id # tx'[s].entry.id /\ tx'[o].entry.card # tx'[s].entry.card
        BY <3>1, <4>1, <1>5, <1>1 DEF TransactionsInOrder
      <4>2. tx'[r].entry.id # tx'[s].entry.id /\ tx'[r].entry.card # tx'[s].entry.card
        BY <3>1, <2>2, <1>3, <1>5, <1>6, <1>8
      <4> QED
        BY <4>1, <4>2
    <3> QED
      BY <3>2, <3>3, <3>4
  <2> QED
    BY <2>1, <2>2
<1>11. TransactionsInOrder'
  BY <1>9, <1>10 DEF TransactionsInOrder
<1>12. JournalTellsTheRows'
  BY <1>1 DEF JournalTellsTheRows, EntriesOf, LastEntry
<1> QED
  BY <1>4, <1>11, <1>12 DEF ReferencesInOrder

LEMMA ReferencesStepOk ==
    ASSUME ReferencesInOrder, NEW r \in Referents, r # Account, ReferencesStep(r)
    PROVE  ReferencesInOrder'
<1>0. ReferencesTypeOK /\ lastId \in Nat
  BY DEF ReferencesInOrder, ReferencesTypeOK
<1>1. CASE \E c \in Cards, row \in ReferenceRows : BeginSet(r, c, row)
  BY <1>1, BeginSetStep
<1>2. CASE WriteSet(r)
  <2> DEFINE e == [id |-> lastId + 1, by |-> r, card |-> tx[r].card,
                   before |-> tx[r].before, after |-> tx[r].after]
  <2>1. tx[r] \in Reading
    BY <1>0, <1>2, StageTypes DEF WriteSet
  <2>2. e \in Entry /\ e.id = lastId + 1 /\ e.card = tx[r].card
    BY <1>0, <2>1 DEF Entry, Reading, Row
  <2>3. /\ tx' = [tx EXCEPT ![r] = [stage |-> "written", entry |-> e]]
        /\ Unlocked(r, tx[r].card) /\ lastId' = lastId + 1 /\ UNCHANGED <<references, log>>
    BY <1>2 DEF WriteSet
  <2> HIDE DEF e
  <2> QED
    BY <2>2, <2>3, WritingStep
<1>3. ASSUME NEW c \in Cards, WriteClear(r, c) PROVE ReferencesInOrder'
  <2> DEFINE e == [id |-> lastId + 1, by |-> r, card |-> c,
                   before |-> references[c], after |-> NoReference]
  <2>1. e \in Entry /\ e.id = lastId + 1 /\ e.card = c
    BY <1>0 DEF Entry, Row, ReferencesTypeOK
  <2>2. /\ tx' = [tx EXCEPT ![r] = [stage |-> "written", entry |-> e]]
        /\ Unlocked(r, c) /\ lastId' = lastId + 1 /\ UNCHANGED <<references, log>>
    BY <1>3 DEF WriteClear
  <2> HIDE DEF e
  <2> QED
    BY <2>1, <2>2, WritingStep
<1> QED
  BY <1>1, <1>2, <1>3 DEF ReferencesStep

\* What a transaction leaves, whoever commits it: the row and its entry, the last of
\* its card, with a number no other has.
LEMMA JournalGrows ==
    ASSUME ReferencesTypeOK, JournalTellsTheRows, NEW e \in Entry,
           \A f, g \in log : f.id = g.id => f = g,
           \A f \in log : f.id # e.id, \A f \in EntriesOf(e.card) : f.id < e.id,
           references' = [references EXCEPT ![e.card] = e.after], log' = log \cup {e}
    PROVE  JournalTellsTheRows'
<1>1. log' \subseteq Entry /\ \A f, g \in log' : f.id = g.id => f = g
  BY DEF ReferencesTypeOK
<1>2. e.card \in Cards /\ e.id \in Nat /\ references \in [Cards -> Row]
  BY DEF Entry, ReferencesTypeOK
<1> SUFFICES ASSUME NEW c \in Cards
             PROVE  references'[c] = IF EntriesOf(c)' = {} THEN NoReference
                                     ELSE LastEntry(c)'.after
  BY DEF JournalTellsTheRows
<1>3. CASE c = e.card
  <2>1. EntriesOf(c)' = EntriesOf(c) \cup {e}
    BY <1>3 DEF EntriesOf
  <2>2. \A o \in EntriesOf(c)' : o.id <= e.id
    <3>1. \A o \in EntriesOf(c) : o.id \in Nat
      BY DEF EntriesOf, ReferencesTypeOK, Entry
    <3> QED
      BY <1>2, <1>3, <2>1, <3>1
  <2>3. ASSUME NEW f \in EntriesOf(c)', \A o \in EntriesOf(c)' : o.id <= f.id PROVE f = e
    <3>1. f \in log' /\ e \in log' /\ f.id \in Nat
      BY <1>1 DEF EntriesOf, Entry
    <3> QED
      BY <1>1, <1>2, <2>1, <2>2, <2>3, <3>1
  <2>4. LastEntry(c)' = e
    BY <2>1, <2>2, <2>3 DEF LastEntry
  <2> QED
    BY <1>2, <1>3, <2>1, <2>4
<1>4. CASE c # e.card
  <2>1. EntriesOf(c)' = EntriesOf(c)
    BY <1>4 DEF EntriesOf
  <2>2. LastEntry(c)' = LastEntry(c)
    BY <2>1 DEF LastEntry
  <2>3. references'[c] = references[c]
    BY <1>2, <1>4
  <2> QED
    BY <2>1, <2>2, <2>3 DEF JournalTellsTheRows
<1> QED
  BY <1>3, <1>4

LEMMA CommitStep ==
    ASSUME ReferencesInOrder, NEW r \in Referents, r # Account, Commit(r)
    PROVE  ReferencesInOrder'
<1> DEFINE e == tx[r].entry
<1>1. ReferencesTypeOK /\ TransactionsInOrder /\ JournalTellsTheRows /\ Writing(r)
  BY DEF ReferencesInOrder, Commit, Writing
<1>2. e \in Entry /\ e.card \in Cards /\ e.after \in Row /\ e.id \in Nat
  BY <1>1, StageTypes DEF Entry
<1>3. /\ references' = [references EXCEPT ![e.card] = e.after]
      /\ log' = log \cup {e} /\ tx' = [tx EXCEPT ![r] = Idle] /\ lastId' = lastId
  BY DEF Commit
<1>4. /\ e.id <= lastId /\ \A f \in log : f.id # e.id
      /\ \A f \in log : f.card = e.card => f.id < e.id
      /\ \A o \in Referents : Writing(o) /\ o # r =>
            tx[o].entry.id # e.id /\ tx[o].entry.card # e.card
      /\ \A f, g \in log : f.id = g.id => f = g
  BY <1>1 DEF TransactionsInOrder
<1> HIDE DEF e
<1>5. ReferencesTypeOK'
  BY <1>1, <1>2, <1>3 DEF ReferencesTypeOK
<1>6. JournalTellsTheRows'
  <2>1. \A f \in EntriesOf(e.card) : f.id < e.id
    BY <1>4 DEF EntriesOf
  <2> QED
    BY <1>1, <1>2, <1>3, <1>4, <2>1, JournalGrows
<1>7. /\ tx'[Account] = Idle
      /\ \A o \in Referents : Writing(o)' => o # r /\ Writing(o) /\ tx'[o] = tx[o]
  BY <1>1, <1>3 DEF Writing, Idle, ReferencesTypeOK, TransactionsInOrder
<1>8. /\ \A f \in log' : f.id <= lastId'
      /\ \A f, g \in log' : f.id = g.id => f = g
  BY <1>1, <1>2, <1>3, <1>4 DEF TransactionsInOrder
<1>9. ASSUME NEW s \in Referents, Writing(s)'
      PROVE  /\ tx'[s].entry.id <= lastId'
             /\ \A f \in log' : f.id # tx'[s].entry.id
             /\ \A f \in log' : f.card = tx'[s].entry.card => f.id < tx'[s].entry.id
             /\ \A o \in Referents : Writing(o)' /\ o # s =>
                   tx'[o].entry.id # tx'[s].entry.id /\ tx'[o].entry.card # tx'[s].entry.card
  <2>1. s # r /\ Writing(s) /\ tx'[s] = tx[s]
    BY <1>7, <1>9
  <2>2. /\ tx[s].entry.id <= lastId /\ \A f \in log : f.id # tx[s].entry.id
        /\ \A f \in log : f.card = tx[s].entry.card => f.id < tx[s].entry.id
        /\ \A o \in Referents : Writing(o) /\ o # s =>
              tx[o].entry.id # tx[s].entry.id /\ tx[o].entry.card # tx[s].entry.card
    BY <1>1, <2>1 DEF TransactionsInOrder
  <2>3. tx[s].entry.id # e.id /\ tx[s].entry.card # e.card
    BY <1>4, <2>1
  <2>5. \A f \in log' : f.card = tx'[s].entry.card => f.id < tx'[s].entry.id
    BY <1>3, <2>1, <2>2, <2>3 DEF EntriesOf
  <2>6. \A o \in Referents : Writing(o)' /\ o # s =>
           tx'[o].entry.id # tx'[s].entry.id /\ tx'[o].entry.card # tx'[s].entry.card
    BY <1>7, <2>1, <2>2
  <2> QED
    BY <1>3, <2>1, <2>2, <2>3, <2>5, <2>6
<1>10. TransactionsInOrder'
  BY <1>7, <1>8, <1>9 DEF TransactionsInOrder
<1> QED
  BY <1>5, <1>6, <1>10 DEF ReferencesInOrder

\* A page of the account writes its row and its entry at once.
LEMMA OwnReferenceStep ==
    ASSUME ReferencesInOrder, NEW c \in Cards, NEW row \in Row, Unlocked(Account, c),
           references' = [references EXCEPT ![c] = row], lastId' = lastId + 1,
           log' = log \cup {[id |-> lastId + 1, by |-> Account, card |-> c,
                             before |-> references[c], after |-> row]},
           tx' = tx
    PROVE  ReferencesInOrder'
<1> DEFINE e == [id |-> lastId + 1, by |-> Account, card |-> c,
                 before |-> references[c], after |-> row]
<1>1. ReferencesTypeOK /\ TransactionsInOrder /\ JournalTellsTheRows /\ lastId \in Nat
  BY DEF ReferencesInOrder, ReferencesTypeOK
<1>2. e \in Entry /\ e.card = c /\ e.after = row /\ e.id = lastId + 1 /\ e.id \in Nat
  BY <1>1, LibraryAssumption DEF Entry, ReferencesTypeOK
<1>3. log' = log \cup {e}
  OBVIOUS
<1> HIDE DEF e
<1>4. /\ \A f \in log : f.id < e.id
      /\ \A f, g \in log : f.id = g.id => f = g
      /\ \A f \in log : f.id \in Nat
  BY <1>1, <1>2 DEF TransactionsInOrder, ReferencesTypeOK, Entry
<1>5. ReferencesTypeOK'
  BY <1>1, <1>2, <1>3 DEF ReferencesTypeOK
<1>6. JournalTellsTheRows'
  <2>1. (\A f \in EntriesOf(e.card) : f.id < e.id) /\ \A f \in log : f.id # e.id
    BY <1>2, <1>4 DEF EntriesOf
  <2> QED
    BY <1>1, <1>2, <1>3, <1>4, <2>1, JournalGrows
<1>7. \A o \in Referents : Writing(o) => tx[o].entry.card # c /\ tx[o].entry.id \in Nat
  <2>1. \A o \in Referents : Writing(o) => o # Account
    BY <1>1 DEF TransactionsInOrder, Writing, Idle
  <2> QED
    BY <1>1, <2>1, StageTypes DEF Unlocked, Holds, Writing, Entry
<1>8. /\ tx'[Account] = Idle /\ \A f \in log' : f.id <= lastId'
      /\ \A f, g \in log' : f.id = g.id => f = g
  BY <1>1, <1>2, <1>3, <1>4 DEF TransactionsInOrder
<1>9. ASSUME NEW s \in Referents, Writing(s)'
      PROVE  /\ tx'[s].entry.id <= lastId'
             /\ \A f \in log' : f.id # tx'[s].entry.id
             /\ \A f \in log' : f.card = tx'[s].entry.card => f.id < tx'[s].entry.id
             /\ \A o \in Referents : Writing(o)' /\ o # s =>
                   tx'[o].entry.id # tx'[s].entry.id /\ tx'[o].entry.card # tx'[s].entry.card
  <2>1. Writing(s)
    BY <1>9 DEF Writing
  <2>2. /\ tx[s].entry.id <= lastId /\ \A f \in log : f.id # tx[s].entry.id
        /\ \A f \in log : f.card = tx[s].entry.card => f.id < tx[s].entry.id
        /\ \A o \in Referents : Writing(o) /\ o # s =>
              tx[o].entry.id # tx[s].entry.id /\ tx[o].entry.card # tx[s].entry.card
    BY <1>1, <2>1 DEF TransactionsInOrder
  <2>3. tx[s].entry.id # e.id /\ tx[s].entry.card # e.card /\ tx[s].entry.id \in Nat
    BY <1>1, <1>2, <1>7, <2>1, <2>2
  <2>5. \A f \in log' : f.card = tx'[s].entry.card => f.id < tx'[s].entry.id
    BY <1>3, <2>1, <2>2, <2>3 DEF EntriesOf
  <2>6. \A o \in Referents : Writing(o)' /\ o # s =>
           tx'[o].entry.id # tx'[s].entry.id /\ tx'[o].entry.card # tx'[s].entry.card
    BY <2>1, <2>2 DEF Writing
  <2> QED
    BY <1>1, <1>3, <2>1, <2>2, <2>3, <2>5, <2>6
<1>10. TransactionsInOrder'
  BY <1>8, <1>9 DEF TransactionsInOrder
<1> QED
  BY <1>5, <1>6, <1>10 DEF ReferencesInOrder

LEMMA ReferencesKept == ReferencesInOrder /\ UNCHANGED referenceVars => ReferencesInOrder'
BY DEF ReferencesInOrder, ReferencesTypeOK, TransactionsInOrder, JournalTellsTheRows, referenceVars,
       Writing, EntriesOf, LastEntry

-----------------------------------------------------------------------------
(* Requests *)

USE AbsenceAssumption, LibraryAssumption

LEMMA RequestKinds ==
    ASSUME NEW r \in Asked
    PROVE  /\ r.op = "flags" => r \in FlagsRequests
           /\ r.op = "reset" => r.card \in Cards /\ r.aspect \in {"hopt", "nonengine"}
           /\ r.op \in {"putLabel", "dropLabel"} => r.card \in Cards /\ r.label \in Labels
           /\ r.op \in {"addLabel", "deleteLabel"} => r.label \in Labels
           /\ r.op = "addGroup" => r.name \in Names /\ r.cap \in Limits
           /\ r.op = "capGroup" => r.group \in GroupIds /\ r.cap \in Limits
           /\ r.op = "deleteGroup" => r.group \in GroupIds
           /\ r.op = "reference" => r.card \in Cards /\ r.row \in Row
           /\ r.op \in {"flags", "reset", "putLabel", "dropLabel", "addLabel", "deleteLabel",
                        "addGroup", "capGroup", "deleteGroup", "reference"}
<1>1. CASE r \in FlagsRequests
  <2>1. r.op = "flags"
    BY <1>1 DEF FlagsRequests, HoptRequests, WithdrawRequests, ProfileRequests, GroupRequests
  <2> QED
    BY <1>1, <2>1
<1>2. CASE r \in OtherRequests
  BY <1>2 DEF OtherRequests
<1> QED
  BY <1>1, <1>2 DEF Asked

LEMMA FlagsFields ==
    ASSUME NEW r \in FlagsRequests
    PROVE  r.op = "flags" /\ r.card \in Cards /\ r.inherited \in Shown \cup {Keep}
BY DEF FlagsRequests, HoptRequests, WithdrawRequests, ProfileRequests, GroupRequests

LEMMA ChoiceFields ==
    ASSUME NEW row \in Choice
    PROVE  /\ row = [hopt |-> row.hopt, choice |-> row.choice,
                     availability |-> row.availability, group |-> row.group]
           /\ row.hopt \in BOOLEAN \cup {Null} /\ row.choice \in BOOLEAN
           /\ row.availability \in Profiles \cup {Null} /\ row.group \in GroupIds \cup {Null}
BY DEF Choice

\* A name stands for a cap there is, or for none.
LEMMA GroupNamedIs ==
    ASSUME NEW raw, raw.groups \subseteq Group, NEW name
    PROVE  /\ GroupNamed(raw, name) \in GroupIds \cup {Null}
           /\ GroupNamed(raw, name) # Null => HasGroup(raw, GroupNamed(raw, name))
<1>1. CASE \E x \in raw.groups : x.name = name
  <2> DEFINE g == CHOOSE x \in raw.groups : x.name = name
  <2>1. g \in raw.groups
    BY <1>1
  <2>2. GroupNamed(raw, name) = g.id
    BY <1>1 DEF GroupNamed
  <2> HIDE DEF g
  <2> QED
    BY <2>1, <2>2 DEF HasGroup, Group
<1>2. CASE ~\E x \in raw.groups : x.name = name
  BY <1>2 DEF GroupNamed
<1> QED
  BY <1>1, <1>2

\* Parts of the row the server stores: what the first write copies, and what it keeps.
Copies(r) == ~flags[r.card].choice /\ r.inherited # Keep
KeptAvailability(r) == IF Copies(r) THEN r.inherited.availability ELSE flags[r.card].availability
KeptGroup(r) == IF ~Copies(r) THEN flags[r.card].group
                ELSE IF r.inherited.availability = Null THEN Null
                ELSE GroupNamed(Stored, r.inherited.name)

LEMMA FlagsRowIs ==
    ASSUME NEW r \in FlagsRequests
    PROVE  /\ r \in HoptRequests =>
                FlagsRow(r) = [hopt |-> r.hopt, choice |-> flags[r.card].choice \/ FALSE,
                               availability |-> flags[r.card].availability,
                               group |-> flags[r.card].group]
           /\ r \in WithdrawRequests =>
                FlagsRow(r) = [hopt |-> flags[r.card].hopt, choice |-> flags[r.card].choice \/ TRUE,
                               availability |-> Null, group |-> Null]
           /\ r \in ProfileRequests =>
                FlagsRow(r) = [hopt |-> flags[r.card].hopt, choice |-> flags[r.card].choice \/ TRUE,
                               availability |-> r.availability,
                               group |-> IF r.availability = Null THEN Null ELSE KeptGroup(r)]
           /\ r \in GroupRequests =>
                FlagsRow(r) = [hopt |-> flags[r.card].hopt, choice |-> flags[r.card].choice \/ TRUE,
                               availability |-> KeptAvailability(r), group |-> r.group]
<1>1. CASE r \in HoptRequests
  <2>1. r.hopt # Keep /\ r.availability = Keep /\ r.group = Keep
    BY <1>1 DEF HoptRequests
  <2>2. r \notin WithdrawRequests /\ r \notin ProfileRequests /\ r \notin GroupRequests
    BY <2>1 DEF WithdrawRequests, ProfileRequests, GroupRequests
  <2> QED
    BY <2>1, <2>2 DEF FlagsRow
<1>2. CASE r \in WithdrawRequests
  <2>1. r.hopt = Keep /\ r.availability = Null /\ r.group = Keep /\ r.inherits = FALSE
    BY <1>2 DEF WithdrawRequests
  <2>2. r \notin HoptRequests /\ r \notin ProfileRequests /\ r \notin GroupRequests
    BY <2>1 DEF HoptRequests, ProfileRequests, GroupRequests
  <2> QED
    BY <2>1, <2>2 DEF FlagsRow
<1>3. CASE r \in ProfileRequests
  <2>1. r.hopt = Keep /\ r.availability # Keep /\ r.group = Keep /\ r.inherits = TRUE
    BY <1>3 DEF ProfileRequests
  <2>2. r \notin HoptRequests /\ r \notin WithdrawRequests /\ r \notin GroupRequests
    BY <2>1 DEF HoptRequests, WithdrawRequests, GroupRequests
  <2> QED
    BY <2>1, <2>2 DEF FlagsRow, Copies, KeptGroup
<1>4. CASE r \in GroupRequests
  <2>1. r.hopt = Keep /\ r.availability = Keep /\ r.group # Keep /\ r.inherits = TRUE
    BY <1>4 DEF GroupRequests
  <2>2. r \notin HoptRequests /\ r \notin WithdrawRequests /\ r \notin ProfileRequests
    BY <2>1 DEF HoptRequests, WithdrawRequests, ProfileRequests
  <2> QED
    BY <2>1, <2>2 DEF FlagsRow, Copies, KeptAvailability
<1> QED
  BY <1>1, <1>2, <1>3, <1>4 DEF FlagsRequests

LEMMA StoredFields ==
    /\ Stored.flags = flags /\ Stored.groups = groups /\ Stored.categories = categories
    /\ Stored.labels = labels /\ Stored.references = references
BY DEF Stored

\* What the server keeps of a row makes sense.
LEMMA KeptMakesSense ==
    ASSUME RowsInOrder, NEW r \in FlagsRequests
    PROVE  /\ KeptAvailability(r) \in Profiles \cup {Null}
           /\ KeptGroup(r) \in GroupIds \cup {Null}
           /\ KeptGroup(r) # Null => KeptAvailability(r) # Null /\ HasGroup(Stored, KeptGroup(r))
<1> DEFINE current == flags[r.card]
<1>1. /\ r.card \in Cards /\ r.inherited \in Shown \cup {Keep} /\ current \in Choice
      /\ groups \subseteq Group
  BY FlagsFields DEF RowsInOrder, RowTypes
<1>2. /\ current.availability \in Profiles \cup {Null} /\ current.group \in GroupIds \cup {Null}
      /\ current.group # Null => current.availability # Null /\ HasGroup(Stored, current.group)
  BY <1>1, ChoiceFields DEF RowsInOrder, RowsMakeSense
<1>3. CASE ~Copies(r)
  BY <1>2, <1>3 DEF KeptAvailability, KeptGroup
<1>4. CASE Copies(r)
  <2>1. r.inherited \in Shown
    BY <1>1, <1>4 DEF Copies
  <2>2. r.inherited.availability \in Profiles \cup {Null}
    BY <2>1 DEF Shown
  <2> QED
    BY <1>1, <1>4, <2>2, StoredFields, GroupNamedIs DEF KeptAvailability, KeptGroup
<1> QED
  BY <1>3, <1>4

Sensible(row) ==
    /\ row \in Choice
    /\ row.group # Null => row.availability # Null /\ HasGroup(Stored, row.group)
    /\ row.availability # Null => row.choice

LEMMA FlagsRowSensible ==
    ASSUME RowsInOrder, NEW r \in FlagsRequests, ~Refused(r)
    PROVE  Sensible(FlagsRow(r))
<1> DEFINE current == flags[r.card]
<1>1. r.op = "flags" /\ r.card \in Cards /\ current \in Choice
  BY FlagsFields DEF RowsInOrder, RowTypes
<1>2. /\ current.hopt \in BOOLEAN \cup {Null} /\ current.choice \in BOOLEAN
      /\ current.availability \in Profiles \cup {Null} /\ current.group \in GroupIds \cup {Null}
      /\ current.group # Null => current.availability # Null /\ HasGroup(Stored, current.group)
      /\ current.availability # Null => current.choice
  BY <1>1, ChoiceFields DEF RowsInOrder, RowsMakeSense
<1>3. /\ r.group \notin {Keep, Null} => HasGroup(Stored, r.group)
      /\ FlagsRow(r).group # Null => FlagsRow(r).availability # Null
  BY <1>1 DEF Refused
<1>4. CASE r \in HoptRequests
  <2>1. r.hopt \in BOOLEAN
    BY <1>4 DEF HoptRequests
  <2>2. FlagsRow(r) = [hopt |-> r.hopt, choice |-> current.choice,
                       availability |-> current.availability, group |-> current.group]
    BY <1>2, <1>4, FlagsRowIs
  <2> QED
    BY <1>2, <2>1, <2>2 DEF Sensible, Choice
<1>5. CASE r \in WithdrawRequests
  <2>1. FlagsRow(r) = [hopt |-> current.hopt, choice |-> TRUE, availability |-> Null, group |-> Null]
    BY <1>2, <1>5, FlagsRowIs
  <2> QED
    BY <1>2, <2>1 DEF Sensible, Choice
<1>6. CASE r \in ProfileRequests
  <2>1. r.availability \in Profiles \cup {Null}
    BY <1>6 DEF ProfileRequests
  <2> DEFINE group == IF r.availability = Null THEN Null ELSE KeptGroup(r)
  <2>2. group \in GroupIds \cup {Null} /\ (group # Null => r.availability # Null /\ HasGroup(Stored, group))
    BY KeptMakesSense
  <2>3. FlagsRow(r) = [hopt |-> current.hopt, choice |-> TRUE,
                       availability |-> r.availability, group |-> group]
    BY <1>2, <1>6, FlagsRowIs
  <2> HIDE DEF group
  <2> QED
    BY <1>2, <2>1, <2>2, <2>3 DEF Sensible, Choice
<1>7. CASE r \in GroupRequests
  <2>1. r.group \in GroupIds \cup {Null} /\ r.group # Keep
    BY <1>7 DEF GroupRequests
  <2>2. KeptAvailability(r) \in Profiles \cup {Null}
    BY KeptMakesSense
  <2>3. FlagsRow(r) = [hopt |-> current.hopt, choice |-> TRUE,
                       availability |-> KeptAvailability(r), group |-> r.group]
    BY <1>2, <1>7, FlagsRowIs
  <2> QED
    BY <1>2, <1>3, <2>1, <2>2, <2>3 DEF Sensible, Choice
<1> QED
  BY <1>4, <1>5, <1>6, <1>7 DEF FlagsRequests

LEMMA ResetRowSensible ==
    ASSUME RowsInOrder, NEW r \in Asked, r.op = "reset"
    PROVE  Sensible(ResetRow(r))
<1>1. r.card \in Cards /\ flags[r.card] \in Choice
  BY RequestKinds DEF RowsInOrder, RowTypes
<1>2. Sensible(flags[r.card])
  BY <1>1 DEF RowsInOrder, RowsMakeSense, Sensible
<1> QED
  BY <1>1, <1>2 DEF ResetRow, Sensible, Choice, NoChoice

LEMMA RowStored ==
    ASSUME RowsInOrder, NEW c \in Cards, NEW row, Sensible(row),
           flags' = [flags EXCEPT ![c] = row], UNCHANGED <<groups, categories, labels>>
    PROVE  RowsInOrder'
<1>1. RowTypes'
  BY DEF RowsInOrder, RowTypes, Sensible
<1>2. ASSUME NEW d \in Cards
      PROVE  /\ flags'[d].group # Null => flags'[d].availability # Null /\ HasGroup(Stored', flags'[d].group)
             /\ flags'[d].availability # Null => flags'[d].choice
  <2>1. \A g : HasGroup(Stored', g) <=> HasGroup(Stored, g)
    BY DEF HasGroup, Stored
  <2>2. flags'[d] = IF d = c THEN row ELSE flags[d]
    BY DEF RowsInOrder, RowTypes
  <2> QED
    BY <2>1, <2>2 DEF RowsInOrder, RowsMakeSense, Sensible
<1>3. RowsMakeSense'
  BY <1>2 DEF RowsInOrder, RowsMakeSense
<1> QED
  BY <1>1, <1>3 DEF RowsInOrder

-----------------------------------------------------------------------------
(* What an acknowledgement makes of a library, field by field *)

AdoptedFlags(raw, r, row) ==
    CASE r.op \in {"flags", "reset"} -> [raw.flags EXCEPT ![r.card] = row]
      [] r.op = "deleteGroup" -> [c \in Cards |-> IF raw.flags[c].group = r.group
                                     THEN [raw.flags[c] EXCEPT !.group = Null] ELSE raw.flags[c]]
      [] OTHER -> raw.flags
AdoptedGroups(raw, r, row) ==
    CASE r.op = "addGroup" -> {x \in raw.groups : x.id # row.id} \cup {row}
      [] r.op = "capGroup" -> {IF x.id = row.id THEN row ELSE x : x \in raw.groups}
      [] r.op = "deleteGroup" -> {x \in raw.groups : x.id # r.group}
      [] OTHER -> raw.groups
AdoptedCategories(raw, r) ==
    CASE r.op = "addLabel" -> raw.categories \cup {r.label}
      [] r.op = "deleteLabel" -> raw.categories \ {r.label}
      [] OTHER -> raw.categories
AdoptedLabels(raw, r) ==
    CASE r.op = "putLabel" -> raw.labels \cup {<<r.card, r.label>>}
      [] r.op = "dropLabel" -> raw.labels \ {<<r.card, r.label>>}
      [] r.op = "deleteLabel" -> {x \in raw.labels : x[2] # r.label}
      [] OTHER -> raw.labels
AdoptedReferences(raw, r) ==
    IF r.op = "reference" THEN [raw.references EXCEPT ![r.card] = r.row] ELSE raw.references

LEMMA RawFields ==
    ASSUME NEW raw \in Raw
    PROVE  /\ raw = [flags |-> raw.flags, groups |-> raw.groups, categories |-> raw.categories,
                     labels |-> raw.labels, references |-> raw.references]
           /\ raw.flags \in [Cards -> Choice] /\ raw.groups \subseteq Group
           /\ raw.categories \subseteq Labels /\ raw.labels \subseteq Cards \X Labels
           /\ raw.references \in [Cards -> Row]
BY DEF Raw

LEMMA AdoptedIs ==
    ASSUME NEW raw \in Raw, NEW r \in Asked, NEW row
    PROVE  Adopted(raw, r, row) =
             [flags |-> AdoptedFlags(raw, r, row), groups |-> AdoptedGroups(raw, r, row),
              categories |-> AdoptedCategories(raw, r), labels |-> AdoptedLabels(raw, r),
              references |-> AdoptedReferences(raw, r)]
<1> USE DEF AdoptedFlags, AdoptedGroups, AdoptedCategories, AdoptedLabels, AdoptedReferences
<1>0. raw = [flags |-> raw.flags, groups |-> raw.groups, categories |-> raw.categories,
             labels |-> raw.labels, references |-> raw.references]
  BY RawFields
<1>1. CASE r.op \in {"flags", "reset"}
  BY <1>0, <1>1 DEF Adopted
<1>2. CASE r.op = "putLabel"
  BY <1>0, <1>2 DEF Adopted
<1>3. CASE r.op = "dropLabel"
  BY <1>0, <1>3 DEF Adopted
<1>4. CASE r.op = "addLabel"
  BY <1>0, <1>4 DEF Adopted
<1>5. CASE r.op = "deleteLabel"
  BY <1>0, <1>5 DEF Adopted
<1>6. CASE r.op = "addGroup"
  BY <1>0, <1>6 DEF Adopted
<1>7. CASE r.op = "capGroup"
  BY <1>0, <1>7 DEF Adopted
<1>8. CASE r.op = "deleteGroup"
  BY <1>0, <1>8 DEF Adopted, WithoutGroup
<1>9. CASE r.op = "reference"
  BY <1>0, <1>9 DEF Adopted
<1> QED
  BY <1>1, <1>2, <1>3, <1>4, <1>5, <1>6, <1>7, <1>8, <1>9, RequestKinds

LEMMA AdoptedType ==
    ASSUME NEW raw \in Raw, NEW r \in Asked, NEW row \in Answers(r)
    PROVE  Adopted(raw, r, row) \in Raw
<1>0. /\ raw.flags \in [Cards -> Choice] /\ raw.groups \subseteq Group
      /\ raw.categories \subseteq Labels /\ raw.labels \subseteq Cards \X Labels
      /\ raw.references \in [Cards -> Row]
  BY RawFields
<1>1. AdoptedFlags(raw, r, row) \in [Cards -> Choice]
  <2>1. CASE r.op \in {"flags", "reset"}
    BY <1>0, <2>1 DEF AdoptedFlags, Answers
  <2>2. CASE r.op = "deleteGroup"
    <3>1. ASSUME NEW c \in Cards PROVE [raw.flags[c] EXCEPT !.group = Null] \in Choice
      <4>1. raw.flags[c] \in Choice
        BY <1>0
      <4> QED
        BY <4>1 DEF Choice
    <3> QED
      BY <1>0, <2>2, <3>1 DEF AdoptedFlags
  <2> QED
    BY <1>0, <2>1, <2>2 DEF AdoptedFlags
<1>2. AdoptedGroups(raw, r, row) \subseteq Group
  <2>1. r.op \in {"addGroup", "capGroup"} => row \in Group
    BY DEF Answers
  <2> QED
    BY <1>0, <2>1 DEF AdoptedGroups
<1>3. AdoptedCategories(raw, r) \subseteq Labels
  BY <1>0, RequestKinds DEF AdoptedCategories
<1>4. AdoptedLabels(raw, r) \subseteq Cards \X Labels
  BY <1>0, RequestKinds DEF AdoptedLabels
<1>5. AdoptedReferences(raw, r) \in [Cards -> Row]
  BY <1>0, RequestKinds DEF AdoptedReferences
<1> QED
  BY <1>1, <1>2, <1>3, <1>4, <1>5, AdoptedIs DEF Raw

\* An acknowledgement adopted twice does nothing more.
LEMMA AdoptedTwice ==
    ASSUME NEW raw \in Raw, NEW r \in Asked, NEW row \in Answers(r)
    PROVE  Adopted(Adopted(raw, r, row), r, row) = Adopted(raw, r, row)
<1> DEFINE once == Adopted(raw, r, row)
<1>1. once \in Raw
  BY AdoptedType
<1>2. /\ once.flags = AdoptedFlags(raw, r, row) /\ once.groups = AdoptedGroups(raw, r, row)
      /\ once.categories = AdoptedCategories(raw, r) /\ once.labels = AdoptedLabels(raw, r)
      /\ once.references = AdoptedReferences(raw, r)
  BY AdoptedIs
<1>3. Adopted(once, r, row) =
        [flags |-> AdoptedFlags(once, r, row), groups |-> AdoptedGroups(once, r, row),
         categories |-> AdoptedCategories(once, r), labels |-> AdoptedLabels(once, r),
         references |-> AdoptedReferences(once, r)]
  BY <1>1, AdoptedIs
<1>4. once = [flags |-> once.flags, groups |-> once.groups, categories |-> once.categories,
              labels |-> once.labels, references |-> once.references]
  BY <1>1, RawFields
<1>5. once.flags \in [Cards -> Choice] /\ raw.flags \in [Cards -> Choice]
  BY <1>1, RawFields
<1> HIDE DEF once
<1>6. AdoptedFlags(once, r, row) = once.flags
  <2>1. CASE r.op \in {"flags", "reset"}
    BY <1>2, <1>5, <2>1 DEF AdoptedFlags
  <2>2. CASE r.op = "deleteGroup"
    <3>1. \A c \in Cards : once.flags[c].group = r.group => r.group = Null
      <4>1. \A c \in Cards : once.flags[c] = IF raw.flags[c].group = r.group
                  THEN [raw.flags[c] EXCEPT !.group = Null] ELSE raw.flags[c]
        BY <1>2, <2>2 DEF AdoptedFlags
      <4>2. SUFFICES ASSUME NEW c \in Cards, once.flags[c].group = r.group
                     PROVE  r.group = Null
        OBVIOUS
      <4>3. once.flags[c] = IF raw.flags[c].group = r.group
                  THEN [raw.flags[c] EXCEPT !.group = Null] ELSE raw.flags[c]
        BY <4>1
      <4>4. raw.flags[c] \in Choice
        BY <1>5
      <4>5. CASE raw.flags[c].group = r.group
        <5>1. once.flags[c] = [raw.flags[c] EXCEPT !.group = Null]
          BY <4>3, <4>5
        <5>2. [raw.flags[c] EXCEPT !.group = Null].group = Null
          BY <4>4 DEF Choice
        <5> QED
          BY <4>2, <5>1, <5>2
      <4>6. CASE raw.flags[c].group # r.group
        BY <4>2, <4>3, <4>6
      <4> QED
        BY <4>5, <4>6
    <3>2. r.group # Null
      BY <2>2, RequestKinds
    <3> QED
      BY <1>5, <2>2, <3>1, <3>2 DEF AdoptedFlags
  <2> QED
    BY <2>1, <2>2 DEF AdoptedFlags
<1>7. AdoptedGroups(once, r, row) = once.groups
  <2>1. CASE r.op = "capGroup"
    <3>1. \A x \in once.groups : (IF x.id = row.id THEN row ELSE x) = x
      BY <1>2, <2>1 DEF AdoptedGroups
    <3>2. {IF x.id = row.id THEN row ELSE x : x \in once.groups} = once.groups
      BY <3>1
    <3> QED
      BY <2>1, <3>2 DEF AdoptedGroups
  <2>2. CASE r.op # "capGroup"
    BY <1>2, <2>2 DEF AdoptedGroups
  <2> QED
    BY <2>1, <2>2
<1>8. /\ AdoptedCategories(once, r) = once.categories
      /\ AdoptedLabels(once, r) = once.labels
  BY <1>2 DEF AdoptedCategories, AdoptedLabels
<1>9. AdoptedReferences(once, r) = once.references
  <2>1. raw.references \in [Cards -> Row]
    BY RawFields
  <2> QED
    BY <1>2, <2>1 DEF AdoptedReferences
<1> QED
  BY <1>3, <1>4, <1>6, <1>7, <1>8, <1>9 DEF once

-----------------------------------------------------------------------------
(* Derived values *)

LEMMA NameOfType ==
    ASSUME NEW raw, raw.groups \subseteq Group, NEW g
    PROVE  NameOf(raw, g) \in Names \cup {Null}
<1>1. CASE HasGroup(raw, g)
  <2> DEFINE x == CHOOSE x \in raw.groups : x.id = g
  <2>1. x \in raw.groups
    BY <1>1 DEF HasGroup
  <2>2. NameOf(raw, g) = x.name
    BY <1>1 DEF NameOf
  <2> HIDE DEF x
  <2> QED
    BY <2>1, <2>2 DEF Group
<1>2. CASE ~HasGroup(raw, g)
  BY <1>2 DEF NameOf
<1> QED
  BY <1>1, <1>2

LEMMA ReferenceFields ==
    ASSUME NEW row \in Row, row # NoReference
    PROVE  /\ row.hopt \in BOOLEAN \cup {Null} /\ row.set \in BOOLEAN
           /\ row.availability \in Profiles \cup {Null} /\ row.name \in Names \cup {Null}
BY DEF Row

\* The values of a card: a choice, or a default whose cap is found by its name.
LEMMA EffectiveIs ==
    ASSUME NEW raw \in Raw, NEW c \in Cards
    PROVE  /\ EffectiveOf(raw, c) \in Effective
           /\ EffectiveOf(raw, c).hopt = EffectiveHopt(raw, c)
           /\ raw.flags[c].choice =>
                 /\ EffectiveOf(raw, c).availability = raw.flags[c].availability
                 /\ EffectiveOf(raw, c).group = raw.flags[c].group
           /\ ~raw.flags[c].choice =>
                 EffectiveOf(raw, c).group = IF EffectiveOf(raw, c).availability = Null THEN Null
                                             ELSE GroupNamed(raw, EffectiveOf(raw, c).name)
           /\ ~raw.flags[c].choice /\ EffectiveOf(raw, c).origin = Null =>
                 EffectiveOf(raw, c).availability = Null
<1> DEFINE profile == EffectiveProfile(raw, c)
           ref == raw.references[c]
<1>1. /\ raw.flags[c] \in Choice /\ raw.groups \subseteq Group /\ ref \in Row
      /\ Detected[c].hopt \in BOOLEAN /\ Detected[c].availability \in Profiles \cup {Null}
      /\ Detected[c].name \in Names \cup {Null}
  BY RawFields
<1>2. EffectiveHopt(raw, c) \in BOOLEAN
  BY <1>1, ChoiceFields, ReferenceFields DEF EffectiveHopt
<1>3. ASSUME NEW availability \in Profiles \cup {Null}, NEW name \in Names \cup {Null},
             NEW origin \in {"reference", "detection", Null}, origin = Null => availability = Null,
             profile = Inherited(raw, availability, name, origin)
      PROVE  /\ profile.availability \in Profiles \cup {Null}
             /\ profile.group \in GroupIds \cup {Null} /\ profile.name \in Names \cup {Null}
             /\ profile.origin \in {"reference", "detection", Null}
             /\ profile.group = IF profile.availability = Null THEN Null
                                ELSE GroupNamed(raw, profile.name)
             /\ profile.origin = Null => profile.availability = Null
  <2>1. GroupNamed(raw, name) \in GroupIds \cup {Null}
    BY <1>1, GroupNamedIs
  <2>2. profile = [availability |-> availability,
                   group |-> IF availability = Null THEN Null ELSE GroupNamed(raw, name),
                   name |-> IF availability = Null THEN Null ELSE name, origin |-> origin]
    BY <1>3 DEF Inherited
  <2> HIDE DEF profile
  <2> QED
    BY <1>3, <2>1, <2>2
<1>4. /\ profile.availability \in Profiles \cup {Null}
      /\ profile.group \in GroupIds \cup {Null} /\ profile.name \in Names \cup {Null}
      /\ profile.origin \in {"choice", "reference", "detection", Null}
      /\ raw.flags[c].choice => /\ profile.availability = raw.flags[c].availability
                                /\ profile.group = raw.flags[c].group
      /\ ~raw.flags[c].choice =>
            profile.group = IF profile.availability = Null THEN Null
                            ELSE GroupNamed(raw, profile.name)
      /\ ~raw.flags[c].choice /\ profile.origin = Null => profile.availability = Null
  <2>1. CASE raw.flags[c].choice
    <3>1. profile = [availability |-> raw.flags[c].availability, group |-> raw.flags[c].group,
                     name |-> NameOf(raw, raw.flags[c].group), origin |-> "choice"]
      BY <2>1 DEF EffectiveProfile
    <3> HIDE DEF profile
    <3> QED
      BY <1>1, <2>1, <3>1, ChoiceFields, NameOfType
  <2>2. CASE ~raw.flags[c].choice /\ ref # NoReference /\ ref.set
    <3>1. profile = Inherited(raw, ref.availability, ref.name, "reference")
      BY <2>2 DEF EffectiveProfile
    <3>2. ref.availability \in Profiles \cup {Null} /\ ref.name \in Names \cup {Null}
      BY <1>1, <2>2, ReferenceFields
    <3> HIDE DEF profile, ref
    <3> QED
      BY <2>2, <3>1, <3>2, <1>3
  <2>3. CASE /\ ~raw.flags[c].choice /\ ~(ref # NoReference /\ ref.set)
             /\ Detected[c].availability # Null
    <3>1. profile = Inherited(raw, Detected[c].availability, Detected[c].name, "detection")
      BY <2>3 DEF EffectiveProfile
    <3> HIDE DEF profile, ref
    <3> QED
      BY <1>1, <2>3, <3>1, <1>3
  <2>4. CASE /\ ~raw.flags[c].choice /\ ~(ref # NoReference /\ ref.set)
             /\ Detected[c].availability = Null
    <3>1. profile = Inherited(raw, Null, Null, Null)
      BY <2>4 DEF EffectiveProfile
    <3> HIDE DEF profile, ref
    <3> QED
      BY <1>1, <2>4, <3>1, <1>3
  <2> QED
    BY <2>1, <2>2, <2>3, <2>4
<1>5. EffectiveOf(raw, c) =
        [hopt |-> EffectiveHopt(raw, c), availability |-> profile.availability,
         group |-> profile.group, name |-> profile.name, origin |-> profile.origin]
  BY DEF EffectiveOf
<1> HIDE DEF profile
<1> QED
  BY <1>2, <1>4, <1>5 DEF Effective

LEMMA DeriveType == ASSUME NEW raw \in Raw PROVE Derive(raw) \in Views
BY EffectiveIs DEF Derive, Views

\* What is derived depends on the rows of the cards, the caps and the references only.
LEMMA DeriveDepends ==
    ASSUME NEW one, NEW other, one.flags = other.flags, one.groups = other.groups,
           one.references = other.references
    PROVE  Derive(one) = Derive(other)
<1>1. \A g : /\ GroupNamed(one, g) = GroupNamed(other, g)
             /\ NameOf(one, g) = NameOf(other, g)
  BY DEF GroupNamed, NameOf, HasGroup
<1>2. ASSUME NEW c \in Cards PROVE EffectiveOf(one, c) = EffectiveOf(other, c)
  <2>1. EffectiveHopt(one, c) = EffectiveHopt(other, c)
    BY DEF EffectiveHopt
  <2>2. EffectiveProfile(one, c) = EffectiveProfile(other, c)
    BY <1>1 DEF EffectiveProfile, Inherited
  <2> QED
    BY <2>1, <2>2 DEF EffectiveOf
<1> QED
  BY <1>2 DEF Derive

-----------------------------------------------------------------------------
(* The server: a request that is not refused is stored and answered; the rows keep   *)
(* making sense, and a page that held what was stored holds what is after adopting.  *)

LEMMA StoredType == ReferencesInOrder /\ RowsInOrder => Stored \in Raw
BY DEF ReferencesInOrder, ReferencesTypeOK, RowsInOrder, RowTypes, Stored, Raw

\* The server's rows change as a library adopts the acknowledgement, field by field.
LEMMA AdoptedIsStored ==
    ASSUME RowsInOrder, ReferencesInOrder, NEW r \in Asked, NEW row,
           AdoptedFlags(Stored, r, row) = flags', AdoptedGroups(Stored, r, row) = groups',
           AdoptedCategories(Stored, r) = categories', AdoptedLabels(Stored, r) = labels',
           AdoptedReferences(Stored, r) = references'
    PROVE  Adopted(Stored, r, row) = Stored'
<1>1. Stored' = [flags |-> flags', groups |-> groups', categories |-> categories',
                 labels |-> labels', references |-> references']
  BY DEF Stored
<1> QED
  BY <1>1, StoredType, AdoptedIs

Served(p, r) ==
    /\ RowsInOrder' /\ ReferencesInOrder'
    /\ \E row \in Answers(r) : Answer(p, row) /\ Adopted(Stored, r, row) = Stored'

LEMMA ServeFlagsStep ==
    ASSUME RowsInOrder, ReferencesInOrder, NEW p \in Pages, NEW r \in Asked, ~Refused(r),
           ServeFlags(p, r)
    PROVE  Served(p, r)
<1> DEFINE row == IF r.op = "flags" THEN FlagsRow(r) ELSE ResetRow(r)
<1>1. /\ r.op \in {"flags", "reset"} /\ r.card \in Cards
      /\ flags' = [flags EXCEPT ![r.card] = row] /\ Answer(p, row)
      /\ UNCHANGED <<groups, categories, labels, references, log, lastId, tx>>
  BY RequestKinds, FlagsFields DEF ServeFlags, referenceVars
<1>2. Sensible(row)
  BY <1>1, RequestKinds, FlagsRowSensible, ResetRowSensible
<1> HIDE DEF row
<1>3. RowsInOrder'
  BY <1>1, <1>2, RowStored
<1>4. ReferencesInOrder'
  BY <1>1, ReferencesKept DEF referenceVars
<1>5. row \in Answers(r)
  BY <1>1, <1>2 DEF Sensible, Answers
<1>6. Adopted(Stored, r, row) = Stored'
  <2>1. AdoptedFlags(Stored, r, row) = flags'
    BY <1>1, StoredFields DEF AdoptedFlags
  <2>2. AdoptedGroups(Stored, r, row) = groups'
    BY <1>1, StoredFields DEF AdoptedGroups
  <2>3. AdoptedCategories(Stored, r) = categories' /\ AdoptedLabels(Stored, r) = labels'
    BY <1>1, StoredFields DEF AdoptedCategories, AdoptedLabels
  <2>4. AdoptedReferences(Stored, r) = references'
    BY <1>1, StoredFields DEF AdoptedReferences
  <2> QED
    BY <2>1, <2>2, <2>3, <2>4, AdoptedIsStored
<1> QED
  BY <1>1, <1>3, <1>4, <1>5, <1>6 DEF Served

LEMMA ServeCardLabelStep ==
    ASSUME RowsInOrder, ReferencesInOrder, NEW p \in Pages, NEW r \in Asked, ~Refused(r),
           ServeCardLabel(p, r)
    PROVE  Served(p, r)
<1>1. /\ r.op \in {"putLabel", "dropLabel"} /\ r.card \in Cards /\ r.label \in Labels
      /\ Answer(p, Null) /\ UNCHANGED <<flags, groups, categories, references, log, lastId, tx>>
      /\ r.op = "putLabel" => r.label \in categories /\ labels' = labels \cup {<<r.card, r.label>>}
      /\ r.op = "dropLabel" => labels' = labels \ {<<r.card, r.label>>}
  BY RequestKinds DEF ServeCardLabel, Refused, referenceVars
<1>2. RowTypes'
  BY <1>1 DEF RowsInOrder, RowTypes
<1>3. \A x \in labels' : x[2] \in categories'
  BY <1>1 DEF RowsInOrder, RowsMakeSense
<1>4. RowsMakeSense'
  BY <1>1, <1>3 DEF RowsInOrder, RowsMakeSense, HasGroup, Stored
<1>5. ReferencesInOrder'
  BY <1>1, ReferencesKept DEF referenceVars
<1>6. Adopted(Stored, r, Null) = Stored'
  <2>1. AdoptedFlags(Stored, r, Null) = flags'
    BY <1>1, StoredFields DEF AdoptedFlags
  <2>2. AdoptedGroups(Stored, r, Null) = groups'
    BY <1>1, StoredFields DEF AdoptedGroups
  <2>3. AdoptedCategories(Stored, r) = categories' /\ AdoptedLabels(Stored, r) = labels'
    BY <1>1, StoredFields DEF AdoptedCategories, AdoptedLabels
  <2>4. AdoptedReferences(Stored, r) = references'
    BY <1>1, StoredFields DEF AdoptedReferences
  <2> QED
    BY <2>1, <2>2, <2>3, <2>4, AdoptedIsStored
<1>7. Null \in Answers(r)
  BY <1>1 DEF Answers
<1> QED
  BY <1>1, <1>2, <1>4, <1>5, <1>6, <1>7 DEF Served, RowsInOrder

LEMMA ServeLabelStep ==
    ASSUME RowsInOrder, ReferencesInOrder, NEW p \in Pages, NEW r \in Asked, ~Refused(r),
           ServeLabel(p, r)
    PROVE  Served(p, r)
<1>1. /\ r.op \in {"addLabel", "deleteLabel"} /\ r.label \in Labels
      /\ Answer(p, Null) /\ UNCHANGED <<flags, groups, references, log, lastId, tx>>
      /\ r.op = "addLabel" => categories' = categories \cup {r.label} /\ labels' = labels
      /\ r.op = "deleteLabel" => /\ categories' = categories \ {r.label}
                                 /\ labels' = {x \in labels : x[2] # r.label}
  BY RequestKinds DEF ServeLabel, referenceVars
<1>2. RowTypes'
  BY <1>1 DEF RowsInOrder, RowTypes
<1>3. \A x \in labels' : x[2] \in categories'
  BY <1>1 DEF RowsInOrder, RowsMakeSense
<1>4. RowsMakeSense'
  BY <1>1, <1>3 DEF RowsInOrder, RowsMakeSense, HasGroup, Stored
<1>5. ReferencesInOrder'
  BY <1>1, ReferencesKept DEF referenceVars
<1>6. Adopted(Stored, r, Null) = Stored'
  <2>1. AdoptedFlags(Stored, r, Null) = flags'
    BY <1>1, StoredFields DEF AdoptedFlags
  <2>2. AdoptedGroups(Stored, r, Null) = groups'
    BY <1>1, StoredFields DEF AdoptedGroups
  <2>3. AdoptedCategories(Stored, r) = categories' /\ AdoptedLabels(Stored, r) = labels'
    BY <1>1, StoredFields DEF AdoptedCategories, AdoptedLabels
  <2>4. AdoptedReferences(Stored, r) = references'
    BY <1>1, StoredFields DEF AdoptedReferences
  <2> QED
    BY <2>1, <2>2, <2>3, <2>4, AdoptedIsStored
<1>7. Null \in Answers(r)
  BY <1>1 DEF Answers
<1> QED
  BY <1>1, <1>2, <1>4, <1>5, <1>6, <1>7 DEF Served, RowsInOrder

LEMMA GroupFields ==
    ASSUME NEW x \in Group
    PROVE  /\ x = [id |-> x.id, name |-> x.name, cap |-> x.cap]
           /\ x.id \in GroupIds /\ x.name \in Names /\ x.cap \in Limits
BY DEF Group

\* Caps may be added and their limits changed: none is withdrawn from a card.
LEMMA CapsStored ==
    ASSUME RowsInOrder, groups' \subseteq Group,
           \A x \in groups : \E y \in groups' : y.id = x.id,
           \A x, y \in groups' : x.id = y.id \/ x.name = y.name => x = y,
           UNCHANGED <<flags, categories, labels>>
    PROVE  RowsInOrder'
<1>1. RowTypes'
  BY DEF RowsInOrder, RowTypes
<1>2. \A g : HasGroup(Stored, g) => HasGroup(Stored', g)
  BY DEF HasGroup, Stored
<1>3. RowsMakeSense'
  BY <1>2 DEF RowsInOrder, RowsMakeSense
<1> QED
  BY <1>1, <1>3 DEF RowsInOrder

LEMMA ServeAddGroupStep ==
    ASSUME RowsInOrder, ReferencesInOrder, NEW p \in Pages, NEW r \in Asked, ~Refused(r),
           ServeAddGroup(p, r)
    PROVE  Served(p, r)
<1>1. /\ r.op = "addGroup" /\ r.name \in Names /\ r.cap \in Limits
      /\ UNCHANGED <<flags, categories, labels, references, log, lastId, tx>>
  BY RequestKinds DEF ServeAddGroup, referenceVars
<1>2. ReferencesInOrder'
  BY <1>1, ReferencesKept DEF referenceVars
<1>3. groups \subseteq Group /\ \A x, y \in groups : x.id = y.id \/ x.name = y.name => x = y
  BY DEF RowsInOrder, RowTypes, RowsMakeSense
<1>4. CASE SameName(r) # {}
  <2> DEFINE row == CHOOSE x \in SameName(r) : TRUE
  <2>1. row \in groups /\ Answer(p, row) /\ groups' = groups
    BY <1>4 DEF ServeAddGroup, SameName
  <2> HIDE DEF row
  <2>2. row \in Answers(r)
    BY <1>1, <1>3, <2>1 DEF Answers
  <2>3. AdoptedGroups(Stored, r, row) = groups
    BY <1>1, <1>3, <2>1, StoredFields DEF AdoptedGroups
  <2>4. Adopted(Stored, r, row) = Stored'
    <3>1. AdoptedFlags(Stored, r, row) = flags'
      BY <1>1, <2>1, <2>3, StoredFields DEF AdoptedFlags
    <3>2. AdoptedGroups(Stored, r, row) = groups'
      BY <1>1, <2>1, <2>3, StoredFields DEF AdoptedGroups
    <3>3. AdoptedCategories(Stored, r) = categories' /\ AdoptedLabels(Stored, r) = labels'
      BY <1>1, <2>1, <2>3, StoredFields DEF AdoptedCategories, AdoptedLabels
    <3>4. AdoptedReferences(Stored, r) = references'
      BY <1>1, <2>1, <2>3, StoredFields DEF AdoptedReferences
    <3> QED
      BY <3>1, <3>2, <3>3, <3>4, AdoptedIsStored
  <2>5. RowsInOrder'
    BY <1>1, <1>3, <2>1, CapsStored
  <2> QED
    BY <1>2, <2>1, <2>2, <2>4, <2>5 DEF Served
<1>5. CASE SameName(r) = {}
  <2>1. PICK g \in GroupIds :
           /\ Fresh(g)
           /\ groups' = groups \cup {[id |-> g, name |-> r.name, cap |-> r.cap]}
           /\ Answer(p, [id |-> g, name |-> r.name, cap |-> r.cap])
    BY <1>5 DEF ServeAddGroup
  <2> DEFINE row == [id |-> g, name |-> r.name, cap |-> r.cap]
  <2>2. row \in Group /\ row.id = g /\ row.name = r.name
    BY <1>1 DEF Group
  <2>3. \A x \in groups : x.id # g /\ x.name # r.name
    BY <1>5, <2>1 DEF Fresh, HasGroup, Stored, SameName
  <2>4. groups' = groups \cup {row} /\ Answer(p, row)
    BY <2>1
  <2> HIDE DEF row
  <2>5. row \in Answers(r)
    BY <1>1, <2>2 DEF Answers
  <2>6. AdoptedGroups(Stored, r, row) = groups'
    BY <1>1, <2>2, <2>3, <2>4, StoredFields DEF AdoptedGroups
  <2>7. Adopted(Stored, r, row) = Stored'
    <3>1. AdoptedFlags(Stored, r, row) = flags'
      BY <1>1, <2>4, <2>6, StoredFields DEF AdoptedFlags
    <3>2. AdoptedGroups(Stored, r, row) = groups'
      BY <1>1, <2>4, <2>6, StoredFields DEF AdoptedGroups
    <3>3. AdoptedCategories(Stored, r) = categories' /\ AdoptedLabels(Stored, r) = labels'
      BY <1>1, <2>4, <2>6, StoredFields DEF AdoptedCategories, AdoptedLabels
    <3>4. AdoptedReferences(Stored, r) = references'
      BY <1>1, <2>4, <2>6, StoredFields DEF AdoptedReferences
    <3> QED
      BY <3>1, <3>2, <3>3, <3>4, AdoptedIsStored
  <2>8. RowsInOrder'
    <3>1. \A x, y \in groups' : x.id = y.id \/ x.name = y.name => x = y
      BY <1>3, <2>2, <2>3, <2>4
    <3> QED
      BY <1>1, <1>3, <2>2, <2>4, <3>1, CapsStored
  <2> QED
    BY <1>2, <2>4, <2>5, <2>7, <2>8 DEF Served
<1> QED
  BY <1>4, <1>5

LEMMA ServeCapGroupStep ==
    ASSUME RowsInOrder, ReferencesInOrder, NEW p \in Pages, NEW r \in Asked, ~Refused(r),
           ServeCapGroup(p, r)
    PROVE  Served(p, r)
<1> DEFINE old == CHOOSE x \in groups : x.id = r.group
           row == [old EXCEPT !.cap = r.cap]
<1>1. /\ r.op = "capGroup" /\ r.group \in GroupIds /\ r.cap \in Limits
      /\ UNCHANGED <<flags, categories, labels, references, log, lastId, tx>>
      /\ groups' = (groups \ {old}) \cup {row} /\ Answer(p, row)
  BY RequestKinds DEF ServeCapGroup, referenceVars
<1>2. ReferencesInOrder'
  BY <1>1, ReferencesKept DEF referenceVars
<1>3. groups \subseteq Group /\ \A x, y \in groups : x.id = y.id \/ x.name = y.name => x = y
  BY DEF RowsInOrder, RowTypes, RowsMakeSense
<1>4. old \in groups /\ old.id = r.group
  BY <1>1 DEF Refused, HasGroup, Stored
<1> HIDE DEF old
<1>5. row \in Group /\ row.id = old.id /\ row.name = old.name
  BY <1>1, <1>3, <1>4 DEF Group
<1> HIDE DEF row
<1>6. row \in Answers(r)
  BY <1>1, <1>5 DEF Answers
<1>7. AdoptedGroups(Stored, r, row) = groups'
  <2>1. {IF x.id = row.id THEN row ELSE x : x \in groups} = (groups \ {old}) \cup {row}
    BY <1>3, <1>4, <1>5
  <2> QED
    BY <1>1, <2>1, StoredFields DEF AdoptedGroups
<1>8. Adopted(Stored, r, row) = Stored'
  <2>1. AdoptedFlags(Stored, r, row) = flags'
    BY <1>1, <1>7, StoredFields DEF AdoptedFlags
  <2>2. AdoptedGroups(Stored, r, row) = groups'
    BY <1>1, <1>7, StoredFields DEF AdoptedGroups
  <2>3. AdoptedCategories(Stored, r) = categories' /\ AdoptedLabels(Stored, r) = labels'
    BY <1>1, <1>7, StoredFields DEF AdoptedCategories, AdoptedLabels
  <2>4. AdoptedReferences(Stored, r) = references'
    BY <1>1, <1>7, StoredFields DEF AdoptedReferences
  <2> QED
    BY <2>1, <2>2, <2>3, <2>4, AdoptedIsStored
<1>9. RowsInOrder'
  <2>1. \A x \in groups : \E y \in groups' : y.id = x.id
    BY <1>1, <1>4, <1>5
  <2>2. \A x, y \in groups' : x.id = y.id \/ x.name = y.name => x = y
    BY <1>1, <1>3, <1>4, <1>5
  <2>3. groups' \subseteq Group
    BY <1>1, <1>3, <1>5
  <2> QED
    BY <1>1, <2>1, <2>2, <2>3, CapsStored
<1> QED
  BY <1>1, <1>2, <1>6, <1>8, <1>9 DEF Served

LEMMA ServeDeleteGroupStep ==
    ASSUME RowsInOrder, ReferencesInOrder, NEW p \in Pages, NEW r \in Asked, ~Refused(r),
           ServeDeleteGroup(p, r)
    PROVE  Served(p, r)
<1>1. /\ r.op = "deleteGroup" /\ r.group \in GroupIds /\ r.group # Null /\ Answer(p, Null)
      /\ groups' = {x \in groups : x.id # r.group}
      /\ flags' = [c \in Cards |-> IF flags[c].group = r.group
                                   THEN [flags[c] EXCEPT !.group = Null] ELSE flags[c]]
      /\ UNCHANGED <<categories, labels, references, log, lastId, tx>>
  BY RequestKinds DEF ServeDeleteGroup, referenceVars
<1>2. ReferencesInOrder'
  BY <1>1, ReferencesKept DEF referenceVars
<1>3. ASSUME NEW c \in Cards
      PROVE  /\ flags'[c] \in Choice
             /\ flags'[c].availability = flags[c].availability /\ flags'[c].choice = flags[c].choice
             /\ flags'[c].group = IF flags[c].group = r.group THEN Null ELSE flags[c].group
  <2>1. flags[c] \in Choice
    BY DEF RowsInOrder, RowTypes
  <2>2. flags'[c] = IF flags[c].group = r.group THEN [flags[c] EXCEPT !.group = Null] ELSE flags[c]
    BY <1>1
  <2> QED
    BY <2>1, <2>2 DEF Choice
<1>4. RowTypes'
  BY <1>1, <1>3 DEF RowsInOrder, RowTypes
<1>5. \A g : HasGroup(Stored, g) /\ g # r.group => HasGroup(Stored', g)
  BY <1>1 DEF HasGroup, Stored
<1>6. ASSUME NEW c \in Cards
      PROVE  /\ flags'[c].group # Null => flags'[c].availability # Null /\ HasGroup(Stored', flags'[c].group)
             /\ flags'[c].availability # Null => flags'[c].choice
  BY <1>3, <1>5 DEF RowsInOrder, RowsMakeSense
<1>7. RowsMakeSense'
  BY <1>1, <1>6 DEF RowsInOrder, RowsMakeSense
<1>8. Adopted(Stored, r, Null) = Stored'
  <2>1. AdoptedFlags(Stored, r, Null) = flags'
    BY <1>1, StoredFields DEF AdoptedFlags
  <2>2. AdoptedGroups(Stored, r, Null) = groups'
    BY <1>1, StoredFields DEF AdoptedGroups
  <2>3. AdoptedCategories(Stored, r) = categories' /\ AdoptedLabels(Stored, r) = labels'
    BY <1>1, StoredFields DEF AdoptedCategories, AdoptedLabels
  <2>4. AdoptedReferences(Stored, r) = references'
    BY <1>1, StoredFields DEF AdoptedReferences
  <2> QED
    BY <2>1, <2>2, <2>3, <2>4, AdoptedIsStored
<1>9. Null \in Answers(r)
  BY <1>1 DEF Answers
<1> QED
  BY <1>1, <1>2, <1>4, <1>7, <1>8, <1>9 DEF Served, RowsInOrder

LEMMA ServeReferenceStep ==
    ASSUME RowsInOrder, ReferencesInOrder, NEW p \in Pages, NEW r \in Asked, ~Refused(r),
           ServeReference(p, r)
    PROVE  Served(p, r)
<1>1. /\ r.op = "reference" /\ r.card \in Cards /\ r.row \in Row /\ Answer(p, Null)
      /\ references' = [references EXCEPT ![r.card] = r.row]
      /\ UNCHANGED <<flags, groups, categories, labels>>
  BY RequestKinds DEF ServeReference, serverVars
<1>2. ReferencesInOrder'
  BY <1>1, OwnReferenceStep DEF ServeReference
<1>3. RowsInOrder'
  BY <1>1 DEF RowsInOrder, RowTypes, RowsMakeSense, HasGroup, Stored
<1>4. Adopted(Stored, r, Null) = Stored'
  <2>1. AdoptedFlags(Stored, r, Null) = flags'
    BY <1>1, StoredFields DEF AdoptedFlags
  <2>2. AdoptedGroups(Stored, r, Null) = groups'
    BY <1>1, StoredFields DEF AdoptedGroups
  <2>3. AdoptedCategories(Stored, r) = categories' /\ AdoptedLabels(Stored, r) = labels'
    BY <1>1, StoredFields DEF AdoptedCategories, AdoptedLabels
  <2>4. AdoptedReferences(Stored, r) = references'
    BY <1>1, StoredFields DEF AdoptedReferences
  <2> QED
    BY <2>1, <2>2, <2>3, <2>4, AdoptedIsStored
<1>5. Null \in Answers(r)
  BY <1>1 DEF Answers
<1> QED
  BY <1>1, <1>2, <1>3, <1>4, <1>5 DEF Served

LEMMA ServeStep ==
    ASSUME RowsInOrder, ReferencesInOrder, NEW p \in Pages, call[p].request \in Asked, Serve(p)
    PROVE  Served(p, call[p].request) /\ call[p].stage = "asked"
<1> DEFINE r == call[p].request
<1>1. ~Refused(r) /\ call[p].stage = "asked"
  BY DEF Serve
<1>2. \/ ServeFlags(p, r) \/ ServeCardLabel(p, r) \/ ServeLabel(p, r)
      \/ ServeAddGroup(p, r) \/ ServeCapGroup(p, r) \/ ServeDeleteGroup(p, r)
      \/ ServeReference(p, r)
  BY DEF Serve
<1> HIDE DEF r
<1>3. r \in Asked
  BY DEF r
<1>4. Served(p, r)
  BY <1>1, <1>2, <1>3, ServeFlagsStep, ServeCardLabelStep, ServeLabelStep, ServeAddGroupStep,
     ServeCapGroupStep, ServeDeleteGroupStep, ServeReferenceStep
<1> QED
  BY <1>1, <1>4 DEF r

-----------------------------------------------------------------------------
(* What a page asks *)

USE GesturesAssumption

LEMMA GestureKinds ==
    ASSUME NEW g \in Clicked
    PROVE  /\ g.do \in {"hopt", "reset", "nonengine", "profile", "group", "addGroup", "capGroup",
                        "deleteGroup", "addLabel", "deleteLabel", "setReference", "clearReference"}
           /\ g.do \in {"hopt", "reset", "nonengine", "profile", "group", "setReference",
                        "clearReference"} => g.card \in Cards
           /\ g.do = "reset" => g.aspect \in {"hopt", "nonengine"}
           /\ g.do = "nonengine" => /\ g.label \in Labels \cup {Null}
                                    /\ g.profile \in Profiles \cup {Null}
                                    /\ g.label # Null \/ g.profile # Null
           /\ g.do = "profile" => g.profile \in Profiles \cup {Null}
           /\ g.do = "group" => g.group \in GroupIds \cup {Null}
           /\ g.do = "addGroup" => g.name \in Names /\ g.cap \in Limits
           /\ g.do = "capGroup" => g.group \in GroupIds /\ g.cap \in Limits
           /\ g.do = "deleteGroup" => g.group \in GroupIds
           /\ g.do \in {"addLabel", "deleteLabel"} => g.label \in Labels
           /\ g.do = "setReference" => g.row \in ReferenceRows
BY DEF Clicked, Gesture

LEMMA OneRequest ==
    ASSUME NEW request \in Asked
    PROVE  <<request>> \in Seq(Asked) /\ <<request>> # <<>>
OBVIOUS

LEMMA NonEngineAsked ==
    ASSUME NEW p, NEW g \in Clicked, g.do = "nonengine"
    PROVE  NonEngineRequests(p, g) \in Seq(Asked) /\ NonEngineRequests(p, g) # <<>>
<1> DEFINE labelled == g.label # Null /\ <<g.card, g.label>> \in lib[p].labels
           drop == [op |-> "dropLabel", card |-> g.card, label |-> g.label]
           put == [op |-> "putLabel", card |-> g.card, label |-> g.label]
           withdraw == SetFlags(g.card, Keep, Null, Keep, FALSE)
           profile == SetFlags(g.card, Keep, g.profile, Keep, TRUE)
           changes == eff[p][g.card].availability # g.profile \/ NonEngineEffect(p, g) = "adopt"
<1>1. /\ g.card \in Cards /\ g.label \in Labels \cup {Null} /\ g.profile \in Profiles \cup {Null}
      /\ g.label # Null \/ g.profile # Null
  BY GestureKinds
<1>2. g.label # Null => drop \in Asked /\ put \in Asked
  BY <1>1 DEF Asked, OtherRequests
<1>3. withdraw \in Asked /\ profile \in Asked
  BY <1>1 DEF Asked, FlagsRequests, WithdrawRequests, ProfileRequests, SetFlags
<1>4. NonEngineRequests(p, g) =
        IF NonEngineEffect(p, g) = "remove"
        THEN (IF labelled THEN <<drop>> ELSE <<>>) \o (IF g.profile # Null THEN <<withdraw>> ELSE <<>>)
        ELSE (IF g.label # Null /\ ~labelled THEN <<put>> ELSE <<>>)
             \o (IF g.profile # Null /\ changes THEN <<profile>> ELSE <<>>)
  BY DEF NonEngineRequests
<1>5. /\ NonEngineEffect(p, g) = "remove" => labelled \/ g.profile # Null
      /\ NonEngineEffect(p, g) # "remove" =>
            (g.label # Null /\ ~labelled) \/ (g.profile # Null /\ changes)
  BY <1>1 DEF NonEngineEffect
<1> HIDE DEF drop, put, withdraw, profile, changes
<1> QED
  BY <1>1, <1>2, <1>3, <1>4, <1>5

LEMMA RequestsAsked ==
    ASSUME NEW p, NEW g \in Clicked, eff[p] \in Views
    PROVE  Requests(p, g) \in Seq(Asked) /\ Requests(p, g) # <<>>
<1>1. CASE g.do = "hopt"
  <2>1. g.card \in Cards
    BY <1>1, GestureKinds
  <2>2. SetFlags(g.card, ~eff[p][g.card].hopt, Keep, Keep, FALSE) \in Asked
    BY <2>1 DEF Asked, FlagsRequests, HoptRequests, SetFlags, Views, Effective
  <2> QED
    BY <1>1, <2>2, OneRequest DEF Requests
<1>2. CASE g.do = "reset"
  <2>1. [op |-> "reset", card |-> g.card, aspect |-> g.aspect] \in Asked
    BY <1>2, GestureKinds DEF Asked, OtherRequests
  <2> QED
    BY <1>2, <2>1, OneRequest DEF Requests
<1>3. CASE g.do = "nonengine"
  BY <1>3, NonEngineAsked DEF Requests
<1>4. CASE g.do = "profile"
  <2>1. SetFlags(g.card, Keep, g.profile, Keep, TRUE) \in Asked
    BY <1>4, GestureKinds DEF Asked, FlagsRequests, ProfileRequests, SetFlags
  <2> QED
    BY <1>4, <2>1, OneRequest DEF Requests
<1>5. CASE g.do = "group"
  <2>1. SetFlags(g.card, Keep, Keep, g.group, TRUE) \in Asked
    BY <1>5, GestureKinds DEF Asked, FlagsRequests, GroupRequests, SetFlags
  <2> QED
    BY <1>5, <2>1, OneRequest DEF Requests
<1>6. CASE g.do = "addGroup"
  <2>1. [op |-> "addGroup", name |-> g.name, cap |-> g.cap] \in Asked
    BY <1>6, GestureKinds DEF Asked, OtherRequests
  <2> QED
    BY <1>6, <2>1, OneRequest DEF Requests
<1>7. CASE g.do = "capGroup"
  <2>1. [op |-> "capGroup", group |-> g.group, cap |-> g.cap] \in Asked
    BY <1>7, GestureKinds DEF Asked, OtherRequests
  <2> QED
    BY <1>7, <2>1, OneRequest DEF Requests
<1>8. CASE g.do = "deleteGroup"
  <2>1. [op |-> "deleteGroup", group |-> g.group] \in Asked
    BY <1>8, GestureKinds DEF Asked, OtherRequests
  <2> QED
    BY <1>8, <2>1, OneRequest DEF Requests
<1>9. CASE g.do \in {"addLabel", "deleteLabel"}
  <2>1. [op |-> g.do, label |-> g.label] \in Asked
    BY <1>9, GestureKinds DEF Asked, OtherRequests
  <2> QED
    BY <1>9, <2>1, OneRequest DEF Requests
<1>10. CASE g.do = "setReference"
  <2>1. [op |-> "reference", card |-> g.card, row |-> g.row] \in Asked
    BY <1>10, GestureKinds DEF Asked, OtherRequests, Row
  <2> QED
    BY <1>10, <2>1, OneRequest DEF Requests
<1>11. CASE g.do = "clearReference"
  <2>1. [op |-> "reference", card |-> g.card, row |-> NoReference] \in Asked
    BY <1>11, GestureKinds DEF Asked, OtherRequests, Row
  <2> QED
    BY <1>11, <2>1, OneRequest DEF Requests
<1> QED
  BY <1>1, <1>2, <1>3, <1>4, <1>5, <1>6, <1>7, <1>8, <1>9, <1>10, <1>11, GestureKinds

\* What leaves is the request, with what the page shows if it inherits.
LEMMA SentAsked ==
    ASSUME NEW p, NEW request \in Asked, eff[p] \in Views
    PROVE  /\ Sent(p, request) \in Asked
           /\ Sent(p, request).op = "flags" /\ Sent(p, request).inherits =>
                Sent(p, request).inherited = InheritedOf(p, Sent(p, request).card)
<1>1. CASE request.op = "flags" /\ request.inherits
  <2>1. request \in FlagsRequests /\ request.card \in Cards
    BY <1>1, RequestKinds, FlagsFields
  <2>2. InheritedOf(p, request.card) \in Shown \cup {Keep}
    BY <2>1 DEF InheritedOf, Shown, Views, Effective
  <2>3. request \in ProfileRequests \cup GroupRequests
    BY <1>1, <2>1 DEF FlagsRequests, HoptRequests, WithdrawRequests
  <2> DEFINE inherited == InheritedOf(p, request.card)
             sent == [request EXCEPT !.inherited = inherited]
  <2> HIDE DEF inherited
  <2>4. sent.card = request.card /\ sent.inherited = inherited
    BY <2>3 DEF ProfileRequests, GroupRequests
  <2>5. sent \in ProfileRequests \cup GroupRequests
    BY <2>2, <2>3 DEF ProfileRequests, GroupRequests, inherited
  <2>6. Sent(p, request) = sent
    BY <1>1 DEF Sent, inherited
  <2> HIDE DEF sent
  <2> QED
    BY <2>4, <2>5, <2>6 DEF inherited, Asked, FlagsRequests
<1>2. CASE ~(request.op = "flags" /\ request.inherits)
  BY <1>2 DEF Sent
<1> QED
  BY <1>1, <1>2

LEMMA AskingIs ==
    ASSUME NEW p, NEW requests \in Seq(Asked), requests # <<>>,
           lib[p] \in Raw, eff[p] = Derive(lib[p])
    PROVE  /\ Asking(p, requests) \in AskedCalls
           /\ Asking(p, requests).stage = "asked"
           /\ Asking(p, requests).shown = Derive(Asking(p, requests).known)
           /\ LET r == Asking(p, requests).request
                  known == Asking(p, requests).known
                  shown == Asking(p, requests).shown IN
              r.op = "flags" /\ r.inherits =>
                 r.inherited = IF known.flags[r.card].choice \/ shown[r.card].origin = Null THEN Keep
                               ELSE [availability |-> shown[r.card].availability,
                                     name |-> shown[r.card].name]
<1>1. eff[p] \in Views
  BY DeriveType
<1>2. Head(requests) \in Asked /\ Tail(requests) \in Seq(Asked)
  OBVIOUS
<1>3. Sent(p, Head(requests)) \in Asked
  BY <1>1, <1>2, SentAsked
<1>4. Asking(p, requests) = [stage |-> "asked", request |-> Sent(p, Head(requests)),
                             rest |-> Tail(requests), known |-> lib[p], shown |-> eff[p]]
  BY DEF Asking
<1>5. Asking(p, requests) \in AskedCalls
  BY <1>1, <1>2, <1>3, <1>4 DEF AskedCalls
<1>6. /\ Asking(p, requests).request = Sent(p, Head(requests))
      /\ Asking(p, requests).known = lib[p] /\ Asking(p, requests).shown = eff[p]
      /\ Asking(p, requests).stage = "asked"
  BY <1>4
<1> QED
  BY <1>1, <1>2, <1>5, <1>6, SentAsked DEF InheritedOf

-----------------------------------------------------------------------------
(* The pages *)

\* What concerns page p alone.
PageTypesOf(p) ==
    /\ lib[p] \in Raw /\ eff[p] \in Views /\ queue[p] \in Seq(Clicked)
    /\ call[p] \in {NoCall} \cup AskedCalls \cup AnsweredCalls
    /\ reading[p] \in {Null} \cup [lib : Raw, late : BOOLEAN] /\ behind[p] \in BOOLEAN

LEMMA CallKinds ==
    ASSUME NEW k \in {NoCall} \cup AskedCalls \cup AnsweredCalls
    PROVE  /\ k.stage \in {"none", "asked", "answered"}
           /\ k = NoCall <=> k.stage = "none"
           /\ k.stage = "asked" => k \in AskedCalls
           /\ k.stage = "answered" => /\ k.request \in Asked /\ k.rest \in Seq(Asked)
                                      /\ k.row \in Answers(k.request)
<1>1. CASE k = NoCall
  BY <1>1 DEF NoCall
<1>2. CASE k \in AskedCalls
  BY <1>2 DEF AskedCalls, NoCall
<1>3. CASE k \in AnsweredCalls
  <2>1. PICK r \in Asked :
           k \in [stage : {"answered"}, request : {r}, rest : Seq(Asked), row : Answers(r)]
    BY <1>3 DEF AnsweredCalls
  <2> QED
    BY <2>1 DEF NoCall
<1> QED
  BY <1>1, <1>2, <1>3

LEMMA AskedFields ==
    ASSUME NEW k \in AskedCalls
    PROVE  /\ k.request \in Asked /\ k.rest \in Seq(Asked) /\ k.known \in Raw
           /\ k.shown \in Views /\ k.stage = "asked"
BY DEF AskedCalls

LEMMA AnsweredCall ==
    ASSUME NEW r \in Asked, NEW rest \in Seq(Asked), NEW row \in Answers(r)
    PROVE  [stage |-> "answered", request |-> r, rest |-> rest, row |-> row] \in AnsweredCalls
BY DEF AnsweredCalls

Domains ==
    /\ DOMAIN lib = Pages /\ lib = [q \in Pages |-> lib[q]]
    /\ DOMAIN eff = Pages /\ eff = [q \in Pages |-> eff[q]]
    /\ DOMAIN queue = Pages /\ queue = [q \in Pages |-> queue[q]]
    /\ DOMAIN call = Pages /\ call = [q \in Pages |-> call[q]]
    /\ DOMAIN reading = Pages /\ reading = [q \in Pages |-> reading[q]]
    /\ DOMAIN behind = Pages /\ behind = [q \in Pages |-> behind[q]]

LEMMA TypesByPage == PageTypes <=> Domains /\ \A p \in Pages : PageTypesOf(p)
<1>1. PageTypes => Domains /\ \A p \in Pages : PageTypesOf(p)
  BY DEF PageTypes, Domains, PageTypesOf
<1>2. Domains /\ (\A p \in Pages : PageTypesOf(p)) => PageTypes
  BY DEF PageTypes, Domains, PageTypesOf
<1> QED
  BY <1>1, <1>2

PageWell(p) == PageTypesOf(p) /\ PageInOrder(p)

LEMMA PagesByPage == PagesInOrder <=> Domains /\ \A p \in Pages : PageWell(p)
BY TypesByPage DEF PagesInOrder, PageWell

LEMMA OpenPage ==
    ASSUME PagesInOrder, NEW p \in Pages
    PROVE  Domains /\ PageTypesOf(p) /\ PageInOrder(p)
BY PagesByPage DEF PageWell

\* A page whose own state does not change, while nothing is stored, stays well.
LEMMA PageKept ==
    ASSUME NEW p \in Pages, PageWell(p), Stored' = Stored,
           lib'[p] = lib[p], eff'[p] = eff[p], queue'[p] = queue[p], call'[p] = call[p],
           reading'[p] = reading[p], behind'[p] = behind[p]
    PROVE  PageWell(p)'
<1>1. PageTypesOf(p)'
  BY DEF PageWell, PageTypesOf
<1>2. PageInOrder(p)'
  BY DEF PageWell, PageInOrder, CarriesTheScreen, KnowsOrIsBehind
<1> QED
  BY <1>1, <1>2 DEF PageWell

\* A page that may be behind, and whose readings are late, asks nothing of what is stored.
LEMMA PageLeftBehind ==
    ASSUME NEW p \in Pages, PageWell(p), behind'[p] = TRUE,
           reading'[p] = IF reading[p] = Null THEN Null ELSE [reading[p] EXCEPT !.late = TRUE],
           lib'[p] = lib[p], eff'[p] = eff[p], queue'[p] = queue[p], call'[p] = call[p]
    PROVE  PageWell(p)'
<1>1. reading[p] # Null => /\ [reading[p] EXCEPT !.late = TRUE] \in [lib : Raw, late : BOOLEAN]
                           /\ [reading[p] EXCEPT !.late = TRUE].late = TRUE
  BY DEF PageWell, PageTypesOf
<1>2. PageTypesOf(p)'
  BY <1>1 DEF PageWell, PageTypesOf
<1>3. KnowsOrIsBehind(p)'
  BY <1>1 DEF KnowsOrIsBehind
<1>4. PageInOrder(p)'
  BY <1>3 DEF PageWell, PageInOrder, CarriesTheScreen
<1> QED
  BY <1>2, <1>4 DEF PageWell

LEMMA NothingStored ==
    ASSUME IInv, UNCHANGED <<referenceVars, serverVars>>
    PROVE  ReferencesInOrder' /\ RowsInOrder' /\ Stored' = Stored
<1>1. ReferencesInOrder'
  BY ReferencesKept DEF IInv
<1>2. /\ flags' = flags /\ groups' = groups /\ categories' = categories /\ labels' = labels
      /\ references' = references
  BY DEF serverVars, referenceVars
<1>3. RowsInOrder'
  BY <1>2 DEF IInv, RowsInOrder, RowTypes, RowsMakeSense, HasGroup, Stored
<1>4. Stored' = Stored
  BY <1>2 DEF Stored
<1> QED
  BY <1>1, <1>3, <1>4

\* A step of page p alone, that stores nothing.
LEMMA PageAlone ==
    ASSUME IInv, UNCHANGED <<referenceVars, serverVars>>, NEW p \in Pages, Domains',
           \A q \in Pages \ {p} :
              /\ lib'[q] = lib[q] /\ eff'[q] = eff[q] /\ queue'[q] = queue[q]
              /\ call'[q] = call[q] /\ reading'[q] = reading[q] /\ behind'[q] = behind[q],
           PageWell(p)'
    PROVE  IInv'
<1>1. ReferencesInOrder' /\ RowsInOrder' /\ Stored' = Stored
  BY NothingStored
<1>2. ASSUME NEW q \in Pages PROVE PageWell(q)'
  <2>1. CASE q = p
    BY <2>1
  <2>2. CASE q # p
    BY <1>1, <2>2, PagesByPage, PageKept DEF IInv
  <2> QED
    BY <2>1, <2>2
<1>3. PagesInOrder'
  <2>1. PageTypes'
    BY <1>2 DEF PageTypes, Domains, PageWell, PageTypesOf
  <2> QED
    BY <1>2, <2>1 DEF PagesInOrder, PageWell
<1> QED
  BY <1>1, <1>3 DEF IInv

LEMMA InitInv == Init => IInv
<1> SUFFICES ASSUME Init PROVE IInv
  OBVIOUS
<1>1. ReferencesInOrder
  BY ReferencesStart DEF Init
<1>2. RowsInOrder
  <2>1. RowTypes
    BY DEF Init, RowTypes, Choice, NoChoice, Group
  <2>2. RowsMakeSense
    BY DEF Init, RowsMakeSense, NoChoice
  <2> QED
    BY <2>1, <2>2 DEF RowsInOrder
<1>3. Stored \in Raw
  BY <1>1, <1>2, StoredType
<1>4. Domains
  BY DEF Init, Domains
<1>5. ASSUME NEW p \in Pages PROVE PageWell(p)
  <2>1. /\ lib[p] = Stored /\ eff[p] = Derive(Stored) /\ queue[p] = <<>> /\ call[p] = NoCall
        /\ reading[p] = Null /\ behind[p] = FALSE
    BY DEF Init
  <2>2. PageTypesOf(p)
    <3>1. Derive(Stored) \in Views /\ <<>> \in Seq(Clicked)
      BY <1>3, DeriveType
    <3> HIDE DEF Derive, Stored
    <3> QED
      BY <1>3, <2>1, <3>1 DEF PageTypesOf
  <2>3. PageInOrder(p)
    BY <2>1 DEF PageInOrder, CarriesTheScreen, KnowsOrIsBehind, NoCall
  <2> QED
    BY <2>2, <2>3 DEF PageWell
<1> QED
  BY <1>1, <1>2, <1>4, <1>5, PagesByPage DEF IInv

-----------------------------------------------------------------------------
(* The steps of a page *)

LEMMA GesturesClicked ==
    ASSUME NEW p \in Pages, NEW g \in Gestures[p], Offered(p, g)
    PROVE  g \in Clicked
<1>1. g.do = "nonengine" => g.label # Null \/ g.profile # Null
  BY DEF Offered, OnGrid, OnMenu, OnDetail, OnLists
<1> QED
  BY <1>1 DEF Clicked

\* The first gesture of a queue is decided and sent.
LEMMA BeginStep ==
    ASSUME IInv, NEW p \in Pages, NEW q \in Seq(Clicked), q # <<>>, call[p].stage # "answered",
           UNCHANGED <<referenceVars, serverVars, lib, eff, reading, behind>>, Begin(p, q)
    PROVE  IInv'
<1> DEFINE g == Head(q)
           k == Asking(p, Requests(p, g))
<1>1. Domains /\ PageTypesOf(p) /\ PageInOrder(p) /\ Stored' = Stored
  BY OpenPage, NothingStored DEF IInv
<1>2. g \in Clicked
  OBVIOUS
<1>3. lib[p] \in Raw /\ eff[p] \in Views /\ eff[p] = Derive(lib[p])
  BY <1>1 DEF PageTypesOf, PageInOrder
<1>4. Requests(p, g) \in Seq(Asked) /\ Requests(p, g) # <<>>
  BY <1>2, <1>3, RequestsAsked
<1>5. /\ k \in AskedCalls /\ k.stage = "asked" /\ k.shown = Derive(k.known)
      /\ k.request.op = "flags" /\ k.request.inherits =>
            k.request.inherited = IF k.known.flags[k.request.card].choice
                                     \/ k.shown[k.request.card].origin = Null THEN Keep
                                  ELSE [availability |-> k.shown[k.request.card].availability,
                                        name |-> k.shown[k.request.card].name]
  BY <1>3, <1>4, AskingIs
<1>6. queue' = [queue EXCEPT ![p] = q] /\ call' = [call EXCEPT ![p] = k]
  BY DEF Begin
<1> HIDE DEF k, g
<1>7. /\ Domains' /\ queue'[p] = q /\ call'[p] = k
      /\ lib' = lib /\ eff' = eff /\ reading' = reading /\ behind' = behind
      /\ \A o \in Pages \ {p} : queue'[o] = queue[o] /\ call'[o] = call[o]
  BY <1>1, <1>6 DEF Domains
<1>8. PageTypesOf(p)'
  BY <1>1, <1>5, <1>7 DEF PageTypesOf
<1>9. CarriesTheScreen(p)'
  BY <1>5, <1>7 DEF CarriesTheScreen
<1>10. KnowsOrIsBehind(p)'
  BY <1>1, <1>5, <1>7 DEF PageInOrder, KnowsOrIsBehind
<1>11. PageWell(p)'
  BY <1>1, <1>7, <1>8, <1>9, <1>10 DEF PageInOrder, PageWell
<1> QED
  BY <1>7, <1>11, PageAlone

LEMMA Joined ==
    ASSUME NEW q \in Seq(Clicked), NEW g \in Clicked
    PROVE  Append(q, g) \in Seq(Clicked) /\ Append(q, g) # <<>>
<1>1. Append(q, g) # <<>>
  <2>1. Len(Append(q, g)) = Len(q) + 1 /\ Len(q) \in Nat
    OBVIOUS
  <2>2. Len(Append(q, g)) # 0
    BY <2>1
  <2>3. Len(<<>>) = 0
    OBVIOUS
  <2> QED
    BY <2>2, <2>3, Zenon
<1>2. Append(q, g) \in Seq(Clicked)
  OBVIOUS
<1> QED
  BY <1>1, <1>2

LEMMA ClickStep ==
    ASSUME IInv, NEW p \in Pages, NEW g \in Gestures[p], Click(p, g)
    PROVE  IInv'
<1>1. Domains /\ PageTypesOf(p) /\ PageInOrder(p) /\ Stored' = Stored
  <2>1. UNCHANGED <<referenceVars, serverVars>>
    BY DEF Click
  <2> QED
    BY <2>1, OpenPage, NothingStored DEF IInv
<1>2. g \in Clicked
  BY GesturesClicked DEF Click
<1>3. CASE queue[p] = <<>>
  <2>1. <<g>> \in Seq(Clicked) /\ <<g>> # <<>>
    BY <1>2
  <2>2. call[p].stage # "answered"
    BY <1>1, <1>3 DEF PageInOrder, NoCall
  <2>3. /\ UNCHANGED <<referenceVars, serverVars, lib, eff, reading, behind>>
        /\ Begin(p, <<g>>)
    BY <1>3 DEF Click
  <2> QED
    BY <2>1, <2>2, <2>3, BeginStep
<1>4. CASE queue[p] # <<>>
  <2>1. /\ queue' = [queue EXCEPT ![p] = Append(queue[p], g)] /\ call' = call
        /\ UNCHANGED <<referenceVars, serverVars>>
        /\ lib' = lib /\ eff' = eff /\ reading' = reading /\ behind' = behind
    BY <1>4 DEF Click
  <2>2. Append(queue[p], g) \in Seq(Clicked) /\ Append(queue[p], g) # <<>>
    <3>1. queue[p] \in Seq(Clicked)
      BY <1>1 DEF PageTypesOf
    <3> QED
      BY <1>2, <3>1, Joined
  <2>3. /\ Domains' /\ queue'[p] = Append(queue[p], g)
        /\ \A o \in Pages \ {p} : queue'[o] = queue[o]
    BY <1>1, <2>1 DEF Domains
  <2>4. PageTypesOf(p)'
    BY <1>1, <2>1, <2>2, <2>3 DEF PageTypesOf
  <2>5. PageInOrder(p)'
    BY <1>1, <2>1, <2>2, <2>3 DEF PageInOrder, CarriesTheScreen, KnowsOrIsBehind
  <2> QED
    BY <2>1, <2>3, <2>4, <2>5, PageAlone DEF PageWell
<1> QED
  BY <1>3, <1>4

LEMMA StartStep ==
    ASSUME IInv, NEW p \in Pages, Start(p)
    PROVE  IInv'
<1>1. queue[p] \in Seq(Clicked) /\ queue[p] # <<>> /\ call[p].stage # "answered"
  BY OpenPage DEF IInv, PageTypesOf, Start, NoCall
<1>2. UNCHANGED <<referenceVars, serverVars, lib, eff, reading, behind>> /\ Begin(p, queue[p])
  BY DEF Start
<1> QED
  BY <1>1, <1>2, BeginStep

\* The gesture in hand is given up, or its answer is.
LEMMA EndStep ==
    ASSUME IInv, NEW p \in Pages, UNCHANGED <<referenceVars, serverVars, lib, eff, reading>>,
           call[p] # NoCall,
           call' = [call EXCEPT ![p] = NoCall], queue' = [queue EXCEPT ![p] = Tail(@)],
           NEW known \in BOOLEAN, behind' = [behind EXCEPT ![p] = known],
           ~known => ~behind[p] /\ call[p].stage = "asked"
    PROVE  IInv'
<1>1. Domains /\ PageTypesOf(p) /\ PageInOrder(p) /\ Stored' = Stored
  BY OpenPage, NothingStored DEF IInv
<1>2. queue[p] # <<>> /\ Tail(queue[p]) \in Seq(Clicked)
  BY <1>1 DEF PageInOrder, PageTypesOf
<1>3. /\ Domains' /\ queue'[p] = Tail(queue[p]) /\ call'[p] = NoCall /\ behind'[p] = known
      /\ lib' = lib /\ eff' = eff /\ reading' = reading
      /\ \A o \in Pages \ {p} : queue'[o] = queue[o] /\ call'[o] = call[o] /\ behind'[o] = behind[o]
  BY <1>1 DEF Domains
<1>4. PageTypesOf(p)'
  BY <1>1, <1>2, <1>3 DEF PageTypesOf
<1>5. CarriesTheScreen(p)'
  BY <1>3 DEF CarriesTheScreen, NoCall
<1>6. KnowsOrIsBehind(p)'
  BY <1>1, <1>3 DEF PageInOrder, KnowsOrIsBehind, NoCall
<1> QED
  BY <1>1, <1>3, <1>4, <1>5, <1>6, PageAlone DEF PageInOrder, PageWell

LEMMA FailStep ==
    ASSUME IInv, NEW p \in Pages, Fail(p)
    PROVE  IInv'
<1>1. Domains /\ behind[p] \in BOOLEAN
  BY OpenPage DEF IInv, PageTypesOf
<1>2. behind' = [behind EXCEPT ![p] = behind[p]]
  BY <1>1 DEF Fail, Domains
<1>3. /\ UNCHANGED <<referenceVars, serverVars, lib, eff, reading>> /\ call[p] # NoCall
      /\ call' = [call EXCEPT ![p] = NoCall] /\ queue' = [queue EXCEPT ![p] = Tail(@)]
      /\ call[p].stage = "asked"
  BY DEF Fail, NoCall
<1> QED
  BY <1>1, <1>2, <1>3, EndStep

LEMMA LoseAnswerStep ==
    ASSUME IInv, NEW p \in Pages, LoseAnswer(p)
    PROVE  IInv'
<1>1. /\ UNCHANGED <<referenceVars, serverVars, lib, eff, reading>> /\ call[p] # NoCall
      /\ call' = [call EXCEPT ![p] = NoCall] /\ queue' = [queue EXCEPT ![p] = Tail(@)]
      /\ behind' = [behind EXCEPT ![p] = TRUE]
  BY DEF LoseAnswer, NoCall
<1> QED
  BY <1>1, EndStep

\* What was asked is stored and answered; every other page may be behind.
LEMMA ServePreserves ==
    ASSUME IInv, NEW p \in Pages, Serve(p)
    PROVE  IInv'
<1> DEFINE r == call[p].request
<1>1. Domains /\ PageTypesOf(p) /\ PageInOrder(p)
  BY OpenPage DEF IInv
<1>2. call[p].stage = "asked" /\ call[p] \in AskedCalls /\ r \in Asked /\ call[p].rest \in Seq(Asked)
  BY <1>1, CallKinds, AskedFields DEF PageTypesOf, Serve
<1>3. Served(p, r)
  BY <1>2, ServeStep DEF IInv
<1>4. PICK row \in Answers(r) : Answer(p, row) /\ Adopted(Stored, r, row) = Stored'
  BY <1>3 DEF Served
<1>5. RowsInOrder' /\ ReferencesInOrder'
  BY <1>3 DEF Served
<1> DEFINE k == [stage |-> "answered", request |-> r, rest |-> call[p].rest, row |-> row]
<1>6. k \in AnsweredCalls /\ k.stage = "answered" /\ k.request = r /\ k.row = row
  BY <1>2, AnsweredCall
<1>7. /\ lib' = lib /\ eff' = eff /\ queue' = queue /\ call' = [call EXCEPT ![p] = k]
      /\ behind' = [q \in Pages |-> behind[q] \/ q # p]
      /\ reading' = [q \in Pages |-> IF reading[q] = Null THEN Null
                                     ELSE [reading[q] EXCEPT !.late = TRUE]]
  BY <1>4 DEF Serve, Answer, Committed
<1> HIDE DEF k
<1>8. /\ Domains' /\ call'[p] = k /\ \A q \in Pages \ {p} : call'[q] = call[q]
      /\ lib' = lib /\ eff' = eff /\ queue' = queue
  BY <1>1, <1>7 DEF Domains
<1>9. /\ behind'[p] = behind[p] /\ \A q \in Pages \ {p} : behind'[q] = TRUE
      /\ \A q \in Pages : reading'[q] = IF reading[q] = Null THEN Null
                                        ELSE [reading[q] EXCEPT !.late = TRUE]
  BY <1>1, <1>7 DEF PageTypesOf
<1>10. PageWell(p)'
  <2>1. reading[p] # Null => /\ [reading[p] EXCEPT !.late = TRUE] \in [lib : Raw, late : BOOLEAN]
                             /\ [reading[p] EXCEPT !.late = TRUE].late = TRUE
    BY <1>1 DEF PageTypesOf
  <2>2. PageTypesOf(p)'
    BY <1>1, <1>6, <1>8, <1>9, <2>1 DEF PageTypesOf
  <2>3. behind[p] \/ lib[p] = Stored
    BY <1>1, <1>2 DEF PageInOrder, KnowsOrIsBehind
  <2>4. behind'[p] \/ Adopted(lib'[p], call'[p].request, call'[p].row) = Stored'
    BY <1>4, <1>6, <1>8, <1>9, <2>3
  <2>5. KnowsOrIsBehind(p)'
    BY <1>6, <1>8, <1>9, <2>1, <2>4 DEF KnowsOrIsBehind
  <2>6. CarriesTheScreen(p)'
    BY <1>6, <1>8 DEF CarriesTheScreen
  <2>7. queue[p] # <<>> /\ eff[p] = Derive(lib[p])
    BY <1>1, <1>2 DEF PageInOrder, NoCall
  <2> QED
    BY <1>8, <2>2, <2>5, <2>6, <2>7 DEF PageWell, PageInOrder
<1>11. ASSUME NEW q \in Pages PROVE PageWell(q)'
  <2>1. CASE q = p
    BY <1>10, <2>1
  <2>2. CASE q # p
    <3>1. PageWell(q)
      BY PagesByPage DEF IInv
    <3> QED
      BY <1>8, <1>9, <2>2, <3>1, PageLeftBehind
  <2> QED
    BY <2>1, <2>2
<1>12. PagesInOrder'
  <2>1. PageTypes'
    BY <1>8, <1>11 DEF PageTypes, Domains, PageWell, PageTypesOf
  <2> QED
    BY <1>11, <2>1 DEF PagesInOrder, PageWell
<1> QED
  BY <1>5, <1>12 DEF IInv

LEMMA AdoptStep ==
    ASSUME IInv, NEW p \in Pages, Adopt(p)
    PROVE  IInv'
<1> DEFINE r == call[p].request
           raw == Adopted(lib[p], r, call[p].row)
<1>1. Domains /\ PageTypesOf(p) /\ PageInOrder(p) /\ Stored' = Stored
  <2>1. UNCHANGED <<referenceVars, serverVars>>
    BY DEF Adopt
  <2> QED
    BY <2>1, OpenPage, NothingStored DEF IInv
<1>2. /\ call[p].stage = "answered" /\ r \in Asked /\ call[p].rest \in Seq(Asked)
      /\ call[p].row \in Answers(r)
  BY <1>1, CallKinds DEF PageTypesOf, Adopt
<1>3. /\ lib[p] \in Raw /\ eff[p] \in Views /\ eff[p] = Derive(lib[p])
      /\ queue[p] \in Seq(Clicked) /\ queue[p] # <<>>
  BY <1>1, <1>2 DEF PageTypesOf, PageInOrder, NoCall
<1>4. raw \in Raw
  BY <1>2, <1>3, AdoptedType
<1>5. ~Rederives(r) => Derive(raw) = Derive(lib[p])
  <2>1. ~Rederives(r) => r.op \in {"putLabel", "dropLabel", "addLabel", "deleteLabel"}
    BY DEF Rederives
  <2>2. ~Rederives(r) => /\ raw.flags = lib[p].flags /\ raw.groups = lib[p].groups
                         /\ raw.references = lib[p].references
    <3>1. /\ raw.flags = AdoptedFlags(lib[p], r, call[p].row)
          /\ raw.groups = AdoptedGroups(lib[p], r, call[p].row)
          /\ raw.references = AdoptedReferences(lib[p], r)
      BY <1>2, <1>3, AdoptedIs
    <3> HIDE DEF raw
    <3> QED
      BY <2>1, <3>1 DEF AdoptedFlags, AdoptedGroups, AdoptedReferences
  <2> HIDE DEF raw
  <2> QED
    BY <2>2, DeriveDepends
<1>6. /\ lib' = [lib EXCEPT ![p] = raw] /\ reading' = reading /\ behind' = behind
      /\ UNCHANGED <<referenceVars, serverVars>>
  BY DEF Adopt
<1>7. eff' = [eff EXCEPT ![p] = Derive(raw)]
  <2>1. lib'[p] = raw
    BY <1>1, <1>6 DEF Domains
  <2>2. CASE Rederives(r)
    BY <2>1, <2>2 DEF Adopt
  <2>3. CASE ~Rederives(r)
    BY <1>1, <1>3, <1>5, <2>3 DEF Adopt, Domains
  <2> QED
    BY <2>2, <2>3
<1>8. Derive(raw) \in Views
  BY <1>4, DeriveType
<1>9. behind[p] \/ raw = Stored
  BY <1>1, <1>2 DEF PageInOrder, KnowsOrIsBehind
<1>10. CASE call[p].rest = <<>>
  <2>1. call' = [call EXCEPT ![p] = NoCall] /\ queue' = [queue EXCEPT ![p] = Tail(queue[p])]
    BY <1>10 DEF Adopt
  <2>2. Tail(queue[p]) \in Seq(Clicked)
    BY <1>3
  <2> HIDE DEF raw
  <2>3. /\ Domains' /\ queue'[p] = Tail(queue[p]) /\ call'[p] = NoCall /\ lib'[p] = raw
        /\ eff'[p] = Derive(raw)
        /\ \A o \in Pages \ {p} : /\ queue'[o] = queue[o] /\ call'[o] = call[o]
                                  /\ lib'[o] = lib[o] /\ eff'[o] = eff[o]
    BY <1>1, <1>6, <1>7, <2>1 DEF Domains
  <2>4. PageTypesOf(p)'
    BY <1>1, <1>4, <1>6, <1>8, <2>2, <2>3 DEF PageTypesOf
  <2>5. CarriesTheScreen(p)'
    BY <2>3 DEF CarriesTheScreen, NoCall
  <2>6. KnowsOrIsBehind(p)'
    BY <1>1, <1>6, <1>9, <2>3 DEF PageInOrder, KnowsOrIsBehind, NoCall
  <2>7. PageWell(p)'
    BY <2>3, <2>4, <2>5, <2>6 DEF PageInOrder, PageWell
  <2> QED
    BY <1>6, <2>3, <2>7, PageAlone
<1>11. CASE call[p].rest # <<>>
  <2> DEFINE k == Asking(p, call[p].rest)
  <2>1. /\ k \in AskedCalls /\ k.stage = "asked" /\ k.shown = Derive(k.known)
        /\ k.request.op = "flags" /\ k.request.inherits =>
              k.request.inherited = IF k.known.flags[k.request.card].choice
                                       \/ k.shown[k.request.card].origin = Null THEN Keep
                                    ELSE [availability |-> k.shown[k.request.card].availability,
                                          name |-> k.shown[k.request.card].name]
    <3> HIDE DEF raw, r
    <3> DEFINE rest == call[p].rest
    <3>1. rest \in Seq(Asked) /\ rest # <<>>
      BY <1>2, <1>11
    <3> HIDE DEF rest
    <3>2. k = Asking(p, rest)
      BY DEF rest
    <3> HIDE DEF k
    <3> QED
      BY <1>3, <3>1, <3>2, AskingIs
  <2>2. call' = [call EXCEPT ![p] = k] /\ queue' = queue
    BY <1>11 DEF Adopt
  <2> HIDE DEF raw, k
  <2>3. /\ Domains' /\ queue'[p] = queue[p] /\ call'[p] = k /\ lib'[p] = raw
        /\ eff'[p] = Derive(raw)
        /\ \A o \in Pages \ {p} : /\ queue'[o] = queue[o] /\ call'[o] = call[o]
                                  /\ lib'[o] = lib[o] /\ eff'[o] = eff[o]
    BY <1>1, <1>6, <1>7, <2>2 DEF Domains
  <2>4. PageTypesOf(p)'
    BY <1>1, <1>4, <1>6, <1>8, <2>1, <2>3 DEF PageTypesOf
  <2>5. CarriesTheScreen(p)'
    BY <2>1, <2>3 DEF CarriesTheScreen
  <2>6. KnowsOrIsBehind(p)'
    BY <1>1, <1>6, <1>9, <2>1, <2>3 DEF PageInOrder, KnowsOrIsBehind
  <2>7. PageWell(p)'
    BY <1>3, <2>3, <2>4, <2>5, <2>6 DEF PageInOrder, PageWell
  <2> QED
    BY <1>6, <2>3, <2>7, PageAlone
<1> QED
  BY <1>10, <1>11

LEMMA ReadStep ==
    ASSUME IInv, NEW p \in Pages, Read(p)
    PROVE  IInv'
<1> DEFINE read == [lib |-> Stored, late |-> FALSE]
<1>1. /\ Domains /\ PageTypesOf(p) /\ PageInOrder(p) /\ Stored' = Stored
      /\ UNCHANGED <<referenceVars, serverVars>>
  <2>1. UNCHANGED <<referenceVars, serverVars>>
    BY DEF Read
  <2> QED
    BY <2>1, OpenPage, NothingStored DEF IInv
<1>2. Stored \in Raw
  BY StoredType DEF IInv
<1>3. read \in [lib : Raw, late : BOOLEAN] /\ read.lib = Stored
  BY <1>2
<1>4. reading' = [reading EXCEPT ![p] = read] /\ UNCHANGED <<lib, eff, queue, call, behind>>
  BY DEF Read
<1> HIDE DEF read
<1>5. /\ Domains' /\ reading'[p] = read /\ \A o \in Pages \ {p} : reading'[o] = reading[o]
      /\ lib' = lib /\ eff' = eff /\ queue' = queue /\ call' = call /\ behind' = behind
  BY <1>1, <1>4 DEF Domains
<1>6. PageTypesOf(p)'
  BY <1>1, <1>3, <1>5 DEF PageTypesOf
<1>7. KnowsOrIsBehind(p)'
  BY <1>1, <1>3, <1>5 DEF PageInOrder, KnowsOrIsBehind
<1>8. PageWell(p)'
  BY <1>1, <1>5, <1>6, <1>7 DEF PageInOrder, PageWell, CarriesTheScreen
<1> QED
  BY <1>1, <1>5, <1>8, PageAlone

LEMMA AdoptReadingStep ==
    ASSUME IInv, NEW p \in Pages, AdoptReading(p)
    PROVE  IInv'
<1> DEFINE raw == reading[p].lib
           unsure == reading[p].late \/ (behind[p] /\ call[p].stage = "answered")
<1>1. /\ Domains /\ PageTypesOf(p) /\ PageInOrder(p) /\ Stored' = Stored
      /\ UNCHANGED <<referenceVars, serverVars>>
  <2>1. UNCHANGED <<referenceVars, serverVars>>
    BY DEF AdoptReading
  <2> QED
    BY <2>1, OpenPage, NothingStored DEF IInv
<1>2. raw \in Raw /\ unsure \in BOOLEAN /\ reading[p] # Null /\ Null = Null
  BY <1>1 DEF PageTypesOf, AdoptReading
<1>3. Derive(raw) \in Views
  BY <1>2, DeriveType
<1>4. /\ lib' = [lib EXCEPT ![p] = raw] /\ eff' = [eff EXCEPT ![p] = Derive(raw)]
      /\ behind' = [behind EXCEPT ![p] = unsure] /\ reading' = [reading EXCEPT ![p] = Null]
      /\ queue' = queue /\ call' = call
  BY DEF AdoptReading
<1>5. ~unsure => raw = Stored
  BY <1>1, <1>2 DEF PageInOrder, KnowsOrIsBehind
<1>6. ~unsure /\ call[p].stage = "answered" => Adopted(raw, call[p].request, call[p].row) = Stored
  <2> SUFFICES ASSUME ~unsure, call[p].stage = "answered"
               PROVE  Adopted(Stored, call[p].request, call[p].row) = Stored
    BY <1>5
  <2>1. lib[p] \in Raw /\ call[p].request \in Asked /\ call[p].row \in Answers(call[p].request)
    BY <1>1, CallKinds DEF PageTypesOf
  <2>2. Adopted(lib[p], call[p].request, call[p].row) = Stored
    BY <1>1 DEF PageInOrder, KnowsOrIsBehind
  <2> QED
    BY <2>1, <2>2, AdoptedTwice
<1> HIDE DEF raw, unsure
<1>7. /\ Domains' /\ lib'[p] = raw /\ eff'[p] = Derive(raw) /\ behind'[p] = unsure
      /\ reading'[p] = Null /\ queue' = queue /\ call' = call
      /\ \A o \in Pages \ {p} : /\ lib'[o] = lib[o] /\ eff'[o] = eff[o]
                                /\ behind'[o] = behind[o] /\ reading'[o] = reading[o]
  BY <1>1, <1>4 DEF Domains
<1>8. PageTypesOf(p)'
  BY <1>1, <1>2, <1>3, <1>7 DEF PageTypesOf
<1>9. KnowsOrIsBehind(p)'
  BY <1>1, <1>5, <1>6, <1>7 DEF KnowsOrIsBehind
<1>10. PageWell(p)'
  BY <1>1, <1>7, <1>8, <1>9 DEF PageInOrder, PageWell, CarriesTheScreen
<1> QED
  BY <1>1, <1>7, <1>10, PageAlone

LEMMA OthersReferencesStep ==
    ASSUME IInv, OthersReferences
    PROVE  IInv'
<1>1. PagesInOrder /\ Domains /\ ReferencesInOrder /\ RowsInOrder
  BY PagesByPage DEF IInv
<1>2. CASE /\ \E r \in Referents \ {Account} : ReferencesStep(r)
           /\ UNCHANGED <<serverVars, pageVars, behind>>
  <2>1. ReferencesInOrder'
    BY <1>1, <1>2, ReferencesStepOk
  <2>2. references' = references
    BY <1>2 DEF ReferencesStep, BeginSet, WriteSet, WriteClear
  <2>3. /\ flags' = flags /\ groups' = groups /\ categories' = categories /\ labels' = labels
        /\ lib' = lib /\ eff' = eff /\ queue' = queue /\ call' = call /\ reading' = reading
        /\ behind' = behind
    BY <1>2 DEF serverVars, pageVars
  <2>4. RowsInOrder'
    BY <1>1, <2>3 DEF RowsInOrder, RowTypes, RowsMakeSense, HasGroup, Stored
  <2>5. Stored' = Stored
    BY <2>2, <2>3 DEF Stored
  <2>6. PagesInOrder'
    BY <1>1, <2>3, <2>5 DEF PagesInOrder, PageTypes, PageInOrder, CarriesTheScreen, KnowsOrIsBehind
  <2> QED
    BY <2>1, <2>4, <2>6 DEF IInv
<1>3. CASE /\ \E r \in Referents \ {Account} : Commit(r)
           /\ behind' = [p \in Pages |-> TRUE]
           /\ reading' = [q \in Pages |-> IF reading[q] = Null THEN Null
                                          ELSE [reading[q] EXCEPT !.late = TRUE]]
           /\ UNCHANGED <<serverVars, lib, eff, queue, call, clicks, reads>>
  <2>1. ReferencesInOrder'
    BY <1>1, <1>3, CommitStep
  <2>2. /\ flags' = flags /\ groups' = groups /\ categories' = categories /\ labels' = labels
        /\ lib' = lib /\ eff' = eff /\ queue' = queue /\ call' = call
        /\ \A q \in Pages : behind'[q] = TRUE
        /\ \A q \in Pages : reading'[q] = IF reading[q] = Null THEN Null
                                          ELSE [reading[q] EXCEPT !.late = TRUE]
    BY <1>3 DEF serverVars
  <2>3. Domains'
    BY <1>1, <1>3, <2>2 DEF Domains
  <2>4. RowsInOrder'
    BY <1>1, <2>2 DEF RowsInOrder, RowTypes, RowsMakeSense, HasGroup, Stored
  <2>5. ASSUME NEW q \in Pages PROVE PageWell(q)'
    BY <1>1, <2>2, PagesByPage, PageLeftBehind
  <2>6. PageTypes'
    BY <2>3, <2>5 DEF PageTypes, Domains, PageWell, PageTypesOf
  <2>7. PagesInOrder'
    BY <2>5, <2>6 DEF PagesInOrder, PageWell
  <2> QED
    BY <2>1, <2>4, <2>7 DEF IInv
<1> QED
  BY <1>2, <1>3 DEF OthersReferences

-----------------------------------------------------------------------------
(* The invariant *)

LEMMA NextInv == IInv /\ [Next]_vars => IInv'
<1> SUFFICES ASSUME IInv, [Next]_vars PROVE IInv'
  OBVIOUS
<1>1. CASE UNCHANGED vars
  <2>1. /\ UNCHANGED <<referenceVars, serverVars>> /\ lib' = lib /\ eff' = eff /\ queue' = queue
        /\ call' = call /\ reading' = reading /\ behind' = behind
    BY <1>1 DEF vars, pageVars
  <2>2. ReferencesInOrder' /\ RowsInOrder' /\ Stored' = Stored
    BY <2>1, NothingStored
  <2>3. PagesInOrder'
    BY <2>1, <2>2 DEF IInv, PagesInOrder, PageTypes, PageInOrder, CarriesTheScreen, KnowsOrIsBehind
  <2> QED
    BY <2>2, <2>3 DEF IInv
<1>2. ASSUME NEW p \in Pages, NEW g \in Gestures[p], Click(p, g) PROVE IInv'
  BY <1>2, ClickStep
<1>3. ASSUME NEW p \in Pages,
             Start(p) \/ Serve(p) \/ Fail(p) \/ LoseAnswer(p) \/ Adopt(p) \/ Read(p) \/ AdoptReading(p)
      PROVE IInv'
  BY <1>3, StartStep, ServePreserves, FailStep, LoseAnswerStep, AdoptStep, ReadStep, AdoptReadingStep
<1>4. CASE OthersReferences
  BY <1>4, OthersReferencesStep
<1> QED
  BY <1>1, <1>2, <1>3, <1>4 DEF Next

LEMMA InvHolds == Spec => []IInv
BY InitInv, NextInv, PTL DEF Spec

\* The journal of the common references tells what every card has, whatever
\* transactions of whichever referents overlapped (routes/references.ts).
THEOREM JournalTellsTheRowsHolds == Spec => []JournalTellsTheRows
<1>1. IInv => JournalTellsTheRows
  BY DEF IInv, ReferencesInOrder
<1> QED
  BY <1>1, InvHolds, PTL

LEMMA InvOneLibrary == IInv => OneLibrary
<1> SUFFICES ASSUME IInv PROVE OneLibrary
  OBVIOUS
<1>1. TypeOK
  <2>1. ReferencesTypeOK /\ RowTypes /\ Domains
    BY PagesByPage DEF IInv, ReferencesInOrder, RowsInOrder
  <2>2. ASSUME NEW p \in Pages
        PROVE  /\ lib[p] \in Raw /\ eff[p] \in [Cards -> Effective]
               /\ \A i \in DOMAIN queue[p] : queue[p][i] \in Gesture
               /\ call[p].stage \in {"none", "asked", "answered"}
    <3>1. PageTypesOf(p)
      BY OpenPage DEF IInv
    <3>2. call[p].stage \in {"none", "asked", "answered"}
      BY <3>1, CallKinds DEF PageTypesOf
    <3>3. queue[p] \in Seq(Clicked) /\ Clicked \subseteq Gesture
      BY <3>1 DEF PageTypesOf, Clicked
    <3> QED
      BY <3>1, <3>2, <3>3 DEF PageTypesOf, Views
  <2> QED
    BY <2>1, <2>2 DEF TypeOK, RowTypes, Domains
<1>2. RowsMakeSense
  BY DEF IInv, RowsInOrder
<1>3. ShowsWhatItHolds /\ HoldsWhatIsStored
  BY DEF IInv, PagesInOrder, PageInOrder, KnowsOrIsBehind, ShowsWhatItHolds, HoldsWhatIsStored
<1> QED
  BY <1>1, <1>2, <1>3 DEF OneLibrary, Coherent

\* The account's rows make sense, its pages show what follows from what they hold, and
\* hold what is stored unless something may have escaped them (routes/library.ts, the
\* mutators of deckStore.ts).
THEOREM OneLibraryHolds == Spec => []OneLibrary
BY InvOneLibrary, InvHolds, PTL

-----------------------------------------------------------------------------
(* What the first gesture on an inherited profile stores *)

LEMMA KeepsTheScreen ==
    ASSUME RowsInOrder, NEW r \in FlagsRequests, NEW known \in Raw,
           known.flags = flags, known.groups = groups,
           r.inherited =
              IF known.flags[r.card].choice \/ EffectiveOf(known, r.card).origin = Null THEN Keep
              ELSE [availability |-> EffectiveOf(known, r.card).availability,
                    name |-> EffectiveOf(known, r.card).name]
    PROVE  /\ KeptAvailability(r) = EffectiveOf(known, r.card).availability
           /\ KeptGroup(r) = EffectiveOf(known, r.card).group
<1> DEFINE c == r.card
           shown == EffectiveOf(known, c)
<1>1. c \in Cards
  BY FlagsFields
<1>2. /\ known.flags[c].choice =>
            shown.availability = known.flags[c].availability /\ shown.group = known.flags[c].group
      /\ ~known.flags[c].choice =>
            shown.group = IF shown.availability = Null THEN Null ELSE GroupNamed(known, shown.name)
      /\ ~known.flags[c].choice /\ shown.origin = Null => shown.availability = Null
  BY <1>1, EffectiveIs
<1>3. \A name : GroupNamed(known, name) = GroupNamed(Stored, name)
  BY StoredFields DEF GroupNamed
<1>4. /\ flags[c].group # Null => flags[c].availability # Null
      /\ flags[c].availability # Null => flags[c].choice
  BY <1>1 DEF RowsInOrder, RowsMakeSense
<1>5. flags[c].choice \in BOOLEAN
  BY <1>1, ChoiceFields DEF RowsInOrder, RowTypes
<1>6. CASE flags[c].choice
  <2>1. ~Copies(r)
    BY <1>6 DEF Copies
  <2> QED
    BY <1>2, <1>6, <2>1 DEF KeptAvailability, KeptGroup
<1>7. CASE ~flags[c].choice /\ shown.origin = Null
  <2>1. ~Copies(r)
    BY <1>7 DEF Copies
  <2> QED
    BY <1>2, <1>4, <1>7, <2>1 DEF KeptAvailability, KeptGroup
<1>8. CASE ~flags[c].choice /\ shown.origin # Null
  <2>1. r.inherited = [availability |-> shown.availability, name |-> shown.name]
    BY <1>8
  <2>2. r.inherited # Keep
    <3>1. [availability |-> shown.availability, name |-> shown.name] \in Shown
      BY <1>1, EffectiveIs DEF Effective, Shown
    <3>2. Keep \notin Shown
      BY DEF Shown
    <3> QED
      BY <2>1, <3>1, <3>2
  <2>3. Copies(r) /\ r.inherited.availability = shown.availability /\ r.inherited.name = shown.name
    BY <1>8, <2>1, <2>2 DEF Copies
  <2>4. KeptAvailability(r) = shown.availability /\ KeptGroup(r) = shown.group
    <3> HIDE DEF shown
    <3> QED
      BY <1>2, <1>3, <1>8, <2>3 DEF KeptAvailability, KeptGroup
  <2> QED
    BY <2>4
<1> QED
  BY <1>6, <1>7, <1>8

\* Only a page's own request is answered, and only by the server.
LEMMA ServesAlone ==
    ASSUME IInv, [Next]_vars, NEW p \in Pages,
           call[p].stage = "asked", call'[p].stage = "answered"
    PROVE  Serve(p)
<1>0. Domains /\ PageTypesOf(p)
  BY OpenPage DEF IInv
<1>1. CASE UNCHANGED vars
  BY <1>1 DEF vars, pageVars
<1>9. ASSUME NEW q \in Pages, NEW o, Begin(q, o) PROVE FALSE
  <2> DEFINE k == Asking(q, Requests(q, Head(o)))
  <2>1. k.stage = "asked"
    BY DEF Asking
  <2>2. call' = [call EXCEPT ![q] = k]
    BY <1>9 DEF Begin
  <2> HIDE DEF k
  <2> QED
    BY <1>0, <2>1, <2>2 DEF Domains
<1>2. ASSUME NEW q \in Pages, NEW g \in Gestures[q], Click(q, g) PROVE FALSE
  <2>1. Begin(q, <<g>>) \/ call' = call
    BY <1>2 DEF Click
  <2> QED
    BY <1>9, <2>1
<1>3. ASSUME NEW q \in Pages, Start(q) PROVE FALSE
  BY <1>3, <1>9 DEF Start
<1>4. ASSUME NEW q \in Pages, Fail(q) \/ LoseAnswer(q) PROVE FALSE
  <2>1. call' = [call EXCEPT ![q] = NoCall]
    BY <1>4 DEF Fail, LoseAnswer
  <2>2. NoCall.stage = "none"
    BY DEF NoCall
  <2> QED
    BY <1>0, <2>1, <2>2 DEF Domains
<1>5. ASSUME NEW q \in Pages, Adopt(q) PROVE FALSE
  <2>1. q # p => call'[p] = call[p]
    BY <1>0, <1>5 DEF Adopt, Domains
  <2> QED
    BY <2>1, <1>5 DEF Adopt
<1>6. ASSUME NEW q \in Pages, Read(q) \/ AdoptReading(q) PROVE FALSE
  BY <1>6 DEF Read, AdoptReading
<1>7. CASE OthersReferences
  BY <1>7 DEF OthersReferences, pageVars
<1>8. ASSUME NEW q \in Pages, Serve(q) PROVE q = p
  <2>1. PICK row : Answer(q, row)
    BY <1>8 DEF Serve, ServeFlags, ServeCardLabel, ServeLabel, ServeAddGroup, ServeCapGroup,
                ServeDeleteGroup, ServeReference
  <2> QED
    BY <1>0, <2>1 DEF Answer, Domains
<1> QED
  BY <1>1, <1>2, <1>3, <1>4, <1>5, <1>6, <1>7, <1>8 DEF Next

\* The first gesture on an inherited profile stores what the page was showing of the
\* parts it does not change (inheritedOf of deckStore.ts, PUT /flags/:cardId).
THEOREM StoresTheScreenHolds == Spec => StoresTheScreen
<1>1. ASSUME IInv, [Next]_vars, NEW p \in Pages,
             call[p].stage = "asked", call'[p].stage = "answered", call[p].request.op = "flags",
             call[p].request.hopt = Keep,
             call[p].known.flags = flags, call[p].known.groups = groups
      PROVE  LET r == call[p].request
                 shown == call[p].shown[r.card] IN
             /\ r.availability = Keep => flags'[r.card].availability = shown.availability
             /\ r.group = Keep /\ r.availability # Null => flags'[r.card].group = shown.group
  <2> DEFINE r == call[p].request
             known == call[p].known
  <2>1. PageTypesOf(p) /\ PageInOrder(p) /\ Domains /\ RowsInOrder
    BY <1>1, OpenPage DEF IInv
  <2>2. r \in FlagsRequests /\ known \in Raw /\ call[p].shown = Derive(known)
    <3>1. call[p] \in AskedCalls
      BY <1>1, <2>1, CallKinds DEF PageTypesOf
    <3>2. r \in Asked
      BY <3>1, AskedFields
    <3> QED
      BY <1>1, <2>1, <3>1, <3>2, AskedFields, RequestKinds DEF PageInOrder, CarriesTheScreen
  <2>3. r.card \in Cards /\ call[p].shown[r.card] = EffectiveOf(known, r.card)
    BY <2>2, FlagsFields DEF Derive
  <2>4. Serve(p)
    BY <1>1, ServesAlone
  <2>5. flags'[r.card] = FlagsRow(r)
    <3>1. ServeFlags(p, r)
      BY <1>1, <2>4 DEF Serve, ServeFlags, ServeCardLabel, ServeLabel, ServeAddGroup,
                        ServeCapGroup, ServeDeleteGroup, ServeReference
    <3> QED
      BY <1>1, <2>1, <2>3, <3>1 DEF ServeFlags, RowsInOrder, RowTypes
  <2>6. r.inherits => /\ KeptAvailability(r) = call[p].shown[r.card].availability
                      /\ KeptGroup(r) = call[p].shown[r.card].group
    <3> SUFFICES ASSUME r.inherits
                 PROVE  /\ KeptAvailability(r) = call[p].shown[r.card].availability
                        /\ KeptGroup(r) = call[p].shown[r.card].group
      OBVIOUS
    <3>1. r.inherited = IF known.flags[r.card].choice \/ call[p].shown[r.card].origin = Null THEN Keep
                        ELSE [availability |-> call[p].shown[r.card].availability,
                              name |-> call[p].shown[r.card].name]
      BY <1>1, <2>1 DEF PageInOrder, CarriesTheScreen
    <3> HIDE DEF r, known
    <3> QED
      BY <1>1, <2>1, <2>2, <2>3, <3>1, KeepsTheScreen DEF r, known
  <2>7. /\ r.availability = Keep =>
              r.inherits /\ FlagsRow(r).availability = KeptAvailability(r)
        /\ r.group = Keep /\ r.availability # Null =>
              r.inherits /\ FlagsRow(r).group = KeptGroup(r)
    <3> HIDE DEF r
    <3>1. r.hopt = Keep
      BY <1>1 DEF r
    <3>2. r \notin HoptRequests
      BY <3>1 DEF HoptRequests
    <3>3. CASE r \in WithdrawRequests
      <4>1. r.availability = Null
        BY <3>3 DEF WithdrawRequests
      <4> QED
        BY <4>1
    <3>4. CASE r \in ProfileRequests
      <4>1. r.availability # Keep /\ r.group = Keep /\ r.inherits = TRUE
        BY <3>4 DEF ProfileRequests
      <4> QED
        BY <2>2, <3>4, <4>1, FlagsRowIs
    <3>5. CASE r \in GroupRequests
      <4>1. r.group # Keep /\ r.inherits = TRUE
        BY <3>5 DEF GroupRequests
      <4> QED
        BY <2>2, <3>5, <4>1, FlagsRowIs
    <3> QED
      BY <2>2, <3>2, <3>3, <3>4, <3>5 DEF FlagsRequests
  <2> QED
    BY <2>5, <2>6, <2>7
<1>2. IInv /\ [Next]_vars =>
        \A p \in Pages :
          LET r == call[p].request
              c == r.card
              shown == call[p].shown[c] IN
          (/\ call[p].stage = "asked" /\ call'[p].stage = "answered"
           /\ r.op = "flags" /\ r.hopt = Keep
           /\ call[p].known.flags = flags /\ call[p].known.groups = groups)
          => /\ r.availability = Keep => flags'[c].availability = shown.availability
             /\ r.group = Keep /\ r.availability # Null => flags'[c].group = shown.group
  BY <1>1
<1> QED
  BY <1>2, InvHolds, PTL DEF Spec, StoresTheScreen

-----------------------------------------------------------------------------
(* What the account is promised: every step chooses, forgets, changes a default or     *)
(* the caps, or changes nothing the account sees.                                      *)

SeenOf(raw, c) == [hopt |-> EffectiveOf(raw, c).hopt,
                   availability |-> EffectiveOf(raw, c).availability,
                   group |-> EffectiveOf(raw, c).group]
ChosenOf(row) == {a \in {"hopt", "nonengine"} :
                    IF a = "hopt" THEN row.hopt # Null ELSE row.choice}

LEMMA SeenIs ==
    /\ Seen = [c \in Cards |-> SeenOf(Stored, c)] /\ Seen' = [c \in Cards |-> SeenOf(Stored', c)]
    /\ Chosen = [c \in Cards |-> ChosenOf(flags[c])]
    /\ Chosen' = [c \in Cards |-> ChosenOf(flags'[c])]
BY DEF Seen, SeenOf, Chosen, ChosenOf

\* The value of a card depends on its row and its reference, on the caps by name, and on
\* nothing else; a chosen aspect on the row alone.
LEMMA ValueDepends ==
    ASSUME NEW one \in Raw, NEW other \in Raw, NEW c \in Cards
    PROVE  /\ one.flags[c].hopt = other.flags[c].hopt /\ one.references[c] = other.references[c] =>
                SeenOf(one, c).hopt = SeenOf(other, c).hopt
           /\ one.flags[c].hopt = other.flags[c].hopt /\ one.flags[c].hopt # Null =>
                SeenOf(one, c).hopt = SeenOf(other, c).hopt
           /\ (/\ one.flags[c].choice = other.flags[c].choice
               /\ one.flags[c].availability = other.flags[c].availability
               /\ one.references[c] = other.references[c]) =>
                SeenOf(one, c).availability = SeenOf(other, c).availability
           /\ (/\ one.flags[c].choice = other.flags[c].choice
               /\ one.flags[c].availability = other.flags[c].availability
               /\ one.flags[c].group = other.flags[c].group
               /\ one.references[c] = other.references[c] /\ one.groups = other.groups) =>
                SeenOf(one, c).group = SeenOf(other, c).group
           /\ (/\ one.flags[c].choice /\ other.flags[c].choice
               /\ one.flags[c].availability = other.flags[c].availability
               /\ one.flags[c].group = other.flags[c].group) =>
                /\ SeenOf(one, c).availability = SeenOf(other, c).availability
                /\ SeenOf(one, c).group = SeenOf(other, c).group
<1>1. /\ SeenOf(one, c).hopt = EffectiveHopt(one, c)
      /\ SeenOf(other, c).hopt = EffectiveHopt(other, c)
      /\ SeenOf(one, c).availability = EffectiveProfile(one, c).availability
      /\ SeenOf(other, c).availability = EffectiveProfile(other, c).availability
      /\ SeenOf(one, c).group = EffectiveProfile(one, c).group
      /\ SeenOf(other, c).group = EffectiveProfile(other, c).group
  BY DEF SeenOf, EffectiveOf
<1>2. /\ one.flags[c].hopt = other.flags[c].hopt /\ one.references[c] = other.references[c] =>
           EffectiveHopt(one, c) = EffectiveHopt(other, c)
      /\ one.flags[c].hopt = other.flags[c].hopt /\ one.flags[c].hopt # Null =>
           EffectiveHopt(one, c) = EffectiveHopt(other, c)
  BY DEF EffectiveHopt
<1>3. (/\ one.flags[c].choice = other.flags[c].choice
       /\ one.flags[c].availability = other.flags[c].availability
       /\ one.references[c] = other.references[c]) =>
         EffectiveProfile(one, c).availability = EffectiveProfile(other, c).availability
  BY DEF EffectiveProfile, Inherited
<1>4. (/\ one.flags[c].choice = other.flags[c].choice
       /\ one.flags[c].availability = other.flags[c].availability
       /\ one.flags[c].group = other.flags[c].group
       /\ one.references[c] = other.references[c] /\ one.groups = other.groups) =>
         EffectiveProfile(one, c).group = EffectiveProfile(other, c).group
  BY DEF EffectiveProfile, Inherited, GroupNamed
<1>5. (/\ one.flags[c].choice /\ other.flags[c].choice
       /\ one.flags[c].availability = other.flags[c].availability
       /\ one.flags[c].group = other.flags[c].group) =>
         /\ EffectiveProfile(one, c).availability = EffectiveProfile(other, c).availability
         /\ EffectiveProfile(one, c).group = EffectiveProfile(other, c).group
  BY DEF EffectiveProfile
<1> HIDE DEF SeenOf
<1> QED
  BY <1>1, <1>2, <1>3, <1>4, <1>5

LEMMA StoredTypes ==
    ASSUME IInv, [Next]_vars
    PROVE  Stored \in Raw /\ Stored' \in Raw
<1>1. IInv'
  BY NextInv
<1>2. flags' \in [Cards -> Choice] /\ groups' \subseteq Group /\ categories' \subseteq Labels
      /\ labels' \subseteq Cards \X Labels /\ references' \in [Cards -> Row]
  BY <1>1 DEF IInv, RowsInOrder, RowTypes, ReferencesInOrder, ReferencesTypeOK
<1>3. Stored' \in Raw
  BY <1>2 DEF Stored, Raw
<1> QED
  BY <1>3, StoredType DEF IInv

\* Of a step that changes the row of one card: the other cards are as they were.
LEMMA RowView ==
    ASSUME Stored \in Raw, Stored' \in Raw, NEW c \in Cards, NEW row \in Choice,
           flags' = [flags EXCEPT ![c] = row], UNCHANGED <<groups, references>>
    PROVE  /\ View!OthersKept(c)
           /\ Chosen' = [Chosen EXCEPT ![c] = ChosenOf(row)] /\ Chosen[c] = ChosenOf(flags[c])
           /\ row.hopt = flags[c].hopt => View!Same(c, "hopt")
           /\ (/\ row.choice = flags[c].choice /\ row.availability = flags[c].availability
               /\ row.group = flags[c].group) => View!Same(c, "nonengine")
<1>1. /\ Stored.flags = flags /\ Stored'.flags = flags' /\ Stored.groups = groups
      /\ Stored'.groups = groups /\ Stored.references = references
      /\ Stored'.references = references
  BY DEF Stored
<1>2. flags'[c] = row /\ \A d \in Cards \ {c} : flags'[d] = flags[d]
  BY <1>1, RawFields
<1> DEFINE before == Stored
           after == Stored'
<1>3. /\ before \in Raw /\ after \in Raw /\ before.flags = flags /\ after.flags = flags'
      /\ before.groups = after.groups /\ before.references = after.references
      /\ Seen = [d \in Cards |-> SeenOf(before, d)] /\ Seen' = [d \in Cards |-> SeenOf(after, d)]
  BY <1>1, SeenIs
<1> HIDE DEF before, after
<1>8. ASSUME NEW d \in Cards
      PROVE  /\ flags'[d].hopt = flags[d].hopt => SeenOf(after, d).hopt = SeenOf(before, d).hopt
             /\ (/\ flags'[d].choice = flags[d].choice
                 /\ flags'[d].availability = flags[d].availability
                 /\ flags'[d].group = flags[d].group) =>
                   /\ SeenOf(after, d).availability = SeenOf(before, d).availability
                   /\ SeenOf(after, d).group = SeenOf(before, d).group
  <2>1. /\ after.flags[d].hopt = before.flags[d].hopt =>
              SeenOf(after, d).hopt = SeenOf(before, d).hopt
        /\ (/\ after.flags[d].choice = before.flags[d].choice
            /\ after.flags[d].availability = before.flags[d].availability
            /\ after.flags[d].group = before.flags[d].group) =>
              /\ SeenOf(after, d).availability = SeenOf(before, d).availability
              /\ SeenOf(after, d).group = SeenOf(before, d).group
    <3>1. after \in Raw /\ before \in Raw /\ after.references[d] = before.references[d]
      BY <1>3
    <3>2. after.groups = before.groups
      BY <1>3
    <3>3. after.flags[d].hopt = before.flags[d].hopt => SeenOf(after, d).hopt = SeenOf(before, d).hopt
      BY <3>1, ValueDepends
    <3>4. (/\ after.flags[d].choice = before.flags[d].choice
           /\ after.flags[d].availability = before.flags[d].availability) =>
             SeenOf(after, d).availability = SeenOf(before, d).availability
      BY <3>1, ValueDepends
    <3>5. (/\ after.flags[d].choice = before.flags[d].choice
           /\ after.flags[d].availability = before.flags[d].availability
           /\ after.flags[d].group = before.flags[d].group) =>
             SeenOf(after, d).group = SeenOf(before, d).group
      BY <3>1, <3>2, ValueDepends
    <3> QED
      BY <3>3, <3>4, <3>5
  <2> QED
    BY <1>3, <2>1
<1>4. ASSUME NEW d \in Cards \ {c} PROVE Seen'[d] = Seen[d] /\ Chosen'[d] = Chosen[d]
  <2>1. /\ SeenOf(after, d).hopt = SeenOf(before, d).hopt
        /\ SeenOf(after, d).availability = SeenOf(before, d).availability
        /\ SeenOf(after, d).group = SeenOf(before, d).group
    BY <1>2, <1>8
  <2>2. SeenOf(after, d) = SeenOf(before, d)
    BY <2>1 DEF SeenOf
  <2> QED
    BY <1>2, <1>3, <2>2, SeenIs
<1>5. row.hopt = flags[c].hopt => View!Same(c, "hopt")
  BY <1>2, <1>3, <1>8 DEF View!Same
<1>6. (/\ row.choice = flags[c].choice /\ row.availability = flags[c].availability
       /\ row.group = flags[c].group) => View!Same(c, "nonengine")
  BY <1>2, <1>3, <1>8 DEF View!Same
<1>7. Chosen' = [Chosen EXCEPT ![c] = ChosenOf(row)] /\ Chosen[c] = ChosenOf(flags[c])
  BY <1>2, SeenIs
<1> QED
  BY <1>4, <1>5, <1>6, <1>7 DEF View!OthersKept

LEMMA FlagsView ==
    ASSUME IInv, [Next]_vars, NEW p, NEW r \in Asked, ServeFlags(p, r), Sensible(FlagsRow(r)) \/ r.op = "reset"
    PROVE  View!Next
<1>0. Stored \in Raw /\ Stored' \in Raw /\ RowsInOrder
  BY StoredTypes DEF IInv
<1>1. UNCHANGED <<groups, references>> /\ r.op \in {"flags", "reset"}
  BY DEF ServeFlags, referenceVars
<1>2. CASE r.op = "flags"
  <2> DEFINE row == FlagsRow(r)
             c == r.card
  <2>1. r \in FlagsRequests /\ c \in Cards /\ row \in Choice /\ flags[c] \in Choice
    BY <1>0, <1>2, RequestKinds, FlagsFields DEF Sensible, RowsInOrder, RowTypes
  <2>2. flags' = [flags EXCEPT ![c] = row]
    BY <1>2 DEF ServeFlags
  <2>3. flags[c].choice \in BOOLEAN
    BY <2>1, ChoiceFields
  <2>4. \/ /\ row.hopt # Null /\ row.choice = flags[c].choice
           /\ row.availability = flags[c].availability /\ row.group = flags[c].group
        \/ row.choice /\ row.hopt = flags[c].hopt
    <3>1. CASE r \in HoptRequests
      <4>1. r.hopt # Null
        BY <3>1 DEF HoptRequests
      <4> QED
        BY <2>1, <2>3, <3>1, <4>1, FlagsRowIs
    <3>2. CASE r \in WithdrawRequests
      <4>1. row = [hopt |-> flags[c].hopt, choice |-> TRUE, availability |-> Null, group |-> Null]
        BY <2>1, <2>3, <3>2, FlagsRowIs
      <4> HIDE DEF row
      <4> QED
        BY <4>1
    <3>3. CASE r \in ProfileRequests
      <4>1. row = [hopt |-> flags[c].hopt, choice |-> TRUE, availability |-> r.availability,
                   group |-> IF r.availability = Null THEN Null ELSE KeptGroup(r)]
        BY <2>1, <2>3, <3>3, FlagsRowIs
      <4> HIDE DEF row
      <4> QED
        BY <4>1
    <3>4. CASE r \in GroupRequests
      <4>1. row = [hopt |-> flags[c].hopt, choice |-> TRUE,
                   availability |-> KeptAvailability(r), group |-> r.group]
        BY <2>1, <2>3, <3>4, FlagsRowIs
      <4> HIDE DEF row
      <4> QED
        BY <4>1
    <3> HIDE DEF row
    <3> QED
      BY <2>1, <3>1, <3>2, <3>3, <3>4 DEF FlagsRequests
  <2> HIDE DEF row
  <2>5. /\ View!OthersKept(c)
        /\ Chosen' = [Chosen EXCEPT ![c] = ChosenOf(row)] /\ Chosen[c] = ChosenOf(flags[c])
        /\ row.hopt = flags[c].hopt => View!Same(c, "hopt")
        /\ (/\ row.choice = flags[c].choice /\ row.availability = flags[c].availability
            /\ row.group = flags[c].group) => View!Same(c, "nonengine")
    BY <1>0, <1>1, <2>1, <2>2, RowView
  <2>6. CASE /\ row.hopt # Null /\ row.choice = flags[c].choice
             /\ row.availability = flags[c].availability /\ row.group = flags[c].group
    <3>1. ChosenOf(row) = ChosenOf(flags[c]) \cup {"hopt"}
      BY <2>6 DEF ChosenOf
    <3>2. View!Choose(c, "hopt")
      BY <2>5, <2>6, <3>1 DEF View!Choose, View!Aspects
    <3> QED
      BY <2>1, <3>2 DEF View!Next, View!Aspects
  <2>7. CASE row.choice /\ row.hopt = flags[c].hopt
    <3>1. ChosenOf(row) = ChosenOf(flags[c]) \cup {"nonengine"}
      BY <2>7 DEF ChosenOf
    <3>2. View!Choose(c, "nonengine")
      BY <2>5, <2>7, <3>1 DEF View!Choose, View!Aspects
    <3> QED
      BY <2>1, <3>2 DEF View!Next, View!Aspects
  <2> QED
    BY <2>4, <2>6, <2>7
<1>3. CASE r.op = "reset"
  <2> DEFINE row == ResetRow(r)
             c == r.card
  <2>1. c \in Cards /\ r.aspect \in {"hopt", "nonengine"} /\ flags[c] \in Choice /\ row \in Choice
    BY <1>0, <1>3, RequestKinds, ResetRowSensible DEF Sensible, RowsInOrder, RowTypes
  <2>2. flags' = [flags EXCEPT ![c] = row]
    BY <1>3 DEF ServeFlags
  <2>3. \/ /\ r.aspect = "hopt" /\ row.hopt = Null /\ row.choice = flags[c].choice
           /\ row.availability = flags[c].availability /\ row.group = flags[c].group
        \/ r.aspect = "nonengine" /\ ~row.choice /\ row.hopt = flags[c].hopt
    BY <2>1 DEF ResetRow, NoChoice, Choice
  <2> HIDE DEF row
  <2>4. /\ View!OthersKept(c)
        /\ Chosen' = [Chosen EXCEPT ![c] = ChosenOf(row)] /\ Chosen[c] = ChosenOf(flags[c])
        /\ row.hopt = flags[c].hopt => View!Same(c, "hopt")
        /\ (/\ row.choice = flags[c].choice /\ row.availability = flags[c].availability
            /\ row.group = flags[c].group) => View!Same(c, "nonengine")
    BY <1>0, <1>1, <2>1, <2>2, RowView
  <2>5. ChosenOf(row) = ChosenOf(flags[c]) \ {r.aspect}
    BY <2>3 DEF ChosenOf
  <2>6. View!Forget(c, r.aspect)
    BY <2>1, <2>3, <2>4, <2>5 DEF View!Forget, View!Aspects
  <2> QED
    BY <2>1, <2>6 DEF View!Next, View!Aspects
<1> QED
  BY <1>1, <1>2, <1>3

\* The rows of the cards are as they were, and their references, and the caps.
LEMMA NothingSeen ==
    ASSUME flags' = flags, groups' = groups, references' = references
    PROVE  Seen' = Seen /\ Chosen' = Chosen
<1> DEFINE before == Stored
           after == Stored'
<1>1. /\ before.flags = after.flags /\ before.groups = after.groups
      /\ before.references = after.references
      /\ Seen = [c \in Cards |-> SeenOf(before, c)] /\ Seen' = [c \in Cards |-> SeenOf(after, c)]
  BY SeenIs DEF Stored
<1> HIDE DEF before, after
<1>2. Derive(before) = Derive(after)
  BY <1>1, DeriveDepends
<1>3. \A c \in Cards : EffectiveOf(before, c) = EffectiveOf(after, c)
  BY <1>2 DEF Derive
<1>4. Seen' = Seen
  BY <1>1, <1>3 DEF SeenOf
<1> QED
  BY <1>4 DEF Chosen

\* A reference changes.
LEMMA ReferenceView ==
    ASSUME Stored \in Raw, Stored' \in Raw, NEW c \in Cards, NEW row,
           references' = [references EXCEPT ![c] = row], flags' = flags, groups' = groups
    PROVE  View!Next
<1> DEFINE before == Stored
           after == Stored'
<1>1. /\ before \in Raw /\ after \in Raw /\ before.flags = flags /\ after.flags = flags
      /\ before.groups = groups /\ after.groups = groups
      /\ before.references = references /\ after.references = references'
      /\ Seen = [d \in Cards |-> SeenOf(before, d)] /\ Seen' = [d \in Cards |-> SeenOf(after, d)]
  BY SeenIs DEF Stored
<1>2. \A d \in Cards \ {c} : references'[d] = references[d]
  OBVIOUS
<1> HIDE DEF before, after
<1>3. Chosen' = Chosen
  BY DEF Chosen
<1>4. ASSUME NEW d \in Cards \ {c} PROVE Seen'[d] = Seen[d]
  <2>1. /\ after.references[d] = before.references[d] /\ after.flags = before.flags
        /\ after.groups = before.groups /\ before \in Raw /\ after \in Raw
    BY <1>1, <1>2
  <2>2. SeenOf(after, d).hopt = SeenOf(before, d).hopt
    BY <2>1, ValueDepends
  <2>3. SeenOf(after, d).availability = SeenOf(before, d).availability
    BY <2>1, ValueDepends
  <2>4. SeenOf(after, d).group = SeenOf(before, d).group
    BY <2>1, ValueDepends
  <2>5. SeenOf(after, d) = SeenOf(before, d)
    BY <2>2, <2>3, <2>4 DEF SeenOf
  <2> QED
    BY <1>1, <2>5
<1>5. ASSUME NEW a \in Chosen[c] PROVE View!Same(c, a)
  <2>1. (a = "hopt" /\ flags[c].hopt # Null) \/ (a = "nonengine" /\ flags[c].choice)
    BY <1>5 DEF Chosen
  <2>2. CASE a = "hopt" /\ flags[c].hopt # Null
    <3>1. SeenOf(after, c).hopt = SeenOf(before, c).hopt
      BY <1>1, <2>2, ValueDepends
    <3> QED
      BY <1>1, <2>2, <3>1 DEF View!Same
  <2>3. CASE a = "nonengine" /\ flags[c].choice
    <3>1. /\ SeenOf(after, c).availability = SeenOf(before, c).availability
          /\ SeenOf(after, c).group = SeenOf(before, c).group
      BY <1>1, <2>3, ValueDepends
    <3> QED
      BY <1>1, <2>3, <3>1 DEF View!Same
  <2> QED
    BY <2>1, <2>2, <2>3
<1>6. View!Default(c)
  BY <1>3, <1>4, <1>5 DEF View!Default, View!OthersKept
<1> QED
  BY <1>6 DEF View!Next

\* The caps change: the rows keep their choices, and can only lose their cap.
LEMMA CapsView ==
    ASSUME Stored \in Raw, Stored' \in Raw, references' = references,
           \A c \in Cards : /\ flags'[c].hopt = flags[c].hopt /\ flags'[c].choice = flags[c].choice
                            /\ flags'[c].availability = flags[c].availability
                            /\ flags'[c].group \in {flags[c].group, Null}
    PROVE  View!Next
<1> DEFINE before == Stored
           after == Stored'
<1>1. /\ before \in Raw /\ after \in Raw /\ before.flags = flags /\ after.flags = flags'
      /\ before.references = after.references
      /\ Seen = [d \in Cards |-> SeenOf(before, d)] /\ Seen' = [d \in Cards |-> SeenOf(after, d)]
  BY SeenIs DEF Stored
<1> HIDE DEF before, after
<1>2. Chosen' = Chosen
  BY DEF Chosen
<1>3. ASSUME NEW c \in Cards
      PROVE  /\ View!Same(c, "hopt") /\ Seen'[c].availability = Seen[c].availability
             /\ "nonengine" \in Chosen[c] => Seen'[c].group \in {Seen[c].group, Null}
  <2>1. /\ after.flags[c].hopt = before.flags[c].hopt
        /\ after.flags[c].choice = before.flags[c].choice
        /\ after.flags[c].availability = before.flags[c].availability
        /\ after.references[c] = before.references[c]
    BY <1>1
  <2>2. SeenOf(after, c).hopt = SeenOf(before, c).hopt
    BY <1>1, <2>1, ValueDepends
  <2>3. SeenOf(after, c).availability = SeenOf(before, c).availability
    BY <1>1, <2>1, ValueDepends
  <2>4. "nonengine" \in Chosen[c] => /\ SeenOf(before, c).group = flags[c].group
                                     /\ SeenOf(after, c).group = flags'[c].group
    <3>1. "nonengine" \in Chosen[c] => flags[c].choice /\ flags'[c].choice
      BY DEF Chosen
    <3> QED
      BY <1>1, <3>1, EffectiveIs DEF SeenOf
  <2> QED
    BY <1>1, <2>2, <2>3, <2>4 DEF View!Same
<1>4. View!Caps
  BY <1>2, <1>3 DEF View!Caps
<1> QED
  BY <1>4 DEF View!Next

LEMMA StepView == IInv /\ [Next]_vars => [View!Next]_<<Seen, Chosen>>
<1> SUFFICES ASSUME IInv, [Next]_vars PROVE View!Next \/ (Seen' = Seen /\ Chosen' = Chosen)
  OBVIOUS
<1>1. Stored \in Raw /\ Stored' \in Raw
  BY StoredTypes
<1>2. CASE UNCHANGED vars
  <2>1. flags' = flags /\ groups' = groups /\ references' = references
    BY <1>2 DEF vars, serverVars, referenceVars
  <2> QED
    BY <2>1, NothingSeen
<1>3. CASE \E p \in Pages :
             \/ \E g \in Gestures[p] : Click(p, g)
             \/ Start(p) \/ Fail(p) \/ LoseAnswer(p) \/ Adopt(p) \/ Read(p) \/ AdoptReading(p)
  <2>1. flags' = flags /\ groups' = groups /\ references' = references
    BY <1>3 DEF Click, Start, Fail, LoseAnswer, Adopt, Read, AdoptReading, serverVars, referenceVars
  <2> QED
    BY <2>1, NothingSeen
<1>4. ASSUME NEW p \in Pages, Serve(p)
      PROVE  View!Next \/ (Seen' = Seen /\ Chosen' = Chosen)
  <2> DEFINE r == call[p].request
  <2>1. r \in Asked /\ ~Refused(r)
    <3>1. PageTypesOf(p)
      BY OpenPage DEF IInv
    <3>2. call[p] \in AskedCalls
      BY <1>4, <3>1, CallKinds DEF PageTypesOf, Serve
    <3> QED
      BY <1>4, <3>2, AskedFields DEF Serve
  <2>2. \/ ServeFlags(p, r) \/ ServeCardLabel(p, r) \/ ServeLabel(p, r)
        \/ ServeAddGroup(p, r) \/ ServeCapGroup(p, r) \/ ServeDeleteGroup(p, r)
        \/ ServeReference(p, r)
    BY <1>4 DEF Serve
  <2> HIDE DEF r
  <2>3. CASE ServeFlags(p, r)
    <3>1. Sensible(FlagsRow(r)) \/ r.op = "reset"
      BY <2>1, <2>3, RequestKinds, FlagsRowSensible DEF IInv, ServeFlags
    <3> QED
      BY <2>1, <2>3, <3>1, FlagsView
  <2>4. CASE ServeCardLabel(p, r) \/ ServeLabel(p, r)
    <3>1. flags' = flags /\ groups' = groups /\ references' = references
      BY <2>4 DEF ServeCardLabel, ServeLabel, referenceVars
    <3> QED
      BY <3>1, NothingSeen
  <2>5. CASE ServeAddGroup(p, r) \/ ServeCapGroup(p, r)
    <3>1. flags' = flags /\ references' = references
      BY <2>5 DEF ServeAddGroup, ServeCapGroup, referenceVars
    <3> QED
      BY <1>1, <3>1, CapsView
  <2>6. CASE ServeDeleteGroup(p, r)
    <3>1. references' = references
      BY <2>6 DEF ServeDeleteGroup, referenceVars
    <3>2. ASSUME NEW c \in Cards
          PROVE  /\ flags'[c].hopt = flags[c].hopt /\ flags'[c].choice = flags[c].choice
                 /\ flags'[c].availability = flags[c].availability
                 /\ flags'[c].group \in {flags[c].group, Null}
      <4>1. flags'[c] = IF flags[c].group = r.group THEN [flags[c] EXCEPT !.group = Null] ELSE flags[c]
        BY <2>6 DEF ServeDeleteGroup
      <4>2. flags[c] \in Choice
        BY DEF IInv, RowsInOrder, RowTypes
      <4> QED
        BY <4>1, <4>2 DEF Choice
    <3> QED
      BY <1>1, <3>1, <3>2, CapsView
  <2>7. CASE ServeReference(p, r)
    <3>1. /\ r.card \in Cards /\ references' = [references EXCEPT ![r.card] = r.row]
          /\ flags' = flags /\ groups' = groups
      BY <2>1, <2>7, RequestKinds DEF ServeReference, serverVars
    <3> QED
      BY <1>1, <3>1, ReferenceView
  <2> QED
    BY <2>2, <2>3, <2>4, <2>5, <2>6, <2>7
<1>5. CASE OthersReferences
  <2>1. CASE /\ \E r \in Referents \ {Account} : ReferencesStep(r)
             /\ UNCHANGED <<serverVars, pageVars, behind>>
    <3>1. flags' = flags /\ groups' = groups /\ references' = references
      BY <2>1 DEF ReferencesStep, BeginSet, WriteSet, WriteClear, serverVars
    <3> QED
      BY <3>1, NothingSeen
  <2>2. CASE /\ \E r \in Referents \ {Account} : Commit(r)
             /\ UNCHANGED <<serverVars, lib, eff, queue, call, clicks, reads>>
    <3>1. PICK r \in Referents \ {Account} : Commit(r)
      BY <2>2
    <3>2. tx[r].entry.card \in Cards
      BY <3>1, StageTypes DEF IInv, ReferencesInOrder, Commit, Writing, Entry
    <3>3. /\ references' = [references EXCEPT ![tx[r].entry.card] = tx[r].entry.after]
          /\ flags' = flags /\ groups' = groups
      BY <2>2, <3>1 DEF Commit, serverVars
    <3> QED
      BY <1>1, <3>2, <3>3, ReferenceView
  <2> QED
    BY <1>5, <2>1, <2>2 DEF OthersReferences
<1> QED
  BY <1>2, <1>3, <1>4, <1>5 DEF Next

\* The rows of the server implement what the account is promised (AccountView): a choice
\* changes one aspect of one card, a default only aspects nobody chose, and the life of the
\* caps only caps, whatever the pages and the referents do.
THEOREM KeepsItsPromisesHolds == Spec => KeepsItsPromises
<1>1. Init => View!Init
  BY DEF Init, View!Init, Chosen, NoChoice
<1> QED
  BY <1>1, InvHolds, StepView, PTL DEF Spec, KeepsItsPromises, View!Spec

=============================================================================
