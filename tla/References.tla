---------------------------- MODULE References ----------------------------
(***************************************************************************)
(* The common references of src/server/src/routes/references.ts: the value *)
(* a card has for every account that chose none, written by referents, and *)
(* the journal of those writes.                                            *)
(*                                                                         *)
(* A write is a transaction of several statements under READ COMMITTED:    *)
(* the present row is read and locked, if there is one, then the new row   *)
(* and the journal entry are written, then all of it is committed.  What a *)
(* transaction writes is seen by nobody before its commit.                 *)
(***************************************************************************)
EXTENDS Naturals, FiniteSets

CONSTANTS Cards,            \* the cards
          Referents,        \* accounts that may write, one transaction each at a time
          ReferenceRows,    \* the references a referent may write
          NoReference,      \* no reference for this card
          MaxWrites         \* bound: writes of each referent

ASSUME ReferencesAssumption == NoReference \notin ReferenceRows /\ MaxWrites \in Nat

VARIABLES references,       \* references[c]: the committed row of card c
          log,              \* the committed entries of the journal
          lastId,           \* the identifiers given to journal entries so far
          tx                \* tx[r]: the transaction of referent r

referenceVars == <<references, log, lastId, tx>>

Row == ReferenceRows \cup {NoReference}
Entry == [id : Nat, by : Referents, card : Cards, before : Row, after : Row]

\* No transaction; one that has read what it replaces; one that has written.
Idle == [stage |-> "idle"]
Reading == [stage : {"read"}, card : Cards, before : Row, after : ReferenceRows]
Written == [stage : {"written"}, entry : Entry]

ReferencesTypeOK ==
    /\ references \in [Cards -> Row]
    /\ log \subseteq Entry
    /\ lastId \in Nat
    /\ tx \in [Referents -> {Idle} \cup Reading \cup Written]

ReferencesInit ==
    /\ references = [c \in Cards |-> NoReference]
    /\ log = {}
    /\ lastId = 0
    /\ tx = [r \in Referents |-> Idle]

---------------------------------------------------------------------------
\* Referent r holds the lock of card c's row: it has written it, or it has read
\* it "for update", which locks nothing when there is no row.
Holds(r, c) ==
    \/ tx[r].stage = "read" /\ tx[r].card = c /\ tx[r].before # NoReference
    \/ tx[r].stage = "written" /\ tx[r].entry.card = c

Unlocked(r, c) == \A o \in Referents \ {r} : ~Holds(o, c)

\* Bound.
Room(r) == Cardinality({e \in log : e.by = r}) < MaxWrites

BeginSet(r, c, row) ==
    /\ tx[r] = Idle
    /\ Unlocked(r, c)
    /\ Room(r)
    /\ tx' = [tx EXCEPT ![r] = [stage |-> "read", card |-> c,
                                before |-> references[c], after |-> row]]
    /\ UNCHANGED <<references, log, lastId>>

\* insert ... on conflict do update, then the journal entry of what was read.
WriteSet(r) ==
    /\ tx[r].stage = "read"
    /\ Unlocked(r, tx[r].card)
    /\ lastId' = lastId + 1
    /\ tx' = [tx EXCEPT ![r] = [stage |-> "written",
                  entry |-> [id |-> lastId + 1, by |-> r, card |-> tx[r].card,
                             before |-> tx[r].before, after |-> tx[r].after]]]
    /\ UNCHANGED <<references, log>>

\* delete ... returning: one statement, refused when there is no row.
WriteClear(r, c) ==
    /\ tx[r] = Idle
    /\ Unlocked(r, c)
    /\ references[c] # NoReference
    /\ Room(r)
    /\ lastId' = lastId + 1
    /\ tx' = [tx EXCEPT ![r] = [stage |-> "written",
                  entry |-> [id |-> lastId + 1, by |-> r, card |-> c,
                             before |-> references[c], after |-> NoReference]]]
    /\ UNCHANGED <<references, log>>

Commit(r) ==
    /\ tx[r].stage = "written"
    /\ references' = [references EXCEPT ![tx[r].entry.card] = tx[r].entry.after]
    /\ log' = log \cup {tx[r].entry}
    /\ tx' = [tx EXCEPT ![r] = Idle]
    /\ UNCHANGED lastId

ReferencesStep(r) ==
    \/ \E c \in Cards, row \in ReferenceRows : BeginSet(r, c, row)
    \/ WriteSet(r)
    \/ \E c \in Cards : WriteClear(r, c)

---------------------------------------------------------------------------
EntriesOf(c) == {e \in log : e.card = c}
LastEntry(c) == CHOOSE e \in EntriesOf(c) : \A o \in EntriesOf(c) : o.id <= e.id

\* The journal tells what every card has: the last entry of a card, in the order
\* of the identifiers, is the row it has now, whatever transactions overlapped.
JournalTellsTheRows ==
    \A c \in Cards : references[c] = IF EntriesOf(c) = {} THEN NoReference
                                     ELSE LastEntry(c).after

===========================================================================
