--------------------------- MODULE Clients_proofs ---------------------------
(***************************************************************************)
(* Proofs about what runs in the browser around the engine.                *)
(*                                                                         *)
(* The compute client, which hands the tasks to a worker and their answers *)
(* to the promises, for any number of tasks.                               *)
(*                                                                         *)
(* The pages that keep or show the figures computed: the printed sheet,    *)
(* the editor and the comparison, for any number of pages, plans, saves,   *)
(* annotations and builds.                                                 *)
(***************************************************************************)
EXTENDS ComputeClient, Comparison, SequenceTheorems, TLAPS

(***************************************************************************)
(* The compute client                                                      *)
(***************************************************************************)

\* Removing the i-th element of a sequence shifts the later ones down by one.
LEMMA RemoveAtFacts ==
    ASSUME NEW S, NEW s \in Seq(S), NEW i \in 1..Len(s)
    PROVE  /\ RemoveAt(s, i) \in Seq(S)
           /\ Len(RemoveAt(s, i)) = Len(s) - 1
           /\ \A k \in 1..(Len(s) - 1) :
                 RemoveAt(s, i)[k] = IF k < i THEN s[k] ELSE s[k + 1]
  <1> DEFINE a == SubSeq(s, 1, i - 1)
             b == SubSeq(s, i + 1, Len(s))
  <1>1. Len(s) \in Nat /\ \A k \in 1..Len(s) : s[k] \in S
    BY ElementOfSeq, LenProperties
  <1>2. a \in Seq(S) /\ Len(a) = i - 1 /\ \A k \in 1..(i - 1) : a[k] = s[k]
    BY <1>1, SubSeqProperties, SMT
  <1>3. b \in Seq(S) /\ Len(b) = Len(s) - i /\ \A k \in 1..(Len(s) - i) : b[k] = s[i + k]
    <2>1. i + 1 \in Int /\ Len(s) \in Int /\ \A k \in (i + 1)..Len(s) : s[k] \in S
      BY <1>1
    <2> QED
      BY <1>1, <2>1, SubSeqProperties, SMT
  <1> HIDE DEF a, b
  <1>4. /\ a \o b \in Seq(S)
        /\ Len(a \o b) = Len(a) + Len(b)
        /\ \A k \in 1..(Len(a) + Len(b)) : (a \o b)[k] = IF k <= Len(a) THEN a[k] ELSE b[k - Len(a)]
    BY <1>2, <1>3, ConcatProperties
  <1>5. ASSUME NEW k \in 1..(Len(s) - 1)
        PROVE  (a \o b)[k] = IF k < i THEN s[k] ELSE s[k + 1]
    <2>1. CASE k < i
      <3>1. k \in 1..(i - 1) /\ k <= Len(a) /\ k \in 1..(Len(a) + Len(b))
        BY <1>1, <1>2, <1>3, <2>1
      <3> QED
        BY <1>2, <1>4, <2>1, <3>1
    <2>2. CASE ~(k < i)
      <3>1. /\ ~(k <= Len(a)) /\ k \in 1..(Len(a) + Len(b))
            /\ k - Len(a) \in 1..(Len(s) - i) /\ i + (k - Len(a)) = k + 1
        BY <1>1, <1>2, <1>3, <2>2
      <3> QED
        BY <1>3, <1>4, <2>2, <3>1
    <2> QED
      BY <2>1, <2>2
  <1>6. RemoveAt(s, i) = a \o b
    BY DEF RemoveAt, a, b
  <1> QED
    BY <1>1, <1>2, <1>3, <1>4, <1>5, <1>6

\* An increasing sequence stays so, and loses exactly the element removed.
LEMMA RemoveAtIncreasing ==
    ASSUME NEW s \in Seq(TaskIds), Increasing(s), NEW i \in 1..Len(s)
    PROVE  /\ RemoveAt(s, i) \in Seq(TaskIds)
           /\ Increasing(RemoveAt(s, i))
           /\ \A t : Contains(RemoveAt(s, i), t) <=> Contains(s, t) /\ t # s[i]
  <1> DEFINE r == RemoveAt(s, i)
  <1>1. /\ r \in Seq(TaskIds)
        /\ Len(r) = Len(s) - 1
        /\ \A k \in 1..(Len(s) - 1) : r[k] = IF k < i THEN s[k] ELSE s[k + 1]
    BY RemoveAtFacts
  <1> HIDE DEF r
  <1>2. Len(s) \in Nat /\ DOMAIN s = 1..Len(s) /\ DOMAIN r = 1..Len(r)
    BY <1>1, LenProperties
  <1>3. \A k \in 1..Len(s) : s[k] \in Int
    BY MaxTasksAssumption, ElementOfSeq DEF TaskIds
  <1>4. ASSUME NEW j \in 1..Len(r), NEW k \in 1..Len(r), j < k
        PROVE  r[j] < r[k]
    <2> DEFINE at(n) == IF n < i THEN n ELSE n + 1
    <2>1. at(j) \in 1..Len(s) /\ at(k) \in 1..Len(s) /\ at(j) < at(k)
      BY <1>1, <1>2, <1>4
    <2>2. r[j] = s[at(j)] /\ r[k] = s[at(k)]
      BY <1>1
    <2> QED
      BY <1>2, <2>1, <2>2 DEF Increasing
  <1>5. ASSUME NEW t, Contains(r, t) PROVE Contains(s, t) /\ t # s[i]
    <2>1. PICK k \in 1..Len(r) : r[k] = t
      BY <1>5 DEF Contains
    <2>2. t = IF k < i THEN s[k] ELSE s[k + 1]
      BY <1>1, <2>1
    <2>3. k \in 1..Len(s) /\ k + 1 \in 1..Len(s)
      BY <1>1, <1>2
    <2> QED
      BY <1>2, <1>3, <2>2, <2>3 DEF Contains, Increasing
  <1>6. ASSUME NEW t, Contains(s, t), t # s[i] PROVE Contains(r, t)
    <2>1. PICK k \in 1..Len(s) : s[k] = t
      BY <1>6 DEF Contains
    <2>2. CASE k < i
      <3>1. k \in 1..Len(r) /\ r[k] = t
        BY <1>1, <1>2, <2>1, <2>2
      <3> QED
        BY <3>1 DEF Contains
    <2>3. CASE k > i
      <3>1. k - 1 \in 1..Len(r) /\ r[k - 1] = t
        BY <1>1, <1>2, <2>1, <2>3
      <3> QED
        BY <3>1 DEF Contains
    <2> QED
      BY <1>6, <2>1, <2>2, <2>3
  <1> QED
    BY <1>1, <1>2, <1>4, <1>5, <1>6 DEF r, Increasing

\* Appending an element larger than all others keeps a sequence increasing.
LEMMA AppendIncreasing ==
    ASSUME NEW s \in Seq(TaskIds), Increasing(s), NEW x \in TaskIds,
           \A i \in DOMAIN s : s[i] < x
    PROVE  /\ Append(s, x) \in Seq(TaskIds)
           /\ Increasing(Append(s, x))
           /\ \A t : Contains(Append(s, x), t) <=> Contains(s, t) \/ t = x
  <1> DEFINE r == Append(s, x)
  <1>1. /\ r \in Seq(TaskIds)
        /\ Len(r) = Len(s) + 1
        /\ \A i \in 1..Len(s) : r[i] = s[i]
        /\ r[Len(s) + 1] = x
    BY AppendProperties
  <1> HIDE DEF r
  <1>2. Len(s) \in Nat /\ DOMAIN s = 1..Len(s) /\ DOMAIN r = 1..Len(r)
    BY <1>1, LenProperties
  <1>3. Increasing(r)
    BY <1>1, <1>2 DEF Increasing
  <1>4. \A t : Contains(r, t) <=> Contains(s, t) \/ t = x
    BY <1>1, <1>2 DEF Contains
  <1> QED
    BY <1>1, <1>3, <1>4 DEF r

\* Taking the head off an increasing sequence.
LEMMA TailIncreasing ==
    ASSUME NEW s \in Seq(TaskIds), Increasing(s), s # <<>>
    PROVE  /\ Head(s) \in TaskIds
           /\ Tail(s) \in Seq(TaskIds)
           /\ Increasing(Tail(s))
           /\ \A i \in DOMAIN Tail(s) : Head(s) < Tail(s)[i] /\ i + 1 \in DOMAIN s /\ Tail(s)[i] = s[i + 1]
           /\ \A t : Contains(s, t) <=> Contains(Tail(s), t) \/ t = Head(s)
  <1> DEFINE r == Tail(s)
  <1>1. /\ Head(s) \in TaskIds
        /\ r \in Seq(TaskIds)
        /\ Len(r) = Len(s) - 1
        /\ \A i \in 1..Len(r) : r[i] = s[i + 1]
    BY HeadTailProperties
  <1> HIDE DEF r
  <1>2. Len(s) \in Nat /\ Len(s) >= 1 /\ DOMAIN s = 1..Len(s) /\ DOMAIN r = 1..Len(r)
    BY <1>1, LenProperties, EmptySeq
  <1>3. Head(s) = s[1]
    OBVIOUS
  <1>4. \A i \in DOMAIN r : i + 1 \in DOMAIN s /\ r[i] = s[i + 1]
    BY <1>1, <1>2
  <1>5. Increasing(r)
    BY <1>2, <1>4 DEF Increasing
  <1>6. ASSUME NEW i \in DOMAIN r PROVE Head(s) < r[i]
    <2>1. 1 \in DOMAIN s /\ 1 < i + 1
      BY <1>2
    <2> QED
      BY <1>3, <1>4, <2>1 DEF Increasing
  <1>7. Increasing(r) /\ \A i \in DOMAIN r : Head(s) < r[i] /\ i + 1 \in DOMAIN s /\ r[i] = s[i + 1]
    BY <1>4, <1>5, <1>6
  <1>8. ASSUME NEW t, Contains(s, t) PROVE Contains(r, t) \/ t = Head(s)
    <2>1. PICK k \in 1..Len(s) : s[k] = t
      BY <1>8 DEF Contains
    <2>2. CASE k = 1
      BY <1>3, <2>1, <2>2
    <2>3. CASE k # 1
      <3>1. k - 1 \in 1..Len(r) /\ r[k - 1] = t
        BY <1>1, <1>2, <2>1, <2>3
      <3> QED
        BY <3>1 DEF Contains
    <2> QED
      BY <2>2, <2>3
  <1>9. ASSUME NEW t, Contains(r, t) \/ t = Head(s) PROVE Contains(s, t)
    BY <1>1, <1>2, <1>3, <1>9 DEF Contains
  <1> QED
    BY <1>1, <1>7, <1>8, <1>9 DEF r

(***************************************************************************)
(* The invariant                                                           *)
(***************************************************************************)

USE MaxTasksAssumption

LEMMA InitInv == Init => IInv
  <1> SUFFICES ASSUME Init PROVE IInv
    OBVIOUS
  <1> USE DEF Init
  <1>1. /\ <<>> \in Seq(TaskIds) /\ <<>> \in Seq(Messages)
        /\ DOMAIN <<>> = {} /\ \A t : ~Contains(<<>>, t)
    BY EmptySeq DEF Contains
  <1>2. TypeOK
    <2>1. pending \in Seq(TaskIds) /\ inbox \in Seq(TaskIds) /\ events \in Seq(Messages)
      BY <1>1, Zenon
    <2>2. promise \in [TaskIds -> PromiseStates]
      BY DEF PromiseStates
    <2>3. /\ seq \in 0..MaxTasks /\ worker \in Nat /\ spawned \in Nat
          /\ running \in 0..MaxTasks
      BY DEF NoWorker, Idle
    <2> QED
      BY <2>1, <2>2, <2>3, Zenon DEF TypeOK
  <1>3. PendingIsWaiting
    BY <1>1 DEF PendingIsWaiting
  <1>4. EveryPendingIsOwed /\ WorkInOrder /\ DisposedIsQuiet
    BY <1>1 DEF EveryPendingIsOwed, WorkInOrder, Increasing, DisposedIsQuiet, Idle
  <1>5. Fresh
    BY <1>1 DEF Fresh, NoWorker, Idle
  <1> QED
    BY <1>2, <1>3, <1>4, <1>5 DEF IInv

\* What a client without a worker or a pending task makes of the invariant.
LEMMA QuietInv ==
    ASSUME IInv, pending' = <<>>, TerminateWorker, seq' = seq, disposed' \in BOOLEAN,
           NEW reason \in PromiseStates \ {"none", "waiting"}, RejectAll(reason),
           events' \in Seq(Messages),
           \A i \in DOMAIN events' : \E j \in DOMAIN events : events'[i] = events[j]
    PROVE  IInv'
  <1> USE DEF IInv, TerminateWorker, NoWorker, Idle
  <1>1. TypeOK'
    <2>1. <<>> \in Seq(TaskIds)
      BY EmptySeq
    <2>2. promise' \in [TaskIds -> PromiseStates]
      BY DEF TypeOK, RejectAll
    <2>3. pending' \in Seq(TaskIds) /\ inbox' \in Seq(TaskIds)
      BY <2>1, Zenon
    <2>4. /\ seq' \in 0..MaxTasks /\ worker' \in Nat /\ spawned' \in Nat
          /\ running' \in 0..MaxTasks
      BY DEF TypeOK
    <2> QED
      BY <2>2, <2>3, <2>4, Zenon DEF TypeOK
  <1>2. PendingIsWaiting'
    <2>1. \A t : ~Contains(pending', t)
      BY DEF Contains
    <2>2. ASSUME NEW t \in TaskIds PROVE promise'[t] # "waiting"
      <3>1. promise'[t] = IF Contains(pending, t) THEN reason ELSE promise[t]
        BY DEF RejectAll
      <3>2. reason # "waiting"
        OBVIOUS
      <3> QED
        BY <3>1, <3>2 DEF PendingIsWaiting
    <2> QED
      BY <2>1, <2>2 DEF PendingIsWaiting
  <1>3. \A i \in DOMAIN events' : events'[i].from # worker'
    BY DEF Fresh, TypeOK
  <1>4. EveryPendingIsOwed'
    BY DEF EveryPendingIsOwed, Contains
  <1>5. WorkInOrder'
    BY <1>3 DEF WorkInOrder, Increasing
  <1>6. DisposedIsQuiet'
    BY DEF DisposedIsQuiet
  <1>7. Fresh'
    <2>1. \A t \in TaskIds : t > seq => promise'[t] = "none"
      BY DEF Fresh, PendingIsWaiting, RejectAll
    <2> QED
      BY <2>1 DEF Fresh, TypeOK
  <1> QED
    BY <1>1, <1>2, <1>4, <1>5, <1>6, <1>7

LEMMA CancelAllInv == IInv /\ CancelAll => IInv'
  BY QuietInv DEF IInv, CancelAll, TypeOK, PromiseStates

LEMMA DisposeInv == IInv /\ Dispose => IInv'
  BY QuietInv DEF IInv, Dispose, TypeOK, PromiseStates

LEMMA Elements ==
    ASSUME TypeOK
    PROVE  /\ \A i \in DOMAIN events : /\ events[i].from \in Nat
                                      /\ events[i].id \in 0..MaxTasks
                                      /\ events[i].kind \in Kinds
           /\ \A i \in DOMAIN inbox : inbox[i] \in TaskIds
           /\ \A i \in DOMAIN pending : pending[i] \in TaskIds
  <1>1. \A i \in DOMAIN events : events[i] \in Messages
    BY ElementOfSeq, LenProperties DEF TypeOK
  <1> QED
    BY <1>1, ElementOfSeq, LenProperties DEF TypeOK, Messages

LEMMA ComputeInv == IInv /\ Compute => IInv'
  <1> SUFFICES ASSUME IInv, Compute PROVE IInv'
    OBVIOUS
  <1> USE DEF IInv
  <1> DEFINE new == seq + 1
  <1>1. new \in TaskIds /\ seq' = new /\ disposed' = disposed /\ events' = events
    BY DEF Compute, TypeOK, TaskIds
  <1>2. promise[new] = "none" /\ ~Contains(pending, new)
    BY <1>1 DEF Fresh, PendingIsWaiting, TypeOK
  <1>3. \A t \in TaskIds : Contains(pending, t) => t < new
    BY SMTT(30) DEF Fresh, PendingIsWaiting, TypeOK, TaskIds
  <1>4. \A i \in DOMAIN pending : pending[i] < new
    <2>1. \A i \in DOMAIN pending : pending[i] \in TaskIds /\ i \in 1..Len(pending)
      BY DEF TypeOK
    <2> QED
      BY <2>1, <1>3 DEF Contains
  <1>5. \A i \in DOMAIN inbox : inbox[i] < new
    BY DEF Fresh, TypeOK, TaskIds
  <1>6. CASE disposed
    <2>1. /\ promise' = [promise EXCEPT ![new] = "cancelled"]
          /\ UNCHANGED <<pending, worker, workerVars>>
      BY <1>1, <1>6 DEF Compute
    <2> USE <2>1 DEF workerVars
    <2>2. TypeOK'
      BY <1>1 DEF TypeOK, PromiseStates, TaskIds
    <2>3. PendingIsWaiting'
      BY <1>1, <1>2 DEF PendingIsWaiting, TypeOK
    <2>4. EveryPendingIsOwed' /\ WorkInOrder' /\ DisposedIsQuiet'
      BY <1>1 DEF EveryPendingIsOwed, WorkInOrder, DisposedIsQuiet, AnswerInFlight, ErrorInFlight
    <2>5. Fresh'
      BY <1>1, Elements DEF Fresh, TypeOK, TaskIds
    <2> QED
      BY <2>2, <2>3, <2>4, <2>5
  <1>7. CASE ~disposed
    <2>1. /\ promise' = [promise EXCEPT ![new] = "waiting"]
          /\ pending' = Append(pending, new)
          /\ IF worker = NoWorker
               THEN SpawnWith(<<new>>)
               ELSE inbox' = Append(inbox, new) /\ UNCHANGED <<worker, spawned, running, crashed>>
      BY <1>1, <1>7 DEF Compute
    <2>2. /\ pending' \in Seq(TaskIds)
          /\ Increasing(pending')
          /\ \A t : Contains(pending', t) <=> Contains(pending, t) \/ t = new
      BY <1>1, <1>4, <2>1, AppendIncreasing DEF TypeOK, WorkInOrder
    <2>3. promise' \in [TaskIds -> PromiseStates]
      BY <1>1, <2>1 DEF TypeOK, PromiseStates
    <2>4. PendingIsWaiting'
      BY <1>1, <2>1, <2>2 DEF PendingIsWaiting, TypeOK
    <2>5. DisposedIsQuiet'
      BY <1>1, <1>7 DEF DisposedIsQuiet
    <2>6. \A t \in TaskIds : t > seq' => promise'[t] = "none"
      BY <1>1, <2>1 DEF Fresh, TypeOK, TaskIds
    <2>7. CASE worker = NoWorker
      <3>1. /\ spawned' = spawned + 1 /\ worker' = spawned + 1 /\ inbox' = <<new>>
            /\ running' = Idle /\ crashed' = FALSE
        BY <2>1, <2>7 DEF SpawnWith
      <3>2. pending = <<>> /\ Len(pending) = 0
        <4>1. \A t \in TaskIds : ~Contains(pending, t)
          BY <2>7 DEF EveryPendingIsOwed
        <4>2. \A i \in 1..Len(pending) : pending[i] \in TaskIds
          BY ElementOfSeq DEF TypeOK
        <4>3. Len(pending) = 0
          BY <4>1, <4>2, LenProperties DEF Contains, TypeOK
        <4> QED
          BY <4>3, EmptySeq DEF TypeOK
      <3>3. /\ inbox' \in Seq(TaskIds)
            /\ Len(inbox') = 1 /\ inbox'[1] = new /\ DOMAIN inbox' = {1}
        BY <1>1, <3>1
      <3>4. \A i \in DOMAIN events' : events'[i].from # worker'
        BY <1>1, <3>1 DEF Fresh, TypeOK
      <3>5. TypeOK'
        <4>1. seq' \in 0..MaxTasks /\ worker' \in Nat /\ spawned' \in Nat /\ running' \in 0..MaxTasks
          BY <1>1, <3>1 DEF TypeOK, TaskIds, Idle
        <4>2. disposed' \in BOOLEAN /\ crashed' \in BOOLEAN /\ events' \in Seq(Messages)
          BY <1>1, <3>1, Zenon DEF TypeOK
        <4> QED
          BY <2>2, <2>3, <3>3, <4>1, <4>2, Zenon DEF TypeOK
      <3>6. EveryPendingIsOwed'
        <4>1. ASSUME NEW t \in TaskIds, Contains(pending', t)
              PROVE  worker' # NoWorker /\ Contains(inbox', t)
          <5>1. t = new
            <6>1. ~Contains(pending, t)
              BY <3>2 DEF Contains
            <6> QED
              BY <2>2, <4>1, <6>1
          <5> QED
            BY <3>1, <3>3, <5>1 DEF Contains, TypeOK, NoWorker
        <4> QED
          BY <3>1, <4>1 DEF EveryPendingIsOwed
      <3>7. WorkInOrder'
        BY <1>1, <2>2, <3>1, <3>3, <3>4 DEF WorkInOrder, Increasing, AnswerInFlight, Idle, TaskIds
      <3>8. Fresh'
        <4>1. \A i \in DOMAIN events' : events'[i].from \in 1..spawned' /\ events'[i].id <= seq'
          BY <1>1, <3>1, Elements DEF Fresh, TypeOK
        <4>2. worker' # NoWorker
          BY <3>1 DEF TypeOK, NoWorker
        <4> QED
          BY <1>1, <2>6, <3>1, <3>3, <4>1, <4>2 DEF Fresh, TypeOK, Idle
      <3> QED
        BY <2>4, <2>5, <3>5, <3>6, <3>7, <3>8
    <2>8. CASE worker # NoWorker
      <3>1. inbox' = Append(inbox, new) /\ UNCHANGED <<worker, spawned, running, crashed>>
        BY <2>1, <2>8
      <3>2. /\ inbox' \in Seq(TaskIds)
            /\ Increasing(inbox')
            /\ \A t : Contains(inbox', t) <=> Contains(inbox, t) \/ t = new
        BY <1>1, <1>5, <3>1, AppendIncreasing DEF TypeOK, WorkInOrder
      <3>3. \A i \in DOMAIN inbox' : inbox'[i] = new \/ \E j \in DOMAIN inbox : inbox'[i] = inbox[j]
        <4>1. \A i \in DOMAIN inbox' : Contains(inbox', inbox'[i])
          BY <3>2, LenProperties DEF Contains
        <4>2. DOMAIN inbox = 1..Len(inbox)
          BY LenProperties DEF TypeOK
        <4> QED
          BY <3>2, <4>1, <4>2 DEF Contains
      <3>4. TypeOK'
        <4>1. seq' \in 0..MaxTasks
          BY <1>1 DEF TaskIds
        <4> QED
          BY <1>1, <2>2, <2>3, <3>1, <3>2, <4>1, Zenon DEF TypeOK
      <3>5. EveryPendingIsOwed'
        BY <1>1, <2>2, <2>8, <3>1, <3>2 DEF EveryPendingIsOwed, AnswerInFlight, ErrorInFlight
      <3>6. \A t \in TaskIds : AnswerInFlight(t) => t < new
        BY DEF AnswerInFlight, Fresh, TypeOK, TaskIds
      <3>7. \A t \in TaskIds : AnswerInFlight(t)' <=> AnswerInFlight(t)
        BY <1>1, <3>1 DEF AnswerInFlight
      <3>8. WorkInOrder'
        <4>1. ASSUME NEW i \in DOMAIN inbox'
              PROVE  running' < inbox'[i] /\ \A t \in TaskIds : AnswerInFlight(t)' => t < inbox'[i]
          <5>1. CASE inbox'[i] = new
            BY <3>1, <3>6, <3>7, <5>1 DEF Fresh, TypeOK
          <5>2. CASE inbox'[i] # new
            BY <3>1, <3>3, <3>7, <5>2 DEF WorkInOrder
          <5> QED
            BY <5>1, <5>2
        <4>2. running' # Idle => \A t \in TaskIds : AnswerInFlight(t)' => t < running'
          BY <3>1, <3>7 DEF WorkInOrder
        <4> QED
          BY <1>1, <2>2, <3>1, <3>2, <4>1, <4>2 DEF WorkInOrder
      <3>9. Fresh'
        <4>1. ASSUME NEW i \in DOMAIN inbox' PROVE inbox'[i] <= seq'
          <5>1. CASE inbox'[i] = new
            BY <1>1, <5>1 DEF TypeOK
          <5>2. CASE inbox'[i] # new
            <6>1. PICK j \in DOMAIN inbox : inbox'[i] = inbox[j]
              BY <3>3, <5>2
            <6>2. inbox[j] <= seq /\ inbox[j] \in TaskIds
              BY Elements DEF Fresh
            <6> QED
              BY <1>1, <6>1, <6>2 DEF TypeOK, TaskIds
          <5> QED
            BY <5>1, <5>2
        <4>2. \A i \in DOMAIN events' : events'[i].from \in 1..spawned' /\ events'[i].id <= seq'
          BY <1>1, <3>1, Elements DEF Fresh, TypeOK
        <4> QED
          BY <1>1, <2>6, <2>8, <3>1, <4>1, <4>2 DEF Fresh, TypeOK
      <3> QED
        BY <2>4, <2>5, <3>4, <3>5, <3>8, <3>9
    <2> QED
      BY <2>7, <2>8
  <1> QED
    BY <1>6, <1>7

\* A terminated or replaced worker has no message of its own left to deliver.
LEMMA SpawnIsFresh ==
    ASSUME IInv, worker' \in {NoWorker, spawned + 1}, events' = events
    PROVE  \A i \in DOMAIN events' : events'[i].from # worker'
  BY Elements DEF IInv, Fresh, TypeOK, NoWorker

LEMMA CancelInv ==
    ASSUME IInv, NEW i \in DOMAIN pending, Cancel(i)
    PROVE  IInv'
  <1> USE DEF IInv
  <1> DEFINE t0 == pending[i]
  <1>1. /\ pending' = RemoveAt(pending, i)
        /\ promise' = [promise EXCEPT ![t0] = "cancelled"]
        /\ seq' = seq /\ disposed' = disposed /\ events' = events
    BY DEF Cancel
  <1>2. i \in 1..Len(pending) /\ t0 \in TaskIds
    BY Elements, LenProperties DEF TypeOK
  <1>3. /\ pending' \in Seq(TaskIds)
        /\ Increasing(pending')
        /\ \A t : Contains(pending', t) <=> Contains(pending, t) /\ t # t0
    BY <1>1, <1>2, RemoveAtIncreasing DEF TypeOK, WorkInOrder
  <1>4. Contains(pending, t0)
    BY <1>2 DEF Contains
  <1>5. worker # NoWorker /\ ~disposed
    <2>1. pending # <<>>
      BY <1>2, EmptySeq
    <2> QED
      BY <1>2, <1>4, <2>1 DEF EveryPendingIsOwed, DisposedIsQuiet
  <1>6. promise' \in [TaskIds -> PromiseStates]
    BY <1>1, <1>2 DEF TypeOK, PromiseStates
  <1>7. PendingIsWaiting'
    BY <1>1, <1>2, <1>3 DEF PendingIsWaiting, TypeOK
  <1>8. \A t \in TaskIds : t > seq' => promise'[t] = "none"
    BY <1>1, <1>2, <1>4 DEF Fresh, PendingIsWaiting, TypeOK
  <1>9. DisposedIsQuiet'
    BY <1>1, <1>5 DEF DisposedIsQuiet
  <1>10. CASE ~(i = 1)
    <2>1. UNCHANGED <<worker, spawned, inbox, running, crashed>>
      BY <1>10 DEF Cancel, workerVars
    <2>2. TypeOK'
      BY <1>1, <1>3, <1>6, <2>1, Zenon DEF TypeOK
    <2>3. EveryPendingIsOwed' /\ WorkInOrder'
      BY <1>1, <1>3, <2>1 DEF EveryPendingIsOwed, WorkInOrder, AnswerInFlight, ErrorInFlight
    <2>4. Fresh'
      BY <1>1, <1>8, <2>1 DEF Fresh
    <2> QED
      BY <1>7, <1>9, <2>2, <2>3, <2>4
  <1>11. CASE i = 1 /\ pending' = <<>>
    <2>1. /\ worker' = NoWorker /\ inbox' = <<>> /\ running' = Idle /\ crashed' = FALSE
          /\ spawned' = spawned
      BY <1>5, <1>11 DEF Cancel, TerminateWorker
    <2>2. TypeOK'
      <3>1. inbox' \in Seq(TaskIds) /\ worker' \in Nat /\ running' \in 0..MaxTasks
        BY <2>1, EmptySeq DEF NoWorker, Idle
      <3> QED
        BY <1>1, <1>3, <1>6, <2>1, <3>1, Zenon DEF TypeOK
    <2>3. \A k \in DOMAIN events' : events'[k].from # worker'
      BY <1>1, <2>1, SpawnIsFresh
    <2>4. \A t : ~Contains(pending', t)
      BY <1>11 DEF Contains
    <2>5. EveryPendingIsOwed'
      BY <2>1, <2>4 DEF EveryPendingIsOwed
    <2>6. WorkInOrder'
      BY <1>3, <2>1, <2>3 DEF WorkInOrder, Increasing
    <2>7. Fresh'
      BY <1>1, <1>8, <2>1, Elements DEF Fresh, TypeOK, NoWorker, Idle
    <2> QED
      BY <1>7, <1>9, <2>2, <2>5, <2>6, <2>7
  <1>12. CASE i = 1 /\ pending' # <<>>
    <2>1. /\ worker' = spawned + 1 /\ inbox' = pending' /\ running' = Idle /\ crashed' = FALSE
          /\ spawned' = spawned + 1
      BY <1>5, <1>12 DEF Cancel, SpawnWith
    <2>2. TypeOK'
      <3>1. inbox' \in Seq(TaskIds) /\ worker' \in Nat /\ running' \in 0..MaxTasks /\ spawned' \in Nat
        BY <1>3, <2>1 DEF NoWorker, Idle, TypeOK
      <3> QED
        BY <1>1, <1>3, <1>6, <2>1, <3>1, Zenon DEF TypeOK
    <2>3. \A k \in DOMAIN events' : events'[k].from # worker'
      BY <1>1, <2>1, SpawnIsFresh
    <2>4. EveryPendingIsOwed'
      BY <1>3, <2>1 DEF EveryPendingIsOwed, NoWorker, TypeOK
    <2>5. \A k \in DOMAIN inbox' : inbox'[k] \in TaskIds /\ Contains(pending, inbox'[k])
      <3>1. \A k \in DOMAIN inbox' : inbox'[k] \in TaskIds /\ Contains(pending', inbox'[k])
        BY <1>3, <2>1, ElementOfSeq, LenProperties DEF Contains
      <3> QED
        BY <1>3, <3>1
    <2>6. WorkInOrder'
      BY <1>3, <2>1, <2>3, <2>5 DEF WorkInOrder, AnswerInFlight, Idle, TaskIds
    <2>7. Fresh'
      <3>0. ASSUME NEW t \in TaskIds, Contains(pending, t) PROVE t <= seq
        <4>1. promise[t] = "waiting"
          BY <3>0 DEF PendingIsWaiting
        <4>2. t \in Nat /\ seq \in Nat /\ ~(t > seq)
          BY <4>1 DEF Fresh, TypeOK, TaskIds
        <4> QED
          BY <4>2
      <3>1. \A k \in DOMAIN inbox' : inbox'[k] <= seq'
        <4> HIDE DEF IInv
        <4> QED
          BY <1>1, <2>5, <3>0
      <3>2. \A k \in DOMAIN events' : events'[k].from \in 1..spawned' /\ events'[k].id <= seq'
        BY <1>1, <2>1, Elements DEF Fresh, TypeOK
      <3> QED
        BY <1>1, <1>8, <2>1, <3>1, <3>2 DEF Fresh, TypeOK, NoWorker, Idle
    <2> QED
      BY <1>7, <1>9, <2>2, <2>4, <2>6, <2>7
  <1> QED
    BY <1>10, <1>11, <1>12

LEMMA DeliverInv == IInv /\ Deliver => IInv'
  <1> SUFFICES ASSUME IInv, Deliver PROVE IInv'
    OBVIOUS
  <1> USE DEF IInv
  <1> DEFINE msg == Head(events)
  <1>1. events # <<>> /\ events' = Tail(events) /\ seq' = seq /\ disposed' = disposed
    BY DEF Deliver
  <1>2. /\ events' \in Seq(Messages)
        /\ msg = events[1] /\ 1 \in DOMAIN events
        /\ \A i \in DOMAIN events' : i \in Nat /\ i + 1 \in DOMAIN events /\ events'[i] = events[i + 1]
        /\ \A i \in DOMAIN events : i = 1 \/ (i - 1 \in DOMAIN events' /\ events'[i - 1] = events[i])
    BY <1>1, HeadTailProperties, LenProperties, EmptySeq DEF TypeOK
  <1>3. msg.id \in 0..MaxTasks /\ msg.from \in Nat /\ msg.kind \in Kinds
    BY <1>2, Elements
  <1>4. CASE msg.from = worker /\ OnError(msg)
    <2>1. pending' = <<>> /\ RejectAll("failed") /\ TerminateWorker
      BY <1>4 DEF OnError
    <2> QED
      BY <1>1, <1>2, <2>1, QuietInv DEF TypeOK, PromiseStates
  <1>5. ASSUME UNCHANGED <<worker, workerVars>>
        PROVE  /\ UNCHANGED <<worker, spawned, inbox, running, crashed>>
               /\ \A t : AnswerInFlight(t)' => AnswerInFlight(t)
               /\ \A t : AnswerInFlight(t) => AnswerInFlight(t)' \/ (msg.from = worker /\ t = msg.id)
               /\ ErrorInFlight /\ (msg.from = worker => msg.kind # "scriptError") => ErrorInFlight'
    BY <1>2, <1>5 DEF AnswerInFlight, ErrorInFlight, workerVars
  <1>6. ASSUME UNCHANGED <<worker, workerVars>>, Increasing(pending'),
               \A t \in TaskIds : t > seq => promise'[t] = "none"
        PROVE  WorkInOrder' /\ Fresh'
    <2>1. \A i, j \in DOMAIN events' :
             (i < j /\ events'[i].from = worker' /\ events'[j].from = worker'
                /\ events'[i].kind # "scriptError" /\ events'[j].kind # "scriptError")
             => events'[i].id < events'[j].id
      <3> SUFFICES ASSUME NEW i \in DOMAIN events', NEW j \in DOMAIN events', i < j,
                          events'[i].from = worker, events'[j].from = worker,
                          events'[i].kind # "scriptError", events'[j].kind # "scriptError"
                   PROVE  events'[i].id < events'[j].id
        BY <1>5, <1>6
      <3>1. /\ i + 1 \in DOMAIN events /\ j + 1 \in DOMAIN events /\ i + 1 < j + 1
            /\ events'[i] = events[i + 1] /\ events'[j] = events[j + 1]
        BY <1>2
      <3> QED
        BY <3>1 DEF WorkInOrder
    <2>2. WorkInOrder'
      BY <1>5, <1>6, <2>1 DEF WorkInOrder
    <2>3. Fresh'
      BY <1>1, <1>2, <1>5, <1>6 DEF Fresh
    <2> QED
      BY <2>2, <2>3
  <1>7. CASE UNCHANGED <<pending, promise, worker, workerVars>>
             /\ (msg.from = worker => ~Contains(pending, msg.id) /\ msg.kind # "scriptError")
    <2>1. TypeOK'
      BY <1>1, <1>2, <1>5, <1>7, Zenon DEF TypeOK
    <2>2. PendingIsWaiting' /\ DisposedIsQuiet'
      BY <1>1, <1>7 DEF PendingIsWaiting, DisposedIsQuiet
    <2>3. EveryPendingIsOwed'
      BY <1>5, <1>7 DEF EveryPendingIsOwed
    <2>4. WorkInOrder' /\ Fresh'
      BY <1>6, <1>7 DEF WorkInOrder, Fresh
    <2> QED
      BY <2>1, <2>2, <2>3, <2>4
  <1>8. CASE msg.from = worker /\ OnMessage(msg) /\ Contains(pending, msg.id)
    <2>1. PICK i \in DOMAIN pending :
            /\ pending[i] = msg.id
            /\ pending' = RemoveAt(pending, i)
            /\ promise' = [promise EXCEPT ![msg.id] =
                             IF msg.kind = "result" THEN "resolved" ELSE "failed"]
      BY <1>8, Zenon DEF OnMessage
    <2>2. UNCHANGED <<worker, workerVars>> /\ msg.kind # "scriptError"
      BY <1>8 DEF OnMessage
    <2>3. i \in 1..Len(pending) /\ msg.id \in TaskIds
      BY <2>1, Elements, LenProperties DEF TypeOK
    <2>4. /\ pending' \in Seq(TaskIds)
          /\ Increasing(pending')
          /\ \A t : Contains(pending', t) <=> Contains(pending, t) /\ t # msg.id
      BY <2>1, <2>3, RemoveAtIncreasing DEF TypeOK, WorkInOrder
    <2>5. promise' \in [TaskIds -> PromiseStates]
      BY <2>1, <2>3 DEF TypeOK, PromiseStates
    <2>6. TypeOK'
      BY <1>1, <1>2, <1>5, <2>2, <2>4, <2>5, Zenon DEF TypeOK
    <2>7. PendingIsWaiting'
      BY <2>1, <2>3, <2>4 DEF PendingIsWaiting, TypeOK
    <2>8. EveryPendingIsOwed'
      BY <1>5, <2>2, <2>4 DEF EveryPendingIsOwed
    <2>9. \A t \in TaskIds : t > seq => promise'[t] = "none"
      BY <1>8, <2>1, <2>3 DEF Fresh, PendingIsWaiting, TypeOK
    <2>10. WorkInOrder' /\ Fresh'
      BY <1>6, <2>2, <2>4, <2>9
    <2>11. pending # <<>>
      BY <2>3, EmptySeq
    <2>12. DisposedIsQuiet'
      BY <1>1, <2>11 DEF DisposedIsQuiet
    <2> QED
      BY <2>6, <2>7, <2>8, <2>10, <2>12
  <1> QED
    BY <1>4, <1>7, <1>8 DEF Deliver, OnMessage

LEMMA WorkerBeginInv == IInv /\ WorkerBegin => IInv'
  <1> SUFFICES ASSUME IInv, WorkerBegin PROVE IInv'
    OBVIOUS
  <1> USE DEF IInv
  <1>1. /\ worker # NoWorker /\ running = Idle /\ inbox # <<>>
        /\ running' = Head(inbox) /\ inbox' = Tail(inbox)
        /\ UNCHANGED <<seq, disposed, pending, worker, spawned, crashed, events, promise>>
    BY DEF WorkerBegin, clientVars
  <1>2. /\ running' \in TaskIds
        /\ inbox' \in Seq(TaskIds)
        /\ Increasing(inbox')
        /\ \A i \in DOMAIN inbox' : running' < inbox'[i] /\ i + 1 \in DOMAIN inbox /\ inbox'[i] = inbox[i + 1]
        /\ \A t : Contains(inbox, t) <=> Contains(inbox', t) \/ t = running'
    BY <1>1, TailIncreasing DEF TypeOK, WorkInOrder
  <1>3. 1 \in DOMAIN inbox /\ running' = inbox[1]
    BY <1>1, LenProperties, EmptySeq, HeadTailProperties DEF TypeOK
  <1>4. /\ \A t : AnswerInFlight(t)' <=> AnswerInFlight(t)
        /\ ErrorInFlight' <=> ErrorInFlight
    BY <1>1 DEF AnswerInFlight, ErrorInFlight
  <1>5. TypeOK'
    <2>1. running' \in 0..MaxTasks
      BY <1>2 DEF TaskIds
    <2> QED
      BY <1>1, <1>2, <2>1, Zenon DEF TypeOK
  <1>6. PendingIsWaiting' /\ DisposedIsQuiet'
    BY <1>1 DEF PendingIsWaiting, DisposedIsQuiet
  <1>7. EveryPendingIsOwed'
    <2>1. \A t \in TaskIds : running # t
      BY <1>1 DEF TaskIds, Idle
    <2> QED
      BY <1>1, <1>2, <1>4, <2>1 DEF EveryPendingIsOwed
  <1>8. WorkInOrder'
    BY <1>1, <1>2, <1>3, <1>4 DEF WorkInOrder
  <1>9. Fresh'
    BY <1>1, <1>2, <1>3 DEF Fresh
  <1> QED
    BY <1>5, <1>6, <1>7, <1>8, <1>9

\* A message posted by the current worker, at the end of those in flight.
LEMMA PostFacts ==
    ASSUME TypeOK, NEW msg \in Messages, msg.from = worker, worker' = worker,
           events' = Append(events, msg)
    PROVE  /\ events' \in Seq(Messages)
           /\ \A i \in DOMAIN events' : i \in DOMAIN events \/ i = Len(events) + 1
           /\ \A i \in DOMAIN events : i \in DOMAIN events' /\ i < Len(events) + 1 /\ events'[i] = events[i]
           /\ Len(events) + 1 \in DOMAIN events' /\ events'[Len(events) + 1] = msg
           /\ Len(events) \in Nat
           /\ \A t : AnswerInFlight(t)' <=>
                        AnswerInFlight(t) \/ (msg.kind # "scriptError" /\ t = msg.id)
           /\ ErrorInFlight' <=> ErrorInFlight \/ msg.kind = "scriptError"
  <1>1. /\ events' \in Seq(Messages)
        /\ Len(events') = Len(events) + 1
        /\ \A i \in 1..Len(events) : events'[i] = events[i]
        /\ events'[Len(events) + 1] = msg
        /\ Len(events) \in Nat
        /\ DOMAIN events = 1..Len(events)
        /\ DOMAIN events' = 1..Len(events')
    BY AppendProperties, LenProperties DEF TypeOK
  <1>2. /\ \A i \in DOMAIN events' : i \in DOMAIN events \/ i = Len(events) + 1
        /\ \A i \in DOMAIN events : i \in DOMAIN events' /\ i < Len(events) + 1 /\ events'[i] = events[i]
        /\ Len(events) + 1 \in DOMAIN events'
    BY <1>1
  <1> QED
    BY <1>1, <1>2, Zenon DEF AnswerInFlight, ErrorInFlight

LEMMA WorkerFinishInv == IInv /\ WorkerFinish => IInv'
  <1> SUFFICES ASSUME IInv, WorkerFinish PROVE IInv'
    OBVIOUS
  <1> USE DEF IInv
  <1>1. PICK kind \in {"result", "error"} :
          events' = Append(events, [from |-> worker, id |-> running, kind |-> kind])
    BY DEF WorkerFinish
  <1> DEFINE msg == [from |-> worker, id |-> running, kind |-> kind]
  <1>2. /\ running # Idle /\ running' = Idle /\ running \in TaskIds
        /\ UNCHANGED <<seq, disposed, pending, worker, spawned, inbox, crashed, promise>>
    BY DEF WorkerFinish, clientVars, TypeOK, TaskIds, Idle
  <1>3. msg \in Messages /\ msg.from = worker /\ msg.id = running /\ msg.kind # "scriptError"
    BY DEF Messages, Kinds, TypeOK
  <1> HIDE DEF msg
  <1>4. events' = Append(events, msg)
    BY <1>1 DEF msg
  <1>5. /\ events' \in Seq(Messages)
        /\ \A i \in DOMAIN events' : i \in DOMAIN events \/ i = Len(events) + 1
        /\ \A i \in DOMAIN events : i \in DOMAIN events' /\ i < Len(events) + 1 /\ events'[i] = events[i]
        /\ events'[Len(events) + 1] = msg /\ Len(events) \in Nat
        /\ \A t : AnswerInFlight(t)' <=> AnswerInFlight(t) \/ t = running
        /\ ErrorInFlight' <=> ErrorInFlight
    BY <1>2, <1>3, <1>4, PostFacts
  <1>6. TypeOK'
    <2>1. running' \in 0..MaxTasks
      BY <1>2 DEF Idle
    <2> QED
      BY <1>2, <1>5, <2>1, Zenon DEF TypeOK
  <1>7. PendingIsWaiting' /\ DisposedIsQuiet'
    BY <1>2 DEF PendingIsWaiting, DisposedIsQuiet
  <1>8. EveryPendingIsOwed'
    BY <1>2, <1>5 DEF EveryPendingIsOwed
  <1>9. \A i \in DOMAIN events :
           events[i].from = worker /\ events[i].kind # "scriptError" => events[i].id < running
    <2>1. \A i \in DOMAIN events : events[i].kind # "scriptError" => events[i].id \in TaskIds
      BY Elements DEF Fresh, TaskIds, Idle
    <2> QED
      BY <1>2, <2>1 DEF WorkInOrder, AnswerInFlight
  <1>10. \A i, j \in DOMAIN events' :
           (i < j /\ events'[i].from = worker' /\ events'[j].from = worker'
              /\ events'[i].kind # "scriptError" /\ events'[j].kind # "scriptError")
           => events'[i].id < events'[j].id
    <2> SUFFICES ASSUME NEW i \in DOMAIN events', NEW j \in DOMAIN events', i < j,
                        events'[i].from = worker, events'[j].from = worker,
                        events'[i].kind # "scriptError", events'[j].kind # "scriptError"
                 PROVE  events'[i].id < events'[j].id
      BY <1>2
    <2>1. i \in DOMAIN events
      BY <1>5
    <2>2. CASE j \in DOMAIN events
      BY <1>5, <2>1, <2>2 DEF WorkInOrder
    <2>3. CASE j = Len(events) + 1
      BY <1>3, <1>5, <1>9, <2>1, <2>3
    <2> QED
      BY <1>5, <2>2, <2>3
  <1>11. WorkInOrder'
    <2>1. ASSUME NEW i \in DOMAIN inbox'
          PROVE  running' < inbox'[i] /\ \A t \in TaskIds : AnswerInFlight(t)' => t < inbox'[i]
      BY <1>2, <1>5, Elements DEF WorkInOrder, Idle, TaskIds
    <2> QED
      BY <1>2, <1>10, <2>1 DEF WorkInOrder
  <1>12. Fresh'
    <2>1. worker \in 1..spawned /\ running <= seq
      BY <1>2 DEF Fresh, TypeOK, NoWorker
    <2>2. ASSUME NEW i \in DOMAIN events'
          PROVE  /\ events'[i].from \in 1..spawned /\ events'[i].id <= seq
                 /\ events'[i].kind # "scriptError" => events'[i].id # Idle
      <3>1. CASE i \in DOMAIN events
        BY <1>5, <3>1 DEF Fresh
      <3>2. CASE i = Len(events) + 1
        BY <1>2, <1>3, <1>5, <2>1, <3>2
      <3> QED
        BY <1>5, <3>1, <3>2
    <2>3. running' <= seq' /\ worker' # NoWorker
      BY <1>2 DEF Fresh, TypeOK, NoWorker, Idle
    <2> QED
      BY <1>2, <2>2, <2>3 DEF Fresh
  <1> QED
    BY <1>6, <1>7, <1>8, <1>11, <1>12

LEMMA WorkerCrashInv == IInv /\ WorkerCrash => IInv'
  <1> SUFFICES ASSUME IInv, WorkerCrash PROVE IInv'
    OBVIOUS
  <1> USE DEF IInv
  <1> DEFINE msg == [from |-> worker, id |-> Idle, kind |-> "scriptError"]
  <1>1. /\ worker # NoWorker /\ crashed' = TRUE /\ events' = Append(events, msg)
        /\ UNCHANGED <<seq, disposed, pending, worker, spawned, inbox, running, promise>>
    BY DEF WorkerCrash, clientVars
  <1>2. msg \in Messages /\ msg.from = worker /\ msg.id = Idle /\ msg.kind = "scriptError"
    BY DEF Messages, Kinds, TypeOK, Idle
  <1> HIDE DEF msg
  <1>3. /\ events' \in Seq(Messages)
        /\ \A i \in DOMAIN events' : i \in DOMAIN events \/ i = Len(events) + 1
        /\ \A i \in DOMAIN events : i \in DOMAIN events' /\ i < Len(events) + 1 /\ events'[i] = events[i]
        /\ events'[Len(events) + 1] = msg
        /\ \A t : AnswerInFlight(t)' <=> AnswerInFlight(t)
        /\ ErrorInFlight'
    BY <1>1, <1>2, PostFacts
  <1>4. TypeOK'
    BY <1>1, <1>3, Zenon DEF TypeOK
  <1>5. PendingIsWaiting' /\ DisposedIsQuiet'
    BY <1>1 DEF PendingIsWaiting, DisposedIsQuiet
  <1>6. EveryPendingIsOwed'
    BY <1>1, <1>3 DEF EveryPendingIsOwed
  <1>7. WorkInOrder'
    <2>1. \A i, j \in DOMAIN events' :
            (i < j /\ events'[i].from = worker' /\ events'[j].from = worker'
               /\ events'[i].kind # "scriptError" /\ events'[j].kind # "scriptError")
            => events'[i].id < events'[j].id
      BY <1>1, <1>2, <1>3 DEF WorkInOrder
    <2> QED
      BY <1>1, <1>3, <2>1 DEF WorkInOrder
  <1>8. Fresh'
    <2>1. worker \in 1..spawned /\ Idle <= seq
      BY <1>1 DEF Fresh, TypeOK, NoWorker, Idle
    <2>2. ASSUME NEW i \in DOMAIN events'
          PROVE  /\ events'[i].from \in 1..spawned /\ events'[i].id <= seq
                 /\ events'[i].kind # "scriptError" => events'[i].id # Idle
      <3>1. CASE i \in DOMAIN events
        BY <1>3, <3>1 DEF Fresh
      <3>2. CASE i = Len(events) + 1
        BY <1>2, <1>3, <2>1, <3>2
      <3> QED
        BY <1>3, <3>1, <3>2
    <2>3. \A i \in DOMAIN events' : events'[i].from \in 1..spawned' /\ events'[i].id <= seq'
      BY <1>1, <2>2
    <2>4. \A i \in DOMAIN events' : events'[i].kind # "scriptError" => events'[i].id # Idle
      BY <2>2
    <2>5. worker' # NoWorker
      BY <1>1
    <2>6. /\ \A t \in TaskIds : t > seq' => promise'[t] = "none"
          /\ \A i \in DOMAIN inbox' : inbox'[i] <= seq'
          /\ running' <= seq' /\ worker' <= spawned'
      BY <1>1 DEF Fresh
    <2> QED
      BY <2>3, <2>4, <2>5, <2>6, Zenon DEF Fresh
  <1> QED
    BY <1>4, <1>5, <1>6, <1>7, <1>8

LEMMA StepInv == IInv /\ [Next]_vars => IInv'
  <1>1. IInv /\ UNCHANGED vars => IInv'
    BY DEF IInv, vars, clientVars, workerVars, TypeOK, PendingIsWaiting, EveryPendingIsOwed,
       WorkInOrder, DisposedIsQuiet, Fresh, AnswerInFlight, ErrorInFlight
  <1> QED
    BY <1>1, ComputeInv, CancelInv, CancelAllInv, DisposeInv, DeliverInv, WorkerBeginInv,
       WorkerFinishInv, WorkerCrashInv DEF Next

\* The inductive invariant holds of every behaviour of the client.
THEOREM ClientInvariant == SafetySpec => []IInv
  BY InitInv, StepInv, PTL DEF SafetySpec

\* The variables keep their types, for any number of tasks and of workers.
THEOREM TypeCorrect == SafetySpec => []TypeOK
  BY ClientInvariant, PTL DEF IInv

\* No promise is forgotten and none is settled twice: the client's pending
\* requests are at all times exactly the promises that wait.
THEOREM PromisesKept == SafetySpec => []PendingIsWaiting
  BY ClientInvariant, PTL DEF IInv

\* No promise is stuck: the current worker still has the request of every
\* waiting promise, or its answer is in flight; a failed worker's error is.
THEOREM PromisesOwed == SafetySpec => []EveryPendingIsOwed
  BY ClientInvariant, PTL DEF IInv

\* What the worker holds is in submission order across cancellations and reposts.
THEOREM WorkOrdered == SafetySpec => []WorkInOrder
  BY ClientInvariant, PTL DEF IInv

\* After dispose() nothing is ever left running.
THEOREM DisposeIsFinal == SafetySpec => []DisposedIsQuiet
  BY ClientInvariant, PTL DEF IInv

\* Together: no promise is forgotten, settled twice, stuck or revived.
THEOREM EveryPromiseIsKept == SafetySpec => []EveryPromiseKept
  <1>1. IInv => EveryPromiseKept
    BY DEF IInv, EveryPromiseKept
  <1> QED
    BY <1>1, ClientInvariant, PTL

(***************************************************************************)
(* The client implements TaskService                                       *)
(***************************************************************************)

\* Rejecting what is pending rejects what waits.
LEMMA RejectAllImplements ==
    ASSUME IInv, NEW reason, RejectAll(reason)
    PROVE  Service!Reject(reason)
  BY DEF IInv, PendingIsWaiting, RejectAll, Service!Reject, Service!Waiting, Service!TaskIds, TaskIds

\* Answers reach the owner in submission order: what else is pending is in hand
\* or in the inbox, behind the answer that is delivered.
LEMMA DeliverImplements ==
    ASSUME IInv, Deliver
    PROVE  Service!Progress \/ UNCHANGED <<seq, disposed, promise>>
  <1> USE DEF IInv
  <1> DEFINE msg == Head(events)
  <1>1. events # <<>> /\ seq' = seq /\ disposed' = disposed
    BY DEF Deliver
  <1>2. msg = events[1] /\ 1 \in DOMAIN events /\ \A i \in DOMAIN events : i = 1 \/ 1 < i
    BY <1>1, HeadTailProperties, LenProperties, EmptySeq DEF TypeOK
  <1>3. CASE msg.from = worker /\ OnError(msg)
    <2>1. RejectAll("failed")
      BY <1>3 DEF OnError
    <2> QED
      BY <1>1, <2>1, RejectAllImplements DEF Service!Progress, Service!EngineLost
  <1>4. CASE msg.from = worker /\ OnMessage(msg) /\ Contains(pending, msg.id)
    <2>1. PICK i \in DOMAIN pending :
            /\ pending[i] = msg.id
            /\ promise' = [promise EXCEPT ![msg.id] =
                             IF msg.kind = "result" THEN "resolved" ELSE "failed"]
      BY <1>4, Zenon DEF OnMessage
    <2>2. msg.kind # "scriptError" /\ msg.id \in TaskIds
      BY <1>4, <2>1, Elements DEF OnMessage
    <2>3. promise[msg.id] = "waiting"
      BY <1>4, <2>2 DEF PendingIsWaiting
    <2>4. AnswerInFlight(msg.id)
      BY <1>2, <1>4, <2>2 DEF AnswerInFlight
    <2>5. ASSUME NEW u \in TaskIds, promise[u] = "waiting"
          PROVE  msg.id <= u
      <3>1. Contains(inbox, u) \/ running = u \/ AnswerInFlight(u)
        BY <2>5 DEF PendingIsWaiting, EveryPendingIsOwed
      <3>2. CASE Contains(inbox, u)
        <4>1. PICK k \in DOMAIN inbox : inbox[k] = u
          BY <3>2, LenProperties DEF Contains, TypeOK
        <4> QED
          BY <2>2, <2>4, <4>1 DEF WorkInOrder, TaskIds
      <3>3. CASE running = u
        BY <2>2, <2>4, <3>3 DEF WorkInOrder, TaskIds, Idle
      <3>4. CASE AnswerInFlight(u)
        <4>1. PICK k \in DOMAIN events :
                events[k].from = worker /\ events[k].kind # "scriptError" /\ events[k].id = u
          BY <3>4 DEF AnswerInFlight
        <4>2. k = 1 \/ events[1].id < events[k].id
          BY <1>2, <1>4, <2>2, <4>1 DEF WorkInOrder
        <4> QED
          BY <1>2, <2>2, <4>1, <4>2 DEF TaskIds
      <3> QED
        BY <3>1, <3>2, <3>3, <3>4
    <2>6. \E answer \in {"resolved", "failed"} : promise' = [promise EXCEPT ![msg.id] = answer]
      BY <2>1
    <2>7. Service!Answer(msg.id)
      BY <1>1, <2>2, <2>3, <2>5, <2>6 DEF Service!Answer, Service!Waiting, Service!TaskIds, TaskIds
    <2> QED
      BY <2>2, <2>7 DEF Service!Progress, Service!TaskIds, TaskIds
  <1> QED
    BY <1>1, <1>3, <1>4 DEF Deliver, OnMessage

LEMMA StepImplements == IInv /\ [Next]_vars => [Service!Next]_(Service!taskVars)
  <1> SUFFICES ASSUME IInv, [Next]_vars PROVE Service!Next \/ UNCHANGED <<seq, disposed, promise>>
    BY DEF Service!taskVars
  <1>1. CASE Compute
    BY <1>1 DEF Compute, Service!Next, Service!Submit
  <1>2. ASSUME NEW i \in DOMAIN pending, Cancel(i) PROVE Service!Next
    <2>1. pending[i] \in TaskIds /\ Contains(pending, pending[i])
      BY Elements, LenProperties DEF IInv, TypeOK, Contains
    <2>2. promise[pending[i]] = "waiting"
      BY <2>1 DEF IInv, PendingIsWaiting
    <2>3. Service!Cancel(pending[i])
      BY <1>2, <2>1, <2>2 DEF Cancel, Service!Cancel, Service!Waiting, Service!TaskIds, TaskIds
    <2> QED
      BY <2>1, <2>3 DEF Service!Next, Service!TaskIds, TaskIds
  <1>3. CASE CancelAll
    <2>1. Service!CancelAll
      BY <1>3, RejectAllImplements DEF CancelAll, Service!CancelAll
    <2> QED
      BY <2>1 DEF Service!Next
  <1>4. CASE Dispose
    <2>1. Service!Dispose
      BY <1>4, RejectAllImplements DEF Dispose, Service!Dispose
    <2> QED
      BY <2>1 DEF Service!Next
  <1>5. CASE Deliver
    BY <1>5, DeliverImplements DEF Service!Next
  <1>6. CASE WorkerBegin \/ WorkerFinish \/ WorkerCrash \/ UNCHANGED vars
    BY <1>6 DEF WorkerBegin, WorkerFinish, WorkerCrash, vars, clientVars
  <1> QED
    BY <1>1, <1>2, <1>3, <1>4, <1>5, <1>6 DEF Next

\* Every step of the client and of its workers is a step of the abstract
\* service or leaves it alone: answers in submission order, each promise
\* settled once, a cancellation rejecting the promise it names and no other.
THEOREM ClientImplementsService == SafetySpec => Service!SafetySpec
  <1>1. Init => Service!Init
    BY DEF Init, Service!Init, Service!TaskIds, TaskIds
  <1> QED
    BY <1>1, ClientInvariant, StepImplements, PTL DEF SafetySpec, Service!SafetySpec

-----------------------------------------------------------------------------
(***************************************************************************)
(* The pages that keep figures                                             *)
(***************************************************************************)

(* The invariant *)

\* Figures that are of what their fingerprint says, wherever they are kept.
Genuine == {m \in Summaries : /\ m.figures = m.fingerprint /\ m.version = m.fingerprint[1]
                              /\ m.size = m.fingerprint[3].size}
Kept == [Volets -> Genuine \cup {None}]

Decks == [revision : Nat, plans : Plans]
Details == [revision : Nat, plans : Plans, rows : Kept]
Outcomes == {"stale", "unknown", "refused", "written", None}
SheetRecords ==
    [at : {"closed", "reading", "shown", "left"}, version : Nat, detail : Details \cup {None},
     library : Nat \cup {None}, stored : Kept, step : {"none", "next", "compute", "put", "answer"},
     todo : SUBSET Volets, plan : Volets \cup {None}, made : SUBSET Genuine, outcome : Outcomes,
     error : BOOLEAN]
Studies == [input : Inputs \cup {None}, done : BOOLEAN]
PutRequests == [volet : Volets, summary : Genuine, revision : Nat, late : BOOLEAN, outcome : Outcomes]
EditorRecords ==
    [at : {"closed", "open"}, version : Nat, revision : Nat, plans : Plans, library : Nat \cup {None},
     dirty : BOOLEAN, opponent : Opponents \cup {None}, studied : [Positions -> Studies],
     timer : BOOLEAN, stored : Kept, persisted : SUBSET (Volets \X Computations \X Nat),
     requests : SUBSET PutRequests]
Sided == [Positions -> Computations]
LoadRecords ==
    [at : {"unstarted", "reading", "computing", "over"}, of : Addresses \cup {None}, cancelled : BOOLEAN,
     version : Nat, details : [Sides -> Plans \cup {None}], library : Nat \cup {None},
     results : [Sides -> Sided \cup {None}]]
Screens == [is : {"loading", "ready", "error"}, of : Addresses \cup {None},
            results : [Sides -> Sided \cup {None}]]

\* A page that names the revision it read has its plans, as long as the revision stands.
Reads(revision, plans, saved) ==
    revision <= saved.revision /\ (revision = saved.revision => plans = saved.plans)

\* What a run of the sheet has left: the plans to come, and the one it computes; a plan is shown
\* before it is sent, and the server has no reason to refuse it.
Sent(p, v) ==
    /\ p.stored[v] \in Genuine
    /\ p.stored[v].fingerprint = Fingerprint(p.version, v[2], InputOn(p, v))
RunInOrder(p) ==
    /\ p.at \in {"shown", "left"}
    /\ \A v \in p.todo : InputOn(p, v) # None
    /\ p.step # "next" => p.plan \in Volets /\ InputOn(p, p.plan) # None
    /\ p.step \in {"put", "answer"} => Sent(p, p.plan)
    /\ Pending(p) \subseteq p.todo \cup (IF p.step = "compute" THEN {p.plan} ELSE {})
    /\ p.outcome # "refused"
    /\ p.outcome = "unknown" => p.detail.plans[p.plan] = Absent
LoadedInOrder(p, saved) ==
    /\ p \in SheetRecords
    /\ p.at \in {"shown", "left"} => p.detail \in Details /\ p.library \in Nat
    /\ p.at \in {"shown", "left"} \/ p.detail # None =>
          Reads(p.detail.revision, p.detail.plans, saved)
SheetInOrder(p, saved) ==
    /\ LoadedInOrder(p, saved)
    /\ p.step # "none" => RunInOrder(p)
    /\ p.step # "answer" => p.outcome = None

\* The deck an editor studies is that of its plans, but between an edit and the synchronisation.
EditedInput(ed, p) == Input(PlanOf(ed.plans, <<ed.opponent, p>>), ed.library)
RequestInOrder(r, saved) ==
    /\ r.revision <= saved.revision
    /\ ~r.late /\ r.revision = saved.revision =>
          Input(PlanOf(saved.plans, r.volet), r.summary.fingerprint[3].library) = r.summary.fingerprint[3]
OpenInOrder(ed, saved) ==
    /\ ed.at = "open" /\ ed.opponent \in Opponents /\ ed.library \in Nat
    /\ ed.revision <= saved.revision
    /\ ed.revision = saved.revision /\ ~ed.dirty => ed.plans = saved.plans
    /\ ~ed.timer => \A p \in Positions : ed.studied[p].input = EditedInput(ed, p)
    /\ \A r \in ed.requests : RequestInOrder(r, saved)
EditorInOrder(ed, saved) == ed \in EditorRecords /\ (ed = ClosedEditor \/ OpenInOrder(ed, saved))

\* A load that was not cancelled is that of the page's address.
LoadInOrder(l, at) ==
    /\ l \in LoadRecords
    /\ l.at \in {"reading", "computing"} => l.of \in Addresses /\ (~l.cancelled => l.of = at)
    /\ l.at = "reading" => \A i \in Sides : l.results[i] = None
    /\ l.at = "computing" =>
          /\ l.library # None
          /\ \A i \in Sides :
                /\ l.details[i] # None /\ SideInput(l, i) # None
                /\ l.results[i] # None =>
                      l.results[i] = [p \in Positions |-> Figures(l.version, p, SideInput(l, i))]

ServerTypes == deck \in Decks /\ library \in Nat /\ rows \in Kept /\ deployed \in Nat /\ gestures \in Nat
SheetsInOrder == sheet \in [Sheets -> SheetRecords] /\ \A s \in Sheets : SheetInOrder(sheet[s], deck)
ComparisonInOrder ==
    /\ address \in Addresses \cup {None} /\ load \in [Loads -> LoadRecords] /\ shown \in Screens
    /\ \A n \in Loads : LoadInOrder(load[n], address)
    /\ ComparisonIsOfItsAddress

PagesInv == ServerTypes /\ SheetsInOrder /\ EditorInOrder(editor, deck) /\ ComparisonInOrder

-----------------------------------------------------------------------------
(* From a plan to its figures *)

\* A ready plan gives the main deck back the cards it takes, and so does the server's count.
LEMMA InputFacts ==
    ASSUME NEW e \in Exchanges, NEW lib \in Nat
    PROVE  /\ Input(e, lib) \in Inputs \cup {None}
           /\ Input(e, lib) # None => /\ Ready(e) /\ Input(e, lib) \in Inputs
                                      /\ Input(e, lib).size = SizeAfter(e)
                                      /\ Input(e, lib).swap = e.swap /\ Input(e, lib).library = lib
           /\ Input(e, lib) = None => ~Ready(e)
<1>1. e.main.out \in Nat /\ e.main.in \in Nat /\ e.extra.out \in Nat /\ e.extra.in \in Nat /\ MainSize \in Nat
  BY PlanFiguresAssumption
<1> DEFINE input == [size |-> MainSize - e.main.out + e.main.in, swap |-> e.swap, library |-> lib]
<1>2. input \in Inputs /\ input # None
  BY <1>1, PlanFiguresAssumption DEF Inputs
<1>3. CASE Ready(e)
  <2>1. Input(e, lib) = input
    BY <1>3 DEF Input
  <2>2. input.size = SizeAfter(e)
    BY <1>1, <1>3 DEF Ready, SizeAfter
  <2> QED
    BY <1>2, <1>3, <2>1, <2>2
<1>4. CASE ~Ready(e)
  BY <1>4 DEF Input
<1> QED
  BY <1>3, <1>4

LEMMA PlanOfFacts ==
    ASSUME NEW plans \in Plans, NEW v \in Volets
    PROVE  PlanOf(plans, v) \in Exchanges /\ (plans[v] # Absent => PlanOf(plans, v) = plans[v])
  BY PlanFiguresAssumption DEF Plans, PlanOf

LEMMA SummaryFacts ==
    ASSUME NEW version \in Nat, NEW position \in Positions, NEW input \in Inputs
    PROVE  /\ Summary(version, position, input) \in Genuine
           /\ Summary(version, position, input).fingerprint = Fingerprint(version, position, input)
<1>1. <<version, position, input>> \in Computations /\ input.size \in Int
  BY DEF Computations, Inputs
<1> QED
  BY <1>1 DEF Summary, Genuine, Summaries, Fingerprint, Figures

\* Genuine figures with the fingerprint of a computation can be shown for it.
LEMMA GenuineFacts ==
    ASSUME NEW m \in Genuine
    PROVE  /\ m # None /\ m \in Summaries
           /\ m.version \in Nat /\ m.fingerprint[1] = m.version /\ m.fingerprint[2] \in Positions
           /\ m.fingerprint[3] \in Inputs /\ m.size = m.fingerprint[3].size /\ m.figures = m.fingerprint
           /\ \A version, position, input :
                 m.fingerprint = Fingerprint(version, position, input) =>
                    /\ Usable(m, version, position, input)
                    /\ m.size = input.size /\ m.figures = Figures(version, position, input)
<1>1. m # None /\ m \in Summaries /\ m.version \in Nat /\ m.fingerprint \in Computations
  BY PlanFiguresAssumption DEF Genuine, Summaries
<1>2. m.figures = m.fingerprint /\ m.version = m.fingerprint[1] /\ m.size = m.fingerprint[3].size
  BY DEF Genuine
<1> QED
  BY <1>1, <1>2 DEF Computations, Fingerprint, Usable, Figures

-----------------------------------------------------------------------------
(* A page of the sheet *)

LEMMA SheetInputs ==
    ASSUME NEW p, NEW saved, LoadedInOrder(p, saved), p.at \in {"shown", "left"}, NEW v \in Volets
    PROVE  /\ InputOn(p, v) \in Inputs \cup {None} /\ p.version \in Nat /\ v[2] \in Positions
           /\ PlanOf(p.detail.plans, v) \in Exchanges /\ p.library \in Nat
           /\ p.detail \in Details /\ p.detail.plans \in Plans
<1>1. p.detail \in Details /\ p.library \in Nat /\ p.version \in Nat
  BY DEF LoadedInOrder, SheetRecords
<1>2. PlanOf(p.detail.plans, v) \in Exchanges /\ p.detail.plans \in Plans
  BY <1>1, PlanOfFacts DEF Details
<1> QED
  BY <1>1, <1>2, InputFacts DEF InputOn, Volets

\* What a page has loaded and shows decides what is left to compute.
LEMMA SameView ==
    ASSUME NEW p, NEW q, q.detail = p.detail, q.library = p.library, q.version = p.version
    PROVE  /\ \A v : InputOn(q, v) = InputOn(p, v)
           /\ \A v : q.stored[v] = p.stored[v] => Shown(q, v) = Shown(p, v) /\ (Sent(q, v) <=> Sent(p, v))
           /\ q.stored = p.stored => Pending(q) = Pending(p)
<1>1. \A v : InputOn(q, v) = InputOn(p, v)
  BY DEF InputOn
<1>2. ASSUME NEW v, q.stored[v] = p.stored[v]
      PROVE  Shown(q, v) = Shown(p, v) /\ (Sent(q, v) <=> Sent(p, v))
  BY <1>1, <1>2 DEF Shown, Sent
<1>3. q.stored = p.stored => Pending(q) = Pending(p)
  BY <1>1, <1>2 DEF Pending
<1> QED
  BY <1>1, <1>2, <1>3

\* A deck saved again, once or more, is another revision.
LEMMA ReadsAnOlderRevision ==
    ASSUME NEW saved \in Decks, NEW later \in Decks, saved.revision < later.revision,
           NEW revision \in Nat, NEW plans, Reads(revision, plans, saved)
    PROVE  Reads(revision, plans, later) /\ revision < later.revision
  BY DEF Decks, Reads

LEMMA SheetOutlivesSave ==
    ASSUME NEW saved \in Decks, NEW later \in Decks, saved.revision < later.revision,
           NEW p, SheetInOrder(p, saved)
    PROVE  SheetInOrder(p, later)
<1>1. p.at \in {"shown", "left"} \/ p.detail # None => p.detail.revision \in Nat
  BY DEF SheetInOrder, LoadedInOrder, SheetRecords, Details
<1> QED
  BY <1>1, ReadsAnOlderRevision DEF SheetInOrder, LoadedInOrder

LEMMA ClosedSheetInOrder == \A saved : SheetInOrder(ClosedSheet, saved)
<1>1. ClosedSheet \in SheetRecords
  BY DEF ClosedSheet, SheetRecords, Kept, Outcomes
<1> QED
  BY <1>1, PlanFiguresAssumption DEF ClosedSheet, SheetInOrder, LoadedInOrder

LEMMA EndRunInOrder ==
    ASSUME NEW saved, NEW p, LoadedInOrder(p, saved), NEW error \in BOOLEAN
    PROVE  /\ SheetInOrder(EndRun(p, error), saved)
           /\ EndRun(p, error).step = "none" /\ EndRun(p, error).outcome = None
           /\ EndRun(p, error).at = "shown" =>
                 EndRun(p, error).error = error /\ Pending(EndRun(p, error)) = Pending(p)
<1>1. CASE p.at = "left"
  BY <1>1, ClosedSheetInOrder DEF EndRun, ClosedSheet
<1>2. CASE p.at # "left"
  <2> DEFINE q == [p EXCEPT !.step = "none", !.todo = {}, !.plan = None, !.made = {}, !.outcome = None, !.error = error]
  <2>1. EndRun(p, error) = q
    BY <1>2 DEF EndRun
  <2>2. p \in SheetRecords
    BY DEF SheetInOrder, LoadedInOrder
  <2>3. /\ q \in SheetRecords /\ q.step = "none" /\ q.outcome = None /\ q.error = error /\ q.at = p.at
        /\ q.detail = p.detail /\ q.library = p.library /\ q.version = p.version /\ q.stored = p.stored
    BY <2>2 DEF SheetRecords, Outcomes
  <2> HIDE DEF q
  <2>4. SheetInOrder(q, saved)
    BY <2>3 DEF SheetInOrder, LoadedInOrder
  <2>5. Pending(q) = Pending(p)
    BY <2>3, SameView
  <2> QED
    BY <2>1, <2>3, <2>4, <2>5
<1> QED
  BY <1>1, <1>2

\* The figures taken in leave one plan less to compute, and are those of the plan to be sent.
LEMMA AdoptInOrder ==
    ASSUME NEW saved, NEW p, LoadedInOrder(p, saved), p.at \in {"shown", "left"}, p.outcome = None,
           NEW v \in Volets, p.plan = v, InputOn(p, v) # None, \A w \in p.todo : InputOn(p, w) # None,
           Pending(p) \subseteq p.todo \cup {v},
           NEW m \in Genuine, m.fingerprint = Fingerprint(p.version, v[2], InputOn(p, v))
    PROVE  SheetInOrder(Adopt(p, v, m), saved)
<1> DEFINE q == [p EXCEPT !.stored[v] = m, !.made = @ \cup {m}, !.step = "put"]
<1>1. p \in SheetRecords
  BY DEF SheetInOrder, LoadedInOrder
<1>2. /\ q \in SheetRecords /\ q.step = "put" /\ q.at = p.at /\ q.plan = v /\ q.todo = p.todo /\ q.outcome = None
      /\ q.detail = p.detail /\ q.library = p.library /\ q.version = p.version
      /\ q.stored[v] = m /\ \A w \in Volets \ {v} : q.stored[w] = p.stored[w]
  BY <1>1 DEF SheetRecords, Kept
<1>3. Adopt(p, v, m) = q
  BY DEF Adopt
<1> HIDE DEF q
<1>4. \A w : InputOn(q, w) = InputOn(p, w)
  BY <1>2, SameView
<1>5. Sent(q, v)
  BY <1>2, <1>4 DEF Sent
<1>6. Pending(q) \subseteq q.todo
  <2>1. Shown(q, v) # None
    BY <1>2, <1>4, GenuineFacts DEF Shown
  <2>2. \A w \in Volets \ {v} : Shown(q, w) = Shown(p, w)
    BY <1>2, SameView
  <2> QED
    BY <1>2, <1>4, <2>1, <2>2 DEF Pending
<1>7. RunInOrder(q)
  BY <1>2, <1>4, <1>5, <1>6, PlanFiguresAssumption DEF RunInOrder
<1> QED
  BY <1>2, <1>3, <1>7 DEF SheetInOrder, LoadedInOrder

\* A step of a page of the sheet changes what that page holds.
SheetBecomes(s, q) == SheetInOrder(q, deck) /\ sheet' = [sheet EXCEPT ![s] = q]

LEMMA OpenSheetOk ==
    ASSUME ServerTypes, SheetsInOrder, NEW s \in Sheets, OpenSheet(s)
    PROVE  \E q : SheetBecomes(s, q)
<1> DEFINE q == [ClosedSheet EXCEPT !.at = "reading", !.version = deployed]
<1>1. ClosedSheet \in SheetRecords /\ SheetInOrder(ClosedSheet, deck)
  BY ClosedSheetInOrder DEF SheetInOrder, LoadedInOrder
<1>2. q \in SheetRecords /\ q.at = "reading" /\ q.detail = None /\ q.step = "none" /\ q.outcome = None
  BY <1>1 DEF ServerTypes, SheetRecords, ClosedSheet
<1>3. sheet' = [sheet EXCEPT ![s] = q]
  BY DEF OpenSheet
<1> HIDE DEF q
<1>4. SheetInOrder(q, deck)
  BY <1>2 DEF SheetInOrder, LoadedInOrder
<1> QED
  BY <1>3, <1>4 DEF SheetBecomes

LEMMA ReadsOk ==
    ASSUME ServerTypes, SheetsInOrder, NEW s \in Sheets, ReadDetail(s) \/ ReadLibrary(s)
    PROVE  \E q : SheetBecomes(s, q)
<1> DEFINE p == sheet[s]
           detail == [revision |-> deck.revision, plans |-> deck.plans, rows |-> rows]
<1>1. p \in SheetRecords /\ SheetInOrder(p, deck) /\ p.at = "reading" /\ p.step = "none" /\ p.outcome = None
  BY PlanFiguresAssumption DEF SheetsInOrder, SheetInOrder, LoadedInOrder, RunInOrder, ReadDetail, ReadLibrary
<1>2. CASE ReadDetail(s)
  <2> DEFINE q == [p EXCEPT !.detail = detail]
  <2>1. detail \in Details
    BY DEF ServerTypes, Decks, Details
  <2>2. /\ q \in SheetRecords /\ q.at = "reading" /\ q.step = "none" /\ q.outcome = None /\ q.detail = detail
        /\ sheet' = [sheet EXCEPT ![s] = q]
    BY <1>1, <1>2, <2>1 DEF SheetRecords, ReadDetail, SheetsInOrder
  <2>3. Reads(detail.revision, detail.plans, deck)
    BY DEF ServerTypes, Decks, Reads
  <2> HIDE DEF q, detail
  <2>4. SheetInOrder(q, deck)
    BY <2>2, <2>3 DEF SheetInOrder, LoadedInOrder
  <2> QED
    BY <2>2, <2>4 DEF SheetBecomes
<1>3. CASE ReadLibrary(s)
  <2> DEFINE q == [p EXCEPT !.library = library]
  <2>1. /\ q \in SheetRecords /\ q.at = "reading" /\ q.step = "none" /\ q.outcome = None /\ q.detail = p.detail
        /\ sheet' = [sheet EXCEPT ![s] = q]
    BY <1>1, <1>3 DEF SheetRecords, ReadLibrary, SheetsInOrder, ServerTypes
  <2> HIDE DEF q
  <2>2. SheetInOrder(q, deck)
    BY <1>1, <2>1 DEF SheetInOrder, LoadedInOrder
  <2> QED
    BY <2>1, <2>2 DEF SheetBecomes
<1> QED
  BY <1>2, <1>3

LEMMA ShowSheetOk ==
    ASSUME ServerTypes, SheetsInOrder, NEW s \in Sheets, ShowSheet(s)
    PROVE  \E q : SheetBecomes(s, q)
<1> DEFINE p == sheet[s]
           empty == [v \in Volets |-> None]
           q == [p EXCEPT !.at = "shown", !.stored = p.detail.rows, !.detail = [p.detail EXCEPT !.rows = empty]]
<1>1. p \in SheetRecords /\ SheetInOrder(p, deck) /\ p.at = "reading" /\ p.step = "none" /\ p.outcome = None
      /\ p.detail # None /\ p.library \in Nat
  BY PlanFiguresAssumption DEF SheetsInOrder, SheetInOrder, LoadedInOrder, SheetRecords, RunInOrder, ShowSheet
<1>2. CASE sheet' = [sheet EXCEPT ![s] = ClosedSheet]
  BY <1>2, ClosedSheetInOrder DEF SheetBecomes
<1>3. CASE sheet' = [sheet EXCEPT ![s].at = "shown", ![s].stored = p.detail.rows, ![s].detail.rows = empty]
  <2>1. p.detail \in Details /\ empty \in Kept
    BY <1>1 DEF SheetRecords, Kept
  <2>2. [p.detail EXCEPT !.rows = empty] \in Details
    BY <2>1 DEF Details
  <2>3. /\ q \in SheetRecords /\ q.at = "shown" /\ q.step = "none" /\ q.outcome = None /\ q.library = p.library
        /\ q.detail \in Details /\ q.detail.revision = p.detail.revision /\ q.detail.plans = p.detail.plans
    BY <1>1, <2>1, <2>2 DEF SheetRecords, Details
  <2>4. sheet' = [sheet EXCEPT ![s] = q]
    BY <1>1, <1>3, <2>1 DEF SheetsInOrder, SheetRecords, Details
  <2> HIDE DEF q
  <2>5. SheetInOrder(q, deck)
    BY <1>1, <2>3 DEF SheetInOrder, LoadedInOrder
  <2> QED
    BY <2>4, <2>5 DEF SheetBecomes
<1> QED
  BY <1>2, <1>3 DEF ShowSheet

LEMMA LeaveSheetOk ==
    ASSUME ServerTypes, SheetsInOrder, NEW s \in Sheets, LeaveSheet(s)
    PROVE  \E q : SheetBecomes(s, q)
<1> DEFINE p == sheet[s]
           q == [p EXCEPT !.at = "left"]
<1>1. p \in SheetRecords /\ SheetInOrder(p, deck) /\ p.at = "shown" /\ p.detail \in Details /\ p.library \in Nat
  BY DEF SheetsInOrder, SheetInOrder, LoadedInOrder, LeaveSheet
<1>2. CASE p.step \notin {"put", "answer"}
  <2>1. sheet' = [sheet EXCEPT ![s] = ClosedSheet]
    BY <1>2 DEF LeaveSheet, SheetsInOrder
  <2> QED
    BY <2>1, ClosedSheetInOrder DEF SheetBecomes
<1>3. CASE p.step \in {"put", "answer"}
  <2>1. /\ q \in SheetRecords /\ q.at = "left" /\ q.step = p.step /\ q.outcome = p.outcome /\ q.library = p.library
        /\ q.detail = p.detail /\ q.todo = p.todo /\ q.plan = p.plan /\ q.version = p.version /\ q.stored = p.stored
        /\ sheet' = [sheet EXCEPT ![s] = q]
    BY <1>1, <1>3 DEF SheetRecords, SheetsInOrder, LeaveSheet
  <2> HIDE DEF q
  <2>2. Pending(q) = Pending(p) /\ (\A v : InputOn(q, v) = InputOn(p, v)) /\ (\A v : Sent(q, v) <=> Sent(p, v))
    BY <2>1, SameView
  <2>3. RunInOrder(p)
    BY <1>1, <1>3 DEF SheetInOrder, LoadedInOrder
  <2>4. RunInOrder(q)
    BY <2>1, <2>2, <2>3 DEF RunInOrder
  <2>5. SheetInOrder(q, deck)
    BY <1>1, <2>1, <2>4 DEF SheetInOrder, LoadedInOrder
  <2> QED
    BY <2>1, <2>5 DEF SheetBecomes
<1> QED
  BY <1>2, <1>3

LEMMA ComputeAllOk ==
    ASSUME ServerTypes, SheetsInOrder, NEW s \in Sheets, ComputeAll(s)
    PROVE  \E q : SheetBecomes(s, q)
<1> DEFINE p == sheet[s]
           q == [p EXCEPT !.step = "next", !.todo = Pending(p), !.made = {}, !.error = FALSE]
<1>1. p \in SheetRecords /\ SheetInOrder(p, deck) /\ p.at = "shown" /\ p.detail \in Details /\ p.library \in Nat
      /\ p.step = "none" /\ p.outcome = None
  BY DEF SheetsInOrder, SheetInOrder, LoadedInOrder, ComputeAll
<1>2. Pending(p) \subseteq Volets /\ \A v \in Pending(p) : InputOn(p, v) # None
  BY DEF Pending
<1>3. /\ q \in SheetRecords /\ q.at = "shown" /\ q.step = "next" /\ q.outcome = None /\ q.library = p.library
      /\ q.detail = p.detail /\ q.todo = Pending(p) /\ q.version = p.version /\ q.stored = p.stored
      /\ sheet' = [sheet EXCEPT ![s] = q]
  BY <1>1, <1>2 DEF SheetRecords, SheetsInOrder, ComputeAll
<1> HIDE DEF q
<1>4. Pending(q) = Pending(p) /\ (\A v : InputOn(q, v) = InputOn(p, v))
  BY <1>3, SameView
<1>5. RunInOrder(q)
  BY <1>2, <1>3, <1>4, PlanFiguresAssumption DEF RunInOrder
<1>6. SheetInOrder(q, deck)
  BY <1>1, <1>3, <1>5 DEF SheetInOrder, LoadedInOrder
<1> QED
  BY <1>3, <1>6 DEF SheetBecomes

\* A page whose run goes on.
LEMMA RunFacts ==
    ASSUME SheetsInOrder, NEW s \in Sheets, sheet[s].step # "none"
    PROVE  /\ sheet[s] \in SheetRecords /\ SheetInOrder(sheet[s], deck) /\ RunInOrder(sheet[s])
           /\ sheet[s].at \in {"shown", "left"}
  BY DEF SheetsInOrder, SheetInOrder, LoadedInOrder, RunInOrder

LEMMA NextPlanOk ==
    ASSUME ServerTypes, SheetsInOrder, NEW s \in Sheets, NextPlan(s)
    PROVE  \E q : SheetBecomes(s, q)
<1> DEFINE p == sheet[s]
<1>1. p \in SheetRecords /\ SheetInOrder(p, deck) /\ RunInOrder(p) /\ p.step = "next" /\ p.at \in {"shown", "left"}
  BY RunFacts DEF NextPlan
<1>2. PICK v \in p.todo :
          LET q == [p EXCEPT !.todo = @ \ {v}, !.plan = v] IN
          sheet' = [sheet EXCEPT ![s] =
              CASE Known(q, v) # {} -> Adopt(q, v, CHOOSE m \in Known(q, v) : TRUE)
                [] Known(q, v) = {} /\ q.at = "shown" -> [q EXCEPT !.step = "compute"]
                [] OTHER -> EndRun(q, FALSE)]
  BY DEF NextPlan
<1> DEFINE q == [p EXCEPT !.todo = @ \ {v}, !.plan = v]
<1>3. v \in Volets /\ p.outcome = None
  BY <1>1, <1>2 DEF SheetRecords, SheetInOrder, LoadedInOrder
<1>4. /\ q \in SheetRecords /\ q.at = p.at /\ q.step = "next" /\ q.outcome = None /\ q.library = p.library
      /\ q.detail = p.detail /\ q.todo = p.todo \ {v} /\ q.plan = v /\ q.version = p.version /\ q.stored = p.stored
  BY <1>1, <1>3 DEF SheetRecords
<1>5. sheet' = [sheet EXCEPT ![s] =
              CASE Known(q, v) # {} -> Adopt(q, v, CHOOSE m \in Known(q, v) : TRUE)
                [] Known(q, v) = {} /\ q.at = "shown" -> [q EXCEPT !.step = "compute"]
                [] OTHER -> EndRun(q, FALSE)]
  BY <1>2
<1> HIDE DEF q
<1>6. Pending(q) = Pending(p) /\ (\A w : InputOn(q, w) = InputOn(p, w))
  BY <1>4, SameView
<1>7. /\ \A w \in q.todo : InputOn(q, w) # None
      /\ InputOn(q, v) # None /\ Pending(q) \subseteq q.todo \cup {v}
  BY <1>1, <1>2, <1>4, <1>6 DEF RunInOrder
<1>8. LoadedInOrder(q, deck)
  BY <1>1, <1>4 DEF SheetInOrder, LoadedInOrder
<1>9. CASE Known(q, v) # {}
  <2>1. PICK m \in Known(q, v) : m = CHOOSE x \in Known(q, v) : TRUE
    BY <1>9
  <2>2. m \in Genuine /\ m.fingerprint = Fingerprint(q.version, v[2], InputOn(q, v))
    BY <1>4, <2>1 DEF Known, SheetRecords
  <2>3. SheetInOrder(Adopt(q, v, m), deck)
    BY <1>1, <1>3, <1>4, <1>7, <1>8, <2>2, AdoptInOrder
  <2>4. sheet' = [sheet EXCEPT ![s] = Adopt(q, v, m)]
    BY <1>5, <1>9, <2>1
  <2> QED
    BY <2>3, <2>4 DEF SheetBecomes
<1>10. CASE Known(q, v) = {} /\ q.at = "shown"
  <2> DEFINE r == [q EXCEPT !.step = "compute"]
  <2>1. /\ r \in SheetRecords /\ r.at = q.at /\ r.step = "compute" /\ r.outcome = None /\ r.library = q.library
        /\ r.detail = q.detail /\ r.todo = q.todo /\ r.plan = v /\ r.version = q.version /\ r.stored = q.stored
    BY <1>4 DEF SheetRecords
  <2>2. sheet' = [sheet EXCEPT ![s] = r]
    BY <1>5, <1>10
  <2> HIDE DEF r
  <2>3. Pending(r) = Pending(q) /\ (\A w : InputOn(r, w) = InputOn(q, w))
    BY <2>1, SameView
  <2>4. RunInOrder(r)
    BY <1>1, <1>3, <1>4, <1>7, <2>1, <2>3, PlanFiguresAssumption DEF RunInOrder
  <2>5. SheetInOrder(r, deck)
    BY <1>8, <2>1, <2>4 DEF SheetInOrder, LoadedInOrder
  <2> QED
    BY <2>2, <2>5 DEF SheetBecomes
<1>11. CASE Known(q, v) = {} /\ q.at # "shown"
  <2>1. sheet' = [sheet EXCEPT ![s] = EndRun(q, FALSE)]
    BY <1>5, <1>11
  <2>2. SheetInOrder(EndRun(q, FALSE), deck)
    BY <1>8, EndRunInOrder
  <2> QED
    BY <2>1, <2>2 DEF SheetBecomes
<1> QED
  BY <1>9, <1>10, <1>11

LEMMA RunEndsOk ==
    ASSUME ServerTypes, SheetsInOrder, NEW s \in Sheets, LastPlan(s) \/ ComputeFails(s) \/ SheetLosesAnswer(s)
    PROVE  \E q : SheetBecomes(s, q)
<1>1. SheetInOrder(sheet[s], deck)
  BY DEF SheetsInOrder
<1>2. PICK error \in BOOLEAN : sheet' = [sheet EXCEPT ![s] = EndRun(sheet[s], error)]
  BY DEF LastPlan, ComputeFails, SheetLosesAnswer, SheetsInOrder
<1>3. SheetInOrder(EndRun(sheet[s], error), deck)
  BY <1>1, EndRunInOrder DEF SheetInOrder
<1> QED
  BY <1>2, <1>3 DEF SheetBecomes

LEMMA ComputedOk ==
    ASSUME ServerTypes, SheetsInOrder, NEW s \in Sheets, Computed(s)
    PROVE  \E q : SheetBecomes(s, q)
<1> DEFINE p == sheet[s]
           m == Summary(p.version, p.plan[2], InputOn(p, p.plan))
<1>1. p \in SheetRecords /\ SheetInOrder(p, deck) /\ RunInOrder(p) /\ p.step = "compute" /\ p.at \in {"shown", "left"}
      /\ LoadedInOrder(p, deck) /\ p.outcome = None
  BY RunFacts DEF Computed, SheetInOrder
<1>2. p.plan \in Volets /\ InputOn(p, p.plan) # None /\ Pending(p) \subseteq p.todo \cup {p.plan}
      /\ \A v \in p.todo : InputOn(p, v) # None
  BY <1>1 DEF RunInOrder
<1>3. m \in Genuine /\ m.fingerprint = Fingerprint(p.version, p.plan[2], InputOn(p, p.plan))
  BY <1>1, <1>2, SheetInputs, SummaryFacts
<1>4. sheet' = [sheet EXCEPT ![s] = Adopt(p, p.plan, m)]
  BY DEF Computed
<1> HIDE DEF m
<1>5. SheetInOrder(Adopt(p, p.plan, m), deck)
  BY <1>1, <1>2, <1>3, AdoptInOrder
<1> QED
  BY <1>4, <1>5 DEF SheetBecomes

\* The server, when the revision stands, counts the cards the sheet has counted.
LEMMA OutcomeFacts ==
    ASSUME ServerTypes, NEW p, LoadedInOrder(p, deck), p.at \in {"shown", "left"},
           NEW v \in Volets, InputOn(p, v) # None, Sent(p, v)
    PROVE  LET outcome == Outcome(v, p.stored[v], p.detail.revision) IN
           /\ outcome \in Outcomes /\ outcome # "refused"
           /\ outcome = "unknown" => p.detail.plans[v] = Absent
           /\ outcome = "written" =>
                 deck.plans[v] # Absent /\ Ready(deck.plans[v]) /\ p.stored[v].figures[3].swap = deck.plans[v].swap
<1>1. /\ p.detail \in Details /\ p.detail.plans \in Plans /\ p.library \in Nat
      /\ PlanOf(p.detail.plans, v) \in Exchanges
  BY SheetInputs
<1>2. p.detail.revision = deck.revision => p.detail.plans = deck.plans
  BY DEF LoadedInOrder, Reads
<1>3. /\ p.stored[v].size = InputOn(p, v).size /\ p.stored[v].figures[3] = InputOn(p, v)
  BY GenuineFacts DEF Sent, Figures
<1>4. /\ Ready(PlanOf(p.detail.plans, v)) /\ InputOn(p, v).size = SizeAfter(PlanOf(p.detail.plans, v))
      /\ InputOn(p, v).swap = PlanOf(p.detail.plans, v).swap
  BY <1>1, InputFacts DEF InputOn
<1>5. p.detail.plans[v] # Absent => PlanOf(p.detail.plans, v) = p.detail.plans[v]
  BY <1>1, PlanOfFacts
<1> QED
  BY <1>2, <1>3, <1>4, <1>5 DEF Outcome, Outcomes

LEMMA SheetPutsOk ==
    ASSUME ServerTypes, SheetsInOrder, NEW s \in Sheets, SheetPuts(s)
    PROVE  (\E q : SheetBecomes(s, q)) /\ rows' \in Kept
<1> DEFINE p == sheet[s]
           outcome == Outcome(p.plan, p.stored[p.plan], p.detail.revision)
           q == [p EXCEPT !.step = "answer", !.outcome = outcome]
<1>1. p \in SheetRecords /\ SheetInOrder(p, deck) /\ RunInOrder(p) /\ p.step = "put" /\ p.at \in {"shown", "left"}
      /\ LoadedInOrder(p, deck)
  BY RunFacts DEF SheetPuts, SheetInOrder
<1>2. /\ p.plan \in Volets /\ InputOn(p, p.plan) # None /\ Sent(p, p.plan) /\ p.stored[p.plan] \in Genuine
      /\ Pending(p) \subseteq p.todo /\ \A v \in p.todo : InputOn(p, v) # None
  BY <1>1 DEF RunInOrder, Sent
<1>3. outcome \in Outcomes /\ outcome # "refused" /\ (outcome = "unknown" => p.detail.plans[p.plan] = Absent)
  BY <1>1, <1>2, OutcomeFacts
<1>4. /\ sheet' = [sheet EXCEPT ![s].step = "answer", ![s].outcome = outcome]
      /\ rows' = IF outcome = "written" THEN [rows EXCEPT ![p.plan] = p.stored[p.plan]] ELSE rows
  BY DEF SheetPuts, PutSummary
<1> HIDE DEF outcome
<1>5. rows' \in Kept
  BY <1>2, <1>4 DEF ServerTypes, Kept
<1>6. /\ q \in SheetRecords /\ q.at = p.at /\ q.step = "answer" /\ q.outcome = outcome /\ q.library = p.library
      /\ q.detail = p.detail /\ q.todo = p.todo /\ q.plan = p.plan /\ q.version = p.version /\ q.stored = p.stored
  BY <1>1, <1>3 DEF SheetRecords
<1>7. sheet' = [sheet EXCEPT ![s] = q]
  BY <1>1, <1>4 DEF SheetsInOrder, SheetRecords
<1> HIDE DEF q
<1>8. Pending(q) = Pending(p) /\ (\A v : InputOn(q, v) = InputOn(p, v)) /\ (\A v : Sent(q, v) <=> Sent(p, v))
  BY <1>6, SameView
<1>9. RunInOrder(q)
  BY <1>1, <1>2, <1>3, <1>6, <1>8 DEF RunInOrder
<1>10. SheetInOrder(q, deck)
  BY <1>1, <1>6, <1>9 DEF SheetInOrder, LoadedInOrder
<1> QED
  BY <1>5, <1>7, <1>10 DEF SheetBecomes

LEMMA SheetIsAnsweredOk ==
    ASSUME ServerTypes, SheetsInOrder, NEW s \in Sheets, SheetIsAnswered(s)
    PROVE  \E q : SheetBecomes(s, q)
<1> DEFINE p == sheet[s]
           q == [p EXCEPT !.step = "next", !.outcome = None]
<1>1. p \in SheetRecords /\ SheetInOrder(p, deck) /\ RunInOrder(p) /\ p.step = "answer" /\ p.at \in {"shown", "left"}
      /\ LoadedInOrder(p, deck)
  BY RunFacts DEF SheetIsAnswered, SheetInOrder
<1>2. CASE p.outcome = "written"
  <2>1. /\ q \in SheetRecords /\ q.at = p.at /\ q.step = "next" /\ q.outcome = None /\ q.library = p.library
        /\ q.detail = p.detail /\ q.todo = p.todo /\ q.version = p.version /\ q.stored = p.stored
        /\ sheet' = [sheet EXCEPT ![s] = q]
    BY <1>1, <1>2 DEF SheetRecords, Outcomes, SheetsInOrder, SheetIsAnswered
  <2> HIDE DEF q
  <2>2. Pending(q) = Pending(p) /\ (\A v : InputOn(q, v) = InputOn(p, v))
    BY <2>1, SameView
  <2>3. RunInOrder(q)
    BY <1>1, <2>1, <2>2, PlanFiguresAssumption DEF RunInOrder
  <2>4. SheetInOrder(q, deck)
    BY <1>1, <2>1, <2>3 DEF SheetInOrder, LoadedInOrder
  <2> QED
    BY <2>1, <2>4 DEF SheetBecomes
<1>3. CASE p.outcome # "written"
  <2>1. sheet' = [sheet EXCEPT ![s] = EndRun(p, TRUE)]
    BY <1>3 DEF SheetIsAnswered, SheetsInOrder
  <2> QED
    BY <1>1, <2>1, EndRunInOrder DEF SheetBecomes
<1> QED
  BY <1>2, <1>3

LEMMA SheetStepOk ==
    ASSUME ServerTypes, SheetsInOrder, NEW s \in Sheets, SheetStep(s)
    PROVE  ServerTypes' /\ SheetsInOrder' /\ deck' = deck /\ editor' = editor
<1>1. \E q : SheetBecomes(s, q)
  BY OpenSheetOk, ReadsOk, ShowSheetOk, LeaveSheetOk, ComputeAllOk, NextPlanOk, RunEndsOk, ComputedOk, SheetPutsOk,
     SheetIsAnsweredOk DEF SheetStep, SheetRuns
<1>2. deck' = deck /\ library' = library /\ deployed' = deployed /\ editor' = editor
  BY DEF SheetStep, SheetRuns, OpenSheet, ReadDetail, ReadLibrary, ShowSheet, LeaveSheet, ComputeAll, NextPlan, LastPlan,
         Computed, ComputeFails, SheetPuts, PutSummary, SheetIsAnswered, SheetLosesAnswer, serverVars
<1>3. rows' \in Kept
  <2>1. CASE SheetPuts(s)
    BY <2>1, SheetPutsOk
  <2>2. CASE ~SheetPuts(s)
    <3>1. rows' = rows
      BY <2>2 DEF SheetStep, SheetRuns, OpenSheet, ReadDetail, ReadLibrary, ShowSheet, LeaveSheet, ComputeAll, NextPlan,
                  LastPlan, Computed, ComputeFails, SheetIsAnswered, SheetLosesAnswer, serverVars
    <3> QED
      BY <3>1 DEF ServerTypes
  <2> QED
    BY <2>1, <2>2
<1>4. gestures' \in Nat
  <2>1. Gesture \/ gestures' = gestures
    BY DEF SheetStep, SheetRuns, OpenSheet, ReadDetail, ReadLibrary, ShowSheet, LeaveSheet, ComputeAll, NextPlan,
           LastPlan, Computed, ComputeFails, SheetPuts, SheetIsAnswered, SheetLosesAnswer
  <2> QED
    BY <2>1 DEF Gesture, ServerTypes
<1>5. SheetsInOrder'
  <2>1. PICK q : SheetInOrder(q, deck) /\ sheet' = [sheet EXCEPT ![s] = q]
    BY <1>1 DEF SheetBecomes
  <2>2. q \in SheetRecords
    BY <2>1 DEF SheetInOrder, LoadedInOrder
  <2>3. ASSUME NEW t \in Sheets PROVE SheetInOrder(sheet'[t], deck)
    BY <2>1 DEF SheetsInOrder
  <2>4. sheet' \in [Sheets -> SheetRecords]
    BY <2>1, <2>2 DEF SheetsInOrder
  <2> QED
    BY <1>2, <2>3, <2>4 DEF SheetsInOrder
<1> QED
  BY <1>2, <1>3, <1>4, <1>5 DEF ServerTypes

-----------------------------------------------------------------------------
(* The editor *)

\* How the server and the editor stand with each other: what EditorInOrder needs of the deck.
LEMMA EditorOutlivesSave ==
    ASSUME NEW saved \in Decks, NEW later \in Decks, saved.revision < later.revision,
           NEW ed, EditorInOrder(ed, saved)
    PROVE  EditorInOrder(ed, later)
<1>1. ASSUME OpenInOrder(ed, saved) PROVE OpenInOrder(ed, later)
  <2>1. ed.revision \in Nat /\ saved.revision \in Nat /\ later.revision \in Nat
    BY DEF EditorInOrder, EditorRecords, Decks
  <2>2. ed.revision < later.revision
    BY <1>1, <2>1 DEF OpenInOrder
  <2>3. ASSUME NEW r \in ed.requests PROVE RequestInOrder(r, later)
    <3>1. RequestInOrder(r, saved) /\ r.revision \in Nat
      BY <1>1 DEF OpenInOrder, EditorInOrder, EditorRecords, PutRequests
    <3> QED
      BY <2>1, <3>1 DEF RequestInOrder
  <2> QED
    BY <1>1, <2>1, <2>2, <2>3 DEF OpenInOrder
<1> QED
  BY <1>1 DEF EditorInOrder

LEMMA ClosedEditorTyped == ClosedEditor \in EditorRecords
<1>1. [v \in Volets |-> Absent] \in Plans /\ [v \in Volets |-> None] \in Kept
      /\ [p \in Positions |-> NotStudied] \in [Positions -> Studies]
  BY DEF Plans, Kept, NotStudied, Studies
<1> QED
  BY <1>1 DEF ClosedEditor, EditorRecords

LEMMA OpenEditorOk ==
    ASSUME ServerTypes, NEW o \in Opponents, OpenEditor(o)
    PROVE  EditorInOrder(editor', deck)
<1> DEFINE ed == [ClosedEditor EXCEPT !.at = "open", !.version = deployed, !.revision = deck.revision,
                      !.plans = deck.plans, !.library = library, !.opponent = o, !.timer = TRUE, !.stored = rows]
<1>1. /\ ed \in EditorRecords /\ ed.at = "open" /\ ed.opponent = o /\ ed.library = library /\ ed.timer
      /\ ed.revision = deck.revision /\ ed.plans = deck.plans /\ ed.requests = {}
  BY ClosedEditorTyped DEF ServerTypes, Decks, EditorRecords, ClosedEditor
<1>2. editor' = ed
  BY DEF OpenEditor
<1> HIDE DEF ed
<1>3. OpenInOrder(ed, deck)
  BY <1>1 DEF OpenInOrder, ServerTypes, Decks
<1> QED
  BY <1>1, <1>2, <1>3 DEF EditorInOrder

\* An edit is not saved, and is to be synchronised.
LEMMA EditOk ==
    ASSUME EditorInOrder(editor, deck),
           (\E p \in Positions, e \in Exchanges : EditPlan(p, e)) \/ RemoveOpponent
    PROVE  EditorInOrder(editor', deck)
<1>1. editor \in EditorRecords /\ OpenInOrder(editor, deck)
  <2>1. editor.at = "open"
    BY DEF EditPlan, RemoveOpponent
  <2>2. ClosedEditor.at = "closed"
    BY DEF ClosedEditor
  <2> QED
    BY <2>1, <2>2 DEF EditorInOrder
<1>2. PICK plans \in Plans : editor' = [editor EXCEPT !.plans = plans, !.dirty = TRUE, !.timer = TRUE]
  <2>1. ASSUME NEW p \in Positions, NEW e \in Exchanges, EditPlan(p, e)
        PROVE  \E plans \in Plans : editor' = [editor EXCEPT !.plans = plans, !.dirty = TRUE, !.timer = TRUE]
    <3> DEFINE plans == [editor.plans EXCEPT ![<<editor.opponent, p>>] = e]
    <3>1. plans \in Plans
      BY <1>1 DEF EditorRecords, Plans
    <3>2. editor' = [editor EXCEPT !.plans = plans, !.dirty = TRUE, !.timer = TRUE]
      BY <1>1, <2>1 DEF EditPlan, EditorRecords
    <3> QED
      BY <3>1, <3>2
  <2>2. ASSUME RemoveOpponent
        PROVE  \E plans \in Plans : editor' = [editor EXCEPT !.plans = plans, !.dirty = TRUE, !.timer = TRUE]
    <3> DEFINE plans == [v \in Volets |-> IF v[1] = editor.opponent THEN Absent ELSE editor.plans[v]]
    <3>1. plans \in Plans
      BY <1>1 DEF EditorRecords, Plans
    <3>2. editor' = [editor EXCEPT !.plans = plans, !.dirty = TRUE, !.timer = TRUE]
      BY <1>1, <2>2 DEF RemoveOpponent, EditorRecords
    <3> QED
      BY <3>1, <3>2
  <2> QED
    BY <2>1, <2>2
<1>3. /\ editor' \in EditorRecords /\ editor'.at = "open" /\ editor'.opponent = editor.opponent
      /\ editor'.library = editor.library /\ editor'.timer /\ editor'.dirty /\ editor'.revision = editor.revision
      /\ editor'.requests = editor.requests
  BY <1>1, <1>2 DEF EditorRecords, OpenInOrder
<1>4. OpenInOrder(editor', deck)
  BY <1>1, <1>3 DEF OpenInOrder
<1> QED
  BY <1>3, <1>4 DEF EditorInOrder

\* The other pages, and the deck, when the editor saves.
LEMMA SavePlansOk ==
    ASSUME PagesInv, SavePlans
    PROVE  /\ deck' \in Decks /\ deck.revision < deck'.revision
           /\ rows' \in Kept /\ EditorInOrder(editor', deck')
<1> DEFINE later == [revision |-> deck.revision + 1, plans |-> editor.plans]
           ed == [editor EXCEPT !.revision = @ + 1, !.dirty = FALSE, !.timer = TRUE]
<1>1. editor \in EditorRecords /\ OpenInOrder(editor, deck)
  <2>1. editor.at = "open"
    BY DEF SavePlans
  <2>2. ClosedEditor.at = "closed"
    BY DEF ClosedEditor
  <2> QED
    BY <2>1, <2>2 DEF PagesInv, EditorInOrder
<1>2. deck' = later /\ editor' = ed /\ editor.revision = deck.revision /\ rows' = RowsKept(editor.plans)
  BY DEF SavePlans
<1>3. later \in Decks /\ later.revision = deck.revision + 1 /\ deck.revision \in Nat /\ later.plans = editor.plans
      /\ deck \in Decks
  BY <1>1 DEF PagesInv, ServerTypes, Decks, EditorRecords
<1>4. RowsKept(editor.plans) \in Kept
  BY DEF RowsKept, Kept, PagesInv, ServerTypes
<1>5. /\ ed \in EditorRecords /\ ed.at = "open" /\ ed.opponent = editor.opponent /\ ed.library = editor.library
      /\ ed.timer /\ ed.revision = later.revision /\ ed.plans = editor.plans /\ ed.requests = editor.requests
  <2>1. editor.revision + 1 \in Nat /\ editor.revision + 1 = later.revision /\ editor.at = "open"
    BY <1>1, <1>2, <1>3 DEF EditorRecords, OpenInOrder
  <2> HIDE DEF later
  <2> QED
    BY <1>1, <2>1 DEF EditorRecords
<1> HIDE DEF later, ed
<1>6. OpenInOrder(editor, later)
  <2>1. EditorInOrder(editor, later)
    BY <1>3, EditorOutlivesSave DEF PagesInv
  <2>2. ClosedEditor.at = "closed"
    BY DEF ClosedEditor
  <2> QED
    BY <1>1, <2>1, <2>2 DEF EditorInOrder, OpenInOrder
<1>7. OpenInOrder(ed, later)
  BY <1>3, <1>5, <1>6 DEF OpenInOrder, Decks
<1> QED
  BY <1>2, <1>3, <1>4, <1>5, <1>7 DEF EditorInOrder

\* A request that is not late is of the deck studied, which is that of the plans.
LEMMA PersistOk ==
    ASSUME NEW saved \in Decks, NEW ed \in EditorRecords, OpenInOrder(ed, saved), NEW p \in Positions
    PROVE  /\ Persist(ed, p) \in EditorRecords /\ OpenInOrder(Persist(ed, p), saved)
<1> DEFINE v == <<ed.opponent, p>>
           m == Summary(ed.version, p, ed.studied[p].input)
           r == [volet |-> v, summary |-> m, revision |-> ed.revision, late |-> ed.timer, outcome |-> None]
           next == [ed EXCEPT !.persisted = @ \cup {Key(v, m, ed.revision)}, !.requests = @ \cup {r}]
<1>1. CASE Persist(ed, p) = ed
  BY <1>1
<1>2. CASE Persist(ed, p) # ed
  <2>1. Persist(ed, p) = next /\ ed.studied[p].input # None /\ ~ed.dirty /\ ed.plans[v] # Absent
    BY <1>2 DEF Persist, Persistable
  <2>2. /\ v \in Volets /\ ed.studied[p].input \in Inputs /\ ed.version \in Nat /\ ed.revision \in Nat
        /\ ed.timer \in BOOLEAN /\ ed.plans \in Plans
    BY <2>1 DEF OpenInOrder, EditorRecords, Studies, Volets
  <2>3. m \in Genuine /\ m.fingerprint = Fingerprint(ed.version, p, ed.studied[p].input)
    BY <2>2, SummaryFacts
  <2> HIDE DEF m
  <2>4. r \in PutRequests /\ Key(v, m, ed.revision) \in Volets \X Computations \X Nat
    BY <2>2, <2>3 DEF PutRequests, Outcomes, Key, Genuine, Summaries
  <2>5. RequestInOrder(r, saved)
    <3>1. r.revision = ed.revision /\ r.late = ed.timer /\ r.volet = v /\ r.summary = m
      OBVIOUS
    <3>2. ed.revision <= saved.revision
      BY DEF OpenInOrder
    <3>3. ASSUME ~ed.timer, ed.revision = saved.revision
          PROVE  Input(PlanOf(saved.plans, v), m.fingerprint[3].library) = m.fingerprint[3]
      <4>1. saved.plans = ed.plans /\ ed.studied[p].input = Input(PlanOf(ed.plans, v), ed.library)
        BY <2>1, <3>3 DEF OpenInOrder, EditedInput
      <4>2. PlanOf(ed.plans, v) \in Exchanges /\ ed.library \in Nat
        BY <2>2, PlanOfFacts DEF OpenInOrder
      <4>3. ed.studied[p].input.library = ed.library
        BY <2>1, <4>1, <4>2, InputFacts
      <4>4. m.fingerprint[3] = ed.studied[p].input
        BY <2>3 DEF Fingerprint
      <4> QED
        BY <4>1, <4>3, <4>4
    <3> HIDE DEF r, v
    <3> QED
      BY <3>1, <3>2, <3>3 DEF RequestInOrder
  <2> HIDE DEF r, v
  <2>6. next \in EditorRecords
    BY <2>4 DEF EditorRecords
  <2>7. /\ next.at = ed.at /\ next.opponent = ed.opponent /\ next.library = ed.library /\ next.revision = ed.revision
        /\ next.plans = ed.plans /\ next.dirty = ed.dirty /\ next.timer = ed.timer /\ next.studied = ed.studied
        /\ next.requests = ed.requests \cup {r}
    BY DEF EditorRecords
  <2> HIDE DEF next
  <2>8. OpenInOrder(next, saved)
    BY <2>5, <2>7 DEF OpenInOrder, EditedInput
  <2> QED
    BY <2>1, <2>6, <2>8
<1> QED
  BY <1>1, <1>2

LEMMA StudyAnswerOk ==
    ASSUME ServerTypes, EditorInOrder(editor, deck), NEW p \in Positions, StudyAnswer(p)
    PROVE  EditorInOrder(editor', deck)
<1> DEFINE ed == [editor EXCEPT !.studied[p].done = TRUE]
<1>1. editor \in EditorRecords /\ OpenInOrder(editor, deck)
  <2>1. ClosedEditor.studied[p].input = None
    BY DEF ClosedEditor, NotStudied
  <2> QED
    BY <2>1 DEF EditorInOrder, StudyAnswer
<1>2. editor' = Persist(ed, p)
  BY DEF StudyAnswer
<1>3. /\ ed \in EditorRecords /\ ed.at = editor.at /\ ed.opponent = editor.opponent /\ ed.library = editor.library
      /\ ed.revision = editor.revision /\ ed.plans = editor.plans /\ ed.dirty = editor.dirty /\ ed.timer = editor.timer
      /\ ed.requests = editor.requests
      /\ \A q \in Positions : ed.studied[q].input = editor.studied[q].input
  BY ZenonT(30), <1>1 DEF EditorRecords, Studies
<1> HIDE DEF ed
<1>4. OpenInOrder(ed, deck)
  BY <1>1, <1>3 DEF OpenInOrder, EditedInput
<1>5. deck \in Decks
  BY DEF ServerTypes
<1>6. Persist(ed, p) \in EditorRecords /\ OpenInOrder(Persist(ed, p), deck)
  BY <1>3, <1>4, <1>5, PersistOk
<1> QED
  BY <1>2, <1>6 DEF EditorInOrder

\* The synchronisation makes the studied decks those of the plans.
LEMMA SyncStudiedOk ==
    ASSUME ServerTypes, EditorInOrder(editor, deck), SyncStudied
    PROVE  EditorInOrder(editor', deck)
<1> DEFINE studied == [p \in Positions |-> StudiedNow(editor, p)]
           ed == [editor EXCEPT !.studied = studied, !.timer = FALSE]
<1>1. editor \in EditorRecords /\ OpenInOrder(editor, deck)
  <2>1. ClosedEditor.timer = FALSE
    BY DEF ClosedEditor
  <2> QED
    BY <2>1 DEF EditorInOrder, SyncStudied
<1>2. editor' = Persist(Persist(ed, "first"), "second")
  BY DEF SyncStudied
<1>3. ASSUME NEW p \in Positions
      PROVE  StudiedNow(editor, p) \in Studies /\ StudiedNow(editor, p).input = EditedInput(editor, p)
  <2>1. EditedInput(editor, p) \in Inputs \cup {None} /\ editor.studied[p] \in Studies
    <3>1. <<editor.opponent, p>> \in Volets /\ editor.plans \in Plans /\ editor.library \in Nat
      BY <1>1 DEF OpenInOrder, EditorRecords, Volets
    <3> QED
      BY <1>1, <3>1, PlanOfFacts, InputFacts DEF EditedInput, EditorRecords
  <2> QED
    BY <2>1 DEF StudiedNow, EditedInput, NotStudied, Studies
<1>4. /\ ed \in EditorRecords /\ ed.at = editor.at /\ ed.opponent = editor.opponent /\ ed.library = editor.library
      /\ ed.revision = editor.revision /\ ed.plans = editor.plans /\ ed.dirty = editor.dirty
      /\ ed.requests = editor.requests
      /\ \A p \in Positions : ed.studied[p].input = EditedInput(editor, p)
  <2>1. studied \in [Positions -> Studies]
    BY <1>3
  <2>2. \A p \in Positions : studied[p].input = EditedInput(editor, p)
    BY <1>3
  <2> HIDE DEF studied
  <2> QED
    BY <1>1, <2>1, <2>2 DEF EditorRecords
<1> HIDE DEF ed
<1>5. OpenInOrder(ed, deck)
  BY <1>1, <1>4 DEF OpenInOrder, EditedInput
<1>6. deck \in Decks /\ "first" \in Positions /\ "second" \in Positions
  BY DEF ServerTypes, Positions
<1> DEFINE once == Persist(ed, "first")
<1>7. once \in EditorRecords /\ OpenInOrder(once, deck)
  BY <1>4, <1>5, <1>6, PersistOk
<1> HIDE DEF once
<1>8. Persist(once, "second") \in EditorRecords /\ OpenInOrder(Persist(once, "second"), deck)
  BY <1>6, <1>7, PersistOk
<1> QED
  BY <1>2, <1>8 DEF EditorInOrder, once

\* A request is written, answered or lost.
LEMMA RequestOk ==
    ASSUME ServerTypes, EditorInOrder(editor, deck), NEW r \in editor.requests,
           EditorPuts(r) \/ EditorIsAnswered(r) \/ EditorLosesAnswer(r)
    PROVE  EditorInOrder(editor', deck) /\ rows' \in Kept
<1>1. editor \in EditorRecords /\ OpenInOrder(editor, deck) /\ r \in PutRequests /\ RequestInOrder(r, deck)
  <2>1. ClosedEditor.requests = {}
    BY DEF ClosedEditor
  <2> QED
    BY <2>1 DEF EditorInOrder, OpenInOrder, EditorRecords
<1>2. rows' \in Kept
  BY <1>1 DEF EditorPuts, EditorIsAnswered, EditorLosesAnswer, PutSummary, serverVars, ServerTypes, Kept, PutRequests
<1>3. /\ editor' \in EditorRecords
      /\ editor'.at = editor.at /\ editor'.opponent = editor.opponent /\ editor'.library = editor.library
      /\ editor'.revision = editor.revision /\ editor'.plans = editor.plans /\ editor'.dirty = editor.dirty
      /\ editor'.timer = editor.timer /\ editor'.studied = editor.studied
      /\ \A q \in editor'.requests : RequestInOrder(q, deck)
  <2>1. CASE EditorPuts(r)
    <3> DEFINE outcome == Outcome(r.volet, r.summary, r.revision)
               sent == [r EXCEPT !.outcome = outcome]
    <3>1. outcome \in Outcomes
      BY DEF Outcome, Outcomes
    <3> HIDE DEF outcome
    <3>2. /\ sent \in PutRequests /\ sent.volet = r.volet /\ sent.summary = r.summary /\ sent.revision = r.revision
          /\ sent.late = r.late
      BY <1>1, <3>1 DEF PutRequests
    <3>3. editor' = [editor EXCEPT !.requests = (@ \ {r}) \cup {sent}]
      BY <2>1 DEF EditorPuts, outcome
    <3> HIDE DEF sent
    <3>4. RequestInOrder(sent, deck)
      BY <1>1, <3>2 DEF RequestInOrder
    <3> QED
      BY <1>1, <3>2, <3>3, <3>4 DEF EditorRecords, OpenInOrder
  <2>2. CASE EditorIsAnswered(r)
    <3> DEFINE stored == [editor.stored EXCEPT ![r.volet] = IF r.outcome = "written" THEN r.summary ELSE @]
               persisted == IF r.outcome = "written" THEN editor.persisted
                            ELSE editor.persisted \ {Key(r.volet, r.summary, r.revision)}
    <3>1. stored \in Kept /\ persisted \in SUBSET (Volets \X Computations \X Nat)
      BY <1>1 DEF EditorRecords, PutRequests, Kept
    <3>2. editor' = [editor EXCEPT !.requests = @ \ {r}, !.stored = stored, !.persisted = persisted]
      BY <1>1, <2>2 DEF EditorIsAnswered, EditorRecords
    <3> HIDE DEF stored, persisted
    <3> QED
      BY <1>1, <3>1, <3>2 DEF EditorRecords, OpenInOrder
  <2>3. CASE EditorLosesAnswer(r)
    <3>1. editor' = [editor EXCEPT !.requests = @ \ {r},
                                   !.persisted = @ \ {Key(r.volet, r.summary, r.revision)}]
      BY <2>3 DEF EditorLosesAnswer
    <3> QED
      BY <1>1, <3>1 DEF EditorRecords, OpenInOrder
  <2> QED
    BY <2>1, <2>2, <2>3
<1>4. OpenInOrder(editor', deck)
  BY <1>1, <1>3 DEF OpenInOrder, EditedInput
<1> QED
  BY <1>2, <1>3, <1>4 DEF EditorInOrder

-----------------------------------------------------------------------------
(* The sheet, the editor and the other pages *)

\* Annotations and builds change nothing that a page has read; a save makes another revision.
LEMMA ElsewhereOk ==
    ASSUME ServerTypes, SheetsInOrder, EditorInOrder(editor, deck), Elsewhere
    PROVE  ServerTypes' /\ SheetsInOrder' /\ EditorInOrder(editor', deck')
<1>1. /\ deck \in Decks /\ deck.revision \in Nat /\ deck.plans \in Plans /\ library \in Nat /\ rows \in Kept
      /\ deployed \in Nat /\ gestures \in Nat
  BY DEF ServerTypes, Decks
<1>2. sheet' = sheet /\ editor' = editor /\ gestures' \in Nat
  <2>1. sheet' = sheet /\ editor' = editor /\ Gesture
    BY DEF Elsewhere, Rename, SaveElsewhere, Annotate, Deploy
  <2> QED
    BY <1>1, <2>1 DEF Gesture
<1>3. CASE Annotate \/ Deploy
  <2>1. deck' = deck /\ rows' = rows /\ library' \in Nat /\ deployed' \in Nat
    BY <1>1, <1>3 DEF Annotate, Deploy
  <2> QED
    BY <1>1, <1>2, <2>1 DEF ServerTypes, SheetsInOrder
<1>4. CASE ~(Annotate \/ Deploy)
  <2>1. /\ deck' \in Decks /\ deck.revision < deck'.revision /\ rows' \in Kept
        /\ library' = library /\ deployed' = deployed
    <3>1. CASE Rename
      BY <1>1, <3>1 DEF Rename, Decks
    <3>2. ASSUME NEW x \in Saves, SaveElsewhere([deck.plans EXCEPT ![x[1]] = x[2]])
          PROVE  /\ deck' \in Decks /\ deck.revision < deck'.revision /\ rows' \in Kept
                 /\ library' = library /\ deployed' = deployed
      <4> DEFINE plans == [deck.plans EXCEPT ![x[1]] = x[2]]
      <4>1. x[1] \in Volets /\ x[2] \in Exchanges \cup {Absent}
        BY PlanFiguresAssumption
      <4>2. plans \in Plans
        BY <1>1, <4>1 DEF Plans
      <4>3. deck' = [revision |-> deck.revision + 1, plans |-> plans] /\ rows' = RowsKept(plans)
            /\ library' = library /\ deployed' = deployed
        BY <3>2 DEF SaveElsewhere
      <4> HIDE DEF plans
      <4>4. RowsKept(plans) \in Kept
        BY <1>1 DEF RowsKept, Kept
      <4> QED
        BY <1>1, <4>2, <4>3, <4>4 DEF Decks
    <3> QED
      BY <1>4, <3>1, <3>2 DEF Elsewhere
  <2>2. EditorInOrder(editor, deck')
    BY <1>1, <2>1, EditorOutlivesSave
  <2>3. \A s \in Sheets : SheetInOrder(sheet[s], deck')
    BY <1>1, <2>1, SheetOutlivesSave DEF SheetsInOrder
  <2> QED
    BY <1>1, <1>2, <2>1, <2>2, <2>3 DEF ServerTypes, SheetsInOrder
<1> QED
  BY <1>3, <1>4

LEMMA EditorStepOk ==
    ASSUME PagesInv, EditorStep
    PROVE  ServerTypes' /\ SheetsInOrder' /\ EditorInOrder(editor', deck')
<1>1. ServerTypes /\ SheetsInOrder /\ EditorInOrder(editor, deck)
  BY DEF PagesInv
<1>2. /\ sheet' = sheet /\ library' = library /\ deployed' = deployed /\ (Gesture \/ gestures' = gestures)
      /\ SavePlans \/ deck' = deck
  BY DEF EditorStep, OpenEditor, EditPlan, RemoveOpponent, SavePlans, SyncStudied, StudyAnswer, EditorPuts, PutSummary,
         EditorIsAnswered, EditorLosesAnswer, serverVars
<1>3. gestures' \in Nat
  BY <1>1, <1>2 DEF Gesture, ServerTypes
<1>4. CASE SavePlans
  <2>1. deck' \in Decks /\ deck.revision < deck'.revision /\ rows' \in Kept /\ EditorInOrder(editor', deck')
    BY <1>4, SavePlansOk
  <2>2. \A s \in Sheets : SheetInOrder(sheet[s], deck')
    BY <1>1, <2>1, SheetOutlivesSave DEF SheetsInOrder, ServerTypes
  <2> QED
    BY <1>1, <1>2, <1>3, <2>1, <2>2 DEF ServerTypes, SheetsInOrder
<1>5. CASE ~SavePlans
  <2>1. EditorInOrder(editor', deck) /\ rows' \in Kept
    <3>1. CASE \E r \in editor.requests : EditorPuts(r) \/ EditorIsAnswered(r) \/ EditorLosesAnswer(r)
      BY <1>1, <3>1, RequestOk
    <3>2. CASE ~\E r \in editor.requests : EditorPuts(r) \/ EditorIsAnswered(r) \/ EditorLosesAnswer(r)
      <4>1. rows' = rows
        BY <1>5, <3>2 DEF EditorStep, OpenEditor, EditPlan, RemoveOpponent, SyncStudied, StudyAnswer, serverVars
      <4>2. EditorInOrder(editor', deck)
        BY <1>1, <1>5, <3>2, OpenEditorOk, EditOk, SyncStudiedOk, StudyAnswerOk DEF EditorStep
      <4> QED
        BY <1>1, <4>1, <4>2 DEF ServerTypes
    <3> QED
      BY <3>1, <3>2
  <2> QED
    BY <1>1, <1>2, <1>3, <1>5, <2>1 DEF ServerTypes, SheetsInOrder
<1> QED
  BY <1>4, <1>5

LEMMA FiguresStepOk ==
    ASSUME PagesInv, FiguresNext
    PROVE  ServerTypes' /\ SheetsInOrder' /\ EditorInOrder(editor', deck')
<1>1. CASE Elsewhere
  BY <1>1, ElsewhereOk DEF PagesInv
<1>2. CASE \E s \in Sheets : SheetStep(s)
  <2>1. ServerTypes' /\ SheetsInOrder' /\ deck' = deck /\ editor' = editor
    BY <1>2, SheetStepOk DEF PagesInv
  <2> QED
    BY <2>1 DEF PagesInv
<1>3. CASE EditorStep
  BY <1>3, EditorStepOk
<1> QED
  BY <1>1, <1>2, <1>3 DEF FiguresNext

-----------------------------------------------------------------------------
(* The comparison *)

LEMMA UnstartedTyped ==
    /\ Unstarted \in LoadRecords /\ [Unstarted EXCEPT !.at = "over"] \in LoadRecords /\ Loading \in Screens
    /\ \A to \in Addresses, version \in Nat :
          [Unstarted EXCEPT !.at = "reading", !.of = to, !.version = version] \in LoadRecords
  BY DEF Unstarted, LoadRecords, Loading, Screens

\* A load that has not started, or is over, does not depend on where the page is; neither does one
\* that was cleaned up.
LEMMA IdleLoad ==
    ASSUME NEW l \in LoadRecords, l.at \notin {"reading", "computing"}, NEW at
    PROVE  LoadInOrder(l, at)
  BY DEF LoadInOrder

LEMMA CleanedLoad ==
    ASSUME NEW l, NEW at, LoadInOrder(l, at), l.at \in {"reading", "computing"}, NEW elsewhere
    PROVE  Cleaned(l) \in LoadRecords /\ LoadInOrder(Cleaned(l), elsewhere)
<1>1. CASE l.at = "computing"
  <2>1. Cleaned(l) = [Unstarted EXCEPT !.at = "over"] /\ Cleaned(l).at = "over"
    BY <1>1 DEF Cleaned, Unstarted
  <2> QED
    BY <2>1, UnstartedTyped, IdleLoad
<1>2. CASE l.at = "reading"
  <2> DEFINE q == [l EXCEPT !.cancelled = TRUE]
  <2>1. Cleaned(l) = q
    BY <1>2 DEF Cleaned
  <2>2. q \in LoadRecords /\ q.at = "reading" /\ q.cancelled /\ q.of = l.of /\ q.results = l.results
    BY <1>2 DEF LoadInOrder, LoadRecords
  <2> HIDE DEF q
  <2>3. LoadInOrder(q, elsewhere)
    BY <1>2, <2>2 DEF LoadInOrder
  <2> QED
    BY <2>1, <2>2, <2>3
<1> QED
  BY <1>1, <1>2

\* The deck after one of its plans, or as it is.
LEMMA SideFacts ==
    ASSUME NEW l \in LoadRecords, NEW i \in Sides, l.of \in Addresses, l.details[i] \in Plans, l.library \in Nat,
           SideInput(l, i) # None
    PROVE  SideInput(l, i) \in Inputs /\ (l.of[i] = Base => SideInput(l, i).swap = NoExchange.swap)
<1> DEFINE e == SideExchange(l.details[i], l.of[i])
<1>1. e # None /\ SideInput(l, i) = Input(e, l.library)
  BY DEF SideInput
<1>2. l.of[i] = Base => e = NoExchange
  BY DEF SideExchange
<1>3. e \in Exchanges
  <2>1. CASE l.of[i] = Base
    BY <1>2, <2>1, PlanFiguresAssumption
  <2>2. CASE l.of[i] # Base
    <3>1. l.of[i] \in Volets
      BY <2>2, ComparisonAssumption DEF Targets
    <3>2. e = PlanOf(l.details[i], l.of[i])
      BY <1>1, <2>2 DEF SideExchange
    <3> QED
      BY <3>1, <3>2, PlanOfFacts
  <2> QED
    BY <2>1, <2>2
<1> HIDE DEF e
<1> QED
  BY <1>1, <1>2, <1>3, InputFacts

ShowsComparison(screen, at) ==
    screen.is # "loading" =>
        /\ screen.of = at
        /\ screen.is = "ready" =>
               \A i \in Sides, p \in Positions :
                   /\ screen.results[i][p][2] = p
                   /\ at[i] = Base => screen.results[i][p][3].swap = NoExchange.swap

LEMMA ComparisonParts ==
    ComparisonInOrder <=>
        /\ address \in Addresses \cup {None} /\ load \in [Loads -> LoadRecords] /\ shown \in Screens
        /\ \A n \in Loads : LoadInOrder(load[n], address)
        /\ ShowsComparison(shown, address)
  BY DEF ComparisonInOrder, ComparisonIsOfItsAddress, ShowsComparison

\* Going to another address, or away.
LEMMA GoneElsewhere ==
    ASSUME ComparisonInOrder, NEW to \in Addresses \cup {None}, address' = to, shown' = Loading,
           load' \in [Loads -> LoadRecords],
           \A k \in Loads :
               \/ load'[k] = load[k] /\ load[k].at \notin {"reading", "computing"}
               \/ load'[k] = Cleaned(load[k]) /\ load[k].at \in {"reading", "computing"}
               \/ LoadInOrder(load'[k], to)
    PROVE  ComparisonInOrder'
<1>1. ASSUME NEW k \in Loads PROVE LoadInOrder(load'[k], to)
  <2>1. load[k] \in LoadRecords /\ LoadInOrder(load[k], address)
    BY DEF ComparisonInOrder
  <2>2. load[k].at \notin {"reading", "computing"} => LoadInOrder(load[k], to)
    BY <2>1, IdleLoad
  <2>3. load[k].at \in {"reading", "computing"} => LoadInOrder(Cleaned(load[k]), to)
    BY <2>1, CleanedLoad
  <2> QED
    BY <2>2, <2>3
<1>2. Loading \in Screens /\ Loading.is = "loading"
  BY UnstartedTyped DEF Loading
<1> QED
  BY <1>1, <1>2 DEF ComparisonInOrder, ComparisonIsOfItsAddress

LEMMA GoToOk ==
    ASSUME ServerTypes, ComparisonInOrder, NEW to \in Addresses, NEW n \in Loads, GoTo(to, n)
    PROVE  ComparisonInOrder'
<1> DEFINE new == [Unstarted EXCEPT !.at = "reading", !.of = to, !.version = deployed]
<1>1. /\ address' = to /\ shown' = Loading /\ load[n].at = "unstarted"
      /\ load' = [k \in Loads |-> CASE k = n -> new
                                    [] load[k].at \in {"reading", "computing"} -> Cleaned(load[k])
                                    [] OTHER -> load[k]]
  BY DEF GoTo
<1>2. /\ new \in LoadRecords /\ new.at = "reading" /\ new.of = to /\ new.cancelled = FALSE
      /\ \A i \in Sides : new.results[i] = None
  BY UnstartedTyped DEF ServerTypes, Unstarted
<1> HIDE DEF new
<1>3. LoadInOrder(new, to)
  BY <1>2, ComparisonAssumption DEF LoadInOrder
<1>4. ASSUME NEW k \in Loads
      PROVE  /\ load'[k] \in LoadRecords
             /\ \/ load'[k] = load[k] /\ load[k].at \notin {"reading", "computing"}
                \/ load'[k] = Cleaned(load[k]) /\ load[k].at \in {"reading", "computing"}
                \/ LoadInOrder(load'[k], to)
  <2>1. load[k] \in LoadRecords /\ LoadInOrder(load[k], address)
    BY DEF ComparisonInOrder
  <2>2. CASE k = n
    BY <1>1, <1>2, <1>3, <2>2
  <2>3. CASE k # n /\ load[k].at \in {"reading", "computing"}
    BY <1>1, <2>1, <2>3, CleanedLoad
  <2>4. CASE k # n /\ load[k].at \notin {"reading", "computing"}
    BY <1>1, <2>1, <2>4
  <2> QED
    BY <2>2, <2>3, <2>4
<1>5. load' \in [Loads -> LoadRecords]
  BY <1>1, <1>4
<1> QED
  BY <1>1, <1>4, <1>5, GoneElsewhere

LEMMA LeaveComparisonOk ==
    ASSUME ServerTypes, ComparisonInOrder, LeaveComparison
    PROVE  ComparisonInOrder'
<1>1. /\ address' = None /\ shown' = Loading
      /\ load' = [k \in Loads |-> IF load[k].at \in {"reading", "computing"} THEN Cleaned(load[k]) ELSE load[k]]
  BY DEF LeaveComparison
<1>2. ASSUME NEW k \in Loads
      PROVE  /\ load'[k] \in LoadRecords
             /\ \/ load'[k] = load[k] /\ load[k].at \notin {"reading", "computing"}
                \/ load'[k] = Cleaned(load[k]) /\ load[k].at \in {"reading", "computing"}
  <2>1. load[k] \in LoadRecords /\ LoadInOrder(load[k], address)
    BY DEF ComparisonInOrder
  <2> QED
    BY <1>1, <2>1, CleanedLoad
<1>3. load' \in [Loads -> LoadRecords]
  BY <1>1, <1>2
<1> QED
  BY <1>1, <1>2, <1>3, GoneElsewhere

LEMMA ReadToCompareOk ==
    ASSUME ServerTypes, ComparisonInOrder, NEW n \in Loads,
           (\E i \in Sides : ReadSide(n, i)) \/ ReadLibraryToCompare(n)
    PROVE  ComparisonInOrder'
<1> DEFINE l == load[n]
<1>1. /\ l \in LoadRecords /\ LoadInOrder(l, address) /\ l.at = "reading" /\ address' = address /\ shown' = shown
  BY DEF ComparisonInOrder, ReadSide, ReadLibraryToCompare
<1>2. PICK q \in LoadRecords :
          /\ load' = [load EXCEPT ![n] = q]
          /\ q.at = "reading" /\ q.of = l.of /\ q.cancelled = l.cancelled /\ q.results = l.results
  <2>1. ASSUME NEW i \in Sides, ReadSide(n, i)
        PROVE  \E q \in LoadRecords :
                   /\ load' = [load EXCEPT ![n] = q]
                   /\ q.at = "reading" /\ q.of = l.of /\ q.cancelled = l.cancelled /\ q.results = l.results
    <3> DEFINE q == [l EXCEPT !.details = [l.details EXCEPT ![i] = deck.plans]]
    <3>1. q \in LoadRecords /\ q.at = "reading" /\ q.of = l.of /\ q.cancelled = l.cancelled /\ q.results = l.results
      BY <1>1 DEF LoadRecords, ServerTypes, Decks
    <3>2. load' = [load EXCEPT ![n] = q]
      BY <1>1, <2>1 DEF ReadSide, ComparisonInOrder, LoadRecords
    <3> QED
      BY <3>1, <3>2
  <2>2. ASSUME ReadLibraryToCompare(n)
        PROVE  \E q \in LoadRecords :
                   /\ load' = [load EXCEPT ![n] = q]
                   /\ q.at = "reading" /\ q.of = l.of /\ q.cancelled = l.cancelled /\ q.results = l.results
    <3> DEFINE q == [l EXCEPT !.library = library]
    <3>1. q \in LoadRecords /\ q.at = "reading" /\ q.of = l.of /\ q.cancelled = l.cancelled /\ q.results = l.results
      BY <1>1 DEF LoadRecords, ServerTypes
    <3>2. load' = [load EXCEPT ![n] = q]
      BY <1>1, <2>2 DEF ReadLibraryToCompare, ComparisonInOrder, LoadRecords
    <3> QED
      BY <3>1, <3>2
  <2> QED
    BY <2>1, <2>2
<1>3. LoadInOrder(q, address)
  BY <1>1, <1>2 DEF LoadInOrder
<1>4. \A k \in Loads : LoadInOrder(load'[k], address)
  BY <1>2, <1>3 DEF ComparisonInOrder
<1>5. load' \in [Loads -> LoadRecords]
  BY <1>2 DEF ComparisonInOrder
<1> QED
  BY <1>1, <1>4, <1>5 DEF ComparisonInOrder, ComparisonIsOfItsAddress

\* A load that is over shows what it has found, unless it was cancelled.
LEMMA ConcludeOk ==
    ASSUME ComparisonInOrder, NEW n \in Loads, NEW result \in Screens, Conclude(n, result), address' = address,
           ~load[n].cancelled => ShowsComparison(result, address)
    PROVE  ComparisonInOrder'
<1> DEFINE over == [Unstarted EXCEPT !.at = "over"]
<1>1. over \in LoadRecords /\ over.at = "over"
  BY UnstartedTyped DEF Unstarted
<1>2. load' = [load EXCEPT ![n] = over] /\ shown' = IF load[n].cancelled THEN shown ELSE result
  BY DEF Conclude
<1> HIDE DEF over
<1>3. LoadInOrder(over, address)
  BY <1>1, IdleLoad
<1>4. load' \in [Loads -> LoadRecords] /\ \A k \in Loads : LoadInOrder(load'[k], address)
  BY <1>1, <1>2, <1>3 DEF ComparisonInOrder
<1>5. ShowsComparison(shown', address) /\ shown' \in Screens
  BY <1>2, ComparisonParts
<1> QED
  BY <1>4, <1>5 DEF ComparisonInOrder, ComparisonIsOfItsAddress, ShowsComparison

LEMMA FailedScreen ==
    ASSUME ComparisonInOrder, NEW n \in Loads, load[n].at \in {"reading", "computing"}
    PROVE  /\ Failed(load[n]) \in Screens
           /\ ~load[n].cancelled => ShowsComparison(Failed(load[n]), address)
<1>1. load[n].of \in Addresses /\ (~load[n].cancelled => load[n].of = address)
  BY DEF ComparisonInOrder, LoadInOrder
<1>2. Failed(load[n]) \in Screens /\ Failed(load[n]).of = load[n].of /\ Failed(load[n]).is = "error"
  BY <1>1, UnstartedTyped DEF Failed, Loading, Screens
<1> QED
  BY <1>1, <1>2 DEF ShowsComparison

LEMMA LoadFailsOk ==
    ASSUME ComparisonInOrder, NEW n \in Loads, ReadFails(n) \/ ComputeSideFails(n)
    PROVE  ComparisonInOrder'
<1>1. load[n].at \in {"reading", "computing"} /\ Conclude(n, Failed(load[n])) /\ address' = address
  BY DEF ReadFails, ComputeSideFails
<1> QED
  BY <1>1, FailedScreen, ConcludeOk

LEMMA StartComparingOk ==
    ASSUME ComparisonInOrder, NEW n \in Loads, StartComparing(n)
    PROVE  ComparisonInOrder'
<1> DEFINE l == load[n]
           q == [l EXCEPT !.at = "computing"]
<1>1. /\ l \in LoadRecords /\ LoadInOrder(l, address) /\ l.at = "reading" /\ address' = address
      /\ l.library # None /\ \A i \in Sides : l.details[i] # None
  BY DEF ComparisonInOrder, StartComparing
<1>2. CASE l.cancelled \/ ~Comparable(l)
  BY <1>1, <1>2, FailedScreen, ConcludeOk DEF StartComparing
<1>3. CASE ~(l.cancelled \/ ~Comparable(l))
  <2>1. load' = [load EXCEPT ![n] = q] /\ shown' = shown
    BY <1>1, <1>3 DEF StartComparing, ComparisonInOrder, LoadRecords
  <2>2. /\ q \in LoadRecords /\ q.at = "computing" /\ q.of = l.of /\ q.cancelled = l.cancelled /\ q.results = l.results
        /\ q.library = l.library /\ q.details = l.details /\ q.version = l.version
    BY <1>1 DEF LoadRecords
  <2> HIDE DEF q
  <2>3. \A i \in Sides : SideInput(q, i) = SideInput(l, i) /\ SideInput(l, i) # None
    BY <1>3, <2>2 DEF SideInput, Comparable
  <2>4. LoadInOrder(q, address)
    BY <1>1, <2>2, <2>3 DEF LoadInOrder
  <2>5. load' \in [Loads -> LoadRecords] /\ \A k \in Loads : LoadInOrder(load'[k], address)
    BY <2>1, <2>2, <2>4 DEF ComparisonInOrder
  <2> QED
    BY <1>1, <2>1, <2>5 DEF ComparisonInOrder, ComparisonIsOfItsAddress
<1> QED
  BY <1>2, <1>3

LEMMA ComputeSideOk ==
    ASSUME ComparisonInOrder, NEW n \in Loads, NEW i \in Sides, ComputeSide(n, i)
    PROVE  ComparisonInOrder'
<1> DEFINE l == load[n]
           sided == [p \in Positions |-> Figures(l.version, p, SideInput(l, i))]
           q == [l EXCEPT !.results = [l.results EXCEPT ![i] = sided]]
<1>1. /\ l \in LoadRecords /\ LoadInOrder(l, address) /\ l.at = "computing" /\ address' = address /\ shown' = shown
  BY DEF ComparisonInOrder, ComputeSide
<1>2. SideInput(l, i) \in Inputs
  <2>1. l.details[i] \in Plans /\ l.library \in Nat /\ l.of \in Addresses /\ SideInput(l, i) # None
    BY <1>1 DEF LoadInOrder, LoadRecords
  <2> QED
    BY <1>1, <2>1, SideFacts
<1>3. sided \in Sided
  <2>1. l.version \in Nat
    BY <1>1 DEF LoadRecords
  <2> QED
    BY <1>2, <2>1 DEF Sided, Figures, Computations
<1>4. load' = [load EXCEPT ![n] = q]
  BY <1>1 DEF ComputeSide, ComparisonInOrder, LoadRecords
<1>5. /\ q \in LoadRecords /\ q.at = "computing" /\ q.of = l.of /\ q.cancelled = l.cancelled
      /\ q.library = l.library /\ q.details = l.details /\ q.version = l.version
      /\ q.results[i] = sided /\ \A k \in Sides \ {i} : q.results[k] = l.results[k]
  <2> HIDE DEF sided
  <2> QED
    BY <1>1, <1>3 DEF LoadRecords
<1> HIDE DEF q
<1>6. \A k \in Sides : SideInput(q, k) = SideInput(l, k)
  BY <1>5 DEF SideInput
<1>7. LoadInOrder(q, address)
  <2>1. ASSUME NEW k \in Sides, q.results[k] # None
        PROVE  q.results[k] = [p \in Positions |-> Figures(q.version, p, SideInput(q, k))]
    <3>1. CASE k = i
      BY <1>5, <1>6, <3>1
    <3>2. CASE k # i
      BY <1>1, <1>5, <1>6, <2>1, <3>2 DEF LoadInOrder
    <3> QED
      BY <3>1, <3>2
  <2> HIDE DEF sided
  <2> QED
    BY <1>1, <1>5, <1>6, <2>1 DEF LoadInOrder
<1>8. load' \in [Loads -> LoadRecords] /\ \A k \in Loads : LoadInOrder(load'[k], address)
  BY <1>4, <1>5, <1>7 DEF ComparisonInOrder
<1> QED
  BY <1>1, <1>8 DEF ComparisonInOrder, ComparisonIsOfItsAddress

LEMMA ShowComparisonOk ==
    ASSUME ComparisonInOrder, NEW n \in Loads, ShowComparison(n)
    PROVE  ComparisonInOrder'
<1> DEFINE l == load[n]
           result == [is |-> "ready", of |-> l.of, results |-> l.results]
<1>1. /\ l \in LoadRecords /\ LoadInOrder(l, address) /\ l.at = "computing" /\ address' = address
      /\ Conclude(n, result) /\ \A i \in Sides : l.results[i] # None
  BY DEF ComparisonInOrder, ShowComparison
<1>2. result \in Screens
  BY <1>1 DEF Screens, LoadRecords
<1>3. ASSUME NEW i \in Sides, NEW p \in Positions
      PROVE  /\ l.results[i][p][2] = p
             /\ l.of[i] = Base => l.results[i][p][3].swap = NoExchange.swap
  <2>1. l.details[i] \in Plans /\ l.library \in Nat /\ l.of \in Addresses /\ SideInput(l, i) # None
        /\ l.results[i] = [x \in Positions |-> Figures(l.version, x, SideInput(l, i))]
    BY <1>1 DEF LoadInOrder, LoadRecords
  <2>2. l.results[i][p] = <<l.version, p, SideInput(l, i)>>
    BY <2>1 DEF Figures
  <2>3. l.of[i] = Base => SideInput(l, i).swap = NoExchange.swap
    BY <1>1, <2>1, SideFacts
  <2> QED
    BY <2>2, <2>3
<1>4. ~l.cancelled => l.of = address
  BY <1>1 DEF LoadInOrder
<1>5. ~l.cancelled => ShowsComparison(result, address)
  BY <1>3, <1>4 DEF ShowsComparison
<1> HIDE DEF result
<1> QED
  BY <1>1, <1>2, <1>5, ConcludeOk

LEMMA CompareStepOk ==
    ASSUME PagesInv, CompareStep
    PROVE  PagesInv'
<1>1. ComparisonInOrder'
  <2>1. ServerTypes /\ ComparisonInOrder
    BY DEF PagesInv
  <2> QED
    BY <2>1, GoToOk, LeaveComparisonOk, ReadToCompareOk, LoadFailsOk, StartComparingOk, ComputeSideOk,
       ShowComparisonOk DEF CompareStep, LoadRuns
<1>2. /\ deck' = deck /\ library' = library /\ rows' = rows /\ deployed' = deployed /\ sheet' = sheet
      /\ editor' = editor /\ (Gesture \/ gestures' = gestures)
  BY DEF CompareStep, LoadRuns, GoTo, LeaveComparison, ReadSide, ReadLibraryToCompare, ReadFails, StartComparing,
         ComputeSide, ComputeSideFails, ShowComparison, serverVars, figureVars
<1>3. gestures' \in Nat
  BY <1>2 DEF PagesInv, ServerTypes, Gesture
<1> QED
  BY <1>1, <1>2, <1>3 DEF PagesInv, ServerTypes, SheetsInOrder

-----------------------------------------------------------------------------
(* The theorems *)

LEMMA PagesInitOk == PagesInit => PagesInv
<1> SUFFICES ASSUME PagesInit PROVE PagesInv
  OBVIOUS
<1>1. /\ deck \in [revision : {1}, plans : [Volets -> Exchanges \cup {Absent}]] /\ library \in 1..MaxLibrary
      /\ rows \in [Volets -> Earlier] /\ deployed = 1 /\ gestures = 0
      /\ sheet = [s \in Sheets |-> ClosedSheet] /\ editor = ClosedEditor
      /\ address = None /\ load = [n \in Loads |-> Unstarted] /\ shown = Loading
  BY DEF PagesInit, FiguresInit, FiguresStart, CompareInit
<1>2. Earlier \subseteq Genuine \cup {None}
  <2>1. ASSUME NEW p \in Positions, NEW e \in Exchanges, Ready(e), NEW lib \in 1..MaxLibrary
        PROVE  Summary(1, p, Input(e, lib)) \in Genuine
    <3>1. lib \in Nat /\ 1 \in Nat
      BY PlanFiguresAssumption
    <3>2. Input(e, lib) \in Inputs
      BY <2>1, <3>1, InputFacts
    <3> QED
      BY <3>1, <3>2, SummaryFacts
  <2> QED
    BY <2>1 DEF Earlier
<1>3. ServerTypes
  <2>1. library \in Nat
    BY <1>1, PlanFiguresAssumption
  <2>2. rows \in Kept
    BY <1>1, <1>2 DEF Kept
  <2>3. deck \in Decks
    BY <1>1 DEF Decks, Plans
  <2> QED
    BY <1>1, <2>1, <2>2, <2>3 DEF ServerTypes
<1>4. SheetsInOrder
  <2>1. ClosedSheet \in SheetRecords /\ SheetInOrder(ClosedSheet, deck)
    BY ClosedSheetInOrder DEF SheetInOrder, LoadedInOrder
  <2> QED
    BY <1>1, <2>1 DEF SheetsInOrder
<1>5. EditorInOrder(editor, deck)
  BY <1>1, ClosedEditorTyped DEF EditorInOrder
<1>6. ComparisonInOrder
  <2>1. Unstarted \in LoadRecords /\ Unstarted.at = "unstarted" /\ Loading \in Screens /\ Loading.is = "loading"
    BY UnstartedTyped DEF Unstarted, Loading
  <2>2. LoadInOrder(Unstarted, None)
    BY <2>1, IdleLoad
  <2> QED
    BY <1>1, <2>1, <2>2 DEF ComparisonInOrder, ComparisonIsOfItsAddress
<1> QED
  BY <1>3, <1>4, <1>5, <1>6 DEF PagesInv

LEMMA PagesNextOk == PagesInv /\ [PagesNext]_pagesVars => PagesInv'
<1> SUFFICES ASSUME PagesInv, [PagesNext]_pagesVars PROVE PagesInv'
  OBVIOUS
<1>1. CASE CompareStep
  BY <1>1, CompareStepOk
<1>2. CASE FiguresNext /\ UNCHANGED compareVars
  BY <1>2, FiguresStepOk DEF PagesInv, ComparisonInOrder, ComparisonIsOfItsAddress, compareVars
<1>3. CASE UNCHANGED pagesVars
  BY <1>3 DEF PagesInv, ServerTypes, SheetsInOrder, ComparisonInOrder, ComparisonIsOfItsAddress, pagesVars,
              figureVars, serverVars, compareVars
<1> QED
  BY <1>1, <1>2, <1>3 DEF PagesNext

\* Figures kept anywhere are of what their fingerprint says; the pages of the sheet, the editor and
\* the comparison know what they have read, run and sent.
THEOREM PagesKeepTheirFigures == PagesSpec => []PagesInv
<1> QED
  BY PagesInitOk, PagesNextOk, PTL DEF PagesSpec

-----------------------------------------------------------------------------
(* What the pages show *)

LEMMA SheetShowsCurrent ==
    ASSUME NEW saved, NEW p, SheetInOrder(p, saved), p.at = "shown", NEW v \in Volets, Shown(p, v) # None
    PROVE  Shown(p, v).figures = Figures(p.version, v[2], InputOn(p, v))
<1>1. Shown(p, v) = p.stored[v] /\ Usable(p.stored[v], p.version, v[2], InputOn(p, v))
  BY DEF Shown
<1>2. p.stored[v] \in Genuine
  BY <1>1 DEF SheetInOrder, LoadedInOrder, SheetRecords, Kept, Usable
<1>3. p.stored[v].fingerprint = Fingerprint(p.version, v[2], InputOn(p, v))
  BY <1>1 DEF Usable
<1> QED
  BY <1>1, <1>2, <1>3, GenuineFacts

LEMMA InvFiguresAreOfTheirDeck == PagesInv => FiguresAreOfTheirDeck
<1> SUFFICES ASSUME PagesInv PROVE FiguresAreOfTheirDeck
  OBVIOUS
<1>1. ShownIsCurrent
  BY SheetShowsCurrent DEF ShownIsCurrent, PagesInv, SheetsInOrder
<1>2. FiguresFit
  <2>1. ASSUME NEW s \in Sheets
        PROVE  /\ sheet[s].outcome # "refused"
               /\ sheet[s].outcome = "unknown" => sheet[s].detail.plans[sheet[s].plan] = Absent
    <3>1. SheetInOrder(sheet[s], deck)
      BY DEF PagesInv, SheetsInOrder
    <3>2. CASE sheet[s].step = "answer"
      BY <3>1, <3>2 DEF SheetInOrder, RunInOrder
    <3>3. CASE sheet[s].step # "answer"
      <4>1. sheet[s].outcome = None
        BY <3>1, <3>3 DEF SheetInOrder
      <4> QED
        BY <4>1, PlanFiguresAssumption
    <3> QED
      BY <3>2, <3>3
  <2> QED
    BY <2>1 DEF FiguresFit
<1> QED
  BY <1>1, <1>2 DEF FiguresAreOfTheirDeck, PagesInv, ComparisonInOrder

\* The sheet prints, and the comparison shows, figures of the very deck, plan and position they are
\* put beside: whatever other pages and builds have written, and wherever the user has gone meanwhile.
THEOREM FiguresAreOfTheirDeckHolds == PagesSpec => []FiguresAreOfTheirDeck
<1> QED
  BY PagesKeepTheirFigures, InvFiguresAreOfTheirDeck, PTL

-----------------------------------------------------------------------------
(* What is written with a plan *)

\* Figures v are to be kept with is those of the plan saved there.
Describes(m, v) ==
    LET e == deck.plans[v] IN e # Absent /\ Ready(e) /\ m.figures[3].swap = e.swap

\* What the sheet sends is of the plan it has read, and the server keeps that plan still.
LEMMA SheetWritesItsPlan ==
    ASSUME PagesInv, NEW s \in Sheets, SheetPuts(s), NEW v \in Volets, rows'[v] # rows[v]
    PROVE  Describes(rows'[v], v)
<1> DEFINE p == sheet[s]
           outcome == Outcome(p.plan, p.stored[p.plan], p.detail.revision)
<1>1. /\ p \in SheetRecords /\ SheetInOrder(p, deck) /\ RunInOrder(p) /\ p.step = "put" /\ p.at \in {"shown", "left"}
      /\ LoadedInOrder(p, deck)
  BY RunFacts DEF PagesInv, SheetPuts, SheetInOrder
<1>2. p.plan \in Volets /\ InputOn(p, p.plan) # None /\ Sent(p, p.plan)
  BY <1>1 DEF RunInOrder
<1>3. rows' = IF outcome = "written" THEN [rows EXCEPT ![p.plan] = p.stored[p.plan]] ELSE rows
  BY DEF SheetPuts, PutSummary
<1>4. outcome = "written" => Describes(p.stored[p.plan], p.plan)
  BY <1>1, <1>2, OutcomeFacts DEF PagesInv, Describes
<1> HIDE DEF outcome
<1>5. outcome = "written" /\ v = p.plan /\ rows'[v] = p.stored[p.plan]
  BY <1>3 DEF PagesInv, ServerTypes, Kept
<1> QED
  BY <1>4, <1>5

\* What the editor sends in time is of the plan it has saved, or read.
LEMMA EditorWritesItsPlan ==
    ASSUME PagesInv, NEW r \in editor.requests, EditorPuts(r), ~r.late, NEW v \in Volets, rows'[v] # rows[v]
    PROVE  Describes(rows'[v], v) /\ r.volet = v /\ r.summary = rows'[v]
<1>1. r \in PutRequests /\ RequestInOrder(r, deck)
  <2>1. ClosedEditor.requests = {}
    BY DEF ClosedEditor
  <2> QED
    BY <2>1 DEF PagesInv, EditorInOrder, OpenInOrder, EditorRecords
<1>2. /\ Outcome(r.volet, r.summary, r.revision) = "written"
      /\ v = r.volet /\ rows'[v] = r.summary
  BY <1>1 DEF EditorPuts, PutSummary, PagesInv, ServerTypes, Kept, PutRequests
<1>3. r.revision = deck.revision /\ deck.plans[v] # Absent
  BY <1>2 DEF Outcome
<1>4. /\ r.summary.figures = r.summary.fingerprint /\ r.summary.fingerprint[3] \in Inputs
      /\ deck.plans \in Plans
  BY <1>1, GenuineFacts DEF PutRequests, PagesInv, ServerTypes, Decks
<1>5. deck.plans[v] \in Exchanges /\ PlanOf(deck.plans, v) = deck.plans[v]
  BY <1>3, <1>4, PlanOfFacts
<1> DEFINE input == r.summary.fingerprint[3]
<1>6. Input(deck.plans[v], input.library) = input /\ input.library \in Nat /\ input # None
  BY <1>1, <1>2, <1>3, <1>4, <1>5, PlanFiguresAssumption DEF RequestInOrder, Inputs
<1>7. Ready(deck.plans[v]) /\ input.swap = deck.plans[v].swap
  BY <1>5, <1>6, InputFacts
<1> QED
  BY <1>2, <1>3, <1>4, <1>7 DEF Describes

LEMMA RowsChange ==
    ASSUME PagesInv, FiguresNext, NEW v \in Volets, rows'[v] \notin {None, rows[v]}
    PROVE  \/ \E s \in Sheets : SheetPuts(s)
           \/ \E r \in editor.requests : EditorPuts(r)
<1>1. \A plans : RowsKept(plans)[v] \in {None, rows[v]}
  BY DEF RowsKept
<1>2. ~Elsewhere
  <2>1. rows' = rows \/ \E plans : rows' = RowsKept(plans)
        \/ ~Elsewhere
    BY DEF Elsewhere, Rename, SaveElsewhere, Annotate, Deploy
  <2> QED
    BY <1>1, <2>1
<1>3. CASE \E s \in Sheets : SheetStep(s)
  BY <1>3 DEF SheetStep, SheetRuns, OpenSheet, ReadDetail, ReadLibrary, ShowSheet, LeaveSheet, ComputeAll, NextPlan,
              LastPlan, Computed, ComputeFails, SheetIsAnswered, SheetLosesAnswer, serverVars
<1>4. CASE EditorStep
  <2>1. ~SavePlans
    BY <1>1 DEF SavePlans
  <2> QED
    BY <1>4, <2>1 DEF EditorStep, OpenEditor, EditPlan, RemoveOpponent, SyncStudied, StudyAnswer, EditorIsAnswered,
                      EditorLosesAnswer, serverVars
<1> QED
  BY <1>2, <1>3, <1>4 DEF FiguresNext

\* Figures are written with the plan they are of, saved as it is: by any pages of the sheet, and by
\* the editor but between an edit and the synchronisation it schedules.
THEOREM WrittenDescribesSavedHolds == PagesSpec => WrittenDescribesSaved
<1>1. ASSUME PagesInv, [PagesNext]_pagesVars, NEW v \in Volets, rows'[v] \notin {None, rows[v]},
             ~(\E r \in editor.requests : r.volet = v /\ r.summary = rows'[v] /\ Late(r))
      PROVE  LET e == deck.plans[v] IN e # Absent /\ Ready(e) /\ rows'[v].figures[3].swap = e.swap
  <2>1. FiguresNext
    <3>1. rows' # rows
      BY <1>1
    <3>2. CompareStep => rows' = rows
      BY DEF CompareStep, LoadRuns, GoTo, LeaveComparison, ReadSide, ReadLibraryToCompare, ReadFails, StartComparing,
             ComputeSide, ComputeSideFails, ShowComparison, serverVars, figureVars
    <3>3. UNCHANGED pagesVars => rows' = rows
      BY DEF pagesVars, figureVars, serverVars
    <3> QED
      BY <1>1, <3>1, <3>2, <3>3 DEF PagesNext
  <2>2. CASE \E s \in Sheets : SheetPuts(s)
    <3>1. Describes(rows'[v], v)
      BY <1>1, <2>2, SheetWritesItsPlan
    <3> QED
      BY <3>1 DEF Describes
  <2>3. ASSUME NEW r \in editor.requests, EditorPuts(r)
        PROVE  Describes(rows'[v], v)
    <3>1. r.volet = v /\ r.summary = rows'[v]
      <4>1. r.volet \in Volets
        <5>1. ClosedEditor.requests = {}
          BY DEF ClosedEditor
        <5> QED
          BY <1>1, <5>1 DEF PagesInv, EditorInOrder, EditorRecords, PutRequests
      <4> QED
        BY <1>1, <2>3, <4>1 DEF EditorPuts, PutSummary, PagesInv, ServerTypes, Kept
    <3>2. ~r.late
      BY <1>1, <3>1 DEF Late
    <3> QED
      BY <1>1, <2>3, <3>2, EditorWritesItsPlan
  <2> QED
    BY <1>1, <2>1, <2>2, <2>3, RowsChange DEF Describes
<1>2. PagesInv /\ [PagesNext]_pagesVars =>
          [\A v \in Volets :
              rows'[v] \notin {None, rows[v]}
              /\ ~(\E r \in editor.requests : r.volet = v /\ r.summary = rows'[v] /\ Late(r))
              => LET e == deck.plans[v] IN e # Absent /\ Ready(e) /\ rows'[v].figures[3].swap = e.swap]_figureVars
  BY <1>1
<1> QED
  BY <1>2, PagesKeepTheirFigures, PTL DEF PagesSpec, WrittenDescribesSaved

-----------------------------------------------------------------------------
(* A run that ends *)

\* A page whose run ends without an error has nothing pending.
EndsClean(p) == p.step = "none" /\ p.at = "shown" /\ ~p.error => Pending(p) = {}

LEMMA EndRunClean ==
    ASSUME NEW saved, NEW p, LoadedInOrder(p, saved), NEW error \in BOOLEAN,
           error \/ p.at = "left" \/ Pending(p) = {}
    PROVE  EndsClean(EndRun(p, error))
<1>1. p.at = "left" => EndRun(p, error).at = "closed"
  BY DEF EndRun, ClosedSheet
<1> QED
  BY <1>1, EndRunInOrder DEF EndsClean

LEMMA RunStepClean ==
    ASSUME PagesInv, NEW s \in Sheets, sheet[s].step # "none", SheetStep(s)
    PROVE  EndsClean(sheet'[s])
<1> DEFINE p == sheet[s]
<1>1. /\ p \in SheetRecords /\ LoadedInOrder(p, deck) /\ RunInOrder(p) /\ p.at \in {"shown", "left"}
      /\ sheet \in [Sheets -> SheetRecords]
  BY RunFacts DEF PagesInv, SheetsInOrder, SheetInOrder
<1>2. CASE NextPlan(s)
  <2>1. PICK v \in p.todo :
            LET q == [p EXCEPT !.todo = @ \ {v}, !.plan = v] IN
            sheet' = [sheet EXCEPT ![s] =
                CASE Known(q, v) # {} -> Adopt(q, v, CHOOSE m \in Known(q, v) : TRUE)
                  [] Known(q, v) = {} /\ q.at = "shown" -> [q EXCEPT !.step = "compute"]
                  [] OTHER -> EndRun(q, FALSE)]
    BY <1>2 DEF NextPlan
  <2> DEFINE q == [p EXCEPT !.todo = @ \ {v}, !.plan = v]
  <2>2. sheet'[s] = CASE Known(q, v) # {} -> Adopt(q, v, CHOOSE m \in Known(q, v) : TRUE)
                      [] Known(q, v) = {} /\ q.at = "shown" -> [q EXCEPT !.step = "compute"]
                      [] OTHER -> EndRun(q, FALSE)
    BY <1>1, <2>1
  <2>3. q \in SheetRecords /\ q.at = p.at /\ q.detail = p.detail /\ q.library = p.library
    BY <1>1 DEF SheetRecords
  <2> HIDE DEF q
  <2>4. LoadedInOrder(q, deck)
    BY <1>1, <2>3 DEF LoadedInOrder
  <2>5. CASE Known(q, v) # {}
    <3>1. sheet'[s] = Adopt(q, v, CHOOSE m \in Known(q, v) : TRUE)
      BY <2>2, <2>5
    <3>2. sheet'[s].step = "put"
      BY <2>3, <3>1 DEF Adopt, SheetRecords
    <3> QED
      BY <3>2 DEF EndsClean
  <2>6. CASE Known(q, v) = {} /\ q.at = "shown"
    <3>1. sheet'[s] = [q EXCEPT !.step = "compute"]
      BY <2>2, <2>6
    <3>2. sheet'[s].step = "compute"
      BY <2>3, <3>1 DEF SheetRecords
    <3> QED
      BY <3>2 DEF EndsClean
  <2>7. CASE Known(q, v) = {} /\ q.at # "shown"
    <3>1. sheet'[s] = EndRun(q, FALSE) /\ q.at = "left"
      BY <1>1, <2>2, <2>3, <2>7
    <3> QED
      BY <2>4, <3>1, EndRunClean
  <2> QED
    BY <2>5, <2>6, <2>7
<1>3. CASE LastPlan(s)
  <2>1. p.todo = {} /\ p.step = "next" /\ sheet'[s] = EndRun(p, FALSE)
    BY <1>1, <1>3 DEF LastPlan
  <2>2. Pending(p) = {}
    BY <1>1, <2>1 DEF RunInOrder
  <2> QED
    BY <1>1, <2>1, <2>2, EndRunClean
<1>4. CASE ComputeFails(s) \/ SheetLosesAnswer(s)
  <2>1. sheet'[s] = EndRun(p, TRUE)
    BY <1>1, <1>4 DEF ComputeFails, SheetLosesAnswer
  <2> QED
    BY <1>1, <2>1, EndRunClean
<1>5. CASE SheetIsAnswered(s)
  <2>1. CASE p.outcome = "written"
    <3>1. sheet'[s].step = "next"
      BY <1>1, <1>5, <2>1 DEF SheetIsAnswered, SheetRecords
    <3> QED
      BY <3>1 DEF EndsClean
  <2>2. CASE p.outcome # "written"
    <3>1. sheet'[s] = EndRun(p, TRUE)
      BY <1>1, <1>5, <2>2 DEF SheetIsAnswered
    <3> QED
      BY <1>1, <3>1, EndRunClean
  <2> QED
    BY <2>1, <2>2
<1>6. CASE Computed(s)
  <2>1. sheet'[s].step = "put"
    BY <1>1, <1>6 DEF Computed, Adopt, SheetRecords
  <2> QED
    BY <2>1 DEF EndsClean
<1>7. CASE SheetPuts(s)
  <2>1. sheet'[s].step = "answer"
    BY <1>1, <1>7 DEF SheetPuts, SheetRecords
  <2> QED
    BY <2>1 DEF EndsClean
<1>8. CASE LeaveSheet(s)
  <2>1. sheet'[s].at \in {"left", "closed"}
    BY <1>1, <1>8 DEF LeaveSheet, SheetRecords, ClosedSheet
  <2> QED
    BY <2>1 DEF EndsClean
<1>9. CASE ComputeAll(s)
  BY <1>9 DEF ComputeAll
<1>10. ~OpenSheet(s) /\ ~ReadDetail(s) /\ ~ReadLibrary(s) /\ ~ShowSheet(s)
  BY <1>1 DEF OpenSheet, ReadDetail, ReadLibrary, ShowSheet
<1> QED
  BY <1>2, <1>3, <1>4, <1>5, <1>6, <1>7, <1>8, <1>9, <1>10 DEF SheetStep, SheetRuns

LEMMA SheetStepsAlone ==
    ASSUME PagesInv, FiguresNext, NEW s \in Sheets, sheet'[s] # sheet[s]
    PROVE  SheetStep(s)
<1>1. ~Elsewhere /\ ~EditorStep
  <2>1. Elsewhere => sheet' = sheet
    BY DEF Elsewhere, Rename, SaveElsewhere, Annotate, Deploy
  <2>2. EditorStep => sheet' = sheet
    BY DEF EditorStep, OpenEditor, EditPlan, RemoveOpponent, SavePlans, SyncStudied, StudyAnswer, EditorPuts,
           EditorIsAnswered, EditorLosesAnswer
  <2> QED
    BY <2>1, <2>2
<1>2. PICK t \in Sheets : SheetStep(t)
  BY <1>1 DEF FiguresNext
<1>3. \E q : SheetBecomes(t, q)
  BY <1>2, OpenSheetOk, ReadsOk, ShowSheetOk, LeaveSheetOk, ComputeAllOk, NextPlanOk, RunEndsOk, ComputedOk,
     SheetPutsOk, SheetIsAnsweredOk DEF SheetStep, SheetRuns, PagesInv
<1>4. s # t => sheet'[s] = sheet[s]
  BY <1>3 DEF SheetBecomes, PagesInv, SheetsInOrder
<1> QED
  BY <1>2, <1>4

\* "Tout calculer": a run of the sheet that ends without an error has left nothing to compute.
THEOREM RunLeavesNothingHolds == PagesSpec => RunLeavesNothing
<1>1. ASSUME PagesInv, [PagesNext]_pagesVars, NEW s \in Sheets, sheet[s].step # "none", sheet'[s].step = "none",
             sheet'[s].at = "shown", ~sheet'[s].error
      PROVE  Pending(sheet'[s]) = {}
  <2>1. FiguresNext
    <3>1. CompareStep => sheet' = sheet
      BY DEF CompareStep, LoadRuns, GoTo, LeaveComparison, ReadSide, ReadLibraryToCompare, ReadFails, StartComparing,
             ComputeSide, ComputeSideFails, ShowComparison, figureVars
    <3>2. UNCHANGED pagesVars => sheet' = sheet
      BY DEF pagesVars, figureVars
    <3> QED
      BY <1>1, <3>1, <3>2 DEF PagesNext
  <2>2. SheetStep(s)
    BY <1>1, <2>1, SheetStepsAlone
  <2>3. EndsClean(sheet'[s])
    BY <1>1, <2>2, RunStepClean
  <2> QED
    BY <1>1, <2>3 DEF EndsClean
<1>2. PagesInv /\ [PagesNext]_pagesVars =>
          [\A s \in Sheets :
              sheet[s].step # "none" /\ sheet'[s].step = "none" /\ sheet'[s].at = "shown" /\ ~sheet'[s].error
              => Pending(sheet'[s]) = {}]_figureVars
  BY <1>1
<1> QED
  BY <1>2, PagesKeepTheirFigures, PTL DEF PagesSpec, RunLeavesNothing

=============================================================================
