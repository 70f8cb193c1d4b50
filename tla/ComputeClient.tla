--------------------------- MODULE ComputeClient ---------------------------
(***************************************************************************)
(* The compute client of the web application (worker/computeClient.ts) and *)
(* the worker thread behind it (worker/engine.worker.ts).  One client owns *)
(* at most one worker.  The worker's inbox, the task it is executing and   *)
(* the messages it has posted back are modelled apart, because the client  *)
(* sees none of them: all it has is its own list of pending requests, and  *)
(* it takes the first of these for the one being executed.                 *)
(***************************************************************************)
EXTENDS Naturals, Sequences, SequencesExt

CONSTANT
    MaxTasks        \* bound: how many tasks the owner submits (seq)

ASSUME MaxTasksAssumption == MaxTasks \in Nat

TaskIds == 1..MaxTasks
NoWorker == 0       \* worker = null
Idle == 0           \* the worker thread executes nothing

VARIABLES
    seq,            \* last identifier handed out
    disposed,       \* dispose() was called
    pending,        \* Map of unsettled requests, as the sequence of its keys
    worker,         \* the client's current worker, or NoWorker
    spawned,        \* how many workers have been created
    inbox,          \* requests posted to the current worker, not yet begun
    running,        \* the request the current worker is executing, or Idle
    crashed,        \* the current worker's script has failed
    events,         \* messages of all workers, not yet delivered to the page
    promise         \* what became of each task's promise

clientVars == <<seq, disposed, pending, worker>>
workerVars == <<spawned, inbox, running, crashed>>
vars == <<clientVars, workerVars, events, promise>>

PromiseStates == {"none", "waiting", "resolved", "failed", "cancelled"}
Kinds == {"result", "error", "scriptError"}
Messages == [from : Nat, id : 0..MaxTasks, kind : Kinds]

TypeOK ==
    /\ seq \in 0..MaxTasks
    /\ disposed \in BOOLEAN
    /\ pending \in Seq(TaskIds)
    /\ worker \in Nat
    /\ spawned \in Nat
    /\ inbox \in Seq(TaskIds)
    /\ running \in 0..MaxTasks
    /\ crashed \in BOOLEAN
    /\ events \in Seq(Messages)
    /\ promise \in [TaskIds -> PromiseStates]

Init ==
    /\ seq = 0
    /\ disposed = FALSE
    /\ pending = <<>>
    /\ worker = NoWorker
    /\ spawned = 0
    /\ inbox = <<>>
    /\ running = Idle
    /\ crashed = FALSE
    /\ events = <<>>
    /\ promise = [t \in TaskIds |-> "none"]

-----------------------------------------------------------------------------
(* The client, on the page's thread. *)

\* terminateWorker: the thread stops, what it was doing and what it had been
\* sent are lost; messages it has already posted stay in flight.
TerminateWorker ==
    /\ worker' = NoWorker
    /\ inbox' = <<>>
    /\ running' = Idle
    /\ crashed' = FALSE
    /\ UNCHANGED spawned

\* ensure() on a client without a worker, followed by one post per request.
SpawnWith(requests) ==
    /\ spawned' = spawned + 1
    /\ worker' = spawned'
    /\ inbox' = requests
    /\ running' = Idle
    /\ crashed' = FALSE

RejectAll(reason) ==
    promise' = [t \in TaskIds |->
                  IF Contains(pending, t) THEN reason ELSE promise[t]]

Compute ==
    /\ seq < MaxTasks
    /\ seq' = seq + 1
    /\ IF disposed
         THEN /\ promise' = [promise EXCEPT ![seq'] = "cancelled"]
              /\ UNCHANGED <<pending, worker, workerVars>>
         ELSE /\ promise' = [promise EXCEPT ![seq'] = "waiting"]
              /\ pending' = Append(pending, seq')
              /\ IF worker = NoWorker
                   THEN SpawnWith(<<seq'>>)
                   ELSE /\ inbox' = Append(inbox, seq')
                        /\ UNCHANGED <<worker, spawned, running, crashed>>
    /\ UNCHANGED <<disposed, events>>

\* (mutant) what is still pending is not posted again
CancelWithoutRepost(i) ==
    /\ pending' = RemoveAt(pending, i)
    /\ promise' = [promise EXCEPT ![pending[i]] = "cancelled"]
    /\ IF i = 1 /\ worker # NoWorker THEN TerminateWorker ELSE UNCHANGED <<worker, workerVars>>
    /\ UNCHANGED <<seq, disposed, events>>

\* (mutant) the requests are posted again newest first
CancelReposting(i) ==
    /\ pending' = RemoveAt(pending, i)
    /\ promise' = [promise EXCEPT ![pending[i]] = "cancelled"]
    /\ IF i = 1 /\ worker # NoWorker
         THEN SpawnWith(Reverse(pending'))
         ELSE UNCHANGED <<worker, workerVars>>
    /\ UNCHANGED <<seq, disposed, events>>

\* cancel() of the i-th pending task.  Only for the first one is the worker
\* terminated; what is still pending is then posted again to a new one.
Cancel(i) ==
    /\ pending' = RemoveAt(pending, i)
    /\ promise' = [promise EXCEPT ![pending[i]] = "cancelled"]
    /\ \/ /\ i = 1 /\ worker # NoWorker
          /\ IF pending' = <<>> THEN TerminateWorker ELSE SpawnWith(pending')
       \/ /\ ~(i = 1 /\ worker # NoWorker)
          /\ UNCHANGED <<worker, workerVars>>
    /\ UNCHANGED <<seq, disposed, events>>

CancelAll ==
    /\ pending' = <<>>
    /\ RejectAll("cancelled")
    /\ TerminateWorker
    /\ UNCHANGED <<seq, disposed, events>>

Dispose ==
    /\ disposed' = TRUE
    /\ pending' = <<>>
    /\ RejectAll("cancelled")
    /\ TerminateWorker
    /\ UNCHANGED <<seq, events>>

\* (mutant) the answer is not checked against the pending tasks
OnAnyMessage(message) ==
    /\ message.kind # "scriptError"
    /\ pending' = SelectSeq(pending, LAMBDA t : t # message.id)
    /\ promise' = [promise EXCEPT ![message.id] =
                     IF message.kind = "result" THEN "resolved" ELSE "failed"]
    /\ UNCHANGED <<worker, workerVars>>

\* onmessage: the answer of a pending task settles it; one that is no longer
\* awaited is dropped.
OnMessage(message) ==
    /\ message.kind # "scriptError"
    /\ IF Contains(pending, message.id)
         THEN \E i \in DOMAIN pending :
                /\ pending[i] = message.id
                /\ pending' = RemoveAt(pending, i)
                /\ promise' = [promise EXCEPT ![message.id] =
                                 IF message.kind = "result" THEN "resolved" ELSE "failed"]
         ELSE UNCHANGED <<pending, promise>>
    /\ UNCHANGED <<worker, workerVars>>

\* (mutant) the failed worker is dropped, its tasks are not rejected
OnErrorSilently(message) ==
    /\ message.kind = "scriptError"
    /\ UNCHANGED <<pending, promise>>
    /\ TerminateWorker

\* onerror: the worker is unusable, everything that waits is rejected.
OnError(message) ==
    /\ message.kind = "scriptError"
    /\ pending' = <<>>
    /\ RejectAll("failed")
    /\ TerminateWorker

\* Messages of a worker that has been replaced find no handler.
Deliver ==
    /\ events # <<>>
    /\ events' = Tail(events)
    /\ LET message == Head(events)
       IN  IF message.from = worker
             THEN OnMessage(message) \/ OnError(message)
             ELSE UNCHANGED <<pending, promise, worker, workerVars>>
    /\ UNCHANGED <<seq, disposed>>

-----------------------------------------------------------------------------
(* The worker thread. *)

WorkerBegin ==
    /\ worker # NoWorker /\ ~crashed
    /\ running = Idle
    /\ inbox # <<>>
    /\ running' = Head(inbox)
    /\ inbox' = Tail(inbox)
    /\ UNCHANGED <<clientVars, spawned, crashed, events, promise>>

\* The engine returns, or throws and the exception is posted as an answer.
WorkerFinish ==
    /\ running # Idle /\ ~crashed
    /\ \E kind \in {"result", "error"} :
          events' = Append(events, [from |-> worker, id |-> running, kind |-> kind])
    /\ running' = Idle
    /\ UNCHANGED <<clientVars, spawned, inbox, crashed, promise>>

\* The script fails outside the engine (it cannot be loaded, say): the page
\* gets an error event that names no task, and the thread does nothing more.
WorkerCrash ==
    /\ worker # NoWorker /\ ~crashed
    /\ crashed' = TRUE
    /\ events' = Append(events, [from |-> worker, id |-> Idle, kind |-> "scriptError"])
    /\ UNCHANGED <<clientVars, spawned, inbox, running, promise>>

-----------------------------------------------------------------------------

Next ==
    \/ Compute
    \/ \E i \in DOMAIN pending : Cancel(i)
    \/ CancelAll
    \/ Dispose
    \/ Deliver
    \/ WorkerBegin
    \/ WorkerFinish
    \/ WorkerCrash

SafetySpec == Init /\ [][Next]_vars

\* The browser delivers queued events, and the worker thread is scheduled: an
\* enumeration is finite, so a begun computation ends.  Nothing obliges the
\* owner to submit or to cancel, nor a script to fail.
Spec ==
    /\ SafetySpec
    /\ WF_vars(Deliver)
    /\ WF_vars(WorkerBegin)
    /\ WF_vars(WorkerFinish)

-----------------------------------------------------------------------------
(* Properties *)

\* Every promise that waits is one the client still holds, and conversely: the
\* client forgets no promise and holds no settled one ("toute promesse se
\* termine").
PendingIsWaiting == \A t \in TaskIds : Contains(pending, t) <=> promise[t] = "waiting"

AnswerInFlight(t) ==
    \E i \in DOMAIN events :
       events[i].from = worker /\ events[i].kind # "scriptError" /\ events[i].id = t
ErrorInFlight ==
    \E i \in DOMAIN events : events[i].from = worker /\ events[i].kind = "scriptError"

\* The current worker has every pending task in its inbox, in hand, or answered
\* with the message still in flight; a worker that has failed has its error event
\* in flight.  So no promise can be stuck, whatever was cancelled, reposted or
\* lost before ("jamais de promesse bloquée").
EveryPendingIsOwed ==
    /\ \A t \in TaskIds : Contains(pending, t) =>
          worker # NoWorker /\ (Contains(inbox, t) \/ running = t \/ AnswerInFlight(t))
    /\ crashed => ErrorInFlight

Increasing(s) == \A i, j \in DOMAIN s : i < j => s[i] < s[j]

\* The answers in flight, the task being executed and the inbox follow one
\* another in submission order, and so do the pending tasks: the order cancel()
\* relies on when it takes the first key of its Map for the oldest work.
WorkInOrder ==
    /\ Increasing(pending)
    /\ Increasing(inbox)
    /\ \A i \in DOMAIN inbox :
          /\ running < inbox[i]
          /\ \A t \in TaskIds : AnswerInFlight(t) => t < inbox[i]
    /\ running # Idle => \A t \in TaskIds : AnswerInFlight(t) => t < running
    /\ \A i, j \in DOMAIN events :
          (i < j /\ events[i].from = worker /\ events[j].from = worker
             /\ events[i].kind # "scriptError" /\ events[j].kind # "scriptError")
          => events[i].id < events[j].id

\* An owner that has been unmounted leaves neither a worker nor a promise.
DisposedIsQuiet == disposed => pending = <<>> /\ worker = NoWorker

\* No promise is forgotten, stuck or revived: what waits is held and owed, and nothing is after disposal.
EveryPromiseKept == TypeOK /\ PendingIsWaiting /\ EveryPendingIsOwed /\ DisposedIsQuiet

\* Every task given to the client is settled in the end.
EveryTaskSettles ==
    \A t \in TaskIds : promise[t] = "waiting" ~> promise[t] \in {"resolved", "failed", "cancelled"}

\* The client implements what it promises its owner.
Service == INSTANCE TaskService
ServiceSpec == Service!Spec

\* Identifiers beyond seq, and workers beyond spawned, do not exist yet; without
\* a worker there is no work.
Fresh ==
    /\ \A t \in TaskIds : t > seq => promise[t] = "none"
    /\ \A i \in DOMAIN inbox : inbox[i] <= seq
    /\ running <= seq
    /\ worker <= spawned
    /\ \A i \in DOMAIN events : events[i].from \in 1..spawned /\ events[i].id <= seq
    /\ \A i \in DOMAIN events : events[i].kind # "scriptError" => events[i].id # Idle
    /\ worker = NoWorker => inbox = <<>> /\ running = Idle /\ ~crashed

\* The inductive invariant of Clients_proofs.
IInv ==
    /\ TypeOK
    /\ PendingIsWaiting
    /\ EveryPendingIsOwed
    /\ WorkInOrder
    /\ DisposedIsQuiet
    /\ Fresh
=============================================================================
