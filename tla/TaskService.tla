---------------------------- MODULE TaskService ----------------------------
(***************************************************************************)
(* What a compute client promises its owner, with no worker in sight: the  *)
(* owner submits tasks, each gets a promise, and every promise is settled  *)
(* exactly once.  Answers come back in submission order, a cancellation    *)
(* rejects the promise it names and no other, and a failing engine rejects *)
(* everything at once.  ComputeClient is shown to implement this module;   *)
(* Recompute is built on it.                                               *)
(***************************************************************************)
EXTENDS Naturals

CONSTANT
    MaxTasks        \* bound: how many tasks one client is ever given

VARIABLES
    seq,            \* the last task identifier handed out
    disposed,       \* the owner has been unmounted
    promise         \* what became of each task's promise

taskVars == <<seq, disposed, promise>>

TaskIds == 1..MaxTasks
Settled == {"resolved", "failed", "cancelled"}
Waiting == {t \in TaskIds : promise[t] = "waiting"}

Init ==
    /\ seq = 0
    /\ disposed = FALSE
    /\ promise = [t \in TaskIds |-> "none"]

\* Every promise still waiting is rejected for the same reason.
Reject(reason) ==
    promise' = [t \in TaskIds |-> IF t \in Waiting THEN reason ELSE promise[t]]

Submit ==
    /\ seq < MaxTasks
    /\ seq' = seq + 1
    /\ promise' = [promise EXCEPT ![seq + 1] = IF disposed THEN "cancelled" ELSE "waiting"]
    /\ UNCHANGED disposed

\* The oldest waiting task is answered: a result, or the engine's error.
Answer(t) ==
    /\ t \in Waiting
    /\ \A u \in Waiting : t <= u
    /\ \E answer \in {"resolved", "failed"} :
          promise' = [promise EXCEPT ![t] = answer]
    /\ UNCHANGED <<seq, disposed>>

Cancel(t) ==
    /\ t \in Waiting
    /\ promise' = [promise EXCEPT ![t] = "cancelled"]
    /\ UNCHANGED <<seq, disposed>>

CancelAll ==
    /\ Reject("cancelled")
    /\ UNCHANGED <<seq, disposed>>

Dispose ==
    /\ disposed' = TRUE
    /\ Reject("cancelled")
    /\ UNCHANGED seq

\* The engine is lost: nothing that waits for it will be answered.
EngineLost ==
    /\ Reject("failed")
    /\ UNCHANGED <<seq, disposed>>

Progress == EngineLost \/ \E t \in TaskIds : Answer(t)

Next == Submit \/ CancelAll \/ Dispose \/ Progress \/ \E t \in TaskIds : Cancel(t)

SafetySpec == Init /\ [][Next]_taskVars

Spec == SafetySpec /\ WF_taskVars(Progress)
=============================================================================
