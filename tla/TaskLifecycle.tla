--------------------------- MODULE TaskLifecycle ---------------------------
(***************************************************************************)
(* What Agent Relay promises its clients about a task, whatever the        *)
(* database behind it: the life of each task as one row [phase, grants,    *)
(* result].  A task is handed to a worker at most Bound times, only the    *)
(* current grant can settle it, and a settled task never changes again.    *)
(* AgentRelay (one writer at a time) and RelayPg (row locks) implement it. *)
(***************************************************************************)
EXTENDS Integers

CONSTANTS TaskId,      \* the tasks that may be created
          Value,       \* outputs of workers and errors they report
          None,        \* the null of the output and error columns
          Exhausted,   \* the error the server writes when it gives a task up
          Bound        \* no server ever grants a task more often than this

VARIABLE life          \* TaskId -> [phase, grants, output, error]

Row(phase, grants, output, error) ==
    [phase |-> phase, grants |-> grants, output |-> output, error |-> error]

Unborn == Row("absent", 0, None, None)

LifeInit == life = [t \in TaskId |-> Unborn]

(* POST /tasks: the task exists from here on.                              *)
Submit(t) == life[t] = Unborn /\ life'[t] = Row("queued", 0, None, None)

(* A worker receives the task, one more grant and the only live one.  From *)
(* processing: the lease of the previous grant ran out, and the same       *)
(* transaction hands the task out again.                                   *)
Grant(t) == /\ life[t].phase \in {"queued", "processing"}
            /\ life[t].grants < Bound
            /\ life'[t] = Row("processing", life[t].grants + 1, None, None)

(* The lease of the current grant ran out and the task waits again.        *)
Requeue(t) == /\ life[t].phase = "processing"
              /\ life'[t] = Row("queued", life[t].grants, None, None)

(* The worker holding the current grant reports an output or an error.     *)
Settle(t) ==
    /\ life[t].phase = "processing"
    /\ \E v \in Value : life'[t] \in {Row("completed", life[t].grants, v, None),
                                      Row("failed", life[t].grants, None, v)}

(* The server gives the task up: it has been granted often enough.         *)
GiveUp(t) == /\ life[t].phase \in {"queued", "processing"}
             /\ life[t].grants > 0
             /\ life'[t] = Row("failed", life[t].grants, None, Exhausted)

LifeStep(t) == Submit(t) \/ Grant(t) \/ Requeue(t) \/ Settle(t) \/ GiveUp(t)

(* One transaction may move several tasks: a claim first recovers every    *)
(* expired lease it can lock.                                              *)
LifeNext == /\ life' = [t \in TaskId |-> life'[t]]
            /\ \A t \in TaskId : life'[t] = life[t] \/ LifeStep(t)

LifeSpec == LifeInit /\ [][LifeNext]_life
=============================================================================
