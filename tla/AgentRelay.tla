----------------------------- MODULE AgentRelay -----------------------------
(***************************************************************************)
(* The task store of Agent Relay, src/03-deployment/storage.py and         *)
(* database.py, as the SQLite build runs it: every handler is one BEGIN    *)
(* IMMEDIATE transaction, so one handler is one action.  RelayPg takes the *)
(* same handlers apart for PostgreSQL.                                     *)
(*                                                                         *)
(* A claim token is the attempt number it was issued for; number 0 stands  *)
(* for a token that belongs to no attempt of the task it is sent with.     *)
(* Task ids are numbered in creation order, the order of (created_at, id). *)
(* A lease is kept as the ticks left until lease_expires_at, 0 when that   *)
(* time has passed.  Timestamps keep only whether they are null.           *)
(***************************************************************************)
EXTENDS Integers, FiniteSets

CONSTANTS Agent,        \* agents that may register
          Input,        \* task inputs
          Value,        \* outputs and errors that workers submit
          Key,          \* values of the Idempotency-Key header
          None,         \* null
          Exhausted,    \* the string "attempts_exhausted"
          MaxTasks,     \* bound: tasks created in a behaviour
          MaxAttempts,  \* bound: the largest RELAY_MAX_ATTEMPTS deployed
          Lease         \* RELAY_LEASE_SECONDS, in ticks of the clock

ASSUME BoundsAssumption ==
    /\ MaxTasks \in Nat \ {0}
    /\ MaxAttempts \in Nat \ {0}      \* positive_int rejects 0
    /\ Lease \in Nat \ {0}
ASSUME NullAssumption ==
    None \notin Agent \cup Input \cup Value \cup Key \cup {Exhausted}

TaskId    == 1..MaxTasks
AttemptNo == 1..MaxAttempts
Token     == 0..MaxAttempts

VARIABLES agents,    \* registered agents
          created,   \* number of rows in tasks: ids 1..created
          task,      \* TaskId -> row of tasks
          attempt,   \* TaskId -> AttemptNo -> row of attempts
          limit,     \* RELAY_MAX_ATTEMPTS of the running configuration
          reply      \* the last answer a handler gave

vars == <<agents, created, task, attempt, limit, reply>>

NoTask == [sender |-> None, recipient |-> None, input |-> None, key |-> None,
           status |-> "absent", attempt_count |-> 0,
           output |-> None, error |-> None, finished |-> FALSE]
NoAttempt == [outcome |-> "none", lease |-> 0, action |-> None, payload |-> None]
NewAttempt == [outcome |-> "processing", lease |-> Lease, action |-> None, payload |-> None]

TaskRow == [sender : Agent \cup {None}, recipient : Agent \cup {None},
            input : Input \cup {None}, key : Key \cup {None},
            status : {"absent", "queued", "processing", "completed", "failed"},
            attempt_count : 0..MaxAttempts,
            output : Value \cup {None},
            error : Value \cup {None, Exhausted}, finished : BOOLEAN]
AttemptRow == [outcome : {"none", "processing", "completed", "failed", "expired"},
               lease : 0..Lease,
               action : {"complete", "fail", None}, payload : Value \cup {None}]

Says(code, t, n, status) == [code |-> code, task |-> t, attempt |-> n, status |-> status,
                             action |-> None, value |-> None]
Answer(code) == Says(code, 0, 0, "absent")
Reply == [code : {"none", "created", "existing", "idempotency_conflict", "not_found",
                  "no_task", "claimed", "renewed", "stale_claim", "accepted",
                  "conflicting_terminal"},
          task : 0..MaxTasks, attempt : Token,
          status : {"absent", "queued", "processing", "completed", "failed"},
          action : {"complete", "fail", None}, value : Value \cup {None}]

Init == /\ agents = {}
        /\ created = 0
        /\ task = [t \in TaskId |-> NoTask]
        /\ attempt = [t \in TaskId |-> [n \in AttemptNo |-> NoAttempt]]
        /\ limit \in 1..MaxAttempts
        /\ reply = Answer("none")
-----------------------------------------------------------------------------
(* POST /agents *)
RegisterAgent(a) ==
    /\ a \notin agents
    /\ agents' = agents \cup {a}
    /\ UNCHANGED <<created, task, attempt, limit, reply>>

(* The row an earlier request with this sender and key left behind.        *)
SameKey(s, k) == {t \in 1..created : k # None /\ task[t].sender = s /\ task[t].key = k}

(* Mutant: the body of a repeated request is not compared.                 *)
CreateReplyIgnoringBody(s, r, i, k) ==
    IF r \notin agents THEN Answer("not_found")
    ELSE IF SameKey(s, k) = {}
         THEN Says("created", created + 1, 0, "queued")
         ELSE LET t == CHOOSE u \in SameKey(s, k) : TRUE
              IN  Says("existing", t, 0, task[t].status)

CreateReply(s, r, i, k) ==
    IF r \notin agents THEN Answer("not_found")
    ELSE IF SameKey(s, k) = {}
         THEN Says("created", created + 1, 0, "queued")
         ELSE LET t == CHOOSE u \in SameKey(s, k) : TRUE
              IN  IF task[t].recipient # r \/ task[t].input # i
                  THEN Answer("idempotency_conflict")
                  ELSE Says("existing", t, 0, task[t].status)

NewTask(s, r, i, k) ==
    [sender |-> s, recipient |-> r, input |-> i, key |-> k,
     status |-> "queued", attempt_count |-> 0,
     output |-> None, error |-> None, finished |-> FALSE]

(* POST /tasks.  MaxTasks bounds the rows created in a behaviour.          *)
CreateTask(s, r, i, k) ==
    LET answer == CreateReply(s, r, i, k)
    IN  /\ s \in agents
        /\ reply' = answer
        /\ IF answer.code = "created"
           THEN /\ created < MaxTasks
                /\ created' = created + 1
                /\ task' = [task EXCEPT ![created + 1] = NewTask(s, r, i, k)]
           ELSE UNCHANGED <<created, task>>
        /\ UNCHANGED <<agents, attempt, limit>>
-----------------------------------------------------------------------------
(* recover_expired_in_session: every attempt that is processing past its   *)
(* lease becomes expired, and its task is queued again or given up.        *)
Expired(row) == row.outcome = "processing" /\ row.lease = 0

(* Mutant: recovery queues the task and leaves its attempt open.           *)
RecoveredAttemptLeftOpen(row) == row

RecoveredAttempt(row) ==
    IF Expired(row) THEN [row EXCEPT !.outcome = "expired"] ELSE row

GivenUp(row) == [row EXCEPT !.status = "failed", !.error = Exhausted,
                            !.output = None, !.finished = TRUE]

(* Mutant: a task that has used its attempts up is left as it is.          *)
RecoveredTaskBelowLimit(t) ==
    IF (\E n \in AttemptNo : Expired(attempt[t][n])) /\ task[t].status = "processing"
       /\ task[t].attempt_count < limit
    THEN [task[t] EXCEPT !.status = "queued", !.finished = FALSE]
    ELSE task[t]

RecoveredTask(t) ==
    IF (\E n \in AttemptNo : Expired(attempt[t][n])) /\ task[t].status = "processing"
    THEN IF task[t].attempt_count >= limit
         THEN GivenUp(task[t])
         ELSE [task[t] EXCEPT !.status = "queued", !.finished = FALSE]
    ELSE task[t]

AfterRecovery(t) == [n \in AttemptNo |-> RecoveredAttempt(attempt[t][n])]

(* Mutant: a pass leaves tasks alone that have used their attempts up.     *)
RecoverPassBelowLimit ==
    LET below == {t \in TaskId : task[t].attempt_count < limit}
    IN  /\ task' = [t \in TaskId |-> IF t \in below THEN RecoveredTask(t) ELSE task[t]]
        /\ attempt' = [t \in TaskId |-> IF t \in below THEN AfterRecovery(t) ELSE attempt[t]]
        /\ UNCHANGED <<agents, created, limit, reply>>

(* One pass of the recovery loop.                                          *)
RecoverPass ==
    /\ task' = [t \in TaskId |-> RecoveredTask(t)]
    /\ attempt' = [t \in TaskId |-> AfterRecovery(t)]
    /\ UNCHANGED <<agents, created, limit, reply>>

(* Mutant: the claim forgets that a task has to be queued.                 *)
WaitingInAnyStatus(a) == {t \in TaskId : RecoveredTask(t).recipient = a}

(* claim_one looks at the queue as its own recovery left it.               *)
Waiting(a) == {t \in TaskId : RecoveredTask(t).status = "queued"
                              /\ RecoveredTask(t).recipient = a}

(* Mutant: no ORDER BY.                                                    *)
IsOldestUnordered(t, a) == t \in Waiting(a)

IsOldest(t, a) == t \in Waiting(a) /\ \A u \in Waiting(a) : t <= u

ClaimNothing(a) ==
    /\ Waiting(a) = {}
    /\ task' = [t \in TaskId |-> RecoveredTask(t)]
    /\ attempt' = [t \in TaskId |-> AfterRecovery(t)]
    /\ reply' = Answer("no_task")
    /\ UNCHANGED <<agents, created, limit>>

Discarded(row) == [row EXCEPT !.status = "failed", !.error = Exhausted, !.finished = TRUE]

(* The oldest task has used its attempts up (the limit was lowered since   *)
(* it was queued): it fails, and the worker is told that there is no task. *)
ClaimExhausted(a) ==
    \E t \in TaskId :
      /\ IsOldest(t, a)
      /\ RecoveredTask(t).attempt_count >= limit
      /\ task' = [u \in TaskId |-> IF u = t THEN Discarded(RecoveredTask(u))
                                            ELSE RecoveredTask(u)]
      /\ attempt' = [u \in TaskId |-> AfterRecovery(u)]
      /\ reply' = Answer("no_task")
      /\ UNCHANGED <<agents, created, limit>>

Granted(row) == [row EXCEPT !.status = "processing",
                            !.attempt_count = row.attempt_count + 1]

ClaimGrant(a) ==
    \E t \in TaskId :
      LET n == RecoveredTask(t).attempt_count + 1
      IN  /\ IsOldest(t, a)
          /\ RecoveredTask(t).attempt_count < limit
          /\ task' = [u \in TaskId |-> IF u = t THEN Granted(RecoveredTask(u))
                                                ELSE RecoveredTask(u)]
          /\ attempt' = [u \in TaskId |-> IF u = t THEN [AfterRecovery(u) EXCEPT ![n] = NewAttempt]
                                                   ELSE AfterRecovery(u)]
          /\ reply' = Says("claimed", t, n, "processing")
          /\ UNCHANGED <<agents, created, limit>>

(* POST /tasks/claim; a long poll is a sequence of these.                  *)
Claim(a) == a \in agents /\ (ClaimNothing(a) \/ ClaimExhausted(a) \/ ClaimGrant(a))
-----------------------------------------------------------------------------
(* The attempt a token names, NoAttempt when there is none.                *)
Named(t, n) == IF n \in AttemptNo THEN attempt[t][n] ELSE NoAttempt

Hidden(a, t) == t > created \/ task[t].recipient # a

(* Mutant: a heartbeat does not compare lease_expires_at with the clock.   *)
HeartbeatReplyAtAnyTime(a, t, n) ==
    LET row == Named(t, n)
    IN  IF Hidden(a, t) THEN Answer("not_found")
        ELSE IF row.outcome # "processing" \/ task[t].status # "processing"
             THEN Answer("stale_claim")
             ELSE Says("renewed", t, n, "processing")

HeartbeatReply(a, t, n) ==
    LET row == Named(t, n)
    IN  IF Hidden(a, t) THEN Answer("not_found")
        ELSE IF \/ row.outcome # "processing"
                \/ task[t].status # "processing"
                \/ row.lease = 0
             THEN Answer("stale_claim")
             ELSE Says("renewed", t, n, "processing")

(* POST /tasks/{id}/heartbeat *)
Heartbeat(a, t, n) ==
    /\ a \in agents
    /\ reply' = HeartbeatReply(a, t, n)
    /\ attempt' = IF reply'.code = "renewed" THEN [attempt EXCEPT ![t][n].lease = Lease]
                                             ELSE attempt
    /\ UNCHANGED <<agents, created, task, limit>>

TerminalStatus(action) == IF action = "complete" THEN "completed" ELSE "failed"

(* Mutant: the lease is checked, the outcome of the attempt is not.        *)
TerminalVerdictIgnoringOutcome(a, t, n, action, v) ==
    IF Hidden(a, t) THEN "not_found"
    ELSE IF Named(t, n).lease = 0 THEN "stale_claim" ELSE "settles"

(* Mutant: only the task has to be processing, not the attempt named.      *)
TerminalVerdictByTaskStatus(a, t, n, action, v) ==
    LET row == Named(t, n)
    IN  IF Hidden(a, t) THEN "not_found"
        ELSE IF row.outcome \in {"completed", "failed"} THEN "conflicting_terminal"
        ELSE IF row.outcome = "none" \/ task[t].status # "processing"
        THEN "stale_claim"
        ELSE "settles"

(* The checks of commit_terminal, in its order.                            *)
TerminalVerdict(a, t, n, action, v) ==
    LET row == Named(t, n)
    IN  IF Hidden(a, t) THEN "not_found"
        ELSE IF row.outcome \in {"completed", "failed"}
        THEN IF row.action = action /\ row.payload = v
             THEN "repeated"
             ELSE "conflicting_terminal"
        ELSE IF row.outcome # "processing" \/ task[t].status # "processing" \/ row.lease = 0
        THEN "stale_claim"
        ELSE "settles"

(* Mutant: the text of a failure is also kept as output.                   *)
WithResultInBothColumns(row, action, v) ==
    [row EXCEPT !.status = TerminalStatus(action), !.finished = TRUE, !.output = v,
                !.error = IF action = "complete" THEN None ELSE v]

WithResult(row, action, v) ==
    [row EXCEPT !.status = TerminalStatus(action), !.finished = TRUE,
                !.output = IF action = "complete" THEN v ELSE None,
                !.error = IF action = "complete" THEN None ELSE v]

WithOutcome(row, action, v) ==
    [row EXCEPT !.outcome = TerminalStatus(action), !.action = action, !.payload = v]

Accepted(t, n, action, v, status) ==
    [code |-> "accepted", task |-> t, attempt |-> n, status |-> status,
     action |-> action, value |-> v]

(* POST /tasks/{id}/complete and /fail *)
CommitTerminal(a, t, n, action, v) ==
    LET verdict == TerminalVerdict(a, t, n, action, v)
    IN  /\ a \in agents
        /\ IF verdict = "settles"
           THEN /\ task' = [task EXCEPT ![t] = WithResult(@, action, v)]
                /\ attempt' = [attempt EXCEPT ![t][n] = WithOutcome(@, action, v)]
           ELSE UNCHANGED <<task, attempt>>
        /\ reply' = IF verdict \in {"settles", "repeated"}
                    THEN Accepted(t, n, action, v, task'[t].status)
                    ELSE Answer(verdict)
        /\ UNCHANGED <<agents, created, limit>>
-----------------------------------------------------------------------------
(* positive_int: what is not positive gives way to the default, taken here *)
(* to be the largest limit.                                                *)
Positive(m) == IF m > 0 THEN m ELSE MaxAttempts

(* Mutant: RELAY_MAX_ATTEMPTS is taken as it is.                           *)
RestartUnchecked(m) ==
    /\ limit' = m
    /\ UNCHANGED <<agents, created, task, attempt, reply>>

(* The rollout of a new configuration: rows survive, the limit changes.    *)
Restart(m) ==
    /\ limit' = Positive(m)
    /\ UNCHANGED <<agents, created, task, attempt, reply>>

(* The clock moves on; lease_expires_at is an absolute time in every row.  *)
Tick ==
    /\ attempt' = [t \in TaskId |-> [n \in AttemptNo |->
                     [attempt[t][n] EXCEPT !.lease = IF @ > 0 THEN @ - 1 ELSE 0]]]
    /\ UNCHANGED <<agents, created, task, limit, reply>>

Next ==
    \/ \E a \in Agent : RegisterAgent(a)
    \/ \E s, r \in Agent, i \in Input, k \in Key \cup {None} : CreateTask(s, r, i, k)
    \/ \E a \in Agent : Claim(a)
    \/ \E a \in Agent, t \in TaskId, n \in Token : Heartbeat(a, t, n)
    \/ \E a \in Agent, t \in TaskId, n \in Token, act \in {"complete", "fail"}, v \in Value :
          CommitTerminal(a, t, n, act, v)
    \/ RecoverPass
    \/ \E m \in 0..MaxAttempts : Restart(m)
    \/ Tick

Spec == Init /\ [][Next]_vars

(* main.recovery_loop runs a pass every RECOVERY_INTERVAL_SECONDS in every *)
(* replica and survives any exception of a pass; time passes.              *)
FairSpec == Spec /\ WF_vars(RecoverPass) /\ WF_vars(Tick)
-----------------------------------------------------------------------------
(* Type correctness: every column holds what its type in database.py says. *)
TypeOK ==
    /\ agents \subseteq Agent
    /\ created \in 0..MaxTasks
    /\ task \in [TaskId -> TaskRow]
    /\ attempt \in [TaskId -> [AttemptNo -> AttemptRow]]
    /\ limit \in 1..MaxAttempts
    /\ reply \in Reply

Settled == {"completed", "failed"}

(* The attempts of a task are numbered 1..attempt_count without a gap, and *)
(* every one but the last has expired: nothing was granted over a claim    *)
(* that was still open or already answered.                                *)
AttemptHistory ==
    \A t \in TaskId, n \in AttemptNo :
      /\ n > task[t].attempt_count <=> attempt[t][n].outcome = "none"
      /\ n < task[t].attempt_count => attempt[t][n].outcome = "expired"

(* The task row and its last attempt row, written by different statements  *)
(* of claim_one, commit_terminal and recovery, always tell the same story. *)
RowsAgree ==
    \A t \in TaskId :
      /\ task[t].status = "absent" <=> t > created
      /\ <<task[t].status, Named(t, task[t].attempt_count).outcome>> \in
            {<<"absent", "none">>, <<"queued", "none">>, <<"queued", "expired">>,
             <<"processing", "processing">>, <<"completed", "completed">>,
             <<"failed", "failed">>, <<"failed", "expired">>}

(* SPEC.md: an unfinished task has no output, error or finish time; a      *)
(* completed one has the payload of the attempt that completed it and no   *)
(* error; a failed one has no output and either the payload of the attempt *)
(* that failed it or "attempts_exhausted" when its last attempt expired.   *)
ResultMatchesAttempt ==
    \A t \in TaskId :
      LET last == Named(t, task[t].attempt_count)
      IN  /\ task[t].finished <=> task[t].status \in Settled
          /\ task[t].status \notin Settled => task[t].output = None /\ task[t].error = None
          /\ task[t].status = "completed" => /\ last.action = "complete"
                                             /\ task[t].output = last.payload
                                             /\ task[t].error = None
          /\ task[t].status = "failed" =>
               /\ task[t].output = None
               /\ IF last.outcome = "failed"
                  THEN last.action = "fail" /\ task[t].error = last.payload
                  ELSE task[t].error = Exhausted

(* A task that completed or failed never changes again, whatever late      *)
(* submission, recovery pass or lowered limit follows.                     *)
TerminalIsFinal ==
    [][\A t \in TaskId : task[t].status \in Settled => task'[t] = task[t]]_vars

(* SPEC.md: an expired lease cannot be revived.  Once the clock has passed *)
(* lease_expires_at, or the attempt has been closed, no handler brings the *)
(* claim back or answers for it, even before recovery has seen it.         *)
LeaseNeverRevived ==
    [][\A t \in TaskId, n \in AttemptNo :
         (attempt[t][n].outcome # "none"
          /\ (attempt[t][n].outcome # "processing" \/ attempt[t][n].lease = 0))
         => /\ attempt'[t][n].lease <= attempt[t][n].lease
            /\ \/ attempt'[t][n].outcome = attempt[t][n].outcome
               \/ Expired(attempt[t][n]) /\ attempt'[t][n].outcome = "expired"]_vars

(* A grant goes to the oldest task of the agent, those just recovered      *)
(* included, and never beyond the running limit: no task is overtaken.     *)
GrantIsFair ==
    [][\A t \in TaskId :
         task'[t].attempt_count # task[t].attempt_count =>
           /\ task'[t].attempt_count = task[t].attempt_count + 1
           /\ task'[t].attempt_count <= limit
           /\ \A u \in TaskId : u < t /\ task[u].recipient = task[t].recipient
                                => task'[u].status # "queued"]_vars

(* A POST /tasks that repeats the key and the body of an earlier one is    *)
(* answered with the task of that one, at whatever stage it is by then,    *)
(* and stores nothing.  The same key with another body is refused, and     *)
(* what is asked for with a new key is stored as it was asked for.         *)
RetriedCreateFindsTask ==
    [][\A s, r \in Agent, i \in Input, k \in Key :
         CreateTask(s, r, i, k) =>
           LET first   == {t \in 1..created : task[t].sender = s /\ task[t].key = k}
               same(t) == task[t].recipient = r /\ task[t].input = i
           IN  /\ \A t \in first :
                    /\ created' = created
                    /\ IF same(t) THEN /\ reply'.code = "existing" /\ reply'.task = t
                                       /\ reply'.status = task[t].status
                       ELSE reply'.code \in {"idempotency_conflict", "not_found"}
               /\ first = {} /\ r \in agents =>
                    /\ reply'.code = "created" /\ reply'.task = created'
                    /\ created' = created + 1
                    /\ task'[created'].sender = s /\ task'[created'].key = k
                    /\ task'[created'].recipient = r /\ task'[created'].input = i]_vars

(* An abandoned claim does not hold its task for ever: a claim whose lease *)
(* has run out is expired by some pass, with no help from any worker.      *)
AbandonedIsRecovered ==
    \A t \in TaskId, n \in AttemptNo :
      Expired(attempt[t][n]) ~> attempt[t][n].outcome = "expired"

(* Every task is promised the life that TaskLifecycle describes.           *)
Life(t) == [phase |-> task[t].status, grants |-> task[t].attempt_count,
            output |-> task[t].output, error |-> task[t].error]

Promise == INSTANCE TaskLifecycle WITH life <- [t \in TaskId |-> Life(t)],
                                       Bound <- MaxAttempts
ImplementsLifecycle == Promise!LifeSpec
=============================================================================
