------------------------------ MODULE RelayPg ------------------------------
(***************************************************************************)
(* The handlers of src/03-deployment/storage.py as the PostgreSQL build    *)
(* runs them: READ COMMITTED transactions of several replicas, interleaved *)
(* between any two statements, kept apart only by row locks on tasks.      *)
(* AgentRelay runs each of these handlers in one step; here a handler      *)
(* reads its clock, scans, locks, reads again and commits one by one, and  *)
(* its process may die in between.                                         *)
(*                                                                         *)
(* All tasks are addressed to one agent, whose workers compete for them.   *)
(* A row bundles a task with its attempts.  The version of a row that the  *)
(* holder of its lock has written and not committed is in draft; draft and *)
(* row are equal when nobody holds the lock.                               *)
(***************************************************************************)
EXTENDS Integers, FiniteSets

CONSTANTS Session,      \* database connections, of any replica
          Value,        \* outputs and errors that workers submit
          None, Exhausted, Free,
          MaxTasks,     \* bound: tasks created in a behaviour
          MaxAttempts,  \* RELAY_MAX_ATTEMPTS
          Lease,        \* RELAY_LEASE_SECONDS, in ticks
          Skew,         \* how far the clock of a replica may be off, in ticks
          MaxTime       \* bound: ticks of the clock in a behaviour

ASSUME PgAssumption ==
    /\ MaxTasks \in Nat \ {0} /\ MaxAttempts \in Nat \ {0} /\ Lease \in Nat \ {0}
    /\ Skew \in Nat /\ MaxTime \in Nat
    /\ None \notin Value \cup {Exhausted}
    /\ Free \notin Session

TaskId    == 1..MaxTasks
AttemptNo == 1..MaxAttempts
Time      == 0..(MaxTime + Skew)

VARIABLES row,     \* TaskId -> the committed task with its attempts
          draft,   \* TaskId -> the version its lock holder sees
          lock,    \* TaskId -> the session holding the row lock, or Free
          conn,    \* Session -> where its transaction stands
          clock,   \* true time
          told     \* submissions whose acceptance was committed

pgvars == <<row, draft, lock, conn, clock, told>>

NoAttempt == [outcome |-> "none", expires |-> 0, action |-> None, payload |-> None]
NoRow == [status |-> "absent", count |-> 0, output |-> None, error |-> None,
          att |-> [n \in AttemptNo |-> NoAttempt]]
Idle == [pc |-> "idle", op |-> "none", seen |-> 0, todo |-> {}, cand |-> {},
         task |-> 0, attempt |-> 0, action |-> None, value |-> None]

PgInit == /\ row = [t \in TaskId |-> NoRow]
          /\ draft = row
          /\ lock = [t \in TaskId |-> Free]
          /\ conn = [s \in Session |-> Idle]
          /\ clock = 0
          /\ told = {}

(* utcnow() of the replica that serves the session.                        *)
Now == {m \in Time : clock - Skew <= m /\ m <= clock + Skew}

Goto(s, c) == conn' = [conn EXCEPT ![s] = c]
Held(s)    == {t \in TaskId : lock[t] = s}
Writes(s, t, r) == /\ lock' = [lock EXCEPT ![t] = s]
                   /\ draft' = [draft EXCEPT ![t] = r]
-----------------------------------------------------------------------------
(* POST /tasks commits a queued row; its own races are RelayCreate's. *)
Create(t) ==
    /\ row[t].status = "absent"
    /\ \A u \in 1..(t - 1) : row[u].status # "absent"
    /\ row' = [row EXCEPT ![t].status = "queued"]
    /\ draft' = [draft EXCEPT ![t].status = "queued"]
    /\ UNCHANGED <<lock, conn, clock, told>>

(* A claim, or a pass of the recovery loop, begins and reads its clock.    *)
Begin(s, op) ==
    /\ conn[s].pc = "idle"
    /\ \E m \in Now : Goto(s, [Idle EXCEPT !.pc = "scan", !.op = op, !.seen = m])
    /\ UNCHANGED <<row, draft, lock, clock, told>>

(* The SELECT of the expired attempts sees what is committed at this time. *)
Scan(s) ==
    /\ conn[s].pc = "scan"
    /\ Goto(s, [conn[s] EXCEPT !.pc = "recover",
           !.todo = {x \in TaskId \X AttemptNo :
                       /\ row[x[1]].att[x[2]].outcome = "processing"
                       /\ row[x[1]].att[x[2]].expires <= conn[s].seen}])
    /\ UNCHANGED <<row, draft, lock, clock, told>>

(* Mutant: the attempt is not read again under the lock.                   *)
StillExpiredByScan(r, n, seen) == r.att[n].outcome = "processing"

(* db.refresh(attempt) and the test after it.                              *)
StillExpired(r, n, seen) == r.att[n].outcome = "processing" /\ r.att[n].expires <= seen

ExpiredRow(r, n) ==
    LET closed == [r EXCEPT !.att[n].outcome = "expired"]
    IN  IF r.status # "processing" THEN closed
        ELSE IF r.count >= MaxAttempts
        THEN [closed EXCEPT !.status = "failed", !.error = Exhausted, !.output = None]
        ELSE [closed EXCEPT !.status = "queued"]

(* FOR UPDATE SKIP LOCKED gets the row unless another session has it.      *)
Lockable(s, t) == lock[t] \in {Free, s}

(* Mutant: FOR UPDATE without SKIP LOCKED; a round waits for the row.      *)
RecoverOneWaiting(s) ==
    \E x \in conn[s].todo :
      LET t == x[1]  n == x[2]
      IN  /\ conn[s].pc = "recover"
          /\ Goto(s, [conn[s] EXCEPT !.todo = @ \ {x}])
          /\ Lockable(s, t)
          /\ Writes(s, t, IF StillExpired(draft[t], n, conn[s].seen)
                          THEN ExpiredRow(draft[t], n) ELSE draft[t])
          /\ UNCHANGED <<row, clock, told>>

(* One round of the loop in recover_expired_in_session.  The order of the  *)
(* rounds (by lease_expires_at) is left open: it never makes a round wait. *)
RecoverOne(s) ==
    \E x \in conn[s].todo :
      LET t == x[1]  n == x[2]
      IN  /\ conn[s].pc = "recover"
          /\ Goto(s, [conn[s] EXCEPT !.todo = @ \ {x}])
          /\ \/ ~Lockable(s, t) /\ UNCHANGED <<lock, draft>>
             \/ /\ Lockable(s, t)
                /\ Writes(s, t, IF StillExpired(draft[t], n, conn[s].seen)
                                THEN ExpiredRow(draft[t], n) ELSE draft[t])
          /\ UNCHANGED <<row, clock, told>>

(* What a statement of s reads: its own writes and what is committed.      *)
Sees(s, t) == IF lock[t] = s THEN draft[t] ELSE row[t]

(* The pass is over.  A claim goes on to the snapshot of its queue.        *)
RecoverDone(s) ==
    /\ conn[s].pc = "recover" /\ conn[s].todo = {}
    /\ Goto(s, IF conn[s].op = "claim"
               THEN [conn[s] EXCEPT !.pc = "pick",
                       !.cand = {t \in TaskId : Sees(s, t).status = "queued"}]
               ELSE [conn[s] EXCEPT !.pc = "commit"])
    /\ UNCHANGED <<row, draft, lock, clock, told>>

Grant(r, seen) ==
    LET n == r.count + 1
    IN  [r EXCEPT !.status = "processing", !.count = n,
                  !.att[n] = [NoAttempt EXCEPT !.outcome = "processing",
                                               !.expires = seen + Lease]]

(* PostgreSQL tests the WHERE clause again on the version it locked.       *)
StillQueued(r) == r.status = "queued"

(* The claim locks the first task of its snapshot that nobody else holds   *)
(* and that is still queued: exhausted it fails, else it is granted.       *)
PickTask(s) ==
    \E t \in conn[s].cand :
      /\ conn[s].pc = "pick"
      /\ \A u \in conn[s].cand : t <= u
      /\ \/ /\ ~Lockable(s, t)
            /\ Goto(s, [conn[s] EXCEPT !.cand = @ \ {t}])
            /\ UNCHANGED <<lock, draft>>
         \/ /\ Lockable(s, t) /\ ~StillQueued(draft[t])
            /\ Writes(s, t, draft[t])
            /\ Goto(s, [conn[s] EXCEPT !.cand = @ \ {t}])
         \/ /\ Lockable(s, t) /\ StillQueued(draft[t])
            /\ Writes(s, t, IF draft[t].count >= MaxAttempts
                            THEN [draft[t] EXCEPT !.status = "failed", !.error = Exhausted]
                            ELSE Grant(draft[t], conn[s].seen))
            /\ Goto(s, [conn[s] EXCEPT !.pc = "commit", !.cand = {}])
      /\ UNCHANGED <<row, clock, told>>

PickNothing(s) ==
    /\ conn[s].pc = "pick" /\ conn[s].cand = {}
    /\ Goto(s, [conn[s] EXCEPT !.pc = "commit"])
    /\ UNCHANGED <<row, draft, lock, clock, told>>
-----------------------------------------------------------------------------
(* A heartbeat or a terminal submission with the token of attempt n.       *)
Call(s, op, t, n, act, v) ==
    /\ conn[s].pc = "idle"
    /\ n <= row[t].count
    /\ Goto(s, [Idle EXCEPT !.pc = "wait", !.op = op, !.task = t, !.attempt = n,
                            !.action = act, !.value = v])
    /\ UNCHANGED <<row, draft, lock, clock, told>>

(* SELECT ... FOR UPDATE waits until the row is free.                      *)
LockTask(s) ==
    LET t == conn[s].task
    IN  /\ conn[s].pc = "wait"
        /\ lock[t] = Free
        /\ Writes(s, t, row[t])
        /\ Goto(s, [conn[s] EXCEPT !.pc = "check"])
        /\ UNCHANGED <<row, clock, told>>

(* Mutant: a lease that has not run out is enough.                         *)
AliveByLease(r, n, now) == r.att[n].expires > now

Alive(r, n, now) == /\ r.att[n].outcome = "processing"
                    /\ r.status = "processing"
                    /\ r.att[n].expires > now

(* heartbeat() after the lock; RelayError rolls the transaction back.      *)
CheckHeartbeat(s) ==
    LET t == conn[s].task  n == conn[s].attempt
    IN  /\ conn[s].pc = "check" /\ conn[s].op = "heartbeat"
        /\ \E m \in Now :
             IF Alive(draft[t], n, m)
             THEN /\ Writes(s, t, [draft[t] EXCEPT !.att[n].expires = m + Lease])
                  /\ Goto(s, [conn[s] EXCEPT !.pc = "commit"])
             ELSE /\ Goto(s, [conn[s] EXCEPT !.pc = "rollback"])
                  /\ UNCHANGED <<lock, draft>>
        /\ UNCHANGED <<row, clock, told>>

Result(r, n, act, v) ==
    [r EXCEPT !.status = IF act = "complete" THEN "completed" ELSE "failed",
              !.output = IF act = "complete" THEN v ELSE None,
              !.error = IF act = "complete" THEN None ELSE v,
              !.att[n].outcome = IF act = "complete" THEN "completed" ELSE "failed",
              !.att[n].action = act, !.att[n].payload = v]

(* Mutant: a second submission of a settled attempt is always accepted.    *)
RepeatedByOutcome(r, n, act, v) == r.att[n].outcome \in {"completed", "failed"}

Repeated(r, n, act, v) == /\ r.att[n].outcome \in {"completed", "failed"}
                          /\ r.att[n].action = act /\ r.att[n].payload = v

(* commit_terminal() after the lock: a retry, a result, or an error.       *)
CheckTerminal(s) ==
    LET t == conn[s].task  n == conn[s].attempt
        act == conn[s].action  v == conn[s].value
    IN  /\ conn[s].pc = "check" /\ conn[s].op = "terminal"
        /\ \E m \in Now :
             \/ /\ Repeated(draft[t], n, act, v)
                /\ Goto(s, [conn[s] EXCEPT !.pc = "commit"])
                /\ UNCHANGED <<lock, draft>>
             \/ /\ Alive(draft[t], n, m)
                /\ Writes(s, t, Result(draft[t], n, act, v))
                /\ Goto(s, [conn[s] EXCEPT !.pc = "commit"])
             \/ /\ ~Repeated(draft[t], n, act, v) /\ ~Alive(draft[t], n, m)
                /\ Goto(s, [conn[s] EXCEPT !.pc = "rollback"])
                /\ UNCHANGED <<lock, draft>>
        /\ UNCHANGED <<row, clock, told>>
-----------------------------------------------------------------------------
Unlock(s) == lock' = [t \in TaskId |-> IF lock[t] = s THEN Free ELSE lock[t]]

(* The transaction becomes visible, its locks go and its client hears.     *)
Commit(s) ==
    /\ conn[s].pc = "commit"
    /\ row' = [t \in TaskId |-> IF lock[t] = s THEN draft[t] ELSE row[t]]
    /\ Unlock(s)
    /\ Goto(s, Idle)
    /\ told' = IF conn[s].op = "terminal"
               THEN told \cup {[task |-> conn[s].task, attempt |-> conn[s].attempt,
                                action |-> conn[s].action, value |-> conn[s].value]}
               ELSE told
    /\ UNCHANGED <<draft, clock>>

(* Mutant: what the transaction wrote outlives its rollback.               *)
UndoKeepingWrites(s) ==
    /\ Unlock(s)
    /\ Goto(s, Idle)
    /\ UNCHANGED <<row, draft, clock, told>>

Undo(s) ==
    /\ draft' = [t \in TaskId |-> IF lock[t] = s THEN row[t] ELSE draft[t]]
    /\ Unlock(s)
    /\ Goto(s, Idle)
    /\ UNCHANGED <<row, clock, told>>

(* RelayError, raised inside the transaction.                              *)
Rollback(s) == conn[s].pc = "rollback" /\ Undo(s)

(* The replica dies or loses its connection; PostgreSQL rolls back.        *)
Crash(s) == conn[s].pc # "idle" /\ Undo(s)

Tick == /\ clock < MaxTime
        /\ clock' = clock + 1
        /\ UNCHANGED <<row, draft, lock, conn, told>>

Proceed(s) == \/ Scan(s) \/ RecoverOne(s) \/ RecoverDone(s) \/ PickTask(s) \/ PickNothing(s)
              \/ LockTask(s) \/ CheckHeartbeat(s) \/ CheckTerminal(s)
              \/ Commit(s) \/ Rollback(s)

PgNext ==
    \/ \E t \in TaskId : Create(t)
    \/ \E s \in Session, op \in {"claim", "recover"} : Begin(s, op)
    \/ \E s \in Session, t \in TaskId, n \in AttemptNo :
          \/ Call(s, "heartbeat", t, n, None, None)
          \/ \E act \in {"complete", "fail"}, v \in Value : Call(s, "terminal", t, n, act, v)
    \/ \E s \in Session : Proceed(s)
    \/ \E s \in Session : Crash(s)
    \/ Tick

PgSpec == PgInit /\ [][PgNext]_pgvars

(* A transaction that has begun is run to its end by its thread; one that  *)
(* waits for a row gets it when it is free again and again (PostgreSQL     *)
(* queues the waiters of a row lock).  Nothing promises that requests come *)
(* or that a replica lives.                                                *)
PgFairSpec == PgSpec /\ \A s \in Session : WF_pgvars(Proceed(s)) /\ SF_pgvars(LockTask(s))
-----------------------------------------------------------------------------
(* Type correctness, and what a lock means: rows differ from their drafts  *)
(* only under a lock, and an idle session holds none; and however the      *)
(* statements of the replicas interleave, the committed rows never show    *)
(* two open claims of a task, an open claim of a task that is not          *)
(* processing, or a gap in its attempts.                                   *)
PgTypeOK ==
    /\ clock \in 0..MaxTime
    /\ lock \in [TaskId -> Session \cup {Free}]
    /\ \A t \in TaskId : /\ row[t].count \in 0..MaxAttempts
                         /\ draft[t].count \in 0..MaxAttempts
                         /\ lock[t] = Free => draft[t] = row[t]
    /\ \A s \in Session : conn[s].pc = "idle" => conn[s] = Idle /\ Held(s) = {}
    /\ \A t \in TaskId, n \in AttemptNo :
         /\ n > row[t].count <=> row[t].att[n].outcome = "none"
         /\ row[t].att[n].outcome = "processing"
            <=> row[t].status = "processing" /\ n = row[t].count
         /\ n < row[t].count => row[t].att[n].outcome = "expired"

(* Of all the workers that ever held a task, replicas tell only one that   *)
(* its answer was accepted, and that answer is the result of the task.     *)
OneAnswer ==
    \A x \in told :
      /\ row[x.task].att[x.attempt].action = x.action
      /\ IF x.action = "complete"
         THEN row[x.task].status = "completed" /\ row[x.task].output = x.value
         ELSE row[x.task].status = "failed" /\ row[x.task].error = x.value

(* Recovery never takes a claim from a worker whose lease, as committed    *)
(* at that moment, a replica could still count as running: a heartbeat     *)
(* that was acknowledged is not overlooked by a scan made before it.       *)
OnlyExpiredIsTaken ==
    [][\A t \in TaskId, n \in AttemptNo :
         (row[t].att[n].outcome = "processing" /\ row'[t].att[n].outcome = "expired")
         => row[t].att[n].expires <= clock + Skew]_pgvars

(* No transaction waits for ever: recovery and claims skip locked rows,    *)
(* and a session that waits for a row holds no other.                      *)
EveryTransactionEnds == \A s \in Session : conn[s].pc # "idle" ~> conn[s].pc = "idle"

(* The lives of tasks under row locks are the ones TaskLifecycle promises. *)
PgLife(t) == [phase |-> row[t].status, grants |-> row[t].count,
              output |-> row[t].output, error |-> row[t].error]
PgPromise == INSTANCE TaskLifecycle WITH life <- [t \in TaskId |-> PgLife(t)],
                                         Bound <- MaxAttempts
PgImplementsLifecycle == PgPromise!LifeSpec
=============================================================================
