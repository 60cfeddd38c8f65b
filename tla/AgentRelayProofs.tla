-------------------------- MODULE AgentRelayProofs --------------------------
(***************************************************************************)
(* Proofs about the task store of AgentRelay, for every number of agents,  *)
(* tasks and attempts and every length of the lease; and, in the second    *)
(* half, about the workers of RelayWorkers that are composed with it.      *)
(***************************************************************************)
EXTENDS RelayWorkers, TLAPS

USE DEF TaskId, AttemptNo

-----------------------------------------------------------------------------
(* The rows that recovery leaves behind have the types of the columns.     *)
LEMMA RecoveredTaskType ==
    ASSUME TypeOK, NEW t \in TaskId
    PROVE  /\ RecoveredTask(t) \in TaskRow
           /\ RecoveredTask(t).attempt_count = task[t].attempt_count
           /\ RecoveredTask(t).recipient = task[t].recipient
<1>1. task[t] \in TaskRow
  BY DEF TypeOK
<1>2. GivenUp(task[t]) \in TaskRow /\ GivenUp(task[t]).attempt_count = task[t].attempt_count
      /\ GivenUp(task[t]).recipient = task[t].recipient
  BY <1>1 DEF GivenUp, TaskRow
<1>3. /\ [task[t] EXCEPT !.status = "queued", !.finished = FALSE] \in TaskRow
      /\ [task[t] EXCEPT !.status = "queued", !.finished = FALSE].attempt_count = task[t].attempt_count
      /\ [task[t] EXCEPT !.status = "queued", !.finished = FALSE].recipient = task[t].recipient
  BY <1>1 DEF TaskRow
<1> QED
  BY <1>1, <1>2, <1>3 DEF RecoveredTask

LEMMA AfterRecoveryType ==
    ASSUME TypeOK, NEW t \in TaskId
    PROVE  AfterRecovery(t) \in [AttemptNo -> AttemptRow]
<1>1. ASSUME NEW n \in AttemptNo
      PROVE  RecoveredAttempt(attempt[t][n]) \in AttemptRow
  <2>1. attempt[t][n] \in AttemptRow
    BY DEF TypeOK
  <2> QED
    BY <2>1 DEF RecoveredAttempt, AttemptRow
<1> QED
  BY <1>1 DEF AfterRecovery

(* claim_one gives up a task over the limit: still a row of tasks.         *)
LEMMA DiscardedType ==
    ASSUME NEW row \in TaskRow
    PROVE  Discarded(row) \in TaskRow
BY DEF Discarded, TaskRow

(* A granted task is a row of tasks: the count stays within the bound.     *)
LEMMA GrantedType ==
    ASSUME NEW row \in TaskRow, row.attempt_count < MaxAttempts
    PROVE  Granted(row) \in TaskRow
<1>1. row.attempt_count \in 0..MaxAttempts
  BY DEF TaskRow
<1>2. row.attempt_count + 1 \in 0..MaxAttempts
  BY <1>1, BoundsAssumption
<1>3. ASSUME NEW m \in 0..MaxAttempts
      PROVE  [row EXCEPT !.status = "processing", !.attempt_count = m] \in TaskRow
  BY DEF TaskRow
<1> QED
  BY <1>2, <1>3 DEF Granted

Codes == {"none", "created", "existing", "idempotency_conflict", "not_found", "no_task",
          "claimed", "renewed", "stale_claim", "accepted", "conflicting_terminal"}

(* Answers with a task, an attempt and a status have the type of reply.    *)
LEMMA SaysType ==
    ASSUME NEW code \in Codes, NEW t \in 0..MaxTasks, NEW n \in Token,
           NEW status \in {"absent", "queued", "processing", "completed", "failed"}
    PROVE  Says(code, t, n, status) \in Reply
BY DEF Says, Reply, Codes

(* So have the answers that carry a code only.                             *)
LEMMA AnswerType ==
    ASSUME NEW code \in Codes
    PROVE  Answer(code) \in Reply
BY SaysType, BoundsAssumption DEF Answer, Token

(* Type correctness of the store, for every bound.                         *)
LEMMA TypeInit == Init => TypeOK
<1> SUFFICES ASSUME Init PROVE TypeOK
  OBVIOUS
<1>1. NoTask \in TaskRow
  BY BoundsAssumption DEF NoTask, TaskRow
<1>2. NoAttempt \in AttemptRow
  BY BoundsAssumption DEF NoAttempt, AttemptRow
<1>3. reply \in Reply
  BY AnswerType DEF Init, Codes
<1> QED
  BY <1>1, <1>2, <1>3, BoundsAssumption DEF Init, TypeOK

(* Every handler, recovery pass, restart and tick keeps the types.         *)
LEMMA TypeStep == TypeOK /\ [Next]_vars => TypeOK'
<1> SUFFICES ASSUME TypeOK, [Next]_vars PROVE TypeOK'
  OBVIOUS
<1> USE BoundsAssumption
<1>1. ASSUME NEW a \in Agent, RegisterAgent(a) PROVE TypeOK'
  BY <1>1 DEF RegisterAgent, TypeOK
<1>2. ASSUME NEW s \in Agent, NEW r \in Agent, NEW i \in Input, NEW k \in Key \cup {None},
             CreateTask(s, r, i, k)
      PROVE TypeOK'
  <2>1. CreateReply(s, r, i, k) \in Reply
    <3>1. CASE r \notin agents
      BY <3>1, AnswerType DEF CreateReply, Codes
    <3>2. CASE r \in agents /\ SameKey(s, k) = {}
      <4>1. CreateReply(s, r, i, k).code = "created"
        BY <3>2 DEF CreateReply, Says
      <4>2. created < MaxTasks
        BY <1>2, <4>1 DEF CreateTask
      <4> QED
        BY <3>2, <4>2, SaysType DEF CreateReply, Codes, TypeOK, Token
    <3>3. CASE r \in agents /\ SameKey(s, k) # {}
      <4> DEFINE t == CHOOSE u \in SameKey(s, k) : TRUE
      <4>1. t \in 1..created
        BY <3>3 DEF SameKey
      <4>2. t \in 1..MaxTasks /\ task[t] \in TaskRow
        BY <4>1 DEF TypeOK
      <4>3. Says("existing", t, 0, task[t].status) \in Reply
        BY <4>2, SaysType DEF Codes, TaskRow, Token
      <4>4. Answer("idempotency_conflict") \in Reply
        BY AnswerType DEF Codes
      <4> QED
        BY <3>3, <4>3, <4>4 DEF CreateReply
    <3> QED
      BY <3>1, <3>2, <3>3
  <2>2. NewTask(s, r, i, k) \in TaskRow
    BY DEF NewTask, TaskRow
  <2>3. CASE CreateReply(s, r, i, k).code = "created"
    <3>1. /\ created < MaxTasks /\ created' = created + 1
          /\ task' = [task EXCEPT ![created + 1] = NewTask(s, r, i, k)]
          /\ reply' = CreateReply(s, r, i, k)
          /\ UNCHANGED <<agents, attempt, limit>>
      BY <1>2, <2>3 DEF CreateTask
    <3> QED
      BY <2>1, <2>2, <3>1 DEF TypeOK
  <2>4. CASE CreateReply(s, r, i, k).code # "created"
    BY <1>2, <2>1, <2>4 DEF CreateTask, TypeOK
  <2> QED
    BY <2>3, <2>4
<1>3. ASSUME NEW a \in Agent, Claim(a) PROVE TypeOK'
  <2>1. Answer("no_task") \in Reply
    BY AnswerType DEF Codes
  <2>2. CASE ClaimNothing(a)
    BY <2>1, <2>2, RecoveredTaskType, AfterRecoveryType DEF ClaimNothing, TypeOK
  <2>3. CASE ClaimExhausted(a)
    <3>1. PICK t \in TaskId :
            /\ task' = [u \in TaskId |-> IF u = t THEN Discarded(RecoveredTask(u))
                                                 ELSE RecoveredTask(u)]
            /\ attempt' = [u \in TaskId |-> AfterRecovery(u)]
            /\ reply' = Answer("no_task")
            /\ UNCHANGED <<agents, created, limit>>
      BY <2>3 DEF ClaimExhausted
    <3> QED
      BY <2>1, <3>1, DiscardedType, RecoveredTaskType, AfterRecoveryType DEF TypeOK
  <2>4. CASE ClaimGrant(a)
    <3>1. PICK t \in TaskId :
            LET n == RecoveredTask(t).attempt_count + 1
            IN  /\ RecoveredTask(t).attempt_count < limit
                /\ task' = [u \in TaskId |-> IF u = t THEN Granted(RecoveredTask(u))
                                                     ELSE RecoveredTask(u)]
                /\ attempt' = [u \in TaskId |-> IF u = t
                     THEN [AfterRecovery(u) EXCEPT ![n] = NewAttempt] ELSE AfterRecovery(u)]
                /\ reply' = Says("claimed", t, n, "processing")
                /\ UNCHANGED <<agents, created, limit>>
      BY <2>4 DEF ClaimGrant
    <3> DEFINE n == RecoveredTask(t).attempt_count + 1
    <3>2. RecoveredTask(t) \in TaskRow /\ RecoveredTask(t).attempt_count \in 0..MaxAttempts
      BY RecoveredTaskType DEF TaskRow
    <3>3. n \in AttemptNo /\ RecoveredTask(t).attempt_count < MaxAttempts
      BY <3>1, <3>2 DEF TypeOK
    <3>4. Granted(RecoveredTask(t)) \in TaskRow
      BY <3>2, <3>3, GrantedType
    <3>5. NewAttempt \in AttemptRow
      BY DEF NewAttempt, AttemptRow
    <3>6. [AfterRecovery(t) EXCEPT ![n] = NewAttempt] \in [AttemptNo -> AttemptRow]
      BY <3>5, AfterRecoveryType
    <3>7. ASSUME NEW m \in AttemptNo PROVE Says("claimed", t, m, "processing") \in Reply
      BY SaysType DEF Codes, Token
    <3> QED
      BY <3>1, <3>3, <3>4, <3>6, <3>7, RecoveredTaskType, AfterRecoveryType DEF TypeOK
  <2> QED
    BY <1>3, <2>2, <2>3, <2>4 DEF Claim
<1>4. ASSUME NEW a \in Agent, NEW t \in TaskId, NEW n \in Token, Heartbeat(a, t, n)
      PROVE TypeOK'
  <2>1. HeartbeatReply(a, t, n) \in Reply
    <3>1. Answer("not_found") \in Reply /\ Answer("stale_claim") \in Reply
      BY AnswerType DEF Codes
    <3>2. Says("renewed", t, n, "processing") \in Reply
      BY SaysType DEF Codes
    <3> QED
      BY <3>1, <3>2 DEF HeartbeatReply
  <2>2. CASE reply'.code = "renewed"
    <3>1. n \in AttemptNo
      BY <1>4, <2>2 DEF Heartbeat, HeartbeatReply, Named, NoAttempt, Answer, Says
    <3>2. attempt[t] \in [AttemptNo -> AttemptRow] /\ attempt[t][n] \in AttemptRow
      BY <3>1 DEF TypeOK
    <3>3. [attempt[t][n] EXCEPT !.lease = Lease] \in AttemptRow
      BY <3>2 DEF AttemptRow
    <3>4. attempt' = [attempt EXCEPT ![t] = [attempt[t] EXCEPT
                         ![n] = [attempt[t][n] EXCEPT !.lease = Lease]]]
      BY <1>4, <2>2 DEF Heartbeat
    <3>5. attempt' \in [TaskId -> [AttemptNo -> AttemptRow]]
      BY <3>2, <3>3, <3>4 DEF TypeOK
    <3> QED
      BY <1>4, <2>1, <3>5 DEF Heartbeat, TypeOK
  <2>3. CASE reply'.code # "renewed"
    BY <1>4, <2>1, <2>3 DEF Heartbeat, TypeOK
  <2> QED
    BY <2>2, <2>3
<1>5. ASSUME NEW a \in Agent, NEW t \in TaskId, NEW n \in Token,
             NEW act \in {"complete", "fail"}, NEW v \in Value, CommitTerminal(a, t, n, act, v)
      PROVE TypeOK'
  <2> DEFINE verdict == TerminalVerdict(a, t, n, act, v)
  <2>1. verdict \in {"not_found", "repeated", "conflicting_terminal", "stale_claim", "settles"}
    BY DEF TerminalVerdict
  <2>2. CASE verdict = "settles"
    <3>1. n \in AttemptNo
      BY <2>2 DEF TerminalVerdict, Named, NoAttempt
    <3>2. /\ task[t] \in TaskRow
          /\ attempt[t] \in [AttemptNo -> AttemptRow] /\ attempt[t][n] \in AttemptRow
      BY <3>1 DEF TypeOK
    <3>3. WithResult(task[t], act, v) \in TaskRow
      BY <3>2 DEF WithResult, TaskRow, TerminalStatus
    <3>4. WithOutcome(attempt[t][n], act, v) \in AttemptRow
      BY <3>2 DEF WithOutcome, AttemptRow, TerminalStatus
    <3>5. /\ task' = [task EXCEPT ![t] = WithResult(task[t], act, v)]
          /\ attempt' = [attempt EXCEPT ![t] = [attempt[t] EXCEPT
                             ![n] = WithOutcome(attempt[t][n], act, v)]]
          /\ reply' = Accepted(t, n, act, v, task'[t].status)
      BY <1>5, <2>2 DEF CommitTerminal
    <3>6. task' \in [TaskId -> TaskRow] /\ attempt' \in [TaskId -> [AttemptNo -> AttemptRow]]
      BY <3>2, <3>3, <3>4, <3>5 DEF TypeOK
    <3>7. reply' \in Reply
      BY <3>5, <3>6 DEF Accepted, Reply, TaskRow
    <3> QED
      BY <1>5, <3>6, <3>7 DEF CommitTerminal, TypeOK
  <2>3. CASE verdict # "settles"
    <3>1. task' = task /\ attempt' = attempt
      BY <1>5, <2>3 DEF CommitTerminal
    <3>2. Accepted(t, n, act, v, task[t].status) \in Reply
      BY DEF Accepted, Reply, TypeOK, TaskRow
    <3>3. /\ Answer("not_found") \in Reply /\ Answer("stale_claim") \in Reply
          /\ Answer("conflicting_terminal") \in Reply
      BY AnswerType DEF Codes
    <3>4. reply' \in Reply
      BY <1>5, <2>1, <2>3, <3>1, <3>2, <3>3 DEF CommitTerminal
    <3> QED
      BY <1>5, <3>1, <3>4 DEF CommitTerminal, TypeOK
  <2> QED
    BY <2>2, <2>3
<1>6. CASE RecoverPass
  BY <1>6, RecoveredTaskType, AfterRecoveryType DEF RecoverPass, TypeOK
<1>7. ASSUME NEW m \in 0..MaxAttempts, Restart(m) PROVE TypeOK'
  BY <1>7, BoundsAssumption DEF Restart, Positive, TypeOK
<1>8. CASE Tick
  <2>1. ASSUME NEW t \in TaskId, NEW n \in AttemptNo
        PROVE  [attempt[t][n] EXCEPT !.lease = IF @ > 0 THEN @ - 1 ELSE 0] \in AttemptRow
    <3>1. attempt[t][n] \in AttemptRow
      BY DEF TypeOK
    <3> QED
      BY <3>1 DEF AttemptRow
  <2> QED
    BY <1>8, <2>1 DEF Tick, TypeOK
<1>9. CASE UNCHANGED vars
  BY <1>9 DEF vars, TypeOK
<1> QED
  BY <1>1, <1>2, <1>3, <1>4, <1>5, <1>6, <1>7, <1>8, <1>9 DEF Next

(* Type correctness of every reachable state, for all constants.           *)
THEOREM TypeCorrect == Spec => []TypeOK
BY TypeInit, TypeStep, PTL DEF Spec
-----------------------------------------------------------------------------
(***************************************************************************)
(* What one step may do to one task and its attempts.  Every action of     *)
(* Next is one of these for each task, and the theorems below look at the  *)
(* eight of them instead of at the actions.                                *)
(***************************************************************************)
Kept(t) == /\ task'[t] = task[t]
           /\ attempt'[t] = attempt[t]

Born(t) == /\ t = created + 1
           /\ created' = created + 1
           /\ \E s, r \in Agent, i \in Input, k \in Key \cup {None} :
                 task'[t] = NewTask(s, r, i, k)
           /\ attempt'[t] = attempt[t]

Recovered(t) == /\ task'[t] = RecoveredTask(t)
                /\ attempt'[t] = AfterRecovery(t)

Dropped(t) == /\ RecoveredTask(t).status = "queued"
              /\ RecoveredTask(t).attempt_count >= limit
              /\ task'[t] = Discarded(RecoveredTask(t))
              /\ attempt'[t] = AfterRecovery(t)

GrantedTo(t) == /\ RecoveredTask(t).status = "queued"
                /\ RecoveredTask(t).attempt_count < limit
                /\ task'[t] = Granted(RecoveredTask(t))
                /\ attempt'[t] = [AfterRecovery(t) EXCEPT
                                     ![RecoveredTask(t).attempt_count + 1] = NewAttempt]

Live(t, n) == /\ attempt[t][n].outcome = "processing"
              /\ attempt[t][n].lease # 0
              /\ task[t].status = "processing"

Renewed(t) == \E n \in AttemptNo :
                /\ Live(t, n)
                /\ task'[t] = task[t]
                /\ attempt'[t] = [attempt[t] EXCEPT ![n].lease = Lease]

SettledBy(t) == \E n \in AttemptNo, act \in {"complete", "fail"}, v \in Value :
                /\ Live(t, n)
                /\ task'[t] = WithResult(task[t], act, v)
                /\ attempt'[t] = [attempt[t] EXCEPT ![n] = WithOutcome(@, act, v)]

Aged(t) == /\ task'[t] = task[t]
           /\ attempt'[t] = [n \in AttemptNo |->
                 [attempt[t][n] EXCEPT !.lease = IF @ > 0 THEN @ - 1 ELSE 0]]

RowStep(t) == \/ Born(t)
              \/ /\ (t <= created') = (t <= created)
                 /\ \/ Kept(t) \/ Recovered(t) \/ Dropped(t) \/ GrantedTo(t)
                    \/ Renewed(t) \/ SettledBy(t) \/ Aged(t)

(* Every step of the store is one of the eight for each of its tasks.      *)
LEMMA StepByRows ==
    ASSUME TypeOK, [Next]_vars, NEW t \in TaskId
    PROVE  RowStep(t)
<1> USE BoundsAssumption
<1>1. ASSUME NEW a \in Agent, RegisterAgent(a) PROVE RowStep(t)
  BY <1>1 DEF RegisterAgent, RowStep, Kept
<1>2. ASSUME NEW s \in Agent, NEW r \in Agent, NEW i \in Input, NEW k \in Key \cup {None},
             CreateTask(s, r, i, k)
      PROVE RowStep(t)
  <2>1. CASE CreateReply(s, r, i, k).code = "created"
    <3>1. /\ created < MaxTasks /\ created' = created + 1
          /\ task' = [task EXCEPT ![created + 1] = NewTask(s, r, i, k)]
          /\ attempt' = attempt
      BY <1>2, <2>1 DEF CreateTask
    <3>2. CASE t = created + 1
      <4>1. task'[t] = NewTask(s, r, i, k)
        BY <3>1, <3>2 DEF TypeOK
      <4> QED
        BY <3>1, <3>2, <4>1 DEF RowStep, Born
    <3>3. CASE t # created + 1
      <4>1. task'[t] = task[t]
        BY <3>1, <3>3 DEF TypeOK
      <4>2. (t <= created') = (t <= created)
        BY <3>1, <3>3 DEF TypeOK
      <4> QED
        BY <3>1, <4>1, <4>2 DEF RowStep, Kept
    <3> QED
      BY <3>2, <3>3
  <2>2. CASE CreateReply(s, r, i, k).code # "created"
    BY <1>2, <2>2 DEF CreateTask, RowStep, Kept
  <2> QED
    BY <2>1, <2>2
<1>3. ASSUME NEW a \in Agent, Claim(a) PROVE RowStep(t)
  <2>1. CASE ClaimNothing(a)
    BY <2>1 DEF ClaimNothing, RowStep, Recovered
  <2>2. CASE ClaimExhausted(a)
    <3>1. PICK u \in TaskId :
            /\ RecoveredTask(u).status = "queued"
            /\ RecoveredTask(u).attempt_count >= limit
            /\ task' = [w \in TaskId |-> IF w = u THEN Discarded(RecoveredTask(w))
                                                 ELSE RecoveredTask(w)]
            /\ attempt' = [w \in TaskId |-> AfterRecovery(w)]
            /\ created' = created
      BY <2>2 DEF ClaimExhausted, IsOldest, Waiting
    <3> QED
      BY <3>1 DEF RowStep, Recovered, Dropped
  <2>3. CASE ClaimGrant(a)
    <3>1. PICK u \in TaskId :
            /\ RecoveredTask(u).status = "queued"
            /\ RecoveredTask(u).attempt_count < limit
            /\ task' = [w \in TaskId |-> IF w = u THEN Granted(RecoveredTask(w))
                                                 ELSE RecoveredTask(w)]
            /\ attempt' = [w \in TaskId |-> IF w = u
                 THEN [AfterRecovery(w) EXCEPT ![RecoveredTask(u).attempt_count + 1] = NewAttempt]
                 ELSE AfterRecovery(w)]
            /\ created' = created
      BY <2>3 DEF ClaimGrant, IsOldest, Waiting
    <3> QED
      BY <3>1 DEF RowStep, Recovered, GrantedTo
  <2> QED
    BY <1>3, <2>1, <2>2, <2>3 DEF Claim
<1>4. ASSUME NEW a \in Agent, NEW u \in TaskId, NEW n \in Token, Heartbeat(a, u, n)
      PROVE RowStep(t)
  <2>1. CASE reply'.code = "renewed" /\ u = t
    <3>1. n \in AttemptNo /\ Live(u, n)
      BY <1>4, <2>1 DEF Heartbeat, HeartbeatReply, Named, NoAttempt, Answer, Says, Live
    <3>2. attempt'[t] = [attempt[t] EXCEPT ![n].lease = Lease]
      BY <1>4, <2>1 DEF Heartbeat, TypeOK
    <3> QED
      BY <1>4, <2>1, <3>1, <3>2 DEF Heartbeat, RowStep, Renewed
  <2>2. CASE ~(reply'.code = "renewed" /\ u = t)
    BY <1>4, <2>2 DEF Heartbeat, RowStep, Kept, TypeOK
  <2> QED
    BY <2>1, <2>2
<1>5. ASSUME NEW a \in Agent, NEW u \in TaskId, NEW n \in Token,
             NEW act \in {"complete", "fail"}, NEW v \in Value, CommitTerminal(a, u, n, act, v)
      PROVE RowStep(t)
  <2>1. CASE TerminalVerdict(a, u, n, act, v) = "settles" /\ u = t
    <3>1. n \in AttemptNo /\ Live(u, n)
      BY <2>1 DEF TerminalVerdict, Named, NoAttempt, Live
    <3>2. /\ task'[t] = WithResult(task[t], act, v)
          /\ attempt'[t] = [attempt[t] EXCEPT ![n] = WithOutcome(@, act, v)]
          /\ created' = created
      BY <1>5, <2>1 DEF CommitTerminal, TypeOK
    <3> QED
      BY <2>1, <3>1, <3>2 DEF RowStep, SettledBy
  <2>2. CASE ~(TerminalVerdict(a, u, n, act, v) = "settles" /\ u = t)
    BY <1>5, <2>2 DEF CommitTerminal, RowStep, Kept, TypeOK
  <2> QED
    BY <2>1, <2>2
<1>6. CASE RecoverPass
  BY <1>6 DEF RecoverPass, RowStep, Recovered
<1>7. ASSUME NEW m \in 0..MaxAttempts, Restart(m) PROVE RowStep(t)
  BY <1>7 DEF Restart, RowStep, Kept
<1>8. CASE Tick
  BY <1>8 DEF Tick, RowStep, Aged
<1>9. CASE UNCHANGED vars
  BY <1>9 DEF vars, RowStep, Kept
<1> QED
  BY <1>1, <1>2, <1>3, <1>4, <1>5, <1>6, <1>7, <1>8, <1>9 DEF Next
-----------------------------------------------------------------------------
(***************************************************************************)
(* The inductive invariant: a task row and the attempts made for it, as    *)
(* they fit together.  GoodRow is about one row and its attempts, so that  *)
(* the effect of each handler on a row is a lemma of its own; known says   *)
(* whether the id has been handed out.                                     *)
(***************************************************************************)
GoodHistory(row, atts) ==
    \A n \in AttemptNo : /\ n > row.attempt_count <=> atts[n].outcome = "none"
                         /\ n < row.attempt_count => atts[n].outcome = "expired"

GoodResult(row, last) ==
    /\ row.finished <=> row.status \in Settled
    /\ row.status \notin Settled => row.output = None /\ row.error = None
    /\ row.status = "completed" => /\ last.action = "complete"
                                   /\ row.output = last.payload
                                   /\ row.error = None
    /\ row.status = "failed" =>
          /\ row.output = None
          /\ IF last.outcome = "failed"
             THEN last.action = "fail" /\ row.error = last.payload
             ELSE row.error = Exhausted

GoodRow(row, atts, known) ==
    LET c == row.attempt_count
    IN  /\ GoodHistory(row, atts)
        /\ row.status = "absent" <=> ~known
        /\ row.status = "absent" => c = 0
        /\ row.status = "queued" => (c > 0 => atts[c].outcome = "expired")
        /\ row.status = "processing" => c > 0 /\ atts[c].outcome = "processing"
        /\ row.status = "completed" => c > 0 /\ atts[c].outcome = "completed"
        /\ row.status = "failed" => c > 0 /\ atts[c].outcome \in {"failed", "expired"}
        /\ c > 0 => GoodResult(row, atts[c])
        /\ c = 0 => GoodResult(row, NoAttempt)

IInv == TypeOK /\ \A t \in TaskId : GoodRow(task[t], attempt[t], t <= created)

Rows == [AttemptNo -> AttemptRow]

(* A new task has no attempts yet.                                         *)
LEMMA BornGood ==
    ASSUME NEW s \in Agent, NEW r \in Agent, NEW i \in Input, NEW k \in Key \cup {None},
           NEW old \in TaskRow, NEW atts \in Rows, GoodRow(old, atts, FALSE)
    PROVE  GoodRow(NewTask(s, r, i, k), atts, TRUE)
<1> DEFINE row == NewTask(s, r, i, k)
<1>1. row.attempt_count = 0 /\ row.status = "queued" /\ row.output = None
      /\ row.error = None /\ row.finished = FALSE
  BY DEF NewTask
<1>2. old.attempt_count = 0
  BY DEF GoodRow
<1>3. GoodHistory(row, atts)
  BY <1>1, <1>2 DEF GoodRow, GoodHistory
<1>4. GoodResult(row, NoAttempt)
  BY <1>1 DEF GoodResult, Settled
<1> QED
  BY <1>1, <1>3, <1>4 DEF GoodRow

(* Only the last attempt of a task can be open, and only while the task is *)
(* processing: at most one claim of a task is live.                        *)
LEMMA OpenIsLast ==
    ASSUME NEW row \in TaskRow, NEW atts \in Rows, NEW known \in BOOLEAN,
           GoodRow(row, atts, known), NEW n \in AttemptNo, atts[n].outcome = "processing"
    PROVE  n = row.attempt_count /\ row.status = "processing"
<1>1. row.attempt_count \in 0..MaxAttempts
      /\ row.status \in {"absent", "queued", "processing", "completed", "failed"}
  BY DEF TaskRow
<1>2. ~(n > row.attempt_count) /\ ~(n < row.attempt_count)
  BY DEF GoodRow, GoodHistory
<1>3. n = row.attempt_count
  BY <1>1, <1>2, BoundsAssumption
<1> QED
  BY <1>1, <1>3, BoundsAssumption DEF GoodRow

(* Recovery closes the attempt and moves the task, or touches neither.     *)
LEMMA RecoveredGood ==
    ASSUME TypeOK, NEW t \in TaskId, NEW known \in BOOLEAN,
           GoodRow(task[t], attempt[t], known)
    PROVE  GoodRow(RecoveredTask(t), AfterRecovery(t), known)
<1> DEFINE row  == task[t]
           atts == attempt[t]
           c    == task[t].attempt_count
           post == AfterRecovery(t)
<1> USE BoundsAssumption
<1>1. row \in TaskRow /\ atts \in Rows /\ c \in 0..MaxAttempts
  BY DEF TypeOK, Rows, TaskRow
<1>2. CASE \A n \in AttemptNo : ~Expired(atts[n])
  <2>1. RecoveredTask(t) = row
    BY <1>2 DEF RecoveredTask
  <2>2. post = atts
    BY <1>1, <1>2 DEF AfterRecovery, RecoveredAttempt, Rows
  <2> QED
    BY <2>1, <2>2
<1>3. CASE \E n \in AttemptNo : Expired(atts[n])
  <2>1. c \in AttemptNo /\ Expired(atts[c]) /\ row.status = "processing"
    BY <1>1, <1>3, OpenIsLast DEF Expired
  <2>2. \A n \in AttemptNo : n # c => ~Expired(atts[n])
    BY <1>1, OpenIsLast DEF Expired
  <2>3. ASSUME NEW n \in AttemptNo, n # c PROVE post[n] = atts[n]
    BY <2>2, <2>3 DEF AfterRecovery, RecoveredAttempt
  <2>4. post[c] = [atts[c] EXCEPT !.outcome = "expired"]
    BY <2>1 DEF AfterRecovery, RecoveredAttempt
  <2>5. atts[c] \in AttemptRow
    BY <1>1, <2>1 DEF Rows
  <2>6. post[c].outcome = "expired"
    BY <2>4, <2>5 DEF AttemptRow
  <2>7. row.output = None /\ row.error = None /\ known = TRUE
    BY <1>1, <2>1 DEF GoodRow, GoodResult, Settled
  <2>8. CASE c >= limit
    <3>1. RecoveredTask(t) = GivenUp(row)
      BY <1>3, <2>1, <2>8 DEF RecoveredTask
    <3>2. /\ GivenUp(row).status = "failed" /\ GivenUp(row).attempt_count = c
          /\ GivenUp(row).output = None /\ GivenUp(row).error = Exhausted
          /\ GivenUp(row).finished = TRUE
      BY <1>1 DEF GivenUp, TaskRow
    <3>3. GoodHistory(GivenUp(row), post)
      BY <1>1, <2>1, <2>3, <2>6, <3>2 DEF GoodRow, GoodHistory
    <3>4. GoodResult(GivenUp(row), post[c])
      BY <2>6, <3>2 DEF GoodResult, Settled
    <3> QED
      BY <2>1, <2>6, <2>7, <3>1, <3>2, <3>3, <3>4 DEF GoodRow
  <2>9. CASE ~(c >= limit)
    <3> DEFINE queued == [row EXCEPT !.status = "queued", !.finished = FALSE]
    <3>1. RecoveredTask(t) = queued
      BY <1>3, <2>1, <2>9 DEF RecoveredTask
    <3>2. /\ queued.status = "queued" /\ queued.attempt_count = c
          /\ queued.output = row.output /\ queued.error = row.error
          /\ queued.finished = FALSE
      BY <1>1 DEF TaskRow
    <3> HIDE DEF queued
    <3>3. GoodHistory(queued, post)
      BY <1>1, <2>1, <2>3, <2>6, <3>2 DEF GoodRow, GoodHistory
    <3>4. GoodResult(queued, post[c])
      BY <2>7, <3>2 DEF GoodResult, Settled
    <3> QED
      BY <2>1, <2>6, <2>7, <3>1, <3>2, <3>3, <3>4 DEF GoodRow
  <2> QED
    BY <2>8, <2>9
<1> QED
  BY <1>2, <1>3

(* A queued task over the limit fails as one that used its attempts up.    *)
LEMMA DiscardedGood ==
    ASSUME NEW row \in TaskRow, NEW atts \in Rows, NEW known \in BOOLEAN,
           GoodRow(row, atts, known), row.status = "queued", row.attempt_count > 0
    PROVE  GoodRow(Discarded(row), atts, known)
<1> DEFINE new == Discarded(row)
           c   == row.attempt_count
<1>1. c \in AttemptNo
  BY BoundsAssumption DEF TaskRow
<1>2. /\ new.status = "failed" /\ new.attempt_count = c /\ new.output = row.output
      /\ new.error = Exhausted /\ new.finished = TRUE
  BY DEF Discarded, TaskRow
<1>3. known /\ atts[c].outcome = "expired" /\ row.output = None
  BY <1>1 DEF GoodRow, GoodResult, Settled
<1>4. GoodHistory(new, atts)
  BY <1>2 DEF GoodRow, GoodHistory
<1>5. GoodResult(new, atts[c])
  BY <1>2, <1>3 DEF GoodResult, Settled
<1> HIDE DEF new
<1>6. GoodRow(new, atts, known)
  BY <1>1, <1>2, <1>3, <1>4, <1>5 DEF GoodRow
<1> QED
  BY <1>6 DEF new

(* A grant appends the next attempt to a history in which all have expired.*)
LEMMA GrantedGood ==
    ASSUME NEW row \in TaskRow, NEW atts \in Rows, NEW known \in BOOLEAN,
           GoodRow(row, atts, known), row.status = "queued", row.attempt_count < MaxAttempts
    PROVE  GoodRow(Granted(row), [atts EXCEPT ![row.attempt_count + 1] = NewAttempt], known)
<1> DEFINE new  == Granted(row)
           c    == row.attempt_count
           post == [atts EXCEPT ![row.attempt_count + 1] = NewAttempt]
<1>0. c \in Nat /\ c + 1 \in AttemptNo
  BY BoundsAssumption DEF TaskRow
<1>1. /\ new.status = "processing" /\ new.attempt_count = c + 1 /\ new.output = row.output
      /\ new.error = row.error /\ new.finished = row.finished
  BY DEF Granted, TaskRow
<1>2. known /\ (c > 0 => atts[c].outcome = "expired")
      /\ row.output = None /\ row.error = None /\ row.finished = FALSE
  <2>1. known /\ (c > 0 => atts[c].outcome = "expired")
    BY DEF GoodRow
  <2>2. \E last : GoodResult(row, last)
    BY <1>0 DEF GoodRow
  <2> QED
    BY <2>1, <2>2 DEF GoodResult, Settled, TaskRow
<1>3. /\ post[c + 1] = NewAttempt
      /\ \A n \in AttemptNo : n # c + 1 => post[n] = atts[n]
  BY <1>0 DEF Rows
<1>4. post[c + 1].outcome = "processing"
  BY <1>3 DEF NewAttempt
<1> HIDE DEF new, post
<1>5. GoodHistory(new, post)
  <2> SUFFICES ASSUME NEW n \in AttemptNo
               PROVE  /\ n > c + 1 <=> post[n].outcome = "none"
                      /\ n < c + 1 => post[n].outcome = "expired"
    BY <1>1 DEF GoodHistory
  <2>1. /\ n > c <=> atts[n].outcome = "none"
        /\ n < c => atts[n].outcome = "expired"
    BY DEF GoodRow, GoodHistory
  <2>2. CASE n = c + 1
    BY <1>0, <1>4, <2>2
  <2>3. CASE n < c
    BY <1>0, <1>3, <2>1, <2>3
  <2>4. CASE n = c
    BY <1>0, <1>2, <1>3, <2>4
  <2>5. CASE n > c + 1
    BY <1>0, <1>3, <2>1, <2>5
  <2> QED
    BY <1>0, <2>2, <2>3, <2>4, <2>5
<1>6. GoodResult(new, post[c + 1])
  BY <1>1, <1>2 DEF GoodResult, Settled
<1>7. GoodRow(new, post, known)
  BY <1>0, <1>1, <1>2, <1>4, <1>5, <1>6 DEF GoodRow
<1> QED
  BY <1>7 DEF new, post

(* A live attempt that settles its task leaves its payload in the task.    *)
LEMMA SettledGood ==
    ASSUME NEW row \in TaskRow, NEW atts \in Rows, NEW known \in BOOLEAN,
           GoodRow(row, atts, known),
           NEW n \in AttemptNo, atts[n].outcome = "processing",
           NEW act \in {"complete", "fail"}, NEW v \in Value
    PROVE  GoodRow(WithResult(row, act, v),
                   [atts EXCEPT ![n] = WithOutcome(@, act, v)], known)
<1> DEFINE new  == WithResult(row, act, v)
           post == [atts EXCEPT ![n] = WithOutcome(atts[n], act, v)]
<1>1. n = row.attempt_count /\ row.status = "processing" /\ known
  BY OpenIsLast DEF GoodRow
<1>2. /\ new.status = TerminalStatus(act) /\ new.attempt_count = n /\ new.finished = TRUE
      /\ new.output = IF act = "complete" THEN v ELSE None
      /\ new.error = IF act = "complete" THEN None ELSE v
  BY <1>1 DEF WithResult, TaskRow
<1>3. atts[n] \in AttemptRow
  BY DEF Rows
<1>4. /\ post[n] = WithOutcome(atts[n], act, v)
      /\ \A m \in AttemptNo : m # n => post[m] = atts[m]
  BY DEF Rows
<1>5. /\ post[n].outcome = TerminalStatus(act) /\ post[n].action = act /\ post[n].payload = v
  BY <1>3, <1>4 DEF WithOutcome, AttemptRow
<1>6. TerminalStatus(act) \in Settled
      /\ (act = "complete" <=> TerminalStatus(act) = "completed")
  BY DEF TerminalStatus, Settled
<1> HIDE DEF new, post
<1>7. GoodHistory(new, post)
  BY <1>1, <1>2, <1>4, <1>5, <1>6, BoundsAssumption DEF GoodRow, GoodHistory, Settled
<1>8. GoodResult(new, post[n])
  BY <1>2, <1>5, <1>6 DEF GoodResult, Settled
<1>9. GoodRow(new, post, known)
  BY <1>1, <1>2, <1>5, <1>6, <1>7, <1>8, BoundsAssumption DEF GoodRow, Settled
<1> QED
  BY <1>9 DEF new, post

(* GoodRow does not look at leases: renewing or ageing them keeps it.      *)
LEMMA LeasesDoNotMatter ==
    ASSUME NEW row \in TaskRow, NEW atts \in Rows, NEW post \in Rows, NEW known \in BOOLEAN,
           GoodRow(row, atts, known),
           \A n \in AttemptNo : /\ post[n].outcome = atts[n].outcome
                                /\ post[n].action = atts[n].action
                                /\ post[n].payload = atts[n].payload
    PROVE  GoodRow(row, post, known)
<1>1. row.attempt_count > 0 => row.attempt_count \in AttemptNo
  BY BoundsAssumption DEF TaskRow
<1>2. GoodHistory(row, post)
  BY DEF GoodRow, GoodHistory
<1>3. row.attempt_count > 0 => GoodResult(row, post[row.attempt_count])
  BY <1>1 DEF GoodRow, GoodResult
<1> QED
  BY <1>1, <1>2, <1>3 DEF GoodRow

(* Only POST /tasks hands out an id.                                       *)
LEMMA SameIds ==
    ASSUME NEW row, NEW atts, NEW one \in BOOLEAN, NEW other \in BOOLEAN, one <=> other,
           GoodRow(row, atts, one)
    PROVE  GoodRow(row, atts, other)
BY DEF GoodRow

(* The empty tables are good.                                              *)
LEMMA InvInit == Init => IInv
<1> SUFFICES ASSUME Init, NEW t \in TaskId
             PROVE  GoodRow(task[t], attempt[t], t <= created)
  BY TypeInit DEF IInv
<1>1. /\ task[t] = NoTask /\ attempt[t] = [n \in AttemptNo |-> NoAttempt]
      /\ ~(t <= created)
  BY BoundsAssumption DEF Init
<1>2. GoodResult(NoTask, NoAttempt)
  BY DEF GoodResult, NoTask, Settled
<1>3. GoodHistory(NoTask, attempt[t])
  BY <1>1, BoundsAssumption DEF GoodHistory, NoTask, NoAttempt
<1> QED
  BY <1>1, <1>2, <1>3 DEF GoodRow, NoTask

(* Every step leaves every task good, one kind of step at a time.          *)
LEMMA InvStep == IInv /\ [Next]_vars => IInv'
<1> SUFFICES ASSUME IInv, [Next]_vars, NEW t \in TaskId
             PROVE  GoodRow(task'[t], attempt'[t], t <= created')
  BY TypeStep DEF IInv
<1> DEFINE known == t <= created
<1>1. TypeOK /\ TypeOK' /\ GoodRow(task[t], attempt[t], known) /\ known \in BOOLEAN
  BY TypeStep DEF IInv
<1>2. /\ task[t] \in TaskRow /\ attempt[t] \in Rows /\ attempt'[t] \in Rows
      /\ created \in Nat /\ limit \in 1..MaxAttempts
  BY <1>1 DEF TypeOK, Rows
<1>3. RecoveredTask(t) \in TaskRow /\ AfterRecovery(t) \in Rows
  BY <1>1, RecoveredTaskType, AfterRecoveryType DEF Rows
<1>4. GoodRow(RecoveredTask(t), AfterRecovery(t), known)
  BY <1>1, RecoveredGood
<1>5. CASE Born(t)
  <2>1. PICK s \in Agent, r \in Agent, i \in Input, k \in Key \cup {None} :
          task'[t] = NewTask(s, r, i, k)
    BY <1>5 DEF Born
  <2>2. known = FALSE /\ (t <= created') = TRUE /\ attempt'[t] = attempt[t]
    BY <1>2, <1>5 DEF Born
  <2>3. GoodRow(task[t], attempt[t], FALSE)
    BY <1>1, <2>2
  <2>4. GoodRow(NewTask(s, r, i, k), attempt[t], TRUE)
    BY <1>2, <2>3, BornGood
  <2> QED
    BY <2>1, <2>2, <2>4
<1>6. CASE (t <= created') = (t <= created) /\ Kept(t)
  BY <1>1, <1>6 DEF Kept
<1>7. CASE (t <= created') = (t <= created) /\ Recovered(t)
  BY <1>4, <1>7 DEF Recovered
<1>8. CASE (t <= created') = (t <= created) /\ Dropped(t)
  <2>1. RecoveredTask(t).attempt_count > 0
    BY <1>2, <1>3, <1>8 DEF Dropped, TaskRow
  <2>2. GoodRow(Discarded(RecoveredTask(t)), AfterRecovery(t), known)
    BY <1>1, <1>3, <1>4, <1>8, <2>1, DiscardedGood DEF Dropped
  <2> QED
    BY <1>8, <2>2 DEF Dropped
<1>9. CASE (t <= created') = (t <= created) /\ GrantedTo(t)
  <2>1. RecoveredTask(t).attempt_count < MaxAttempts
    BY <1>2, <1>3, <1>9, BoundsAssumption DEF GrantedTo, TaskRow
  <2>2. GoodRow(Granted(RecoveredTask(t)),
                [AfterRecovery(t) EXCEPT ![RecoveredTask(t).attempt_count + 1] = NewAttempt],
                known)
    BY <1>1, <1>3, <1>4, <1>9, <2>1, GrantedGood DEF GrantedTo
  <2> QED
    BY <1>9, <2>2 DEF GrantedTo
<1>10. CASE (t <= created') = (t <= created) /\ Renewed(t)
  <2>1. PICK n \in AttemptNo : attempt'[t] = [attempt[t] EXCEPT ![n].lease = Lease]
    BY <1>10 DEF Renewed
  <2>2. ASSUME NEW m \in AttemptNo
        PROVE  /\ attempt'[t][m].outcome = attempt[t][m].outcome
               /\ attempt'[t][m].action = attempt[t][m].action
               /\ attempt'[t][m].payload = attempt[t][m].payload
    BY <1>2, <2>1 DEF Rows, AttemptRow
  <2>3. GoodRow(task[t], attempt'[t], known)
    <3> HIDE DEF known
    <3> QED
      BY <1>1, <1>2, <2>2, LeasesDoNotMatter
  <2>y. GoodRow(task'[t], attempt'[t], known)
    BY <1>10, <2>3 DEF Renewed
  <2>z. known <=> (t <= created')
    BY <1>10
  <2> QED
    BY <1>1, <2>y, <2>z, SameIds
<1>11. CASE (t <= created') = (t <= created) /\ SettledBy(t)
  <2>1. PICK n \in AttemptNo, act \in {"complete", "fail"}, v \in Value :
          /\ Live(t, n)
          /\ task'[t] = WithResult(task[t], act, v)
          /\ attempt'[t] = [attempt[t] EXCEPT ![n] = WithOutcome(@, act, v)]
    BY <1>11 DEF SettledBy
  <2>2. GoodRow(task'[t], attempt'[t], known)
    <3> HIDE DEF known
    <3> QED
      BY <1>1, <1>2, <2>1, SettledGood DEF Live
  <2>z. known <=> (t <= created')
    BY <1>11
  <2> QED
    BY <1>1, <2>2, <2>z, SameIds
<1>12. CASE (t <= created') = (t <= created) /\ Aged(t)
  <2>1. ASSUME NEW m \in AttemptNo
        PROVE  /\ attempt'[t][m].outcome = attempt[t][m].outcome
               /\ attempt'[t][m].action = attempt[t][m].action
               /\ attempt'[t][m].payload = attempt[t][m].payload
    BY <1>2, <1>12 DEF Aged, Rows, AttemptRow
  <2>2. GoodRow(task[t], attempt'[t], known)
    <3> HIDE DEF known
    <3> QED
      BY <1>1, <1>2, <2>1, LeasesDoNotMatter
  <2>y. GoodRow(task'[t], attempt'[t], known)
    BY <1>12, <2>2 DEF Aged
  <2>z. known <=> (t <= created')
    BY <1>12
  <2> QED
    BY <1>1, <2>y, <2>z, SameIds
<1>13. RowStep(t)
  BY <1>1, StepByRows
<1> QED
  BY <1>5, <1>6, <1>7, <1>8, <1>9, <1>10, <1>11, <1>12, <1>13 DEF RowStep

(* The rows of every task fit together in every reachable state.           *)
THEOREM InvCorrect == Spec => []IInv
BY InvInit, InvStep, PTL DEF Spec
-----------------------------------------------------------------------------
(* Attempts are numbered without a gap and only the last one of a task may *)
(* be anything but expired: two claims of a task are never open together.  *)
THEOREM HistoryHolds == Spec => []AttemptHistory
<1>1. IInv => AttemptHistory
  BY DEF IInv, GoodRow, GoodHistory, AttemptHistory
<1> QED
  BY <1>1, InvCorrect, PTL

(* The status of a task and the outcome of its last attempt agree.         *)
THEOREM RowsAgreeHolds == Spec => []RowsAgree
<1> DEFINE Pairs == {<<"absent", "none">>, <<"queued", "none">>, <<"queued", "expired">>,
                     <<"processing", "processing">>, <<"completed", "completed">>,
                     <<"failed", "failed">>, <<"failed", "expired">>}
<1>1. ASSUME IInv, NEW t \in TaskId
      PROVE  /\ task[t].status = "absent" <=> t > created
             /\ <<task[t].status, Named(t, task[t].attempt_count).outcome>> \in Pairs
  <2> DEFINE c == task[t].attempt_count
  <2>1. /\ task[t] \in TaskRow /\ created \in Nat
        /\ GoodRow(task[t], attempt[t], t <= created)
    BY <1>1 DEF IInv, TypeOK
  <2>2. /\ c \in 0..MaxAttempts
        /\ task[t].status \in {"absent", "queued", "processing", "completed", "failed"}
    BY <2>1 DEF TaskRow
  <2>3. task[t].status = "absent" <=> t > created
    BY <2>1 DEF GoodRow
  <2>4. CASE c = 0
    <3>1. Named(t, c).outcome = "none"
      BY <2>4, BoundsAssumption DEF Named, NoAttempt
    <3>2. task[t].status \in {"absent", "queued"}
      BY <2>1, <2>2, <2>4 DEF GoodRow
    <3> QED
      BY <2>3, <3>1, <3>2
  <2>5. CASE c > 0
    <3>1. Named(t, c) = attempt[t][c] /\ task[t].status # "absent"
      BY <2>1, <2>2, <2>5 DEF Named, GoodRow
    <3>2. \/ task[t].status = "queued" /\ attempt[t][c].outcome = "expired"
          \/ task[t].status = "processing" /\ attempt[t][c].outcome = "processing"
          \/ task[t].status = "completed" /\ attempt[t][c].outcome = "completed"
          \/ task[t].status = "failed" /\ attempt[t][c].outcome \in {"failed", "expired"}
      BY <2>1, <2>2, <2>5, <3>1 DEF GoodRow
    <3> QED
      BY <2>3, <3>1, <3>2
  <2> QED
    BY <2>2, <2>4, <2>5
<1>2. IInv => RowsAgree
  BY <1>1 DEF RowsAgree
<1> QED
  BY <1>2, InvCorrect, PTL

(* The result columns hold what the last attempt submitted, or the error   *)
(* of a task that was given up, and nothing before the task is settled.    *)
THEOREM ResultHolds == Spec => []ResultMatchesAttempt
<1>1. ASSUME IInv, NEW t \in TaskId
      PROVE  GoodResult(task[t], Named(t, task[t].attempt_count))
  <2> DEFINE c == task[t].attempt_count
  <2>1. c \in 0..MaxAttempts /\ GoodRow(task[t], attempt[t], t <= created)
    BY <1>1 DEF IInv, TypeOK, TaskRow
  <2>2. CASE c = 0
    BY <2>1, <2>2 DEF GoodRow, Named
  <2>3. CASE c > 0
    BY <2>1, <2>3 DEF GoodRow, Named
  <2> QED
    BY <2>1, <2>2, <2>3, BoundsAssumption
<1>2. IInv => ResultMatchesAttempt
  BY <1>1 DEF ResultMatchesAttempt, GoodResult
<1> QED
  BY <1>2, InvCorrect, PTL
-----------------------------------------------------------------------------
(* Recovery finds nothing to do in a task that is not processing.          *)
LEMMA NothingToRecover ==
    ASSUME IInv, NEW t \in TaskId, task[t].status # "processing"
    PROVE  RecoveredTask(t) = task[t]
BY DEF RecoveredTask

(* No step changes a completed or failed task.                             *)
LEMMA FinalStep ==
    ASSUME IInv, [Next]_vars, NEW t \in TaskId, task[t].status \in Settled
    PROVE  task'[t] = task[t]
<1>1. RowStep(t)
  BY StepByRows DEF IInv
<1>2. task[t].status \notin {"absent", "queued", "processing"}
  BY DEF Settled
<1>3. RecoveredTask(t) = task[t]
  BY <1>2, NothingToRecover
<1>4. t <= created
  BY <1>2 DEF IInv, GoodRow
<1>5. ~Born(t)
  BY <1>4 DEF Born, IInv, TypeOK
<1> QED
  BY <1>1, <1>2, <1>3, <1>5
     DEF RowStep, Kept, Recovered, Dropped, GrantedTo, Renewed, SettledBy, Live, Aged

(* A completed or failed task never changes again.                         *)
THEOREM FinalHolds == Spec => TerminalIsFinal
<1>1. IInv /\ [Next]_vars => [\A t \in TaskId : task[t].status \in Settled
                                              => task'[t] = task[t]]_vars
  BY FinalStep
<1> QED
  BY <1>1, InvCorrect, PTL DEF Spec, TerminalIsFinal

(* A claim whose lease has passed, or that is closed, stays that way.      *)
THEOREM NeverRevivedHolds == Spec => LeaseNeverRevived
<1> DEFINE Dead(t, n) == attempt[t][n].outcome # "none"
              /\ (attempt[t][n].outcome # "processing" \/ attempt[t][n].lease = 0)
           StaysDead(t, n) == /\ attempt'[t][n].lease <= attempt[t][n].lease
                              /\ \/ attempt'[t][n].outcome = attempt[t][n].outcome
                                 \/ /\ Expired(attempt[t][n])
                                    /\ attempt'[t][n].outcome = "expired"
<1>1. ASSUME IInv, [Next]_vars, NEW t \in TaskId, NEW n \in AttemptNo, Dead(t, n)
      PROVE  StaysDead(t, n)
  <2>1. RowStep(t)
    BY <1>1, StepByRows DEF IInv
  <2>a. attempt[t] \in Rows
    BY <1>1 DEF IInv, TypeOK, Rows
  <2>b. attempt[t][n] \in AttemptRow
    BY <2>a DEF Rows
  <2>c. attempt[t][n].lease \in 0..Lease
    BY <2>b DEF AttemptRow
  <2>2. /\ attempt[t] \in Rows /\ attempt[t][n] \in AttemptRow
        /\ attempt[t][n].lease \in Nat
    BY <2>a, <2>b, <2>c, BoundsAssumption
  <2>3. CASE attempt'[t] = attempt[t]
    BY <2>2, <2>3
  <2>4. /\ AfterRecovery(t)[n].lease = attempt[t][n].lease
        /\ \/ AfterRecovery(t)[n].outcome = attempt[t][n].outcome
           \/ Expired(attempt[t][n]) /\ AfterRecovery(t)[n].outcome = "expired"
    BY <2>2 DEF AfterRecovery, RecoveredAttempt, AttemptRow
  <2>5. CASE attempt'[t] = AfterRecovery(t)
    BY <2>2, <2>4, <2>5
  <2>6. CASE GrantedTo(t)
    <3>1. AfterRecovery(t)[n].outcome # "none"
      BY <1>1, <2>4
    <3> DEFINE known == t <= created
    <3>a. TypeOK /\ GoodRow(task[t], attempt[t], known) /\ known \in BOOLEAN
      BY <1>1 DEF IInv
    <3>2. GoodRow(RecoveredTask(t), AfterRecovery(t), known)
      BY <3>a, RecoveredGood
    <3>3. RecoveredTask(t).attempt_count \in Nat
      BY <1>1, RecoveredTaskType DEF IInv, TaskRow
    <3>4. n # RecoveredTask(t).attempt_count + 1
      BY <3>1, <3>2, <3>3 DEF GoodRow, GoodHistory
    <3>5. AfterRecovery(t) \in Rows
      BY <1>1, AfterRecoveryType DEF IInv, Rows
    <3>6. attempt'[t][n] = AfterRecovery(t)[n]
      BY <2>6, <3>4, <3>5 DEF GrantedTo, Rows
    <3> QED
      BY <2>2, <2>4, <3>6
  <2>7. CASE Renewed(t) \/ SettledBy(t)
    <3>1. attempt'[t][n] = attempt[t][n]
      BY <1>1, <2>2, <2>7 DEF Renewed, SettledBy, Live, Rows
    <3> QED
      BY <2>2, <3>1
  <2>8. CASE Aged(t)
    <3>1. attempt'[t][n] = [attempt[t][n] EXCEPT
                              !.lease = IF @ > 0 THEN @ - 1 ELSE 0]
      BY <2>8 DEF Aged
    <3>2. /\ attempt'[t][n].outcome = attempt[t][n].outcome
          /\ attempt'[t][n].lease = IF attempt[t][n].lease > 0
                                    THEN attempt[t][n].lease - 1 ELSE 0
      BY <2>2, <3>1 DEF AttemptRow
    <3> QED
      BY <2>2, <3>2
  <2> QED
    BY <2>1, <2>3, <2>5, <2>6, <2>7, <2>8 DEF RowStep, Born, Kept, Recovered, Dropped
<1>2. IInv /\ [Next]_vars =>
        [\A t \in TaskId, n \in AttemptNo :
           (attempt[t][n].outcome # "none"
            /\ (attempt[t][n].outcome # "processing" \/ attempt[t][n].lease = 0))
           => /\ attempt'[t][n].lease <= attempt[t][n].lease
              /\ \/ attempt'[t][n].outcome = attempt[t][n].outcome
                 \/ Expired(attempt[t][n]) /\ attempt'[t][n].outcome = "expired"]_vars
  BY <1>1
<1> QED
  BY <1>2, InvCorrect, PTL DEF Spec, LeaseNeverRevived
-----------------------------------------------------------------------------
(* What is granted is granted by a claim, and to the oldest waiting task.  *)
LEMMA GrantedByClaim ==
    ASSUME IInv, [Next]_vars, NEW t \in TaskId,
           task'[t].attempt_count # task[t].attempt_count
    PROVE  \E a \in Agent :
              /\ IsOldest(t, a)
              /\ RecoveredTask(t).attempt_count < limit
              /\ task' = [u \in TaskId |-> IF u = t THEN Granted(RecoveredTask(u))
                                                    ELSE RecoveredTask(u)]
<1>0. /\ TypeOK /\ task[t] \in TaskRow /\ RecoveredTask(t) \in TaskRow
      /\ RecoveredTask(t).attempt_count = task[t].attempt_count
  BY RecoveredTaskType DEF IInv, TypeOK
<1>1. task' # task
  OBVIOUS
<1>2. ASSUME NEW s \in Agent, NEW r \in Agent, NEW i \in Input, NEW k \in Key \cup {None},
             CreateTask(s, r, i, k)
      PROVE  FALSE
  <2>1. /\ created < MaxTasks /\ created' = created + 1
        /\ task' = [task EXCEPT ![created + 1] = NewTask(s, r, i, k)]
    BY <1>1, <1>2 DEF CreateTask
  <2>2. t = created + 1
    BY <1>0, <2>1 DEF TypeOK
  <2>3. task'[t].attempt_count = 0
    BY <1>0, <2>1, <2>2 DEF TypeOK, NewTask
  <2>4. task[t].attempt_count = 0
    <3>1. created \in Nat /\ GoodRow(task[t], attempt[t], t <= created)
      BY <1>0 DEF IInv, TypeOK
    <3> QED
      BY <2>2, <3>1 DEF GoodRow
  <2> QED
    BY <2>3, <2>4
<1>3. ASSUME NEW a \in Agent, NEW m \in TaskId, NEW n \in Token, NEW act \in {"complete", "fail"},
             NEW v \in Value, CommitTerminal(a, m, n, act, v)
      PROVE  FALSE
  <2>1. task' = [task EXCEPT ![m] = WithResult(@, act, v)]
    BY <1>1, <1>3 DEF CommitTerminal
  <2>2. WithResult(task[t], act, v).attempt_count = task[t].attempt_count
    BY <1>0 DEF WithResult, TaskRow
  <2> QED
    BY <1>0, <2>1, <2>2 DEF TypeOK
<1>4. task'[t] # RecoveredTask(t)
  BY <1>0
<1>5. ASSUME NEW a \in Agent, ClaimExhausted(a) PROVE FALSE
  <2>1. task'[t] = Discarded(RecoveredTask(t))
    BY <1>4, <1>5 DEF ClaimExhausted
  <2>2. Discarded(RecoveredTask(t)).attempt_count = RecoveredTask(t).attempt_count
    BY <1>0 DEF Discarded, TaskRow
  <2> QED
    BY <1>0, <2>1, <2>2
<1>6. PICK a \in Agent : ClaimGrant(a)
  BY <1>1, <1>2, <1>3, <1>4, <1>5
     DEF Next, RegisterAgent, Claim, ClaimNothing, Heartbeat, RecoverPass, Restart, Tick, vars
<1>7. PICK m \in TaskId :
        /\ IsOldest(m, a) /\ RecoveredTask(m).attempt_count < limit
        /\ task' = [u \in TaskId |-> IF u = m THEN Granted(RecoveredTask(u))
                                              ELSE RecoveredTask(u)]
  BY <1>6 DEF ClaimGrant
<1>8. m = t
  BY <1>4, <1>7
<1> QED
  BY <1>7, <1>8

(* claim_one: a grant counts one attempt, stays within the limit, and      *)
(* leaves no older task of the agent queued.                               *)
THEOREM GrantIsFairHolds == Spec => GrantIsFair
<1>1. ASSUME IInv, [Next]_vars, NEW t \in TaskId,
             task'[t].attempt_count # task[t].attempt_count
      PROVE  /\ task'[t].attempt_count = task[t].attempt_count + 1
             /\ task'[t].attempt_count <= limit
             /\ \A u \in TaskId : u < t /\ task[u].recipient = task[t].recipient
                                  => task'[u].status # "queued"
  <2>1. PICK a \in Agent :
          /\ IsOldest(t, a)
          /\ RecoveredTask(t).attempt_count < limit
          /\ task' = [u \in TaskId |-> IF u = t THEN Granted(RecoveredTask(u))
                                                ELSE RecoveredTask(u)]
    BY <1>1, GrantedByClaim
  <2>2. /\ TypeOK /\ RecoveredTask(t) \in TaskRow /\ limit \in Nat
        /\ RecoveredTask(t).attempt_count = task[t].attempt_count
        /\ \A u \in TaskId : RecoveredTask(u).recipient = task[u].recipient
    BY <1>1, RecoveredTaskType, BoundsAssumption DEF IInv, TypeOK
  <2>3. RecoveredTask(t).attempt_count \in Nat
    BY <2>2, BoundsAssumption DEF TaskRow
  <2>4. task'[t].attempt_count = RecoveredTask(t).attempt_count + 1
    BY <2>1, <2>2 DEF Granted, TaskRow
  <2>5. ASSUME NEW u \in TaskId, u < t, task[u].recipient = task[t].recipient
        PROVE  task'[u].status # "queued"
    <3>1. u \notin Waiting(a)
      BY <2>1, <2>5 DEF IsOldest
    <3>2. RecoveredTask(u).recipient = a
      BY <2>1, <2>2, <2>5 DEF IsOldest, Waiting
    <3>3. task'[u] = RecoveredTask(u)
      BY <2>1, <2>5
    <3> QED
      BY <3>1, <3>2, <3>3 DEF Waiting
  <2> QED
    BY <2>1, <2>2, <2>3, <2>4, <2>5
<1>2. IInv /\ [Next]_vars =>
        [\A t \in TaskId :
           task'[t].attempt_count # task[t].attempt_count =>
             /\ task'[t].attempt_count = task[t].attempt_count + 1
             /\ task'[t].attempt_count <= limit
             /\ \A u \in TaskId : u < t /\ task[u].recipient = task[t].recipient
                                  => task'[u].status # "queued"]_vars
  BY <1>1
<1> QED
  BY <1>2, InvCorrect, PTL DEF Spec, GrantIsFair
-----------------------------------------------------------------------------
(* The request a task was created by is in its row for good.               *)
LEMMA SameRequest ==
    ASSUME TypeOK, [Next]_vars, NEW t \in TaskId, t <= created
    PROVE  /\ task'[t].sender = task[t].sender /\ task'[t].recipient = task[t].recipient
           /\ task'[t].input = task[t].input /\ task'[t].key = task[t].key
<1>0. task[t] \in TaskRow /\ RecoveredTask(t) \in TaskRow
  BY RecoveredTaskType DEF TypeOK
<1>1. /\ RecoveredTask(t).sender = task[t].sender
      /\ RecoveredTask(t).recipient = task[t].recipient
      /\ RecoveredTask(t).input = task[t].input /\ RecoveredTask(t).key = task[t].key
  BY <1>0 DEF RecoveredTask, GivenUp, TaskRow
<1>2. RowStep(t) /\ ~Born(t)
  BY StepByRows DEF Born, TypeOK
<1>3. CASE Kept(t) \/ Recovered(t) \/ Renewed(t) \/ Aged(t)
  BY <1>1, <1>3 DEF Kept, Recovered, Renewed, Aged
<1>4. CASE Dropped(t)
  BY <1>0, <1>1, <1>4 DEF Dropped, Discarded, TaskRow
<1>5. CASE GrantedTo(t)
  BY <1>0, <1>1, <1>5 DEF GrantedTo, Granted, TaskRow
<1>6. CASE SettledBy(t)
  BY <1>0, <1>6 DEF SettledBy, WithResult, TaskRow
<1> QED
  BY <1>2, <1>3, <1>4, <1>5, <1>6 DEF RowStep

(* uq_task_idempotency: a sender uses a key for one task.                  *)
KeysApart == \A t, u \in 1..created :
                task[t].key # None /\ task[t].key = task[u].key
                                   /\ task[t].sender = task[u].sender => t = u

LEMMA KeysApartStep ==
    ASSUME TypeOK, KeysApart, [Next]_vars
    PROVE  KeysApart'
<1>0. created \in 0..MaxTasks /\ 1..created \subseteq TaskId /\ created \in Nat
  BY BoundsAssumption DEF TypeOK
<1>1. CASE created' = created
  BY <1>0, <1>1, SameRequest DEF KeysApart
<1>2. CASE created' # created
  <2>1. PICK s \in Agent, r \in Agent, i \in Input, k \in Key \cup {None} :
          CreateTask(s, r, i, k)
    BY <1>2 DEF Next, vars, RegisterAgent, Claim, ClaimNothing, ClaimExhausted, ClaimGrant,
                Heartbeat, CommitTerminal, RecoverPass, Restart, Tick
  <2>2. /\ CreateReply(s, r, i, k).code = "created" /\ created < MaxTasks
        /\ created' = created + 1
        /\ task' = [task EXCEPT ![created + 1] = NewTask(s, r, i, k)]
    BY <1>2, <2>1 DEF CreateTask
  <2>3. SameKey(s, k) = {}
    BY <2>2 DEF CreateReply, Says, Answer
  <2>4. created + 1 \in TaskId /\ 1..created' = 1..created \cup {created + 1}
    BY <1>0, <2>2, BoundsAssumption
  <2>5. task'[created + 1].sender = s /\ task'[created + 1].key = k
    BY <2>2, <2>4 DEF TypeOK, NewTask
  <2>6. \A t \in 1..created : task'[t] = task[t]
    BY <1>0, <2>2 DEF TypeOK
  <2>7. \A t \in 1..created : k # None => task[t].sender # s \/ task[t].key # k
    BY <2>3 DEF SameKey
  <2> QED
    BY <2>4, <2>5, <2>6, <2>7 DEF KeysApart
<1> QED
  BY <1>1, <1>2

(* The recipient of a task is registered, and agents stay registered.      *)
Registered == \A t \in 1..created : task[t].recipient \in agents

LEMMA RegisteredStep ==
    ASSUME TypeOK, Registered, [Next]_vars
    PROVE  Registered'
<1>0. created \in 0..MaxTasks /\ 1..created \subseteq TaskId /\ created \in Nat
  BY BoundsAssumption DEF TypeOK
<1>1. agents \subseteq agents'
  BY DEF Next, vars, RegisterAgent, CreateTask, Claim, ClaimNothing, ClaimExhausted, ClaimGrant,
         Heartbeat, CommitTerminal, RecoverPass, Restart, Tick
<1>2. CASE created' = created
  BY <1>0, <1>1, <1>2, SameRequest DEF Registered
<1>3. CASE created' # created
  <2>1. PICK s \in Agent, r \in Agent, i \in Input, k \in Key \cup {None} :
          CreateTask(s, r, i, k)
    BY <1>3 DEF Next, vars, RegisterAgent, Claim, ClaimNothing, ClaimExhausted, ClaimGrant,
                Heartbeat, CommitTerminal, RecoverPass, Restart, Tick
  <2>2. /\ CreateReply(s, r, i, k).code = "created" /\ created' = created + 1
        /\ created < MaxTasks
        /\ task' = [task EXCEPT ![created + 1] = NewTask(s, r, i, k)]
    BY <1>3, <2>1 DEF CreateTask
  <2>3. r \in agents
    BY <2>2 DEF CreateReply, Answer, Says
  <2>4. created + 1 \in TaskId /\ 1..created' = 1..created \cup {created + 1}
    BY <1>0, <2>2, BoundsAssumption
  <2>5. task'[created + 1].recipient = r
    BY <2>2, <2>4 DEF TypeOK, NewTask
  <2>6. \A t \in 1..created : task'[t] = task[t]
    BY <1>0, <2>2 DEF TypeOK
  <2> QED
    BY <1>1, <2>3, <2>4, <2>5, <2>6 DEF Registered
<1> QED
  BY <1>2, <1>3

(* create_task: a repeated request with a key is answered with the task of *)
(* the first one, if it has the same body, and refused otherwise; what is  *)
(* asked for with a new key is stored.                                     *)
THEOREM RetriedCreateHolds == Spec => RetriedCreateFindsTask
<1> DEFINE
      Known == KeysApart /\ Registered
      Asked(s, r, i, k) ==
        CreateTask(s, r, i, k) =>
          LET first   == {t \in 1..created : task[t].sender = s /\ task[t].key = k}
              same(t) == task[t].recipient = r /\ task[t].input = i
          IN  /\ \A t \in first :
                   /\ created' = created
                   /\ IF same(t) THEN /\ reply'.code = "existing" /\ reply'.task = t
                                      /\ reply'.status = task[t].status
                      ELSE reply'.code \in {"idempotency_conflict", "not_found"}
              /\ first = {} /\ r \in agents =>
                   /\ reply'.code = "created" /\ reply'.task = created'
                   /\ created' = created + 1
                   /\ task'[created'].sender = s /\ task'[created'].key = k
                   /\ task'[created'].recipient = r /\ task'[created'].input = i
<1>1. Init => Known
  BY DEF Init, KeysApart, Registered
<1>2. IInv /\ Known /\ [Next]_vars => Known'
  BY KeysApartStep, RegisteredStep DEF IInv
<1>3. ASSUME IInv, Known, NEW s \in Agent, NEW r \in Agent, NEW i \in Input, NEW k \in Key,
             CreateTask(s, r, i, k)
      PROVE  Asked(s, r, i, k)
  <2>1. /\ TypeOK /\ k # None /\ created \in Nat /\ 1..created \subseteq TaskId
        /\ reply' = CreateReply(s, r, i, k)
    BY <1>3, NullAssumption, BoundsAssumption DEF IInv, TypeOK, CreateTask
  <2>2. ASSUME NEW t \in 1..created, task[t].sender = s, task[t].key = k
        PROVE  /\ created' = created
               /\ task[t].recipient = r /\ task[t].input = i =>
                    reply'.code = "existing" /\ reply'.task = t /\ reply'.status = task[t].status
               /\ ~(task[t].recipient = r /\ task[t].input = i) =>
                    reply'.code \in {"idempotency_conflict", "not_found"}
    <3>1. t \in SameKey(s, k) /\ \A u \in SameKey(s, k) : u = t
      BY <1>3, <2>1, <2>2 DEF SameKey, KeysApart
    <3>2. (CHOOSE u \in SameKey(s, k) : TRUE) = t /\ SameKey(s, k) # {}
      BY <3>1
    <3>3. task[t].recipient = r => r \in agents
      BY <1>3 DEF Registered
    <3>4. reply' = IF r \notin agents THEN Answer("not_found")
                   ELSE IF task[t].recipient # r \/ task[t].input # i
                        THEN Answer("idempotency_conflict")
                        ELSE Says("existing", t, 0, task[t].status)
      BY <2>1, <3>2 DEF CreateReply
    <3>5. reply'.code # "created"
      BY <3>4 DEF Answer, Says
    <3>6. created' = created
      BY <1>3, <2>1, <3>5 DEF CreateTask
    <3> QED
      BY <3>3, <3>4, <3>6 DEF Answer, Says
  <2>3. ASSUME \A t \in 1..created : ~(task[t].sender = s /\ task[t].key = k), r \in agents
        PROVE  /\ reply'.code = "created" /\ reply'.task = created'
               /\ created' = created + 1
               /\ task'[created'].sender = s /\ task'[created'].key = k
               /\ task'[created'].recipient = r /\ task'[created'].input = i
    <3>1. SameKey(s, k) = {}
      BY <2>3 DEF SameKey
    <3>2. reply'.code = "created" /\ reply'.task = created + 1
      BY <2>1, <2>3, <3>1 DEF CreateReply, Says
    <3>3. /\ created < MaxTasks /\ created' = created + 1
          /\ task' = [task EXCEPT ![created + 1] = NewTask(s, r, i, k)]
      BY <1>3, <2>1, <3>2 DEF CreateTask
    <3>4. task'[created + 1] = NewTask(s, r, i, k)
      BY <2>1, <3>3, BoundsAssumption DEF TypeOK
    <3> QED
      BY <3>2, <3>3, <3>4 DEF NewTask
  <2> QED
    BY <2>2, <2>3
<1>4. IInv /\ Known => [\A s, r \in Agent, i \in Input, k \in Key : Asked(s, r, i, k)]_vars
  BY <1>3
<1> QED
  BY <1>1, <1>2, <1>4, InvCorrect, PTL DEF Spec, RetriedCreateFindsTask
-----------------------------------------------------------------------------
(***************************************************************************)
(* The store implements the promise of TaskLifecycle: initial states map   *)
(* to its initial state and every step to one of its steps or a stutter.   *)
(***************************************************************************)
(* Life reads the four columns that TaskLifecycle talks about.             *)
LEMMA LifeOf ==
    ASSUME NEW t \in TaskId
    PROVE  [u \in TaskId |-> Life(u)][t] = Life(t)
OBVIOUS

(* The empty store maps to the initial state of the promise.               *)
LEMMA PromiseInit == Init => Promise!LifeInit
BY BoundsAssumption DEF Init, Promise!LifeInit, Promise!Unborn, Promise!Row, Life, NoTask

(* A row of the store takes a step of its abstract life.                   *)
LEMMA PromiseRow ==
    ASSUME IInv, [Next]_vars, NEW t \in TaskId
    PROVE  Life(t)' = Life(t) \/ Promise!LifeStep(t)
<1> DEFINE life == [u \in TaskId |-> Life(u)]
<1>1. /\ TypeOK /\ task[t] \in TaskRow /\ RowStep(t)
      /\ limit \in 1..MaxAttempts /\ created \in Nat
  BY StepByRows DEF IInv, TypeOK
<1>2. life[t] = Life(t) /\ life'[t] = Life(t)'
  OBVIOUS
<1>3. GoodRow(task[t], attempt[t], t <= created)
  BY DEF IInv
<1>4. task[t].attempt_count \in 0..MaxAttempts
  BY <1>1 DEF TaskRow
<1>5. CASE Born(t)
  <2>1. task[t].status = "absent" /\ task[t].attempt_count = 0
        /\ task[t].output = None /\ task[t].error = None
    BY <1>1, <1>3, <1>5 DEF Born, GoodRow, GoodResult, Settled
  <2>2. Life(t) = Promise!Unborn
    BY <2>1 DEF Life, Promise!Unborn, Promise!Row
  <2>3. Life(t)' = Promise!Row("queued", 0, None, None)
    BY <1>5 DEF Born, NewTask, Life, Promise!Row
  <2> QED
    BY <1>2, <2>2, <2>3 DEF Promise!LifeStep, Promise!Submit
<1>6. CASE Kept(t) \/ Renewed(t) \/ Aged(t)
  BY <1>6 DEF Kept, Renewed, Aged, Life
<1>7. \/ RecoveredTask(t) = task[t]
      \/ /\ task[t].status = "processing"
         /\ \/ RecoveredTask(t) = GivenUp(task[t]) /\ task[t].attempt_count >= limit
            \/ RecoveredTask(t) = [task[t] EXCEPT !.status = "queued", !.finished = FALSE]
  BY DEF RecoveredTask
<1>8. task[t].status \in {"queued", "processing"} => task[t].output = None /\ task[t].error = None
  BY <1>3, <1>4, BoundsAssumption DEF GoodRow, GoodResult, Settled
<1>9. CASE Recovered(t)
  <2>1. CASE RecoveredTask(t) = task[t]
    BY <1>9, <2>1 DEF Recovered, Life
  <2>2. CASE RecoveredTask(t) = GivenUp(task[t]) /\ task[t].attempt_count >= limit
             /\ task[t].status = "processing"
    <3>1. /\ task'[t].status = "failed" /\ task'[t].attempt_count = task[t].attempt_count
          /\ task'[t].output = None /\ task'[t].error = Exhausted
      BY <1>1, <1>9, <2>2 DEF Recovered, GivenUp, TaskRow
    <3>2. Life(t)' = Promise!Row("failed", Life(t).grants, None, Exhausted)
      BY <3>1 DEF Life, Promise!Row
    <3>3. Life(t).phase = "processing" /\ Life(t).grants > 0
      BY <1>1, <1>4, <2>2 DEF Life
    <3> QED
      BY <1>2, <3>2, <3>3 DEF Promise!LifeStep, Promise!GiveUp
  <2>3. CASE task[t].status = "processing" /\ RecoveredTask(t) =
                [task[t] EXCEPT !.status = "queued", !.finished = FALSE]
    <3>a. /\ task'[t].status = "queued" /\ task'[t].attempt_count = task[t].attempt_count
          /\ task'[t].output = None /\ task'[t].error = None
      BY <1>1, <1>8, <1>9, <2>3 DEF Recovered, TaskRow
    <3>1. Life(t)' = Promise!Row("queued", Life(t).grants, None, None)
      BY <3>a DEF Life, Promise!Row
    <3>2. Life(t).phase = "processing"
      BY <2>3 DEF Life
    <3> QED
      BY <1>2, <3>1, <3>2 DEF Promise!LifeStep, Promise!Requeue
  <2> QED
    BY <1>7, <2>1, <2>2, <2>3
<1>10. ASSUME RecoveredTask(t).status = "queued"
       PROVE  /\ task[t].status \in {"queued", "processing"}
              /\ RecoveredTask(t).attempt_count = task[t].attempt_count
              /\ RecoveredTask(t).output = task[t].output
              /\ RecoveredTask(t).error = task[t].error
              /\ RecoveredTask(t) \in TaskRow
  BY <1>1, <1>7, <1>10, RecoveredTaskType DEF GivenUp, TaskRow
<1>11. CASE Dropped(t)
  <2>1. /\ task'[t].status = "failed" /\ task'[t].attempt_count = task[t].attempt_count
        /\ task'[t].output = None /\ task'[t].error = Exhausted
    BY <1>8, <1>10, <1>11 DEF Dropped, Discarded, TaskRow
  <2>2. Life(t)' = Promise!Row("failed", Life(t).grants, None, Exhausted)
    BY <2>1 DEF Life, Promise!Row
  <2>3. task[t].attempt_count > 0
    BY <1>1, <1>4, <1>10, <1>11 DEF Dropped
  <2>4. Life(t).phase \in {"queued", "processing"} /\ Life(t).grants > 0
    BY <1>10, <1>11, <2>3 DEF Dropped, Life
  <2> QED
    BY <1>2, <2>2, <2>4 DEF Promise!LifeStep, Promise!GiveUp
<1>12. CASE GrantedTo(t)
  <2>1. /\ task'[t].status = "processing"
        /\ task'[t].attempt_count = task[t].attempt_count + 1
        /\ task'[t].output = None
        /\ task'[t].error = None
    BY <1>8, <1>10, <1>12 DEF GrantedTo, Granted, TaskRow
  <2>2. Life(t)' = Promise!Row("processing", Life(t).grants + 1, None, None)
    BY <2>1 DEF Life, Promise!Row
  <2>3. task[t].attempt_count < MaxAttempts
    BY <1>1, <1>4, <1>10, <1>12, BoundsAssumption DEF GrantedTo
  <2>4. Life(t).phase \in {"queued", "processing"} /\ Life(t).grants < MaxAttempts
    BY <1>10, <1>12, <2>3 DEF GrantedTo, Life
  <2> QED
    BY <1>2, <2>2, <2>4 DEF Promise!LifeStep, Promise!Grant
<1>13. CASE SettledBy(t)
  <2>1. PICK act \in {"complete", "fail"}, v \in Value :
          /\ task[t].status = "processing"
          /\ task'[t] = WithResult(task[t], act, v)
    BY <1>13 DEF SettledBy, Live
  <2>2. Life(t).phase = "processing"
    BY <2>1 DEF Life
  <2>3. task'[t].attempt_count = task[t].attempt_count
    BY <1>1, <2>1 DEF WithResult, TaskRow
  <2>4. CASE act = "complete"
    <3>1. /\ task'[t].status = "completed" /\ task'[t].output = v /\ task'[t].error = None
      BY <1>1, <2>1, <2>4 DEF WithResult, TerminalStatus, TaskRow
    <3>2. Life(t)' = Promise!Row("completed", Life(t).grants, v, None)
      BY <2>3, <3>1 DEF Life, Promise!Row
    <3> QED
      BY <1>2, <2>2, <3>2 DEF Promise!LifeStep, Promise!Settle
  <2>5. CASE act = "fail"
    <3>1. /\ task'[t].status = "failed" /\ task'[t].output = None /\ task'[t].error = v
      BY <1>1, <2>1, <2>5 DEF WithResult, TerminalStatus, TaskRow
    <3>2. Life(t)' = Promise!Row("failed", Life(t).grants, None, v)
      BY <2>3, <3>1 DEF Life, Promise!Row
    <3> QED
      BY <1>2, <2>2, <3>2 DEF Promise!LifeStep, Promise!Settle
  <2> QED
    BY <2>4, <2>5
<1> QED
  BY <1>1, <1>5, <1>6, <1>9, <1>11, <1>12, <1>13 DEF RowStep

(* A step of the store maps to a step of the promise, or to a stutter.     *)
LEMMA PromiseStep ==
    IInv /\ [Next]_vars => [Promise!LifeNext]_([t \in TaskId |-> Life(t)])
<1> SUFFICES ASSUME IInv, [Next]_vars PROVE Promise!LifeNext
  OBVIOUS
<1> DEFINE life == [t \in TaskId |-> Life(t)]
<1>1. life' = [t \in TaskId |-> life'[t]]
  OBVIOUS
<1>2. ASSUME NEW t \in TaskId PROVE life'[t] = life[t] \/ Promise!LifeStep(t)
  BY <1>2, PromiseRow
<1> QED
  BY <1>1, <1>2 DEF Promise!LifeNext

(* For any number of tasks and any limits: what clients observe of a task  *)
(* in the store is a behaviour of TaskLifecycle.                           *)
THEOREM Implements == Spec => ImplementsLifecycle
BY PromiseInit, PromiseStep, InvCorrect, PTL DEF Spec, ImplementsLifecycle, Promise!LifeSpec
-----------------------------------------------------------------------------
(***************************************************************************)
(* The workers, for every number of workers and retries: which worker      *)
(* holds which claim token, and what is true of a task once a worker has   *)
(* counted it as completed.  Every step of the store is one of AgentRelay, *)
(* so that its invariant is kept by the lemmas above.                      *)
(***************************************************************************)
(* A token that claim_one has handed out.                                  *)
Issued(t, n) == t \in 1..created /\ n \in AttemptNo /\ n <= task[t].attempt_count

(* The task is completed by this attempt, with the output of its input.    *)
Stored(t, n) == /\ t \in 1..created /\ n \in AttemptNo
                /\ task[t].status = "completed"
                /\ task[t].output = Output(t)
                /\ attempt[t][n].outcome = "completed"

(* A worker has a token from the moment the claim is answered.             *)
HasToken(state) == \/ state.pc \in {"work", "submit"}
                   \/ /\ state.pc = "poll" /\ state.call = "answered"
                      /\ state.answer = "claimed"

WasAccepted(state) == /\ state.pc = "submit" /\ state.call = "answered"
                      /\ state.answer = "accepted"

WorkerState == [pc : {"poll", "work", "submit", "dead", "claim_failed", "submit_failed"},
                call : {"none", "sent", "answered"},
                answer : Codes \cup {"busy"},
                task : 0..MaxTasks, attempt : Token,
                beats : BOOLEAN, tries : Nat]

(* Heartbeats belong to a claim, an open call to a stage that makes calls. *)
Tidy(state) == /\ state.beats => state.pc \in {"work", "submit"}
               /\ state.call # "none" => state.pc \in {"poll", "submit"}

(* The parts of the inductive invariant that speak of one worker's state.  *)
GoodState(state) ==
    /\ state \in WorkerState
    /\ HasToken(state) => Issued(state.task, state.attempt)
    /\ WasAccepted(state) => Stored(state.task, state.attempt)
    /\ Tidy(state)

GoodRequest(r) == \/ r = ClaimRequest
                  \/ /\ r.op = "complete"
                     /\ Issued(r.task, r.attempt)

GoodCount(x) == /\ x = <<x[1], x[2], x[3]>>
                /\ Stored(x[2], x[3])

(* A token is held by one worker, and no longer once it has been counted.  *)
OwnToken == \A v, w \in Worker :
               (v # w /\ HasToken(worker[v]) /\ HasToken(worker[w])
                      /\ worker[v].task = worker[w].task)
               => worker[v].attempt # worker[w].attempt

SpentToken == \A x \in counted, w \in Worker :
                 HasToken(worker[w]) /\ worker[w].task = x[2] => worker[w].attempt # x[3]

CountedOnce == \A x, y \in counted : y[2] = x[2] => y = x

StoreInv == /\ IInv
            /\ agents = {Me}
            /\ \A t \in 1..created : task[t].input \in Input

WInv == /\ StoreInv
        /\ worker \in [Worker -> WorkerState]
        /\ \A w \in Worker : GoodState(worker[w])
        /\ \A r \in late : GoodRequest(r)
        /\ \A x \in counted : GoodCount(x)
        /\ OwnToken /\ SpentToken /\ CountedOnce
-----------------------------------------------------------------------------
(* The identity of the workers is an agent.                                *)
LEMMA MeIsAgent == Me \in Agent
BY WorkerAssumption DEF Me

(* A task that exists keeps its id and input, and its attempts are counted *)
(* upwards only: tokens that were issued stay issued.                      *)
LEMMA RowsGrow ==
    ASSUME IInv, [Next]_vars, NEW t \in 1..created
    PROVE  /\ t \in TaskId /\ t \in 1..created'
           /\ task'[t].input = task[t].input
           /\ task[t].attempt_count \in Nat /\ task'[t].attempt_count \in Nat
           /\ task[t].attempt_count <= task'[t].attempt_count
<1>1. /\ TypeOK /\ TypeOK' /\ t \in TaskId /\ created \in Nat /\ created' \in Nat
      /\ limit \in 1..MaxAttempts
  BY TypeStep, BoundsAssumption DEF IInv, TypeOK, TaskId
<1>2. task[t] \in TaskRow /\ task'[t] \in TaskRow
  BY <1>1 DEF TypeOK
<1>3. task[t].attempt_count \in Nat /\ task'[t].attempt_count \in Nat
  BY <1>2, BoundsAssumption DEF TaskRow
<1>4. RowStep(t) /\ ~Born(t)
  BY <1>1, StepByRows DEF Born
<1>5. t \in 1..created'
  BY <1>1, <1>4 DEF RowStep
<1>6. /\ RecoveredTask(t) \in TaskRow
      /\ RecoveredTask(t).attempt_count = task[t].attempt_count
  BY <1>1, RecoveredTaskType
<1>7. RecoveredTask(t).input = task[t].input
  BY <1>2 DEF RecoveredTask, GivenUp, TaskRow
<1>8. CASE Kept(t) \/ Renewed(t) \/ Aged(t)
  <2>1. task'[t] = task[t]
    BY <1>8 DEF Kept, Renewed, Aged
  <2> QED
    BY <1>1, <1>3, <1>5, <2>1
<1>9. CASE Recovered(t)
  BY <1>1, <1>3, <1>5, <1>6, <1>7, <1>9 DEF Recovered
<1>10. CASE Dropped(t)
  <2>1. /\ Discarded(RecoveredTask(t)).input = task[t].input
        /\ Discarded(RecoveredTask(t)).attempt_count = task[t].attempt_count
    BY <1>6, <1>7 DEF Discarded, TaskRow
  <2> QED
    BY <1>1, <1>3, <1>5, <1>10, <2>1 DEF Dropped
<1>11. CASE GrantedTo(t)
  <2>1. /\ Granted(RecoveredTask(t)).input = task[t].input
        /\ Granted(RecoveredTask(t)).attempt_count = task[t].attempt_count + 1
    BY <1>6, <1>7 DEF Granted, TaskRow
  <2> QED
    BY <1>1, <1>3, <1>5, <1>11, <2>1 DEF GrantedTo
<1>12. CASE SettledBy(t)
  <2>1. ASSUME NEW act, NEW v
        PROVE  /\ WithResult(task[t], act, v).input = task[t].input
               /\ WithResult(task[t], act, v).attempt_count = task[t].attempt_count
    BY <1>2 DEF WithResult, TaskRow
  <2> QED
    BY <1>1, <1>3, <1>5, <1>12, <2>1 DEF SettledBy
<1> QED
  BY <1>4, <1>8, <1>9, <1>10, <1>11, <1>12 DEF RowStep

(* A step of the store that registers nobody keeps the store's part of the *)
(* invariant: the tasks it creates have inputs, and no input changes.      *)
LEMMA StoreStays ==
    ASSUME StoreInv, [Next]_vars, agents' = agents
    PROVE  StoreInv'
<1>1. IInv /\ IInv' /\ created \in Nat /\ created' \in Nat /\ created' <= MaxTasks
  BY InvStep, BoundsAssumption DEF StoreInv, IInv, TypeOK
<1>2. ASSUME NEW t \in 1..created' PROVE task'[t].input \in Input
  <2>1. t \in TaskId
    BY <1>1, BoundsAssumption DEF TaskId
  <2>2. RowStep(t)
    BY <1>1, <2>1, StepByRows DEF IInv
  <2>3. CASE Born(t)
    BY <2>3 DEF Born, NewTask
  <2>4. CASE ~Born(t)
    <3>1. t \in 1..created
      BY <1>1, <2>2, <2>4 DEF RowStep
    <3> QED
      BY <1>1, <3>1, RowsGrow DEF StoreInv
  <2> QED
    BY <2>3, <2>4
<1> QED
  BY <1>1, <1>2 DEF StoreInv, Me

(* Tokens stay issued.                                                     *)
LEMMA IssuedStays ==
    ASSUME IInv, [Next]_vars, NEW t, NEW n, Issued(t, n)
    PROVE  Issued(t, n)'
<1>1. t \in 1..created /\ n \in AttemptNo /\ n <= task[t].attempt_count
  BY DEF Issued
<1>2. n \in Nat
  BY <1>1 DEF AttemptNo
<1> QED
  BY <1>1, <1>2, RowsGrow DEF Issued

(* The attempt that completed or failed a task is its last one, and the    *)
(* task is settled.                                                        *)
LEMMA AnsweredIsLast ==
    ASSUME IInv, NEW t \in TaskId, NEW n \in AttemptNo,
           attempt[t][n].outcome \in {"completed", "failed"}
    PROVE  /\ n = task[t].attempt_count
           /\ task[t].status = attempt[t][n].outcome
<1>1. task[t].attempt_count \in 0..MaxAttempts
      /\ task[t].status \in {"absent", "queued", "processing", "completed", "failed"}
  BY DEF IInv, TypeOK, TaskRow
<1>2. GoodRow(task[t], attempt[t], t <= created)
  BY DEF IInv
<1>3. n = task[t].attempt_count
  BY <1>1, <1>2 DEF GoodRow, GoodHistory, AttemptNo
<1> QED
  BY <1>1, <1>2, <1>3 DEF GoodRow, AttemptNo

(* A completed task stays completed, by the same attempt and with the      *)
(* output of its input, which does not change either.                      *)
LEMMA StoredStays ==
    ASSUME IInv, [Next]_vars, NEW t, NEW n, Stored(t, n)
    PROVE  Stored(t, n)'
<1>1. /\ t \in 1..created /\ n \in AttemptNo /\ task[t].status = "completed"
      /\ task[t].output = Upper[task[t].input]
      /\ attempt[t][n].outcome = "completed"
  BY DEF Stored, Output
<1>2. t \in TaskId /\ t \in 1..created'
  BY <1>1, RowsGrow
<1>3. task'[t] = task[t]
  BY <1>1, <1>2, FinalStep DEF Settled
<1>4. n = task[t].attempt_count
  BY <1>1, <1>2, AnsweredIsLast
<1>5. GoodRow(task'[t], attempt'[t], t <= created')
  BY <1>2, InvStep DEF IInv
<1>6. attempt'[t][n].outcome = "completed"
  BY <1>1, <1>3, <1>4, <1>5 DEF GoodRow, AttemptNo
<1> QED
  BY <1>1, <1>2, <1>3, <1>6 DEF Stored, Output
-----------------------------------------------------------------------------
(***************************************************************************)
(* What a step does to the workers.  Three forms cover every action: no    *)
(* token changes hands (TokensOnlyGo), a claim is answered (ServeClaim),   *)
(* a completion is counted (Submitted).                                    *)
(***************************************************************************)
(* Requests under way and counted tasks stay what they are.                *)
LEMMA RequestStays ==
    ASSUME WInv, [Next]_vars, NEW r, GoodRequest(r)
    PROVE  GoodRequest(r)'
<1>1. IInv
  BY DEF WInv, StoreInv
<1> QED
  BY <1>1, IssuedStays DEF GoodRequest, ClaimRequest

LEMMA CountStays ==
    ASSUME WInv, [Next]_vars, NEW x, GoodCount(x)
    PROVE  GoodCount(x)'
<1>1. IInv
  BY DEF WInv, StoreInv
<1> QED
  BY <1>1, StoredStays DEF GoodCount

(* The state of a worker that the step leaves alone stays good.            *)
LEMMA StateStays ==
    ASSUME WInv, [Next]_vars, NEW state, GoodState(state)
    PROVE  GoodState(state)'
<1>1. IInv
  BY DEF WInv, StoreInv
<1> QED
  BY <1>1, IssuedStays, StoredStays DEF GoodState, WorkerState, HasToken, WasAccepted, Tidy

(* A step after which no worker has a token that it did not have before.   *)
LEMMA TokensOnlyGo ==
    ASSUME WInv, [Next]_vars, agents' = agents,
           worker' \in [Worker -> WorkerState],
           \A v \in Worker : /\ GoodState(worker[v])'
                             /\ HasToken(worker[v])' =>
                                  /\ HasToken(worker[v])
                                  /\ worker'[v].task = worker[v].task
                                  /\ worker'[v].attempt = worker[v].attempt,
           \A r \in late' : r \in late \/ GoodRequest(r),
           counted' = counted
    PROVE  WInv'
<1>1. StoreInv'
  BY StoreStays DEF WInv
<1>2. \A r \in late' : GoodRequest(r)'
  BY RequestStays DEF WInv
<1>3. \A x \in counted' : GoodCount(x)'
  BY CountStays DEF WInv
<1>4. OwnToken'
  BY DEF WInv, OwnToken
<1>5. SpentToken'
  BY DEF WInv, SpentToken
<1>6. CountedOnce'
  BY DEF WInv, CountedOnce
<1>7. (\A v \in Worker : GoodState(worker[v]))'
  OBVIOUS
<1>8. (\A r \in late : GoodRequest(r))' /\ (\A x \in counted : GoodCount(x))'
  BY <1>2, <1>3
<1> QED
  BY <1>1, <1>4, <1>5, <1>6, <1>7, <1>8 DEF WInv

(* A step of the store in which no worker takes part.                      *)
LEMMA NobodyMoves ==
    ASSUME WInv, [Next]_vars, agents' = agents, worker' = worker,
           \A r \in late' : r \in late, counted' = counted
    PROVE  WInv'
<1>1. \A v \in Worker : GoodState(worker[v])'
  BY StateStays DEF WInv
<1>2. worker' \in [Worker -> WorkerState]
  BY DEF WInv
<1>3. \A v \in Worker : HasToken(worker[v])' =>
                          /\ HasToken(worker[v])
                          /\ worker'[v].task = worker[v].task
                          /\ worker'[v].attempt = worker[v].attempt
  BY DEF HasToken
<1> QED
  BY <1>1, <1>2, <1>3, TokensOnlyGo

(* A step in which one worker moves on, with the token it has or without.  *)
LEMMA OneMoves ==
    ASSUME WInv, [Next]_vars, agents' = agents, NEW w \in Worker, NEW s \in WorkerState,
           worker' = [worker EXCEPT ![w] = s],
           HasToken(s) => /\ HasToken(worker[w])
                          /\ s.task = worker[w].task /\ s.attempt = worker[w].attempt,
           \A t, n : WasAccepted(s) /\ t = s.task /\ n = s.attempt => Stored(t, n)',
           Tidy(s),
           \A r \in late' : r \in late \/ GoodRequest(r),
           counted' = counted
    PROVE  WInv'
<1>1. worker \in [Worker -> WorkerState] /\ IInv
  BY DEF WInv, StoreInv
<1>2. worker' \in [Worker -> WorkerState]
  BY <1>1
<1>3. worker'[w] = s /\ \A v \in Worker : v # w => worker'[v] = worker[v]
  BY <1>1
<1>4. GoodState(s)'
  <2>1. HasToken(s) => Issued(s.task, s.attempt)
    BY DEF WInv, GoodState
  <2>2. HasToken(s) => Issued(s.task, s.attempt)'
    BY <1>1, <2>1, IssuedStays
  <2> QED
    BY <2>2 DEF GoodState, HasToken, WasAccepted, WorkerState, Tidy
<1>5. \A v \in Worker : v # w => GoodState(worker[v])'
  BY <1>3, StateStays DEF WInv
<1>6. \A v \in Worker : GoodState(worker[v])'
  BY <1>3, <1>4, <1>5
<1>7. \A v \in Worker : HasToken(worker[v])' =>
                          /\ HasToken(worker[v])
                          /\ worker'[v].task = worker[v].task
                          /\ worker'[v].attempt = worker[v].attempt
  BY <1>3 DEF HasToken
<1> QED
  BY <1>2, <1>6, <1>7, TokensOnlyGo
-----------------------------------------------------------------------------
(* The requests of the workers are handlers of the store.                  *)
LEMMA ClaimIsStep == ASSUME ServerClaims PROVE [Next]_vars /\ agents' = agents
<1>1. Claim(Me)
  BY DEF ServerClaims
<1>2. agents' = agents
  BY <1>1 DEF Claim, ClaimNothing, ClaimExhausted, ClaimGrant
<1> QED
  BY <1>1, <1>2, MeIsAgent DEF Next

LEMMA CompleteIsStep ==
    ASSUME WInv, NEW t, NEW n, Issued(t, n), ServerCompletes(t, n)
    PROVE  [Next]_vars /\ agents' = agents
<1>1. t \in 1..created /\ n \in AttemptNo
  BY DEF Issued
<1>2. t \in TaskId /\ n \in Token
  BY <1>1, BoundsAssumption DEF WInv, StoreInv, IInv, TypeOK, TaskId, AttemptNo, Token
<1>3. Output(t) \in Value
  BY <1>1, WorkerAssumption DEF WInv, StoreInv, Output
<1>4. CommitTerminal(Me, t, n, "complete", Output(t))
  BY DEF ServerCompletes
<1>5. agents' = agents
  BY <1>4 DEF CommitTerminal
<1> QED
  BY <1>2, <1>3, <1>4, <1>5, MeIsAgent DEF Next

LEMMA BeatIsStep ==
    ASSUME WInv, NEW t, NEW n, Issued(t, n), Heartbeat(Me, t, n)
    PROVE  [Next]_vars /\ agents' = agents
<1>1. t \in 1..created /\ n \in AttemptNo
  BY DEF Issued
<1>2. t \in TaskId /\ n \in Token
  BY <1>1, BoundsAssumption DEF WInv, StoreInv, IInv, TypeOK, TaskId, AttemptNo, Token
<1>3. agents' = agents
  BY DEF Heartbeat
<1> QED
  BY <1>2, <1>3, MeIsAgent DEF Next

(* What commit_terminal answers with "accepted", the first time or again,  *)
(* is in the task row and in the attempt row afterwards.                   *)
LEMMA AcceptedStores ==
    ASSUME WInv, NEW t, NEW n, Issued(t, n), ServerCompletes(t, n), reply'.code = "accepted"
    PROVE  Stored(t, n)'
<1> DEFINE v == Output(t)
           row == attempt[t][n]
           verdict == TerminalVerdict(Me, t, n, "complete", v)
<1>1. /\ t \in 1..created /\ t \in TaskId /\ n \in AttemptNo /\ IInv /\ created' = created
      /\ task[t] \in TaskRow /\ attempt[t] \in Rows /\ row \in AttemptRow
  <2>1. t \in 1..created /\ n \in AttemptNo /\ IInv
    BY DEF Issued, WInv, StoreInv
  <2>2. t \in TaskId
    BY <2>1, BoundsAssumption DEF IInv, TypeOK, TaskId
  <2>3. created' = created
    BY DEF ServerCompletes, CommitTerminal
  <2> QED
    BY <2>1, <2>2, <2>3 DEF IInv, TypeOK, Rows
<1>2. Named(t, n) = row
  BY <1>1 DEF Named
<1>3. verdict \in {"settles", "repeated"}
  <2>1. verdict \in {"not_found", "conflicting_terminal", "stale_claim", "settles", "repeated"}
    BY DEF TerminalVerdict
  <2>2. verdict \notin {"settles", "repeated"} => reply' = Answer(verdict)
    BY DEF ServerCompletes, CommitTerminal
  <2> QED
    BY <2>1, <2>2 DEF Answer, Says
<1>4. CASE verdict = "settles"
  <2>1. /\ task' = [task EXCEPT ![t] = WithResult(task[t], "complete", v)]
        /\ attempt' = [attempt EXCEPT ![t] = [attempt[t] EXCEPT
                           ![n] = WithOutcome(row, "complete", v)]]
    BY <1>4 DEF ServerCompletes, CommitTerminal
  <2>2. /\ task'[t] = WithResult(task[t], "complete", v)
        /\ attempt'[t][n] = WithOutcome(row, "complete", v)
    BY <1>1, <2>1 DEF IInv, TypeOK, Rows
  <2>3. /\ task'[t].status = "completed" /\ task'[t].output = v
        /\ task'[t].input = task[t].input
    BY <1>1, <2>2 DEF WithResult, TerminalStatus, TaskRow
  <2>4. attempt'[t][n].outcome = "completed"
    BY <1>1, <2>2 DEF WithOutcome, TerminalStatus, AttemptRow
  <2> QED
    BY <1>1, <2>3, <2>4 DEF Stored, Output
<1>5. CASE verdict = "repeated"
  <2>1. task' = task /\ attempt' = attempt
    BY <1>5 DEF ServerCompletes, CommitTerminal
  <2>2. /\ row.outcome \in {"completed", "failed"} /\ row.action = "complete"
        /\ row.payload = v
    BY <1>2, <1>5 DEF TerminalVerdict
  <2>3. n = task[t].attempt_count /\ task[t].status = row.outcome
    BY <1>1, <2>2, AnsweredIsLast
  <2>4. GoodResult(task[t], row)
    BY <1>1, <2>3 DEF IInv, GoodRow, AttemptNo
  <2>5. row.outcome = "completed" /\ task[t].output = v
    BY <2>2, <2>3, <2>4 DEF GoodResult
  <2> QED
    BY <1>1, <2>1, <2>3, <2>5 DEF Stored, Output
<1> QED
  BY <1>3, <1>4, <1>5

(* A worker that starts over holds nothing.                                *)
LEMMA FreshIsEmpty == /\ Fresh \in WorkerState /\ ~HasToken(Fresh) /\ ~WasAccepted(Fresh)
                      /\ Tidy(Fresh) /\ Fresh.call = "none" /\ Fresh.beats = FALSE
BY BoundsAssumption DEF Fresh, WorkerState, Codes, HasToken, WasAccepted, Token, Tidy

(* The first state: an empty store and workers that have nothing.          *)
LEMMA WInvInit == WInit => WInv
<1> SUFFICES ASSUME WInit PROVE WInv
  OBVIOUS
<1>1. TypeOK
  <2>1. NoTask \in TaskRow
    BY BoundsAssumption DEF NoTask, TaskRow
  <2>2. NoAttempt \in AttemptRow
    BY BoundsAssumption DEF NoAttempt, AttemptRow
  <2>3. reply \in Reply
    BY AnswerType DEF WInit, Codes
  <2>4. limit \in AttemptNo /\ created \in 0..MaxTasks /\ agents \subseteq Agent
    BY MeIsAgent, BoundsAssumption DEF WInit
  <2>5. /\ task \in [TaskId -> TaskRow]
        /\ attempt \in [TaskId -> [AttemptNo -> AttemptRow]]
    BY <2>1, <2>2 DEF WInit
  <2> QED
    BY <2>3, <2>4, <2>5 DEF TypeOK
<1>2. ASSUME NEW t \in TaskId PROVE GoodRow(task[t], attempt[t], t <= created)
  <2>1. /\ task[t] = NoTask /\ attempt[t] = [n \in AttemptNo |-> NoAttempt]
        /\ ~(t <= created)
    BY BoundsAssumption DEF WInit, TaskId
  <2>2. GoodResult(NoTask, NoAttempt)
    BY DEF GoodResult, NoTask, Settled
  <2>3. GoodHistory(NoTask, attempt[t])
    BY <2>1, BoundsAssumption DEF GoodHistory, NoTask, NoAttempt, AttemptNo
  <2> QED
    BY <2>1, <2>2, <2>3 DEF GoodRow, NoTask
<1>3. StoreInv
  <2>1. IInv
    BY <1>1, <1>2 DEF IInv
  <2>2. agents = {Me} /\ 1..created = {}
    BY DEF WInit
  <2> QED
    BY <2>1, <2>2 DEF StoreInv
<1>4. Fresh \in WorkerState /\ ~HasToken(Fresh) /\ ~WasAccepted(Fresh) /\ Tidy(Fresh)
  BY FreshIsEmpty
<1>5. \A w \in Worker : worker[w] = Fresh /\ GoodState(worker[w])
  BY <1>4 DEF WInit, GoodState
<1> QED
  BY <1>3, <1>4, <1>5 DEF WInv, WInit, OwnToken, SpentToken, CountedOnce
-----------------------------------------------------------------------------
(***************************************************************************)
(* Every step of the workers keeps the invariant.                          *)
(***************************************************************************)
(* Nor does one that has given up or is dead.                              *)
LEMMA Empty ==
    ASSUME NEW p \in {"poll", "dead", "claim_failed", "submit_failed"}
    PROVE  LET s == [Fresh EXCEPT !.pc = p]
           IN  /\ s \in WorkerState /\ ~HasToken(s) /\ ~WasAccepted(s)
               /\ Tidy(s)
<1> DEFINE s == [Fresh EXCEPT !.pc = p]
<1>1. s \in WorkerState /\ s.pc = p /\ s.call = Fresh.call /\ s.beats = Fresh.beats
  BY FreshIsEmpty DEF WorkerState
<1> HIDE DEF s
<1>2. ~HasToken(s) /\ ~WasAccepted(s) /\ Tidy(s)
  BY <1>1, FreshIsEmpty DEF HasToken, WasAccepted, Tidy
<1> QED
  BY <1>1, <1>2 DEF s

(* A retry keeps the token and forgets the answer, or gives up.            *)
LEMMA RetryKeeps ==
    ASSUME NEW w \in Worker, worker[w] \in WorkerState, worker[w].pc = "submit"
    PROVE  /\ Retry(w) \in WorkerState
           /\ HasToken(Retry(w)) => /\ Retry(w).task = worker[w].task
                                    /\ Retry(w).attempt = worker[w].attempt
           /\ ~WasAccepted(Retry(w))
           /\ Tidy(Retry(w))
<1>1. CASE worker[w].tries + 1 < Tries
  <2> DEFINE again == worker[w].tries + 1
             s == [worker[w] EXCEPT !.call = "none", !.tries = again]
  <2>1. again \in Nat
    BY DEF WorkerState
  <2> HIDE DEF again
  <2>2. /\ s \in WorkerState /\ s.pc = "submit" /\ s.call = "none"
        /\ s.task = worker[w].task /\ s.attempt = worker[w].attempt
    BY <2>1 DEF WorkerState
  <2>3. Retry(w) = s
    BY <1>1 DEF Retry, again
  <2> HIDE DEF s
  <2> QED
    BY <2>2, <2>3 DEF WasAccepted, Tidy
<1>2. CASE ~(worker[w].tries + 1 < Tries)
  <2>1. Retry(w) = [Fresh EXCEPT !.pc = "submit_failed"]
    BY <1>2 DEF Retry
  <2> QED
    BY <2>1, Empty
<1> QED
  BY <1>1, <1>2

(* Actions in which the store is not asked.                                *)
LEMMA QuietStep ==
    ASSUME WInv, NEW w \in Worker, NEW s \in WorkerState, UNCHANGED <<vars, counted>>,
           worker' = [worker EXCEPT ![w] = s],
           HasToken(s) => /\ HasToken(worker[w])
                          /\ s.task = worker[w].task /\ s.attempt = worker[w].attempt,
           ~WasAccepted(s),
           Tidy(s),
           \A r \in late' : r \in late \/ GoodRequest(r)
    PROVE  WInv'
<1>1. [Next]_vars /\ agents' = agents
  BY DEF vars
<1> QED
  BY <1>1, OneMoves

(* An open request that may still arrive names the token of the worker.    *)
LEMMA OpenRequest ==
    ASSUME WInv, NEW w \in Worker, worker[w].call = "sent",
           NEW lates, lates = late \cup {IF worker[w].pc = "poll" THEN ClaimRequest
                                                                ELSE CompleteRequest(w)},
           worker[w].pc \in {"poll", "submit"}
    PROVE  \A r \in lates : r \in late \/ GoodRequest(r)
<1>1. worker[w].pc = "submit" => Issued(worker[w].task, worker[w].attempt)
  BY DEF WInv, GoodState, HasToken
<1>2. worker[w].pc = "submit" => GoodRequest(CompleteRequest(w))
  BY <1>1 DEF GoodRequest, CompleteRequest
<1>3. GoodRequest(ClaimRequest)
  BY DEF GoodRequest
<1> QED
  BY <1>2, <1>3

LEMMA SendStep == ASSUME WInv, NEW w \in Worker, Send(w) PROVE WInv'
<1> DEFINE s == [worker[w] EXCEPT !.call = "sent"]
<1>1. worker[w] \in WorkerState /\ GoodState(worker[w])
  BY DEF WInv
<1>2. /\ s \in WorkerState /\ s.pc = worker[w].pc /\ s.call = "sent"
      /\ s.task = worker[w].task /\ s.attempt = worker[w].attempt
      /\ s.beats = worker[w].beats
  BY <1>1 DEF WorkerState
<1>3. worker' = [worker EXCEPT ![w] = s] /\ UNCHANGED <<vars, late, counted>>
  BY DEF Send, Become
<1> HIDE DEF s
<1> QED
  BY <1>1, <1>2, <1>3, QuietStep DEF GoodState, HasToken, WasAccepted, Tidy, Send, Busy

LEMMA BusyStep == ASSUME WInv, NEW w \in Worker, Busy(w) PROVE WInv'
<1> DEFINE s == [worker[w] EXCEPT !.call = "answered", !.answer = "busy"]
<1>1. worker[w] \in WorkerState /\ GoodState(worker[w])
  BY DEF WInv
<1>2. /\ s \in WorkerState /\ s.pc = worker[w].pc /\ s.answer = "busy"
      /\ s.task = worker[w].task /\ s.attempt = worker[w].attempt
      /\ s.beats = worker[w].beats
  BY <1>1 DEF WorkerState
<1>3. worker' = [worker EXCEPT ![w] = s] /\ UNCHANGED <<vars, late, counted>>
  BY DEF Busy, Become
<1> HIDE DEF s
<1> QED
  BY <1>1, <1>2, <1>3, QuietStep DEF GoodState, HasToken, WasAccepted, Tidy, Send, Busy

LEMMA ClaimedStep == ASSUME WInv, NEW w \in Worker, Claimed(w) PROVE WInv'
<1> DEFINE s == [worker[w] EXCEPT !.pc = "work", !.call = "none", !.beats = TRUE]
<1>1. worker[w] \in WorkerState
  BY DEF WInv
<1>2. CASE worker[w].answer = "claimed"
  <2>1. /\ s \in WorkerState /\ s.pc = "work"
        /\ s.task = worker[w].task /\ s.attempt = worker[w].attempt /\ s.call = "none"
    BY <1>1 DEF WorkerState
  <2>2. worker' = [worker EXCEPT ![w] = s] /\ UNCHANGED <<vars, late, counted>>
    BY <1>2 DEF Claimed, Become
  <2>3. HasToken(worker[w])
    BY <1>2 DEF Claimed, HasToken
  <2> HIDE DEF s
  <2> QED
    BY <2>1, <2>2, <2>3, QuietStep DEF WasAccepted, Tidy
<1>3. CASE worker[w].answer # "claimed"
  <2>1. worker' = [worker EXCEPT ![w] = Fresh] /\ UNCHANGED <<vars, late, counted>>
    BY <1>3 DEF Claimed, Become
  <2> QED
    BY <2>1, FreshIsEmpty, QuietStep
<1> QED
  BY <1>2, <1>3

LEMMA FinishStep == ASSUME WInv, NEW w \in Worker, Finish(w) PROVE WInv'
<1> DEFINE s == [worker[w] EXCEPT !.pc = "submit", !.tries = 0]
<1>1. worker[w] \in WorkerState /\ worker[w].pc = "work"
  BY DEF WInv, Finish
<1>2. /\ s \in WorkerState /\ s.pc = "submit" /\ s.call = worker[w].call
      /\ s.task = worker[w].task /\ s.attempt = worker[w].attempt
  BY <1>1 DEF WorkerState
<1>3. worker' = [worker EXCEPT ![w] = s] /\ UNCHANGED <<vars, late, counted>>
  BY DEF Finish, Become
<1> HIDE DEF s
<1> QED
  BY <1>1, <1>2, <1>3, QuietStep DEF GoodState, HasToken, WasAccepted, Tidy, WInv

LEMMA BeatBusyStep == ASSUME WInv, NEW w \in Worker, BeatBusy(w) PROVE WInv'
<1> DEFINE s == [worker[w] EXCEPT !.beats = FALSE]
<1>1. worker[w] \in WorkerState /\ GoodState(worker[w])
      /\ worker[w].pc \in {"work", "submit"}
  BY DEF WInv, BeatBusy, GoodState, Tidy
<1>2. /\ s \in WorkerState /\ s.pc = worker[w].pc /\ s.call = worker[w].call
      /\ s.task = worker[w].task /\ s.attempt = worker[w].attempt
      /\ s.answer = worker[w].answer /\ s.beats = FALSE
  BY <1>1 DEF WorkerState
<1>3. worker' = [worker EXCEPT ![w] = s] /\ UNCHANGED <<vars, late, counted>>
  BY DEF BeatBusy, Become
<1>4. [Next]_vars /\ agents' = agents /\ IInv
  BY <1>3 DEF vars, WInv, StoreInv
<1>5. \A t, n : WasAccepted(s) /\ t = s.task /\ n = s.attempt => Stored(t, n)'
  <2>1. \A t, n : WasAccepted(s) /\ t = s.task /\ n = s.attempt => Stored(t, n)
    BY <1>1, <1>2 DEF GoodState, WasAccepted
  <2> HIDE DEF s
  <2> QED
    BY <1>4, <2>1, StoredStays
<1> HIDE DEF s
<1> QED
  BY <1>1, <1>2, <1>3, <1>4, <1>5, OneMoves DEF GoodState, HasToken, Tidy

(* A dropped connection and a killed process may leave the request under   *)
(* way; the token is kept for another try only after a dropped submission. *)
LEMMA DisconnectStep == ASSUME WInv, NEW w \in Worker, Disconnect(w) PROVE WInv'
<1> DEFINE s == IF worker[w].pc = "poll" THEN [Fresh EXCEPT !.pc = "claim_failed"]
                                         ELSE Retry(w)
<1>1. /\ worker[w] \in WorkerState /\ GoodState(worker[w])
      /\ worker[w].pc \in {"poll", "submit"}
  BY DEF WInv, Disconnect, GoodState, Tidy
<1>2. worker' = [worker EXCEPT ![w] = s] /\ UNCHANGED <<vars, counted>>
  BY DEF Disconnect, Become
<1>3. \A r \in late' : r \in late \/ GoodRequest(r)
  BY <1>1, OpenRequest DEF Disconnect
<1>4. CASE worker[w].pc = "poll"
  BY <1>2, <1>3, <1>4, Empty, QuietStep
<1>5. CASE worker[w].pc = "submit"
  <2>1. HasToken(worker[w])
    BY <1>5 DEF HasToken
  <2>2. s = Retry(w)
    BY <1>5
  <2> QED
    BY <1>1, <1>2, <1>3, <1>5, <2>1, <2>2, RetryKeeps, QuietStep
<1> QED
  BY <1>1, <1>4, <1>5

LEMMA CrashStep == ASSUME WInv, NEW w \in Worker, Crash(w) PROVE WInv'
<1> DEFINE s == [Fresh EXCEPT !.pc = "dead"]
<1>1. GoodState(worker[w])
  BY DEF WInv
<1>2. worker' = [worker EXCEPT ![w] = s] /\ UNCHANGED <<vars, counted>>
  BY DEF Crash, Become
<1>3. \A r \in late' : r \in late \/ GoodRequest(r)
  <2>1. CASE late' = late
    BY <2>1
  <2>2. CASE late' # late
    <3>1. /\ worker[w].call = "sent"
          /\ late' = late \cup {IF worker[w].pc = "poll" THEN ClaimRequest
                                                         ELSE CompleteRequest(w)}
      BY <2>2 DEF Crash
    <3>2. worker[w].pc \in {"poll", "submit"}
      BY <1>1, <3>1 DEF GoodState, Tidy
    <3> QED
      BY <3>1, <3>2, OpenRequest
  <2> QED
    BY <2>1, <2>2
<1> QED
  BY <1>2, <1>3, Empty, QuietStep

(* A heartbeat: the worker learns whether to go on, the token stays.       *)
LEMMA BeatStep == ASSUME WInv, NEW w \in Worker, Beat(w) PROVE WInv'
<1> DEFINE goes == (reply'.code = "renewed")
           s == [worker[w] EXCEPT !.beats = goes]
<1>1. worker[w] \in WorkerState /\ GoodState(worker[w])
      /\ worker[w].pc \in {"work", "submit"}
  BY DEF WInv, Beat, GoodState, Tidy
<1>2. goes \in BOOLEAN
  OBVIOUS
<1>3. worker' = [worker EXCEPT ![w] = s] /\ UNCHANGED <<late, counted>>
  BY DEF Beat, Become
<1> HIDE DEF goes
<1>4. /\ s \in WorkerState /\ s.pc = worker[w].pc /\ s.call = worker[w].call
      /\ s.task = worker[w].task /\ s.attempt = worker[w].attempt
      /\ s.answer = worker[w].answer
  BY <1>1, <1>2 DEF WorkerState
<1>5. [Next]_vars /\ agents' = agents /\ IInv
  <2>1. Issued(worker[w].task, worker[w].attempt)
    BY <1>1 DEF GoodState, HasToken
  <2> QED
    BY <2>1, BeatIsStep DEF Beat, WInv, StoreInv
<1>6. \A t, n : WasAccepted(s) /\ t = s.task /\ n = s.attempt => Stored(t, n)'
  <2>1. \A t, n : WasAccepted(s) /\ t = s.task /\ n = s.attempt => Stored(t, n)
    BY <1>1, <1>4 DEF GoodState, WasAccepted
  <2> HIDE DEF s
  <2> QED
    BY <1>5, <2>1, StoredStays
<1> HIDE DEF s
<1> QED
  BY <1>1, <1>3, <1>4, <1>5, <1>6, OneMoves DEF GoodState, HasToken, Tidy

(* A submission is answered: "accepted" is true of the rows.               *)
LEMMA ServeSubmitStep == ASSUME WInv, NEW w \in Worker, ServeSubmit(w) PROVE WInv'
<1> DEFINE s == [worker[w] EXCEPT !.call = "answered", !.answer = reply'.code]
<1>1. worker[w] \in WorkerState /\ GoodState(worker[w]) /\ worker[w].pc = "submit"
  BY DEF WInv, ServeSubmit
<1>2. Issued(worker[w].task, worker[w].attempt)
  BY <1>1 DEF GoodState, HasToken
<1>3. [Next]_vars /\ agents' = agents
  BY <1>2, CompleteIsStep DEF ServeSubmit
<1>4. reply'.code \in Codes
  BY <1>3, TypeStep DEF WInv, StoreInv, IInv, TypeOK, Reply, Codes
<1>5. /\ s \in WorkerState /\ s.pc = "submit" /\ s.call = "answered"
      /\ s.task = worker[w].task /\ s.attempt = worker[w].attempt
      /\ s.answer = reply'.code /\ s.beats = worker[w].beats
  BY <1>1, <1>4 DEF WorkerState
<1>6. worker' = [worker EXCEPT ![w] = s] /\ UNCHANGED <<late, counted>>
  BY DEF ServeSubmit, Become
<1> HIDE DEF s
<1>7. ASSUME NEW t, NEW n, WasAccepted(s) /\ t = s.task /\ n = s.attempt
      PROVE  Stored(t, n)'
  <2>1. reply'.code = "accepted"
    BY <1>5, <1>7 DEF WasAccepted
  <2>2. Issued(t, n) /\ ServerCompletes(t, n)
    BY <1>2, <1>5, <1>7 DEF ServeSubmit
  <2> QED
    BY <2>1, <2>2, AcceptedStores
<1> QED
  BY <1>1, <1>3, <1>5, <1>6, <1>7, OneMoves DEF HasToken, Tidy

(* A request that arrives late changes rows and no worker.                 *)
LEMMA ServeLateStep == ASSUME WInv, ServeLate PROVE WInv'
<1>1. PICK r \in late :
        /\ late' = late \ {r}
        /\ IF r.op = "claim" THEN ServerClaims ELSE ServerCompletes(r.task, r.attempt)
        /\ UNCHANGED <<worker, counted>>
  BY DEF ServeLate
<1>2. GoodRequest(r)
  BY DEF WInv
<1>3. [Next]_vars /\ agents' = agents
  <2>1. CASE r.op = "claim"
    BY <1>1, <2>1, ClaimIsStep
  <2>2. CASE r.op # "claim"
    <3>1. Issued(r.task, r.attempt)
      BY <1>2, <2>2 DEF GoodRequest, ClaimRequest
    <3> QED
      BY <1>1, <2>2, <3>1, CompleteIsStep
  <2> QED
    BY <2>1, <2>2
<1> QED
  BY <1>1, <1>3, NobodyMoves

(* The sender creates a task, recovery runs, time passes.                  *)
LEMMA StoreStepStep == ASSUME WInv, StoreStep PROVE WInv'
<1>1. [Next]_vars /\ agents' = agents
  <2>1. ASSUME NEW i \in Input, CreateTask(Me, Me, i, None)
        PROVE  [Next]_vars /\ agents' = agents
    BY <2>1, MeIsAgent DEF Next, CreateTask
  <2>2. CASE RecoverPass
    BY <2>2 DEF Next, RecoverPass
  <2>3. CASE Tick
    BY <2>3 DEF Next, Tick
  <2> QED
    BY <2>1, <2>2, <2>3 DEF StoreStep
<1>2. worker' = worker /\ late' = late /\ counted' = counted
  BY DEF StoreStep
<1> QED
  BY <1>1, <1>2, NobodyMoves

(* claim_one issues a token that nobody has had before.                    *)
LEMMA GrantIsNew ==
    ASSUME WInv, ClaimGrant(Me), [Next]_vars
    PROVE  /\ Issued(reply.task, reply.attempt)'
           /\ ~Issued(reply'.task, reply'.attempt)
<1>1. PICK t \in TaskId :
        /\ RecoveredTask(t).status = "queued"
        /\ task'[t] = Granted(RecoveredTask(t))
        /\ reply' = Says("claimed", t, RecoveredTask(t).attempt_count + 1, "processing")
        /\ created' = created
        /\ RecoveredTask(t).attempt_count < limit
  BY DEF ClaimGrant, IsOldest, Waiting
<1> DEFINE n == RecoveredTask(t).attempt_count + 1
<1>2. /\ TypeOK /\ limit \in 1..MaxAttempts /\ created \in Nat
      /\ RecoveredTask(t) \in TaskRow
      /\ RecoveredTask(t).attempt_count = task[t].attempt_count
      /\ task[t] \in TaskRow
  BY RecoveredTaskType, BoundsAssumption DEF WInv, StoreInv, IInv, TypeOK
<1>3. task[t].attempt_count \in Nat
  BY <1>2, BoundsAssumption DEF TaskRow
<1>4. task'[t].attempt_count = n /\ n = task[t].attempt_count + 1
  BY <1>1, <1>2 DEF Granted, TaskRow
<1>5. reply'.task = t /\ reply'.attempt = n
  BY <1>1 DEF Says
<1>6. n \in AttemptNo
  BY <1>1, <1>2, <1>3, BoundsAssumption DEF AttemptNo
<1>7. t \in 1..created
  <2>1. task[t].status # "absent"
    BY <1>1 DEF RecoveredTask
  <2>2. GoodRow(task[t], attempt[t], t <= created)
    BY DEF WInv, StoreInv, IInv
  <2>3. t <= created
    BY <2>1, <2>2 DEF GoodRow
  <2> QED
    BY <1>2, <2>3, BoundsAssumption DEF TaskId
<1>8. t \in 1..created' /\ n <= task'[t].attempt_count
  BY <1>1, <1>3, <1>4, <1>7
<1>9. ~(n <= task[t].attempt_count)
  BY <1>3, <1>4
<1> HIDE DEF n
<1>10. Issued(reply.task, reply.attempt)'
  BY <1>5, <1>6, <1>8 DEF Issued
<1>11. ~Issued(reply'.task, reply'.attempt)
  BY <1>5, <1>9 DEF Issued
<1> QED
  BY <1>10, <1>11

(* A claim is answered: the worker gets a token of its own, or none.       *)
LEMMA ServeClaimStep == ASSUME WInv, NEW w \in Worker, ServeClaim(w) PROVE WInv'
<1> DEFINE s == [worker[w] EXCEPT !.call = "answered", !.answer = reply'.code,
                                  !.task = reply'.task, !.attempt = reply'.attempt]
<1>1. /\ worker[w] \in WorkerState /\ GoodState(worker[w]) /\ worker[w].pc = "poll"
      /\ worker \in [Worker -> WorkerState]
  BY DEF WInv, ServeClaim
<1>2. [Next]_vars /\ agents' = agents
  BY ClaimIsStep DEF ServeClaim
<1>3. /\ reply'.code \in Codes
      /\ reply'.task \in 0..MaxTasks /\ reply'.attempt \in Token
  BY <1>2, TypeStep DEF WInv, StoreInv, IInv, TypeOK, Reply, Codes
<1>4. /\ s \in WorkerState /\ s.pc = "poll" /\ s.call = "answered"
      /\ s.task = reply'.task /\ s.attempt = reply'.attempt
      /\ s.answer = reply'.code /\ s.beats = worker[w].beats
  BY <1>1, <1>3 DEF WorkerState
<1>5. worker' = [worker EXCEPT ![w] = s] /\ UNCHANGED <<late, counted>>
  BY DEF ServeClaim, Become
<1>6. s.beats = FALSE
  <2>1. ~worker[w].beats
    BY <1>1 DEF GoodState, Tidy
  <2>2. worker[w].beats \in BOOLEAN
    BY <1>1 DEF WorkerState
  <2> QED
    BY <1>4, <2>1, <2>2
<1> HIDE DEF s
<1>7. Tidy(s) /\ ~WasAccepted(s)
  BY <1>4, <1>6 DEF Tidy, WasAccepted
<1>8. CASE reply'.code # "claimed"
  <2>1. ~HasToken(s)
    BY <1>4, <1>8 DEF HasToken
  <2> QED
    BY <1>2, <1>4, <1>5, <1>7, <2>1, OneMoves
<1>9. CASE reply'.code = "claimed"
  <2>1. ClaimGrant(Me)
    BY <1>9 DEF ServeClaim, ServerClaims, Claim, ClaimNothing, ClaimExhausted, Answer, Says
  <2>2. /\ Issued(reply.task, reply.attempt)'
        /\ ~Issued(reply'.task, reply'.attempt)
    BY <1>2, <2>1, GrantIsNew
  <2>3. worker'[w] = s /\ \A v \in Worker : v # w => worker'[v] = worker[v]
    BY <1>1, <1>5
  <2>4. worker' \in [Worker -> WorkerState]
    BY <1>1, <1>4, <1>5
  <2>5. \A v \in Worker : v # w => GoodState(worker[v])'
    BY <1>2, <2>3, StateStays DEF WInv
  <2>6. GoodState(worker[w])'
    <3>1. Issued(worker[w].task, worker[w].attempt)'
      BY <1>4, <2>2, <2>3 DEF Issued
    <3> QED
      BY <1>4, <1>7, <2>3, <3>1 DEF GoodState, HasToken, WasAccepted, Tidy
  <2>7. (\A v \in Worker : GoodState(worker[v]))'
    BY <2>5, <2>6
  <2>8. \A v \in Worker : HasToken(worker[v]) => Issued(worker[v].task, worker[v].attempt)
    BY DEF WInv, GoodState
  <2>9. OwnToken'
    <3>1. \A v \in Worker : v # w => (HasToken(worker[v])' <=> HasToken(worker[v]))
      BY <2>3 DEF HasToken
    <3>2. \A v \in Worker : v # w /\ HasToken(worker[v])' /\ worker'[v].task = s.task
                            => worker'[v].attempt # s.attempt
      BY <1>4, <2>2, <2>3, <2>8, <3>1
    <3> QED
      BY <2>3, <3>1, <3>2 DEF WInv, OwnToken
  <2>10. SpentToken'
    <3>1. \A x \in counted : Issued(x[2], x[3])
      <4>1. ASSUME NEW x \in counted PROVE Issued(x[2], x[3])
        <5>1. Stored(x[2], x[3])
          BY DEF WInv, GoodCount
        <5>2. /\ x[2] \in 1..created /\ x[3] \in AttemptNo
              /\ attempt[x[2]][x[3]].outcome = "completed"
          BY <5>1 DEF Stored
        <5>3. x[2] \in TaskId /\ IInv
          BY <5>2, BoundsAssumption DEF TaskId, WInv, StoreInv, IInv, TypeOK
        <5>4. x[3] = task[x[2]].attempt_count
          BY <5>2, <5>3, AnsweredIsLast
        <5> QED
          BY <5>2, <5>4 DEF Issued, AttemptNo
      <4> QED
        BY <4>1
    <3>2. \A v \in Worker : v # w => (HasToken(worker[v])' <=> HasToken(worker[v]))
      BY <2>3 DEF HasToken
    <3>3. \A x \in counted : s.task = x[2] => s.attempt # x[3]
      BY <1>4, <2>2, <3>1
    <3> QED
      BY <1>5, <2>3, <3>2, <3>3 DEF WInv, SpentToken
  <2>11. CountedOnce'
    BY <1>5 DEF WInv, CountedOnce
  <2>12. (\A r \in late : GoodRequest(r))'
    BY <1>2, <1>5, RequestStays DEF WInv
  <2>13. (\A x \in counted : GoodCount(x))'
    BY <1>2, <1>5, CountStays DEF WInv
  <2>14. StoreInv'
    BY <1>2, StoreStays DEF WInv
  <2> QED
    BY <2>4, <2>7, <2>9, <2>10, <2>11, <2>12, <2>13, <2>14 DEF WInv
<1> QED
  BY <1>8, <1>9

(* A completion is counted: its token was not counted before and nobody    *)
(* else has it; any other answer only gives the token up.                  *)
LEMMA SubmittedStep == ASSUME WInv, NEW w \in Worker, Submitted(w) PROVE WInv'
<1> DEFINE t == worker[w].task
           n == worker[w].attempt
           entry == <<w, t, n>>
<1>1. /\ worker[w] \in WorkerState /\ GoodState(worker[w]) /\ worker[w].pc = "submit"
      /\ worker[w].call = "answered" /\ worker \in [Worker -> WorkerState]
      /\ UNCHANGED <<vars, late>> /\ HasToken(worker[w])
  BY DEF WInv, Submitted, HasToken
<1>2. [Next]_vars /\ agents' = agents
  BY <1>1 DEF vars
<1>3. CASE worker[w].answer = "busy"
  <2>1. worker' = [worker EXCEPT ![w] = Retry(w)] /\ UNCHANGED counted
    BY <1>3 DEF Submitted, Become
  <2> QED
    BY <1>1, <2>1, RetryKeeps, QuietStep
<1>4. CASE worker[w].answer # "busy" /\ ~Completes(worker[w].answer)
  <2>1. /\ UNCHANGED counted
        /\ \/ worker' = [worker EXCEPT ![w] = Fresh]
           \/ worker' = [worker EXCEPT ![w] = [Fresh EXCEPT !.pc = "submit_failed"]]
    BY <1>4 DEF Submitted, Become
  <2>2. CASE worker' = [worker EXCEPT ![w] = Fresh]
    BY <1>1, <2>1, <2>2, FreshIsEmpty, QuietStep
  <2>3. CASE worker' = [worker EXCEPT ![w] = [Fresh EXCEPT !.pc = "submit_failed"]]
    BY <1>1, <2>1, <2>3, Empty, QuietStep
  <2> QED
    BY <2>1, <2>2, <2>3
<1>5. CASE worker[w].answer = "accepted"
  <2>1. /\ worker' = [worker EXCEPT ![w] = Fresh]
        /\ counted' = counted \cup {entry}
    BY <1>5 DEF Submitted, Become, Completes
  <2>2. Stored(t, n)
    BY <1>1, <1>5 DEF GoodState, WasAccepted
  <2>3. worker'[w] = Fresh /\ \A v \in Worker : v # w => worker'[v] = worker[v]
    BY <1>1, <2>1
  <2>4. worker' \in [Worker -> WorkerState]
    BY <1>1, <2>1, FreshIsEmpty
  <2>5. (\A v \in Worker : GoodState(worker[v]))'
    <3>1. \A v \in Worker : v # w => GoodState(worker[v])'
      BY <1>2, <2>3, StateStays DEF WInv
    <3>2. GoodState(worker[w])'
      BY <2>3, FreshIsEmpty DEF GoodState, HasToken, WasAccepted, Tidy
    <3> QED
      BY <3>1, <3>2
  <2>6. \A v \in Worker : HasToken(worker[v])' => v # w /\ HasToken(worker[v])
    BY <2>3, FreshIsEmpty DEF HasToken
  <2>7. OwnToken'
    BY <2>3, <2>6 DEF WInv, OwnToken
  <2>8. entry[1] = w /\ entry[2] = t /\ entry[3] = n
    OBVIOUS
  <2> HIDE DEF entry
  <2>9. SpentToken'
    <3>1. \A v \in Worker : HasToken(worker[v])' /\ worker'[v].task = t
                            => worker'[v].attempt # n
      BY <1>1, <2>3, <2>6 DEF WInv, OwnToken
    <3> QED
      BY <2>1, <2>3, <2>6, <2>8, <3>1 DEF WInv, SpentToken
  <2>10. \A x \in counted : x[2] # t
    <3>1. ASSUME NEW x \in counted, x[2] = t PROVE FALSE
      <4>1. Stored(t, x[3])
        BY <3>1 DEF WInv, GoodCount
      <4>2. /\ t \in 1..created /\ x[3] \in AttemptNo /\ n \in AttemptNo
            /\ attempt[t][x[3]].outcome = "completed"
            /\ attempt[t][n].outcome = "completed"
        BY <2>2, <4>1 DEF Stored
      <4>3. t \in TaskId /\ IInv
        BY <4>2, BoundsAssumption DEF TaskId, WInv, StoreInv, IInv, TypeOK
      <4>4. x[3] = n
        <5>1. x[3] = task[t].attempt_count
          BY <4>2, <4>3, AnsweredIsLast
        <5>2. n = task[t].attempt_count
          BY <4>2, <4>3, AnsweredIsLast
        <5> QED
          BY <5>1, <5>2
      <4> QED
        BY <1>1, <3>1, <4>4 DEF WInv, SpentToken
    <3> QED
      BY <3>1
  <2>11. CountedOnce'
    BY <2>1, <2>8, <2>10 DEF WInv, CountedOnce
  <2>12. (\A x \in counted : GoodCount(x))'
    <3>1. GoodCount(entry)
      BY <2>2, <2>8 DEF GoodCount, entry
    <3>2. \A x \in counted' : GoodCount(x)
      BY <2>1, <3>1 DEF WInv
    <3>3. \A x \in counted' : GoodCount(x)'
      BY <1>2, <3>2, CountStays
    <3> QED
      BY <3>3
  <2>13. (\A r \in late : GoodRequest(r))'
    BY <1>1, <1>2, RequestStays DEF WInv
  <2>14. StoreInv'
    BY <1>2, StoreStays DEF WInv
  <2> QED
    BY <2>4, <2>5, <2>7, <2>9, <2>11, <2>12, <2>13, <2>14 DEF WInv
<1> QED
  BY <1>3, <1>4, <1>5 DEF Completes
-----------------------------------------------------------------------------
LEMMA WInvStep == WInv /\ [WNext]_wvars => WInv'
<1> SUFFICES ASSUME WInv, [WNext]_wvars PROVE WInv'
  OBVIOUS
<1>1. CASE UNCHANGED wvars
  <2>1. [Next]_vars /\ UNCHANGED <<agents, worker, late, counted>>
    BY <1>1 DEF wvars, vars
  <2> QED
    BY <2>1, NobodyMoves
<1>2. CASE StoreStep \/ ServeLate
  BY <1>2, StoreStepStep, ServeLateStep
<1>3. ASSUME NEW w \in Worker,
             \/ Send(w) \/ ServeClaim(w) \/ ServeSubmit(w) \/ Busy(w) \/ Claimed(w)
             \/ Finish(w) \/ Submitted(w) \/ Disconnect(w) \/ Beat(w) \/ BeatBusy(w)
             \/ Crash(w)
      PROVE  WInv'
  BY <1>3, SendStep, ServeClaimStep, ServeSubmitStep, BusyStep, ClaimedStep, FinishStep,
     SubmittedStep, DisconnectStep, BeatStep, BeatBusyStep, CrashStep
<1> QED
  BY <1>1, <1>2, <1>3 DEF WNext

(* The tokens of the workers, the requests under way and the completions   *)
(* counted agree with the rows of the store in every reachable state.      *)
THEOREM WInvCorrect == WSpec => []WInv
BY WInvInit, WInvStep, PTL DEF WSpec

(* What a worker has logged as completed is completed in the store, by its *)
(* own attempt and with its output, and nothing is logged twice: for any   *)
(* number of workers, lost answers, retries and late requests.             *)
THEOREM CountedIsStoredHolds == WSpec => []CountedIsStored
<1>1. WInv => CountedIsStored
  BY DEF WInv, GoodCount, Stored, CountedOnce, CountedIsStored
<1> QED
  BY <1>1, WInvCorrect, PTL

(* Of all the workers that believe to hold a task at most one can still    *)
(* get an answer accepted: the attempts of the others have expired.        *)
THEOREM OneHolderHolds == WSpec => []OneEffectiveHolder
<1>1. ASSUME WInv, NEW v \in Worker, NEW w \in Worker, v # w,
             {worker[v].pc, worker[w].pc} \subseteq {"work", "submit"},
             worker[v].task = worker[w].task
      PROVE  /\ worker[v].attempt # worker[w].attempt
             /\ \E u \in {v, w} :
                  attempt[worker[u].task][worker[u].attempt].outcome = "expired"
  <2> DEFINE t == worker[v].task
             c == task[t].attempt_count
  <2>1. HasToken(worker[v]) /\ HasToken(worker[w])
    BY <1>1 DEF HasToken
  <2>2. worker[v].attempt # worker[w].attempt
    BY <1>1, <2>1 DEF WInv, OwnToken
  <2>3. Issued(t, worker[v].attempt) /\ Issued(t, worker[w].attempt)
    BY <1>1, <2>1 DEF WInv, GoodState
  <2>4. /\ t \in TaskId /\ worker[v].attempt \in AttemptNo /\ worker[w].attempt \in AttemptNo
        /\ worker[v].attempt <= c /\ worker[w].attempt <= c
        /\ GoodRow(task[t], attempt[t], t <= created) /\ c \in Nat
    <3>1. t \in TaskId
      BY <1>1, <2>3, BoundsAssumption DEF Issued, WInv, StoreInv, IInv, TypeOK, TaskId
    <3>2. c \in Nat
      BY <1>1, <3>1, BoundsAssumption DEF WInv, StoreInv, IInv, TypeOK, TaskRow
    <3> QED
      BY <1>1, <2>3, <3>1, <3>2 DEF Issued, WInv, StoreInv, IInv
  <2>5. worker[v].attempt < c \/ worker[w].attempt < c
    BY <2>2, <2>4 DEF AttemptNo
  <2> QED
    BY <1>1, <2>2, <2>4, <2>5 DEF GoodRow, GoodHistory
<1>2. WInv => OneEffectiveHolder
  BY <1>1 DEF OneEffectiveHolder
<1> QED
  BY <1>2, WInvCorrect, PTL
=============================================================================
