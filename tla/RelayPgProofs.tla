----------------------------- MODULE RelayPgProofs -----------------------------
(***************************************************************************)
(* Proofs about RelayPg, for any number of sessions, tasks and attempts,   *)
(* any lease and any skew of the clocks.                                   *)
(***************************************************************************)
EXTENDS RelayPg, TLAPS

USE PgAssumption DEF TaskId, AttemptNo, Time

-----------------------------------------------------------------------------
AttRow  == [outcome : {"none", "processing", "expired", "completed", "failed"},
            expires : Int, action : {None, "complete", "fail"}, payload : Value \cup {None}]
TaskRow == [status : {"absent", "queued", "processing", "completed", "failed"},
            count : 0..MaxAttempts, output : Value \cup {None},
            error : Value \cup {None, Exhausted}, att : [AttemptNo -> AttRow]]

(* A row by itself: what of a task and its attempts goes together.         *)
Good(r) ==
    /\ r \in TaskRow
    /\ \A n \in AttemptNo :
         /\ n > r.count <=> r.att[n].outcome = "none"
         /\ r.att[n].outcome = "processing" <=> r.status = "processing" /\ n = r.count
         /\ n < r.count => r.att[n].outcome = "expired"
         /\ r.att[n].outcome = "completed"
            => r.status = "completed" /\ r.output = r.att[n].payload
               /\ r.att[n].action = "complete"
         /\ r.att[n].outcome = "failed"
            => r.status = "failed" /\ r.error = r.att[n].payload /\ r.att[n].action = "fail"
    /\ r.status \in {"absent", "queued", "processing"} => r.output = None /\ r.error = None
    /\ r.status = "absent" => r.count = 0
    /\ r.status = "processing" => r.count > 0

Settled(r) == r.status \in {"completed", "failed"}
GiveUp(r)  == [r EXCEPT !.status = "failed", !.error = Exhausted]
Extend(r, n, m) == [r EXCEPT !.att[n].expires = m + Lease]

(* What a row r can have become, by the time c, under the lock of a        *)
(* transaction: its draft d.                                               *)
Recovered(r, d, c) == /\ r.status = "processing" /\ d = ExpiredRow(r, r.count)
                      /\ r.att[r.count].expires <= c + Skew
Taken(b, d) == /\ StillQueued(b)
               /\ \/ b.count >= MaxAttempts /\ d = GiveUp(b)
                  \/ b.count < MaxAttempts /\ \E m \in Int : d = Grant(b, m)
Scanned(r, d, c) == d = r \/ Recovered(r, d, c)
Extended(r, d) == \E n \in AttemptNo, m \in Int : Alive(r, n, m) /\ d = Extend(r, n, m)
Answered(r, d) ==
    \E n \in AttemptNo, m \in Int, act \in {"complete", "fail"}, v \in Value :
       Alive(r, n, m) /\ d = Result(r, n, act, v)
Written(r, d, c) == \/ Scanned(r, d, c)
                    \/ \E b : Scanned(r, b, c) /\ Taken(b, d)
                    \/ Extended(r, d) \/ Answered(r, d)

(* What each of them does to a row, column by column.                      *)
LEMMA RecoveredDoes ==
    ASSUME NEW r, Good(r), r.status = "processing"
    PROVE  LET d == ExpiredRow(r, r.count)
           IN  /\ d \in TaskRow /\ d.count = r.count /\ d.output = None
               /\ d.att[r.count].outcome = "expired"
               /\ \A n \in AttemptNo \ {r.count} : d.att[n] = r.att[n]
               /\ \/ d.status = "queued" /\ d.error = None /\ r.count < MaxAttempts
                  \/ d.status = "failed" /\ d.error = Exhausted
<1> DEFINE a == [r.att EXCEPT ![r.count].outcome = "expired"]
           closed == [r EXCEPT !.att[r.count].outcome = "expired"]
<1>1. /\ r \in TaskRow /\ r.count \in AttemptNo /\ r.output = None /\ r.error = None
  BY DEF Good, TaskRow
<1>2. /\ a \in [AttemptNo -> AttRow] /\ a[r.count].outcome = "expired"
      /\ \A n \in AttemptNo \ {r.count} : a[n] = r.att[n]
  BY <1>1 DEF TaskRow, AttRow
<1>3. closed = [r EXCEPT !.att = a]
  BY <1>1 DEF TaskRow
<1> HIDE DEF a, closed
<1>4. /\ closed \in TaskRow /\ closed.att = a /\ closed.count = r.count
      /\ closed.output = None /\ closed.error = None /\ closed.status = "processing"
  BY <1>1, <1>2, <1>3 DEF TaskRow
<1>5. ExpiredRow(r, r.count) = IF r.count >= MaxAttempts
        THEN [closed EXCEPT !.status = "failed", !.error = Exhausted, !.output = None]
        ELSE [closed EXCEPT !.status = "queued"]
  BY DEF ExpiredRow, closed
<1>6. CASE r.count >= MaxAttempts
  BY <1>2, <1>4, <1>5, <1>6 DEF TaskRow
<1>7. CASE r.count < MaxAttempts
  BY <1>2, <1>4, <1>5, <1>7 DEF TaskRow
<1> QED
  BY <1>1, <1>6, <1>7

LEMMA GrantDoes ==
    ASSUME NEW b, Good(b), b.status = "queued", b.count < MaxAttempts, NEW m \in Int
    PROVE  LET d == Grant(b, m)
           IN  /\ d \in TaskRow /\ d.status = "processing" /\ d.count = b.count + 1
               /\ d.output = None /\ d.error = None
               /\ d.att[d.count].outcome = "processing"
               /\ \A n \in AttemptNo \ {d.count} : d.att[n] = b.att[n]
<1> DEFINE n == b.count + 1
           new == [NoAttempt EXCEPT !.outcome = "processing", !.expires = m + Lease]
           a == [b.att EXCEPT ![n] = new]
<1>1. /\ b \in TaskRow /\ n \in AttemptNo /\ n \in 0..MaxAttempts
      /\ b.output = None /\ b.error = None
  BY DEF Good, TaskRow
<1>2. new \in AttRow /\ new.outcome = "processing"
  <2>1. m + Lease \in Int
    OBVIOUS
  <2>2. NoAttempt \in AttRow
    BY DEF NoAttempt, AttRow
  <2> QED
    BY <2>1, <2>2 DEF AttRow
<1>3. /\ a \in [AttemptNo -> AttRow] /\ a[n].outcome = "processing"
      /\ \A k \in AttemptNo \ {n} : a[k] = b.att[k]
  BY <1>1, <1>2 DEF TaskRow
<1>4. Grant(b, m) = [b EXCEPT !.status = "processing", !.count = n, !.att = a]
  BY <1>1 DEF Grant, TaskRow
<1> HIDE DEF n, a
<1>5. LET d == [b EXCEPT !.status = "processing", !.count = n, !.att = a]
      IN  /\ d \in TaskRow /\ d.status = "processing" /\ d.count = n
          /\ d.output = None /\ d.error = None /\ d.att = a
  BY <1>1, <1>3 DEF TaskRow
<1> QED
  BY <1>3, <1>4, <1>5 DEF n

LEMMA ExtendDoes ==
    ASSUME NEW r, Good(r), NEW n \in AttemptNo, NEW m \in Int
    PROVE  LET d == Extend(r, n, m)
           IN  /\ d \in TaskRow /\ d.status = r.status /\ d.count = r.count
               /\ d.output = r.output /\ d.error = r.error
               /\ \A k \in AttemptNo : /\ d.att[k].outcome = r.att[k].outcome
                                       /\ d.att[k].action = r.att[k].action
                                       /\ d.att[k].payload = r.att[k].payload
<1> DEFINE a == [r.att EXCEPT ![n].expires = m + Lease]
<1>1. r \in TaskRow
  BY DEF Good
<1>2. /\ a \in [AttemptNo -> AttRow]
      /\ \A k \in AttemptNo : /\ a[k].outcome = r.att[k].outcome
                              /\ a[k].action = r.att[k].action
                              /\ a[k].payload = r.att[k].payload
  BY <1>1 DEF TaskRow, AttRow
<1>3. Extend(r, n, m) = [r EXCEPT !.att = a]
  BY <1>1 DEF Extend, TaskRow
<1> HIDE DEF a
<1> QED
  BY <1>1, <1>2, <1>3 DEF TaskRow

LEMMA ResultDoes ==
    ASSUME NEW r, Good(r), NEW n \in AttemptNo, NEW act \in {"complete", "fail"}, NEW v \in Value
    PROVE  LET d == Result(r, n, act, v)
               how == IF act = "complete" THEN "completed" ELSE "failed"
           IN  /\ d \in TaskRow /\ d.status = how /\ d.count = r.count
               /\ d.output = IF act = "complete" THEN v ELSE None
               /\ d.error = IF act = "complete" THEN None ELSE v
               /\ d.att[n].outcome = how /\ d.att[n].action = act /\ d.att[n].payload = v
               /\ \A k \in AttemptNo \ {n} : d.att[k] = r.att[k]
<1> DEFINE how == IF act = "complete" THEN "completed" ELSE "failed"
           a == [r.att EXCEPT ![n].outcome = how, ![n].action = act, ![n].payload = v]
           out == IF act = "complete" THEN v ELSE None
           err == IF act = "complete" THEN None ELSE v
<1>1. r \in TaskRow
  BY DEF Good
<1>2. /\ a \in [AttemptNo -> AttRow]
      /\ a[n].outcome = how /\ a[n].action = act /\ a[n].payload = v
      /\ \A k \in AttemptNo \ {n} : a[k] = r.att[k]
  <2> DEFINE one == [r.att[n] EXCEPT !.outcome = how, !.action = act, !.payload = v]
  <2>1. r.att \in [AttemptNo -> AttRow] /\ r.att[n] \in AttRow
    BY <1>1 DEF TaskRow
  <2>2. how \in {"completed", "failed"}
    OBVIOUS
  <2> HIDE DEF how
  <2>3. one \in AttRow /\ one.outcome = how /\ one.action = act /\ one.payload = v
    BY <2>1, <2>2 DEF AttRow
  <2>4. a = [r.att EXCEPT ![n] = one]
    BY <2>1
  <2> HIDE DEF one, a
  <2> QED
    BY <2>1, <2>3, <2>4
<1>3. Result(r, n, act, v) = [r EXCEPT !.status = how, !.output = out, !.error = err, !.att = a]
  BY <1>1 DEF Result, TaskRow
<1>4. how \in {"completed", "failed"} /\ out \in Value \cup {None}
      /\ err \in Value \cup {None}
  OBVIOUS
<1> HIDE DEF a, how, out, err
<1>5. LET d == [r EXCEPT !.status = how, !.output = out, !.error = err, !.att = a]
      IN  /\ d \in TaskRow /\ d.status = how /\ d.count = r.count /\ d.output = out
          /\ d.error = err /\ d.att = a
  BY <1>1, <1>2, <1>4 DEF TaskRow
<1> QED
  BY <1>2, <1>3, <1>5 DEF how, out, err
-----------------------------------------------------------------------------
(* So a row stays good, and its task lives on as it should.                *)
Moves(r, d) ==
    LET same == d.count = r.count /\ d.output = None /\ d.error = None
    IN  \/ /\ d.status = r.status /\ d.count = r.count
           /\ d.output = r.output /\ d.error = r.error
        \/ /\ r.status \in {"queued", "processing"} /\ r.count < MaxAttempts
           /\ d.status = "processing" /\ d.count = r.count + 1
           /\ d.output = None /\ d.error = None
        \/ r.status = "processing" /\ d.status = "queued" /\ same
        \/ /\ r.status = "processing" /\ d.count = r.count
           /\ \E v \in Value : \/ d.status = "completed" /\ d.output = v /\ d.error = None
                               \/ d.status = "failed" /\ d.output = None /\ d.error = v
        \/ /\ r.status \in {"queued", "processing"} /\ r.count > 0 /\ d.count = r.count
           /\ d.status = "failed" /\ d.output = None /\ d.error = Exhausted

(* Nothing is taken from a worker before its lease, as committed, ran out. *)
TakesExpired(r, d, c) ==
    \A n \in AttemptNo : r.att[n].outcome = "processing" /\ d.att[n].outcome = "expired"
                         => r.att[n].expires <= c + Skew

LEMMA RecoveredKeeps ==
    ASSUME NEW r, NEW d, NEW c, Good(r), Recovered(r, d, c)
    PROVE  /\ Good(d) /\ Moves(r, d) /\ TakesExpired(r, d, c)
           /\ \A n \in AttemptNo : d.att[n].outcome # "processing"
           /\ r.count > 0 /\ d.count = r.count
           /\ d.status = "queued" => r.count < MaxAttempts
<1>1. /\ d \in TaskRow /\ d.count = r.count /\ d.output = None
      /\ d.att[r.count].outcome = "expired"
      /\ \A n \in AttemptNo \ {r.count} : d.att[n] = r.att[n]
      /\ \/ d.status = "queued" /\ d.error = None /\ r.count < MaxAttempts
         \/ d.status = "failed" /\ d.error = Exhausted
  BY RecoveredDoes DEF Recovered
<1>2. /\ r.status = "processing" /\ r.count > 0 /\ r.count \in 0..MaxAttempts
      /\ r.att[r.count].expires <= c + Skew
      /\ \A n \in AttemptNo :
           /\ n > r.count <=> r.att[n].outcome = "none"
           /\ r.att[n].outcome = "processing" <=> n = r.count
           /\ n < r.count => r.att[n].outcome = "expired"
           /\ r.att[n].outcome \notin {"completed", "failed"}
  BY DEF Good, Recovered, TaskRow
<1>3. \A n \in AttemptNo : /\ n > d.count <=> d.att[n].outcome = "none"
                           /\ n <= d.count => d.att[n].outcome = "expired"
  BY <1>1, <1>2
<1>4. Good(d)
  BY <1>1, <1>2, <1>3 DEF Good
<1>5. Moves(r, d)
  BY <1>1, <1>2 DEF Moves
<1>6. TakesExpired(r, d, c)
  BY <1>2 DEF TakesExpired
<1> QED
  BY <1>1, <1>2, <1>3, <1>4, <1>5, <1>6

LEMMA TakenKeeps ==
    ASSUME NEW b, NEW d, Good(b), Taken(b, d)
    PROVE  /\ Good(d) /\ Moves(b, d)
           /\ \A n \in AttemptNo : d.att[n].outcome = "expired" => b.att[n].outcome = "expired"
<1>1. /\ b \in TaskRow /\ b.status = "queued" /\ b.count \in 0..MaxAttempts
      /\ b.output = None /\ b.error = None
      /\ \A n \in AttemptNo :
           /\ n > b.count <=> b.att[n].outcome = "none"
           /\ n <= b.count => b.att[n].outcome = "expired"
  BY DEF Good, Taken, StillQueued, TaskRow, AttRow
<1>2. CASE b.count >= MaxAttempts /\ d = GiveUp(b)
  <2>1. /\ d \in TaskRow /\ d.status = "failed" /\ d.error = Exhausted /\ d.count = b.count
        /\ d.output = None /\ d.att = b.att
    BY <1>1, <1>2 DEF GiveUp, TaskRow
  <2>2. Good(d)
    BY <1>1, <2>1 DEF Good
  <2>3. Moves(b, d)
    BY <1>1, <1>2, <2>1 DEF Moves
  <2> QED
    BY <2>1, <2>2, <2>3
<1>3. ASSUME b.count < MaxAttempts, NEW m \in Int, d = Grant(b, m)
      PROVE  /\ Good(d) /\ Moves(b, d)
             /\ \A n \in AttemptNo : d.att[n].outcome = "expired" => b.att[n].outcome = "expired"
  <2>1. /\ d \in TaskRow /\ d.status = "processing" /\ d.count = b.count + 1
        /\ d.output = None /\ d.error = None
        /\ d.att[d.count].outcome = "processing"
        /\ \A n \in AttemptNo \ {d.count} : d.att[n] = b.att[n]
    BY <1>1, <1>3, GrantDoes
  <2>2. \A n \in AttemptNo :
          /\ n > d.count <=> d.att[n].outcome = "none"
          /\ d.att[n].outcome = "processing" <=> n = d.count
          /\ n < d.count => d.att[n].outcome = "expired"
          /\ d.att[n].outcome \notin {"completed", "failed"}
    BY <1>1, <2>1
  <2>3. Good(d)
    BY <1>1, <2>1, <2>2 DEF Good
  <2>4. Moves(b, d)
    BY <1>1, <1>3, <2>1 DEF Moves
  <2> QED
    BY <2>1, <2>3, <2>4
<1> QED
  BY <1>2, <1>3 DEF Taken

LEMMA ExtendedKeeps ==
    ASSUME NEW r, NEW d, Good(r), Extended(r, d)
    PROVE  /\ Good(d) /\ Moves(r, d) /\ r.status = "processing"
           /\ \A n \in AttemptNo : d.att[n].outcome = r.att[n].outcome
<1>1. PICK n \in AttemptNo, m \in Int : Alive(r, n, m) /\ d = Extend(r, n, m)
  BY DEF Extended
<1>2. /\ d \in TaskRow /\ d.status = r.status /\ d.count = r.count
      /\ d.output = r.output /\ d.error = r.error
      /\ \A k \in AttemptNo : /\ d.att[k].outcome = r.att[k].outcome
                              /\ d.att[k].action = r.att[k].action
                              /\ d.att[k].payload = r.att[k].payload
  BY <1>1, ExtendDoes
<1>3. Good(d)
  BY <1>2 DEF Good
<1>4. Moves(r, d)
  BY <1>2 DEF Moves
<1> QED
  BY <1>1, <1>2, <1>3, <1>4 DEF Alive

LEMMA AnsweredKeeps ==
    ASSUME NEW r, NEW d, Good(r), Answered(r, d)
    PROVE  /\ Good(d) /\ Moves(r, d) /\ r.status = "processing"
           /\ \A n \in AttemptNo : d.att[n].outcome = "expired" => r.att[n].outcome = "expired"
<1>1. PICK n \in AttemptNo, m \in Int, act \in {"complete", "fail"}, v \in Value :
        Alive(r, n, m) /\ d = Result(r, n, act, v)
  BY DEF Answered
<1> DEFINE how == IF act = "complete" THEN "completed" ELSE "failed"
<1>2. /\ d \in TaskRow /\ d.status = how /\ d.count = r.count
      /\ d.output = IF act = "complete" THEN v ELSE None
      /\ d.error = IF act = "complete" THEN None ELSE v
      /\ d.att[n].outcome = how /\ d.att[n].action = act /\ d.att[n].payload = v
      /\ \A k \in AttemptNo \ {n} : d.att[k] = r.att[k]
  BY <1>1, ResultDoes
<1>3. /\ r.status = "processing" /\ r.count = n
      /\ \A k \in AttemptNo :
           /\ k > n <=> r.att[k].outcome = "none"
           /\ k < n => r.att[k].outcome = "expired"
  BY <1>1 DEF Alive, Good
<1>4. \A k \in AttemptNo \ {n} : d.att[k].outcome \in {"none", "expired"}
  BY <1>2, <1>3 DEF Good, TaskRow
<1>5. CASE act = "complete"
  <2>1. d.status = "completed" /\ d.output = v /\ d.error = None /\ d.att[n].outcome = "completed"
    BY <1>2, <1>5
  <2>2. Good(d)
    BY <1>2, <1>3, <1>4, <1>5, <2>1 DEF Good
  <2>3. Moves(r, d)
    BY <1>2, <1>3, <2>1 DEF Moves
  <2> QED
    BY <1>2, <2>1, <2>2, <2>3, <1>3
<1>6. CASE act = "fail"
  <2>1. d.status = "failed" /\ d.output = None /\ d.error = v /\ d.att[n].outcome = "failed"
    BY <1>2, <1>6
  <2>2. Good(d)
    BY <1>2, <1>3, <1>4, <1>6, <2>1 DEF Good
  <2>3. Moves(r, d)
    BY <1>2, <1>3, <2>1 DEF Moves
  <2> QED
    BY <1>2, <2>1, <2>2, <2>3, <1>3
<1> QED
  BY <1>5, <1>6

(* Whatever a transaction writes, the committed row may be replaced by it. *)
LEMMA WrittenKeeps ==
    ASSUME NEW r, NEW d, NEW c, Good(r), Written(r, d, c)
    PROVE  /\ Good(d) /\ Moves(r, d) /\ TakesExpired(r, d, c)
           /\ Settled(r) \/ r.status = "absent" => d = r
<1>1. CASE d = r
  BY <1>1 DEF Moves, TakesExpired
<1>2. CASE Recovered(r, d, c)
  BY <1>2, RecoveredKeeps DEF Recovered, Settled
<1>3. CASE Taken(r, d)
  <2>1. /\ Good(d) /\ Moves(r, d) /\ r.status = "queued"
        /\ \A n \in AttemptNo : d.att[n].outcome = "expired" => r.att[n].outcome = "expired"
    BY <1>3, TakenKeeps DEF Taken, StillQueued
  <2> QED
    BY <2>1 DEF TakesExpired, Settled
<1>4. ASSUME NEW b, Recovered(r, b, c), Taken(b, d)
      PROVE  /\ Good(d) /\ Moves(r, d) /\ TakesExpired(r, d, c)
             /\ Settled(r) \/ r.status = "absent" => d = r
  <2>1. /\ Good(b) /\ TakesExpired(r, b, c) /\ r.status = "processing" /\ r.count > 0
        /\ b.count = r.count /\ b.status = "queued" /\ r.count < MaxAttempts
        /\ r \in TaskRow /\ r.count \in 0..MaxAttempts
    BY <1>4, RecoveredKeeps DEF Recovered, Taken, StillQueued, Good, TaskRow
  <2>2. /\ Good(d)
        /\ \A n \in AttemptNo : d.att[n].outcome = "expired" => b.att[n].outcome = "expired"
    BY <1>4, <2>1, TakenKeeps
  <2>3. PICK m \in Int : d = Grant(b, m)
    BY <1>4, <2>1 DEF Taken
  <2>4. /\ d.status = "processing" /\ d.count = r.count + 1
        /\ d.output = None /\ d.error = None
    BY <2>1, <2>3, GrantDoes
  <2>5. Moves(r, d)
    BY <2>1, <2>4 DEF Moves
  <2> QED
    BY <2>1, <2>2, <2>5 DEF TakesExpired, Settled
<1>5. CASE Extended(r, d)
  <2>1. /\ Good(d) /\ Moves(r, d) /\ r.status = "processing"
        /\ \A n \in AttemptNo : d.att[n].outcome = r.att[n].outcome
    BY <1>5, ExtendedKeeps
  <2> QED
    BY <2>1 DEF TakesExpired, Settled
<1>6. CASE Answered(r, d)
  <2>1. /\ Good(d) /\ Moves(r, d) /\ r.status = "processing"
        /\ \A n \in AttemptNo : d.att[n].outcome = "expired" => r.att[n].outcome = "expired"
    BY <1>6, AnsweredKeeps
  <2> QED
    BY <2>1 DEF TakesExpired, Settled
<1> QED
  BY <1>1, <1>2, <1>3, <1>4, <1>5, <1>6 DEF Written, Scanned

(* The clock that limits what may have expired only goes forward.          *)
LEMMA WrittenStays ==
    ASSUME NEW r, NEW d, NEW c \in Int, Good(r)
    PROVE  /\ Scanned(r, d, c) => Scanned(r, d, c + 1)
           /\ Written(r, d, c) => Written(r, d, c + 1)
<1>1. ASSUME NEW b, Recovered(r, b, c) PROVE Recovered(r, b, c + 1)
  <2>1. r.count \in AttemptNo /\ r.att[r.count].expires \in Int
    BY <1>1 DEF Recovered, Good, TaskRow, AttRow
  <2> QED
    BY <1>1, <2>1 DEF Recovered
<1> QED
  BY <1>1 DEF Scanned, Written

-----------------------------------------------------------------------------
(* The inductive invariant: what is known of a connection by itself, of    *)
(* the rows it has locked, and of the answer it is about to commit.        *)
Conn == [pc : {"idle", "scan", "recover", "pick", "wait", "check", "commit", "rollback"},
         op : {"none", "claim", "recover", "heartbeat", "terminal"}, seen : Int,
         todo : SUBSET (TaskId \X AttemptNo), cand : SUBSET TaskId,
         task : 0..MaxTasks, attempt : 0..MaxAttempts,
         action : {None, "complete", "fail"}, value : Value \cup {None}]
Submission == [task : TaskId, attempt : AttemptNo, action : {"complete", "fail"},
               value : Value]

Fit(c, now) ==
    /\ c \in Conn /\ c.seen <= now + Skew
    /\ c.pc = "idle" => c = Idle
    /\ c.pc \in {"scan", "recover", "pick"} => c.op \in {"claim", "recover"}
    /\ c.pc \in {"wait", "check"} => c.task \in TaskId /\ c.attempt \in AttemptNo
    /\ c.op = "terminal" => /\ c.task \in TaskId /\ c.attempt \in AttemptNo
                            /\ c.action \in {"complete", "fail"} /\ c.value \in Value

Holding(c, r, d, now) ==
    /\ c.pc \notin {"idle", "scan", "wait"}
    /\ c.pc \in {"recover", "pick"} => Scanned(r, d, now)
    /\ c.pc \in {"check", "rollback"} => d = r
    /\ c.pc = "commit" => Written(r, d, now)

(* The row of a task says what was submitted with attempt x.               *)
Says(r, x) == /\ r.att[x.attempt].action = x.action
              /\ IF x.action = "complete" THEN r.status = "completed" /\ r.output = x.value
                                          ELSE r.status = "failed" /\ r.error = x.value

Owns(s, c, l, d) ==
    /\ c.pc = "check" => l[c.task] = s
    /\ c.pc = "commit" /\ c.op = "terminal" => l[c.task] = s /\ Says(d[c.task], c)

Tables == /\ clock \in 0..MaxTime
          /\ row \in [TaskId -> TaskRow] /\ draft \in [TaskId -> TaskRow]
          /\ lock \in [TaskId -> Session \cup {Free}] /\ conn \in [Session -> Conn]
Rows   == \A t \in TaskId : Good(row[t]) /\ (lock[t] = Free => draft[t] = row[t])
Fits   == \A s \in Session : Fit(conn[s], clock)
Locks  == \A s \in Session, t \in TaskId :
             lock[t] = s => Holding(conn[s], row[t], draft[t], clock)
Owners == \A s \in Session : Owns(s, conn[s], lock, draft)
Kept   == \A x \in told : x \in Submission /\ Says(row[x.task], x)

PgInv == Tables /\ Rows /\ Fits /\ Locks /\ Owners /\ Kept

(* Every draft is what a transaction may have made of its row.             *)
LEMMA DraftWritten ==
    ASSUME PgInv, NEW t \in TaskId
    PROVE  Good(draft[t]) /\ Written(row[t], draft[t], clock)
<1>1. Good(row[t])
  BY DEF PgInv, Rows
<1>2. Written(row[t], draft[t], clock)
  <2>1. CASE lock[t] = Free
    BY <2>1 DEF PgInv, Rows, Written, Scanned
  <2>2. ASSUME NEW s \in Session, lock[t] = s PROVE Written(row[t], draft[t], clock)
    <3>1. Holding(conn[s], row[t], draft[t], clock) /\ conn[s] \in Conn
      BY <2>2 DEF PgInv, Locks, Tables
    <3>2. conn[s].pc \in {"idle", "scan", "recover", "pick", "wait", "check", "commit",
                          "rollback"}
      BY <3>1 DEF Conn
    <3> QED
      BY <3>1, <3>2 DEF Holding, Written, Scanned
  <2> QED
    BY <2>1, <2>2 DEF PgInv, Tables
<1> QED
  BY <1>1, <1>2, WrittenKeeps

(* A row that is settled, or not there yet, is not touched by any draft.   *)
LEMMA SettledStays ==
    ASSUME PgInv, NEW t \in TaskId, Settled(row[t]) \/ row[t].status = "absent"
    PROVE  draft[t] = row[t]
BY DraftWritten, WrittenKeeps DEF PgInv, Rows

(* A session goes on in its transaction: whatever it locks or writes, it   *)
(* may hold.                                                               *)
LEMMA Works ==
    ASSUME PgInv, NEW s \in Session, NEW c, conn' = [conn EXCEPT ![s] = c],
           Fit(c, clock), UNCHANGED <<row, clock, told>>,
           lock' \in [TaskId -> Session \cup {Free}], draft' \in [TaskId -> TaskRow],
           Owns(s, c, lock', draft'),
           \A t \in TaskId :
             \/ /\ lock'[t] = lock[t] /\ draft'[t] = draft[t]
                /\ lock[t] = s => Holding(c, row[t], draft[t], clock)
             \/ /\ lock[t] \in {Free, s} /\ lock'[t] = s
                /\ Holding(c, row[t], draft'[t], clock)
    PROVE  PgInv'
<1>1. /\ conn' \in [Session -> Conn] /\ conn'[s] = c
      /\ \A z \in Session \ {s} : conn'[z] = conn[z]
  BY DEF PgInv, Tables, Fit
<1>2. Tables'
  BY <1>1 DEF PgInv, Tables
<1>3. Rows'
  BY DEF PgInv, Rows
<1>4. Fits'
  BY <1>1 DEF PgInv, Fits
<1>5. Locks'
  <2> SUFFICES ASSUME NEW z \in Session, NEW t \in TaskId, lock'[t] = z
               PROVE  Holding(conn'[z], row[t], draft'[t], clock)
    BY DEF Locks
  <2>1. CASE z = s
    BY <1>1, <2>1
  <2>2. CASE z # s
    BY <1>1, <2>2 DEF PgInv, Locks
  <2> QED
    BY <2>1, <2>2
<1>6. Owners'
  <2> SUFFICES ASSUME NEW z \in Session PROVE Owns(z, conn'[z], lock', draft')
    BY DEF Owners
  <2>1. CASE z = s
    BY <1>1, <2>1
  <2>2. CASE z # s
    <3>1. Owns(z, conn[z], lock, draft) /\ Fit(conn[z], clock) /\ conn'[z] = conn[z]
      BY <1>1, <2>2 DEF PgInv, Owners, Fits
    <3>2. \A t \in TaskId : lock[t] = z => lock'[t] = z /\ draft'[t] = draft[t]
      BY <2>2
    <3> QED
      BY <3>1, <3>2 DEF Owns, Fit
  <2> QED
    BY <2>1, <2>2
<1>7. Kept'
  BY DEF PgInv, Kept
<1> QED
  BY <1>2, <1>3, <1>4, <1>5, <1>6, <1>7 DEF PgInv

(* ... without touching a row,                                             *)
LEMMA WorksAlone ==
    ASSUME PgInv, NEW s \in Session, NEW c, Goto(s, c), Fit(c, clock),
           UNCHANGED <<row, draft, lock, clock, told>>, Owns(s, c, lock, draft),
           \A t \in TaskId : lock[t] = s => Holding(c, row[t], draft[t], clock)
    PROVE  PgInv'
<1>1. /\ conn' = [conn EXCEPT ![s] = c]
      /\ lock' \in [TaskId -> Session \cup {Free}] /\ draft' \in [TaskId -> TaskRow]
      /\ Owns(s, c, lock', draft')
  BY DEF Goto, PgInv, Tables
<1> QED
  BY <1>1, Works

(* ... with one row locked and perhaps written,                            *)
LEMMA WorksOnRow ==
    ASSUME PgInv, NEW s \in Session, NEW c, Goto(s, c), Fit(c, clock),
           NEW t \in TaskId, NEW r \in TaskRow, Lockable(s, t), Writes(s, t, r),
           UNCHANGED <<row, clock, told>>, Owns(s, c, lock', draft'),
           Holding(c, row[t], r, clock),
           \A u \in TaskId \ {t} : lock[u] = s => Holding(c, row[u], draft[u], clock)
    PROVE  PgInv'
<1>1. /\ conn' = [conn EXCEPT ![s] = c]
      /\ lock' = [lock EXCEPT ![t] = s] /\ draft' = [draft EXCEPT ![t] = r]
      /\ lock \in [TaskId -> Session \cup {Free}] /\ draft \in [TaskId -> TaskRow]
  BY DEF Goto, Writes, PgInv, Tables
<1>2. /\ lock' \in [TaskId -> Session \cup {Free}] /\ draft' \in [TaskId -> TaskRow]
      /\ lock'[t] = s /\ draft'[t] = r
      /\ \A u \in TaskId \ {t} : lock'[u] = lock[u] /\ draft'[u] = draft[u]
  BY <1>1
<1>3. lock[t] \in {Free, s}
  BY DEF Lockable
<1>4. ASSUME NEW u \in TaskId
      PROVE  \/ /\ lock'[u] = lock[u] /\ draft'[u] = draft[u]
                /\ lock[u] = s => Holding(c, row[u], draft[u], clock)
             \/ /\ lock[u] \in {Free, s} /\ lock'[u] = s
                /\ Holding(c, row[u], draft'[u], clock)
  <2>1. CASE u = t
    BY <1>2, <1>3, <2>1
  <2>2. CASE u # t
    BY <1>2, <2>2
  <2> QED
    BY <2>1, <2>2
<1> QED
  BY <1>1, <1>2, <1>4, Works

(* ... or ends it: what it held becomes what all see, and is free.         *)
LEMMA Releases ==
    ASSUME PgInv, NEW s \in Session, Goto(s, Idle), Unlock(s), UNCHANGED clock,
           row' \in [TaskId -> TaskRow], draft' \in [TaskId -> TaskRow],
           \A t \in TaskId :
             IF lock[t] = s THEN Good(row'[t]) /\ draft'[t] = row'[t]
                            ELSE row'[t] = row[t] /\ draft'[t] = draft[t],
           Kept'
    PROVE  PgInv'
<1>1. /\ conn' = [conn EXCEPT ![s] = Idle] /\ Fit(Idle, clock)
      /\ Idle.pc = "idle"
  <2>1. Idle \in Conn
    BY DEF Idle, Conn
  <2> QED
    BY <2>1 DEF Goto, Idle, Fit, PgInv, Tables
<1>2. /\ conn' \in [Session -> Conn] /\ conn'[s] = Idle
      /\ \A z \in Session \ {s} : conn'[z] = conn[z]
  BY <1>1 DEF PgInv, Tables, Fit
<1>3. /\ lock' \in [TaskId -> Session \cup {Free}]
      /\ \A t \in TaskId : lock'[t] = IF lock[t] = s THEN Free ELSE lock[t]
  BY DEF Unlock, PgInv, Tables
<1>4. Tables'
  BY <1>2, <1>3 DEF PgInv, Tables
<1>5. Rows'
  BY <1>3 DEF PgInv, Rows
<1>6. Fits'
  BY <1>1, <1>2 DEF PgInv, Fits
<1>7. \A z \in Session, t \in TaskId :
        lock'[t] = z => z # s /\ lock[t] = z /\ row'[t] = row[t] /\ draft'[t] = draft[t]
  BY <1>3
<1>8. Locks'
  BY <1>2, <1>7 DEF PgInv, Locks
<1>9. Owners'
  <2> SUFFICES ASSUME NEW z \in Session PROVE Owns(z, conn'[z], lock', draft')
    BY DEF Owners
  <2>1. CASE z = s
    BY <1>1, <1>2, <2>1 DEF Owns
  <2>2. CASE z # s
    <3>1. Owns(z, conn[z], lock, draft) /\ Fit(conn[z], clock) /\ conn'[z] = conn[z]
      BY <1>2, <2>2 DEF PgInv, Owners, Fits
    <3>2. \A t \in TaskId : lock[t] = z => lock'[t] = z /\ draft'[t] = draft[t]
      BY <1>3, <2>2
    <3> QED
      BY <3>1, <3>2 DEF Owns, Fit
  <2> QED
    BY <2>1, <2>2
<1> QED
  BY <1>4, <1>5, <1>6, <1>8, <1>9 DEF PgInv

-----------------------------------------------------------------------------
(* The steps of recovery and of a claim.                                   *)
LEMMA BeginStep ==
    ASSUME PgInv, NEW s \in Session, NEW op \in {"claim", "recover"}, Begin(s, op)
    PROVE  PgInv'
<1>1. PICK m \in Now : Goto(s, [Idle EXCEPT !.pc = "scan", !.op = op, !.seen = m])
  BY DEF Begin
<1> DEFINE c == [Idle EXCEPT !.pc = "scan", !.op = op, !.seen = m]
<1>2. m \in Int /\ m <= clock + Skew
  BY DEF Now, PgInv, Tables
<1>3. c \in Conn /\ c.pc = "scan" /\ c.op = op /\ c.seen = m
  <2>1. Idle \in Conn
    BY DEF Idle, Conn
  <2> QED
    BY <1>2, <2>1 DEF Conn
<1> HIDE DEF c
<1>4. Fit(c, clock) /\ Owns(s, c, lock, draft)
  BY <1>2, <1>3 DEF Fit, Owns
<1>5. \A t \in TaskId : lock[t] # s
  BY DEF Begin, PgInv, Locks, Holding
<1> QED
  BY <1>1, <1>4, <1>5, WorksAlone DEF c, Begin

(* What is known of each connection.                                       *)
LEMMA ConnFits ==
    ASSUME PgInv, NEW s \in Session
    PROVE  conn[s] \in Conn /\ Fit(conn[s], clock)
BY DEF PgInv, Tables, Fits

LEMMA ScanStep ==
    ASSUME PgInv, NEW s \in Session, Scan(s)
    PROVE  PgInv'
<1> DEFINE todo == {x \in TaskId \X AttemptNo :
                      /\ row[x[1]].att[x[2]].outcome = "processing"
                      /\ row[x[1]].att[x[2]].expires <= conn[s].seen}
           c == [conn[s] EXCEPT !.pc = "recover", !.todo = todo]
<1>1. conn[s] \in Conn /\ Fit(conn[s], clock) /\ conn[s].pc = "scan"
  BY ConnFits DEF Scan
<1>2. todo \in SUBSET (TaskId \X AttemptNo)
  OBVIOUS
<1>3. Goto(s, c) /\ UNCHANGED <<row, draft, lock, clock, told>>
  BY DEF Scan
<1> HIDE DEF todo
<1>4. c \in Conn /\ c.pc = "recover" /\ c.op = conn[s].op /\ c.seen = conn[s].seen
  BY <1>1, <1>2 DEF Conn
<1> HIDE DEF c
<1>5. Fit(c, clock) /\ Owns(s, c, lock, draft)
  BY <1>1, <1>4 DEF Fit, Owns
<1>6. \A t \in TaskId : lock[t] # s
  BY <1>1 DEF PgInv, Locks, Holding
<1> QED
  BY <1>3, <1>5, <1>6, WorksAlone

(* Under the lock, a round of the recovery closes only what has expired.   *)
LEMMA RoundWrites ==
    ASSUME PgInv, NEW s \in Session, NEW t \in TaskId, NEW n \in AttemptNo,
           conn[s].pc = "recover", Lockable(s, t)
    PROVE  LET r == IF StillExpired(draft[t], n, conn[s].seen)
                    THEN ExpiredRow(draft[t], n) ELSE draft[t]
           IN  r \in TaskRow /\ Scanned(row[t], r, clock)
<1>1. Good(row[t]) /\ Good(draft[t]) /\ clock \in Int /\ Fit(conn[s], clock)
  BY DraftWritten DEF PgInv, Rows, Tables, Fits
<1>2. Scanned(row[t], draft[t], clock)
  <2>1. CASE lock[t] = Free
    BY <2>1 DEF PgInv, Rows, Scanned
  <2>2. CASE lock[t] = s
    BY <2>2 DEF PgInv, Locks, Holding
  <2> QED
    BY <2>1, <2>2 DEF Lockable
<1>3. CASE ~StillExpired(draft[t], n, conn[s].seen)
  BY <1>1, <1>2, <1>3 DEF Good
<1>4. CASE StillExpired(draft[t], n, conn[s].seen)
  <2>1. draft[t].att[n].outcome = "processing" /\ draft[t].att[n].expires <= conn[s].seen
    BY <1>4 DEF StillExpired
  <2>2. draft[t] = row[t]
    BY <1>1, <1>2, <2>1, RecoveredKeeps DEF Scanned
  <2>3. row[t].status = "processing" /\ n = row[t].count
    BY <1>1, <2>1, <2>2 DEF Good
  <2>4. /\ row[t].att[n].expires \in Int /\ conn[s].seen \in Int
        /\ conn[s].seen <= clock + Skew
    BY <1>1 DEF Good, TaskRow, AttRow, Fit, Conn
  <2>5. row[t].att[n].expires <= clock + Skew
    BY <1>1, <2>1, <2>2, <2>4
  <2>6. Recovered(row[t], ExpiredRow(draft[t], n), clock)
    BY <2>2, <2>3, <2>5 DEF Recovered
  <2> QED
    BY <1>1, <1>4, <2>6, RecoveredKeeps DEF Scanned, Good
<1> QED
  BY <1>3, <1>4

LEMMA RecoverOneStep ==
    ASSUME PgInv, NEW s \in Session, RecoverOne(s)
    PROVE  PgInv'
<1>1. PICK x \in conn[s].todo :
        /\ conn[s].pc = "recover"
        /\ Goto(s, [conn[s] EXCEPT !.todo = @ \ {x}])
        /\ \/ ~Lockable(s, x[1]) /\ UNCHANGED <<lock, draft>>
           \/ /\ Lockable(s, x[1])
              /\ Writes(s, x[1], IF StillExpired(draft[x[1]], x[2], conn[s].seen)
                                 THEN ExpiredRow(draft[x[1]], x[2]) ELSE draft[x[1]])
        /\ UNCHANGED <<row, clock, told>>
  BY DEF RecoverOne
<1> DEFINE c == [conn[s] EXCEPT !.todo = @ \ {x}]
           r == IF StillExpired(draft[x[1]], x[2], conn[s].seen)
                THEN ExpiredRow(draft[x[1]], x[2]) ELSE draft[x[1]]
<1>2. conn[s] \in Conn /\ Fit(conn[s], clock) /\ conn[s].todo \in SUBSET (TaskId \X AttemptNo)
  BY ConnFits DEF Conn
<1>3. c \in Conn /\ c.pc = "recover" /\ c.op = conn[s].op /\ c.seen = conn[s].seen
  BY <1>1, <1>2 DEF Conn
<1>4. x[1] \in TaskId /\ x[2] \in AttemptNo
  BY <1>2
<1>5. Goto(s, c)
  BY <1>1
<1> HIDE DEF c
<1>6. Fit(c, clock) /\ \A l, d : Owns(s, c, l, d)
  BY <1>1, <1>2, <1>3 DEF Fit, Owns
<1>7. \A t \in TaskId : lock[t] = s => Holding(c, row[t], draft[t], clock)
  BY <1>1, <1>3 DEF PgInv, Locks, Holding
<1>8. CASE UNCHANGED <<lock, draft>>
  BY <1>1, <1>5, <1>6, <1>7, <1>8, WorksAlone
<1>9. CASE Lockable(s, x[1]) /\ Writes(s, x[1], r)
  <2>1. r \in TaskRow /\ Scanned(row[x[1]], r, clock)
    BY <1>1, <1>4, <1>9, RoundWrites
  <2> HIDE DEF r
  <2>2. Holding(c, row[x[1]], r, clock)
    BY <1>3, <2>1 DEF Holding
  <2> QED
    BY <1>1, <1>4, <1>5, <1>6, <1>7, <1>9, <2>1, <2>2, WorksOnRow
<1> QED
  BY <1>1, <1>8, <1>9

LEMMA RecoverDoneStep ==
    ASSUME PgInv, NEW s \in Session, RecoverDone(s)
    PROVE  PgInv'
<1> DEFINE cand == {t \in TaskId : Sees(s, t).status = "queued"}
           c == IF conn[s].op = "claim" THEN [conn[s] EXCEPT !.pc = "pick", !.cand = cand]
                                        ELSE [conn[s] EXCEPT !.pc = "commit"]
<1>1. conn[s] \in Conn /\ Fit(conn[s], clock) /\ conn[s].pc = "recover"
  BY ConnFits DEF RecoverDone
<1>2. cand \in SUBSET TaskId
  OBVIOUS
<1>3. Goto(s, c) /\ UNCHANGED <<row, draft, lock, clock, told>>
  BY DEF RecoverDone
<1> HIDE DEF cand
<1>4. /\ c \in Conn /\ c.pc \in {"pick", "commit"} /\ c.op = conn[s].op
      /\ c.seen = conn[s].seen
  <2>1. CASE conn[s].op = "claim"
    BY <1>1, <1>2, <2>1 DEF Conn
  <2>2. CASE conn[s].op # "claim"
    BY <1>1, <2>2 DEF Conn
  <2> QED
    BY <2>1, <2>2
<1> HIDE DEF c
<1>5. Fit(c, clock) /\ Owns(s, c, lock, draft)
  BY <1>1, <1>4 DEF Fit, Owns
<1>6. \A t \in TaskId : lock[t] = s => Holding(c, row[t], draft[t], clock)
  BY <1>1, <1>4 DEF PgInv, Locks, Holding, Written
<1> QED
  BY <1>3, <1>5, <1>6, WorksAlone

LEMMA PickTaskStep ==
    ASSUME PgInv, NEW s \in Session, PickTask(s)
    PROVE  PgInv'
<1>1. PICK t \in conn[s].cand :
        /\ conn[s].pc = "pick"
        /\ \/ /\ ~Lockable(s, t)
              /\ Goto(s, [conn[s] EXCEPT !.cand = @ \ {t}])
              /\ UNCHANGED <<lock, draft>>
           \/ /\ Lockable(s, t) /\ ~StillQueued(draft[t])
              /\ Writes(s, t, draft[t])
              /\ Goto(s, [conn[s] EXCEPT !.cand = @ \ {t}])
           \/ /\ Lockable(s, t) /\ StillQueued(draft[t])
              /\ Writes(s, t, IF draft[t].count >= MaxAttempts
                              THEN GiveUp(draft[t]) ELSE Grant(draft[t], conn[s].seen))
              /\ Goto(s, [conn[s] EXCEPT !.pc = "commit", !.cand = {}])
        /\ UNCHANGED <<row, clock, told>>
  BY DEF PickTask, GiveUp
<1> DEFINE skip == [conn[s] EXCEPT !.cand = @ \ {t}]
           end == [conn[s] EXCEPT !.pc = "commit", !.cand = {}]
           r == IF draft[t].count >= MaxAttempts
                THEN GiveUp(draft[t]) ELSE Grant(draft[t], conn[s].seen)
<1>2. /\ conn[s] \in Conn /\ Fit(conn[s], clock) /\ conn[s].cand \in SUBSET TaskId
      /\ t \in TaskId /\ conn[s].seen \in Int
  BY ConnFits DEF Conn
<1>3. /\ skip \in Conn /\ skip.pc = "pick" /\ skip.op = conn[s].op /\ skip.seen = conn[s].seen
      /\ end \in Conn /\ end.pc = "commit" /\ end.op = conn[s].op /\ end.seen = conn[s].seen
  BY <1>1, <1>2 DEF Conn
<1>4. Goto(s, [conn[s] EXCEPT !.cand = @ \ {t}]) = Goto(s, skip)
      /\ Goto(s, [conn[s] EXCEPT !.pc = "commit", !.cand = {}]) = Goto(s, end)
  OBVIOUS
<1> HIDE DEF skip, end
<1>5. /\ Fit(skip, clock) /\ \A l, d : Owns(s, skip, l, d)
      /\ Fit(end, clock) /\ \A l, d : Owns(s, end, l, d)
  BY <1>1, <1>2, <1>3 DEF Fit, Owns
<1>6. \A u \in TaskId : lock[u] = s => Scanned(row[u], draft[u], clock)
  BY <1>1 DEF PgInv, Locks, Holding
<1>7. \A u \in TaskId : lock[u] = s => /\ Holding(skip, row[u], draft[u], clock)
                                       /\ Holding(end, row[u], draft[u], clock)
  BY <1>3, <1>6 DEF Holding, Written
<1>8. Good(draft[t]) /\ draft[t] \in TaskRow
  BY <1>2, DraftWritten DEF Good
<1>9. ASSUME Lockable(s, t) PROVE Scanned(row[t], draft[t], clock)
  BY <1>2, <1>6, <1>9 DEF Lockable, PgInv, Rows, Scanned
<1>10. CASE Goto(s, skip) /\ UNCHANGED <<lock, draft>>
  BY <1>1, <1>5, <1>7, <1>10, WorksAlone
<1>11. CASE Lockable(s, t) /\ Writes(s, t, draft[t]) /\ Goto(s, skip)
  <2>1. Holding(skip, row[t], draft[t], clock)
    BY <1>3, <1>9, <1>11 DEF Holding
  <2> QED
    BY <1>1, <1>2, <1>5, <1>7, <1>8, <1>11, <2>1, WorksOnRow
<1>12. CASE /\ Lockable(s, t) /\ StillQueued(draft[t]) /\ Writes(s, t, r) /\ Goto(s, end)
  <2>1. Taken(draft[t], r)
    BY <1>2, <1>8, <1>12 DEF Taken, TaskRow
  <2> HIDE DEF r
  <2>2. r \in TaskRow
    BY <1>8, <2>1, TakenKeeps DEF Good
  <2>3. Holding(end, row[t], r, clock)
    BY <1>3, <1>9, <1>12, <2>1 DEF Holding, Written
  <2> QED
    BY <1>1, <1>2, <1>5, <1>7, <1>12, <2>2, <2>3, WorksOnRow
<1> QED
  BY <1>1, <1>4, <1>10, <1>11, <1>12

LEMMA PickNothingStep ==
    ASSUME PgInv, NEW s \in Session, PickNothing(s)
    PROVE  PgInv'
<1> DEFINE c == [conn[s] EXCEPT !.pc = "commit"]
<1>1. conn[s] \in Conn /\ Fit(conn[s], clock) /\ conn[s].pc = "pick"
  BY ConnFits DEF PickNothing
<1>2. Goto(s, c) /\ UNCHANGED <<row, draft, lock, clock, told>>
  BY DEF PickNothing
<1>3. c \in Conn /\ c.pc = "commit" /\ c.op = conn[s].op /\ c.seen = conn[s].seen
  BY <1>1 DEF Conn
<1> HIDE DEF c
<1>4. Fit(c, clock) /\ Owns(s, c, lock, draft)
  BY <1>1, <1>3 DEF Fit, Owns
<1>5. \A t \in TaskId : lock[t] = s => Holding(c, row[t], draft[t], clock)
  BY <1>1, <1>3 DEF PgInv, Locks, Holding, Written
<1> QED
  BY <1>2, <1>4, <1>5, WorksAlone

-----------------------------------------------------------------------------
(* The steps of a heartbeat and of a submission.                           *)
LEMMA CallStep ==
    ASSUME PgInv, NEW s \in Session, NEW t \in TaskId, NEW n \in AttemptNo,
           NEW op, NEW act, NEW v, Call(s, op, t, n, act, v),
           \/ op = "heartbeat" /\ act = None /\ v = None
           \/ op = "terminal" /\ act \in {"complete", "fail"} /\ v \in Value
    PROVE  PgInv'
<1> DEFINE c == [Idle EXCEPT !.pc = "wait", !.op = op, !.task = t, !.attempt = n,
                             !.action = act, !.value = v]
<1>1. Goto(s, c) /\ UNCHANGED <<row, draft, lock, clock, told>> /\ conn[s].pc = "idle"
  BY DEF Call
<1>2. /\ c \in Conn /\ c.pc = "wait" /\ c.op = op /\ c.task = t /\ c.attempt = n
      /\ c.action = act /\ c.value = v /\ c.seen = 0
  <2>1. Idle \in Conn /\ Idle.seen = 0
    BY DEF Idle, Conn
  <2>2. /\ op \in {"heartbeat", "terminal"} /\ act \in {None, "complete", "fail"}
        /\ v \in Value \cup {None} /\ t \in 0..MaxTasks /\ n \in 0..MaxAttempts
    OBVIOUS
  <2> QED
    BY <2>1, <2>2 DEF Conn
<1> HIDE DEF c
<1>3. Fit(c, clock) /\ Owns(s, c, lock, draft)
  BY <1>2 DEF Fit, Owns, PgInv, Tables
<1>4. \A u \in TaskId : lock[u] # s
  BY <1>1 DEF PgInv, Locks, Holding
<1> QED
  BY <1>1, <1>3, <1>4, WorksAlone

(* A connection that goes on to pc with the call it is making.             *)
LEMMA Onwards ==
    ASSUME PgInv, NEW s \in Session, NEW pc \in {"check", "commit", "rollback"},
           conn[s].pc \in {"wait", "check"}
    PROVE  LET c == [conn[s] EXCEPT !.pc = pc]
           IN  /\ Fit(c, clock) /\ c.pc = pc /\ c.op = conn[s].op
               /\ c.task = conn[s].task /\ c.attempt = conn[s].attempt
               /\ c.action = conn[s].action /\ c.value = conn[s].value
               /\ conn[s].task \in TaskId /\ conn[s].attempt \in AttemptNo
<1> DEFINE c == [conn[s] EXCEPT !.pc = pc]
<1>1. conn[s] \in Conn /\ Fit(conn[s], clock)
  BY ConnFits
<1>2. /\ c \in Conn /\ c.pc = pc /\ c.op = conn[s].op /\ c.seen = conn[s].seen
      /\ c.task = conn[s].task /\ c.attempt = conn[s].attempt
      /\ c.action = conn[s].action /\ c.value = conn[s].value
  BY <1>1 DEF Conn
<1> HIDE DEF c
<1>3. Fit(c, clock) /\ conn[s].task \in TaskId /\ conn[s].attempt \in AttemptNo
  BY <1>1, <1>2 DEF Fit
<1> QED
  BY <1>2, <1>3 DEF c

LEMMA LockTaskStep ==
    ASSUME PgInv, NEW s \in Session, LockTask(s)
    PROVE  PgInv'
<1> DEFINE t == conn[s].task
           c == [conn[s] EXCEPT !.pc = "check"]
<1>1. /\ conn[s].pc = "wait" /\ lock[t] = Free /\ Writes(s, t, row[t]) /\ Goto(s, c)
      /\ UNCHANGED <<row, clock, told>>
  BY DEF LockTask
<1>2. Fit(c, clock) /\ c.pc = "check" /\ c.task = t /\ t \in TaskId
  BY <1>1, Onwards
<1> HIDE DEF t, c
<1>3. row[t] \in TaskRow /\ Lockable(s, t) /\ Holding(c, row[t], row[t], clock)
  BY <1>1, <1>2 DEF PgInv, Tables, Lockable, Holding
<1>4. Owns(s, c, lock', draft')
  BY <1>1, <1>2 DEF Owns, Writes, PgInv, Tables
<1>5. \A u \in TaskId : lock[u] # s
  BY <1>1 DEF PgInv, Locks, Holding
<1> QED
  BY <1>1, <1>2, <1>3, <1>4, <1>5, WorksOnRow

(* A call that has the lock sees the committed row, and is the only one    *)
(* to change it.                                                           *)
LEMMA Checking ==
    ASSUME PgInv, NEW s \in Session, conn[s].pc = "check"
    PROVE  /\ \A u \in TaskId : lock[u] = s => draft[u] = row[u]
           /\ conn[s].task \in TaskId /\ conn[s].attempt \in AttemptNo
           /\ lock[conn[s].task] = s
           /\ draft[conn[s].task] = row[conn[s].task] /\ Good(row[conn[s].task])
<1>1. \A u \in TaskId : lock[u] = s => draft[u] = row[u]
  BY DEF PgInv, Locks, Holding
<1>2. /\ conn[s].task \in TaskId /\ conn[s].attempt \in AttemptNo
      /\ lock[conn[s].task] = s
  BY DEF PgInv, Fits, Fit, Owners, Owns
<1> QED
  BY <1>1, <1>2 DEF PgInv, Rows

(* The call is refused.                                                    *)
LEMMA RefusedStep ==
    ASSUME PgInv, NEW s \in Session, conn[s].pc = "check",
           Goto(s, [conn[s] EXCEPT !.pc = "rollback"]),
           UNCHANGED <<row, draft, lock, clock, told>>
    PROVE  PgInv'
<1> DEFINE c == [conn[s] EXCEPT !.pc = "rollback"]
<1>1. Fit(c, clock) /\ c.pc = "rollback"
  BY Onwards
<1>2. Goto(s, c)
  OBVIOUS
<1> HIDE DEF c
<1>3. Owns(s, c, lock, draft)
  BY <1>1 DEF Owns
<1>4. \A u \in TaskId : lock[u] = s => Holding(c, row[u], draft[u], clock)
  BY <1>1, Checking DEF Holding
<1> QED
  BY <1>1, <1>2, <1>3, <1>4, WorksAlone

LEMMA CheckHeartbeatStep ==
    ASSUME PgInv, NEW s \in Session, CheckHeartbeat(s)
    PROVE  PgInv'
<1> DEFINE t == conn[s].task
           n == conn[s].attempt
           c == [conn[s] EXCEPT !.pc = "commit"]
<1>1. /\ conn[s].pc = "check" /\ conn[s].op = "heartbeat" /\ UNCHANGED <<row, clock, told>>
      /\ \E m \in Now :
           \/ Alive(draft[t], n, m) /\ Writes(s, t, Extend(draft[t], n, m)) /\ Goto(s, c)
           \/ /\ Goto(s, [conn[s] EXCEPT !.pc = "rollback"])
              /\ UNCHANGED <<lock, draft>>
  BY DEF CheckHeartbeat, Extend
<1>2. CASE Goto(s, [conn[s] EXCEPT !.pc = "rollback"]) /\ UNCHANGED <<lock, draft>>
  BY <1>1, <1>2, RefusedStep
<1>3. ASSUME NEW m \in Now, Alive(draft[t], n, m), Writes(s, t, Extend(draft[t], n, m)),
             Goto(s, c)
      PROVE  PgInv'
  <2> DEFINE r == Extend(row[t], n, m)
  <2>1. /\ Fit(c, clock) /\ c.pc = "commit" /\ c.op = "heartbeat"
        /\ t \in TaskId /\ n \in AttemptNo /\ lock[t] = s
        /\ draft[t] = row[t] /\ Good(row[t])
        /\ \A u \in TaskId : lock[u] = s => draft[u] = row[u]
    BY <1>1, Onwards, Checking
  <2>2. m \in Int
    BY DEF Now
  <2> HIDE DEF c, t, n
  <2>3. Extended(row[t], r)
    BY <1>3, <2>1, <2>2 DEF Extended
  <2>4. r \in TaskRow
    BY <2>1, <2>3, ExtendedKeeps DEF Good
  <2>5. Writes(s, t, r) /\ Lockable(s, t)
    BY <1>3, <2>1 DEF Lockable
  <2> HIDE DEF r
  <2>6. /\ Holding(c, row[t], r, clock) /\ Owns(s, c, lock', draft')
        /\ \A u \in TaskId : lock[u] = s => Holding(c, row[u], draft[u], clock)
    BY <2>1, <2>3 DEF Holding, Written, Scanned, Owns
  <2> QED
    BY <1>1, <1>3, <2>1, <2>4, <2>5, <2>6, WorksOnRow
<1> QED
  BY <1>1, <1>2, <1>3

LEMMA CheckTerminalStep ==
    ASSUME PgInv, NEW s \in Session, CheckTerminal(s)
    PROVE  PgInv'
<1> DEFINE t == conn[s].task
           n == conn[s].attempt
           act == conn[s].action
           v == conn[s].value
           c == [conn[s] EXCEPT !.pc = "commit"]
<1>1. /\ conn[s].pc = "check" /\ conn[s].op = "terminal" /\ UNCHANGED <<row, clock, told>>
      /\ \E m \in Now :
           \/ Repeated(draft[t], n, act, v) /\ Goto(s, c) /\ UNCHANGED <<lock, draft>>
           \/ Alive(draft[t], n, m) /\ Writes(s, t, Result(draft[t], n, act, v)) /\ Goto(s, c)
           \/ /\ Goto(s, [conn[s] EXCEPT !.pc = "rollback"])
              /\ UNCHANGED <<lock, draft>>
  BY DEF CheckTerminal
<1>2. /\ Fit(c, clock) /\ c.pc = "commit" /\ c.op = "terminal"
      /\ c.task = t /\ c.attempt = n /\ c.action = act /\ c.value = v
      /\ t \in TaskId /\ n \in AttemptNo /\ lock[t] = s
      /\ draft[t] = row[t] /\ Good(row[t])
      /\ \A u \in TaskId : lock[u] = s => draft[u] = row[u]
  BY <1>1, Onwards, Checking
<1>3. act \in {"complete", "fail"} /\ v \in Value
  BY <1>1 DEF PgInv, Fits, Fit
<1>4. CASE Goto(s, [conn[s] EXCEPT !.pc = "rollback"]) /\ UNCHANGED <<lock, draft>>
  BY <1>1, <1>4, RefusedStep
<1> HIDE DEF c, t, n, act, v
<1>5. \A u \in TaskId : lock[u] = s => Holding(c, row[u], draft[u], clock)
  BY <1>2 DEF Holding, Written, Scanned
<1>6. CASE Repeated(draft[t], n, act, v) /\ Goto(s, c) /\ UNCHANGED <<lock, draft>>
  <2>1. Says(draft[t], c)
    BY <1>2, <1>3, <1>6 DEF Repeated, Good, Says
  <2>2. Owns(s, c, lock, draft)
    BY <1>2, <2>1 DEF Owns
  <2> QED
    BY <1>1, <1>2, <1>5, <1>6, <2>2, WorksAlone
<1>7. ASSUME NEW m \in Now, Alive(draft[t], n, m),
             Writes(s, t, Result(draft[t], n, act, v)), Goto(s, c)
      PROVE  PgInv'
  <2> DEFINE r == Result(row[t], n, act, v)
  <2>1. m \in Int
    BY DEF Now
  <2>2. Answered(row[t], r)
    BY <1>2, <1>3, <1>7, <2>1 DEF Answered
  <2>3. r \in TaskRow
    BY <1>2, <2>2, AnsweredKeeps DEF Good
  <2>4. Says(r, c)
    BY <1>2, <1>3, ResultDoes DEF Says
  <2>5. Writes(s, t, r) /\ Lockable(s, t)
    BY <1>2, <1>7 DEF Lockable
  <2> HIDE DEF r
  <2>6. lock'[t] = s /\ draft'[t] = r
    BY <1>2, <2>5 DEF Writes, PgInv, Tables
  <2>7. Holding(c, row[t], r, clock) /\ Owns(s, c, lock', draft')
    BY <1>2, <2>2, <2>4, <2>6 DEF Holding, Written, Owns
  <2> QED
    BY <1>1, <1>2, <1>5, <1>7, <2>3, <2>5, <2>7, WorksOnRow
<1> QED
  BY <1>1, <1>4, <1>6, <1>7

-----------------------------------------------------------------------------
(* The end of a transaction, and the steps outside of them.                *)
LEMMA CommitStep ==
    ASSUME PgInv, NEW s \in Session, Commit(s)
    PROVE  PgInv'
<1>1. /\ row' = [t \in TaskId |-> IF lock[t] = s THEN draft[t] ELSE row[t]]
      /\ draft' = draft /\ UNCHANGED clock /\ Unlock(s) /\ Goto(s, Idle)
      /\ conn[s].pc = "commit"
  BY DEF Commit
<1>2. /\ row' \in [TaskId -> TaskRow] /\ draft' \in [TaskId -> TaskRow]
      /\ \A t \in TaskId : IF lock[t] = s THEN row'[t] = draft[t] ELSE row'[t] = row[t]
  BY <1>1 DEF PgInv, Tables
<1>3. \A t \in TaskId :
        IF lock[t] = s THEN Good(row'[t]) /\ draft'[t] = row'[t]
                       ELSE row'[t] = row[t] /\ draft'[t] = draft[t]
  BY <1>1, <1>2, DraftWritten
<1>4. ASSUME NEW x \in told' PROVE x \in Submission /\ Says(row'[x.task], x)
  <2>1. CASE x \in told
    <3>1. x \in Submission /\ Says(row[x.task], x) /\ x.task \in TaskId
      BY <2>1 DEF PgInv, Kept, Submission
    <3>2. Settled(row[x.task])
      BY <3>1 DEF Says, Settled
    <3>3. row'[x.task] = row[x.task]
      BY <1>2, <3>1, <3>2, SettledStays
    <3> QED
      BY <3>1, <3>3
  <2>2. CASE x \notin told
    <3>1. /\ conn[s].op = "terminal"
          /\ x = [task |-> conn[s].task, attempt |-> conn[s].attempt,
                  action |-> conn[s].action, value |-> conn[s].value]
      BY <2>2, <1>4 DEF Commit
    <3>2. /\ conn[s].task \in TaskId /\ conn[s].attempt \in AttemptNo
          /\ conn[s].action \in {"complete", "fail"} /\ conn[s].value \in Value
          /\ lock[conn[s].task] = s /\ Says(draft[conn[s].task], conn[s])
      BY <1>1, <3>1 DEF PgInv, Fits, Fit, Owners, Owns
    <3>3. row'[conn[s].task] = draft[conn[s].task]
      BY <1>2, <3>2
    <3> QED
      BY <3>1, <3>2, <3>3 DEF Submission, Says
  <2> QED
    BY <2>1, <2>2
<1>5. Kept'
  BY <1>4 DEF Kept
<1> QED
  BY <1>1, <1>2, <1>3, <1>5, Releases

LEMMA UndoStep ==
    ASSUME PgInv, NEW s \in Session, Undo(s)
    PROVE  PgInv'
<1>1. /\ draft' = [t \in TaskId |-> IF lock[t] = s THEN row[t] ELSE draft[t]]
      /\ UNCHANGED <<row, clock, told>> /\ Unlock(s) /\ Goto(s, Idle)
  BY DEF Undo
<1>2. /\ row' \in [TaskId -> TaskRow] /\ draft' \in [TaskId -> TaskRow]
      /\ \A t \in TaskId : IF lock[t] = s THEN Good(row'[t]) /\ draft'[t] = row'[t]
                           ELSE row'[t] = row[t] /\ draft'[t] = draft[t]
  BY <1>1 DEF PgInv, Tables, Rows
<1>3. Kept'
  BY <1>1 DEF PgInv, Kept
<1> QED
  BY <1>1, <1>2, <1>3, Releases
LEMMA CreateStep ==
    ASSUME PgInv, NEW t \in TaskId, Create(t)
    PROVE  /\ PgInv'
           /\ \A u \in TaskId \ {t} : row'[u] = row[u]
           /\ row[t].status = "absent" /\ Good(row[t])
           /\ row'[t].status = "queued" /\ row'[t].count = 0
           /\ row'[t].output = None /\ row'[t].error = None /\ row'[t].att = row[t].att
<1> DEFINE new == [row[t] EXCEPT !.status = "queued"]
<1>1. /\ row[t].status = "absent" /\ Good(row[t]) /\ row[t] \in TaskRow /\ draft[t] = row[t]
      /\ UNCHANGED <<lock, conn, clock, told>>
  BY SettledStays DEF Create, PgInv, Rows, Tables
<1>2. /\ row[t].count = 0 /\ row[t].output = None /\ row[t].error = None
      /\ \A n \in AttemptNo : row[t].att[n].outcome = "none"
  BY <1>1 DEF Good
<1>3. /\ new \in TaskRow /\ new.status = "queued" /\ new.count = 0
      /\ new.output = None /\ new.error = None /\ new.att = row[t].att
  BY <1>1, <1>2 DEF TaskRow
<1>4. /\ row' = [row EXCEPT ![t] = new] /\ draft' = [draft EXCEPT ![t] = new]
      /\ row \in [TaskId -> TaskRow] /\ draft \in [TaskId -> TaskRow]
  BY <1>1 DEF Create, PgInv, Tables
<1> HIDE DEF new
<1>5. Good(new)
  BY <1>2, <1>3 DEF Good
<1>6. /\ row' \in [TaskId -> TaskRow] /\ draft' \in [TaskId -> TaskRow]
      /\ row'[t] = new /\ draft'[t] = new
      /\ \A u \in TaskId \ {t} : row'[u] = row[u] /\ draft'[u] = draft[u]
  BY <1>3, <1>4
<1>7. Tables'
  BY <1>1, <1>6 DEF PgInv, Tables
<1>8. Rows'
  <2> SUFFICES ASSUME NEW u \in TaskId
               PROVE  Good(row'[u]) /\ (lock[u] = Free => draft'[u] = row'[u])
    BY <1>1 DEF Rows
  <2>1. CASE u = t
    BY <1>5, <1>6, <2>1
  <2>2. CASE u # t
    BY <1>6, <2>2 DEF PgInv, Rows
  <2> QED
    BY <2>1, <2>2
<1>9. Fits'
  BY <1>1 DEF PgInv, Fits
<1>10. Locks'
  <2> SUFFICES ASSUME NEW s \in Session, NEW u \in TaskId, lock[u] = s
               PROVE  Holding(conn[s], row'[u], draft'[u], clock)
    BY <1>1 DEF Locks
  <2>1. Holding(conn[s], row[u], draft[u], clock)
    BY DEF PgInv, Locks
  <2>2. CASE u = t
    BY <1>6, <2>1, <2>2 DEF Holding, Written, Scanned
  <2>3. CASE u # t
    BY <1>6, <2>1, <2>3
  <2> QED
    BY <2>2, <2>3
<1>11. Owners'
  <2> SUFFICES ASSUME NEW s \in Session PROVE Owns(s, conn[s], lock, draft')
    BY <1>1 DEF Owners
  <2>1. Owns(s, conn[s], lock, draft) /\ Fit(conn[s], clock)
    BY DEF PgInv, Owners, Fits
  <2>2. ASSUME conn[s].pc = "commit", conn[s].op = "terminal"
        PROVE  draft'[conn[s].task] = draft[conn[s].task]
    <3>1. conn[s].task \in TaskId /\ Says(draft[conn[s].task], conn[s])
      BY <2>1, <2>2 DEF Owns, Fit
    <3>2. conn[s].task # t
      BY <1>1, <3>1 DEF Says
    <3> QED
      BY <1>6, <3>1, <3>2
  <2> QED
    BY <2>1, <2>2 DEF Owns
<1>12. Kept'
  <2> SUFFICES ASSUME NEW x \in told PROVE x \in Submission /\ Says(row'[x.task], x)
    BY <1>1 DEF Kept
  <2>1. x \in Submission /\ Says(row[x.task], x) /\ x.task \in TaskId
    BY DEF PgInv, Kept, Submission
  <2>2. x.task # t
    BY <1>1, <2>1 DEF Says
  <2> QED
    BY <1>6, <2>1, <2>2
<1> QED
  BY <1>1, <1>3, <1>6, <1>7, <1>8, <1>9, <1>10, <1>11, <1>12 DEF PgInv

LEMMA TickStep ==
    ASSUME PgInv, Tick
    PROVE  PgInv'
<1>1. /\ clock' = clock + 1 /\ clock' \in 0..MaxTime /\ clock \in Int
      /\ UNCHANGED <<row, draft, lock, conn, told>>
  BY DEF Tick, PgInv, Tables
<1>2. Tables' /\ Rows' /\ Owners' /\ Kept'
  BY <1>1 DEF PgInv, Tables, Rows, Owners, Kept
<1>3. Fits'
  <2> SUFFICES ASSUME NEW s \in Session PROVE Fit(conn[s], clock + 1)
    BY <1>1 DEF Fits
  <2>1. Fit(conn[s], clock) /\ conn[s].seen \in Int
    BY DEF PgInv, Fits, Fit, Conn
  <2> QED
    BY <1>1, <2>1 DEF Fit
<1>4. Locks'
  <2> SUFFICES ASSUME NEW s \in Session, NEW t \in TaskId, lock[t] = s
               PROVE  Holding(conn[s], row[t], draft[t], clock + 1)
    BY <1>1 DEF Locks
  <2>1. Holding(conn[s], row[t], draft[t], clock) /\ Good(row[t])
    BY DEF PgInv, Locks, Rows
  <2> QED
    BY <1>1, <2>1, WrittenStays DEF Holding
<1> QED
  BY <1>2, <1>3, <1>4 DEF PgInv

-----------------------------------------------------------------------------
(* The invariant holds at first ...                                        *)
LEMMA PgInvInit == PgInit => PgInv
<1> SUFFICES ASSUME PgInit PROVE PgInv
  OBVIOUS
<1>1. NoAttempt \in AttRow /\ NoAttempt.outcome = "none"
  BY DEF NoAttempt, AttRow
<1>2. /\ NoRow \in TaskRow /\ NoRow.status = "absent" /\ NoRow.count = 0
      /\ NoRow.output = None /\ NoRow.error = None
      /\ \A n \in AttemptNo : NoRow.att[n].outcome = "none"
  BY <1>1 DEF NoRow, TaskRow
<1>3. Good(NoRow)
  BY <1>2 DEF Good
<1>4. Idle \in Conn /\ Idle.pc = "idle" /\ Idle.op = "none" /\ Idle.seen = 0
  BY DEF Idle, Conn
<1>5. Fit(Idle, 0)
  BY <1>4 DEF Fit
<1>6. Tables
  BY <1>2, <1>4 DEF PgInit, Tables
<1>7. Rows /\ Fits /\ Owners
  BY <1>3, <1>4, <1>5 DEF PgInit, Rows, Fits, Owners, Owns
<1>8. Locks /\ Kept
  BY DEF PgInit, Locks, Kept
<1> QED
  BY <1>6, <1>7, <1>8 DEF PgInv

(* ... and is kept by every step.                                          *)
LEMMA PgInvStep == PgInv /\ [PgNext]_pgvars => PgInv'
<1> SUFFICES ASSUME PgInv, [PgNext]_pgvars PROVE PgInv'
  OBVIOUS
<1>1. CASE UNCHANGED pgvars
  BY <1>1 DEF pgvars, PgInv, Tables, Rows, Fits, Locks, Owners, Kept
<1>2. CASE \E t \in TaskId : Create(t)
  BY <1>2, CreateStep
<1>3. CASE \E s \in Session, op \in {"claim", "recover"} : Begin(s, op)
  BY <1>3, BeginStep
<1>4. CASE \E s \in Session, t \in TaskId, n \in AttemptNo :
             \/ Call(s, "heartbeat", t, n, None, None)
             \/ \E act \in {"complete", "fail"}, v \in Value : Call(s, "terminal", t, n, act, v)
  BY <1>4, CallStep
<1>5. ASSUME NEW s \in Session, Proceed(s) PROVE PgInv'
  BY <1>5, ScanStep, RecoverOneStep, RecoverDoneStep, PickTaskStep, PickNothingStep,
     LockTaskStep, CheckHeartbeatStep, CheckTerminalStep, CommitStep, UndoStep
     DEF Proceed, Rollback
<1>6. CASE \E s \in Session : Crash(s)
  BY <1>6, UndoStep DEF Crash
<1>7. CASE Tick
  BY <1>7, TickStep
<1> QED
  BY <1>1, <1>2, <1>3, <1>4, <1>5, <1>6, <1>7 DEF PgNext

(* The inductive invariant, for any number of sessions and tasks.          *)
THEOREM PgInvariant == PgSpec => []PgInv
BY PgInvInit, PgInvStep, PTL DEF PgSpec

(* Rows differ from their drafts only under a lock, an idle session holds  *)
(* none, and the committed rows of a task and its attempts agree.          *)
THEOREM PgTyped == PgSpec => []PgTypeOK
<1>1. PgInv => PgTypeOK
  <2> SUFFICES ASSUME PgInv PROVE PgTypeOK
    OBVIOUS
  <2>1. clock \in 0..MaxTime /\ lock \in [TaskId -> Session \cup {Free}]
    BY DEF PgInv, Tables
  <2>2. ASSUME NEW t \in TaskId
        PROVE  /\ row[t].count \in 0..MaxAttempts /\ draft[t].count \in 0..MaxAttempts
               /\ lock[t] = Free => draft[t] = row[t]
    BY DraftWritten DEF PgInv, Rows, Good, TaskRow
  <2>3. ASSUME NEW s \in Session, conn[s].pc = "idle"
        PROVE  conn[s] = Idle /\ Held(s) = {}
    BY <2>3 DEF PgInv, Fits, Fit, Locks, Holding, Held
  <2>4. ASSUME NEW t \in TaskId, NEW n \in AttemptNo
        PROVE  /\ n > row[t].count <=> row[t].att[n].outcome = "none"
               /\ row[t].att[n].outcome = "processing"
                  <=> row[t].status = "processing" /\ n = row[t].count
               /\ n < row[t].count => row[t].att[n].outcome = "expired"
    BY DEF PgInv, Rows, Good
  <2> QED
    BY <2>1, <2>2, <2>3, <2>4 DEF PgTypeOK
<1> QED
  BY <1>1, PgInvariant, PTL

(* Whoever was told that an answer was accepted finds it in the task.      *)
THEOREM OneAnswerHolds == PgSpec => []OneAnswer
<1>1. PgInv => OneAnswer
  BY DEF PgInv, Kept, Says, OneAnswer
<1> QED
  BY <1>1, PgInvariant, PTL

-----------------------------------------------------------------------------
(* How the committed row of a task changes in a step: it is born, stays,   *)
(* or is replaced by what the transaction that holds its lock has written. *)
LEMMA RowSteps ==
    ASSUME PgInv, [PgNext]_pgvars, NEW t \in TaskId
    PROVE  \/ row'[t] = row[t]
           \/ Create(t)
           \/ row'[t] = draft[t]
<1>1. CASE \E u \in TaskId : Create(u)
  BY <1>1, CreateStep
<1>2. ASSUME NEW s \in Session, Commit(s) PROVE row'[t] \in {row[t], draft[t]}
  BY <1>2 DEF Commit
<1>3. CASE UNCHANGED row
  BY <1>3
<1>4. ASSUME NEW s \in Session, Proceed(s) PROVE Commit(s) \/ UNCHANGED row
  BY <1>4 DEF Proceed, Scan, RecoverOne, RecoverDone, PickTask, PickNothing, LockTask,
              CheckHeartbeat, CheckTerminal, Rollback, Undo
<1>5. \/ \E u \in TaskId : Create(u)
      \/ \E s \in Session : Proceed(s)
      \/ UNCHANGED row
  BY DEF PgNext, pgvars, Begin, Call, Crash, Undo, Tick
<1> QED
  BY <1>1, <1>2, <1>3, <1>4, <1>5

(* Recovery takes no claim whose lease, as committed, may still be running *)
(* by the clock of some replica.                                           *)
THEOREM OnlyExpiredHolds == PgSpec => OnlyExpiredIsTaken
<1> DEFINE Takes == \A t \in TaskId, n \in AttemptNo :
                      (row[t].att[n].outcome = "processing" /\ row'[t].att[n].outcome = "expired")
                      => row[t].att[n].expires <= clock + Skew
<1>1. PgInv /\ [PgNext]_pgvars => [Takes]_pgvars
  <2> SUFFICES ASSUME PgInv, [PgNext]_pgvars, NEW t \in TaskId, NEW n \in AttemptNo,
                      row[t].att[n].outcome = "processing", row'[t].att[n].outcome = "expired"
               PROVE  row[t].att[n].expires <= clock + Skew
    OBVIOUS
  <2>1. row'[t] # row[t] /\ row'[t].att # row[t].att
    OBVIOUS
  <2>2. row'[t] = draft[t]
    BY <2>1, RowSteps, CreateStep
  <2> QED
    BY <2>2, DraftWritten, WrittenKeeps DEF TakesExpired, PgInv, Rows
<1>2. PgInv /\ [PgNext]_pgvars => [\A t \in TaskId, n \in AttemptNo :
         (row[t].att[n].outcome = "processing" /\ row'[t].att[n].outcome = "expired")
         => row[t].att[n].expires <= clock + Skew]_pgvars
  BY <1>1
<1> QED
  BY <1>2, PgInvariant, PTL DEF PgSpec, OnlyExpiredIsTaken

-----------------------------------------------------------------------------
(* The committed rows live as TaskLifecycle says.                          *)
LEMMA PgPromiseInit == PgInit => PgPromise!LifeInit
BY DEF PgInit, PgLife, NoRow, PgPromise!LifeInit, PgPromise!Unborn, PgPromise!Row

LEMMA PgPromiseRow ==
    ASSUME PgInv, [PgNext]_pgvars, NEW t \in TaskId
    PROVE  PgLife(t)' = PgLife(t) \/ PgPromise!LifeStep(t)
<1> DEFINE life == [u \in TaskId |-> PgLife(u)]
<1>1. life[t] = PgLife(t) /\ life'[t] = PgLife(t)'
  OBVIOUS
<1>2. CASE row'[t] = row[t]
  BY <1>2 DEF PgLife
<1>3. CASE Create(t)
  <2>1. /\ row[t].status = "absent" /\ row[t].count = 0
        /\ row[t].output = None /\ row[t].error = None
        /\ row'[t].status = "queued" /\ row'[t].count = 0
        /\ row'[t].output = None /\ row'[t].error = None
    BY <1>3, CreateStep DEF Good
  <2>2. PgLife(t) = PgPromise!Unborn /\ PgLife(t)' = PgPromise!Row("queued", 0, None, None)
    BY <2>1 DEF PgLife, PgPromise!Unborn, PgPromise!Row
  <2> QED
    BY <1>1, <2>2 DEF PgPromise!LifeStep, PgPromise!Submit
<1>4. CASE row'[t] = draft[t]
  <2>1. Moves(row[t], row'[t])
    BY <1>4, DraftWritten, WrittenKeeps DEF PgInv, Rows
  <2>2. CASE /\ row'[t].status = row[t].status /\ row'[t].count = row[t].count
             /\ row'[t].output = row[t].output /\ row'[t].error = row[t].error
    BY <2>2 DEF PgLife
  <2>3. CASE /\ row[t].status \in {"queued", "processing"} /\ row[t].count < MaxAttempts
             /\ row'[t].status = "processing" /\ row'[t].count = row[t].count + 1
             /\ row'[t].output = None /\ row'[t].error = None
    <3>1. /\ PgLife(t)' = PgPromise!Row("processing", PgLife(t).grants + 1, None, None)
          /\ PgLife(t).phase \in {"queued", "processing"} /\ PgLife(t).grants < MaxAttempts
      BY <2>3 DEF PgLife, PgPromise!Row
    <3> QED
      BY <1>1, <3>1 DEF PgPromise!LifeStep, PgPromise!Grant
  <2>4. CASE /\ row[t].status = "processing" /\ row'[t].status = "queued"
             /\ row'[t].count = row[t].count /\ row'[t].output = None /\ row'[t].error = None
    <3>1. /\ PgLife(t)' = PgPromise!Row("queued", PgLife(t).grants, None, None)
          /\ PgLife(t).phase = "processing"
      BY <2>4 DEF PgLife, PgPromise!Row
    <3> QED
      BY <1>1, <3>1 DEF PgPromise!LifeStep, PgPromise!Requeue
  <2>5. ASSUME row[t].status = "processing", row'[t].count = row[t].count, NEW v \in Value,
               \/ row'[t].status = "completed" /\ row'[t].output = v /\ row'[t].error = None
               \/ row'[t].status = "failed" /\ row'[t].output = None /\ row'[t].error = v
        PROVE  PgPromise!LifeStep(t)
    <3>1. /\ PgLife(t)' \in {PgPromise!Row("completed", PgLife(t).grants, v, None),
                             PgPromise!Row("failed", PgLife(t).grants, None, v)}
          /\ PgLife(t).phase = "processing"
      BY <2>5 DEF PgLife, PgPromise!Row
    <3> QED
      BY <1>1, <3>1 DEF PgPromise!LifeStep, PgPromise!Settle
  <2>6. CASE /\ row[t].status \in {"queued", "processing"} /\ row[t].count > 0
             /\ row'[t].count = row[t].count /\ row'[t].status = "failed"
             /\ row'[t].output = None /\ row'[t].error = Exhausted
    <3>1. /\ PgLife(t)' = PgPromise!Row("failed", PgLife(t).grants, None, Exhausted)
          /\ PgLife(t).phase \in {"queued", "processing"} /\ PgLife(t).grants > 0
      BY <2>6 DEF PgLife, PgPromise!Row
    <3> QED
      BY <1>1, <3>1 DEF PgPromise!LifeStep, PgPromise!GiveUp
  <2> QED
    BY <2>1, <2>2, <2>3, <2>4, <2>5, <2>6 DEF Moves
<1> QED
  BY <1>2, <1>3, <1>4, RowSteps

LEMMA PgPromiseStep ==
    PgInv /\ [PgNext]_pgvars => [PgPromise!LifeNext]_([t \in TaskId |-> PgLife(t)])
<1> SUFFICES ASSUME PgInv, [PgNext]_pgvars PROVE PgPromise!LifeNext
  OBVIOUS
<1> DEFINE life == [t \in TaskId |-> PgLife(t)]
<1>1. life' = [t \in TaskId |-> life'[t]]
  OBVIOUS
<1>2. ASSUME NEW t \in TaskId PROVE life'[t] = life[t] \/ PgPromise!LifeStep(t)
  BY <1>2, PgPromiseRow
<1> QED
  BY <1>1, <1>2 DEF PgPromise!LifeNext

(* With any number of replicas and any skew, a task lives in PostgreSQL as *)
(* the abstract specification, which the SQLite build keeps too, promises. *)
THEOREM PgImplements == PgSpec => PgImplementsLifecycle
BY PgPromiseInit, PgPromiseStep, PgInvariant, PTL
   DEF PgSpec, PgImplementsLifecycle, PgPromise!LifeSpec
=============================================================================
