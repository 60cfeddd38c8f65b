-------------------------- MODULE ResponderProofs --------------------------
(***************************************************************************)
(* Proofs about the intake of the incident responder, for every number of  *)
(* incidents and alerts, every length of the queue and every budget.       *)
(*                                                                         *)
(* The difficulty is status.json: two threads read it, empty it and write  *)
(* it without a lock, and what agent_runs_last_hour and open_or_attach     *)
(* find out, they find out from these files.  The invariant says where an  *)
(* incident can be, what an update in progress will leave in its file, and *)
(* what a file still tells of a run, unless an update was lost.            *)
(***************************************************************************)
EXTENDS Responder, FiniteSetTheorems, TLAPS

-----------------------------------------------------------------------------
Thread == {"server", "worker"}
State == {"open", "collecting_evidence", "agent_running", "deploying", "verifying"} \cup Decided
File == [fp : Fingerprint \cup {"none"}, state : State, opened : Nat, started : Nat,
         torn : BOOLEAN]
Update == [stage : {"none", "read", "truncate", "write"}, inc : Incident,
           state : State \cup {"same"}, started : Nat, base : File]

RunsAt == {"evidence", "agent", "decide", "deploy", "verify"}
Reports == {"report", "last report"}

WorkerState == [pc : {"idle", "dead"} \cup RunsAt \cup Reports, inc : Incident, at : Nat]

(* An update that has read its file and not written it yet.                *)
HasRead(thread) == update[thread].stage \in {"truncate", "write"}

(* Where an incident can be until the worker is through with it.           *)
Opening(i) == /\ update["server"].stage = "write" /\ update["server"].state = "open"
              /\ update["server"].inc = i
Queued(i)  == \E k \in 1..Len(queue) : queue[k] = i
Handled(i) == worker.pc \in RunsAt \cup Reports /\ worker.inc = i
Early(i)   == Opening(i) \/ Queued(i) \/ (Handled(i) /\ worker.pc \notin Reports)

(* Types, and what the threads are about to write.                         *)
Types ==
    /\ opened \subseteq Incident
    /\ file \in [Incident -> File]
    /\ queue \in Seq(Incident) /\ Len(queue) <= MaxQueue
    /\ update \in [Thread -> Update]
    /\ worker \in WorkerState
    /\ clock \in Nat \ {0}
    /\ runs \subseteq Incident \X (1..clock)

(* The states that the worker records on its way, by where it goes on.     *)
WorkerRecords(pc) == CASE pc = "evidence" -> {"collecting_evidence"}
                       [] pc = "agent"    -> {"agent_running"}
                       [] pc = "decide"   -> {"same"}
                       [] pc = "deploy"   -> {"deploying"}
                       [] pc = "verify"   -> {"verifying"}
                       [] OTHER           -> Decided

Updates ==
    /\ ~Idle("server") => /\ update["server"].state \in {"open", "same", "closed"}
                          /\ update["server"].started = Never
                          /\ update["server"].state = "open" =>
                               /\ update["server"].stage = "write"
                               /\ update["server"].base.state = "open"
                               /\ update["server"].base.started = Never
    /\ ~Idle("worker") => /\ worker.pc \in RunsAt \cup Reports
                          /\ update["worker"].inc = worker.inc
                          /\ update["worker"].state \in WorkerRecords(worker.pc)
                          /\ update["worker"].started = IF worker.pc = "agent" THEN worker.at
                                                                              ELSE Never
    /\ \A thread \in Thread : ~Idle(thread) => update[thread].inc \in opened
    /\ worker.pc = "agent" => worker.at \in 1..clock

(* The name and the time in a file are written once; times have passed.    *)
Files ==
    /\ \A i \in opened : /\ file[i].opened \in 1..clock /\ file[i].started \in 0..clock
                         /\ 1..i \subseteq opened
    /\ \A thread \in Thread :
         HasRead(thread) => /\ update[thread].base.fp = file[update[thread].inc].fp
                            /\ update[thread].base.opened = file[update[thread].inc].opened
                            /\ update[thread].base.started \in 0..clock

(* An incident is in one place at most, and in none once it is done.       *)
Places ==
    /\ \A k, l \in 1..Len(queue) : queue[k] = queue[l] => k = l
    /\ \A i \in Incident : /\ Opening(i) => ~Queued(i) /\ ~Handled(i)
                           /\ Queued(i) => ~Handled(i)
                           /\ Opening(i) \/ Queued(i) \/ Handled(i) => i \in opened
    /\ \A i \in finished : i \in opened /\ ~Opening(i) /\ ~Queued(i) /\ ~Handled(i)
    /\ \A x \in runs : /\ x[1] \in opened /\ ~Opening(x[1]) /\ ~Queued(x[1])
                       /\ Handled(x[1]) => worker.pc \notin {"evidence", "agent"}
    /\ \A x, y \in runs : x[1] = y[1] => x = y

(* As long as an incident is early, only a human can have decided it.      *)
NotDecided ==
    \A i \in Incident : Early(i) /\ i \notin closed =>
      /\ file[i].state \notin Decided
      /\ \A thread \in Thread : HasRead(thread) /\ update[thread].inc = i
                                => update[thread].base.state \notin Decided

(* Two incidents of one alert that were opened within the window.          *)
Near(i, j) == /\ i < j /\ file[i].fp = file[j].fp
              /\ file[j].opened - file[i].opened < Window

(* The older one is decided, and no update of the server brings it back.   *)
Superseded ==
    \A i, j \in opened : Near(i, j) =>
      \/ i \in finished \cup closed
      \/ /\ file[i].state \in Decided
         /\ HasRead("server") /\ update["server"].inc = i
              => update["server"].base.state \in Decided

(* The decision on an incident is in its file once the worker has written. *)
Through(i) == \/ i \in finished
              \/ Handled(i) /\ worker.pc \in Reports /\ Idle("worker")
Recorded == \A i \in Incident : Through(i) => i \in lost \/ file[i].state \in Decided

(* The start of a run is in its file from before the run on.               *)
Launched(i, s) == \/ <<i, s>> \in runs
                  \/ /\ Handled(i) /\ worker.pc = "agent" /\ worker.at = s
                     /\ Idle("worker")
Counted == \A i \in Incident, s \in Nat :
              Launched(i, s) => i \in lost \/ file[i].started = s

(* The runs of the hour before a, those with a lost update left out.       *)
InHour(ran, without, a) == {y \in ran : a - Hour < y[2] /\ y[2] <= a /\ y[1] \notin without}
WithinBudget ==
    /\ \A x \in runs : Cardinality(InHour(runs, lost, x[2])) <= Budget
    /\ worker.pc = "agent" => /\ Cardinality(InHour(runs, lost, worker.at)) < Budget
                              /\ \A y \in runs : y[2] <= worker.at

RInv == /\ Types /\ Updates /\ Files /\ Places /\ NotDecided /\ Superseded
        /\ Recorded /\ Counted /\ WithinBudget
-----------------------------------------------------------------------------
(***************************************************************************)
(* What a step does, in eleven forms: the records it leaves are named and  *)
(* known by their fields, so that no proof below looks at how they came    *)
(* about.                                                                  *)
(***************************************************************************)
rest == <<opened, file, queue, update, worker, clock, runs, closed, finished, lost>>

(* A webhook opens an incident and is about to write its file.             *)
Opens(i, f, n, u) ==
    /\ Idle("server") /\ Listable /\ Attachable(f) = {}
    /\ i \notin opened /\ 1..(i - 1) \subseteq opened
    /\ n.fp = f /\ n.state = "open" /\ n.opened = clock /\ n.started = Never
    /\ u.stage = "write" /\ u.inc = i /\ u.state = "open" /\ u.started = Never
    /\ u.base.fp = f /\ u.base.state = "open" /\ u.base.opened = clock /\ u.base.started = Never
    /\ opened' = opened \cup {i}
    /\ file' = [file EXCEPT ![i] = n]
    /\ update' = [update EXCEPT !["server"] = u]
    /\ UNCHANGED <<queue, worker, clock, runs, closed, finished, lost>>

(* A resolved alert or a close is about to read the file.                  *)
Asks(i, u) ==
    /\ Idle("server") /\ i \in opened
    /\ u.stage = "read" /\ u.inc = i /\ u.state \in {"same", "closed"} /\ u.started = Never
    /\ update' = [update EXCEPT !["server"] = u]
    /\ UNCHANGED <<opened, file, queue, worker, clock, runs, closed, finished, lost>>

Reads(thread, u) ==
    /\ update[thread].stage = "read" /\ u.stage = "truncate"
    /\ u.inc = update[thread].inc /\ u.state = update[thread].state
    /\ u.started = update[thread].started /\ u.base = file[u.inc]
    /\ update' = [update EXCEPT ![thread] = u]
    /\ UNCHANGED <<opened, file, queue, worker, clock, runs, closed, finished, lost>>

Truncates(thread, n, u) ==
    /\ update[thread].stage = "truncate" /\ u.stage = "write"
    /\ u.inc = update[thread].inc /\ u.state = update[thread].state
    /\ u.started = update[thread].started /\ u.base = update[thread].base
    /\ n.fp = file[u.inc].fp /\ n.state = file[u.inc].state
    /\ n.opened = file[u.inc].opened /\ n.started = file[u.inc].started
    /\ file' = [file EXCEPT ![u.inc] = n]
    /\ update' = [update EXCEPT ![thread] = u]
    /\ UNCHANGED <<opened, queue, worker, clock, runs, closed, finished, lost>>

Writes(thread, n) ==
    LET u == update[thread]
    IN  /\ u.stage = "write"
        /\ n.fp = u.base.fp /\ n.opened = u.base.opened
        /\ n.state = IF u.state = "same" THEN u.base.state ELSE u.state
        /\ n.started = IF u.started = Never THEN u.base.started ELSE u.started
        /\ file' = [file EXCEPT ![u.inc] = n]
        /\ update' = [update EXCEPT ![thread] = NoUpdate]
        /\ \/ queue' = queue
           \/ /\ thread = "server" /\ u.state = "open" /\ Len(queue) < MaxQueue
              /\ queue' = Append(queue, u.inc)
        /\ closed \subseteq closed' /\ lost \subseteq lost'
        /\ thread = "server" /\ u.state = "closed" => u.inc \in closed'
        /\ u.inc \notin lost' => /\ u.base.state = file[u.inc].state
                                 /\ u.base.started = file[u.inc].started
        /\ UNCHANGED <<opened, worker, clock, runs, finished>>

Takes(u, w) ==
    /\ worker.pc = "idle" /\ Idle("worker") /\ queue # <<>>
    /\ w.pc = "evidence" /\ w.inc = Head(queue)
    /\ u.stage = "read" /\ u.inc = Head(queue) /\ u.state = "collecting_evidence"
    /\ u.started = Never
    /\ queue' = Tail(queue) /\ worker' = w
    /\ update' = [update EXCEPT !["worker"] = u]
    /\ UNCHANGED <<opened, file, clock, runs, closed, finished, lost>>

(* The worker goes on to w.pc and records something on the way.            *)
Records(u, w) ==
    /\ worker.pc \in RunsAt \cup {"report"}
    /\ w.pc \in (RunsAt \ {"evidence"}) \cup Reports /\ w.inc = worker.inc
    /\ w.at = IF w.pc = "agent" THEN clock ELSE worker.at
    /\ u.stage = "read" /\ u.inc = worker.inc /\ u.state \in WorkerRecords(w.pc)
    /\ u.started = IF w.pc = "agent" THEN clock ELSE Never
    /\ worker.pc = "report" => w.pc \in Reports
    /\ w.pc = "agent" => /\ worker.pc = "evidence" /\ Idle("worker")
                         /\ Cardinality(RunsLastHour) < Budget
    /\ IF w.pc = "decide"
       THEN /\ worker.pc = "agent" /\ Idle("worker")
            /\ runs' = runs \cup {<<worker.inc, worker.at>>}
       ELSE runs' = runs
    /\ worker' = w
    /\ update' = [update EXCEPT !["worker"] = u]
    /\ UNCHANGED <<opened, file, queue, clock, closed, finished, lost>>

Finishes ==
    /\ worker.pc \in Reports /\ Idle("worker")
    /\ worker' = Resting
    /\ finished' = finished \cup {worker.inc}
    /\ UNCHANGED <<opened, file, queue, update, clock, runs, closed, lost>>

(* A failed request, a dead thread or a restart: updates are given up.     *)
Stops ==
    /\ \A thread \in Thread : update'[thread] \in {update[thread], NoUpdate}
    /\ \/ worker' = worker /\ update'["worker"] = update["worker"]
       \/ worker' \in {Resting, [Resting EXCEPT !.pc = "dead"]} /\ update'["worker"] = NoUpdate
    /\ update' \in [Thread -> Update]
    /\ queue' \in {queue, <<>>}
    /\ UNCHANGED <<opened, file, clock, runs, closed, finished, lost>>

Passes == /\ clock' = clock + 1
          /\ UNCHANGED <<opened, file, queue, update, worker, runs, closed, finished, lost>>

StepForm ==
    \/ UNCHANGED rest
    \/ \E i \in Incident, f \in Fingerprint, n \in File, u \in Update : Opens(i, f, n, u)
    \/ \E i \in Incident, u \in Update : Asks(i, u)
    \/ \E thread \in Thread, u \in Update : Reads(thread, u)
    \/ \E thread \in Thread, n \in File, u \in Update : Truncates(thread, n, u)
    \/ \E thread \in Thread, n \in File : Writes(thread, n)
    \/ \E u \in Update, w \in WorkerState : Takes(u, w)
    \/ \E u \in Update, w \in WorkerState : Records(u, w)
    \/ Finishes
    \/ Stops
    \/ Passes

(* The record that a call of status() starts from.                         *)
LEMMA NewFileType ==
    ASSUME NEW f \in Fingerprint \cup {"none"}, NEW now \in Nat
    PROVE  /\ NewFile(f, now) \in File
           /\ NewFile(f, now).fp = f /\ NewFile(f, now).state = "open"
           /\ NewFile(f, now).opened = now /\ NewFile(f, now).started = Never
BY DEF NewFile, File, State, Never

LEMMA NoUpdateType == NoUpdate \in Update /\ NoUpdate.stage = "none"
<1>1. 1 \in Incident
  BY ResponderAssumption DEF Incident
<1>2. NewFile("none", 0) \in File
  BY NewFileType
<1> QED
  BY <1>1, <1>2 DEF NoUpdate, Update, Never

LEMMA StatusType ==
    ASSUME NEW i \in Incident, NEW state \in State \cup {"same"}, NEW started \in Nat
    PROVE  LET u == Status(i, state, started)
           IN  /\ u \in Update
               /\ u.stage = "read" /\ u.inc = i /\ u.state = state /\ u.started = started
BY NoUpdateType DEF Status, Update

(* What an update writes: the fields it read, but for those it sets.       *)
LEMMA UpdatedType ==
    ASSUME NEW u \in Update
    PROVE  LET n == Updated(u)
           IN  /\ n \in File /\ n.fp = u.base.fp /\ n.opened = u.base.opened
               /\ n.state = IF u.state = "same" THEN u.base.state ELSE u.state
               /\ n.started = IF u.started = Never THEN u.base.started ELSE u.started
<1> DEFINE state == IF u.state = "same" THEN u.base.state ELSE u.state
           started == IF u.started = Never THEN u.base.started ELSE u.started
           n == [u.base EXCEPT !.state = state, !.started = started]
<1>1. u.base \in File /\ u.state \in State \cup {"same"} /\ u.started \in Nat
  BY DEF Update
<1>2. u.base.state \in State /\ u.base.started \in Nat
  BY <1>1 DEF File
<1>3. state \in State /\ started \in Nat
  BY <1>1, <1>2
<1>4. Updated(u) = n
  BY DEF Updated
<1> HIDE DEF state, started
<1>5. n \in File /\ n.fp = u.base.fp /\ n.opened = u.base.opened
      /\ n.state = state /\ n.started = started
  BY <1>1, <1>3 DEF File
<1> QED
  BY <1>4, <1>5 DEF state, started
-----------------------------------------------------------------------------
(* The server's steps.                                                     *)
LEMMA FireForm ==
    ASSUME Types, NEW f \in Fingerprint, Fire(f)
    PROVE  StepForm
<1>1. CASE Attach(f)
  BY <1>1 DEF Fire, Attach, StepForm, rest
<1>2. CASE Open(f)
  <2>1. PICK i \in Incident \ opened :
          /\ Attachable(f) = {} /\ 1..(i - 1) \subseteq opened
          /\ opened' = opened \cup {i}
          /\ file' = [file EXCEPT ![i] = [NewFile(f, clock) EXCEPT !.torn = TRUE]]
          /\ update' = [update EXCEPT !["server"] = [Status(i, "open", Never) EXCEPT
                           !.stage = "write", !.base = NewFile(f, clock)]]
          /\ UNCHANGED <<queue, promised>>
    BY <1>2 DEF Open
  <2> DEFINE base == NewFile(f, clock)
             asked == Status(i, "open", Never)
             n == [base EXCEPT !.torn = TRUE]
             u == [asked EXCEPT !.stage = "write", !.base = base]
  <2>2. /\ base \in File /\ base.fp = f /\ base.state = "open" /\ base.opened = clock
        /\ base.started = Never
    BY NewFileType DEF Types
  <2>3. /\ asked \in Update /\ asked.inc = i /\ asked.state = "open"
        /\ asked.started = Never
    BY StatusType DEF State, Never
  <2> HIDE DEF base, asked
  <2>4. /\ n \in File /\ n.fp = f /\ n.state = "open" /\ n.opened = clock
        /\ n.started = Never
    BY <2>2 DEF File
  <2>5. /\ u \in Update /\ u.stage = "write" /\ u.inc = i /\ u.state = "open"
        /\ u.started = Never /\ u.base = base
    BY <2>2, <2>3 DEF Update
  <2>6. /\ file' = [file EXCEPT ![i] = n]
        /\ update' = [update EXCEPT !["server"] = u]
    BY <2>1 DEF base, asked
  <2> HIDE DEF n, u
  <2>7. Opens(i, f, n, u)
    BY <1>2, <2>1, <2>2, <2>4, <2>5, <2>6 DEF Opens, Fire
  <2> QED
    BY <2>4, <2>5, <2>7 DEF StepForm
<1> QED
  BY <1>1, <1>2 DEF Fire

LEMMA AskForm ==
    ASSUME Types, NEW i \in opened, Idle("server"), NEW state \in {"same", "closed"},
           update' = [update EXCEPT !["server"] = Status(i, state, Never)],
           UNCHANGED <<opened, file, queue, worker, clock, restarts, history>>
    PROVE  StepForm
<1> DEFINE u == Status(i, state, Never)
<1>1. i \in Incident /\ state \in State \cup {"same"}
  BY DEF Types, State, Decided
<1>2. /\ u \in Update /\ u.stage = "read" /\ u.inc = i /\ u.state = state
      /\ u.started = Never
  BY <1>1, StatusType DEF Never
<1> HIDE DEF u
<1>3. Asks(i, u)
  BY <1>2 DEF Asks, u, history
<1> QED
  BY <1>1, <1>2, <1>3 DEF StepForm

(* The three stages of an update, of either thread.                        *)
LEMMA ReadForm ==
    ASSUME Types, NEW thread \in Thread, Read(thread)
    PROVE  StepForm
<1> DEFINE v == update[thread]
           u == [v EXCEPT !.stage = "truncate", !.base = file[v.inc]]
<1>1. v \in Update /\ v.stage = "read" /\ v.inc \in Incident
  BY DEF Types, Read, Update
<1>2. file[v.inc] \in File
  BY <1>1 DEF Types
<1>3. update' = [update EXCEPT ![thread] = u]
      /\ UNCHANGED <<opened, file, queue, worker, clock, runs, closed, finished, lost>>
  BY DEF Read, history
<1> HIDE DEF v
<1>4. /\ u \in Update /\ u.stage = "truncate" /\ u.inc = v.inc /\ u.state = v.state
      /\ u.started = v.started /\ u.base = file[v.inc]
  BY <1>1, <1>2 DEF Update
<1> HIDE DEF u
<1>5. Reads(thread, u)
  BY <1>1, <1>3, <1>4 DEF Reads, v
<1> QED
  BY <1>4, <1>5 DEF StepForm

LEMMA TruncateForm ==
    ASSUME Types, NEW thread \in Thread, Truncate(thread)
    PROVE  StepForm
<1> DEFINE v == update[thread]
           u == [v EXCEPT !.stage = "write"]
           n == [file[v.inc] EXCEPT !.torn = TRUE]
<1>1. v \in Update /\ v.stage = "truncate" /\ v.inc \in Incident
  BY DEF Types, Truncate, Update
<1>2. file[v.inc] \in File
  BY <1>1 DEF Types
<1>3. /\ update' = [update EXCEPT ![thread] = u]
      /\ file' = [file EXCEPT ![v.inc] = n]
      /\ UNCHANGED <<opened, queue, worker, clock, runs, closed, finished, lost>>
  BY DEF Truncate, history
<1> HIDE DEF v
<1>4. /\ u \in Update /\ u.stage = "write" /\ u.inc = v.inc /\ u.state = v.state
      /\ u.started = v.started /\ u.base = v.base
  BY <1>1 DEF Update
<1>5. /\ n \in File /\ n.fp = file[v.inc].fp /\ n.state = file[v.inc].state
      /\ n.opened = file[v.inc].opened /\ n.started = file[v.inc].started
  BY <1>2 DEF File
<1> HIDE DEF u, n
<1>6. Truncates(thread, n, u)
  BY <1>1, <1>3, <1>4, <1>5 DEF Truncates, v
<1> QED
  BY <1>4, <1>5, <1>6 DEF StepForm

LEMMA WriteForm ==
    ASSUME Types, NEW thread \in Thread, Write(thread)
    PROVE  StepForm
<1> DEFINE u == update[thread]
           n == Updated(u)
           seen == [file[u.inc] EXCEPT !.torn = FALSE] = u.base
<1>1. u \in Update /\ u.stage = "write" /\ u.inc \in Incident
  BY DEF Types, Write, Update
<1>2. /\ n \in File /\ n.fp = u.base.fp /\ n.opened = u.base.opened
      /\ n.state = IF u.state = "same" THEN u.base.state ELSE u.state
      /\ n.started = IF u.started = Never THEN u.base.started ELSE u.started
  BY <1>1, UpdatedType
<1>3. file[u.inc] \in File
  BY <1>1 DEF Types
<1>4. /\ file' = [file EXCEPT ![u.inc] = n]
      /\ update' = [update EXCEPT ![thread] = NoUpdate]
      /\ UNCHANGED <<opened, worker, clock, runs, finished>>
      /\ \/ queue' = queue
         \/ /\ thread = "server" /\ u.state = "open" /\ Len(queue) < MaxQueue
            /\ queue' = Append(queue, u.inc)
      /\ closed' = IF thread = "server" /\ u.state = "closed" THEN closed \cup {u.inc}
                                                              ELSE closed
      /\ lost' = IF ~seen THEN lost \cup {u.inc} ELSE lost
  BY DEF Write
<1>5. seen => u.base.state = file[u.inc].state /\ u.base.started = file[u.inc].started
  BY <1>3 DEF File
<1> HIDE DEF u, n, seen
<1>6. u.inc \notin lost' => /\ u.base.state = file[u.inc].state
                            /\ u.base.started = file[u.inc].started
  BY <1>4, <1>5
<1>7. Writes(thread, n)
  BY <1>1, <1>2, <1>4, <1>6 DEF Writes, u
<1> QED
  BY <1>2, <1>7 DEF StepForm

(* The worker's steps.                                                     *)
LEMMA TakeForm == ASSUME Types, Take PROVE StepForm
<1> DEFINE i == Head(queue)
           u == Status(i, "collecting_evidence", Never)
           w == [pc |-> "evidence", inc |-> i, at |-> Never]
<1>1. queue # <<>> /\ i \in Incident
  BY DEF Take, Types
<1>2. /\ u \in Update /\ u.stage = "read" /\ u.inc = i /\ u.state = "collecting_evidence"
      /\ u.started = Never
  BY <1>1, StatusType DEF State, Never
<1>3. worker' = w /\ w.pc = "evidence" /\ w.inc = i /\ w \in WorkerState
  BY <1>1 DEF Take, WorkerState, RunsAt, Never
<1>4. /\ worker.pc = "idle" /\ Idle("worker")
      /\ update' = [update EXCEPT !["worker"] = u]
      /\ queue' = Tail(queue)
      /\ UNCHANGED <<opened, file, clock, runs, closed, finished, lost>>
  BY DEF Take, At, history
<1> HIDE DEF u, w
<1>5. Takes(u, w)
  BY <1>1, <1>2, <1>3, <1>4 DEF Takes
<1> QED
  BY <1>2, <1>3, <1>5 DEF StepForm

(* Record(state, started, pc): the common part of the worker's moves.      *)
LEMMA RecordForm ==
    ASSUME Types, NEW pc \in (RunsAt \ {"evidence"}) \cup Reports,
           NEW state \in WorkerRecords(pc),
           NEW started, started = IF pc = "agent" THEN clock ELSE Never,
           Record(state, started, pc),
           worker.pc \in RunsAt \cup {"report"},
           worker.pc = "report" => pc \in Reports,
           pc = "agent" => /\ worker.pc = "evidence" /\ Idle("worker")
                           /\ Cardinality(RunsLastHour) < Budget,
           IF pc = "decide"
           THEN /\ worker.pc = "agent" /\ Idle("worker")
                /\ runs' = runs \cup {<<worker.inc, worker.at>>}
           ELSE runs' = runs,
           UNCHANGED <<opened, file, queue, clock, closed, finished, lost>>
    PROVE  StepForm
<1> DEFINE at == IF pc = "agent" THEN clock ELSE worker.at
           u == Status(worker.inc, state, started)
           w == [worker EXCEPT !.pc = pc, !.at = at]
<1>1. clock \in Nat \ {0} /\ worker.inc \in Incident /\ worker \in WorkerState
  BY DEF Types, WorkerState
<1>2. state \in State \cup {"same"} /\ started \in Nat
  <2>1. state \in State \cup {"same"}
    BY DEF WorkerRecords, RunsAt, Reports, State
  <2> QED
    BY <1>1, <2>1 DEF Never
<1>3. /\ u \in Update /\ u.stage = "read" /\ u.inc = worker.inc /\ u.state = state
      /\ u.started = started
  BY <1>1, <1>2, StatusType
<1>4. started = Never <=> pc # "agent"
  BY <1>1 DEF Never
<1>5. worker' = w /\ update' = [update EXCEPT !["worker"] = u]
  BY <1>4 DEF Record
<1>a. at \in Nat /\ pc \in RunsAt \cup Reports
  BY <1>1 DEF WorkerState
<1> HIDE DEF at
<1>6. w.pc = pc /\ w.inc = worker.inc /\ w.at = at /\ w \in WorkerState
  BY <1>1, <1>a DEF WorkerState
<1> HIDE DEF u, w
<1>7. Records(u, w)
  BY <1>3, <1>5, <1>6 DEF Records, at
<1> QED
  BY <1>3, <1>6, <1>7 DEF StepForm

LEMMA MoveForm ==
    ASSUME Types, Updates, Launch \/ RunAgent \/ Escalate \/ Progress \/ Raise
    PROVE  StepForm
<1>1. CASE Launch
  <2>1. "agent_running" \in WorkerRecords("agent")
    BY DEF WorkerRecords
  <2> QED
    BY <1>1, <2>1, RecordForm DEF Launch, At, RunsAt, Reports, history
<1>2. CASE RunAgent
  <2>1. "same" \in WorkerRecords("decide")
    BY DEF WorkerRecords
  <2> QED
    BY <1>2, <2>1, RecordForm DEF RunAgent, At, RunsAt, Reports, history
<1>3. CASE Escalate
  <2>1. "escalated" \in WorkerRecords("report")
    BY DEF WorkerRecords, Decided
  <2> QED
    BY <1>3, <2>1, RecordForm DEF Escalate, At, RunsAt, Reports, history
<1>4. CASE Progress
  <2>1. /\ "closed" \in WorkerRecords("report") /\ "resolved" \in WorkerRecords("report")
        /\ "deploying" \in WorkerRecords("deploy") /\ "verifying" \in WorkerRecords("verify")
    BY DEF WorkerRecords, Decided
  <2>2. CASE At("decide") /\ Record("closed", Never, "report")
    BY <1>4, <2>1, <2>2, RecordForm DEF Progress, At, RunsAt, Reports, history
  <2>3. CASE At("decide") /\ Record("deploying", Never, "deploy")
    BY <1>4, <2>1, <2>3, RecordForm DEF Progress, At, RunsAt, Reports, history
  <2>4. CASE At("deploy") /\ Record("verifying", Never, "verify")
    BY <1>4, <2>1, <2>4, RecordForm DEF Progress, At, RunsAt, Reports, history
  <2>5. CASE At("verify") /\ Record("resolved", Never, "report")
    BY <1>4, <2>1, <2>5, RecordForm DEF Progress, At, RunsAt, Reports, history
  <2> QED
    BY <1>4, <2>2, <2>3, <2>4, <2>5 DEF Progress
<1>5. CASE Raise
  <2>1. "escalated" \in WorkerRecords("last report")
    BY DEF WorkerRecords, Decided
  <2>2. worker.pc \in RunsAt \cup {"report"}
    <3>1. CASE ReadsEmpty /\ worker.pc # "last report"
      <4>1. update["worker"].stage = "read" => worker.pc \in RunsAt \cup Reports
        BY DEF Updates, Idle
      <4> QED
        BY <3>1, <4>1 DEF ReadsEmpty, At, RunsAt, Reports
    <3>2. CASE \E pc \in {"evidence", "agent", "decide", "deploy", "verify"} : At(pc)
      BY <3>2 DEF At, RunsAt
    <3> QED
      BY <1>5, <3>1, <3>2 DEF Raise
  <2>3. /\ Record("escalated", Never, "last report")
        /\ UNCHANGED <<opened, file, queue, clock, runs, closed, finished, lost>>
    BY <1>5 DEF Raise, history
  <2> QED
    BY <2>1, <2>2, <2>3, RecordForm DEF RunsAt, Reports
<1> QED
  BY <1>1, <1>2, <1>3, <1>4, <1>5

LEMMA StopForm ==
    ASSUME Types, ServerFails \/ Die \/ Restart
    PROVE  StepForm
<1>1. update \in [Thread -> Update] /\ NoUpdate \in Update
  BY NoUpdateType DEF Types
<1>2. CASE ServerFails
  <2>1. /\ update' = [update EXCEPT !["server"] = NoUpdate]
        /\ UNCHANGED <<opened, file, queue, worker, clock, runs, closed, finished, lost>>
    BY <1>2 DEF ServerFails, history
  <2> QED
    BY <1>1, <2>1 DEF Stops, StepForm, Thread
<1>3. CASE Die
  <2>1. /\ update' = [update EXCEPT !["worker"] = NoUpdate]
        /\ worker' = [Resting EXCEPT !.pc = "dead"]
        /\ UNCHANGED <<opened, file, queue, clock, runs, closed, finished, lost>>
    BY <1>3 DEF Die, history
  <2> QED
    BY <1>1, <2>1 DEF Stops, StepForm, Thread
<1>4. CASE Restart
  <2>1. /\ update' = [thread \in {"server", "worker"} |-> NoUpdate]
        /\ worker' = Resting /\ queue' = <<>>
        /\ UNCHANGED <<opened, file, clock, runs, closed, finished, lost>>
    BY <1>4 DEF Restart, history
  <2> QED
    BY <1>1, <2>1 DEF Stops, StepForm, Thread
<1> QED
  BY <1>2, <1>3, <1>4

(* Every step of the responder has one of the forms.                       *)
LEMMA EveryStep ==
    ASSUME Types, Updates, [RNext]_rvars
    PROVE  StepForm
<1>1. ASSUME NEW f \in Resolvable, Resolve(f) PROVE StepForm
  <2>1. PICK i \in opened : update' = [update EXCEPT !["server"] = Status(i, "same", Never)]
    BY <1>1 DEF Resolve
  <2> QED
    BY <1>1, <2>1, AskForm DEF Resolve
<1>2. ASSUME NEW i \in Closable, Close(i) PROVE StepForm
  BY <1>2, AskForm DEF Close
<1>3. ASSUME NEW thread \in {"server", "worker"}, FileStep(thread) PROVE StepForm
  BY <1>3, ReadForm, TruncateForm, WriteForm DEF FileStep, Thread
<1>4. CASE Finish
  <2>1. Finishes
    BY <1>4 DEF Finish, Finishes, At, Reports
  <2> QED
    BY <2>1 DEF StepForm
<1>5. CASE Tick
  <2>1. Passes
    BY <1>5 DEF Tick, Passes, history
  <2> QED
    BY <2>1 DEF StepForm
<1>6. CASE UNCHANGED rvars
  BY <1>6 DEF rvars, StepForm, rest
<1> QED
  BY <1>1, <1>2, <1>3, <1>4, <1>5, <1>6, FireForm, TakeForm, MoveForm, StopForm
     DEF RNext, WorkerStep
-----------------------------------------------------------------------------
(* Types.                                                                  *)
LEMMA TypesStep == ASSUME RInv, StepForm PROVE Types'
<1>0. /\ Types /\ clock \in Nat \ {0}
      /\ worker \in WorkerState
  BY DEF RInv, Types
<1>a. clock + 1 \in Nat \ {0} /\ 1..clock \subseteq 1..(clock + 1)
  BY <1>0
<1>1. CASE UNCHANGED rest
  BY <1>0, <1>1 DEF rest, Types
<1>2. ASSUME NEW i \in Incident, NEW f \in Fingerprint, NEW n \in File, NEW u \in Update,
             Opens(i, f, n, u)
      PROVE  Types'
  BY <1>0, <1>2 DEF Opens, Types
<1>3. ASSUME NEW i \in Incident, NEW u \in Update, Asks(i, u) PROVE Types'
  BY <1>0, <1>3 DEF Asks, Types
<1>4. ASSUME NEW thread \in Thread, NEW u \in Update, Reads(thread, u) PROVE Types'
  BY <1>0, <1>4 DEF Reads, Types
<1>5. ASSUME NEW thread \in Thread, NEW n \in File, NEW u \in Update, Truncates(thread, n, u)
      PROVE  Types'
  BY <1>0, <1>5 DEF Truncates, Types
<1>6. ASSUME NEW thread \in Thread, NEW n \in File, Writes(thread, n) PROVE Types'
  <2>1. update[thread] \in Update /\ update[thread].inc \in Incident
    BY <1>0 DEF Types, Update
  <2>2. queue' \in Seq(Incident) /\ Len(queue') <= MaxQueue
    BY <1>0, <1>6, <2>1, ResponderAssumption DEF Writes, Types
  <2> QED
    BY <1>0, <1>6, <2>2, NoUpdateType DEF Writes, Types
<1>7. ASSUME NEW u \in Update, NEW w \in WorkerState, Takes(u, w) PROVE Types'
  <2>1. queue' \in Seq(Incident) /\ Len(queue') <= MaxQueue
    BY <1>0, <1>7, ResponderAssumption DEF Takes, Types
  <2> QED
    BY <1>0, <1>7, <2>1 DEF Takes, Types
<1>8. ASSUME NEW u \in Update, NEW w \in WorkerState, Records(u, w) PROVE Types'
  <2>1. runs' \subseteq Incident \X (1..clock)
    BY <1>0, <1>8 DEF Records, Types, WorkerState, RInv, Updates
  <2> QED
    BY <1>0, <1>8, <2>1 DEF Records, Types
<1>9. CASE Finishes
  <2>1. Resting \in WorkerState
    BY ResponderAssumption DEF Resting, WorkerState, Incident, Never
  <2> QED
    BY <1>0, <1>9, <2>1 DEF Finishes, Types
<1>10. CASE Stops
  <2>1. Resting \in WorkerState
    BY ResponderAssumption DEF Resting, WorkerState, Incident, Never
  <2>2. [Resting EXCEPT !.pc = "dead"] \in WorkerState
    BY <2>1 DEF WorkerState
  <2>a. <<>> \in Seq(Incident) /\ Len(<<>>) <= MaxQueue
    BY ResponderAssumption
  <2>3. queue' \in Seq(Incident) /\ Len(queue') <= MaxQueue
    BY <1>0, <1>10, <2>a DEF Stops, Types
  <2> QED
    BY <1>0, <1>10, <2>1, <2>2, <2>3 DEF Stops, Types
<1>11. CASE Passes
  <2>1. Incident \X (1..clock) \subseteq Incident \X (1..(clock + 1))
    BY <1>a
  <2>2. clock' \in Nat \ {0} /\ runs' \subseteq Incident \X (1..clock')
    BY <1>0, <1>a, <1>11, <2>1 DEF Passes, Types
  <2> QED
    BY <1>0, <1>11, <2>2 DEF Passes, Types
<1> QED
  BY <1>1, <1>2, <1>3, <1>4, <1>5, <1>6, <1>7, <1>8, <1>9, <1>10, <1>11 DEF StepForm

(* The entries of update that a step leaves alone.                         *)
LEMMA OtherThread ==
    ASSUME Types, NEW thread \in Thread, NEW u, update' = [update EXCEPT ![thread] = u]
    PROVE  /\ update'[thread] = u
           /\ \A other \in Thread : other # thread => update'[other] = update[other]
BY DEF Types

(* What the threads are about to write.                                    *)
LEMMA UpdatesStep == ASSUME RInv, StepForm PROVE Updates'
<1>0. /\ Types /\ Updates /\ Places /\ clock \in Nat \ {0}
      /\ worker \in WorkerState /\ update["server"] \in Update /\ update["worker"] \in Update
      /\ "server" \in Thread /\ "worker" \in Thread
  BY DEF RInv, Types, Thread
<1>a. NoUpdate.stage = "none"
  BY NoUpdateType
<1>1. CASE UNCHANGED rest
  BY <1>0, <1>1 DEF rest, Updates, Idle, HasRead
<1>2. ASSUME NEW i \in Incident, NEW f \in Fingerprint, NEW n \in File, NEW u \in Update,
             Opens(i, f, n, u)
      PROVE  Updates'
  <2>1. update'["server"] = u /\ update'["worker"] = update["worker"]
    BY <1>0, <1>2, OtherThread DEF Opens, Thread
  <2> QED
    BY <1>0, <1>2, <2>1 DEF Opens, Updates, Idle, Thread
<1>3. ASSUME NEW i \in Incident, NEW u \in Update, Asks(i, u) PROVE Updates'
  <2>1. update'["server"] = u /\ update'["worker"] = update["worker"]
    BY <1>0, <1>3, OtherThread DEF Asks, Thread
  <2> QED
    BY <1>0, <1>3, <2>1 DEF Asks, Updates, Idle, Thread
<1>4. ASSUME NEW thread \in Thread, NEW u \in Update, Reads(thread, u) PROVE Updates'
  <2>1. update'[thread] = u /\ \A o \in Thread : o # thread => update'[o] = update[o]
    BY <1>0, <1>4, OtherThread DEF Reads
  <2> QED
    BY <1>0, <1>4, <2>1 DEF Reads, Updates, Idle, Thread
<1>5. ASSUME NEW thread \in Thread, NEW n \in File, NEW u \in Update, Truncates(thread, n, u)
      PROVE  Updates'
  <2>1. update'[thread] = u /\ \A o \in Thread : o # thread => update'[o] = update[o]
    BY <1>0, <1>5, OtherThread DEF Truncates
  <2> QED
    BY <1>0, <1>5, <2>1 DEF Truncates, Updates, Idle, Thread
<1>6. ASSUME NEW thread \in Thread, NEW n \in File, Writes(thread, n) PROVE Updates'
  <2>1. update'[thread] = NoUpdate /\ \A o \in Thread : o # thread => update'[o] = update[o]
    BY <1>0, <1>6, OtherThread DEF Writes
  <2> QED
    BY <1>0, <1>6, <1>a, <2>1 DEF Writes, Updates, Idle, Thread
<1>7. ASSUME NEW u \in Update, NEW w \in WorkerState, Takes(u, w) PROVE Updates'
  <2>1. update'["worker"] = u /\ update'["server"] = update["server"]
    BY <1>0, <1>7, OtherThread DEF Takes, Thread
  <2>2. Head(queue) \in opened
    <3>1. /\ queue \in Seq(Incident) /\ queue # <<>>
      BY <1>0, <1>7 DEF Takes, Types
    <3>2. 1 \in 1..Len(queue) /\ queue[1] = Head(queue) /\ Head(queue) \in Incident
      BY <3>1
    <3>3. Queued(Head(queue))
      BY <3>2 DEF Queued
    <3> QED
      BY <1>0, <3>2, <3>3 DEF Places
  <2>3. u.state \in WorkerRecords("evidence")
    BY <1>7 DEF Takes, WorkerRecords
  <2> QED
    BY <1>0, <1>7, <2>1, <2>2, <2>3 DEF Takes, Updates, Idle, Thread, RunsAt
<1>8. ASSUME NEW u \in Update, NEW w \in WorkerState, Records(u, w) PROVE Updates'
  <2>1. update'["worker"] = u /\ update'["server"] = update["server"]
    BY <1>0, <1>8, OtherThread DEF Records, Thread
  <2>2. worker.inc \in opened
    <3>1. worker.inc \in Incident /\ Handled(worker.inc)
      BY <1>0, <1>8 DEF WorkerState, Records, Handled, Reports
    <3> QED
      BY <1>0, <3>1 DEF Places
  <2>3. w.pc = "agent" => w.at \in 1..clock
    BY <1>0, <1>8 DEF Records
  <2> QED
    BY <1>0, <1>8, <2>1, <2>2, <2>3 DEF Records, Updates, Idle, Thread
<1>9. CASE Finishes
  <2>1. Resting.pc = "idle"
    BY DEF Resting
  <2> QED
    BY <1>0, <1>9, <2>1 DEF Finishes, Updates, Idle
<1>10. CASE Stops
  <2>1. Resting.pc = "idle" /\ [Resting EXCEPT !.pc = "dead"].pc = "dead"
    BY DEF Resting
  <2>2. worker'.pc = "agent" => worker' = worker
    BY <1>10, <2>1 DEF Stops
  <2> QED
    BY <1>0, <1>10, <1>a, <2>2 DEF Stops, Updates, Idle, Thread
<1>11. CASE Passes
  BY <1>0, <1>11 DEF Passes, Updates, Idle
<1> QED
  BY <1>1, <1>2, <1>3, <1>4, <1>5, <1>6, <1>7, <1>8, <1>9, <1>10, <1>11 DEF StepForm

(* The file of an incident after a step: new, kept but for the emptying,   *)
(* or written from what its update has read.                               *)
LEMMA FileAfter ==
    ASSUME RInv, StepForm, NEW i \in opened
    PROVE  /\ i \in opened'
           /\ file'[i].fp = file[i].fp /\ file'[i].opened = file[i].opened
           /\ \/ /\ file'[i].state = file[i].state /\ file'[i].started = file[i].started
              \/ \E thread \in Thread, n \in File :
                    /\ Writes(thread, n) /\ update[thread].inc = i /\ file'[i] = n
<1>0. /\ Types /\ Updates /\ Files /\ i \in Incident /\ file \in [Incident -> File]
  BY DEF RInv, Types
<1>1. CASE opened' = opened /\ file' = file
  BY <1>0, <1>1
<1>2. ASSUME NEW j \in Incident, NEW f \in Fingerprint, NEW n \in File, NEW u \in Update,
             Opens(j, f, n, u)
      PROVE  opened \subseteq opened' /\ file'[i] = file[i]
  BY <1>0, <1>2 DEF Opens
<1>3. ASSUME NEW thread \in Thread, NEW n \in File, NEW u \in Update, Truncates(thread, n, u)
      PROVE  /\ opened' = opened
             /\ file'[i].fp = file[i].fp /\ file'[i].opened = file[i].opened
             /\ file'[i].state = file[i].state /\ file'[i].started = file[i].started
  BY <1>0, <1>3 DEF Truncates
<1>4. ASSUME NEW thread \in Thread, NEW n \in File, Writes(thread, n)
      PROVE  /\ opened' = opened
             /\ file'[i].fp = file[i].fp /\ file'[i].opened = file[i].opened
             /\ \/ file'[i] = file[i]
                \/ update[thread].inc = i /\ file'[i] = n
  <2>1. HasRead(thread)
    BY <1>4 DEF Writes, HasRead
  <2> QED
    BY <1>0, <1>4, <2>1 DEF Writes, Files
<1> QED
  BY <1>1, <1>2, <1>3, <1>4
     DEF StepForm, rest, Asks, Reads, Takes, Records, Finishes, Stops, Passes

(* The entry of a thread after a step, and what it has read by then.       *)
LEMMA EntryAfter ==
    ASSUME RInv, StepForm, NEW thread \in Thread
    PROVE  \/ update'[thread] = update[thread]
           \/ update'[thread].stage \in {"none", "read"}
           \/ thread = "server" /\ \E i \in Incident, f \in Fingerprint, n \in File, u \in Update :
                                      Opens(i, f, n, u)
           \/ \E u \in Update : Reads(thread, u)
           \/ \E n \in File, u \in Update : Truncates(thread, n, u)
<1>0. Types /\ update \in [Thread -> Update]
  BY DEF RInv, Types
<1>1. NoUpdate.stage = "none"
  BY NoUpdateType
<1>2. CASE UNCHANGED rest \/ Finishes \/ Stops \/ Passes
  BY <1>1, <1>2 DEF rest, Finishes, Stops, Passes
<1>3. ASSUME NEW i \in Incident, NEW f \in Fingerprint, NEW n \in File, NEW u \in Update,
             Opens(i, f, n, u), thread # "server"
      PROVE  update'[thread] = update[thread]
  BY <1>0, <1>3 DEF Opens
<1>4. ASSUME NEW o \in Thread, NEW u \in Update, Reads(o, u), thread # o
      PROVE  update'[thread] = update[thread]
  BY <1>0, <1>4 DEF Reads
<1>5. ASSUME NEW o \in Thread, NEW n \in File, NEW u \in Update, Truncates(o, n, u),
             thread # o
      PROVE  update'[thread] = update[thread]
  BY <1>0, <1>5 DEF Truncates
<1>6. ASSUME NEW o \in Thread, NEW n \in File, Writes(o, n)
      PROVE  update'[thread] \in {update[thread], NoUpdate}
  BY <1>0, <1>6 DEF Writes
<1>7. ASSUME NEW i \in Incident, NEW u \in Update, Asks(i, u)
      PROVE  update'[thread] = update[thread] \/ update'[thread].stage = "read"
  BY <1>0, <1>7 DEF Asks
<1>8. ASSUME NEW u \in Update, NEW w \in WorkerState, Takes(u, w) \/ Records(u, w)
      PROVE  update'[thread] = update[thread] \/ update'[thread].stage = "read"
  BY <1>0, <1>8 DEF Takes, Records
<1> QED
  BY <1>1, <1>2, <1>3, <1>4, <1>5, <1>6, <1>7, <1>8 DEF StepForm

LEMMA BaseAfter ==
    ASSUME RInv, StepForm, NEW thread \in Thread, HasRead(thread)'
    PROVE  \/ /\ HasRead(thread)
              /\ update'[thread].inc = update[thread].inc
              /\ update'[thread].base = update[thread].base
           \/ /\ ~Idle(thread) /\ update'[thread].inc = update[thread].inc
              /\ update'[thread].base = file[update[thread].inc]
              /\ file' = file /\ closed' = closed
           \/ /\ thread = "server"
              /\ \E i \in Incident, f \in Fingerprint, n \in File, u \in Update :
                    Opens(i, f, n, u)
<1>0. Types /\ update \in [Thread -> Update]
  BY DEF RInv, Types
<1>1. ASSUME NEW u \in Update, Reads(thread, u)
      PROVE  /\ ~Idle(thread) /\ update'[thread].inc = update[thread].inc
             /\ update'[thread].base = file[update[thread].inc]
             /\ file' = file /\ closed' = closed
  BY <1>0, <1>1 DEF Reads, Idle
<1>2. ASSUME NEW n \in File, NEW u \in Update, Truncates(thread, n, u)
      PROVE  /\ HasRead(thread) /\ update'[thread].inc = update[thread].inc
             /\ update'[thread].base = update[thread].base
  BY <1>0, <1>2 DEF Truncates, HasRead
<1> QED
  BY <1>1, <1>2, EntryAfter DEF HasRead

(* Names and times in the files.                                           *)
LEMMA FilesStep == ASSUME RInv, StepForm PROVE Files'
<1>0. /\ Types /\ Updates /\ Files /\ Types' /\ clock \in Nat \ {0} /\ clock' \in Nat \ {0}
      /\ opened \subseteq Incident /\ file \in [Incident -> File]
      /\ update \in [Thread -> Update]
  BY TypesStep DEF RInv, Types
<1>a. clock <= clock' /\ opened \subseteq opened'
  BY <1>0 DEF StepForm, rest, Opens, Asks, Reads, Truncates, Writes, Takes, Records, Finishes,
              Stops, Passes
<1>b. \A thread \in Thread :
        /\ ~Idle(thread) => update[thread].inc \in opened
        /\ HasRead(thread) => ~Idle(thread)
  BY <1>0 DEF Updates, HasRead, Idle
<1>1. ASSUME NEW i \in opened'
      PROVE  /\ file'[i].opened \in 1..clock' /\ file'[i].started \in 0..clock'
             /\ 1..i \subseteq opened'
  <2>1. CASE i \in opened
    <3>1. /\ file[i].opened \in 1..clock /\ file[i].started \in 0..clock
          /\ 1..i \subseteq opened
      BY <1>0, <2>1 DEF Files
    <3>2. ASSUME NEW thread \in Thread, NEW n \in File, Writes(thread, n)
          PROVE  n.started \in 0..clock
      <4>1. HasRead(thread) /\ ~Idle(thread)
        BY <3>2 DEF Writes, HasRead, Idle
      <4>2. update[thread].base.started \in 0..clock
        BY <1>0, <4>1 DEF Files
      <4>3. update[thread].started \in {0, worker.at}
            /\ (update[thread].started # 0 => worker.at \in 1..clock)
        BY <1>0, <4>1 DEF Updates, Thread, Never
      <4>4. update[thread].started \in 0..clock
        BY <1>0, <4>3
      <4> QED
        BY <3>2, <4>2, <4>4 DEF Writes
    <3> QED
      BY <1>0, <1>a, <2>1, <3>1, <3>2, FileAfter DEF RInv
  <2>2. CASE i \notin opened
    <3>1. PICK f \in Fingerprint, n \in File, u \in Update : Opens(i, f, n, u)
      BY <2>2 DEF StepForm, rest, Opens, Asks, Reads, Truncates, Writes, Takes, Records,
                  Finishes, Stops, Passes
    <3>2. file'[i] = n /\ i \in Incident
      BY <1>0, <2>2, <3>1 DEF Opens, Types
    <3>3. 1..i \subseteq opened'
      BY <3>1, <3>2 DEF Opens, Incident
    <3> QED
      BY <1>0, <3>1, <3>2, <3>3 DEF Opens, Never
  <2> QED
    BY <2>1, <2>2
<1>2. ASSUME NEW thread \in Thread, HasRead(thread)'
      PROVE  /\ update'[thread].base.fp = file'[update'[thread].inc].fp
             /\ update'[thread].base.opened = file'[update'[thread].inc].opened
             /\ update'[thread].base.started \in 0..clock'
  <2> DEFINE Good == /\ update'[thread].base.fp = file'[update'[thread].inc].fp
                     /\ update'[thread].base.opened = file'[update'[thread].inc].opened
                     /\ update'[thread].base.started \in 0..clock'
  <2>1. ASSUME HasRead(thread), update'[thread].inc = update[thread].inc,
               update'[thread].base = update[thread].base
        PROVE  Good
    <3>1. update[thread].inc \in opened
      BY <1>b, <2>1
    <3>2. /\ file'[update[thread].inc].fp = file[update[thread].inc].fp
          /\ file'[update[thread].inc].opened = file[update[thread].inc].opened
      BY <3>1, FileAfter
    <3>3. /\ update[thread].base.fp = file[update[thread].inc].fp
          /\ update[thread].base.opened = file[update[thread].inc].opened
          /\ update[thread].base.started \in 0..clock
      BY <1>0, <2>1 DEF Files
    <3> QED
      BY <1>0, <1>a, <2>1, <3>2, <3>3
  <2>2. ASSUME NEW i \in Incident, NEW f \in Fingerprint, NEW n \in File, NEW u \in Update,
               Opens(i, f, n, u), thread = "server"
        PROVE  Good
    <3>1. update'[thread] = u /\ file'[i] = n
      BY <1>0, <2>2 DEF Opens
    <3> QED
      BY <1>0, <2>2, <3>1 DEF Opens, Never
  <2>3. ASSUME ~Idle(thread), update'[thread].inc = update[thread].inc,
               update'[thread].base = file[update[thread].inc], file' = file
        PROVE  Good
    <3>1. update[thread].inc \in opened
      BY <1>b, <2>3
    <3>2. file[update[thread].inc].started \in 0..clock
      BY <1>0, <3>1 DEF Files
    <3> QED
      BY <1>0, <1>a, <2>3, <3>2
  <2> QED
    BY <1>2, <2>1, <2>2, <2>3, BaseAfter
<1> QED
  BY <1>1, <1>2 DEF Files

(* How an incident gets about: it stays or leaves, is opened, is queued    *)
(* once it is written, or is taken from the queue by the worker.           *)
Stays(i)  == /\ Opening(i)' => Opening(i)
             /\ Queued(i)' => Queued(i)
             /\ Handled(i)' => Handled(i)
             /\ opened \subseteq opened'
Arrives(i) == i \notin opened /\ i \in opened' /\ ~Queued(i)' /\ ~Handled(i)'
Waits(i) == Opening(i) /\ ~Opening(i)' /\ ~Handled(i)' /\ opened' = opened
IsTaken(i) == /\ Queued(i) /\ ~Queued(i)' /\ ~Opening(i)' /\ opened' = opened
              /\ worker'.pc = "evidence" /\ i \notin finished

LEMMA Whereabouts ==
    ASSUME RInv, StepForm, NEW i \in Incident
    PROVE  Stays(i) \/ Arrives(i) \/ Waits(i) \/ IsTaken(i)
<1>0. /\ Types /\ Updates /\ Places /\ worker \in WorkerState
      /\ update \in [Thread -> Update] /\ queue \in Seq(Incident)
  BY DEF RInv, Types
<1>a. NoUpdate.stage = "none" /\ Resting.pc = "idle"
      /\ [Resting EXCEPT !.pc = "dead"].pc = "dead"
  BY NoUpdateType DEF Resting
<1>b. /\ (Opening(i)' <=> /\ update'["server"].stage = "write"
                          /\ update'["server"].state = "open"
                          /\ update'["server"].inc = i)
      /\ (queue' = queue => (Queued(i)' <=> Queued(i)))
      /\ (worker' = worker => (Handled(i)' <=> Handled(i)))
  BY DEF Opening, Queued, Handled
<1>1. CASE UNCHANGED rest \/ Passes
  BY <1>b, <1>1 DEF rest, Passes, Stays, Opening
<1>2. ASSUME NEW j \in Incident, NEW f \in Fingerprint, NEW n \in File, NEW u \in Update,
             Opens(j, f, n, u)
      PROVE  Stays(i) \/ Arrives(i)
  <2>1. update'["server"] = u
    BY <1>0, <1>2 DEF Opens, Thread
  <2>2. CASE i = j
    <3>1. ~Queued(i) /\ ~Handled(i)
      BY <1>0, <1>2, <2>2 DEF Opens, Places
    <3> QED
      BY <1>b, <1>2, <2>2, <3>1 DEF Opens, Arrives
  <2>3. CASE i # j
    BY <1>b, <1>2, <2>1, <2>3 DEF Opens, Stays
  <2> QED
    BY <2>2, <2>3
<1>3. ASSUME NEW j \in Incident, NEW u \in Update, Asks(j, u) PROVE Stays(i)
  <2>1. update'["server"].stage = "read"
    BY <1>0, <1>3 DEF Asks, Thread
  <2> QED
    BY <1>b, <1>3, <2>1 DEF Asks, Stays
<1>4. ASSUME NEW thread \in Thread, NEW u \in Update, Reads(thread, u) PROVE Stays(i)
  <2>1. update'["server"] = update["server"] \/ update'["server"].stage = "truncate"
    BY <1>0, <1>4 DEF Reads, Thread
  <2> QED
    BY <1>b, <1>4, <2>1 DEF Reads, Stays, Opening
<1>5. ASSUME NEW thread \in Thread, NEW n \in File, NEW u \in Update, Truncates(thread, n, u)
      PROVE  Stays(i)
  <2>1. \/ update'["server"] = update["server"]
        \/ update'["server"].state # "open"
    BY <1>0, <1>5 DEF Truncates, Thread, Updates, Idle
  <2> QED
    BY <1>b, <1>5, <2>1 DEF Truncates, Stays, Opening
<1>6. ASSUME NEW thread \in Thread, NEW n \in File, Writes(thread, n)
      PROVE  Stays(i) \/ Waits(i)
  <2>1. /\ update'["server"] = update["server"] \/ update'["server"].stage = "none"
        /\ thread = "server" => update'["server"].stage = "none"
    BY <1>0, <1>a, <1>6 DEF Writes, Thread
  <2>2. CASE queue' = queue
    BY <1>b, <1>6, <2>1, <2>2 DEF Writes, Stays, Opening
  <2>3. CASE /\ thread = "server" /\ update[thread].state = "open"
             /\ queue' = Append(queue, update[thread].inc)
    <3>1. Queued(i)' => Queued(i) \/ i = update[thread].inc
      <4> SUFFICES ASSUME NEW k \in 1..Len(queue'), queue'[k] = i
                   PROVE  Queued(i) \/ i = update[thread].inc
        BY DEF Queued
      <4>1. Len(queue') = Len(queue) + 1 /\ Len(queue) \in Nat
        BY <1>0, <2>3
      <4>2. CASE k = Len(queue) + 1
        BY <1>0, <2>3, <4>1, <4>2
      <4>3. CASE k # Len(queue) + 1
        <5>1. k \in 1..Len(queue) /\ queue'[k] = queue[k]
          BY <1>0, <2>3, <4>1, <4>3
        <5> QED
          BY <5>1 DEF Queued
      <4> QED
        BY <4>2, <4>3
    <3>2. CASE i = update[thread].inc
      <4>1. Opening(i)
        BY <1>6, <2>3, <3>2 DEF Writes, Opening
      <4>2. ~Handled(i)
        BY <1>0, <4>1 DEF Places
      <4> QED
        BY <1>b, <1>6, <2>1, <2>3, <4>1, <4>2 DEF Writes, Waits
    <3>3. CASE i # update[thread].inc
      BY <1>b, <1>6, <2>1, <2>3, <3>1, <3>3 DEF Writes, Stays
    <3> QED
      BY <3>2, <3>3
  <2> QED
    BY <1>6, <2>2, <2>3 DEF Writes
<1>7. ASSUME NEW u \in Update, NEW w \in WorkerState, Takes(u, w)
      PROVE  Stays(i) \/ IsTaken(i)
  <2>1. update'["server"] = update["server"]
    BY <1>0, <1>7 DEF Takes, Thread
  <2>2. /\ queue # <<>> /\ Len(queue) \in Nat \ {0} /\ Head(queue) = queue[1]
        /\ queue' = Tail(queue) /\ Len(queue') = Len(queue) - 1
        /\ \A k \in 1..Len(queue') : queue'[k] = queue[k + 1]
    BY <1>0, <1>7 DEF Takes
  <2>3. Queued(i)' => Queued(i) /\ i # Head(queue)
    <3> SUFFICES ASSUME NEW k \in 1..Len(queue'), queue'[k] = i
                 PROVE  Queued(i) /\ i # Head(queue)
      BY DEF Queued
    <3>1. k + 1 \in 1..Len(queue) /\ queue[k + 1] = i /\ 1 \in 1..Len(queue) /\ k + 1 # 1
      BY <2>2
    <3>2. queue[1] # queue[k + 1]
      BY <1>0, <3>1 DEF Places
    <3> QED
      BY <2>2, <3>1, <3>2 DEF Queued
  <2>4. CASE i = Head(queue)
    <3>1. Queued(i)
      BY <2>2, <2>4 DEF Queued
    <3>2. ~Opening(i) /\ i \notin finished
      BY <1>0, <3>1 DEF Places
    <3> QED
      BY <1>b, <1>7, <2>1, <2>3, <2>4, <3>1, <3>2 DEF Takes, IsTaken, Opening
  <2>5. CASE i # Head(queue)
    <3>1. ~Handled(i)'
      BY <1>7, <2>5 DEF Takes, Handled
    <3> QED
      BY <1>b, <1>7, <2>1, <2>3, <3>1 DEF Takes, Stays, Opening
  <2> QED
    BY <2>4, <2>5
<1>8. ASSUME NEW u \in Update, NEW w \in WorkerState, Records(u, w) PROVE Stays(i)
  <2>1. update'["server"] = update["server"]
    BY <1>0, <1>8 DEF Records, Thread
  <2>2. Handled(i)' => Handled(i)
    BY <1>8 DEF Records, Handled, Reports
  <2> QED
    BY <1>b, <1>8, <2>1, <2>2 DEF Records, Stays, Opening
<1>9. CASE Finishes
  <2>1. ~Handled(i)'
    BY <1>a, <1>9 DEF Finishes, Handled, RunsAt, Reports
  <2> QED
    BY <1>b, <1>9, <2>1 DEF Finishes, Stays, Opening
<1>10. CASE Stops
  <2>1. update'["server"] = update["server"] \/ update'["server"].stage = "none"
    BY <1>a, <1>10 DEF Stops, Thread
  <2>2. Handled(i)' => Handled(i)
    BY <1>a, <1>10 DEF Stops, Handled, RunsAt, Reports
  <2>3. Queued(i)' => Queued(i)
    BY <1>10 DEF Stops, Queued
  <2> QED
    BY <1>b, <1>10, <2>1, <2>2, <2>3 DEF Stops, Stays, Opening
<1> QED
  BY <1>1, <1>2, <1>3, <1>4, <1>5, <1>6, <1>7, <1>8, <1>9, <1>10 DEF StepForm

LEMMA PlacesStep == ASSUME RInv, StepForm PROVE Places'
<1>0. /\ Types /\ Updates /\ Places /\ worker \in WorkerState /\ worker.inc \in Incident
      /\ update \in [Thread -> Update] /\ queue \in Seq(Incident)
      /\ opened \subseteq Incident
  BY DEF RInv, Types, WorkerState
<1>a. Resting.pc = "idle" /\ [Resting EXCEPT !.pc = "dead"].pc = "dead"
  BY DEF Resting
<1>1. \A k, l \in 1..Len(queue') : queue'[k] = queue'[l] => k = l
  <2> SUFFICES ASSUME NEW k \in 1..Len(queue'), NEW l \in 1..Len(queue'),
                      queue'[k] = queue'[l]
               PROVE  k = l
    OBVIOUS
  <2>1. CASE queue' = queue
    BY <1>0, <2>1 DEF Places
  <2>2. CASE queue' = <<>>
    BY <2>2
  <2>3. ASSUME NEW thread \in Thread, NEW n \in File, Writes(thread, n),
               thread = "server", update[thread].state = "open",
               queue' = Append(queue, update[thread].inc)
        PROVE  k = l
    <3> DEFINE i == update[thread].inc
    <3>1. i \in Incident /\ Opening(i)
      BY <1>0, <2>3 DEF Writes, Opening, Update
    <3>2. ~Queued(i)
      BY <1>0, <3>1 DEF Places
    <3>3. Len(queue) \in Nat /\ Len(queue') = Len(queue) + 1 /\ queue'[Len(queue) + 1] = i
          /\ \A m \in 1..Len(queue) : queue'[m] = queue[m] /\ queue[m] # i
      BY <1>0, <2>3, <3>1, <3>2 DEF Queued
    <3>4. \A m \in 1..Len(queue') : m = Len(queue) + 1 \/ m \in 1..Len(queue)
      BY <3>3
    <3> HIDE DEF i
    <3> QED
      BY <1>0, <3>3, <3>4 DEF Places
  <2>4. ASSUME NEW u \in Update, NEW w \in WorkerState, Takes(u, w) PROVE k = l
    <3>1. /\ Len(queue) \in Nat \ {0} /\ Len(queue') = Len(queue) - 1
          /\ \A m \in 1..Len(queue') : queue'[m] = queue[m + 1]
      BY <1>0, <2>4 DEF Takes
    <3>2. k + 1 \in 1..Len(queue) /\ l + 1 \in 1..Len(queue)
      BY <3>1
    <3> QED
      BY <1>0, <3>1, <3>2 DEF Places
  <2> QED
    BY <2>1, <2>2, <2>3, <2>4
       DEF StepForm, rest, Opens, Asks, Reads, Truncates, Writes, Records, Finishes, Stops, Passes
<1>2. ASSUME NEW i \in Incident
      PROVE  /\ Opening(i)' => ~Queued(i)' /\ ~Handled(i)'
             /\ Queued(i)' => ~Handled(i)'
             /\ Opening(i)' \/ Queued(i)' \/ Handled(i)' => i \in opened'
  <2>1. /\ Opening(i) => ~Queued(i) /\ ~Handled(i)
        /\ Queued(i) => ~Handled(i)
        /\ Opening(i) \/ Queued(i) \/ Handled(i) => i \in opened
    BY <1>0 DEF Places
  <2> QED
    BY <2>1, Whereabouts DEF Stays, Arrives, Waits, IsTaken
<1>3. ASSUME NEW i \in finished'
      PROVE  i \in opened' /\ ~Opening(i)' /\ ~Queued(i)' /\ ~Handled(i)'
  <2>1. CASE i \in finished
    <3>1. i \in opened /\ ~Opening(i) /\ ~Queued(i) /\ ~Handled(i) /\ i \in Incident
      BY <1>0, <2>1 DEF Places
    <3> QED
      BY <2>1, <3>1, Whereabouts DEF Stays, Arrives, Waits, IsTaken
  <2>2. CASE i \notin finished
    <3>1. Finishes /\ i = worker.inc
      BY <2>2 DEF StepForm, rest, Opens, Asks, Reads, Truncates, Writes, Takes, Records,
                  Finishes, Stops, Passes
    <3>2. Handled(i) /\ i \in Incident
      BY <1>0, <3>1 DEF Finishes, Handled
    <3>3. ~Opening(i) /\ ~Queued(i) /\ i \in opened
      BY <1>0, <3>2 DEF Places
    <3> QED
      BY <1>a, <3>1, <3>3 DEF Finishes, Opening, Queued, Handled, RunsAt, Reports
  <2> QED
    BY <2>1, <2>2
<1>4. ASSUME NEW x \in runs'
      PROVE  /\ x[1] \in opened' /\ ~Opening(x[1])' /\ ~Queued(x[1])'
             /\ Handled(x[1])' => worker'.pc \notin {"evidence", "agent"}
  <2> DEFINE i == x[1]
  <2>1. CASE x \in runs
    <3>1. /\ i \in opened /\ ~Opening(i) /\ ~Queued(i) /\ i \in Incident
          /\ Handled(i) => worker.pc \notin {"evidence", "agent"}
      BY <1>0, <2>1 DEF Places
    <3> HIDE DEF i
    <3>2. Stays(i)
      BY <3>1, Whereabouts DEF Arrives, Waits, IsTaken
    <3>3. ASSUME NEW u \in Update, NEW w \in WorkerState, Takes(u, w) PROVE ~Handled(i)'
      <4>1. Queued(Head(queue))
        <5>1. Head(queue) = queue[1] /\ 1 \in 1..Len(queue)
          BY <1>0, <3>3 DEF Takes
        <5> QED
          BY <5>1 DEF Queued
      <4> QED
        BY <3>1, <3>3, <4>1 DEF Takes, Handled
    <3>4. ASSUME NEW u \in Update, NEW w \in WorkerState, Records(u, w), Handled(i)'
          PROVE  worker'.pc \notin {"evidence", "agent"}
      <4>1. Handled(i)
        BY <3>2, <3>4 DEF Stays
      <4> QED
        BY <3>1, <3>4, <4>1 DEF Records, RunsAt, Reports
    <3>5. Handled(i)' => worker'.pc \notin {"evidence", "agent"}
      BY <1>a, <3>1, <3>2, <3>3, <3>4
         DEF StepForm, rest, Opens, Asks, Reads, Truncates, Writes, Finishes, Stops, Passes,
             Stays
    <3> QED
      BY <3>1, <3>2, <3>5 DEF Stays, i
  <2>2. CASE x \notin runs
    <3>1. PICK u \in Update, w \in WorkerState : Records(u, w) /\ w.pc = "decide"
                                                /\ x = <<worker.inc, worker.at>>
      BY <2>2 DEF StepForm, rest, Opens, Asks, Reads, Truncates, Writes, Takes, Records,
                  Finishes, Stops, Passes
    <3>2. Handled(i) /\ i \in Incident
      BY <1>0, <3>1 DEF Records, Handled, RunsAt
    <3> HIDE DEF i
    <3>3. ~Opening(i) /\ ~Queued(i) /\ i \in opened
      BY <1>0, <3>2 DEF Places
    <3>4. /\ opened' = opened /\ queue' = queue /\ update'["server"] = update["server"]
          /\ worker'.pc = "decide"
      BY <1>0, <3>1 DEF Records, Thread
    <3> QED
      BY <3>3, <3>4 DEF Opening, Queued, i
  <2> QED
    BY <2>1, <2>2
<1>5. ASSUME NEW x \in runs', NEW y \in runs', x[1] = y[1] PROVE x = y
  <2>1. CASE runs' = runs
    BY <1>0, <1>5, <2>1 DEF Places
  <2>2. CASE runs' # runs
    <3>1. /\ worker.pc = "agent" /\ runs' = runs \cup {<<worker.inc, worker.at>>}
      BY <2>2 DEF StepForm, rest, Opens, Asks, Reads, Truncates, Writes, Takes, Records,
                  Finishes, Stops, Passes
    <3>2. Handled(worker.inc)
      BY <3>1 DEF Handled, RunsAt
    <3>3. \A z \in runs : z[1] # worker.inc
      BY <1>0, <3>1, <3>2 DEF Places
    <3> QED
      BY <1>0, <1>5, <3>1, <3>3 DEF Places
  <2> QED
    BY <2>1, <2>2
<1> QED
  BY <1>1, <1>2, <1>3, <1>4, <1>5 DEF Places
-----------------------------------------------------------------------------
(* Which steps open an incident, finish one, run one or leave the worker   *)
(* without an update.                                                      *)
LEMMA OpensWhen ==
    ASSUME StepForm, NEW i \in opened', i \notin opened
    PROVE  \E f \in Fingerprint, n \in File, u \in Update : Opens(i, f, n, u)
BY DEF StepForm, rest, Opens, Asks, Reads, Truncates, Writes, Takes, Records, Finishes, Stops,
       Passes

LEMMA FinishesWhen ==
    ASSUME StepForm
    PROVE  /\ finished \subseteq finished' /\ closed \subseteq closed' /\ lost \subseteq lost'
           /\ \A i \in finished' : i \in finished \/ (Finishes /\ i = worker.inc)
BY DEF StepForm, rest, Opens, Asks, Reads, Truncates, Writes, Takes, Records, Finishes, Stops,
       Passes

LEMMA RunsWhen ==
    ASSUME StepForm, runs' # runs
    PROVE  /\ worker.pc = "agent" /\ Idle("worker") /\ lost' = lost
           /\ runs' = runs \cup {<<worker.inc, worker.at>>} /\ worker'.pc = "decide"
BY DEF StepForm, rest, Opens, Asks, Reads, Truncates, Writes, Takes, Records, Finishes, Stops,
       Passes

LEMMA WrittenWhen ==
    ASSUME RInv, StepForm, Idle("worker")', worker'.pc \in {"agent"} \cup Reports
    PROVE  /\ worker' = worker
           /\ Idle("worker") \/ \E n \in File : Writes("worker", n)
<1>0. Types /\ update \in [Thread -> Update] /\ "worker" \in Thread /\ "server" \in Thread
  BY DEF RInv, Types, Thread
<1>1. Resting.pc = "idle" /\ [Resting EXCEPT !.pc = "dead"].pc = "dead"
  BY DEF Resting
<1>2. ASSUME NEW thread \in Thread, NEW u \in Update, update' = [update EXCEPT ![thread] = u],
             thread # "worker" \/ u.stage # "none"
      PROVE  update'["worker"] = update["worker"]
  BY <1>0, <1>2 DEF Idle
<1>3. ASSUME NEW thread \in Thread, NEW n \in File, Writes(thread, n), thread # "worker"
      PROVE  update'["worker"] = update["worker"]
  BY <1>0, <1>3 DEF Writes
<1>4. ~ (\E u \in Update, w \in WorkerState : Takes(u, w) \/ Records(u, w))
  BY <1>0 DEF Takes, Records, Idle
<1>5. ~Finishes
  BY <1>1 DEF Finishes, Reports
<1>6. CASE Stops
  BY <1>1, <1>6 DEF Stops, Idle, Reports
<1> QED
  BY <1>0, <1>2, <1>3, <1>4, <1>5, <1>6
     DEF StepForm, rest, Opens, Asks, Reads, Truncates, Writes, Passes, Idle

(* An incident that is early after a step was so before, or is new.        *)
LEMMA EarlyBefore ==
    ASSUME RInv, StepForm, NEW i \in Incident, Early(i)'
    PROVE  Early(i) \/ Arrives(i)
<1>1. CASE Stays(i)
  <2>1. ASSUME Handled(i)', worker'.pc \notin Reports
        PROVE  Handled(i) /\ worker.pc \notin Reports
    <3>1. Handled(i)
      BY <1>1, <2>1 DEF Stays
    <3>2. worker.pc \in RunsAt \cup Reports
      BY <3>1 DEF Handled
    <3>3. CASE worker' = worker
      BY <2>1, <3>1, <3>3
    <3>4. Resting.pc = "idle" /\ [Resting EXCEPT !.pc = "dead"].pc = "dead"
      BY DEF Resting
    <3>5. worker'.pc \in RunsAt
      BY <2>1 DEF Handled
    <3>6. ~Finishes /\ (Stops => worker' = worker)
      BY <3>4, <3>5 DEF Finishes, Stops, RunsAt
    <3>7. ~ (\E u \in Update, w \in WorkerState : Takes(u, w))
      BY <3>2 DEF Takes, RunsAt, Reports
    <3>8. ASSUME NEW u \in Update, NEW w \in WorkerState, Records(u, w)
          PROVE  worker.pc \notin Reports
      BY <2>1, <3>8 DEF Records, Reports, RunsAt
    <3> QED
      BY <2>1, <3>1, <3>6, <3>7, <3>8
         DEF StepForm, rest, Opens, Asks, Reads, Truncates, Writes, Passes
  <2> QED
    BY <1>1, <2>1 DEF Stays, Early
<1>2. CASE Waits(i) \/ IsTaken(i)
  BY <1>2 DEF Waits, IsTaken, Early
<1> QED
  BY <1>1, <1>2, Whereabouts

(* What an update in progress writes, by the thread and where the worker   *)
(* is.                                                                     *)
LEMMA WritesWhat ==
    ASSUME RInv, NEW thread \in Thread, NEW n \in File, Writes(thread, n)
    PROVE  LET u == update[thread]
           IN  /\ u.inc \in opened /\ HasRead(thread)
               /\ \/ /\ thread = "server" /\ u.state = "open" /\ Opening(u.inc)
                     /\ n.state = "open"
                  \/ /\ thread = "server" /\ u.state = "closed" /\ u.inc \in closed'
                     /\ n.state = "closed"
                  \/ /\ thread = "server" /\ n.state = u.base.state
                  \/ /\ thread = "worker" /\ Handled(u.inc) /\ worker.pc \in Reports
                     /\ n.state \in Decided
                  \/ /\ thread = "worker" /\ Handled(u.inc) /\ worker.pc \in RunsAt
                     /\ n.state = u.base.state \/ n.state \notin Decided
               /\ \/ n.started = u.base.started
                  \/ thread = "worker" /\ worker.pc = "agent" /\ n.started = worker.at
<1>0. Types /\ Updates /\ thread \in {"server", "worker"}
  BY DEF RInv, Thread
<1> DEFINE u == update[thread]
<1>1. u.inc \in opened /\ HasRead(thread) /\ ~Idle(thread)
  BY <1>0 DEF Writes, HasRead, Idle, Updates, Thread
<1>2. CASE thread = "server"
  <2>1. u.state \in {"open", "same", "closed"} /\ u.started = Never
    BY <1>0, <1>1, <1>2 DEF Updates
  <2>2. u.state = "open" => Opening(u.inc)
    BY <1>2 DEF Writes, Opening
  <2> QED
    BY <1>1, <1>2, <2>1, <2>2 DEF Writes
<1>3. CASE thread = "worker"
  <2>1. /\ worker.pc \in RunsAt \cup Reports /\ u.inc = worker.inc
        /\ u.state \in WorkerRecords(worker.pc)
        /\ u.started = IF worker.pc = "agent" THEN worker.at ELSE Never
    BY <1>0, <1>1, <1>3 DEF Updates
  <2>2. Handled(u.inc)
    BY <2>1 DEF Handled
  <2>3. worker.pc \in Reports => u.state \in Decided /\ u.state # "same"
    BY <2>1 DEF Reports, WorkerRecords, Decided
  <2>4. worker.pc \in RunsAt => u.state \notin Decided
    BY <2>1 DEF RunsAt, WorkerRecords, Decided
  <2>5. n.state = IF u.state = "same" THEN u.base.state ELSE u.state
    BY DEF Writes
  <2>6. n.started = IF u.started = Never THEN u.base.started ELSE u.started
    BY DEF Writes
  <2>7. \/ worker.pc \in Reports /\ n.state \in Decided
        \/ worker.pc \in RunsAt /\ (n.state = u.base.state \/ n.state \notin Decided)
    BY <2>1, <2>3, <2>4, <2>5
  <2>8. n.started = u.base.started \/ (worker.pc = "agent" /\ n.started = worker.at)
    BY <2>1, <2>6
  <2> HIDE DEF u
  <2>9. /\ u.inc \in opened /\ HasRead(thread)
    BY <1>1
  <2> QED
    BY <1>3, <2>2, <2>7, <2>8, <2>9 DEF u
<1> QED
  BY <1>0, <1>2, <1>3

(* As long as an incident is early, only a human can have decided it.      *)
LEMMA NotDecidedStep == ASSUME RInv, StepForm PROVE NotDecided'
<1>0. /\ Types /\ Updates /\ Places /\ NotDecided /\ opened \subseteq Incident
      /\ update \in [Thread -> Update]
  BY DEF RInv, Types
<1> SUFFICES ASSUME NEW i \in Incident, Early(i)', i \notin closed'
             PROVE  /\ file'[i].state \notin Decided
                    /\ \A thread \in Thread : HasRead(thread)' /\ update'[thread].inc = i
                                              => update'[thread].base.state \notin Decided
  BY DEF NotDecided
<1>1. CASE Early(i)
  <2>1. i \in opened /\ i \notin closed
    BY <1>0, <1>1, FinishesWhen DEF Places, Early
  <2>2. /\ file[i].state \notin Decided
        /\ \A thread \in Thread : HasRead(thread) /\ update[thread].inc = i
                                  => update[thread].base.state \notin Decided
    BY <1>0, <1>1, <2>1 DEF NotDecided
  <2>3. ~ (Handled(i) /\ worker.pc \in Reports)
    BY <1>0, <1>1 DEF Early, Places
  <2>4. ASSUME NEW thread \in Thread, NEW n \in File, Writes(thread, n), update[thread].inc = i
        PROVE  n.state \notin Decided
    BY <2>2, <2>3, <2>4, WritesWhat DEF Decided
  <2>5. file'[i].state \notin Decided
    BY <2>1, <2>2, <2>4, FileAfter
  <2>6. ASSUME NEW thread \in Thread, HasRead(thread)', update'[thread].inc = i
        PROVE  update'[thread].base.state \notin Decided
    <3>1. ~ \E j \in Incident, f \in Fingerprint, n \in File, u \in Update :
               Opens(j, f, n, u) /\ thread = "server"
      BY <1>0, <2>1, <2>6 DEF Opens
    <3> QED
      BY <2>2, <2>6, <3>1, BaseAfter
  <2> QED
    BY <2>5, <2>6
<1>2. CASE Arrives(i)
  <2>1. PICK f \in Fingerprint, n \in File, u \in Update : Opens(i, f, n, u)
    BY <1>2, OpensWhen DEF Arrives
  <2>2. file'[i] = n /\ update'["server"] = u /\ u.base.state = "open" /\ n.state = "open"
    BY <1>0, <2>1 DEF Opens, Types, Thread
  <2>3. HasRead("worker")' => update'["worker"].inc \in opened
    <3>1. update'["worker"] = update["worker"]
      BY <1>0, <2>1 DEF Opens, Thread
    <3> QED
      BY <1>0, <3>1 DEF HasRead, Updates, Idle, Thread
  <2> QED
    BY <1>2, <2>2, <2>3 DEF Arrives, Decided, Thread
<1> QED
  BY <1>1, <1>2, EarlyBefore

(* A second incident within the window finds the first one decided.        *)
LEMMA SupersededStep == ASSUME RInv, StepForm PROVE Superseded'
<1>0. /\ Types /\ Updates /\ Files /\ Places /\ NotDecided /\ Superseded
      /\ opened \subseteq Incident /\ file \in [Incident -> File]
      /\ update \in [Thread -> Update] /\ "server" \in Thread
  BY DEF RInv, Types, Thread
<1> SUFFICES ASSUME NEW i \in opened', NEW j \in opened', Near(i, j)',
                    i \notin finished' \cup closed'
             PROVE  /\ file'[i].state \in Decided
                    /\ HasRead("server")' /\ update'["server"].inc = i
                         => update'["server"].base.state \in Decided
  BY DEF Superseded
<1>1. i \notin finished \cup closed
  BY FinishesWhen
<1>2. CASE j \notin opened
  <2>1. PICK f \in Fingerprint, n \in File, u \in Update : Opens(j, f, n, u)
    BY <1>2, OpensWhen
  <2>2. i \in opened /\ i # j /\ j \in Incident
    <3>1. i < j /\ i \in Incident /\ j \in Incident
      BY TypesStep DEF Types, Near
    <3>2. i \in 1..(j - 1)
      BY <3>1, ResponderAssumption DEF Incident
    <3> QED
      BY <2>1, <3>1, <3>2 DEF Opens
  <2>3. file'[i] = file[i] /\ file'[j] = n /\ update'["server"] = u /\ clock' = clock
    BY <1>0, <1>2, <2>1, <2>2 DEF Opens, Types
  <2>4. file[i].fp = f /\ clock - file[i].opened < Window
    BY <2>1, <2>3 DEF Opens, Near
  <2>5. file[i].state \in {"closed", "resolved"}
    BY <2>1, <2>2, <2>4 DEF Opens, Attachable
  <2> QED
    BY <2>1, <2>2, <2>3, <2>5 DEF Opens, Decided
<1>3. CASE j \in opened /\ i \notin opened
  <2>1. 1..j \subseteq opened /\ i < j
    BY <1>0, <1>3 DEF Files, Near
  <2>2. i \in Incident /\ j \in Incident
    BY TypesStep DEF Types
  <2> QED
    BY <1>3, <2>1, <2>2, ResponderAssumption DEF Incident
<1>4. CASE i \in opened /\ j \in opened
  <2>1. Near(i, j)
    <3>1. /\ file'[i].fp = file[i].fp /\ file'[i].opened = file[i].opened
          /\ file'[j].fp = file[j].fp /\ file'[j].opened = file[j].opened
      BY <1>4, FileAfter
    <3> QED
      BY <3>1 DEF Near
  <2>2. /\ file[i].state \in Decided
        /\ HasRead("server") /\ update["server"].inc = i
             => update["server"].base.state \in Decided
    BY <1>0, <1>1, <1>4, <2>1 DEF Superseded
  <2>3. ~Early(i)
    BY <1>0, <1>1, <1>4, <2>2 DEF NotDecided
  <2>4. ASSUME NEW thread \in Thread, NEW n \in File, Writes(thread, n), update[thread].inc = i
        PROVE  n.state \in Decided
    <3>1. ~Opening(i) /\ (Handled(i) => worker.pc \notin RunsAt)
      BY <2>3 DEF Early, RunsAt, Reports
    <3> QED
      BY <2>2, <2>4, <3>1, WritesWhat DEF Decided
  <2>5. file'[i].state \in Decided
    BY <1>4, <2>2, <2>4, FileAfter
  <2>6. ASSUME HasRead("server")', update'["server"].inc = i
        PROVE  update'["server"].base.state \in Decided
    <3>1. ~ \E k \in Incident, f \in Fingerprint, n \in File, u \in Update : Opens(k, f, n, u)
      BY <1>0, <1>4, <2>6 DEF Opens
    <3> QED
      BY <1>0, <2>2, <2>6, <3>1, BaseAfter
  <2> QED
    BY <2>5, <2>6
<1> QED
  BY <1>2, <1>3, <1>4

(* The decision is in the file once the worker has written.                *)
LEMMA RecordedStep == ASSUME RInv, StepForm PROVE Recorded'
<1>0. /\ Types /\ Updates /\ Places /\ Recorded /\ opened \subseteq Incident
  BY DEF RInv, Types
<1> SUFFICES ASSUME NEW i \in Incident, Through(i)', i \notin lost'
             PROVE  file'[i].state \in Decided
  BY DEF Recorded
<1>1. i \notin lost
  BY FinishesWhen
<1>2. CASE Through(i)
  <2>1. i \in opened /\ ~Opening(i) /\ (Handled(i) => Idle("worker"))
    BY <1>0, <1>2 DEF Through, Places
  <2>2. file[i].state \in Decided
    BY <1>0, <1>1, <1>2 DEF Recorded
  <2>3. ASSUME NEW thread \in Thread, NEW n \in File, Writes(thread, n), update[thread].inc = i
        PROVE  n.state \in Decided
    <3>1. thread = "worker" => ~Handled(i)
      BY <2>1, <2>3 DEF Writes, Idle
    <3>2. update[thread].base.state = file[i].state
      BY <2>3 DEF Writes
    <3> QED
      BY <2>1, <2>2, <2>3, <3>1, <3>2, WritesWhat DEF Decided
  <2> QED
    BY <2>1, <2>2, <2>3, FileAfter
<1>3. CASE ~Through(i)
  <2>1. i \notin finished'
    <3>1. CASE i \in finished
      BY <1>3, <3>1 DEF Through
    <3>2. CASE Finishes /\ i = worker.inc
      BY <1>3, <3>2 DEF Finishes, Through, Handled
    <3> QED
      BY <3>1, <3>2, FinishesWhen
  <2>2. Handled(i)' /\ worker'.pc \in Reports /\ Idle("worker")'
    BY <2>1 DEF Through
  <2>3. worker' = worker /\ (Idle("worker") \/ \E n \in File : Writes("worker", n))
    BY <2>2, WrittenWhen
  <2>4. Handled(i) /\ worker.pc \in Reports
    BY <2>2, <2>3 DEF Handled
  <2>5. PICK n \in File : Writes("worker", n)
    BY <1>3, <2>3, <2>4 DEF Through
  <2>6. /\ update["worker"].inc = i /\ n.state \in Decided
    <3>1. update["worker"].inc = i /\ "worker" \in Thread
      BY <1>0, <2>4, <2>5 DEF Updates, Writes, Idle, Handled, Thread
    <3> QED
      BY <2>4, <2>5, <3>1, WritesWhat DEF RunsAt, Reports
  <2>7. file'[i] = n
    BY <1>0, <2>5, <2>6 DEF Writes, Types
  <2> QED
    BY <2>6, <2>7
<1> QED
  BY <1>2, <1>3

(* The start of a run is in the file from before the run on.               *)
LEMMA CountedStep == ASSUME RInv, StepForm PROVE Counted'
<1>0. /\ Types /\ Updates /\ Places /\ Counted /\ opened \subseteq Incident
  BY DEF RInv, Types
<1> SUFFICES ASSUME NEW i \in Incident, NEW s \in Nat, Launched(i, s)', i \notin lost'
             PROVE  file'[i].started = s
  BY DEF Counted
<1>1. i \notin lost
  BY FinishesWhen
<1>2. CASE Launched(i, s)
  <2>1. /\ i \in opened
        /\ Handled(i) /\ worker.pc = "agent" => Idle("worker")
    BY <1>0, <1>2 DEF Launched, Places
  <2>2. file[i].started = s
    BY <1>0, <1>1, <1>2 DEF Counted
  <2>3. ASSUME NEW thread \in Thread, NEW n \in File, Writes(thread, n), update[thread].inc = i
        PROVE  n.started = s
    <3>1. thread = "worker" => Handled(i) /\ ~Idle("worker")
      BY <1>0, <2>3 DEF Writes, Idle, Updates, Handled
    <3>2. update[thread].base.started = file[i].started
      BY <2>3 DEF Writes
    <3> QED
      BY <2>1, <2>2, <2>3, <3>1, <3>2, WritesWhat
  <2> QED
    BY <2>1, <2>2, <2>3, FileAfter
<1>3. CASE ~Launched(i, s)
  <2>1. <<i, s>> \notin runs'
    <3>1. CASE runs' = runs
      BY <1>3, <3>1 DEF Launched
    <3>2. CASE runs' # runs
      <4>1. worker.pc = "agent" /\ Idle("worker") /\ runs' = runs \cup {<<worker.inc, worker.at>>}
        BY <3>2, RunsWhen
      <4> QED
        BY <1>3, <4>1 DEF Launched, Handled, RunsAt
    <3> QED
      BY <3>1, <3>2
  <2>2. Handled(i)' /\ worker'.pc = "agent" /\ worker'.at = s /\ Idle("worker")'
    BY <2>1 DEF Launched
  <2>3. worker' = worker /\ (Idle("worker") \/ \E n \in File : Writes("worker", n))
    BY <2>2, WrittenWhen
  <2>4. Handled(i) /\ worker.pc = "agent" /\ worker.at = s
    BY <2>2, <2>3 DEF Handled
  <2>5. PICK n \in File : Writes("worker", n)
    BY <1>3, <2>3, <2>4 DEF Launched
  <2>6. update["worker"].inc = i /\ update["worker"].started = s /\ s # Never
    BY <1>0, <2>4, <2>5 DEF Updates, Writes, Idle, Handled, Never, Types
  <2>7. file'[i] = n /\ n.started = s
    BY <1>0, <2>5, <2>6 DEF Writes, Types
  <2> QED
    BY <2>7
<1> QED
  BY <1>2, <1>3
-----------------------------------------------------------------------------
(* The runs of an hour are finitely many, and as many as are counted.      *)
LEMMA InHourFinite ==
    ASSUME Types, NEW without, NEW a
    PROVE  /\ IsFiniteSet(InHour(runs, without, a))
           /\ Cardinality(InHour(runs, without, a)) \in Nat
<1>1. IsFiniteSet(Incident) /\ IsFiniteSet(1..clock)
  BY ResponderAssumption, FS_Interval DEF Incident, Types
<1>2. IsFiniteSet(Incident \X (1..clock))
  BY <1>1, FS_Product
<1>3. InHour(runs, without, a) \subseteq Incident \X (1..clock)
  BY DEF InHour, Types
<1> QED
  BY <1>2, <1>3, FS_Subset, FS_CardinalityType

LEMMA CountedFinite ==
    ASSUME Types
    PROVE  IsFiniteSet(RunsLastHour) /\ Cardinality(RunsLastHour) \in Nat
<1>1. IsFiniteSet(Incident)
  BY ResponderAssumption, FS_Interval DEF Incident
<1>2. RunsLastHour \subseteq Incident
  BY DEF RunsLastHour, Types
<1> QED
  BY <1>1, <1>2, FS_Subset, FS_CardinalityType

(* What agent_runs_last_hour finds in the files is not less than the runs  *)
(* whose updates were not lost.                                            *)
LEMMA AllCounted ==
    ASSUME Types, Places, Counted
    PROVE  Cardinality(InHour(runs, lost, clock)) <= Cardinality(RunsLastHour)
<1> DEFINE S == InHour(runs, lost, clock)
           f == [y \in S |-> y[1]]
<1>1. ASSUME NEW y \in S PROVE y[1] \in RunsLastHour
  <2>1. /\ y \in runs /\ clock - Hour < y[2] /\ y[1] \notin lost
        /\ y[1] \in Incident /\ y[2] \in 1..clock /\ y = <<y[1], y[2]>>
        /\ clock \in Nat
    BY <1>1 DEF InHour, Types
  <2>2. y[1] \in opened
    BY <2>1 DEF Places
  <2>3. file[y[1]].started = y[2]
    BY <2>1 DEF Counted, Launched
  <2> QED
    BY <2>1, <2>2, <2>3, ResponderAssumption DEF RunsLastHour, Never
<1>2. \A x, y \in S : x[1] = y[1] => x = y
  BY DEF InHour, Places
<1>3. f \in Injection(S, RunsLastHour)
  BY <1>1, <1>2 DEF Injection, IsInjective
<1> HIDE DEF f, S
<1>4. Cardinality(S) <= Cardinality(RunsLastHour)
  BY <1>3, CountedFinite, FS_Injection
<1> QED
  BY <1>4 DEF S

(* The agent is launched within the budget; a run is not launched again    *)
(* before it is counted.                                                   *)
LEMMA WithinBudgetStep == ASSUME RInv, StepForm PROVE WithinBudget'
<1>0. /\ Types /\ Updates /\ Places /\ Counted /\ WithinBudget
      /\ runs \subseteq Incident \X (1..clock) /\ clock \in Nat /\ lost \subseteq lost'
      /\ Budget \in Nat /\ Hour \in Nat
  BY FinishesWhen, ResponderAssumption DEF RInv, Types
<1>1. ASSUME NEW a
      PROVE  /\ Cardinality(InHour(runs, lost', a)) <= Cardinality(InHour(runs, lost, a))
             /\ Cardinality(InHour(runs, lost', a)) \in Nat
             /\ Cardinality(InHour(runs, lost, a)) \in Nat
  <2>1. InHour(runs, lost', a) \subseteq InHour(runs, lost, a)
    BY <1>0 DEF InHour
  <2> QED
    BY <1>0, <2>1, InHourFinite, FS_Subset
<1>2. CASE runs' = runs
  <2>1. \A x \in runs : Cardinality(InHour(runs, lost', x[2])) <= Budget
    <3> TAKE x \in runs
    <3>1. Cardinality(InHour(runs, lost, x[2])) <= Budget
      BY <1>0 DEF WithinBudget
    <3> QED
      BY <1>0, <1>1, <3>1
  <2>2. ASSUME worker.pc = "agent"
        PROVE  /\ Cardinality(InHour(runs, lost', worker.at)) < Budget
               /\ \A y \in runs : y[2] <= worker.at
    <3>1. /\ Cardinality(InHour(runs, lost, worker.at)) < Budget
          /\ \A y \in runs : y[2] <= worker.at
      BY <1>0, <2>2 DEF WithinBudget
    <3> QED
      BY <1>0, <1>1, <3>1
  <2>3. ASSUME NEW u \in Update, NEW w \in WorkerState, Records(u, w), w.pc = "agent"
        PROVE  /\ worker'.at = clock
               /\ Cardinality(InHour(runs, lost', clock)) < Budget
               /\ \A y \in runs : y[2] <= clock
    <3>1. worker'.at = clock /\ Cardinality(RunsLastHour) < Budget
      BY <2>3 DEF Records
    <3>2. Cardinality(InHour(runs, lost, clock)) <= Cardinality(RunsLastHour)
      BY <1>0, AllCounted
    <3>3. Cardinality(RunsLastHour) \in Nat
      BY <1>0, CountedFinite
    <3>4. Cardinality(InHour(runs, lost', clock)) < Budget
      BY <1>0, <1>1, <3>1, <3>2, <3>3
    <3> QED
      BY <1>0, <3>1, <3>4
  <2>4. ASSUME worker'.pc = "agent"
        PROVE  \/ worker.pc = "agent" /\ worker'.at = worker.at
               \/ \E u \in Update, w \in WorkerState : Records(u, w) /\ w.pc = "agent"
    <3>1. Resting.pc = "idle" /\ [Resting EXCEPT !.pc = "dead"].pc = "dead"
      BY DEF Resting
    <3> QED
      BY <2>4, <3>1
         DEF StepForm, rest, Opens, Asks, Reads, Truncates, Writes, Takes, Records, Finishes,
             Stops, Passes
  <2> QED
    BY <1>2, <2>1, <2>2, <2>3, <2>4 DEF WithinBudget
<1>3. CASE runs' # runs
  <2> DEFINE at == worker.at
             x == <<worker.inc, at>>
  <2>1. /\ worker.pc = "agent" /\ lost' = lost /\ runs' = runs \cup {x}
        /\ worker'.pc = "decide"
    BY <1>3, RunsWhen
  <2>2. /\ Cardinality(InHour(runs, lost, at)) < Budget /\ at \in 1..clock
        /\ \A y \in runs : y[2] <= at
    BY <1>0, <2>1 DEF WithinBudget, Updates
  <2>3. x[2] = at
    OBVIOUS
  <2> HIDE DEF x, at
  <2>4. Cardinality(InHour(runs', lost', at)) <= Budget
    <3> DEFINE S == InHour(runs, lost, at)
    <3>1. InHour(runs', lost', at) \subseteq S \cup {x}
      BY <2>1 DEF InHour
    <3>2. IsFiniteSet(S) /\ Cardinality(S) \in Nat /\ Cardinality(S) < Budget
      BY <1>0, <2>2, InHourFinite
    <3> HIDE DEF S
    <3>3. /\ IsFiniteSet(S \cup {x}) /\ Cardinality(S \cup {x}) \in Nat
          /\ Cardinality(S \cup {x}) <= Budget
      BY <1>0, <3>2, FS_AddElement
    <3>4. /\ Cardinality(InHour(runs', lost', at)) <= Cardinality(S \cup {x})
          /\ Cardinality(InHour(runs', lost', at)) \in Nat
      BY <3>1, <3>3, FS_Subset, FS_CardinalityType
    <3> QED
      BY <1>0, <3>3, <3>4
  <2>5. ASSUME NEW y \in runs' PROVE Cardinality(InHour(runs', lost', y[2])) <= Budget
    <3>1. CASE y[2] = at
      BY <2>4, <3>1
    <3>2. CASE y[2] # at
      <4>1. y \in runs /\ y[2] <= at /\ y[2] \in 1..clock
        BY <1>0, <2>1, <2>2, <2>3, <3>2
      <4>2. InHour(runs', lost', y[2]) = InHour(runs, lost, y[2])
        BY <2>1, <2>2, <2>3, <3>2, <4>1 DEF InHour
      <4> QED
        BY <1>0, <4>1, <4>2 DEF WithinBudget
    <3> QED
      BY <3>1, <3>2
  <2> QED
    BY <2>1, <2>5 DEF WithinBudget
<1> QED
  BY <1>2, <1>3
-----------------------------------------------------------------------------
LEMMA RInvInit == ASSUME RInit PROVE RInv
<1>1. /\ NewFile("none", 0) \in File /\ NewFile("none", 0).state = "open"
      /\ NewFile("none", 0).fp = "none"
  BY NewFileType
<1>2. 1 \in Incident /\ NoUpdate \in Update /\ NoUpdate.stage = "none"
  BY NoUpdateType, ResponderAssumption DEF Incident
<1>3. Resting \in WorkerState /\ Resting.pc = "idle"
  BY <1>2 DEF Resting, WorkerState, Never
<1>4. \A thread \in Thread : Idle(thread) /\ ~HasRead(thread)
  BY <1>2 DEF RInit, Idle, HasRead, Thread
<1>5. \A i \in Incident : ~Opening(i) /\ ~Queued(i) /\ ~Handled(i)
  BY <1>2, <1>3 DEF RInit, Opening, Queued, Handled, RunsAt, Reports, Thread
<1>6. Types
  <2>1. <<>> \in Seq(Incident) /\ Len(<<>>) <= MaxQueue
    BY ResponderAssumption
  <2> QED
    BY <1>1, <1>2, <1>3, <2>1 DEF RInit, Types, Thread
<1>7. Updates
  BY <1>3, <1>4 DEF RInit, Updates, Thread
<1>8. Files
  BY <1>4 DEF RInit, Files
<1>9. Places
  BY <1>5 DEF RInit, Places
<1>10. NotDecided /\ Superseded
  BY <1>5 DEF RInit, NotDecided, Superseded, Early
<1>11. Recorded /\ Counted
  BY <1>5 DEF RInit, Recorded, Counted, Through, Launched
<1>12. WithinBudget
  BY <1>3 DEF RInit, WithinBudget
<1> QED
  BY <1>6, <1>7, <1>8, <1>9, <1>10, <1>11, <1>12 DEF RInv

LEMMA RInvStep == ASSUME RInv, [RNext]_rvars PROVE RInv'
<1>1. StepForm
  BY EveryStep DEF RInv
<1> QED
  BY <1>1, TypesStep, UpdatesStep, FilesStep, PlacesStep, NotDecidedStep, SupersededStep,
     RecordedStep, CountedStep, WithinBudgetStep
     DEF RInv

(* In every behaviour the invariant holds: where incidents are, what the   *)
(* updates in progress leave in status.json, and what it tells of runs.    *)
THEOREM RInvCorrect == RSpec => []RInv
BY RInvInit, RInvStep, PTL DEF RSpec

(* The types of the responder's state; a worker that rests is in no        *)
(* update, and no time in a file lies ahead.                               *)
THEOREM RTypeHolds == RSpec => []RTypeOK
<1>1. RInv => RTypeOK
  <2> SUFFICES ASSUME RInv PROVE RTypeOK
    OBVIOUS
  <2>1. /\ opened \subseteq Incident /\ Len(queue) <= MaxQueue
        /\ worker.pc \in {"idle", "dead"} \cup RunsAt \cup Reports
    BY DEF RInv, Types, WorkerState
  <2>2. worker.pc \in {"idle", "dead"} => Idle("worker")
    BY DEF RInv, Updates, RunsAt, Reports
  <2>3. \A i \in opened : file[i].opened \in 1..clock /\ file[i].started \in 0..clock
    BY DEF RInv, Files
  <2>4. \A thread \in {"server", "worker"} : Idle(thread) \/ update[thread].inc \in opened
    BY DEF RInv, Updates, Thread
  <2>5. /\ queue \in Seq(Incident) /\ \A i \in Incident : i \in ToSet(queue) <=> Queued(i)
        /\ ToSet(queue) \subseteq Incident
    BY DEF RInv, Types, ToSet, Queued
  <2>6. IsInjective(queue) /\ ToSet(queue) \subseteq opened
    BY <2>5 DEF RInv, Places, IsInjective
  <2>7. \A i \in Incident : /\ BeingOpened(i) <=> Opening(i)
                            /\ WithWorker(i) <=> Handled(i)
    BY <2>1 DEF BeingOpened, Opening, WithWorker, Handled, RunsAt, Reports
  <2>8. \A i \in Incident : /\ BeingOpened(i) => i \notin ToSet(queue) /\ ~WithWorker(i)
                            /\ i \in ToSet(queue) => ~WithWorker(i)
    BY <2>5, <2>7 DEF RInv, Places
  <2>9. \A i \in finished : ~BeingOpened(i) /\ i \notin ToSet(queue) /\ ~WithWorker(i)
    <3> SUFFICES ASSUME NEW i \in finished
                 PROVE  ~BeingOpened(i) /\ i \notin ToSet(queue) /\ ~WithWorker(i)
      OBVIOUS
    <3>1. i \in opened /\ ~Opening(i) /\ ~Queued(i) /\ ~Handled(i)
      BY DEF RInv, Places
    <3>2. i \in Incident
      BY <2>1, <3>1
    <3>3. ~BeingOpened(i) /\ ~WithWorker(i)
      BY <2>7, <3>1, <3>2
    <3>4. i \notin ToSet(queue)
      BY <2>5, <3>1, <3>2
    <3> QED
      BY <3>3, <3>4
  <2>10. worker.pc \in {"idle", "evidence", "agent", "decide", "deploy", "verify", "report",
                        "last report", "dead"}
    BY <2>1 DEF RunsAt, Reports
  <2> QED
    BY <2>1, <2>2, <2>3, <2>4, <2>6, <2>8, <2>9, <2>10 DEF RTypeOK
<1> QED
  BY <1>1, RInvCorrect, PTL

(* open_or_attach, the queue and handle(): however webhooks, closes and    *)
(* restarts interleave, an incident is run once, and a second incident of  *)
(* an alert within the dedupe window only after the first was decided.     *)
THEOREM StormRunsOnceHolds == RSpec => []StormRunsOnce
<1>1. RInv => StormRunsOnce
  <2> SUFFICES ASSUME RInv, NEW x \in runs, NEW y \in runs
               PROVE  /\ x[1] = y[1] => x = y
                      /\ (x[1] < y[1] /\ file[x[1]].fp = file[y[1]].fp
                            /\ file[y[1]].opened - file[x[1]].opened < Window)
                         => x[1] \in finished \cup closed \/ file[x[1]].state \in Decided
    BY DEF StormRunsOnce
  <2>1. x[1] \in opened /\ y[1] \in opened
    BY DEF RInv, Places
  <2> QED
    BY <2>1 DEF RInv, Places, Superseded, Near
<1> QED
  BY <1>1, RInvCorrect, PTL

(* agent_runs_last_hour and max_agent_runs_per_hour: no hour has more runs *)
(* of the agent than the budget, unless an update of status.json was lost. *)
THEOREM BudgetHoldsAlways == RSpec => []BudgetHolds
<1>1. RInv => BudgetHolds
  BY DEF RInv, WithinBudget, InHour, BudgetHolds
<1> QED
  BY <1>1, RInvCorrect, PTL

(* handle(): an incident it is through with says in status.json that it    *)
(* was closed, resolved or escalated, unless an update was lost.           *)
THEOREM FinishedIsRecordedHolds == RSpec => []FinishedIsRecorded
<1>1. RInv => FinishedIsRecorded
  <2> SUFFICES ASSUME RInv, NEW i \in finished
               PROVE  i \in lost \/ file[i].state \in Decided
    BY DEF FinishedIsRecorded
  <2>1. i \in Incident /\ Through(i)
    BY DEF RInv, Places, Types, Through
  <2> QED
    BY <2>1 DEF RInv, Recorded
<1> QED
  BY <1>1, RInvCorrect, PTL
=============================================================================
