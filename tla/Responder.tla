----------------------------- MODULE Responder -----------------------------
(***************************************************************************)
(* The intake of the incident responder, server.py and pipeline.py of      *)
(* src/04-devops/incident-response/responder: webhooks open incidents or   *)
(* attach to them, a bounded queue feeds one worker thread, and both       *)
(* threads keep the state of an incident in its file status.json, which    *)
(* each of them reads, truncates and writes again without a lock.          *)
(*                                                                         *)
(* What the worker does to repository and containers is Remediation's;     *)
(* here a run is the sequence of its updates of status.json.  The handlers *)
(* of the event loop exclude one another; the worker thread runs between   *)
(* any two of their file operations, and they between any two of its own.  *)
(***************************************************************************)
EXTENDS Integers, SequencesExt, FiniteSets

CONSTANTS Fingerprint,   \* of alerts
          MaxIncidents,  \* bound: incidents opened in a behaviour
          MaxQueue,      \* MAX_QUEUE, 50 in the code
          Budget,        \* max_agent_runs_per_hour, 6 in the policy
          Hour,          \* one hour, in ticks
          Window,        \* dedupe_window_minutes, in ticks
          MaxTime,       \* bound: the last tick of the clock
          MaxRestarts,   \* bound: restarts of the process
          Closable,      \* the incidents that humans close
          Resolvable     \* the alerts that Grafana reports as resolved

Incident == 1..MaxIncidents      \* in the order of their directory names

ASSUME ResponderAssumption ==
    /\ MaxIncidents \in Nat \ {0} /\ MaxQueue \in Nat \ {0} /\ Budget \in Nat \ {0}
    /\ Hour \in Nat \ {0} /\ Window \in Nat \ {0} /\ MaxTime \in Nat /\ MaxRestarts \in Nat
    /\ Closable \subseteq Incident /\ Resolvable \subseteq Fingerprint

VARIABLES opened,   \* the directories of incidents_dir
          file,     \* Incident -> status.json; when torn, only the name is left
          queue,    \* _jobs
          update,   \* thread -> the call of Incident.status it is in
          worker,   \* the worker thread
          clock, restarts,
          runs,     \* history: <<incident, time>> of the agent runs
          promised, \* history: incidents for which a webhook was answered 202
          closed,   \* history: incidents whose close went into status.json
          finished, \* history: incidents that handle() is through with
          lost      \* history: incidents with an update written over unseen

rvars == <<opened, file, queue, update, worker, clock, restarts,
           runs, promised, closed, finished, lost>>
history == <<runs, promised, closed, finished, lost>>

Never    == 0                       \* no agent_started_ts
NewFile(f, now) == [fp |-> f, state |-> "open", opened |-> now, started |-> Never, torn |-> FALSE]
NoUpdate == [stage |-> "none", inc |-> 1, state |-> "same", started |-> Never,
             base |-> NewFile("none", 0)]
Resting  == [pc |-> "idle", inc |-> 1, at |-> Never]
Decided  == {"closed", "resolved", "escalated"}

RInit == /\ opened = {} /\ file = [i \in Incident |-> NewFile("none", 0)]
         /\ queue = <<>> /\ worker = Resting
         /\ update = [thread \in {"server", "worker"} |-> NoUpdate]
         /\ clock = 1 /\ restarts = 0
         /\ runs = {} /\ promised = {} /\ closed = {} /\ finished = {} /\ lost = {}

Idle(thread) == update[thread].stage = "none"

(* list_incidents reads every status.json and fails on an empty one.       *)
Listable == \A i \in opened : ~file[i].torn
-----------------------------------------------------------------------------
(* Incident.status(state=.., agent_started_ts=..): "same" and Never leave  *)
(* the field as it was read.                                               *)
Status(i, state, started) == [NoUpdate EXCEPT !.stage = "read", !.inc = i,
                                              !.state = state, !.started = started]

Updated(u) == [u.base EXCEPT !.state = IF u.state = "same" THEN @ ELSE u.state,
                             !.started = IF u.started = Never THEN @ ELSE u.started]

(* json.loads(path.read_text())                                            *)
Read(thread) ==
    LET u == update[thread]
    IN  /\ u.stage = "read" /\ ~file[u.inc].torn
        /\ update' = [update EXCEPT ![thread] = [u EXCEPT !.stage = "truncate",
                                                          !.base = file[u.inc]]]
        /\ UNCHANGED <<opened, file, queue, worker, clock, restarts, history>>

(* path.write_text: the file is opened for writing and is empty ...        *)
Truncate(thread) ==
    LET u == update[thread]
    IN  /\ u.stage = "truncate"
        /\ file' = [file EXCEPT ![u.inc].torn = TRUE]
        /\ update' = [update EXCEPT ![thread].stage = "write"]
        /\ UNCHANGED <<opened, queue, worker, clock, restarts, history>>

(* ... until it is written.  What another thread wrote since the read is   *)
(* lost.  A webhook that has written a new incident goes on to the queue,  *)
(* which takes it or refuses it (429).                                     *)
Write(thread) ==
    LET u == update[thread]
        new == thread = "server" /\ u.state = "open"
        taken == new /\ Len(queue) < MaxQueue
    IN  /\ u.stage = "write"
        /\ file' = [file EXCEPT ![u.inc] = Updated(u)]
        /\ update' = [update EXCEPT ![thread] = NoUpdate]
        /\ queue' = IF taken THEN Append(queue, u.inc) ELSE queue
        /\ promised' = IF taken THEN promised \cup {u.inc} ELSE promised
        /\ closed' = IF thread = "server" /\ u.state = "closed" THEN closed \cup {u.inc}
                                                                ELSE closed
        /\ lost' = IF [file[u.inc] EXCEPT !.torn = FALSE] # u.base THEN lost \cup {u.inc}
                                                                   ELSE lost
        /\ UNCHANGED <<opened, worker, clock, restarts, runs, finished>>

(* A close or a webhook that reads an empty file is answered 500.          *)
ServerFails ==
    LET u == update["server"]
    IN  /\ u.stage = "read" /\ file[u.inc].torn
        /\ update' = [update EXCEPT !["server"] = NoUpdate]
        /\ UNCHANGED <<opened, file, queue, worker, clock, restarts, history>>
-----------------------------------------------------------------------------
(* Mutant: an incident takes alerts in only as long as no run has begun.   *)
AttachableBeforeRun(f) == {i \in opened : file[i].fp = f /\ file[i].state = "open"}

(* The incidents an alert belongs to.                                      *)
Attachable(f) == {i \in opened : /\ file[i].fp = f
                                 /\ file[i].state \notin {"closed", "resolved"}
                                 /\ clock - file[i].opened < Window}

(* Mutant: every alert puts its incident into the queue.                   *)
AttachQueueing(f) ==
    \E i \in Attachable(f) :
      /\ \A j \in Attachable(f) : j <= i
      /\ promised' = promised \cup {i}
      /\ queue' = Append(queue, i)
      /\ UNCHANGED <<opened, file, update>>

(* open_or_attach finds the newest incident of the alert.                  *)
Attach(f) ==
    \E i \in Attachable(f) :
      /\ \A j \in Attachable(f) : j <= i
      /\ promised' = promised \cup {i}
      /\ UNCHANGED <<opened, file, queue, update>>

(* It finds none and opens one, whose status.json it is about to write.    *)
Open(f) ==
    \E i \in Incident \ opened :
      /\ Attachable(f) = {} /\ 1..(i - 1) \subseteq opened
      /\ opened' = opened \cup {i}
      /\ file' = [file EXCEPT ![i] = [NewFile(f, clock) EXCEPT !.torn = TRUE]]
      /\ update' = [update EXCEPT !["server"] = [Status(i, "open", Never) EXCEPT
                       !.stage = "write", !.base = NewFile(f, clock)]]
      /\ UNCHANGED <<queue, promised>>

(* POST /alerts with a firing alert.                                       *)
Fire(f) ==
    /\ Idle("server") /\ Listable
    /\ Attach(f) \/ Open(f)
    /\ UNCHANGED <<worker, clock, restarts, runs, closed, finished, lost>>

(* POST /alerts with a resolved one: the newest incident of the alert that *)
(* is not closed gets its alert_resolved_at.                               *)
Resolve(f) ==
    /\ Idle("server") /\ Listable
    /\ \E i \in opened :
         /\ file[i].fp = f /\ file[i].state # "closed"
         /\ \A j \in opened : file[j].fp = f /\ file[j].state # "closed" => j <= i
         /\ update' = [update EXCEPT !["server"] = Status(i, "same", Never)]
    /\ UNCHANGED <<opened, file, queue, worker, clock, restarts, history>>

(* POST /incidents/{id}/close *)
Close(i) ==
    /\ Idle("server") /\ i \in opened
    /\ update' = [update EXCEPT !["server"] = Status(i, "closed", Never)]
    /\ UNCHANGED <<opened, file, queue, worker, clock, restarts, history>>
-----------------------------------------------------------------------------
(* The worker calls status() and goes on at pc.                            *)
Record(state, started, pc) ==
    /\ update' = [update EXCEPT !["worker"] = Status(worker.inc, state, started)]
    /\ worker' = [worker EXCEPT !.pc = pc, !.at = IF started = Never THEN @ ELSE started]

At(pc) == Idle("worker") /\ worker.pc = pc

(* Mutant: a job is dropped when its incident was closed meanwhile.        *)
TakeDroppingClosed ==
    /\ At("idle") /\ queue # <<>>
    /\ queue' = Tail(queue)
    /\ IF file[Head(queue)].state = "closed"
       THEN UNCHANGED <<worker, update>>
       ELSE /\ worker' = [pc |-> "evidence", inc |-> Head(queue), at |-> Never]
            /\ update' = [update EXCEPT
                             !["worker"] = Status(Head(queue), "collecting_evidence", Never)]
    /\ UNCHANGED <<opened, file, clock, restarts, history>>

Take == /\ At("idle") /\ queue # <<>>
        /\ worker' = [pc |-> "evidence", inc |-> Head(queue), at |-> Never]
        /\ queue' = Tail(queue)
        /\ update' = [update EXCEPT
                        !["worker"] = Status(Head(queue), "collecting_evidence", Never)]
        /\ UNCHANGED <<opened, file, clock, restarts, history>>

(* Mutant: the incidents counted are those in the state agent_running.     *)
RunsLastHourByState == {i \in opened : file[i].state = "agent_running"}

(* agent_runs_last_hour, from what the files tell *)
RunsLastHour == {i \in opened : file[i].started # Never /\ clock - file[i].started < Hour}

(* Within the budget, an agent is launched.                                *)
Launch == /\ At("evidence") /\ Listable
          /\ Cardinality(RunsLastHour) < Budget
          /\ Record("agent_running", clock, "agent")
          /\ UNCHANGED <<opened, file, queue, clock, restarts, history>>

(* agent.run, and status() with what it answered *)
RunAgent == /\ At("agent")
            /\ runs' = runs \cup {<<worker.inc, worker.at>>}
            /\ Record("same", Never, "decide")
            /\ UNCHANGED <<opened, file, queue, clock, restarts, promised, closed, finished, lost>>

(* The budget is spent, git, schema or policy say no, the deployment or    *)
(* its verification failed.                                                *)
Escalate == /\ \/ At("evidence") /\ Listable
               \/ At("decide") \/ At("deploy") \/ At("verify")
            /\ Record("escalated", Never, "report")
            /\ UNCHANGED <<opened, file, queue, clock, restarts, history>>

(* No action, a fix that is deployed, and then verified.                   *)
Progress == /\ \/ At("decide") /\ Record("closed", Never, "report")
               \/ At("decide") /\ Record("deploying", Never, "deploy")
               \/ At("deploy") /\ Record("verifying", Never, "verify")
               \/ At("verify") /\ Record("resolved", Never, "report")
            /\ UNCHANGED <<opened, file, queue, clock, restarts, history>>

(* render_report reads status.json; handle() returns.                      *)
Finish == /\ At("report") \/ At("last report")
          /\ ~file[worker.inc].torn
          /\ worker' = Resting
          /\ finished' = finished \cup {worker.inc}
          /\ UNCHANGED <<opened, file, queue, update, clock, restarts, runs, promised, closed, lost>>

(* An empty file has been read in status(), list_incidents or the report.  *)
ReadsEmpty ==
    \/ update["worker"].stage = "read" /\ file[worker.inc].torn
    \/ At("evidence") /\ ~Listable
    \/ (At("report") \/ At("last report")) /\ file[worker.inc].torn

(* Mutant: the handler of handle() only logs.                              *)
RaiseLogging ==
    /\ \/ ReadsEmpty /\ worker.pc # "last report"
       \/ \E pc \in {"evidence", "agent", "decide", "deploy", "verify"} : At(pc)
    /\ worker' = [worker EXCEPT !.pc = "report"]
    /\ update' = [update EXCEPT !["worker"] = NoUpdate]
    /\ UNCHANGED <<opened, file, queue, clock, restarts, history>>

(* Any exception of a run, a timeout of git or docker say, is caught and   *)
(* escalated.                                                              *)
Raise ==
    /\ \/ ReadsEmpty /\ worker.pc # "last report"
       \/ \E pc \in {"evidence", "agent", "decide", "deploy", "verify"} : At(pc)
    /\ Record("escalated", Never, "last report")
    /\ UNCHANGED <<opened, file, queue, clock, restarts, history>>

(* An exception while that happens leaves handle() and ends the thread.    *)
Die == /\ ReadsEmpty /\ worker.pc = "last report"
       /\ worker' = [Resting EXCEPT !.pc = "dead"]
       /\ update' = [update EXCEPT !["worker"] = NoUpdate]
       /\ UNCHANGED <<opened, file, queue, clock, restarts, history>>
-----------------------------------------------------------------------------
(* The process ends and is started again: files stay, the rest is new.     *)
Restart == /\ restarts < MaxRestarts
           /\ restarts' = restarts + 1
           /\ queue' = <<>> /\ worker' = Resting
           /\ update' = [thread \in {"server", "worker"} |-> NoUpdate]
           /\ UNCHANGED <<opened, file, clock, history>>

Tick == /\ clock < MaxTime
        /\ clock' = clock + 1
        /\ UNCHANGED <<opened, file, queue, update, worker, restarts, history>>

WorkerStep == \/ Take \/ Launch \/ RunAgent \/ Escalate \/ Progress \/ Finish \/ Raise \/ Die
FileStep(thread) == Read(thread) \/ Truncate(thread) \/ Write(thread)

RNext == \/ \E f \in Fingerprint : Fire(f)
         \/ \E f \in Resolvable : Resolve(f)
         \/ \E i \in Closable : Close(i)
         \/ \E thread \in {"server", "worker"} : FileStep(thread)
         \/ ServerFails
         \/ WorkerStep
         \/ Restart
         \/ Tick

RSpec == RInit /\ [][RNext]_rvars

(* Both threads run on; agents, tests and runbooks have timeouts.          *)
RFairSpec == /\ RSpec
             /\ WF_rvars(WorkerStep \/ FileStep("worker"))
             /\ WF_rvars(FileStep("server") \/ ServerFails)
-----------------------------------------------------------------------------
BeingOpened(i) == /\ update["server"].stage = "write" /\ update["server"].state = "open"
                  /\ update["server"].inc = i
WithWorker(i)  == worker.pc \notin {"idle", "dead"} /\ worker.inc = i

(* Type correctness; a worker that rests is in no update.  An incident is  *)
(* at one place: being opened, once in the queue, or with the worker; and  *)
(* at none when handle() is through with it.                               *)
RTypeOK ==
    /\ opened \subseteq Incident /\ Len(queue) <= MaxQueue
    /\ worker.pc \in {"idle", "evidence", "agent", "decide", "deploy", "verify", "report",
                      "last report", "dead"}
    /\ worker.pc \in {"idle", "dead"} => Idle("worker")
    /\ \A i \in opened : file[i].opened \in 1..clock /\ file[i].started \in 0..clock
    /\ \A thread \in {"server", "worker"} : Idle(thread) \/ update[thread].inc \in opened
    /\ IsInjective(queue) /\ ToSet(queue) \subseteq opened
    /\ \A i \in Incident : /\ BeingOpened(i) => i \notin ToSet(queue) /\ ~WithWorker(i)
                           /\ i \in ToSet(queue) => ~WithWorker(i)
    /\ \A i \in finished : ~BeingOpened(i) /\ i \notin ToSet(queue) /\ ~WithWorker(i)

(* "same fingerprint -> same incident, no new run": however often an alert *)
(* is repeated, attached, closed or resolved, an incident is run once, and *)
(* a second incident of the same alert within the window is run only after *)
(* the first was decided by the worker or by a human.                      *)
StormRunsOnce ==
    \A x, y \in runs :
      /\ x[1] = y[1] => x = y
      /\ (x[1] < y[1] /\ file[x[1]].fp = file[y[1]].fp
                      /\ file[y[1]].opened - file[x[1]].opened < Window)
         => x[1] \in finished \cup closed \/ file[x[1]].state \in Decided

(* The cost guard: in no hour are there more agent runs than the budget,   *)
(* though agent_runs_last_hour counts them from the files of incidents and *)
(* forgets with every restart, unless an update of such a file was lost.   *)
BudgetHolds ==
    \A x \in runs : Cardinality({y \in runs : /\ x[2] - Hour < y[2] /\ y[2] <= x[2]
                                             /\ y[1] \notin lost}) <= Budget

(* handle() promises never to lose an incident silently: once it is        *)
(* through with one, whatever went wrong in between, status.json says that *)
(* it was closed, resolved or escalated, unless an update was lost.        *)
FinishedIsRecorded ==
    \A i \in finished : file[i].torn \/ i \in lost \/ file[i].state \in Decided

(* An incident that the queue takes after the last restart is got through  *)
(* with, whatever happens to it or to others meanwhile, as long as the     *)
(* worker thread lives.                                                    *)
QueuedIsHandled ==
    \A i \in Incident :
      (restarts = MaxRestarts /\ \E k \in DOMAIN queue : queue[k] = i)
        ~> (i \in finished \/ worker.pc = "dead")

(* server.py: "The webhook returns 202 immediately; one worker thread runs *)
(* incidents one at a time": an alert that was answered 202 belongs to an  *)
(* incident that the worker gets through with, as long as both live.       *)
PromisedIsHandled ==
    \A i \in Incident : i \in promised ~> i \in finished \/ worker.pc = "dead"

(* server.py: a close ends an incident "so new alerts open a new one": it  *)
(* does not come back to life.                                             *)
ClosedStaysClosed ==
    \A i \in closed : file[i].torn \/ file[i].state = "closed"

(* pipeline.py: "never lose an incident silently": no exception of a run   *)
(* ends the one thread that handles incidents.                             *)
WorkerSurvives == worker.pc # "dead"

(* server.py: "The webhook returns 202 immediately": no crash leaves the   *)
(* intake unable to read its incidents for ever.                           *)
IntakeRecovers == []<>Listable
=============================================================================
