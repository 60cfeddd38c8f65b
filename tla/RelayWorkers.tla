---------------------------- MODULE RelayWorkers ----------------------------
(***************************************************************************)
(* The workers of src/03-deployment/worker.py against the store of         *)
(* AgentRelay, over HTTP that loses answers, delays requests beyond the    *)
(* client's timeout, and answers 429 or 5xx.  Each worker polls for a      *)
(* claim, computes, submits with retries, and heartbeats on the side.      *)
(*                                                                         *)
(* All workers share one agent identity, which also sends the tasks.  A    *)
(* worker has one call open at a time (its heartbeats apart); a request    *)
(* the client has given up on may still reach the server: late.            *)
(***************************************************************************)
EXTENDS AgentRelay

CONSTANTS Worker,   \* worker processes
          Tries,    \* submit_terminal gives up after this many (5 in the code)
          Upper     \* Input -> Value: the work, a function of the input

ASSUME WorkerAssumption ==
    /\ Tries \in Nat \ {0} /\ Upper \in [Input -> Value]
    /\ Agent # {}            \* the workers have an identity

VARIABLES worker,   \* Worker -> the state of run_worker
          late,     \* requests under way whose client has given up
          counted   \* <<worker, task, attempt>> logged as completed

wvars == <<agents, created, task, attempt, limit, reply, worker, late, counted>>

Me == CHOOSE a \in Agent : TRUE      \* the agent identity of the workers

Fresh == [pc |-> "poll", call |-> "none", answer |-> "none", task |-> 0, attempt |-> 0,
          beats |-> FALSE, tries |-> 0]

ClaimRequest == [op |-> "claim", task |-> 0, attempt |-> 0]
CompleteRequest(w) == [op |-> "complete", task |-> worker[w].task, attempt |-> worker[w].attempt]

WInit == /\ agents = {Me} /\ created = 0 /\ limit = MaxAttempts
         /\ task = [t \in TaskId |-> NoTask]
         /\ attempt = [t \in TaskId |-> [n \in AttemptNo |-> NoAttempt]]
         /\ reply = Answer("none")
         /\ worker = [w \in Worker |-> Fresh]
         /\ late = {} /\ counted = {}

Become(w, state) == worker' = [worker EXCEPT ![w] = state]
Alive(w) == worker[w].pc \notin {"dead", "claim_failed", "submit_failed"}
-----------------------------------------------------------------------------
(* What the server does with a request, whoever still waits for it.        *)
Output(t) == Upper[task[t].input]
ServerClaims == Claim(Me)
ServerCompletes(t, n) == CommitTerminal(Me, t, n, "complete", Output(t))

(* The worker sends the request of its current stage.                      *)
Send(w) == /\ worker[w].pc \in {"poll", "submit"} /\ worker[w].call = "none"
           /\ Become(w, [worker[w] EXCEPT !.call = "sent"])
           /\ UNCHANGED <<vars, late, counted>>

ServeClaim(w) ==
    /\ worker[w].pc = "poll" /\ worker[w].call = "sent"
    /\ ServerClaims
    /\ Become(w, [worker[w] EXCEPT !.call = "answered", !.answer = reply'.code,
                                   !.task = reply'.task, !.attempt = reply'.attempt])
    /\ UNCHANGED <<late, counted>>

ServeSubmit(w) ==
    /\ worker[w].pc = "submit" /\ worker[w].call = "sent"
    /\ ServerCompletes(worker[w].task, worker[w].attempt)
    /\ Become(w, [worker[w] EXCEPT !.call = "answered", !.answer = reply'.code])
    /\ UNCHANGED <<late, counted>>

(* 429 or 5xx: from the server before it did anything, or from the proxy   *)
(* in place of the server's answer.                                        *)
Busy(w) == /\ worker[w].call \in {"sent", "answered"}
           /\ Become(w, [worker[w] EXCEPT !.call = "answered", !.answer = "busy"])
           /\ UNCHANGED <<vars, late, counted>>

ServeLate ==
    \E r \in late :
      /\ late' = late \ {r}
      /\ IF r.op = "claim" THEN ServerClaims ELSE ServerCompletes(r.task, r.attempt)
      /\ UNCHANGED <<worker, counted>>
-----------------------------------------------------------------------------
(* The claim has been answered.                                            *)
Claimed(w) ==
    /\ worker[w].pc = "poll" /\ worker[w].call = "answered"
    /\ IF worker[w].answer = "claimed"
       THEN Become(w, [worker[w] EXCEPT !.pc = "work", !.call = "none", !.beats = TRUE])
       ELSE Become(w, Fresh)                      \* 204, or sleep after 429 and 5xx
    /\ UNCHANGED <<vars, late, counted>>

Finish(w) == /\ worker[w].pc = "work"
             /\ Become(w, [worker[w] EXCEPT !.pc = "submit", !.tries = 0])
             /\ UNCHANGED <<vars, late, counted>>

Retry(w) == IF worker[w].tries + 1 < Tries
            THEN [worker[w] EXCEPT !.call = "none", !.tries = @ + 1]
            ELSE [Fresh EXCEPT !.pc = "submit_failed"]

(* Mutant: every answer but a retryable one counts as completed.           *)
CompletesOnAnyAnswer(code) == code # "busy"

(* result.status_code == 200 *)
Completes(code) == code = "accepted"

(* The submission has been answered: counted, stale (409), or retried; any *)
(* other status raises out of run_worker.                                  *)
Submitted(w) ==
    /\ worker[w].pc = "submit" /\ worker[w].call = "answered"
    /\ IF worker[w].answer = "busy"
       THEN Become(w, Retry(w)) /\ UNCHANGED counted
       ELSE IF Completes(worker[w].answer)
       THEN /\ Become(w, Fresh)
            /\ counted' = counted \cup {<<w, worker[w].task, worker[w].attempt>>}
       ELSE /\ UNCHANGED counted
            /\ IF worker[w].answer \in {"stale_claim", "conflicting_terminal"}
               THEN Become(w, Fresh)
               ELSE Become(w, [Fresh EXCEPT !.pc = "submit_failed"])
    /\ UNCHANGED <<vars, late>>

(* httpx.HTTPError: the answer is lost, or the request is, or the request  *)
(* arrives after the client has stopped waiting.  submit_terminal catches  *)
(* it and tries again; the claim at the top of the loop has no handler.    *)
Disconnect(w) ==
    /\ worker[w].call \in {"sent", "answered"}
    /\ \/ UNCHANGED late
       \/ /\ worker[w].call = "sent"
          /\ late' = late \cup {IF worker[w].pc = "poll" THEN ClaimRequest
                                                         ELSE CompleteRequest(w)}
    /\ Become(w, IF worker[w].pc = "poll" THEN [Fresh EXCEPT !.pc = "claim_failed"]
                                          ELSE Retry(w))
    /\ UNCHANGED <<vars, counted>>

(* heartbeat_loop: renewed, it goes on; refused, it stops for good.  A     *)
(* heartbeat that fails in transport is only logged, which is no step.     *)
Beat(w) ==
    /\ worker[w].beats
    /\ Heartbeat(Me, worker[w].task, worker[w].attempt)
    /\ Become(w, [worker[w] EXCEPT !.beats = (reply'.code = "renewed")])
    /\ UNCHANGED <<late, counted>>

(* 429 or 5xx for a heartbeat.                                             *)
BeatBusy(w) ==
    /\ worker[w].beats
    /\ Become(w, [worker[w] EXCEPT !.beats = FALSE])
    /\ UNCHANGED <<vars, late, counted>>

(* The process is killed; its open request may still arrive.               *)
Crash(w) ==
    /\ Alive(w)
    /\ \/ UNCHANGED late
       \/ /\ worker[w].call = "sent"
          /\ late' = late \cup {IF worker[w].pc = "poll" THEN ClaimRequest
                                                         ELSE CompleteRequest(w)}
    /\ Become(w, [Fresh EXCEPT !.pc = "dead"])
    /\ UNCHANGED <<vars, counted>>

StoreStep == /\ \/ \E i \in Input : CreateTask(Me, Me, i, None)
                \/ RecoverPass
                \/ Tick
             /\ UNCHANGED <<worker, late, counted>>

WNext == \/ StoreStep
         \/ ServeLate
         \/ \E w \in Worker :
               \/ Send(w) \/ ServeClaim(w) \/ ServeSubmit(w) \/ Busy(w) \/ Claimed(w)
               \/ Finish(w) \/ Submitted(w) \/ Disconnect(w) \/ Beat(w) \/ BeatBusy(w)
               \/ Crash(w)

WSpec == WInit /\ [][WNext]_wvars

(* Worker and server threads run; the server, asked again and again, does  *)
(* not answer 429 or 5xx for ever.  Heartbeats, connections and the lives  *)
(* of workers are promised nothing.                                        *)
WFairSpec ==
    /\ WSpec
    /\ WF_wvars(RecoverPass /\ UNCHANGED <<worker, late, counted>>)
    /\ WF_wvars(Tick /\ UNCHANGED <<worker, late, counted>>)
    /\ \A w \in Worker :
         /\ WF_wvars(Send(w)) /\ WF_wvars(Finish(w))
         /\ WF_wvars(Claimed(w)) /\ WF_wvars(Submitted(w))
         /\ SF_wvars(ServeClaim(w)) /\ WF_wvars(ServeSubmit(w))
-----------------------------------------------------------------------------
(* A task that a worker logs as completed is completed, by the attempt of  *)
(* that worker and with its output, after any number of lost answers and   *)
(* retries and whatever delayed request arrives later; and no task is      *)
(* logged twice.                                                           *)
CountedIsStored ==
    \A x \in counted :
      /\ task[x[2]].status = "completed"
      /\ task[x[2]].output = Output(x[2])
      /\ attempt[x[2]][x[3]].outcome = "completed"
      /\ \A y \in counted : y[2] = x[2] => y = x

(* A claim token reaches one worker only, and of all the workers that      *)
(* believe to hold a task at most one can still get an answer accepted.    *)
OneEffectiveHolder ==
    \A v, w \in Worker :
      (v # w /\ {worker[v].pc, worker[w].pc} \subseteq {"work", "submit"}
             /\ worker[v].task = worker[w].task)
      => /\ worker[v].attempt # worker[w].attempt
         /\ \E u \in {v, w} :
              attempt[worker[u].task][worker[u].attempt].outcome = "expired"

(* As long as one worker neither dies nor gives up, every task that was    *)
(* accepted for delivery ends completed or failed: no crash of another     *)
(* worker, lost answer or orphaned claim leaves it behind.                 *)
EveryTaskSettles ==
    (\E w \in Worker : []Alive(w)) =>
       \A t \in TaskId : task[t].status = "queued" ~> task[t].status \in Settled

(* SPEC.md: "Clients use bounded exponential backoff with jitter for       *)
(* connection failures, 429, and 5xx responses": a worker outlives a       *)
(* failed connection while it polls.                                       *)
PollingOutlivesDisconnect == \A w \in Worker : worker[w].pc # "claim_failed"

(* The same sentence about heartbeats: one 429 or 5xx does not end the     *)
(* heartbeats of a claim that is still active.                             *)
HeartbeatOutlivesBusy ==
    [][\A w \in Worker :
         (/\ worker[w].pc = "work" /\ worker[w].beats /\ worker'[w].pc = "work"
          /\ attempt[worker[w].task][worker[w].attempt].outcome = "processing"
          /\ attempt[worker[w].task][worker[w].attempt].lease > 0)
         => worker'[w].beats]_wvars
=============================================================================
