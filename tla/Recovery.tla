------------------------------ MODULE Recovery ------------------------------
(***************************************************************************)
(* How the responder finds out whether a fix works: the evidence collected *)
(* for an alert (evidence.py), the requests picked from it for replay      *)
(* (_verification_paths), verify-recovery.sh, and the rollback after it,   *)
(* beside users and an operator of the same app (OrderTracker).            *)
(*                                                                         *)
(* One incident is followed.  What Remediation says of its branch and its  *)
(* images is not repeated: a deployment starts a version, a rollback the   *)
(* one that ran before.                                                    *)
(***************************************************************************)
EXTENDS OrderTracker

CONSTANTS Settle,     \* ticks verify-recovery.sh sleeps before it reads the counter
          MaxPaths,   \* requests that are replayed at most
          Fix         \* versions the agent may come up with

ASSUME RecoveryAssumption ==
    /\ Settle \in Nat /\ Settle > Delay   \* "settle_seconds: 12  # > metric export interval"
    /\ MaxPaths \in Nat \ {0} /\ Fix \subseteq SUBSET Kind

VARIABLES inc,    \* the incident: pc, and what _handle and verify-recovery.sh remember
          saw     \* history: evidence collected, failures and disturbances of the verification

rvars == <<tvars, inc, saw>>

NoRoute == "none"

RecInit == /\ OInit
           /\ inc = [pc |-> "idle", route |-> NoRoute, base |-> Original, samples |-> {},
                     left |-> {}, before |-> 0, ok |-> TRUE, wait |-> 0]
           /\ saw = [evidence |-> {}, failure |-> FALSE, masked |-> FALSE, replaced |-> FALSE]

At(pc) == inc.pc = pc

(* Grafana alerts on a route with 5xx answers.                             *)
Alert(route) ==
    /\ At("idle") /\ FiveXXTotal(route) > 0
    /\ inc' = [inc EXCEPT !.pc = "collect", !.route = route]
    /\ UNCHANGED <<tvars, saw>>

(* The newest error lines of the alert's route, each by its order, if it   *)
(* is the route with an order in its path; none without an answer of Loki. *)
CollectLogs(answers) == IF answers /\ inc.route = OneOrder THEN loki ELSE <<>>

(* The search of Tempo lags behind, and only the GET requests it finds are *)
(* replayed: any of those that failed.                                     *)
CollectTraces == IF inc.route = OneOrder THEN SUBSET ToSet(loki \o unsent) ELSE {{}}

(* The orders that failed last, as many as can be replayed: the lines are  *)
(* gone through from the newest on.                                        *)
Latest(lines) ==
    {lines[k] : k \in {n \in DOMAIN lines :
                         Cardinality({lines[m] : m \in n..Len(lines)}) <= MaxPaths}}

(* Mutant: only the traces are looked at.                                  *)
SamplesOfTraces(lines, traces) == {s \in SUBSET traces : Cardinality(s) <= MaxPaths}

(* failing_request_samples: those of the logs first, then of the traces;   *)
(* capped.                                                                 *)
Samples(lines, traces) ==
    {s \in SUBSET (Latest(lines) \cup traces) :
       /\ Latest(lines) \subseteq s /\ Cardinality(s) <= MaxPaths
       /\ s = Latest(lines) \cup traces \/ Cardinality(s) = MaxPaths}

Collect(answers) ==
    LET lines == CollectLogs(answers) IN
    /\ At("collect")
    /\ \E traces \in CollectTraces : \E samples \in Samples(lines, traces) :
          inc' = [inc EXCEPT !.pc = "deploy", !.samples = samples]
    /\ saw' = [saw EXCEPT !.evidence = Latest(lines)]
    /\ UNCHANGED tvars

(* Mutant: no cap.                                                         *)
AllPaths(samples, requests) == {samples \cup requests}

(* _verification_paths: the samples, then the requests the agent names,    *)
(* capped; without any, /healthz (here the empty set).  An id may be one   *)
(* that no order has: it is answered 404.                                  *)
VerificationPaths(samples, requests) ==
    {samples \cup more : more \in {m \in SUBSET requests :
                                     Cardinality(samples \cup m) <= MaxPaths}}

(* deploy-fix.sh; then verify-recovery.sh begins with /healthz, and sleeps.*)
Deploy(v, requests, healthy) ==
    /\ At("deploy")
    /\ Start(v)
    /\ \E paths \in VerificationPaths(inc.samples, requests) :
          inc' = [inc EXCEPT !.pc = "read_before", !.base = version, !.samples = {},
                             !.left = paths, !.ok = healthy, !.wait = Settle]
    /\ UNCHANGED saw

(* A query that fails is "error" and no recovery.                          *)
ReadBefore(answered) ==
    /\ At("read_before") /\ inc.wait = 0
    /\ inc' = [inc EXCEPT !.pc = "replay", !.before = FiveXXTotal(inc.route),
                          !.ok = @ /\ answered]
    /\ UNCHANGED <<tvars, saw>>

(* History: what is replayed is no longer answered by the same version, or *)
(* the two reads no longer add up the same series; and something failed on *)
(* the route when an export was still to come before the second read.      *)
SeriesChange == process' # process \/ \E p \in 1..(process - 1) : prom'[p] # prom[p]

Noticed ==
    LET verifying == inc.pc \in {"replay", "read_after"}
        early     == At("replay") \/ (At("read_after") /\ inc.wait > Delay)
    IN  [saw EXCEPT !.failure  = @ \/ (early /\ count'[inc.route] > count[inc.route]),
                    !.masked   = @ \/ (verifying /\ SeriesChange),
                    !.replaced = @ \/ (verifying /\ process' # process)]

(* GET of a path: 5xx, or no answer at all, is no recovery; the attempts   *)
(* of one path get the same answer.                                        *)
Replay(id, reached) ==
    /\ At("replay") /\ id \in inc.left
    /\ IF reached THEN GetOrder(id) ELSE UNCHANGED tvars
    /\ inc' = [inc EXCEPT !.left = @ \ {id},
                          !.ok = @ /\ reached /\ orders[id] \notin version]
    /\ saw' = Noticed

(* Mutant: the counter is read right after the last replay.                *)
NoPause == 0

Pause == Settle

SleepAgain ==
    /\ At("replay") /\ inc.left = {}
    /\ inc' = [inc EXCEPT !.pc = "read_after", !.wait = Pause]
    /\ UNCHANGED <<tvars, saw>>

Recovered(answered) ==
    inc.ok /\ answered /\ FiveXXTotal(inc.route) <= inc.before

ReadAfter(answered) ==
    /\ At("read_after") /\ inc.wait = 0
    /\ inc' = [inc EXCEPT !.pc = IF Recovered(answered) THEN "resolved" ELSE "rollback"]
    /\ UNCHANGED <<tvars, saw>>

(* rollback.sh                                                             *)
Rollback ==
    /\ At("rollback")
    /\ Start(inc.base)
    /\ inc' = [inc EXCEPT !.pc = "rolled_back"]
    /\ UNCHANGED saw

(* The app by itself, its users, and an operator who deploys; a sleep      *)
(* lasts while time passes.  Bound: they are followed until the incident   *)
(* has ended.                                                              *)
Environment ==
    /\ ~(At("resolved") \/ At("rolled_back"))
    /\ \/ Users /\ UNCHANGED inc
       \/ Export /\ UNCHANGED inc
       \/ (\E p \in 1..MaxProcesses : Expire(p)) /\ UNCHANGED inc
       \/ (\E v \in Fix : Start(v)) /\ UNCHANGED inc
       \/ Tick /\ inc' = [inc EXCEPT !.wait = IF @ > 0 THEN @ - 1 ELSE 0]
    /\ saw' = Noticed

RecNext ==
    \/ Environment
    \/ \E route \in Route : Alert(route)
    \/ \E answers \in BOOLEAN : Collect(answers)
    \/ \E v \in Fix, requests \in SUBSET DOMAIN orders, healthy \in BOOLEAN :
          Deploy(v, requests, healthy)
    \/ \E answered \in BOOLEAN : ReadBefore(answered) \/ ReadAfter(answered)
    \/ \E id \in DOMAIN orders, reached \in BOOLEAN : Replay(id, reached)
    \/ SleepAgain
    \/ Rollback

RecSpec == RecInit /\ [][RecNext]_rvars
-----------------------------------------------------------------------------
(* Type correctness of the app and of the incident.                        *)
RecTypeOK ==
    /\ OTypeOK
    /\ inc.pc \in {"idle", "collect", "deploy", "read_before", "replay", "read_after",
                   "resolved", "rollback", "rolled_back"}
    /\ inc.samples \cup inc.left \cup saw.evidence \subseteq DOMAIN orders
    /\ Cardinality(inc.samples \cup inc.left) <= MaxPaths /\ inc.wait \in 0..Settle
    /\ inc.pc # "idle" => inc.route \in Route

Resolves == inc.pc = "read_after" /\ inc'.pc = "resolved"

(* verify-recovery.sh: "after the metric export interval, the 5xx counter  *)
(* of the route must not have grown".  A failure on the route after the    *)
(* first read, a user's as well as a replayed one, is seen by the second   *)
(* in spite of the delayed export, if there is more than an export         *)
(* interval left until then; as long as the same process runs and no       *)
(* series of an older one goes away.                                       *)
FailuresAreNoticed == [][Resolves => ~saw.failure \/ saw.masked]_rvars

(* evidence.py, pipeline.py: once a fix is declared to work, it serves the *)
(* MaxPaths orders that failed last, as the error lines in the evidence    *)
(* tell, unless an operator has put another version in its place since the *)
(* first read.  Older failures in the evidence are not replayed.           *)
EvidenceIsServed ==
    [][Resolves => saw.replaced \/ \A id \in saw.evidence : orders[id] \notin version]_rvars

(* verify-recovery.sh: "after the metric export interval, the 5xx counter  *)
(* of the route must not have grown", however late the failure: all that   *)
(* the process has counted is in the sum of the second read.               *)
LateFailuresAreNoticed ==
    [][Resolves => prom[process][inc.route] = count[inc.route]]_rvars

(* verify-recovery.sh: "the 5xx counter of the route must not have grown"  *)
(* during the verification, whatever becomes of older series.              *)
GrowthIsNoticed == [][Resolves => ~saw.failure]_rvars

(* verify-recovery.sh: "Exit 0 = recovered": a version that is declared to *)
(* work does not fail on what the one it replaced failed on.               *)
ExitZeroMeansRecovered ==
    [][Resolves => saw.replaced \/ inc.base \cap version = {}]_rvars
=============================================================================
