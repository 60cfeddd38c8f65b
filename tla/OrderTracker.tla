---------------------------- MODULE OrderTracker ----------------------------
(***************************************************************************)
(* The order tracker (app/main.py) and what its telemetry (telemetry.py,   *)
(* the Collector, Prometheus, Loki) lets an observer see of it.            *)
(*                                                                         *)
(* A handler reads and writes rows that no other handler changes, so it is *)
(* one step; requests that are answered below 500 leave nothing that is    *)
(* read here, and the status a PATCH writes is not read either.  Of an     *)
(* order only the kind matters that order_detail tells apart.  A version   *)
(* of the app is the set of the kinds it answers with a 500.               *)
(***************************************************************************)
EXTENDS Integers, SequencesExt, FiniteSetsExt

CONSTANTS Month,         \* days of a month
          Delay,         \* ticks within which a process exports what it counted
          LogLimit,      \* error lines that are read from Loki
          MaxOrders,     \* bound: rows
          MaxFailures,   \* bound: failures of one process
          MaxProcesses   \* bound: processes of the app

ASSUME OrderTrackerAssumption ==
    /\ {Month, Delay, LogLimit, MaxFailures, MaxProcesses} \subseteq Nat \ {0}
    /\ MaxOrders \in Nat

Kind     == {"standard", "fits", "overflows"}
Route    == {"/api/orders", "/api/orders/{order_id}"}
OneOrder == "/api/orders/{order_id}"

VARIABLES orders,   \* the kinds of the rows; an order's id is its position
          version,  \* the version of the running process
          process,  \* the number of the running process, its service.instance.id
          count,    \* route -> its counter of 5xx answers
          unsent,   \* the orders of its error lines that are not in Loki yet
          since,    \* ticks since its last export
          prom,     \* process -> route -> the sample Prometheus answers with
          loki      \* the orders of the newest error lines

tvars == <<orders, version, process, count, unsent, since, prom, loki>>

Original == {"overflows"}
NoCount  == [r \in Route |-> 0]

(* placed_at.replace(day=placed_at.day + 2), for express orders only       *)
KindOf(priority, day) ==
    IF priority = "standard" THEN "standard"
    ELSE IF day + 2 > Month THEN "overflows" ELSE "fits"

(* init_db: standard orders of today, and an express order placed at the   *)
(* end of the previous month.                                              *)
OInit == /\ orders = <<KindOf("standard", 1), KindOf("express", Month)>>
         /\ version = Original /\ process = 1
         /\ count = NoCount /\ unsent = <<>> /\ since = 0
         /\ prom = [p \in 1..MaxProcesses |-> NoCount]
         /\ loki = <<>>
-----------------------------------------------------------------------------
(* telemetry_middleware: an answer of 500 is counted by route and logged   *)
(* with the route and the order.id get_order has put on the span; only the *)
(* lines of the route with an order in its path are read by anyone.        *)
Answer(route, kind, id) ==
    IF kind \in version
    THEN /\ MapThenSumSet(LAMBDA r : count[r], Route) < MaxFailures
         /\ count' = [count EXCEPT ![route] = @ + 1]
         /\ unsent' = IF route = OneOrder THEN Append(unsent, id) ELSE unsent
    ELSE UNCHANGED <<count, unsent>>

(* create_order commits the row before get_order computes the answer.      *)
Create(priority, day) ==
    LET kind == KindOf(priority, day) IN
    /\ Len(orders) < MaxOrders
    /\ orders' = Append(orders, kind)
    /\ Answer("/api/orders", kind, Len(orders) + 1)
    /\ UNCHANGED <<version, process, since, prom, loki>>

GetOrder(id) ==
    /\ Answer(OneOrder, orders[id], id)
    /\ UNCHANGED <<orders, version, process, since, prom, loki>>

(* The UPDATE is committed before get_order computes the answer.           *)
UpdateStatus(id) == GetOrder(id)

Newest(lines) ==
    IF Len(lines) > LogLimit THEN SubSeq(lines, Len(lines) - LogLimit + 1, Len(lines))
                             ELSE lines

(* The counters are cumulative and replace the last sample of the series;  *)
(* the log lines are added.                                                *)
Flush == /\ prom' = [prom EXCEPT ![process] = count]
         /\ loki' = Newest(loki \o unsent)

Export ==
    /\ Flush
    /\ unsent' = <<>> /\ since' = 0
    /\ UNCHANGED <<orders, version, process, count>>

(* A new process counts from 0 in a series of its own; the old one has     *)
(* exported its last counts on the way out, or was killed.                 *)
Start(v) ==
    /\ process < MaxProcesses
    /\ Flush \/ UNCHANGED <<prom, loki>>
    /\ process' = process + 1 /\ version' = v
    /\ count' = NoCount /\ unsent' = <<>> /\ since' = 0
    /\ UNCHANGED orders

(* Five minutes after its last sample, Prometheus answers without a series.*)
Expire(p) ==
    /\ p < process /\ prom[p] # NoCount
    /\ prom' = [prom EXCEPT ![p] = NoCount]
    /\ UNCHANGED <<orders, version, process, count, unsent, since, loki>>

Tick ==
    /\ since < Delay
    /\ since' = since + 1
    /\ UNCHANGED <<orders, version, process, count, unsent, prom, loki>>

(* sum(app_http_requests_total{http_route, code=~"5.."}) or vector(0)      *)
FiveXXTotal(route) == MapThenSumSet(LAMBDA p : prom[p][route], 1..MaxProcesses)

Users == \/ \E priority \in {"standard", "express"}, day \in 1..Month : Create(priority, day)
         \/ \E id \in DOMAIN orders : GetOrder(id) \/ UpdateStatus(id)

OTypeOK ==
    /\ orders \in Seq(Kind) /\ version \subseteq Kind /\ process \in 1..MaxProcesses
    /\ count \in [Route -> 0..MaxFailures] /\ since \in 0..Delay
    /\ ToSet(unsent \o loki) \subseteq DOMAIN orders /\ Len(loki) <= LogLimit
    /\ prom \in [1..MaxProcesses -> [Route -> 0..MaxFailures]]
    /\ \A r \in Route : prom[process][r] <= count[r]
=============================================================================
