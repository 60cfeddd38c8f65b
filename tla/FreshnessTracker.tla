-------------------------- MODULE FreshnessTracker --------------------------
(***************************************************************************)
(* The dataset freshness tracker (catalog/models.py, views.py, admin.py):  *)
(* one reader of the dashboard, which computes its rows with a query after *)
(* the other, beside people who log refreshes and an administrator who     *)
(* records, corrects and deletes them, and who changes what is expected of *)
(* a dataset.  Each query and each write is a transaction of its own       *)
(* (SQLite in autocommit mode); a write waits for the lock of the file.    *)
(*                                                                         *)
(* Datasets are numbered in the order of their names.  A time is a number  *)
(* of ticks; order_by("-refreshed_at") says nothing of equal times.        *)
(***************************************************************************)
EXTENDS Integers, FiniteSetsExt

CONSTANTS Datasets,   \* number of datasets
          Dues,       \* what cadence_hours + sla_grace_hours may be, in ticks
          MaxLogs,    \* bound: refresh logs written or waiting to be written
          MaxTime     \* bound

ASSUME FreshnessAssumption ==
    /\ {Datasets, MaxLogs} \subseteq Nat \ {0} /\ MaxTime \in Nat
    /\ Dues # {} /\ Dues \subseteq Nat

Dataset == 1..Datasets
Status  == {"fresh", "stale", "failing", "never"}

VARIABLES now,      \* timezone.now()
          active,   \* the datasets with is_active
          due,      \* dataset -> after how long a success is overdue
          logs,     \* the rows of RefreshLog
          written,  \* the number of rows ever inserted, the last primary key
          stamped,  \* the rows that log_refresh() has made and not inserted yet
          page,     \* the dashboard request: pc, and the variables of its loop
          rows,     \* dataset -> status, what the loop has computed so far
          seen      \* history: of the datasets while they are looked at

fvars == <<now, active, due, logs, written, stamped, page, rows, seen>>
table == <<active, due, logs, written>>

NoLog == [id |-> 0, ds |-> 0, at |-> 0, ok |-> FALSE]
NothingSeen == [fresh |-> FALSE, edited |-> FALSE, overtaken |-> FALSE, broken |-> {}]
Closed == [pc |-> "closed", todo |-> {}, due |-> <<>>, ds |-> 0, success |-> NoLog]

FInit == /\ now = 0 /\ active = Dataset /\ due \in [Dataset -> Dues]
         /\ logs = {} /\ written = 0 /\ stamped = {}
         /\ page = Closed /\ rows = <<>>
         /\ seen = NothingSeen

LogsOf(ds) == {l \in logs : l.ds = ds}

(* What the tool is to tell: the latest attempt succeeded, not too long    *)
(* ago for the schedule the page has loaded; the latest attempt failed.    *)
IsFresh(ds) ==
    \E s \in LogsOf(ds) : /\ s.ok /\ now <= s.at + page.due[ds]
                          /\ \A l \in LogsOf(ds) : l.at <= s.at

IsBroken(ds) ==
    \E f \in LogsOf(ds) : ~f.ok /\ \A l \in LogsOf(ds) \ {f} : l.at < f.at

(* An attempt is entered behind a failure that has a later time.           *)
Overtaken(a) == a.ok /\ \E f \in LogsOf(a.ds) : ~f.ok /\ f.at > a.at

(* History: the dataset of the current row was fresh at some moment since  *)
(* its row was begun; its log was changed otherwise than by an attempt;    *)
(* a success was entered too late to be its latest attempt; the datasets   *)
(* that were broken ever since the page was opened.                        *)
Watch(edits, overtaken) ==
    seen' = [fresh     |-> seen.fresh \/ IsFresh(page.ds)',
             edited    |-> seen.edited \/ edits,
             overtaken |-> seen.overtaken \/ overtaken,
             broken    |-> {ds \in seen.broken : IsBroken(ds)'}]
-----------------------------------------------------------------------------
(* dashboard(): the active datasets are loaded, with their schedules.      *)
Open ==
    /\ page.pc = "closed"
    /\ page' = [Closed EXCEPT !.pc = "next", !.todo = active, !.due = due]
    /\ rows' = <<>>
    /\ seen' = [seen EXCEPT !.broken = {ds \in active : IsBroken(ds)}]
    /\ UNCHANGED <<now, table, stamped>>

(* Mutant: the first of the newest ids instead of the newest times.        *)
FirstById(ls) == IF ls = {} THEN {NoLog} ELSE {l \in ls : \A m \in ls : m.id <= l.id}

(* order_by("-refreshed_at").first()                                       *)
First(ls) == IF ls = {} THEN {NoLog} ELSE {l \in ls : \A m \in ls : m.at <= l.at}

RowsWith(ds, status) == [d \in DOMAIN rows \cup {ds} |-> IF d = ds THEN status ELSE rows[d]]

(* status(): the last_refresh() of the next dataset decides, or ...        *)
LastRefresh ==
    LET ds == Min(page.todo) IN
    /\ page.pc = "next" /\ page.todo # {}
    /\ \E last \in First(LogsOf(ds)) :
         /\ page' = IF last.ok THEN [page EXCEPT !.pc = "success", !.ds = ds, !.todo = @ \ {ds}]
                    ELSE [page EXCEPT !.todo = @ \ {ds}]
         /\ rows' = IF last.ok THEN rows
                    ELSE RowsWith(ds, IF last = NoLog THEN "never" ELSE "failing")
    /\ seen' = [seen EXCEPT !.fresh = page'.ds = ds /\ IsFresh(ds)]
    /\ UNCHANGED <<now, table, stamped>>

(* Mutant: due_at() goes by the last attempt.                              *)
AnyAttempt(ds) == LogsOf(ds)

Successes(ds) == {l \in LogsOf(ds) : l.ok}

(* ... last_success() in due_at() ...                                      *)
LastSuccess ==
    /\ page.pc = "success"
    /\ \E last \in First(Successes(page.ds)) :
          page' = [page EXCEPT !.pc = "compare", !.success = last]
    /\ UNCHANGED <<now, table, stamped, rows, seen>>

(* ... is compared with the time; without one there is nothing to be late  *)
(* for.                                                                    *)
Compare ==
    /\ page.pc = "compare"
    /\ page' = [page EXCEPT !.pc = "next", !.ds = 0, !.success = NoLog]
    /\ rows' = RowsWith(page.ds, IF page.success # NoLog /\ now > page.success.at + page.due[page.ds]
                                 THEN "stale" ELSE "fresh")
    /\ seen' = [NothingSeen EXCEPT !.broken = seen.broken]
    /\ UNCHANGED <<now, table, stamped>>

(* The rows are sorted, counted and shown.                                 *)
Render ==
    /\ page.pc = "next" /\ page.todo = {}
    /\ page' = Closed /\ rows' = <<>>
    /\ seen' = NothingSeen
    /\ UNCHANGED <<now, table, stamped>>
-----------------------------------------------------------------------------
Attempts == written + Cardinality(stamped)

(* mark_refreshed(): log_refresh() of a dataset that was found active; the *)
(* row gets its time when it is made ...                                   *)
Stamp(ds, ok) ==
    /\ ds \in active /\ Attempts < MaxLogs
    /\ stamped' = stamped \cup {[ds |-> ds, at |-> now, ok |-> ok]}
    /\ UNCHANGED <<now, table, page, rows, seen>>

Insert(a) ==
    /\ written' = written + 1
    /\ logs' = logs \cup {[id |-> written + 1, ds |-> a.ds, at |-> a.at, ok |-> a.ok]}

(* ... and is inserted once the database lets it, in whatever order the    *)
(* requests get through; it may have been deactivated by then.             *)
MarkRefreshed(a) ==
    /\ Insert(a) /\ stamped' = stamped \ {a}
    /\ UNCHANGED <<now, active, due, page, rows>>
    /\ Watch(FALSE, a.ds = page.ds /\ Overtaken(a))

(* "database is locked": the request ends with an error, nothing is logged. *)
Locked(a) ==
    /\ stamped' = stamped \ {a}
    /\ UNCHANGED <<now, table, page, rows, seen>>

(* RefreshLogAdmin, seed_demo: an attempt is recorded with any time, its   *)
(* time or outcome is corrected, or it is deleted.                         *)
Record(ds, at, ok) ==
    /\ Attempts < MaxLogs
    /\ Insert([ds |-> ds, at |-> at, ok |-> ok])
    /\ UNCHANGED <<now, active, due, stamped, page, rows>>
    /\ Watch(ds = page.ds, FALSE)

Correct(l, at, ok) ==
    /\ logs' = (logs \ {l}) \cup {[l EXCEPT !.at = at, !.ok = ok]}
    /\ UNCHANGED <<now, active, due, written, stamped, page, rows>>
    /\ Watch(l.ds = page.ds, FALSE)

Delete(l) ==
    /\ logs' = logs \ {l}
    /\ UNCHANGED <<now, active, due, written, stamped, page, rows>>
    /\ Watch(l.ds = page.ds, FALSE)

(* DatasetAdmin and the inline of SourceAdmin: is_active, cadence and      *)
(* sla_grace_hours are changed; deleting a dataset deletes its log with    *)
(* it, and a row that comes after that has no dataset to refer to.         *)
Activate(ds) ==
    /\ active' = IF ds \in active THEN active \ {ds} ELSE active \cup {ds}
    /\ UNCHANGED <<now, due, logs, written, stamped, page, rows, seen>>

Reschedule(ds, hours) ==
    /\ due' = [due EXCEPT ![ds] = hours]
    /\ UNCHANGED <<now, active, logs, written, stamped, page, rows, seen>>

Remove(ds) ==
    /\ active' = active \ {ds} /\ logs' = logs \ LogsOf(ds)
    /\ stamped' = {a \in stamped : a.ds # ds}
    /\ UNCHANGED <<now, due, written, page, rows>>
    /\ Watch(ds = page.ds, FALSE)

Tick ==
    /\ now < MaxTime /\ now' = now + 1
    /\ UNCHANGED <<table, stamped, page, rows>>
    /\ Watch(FALSE, FALSE)

Dashboard == Open \/ LastRefresh \/ LastSuccess \/ Compare \/ Render

FNext ==
    \/ Dashboard
    \/ \E ds \in Dataset, ok \in BOOLEAN :
          \/ Stamp(ds, ok)
          \/ \E at \in 0..MaxTime : Record(ds, at, ok)
    \/ \E a \in stamped : MarkRefreshed(a) \/ Locked(a)
    \/ \E l \in logs : \/ Delete(l)
                       \/ \E at \in 0..MaxTime, ok \in BOOLEAN : Correct(l, at, ok)
    \/ \E ds \in Dataset : \/ Activate(ds) \/ Remove(ds)
                           \/ \E hours \in Dues : Reschedule(ds, hours)
    \/ Tick

FSpec == FInit /\ [][FNext]_fvars
-----------------------------------------------------------------------------
(* Type correctness; the keys of the log are distinct, no row waits to be  *)
(* inserted from a time to come, and rows are computed in the order of the *)
(* names.                                                                  *)
FTypeOK ==
    /\ now \in 0..MaxTime /\ active \subseteq Dataset /\ due \in [Dataset -> Dues]
    /\ \A l \in logs : /\ l.id \in 1..written /\ l.ds \in Dataset /\ l.at \in 0..MaxTime
                       /\ \A m \in logs : m.id = l.id => m = l
    /\ stamped \subseteq [ds : Dataset, at : 0..now, ok : BOOLEAN]
    /\ page.pc \in {"closed", "next", "success", "compare"}
    /\ \A d \in DOMAIN rows : rows[d] \in Status /\ \A e \in page.todo : d < e

RowIsFresh == page.pc = "compare" /\ page'.pc = "next" /\ rows'[page.ds] = "fresh"

(* README: which datasets "are stale or failing right now".  A dataset is  *)
(* shown as fresh only if it was, by the schedule the page has loaded, at  *)
(* some moment while its row was being computed, whatever attempts were    *)
(* logged between the queries, provided that in that time nobody           *)
(* corrected, deleted or backdated its log, and that no success was        *)
(* inserted after a failure which has a later time.                        *)
FreshIsHonest == [][RowIsFresh => seen.fresh \/ seen.edited \/ seen.overtaken]_fvars

(* plan.md: "a fresh-but-now-broken table must surface": a dataset whose   *)
(* latest attempt, by its time, has failed since before the page was       *)
(* opened is shown as failing, also when older attempts were recorded      *)
(* after that one.                                                         *)
BreakageIsShown ==
    [][page.pc = "next" /\ page'.pc = "closed"
       => \A ds \in seen.broken \cap DOMAIN rows : rows[ds] = "failing"]_fvars

(* Promises the code does not keep.  Of fresh datasets without a proviso;  *)
(* when nothing but attempts is entered, which wait for each other to be   *)
(* inserted; by the schedule that is in force when the row is computed.    *)
FreshIsAlwaysHonest   == [][RowIsFresh => seen.fresh]_fvars
FreshDespiteWaiting   == [][RowIsFresh => seen.fresh \/ seen.edited]_fvars
FreshByTodaysSchedule ==
    [][RowIsFresh /\ page.success # NoLog => now <= page.success.at + due[page.ds]]_fvars
=============================================================================
