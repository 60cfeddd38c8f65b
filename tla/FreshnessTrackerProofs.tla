----------------------- MODULE FreshnessTrackerProofs ------------------------
(***************************************************************************)
(* Proofs about the freshness tracker, for any number of datasets and of   *)
(* log entries, any schedules and any time.                                *)
(*                                                                         *)
(* The status of a dataset is put together from two queries and the clock. *)
(* What saves it is that the outcome of the latest attempt is looked at    *)
(* first: a success that is inserted in between is the latest attempt, or  *)
(* as overdue as the one after it, or overtaken by a failure.              *)
(***************************************************************************)
EXTENDS FreshnessTracker, WellFoundedInduction, TLAPS

Log  == [id : Nat \ {0}, ds : Dataset, at : 0..MaxTime, ok : BOOLEAN]
Loop == [pc : {"closed", "next", "success", "compare"}, todo : SUBSET Dataset,
         due : [Dataset -> Dues] \cup {<<>>}, ds : 0..Datasets, success : Log \cup {NoLog}]
Seen == [fresh : BOOLEAN, edited : BOOLEAN, overtaken : BOOLEAN, broken : SUBSET Dataset]

(* The tables: keys are distinct and were handed out; what waits to be     *)
(* inserted was stamped before.                                            *)
Tables == /\ now \in 0..MaxTime /\ active \subseteq Dataset /\ due \in [Dataset -> Dues]
          /\ stamped \subseteq [ds : Dataset, at : 0..now, ok : BOOLEAN]
          /\ written \in Nat /\ logs \subseteq Log
          /\ \A l \in logs : l.id <= written /\ \A m \in logs : m.id = l.id => m = l

Looking == page.pc \in {"success", "compare"}

(* The loop goes through the datasets in order, and computes one at a time *)
(* when the log is not enough.                                             *)
Request == /\ page \in Loop /\ seen \in Seen
           /\ page.pc # "closed" => page.due \in [Dataset -> Dues]
           /\ Looking => page.ds \in Dataset
           /\ DOMAIN rows \subseteq Dataset /\ \A d \in DOMAIN rows : rows[d] \in Status
           /\ \A e \in page.todo : /\ \A d \in DOMAIN rows : d < e
                                   /\ Looking => page.ds < e

(* As long as a dataset was not seen to be fresh, nor edited or overtaken, *)
(* it has had a success, but none that is not overdue.                     *)
Overdue(l) == l.at + page.due[page.ds] < now
Undisturbed == ~seen.fresh /\ ~seen.edited /\ ~seen.overtaken
Honest ==
    Undisturbed =>
      /\ page.pc = "success" => /\ Successes(page.ds) # {}
                                /\ \A l \in Successes(page.ds) : Overdue(l)
      /\ page.pc = "compare" => page.success # NoLog /\ Overdue(page.success)

(* A dataset that was broken all the time is, and its row says so.         *)
Shown == \A ds \in seen.broken : /\ IsBroken(ds)
                                 /\ ds \in DOMAIN rows => rows[ds] = "failing"
                                 /\ Looking => page.ds # ds

FInv == Tables /\ Request /\ Honest /\ Shown
-----------------------------------------------------------------------------
LEMMA Constants == /\ Datasets \in Nat \ {0} /\ Dues \subseteq Nat /\ MaxTime \in Nat
                   /\ Dataset \subseteq Nat \ {0} /\ 0 \notin Dataset
BY FreshnessAssumption DEF Dataset

(* The first of the remaining datasets is one of them.                     *)
LEMMA MinOfSome ==
    ASSUME NEW S \in SUBSET Dataset, S # {}
    PROVE  Min(S) \in S /\ \A e \in S : Min(S) <= e
<1>1. PICK m \in S : \A k \in S : ~(<<k, m>> \in OpToRel(<, Nat))
  <2>1. S \subseteq Nat
    BY Constants
  <2> QED
    BY <2>1, NatLessThanWellFounded, WFMin, Zenon
<1>2. ASSUME NEW k \in S PROVE m <= k
  <2>1. k \in Nat /\ m \in Nat
    BY Constants
  <2>2. k < m => <<k, m>> \in OpToRel(<, Nat)
    BY <2>1 DEF OpToRel
  <2>3. ~(k < m)
    BY <1>1, <2>2, Zenon
  <2> QED
    BY <2>1, <2>3
<1> QED
  BY <1>2 DEF Min

(* A query that finds nothing is told from one that finds a row.           *)
LEMMA NoLogIsNone == NoLog \notin Log
BY DEF NoLog, Log

(* A broken dataset has a latest attempt, which failed, and no other one.  *)
LEMMA LatestFailed ==
    ASSUME Tables, NEW ds, IsBroken(ds), NEW last \in First(LogsOf(ds))
    PROVE  ~last.ok /\ last # NoLog
<1>1. PICK f \in LogsOf(ds) : ~f.ok /\ \A l \in LogsOf(ds) \ {f} : l.at < f.at
  BY DEF IsBroken
<1>2. last \in LogsOf(ds) /\ f.at <= last.at
  BY <1>1 DEF First
<1>3. f.at \in Int /\ last.at \in Int
  BY <1>1, <1>2 DEF Tables, LogsOf, Log
<1>4. last = f
  BY <1>1, <1>2, <1>3
<1>5. last \in logs /\ logs \subseteq Log
  BY <1>2 DEF LogsOf, Tables
<1> QED
  BY <1>1, <1>4, <1>5, NoLogIsNone

(* The latest of some successes is one of them.                            *)
LEMMA FirstIsOne ==
    ASSUME NEW S, NEW last \in First(S)
    PROVE  /\ S # {} => last \in S /\ \A m \in S : m.at <= last.at
           /\ last = NoLog \/ last \in S
BY DEF First
-----------------------------------------------------------------------------
(* The first state: nothing is logged, and nobody looks.                   *)
LEMMA FInvInit == FInit => FInv
<1> SUFFICES ASSUME FInit PROVE FInv
  OBVIOUS
<1> USE Constants DEF FInit
<1>1. Tables
  BY DEF Tables
<1>2. Request
  <2>1. NoLog \in Log \cup {NoLog} /\ Closed \in Loop
    BY DEF Closed, Loop
  <2>2. NothingSeen \in Seen
    BY DEF NothingSeen, Seen
  <2>3. DOMAIN rows = {} /\ page.todo = {} /\ ~Looking /\ page.pc = "closed"
    BY DEF Closed, Looking
  <2> QED
    BY <2>1, <2>2, <2>3 DEF Request
<1>3. Honest
  BY DEF Honest, Closed
<1>4. Shown
  BY DEF Shown, NothingSeen
<1> QED
  BY <1>1, <1>2, <1>3, <1>4 DEF FInv
-----------------------------------------------------------------------------
(* The schedule a row is computed by is a number.                          *)
LEMMA LoadedDue == ASSUME Request, Looking PROVE page.due[page.ds] \in Nat
<1>1. page.due \in [Dataset -> Dues] /\ page.ds \in Dataset
  BY DEF Request, Looking
<1> QED
  BY <1>1, Constants

(* The tables change; the request stands still, and history looks on.      *)
LEMMA RequestKept ==
    ASSUME Request, NEW edits \in BOOLEAN, NEW overtaken \in BOOLEAN,
           page' = page, rows' = rows, Watch(edits, overtaken)
    PROVE  Request'
<1>1. seen' \in Seen
  BY DEF Watch, Request, Seen, IsFresh
<1> QED
  BY <1>1 DEF Request, Looking

LEMMA ShownKept ==
    ASSUME Shown, NEW edits, NEW overtaken, page' = page, rows' = rows, Watch(edits, overtaken)
    PROVE  Shown'
<1> SUFFICES ASSUME NEW ds \in seen'.broken
             PROVE  /\ IsBroken(ds)' /\ (ds \in DOMAIN rows => rows[ds] = "failing")
                    /\ (Looking => page.ds # ds)
  BY DEF Shown, Looking
<1>1. ds \in seen.broken /\ IsBroken(ds)'
  BY DEF Watch
<1> QED
  BY <1>1 DEF Shown

(* What an attempt is inserted as.                                         *)
LEMMA Inserted ==
    ASSUME Tables, NEW a \in [ds : Dataset, at : 0..MaxTime, ok : BOOLEAN],
           Insert(a), UNCHANGED <<now, active, due>>, stamped' \subseteq stamped
    PROVE  /\ Tables'
           /\ \E n \in Log : /\ logs' = logs \cup {n}
                             /\ n.ds = a.ds /\ n.at = a.at /\ n.ok = a.ok
<1> DEFINE n == [id |-> written + 1, ds |-> a.ds, at |-> a.at, ok |-> a.ok]
<1>1. /\ n \in Log /\ logs' = logs \cup {n}
      /\ n.id = written + 1 /\ n.ds = a.ds /\ n.at = a.at /\ n.ok = a.ok
  BY DEF Insert, Log, Tables
<1> HIDE DEF n
<1>2. \A l \in logs : l.id \in Int /\ l.id <= written
  BY DEF Tables, Log
<1>3. \A l \in logs' : l.id <= written' /\ \A m \in logs' : m.id = l.id => m = l
  BY <1>1, <1>2 DEF Tables, Insert
<1>4. Tables'
  BY <1>1, <1>3 DEF Tables, Insert
<1> QED
  BY <1>1, <1>4

(* An attempt is made: nothing can be seen of it yet.                      *)
LEMMA StampStep ==
    ASSUME FInv, NEW ds \in Dataset, NEW ok \in BOOLEAN, Stamp(ds, ok)
    PROVE  FInv'
<1>1. now \in 0..now
  BY DEF FInv, Tables
<1>2. Tables'
  BY <1>1 DEF FInv, Tables, Stamp, table
<1> QED
  BY <1>2 DEF FInv, Stamp, table, Request, Honest, Undisturbed, Shown, Looking, LogsOf,
              Successes, Overdue, IsBroken

(* An attempt that is inserted makes the dataset fresh, is overtaken by a  *)
(* failure, or leaves it with overdue successes.                           *)
LEMMA MarkRefreshedStep ==
    ASSUME FInv, NEW a \in stamped, MarkRefreshed(a)
    PROVE  FInv'
<1> USE Constants DEF FInv
<1>1. /\ a \in [ds : Dataset, at : 0..MaxTime, ok : BOOLEAN]
      /\ now \in Int /\ UNCHANGED <<now, active, due, page, rows>>
      /\ Overtaken(a) \in BOOLEAN /\ stamped' \subseteq stamped
  BY DEF Tables, MarkRefreshed, Overtaken
<1>2. Tables' /\ \E n \in Log : logs' = logs \cup {n} /\ n.ds = a.ds /\ n.at = a.at /\ n.ok = a.ok
  BY <1>1, Inserted DEF MarkRefreshed
<1>3. PICK n \in Log : logs' = logs \cup {n} /\ n.ds = a.ds /\ n.at = a.at /\ n.ok = a.ok
  BY <1>2
<1>4. Request' /\ Shown'
  BY <1>1, RequestKept, ShownKept DEF MarkRefreshed
<1>5. Honest'
  <2> SUFFICES ASSUME Undisturbed'
               PROVE  /\ page.pc = "success" => /\ Successes(page.ds)' # {}
                                                /\ \A l \in Successes(page.ds)' : Overdue(l)
                      /\ page.pc = "compare" => page.success # NoLog /\ Overdue(page.success)
    BY <1>1 DEF Honest, Overdue
  <2>1. Undisturbed /\ ~IsFresh(page.ds)' /\ ~(a.ds = page.ds /\ Overtaken(a))
    BY DEF MarkRefreshed, Watch, Undisturbed
  <2>2. CASE page.pc = "success"
    <3> DEFINE D == page.due[page.ds]
    <3>1. Successes(page.ds) # {} /\ \A l \in Successes(page.ds) : Overdue(l)
      BY <2>1, <2>2 DEF Honest
    <3>2. LogsOf(page.ds)' = LogsOf(page.ds) \cup (IF a.ds = page.ds THEN {n} ELSE {})
      BY <1>1, <1>3 DEF LogsOf
    <3>3. D \in Nat /\ n.at \in Int /\ \A l \in LogsOf(page.ds) : l.at \in Int
      BY <2>2, LoadedDue DEF Looking, Tables, LogsOf, Log
    <3> HIDE DEF D
    <3>4. ASSUME a.ds = page.ds, n.ok PROVE n.at + D < now
      <4>1. \A l \in LogsOf(page.ds) : ~l.ok => l.at <= n.at
        BY <1>3, <2>1, <3>3, <3>4 DEF Overtaken
      <4>2. \A l \in LogsOf(page.ds) : l.ok => l.at + D < now
        BY <3>1 DEF Successes, Overdue, D
      <4>3. ASSUME ~(n.at + D < now) PROVE FALSE
        <5>1. \A l \in LogsOf(page.ds) : l.at <= n.at
          BY <1>1, <3>3, <4>1, <4>2, <4>3
        <5>2. n.at <= n.at /\ now <= n.at + D
          BY <1>1, <3>3, <4>3
        <5>3. n \in LogsOf(page.ds)' /\ \A l \in LogsOf(page.ds)' : l.at <= n.at
          BY <3>2, <3>4, <5>1, <5>2
        <5>4. IsFresh(page.ds)'
          BY <1>1, <3>4, <5>2, <5>3 DEF IsFresh, D
        <5> QED
          BY <2>1, <5>4
      <4> QED
        BY <4>3
    <3>5. Successes(page.ds) \subseteq Successes(page.ds)'
      BY <3>2 DEF Successes
    <3>6. \A l \in Successes(page.ds)' :
             l \in Successes(page.ds) \/ (l = n /\ a.ds = page.ds /\ n.ok)
      BY <3>2 DEF Successes
    <3>7. \A l \in Successes(page.ds)' : Overdue(l)
      BY <3>1, <3>4, <3>6 DEF Overdue, D
    <3> QED
      BY <2>2, <3>1, <3>5, <3>7
  <2>3. CASE page.pc = "compare"
    BY <2>1, <2>3 DEF Honest
  <2> QED
    BY <2>2, <2>3
<1> QED
  BY <1>2, <1>4, <1>5

LEMMA LockedStep ==
    ASSUME FInv, NEW a \in stamped, Locked(a)
    PROVE  FInv'
<1>1. Tables'
  BY DEF FInv, Tables, Locked, table
<1> QED
  BY <1>1 DEF FInv, Locked, table, Request, Honest, Undisturbed, Shown, Looking, LogsOf,
              Successes, Overdue, IsBroken

(* What somebody records, corrects or deletes is an edit of the log of the *)
(* row that is computed, or of another log.                                *)
LEMMA EditKeeps ==
    ASSUME FInv, NEW ds, page' = page, rows' = rows, now' = now,
           Watch(ds = page.ds, FALSE), Tables',
           \A d : d # ds => LogsOf(d)' = LogsOf(d)
    PROVE  FInv'
<1> USE DEF FInv
<1>1. Request' /\ Shown'
  BY RequestKept, ShownKept
<1>2. Honest'
  <2> SUFFICES ASSUME Undisturbed' PROVE Honest'
    BY DEF Honest
  <2>1. Undisturbed /\ ds # page.ds
    BY DEF Watch, Undisturbed
  <2>2. LogsOf(page.ds)' = LogsOf(page.ds) /\ Successes(page.ds)' = Successes(page.ds)
    BY <2>1 DEF Successes
  <2> QED
    BY <2>1, <2>2 DEF Honest, Overdue
<1> QED
  BY <1>1, <1>2

LEMMA RecordStep ==
    ASSUME FInv, NEW ds \in Dataset, NEW at \in 0..MaxTime, NEW ok \in BOOLEAN,
           Record(ds, at, ok)
    PROVE  FInv'
<1> DEFINE a == [ds |-> ds, at |-> at, ok |-> ok]
<1>a. a \in [ds : Dataset, at : 0..MaxTime, ok : BOOLEAN] /\ a.ds = ds
  OBVIOUS
<1>b. Insert(a) /\ UNCHANGED <<now, active, due, stamped>>
  BY DEF Record
<1> HIDE DEF a
<1>1. Tables' /\ \E n \in Log : logs' = logs \cup {n} /\ n.ds = ds
  BY <1>a, <1>b, Inserted DEF FInv
<1>2. \A d : d # ds => LogsOf(d)' = LogsOf(d)
  BY <1>1 DEF LogsOf
<1> QED
  BY <1>1, <1>2, EditKeeps DEF Record

LEMMA CorrectStep ==
    ASSUME FInv, NEW l \in logs, NEW at \in 0..MaxTime, NEW ok \in BOOLEAN,
           Correct(l, at, ok)
    PROVE  FInv'
<1> DEFINE n == [l EXCEPT !.at = at, !.ok = ok]
<1>1. l \in Log
  BY DEF FInv, Tables
<1>2. /\ n \in Log /\ n.id = l.id /\ n.ds = l.ds
      /\ logs' = (logs \ {l}) \cup {n}
  BY <1>1 DEF Log, Correct
<1> HIDE DEF n
<1>3. \A d : d # l.ds => LogsOf(d)' = LogsOf(d)
  BY <1>2 DEF LogsOf
<1>4. Tables'
  <2>1. \A k \in logs' : k.id <= written /\ \A m \in logs' : m.id = k.id => m = k
    BY <1>2 DEF FInv, Tables
  <2> QED
    BY <1>2, <2>1 DEF FInv, Tables, Correct
<1> QED
  BY <1>3, <1>4, EditKeeps DEF Correct

LEMMA DeleteStep ==
    ASSUME FInv, NEW l \in logs, Delete(l)
    PROVE  FInv'
<1>1. \A d : d # l.ds => LogsOf(d)' = LogsOf(d)
  BY DEF LogsOf, Delete
<1>2. Tables'
  BY DEF FInv, Tables, Delete
<1> QED
  BY <1>1, <1>2, EditKeeps DEF Delete

LEMMA RemoveStep ==
    ASSUME FInv, NEW ds \in Dataset, Remove(ds)
    PROVE  FInv'
<1>1. \A d : d # ds => LogsOf(d)' = LogsOf(d)
  BY DEF LogsOf, Remove
<1>2. Tables'
  BY DEF FInv, Tables, Remove
<1> QED
  BY <1>1, <1>2, EditKeeps DEF Remove

(* Time makes nothing fresh, and what is overdue stays so.                 *)
LEMMA TickStep == FInv /\ Tick => FInv'
<1> SUFFICES ASSUME FInv, Tick PROVE FInv'
  OBVIOUS
<1> USE Constants DEF FInv
<1>1. Tables'
  <2>1. 0..now \subseteq 0..now' /\ now' \in 0..MaxTime
    BY DEF Tables, Tick
  <2>2. stamped \subseteq [ds : Dataset, at : 0..now', ok : BOOLEAN]
    BY <2>1 DEF Tables
  <2> QED
    BY <2>1, <2>2 DEF Tables, Tick, table
<1>2. Request' /\ Shown'
  BY RequestKept, ShownKept DEF Tick
<1>3. Honest'
  <2>1. Undisturbed' => Undisturbed
    BY DEF Tick, Watch, Undisturbed
  <2>2. \A d : LogsOf(d)' = LogsOf(d) /\ Successes(d)' = Successes(d)
    BY DEF LogsOf, Successes, Tick, table
  <2>3. Looking => \A l \in Log \cup {NoLog} : Overdue(l) => Overdue(l)'
    <3>1. \A l \in Log \cup {NoLog} : l.at \in Int
      BY DEF Log, NoLog
    <3>2. now \in Int /\ now' = now + 1 /\ page' = page
      BY DEF Tick, Tables
    <3> QED
      BY <3>1, <3>2, LoadedDue DEF Overdue
  <2>4. Successes(page.ds) \subseteq Log /\ page.success \in Log \cup {NoLog} /\ page' = page
    BY DEF Successes, LogsOf, Tables, Request, Loop, Tick
  <2> QED
    BY <2>1, <2>2, <2>3, <2>4 DEF Honest, Looking
<1> QED
  BY <1>1, <1>2, <1>3

LEMMA ActivateStep ==
    ASSUME FInv, NEW ds \in Dataset, Activate(ds)
    PROVE  FInv'
<1>1. Tables'
  BY DEF FInv, Tables, Activate
<1> QED
  BY <1>1 DEF FInv, Activate, Request, Honest, Undisturbed, Shown, Looking, LogsOf, Successes,
              Overdue, IsBroken

(* A schedule that is changed is not that of the rows under way.           *)
LEMMA RescheduleStep ==
    ASSUME FInv, NEW ds \in Dataset, NEW hours \in Dues, Reschedule(ds, hours)
    PROVE  FInv'
<1>1. Tables'
  BY DEF FInv, Tables, Reschedule
<1> QED
  BY <1>1 DEF FInv, Reschedule, Request, Honest, Undisturbed, Shown, Looking, LogsOf,
              Successes, Overdue, IsBroken
-----------------------------------------------------------------------------
(* The dashboard: nothing is written to the tables.                        *)
LEMMA OpenStep == FInv /\ Open => FInv'
<1> SUFFICES ASSUME FInv, Open PROVE FInv'
  OBVIOUS
<1> USE Constants DEF FInv
<1>1. Tables'
  BY DEF Tables, Open, table
<1>2. /\ page'.pc = "next" /\ page'.todo = active /\ page' \in Loop
      /\ page'.due \in [Dataset -> Dues] /\ DOMAIN rows' = {}
  <2>1. /\ page' = [pc |-> "next", todo |-> active, due |-> due, ds |-> 0, success |-> NoLog]
        /\ rows' = <<>>
    BY DEF Open, Closed
  <2>2. active \in SUBSET Dataset /\ due \in [Dataset -> Dues] /\ 0 \in 0..Datasets
    BY DEF Tables
  <2>3. page' \in Loop
    BY <2>1, <2>2 DEF Loop
  <2>4. DOMAIN rows' = {}
    BY <2>1
  <2> QED
    BY <2>1, <2>2, <2>3, <2>4
<1>3. /\ seen' \in Seen /\ \A ds \in seen'.broken : IsBroken(ds)
      /\ \A ds : IsBroken(ds)' = IsBroken(ds)
  BY DEF Open, Request, Seen, Tables, IsBroken, LogsOf, table
<1>4. Request' /\ Honest' /\ Shown'
  BY <1>2, <1>3 DEF Request, Honest, Shown, Looking
<1> QED
  BY <1>1, <1>4

(* The next dataset is never one with a row.                               *)
LEMMA LastRefreshStep == FInv /\ LastRefresh => FInv'
<1> SUFFICES ASSUME FInv, LastRefresh PROVE FInv'
  OBVIOUS
<1> USE Constants DEF FInv
<1> PICK ds : ds = Min(page.todo)
  OBVIOUS
<1>1. /\ ds \in page.todo /\ ds \in Dataset /\ \A e \in page.todo : ds <= e
      /\ page.todo \subseteq Dataset /\ page.todo \subseteq Nat /\ page.pc = "next"
      /\ \A d \in DOMAIN rows : d < ds
  BY MinOfSome DEF LastRefresh, Request, Loop
<1>2. PICK last \in First(LogsOf(ds)) :
         /\ page' = IF last.ok THEN [page EXCEPT !.pc = "success", !.ds = ds, !.todo = @ \ {ds}]
                    ELSE [page EXCEPT !.todo = @ \ {ds}]
         /\ rows' = IF last.ok THEN rows
                    ELSE RowsWith(ds, IF last = NoLog THEN "never" ELSE "failing")
  BY DEF LastRefresh
<1>3. /\ seen' = [seen EXCEPT !.fresh = page'.ds = ds /\ IsFresh(ds)]
      /\ UNCHANGED <<now, table, stamped>>
  BY DEF LastRefresh
<1>4. Tables'
  BY <1>3 DEF Tables, table
<1>5. /\ seen' \in Seen /\ seen'.broken = seen.broken
      /\ seen'.fresh = (page'.ds = ds /\ IsFresh(ds))
  BY <1>3 DEF Request, Seen, IsFresh
<1>6. \A d : IsBroken(d)' = IsBroken(d) /\ LogsOf(d)' = LogsOf(d)
  BY <1>3 DEF IsBroken, LogsOf, table
<1>7. CASE last.ok
  <2>1. /\ page'.pc = "success" /\ page'.ds = ds /\ page'.todo = page.todo \ {ds}
        /\ page' \in Loop /\ rows' = rows /\ page'.due = page.due
    <3>1. page' = [page EXCEPT !.pc = "success", !.ds = ds, !.todo = @ \ {ds}] /\ rows' = rows
      BY <1>2, <1>7
    <3>2. page \in Loop /\ ds \in 0..Datasets /\ page.todo \ {ds} \in SUBSET Dataset
      BY <1>1 DEF Request, Dataset
    <3> QED
      BY <3>1, <3>2 DEF Loop
  <2>2. \A e \in page.todo \ {ds} : ds < e
    BY <1>1
  <2>3. Request'
    BY <1>1, <1>5, <2>1, <2>2 DEF Request, Looking
  <2>4. Honest'
    <3> DEFINE D == page.due[ds]
    <3> SUFFICES ASSUME ~IsFresh(ds)
                 PROVE  Successes(ds) # {} /\ \A l \in Successes(ds) : l.at + D < now
      <4>1. /\ Successes(ds)' = Successes(ds) /\ now' = now
            /\ Undisturbed' => ~IsFresh(ds)
        BY <1>3, <1>5, <1>6, <2>1 DEF Successes, Undisturbed
      <4> QED
        BY <2>1, <4>1 DEF Honest, Overdue
    <3>1. last # NoLog
      BY <1>7 DEF NoLog
    <3>2. last \in LogsOf(ds) /\ \A l \in LogsOf(ds) : l.at <= last.at
      BY <3>1, FirstIsOne
    <3>3. now \in Int /\ D \in Nat /\ \A l \in LogsOf(ds) : l.at \in Int
      <4>1. page.due \in [Dataset -> Dues] /\ Dues \subseteq Nat
        BY <1>1 DEF Request
      <4>2. D \in Nat
        BY <1>1, <4>1
      <4> QED
        BY <4>2 DEF Tables, LogsOf, Log
    <3>4. last.at + D < now
      BY <1>7, <3>2, <3>3 DEF IsFresh
    <3>5. \A l \in LogsOf(ds) : l.at + D < now
      BY <3>2, <3>3, <3>4
    <3>6. last \in Successes(ds) /\ Successes(ds) \subseteq LogsOf(ds)
      BY <1>7, <3>2 DEF Successes
    <3> QED
      BY <3>5, <3>6
  <2>5. Shown'
    <3>1. ds \notin seen.broken
      BY <1>2, <1>7, LatestFailed DEF Shown
    <3> QED
      BY <1>5, <1>6, <2>1, <3>1 DEF Shown, Looking
  <2> QED
    BY <1>4, <2>3, <2>4, <2>5
<1>8. CASE ~last.ok
  <2> DEFINE word == IF last = NoLog THEN "never" ELSE "failing"
  <2>1. /\ page'.pc = "next" /\ page'.todo = page.todo \ {ds}
        /\ page' \in Loop /\ rows' = RowsWith(ds, word) /\ page'.due = page.due
    BY <1>1, <1>2, <1>8 DEF Request, Loop
  <2>2. /\ DOMAIN rows' = DOMAIN rows \cup {ds} /\ rows'[ds] = word
        /\ \A d \in DOMAIN rows \ {ds} : rows'[d] = rows[d]
        /\ word \in Status
    BY <2>1 DEF RowsWith, Status
  <2>3. \A e \in page.todo \ {ds} : ds < e
    BY <1>1
  <2>4. Request'
    <3>1. \A d \in DOMAIN rows' : d \in Dataset /\ rows'[d] \in Status
      BY <1>1, <2>2 DEF Request
    <3> QED
      BY <1>1, <1>5, <2>1, <2>2, <2>3, <3>1 DEF Request, Looking
  <2>5. Honest'
    BY <2>1 DEF Honest
  <2>6. Shown'
    <3>1. ds \in seen.broken => word = "failing"
      BY <1>2, LatestFailed DEF Shown
    <3> HIDE DEF word
    <3> QED
      BY <1>5, <1>6, <2>1, <2>2, <3>1 DEF Shown, Looking
  <2> QED
    BY <1>4, <2>4, <2>5, <2>6
<1> QED
  BY <1>7, <1>8

(* The latest success is overdue when all successes are.                   *)
LEMMA LastSuccessStep == FInv /\ LastSuccess => FInv'
<1> SUFFICES ASSUME FInv, LastSuccess PROVE FInv'
  OBVIOUS
<1> USE DEF FInv
<1>1. PICK last \in First(Successes(page.ds)) :
         page' = [page EXCEPT !.pc = "compare", !.success = last]
  BY DEF LastSuccess
<1>2. page.pc = "success" /\ UNCHANGED <<now, table, stamped, rows, seen>>
  BY DEF LastSuccess
<1>3. last = NoLog \/ last \in Successes(page.ds)
  BY FirstIsOne
<1>4. Successes(page.ds) \subseteq Log
  BY DEF Successes, LogsOf, Tables
<1>5. /\ page'.pc = "compare" /\ page'.success = last /\ page'.todo = page.todo
      /\ page'.ds = page.ds /\ page'.due = page.due /\ page' \in Loop
  BY <1>1, <1>3, <1>4 DEF Request, Loop
<1>6. Tables' /\ Request' /\ Shown'
  BY <1>2, <1>5 DEF Tables, Request, Shown, Looking, IsBroken, LogsOf, table
<1>7. Honest'
  <2> SUFFICES ASSUME Undisturbed PROVE last # NoLog /\ Overdue(last)
    BY <1>2, <1>5 DEF Honest, Undisturbed, Overdue
  <2>1. last \in Successes(page.ds) /\ Overdue(last)
    BY <1>2, FirstIsOne DEF Honest
  <2>2. last \in logs
    BY <2>1 DEF Successes, LogsOf
  <2> QED
    BY <2>1, <2>2, NoLogIsNone DEF Tables
<1> QED
  BY <1>6, <1>7

LEMMA CompareStep == FInv /\ Compare => FInv'
<1> SUFFICES ASSUME FInv, Compare PROVE FInv'
  OBVIOUS
<1> USE Constants DEF FInv
<1> DEFINE word == IF page.success # NoLog /\ now > page.success.at + page.due[page.ds]
                  THEN "stale" ELSE "fresh"
<1>1. /\ page'.pc = "next" /\ page'.ds = 0 /\ page'.todo = page.todo /\ page' \in Loop
      /\ page'.due = page.due /\ rows' = RowsWith(page.ds, word) /\ page.pc = "compare"
      /\ UNCHANGED <<now, table, stamped>>
  <2>1. page \in Loop /\ 0 \in 0..Datasets
    BY DEF Request
  <2> QED
    BY <2>1 DEF Compare, Loop
<1>2. /\ DOMAIN rows' = DOMAIN rows \cup {page.ds} /\ rows'[page.ds] = word
      /\ \A d \in DOMAIN rows \ {page.ds} : rows'[d] = rows[d]
      /\ word \in Status
  BY <1>1 DEF RowsWith, Status
<1> HIDE DEF word
<1>3. seen' \in Seen /\ seen'.broken = seen.broken
  BY DEF Compare, Request, Seen, NothingSeen
<1>4. Tables' /\ Honest'
  BY <1>1 DEF Tables, Honest, table
<1>5. page.ds \in Dataset
  BY <1>1 DEF Request, Looking
<1>6. Request'
  BY <1>1, <1>2, <1>3, <1>5 DEF Request, Looking
<1>7. Shown'
  BY <1>1, <1>2, <1>3 DEF Shown, Looking, IsBroken, LogsOf, table
<1> QED
  BY <1>4, <1>6, <1>7

LEMMA RenderStep == FInv /\ Render => FInv'
<1> SUFFICES ASSUME FInv, Render PROVE FInv'
  OBVIOUS
<1>1. Closed \in Loop /\ Closed.pc = "closed" /\ Closed.todo = {}
  BY Constants DEF Closed, Loop
<1>2. NothingSeen \in Seen /\ NothingSeen.broken = {}
  BY DEF NothingSeen, Seen
<1>3. DOMAIN rows' = {}
  BY DEF Render
<1> QED
  BY <1>1, <1>2, <1>3 DEF FInv, Render, Tables, Request, Honest, Shown, Looking, table

LEMMA FInvStep == FInv /\ [FNext]_fvars => FInv'
<1> SUFFICES ASSUME FInv, [FNext]_fvars PROVE FInv'
  OBVIOUS
<1>1. CASE UNCHANGED fvars
  BY <1>1 DEF fvars, FInv, Tables, Request, Honest, Undisturbed, Shown, Looking, Overdue,
              Successes, LogsOf, IsBroken
<1>2. CASE Dashboard
  BY <1>2, OpenStep, LastRefreshStep, LastSuccessStep, CompareStep, RenderStep DEF Dashboard
<1>3. ASSUME NEW ds \in Dataset, NEW ok \in BOOLEAN,
             \/ Stamp(ds, ok)
             \/ \E at \in 0..MaxTime : Record(ds, at, ok)
      PROVE  FInv'
  BY <1>3, StampStep, RecordStep
<1>4. ASSUME NEW l \in logs,
             \/ Delete(l)
             \/ \E at \in 0..MaxTime, ok \in BOOLEAN : Correct(l, at, ok)
      PROVE  FInv'
  BY <1>4, DeleteStep, CorrectStep
<1>5. ASSUME NEW ds \in Dataset,
             \/ Activate(ds) \/ Remove(ds)
             \/ \E hours \in Dues : Reschedule(ds, hours)
      PROVE  FInv'
  BY <1>5, ActivateStep, RemoveStep, RescheduleStep
<1>6. ASSUME NEW a \in stamped, MarkRefreshed(a) \/ Locked(a) PROVE FInv'
  BY <1>6, MarkRefreshedStep, LockedStep
<1> QED
  BY <1>1, <1>2, <1>3, <1>4, <1>5, <1>6, TickStep DEF FNext

(* The inductive invariant holds in every reachable state.                 *)
THEOREM FInvCorrect == FSpec => []FInv
BY FInvInit, FInvStep, PTL DEF FSpec

(* Type correctness: keys of the log are distinct, and the loop of         *)
(* dashboard() computes one row for each dataset, in order.                *)
THEOREM FTypeHolds == FSpec => []FTypeOK
<1>1. FInv => FTypeOK
  <2> SUFFICES ASSUME FInv PROVE FTypeOK
    OBVIOUS
  <2>1. \A l \in logs : l.id \in 1..written /\ l.ds \in Dataset /\ l.at \in 0..MaxTime
    BY DEF FInv, Tables, Log
  <2> QED
    BY <2>1 DEF FInv, Tables, Request, Loop, FTypeOK
<1> QED
  BY <1>1, FInvCorrect, PTL

(* A dataset that status() calls fresh was fresh, by the schedule that was *)
(* loaded, at some moment between its queries, or its log was edited       *)
(* meanwhile, or a failure had overtaken a success that was inserted then. *)
THEOREM FreshIsHonestHolds == FSpec => FreshIsHonest
<1>1. ASSUME FInv, [FNext]_fvars, RowIsFresh, Undisturbed
      PROVE  FALSE
  <2>1. /\ page.success # NoLog /\ Overdue(page.success)
        /\ page.success.at \in Int /\ now \in Int
    BY <1>1, Constants DEF FInv, Honest, Request, Loop, Log, Tables, RowIsFresh
  <2>2. page.due[page.ds] \in Nat
    BY <1>1, LoadedDue DEF FInv, Looking, RowIsFresh
  <2>3. Compare
    BY <1>1 DEF RowIsFresh, FNext, fvars, Dashboard, Open, LastRefresh, LastSuccess, Render,
                Stamp, MarkRefreshed, Locked, Record, Correct, Delete, Activate, Reschedule,
                Remove, Tick
  <2>4. rows'[page.ds] = "stale"
    BY <2>1, <2>2, <2>3 DEF Compare, RowsWith, Overdue
  <2> QED
    BY <1>1, <2>4 DEF RowIsFresh
<1>2. FInv /\ [FNext]_fvars => [RowIsFresh => seen.fresh \/ seen.edited \/ seen.overtaken]_fvars
  BY <1>1 DEF Undisturbed
<1> QED
  BY <1>2, FInvCorrect, PTL DEF FSpec, FreshIsHonest

(* A dataset whose latest attempt has failed since before the page was     *)
(* opened is shown as failing.                                             *)
THEOREM BreakageIsShownHolds == FSpec => BreakageIsShown
<1>1. FInv => [page.pc = "next" /\ page'.pc = "closed"
                 => \A ds \in seen.broken \cap DOMAIN rows : rows[ds] = "failing"]_fvars
  BY DEF FInv, Shown
<1> QED
  BY <1>1, FInvCorrect, PTL DEF FSpec, BreakageIsShown
=============================================================================
