---------------------------- MODULE RelayCreate ----------------------------
(***************************************************************************)
(* POST /tasks and GET /tasks of src/03-deployment/storage.py as the       *)
(* PostgreSQL build runs them: create_task checks for an earlier request   *)
(* with the same Idempotency-Key and inserts in two statements, and only   *)
(* the unique constraint uq_task_sender_idempotency stands between two     *)
(* requests that both found nothing; list_tasks hands the rows out in      *)
(* pages while other requests insert.                                      *)
(*                                                                         *)
(* All requests come from one sender.  A client that repeats a request     *)
(* sends another one with the same key and body.                           *)
(***************************************************************************)
EXTENDS Integers, FiniteSets

CONSTANTS Request,   \* requests that reach the server in a behaviour
          Key,       \* values of the Idempotency-Key header
          Body,      \* recipient and input of a request
          None,      \* no Idempotency-Key
          Id,        \* task ids; uuid4 hands each out once, in no order
          Page,      \* the limit parameter of a listing
          MaxTime    \* bound: readings of the clock

ASSUME CreateAssumption == /\ None \notin Key
                           /\ Id \subseteq Nat \ {0} /\ Page \in Nat \ {0} /\ MaxTime \in Nat

VARIABLES rows,      \* committed rows of tasks
          request,   \* Request -> where its transaction stands
          clock,     \* utcnow(), in the precision of created_at
          walk       \* a client reading the pages of GET /tasks

cvars == <<rows, request, clock, walk>>

NoRow   == [id |-> 0, key |-> None, body |-> None, at |-> 0]
Unsent  == [pc |-> "unsent", key |-> None, body |-> None, retried |-> FALSE,
            row |-> NoRow, answer |-> "none", id |-> 0]
NoWalk  == [pc |-> "none", after |-> NoRow, seen |-> {}, owed |-> {}, repeated |-> FALSE]

CreateInit == /\ rows = {} /\ clock = 0
              /\ request = [r \in Request |-> Unsent]
              /\ walk = NoWalk

To(r, state) == request' = [request EXCEPT ![r] = state]
UsedIds == {t.id : t \in rows} \cup {request[q].row.id : q \in Request}
Same(k) == {t \in rows : k # None /\ t.key = k}
-----------------------------------------------------------------------------
Send(r, k, b) == /\ request[r].pc = "unsent"
                 /\ To(r, [Unsent EXCEPT !.pc = "check", !.key = k, !.body = b])
                 /\ UNCHANGED <<rows, clock, walk>>

Answered(r, answer, id) == [request[r] EXCEPT !.pc = "answered", !.answer = answer,
                                              !.id = id, !.row = NoRow]

(* The SELECT found an earlier task of this key.                           *)
FindExisting(r) ==
    /\ request[r].pc = "check"
    /\ \E t \in Same(request[r].key) :
         To(r, IF t.body = request[r].body THEN Answered(r, "existing", t.id)
                                           ELSE Answered(r, "conflict", 0))
    /\ UNCHANGED <<rows, clock, walk>>

(* It found nothing: the row is built, with its id and its created_at.     *)
FindNothing(r) ==
    /\ request[r].pc = "check"
    /\ Same(request[r].key) = {}
    /\ \E id \in Id \ UsedIds :
         To(r, [request[r] EXCEPT !.pc = "insert",
                  !.row = [id |-> id, key |-> request[r].key,
                           body |-> request[r].body, at |-> clock]])
    /\ UNCHANGED <<rows, clock, walk>>

(* Mutant: the table has no unique constraint.                             *)
TakenByNobody(r) == FALSE

(* Another row of this sender has the key, committed.                      *)
Taken(r) == Same(request[r].key) # {}

(* A row with the same key that is inserted and not committed makes an     *)
(* INSERT wait for the end of its transaction.                             *)
Blocked(r) == \E q \in Request \ {r} : /\ request[q].pc = "inserted"
                                       /\ request[r].key # None
                                       /\ request[q].key = request[r].key

(* db.flush() *)
Insert(r) ==
    /\ request[r].pc = "insert" /\ ~Blocked(r) /\ ~Taken(r)
    /\ To(r, [request[r] EXCEPT !.pc = "inserted"])
    /\ UNCHANGED <<rows, clock, walk>>

(* Mutant: the second try starts in the failed transaction.                *)
InsertFailsKeepingRow(r) ==
    /\ request[r].pc = "insert" /\ ~Blocked(r) /\ Taken(r)
    /\ To(r, IF request[r].retried THEN Answered(r, "error", 0)
             ELSE [request[r] EXCEPT !.pc = "check", !.retried = TRUE])
    /\ UNCHANGED <<rows, clock, walk>>

(* Mutant: the insert alone is tried again, and as often as it fails.      *)
InsertFailsAgain(r) ==
    /\ request[r].pc = "insert" /\ ~Blocked(r) /\ Taken(r)
    /\ To(r, [request[r] EXCEPT !.retried = TRUE])
    /\ UNCHANGED <<rows, clock, walk>>

(* IntegrityError: rolled back and tried once more from the check on; a    *)
(* second one would go up to the client.                                   *)
InsertFails(r) ==
    /\ request[r].pc = "insert" /\ ~Blocked(r) /\ Taken(r)
    /\ To(r, IF request[r].retried THEN Answered(r, "error", 0)
             ELSE [request[r] EXCEPT !.pc = "check", !.retried = TRUE, !.row = NoRow])
    /\ UNCHANGED <<rows, clock, walk>>

Commit(r) ==
    /\ request[r].pc = "inserted"
    /\ rows' = rows \cup {request[r].row}
    /\ To(r, Answered(r, "created", request[r].row.id))
    /\ UNCHANGED <<clock, walk>>

(* The replica dies; PostgreSQL rolls back and the client gets no answer.  *)
Crash(r) ==
    /\ request[r].pc \in {"check", "insert", "inserted"}
    /\ To(r, Answered(r, "lost", 0))
    /\ UNCHANGED <<rows, clock, walk>>

Tick == clock < MaxTime /\ clock' = clock + 1 /\ UNCHANGED <<rows, request, walk>>
-----------------------------------------------------------------------------
(* ORDER BY created_at, id *)
Before(t, u) == t.at < u.at \/ (t.at = u.at /\ t.id < u.id)

(* Mutant: the cursor is created_at alone.                                 *)
BeyondByTime(t) == walk.after = NoRow \/ t.at > walk.after.at

(* The rows after the cursor, which is the last row of the page before.    *)
Beyond(t) == walk.after = NoRow \/ Before(walk.after, t)

(* A client begins to read: it is owed the tasks that exist by now.        *)
StartWalk == /\ walk.pc = "none"
             /\ walk' = [NoWalk EXCEPT !.pc = "reading", !.owed = rows]
             /\ UNCHANGED <<rows, request, clock>>

(* list_tasks: the first Page rows after the cursor; a cursor for the next *)
(* page only when there are more.                                          *)
ReadPage ==
    LET rest == {t \in rows : Beyond(t)}
        page == {t \in rest : Cardinality({u \in rest : Before(u, t)}) < Page}
        last == CHOOSE t \in page : \A u \in page : u = t \/ Before(u, t)
    IN  /\ walk.pc = "reading"
        /\ walk' = [walk EXCEPT !.seen = @ \cup page,
                                !.repeated = @ \/ page \cap walk.seen # {},
                                !.after = IF page = rest THEN NoRow ELSE last,
                                !.pc = IF page = rest THEN "done" ELSE "reading"]
        /\ UNCHANGED <<rows, request, clock>>

Proceed(r) == \/ FindExisting(r) \/ FindNothing(r) \/ Insert(r) \/ InsertFails(r) \/ Commit(r)

CreateNext ==
    \/ \E r \in Request, k \in Key \cup {None}, b \in Body : Send(r, k, b)
    \/ \E r \in Request : Proceed(r)
    \/ \E r \in Request : Crash(r)
    \/ Tick \/ StartWalk \/ ReadPage

CreateSpec == CreateInit /\ [][CreateNext]_cvars

(* A transaction that has begun is run to its end by its thread.           *)
CreateFairSpec == CreateSpec /\ \A r \in Request : WF_cvars(Proceed(r))
-----------------------------------------------------------------------------
(* Type correctness; no id is used twice; and, as create_task promises,    *)
(* the loser of a race finds the winner when it looks again: one retry is  *)
(* always enough, and no IntegrityError ("error") reaches a client.        *)
CreateTypeOK ==
    /\ \A r \in Request :
         /\ request[r].pc \in {"unsent", "check", "insert", "inserted", "answered"}
         /\ request[r].row # NoRow <=> request[r].pc \in {"insert", "inserted"}
         /\ request[r].pc = "answered" <=> request[r].answer # "none"
         /\ request[r].answer \in {"none", "created", "existing", "conflict", "lost"}
    /\ \A t, u \in rows : t.id = u.id => t = u
    /\ walk.pc = "reading" \/ walk.after = NoRow

(* SPEC.md: repeating a POST with the same key and body returns the task   *)
(* of the first; with another body it is refused.  However the checks and  *)
(* inserts of racing requests interleave, two requests of one key that     *)
(* were answered with a task were answered with the same one, and it has   *)
(* the body of each.                                                       *)
SameKeySameTask ==
    \A q, r \in Request :
      /\ (request[q].key # None /\ request[q].key = request[r].key
          /\ {request[q].answer, request[r].answer} \subseteq {"created", "existing"})
         => request[q].id = request[r].id /\ request[q].body = request[r].body
      /\ request[r].answer \in {"created", "existing"} =>
           \E t \in rows : t.id = request[r].id /\ t.body = request[r].body
                           /\ t.key = request[r].key

(* A client that reads the pages of its tasks to the end has seen every    *)
(* task that existed when it began, and none twice, whatever is inserted,  *)
(* anywhere in the order, between two pages.                               *)
WalkIsComplete == walk.pc = "done" => walk.owed \subseteq walk.seen /\ ~walk.repeated

(* A request that waits for another one's insert is answered in the end:   *)
(* a client sends each request once, so in the end none is under way.      *)
EveryRequestIsAnswered ==
    <>[](\A r \in Request : request[r].pc \in {"unsent", "answered"})
=============================================================================
