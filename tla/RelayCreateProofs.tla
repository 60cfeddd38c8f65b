--------------------------- MODULE RelayCreateProofs ---------------------------
(***************************************************************************)
(* Proofs about the racing POST /tasks of RelayCreate, for any number of   *)
(* requests, keys and bodies.                                              *)
(***************************************************************************)
EXTENDS RelayCreate, FiniteSetTheorems, WellFoundedInduction, TLAPS

USE CreateAssumption

-----------------------------------------------------------------------------
TaskRow == [id : Nat, key : Key \cup {None}, body : Body \cup {None}, at : Nat]
Transaction ==
    [pc : {"unsent", "check", "insert", "inserted", "answered"},
     key : Key \cup {None}, body : Body \cup {None}, retried : BOOLEAN, row : TaskRow,
     answer : {"none", "created", "existing", "conflict", "lost"}, id : Nat]

(* What is known of a transaction by itself, ...                           *)
Fits(x) ==
    /\ x \in Transaction
    /\ IF x.pc \in {"insert", "inserted"}
       THEN x.row.id \in Id /\ x.row.key = x.key /\ x.row.body = x.body
       ELSE x.row = NoRow
    /\ x.pc = "answered" <=> x.answer # "none"
    /\ x.retried => x.pc \notin {"insert", "inserted"}

(* ... and among the committed rows: the second try follows a failed       *)
(* insert and finds the row that made it fail, a row that is inserted has  *)
(* its key and its id to itself, and what was answered is stored.          *)
Stands(x, all) ==
    /\ x.pc = "check" /\ x.retried => \E t \in all : x.key # None /\ t.key = x.key
    /\ x.pc = "inserted" /\ x.key # None => \A t \in all : t.key # x.key
    /\ \A t \in all : t.id # x.row.id
    /\ x.answer \in {"created", "existing"} =>
         \E t \in all : t.id = x.id /\ t.body = x.body /\ t.key = x.key

(* Two transactions do not insert the same id, nor both the same key.      *)
Apart(x, y) == /\ x.row # NoRow /\ y.row # NoRow => x.row.id # y.row.id
               /\ x.pc = "inserted" /\ y.pc = "inserted" /\ x.key # None => x.key # y.key

Stored == /\ rows \subseteq TaskRow /\ clock \in Nat
          /\ \A t \in rows : t.id \in Id
          /\ \A t, u \in rows : t.id = u.id \/ (t.key = u.key /\ t.key # None) => t = u
Requests == /\ request \in [Request -> Transaction]
            /\ \A r \in Request : Fits(request[r]) /\ Stands(request[r], rows)
            /\ \A q, r \in Request : q # r => Apart(request[q], request[r])
Walks == /\ DOMAIN walk = {"pc", "after", "seen", "owed", "repeated"}
         /\ walk.pc = "reading" \/ walk.after = NoRow

CInv == Stored /\ Requests /\ Walks
-----------------------------------------------------------------------------
(* A transaction goes on and nothing is committed.                         *)
LEMMA GoesOn ==
    ASSUME CInv, NEW r \in Request, NEW x, To(r, x), UNCHANGED <<rows, clock, walk>>,
           Fits(x), Stands(x, rows),
           \A q \in Request \ {r} : Apart(request[q], x)
    PROVE  CInv'
<1>1. /\ request' \in [Request -> Transaction] /\ request'[r] = x
      /\ \A q \in Request \ {r} : request'[q] = request[q]
  BY DEF CInv, Requests, To, Fits
<1>2. Stored' /\ Walks'
  BY DEF CInv, Stored, Walks
<1>3. \A q \in Request : Fits(request'[q]) /\ Stands(request'[q], rows')
  BY <1>1 DEF CInv, Requests
<1>4. ASSUME NEW q \in Request, NEW z \in Request, q # z
      PROVE  Apart(request'[q], request'[z])
  BY <1>1, <1>4 DEF CInv, Requests, Apart
<1> QED
  BY <1>1, <1>2, <1>3, <1>4 DEF CInv, Requests

(* A transaction whose row is gone is apart from all others.               *)
LEMMA NoRowApart ==
    ASSUME NEW x, x.row = NoRow, x.pc # "inserted", NEW y
    PROVE  Apart(y, x)
BY DEF Apart

LEMMA NoRowFits == NoRow \in TaskRow /\ NoRow.id = 0
BY DEF NoRow, TaskRow

LEMMA SendStep ==
    ASSUME CInv, NEW r \in Request, NEW k \in Key \cup {None}, NEW b \in Body, Send(r, k, b)
    PROVE  CInv'
<1> DEFINE x == [Unsent EXCEPT !.pc = "check", !.key = k, !.body = b]
<1>1. Unsent \in Transaction /\ Unsent.row = NoRow /\ Unsent.answer = "none"
      /\ Unsent.retried = FALSE
  BY NoRowFits DEF Unsent, Transaction
<1>2. /\ x \in Transaction /\ x.pc = "check" /\ x.key = k /\ x.body = b /\ x.row = NoRow
      /\ x.answer = "none" /\ x.retried = FALSE
  BY <1>1 DEF Transaction
<1>3. To(r, x) /\ UNCHANGED <<rows, clock, walk>>
  BY DEF Send
<1> HIDE DEF x
<1>4. Fits(x) /\ Stands(x, rows)
  BY <1>2, NoRowFits DEF Fits, Stands, CInv, Stored
<1> QED
  BY <1>2, <1>3, <1>4, NoRowApart, GoesOn

(* Every answer short of a commit ends the transaction without a row.      *)
LEMMA AnsweredStep ==
    ASSUME CInv, NEW r \in Request, NEW answer \in {"existing", "conflict", "lost"},
           NEW id \in Nat, To(r, Answered(r, answer, id)), UNCHANGED <<rows, clock, walk>>,
           answer = "existing" =>
             \E t \in rows : t.id = id /\ t.body = request[r].body /\ t.key = request[r].key
    PROVE  CInv'
<1> DEFINE x == Answered(r, answer, id)
<1>1. request[r] \in Transaction
  BY DEF CInv, Requests
<1>2. /\ x \in Transaction /\ x.pc = "answered" /\ x.key = request[r].key
      /\ x.body = request[r].body /\ x.row = NoRow /\ x.answer = answer /\ x.id = id
  BY <1>1, NoRowFits DEF Transaction, Answered
<1>3. To(r, x)
  OBVIOUS
<1> HIDE DEF x
<1>4. Fits(x) /\ Stands(x, rows)
  BY <1>2, NoRowFits DEF Fits, Stands, CInv, Stored
<1> QED
  BY <1>2, <1>3, <1>4, NoRowApart, GoesOn

LEMMA FindExistingStep ==
    ASSUME CInv, NEW r \in Request, FindExisting(r)
    PROVE  CInv'
<1>1. PICK t \in Same(request[r].key) :
        To(r, IF t.body = request[r].body THEN Answered(r, "existing", t.id)
                                          ELSE Answered(r, "conflict", 0))
  BY DEF FindExisting
<1>2. t \in rows /\ t.key = request[r].key /\ t.id \in Nat
  BY DEF Same, CInv, Stored, TaskRow
<1>3. UNCHANGED <<rows, clock, walk>>
  BY DEF FindExisting
<1>4. CASE t.body = request[r].body
  BY <1>1, <1>2, <1>3, <1>4, AnsweredStep
<1>5. CASE t.body # request[r].body
  BY <1>1, <1>3, <1>5, AnsweredStep
<1> QED
  BY <1>4, <1>5

LEMMA FindNothingStep ==
    ASSUME CInv, NEW r \in Request, FindNothing(r)
    PROVE  CInv'
<1>1. PICK id \in Id \ UsedIds :
        To(r, [request[r] EXCEPT !.pc = "insert",
                 !.row = [id |-> id, key |-> request[r].key,
                          body |-> request[r].body, at |-> clock]])
  BY DEF FindNothing
<1> DEFINE row == [id |-> id, key |-> request[r].key, body |-> request[r].body, at |-> clock]
           x == [request[r] EXCEPT !.pc = "insert", !.row = row]
<1>2. /\ request[r] \in Transaction /\ Fits(request[r]) /\ Stands(request[r], rows)
      /\ request[r].pc = "check" /\ Same(request[r].key) = {}
  BY DEF CInv, Requests, FindNothing
<1>3. /\ row \in TaskRow /\ row.id = id /\ row.key = request[r].key
      /\ row.body = request[r].body
  BY <1>2 DEF Transaction, TaskRow, CInv, Stored
<1>4. To(r, x) /\ UNCHANGED <<rows, clock, walk>>
  BY <1>1 DEF FindNothing
<1> HIDE DEF row
<1>5. /\ x \in Transaction /\ x.pc = "insert" /\ x.row = row /\ x.key = request[r].key
      /\ x.body = request[r].body /\ x.retried = request[r].retried
      /\ x.answer = request[r].answer /\ x.id = request[r].id
  BY <1>2, <1>3 DEF Transaction
<1> HIDE DEF x
<1>6. ~request[r].retried
  BY <1>2 DEF Stands, Same
<1>7. /\ \A t \in rows : t.id # id
      /\ \A q \in Request : request[q].row.id # id
  BY <1>1 DEF UsedIds
<1>8. Fits(x) /\ Stands(x, rows)
  BY <1>2, <1>3, <1>5, <1>6, <1>7 DEF Fits, Stands
<1>9. \A q \in Request : Apart(request[q], x)
  BY <1>3, <1>5, <1>7 DEF Apart
<1> QED
  BY <1>4, <1>8, <1>9, GoesOn

LEMMA InsertStep ==
    ASSUME CInv, NEW r \in Request, Insert(r)
    PROVE  CInv'
<1> DEFINE x == [request[r] EXCEPT !.pc = "inserted"]
<1>1. /\ request[r] \in Transaction /\ Fits(request[r]) /\ Stands(request[r], rows)
      /\ request[r].pc = "insert" /\ ~Blocked(r) /\ ~Taken(r)
  BY DEF CInv, Requests, Insert
<1>2. To(r, x) /\ UNCHANGED <<rows, clock, walk>>
  BY DEF Insert
<1>3. /\ x \in Transaction /\ x.pc = "inserted" /\ x.row = request[r].row
      /\ x.key = request[r].key /\ x.body = request[r].body
      /\ x.retried = request[r].retried /\ x.answer = request[r].answer
      /\ x.id = request[r].id
  BY <1>1 DEF Transaction
<1> HIDE DEF x
<1>4. Fits(x) /\ Stands(x, rows)
  BY <1>1, <1>3 DEF Fits, Stands, Taken, Same
<1>5. \A q \in Request \ {r} : Apart(request[q], x)
  BY <1>1, <1>3 DEF Apart, Blocked, CInv, Requests
<1> QED
  BY <1>2, <1>4, <1>5, GoesOn

(* The second try never fails: it never gets to the insert.                *)
LEMMA InsertFailsStep ==
    ASSUME CInv, NEW r \in Request, InsertFails(r)
    PROVE  CInv'
<1> DEFINE x == [request[r] EXCEPT !.pc = "check", !.retried = TRUE, !.row = NoRow]
<1>1. /\ request[r] \in Transaction /\ Fits(request[r]) /\ Stands(request[r], rows)
      /\ request[r].pc = "insert" /\ Taken(r)
  BY DEF CInv, Requests, InsertFails
<1>2. ~request[r].retried
  BY <1>1 DEF Fits
<1>3. To(r, x) /\ UNCHANGED <<rows, clock, walk>>
  BY <1>2 DEF InsertFails
<1>4. /\ x \in Transaction /\ x.pc = "check" /\ x.row = NoRow
      /\ x.key = request[r].key /\ x.body = request[r].body
      /\ x.answer = request[r].answer /\ x.id = request[r].id
  BY <1>1, NoRowFits DEF Transaction
<1> HIDE DEF x
<1>5. \E t \in rows : x.key # None /\ t.key = x.key
  BY <1>1, <1>4 DEF Taken, Same
<1>6. Fits(x) /\ Stands(x, rows)
  BY <1>1, <1>4, <1>5, NoRowFits DEF Fits, Stands, CInv, Stored
<1> QED
  BY <1>3, <1>4, <1>6, NoRowApart, GoesOn

(* A row that is committed takes its key and its id with it.               *)
LEMMA CommitStep ==
    ASSUME CInv, NEW r \in Request, Commit(r)
    PROVE  CInv'
<1> DEFINE row == request[r].row
           x == Answered(r, "created", row.id)
<1>1. /\ request[r] \in Transaction /\ Fits(request[r]) /\ Stands(request[r], rows)
      /\ request[r].pc = "inserted"
  BY DEF CInv, Requests, Commit
<1>2. /\ rows' = rows \cup {row} /\ To(r, x) /\ UNCHANGED <<clock, walk>>
  BY DEF Commit
<1>3. /\ row \in TaskRow /\ row.id \in Id /\ row.key = request[r].key
      /\ row.body = request[r].body /\ row # NoRow
  BY <1>1, NoRowFits DEF Transaction, Fits
<1>4. /\ x \in Transaction /\ x.pc = "answered" /\ x.key = request[r].key
      /\ x.body = request[r].body /\ x.row = NoRow /\ x.answer = "created" /\ x.id = row.id
  BY <1>1, <1>3, NoRowFits DEF Transaction, Answered, TaskRow
<1> HIDE DEF x
<1>5. /\ request' \in [Request -> Transaction] /\ request'[r] = x
      /\ \A q \in Request \ {r} : request'[q] = request[q]
  BY <1>2, <1>4 DEF CInv, Requests, To
<1>6. \A t \in rows : t.id # row.id /\ (row.key # None => t.key # row.key)
  BY <1>1, <1>3 DEF Stands
<1>7. Stored' /\ Walks'
  BY <1>2, <1>3, <1>6 DEF CInv, Stored, Walks
<1>8. Fits(x) /\ Stands(x, rows')
  BY <1>2, <1>3, <1>4, <1>7, NoRowFits DEF Fits, Stands, Stored
<1>9. ASSUME NEW q \in Request \ {r}
      PROVE  Fits(request[q]) /\ Stands(request[q], rows')
  <2>1. Fits(request[q]) /\ Stands(request[q], rows) /\ Apart(request[q], request[r])
    BY DEF CInv, Requests
  <2>2. row.id # request[q].row.id
    BY <1>3, <2>1, NoRowFits DEF Apart
  <2>3. request[q].pc = "inserted" /\ request[q].key # None => row.key # request[q].key
    BY <1>1, <1>3, <2>1 DEF Apart
  <2> QED
    BY <1>2, <2>1, <2>2, <2>3 DEF Stands
<1>10. ASSUME NEW q \in Request, NEW z \in Request, q # z
       PROVE  Apart(request'[q], request'[z])
  BY <1>4, <1>5, <1>10 DEF CInv, Requests, Apart
<1> QED
  BY <1>5, <1>7, <1>8, <1>9, <1>10 DEF CInv, Requests

-----------------------------------------------------------------------------
LEMMA CInvInit == CreateInit => CInv
<1> SUFFICES ASSUME CreateInit PROVE CInv
  OBVIOUS
<1>1. /\ Unsent \in Transaction /\ Unsent.row = NoRow /\ Unsent.answer = "none"
      /\ Unsent.pc = "unsent" /\ Unsent.retried = FALSE
  BY NoRowFits DEF Unsent, Transaction
<1>2. Fits(Unsent) /\ Stands(Unsent, {}) /\ Apart(Unsent, Unsent)
  BY <1>1 DEF Fits, Stands, Apart
<1>3. Stored /\ Walks
  BY DEF CreateInit, Stored, Walks, NoWalk
<1>4. Requests
  BY <1>1, <1>2 DEF CreateInit, Requests
<1> QED
  BY <1>3, <1>4 DEF CInv

LEMMA CInvStep == CInv /\ [CreateNext]_cvars => CInv'
<1> SUFFICES ASSUME CInv, [CreateNext]_cvars PROVE CInv'
  OBVIOUS
<1>1. CASE UNCHANGED cvars
  BY <1>1 DEF cvars, CInv, Stored, Requests, Walks
<1>2. CASE \E r \in Request, k \in Key \cup {None}, b \in Body : Send(r, k, b)
  BY <1>2, SendStep
<1>3. CASE \E r \in Request : Proceed(r)
  BY <1>3, FindExistingStep, FindNothingStep, InsertStep, InsertFailsStep, CommitStep
     DEF Proceed
<1>4. CASE \E r \in Request : Crash(r)
  BY <1>4, AnsweredStep DEF Crash
<1>5. CASE Tick
  BY <1>5 DEF Tick, CInv, Stored, Requests, Walks
<1>6. CASE StartWalk \/ ReadPage
  <2>1. UNCHANGED <<rows, request, clock>>
    BY <1>6 DEF StartWalk, ReadPage
  <2>2. ASSUME StartWalk PROVE Walks'
    <3>1. DOMAIN NoWalk = {"pc", "after", "seen", "owed", "repeated"} /\ NoWalk.after = NoRow
      BY DEF NoWalk
    <3>2. walk' = [NoWalk EXCEPT !.pc = "reading", !.owed = rows]
      BY <2>2 DEF StartWalk
    <3>3. walk'.pc = "reading" /\ DOMAIN walk' = DOMAIN NoWalk
      BY <3>1, <3>2
    <3> QED
      BY <3>1, <3>3 DEF Walks
  <2>3. ASSUME ReadPage PROVE Walks'
    <3> DEFINE rest == {t \in rows : Beyond(t)}
               page == {t \in rest : Cardinality({u \in rest : Before(u, t)}) < Page}
               last == CHOOSE t \in page : \A u \in page : u = t \/ Before(u, t)
               over == page = rest
    <3>1. walk' = [walk EXCEPT !.seen = @ \cup page,
                               !.repeated = @ \/ page \cap walk.seen # {},
                               !.after = IF over THEN NoRow ELSE last,
                               !.pc = IF over THEN "done" ELSE "reading"]
      BY <2>3 DEF ReadPage
    <3> HIDE DEF page, last, over
    <3>2. DOMAIN walk = {"pc", "after", "seen", "owed", "repeated"}
      BY DEF CInv, Walks
    <3>3. /\ DOMAIN walk' = DOMAIN walk
          /\ walk'.after = IF over THEN NoRow ELSE last
          /\ walk'.pc = IF over THEN "done" ELSE "reading"
      BY <3>1, <3>2
    <3> QED
      BY <3>2, <3>3 DEF Walks
  <2>4. Walks'
    BY <1>6, <2>2, <2>3
  <2> QED
    BY <2>1, <2>4 DEF CInv, Stored, Requests
<1> QED
  BY <1>1, <1>2, <1>3, <1>4, <1>5, <1>6 DEF CreateNext

(* The inductive invariant, for any number of requests.                    *)
THEOREM CreateInvariant == CreateSpec => []CInv
BY CInvInit, CInvStep, PTL DEF CreateSpec

(* One retry is always enough, and no violated constraint reaches clients. *)
THEOREM CreateTyped == CreateSpec => []CreateTypeOK
<1>1. CInv => CreateTypeOK
  BY NoRowFits DEF CInv, Stored, Requests, Walks, Fits, Transaction, CreateTypeOK
<1> QED
  BY <1>1, CreateInvariant, PTL

(* Requests of one key that are answered with a task get the same one.     *)
THEOREM SameKeyHolds == CreateSpec => []SameKeySameTask
<1>1. CInv => SameKeySameTask
  BY DEF CInv, Stored, Requests, Stands, SameKeySameTask
<1> QED
  BY <1>1, CreateInvariant, PTL
-----------------------------------------------------------------------------
(* The walk over the pages.  A set of natural numbers has a smallest       *)
(* element, and the lengths of a page are bounded; so every page has one   *)
(* row that comes last, which is the cursor.                               *)
LEMMA LeastNat ==
    ASSUME NEW N, N \subseteq Nat, N # {}
    PROVE  \E m \in N : \A k \in N : m <= k
<1>1. PICK m \in N : \A k \in N : ~(<<k, m>> \in OpToRel(<, Nat))
  BY NatLessThanWellFounded, WFMin, Zenon
<1>2. ASSUME NEW k \in N PROVE m <= k
  <2>1. k \in Nat /\ m \in Nat
    OBVIOUS
  <2>2. k < m => <<k, m>> \in OpToRel(<, Nat)
    BY <2>1 DEF OpToRel
  <2>3. ~(k < m)
    BY <1>1, <2>2, Zenon
  <2> QED
    BY <2>1, <2>3
<1> QED
  BY <1>2

(* ORDER BY created_at, id is a total order of rows with different ids.    *)
Listed(all) == /\ IsFiniteSet(all) /\ all \subseteq TaskRow
               /\ \A t, u \in all : t.id = u.id => t = u

LEMMA TotalOrder ==
    ASSUME NEW all, Listed(all)
    PROVE  /\ \A t, u \in all : t = u \/ Before(t, u) \/ Before(u, t)
           /\ \A t, u \in all : Before(t, u) => ~Before(u, t) /\ t # u
           /\ \A t, u, v \in all : Before(t, u) /\ Before(u, v) => Before(t, v)
<1>1. \A t \in all : t.id \in Nat /\ t.at \in Nat
  BY DEF Listed, TaskRow
<1> QED
  BY <1>1 DEF Listed, Before

(* How many rows of a listing come before one of them.                     *)
Earlier(all, t) == {u \in all : Before(u, t)}
Rank(all, t)    == Cardinality(Earlier(all, t))

LEMMA RankOrder ==
    ASSUME NEW all, Listed(all), NEW t \in all, NEW u \in all
    PROVE  /\ Rank(all, t) \in Nat
           /\ Before(t, u) <=> Rank(all, t) < Rank(all, u)
           /\ Earlier(all, t) = {} <=> Rank(all, t) = 0
<1>1. ASSUME NEW x \in all
      PROVE  /\ IsFiniteSet(Earlier(all, x)) /\ Rank(all, x) \in Nat
             /\ Earlier(all, x) = {} <=> Rank(all, x) = 0
  <2>1. IsFiniteSet(Earlier(all, x))
    BY FS_Subset DEF Listed, Earlier
  <2> QED
    BY <2>1, FS_CardinalityType, FS_EmptySet DEF Rank
<1>2. ASSUME NEW x \in all, NEW y \in all, Before(x, y)
      PROVE  Rank(all, x) < Rank(all, y)
  <2>1. Earlier(all, x) \subseteq Earlier(all, y)
    BY <1>2, TotalOrder DEF Earlier
  <2>2. x \in Earlier(all, y) /\ x \notin Earlier(all, x)
    BY <1>2, TotalOrder DEF Earlier
  <2>3. /\ Rank(all, x) <= Rank(all, y)
        /\ Rank(all, y) = Rank(all, x) => Earlier(all, y) = Earlier(all, x)
    BY <1>1, <2>1, FS_Subset DEF Rank
  <2> QED
    BY <1>1, <2>2, <2>3
<1>3. t = u \/ Before(t, u) \/ Before(u, t)
  BY TotalOrder
<1>4. Rank(all, t) < Rank(all, u) => Before(t, u)
  BY <1>1, <1>2, <1>3
<1> QED
  BY <1>1, <1>2, <1>4

(* A page of a listing, and what is left over when it ends before it.      *)
LEMMA PageHasLast ==
    ASSUME NEW all, Listed(all), NEW page,
           page = {t \in all : Rank(all, t) < Page}, page # all
    PROVE  LET last == CHOOSE t \in page : \A u \in page : u = t \/ Before(u, t)
           IN  /\ last \in page
               /\ \A u \in page : u = last \/ Before(u, last)
               /\ \A u \in all \ page : Before(last, u)
<1>1. /\ page \subseteq all /\ Page \in Nat \ {0}
      /\ \A t \in all : t \in page <=> Rank(all, t) < Page
      /\ \A t \in all : Rank(all, t) \in Nat
  BY RankOrder
<1>2. page # {}
  <2>1. PICK x \in all : x \notin page
    BY <1>1
  <2> DEFINE N == {Rank(all, t) : t \in all}
  <2>2. N \subseteq Nat /\ N # {}
    BY <1>1, <2>1
  <2>3. PICK m \in N : \A k \in N : m <= k
    BY <2>2, LeastNat
  <2>4. PICK t \in all : m = Rank(all, t)
    BY <2>3
  <2>5. \A u \in all : ~Before(u, t)
    BY <1>1, <2>3, <2>4, RankOrder
  <2>6. Rank(all, t) = 0
    BY <2>4, <2>5, RankOrder DEF Earlier
  <2> QED
    BY <1>1, <2>4, <2>6
<1>3. \E t \in page : \A u \in page : u = t \/ Before(u, t)
  <2> DEFINE N == {Page - Rank(all, t) : t \in page}
  <2>1. N \subseteq Nat /\ N # {}
    BY <1>1, <1>2
  <2>2. PICK m \in N : \A k \in N : m <= k
    BY <2>1, LeastNat
  <2>3. PICK t \in page : m = Page - Rank(all, t)
    BY <2>2
  <2>4. ASSUME NEW u \in page PROVE u = t \/ Before(u, t)
    <3>1. Page - Rank(all, t) <= Page - Rank(all, u)
      BY <2>2, <2>3
    <3>2. ~(Rank(all, t) < Rank(all, u))
      BY <1>1, <3>1
    <3>3. u \in all /\ t \in all
      BY <1>1
    <3>4. ~Before(t, u)
      BY <3>2, <3>3, RankOrder
    <3> QED
      BY <3>3, <3>4, TotalOrder
  <2> QED
    BY <2>4
<1> DEFINE last == CHOOSE t \in page : \A u \in page : u = t \/ Before(u, t)
<1>4. last \in page /\ \A u \in page : u = last \/ Before(u, last)
  BY <1>3
<1> HIDE DEF last
<1>5. ASSUME NEW u \in all \ page PROVE Before(last, u)
  <2>1. Rank(all, last) < Rank(all, u)
    BY <1>1, <1>4
  <2> QED
    BY <1>1, <1>4, <2>1, RankOrder
<1> QED
  BY <1>4, <1>5 DEF last

-----------------------------------------------------------------------------
(* What was seen is behind the cursor, and what is owed is seen or ahead.  *)
Reading == /\ walk.seen \subseteq rows /\ walk.owed \subseteq rows
           /\ IF walk.after = NoRow THEN walk.seen = {} ELSE walk.after \in rows
           /\ \A t \in walk.owed : t \in walk.seen \/ Beyond(t)
           /\ \A t \in walk.seen : ~Beyond(t)

WInv == /\ CInv /\ IsFiniteSet(rows)
        /\ walk.pc = "reading" => Reading /\ ~walk.repeated
        /\ walk.pc = "done" => walk.owed \subseteq walk.seen /\ ~walk.repeated

LEMMA ReadPageStep ==
    ASSUME WInv, ReadPage
    PROVE  /\ walk'.pc = "reading" => Reading' /\ ~walk'.repeated
           /\ walk'.pc = "done" => walk'.owed \subseteq walk'.seen /\ ~walk'.repeated
<1> DEFINE rest == {t \in rows : Beyond(t)}
           page == {t \in rest : Rank(rest, t) < Page}
           last == CHOOSE t \in page : \A u \in page : u = t \/ Before(u, t)
           over == page = rest
<1>1. /\ walk.pc = "reading" /\ UNCHANGED rows
      /\ walk' = [walk EXCEPT !.seen = @ \cup page,
                              !.repeated = @ \/ page \cap walk.seen # {},
                              !.after = IF over THEN NoRow ELSE last,
                              !.pc = IF over THEN "done" ELSE "reading"]
  BY DEF ReadPage, Rank, Earlier
<1>2. /\ Listed(rows) /\ Listed(rest) /\ Reading /\ ~walk.repeated
      /\ DOMAIN walk = {"pc", "after", "seen", "owed", "repeated"}
  <2>1. IsFiniteSet(rest)
    BY FS_Subset DEF WInv
  <2> QED
    BY <1>1, <2>1 DEF WInv, CInv, Stored, Walks, Listed
<1>3. \A t \in rows : t \in rest <=> Beyond(t)
  OBVIOUS
<1>4. rest \subseteq rows /\ page \subseteq rest
  OBVIOUS
<1>5. page # rest => /\ last \in page
                     /\ \A u \in page : u = last \/ Before(u, last)
                     /\ \A u \in rest \ page : Before(last, u)
  <2>1. page = {t \in rest : Rank(rest, t) < Page}
    OBVIOUS
  <2> HIDE DEF rest, page
  <2> QED
    BY <1>2, <2>1, PageHasLast
<1> HIDE DEF rest, page, last
<1>6. page \cap walk.seen = {}
  BY <1>2, <1>3, <1>4 DEF Reading
<1>7. /\ DOMAIN walk' = DOMAIN walk /\ walk'.seen = walk.seen \cup page
      /\ walk'.owed = walk.owed /\ walk'.repeated = FALSE
      /\ walk'.after = IF over THEN NoRow ELSE last
      /\ walk'.pc = IF over THEN "done" ELSE "reading"
  <2>1. ~(walk.repeated \/ page \cap walk.seen # {})
    BY <1>2, <1>6
  <2>2. (walk.repeated \/ page \cap walk.seen # {}) = FALSE
    BY <2>1, Zenon
  <2> HIDE DEF over
  <2> QED
    BY <1>1, <1>2, <2>2
<1>8. CASE over
  BY <1>2, <1>3, <1>7, <1>8 DEF Reading
<1>9. CASE ~over
  <2>1. /\ walk'.pc = "reading" /\ walk'.after = last /\ last \in page /\ last \in rows
        /\ last # NoRow
    <3>1. last \in rows
      BY <1>4, <1>5, <1>9
    <3>2. last # NoRow
      BY <3>1, NoRowFits DEF WInv, CInv, Stored
    <3> QED
      BY <1>5, <1>7, <1>9, <3>1, <3>2
  <2>2. \A t \in rows' : Beyond(t)' <=> Before(last, t)
    BY <2>1 DEF Beyond, Before
  <2>3. ASSUME NEW t \in walk.owed PROVE t \in walk'.seen \/ Beyond(t)'
    <3>1. t \in rows /\ (t \in walk.seen \/ t \in rest)
      BY <1>2, <1>3 DEF Reading
    <3>2. t \in rest \ page => Before(last, t)
      BY <1>5, <1>9
    <3> QED
      BY <1>1, <1>7, <2>2, <3>1, <3>2
  <2>4. ASSUME NEW t \in walk.seen \cup page PROVE ~Before(last, t)
    <3>1. t \in rows
      BY <1>2, <1>4 DEF Reading
    <3>2. CASE t \in page
      BY <1>2, <1>5, <1>9, <2>1, <3>1, <3>2, TotalOrder
    <3>3. CASE t \in walk.seen
      <4>1. walk.after # NoRow /\ walk.after \in rows /\ ~Beyond(t) /\ Beyond(last)
        BY <1>2, <1>3, <1>4, <2>1, <3>3 DEF Reading
      <4>2. Before(walk.after, last) /\ ~Before(walk.after, t)
        BY <4>1 DEF Beyond
      <4> QED
        BY <1>2, <2>1, <3>1, <4>1, <4>2, TotalOrder
    <3> QED
      BY <3>2, <3>3
  <2>5. Reading'
    <3>1. /\ walk'.seen \subseteq rows' /\ walk'.owed \subseteq rows'
          /\ walk'.after \in rows' /\ walk'.after # NoRow
      BY <1>1, <1>2, <1>4, <1>7, <2>1 DEF Reading
    <3>2. /\ \A t \in walk'.owed : t \in walk'.seen \/ Beyond(t)'
          /\ \A t \in walk'.seen : ~Beyond(t)'
      BY <1>7, <2>2, <2>3, <2>4, <3>1
    <3> QED
      BY <3>1, <3>2 DEF Reading
  <2> QED
    BY <1>2, <1>7, <2>1, <2>5
<1> QED
  BY <1>8, <1>9

LEMMA WInvStep == WInv /\ [CreateNext]_cvars => WInv'
<1> SUFFICES ASSUME WInv, [CreateNext]_cvars PROVE WInv'
  OBVIOUS
<1>1. CInv'
  BY CInvStep DEF WInv
<1>2. ASSUME UNCHANGED walk, rows \subseteq rows', IsFiniteSet(rows')
      PROVE  WInv'
  <2>1. Reading => Reading'
    BY <1>2 DEF Reading, Beyond, Before
  <2> QED
    BY <1>1, <1>2, <2>1 DEF WInv
<1>3. CASE UNCHANGED <<rows, walk>>
  BY <1>2, <1>3 DEF WInv
<1>4. ASSUME NEW r \in Request, Commit(r) PROVE WInv'
  <2>1. rows' = rows \cup {request[r].row} /\ UNCHANGED walk
    BY <1>4 DEF Commit
  <2>2. IsFiniteSet(rows')
    BY <2>1, FS_AddElement DEF WInv
  <2> QED
    BY <1>2, <2>1, <2>2
<1>5. CASE StartWalk
  <2>1. /\ DOMAIN NoWalk = {"pc", "after", "seen", "owed", "repeated"}
        /\ NoWalk.after = NoRow /\ NoWalk.seen = {} /\ NoWalk.repeated = FALSE
    BY DEF NoWalk
  <2>2. walk' = [NoWalk EXCEPT !.pc = "reading", !.owed = rows] /\ rows' = rows
    BY <1>5 DEF StartWalk
  <2>3. /\ DOMAIN walk' = DOMAIN NoWalk /\ walk'.pc = "reading" /\ walk'.owed = rows
        /\ walk'.after = NoRow /\ walk'.seen = {} /\ walk'.repeated = FALSE
    BY <2>1, <2>2
  <2>4. Reading'
    BY <2>2, <2>3 DEF Reading, Beyond
  <2> QED
    BY <1>1, <2>1, <2>2, <2>3, <2>4 DEF WInv
<1>6. CASE ReadPage
  <2>1. UNCHANGED rows
    BY <1>6 DEF ReadPage
  <2> QED
    BY <1>1, <1>6, <2>1, ReadPageStep DEF WInv
<1>7. ASSUME NEW r \in Request, Proceed(r) PROVE UNCHANGED <<rows, walk>> \/ Commit(r)
  BY <1>7 DEF Proceed, FindExisting, FindNothing, Insert, InsertFails
<1> QED
  BY <1>3, <1>4, <1>5, <1>6, <1>7 DEF CreateNext, cvars, Send, Crash, Tick

LEMMA WInvInit == CreateInit => WInv
BY CInvInit, FS_EmptySet DEF CreateInit, WInv, NoWalk

(* Whoever reads the pages to the end has seen each task that was there    *)
(* when he began, and none twice, whatever was inserted in between.        *)
THEOREM WalkHolds == CreateSpec => []WalkIsComplete
<1>1. WInv => WalkIsComplete
  BY DEF WInv, WalkIsComplete
<1> QED
  BY <1>1, WInvInit, WInvStep, PTL DEF CreateSpec
=============================================================================
