--------------------------- MODULE TopTableProofs ---------------------------
(***************************************************************************)
(* Proofs about the scoreboard, for any number of pages, of requests under *)
(* way, of teams and of results.                                           *)
(*                                                                         *)
(* The check of a handler and its insert are two steps, and a refresh is   *)
(* four reads of two tables at different times.  What saves both is that   *)
(* the tables only grow: what a call has found out stays true.             *)
(*                                                                         *)
(* The table of results is computed by a loop over the matches and sorted. *)
(* The loop is a fold, so that its rounds are followed one by one, and the *)
(* goals are sums over sets, of which an element at a time is taken away.  *)
(***************************************************************************)
EXTENDS TopTable, FiniteSetTheorems, WellFoundedInduction, TLAPS

-----------------------------------------------------------------------------
Posted == [home : Nat, away : Nat, hs : Nat, as : Nat]
CallState == [pc : {"free", "check team", "insert team", "check match", "insert match",
                    "answered", "refresh"},
              page : Page \cup {None}, name : Name \cup {None}, match : Posted,
              status : Nat, id : Nat, known : SUBSET Nat,
              teams : Int, matches : Int, listed : Int, upto : Int]

(* A page as a record; its table may be anything.                          *)
IsPage(v) == DOMAIN v = {"open", "error", "teams", "matches", "table", "known"}

(* The tables: names and pairings are there once, between two teams.       *)
Tables(ts, ms) ==
    /\ ts \in Seq(Name) /\ IsInjective(ts)
    /\ ms \in Seq(Posted)
    /\ \A k \in 1..Len(ms) :
         /\ ms[k].home # ms[k].away
         /\ ms[k].home \in 1..Len(ts) /\ ms[k].away \in 1..Len(ts)
         /\ \A j \in 1..Len(ms) : j # k => \/ ms[j].home # ms[k].home
                                           \/ ms[j].away # ms[k].away

(* Numbers of rows that cover the known matches, or their teams.           *)
Lists(upto, known)      == \A k \in known : k <= upto
Names(upto, ms, known)  == \A k \in known : ms[k].home <= upto /\ ms[k].away <= upto

(* What a call has found out so far.                                       *)
GoodRefresh(v, ts, ms, mine) ==
    /\ v.known \subseteq mine
    /\ v.teams # Unread   => v.teams \in 0..Len(ts) /\ Names(v.teams, ms, v.known)
    /\ v.matches # Unread => v.matches \in 0..Len(ms) /\ Lists(v.matches, v.known)
    /\ v.listed # Unread  => v.listed \in 0..Len(ts) /\ Names(v.listed, ms, v.known)
    /\ v.upto # Unread    => /\ v.listed # Unread
                             /\ v.upto \in 0..Len(ms) /\ Lists(v.upto, v.known)

GoodCall(v, ts, ms, all) ==
    /\ v \in CallState
    /\ v.pc # "free" => v.page \in Page
    /\ v.pc \in {"check team", "insert team"} => v.name \in Name
    /\ v.pc = "insert match" => /\ v.match.home # v.match.away
                                /\ v.match.home \in 1..Len(ts) /\ v.match.away \in 1..Len(ts)
    /\ v.pc = "answered" => v.id \in 0..Len(ms)
    /\ v.pc = "refresh" => GoodRefresh(v, ts, ms, all[v.page])

GoodPage(v, ts, ms) ==
    /\ IsPage(v)
    /\ v.teams \in 0..Len(ts) /\ v.matches \in 0..Len(ms)
    /\ v.known \subseteq 1..Len(ms)
    /\ Lists(v.matches, v.known) /\ Names(v.teams, ms, v.known)

TInv == /\ Tables(teams, matches)
        /\ own \in [Page -> SUBSET (1..Len(matches))]
        /\ DOMAIN page = Page /\ \A p \in Page : GoodPage(page[p], teams, matches)
        /\ DOMAIN call = Call /\ \A c \in Call : GoodCall(call[c], teams, matches, own)
        /\ call = [c \in Call |-> call[c]] /\ page = [p \in Page |-> page[p]]
-----------------------------------------------------------------------------
(* One table is the beginning of another.                                  *)
Begins(s, t) == Len(s) <= Len(t) /\ \A k \in 1..Len(s) : t[k] = s[k]

(* What was found out stays true when the tables grow.                     *)
LEMMA CallLasts ==
    ASSUME NEW ts, NEW us, NEW ms, NEW ns, NEW all, NEW some, NEW v,
           ts \in Seq(Name), us \in Seq(Name), ms \in Seq(Posted), ns \in Seq(Posted),
           Begins(ts, us), Begins(ms, ns),
           all \in [Page -> SUBSET (1..Len(ms))], \A p \in Page : all[p] \subseteq some[p],
           GoodCall(v, ts, ms, all)
    PROVE  GoodCall(v, us, ns, some)
<1>1. Len(ts) \in Nat /\ Len(us) \in Nat /\ Len(ms) \in Nat /\ Len(ns) \in Nat
  OBVIOUS
<1>2. ASSUME v.pc = "refresh" PROVE GoodRefresh(v, us, ns, some[v.page])
  <2>1. v.page \in Page /\ GoodRefresh(v, ts, ms, all[v.page])
    BY <1>2 DEF GoodCall
  <2>2. v.known \subseteq 1..Len(ms) /\ v.known \subseteq some[v.page]
    BY <2>1 DEF GoodRefresh
  <2>3. \A n \in Int : Names(n, ms, v.known) => Names(n, ns, v.known)
    BY <2>2 DEF Names, Begins
  <2>4. v.teams \in Int /\ v.listed \in Int
    BY DEF GoodCall, CallState
  <2> QED
    BY <1>1, <2>1, <2>2, <2>3, <2>4 DEF GoodRefresh, Begins
<1>3. 1..Len(ts) \subseteq 1..Len(us) /\ 0..Len(ms) \subseteq 0..Len(ns)
  BY <1>1 DEF Begins
<1> QED
  BY <1>2, <1>3 DEF GoodCall

LEMMA PageLasts ==
    ASSUME NEW ts, NEW us, NEW ms, NEW ns, NEW v,
           ts \in Seq(Name), us \in Seq(Name), ms \in Seq(Posted), ns \in Seq(Posted),
           Begins(ts, us), Begins(ms, ns), GoodPage(v, ts, ms)
    PROVE  GoodPage(v, us, ns)
BY DEF GoodPage, Begins, Names

(* A table and the same with a row more.                                   *)
LEMMA BeginsAppend ==
    ASSUME NEW S, NEW s \in Seq(S), NEW e \in S
    PROVE  Begins(s, s) /\ Begins(s, Append(s, e)) /\ Append(s, e) \in Seq(S)
BY DEF Begins
-----------------------------------------------------------------------------
(* The records that the steps leave in call.                               *)
LEMMA FreeType ==
    /\ Free \in CallState /\ Free.pc = "free" /\ Free.known = {}
    /\ Free.teams = Unread /\ Free.matches = Unread /\ Free.listed = Unread
    /\ Free.upto = Unread
<1>1. NoMatch \in Posted
  BY DEF NoMatch, Posted
<1> QED
  BY <1>1 DEF Free, CallState, Unread

LEMMA AnsweredGood ==
    ASSUME NEW ts, NEW ms, NEW all, NEW p \in Page, NEW status \in Nat,
           NEW id \in 0..Len(ms), Len(ms) \in Nat
    PROVE  GoodCall([Free EXCEPT !.pc = "answered", !.page = p, !.status = status, !.id = id],
                    ts, ms, all)
<1> DEFINE v == [Free EXCEPT !.pc = "answered", !.page = p, !.status = status, !.id = id]
<1>1. id \in Nat
  OBVIOUS
<1>2. v \in CallState /\ v.pc = "answered" /\ v.page = p /\ v.id = id
  BY <1>1, FreeType DEF CallState
<1> HIDE DEF v
<1>3. GoodCall(v, ts, ms, all)
  BY <1>2 DEF GoodCall
<1> QED
  BY <1>3 DEF v

LEMMA RefreshGood ==
    ASSUME NEW ts, NEW ms, NEW all, NEW p \in Page,
           NEW known \in SUBSET Nat, known \subseteq all[p]
    PROVE  GoodCall(Refresh(p, known), ts, ms, all)
<1> DEFINE v == [Free EXCEPT !.pc = "refresh", !.page = p, !.known = known]
<1>1. /\ v \in CallState /\ v.pc = "refresh" /\ v.page = p /\ v.known = known
      /\ v.teams = Unread /\ v.matches = Unread /\ v.listed = Unread /\ v.upto = Unread
  BY FreeType DEF CallState
<1> HIDE DEF v
<1>2. GoodCall(v, ts, ms, all)
  BY <1>1 DEF GoodCall, GoodRefresh
<1> QED
  BY <1>2 DEF v, Refresh

(* The pattern of all steps: one call goes on, one page may change, and    *)
(* the tables keep what they have.                                         *)
LEMMA Goes ==
    ASSUME TInv, NEW c \in Call, NEW v, call' = [call EXCEPT ![c] = v],
           GoodCall(v, teams', matches', own'),
           Tables(teams', matches'), Begins(teams, teams'), Begins(matches, matches'),
           own' \in [Page -> SUBSET (1..Len(matches'))],
           \A p \in Page : own[p] \subseteq own'[p],
           \/ page' = page
           \/ \E p \in Page : \E x : GoodPage(x, teams', matches')
                                   /\ page' = [page EXCEPT ![p] = x]
    PROVE  TInv'
<1>1. ASSUME NEW d \in Call PROVE GoodCall(call'[d], teams', matches', own')
  <2>1. CASE d = c
    BY <2>1 DEF TInv
  <2>2. CASE d # c
    <3>1. call'[d] = call[d]
      BY <2>2 DEF TInv
    <3> QED
      BY <3>1, CallLasts DEF TInv, Tables
  <2> QED
    BY <2>1, <2>2
<1>2. ASSUME NEW p \in Page PROVE GoodPage(page'[p], teams', matches')
  <2>1. GoodPage(page[p], teams', matches')
    BY PageLasts DEF TInv, Tables
  <2>2. DOMAIN page = Page
    BY DEF TInv
  <2> QED
    BY <2>1, <2>2
<1>3. /\ DOMAIN call' = Call /\ call' = [d \in Call |-> call'[d]]
  BY DEF TInv
<1>4. /\ DOMAIN page' = Page /\ page' = [p \in Page |-> page'[p]]
  BY DEF TInv
<1> QED
  BY <1>1, <1>2, <1>3, <1>4 DEF TInv

(* The same when neither the tables nor the pages change.                  *)
LEMMA GoesAlone ==
    ASSUME TInv, NEW c \in Call, NEW v, call' = [call EXCEPT ![c] = v],
           GoodCall(v, teams, matches, own), UNCHANGED <<teams, matches, page, own>>
    PROVE  TInv'
<1>1. Begins(teams, teams) /\ Begins(matches, matches)
  BY DEF TInv, Tables, Begins
<1> QED
  BY <1>1, Goes DEF TInv

(* What the invariant says of the tables and of a call.                    *)
LEMMA Sizes ==
    ASSUME TInv
    PROVE  /\ teams \in Seq(Name) /\ matches \in Seq(Posted)
           /\ Len(teams) \in Nat /\ Len(matches) \in Nat /\ 0 \in 0..Len(matches)
BY DEF TInv, Tables

LEMMA OfCall ==
    ASSUME TInv, NEW c \in Call
    PROVE  /\ GoodCall(call[c], teams, matches, own) /\ call[c] \in CallState
           /\ call[c].pc # "free" => call[c].page \in Page
<1>1. GoodCall(call[c], teams, matches, own)
  BY DEF TInv
<1> QED
  BY <1>1 DEF GoodCall
-----------------------------------------------------------------------------
(* The handlers.                                                           *)
LEMMA PostStep ==
    ASSUME TInv, NEW c \in Call, CheckTeam(c) \/ CheckMatch(c) \/ Break(c)
    PROVE  TInv'
<1> DEFINE u == call[c]
<1>a. Len(matches) \in Nat /\ 0 \in 0..Len(matches)
  BY Sizes
<1>0. GoodCall(u, teams, matches, own) /\ u \in CallState /\ u.page \in Page
  <2>1. u.pc # "free"
    BY DEF CheckTeam, CheckMatch, Break
  <2> QED
    BY <2>1, OfCall
<1>1. ASSUME NEW status \in Nat, Answer(c, status, 0), UNCHANGED <<teams, matches, page, own>>
      PROVE  TInv'
  <2> DEFINE v == [Free EXCEPT !.pc = "answered", !.page = u.page, !.status = status, !.id = 0]
  <2>1. GoodCall(v, teams, matches, own)
    <3> HIDE DEF u
    <3> QED
      BY <1>a, <1>0, AnsweredGood
  <2>2. call' = [call EXCEPT ![c] = v]
    BY <1>1 DEF Answer, To
  <2> HIDE DEF v
  <2> QED
    BY <1>1, <2>1, <2>2, GoesAlone
<1>2. CASE CheckTeam(c) /\ ~Answer(c, 409, 0)
  <2> DEFINE v == [u EXCEPT !.pc = "insert team"]
  <2>1. u.name \in Name /\ call' = [call EXCEPT ![c] = v]
    BY <1>0, <1>2 DEF CheckTeam, To, GoodCall
  <2> HIDE DEF u
  <2>2. v \in CallState /\ v.pc = "insert team" /\ v.page = u.page /\ v.name = u.name
    BY <1>0 DEF CallState
  <2> HIDE DEF v
  <2>3. GoodCall(v, teams, matches, own)
    BY <1>0, <2>1, <2>2 DEF GoodCall
  <2> QED
    BY <1>2, <2>1, <2>3, GoesAlone DEF CheckTeam
<1>3. CASE CheckMatch(c) /\ ~Answer(c, 400, 0) /\ ~Answer(c, 404, 0)
  <2> DEFINE v == [u EXCEPT !.pc = "insert match"]
  <2>1. /\ u.match.home # u.match.away
        /\ u.match.home \in 1..Len(teams) /\ u.match.away \in 1..Len(teams)
        /\ call' = [call EXCEPT ![c] = v]
    <3>1. DOMAIN teams = 1..Len(teams)
      BY DEF TInv, Tables
    <3> QED
      BY <1>3, <3>1 DEF CheckMatch, To
  <2> HIDE DEF u
  <2>2. v \in CallState /\ v.pc = "insert match" /\ v.page = u.page /\ v.match = u.match
    BY <1>0 DEF CallState
  <2> HIDE DEF v
  <2>3. /\ v.match.home # v.match.away /\ v.page \in Page
        /\ v.match.home \in 1..Len(teams) /\ v.match.away \in 1..Len(teams)
    <3>1. /\ v.match.home # v.match.away
          /\ v.match.home \in 1..Len(teams) /\ v.match.away \in 1..Len(teams)
      BY <2>1, <2>2
    <3> QED
      BY <1>0, <2>2, <3>1
  <2>4. GoodCall(v, teams, matches, own)
    BY <2>2, <2>3 DEF GoodCall
  <2> QED
    BY <1>3, <2>1, <2>4, GoesAlone DEF CheckMatch
<1>4. CASE Answer(c, 400, 0) \/ Answer(c, 404, 0) \/ Answer(c, 409, 0) \/ Answer(c, 500, 0)
  <2>1. UNCHANGED <<teams, matches, page, own>>
    BY DEF CheckTeam, CheckMatch, Break
  <2> QED
    BY <1>1, <1>4, <2>1
<1> QED
  BY <1>2, <1>3, <1>4 DEF Break

LEMMA InsertTeamStep == ASSUME TInv, NEW c \in Call, InsertTeam(c) PROVE TInv'
<1> DEFINE n == call[c].name
           p == call[c].page
<1>0. n \in Name /\ p \in Page
  <2>1. call[c].pc = "insert team"
    BY DEF InsertTeam
  <2> QED
    BY <2>1, OfCall DEF GoodCall
<1>a. /\ teams \in Seq(Name) /\ matches \in Seq(Posted)
      /\ Len(matches) \in Nat /\ 0 \in 0..Len(matches)
  BY Sizes
<1>1. CASE Clashes(c)
  <2> DEFINE v == [Free EXCEPT !.pc = "answered", !.page = p, !.status = 500, !.id = 0]
  <2>1. call' = [call EXCEPT ![c] = v] /\ UNCHANGED <<teams, matches, page, own>>
    BY <1>1 DEF InsertTeam, Answer, To
  <2>2. GoodCall(v, teams, matches, own)
    <3>1. 500 \in Nat
      OBVIOUS
    <3> HIDE DEF p, n
    <3>2. ASSUME NEW status \in Nat
          PROVE  GoodCall([Free EXCEPT !.pc = "answered", !.page = p,
                                       !.status = status, !.id = 0], teams, matches, own)
      BY <1>0, <1>a, AnsweredGood
    <3> QED
      BY <3>1, <3>2
  <2> QED
    BY <2>1, <2>2, GoesAlone
<1>2. CASE ~Clashes(c)
  <2> DEFINE v == [Free EXCEPT !.pc = "answered", !.page = p, !.status = 201, !.id = 0]
  <2>1. /\ teams' = Append(teams, n) /\ UNCHANGED <<matches, page, own>>
        /\ call' = [call EXCEPT ![c] = v]
    BY <1>2 DEF InsertTeam, Answer, To
  <2>2. \A k \in 1..Len(teams) : teams[k] # n
    BY <1>0, <1>a, <1>2 DEF Clashes, ToSet
  <2> HIDE DEF n, p
  <2>3. GoodCall(v, teams', matches', own')
    BY <1>0, <1>a, <2>1, AnsweredGood
  <2> HIDE DEF v
  <2>4. /\ Begins(teams, teams') /\ Begins(matches, matches') /\ teams' \in Seq(Name)
    BY <1>0, <1>a, <2>1, BeginsAppend DEF Begins
  <2>5. Tables(teams', matches')
    <3>1. /\ DOMAIN teams = 1..Len(teams) /\ DOMAIN teams' = 1..(Len(teams) + 1)
          /\ Len(teams) \in Nat /\ Len(teams') = Len(teams) + 1
          /\ teams'[Len(teams) + 1] = n
          /\ \A k \in 1..Len(teams) : teams'[k] = teams[k]
      BY <1>0, <1>a, <2>1
    <3>2. IsInjective(teams')
      <4> SUFFICES ASSUME NEW j \in DOMAIN teams', NEW k \in DOMAIN teams',
                          teams'[j] = teams'[k]
                   PROVE  j = k
        BY DEF IsInjective
      <4>1. /\ j = Len(teams) + 1 \/ j \in 1..Len(teams)
            /\ k = Len(teams) + 1 \/ k \in 1..Len(teams)
        BY <3>1
      <4>2. \A l, m \in 1..Len(teams) : teams[l] = teams[m] => l = m
        BY <3>1 DEF TInv, Tables, IsInjective
      <4> QED
        BY <2>2, <3>1, <4>1, <4>2
    <3>3. 1..Len(teams) \subseteq 1..Len(teams')
      BY <3>1
    <3> QED
      BY <2>1, <2>4, <3>2, <3>3 DEF TInv, Tables
  <2> QED
    BY <2>1, <2>3, <2>4, <2>5, Goes DEF TInv
<1> QED
  BY <1>1, <1>2

LEMMA InsertMatchStep == ASSUME TInv, NEW c \in Call, InsertMatch(c) PROVE TInv'
<1> DEFINE m == call[c].match
           p == call[c].page
<1>0. p \in Page /\ m \in Posted
  <2>1. call[c].pc = "insert match"
    BY DEF InsertMatch
  <2> QED
    BY <2>1, OfCall DEF CallState
<1>b. m.home # m.away /\ m.home \in 1..Len(teams) /\ m.away \in 1..Len(teams)
  <2>1. call[c].pc = "insert match"
    BY DEF InsertMatch
  <2> QED
    BY <2>1, OfCall DEF GoodCall
<1>a. /\ teams \in Seq(Name) /\ matches \in Seq(Posted)
      /\ Len(matches) \in Nat /\ 0 \in 0..Len(matches)
  BY Sizes
<1>1. CASE Clashes(c)
  <2> DEFINE v == [Free EXCEPT !.pc = "answered", !.page = p, !.status = 500, !.id = 0]
  <2>1. call' = [call EXCEPT ![c] = v] /\ UNCHANGED <<teams, matches, page, own>>
    BY <1>1 DEF InsertMatch, Answer, To
  <2>2. GoodCall(v, teams, matches, own)
    <3>1. 500 \in Nat
      OBVIOUS
    <3> HIDE DEF p, m
    <3>2. ASSUME NEW status \in Nat
          PROVE  GoodCall([Free EXCEPT !.pc = "answered", !.page = p,
                                       !.status = status, !.id = 0], teams, matches, own)
      BY <1>0, <1>a, AnsweredGood
    <3> QED
      BY <3>1, <3>2
  <2> QED
    BY <2>1, <2>2, GoesAlone
<1>2. CASE ~Clashes(c)
  <2> DEFINE n == Len(matches) + 1
             v == [Free EXCEPT !.pc = "answered", !.page = p, !.status = 201, !.id = n]
  <2>1. /\ matches' = Append(matches, m) /\ UNCHANGED <<teams, page, own>>
        /\ call' = [call EXCEPT ![c] = v]
    BY <1>2 DEF InsertMatch, Answer, To
  <2>2. \A k \in 1..Len(matches) : matches[k].home # m.home \/ matches[k].away # m.away
    BY <1>0, <1>a, <1>2 DEF Clashes
  <2> HIDE DEF m, p
  <2>3. /\ Len(matches') = n /\ n \in Nat /\ matches'[n] = m
        /\ \A k \in 1..Len(matches) : matches'[k] = matches[k]
        /\ \A k \in 1..n : k = n \/ k \in 1..Len(matches)
    BY <1>0, <1>a, <1>b, <2>1
  <2>4. GoodCall(v, teams', matches', own')
    <3>1. n \in 0..Len(matches') /\ Len(matches') \in Nat /\ 201 \in Nat
      BY <1>a, <2>3
    <3> HIDE DEF n
    <3> QED
      BY <1>0, <3>1, AnsweredGood
  <2> HIDE DEF v, n
  <2>5. /\ Begins(teams, teams') /\ Begins(matches, matches') /\ matches' \in Seq(Posted)
    BY <1>0, <1>a, <1>b, <2>1, BeginsAppend DEF Begins
  <2>6. Tables(teams', matches')
    BY <1>0, <1>a, <1>b, <2>1, <2>2, <2>3, <2>5 DEF TInv, Tables
  <2>7. own' \in [Page -> SUBSET (1..Len(matches'))]
    <3>1. 1..Len(matches) \subseteq 1..Len(matches')
      BY <1>a, <2>3 DEF n
    <3> QED
      BY <2>1, <3>1 DEF TInv
  <2> QED
    BY <2>1, <2>4, <2>5, <2>6, <2>7, Goes DEF TInv
<1> QED
  BY <1>1, <1>2

(* What a SELECT returns covers all that the page knows.                   *)
LEMMA AllCovered ==
    ASSUME TInv, NEW c \in Call, call[c].pc = "refresh"
    PROVE  /\ call[c].page \in Page
           /\ GoodRefresh(call[c], teams, matches, own[call[c].page])
           /\ Len(teams) \in 0..Len(teams) /\ Len(matches) \in 0..Len(matches)
           /\ Names(Len(teams), matches, call[c].known)
           /\ Lists(Len(matches), call[c].known)
<1>1. call[c].page \in Page /\ GoodRefresh(call[c], teams, matches, own[call[c].page])
  BY OfCall DEF GoodCall
<1>2. own[call[c].page] \subseteq 1..Len(matches) /\ call[c].known \subseteq own[call[c].page]
  BY <1>1 DEF TInv, GoodRefresh
<1>3. \A k \in 1..Len(matches) : /\ matches[k].home \in 1..Len(teams)
                                 /\ matches[k].away \in 1..Len(teams)
  BY DEF TInv, Tables
<1>4. Len(teams) \in Nat /\ Len(matches) \in Nat
  BY Sizes
<1>5. Len(teams) \in 0..Len(teams) /\ Len(matches) \in 0..Len(matches)
  BY <1>4
<1>6. Names(Len(teams), matches, call[c].known)
  BY <1>2, <1>3, <1>4 DEF Names
<1>7. Lists(Len(matches), call[c].known)
  BY <1>2, <1>4 DEF Lists
<1> QED
  BY <1>1, <1>5, <1>6, <1>7

LEMMA ReadStep ==
    ASSUME TInv, NEW c \in Call,
           ListTeams(c) \/ ListMatches(c) \/ StandingsTeams(c) \/ StandingsMatches(c)
    PROVE  TInv'
<1> DEFINE u == call[c]
<1>1. u.pc = "refresh" /\ UNCHANGED <<teams, matches, page, own>>
  BY DEF ListTeams, ListMatches, StandingsTeams, StandingsMatches
<1>2. /\ u \in CallState /\ u.page \in Page
      /\ GoodRefresh(u, teams, matches, own[u.page])
      /\ Len(teams) \in 0..Len(teams) /\ Len(matches) \in 0..Len(matches)
      /\ Names(Len(teams), matches, u.known) /\ Lists(Len(matches), u.known)
  BY <1>1, OfCall, AllCovered
<1>3. Len(teams) \in Nat /\ Len(matches) \in Nat /\ Unread \notin Nat
  BY Sizes DEF Unread
<1>4. SUFFICES ASSUME NEW v, call' = [call EXCEPT ![c] = v], v \in CallState,
                      v.pc = "refresh", v.page = u.page,
                      GoodRefresh(v, teams, matches, own[u.page])
               PROVE  TInv'
  <2>1. CASE ListTeams(c)
    <3> DEFINE n == Len(teams)
               v == [u EXCEPT !.teams = n]
    <3>1. call' = [call EXCEPT ![c] = v]
      BY <2>1 DEF ListTeams, To
    <3>n. n \in Int
      BY <1>3
    <3> HIDE DEF u, n
    <3>2. /\ v \in CallState /\ v.pc = u.pc /\ v.page = u.page /\ v.known = u.known
          /\ v.teams = n /\ v.matches = u.matches /\ v.listed = u.listed
          /\ v.upto = u.upto
      BY <1>2, <3>n DEF CallState
    <3> HIDE DEF v
    <3>3. GoodRefresh(v, teams, matches, own[u.page])
      BY <1>2, <3>2 DEF GoodRefresh, n
    <3> QED
      BY <1>1, <1>4, <3>1, <3>2, <3>3
  <2>2. CASE ListMatches(c)
    <3> DEFINE n == Len(matches)
               v == [u EXCEPT !.matches = n]
    <3>1. call' = [call EXCEPT ![c] = v]
      BY <2>2 DEF ListMatches, To
    <3>n. n \in Int
      BY <1>3
    <3> HIDE DEF u, n
    <3>2. /\ v \in CallState /\ v.pc = u.pc /\ v.page = u.page /\ v.known = u.known
          /\ v.teams = u.teams /\ v.matches = n /\ v.listed = u.listed
          /\ v.upto = u.upto
      BY <1>2, <3>n DEF CallState
    <3> HIDE DEF v
    <3>3. GoodRefresh(v, teams, matches, own[u.page])
      BY <1>2, <3>2 DEF GoodRefresh, n
    <3> QED
      BY <1>1, <1>4, <3>1, <3>2, <3>3
  <2>3. CASE StandingsTeams(c)
    <3> DEFINE n == Len(teams)
               v == [u EXCEPT !.listed = n]
    <3>1. call' = [call EXCEPT ![c] = v]
      BY <2>3 DEF StandingsTeams, To
    <3>n. n \in Int
      BY <1>3
    <3> HIDE DEF u, n
    <3>2. /\ v \in CallState /\ v.pc = u.pc /\ v.page = u.page /\ v.known = u.known
          /\ v.teams = u.teams /\ v.matches = u.matches /\ v.listed = n
          /\ v.upto = u.upto
      BY <1>2, <3>n DEF CallState
    <3> HIDE DEF v
    <3>3. v.listed # Unread
      BY <1>3, <3>2 DEF n
    <3>4. GoodRefresh(v, teams, matches, own[u.page])
      BY <1>2, <3>2, <3>3 DEF GoodRefresh, n
    <3> QED
      BY <1>1, <1>4, <3>1, <3>2, <3>4
  <2>4. CASE StandingsMatches(c)
    <3> DEFINE n == Len(matches)
               v == [u EXCEPT !.upto = n]
    <3>1. call' = [call EXCEPT ![c] = v] /\ u.listed # Unread
      BY <2>4 DEF StandingsMatches, To
    <3>n. n \in Int
      BY <1>3
    <3> HIDE DEF u, n
    <3>2. /\ v \in CallState /\ v.pc = u.pc /\ v.page = u.page /\ v.known = u.known
          /\ v.teams = u.teams /\ v.matches = u.matches /\ v.listed = u.listed
          /\ v.upto = n
      BY <1>2, <3>n DEF CallState
    <3> HIDE DEF v
    <3>3. GoodRefresh(v, teams, matches, own[u.page])
      BY <1>2, <3>1, <3>2 DEF GoodRefresh, n
    <3> QED
      BY <1>1, <1>4, <3>1, <3>2, <3>3
  <2> QED
    BY <2>1, <2>2, <2>3, <2>4
<1>5. GoodCall(v, teams, matches, own)
  BY <1>2, <1>4 DEF GoodCall
<1> QED
  BY <1>1, <1>4, <1>5, GoesAlone
-----------------------------------------------------------------------------
(* The page.                                                               *)
LEMMA OpenStep ==
    ASSUME TInv, NEW c \in Call, NEW p \in Page, Open(c, p)
    PROVE  TInv'
<1> DEFINE v == Refresh(p, {})
           y == page[p]
           x == [y EXCEPT !.open = TRUE]
<1>1. /\ call' = [call EXCEPT ![c] = v] /\ page' = [page EXCEPT ![p] = x]
      /\ UNCHANGED <<teams, matches, own>>
  BY DEF Open, To
<1>2. GoodCall(v, teams, matches, own)
  <2>1. {} \in SUBSET Nat /\ {} \subseteq own[p]
    OBVIOUS
  <2> QED
    BY <2>1, RefreshGood
<1>3. GoodPage(x, teams, matches)
  <2>1. GoodPage(y, teams, matches)
    BY DEF TInv
  <2> HIDE DEF y
  <2>2. DOMAIN x = DOMAIN y /\ x.teams = y.teams /\ x.matches = y.matches /\ x.known = y.known
    BY <2>1 DEF GoodPage, IsPage
  <2>3. IsPage(x) /\ x.teams = y.teams /\ x.matches = y.matches /\ x.known = y.known
    BY <2>1, <2>2 DEF GoodPage, IsPage
  <2> HIDE DEF x
  <2> QED
    BY <2>1, <2>3 DEF GoodPage
<1>4. Begins(teams, teams') /\ Begins(matches, matches')
  BY <1>1, Sizes DEF Begins
<1> HIDE DEF v, x
<1> QED
  BY <1>1, <1>2, <1>3, <1>4, Goes DEF TInv

LEMMA AddTeamStep ==
    ASSUME TInv, NEW c \in Call, NEW p \in Page, NEW name \in Name, AddTeam(c, p, name)
    PROVE  TInv'
<1> DEFINE v == [Free EXCEPT !.pc = "check team", !.page = p, !.name = name]
<1>1. call' = [call EXCEPT ![c] = v] /\ UNCHANGED <<teams, matches, page, own>>
  BY DEF AddTeam, To
<1>2. v \in CallState /\ v.pc = "check team" /\ v.page = p /\ v.name = name
  BY FreeType DEF CallState
<1> HIDE DEF v
<1>3. GoodCall(v, teams, matches, own)
  BY <1>2 DEF GoodCall
<1> QED
  BY <1>1, <1>3, GoesAlone

LEMMA AddMatchStep ==
    ASSUME TInv, NEW c \in Call, NEW p \in Page, NEW m \in Result, AddMatch(c, p, m)
    PROVE  TInv'
<1> DEFINE v == [Free EXCEPT !.pc = "check match", !.page = p, !.match = m]
<1>1. call' = [call EXCEPT ![c] = v] /\ UNCHANGED <<teams, matches, page, own>>
  BY DEF AddMatch, To
<1>2. m \in Posted
  BY TopTableAssumption DEF Posted
<1>3. v \in CallState /\ v.pc = "check match" /\ v.page = p
  BY <1>2, FreeType DEF CallState
<1> HIDE DEF v
<1>4. GoodCall(v, teams, matches, own)
  BY <1>3 DEF GoodCall
<1> QED
  BY <1>1, <1>4, GoesAlone

(* The end of a call: it is free, and its page may show an error.          *)
LEMMA EndStep ==
    ASSUME TInv, NEW c \in Call, call' = [call EXCEPT ![c] = Free],
           UNCHANGED <<teams, matches, own>>, NEW p \in Page,
           page' = [page EXCEPT ![p].error = TRUE]
    PROVE  TInv'
<1> DEFINE y == page[p]
           x == [y EXCEPT !.error = TRUE]
<1>1. page' = [page EXCEPT ![p] = x]
  OBVIOUS
<1>2. GoodCall(Free, teams, matches, own)
  BY FreeType DEF GoodCall
<1>3. GoodPage(x, teams, matches)
  <2>1. GoodPage(y, teams, matches)
    BY DEF TInv
  <2> HIDE DEF y
  <2>2. DOMAIN x = DOMAIN y /\ x.teams = y.teams /\ x.matches = y.matches /\ x.known = y.known
    BY <2>1 DEF GoodPage, IsPage
  <2>3. IsPage(x) /\ x.teams = y.teams /\ x.matches = y.matches /\ x.known = y.known
    BY <2>1, <2>2 DEF GoodPage, IsPage
  <2> HIDE DEF x
  <2> QED
    BY <2>1, <2>3 DEF GoodPage
<1>4. Begins(teams, teams') /\ Begins(matches, matches')
  BY Sizes DEF Begins
<1> HIDE DEF x
<1> QED
  BY <1>1, <1>2, <1>3, <1>4, Goes DEF TInv

LEMMA ReceiveStep == ASSUME TInv, NEW c \in Call, Receive(c) PROVE TInv'
<1> DEFINE p == call[c].page
           i == call[c].id
<1>1. p \in Page /\ i \in 0..Len(matches)
  <2>1. call[c].pc = "answered"
    BY DEF Receive
  <2> QED
    BY <2>1, OfCall DEF GoodCall
<1>2. CASE call[c].status = 201
  <2> DEFINE mine == own[p] \cup ({i} \ {0})
             v    == Refresh(p, mine)
  <2>1. /\ own' = [own EXCEPT ![p] = mine] /\ call' = [call EXCEPT ![c] = Refresh(p, own'[p])]
        /\ UNCHANGED <<teams, matches, page>>
    BY <1>2 DEF Receive, To
  <2> HIDE DEF p, i
  <2>2. mine \subseteq 1..Len(matches) /\ own[p] \subseteq mine
    <3>1. own[p] \subseteq 1..Len(matches) /\ Len(matches) \in Nat
      BY <1>1, Sizes DEF TInv
    <3> QED
      BY <1>1, <3>1
  <2> HIDE DEF mine
  <2>3. /\ own'[p] = mine /\ own' \in [Page -> SUBSET (1..Len(matches))]
        /\ \A q \in Page : own[q] \subseteq own'[q]
    BY <1>1, <2>1, <2>2 DEF TInv
  <2>4. mine \in SUBSET Nat
    BY <2>2
  <2>5. GoodCall(v, teams, matches, own')
    BY <1>1, <2>3, <2>4, RefreshGood
  <2>6. call' = [call EXCEPT ![c] = v]
    BY <2>1, <2>3
  <2>7. Begins(teams, teams') /\ Begins(matches, matches')
    BY <2>1, Sizes DEF Begins
  <2> HIDE DEF v
  <2> QED
    BY <2>1, <2>3, <2>5, <2>6, <2>7, Goes DEF TInv
<1>3. CASE call[c].status # 201
  <2>1. /\ call' = [call EXCEPT ![c] = Free] /\ UNCHANGED <<teams, matches, own>>
        /\ page' = [page EXCEPT ![p].error = TRUE]
    BY <1>3 DEF Receive, To
  <2> HIDE DEF p
  <2> QED
    BY <1>1, <2>1, EndStep
<1> QED
  BY <1>2, <1>3

LEMMA LoseStep == ASSUME TInv, NEW c \in Call, Lose(c) PROVE TInv'
<1> DEFINE p == call[c].page
<1>1. /\ call' = [call EXCEPT ![c] = Free] /\ UNCHANGED <<teams, matches, own>>
      /\ page' = [page EXCEPT ![p].error = TRUE]
  BY DEF Lose, To
<1>2. p \in Page
  <2>1. call[c].pc # "free"
    BY DEF Lose
  <2> QED
    BY <2>1, OfCall
<1> HIDE DEF p
<1> QED
  BY <1>1, <1>2, EndStep

LEMMA ShowStep == ASSUME TInv, NEW c \in Call, Show(c) PROVE TInv'
<1> DEFINE u == call[c]
           p == u.page
           s == Standings(u.listed, u.upto)
           x == [open |-> TRUE, error |-> FALSE, teams |-> u.teams,
                 matches |-> u.matches, known |-> u.known, table |-> s]
<1>1. /\ call' = [call EXCEPT ![c] = Free] /\ UNCHANGED <<teams, matches, own>>
      /\ page' = [page EXCEPT ![p] = x] /\ u.pc = "refresh"
      /\ u.teams # Unread /\ u.matches # Unread
  BY DEF Show, To
<1>2. p \in Page /\ GoodRefresh(u, teams, matches, own[p])
  BY <1>1, AllCovered
<1>3. own[p] \subseteq 1..Len(matches)
  BY <1>2 DEF TInv
<1> HIDE DEF u, p, s
<1>4. GoodPage(x, teams, matches)
  BY <1>1, <1>2, <1>3 DEF GoodPage, GoodRefresh, IsPage
<1>5. GoodCall(Free, teams, matches, own)
  BY FreeType DEF GoodCall
<1>6. Begins(teams, teams') /\ Begins(matches, matches')
  BY <1>1, Sizes DEF Begins
<1> HIDE DEF x
<1> QED
  BY <1>1, <1>2, <1>4, <1>5, <1>6, Goes DEF TInv
-----------------------------------------------------------------------------
(* The invariant holds when the server starts, and every step keeps it.    *)
LEMMA TInvInit == TInit => TInv
<1> SUFFICES ASSUME TInit PROVE TInv
  OBVIOUS
<1>1. /\ teams \in Seq(Name) /\ IsInjective(teams) /\ matches = <<>>
      /\ call = [c \in Call |-> Free] /\ page = [p \in Page |-> Blank]
      /\ own = [p \in Page |-> {}]
  BY TopTableAssumption DEF TInit
<1>2. /\ matches \in Seq(Posted) /\ Len(matches) = 0 /\ 1..Len(matches) = {}
      /\ Len(teams) \in Nat
  BY <1>1
<1>3. Tables(teams, matches)
  BY <1>1, <1>2 DEF Tables
<1>4. own \in [Page -> SUBSET (1..Len(matches))]
  BY <1>1
<1>5. GoodPage(Blank, teams, matches)
  <2>1. /\ Blank.teams = 0 /\ Blank.matches = 0 /\ Blank.known = {} /\ IsPage(Blank)
    BY DEF Blank, IsPage
  <2> QED
    BY <1>2, <2>1 DEF GoodPage, Lists, Names
<1>6. GoodCall(Free, teams, matches, own)
  BY FreeType DEF GoodCall
<1> QED
  BY <1>1, <1>3, <1>4, <1>5, <1>6 DEF TInv

LEMMA TInvStep == TInv /\ [TNext]_tvars => TInv'
<1> SUFFICES ASSUME TInv, [TNext]_tvars PROVE TInv'
  OBVIOUS
<1>1. ASSUME NEW c \in Call, NEW p \in Page, Open(c, p) PROVE TInv'
  BY <1>1, OpenStep
<1>2. ASSUME NEW c \in Call, NEW p \in Page, NEW name \in Name, AddTeam(c, p, name) PROVE TInv'
  BY <1>2, AddTeamStep
<1>3. ASSUME NEW c \in Call, NEW p \in Page, NEW m \in Result, AddMatch(c, p, m) PROVE TInv'
  BY <1>3, AddMatchStep
<1>4. ASSUME NEW c \in Call, Handle(c) PROVE TInv'
  BY <1>4, PostStep, InsertTeamStep, InsertMatchStep, ReadStep DEF Handle
<1>5. ASSUME NEW c \in Call, Receive(c) PROVE TInv'
  BY <1>5, ReceiveStep
<1>6. ASSUME NEW c \in Call, Lose(c) PROVE TInv'
  BY <1>6, LoseStep
<1>7. ASSUME NEW c \in Call, Show(c) PROVE TInv'
  BY <1>7, ShowStep
<1>8. CASE UNCHANGED tvars
  BY <1>8 DEF tvars, TInv
<1> QED
  BY <1>1, <1>2, <1>3, <1>4, <1>5, <1>6, <1>7, <1>8 DEF TNext

(* The tables have no row twice, and what a call has read or a page shows  *)
(* covers all the results its page knew of when the refresh began, however *)
(* the handlers of main.py and the requests of App.jsx interleave.         *)
THEOREM TInvCorrect == TSpec => []TInv
<1>1. TInit => TInv
  BY TInvInit
<1>2. TInv /\ [TNext]_tvars => TInv'
  BY TInvStep
<1> QED
  BY <1>1, <1>2, PTL DEF TSpec

(* No name and no pairing is stored twice, and every match is between two  *)
(* teams that exist, although create_team and create_match of main.py look *)
(* first and insert later.                                                 *)
THEOREM TTypeHolds == TSpec => []TTypeOK
<1>1. TInv => TTypeOK
  <2> SUFFICES ASSUME TInv PROVE TTypeOK
    OBVIOUS
  <2>1. DOMAIN teams = 1..Len(teams) /\ DOMAIN matches = 1..Len(matches)
    BY Sizes
  <2>2. ASSUME NEW c \in Call, call[c].pc = "refresh"
        PROVE  call[c].known \subseteq own[call[c].page]
    BY <2>2, AllCovered DEF GoodRefresh
  <2>3. ASSUME NEW p \in Page
        PROVE  page[p].teams \in 0..Len(teams) /\ page[p].matches \in 0..Len(matches)
    BY DEF TInv, GoodPage
  <2>4. Tables(teams, matches)
    BY DEF TInv
  <2> QED
    BY <2>1, <2>2, <2>3, <2>4 DEF TTypeOK, Tables
<1> QED
  BY <1>1, TInvCorrect, PTL
-----------------------------------------------------------------------------
(* A nonempty set of natural numbers has a smallest one.                   *)
LEMMA LeastNat ==
    ASSUME NEW N, N \subseteq Nat, N # {}
    PROVE  \E m \in N : \A k \in N : m <= k
<1>1. PICK m \in N : \A k \in N : ~(<<k, m>> \in OpToRel(<, Nat))
  BY NatLessThanWellFounded, WFMin, Zenon
<1>2. ASSUME NEW k \in N PROVE m <= k
  <2>1. k \in Nat /\ m \in Nat
    OBVIOUS
  <2>2. k < m => <<k, m>> \in OpToRel(<, Nat)
    BY <2>1 DEF OpToRel
  <2>3. ~(k < m)
    BY <1>1, <2>2, Zenon
  <2> QED
    BY <2>1, <2>3
<1> QED
  BY <1>2

(* A set of numbers that has the first one, and with each one the next, up *)
(* to n, has all of them.                                                  *)
LEMMA AllUpTo ==
    ASSUME NEW n \in Nat, NEW G, 0 \in G,
           \A k \in 1..n : k - 1 \in G => k \in G
    PROVE  0..n \subseteq G
<1> SUFFICES ASSUME NEW i \in 0..n, i \notin G PROVE FALSE
  OBVIOUS
<1> DEFINE N == {k \in 0..n : k \notin G}
<1>1. PICK m \in N : \A k \in N : m <= k
  <2>1. N \subseteq Nat /\ N # {}
    OBVIOUS
  <2> HIDE DEF N
  <2> QED
    BY <2>1, LeastNat
<1>2. m \in 1..n /\ m - 1 \in 0..n /\ m \notin G
  BY <1>1
<1>3. m - 1 \in N
  BY <1>2
<1> QED
  BY <1>1, <1>2, <1>3

(* A property of the empty set, and of each set that is one element more   *)
(* than a set with the property, is one of all subsets of a finite set.    *)
LEMMA AllSubsets ==
    ASSUME NEW T, IsFiniteSet(T), NEW G, {} \in G,
           \A s \in SUBSET T : s # {} /\ (\A x \in s : s \ {x} \in G) => s \in G
    PROVE  SUBSET T \subseteq G
<1> SUFFICES ASSUME NEW t \in SUBSET T, t \notin G PROVE FALSE
  OBVIOUS
<1> DEFINE Bad == {s \in SUBSET T : s \notin G}
           N   == {Cardinality(s) : s \in Bad}
<1>1. \A s \in SUBSET T : IsFiniteSet(s) /\ Cardinality(s) \in Nat
  BY FS_Subset, FS_CardinalityType
<1>2. N \subseteq Nat /\ N # {}
  BY <1>1
<1>3. PICK m \in N : \A k \in N : m <= k
  BY <1>2, LeastNat
<1>4. PICK s \in Bad : m = Cardinality(s)
  BY <1>3
<1>5. s # {} /\ s \in SUBSET T /\ IsFiniteSet(s)
  BY <1>1
<1>6. PICK x \in s : s \ {x} \in Bad
  BY <1>4, <1>5
<1>7. Cardinality(s \ {x}) = Cardinality(s) - 1
  BY <1>5, <1>6, FS_RemoveElement
<1>8. /\ Cardinality(s \ {x}) \in N
      /\ Cardinality(s \ {x}) \in Nat /\ Cardinality(s) \in Nat
  BY <1>1, <1>5, <1>6
<1>9. m <= Cardinality(s \ {x})
  BY <1>3, <1>8
<1> HIDE DEF N, Bad
<1> QED
  BY <1>4, <1>7, <1>8, <1>9

(* A function on the subsets of T that folds: C says which element x of s  *)
(* goes last, and N[x] what it makes of the value for the others.          *)
Folding(T, base, C, N, g) ==
    g = [s \in SUBSET T |-> IF s = {} THEN base ELSE N[C[s]][g[s \ {C[s]}]]]

LEMMA FoldExists ==
    ASSUME NEW T, IsFiniteSet(T), NEW V, NEW base \in V, NEW N \in [T -> [V -> V]],
           NEW C, \A s \in SUBSET T : s # {} => C[s] \in s
    PROVE  \E g \in [SUBSET T -> V] : Folding(T, base, C, N, g)
<1> DEFINE Small(n)   == {s \in SUBSET T : Cardinality(s) <= n}
           Next(g, s) == IF s = {} THEN base ELSE N[C[s]][g[s \ {C[s]}]]
           Part(n, g) == g \in [Small(n) -> V] /\ \A s \in Small(n) : g[s] = Next(g, s)
<1>1. ASSUME NEW s \in SUBSET T
      PROVE  /\ IsFiniteSet(s) /\ Cardinality(s) \in Nat
             /\ s # {} => /\ C[s] \in T /\ s \ {C[s]} \in SUBSET T
                          /\ Cardinality(s) > 0
                          /\ Cardinality(s \ {C[s]}) = Cardinality(s) - 1
  <2>1. IsFiniteSet(s) /\ Cardinality(s) \in Nat
    BY FS_Subset, FS_CardinalityType
  <2>2. ASSUME s # {}
        PROVE  C[s] \in s /\ Cardinality(s \ {C[s]}) = Cardinality(s) - 1
    BY <2>1, <2>2, FS_RemoveElement
  <2>3. ASSUME s # {} PROVE Cardinality(s) > 0
    BY <2>1, <2>3, FS_EmptySet
  <2> QED
    BY <2>1, <2>2, <2>3
<1>2. \E g : Part(0, g)
  <2>1. ASSUME NEW s \in Small(0) PROVE s = {}
    <3>1. Cardinality(s) \in Nat /\ Cardinality(s) <= 0 /\ (s # {} => Cardinality(s) > 0)
      BY <1>1
    <3> QED
      BY <3>1
  <2> WITNESS [s \in Small(0) |-> base]
  <2> QED
    BY <2>1
<1>3. ASSUME NEW n \in Nat, \E g : Part(n, g) PROVE \E g : Part(n + 1, g)
  <2> PICK g : Part(n, g)
    BY <1>3
  <2> DEFINE f == [s \in Small(n + 1) |-> Next(g, s)]
  <2>1. ASSUME NEW s \in Small(n + 1), s # {}
        PROVE  C[s] \in T /\ s \ {C[s]} \in Small(n) /\ s \ {C[s]} \in Small(n + 1)
    <3>1. /\ C[s] \in T /\ s \ {C[s]} \in SUBSET T
          /\ Cardinality(s) \in Nat /\ Cardinality(s) <= n + 1
          /\ Cardinality(s \ {C[s]}) = Cardinality(s) - 1
      BY <1>1, <2>1
    <3>2. Cardinality(s \ {C[s]}) <= n /\ Cardinality(s \ {C[s]}) <= n + 1
      BY <3>1
    <3> QED
      BY <3>1, <3>2
  <2>2. ASSUME NEW s \in Small(n) PROVE s \in Small(n + 1) /\ f[s] = g[s]
    <3>1. s \in SUBSET T /\ Cardinality(s) <= n
      OBVIOUS
    <3>2. Cardinality(s) \in Nat
      BY <1>1, <3>1
    <3>3. Cardinality(s) <= n + 1
      BY <3>1, <3>2
    <3> QED
      BY <3>1, <3>3
  <2>3. ASSUME NEW s \in Small(n + 1) PROVE f[s] \in V /\ f[s] = Next(f, s)
    <3>1. CASE s = {}
      BY <3>1
    <3>2. CASE s # {}
      <4>1. N[C[s]] \in [V -> V] /\ g[s \ {C[s]}] \in V
        BY <2>1, <3>2
      <4>2. f[s] = N[C[s]][g[s \ {C[s]}]]
        BY <3>2
      <4>3. f[s \ {C[s]}] = g[s \ {C[s]}]
        BY <2>1, <2>2, <3>2
      <4> QED
        BY <3>2, <4>1, <4>2, <4>3
    <3> QED
      BY <3>1, <3>2
  <2>4. f \in [Small(n + 1) -> V]
    BY <2>3
  <2> QED
    BY <2>3, <2>4
<1>4. \E g : Part(Cardinality(T), g)
  <2> DEFINE G == {n \in Nat : \E g : Part(n, g)}
  <2>1. Cardinality(T) \in Nat
    BY <1>1
  <2>2. 0 \in G /\ \A k \in 1..Cardinality(T) : k - 1 \in G => k \in G
    <3>1. 0 \in G
      BY <1>2
    <3>2. ASSUME NEW k \in 1..Cardinality(T), k - 1 \in G PROVE k \in G
      <4>1. k - 1 \in Nat /\ (k - 1) + 1 = k /\ k \in Nat
        BY <2>1
      <4>2. \E g : Part(k - 1, g)
        BY <3>2
      <4>3. \E g : Part((k - 1) + 1, g)
        BY <1>3, <4>1, <4>2
      <4> HIDE DEF Part
      <4> QED
        BY <4>1, <4>3
    <3> QED
      BY <3>1, <3>2
  <2> HIDE DEF G
  <2>3. 0..Cardinality(T) \subseteq G
    BY <2>1, <2>2, AllUpTo
  <2>4. Cardinality(T) \in G
    BY <2>1, <2>3
  <2> QED
    BY <2>4 DEF G
<1>5. PICK g : Part(Cardinality(T), g)
  BY <1>4
<1>6. Small(Cardinality(T)) = SUBSET T
  BY FS_Subset
<1>7. g = [s \in SUBSET T |-> Next(g, s)] /\ g \in [SUBSET T -> V]
  BY <1>5, <1>6
<1> QED
  BY <1>7 DEF Folding
-----------------------------------------------------------------------------
(* MapThenSumSet adds up the values of h over subsets of T, in any order.  *)
Sums(h, T, g) == g = [s \in SUBSET T |-> IF s = {} THEN 0
                        ELSE h[CHOOSE x \in s : TRUE] + g[s \ {CHOOSE x \in s : TRUE}]]

LEMMA SumExists ==
    ASSUME NEW T, IsFiniteSet(T), NEW h, \A x \in T : h[x] \in Int
    PROVE  \E g \in [SUBSET T -> Int] : Sums(h, T, g)
<1> DEFINE C == [s \in SUBSET T |-> CHOOSE x \in s : TRUE]
           N == [x \in T |-> [v \in Int |-> h[x] + v]]
<1>1. N \in [T -> [Int -> Int]]
  OBVIOUS
<1>2. \A s \in SUBSET T : s # {} => C[s] \in s
  OBVIOUS
<1>3. \A s \in SUBSET T : C[s] = CHOOSE x \in s : TRUE
  OBVIOUS
<1>4. \A x \in T, v \in Int : N[x][v] = h[x] + v
  OBVIOUS
<1> HIDE DEF C, N
<1>5. PICK g \in [SUBSET T -> Int] : Folding(T, 0, C, N, g)
  <2>1. 0 \in Int
    OBVIOUS
  <2> QED
    BY <1>1, <1>2, <2>1, FoldExists, Zenon
<1>6. ASSUME NEW s \in SUBSET T
      PROVE  g[s] = IF s = {} THEN 0
                    ELSE h[CHOOSE x \in s : TRUE] + g[s \ {CHOOSE x \in s : TRUE}]
  <2>0. /\ s = {} => g[s] = 0
        /\ s # {} => g[s] = N[C[s]][g[s \ {C[s]}]]
    <3>1. g = [u \in SUBSET T |-> IF u = {} THEN 0 ELSE N[C[u]][g[u \ {C[u]}]]]
      BY <1>5, Zenon DEF Folding
    <3>2. g[s] = IF s = {} THEN 0 ELSE N[C[s]][g[s \ {C[s]}]]
      BY <3>1, Zenon
    <3> QED
      BY <3>2
  <2>1. CASE s = {}
    BY <2>0, <2>1
  <2>2. CASE s # {}
    <3>1. C[s] \in T /\ g[s \ {C[s]}] \in Int
      BY <1>2, <2>2
    <3>2. g[s] = N[C[s]][g[s \ {C[s]}]]
      BY <2>0, <2>2
    <3>3. g[s] = h[C[s]] + g[s \ {C[s]}]
      BY <1>4, <3>1, <3>2
    <3> QED
      BY <1>3, <2>2, <3>3
  <2> QED
    BY <2>1, <2>2
<1>7. Sums(h, T, g)
  <2>1. g = [s \in SUBSET T |-> g[s]]
    OBVIOUS
  <2> QED
    BY <1>6, <2>1 DEF Sums
<1> QED
  BY <1>7

LEMMA SumStep ==
    ASSUME NEW T, NEW h, NEW g, Sums(h, T, g), NEW s \in SUBSET T, s # {}
    PROVE  \E p \in s : /\ p = (CHOOSE x \in s : TRUE)
                        /\ g[s] = h[p] + g[s \ {p}]
<1>1. g[s] = IF s = {} THEN 0
             ELSE h[CHOOSE x \in s : TRUE] + g[s \ {CHOOSE x \in s : TRUE}]
  BY Zenon DEF Sums
<1>2. (CHOOSE x \in s : TRUE) \in s
  OBVIOUS
<1> QED
  BY <1>1, <1>2

LEMMA SumEmpty == ASSUME NEW T, NEW h, NEW g, Sums(h, T, g) PROVE g[{}] = 0
<1>1. {} \in SUBSET T
  OBVIOUS
<1>2. \A s \in SUBSET T : g[s] = IF s = {} THEN 0
             ELSE h[CHOOSE x \in s : TRUE] + g[s \ {CHOOSE x \in s : TRUE}]
  BY Zenon DEF Sums
<1> QED
  BY <1>1, <1>2

(* Whatever the order, one element more is its value more.                 *)
Adds(sum, value, rest) == sum = value + rest

LEMMA SumRemove ==
    ASSUME NEW T, IsFiniteSet(T), NEW h, \A z \in T : h[z] \in Int,
           NEW g \in [SUBSET T -> Int], Sums(h, T, g), NEW s \in SUBSET T, NEW x \in s
    PROVE  Adds(g[s], h[x], g[s \ {x}])
<1> DEFINE G == {u \in SUBSET T : \A y \in u : g[u] = h[y] + g[u \ {y}]}
<1>1. {} \in G
  OBVIOUS
<1>2. ASSUME NEW u \in SUBSET T, u # {}, \A y \in u : u \ {y} \in G
      PROVE  u \in G
  <2> SUFFICES ASSUME NEW y \in u PROVE g[u] = h[y] + g[u \ {y}]
    BY <1>2
  <2>1. PICK p \in u : p = (CHOOSE z \in u : TRUE) /\ g[u] = h[p] + g[u \ {p}]
    BY <1>2, SumStep
  <2>2. CASE y = p
    BY <2>1, <2>2
  <2>3. CASE y # p
    <3>1. g[u \ {p}] = h[y] + g[(u \ {p}) \ {y}]
      BY <1>2, <2>3
    <3>2. g[u \ {y}] = h[p] + g[(u \ {y}) \ {p}]
      BY <1>2, <2>3
    <3>3. (u \ {p}) \ {y} = (u \ {y}) \ {p}
      OBVIOUS
    <3>4. PICK rest \in Int : rest = g[(u \ {p}) \ {y}]
      OBVIOUS
    <3>5. h[p] \in Int /\ h[y] \in Int
      OBVIOUS
    <3>6. g[u] = h[p] + (h[y] + rest)
      BY <2>1, <3>1, <3>4, Zenon
    <3>7. g[u \ {y}] = h[p] + rest
      BY <3>2, <3>3, <3>4, Zenon
    <3>8. h[p] + (h[y] + rest) = h[y] + (h[p] + rest)
      BY <3>4, <3>5
    <3> QED
      BY <3>6, <3>7, <3>8, Zenon
  <2> QED
    BY <2>2, <2>3
<1> HIDE DEF G
<1>3. SUBSET T \subseteq G
  BY <1>1, <1>2, AllSubsets
<1>4. s \in G
  BY <1>3
<1> QED
  BY <1>4 DEF G, Adds

(* A sum over a part of T is the same whether T or the part is meant.      *)
LEMMA SumOfPart ==
    ASSUME NEW T, IsFiniteSet(T), NEW S \in SUBSET T, NEW h,
           NEW g, Sums(h, T, g), NEW f, Sums(h, S, f)
    PROVE  f[S] = g[S]
<1> DEFINE G == {u \in SUBSET S : f[u] = g[u]}
<1>1. {} \in G
  <2>1. f[{}] = 0 /\ g[{}] = 0
    BY SumEmpty, Zenon
  <2> QED
    BY <2>1
<1>2. ASSUME NEW u \in SUBSET S, u # {}, \A y \in u : u \ {y} \in G
      PROVE  u \in G
  <2>1. PICK p \in u : p = (CHOOSE z \in u : TRUE) /\ g[u] = h[p] + g[u \ {p}]
    BY <1>2, SumStep
  <2>2. PICK q \in u : q = (CHOOSE z \in u : TRUE) /\ f[u] = h[q] + f[u \ {q}]
    BY <1>2, SumStep
  <2>3. p = q /\ f[u \ {p}] = g[u \ {p}]
    BY <1>2, <2>1, <2>2
  <2> QED
    BY <2>1, <2>2, <2>3
<1> HIDE DEF G
<1>3. S \in G
  BY <1>1, <1>2, AllSubsets, FS_Subset
<1> QED
  BY <1>3 DEF G

(* The sum of the community module, one element at a time.                 *)
LEMMA SumOfSet ==
    ASSUME NEW T, IsFiniteSet(T), NEW h, \A x \in T : h[x] \in Int, NEW S \in SUBSET T
    PROVE  /\ SumFunctionOnSet(h, {}) = 0
           /\ SumFunctionOnSet(h, S) \in Int
           /\ \A x \in S : Adds(SumFunctionOnSet(h, S), h[x], SumFunctionOnSet(h, S \ {x}))
<1>1. PICK g \in [SUBSET T -> Int] : Sums(h, T, g)
  BY SumExists
<1>2. ASSUME NEW U \in SUBSET T PROVE SumFunctionOnSet(h, U) = g[U]
  <2> DEFINE f == CHOOSE f : Sums(h, U, f)
  <2>1. SumFunctionOnSet(h, U) = f[U]
    BY DEF SumFunctionOnSet, FoldFunctionOnSet, MapThenFoldSet, Sums
  <2>2. IsFiniteSet(U) /\ \A x \in U : h[x] \in Int
    BY FS_Subset
  <2>3. Sums(h, U, f)
    <3>1. \E e : Sums(h, U, e)
      BY <2>2, SumExists
    <3> QED
      BY <3>1
  <2> HIDE DEF f
  <2>4. f[U] = g[U]
    BY <1>1, <2>3, SumOfPart
  <2> QED
    BY <2>1, <2>4
<1>3. g[{}] = 0
  BY <1>1, SumEmpty, Zenon
<1>4. \A x \in S : Adds(g[S], h[x], g[S \ {x}])
  BY <1>1, SumRemove
<1> QED
  BY <1>2, <1>3, <1>4

-----------------------------------------------------------------------------
(* The loop of compute_standings: the rows after each match.               *)
Row == [team : Nat, played : Nat, won : Nat, drawn : Nat, lost : Nat,
        gf : Nat, ga : Nat, points : Nat]

LEMMA ZeroRow ==
    ASSUME NEW t \in Nat
    PROVE  /\ Zero(t) \in Row /\ Zero(t).team = t /\ Zero(t).played = 0 /\ Zero(t).won = 0
           /\ Zero(t).drawn = 0 /\ Zero(t).lost = 0 /\ Zero(t).gf = 0 /\ Zero(t).ga = 0
           /\ Zero(t).points = 0
BY DEF Zero, Row

(* What a match adds to a row.                                             *)
Credited(r, row, scored, conceded) ==
    /\ r \in Row /\ r.team = row.team /\ r.played = row.played + 1
    /\ r.gf = row.gf + scored /\ r.ga = row.ga + conceded
    /\ scored > conceded => /\ r.won = row.won + 1 /\ r.drawn = row.drawn
                            /\ r.lost = row.lost /\ r.points = row.points + 3
    /\ scored = conceded => /\ r.won = row.won /\ r.drawn = row.drawn + 1
                            /\ r.lost = row.lost /\ r.points = row.points + 1
    /\ scored < conceded => /\ r.won = row.won /\ r.drawn = row.drawn
                            /\ r.lost = row.lost + 1 /\ r.points = row.points

LEMMA CreditAdds ==
    ASSUME NEW row \in Row, NEW scored \in Nat, NEW conceded \in Nat
    PROVE  Credited(Credit(row, scored, conceded), row, scored, conceded)
<1> DEFINE n   == row.played + 1
           f   == row.gf + scored
           a   == row.ga + conceded
           one == [row EXCEPT !.played = n, !.gf = f, !.ga = a]
<1>n. n \in Nat /\ f \in Nat /\ a \in Nat
  BY DEF Row
<1>e. Credit(row, scored, conceded) =
        CASE scored > conceded -> [one EXCEPT !.won = @ + 1, !.points = @ + 3]
          [] scored < conceded -> [one EXCEPT !.lost = @ + 1]
          [] OTHER             -> [one EXCEPT !.drawn = @ + 1, !.points = @ + 1]
  BY DEF Credit
<1>d. n = row.played + 1 /\ f = row.gf + scored /\ a = row.ga + conceded
  OBVIOUS
<1> HIDE DEF n, f, a
<1>1. /\ one \in Row /\ one.team = row.team /\ one.played = n
      /\ one.won = row.won /\ one.drawn = row.drawn /\ one.lost = row.lost
      /\ one.gf = f /\ one.ga = a /\ one.points = row.points
  BY <1>n DEF Row
<1> HIDE DEF one
<1>3. CASE scored > conceded
  <2> DEFINE w == one.won + 1
             p == one.points + 3
             r == [one EXCEPT !.won = w, !.points = p]
  <2>1. Credit(row, scored, conceded) = r
    BY <1>e, <1>3
  <2>n. w \in Nat /\ p \in Nat
    BY <1>1 DEF Row
  <2>d. w = one.won + 1 /\ p = one.points + 3
    OBVIOUS
  <2> HIDE DEF w, p
  <2>2. /\ r \in Row /\ r.team = one.team /\ r.played = one.played /\ r.won = w
        /\ r.drawn = one.drawn /\ r.lost = one.lost /\ r.gf = one.gf /\ r.ga = one.ga
        /\ r.points = p
    BY <1>1, <2>n DEF Row
  <2> HIDE DEF r
  <2> QED
    BY <1>1, <1>d, <1>3, <2>1, <2>2, <2>d DEF Credited
<1>4. CASE scored < conceded
  <2> DEFINE r == [one EXCEPT !.lost = @ + 1]
  <2>1. Credit(row, scored, conceded) = r
    BY <1>e, <1>4
  <2>2. /\ r \in Row /\ r.team = one.team /\ r.played = one.played /\ r.won = one.won
        /\ r.drawn = one.drawn /\ r.lost = one.lost + 1 /\ r.gf = one.gf /\ r.ga = one.ga
        /\ r.points = one.points
    BY <1>1 DEF Row
  <2> HIDE DEF r
  <2> QED
    BY <1>1, <1>d, <1>4, <2>1, <2>2 DEF Credited
<1>5. CASE scored = conceded
  <2> DEFINE w == one.drawn + 1
             p == one.points + 1
             r == [one EXCEPT !.drawn = w, !.points = p]
  <2>1. Credit(row, scored, conceded) = r
    BY <1>e, <1>5
  <2>n. w \in Nat /\ p \in Nat
    BY <1>1 DEF Row
  <2>d. w = one.drawn + 1 /\ p = one.points + 1
    OBVIOUS
  <2> HIDE DEF w, p
  <2>2. /\ r \in Row /\ r.team = one.team /\ r.played = one.played /\ r.won = one.won
        /\ r.drawn = w /\ r.lost = one.lost /\ r.gf = one.gf /\ r.ga = one.ga
        /\ r.points = p
    BY <1>1, <2>n DEF Row
  <2> HIDE DEF r
  <2> QED
    BY <1>1, <1>d, <1>5, <2>1, <2>2, <2>d DEF Credited
<1> QED
  BY <1>3, <1>4, <1>5

(* One round of the loop, seen from the row of one team.                   *)
LEMMA PlayRow ==
    ASSUME NEW T, NEW rows \in [T -> Row], NEW m \in Posted, m.home # m.away
    PROVE  /\ Play(rows, m) \in [T -> Row]
           /\ \A t \in T :
                IF m.home \in T /\ m.away \in T /\ t \in {m.home, m.away}
                THEN IF m.home = t THEN Play(rows, m)[t] = Credit(rows[t], m.hs, m.as)
                                   ELSE Play(rows, m)[t] = Credit(rows[t], m.as, m.hs)
                ELSE Play(rows, m)[t] = rows[t]
<1>1. m.hs \in Nat /\ m.as \in Nat
  BY DEF Posted
<1>2. CASE {m.home, m.away} \subseteq T
  <2> DEFINE home == Credit(rows[m.home], m.hs, m.as)
             away == Credit(rows[m.away], m.as, m.hs)
  <2>1. home \in Row /\ away \in Row
    BY <1>1, <1>2, CreditAdds DEF Credited
  <2>2. Play(rows, m) = [rows EXCEPT ![m.home] = home, ![m.away] = away]
    BY <1>2 DEF Play
  <2>3. home = Credit(rows[m.home], m.hs, m.as) /\ away = Credit(rows[m.away], m.as, m.hs)
    OBVIOUS
  <2> HIDE DEF home, away
  <2>4. Play(rows, m) \in [T -> Row]
    BY <2>1, <2>2
  <2>5. /\ Play(rows, m)[m.home] = home /\ Play(rows, m)[m.away] = away
        /\ \A t \in T \ {m.home, m.away} : Play(rows, m)[t] = rows[t]
    BY <1>2, <2>2
  <2> QED
    BY <1>2, <2>3, <2>4, <2>5
<1>3. CASE ~({m.home, m.away} \subseteq T)
  <2>1. Play(rows, m) = rows
    BY <1>3 DEF Play
  <2> QED
    BY <1>3, <2>1
<1> QED
  BY <1>2, <1>3

(* The largest number of a set of them.                                    *)
LEMMA LargestUpTo ==
    ASSUME NEW n \in Nat, NEW s \in SUBSET (1..n), s # {}
    PROVE  Max(s) \in s /\ \A y \in s : Max(s) >= y
<1> DEFINE D == {n - k : k \in s}
<1>1. D \subseteq Nat /\ D # {}
  <2>1. \A k \in s : k \in 1..n
    OBVIOUS
  <2>2. \A k \in 1..n : n - k \in Nat
    OBVIOUS
  <2> QED
    BY <2>1, <2>2
<1>2. PICK d \in D : \A e \in D : d <= e
  <2> HIDE DEF D
  <2> QED
    BY <1>1, LeastNat
<1>3. PICK x \in s : d = n - x
  BY <1>2
<1>4. ASSUME NEW y \in s PROVE x >= y
  <2>1. n - y \in D
    OBVIOUS
  <2>2. d <= n - y
    BY <1>2, <2>1
  <2> QED
    BY <1>3, <2>2
<1> QED
  BY <1>4 DEF Max

LEMMA LargestFirst ==
    ASSUME NEW n \in Nat, NEW k \in 1..n
    PROVE  /\ 1..k \in SUBSET (1..n) /\ 1..k # {}
           /\ Max(1..k) = k /\ (1..k) \ {k} = 1..(k - 1)
<1>1. 1..k \in SUBSET (1..n) /\ k \in 1..k
  OBVIOUS
<1>2. Max(1..k) \in 1..k /\ Max(1..k) >= k
  BY <1>1, LargestUpTo
<1> QED
  BY <1>1, <1>2

Zeros(listed)      == [t \in 1..listed |-> Zero(t)]
After(listed, upto) == FoldLeft(Play, Zeros(listed), SubSeq(matches, 1, upto))

(* The rows of the loop, one round after the other.                        *)
Rounds(R, listed, upto) ==
    /\ R[0] = Zeros(listed) /\ R[upto] = After(listed, upto)
    /\ \A n \in 0..upto : R[n] \in [1..listed -> Row]
    /\ \A n \in 1..upto : R[n] = Play(R[n - 1], matches[n])

LEMMA LoopRuns ==
    ASSUME NEW listed \in Nat, matches \in Seq(Posted), NEW upto \in 0..Len(matches),
           \A k \in 1..Len(matches) : matches[k].home # matches[k].away
    PROVE  \E R : Rounds(R, listed, upto)
<1> DEFINE ms == SubSeq(matches, 1, upto)
           T  == 1..upto
           V  == [1..listed -> Row]
           C  == [s \in SUBSET T |-> Max(s)]
           N  == [k \in T |-> [v \in V |-> Play(v, matches[k])]]
           Step(f, s) == IF s = {} THEN Zeros(listed)
                         ELSE Play(f[s \ {Max(s)}], ms[Max(s)])
           IsLoop(f) == f = [s \in SUBSET (DOMAIN ms) |-> Step(f, s)]
<1>0. upto \in Nat /\ Len(matches) \in Nat /\ T \subseteq 1..Len(matches) /\ IsFiniteSet(T)
  BY FS_Interval
<1>1. DOMAIN ms = T /\ \A k \in T : ms[k] = matches[k]
  BY <1>0
<1>2. Zeros(listed) \in V
  BY ZeroRow DEF Zeros
<1>3. ASSUME NEW v \in V, NEW k \in T PROVE Play(v, matches[k]) \in V
  <2>1. matches[k] \in Posted /\ matches[k].home # matches[k].away
    BY <1>0
  <2> QED
    BY <2>1, PlayRow
<1>4. N \in [T -> [V -> V]]
  BY <1>3
<1>5. /\ \A s \in SUBSET T : s # {} => C[s] \in s
      /\ \A s \in SUBSET T : C[s] = Max(s)
  BY <1>0, LargestUpTo
<1>6. \A v \in V, k \in T : N[k][v] = Play(v, matches[k])
  OBVIOUS
<1>7. \E f : IsLoop(f)
  <2> HIDE DEF C, N, V
  <2>1. PICK g \in [SUBSET T -> V] : Folding(T, Zeros(listed), C, N, g)
    BY <1>0, <1>2, <1>4, <1>5, FoldExists
  <2>2. ASSUME NEW s \in SUBSET T PROVE g[s] = Step(g, s)
    <3>0. g[s] = IF s = {} THEN Zeros(listed) ELSE N[C[s]][g[s \ {C[s]}]]
      BY <2>1, Zenon DEF Folding
    <3>1. CASE s = {}
      BY <3>0, <3>1
    <3>2. CASE s # {}
      <4>1. g[s] = N[C[s]][g[s \ {C[s]}]]
        BY <3>0, <3>2
      <4>2. C[s] = Max(s) /\ Max(s) \in T /\ g[s \ {Max(s)}] \in V
        BY <1>5, <3>2
      <4>3. ms[Max(s)] = matches[Max(s)]
        BY <1>1, <4>2
      <4> HIDE DEF ms
      <4> QED
        BY <1>6, <3>2, <4>1, <4>2, <4>3
    <3> QED
      BY <3>1, <3>2
  <2> HIDE DEF ms
  <2>3. g = [s \in SUBSET (DOMAIN ms) |-> g[s]]
    BY <1>1
  <2>4. IsLoop(g)
    BY <1>1, <2>2, <2>3
  <2> QED
    BY <2>4
<1>8. PICK f : IsLoop(f) /\ After(listed, upto) = f[T]
  <2>1. After(listed, upto) = (CHOOSE f : IsLoop(f))[DOMAIN ms]
    BY DEF After, FoldLeft, MapThenFoldSet
  <2> QED
    BY <1>1, <1>7, <2>1
<1> DEFINE R == [n \in 0..upto |-> f[1..n]]
<1>9. R[0] = Zeros(listed)
  <2>1. {} \in SUBSET (DOMAIN ms) /\ 1..0 = {} /\ 0 \in 0..upto
    BY <1>0
  <2>2. f[{}] = Step(f, {})
    BY <1>8, <2>1, Zenon
  <2> QED
    BY <2>1, <2>2
<1>10. ASSUME NEW n \in 1..upto PROVE R[n] = Play(R[n - 1], matches[n])
  <2>1. /\ 1..n \in SUBSET T /\ 1..n # {} /\ Max(1..n) = n /\ (1..n) \ {n} = 1..(n - 1)
    BY <1>0, LargestFirst
  <2>2. 1..n \in SUBSET (DOMAIN ms) /\ ms[n] = matches[n]
    BY <1>1, <2>1
  <2> HIDE DEF ms
  <2>3. f[1..n] = Step(f, 1..n)
    BY <1>8, <2>2, Zenon
  <2>4. f[1..n] = Play(f[1..(n - 1)], matches[n])
    BY <2>1, <2>2, <2>3
  <2>5. n \in 0..upto /\ n - 1 \in 0..upto
    BY <1>0
  <2> QED
    BY <2>4, <2>5
<1>11. R[upto] = After(listed, upto)
  <2>1. upto \in 0..upto
    BY <1>0
  <2> QED
    BY <1>8, <2>1
<1>12. \A n \in 0..upto : R[n] \in V
  <2> DEFINE G == {n \in 0..upto : R[n] \in V}
  <2>1. 0 \in G
    BY <1>0, <1>2, <1>9
  <2>2. ASSUME NEW n \in 1..upto, n - 1 \in G PROVE n \in G
    <3>0. n \in 0..upto
      BY <1>0
    <3>1. R[n] = Play(R[n - 1], matches[n]) /\ R[n - 1] \in V
      BY <1>10, <2>2
    <3> HIDE DEF R, V
    <3>2. R[n] \in V
      BY <1>3, <3>1
    <3> QED
      BY <3>0, <3>2
  <2> HIDE DEF G
  <2>3. 0..upto \subseteq G
    BY <1>0, <2>1, <2>2, AllUpTo
  <2> QED
    BY <2>3 DEF G
<1> HIDE DEF R
<1> QED
  BY <1>9, <1>10, <1>11, <1>12 DEF Rounds

-----------------------------------------------------------------------------
(* The row of team t counts the games of a set.                            *)
Against(t, games) == SumFunctionOnSet(Conceded(t), games)

Tallied(row, t, games) ==
    /\ row \in Row /\ row.team = t
    /\ row.played = Cardinality(games) /\ row.played = row.won + row.drawn + row.lost
    /\ row.won = Cardinality(Wins(t, games)) /\ row.drawn = Cardinality(Draws(t, games))
    /\ row.points = 3 * row.won + row.drawn
    /\ row.gf = Goals(t, games) /\ row.ga = Against(t, games)

LEMMA Scores ==
    ASSUME matches \in Seq(Posted), NEW t
    PROVE  /\ IsFiniteSet(DOMAIN matches)
           /\ \A k \in DOMAIN matches : Scored(t)[k] \in Nat /\ Conceded(t)[k] \in Nat
<1>1. Len(matches) \in Nat /\ DOMAIN matches = 1..Len(matches)
  OBVIOUS
<1>2. IsFiniteSet(1..Len(matches))
  BY <1>1, FS_Interval
<1>3. \A k \in DOMAIN matches : matches[k] \in Posted
  BY <1>1
<1> QED
  BY <1>1, <1>2, <1>3 DEF Scored, Conceded, Posted

LEMMA TallyNone ==
    ASSUME matches \in Seq(Posted), NEW t \in Nat
    PROVE  Tallied(Zero(t), t, {})
<1>1. Wins(t, {}) = {} /\ Draws(t, {}) = {} /\ Cardinality({}) = 0
  BY FS_EmptySet DEF Wins, Draws
<1>2. Goals(t, {}) = 0 /\ Against(t, {}) = 0
  <2>1. /\ \A k \in DOMAIN matches : Scored(t)[k] \in Int /\ Conceded(t)[k] \in Int
        /\ IsFiniteSet(DOMAIN matches) /\ {} \in SUBSET DOMAIN matches
    BY Scores
  <2>2. SumFunctionOnSet(Scored(t), {}) = 0
    BY <2>1, SumOfSet
  <2>3. SumFunctionOnSet(Conceded(t), {}) = 0
    BY <2>1, SumOfSet
  <2> QED
    BY <2>2, <2>3 DEF Goals, Against
<1>3. PICK r : r = Zero(t)
  OBVIOUS
<1>4. /\ r \in Row /\ r.team = t /\ r.played = 0 /\ r.won = 0 /\ r.drawn = 0
      /\ r.lost = 0 /\ r.gf = 0 /\ r.ga = 0 /\ r.points = 0
  BY <1>3, ZeroRow
<1>5. Tallied(r, t, {})
  <2>1. /\ r.played = r.won + r.drawn + r.lost /\ r.points = 3 * r.won + r.drawn
    BY <1>4
  <2> QED
    BY <1>1, <1>2, <1>4, <2>1, Zenon DEF Tallied
<1> QED
  BY <1>3, <1>5

LEMMA OneMore ==
    ASSUME NEW p \in Nat, NEW w \in Nat, NEW d \in Nat, NEW l \in Nat, NEW q \in Nat,
           p = w + d + l, q = 3 * w + d
    PROVE  /\ p + 1 = (w + 1) + d + l /\ q + 3 = 3 * (w + 1) + d
           /\ p + 1 = w + (d + 1) + l /\ q + 1 = 3 * w + (d + 1)
           /\ p + 1 = w + d + (l + 1)
OBVIOUS

(* One game more.                                                          *)
LEMMA TallyGame ==
    ASSUME matches \in Seq(Posted), NEW t, NEW games \in SUBSET DOMAIN matches,
           NEW n \in DOMAIN matches, n \notin games,
           NEW row, Tallied(row, t, games),
           NEW r, Credited(r, row, Scored(t)[n], Conceded(t)[n])
    PROVE  Tallied(r, t, games \cup {n})
<1> DEFINE more == games \cup {n}
           a    == Scored(t)[n]
           b    == Conceded(t)[n]
<1>1. /\ IsFiniteSet(games) /\ IsFiniteSet(DOMAIN matches) /\ a \in Nat /\ b \in Nat
      /\ \A k \in DOMAIN matches : Scored(t)[k] \in Int /\ Conceded(t)[k] \in Int
  BY Scores, FS_Subset
<1>2. /\ row \in Row /\ row.played \in Nat /\ row.won \in Nat /\ row.drawn \in Nat
      /\ row.lost \in Nat /\ row.gf \in Nat /\ row.ga \in Nat /\ row.points \in Nat
  BY DEF Tallied, Row
<1>3. Cardinality(more) = row.played + 1
  <2>1. Cardinality(more) = Cardinality(games) + 1
    BY <1>1, FS_AddElement
  <2>2. Cardinality(games) = row.played
    BY DEF Tallied
  <2> QED
    BY <2>1, <2>2
<1>4. IF a > b THEN Cardinality(Wins(t, more)) = row.won + 1
               ELSE Cardinality(Wins(t, more)) = row.won
  <2>1. IsFiniteSet(Wins(t, games)) /\ n \notin Wins(t, games)
    BY <1>1, FS_Subset DEF Wins
  <2>2. Cardinality(Wins(t, games)) = row.won
    BY DEF Tallied
  <2>3. IF a > b THEN Wins(t, more) = Wins(t, games) \cup {n}
                 ELSE Wins(t, more) = Wins(t, games)
    BY DEF Wins
  <2> HIDE DEF a, b, more
  <2> QED
    BY <2>1, <2>2, <2>3, FS_AddElement
<1>5. IF a = b THEN Cardinality(Draws(t, more)) = row.drawn + 1
               ELSE Cardinality(Draws(t, more)) = row.drawn
  <2>1. IsFiniteSet(Draws(t, games)) /\ n \notin Draws(t, games)
    BY <1>1, FS_Subset DEF Draws
  <2>2. Cardinality(Draws(t, games)) = row.drawn
    BY DEF Tallied
  <2>3. IF a = b THEN Draws(t, more) = Draws(t, games) \cup {n}
                 ELSE Draws(t, more) = Draws(t, games)
    BY DEF Draws
  <2> HIDE DEF a, b, more
  <2> QED
    BY <2>1, <2>2, <2>3, FS_AddElement
<1>6. more \in SUBSET DOMAIN matches /\ n \in more /\ more \ {n} = games
  OBVIOUS
<1>7. Goals(t, more) = a + row.gf
  <2>1. \A x \in more : Adds(SumFunctionOnSet(Scored(t), more), Scored(t)[x],
                             SumFunctionOnSet(Scored(t), more \ {x}))
    <3> HIDE DEF more, a, b
    <3> QED
      BY <1>1, <1>6, SumOfSet
  <2>2. Adds(SumFunctionOnSet(Scored(t), more), a, SumFunctionOnSet(Scored(t), games))
    BY <1>6, <2>1
  <2> QED
    BY <2>2 DEF Adds, Goals, Tallied
<1>8. Against(t, more) = b + row.ga
  <2>1. \A x \in more : Adds(SumFunctionOnSet(Conceded(t), more), Conceded(t)[x],
                             SumFunctionOnSet(Conceded(t), more \ {x}))
    <3> HIDE DEF more, a, b
    <3> QED
      BY <1>1, <1>6, SumOfSet
  <2>2. Adds(SumFunctionOnSet(Conceded(t), more), b, SumFunctionOnSet(Conceded(t), games))
    BY <1>6, <2>1
  <2> QED
    BY <2>2 DEF Adds, Against, Tallied
<1>9. /\ row.played = row.won + row.drawn + row.lost /\ row.points = 3 * row.won + row.drawn
      /\ row.team = t
  BY DEF Tallied
<1>10. Credited(r, row, a, b)
  OBVIOUS
<1> HIDE DEF a, b, more
<1>11. /\ r \in Row /\ r.team = t /\ r.played = Cardinality(more)
       /\ r.gf = Goals(t, more) /\ r.ga = Against(t, more)
  <2>1. /\ r \in Row /\ r.team = row.team /\ r.played = row.played + 1
        /\ r.gf = row.gf + a /\ r.ga = row.ga + b
    BY <1>10 DEF Credited
  <2>2. row.gf + a = a + row.gf /\ row.ga + b = b + row.ga
    BY <1>1, <1>2
  <2> QED
    BY <1>3, <1>7, <1>8, <1>9, <2>1, <2>2, Zenon
<1>o. PICK p \in Nat, w \in Nat, d \in Nat, l \in Nat, q \in Nat :
         /\ p = row.played /\ w = row.won /\ d = row.drawn /\ l = row.lost /\ q = row.points
  BY <1>2, Zenon
<1>q. p = w + d + l /\ q = 3 * w + d
  BY <1>9, <1>o, Zenon
<1>12. /\ r.won = Cardinality(Wins(t, more)) /\ r.drawn = Cardinality(Draws(t, more))
       /\ r.played = r.won + r.drawn + r.lost /\ r.points = 3 * r.won + r.drawn
  <2>1. r.played = p + 1
    BY <1>o, <1>10 DEF Credited
  <2>2. CASE a > b
    <3>1. /\ r.won = w + 1 /\ r.drawn = d
          /\ r.lost = l /\ r.points = q + 3
      BY <1>o, <1>10, <2>2 DEF Credited
    <3>2. /\ Cardinality(Wins(t, more)) = w + 1
          /\ Cardinality(Draws(t, more)) = d
      BY <1>1, <1>4, <1>5, <1>o, <2>2
    <3>3. /\ p + 1 = (w + 1) + d + l
          /\ q + 3 = 3 * (w + 1) + d
      BY <1>q, OneMore
    <3> QED
      BY <2>1, <3>1, <3>2, <3>3, Zenon
  <2>3. CASE a = b
    <3>1. /\ r.won = w /\ r.drawn = d + 1
          /\ r.lost = l /\ r.points = q + 1
      BY <1>o, <1>10, <2>3 DEF Credited
    <3>2. /\ Cardinality(Wins(t, more)) = w
          /\ Cardinality(Draws(t, more)) = d + 1
      BY <1>1, <1>4, <1>5, <1>o, <2>3
    <3>3. /\ p + 1 = w + (d + 1) + l
          /\ q + 1 = 3 * w + (d + 1)
      BY <1>q, OneMore
    <3> QED
      BY <2>1, <3>1, <3>2, <3>3, Zenon
  <2>4. CASE a < b
    <3>1. /\ r.won = w /\ r.drawn = d
          /\ r.lost = l + 1 /\ r.points = q
      BY <1>o, <1>10, <2>4 DEF Credited
    <3>2. /\ Cardinality(Wins(t, more)) = w
          /\ Cardinality(Draws(t, more)) = d
      BY <1>1, <1>4, <1>5, <1>o, <2>4
    <3>3. /\ p + 1 = w + d + (l + 1)
          /\ q = 3 * w + d
      BY <1>q, OneMore
    <3> QED
      BY <2>1, <3>1, <3>2, <3>3, Zenon
  <2> QED
    BY <1>1, <2>2, <2>3, <2>4
<1>13. Tallied(r, t, more)
  BY <1>11, <1>12 DEF Tallied
<1> QED
  BY <1>13 DEF more

(* The results that are stored are between two teams that are numbered.    *)
GoodMatches ==
    /\ matches \in Seq(Posted)
    /\ \A k \in 1..Len(matches) : /\ matches[k].home # matches[k].away
                                  /\ matches[k].home \in Nat \ {0}
                                  /\ matches[k].away \in Nat \ {0}

(* After each round the row of a team counts its games up to there.        *)
LEMMA RoundsTally ==
    ASSUME GoodMatches, NEW listed \in Nat, NEW upto \in 0..Len(matches),
           NEW R, Rounds(R, listed, upto), NEW t \in 1..listed
    PROVE  /\ Tallied(R[upto][t], t, Games(listed, upto, t))
           /\ Games(listed, upto, t) \in SUBSET DOMAIN matches
<1> DEFINE D == {n \in 0..upto : Tallied(R[n][t], t, Games(listed, n, t))}
<1>1. /\ matches \in Seq(Posted) /\ Len(matches) \in Nat /\ upto \in Nat
      /\ DOMAIN matches = 1..Len(matches) /\ t \in Nat
  BY DEF GoodMatches
<1>2. \A n \in 0..upto : Games(listed, n, t) \in SUBSET DOMAIN matches
  BY <1>1 DEF Games
<1>3. 0 \in D
  <2>1. Games(listed, 0, t) = {} /\ 0 \in 0..upto
    BY <1>1 DEF Games
  <2>2. R[0][t] = Zero(t)
    BY DEF Rounds, Zeros
  <2> QED
    BY <1>1, <2>1, <2>2, TallyNone
<1>4. ASSUME NEW n \in 1..upto, n - 1 \in D PROVE n \in D
  <2> DEFINE m     == matches[n]
             games == Games(listed, n - 1, t)
             row   == R[n - 1][t]
             r     == R[n][t]
  <2>1. n \in 1..Len(matches) /\ n \in 0..upto /\ n - 1 \in 0..upto
    BY <1>1
  <2>2. /\ m \in Posted /\ m.home # m.away /\ m.home \in Nat \ {0} /\ m.away \in Nat \ {0}
        /\ m.hs \in Nat /\ m.as \in Nat
    <3>1. m \in Posted
      BY <1>1, <2>1
    <3> HIDE DEF m
    <3>2. m.hs \in Nat /\ m.as \in Nat
      BY <3>1 DEF Posted
    <3> QED
      BY <2>1, <3>1, <3>2 DEF GoodMatches, m
  <2>3. R[n - 1] \in [1..listed -> Row] /\ R[n] = Play(R[n - 1], m)
    BY <2>1 DEF Rounds
  <2>4. IF m.home \in 1..listed /\ m.away \in 1..listed /\ t \in {m.home, m.away}
        THEN IF m.home = t THEN r = Credit(row, m.hs, m.as)
                           ELSE r = Credit(row, m.as, m.hs)
        ELSE r = row
    <3> HIDE DEF m
    <3> QED
      BY <2>2, <2>3, PlayRow
  <2>5. Tallied(row, t, games) /\ row \in Row
    BY <1>4 DEF Tallied
  <2>6. \A k \in 1..n : k = n \/ k \in 1..(n - 1)
    OBVIOUS
  <2>7. CASE m.home \in 1..listed /\ m.away \in 1..listed /\ t \in {m.home, m.away}
    <3>1. Games(listed, n, t) = games \cup {n} /\ n \notin games
      BY <1>1, <2>1, <2>6, <2>7 DEF Games
    <3>2. /\ Scored(t)[n] = IF m.home = t THEN m.hs ELSE m.as
          /\ Conceded(t)[n] = IF m.home = t THEN m.as ELSE m.hs
      BY <1>1, <2>1 DEF Scored, Conceded
    <3>3. r = Credit(row, Scored(t)[n], Conceded(t)[n])
      <4> HIDE DEF m, r, row
      <4> QED
        BY <2>4, <2>7, <3>2
    <3>4. Scored(t)[n] \in Nat /\ Conceded(t)[n] \in Nat
      BY <2>2, <3>2
    <3> HIDE DEF r, row, m, games
    <3>5. Credited(r, row, Scored(t)[n], Conceded(t)[n])
      BY <2>5, <3>3, <3>4, CreditAdds
    <3>6. Tallied(r, t, games \cup {n})
      <4>1. games \in SUBSET DOMAIN matches /\ n \in DOMAIN matches
        BY <1>1, <1>2, <2>1 DEF games
      <4> QED
        BY <1>1, <2>5, <3>1, <3>5, <4>1, TallyGame
    <3> QED
      BY <2>1, <3>1, <3>6 DEF r
  <2>8. CASE ~(m.home \in 1..listed /\ m.away \in 1..listed /\ t \in {m.home, m.away})
    <3>1. ~(m.home <= listed /\ m.away <= listed /\ t \in {m.home, m.away})
      BY <2>2, <2>8
    <3>2. Games(listed, n, t) = games
      BY <1>1, <2>1, <2>6, <3>1 DEF Games
    <3>3. r = row
      BY <2>4, <2>8
    <3> HIDE DEF r, row, games
    <3> QED
      BY <2>1, <2>5, <3>2, <3>3 DEF r
  <2> QED
    BY <2>7, <2>8
<1> HIDE DEF D
<1>5. upto \in D
  <2>1. 0..upto \subseteq D
    BY <1>1, <1>3, <1>4, AllUpTo
  <2> QED
    BY <1>1, <2>1
<1>6. upto \in 0..upto
  BY <1>1
<1> QED
  BY <1>2, <1>5, <1>6 DEF D

LEMMA TalliedAddsUp ==
    ASSUME NEW row, NEW t, NEW games, Tallied(row, t, games)
    PROVE  RowAddsUp(row, games)
<1>1. row.points = Points(t, games) /\ row.gf = Goals(t, games)
  BY DEF Tallied, Points
<1>2. row.gf - row.ga = Diff(t, games)
  BY DEF Tallied, Diff, Against
<1> QED
  BY <1>1, <1>2 DEF Tallied, RowAddsUp

-----------------------------------------------------------------------------
(* sorted(): rows of different teams have places of their own.             *)
Precedes(p, g, f, l, t, q, h, e, m, u) ==
    \/ p > q
    \/ p = q /\ g > h
    \/ p = q /\ g = h /\ f > e
    \/ p = q /\ g = h /\ f = e /\ l < m
    \/ p = q /\ g = h /\ f = e /\ l = m /\ t < u

LEMMA PrecedesNot ==
    ASSUME NEW p \in Int, NEW g \in Int, NEW f \in Int, NEW l \in Int, NEW t \in Int
    PROVE  ~Precedes(p, g, f, l, t, p, g, f, l, t)
BY DEF Precedes

LEMMA PrecedesOne ==
    ASSUME NEW p \in Int, NEW g \in Int, NEW f \in Int, NEW l \in Int, NEW t \in Int,
           NEW q \in Int, NEW h \in Int, NEW e \in Int, NEW m \in Int, NEW u \in Int,
           t # u
    PROVE  \/ Precedes(p, g, f, l, t, q, h, e, m, u)
           \/ Precedes(q, h, e, m, u, p, g, f, l, t)
BY DEF Precedes

LEMMA PrecedesOn ==
    ASSUME NEW p \in Int, NEW g \in Int, NEW f \in Int, NEW l \in Int, NEW t \in Int,
           NEW q \in Int, NEW h \in Int, NEW e \in Int, NEW m \in Int, NEW u \in Int,
           NEW a \in Int, NEW b \in Int, NEW c \in Int, NEW d \in Int, NEW v \in Int,
           Precedes(p, g, f, l, t, q, h, e, m, u), Precedes(q, h, e, m, u, a, b, c, d, v)
    PROVE  Precedes(p, g, f, l, t, a, b, c, d, v)
BY DEF Precedes

(* The first of four components that differs decides.                      *)
Lexical(x, y) == \E k \in 1..4 : x[k] < y[k] /\ \A j \in 1..(k - 1) : x[j] = y[j]

Compared(p, g, f, l, q, h, e, m) ==
    \/ p > q
    \/ p = q /\ g > h
    \/ p = q /\ g = h /\ f > e
    \/ p = q /\ g = h /\ f = e /\ l < m

KeyOf(p, ga, f, l) == <<-p, ga - f, -f, l>>

LEMMA KeyOrder ==
    ASSUME NEW p \in Int, NEW ga \in Int, NEW f \in Int, NEW l \in Int,
           NEW q \in Int, NEW gb \in Int, NEW e \in Int, NEW m \in Int
    PROVE  /\ Lexical(KeyOf(p, ga, f, l), KeyOf(q, gb, e, m))
              <=> Compared(p, f - ga, f, l, q, e - gb, e, m)
           /\ KeyOf(p, ga, f, l) = KeyOf(q, gb, e, m)
              <=> p = q /\ f - ga = e - gb /\ f = e /\ l = m
<1>0. PICK x, y : x = KeyOf(p, ga, f, l) /\ y = KeyOf(q, gb, e, m)
  OBVIOUS
<1>1. /\ x[1] = -p /\ x[2] = ga - f /\ x[3] = -f /\ x[4] = l
      /\ y[1] = -q /\ y[2] = gb - e /\ y[3] = -e /\ y[4] = m
  BY <1>0 DEF KeyOf
<1>2. /\ x[1] < y[1] <=> p > q
      /\ x[1] = y[1] <=> p = q
      /\ x[2] < y[2] <=> f - ga > e - gb
      /\ x[2] = y[2] <=> f - ga = e - gb
      /\ x[3] < y[3] <=> f > e
      /\ x[3] = y[3] <=> f = e
      /\ x[4] < y[4] <=> l < m
      /\ x[4] = y[4] <=> l = m
  BY <1>1
<1>3. x = y <=> x[1] = y[1] /\ x[2] = y[2] /\ x[3] = y[3] /\ x[4] = y[4]
  BY <1>0 DEF KeyOf
<1> DEFINE P(k) == x[k] < y[k] /\ \A j \in 1..(k - 1) : x[j] = y[j]
<1>4. (\E k \in 1..4 : P(k)) <=> P(1) \/ P(2) \/ P(3) \/ P(4)
  <2>1. \A k \in 1..4 : k = 1 \/ k = 2 \/ k = 3 \/ k = 4
    OBVIOUS
  <2>2. 1 \in 1..4 /\ 2 \in 1..4 /\ 3 \in 1..4 /\ 4 \in 1..4
    OBVIOUS
  <2> HIDE DEF P
  <2> QED
    BY <2>1, <2>2
<1>5. P(1) <=> x[1] < y[1]
  OBVIOUS
<1>6. P(2) <=> x[1] = y[1] /\ x[2] < y[2]
  <2>1. \A j \in 1..(2 - 1) : j = 1
    OBVIOUS
  <2>2. 1 \in 1..(2 - 1)
    OBVIOUS
  <2> QED
    BY <2>1, <2>2, Zenon
<1>7. P(3) <=> x[1] = y[1] /\ x[2] = y[2] /\ x[3] < y[3]
  <2>1. \A j \in 1..(3 - 1) : j = 1 \/ j = 2
    OBVIOUS
  <2>2. 1 \in 1..(3 - 1) /\ 2 \in 1..(3 - 1)
    OBVIOUS
  <2> QED
    BY <2>1, <2>2, Zenon
<1>8. P(4) <=> x[1] = y[1] /\ x[2] = y[2] /\ x[3] = y[3] /\ x[4] < y[4]
  <2>1. \A j \in 1..(4 - 1) : j = 1 \/ j = 2 \/ j = 3
    OBVIOUS
  <2>2. 1 \in 1..(4 - 1) /\ 2 \in 1..(4 - 1) /\ 3 \in 1..(4 - 1)
    OBVIOUS
  <2> QED
    BY <2>1, <2>2, Zenon
<1>9. (\E k \in 1..4 : P(k))
      <=> \/ p > q
          \/ p = q /\ f - ga > e - gb
          \/ p = q /\ f - ga = e - gb /\ f > e
          \/ p = q /\ f - ga = e - gb /\ f = e /\ l < m
  <2> HIDE DEF P
  <2> QED
    BY <1>2, <1>4, <1>5, <1>6, <1>7, <1>8, Zenon
<1>10. x = y <=> p = q /\ f - ga = e - gb /\ f = e /\ l = m
  BY <1>2, <1>3, Zenon
<1> QED
  BY <1>0, <1>9, <1>10, Zenon DEF Lexical, Compared

(* Rows of teams that are stored.                                          *)
TeamRow == {r \in Row : r.team \in 1..Len(teams)}

LEMMA BeforeMeans ==
    ASSUME teams \in Seq(Name), NEW r \in TeamRow, NEW s \in TeamRow
    PROVE  /\ Lower[teams[r.team]] \in Int /\ Lower[teams[s.team]] \in Int
           /\ Before(r, s) <=>
                Precedes(r.points, r.gf - r.ga, r.gf, Lower[teams[r.team]], r.team,
                         s.points, s.gf - s.ga, s.gf, Lower[teams[s.team]], s.team)
<1>1. /\ r.points \in Int /\ r.ga \in Int /\ r.gf \in Int /\ r.team \in Int
      /\ s.points \in Int /\ s.ga \in Int /\ s.gf \in Int /\ s.team \in Int
  BY DEF TeamRow, Row
<1>2. PICK l \in Int, m \in Int : l = Lower[teams[r.team]] /\ m = Lower[teams[s.team]]
  BY TopTableAssumption DEF TeamRow
<1>3. PICK p \in Int, ga \in Int, f \in Int, q \in Int, gb \in Int, e \in Int :
         /\ p = r.points /\ ga = r.ga /\ f = r.gf
         /\ q = s.points /\ gb = s.ga /\ e = s.gf
  BY <1>1, Zenon
<1>5. Key(r) = KeyOf(p, ga, f, l) /\ Key(s) = KeyOf(q, gb, e, m)
  BY <1>2, <1>3 DEF Key, KeyOf
<1>6. /\ Lexical(Key(r), Key(s)) <=> Compared(p, f - ga, f, l, q, e - gb, e, m)
      /\ Key(r) = Key(s) <=> p = q /\ f - ga = e - gb /\ f = e /\ l = m
  <2>1. Lexical(KeyOf(p, ga, f, l), KeyOf(q, gb, e, m))
              <=> Compared(p, f - ga, f, l, q, e - gb, e, m)
    BY KeyOrder
  <2>2. KeyOf(p, ga, f, l) = KeyOf(q, gb, e, m)
              <=> p = q /\ f - ga = e - gb /\ f = e /\ l = m
    BY DEF KeyOf
  <2> QED
    BY <1>5, <2>1, <2>2, Zenon
<1>7. Before(r, s) <=> Lexical(Key(r), Key(s)) \/ (Key(r) = Key(s) /\ r.team < s.team)
  BY DEF Before, Lexical
<1>8. Before(r, s) <=> Precedes(p, f - ga, f, l, r.team, q, e - gb, e, m, s.team)
  BY <1>6, <1>7 DEF Precedes, Compared
<1> QED
  BY <1>2, <1>3, <1>8, Zenon

LEMMA BeforeOrders ==
    ASSUME teams \in Seq(Name), NEW r \in TeamRow, NEW s \in TeamRow, NEW q \in TeamRow
    PROVE  /\ ~Before(r, r)
           /\ r.team # s.team => Before(r, s) \/ Before(s, r)
           /\ Before(r, s) /\ Before(s, q) => Before(r, q)
<1>1. \A x \in TeamRow : /\ x.points \in Int /\ x.gf - x.ga \in Int /\ x.gf \in Int
                         /\ Lower[teams[x.team]] \in Int /\ x.team \in Int
  <2> TAKE x \in TeamRow
  <2>1. x.points \in Int /\ x.gf \in Int /\ x.ga \in Int /\ x.team \in Int
    BY DEF TeamRow, Row
  <2>2. Lower[teams[x.team]] \in Int
    BY BeforeMeans
  <2>3. x.gf - x.ga \in Int
    BY <2>1
  <2> QED
    BY <2>1, <2>2, <2>3
<1>2. \A x, y \in TeamRow : Before(x, y) <=>
         Precedes(x.points, x.gf - x.ga, x.gf, Lower[teams[x.team]], x.team,
                  y.points, y.gf - y.ga, y.gf, Lower[teams[y.team]], y.team)
  BY BeforeMeans
<1>3. PICK rp \in Int, rg \in Int, rf \in Int, rl \in Int, rt \in Int :
         /\ rp = r.points /\ rg = r.gf - r.ga /\ rf = r.gf
         /\ rl = Lower[teams[r.team]] /\ rt = r.team
  BY <1>1, Zenon
<1>4. PICK sp \in Int, sg \in Int, sf \in Int, sl \in Int, st \in Int :
         /\ sp = s.points /\ sg = s.gf - s.ga /\ sf = s.gf
         /\ sl = Lower[teams[s.team]] /\ st = s.team
  BY <1>1, Zenon
<1>5. PICK qp \in Int, qg \in Int, qf \in Int, ql \in Int, qt \in Int :
         /\ qp = q.points /\ qg = q.gf - q.ga /\ qf = q.gf
         /\ ql = Lower[teams[q.team]] /\ qt = q.team
  BY <1>1, Zenon
<1>6. /\ Before(r, r) <=> Precedes(rp, rg, rf, rl, rt, rp, rg, rf, rl, rt)
      /\ Before(r, s) <=> Precedes(rp, rg, rf, rl, rt, sp, sg, sf, sl, st)
      /\ Before(s, r) <=> Precedes(sp, sg, sf, sl, st, rp, rg, rf, rl, rt)
      /\ Before(s, q) <=> Precedes(sp, sg, sf, sl, st, qp, qg, qf, ql, qt)
      /\ Before(r, q) <=> Precedes(rp, rg, rf, rl, rt, qp, qg, qf, ql, qt)
  BY <1>2, <1>3, <1>4, <1>5, Zenon
<1>7. /\ ~Precedes(rp, rg, rf, rl, rt, rp, rg, rf, rl, rt)
      /\ rt # st => \/ Precedes(rp, rg, rf, rl, rt, sp, sg, sf, sl, st)
                    \/ Precedes(sp, sg, sf, sl, st, rp, rg, rf, rl, rt)
      /\ Precedes(rp, rg, rf, rl, rt, sp, sg, sf, sl, st)
         /\ Precedes(sp, sg, sf, sl, st, qp, qg, qf, ql, qt)
         => Precedes(rp, rg, rf, rl, rt, qp, qg, qf, ql, qt)
  <2>1. ~Precedes(rp, rg, rf, rl, rt, rp, rg, rf, rl, rt)
    BY PrecedesNot
  <2>2. rt # st => \/ Precedes(rp, rg, rf, rl, rt, sp, sg, sf, sl, st)
                   \/ Precedes(sp, sg, sf, sl, st, rp, rg, rf, rl, rt)
    BY PrecedesOne
  <2>3. Precedes(rp, rg, rf, rl, rt, sp, sg, sf, sl, st)
        /\ Precedes(sp, sg, sf, sl, st, qp, qg, qf, ql, qt)
        => Precedes(rp, rg, rf, rl, rt, qp, qg, qf, ql, qt)
    BY PrecedesOn
  <2> QED
    BY <2>1, <2>2, <2>3
<1> QED
  BY <1>3, <1>4, <1>6, <1>7, Zenon

(* How many rows come before one is its place: no two have the same, and   *)
(* the places are 0, 1, ... up to the number of rows.                      *)
LEMMA SortedPlaces ==
    ASSUME NEW rows, IsFiniteSet(rows),
           \A r \in rows : ~Before(r, r),
           \A r, s \in rows : r # s => Before(r, s) \/ Before(s, r),
           \A r, s, q \in rows : Before(r, s) /\ Before(s, q) => Before(r, q)
    PROVE  /\ DOMAIN Sorted(rows) = 1..Cardinality(rows)
           /\ {Sorted(rows)[i] : i \in 1..Cardinality(rows)} = rows
           /\ \A i, j \in 1..Cardinality(rows) : i < j => Before(Sorted(rows)[i], Sorted(rows)[j])
<1> DEFINE n        == Cardinality(rows)
           above(r) == {s \in rows : Before(s, r)}
           place    == [r \in rows |-> Cardinality(above(r))]
           table    == Sorted(rows)
<1>1. n \in Nat
  BY FS_CardinalityType
<1>2. ASSUME NEW r \in rows
      PROVE  IsFiniteSet(above(r)) /\ Cardinality(above(r)) \in 0..(n - 1)
  <2>1. above(r) \in SUBSET rows /\ r \in rows /\ r \notin above(r)
    OBVIOUS
  <2> HIDE DEF above
  <2>2. /\ IsFiniteSet(above(r)) /\ Cardinality(above(r)) <= Cardinality(rows)
        /\ Cardinality(rows) = Cardinality(above(r)) => rows = above(r)
    BY <2>1, FS_Subset
  <2>3. Cardinality(above(r)) \in Nat
    BY <2>2, FS_CardinalityType
  <2>4. Cardinality(above(r)) # Cardinality(rows)
    BY <2>1, <2>2
  <2> QED
    BY <1>1, <2>2, <2>3, <2>4
<1>3. ASSUME NEW r \in rows, NEW s \in rows, Before(s, r)
      PROVE  Cardinality(above(s)) < Cardinality(above(r))
  <2>1. above(s) \in SUBSET above(r) /\ s \in above(r) /\ s \notin above(s)
    BY <1>3
  <2>2. IsFiniteSet(above(r))
    BY <1>2
  <2>3. Cardinality(above(s)) \in Nat /\ Cardinality(above(r)) \in Nat
    <3>1. Cardinality(above(s)) \in 0..(n - 1) /\ Cardinality(above(r)) \in 0..(n - 1)
      BY <1>2
    <3> HIDE DEF above, n
    <3> QED
      BY <3>1
  <2> HIDE DEF above
  <2>4. /\ Cardinality(above(s)) <= Cardinality(above(r))
        /\ Cardinality(above(r)) = Cardinality(above(s)) => above(r) = above(s)
    BY <2>1, <2>2, FS_Subset
  <2> QED
    BY <2>1, <2>3, <2>4
<1>4. place \in [rows -> 0..(n - 1)] /\ \A r \in rows : place[r] = Cardinality(above(r))
  BY <1>2
<1>5. \A r, s \in rows : Before(s, r) => place[s] < place[r]
  BY <1>3
<1> HIDE DEF place
<1>6. place \in Injection(rows, 0..(n - 1))
  <2>1. \A r, s \in rows : place[r] = place[s] => r = s
    <3> SUFFICES ASSUME NEW r \in rows, NEW s \in rows, place[r] = place[s], r # s PROVE FALSE
      OBVIOUS
    <3>1. place[r] < place[s] \/ place[s] < place[r]
      BY <1>5
    <3>2. place[r] \in 0..(n - 1) /\ place[s] \in 0..(n - 1)
      BY <1>4
    <3> HIDE DEF n
    <3> QED
      BY <1>1, <3>1, <3>2
  <2> QED
    BY <1>4, <2>1 DEF Injection, IsInjective
<1>7. place \in Surjection(rows, 0..(n - 1))
  <2>1. IsFiniteSet(0..(n - 1)) /\ Cardinality(0..(n - 1)) = n
    <3> HIDE DEF n
    <3>1. 0 \in Int /\ n - 1 \in Int /\ (n - 1) - 0 + 1 = n /\ (0 > n - 1 => n = 0)
      BY <1>1
    <3> QED
      BY <3>1, FS_Interval
  <2> QED
    BY <1>6, <2>1, FS_Injection
<1>8. table = [i \in 1..n |-> CHOOSE r \in rows : Cardinality(above(r)) = i - 1]
  BY DEF Sorted
<1>9. ASSUME NEW i \in 1..n PROVE table[i] \in rows /\ place[table[i]] = i - 1
  <2>1. i - 1 \in 0..(n - 1)
    <3> HIDE DEF n
    <3> QED
      BY <1>1
  <2>2. PICK r \in rows : place[r] = i - 1
    BY <1>7, <2>1 DEF Surjection
  <2>3. table[i] = CHOOSE s \in rows : Cardinality(above(s)) = i - 1
    BY <1>8, Zenon
  <2>4. Cardinality(above(r)) = i - 1
    BY <1>4, <2>2
  <2> HIDE DEF above, table, n
  <2>5. table[i] \in rows /\ Cardinality(above(table[i])) = i - 1
    BY <2>3, <2>4
  <2> QED
    BY <1>4, <2>5
<1> HIDE DEF table
<1>10. {table[i] : i \in 1..n} = rows
  <2>1. ASSUME NEW r \in rows PROVE \E i \in 1..n : table[i] = r
    <3>1. place[r] \in 0..(n - 1)
      BY <1>4
    <3>2. PICK i \in 1..n : i - 1 = place[r]
      <4> HIDE DEF n
      <4>1. place[r] + 1 \in 1..n /\ (place[r] + 1) - 1 = place[r]
        BY <1>1, <3>1
      <4> QED
        BY <4>1
    <3>3. table[i] \in rows /\ place[table[i]] = place[r]
      BY <1>9, <3>2
    <3>4. table[i] = r
      BY <1>6, <3>3 DEF Injection, IsInjective
    <3> QED
      BY <3>4
  <2> HIDE DEF n
  <2> QED
    BY <1>9, <2>1
<1>11. ASSUME NEW i \in 1..n, NEW j \in 1..n, i < j PROVE Before(table[i], table[j])
  <2>1. /\ table[i] \in rows /\ table[j] \in rows
        /\ place[table[i]] = i - 1 /\ place[table[j]] = j - 1
    BY <1>9
  <2>2. ~(j - 1 < i - 1) /\ i - 1 # j - 1
    BY <1>1, <1>11
  <2>3. table[i] # table[j] /\ ~Before(table[j], table[i])
    BY <1>5, <2>1, <2>2
  <2> QED
    BY <2>1, <2>3
<1>12. DOMAIN table = 1..n
  BY <1>8
<1> QED
  BY <1>10, <1>11, <1>12 DEF table

-----------------------------------------------------------------------------
(* An answer to GET /api/standings.                                        *)
GoodTable(table, listed, upto) ==
    /\ table \in Seq(TeamRow) /\ Len(table) = listed /\ DOMAIN table = 1..listed
    /\ {table[i].team : i \in 1..listed} = 1..listed
    /\ \A i \in 1..listed : Tallied(table[i], table[i].team, Games(listed, upto, table[i].team))
    /\ \A i, j \in 1..listed : i < j => Before(table[i], table[j])

LEMMA StandingsGood ==
    ASSUME GoodMatches, teams \in Seq(Name),
           NEW listed \in 0..Len(teams), NEW upto \in 0..Len(matches)
    PROVE  GoodTable(Standings(listed, upto), listed, upto)
<1>1. listed \in Nat /\ 1..listed \subseteq 1..Len(teams) /\ Len(teams) \in Nat
  OBVIOUS
<1>2. PICK R : Rounds(R, listed, upto)
  <2>1. /\ matches \in Seq(Posted)
        /\ \A k \in 1..Len(matches) : matches[k].home # matches[k].away
    BY DEF GoodMatches
  <2> QED
    BY <1>1, <2>1, LoopRuns
<1>3. PICK A : A = After(listed, upto)
  OBVIOUS
<1> DEFINE rows  == ToSet(A)
           table == Sorted(rows)
<1>4. Standings(listed, upto) = table
  BY <1>3 DEF Standings, After, Zeros
<1>5. A = R[upto] /\ A \in [1..listed -> Row]
  <2>1. upto \in 0..upto
    BY DEF GoodMatches
  <2> QED
    BY <1>2, <1>3, <2>1 DEF Rounds
<1>6. ASSUME NEW t \in 1..listed
      PROVE  A[t].team = t /\ Tallied(A[t], t, Games(listed, upto, t)) /\ A[t] \in TeamRow
  <2>1. Tallied(A[t], t, Games(listed, upto, t))
    BY <1>1, <1>2, <1>5, RoundsTally
  <2> QED
    BY <1>1, <2>1 DEF Tallied, TeamRow
<1>7. rows = {A[t] : t \in 1..listed}
  BY <1>5 DEF ToSet
<1> HIDE DEF rows
<1>8. IsFiniteSet(rows) /\ Cardinality(rows) = listed
  <2>1. A \in Bijection(1..listed, rows)
    <3>1. A \in [1..listed -> rows]
      BY <1>5, <1>7
    <3>2. \A s, t \in 1..listed : A[s] = A[t] => s = t
      BY <1>6
    <3> QED
      BY <1>7, <3>1, <3>2 DEF Bijection, Injection, Surjection, IsInjective
  <2>2. IsFiniteSet(1..listed) /\ Cardinality(1..listed) = listed
    BY <1>1, FS_Interval
  <2> QED
    BY <2>1, <2>2, FS_Bijection DEF ExistsBijection
<1>9. ASSUME NEW r \in rows
      PROVE  /\ r.team \in 1..listed /\ r = A[r.team] /\ r \in TeamRow
             /\ Tallied(r, r.team, Games(listed, upto, r.team))
  BY <1>6, <1>7
<1>10. /\ DOMAIN table = 1..listed /\ {table[i] : i \in 1..listed} = rows
       /\ \A i, j \in 1..listed : i < j => Before(table[i], table[j])
  <2>1. /\ \A r \in rows : ~Before(r, r)
        /\ \A r, s, q \in rows : Before(r, s) /\ Before(s, q) => Before(r, q)
    BY <1>9, BeforeOrders
  <2>2. ASSUME NEW r \in rows, NEW s \in rows, r # s PROVE Before(r, s) \/ Before(s, r)
    <3>1. r.team # s.team
      BY <1>9, <2>2
    <3> QED
      BY <1>9, <3>1, BeforeOrders
  <2>3. /\ DOMAIN Sorted(rows) = 1..Cardinality(rows)
        /\ {Sorted(rows)[i] : i \in 1..Cardinality(rows)} = rows
        /\ \A i, j \in 1..Cardinality(rows) : i < j => Before(Sorted(rows)[i], Sorted(rows)[j])
    BY <1>8, <2>1, <2>2, SortedPlaces
  <2> QED
    BY <1>8, <2>3, Zenon
<1>11. table \in Seq(TeamRow) /\ Len(table) = listed
  <2>1. table = [i \in 1..listed |-> table[i]]
    <3> DEFINE at(i) == CHOOSE r \in rows : Cardinality({s \in rows : Before(s, r)}) = i - 1
    <3>1. table = [i \in 1..listed |-> at(i)]
      BY <1>8 DEF Sorted
    <3> HIDE DEF at, table
    <3> QED
      BY <3>1
  <2> HIDE DEF table
  <2>2. \A i \in 1..listed : table[i] \in TeamRow
    BY <1>9, <1>10
  <2> QED
    BY <1>1, <1>10, <2>1, <2>2
<1> HIDE DEF table
<1>12. {table[i].team : i \in 1..listed} = 1..listed
  <2>1. ASSUME NEW i \in 1..listed PROVE table[i].team \in 1..listed
    BY <1>9, <1>10
  <2>2. ASSUME NEW t \in 1..listed PROVE \E i \in 1..listed : table[i].team = t
    <3>1. A[t] \in rows /\ A[t].team = t
      BY <1>6, <1>7
    <3>2. PICK i \in 1..listed : table[i] = A[t]
      BY <1>10, <3>1
    <3> QED
      BY <3>1, <3>2
  <2> QED
    BY <2>1, <2>2
<1>13. \A i \in 1..listed : Tallied(table[i], table[i].team, Games(listed, upto, table[i].team))
  <2>1. \A i \in 1..listed : table[i] \in rows
    BY <1>10
  <2> QED
    BY <1>9, <2>1
<1>14. GoodTable(table, listed, upto)
  BY <1>10, <1>11, <1>12, <1>13 DEF GoodTable
<1> QED
  BY <1>4, <1>14

(* A row that is before another: its team may be above the other's.        *)
LEMMA BeforeMayBeAbove ==
    ASSUME teams \in Seq(Name), NEW r \in TeamRow, NEW s \in TeamRow, Before(r, s),
           NEW games, Tallied(r, r.team, games), NEW others, Tallied(s, s.team, others)
    PROVE  MayBeAbove(r.team, s.team, games, others)
<1>1. /\ r.points = Points(r.team, games) /\ r.gf = Goals(r.team, games)
      /\ s.points = Points(s.team, others) /\ s.gf = Goals(s.team, others)
  BY DEF Tallied, Points
<1>2. r.gf - r.ga = Diff(r.team, games) /\ s.gf - s.ga = Diff(s.team, others)
  BY DEF Tallied, Diff, Against
<1>3. PICK p \in Int, g \in Int, f \in Int, l \in Int, t \in Int :
         /\ p = r.points /\ g = r.gf - r.ga /\ f = r.gf
         /\ l = Lower[teams[r.team]] /\ t = r.team
  <2>1. r.points \in Int /\ r.gf - r.ga \in Int /\ r.gf \in Int /\ r.team \in Int
    <3>1. r.points \in Int /\ r.gf \in Int /\ r.ga \in Int /\ r.team \in Int
      BY DEF TeamRow, Row
    <3> QED
      BY <3>1
  <2>2. Lower[teams[r.team]] \in Int
    BY BeforeMeans
  <2> QED
    BY <2>1, <2>2, Zenon
<1>4. PICK q \in Int, h \in Int, e \in Int, m \in Int, u \in Int :
         /\ q = s.points /\ h = s.gf - s.ga /\ e = s.gf
         /\ m = Lower[teams[s.team]] /\ u = s.team
  <2>1. s.points \in Int /\ s.gf - s.ga \in Int /\ s.gf \in Int /\ s.team \in Int
    <3>1. s.points \in Int /\ s.gf \in Int /\ s.ga \in Int /\ s.team \in Int
      BY DEF TeamRow, Row
    <3> QED
      BY <3>1
  <2>2. Lower[teams[s.team]] \in Int
    BY BeforeMeans
  <2> QED
    BY <2>1, <2>2, Zenon
<1>5. Precedes(p, g, f, l, t, q, h, e, m, u)
  <2>1. Precedes(r.points, r.gf - r.ga, r.gf, Lower[teams[r.team]], r.team,
                 s.points, s.gf - s.ga, s.gf, Lower[teams[s.team]], s.team)
    BY BeforeMeans
  <2> QED
    BY <1>3, <1>4, <2>1, Zenon
<1>6. /\ p >= q
      /\ p = q => /\ g >= h
                  /\ g = h => /\ f >= e
                              /\ f = e => l <= m
  BY <1>5 DEF Precedes
<1>7. /\ p = Points(r.team, games) /\ q = Points(s.team, others)
      /\ g = Diff(r.team, games) /\ h = Diff(s.team, others)
      /\ f = Goals(r.team, games) /\ e = Goals(s.team, others)
  BY <1>1, <1>2, <1>3, <1>4, Zenon
<1> QED
  BY <1>3, <1>4, <1>6, <1>7, Zenon DEF MayBeAbove

-----------------------------------------------------------------------------
(* What GET /api/standings answers, and what a page shows of it.           *)
LEMMA MatchesGood == ASSUME TInv PROVE GoodMatches
<1>1. matches \in Seq(Posted) /\ Len(teams) \in Nat
  BY Sizes
<1>2. ASSUME NEW k \in 1..Len(matches)
      PROVE  /\ matches[k].home # matches[k].away
             /\ matches[k].home \in Nat \ {0} /\ matches[k].away \in Nat \ {0}
  <2>1. /\ matches[k].home # matches[k].away
        /\ matches[k].home \in 1..Len(teams) /\ matches[k].away \in 1..Len(teams)
    BY DEF TInv, Tables
  <2> QED
    BY <1>1, <2>1
<1> QED
  BY <1>1, <1>2 DEF GoodMatches

(* Once a request has read both tables its answer is good.                 *)
LEMMA AnswerGood ==
    ASSUME TInv, NEW c \in Call, call[c].pc = "refresh", call[c].upto # Unread
    PROVE  GoodTable(Standings(call[c].listed, call[c].upto), call[c].listed, call[c].upto)
<1>1. call[c].listed \in 0..Len(teams) /\ call[c].upto \in 0..Len(matches)
  BY AllCovered DEF GoodRefresh
<1> QED
  BY <1>1, MatchesGood, StandingsGood, Sizes

(* The table that compute_standings of standings.py returns has a row for  *)
(* each team it was given, the row adds up the results of that team, and   *)
(* the rows are in the order of points, goal difference, goals and name,   *)
(* for any results and however many came in between the two SELECTs.       *)
THEOREM StandingsAddUpHolds == TSpec => []StandingsAddUp
<1>1. TInv => StandingsAddUp
  <2> SUFFICES ASSUME TInv, NEW c \in Call, call[c].pc = "refresh", call[c].upto # Unread,
                      NEW listed, listed = call[c].listed, NEW upto, upto = call[c].upto,
                      NEW table, table = Standings(listed, upto)
               PROVE  /\ Len(table) = listed
                      /\ {table[i].team : i \in DOMAIN table} = 1..listed
                      /\ \A i \in DOMAIN table :
                           RowAddsUp(table[i], Games(listed, upto, table[i].team))
                      /\ \A i, j \in DOMAIN table : i < j =>
                           MayBeAbove(table[i].team, table[j].team,
                                      Games(listed, upto, table[i].team),
                                      Games(listed, upto, table[j].team))
    BY Zenon DEF StandingsAddUp
  <2>1. GoodTable(table, listed, upto)
    BY AnswerGood
  <2>2. /\ DOMAIN table = 1..listed /\ Len(table) = listed
        /\ {table[i].team : i \in 1..listed} = 1..listed
        /\ \A i, j \in 1..listed : i < j => Before(table[i], table[j])
    BY <2>1 DEF GoodTable
  <2>3. ASSUME NEW i \in 1..listed
        PROVE  /\ table[i] \in TeamRow
               /\ Tallied(table[i], table[i].team, Games(listed, upto, table[i].team))
    BY <2>1 DEF GoodTable
  <2>4. ASSUME NEW i \in 1..listed
        PROVE  RowAddsUp(table[i], Games(listed, upto, table[i].team))
    BY <2>3, TalliedAddsUp
  <2>5. ASSUME NEW i \in 1..listed, NEW j \in 1..listed, i < j
        PROVE  MayBeAbove(table[i].team, table[j].team,
                          Games(listed, upto, table[i].team),
                          Games(listed, upto, table[j].team))
    BY <2>2, <2>3, <2>5, BeforeMayBeAbove, Sizes
  <2> QED
    BY <2>2, <2>4, <2>5
<1> QED
  BY <1>1, TInvCorrect, PTL

(* A table has in it the games that the page knew of.                      *)
Played(ms, known, t) == {j \in known : t \in {ms[j].home, ms[j].away}}

ShowsOwn(table, ms, known) ==
    \A k \in known : \A t \in {ms[k].home, ms[k].away} :
      \E i \in DOMAIN table : /\ table[i].team = t
                              /\ table[i].played >= Cardinality(Played(ms, known, t))

OwnInv == \A p \in Page : ShowsOwn(page[p].table, matches, page[p].known)

LEMMA ShowsLasts ==
    ASSUME NEW table, NEW ms, NEW ns, NEW known \in SUBSET (1..Len(ms)), Begins(ms, ns),
           ShowsOwn(table, ms, known)
    PROVE  ShowsOwn(table, ns, known)
<1>1. \A k \in known : ns[k] = ms[k]
  BY DEF Begins
<1>2. \A t : Played(ns, known, t) = Played(ms, known, t)
  BY <1>1 DEF Played
<1> QED
  BY <1>1, <1>2 DEF ShowsOwn

(* Lists and names cover what is known, and so do the rows of the table.   *)
LEMMA AnswerShowsOwn ==
    ASSUME TInv, NEW c \in Call, call[c].pc = "refresh", call[c].upto # Unread
    PROVE  ShowsOwn(Standings(call[c].listed, call[c].upto), matches, call[c].known)
<1> DEFINE listed == call[c].listed
           upto   == call[c].upto
           known  == call[c].known
           table  == Standings(listed, upto)
<1>1. GoodTable(table, listed, upto)
  BY AnswerGood
<1>2. /\ Names(listed, matches, known) /\ Lists(upto, known) /\ upto \in 0..Len(matches)
      /\ known \subseteq 1..Len(matches) /\ listed \in 0..Len(teams)
  BY AllCovered DEF GoodRefresh, TInv
<1>3. Len(matches) \in Nat /\ Len(teams) \in Nat /\ GoodMatches
  BY Sizes, MatchesGood
<1> HIDE DEF listed, upto, known, table
<1> SUFFICES ASSUME NEW k \in known, NEW t \in {matches[k].home, matches[k].away}
             PROVE  \E i \in DOMAIN table :
                      /\ table[i].team = t
                      /\ table[i].played >= Cardinality(Played(matches, known, t))
  BY DEF ShowsOwn, listed, upto, known, table
<1>4. t \in 1..listed
  <2>1. k \in 1..Len(matches) /\ matches[k].home <= listed /\ matches[k].away <= listed
    BY <1>2 DEF Names
  <2>2. t \in Nat \ {0} /\ t <= listed
    BY <1>3, <2>1 DEF GoodMatches
  <2> QED
    BY <1>2, <1>3, <2>2
<1>5. PICK i \in 1..listed : table[i].team = t
  BY <1>1, <1>4 DEF GoodTable
<1>6. /\ i \in DOMAIN table /\ table[i].played = Cardinality(Games(listed, upto, t))
      /\ IsFiniteSet(Games(listed, upto, t))
  <2>1. Tallied(table[i], t, Games(listed, upto, t)) /\ i \in DOMAIN table
    BY <1>1, <1>5 DEF GoodTable
  <2>2. Games(listed, upto, t) \in SUBSET (1..upto) /\ IsFiniteSet(1..upto)
    BY <1>2, FS_Interval DEF Games
  <2>3. IsFiniteSet(Games(listed, upto, t))
    BY <2>2, FS_Subset
  <2> QED
    BY <2>1, <2>3 DEF Tallied
<1>7. Played(matches, known, t) \in SUBSET Games(listed, upto, t)
  <2> SUFFICES ASSUME NEW j \in known, t \in {matches[j].home, matches[j].away}
               PROVE  j \in Games(listed, upto, t)
    BY DEF Played
  <2>1. /\ matches[j].home <= listed /\ matches[j].away <= listed
        /\ j <= upto /\ j \in 1..Len(matches)
    BY <1>2 DEF Names, Lists
  <2>2. j \in 1..upto
    BY <1>2, <1>3, <2>1
  <2> QED
    BY <2>1, <2>2 DEF Games
<1>8. /\ Cardinality(Played(matches, known, t)) <= Cardinality(Games(listed, upto, t))
      /\ Cardinality(Played(matches, known, t)) \in Nat
      /\ Cardinality(Games(listed, upto, t)) \in Nat
  BY <1>6, <1>7, FS_Subset, FS_CardinalityType
<1>9. table[i].played >= Cardinality(Played(matches, known, t))
  BY <1>6, <1>8
<1> QED
  BY <1>5, <1>6, <1>9

(* Only a refresh that is complete changes the table that a page shows.    *)
LEMMA OthersKeep ==
    ASSUME TInv, [TNext]_tvars, \A c \in Call : ~Show(c)
    PROVE  /\ Begins(matches, matches')
           /\ \A p \in Page : page'[p].known = page[p].known /\ page'[p].table = page[p].table
<1>1. /\ matches \in Seq(Posted) /\ Begins(matches, matches) /\ DOMAIN page = Page
      /\ \A p \in Page : IsPage(page[p])
  BY Sizes DEF Begins, TInv, GoodPage
<1>2. ASSUME NEW p \in Page, \/ page' = [page EXCEPT ![p].open = TRUE]
                             \/ page' = [page EXCEPT ![p].error = TRUE]
      PROVE  \A q \in Page : page'[q].known = page[q].known /\ page'[q].table = page[q].table
  <2>1. "known" \in DOMAIN page[p] /\ "table" \in DOMAIN page[p]
    BY <1>1 DEF IsPage
  <2>2. page'[p].known = page[p].known /\ page'[p].table = page[p].table
    BY <1>1, <1>2, <2>1
  <2>3. \A q \in Page : q # p => page'[q] = page[q]
    BY <1>1, <1>2
  <2> QED
    BY <2>2, <2>3
<1>3. ASSUME NEW c \in Call, NEW p \in Page, Open(c, p)
      PROVE  UNCHANGED matches /\ page' = [page EXCEPT ![p].open = TRUE]
  BY <1>3 DEF Open
<1>4. ASSUME NEW c \in Call, Receive(c) \/ Lose(c)
      PROVE  /\ UNCHANGED matches
             /\ \/ UNCHANGED page
                \/ /\ call[c].page \in Page
                   /\ page' = [page EXCEPT ![call[c].page].error = TRUE]
  <2>1. call[c].pc # "free"
    BY <1>4 DEF Receive, Lose
  <2>2. call[c].page \in Page
    BY <2>1, OfCall
  <2> QED
    BY <1>4, <2>2 DEF Receive, Lose
<1>5. ASSUME NEW c \in Call, Handle(c) PROVE UNCHANGED page /\ Begins(matches, matches')
  <2>1. CASE InsertMatch(c)
    <3>1. call[c].match \in Posted
      BY OfCall DEF CallState
    <3>2. Begins(matches, Append(matches, call[c].match))
      BY <1>1, <3>1, BeginsAppend
    <3> QED
      BY <1>1, <2>1, <3>2 DEF InsertMatch
  <2>2. CASE ~InsertMatch(c)
    BY <1>1, <1>5, <2>2 DEF Handle, CheckTeam, InsertTeam, CheckMatch, Break, ListTeams,
                            ListMatches, StandingsTeams, StandingsMatches
  <2> QED
    BY <2>1, <2>2
<1>6. ASSUME NEW c \in Call, NEW p \in Page, NEW name \in Name, AddTeam(c, p, name)
      PROVE  UNCHANGED <<matches, page>>
  BY <1>6 DEF AddTeam
<1>7. ASSUME NEW c \in Call, NEW p \in Page, NEW m \in Result, AddMatch(c, p, m)
      PROVE  UNCHANGED <<matches, page>>
  BY <1>7 DEF AddMatch
<1>8. CASE UNCHANGED tvars
  BY <1>1, <1>8 DEF tvars
<1> QED
  BY <1>1, <1>2, <1>3, <1>4, <1>5, <1>6, <1>7, <1>8 DEF TNext

LEMMA OwnInvStep == TInv /\ OwnInv /\ [TNext]_tvars => OwnInv'
<1> SUFFICES ASSUME TInv, OwnInv, [TNext]_tvars, NEW p \in Page
             PROVE  ShowsOwn(page'[p].table, matches', page'[p].known)
  BY DEF OwnInv
<1>1. /\ ShowsOwn(page[p].table, matches, page[p].known)
      /\ page[p].known \in SUBSET (1..Len(matches)) /\ DOMAIN page = Page
  BY DEF OwnInv, TInv, GoodPage
<1>2. CASE \A c \in Call : ~Show(c)
  <2>1. /\ Begins(matches, matches')
        /\ page'[p].known = page[p].known /\ page'[p].table = page[p].table
    BY <1>2, OthersKeep
  <2> QED
    BY <1>1, <2>1, ShowsLasts
<1>3. ASSUME NEW c \in Call, Show(c)
      PROVE  ShowsOwn(page'[p].table, matches', page'[p].known)
  <2>1. /\ call[c].pc = "refresh" /\ call[c].upto # Unread /\ matches' = matches
        /\ page' = [page EXCEPT ![call[c].page] =
                      [open |-> TRUE, error |-> FALSE, teams |-> call[c].teams,
                       matches |-> call[c].matches, known |-> call[c].known,
                       table |-> Standings(call[c].listed, call[c].upto)]]
    BY <1>3 DEF Show
  <2>2. CASE p = call[c].page
    <3>1. /\ page'[p].known = call[c].known
          /\ page'[p].table = Standings(call[c].listed, call[c].upto)
      BY <1>1, <2>1, <2>2
    <3> QED
      BY <2>1, <3>1, AnswerShowsOwn
  <2>3. CASE p # call[c].page
    <3>1. page'[p] = page[p]
      BY <1>1, <2>1, <2>3
    <3> QED
      BY <1>1, <2>1, <3>1
  <2> QED
    BY <2>2, <2>3
<1> QED
  BY <1>2, <1>3

(* What refresh() of App.jsx shows is never behind what its page knew when *)
(* it began: the results are in the list, both teams among the names, and  *)
(* the games in the rows of both, whatever other requests do meanwhile.    *)
THEOREM OwnResultsShownHolds == TSpec => []OwnResultsShown
<1>1. TInit => OwnInv
  <2> SUFFICES ASSUME TInit, NEW p \in Page
               PROVE  ShowsOwn(page[p].table, matches, page[p].known)
    BY DEF OwnInv
  <2>1. page[p].known = {}
    BY DEF TInit, Blank
  <2> QED
    BY <2>1 DEF ShowsOwn
<1>2. TInv /\ OwnInv => OwnResultsShown
  <2> SUFFICES ASSUME TInv, OwnInv, NEW p \in Page, NEW k \in page[p].known
               PROVE  /\ k <= page[p].matches
                      /\ \A t \in {matches[k].home, matches[k].away} :
                           /\ t <= page[p].teams
                           /\ \E i \in DOMAIN page[p].table :
                                /\ page[p].table[i].team = t
                                /\ page[p].table[i].played
                                     >= Cardinality({j \in page[p].known :
                                                t \in {matches[j].home, matches[j].away}})
    BY Zenon DEF OwnResultsShown
  <2>1. /\ Lists(page[p].matches, page[p].known)
        /\ Names(page[p].teams, matches, page[p].known)
    BY DEF TInv, GoodPage
  <2>2. ShowsOwn(page[p].table, matches, page[p].known)
    BY DEF OwnInv
  <2>3. k <= page[p].matches
    BY <2>1 DEF Lists
  <2>4. \A t \in {matches[k].home, matches[k].away} : t <= page[p].teams
    BY <2>1 DEF Names
  <2> QED
    BY <2>2, <2>3, <2>4, Zenon DEF ShowsOwn, Played
<1> QED
  BY <1>1, <1>2, OwnInvStep, TInvCorrect, PTL DEF TSpec
=============================================================================
