------------------------------ MODULE TopTable ------------------------------
(***************************************************************************)
(* The league scoreboard of src/02-development: the handlers of            *)
(* backend/app/main.py, which FastAPI runs in threads side by side, the    *)
(* table of standings.py, and the page of frontend/src/App.jsx, which does *)
(* not wait for one request before it sends the next.                      *)
(*                                                                         *)
(* A handler's statements interleave with those of the others: a SELECT    *)
(* reads what is committed by then, and only the unique constraints of     *)
(* models.py stand between two inserts.  Rows are never changed or         *)
(* deleted, so that what a SELECT returned is told by the number of rows.  *)
(***************************************************************************)
EXTENDS Integers, Sequences, SequencesExt, FiniteSets, FiniteSetsExt

CONSTANTS Name,    \* names of teams
          Lower,   \* Name -> the rank of the name in lower case
          Result,  \* bound: the results that clients post, by the ids of the teams
          Seed,    \* the teams in the database when the server starts
          Page,    \* browser pages
          Call,    \* bound: requests and refreshes under way at a time
          None

ASSUME TopTableAssumption == /\ IsFiniteSet(Name) /\ Lower \in [Name -> Nat]
                             /\ Result \subseteq [home : Nat, away : Nat, hs : Nat, as : Nat]
                             /\ Seed \in Seq(Name) /\ IsInjective(Seed)

VARIABLES teams,    \* the names in the table teams; SQLite numbers them in order
          matches,  \* the rows of the table matches, all of round 1
          call,     \* Call -> a request, or a refresh with its three requests
          page,     \* Page -> the state of the React component
          own       \* history: Page -> the matches it was told are recorded

tvars == <<teams, matches, call, page, own>>

NoMatch == [home |-> 0, away |-> 0, hs |-> 0, as |-> 0]
Unread  == -1
Free    == [pc |-> "free", page |-> None, name |-> None, match |-> NoMatch,
            status |-> 0, id |-> 0, known |-> {}, teams |-> Unread, matches |-> Unread,
            listed |-> Unread, upto |-> Unread]
Blank   == [open |-> FALSE, error |-> FALSE, teams |-> 0, matches |-> 0,
            table |-> <<>>, known |-> {}]

TInit == /\ teams = Seed /\ matches = <<>>
         /\ call = [c \in Call |-> Free]
         /\ page = [p \in Page |-> Blank]
         /\ own = [p \in Page |-> {}]

To(c, state) == call' = [call EXCEPT ![c] = state]
Answer(c, status, id) == To(c, [Free EXCEPT !.pc = "answered", !.page = call[c].page,
                                             !.status = status, !.id = id])
-----------------------------------------------------------------------------
(* compute_standings *)
Zero(t) == [team |-> t, played |-> 0, won |-> 0, drawn |-> 0, lost |-> 0,
            gf |-> 0, ga |-> 0, points |-> 0]

(* What one match adds to the row of one of its teams.                     *)
Credit(row, scored, conceded) ==
    LET counted == [row EXCEPT !.played = @ + 1, !.gf = @ + scored, !.ga = @ + conceded]
    IN  CASE scored > conceded -> [counted EXCEPT !.won = @ + 1, !.points = @ + 3]
          [] scored < conceded -> [counted EXCEPT !.lost = @ + 1]
          [] OTHER             -> [counted EXCEPT !.drawn = @ + 1, !.points = @ + 1]

(* Mutant: of a match with one unknown team the known one is credited.     *)
PlayHalf(rows, m) ==
    [t \in DOMAIN rows |-> CASE t = m.home -> Credit(rows[t], m.hs, m.as)
                             [] t = m.away -> Credit(rows[t], m.as, m.hs)
                             [] OTHER      -> rows[t]]

(* One round of the loop; a match of a team that was not read is skipped.  *)
Play(rows, m) ==
    IF {m.home, m.away} \subseteq DOMAIN rows
    THEN [rows EXCEPT ![m.home] = Credit(@, m.hs, m.as), ![m.away] = Credit(@, m.as, m.hs)]
    ELSE rows

(* The sort key, compared component by component; sorted() is stable.      *)
Key(row) == <<-row.points, row.ga - row.gf, -row.gf, Lower[teams[row.team]]>>

Before(r, s) ==
    \/ \E k \in 1..4 : Key(r)[k] < Key(s)[k] /\ \A j \in 1..(k - 1) : Key(r)[j] = Key(s)[j]
    \/ Key(r) = Key(s) /\ r.team < s.team

(* sorted(): the place of a row is told by how many come before it.        *)
Sorted(rows) ==
    [i \in 1..Cardinality(rows) |->
        CHOOSE r \in rows : Cardinality({s \in rows : Before(s, r)}) = i - 1]

Standings(listed, upto) ==
    Sorted(ToSet(FoldLeft(Play, [t \in 1..listed |-> Zero(t)], SubSeq(matches, 1, upto))))
-----------------------------------------------------------------------------
(* POST /api/teams: the check ...                                          *)
CheckTeam(c) ==
    /\ call[c].pc = "check team"
    /\ IF call[c].name \in ToSet(teams) THEN Answer(c, 409, 0)
       ELSE To(c, [call[c] EXCEPT !.pc = "insert team"])
    /\ UNCHANGED <<teams, matches, page, own>>

(* Mutant: no unique constraint on the name, nor uq_match.                 *)
ClashesNever(c) == FALSE

(* Team.name is unique, and so is a match by its teams and its round.      *)
Clashes(c) == \/ call[c].name \in ToSet(teams)
              \/ \E k \in DOMAIN matches : /\ matches[k].home = call[c].match.home
                                           /\ matches[k].away = call[c].match.away

(* ... and the commit.  The IntegrityError of a clash goes up: 500.        *)
InsertTeam(c) ==
    /\ call[c].pc = "insert team"
    /\ IF Clashes(c) THEN Answer(c, 500, 0) /\ UNCHANGED teams
       ELSE teams' = Append(teams, call[c].name) /\ Answer(c, 201, 0)
    /\ UNCHANGED <<matches, page, own>>

(* POST /api/matches *)
CheckMatch(c) ==
    LET m == call[c].match
    IN  /\ call[c].pc = "check match"
        /\ IF m.home = m.away THEN Answer(c, 400, 0)
           ELSE IF ~({m.home, m.away} \subseteq DOMAIN teams) THEN Answer(c, 404, 0)
           ELSE To(c, [call[c] EXCEPT !.pc = "insert match"])
        /\ UNCHANGED <<teams, matches, page, own>>

(* Mutant: the session is closed without db.commit().                      *)
InsertMatchUncommitted(c) ==
    /\ call[c].pc = "insert match"
    /\ IF Clashes(c) THEN Answer(c, 500, 0)
       ELSE Answer(c, 201, Len(matches) + 1)
    /\ UNCHANGED <<teams, matches, page, own>>

InsertMatch(c) ==
    /\ call[c].pc = "insert match"
    /\ IF Clashes(c) THEN Answer(c, 500, 0) /\ UNCHANGED matches
       ELSE /\ matches' = Append(matches, call[c].match)
            /\ Answer(c, 201, Len(matches) + 1)
    /\ UNCHANGED <<teams, page, own>>

(* The database stays locked too long, or the server stops.                *)
Break(c) ==
    /\ call[c].pc \in {"check team", "insert team", "check match", "insert match"}
    /\ Answer(c, 500, 0)
    /\ UNCHANGED <<teams, matches, page, own>>

(* GET /api/teams and /api/matches                                         *)
ListTeams(c) ==
    /\ call[c].pc = "refresh" /\ call[c].teams = Unread
    /\ To(c, [call[c] EXCEPT !.teams = Len(teams)])
    /\ UNCHANGED <<teams, matches, page, own>>

ListMatches(c) ==
    /\ call[c].pc = "refresh" /\ call[c].matches = Unread
    /\ To(c, [call[c] EXCEPT !.matches = Len(matches)])
    /\ UNCHANGED <<teams, matches, page, own>>

(* GET /api/standings reads the teams and then the matches.                *)
StandingsTeams(c) ==
    /\ call[c].pc = "refresh" /\ call[c].listed = Unread
    /\ To(c, [call[c] EXCEPT !.listed = Len(teams)])
    /\ UNCHANGED <<teams, matches, page, own>>

StandingsMatches(c) ==
    /\ call[c].pc = "refresh" /\ call[c].listed # Unread /\ call[c].upto = Unread
    /\ To(c, [call[c] EXCEPT !.upto = Len(matches)])
    /\ UNCHANGED <<teams, matches, page, own>>
-----------------------------------------------------------------------------
Refresh(p, known) == [Free EXCEPT !.pc = "refresh", !.page = p, !.known = known]

(* The page is opened and refreshes.                                       *)
Open(c, p) ==
    /\ call[c].pc = "free" /\ ~page[p].open
    /\ page' = [page EXCEPT ![p].open = TRUE]
    /\ To(c, Refresh(p, {}))
    /\ UNCHANGED <<teams, matches, own>>

AddTeam(c, p, name) ==
    /\ call[c].pc = "free" /\ page[p].open
    /\ To(c, [Free EXCEPT !.pc = "check team", !.page = p, !.name = name])
    /\ UNCHANGED <<teams, matches, page, own>>

(* The page offers the teams it shows; other clients send what they like.  *)
AddMatch(c, p, m) ==
    /\ call[c].pc = "free" /\ page[p].open
    /\ To(c, [Free EXCEPT !.pc = "check match", !.page = p, !.match = m])
    /\ UNCHANGED <<teams, matches, page, own>>

(* A post was answered: the page refreshes, or shows the error.            *)
Receive(c) ==
    LET p == call[c].page
    IN  /\ call[c].pc = "answered"
        /\ IF call[c].status = 201
           THEN /\ own' = [own EXCEPT ![p] = @ \cup ({call[c].id} \ {0})]
                /\ To(c, Refresh(p, own'[p]))
                /\ UNCHANGED page
           ELSE /\ page' = [page EXCEPT ![p].error = TRUE]
                /\ To(c, Free)
                /\ UNCHANGED own
        /\ UNCHANGED <<teams, matches>>

(* The answer to a post or to one of the three requests does not arrive.   *)
Lose(c) ==
    /\ call[c].pc \in {"answered", "refresh"}
    /\ page' = [page EXCEPT ![call[c].page].error = TRUE]
    /\ To(c, Free)
    /\ UNCHANGED <<teams, matches, own>>

(* Promise.all: every answer is there, and the page shows them.            *)
Show(c) ==
    /\ call[c].pc = "refresh"
    /\ Unread \notin {call[c].teams, call[c].matches, call[c].upto}
    /\ page' = [page EXCEPT ![call[c].page] =
                  [open |-> TRUE, error |-> FALSE, teams |-> call[c].teams,
                   matches |-> call[c].matches, known |-> call[c].known,
                   table |-> Standings(call[c].listed, call[c].upto)]]
    /\ To(c, Free)
    /\ UNCHANGED <<teams, matches, own>>

Handle(c) == \/ CheckTeam(c) \/ InsertTeam(c) \/ CheckMatch(c) \/ InsertMatch(c) \/ Break(c)
             \/ ListTeams(c) \/ ListMatches(c) \/ StandingsTeams(c) \/ StandingsMatches(c)

TNext ==
    \/ \E c \in Call, p \in Page : Open(c, p)
    \/ \E c \in Call, p \in Page, name \in Name : AddTeam(c, p, name)
    \/ \E c \in Call, p \in Page, m \in Result : AddMatch(c, p, m)
    \/ \E c \in Call : Handle(c) \/ Receive(c) \/ Lose(c) \/ Show(c)

TSpec == TInit /\ [][TNext]_tvars
-----------------------------------------------------------------------------
(* Type correctness, and the two tables: no name and no pairing is there   *)
(* twice, however the checks and inserts of create_team and create_match   *)
(* interleave, and a match is between two teams that exist.                *)
TTypeOK ==
    /\ teams \in Seq(Name) /\ IsInjective(teams)
    /\ \A k \in DOMAIN matches :
         /\ matches[k].home # matches[k].away
         /\ {matches[k].home, matches[k].away} \subseteq DOMAIN teams
         /\ \A j \in DOMAIN matches \ {k} : \/ matches[j].home # matches[k].home
                                            \/ matches[j].away # matches[k].away
    /\ \A p \in Page : /\ page[p].teams \in 0..Len(teams)
                       /\ page[p].matches \in 0..Len(matches)
    /\ \A c \in Call : call[c].pc = "refresh" => call[c].known \subseteq own[call[c].page]

(* What the table should be, counted from the results: the games of a team *)
(* among those that were read, and what they are worth.                    *)
Games(listed, upto, t) ==
    {k \in 1..upto : /\ matches[k].home <= listed /\ matches[k].away <= listed
                     /\ t \in {matches[k].home, matches[k].away}}

Scored(t)   == [k \in DOMAIN matches |-> IF matches[k].home = t THEN matches[k].hs
                                                                ELSE matches[k].as]
Conceded(t) == [k \in DOMAIN matches |-> IF matches[k].home = t THEN matches[k].as
                                                                ELSE matches[k].hs]

Wins(t, games)   == {k \in games : Scored(t)[k] > Conceded(t)[k]}
Draws(t, games)  == {k \in games : Scored(t)[k] = Conceded(t)[k]}
Points(t, games) == 3 * Cardinality(Wins(t, games)) + Cardinality(Draws(t, games))
Goals(t, games)  == SumFunctionOnSet(Scored(t), games)
Diff(t, games)   == Goals(t, games) - SumFunctionOnSet(Conceded(t), games)

RowAddsUp(row, games) ==
    /\ row.played = row.won + row.drawn + row.lost
    /\ row.played = Cardinality(games)
    /\ row.points = Points(row.team, games)
    /\ row.gf = Goals(row.team, games) /\ row.gf - row.ga = Diff(row.team, games)

(* Team t may be above team u, by what the games of each are worth.        *)
MayBeAbove(t, u, tgames, ugames) ==
    /\ Points(t, tgames) >= Points(u, ugames)
    /\ Points(t, tgames) = Points(u, ugames) =>
         /\ Diff(t, tgames) >= Diff(u, ugames)
         /\ Diff(t, tgames) = Diff(u, ugames) =>
              /\ Goals(t, tgames) >= Goals(u, ugames)
              /\ Goals(t, tgames) = Goals(u, ugames) => Lower[teams[t]] <= Lower[teams[u]]

(* specs.md, 5: every answer to GET /api/standings has a row for each team *)
(* it read, which adds up its results against the others of them, and no   *)
(* team is below one with fewer points, a worse goal difference, fewer     *)
(* goals or a later name, in this order; though the two SELECTs are apart  *)
(* and teams and matches come in between.                                  *)
StandingsAddUp ==
    \A c \in Call : call[c].pc = "refresh" /\ call[c].upto # Unread =>
      LET table    == Standings(call[c].listed, call[c].upto)
          games(t) == Games(call[c].listed, call[c].upto, t)
      IN  /\ Len(table) = call[c].listed
          /\ {table[i].team : i \in DOMAIN table} = 1..call[c].listed
          /\ \A i \in DOMAIN table : RowAddsUp(table[i], games(table[i].team))
          /\ \A i, j \in DOMAIN table : i < j =>
               MayBeAbove(table[i].team, table[j].team,
                          games(table[i].team), games(table[j].team))

(* What a page shows has in it every result that the page knew to be       *)
(* recorded when that refresh began: in the list, and in the rows of both  *)
(* teams, although list, names and table are three answers of three times. *)
OwnResultsShown ==
    \A p \in Page : \A k \in page[p].known :
      /\ k <= page[p].matches
      /\ \A t \in {matches[k].home, matches[k].away} :
           /\ t <= page[p].teams
           /\ \E i \in DOMAIN page[p].table :
                /\ page[p].table[i].team = t
                /\ page[p].table[i].played >= Cardinality({j \in page[p].known :
                                                t \in {matches[j].home, matches[j].away}})

(* specs.md, 7: "the standings always reflecting the recorded matches":    *)
(* once nothing is under way and no error is shown, a page shows all of    *)
(* the results it was told are recorded.                                   *)
PageCatchesUp ==
    \A p \in Page :
      (\A c \in Call : call[c].page # p) /\ ~page[p].error => own[p] = page[p].known

(* specs.md, 3: a name that exists is refused (409): a team is never       *)
(* answered with an unhandled IntegrityError.                              *)
DuplicateIsRefused ==
    \A c \in Call : call[c].pc = "insert team" => call[c].name \notin ToSet(teams)
=============================================================================
