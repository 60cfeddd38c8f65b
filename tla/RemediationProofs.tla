--------------------------- MODULE RemediationProofs ---------------------------
(***************************************************************************)
(* Proofs about Remediation, for any number of incidents and of commits of *)
(* the operator, and whatever the agent may answer.                        *)
(*                                                                         *)
(* Every step has one of a few forms (StepForms): the responder thinks,    *)
(* delivers a fix, advances in the deployment or stops; an incident is     *)
(* begun or skipped; the operator acts.  Each part of the inductive        *)
(* invariant is kept by each form.                                         *)
(***************************************************************************)
EXTENDS Remediation, FiniteSetTheorems, TLAPS

-----------------------------------------------------------------------------
(* Lines of commits: the empty one, and the one that stands for no branch. *)
LEMMA EmptyLine == /\ ToSet(<<>>) = {} /\ ToSet(NoBranch) = {0}
                   /\ IsInjective(<<>>) /\ <<>> \in Commits
BY DEF ToSet, IsInjective, NoBranch, Commits

(* A commit is put at the end of a line ...                                *)
LEMMA LineAppend ==
    ASSUME NEW S, NEW s \in Seq(S), NEW c \in S
    PROVE  /\ Append(s, c) \in Seq(S)
           /\ ToSet(Append(s, c)) = ToSet(s) \cup {c}
           /\ IsInjective(s) /\ c \notin ToSet(s) => IsInjective(Append(s, c))
<1>1. /\ Append(s, c) \in Seq(S) /\ Len(Append(s, c)) = Len(s) + 1 /\ Len(s) \in Nat
      /\ DOMAIN s = 1..Len(s) /\ DOMAIN Append(s, c) = 1..(Len(s) + 1)
  OBVIOUS
<1>2. /\ \A n \in 1..Len(s) : Append(s, c)[n] = s[n]
      /\ Append(s, c)[Len(s) + 1] = c
  OBVIOUS
<1>3. ToSet(Append(s, c)) = ToSet(s) \cup {c}
  BY <1>1, <1>2 DEF ToSet
<1>4. ASSUME IsInjective(s), c \notin ToSet(s)
      PROVE  IsInjective(Append(s, c))
  BY <1>1, <1>2, <1>4 DEF IsInjective, ToSet
<1> QED
  BY <1>1, <1>3, <1>4

(* ... and a merge without one of its own finds all it has on the other.   *)
LEMMA LinePrefix ==
    ASSUME NEW S, NEW s \in Seq(S), NEW t \in Seq(S), IsPrefix(s, t)
    PROVE  ToSet(s) \subseteq ToSet(t)
<1>1. Len(s) <= Len(t) /\ SubSeq(s, 1, Len(s)) = SubSeq(t, 1, Len(s))
  BY DEF IsPrefix
<1>2. ASSUME NEW n \in 1..Len(s)
      PROVE  s[n] = t[n] /\ n \in 1..Len(t)
  <2>1. SubSeq(s, 1, Len(s))[n] = s[n] /\ SubSeq(t, 1, Len(s))[n] = t[n]
    BY <1>1
  <2> QED
    BY <1>1, <2>1
<1> QED
  BY <1>2 DEF ToSet

-----------------------------------------------------------------------------
(* The inductive invariant.  A line of commits is clean if no commit is on *)
(* it twice and the operator's are among those made so far.                *)
Clean(s) == /\ s \in Commits /\ IsInjective(s)
            /\ \A c \in ToSet(s) \cap Operator : c \in committed

Editing    == {"early", "suite", "remove", "suite_before", "reapply", "gate"}
Unmerged   == {"check", "tag", "merge"}
Merged     == {"build", "up", "verify", "rollback", "reset"}
Deploying  == Unmerged \cup Merged

Outcome == {"none", "closed", "escalated", "resolved", "rolled_back", "crashed"}

Shape ==
    /\ DOMAIN pipe = DOMAIN Rest /\ pipe.inc \in Incident
    /\ pipe.pc \in {"idle", "base", "decide", "decline"} \cup Editing \cup Deploying
    /\ outcome \in [Incident -> Outcome]
    /\ DOMAIN branch = Incident /\ DOMAIN fix = Incident /\ DOMAIN rollback = Incident
    /\ worktrees \subseteq Incident /\ stuck \subseteq worktrees
    /\ undone \subseteq Incident /\ edited \in BOOLEAN /\ committed \subseteq Operator

Lines ==
    /\ Clean(head) /\ Clean(pipe.base) /\ pipe.version \in Commits
    /\ Built(local) /\ Built(running)
    /\ \A i \in Incident : branch[i] = NoBranch \/ Clean(branch[i])
    /\ pipe.pc # "idle" /\ pipe.level >= 1 => Clean(branch[pipe.inc])
    /\ pipe.pc \in Editing \cup Deploying => pipe.level >= 1
    /\ pipe.pc \in {"merge"} \cup Merged => Built(rollback[pipe.inc])

(* Incidents are begun in their order, one at a time; what is not begun    *)
(* has no branch, and there is no fix before the deployment.               *)
InOrder ==
    /\ \A i \in Incident : outcome[i] # "none" => \A j \in 1..(i - 1) : outcome[j] # "none"
    /\ pipe.pc # "idle" => /\ outcome[pipe.inc] = "none"
                           /\ \A j \in 1..(pipe.inc - 1) : outcome[j] # "none"
    /\ \A i \in Incident : outcome[i] = "none" =>
         /\ pipe.inc # i \/ pipe.pc = "idle" => branch[i] = NoBranch
         /\ pipe.inc # i \/ pipe.pc \notin Deploying => fix[i] = NoFix

(* What is tested has passed the early gate, and the variables of the gate *)
(* are those of the run.                                                   *)
Checked ==
    /\ pipe.pc \in Editing => pipe.run \in Run
    /\ pipe.pc \in Editing \ {"early"} => InPolicy(pipe.run)
    /\ pipe.pc \in Editing \ {"early", "suite"} => pipe.passed = pipe.run.passes

Gated(i) == /\ fix[i].level >= 2 /\ InPolicy(fix[i].run) /\ fix[i].run.passes /\ fix[i].sure
            /\ \A loaded \in fix[i].run.reported : loaded = {}

(* Wherever a fix can come from, it is gated; a branch may have one of its *)
(* own that is not, which no one merges.                                   *)
OnlyGated ==
    /\ \A i \in ToSet(head) \cap Incident : Gated(i)
    /\ \A i \in ToSet(pipe.base) \cap Incident : Gated(i)
    /\ \A i \in ToSet(local.code) \cap Incident : Gated(i)
    /\ \A i \in ToSet(running.code) \cap Incident : Gated(i)
    /\ \A j \in Incident : \A i \in ToSet(rollback[j].code) \cap Incident : Gated(i)
    /\ \A j \in Incident : \A i \in ToSet(branch[j]) \cap Incident :
         Gated(i) \/ (i = j /\ fix[i] # NoFix)
    /\ pipe.pc \in Deploying /\ fix[pipe.inc] # NoFix => Gated(pipe.inc)

(* Where the fix that is being deployed has got to.                        *)
OnItsWay ==
    fix[pipe.inc] # NoFix =>
      /\ pipe.pc \in Deploying => pipe.inc \in ToSet(branch[pipe.inc])
      /\ pipe.pc \in {"build", "up", "verify"} => pipe.inc \in ToSet(head)
      /\ pipe.pc \in {"up", "verify"} => pipe.inc \in ToSet(local.code)
      /\ pipe.pc = "verify" => pipe.inc \in ToSet(running.code)

(* A rolled back fix is not in what a later rollback goes back to, nor is  *)
(* any on the branch of an earlier incident.                               *)
Forgotten ==
    /\ RolledBackLeavesBranch
    /\ pipe.pc # "idle" => pipe.inc \notin ToSet(pipe.base)
    /\ \A i \in undone : outcome[i] # "none" /\ i \notin ToSet(pipe.base)
    /\ \A i, j \in Incident : j < i => i \notin ToSet(branch[j])

CleanedUp ==
    /\ NoWorktreeLeft
    /\ pipe.pc \in Deploying => pipe.inc \notin worktrees \/ pipe.inc \in stuck

IInv == /\ Shape /\ Lines /\ InOrder /\ Checked /\ OnlyGated /\ OnItsWay /\ Forgotten
        /\ CleanedUp
-----------------------------------------------------------------------------
USE RemediationAssumption
USE DEF At, trees, repo, images, history, Incident, Operator, Editing, Unmerged, Merged, Deploying

(* The forms of the steps.  Keeps: the incident at hand stays; Resting and *)
(* Done: its handling ends with this outcome.                              *)
Keeps == /\ DOMAIN pipe' = DOMAIN Rest /\ pipe'.inc = pipe.inc /\ pipe'.level = pipe.level
         /\ outcome' = outcome

Resting == /\ pipe'.pc = "idle" /\ DOMAIN pipe' = DOMAIN Rest /\ pipe'.inc \in Incident
           /\ pipe'.base = <<>> /\ pipe'.version = <<>>

Done(how) == /\ outcome'[pipe.inc] = how
             /\ \A i \in Incident \ {pipe.inc} : outcome'[i] = outcome[i]
             /\ outcome' \in [Incident -> Outcome]

(* Before the deployment only the variables of _handle change ...          *)
Thinks == /\ Keeps /\ UNCHANGED <<repo, images, history>>
          /\ pipe.pc \notin {"idle"} \cup Deploying
          /\ pipe'.pc \in {"decide", "decline"} \cup Editing
          /\ pipe'.pc \in Editing => pipe.level >= 1
          /\ pipe'.version = pipe.version
          /\ pipe'.base = pipe.base \/ (pipe'.base = head /\ pipe.pc = "base")

(* ... from then on branches and fixes do not.                             *)
Advances ==
    /\ Keeps /\ pipe'.base = pipe.base
    /\ pipe'.version = pipe.version \/ pipe'.version = head'
    /\ DOMAIN rollback' = Incident /\ UNCHANGED <<edited, branch, trees, history>>
    /\ \/ pipe.pc = "check" /\ pipe'.pc = "tag" /\ UNCHANGED <<head, images>>
       \/ /\ pipe.pc = "tag" /\ pipe'.pc = "merge" /\ rollback'[pipe.inc] = local
          /\ \A i \in Incident \ {pipe.inc} : rollback'[i] = rollback[i]
          /\ UNCHANGED <<head, local, running>>
       \/ /\ pipe.pc = "merge" /\ pipe'.pc = "build" /\ UNCHANGED images
          /\ head' = branch[pipe.inc] \/ (head' = head /\ IsPrefix(branch[pipe.inc], head))
       \/ /\ pipe.pc = "build" /\ pipe'.pc = "up" /\ local' = Image(pipe.version)
          /\ UNCHANGED <<head, rollback, running>>
       \/ /\ pipe.pc = "up" /\ pipe'.pc = "verify" /\ running' = local
          /\ UNCHANGED <<head, rollback, local>>
       \/ pipe.pc = "verify" /\ pipe'.pc = "rollback" /\ UNCHANGED <<head, images>>
       \/ /\ pipe.pc = "rollback" /\ pipe'.pc = "reset" /\ running' = rollback[pipe.inc]
          /\ UNCHANGED <<head, rollback, local>>

(* Its worktree is removed, or git fails to: those of others stay.         *)
Removes ==
    /\ worktrees' \subseteq worktrees /\ stuck' \subseteq worktrees'
    /\ \A i \in Incident \ {pipe.inc} : /\ i \in worktrees' <=> i \in worktrees
                                       /\ i \in stuck' <=> i \in stuck

(* The handling ends.                                                      *)
Stops == /\ pipe.pc # "idle" /\ Resting
         /\ \E how \in Outcome \ {"none"} :
               /\ Done(how)
               /\ how = "crashed" \/ pipe.inc \notin worktrees' \/ pipe.inc \in stuck'
         /\ Removes /\ DOMAIN branch' = Incident
         /\ \A i \in Incident : branch'[i] = branch[i] \/ (i = pipe.inc /\ branch'[i] = NoBranch)
         /\ \/ undone' = undone /\ head' = head
            \/ /\ pipe.pc = "reset" /\ undone' = undone \cup {pipe.inc}
               /\ head' = pipe.base /\ branch' = branch
         /\ \/ running' = running \/ running' = local
            \/ running' = rollback[pipe.inc] /\ pipe.pc = "rollback"
         /\ UNCHANGED <<edited, local, rollback, fix, committed>>

(* An incident is begun.                                                   *)
Begins(i) == /\ pipe.pc = "idle" /\ outcome[i] = "none"
             /\ \A j \in 1..(i - 1) : outcome[j] # "none"
             /\ DOMAIN pipe' = DOMAIN Rest /\ pipe'.pc = "base" /\ pipe'.inc = i
             /\ pipe'.base = <<>> /\ pipe'.version = <<>>
             /\ DOMAIN branch' = Incident
             /\ branch'[i] = head \/ (branch'[i] = branch[i] /\ ~(pipe'.level >= 1))
             /\ \A j \in Incident \ {i} : branch'[j] = branch[j]
             /\ worktrees' = worktrees \/ worktrees' = worktrees \cup {i}
             /\ UNCHANGED <<head, edited, stuck, images, outcome, history>>

(* A fix is committed, or that fails.                                      *)
Delivers == /\ pipe.pc = "gate" /\ pipe.inc \notin ToSet(branch[pipe.inc])
            /\ Clean(branch[pipe.inc])
            /\ DOMAIN branch' = Incident /\ DOMAIN fix' = Incident
            /\ \A i \in Incident \ {pipe.inc} : branch'[i] = branch[i] /\ fix'[i] = fix[i]
            /\ \/ /\ branch'[pipe.inc] = Append(branch[pipe.inc], pipe.inc)
                  /\ fix'[pipe.inc] # NoFix
                  /\ \A i \in Incident : i = pipe.inc /\ pipe.level >= 2 => Gated(i)'
               \/ branch'[pipe.inc] = branch[pipe.inc] /\ fix'[pipe.inc] = fix[pipe.inc]
            /\ Removes /\ (pipe.inc \notin worktrees' \/ pipe.inc \in stuck')
            /\ \/ /\ Keeps /\ pipe.level >= 2 /\ pipe'.pc = "check"
                  /\ pipe'.base = pipe.base /\ pipe'.version = pipe.version
               \/ Resting /\ Done("escalated")
            /\ UNCHANGED <<head, edited, images, undone, committed>>

(* What Goto does to the variables of _handle ...                          *)
LEMMA GotoDoes ==
    ASSUME Shape, NEW pc, Goto(pc), outcome' = outcome
    PROVE  /\ Keeps /\ pipe'.pc = pc
           /\ pipe'.base = pipe.base /\ pipe'.version = pipe.version /\ pipe'.run = pipe.run
           /\ pipe'.passed = pipe.passed /\ pipe'.fails_before = pipe.fails_before
BY DEF Shape, Goto, Keeps, Rest

(* ... End to them and to the outcomes ...                                 *)
LEMMA EndDoes ==
    ASSUME Shape, NEW how \in Outcome, End(how)
    PROVE  Resting /\ Done(how)
<1>1. Resting
  BY DEF End, Resting, Rest, Dev
<1>2. Done(how)
  BY DEF Shape, End, Done, Outcome
<1> QED
  BY <1>1, <1>2

(* ... and Cleanup to worktrees and branches.                              *)
LEMMA RemoveDoes ==
    ASSUME Shape, RemoveWorktree
    PROVE  Removes /\ (pipe.inc \notin worktrees' \/ pipe.inc \in stuck')
BY DEF Shape, RemoveWorktree, Removes

LEMMA CleanupDoes ==
    ASSUME Shape, NEW keep \in BOOLEAN, Cleanup(keep)
    PROVE  /\ Removes /\ (pipe.inc \notin worktrees' \/ pipe.inc \in stuck')
           /\ DOMAIN branch' = Incident
           /\ \A i \in Incident : branch'[i] = branch[i]
                                  \/ (i = pipe.inc /\ branch'[i] = NoBranch)
<1>1. DOMAIN branch' = Incident
      /\ \A i \in Incident : branch'[i] = branch[i] \/ (i = pipe.inc /\ branch'[i] = NoBranch)
  BY DEF Shape, Cleanup
<1> QED
  BY <1>1, RemoveDoes DEF Cleanup

-----------------------------------------------------------------------------
(* A patch that passes the gate is in policy, and its suite passed.        *)
LEMMA AllowedInPolicy ==
    ASSUME NEW run \in Run, NEW passed, Allowed(GatePatch(run, passed))
    PROVE  InPolicy(run) /\ passed
<1> DEFINE checks == GatePatch(run, passed)
<1>1. DOMAIN checks = {"classification", "proposed_action", "confidence", "diff_not_empty",
                       "paths", "max_files", "max_lines", "regression_test", "tests_pass"}
  BY DEF GatePatch
<1>2. \A c \in DOMAIN checks : checks[c]
  BY DEF Allowed
<1>3. /\ checks["classification"] /\ checks["proposed_action"] /\ checks["confidence"]
      /\ checks["diff_not_empty"] /\ checks["paths"] /\ checks["max_files"]
      /\ checks["max_lines"] /\ checks["regression_test"] /\ checks["tests_pass"]
  BY <1>1, <1>2
<1>4. /\ run.classification = "real_incident" /\ run.action = "patch"
      /\ run.confidence >= 70 /\ run.files # {} /\ Cardinality(run.files) <= 4
      /\ run.lines <= 80 /\ \E f \in run.files : f.area = "tests"
      /\ \A f \in run.files : f.area \in {"app", "tests"}
      /\ passed
  BY <1>3 DEF GatePatch, Guards
<1>5. Cardinality(run.files) \in 1..4
  <2>1. IsFiniteSet(run.files)
    OBVIOUS
  <2>2. Cardinality(run.files) \in Nat /\ Cardinality(run.files) # 0
    BY <1>4, <2>1, FS_CardinalityType, FS_EmptySet
  <2> QED
    BY <1>4, <2>2
<1> QED
  BY <1>4, <1>5 DEF InPolicy

(* NoFix is not gated, and the fix at hand is none before the deployment.  *)
LEMMA NoFixIsUngated ==
    ASSUME NEW i \in Incident, fix[i] = NoFix
    PROVE  ~Gated(i)
BY DEF NoFix, Gated

-----------------------------------------------------------------------------
(* The steps of _handle up to the gate, as long as it goes on.             *)
LEMMA ThinkSteps ==
    ASSUME IInv, \/ ReadBase \/ RunSuite \/ RemoveFix \/ RunSuiteBefore \/ ReapplyFix
                 \/ \E run \in Run : Reason(run)
                 \/ EarlyGate /\ Allowed(GatePatch(pipe.run, TRUE))
    PROVE  Thinks
<1> USE DEF Thinks, Keeps, Shape, Lines, Rest
<1>1. Shape /\ Lines
  BY DEF IInv
<1>2. CASE ReadBase
  BY <1>1, <1>2 DEF ReadBase
<1>3. CASE RunSuite
  BY <1>1, <1>3 DEF RunSuite
<1>4. CASE RemoveFix
  BY <1>1, <1>4 DEF RemoveFix
<1>5. CASE RunSuiteBefore
  BY <1>1, <1>5 DEF RunSuiteBefore
<1>6. CASE ReapplyFix
  BY <1>1, <1>6 DEF ReapplyFix
<1>7. CASE \E run \in Run : Reason(run)
  BY <1>1, <1>7 DEF Reason
<1>8. CASE EarlyGate /\ Allowed(GatePatch(pipe.run, TRUE))
  BY <1>1, <1>8, GotoDoes DEF EarlyGate
<1> QED
  BY <1>2, <1>3, <1>4, <1>5, <1>6, <1>7, <1>8

(* The first step of _handle, at any level.                                *)
LEMMA BeginSteps ==
    ASSUME IInv, NEW i \in Incident, NEW level, Begin(i, level)
    PROVE  Begins(i)
<1>1. Shape
  BY DEF IInv
<1>2. /\ DOMAIN pipe' = DOMAIN Rest /\ pipe'.pc = "base" /\ pipe'.inc = i
      /\ pipe'.base = <<>> /\ pipe'.version = <<>> /\ pipe'.level = level
  BY DEF Begin, Rest, Dev
<1>3. CASE level >= 1
  BY <1>1, <1>2, <1>3 DEF Begin, Begins, Shape
<1>4. CASE ~(level >= 1)
  BY <1>1, <1>2, <1>4 DEF Begin, Begins, Shape
<1> QED
  BY <1>3, <1>4

(* The handling of an incident ends with a cleanup ...                     *)
LEMMA EndWithCleanup ==
    ASSUME IInv, ~At("idle"), NEW how \in Outcome \ {"none"}, End(how),
           NEW keep \in BOOLEAN, Cleanup(keep), UNCHANGED <<head, edited, images, history>>
    PROVE  Stops
<1>1. Shape
  BY DEF IInv
<1>2. Resting /\ Done(how)
  BY <1>1, EndDoes
<1> QED
  BY <1>1, <1>2, CleanupDoes DEF Stops

(* ... or in the deployment, when there is no worktree any more.           *)
LEMMA EndInDeployment ==
    ASSUME IInv, pipe.pc \in Deploying, NEW how \in Outcome \ {"none"}, End(how),
           \/ undone' = undone /\ head' = head
           \/ pipe.pc = "reset" /\ undone' = undone \cup {pipe.inc} /\ head' = pipe.base,
           \/ running' = running \/ running' = local
           \/ running' = rollback[pipe.inc] /\ pipe.pc = "rollback",
           UNCHANGED <<edited, branch, trees, local, rollback, fix, committed>>
    PROVE  Stops
<1>1. Shape /\ (pipe.inc \notin worktrees \/ pipe.inc \in stuck)
  BY DEF IInv, CleanedUp
<1>2. Resting /\ Done(how)
  BY <1>1, EndDoes
<1> QED
  BY <1>1, <1>2 DEF Stops, Removes, Shape

(* The steps that end it outside of the runbooks.                          *)
LEMMA StopSteps ==
    ASSUME IInv, \/ Decline \/ Reject \/ Raise \/ RaiseAgain \/ Crash
                 \/ EarlyGate /\ ~Allowed(GatePatch(pipe.run, TRUE))
    PROVE  Stops
<1> USE DEF Outcome
<1>1. CASE Decline
  BY <1>1, EndWithCleanup DEF Decline
<1>2. CASE Reject
  BY <1>2, EndWithCleanup DEF Reject
<1>3. CASE Raise
  BY <1>3, EndWithCleanup DEF Raise
<1>4. CASE EarlyGate /\ ~Allowed(GatePatch(pipe.run, TRUE))
  BY <1>4, EndWithCleanup DEF EarlyGate
<1>5. CASE RaiseAgain \/ Crash
  <2>1. Shape
    BY DEF IInv
  <2>2. Resting /\ Done("crashed")
    BY <1>5, <2>1, EndDoes DEF RaiseAgain, Crash
  <2>3. Removes
    BY <1>5, <2>1, RemoveDoes DEF RaiseAgain, Crash, Removes, Shape
  <2> QED
    BY <1>5, <2>1, <2>2, <2>3 DEF RaiseAgain, Crash, Stops, Shape
<1> QED
  BY <1>1, <1>2, <1>3, <1>4, <1>5

(* A command of a runbook succeeds, or ends it.                            *)
LEMMA RunbookSteps ==
    ASSUME IInv, Runbooks
    PROVE  Advances \/ Stops
<1> USE DEF Outcome
<1>s. Shape
  BY DEF IInv
<1>1. CASE CheckClean
  BY <1>s, <1>1, GotoDoes, EndInDeployment DEF CheckClean, Advances, Shape
<1>2. CASE Tag
  BY <1>s, <1>2, GotoDoes DEF Tag, Advances, Shape
<1>3. CASE Merge
  <2>1. CASE /\ head' = IF IsPrefix(branch[pipe.inc], head) THEN head ELSE branch[pipe.inc]
             /\ pipe' = [pipe EXCEPT !.pc = "build", !.version = head'] /\ outcome' = outcome
    <3>1. /\ Keeps /\ pipe'.pc = "build" /\ pipe'.version = head' /\ pipe'.base = pipe.base
      BY <1>s, <2>1 DEF Keeps, Shape, Rest
    <3>2. /\ pipe.pc = "merge" /\ UNCHANGED <<edited, branch, trees, images, history>>
          /\ head' = branch[pipe.inc] \/ (head' = head /\ IsPrefix(branch[pipe.inc], head))
      BY <1>3, <2>1 DEF Merge
    <3> QED
      BY <1>s, <3>1, <3>2 DEF Advances, Shape
  <2>2. CASE End("escalated") /\ UNCHANGED head
    BY <1>3, <2>2, EndInDeployment DEF Merge
  <2> QED
    BY <1>3, <2>1, <2>2 DEF Merge
<1>4. CASE Build
  BY <1>s, <1>4, GotoDoes DEF Build, Advances, Shape
<1>5. CASE Up
  BY <1>s, <1>5, GotoDoes, EndInDeployment DEF Up, Advances, Shape
<1>6. CASE CommandFails
  BY <1>6, EndInDeployment DEF CommandFails
<1>7. CASE Verify
  BY <1>s, <1>7, GotoDoes, EndInDeployment DEF Verify, Advances, Shape
<1>8. CASE RollbackUp
  BY <1>s, <1>8, GotoDoes, EndInDeployment DEF RollbackUp, Advances, Shape
<1>9. CASE Reset
  BY <1>9, EndInDeployment DEF Reset
<1> QED
  BY <1>1, <1>2, <1>3, <1>4, <1>5, <1>6, <1>7, <1>8, <1>9 DEF Runbooks

(* What the gate lets through is gated, if the level allows to deploy it.  *)
LEMMA DeliverSteps ==
    ASSUME IInv, NEW succeeds \in BOOLEAN, CommitFix(succeeds)
    PROVE  Delivers
<1>1. Shape /\ Lines /\ InOrder /\ Checked /\ OnlyGated
  BY DEF IInv
<1>2. pipe.pc = "gate" /\ pipe.inc \in Incident
  BY <1>1 DEF CommitFix, Shape
<1>3. fix[pipe.inc] = NoFix /\ Clean(branch[pipe.inc])
  BY <1>1, <1>2 DEF InOrder, Lines
<1>4. pipe.inc \notin ToSet(branch[pipe.inc])
  BY <1>1, <1>2, <1>3, NoFixIsUngated DEF OnlyGated
<1>5. /\ DOMAIN branch' = Incident /\ DOMAIN fix' = Incident
      /\ \A i \in Incident \ {pipe.inc} : branch'[i] = branch[i] /\ fix'[i] = fix[i]
  BY <1>1 DEF CommitFix, Shape
<1>6. ASSUME succeeds
      PROVE  /\ branch'[pipe.inc] = Append(branch[pipe.inc], pipe.inc)
             /\ fix'[pipe.inc] # NoFix
             /\ \A i \in Incident : i = pipe.inc /\ pipe.level >= 2 => Gated(i)'
  <2>1. /\ branch'[pipe.inc] = Append(branch[pipe.inc], pipe.inc)
        /\ fix'[pipe.inc] = [level |-> pipe.level, run |-> pipe.run,
                             tree |-> pipe.tree, sure |-> pipe.fails_before]
    BY <1>1, <1>2, <1>6 DEF CommitFix, Shape
  <2>2. /\ pipe.level >= 1 /\ pipe.fails_before /\ InPolicy(pipe.run) /\ pipe.run.passes
        /\ \A loaded \in pipe.run.reported : loaded = {}
    <3>1. GatePasses /\ pipe.run \in Run
      BY <1>1, <1>2 DEF CommitFix, Checked
    <3>2. InPolicy(pipe.run) /\ pipe.passed
      BY <3>1, AllowedInPolicy DEF GatePasses
    <3>3. pipe.passed = pipe.run.passes
      BY <1>1, <1>2 DEF Checked
    <3>4. pipe.level >= 1 /\ pipe.fails_before
      BY <3>1 DEF GatePasses, ActionAllowed, MinLevel
    <3>5. \A loaded \in pipe.run.reported : loaded = {}
      BY <3>1 DEF GatePasses, ExtensionSurfaceOk, Surface
    <3> QED
      BY <3>2, <3>3, <3>4, <3>5
  <2>3. fix'[pipe.inc] # NoFix
    BY <2>1, <2>2 DEF NoFix
  <2>4. ASSUME NEW i \in Incident, i = pipe.inc, pipe.level >= 2
        PROVE  Gated(i)'
    BY <2>1, <2>2, <2>4 DEF Gated
  <2> QED
    BY <2>1, <2>3, <2>4
<1>7. \/ /\ branch'[pipe.inc] = Append(branch[pipe.inc], pipe.inc)
         /\ fix'[pipe.inc] # NoFix
         /\ \A i \in Incident : i = pipe.inc /\ pipe.level >= 2 => Gated(i)'
      \/ branch'[pipe.inc] = branch[pipe.inc] /\ fix'[pipe.inc] = fix[pipe.inc]
  BY <1>6 DEF CommitFix
<1>8. /\ Removes /\ (pipe.inc \notin worktrees' \/ pipe.inc \in stuck')
      /\ UNCHANGED <<head, edited, images, undone, committed>>
      /\ \/ /\ Keeps /\ pipe.level >= 2 /\ pipe'.pc = "check"
            /\ pipe'.base = pipe.base /\ pipe'.version = pipe.version
         \/ Resting /\ Done("escalated")
  BY <1>1, GotoDoes, EndDoes, RemoveDoes DEF CommitFix, ActionAllowed, MinLevel, Outcome
<1> QED
  BY <1>2, <1>3, <1>4, <1>5, <1>7, <1>8 DEF Delivers

(* What the operator does.                                                 *)
Others == Edit \/ Deploy \/ \E c \in Operator : Commit(c)

(* Every step has one of the forms.                                        *)
LEMMA StepForms ==
    ASSUME IInv, [MNext]_mvars
    PROVE  \/ Thinks \/ Delivers \/ Stops \/ Advances \/ Others
           \/ \E i \in Incident : Begins(i) \/ NeverBegins(i)
           \/ UNCHANGED mvars
<1>1. CASE \E i \in Incident, default \in 0..2, labels \in SUBSET {"test", "info"} :
             Begin(i, EffectiveLevel(default, labels))
  BY <1>1, BeginSteps
<1>2. CASE \E succeeds \in BOOLEAN : CommitFix(succeeds)
  BY <1>2, DeliverSteps
<1>3. CASE Runbooks
  BY <1>3, RunbookSteps
<1>4. CASE EarlyGate
  BY <1>4, ThinkSteps, StopSteps
<1> QED
  BY <1>1, <1>2, <1>3, <1>4, ThinkSteps, StopSteps DEF MNext, Pipeline, Others

-----------------------------------------------------------------------------
(* The variables keep their domains.                                       *)
LEMMA ShapeStep == ASSUME IInv, [MNext]_mvars PROVE Shape'
<1> USE DEF Outcome, Shape
<1>s. Shape
  BY DEF IInv
<1>1. CASE Thinks
  BY <1>s, <1>1 DEF Thinks, Keeps
<1>2. CASE Delivers
  BY <1>s, <1>2 DEF Delivers, Removes, Keeps, Resting, Done
<1>3. CASE Stops
  BY <1>s, <1>3 DEF Stops, Removes, Resting, Done
<1>4. CASE Advances
  BY <1>s, <1>4 DEF Advances, Keeps
<1>5. CASE Others
  BY <1>s, <1>5 DEF Others, Edit, Deploy, Commit
<1>6. CASE \E i \in Incident : Begins(i)
  BY <1>s, <1>6 DEF Begins
<1>7. CASE \E i \in Incident : NeverBegins(i)
  BY <1>s, <1>7 DEF NeverBegins
<1>8. CASE UNCHANGED mvars
  BY <1>s, <1>8 DEF mvars
<1> QED
  BY <1>1, <1>2, <1>3, <1>4, <1>5, <1>6, <1>7, <1>8, StepForms

(* Incidents are begun in their order, and fixes made in the end.          *)
LEMMA InOrderStep == ASSUME IInv, [MNext]_mvars PROVE InOrder'
<1> USE DEF InOrder
<1>s. Shape /\ InOrder
  BY DEF IInv
<1>1. CASE Thinks
  BY <1>s, <1>1 DEF Thinks, Keeps
<1>2. CASE Delivers
  BY <1>s, <1>2 DEF Delivers, Keeps, Resting, Done, Shape
<1>3. CASE Stops
  <2>1. PICK how \in Outcome \ {"none"} : Done(how)
    BY <1>3 DEF Stops
  <2>2. outcome'[pipe.inc] # "none" /\ pipe'.pc = "idle" /\ pipe.inc \in Incident
    BY <1>s, <1>3, <2>1 DEF Done, Stops, Resting, Shape
  <2>3. /\ outcome[pipe.inc] = "none"
        /\ \A j \in 1..(pipe.inc - 1) : outcome[j] # "none"
        /\ \A i \in Incident \ {pipe.inc} : outcome'[i] = outcome[i]
    BY <1>s, <1>3, <2>1 DEF Done, Stops
  <2>4. \A i \in Incident : outcome'[i] # "none" => \A j \in 1..(i - 1) : outcome'[j] # "none"
    BY <1>s, <2>2, <2>3
  <2> QED
    BY <1>s, <1>3, <2>2, <2>3, <2>4 DEF Stops
<1>4. CASE Advances
  BY <1>s, <1>4 DEF Advances, Keeps
<1>5. CASE Others
  BY <1>s, <1>5 DEF Others, Edit, Deploy, Commit
<1>6. CASE \E i \in Incident : Begins(i)
  BY <1>s, <1>6 DEF Begins, Shape
<1>7. CASE \E i \in Incident : NeverBegins(i)
  BY <1>s, <1>7 DEF NeverBegins, Shape
<1>8. CASE UNCHANGED mvars
  BY <1>s, <1>8 DEF mvars
<1> QED
  BY <1>1, <1>2, <1>3, <1>4, <1>5, <1>6, <1>7, <1>8, StepForms

(* Only a run in policy gets past the early gate.                          *)
LEMMA CheckedStep == ASSUME IInv, [MNext]_mvars PROVE Checked'
<1> USE DEF Checked
<1>s. Shape /\ Checked
  BY DEF IInv
<1>1. CASE ReadBase \/ RemoveFix \/ RunSuiteBefore \/ ReapplyFix
  BY <1>s, <1>1 DEF ReadBase, RemoveFix, RunSuiteBefore, ReapplyFix, Shape, Rest
<1>2. CASE \E run \in Run : Reason(run)
  BY <1>s, <1>2 DEF Reason, Shape, Rest
<1>3. CASE RunSuite
  BY <1>s, <1>3 DEF RunSuite, Shape, Rest
<1>4. CASE EarlyGate
  <2>1. CASE Allowed(GatePatch(pipe.run, TRUE))
    BY <1>s, <1>4, <2>1, AllowedInPolicy, GotoDoes DEF EarlyGate
  <2>2. CASE ~Allowed(GatePatch(pipe.run, TRUE))
    BY <1>s, <1>4, <2>2, EndDoes DEF EarlyGate, Resting, Outcome
  <2> QED
    BY <2>1, <2>2
<1>5. CASE pipe'.pc \notin Editing
  BY <1>5
<1>6. CASE UNCHANGED pipe
  BY <1>s, <1>6
<1>7. CASE Delivers
  BY <1>5, <1>7 DEF Delivers, Resting
<1>8. CASE Stops
  BY <1>5, <1>8 DEF Stops, Resting
<1>9. CASE Advances
  BY <1>5, <1>9 DEF Advances
<1>10. CASE Others
  BY <1>6, <1>10 DEF Others, Edit, Deploy, Commit
<1>11. CASE \E i \in Incident : Begins(i)
  BY <1>5, <1>11 DEF Begins
<1>12. CASE (\E i \in Incident : NeverBegins(i)) \/ UNCHANGED mvars
  BY <1>6, <1>12 DEF NeverBegins, mvars
<1>13. CASE \E i \in Incident, default \in 0..2, labels \in SUBSET {"test", "info"} :
              Begin(i, EffectiveLevel(default, labels))
  BY <1>11, <1>13, BeginSteps
<1>14. CASE \E succeeds \in BOOLEAN : CommitFix(succeeds)
  BY <1>7, <1>14, DeliverSteps
<1>15. CASE Runbooks
  BY <1>8, <1>9, <1>15, RunbookSteps
<1> QED
  BY <1>1, <1>2, <1>3, <1>4, <1>8, <1>10, <1>12, <1>13, <1>14, <1>15, StopSteps
  DEF MNext, Pipeline, Others

(* Worktrees are taken away before the deployment or at the end.           *)
LEMMA CleanedUpStep == ASSUME IInv, [MNext]_mvars PROVE CleanedUp'
<1> USE DEF CleanedUp, NoWorktreeLeft
<1>s. Shape /\ InOrder /\ CleanedUp
  BY DEF IInv
<1>1. CASE Thinks
  BY <1>s, <1>1 DEF Thinks, Keeps
<1>2. CASE Delivers
  BY <1>s, <1>2 DEF Delivers, Removes, Keeps, Resting, Done, Shape
<1>3. CASE Stops
  BY <1>s, <1>3 DEF Stops, Removes, Resting, Done, Shape
<1>4. CASE Advances
  BY <1>s, <1>4 DEF Advances, Keeps
<1>5. CASE Others
  BY <1>s, <1>5 DEF Others, Edit, Deploy, Commit
<1>6. CASE \E i \in Incident : Begins(i)
  BY <1>s, <1>6 DEF Begins, Shape
<1>7. CASE \E i \in Incident : NeverBegins(i)
  BY <1>s, <1>7 DEF NeverBegins, Shape
<1>8. CASE UNCHANGED mvars
  BY <1>s, <1>8 DEF mvars
<1> QED
  BY <1>1, <1>2, <1>3, <1>4, <1>5, <1>6, <1>7, <1>8, StepForms

(* No line gets a commit twice, and images are built from lines.           *)
LEMMA LinesStep == ASSUME IInv, [MNext]_mvars PROVE Lines'
<1> USE DEF Lines, Built, Clean
<1>s. Shape /\ Lines
  BY DEF IInv
<1>e. IsInjective(<<>>) /\ <<>> \in Commits /\ ToSet(<<>>) = {}
  BY EmptyLine
<1>1. CASE Thinks
  BY <1>s, <1>1 DEF Thinks, Keeps
<1>2. CASE Delivers
  <2>1. ASSUME NEW i \in Incident, i = pipe.inc PROVE Clean(branch[i])'
    <3>1. pipe.inc \in Incident /\ branch[pipe.inc] \in Commits
      BY <1>s, <1>2 DEF Shape, Delivers
    <3>2. /\ Append(branch[pipe.inc], pipe.inc) \in Commits
          /\ IsInjective(Append(branch[pipe.inc], pipe.inc))
          /\ ToSet(Append(branch[pipe.inc], pipe.inc)) = ToSet(branch[pipe.inc]) \cup {pipe.inc}
      BY <1>2, <3>1, LineAppend DEF Delivers, Commits
    <3>3. pipe.inc \notin Operator /\ committed' = committed
      BY <1>2, <3>1 DEF Delivers
    <3>4. CASE branch'[i] = Append(branch[pipe.inc], pipe.inc)
      BY <1>2, <3>2, <3>3, <3>4 DEF Delivers
    <3>5. CASE branch'[i] = branch[i]
      BY <1>2, <2>1, <3>3, <3>5 DEF Delivers
    <3> QED
      BY <1>2, <2>1, <3>4, <3>5 DEF Delivers
  <2> QED
    BY <1>s, <1>e, <1>2, <2>1 DEF Delivers, Keeps, Resting, Shape
<1>3. CASE Stops
  BY <1>s, <1>e, <1>3 DEF Stops, Resting, Shape
<1>4. CASE Advances
  BY <1>s, <1>4 DEF Advances, Keeps, Image, Shape
<1>5. CASE Edit \/ Deploy
  BY <1>s, <1>e, <1>5 DEF Edit, Deploy, Image, Dev, Shape
<1>6. ASSUME NEW c \in Operator, Commit(c) PROVE Lines'
  <2>1. c \notin ToSet(head)
    BY <1>s, <1>6 DEF Commit
  <2>2. /\ head' \in Commits /\ IsInjective(head') /\ ToSet(head') = ToSet(head) \cup {c}
    <3>1. head \in Seq(Incident \cup Operator) /\ IsInjective(head) /\ c \in Incident \cup Operator
      BY <1>s DEF Commits
    <3>2. head' = Append(head, c)
      BY <1>6 DEF Commit
    <3> QED
      BY <2>1, <3>1, <3>2, LineAppend DEF Commits
  <2>3. committed' = committed \cup {c} /\ UNCHANGED <<branch, worktrees, images, pipe>>
    BY <1>6 DEF Commit
  <2> QED
    BY <1>s, <2>2, <2>3
<1>7. CASE \E i \in Incident : Begins(i)
  BY <1>s, <1>e, <1>7 DEF Begins, Shape
<1>8. CASE \E i \in Incident : NeverBegins(i)
  BY <1>s, <1>8 DEF NeverBegins, Shape
<1>9. CASE UNCHANGED mvars
  BY <1>s, <1>9 DEF mvars
<1> QED
  BY <1>1, <1>2, <1>3, <1>4, <1>5, <1>6, <1>7, <1>8, <1>9, StepForms DEF Others

(* A fix goes from its branch to the branch, the image, the app.           *)
LEMMA OnItsWayStep == ASSUME IInv, [MNext]_mvars PROVE OnItsWay'
<1> USE DEF OnItsWay
<1>s. Shape /\ Lines /\ InOrder /\ OnlyGated /\ OnItsWay
  BY DEF IInv
<1>1. CASE Thinks
  BY <1>s, <1>1 DEF Thinks, Keeps
<1>2. CASE Delivers
  <2>1. ToSet(Append(branch[pipe.inc], pipe.inc)) = ToSet(branch[pipe.inc]) \cup {pipe.inc}
    <3>1. /\ pipe.inc \in Incident \cup Operator
          /\ branch[pipe.inc] \in Seq(Incident \cup Operator)
      BY <1>s, <1>2 DEF Shape, Delivers, Clean, Commits
    <3> QED
      BY <3>1, LineAppend
  <2>2. fix[pipe.inc] = NoFix
    BY <1>s, <1>2 DEF Delivers, InOrder, Shape
  <2> QED
    BY <1>s, <1>2, <2>1, <2>2 DEF Delivers, Keeps, Resting, Shape
<1>3. CASE Stops
  BY <1>s, <1>3 DEF Stops, Resting
<1>4. CASE Advances
  <2>1. ASSUME pipe.pc = "merge", fix[pipe.inc] # NoFix PROVE pipe.inc \in ToSet(head')
    <3>1. /\ branch[pipe.inc] \in Seq(Incident \cup Operator)
          /\ head \in Seq(Incident \cup Operator)
      BY <1>s, <2>1 DEF Lines, Clean, Commits
    <3> QED
      BY <1>s, <1>4, <2>1, <3>1, LinePrefix DEF Advances
  <2> QED
    BY <1>s, <1>4, <2>1 DEF Advances, Keeps, Image
<1>5. CASE Edit \/ Deploy
  BY <1>s, <1>5 DEF Edit, Deploy, Image
<1>6. ASSUME NEW c \in Operator, Commit(c) PROVE OnItsWay'
  <2>1. ToSet(head') = ToSet(head) \cup {c}
    <3>1. head \in Seq(Incident \cup Operator) /\ c \in Incident \cup Operator
      BY <1>s DEF Lines, Clean, Commits
    <3> QED
      BY <1>6, <3>1, LineAppend DEF Commit
  <2> QED
    BY <1>s, <1>6, <2>1 DEF Commit
<1>7. CASE \E i \in Incident : Begins(i)
  BY <1>s, <1>7 DEF Begins
<1>8. CASE \E i \in Incident : NeverBegins(i)
  BY <1>s, <1>8 DEF NeverBegins
<1>9. CASE UNCHANGED mvars
  BY <1>s, <1>9 DEF mvars
<1> QED
  BY <1>1, <1>2, <1>3, <1>4, <1>5, <1>6, <1>7, <1>8, <1>9, StepForms DEF Others

(* What is rolled back was not there when the incident was begun.          *)
LEMMA ForgottenStep == ASSUME IInv, [MNext]_mvars PROVE Forgotten'
<1> USE DEF Forgotten, RolledBackLeavesBranch
<1>s. Shape /\ Lines /\ InOrder /\ OnlyGated /\ OnItsWay /\ Forgotten
  BY DEF IInv
<1>e. ToSet(<<>>) = {} /\ ToSet(NoBranch) = {0}
  BY EmptyLine
<1>1. CASE Thinks
  <2>1. ASSUME pipe.pc = "base" PROVE pipe.inc \notin ToSet(head)
    <3>1. fix[pipe.inc] = NoFix
      BY <1>s, <2>1 DEF Shape, InOrder
    <3> QED
      BY <1>s, <3>1, NoFixIsUngated DEF Shape, OnlyGated
  <2> QED
    BY <1>s, <1>1, <2>1 DEF Thinks, Keeps
<1>2. CASE Delivers
  <2>1. ToSet(Append(branch[pipe.inc], pipe.inc)) = ToSet(branch[pipe.inc]) \cup {pipe.inc}
    <3>1. /\ pipe.inc \in Incident \cup Operator
          /\ branch[pipe.inc] \in Seq(Incident \cup Operator)
      BY <1>s, <1>2 DEF Shape, Delivers, Clean, Commits
    <3> QED
      BY <3>1, LineAppend
  <2>2. \A j \in Incident : ToSet(branch'[j]) \subseteq ToSet(branch[j]) \cup {pipe.inc}
    BY <1>2, <2>1 DEF Delivers
  <2>3. /\ undone' = undone
        /\ \A i \in undone : i # pipe.inc /\ outcome'[i] = outcome[i]
    BY <1>s, <1>2 DEF Delivers, Keeps, Done, InOrder, Shape
  <2>4. head' = head /\ (pipe'.pc = "idle" \/ pipe'.inc = pipe.inc)
        /\ (pipe'.base = pipe.base \/ pipe'.base = <<>>) /\ pipe.pc # "idle"
    BY <1>2 DEF Delivers, Keeps, Resting
  <2>5. \A i \in Incident \ {pipe.inc} : branch'[i] = branch[i] /\ fix'[i] = fix[i]
    BY <1>2 DEF Delivers
  <2>6. RolledBackLeavesBranch'
    BY <1>s, <2>2, <2>3, <2>4, <2>5 DEF Shape
  <2>7. \A i, j \in Incident : j < i => i \notin ToSet(branch'[j])
    <3>1. \A j \in Incident : j # pipe.inc => branch'[j] = branch[j]
      BY <2>5
    <3> QED
      BY <1>s, <2>2, <3>1
  <2>8. /\ pipe'.pc # "idle" => pipe'.inc \notin ToSet(pipe'.base)
        /\ \A i \in undone' : outcome'[i] # "none" /\ i \notin ToSet(pipe'.base)
    <3>1. pipe'.pc # "idle" => pipe'.inc = pipe.inc /\ pipe'.base = pipe.base
      BY <1>2 DEF Delivers, Keeps, Resting
    <3> QED
      BY <1>s, <1>e, <2>3, <2>4, <3>1
  <2> QED
    BY <2>6, <2>7, <2>8
<1>3. CASE Stops
  <2>1. /\ pipe'.pc = "idle" /\ ToSet(pipe'.base) = {} /\ pipe.pc # "idle"
        /\ fix' = fix /\ pipe.inc \in Incident
    BY <1>s, <1>e, <1>3 DEF Stops, Resting, Shape
  <2>2. \A i, j \in Incident : i \in ToSet(branch'[j]) => i \in ToSet(branch[j])
    BY <1>e, <1>3 DEF Stops
  <2>3. /\ outcome'[pipe.inc] # "none"
        /\ \A i \in undone : i # pipe.inc /\ outcome'[i] # "none" /\ branch'[i] = branch[i]
    <3>1. \A i \in undone : i # pipe.inc
      BY <1>s, <2>1 DEF InOrder
    <3> QED
      BY <1>s, <1>3, <3>1 DEF Stops, Done, Shape
  <2>4. CASE undone' = undone /\ head' = head
    BY <1>s, <2>1, <2>2, <2>3, <2>4 DEF Shape
  <2>5. CASE /\ pipe.pc = "reset" /\ undone' = undone \cup {pipe.inc}
             /\ head' = pipe.base /\ branch' = branch
    <3>1. ASSUME NEW j \in Incident \ {pipe.inc}
          PROVE  pipe.inc \notin ToSet(branch[j])
      <4>1. CASE j < pipe.inc
        BY <1>s, <2>1, <4>1
      <4>2. CASE j > pipe.inc
        <5>1. outcome[j] = "none"
          BY <1>s, <2>1, <4>2 DEF InOrder
        <5> QED
          BY <1>s, <1>e, <2>1, <5>1 DEF InOrder
      <4> QED
        BY <2>1, <4>1, <4>2
    <3>2. fix[pipe.inc] # NoFix => pipe.inc \in ToSet(branch[pipe.inc])
      BY <1>s, <2>5 DEF OnItsWay
    <3> QED
      BY <1>s, <2>1, <2>3, <2>5, <3>1, <3>2 DEF Shape
  <2> QED
    BY <1>3, <2>4, <2>5 DEF Stops
<1>4. CASE Advances
  <2>1. ASSUME NEW i \in undone
        PROVE  i < pipe.inc
    BY <1>s, <1>4, <2>1 DEF Advances, InOrder, Shape
  <2> QED
    BY <1>s, <1>4, <2>1 DEF Advances, Keeps, Shape
<1>5. CASE Edit \/ Deploy
  BY <1>s, <1>5 DEF Edit, Deploy
<1>6. ASSUME NEW c \in Operator, Commit(c) PROVE Forgotten'
  <2>1. ToSet(head') = ToSet(head) \cup {c} /\ c \notin Incident
    <3>1. head \in Seq(Incident \cup Operator) /\ c \in Incident \cup Operator
      BY <1>s DEF Lines, Clean, Commits
    <3> QED
      BY <1>6, <3>1, LineAppend DEF Commit
  <2> QED
    BY <1>s, <1>6, <2>1 DEF Commit, Shape
<1>7. ASSUME NEW i \in Incident, Begins(i) PROVE Forgotten'
  <2>1. \A k \in Incident : k > i => k \notin ToSet(head)
    <3>1. \A k \in Incident : k > i => fix[k] = NoFix
      BY <1>s, <1>7 DEF Begins, InOrder
    <3> QED
      BY <1>s, <3>1, NoFixIsUngated DEF OnlyGated
  <2>2. \A j \in Incident \ {i} : branch'[j] = branch[j]
    BY <1>7 DEF Begins
  <2>3. branch'[i] = head \/ branch'[i] = branch[i]
    BY <1>7 DEF Begins
  <2>4. UNCHANGED <<head, undone, outcome, fix>> /\ pipe'.base = <<>> /\ i \notin undone
    BY <1>s, <1>7 DEF Begins
  <2>5. \A k, j \in Incident : j < k => k \notin ToSet(branch'[j])
    BY <1>s, <2>1, <2>2, <2>3
  <2>6. RolledBackLeavesBranch'
    BY <1>s, <2>2, <2>3, <2>4 DEF Shape
  <2> QED
    BY <1>s, <1>e, <2>4, <2>5, <2>6
<1>8. CASE \E i \in Incident : NeverBegins(i)
  BY <1>s, <1>8 DEF NeverBegins, Shape
<1>9. CASE UNCHANGED mvars
  BY <1>s, <1>9 DEF mvars
<1> QED
  BY <1>1, <1>2, <1>3, <1>4, <1>5, <1>6, <1>7, <1>8, <1>9, StepForms DEF Others

(* A gated fix stays as it is: fixes are made once, before they get        *)
(* anywhere.                                                               *)
LEMMA GatedStays ==
    ASSUME NEW i \in Incident, Gated(i), fix'[i] = fix[i]
    PROVE  Gated(i)'
BY DEF Gated

(* Only what went through the gate is merged and built.                    *)
LEMMA OnlyGatedStep == ASSUME IInv, [MNext]_mvars PROVE OnlyGated'
<1> USE DEF OnlyGated
<1>s. Shape /\ Lines /\ InOrder /\ OnlyGated
  BY DEF IInv
<1>e. ToSet(<<>>) = {} /\ ToSet(NoBranch) \cap Incident = {}
  BY EmptyLine
<1>g. ASSUME fix' = fix PROVE \A i \in Incident : Gated(i)' <=> Gated(i)
  BY <1>g DEF Gated
<1>1. CASE Thinks
  BY <1>s, <1>g, <1>1 DEF Thinks, Keeps
<1>2. CASE Delivers
  <2>1. ToSet(Append(branch[pipe.inc], pipe.inc)) = ToSet(branch[pipe.inc]) \cup {pipe.inc}
    <3>1. /\ pipe.inc \in Incident \cup Operator
          /\ branch[pipe.inc] \in Seq(Incident \cup Operator)
      BY <1>s, <1>2 DEF Shape, Delivers, Clean, Commits
    <3> QED
      BY <3>1, LineAppend
  <2>2. ~Gated(pipe.inc) /\ pipe.inc \in Incident
    BY <1>s, <1>2, NoFixIsUngated DEF Delivers, InOrder, Shape
  <2>3. \A i \in Incident : Gated(i) => Gated(i)'
    BY <1>2, <2>2, GatedStays DEF Delivers
  <2>4. \A j \in Incident : \A i \in ToSet(branch'[j]) \cap Incident :
           Gated(i)' \/ (i = j /\ fix'[i] # NoFix)
    <3>1. ASSUME NEW j \in Incident \ {pipe.inc}, NEW i \in ToSet(branch'[j]) \cap Incident
          PROVE  Gated(i)' \/ (i = j /\ fix'[i] # NoFix)
      BY <1>s, <1>2, <2>3, <3>1 DEF Delivers
    <3>2. ASSUME NEW i \in ToSet(branch'[pipe.inc]) \cap Incident
          PROVE  Gated(i)' \/ (i = pipe.inc /\ fix'[i] # NoFix)
      BY <1>s, <1>2, <2>1, <2>2, <2>3, <3>2 DEF Delivers
    <3> QED
      BY <2>2, <3>1, <3>2
  <2>5. (pipe.pc \in Deploying /\ fix[pipe.inc] # NoFix => Gated(pipe.inc))'
    <3>1. fix[pipe.inc] = NoFix
      BY <1>s, <1>2, <2>2 DEF Delivers, InOrder
    <3>2. CASE Keeps /\ pipe.level >= 2
      BY <1>2, <2>2, <3>1, <3>2 DEF Delivers, Keeps
    <3>3. CASE Resting
      BY <3>3 DEF Resting
    <3> QED
      BY <1>2, <3>2, <3>3 DEF Delivers
  <2>6. \A i \in ToSet(pipe'.base) \cap Incident : Gated(i)
    BY <1>s, <1>e, <1>2 DEF Delivers, Keeps, Resting
  <2> QED
    BY <1>s, <1>2, <2>3, <2>4, <2>5, <2>6 DEF Delivers
<1>3. CASE Stops
  BY <1>s, <1>e, <1>g, <1>3 DEF Stops, Resting, Shape
<1>4. CASE Advances
  <2>1. fix' = fix /\ pipe'.inc = pipe.inc /\ pipe.inc \in Incident
    BY <1>s, <1>4 DEF Advances, Keeps, Shape
  <2>2. \A i \in ToSet(head') \cap Incident : Gated(i)
    BY <1>s, <1>4, <2>1 DEF Advances
  <2> QED
    BY <1>s, <1>g, <1>4, <2>1, <2>2 DEF Advances, Keeps, Image, Shape
<1>5. CASE Edit \/ Deploy
  BY <1>s, <1>g, <1>5 DEF Edit, Deploy, Image, Shape
<1>6. ASSUME NEW c \in Operator, Commit(c) PROVE OnlyGated'
  <2>1. ToSet(head') \cap Incident = ToSet(head) \cap Incident
    <3>1. head \in Seq(Incident \cup Operator) /\ c \in Incident \cup Operator
      BY <1>s DEF Lines, Clean, Commits
    <3>2. ToSet(head') = ToSet(head) \cup {c}
      BY <1>6, <3>1, LineAppend DEF Commit
    <3> QED
      BY <3>2
  <2> QED
    BY <1>s, <1>g, <1>6, <2>1 DEF Commit, Shape
<1>7. ASSUME NEW i \in Incident, Begins(i) PROVE OnlyGated'
  BY <1>s, <1>e, <1>g, <1>7 DEF Begins, Shape
<1>8. CASE \E i \in Incident : NeverBegins(i)
  BY <1>s, <1>g, <1>8 DEF NeverBegins
<1>9. CASE UNCHANGED mvars
  BY <1>s, <1>g, <1>9 DEF mvars, Shape
<1> QED
  BY <1>1, <1>2, <1>3, <1>4, <1>5, <1>6, <1>7, <1>8, <1>9, StepForms DEF Others

-----------------------------------------------------------------------------
(* The invariant holds at the start, when nothing has been committed ...   *)
LEMMA IInvInit == MInit => IInv
<1> SUFFICES ASSUME MInit PROVE IInv
  OBVIOUS
<1> USE EmptyLine DEF MInit
<1>1. Shape
  <2>1. DOMAIN pipe = DOMAIN Rest /\ pipe.inc \in Incident /\ pipe.pc = "idle"
    BY DEF Rest
  <2>2. outcome \in [Incident -> Outcome]
    BY DEF Outcome
  <2> QED
    BY <2>1, <2>2 DEF Shape, Outcome
<1>2. Lines
  BY DEF Lines, Clean, Built, Dev, Rest
<1>3. InOrder /\ Checked
  BY DEF InOrder, Checked, Rest
<1>4. OnlyGated
  BY DEF OnlyGated, NoImage, Rest
<1>5. OnItsWay /\ Forgotten /\ CleanedUp
  BY DEF OnItsWay, Forgotten, RolledBackLeavesBranch, CleanedUp, NoWorktreeLeft, Rest
<1> QED
  BY <1>1, <1>2, <1>3, <1>4, <1>5 DEF IInv

(* ... and is kept by every step.                                          *)
LEMMA IInvStep == IInv /\ [MNext]_mvars => IInv'
BY ShapeStep, LinesStep, InOrderStep, CheckedStep, OnlyGatedStep, OnItsWayStep,
   ForgottenStep, CleanedUpStep DEF IInv

(* The inductive invariant, for any number of incidents and commits.       *)
THEOREM RemediationInv == MSpec => []IInv
BY IInvInit, IInvStep, PTL DEF MSpec

(* What is stored has its type, there is an image to roll back to, and no  *)
(* commit is on the branch twice.                                          *)
THEOREM RemediationTyped == MSpec => []MTypeOK
<1>1. IInv => MTypeOK
  BY DEF IInv, Shape, Lines, Clean, MTypeOK, Outcome
<1> QED
  BY <1>1, RemediationInv, PTL

(* Nothing but fixes that went through the gate gets on the branch, into   *)
(* service, or where a rollback could put it in service; and no suite is   *)
(* run on a diff that is out of policy.                                    *)
THEOREM OnlyGatedFixesHold == MSpec => []OnlyGatedFixesRun
<1>1. IInv => OnlyGatedFixesRun
  <2> SUFFICES ASSUME IInv PROVE OnlyGatedFixesRun
    OBVIOUS
  <2>1. Lines /\ Checked /\ OnlyGated
    BY DEF IInv
  <2>2. ASSUME NEW i \in Incident,
               i \in ToSet(head) \cup ToSet(local.code) \cup ToSet(running.code)
                     \cup UNION {ToSet(rollback[j].code) : j \in Incident}
        PROVE  Gated(i)
    BY <2>1, <2>2 DEF OnlyGated
  <2>3. pipe.pc \in {"suite", "suite_before"} => pipe.level >= 1 /\ InPolicy(pipe.run)
    BY <2>1 DEF Lines, Checked
  <2> QED
    BY <2>2, <2>3 DEF OnlyGatedFixesRun, Gated
<1> QED
  BY <1>1, RemediationInv, PTL

(* A fix whose rollback succeeded stays out of the branch and of those of  *)
(* other incidents, and its commit on its own.                             *)
THEOREM RolledBackHolds == MSpec => []RolledBackLeavesBranch
<1>1. IInv => RolledBackLeavesBranch
  BY DEF IInv, Forgotten
<1> QED
  BY <1>1, RemediationInv, PTL

(* No worktree outlives the handling of its incident, short of a crash, if *)
(* git can remove it.                                                      *)
THEOREM CleanedUpHolds == MSpec => []NoWorktreeLeft
<1>1. IInv => NoWorktreeLeft
  BY DEF IInv, CleanedUp
<1> QED
  BY <1>1, RemediationInv, PTL

(* "Resolved" is only said while the app runs the fix, if there is one.    *)
THEOREM ResolvedHolds == MSpec => ResolvedRunsItsFix
<1>1. ASSUME IInv, [MNext]_mvars, NEW i \in Incident,
             outcome'[i] = "resolved", outcome[i] # "resolved", fix[i] # NoFix
      PROVE  i \in ToSet(running.code) /\ i \in ToSet(head)
  <2>s. Shape /\ OnItsWay
    BY <1>1 DEF IInv
  <2>1. ASSUME NEW how \in Outcome \ {"resolved"}, End(how) PROVE FALSE
    BY <1>1, <2>s, <2>1, EndDoes DEF Done
  <2>2. CASE Decline \/ EarlyGate \/ Reject \/ \E succeeds \in BOOLEAN : CommitFix(succeeds)
    BY <1>1, <2>1, <2>2 DEF Decline, EarlyGate, Reject, CommitFix, Outcome
  <2>3. CASE Runbooks
    <3>1. CASE Verify
      <4>1. pipe.pc = "verify" /\ i = pipe.inc
        BY <1>1, <2>s, <3>1, EndDoes DEF Verify, Done, Outcome
      <4> QED
        BY <1>1, <2>s, <4>1 DEF OnItsWay
    <3> QED
      BY <1>1, <2>1, <2>3, <3>1 DEF Runbooks, CheckClean, Tag, Merge, Build, Up, CommandFails,
                                   RollbackUp, Reset, Outcome
  <2>4. CASE Raise \/ RaiseAgain \/ Crash
    BY <2>1, <2>4 DEF Raise, RaiseAgain, Crash, Outcome
  <2>5. CASE \E j \in Incident : NeverBegins(j)
    BY <1>1, <2>s, <2>5 DEF NeverBegins, Shape
  <2>6. CASE outcome' = outcome
    BY <1>1, <2>6
  <2> QED
    BY <1>1, <2>2, <2>3, <2>4, <2>5, <2>6
    DEF MNext, Pipeline, Begin, ReadBase, Reason, RunSuite, RemoveFix, RunSuiteBefore,
        ReapplyFix, Commit, Edit, Deploy, mvars
<1>2. IInv /\ [MNext]_mvars
      => [\A i \in Incident :
            outcome'[i] = "resolved" /\ outcome[i] # "resolved" /\ fix[i] # NoFix
            => i \in ToSet(running.code) /\ i \in ToSet(head)]_mvars
  BY <1>1
<1> QED
  BY <1>2, RemediationInv, PTL DEF MSpec, ResolvedRunsItsFix
=============================================================================
