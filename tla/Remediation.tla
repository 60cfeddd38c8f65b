---------------------------- MODULE Remediation ----------------------------
(***************************************************************************)
(* What the incident responder does to the repository and to the running   *)
(* app: Responder._handle of pipeline.py and the runbooks deploy-fix.sh,   *)
(* verify-recovery.sh and rollback.sh.  Its one worker takes incidents one *)
(* after the other; an operator commits to the same branch, edits the same *)
(* working tree and deploys the same compose project in between.           *)
(*                                                                         *)
(* A commit is a number and a branch is the sequence of its commits: fix i *)
(* is the commit the responder makes for incident i, the larger numbers    *)
(* are the operator's.  An image keeps the commits it was built from,      *)
(* whether uncommitted edits went in with them, and the APP_VERSION it was *)
(* stamped with.                                                           *)
(***************************************************************************)
EXTENDS PolicyGate, SequencesExt

CONSTANTS MaxIncidents,  \* bound: incidents handled in a behaviour
          MaxCommits,    \* bound: commits of the operator
          Run            \* what the agent may answer and leave in its worktree

ASSUME RemediationAssumption == /\ MaxIncidents \in Nat \ {0} /\ MaxCommits \in Nat
                                /\ \A run \in Run : IsFiniteSet(run.files)

Incident == 1..MaxIncidents
Operator == (MaxIncidents + 1)..(MaxIncidents + MaxCommits)

VARIABLES head,      \* the commits of the branch that is checked out
          edited,    \* tracked files of the working tree have uncommitted edits
          branch,    \* incident -> its branch incident/<id>, NoBranch without one
          worktrees, \* incidents with a directory under worktrees_dir
          stuck,     \* those of them whose last git worktree remove failed
          local,     \* the image order-tracker:local
          rollback,  \* incident -> the image order-tracker:rollback-<id>
          running,   \* the image the app container was created from
          pipe,      \* where _handle is: pc, and its local variables
          outcome,   \* incident -> how its handling ended
          undone,    \* incidents whose decision.json has rollback.sh with exit code 0
          fix,       \* history: incident -> what was committed for it, NoFix before
          committed  \* history: the commits of the operator

mvars == <<head, edited, branch, worktrees, stuck, local, rollback, running, pipe, outcome,
           undone, fix, committed>>
trees  == <<worktrees, stuck>>
repo   == <<head, edited, branch, trees>>
images == <<local, rollback, running>>
history == <<undone, fix, committed>>

NoBranch == <<0>>
NoImage  == [code |-> <<>>, edited |-> FALSE, version |-> NoBranch]
Dev      == <<>>                         \* APP_VERSION of an operator's build
NoRun    == [action |-> "none", files |-> {}]
NoFix    == [level |-> 0, run |-> NoRun, tree |-> "head", sure |-> FALSE]
Rest     == [pc |-> "idle", inc |-> 1, level |-> 0, base |-> <<>>, version |-> Dev,
             run |-> NoRun, tree |-> "head", passed |-> FALSE, fails_before |-> FALSE]

Image(version) == [code |-> head, edited |-> edited, version |-> version]

MInit == /\ head = <<>> /\ edited = FALSE
         /\ branch = [i \in Incident |-> NoBranch] /\ worktrees = {} /\ stuck = {}
         /\ local = [code |-> <<>>, edited |-> FALSE, version |-> Dev]
         /\ running = local
         /\ rollback = [i \in Incident |-> NoImage]
         /\ pipe = Rest
         /\ outcome = [i \in Incident |-> "none"] /\ undone = {}
         /\ fix = [i \in Incident |-> NoFix] /\ committed = {}

At(pc)   == pipe.pc = pc
Goto(pc) == pipe' = [pipe EXCEPT !.pc = pc]

(* _escalate or _close, after which handle() returns.                      *)
End(how) == /\ pipe' = Rest
            /\ outcome' = [outcome EXCEPT ![pipe.inc] = how]

(* git worktree remove --force; its exit code is not looked at.            *)
RemoveWorktree ==
    \/ worktrees' = worktrees \ {pipe.inc} /\ stuck' = stuck \ {pipe.inc}
    \/ pipe.inc \in worktrees /\ stuck' = stuck \cup {pipe.inc} /\ UNCHANGED worktrees

(* _cleanup_worktree; nor is that of git branch -D, which fails as long as *)
(* the branch is checked out.  Without a branch (read_only) nothing is     *)
(* done.                                                                   *)
Cleanup(keep) ==
    /\ RemoveWorktree
    /\ branch' = branch \/ (~keep /\ branch' = [branch EXCEPT ![pipe.inc] = NoBranch])
-----------------------------------------------------------------------------
(* The level decides the mode; in edit mode the agent gets a worktree on a *)
(* new branch at HEAD.                                                     *)
Begin(i, level) ==
    /\ At("idle") /\ outcome[i] = "none" /\ \A j \in 1..(i - 1) : outcome[j] # "none"
    /\ pipe' = [Rest EXCEPT !.pc = "base", !.inc = i, !.level = level]
    /\ IF level >= 1
       THEN worktrees' = worktrees \cup {i} /\ branch' = [branch EXCEPT ![i] = head]
       ELSE UNCHANGED <<worktrees, branch>>
    /\ UNCHANGED <<head, edited, stuck, images, outcome, history>>

(* The budget is spent, or git worktree add fails.                         *)
NeverBegins(i) ==
    /\ At("idle") /\ outcome[i] = "none" /\ \A j \in 1..(i - 1) : outcome[j] # "none"
    /\ outcome' = [outcome EXCEPT ![i] = "escalated"]
    /\ UNCHANGED <<repo, images, pipe, history>>

(* git rev-parse HEAD, for a rollback that may come.                       *)
ReadBase ==
    /\ At("base")
    /\ pipe' = [pipe EXCEPT !.pc = "decide", !.base = head]
    /\ UNCHANGED <<repo, images, outcome, history>>

(* The agent answers and leaves a diff in the worktree: tree tells what of *)
(* it is there, the whole "fix", or what is under "tests" only.            *)
Reason(run) ==
    /\ At("decide")
    /\ pipe' = [pipe EXCEPT !.pc = IF run.action = "patch" /\ pipe.level >= 1
                                   THEN "early" ELSE "decline",
                            !.run = run, !.tree = "fix"]
    /\ UNCHANGED <<repo, images, outcome, history>>

(* No schema, nothing to do, a human asked for, rollback proposed, or a    *)
(* patch at a level that forbids edits.                                    *)
Decline ==
    /\ At("decline")
    /\ Cleanup(FALSE)
    /\ End(IF pipe.run.action = "none" THEN "closed" ELSE "escalated")
    /\ UNCHANGED <<head, edited, images, history>>

(* A diff out of policy is turned down before any of it is run.            *)
EarlyGate ==
    /\ At("early")
    /\ IF Allowed(GatePatch(pipe.run, TRUE))
       THEN Goto("suite") /\ UNCHANGED <<branch, trees, outcome>>
       ELSE Cleanup(TRUE) /\ End("escalated")
    /\ UNCHANGED <<head, edited, images, history>>

(* The suite is run on the whole diff, and when it passes once more ...    *)
RunSuite ==
    /\ At("suite")
    /\ pipe' = [pipe EXCEPT !.pc = IF pipe.run.passes /\ CodeFiles(pipe.run) # {}
                                   THEN "remove" ELSE "gate",
                            !.passed = pipe.run.passes]
    /\ UNCHANGED <<repo, images, outcome, history>>

(* git checkout HEAD -- <code files> restores all of them, or none when    *)
(* HEAD lacks one: a new file, or a renamed one, whose numstat entry names *)
(* no file at all.                                                         *)
Removed == IF \A f \in CodeFiles(pipe.run) : f.inHead THEN "tests" ELSE pipe.tree

RemoveFix ==
    /\ At("remove")
    /\ pipe' = [pipe EXCEPT !.pc = "suite_before", !.tree = Removed]
    /\ UNCHANGED <<repo, images, outcome, history>>

(* ... after the code change was taken out.                                *)
RunSuiteBefore ==
    /\ At("suite_before")
    /\ pipe' = [pipe EXCEPT !.pc = "reapply",
                            !.fails_before = IF pipe.tree = "tests" THEN pipe.run.fails
                                                                    ELSE ~pipe.run.passes]
    /\ UNCHANGED <<repo, images, outcome, history>>

(* git apply --index puts it back, all of it or nothing; its exit code is  *)
(* not looked at.                                                          *)
ReapplyFix ==
    /\ At("reapply")
    /\ pipe' = [pipe EXCEPT !.pc = "gate",
                            !.tree = IF \A f \in CodeFiles(pipe.run) : f.text THEN "fix" ELSE @]
    /\ UNCHANGED <<repo, images, outcome, history>>

(* Mutant: the suite may pass without the fix.                             *)
GatePassesByTests ==
    /\ Allowed(GatePatch(pipe.run, pipe.passed))
    /\ ActionAllowed("patch", pipe.level)
    /\ ExtensionSurfaceOk(pipe.run.reported)

GatePasses ==
    /\ Allowed(GatePatch(pipe.run, pipe.passed))
    /\ pipe.fails_before
    /\ ActionAllowed("patch", pipe.level)
    /\ ExtensionSurfaceOk(pipe.run.reported)

Reject ==
    /\ At("gate") /\ ~GatePasses
    /\ Cleanup(TRUE)
    /\ End("escalated")
    /\ UNCHANGED <<head, edited, images, history>>

(* What passes is committed, which fails unnoticed or not, and goes on to  *)
(* be deployed at level 2.                                                 *)
CommitFix(succeeds) ==
    /\ At("gate") /\ GatePasses
    /\ IF succeeds
       THEN /\ branch' = [branch EXCEPT ![pipe.inc] = Append(@, pipe.inc)]
            /\ fix' = [fix EXCEPT ![pipe.inc] = [level |-> pipe.level, run |-> pipe.run,
                            tree |-> pipe.tree, sure |-> pipe.fails_before]]
       ELSE UNCHANGED <<branch, fix>>
    /\ RemoveWorktree
    /\ IF ActionAllowed("deploy", pipe.level) THEN Goto("check") /\ UNCHANGED outcome
                                              ELSE End("escalated")
    /\ UNCHANGED <<head, edited, images, undone, committed>>
-----------------------------------------------------------------------------
(* deploy-fix.sh *)
CheckClean ==
    /\ At("check")
    /\ IF edited THEN End("escalated") ELSE Goto("tag") /\ UNCHANGED outcome
    /\ UNCHANGED <<repo, images, history>>

(* Mutant: docker image tag fails unnoticed.                               *)
TagNothing ==
    /\ At("tag")
    /\ Goto("merge")
    /\ UNCHANGED <<repo, images, outcome, history>>

(* docker image tag *)
Tag ==
    /\ At("tag")
    /\ rollback' = [rollback EXCEPT ![pipe.inc] = local]
    /\ Goto("merge")
    /\ UNCHANGED <<repo, local, running, outcome, history>>

(* git merge --ff-only, and rev-parse for the version; a branch without a  *)
(* commit of its own is up to date, and edits made since the check are in  *)
(* the way or not.                                                         *)
Merge ==
    /\ At("merge")
    /\ \/ /\ head' = IF IsPrefix(branch[pipe.inc], head) THEN head ELSE branch[pipe.inc]
          /\ IsPrefix(head, head')
          /\ pipe' = [pipe EXCEPT !.pc = "build", !.version = head']
          /\ UNCHANGED outcome
       \/ /\ ~IsPrefix(branch[pipe.inc], head)
          /\ ~IsPrefix(head, branch[pipe.inc]) \/ edited
          /\ End("escalated")
          /\ UNCHANGED head
    /\ UNCHANGED <<edited, branch, trees, images, history>>

(* docker compose up --build, from what the working tree holds by now      *)
Build ==
    /\ At("build")
    /\ local' = Image(pipe.version)
    /\ Goto("up")
    /\ UNCHANGED <<repo, rollback, running, outcome, history>>

(* ... and the app is created anew, healthy or not.                        *)
Up ==
    /\ At("up")
    /\ running' = local
    /\ (Goto("verify") /\ UNCHANGED outcome) \/ End("escalated")
    /\ UNCHANGED <<repo, local, rollback, history>>

(* Mutant: a compose up that failed is not noticed (no set -e).            *)
CommandFailsUnnoticed ==
    /\ At("build") \/ At("up")
    /\ Goto("verify")
    /\ UNCHANGED <<repo, images, outcome, history>>

(* Either of the two fails: the build, or the start of the container.      *)
CommandFails ==
    /\ At("build") \/ At("up")
    /\ End("escalated")
    /\ UNCHANGED <<repo, images, history>>

(* verify-recovery.sh *)
Verify ==
    /\ At("verify")
    /\ End("resolved") \/ (Goto("rollback") /\ UNCHANGED outcome)
    /\ UNCHANGED <<repo, images, history>>

(* rollback.sh: the tagged image is put in service ...  Whether that fails *)
(* is not looked at, "rolled_back" is recorded beside its exit code.       *)
RollbackUp ==
    /\ At("rollback")
    /\ \/ running' = rollback[pipe.inc] /\ Goto("reset") /\ UNCHANGED outcome
       \/ running' \in {running, rollback[pipe.inc]} /\ End("rolled_back")
    /\ UNCHANGED <<repo, local, rollback, history>>

(* Mutant: rollback.sh is given no ref to go back to.                      *)
ResetToNowhere ==
    /\ At("reset")
    /\ undone' = undone \cup {pipe.inc}
    /\ End("rolled_back")
    /\ UNCHANGED <<repo, images, fix, committed>>

(* ... and the branch is reset, or that fails: over edits that stand in    *)
(* the way (--keep), or for another reason.                                *)
Reset ==
    /\ At("reset")
    /\ \/ head' = pipe.base /\ undone' = undone \cup {pipe.inc}
       \/ UNCHANGED <<head, undone>>
    /\ End("rolled_back")
    /\ UNCHANGED <<edited, branch, trees, images, fix, committed>>
-----------------------------------------------------------------------------
(* Mutant: the worktree stays when a step raises.                          *)
RaiseKeepingWorktree ==
    /\ ~At("idle")
    /\ End("escalated")
    /\ UNCHANGED <<repo, images, history>>

(* Any step raises, a subprocess past its timeout for one: handle() takes  *)
(* the worktree away, keeps the branch and escalates.                      *)
Raise ==
    /\ ~At("idle")
    /\ Cleanup(TRUE)
    /\ End("escalated")
    /\ UNCHANGED <<head, edited, images, history>>

(* So does what handle() does about it, a git worktree remove past its     *)
(* timeout for one: the worker's thread ends, and the next incident waits  *)
(* for a new process.                                                      *)
RaiseAgain ==
    /\ ~At("idle")
    /\ RemoveWorktree \/ UNCHANGED trees
    /\ End("crashed")
    /\ UNCHANGED <<head, edited, branch, images, history>>

(* The process ends; nothing takes the incident up again.                  *)
Crash ==
    /\ ~At("idle")
    /\ End("crashed")
    /\ UNCHANGED <<repo, images, history>>

(* The operator commits what is edited, edits, or deploys the working tree *)
(* with docker compose up --build.                                         *)
Commit(c) ==
    /\ c \notin committed /\ (MaxIncidents + 1)..(c - 1) \subseteq committed
    /\ committed' = committed \cup {c}
    /\ head' = Append(head, c)
    /\ edited' = FALSE
    /\ UNCHANGED <<branch, trees, images, pipe, outcome, undone, fix>>

Edit ==
    /\ edited' = TRUE
    /\ UNCHANGED <<head, branch, trees, images, pipe, outcome, history>>

Deploy ==
    /\ local' = Image(Dev)
    /\ running' = local'
    /\ UNCHANGED <<repo, rollback, pipe, outcome, history>>

Runbooks == \/ CheckClean \/ Tag \/ Merge \/ Build \/ Up \/ CommandFails
            \/ Verify \/ RollbackUp \/ Reset

Pipeline ==
    \/ \E i \in Incident, default \in 0..2, labels \in SUBSET {"test", "info"} :
          Begin(i, EffectiveLevel(default, labels))
    \/ \E i \in Incident : NeverBegins(i)
    \/ ReadBase
    \/ \E run \in Run : Reason(run)
    \/ Decline \/ EarlyGate \/ RunSuite \/ RemoveFix \/ RunSuiteBefore \/ ReapplyFix
    \/ Reject \/ \E succeeds \in BOOLEAN : CommitFix(succeeds)
    \/ Runbooks
    \/ Raise \/ RaiseAgain
    \/ Crash

MNext == \/ Pipeline
         \/ \E c \in Operator : Commit(c)
         \/ Edit
         \/ Deploy

MSpec == MInit /\ [][MNext]_mvars
-----------------------------------------------------------------------------
Commits == Seq(Incident \cup Operator)
Built(image) == /\ image.code \in Commits /\ image.edited \in BOOLEAN
                /\ image.version \in Commits

(* Type correctness; from the merge on there is an image to roll back to,  *)
(* and no commit is ever on the branch twice.                              *)
MTypeOK ==
    /\ head \in Commits /\ IsInjective(head) /\ edited \in BOOLEAN
    /\ worktrees \subseteq Incident /\ stuck \subseteq worktrees
    /\ Built(local) /\ Built(running)
    /\ pipe.pc \in {"idle", "base", "decide", "decline", "early", "suite", "remove",
                    "suite_before", "reapply", "gate", "check", "tag", "merge", "build",
                    "up", "verify", "rollback", "reset"}
    /\ pipe.pc \in {"merge", "build", "up", "verify", "rollback", "reset"}
       => Built(rollback[pipe.inc])
    /\ \A i \in Incident : outcome[i] \in {"none", "closed", "escalated", "resolved",
                                           "rolled_back", "crashed"}

(* autonomy-policy.yaml, read as a statement about a diff: a few small     *)
(* changes under app/ and tests/, to answer an incident the agent is sure  *)
(* of.                                                                     *)
InPolicy(run) ==
    /\ run.action = "patch" /\ run.classification = "real_incident" /\ run.confidence >= 70
    /\ Cardinality(run.files) \in 1..4 /\ run.lines <= 80
    /\ \A f \in run.files : f.area \in {"app", "tests"}
    /\ \E f \in run.files : f.area = "tests"

(* The gate cannot be got round: whatever is on the branch, runs, or could *)
(* be put in service by a tag holds no fix but those the policy allowed to *)
(* be deployed: in policy, tested, and with a suite that failed without    *)
(* them.  And no code of the agent is run that is out of policy            *)
(* (pipeline.py: "never execute agent-written code whose diff is already   *)
(* out of policy").                                                        *)
OnlyGatedFixesRun ==
    /\ \A i \in Incident :
         i \in ToSet(head) \cup ToSet(local.code) \cup ToSet(running.code)
               \cup UNION {ToSet(rollback[j].code) : j \in Incident}
         => /\ fix[i].level >= 2 /\ InPolicy(fix[i].run) /\ fix[i].run.passes /\ fix[i].sure
            /\ \A loaded \in fix[i].run.reported : loaded = {}
    /\ pipe.pc \in {"suite", "suite_before"} => pipe.level >= 1 /\ InPolicy(pipe.run)

(* "fix deployed and verified" is only said while the app runs that fix,   *)
(* whatever the operator commits or deploys meanwhile, if there is a fix:  *)
(* whether git commit succeeded is not looked at.                          *)
ResolvedRunsItsFix ==
    [][\A i \in Incident :
         outcome'[i] = "resolved" /\ outcome[i] # "resolved" /\ fix[i] # NoFix
         => i \in ToSet(running.code) /\ i \in ToSet(head)]_mvars

(* A rollback that decision.json records with exit code 0 has taken the    *)
(* fix out of the branch, where it stays out: later incidents are worked   *)
(* on, and later fixes built, without it.  And as rollback.sh says, "the   *)
(* fix commit stays reachable on its incident/* branch".                   *)
RolledBackLeavesBranch ==
    \A i \in undone :
      /\ i \notin ToSet(head)
      /\ \A j \in Incident \ {i} : i \notin ToSet(branch[j])
      /\ fix[i] # NoFix => i \in ToSet(branch[i])

(* Whichever way the handling of an incident ends, short of the end of the *)
(* worker, handle() has had its worktree removed: one that is left is one  *)
(* git failed to remove.                                                   *)
NoWorktreeLeft ==
    \A i \in worktrees : outcome[i] = "crashed" \/ i \in stuck \/ (pipe.inc = i /\ ~At("idle"))

(* pipeline.py: "leave no half-edited worktree behind; keep the branch for *)
(* humans": the worktree of an incident whose handling ended is gone.      *)
WorktreeIsGone ==
    \A i \in worktrees : outcome[i] \in {"none", "crashed"}

(* report.md: "outcome: rolled_back", and the reason of the escalation     *)
(* "verification failed after deploying ...; rolled back": the fix is out  *)
(* of the branch.                                                          *)
RolledBackIsUndone ==
    \A i \in Incident : outcome[i] = "rolled_back" => i \notin ToSet(head)

(* pipeline.py: the outcome "fixed_and_verified" and the note "fix ...     *)
(* deployed and verified" mean that there is a commit with a fix.          *)
ResolvedHasFix ==
    \A i \in Incident : outcome[i] = "resolved" => fix[i].tree = "fix"

(* pipeline.py: "with the code change removed (tests kept), the suite must *)
(* FAIL": the second run of the suite is one without the code change.      *)
SuiteRunsWithoutFix == At("suite_before") => pipe.tree = "tests"

(* deploy-fix.sh: "tag the currently running image as the rollback target" *)
RollbackTargetIsRunning ==
    [][At("tag") /\ pipe'.pc = "merge" => rollback'[pipe.inc] = running]_mvars

(* README of the order tracker: a fix whose verification does not succeed  *)
(* is rolled back before the incident is escalated.                        *)
VerifiedOrRolledBack ==
    [][At("verify") /\ pipe'.pc # "verify"
       => pipe'.pc = "rollback" \/ outcome'[pipe.inc] \in {"resolved", "crashed"}]_mvars

(* rollback.sh: resetting the branch is "fast, local, reversible": no work *)
(* that was committed gets out of reach of every branch.                   *)
CommitsStayReachable ==
    \A c \in committed : \/ c \in ToSet(head)
                         \/ \E i \in Incident : c \in ToSet(branch[i])

(* Dockerfile: the version stamped on an image ties it to its deployment:  *)
(* an image that bears a commit was built from that commit and no more.    *)
VersionTellsCode ==
    running.version # Dev => running.code = running.version /\ ~running.edited
=============================================================================
