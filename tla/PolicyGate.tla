----------------------------- MODULE PolicyGate -----------------------------
(***************************************************************************)
(* policy.py of the incident responder with the values of                  *)
(* autonomy-policy.yaml: which autonomy level an alert gets, what a level  *)
(* allows, and the checks a proposed patch must pass.  Pure operators.     *)
(*                                                                         *)
(* An agent run is a record:                                               *)
(*   action          what the answer proposes; "invalid" fails the schema  *)
(*   classification, confidence (per cent)                                 *)
(*   files           the changed files, each [name, area, inHead, text]:   *)
(*                   the directory it is in, whether the commit that the   *)
(*                   worktree started from has a file of that name, and    *)
(*                   whether its change comes back from a text patch       *)
(*   lines           lines added and deleted                               *)
(*   passes, fails   the suite passes with the diff; it fails without the  *)
(*                   part of the diff that is not under tests/             *)
(*   reported        the set of extensions its CLI says it has loaded, in  *)
(*                   a set of its own; the empty set when it says nothing  *)
(***************************************************************************)
EXTENDS Integers, Sequences, FiniteSets

(* autonomy-policy.yaml *)
Overrides == <<[match |-> {"test"}, level |-> 0], [match |-> {"info"}, level |-> 0]>>
MinLevel  == [none |-> 0, escalate |-> 0, patch |-> 1, deploy |-> 2, rollback |-> 2]
Guards    == [min_confidence |-> 70, allowed_paths |-> {"app", "tests"},
              forbidden_paths |-> {"ops"}, max_files_changed |-> 4, max_changed_lines |-> 80]
Surface   == [require_known |-> FALSE, allowed |-> {}]

(* default_level, lowered by the first override that matches.              *)
EffectiveLevel(default, labels) ==
    LET matching == SelectSeq(Overrides, LAMBDA rule : rule.match \subseteq labels)
    IN  IF matching # <<>> /\ Head(matching).level < default
        THEN Head(matching).level ELSE default

ActionAllowed(action, level) ==
    action \in DOMAIN MinLevel /\ level >= MinLevel[action]

CodeFiles(run) == {f \in run.files : f.area # "tests"}

(* gate_patch: each check with its verdict.                                *)
GatePatch(run, tests_passed) ==
    [classification  |-> run.classification = "real_incident",
     proposed_action |-> run.action = "patch",
     confidence      |-> run.confidence >= Guards.min_confidence,
     diff_not_empty  |-> run.files # {},
     paths           |-> \A f \in run.files : /\ f.area \notin Guards.forbidden_paths
                                              /\ f.area \in Guards.allowed_paths,
     max_files       |-> Cardinality(run.files) <= Guards.max_files_changed,
     max_lines       |-> run.lines <= Guards.max_changed_lines,
     regression_test |-> \E f \in run.files : f.area = "tests",
     tests_pass      |-> tests_passed]

Allowed(checks) == \A c \in DOMAIN checks : checks[c]

(* extension_surface_ok *)
ExtensionSurfaceOk(reported) ==
    IF reported = {} THEN ~Surface.require_known
    ELSE \A loaded \in reported : loaded \subseteq Surface.allowed
=============================================================================
