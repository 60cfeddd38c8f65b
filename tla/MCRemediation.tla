---------------------------- MODULE MCRemediation ----------------------------
(* Remediation on small instances for TLC: what the agent may come back    *)
(* with, a good patch and one for each way not to be one.                  *)
EXTENDS Remediation

Code    == [name |-> 1, area |-> "app", inHead |-> TRUE, text |-> TRUE]
NewCode == [Code EXCEPT !.inHead = FALSE]
Binary  == [Code EXCEPT !.text = FALSE]
Test    == [Code EXCEPT !.area = "tests"]
Ops     == [Code EXCEPT !.area = "ops"]
Five    == {[Code EXCEPT !.name = n, !.area = IF n = 5 THEN "tests" ELSE "app"] : n \in 1..5}

Good == [action |-> "patch", classification |-> "real_incident", confidence |-> 70,
         files |-> {Code, Test}, lines |-> 80, passes |-> TRUE, fails |-> TRUE,
         reported |-> {{}}]

Small == {Good, [Good EXCEPT !.files = {NewCode, Test}],
          [Good EXCEPT !.files = {Binary, Test}, !.reported = {}],
          [Good EXCEPT !.fails = FALSE], [Good EXCEPT !.action = "none"]}

AllRuns ==
    Small \cup {[Good EXCEPT !.action = a] : a \in {"invalid", "escalate", "rollback"}}
    \cup {[Good EXCEPT !.files = fs] : fs \in {{}, {Code}, {Test}, {Ops, Test}, Five}}
    \cup {[Good EXCEPT !.classification = "false_positive"], [Good EXCEPT !.confidence = 69],
          [Good EXCEPT !.lines = 81], [Good EXCEPT !.passes = FALSE],
          [Good EXCEPT !.reported = {{"mcp"}}]}
=============================================================================
