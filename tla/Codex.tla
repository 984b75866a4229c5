--------------------------------- MODULE Codex ---------------------------------
(***************************************************************************)
(* The conformance check of app/services/codex_scoring.py: a lab panel     *)
(* against a named, frozen set of limits.                                  *)
(*                                                                         *)
(* Quantities are in hundredths of their units, the precision the columns  *)
(* have and the code rounds to before it compares.  A panel is a function  *)
(* from the parameters that were measured; the others are None in the row. *)
(***************************************************************************)
EXTENDS Naturals

AtMost(parameter, limit) == [parameter |-> parameter, comparator |-> "<=", limit |-> limit]
AtLeast(parameter, limit) == [parameter |-> parameter, comparator |-> ">=", limit |-> limit]

KENYA_V1 == {
    AtMost("moisture", 2000), AtLeast("fructose_glucose", 6000), AtMost("sucrose", 500),
    AtMost("hmf", 8000), AtLeast("diastase", 800), AtMost("free_acidity", 5000)}

\* The general reading of the standard has another limit for one of them.
GENERAL_V1 == {IF r.parameter = "hmf" THEN AtMost("hmf", 4000) ELSE r : r \in KENYA_V1}

RULES == [version \in {"codex-kenya-v1", "codex-general-v1"} |->
            IF version = "codex-kenya-v1" THEN KENYA_V1 ELSE GENERAL_V1]

DEFAULT_RULE_SET == "codex-kenya-v1"

\* _check: a value that is exactly the limit is within it.
Check(rule, panel) ==
    IF rule.parameter \notin DOMAIN panel THEN "not_measured"
    ELSE IF \/ rule.comparator = "<=" /\ panel[rule.parameter] <= rule.limit
            \/ rule.comparator = ">=" /\ panel[rule.parameter] >= rule.limit
         THEN "pass" ELSE "fail"

\* evaluate: a failure outweighs what was not measured, and only a panel that
\* is whole and within every limit passes.
Verdict(panel, version) ==
    LET results == {Check(rule, panel) : rule \in RULES[version]}
    IN  IF "fail" \in results THEN "FAIL"
        ELSE IF "not_measured" \in results THEN "INCOMPLETE"
        ELSE "PASS"
=============================================================================
