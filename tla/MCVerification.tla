---------------------------- MODULE MCVerification ----------------------------
(* One batch and two of its six commits: the one that appends two rows, and   *)
(* the one whose payload holds more than its stage row.                       *)
EXTENDS Verification, TLC

MCBlockOrder == <<"metadata", "lab">>
MCCommits == <<<<"created", "metadata">>, <<"lab">>>>

\* A good honey with the HMF of a cool climate, or of a warm one: the second is
\* within the tropical limit alone.
Honey(hmf) ==
    "moisture" :> 1850 @@ "fructose_glucose" :> 6000 @@ "sucrose" :> 500
    @@ "hmf" :> hmf @@ "diastase" :> 800 @@ "free_acidity" :> 5000

MCPanels == [v \in {"x", "y"} |-> IF v = "x" THEN Honey(4000) ELSE Honey(4001)]

\* What the standard says, over panels at, above and below each limit: the
\* verdict is PASS if every parameter is there and none is on the wrong side.
WrongSide(parameter, value, hmfLimit) ==
    CASE parameter = "moisture" -> value > 2000
      [] parameter = "fructose_glucose" -> value < 6000
      [] parameter = "sucrose" -> value > 500
      [] parameter = "hmf" -> value > hmfLimit
      [] parameter = "diastase" -> value < 800
      [] OTHER -> value > 5000

Near(parameter) ==
    LET at(limit) == {limit - 1, limit, limit + 1}
    IN  CASE parameter = "moisture" -> at(2000)
          [] parameter = "fructose_glucose" -> at(6000)
          [] parameter = "sucrose" -> at(500)
          [] parameter = "hmf" -> at(4000) \cup at(8000)
          [] parameter = "diastase" -> at(800)
          [] OTHER -> at(5000)

ASSUME OneMeasurementDecides ==
    \A p \in DOMAIN Honey(0) : \A value \in Near(p) : \A version \in DOMAIN RULES :
        LET whole == (p :> value) @@ Honey(0)
            partial == [q \in {p} |-> value]
            wrong == WrongSide(p, value, IF version = "codex-kenya-v1" THEN 8000 ELSE 4000)
        IN  /\ Verdict(whole, version) = IF wrong THEN "FAIL" ELSE "PASS"
            /\ Verdict(partial, version) = IF wrong THEN "FAIL" ELSE "INCOMPLETE"
=============================================================================
