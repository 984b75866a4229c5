---------------------------- MODULE AppendOnlyLog ----------------------------
(***************************************************************************)
(* What the audit log promises: a sequence that only ever grows at its     *)
(* end.  "Every state-changing action appends exactly one row" (the head   *)
(* of app/services/audit_log.py); a transaction that performs several      *)
(* actions appends several rows in one step, when it commits.              *)
(***************************************************************************)
EXTENDS Naturals, Sequences

CONSTANT Bodies    \* what a row can say

VARIABLE log       \* what the committed rows say, oldest first

\* s is t followed by at least one more element.
Extends(s, t) ==
    /\ Len(t) < Len(s)
    /\ \A k \in 1..Len(t) : s[k] = t[k]

Init == log = <<>>

Next == /\ log' \in Seq(Bodies)
        /\ Extends(log', log)

Spec == Init /\ [][Next]_log
=============================================================================
