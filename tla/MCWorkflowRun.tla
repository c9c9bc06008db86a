--------------------------- MODULE MCWorkflowRun ---------------------------
(* Small instances of WorkflowRun for TLC. *)
EXTENDS WorkflowRun

CONSTANTS w1, w2, w3, s1, s2

MCWalkers == {w1, w2, w3}

\* All requests meet in one Service; the resumes find another, after a reload; or one of
\* them comes to another replica.
MCServices == {s1, s2}
Together == [w \in MCWalkers |-> s1]
Reloaded == [w \in MCWalkers |-> IF w = w1 THEN s1 ELSE s2]
Apart == [Together EXCEPT ![w3] = s2]
MCSettings == [mode : {"serial"}, svc : {Together, Reloaded, Apart}]
                \cup [mode : {"cancel_previous"}, svc : {Together}]

\* once -llm_route-> form or pure; form -> set -when ${var}-> pure.
MCNodes == 1..4
MCKind == <<"once", "form", "set", "pure">>
MCSucc == <<{2, 4}, {3}, {4}, {}>>
MCBranch == <<"route", "plain", "var", "plain">>
=============================================================================
