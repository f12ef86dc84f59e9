--------------------------- MODULE MCWorkflowMap ----------------------------
(* Small instances of a map step.                                          *)
EXTENDS WorkflowMap

(* Two workers of which one must succeed, within tight limits.             *)
Workers ==
    [items |-> 2, kind |-> "agent", onItemFailure |-> "partial", minSucceeded |-> 1,
     parallel |-> 2, attempts |-> 1, interruptions |-> 1, maxAttempts |-> 3,
     maxTokens |-> 4, budget |-> 2, cancellable |-> TRUE, faults |-> 1]

(* Workers that are retried, with less to spend than they may use.         *)
Retried == [Workers EXCEPT !.attempts = 2, !.interruptions = 2,
                           !.maxAttempts = 4, !.maxTokens = 4, !.cancellable = FALSE]

(* Three items that must all succeed.                                      *)
AllOrNothing ==
    [Workers EXCEPT !.items = 3, !.kind = "deterministic", !.onItemFailure = "fail",
                    !.minSucceeded = 0, !.attempts = 2, !.maxAttempts = 5,
                    !.maxTokens = 0, !.budget = 0]

SmallSteps == {Workers, Retried, AllOrNothing}
=============================================================================
