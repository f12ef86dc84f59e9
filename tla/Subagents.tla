----------------------------- MODULE Subagents ------------------------------
(***************************************************************************)
(* Delegated workers (internal/subagents/supervisor.go, recovery.go and    *)
(* budget.go; internal/eviedb/subagents.go and subagent_execution.go).     *)
(*                                                                         *)
(* A parent turn delegates assignments, each to a child session of its     *)
(* own, or continues a child that has reported.  A goroutine of the        *)
(* supervisor owns each attempt it admitted: it waits for capacity, runs   *)
(* the child's turn and settles the attempt.  Recovery settles attempts    *)
(* whose parent turn has ended.  Every write is a transaction, so one      *)
(* action; the goroutine may be delayed, and the process may end, between  *)
(* any two of them.  The child is named after its first attempt.           *)
(***************************************************************************)
EXTENDS Naturals, SequencesExt, FiniteSets, FiniteSetsExt

CONSTANTS
    Parents,       \* parent sessions
    Keys,          \* idempotency keys of assignments
    Runtime,       \* workers running at once in the runtime
    PerParent,     \* workers running at once for one parent
    PerTurn,       \* workers one turn may start
    MaxAttempts,   \* bound: attempts
    MaxTurns,      \* bound: turns of a parent
    MaxEvents,     \* bound: events of a child
    MaxCrashes     \* bound: ends of the process

ASSUME SubagentsAssumption ==
    /\ {Runtime, PerParent, PerTurn, MaxAttempts, MaxTurns} \subseteq Nat \ {0}
    /\ {MaxEvents, MaxCrashes} \subseteq Nat
    /\ IsFiniteSet(Keys)

VARIABLES
    turn,       \* of each parent: its number, whether its lease is live, and
                \* whether the process that took it still runs
    attempts,   \* subagent_executions in the order of their rowids
    log,        \* events of each child: which attempt wrote them, and what
    lease,      \* of each child: its turn lease and whether the session is open
    late,       \* attempts whose deadline has passed
    pc,         \* where the goroutine that owns an attempt is
    token,      \* the fencing token it holds on the child, 0 for none
    wrapping,   \* attempts whose goroutine has begun the wrap-up
    outcome,    \* the outcome it decided
    unsettled,  \* outcomes handed to recovery, in the process's memory
    crashes

vars == <<turn, attempts, log, lease, late, pc, token, wrapping, outcome,
          unsettled, crashes>>

Ids == 1..MaxAttempts
Outcomes == {"succeeded", "partial", "failed", "cancelled", "interrupted"}
Unfinished == {"admitted", "running"}
Executing == {"started", "acquired", "asked", "called"}
Nobody == [token |-> 0, held |-> FALSE, open |-> FALSE]

Terminal(i) == attempts[i].state \notin Unfinished
OfChild(c) == {i \in DOMAIN attempts: attempts[i].child = c}
Latest(c) == Max(OfChild(c))

Init ==
    /\ turn = [p \in Parents |-> [no |-> 1, live |-> TRUE, hosted |-> TRUE]]
    /\ attempts = <<>>
    /\ log = [c \in Ids |-> <<>>]
    /\ lease = [c \in Ids |-> Nobody]
    /\ late = {}
    /\ pc = [i \in Ids |-> "gone"]
    /\ token = [i \in Ids |-> 0]
    /\ wrapping = {}
    /\ outcome = [i \in Ids |-> "failed"]
    /\ unsettled = {}
    /\ crashes = 0

-----------------------------------------------------------------------------
(* Authority                                                               *)

(* authorizeSubagentParent: the attempt's own parent turn is still live.   *)
ParentLive(i) ==
    LET t == turn[attempts[i].parent] IN t.live /\ t.no = attempts[i].turn

(* authorizeSubagentChild: the child's latest attempt is running, within   *)
(* its deadline and under a live parent turn.                              *)
ChildAuthorized(c) ==
    LET i == Latest(c)
    IN attempts[i].state = "running" /\ i \notin late /\ ParentLive(i)

(* withTurnLeaseWrite of the goroutine of i, on its child's session.       *)
MayWrite(i) ==
    LET c == attempts[i].child IN
    /\ lease[c].held /\ lease[c].open /\ lease[c].token = token[i]
    /\ ChildAuthorized(c)

-----------------------------------------------------------------------------
(* Admission                                                               *)

KeysUsed(p) == {attempts[i].key: i \in {j \in DOMAIN attempts: attempts[j].parent = p}}

(* admitWithinTurnLimit.                                                   *)
StartedThisTurn(p) ==
    Cardinality({i \in DOMAIN attempts:
        attempts[i].parent = p /\ attempts[i].turn = turn[p].no})

Attempt(p, key, child, after) ==
    [parent |-> p, turn |-> turn[p].no, key |-> key, child |-> child,
     after |-> after, state |-> "admitted", wrapUp |-> FALSE]

Admitted(new) ==
    /\ attempts' = attempts \o new
    /\ pc' = [i \in Ids |-> IF i \in (Len(attempts) + 1)..(Len(attempts) + Len(new))
                            THEN "queued" ELSE pc[i]]

(* delegate: the batch's new keys are admitted together or not at all, a   *)
(* key that was admitted before is only observed.                          *)
Delegate(p, K) ==
    LET fresh == SetToSeq(K \ KeysUsed(p))
        new == [n \in DOMAIN fresh |-> Attempt(p, fresh[n], Len(attempts) + n, 0)]
    IN
    /\ turn[p].live /\ turn[p].hosted
    /\ fresh # <<>>
    /\ StartedThisTurn(p) + Len(fresh) <= PerTurn
    /\ Len(attempts) + Len(fresh) <= MaxAttempts
    /\ Admitted(new)
    /\ lease' = [c \in Ids |-> IF c \in (Len(attempts) + 1)..(Len(attempts) + Len(fresh))
                               THEN [Nobody EXCEPT !.open = TRUE] ELSE lease[c]]
    /\ UNCHANGED <<turn, log, late, token, wrapping, outcome, unsettled, crashes>>

(* resumableSubagent: the child's latest report, and none of its attempts  *)
(* unfinished.                                                             *)
Resumable(i) ==
    LET own == OfChild(attempts[i].child)
        reported == {j \in own: attempts[j].state \in {"succeeded", "partial"}}
    IN i \in reported /\ i = Max(reported) /\ \A j \in own: Terminal(j)

(* Continue: a new attempt on the same child, for the parent's own turn.   *)
(* A repeat of the same call returns that attempt.                         *)
Continue(i) ==
    LET p == attempts[i].parent c == attempts[i].child IN
    /\ turn[p].live /\ turn[p].hosted
    /\ Resumable(i)
    /\ StartedThisTurn(p) < PerTurn
    /\ Len(attempts) < MaxAttempts
    /\ Admitted(<<Attempt(p, Len(attempts) + 1, c, Len(log[c]))>>)
    /\ UNCHANGED <<turn, log, lease, late, token, wrapping, outcome, unsettled, crashes>>

-----------------------------------------------------------------------------
(* The goroutine that owns an attempt                                      *)

Running == {i \in DOMAIN attempts: attempts[i].state = "running"}

(* StartSubagent: room in the runtime and for the parent.                  *)
Capacity(i) ==
    /\ Cardinality(Running) < Runtime
    /\ Cardinality({j \in Running: attempts[j].parent = attempts[i].parent}) < PerParent

(* reopenSubagentChild: the session is open and its lease is free.         *)
Reopened(c) == [lease[c] EXCEPT !.open = TRUE, !.held = FALSE]

Start(i) ==
    LET c == attempts[i].child IN
    /\ pc[i] = "queued" /\ attempts[i].state = "admitted"
    /\ ParentLive(i) /\ Capacity(i)
    /\ attempts' = [attempts EXCEPT ![i].state = "running"]
    /\ lease' = IF c # i THEN [lease EXCEPT ![c] = Reopened(c)] ELSE lease
    /\ pc' = [pc EXCEPT ![i] = "started"]
    /\ UNCHANGED <<turn, log, late, token, wrapping, outcome, unsettled, crashes>>

(* own, when the attempt was settled meanwhile: it is only observed.       *)
AlreadySettled(i) ==
    /\ pc[i] = "queued" /\ Terminal(i)
    /\ pc' = [pc EXCEPT ![i] = "gone"]
    /\ UNCHANGED <<turn, attempts, log, lease, late, token, wrapping, outcome,
                   unsettled, crashes>>

Decide(i, o) ==
    /\ outcome' = [outcome EXCEPT ![i] = o]
    /\ pc' = [pc EXCEPT ![i] = "finishing"]

(* own, when it gives up: the parent's authority has ended (refused), the  *)
(* call is stopped, or the queue deadline passes.                          *)
GiveUp(i) ==
    /\ pc[i] = "queued" /\ ~Terminal(i)
    /\ \E o \in {"failed", "cancelled", "interrupted"}:
          /\ o = "interrupted" => ~ParentLive(i)
          /\ Decide(i, o)
    /\ UNCHANGED <<turn, attempts, log, lease, late, token, wrapping, unsettled, crashes>>

(* AcquireTurnLease of the child's session: it asks nothing of the         *)
(* attempt.                                                                *)
Acquire(i) ==
    LET c == attempts[i].child IN
    /\ pc[i] = "started"
    /\ lease[c].open /\ ~lease[c].held
    /\ lease' = [lease EXCEPT ![c].held = TRUE, ![c].token = @ + 1]
    /\ token' = [token EXCEPT ![i] = lease[c].token + 1]
    /\ pc' = [pc EXCEPT ![i] = "acquired"]
    /\ UNCHANGED <<turn, attempts, log, late, wrapping, outcome, unsettled, crashes>>

Write(i, kind) ==
    LET c == attempts[i].child IN
    /\ MayWrite(i)
    /\ Len(log[c]) < MaxEvents
    /\ log' = [log EXCEPT ![c] = Append(@, [by |-> i, kind |-> kind])]

(* The assignment becomes the user message of the child's turn.            *)
Ask(i) ==
    /\ pc[i] = "acquired"
    /\ Write(i, "message")
    /\ pc' = [pc EXCEPT ![i] = "asked"]
    /\ UNCHANGED <<turn, attempts, lease, late, token, wrapping, outcome, unsettled, crashes>>

(* budget.wrapUp before a model call: the reason is kept in memory and     *)
(* marked on the attempt.                                                  *)
WrapUp(i) ==
    /\ pc[i] = "asked" /\ i \notin wrapping
    /\ wrapping' = wrapping \cup {i}
    /\ attempts' = IF attempts[i].state = "running" /\ ChildAuthorized(attempts[i].child)
                   THEN [attempts EXCEPT ![i].wrapUp = TRUE] ELSE attempts
    /\ UNCHANGED <<turn, log, lease, late, pc, token, outcome, unsettled, crashes>>

(* Mutant: a model call needs no check of the attempt.                     *)
CallUnchecked(i) ==
    /\ pc[i] = "asked"
    /\ pc' = [pc EXCEPT ![i] = "called"]
    /\ UNCHANGED <<turn, attempts, log, lease, late, token, wrapping, outcome,
                   unsettled, crashes>>

(* budget.ChatStream: the model is called after AuthorizeSubagent found    *)
(* this attempt running and its child authorized.                          *)
CallModel(i) ==
    /\ pc[i] = "asked"
    /\ attempts[i].state = "running" /\ ChildAuthorized(attempts[i].child)
    /\ pc' = [pc EXCEPT ![i] = "called"]
    /\ UNCHANGED <<turn, attempts, log, lease, late, token, wrapping, outcome,
                   unsettled, crashes>>

(* The answer asks for tools, which run, and the child goes on; tools are  *)
(* withdrawn in the wrap-up.                                               *)
UseTools(i) ==
    /\ pc[i] = "called" /\ i \notin wrapping
    /\ Write(i, "work")
    /\ pc' = [pc EXCEPT ![i] = "asked"]
    /\ UNCHANGED <<turn, attempts, lease, late, token, wrapping, outcome, unsettled, crashes>>

(* The final answer is accepted.                                           *)
Answer(i) ==
    /\ pc[i] = "called"
    /\ Write(i, "final")
    /\ outcome' = [outcome EXCEPT ![i] = IF i \in wrapping THEN "partial" ELSE "succeeded"]
    /\ pc' = [pc EXCEPT ![i] = "answered"]
    /\ UNCHANGED <<turn, attempts, lease, late, token, wrapping, unsettled, crashes>>

(* execute: the turn ends with an error, when its write or lease is        *)
(* refused, its context ends, or the model fails; execution may also fail  *)
(* before the turn (composition, worktree, policy).                        *)
Fail(i) ==
    /\ pc[i] \in Executing
    /\ \E o \in {"failed", "cancelled", "interrupted"}:
          outcome' = [outcome EXCEPT ![i] = o]
    /\ pc' = [pc EXCEPT ![i] = "answered"]
    /\ UNCHANGED <<turn, attempts, log, lease, late, token, wrapping, unsettled, crashes>>

(* The deferred release of the child's lease.                              *)
Release(i) ==
    LET c == attempts[i].child IN
    /\ pc[i] = "answered"
    /\ lease' = IF token[i] # 0 /\ lease[c].held /\ lease[c].token = token[i]
                THEN [lease EXCEPT ![c].held = FALSE] ELSE lease
    /\ token' = [token EXCEPT ![i] = 0]
    /\ pc' = [pc EXCEPT ![i] = "finishing"]
    /\ UNCHANGED <<turn, attempts, log, late, wrapping, outcome, unsettled, crashes>>

-----------------------------------------------------------------------------
(* Settlement                                                              *)

(* The events of an attempt are those of its child after it was admitted.  *)
HasReport(i) ==
    LET c == attempts[i].child IN
    \E n \in (attempts[i].after + 1)..Len(log[c]): log[c][n].kind = "final"

(* Mutant: the durable mark of the wrap-up is not read.                    *)
SettledWithoutMark(i, o) ==
    IF HasReport(i) THEN IF o = "partial" THEN "partial" ELSE "succeeded"
    ELSE IF o \in {"succeeded", "partial"} THEN "interrupted" ELSE o

(* finishSubagent: an accepted final answer decides.                       *)
Settled(i, o) ==
    IF HasReport(i)
    THEN IF attempts[i].wrapUp \/ o = "partial" THEN "partial" ELSE "succeeded"
    ELSE IF o \in {"succeeded", "partial"} THEN "interrupted" ELSE o

(* FinishSubagent: a terminal attempt stays as it is; the child's session  *)
(* is closed with its attempt.                                             *)
Recorded(i, o) ==
    IF Terminal(i) THEN UNCHANGED <<attempts, lease>>
    ELSE /\ attempts' = [attempts EXCEPT ![i].state = Settled(i, o)]
         /\ lease' = [lease EXCEPT ![attempts[i].child].open = FALSE]

(* What a goroutine kept is lost when it ends.                             *)
Forgotten(i) == outcome' = [outcome EXCEPT ![i] = "failed"]

Finish(i) ==
    /\ pc[i] = "finishing"
    /\ Recorded(i, outcome[i])
    /\ pc' = [pc EXCEPT ![i] = "gone"]
    /\ Forgotten(i)
    /\ UNCHANGED <<turn, log, late, token, wrapping, unsettled, crashes>>

(* Mutant: an outcome the store did not accept in time is dropped.         *)
HandOffDropped(i) ==
    /\ pc[i] = "finishing"
    /\ pc' = [pc EXCEPT ![i] = "gone"]
    /\ Forgotten(i)
    /\ UNCHANGED <<turn, attempts, log, lease, late, token, wrapping, unsettled, crashes>>

(* finish, when the store does not accept the write in time.               *)
HandOff(i) ==
    /\ pc[i] = "finishing"
    /\ unsettled' = unsettled \cup {i}
    /\ pc' = [pc EXCEPT ![i] = "gone"]
    /\ UNCHANGED <<turn, attempts, log, lease, late, token, wrapping, outcome, crashes>>

(* settleOnce, from a recovery pass or a caller that joins.                *)
SettlePending(i) ==
    /\ i \in unsettled
    /\ Recorded(i, outcome[i])
    /\ unsettled' = unsettled \ {i}
    /\ Forgotten(i)
    /\ UNCHANGED <<turn, log, late, pc, token, wrapping, crashes>>

(* recoverSubagent: only an attempt whose parent turn has ended.           *)
Recover(i) ==
    /\ ~Terminal(i) /\ ~ParentLive(i)
    /\ Recorded(i, "interrupted")
    /\ UNCHANGED <<turn, log, late, pc, token, wrapping, outcome, unsettled, crashes>>

-----------------------------------------------------------------------------
(* Surroundings                                                            *)

(* The parent's turn ends, or its lease expires.                           *)
LoseTurn(p) ==
    /\ turn[p].live
    /\ turn' = [turn EXCEPT ![p].live = FALSE]
    /\ UNCHANGED <<attempts, log, lease, late, pc, token, wrapping, outcome,
                   unsettled, crashes>>

NewTurn(p) ==
    /\ ~turn[p].live /\ turn[p].no < MaxTurns
    /\ turn' = [turn EXCEPT ![p] = [no |-> @.no + 1, live |-> TRUE, hosted |-> TRUE]]
    /\ UNCHANGED <<attempts, log, lease, late, pc, token, wrapping, outcome,
                   unsettled, crashes>>

Deadline(i) ==
    /\ attempts[i].state = "running" /\ i \notin late
    /\ late' = late \cup {i}
    /\ UNCHANGED <<turn, attempts, log, lease, pc, token, wrapping, outcome,
                   unsettled, crashes>>

(* The process ends: its goroutines and its memory are lost, its turns'    *)
(* leases run out.                                                         *)
Crash ==
    /\ crashes < MaxCrashes
    /\ crashes' = crashes + 1
    /\ pc' = [i \in Ids |-> "gone"]
    /\ unsettled' = {}
    /\ turn' = [p \in Parents |-> [turn[p] EXCEPT !.hosted = FALSE]]
    /\ token' = [i \in Ids |-> 0]
    /\ outcome' = [i \in Ids |-> "failed"]
    /\ UNCHANGED <<attempts, log, lease, late, wrapping>>

-----------------------------------------------------------------------------
OwnerStep(i) ==
    \/ Start(i) \/ AlreadySettled(i) \/ GiveUp(i)
    \/ Acquire(i) \/ Ask(i) \/ WrapUp(i) \/ CallModel(i) \/ UseTools(i)
    \/ Answer(i) \/ Fail(i) \/ Release(i)
    \/ Finish(i) \/ HandOff(i)

Next ==
    \/ \E p \in Parents:
          \/ \E K \in SUBSET Keys: Delegate(p, K)
          \/ LoseTurn(p) \/ NewTurn(p)
    \/ \E i \in DOMAIN attempts:
          Continue(i) \/ OwnerStep(i) \/ SettlePending(i) \/ Recover(i) \/ Deadline(i)
    \/ Crash

Spec == Init /\ [][Next]_vars

(* A goroutine goes on while its process runs, and its attempt's deadline  *)
(* ends the child's turn; recovery runs for ever; the lease of a turn      *)
(* whose process has ended expires.                                        *)
Fairness ==
    /\ \A i \in Ids:
          /\ WF_vars(i \in DOMAIN attempts /\ OwnerStep(i))
          /\ WF_vars(i \in DOMAIN attempts /\ SettlePending(i))
          /\ WF_vars(i \in DOMAIN attempts /\ Recover(i))
    /\ \A p \in Parents: WF_vars(~turn[p].hosted /\ LoseTurn(p))

FairSpec == Spec /\ Fairness

-----------------------------------------------------------------------------
(* Properties                                                              *)

(* Values of the variables; a goroutine keeps a fencing token only for the *)
(* time of the child's turn, and has an attempt while it lives.            *)
TypeOK ==
    /\ \A p \in Parents: turn[p].no \in 1..MaxTurns
    /\ Len(attempts) <= MaxAttempts
    /\ \A i \in DOMAIN attempts:
          /\ attempts[i].state \in Unfinished \cup Outcomes
          /\ attempts[i].child \in 1..i
          /\ attempts[i].after \in 0..MaxEvents
    /\ \A c \in Ids: Len(log[c]) <= MaxEvents
    /\ late \cup wrapping \cup unsettled \subseteq DOMAIN attempts
    /\ \A i \in Ids:
          /\ pc[i] # "gone" => i \in DOMAIN attempts
          /\ token[i] # 0 => pc[i] \in Executing \cup {"answered"}
    /\ outcome \in [Ids -> Outcomes]

(* The policy's limits hold whoever starts workers, in whatever order.     *)
CapacityHeld ==
    /\ Cardinality(Running) <= Runtime
    /\ \A p \in Parents: Cardinality({i \in Running: attempts[i].parent = p}) <= PerParent

(* A child never has two unfinished attempts.                              *)
OneUnfinishedAttempt ==
    \A i \in DOMAIN attempts, j \in DOMAIN attempts:
        i # j /\ attempts[i].child = attempts[j].child => Terminal(i) \/ Terminal(j)

(* An attempt is settled with a report exactly when its own goroutine's    *)
(* final answer was accepted: a later cancellation, failure or recovery    *)
(* never replaces it, and nobody else's answer stands in for it.           *)
AnswersDecide ==
    \A i \in DOMAIN attempts: Terminal(i) =>
        LET c == attempts[i].child
            answered == \E n \in DOMAIN log[c]: log[c][n] = [by |-> i, kind |-> "final"]
        IN attempts[i].state \in {"succeeded", "partial"} <=> answered

(* A report written in the wrap-up is recorded as partial, even when the   *)
(* process ended before its goroutine could settle the attempt.            *)
WrapUpIsPartial ==
    \A i \in DOMAIN attempts: i \in wrapping => attempts[i].state # "succeeded"

(* Attempts are accounted for: at most one unfinished per child and no     *)
(* more running than the policy allows, whoever starts them, and each      *)
(* settles as what its own answer made it.                                 *)
AttemptsAreAccounted ==
    TypeOK /\ CapacityHeld /\ OneUnfinishedAttempt /\ AnswersDecide /\ WrapUpIsPartial

(* Only a live attempt answers, and only once: a model is called, and an   *)
(* answer accepted, only for the attempt of the goroutine itself, while it *)
(* runs and its parent's turn lives, and a settled attempt keeps its state.*)
OnlyLiveAttemptsAnswer ==
    [][\A i \in DOMAIN attempts:
         /\ pc[i] # "called" /\ pc'[i] = "called" => attempts[i].state = "running" /\ ParentLive(i)
         /\ Answer(i) => attempts[i].state = "running" /\ ParentLive(i)
         /\ Terminal(i) => attempts'[i].state = attempts[i].state]_vars

(* Every admitted attempt settles, whatever fails on the way.              *)
AttemptsSettle == []<>(\A i \in DOMAIN attempts: Terminal(i))
=============================================================================
