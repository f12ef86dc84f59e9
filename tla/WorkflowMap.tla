----------------------------- MODULE WorkflowMap ----------------------------
(***************************************************************************)
(* A map step of a workflow run (internal/workflowruntime/mapstep.go and   *)
(* agent.go, internal/eviedb/workflow_workers.go, subagent_run.go): its    *)
(* items run in parallel under the run's one lease, each item attempt      *)
(* recorded before it runs and when it ends.                               *)
(*                                                                         *)
(* The items are agent items, each attempt one worker, or deterministic    *)
(* ones, which only return.  Every store transaction is one action fenced  *)
(* by the lease, so a holder that lost it can do nothing more and its      *)
(* memory is forgotten with it.  What an attempt of an item counted stays  *)
(* in the store, so the memory of the map's loop is its place, what it has *)
(* heard, why it stops, and what its goroutines have returned.             *)
(***************************************************************************)
EXTENDS Naturals, FiniteSets

CONSTANTS
    Steps           \* the map steps to consider, as runs declare them

VARIABLES
    step,     \* the map step of this run
    run,      \* workflow_runs.state
    node,     \* the state of the map's latest attempt
    live,     \* whether the run's lease is held
    item,     \* the attempts of each item
    worker,   \* the worker execution of each item's latest attempt
    spent,    \* tokens of finished worker calls
    used,     \* tokens the workers' model calls used
    waiting,  \* items whose backoff has not passed
    at,       \* where the holder is: at a node boundary, or in the map's loop
    heard,    \* signals the map's context has: "cancelled", "stopped"
    why,      \* why the map stops starting items
    job,      \* what each item's goroutine returned
    mapFaults

mapVars == <<step, run, node, live, item, worker, spent, used, waiting, at, heard, why, job, mapFaults>>

Items == step.items                  \* the list is 1..Items
Kind == step.kind                    \* the item step's: "agent" or "deterministic"
OnItemFailure == step.onItemFailure  \* "fail" or "partial"
MinSucceeded == step.minSucceeded    \* with "partial": items that must succeed
Parallel == step.parallel            \* items that run at once
Attempts == step.attempts            \* the item's retry policy
Interruptions == step.interruptions  \* times an item may be interrupted
MaxAttempts == step.maxAttempts      \* limits.max_attempts of the run
MaxTokens == step.maxTokens          \* limits.max_tokens of the run
Budget == step.budget                \* tokens of one worker, and its model calls
Cancellable == step.cancellable      \* whether the owner may cancel the run
MaxMapFaults == step.faults          \* bound: crashes, lost leases, stops and pauses

Positive == Nat \ {0}

ASSUME WorkflowMapAssumption ==
    Steps \subseteq
        [items : Positive, kind : {"agent", "deterministic"},
         onItemFailure : {"fail", "partial"}, minSucceeded : Nat, parallel : Positive,
         attempts : Positive, interruptions : Positive, maxAttempts : Nat,
         maxTokens : Nat, budget : Nat, cancellable : BOOLEAN, faults : Nat]

List == 1..Items
Over == {"succeeded", "failed", "cancelled"}
NoWorker == [state |-> "none", responses |-> 0, calling |-> FALSE, complete |-> TRUE,
             adopted |-> FALSE]

MapInit ==
    /\ step \in Steps
    /\ run = "running" /\ node = "none"
    /\ live = FALSE
    /\ item = [i \in List |-> [failed |-> 0, cut |-> 0, state |-> "none"]]
    /\ worker = [i \in List |-> NoWorker]
    /\ spent = 0 /\ used = 0
    /\ waiting = {}
    /\ at = "none" /\ heard = {} /\ why = "" /\ job = [i \in List |-> "idle"]
    /\ mapFaults = 0

-----------------------------------------------------------------------------
(* Items                                                                   *)

(* settle: an item that spent its retries or its interruptions failed.     *)
Failed(i) ==
    /\ item[i].state # "succeeded"
    /\ item[i].failed >= Attempts \/ item[i].cut >= Interruptions

Done(i) == item[i].state = "succeeded" \/ Failed(i)
AllDone == \A i \in List: Done(i)
Running == {i \in List: item[i].state = "running"}

(* WorkflowRunSpend: the item attempts that are not interrupted, the k-th  *)
(* failed attempt of item i as the pair of both.                           *)
FailedAttempts == {a \in List \X (1..Attempts): a[2] <= item[a[1]].failed}
Counting == {i \in List: item[i].state \in {"running", "succeeded"}}
Counted == Cardinality(FailedAttempts) + Cardinality(Counting)

(* workerSpend: open calls count their whole budget.                       *)
Open == IF Kind = "agent" THEN {i \in Running: ~worker[i].adopted} ELSE {}
Spend == spent + Budget * Cardinality(Open)

(* Mutant: a retry always takes a fresh worker.                            *)
AdoptsNothing(i) == FALSE

(* planWorker: an interrupted attempt's worker that reported is adopted.   *)
Adopts(i) == item[i].state = "interrupted" /\ worker[i].state = "succeeded"

(* workerCallStart: an attempt that takes a fresh worker reserves its      *)
(* whole budget.                                                           *)
Hires(i) == Kind = "agent" /\ ~Adopts(i)
Estimate(items) == Budget * Cardinality({i \in items: Hires(i)})

(* WorkerCallCounted: nothing when no worker ran or it was adopted, the    *)
(* reported usage when it is complete, otherwise the budget.               *)
CountedTokens(w) ==
    IF w.adopted \/ w.state = "none" THEN 0
    ELSE IF w.complete /\ w.responses > 0 THEN w.responses ELSE Budget

(* finishSubagent: a committed report is a success.                        *)
Settled(w) ==
    IF w.state = "running" THEN [w EXCEPT !.state = "ended", !.calling = FALSE]
    ELSE IF w.state = "reported" THEN [w EXCEPT !.state = "succeeded"] ELSE w

-----------------------------------------------------------------------------
(* The run's lease                                                         *)

(* ClaimWorkflowRun: attempts in flight are interrupted, and their workers *)
(* settled and counted.                                                    *)
Claimed ==
    /\ item' = [i \in List |-> IF i \in Running
                  THEN [item[i] EXCEPT !.state = "interrupted", !.cut = @ + 1] ELSE item[i]]
    /\ worker' = [i \in List |-> Settled(worker[i])]
    /\ spent' = spent + Cardinality({t \in Open \X (1..Budget):
                                       t[2] <= CountedTokens(Settled(worker[t[1]]))})

Claim ==
    /\ ~live /\ run \notin Over /\ node # "succeeded"
    /\ live' = TRUE /\ at' = "boundary"
    /\ run' = IF run = "paused" THEN "running" ELSE run
    /\ node' = IF node = "running" THEN "interrupted" ELSE node
    /\ Claimed
    /\ heard' = {} /\ why' = "" /\ job' = [i \in List |-> "idle"]
    /\ UNCHANGED <<used, waiting, mapFaults>>

(* The process ends, or its lease runs out while it is delayed.            *)
LoseLease ==
    /\ live /\ mapFaults < MaxMapFaults
    /\ live' = FALSE /\ at' = "none" /\ mapFaults' = mapFaults + 1
    /\ heard' = {} /\ why' = "" /\ job' = [i \in List |-> "idle"]
    /\ UNCHANGED <<run, node, item, worker, spent, used, waiting>>

Cancel ==
    /\ Cancellable
    /\ run \in {"running", "paused"} /\ node # "succeeded"
    /\ run' = "cancelling"
    /\ UNCHANGED <<node, live, item, worker, spent, used, waiting, at, heard, why, job, mapFaults>>

Hear(signal) ==
    /\ heard' = heard \cup {signal}
    /\ UNCHANGED <<run, node, live, item, worker, spent, used, waiting, at, why, job>>

(* cancellable: the poll of the run's state.                               *)
HearCancel ==
    /\ live /\ run = "cancelling" /\ "cancelled" \notin heard
    /\ Hear("cancelled") /\ UNCHANGED mapFaults

StopRuntime ==
    /\ live /\ "stopped" \notin heard /\ mapFaults < MaxMapFaults
    /\ Hear("stopped") /\ mapFaults' = mapFaults + 1

-----------------------------------------------------------------------------
(* The node boundary                                                       *)

(* mapStep: the map's own attempt begins; a cancelling run starts nothing. *)
Begin ==
    /\ at = "boundary" /\ run = "running" /\ heard = {} /\ node # "succeeded"
    /\ node' = "running" /\ at' = "check"
    /\ UNCHANGED <<run, live, item, worker, spent, used, waiting, heard, why, job, mapFaults>>

Released == live' = FALSE /\ at' = "none" /\ heard' = {} /\ why' = ""

FinishCancel ==
    /\ at = "boundary" /\ run = "cancelling"
    /\ node # "running" /\ Running = {}
    /\ run' = "cancelled" /\ Released
    /\ UNCHANGED <<node, item, worker, spent, used, waiting, job, mapFaults>>

(* The pass ends without starting the node.                                *)
StopAtBoundary ==
    /\ at = "boundary" /\ "stopped" \in heard /\ run # "cancelling"
    /\ Released
    /\ UNCHANGED <<run, node, item, worker, spent, used, waiting, job, mapFaults>>

-----------------------------------------------------------------------------
(* The map's loop                                                          *)

FailedItem == \E i \in List: Failed(i)

(* The reasons to stop, in the order of the loop.                          *)
Check ==
    /\ at = "check"
    /\ why' = IF why # "" THEN why
              ELSE IF "cancelled" \in heard THEN "cancelled"
              ELSE IF "stopped" \in heard THEN "stopped"
              ELSE IF OnItemFailure = "fail" /\ FailedItem THEN "failed" ELSE ""
    /\ at' = "start"
    /\ UNCHANGED <<run, node, live, item, worker, spent, used, waiting, heard, job, mapFaults>>

(* Items that could start now, and the first of them for the free slots.   *)
Pending == {i \in List: ~Done(i) /\ i \notin Running /\ i \notin waiting}
Before(items, i) == {j \in items: j < i}
DueItems == {i \in Pending: Cardinality(Running) + Cardinality(Before(Pending, i)) < Parallel}

(* Mutant: the items of the batch do not reserve their tokens.             *)
AllowedAlone(due, i) ==
    /\ Counted + Cardinality(Before(due, i)) < MaxAttempts
    /\ Spend + Estimate({i}) <= MaxTokens

(* startItems: the run's limits, with what the batch before it reserves.   *)
Allowed(due, i) ==
    /\ Counted + Cardinality(Before(due, i)) < MaxAttempts
    /\ Spend + Estimate(Before(due, i) \cup {i}) <= MaxTokens

Batch(due) == {i \in due: \A j \in due: j <= i => Allowed(due, j)}

(* Mutant: a map whose next item a limit holds back only waits.            *)
NeverHeldBack(due) == FALSE

(* A limit holds back the next item, and nothing runs that could free it.  *)
HeldBack(due) == Batch(due) = {} /\ due # {} /\ Running = {}

Resting(stopping, running) ==
    IF running # {} THEN "wait"
    ELSE IF stopping # "" \/ AllDone THEN "finish" ELSE "wait"

(* BeginWorkflowItemAttempts for the batch.                                *)
StartItems ==
    LET due == DueItems
        batch == IF why = "" THEN Batch(due) ELSE {}
    IN
    /\ at = "start" /\ live
    /\ batch # {} => run = "running"
    /\ item' = [i \in List |-> IF i \in batch THEN [item[i] EXCEPT !.state = "running"] ELSE item[i]]
    /\ worker' = [i \in List |-> IF i \notin batch THEN worker[i]
                                 ELSE IF Adopts(i) THEN [worker[i] EXCEPT !.adopted = TRUE]
                                 ELSE NoWorker]
    /\ job' = [i \in List |-> IF i \in batch THEN "working" ELSE job[i]]
    /\ why' = IF why = "" /\ HeldBack(due) THEN "limit" ELSE why
    /\ at' = Resting(why', Running \cup batch)
    /\ UNCHANGED <<run, node, live, spent, used, waiting, heard, mapFaults>>

(* The batch is refused: the run is cancelling, or its admission, the      *)
(* daily cap or the workers are not there now.                             *)
StartRefused ==
    /\ at = "start" /\ live /\ why = "" /\ Batch(DueItems) # {}
    /\ \/ run = "cancelling" /\ why' = "cancelled" /\ UNCHANGED mapFaults
       \/ run = "running" /\ why' = "paused" /\ mapFaults < MaxMapFaults /\ mapFaults' = mapFaults + 1
    /\ at' = Resting(why', Running)
    /\ UNCHANGED <<run, node, live, item, worker, spent, used, waiting, heard, job>>

(* A result, a signal or a passed backoff wakes the loop.                  *)
Wake ==
    /\ at = "wait" /\ why = ""
    /\ heard # {} \/ DueItems # {}
    /\ at' = "check"
    /\ UNCHANGED <<run, node, live, item, worker, spent, used, waiting, heard, why, job, mapFaults>>

Backoff(i) ==
    /\ i \in waiting
    /\ waiting' = waiting \ {i}
    /\ UNCHANGED <<run, node, live, item, worker, spent, used, at, heard, why, job, mapFaults>>

(* record: an attempt the map itself stopped is interrupted.               *)
Outcome(i) == IF job[i] = "failed" /\ why = "failed" THEN "interrupted" ELSE job[i]

(* FinishWorkflowItemAttempt, with the worker call.                        *)
Record(i) ==
    LET o == Outcome(i) IN
    /\ at = "wait" /\ live /\ job[i] \in {"succeeded", "failed", "interrupted", "refused"}
    /\ item' = [item EXCEPT
         ![i].state = IF o = "refused" THEN "interrupted" ELSE o,
         ![i].failed = IF o = "failed" THEN @ + 1 ELSE @,
         ![i].cut = IF o \in {"interrupted", "refused"} THEN @ + 1 ELSE @]
    /\ spent' = IF i \in Open THEN spent + CountedTokens(worker[i]) ELSE spent
    /\ waiting' = IF o = "failed" THEN waiting \cup {i} ELSE waiting
    /\ why' = IF why = "" /\ o = "refused" THEN "paused" ELSE why
    /\ job' = [job EXCEPT ![i] = "idle"]
    /\ at' = "check"
    /\ UNCHANGED <<run, node, live, worker, used, heard, mapFaults>>

(* finish: everything that ended anyway counts as complete, and the map's  *)
(* attempt ends.                                                           *)
Ending == IF AllDone /\ why \in {"cancelled", "stopped", "paused"} THEN "" ELSE why

Succeeded == {i \in List: item[i].state = "succeeded"}

Enough == OnItemFailure = "fail" \/ Cardinality(Succeeded) >= MinSucceeded

FinishSuccess ==
    /\ at = "finish" /\ live /\ Ending = "" /\ Enough
    /\ node' = "succeeded" /\ at' = "boundary"
    /\ UNCHANGED <<run, live, item, worker, spent, used, waiting, heard, why, job, mapFaults>>

FinishFailure ==
    /\ at = "finish" /\ live
    /\ Ending \in {"failed", "limit"} \/ (Ending = "" /\ ~Enough)
    /\ node' = "failed" /\ run' = "failed" /\ Released
    /\ UNCHANGED <<item, worker, spent, used, waiting, job, mapFaults>>

(* InterruptWorkflowAttempt, then the pass goes on to the cancellation,    *)
(* releases the run, or pauses it.                                         *)
FinishInterrupted ==
    /\ at = "finish" /\ live /\ Ending \in {"cancelled", "stopped", "paused"}
    /\ node' = "interrupted"
    /\ run' = IF Ending = "paused" /\ run = "running" THEN "paused" ELSE run
    /\ IF Ending = "cancelled"
       THEN at' = "boundary" /\ UNCHANGED <<live, heard, why>>
       ELSE Released
    /\ UNCHANGED <<item, worker, spent, used, waiting, job, mapFaults>>

-----------------------------------------------------------------------------
(* The goroutine of an item                                                *)

(* authorizeRunOwner: the run is running and the attempt is in flight.     *)
Authorized(i) == live /\ run = "running" /\ i \in Running

(* The context of the items has ended.                                     *)
Stopped == heard # {} \/ why \in {"cancelled", "stopped", "failed"}

Return(i, result) ==
    /\ job' = [job EXCEPT ![i] = result]
    /\ UNCHANGED <<run, node, live, item, spent, waiting, at, heard, why, mapFaults>>

(* A deterministic item, or an adopted report: nothing stops it.           *)
Compute(i) ==
    /\ job[i] = "working" /\ (Kind = "deterministic" \/ worker[i].adopted)
    /\ \E result \in {"succeeded", "failed"}: Return(i, result)
    /\ UNCHANGED <<worker, used>>

Fresh(i) == job[i] = "working" /\ Kind = "agent" /\ ~worker[i].adopted

(* AdmitRunSubagent and StartSubagent.                                     *)
Admit(i) ==
    /\ Fresh(i) /\ worker[i].state = "none" /\ Authorized(i)
    /\ worker' = [worker EXCEPT ![i].state = "running"]
    /\ UNCHANGED <<run, node, live, item, spent, used, waiting, at, heard, why, job, mapFaults>>

(* runAgent, when no worker was admitted.                                  *)
NotAdmitted(i) ==
    /\ Fresh(i) /\ worker[i].state = "none"
    /\ \/ heard # {} /\ Return(i, "interrupted")
       \/ heard = {} /\ ~Authorized(i) /\ Return(i, "refused")
       \/ heard = {} /\ Return(i, "failed")
    /\ UNCHANGED <<worker, used>>

CallModel(i) ==
    /\ Fresh(i) /\ worker[i].state = "running" /\ ~worker[i].calling
    /\ worker[i].responses < Budget /\ Authorized(i)
    /\ worker' = [worker EXCEPT ![i].calling = TRUE]
    /\ used' = used + 1
    /\ UNCHANGED <<run, node, live, item, spent, waiting, at, heard, why, job, mapFaults>>

(* The response is committed; it may be the worker's report.               *)
Respond(i) ==
    /\ Fresh(i) /\ worker[i].state = "running" /\ worker[i].calling /\ Authorized(i)
    /\ \E state \in {"running", "reported"}:
          worker' = [worker EXCEPT ![i].calling = FALSE, ![i].responses = @ + 1, ![i].state = state]
    /\ UNCHANGED <<run, node, live, item, spent, used, waiting, at, heard, why, job, mapFaults>>

(* runAgent, when the worker settled: its usage is a lower bound when the  *)
(* turn ended in a model call and that could be written.                   *)
Settle(i) ==
    LET w == worker[i]
        complete == ~(w.calling /\ Authorized(i))
    IN
    /\ Fresh(i) /\ w.state \in {"running", "reported"}
    /\ worker' = [worker EXCEPT ![i] = [Settled(w) EXCEPT !.complete = complete]]
    /\ IF w.state = "reported"
       THEN \E result \in {"succeeded", "failed"}: Return(i, result)
       ELSE Return(i, IF Stopped THEN "interrupted" ELSE "failed")
    /\ UNCHANGED used

-----------------------------------------------------------------------------
Goroutine(i) ==
    \/ Compute(i) \/ Admit(i) \/ NotAdmitted(i)
    \/ CallModel(i) \/ Respond(i) \/ Settle(i)

Loop == Begin \/ FinishCancel \/ StopAtBoundary \/ Check \/ StartItems \/ StartRefused
        \/ Wake \/ FinishSuccess \/ FinishFailure \/ FinishInterrupted

Act ==
    \/ Claim \/ LoseLease \/ Cancel \/ HearCancel \/ StopRuntime
    \/ Loop
    \/ \E i \in List: Goroutine(i) \/ Record(i) \/ Backoff(i)

MapNext == Act /\ UNCHANGED step

MapSpec == MapInit /\ [][MapNext]_mapVars

(* The scheduler claims what it finds and the loop goes on; items return   *)
(* within their deadlines, and select is fair to what they return;         *)
(* backoffs pass and the poll hears a cancellation.                        *)
Fairness ==
    /\ WF_mapVars(Claim /\ UNCHANGED step)
    /\ WF_mapVars(HearCancel /\ UNCHANGED step)
    /\ WF_mapVars(Loop /\ UNCHANGED step)
    /\ \A i \in UNION {1..s.items: s \in Steps}:
          /\ WF_mapVars(i \in List /\ Goroutine(i) /\ UNCHANGED step)
          /\ SF_mapVars(i \in List /\ Record(i) /\ UNCHANGED step)
          /\ WF_mapVars(i \in List /\ Backoff(i) /\ UNCHANGED step)

FairMapSpec == MapSpec /\ Fairness

-----------------------------------------------------------------------------
(* Properties                                                              *)

(* Values of the variables, and attempts within the retry policy and the   *)
(* bound of interruptions of their item, over all claims of the run.       *)
MapTypeOK ==
    /\ run \in {"running", "paused", "cancelling"} \cup Over
    /\ node \in {"none", "running", "interrupted", "succeeded", "failed"}
    /\ \A i \in List:
          /\ item[i].state \in {"none", "running", "succeeded", "failed", "interrupted"}
          /\ item[i].failed \in 0..Attempts /\ item[i].cut \in 0..Interruptions
          /\ worker[i].state \in {"none", "running", "reported", "succeeded", "ended"}
          /\ worker[i].responses \in 0..Budget
    /\ at \in {"none", "boundary", "check", "start", "wait", "finish"}

(* An item is in flight only while its map is: whoever ends, interrupts or *)
(* takes over a map's attempt has ended its items.                         *)
ItemsEndFirst == Running # {} => node = "running" /\ run \notin Over

(* The run never commits more tokens or attempts than its limits: a batch  *)
(* at the limit, retries, crashes and adopted workers included.            *)
WithinLimits == Spend <= MaxTokens /\ Counted <= MaxAttempts

(* A map that succeeded decided every item and has the successes it needs. *)
EnoughSucceeded ==
    node = "succeeded" => AllDone /\ (OnItemFailure = "partial" => Cardinality(Succeeded) >= MinSucceeded)

(* A map's items are accounted for: none outlives its map's attempt, none  *)
(* is tried beyond its policy, the run stays within its limits, and a map  *)
(* that succeeded has decided them all.                                    *)
ItemsAreAccounted == MapTypeOK /\ ItemsEndFirst /\ WithinLimits /\ EnoughSucceeded

(* What keeps a step from running an item in vain.                         *)
NotInVain ==
    /\ OnItemFailure = "fail" /\ (\E i \in List: item[i].failed >= Attempts)
         => \A i \in List: item'[i].state = "running" => item[i].state = "running"
    /\ \A i \in List:
         worker[i].state \in {"reported", "succeeded"} /\ item[i].state # "failed"
           => worker'[i].state \in {"reported", "succeeded"}

(* No item is run in vain.  With on_item_failure: fail, none starts after  *)
(* one has failed for good, in this claim or a later one; and a worker     *)
(* that reported is not run again unless its report was rejected: after a  *)
(* crash the report is taken over.                                         *)
NothingRunsInVain == [][NotInVain]_mapVars

(* The map ends, whatever was lost, stopped or paused on the way.          *)
MapEnds == <>(run \in {"failed", "cancelled"} \/ node = "succeeded")
=============================================================================
