--------------------------- MODULE WorkflowRuntime ---------------------------
(***************************************************************************)
(* The execution passes of internal/workflowruntime over the run store:    *)
(* claim a due run, check that it may continue, take its steps one at a    *)
(* time from the latest checkpoint, reconcile what is unknown, release.    *)
(* One run, whose definition is a line of steps, is advanced by several    *)
(* runtimes and answered by its owner; the provider of its effects is      *)
(* outside the repository and modelled from how the runtime uses it.       *)
(*                                                                         *)
(* A pass is what one goroutine of a runtime does between two store calls: *)
(* each action below is one store call or one call of the provider, with   *)
(* everything the code does up to the next one.  What it decides at        *)
(* "advance" is decided from that moment's rows; the owner may cancel, the *)
(* lease may expire and another runtime may claim the run before the       *)
(* decision is carried out.                                                *)
(*                                                                         *)
(* The lost context of a pass is not modelled: it is set only once the     *)
(* lease is lost, when the fence refuses whatever the pass still writes.   *)
(* Branch, AI, agent and map steps are left out.                           *)
(***************************************************************************)
EXTENDS WorkflowRunStore

CONSTANTS
  Run,            \* the run
  StepAttempts,   \* attempts a step's Retry Policy allows
  RunAttempts,    \* limits.max_attempts
  Interruptions,  \* the interruption bound
  Backoff,        \* a step's backoff
  Recheck,        \* SchedulerConfig.Recheck
  EffectTimeout,  \* SchedulerConfig.EffectTimeout, the settle delay
  Latency,        \* ticks a request may take to reach its provider
  Settings,       \* definitions, providers and kinds of fault to consider
  MaxFaults       \* bound: how many faults

FaultKinds == {"crash", "stop", "stall", "write", "refuse", "lookup", "race", "late"}

ASSUME RuntimeAssumption ==
  /\ Run \in Runs
  /\ \A x \in Settings :
       /\ \E n \in 1..MaxCheckpoint :
            x.steps \in [0..(n - 1) -> {"deterministic", "read", "effect", "interrupt"}]
       /\ x.idempotent \in BOOLEAN /\ x.reconciler \in Reconcilers
       /\ x.faults \subseteq FaultKinds
  /\ {Backoff, Recheck, EffectTimeout} \subseteq 1..MaxWait
  /\ {StepAttempts, Interruptions} \subseteq Nat \ {0}
  /\ {RunAttempts, Latency, MaxFaults} \subseteq Nat

VARIABLES
  setting,   \* the run's steps by the checkpoint that names them, who reconciles,
             \*   whether its provider is idempotent, and what faults occur
  pass,      \* what each runtime is doing with the run
  request,   \* what became of the request an attempt sent, by its seq
  deadline,  \*   and the ticks left for one on its way to arrive
  faults     \* faults so far

runtimeVars == <<vars, setting, pass, request, deadline, faults>>
provider == <<setting, request, deadline>>

StepKind == setting.steps

-----------------------------------------------------------------------------
(* Passes.                                                                 *)

Places == {"idle", "continue", "pause", "resume", "advance", "settling",
           "begin", "run", "effect", "check", "send", "call", "record",
           "reconcile", "look", "resolve", "defer", "ask", "fail", "cancel",
           "release", "answer", "owner"}

(* Places whose next step is a write that the fence may refuse.            *)
Writing == {"pause", "resume", "begin", "run", "effect", "check", "record",
            "reconcile", "resolve", "defer", "ask", "fail", "cancel",
            "answer", "owner"}

(* Mutant: the heartbeat stops while the provider is called.               *)
BeatingBetweenCalls == Places \ {"idle", "answer", "owner", "release", "call"}

(* A heartbeat renews the lease of an execution pass, but neither of the   *)
(* owner's answers nor of a pass about to release.                         *)
Beating == Places \ {"idle", "answer", "owner", "release"}

Idle == [pc |-> "idle", tok |-> 0, at |-> 0, doing |-> 0, answer |-> "none",
         settling |-> FALSE, stopping |-> FALSE]

RuntimeTypeOK ==
  /\ setting \in Settings
  /\ pass \in [Holders ->
       [pc: Places, tok: Tokens, at: Checkpoints, doing: {0} \cup Seqs,
        answer: {"none", "happened", "refused", "unknown", "succeeded",
                 "failed", "later", "owner"},
        settling: BOOLEAN, stopping: BOOLEAN]]
  /\ request \in [Seqs -> {"unsent", "sent", "performed", "repeated", "refused", "lost"}]
  /\ deadline \in [Seqs -> 0..Latency]
  /\ faults \in 0..MaxFaults

RuntimeInit ==
  /\ Init
  /\ setting \in Settings
  /\ pass = [h \in Holders |-> Idle]
  /\ request = [a \in Seqs |-> "unsent"]
  /\ deadline = [a \in Seqs |-> 0]
  /\ faults = 0

At(h, place) == pass[h].pc = place
Goto(h, place) == pass' = [pass EXCEPT ![h].pc = place]
End(h) == pass' = [pass EXCEPT ![h] = Idle]
Loop(h, settling) ==
  pass' = [pass EXCEPT ![h] = [Idle EXCEPT !.pc = "advance", !.tok = pass[h].tok,
             !.settling = settling, !.stopping = pass[h].stopping]]

Holds(h) == Fenced(Run, h, pass[h].tok)

(* Something outside the run's control goes wrong.                         *)
Fault(kind) ==
  /\ kind \in setting.faults
  /\ faults < MaxFaults
  /\ faults' = faults + 1

-----------------------------------------------------------------------------
(* What a pass reads: WorkflowRunProgress and the step's Effect Intents.   *)

Made(c) == {a \in Seqs : attState[Run][a] # "none" /\ attCkpt[Run][a] = c}
Attempts(c) == {a \in Made(c) : attState[Run][a] # "interrupted"}
Counted == {a \in Seqs : attState[Run][a] \notin {"none", "interrupted"}}
Intents(c) == {a \in Made(c) : effect[Run][a] # "none"}

(* Interruptions that count: an attempt that sent an intent left an        *)
(* unknown outcome instead.                                                *)
SafelyInterrupted(c) ==
  {a \in Made(c) : attState[Run][a] = "interrupted" /\ effect[Run][a] = "none"}

LastIntent(c) == CHOOSE a \in Intents(c) : \A b \in Intents(c) : b <= a

(* An effect's outcome is unknown, and the run waits for its receipt.      *)
Reconciling ==
  \/ state[Run] = "needs_reconciliation"
  \/ state[Run] = "cancelling" /\ ~EffectsResolved(Run)

RunLimitReached == Cardinality(Counted) >= RunAttempts
LimitReached(c) == RunLimitReached \/ Cardinality(Attempts(c)) >= StepAttempts

SuccessEnd(c) == IF c + 1 \in DOMAIN StepKind THEN "advance" ELSE "finish"

(* How a failed attempt ends that is the nth its Retry Policy counts.      *)
FailureEnd(n) == IF n >= StepAttempts THEN "fail" ELSE "retry"

-----------------------------------------------------------------------------
(* Claiming: the scheduler's poll, or a stale list of due runs.            *)

ClaimAs(h, place, answer) ==
  /\ At(h, "idle")
  /\ AcquireWorkflowRunLease(Run, h)
  /\ pass' = [pass EXCEPT ![h] = [Idle EXCEPT !.pc = place, !.tok = token[Run] + 1,
                                              !.answer = answer]]
  /\ UNCHANGED provider

Claim(h) ==
  /\ ClaimAs(h, "continue", "none")
  /\ \/ Due(Run) /\ UNCHANGED faults
     \/ ~Due(Run) /\ Fault("race")

(* continueRun, continueReconciliation and continueCancellation: may the   *)
(* run continue, in the state this claim finds it in?                      *)
Continue(h) ==
  /\ At(h, "continue")
  /\ \/ /\ Reconciling
        /\ IF notBefore[Run] # 0 THEN Goto(h, "release") ELSE Goto(h, "advance")
        /\ UNCHANGED faults
     \/ /\ Reconciling /\ notBefore[Run] = 0
        /\ pass' = [pass EXCEPT ![h].pc = "defer", ![h].answer = "later"]
        /\ Fault("refuse")
     \/ /\ state[Run] = "cancelling" /\ ~Reconciling
        /\ Goto(h, "cancel")
        /\ UNCHANGED faults
     \/ /\ state[Run] = "waiting_for_human"
        /\ Goto(h, "release")
        /\ UNCHANGED faults
     \/ /\ state[Run] \notin {"needs_reconciliation", "cancelling", "waiting_for_human"}
        /\ \/ Goto(h, "resume") /\ UNCHANGED faults
           \/ Goto(h, "pause") /\ Fault("refuse")
  /\ UNCHANGED <<vars, provider>>

Pause(h) ==
  /\ At(h, "pause")
  /\ PauseWorkflowRun(Run, h, pass[h].tok, Recheck)
  /\ Goto(h, "release")
  /\ UNCHANGED <<provider, faults>>

(* A run that is not paused is resumed without a change.                   *)
Resume(h) ==
  /\ At(h, "resume")
  /\ \/ /\ Holds(h)
        /\ \/ ResumeWorkflowRun(Run, h, pass[h].tok)
           \/ state[Run] # "waiting_for_dependency" /\ UNCHANGED vars
        /\ Goto(h, "advance")
        /\ UNCHANGED faults
     \/ Holds(h) /\ Goto(h, "pause") /\ Fault("refuse") /\ UNCHANGED vars
  /\ UNCHANGED provider

-----------------------------------------------------------------------------
(* advance and step: what the pass does next, from the rows it reads now.  *)

Plan(h, place) == pass' = [pass EXCEPT ![h].pc = place, ![h].at = ckpt[Run]]

(* The run waits, is finished, or is not due.                              *)
Parked ==
  \/ state[Run] \notin {"queued", "running", "cancelling"}
  \/ InFlight(Run)
  \/ state[Run] # "cancelling" /\ notBefore[Run] > 0

(* Mutant: the settle delay is not waited for.                             *)
AwaitNothing(h) ==
  pass' = [pass EXCEPT ![h].settling = FALSE,
             ![h].pc = IF pass[h].stopping THEN "release" ELSE "reconcile"]

(* A pass that has just found the outcome unknown waits out the settle     *)
(* delay under its lease, so that a request still landing is not looked up *)
(* too early.                                                              *)
AwaitReconciliation(h) ==
  LET wait == pass[h].settling /\ notBefore[Run] > 0 /\ ~pass[h].stopping
      due == notBefore[Run] = 0 /\ ~pass[h].stopping
  IN pass' = [pass EXCEPT ![h].settling = FALSE,
                ![h].pc = IF wait THEN "settling" ELSE IF due THEN "reconcile" ELSE "release"]

Settled(h) ==
  /\ At(h, "settling")
  /\ \/ notBefore[Run] <= 0 /\ Goto(h, "advance")
     \/ pass[h].stopping /\ Goto(h, "release")
  /\ UNCHANGED <<vars, provider, faults>>

(* Mutant: an effect reconciled as having happened is sent again.          *)
PlanEffectAgain(h, c) ==
  /\ Plan(h, IF Cardinality(Intents(c)) >= StepAttempts \/ RunLimitReached
             THEN "fail" ELSE "effect")
  /\ UNCHANGED faults

(* effect, up to its store call: continue from a receipt, or send.         *)
PlanEffect(h, c) ==
  LET last == effect[Run][LastIntent(c)]
      n == Cardinality(Intents(c))
  IN IF n > 0 /\ last = "succeeded" THEN Plan(h, "begin") /\ UNCHANGED faults
     ELSE IF n >= StepAttempts \/ RunLimitReached
     THEN Plan(h, "fail") /\ UNCHANGED faults
     ELSE \/ Plan(h, "effect") /\ UNCHANGED faults
          \/ Plan(h, "fail") /\ Fault("late")
          \/ Plan(h, "pause") /\ Fault("refuse")

Step(h, c) ==
  IF Cardinality(SafelyInterrupted(c)) >= Interruptions
  THEN Plan(h, "fail") /\ UNCHANGED faults
  ELSE \/ StepKind[c] = "effect" /\ PlanEffect(h, c)
       \/ /\ StepKind[c] \in {"deterministic", "read"} \/ questions[Run][c] = "none"
          /\ StepKind[c] # "effect"
          /\ LET place == IF StepKind[c] = "interrupt" THEN "ask" ELSE "begin"
             IN \/ Plan(h, IF LimitReached(c) THEN "fail" ELSE place) /\ UNCHANGED faults
                \/ ~LimitReached(c) /\ Plan(h, "fail") /\ Fault("late")
                \/ StepKind[c] = "read" /\ Plan(h, "pause") /\ Fault("refuse")
       \/ /\ StepKind[c] = "interrupt" /\ questions[Run][c] = "answered"
          /\ Plan(h, "begin")
          /\ UNCHANGED faults

Advance(h) ==
  /\ At(h, "advance")
  /\ \/ Reconciling /\ AwaitReconciliation(h) /\ UNCHANGED faults
     \/ /\ ~Reconciling /\ Parked
        /\ Goto(h, "release")
        /\ UNCHANGED faults
     \/ /\ ~Reconciling /\ ~Parked /\ state[Run] = "cancelling"
        /\ Goto(h, "cancel")
        /\ UNCHANGED faults
     \/ /\ ~Reconciling /\ ~Parked /\ state[Run] # "cancelling"
        /\ IF pass[h].stopping THEN Goto(h, "release") /\ UNCHANGED faults
                               ELSE Step(h, ckpt[Run])
  /\ UNCHANGED <<vars, provider>>

(* Run admission refuses a node in the transaction that would record it.   *)
NotAdmitted(h) ==
  /\ pass[h].pc \in {"begin", "effect", "ask"}
  /\ Holds(h)
  /\ Goto(h, "pause")
  /\ Fault("refuse")
  /\ UNCHANGED <<vars, provider>>

-----------------------------------------------------------------------------
(* Steps that call no effect.                                              *)

Begin(h) ==
  /\ At(h, "begin")
  /\ \E a \in Seqs :
       /\ BeginWorkflowAttempt(Run, h, pass[h].tok, pass[h].at, a)
       /\ pass' = [pass EXCEPT ![h].pc = "run", ![h].doing = a]
  /\ UNCHANGED <<provider, faults>>

(* A function or a read may fail; an owner's answer and a reconciled       *)
(* receipt do not.  A read is cut short by a stop or a cancellation.       *)
RunNode(h) ==
  LET t == pass[h].tok
      a == pass[h].doing
      c == pass[h].at
  IN /\ At(h, "run")
     /\ \/ FinishWorkflowAttempt(Run, h, t, a, SuccessEnd(c), Backoff)
        \/ /\ StepKind[c] \in {"deterministic", "read"}
           /\ FinishWorkflowAttempt(Run, h, t, a, FailureEnd(Cardinality(Attempts(c))), Backoff)
        \/ /\ StepKind[c] = "read"
           /\ pass[h].stopping \/ state[Run] = "cancelling"
           /\ InterruptWorkflowAttempt(Run, h, t, a)
     /\ Loop(h, FALSE)
     /\ UNCHANGED <<provider, faults>>

Ask(h) ==
  /\ At(h, "ask")
  /\ AskWorkflowQuestion(Run, h, pass[h].tok, pass[h].at)
  /\ Loop(h, FALSE)
  /\ UNCHANGED <<provider, faults>>

Fail(h) ==
  /\ At(h, "fail")
  /\ FailWorkflowRun(Run, h, pass[h].tok, pass[h].at)
  /\ Loop(h, FALSE)
  /\ UNCHANGED <<provider, faults>>

Cancel(h) ==
  /\ At(h, "cancel")
  /\ FinishWorkflowCancellation(Run, h, pass[h].tok)
  /\ Goto(h, "release")
  /\ UNCHANGED <<provider, faults>>

-----------------------------------------------------------------------------
(* Effects: the intent, the check of the lease, the call, its answer.      *)

Effect(h) ==
  /\ At(h, "effect")
  /\ \/ \E a \in Seqs, ks \in (SUBSET Keys) \ {{}} :
          /\ BeginWorkflowEffect(Run, h, pass[h].tok, pass[h].at, a, setting.reconciler, ks)
          /\ pass' = [pass EXCEPT ![h].pc = "check", ![h].doing = a]
     \/ /\ Holds(h)
        /\ Calls(Run) >= MaxCalls
        /\ Goto(h, "fail")
        /\ UNCHANGED vars
  /\ UNCHANGED <<provider, faults>>

CheckLease(h) ==
  /\ At(h, "check")
  /\ Holds(h)
  /\ Goto(h, "send")
  /\ UNCHANGED <<vars, provider, faults>>

Send(h) ==
  /\ At(h, "send")
  /\ Goto(h, "call")
  /\ request' = [request EXCEPT ![pass[h].doing] = "sent"]
  /\ deadline' = [deadline EXCEPT ![pass[h].doing] = Latency]
  /\ UNCHANGED <<vars, setting, faults>>

(* callEffect returns: the response, the provider's proof that nothing     *)
(* happened, or neither (an error, a panic, a malformed response, its time *)
(* is up), whatever became of the request.                                 *)
Return(h) ==
  /\ At(h, "call")
  /\ \E answer \in {"happened", "refused", "unknown"} :
       /\ answer = "happened" => request[pass[h].doing] \in {"performed", "repeated"}
       /\ answer = "refused" => request[pass[h].doing] = "refused"
       /\ pass' = [pass EXCEPT ![h].pc = "record", ![h].answer = answer]
  /\ UNCHANGED <<vars, provider, faults>>

(* recordAnswer: the receipt with the next checkpoint, a proven failure    *)
(* with its retry or the run's failure, or an unknown outcome.             *)
Record(h) ==
  LET t == pass[h].tok
      a == pass[h].doing
      c == pass[h].at
      answer == pass[h].answer
  IN /\ At(h, "record")
     /\ \/ /\ answer = "happened"
           /\ FinishWorkflowEffect(Run, h, t, a, SuccessEnd(c), Backoff)
        \/ /\ answer = "refused"
           /\ FinishWorkflowEffect(Run, h, t, a, FailureEnd(Cardinality(Intents(c))), Backoff)
        \/ /\ answer = "unknown"
           /\ MarkWorkflowEffectUnknown(Run, h, t, a, EffectTimeout)
     /\ Loop(h, answer = "unknown")
     /\ UNCHANGED <<provider, faults>>

-----------------------------------------------------------------------------
(* reconcileAutomatically: ask the provider what happened.                 *)

(* The provider knows the request of any attempt of the step: they share   *)
(* its idempotency key.                                                    *)
Happened(c) == \E a \in Made(c) : request[a] = "performed"

Reconcile(h) ==
  /\ At(h, "reconcile")
  /\ Holds(h)
  /\ \E a \in Seqs :
       /\ effect[Run][a] = "unknown"
       /\ \/ /\ pass' = [pass EXCEPT ![h].pc = "look", ![h].doing = a]
             /\ UNCHANGED faults
          \/ \E answer \in {"later", "owner"} :
               /\ pass' = [pass EXCEPT ![h].pc = "defer", ![h].answer = answer]
               /\ Fault("refuse")
  /\ UNCHANGED <<vars, provider>>

(* It finds the effect or not, or does not answer, or cannot prove it.     *)
LookUp(h) ==
  /\ At(h, "look")
  /\ \/ /\ pass' = [pass EXCEPT ![h].pc = "resolve", ![h].answer =
             IF Happened(attCkpt[Run][pass[h].doing]) THEN "succeeded" ELSE "failed"]
        /\ UNCHANGED faults
     \/ \E answer \in {"later", "owner"} :
          /\ pass' = [pass EXCEPT ![h].pc = "defer", ![h].answer = answer]
          /\ Fault("lookup")
  /\ UNCHANGED <<vars, provider>>

Resolve(h) ==
  /\ At(h, "resolve")
  /\ ResolveWorkflowEffect(Run, h, pass[h].tok, pass[h].doing, pass[h].answer)
  /\ Loop(h, FALSE)
  /\ UNCHANGED <<provider, faults>>

Defer(h) ==
  /\ At(h, "defer")
  /\ DeferWorkflowReconciliation(Run, h, pass[h].tok,
       IF pass[h].answer = "later" THEN Recheck ELSE 0)
  /\ Goto(h, "release")
  /\ UNCHANGED <<provider, faults>>

-----------------------------------------------------------------------------
(* How a store call fails, and how a pass ends.                            *)

(* ErrWorkflowRunLeaseLost: the pass ends and releases nothing.            *)
LeaseLost(h) ==
  /\ pass[h].pc \in Writing
  /\ ~Holds(h)
  /\ End(h)
  /\ UNCHANGED <<vars, provider, faults>>

(* ErrWorkflowRunCancelling: the owner cancelled since the run was read;   *)
(* it is read again, and its cancellation finished.                        *)
Cancelled(h) ==
  /\ pass[h].pc \in {"pause", "begin", "effect", "ask", "fail"}
  /\ Holds(h)
  /\ state[Run] = "cancelling"
  /\ Goto(h, IF At(h, "pause") THEN "continue" ELSE "advance")
  /\ UNCHANGED <<vars, provider, faults>>

(* The database fails a read or a write: the pass ends with the error.     *)
StoreFails(h) ==
  /\ pass[h].pc \in Writing \cup {"continue", "advance"}
  /\ Goto(h, "release")
  /\ Fault("write")
  /\ UNCHANGED <<vars, provider>>

Release(h) ==
  /\ At(h, "release")
  /\ \/ ReleaseWorkflowRunLease(Run, h, pass[h].tok) /\ UNCHANGED faults
     \/ token[Run] # pass[h].tok /\ UNCHANGED <<vars, faults>>
     \/ Fault("write") /\ UNCHANGED vars
  /\ End(h)
  /\ UNCHANGED provider

Heartbeat(h) ==
  /\ pass[h].pc \in Beating
  /\ left[Run] < LeaseTicks
  /\ HeartbeatWorkflowRunLease(Run, h, pass[h].tok)
  /\ UNCHANGED <<pass, provider, faults>>

(* The runtime is told to stop: a pass ends between nodes.                 *)
Stop(h) ==
  /\ pass[h].pc \in Beating
  /\ ~pass[h].stopping
  /\ pass' = [pass EXCEPT ![h].stopping = TRUE]
  /\ Fault("stop")
  /\ UNCHANGED <<vars, provider>>

(* The process dies: only the database is left of the pass.                *)
Crash(h) ==
  /\ ~At(h, "idle")
  /\ End(h)
  /\ Fault("crash")
  /\ UNCHANGED <<vars, provider>>

-----------------------------------------------------------------------------
(* The owner.                                                              *)

StartRun ==
  /\ StartWorkflowRun(Run)
  /\ UNCHANGED <<pass, provider, faults>>

CancelRun ==
  /\ RequestWorkflowRunCancellation(Run)
  /\ UNCHANGED <<pass, provider, faults>>

AnswerRun(h) ==
  /\ state[Run] = "waiting_for_human"
  /\ ClaimAs(h, "answer", "none")
  /\ UNCHANGED faults

(* The answer, refused when the owner cancelled since the claim.           *)
Answer(h) ==
  /\ At(h, "answer")
  /\ \/ \E c \in Checkpoints : AnswerWorkflowQuestion(Run, h, pass[h].tok, c)
     \/ Holds(h) /\ state[Run] # "waiting_for_human" /\ UNCHANGED vars
  /\ Goto(h, "release")
  /\ UNCHANGED <<provider, faults>>

(* Mutant: the owner cannot reconcile a cancelling run.                    *)
ReconcileUncancelled(h) ==
  /\ state[Run] \in {"needs_reconciliation", "running", "waiting_for_dependency"}
  /\ \A a \in Seqs : request[a] # "sent"
  /\ \E a \in Seqs :
       /\ Unresolved(Run, a)
       /\ ClaimAs(h, "owner", IF Happened(attCkpt[Run][a]) THEN "succeeded" ELSE "failed")
  /\ UNCHANGED faults

(* The owner tells what happened, having looked at the provider once       *)
(* nothing was on its way to it.                                           *)
ReconcileRun(h) ==
  /\ state[Run] \in {"needs_reconciliation", "cancelling", "running", "waiting_for_dependency"}
  /\ \A a \in Seqs : request[a] # "sent"
  /\ \E a \in Seqs :
       /\ Unresolved(Run, a)
       /\ ClaimAs(h, "owner", IF Happened(attCkpt[Run][a]) THEN "succeeded" ELSE "failed")
  /\ UNCHANGED faults

ReconcileClaimed(h) ==
  /\ At(h, "owner")
  /\ \E a \in Seqs : ResolveWorkflowEffect(Run, h, pass[h].tok, a, pass[h].answer)
  /\ Goto(h, "release")
  /\ UNCHANGED <<provider, faults>>

-----------------------------------------------------------------------------
(* The provider and the clock.                                             *)

(* A request arrives, and is performed unless an idempotent provider knows *)
(* it, or is declined; or it is lost on the way.                           *)
Arrive(a) ==
  /\ request[a] = "sent"
  /\ \E fate \in {"performed", "refused", "lost"} :
       request' = [request EXCEPT ![a] =
         IF fate = "performed" /\ setting.idempotent /\ Happened(attCkpt[Run][a])
         THEN "repeated" ELSE fate]
  /\ deadline' = [deadline EXCEPT ![a] = 0]
  /\ UNCHANGED <<vars, setting, pass, faults>>

(* A runtime is not stalled for a tick: heartbeats are on time, and what   *)
(* is done without one is done at once.                                    *)
OnTime(h) ==
  Holds(h) => /\ pass[h].pc \in Beating => left[Run] = LeaseTicks
              /\ pass[h].pc \notin {"answer", "owner", "release"}

Time ==
  /\ IF \A h \in Holders : OnTime(h) THEN UNCHANGED faults ELSE Fault("stall")
  /\ \A a \in Seqs : request[a] = "sent" => deadline[a] > 0
  /\ Tick
  /\ deadline' = [a \in Seqs |-> IF deadline[a] > 0 THEN deadline[a] - 1 ELSE 0]
  /\ UNCHANGED <<setting, pass, request>>

-----------------------------------------------------------------------------
PassStep(h) ==
  \/ Continue(h) \/ Pause(h) \/ Resume(h) \/ Advance(h) \/ Settled(h)
  \/ NotAdmitted(h) \/ Begin(h) \/ RunNode(h) \/ Ask(h) \/ Fail(h) \/ Cancel(h)
  \/ Effect(h) \/ CheckLease(h) \/ Send(h) \/ Return(h) \/ Record(h)
  \/ Reconcile(h) \/ LookUp(h) \/ Resolve(h) \/ Defer(h)
  \/ LeaseLost(h) \/ Cancelled(h) \/ Release(h) \/ Answer(h) \/ ReconcileClaimed(h)

RuntimeNext ==
  \/ StartRun \/ CancelRun \/ Time
  \/ \E a \in Seqs : Arrive(a)
  \/ \E h \in Holders :
       \/ Claim(h) \/ PassStep(h) \/ Heartbeat(h)
       \/ AnswerRun(h) \/ ReconcileRun(h)
       \/ StoreFails(h) \/ Stop(h) \/ Crash(h)

RuntimeSafety == RuntimeInit /\ [][RuntimeNext]_runtimeVars

(* Goroutines run, the scheduler polls, time passes, a request arrives or  *)
(* is lost, and the owner answers what waits for an answer.                *)
Fairness ==
  /\ WF_runtimeVars(Time)
  /\ \A a \in Seqs : WF_runtimeVars(Arrive(a))
  /\ \A h \in Holders : WF_runtimeVars(PassStep(h)) /\ WF_runtimeVars(Heartbeat(h))
  /\ WF_runtimeVars(\E h \in Holders : Claim(h))
  /\ WF_runtimeVars(\E h \in Holders : AnswerRun(h))
  /\ WF_runtimeVars(\E h \in Holders : ReconcileRun(h))

RuntimeSpec == RuntimeSafety /\ Fairness

-----------------------------------------------------------------------------
(* Safety.                                                                 *)

Performed(c) == {a \in Made(c) : request[a] = "performed"}

(* A request reaches its provider, or is lost, before the settle delay is  *)
(* over and before the lease of a dead holder runs out.                    *)
Prompt == Latency < EffectTimeout /\ Latency + 1 < LeaseTicks

(* Every write that a runtime tries is carried out, no runtime is stalled  *)
(* past its lease, and no request takes too long.                          *)
Undisturbed == setting.faults \cap {"write", "stall"} = {} /\ Prompt
EffectSteps == {c \in DOMAIN StepKind : StepKind[c] = "effect"}

(* An effect is performed at most once, although its provider is not       *)
(* idempotent, over crashes, retries, reconciliation and cancellation.     *)
EffectAtMostOnce == Undisturbed => \A c \in EffectSteps : Cardinality(Performed(c)) <= 1

(* A receipt tells what happened: a succeeded effect was performed, and a  *)
(* failed one was not, nor will be by a request still on its way.          *)
ReceiptsTellTheTruth ==
  Undisturbed => \A c \in EffectSteps : \A a \in Intents(c) :
    /\ effect[Run][a] = "succeeded" => Happened(c)
    /\ effect[Run][a] = "failed" => request[a] \notin {"sent", "performed"}

(* A run that succeeded performed each of its effects exactly once.        *)
SuccessMeansDone ==
  state[Run] = "succeeded" /\ (Undisturbed \/ setting.idempotent) =>
    \A c \in EffectSteps : Cardinality(Performed(c)) = 1

(* Nothing reaches a provider after its run is over: no request is on its  *)
(* way, or about to be sent, for a finished run.                           *)
NothingAfterTheEnd ==
  Undisturbed /\ Terminal(Run) =>
    /\ \A a \in Seqs : request[a] # "sent"
    /\ \A h \in Holders : pass[h].pc \notin {"check", "send", "call"}

(* The run's provider is called by one runtime at a time.                  *)
OneCaller ==
  Undisturbed => \A g, h \in Holders :
    pass[g].pc \in {"send", "call", "look"} /\ pass[h].pc \in {"send", "call", "look"} => g = h

(* A step is neither retried past its Retry Policy nor, by crash loops     *)
(* that record nothing, started past the interruption bound; what was      *)
(* reconciled, interrupted or retried in between does not reset the count. *)
RetriesAreBounded ==
  \A c \in DOMAIN StepKind :
    /\ Cardinality(IF StepKind[c] = "effect" THEN Intents(c) ELSE Attempts(c)) <= StepAttempts
    /\ Cardinality(SafelyInterrupted(c)) <= Interruptions

(* What is recorded of a run's effects is what happened to them.           *)
OutcomesAreTrue == ReceiptsTellTheTruth /\ SuccessMeansDone /\ NothingAfterTheEnd

(* Runtimes take turns at a run, within its bounds.                        *)
PassesAreOrderly == RuntimeTypeOK /\ OneCaller /\ RetriesAreBounded

-----------------------------------------------------------------------------
(* Liveness.                                                               *)

(* A started run finishes: it is neither forgotten by the schedulers nor   *)
(* left waiting for something that has already happened.                   *)
EventuallyFinishes == state[Run] = "queued" ~> Terminal(Run)

=============================================================================
