-------------------------- MODULE WorkflowRunStore --------------------------
(***************************************************************************)
(* The durable store of workflow runs (internal/eviedb): every operation   *)
(* of workflow_runs.go, workflow_run_leases.go, workflow_run_nodes.go,     *)
(* workflow_effects.go, workflow_interruptions.go and                      *)
(* workflow_cancellations.go that changes a run, its lease, its node       *)
(* attempts, its Effect Intents, its questions or its Resource Conflict    *)
(* Keys.  Each operation is one immediate SQLite transaction, hence one    *)
(* action.                                                                 *)
(*                                                                         *)
(* Callers are not modelled here: an operation may be called by any        *)
(* holder, with any lease token and any argument, at any time, which is    *)
(* what crashed, stalled and stale runtimes amount to for the store.  The  *)
(* callers are module WorkflowRuntime.                                     *)
(*                                                                         *)
(* The schema's own defences (unique indexes and triggers) are NOT guards  *)
(* of the actions: the properties at the end state them, so they are shown *)
(* never to be what stops an operation.                                    *)
(*                                                                         *)
(* Time is kept as what remains: a lease's "left" and a run's notBefore    *)
(* are ticks from now, and every comparison with now is one with zero.     *)
(* Run admission (authorizeWorkflowRun, admitWorkflowNode) depends on      *)
(* tables outside this module and only ever refuses: a refused call is an  *)
(* action not taken.  Map items, model calls and worker calls are left     *)
(* out.                                                                    *)
(***************************************************************************)
EXTENDS Integers, FiniteSets

CONSTANTS
  Runs,           \* the run ids a database can hold
  RunKey,         \* the Run Key each of them is started with
  Holders,        \* runtime processes
  NoHolder,       \* the holder of a lease never claimed
  Keys,           \* Resource Conflict Keys
  LeaseTicks,     \* a lease's duration
  MaxWait,        \* the longest backoff, recheck or settle delay
  MaxToken,       \* bound: lease claims of one run
  MaxAttempts,    \* bound: node attempts of one run
  MaxCheckpoint,  \* bound: checkpoints of one run
  MaxCalls        \* max_calls_per_run of the effects' operation

ASSUME ConstantsAssumption ==
  /\ NoHolder \notin Holders
  /\ LeaseTicks \in Nat \ {0}
  /\ MaxWait \in Nat \ {0}
  /\ MaxToken \in Nat
  /\ MaxAttempts \in Nat
  /\ MaxCheckpoint \in Nat
  /\ MaxCalls \in Nat

VARIABLES
  state,       \* workflow_runs.state; "absent" before the run is started
  notBefore,   \* workflow_runs.not_before, in ticks from now, or NoTime
  ckpt,        \* seq of the latest row of workflow_run_checkpoints
  holder,      \* workflow_run_leases: holder_id,
  token,       \*   fencing_token, and
  left,        \*   the ticks to expires_at; none once expired or released
  attState,    \* workflow_node_attempts, by seq; state "none" is no row
  attCkpt,     \*   input_checkpoint
  attToken,    \*   lease_token
  effect,      \* WorkflowEffectIntent.State() of the intent an attempt sent,
               \*   by the attempt's seq; "none" is no intent
  reconciler,  \*   who reconciles it (workflow_effect_intents.reconcile)
  held,        \* workflow_effect_conflicts not released: by key, who holds it
  questions    \* workflow_interruptions of kind question, by checkpoint

leaseVars == <<holder, token, left>>
attemptVars == <<attState, attCkpt, attToken>>
effectVars == <<effect, reconciler, held>>
vars == <<state, notBefore, ckpt, leaseVars, attemptVars, effectVars, questions>>

-----------------------------------------------------------------------------
(* Rows and their values.                                                  *)

Seqs == 1..MaxAttempts
Tokens == 0..MaxToken
Checkpoints == 0..MaxCheckpoint
NoTime == -1

TerminalStates == {"succeeded", "failed", "cancelled"}
RunStates == {"absent", "queued", "running", "waiting_for_human",
              "waiting_for_dependency", "needs_reconciliation", "cancelling",
              "succeeded", "failed", "cancelled"}
AttemptStates == {"none", "running", "succeeded", "failed", "interrupted"}
EffectStates == {"none", "pending", "unknown", "succeeded", "failed"}
Reconcilers == {"provider", "owner"}
QuestionStates == {"none", "open", "answered", "withdrawn"}

(* How a caller may end a node attempt (WorkflowAttemptEnd): it succeeded  *)
(* with a next step, or with none; it failed and is retried after a        *)
(* backoff, or at once; it failed and fails the run.                       *)
SucceededEnds == {"advance", "finish"}
AttemptEnds == {"advance", "finish", "retry", "again", "fail"}

(* Every row is well formed.                                               *)
TypeOK ==
  /\ state \in [Runs -> RunStates]
  /\ notBefore \in [Runs -> {NoTime} \cup 0..MaxWait]
  /\ ckpt \in [Runs -> Checkpoints]
  /\ holder \in [Runs -> Holders \cup {NoHolder}]
  /\ token \in [Runs -> Tokens]
  /\ left \in [Runs -> 0..LeaseTicks]
  /\ attState \in [Runs -> [Seqs -> AttemptStates]]
  /\ attCkpt \in [Runs -> [Seqs -> Checkpoints]]
  /\ attToken \in [Runs -> [Seqs -> Tokens]]
  /\ effect \in [Runs -> [Seqs -> EffectStates]]
  /\ reconciler \in [Runs -> [Seqs -> Reconcilers]]
  /\ held \in [Keys -> SUBSET (Runs \X Seqs)]
  /\ questions \in [Runs -> [Checkpoints -> QuestionStates]]

Init ==
  /\ state = [r \in Runs |-> "absent"]
  /\ notBefore = [r \in Runs |-> NoTime]
  /\ ckpt = [r \in Runs |-> 0]
  /\ holder = [r \in Runs |-> NoHolder]
  /\ token = [r \in Runs |-> 0]
  /\ left = [r \in Runs |-> 0]
  /\ attState = [r \in Runs |-> [a \in Seqs |-> "none"]]
  /\ attCkpt = [r \in Runs |-> [a \in Seqs |-> 0]]
  /\ attToken = [r \in Runs |-> [a \in Seqs |-> 0]]
  /\ effect = [r \in Runs |-> [a \in Seqs |-> "none"]]
  /\ reconciler = [r \in Runs |-> [a \in Seqs |-> "owner"]]
  /\ held = [k \in Keys |-> {}]
  /\ questions = [r \in Runs |-> [c \in Checkpoints |-> "none"]]

-----------------------------------------------------------------------------
(* What the operations ask of the rows before they write.                  *)

Terminal(r) == state[r] \in TerminalStates

(* runRunnable: the run exists and has not finished.                       *)
Runnable(r) == state[r] # "absent" /\ ~Terminal(r)

(* The states a runtime may claim.                                         *)
Schedulable(r) ==
  state[r] \in {"queued", "running", "waiting_for_dependency",
                "needs_reconciliation", "waiting_for_human", "cancelling"}

(* No live lease stands in the way of a claim.                             *)
LeaseFree(r) == left[r] = 0

(* Mutant of Fenced: the expiry is not checked.                            *)
FencedByToken(r, h, t) == holder[r] = h /\ token[r] = t

(* The fence of every write: the caller's lease is the run's current one,  *)
(* neither released nor expired.                                           *)
Fenced(r, h, t) ==
  /\ holder[r] = h
  /\ token[r] = t
  /\ left[r] > 0

InFlight(r) == \E a \in Seqs : attState[r][a] = "running"

(* The intent of the attempt has no receipt.                               *)
Unresolved(r, a) == effect[r][a] \in {"pending", "unknown"}

(* Mutant of EffectsResolved: a marked intent passes for a resolved one.   *)
NoPendingEffect(r) == \A a \in Seqs : effect[r][a] # "pending"

(* requireEffectsResolved: no Effect Intent of the run lacks its receipt.  *)
EffectsResolved(r) == \A a \in Seqs : ~Unresolved(r, a)

(* requireNoOpenQuestion *)
NoOpenQuestion(r) == \A c \in Checkpoints : questions[r][c] # "open"

(* Mutant of NoConflict: one key that is free is enough.                   *)
SomeKeyFree(r, ks) == \E k \in ks : \A x \in held[k] : x[1] = r

(* heldConflict: no other run's intent holds one of the keys.              *)
NoConflict(r, ks) == \A k \in ks : \A x \in held[k] : x[1] = r

(* a is the seq the next attempt of the run gets, MAX(seq)+1.              *)
NextSeq(r, a) ==
  /\ attState[r][a] = "none"
  /\ \A b \in Seqs : b < a => attState[r][b] # "none"

-----------------------------------------------------------------------------
(* Starting a run.                                                         *)

(* A Run Key is free again after failure and cancellation only.            *)
HoldsKey(r) == state[r] \notin {"absent", "failed", "cancelled"}

StartWorkflowRun(r) ==
  /\ state[r] = "absent"
  /\ \A q \in Runs : RunKey[q] = RunKey[r] => ~HoldsKey(q)
  /\ state' = [state EXCEPT ![r] = "queued"]
  /\ UNCHANGED <<notBefore, ckpt, leaseVars, attemptVars, effectVars, questions>>

-----------------------------------------------------------------------------
(* The run's lease.                                                        *)

(* Mutant of Interrupted: nothing is.                                      *)
InterruptedNothing(r, t) == attState[r]

(* A claim under a higher token records whatever an earlier lease left in  *)
(* flight as interrupted.                                                  *)
Interrupted(r, t) ==
  [a \in Seqs |-> IF attState[r][a] = "running" /\ attToken[r][a] < t
                  THEN "interrupted" ELSE attState[r][a]]

(* Effect Intents whose attempt ended with neither receipt nor unknown.    *)
Orphans(r, rows) ==
  {a \in Seqs : effect[r][a] = "pending" /\ rows[a] # "running"}

(* markUnknown, for a set of intents of the run: their outcome is unknown; *)
(* the run needs reconciliation, or stays cancelling, and is due again     *)
(* after settle when the last one's provider reconciles.                   *)
MarkUnknown(r, S, settle) ==
  /\ effect' = [effect EXCEPT ![r] =
       [a \in Seqs |-> IF a \in S THEN "unknown" ELSE effect[r][a]]]
  /\ state' = [state EXCEPT ![r] =
       IF state[r] = "cancelling" THEN "cancelling" ELSE "needs_reconciliation"]
  /\ \E last \in S :
       /\ \A a \in S : a <= last
       /\ notBefore' = [notBefore EXCEPT ![r] =
            IF reconciler[r][last] = "provider" THEN settle ELSE NoTime]

(* A run before its not-before time is claimed only to reconcile an effect *)
(* or to finish a cancellation.                                            *)
MayClaim(r) ==
  \/ notBefore[r] <= 0
  \/ state[r] \in {"needs_reconciliation", "cancelling"}
  \/ ~EffectsResolved(r)

AcquireWorkflowRunLease(r, h) ==
  LET t == token[r] + 1
      rows == Interrupted(r, t)
      orphans == Orphans(r, rows)
  IN /\ t \in Tokens
     /\ Schedulable(r)
     /\ MayClaim(r)
     /\ LeaseFree(r)
     /\ holder' = [holder EXCEPT ![r] = h]
     /\ token' = [token EXCEPT ![r] = t]
     /\ left' = [left EXCEPT ![r] = LeaseTicks]
     /\ attState' = [attState EXCEPT ![r] = rows]
     /\ IF orphans = {} THEN UNCHANGED <<state, notBefore, effect>>
                        ELSE MarkUnknown(r, orphans, 0)
     /\ UNCHANGED <<ckpt, attCkpt, attToken, reconciler, held, questions>>

HeartbeatWorkflowRunLease(r, h, t) ==
  /\ Fenced(r, h, t)
  /\ left' = [left EXCEPT ![r] = LeaseTicks]
  /\ UNCHANGED <<state, notBefore, ckpt, holder, token, attemptVars, effectVars, questions>>

(* Unlike every other write, a release does not need an unexpired lease.   *)
ReleaseWorkflowRunLease(r, h, t) ==
  /\ holder[r] = h
  /\ token[r] = t
  /\ left' = [left EXCEPT ![r] = 0]
  /\ UNCHANGED <<state, notBefore, ckpt, holder, token, attemptVars, effectVars, questions>>

PauseWorkflowRun(r, h, t, recheck) ==
  /\ Fenced(r, h, t)
  /\ Runnable(r)
  /\ state[r] \notin {"cancelling", "needs_reconciliation"}
  /\ ~InFlight(r)
  /\ EffectsResolved(r)
  /\ NoOpenQuestion(r)
  /\ state' = [state EXCEPT ![r] = "waiting_for_dependency"]
  /\ notBefore' = [notBefore EXCEPT ![r] = recheck]
  /\ UNCHANGED <<ckpt, leaseVars, attemptVars, effectVars, questions>>

(* A run that is not paused is left unchanged by the code.                 *)
ResumeWorkflowRun(r, h, t) ==
  /\ Fenced(r, h, t)
  /\ state[r] = "waiting_for_dependency"
  /\ EffectsResolved(r)
  /\ state' = [state EXCEPT ![r] = "running"]
  /\ notBefore' = [notBefore EXCEPT ![r] = NoTime]
  /\ UNCHANGED <<ckpt, leaseVars, attemptVars, effectVars, questions>>

-----------------------------------------------------------------------------
(* Node attempts.                                                          *)

(* beginWorkflowAttempt: attempt a of the step that checkpoint c names.    *)
BeginAttempt(r, t, c, a) ==
  /\ state[r] \in {"queued", "running"}
  /\ notBefore[r] <= 0
  /\ EffectsResolved(r)
  /\ c = ckpt[r]
  /\ ~InFlight(r)
  /\ NextSeq(r, a)
  /\ attState' = [attState EXCEPT ![r][a] = "running"]
  /\ attCkpt' = [attCkpt EXCEPT ![r][a] = c]
  /\ attToken' = [attToken EXCEPT ![r][a] = t]
  /\ state' = [state EXCEPT ![r] = "running"]
  /\ notBefore' = [notBefore EXCEPT ![r] = NoTime]

BeginWorkflowAttempt(r, h, t, c, a) ==
  /\ Fenced(r, h, t)
  /\ BeginAttempt(r, t, c, a)
  /\ UNCHANGED <<ckpt, leaseVars, effectVars, questions>>

(* An attempt ends under the lease it began under, at the checkpoint it    *)
(* began from.                                                             *)
MayEnd(r, t, a) ==
  /\ Runnable(r)
  /\ attState[r][a] = "running"
  /\ attToken[r][a] = t
  /\ attCkpt[r][a] = ckpt[r]

(* The run's state and not-before time once an attempt ended as e.  A      *)
(* failed attempt of a cancelling run is not retried.                      *)
StateAfter(r, e) ==
  CASE e = "finish" -> "succeeded"
    [] e = "fail" -> "failed"
    [] OTHER -> state[r]

NotBeforeAfter(r, e, backoff) ==
  CASE e = "finish" -> NoTime
    [] e = "retry" /\ state[r] # "cancelling" -> backoff
    [] OTHER -> notBefore[r]

(* finishWorkflowAttempt: the output and the next checkpoint together, or  *)
(* the failure with its retry time or the run's failure.                   *)
FinishAttempt(r, t, a, e, backoff) ==
  /\ MayEnd(r, t, a)
  /\ attState' = [attState EXCEPT ![r][a] =
                    IF e \in SucceededEnds THEN "succeeded" ELSE "failed"]
  /\ e \in SucceededEnds => ckpt[r] + 1 \in Checkpoints
  /\ ckpt' = [ckpt EXCEPT ![r] = IF e \in SucceededEnds THEN @ + 1 ELSE @]
  /\ state' = [state EXCEPT ![r] = StateAfter(r, e)]
  /\ notBefore' = [notBefore EXCEPT ![r] = NotBeforeAfter(r, e, backoff)]
  /\ UNCHANGED <<attCkpt, attToken>>

FinishWorkflowAttempt(r, h, t, a, e, backoff) ==
  /\ Fenced(r, h, t)
  /\ ~Unresolved(r, a)
  /\ FinishAttempt(r, t, a, e, backoff)
  /\ UNCHANGED <<leaseVars, effectVars, questions>>

(* A holder that stops, or is told of a cancellation, during a node that   *)
(* calls no effect records its own attempt interrupted.                    *)
InterruptWorkflowAttempt(r, h, t, a) ==
  /\ Fenced(r, h, t)
  /\ ~Unresolved(r, a)
  /\ attState[r][a] = "running"
  /\ attToken[r][a] = t
  /\ attState' = [attState EXCEPT ![r][a] = "interrupted"]
  /\ UNCHANGED <<state, notBefore, ckpt, leaseVars, attCkpt, attToken, effectVars, questions>>

FailWorkflowRun(r, h, t, c) ==
  /\ Fenced(r, h, t)
  /\ Runnable(r)
  /\ state[r] # "cancelling"
  /\ c = ckpt[r]
  /\ ~InFlight(r)
  /\ EffectsResolved(r)
  /\ NoOpenQuestion(r)
  /\ state' = [state EXCEPT ![r] = "failed"]
  /\ notBefore' = [notBefore EXCEPT ![r] = NoTime]
  /\ UNCHANGED <<ckpt, leaseVars, attemptVars, effectVars, questions>>

-----------------------------------------------------------------------------
(* Effects.                                                                *)

Calls(r) == Cardinality({a \in Seqs : effect[r][a] # "none"})

(* The attempt, the intent and its keys, in one transaction, before the    *)
(* provider is called.                                                     *)
BeginWorkflowEffect(r, h, t, c, a, by, ks) ==
  /\ Fenced(r, h, t)
  /\ Calls(r) < MaxCalls
  /\ NoConflict(r, ks)
  /\ BeginAttempt(r, t, c, a)
  /\ effect' = [effect EXCEPT ![r][a] = "pending"]
  /\ reconciler' = [reconciler EXCEPT ![r][a] = by]
  /\ held' = [k \in Keys |-> IF k \in ks THEN held[k] \cup {<<r, a>>} ELSE held[k]]
  /\ UNCHANGED <<ckpt, leaseVars, questions>>

(* insertReceipt: the receipt, and the release of the intent's keys.       *)
InsertReceipt(r, a, outcome) ==
  /\ effect' = [effect EXCEPT ![r][a] = outcome]
  /\ held' = [k \in Keys |-> held[k] \ {<<r, a>>}]

(* The provider answered: it happened, or it is proven not to have.        *)
FinishWorkflowEffect(r, h, t, a, e, backoff) ==
  /\ Fenced(r, h, t)
  /\ effect[r][a] = "pending"
  /\ InsertReceipt(r, a, IF e \in SucceededEnds THEN "succeeded" ELSE "failed")
  /\ FinishAttempt(r, t, a, e, backoff)
  /\ UNCHANGED <<leaseVars, reconciler, questions>>

(* The call ended without a provable outcome.  The keys stay held.         *)
MarkWorkflowEffectUnknown(r, h, t, a, settle) ==
  /\ Fenced(r, h, t)
  /\ effect[r][a] = "pending"
  /\ MayEnd(r, t, a)
  /\ attState' = [attState EXCEPT ![r][a] = "failed"]
  /\ MarkUnknown(r, {a}, settle)
  /\ UNCHANGED <<ckpt, leaseVars, attCkpt, attToken, reconciler, held, questions>>

(* Reconciliation of an unknown outcome, by its provider or the owner.  The *)
(* run continues, unless it is cancelling, once no intent is unresolved.   *)
ResolveWorkflowEffect(r, h, t, a, outcome) ==
  LET last == \A b \in Seqs \ {a} : ~Unresolved(r, b)
  IN /\ Fenced(r, h, t)
     /\ effect[r][a] = "unknown"
     /\ state[r] \in {"needs_reconciliation", "cancelling"}
     /\ InsertReceipt(r, a, outcome)
     /\ state' = [state EXCEPT ![r] =
          IF last /\ @ = "needs_reconciliation" THEN "running" ELSE @]
     /\ notBefore' = [notBefore EXCEPT ![r] = IF last THEN NoTime ELSE @]
     /\ UNCHANGED <<ckpt, leaseVars, attemptVars, reconciler, questions>>

(* Automatic reconciliation is tried again after recheck, or, with 0, left *)
(* to the owner.                                                           *)
DeferWorkflowReconciliation(r, h, t, recheck) ==
  /\ Fenced(r, h, t)
  /\ \/ state[r] = "needs_reconciliation"
     \/ state[r] = "cancelling" /\ ~EffectsResolved(r)
  /\ notBefore' = [notBefore EXCEPT ![r] = IF recheck > 0 THEN recheck ELSE NoTime]
  /\ UNCHANGED <<state, ckpt, leaseVars, attemptVars, effectVars, questions>>

-----------------------------------------------------------------------------
(* The owner's questions and answers.                                      *)

AskWorkflowQuestion(r, h, t, c) ==
  /\ Fenced(r, h, t)
  /\ state[r] \in {"queued", "running"}
  /\ ~InFlight(r)
  /\ EffectsResolved(r)
  /\ c = ckpt[r]
  /\ questions[r][c] = "none"
  /\ questions' = [questions EXCEPT ![r][c] = "open"]
  /\ state' = [state EXCEPT ![r] = "waiting_for_human"]
  /\ notBefore' = [notBefore EXCEPT ![r] = NoTime]
  /\ UNCHANGED <<ckpt, leaseVars, attemptVars, effectVars>>

AnswerWorkflowQuestion(r, h, t, c) ==
  /\ Fenced(r, h, t)
  /\ questions[r][c] = "open"
  /\ state[r] = "waiting_for_human"
  /\ questions' = [questions EXCEPT ![r][c] = "answered"]
  /\ state' = [state EXCEPT ![r] = "running"]
  /\ notBefore' = [notBefore EXCEPT ![r] = NoTime]
  /\ UNCHANGED <<ckpt, leaseVars, attemptVars, effectVars>>

WithdrawWorkflowQuestion(r, h, t, c) ==
  /\ Fenced(r, h, t)
  /\ questions[r][c] = "open"
  /\ state[r] = "cancelling"
  /\ questions' = [questions EXCEPT ![r][c] = "withdrawn"]
  /\ UNCHANGED <<state, notBefore, ckpt, leaseVars, attemptVars, effectVars>>

-----------------------------------------------------------------------------
(* Cancellation.                                                           *)

(* The owner's request needs no lease.  A run with an unresolved effect    *)
(* keeps its automatic reconciliation time; any other is due at once.      *)
RequestWorkflowRunCancellation(r) ==
  /\ Runnable(r)
  /\ state[r] # "cancelling"
  /\ state' = [state EXCEPT ![r] = "cancelling"]
  /\ notBefore' = [notBefore EXCEPT ![r] = IF EffectsResolved(r) THEN NoTime ELSE @]
  /\ UNCHANGED <<ckpt, leaseVars, attemptVars, effectVars, questions>>

FinishWorkflowCancellation(r, h, t) ==
  /\ Fenced(r, h, t)
  /\ state[r] = "cancelling"
  /\ ~InFlight(r)
  /\ EffectsResolved(r)
  /\ questions' = [questions EXCEPT ![r] = [c \in Checkpoints |->
       IF questions[r][c] = "open" THEN "withdrawn" ELSE questions[r][c]]]
  /\ state' = [state EXCEPT ![r] = "cancelled"]
  /\ notBefore' = [notBefore EXCEPT ![r] = NoTime]
  /\ UNCHANGED <<ckpt, leaseVars, attemptVars, effectVars>>

-----------------------------------------------------------------------------
(* One tick of the clock, for every lease and every not-before time.       *)
Tick ==
  /\ left' = [r \in Runs |-> IF left[r] > 0 THEN left[r] - 1 ELSE left[r]]
  /\ notBefore' = [r \in Runs |->
       IF notBefore[r] > 0 THEN notBefore[r] - 1 ELSE notBefore[r]]
  /\ UNCHANGED <<state, ckpt, holder, token, attemptVars, effectVars, questions>>

(* The writes a holder makes under a lease, whether it is current or not.  *)
LeaseWrite(r, h, t) ==
  \/ HeartbeatWorkflowRunLease(r, h, t)
  \/ ReleaseWorkflowRunLease(r, h, t)
  \/ \E d \in 1..MaxWait : PauseWorkflowRun(r, h, t, d)
  \/ ResumeWorkflowRun(r, h, t)
  \/ FinishWorkflowCancellation(r, h, t)
  \/ \E d \in 0..MaxWait : DeferWorkflowReconciliation(r, h, t, d)

CheckpointWrite(r, h, t, c) ==
  \/ \E a \in Seqs : BeginWorkflowAttempt(r, h, t, c, a)
  \/ \E a \in Seqs, by \in Reconcilers, ks \in (SUBSET Keys) \ {{}} :
       BeginWorkflowEffect(r, h, t, c, a, by, ks)
  \/ FailWorkflowRun(r, h, t, c)
  \/ AskWorkflowQuestion(r, h, t, c)
  \/ AnswerWorkflowQuestion(r, h, t, c)
  \/ WithdrawWorkflowQuestion(r, h, t, c)

AttemptWrite(r, h, t, a) ==
  \/ InterruptWorkflowAttempt(r, h, t, a)
  \/ \E e \in AttemptEnds, d \in 1..MaxWait :
       \/ FinishWorkflowAttempt(r, h, t, a, e, d)
       \/ FinishWorkflowEffect(r, h, t, a, e, d)
  \/ \E d \in 0..MaxWait : MarkWorkflowEffectUnknown(r, h, t, a, d)
  \/ \E outcome \in {"succeeded", "failed"} :
       ResolveWorkflowEffect(r, h, t, a, outcome)

Next ==
  \/ Tick
  \/ \E r \in Runs :
       \/ StartWorkflowRun(r)
       \/ RequestWorkflowRunCancellation(r)
       \/ \E h \in Holders :
            \/ AcquireWorkflowRunLease(r, h)
            \/ \E t \in Tokens :
                 \/ LeaseWrite(r, h, t)
                 \/ \E c \in Checkpoints : CheckpointWrite(r, h, t, c)
                 \/ \E a \in Seqs : AttemptWrite(r, h, t, a)

Spec == Init /\ [][Next]_vars

-----------------------------------------------------------------------------
(* Mutant of Due: a cancelling run is due at its reconciliation time only. *)
DueWithoutCancelling(r) ==
  /\ \/ state[r] \in {"queued", "running", "waiting_for_dependency"} /\ notBefore[r] <= 0
     \/ state[r] \in {"needs_reconciliation", "cancelling"} /\ notBefore[r] = 0
  /\ LeaseFree(r)

(* What DueWorkflowRuns lists.                                             *)
Due(r) ==
  /\ \/ state[r] \in {"queued", "running", "waiting_for_dependency"} /\ notBefore[r] <= 0
     \/ state[r] = "needs_reconciliation" /\ notBefore[r] = 0
     \/ /\ state[r] = "cancelling"
        /\ notBefore[r] = 0 \/ \A a \in Seqs : effect[r][a] # "unknown"
  /\ LeaseFree(r)

-----------------------------------------------------------------------------
(* Safety.                                                                 *)

(* A node attempt in flight is the only one of its run, belongs to the     *)
(* run's current lease, started from the run's latest checkpoint, and its  *)
(* run is cancelling, or running with no not-before time.  Hence what a    *)
(* crashed or stalled holder left running is interrupted before anyone     *)
(* starts anything, and the index workflow_node_attempts_one_in_flight     *)
(* never refuses a row.                                                    *)
InFlightIsCurrent ==
  \A r \in Runs, a \in Seqs : attState[r][a] = "running" =>
    /\ \A b \in Seqs : attState[r][b] = "running" => b = a
    /\ attToken[r][a] = token[r]
    /\ attCkpt[r][a] = ckpt[r]
    /\ state[r] \in {"running", "cancelling"}
    /\ state[r] = "running" => notBefore[r] = NoTime

(* While an Effect Intent of a run has no receipt the run is blocked (the  *)
(* claim of workflow_effects.go's header): it is the run's only such       *)
(* intent; until its outcome is known to be unknown its own attempt is in  *)
(* flight, and from then on nothing is, and the run needs reconciliation   *)
(* or is being cancelled.                                                  *)
UnresolvedEffectBlocks ==
  \A r \in Runs, a \in Seqs : Unresolved(r, a) =>
    /\ \A b \in Seqs : Unresolved(r, b) => b = a
    /\ effect[r][a] = "pending" <=> attState[r][a] = "running"
    /\ effect[r][a] = "unknown" => /\ ~InFlight(r)
                                   /\ state[r] \in {"needs_reconciliation", "cancelling"}

(* A run that needs reconciliation has an effect whose outcome is unknown, *)
(* so somebody can end that state (continueReconciliation stops with an    *)
(* error otherwise, for good).                                             *)
ReconciliationHasUnknown ==
  \A r \in Runs : state[r] = "needs_reconciliation" =>
    \E a \in Seqs : effect[r][a] = "unknown"

(* A run waits for a human exactly while it has an open question, which is *)
(* the one of its latest checkpoint; only a cancelling run may also have   *)
(* one, until it is withdrawn.                                             *)
QuestionMatchesState ==
  \A r \in Runs :
    /\ state[r] = "waiting_for_human" => questions[r][ckpt[r]] = "open"
    /\ \A c \in Checkpoints : questions[r][c] = "open" =>
         /\ c = ckpt[r]
         /\ state[r] \in {"waiting_for_human", "cancelling"}
         /\ ~InFlight(r)

(* A finished run left nothing behind: no attempt in flight, no effect     *)
(* without its receipt, no open question, no Resource Conflict Key held    *)
(* (which would block every other run that needs it, for ever).            *)
FinishedRunIsSettled ==
  \A r \in Runs : Terminal(r) =>
    /\ ~InFlight(r)
    /\ EffectsResolved(r)
    /\ NoOpenQuestion(r)
    /\ \A k \in Keys : \A x \in held[k] : x[1] # r

(* Effects sharing a Resource Conflict Key are serialized across runs: a   *)
(* key is held once, by an intent without a receipt, and every intent      *)
(* without a receipt holds a key.  The index workflow_effect_conflicts_held*)
(* never refuses a row.                                                    *)
ConflictKeysSerialized ==
  /\ \A k \in Keys : \A x, y \in held[k] : x = y
  /\ \A k \in Keys : \A x \in held[k] : Unresolved(x[1], x[2])
  /\ \A r \in Runs, a \in Seqs : Unresolved(r, a) =>
       \E k \in Keys : <<r, a>> \in held[k]

(* Two runs never hold the same Run Key (workflow_runs_one_per_key).       *)
OneRunPerKey ==
  \A q, r \in Runs :
    HoldsKey(q) /\ HoldsKey(r) /\ RunKey[q] = RunKey[r] => q = r

(* No run is stranded: an unfinished run is listed by DueWorkflowRuns, or  *)
(* held by a live lease, or has a not-before time still to come, or waits  *)
(* for the owner with something the owner can answer.                      *)
NeverStranded ==
  \A r \in Runs : Runnable(r) =>
    \/ Due(r)
    \/ ~LeaseFree(r)
    \/ notBefore[r] > 0
    \/ state[r] = "waiting_for_human" /\ ~NoOpenQuestion(r)
    \/ /\ state[r] \in {"needs_reconciliation", "cancelling"}
       /\ \E a \in Seqs : effect[r][a] = "unknown"

(* A run's rows agree with each other.                                     *)
RowsAgree == TypeOK /\ InFlightIsCurrent /\ QuestionMatchesState

(* Every Effect Intent is accounted for: until its receipt it blocks its   *)
(* run, whoever dies; a run that waits for a receipt has one to wait for;  *)
(* and a run that finished waits for none.                                 *)
EffectsAreAccounted ==
  UnresolvedEffectBlocks /\ ReconciliationHasUnknown /\ FinishedRunIsSettled

(* Neither a Run Key nor a Resource Conflict Key has two holders.          *)
KeysAreExclusive == OneRunPerKey /\ ConflictKeysSerialized

-----------------------------------------------------------------------------
(* What a step may never do.                                               *)

(* A finished run never changes again (workflow_runs_terminal): neither    *)
(* its state nor its checkpoint, attempts, effects or questions.           *)
FinishedStays(r) ==
  Terminal(r) => UNCHANGED <<state[r], ckpt[r], attState[r], effect[r], questions[r]>>

FinishedIsFinal == [][\A r \in Runs : FinishedStays(r)]_vars

(* A cancelling run only finishes (workflow_runs_cancelling_finishes), and *)
(* starts nothing on the way: no attempt, effect or question.              *)
CancellingOnlyEnds(r) ==
  state[r] = "cancelling" =>
    /\ state'[r] \in {"cancelling", "cancelled", "succeeded", "failed"}
    /\ \A a \in Seqs : attState[r][a] = "none" => attState'[r][a] = "none"
    /\ \A c \in Checkpoints : questions[r][c] = "none" => questions'[r][c] = "none"

CancellingStartsNothing == [][\A r \in Runs : CancellingOnlyEnds(r)]_vars

(* Recorded history is immutable: an attempt that ended, an intent, its    *)
(* unknown outcome and its receipt never change or disappear, checkpoints  *)
(* and lease tokens only grow, and a started run is never queued again.    *)
HistoryKept(r) ==
  /\ ckpt'[r] >= ckpt[r]
  /\ token'[r] >= token[r]
  /\ state[r] # "absent" /\ state'[r] = "queued" => state[r] = "queued"
  /\ \A a \in Seqs :
       /\ attState[r][a] \notin {"none", "running"} => attState'[r][a] = attState[r][a]
       /\ effect[r][a] \in {"succeeded", "failed"} => effect'[r][a] = effect[r][a]
       /\ effect[r][a] = "unknown" => effect'[r][a] \in {"unknown", "succeeded", "failed"}
       /\ effect[r][a] = "pending" => effect'[r][a] # "none"

HistoryIsImmutable == [][\A r \in Runs : HistoryKept(r)]_vars

(* A holder whose lease expired, was released or was taken over writes     *)
(* nothing: a run's attempts, checkpoint, effects and questions change     *)
(* only while its lease is live, or in the claim that takes it over.       *)
OnlyLiveLeaseWrites(r) ==
  LeaseFree(r) /\ token'[r] = token[r] =>
    UNCHANGED <<ckpt[r], attState[r], effect[r], questions[r]>>

StaleHolderWritesNothing == [][\A r \in Runs : OnlyLiveLeaseWrites(r)]_vars

(* No interleaving of holders, the owner and crashes rewrites what a run   *)
(* has recorded.                                                           *)
NothingIsRewritten ==
  /\ StaleHolderWritesNothing
  /\ HistoryIsImmutable
  /\ CancellingStartsNothing
  /\ FinishedIsFinal

=============================================================================
