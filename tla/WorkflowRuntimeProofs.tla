------------------------ MODULE WorkflowRuntimeProofs ------------------------
(***************************************************************************)
(* The proofs about the workflow run store and the runtimes over it.       *)
(*                                                                         *)
(* First the store alone: the invariants of WorkflowRunStore hold for      *)
(* every value of its constants, whoever calls its operations.  Most of    *)
(* them are not inductive alone: that a claim leaves no pending effect     *)
(* behind needs every attempt in flight to carry the current token, that   *)
(* resolving an effect ends needs_reconciliation needs it to be the only   *)
(* unresolved one, and so on.  IInv is their conjunction with              *)
(* IntentHasAttempt; there is one lemma per operation, with one step per   *)
(* conjunct, and before them the facts that several steps share.           *)
(*                                                                         *)
(* Then WorkflowRuntime: the runtimes use the store as its specification   *)
(* allows, and no effect happens twice, no receipt lies, no step is        *)
(* repeated past its bounds and no two runtimes call a provider at once:   *)
(* for any number of runtimes, any line of steps and any faults.           *)
(***************************************************************************)
EXTENDS WorkflowRuntime, FiniteSetTheorems, WellFoundedInduction, TLAPS

-----------------------------------------------------------------------------
(* The run store                                                           *)

(* An Effect Intent never exists without its attempt's row.                *)
IntentHasAttempt ==
  \A r \in Runs, a \in Seqs : effect[r][a] # "none" => attState[r][a] # "none"

(* The inductive invariant.                                                *)
IInv ==
  /\ TypeOK
  /\ IntentHasAttempt
  /\ InFlightIsCurrent
  /\ UnresolvedEffectBlocks
  /\ ReconciliationHasUnknown
  /\ QuestionMatchesState
  /\ ConflictKeysSerialized
  /\ OneRunPerKey

(* What markUnknown leaves behind, run by run and intent by intent.        *)
LEMMA MarkUnknownFacts ==
  ASSUME TypeOK, NEW r \in Runs, NEW S \in SUBSET Seqs, NEW settle \in 0..MaxWait,
         MarkUnknown(r, S, settle)
  PROVE  /\ state' \in [Runs -> RunStates]
         /\ notBefore' \in [Runs -> {NoTime} \cup 0..MaxWait]
         /\ effect' \in [Runs -> [Seqs -> EffectStates]]
         /\ S # {}
         /\ state'[r] = IF state[r] = "cancelling" THEN "cancelling" ELSE "needs_reconciliation"
         /\ \A b \in Seqs : effect'[r][b] = IF b \in S THEN "unknown" ELSE effect[r][b]
         /\ \A q \in Runs \ {r} : /\ state'[q] = state[q]
                                  /\ notBefore'[q] = notBefore[q]
                                  /\ effect'[q] = effect[q]
<1> USE DEF TypeOK, MarkUnknown
<1>1. /\ state' \in [Runs -> RunStates]
      /\ state'[r] = IF state[r] = "cancelling" THEN "cancelling" ELSE "needs_reconciliation"
  BY DEF RunStates
<1>2. PICK last \in S : notBefore' = [notBefore EXCEPT ![r] =
            IF reconciler[r][last] = "provider" THEN settle ELSE NoTime]
  OBVIOUS
<1>3. S # {} /\ notBefore' \in [Runs -> {NoTime} \cup 0..MaxWait]
  BY <1>2
<1>4. \A b \in Seqs : effect'[r][b] = IF b \in S THEN "unknown" ELSE effect[r][b]
  OBVIOUS
<1>5. [a \in Seqs |-> IF a \in S THEN "unknown" ELSE effect[r][a]] \in [Seqs -> EffectStates]
  BY DEF EffectStates
<1>6. effect' \in [Runs -> [Seqs -> EffectStates]]
  BY <1>5
<1>7. \A q \in Runs \ {r} : /\ state'[q] = state[q]
                            /\ notBefore'[q] = notBefore[q]
                            /\ effect'[q] = effect[q]
  BY <1>2
<1> QED
  BY <1>1, <1>3, <1>4, <1>6, <1>7

(* What finishWorkflowAttempt leaves behind: nothing of the run is in      *)
(* flight, and the run is as it was or finished.                           *)
LEMMA FinishAttemptFacts ==
  ASSUME TypeOK, InFlightIsCurrent, NEW r \in Runs, NEW t \in Tokens, NEW a \in Seqs,
         NEW e \in AttemptEnds, NEW d \in 1..MaxWait, FinishAttempt(r, t, a, e, d)
  PROVE  /\ state' \in [Runs -> RunStates]
         /\ notBefore' \in [Runs -> {NoTime} \cup 0..MaxWait]
         /\ ckpt' \in [Runs -> Checkpoints]
         /\ attState' \in [Runs -> [Seqs -> AttemptStates]]
         /\ attCkpt' = attCkpt /\ attToken' = attToken
         /\ attState[r][a] = "running"
         /\ state[r] \in {"running", "cancelling"}
         /\ state'[r] \in {state[r], "succeeded", "failed"}
         /\ \A b \in Seqs : /\ attState'[r][b] # "running"
                            /\ attState[r][b] # "none" => attState'[r][b] # "none"
         /\ \A q \in Runs \ {r} : /\ state'[q] = state[q]
                                  /\ notBefore'[q] = notBefore[q]
                                  /\ ckpt'[q] = ckpt[q]
                                  /\ attState'[q] = attState[q]
<1> USE DEF TypeOK, FinishAttempt
<1>1. /\ attState[r][a] = "running"
      /\ state[r] \in {"running", "cancelling"}
      /\ \A b \in Seqs : attState[r][b] = "running" => b = a
  BY DEF MayEnd, InFlightIsCurrent
<1>2. StateAfter(r, e) \in {state[r], "succeeded", "failed"}
  BY DEF StateAfter
<1>3. state' \in [Runs -> RunStates] /\ state'[r] \in {state[r], "succeeded", "failed"}
  BY <1>1, <1>2 DEF RunStates
<1>4. NotBeforeAfter(r, e, d) \in {NoTime} \cup 0..MaxWait
  <2>1. d \in {NoTime} \cup 0..MaxWait /\ notBefore[r] \in {NoTime} \cup 0..MaxWait
    BY ConstantsAssumption
  <2> QED
    BY <2>1 DEF NotBeforeAfter
<1>5. notBefore' \in [Runs -> {NoTime} \cup 0..MaxWait]
  BY <1>4
<1>6. ckpt' \in [Runs -> Checkpoints]
  <2>1. ckpt[r] \in Checkpoints
    OBVIOUS
  <2> QED
    BY <2>1
<1>7. attState' \in [Runs -> [Seqs -> AttemptStates]]
  BY DEF AttemptStates
<1>8. \A b \in Seqs : /\ attState'[r][b] # "running"
                      /\ attState[r][b] # "none" => attState'[r][b] # "none"
  BY <1>1
<1>9. \A q \in Runs \ {r} : /\ state'[q] = state[q]
                            /\ notBefore'[q] = notBefore[q]
                            /\ ckpt'[q] = ckpt[q]
                            /\ attState'[q] = attState[q]
  OBVIOUS
<1> QED
  BY <1>1, <1>3, <1>5, <1>6, <1>7, <1>8, <1>9

(* What a claim leaves behind: whatever was in flight is interrupted,      *)
(* whatever was pending is unknown. It needs the invariant, because only   *)
(* attempts of an earlier token are interrupted.                           *)
LEMMA AcquireFacts ==
  ASSUME IInv, NEW r \in Runs, NEW h \in Holders, AcquireWorkflowRunLease(r, h)
  PROVE  /\ TypeOK'
         /\ state[r] \notin {"absent", "succeeded", "failed", "cancelled"}
         /\ UNCHANGED <<ckpt, attCkpt, attToken, held, questions>>
         /\ \A b \in Seqs :
              /\ attState'[r][b] = IF attState[r][b] = "running" THEN "interrupted"
                                                                 ELSE attState[r][b]
              /\ effect'[r][b] = IF effect[r][b] = "pending" THEN "unknown" ELSE effect[r][b]
         /\ state'[r] = IF /\ \E b \in Seqs : effect[r][b] = "pending"
                           /\ state[r] # "cancelling"
                        THEN "needs_reconciliation" ELSE state[r]
         /\ \A q \in Runs \ {r} : /\ state'[q] = state[q]
                                  /\ notBefore'[q] = notBefore[q]
                                  /\ token'[q] = token[q]
                                  /\ attState'[q] = attState[q]
                                  /\ effect'[q] = effect[q]
<1> DEFINE t == token[r] + 1
           rows == Interrupted(r, t)
           orphans == Orphans(r, rows)
<1> USE DEF IInv, TypeOK
<1>1. /\ state[r] \notin {"absent", "succeeded", "failed", "cancelled"}
      /\ UNCHANGED <<ckpt, attCkpt, attToken, reconciler, held, questions>>
      /\ t \in Tokens
      /\ holder' = [holder EXCEPT ![r] = h]
      /\ token' = [token EXCEPT ![r] = t]
      /\ left' = [left EXCEPT ![r] = LeaseTicks]
      /\ attState' = [attState EXCEPT ![r] = rows]
      /\ IF orphans = {} THEN UNCHANGED <<state, notBefore, effect>>
                         ELSE MarkUnknown(r, orphans, 0)
  BY DEF AcquireWorkflowRunLease, Schedulable
<1>2. \A b \in Seqs : attState[r][b] = "running" => attToken[r][b] < t
  BY DEF InFlightIsCurrent, Tokens
<1>3. /\ rows \in [Seqs -> AttemptStates]
      /\ \A b \in Seqs : rows[b] = IF attState[r][b] = "running" THEN "interrupted"
                                                                 ELSE attState[r][b]
  BY <1>2 DEF Interrupted, AttemptStates
<1>4. orphans = {b \in Seqs : effect[r][b] = "pending"}
  BY <1>3 DEF Orphans
<1>5. /\ state' \in [Runs -> RunStates]
      /\ notBefore' \in [Runs -> {NoTime} \cup 0..MaxWait]
      /\ effect' \in [Runs -> [Seqs -> EffectStates]]
      /\ \A b \in Seqs :
           effect'[r][b] = IF effect[r][b] = "pending" THEN "unknown" ELSE effect[r][b]
      /\ state'[r] = IF /\ \E b \in Seqs : effect[r][b] = "pending"
                        /\ state[r] # "cancelling"
                     THEN "needs_reconciliation" ELSE state[r]
      /\ \A q \in Runs \ {r} : /\ state'[q] = state[q]
                               /\ notBefore'[q] = notBefore[q]
                               /\ effect'[q] = effect[q]
  <2>1. CASE orphans = {}
    BY <1>1, <1>4, <2>1
  <2>2. CASE orphans # {}
    <3>1. orphans \in SUBSET Seqs /\ 0 \in 0..MaxWait /\ MarkUnknown(r, orphans, 0)
      BY <1>1, <1>4, <2>2, ConstantsAssumption
    <3> HIDE DEF orphans, TypeOK
    <3>2. /\ state' \in [Runs -> RunStates]
          /\ notBefore' \in [Runs -> {NoTime} \cup 0..MaxWait]
          /\ effect' \in [Runs -> [Seqs -> EffectStates]]
          /\ state'[r] = IF state[r] = "cancelling" THEN "cancelling" ELSE "needs_reconciliation"
          /\ \A b \in Seqs : effect'[r][b] = IF b \in orphans THEN "unknown" ELSE effect[r][b]
          /\ \A q \in Runs \ {r} : /\ state'[q] = state[q]
                                   /\ notBefore'[q] = notBefore[q]
                                   /\ effect'[q] = effect[q]
      BY <3>1, MarkUnknownFacts
    <3>3. \E b \in Seqs : effect[r][b] = "pending"
      BY <1>4, <2>2
    <3> QED
      BY <1>4, <3>2, <3>3
  <2> QED
    BY <2>1, <2>2
<1> HIDE DEF t, rows, orphans
<1>6. attState' \in [Runs -> [Seqs -> AttemptStates]] /\ attState'[r] = rows
  BY <1>1, <1>3
<1>7. TypeOK'
  BY <1>1, <1>5, <1>6, ConstantsAssumption
<1>8. \A q \in Runs \ {r} : attState'[q] = attState[q] /\ token'[q] = token[q]
  BY <1>1
<1> QED
  BY <1>1, <1>3, <1>5, <1>6, <1>7, <1>8

(* The clock only ends leases and waits.                                   *)
LEMMA TickKeeps ==
  ASSUME IInv, Tick
  PROVE  IInv'
<1> USE DEF IInv, Tick, leaseVars, attemptVars, effectVars
<1>1. TypeOK'
  BY ConstantsAssumption DEF TypeOK, Tokens, Checkpoints, RunStates, AttemptStates,
     EffectStates, Reconcilers, QuestionStates, NoTime
<1>2. IntentHasAttempt'
  BY DEF IntentHasAttempt
<1>3. InFlightIsCurrent'
  BY DEF TypeOK, InFlightIsCurrent, NoTime
<1>4. UnresolvedEffectBlocks'
  BY DEF UnresolvedEffectBlocks, Unresolved, InFlight
<1>5. ReconciliationHasUnknown'
  BY DEF ReconciliationHasUnknown, Unresolved
<1>6. QuestionMatchesState'
  BY DEF QuestionMatchesState, InFlight
<1>7. ConflictKeysSerialized'
  BY DEF ConflictKeysSerialized, Unresolved
<1>8. OneRunPerKey'
  BY DEF OneRunPerKey, HoldsKey
<1> QED
  BY <1>1, <1>2, <1>3, <1>4, <1>5, <1>6, <1>7, <1>8

(* StartWorkflowRun preserves the inductive invariant.                     *)
LEMMA StartKeeps ==
  ASSUME IInv, NEW r \in Runs,
         StartWorkflowRun(r)
  PROVE  IInv'
<1> USE DEF IInv, StartWorkflowRun, leaseVars, attemptVars, effectVars
<1>1. TypeOK'
  BY ConstantsAssumption DEF TypeOK, Tokens, Checkpoints, RunStates, AttemptStates,
     EffectStates, Reconcilers, QuestionStates, NoTime
<1>2. IntentHasAttempt'
  BY DEF TypeOK, IntentHasAttempt
<1>3. InFlightIsCurrent'
  BY DEF TypeOK, InFlightIsCurrent, InFlight
<1>4. UnresolvedEffectBlocks'
  BY DEF TypeOK, UnresolvedEffectBlocks, Unresolved, InFlight
<1>5. ReconciliationHasUnknown'
  BY DEF TypeOK, ReconciliationHasUnknown, Unresolved
<1>6. QuestionMatchesState'
  BY DEF TypeOK, QuestionMatchesState, InFlight
<1>7. ConflictKeysSerialized'
  BY DEF TypeOK, ConflictKeysSerialized, Unresolved
<1>8. OneRunPerKey'
  BY DEF TypeOK, OneRunPerKey, HoldsKey
<1> QED
  BY <1>1, <1>2, <1>3, <1>4, <1>5, <1>6, <1>7, <1>8

(* RequestWorkflowRunCancellation preserves it: it may hit a run with an   *)
(* attempt in flight, an unknown effect or an open question, and each is   *)
(* allowed to a cancelling run.                                            *)
LEMMA RequestKeeps ==
  ASSUME IInv, NEW r \in Runs,
         RequestWorkflowRunCancellation(r)
  PROVE  IInv'
<1> USE DEF IInv, RequestWorkflowRunCancellation, leaseVars, attemptVars, effectVars
<1>1. TypeOK'
  BY ConstantsAssumption DEF TypeOK, Tokens, Checkpoints, RunStates, AttemptStates,
     EffectStates, Reconcilers, QuestionStates, NoTime
<1>2. IntentHasAttempt'
  BY DEF TypeOK, IntentHasAttempt
<1>3. InFlightIsCurrent'
  BY DEF TypeOK, InFlightIsCurrent, InFlight
<1>4. UnresolvedEffectBlocks'
  BY DEF TypeOK, UnresolvedEffectBlocks, Unresolved, InFlight, Runnable, Terminal,
     TerminalStates, InFlightIsCurrent
<1>5. ReconciliationHasUnknown'
  BY DEF TypeOK, ReconciliationHasUnknown, Unresolved
<1>6. QuestionMatchesState'
  BY DEF TypeOK, QuestionMatchesState, InFlight, Runnable, Terminal, TerminalStates,
     InFlightIsCurrent
<1>7. ConflictKeysSerialized'
  BY DEF TypeOK, ConflictKeysSerialized, Unresolved
<1>8. OneRunPerKey'
  BY DEF TypeOK, OneRunPerKey, HoldsKey, Runnable, Terminal, TerminalStates,
     InFlightIsCurrent
<1> QED
  BY <1>1, <1>2, <1>3, <1>4, <1>5, <1>6, <1>7, <1>8

(* AcquireWorkflowRunLease preserves it: interrupting the attempts and     *)
(* marking the orphaned effects in one transaction leaves no pending       *)
(* intent without its attempt.                                             *)
LEMMA AcquireKeeps ==
  ASSUME IInv, NEW r \in Runs, NEW h \in Holders,
         AcquireWorkflowRunLease(r, h)
  PROVE  IInv'
<1> USE DEF IInv
<1>1. TypeOK'
  BY AcquireFacts
<1>2. IntentHasAttempt'
  BY AcquireFacts DEF IntentHasAttempt
<1>3. InFlightIsCurrent'
  <2>1. \A b \in Seqs : attState'[r][b] # "running"
    BY AcquireFacts
  <2>2. \A q \in Runs \ {r} : /\ UNCHANGED <<state[q], notBefore[q], ckpt[q], token[q]>>
                             /\ UNCHANGED <<attState[q], attCkpt[q], attToken[q]>>
    BY AcquireFacts
  <2> QED
    BY <2>1, <2>2 DEF InFlightIsCurrent
<1>4. UnresolvedEffectBlocks'
  BY AcquireFacts DEF UnresolvedEffectBlocks, Unresolved, InFlight
<1>5. ReconciliationHasUnknown'
  BY AcquireFacts DEF ReconciliationHasUnknown
<1>6. QuestionMatchesState'
  BY AcquireFacts DEF QuestionMatchesState, UnresolvedEffectBlocks, Unresolved,
     InFlightIsCurrent, InFlight
<1>7. ConflictKeysSerialized'
  <2>1. held' = held /\ \A q \in Runs, b \in Seqs : Unresolved(q, b)' <=> Unresolved(q, b)
    BY AcquireFacts DEF Unresolved
  <2> QED
    BY <2>1 DEF TypeOK, ConflictKeysSerialized
<1>8. OneRunPerKey'
  BY AcquireFacts DEF OneRunPerKey, HoldsKey
<1> QED
  BY <1>1, <1>2, <1>3, <1>4, <1>5, <1>6, <1>7, <1>8

(* HeartbeatWorkflowRunLease preserves it.                                 *)
LEMMA HeartbeatKeeps ==
  ASSUME IInv, NEW r \in Runs, NEW h \in Holders, NEW t \in Tokens,
         HeartbeatWorkflowRunLease(r, h, t)
  PROVE  IInv'
<1> USE DEF IInv, HeartbeatWorkflowRunLease, leaseVars, attemptVars, effectVars
<1>1. TypeOK'
  BY ConstantsAssumption DEF TypeOK, Tokens, Checkpoints, RunStates, AttemptStates,
     EffectStates, Reconcilers, QuestionStates, NoTime
<1>2. IntentHasAttempt'
  BY DEF TypeOK, IntentHasAttempt
<1>3. InFlightIsCurrent'
  BY DEF TypeOK, InFlightIsCurrent, InFlight
<1>4. UnresolvedEffectBlocks'
  BY DEF TypeOK, UnresolvedEffectBlocks, Unresolved, InFlight
<1>5. ReconciliationHasUnknown'
  BY DEF TypeOK, ReconciliationHasUnknown, Unresolved
<1>6. QuestionMatchesState'
  BY DEF TypeOK, QuestionMatchesState, InFlight
<1>7. ConflictKeysSerialized'
  BY DEF TypeOK, ConflictKeysSerialized, Unresolved
<1>8. OneRunPerKey'
  BY DEF TypeOK, OneRunPerKey, HoldsKey
<1> QED
  BY <1>1, <1>2, <1>3, <1>4, <1>5, <1>6, <1>7, <1>8

(* ReleaseWorkflowRunLease preserves it, with an attempt in flight too.    *)
LEMMA ReleaseKeeps ==
  ASSUME IInv, NEW r \in Runs, NEW h \in Holders, NEW t \in Tokens,
         ReleaseWorkflowRunLease(r, h, t)
  PROVE  IInv'
<1> USE DEF IInv, ReleaseWorkflowRunLease, leaseVars, attemptVars, effectVars
<1>1. TypeOK'
  BY ConstantsAssumption DEF TypeOK, Tokens, Checkpoints, RunStates, AttemptStates,
     EffectStates, Reconcilers, QuestionStates, NoTime
<1>2. IntentHasAttempt'
  BY DEF TypeOK, IntentHasAttempt
<1>3. InFlightIsCurrent'
  BY DEF TypeOK, InFlightIsCurrent, InFlight
<1>4. UnresolvedEffectBlocks'
  BY DEF TypeOK, UnresolvedEffectBlocks, Unresolved, InFlight
<1>5. ReconciliationHasUnknown'
  BY DEF TypeOK, ReconciliationHasUnknown, Unresolved
<1>6. QuestionMatchesState'
  BY DEF TypeOK, QuestionMatchesState, InFlight
<1>7. ConflictKeysSerialized'
  BY DEF TypeOK, ConflictKeysSerialized, Unresolved
<1>8. OneRunPerKey'
  BY DEF TypeOK, OneRunPerKey, HoldsKey
<1> QED
  BY <1>1, <1>2, <1>3, <1>4, <1>5, <1>6, <1>7, <1>8

(* PauseWorkflowRun preserves it.                                          *)
LEMMA PauseKeeps ==
  ASSUME IInv, NEW r \in Runs, NEW h \in Holders, NEW t \in Tokens, NEW d \in 1..MaxWait,
         PauseWorkflowRun(r, h, t, d)
  PROVE  IInv'
<1> USE DEF IInv, PauseWorkflowRun, leaseVars, attemptVars, effectVars
<1>1. TypeOK'
  BY ConstantsAssumption DEF TypeOK, Tokens, Checkpoints, RunStates, AttemptStates,
     EffectStates, Reconcilers, QuestionStates, NoTime
<1>2. IntentHasAttempt'
  BY DEF TypeOK, IntentHasAttempt
<1>3. InFlightIsCurrent'
  BY DEF TypeOK, InFlightIsCurrent, InFlight
<1>4. UnresolvedEffectBlocks'
  BY DEF TypeOK, UnresolvedEffectBlocks, Unresolved, InFlight, Runnable, Terminal,
     TerminalStates, EffectsResolved
<1>5. ReconciliationHasUnknown'
  BY DEF TypeOK, ReconciliationHasUnknown, Unresolved, Runnable, Terminal, TerminalStates,
     EffectsResolved
<1>6. QuestionMatchesState'
  BY DEF TypeOK, QuestionMatchesState, InFlight, NoOpenQuestion
<1>7. ConflictKeysSerialized'
  BY DEF TypeOK, ConflictKeysSerialized, Unresolved
<1>8. OneRunPerKey'
  BY DEF TypeOK, OneRunPerKey, HoldsKey, Runnable, Terminal, TerminalStates
<1> QED
  BY <1>1, <1>2, <1>3, <1>4, <1>5, <1>6, <1>7, <1>8

(* ResumeWorkflowRun preserves it.                                         *)
LEMMA ResumeKeeps ==
  ASSUME IInv, NEW r \in Runs, NEW h \in Holders, NEW t \in Tokens,
         ResumeWorkflowRun(r, h, t)
  PROVE  IInv'
<1> USE DEF IInv, ResumeWorkflowRun, leaseVars, attemptVars, effectVars
<1>1. TypeOK'
  BY ConstantsAssumption DEF TypeOK, Tokens, Checkpoints, RunStates, AttemptStates,
     EffectStates, Reconcilers, QuestionStates, NoTime
<1>2. IntentHasAttempt'
  BY DEF TypeOK, IntentHasAttempt
<1>3. InFlightIsCurrent'
  BY DEF TypeOK, InFlightIsCurrent, InFlight
<1>4. UnresolvedEffectBlocks'
  BY DEF TypeOK, UnresolvedEffectBlocks, Unresolved, InFlight, EffectsResolved
<1>5. ReconciliationHasUnknown'
  BY DEF TypeOK, ReconciliationHasUnknown, Unresolved
<1>6. QuestionMatchesState'
  BY DEF TypeOK, QuestionMatchesState, InFlight
<1>7. ConflictKeysSerialized'
  BY DEF TypeOK, ConflictKeysSerialized, Unresolved
<1>8. OneRunPerKey'
  BY DEF TypeOK, OneRunPerKey, HoldsKey
<1> QED
  BY <1>1, <1>2, <1>3, <1>4, <1>5, <1>6, <1>7, <1>8

(* FinishWorkflowCancellation preserves it.                                *)
LEMMA FinishCancellationKeeps ==
  ASSUME IInv, NEW r \in Runs, NEW h \in Holders, NEW t \in Tokens,
         FinishWorkflowCancellation(r, h, t)
  PROVE  IInv'
<1> USE DEF IInv, FinishWorkflowCancellation, leaseVars, attemptVars, effectVars
<1>1. TypeOK'
  BY ConstantsAssumption DEF TypeOK, Tokens, Checkpoints, RunStates, AttemptStates,
     EffectStates, Reconcilers, QuestionStates, NoTime
<1>2. IntentHasAttempt'
  BY DEF TypeOK, IntentHasAttempt
<1>3. InFlightIsCurrent'
  BY DEF TypeOK, InFlightIsCurrent, InFlight
<1>4. UnresolvedEffectBlocks'
  BY DEF TypeOK, UnresolvedEffectBlocks, Unresolved, InFlight, EffectsResolved
<1>5. ReconciliationHasUnknown'
  BY DEF TypeOK, ReconciliationHasUnknown, Unresolved
<1>6. QuestionMatchesState'
  BY DEF TypeOK, QuestionMatchesState, InFlight
<1>7. ConflictKeysSerialized'
  BY DEF TypeOK, ConflictKeysSerialized, Unresolved
<1>8. OneRunPerKey'
  BY DEF TypeOK, OneRunPerKey, HoldsKey
<1> QED
  BY <1>1, <1>2, <1>3, <1>4, <1>5, <1>6, <1>7, <1>8

(* DeferWorkflowReconciliation preserves it.                               *)
LEMMA DeferKeeps ==
  ASSUME IInv, NEW r \in Runs, NEW h \in Holders, NEW t \in Tokens, NEW d \in 0..MaxWait,
         DeferWorkflowReconciliation(r, h, t, d)
  PROVE  IInv'
<1> USE DEF IInv, DeferWorkflowReconciliation, leaseVars, attemptVars, effectVars
<1>1. TypeOK'
  BY ConstantsAssumption DEF TypeOK, Tokens, Checkpoints, RunStates, AttemptStates,
     EffectStates, Reconcilers, QuestionStates, NoTime
<1>2. IntentHasAttempt'
  BY DEF TypeOK, IntentHasAttempt
<1>3. InFlightIsCurrent'
  BY DEF TypeOK, InFlightIsCurrent, InFlight
<1>4. UnresolvedEffectBlocks'
  BY DEF TypeOK, UnresolvedEffectBlocks, Unresolved, InFlight
<1>5. ReconciliationHasUnknown'
  BY DEF TypeOK, ReconciliationHasUnknown, Unresolved
<1>6. QuestionMatchesState'
  BY DEF TypeOK, QuestionMatchesState, InFlight
<1>7. ConflictKeysSerialized'
  BY DEF TypeOK, ConflictKeysSerialized, Unresolved
<1>8. OneRunPerKey'
  BY DEF TypeOK, OneRunPerKey, HoldsKey
<1> QED
  BY <1>1, <1>2, <1>3, <1>4, <1>5, <1>6, <1>7, <1>8

(* BeginWorkflowAttempt preserves it: the fence gives the attempt the      *)
(* current token.                                                          *)
LEMMA BeginAttemptKeeps ==
  ASSUME IInv, NEW r \in Runs, NEW h \in Holders, NEW t \in Tokens, NEW c \in Checkpoints,
         NEW a \in Seqs,
         BeginWorkflowAttempt(r, h, t, c, a)
  PROVE  IInv'
<1> USE DEF IInv, BeginWorkflowAttempt, BeginAttempt, leaseVars, attemptVars, effectVars
<1>1. TypeOK'
  BY ConstantsAssumption DEF TypeOK, Tokens, Checkpoints, RunStates, AttemptStates,
     EffectStates, Reconcilers, QuestionStates, NoTime
<1>2. IntentHasAttempt'
  BY DEF TypeOK, IntentHasAttempt
<1>3. InFlightIsCurrent'
  BY DEF TypeOK, InFlightIsCurrent, InFlight, Fenced
<1>4. UnresolvedEffectBlocks'
  BY DEF TypeOK, UnresolvedEffectBlocks, Unresolved, InFlight, EffectsResolved
<1>5. ReconciliationHasUnknown'
  BY DEF TypeOK, ReconciliationHasUnknown, Unresolved
<1>6. QuestionMatchesState'
  BY DEF TypeOK, QuestionMatchesState, InFlight, InFlightIsCurrent
<1>7. ConflictKeysSerialized'
  BY DEF TypeOK, ConflictKeysSerialized, Unresolved
<1>8. OneRunPerKey'
  BY DEF TypeOK, OneRunPerKey, HoldsKey
<1> QED
  BY <1>1, <1>2, <1>3, <1>4, <1>5, <1>6, <1>7, <1>8

(* BeginWorkflowEffect preserves it: the run has no unresolved intent, so  *)
(* a key that is not another run's is nobody's.                            *)
LEMMA BeginEffectKeeps ==
  ASSUME IInv, NEW r \in Runs, NEW h \in Holders, NEW t \in Tokens, NEW c \in Checkpoints,
         NEW a \in Seqs, NEW by \in Reconcilers, NEW ks \in (SUBSET Keys) \ {{}},
         BeginWorkflowEffect(r, h, t, c, a, by, ks)
  PROVE  IInv'
<1> USE DEF IInv, BeginWorkflowEffect, BeginAttempt, leaseVars, attemptVars, effectVars
<1>1. TypeOK'
  BY SMTT(30), ConstantsAssumption DEF TypeOK, Tokens, Checkpoints, RunStates, AttemptStates,
     EffectStates, Reconcilers, QuestionStates, NoTime
<1>2. IntentHasAttempt'
  BY DEF TypeOK, IntentHasAttempt
<1>3. InFlightIsCurrent'
  BY DEF TypeOK, InFlightIsCurrent, InFlight, Fenced
<1>4. UnresolvedEffectBlocks'
  BY DEF TypeOK, UnresolvedEffectBlocks, Unresolved, InFlight, EffectsResolved
<1>5. ReconciliationHasUnknown'
  BY DEF TypeOK, ReconciliationHasUnknown, Unresolved
<1>6. QuestionMatchesState'
  BY DEF TypeOK, QuestionMatchesState, InFlight, InFlightIsCurrent
<1>7. ConflictKeysSerialized'
  <2>1. \A b \in Seqs : ~Unresolved(r, b)
    BY DEF EffectsResolved
  <2>2. \A k \in Keys : \A x \in held[k] : x[1] # r
    BY <2>1 DEF TypeOK, ConflictKeysSerialized
  <2>3. \A k \in Keys : held'[k] = IF k \in ks THEN {<<r, a>>} ELSE held[k]
    BY <2>2 DEF NoConflict
  <2>4. \A k \in Keys : \A x, y \in held'[k] : x = y
    <3> TAKE k \in Keys
    <3>1. CASE k \in ks
      BY <2>3, <3>1
    <3>2. CASE k \notin ks
      <4>1. held'[k] = held[k]
        BY <2>3, <3>2
      <4> QED
        BY <4>1 DEF ConflictKeysSerialized
    <3> QED
      BY <3>1, <3>2
  <2>5. /\ Unresolved(r, a)'
        /\ \A q \in Runs \ {r}, b \in Seqs : Unresolved(q, b)' <=> Unresolved(q, b)
    BY DEF TypeOK, Unresolved
  <2>6. \A b \in Seqs : Unresolved(r, b)' => b = a
    BY <2>1 DEF TypeOK, Unresolved
  <2>7. \A k \in Keys : \A x \in held'[k] : Unresolved(x[1], x[2])'
    BY <2>2, <2>3, <2>5 DEF TypeOK, ConflictKeysSerialized
  <2>8. \A q \in Runs, b \in Seqs : Unresolved(q, b)' => \E k \in Keys : <<q, b>> \in held'[k]
    <3> TAKE q \in Runs, b \in Seqs
    <3> HAVE Unresolved(q, b)'
    <3>1. CASE q = r
      BY <2>3, <2>6, <3>1
    <3>2. CASE q # r
      <4>1. PICK k \in Keys : <<q, b>> \in held[k]
        BY <2>5, <3>2 DEF ConflictKeysSerialized
      <4>2. k \notin ks
        BY <4>1, <3>2 DEF NoConflict
      <4> QED
        BY <2>3, <4>1, <4>2
    <3> QED
      BY <3>1, <3>2
  <2> QED
    BY <2>4, <2>7, <2>8 DEF ConflictKeysSerialized
<1>8. OneRunPerKey'
  BY DEF TypeOK, OneRunPerKey, HoldsKey
<1> QED
  BY <1>1, <1>2, <1>3, <1>4, <1>5, <1>6, <1>7, <1>8

(* FailWorkflowRun preserves it.                                           *)
LEMMA FailKeeps ==
  ASSUME IInv, NEW r \in Runs, NEW h \in Holders, NEW t \in Tokens, NEW c \in Checkpoints,
         FailWorkflowRun(r, h, t, c)
  PROVE  IInv'
<1> USE DEF IInv, FailWorkflowRun, leaseVars, attemptVars, effectVars
<1>1. TypeOK'
  BY ConstantsAssumption DEF TypeOK, Tokens, Checkpoints, RunStates, AttemptStates,
     EffectStates, Reconcilers, QuestionStates, NoTime
<1>2. IntentHasAttempt'
  BY DEF TypeOK, IntentHasAttempt
<1>3. InFlightIsCurrent'
  BY DEF TypeOK, InFlightIsCurrent, InFlight
<1>4. UnresolvedEffectBlocks'
  BY DEF TypeOK, UnresolvedEffectBlocks, Unresolved, InFlight, EffectsResolved
<1>5. ReconciliationHasUnknown'
  BY DEF TypeOK, ReconciliationHasUnknown, Unresolved
<1>6. QuestionMatchesState'
  BY DEF TypeOK, QuestionMatchesState, InFlight, NoOpenQuestion
<1>7. ConflictKeysSerialized'
  BY DEF TypeOK, ConflictKeysSerialized, Unresolved
<1>8. OneRunPerKey'
  BY DEF TypeOK, OneRunPerKey, HoldsKey, Runnable, Terminal, TerminalStates
<1> QED
  BY <1>1, <1>2, <1>3, <1>4, <1>5, <1>6, <1>7, <1>8

(* AskWorkflowQuestion preserves it.                                       *)
LEMMA AskKeeps ==
  ASSUME IInv, NEW r \in Runs, NEW h \in Holders, NEW t \in Tokens, NEW c \in Checkpoints,
         AskWorkflowQuestion(r, h, t, c)
  PROVE  IInv'
<1> USE DEF IInv, AskWorkflowQuestion, leaseVars, attemptVars, effectVars
<1>1. TypeOK'
  BY ConstantsAssumption DEF TypeOK, Tokens, Checkpoints, RunStates, AttemptStates,
     EffectStates, Reconcilers, QuestionStates, NoTime
<1>2. IntentHasAttempt'
  BY DEF TypeOK, IntentHasAttempt
<1>3. InFlightIsCurrent'
  BY DEF TypeOK, InFlightIsCurrent, InFlight
<1>4. UnresolvedEffectBlocks'
  BY DEF TypeOK, UnresolvedEffectBlocks, Unresolved, InFlight, EffectsResolved
<1>5. ReconciliationHasUnknown'
  BY DEF TypeOK, ReconciliationHasUnknown, Unresolved
<1>6. QuestionMatchesState'
  BY DEF TypeOK, QuestionMatchesState, InFlight
<1>7. ConflictKeysSerialized'
  BY DEF TypeOK, ConflictKeysSerialized, Unresolved
<1>8. OneRunPerKey'
  BY DEF TypeOK, OneRunPerKey, HoldsKey
<1> QED
  BY <1>1, <1>2, <1>3, <1>4, <1>5, <1>6, <1>7, <1>8

(* AnswerWorkflowQuestion preserves it.                                    *)
LEMMA AnswerKeeps ==
  ASSUME IInv, NEW r \in Runs, NEW h \in Holders, NEW t \in Tokens, NEW c \in Checkpoints,
         AnswerWorkflowQuestion(r, h, t, c)
  PROVE  IInv'
<1> USE DEF IInv, AnswerWorkflowQuestion, leaseVars, attemptVars, effectVars
<1>1. TypeOK'
  BY ConstantsAssumption DEF TypeOK, Tokens, Checkpoints, RunStates, AttemptStates,
     EffectStates, Reconcilers, QuestionStates, NoTime
<1>2. IntentHasAttempt'
  BY DEF TypeOK, IntentHasAttempt
<1>3. InFlightIsCurrent'
  BY DEF TypeOK, InFlightIsCurrent, InFlight
<1>4. UnresolvedEffectBlocks'
  BY DEF TypeOK, UnresolvedEffectBlocks, Unresolved, InFlight
<1>5. ReconciliationHasUnknown'
  BY DEF TypeOK, ReconciliationHasUnknown, Unresolved
<1>6. QuestionMatchesState'
  BY DEF TypeOK, QuestionMatchesState, InFlight
<1>7. ConflictKeysSerialized'
  BY DEF TypeOK, ConflictKeysSerialized, Unresolved
<1>8. OneRunPerKey'
  BY DEF TypeOK, OneRunPerKey, HoldsKey
<1> QED
  BY <1>1, <1>2, <1>3, <1>4, <1>5, <1>6, <1>7, <1>8

(* WithdrawWorkflowQuestion preserves it.                                  *)
LEMMA WithdrawKeeps ==
  ASSUME IInv, NEW r \in Runs, NEW h \in Holders, NEW t \in Tokens, NEW c \in Checkpoints,
         WithdrawWorkflowQuestion(r, h, t, c)
  PROVE  IInv'
<1> USE DEF IInv, WithdrawWorkflowQuestion, leaseVars, attemptVars, effectVars
<1>1. TypeOK'
  BY ConstantsAssumption DEF TypeOK, Tokens, Checkpoints, RunStates, AttemptStates,
     EffectStates, Reconcilers, QuestionStates, NoTime
<1>2. IntentHasAttempt'
  BY DEF TypeOK, IntentHasAttempt
<1>3. InFlightIsCurrent'
  BY DEF TypeOK, InFlightIsCurrent, InFlight
<1>4. UnresolvedEffectBlocks'
  BY DEF TypeOK, UnresolvedEffectBlocks, Unresolved, InFlight
<1>5. ReconciliationHasUnknown'
  BY DEF TypeOK, ReconciliationHasUnknown, Unresolved
<1>6. QuestionMatchesState'
  BY DEF TypeOK, QuestionMatchesState, InFlight
<1>7. ConflictKeysSerialized'
  BY DEF TypeOK, ConflictKeysSerialized, Unresolved
<1>8. OneRunPerKey'
  BY DEF TypeOK, OneRunPerKey, HoldsKey
<1> QED
  BY <1>1, <1>2, <1>3, <1>4, <1>5, <1>6, <1>7, <1>8

(* FinishWorkflowAttempt preserves it.                                     *)
LEMMA FinishAttemptKeeps ==
  ASSUME IInv, NEW r \in Runs, NEW h \in Holders, NEW t \in Tokens, NEW a \in Seqs, NEW e
         \in AttemptEnds, NEW d \in 1..MaxWait,
         FinishWorkflowAttempt(r, h, t, a, e, d)
  PROVE  IInv'
<1> USE DEF IInv, leaseVars, effectVars
<1>1. /\ FinishAttempt(r, t, a, e, d)
      /\ ~Unresolved(r, a)
      /\ UNCHANGED <<leaseVars, effectVars, questions>>
  BY DEF FinishWorkflowAttempt
<1>2. /\ attCkpt' = attCkpt /\ attToken' = attToken
      /\ attState[r][a] = "running"
      /\ state[r] \in {"running", "cancelling"}
      /\ state'[r] \in {state[r], "succeeded", "failed"}
      /\ \A b \in Seqs : /\ attState'[r][b] # "running"
                         /\ attState[r][b] # "none" => attState'[r][b] # "none"
      /\ \A q \in Runs \ {r} : /\ state'[q] = state[q]
                               /\ notBefore'[q] = notBefore[q]
                               /\ ckpt'[q] = ckpt[q]
                               /\ attState'[q] = attState[q]
  BY <1>1, FinishAttemptFacts
<1>3. TypeOK'
  BY <1>1, FinishAttemptFacts DEF TypeOK
<1>4. IntentHasAttempt'
  BY <1>1, <1>2 DEF IntentHasAttempt
<1>5. InFlightIsCurrent'
  BY <1>1, <1>2 DEF InFlightIsCurrent
<1>6. UnresolvedEffectBlocks'
  BY <1>1, <1>2 DEF UnresolvedEffectBlocks, Unresolved, InFlightIsCurrent, InFlight
<1>7. ReconciliationHasUnknown'
  BY <1>1, <1>2 DEF ReconciliationHasUnknown
<1>8. QuestionMatchesState'
  BY <1>1, <1>2 DEF QuestionMatchesState, InFlight
<1>9. ConflictKeysSerialized'
  BY <1>1 DEF ConflictKeysSerialized, Unresolved
<1>10. OneRunPerKey'
  BY <1>1, <1>2 DEF OneRunPerKey, HoldsKey
<1> QED
  BY <1>3, <1>4, <1>5, <1>6, <1>7, <1>8, <1>9, <1>10

(* InterruptWorkflowAttempt preserves it: the attempt has no effect to     *)
(* settle, and the run stays where it was.                                 *)
LEMMA InterruptKeeps ==
  ASSUME IInv, NEW r \in Runs, NEW h \in Holders, NEW t \in Tokens, NEW a \in Seqs,
         InterruptWorkflowAttempt(r, h, t, a)
  PROVE  IInv'
<1> USE DEF IInv, InterruptWorkflowAttempt, leaseVars, effectVars
<1>1. TypeOK'
  BY DEF TypeOK, AttemptStates
<1>2. /\ attState[r][a] = "running"
      /\ \A b \in Seqs : /\ attState'[r][b] # "running"
                         /\ attState[r][b] # "none" => attState'[r][b] # "none"
      /\ \A q \in Runs \ {r} : attState'[q] = attState[q]
  BY DEF TypeOK, InFlightIsCurrent
<1>3. IntentHasAttempt'
  BY <1>2 DEF IntentHasAttempt
<1>4. InFlightIsCurrent'
  BY <1>2 DEF InFlightIsCurrent
<1>5. UnresolvedEffectBlocks'
  BY <1>2 DEF UnresolvedEffectBlocks, Unresolved, InFlightIsCurrent, InFlight
<1>6. ReconciliationHasUnknown' /\ OneRunPerKey'
  BY DEF ReconciliationHasUnknown, OneRunPerKey, HoldsKey
<1>7. QuestionMatchesState'
  BY <1>2 DEF QuestionMatchesState, InFlight
<1>8. ConflictKeysSerialized'
  BY DEF ConflictKeysSerialized, Unresolved
<1> QED
  BY <1>1, <1>3, <1>4, <1>5, <1>6, <1>7, <1>8

(* FinishWorkflowEffect preserves it: the receipt and the attempt's end    *)
(* commit together, and the keys go with them.                             *)
LEMMA FinishEffectKeeps ==
  ASSUME IInv, NEW r \in Runs, NEW h \in Holders, NEW t \in Tokens, NEW a \in Seqs, NEW e
         \in AttemptEnds, NEW d \in 1..MaxWait,
         FinishWorkflowEffect(r, h, t, a, e, d)
  PROVE  IInv'
<1> USE DEF IInv, leaseVars
<1>1. /\ FinishAttempt(r, t, a, e, d)
      /\ UNCHANGED <<leaseVars, reconciler, questions>>
  BY DEF FinishWorkflowEffect
<1>2. /\ effect' \in [Runs -> [Seqs -> EffectStates]]
      /\ held' \in [Keys -> SUBSET (Runs \X Seqs)]
      /\ effect[r][a] = "pending"
      /\ effect'[r][a] \in {"succeeded", "failed"}
      /\ \A q \in Runs, b \in Seqs : q # r \/ b # a => effect'[q][b] = effect[q][b]
  BY DEF FinishWorkflowEffect, InsertReceipt, TypeOK, EffectStates
<1>3. /\ attCkpt' = attCkpt /\ attToken' = attToken
      /\ attState[r][a] = "running"
      /\ state[r] \in {"running", "cancelling"}
      /\ state'[r] \in {state[r], "succeeded", "failed"}
      /\ \A b \in Seqs : /\ attState'[r][b] # "running"
                         /\ attState[r][b] # "none" => attState'[r][b] # "none"
      /\ \A q \in Runs \ {r} : /\ state'[q] = state[q]
                               /\ notBefore'[q] = notBefore[q]
                               /\ ckpt'[q] = ckpt[q]
                               /\ attState'[q] = attState[q]
  BY <1>1, FinishAttemptFacts
<1>4. TypeOK'
  BY <1>1, <1>2, FinishAttemptFacts DEF TypeOK
<1>5. IntentHasAttempt'
  BY <1>1, <1>2, <1>3 DEF IntentHasAttempt
<1>6. InFlightIsCurrent'
  BY <1>1, <1>3 DEF InFlightIsCurrent
<1>7. UnresolvedEffectBlocks'
  BY SMTT(30), <1>1, <1>2, <1>3 DEF UnresolvedEffectBlocks, Unresolved, InFlight
<1>8. ReconciliationHasUnknown'
  BY <1>1, <1>2, <1>3 DEF ReconciliationHasUnknown
<1>9. QuestionMatchesState'
  BY <1>1, <1>3 DEF QuestionMatchesState, InFlight
<1>10. ConflictKeysSerialized'
  BY <1>2 DEF FinishWorkflowEffect, InsertReceipt, TypeOK, ConflictKeysSerialized,
     Unresolved
<1>11. OneRunPerKey'
  <2>1. \A q \in Runs : HoldsKey(q)' => HoldsKey(q)
    BY <1>3 DEF HoldsKey
  <2> QED
    BY <2>1 DEF OneRunPerKey
<1> QED
  BY <1>4, <1>5, <1>6, <1>7, <1>8, <1>9, <1>10, <1>11

(* MarkWorkflowEffectUnknown preserves it: the keys stay held.             *)
LEMMA MarkUnknownKeeps ==
  ASSUME IInv, NEW r \in Runs, NEW h \in Holders, NEW t \in Tokens, NEW a \in Seqs, NEW d
         \in 0..MaxWait,
         MarkWorkflowEffectUnknown(r, h, t, a, d)
  PROVE  IInv'
<1> USE DEF IInv, leaseVars
<1>1. /\ MarkUnknown(r, {a}, d)
      /\ attState' = [attState EXCEPT ![r][a] = "failed"]
      /\ effect[r][a] = "pending"
      /\ UNCHANGED <<ckpt, leaseVars, attCkpt, attToken, reconciler, held, questions>>
  BY DEF MarkWorkflowEffectUnknown
<1>2. attState' \in [Runs -> [Seqs -> AttemptStates]]
  BY <1>1 DEF TypeOK, AttemptStates
<1>3. /\ attState[r][a] = "running"
      /\ state[r] \in {"running", "cancelling"}
      /\ \A b \in Seqs : attState'[r][b] # "running"
      /\ \A b \in Seqs : attState[r][b] # "none" => attState'[r][b] # "none"
      /\ \A q \in Runs \ {r} : attState'[q] = attState[q]
  BY <1>1 DEF TypeOK, MarkWorkflowEffectUnknown, MayEnd, InFlightIsCurrent
<1>4. /\ state'[r] = IF state[r] = "cancelling" THEN "cancelling" ELSE "needs_reconciliation"
      /\ \A b \in Seqs : effect'[r][b] = IF b = a THEN "unknown" ELSE effect[r][b]
      /\ \A q \in Runs \ {r} : /\ state'[q] = state[q]
                               /\ notBefore'[q] = notBefore[q]
                               /\ effect'[q] = effect[q]
  <2> DEFINE S == {a}
  <2>1. TypeOK /\ S \in SUBSET Seqs /\ MarkUnknown(r, S, d)
    BY <1>1
  <2>2. \A b : b \in S <=> b = a
    OBVIOUS
  <2> HIDE DEF S, IInv
  <2>3. /\ state'[r] = IF state[r] = "cancelling" THEN "cancelling" ELSE "needs_reconciliation"
        /\ \A b \in Seqs : effect'[r][b] = IF b \in S THEN "unknown" ELSE effect[r][b]
        /\ \A q \in Runs \ {r} : /\ state'[q] = state[q]
                                 /\ notBefore'[q] = notBefore[q]
                                 /\ effect'[q] = effect[q]
    BY <2>1, MarkUnknownFacts
  <2> QED
    BY <2>2, <2>3
<1>5. TypeOK'
  BY ZenonT(30), <1>1, <1>2, MarkUnknownFacts DEF TypeOK
<1>6. IntentHasAttempt'
  BY <1>1, <1>3, <1>4 DEF IntentHasAttempt
<1>7. InFlightIsCurrent'
  BY <1>1, <1>3, <1>4 DEF InFlightIsCurrent
<1>8. UnresolvedEffectBlocks'
  BY <1>1, <1>3, <1>4 DEF UnresolvedEffectBlocks, Unresolved, InFlight
<1>9. ReconciliationHasUnknown'
  BY <1>1, <1>4 DEF ReconciliationHasUnknown
<1>10. QuestionMatchesState'
  BY <1>1, <1>3, <1>4 DEF QuestionMatchesState, InFlight
<1>11. ConflictKeysSerialized'
  <2>1. held' = held /\ \A q \in Runs, b \in Seqs : Unresolved(q, b)' <=> Unresolved(q, b)
    BY <1>1, <1>4 DEF Unresolved
  <2> QED
    BY <2>1 DEF TypeOK, ConflictKeysSerialized
<1>12. OneRunPerKey'
  BY <1>1, <1>3, <1>4 DEF OneRunPerKey, HoldsKey
<1> QED
  BY <1>5, <1>6, <1>7, <1>8, <1>9, <1>10, <1>11, <1>12

(* ResolveWorkflowEffect preserves it: the unknown intent is the run's     *)
(* only unresolved one, so the run always leaves needs_reconciliation.     *)
LEMMA ResolveKeeps ==
  ASSUME IInv, NEW r \in Runs, NEW h \in Holders, NEW t \in Tokens, NEW a \in Seqs, NEW
         outcome \in {"succeeded", "failed"},
         ResolveWorkflowEffect(r, h, t, a, outcome)
  PROVE  IInv'
<1> USE DEF IInv, ResolveWorkflowEffect, InsertReceipt, leaseVars, attemptVars, effectVars
<1>1. TypeOK'
  BY ConstantsAssumption DEF TypeOK, Tokens, Checkpoints, RunStates, AttemptStates,
     EffectStates, Reconcilers, QuestionStates, NoTime
<1>2. IntentHasAttempt'
  BY DEF TypeOK, IntentHasAttempt
<1>3. InFlightIsCurrent'
  BY DEF TypeOK, InFlightIsCurrent, InFlight
<1>4. UnresolvedEffectBlocks'
  BY DEF TypeOK, UnresolvedEffectBlocks, Unresolved, InFlight
<1>5. ReconciliationHasUnknown'
  BY DEF TypeOK, ReconciliationHasUnknown, UnresolvedEffectBlocks, Unresolved
<1>6. QuestionMatchesState'
  BY DEF TypeOK, QuestionMatchesState, InFlight
<1>7. ConflictKeysSerialized'
  BY DEF TypeOK, ConflictKeysSerialized, Unresolved
<1>8. OneRunPerKey'
  BY DEF TypeOK, OneRunPerKey, HoldsKey
<1> QED
  BY <1>1, <1>2, <1>3, <1>4, <1>5, <1>6, <1>7, <1>8

(* An empty database satisfies the inductive invariant.                    *)
LEMMA InitHolds == Init => IInv
<1> SUFFICES ASSUME Init PROVE IInv
  OBVIOUS
<1> USE DEF Init
<1>1. TypeOK
  BY ConstantsAssumption DEF TypeOK, Seqs, Tokens, Checkpoints, RunStates, AttemptStates,
     EffectStates, Reconcilers, QuestionStates, NoTime
<1>2. IntentHasAttempt /\ InFlightIsCurrent /\ ReconciliationHasUnknown
  BY DEF IntentHasAttempt, InFlightIsCurrent, ReconciliationHasUnknown
<1>3. UnresolvedEffectBlocks /\ QuestionMatchesState
  BY <1>1 DEF TypeOK, UnresolvedEffectBlocks, Unresolved, QuestionMatchesState
<1>4. ConflictKeysSerialized /\ OneRunPerKey
  BY DEF ConflictKeysSerialized, Unresolved, OneRunPerKey, HoldsKey
<1> QED
  BY <1>1, <1>2, <1>3, <1>4 DEF IInv

(* Every step of the store preserves the inductive invariant.              *)
LEMMA NextKeeps == IInv /\ [Next]_vars => IInv'
<1> SUFFICES ASSUME IInv, [Next]_vars PROVE IInv'
  OBVIOUS
<1>1. CASE UNCHANGED vars
  <2> USE <1>1 DEF IInv, vars, leaseVars, attemptVars, effectVars
  <2>1. TypeOK' /\ IntentHasAttempt' /\ InFlightIsCurrent'
    BY DEF TypeOK, IntentHasAttempt, InFlightIsCurrent
  <2>2. UnresolvedEffectBlocks' /\ ReconciliationHasUnknown'
    BY DEF UnresolvedEffectBlocks, ReconciliationHasUnknown, Unresolved, InFlight
  <2>3. QuestionMatchesState' /\ ConflictKeysSerialized' /\ OneRunPerKey'
    BY DEF QuestionMatchesState, ConflictKeysSerialized, OneRunPerKey, InFlight, Unresolved,
       HoldsKey
  <2> QED
    BY <2>1, <2>2, <2>3
<1>2. CASE Tick
  BY <1>2, TickKeeps
<1>3. ASSUME NEW r \in Runs,
             StartWorkflowRun(r) \/ RequestWorkflowRunCancellation(r)
      PROVE  IInv'
  BY <1>3, StartKeeps, RequestKeeps
<1>4. ASSUME NEW r \in Runs, NEW h \in Holders, AcquireWorkflowRunLease(r, h)
      PROVE  IInv'
  BY <1>4, AcquireKeeps
<1>5. ASSUME NEW r \in Runs, NEW h \in Holders, NEW t \in Tokens, LeaseWrite(r, h, t)
      PROVE  IInv'
  BY <1>5, HeartbeatKeeps, ReleaseKeeps, PauseKeeps, ResumeKeeps, FinishCancellationKeeps,
     DeferKeeps DEF LeaseWrite
<1>6. ASSUME NEW r \in Runs, NEW h \in Holders, NEW t \in Tokens, NEW c \in Checkpoints,
             CheckpointWrite(r, h, t, c)
      PROVE  IInv'
  BY <1>6, BeginAttemptKeeps, BeginEffectKeeps, FailKeeps, AskKeeps, AnswerKeeps,
     WithdrawKeeps DEF CheckpointWrite
<1>7. ASSUME NEW r \in Runs, NEW h \in Holders, NEW t \in Tokens, NEW a \in Seqs,
             AttemptWrite(r, h, t, a)
      PROVE  IInv'
  BY <1>7, FinishAttemptKeeps, InterruptKeeps, FinishEffectKeeps, MarkUnknownKeeps,
     ResolveKeeps DEF AttemptWrite
<1> QED
  BY <1>1, <1>2, <1>3, <1>4, <1>5, <1>6, <1>7 DEF Next

-----------------------------------------------------------------------------
(* The theorems.                                                           *)

(* The inductive invariant holds in every reachable state, for any number  *)
(* of runs, holders, keys, claims, attempts and checkpoints.               *)
THEOREM Invariance == Spec => []IInv
<1>1. Init => IInv
  BY InitHolds
<1>2. IInv /\ [Next]_vars => IInv'
  BY NextKeeps
<1> QED
  BY <1>1, <1>2, PTL DEF Spec

(* Every row stays well formed.                                            *)
THEOREM TypeCorrectness == Spec => []TypeOK
<1>1. IInv => TypeOK
  BY DEF IInv
<1> QED
  BY <1>1, Invariance, PTL

(* The attempt in flight is the only one, and the current lease's.         *)
THEOREM InFlightCorrectness == Spec => []InFlightIsCurrent
<1>1. IInv => InFlightIsCurrent
  BY DEF IInv
<1> QED
  BY <1>1, Invariance, PTL

(* An effect without its receipt blocks its run, as workflow_effects.go's  *)
(* header claims.                                                          *)
THEOREM EffectsBlock == Spec => []UnresolvedEffectBlocks
<1>1. IInv => UnresolvedEffectBlocks
  BY DEF IInv
<1> QED
  BY <1>1, Invariance, PTL

(* A run that needs reconciliation has something to reconcile.             *)
THEOREM ReconciliationIsPossible == Spec => []ReconciliationHasUnknown
<1>1. IInv => ReconciliationHasUnknown
  BY DEF IInv
<1> QED
  BY <1>1, Invariance, PTL

(* A run waits for a human exactly while its question is open.             *)
THEOREM QuestionsMatch == Spec => []QuestionMatchesState
<1>1. IInv => QuestionMatchesState
  BY DEF IInv
<1> QED
  BY <1>1, Invariance, PTL

(* A Resource Conflict Key serializes effects across all runs.             *)
THEOREM ConflictKeysSerialize == Spec => []ConflictKeysSerialized
<1>1. IInv => ConflictKeysSerialized
  BY DEF IInv
<1> QED
  BY <1>1, Invariance, PTL

(* StartWorkflowRun never gives one Run Key to two runs.                   *)
THEOREM RunKeysAreUnique == Spec => []OneRunPerKey
<1>1. IInv => OneRunPerKey
  BY DEF IInv
<1> QED
  BY <1>1, Invariance, PTL

(* A finished run left no attempt, effect, question or key behind.         *)
THEOREM FinishedRunsAreSettled == Spec => []FinishedRunIsSettled
<1>1. IInv => FinishedRunIsSettled
  <2> SUFFICES ASSUME IInv, NEW r \in Runs, Terminal(r)
               PROVE  /\ ~InFlight(r)
                      /\ EffectsResolved(r)
                      /\ NoOpenQuestion(r)
                      /\ \A k \in Keys : \A x \in held[k] : x[1] # r
    BY DEF FinishedRunIsSettled
  <2> USE DEF IInv, Terminal, TerminalStates
  <2>1. ~InFlight(r)
    BY DEF InFlight, InFlightIsCurrent
  <2>2. EffectsResolved(r)
    BY <2>1 DEF EffectsResolved, UnresolvedEffectBlocks, Unresolved, InFlight
  <2>3. NoOpenQuestion(r)
    BY DEF NoOpenQuestion, QuestionMatchesState
  <2>4. \A k \in Keys : \A x \in held[k] : x[1] # r
    BY <2>2 DEF TypeOK, EffectsResolved, ConflictKeysSerialized
  <2> QED
    BY <2>1, <2>2, <2>3, <2>4
<1> QED
  BY <1>1, Invariance, PTL

(* No unfinished run is forgotten by scheduler and owner alike.            *)
THEOREM NoRunIsStranded == Spec => []NeverStranded
<1>1. IInv => NeverStranded
  <2> SUFFICES ASSUME IInv, NEW r \in Runs, Runnable(r), LeaseFree(r), ~(notBefore[r] > 0)
               PROVE  \/ Due(r)
                      \/ state[r] = "waiting_for_human" /\ ~NoOpenQuestion(r)
                      \/ /\ state[r] \in {"needs_reconciliation", "cancelling"}
                         /\ \E a \in Seqs : effect[r][a] = "unknown"
    BY DEF NeverStranded
  <2>1. notBefore[r] <= 0
    <3>1. notBefore[r] \in {NoTime} \cup 0..MaxWait
      BY DEF IInv, TypeOK
    <3>2. notBefore[r] \in Int
      BY <3>1, ConstantsAssumption DEF NoTime
    <3> QED
      BY <3>2
  <2>2. state[r] \in {"queued", "running", "waiting_for_human", "waiting_for_dependency",
                      "needs_reconciliation", "cancelling"}
    BY DEF IInv, TypeOK, RunStates, Runnable, Terminal, TerminalStates
  <2>3. CASE state[r] = "waiting_for_human"
    BY <2>3 DEF IInv, TypeOK, QuestionMatchesState, NoOpenQuestion
  <2>4. CASE state[r] = "needs_reconciliation"
    BY <2>4 DEF IInv, ReconciliationHasUnknown
  <2>5. CASE state[r] = "cancelling"
    BY <2>5 DEF Due
  <2>6. CASE state[r] \in {"queued", "running", "waiting_for_dependency"}
    BY <2>1, <2>6 DEF Due
  <2> QED
    BY <2>2, <2>3, <2>4, <2>5, <2>6
<1> QED
  BY <1>1, Invariance, PTL

(* The rows of a run agree with each other in every reachable state.       *)
THEOREM RowsAlwaysAgree == Spec => []RowsAgree
<1>1. TypeOK /\ InFlightIsCurrent /\ QuestionMatchesState => RowsAgree
  BY DEF RowsAgree
<1> QED
  BY <1>1, TypeCorrectness, InFlightCorrectness, QuestionsMatch, PTL

(* An Effect Intent blocks its run until its receipt and no longer.        *)
THEOREM EffectsStayAccounted == Spec => []EffectsAreAccounted
<1>1. UnresolvedEffectBlocks /\ ReconciliationHasUnknown /\ FinishedRunIsSettled
        => EffectsAreAccounted
  BY DEF EffectsAreAccounted
<1> QED
  BY <1>1, EffectsBlock, ReconciliationIsPossible, FinishedRunsAreSettled, PTL

(* Run Keys and Resource Conflict Keys are exclusive.                      *)
THEOREM KeysStayExclusive == Spec => []KeysAreExclusive
<1>1. OneRunPerKey /\ ConflictKeysSerialized => KeysAreExclusive
  BY DEF KeysAreExclusive
<1> QED
  BY <1>1, RunKeysAreUnique, ConflictKeysSerialize, PTL

-----------------------------------------------------------------------------
(* What no transaction may do.  Each is shown of one run q for a step on   *)
(* any run r, so that the two cases are what the operation does to its own *)
(* run, and that it leaves every other run alone.                          *)

(* A finished run never changes again, so the trigger workflow_runs_terminal*)
(* never refuses a write.                                                  *)
THEOREM FinishedRunsAreFinal == Spec => FinishedIsFinal
<1>1. ASSUME IInv, [Next]_vars, NEW q \in Runs PROVE FinishedStays(q)
  <2> USE <1>1 DEF FinishedStays, IInv, TypeOK, leaseVars, attemptVars, effectVars
  <2>1. CASE UNCHANGED vars
    BY <2>1 DEF vars
  <2>2. CASE Tick
    BY <2>2 DEF Tick
  <2>3. ASSUME NEW r \in Runs, StartWorkflowRun(r) PROVE FinishedStays(q)
    BY <2>3 DEF StartWorkflowRun, Terminal, TerminalStates
  <2>4. ASSUME NEW r \in Runs, RequestWorkflowRunCancellation(r) PROVE FinishedStays(q)
    BY <2>4 DEF RequestWorkflowRunCancellation, Runnable, Terminal, TerminalStates
  <2>5. ASSUME NEW r \in Runs, NEW h \in Holders, AcquireWorkflowRunLease(r, h)
        PROVE  FinishedStays(q)
    BY <2>5, AcquireFacts DEF Terminal, TerminalStates
  <2>6. ASSUME NEW r \in Runs, NEW h \in Holders, NEW t \in Tokens, LeaseWrite(r, h, t)
        PROVE  FinishedStays(q)
    BY <2>6 DEF LeaseWrite, HeartbeatWorkflowRunLease, ReleaseWorkflowRunLease,
       PauseWorkflowRun, ResumeWorkflowRun, FinishWorkflowCancellation,
       DeferWorkflowReconciliation, Runnable, Terminal, TerminalStates
  <2>7. ASSUME NEW r \in Runs, NEW h \in Holders, NEW t \in Tokens,
               NEW c \in Checkpoints, CheckpointWrite(r, h, t, c)
        PROVE  FinishedStays(q)
    BY <2>7 DEF CheckpointWrite, BeginWorkflowAttempt, BeginWorkflowEffect,
       BeginAttempt, FailWorkflowRun, AskWorkflowQuestion, AnswerWorkflowQuestion,
       WithdrawWorkflowQuestion, Runnable, Terminal, TerminalStates
  <2>8. ASSUME NEW r \in Runs, NEW h \in Holders, NEW t \in Tokens, NEW a \in Seqs,
               NEW e \in AttemptEnds, NEW d \in 1..MaxWait,
               FinishWorkflowAttempt(r, h, t, a, e, d)
        PROVE  FinishedStays(q)
    BY <2>8 DEF FinishWorkflowAttempt, FinishAttempt, MayEnd, Runnable, Terminal,
       TerminalStates
  <2>9. ASSUME NEW r \in Runs, NEW h \in Holders, NEW t \in Tokens, NEW a \in Seqs,
               NEW e \in AttemptEnds, NEW d \in 1..MaxWait,
               FinishWorkflowEffect(r, h, t, a, e, d)
        PROVE  FinishedStays(q)
    BY <2>9 DEF FinishWorkflowEffect, FinishAttempt, InsertReceipt, MayEnd, Runnable,
       Terminal, TerminalStates
  <2>10. ASSUME NEW r \in Runs, NEW h \in Holders, NEW t \in Tokens, NEW a \in Seqs,
               NEW d \in 0..MaxWait, MarkWorkflowEffectUnknown(r, h, t, a, d)
        PROVE  FinishedStays(q)
    BY <2>10 DEF MarkWorkflowEffectUnknown, MarkUnknown, MayEnd, Runnable, Terminal,
       TerminalStates
  <2>11. ASSUME NEW r \in Runs, NEW h \in Holders, NEW t \in Tokens, NEW a \in Seqs,
               NEW outcome \in {"succeeded", "failed"},
               ResolveWorkflowEffect(r, h, t, a, outcome)
        PROVE  FinishedStays(q)
    BY <2>11 DEF ResolveWorkflowEffect, InsertReceipt, Terminal, TerminalStates
  <2>12. ASSUME NEW r \in Runs, NEW h \in Holders, NEW t \in Tokens, NEW a \in Seqs,
               InterruptWorkflowAttempt(r, h, t, a)
        PROVE  FinishedStays(q)
    BY <2>12 DEF InterruptWorkflowAttempt, InFlightIsCurrent, Terminal, TerminalStates
  <2> HIDE DEF FinishedStays
  <2> QED
    BY <2>1, <2>2, <2>3, <2>4, <2>5, <2>6, <2>7, <2>8, <2>9, <2>10, <2>11, <2>12
       DEF Next, AttemptWrite
<1>2. IInv /\ [Next]_vars => \A r \in Runs : FinishedStays(r)
  BY <1>1
<1> QED
  BY <1>2, Invariance, PTL DEF Spec, FinishedIsFinal

(* A holder that lost its lease changes nothing of the run: the fence of   *)
(* withWorkflowRunLease is enough, whatever stale token a caller presents. *)
THEOREM StaleHoldersWriteNothing == Spec => StaleHolderWritesNothing
<1>1. ASSUME IInv, [Next]_vars, NEW q \in Runs PROVE OnlyLiveLeaseWrites(q)
  <2> USE <1>1 DEF OnlyLiveLeaseWrites, IInv, TypeOK, leaseVars, attemptVars, effectVars
  <2>1. CASE UNCHANGED vars
    BY <2>1 DEF vars
  <2>2. CASE Tick
    BY <2>2 DEF Tick
  <2>3. ASSUME NEW r \in Runs, StartWorkflowRun(r) PROVE OnlyLiveLeaseWrites(q)
    BY <2>3 DEF StartWorkflowRun
  <2>4. ASSUME NEW r \in Runs, RequestWorkflowRunCancellation(r) PROVE OnlyLiveLeaseWrites(q)
    BY <2>4 DEF RequestWorkflowRunCancellation
  <2>5. ASSUME NEW r \in Runs, NEW h \in Holders, AcquireWorkflowRunLease(r, h)
        PROVE  OnlyLiveLeaseWrites(q)
    <3>1. CASE q = r
      BY <2>5, <3>1, AcquireFacts DEF AcquireWorkflowRunLease, Tokens
    <3>2. CASE q # r
      BY <2>5, <3>2, AcquireFacts
    <3> QED
      BY <3>1, <3>2
  <2>6. ASSUME NEW r \in Runs, NEW h \in Holders, NEW t \in Tokens, LeaseWrite(r, h, t)
        PROVE  OnlyLiveLeaseWrites(q)
    BY <2>6 DEF LeaseWrite, HeartbeatWorkflowRunLease, ReleaseWorkflowRunLease,
       PauseWorkflowRun, ResumeWorkflowRun, FinishWorkflowCancellation,
       DeferWorkflowReconciliation, Fenced, LeaseFree
  <2>7. ASSUME NEW r \in Runs, NEW h \in Holders, NEW t \in Tokens,
               NEW c \in Checkpoints, CheckpointWrite(r, h, t, c)
        PROVE  OnlyLiveLeaseWrites(q)
    BY <2>7 DEF CheckpointWrite, BeginWorkflowAttempt, BeginWorkflowEffect,
       BeginAttempt, FailWorkflowRun, AskWorkflowQuestion, AnswerWorkflowQuestion,
       WithdrawWorkflowQuestion, Fenced, LeaseFree
  <2>8. ASSUME NEW r \in Runs, NEW h \in Holders, NEW t \in Tokens, NEW a \in Seqs,
               NEW e \in AttemptEnds, NEW d \in 1..MaxWait,
               FinishWorkflowAttempt(r, h, t, a, e, d)
        PROVE  OnlyLiveLeaseWrites(q)
    BY <2>8 DEF FinishWorkflowAttempt, FinishAttempt, Fenced, LeaseFree
  <2>9. ASSUME NEW r \in Runs, NEW h \in Holders, NEW t \in Tokens, NEW a \in Seqs,
               NEW e \in AttemptEnds, NEW d \in 1..MaxWait,
               FinishWorkflowEffect(r, h, t, a, e, d)
        PROVE  OnlyLiveLeaseWrites(q)
    BY <2>9 DEF FinishWorkflowEffect, FinishAttempt, InsertReceipt, Fenced, LeaseFree
  <2>10. ASSUME NEW r \in Runs, NEW h \in Holders, NEW t \in Tokens, NEW a \in Seqs,
               NEW d \in 0..MaxWait, MarkWorkflowEffectUnknown(r, h, t, a, d)
        PROVE  OnlyLiveLeaseWrites(q)
    BY <2>10 DEF MarkWorkflowEffectUnknown, MarkUnknown, Fenced, LeaseFree
  <2>11. ASSUME NEW r \in Runs, NEW h \in Holders, NEW t \in Tokens, NEW a \in Seqs,
               NEW outcome \in {"succeeded", "failed"},
               ResolveWorkflowEffect(r, h, t, a, outcome)
        PROVE  OnlyLiveLeaseWrites(q)
    BY <2>11 DEF ResolveWorkflowEffect, InsertReceipt, Fenced, LeaseFree
  <2>12. ASSUME NEW r \in Runs, NEW h \in Holders, NEW t \in Tokens, NEW a \in Seqs,
               InterruptWorkflowAttempt(r, h, t, a)
        PROVE  OnlyLiveLeaseWrites(q)
    BY <2>12 DEF InterruptWorkflowAttempt, Fenced, LeaseFree
  <2> HIDE DEF OnlyLiveLeaseWrites
  <2> QED
    BY <2>1, <2>2, <2>3, <2>4, <2>5, <2>6, <2>7, <2>8, <2>9, <2>10, <2>11, <2>12
       DEF Next, AttemptWrite
<1>2. IInv /\ [Next]_vars => \A r \in Runs : OnlyLiveLeaseWrites(r)
  BY <1>1
<1> QED
  BY <1>2, Invariance, PTL DEF Spec, StaleHolderWritesNothing

(* A cancelling run starts nothing and only finishes.                      *)
THEOREM CancellationStartsNothing == Spec => CancellingStartsNothing
<1>1. ASSUME IInv, [Next]_vars, NEW q \in Runs PROVE CancellingOnlyEnds(q)
  <2> USE <1>1 DEF CancellingOnlyEnds, IInv, TypeOK, leaseVars, attemptVars, effectVars
  <2>1. CASE UNCHANGED vars
    BY <2>1 DEF vars
  <2>2. CASE Tick
    BY <2>2 DEF Tick
  <2>3. ASSUME NEW r \in Runs, StartWorkflowRun(r) PROVE CancellingOnlyEnds(q)
    BY <2>3 DEF StartWorkflowRun
  <2>4. ASSUME NEW r \in Runs, RequestWorkflowRunCancellation(r) PROVE CancellingOnlyEnds(q)
    BY <2>4 DEF RequestWorkflowRunCancellation
  <2>5. ASSUME NEW r \in Runs, NEW h \in Holders, AcquireWorkflowRunLease(r, h)
        PROVE  CancellingOnlyEnds(q)
    BY <2>5, AcquireFacts
  <2>6. ASSUME NEW r \in Runs, NEW h \in Holders, NEW t \in Tokens, LeaseWrite(r, h, t)
        PROVE  CancellingOnlyEnds(q)
    <3>1. CASE FinishWorkflowCancellation(r, h, t)
      BY <3>1 DEF FinishWorkflowCancellation
    <3>2. CASE ~FinishWorkflowCancellation(r, h, t)
      BY <2>6, <3>2 DEF LeaseWrite, HeartbeatWorkflowRunLease, ReleaseWorkflowRunLease,
         PauseWorkflowRun, ResumeWorkflowRun, DeferWorkflowReconciliation
    <3> QED
      BY <3>1, <3>2
  <2>7. ASSUME NEW r \in Runs, NEW h \in Holders, NEW t \in Tokens,
               NEW c \in Checkpoints, CheckpointWrite(r, h, t, c)
        PROVE  CancellingOnlyEnds(q)
    BY <2>7 DEF CheckpointWrite, BeginWorkflowAttempt, BeginWorkflowEffect,
       BeginAttempt, FailWorkflowRun, AskWorkflowQuestion, AnswerWorkflowQuestion,
       WithdrawWorkflowQuestion
  <2>8. ASSUME NEW r \in Runs, NEW h \in Holders, NEW t \in Tokens, NEW a \in Seqs,
               NEW e \in AttemptEnds, NEW d \in 1..MaxWait,
               FinishWorkflowAttempt(r, h, t, a, e, d)
        PROVE  CancellingOnlyEnds(q)
    BY <2>8 DEF FinishWorkflowAttempt, FinishAttempt, MayEnd, StateAfter
  <2>9. ASSUME NEW r \in Runs, NEW h \in Holders, NEW t \in Tokens, NEW a \in Seqs,
               NEW e \in AttemptEnds, NEW d \in 1..MaxWait,
               FinishWorkflowEffect(r, h, t, a, e, d)
        PROVE  CancellingOnlyEnds(q)
    BY <2>9 DEF FinishWorkflowEffect, FinishAttempt, InsertReceipt, MayEnd, StateAfter
  <2>10. ASSUME NEW r \in Runs, NEW h \in Holders, NEW t \in Tokens, NEW a \in Seqs,
               NEW d \in 0..MaxWait, MarkWorkflowEffectUnknown(r, h, t, a, d)
        PROVE  CancellingOnlyEnds(q)
    BY <2>10 DEF MarkWorkflowEffectUnknown, MarkUnknown, MayEnd
  <2>11. ASSUME NEW r \in Runs, NEW h \in Holders, NEW t \in Tokens, NEW a \in Seqs,
               NEW outcome \in {"succeeded", "failed"},
               ResolveWorkflowEffect(r, h, t, a, outcome)
        PROVE  CancellingOnlyEnds(q)
    BY <2>11 DEF ResolveWorkflowEffect, InsertReceipt
  <2>12. ASSUME NEW r \in Runs, NEW h \in Holders, NEW t \in Tokens, NEW a \in Seqs,
               InterruptWorkflowAttempt(r, h, t, a)
        PROVE  CancellingOnlyEnds(q)
    BY <2>12 DEF InterruptWorkflowAttempt
  <2> HIDE DEF CancellingOnlyEnds
  <2> QED
    BY <2>1, <2>2, <2>3, <2>4, <2>5, <2>6, <2>7, <2>8, <2>9, <2>10, <2>11, <2>12
       DEF Next, AttemptWrite
<1>2. IInv /\ [Next]_vars => \A r \in Runs : CancellingOnlyEnds(r)
  BY <1>1
<1> QED
  BY <1>2, Invariance, PTL DEF Spec, CancellingStartsNothing

(* Attempts, receipts, checkpoints and lease tokens are never rewritten.   *)
THEOREM HistoryNeverChanges == Spec => HistoryIsImmutable
<1>1. ASSUME IInv, [Next]_vars, NEW q \in Runs PROVE HistoryKept(q)
  <2> USE <1>1 DEF HistoryKept, IInv, TypeOK, leaseVars, attemptVars, effectVars
  <2>1. CASE UNCHANGED vars
    BY <2>1 DEF vars, Tokens, Checkpoints
  <2>2. CASE Tick
    BY <2>2 DEF Tick, Tokens, Checkpoints
  <2>3. ASSUME NEW r \in Runs, StartWorkflowRun(r) PROVE HistoryKept(q)
    BY <2>3 DEF StartWorkflowRun, Tokens, Checkpoints
  <2>4. ASSUME NEW r \in Runs, RequestWorkflowRunCancellation(r) PROVE HistoryKept(q)
    BY <2>4 DEF RequestWorkflowRunCancellation, Tokens, Checkpoints
  <2>5. ASSUME NEW r \in Runs, NEW h \in Holders, AcquireWorkflowRunLease(r, h)
        PROVE  HistoryKept(q)
    <3>1. ckpt'[q] >= ckpt[q]
      BY <2>5, AcquireFacts DEF Checkpoints
    <3>2. token'[q] >= token[q]
      BY <2>5 DEF AcquireWorkflowRunLease, Tokens
    <3>3. state'[q] \in {state[q], "needs_reconciliation"}
      BY <2>5, AcquireFacts
    <3>4. \A a \in Seqs :
            /\ attState'[q][a] # attState[q][a] => attState[q][a] = "running"
            /\ effect'[q][a] # effect[q][a] => effect[q][a] = "pending" /\ effect'[q][a] = "unknown"
      <4>1. CASE q = r
        BY <2>5, <4>1, AcquireFacts
      <4>2. CASE q # r
        BY <2>5, <4>2, AcquireFacts
      <4> QED
        BY <4>1, <4>2
    <3> QED
      BY <3>1, <3>2, <3>3, <3>4
  <2>6. ASSUME NEW r \in Runs, NEW h \in Holders, NEW t \in Tokens, LeaseWrite(r, h, t)
        PROVE  HistoryKept(q)
    BY <2>6 DEF LeaseWrite, HeartbeatWorkflowRunLease, ReleaseWorkflowRunLease,
       PauseWorkflowRun, ResumeWorkflowRun, FinishWorkflowCancellation,
       DeferWorkflowReconciliation, Tokens, Checkpoints
  <2>7. ASSUME NEW r \in Runs, NEW h \in Holders, NEW t \in Tokens,
               NEW c \in Checkpoints, CheckpointWrite(r, h, t, c)
        PROVE  HistoryKept(q)
    BY SMTT(30), <2>7 DEF CheckpointWrite, BeginWorkflowAttempt, BeginWorkflowEffect,
       BeginAttempt, FailWorkflowRun, AskWorkflowQuestion, AnswerWorkflowQuestion,
       WithdrawWorkflowQuestion, NextSeq, IntentHasAttempt, Tokens, Checkpoints
  <2>8. ASSUME NEW r \in Runs, NEW h \in Holders, NEW t \in Tokens, NEW a \in Seqs,
               NEW e \in AttemptEnds, NEW d \in 1..MaxWait,
               FinishWorkflowAttempt(r, h, t, a, e, d)
        PROVE  HistoryKept(q)
    BY <2>8 DEF FinishWorkflowAttempt, FinishAttempt, MayEnd, StateAfter, Tokens,
       Checkpoints
  <2>9. ASSUME NEW r \in Runs, NEW h \in Holders, NEW t \in Tokens, NEW a \in Seqs,
               NEW e \in AttemptEnds, NEW d \in 1..MaxWait,
               FinishWorkflowEffect(r, h, t, a, e, d)
        PROVE  HistoryKept(q)
    BY <2>9 DEF FinishWorkflowEffect, FinishAttempt, InsertReceipt, MayEnd,
       StateAfter, Tokens, Checkpoints
  <2>10. ASSUME NEW r \in Runs, NEW h \in Holders, NEW t \in Tokens, NEW a \in Seqs,
               NEW d \in 0..MaxWait, MarkWorkflowEffectUnknown(r, h, t, a, d)
        PROVE  HistoryKept(q)
    BY <2>10 DEF MarkWorkflowEffectUnknown, MarkUnknown, MayEnd, Tokens, Checkpoints
  <2>11. ASSUME NEW r \in Runs, NEW h \in Holders, NEW t \in Tokens, NEW a \in Seqs,
               NEW outcome \in {"succeeded", "failed"},
               ResolveWorkflowEffect(r, h, t, a, outcome)
        PROVE  HistoryKept(q)
    BY <2>11 DEF ResolveWorkflowEffect, InsertReceipt, Tokens, Checkpoints
  <2>12. ASSUME NEW r \in Runs, NEW h \in Holders, NEW t \in Tokens, NEW a \in Seqs,
               InterruptWorkflowAttempt(r, h, t, a)
        PROVE  HistoryKept(q)
    BY <2>12 DEF InterruptWorkflowAttempt, Tokens, Checkpoints
  <2> HIDE DEF HistoryKept
  <2> QED
    BY <2>1, <2>2, <2>3, <2>4, <2>5, <2>6, <2>7, <2>8, <2>9, <2>10, <2>11, <2>12
       DEF Next, AttemptWrite
<1>2. IInv /\ [Next]_vars => \A r \in Runs : HistoryKept(r)
  BY <1>1
<1> QED
  BY <1>2, Invariance, PTL DEF Spec, HistoryIsImmutable

(* What a run has recorded no step of anyone rewrites.                     *)
THEOREM NothingIsEverRewritten == Spec => NothingIsRewritten
<1> QED
  BY FinishedRunsAreFinal, StaleHoldersWriteNothing, CancellationStartsNothing,
     HistoryNeverChanges DEF NothingIsRewritten

-----------------------------------------------------------------------------
(* The runtimes                                                            *)

(* From the intent to its recorded answer.                                 *)
Sending == {"check", "send", "call", "record"}

(* Places at which no request may be on its way.                           *)
Quiet == {"reconcile", "look", "resolve", "defer", "owner"}

(* What a pass p carries agrees with the rows and the provider, whether    *)
(* or not it still holds the lease.                                        *)
PassOK(p) ==
  /\ p.pc \in Sending \cup {"run", "look", "resolve"} => p.doing \in Seqs
  /\ p.pc \in Sending \cup {"look", "resolve"} => effect[Run][p.doing] # "none"
  /\ p.pc \in Sending \cup {"run"} => attState[Run][p.doing] # "none" /\ attCkpt[Run][p.doing] = p.at
  /\ p.pc \in {"check", "send"} => request[p.doing] = "unsent"
  /\ p.pc = "record" =>
       /\ p.answer \in {"happened", "refused", "unknown"}
       /\ p.answer = "happened" => request[p.doing] \in {"performed", "repeated"}
       /\ p.answer = "refused" => request[p.doing] = "refused"
  /\ p.pc \in {"resolve", "owner"} => p.answer \in {"succeeded", "failed"}
  /\ p.pc = "resolve" /\ p.answer = "succeeded" => Happened(attCkpt[Run][p.doing])
  /\ p.pc \in {"begin", "run"} => p.at \in DOMAIN StepKind /\ (StepKind[p.at] = "effect" => Happened(p.at))
  /\ p.pc \in Sending \cup {"effect"} => p.at \in DOMAIN StepKind /\ StepKind[p.at] = "effect"

(* What a pass decided still holds while it holds the lease.               *)
DecisionOK(p) ==
  /\ p.pc = "effect" => /\ \A b \in Intents(p.at) : effect[Run][b] = "failed"
                        /\ Cardinality(Intents(p.at)) < StepAttempts
  /\ p.pc = "begin" => /\ Cardinality(SafelyInterrupted(p.at)) < Interruptions
                       /\ StepKind[p.at] # "effect" => Cardinality(Attempts(p.at)) < StepAttempts
  /\ p.pc = "owner" /\ p.answer = "succeeded" =>
       \A b \in Seqs : effect[Run][b] = "unknown" => Happened(attCkpt[Run][b])

(* Two passes never are about to send the same request.                    *)
SendersDiffer ==
  \A g, h \in Holders :
    pass[g].pc \in {"check", "send"} /\ pass[h].pc \in {"check", "send"} /\ g # h =>
      pass[g].doing # pass[h].doing

(* Checkpoints name steps, until the run succeeded past the last one.      *)
StepsOK ==
  /\ ckpt[Run] \in DOMAIN StepKind \/ state[Run] = "succeeded"
  /\ state[Run] = "succeeded" => \A c \in DOMAIN StepKind : c < ckpt[Run]

(* Attempts are numbered in order, none from a checkpoint to come; an      *)
(* attempt that asked the owner ends with its step.                        *)
AttemptsOK ==
  /\ \A a \in Seqs : attState[Run][a] # "none" => attCkpt[Run][a] <= ckpt[Run]
  /\ \A a, b \in Seqs : a < b /\ attState[Run][b] # "none" => attState[Run][a] # "none"
  /\ \A a \in Seqs : /\ attState[Run][a] \in {"succeeded", "failed"}
                     /\ attCkpt[Run][a] \in DOMAIN StepKind
                     /\ StepKind[attCkpt[Run][a]] = "interrupt"
                     => attCkpt[Run][a] < ckpt[Run]
  /\ \A a \in Seqs : attState[Run][a] = "running" /\ effect[Run][a] = "none" =>
       Cardinality(SafelyInterrupted(attCkpt[Run][a])) < Interruptions

(* What was sent has its intent; what is said to have happened did; of the *)
(* intents of a step all but the latest failed.                            *)
EffectsOK ==
  /\ \A a \in Seqs : request[a] # "unsent" => effect[Run][a] # "none"
  /\ \A a \in Seqs : effect[Run][a] = "succeeded" \/ request[a] = "repeated" =>
       Happened(attCkpt[Run][a])
  /\ \A c \in EffectSteps : c < ckpt[Run] => Happened(c)
  /\ \A a, b \in Seqs : /\ effect[Run][a] # "none" /\ effect[Run][b] # "none"
                        /\ attCkpt[Run][a] = attCkpt[Run][b] /\ a < b
                        => effect[Run][a] = "failed"

(* An idempotent provider performs one request of a step.                  *)
IdempotentOK ==
  setting.idempotent =>
    \A a, b \in Seqs : /\ request[a] = "performed" /\ request[b] = "performed"
                       /\ attCkpt[Run][a] = attCkpt[Run][b]
                       => a = b

(* Undisturbed, whoever is in a pass holds the lease, with time left.      *)
LeaseKept == \A h \in Holders : pass[h].pc # "idle" => Holds(h) /\ left[Run] >= LeaseTicks - 1

(* The only pending effect is the one its pass is calling.                 *)
PendingIsSent(p) ==
  /\ p.pc \in Sending => effect[Run][p.doing] = "pending"
  /\ p.pc \notin Sending \cup {"idle"} => \A a \in Seqs : effect[Run][a] # "pending"

(* A request on its way arrives before anybody asks about it.              *)
JourneyOK ==
  \A a \in Seqs : request[a] = "sent" =>
    /\ Unresolved(Run, a)
    /\ effect[Run][a] = "pending" => deadline[a] < left[Run]
    /\ effect[Run][a] = "unknown" => notBefore[Run] = NoTime \/ deadline[a] < notBefore[Run]

(* Whoever asks, or tells, what happened does so when nothing is on its    *)
(* way, and gets the truth.                                                *)
QuietOK(p) ==
  /\ p.pc \in Quiet => \A a \in Seqs : request[a] # "sent"
  /\ p.pc = "resolve" /\ p.answer = "failed" => ~Happened(attCkpt[Run][p.doing])
  /\ p.pc = "owner" /\ p.answer = "failed" =>
       \A b \in Seqs : effect[Run][b] = "unknown" => ~Happened(attCkpt[Run][b])

FailedIsFailed == \A a \in Seqs : effect[Run][a] = "failed" => request[a] \notin {"sent", "performed"}

Calm ==
  Undisturbed =>
    /\ LeaseKept /\ JourneyOK /\ FailedIsFailed
    /\ \A h \in Holders : PendingIsSent(pass[h]) /\ QuietOK(pass[h])

(* What the store, the passes and the provider agree on.                   *)
Core ==
  /\ IInv /\ RuntimeTypeOK
  /\ \A h \in Holders : PassOK(pass[h]) /\ (Holds(h) => DecisionOK(pass[h]))
  /\ SendersDiffer /\ StepsOK /\ AttemptsOK /\ EffectsOK /\ IdempotentOK /\ RetriesAreBounded

(* The inductive invariant.                                                *)
RInv == Core /\ Calm

-----------------------------------------------------------------------------
(* The runtimes call the store as its specification allows.                *)

Passes ==
  [pc: Places, tok: Tokens, at: Checkpoints, doing: {0} \cup Seqs,
   answer: {"none", "happened", "refused", "unknown", "succeeded",
            "failed", "later", "owner"},
   settling: BOOLEAN, stopping: BOOLEAN]

LEMMA Bounds ==
  /\ Run \in Runs
  /\ {Backoff, Recheck, EffectTimeout} \subseteq 1..MaxWait
  /\ \A x \in Settings : x.reconciler \in Reconcilers
  /\ LeaseTicks \in Nat \ {0} /\ MaxWait \in Nat \ {0} /\ MaxToken \in Nat
  /\ MaxAttempts \in Nat /\ MaxCheckpoint \in Nat /\ MaxCalls \in Nat
  /\ StepAttempts \in Nat \ {0} /\ Interruptions \in Nat \ {0}
  /\ RunAttempts \in Nat /\ Latency \in Nat /\ MaxFaults \in Nat
  BY ConstantsAssumption, RuntimeAssumption

LEMMA PassTypes ==
  ASSUME RuntimeTypeOK, NEW h \in Holders
  PROVE  /\ pass[h] \in Passes
         /\ pass[h].tok \in Tokens /\ pass[h].at \in Checkpoints /\ pass[h].pc \in Places
  BY DEF RuntimeTypeOK, Passes

LEMMA AStoreWrite ==
  ASSUME NEW h \in Holders, NEW t \in Tokens,
         \/ LeaseWrite(Run, h, t)
         \/ \E c \in Checkpoints : CheckpointWrite(Run, h, t, c)
         \/ \E a \in Seqs : AttemptWrite(Run, h, t, a)
  PROVE  Next
  BY Bounds DEF Next

LEMMA ClaimIsNext ==
  ASSUME NEW h \in Holders, AcquireWorkflowRunLease(Run, h)
  PROVE  Next
  BY Bounds DEF Next

(* What a step of a pass does to the store is one of the store's steps, or *)
(* nothing.                                                                *)
LEMMA PassStepIsStoreStep ==
  ASSUME Core, NEW h \in Holders, PassStep(h)
  PROVE  [Next]_vars
<1>1. PICK t : t = pass[h].tok
  OBVIOUS
<1>2. t \in Tokens /\ pass[h].at \in Checkpoints /\ pass[h] \in Passes
  BY <1>1, PassTypes DEF Core
<1>3. PassOK(pass[h])
  BY DEF Core
<1>4. Recheck \in 1..MaxWait /\ Backoff \in 1..MaxWait /\ EffectTimeout \in 0..MaxWait
  BY Bounds
<1>5. CASE Continue(h) \/ Advance(h) \/ Settled(h) \/ NotAdmitted(h) \/ CheckLease(h) \/ Send(h)
           \/ Return(h) \/ Reconcile(h) \/ LookUp(h) \/ LeaseLost(h) \/ Cancelled(h)
  BY <1>5 DEF Continue, Advance, Settled, NotAdmitted, CheckLease, Send, Return, Reconcile,
     LookUp, LeaseLost, Cancelled
<1>6. CASE Pause(h)
  BY <1>1, <1>2, <1>4, <1>6, AStoreWrite DEF Pause, LeaseWrite
<1>7. CASE Resume(h)
  BY <1>1, <1>2, <1>7, AStoreWrite DEF Resume, LeaseWrite
<1>8. CASE Begin(h)
  BY <1>1, <1>2, <1>8, AStoreWrite DEF Begin, CheckpointWrite
<1>9. CASE RunNode(h)
  <2>1. PICK a : a = pass[h].doing
    OBVIOUS
  <2>2. a \in Seqs
    BY <1>3, <1>9, <2>1 DEF PassOK, RunNode, At
  <2>3. SuccessEnd(pass[h].at) \in AttemptEnds
        /\ FailureEnd(Cardinality(Attempts(pass[h].at))) \in AttemptEnds
    BY DEF SuccessEnd, FailureEnd, AttemptEnds
  <2>4. AttemptWrite(Run, h, t, a)
    BY <1>1, <1>4, <1>9, <2>1, <2>3 DEF RunNode, AttemptWrite
  <2> QED
    BY <1>2, <2>2, <2>4, AStoreWrite
<1>10. CASE Ask(h)
  BY <1>1, <1>2, <1>10, AStoreWrite DEF Ask, CheckpointWrite
<1>11. CASE Fail(h)
  BY <1>1, <1>2, <1>11, AStoreWrite DEF Fail, CheckpointWrite
<1>12. CASE Cancel(h)
  BY <1>1, <1>2, <1>12, AStoreWrite DEF Cancel, LeaseWrite
<1>13. CASE Effect(h)
  <2>1. setting.reconciler \in Reconcilers
    BY Bounds DEF Core, RuntimeTypeOK
  <2>2. CheckpointWrite(Run, h, t, pass[h].at) \/ UNCHANGED vars
    BY <1>1, <1>13, <2>1 DEF Effect, CheckpointWrite
  <2> QED
    BY <1>2, <2>2, AStoreWrite
<1>14. CASE Record(h)
  <2>1. PICK a : a = pass[h].doing
    OBVIOUS
  <2>2. a \in Seqs
    BY <1>3, <1>14, <2>1 DEF PassOK, Record, At, Sending
  <2>3. SuccessEnd(pass[h].at) \in AttemptEnds
        /\ FailureEnd(Cardinality(Intents(pass[h].at))) \in AttemptEnds
    BY DEF SuccessEnd, FailureEnd, AttemptEnds
  <2>4. AttemptWrite(Run, h, t, a)
    BY <1>1, <1>4, <1>14, <2>1, <2>3 DEF Record, AttemptWrite
  <2> QED
    BY <1>2, <2>2, <2>4, AStoreWrite
<1>15. CASE Resolve(h)
  <2>1. PICK a : a = pass[h].doing
    OBVIOUS
  <2>2. a \in Seqs /\ pass[h].answer \in {"succeeded", "failed"}
    BY <1>3, <1>15, <2>1 DEF PassOK, Resolve, At
  <2>3. AttemptWrite(Run, h, t, a)
    BY <1>1, <1>15, <2>1, <2>2 DEF Resolve, AttemptWrite
  <2> QED
    BY <1>2, <2>2, <2>3, AStoreWrite
<1>16. CASE Defer(h)
  <2>1. PICK d : d = IF pass[h].answer = "later" THEN Recheck ELSE 0
    OBVIOUS
  <2>2. d \in 0..MaxWait
    BY <1>4, <2>1, Bounds
  <2>3. LeaseWrite(Run, h, t)
    BY <1>1, <1>16, <2>1, <2>2 DEF Defer, LeaseWrite
  <2> QED
    BY <1>2, <2>3, AStoreWrite
<1>17. CASE Release(h)
  BY <1>1, <1>2, <1>17, AStoreWrite DEF Release, LeaseWrite
<1>18. CASE Answer(h)
  BY <1>1, <1>2, <1>18, AStoreWrite DEF Answer, CheckpointWrite
<1>19. CASE ReconcileClaimed(h)
  <2>1. pass[h].answer \in {"succeeded", "failed"}
    BY <1>3, <1>19 DEF PassOK, ReconcileClaimed, At
  <2>2. \E a \in Seqs : AttemptWrite(Run, h, t, a)
    BY <1>1, <1>19, <2>1 DEF ReconcileClaimed, AttemptWrite
  <2> QED
    BY <1>2, <2>2, AStoreWrite
<1> QED
  BY <1>5, <1>6, <1>7, <1>8, <1>9, <1>10, <1>11, <1>12, <1>13, <1>14, <1>15, <1>16, <1>17,
     <1>18, <1>19 DEF PassStep

LEMMA RuntimeStepIsStoreStep ==
  ASSUME Core, [RuntimeNext]_runtimeVars
  PROVE  [Next]_vars
<1>1. CASE UNCHANGED runtimeVars
  BY <1>1 DEF runtimeVars
<1>2. CASE StartRun \/ CancelRun
  BY <1>2, Bounds DEF StartRun, CancelRun, Next
<1>3. CASE Time
  BY <1>3 DEF Time, Next
<1>4. CASE \E a \in Seqs : Arrive(a)
  BY <1>4 DEF Arrive
<1>5. ASSUME NEW h \in Holders, Claim(h) \/ AnswerRun(h) \/ ReconcileRun(h)
      PROVE  Next
  BY <1>5, ClaimIsNext DEF Claim, AnswerRun, ReconcileRun, ClaimAs
<1>6. ASSUME NEW h \in Holders, Heartbeat(h)
      PROVE  Next
  <2>1. PICK t : t = pass[h].tok
    OBVIOUS
  <2>2. t \in Tokens
    BY <2>1, PassTypes DEF Core
  <2> QED
    BY <1>6, <2>1, <2>2, AStoreWrite DEF Heartbeat, LeaseWrite
<1>7. ASSUME NEW h \in Holders, StoreFails(h) \/ Stop(h) \/ Crash(h)
      PROVE  UNCHANGED vars
  BY <1>7 DEF StoreFails, Stop, Crash
<1> QED
  BY <1>1, <1>2, <1>3, <1>4, <1>5, <1>6, <1>7, PassStepIsStoreStep DEF RuntimeNext

-----------------------------------------------------------------------------
(* What the runtimes and the provider keep is well formed.                 *)

LEMMA IdleTypes ==
  /\ Idle \in Passes
  /\ Idle.pc = "idle" /\ Idle.tok = 0 /\ Idle.at = 0 /\ Idle.doing = 0
  /\ Idle.answer = "none" /\ Idle.settling = FALSE /\ Idle.stopping = FALSE
  BY Bounds DEF Idle, Passes, Places, Tokens, Checkpoints

LEMMA SetPc ==
  ASSUME NEW p \in Passes, NEW place \in Places
  PROVE  [p EXCEPT !.pc = place] \in Passes
  BY DEF Passes

LEMMA PassChanges ==
  ASSUME RuntimeTypeOK, NEW h \in Holders, NEW q \in Passes, pass' = [pass EXCEPT ![h] = q]
  PROVE  /\ pass' \in [Holders -> Passes]
         /\ pass'[h] = q
         /\ \A g \in Holders \ {h} : pass'[g] = pass[g]
  BY DEF RuntimeTypeOK, Passes

(* How a pass ends, moves on, or starts over.                              *)
LEMMA GotoFacts ==
  ASSUME RuntimeTypeOK, NEW h \in Holders, NEW place \in Places, Goto(h, place)
  PROVE  /\ pass' \in [Holders -> Passes]
         /\ pass'[h].pc = place /\ pass'[h].tok = pass[h].tok /\ pass'[h].at = pass[h].at
         /\ pass'[h].doing = pass[h].doing /\ pass'[h].answer = pass[h].answer
         /\ \A g \in Holders \ {h} : pass'[g] = pass[g]
  BY DEF RuntimeTypeOK, Passes, Goto

LEMMA EndFacts ==
  ASSUME RuntimeTypeOK, NEW h \in Holders, End(h)
  PROVE  /\ pass' \in [Holders -> Passes]
         /\ pass'[h].pc = "idle" /\ pass'[h].tok = 0
         /\ \A g \in Holders \ {h} : pass'[g] = pass[g]
  BY IdleTypes, PassChanges DEF End

LEMMA LoopFacts ==
  ASSUME RuntimeTypeOK, NEW h \in Holders, NEW s \in BOOLEAN, Loop(h, s)
  PROVE  /\ pass' \in [Holders -> Passes]
         /\ pass'[h].pc = "advance" /\ pass'[h].tok = pass[h].tok
         /\ \A g \in Holders \ {h} : pass'[g] = pass[g]
<1>1. PICK q : q = [Idle EXCEPT !.pc = "advance", !.tok = pass[h].tok,
                      !.settling = s, !.stopping = pass[h].stopping]
  OBVIOUS
<1>2. pass[h] \in Passes
  BY PassTypes
<1>3. q \in Passes /\ q.pc = "advance" /\ q.tok = pass[h].tok
  <2>1. PICK u \in BOOLEAN : u = pass[h].stopping
    BY <1>2 DEF Passes
  <2>2. q = [pc |-> "advance", tok |-> pass[h].tok, at |-> 0, doing |-> 0, answer |-> "none",
             settling |-> s, stopping |-> u]
    BY <1>1, <2>1 DEF Idle
  <2>3. pass[h].tok \in Tokens /\ 0 \in Checkpoints /\ "advance" \in Places
    BY <1>2, Bounds DEF Passes, Checkpoints, Places
  <2> QED
    BY <2>2, <2>3 DEF Passes
<1>4. pass' = [pass EXCEPT ![h] = q]
  BY <1>1 DEF Loop
<1> QED
  BY <1>3, <1>4, PassChanges

LEMMA PlanFacts ==
  ASSUME TypeOK, RuntimeTypeOK, NEW h \in Holders, NEW place \in Places, Plan(h, place)
  PROVE  /\ pass' \in [Holders -> Passes]
         /\ pass'[h].pc = place /\ pass'[h].tok = pass[h].tok /\ pass'[h].at = ckpt[Run]
         /\ \A g \in Holders \ {h} : pass'[g] = pass[g]
<1>1. ckpt[Run] \in Checkpoints
  BY Bounds DEF TypeOK
<1> QED
  BY ZenonT(30), <1>1 DEF RuntimeTypeOK, Passes, Plan

LEMMA DoingFacts ==
  ASSUME RuntimeTypeOK, NEW h \in Holders, NEW place \in Places, NEW a \in Seqs,
         pass' = [pass EXCEPT ![h].pc = place, ![h].doing = a]
  PROVE  /\ pass' \in [Holders -> Passes]
         /\ pass'[h].pc = place /\ pass'[h].tok = pass[h].tok /\ pass'[h].at = pass[h].at
         /\ pass'[h].doing = a
         /\ \A g \in Holders \ {h} : pass'[g] = pass[g]
  BY DEF RuntimeTypeOK, Passes

LEMMA AnswerFacts ==
  ASSUME RuntimeTypeOK, NEW h \in Holders, NEW place \in Places,
         NEW answer \in {"happened", "refused", "unknown", "succeeded", "failed", "later", "owner"},
         pass' = [pass EXCEPT ![h].pc = place, ![h].answer = answer]
  PROVE  /\ pass' \in [Holders -> Passes]
         /\ pass'[h].pc = place /\ pass'[h].tok = pass[h].tok /\ pass'[h].at = pass[h].at
         /\ pass'[h].doing = pass[h].doing /\ pass'[h].answer = answer
         /\ \A g \in Holders \ {h} : pass'[g] = pass[g]
  BY DEF RuntimeTypeOK, Passes

LEMMA AwaitFacts ==
  ASSUME RuntimeTypeOK, NEW h \in Holders, AwaitReconciliation(h)
  PROVE  /\ pass' \in [Holders -> Passes]
         /\ pass'[h].pc \in {"settling", "reconcile", "release"}
         /\ pass'[h].pc = "reconcile" => notBefore[Run] = 0
         /\ pass'[h].tok = pass[h].tok
         /\ \A g \in Holders \ {h} : pass'[g] = pass[g]
<1>1. PICK place \in {"settling", "reconcile", "release"} :
        /\ place = "reconcile" => notBefore[Run] = 0
        /\ pass' = [pass EXCEPT ![h].settling = FALSE, ![h].pc = place]
  BY DEF AwaitReconciliation
<1>2. place \in Places
  BY DEF Places
<1> QED
  BY ZenonT(30), <1>1, <1>2 DEF RuntimeTypeOK, Passes

LEMMA StopFacts ==
  ASSUME RuntimeTypeOK, NEW h \in Holders, pass' = [pass EXCEPT ![h].stopping = TRUE]
  PROVE  /\ pass' \in [Holders -> Passes]
         /\ pass'[h].pc = pass[h].pc /\ pass'[h].tok = pass[h].tok /\ pass'[h].at = pass[h].at
         /\ pass'[h].doing = pass[h].doing /\ pass'[h].answer = pass[h].answer
         /\ \A g \in Holders \ {h} : pass'[g] = pass[g]
  BY DEF RuntimeTypeOK, Passes

-----------------------------------------------------------------------------
(* Steps that leave the run's attempts, effects and checkpoint alone.      *)

(* Places at which a pass carries nothing that must agree with the rows.   *)
Plain == Places \ {"begin", "run", "effect", "check", "send", "call", "record",
                   "look", "resolve", "owner"}

Kept == setting' = setting /\ request' = request /\ faults' \in 0..MaxFaults

Moves(h) ==
  /\ pass' \in [Holders -> Passes]
  /\ \A g \in Holders \ {h} : pass'[g] = pass[g]

RowsKept ==
  /\ attState'[Run] = attState[Run]
  /\ attCkpt'[Run] = attCkpt[Run]
  /\ effect'[Run] = effect[Run]
  /\ ckpt'[Run] = ckpt[Run]
  /\ (state'[Run] = "succeeded") <=> (state[Run] = "succeeded")

LeaseSame == holder'[Run] = holder[Run] /\ token'[Run] = token[Run] /\ left'[Run] = left[Run]

(* Nobody but h gets the lease.                                            *)
OnlyMayGain(h) == \A g \in Holders \ {h} : Holds(g)' => Holds(g)

LEMMA SetsKept ==
  ASSUME RowsKept
  PROVE  \A c : /\ Made(c)' = Made(c) /\ Attempts(c)' = Attempts(c) /\ Intents(c)' = Intents(c)
                /\ SafelyInterrupted(c)' = SafelyInterrupted(c)
<1>1. \A c : Made(c)' = Made(c)
  BY DEF RowsKept, Made
<1>2. \A c : Attempts(c)' = Attempts(c)
  BY <1>1 DEF RowsKept, Attempts
<1>3. \A c : Intents(c)' = Intents(c)
  BY <1>1 DEF RowsKept, Intents
<1>4. \A c : SafelyInterrupted(c)' = SafelyInterrupted(c)
  BY <1>1 DEF RowsKept, SafelyInterrupted
<1> QED
  BY <1>1, <1>2, <1>3, <1>4

LEMMA HappenedKept ==
  ASSUME RowsKept, request' = request
  PROVE  \A c : Happened(c)' <=> Happened(c)
  BY SetsKept DEF Happened

LEMMA RowFrame ==
  ASSUME Core, Kept, RowsKept
  PROVE  StepsOK' /\ AttemptsOK' /\ EffectsOK' /\ IdempotentOK' /\ RetriesAreBounded'
<1>1. StepKind' = StepKind /\ EffectSteps' = EffectSteps /\ request' = request
  BY DEF Kept, StepKind, EffectSteps
<1>2. StepsOK'
  BY <1>1 DEF Core, StepsOK, RowsKept
<1>3. AttemptsOK'
  BY <1>1, SetsKept DEF Core, AttemptsOK, RowsKept
<1>4. EffectsOK'
  BY <1>1, HappenedKept DEF Core, EffectsOK, RowsKept
<1>5. IdempotentOK'
  BY <1>1 DEF Core, IdempotentOK, RowsKept, Kept
<1>6. RetriesAreBounded'
  BY <1>1, SetsKept DEF Core, RetriesAreBounded
<1> QED
  BY <1>2, <1>3, <1>4, <1>5, <1>6

LEMMA PassFrame ==
  ASSUME Kept, RowsKept, NEW p
  PROVE  /\ PassOK(p) => PassOK(p)'
         /\ DecisionOK(p) => DecisionOK(p)'
<1>1. StepKind' = StepKind /\ request' = request
  BY DEF Kept, StepKind
<1>2. PassOK(p) => PassOK(p)'
  BY <1>1, HappenedKept DEF PassOK, RowsKept
<1>3. DecisionOK(p) => DecisionOK(p)'
  BY <1>1, SetsKept, HappenedKept DEF DecisionOK, RowsKept
<1> QED
  BY <1>2, <1>3

(* A pass at a plain place has nothing to agree on.                        *)
LEMMA PlainIsOK ==
  ASSUME NEW p, p.pc \in Plain
  PROVE  PassOK(p)' /\ DecisionOK(p)'
<1>1. /\ p.pc \notin {"begin", "run", "effect", "owner", "resolve", "look"}
      /\ p.pc \notin {"check", "send", "call", "record"}
  BY DEF Plain
<1>2. PassOK(p)'
  BY <1>1 DEF PassOK, Sending
<1>3. DecisionOK(p)'
  BY <1>1 DEF DecisionOK
<1> QED
  BY <1>2, <1>3

LEMMA HoldsSame ==
  ASSUME LeaseSame, NEW h \in Holders, Moves(h)
  PROVE  /\ OnlyMayGain(h)
         /\ pass'[h].tok = pass[h].tok => (Holds(h)' <=> Holds(h))
  BY DEF LeaseSame, Moves, OnlyMayGain, Holds, Fenced

(* The step of a pass h that leaves the rows alone keeps Core, if what h   *)
(* carries from then on agrees with them.                                  *)
LEMMA MoveKeepsCore ==
  ASSUME Core, IInv', Kept, RowsKept, NEW h \in Holders, Moves(h), OnlyMayGain(h),
         deadline' \in [Seqs -> 0..Latency],
         PassOK(pass[h])', Holds(h)' => DecisionOK(pass[h])',
         pass'[h].pc \in {"check", "send"} => /\ pass[h].pc \in {"check", "send"}
                                              /\ pass'[h].doing = pass[h].doing
  PROVE  Core'
<1>1. RuntimeTypeOK'
  BY DEF Core, RuntimeTypeOK, Kept, Moves, Passes
<1>2. ASSUME NEW g \in Holders PROVE PassOK(pass[g])' /\ (Holds(g)' => DecisionOK(pass[g])')
  <2>1. CASE g = h
    BY <2>1
  <2>2. CASE g # h
    <3>1. PICK p : p = pass[g]
      OBVIOUS
    <3>2. pass'[g] = p /\ PassOK(p) /\ (Holds(g)' => DecisionOK(p))
      BY <2>2, <3>1 DEF Moves, Core, OnlyMayGain
    <3>3. PassOK(p)' /\ (Holds(g)' => DecisionOK(p)')
      BY <3>2, PassFrame
    <3> QED
      BY <3>2, <3>3
  <2> QED
    BY <2>1, <2>2
<1>3. SendersDiffer'
  <2>1. \A g \in Holders : pass'[g].pc \in {"check", "send"} =>
          pass[g].pc \in {"check", "send"} /\ pass'[g].doing = pass[g].doing
    BY DEF Moves
  <2> QED
    BY <2>1 DEF Core, SendersDiffer
<1> QED
  BY <1>1, <1>2, <1>3, RowFrame DEF Core

LEMMA PlainMoveKeepsCore ==
  ASSUME Core, IInv', Kept, RowsKept, NEW h \in Holders, Moves(h), OnlyMayGain(h),
         deadline' \in [Seqs -> 0..Latency], pass'[h].pc \in Plain
  PROVE  Core'
<1>1. PICK q : q = pass'[h]
  OBVIOUS
<1>2. q.pc \in Plain /\ q.pc \notin {"check", "send"}
  BY <1>1 DEF Plain
<1>3. PassOK(q)' /\ DecisionOK(q)'
  BY <1>2, PlainIsOK
<1> QED
  BY <1>1, <1>2, <1>3, MoveKeepsCore

(* The same when no pass moves.                                            *)
LEMMA StillKeepsCore ==
  ASSUME Core, IInv', Kept, RowsKept, pass' = pass, \A g \in Holders : Holds(g)' => Holds(g),
         deadline' \in [Seqs -> 0..Latency]
  PROVE  Core'
<1>1. RuntimeTypeOK'
  BY DEF Core, RuntimeTypeOK, Kept
<1>2. ASSUME NEW g \in Holders PROVE PassOK(pass[g])' /\ (Holds(g)' => DecisionOK(pass[g])')
  <2>1. PICK p : p = pass[g]
    OBVIOUS
  <2>2. pass'[g] = p /\ PassOK(p) /\ (Holds(g)' => DecisionOK(p))
    BY <2>1 DEF Core
  <2>3. PassOK(p)' /\ (Holds(g)' => DecisionOK(p)')
    BY <2>2, PassFrame
  <2> QED
    BY <2>2, <2>3
<1>3. SendersDiffer'
  BY DEF Core, SendersDiffer
<1> QED
  BY <1>1, <1>2, <1>3, RowFrame DEF Core

-----------------------------------------------------------------------------
(* Undisturbed, one pass at a time.                                        *)

LEMMA Rows ==
  ASSUME TypeOK
  PROVE  /\ state[Run] \in RunStates /\ notBefore[Run] \in {NoTime} \cup 0..MaxWait
         /\ left[Run] \in 0..LeaseTicks /\ ckpt[Run] \in Checkpoints /\ token[Run] \in Tokens
         /\ \A a \in Seqs : /\ attState[Run][a] \in AttemptStates
                            /\ attCkpt[Run][a] \in Checkpoints
                            /\ effect[Run][a] \in EffectStates
  BY Bounds DEF TypeOK

LEMMA OthersIdle ==
  ASSUME LeaseKept, NEW h \in Holders, pass[h].pc # "idle"
  PROVE  \A g \in Holders \ {h} : pass[g].pc = "idle"
  BY DEF LeaseKept, Holds, Fenced

LEMMA IdleIsCalm ==
  ASSUME NEW p, p.pc = "idle"
  PROVE  PendingIsSent(p)' /\ QuietOK(p)'
  BY DEF PendingIsSent, QuietOK, Sending, Quiet

(* What is left to show of a step of the only pass.                        *)
LEMMA CalmParts ==
  ASSUME setting' = setting, NEW h \in Holders, Moves(h),
         Undisturbed => /\ \A g \in Holders \ {h} : pass[g].pc = "idle"
                        /\ (pass'[h].pc # "idle" => Holds(h)' /\ left'[Run] >= LeaseTicks - 1)
                        /\ JourneyOK' /\ FailedIsFailed'
                        /\ PendingIsSent(pass[h])' /\ QuietOK(pass[h])'
  PROVE  Calm'
<1>1. Undisturbed' <=> Undisturbed
  BY DEF Undisturbed, Prompt
<1>2. SUFFICES ASSUME Undisturbed
               PROVE  /\ LeaseKept' /\ JourneyOK' /\ FailedIsFailed'
                      /\ \A g \in Holders : PendingIsSent(pass[g])' /\ QuietOK(pass[g])'
  BY <1>1 DEF Calm
<1>3. \A g \in Holders \ {h} : pass'[g].pc = "idle"
  BY <1>2 DEF Moves
<1>4. LeaseKept'
  BY <1>2, <1>3 DEF LeaseKept
<1>5. ASSUME NEW g \in Holders PROVE PendingIsSent(pass[g])' /\ QuietOK(pass[g])'
  <2>1. CASE g = h
    BY <1>2, <2>1
  <2>2. CASE g # h
    <3>1. PICK p : p = pass'[g]
      OBVIOUS
    <3>2. PendingIsSent(p)' /\ QuietOK(p)'
      BY <1>3, <2>2, <3>1, IdleIsCalm
    <3> QED
      BY <3>1, <3>2
  <2> QED
    BY <2>1, <2>2
<1> QED
  BY <1>2, <1>4, <1>5

(* A request on its way, or nothing to wait for.                           *)
NoneSent == \A a \in Seqs : request[a] # "sent"

LEMMA JourneyFrame ==
  ASSUME Core, JourneyOK, FailedIsFailed, Kept, RowsKept, deadline' = deadline,
         left'[Run] = left[Run],
         \/ notBefore'[Run] = notBefore[Run] \/ notBefore'[Run] = NoTime
         \/ EffectsResolved(Run) \/ NoneSent
  PROVE  JourneyOK' /\ FailedIsFailed'
<1>1. JourneyOK'
  BY DEF JourneyOK, Kept, RowsKept, Unresolved, EffectsResolved, NoneSent
<1>2. FailedIsFailed'
  BY DEF FailedIsFailed, Kept, RowsKept
<1> QED
  BY <1>1, <1>2

(* A pass moves between two places at neither of which it sends.           *)
LEMMA MoveKeepsCalm ==
  ASSUME RInv, Kept, RowsKept, LeaseSame, deadline' = deadline, NEW h \in Holders, Moves(h),
         pass[h].pc \notin Sending \cup {"idle"}, pass'[h].pc \notin Sending,
         pass'[h].pc # "idle" => pass'[h].tok = pass[h].tok,
         \/ notBefore'[Run] = notBefore[Run] \/ notBefore'[Run] = NoTime
         \/ EffectsResolved(Run) \/ (Undisturbed => NoneSent),
         Undisturbed => QuietOK(pass[h])'
  PROVE  Calm'
<1>1. SUFFICES ASSUME Undisturbed
               PROVE  /\ \A g \in Holders \ {h} : pass[g].pc = "idle"
                      /\ (pass'[h].pc # "idle" => Holds(h)' /\ left'[Run] >= LeaseTicks - 1)
                      /\ JourneyOK' /\ FailedIsFailed'
                      /\ PendingIsSent(pass[h])' /\ QuietOK(pass[h])'
  BY CalmParts DEF Kept
<1>2. LeaseKept /\ JourneyOK /\ FailedIsFailed /\ PendingIsSent(pass[h])
  BY <1>1 DEF RInv, Calm
<1>3. \A g \in Holders \ {h} : pass[g].pc = "idle"
  BY <1>2, OthersIdle
<1>4. Holds(h) /\ left[Run] >= LeaseTicks - 1
  BY <1>2 DEF LeaseKept
<1>5. pass'[h].pc # "idle" => Holds(h)' /\ left'[Run] >= LeaseTicks - 1
  BY <1>4, HoldsSame DEF LeaseSame
<1>6. JourneyOK' /\ FailedIsFailed'
  BY <1>1, <1>2, JourneyFrame DEF RInv, LeaseSame
<1>7. PendingIsSent(pass[h])'
  BY <1>2 DEF PendingIsSent, RowsKept
<1> QED
  BY <1>1, <1>3, <1>5, <1>6, <1>7

(* Whoever finds an outcome unknown and its time come finds every request  *)
(* arrived.                                                                *)
LEMMA DueMeansArrived ==
  ASSUME RInv, Undisturbed, NEW h \in Holders, pass[h].pc \notin Sending \cup {"idle"},
         Reconciling, notBefore[Run] = 0
  PROVE  NoneSent
<1>1. JourneyOK /\ PendingIsSent(pass[h])
  BY DEF RInv, Calm
<1>2. \A a \in Seqs : effect[Run][a] # "pending"
  BY <1>1 DEF PendingIsSent
<1>3. ASSUME NEW a \in Seqs, request[a] = "sent" PROVE FALSE
  <2>1. effect[Run][a] = "unknown" /\ deadline[a] < 0
    BY <1>1, <1>2, <1>3 DEF JourneyOK, Unresolved, NoTime
  <2>2. deadline[a] \in 0..Latency
    BY DEF RInv, Core, RuntimeTypeOK
  <2> QED
    BY <2>1, <2>2, Bounds
<1> QED
  BY <1>3 DEF NoneSent

(* At a place that is not quiet there is nothing to show of quiet.         *)
LEMMA NotQuiet ==
  ASSUME NEW p, p.pc \notin Quiet
  PROVE  QuietOK(p)'
  BY DEF QuietOK, Quiet

(* Nor where the answer is not at hand, while no request is on its way.    *)
LEMMA JustQuiet ==
  ASSUME NEW p, p.pc \notin {"resolve", "owner"}, NoneSent, request' = request
  PROVE  QuietOK(p)'
  BY DEF QuietOK, Quiet, NoneSent

-----------------------------------------------------------------------------
(* Steps of a pass that write nothing, or nothing but the run's state.     *)

LEMMA VarsKept ==
  ASSUME UNCHANGED vars
  PROVE  /\ RowsKept /\ LeaseSame /\ notBefore'[Run] = notBefore[Run] /\ state'[Run] = state[Run]
  BY DEF vars, leaseVars, attemptVars, effectVars, RowsKept, LeaseSame

LEMMA ProviderKept ==
  ASSUME RuntimeTypeOK, UNCHANGED provider, \/ UNCHANGED faults
                                            \/ \E kind \in FaultKinds : Fault(kind)
  PROVE  Kept /\ deadline' = deadline /\ deadline' \in [Seqs -> 0..Latency]
<1>1. faults' \in 0..MaxFaults
  BY Bounds DEF RuntimeTypeOK, Fault
<1> QED
  BY <1>1 DEF RuntimeTypeOK, provider, Kept

LEMMA PlainStep ==
  ASSUME RInv, IInv', NEW h \in Holders, Moves(h), RowsKept, LeaseSame,
         UNCHANGED provider, UNCHANGED faults \/ \E kind \in FaultKinds : Fault(kind),
         pass[h].pc \notin Sending \cup {"idle"}, pass'[h].pc \in Plain,
         pass'[h].tok = pass[h].tok,
         \/ notBefore'[Run] = notBefore[Run] \/ notBefore'[Run] = NoTime
         \/ EffectsResolved(Run) \/ (Undisturbed => NoneSent),
         pass'[h].pc \in {"reconcile", "defer"} => (Undisturbed => NoneSent)
  PROVE  RInv'
<1>1. Kept /\ deadline' = deadline /\ deadline' \in [Seqs -> 0..Latency]
  BY ProviderKept DEF RInv, Core
<1>2. Core'
  BY <1>1, HoldsSame, PlainMoveKeepsCore DEF RInv
<1>3. PICK q : q = pass'[h]
  OBVIOUS
<1>4. q.pc \notin {"resolve", "owner", "look"} /\ q.pc \notin Sending
  BY <1>3 DEF Plain, Sending
<1>5. Undisturbed => QuietOK(q)'
  <2>1. CASE q.pc \in {"reconcile", "defer"}
    BY <1>1, <1>3, <1>4, <2>1, JustQuiet DEF Kept
  <2>2. CASE q.pc \notin {"reconcile", "defer"}
    <3>1. q.pc \notin Quiet
      BY <1>4, <2>2 DEF Quiet
    <3> QED
      BY <3>1, NotQuiet
  <2> QED
    BY <2>1, <2>2
<1>6. Undisturbed => QuietOK(pass[h])'
  BY <1>3, <1>5
<1>7. Calm'
  BY <1>1, <1>3, <1>4, <1>6, MoveKeepsCalm
<1> QED
  BY <1>2, <1>7 DEF RInv

LEMMA ContinueStep ==
  ASSUME RInv, IInv', NEW h \in Holders, Continue(h)
  PROVE  RInv'
<1>1. /\ UNCHANGED vars /\ UNCHANGED provider /\ pass[h].pc = "continue"
      /\ RuntimeTypeOK
  BY DEF Continue, At, RInv, Core
<1>2. pass[h].pc \notin Sending \cup {"idle"}
  BY <1>1 DEF Sending
<1>3. \/ \E place \in {"release", "advance", "cancel", "resume"} : Goto(h, place) /\ UNCHANGED faults
      \/ Goto(h, "pause") /\ Fault("refuse")
      \/ /\ Reconciling /\ notBefore[Run] = 0
         /\ pass' = [pass EXCEPT ![h].pc = "defer", ![h].answer = "later"]
         /\ Fault("refuse")
  BY DEF Continue
<1>4. CASE \E place \in {"release", "advance", "cancel", "resume"} : Goto(h, place) /\ UNCHANGED faults
  <2>1. PICK place \in {"release", "advance", "cancel", "resume"} : Goto(h, place)
    BY <1>4
  <2>2. place \in Places /\ place \in Plain /\ place \notin {"reconcile", "defer"}
    BY DEF Places, Plain
  <2>3. Moves(h) /\ pass'[h].pc = place /\ pass'[h].tok = pass[h].tok
    BY <1>1, <2>1, <2>2, GotoFacts DEF Moves
  <2> QED
    BY <1>1, <1>2, <1>4, <2>2, <2>3, VarsKept, PlainStep
<1>5. CASE Goto(h, "pause") /\ Fault("refuse")
  <2>1. PICK place : place = "pause"
    OBVIOUS
  <2>2. place \in Places /\ place \in Plain /\ place \notin {"reconcile", "defer"}
        /\ "refuse" \in FaultKinds
    BY <2>1 DEF Places, Plain, FaultKinds
  <2>3. Moves(h) /\ pass'[h].pc = place /\ pass'[h].tok = pass[h].tok
    BY <1>1, <1>5, <2>1, <2>2, GotoFacts DEF Moves
  <2> QED
    BY <1>1, <1>2, <1>5, <2>2, <2>3, VarsKept, PlainStep
<1>6. CASE /\ Reconciling /\ notBefore[Run] = 0
           /\ pass' = [pass EXCEPT ![h].pc = "defer", ![h].answer = "later"]
           /\ Fault("refuse")
  <2>1. PICK place, answer : place = "defer" /\ answer = "later"
    OBVIOUS
  <2>2. /\ place \in Places /\ place \in Plain /\ "refuse" \in FaultKinds
        /\ answer \in {"happened", "refused", "unknown", "succeeded", "failed", "later", "owner"}
    BY <2>1 DEF Places, Plain, FaultKinds
  <2>3. pass' = [pass EXCEPT ![h].pc = place, ![h].answer = answer]
    BY <1>6, <2>1
  <2>4. Moves(h) /\ pass'[h].pc = place /\ pass'[h].tok = pass[h].tok
    BY <1>1, <2>2, <2>3, AnswerFacts DEF Moves
  <2>5. Undisturbed => NoneSent
    BY <1>2, <1>6, DueMeansArrived
  <2> QED
    BY <1>1, <1>2, <1>6, <2>2, <2>4, <2>5, VarsKept, PlainStep
<1> QED
  BY <1>3, <1>4, <1>5, <1>6

LEMMA SettledStep ==
  ASSUME RInv, IInv', NEW h \in Holders, Settled(h)
  PROVE  RInv'
<1>1. /\ UNCHANGED vars /\ UNCHANGED provider /\ UNCHANGED faults /\ pass[h].pc = "settling"
      /\ RuntimeTypeOK
  BY DEF Settled, At, RInv, Core
<1>2. pass[h].pc \notin Sending \cup {"idle"}
  BY <1>1 DEF Sending
<1>3. PICK place \in {"release", "advance"} : Goto(h, place)
  BY DEF Settled
<1>4. place \in Places /\ place \in Plain /\ place \notin {"reconcile", "defer"}
  BY DEF Places, Plain
<1>5. Moves(h) /\ pass'[h].pc = place /\ pass'[h].tok = pass[h].tok
  BY <1>1, <1>3, <1>4, GotoFacts DEF Moves
<1> QED
  BY <1>1, <1>2, <1>4, <1>5, VarsKept, PlainStep

(* Run admission, and a database that fails, send the pass elsewhere.      *)
LEMMA NotAdmittedStep ==
  ASSUME RInv, IInv', NEW h \in Holders, NotAdmitted(h)
  PROVE  RInv'
<1>1. /\ UNCHANGED vars /\ UNCHANGED provider /\ Fault("refuse") /\ Goto(h, "pause")
      /\ RuntimeTypeOK /\ pass[h].pc \in {"begin", "effect", "ask"}
  BY DEF NotAdmitted, RInv, Core
<1>2. pass[h].pc \notin Sending \cup {"idle"}
  BY <1>1 DEF Sending
<1>3. PICK place : place = "pause"
  OBVIOUS
<1>4. place \in Places /\ place \in Plain /\ place \notin {"reconcile", "defer"}
      /\ "refuse" \in FaultKinds
  BY <1>3 DEF Places, Plain, FaultKinds
<1>5. Moves(h) /\ pass'[h].pc = place /\ pass'[h].tok = pass[h].tok
  BY <1>1, <1>3, <1>4, GotoFacts DEF Moves
<1> QED
  BY <1>1, <1>2, <1>4, <1>5, VarsKept, PlainStep

LEMMA CancelledStep ==
  ASSUME RInv, IInv', NEW h \in Holders, Cancelled(h)
  PROVE  RInv'
<1>1. /\ UNCHANGED vars /\ UNCHANGED provider /\ UNCHANGED faults
      /\ RuntimeTypeOK /\ pass[h].pc \in {"pause", "begin", "effect", "ask", "fail"}
  BY DEF Cancelled, RInv, Core
<1>2. pass[h].pc \notin Sending \cup {"idle"}
  BY <1>1 DEF Sending
<1>3. PICK place \in {"continue", "advance"} : Goto(h, place)
  BY DEF Cancelled
<1>4. place \in Places /\ place \in Plain /\ place \notin {"reconcile", "defer"}
  BY DEF Places, Plain
<1>5. Moves(h) /\ pass'[h].pc = place /\ pass'[h].tok = pass[h].tok
  BY <1>1, <1>3, <1>4, GotoFacts DEF Moves
<1> QED
  BY <1>1, <1>2, <1>4, <1>5, VarsKept, PlainStep

LEMMA StoreFailsStep ==
  ASSUME RInv, IInv', NEW h \in Holders, StoreFails(h)
  PROVE  RInv'
<1>1. /\ UNCHANGED vars /\ UNCHANGED provider /\ Fault("write") /\ Goto(h, "release")
      /\ RuntimeTypeOK /\ Core
  BY DEF StoreFails, RInv, Core
<1>2. PICK place : place = "release"
  OBVIOUS
<1>3. place \in Places /\ place \in Plain /\ "write" \in FaultKinds
  BY <1>2 DEF Places, Plain, FaultKinds
<1>4. Moves(h) /\ pass'[h].pc = place /\ pass'[h].tok = pass[h].tok
  BY <1>1, <1>2, <1>3, GotoFacts DEF Moves
<1>5. Kept /\ deadline' \in [Seqs -> 0..Latency]
  BY <1>1, <1>3, ProviderKept
<1>6. Core'
  BY <1>1, <1>3, <1>4, <1>5, VarsKept, HoldsSame, PlainMoveKeepsCore
<1>7. ~Undisturbed'
  BY <1>1, <1>5 DEF Fault, Undisturbed, Kept
<1> QED
  BY <1>6, <1>7 DEF RInv, Calm

-----------------------------------------------------------------------------
(* How a pass ends, and the lease.                                         *)

LEMMA IdleIsPlain == "idle" \in Plain
  BY DEF Plain, Places

LEMMA EndKeeps ==
  ASSUME RInv, IInv', NEW h \in Holders, End(h), UNCHANGED vars, UNCHANGED provider,
         UNCHANGED faults \/ \E kind \in FaultKinds : Fault(kind), pass[h].pc # "idle"
  PROVE  RInv'
<1>1. Kept /\ deadline' = deadline /\ deadline' \in [Seqs -> 0..Latency]
  BY ProviderKept DEF RInv, Core
<1>2. Moves(h) /\ pass'[h].pc = "idle"
  BY EndFacts DEF Moves, RInv, Core
<1>3. Core'
  BY <1>1, <1>2, VarsKept, HoldsSame, IdleIsPlain, PlainMoveKeepsCore DEF RInv
<1>4. PICK q : q = pass'[h]
  OBVIOUS
<1>5. PendingIsSent(q)' /\ QuietOK(q)'
  BY <1>2, <1>4, IdleIsCalm
<1>6. PendingIsSent(pass[h])' /\ QuietOK(pass[h])'
  BY <1>4, <1>5
<1>7. ASSUME Undisturbed
      PROVE  /\ \A g \in Holders \ {h} : pass[g].pc = "idle"
             /\ JourneyOK' /\ FailedIsFailed'
  <2>1. LeaseKept /\ JourneyOK /\ FailedIsFailed
    BY <1>7 DEF RInv, Calm
  <2>2. JourneyOK' /\ FailedIsFailed'
    BY <1>1, <2>1, VarsKept, JourneyFrame DEF RInv, LeaseSame
  <2> QED
    BY <2>1, <2>2, OthersIdle
<1>8. Calm'
  BY <1>1, <1>2, <1>6, <1>7, CalmParts DEF Kept
<1> QED
  BY <1>3, <1>8 DEF RInv

LEMMA LeaseLostStep ==
  ASSUME RInv, IInv', NEW h \in Holders, LeaseLost(h)
  PROVE  RInv'
<1>1. pass[h].pc # "idle"
  BY DEF LeaseLost, Writing
<1>2. End(h) /\ UNCHANGED vars /\ UNCHANGED provider /\ UNCHANGED faults
  BY DEF LeaseLost
<1> QED
  BY <1>1, <1>2, EndKeeps

LEMMA CrashStep ==
  ASSUME RInv, IInv', NEW h \in Holders, Crash(h)
  PROVE  RInv'
<1>1. pass[h].pc # "idle" /\ "crash" \in FaultKinds
  BY DEF Crash, At, FaultKinds
<1>2. End(h) /\ UNCHANGED vars /\ UNCHANGED provider /\ Fault("crash")
  BY DEF Crash
<1> QED
  BY <1>1, <1>2, EndKeeps

(* A release finds no effect pending, or a call would be left behind.      *)
LEMMA ReleaseStep ==
  ASSUME RInv, IInv', NEW h \in Holders, Release(h)
  PROVE  RInv'
<1>1. /\ pass[h].pc = "release" /\ pass[h].pc # "idle" /\ End(h) /\ UNCHANGED provider
      /\ "write" \in FaultKinds
  BY DEF Release, At, FaultKinds
<1>2. CASE ReleaseWorkflowRunLease(Run, h, pass[h].tok) /\ UNCHANGED faults
  <2>1. Kept /\ deadline' = deadline /\ deadline' \in [Seqs -> 0..Latency]
    BY <1>1, <1>2, ProviderKept DEF RInv, Core
  <2>2. Moves(h) /\ pass'[h].pc = "idle"
    BY <1>1, EndFacts DEF Moves, RInv, Core
  <2>3. /\ RowsKept /\ left'[Run] = 0 /\ notBefore'[Run] = notBefore[Run]
    BY <1>2, Bounds DEF ReleaseWorkflowRunLease, RowsKept, attemptVars, effectVars, RInv, Core, IInv, TypeOK
  <2>4. OnlyMayGain(h)
    BY <2>3 DEF OnlyMayGain, Holds, Fenced
  <2>5. Core'
    BY <2>1, <2>2, <2>3, <2>4, IdleIsPlain, PlainMoveKeepsCore DEF RInv
  <2>6. PICK q : q = pass'[h]
    OBVIOUS
  <2>7. PendingIsSent(q)' /\ QuietOK(q)'
    BY <2>2, <2>6, IdleIsCalm
  <2>8. PendingIsSent(pass[h])' /\ QuietOK(pass[h])'
    BY <2>6, <2>7
  <2>9. ASSUME Undisturbed
        PROVE  /\ \A g \in Holders \ {h} : pass[g].pc = "idle"
               /\ JourneyOK' /\ FailedIsFailed'
    <3>1. LeaseKept /\ JourneyOK /\ FailedIsFailed /\ PendingIsSent(pass[h])
      BY <2>9 DEF RInv, Calm
    <3>2. \A a \in Seqs : effect[Run][a] # "pending"
      BY <1>1, <3>1 DEF PendingIsSent, Sending
    <3>3. JourneyOK'
      BY <2>1, <2>3, <3>1, <3>2 DEF JourneyOK, Kept, RowsKept, Unresolved
    <3>4. FailedIsFailed'
      BY <2>1, <2>3, <3>1 DEF FailedIsFailed, Kept, RowsKept
    <3> QED
      BY <1>1, <3>1, <3>3, <3>4, OthersIdle
  <2>10. Calm'
    BY <2>1, <2>2, <2>8, <2>9, CalmParts DEF Kept
  <2> QED
    BY <2>5, <2>10 DEF RInv
<1>3. CASE UNCHANGED vars /\ (UNCHANGED faults \/ Fault("write"))
  BY <1>1, <1>3, EndKeeps
<1> QED
  BY <1>2, <1>3 DEF Release

(* A heartbeat gives whoever holds the lease more time.                    *)
LEMMA HeartbeatStep ==
  ASSUME RInv, IInv', NEW h \in Holders, Heartbeat(h)
  PROVE  RInv'
<1>1. /\ pass' = pass /\ UNCHANGED provider /\ UNCHANGED faults
      /\ HeartbeatWorkflowRunLease(Run, h, pass[h].tok)
  BY DEF Heartbeat
<1>2. Kept /\ deadline' = deadline /\ deadline' \in [Seqs -> 0..Latency]
  BY <1>1, ProviderKept DEF RInv, Core
<1>3. /\ RowsKept /\ left'[Run] = LeaseTicks /\ notBefore'[Run] = notBefore[Run]
      /\ holder'[Run] = holder[Run] /\ token'[Run] = token[Run] /\ left[Run] > 0
      /\ left[Run] \in 0..LeaseTicks
  BY <1>1, Bounds DEF HeartbeatWorkflowRunLease, RowsKept, attemptVars, effectVars, RInv, Core,
     IInv, TypeOK, Fenced
<1>4. \A g \in Holders : Holds(g)' <=> Holds(g)
  BY <1>1, <1>3, Bounds DEF Holds, Fenced
<1>5. Core'
  BY <1>1, <1>2, <1>3, <1>4, StillKeepsCore DEF RInv
<1>6. ASSUME Undisturbed'
      PROVE  /\ LeaseKept' /\ JourneyOK' /\ FailedIsFailed'
             /\ \A g \in Holders : PendingIsSent(pass[g])' /\ QuietOK(pass[g])'
  <2>1. Undisturbed
    BY <1>2, <1>6 DEF Undisturbed, Prompt, Kept
  <2>2. /\ LeaseKept /\ JourneyOK /\ FailedIsFailed
        /\ \A g \in Holders : PendingIsSent(pass[g]) /\ QuietOK(pass[g])
    BY <2>1 DEF RInv, Calm
  <2>3. LeaseKept'
    BY <1>1, <1>3, <1>4, <2>2, Bounds DEF LeaseKept
  <2>4. JourneyOK'
    <3>1. \A a \in Seqs : deadline[a] \in 0..Latency
      BY DEF RInv, Core, RuntimeTypeOK
    <3> QED
      BY <1>2, <1>3, <2>2, <3>1, Bounds DEF JourneyOK, Kept, RowsKept, Unresolved
  <2>5. FailedIsFailed'
    BY <1>2, <1>3, <2>2 DEF FailedIsFailed, Kept, RowsKept
  <2>6. \A g \in Holders : PendingIsSent(pass[g])'
    BY <1>1, <1>3, <2>2 DEF PendingIsSent, RowsKept
  <2>7. \A g \in Holders : QuietOK(pass[g])'
    BY <1>1, <1>2, <1>3, <2>2, HappenedKept DEF QuietOK, RowsKept, Kept
  <2> QED
    BY <2>3, <2>4, <2>5, <2>6, <2>7
<1> QED
  BY <1>5, <1>6 DEF RInv, Calm

(* A pass that is told to stop remembers it.                               *)
LEMMA StopStep ==
  ASSUME RInv, IInv', NEW h \in Holders, Stop(h)
  PROVE  RInv'
<1>1. /\ UNCHANGED vars /\ UNCHANGED provider /\ Fault("stop") /\ RuntimeTypeOK
      /\ pass' = [pass EXCEPT ![h].stopping = TRUE]
      /\ pass[h].pc # "idle" /\ "stop" \in FaultKinds
  BY DEF Stop, RInv, Core, Beating, FaultKinds
<1>2. Kept /\ deadline' = deadline /\ deadline' \in [Seqs -> 0..Latency]
  BY <1>1, ProviderKept
<1>3. /\ Moves(h)
      /\ pass'[h].pc = pass[h].pc /\ pass'[h].tok = pass[h].tok /\ pass'[h].at = pass[h].at
      /\ pass'[h].doing = pass[h].doing /\ pass'[h].answer = pass[h].answer
  BY <1>1, StopFacts DEF Moves
<1>4. PICK p, q : p = pass[h] /\ q = pass'[h]
  OBVIOUS
<1>5. /\ q.pc = p.pc /\ q.tok = p.tok /\ q.at = p.at /\ q.doing = p.doing /\ q.answer = p.answer
      /\ RowsKept /\ LeaseSame /\ (Holds(h)' <=> Holds(h))
  BY <1>1, <1>3, <1>4, VarsKept, HoldsSame
<1>6. PassOK(p) /\ (Holds(h)' => DecisionOK(p))
  BY <1>4, <1>5 DEF RInv, Core
<1>7. PassOK(p)' /\ (Holds(h)' => DecisionOK(p)')
  BY <1>2, <1>5, <1>6, PassFrame
<1>8. PassOK(q)'
  BY <1>5, <1>7 DEF PassOK
<1>9. Holds(h)' => DecisionOK(q)'
  BY <1>5, <1>7 DEF DecisionOK
<1>10. Core'
  BY <1>2, <1>3, <1>4, <1>5, <1>8, <1>9, HoldsSame, MoveKeepsCore DEF RInv
<1>11. ASSUME Undisturbed
       PROVE  /\ \A g \in Holders \ {h} : pass[g].pc = "idle"
              /\ (pass'[h].pc # "idle" => Holds(h)' /\ left'[Run] >= LeaseTicks - 1)
              /\ JourneyOK' /\ FailedIsFailed'
              /\ PendingIsSent(q)' /\ QuietOK(q)'
  <2>1. LeaseKept /\ JourneyOK /\ FailedIsFailed /\ PendingIsSent(p) /\ QuietOK(p)
    BY <1>4, <1>11 DEF RInv, Calm
  <2>2. JourneyOK' /\ FailedIsFailed'
    BY <1>1, <1>2, <1>5, <2>1, VarsKept, JourneyFrame DEF RInv, LeaseSame
  <2>3. PendingIsSent(q)'
    BY <1>5, <2>1 DEF PendingIsSent, RowsKept
  <2>4. QuietOK(q)'
    BY <1>2, <1>5, <2>1, HappenedKept DEF QuietOK, RowsKept, Kept
  <2>5. Holds(h)' /\ left'[Run] >= LeaseTicks - 1
    BY <1>1, <1>5, <2>1 DEF LeaseKept, LeaseSame
  <2> QED
    BY <1>1, <2>1, <2>2, <2>3, <2>4, <2>5, OthersIdle
<1>12. Calm'
  BY <1>2, <1>3, <1>4, <1>11, CalmParts DEF Kept
<1> QED
  BY <1>10, <1>12 DEF RInv

-----------------------------------------------------------------------------
(* Steps that write nothing but the run's state, its times and questions.  *)

LEMMA PauseStep ==
  ASSUME RInv, IInv', NEW h \in Holders, Pause(h)
  PROVE  RInv'
<1>1. /\ UNCHANGED provider /\ UNCHANGED faults /\ RuntimeTypeOK /\ pass[h].pc = "pause"
      /\ TypeOK
  BY DEF Pause, At, RInv, Core, IInv
<1>2. pass[h].pc \notin Sending \cup {"idle"}
  BY <1>1 DEF Sending
<1>3. RowsKept /\ LeaseSame /\ EffectsResolved(Run)
  BY <1>1, Bounds DEF Pause, PauseWorkflowRun, Runnable, Terminal, TerminalStates, RowsKept, LeaseSame, leaseVars, attemptVars, effectVars, TypeOK
<1>4. PICK place : place = "release"
  OBVIOUS
<1>5. Goto(h, place) /\ place \in Places /\ place \in Plain /\ place \notin {"reconcile", "defer"}
  BY <1>4 DEF Pause, Places, Plain
<1>6. Moves(h) /\ pass'[h].pc \in Plain /\ pass'[h].pc \notin {"reconcile", "defer"}
      /\ pass'[h].tok = pass[h].tok
  BY <1>1, <1>5, GotoFacts DEF Moves
<1> QED
  BY <1>1, <1>2, <1>3, <1>5, <1>6, PlainStep

LEMMA AskStep ==
  ASSUME RInv, IInv', NEW h \in Holders, Ask(h)
  PROVE  RInv'
<1>1. /\ UNCHANGED provider /\ UNCHANGED faults /\ RuntimeTypeOK /\ pass[h].pc = "ask"
      /\ TypeOK
  BY DEF Ask, At, RInv, Core, IInv
<1>2. pass[h].pc \notin Sending \cup {"idle"}
  BY <1>1 DEF Sending
<1>3. RowsKept /\ LeaseSame /\ EffectsResolved(Run)
  BY <1>1, Bounds DEF Ask, AskWorkflowQuestion, RowsKept, LeaseSame, leaseVars, attemptVars, effectVars, TypeOK
<1>4. Loop(h, FALSE)
  BY DEF Ask
<1>5. Moves(h) /\ pass'[h].pc = "advance" /\ pass'[h].tok = pass[h].tok
  BY <1>1, <1>4, LoopFacts DEF Moves
<1>6. pass'[h].pc \in Plain /\ pass'[h].pc \notin {"reconcile", "defer"}
  BY <1>5 DEF Plain, Places
<1> QED
  BY <1>1, <1>2, <1>3, <1>5, <1>6, PlainStep

LEMMA FailStep ==
  ASSUME RInv, IInv', NEW h \in Holders, Fail(h)
  PROVE  RInv'
<1>1. /\ UNCHANGED provider /\ UNCHANGED faults /\ RuntimeTypeOK /\ pass[h].pc = "fail"
      /\ TypeOK
  BY DEF Fail, At, RInv, Core, IInv
<1>2. pass[h].pc \notin Sending \cup {"idle"}
  BY <1>1 DEF Sending
<1>3. RowsKept /\ LeaseSame /\ EffectsResolved(Run)
  BY <1>1, Bounds DEF Fail, FailWorkflowRun, Runnable, Terminal, TerminalStates, RowsKept, LeaseSame, leaseVars, attemptVars, effectVars, TypeOK
<1>4. Loop(h, FALSE)
  BY DEF Fail
<1>5. Moves(h) /\ pass'[h].pc = "advance" /\ pass'[h].tok = pass[h].tok
  BY <1>1, <1>4, LoopFacts DEF Moves
<1>6. pass'[h].pc \in Plain /\ pass'[h].pc \notin {"reconcile", "defer"}
  BY <1>5 DEF Plain, Places
<1> QED
  BY <1>1, <1>2, <1>3, <1>5, <1>6, PlainStep

LEMMA CancelStep ==
  ASSUME RInv, IInv', NEW h \in Holders, Cancel(h)
  PROVE  RInv'
<1>1. /\ UNCHANGED provider /\ UNCHANGED faults /\ RuntimeTypeOK /\ pass[h].pc = "cancel"
      /\ TypeOK
  BY DEF Cancel, At, RInv, Core, IInv
<1>2. pass[h].pc \notin Sending \cup {"idle"}
  BY <1>1 DEF Sending
<1>3. RowsKept /\ LeaseSame /\ EffectsResolved(Run)
  BY <1>1, Bounds DEF Cancel, FinishWorkflowCancellation, RowsKept, LeaseSame, leaseVars, attemptVars, effectVars, TypeOK
<1>4. PICK place : place = "release"
  OBVIOUS
<1>5. Goto(h, place) /\ place \in Places /\ place \in Plain /\ place \notin {"reconcile", "defer"}
  BY <1>4 DEF Cancel, Places, Plain
<1>6. Moves(h) /\ pass'[h].pc \in Plain /\ pass'[h].pc \notin {"reconcile", "defer"}
      /\ pass'[h].tok = pass[h].tok
  BY <1>1, <1>5, GotoFacts DEF Moves
<1> QED
  BY <1>1, <1>2, <1>3, <1>5, <1>6, PlainStep

(* Nothing is on its way when reconciliation is put off, so the new time   *)
(* cannot be too early.                                                    *)
LEMMA DeferStep ==
  ASSUME RInv, IInv', NEW h \in Holders, Defer(h)
  PROVE  RInv'
<1>1. /\ UNCHANGED provider /\ UNCHANGED faults /\ RuntimeTypeOK /\ pass[h].pc = "defer"
      /\ TypeOK
  BY DEF Defer, At, RInv, Core, IInv
<1>2. pass[h].pc \notin Sending \cup {"idle"}
  BY <1>1 DEF Sending
<1>3. RowsKept /\ LeaseSame /\ (Undisturbed => NoneSent)
  <2>1. RowsKept /\ LeaseSame
    BY <1>1, Bounds DEF Defer, DeferWorkflowReconciliation, RowsKept, LeaseSame, leaseVars, attemptVars, effectVars, TypeOK
  <2>2. Undisturbed => NoneSent
    BY <1>1 DEF RInv, Calm, QuietOK, Quiet, NoneSent
  <2> QED
    BY <2>1, <2>2
<1>4. PICK place : place = "release"
  OBVIOUS
<1>5. Goto(h, place) /\ place \in Places /\ place \in Plain /\ place \notin {"reconcile", "defer"}
  BY <1>4 DEF Defer, Places, Plain
<1>6. Moves(h) /\ pass'[h].pc \in Plain /\ pass'[h].pc \notin {"reconcile", "defer"}
      /\ pass'[h].tok = pass[h].tok
  BY <1>1, <1>5, GotoFacts DEF Moves
<1> QED
  BY <1>1, <1>2, <1>3, <1>5, <1>6, PlainStep

LEMMA AnswerStep ==
  ASSUME RInv, IInv', NEW h \in Holders, Answer(h)
  PROVE  RInv'
<1>1. /\ UNCHANGED provider /\ UNCHANGED faults /\ RuntimeTypeOK /\ pass[h].pc = "answer"
      /\ TypeOK
  BY DEF Answer, At, RInv, Core, IInv
<1>2. pass[h].pc \notin Sending \cup {"idle"}
  BY <1>1 DEF Sending
<1>3. RowsKept /\ LeaseSame /\ (notBefore'[Run] = notBefore[Run] \/ notBefore'[Run] = NoTime)
  <2>1. CASE UNCHANGED vars
    BY <2>1, VarsKept
  <2>2. CASE \E c \in Checkpoints : AnswerWorkflowQuestion(Run, h, pass[h].tok, c)
    BY <1>1, <2>2, Bounds DEF AnswerWorkflowQuestion, RowsKept, LeaseSame, leaseVars, attemptVars, effectVars, TypeOK
  <2> QED
    BY <2>1, <2>2 DEF Answer
<1>4. PICK place : place = "release"
  OBVIOUS
<1>5. Goto(h, place) /\ place \in Places /\ place \in Plain /\ place \notin {"reconcile", "defer"}
  BY <1>4 DEF Answer, Places, Plain
<1>6. Moves(h) /\ pass'[h].pc \in Plain /\ pass'[h].pc \notin {"reconcile", "defer"}
      /\ pass'[h].tok = pass[h].tok
  BY <1>1, <1>5, GotoFacts DEF Moves
<1> QED
  BY <1>1, <1>2, <1>3, <1>5, <1>6, PlainStep

LEMMA ResumeStep ==
  ASSUME RInv, IInv', NEW h \in Holders, Resume(h)
  PROVE  RInv'
<1>1. /\ UNCHANGED provider /\ RuntimeTypeOK /\ pass[h].pc = "resume" /\ TypeOK
      /\ "refuse" \in FaultKinds
  BY DEF Resume, At, RInv, Core, IInv, FaultKinds
<1>2. pass[h].pc \notin Sending \cup {"idle"}
  BY <1>1 DEF Sending
<1>3. RowsKept /\ LeaseSame /\ (notBefore'[Run] = notBefore[Run] \/ notBefore'[Run] = NoTime)
  <2>1. CASE UNCHANGED vars
    BY <2>1, VarsKept
  <2>2. CASE ResumeWorkflowRun(Run, h, pass[h].tok)
    BY <1>1, <2>2, Bounds DEF ResumeWorkflowRun, RowsKept, LeaseSame, leaseVars, attemptVars, effectVars, TypeOK
  <2> QED
    BY <2>1, <2>2 DEF Resume
<1>4. PICK place \in {"advance", "pause"} : Goto(h, place) /\ (UNCHANGED faults \/ Fault("refuse"))
  BY DEF Resume
<1>5. place \in Places /\ place \in Plain /\ place \notin {"reconcile", "defer"}
  BY DEF Places, Plain
<1>6. Moves(h) /\ pass'[h].pc = place /\ pass'[h].tok = pass[h].tok
  BY <1>1, <1>4, <1>5, GotoFacts DEF Moves
<1> QED
  BY <1>1, <1>2, <1>3, <1>4, <1>5, <1>6, PlainStep

(* The owner starts and cancels without a lease.                           *)
LEMMA OwnerStep ==
  ASSUME RInv, IInv', StartRun \/ CancelRun
  PROVE  RInv'
<1>1. /\ pass' = pass /\ UNCHANGED provider /\ UNCHANGED faults /\ TypeOK
      /\ StartWorkflowRun(Run) \/ RequestWorkflowRunCancellation(Run)
  BY DEF StartRun, CancelRun, RInv, Core, IInv
<1>2. Kept /\ deadline' = deadline /\ deadline' \in [Seqs -> 0..Latency]
  BY <1>1, ProviderKept DEF RInv, Core
<1>3. RowsKept /\ LeaseSame /\ (notBefore'[Run] = notBefore[Run] \/ notBefore'[Run] = NoTime)
  BY <1>1, Bounds DEF StartWorkflowRun, RequestWorkflowRunCancellation, Runnable, Terminal,
     TerminalStates, RowsKept, LeaseSame, leaseVars, attemptVars, effectVars, TypeOK
<1>4. \A g \in Holders : Holds(g)' <=> Holds(g)
  BY <1>1, <1>3 DEF LeaseSame, Holds, Fenced
<1>5. Core'
  BY <1>1, <1>2, <1>3, <1>4, StillKeepsCore DEF RInv
<1>6. ASSUME Undisturbed'
      PROVE  /\ LeaseKept' /\ JourneyOK' /\ FailedIsFailed'
             /\ \A g \in Holders : PendingIsSent(pass[g])' /\ QuietOK(pass[g])'
  <2>1. Undisturbed
    BY <1>2, <1>6 DEF Undisturbed, Prompt, Kept
  <2>2. /\ LeaseKept /\ JourneyOK /\ FailedIsFailed
        /\ \A g \in Holders : PendingIsSent(pass[g]) /\ QuietOK(pass[g])
    BY <2>1 DEF RInv, Calm
  <2>3. LeaseKept'
    BY <1>1, <1>3, <1>4, <2>2 DEF LeaseKept, LeaseSame
  <2>4. JourneyOK' /\ FailedIsFailed'
    BY <1>2, <1>3, <2>2, JourneyFrame DEF RInv, LeaseSame
  <2>5. \A g \in Holders : PendingIsSent(pass[g])'
    BY <1>1, <1>3, <2>2 DEF PendingIsSent, RowsKept
  <2>6. \A g \in Holders : QuietOK(pass[g])'
    BY <1>1, <1>2, <1>3, <2>2, HappenedKept DEF QuietOK, RowsKept, Kept
  <2> QED
    BY <2>3, <2>4, <2>5, <2>6
<1> QED
  BY <1>5, <1>6 DEF RInv, Calm

(* A tick takes time from the lease, from the requests on their way and    *)
(* from the settle delay alike.                                            *)
LEMMA TimeStep ==
  ASSUME RInv, IInv', Time
  PROVE  RInv'
<1>1. /\ pass' = pass /\ setting' = setting /\ request' = request /\ TypeOK /\ RuntimeTypeOK
      /\ Tick /\ (UNCHANGED faults \/ Fault("stall"))
      /\ deadline' = [a \in Seqs |-> IF deadline[a] > 0 THEN deadline[a] - 1 ELSE 0]
  BY DEF Time, RInv, Core, IInv
<1>2. Kept /\ deadline' \in [Seqs -> 0..Latency]
  <2>1. faults' \in 0..MaxFaults
    BY <1>1, Bounds DEF RuntimeTypeOK, Fault
  <2>2. \A a \in Seqs : (IF deadline[a] > 0 THEN deadline[a] - 1 ELSE 0) \in 0..Latency
    BY <1>1, Bounds DEF RuntimeTypeOK
  <2> QED
    BY <1>1, <2>1, <2>2 DEF Kept
<1>3. /\ RowsKept /\ holder'[Run] = holder[Run] /\ token'[Run] = token[Run]
      /\ left[Run] \in Nat /\ notBefore[Run] \in Int
      /\ left'[Run] = IF left[Run] > 0 THEN left[Run] - 1 ELSE left[Run]
      /\ notBefore'[Run] = IF notBefore[Run] > 0 THEN notBefore[Run] - 1 ELSE notBefore[Run]
  BY <1>1, Bounds DEF Tick, RowsKept, LeaseSame, leaseVars, attemptVars, effectVars, TypeOK, NoTime
<1>4. \A g \in Holders : Holds(g)' => Holds(g)
  BY <1>1, <1>3 DEF Holds, Fenced
<1>5. Core'
  BY <1>1, <1>2, <1>3, <1>4, StillKeepsCore DEF RInv
<1>6. ASSUME Undisturbed'
      PROVE  /\ LeaseKept' /\ JourneyOK' /\ FailedIsFailed'
             /\ \A g \in Holders : PendingIsSent(pass[g])' /\ QuietOK(pass[g])'
  <2>1. Undisturbed
    BY <1>2, <1>6 DEF Undisturbed, Prompt, Kept
  <2>2. /\ LeaseKept /\ JourneyOK /\ FailedIsFailed
        /\ \A g \in Holders : PendingIsSent(pass[g]) /\ QuietOK(pass[g])
    BY <2>1 DEF RInv, Calm
  <2>3. \A h \in Holders : OnTime(h)
    BY <2>1 DEF Time, Fault, Undisturbed
  <2>4. LeaseTicks > 1 /\ LeaseTicks \in Nat
    BY <2>1, Bounds DEF Undisturbed, Prompt
  <2>5. ASSUME NEW h \in Holders, pass[h].pc # "idle"
        PROVE  left'[Run] = LeaseTicks - 1 /\ left'[Run] > 0 /\ Holds(h)'
    <3>1. Holds(h) /\ pass[h].pc \in Beating
      BY <2>2, <2>3, <2>5, PassTypes DEF LeaseKept, OnTime, Beating, RInv, Core
    <3>2. left[Run] = LeaseTicks
      BY <2>3, <3>1 DEF OnTime
    <3> QED
      BY <1>1, <1>3, <2>4, <3>1, <3>2 DEF Holds, Fenced
  <2>6. LeaseKept'
    BY <1>1, <2>4, <2>5 DEF LeaseKept
  <2>7. JourneyOK'
    <3>1. \A a \in Seqs : /\ request[a] = "sent" => deadline[a] > 0
                         /\ deadline[a] \in Nat
      BY <1>1 DEF Time, RuntimeTypeOK
    <3>2. \A a \in Seqs : request[a] = "sent" => deadline'[a] = deadline[a] - 1
      BY <1>1, <3>1
    <3>3. ASSUME NEW a \in Seqs, request[a] = "sent"
          PROVE  /\ Unresolved(Run, a)
                 /\ effect[Run][a] = "pending" => deadline'[a] < left'[Run]
                 /\ effect[Run][a] = "unknown" =>
                      notBefore'[Run] = NoTime \/ deadline'[a] < notBefore'[Run]
      BY <1>3, <2>2, <3>1, <3>2, <3>3 DEF JourneyOK, NoTime
    <3> QED
      BY <1>1, <1>3, <3>3 DEF JourneyOK, RowsKept, Unresolved
  <2>8. FailedIsFailed'
    BY <1>2, <1>3, <2>2 DEF FailedIsFailed, Kept, RowsKept
  <2>9. \A g \in Holders : PendingIsSent(pass[g])'
    BY <1>1, <1>3, <2>2 DEF PendingIsSent, RowsKept
  <2>10. \A g \in Holders : QuietOK(pass[g])'
    BY <1>1, <1>2, <1>3, <2>2, HappenedKept DEF QuietOK, RowsKept, Kept
  <2> QED
    BY <2>6, <2>7, <2>8, <2>9, <2>10
<1> QED
  BY <1>5, <1>6 DEF RInv, Calm

-----------------------------------------------------------------------------
(* Counting attempts, and the latest of them.                              *)

LEMMA SeqsFinite ==
  ASSUME NEW S, S \subseteq Seqs
  PROVE  IsFiniteSet(S) /\ Cardinality(S) \in Nat
<1>1. IsFiniteSet(Seqs)
  BY Bounds, FS_Interval DEF Seqs
<1>2. IsFiniteSet(S)
  BY <1>1, FS_Subset
<1> QED
  BY <1>2, FS_CardinalityType

LEMMA CountsAre ==
  \A c : /\ Made(c) \subseteq Seqs /\ Attempts(c) \subseteq Seqs /\ Intents(c) \subseteq Seqs
         /\ SafelyInterrupted(c) \subseteq Seqs
         /\ IsFiniteSet(Attempts(c)) /\ IsFiniteSet(Intents(c)) /\ IsFiniteSet(SafelyInterrupted(c))
         /\ Cardinality(Attempts(c)) \in Nat /\ Cardinality(Intents(c)) \in Nat
         /\ Cardinality(SafelyInterrupted(c)) \in Nat
<1> TAKE c
<1>1. /\ Made(c) \subseteq Seqs /\ Attempts(c) \subseteq Seqs /\ Intents(c) \subseteq Seqs
      /\ SafelyInterrupted(c) \subseteq Seqs
  BY DEF Made, Attempts, Intents, SafelyInterrupted
<1> QED
  BY <1>1, SeqsFinite

LEMMA LessIsWellFounded ==
  \E R : IsWellFoundedOn(R, Nat) /\ \A x, y \in Nat : x < y => <<x, y>> \in R
<1>1. \A x, y \in Nat : x < y => <<x, y>> \in OpToRel(<, Nat)
  BY DEF OpToRel
<1> QED
  BY <1>1, NatLessThanWellFounded

LEMMA LeastNat ==
  ASSUME NEW S, S \subseteq Nat, S # {}
  PROVE  \E m \in S : \A k \in S : m <= k
<1>1. PICK R : IsWellFoundedOn(R, Nat) /\ \A x, y \in Nat : x < y => <<x, y>> \in R
  BY LessIsWellFounded
<1>2. IsWellFoundedOn(R, Nat)
  BY <1>1
<1>3. \E x \in S : \A y \in S : ~ (<<y, x>> \in R)
  BY <1>2, WFMin, ZenonT(60)
<1>4. PICK x \in S : \A y \in S : ~ (<<y, x>> \in R)
  BY <1>3
<1>5. ASSUME NEW y \in S PROVE x <= y
  <2>1. x \in Nat /\ y \in Nat /\ ~(<<y, x>> \in R)
    BY <1>4
  <2>2. ~(y < x)
    BY <1>1, <2>1, Zenon
  <2> QED
    BY <2>1, <2>2
<1> QED
  BY <1>5

LEMMA GreatestSeq ==
  ASSUME NEW S, S \subseteq Seqs, S # {}
  PROVE  \E m \in S : \A k \in S : k <= m
<1> DEFINE D == {MaxAttempts - x : x \in S}
<1>1. D \subseteq Nat /\ D # {}
  BY Bounds DEF Seqs
<1> HIDE DEF D
<1>2. PICK d \in D : \A k \in D : d <= k
  BY <1>1, LeastNat
<1>3. PICK m \in S : d = MaxAttempts - m
  BY DEF D
<1>4. S \subseteq Nat
  BY DEF Seqs
<1>5. ASSUME NEW x \in S PROVE x <= m
  <2>1. MaxAttempts - x \in D
    BY DEF D
  <2>2. MaxAttempts - m <= MaxAttempts - x /\ x \in Nat /\ m \in Nat
    BY <1>2, <1>3, <1>4, <2>1
  <2> QED
    BY <2>2, Bounds
<1> QED
  BY <1>5

LEMMA LastIntentIs ==
  ASSUME NEW c, Intents(c) # {}
  PROVE  LastIntent(c) \in Intents(c) /\ \A b \in Intents(c) : b <= LastIntent(c)
<1>1. \E a \in Intents(c) : \A b \in Intents(c) : b <= a
  BY CountsAre, GreatestSeq
<1> QED
  BY <1>1 DEF LastIntent

(* A run that may take a step has nothing in flight and nothing unknown.   *)
LEMMA FreeMeansResolved ==
  ASSUME Core, ~Reconciling, ~Parked, state[Run] # "cancelling"
  PROVE  /\ state[Run] \in {"queued", "running"} /\ ~InFlight(Run)
         /\ \A a \in Seqs : ~Unresolved(Run, a)
<1>1. state[Run] \in {"queued", "running"} /\ ~InFlight(Run)
  BY DEF Parked
<1>2. ASSUME NEW a \in Seqs PROVE ~Unresolved(Run, a)
  BY <1>1, Bounds DEF Core, IInv, UnresolvedEffectBlocks, Unresolved, InFlight
<1> QED
  BY <1>1, <1>2

(* So the intents of the step it takes all failed, unless the last one     *)
(* succeeded.                                                              *)
LEMMA IntentsFailed ==
  ASSUME Core, \A a \in Seqs : ~Unresolved(Run, a), NEW c,
         Intents(c) = {} \/ effect[Run][LastIntent(c)] # "succeeded"
  PROVE  \A b \in Intents(c) : effect[Run][b] = "failed"
<1>1. SUFFICES ASSUME NEW b \in Intents(c) PROVE effect[Run][b] = "failed"
  OBVIOUS
<1>2. PICK l : l = LastIntent(c)
  OBVIOUS
<1>3. l \in Intents(c) /\ b <= l /\ effect[Run][l] # "succeeded"
  BY <1>1, <1>2, LastIntentIs
<1>4. /\ l \in Seqs /\ b \in Seqs /\ effect[Run][l] # "none" /\ effect[Run][b] # "none"
      /\ attCkpt[Run][l] = c /\ attCkpt[Run][b] = c
  BY <1>1, <1>3 DEF Intents, Made
<1>5. effect[Run][l] = "failed"
  BY <1>3, <1>4, Rows DEF Core, IInv, Unresolved, EffectStates
<1>6. CASE b = l
  BY <1>5, <1>6
<1>7. CASE b # l
  <2>1. b < l
    BY <1>3, <1>4, <1>7, Bounds DEF Seqs
  <2> QED
    BY <1>4, <2>1 DEF Core, EffectsOK
<1> QED
  BY <1>6, <1>7

(* What is in hand once step has decided.                                  *)
LEMMA StepFacts ==
  ASSUME Core, NEW h \in Holders, ~Reconciling, ~Parked, state[Run] # "cancelling",
         Step(h, ckpt[Run])
  PROVE  \E place \in {"fail", "begin", "effect", "ask", "pause"} :
           /\ Plan(h, place)
           /\ UNCHANGED faults \/ \E kind \in FaultKinds : Fault(kind)
           /\ place = "begin" =>
                /\ StepKind[ckpt[Run]] = "effect" => Happened(ckpt[Run])
                /\ Cardinality(SafelyInterrupted(ckpt[Run])) < Interruptions
                /\ StepKind[ckpt[Run]] # "effect" => Cardinality(Attempts(ckpt[Run])) < StepAttempts
           /\ place = "effect" =>
                /\ StepKind[ckpt[Run]] = "effect"
                /\ \A b \in Intents(ckpt[Run]) : effect[Run][b] = "failed"
                /\ Cardinality(Intents(ckpt[Run])) < StepAttempts
<1>1. PICK c : c = ckpt[Run]
  OBVIOUS
<1>2. "late" \in FaultKinds /\ "refuse" \in FaultKinds
  BY DEF FaultKinds
<1>3. /\ Cardinality(SafelyInterrupted(c)) \in Nat /\ Cardinality(Attempts(c)) \in Nat
      /\ Cardinality(Intents(c)) \in Nat /\ IsFiniteSet(Intents(c)) /\ IsFiniteSet(Attempts(c))
  BY CountsAre
<1>4. /\ \A a \in Seqs : ~Unresolved(Run, a) /\ ~InFlight(Run)
      /\ StepAttempts \in Nat \ {0} /\ Interruptions \in Nat
  BY FreeMeansResolved, Bounds
<1>5. CASE Cardinality(SafelyInterrupted(c)) >= Interruptions
  BY <1>1, <1>5 DEF Step
<1>6. CASE ~(Cardinality(SafelyInterrupted(c)) >= Interruptions)
  <2>1. Cardinality(SafelyInterrupted(c)) < Interruptions
    BY <1>3, <1>4, <1>6
  <2>2. CASE StepKind[c] = "effect" /\ PlanEffect(h, c)
    <3>1. CASE Cardinality(Intents(c)) > 0 /\ effect[Run][LastIntent(c)] = "succeeded"
      <4>1. Plan(h, "begin") /\ UNCHANGED faults
        BY <2>2, <3>1 DEF PlanEffect
      <4>2. Intents(c) # {}
        BY <1>3, <3>1, FS_EmptySet
      <4>3. PICK l : l = LastIntent(c)
        OBVIOUS
      <4>4. l \in Intents(c)
        BY <4>2, <4>3, LastIntentIs
      <4>5. l \in Seqs /\ attCkpt[Run][l] = c /\ effect[Run][l] = "succeeded"
        BY <3>1, <4>3, <4>4 DEF Intents, Made
      <4>6. Happened(c)
        BY <4>5 DEF Core, EffectsOK
      <4> QED
        BY <1>1, <2>1, <2>2, <4>1, <4>6
    <3>2. CASE ~(Cardinality(Intents(c)) > 0 /\ effect[Run][LastIntent(c)] = "succeeded")
      <4>1. Intents(c) = {} \/ effect[Run][LastIntent(c)] # "succeeded"
        BY <1>3, <3>2, FS_EmptySet
      <4>2. \A b \in Intents(c) : effect[Run][b] = "failed"
        BY <1>4, <4>1, IntentsFailed
      <4>3. CASE Cardinality(Intents(c)) >= StepAttempts \/ RunLimitReached
        BY <1>1, <2>2, <3>2, <4>3 DEF PlanEffect
      <4>4. CASE ~(Cardinality(Intents(c)) >= StepAttempts \/ RunLimitReached)
        <5>1. Cardinality(Intents(c)) < StepAttempts
          BY <1>3, <1>4, <4>4
        <5>2. \/ Plan(h, "effect") /\ UNCHANGED faults
              \/ Plan(h, "fail") /\ Fault("late")
              \/ Plan(h, "pause") /\ Fault("refuse")
          BY <2>2, <3>2, <4>4 DEF PlanEffect
        <5> QED
          BY <1>1, <1>2, <2>2, <4>2, <5>1, <5>2
      <4> QED
        BY <4>3, <4>4
    <3> QED
      BY <3>1, <3>2
  <2>3. CASE StepKind[c] = "interrupt" /\ Plan(h, "begin") /\ UNCHANGED faults
    <3>1. Attempts(c) = {}
      <4>1. SUFFICES ASSUME NEW a \in Attempts(c) PROVE FALSE
        OBVIOUS
      <4>2. /\ a \in Seqs /\ attCkpt[Run][a] = c /\ attState[Run][a] \notin {"none", "interrupted"}
            /\ attState[Run][a] \in AttemptStates
        BY <4>1, Rows DEF Attempts, Made, Core, IInv
      <4>3. attState[Run][a] \in {"succeeded", "failed"}
        BY <1>4, <4>2 DEF AttemptStates, InFlight
      <4>4. StepsOK /\ AttemptsOK /\ ckpt[Run] \in Nat
        BY Rows DEF Core, IInv, Checkpoints
      <4>5. c \in DOMAIN StepKind
        BY <1>1, <4>4, FreeMeansResolved DEF StepsOK
      <4>6. c < ckpt[Run]
        BY <2>3, <4>2, <4>3, <4>4, <4>5 DEF AttemptsOK
      <4> QED
        BY <1>1, <4>4, <4>6
    <3>2. Cardinality(Attempts(c)) < StepAttempts
      BY <1>4, <3>1, FS_EmptySet
    <3> QED
      BY <1>1, <2>1, <2>3, <3>2
  <2>4. CASE /\ StepKind[c] # "effect"
             /\ LET place == IF StepKind[c] = "interrupt" THEN "ask" ELSE "begin"
                IN \/ Plan(h, IF LimitReached(c) THEN "fail" ELSE place) /\ UNCHANGED faults
                   \/ ~LimitReached(c) /\ Plan(h, "fail") /\ Fault("late")
                   \/ StepKind[c] = "read" /\ Plan(h, "pause") /\ Fault("refuse")
    <3>1. \/ \E place \in {"fail", "ask"} : Plan(h, place) /\ UNCHANGED faults
          \/ ~LimitReached(c) /\ Plan(h, "begin") /\ UNCHANGED faults
          \/ Plan(h, "fail") /\ Fault("late")
          \/ Plan(h, "pause") /\ Fault("refuse")
      BY <2>4
    <3>2. ~LimitReached(c) => Cardinality(Attempts(c)) < StepAttempts
      BY <1>3, <1>4 DEF LimitReached
    <3> QED
      BY <1>1, <1>2, <2>1, <2>4, <3>1, <3>2
  <2> QED
    BY <1>1, <1>6, <2>2, <2>3, <2>4 DEF Step
<1> QED
  BY <1>5, <1>6

LEMMA AdvanceStep ==
  ASSUME RInv, IInv', NEW h \in Holders, Advance(h)
  PROVE  RInv'
<1>1. /\ UNCHANGED vars /\ UNCHANGED provider /\ pass[h].pc = "advance"
      /\ Core /\ RuntimeTypeOK /\ TypeOK
  BY DEF Advance, At, RInv, Core, IInv
<1>2. pass[h].pc \notin Sending \cup {"idle"}
  BY <1>1 DEF Sending
<1>3. CASE Reconciling /\ AwaitReconciliation(h) /\ UNCHANGED faults
  <2>1. /\ Moves(h) /\ pass'[h].tok = pass[h].tok
        /\ pass'[h].pc \in {"settling", "reconcile", "release"}
        /\ pass'[h].pc = "reconcile" => notBefore[Run] = 0
    BY <1>1, <1>3, AwaitFacts DEF Moves
  <2>2. pass'[h].pc \in Plain /\ pass'[h].pc # "defer"
    BY <2>1 DEF Plain, Places
  <2>3. pass'[h].pc = "reconcile" => (Undisturbed => NoneSent)
    BY <1>2, <1>3, <2>1, DueMeansArrived
  <2> QED
    BY <1>1, <1>2, <1>3, <2>1, <2>2, <2>3, VarsKept, PlainStep
<1>4. CASE \E place \in {"release", "cancel"} : Goto(h, place) /\ UNCHANGED faults
  <2>1. PICK place \in {"release", "cancel"} : Goto(h, place)
    BY <1>4
  <2>2. place \in Places /\ place \in Plain /\ place \notin {"reconcile", "defer"}
    BY DEF Places, Plain
  <2>3. Moves(h) /\ pass'[h].pc = place /\ pass'[h].tok = pass[h].tok
    BY <1>1, <2>1, <2>2, GotoFacts DEF Moves
  <2> QED
    BY <1>1, <1>2, <1>4, <2>2, <2>3, VarsKept, PlainStep
<1>5. CASE ~Reconciling /\ ~Parked /\ state[Run] # "cancelling" /\ Step(h, ckpt[Run])
  <2>1. PICK c : c = ckpt[Run]
    OBVIOUS
  <2>2. PICK place \in {"fail", "begin", "effect", "ask", "pause"} :
           /\ Plan(h, place)
           /\ UNCHANGED faults \/ \E kind \in FaultKinds : Fault(kind)
           /\ place = "begin" =>
                /\ StepKind[c] = "effect" => Happened(c)
                /\ Cardinality(SafelyInterrupted(c)) < Interruptions
                /\ StepKind[c] # "effect" => Cardinality(Attempts(c)) < StepAttempts
           /\ place = "effect" =>
                /\ StepKind[c] = "effect"
                /\ \A b \in Intents(c) : effect[Run][b] = "failed"
                /\ Cardinality(Intents(c)) < StepAttempts
    BY <1>1, <1>5, <2>1, StepFacts
  <2>3. place \in Places /\ place \notin Sending /\ place \notin Quiet /\ place # "idle"
    BY DEF Places, Sending, Quiet
  <2>4. Moves(h) /\ pass'[h].pc = place /\ pass'[h].tok = pass[h].tok /\ pass'[h].at = c
    BY <1>1, <2>1, <2>2, <2>3, PlanFacts DEF Moves
  <2>5. CASE place \in {"fail", "ask", "pause"}
    <3>1. place \in Plain /\ place \notin {"reconcile", "defer"}
      BY <2>5 DEF Plain, Places
    <3> QED
      BY <1>1, <1>2, <2>2, <2>4, <3>1, VarsKept, PlainStep
  <2>6. CASE place \in {"begin", "effect"}
    <3>1. PICK q : q = pass'[h]
      OBVIOUS
    <3>2. q.pc = place /\ q.at = c /\ q.pc \in {"begin", "effect"}
      BY <2>4, <2>6, <3>1
    <3>3. c \in DOMAIN StepKind
      BY <1>1, <1>5, <2>1, FreeMeansResolved DEF Core, StepsOK
    <3>4. PassOK(q)
      BY <2>2, <3>2, <3>3 DEF PassOK, Sending
    <3>5. DecisionOK(q)
      BY <2>2, <3>2 DEF DecisionOK
    <3>6. Kept /\ deadline' = deadline /\ deadline' \in [Seqs -> 0..Latency]
      BY <1>1, <2>2, ProviderKept
    <3>7. PassOK(q)' /\ DecisionOK(q)'
      BY <1>1, <3>4, <3>5, <3>6, VarsKept, PassFrame
    <3>8. PassOK(pass[h])' /\ DecisionOK(pass[h])' /\ pass'[h].pc \notin {"check", "send"}
      BY <3>1, <3>2, <3>7
    <3>9. Core'
      BY <1>1, <2>4, <3>6, <3>8, VarsKept, HoldsSame, MoveKeepsCore
    <3>10. QuietOK(q)'
      BY <2>3, <3>2, NotQuiet
    <3>11. QuietOK(pass[h])'
      BY <3>1, <3>10
    <3>12. Calm'
      BY <1>1, <1>2, <2>3, <2>4, <3>6, <3>11, VarsKept, MoveKeepsCalm
    <3> QED
      BY <3>9, <3>12 DEF RInv
  <2> QED
    BY <2>5, <2>6
<1> QED
  BY <1>3, <1>4, <1>5 DEF Advance

-----------------------------------------------------------------------------
(* The call itself, and asking about it.                                   *)

(* Between the intent and its answer the pass carries the same attempt.    *)
LEMMA SenderMove ==
  ASSUME RInv, IInv', NEW h \in Holders, Moves(h), UNCHANGED vars, UNCHANGED provider,
         UNCHANGED faults, pass[h].pc \in Sending, pass'[h].pc \in Sending,
         pass'[h].tok = pass[h].tok, pass'[h].doing = pass[h].doing, PassOK(pass[h])',
         pass'[h].pc \in {"check", "send"} => pass[h].pc \in {"check", "send"}
  PROVE  RInv'
<1>1. Kept /\ deadline' = deadline /\ deadline' \in [Seqs -> 0..Latency]
  BY ProviderKept DEF RInv, Core
<1>2. PICK p, q : p = pass[h] /\ q = pass'[h]
  OBVIOUS
<1>3. q.pc \notin {"effect", "begin", "owner"} /\ q.pc \notin Quiet /\ p.pc # "idle" /\ q.pc # "idle"
      /\ q.pc \notin {"resolve"}
  BY <1>2 DEF Sending, Quiet
<1>4. DecisionOK(q)'
  BY <1>3 DEF DecisionOK
<1>5. DecisionOK(pass[h])'
  BY <1>2, <1>4
<1>6. Core'
  BY <1>1, <1>5, VarsKept, HoldsSame, MoveKeepsCore DEF RInv
<1>7. ASSUME Undisturbed
      PROVE  /\ \A g \in Holders \ {h} : pass[g].pc = "idle"
             /\ (pass'[h].pc # "idle" => Holds(h)' /\ left'[Run] >= LeaseTicks - 1)
             /\ JourneyOK' /\ FailedIsFailed'
             /\ PendingIsSent(q)' /\ QuietOK(q)'
  <2>1. LeaseKept /\ JourneyOK /\ FailedIsFailed /\ PendingIsSent(p)
    BY <1>2, <1>7 DEF RInv, Calm
  <2>2. JourneyOK' /\ FailedIsFailed'
    BY <1>1, <2>1, VarsKept, JourneyFrame DEF RInv, LeaseSame
  <2>3. PendingIsSent(q)'
    BY <1>2, <2>1, VarsKept DEF PendingIsSent, RowsKept
  <2>4. QuietOK(q)'
    BY <1>3, NotQuiet
  <2>5. Holds(h)' /\ left'[Run] >= LeaseTicks - 1
    BY <1>2, <1>3, <2>1, VarsKept, HoldsSame DEF LeaseKept, LeaseSame
  <2> QED
    BY <1>2, <1>3, <2>1, <2>2, <2>3, <2>4, <2>5, OthersIdle
<1>8. Calm'
  BY <1>1, <1>2, <1>7, CalmParts DEF Kept
<1> QED
  BY <1>6, <1>8 DEF RInv

LEMMA CheckLeaseStep ==
  ASSUME RInv, IInv', NEW h \in Holders, CheckLease(h)
  PROVE  RInv'
<1>1. /\ UNCHANGED vars /\ UNCHANGED provider /\ UNCHANGED faults /\ pass[h].pc = "check"
      /\ RuntimeTypeOK /\ PassOK(pass[h])
  BY DEF CheckLease, At, RInv, Core
<1>2. PICK place : place = "send"
  OBVIOUS
<1>3. Goto(h, place) /\ place \in Places
  BY <1>2 DEF CheckLease, Places
<1>4. PICK p, q : p = pass[h] /\ q = pass'[h]
  OBVIOUS
<1>5. /\ Moves(h) /\ q.pc = "send" /\ q.tok = p.tok /\ q.at = p.at /\ q.doing = p.doing
      /\ p.pc = "check"
  BY <1>1, <1>2, <1>3, <1>4, GotoFacts DEF Moves
<1>6. PassOK(q)
  BY <1>1, <1>4, <1>5 DEF PassOK, Sending
<1>7. Kept
  BY <1>1, ProviderKept
<1>8. PassOK(q)'
  BY <1>1, <1>6, <1>7, VarsKept, PassFrame
<1>9. PassOK(pass[h])' /\ p.pc \in Sending /\ q.pc \in Sending
  BY <1>4, <1>5, <1>8 DEF Sending
<1> QED
  BY <1>1, <1>4, <1>5, <1>9, SenderMove

LEMMA ReturnStep ==
  ASSUME RInv, IInv', NEW h \in Holders, Return(h)
  PROVE  RInv'
<1>1. /\ UNCHANGED vars /\ UNCHANGED provider /\ UNCHANGED faults /\ pass[h].pc = "call"
      /\ RuntimeTypeOK /\ PassOK(pass[h])
  BY DEF Return, At, RInv, Core
<1>2. PICK place : place = "record"
  OBVIOUS
<1>3. PICK answer \in {"happened", "refused", "unknown"} :
        /\ answer = "happened" => request[pass[h].doing] \in {"performed", "repeated"}
        /\ answer = "refused" => request[pass[h].doing] = "refused"
        /\ pass' = [pass EXCEPT ![h].pc = place, ![h].answer = answer]
  BY <1>2 DEF Return
<1>4. PICK p, q : p = pass[h] /\ q = pass'[h]
  OBVIOUS
<1>5. place \in Places
      /\ answer \in {"happened", "refused", "unknown", "succeeded", "failed", "later", "owner"}
  BY <1>2 DEF Places
<1>6. /\ Moves(h) /\ q.pc = "record" /\ q.tok = p.tok /\ q.at = p.at /\ q.doing = p.doing
      /\ q.answer = answer /\ p.pc = "call"
  BY <1>1, <1>2, <1>3, <1>4, <1>5, AnswerFacts DEF Moves
<1>7. PassOK(q)
  BY <1>1, <1>3, <1>4, <1>6 DEF PassOK, Sending
<1>8. Kept
  BY <1>1, ProviderKept
<1>9. PassOK(q)'
  BY <1>1, <1>7, <1>8, VarsKept, PassFrame
<1>10. PassOK(pass[h])' /\ p.pc \in Sending /\ q.pc \in Sending /\ q.pc \notin {"check", "send"}
  BY <1>4, <1>6, <1>9 DEF Sending
<1> QED
  BY <1>1, <1>4, <1>6, <1>10, SenderMove

(* From one quiet place to the next.                                       *)
LEMMA QuietMove ==
  ASSUME RInv, IInv', NEW h \in Holders, Moves(h), UNCHANGED vars, UNCHANGED provider,
         UNCHANGED faults \/ \E kind \in FaultKinds : Fault(kind),
         pass[h].pc \in Quiet, pass'[h].pc \in Quiet, pass'[h].pc # "owner",
         pass'[h].tok = pass[h].tok, PassOK(pass[h])',
         pass'[h].pc = "resolve" /\ pass'[h].answer = "failed" =>
           ~Happened(attCkpt[Run][pass'[h].doing])
  PROVE  RInv'
<1>1. Kept /\ deadline' = deadline /\ deadline' \in [Seqs -> 0..Latency]
  BY ProviderKept DEF RInv, Core
<1>2. PICK q : q = pass'[h]
  OBVIOUS
<1>3. q.pc \notin {"effect", "begin", "owner", "check", "send"} /\ q.pc \notin Sending
      /\ pass[h].pc \notin Sending \cup {"idle"} /\ q.pc # "idle"
  BY <1>2 DEF Sending, Quiet
<1>4. DecisionOK(q)'
  BY <1>3 DEF DecisionOK
<1>5. DecisionOK(pass[h])' /\ pass'[h].pc \notin {"check", "send"}
  BY <1>2, <1>3, <1>4
<1>6. Core'
  BY <1>1, <1>5, VarsKept, HoldsSame, MoveKeepsCore DEF RInv
<1>7. Undisturbed => QuietOK(q)'
  <2>1. Undisturbed => NoneSent
    BY DEF RInv, Calm, QuietOK, NoneSent
  <2>2. RowsKept /\ request' = request
    BY <1>1, VarsKept DEF Kept
  <2> QED
    BY <1>2, <1>3, <2>1, <2>2, HappenedKept DEF QuietOK, NoneSent, RowsKept
<1>8. Undisturbed => QuietOK(pass[h])'
  BY <1>2, <1>7
<1>9. Calm'
  BY <1>1, <1>2, <1>3, <1>8, VarsKept, MoveKeepsCalm
<1> QED
  BY <1>6, <1>9 DEF RInv

LEMMA ReconcileStep ==
  ASSUME RInv, IInv', NEW h \in Holders, Reconcile(h)
  PROVE  RInv'
<1>1. /\ UNCHANGED vars /\ UNCHANGED provider /\ pass[h].pc = "reconcile"
      /\ RuntimeTypeOK /\ "refuse" \in FaultKinds
  BY DEF Reconcile, At, RInv, Core, FaultKinds
<1>2. PICK a \in Seqs :
       /\ effect[Run][a] = "unknown"
       /\ \/ /\ pass' = [pass EXCEPT ![h].pc = "look", ![h].doing = a]
             /\ UNCHANGED faults
          \/ \E answer \in {"later", "owner"} :
               /\ pass' = [pass EXCEPT ![h].pc = "defer", ![h].answer = answer]
               /\ Fault("refuse")
  BY DEF Reconcile
<1>3. PICK q : q = pass'[h]
  OBVIOUS
<1>4. PICK look, defer : look = "look" /\ defer = "defer" /\ look \in Places /\ defer \in Places
  BY DEF Places
<1>5. CASE pass' = [pass EXCEPT ![h].pc = "look", ![h].doing = a] /\ UNCHANGED faults
  <2>1. pass' = [pass EXCEPT ![h].pc = look, ![h].doing = a]
    BY <1>4, <1>5
  <2>2. Moves(h) /\ q.pc = "look" /\ q.tok = pass[h].tok /\ q.doing = a
    BY <1>1, <1>3, <1>4, <2>1, DoingFacts DEF Moves
  <2>3. PassOK(q)
    BY <1>2, <2>2 DEF PassOK, Sending
  <2>4. Kept
    BY <1>1, <1>5, ProviderKept
  <2>5. PassOK(q)'
    BY <1>1, <2>3, <2>4, VarsKept, PassFrame
  <2>6. PassOK(pass[h])' /\ pass[h].pc \in Quiet /\ pass'[h].pc \in Quiet
        /\ pass'[h].pc \notin {"owner", "resolve"}
    BY <1>1, <1>3, <2>2, <2>5 DEF Quiet
  <2> QED
    BY <1>1, <1>3, <1>5, <2>2, <2>6, QuietMove
<1>6. CASE \E answer \in {"later", "owner"} :
             /\ pass' = [pass EXCEPT ![h].pc = "defer", ![h].answer = answer]
             /\ Fault("refuse")
  <2>1. PICK answer \in {"later", "owner"} :
          pass' = [pass EXCEPT ![h].pc = defer, ![h].answer = answer]
    BY <1>4, <1>6
  <2>2. answer \in {"happened", "refused", "unknown", "succeeded", "failed", "later", "owner"}
    OBVIOUS
  <2>3. Moves(h) /\ q.pc = "defer" /\ q.tok = pass[h].tok
    BY <1>1, <1>3, <1>4, <2>1, <2>2, AnswerFacts DEF Moves
  <2>4. q.pc \in Plain
    BY <2>3 DEF Plain, Places
  <2>5. PassOK(q)'
    BY <2>4, PlainIsOK
  <2>6. PassOK(pass[h])' /\ pass[h].pc \in Quiet /\ pass'[h].pc \in Quiet
        /\ pass'[h].pc \notin {"owner", "resolve"}
    BY <1>1, <1>3, <2>3, <2>5 DEF Quiet
  <2> QED
    BY <1>1, <1>3, <1>6, <2>3, <2>6, QuietMove
<1> QED
  BY <1>2, <1>5, <1>6

LEMMA LookUpStep ==
  ASSUME RInv, IInv', NEW h \in Holders, LookUp(h)
  PROVE  RInv'
<1>1. /\ UNCHANGED vars /\ UNCHANGED provider /\ pass[h].pc = "look"
      /\ RuntimeTypeOK /\ "lookup" \in FaultKinds /\ PassOK(pass[h])
  BY DEF LookUp, At, RInv, Core, FaultKinds
<1>2. PICK p, q : p = pass[h] /\ q = pass'[h]
  OBVIOUS
<1>3. PICK res, defer : res = "resolve" /\ defer = "defer" /\ res \in Places /\ defer \in Places
  BY DEF Places
<1>4. CASE /\ pass' = [pass EXCEPT ![h].pc = "resolve", ![h].answer =
                IF Happened(attCkpt[Run][pass[h].doing]) THEN "succeeded" ELSE "failed"]
           /\ UNCHANGED faults
  <2>1. PICK answer \in {"succeeded", "failed"} :
          answer = "succeeded" <=> Happened(attCkpt[Run][pass[h].doing])
    BY Zenon
  <2>2. pass' = [pass EXCEPT ![h].pc = res, ![h].answer = answer]
    BY <1>3, <1>4, <2>1
  <2>3. answer \in {"happened", "refused", "unknown", "succeeded", "failed", "later", "owner"}
    OBVIOUS
  <2>4. /\ Moves(h) /\ q.pc = "resolve" /\ q.tok = p.tok /\ q.doing = p.doing
        /\ q.answer = answer /\ p.pc = "look"
    BY <1>1, <1>2, <1>3, <2>2, <2>3, AnswerFacts DEF Moves
  <2>5. PassOK(q)
    BY <1>1, <1>2, <2>1, <2>4 DEF PassOK, Sending
  <2>6. Kept
    BY <1>1, <1>4, ProviderKept
  <2>7. PassOK(q)'
    BY <1>1, <2>5, <2>6, VarsKept, PassFrame
  <2>8. PassOK(pass[h])' /\ pass[h].pc \in Quiet /\ pass'[h].pc \in Quiet
        /\ pass'[h].pc # "owner"
    BY <1>1, <1>2, <2>4, <2>7 DEF Quiet
  <2>9. pass'[h].answer = "failed" => ~Happened(attCkpt[Run][pass'[h].doing])
    BY <1>2, <2>1, <2>4
  <2> QED
    BY <1>1, <1>2, <1>4, <2>4, <2>8, <2>9, QuietMove
<1>5. CASE \E answer \in {"later", "owner"} :
             /\ pass' = [pass EXCEPT ![h].pc = "defer", ![h].answer = answer]
             /\ Fault("lookup")
  <2>1. PICK answer \in {"later", "owner"} :
          pass' = [pass EXCEPT ![h].pc = defer, ![h].answer = answer]
    BY <1>3, <1>5
  <2>2. answer \in {"happened", "refused", "unknown", "succeeded", "failed", "later", "owner"}
    OBVIOUS
  <2>3. Moves(h) /\ q.pc = "defer" /\ q.tok = pass[h].tok
    BY <1>1, <1>2, <1>3, <2>1, <2>2, AnswerFacts DEF Moves
  <2>4. q.pc \in Plain
    BY <2>3 DEF Plain, Places
  <2>5. PassOK(q)'
    BY <2>4, PlainIsOK
  <2>6. PassOK(pass[h])' /\ pass[h].pc \in Quiet /\ pass'[h].pc \in Quiet
        /\ pass'[h].pc \notin {"owner", "resolve"}
    BY <1>1, <1>2, <2>3, <2>5 DEF Quiet
  <2> QED
    BY <1>1, <1>2, <1>5, <2>3, <2>6, QuietMove
<1> QED
  BY <1>4, <1>5 DEF LookUp

-----------------------------------------------------------------------------
(* Steps that change the run's attempts and effects.                       *)

(* Rows are added, never taken away.                                       *)
Grows ==
  \A a \in Seqs : /\ attState[Run][a] # "none" => /\ attState'[Run][a] # "none"
                                                  /\ attCkpt'[Run][a] = attCkpt[Run][a]
                  /\ effect[Run][a] # "none" => effect'[Run][a] # "none"

(* What a provider decided stays decided.                                  *)
AnswersKept ==
  \A a \in Seqs : request[a] \in {"performed", "repeated", "refused"} => request'[a] = request[a]

LEMMA HappenedGrows ==
  ASSUME Grows, AnswersKept
  PROVE  \A c : Happened(c) => Happened(c)'
<1>1. ASSUME NEW c, Happened(c) PROVE Happened(c)'
  <2>1. PICK a \in Seqs : attState[Run][a] # "none" /\ attCkpt[Run][a] = c /\ request[a] = "performed"
    BY <1>1 DEF Happened, Made
  <2>2. attState'[Run][a] # "none" /\ attCkpt'[Run][a] = c /\ request'[a] = "performed"
    BY <2>1 DEF Grows, AnswersKept
  <2> QED
    BY <2>2 DEF Happened, Made
<1> QED
  BY <1>1

LEMMA PassGrows ==
  ASSUME Core, Grows, AnswersKept, setting' = setting, NEW p, PassOK(p),
         p.pc \in {"check", "send"} => request'[p.doing] = request[p.doing]
  PROVE  PassOK(p)'
<1>1. StepKind' = StepKind
  BY DEF StepKind
<1>2. \A a \in Seqs : effect[Run][a] # "none" => attState[Run][a] # "none"
  BY Bounds DEF Core, IInv, IntentHasAttempt
<1>3. /\ p.pc \in Sending \cup {"run", "look", "resolve"} => p.doing \in Seqs
      /\ p.pc \in Sending \cup {"look", "resolve"} =>
           effect'[Run][p.doing] # "none" /\ attCkpt'[Run][p.doing] = attCkpt[Run][p.doing]
      /\ p.pc \in Sending \cup {"run"} =>
           attState'[Run][p.doing] # "none" /\ attCkpt'[Run][p.doing] = p.at
  BY <1>2 DEF PassOK, Grows
<1>4. p.pc \in {"check", "send"} => request'[p.doing] = "unsent"
  BY DEF PassOK
<1>5. p.pc = "record" =>
       /\ p.answer \in {"happened", "refused", "unknown"}
       /\ p.answer = "happened" => request'[p.doing] \in {"performed", "repeated"}
       /\ p.answer = "refused" => request'[p.doing] = "refused"
  BY <1>3 DEF PassOK, AnswersKept, Sending
<1>6. p.pc = "resolve" /\ p.answer = "succeeded" => Happened(attCkpt[Run][p.doing])'
  <2>1. ASSUME p.pc = "resolve", p.answer = "succeeded" PROVE Happened(attCkpt[Run][p.doing])'
    <3>1. PICK c : c = attCkpt[Run][p.doing]
      OBVIOUS
    <3>2. Happened(c)
      BY <2>1, <3>1 DEF PassOK
    <3>3. Happened(c)'
      BY <3>2, HappenedGrows
    <3>4. attCkpt'[Run][p.doing] = c
      BY <1>3, <2>1, <3>1
    <3> QED
      BY <3>3, <3>4 DEF Happened, Made
  <2> QED
    BY <2>1
<1>7. p.pc \in {"begin", "run"} =>
        p.at \in DOMAIN StepKind' /\ (StepKind'[p.at] = "effect" => Happened(p.at)')
  BY <1>1, HappenedGrows DEF PassOK
<1>8. /\ p.pc \in {"resolve", "owner"} => p.answer \in {"succeeded", "failed"}
      /\ p.pc \in Sending \cup {"effect"} => p.at \in DOMAIN StepKind' /\ StepKind'[p.at] = "effect"
  BY <1>1 DEF PassOK
<1> QED
  BY <1>3, <1>4, <1>5, <1>6, <1>7, <1>8 DEF PassOK

LEMMA ChangeKeepsCore ==
  ASSUME Core, IInv', setting' = setting, faults' \in 0..MaxFaults, NEW h \in Holders, Moves(h),
         request' \in [Seqs -> {"unsent", "sent", "performed", "repeated", "refused", "lost"}],
         deadline' \in [Seqs -> 0..Latency],
         Grows, AnswersKept, \A g \in Holders \ {h} : ~Holds(g)',
         \A g \in Holders \ {h} :
           pass[g].pc \in {"check", "send"} => request'[pass[g].doing] = request[pass[g].doing],
         PassOK(pass[h])', Holds(h)' => DecisionOK(pass[h])',
         SendersDiffer', StepsOK', AttemptsOK', EffectsOK', IdempotentOK', RetriesAreBounded'
  PROVE  Core'
<1>1. RuntimeTypeOK'
  BY DEF Core, RuntimeTypeOK, Moves, Passes
<1>2. ASSUME NEW g \in Holders PROVE PassOK(pass[g])' /\ (Holds(g)' => DecisionOK(pass[g])')
  <2>1. CASE g = h
    BY <2>1
  <2>2. CASE g # h
    <3>1. PICK p : p = pass[g]
      OBVIOUS
    <3>2. /\ pass'[g] = p /\ PassOK(p) /\ ~Holds(g)'
          /\ p.pc \in {"check", "send"} => request'[p.doing] = request[p.doing]
      BY <2>2, <3>1 DEF Moves, Core
    <3>3. PassOK(p)'
      BY <3>2, PassGrows
    <3> QED
      BY <3>2, <3>3
  <2> QED
    BY <2>1, <2>2
<1> QED
  BY <1>1, <1>2 DEF Core

LEMMA SendersStay ==
  ASSUME SendersDiffer, NEW h \in Holders, Moves(h), pass'[h].pc \notin {"check", "send"}
  PROVE  SendersDiffer'
<1>1. \A g \in Holders : pass'[g].pc \in {"check", "send"} =>
        pass[g].pc \in {"check", "send"} /\ pass'[g].doing = pass[g].doing
  BY DEF Moves
<1> QED
  BY <1>1 DEF SendersDiffer

-----------------------------------------------------------------------------
(* What was in flight ends, or an outcome becomes known: no new row.       *)

Ending ==
  /\ attCkpt'[Run] = attCkpt[Run]
  /\ \A b \in Seqs :
       /\ attState'[Run][b] = attState[Run][b] \/ (attState[Run][b] = "running" /\ attState'[Run][b] # "none")
       /\ (effect'[Run][b] = "none") <=> (effect[Run][b] = "none")
       /\ effect[Run][b] = "failed" => effect'[Run][b] = "failed"

LEMMA EndingSets ==
  ASSUME Core, Ending, NEW c
  PROVE  /\ Made(c)' = Made(c) /\ Intents(c)' = Intents(c) /\ Attempts(c)' \subseteq Attempts(c)
         /\ SafelyInterrupted(c)' \subseteq SafelyInterrupted(c) \cup
              {b \in Made(c) : attState[Run][b] = "running" /\ effect[Run][b] = "none"}
<1>1. Made(c)' = Made(c)
  BY DEF Ending, Made
<1>2. Intents(c)' = Intents(c)
  BY <1>1 DEF Ending, Intents, Made
<1>3. ASSUME NEW b \in Attempts(c)' PROVE b \in Attempts(c)
  BY <1>1, <1>3 DEF Ending, Attempts, Made
<1>4. ASSUME NEW b \in SafelyInterrupted(c)'
      PROVE  \/ b \in SafelyInterrupted(c)
             \/ b \in {x \in Made(c) : attState[Run][x] = "running" /\ effect[Run][x] = "none"}
  BY <1>1, <1>4 DEF Ending, SafelyInterrupted, Made
<1> QED
  BY <1>1, <1>2, <1>3, <1>4

LEMMA EndingIsBounded ==
  ASSUME Core, Ending, setting' = setting
  PROVE  RetriesAreBounded'
<1>1. StepKind' = StepKind
  BY DEF StepKind
<1>2. SUFFICES ASSUME NEW c \in DOMAIN StepKind
               PROVE  /\ Cardinality(Intents(c)') <= StepAttempts \/ StepKind[c] # "effect"
                      /\ Cardinality(Attempts(c)') <= StepAttempts \/ StepKind[c] = "effect"
                      /\ Cardinality(SafelyInterrupted(c)') <= Interruptions
  BY <1>1 DEF RetriesAreBounded
<1>3. /\ StepKind[c] = "effect" => Cardinality(Intents(c)) <= StepAttempts
      /\ StepKind[c] # "effect" => Cardinality(Attempts(c)) <= StepAttempts
      /\ Cardinality(SafelyInterrupted(c)) <= Interruptions
  BY DEF Core, RetriesAreBounded
<1>4. Cardinality(Attempts(c)') <= Cardinality(Attempts(c)) /\ Cardinality(Attempts(c)') \in Nat
  BY EndingSets, CountsAre, FS_Subset, FS_CardinalityType
<1>5. Cardinality(SafelyInterrupted(c)') <= Interruptions
  <2>1. PICK S, T, X : /\ S = SafelyInterrupted(c)' /\ T = SafelyInterrupted(c)
                       /\ X = {b \in Made(c) : attState[Run][b] = "running" /\ effect[Run][b] = "none"}
    OBVIOUS
  <2>2. S \subseteq T \cup X /\ T \subseteq Seqs /\ IsFiniteSet(T) /\ Cardinality(T) \in Nat
    BY <2>1, EndingSets, CountsAre
  <2>3. Interruptions \in Nat
    BY Bounds
  <2>4. CASE X = {}
    <3>1. S \in SUBSET T
      BY <2>2, <2>4
    <3>2. Cardinality(S) <= Cardinality(T) /\ Cardinality(S) \in Nat
      BY <2>2, <3>1, FS_Subset, FS_CardinalityType
    <3> QED
      BY <1>3, <2>1, <2>2, <2>3, <3>2
  <2>5. CASE X # {}
    <3>1. PICK x \in X : TRUE
      BY <2>5
    <3>2. /\ x \in Seqs /\ attState[Run][x] = "running" /\ effect[Run][x] = "none"
          /\ attCkpt[Run][x] = c
      BY <2>1, <3>1 DEF Made
    <3>3. ASSUME NEW y \in X PROVE y = x
      BY <2>1, <3>2, <3>3, Bounds DEF Made, Core, IInv, InFlightIsCurrent
    <3>4. S \in SUBSET (T \cup {x})
      BY <2>2, <3>3
    <3>5. IsFiniteSet(T \cup {x}) /\ Cardinality(T \cup {x}) <= Cardinality(T) + 1
          /\ Cardinality(T \cup {x}) \in Nat
      <4>1. /\ IsFiniteSet(T \cup {x})
            /\ Cardinality(T \cup {x}) = IF x \in T THEN Cardinality(T) ELSE Cardinality(T) + 1
        BY <2>2, FS_AddElement
      <4> QED
        BY <2>2, <4>1
    <3>6. Cardinality(S) <= Cardinality(T \cup {x}) /\ Cardinality(S) \in Nat
      BY <3>4, <3>5, FS_Subset, FS_CardinalityType
    <3>7. Cardinality(T) < Interruptions
      BY <2>1, <3>2 DEF Core, AttemptsOK
    <3> QED
      BY <2>1, <2>2, <2>3, <3>5, <3>6, <3>7
  <2> QED
    BY <2>4, <2>5
<1> QED
  BY <1>3, <1>4, <1>5, EndingSets, CountsAre, Bounds

LEMMA EndingHappened ==
  ASSUME Core, Ending, request' = request
  PROVE  \A c : Happened(c)' <=> Happened(c)
  BY EndingSets DEF Happened

LEMMA EndingKeepsRows ==
  ASSUME Core, IInv', Ending, setting' = setting, request' = request, ckpt'[Run] >= ckpt[Run],
         \A b \in Seqs : attState'[Run][b] = "running" => attState'[Run] = attState[Run],
         \A b \in Seqs : /\ attState[Run][b] = "running" /\ attState'[Run][b] \in {"succeeded", "failed"}
                         /\ attCkpt[Run][b] \in DOMAIN StepKind
                         /\ StepKind[attCkpt[Run][b]] = "interrupt"
                         => attCkpt[Run][b] < ckpt'[Run],
         \A b \in Seqs : effect'[Run][b] = "succeeded" => Happened(attCkpt[Run][b]),
         \A c \in EffectSteps : c < ckpt'[Run] => Happened(c)
  PROVE  AttemptsOK' /\ EffectsOK' /\ IdempotentOK' /\ RetriesAreBounded'
<1>1. StepKind' = StepKind /\ EffectSteps' = EffectSteps
  BY DEF StepKind, EffectSteps
<1>2. /\ ckpt[Run] \in Nat /\ ckpt'[Run] \in Nat
      /\ \A a \in Seqs : attCkpt[Run][a] \in Nat
  <2>1. TypeOK /\ TypeOK'
    BY DEF Core, IInv
  <2>2. Checkpoints \subseteq Nat
    BY Bounds DEF Checkpoints
  <2>3. ckpt'[Run] \in Checkpoints
    BY <2>1, Bounds DEF TypeOK
  <2> QED
    BY <2>1, <2>2, <2>3, Rows
<1>3. AttemptsOK'
  <2>1. \A a \in Seqs : attState'[Run][a] # "none" => attCkpt'[Run][a] <= ckpt'[Run]
    BY <1>2 DEF Core, AttemptsOK, Ending
  <2>2. \A a, b \in Seqs : a < b /\ attState'[Run][b] # "none" => attState'[Run][a] # "none"
    BY DEF Core, AttemptsOK, Ending
  <2>3. \A a \in Seqs : /\ attState'[Run][a] \in {"succeeded", "failed"}
                        /\ attCkpt'[Run][a] \in DOMAIN StepKind
                        /\ StepKind[attCkpt'[Run][a]] = "interrupt"
                        => attCkpt'[Run][a] < ckpt'[Run]
    BY <1>2 DEF Core, AttemptsOK, Ending
  <2>4. ASSUME NEW a \in Seqs, attState'[Run][a] = "running", effect'[Run][a] = "none"
        PROVE  Cardinality(SafelyInterrupted(attCkpt[Run][a])') < Interruptions
    <3>1. attState'[Run] = attState[Run]
      BY <2>4
    <3>2. PICK c : c = attCkpt[Run][a]
      OBVIOUS
    <3>3. Made(c)' = Made(c)
      BY EndingSets
    <3>4. SafelyInterrupted(c)' = SafelyInterrupted(c)
      BY <3>1, <3>3 DEF SafelyInterrupted, Made, Ending
    <3>5. Cardinality(SafelyInterrupted(c)) < Interruptions
      BY <2>4, <3>1, <3>2 DEF Core, AttemptsOK, Ending
    <3> QED
      BY <3>2, <3>4, <3>5 DEF Ending
  <2>5. ASSUME NEW a \in Seqs, attState'[Run][a] = "running", effect'[Run][a] = "none"
        PROVE  Cardinality(SafelyInterrupted(attCkpt[Run][a]))' < Interruptions
    <3>1. PICK c : c = attCkpt[Run][a] /\ c = attCkpt'[Run][a]
      BY DEF Ending
    <3>2. Cardinality(SafelyInterrupted(c)') < Interruptions
      BY <2>4, <2>5, <3>1
    <3> QED
      BY <3>1, <3>2 DEF SafelyInterrupted, Made
  <2> QED
    BY <1>1, <2>1, <2>2, <2>3, <2>5 DEF AttemptsOK
<1>4. EffectsOK'
  <2>1. \A a \in Seqs : request'[a] # "unsent" => effect'[Run][a] # "none"
    BY DEF Core, EffectsOK, Ending
  <2>2. \A a \in Seqs : effect'[Run][a] = "succeeded" \/ request'[a] = "repeated" =>
          Happened(attCkpt'[Run][a])
    BY DEF Core, EffectsOK, Ending
  <2>3. ASSUME NEW a \in Seqs, effect'[Run][a] = "succeeded" \/ request'[a] = "repeated"
        PROVE  Happened(attCkpt[Run][a])'
    <3>1. PICK c : c = attCkpt'[Run][a]
      OBVIOUS
    <3>2. Happened(c)
      BY <2>2, <2>3, <3>1
    <3>3. Happened(c)'
      BY <3>2, EndingHappened
    <3> QED
      BY <3>1, <3>3 DEF Happened, Made
  <2>4. \A c \in EffectSteps : c < ckpt'[Run] => Happened(c)'
    BY EndingHappened
  <2>5. \A a, b \in Seqs : /\ effect'[Run][a] # "none" /\ effect'[Run][b] # "none"
                           /\ attCkpt'[Run][a] = attCkpt'[Run][b] /\ a < b
                           => effect'[Run][a] = "failed"
    BY DEF Core, EffectsOK, Ending
  <2> QED
    BY <1>1, <2>1, <2>3, <2>4, <2>5 DEF EffectsOK
<1>5. IdempotentOK'
  BY DEF Core, IdempotentOK, Ending
<1>6. RetriesAreBounded'
  BY EndingIsBounded
<1> QED
  BY <1>3, <1>4, <1>5, <1>6

-----------------------------------------------------------------------------
(* A claim: what the last holder left in flight is interrupted, and its    *)
(* effect, if it called one, unknown.                                      *)

LEMMA ClaimRows ==
  ASSUME Core, NEW h \in Holders, AcquireWorkflowRunLease(Run, h)
  PROVE  /\ holder'[Run] = h /\ token'[Run] = token[Run] + 1 /\ token[Run] + 1 \in Tokens
         /\ left[Run] = 0 /\ left'[Run] = LeaseTicks
         /\ ckpt'[Run] = ckpt[Run] /\ attCkpt'[Run] = attCkpt[Run]
         /\ state[Run] # "succeeded" /\ state'[Run] # "succeeded"
         /\ \A b \in Seqs :
              /\ attState'[Run][b] = IF attState[Run][b] = "running" THEN "interrupted"
                                                                     ELSE attState[Run][b]
              /\ effect'[Run][b] = IF effect[Run][b] = "pending" THEN "unknown" ELSE effect[Run][b]
         /\ (\A b \in Seqs : effect[Run][b] # "pending") => notBefore'[Run] = notBefore[Run]
<1>1. IInv /\ TypeOK /\ Run \in Runs
  BY Bounds DEF Core, IInv
<1>2. /\ UNCHANGED <<ckpt, attCkpt>>
      /\ state[Run] \notin {"absent", "succeeded", "failed", "cancelled"}
      /\ state'[Run] = IF /\ \E b \in Seqs : effect[Run][b] = "pending"
                          /\ state[Run] # "cancelling"
                       THEN "needs_reconciliation" ELSE state[Run]
      /\ \A b \in Seqs :
           /\ attState'[Run][b] = IF attState[Run][b] = "running" THEN "interrupted"
                                                                  ELSE attState[Run][b]
           /\ effect'[Run][b] = IF effect[Run][b] = "pending" THEN "unknown" ELSE effect[Run][b]
  BY <1>1, AcquireFacts
<1>3. /\ holder'[Run] = h /\ token'[Run] = token[Run] + 1 /\ token[Run] + 1 \in Tokens
      /\ left[Run] = 0 /\ left'[Run] = LeaseTicks
  BY <1>1 DEF AcquireWorkflowRunLease, LeaseFree, TypeOK
<1>4. (\A b \in Seqs : effect[Run][b] # "pending") => notBefore'[Run] = notBefore[Run]
  BY DEF AcquireWorkflowRunLease, Orphans
<1> QED
  BY <1>2, <1>3, <1>4

LEMMA ClaimKeeps ==
  ASSUME RInv, IInv', NEW h \in Holders, NEW place \in {"continue", "answer", "owner"},
         NEW answer \in {"none", "succeeded", "failed"}, ClaimAs(h, place, answer),
         UNCHANGED faults \/ \E kind \in FaultKinds : Fault(kind),
         place = "owner" => /\ answer # "none" /\ NoneSent
                            /\ \E a \in Seqs : /\ Unresolved(Run, a)
                                               /\ answer = "succeeded" <=> Happened(attCkpt[Run][a])
  PROVE  RInv'
<1>1. /\ Core /\ RuntimeTypeOK /\ pass[h].pc = "idle" /\ UNCHANGED provider
      /\ AcquireWorkflowRunLease(Run, h)
  BY DEF ClaimAs, At, RInv, Core
<1>2. PICK t : t = token[Run] + 1
  OBVIOUS
<1>3. PICK q : q = [Idle EXCEPT !.pc = place, !.tok = t, !.answer = answer]
  OBVIOUS
<1>4. q \in Passes /\ q.pc = place /\ q.tok = t /\ q.answer = answer
  <2>1. t \in Tokens /\ place \in Places /\ 0 \in Checkpoints
    BY <1>1, <1>2, ClaimRows, Bounds DEF Places, Checkpoints
  <2>2. q = [pc |-> place, tok |-> t, at |-> 0, doing |-> 0, answer |-> answer,
             settling |-> FALSE, stopping |-> FALSE]
    BY <1>3 DEF Idle
  <2> QED
    BY <2>1, <2>2 DEF Passes
<1>5. Moves(h) /\ pass'[h] = q
  <2>1. pass' = [pass EXCEPT ![h] = q]
    BY <1>2, <1>3 DEF ClaimAs
  <2> QED
    BY <1>1, <1>4, <2>1, PassChanges DEF Moves
<1>6. Kept /\ deadline' = deadline /\ deadline' \in [Seqs -> 0..Latency]
  BY <1>1, ProviderKept
<1>7. Ending /\ Grows /\ AnswersKept
  BY <1>1, <1>6, ClaimRows DEF Ending, Grows, AnswersKept, Kept
<1>8. \A g \in Holders \ {h} : ~Holds(g)'
  BY <1>1, ClaimRows DEF Holds, Fenced
<1>9. StepsOK'
  BY <1>1, <1>6, ClaimRows DEF Core, StepsOK, Kept, StepKind
<1>10. AttemptsOK' /\ EffectsOK' /\ IdempotentOK' /\ RetriesAreBounded'
  <2>1. ckpt'[Run] >= ckpt[Run]
    BY <1>1, ClaimRows, Rows, Bounds DEF Core, IInv, Checkpoints
  <2>2. \A b \in Seqs : attState'[Run][b] # "running"
    BY <1>1, ClaimRows
  <2>3. \A b \in Seqs : attState[Run][b] = "running" => attState'[Run][b] = "interrupted"
    BY <1>1, ClaimRows
  <2>4. \A b \in Seqs : effect'[Run][b] = "succeeded" => Happened(attCkpt[Run][b])
    BY <1>1, ClaimRows DEF Core, EffectsOK
  <2>5. \A c \in EffectSteps : c < ckpt'[Run] => Happened(c)
    BY <1>1, ClaimRows DEF Core, EffectsOK
  <2> QED
    BY <1>1, <1>6, <1>7, <2>1, <2>2, <2>3, <2>4, <2>5, EndingKeepsRows DEF Kept
<1>11. q.pc = "owner" =>
         \A b \in Seqs : effect'[Run][b] = "unknown" =>
           (answer = "succeeded" <=> Happened(attCkpt[Run][b]))
  <2>1. \A a, b \in Seqs : Unresolved(Run, a) /\ Unresolved(Run, b) => a = b
    BY <1>1, Bounds DEF Core, IInv, UnresolvedEffectBlocks
  <2>2. \A b \in Seqs : effect'[Run][b] = "unknown" => Unresolved(Run, b)
    BY <1>1, ClaimRows DEF Unresolved
  <2> QED
    BY <1>4, <1>5, <2>1, <2>2
<1>12. PassOK(q)'
  BY <1>4, <1>5 DEF PassOK, Sending
<1>13. DecisionOK(q)'
  <2>1. ASSUME q.pc = "owner", q.answer = "succeeded", NEW b \in Seqs, effect'[Run][b] = "unknown"
        PROVE  Happened(attCkpt[Run][b])'
    <3>1. PICK c : c = attCkpt[Run][b] /\ c = attCkpt'[Run][b]
      BY <1>7 DEF Ending
    <3>2. Happened(c)
      BY <1>4, <1>5, <1>11, <2>1, <3>1
    <3>3. Happened(c)'
      BY <1>7, <3>2, HappenedGrows
    <3> QED
      BY <3>1, <3>3 DEF Happened, Made
  <2> QED
    BY <1>4, <1>5, <2>1 DEF DecisionOK
<1>14. PassOK(pass[h])' /\ DecisionOK(pass[h])' /\ pass'[h].pc \notin {"check", "send"}
  BY <1>4, <1>5, <1>12, <1>13
<1>15. SendersDiffer'
  BY <1>1, <1>4, <1>5, <1>14, SendersStay DEF Core
<1>16. Core'
  BY <1>1, <1>4, <1>5, <1>6, <1>7, <1>8, <1>9, <1>10, <1>14, <1>15, ChangeKeepsCore
     DEF Kept, RuntimeTypeOK
<1>17. ASSUME Undisturbed
       PROVE  /\ \A g \in Holders \ {h} : pass[g].pc = "idle"
              /\ (pass'[h].pc # "idle" => Holds(h)' /\ left'[Run] >= LeaseTicks - 1)
              /\ JourneyOK' /\ FailedIsFailed'
              /\ PendingIsSent(q)' /\ QuietOK(q)'
  <2>1. /\ LeaseKept /\ JourneyOK /\ FailedIsFailed /\ LeaseTicks \in Nat /\ LeaseTicks > 1
        /\ left[Run] = 0 /\ left'[Run] = LeaseTicks
    BY <1>1, <1>17, Bounds, ClaimRows DEF RInv, Calm, Undisturbed, Prompt
  <2>2. \A g \in Holders : pass[g].pc = "idle"
    BY <2>1 DEF LeaseKept
  <2>3. Holds(h)' /\ left'[Run] >= LeaseTicks - 1
    BY <1>1, <1>2, <1>4, <1>5, <2>1, ClaimRows DEF Holds, Fenced
  <2>4. \A a \in Seqs : request[a] = "sent" => effect[Run][a] = "unknown"
    <3>1. \A a \in Seqs : deadline[a] \in Nat
      BY <1>1 DEF RuntimeTypeOK
    <3> QED
      BY <2>1, <3>1 DEF JourneyOK, Unresolved
  <2>5. ASSUME NEW a \in Seqs, request[a] = "sent" PROVE notBefore'[Run] = notBefore[Run]
    <3>1. \A b \in Seqs : effect[Run][b] # "pending"
      BY <1>1, <2>4, <2>5, Bounds DEF Core, IInv, UnresolvedEffectBlocks, Unresolved
    <3> QED
      BY <1>1, <3>1, ClaimRows
  <2>6. JourneyOK'
    BY <1>1, <1>6, <2>1, <2>4, <2>5, ClaimRows DEF JourneyOK, Kept, Unresolved
  <2>7. FailedIsFailed'
    BY <1>1, <1>6, <2>1, ClaimRows DEF FailedIsFailed, Kept
  <2>8. PendingIsSent(q)'
    BY <1>1, <1>4, <1>5, ClaimRows DEF PendingIsSent, Sending
  <2>9. QuietOK(q)'
    <3>1. ASSUME q.pc = "owner", q.answer = "failed", NEW b \in Seqs, effect'[Run][b] = "unknown"
          PROVE  ~Happened(attCkpt[Run][b])'
      <4>1. PICK c : c = attCkpt[Run][b] /\ c = attCkpt'[Run][b]
        BY <1>7 DEF Ending
      <4>2. ~Happened(c)
        BY <1>4, <1>5, <1>11, <3>1, <4>1
      <4>3. ~Happened(c)'
        BY <1>1, <1>6, <1>7, <4>2, EndingHappened DEF Kept
      <4> QED
        BY <4>1, <4>3 DEF Happened, Made
    <3>2. q.pc \in Quiet => \A a \in Seqs : request'[a] # "sent"
      BY <1>4, <1>5, <1>6 DEF Quiet, NoneSent, Kept
    <3> QED
      BY <1>4, <1>5, <3>1, <3>2 DEF QuietOK
  <2> QED
    BY <2>2, <2>3, <2>6, <2>7, <2>8, <2>9
<1>18. Calm'
  BY <1>4, <1>5, <1>6, <1>17, CalmParts DEF Kept
<1> QED
  BY <1>16, <1>18 DEF RInv

LEMMA ClaimStep ==
  ASSUME RInv, IInv', NEW h \in Holders, Claim(h)
  PROVE  RInv'
<1>1. PICK place \in {"continue", "answer", "owner"}, answer \in {"none", "succeeded", "failed"} :
        place = "continue" /\ answer = "none"
  OBVIOUS
<1>2. /\ ClaimAs(h, place, answer) /\ place # "owner"
      /\ UNCHANGED faults \/ \E kind \in FaultKinds : Fault(kind)
  BY <1>1 DEF Claim, FaultKinds
<1> QED
  BY <1>2, ClaimKeeps

LEMMA AnswerRunStep ==
  ASSUME RInv, IInv', NEW h \in Holders, AnswerRun(h)
  PROVE  RInv'
<1>1. PICK place \in {"continue", "answer", "owner"}, answer \in {"none", "succeeded", "failed"} :
        place = "answer" /\ answer = "none"
  OBVIOUS
<1>2. ClaimAs(h, place, answer) /\ place # "owner" /\ UNCHANGED faults
  BY <1>1 DEF AnswerRun
<1> QED
  BY <1>2, ClaimKeeps

LEMMA ReconcileRunStep ==
  ASSUME RInv, IInv', NEW h \in Holders, ReconcileRun(h)
  PROVE  RInv'
<1>1. PICK place \in {"continue", "answer", "owner"} : place = "owner"
  OBVIOUS
<1>2. PICK a \in Seqs :
        /\ Unresolved(Run, a)
        /\ ClaimAs(h, place, IF Happened(attCkpt[Run][a]) THEN "succeeded" ELSE "failed")
  BY <1>1 DEF ReconcileRun
<1>3. PICK answer \in {"succeeded", "failed"} :
        answer = IF Happened(attCkpt[Run][a]) THEN "succeeded" ELSE "failed"
  BY Zenon
<1>4. answer = "succeeded" <=> Happened(attCkpt[Run][a])
  BY <1>3
<1>5. /\ ClaimAs(h, place, answer) /\ NoneSent /\ UNCHANGED faults
      /\ answer \in {"none", "succeeded", "failed"} /\ answer # "none"
  BY <1>2, <1>3 DEF ReconcileRun, NoneSent
<1> QED
  BY <1>2, <1>4, <1>5, ClaimKeeps

-----------------------------------------------------------------------------
(* A receipt for an outcome that was unknown.                              *)

LEMMA HolderStays ==
  ASSUME LeaseSame, NEW h \in Holders, Holds(h), Moves(h), pass'[h].tok = pass[h].tok
  PROVE  Holds(h)' /\ \A g \in Holders \ {h} : ~Holds(g)'
  BY DEF LeaseSame, Holds, Fenced, Moves

LEMMA ReceiptKeeps ==
  ASSUME RInv, IInv', NEW h \in Holders, NEW a \in Seqs, NEW outcome \in {"succeeded", "failed"},
         ResolveWorkflowEffect(Run, h, pass[h].tok, a, outcome), Moves(h),
         pass'[h].tok = pass[h].tok, pass'[h].pc \in {"advance", "release"},
         UNCHANGED provider, UNCHANGED faults, pass[h].pc \in {"resolve", "owner"},
         outcome = "succeeded" => Happened(attCkpt[Run][a]),
         Undisturbed /\ outcome = "failed" => ~Happened(attCkpt[Run][a])
  PROVE  RInv'
<1>1. Core /\ RuntimeTypeOK /\ TypeOK
  BY DEF RInv, Core, IInv
<1>2. /\ Holds(h) /\ LeaseSame /\ effect[Run][a] = "unknown"
      /\ ckpt'[Run] = ckpt[Run] /\ attCkpt'[Run] = attCkpt[Run] /\ attState'[Run] = attState[Run]
      /\ \A b \in Seqs : effect'[Run][b] = IF b = a THEN outcome ELSE effect[Run][b]
      /\ state[Run] # "succeeded" /\ state'[Run] # "succeeded"
  BY <1>1, Bounds DEF ResolveWorkflowEffect, InsertReceipt, TypeOK, Holds, LeaseSame, leaseVars,
     attemptVars
<1>3. Kept /\ deadline' = deadline /\ deadline' \in [Seqs -> 0..Latency]
  BY <1>1, ProviderKept
<1>4. Ending /\ Grows /\ AnswersKept
  BY <1>2, <1>3 DEF Ending, Grows, AnswersKept, Kept
<1>5. Holds(h)' /\ \A g \in Holders \ {h} : ~Holds(g)'
  BY <1>2, HolderStays
<1>6. StepsOK'
  BY <1>1, <1>2, <1>3 DEF Core, StepsOK, Kept, StepKind
<1>7. AttemptsOK' /\ EffectsOK' /\ IdempotentOK' /\ RetriesAreBounded'
  <2>1. ckpt'[Run] >= ckpt[Run]
    BY <1>1, <1>2, Rows, Bounds DEF Checkpoints
  <2>2. \A b \in Seqs : effect'[Run][b] = "succeeded" => Happened(attCkpt[Run][b])
    BY <1>1, <1>2 DEF Core, EffectsOK
  <2>3. \A c \in EffectSteps : c < ckpt'[Run] => Happened(c)
    BY <1>1, <1>2 DEF Core, EffectsOK
  <2>4. \A b \in Seqs : ~(attState[Run][b] = "running" /\ attState'[Run][b] \in {"succeeded", "failed"})
    BY <1>2
  <2> QED
    BY <1>1, <1>2, <1>3, <1>4, <2>1, <2>2, <2>3, <2>4, EndingKeepsRows DEF Kept
<1>8. PICK q : q = pass'[h]
  OBVIOUS
<1>9. q.pc \in Plain /\ q.pc \notin Sending /\ q.pc \notin Quiet /\ q.pc \notin {"check", "send"}
  BY <1>8 DEF Plain, Places, Sending, Quiet
<1>10. PassOK(q)' /\ DecisionOK(q)'
  BY <1>9, PlainIsOK
<1>11. SendersDiffer'
  BY <1>1, <1>8, <1>9, SendersStay DEF Core
<1>12. Core'
  BY <1>1, <1>3, <1>4, <1>5, <1>6, <1>7, <1>8, <1>10, <1>11, ChangeKeepsCore DEF Kept, RuntimeTypeOK
<1>13. ASSUME Undisturbed
       PROVE  /\ \A g \in Holders \ {h} : pass[g].pc = "idle"
              /\ (pass'[h].pc # "idle" => Holds(h)' /\ left'[Run] >= LeaseTicks - 1)
              /\ JourneyOK' /\ FailedIsFailed'
              /\ PendingIsSent(q)' /\ QuietOK(q)'
  <2>1. LeaseKept /\ FailedIsFailed /\ PendingIsSent(pass[h]) /\ QuietOK(pass[h])
    BY <1>13 DEF RInv, Calm
  <2>2. pass[h].pc \in Quiet /\ pass[h].pc \notin Sending \cup {"idle"} /\ pass[h].pc # "idle"
    BY DEF Quiet, Sending
  <2>3. \A b \in Seqs : request[b] # "sent" /\ effect[Run][b] # "pending"
    BY <2>1, <2>2 DEF QuietOK, PendingIsSent
  <2>4. JourneyOK'
    BY <1>3, <2>3 DEF JourneyOK, Kept
  <2>5. outcome = "failed" => request[a] # "performed"
    <3>1. attState[Run][a] # "none"
      BY <1>1, <1>2, Bounds DEF Core, IInv, IntentHasAttempt
    <3> QED
      BY <1>13, <3>1 DEF Happened, Made
  <2>6. FailedIsFailed'
    BY <1>2, <1>3, <2>1, <2>3, <2>5 DEF FailedIsFailed, Kept
  <2>7. PendingIsSent(q)'
    BY <1>2, <1>9, <2>3 DEF PendingIsSent
  <2>8. QuietOK(q)'
    BY <1>9, NotQuiet
  <2>9. left'[Run] >= LeaseTicks - 1
    BY <1>2, <2>1, <2>2 DEF LeaseKept, LeaseSame
  <2> QED
    BY <1>5, <2>1, <2>2, <2>4, <2>6, <2>7, <2>8, <2>9, OthersIdle
<1>14. Calm'
  BY <1>3, <1>8, <1>13, CalmParts DEF Kept
<1> QED
  BY <1>12, <1>14 DEF RInv

LEMMA ResolveStep ==
  ASSUME RInv, IInv', NEW h \in Holders, Resolve(h)
  PROVE  RInv'
<1>1. /\ pass[h].pc = "resolve" /\ Loop(h, FALSE) /\ UNCHANGED provider /\ UNCHANGED faults
      /\ RuntimeTypeOK /\ PassOK(pass[h])
      /\ ResolveWorkflowEffect(Run, h, pass[h].tok, pass[h].doing, pass[h].answer)
  BY DEF Resolve, At, RInv, Core
<1>2. PICK a, outcome : a = pass[h].doing /\ outcome = pass[h].answer
  OBVIOUS
<1>3. /\ a \in Seqs /\ outcome \in {"succeeded", "failed"}
      /\ outcome = "succeeded" => Happened(attCkpt[Run][a])
  BY <1>1, <1>2 DEF PassOK
<1>4. Undisturbed /\ outcome = "failed" => ~Happened(attCkpt[Run][a])
  BY <1>1, <1>2 DEF RInv, Calm, QuietOK
<1>5. Moves(h) /\ pass'[h].tok = pass[h].tok /\ pass'[h].pc \in {"advance", "release"}
  BY <1>1, LoopFacts DEF Moves
<1> QED
  BY <1>1, <1>2, <1>3, <1>4, <1>5, ReceiptKeeps

(* The owner's receipt.                                                    *)
LEMMA ReconcileClaimedStep ==
  ASSUME RInv, IInv', NEW h \in Holders, ReconcileClaimed(h)
  PROVE  RInv'
<1>1. /\ pass[h].pc = "owner" /\ UNCHANGED provider /\ UNCHANGED faults
      /\ RuntimeTypeOK /\ PassOK(pass[h])
  BY DEF ReconcileClaimed, At, RInv, Core
<1>2. PICK outcome, place : place = "release" /\ outcome = pass[h].answer
  OBVIOUS
<1>3. PICK a \in Seqs : ResolveWorkflowEffect(Run, h, pass[h].tok, a, outcome)
  BY <1>2 DEF ReconcileClaimed
<1>4. Goto(h, place) /\ place \in Places
  BY <1>2 DEF ReconcileClaimed, Places
<1>5. Moves(h) /\ pass'[h].tok = pass[h].tok /\ pass'[h].pc \in {"advance", "release"}
  BY <1>1, <1>2, <1>4, GotoFacts DEF Moves
<1>6. outcome \in {"succeeded", "failed"}
  BY <1>1, <1>2 DEF PassOK
<1>7. effect[Run][a] = "unknown" /\ Holds(h)
  BY <1>3 DEF ResolveWorkflowEffect, Holds
<1>8. outcome = "succeeded" => Happened(attCkpt[Run][a])
  BY <1>1, <1>2, <1>7 DEF RInv, Core, DecisionOK
<1>9. Undisturbed /\ outcome = "failed" => ~Happened(attCkpt[Run][a])
  BY <1>1, <1>2, <1>7 DEF RInv, Calm, QuietOK
<1> QED
  BY <1>1, <1>3, <1>5, <1>6, <1>8, <1>9, ReceiptKeeps

-----------------------------------------------------------------------------
(* The end of an attempt.                                                  *)

LEMMA EndedKeeps ==
  ASSUME RInv, IInv', NEW h \in Holders, Moves(h), pass'[h].tok = pass[h].tok,
         pass'[h].pc = "advance", pass[h].pc # "idle", UNCHANGED provider, UNCHANGED faults,
         Holds(h), LeaseSame, Ending, StepsOK', ckpt'[Run] >= ckpt[Run],
         \A b \in Seqs : attState'[Run][b] # "running",
         \A b \in Seqs : /\ attState[Run][b] = "running" /\ attState'[Run][b] \in {"succeeded", "failed"}
                         /\ attCkpt[Run][b] \in DOMAIN StepKind
                         /\ StepKind[attCkpt[Run][b]] = "interrupt"
                         => attCkpt[Run][b] < ckpt'[Run],
         \A b \in Seqs : effect'[Run][b] = "succeeded" => Happened(attCkpt[Run][b]),
         \A c \in EffectSteps : c < ckpt'[Run] => Happened(c),
         Undisturbed => /\ JourneyOK' /\ FailedIsFailed'
                        /\ \A b \in Seqs : effect'[Run][b] # "pending"
  PROVE  RInv'
<1>1. Core /\ RuntimeTypeOK
  BY DEF RInv, Core
<1>2. Kept /\ deadline' = deadline /\ deadline' \in [Seqs -> 0..Latency]
  BY <1>1, ProviderKept
<1>3. Grows /\ AnswersKept
  BY <1>2 DEF Ending, Grows, AnswersKept, Kept
<1>4. Holds(h)' /\ \A g \in Holders \ {h} : ~Holds(g)'
  BY HolderStays
<1>5. AttemptsOK' /\ EffectsOK' /\ IdempotentOK' /\ RetriesAreBounded'
  BY <1>1, <1>2, EndingKeepsRows DEF Kept
<1>6. PICK q : q = pass'[h]
  OBVIOUS
<1>7. q.pc \in Plain /\ q.pc \notin Sending /\ q.pc \notin Quiet /\ q.pc \notin {"check", "send"}
  BY <1>6 DEF Plain, Places, Sending, Quiet
<1>8. PassOK(q)' /\ DecisionOK(q)'
  BY <1>7, PlainIsOK
<1>9. SendersDiffer'
  BY <1>1, <1>6, <1>7, SendersStay DEF Core
<1>10. Core'
  BY <1>1, <1>2, <1>3, <1>4, <1>5, <1>6, <1>8, <1>9, ChangeKeepsCore DEF Kept, RuntimeTypeOK
<1>11. ASSUME Undisturbed
       PROVE  /\ \A g \in Holders \ {h} : pass[g].pc = "idle"
              /\ (pass'[h].pc # "idle" => Holds(h)' /\ left'[Run] >= LeaseTicks - 1)
              /\ PendingIsSent(q)' /\ QuietOK(q)'
  <2>1. LeaseKept
    BY <1>11 DEF RInv, Calm
  <2>2. PendingIsSent(q)'
    BY <1>7, <1>11 DEF PendingIsSent
  <2>3. QuietOK(q)'
    BY <1>7, NotQuiet
  <2>4. left'[Run] >= LeaseTicks - 1
    BY <2>1 DEF LeaseKept, LeaseSame
  <2> QED
    BY <1>4, <2>1, <2>2, <2>3, <2>4, OthersIdle
<1>12. Calm'
  BY <1>2, <1>6, <1>11, CalmParts DEF Kept
<1> QED
  BY <1>10, <1>12 DEF RInv

LEMMA FinishRows ==
  ASSUME Core, NEW a \in Seqs, NEW e \in AttemptEnds, NEW t, NEW d, FinishAttempt(Run, t, a, e, d)
  PROVE  /\ attState[Run][a] = "running" /\ attCkpt[Run][a] = ckpt[Run]
         /\ attCkpt'[Run] = attCkpt[Run]
         /\ \A b \in Seqs : attState'[Run][b] =
              IF b = a THEN (IF e \in SucceededEnds THEN "succeeded" ELSE "failed") ELSE attState[Run][b]
         /\ \A b \in Seqs : attState[Run][b] = "running" => b = a
         /\ ckpt'[Run] = IF e \in SucceededEnds THEN ckpt[Run] + 1 ELSE ckpt[Run]
         /\ state[Run] \in {"running", "cancelling"}
         /\ state'[Run] = "succeeded" <=> e = "finish"
<1>1. TypeOK /\ InFlightIsCurrent /\ Run \in Runs
  BY Bounds DEF Core, IInv
<1>2. attState[Run][a] = "running" /\ attCkpt[Run][a] = ckpt[Run]
  BY DEF FinishAttempt, MayEnd
<1>3. state[Run] \in {"running", "cancelling"} /\ \A b \in Seqs : attState[Run][b] = "running" => b = a
  BY <1>1, <1>2 DEF InFlightIsCurrent
<1>4. attCkpt'[Run] = attCkpt[Run]
  BY DEF FinishAttempt
<1>5. \A b \in Seqs : attState'[Run][b] =
        IF b = a THEN (IF e \in SucceededEnds THEN "succeeded" ELSE "failed") ELSE attState[Run][b]
  BY <1>1 DEF FinishAttempt, TypeOK
<1>6. ckpt'[Run] = IF e \in SucceededEnds THEN ckpt[Run] + 1 ELSE ckpt[Run]
  BY <1>1 DEF FinishAttempt, TypeOK
<1>7. state'[Run] = StateAfter(Run, e)
  BY <1>1 DEF FinishAttempt, TypeOK
<1>8. StateAfter(Run, e) = "succeeded" <=> e = "finish"
  BY <1>3 DEF StateAfter, AttemptEnds
<1> QED
  BY <1>2, <1>3, <1>4, <1>5, <1>6, <1>7, <1>8

(* The steps of a definition are numbered without gaps.                    *)
LEMMA StepsAre ==
  ASSUME Core
  PROVE  \E n \in Nat \ {0} : DOMAIN StepKind = 0 .. (n - 1)
<1>1. PICK n \in 1..MaxCheckpoint :
        setting.steps \in [0..(n - 1) -> {"deterministic", "read", "effect", "interrupt"}]
  BY RuntimeAssumption DEF Core, RuntimeTypeOK
<1>2. n \in Nat \ {0}
  BY Bounds
<1>3. DOMAIN StepKind = 0 .. (n - 1)
  <2>1. PICK f, S, T : f = StepKind /\ S = 0 .. (n - 1) /\ T = {"deterministic", "read", "effect", "interrupt"}
    OBVIOUS
  <2>2. f \in [S -> T]
    BY <1>1, <2>1 DEF StepKind
  <2>3. DOMAIN f = S
    BY <2>2
  <2> QED
    BY <2>1, <2>3
<1> QED
  BY <1>2, <1>3

(* A successful end moves the run to the next step, or finishes it.        *)
LEMMA SuccessSteps ==
  ASSUME Core, setting' = setting, ckpt[Run] \in DOMAIN StepKind, ckpt'[Run] = ckpt[Run] + 1,
         state'[Run] = "succeeded" <=> SuccessEnd(ckpt[Run]) = "finish"
  PROVE  StepsOK'
<1>1. StepKind' = StepKind
  BY DEF StepKind
<1>2. PICK n \in Nat \ {0} : DOMAIN StepKind = 0 .. (n - 1)
  BY StepsAre
<1>3. CASE ckpt[Run] + 1 \in DOMAIN StepKind
  BY <1>1, <1>3 DEF SuccessEnd, StepsOK
<1>4. CASE ckpt[Run] + 1 \notin DOMAIN StepKind
  <2>1. state'[Run] = "succeeded"
    BY <1>4 DEF SuccessEnd
  <2>2. \A c \in DOMAIN StepKind : c < ckpt'[Run]
    BY <1>2, <1>4
  <2> QED
    BY <1>1, <2>1, <2>2 DEF StepsOK
<1> QED
  BY <1>3, <1>4

LEMMA StepsBefore ==
  ASSUME Core, Happened(ckpt[Run]) \/ ckpt[Run] \notin EffectSteps, ckpt'[Run] = ckpt[Run] + 1
  PROVE  \A c \in EffectSteps : c < ckpt'[Run] => Happened(c)
<1>1. PICK n \in Nat \ {0} : DOMAIN StepKind = 0 .. (n - 1)
  BY StepsAre
<1>2. ckpt[Run] \in Nat /\ EffectSteps \subseteq Nat
  BY <1>1, Rows, Bounds DEF EffectSteps, Core, IInv, Checkpoints
<1>3. \A c \in EffectSteps : c < ckpt[Run] => Happened(c)
  BY DEF Core, EffectsOK
<1>4. ASSUME NEW c \in EffectSteps, c < ckpt'[Run] PROVE Happened(c)
  <2>1. c < ckpt[Run] \/ c = ckpt[Run]
    BY <1>2, <1>4
  <2> QED
    BY <1>3, <2>1
<1> QED
  BY <1>4

LEMMA RunNodeStep ==
  ASSUME RInv, IInv', NEW h \in Holders, RunNode(h)
  PROVE  RInv'
<1>1. /\ pass[h].pc = "run" /\ Loop(h, FALSE) /\ UNCHANGED provider /\ UNCHANGED faults
      /\ Core /\ RuntimeTypeOK /\ TypeOK /\ PassOK(pass[h]) /\ setting' = setting /\ request' = request
  BY DEF RunNode, At, RInv, Core, IInv, provider
<1>2. PICK a, c, t : a = pass[h].doing /\ c = pass[h].at /\ t = pass[h].tok
  OBVIOUS
<1>3. /\ a \in Seqs /\ attState[Run][a] # "none" /\ attCkpt[Run][a] = c /\ c \in DOMAIN StepKind
      /\ StepKind[c] = "effect" => Happened(c)
  BY <1>1, <1>2 DEF PassOK
<1>4. Moves(h) /\ pass'[h].tok = pass[h].tok /\ pass'[h].pc = "advance" /\ pass[h].pc # "idle"
  BY <1>1, LoopFacts DEF Moves
<1>5. PICK good, bad \in AttemptEnds : good = SuccessEnd(c) /\ bad = FailureEnd(Cardinality(Attempts(c)))
  BY DEF AttemptEnds, SuccessEnd, FailureEnd
<1>6. good \in SucceededEnds /\ bad \notin SucceededEnds /\ bad # "finish"
  BY <1>5 DEF SucceededEnds, SuccessEnd, FailureEnd
<1>7. \A x \in AttemptEnds : FinishWorkflowAttempt(Run, h, t, a, x, Backoff) =>
        /\ FinishAttempt(Run, t, a, x, Backoff) /\ Holds(h) /\ LeaseSame
        /\ effect'[Run] = effect[Run] /\ ~Unresolved(Run, a)
  BY <1>2 DEF FinishWorkflowAttempt, Holds, LeaseSame, leaseVars, effectVars
<1>8. ASSUME effect'[Run] = effect[Run], ~Unresolved(Run, a), attState[Run][a] = "running"
      PROVE  Undisturbed => /\ JourneyOK' /\ FailedIsFailed'
                            /\ \A b \in Seqs : effect'[Run][b] # "pending"
  <2>1. \A b \in Seqs : ~Unresolved(Run, b)
    BY <1>1, <1>3, <1>8, Bounds DEF Core, IInv, UnresolvedEffectBlocks, InFlightIsCurrent, InFlight,
       Unresolved
  <2>2. Undisturbed => JourneyOK /\ FailedIsFailed
    BY DEF RInv, Calm
  <2>3. Undisturbed => JourneyOK'
    BY <1>1, <2>1, <2>2 DEF JourneyOK
  <2>4. Undisturbed => FailedIsFailed'
    BY <1>1, <1>8, <2>2 DEF FailedIsFailed
  <2> QED
    BY <1>8, <2>1, <2>3, <2>4 DEF Unresolved
<1>9. \A b \in Seqs : effect[Run][b] = "succeeded" => Happened(attCkpt[Run][b])
  BY <1>1 DEF Core, EffectsOK
<1>10. \A x \in EffectSteps : x < ckpt[Run] => Happened(x)
  BY <1>1 DEF Core, EffectsOK
<1>11. ckpt[Run] \in Nat
  BY <1>1, Rows, Bounds DEF Checkpoints
<1>12. CASE FinishWorkflowAttempt(Run, h, t, a, good, Backoff)
  <2>1. /\ FinishAttempt(Run, t, a, good, Backoff) /\ Holds(h) /\ LeaseSame
        /\ effect'[Run] = effect[Run] /\ ~Unresolved(Run, a)
    BY <1>5, <1>7, <1>12
  <2>2. /\ attState[Run][a] = "running" /\ attCkpt[Run][a] = ckpt[Run]
        /\ attCkpt'[Run] = attCkpt[Run]
        /\ \A b \in Seqs : attState'[Run][b] = IF b = a THEN "succeeded" ELSE attState[Run][b]
        /\ \A b \in Seqs : attState[Run][b] = "running" => b = a
        /\ ckpt'[Run] = ckpt[Run] + 1
        /\ state'[Run] = "succeeded" <=> good = "finish"
    BY <1>1, <1>3, <1>5, <1>6, <2>1, FinishRows
  <2>3. Ending /\ \A b \in Seqs : attState'[Run][b] # "running"
    BY <2>1, <2>2 DEF Ending
  <2>4. StepsOK'
    BY <1>1, <1>3, <1>5, <2>2, SuccessSteps
  <2>5. \A x \in EffectSteps : x < ckpt'[Run] => Happened(x)
    BY <1>1, <1>3, <2>2, StepsBefore DEF EffectSteps
  <2>6. ckpt'[Run] >= ckpt[Run] /\ \A b \in Seqs : attState[Run][b] = "running" => attCkpt[Run][b] < ckpt'[Run]
    BY <1>11, <2>2
  <2> QED
    BY <1>1, <1>4, <1>8, <1>9, <2>1, <2>2, <2>3, <2>4, <2>5, <2>6, EndedKeeps
<1>13. CASE StepKind[c] \in {"deterministic", "read"} /\ FinishWorkflowAttempt(Run, h, t, a, bad, Backoff)
  <2>1. /\ FinishAttempt(Run, t, a, bad, Backoff) /\ Holds(h) /\ LeaseSame
        /\ effect'[Run] = effect[Run] /\ ~Unresolved(Run, a)
    BY <1>5, <1>7, <1>13
  <2>2. /\ attState[Run][a] = "running" /\ attCkpt[Run][a] = ckpt[Run]
        /\ attCkpt'[Run] = attCkpt[Run]
        /\ \A b \in Seqs : attState'[Run][b] = IF b = a THEN "failed" ELSE attState[Run][b]
        /\ \A b \in Seqs : attState[Run][b] = "running" => b = a
        /\ ckpt'[Run] = ckpt[Run] /\ state'[Run] # "succeeded"
    BY <1>1, <1>3, <1>5, <1>6, <2>1, FinishRows
  <2>3. Ending /\ \A b \in Seqs : attState'[Run][b] # "running"
    BY <2>1, <2>2 DEF Ending
  <2>4. StepsOK'
    BY <1>1, <1>3, <2>2 DEF StepsOK, StepKind
  <2>5. \A b \in Seqs : attState[Run][b] = "running" => StepKind[attCkpt[Run][b]] # "interrupt"
    BY <1>3, <1>13, <2>2
  <2>6. ckpt'[Run] >= ckpt[Run]
    BY <1>11, <2>2
  <2> QED
    BY <1>1, <1>4, <1>8, <1>9, <1>10, <2>1, <2>2, <2>3, <2>4, <2>5, <2>6, EndedKeeps
<1>14. CASE InterruptWorkflowAttempt(Run, h, t, a)
  <2>1. /\ Holds(h) /\ LeaseSame /\ effect'[Run] = effect[Run] /\ ~Unresolved(Run, a)
        /\ attState[Run][a] = "running" /\ attCkpt'[Run] = attCkpt[Run]
        /\ \A b \in Seqs : attState'[Run][b] = IF b = a THEN "interrupted" ELSE attState[Run][b]
        /\ ckpt'[Run] = ckpt[Run] /\ state'[Run] = state[Run]
    BY <1>1, <1>2, <1>3, <1>14, Bounds DEF InterruptWorkflowAttempt, Holds, LeaseSame, leaseVars, effectVars, TypeOK
  <2>2. \A b \in Seqs : attState[Run][b] = "running" => b = a
    BY <1>1, <1>3, <2>1, Bounds DEF Core, IInv, InFlightIsCurrent
  <2>3. Ending /\ \A b \in Seqs : attState'[Run][b] # "running"
    BY <2>1, <2>2 DEF Ending
  <2>4. StepsOK'
    BY <1>1, <2>1 DEF Core, StepsOK, StepKind
  <2>5. \A b \in Seqs : ~(attState[Run][b] = "running" /\ attState'[Run][b] \in {"succeeded", "failed"})
    BY <2>1, <2>2
  <2>6. ckpt'[Run] >= ckpt[Run]
    BY <1>11, <2>1
  <2> QED
    BY <1>1, <1>4, <1>8, <1>9, <1>10, <2>1, <2>3, <2>4, <2>5, <2>6, EndedKeeps
<1> QED
  BY <1>2, <1>5, <1>12, <1>13, <1>14 DEF RunNode


(* The answer of the provider is recorded.                                 *)
LEMMA OnlyUnresolved ==
  ASSUME Core, NEW a \in Seqs, Unresolved(Run, a)
  PROVE  \A b \in Seqs : Unresolved(Run, b) => b = a
  BY Bounds DEF Core, IInv, UnresolvedEffectBlocks

LEMMA AnsweredHappened ==
  ASSUME Core, NEW a \in Seqs, attState[Run][a] # "none", request[a] \in {"performed", "repeated"}
  PROVE  Happened(attCkpt[Run][a])
<1>1. CASE request[a] = "performed"
  BY <1>1 DEF Happened, Made
<1>2. CASE request[a] = "repeated"
  BY <1>2 DEF Core, EffectsOK
<1> QED
  BY <1>1, <1>2

LEMMA FinishEffectRows ==
  ASSUME Core, NEW h \in Holders, NEW a \in Seqs, NEW e \in AttemptEnds, NEW t, t = pass[h].tok,
         FinishWorkflowEffect(Run, h, t, a, e, Backoff)
  PROVE  /\ FinishAttempt(Run, t, a, e, Backoff) /\ Holds(h) /\ LeaseSame /\ effect[Run][a] = "pending"
         /\ \A b \in Seqs : effect'[Run][b] =
              IF b = a THEN (IF e \in SucceededEnds THEN "succeeded" ELSE "failed") ELSE effect[Run][b]
<1>1. TypeOK /\ Run \in Runs
  BY Bounds DEF Core, IInv
<1> QED
  BY <1>1 DEF FinishWorkflowEffect, InsertReceipt, TypeOK, Holds, LeaseSame, leaseVars

LEMMA MarkUnknownRows ==
  ASSUME Core, NEW h \in Holders, NEW a \in Seqs, NEW t, t = pass[h].tok,
         MarkWorkflowEffectUnknown(Run, h, t, a, EffectTimeout)
  PROVE  /\ Holds(h) /\ LeaseSame /\ effect[Run][a] = "pending" /\ attState[Run][a] = "running"
         /\ attCkpt'[Run] = attCkpt[Run] /\ ckpt'[Run] = ckpt[Run] /\ state'[Run] # "succeeded"
         /\ \A b \in Seqs : attState'[Run][b] = IF b = a THEN "failed" ELSE attState[Run][b]
         /\ \A b \in Seqs : effect'[Run][b] = IF b = a THEN "unknown" ELSE effect[Run][b]
         /\ notBefore'[Run] \in {EffectTimeout, NoTime}
<1>1. TypeOK /\ Run \in Runs
  BY Bounds DEF Core, IInv
<1>2. Holds(h) /\ LeaseSame /\ effect[Run][a] = "pending" /\ attState[Run][a] = "running"
      /\ attCkpt'[Run] = attCkpt[Run] /\ ckpt'[Run] = ckpt[Run]
  BY DEF MarkWorkflowEffectUnknown, Holds, LeaseSame, leaseVars, MayEnd
<1>3. \A b \in Seqs : attState'[Run][b] = IF b = a THEN "failed" ELSE attState[Run][b]
  BY <1>1 DEF MarkWorkflowEffectUnknown, TypeOK
<1>4. MarkUnknown(Run, {a}, EffectTimeout)
  BY DEF MarkWorkflowEffectUnknown
<1>5. \A b \in Seqs : effect'[Run][b] = IF b = a THEN "unknown" ELSE effect[Run][b]
  BY <1>1, <1>4 DEF MarkUnknown, TypeOK
<1>6. state'[Run] # "succeeded" /\ notBefore'[Run] \in {EffectTimeout, NoTime}
  BY <1>1, <1>4 DEF MarkUnknown, TypeOK
<1> QED
  BY <1>2, <1>3, <1>5, <1>6

LEMMA RecordStep ==
  ASSUME RInv, IInv', NEW h \in Holders, Record(h)
  PROVE  RInv'
<1>1. /\ pass[h].pc = "record" /\ UNCHANGED provider /\ UNCHANGED faults
      /\ Core /\ RuntimeTypeOK /\ TypeOK /\ PassOK(pass[h])
      /\ setting' = setting /\ request' = request /\ deadline' = deadline
  BY DEF Record, At, RInv, Core, IInv, provider
<1>2. PICK a, c, t, answer :
        a = pass[h].doing /\ c = pass[h].at /\ t = pass[h].tok /\ answer = pass[h].answer
  OBVIOUS
<1>3. /\ a \in Seqs /\ attState[Run][a] # "none" /\ attCkpt[Run][a] = c
      /\ c \in DOMAIN StepKind /\ StepKind[c] = "effect"
      /\ answer = "happened" => request[a] \in {"performed", "repeated"}
      /\ answer = "refused" => request[a] = "refused"
  BY <1>1, <1>2 DEF PassOK, Sending
<1>4. Moves(h) /\ pass'[h].tok = pass[h].tok /\ pass'[h].pc = "advance" /\ pass[h].pc # "idle"
  <2>1. PICK s \in BOOLEAN : s = (answer = "unknown")
    OBVIOUS
  <2>2. Loop(h, s)
    BY <1>2, <2>1 DEF Record
  <2> QED
    BY <1>1, <2>2, LoopFacts DEF Moves
<1>5. PICK good, bad \in AttemptEnds : good = SuccessEnd(c) /\ bad = FailureEnd(Cardinality(Intents(c)))
  BY DEF AttemptEnds, SuccessEnd, FailureEnd
<1>6. good \in SucceededEnds /\ bad \notin SucceededEnds /\ bad # "finish"
  BY <1>5 DEF SucceededEnds, SuccessEnd, FailureEnd
<1>7. Undisturbed => JourneyOK /\ FailedIsFailed
  BY DEF RInv, Calm
<1>8. \A b \in Seqs : effect[Run][b] = "succeeded" => Happened(attCkpt[Run][b])
  BY <1>1 DEF Core, EffectsOK
<1>9. \A x \in EffectSteps : x < ckpt[Run] => Happened(x)
  BY <1>1 DEF Core, EffectsOK
<1>10. ckpt[Run] \in Nat
  BY <1>1, Rows, Bounds DEF Checkpoints
<1>11. effect[Run][a] = "pending" => \A b \in Seqs : Unresolved(Run, b) => b = a
  BY <1>1, <1>3, OnlyUnresolved DEF Unresolved
<1>12. CASE answer = "happened" /\ FinishWorkflowEffect(Run, h, t, a, good, Backoff)
  <2>1. /\ FinishAttempt(Run, t, a, good, Backoff) /\ Holds(h) /\ LeaseSame /\ effect[Run][a] = "pending"
        /\ \A b \in Seqs : effect'[Run][b] = IF b = a THEN "succeeded" ELSE effect[Run][b]
    BY <1>1, <1>2, <1>3, <1>5, <1>6, <1>12, FinishEffectRows
  <2>2. /\ attState[Run][a] = "running" /\ attCkpt[Run][a] = ckpt[Run]
        /\ attCkpt'[Run] = attCkpt[Run]
        /\ \A b \in Seqs : attState'[Run][b] = IF b = a THEN "succeeded" ELSE attState[Run][b]
        /\ \A b \in Seqs : attState[Run][b] = "running" => b = a
        /\ ckpt'[Run] = ckpt[Run] + 1
        /\ state'[Run] = "succeeded" <=> good = "finish"
    BY <1>1, <1>3, <1>5, <1>6, <2>1, FinishRows
  <2>3. Ending /\ \A b \in Seqs : attState'[Run][b] # "running"
    BY <2>1, <2>2 DEF Ending
  <2>4. StepsOK'
    BY <1>1, <1>3, <1>5, <2>2, SuccessSteps
  <2>5. Happened(ckpt[Run])
    <3>1. Happened(attCkpt[Run][a])
      BY <1>1, <1>3, <1>12, AnsweredHappened
    <3> QED
      BY <2>2, <3>1
  <2>6. \A x \in EffectSteps : x < ckpt'[Run] => Happened(x)
    BY <1>1, <2>2, <2>5, StepsBefore
  <2>7. ckpt'[Run] >= ckpt[Run] /\ \A b \in Seqs : attState[Run][b] = "running" => attCkpt[Run][b] < ckpt'[Run]
    BY <1>10, <2>2
  <2>8. \A b \in Seqs : effect'[Run][b] = "succeeded" => Happened(attCkpt[Run][b])
    BY <1>8, <2>1, <2>2, <2>5
  <2>9. \A b \in Seqs : effect'[Run][b] # "pending"
    BY <1>11, <2>1 DEF Unresolved
  <2>10. Undisturbed => JourneyOK' /\ FailedIsFailed'
    <3>1. Undisturbed => NoneSent
      BY <1>3, <1>7, <1>11, <1>12, <2>1 DEF JourneyOK, NoneSent
    <3>2. Undisturbed => JourneyOK'
      BY <1>1, <3>1 DEF JourneyOK, NoneSent
    <3>3. Undisturbed => FailedIsFailed'
      BY <1>1, <1>7, <2>1 DEF FailedIsFailed
    <3> QED
      BY <3>2, <3>3
  <2> QED
    BY <1>1, <1>4, <2>1, <2>3, <2>4, <2>6, <2>7, <2>8, <2>9, <2>10, EndedKeeps
<1>13. CASE answer = "refused" /\ FinishWorkflowEffect(Run, h, t, a, bad, Backoff)
  <2>1. /\ FinishAttempt(Run, t, a, bad, Backoff) /\ Holds(h) /\ LeaseSame /\ effect[Run][a] = "pending"
        /\ \A b \in Seqs : effect'[Run][b] = IF b = a THEN "failed" ELSE effect[Run][b]
    BY <1>1, <1>2, <1>3, <1>5, <1>6, <1>13, FinishEffectRows
  <2>2. /\ attState[Run][a] = "running" /\ attCkpt[Run][a] = ckpt[Run]
        /\ attCkpt'[Run] = attCkpt[Run]
        /\ \A b \in Seqs : attState'[Run][b] = IF b = a THEN "failed" ELSE attState[Run][b]
        /\ \A b \in Seqs : attState[Run][b] = "running" => b = a
        /\ ckpt'[Run] = ckpt[Run] /\ state'[Run] # "succeeded"
    BY <1>1, <1>3, <1>5, <1>6, <2>1, FinishRows
  <2>3. Ending /\ \A b \in Seqs : attState'[Run][b] # "running"
    BY <2>1, <2>2 DEF Ending
  <2>4. StepsOK'
    BY <1>1, <1>3, <2>2 DEF StepsOK, StepKind
  <2>5. \A b \in Seqs : attState[Run][b] = "running" => StepKind[attCkpt[Run][b]] # "interrupt"
    BY <1>3, <2>2
  <2>6. ckpt'[Run] >= ckpt[Run]
    BY <1>10, <2>2
  <2>7. \A b \in Seqs : effect'[Run][b] = "succeeded" => Happened(attCkpt[Run][b])
    BY <1>8, <2>1
  <2>8. \A x \in EffectSteps : x < ckpt'[Run] => Happened(x)
    BY <1>9, <2>2
  <2>9. \A b \in Seqs : effect'[Run][b] # "pending"
    BY <1>11, <2>1 DEF Unresolved
  <2>10. Undisturbed => JourneyOK' /\ FailedIsFailed'
    <3>1. Undisturbed => NoneSent
      BY <1>3, <1>7, <1>11, <1>13, <2>1 DEF JourneyOK, NoneSent
    <3>2. Undisturbed => JourneyOK'
      BY <1>1, <3>1 DEF JourneyOK, NoneSent
    <3>3. Undisturbed => FailedIsFailed'
      BY <1>1, <1>3, <1>7, <1>13, <2>1 DEF FailedIsFailed
    <3> QED
      BY <3>2, <3>3
  <2> QED
    BY <1>1, <1>4, <2>1, <2>3, <2>4, <2>5, <2>6, <2>7, <2>8, <2>9, <2>10, EndedKeeps
<1>14. CASE answer = "unknown" /\ MarkWorkflowEffectUnknown(Run, h, t, a, EffectTimeout)
  <2>1. /\ Holds(h) /\ LeaseSame /\ effect[Run][a] = "pending" /\ attState[Run][a] = "running"
        /\ attCkpt'[Run] = attCkpt[Run] /\ ckpt'[Run] = ckpt[Run] /\ state'[Run] # "succeeded"
        /\ \A b \in Seqs : attState'[Run][b] = IF b = a THEN "failed" ELSE attState[Run][b]
        /\ \A b \in Seqs : effect'[Run][b] = IF b = a THEN "unknown" ELSE effect[Run][b]
        /\ notBefore'[Run] \in {EffectTimeout, NoTime}
    BY <1>1, <1>2, <1>3, <1>14, MarkUnknownRows
  <2>2. ckpt[Run] = c /\ \A b \in Seqs : attState[Run][b] = "running" => b = a
    BY <1>1, <1>3, <2>1, Bounds DEF Core, IInv, InFlightIsCurrent
  <2>3. Ending /\ \A b \in Seqs : attState'[Run][b] # "running"
    BY <2>1, <2>2 DEF Ending
  <2>4. StepsOK'
    BY <1>1, <1>3, <2>1, <2>2 DEF StepsOK, StepKind
  <2>5. \A b \in Seqs : attState[Run][b] = "running" => StepKind[attCkpt[Run][b]] # "interrupt"
    BY <1>3, <2>2
  <2>6. ckpt'[Run] >= ckpt[Run]
    BY <1>10, <2>1
  <2>7. \A b \in Seqs : effect'[Run][b] = "succeeded" => Happened(attCkpt[Run][b])
    BY <1>8, <2>1
  <2>8. \A x \in EffectSteps : x < ckpt'[Run] => Happened(x)
    BY <1>9, <2>1
  <2>9. \A b \in Seqs : effect'[Run][b] # "pending"
    BY <1>11, <2>1 DEF Unresolved
  <2>10. ASSUME Undisturbed PROVE JourneyOK' /\ FailedIsFailed'
    <3>1. ASSUME NEW b \in Seqs, request'[b] = "sent"
          PROVE  /\ effect'[Run][b] = "unknown"
                 /\ notBefore'[Run] = NoTime \/ deadline'[b] < notBefore'[Run]
      <4>1. b = a
        BY <1>1, <1>7, <1>11, <2>1, <2>10, <3>1 DEF JourneyOK
      <4>2. deadline[a] \in 0..Latency /\ Latency < EffectTimeout /\ EffectTimeout \in Nat
        BY <1>1, <1>3, <2>10, Bounds DEF RuntimeTypeOK, Undisturbed, Prompt
      <4> QED
        BY <1>1, <1>3, <2>1, <4>1, <4>2, Bounds
    <3>2. JourneyOK'
      BY <3>1 DEF JourneyOK, Unresolved
    <3>3. FailedIsFailed'
      BY <1>1, <1>7, <2>1, <2>10 DEF FailedIsFailed
    <3> QED
      BY <3>2, <3>3
  <2> QED
    BY <1>1, <1>4, <2>1, <2>3, <2>4, <2>5, <2>6, <2>7, <2>8, <2>9, <2>10, EndedKeeps
<1> QED
  BY <1>2, <1>5, <1>12, <1>13, <1>14 DEF Record

-----------------------------------------------------------------------------
(* An attempt begins, with an intent or without.                           *)

(* Attempt a of the current step begins; e is what becomes of its intent.  *)
Starting(a, e) ==
  /\ state[Run] \in {"queued", "running"} /\ state'[Run] = "running"
  /\ ckpt'[Run] = ckpt[Run]
  /\ \A b \in Seqs : attState[Run][b] # "running" /\ ~Unresolved(Run, b)
  /\ attState[Run][a] = "none" /\ effect[Run][a] = "none" /\ request[a] = "unsent"
  /\ \A b \in Seqs : attState[Run][b] # "none" <=> b < a
  /\ \A b \in Seqs : attState'[Run][b] = IF b = a THEN "running" ELSE attState[Run][b]
  /\ \A b \in Seqs : attCkpt'[Run][b] = IF b = a THEN ckpt[Run] ELSE attCkpt[Run][b]
  /\ \A b \in Seqs : effect'[Run][b] = IF b = a THEN e ELSE effect[Run][b]

LEMMA StartRows ==
  ASSUME Core, NEW a \in Seqs, NEW t, NEW c, NEW e, BeginAttempt(Run, t, c, a), UNCHANGED ckpt,
         \A b \in Seqs : effect'[Run][b] = IF b = a THEN e ELSE effect[Run][b]
  PROVE  Starting(a, e) /\ c = ckpt[Run]
<1>1. TypeOK /\ Run \in Runs /\ AttemptsOK /\ EffectsOK /\ IntentHasAttempt
  BY Bounds DEF Core, IInv
<1>2. /\ state[Run] \in {"queued", "running"} /\ state'[Run] = "running" /\ c = ckpt[Run]
      /\ ckpt'[Run] = ckpt[Run]
  BY <1>1 DEF BeginAttempt, TypeOK
<1>3. \A b \in Seqs : attState[Run][b] # "running" /\ ~Unresolved(Run, b)
  BY DEF BeginAttempt, InFlight, EffectsResolved
<1>4. attState[Run][a] = "none" /\ \A b \in Seqs : b < a => attState[Run][b] # "none"
  BY DEF BeginAttempt, NextSeq
<1>5. effect[Run][a] = "none"
  BY <1>1, <1>4 DEF IntentHasAttempt
<1>6. request[a] = "unsent"
  BY <1>1, <1>5 DEF EffectsOK
<1>7. ASSUME NEW b \in Seqs, attState[Run][b] # "none" PROVE b < a
  <2>1. b # a /\ ~(a < b)
    BY <1>1, <1>4, <1>7 DEF AttemptsOK
  <2> QED
    BY <2>1, Bounds DEF Seqs
<1>8. \A b \in Seqs : attState'[Run][b] = IF b = a THEN "running" ELSE attState[Run][b]
  BY <1>1 DEF BeginAttempt, TypeOK
<1>9. \A b \in Seqs : attCkpt'[Run][b] = IF b = a THEN ckpt[Run] ELSE attCkpt[Run][b]
  BY <1>1, <1>2 DEF BeginAttempt, TypeOK
<1> QED
  BY <1>2, <1>3, <1>4, <1>5, <1>6, <1>7, <1>8, <1>9 DEF Starting

LEMMA StartSets ==
  ASSUME NEW a \in Seqs, NEW e \in {"none", "pending"}, Starting(a, e), NEW c
  PROVE  /\ Made(c)' = IF c = ckpt[Run] THEN Made(c) \cup {a} ELSE Made(c)
         /\ Attempts(c)' = IF c = ckpt[Run] THEN Attempts(c) \cup {a} ELSE Attempts(c)
         /\ Intents(c)' = IF c = ckpt[Run] /\ e = "pending" THEN Intents(c) \cup {a} ELSE Intents(c)
         /\ SafelyInterrupted(c)' = SafelyInterrupted(c)
<1>1. a \notin Made(c)
  BY DEF Made, Starting
<1>2. Made(c)' = IF c = ckpt[Run] THEN Made(c) \cup {a} ELSE Made(c)
  BY DEF Made, Starting
<1>3. Attempts(c)' = IF c = ckpt[Run] THEN Attempts(c) \cup {a} ELSE Attempts(c)
  BY DEF Made, Attempts, Starting
<1>4. Intents(c)' = IF c = ckpt[Run] /\ e = "pending" THEN Intents(c) \cup {a} ELSE Intents(c)
  BY DEF Made, Intents, Starting
<1>5. SafelyInterrupted(c)' = SafelyInterrupted(c)
  BY DEF Made, SafelyInterrupted, Starting
<1> QED
  BY <1>2, <1>3, <1>4, <1>5

LEMMA OneMore ==
  ASSUME NEW S, S \subseteq Seqs, NEW a \in Seqs, Cardinality(S) < StepAttempts
  PROVE  Cardinality(S \cup {a}) <= StepAttempts
<1>1. IsFiniteSet(S) /\ Cardinality(S) \in Nat /\ StepAttempts \in Nat
  BY SeqsFinite, Bounds
<1>2. Cardinality(S \cup {a}) = IF a \in S THEN Cardinality(S) ELSE Cardinality(S) + 1
  BY <1>1, FS_AddElement
<1> QED
  BY <1>1, <1>2

LEMMA StartIsBounded ==
  ASSUME Core, NEW a \in Seqs, NEW e \in {"none", "pending"}, Starting(a, e), setting' = setting,
         ckpt[Run] \in DOMAIN StepKind,
         e = "none" /\ StepKind[ckpt[Run]] # "effect" => Cardinality(Attempts(ckpt[Run])) < StepAttempts,
         e = "pending" => /\ StepKind[ckpt[Run]] = "effect"
                          /\ Cardinality(Intents(ckpt[Run])) < StepAttempts
  PROVE  RetriesAreBounded'
<1>1. StepKind' = StepKind
  BY DEF StepKind
<1>2. SUFFICES ASSUME NEW c \in DOMAIN StepKind
               PROVE  /\ StepKind[c] = "effect" => Cardinality(Intents(c)') <= StepAttempts
                      /\ StepKind[c] # "effect" => Cardinality(Attempts(c)') <= StepAttempts
                      /\ Cardinality(SafelyInterrupted(c)') <= Interruptions
  BY <1>1 DEF RetriesAreBounded
<1>3. /\ StepKind[c] = "effect" => Cardinality(Intents(c)) <= StepAttempts
      /\ StepKind[c] # "effect" => Cardinality(Attempts(c)) <= StepAttempts
      /\ Cardinality(SafelyInterrupted(c)) <= Interruptions
  BY DEF Core, RetriesAreBounded
<1>4. Cardinality(SafelyInterrupted(c)') <= Interruptions
  BY <1>3, StartSets
<1>5. ASSUME StepKind[c] = "effect" PROVE Cardinality(Intents(c)') <= StepAttempts
  <2>1. CASE c = ckpt[Run] /\ e = "pending"
    <3>1. Intents(c)' = Intents(c) \cup {a} /\ Cardinality(Intents(c)) < StepAttempts
      BY <2>1, StartSets
    <3>2. PICK S : S = Intents(c)
      OBVIOUS
    <3>3. Cardinality(S \cup {a}) <= StepAttempts
      BY <3>1, <3>2, CountsAre, OneMore
    <3> QED
      BY <3>1, <3>2, <3>3
  <2>2. CASE ~(c = ckpt[Run] /\ e = "pending")
    BY <1>3, <1>5, <2>2, StartSets
  <2> QED
    BY <2>1, <2>2
<1>6. ASSUME StepKind[c] # "effect" PROVE Cardinality(Attempts(c)') <= StepAttempts
  <2>1. CASE c = ckpt[Run]
    <3>1. Attempts(c)' = Attempts(c) \cup {a} /\ Cardinality(Attempts(c)) < StepAttempts
      BY <1>6, <2>1, StartSets
    <3>2. PICK S : S = Attempts(c)
      OBVIOUS
    <3>3. Cardinality(S \cup {a}) <= StepAttempts
      BY <3>1, <3>2, CountsAre, OneMore
    <3> QED
      BY <3>1, <3>2, <3>3
  <2>2. CASE c # ckpt[Run]
    BY <1>3, <1>6, <2>2, StartSets
  <2> QED
    BY <2>1, <2>2
<1> QED
  BY <1>4, <1>5, <1>6

LEMMA StartKeepsAttempts ==
  ASSUME Core, NEW a \in Seqs, NEW e \in {"none", "pending"}, Starting(a, e), setting' = setting,
         e = "none" => Cardinality(SafelyInterrupted(ckpt[Run])) < Interruptions
  PROVE  AttemptsOK'
<1>1. StepKind' = StepKind
  BY DEF StepKind
<1>2. AttemptsOK /\ ckpt[Run] \in Nat
  BY Rows, Bounds DEF Core, IInv, Checkpoints
<1>3. \A b \in Seqs : attState'[Run][b] # "none" => attCkpt'[Run][b] <= ckpt'[Run]
  BY <1>2 DEF AttemptsOK, Starting
<1>4. \A x, b \in Seqs : x < b /\ attState'[Run][b] # "none" => attState'[Run][x] # "none"
  BY <1>2 DEF AttemptsOK, Starting
<1>5. \A b \in Seqs : /\ attState'[Run][b] \in {"succeeded", "failed"}
                      /\ attCkpt'[Run][b] \in DOMAIN StepKind
                      /\ StepKind[attCkpt'[Run][b]] = "interrupt"
                      => attCkpt'[Run][b] < ckpt'[Run]
  BY <1>2 DEF AttemptsOK, Starting
<1>6. ASSUME NEW b \in Seqs, attState'[Run][b] = "running", effect'[Run][b] = "none"
      PROVE  Cardinality(SafelyInterrupted(attCkpt[Run][b]))' < Interruptions
  <2>1. b = a /\ e = "none" /\ attCkpt'[Run][b] = ckpt[Run]
    BY <1>6 DEF Starting
  <2>2. PICK c : c = attCkpt'[Run][b] /\ c = ckpt[Run]
    BY <2>1
  <2>3. Cardinality(SafelyInterrupted(c)') < Interruptions
    BY <2>1, <2>2, StartSets
  <2> QED
    BY <2>2, <2>3 DEF SafelyInterrupted, Made
<1> QED
  BY <1>1, <1>3, <1>4, <1>5, <1>6 DEF AttemptsOK

LEMMA StartGrows ==
  ASSUME NEW a \in Seqs, NEW e \in {"none", "pending"}, Starting(a, e), request' = request
  PROVE  Grows /\ AnswersKept
  BY DEF Starting, Grows, AnswersKept

LEMMA StartKeepsEffects ==
  ASSUME Core, NEW a \in Seqs, NEW e \in {"none", "pending"}, Starting(a, e), setting' = setting,
         request' = request,
         e = "pending" => \A b \in Intents(ckpt[Run]) : effect[Run][b] = "failed"
  PROVE  EffectsOK' /\ IdempotentOK'
<1>1. EffectSteps' = EffectSteps /\ EffectsOK /\ IdempotentOK
  BY DEF StepKind, EffectSteps, Core
<1>2. \A b \in Seqs : effect[Run][b] # "none" => attState[Run][b] # "none"
  BY Bounds DEF Core, IInv, IntentHasAttempt
<1>3. \A c : Happened(c) => Happened(c)'
  BY StartGrows, HappenedGrows
<1>4. \A b \in Seqs : request'[b] # "unsent" => effect'[Run][b] # "none"
  BY <1>1 DEF EffectsOK, Starting
<1>5. ASSUME NEW b \in Seqs, effect'[Run][b] = "succeeded" \/ request'[b] = "repeated"
      PROVE  Happened(attCkpt[Run][b])'
  <2>1. b # a /\ (effect[Run][b] = "succeeded" \/ request[b] = "repeated")
    BY <1>5 DEF Starting
  <2>2. PICK c : c = attCkpt[Run][b] /\ c = attCkpt'[Run][b]
    BY <2>1 DEF Starting
  <2>3. Happened(c)
    BY <1>1, <2>1, <2>2 DEF EffectsOK
  <2>4. Happened(c)'
    BY <1>3, <2>3
  <2> QED
    BY <2>2, <2>4 DEF Happened, Made
<1>6. \A c \in EffectSteps : c < ckpt'[Run] => Happened(c)'
  BY <1>1, <1>3 DEF EffectsOK, Starting
<1>7. ASSUME NEW x \in Seqs, NEW b \in Seqs, effect'[Run][x] # "none", effect'[Run][b] # "none",
             attCkpt'[Run][x] = attCkpt'[Run][b], x < b
      PROVE  effect'[Run][x] = "failed"
  <2>1. CASE b = a
    <3>1. x # a /\ effect[Run][x] # "none" /\ attCkpt[Run][x] = ckpt[Run] /\ e = "pending"
      BY <1>7, <2>1, Bounds DEF Starting, Seqs
    <3>2. x \in Intents(ckpt[Run])
      BY <1>2, <3>1 DEF Intents, Made
    <3> QED
      BY <3>1, <3>2 DEF Starting
  <2>2. CASE b # a
    <3>1. effect[Run][b] # "none" /\ b < a /\ x # a
      BY <1>2, <1>7, <2>2, Bounds DEF Starting, Seqs
    <3> QED
      BY <1>1, <1>7, <2>2, <3>1 DEF EffectsOK, Starting
  <2> QED
    BY <2>1, <2>2
<1>8. IdempotentOK'
  BY <1>1 DEF IdempotentOK, Starting
<1> QED
  BY <1>1, <1>4, <1>5, <1>6, <1>7, <1>8 DEF EffectsOK

LEMMA BeginningKeeps ==
  ASSUME RInv, IInv', NEW h \in Holders, NEW a \in Seqs, NEW e \in {"none", "pending"},
         Starting(a, e), Holds(h), LeaseSame, UNCHANGED provider, UNCHANGED faults, Moves(h),
         pass'[h].tok = pass[h].tok, pass[h].at = ckpt[Run], pass'[h].at = ckpt[Run], pass'[h].doing = a,
         e = "none" => pass[h].pc = "begin" /\ pass'[h].pc = "run",
         e = "pending" => pass[h].pc = "effect" /\ pass'[h].pc = "check"
  PROVE  RInv'
<1>1. Core /\ RuntimeTypeOK /\ PassOK(pass[h]) /\ DecisionOK(pass[h])
  BY DEF RInv, Core
<1>2. Kept /\ deadline' = deadline /\ deadline' \in [Seqs -> 0..Latency]
  BY <1>1, ProviderKept
<1>3. setting' = setting /\ request' = request /\ StepKind' = StepKind
  BY <1>2 DEF Kept, StepKind
<1>4. Grows /\ AnswersKept /\ \A c : Happened(c) => Happened(c)'
  BY <1>3, StartGrows, HappenedGrows
<1>5. Holds(h)' /\ \A g \in Holders \ {h} : ~Holds(g)'
  BY HolderStays
<1>6. /\ ckpt[Run] \in DOMAIN StepKind
      /\ e = "none" /\ StepKind[ckpt[Run]] = "effect" => Happened(ckpt[Run])
      /\ e = "pending" => StepKind[ckpt[Run]] = "effect"
  BY <1>1 DEF PassOK
<1>7. /\ e = "none" => /\ Cardinality(SafelyInterrupted(ckpt[Run])) < Interruptions
                       /\ StepKind[ckpt[Run]] # "effect" => Cardinality(Attempts(ckpt[Run])) < StepAttempts
      /\ e = "pending" => /\ \A b \in Intents(ckpt[Run]) : effect[Run][b] = "failed"
                          /\ Cardinality(Intents(ckpt[Run])) < StepAttempts
  BY <1>1 DEF DecisionOK
<1>8. AttemptsOK' /\ EffectsOK' /\ IdempotentOK' /\ RetriesAreBounded'
  BY <1>1, <1>3, <1>6, <1>7, StartKeepsAttempts, StartKeepsEffects, StartIsBounded
<1>9. StepsOK'
  BY <1>3, <1>6 DEF StepsOK, Starting
<1>10. PICK q : q = pass'[h]
  OBVIOUS
<1>11. q.doing = a /\ q.at = ckpt[Run] /\ ((q.pc = "run" /\ e = "none") \/ (q.pc = "check" /\ e = "pending"))
  BY <1>10
<1>12. /\ attState'[Run][a] = "running" /\ attCkpt'[Run][a] = ckpt[Run] /\ effect'[Run][a] = e
       /\ request'[a] = "unsent"
  BY <1>3 DEF Starting
<1>13. PassOK(q)'
  <2>1. CASE q.pc = "run" /\ e = "none"
    <3>1. StepKind[q.at] = "effect" => Happened(q.at)'
      BY <1>4, <1>6, <1>11, <2>1
    <3> QED
      BY <1>3, <1>6, <1>11, <1>12, <2>1, <3>1 DEF PassOK, Sending
  <2>2. CASE q.pc = "check" /\ e = "pending"
    BY <1>3, <1>6, <1>11, <1>12, <2>2 DEF PassOK, Sending
  <2> QED
    BY <1>11, <2>1, <2>2
<1>14. DecisionOK(q)'
  BY <1>11 DEF DecisionOK
<1>15. SendersDiffer'
  <2>1. ASSUME NEW g \in Holders \ {h}, pass'[g].pc \in {"check", "send"} PROVE pass'[g].doing # a
    <3>1. pass'[g] = pass[g] /\ PassOK(pass[g])
      BY <1>1 DEF Moves, Core
    <3>2. effect[Run][pass[g].doing] # "none"
      BY <2>1, <3>1 DEF PassOK, Sending
    <3> QED
      BY <3>1, <3>2 DEF Starting
  <2>2. SendersDiffer
    BY <1>1 DEF Core
  <2> QED
    BY <1>10, <1>11, <2>1, <2>2 DEF SendersDiffer, Moves
<1>16. Core'
  BY <1>1, <1>2, <1>3, <1>4, <1>5, <1>8, <1>9, <1>10, <1>13, <1>14, <1>15, ChangeKeepsCore
     DEF Kept, RuntimeTypeOK
<1>17. ASSUME Undisturbed
       PROVE  /\ \A g \in Holders \ {h} : pass[g].pc = "idle"
              /\ (pass'[h].pc # "idle" => Holds(h)' /\ left'[Run] >= LeaseTicks - 1)
              /\ JourneyOK' /\ FailedIsFailed'
              /\ PendingIsSent(q)' /\ QuietOK(q)'
  <2>1. LeaseKept /\ JourneyOK /\ FailedIsFailed /\ PendingIsSent(pass[h])
    BY <1>17 DEF RInv, Calm
  <2>2. pass[h].pc # "idle" /\ pass[h].pc \notin Sending
    BY DEF Sending
  <2>3. JourneyOK'
    BY <1>3, <2>1 DEF JourneyOK, Starting
  <2>4. FailedIsFailed'
    BY <1>3, <2>1 DEF FailedIsFailed, Starting
  <2>5. PendingIsSent(q)'
    BY <1>11, <1>12, <2>1, <2>2 DEF PendingIsSent, Sending, Starting
  <2>6. q.pc \notin Quiet
    BY <1>11 DEF Quiet
  <2>7. QuietOK(q)'
    BY <2>6, NotQuiet
  <2>8. left'[Run] >= LeaseTicks - 1
    BY <2>1, <2>2 DEF LeaseKept, LeaseSame
  <2> QED
    BY <1>5, <2>1, <2>2, <2>3, <2>4, <2>5, <2>7, <2>8, OthersIdle
<1>18. Calm'
  BY <1>3, <1>10, <1>17, CalmParts
<1> QED
  BY <1>16, <1>18 DEF RInv

LEMMA BeginStep ==
  ASSUME RInv, IInv', NEW h \in Holders, Begin(h)
  PROVE  RInv'
<1>1. /\ pass[h].pc = "begin" /\ UNCHANGED provider /\ UNCHANGED faults
      /\ Core /\ RuntimeTypeOK
  BY DEF Begin, At, RInv, Core
<1>2. PICK a \in Seqs :
        /\ BeginWorkflowAttempt(Run, h, pass[h].tok, pass[h].at, a)
        /\ pass' = [pass EXCEPT ![h].pc = "run", ![h].doing = a]
  BY DEF Begin
<1>3. PICK e, t, c, place : e = "none" /\ t = pass[h].tok /\ c = pass[h].at /\ place = "run"
  OBVIOUS
<1>4. /\ Holds(h) /\ LeaseSame /\ BeginAttempt(Run, t, c, a) /\ UNCHANGED ckpt
      /\ effect'[Run] = effect[Run]
  BY <1>2, <1>3 DEF BeginWorkflowAttempt, Holds, LeaseSame, leaseVars, effectVars
<1>5. \A b \in Seqs : effect'[Run][b] = IF b = a THEN e ELSE effect[Run][b]
  <2>1. effect[Run][a] = "none"
    BY <1>1, <1>4, Bounds DEF Core, IInv, IntentHasAttempt, BeginAttempt, NextSeq
  <2> QED
    BY <1>3, <1>4, <2>1
<1>6. Starting(a, e) /\ c = ckpt[Run]
  BY <1>1, <1>4, <1>5, StartRows
<1>7. place \in Places /\ pass' = [pass EXCEPT ![h].pc = place, ![h].doing = a]
  BY <1>2, <1>3 DEF Places
<1>8. /\ pass' \in [Holders -> Passes]
      /\ pass'[h].pc = place /\ pass'[h].tok = pass[h].tok /\ pass'[h].at = pass[h].at
      /\ pass'[h].doing = a
      /\ \A g \in Holders \ {h} : pass'[g] = pass[g]
  BY <1>1, <1>7, DoingFacts
<1>9. Moves(h)
  BY <1>8 DEF Moves
<1> QED
  BY <1>1, <1>3, <1>4, <1>6, <1>8, <1>9, BeginningKeeps

(* The intent before the call; a run at its limit of calls fails.          *)
LEMMA EffectStep ==
  ASSUME RInv, IInv', NEW h \in Holders, Effect(h)
  PROVE  RInv'
<1>1. /\ pass[h].pc = "effect" /\ UNCHANGED provider /\ UNCHANGED faults
      /\ Core /\ RuntimeTypeOK /\ TypeOK
  BY DEF Effect, At, RInv, Core, IInv
<1>2. CASE \E a \in Seqs, ks \in (SUBSET Keys) \ {{}} :
             /\ BeginWorkflowEffect(Run, h, pass[h].tok, pass[h].at, a, setting.reconciler, ks)
             /\ pass' = [pass EXCEPT ![h].pc = "check", ![h].doing = a]
  <2>1. PICK a \in Seqs, ks \in SUBSET Keys :
          /\ BeginWorkflowEffect(Run, h, pass[h].tok, pass[h].at, a, setting.reconciler, ks)
          /\ pass' = [pass EXCEPT ![h].pc = "check", ![h].doing = a]
    BY <1>2
  <2>2. PICK e, t, c, place : e = "pending" /\ t = pass[h].tok /\ c = pass[h].at /\ place = "check"
    OBVIOUS
  <2>3. Holds(h) /\ LeaseSame /\ BeginAttempt(Run, t, c, a) /\ UNCHANGED ckpt
    BY <2>1, <2>2 DEF BeginWorkflowEffect, Holds, LeaseSame, leaseVars
  <2>4. \A b \in Seqs : effect'[Run][b] = IF b = a THEN e ELSE effect[Run][b]
    BY <1>1, <2>1, <2>2, Bounds DEF BeginWorkflowEffect, TypeOK
  <2>5. Starting(a, e) /\ c = ckpt[Run]
    BY <1>1, <2>3, <2>4, StartRows
  <2>6. place \in Places /\ pass' = [pass EXCEPT ![h].pc = place, ![h].doing = a]
    BY <2>1, <2>2 DEF Places
  <2>7. /\ pass' \in [Holders -> Passes]
        /\ pass'[h].pc = place /\ pass'[h].tok = pass[h].tok /\ pass'[h].at = pass[h].at
        /\ pass'[h].doing = a
        /\ \A g \in Holders \ {h} : pass'[g] = pass[g]
    BY <1>1, <2>6, DoingFacts
  <2>8. Moves(h)
    BY <2>7 DEF Moves
  <2> QED
    BY <1>1, <2>2, <2>3, <2>5, <2>7, <2>8, BeginningKeeps
<1>3. CASE Goto(h, "fail") /\ UNCHANGED vars
  <2>1. PICK place : place = "fail"
    OBVIOUS
  <2>2. place \in Places /\ place \in Plain /\ place \notin {"reconcile", "defer"}
        /\ pass[h].pc \notin Sending \cup {"idle"}
    BY <1>1, <2>1 DEF Places, Plain, Sending
  <2>3. Moves(h) /\ pass'[h].pc = place /\ pass'[h].tok = pass[h].tok
    BY <1>1, <1>3, <2>1, <2>2, GotoFacts DEF Moves
  <2> QED
    BY <1>1, <1>3, <2>2, <2>3, VarsKept, PlainStep
<1> QED
  BY <1>2, <1>3 DEF Effect

-----------------------------------------------------------------------------
(* Between a pass and the provider: the rows stay as they are.             *)

LEMMA DecisionGrows ==
  ASSUME RowsKept, AnswersKept, setting' = setting, NEW p, DecisionOK(p)
  PROVE  DecisionOK(p)'
<1>1. StepKind' = StepKind
  BY DEF StepKind
<1>2. Grows
  BY DEF RowsKept, Grows
<1>3. \A c : Happened(c) => Happened(c)'
  BY <1>2, HappenedGrows
<1>4. p.pc = "effect" => /\ \A b \in Intents(p.at)' : effect'[Run][b] = "failed"
                         /\ Cardinality(Intents(p.at)') < StepAttempts
  BY SetsKept DEF DecisionOK, RowsKept
<1>5. p.pc = "begin" => /\ Cardinality(SafelyInterrupted(p.at)') < Interruptions
                        /\ StepKind[p.at] # "effect" => Cardinality(Attempts(p.at)') < StepAttempts
  BY SetsKept DEF DecisionOK
<1>6. ASSUME p.pc = "owner", p.answer = "succeeded", NEW b \in Seqs, effect'[Run][b] = "unknown"
      PROVE  Happened(attCkpt[Run][b])'
  <2>1. PICK c : c = attCkpt[Run][b] /\ c = attCkpt'[Run][b]
    BY DEF RowsKept
  <2>2. Happened(c)
    BY <1>6, <2>1 DEF DecisionOK, RowsKept
  <2>3. Happened(c)'
    BY <1>3, <2>2
  <2> QED
    BY <2>1, <2>3 DEF Happened, Made
<1> QED
  BY <1>1, <1>4, <1>5, <1>6 DEF DecisionOK

LEMMA ProviderKeepsCore ==
  ASSUME Core, IInv', UNCHANGED vars, setting' = setting, faults' = faults,
         pass' \in [Holders -> Passes],
         request' \in [Seqs -> {"unsent", "sent", "performed", "repeated", "refused", "lost"}],
         deadline' \in [Seqs -> 0..Latency], AnswersKept,
         \A g \in Holders : \/ /\ pass'[g] = pass[g]
                               /\ pass[g].pc \in {"check", "send"} =>
                                    request'[pass[g].doing] = request[pass[g].doing]
                            \/ PassOK(pass[g])' /\ DecisionOK(pass[g])'
                               /\ pass'[g].pc \notin {"check", "send"},
         \A g \in Holders : pass'[g].tok = pass[g].tok,
         \A b \in Seqs : request'[b] # "unsent" => effect[Run][b] # "none",
         \A b \in Seqs : request'[b] = "repeated" => Happened(attCkpt[Run][b]),
         IdempotentOK'
  PROVE  Core'
<1>1. RowsKept /\ LeaseSame
  BY VarsKept
<1>2. RuntimeTypeOK'
  BY DEF Core, RuntimeTypeOK, Passes
<1>3. Grows
  BY <1>1 DEF RowsKept, Grows
<1>4. \A c : Happened(c) => Happened(c)'
  BY <1>3, HappenedGrows
<1>5. StepKind' = StepKind /\ EffectSteps' = EffectSteps
  BY DEF StepKind, EffectSteps
<1>6. ASSUME NEW g \in Holders PROVE PassOK(pass[g])' /\ (Holds(g)' => DecisionOK(pass[g])')
  <2>1. CASE pass'[g] = pass[g] /\ (pass[g].pc \in {"check", "send"} =>
                                      request'[pass[g].doing] = request[pass[g].doing])
    <3>1. PICK p : p = pass[g]
      OBVIOUS
    <3>2. PassOK(p) /\ (Holds(g) => DecisionOK(p)) /\ pass'[g] = p
      BY <2>1, <3>1 DEF Core
    <3>3. PassOK(p)'
      BY <1>3, <2>1, <3>1, <3>2, PassGrows
    <3>4. Holds(g)' => Holds(g)
      BY <1>1 DEF LeaseSame, Holds, Fenced
    <3>5. Holds(g)' => DecisionOK(p)'
      BY <1>1, <3>2, <3>4, DecisionGrows
    <3> QED
      BY <3>2, <3>3, <3>5
  <2>2. CASE PassOK(pass[g])' /\ DecisionOK(pass[g])'
    BY <2>2
  <2> QED
    BY <2>1, <2>2
<1>7. SendersDiffer'
  <2>1. \A g \in Holders : pass'[g].pc \in {"check", "send"} => pass'[g] = pass[g]
    OBVIOUS
  <2> QED
    BY <2>1 DEF Core, SendersDiffer
<1>8. StepsOK'
  BY <1>1, <1>5 DEF Core, StepsOK, RowsKept
<1>9. AttemptsOK'
  BY <1>1, <1>5, SetsKept DEF Core, AttemptsOK, RowsKept
<1>10. RetriesAreBounded'
  BY <1>1, <1>5, SetsKept DEF Core, RetriesAreBounded
<1>11. EffectsOK'
  <2>1. ASSUME NEW b \in Seqs, effect'[Run][b] = "succeeded" \/ request'[b] = "repeated"
        PROVE  Happened(attCkpt[Run][b])'
    <3>1. PICK c : c = attCkpt[Run][b] /\ c = attCkpt'[Run][b]
      BY <1>1 DEF RowsKept
    <3>2. Happened(c)
      BY <1>1, <2>1, <3>1 DEF Core, EffectsOK, RowsKept
    <3>3. Happened(c)'
      BY <1>4, <3>2
    <3> QED
      BY <3>1, <3>3 DEF Happened, Made
  <2>2. \A c \in EffectSteps : c < ckpt'[Run] => Happened(c)'
    BY <1>1, <1>4 DEF Core, EffectsOK, RowsKept
  <2> QED
    BY <1>1, <1>5, <2>1, <2>2 DEF Core, EffectsOK, RowsKept
<1> QED
  BY <1>2, <1>6, <1>7, <1>8, <1>9, <1>10, <1>11 DEF Core

LEMMA SendStep ==
  ASSUME RInv, IInv', NEW h \in Holders, Send(h)
  PROVE  RInv'
<1>1. /\ pass[h].pc = "send" /\ UNCHANGED vars /\ setting' = setting /\ faults' = faults
      /\ Core /\ RuntimeTypeOK /\ PassOK(pass[h])
  BY DEF Send, At, RInv, Core
<1>2. PICK a, place : a = pass[h].doing /\ place = "call"
  OBVIOUS
<1>3. /\ Goto(h, place) /\ place \in Places
      /\ request' = [request EXCEPT ![a] = "sent"] /\ deadline' = [deadline EXCEPT ![a] = Latency]
  BY <1>2 DEF Send, Places
<1>4. /\ a \in Seqs /\ effect[Run][a] # "none" /\ attState[Run][a] # "none" /\ request[a] = "unsent"
      /\ attCkpt[Run][a] = pass[h].at /\ pass[h].at \in DOMAIN StepKind /\ StepKind[pass[h].at] = "effect"
  BY <1>1, <1>2 DEF PassOK, Sending
<1>5. /\ Moves(h) /\ pass' \in [Holders -> Passes] /\ pass'[h].pc = place
      /\ pass'[h].tok = pass[h].tok /\ pass'[h].at = pass[h].at /\ pass'[h].doing = a
  BY <1>1, <1>2, <1>3, GotoFacts DEF Moves
<1>6. /\ \A b \in Seqs : request'[b] = IF b = a THEN "sent" ELSE request[b]
      /\ request' \in [Seqs -> {"unsent", "sent", "performed", "repeated", "refused", "lost"}]
      /\ \A b \in Seqs : deadline'[b] = IF b = a THEN Latency ELSE deadline[b]
      /\ deadline' \in [Seqs -> 0..Latency]
  BY <1>1, <1>3, <1>4, Bounds DEF RuntimeTypeOK
<1>7. RowsKept /\ LeaseSame /\ AnswersKept
  BY <1>1, <1>4, <1>6, VarsKept DEF AnswersKept
<1>8. PICK q : q = pass'[h]
  OBVIOUS
<1>9. q.pc = "call" /\ q.doing = a /\ q.at = pass[h].at
  BY <1>2, <1>5, <1>8
<1>10. PassOK(q)'
  BY <1>1, <1>4, <1>7, <1>9 DEF PassOK, Sending, RowsKept, StepKind
<1>11. DecisionOK(q)'
  BY <1>9 DEF DecisionOK
<1>12. ASSUME NEW g \in Holders \ {h}, pass[g].pc \in {"check", "send"} PROVE pass[g].doing # a
  BY <1>1, <1>2, <1>12 DEF Core, SendersDiffer
<1>13. ASSUME NEW g \in Holders, g # h, pass[g].pc \in {"check", "send"}
       PROVE  request'[pass[g].doing] = request[pass[g].doing]
  <2>1. pass[g].doing \in Seqs
    BY <1>1, <1>13 DEF Core, PassOK, Sending
  <2> QED
    BY <1>6, <1>12, <1>13, <2>1
<1>14. \A b \in Seqs : request'[b] # "unsent" => effect[Run][b] # "none"
  BY <1>1, <1>4, <1>6 DEF Core, EffectsOK
<1>15. \A b \in Seqs : request'[b] = "repeated" => Happened(attCkpt[Run][b])
  BY <1>1, <1>6 DEF Core, EffectsOK
<1>16. IdempotentOK'
  BY <1>1, <1>6, <1>7 DEF Core, IdempotentOK, RowsKept
<1>17. Core'
  <2>1. \A g \in Holders : \/ /\ pass'[g] = pass[g]
                              /\ pass[g].pc \in {"check", "send"} =>
                                   request'[pass[g].doing] = request[pass[g].doing]
                           \/ PassOK(pass[g])' /\ DecisionOK(pass[g])'
                              /\ pass'[g].pc \notin {"check", "send"}
    <3>1. ASSUME NEW g \in Holders
          PROVE  \/ /\ pass'[g] = pass[g]
                    /\ pass[g].pc \in {"check", "send"} =>
                         request'[pass[g].doing] = request[pass[g].doing]
                 \/ PassOK(pass[g])' /\ DecisionOK(pass[g])'
                    /\ pass'[g].pc \notin {"check", "send"}
      <4>1. CASE g = h
        BY <1>8, <1>9, <1>10, <1>11, <4>1
      <4>2. CASE g # h
        BY <1>5, <1>13, <4>2 DEF Moves
      <4> QED
        BY <4>1, <4>2
    <3> QED
      BY <3>1
  <2>2. \A g \in Holders : pass'[g].tok = pass[g].tok
    BY <1>5 DEF Moves
  <2> QED
    BY <1>1, <1>5, <1>6, <1>7, <1>14, <1>15, <1>16, <2>1, <2>2, ProviderKeepsCore
<1>18. ASSUME Undisturbed
       PROVE  /\ \A g \in Holders \ {h} : pass[g].pc = "idle"
              /\ (pass'[h].pc # "idle" => Holds(h)' /\ left'[Run] >= LeaseTicks - 1)
              /\ JourneyOK' /\ FailedIsFailed'
              /\ PendingIsSent(q)' /\ QuietOK(q)'
  <2>1. LeaseKept /\ JourneyOK /\ FailedIsFailed /\ PendingIsSent(pass[h])
    BY <1>18 DEF RInv, Calm
  <2>2. Holds(h) /\ left[Run] >= LeaseTicks - 1 /\ left[Run] \in Nat
    BY <1>1, <2>1, Rows, Bounds DEF LeaseKept, Core, IInv
  <2>3. effect[Run][a] = "pending"
    BY <1>1, <1>2, <2>1 DEF PendingIsSent, Sending
  <2>4. Latency < left[Run]
    BY <1>18, <2>2, Bounds DEF Undisturbed, Prompt
  <2>5. UNCHANGED <<notBefore, effect, left>>
    BY <1>1 DEF vars, leaseVars, effectVars
  <2>6. JourneyOK'
    BY <1>6, <2>1, <2>3, <2>4, <2>5 DEF JourneyOK, Unresolved
  <2>7. FailedIsFailed'
    BY <1>6, <2>1, <2>3, <2>5 DEF FailedIsFailed
  <2>8. PendingIsSent(q)'
    BY <1>9, <2>3, <2>5 DEF PendingIsSent, Sending
  <2>9. q.pc \notin Quiet
    BY <1>9 DEF Quiet
  <2>10. QuietOK(q)'
    BY <2>9, NotQuiet
  <2>11. Holds(h)'
    BY <1>5, <1>7, <2>2, HolderStays
  <2> QED
    BY <1>1, <2>1, <2>2, <2>5, <2>6, <2>7, <2>8, <2>10, <2>11, OthersIdle
<1>19. Calm'
  BY <1>1, <1>5, <1>8, <1>18, CalmParts
<1> QED
  BY <1>17, <1>19 DEF RInv

LEMMA ArriveStep ==
  ASSUME RInv, IInv', NEW a \in Seqs, Arrive(a)
  PROVE  RInv'
<1>1. /\ request[a] = "sent" /\ UNCHANGED vars /\ setting' = setting /\ faults' = faults
      /\ pass' = pass /\ Core /\ RuntimeTypeOK
  BY DEF Arrive, RInv, Core
<1>2. PICK fate \in {"performed", "repeated", "refused", "lost"} :
        /\ request' = [request EXCEPT ![a] = fate]
        /\ fate = "repeated" => Happened(attCkpt[Run][a])
        /\ fate = "performed" /\ setting.idempotent => ~Happened(attCkpt[Run][a])
  <2>1. PICK f \in {"performed", "refused", "lost"} :
          request' = [request EXCEPT ![a] =
            IF f = "performed" /\ setting.idempotent /\ Happened(attCkpt[Run][a])
            THEN "repeated" ELSE f]
    BY DEF Arrive
  <2>2. CASE f = "performed" /\ setting.idempotent /\ Happened(attCkpt[Run][a])
    BY <2>1, <2>2
  <2>3. CASE ~(f = "performed" /\ setting.idempotent /\ Happened(attCkpt[Run][a]))
    <3>1. request' = [request EXCEPT ![a] = f]
      BY <2>1, <2>3
    <3> QED
      BY <2>3, <3>1
  <2> QED
    BY <2>2, <2>3
<1>3. deadline' = [deadline EXCEPT ![a] = 0]
  BY DEF Arrive
<1>4. /\ \A b \in Seqs : request'[b] = IF b = a THEN fate ELSE request[b]
      /\ request' \in [Seqs -> {"unsent", "sent", "performed", "repeated", "refused", "lost"}]
      /\ \A b \in Seqs : b # a => deadline'[b] = deadline[b]
      /\ deadline' \in [Seqs -> 0..Latency]
  BY <1>1, <1>2, <1>3, Bounds DEF RuntimeTypeOK
<1>5. RowsKept /\ LeaseSame /\ AnswersKept
  BY <1>1, <1>4, VarsKept DEF AnswersKept
<1>6. pass' \in [Holders -> Passes]
  BY <1>1 DEF RuntimeTypeOK, Passes
<1>7. ASSUME NEW g \in Holders, pass[g].pc \in {"check", "send"}
      PROVE  request'[pass[g].doing] = request[pass[g].doing]
  <2>1. pass[g].doing \in Seqs /\ request[pass[g].doing] = "unsent"
    BY <1>1, <1>7 DEF Core, PassOK, Sending
  <2> QED
    BY <1>1, <1>4, <2>1
<1>8. \A b \in Seqs : request'[b] # "unsent" => effect[Run][b] # "none"
  BY <1>1, <1>4 DEF Core, EffectsOK
<1>9. \A b \in Seqs : request'[b] = "repeated" => Happened(attCkpt[Run][b])
  BY <1>1, <1>2, <1>4 DEF Core, EffectsOK
<1>10. IdempotentOK'
  <2>1. \A b \in Seqs : request[b] = "performed" => attState[Run][b] # "none"
    BY <1>1, Bounds DEF Core, EffectsOK, IInv, IntentHasAttempt
  <2>2. fate = "performed" /\ setting.idempotent =>
          \A b \in Seqs : request[b] = "performed" => attCkpt[Run][b] # attCkpt[Run][a]
    BY <1>2, <2>1 DEF Happened, Made
  <2> QED
    BY <1>1, <1>4, <1>5, <2>2 DEF Core, IdempotentOK, RowsKept
<1>11. Core'
  BY <1>1, <1>4, <1>5, <1>6, <1>7, <1>8, <1>9, <1>10, ProviderKeepsCore
<1>12. Calm'
  <2>1. Undisturbed' <=> Undisturbed
    BY <1>1 DEF Undisturbed, Prompt
  <2>2. SUFFICES ASSUME Undisturbed
                 PROVE  /\ LeaseKept' /\ JourneyOK' /\ FailedIsFailed'
                        /\ \A g \in Holders : PendingIsSent(pass[g])' /\ QuietOK(pass[g])'
    BY <2>1 DEF Calm
  <2>3. /\ LeaseKept /\ JourneyOK /\ FailedIsFailed
        /\ \A g \in Holders : PendingIsSent(pass[g]) /\ QuietOK(pass[g])
    BY <2>2 DEF RInv, Calm
  <2>4. UNCHANGED <<notBefore, effect, left>>
    BY <1>1 DEF vars, leaseVars, effectVars
  <2>5. LeaseKept'
    BY <1>1, <1>5, <2>3 DEF LeaseKept, LeaseSame, Holds, Fenced
  <2>6. JourneyOK'
    BY <1>2, <1>4, <2>3, <2>4 DEF JourneyOK, Unresolved
  <2>7. Unresolved(Run, a)
    BY <1>1, <2>3 DEF JourneyOK
  <2>8. FailedIsFailed'
    BY <1>4, <2>3, <2>4, <2>7 DEF FailedIsFailed, Unresolved
  <2>9. ASSUME NEW g \in Holders PROVE PendingIsSent(pass[g])' /\ QuietOK(pass[g])'
    <3>1. PICK p : p = pass[g] /\ p = pass'[g]
      BY <1>1
    <3>2. PendingIsSent(p) /\ QuietOK(p)
      BY <2>3, <3>1
    <3>3. PendingIsSent(p)'
      BY <2>4, <3>2 DEF PendingIsSent
    <3>4. p.pc \notin Quiet
      BY <1>1, <3>2 DEF QuietOK
    <3>5. QuietOK(p)'
      BY <3>4, NotQuiet
    <3> QED
      BY <3>1, <3>3, <3>5
  <2> QED
    BY <2>5, <2>6, <2>8, <2>9
<1> QED
  BY <1>11, <1>12 DEF RInv

-----------------------------------------------------------------------------
(* The invariant holds initially, and every step keeps it.                 *)

LEMMA RuntimeInitHolds ==
  ASSUME RuntimeInit
  PROVE  RInv
<1>1. IInv
  BY InitHolds DEF RuntimeInit
<1>2. /\ setting \in Settings /\ pass = [h \in Holders |-> Idle] /\ faults = 0
      /\ request = [a \in Seqs |-> "unsent"] /\ deadline = [a \in Seqs |-> 0]
  BY DEF RuntimeInit
<1>3. /\ ckpt[Run] = 0 /\ state[Run] = "absent"
      /\ \A a \in Seqs : attState[Run][a] = "none" /\ effect[Run][a] = "none"
  BY Bounds DEF RuntimeInit, Init
<1>4. \A h \in Holders : pass[h] = Idle /\ pass[h].pc = "idle"
  BY <1>2, IdleTypes
<1>5. RuntimeTypeOK
  <2>1. pass \in [Holders -> Passes]
    BY <1>2, IdleTypes
  <2> QED
    BY <1>2, <2>1, Bounds DEF RuntimeTypeOK, Passes
<1>6. ASSUME NEW h \in Holders
      PROVE  /\ PassOK(pass[h]) /\ DecisionOK(pass[h])
             /\ PendingIsSent(pass[h]) /\ QuietOK(pass[h])
  BY <1>4 DEF PassOK, DecisionOK, PendingIsSent, QuietOK, Sending, Quiet
<1>7. SendersDiffer
  BY <1>4 DEF SendersDiffer
<1>8. PICK n \in 1..MaxCheckpoint :
        setting.steps \in [0..(n - 1) -> {"deterministic", "read", "effect", "interrupt"}]
  BY <1>2, RuntimeAssumption
<1>9. DOMAIN StepKind = 0 .. (n - 1) /\ n \in Nat \ {0}
  <2>1. PICK f, S, T : f = StepKind /\ S = 0 .. (n - 1) /\ T = {"deterministic", "read", "effect", "interrupt"}
    OBVIOUS
  <2>2. f \in [S -> T]
    BY <1>8, <2>1 DEF StepKind
  <2>3. DOMAIN f = S
    BY <2>2
  <2> QED
    BY <2>1, <2>3, Bounds
<1>10. StepsOK
  BY <1>3, <1>9 DEF StepsOK
<1>11. AttemptsOK
  BY <1>3 DEF AttemptsOK
<1>12. EffectsOK
  BY <1>2, <1>3, <1>9 DEF EffectsOK, EffectSteps
<1>13. IdempotentOK
  BY <1>2 DEF IdempotentOK
<1>14. RetriesAreBounded
  <2>1. \A c : Intents(c) = {} /\ Attempts(c) = {} /\ SafelyInterrupted(c) = {}
    BY <1>3 DEF Intents, Attempts, SafelyInterrupted, Made
  <2>2. Cardinality({}) = 0
    BY FS_EmptySet
  <2>3. \A S : S = {} => Cardinality(S) <= StepAttempts /\ Cardinality(S) <= Interruptions
    BY <2>2, Bounds
  <2> QED
    BY <2>1, <2>3 DEF RetriesAreBounded
<1>15. LeaseKept /\ JourneyOK /\ FailedIsFailed
  BY <1>2, <1>3, <1>4 DEF LeaseKept, JourneyOK, FailedIsFailed
<1>16. Core
  BY <1>1, <1>5, <1>6, <1>7, <1>10, <1>11, <1>12, <1>13, <1>14 DEF Core
<1>17. Calm
  BY <1>6, <1>15 DEF Calm
<1> QED
  BY <1>16, <1>17 DEF RInv

LEMMA PassStepKeeps ==
  ASSUME RInv, IInv', NEW h \in Holders, PassStep(h)
  PROVE  RInv'
<1>1. CASE Continue(h) \/ Pause(h) \/ Resume(h) \/ Advance(h) \/ Settled(h) \/ NotAdmitted(h)
  BY <1>1, ContinueStep, PauseStep, ResumeStep, AdvanceStep, SettledStep, NotAdmittedStep
<1>2. CASE Begin(h) \/ RunNode(h) \/ Ask(h) \/ Fail(h) \/ Cancel(h)
  BY <1>2, BeginStep, RunNodeStep, AskStep, FailStep, CancelStep
<1>3. CASE Effect(h) \/ CheckLease(h) \/ Send(h) \/ Return(h) \/ Record(h)
  BY <1>3, EffectStep, CheckLeaseStep, SendStep, ReturnStep, RecordStep
<1>4. CASE Reconcile(h) \/ LookUp(h) \/ Resolve(h) \/ Defer(h)
  BY <1>4, ReconcileStep, LookUpStep, ResolveStep, DeferStep
<1>5. CASE LeaseLost(h) \/ Cancelled(h) \/ Release(h) \/ Answer(h) \/ ReconcileClaimed(h)
  BY <1>5, LeaseLostStep, CancelledStep, ReleaseStep, AnswerStep, ReconcileClaimedStep
<1> QED
  BY <1>1, <1>2, <1>3, <1>4, <1>5 DEF PassStep

LEMMA RuntimeStutters ==
  ASSUME RInv, IInv', UNCHANGED runtimeVars
  PROVE  RInv'
<1>1. /\ UNCHANGED vars /\ pass' = pass /\ setting' = setting /\ request' = request
      /\ deadline' = deadline /\ faults' = faults /\ Core
  BY DEF runtimeVars, RInv
<1>2. Kept /\ RowsKept /\ LeaseSame /\ deadline' \in [Seqs -> 0..Latency] /\ notBefore'[Run] = notBefore[Run]
  BY <1>1, VarsKept DEF Kept, Core, RuntimeTypeOK
<1>3. \A g \in Holders : Holds(g)' => Holds(g)
  BY <1>1, <1>2 DEF LeaseSame, Holds, Fenced
<1>4. Core'
  BY <1>1, <1>2, <1>3, StillKeepsCore
<1>5. ASSUME Undisturbed'
      PROVE  /\ LeaseKept' /\ JourneyOK' /\ FailedIsFailed'
             /\ \A g \in Holders : PendingIsSent(pass[g])' /\ QuietOK(pass[g])'
  <2>1. /\ LeaseKept /\ JourneyOK /\ FailedIsFailed
        /\ \A g \in Holders : PendingIsSent(pass[g]) /\ QuietOK(pass[g])
    BY <1>1, <1>5 DEF RInv, Calm, Undisturbed
  <2>2. LeaseKept'
    BY <1>1, <1>2, <2>1 DEF LeaseKept, LeaseSame, Holds, Fenced
  <2>3. JourneyOK' /\ FailedIsFailed'
    BY <1>1, <1>2, <2>1, JourneyFrame DEF LeaseSame
  <2>4. \A c : Happened(c)' <=> Happened(c)
    BY <1>1, <1>2, HappenedKept
  <2>5. ASSUME NEW g \in Holders PROVE PendingIsSent(pass[g])' /\ QuietOK(pass[g])'
    <3>1. PICK p : p = pass[g] /\ p = pass'[g]
      BY <1>1
    <3>2. PendingIsSent(p) /\ QuietOK(p)
      BY <2>1, <3>1
    <3>3. PendingIsSent(p)'
      BY <1>2, <3>2 DEF PendingIsSent, RowsKept
    <3>4. QuietOK(p)'
      BY <1>1, <1>2, <2>4, <3>2 DEF QuietOK, RowsKept
    <3> QED
      BY <3>1, <3>3, <3>4
  <2> QED
    BY <2>2, <2>3, <2>5
<1> QED
  BY <1>4, <1>5 DEF RInv, Calm

LEMMA RuntimeNextKeeps ==
  ASSUME RInv, [RuntimeNext]_runtimeVars
  PROVE  RInv'
<1>1. IInv'
  <2>1. IInv /\ [Next]_vars
    BY RuntimeStepIsStoreStep DEF RInv, Core
  <2> QED
    BY <2>1, NextKeeps
<1>2. CASE UNCHANGED runtimeVars
  BY <1>1, <1>2, RuntimeStutters
<1>3. CASE StartRun \/ CancelRun \/ Time
  BY <1>1, <1>3, OwnerStep, TimeStep
<1>4. CASE \E a \in Seqs : Arrive(a)
  BY <1>1, <1>4, ArriveStep
<1>5. ASSUME NEW h \in Holders,
             \/ Claim(h) \/ PassStep(h) \/ Heartbeat(h)
             \/ AnswerRun(h) \/ ReconcileRun(h)
             \/ StoreFails(h) \/ Stop(h) \/ Crash(h)
      PROVE  RInv'
  BY <1>1, <1>5, ClaimStep, PassStepKeeps, HeartbeatStep, AnswerRunStep, ReconcileRunStep,
     StoreFailsStep, StopStep, CrashStep
<1> QED
  BY <1>2, <1>3, <1>4, <1>5 DEF RuntimeNext

-----------------------------------------------------------------------------
(* The theorems.                                                           *)

(* The inductive invariant of the runtimes, their run and its provider.    *)
THEOREM RuntimeInvariance == RuntimeSafety => []RInv
<1>1. RuntimeInit => RInv
  BY RuntimeInitHolds
<1>2. RInv /\ [RuntimeNext]_runtimeVars => RInv'
  BY RuntimeNextKeeps
<1> QED
  BY <1>1, <1>2, PTL DEF RuntimeSafety

(* Runtimes, scheduler, owner and crashes use the store only as its        *)
(* specification allows: what is proved of the store for any caller holds  *)
(* of every run they execute.                                              *)
THEOREM RuntimesUseTheStore == RuntimeSafety => Spec
<1>1. RuntimeInit => Init
  BY DEF RuntimeInit
<1>2. RInv /\ [RuntimeNext]_runtimeVars => [Next]_vars
  BY RuntimeStepIsStoreStep DEF RInv
<1> QED
  BY <1>1, <1>2, RuntimeInvariance, PTL DEF RuntimeSafety, Spec

LEMMA AtMostOne ==
  ASSUME NEW S, S \subseteq Seqs, \A a, b \in S : a = b
  PROVE  Cardinality(S) <= 1 /\ (S # {} => Cardinality(S) = 1)
<1>1. CASE S = {}
  BY <1>1, FS_EmptySet
<1>2. CASE S # {}
  <2>1. PICK a : S = {a}
    BY <1>2
  <2>2. Cardinality({a}) = 1
    BY FS_Singleton
  <2> QED
    BY <2>1, <2>2
<1> QED
  BY <1>1, <1>2

(* Of the requests of a step the provider performs one: all but the last   *)
(* were refused or lost when their intents were recorded failed.           *)
LEMMA PerformedOnce ==
  ASSUME RInv, Undisturbed \/ setting.idempotent, NEW c
  PROVE  Cardinality(Performed(c)) <= 1 /\ (Happened(c) => Cardinality(Performed(c)) = 1)
<1>1. Core /\ EffectsOK /\ IdempotentOK
  BY DEF RInv, Core
<1>2. PICK S : S = Performed(c)
  OBVIOUS
<1>3. S \subseteq Seqs /\ \A a \in S : request[a] = "performed" /\ attCkpt[Run][a] = c
  BY <1>2 DEF Performed, Made
<1>4. ASSUME NEW a \in S, NEW b \in S, a < b PROVE a = b
  <2>1. CASE setting.idempotent
    BY <1>1, <1>3, <2>1 DEF IdempotentOK
  <2>2. CASE Undisturbed
    <3>1. effect[Run][a] # "none" /\ effect[Run][b] # "none"
      BY <1>1, <1>3 DEF EffectsOK
    <3>2. effect[Run][a] = "failed"
      BY <1>1, <1>3, <1>4, <3>1 DEF EffectsOK
    <3>3. FailedIsFailed
      BY <2>2 DEF RInv, Calm
    <3> QED
      BY <1>3, <3>2, <3>3 DEF FailedIsFailed
  <2> QED
    BY <2>1, <2>2
<1>5. \A a, b \in S : a = b
  <2>1. \A a, b \in S : a < b \/ b < a \/ a = b
    BY <1>3 DEF Seqs
  <2> QED
    BY <1>4, <2>1
<1>6. Cardinality(S) <= 1 /\ (S # {} => Cardinality(S) = 1)
  BY <1>3, <1>5, AtMostOne
<1>7. Happened(c) => S # {}
  BY <1>2 DEF Happened, Performed
<1> QED
  BY <1>2, <1>6, <1>7

(* However often runtimes crash, retry, reconcile, take over or cancel, an *)
(* effect is performed at most once, although its provider is not          *)
(* idempotent: unless a store write fails, a runtime stalls past its lease *)
(* or a request outlasts the settle delay.                                 *)
THEOREM EffectsHappenOnce == RuntimeSafety => []EffectAtMostOnce
<1>1. RInv => EffectAtMostOnce
  BY PerformedOnce DEF EffectAtMostOnce
<1> QED
  BY <1>1, RuntimeInvariance, PTL

LEMMA SettledAtTheEnd ==
  ASSUME RInv
  PROVE  NothingAfterTheEnd
<1>1. SUFFICES ASSUME Undisturbed, Terminal(Run)
               PROVE  /\ \A a \in Seqs : request[a] # "sent"
                      /\ \A h \in Holders : pass[h].pc \notin {"check", "send", "call"}
  BY DEF NothingAfterTheEnd
<1>2. \A a \in Seqs : ~Unresolved(Run, a)
  <2>1. IInv /\ Run \in Runs
    BY Bounds DEF RInv, Core
  <2>2. state[Run] \notin {"running", "cancelling", "needs_reconciliation"}
    BY <1>1 DEF Terminal, TerminalStates
  <2> QED
    BY <2>1, <2>2, Rows DEF IInv, UnresolvedEffectBlocks, InFlightIsCurrent, Unresolved
<1>3. JourneyOK /\ \A h \in Holders : PendingIsSent(pass[h]) /\ PassOK(pass[h])
  BY <1>1 DEF RInv, Calm, Core
<1>4. \A a \in Seqs : request[a] # "sent"
  BY <1>2, <1>3 DEF JourneyOK
<1>5. ASSUME NEW h \in Holders, pass[h].pc \in {"check", "send", "call"} PROVE FALSE
  <2>1. pass[h].doing \in Seqs /\ effect[Run][pass[h].doing] = "pending"
    BY <1>3, <1>5 DEF PassOK, PendingIsSent, Sending
  <2> QED
    BY <1>2, <2>1 DEF Unresolved
<1> QED
  BY <1>4, <1>5

(* What is recorded of a run's effects is what happened to them: receipts  *)
(* tell the truth, a succeeded run performed each of its effects exactly   *)
(* once, and nothing reaches a provider after its run is over.             *)
THEOREM OutcomesStayTrue == RuntimeSafety => []OutcomesAreTrue
<1>1. RInv => ReceiptsTellTheTruth
  <2>1. SUFFICES ASSUME RInv, Undisturbed, NEW c \in EffectSteps, NEW a \in Intents(c)
                 PROVE  /\ effect[Run][a] = "succeeded" => Happened(c)
                        /\ effect[Run][a] = "failed" => request[a] \notin {"sent", "performed"}
    BY DEF ReceiptsTellTheTruth
  <2>2. a \in Seqs /\ attCkpt[Run][a] = c
    BY DEF Intents, Made
  <2>3. EffectsOK /\ FailedIsFailed
    BY <2>1 DEF RInv, Core, Calm
  <2>4. effect[Run][a] = "succeeded" => Happened(c)
    BY <2>2, <2>3 DEF EffectsOK
  <2> QED
    BY <2>2, <2>3, <2>4 DEF FailedIsFailed
<1>2. RInv => SuccessMeansDone
  <2>1. SUFFICES ASSUME RInv, state[Run] = "succeeded", Undisturbed \/ setting.idempotent,
                        NEW c \in EffectSteps
                 PROVE  Cardinality(Performed(c)) = 1
    BY DEF SuccessMeansDone
  <2>2. Happened(c)
    BY <2>1 DEF RInv, Core, StepsOK, EffectsOK, EffectSteps
  <2> QED
    BY <2>1, <2>2, PerformedOnce
<1>3. RInv => OutcomesAreTrue
  BY <1>1, <1>2, SettledAtTheEnd DEF OutcomesAreTrue
<1> QED
  BY <1>3, RuntimeInvariance, PTL

(* Runtimes take turns at a run's provider and stay within its Retry       *)
(* Policy and its interruption bound, whatever crashes, cancellations and  *)
(* reconciliations come in between.                                        *)
THEOREM PassesStayOrderly == RuntimeSafety => []PassesAreOrderly
<1>1. RInv => OneCaller
  <2>1. SUFFICES ASSUME RInv, Undisturbed, NEW g \in Holders, NEW h \in Holders, g # h,
                        pass[g].pc # "idle", pass[h].pc # "idle"
                 PROVE  FALSE
    BY DEF OneCaller
  <2>2. LeaseKept
    BY <2>1 DEF RInv, Calm
  <2> QED
    BY <2>1, <2>2, OthersIdle
<1>2. RInv => PassesAreOrderly
  BY <1>1 DEF RInv, Core, PassesAreOrderly
<1> QED
  BY <1>2, RuntimeInvariance, PTL
=============================================================================
