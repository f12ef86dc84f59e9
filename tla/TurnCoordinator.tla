---------------------------- MODULE TurnCoordinator ----------------------------
(***************************************************************************)
(* One chat turn in its process (internal/agent: Send, runOwnedTurn and    *)
(* ownership.go, over tools.ExecuteWithApprovalAuthorizedCompletion).  The *)
(* turn's goroutine, the heartbeat and the provider's callbacks meet at    *)
(* the coordinator: a read-write lock that admits callbacks and commits, a *)
(* terminal cause that is first pending and then final with its stage, and *)
(* the channel of the tool phase.                                          *)
(*                                                                         *)
(* The short critical sections of coordinator.mu are one step each.  What  *)
(* is said, asked and answered is left out; an append or a call fails when *)
(* the lease is lost, when its context has ended, or by a fault.           *)
(***************************************************************************)
EXTENDS Naturals, Sequences

CONSTANTS
  T, H,          \* the turn's goroutine and the heartbeat
  Callbacks,     \* provider goroutines that stream fragments
  None,
  MaxResponses,  \* bound: model responses (the step limit)
  MaxCalls,      \* bound: tool calls of one response
  MaxFragments,  \* bound: fragments streamed in the turn
  MaxFaults      \* bound: faults of the store, the provider and the tools

ASSUME CoordinatorAssumption ==
  /\ T # H /\ None \notin {T, H} /\ {T, H} \cap Callbacks = {}
  /\ {MaxResponses, MaxCalls} \subseteq Nat \ {0} /\ {MaxFragments, MaxFaults} \subseteq Nat

VARIABLES
  stage, cause, pending, cancelled, toolDone,  \* turnCoordinator; toolDone: a phase is open
  readers, wants,                      \* callbackMu
  sel,                                         \* selectCause in progress, of T and of H
  t,                                           \* the turn's goroutine
  heart,                                       \* the heartbeat: pc and what it met
  cb, life,                                    \* callbacks and their lifetime
  rendered,                                    \* renderedOutput
  log,                                         \* the turn's durable events
  ran,                                         \* a tool returned and its outcome is not durable
  discarded,                                   \* ResponseDiscarded was sent
  callerDone, lease, fragments, faults

coord == <<stage, cause, pending, cancelled, toolDone>>
locks == <<readers, wants>>
stream == <<cb, life, fragments>>
out == <<rendered, log, ran, discarded>>
env == <<callerDone, lease, faults>>
vars == <<coord, locks, sel, t, heart, stream, out, env>>

NoCause == [kind |-> "none", stage |-> "none"]
NoPending == [kind |-> "none", by |-> None]

Init ==
  /\ stage = "turn_start" /\ cause = NoCause /\ pending = NoPending
  /\ cancelled = FALSE /\ toolDone = FALSE
  /\ readers = {} /\ wants = {}
  /\ sel = [g \in {T, H} |-> [pc |-> "off", kind |-> "none"]]
  /\ t = [pc |-> "start", commit |-> "none", err |-> "none", calls |-> 0, responses |-> 0,
          approved |-> FALSE, seen |-> NoCause, compacted |-> FALSE, failure |-> "none",
          retry |-> "unused"]
  /\ heart = [pc |-> "run", err |-> "none"]
  /\ cb = [c \in Callbacks |-> "out"]
  /\ life = [mu |-> None, serial |-> None, closed |-> TRUE, fired |-> FALSE]
  /\ rendered = "nothing" /\ log = <<>> /\ ran = FALSE /\ discarded = FALSE
  /\ callerDone = FALSE /\ lease = TRUE /\ fragments = 0 /\ faults = 0

-----------------------------------------------------------------------------
(* The coordinator.                                                        *)

CtxDone == callerDone \/ cancelled
Active == cause.kind = "none" /\ pending = NoPending /\ ~CtxDone

\* A waiting writer keeps new readers out.
RLockFree == wants = {}

\* result: the cause, or the pending one with the stage of the moment.
result == IF cause.kind = "none" /\ pending # NoPending
          THEN [kind |-> pending.kind, stage |-> stage] ELSE cause

Fault == faults < MaxFaults /\ faults' = faults + 1

Goto(pc) == t' = [t EXCEPT !.pc = pc]
Fails(err) == t' = [t EXCEPT !.pc = "classify", !.err = err]

\* selectCause, first step: the pending cause, unless there is one.
StartSelect(g, kind) ==
  IF cause.kind = "none" /\ pending = NoPending
  THEN /\ pending' = [kind |-> kind, by |-> g]
       /\ sel' = [sel EXCEPT ![g] = [pc |-> "cancel", kind |-> kind]]
  ELSE UNCHANGED <<pending, sel>>

\* Mutant: the cause is finalized without cancelling the context first.
SelectWithoutCancel(g) ==
  /\ sel[g].pc = "cancel"
  /\ sel' = [sel EXCEPT ![g].pc = IF toolDone THEN "tool" ELSE "lock"]
  /\ UNCHANGED <<coord, locks, t, heart, stream, out, env>>

\* The context is cancelled before anything is waited for.
SelectCancels(g) ==
  /\ sel[g].pc = "cancel"
  /\ cancelled' = TRUE
  /\ sel' = [sel EXCEPT ![g].pc = IF toolDone THEN "tool" ELSE "lock"]
  /\ UNCHANGED <<stage, cause, pending, toolDone, locks, t, heart, stream, out, env>>

SelectWaitsForTool(g) ==
  /\ sel[g].pc = "tool" /\ ~toolDone
  /\ sel' = [sel EXCEPT ![g].pc = "lock"]
  /\ UNCHANGED <<coord, locks, t, heart, stream, out, env>>

SelectAsksLock(g) ==
  /\ sel[g].pc = "lock"
  /\ wants' = wants \cup {g}
  /\ sel' = [sel EXCEPT ![g].pc = "locking"]
  /\ UNCHANGED <<coord, readers, t, heart, stream, out, env>>

\* The cause becomes final with the stage of this moment, if it is still pending.
SelectFinal(g) ==
  /\ sel[g].pc = "locking" /\ readers = {}
  /\ wants' = wants \ {g}
  /\ IF cause.kind = "none" /\ pending.by = g
     THEN cause' = [kind |-> pending.kind, stage |-> stage] /\ pending' = NoPending
     ELSE UNCHANGED <<cause, pending>>
  /\ sel' = [sel EXCEPT ![g].pc = "off"]
  /\ UNCHANGED <<stage, cancelled, toolDone, readers, t, heart, stream, out, env>>

SelectStep(g) ==
  SelectCancels(g) \/ SelectWaitsForTool(g) \/ SelectAsksLock(g) \/ SelectFinal(g)

-----------------------------------------------------------------------------
(* The heartbeat.                                                          *)

HeartbeatFails ==
  /\ heart.pc = "run"
  /\ \/ CtxDone /\ heart' = [pc |-> "failed", err |-> "ctx"] /\ UNCHANGED faults
     \/ ~lease /\ heart' = [pc |-> "failed", err |-> "lease_lost"] /\ UNCHANGED faults
     \/ Fault /\ heart' = [pc |-> "failed", err |-> "heartbeat_failed"]
  /\ UNCHANGED <<coord, locks, sel, t, stream, out, callerDone, lease>>

\* The caller's cancellation is heard at once.
HeartbeatHearsCaller ==
  /\ heart.pc = "run" /\ callerDone
  /\ heart' = [heart EXCEPT !.pc = "selecting"]
  /\ StartSelect(H, "caller_cancelled")
  /\ UNCHANGED <<stage, cause, cancelled, toolDone, locks, t, stream, out, env>>

\* After a failed beat: nothing when a cause exists, the caller's first, then the
\* lease's.
HeartbeatClassifies ==
  /\ heart.pc = "failed" /\ RLockFree
  /\ IF result.kind # "none" \/ (CtxDone /\ ~callerDone)
     THEN heart' = [heart EXCEPT !.pc = "done"] /\ UNCHANGED <<pending, sel>>
     ELSE /\ heart' = [heart EXCEPT !.pc = "selecting"]
          /\ StartSelect(H, IF callerDone THEN "caller_cancelled" ELSE heart.err)
  /\ UNCHANGED <<stage, cause, cancelled, toolDone, locks, t, stream, out, env>>

HeartbeatEnds ==
  /\ \/ heart.pc = "selecting" /\ sel[H].pc = "off"
     \/ heart.pc = "run" /\ t.pc = "stopping"
  /\ heart' = [heart EXCEPT !.pc = "done"]
  /\ UNCHANGED <<coord, locks, sel, t, stream, out, env>>

Heartbeat == HeartbeatFails \/ HeartbeatHearsCaller \/ HeartbeatClassifies \/ HeartbeatEnds

-----------------------------------------------------------------------------
(* The provider's callbacks: providerCallbackLifetime and emitIfActive.    *)

CallbackEnters(c) ==
  /\ cb[c] = "out" /\ t.pc \in {"streaming", "joining"} /\ life.mu = None
  /\ fragments < MaxFragments /\ fragments' = fragments + 1
  /\ IF life.closed THEN UNCHANGED <<cb, life>>
     ELSE cb' = [cb EXCEPT ![c] = "serial"] /\ life' = [life EXCEPT !.mu = c]
  /\ UNCHANGED <<coord, locks, sel, t, heart, out, env>>

CallbackSerial(c) ==
  /\ cb[c] = "serial" /\ life.serial = None
  /\ cb' = [cb EXCEPT ![c] = "admit"]
  /\ life' = [life EXCEPT !.mu = None, !.serial = c, !.fired = TRUE]
  /\ UNCHANGED <<coord, locks, sel, t, heart, fragments, out, env>>

\* Mutant: a fragment is admitted without the lock.
CallbackUnlocked(c) ==
  /\ cb[c] = "admit"
  /\ IF Active THEN cb' = [cb EXCEPT ![c] = "emit"] /\ UNCHANGED life
     ELSE cb' = [cb EXCEPT ![c] = "out"] /\ life' = [life EXCEPT !.serial = None]
  /\ UNCHANGED <<coord, locks, sel, t, heart, fragments, out, env>>

CallbackAdmitted(c) ==
  /\ cb[c] = "admit" /\ RLockFree
  /\ IF Active
     THEN cb' = [cb EXCEPT ![c] = "emit"] /\ readers' = readers \cup {c} /\ UNCHANGED life
     ELSE /\ cb' = [cb EXCEPT ![c] = "out"] /\ life' = [life EXCEPT !.serial = None]
          /\ UNCHANGED readers
  /\ UNCHANGED <<coord, wants, sel, t, heart, fragments, out, env>>

CallbackEmits(c) ==
  /\ cb[c] = "emit"
  /\ cb' = [cb EXCEPT ![c] = "out"]
  /\ readers' = readers \ {c}
  /\ life' = [life EXCEPT !.serial = None]
  /\ rendered' = "shown"
  /\ UNCHANGED <<coord, wants, sel, t, heart, fragments, log, ran, discarded, env>>

Callback(c) == CallbackEnters(c) \/ CallbackSerial(c) \/ CallbackAdmitted(c) \/ CallbackEmits(c)

-----------------------------------------------------------------------------
(* The turn's goroutine: what leads to a request.                          *)

Record(e) == log' = log \o <<e>>

\* The outcomes of an append outside a commit boundary.
AppendOr(e, next) ==
  \/ /\ lease /\ Record(e) /\ Goto(next) /\ UNCHANGED faults
  \/ /\ UNCHANGED log
     /\ \/ ~lease /\ Fails("lease_lost") /\ UNCHANGED faults
        \/ CtxDone /\ Fails("storage") /\ UNCHANGED faults
        \/ Fault /\ Fails("storage")

\* Send appends the owner's message under a fresh lease.
StartTurn ==
  /\ t.pc = "start"
  /\ AppendOr([type |-> "user"], "load")
  /\ UNCHANGED <<coord, locks, sel, heart, stream, rendered, ran, discarded, callerDone, lease>>

\* The turn's folder, instructions and skills are read; the workspace's own may
\* have changed.
LoadTurn ==
  /\ t.pc = "load" /\ RLockFree
  /\ stage' = IF Active THEN "context_compose" ELSE stage
  /\ \/ Goto("compose") /\ UNCHANGED <<pending, sel, faults>>
     \/ Fault /\ Fails("storage") /\ UNCHANGED <<pending, sel>>
     \/ /\ Fault /\ result.kind = "none" /\ ~CtxDone
        /\ StartSelect(T, "repository_instructions") /\ Goto("selecting")
  /\ UNCHANGED <<cause, cancelled, toolDone, locks, heart, stream, out, callerDone, lease>>

\* transitionIfActive at the head of the loop; a retry after the provider's
\* rejection must be compacted.
Compose ==
  /\ t.pc = "compose" /\ RLockFree
  /\ IF Active
     THEN /\ stage' = "context_compose" /\ rendered' = "nothing"
          /\ \E pc \in {"compact"} \cup (IF t.retry = "now" THEN {} ELSE {"begin"}) :
               t' = [t EXCEPT !.pc = pc, !.commit = "snapshot", !.compacted = FALSE]
     ELSE Goto("classify") /\ UNCHANGED <<stage, rendered>>
  /\ UNCHANGED <<cause, pending, cancelled, toolDone, locks, sel, heart, stream, log, ran,
                 discarded, env>>

\* The request cannot be composed, or not made to fit.
ComposeFails ==
  /\ t.pc \in {"compact", "begin"} /\ t.commit = "snapshot" /\ Fault
  /\ \/ StartSelect(T, "context_overflow") /\ Goto("selecting")
     \/ Fails("storage") /\ UNCHANGED <<pending, sel>>
  /\ UNCHANGED <<stage, cause, cancelled, toolDone, locks, heart, stream, out, callerDone, lease>>

\* performAutomaticCompaction is tried once a turn; its failure is remembered.
StartCompaction ==
  /\ t.pc = "compact"
  /\ IF t.failure # "none" THEN UNCHANGED stage /\ Goto("uncompacted")
     ELSE IF Active THEN stage' = "context_compaction" /\ Goto("compacting")
     ELSE UNCHANGED stage /\ Goto("classify")
  /\ UNCHANGED <<cause, pending, cancelled, toolDone, locks, sel, heart, stream, out, env>>

\* The lease admits the call and the compactor answers, or not.
EndCompaction ==
  /\ t.pc = "compacting"
  /\ \/ /\ lease /\ t' = [t EXCEPT !.pc = "begin", !.commit = "compaction"]
        /\ UNCHANGED faults
     \/ ~lease /\ Fails("lease_lost") /\ UNCHANGED faults
     \/ CtxDone /\ Fails("storage") /\ UNCHANGED faults
     \/ /\ Fault
        /\ \E kind \in {"provider_error", "provider_invalid"} :
             t' = [t EXCEPT !.pc = "uncompacted", !.failure = kind]
  /\ UNCHANGED <<coord, locks, sel, heart, stream, out, callerDone, lease>>

\* Without a compaction the request is sent as it is, when it fits and is no retry.
UncompactedRequest ==
  /\ t.pc = "uncompacted" /\ RLockFree
  /\ \/ result.kind # "none" /\ Goto("ending") /\ UNCHANGED <<stage, pending, sel>>
     \/ /\ result.kind = "none" /\ t.retry # "now" /\ UNCHANGED <<pending, sel>>
        /\ IF Active THEN /\ stage' = "context_compose"
                          /\ t' = [t EXCEPT !.pc = "begin", !.commit = "snapshot"]
           ELSE UNCHANGED stage /\ Goto("classify")
     \/ /\ result.kind = "none" /\ UNCHANGED stage
        /\ IF t.failure = "storage" THEN Fails("storage") /\ UNCHANGED <<pending, sel>>
           ELSE StartSelect(T, t.failure) /\ Goto("selecting")
  /\ UNCHANGED <<cause, cancelled, toolDone, locks, heart, stream, out, env>>

-----------------------------------------------------------------------------
(* A commit boundary: the lock is held from before the append until the    *)
(* stage that follows it is set.                                           *)

beginCommitBoundary ==
  /\ t.pc = "begin" /\ RLockFree
  /\ IF Active THEN readers' = readers \cup {T} /\ Goto("append")
     ELSE UNCHANGED readers /\ Goto(IF t.commit = "approval" THEN "abort" ELSE "classify")
  /\ UNCHANGED <<coord, wants, sel, heart, stream, out, env>>

\* A failed append: the approval's ends the tool phase first, a compaction's is
\* remembered, an answer's has a cause of its own.
CommitAppend ==
  /\ t.pc = "append"
  /\ \/ lease /\ Record([type |-> t.commit]) /\ Goto("finish") /\ UNCHANGED <<readers, faults>>
     \/ /\ UNCHANGED log /\ readers' = readers \ {T}
        /\ \/ /\ \/ ~lease /\ UNCHANGED faults
                 \/ CtxDone /\ UNCHANGED faults
                 \/ Fault /\ t.commit # "compaction"
              /\ t' = [t EXCEPT !.err = CASE ~lease -> "lease_lost"
                                          [] lease /\ t.commit \in {"final", "tools"} ->
                                               "assistant_persistence"
                                          [] OTHER -> "storage",
                                !.pc = IF t.commit = "approval" THEN "abort" ELSE "classify"]
           \/ /\ Fault /\ t.commit = "compaction"
              /\ t' = [t EXCEPT !.pc = "uncompacted", !.failure = "storage"]
  /\ UNCHANGED <<coord, wants, sel, heart, stream, rendered, ran, discarded, callerDone,
                 lease>>

StageAfter(commit) ==
  CASE commit = "compaction" -> "context_compose"
    [] commit = "snapshot" -> "provider"
    [] commit = "tools" -> "tool_prepare"
    [] commit = "approval" -> IF t.approved THEN "tool_execute" ELSE "tool_commit"

\* Mutant: a cause reserved during the append wins over the committed answer.
FinishYields ==
  /\ t.pc = "finish" /\ t.commit = "final"
  /\ readers' = readers \ {T}
  /\ IF pending = NoPending THEN cause' = [kind |-> "success", stage |-> stage]
     ELSE UNCHANGED cause
  /\ rendered' = "committed"
  /\ Goto("ending")
  /\ UNCHANGED <<stage, pending, cancelled, toolDone, wants, sel, heart, stream, log, ran,
                 discarded, env>>

\* finishSuccessBoundary: a committed final answer is success, whatever was
\* pending.
finishSuccessBoundary ==
  /\ t.pc = "finish" /\ t.commit = "final"
  /\ readers' = readers \ {T}
  /\ cause' = [kind |-> "success", stage |-> stage] /\ pending' = NoPending
  /\ rendered' = "committed"
  /\ Goto("ending")
  /\ UNCHANGED <<stage, cancelled, toolDone, wants, sel, heart, stream, log, ran, discarded,
                 env>>

finishCommitBoundary ==
  /\ t.pc = "finish" /\ t.commit # "final"
  /\ readers' = readers \ {T}
  /\ stage' = IF cause.kind = "none" THEN StageAfter(t.commit) ELSE stage
  /\ rendered' = IF t.commit = "tools" THEN "committed" ELSE rendered
  /\ t' = [t EXCEPT !.commit = IF @ = "compaction" THEN "snapshot" ELSE "none",
                    !.compacted = @ \/ t.commit = "compaction",
                    !.pc = CASE t.commit = "compaction" -> "begin"
                             [] t.commit = "snapshot" -> "authorize"
                             [] t.commit = "tools" -> "accepted"
                             [] t.commit = "approval" -> "decided"]
  /\ UNCHANGED <<cause, pending, cancelled, toolDone, wants, sel, heart, stream, log, ran,
                 discarded, env>>

-----------------------------------------------------------------------------
(* The provider call.                                                      *)

\* observeTurnContext: go on unless there is a cause or the context ended.
Observed(next) ==
  Goto(IF result.kind = "none" /\ ~CtxDone THEN next ELSE "classify")

AuthorizeProvider ==
  /\ t.pc = "authorize" /\ RLockFree
  /\ \/ ~lease /\ Fails("lease_lost") /\ UNCHANGED <<life, faults>>
     \/ Fault /\ Fails("storage") /\ UNCHANGED life
     \/ /\ lease /\ Observed("streaming") /\ UNCHANGED faults
        /\ life' = [life EXCEPT !.closed = FALSE, !.fired = FALSE]
  /\ UNCHANGED <<coord, locks, sel, heart, cb, fragments, out, callerDone, lease>>

\* ChatStream returns; a late callback may still be on its way.
StreamEnds ==
  /\ t.pc = "streaming"
  /\ \/ t' = [t EXCEPT !.pc = "joining", !.err = "none"] /\ UNCHANGED faults
     \/ /\ (CtxDone /\ UNCHANGED faults) \/ Fault
        /\ t' = [t EXCEPT !.pc = "joining", !.err = "provider_error"]
  /\ UNCHANGED <<coord, locks, sel, heart, stream, out, callerDone, lease>>

\* closeAndWait.
JoinCallbacks ==
  /\ t.pc = "joining" /\ life.mu = None /\ ~life.closed
  /\ life' = [life EXCEPT !.closed = TRUE]
  /\ UNCHANGED <<coord, locks, sel, t, heart, cb, fragments, out, env>>

\* An error before any fragment may be retried under a fresh authorization, or
\* be the rejection of a long context, which is compacted and sent again once.
\* Any other is the turn's cause, as is an answer that is no answer.
Response ==
  /\ t.pc = "joining" /\ life.closed /\ \A c \in Callbacks : cb[c] = "out"
  /\ RLockFree
  /\ IF t.err = "none"
     THEN \/ Observed("answer") /\ UNCHANGED <<pending, sel, faults>>
          \/ /\ result.kind = "none" /\ ~CtxDone /\ Fault
             /\ \E kind \in {"provider_invalid", "provider_error", "step_limit"} :
                  StartSelect(T, kind)
             /\ Goto("selecting")
     ELSE /\ UNCHANGED faults
          /\ \/ Goto("classify") /\ UNCHANGED <<pending, sel>>
             \/ /\ ~life.fired /\ result.kind = "none" /\ ~CtxDone
                /\ \/ Goto("authorize") /\ UNCHANGED <<pending, sel>>
                   \/ IF t.retry = "unused" /\ ~t.compacted
                      THEN /\ t' = [t EXCEPT !.pc = "compose", !.retry = "now"]
                           /\ UNCHANGED <<pending, sel>>
                      ELSE StartSelect(T, "context_overflow") /\ Goto("selecting")
  /\ UNCHANGED <<stage, cause, cancelled, toolDone, locks, heart, stream, out, callerDone, lease>>

\* The answer is final or asks for tools; the last permitted response may not.
CommitAnswer ==
  /\ t.pc = "answer"
  /\ IF Active
     THEN /\ stage' = "assistant_commit"
          /\ \/ t' = [t EXCEPT !.pc = "begin", !.commit = "final"]
             \/ /\ t.responses + 1 < MaxResponses
                /\ \E n \in 1..MaxCalls :
                     t' = [t EXCEPT !.pc = "begin", !.commit = "tools", !.calls = n,
                                    !.responses = @ + 1,
                                    !.retry = IF @ = "now" THEN "used" ELSE @]
     ELSE Goto("classify") /\ UNCHANGED stage
  /\ UNCHANGED <<cause, pending, cancelled, toolDone, locks, sel, heart, stream, out, env>>

\* The answer's acceptance is always announced.
Accepted ==
  /\ t.pc = "accepted" /\ RLockFree
  /\ Observed("prepare")
  /\ UNCHANGED <<coord, locks, sel, heart, stream, out, env>>

-----------------------------------------------------------------------------
(* A tool call.                                                            *)

PrepareCall ==
  /\ t.pc = "prepare"
  /\ IF Active THEN stage' = "tool_prepare" /\ Goto("intent")
     ELSE UNCHANGED stage /\ Goto("classify")
  /\ UNCHANGED <<cause, pending, cancelled, toolDone, locks, sel, heart, stream, out, env>>

AppendIntent ==
  /\ t.pc = "intent"
  /\ AppendOr([type |-> "intent"], "showcall")
  /\ UNCHANGED <<coord, locks, sel, heart, stream, rendered, ran, discarded, callerDone, lease>>

\* emitIfActive: the lock is held while the frontend is told.
EmitStarts(from, to) ==
  /\ t.pc = from /\ RLockFree
  /\ IF Active THEN readers' = readers \cup {T} /\ Goto(to)
     ELSE UNCHANGED readers /\ Goto("classify")
  /\ UNCHANGED <<coord, wants, sel, heart, stream, out, env>>

ShowCall == EmitStarts("showcall", "showing")

CallShown ==
  /\ t.pc = "showing"
  /\ readers' = readers \ {T}
  /\ Goto("toolphase")
  /\ UNCHANGED <<coord, wants, sel, heart, stream, out, env>>

\* The call needs preparing, or not, or names no tool.
beginToolPhase ==
  /\ t.pc = "toolphase"
  /\ IF Active
     THEN /\ toolDone' = TRUE
          /\ \E pc \in {"authprep", "authexec", "handoff"} :
               t' = [t EXCEPT !.pc = pc, !.approved = FALSE]
     ELSE UNCHANGED toolDone /\ Goto("classify")
  /\ UNCHANGED <<stage, cause, pending, cancelled, locks, sel, heart, stream, out, env>>

\* An error inside the tool phase ends the phase before it is classified.
Aborts(err) == t' = [t EXCEPT !.pc = "abort", !.err = err]

\* A lifecycle callback enters its stage and passes the lease's fence; a rejected
\* entry only reports (toolPhaseInterruption).
Authorize(from, newStage, next) ==
  /\ t.pc = from
  /\ IF Active
     THEN /\ stage' = newStage
          /\ \/ lease /\ Goto(next) /\ UNCHANGED faults
             \/ ~lease /\ Aborts("lease_lost") /\ UNCHANGED faults
             \/ Fault /\ Aborts("storage")
     ELSE UNCHANGED <<stage, faults>> /\ Aborts("storage")
  /\ UNCHANGED <<cause, pending, cancelled, toolDone, locks, sel, heart, stream, out, callerDone,
                 lease>>

\* A prepared call asks the owner, needs no approval or is queued for review, or
\* cannot be prepared, which is its result.
PrepareTool ==
  /\ t.pc = "preparing"
  /\ IF CtxDone THEN Aborts("storage")
     ELSE \E pc \in {"approval", "authexec", "handoff"} : Goto(pc)
  /\ UNCHANGED <<coord, locks, sel, heart, stream, out, env>>

AuthorizePreparation == Authorize("authprep", "tool_prepare", "preparing")
AuthorizeExecution == Authorize("authexec", "tool_execute", "execute")

\* The approver's stage; an inactive turn is answered as expired, and the
\* registry then finds its context ended.
StartApproval ==
  /\ t.pc = "approval"
  /\ IF Active THEN stage' = "tool_approval" /\ Goto("ask")
     ELSE UNCHANGED stage /\ Aborts("storage")
  /\ UNCHANGED <<cause, pending, cancelled, toolDone, locks, sel, heart, stream, out, env>>

\* admitApproval: the lock is held while the owner is asked.
AskOwner ==
  /\ t.pc = "ask" /\ RLockFree
  /\ IF Active THEN readers' = readers \cup {T} /\ Goto("asking")
     ELSE UNCHANGED readers /\ Aborts("storage")
  /\ UNCHANGED <<coord, wants, sel, heart, stream, out, env>>

\* The owner approves or declines, or the context's end gives him up.
OwnerDecides ==
  /\ t.pc = "asking"
  /\ readers' = readers \ {T}
  /\ IF CtxDone THEN Aborts("storage")
     ELSE \E yes \in BOOLEAN :
            t' = [t EXCEPT !.pc = "begin", !.commit = "approval", !.approved = yes]
  /\ UNCHANGED <<coord, wants, sel, heart, stream, out, env>>

\* An approved call is authorized and run; a declined or expired one is answered.
Decided ==
  /\ t.pc = "decided"
  /\ IF CtxDone THEN Aborts("storage")
     ELSE Goto(IF t.approved THEN "authexec" ELSE "handoff")
  /\ UNCHANGED <<coord, locks, sel, heart, stream, out, env>>

\* The tool returns, or gives up because its context ended.
Execute ==
  /\ t.pc = "execute"
  /\ \/ Goto("handoff") /\ ran' = TRUE
     \/ CtxDone /\ Aborts("storage") /\ UNCHANGED ran
  /\ UNCHANGED <<coord, locks, sel, heart, stream, rendered, log, discarded, env>>

completeToolPhase ==
  /\ t.pc = "handoff"
  /\ stage' = IF cause.kind = "none" THEN "tool_commit" ELSE stage
  /\ toolDone' = FALSE
  /\ Goto("outcome")
  /\ UNCHANGED <<cause, pending, cancelled, locks, sel, heart, stream, out, env>>

abortToolPhase ==
  /\ t.pc = "abort"
  /\ toolDone' = FALSE
  /\ Goto("classify")
  /\ UNCHANGED <<stage, cause, pending, cancelled, locks, sel, heart, stream, out, env>>

AppendOutcome ==
  /\ t.pc = "outcome"
  /\ AppendOr([type |-> "outcome"], "showresult")
  /\ ran' = IF log' # log THEN FALSE ELSE ran
  /\ UNCHANGED <<coord, locks, sel, heart, stream, rendered, discarded, callerDone, lease>>

ShowResult == EmitStarts("showresult", "shown")

\* The result is shown; before another call of the response the stage is set back.
ResultShown ==
  /\ t.pc = "shown"
  /\ readers' = readers \ {T}
  /\ stage' = IF t.calls > 1 /\ cause.kind = "none" THEN "tool_prepare" ELSE stage
  /\ Goto("next")
  /\ UNCHANGED <<cause, pending, cancelled, toolDone, wants, sel, heart, stream, out, env>>

NextCall ==
  /\ t.pc = "next" /\ RLockFree
  /\ IF result.kind = "none" /\ ~CtxDone
     THEN t' = [t EXCEPT !.calls = @ - 1, !.pc = IF t.calls > 1 THEN "prepare" ELSE "compose"]
     ELSE Goto("classify")
  /\ UNCHANGED <<coord, locks, sel, heart, stream, out, env>>

-----------------------------------------------------------------------------
(* The end of the turn.                                                    *)

\* classifyLocalError, classifyProviderError, observeTurnContext: an existing
\* cause stands, then the lease's loss, then the caller's end, then the error.  For
\* the owner's message and for an answer the caller's end comes before the lease.
Classify ==
  /\ t.pc = "classify" /\ RLockFree
  /\ IF result.kind # "none" THEN Goto("ending") /\ UNCHANGED <<pending, sel>>
     ELSE LET callerFirst == log = <<>> \/ t.commit \in {"final", "tools"}
          IN /\ Goto("selecting")
             /\ StartSelect(T, IF CtxDone /\ (callerFirst \/ t.err # "lease_lost")
                               THEN "caller_cancelled" ELSE t.err)
  /\ UNCHANGED <<stage, cause, cancelled, toolDone, locks, heart, stream, out, env>>

Selected ==
  /\ t.pc = "selecting" /\ sel[T].pc = "off"
  /\ Goto("ending")
  /\ UNCHANGED <<coord, locks, sel, heart, stream, out, env>>

\* The cause is read before the heartbeat is stopped.
Ending ==
  /\ t.pc = "ending" /\ RLockFree
  /\ t' = [t EXCEPT !.pc = "stopping", !.seen = result]
  /\ UNCHANGED <<coord, locks, sel, heart, stream, out, env>>

\* stopHeartbeat waits for its goroutine.
StopHeartbeat ==
  /\ t.pc = "stopping" /\ heart.pc = "done"
  /\ Goto("terminal")
  /\ UNCHANGED <<coord, locks, sel, heart, stream, out, env>>

causeHasDurableTerminal(kind) ==
  kind \in {"provider_error", "provider_invalid", "caller_cancelled", "context_overflow",
            "repository_instructions", "step_limit"}

discardReason(kind) ==
  kind \in {"provider_error", "provider_invalid", "caller_cancelled", "lease_lost",
            "heartbeat_failed", "assistant_persistence", "step_limit"}

\* The terminal event is tried under a context of its own; then the frontend
\* learns of a discarded answer, and the lease is released.
EndTurn ==
  /\ t.pc = "terminal"
  /\ \/ /\ causeHasDurableTerminal(t.seen.kind) /\ log # <<>> /\ lease
        /\ Record([type |-> "terminal", stage |-> t.seen.stage]) /\ UNCHANGED faults
     \/ /\ UNCHANGED log
        /\ \/ (~causeHasDurableTerminal(t.seen.kind) \/ log = <<>> \/ ~lease) /\ UNCHANGED faults
           \/ causeHasDurableTerminal(t.seen.kind) /\ Fault
  /\ discarded' = (rendered = "shown" /\ discardReason(t.seen.kind))
  /\ Goto("done")
  /\ UNCHANGED <<coord, locks, sel, heart, stream, rendered, ran, callerDone, lease>>

TurnStep ==
  \/ StartTurn \/ LoadTurn \/ Compose \/ StartCompaction \/ EndCompaction \/ UncompactedRequest
  \/ beginCommitBoundary \/ CommitAppend \/ finishSuccessBoundary \/ finishCommitBoundary
  \/ AuthorizeProvider \/ StreamEnds \/ JoinCallbacks \/ Response \/ CommitAnswer \/ Accepted
  \/ PrepareCall \/ AppendIntent \/ ShowCall \/ CallShown \/ beginToolPhase
  \/ AuthorizePreparation \/ PrepareTool \/ AuthorizeExecution \/ StartApproval \/ AskOwner
  \/ OwnerDecides \/ Decided
  \/ Execute \/ completeToolPhase \/ abortToolPhase \/ AppendOutcome \/ ShowResult \/ ResultShown
  \/ NextCall \/ Classify \/ Selected \/ Ending \/ StopHeartbeat \/ EndTurn

-----------------------------------------------------------------------------
\* The caller gives up: his context ends, and with it the coordinator's.
CallerCancels ==
  /\ ~callerDone /\ t.pc # "done"
  /\ callerDone' = TRUE
  /\ UNCHANGED <<coord, locks, sel, t, heart, stream, out, lease, faults>>

\* The lease is lost to another holder or runs out.
LoseLease ==
  /\ lease /\ t.pc # "done" /\ Fault
  /\ lease' = FALSE
  /\ UNCHANGED <<coord, locks, sel, t, heart, stream, out, callerDone>>

Done == t.pc = "done" /\ UNCHANGED vars

Next ==
  \/ TurnStep \/ ComposeFails \/ Heartbeat
  \/ \E g \in {T, H} : SelectStep(g)
  \/ \E c \in Callbacks : Callback(c)
  \/ CallerCancels \/ LoseLease \/ Done

Spec == Init /\ [][Next]_vars

\* What may take for ever while its context lives: an owner's answer, a stream, a
\* tool.
Patient == t.pc \in {"asking", "streaming", "execute"}

(***************************************************************************)
(* Fairness: goroutines run, the store answers, the frontend returns from  *)
(* an event, and whatever waits on its context heeds the context's end.    *)
(***************************************************************************)
FairSpec ==
  /\ Spec /\ WF_vars(TurnStep /\ (Patient => CtxDone)) /\ WF_vars(Heartbeat)
  /\ \A g \in {T, H} : WF_vars(SelectStep(g))
  /\ \A c \in Callbacks : WF_vars(Callback(c))

-----------------------------------------------------------------------------
(* Properties.                                                             *)

Kinds == {"none", "success", "provider_error", "provider_invalid", "caller_cancelled", "lease_lost",
          "heartbeat_failed", "assistant_persistence", "storage", "context_overflow",
          "repository_instructions", "step_limit"}
Stages == {"turn_start", "context_compose", "context_compaction", "provider", "assistant_commit",
           "tool_prepare", "tool_approval", "tool_execute", "tool_commit"}

\* The coordinator holds values of its kinds, and the turn holds the lock exactly
\* within its boundaries: no path leaks it.
TypeOK ==
  /\ stage \in Stages /\ cause \in [kind : Kinds, stage : Stages \cup {"none"}]
  /\ pending \in [kind : Kinds, by : {T, H, None}]
  /\ readers \subseteq {T} \cup Callbacks /\ wants \subseteq {T, H}
  /\ T \in readers <=> t.pc \in {"append", "finish", "showing", "asking", "shown"}

\* No fragment reaches the frontend and no commit is under way once the cause is
\* final: whoever was admitted finishes first.
NothingAfterTheCause ==
  cause.kind # "none" =>
    /\ \A c \in Callbacks : cb[c] # "emit"
    /\ t.pc \notin {"append", "finish", "showing", "asking", "shown"}

Types == {log[i].type : i \in 1..Len(log)}

\* A committed final answer is success: no cancellation, lost lease or failed
\* heartbeat that was reserved meanwhile turns it into a terminal event.
CommittedAnswerStands ==
  "final" \in Types => /\ "terminal" \notin Types
                        /\ t.pc = "done" => t.seen.kind = "success"

\* The terminal event's stage agrees with what is durable: before the answer only
\* when the request has none, a tool's stage only after its call was accepted, and
\* a tool that returned without a durable outcome is recorded at its commit.
StageTellsTheTruth ==
  "terminal" \in Types =>
    LET before == log[Len(log) - 1].type
        at == log[Len(log)].stage
    IN /\ at \in {"turn_start", "context_compose", "context_compaction", "provider",
                   "assistant_commit"} => before \notin {"tools", "intent", "approval"}
       /\ at \in {"tool_prepare", "tool_approval", "tool_execute"} => ~ran
       /\ at \in {"tool_approval", "tool_execute"} => before \in {"intent", "approval"}

\* Streamed text that was not saved is reported as discarded.
DiscardIsReported ==
  t.pc = "done" /\ rendered = "shown" => discarded

\* What the turn tells its caller and leaves behind is what happened.
AnswersAreTrue ==
  TypeOK /\ CommittedAnswerStands /\ StageTellsTheTruth /\ DiscardIsReported

\* A turn that is cancelled, or has a cause, ends: no wait of the turn on its
\* heartbeat, of a cause on a tool or on a callback, or of a callback on a cause
\* lasts for ever.
TurnEnds == (CtxDone \/ result.kind # "none") ~> (t.pc = "done")
=============================================================================
