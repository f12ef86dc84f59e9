---------------------------- MODULE MemoryCompiler ----------------------------
(***************************************************************************)
(* The memory compiler's work queue (internal/eviedb/compiler_work.go and  *)
(* compiler_worker.go): source units become jobs, hosts claim them under a *)
(* 30-second lease and a fence, ask the local model server once per        *)
(* attempt, save ("stage") its answer and publish it.  One durable slot    *)
(* (memory_compiler_capacity) stands for the server; it is freed only on   *)
(* evidence that the server is done with the request it was reserved for.  *)
(*                                                                         *)
(* Every transaction is one action.  A worker is one call of               *)
(* RunCompilerStep (a host) or of CompileCandidateUnit (a caller); between *)
(* its transactions everything else may happen.  A claim is identified by  *)
(* its job and fence: the code's random holder is new at every bump that   *)
(* installs a holder, so "holder and fence match" is held /\ fence = f.    *)
(* Source windows, candidates and budgets are data, left out; a check of   *)
(* them that may fail is a nondeterministic choice.                        *)
(***************************************************************************)
EXTENDS Naturals, FiniteSets

CONSTANTS
  Jobs,          \* the jobs: sealed source windows
  NoJob,         \* no job in hand
  NewJobs,       \* those of the live lane; the others are historical
  HistoryJobs,   \* those selected by the one history request
  Hosts,         \* supervisors: each runs RunCompilerStep again and again
  Callers,       \* direct CompileCandidateUnit calls
  MaxAttempts,   \* 5 in the code
  NewLimit,      \* 8 in the code: new claims before a historical one goes first
  MaxGroups,     \* 128 in the code: jobs that may hold stage space
  MaxUnfinished, \* 1024 in the code
  MaxTrouble     \* bound: crashes, stalls, shutdowns and owner commands

ASSUME CompilerAssumption ==
  /\ NewJobs \subseteq Jobs /\ HistoryJobs \subseteq Jobs \ NewJobs
  /\ Hosts \cap Callers = {} /\ NoJob \notin Jobs
  /\ {MaxAttempts, NewLimit, MaxGroups, MaxUnfinished} \subseteq Nat \ {0}
  /\ MaxTrouble \in Nat

VARIABLES
  verified,   \* whether the hosts have a CompilerReleaseVerifier
  job,        \* memory_compiler_jobs, one row per job
  history,    \* the history request: active, cancelled, or resuming
  slot,       \* the row of memory_compiler_capacity, or NoSlot
  resources,  \* jobs with a row in memory_compiler_resources
  newAttempts,\* memory_compiler_scheduler.new_attempts
  inflight,   \* claims whose request the server is working on (external)
  wk,         \* the workers' local state
  published,  \* how often a job's candidates and coverage were inserted
  skipped,    \* claims of new jobs since a historical job began to wait
  trouble     \* how much trouble has happened

vars == <<verified, job, history, slot, resources, newAttempts, inflight, wk, published,
          skipped, trouble>>

Workers == Hosts \cup Callers
NoSlot == [state |-> "none"]
Unfinished == {"queued", "running", "retry_wait", "staged"}
States == Unfinished \cup {"none", "failed", "cancelled", "completed"}
Idle == [pc |-> "idle", job |-> NoJob, fence |-> 0, ctx |-> "live",
         evidence |-> "none", ok |-> FALSE, old |-> FALSE]

\* A worker at a place, with a job and a fence; and one that has its answer.
At(pc, j, f, e) == [Idle EXCEPT !.pc = pc, !.job = j, !.fence = f, !.evidence = e]
Answered(l, e, ok) == [l EXCEPT !.pc = "answered", !.evidence = e, !.ok = ok]

Init ==
  /\ verified \in BOOLEAN
  /\ job = [j \in Jobs |-> [state |-> "none", attempts |-> 0, fence |-> 0,
              held |-> FALSE, timer |-> FALSE, valid |-> TRUE, paused |-> FALSE,
              stage |-> 0, byHistory |-> FALSE]]
  /\ history = "active"
  /\ slot = NoSlot /\ resources = {} /\ newAttempts = 0 /\ inflight = {}
  /\ wk = [w \in Workers |-> Idle]
  /\ published = [j \in Jobs |-> 0] /\ skipped = 0 /\ trouble = 0

-----------------------------------------------------------------------------
(* Shared conditions.  timer is TRUE while the row's time bound lies ahead: *)
(* the lease of a held job, the due time of a waiting one.                  *)

Claim(w) == [job |-> wk[w].job, fence |-> wk[w].fence]

\* holder and fence match and the lease has not lapsed.
Current(w) ==
  LET r == job[wk[w].job] IN r.held /\ r.timer /\ r.fence = wk[w].fence

\* compilerFence: and the row is in that state and its claim not invalidated by
\* a pause (memory_compiler_invalid_claims).
compilerFence(w, state) ==
  LET r == job[wk[w].job] IN Current(w) /\ r.state = state /\ r.valid

\* A pause of the job's activation, or its history request cancelled.
Paused(j) == job[j].paused \/ (j \in HistoryJobs /\ history = "cancelled")

Adoptable(j) == job[j].state = "staged" /\ (job[j].held => ~job[j].timer)
Claimable(j) ==
  /\ job[j].attempts < MaxAttempts
  /\ job[j].state = "queued" \/ (job[j].state = "retry_wait" /\ ~job[j].timer)
Ready(j) == ~Paused(j) /\ (Adoptable(j) \/ Claimable(j))

\* Mutant: the counter saturates one short of what is asked for.
NeverOverdue(j) == CASE job[j].state = "staged" -> 0
                     [] j \notin NewJobs /\ newAttempts > NewLimit -> 1
                     [] j \in NewJobs -> 2
                     [] OTHER -> 3

\* The supervisor's order: saved stages, an overdue historical job, the live
\* lane, the historical lane.  Positions within a lane are left open.
Rank(j) == CASE job[j].state = "staged" -> 0
             [] j \notin NewJobs /\ newAttempts >= NewLimit -> 1
             [] j \in NewJobs -> 2
             [] OTHER -> 3

UnfinishedJobs == {j \in Jobs : job[j].state \in Unfinished}
SpaceFor(j) == Cardinality(resources \ {j}) < MaxGroups

\* Retry or give up after an attempt that produced no stage.
AfterAttempt(r) == IF r.attempts = MaxAttempts THEN "failed" ELSE "retry_wait"

SlotOf(c) == slot # NoSlot /\ slot.job = c.job /\ slot.fence = c.fence
PendingSlot == [state |-> "release_pending", job |-> slot.job, fence |-> slot.fence]

\* Mutant: the end of the local call is taken for the end of the request.
AlwaysRelease(c, known) == SlotOf(c) /\ slot' = NoSlot

\* compilerRelease: free the claim's slot when the server is known to be done,
\* else leave it to the verifier.
compilerRelease(c, known) ==
  /\ SlotOf(c)
  /\ slot' = IF known THEN NoSlot ELSE PendingSlot

\* What an owner's cancellation leaves of a row.  A stage is kept; the due time
\* of a waiting job too.
Cancelled(r, byHistory) ==
  [r EXCEPT !.state = "cancelled", !.fence = @ + 1, !.held = FALSE,
            !.timer = r.state = "retry_wait" => r.timer, !.byHistory = byHistory]

Trouble == trouble < MaxTrouble /\ trouble' = trouble + 1
Done(w) == wk' = [wk EXCEPT ![w] = Idle]

-----------------------------------------------------------------------------
(* Selection and the owner's commands.                                     *)

\* QueueCandidateUnit and the reconciler materialize a job, or record a window
\* that failed its checks.
selectCompilerUnit(j) ==
  /\ job[j].state = "none"
  /\ Cardinality(UnfinishedJobs) < MaxUnfinished
  /\ \E s \in {"queued", "failed"} : job' = [job EXCEPT ![j].state = s]
  /\ UNCHANGED <<history, slot, resources, newAttempts, inflight, wk, published,
                 skipped, trouble>>

\* The owner cancels one compilation: the fence moves before any client notices.
CancelCompilation(j) ==
  /\ job[j].state \in Unfinished
  /\ Trouble
  /\ job' = [job EXCEPT ![j] = Cancelled(@, FALSE)]
  /\ slot' = IF slot # NoSlot /\ slot.job = j THEN PendingSlot ELSE slot
  /\ resources' = resources \ {j}
  /\ UNCHANGED <<history, newAttempts, inflight, wk, published, skipped>>

\* What a resumed row becomes: a kept stage is adopted, never asked for again.
Resumed(r) ==
  [r EXCEPT !.state = IF r.stage # 0 THEN "staged"
                      ELSE IF r.attempts > 0 THEN "retry_wait" ELSE "queued",
            !.byHistory = FALSE]

\* ResumeCompilation, called by the owner or by resumeCompilerHistoryStep.
ResumeCompilation(j) ==
  /\ job[j].state = "cancelled" /\ ~Paused(j)
  /\ Cardinality(UnfinishedJobs) < MaxUnfinished
  /\ IF job[j].stage # 0 THEN SpaceFor(j) ELSE job[j].attempts < MaxAttempts
  /\ job' = [job EXCEPT ![j] = Resumed(@)]
  /\ resources' = IF job[j].stage # 0 THEN resources \cup {j} ELSE resources
  /\ UNCHANGED <<slot, newAttempts, inflight, wk, published, skipped>>

OwnerResumes(j) == ResumeCompilation(j) /\ UNCHANGED <<history, trouble>>

\* CancelCompilerHistory: every unfinished job of the request at once.
CancelCompilerHistory ==
  /\ history # "cancelled" /\ Trouble
  /\ history' = "cancelled"
  /\ job' = [j \in Jobs |-> IF j \in HistoryJobs \cap UnfinishedJobs
                            THEN Cancelled(job[j], TRUE) ELSE job[j]]
  /\ slot' = IF slot # NoSlot /\ slot.job \in HistoryJobs THEN PendingSlot ELSE slot
  /\ resources' = resources \ HistoryJobs
  /\ UNCHANGED <<newAttempts, inflight, wk, published, skipped>>

ResumeCompilerHistory ==
  /\ history = "cancelled"
  /\ history' = "resuming"
  /\ UNCHANGED <<job, slot, resources, newAttempts, inflight, wk, published, skipped,
                 trouble>>

HistoryResumable ==
  {j \in HistoryJobs : /\ job[j].state = "cancelled" /\ job[j].byHistory
                       /\ job[j].attempts < MaxAttempts \/ job[j].stage # 0}

\* One job of a resumed request per tick of the host, until none is left.
resumeCompilerHistoryStep ==
  /\ history = "resuming"
  /\ \/ HistoryResumable = {} /\ history' = "active"
        /\ UNCHANGED <<job, slot, resources, newAttempts, inflight, wk, published,
                       skipped, trouble>>
     \/ \E j \in HistoryResumable : ResumeCompilation(j)
        /\ UNCHANGED <<history, trouble>>

\* The owner disables and resumes an activation: its jobs are paused meanwhile,
\* and the new work epoch leaves every earlier claim invalid.
Suspended(r) == [r EXCEPT !.paused = TRUE, !.valid = FALSE]

PauseWork(j) ==
  /\ j \in NewJobs /\ ~job[j].paused /\ Trouble
  /\ job' = [job EXCEPT ![j] = Suspended(@)]
  /\ wk' = [w \in Workers |-> IF wk[w].job = j /\ Current(w)
                              THEN [wk[w] EXCEPT !.old = TRUE] ELSE wk[w]]
  /\ UNCHANGED <<history, slot, resources, newAttempts, inflight, published, skipped>>

\* Mutant: resuming an activation keeps its work epoch.
SameEpoch(r) == [r EXCEPT !.paused = FALSE, !.valid = TRUE]

\* The new epoch makes the old claims stay invalid.
Unpaused(r) == [r EXCEPT !.paused = FALSE]

ResumeWork(j) ==
  /\ job[j].paused
  /\ job' = [job EXCEPT ![j] = Unpaused(@)]
  /\ UNCHANGED <<history, slot, resources, newAttempts, inflight, wk, published,
                 skipped, trouble>>

-----------------------------------------------------------------------------
(* One RunCompilerStep of a host: recover, reconcile the slot, pick one.   *)

Recovered(r) ==
  IF r.state = "running"
  THEN [r EXCEPT !.state = AfterAttempt(r), !.fence = @ + 1, !.held = FALSE,
                 !.timer = r.attempts < MaxAttempts]
  ELSE [r EXCEPT !.fence = @ + 1, !.held = FALSE]

Expired == {j \in Jobs : job[j].held /\ ~job[j].timer}

\* Mutant: recovery leaves the slot reserved for the lost attempt.
RecoverKeepsSlot(w) ==
  /\ wk[w].pc = "idle"
  /\ wk' = [wk EXCEPT ![w].pc = "reconcile"]
  /\ job' = [j \in Jobs |-> IF j \in Expired THEN Recovered(job[j]) ELSE job[j]]
  /\ resources' = resources \ {j \in Expired : job[j].state = "running"}
  /\ UNCHANGED <<slot, history, newAttempts, inflight, published, skipped, trouble>>

\* RecoverCompilerWork fences every expired claim; it never guesses whether the
\* server stopped.
RecoverCompilerWork(w) ==
  /\ wk[w].pc = "idle"
  /\ wk' = [wk EXCEPT ![w].pc = "reconcile"]
  /\ job' = [j \in Jobs |-> IF j \in Expired THEN Recovered(job[j]) ELSE job[j]]
  /\ LET lost == {j \in Expired : job[j].state = "running"} IN
     /\ slot' = IF slot # NoSlot /\ slot.job \in lost
                   /\ slot.fence = job[slot.job].fence
                THEN PendingSlot ELSE slot
     /\ resources' = resources \ lost
  /\ UNCHANGED <<history, newAttempts, inflight, published, skipped, trouble>>

\* The verifier's contract: it acknowledges exactly this reservation, once the
\* server is done with it and nobody is left to send it.
VerifierAcknowledges ==
  /\ verified
  /\ \A v \in Workers : wk[v].pc \in {"claimed", "calling"} => ~SlotOf(Claim(v))

\* ReconcileCompilerCapacity: without an acknowledgement the slot stays blocked.
ReconcileCompilerCapacity(w) ==
  /\ wk[w].pc = "reconcile"
  /\ \/ /\ slot = NoSlot \/ slot.state = "reserved"
        /\ wk' = [wk EXCEPT ![w].pc = "pick"]
        /\ UNCHANGED <<slot, inflight>>
     \/ /\ slot # NoSlot /\ slot.state = "release_pending"
        /\ \/ /\ VerifierAcknowledges
              /\ slot' = NoSlot
              /\ inflight' = inflight \ {[job |-> slot.job, fence |-> slot.fence]}
              /\ wk' = [wk EXCEPT ![w].pc = "pick"]
           \/ /\ ~VerifierAcknowledges
              /\ wk' = [wk EXCEPT ![w].pc = "pick_blocked"]
              /\ UNCHANGED <<slot, inflight>>
  /\ UNCHANGED <<job, history, resources, newAttempts, published, skipped, trouble>>

\* The scheduler counter, written in the transaction of the reservation.
CountAttempt(j) ==
  newAttempts' = IF j \in NewJobs
                 THEN IF newAttempts < NewLimit THEN newAttempts + 1 ELSE NewLimit
                 ELSE 0

HistoricalReady == \E j \in Jobs \ NewJobs : ~Paused(j) /\ Claimable(j)

Claimed(r) ==
  [r EXCEPT !.state = "running", !.attempts = @ + 1, !.fence = @ + 1, !.held = TRUE,
            !.timer = TRUE, !.valid = TRUE]

\* The claim's writes: attempt, fence, holder, stage space, slot and counter.
claimCompilerJob(w, j) ==
  /\ ~Paused(j) /\ Claimable(j)
  /\ slot = NoSlot
  /\ SpaceFor(j)
  /\ job' = [job EXCEPT ![j] = Claimed(@)]
  /\ resources' = resources \cup {j}
  /\ slot' = [state |-> "reserved", job |-> j, fence |-> job[j].fence + 1]
  /\ CountAttempt(j)
  /\ skipped' = IF j \in NewJobs /\ HistoricalReady THEN skipped + 1 ELSE 0
  /\ wk' = [wk EXCEPT ![w] = At("claimed", j, job[j].fence + 1, "none")]
  /\ UNCHANGED <<history, inflight, published, trouble>>

\* rejectCompilerClaim: the sealed source or the configuration is invalid.
rejectCompilerClaim(w, j) ==
  /\ ~Paused(j) /\ Claimable(j)
  /\ job' = [job EXCEPT ![j].state = "failed"]
  /\ Done(w)
  /\ UNCHANGED <<history, slot, resources, newAttempts, inflight, published, skipped,
                 trouble>>

First(j) == Ready(j) /\ \A i \in Jobs : Ready(i) => Rank(j) <= Rank(i)

\* The step's one choice.  A claim that meets a full slot or full stage space,
\* and a pick with nothing ready, end the step.
PickNothing(w) ==
  /\ wk[w].pc \in {"pick", "pick_blocked"}
  /\ \/ \A j \in Jobs : ~Ready(j)
     \/ \E j \in Jobs : /\ First(j) /\ job[j].state # "staged"
                        /\ wk[w].pc = "pick_blocked" \/ slot # NoSlot \/ ~SpaceFor(j)
  /\ Done(w)
  /\ UNCHANGED <<job, history, slot, resources, newAttempts, inflight, published,
                 skipped, trouble>>

PickStage(w, j) ==
  /\ wk[w].pc \in {"pick", "pick_blocked"}
  /\ First(j) /\ job[j].state = "staged"
  /\ wk' = [wk EXCEPT ![w] = At("adopt", j, 0, "none")]
  /\ UNCHANGED <<job, history, slot, resources, newAttempts, inflight, published,
                 skipped, trouble>>

PickJob(w, j) ==
  /\ wk[w].pc = "pick" /\ First(j) /\ job[j].state # "staged"
  /\ claimCompilerJob(w, j) \/ rejectCompilerClaim(w, j)

Adopted(r) ==
  [r EXCEPT !.fence = @ + 1, !.held = TRUE, !.timer = TRUE, !.valid = TRUE,
            !.stage = r.fence + 1]

\* adoptCompilerStage takes over a saved stage whose holder is gone.
adoptCompilerStage(w) ==
  LET j == wk[w].job IN
  /\ wk[w].pc = "adopt"
  /\ ~Paused(j) /\ Adoptable(j) /\ SpaceFor(j)
  /\ job' = [job EXCEPT ![j] = Adopted(@)]
  /\ resources' = resources \cup {j}
  /\ wk' = [wk EXCEPT ![w] = At("publish", j, job[j].fence + 1, "completed")]
  /\ UNCHANGED <<history, slot, newAttempts, inflight, published, skipped, trouble>>

Dropped(r) == [r EXCEPT !.state = "failed", !.fence = @ + 1, !.held = FALSE]

\* The stage was taken or paused meanwhile, or there is no space for it; or it
\* does not validate, and the job fails.
AdoptFails(w) ==
  LET j == wk[w].job IN
  /\ wk[w].pc = "adopt"
  /\ Done(w)
  /\ \/ (Paused(j) \/ ~Adoptable(j) \/ ~SpaceFor(j)) /\ UNCHANGED <<job, resources>>
     \/ /\ Adoptable(j)
        /\ job' = [job EXCEPT ![j] = Dropped(@)]
        /\ resources' = resources \ {j}
  /\ UNCHANGED <<history, slot, newAttempts, inflight, published, skipped, trouble>>

\* CompileCandidateUnit: the caller claims its own job if it is still queued.
CompileCandidateUnit(w, j) ==
  /\ wk[w].pc = "idle" /\ job[j].state = "queued" /\ j \notin NewJobs
  /\ claimCompilerJob(w, j) \/ rejectCompilerClaim(w, j)

-----------------------------------------------------------------------------
(* runCompilerClaim: ask the server outside any transaction, then stage and *)
(* publish.  ctx is the worker's context: live, cancelled, or cancelled and *)
(* already acted on by the watcher ("stopped").                             *)

\* stopCompilerClaim and cancelCompilerAttempt: give the attempt up.  A host's
\* attempt is retried later, a caller's job is cancelled.
Stopped(w, r) ==
  IF w \in Callers
  THEN [r EXCEPT !.state = "cancelled", !.fence = @ + 1, !.held = FALSE,
                 !.timer = TRUE, !.byHistory = FALSE]
  ELSE IF r.state = "staged"
  THEN [r EXCEPT !.fence = @ + 1, !.held = FALSE]
  ELSE [r EXCEPT !.state = AfterAttempt(r), !.fence = @ + 1, !.held = FALSE,
                 !.timer = r.attempts < MaxAttempts]

\* A lost fence means the job is someone else's: a host may then still free
\* its own slot, on evidence, and never a replacement's.
stopCompilerClaim(w, known) ==
  LET j == wk[w].job
      r == job[j]
  IN IF Current(w)
     THEN /\ job' = [job EXCEPT ![j] = Stopped(w, r)]
          /\ IF r.state = "running" THEN compilerRelease(Claim(w), known)
             ELSE UNCHANGED slot
          /\ resources' = IF w \in Callers \/ r.state = "running"
                          THEN resources \ {j} ELSE resources
     ELSE /\ slot' = IF w \in Hosts /\ known /\ SlotOf(Claim(w)) THEN NoSlot ELSE slot
          /\ UNCHANGED <<job, resources>>

Failed(r, terminal) ==
  [r EXCEPT !.state = IF terminal THEN "failed" ELSE AfterAttempt(r), !.held = FALSE,
            !.timer = ~terminal]

\* failCompilerAttempt, and where the fence is lost, stopCompilerClaim.  A lost
\* fence stays lost, so the two transactions amount to the second one.
failCompilerAttempt(w, known, terminal) ==
  LET j == wk[w].job IN
  IF compilerFence(w, "running")
  THEN /\ compilerRelease(Claim(w), known)
       /\ job' = [job EXCEPT ![j] = Failed(@, terminal)]
       /\ resources' = resources \ {j}
  ELSE stopCompilerClaim(w, known)

\* The request is sent, unless the context ended first or the extractor refuses
\* before sending; then there is evidence that nothing was dispatched.
Dispatch(w) ==
  /\ wk[w].pc = "claimed"
  /\ \/ /\ wk' = [wk EXCEPT ![w].pc = "calling"]
        /\ inflight' = inflight \cup {Claim(w)}
     \/ /\ wk' = [wk EXCEPT ![w] = Answered(@, "not_dispatched", FALSE)]
        /\ UNCHANGED inflight
  /\ UNCHANGED <<job, history, slot, resources, newAttempts, published, skipped,
                 trouble>>

\* The server finishes the request; the client reads the answer or loses it.
\* (external)
ServerFinishes(w) ==
  /\ wk[w].pc = "calling"
  /\ inflight' = inflight \ {Claim(w)}
  /\ \E e \in {"completed", "unknown"}, ok \in BOOLEAN :
       wk' = [wk EXCEPT ![w] = Answered(@, e, ok)]
  /\ UNCHANGED <<job, history, slot, resources, newAttempts, published, skipped,
                 trouble>>

\* The client gives up: its time is over, its context was cancelled, or the
\* heartbeat saw the fence lost.  The server goes on.
ClientLeaves(w) ==
  /\ wk[w].pc = "calling"
  /\ wk' = [wk EXCEPT ![w] = Answered(@, "unknown", FALSE)]
  /\ UNCHANGED <<job, history, slot, resources, newAttempts, inflight, published,
                 skipped, trouble>>

\* A request nobody waits for ends some day. (external)
ServerEnds(c) ==
  /\ c \in inflight
  /\ \A w \in Workers : wk[w].pc = "calling" => Claim(w) # c
  /\ inflight' = inflight \ {c}
  /\ UNCHANGED <<job, history, slot, resources, newAttempts, wk, published, skipped,
                 trouble>>

\* The context ends: a host shuts down, a caller gives up.
Cancel(w) ==
  /\ wk[w].pc \in {"claimed", "calling", "answered", "publish"}
  /\ wk[w].ctx = "live" /\ Trouble
  /\ wk' = [wk EXCEPT ![w].ctx = "cancelled"]
  /\ UNCHANGED <<job, history, slot, resources, newAttempts, inflight, published,
                 skipped>>

\* The watcher fences the attempt before the local client is cancelled.
WatcherStops(w) ==
  /\ wk[w].pc \in {"calling", "answered"} /\ wk[w].ctx = "cancelled"
  /\ stopCompilerClaim(w, FALSE)
  /\ wk' = [wk EXCEPT ![w].ctx = "stopped"]
  /\ UNCHANGED <<history, newAttempts, inflight, published, skipped, trouble>>

releaseKnown(w) == wk[w].evidence \in {"completed", "not_dispatched"}

\* cancelledResult: the attempt ends with what is known of the server.
CancelledResult(w) ==
  /\ wk[w].ctx # "live"
  /\ \/ wk[w].pc = "claimed" /\ stopCompilerClaim(w, TRUE)
     \/ wk[w].pc \in {"answered", "publish"} /\ stopCompilerClaim(w, releaseKnown(w))
  /\ Done(w)
  /\ UNCHANGED <<history, newAttempts, inflight, published, skipped, trouble>>

Usable(w) == wk[w].evidence = "completed" /\ wk[w].ok

\* No usable answer, or staging failed.
FailAttempt(w) ==
  /\ wk[w].pc = "answered" /\ wk[w].ctx = "live"
  /\ \E terminal \in BOOLEAN : failCompilerAttempt(w, releaseKnown(w), terminal)
  /\ Done(w)
  /\ UNCHANGED <<history, newAttempts, inflight, published, skipped, trouble>>

Saved(r, f) == [r EXCEPT !.state = "staged", !.stage = f]

\* stageCompilerResult saves the answer and frees the slot in one transaction.
stageCompilerResult(w) ==
  LET j == wk[w].job IN
  /\ wk[w].pc = "answered" /\ wk[w].ctx = "live" /\ Usable(w)
  /\ job[j].stage = 0
  /\ compilerFence(w, "running")
  /\ compilerRelease(Claim(w), TRUE)
  /\ job' = [job EXCEPT ![j] = Saved(@, wk[w].fence)]
  /\ wk' = [wk EXCEPT ![w].pc = "publish"]
  /\ UNCHANGED <<history, resources, newAttempts, inflight, published, skipped, trouble>>

Published(r) == [r EXCEPT !.state = "completed", !.held = FALSE]

\* publishCompilerResult inserts candidates and coverage and consumes the stage.
publishCompilerResult(w) ==
  LET j == wk[w].job IN
  /\ wk[w].pc = "publish" /\ wk[w].ctx = "live"
  /\ compilerFence(w, "staged") /\ job[j].stage = wk[w].fence
  /\ job' = [job EXCEPT ![j] = Published(@)]
  /\ resources' = resources \ {j}
  /\ published' = [published EXCEPT ![j] = @ + 1]
  /\ Done(w)
  /\ UNCHANGED <<history, slot, newAttempts, inflight, skipped, trouble>>

\* The fence is lost, or the publication failed: the lease is left to lapse.
PublishFails(w) ==
  /\ wk[w].pc = "publish" /\ wk[w].ctx = "live"
  /\ compilerFence(w, "staged") => trouble < MaxTrouble
  /\ trouble' = IF compilerFence(w, "staged") THEN trouble + 1 ELSE trouble
  /\ Done(w)
  /\ UNCHANGED <<job, history, slot, resources, newAttempts, inflight, published,
                 skipped>>

-----------------------------------------------------------------------------
(* Time and crashes.                                                       *)

Attended(j) == \E w \in Workers : wk[w].job = j /\ wk[w].pc # "adopt" /\ Current(w)

\* A due time comes, or the lease of a claim nobody holds any more lapses.
Lapse(j) ==
  /\ job[j].timer /\ ~Attended(j)
  /\ job[j].held \/ job[j].state = "retry_wait"
  /\ job' = [job EXCEPT ![j].timer = FALSE]
  /\ UNCHANGED <<history, slot, resources, newAttempts, inflight, wk, published,
                 skipped, trouble>>

\* A holder's heartbeat stalls for the whole lease.
Stall(j) ==
  /\ Attended(j) /\ Trouble
  /\ job' = [job EXCEPT ![j].timer = FALSE]
  /\ UNCHANGED <<history, slot, resources, newAttempts, inflight, wk, published, skipped>>

\* The process dies; its request, if any, may go on at the server.
Crash(w) ==
  /\ wk[w].pc # "idle" /\ Trouble
  /\ Done(w)
  /\ UNCHANGED <<job, history, slot, resources, newAttempts, inflight, published, skipped>>

-----------------------------------------------------------------------------
HostStep(w) ==
  \/ RecoverCompilerWork(w) \/ ReconcileCompilerCapacity(w) \/ PickNothing(w)
  \/ \E j \in Jobs : PickStage(w, j) \/ PickJob(w, j)
  \/ adoptCompilerStage(w) \/ AdoptFails(w)

ClaimStep(w) ==
  \/ Dispatch(w) \/ ServerFinishes(w) \/ ClientLeaves(w) \/ WatcherStops(w)
  \/ CancelledResult(w) \/ FailAttempt(w)
  \/ stageCompilerResult(w) \/ publishCompilerResult(w) \/ PublishFails(w)

OwnerStep ==
  \/ CancelCompilerHistory \/ ResumeCompilerHistory
  \/ \E j \in Jobs : CancelCompilation(j) \/ OwnerResumes(j) \/ PauseWork(j)
                     \/ ResumeWork(j)

Act ==
  \/ \E j \in Jobs : selectCompilerUnit(j) \/ Lapse(j) \/ Stall(j)
  \/ OwnerStep \/ resumeCompilerHistoryStep
  \/ \E w \in Hosts : HostStep(w)
  \/ \E w \in Callers, j \in Jobs : CompileCandidateUnit(w, j)
  \/ \E w \in Workers : ClaimStep(w) \/ Cancel(w) \/ Crash(w)
  \/ \E c \in inflight : ServerEnds(c)

Next == Act /\ UNCHANGED verified

Spec == Init /\ [][Next]_vars

(***************************************************************************)
(* Fairness.  A host polls for ever, a call ends within its time limit,    *)
(* time passes, and an owner who paused or cancelled is not obliged to     *)
(* come back.  Nothing is assumed of selection, of trouble or of callers   *)
(* starting.                                                               *)
(***************************************************************************)
Fairness ==
  /\ \A w \in Hosts : WF_vars(HostStep(w) /\ UNCHANGED verified)
  /\ \A w \in Workers : WF_vars(ClaimStep(w) /\ UNCHANGED verified)
  /\ \A j \in Jobs : WF_vars(Lapse(j) /\ UNCHANGED verified)
  /\ WF_vars(resumeCompilerHistoryStep /\ UNCHANGED verified)

FairSpec == Spec /\ Fairness

-----------------------------------------------------------------------------
(* Properties.                                                             *)

Rows == [state : States, attempts : 0..MaxAttempts, fence : Nat, held : BOOLEAN,
         timer : BOOLEAN, valid : BOOLEAN, paused : BOOLEAN, stage : Nat,
         byHistory : BOOLEAN]

\* The rows, the slot and the workers hold values of their kinds, and no job is
\* claimed more than MaxAttempts times.
TypeOK ==
  /\ job \in [Jobs -> Rows]
  /\ history \in {"active", "cancelled", "resuming"}
  /\ slot = NoSlot \/ slot \in [state : {"reserved", "release_pending"}, job : Jobs,
                                fence : Nat]
  /\ resources \subseteq Jobs
  /\ newAttempts \in 0..NewLimit
  /\ inflight \subseteq [job : Jobs, fence : Nat]
  /\ published \in [Jobs -> Nat]

\* The one slot covers the server: a request the server may still be working on
\* is the one the slot was reserved for, so two never run at once, whatever
\* crashes, lapses, cancellations and late answers happen.
OneRequest == \A c \in inflight : SlotOf(c)

\* A job's candidates and coverage are inserted exactly when it completes, and
\* once, by whichever worker adopted its stage last.
PublishedOnce ==
  \A j \in Jobs : published[j] = (IF job[j].state = "completed" THEN 1 ELSE 0)

\* Stage space is held exactly by the jobs that are running or staged: no path
\* through cancellation, recovery or adoption leaks it or gives it up early.
SpaceFollowsJobs ==
  resources = {j \in Jobs : job[j].state \in {"running", "staged"}}

\* A reserved slot belongs to a running claim of that very fence: no answer, loss
\* or cancellation leaves the slot reserved for an attempt that is over.
ReservedForTheAttempt ==
  slot # NoSlot /\ slot.state = "reserved" =>
    /\ job[slot.job].state = "running" /\ job[slot.job].held
    /\ job[slot.job].fence = slot.fence

\* The live lane cannot starve the historical one: a historical job that waits
\* all along is passed by at most NewLimit claims of new jobs.
HistoryNotStarved == skipped <= NewLimit

\* The queue is sound: attempts are bounded, a result is published once, stage
\* space is neither leaked nor given up early, and no lane starves.
QueueIsSound == TypeOK /\ PublishedOnce /\ SpaceFollowsJobs /\ HistoryNotStarved

\* The slot is sound: it covers every request, and it is reserved for no attempt
\* that is over.
SlotIsSound == OneRequest /\ ReservedForTheAttempt

\* What is over stays over.  No request starts for a job whose answer is saved,
\* also after the owner cancels and resumes it; and a claim made before its
\* activation was paused writes nothing after it, even when the activation is
\* resumed while the claim is still in hand.
LateClaimsWriteNothing ==
  [][/\ \A c \in inflight' \ inflight : job[c.job].stage = 0
     /\ \A w \in Workers : wk[w].old =>
          /\ published'[wk[w].job] > published[wk[w].job] => wk'[w] = wk[w]
          /\ job'[wk[w].job].stage # job[wk[w].job].stage => wk'[w] = wk[w]]_vars

\* With a verifier, every selected job comes to an end, or stays with the owner
\* who paused it, or waits for the stage space that paused jobs hold.  Without
\* one a lost request blocks the slot for good; answers already saved are
\* published all the same.
JobsSettle ==
  []<>(\A j \in Jobs :
         job[j].state = "staged" \/ (verified /\ job[j].state \in Unfinished)
           => Paused(j) \/ ~SpaceFor(j))
=============================================================================
