------------------------ MODULE MemoryCompilerProofs ------------------------
(***************************************************************************)
(* The safety of the memory compiler's queue, for any jobs, hosts, callers *)
(* and limits.  The inductive invariant ties the workers' memory to the    *)
(* rows: a fence, once moved, leaves every earlier claim behind it; the    *)
(* slot belongs to whoever may still send or is still sending; and a job   *)
(* with a saved answer is never again one that the slot is reserved for.   *)
(***************************************************************************)
EXTENDS MemoryCompiler, TLAPS

(* The places of a worker that has a claim.                                *)
Holding == {"claimed", "calling", "answered", "publish"}
Places == Holding \cup {"idle", "reconcile", "pick", "pick_blocked", "adopt"}

(* The values of a worker's local state.                                   *)
Evidence == {"none", "completed", "unknown", "not_dispatched"}
Locals == [pc : Places, job : Jobs \cup {NoJob}, fence : Nat,
           ctx : {"live", "cancelled", "stopped"}, evidence : Evidence,
           ok : BOOLEAN, old : BOOLEAN]
WorkersOK == wk \in [Workers -> Locals]

(* A worker with a claim has a job and a fence that its row has reached;   *)
(* one without has neither fence nor stale claim.                          *)
ClaimsAreReal ==
  \A w \in Workers :
    /\ wk[w].pc \in Holding => /\ wk[w].job \in Jobs /\ wk[w].fence > 0
                               /\ wk[w].fence <= job[wk[w].job].fence
    /\ wk[w].pc \notin Holding => wk[w].fence = 0 /\ ~wk[w].old
    /\ wk[w].pc \notin Holding \cup {"adopt"} => wk[w].job = NoJob
    /\ wk[w].pc = "adopt" => wk[w].job \in Jobs

(* No two workers have the same claim.                                     *)
ClaimsAreDistinct ==
  \A v, w \in Workers :
    wk[v].pc \in Holding /\ wk[w].pc \in Holding /\ Claim(v) = Claim(w) => v = w

(* A held row is running or staged, and was claimed.                       *)
HeldIsAtWork ==
  \A j \in Jobs : job[j].held => job[j].state \in {"running", "staged"} /\ job[j].fence > 0

(* A row has a saved answer when it is staged, and none before.            *)
StageMatchesState ==
  \A j \in Jobs :
    /\ job[j].state = "staged" => job[j].stage # 0
    /\ job[j].state \in {"none", "queued", "running", "retry_wait"} => job[j].stage = 0

(* The slot is for a claim that was made, of a job without an answer.      *)
SlotIsReal ==
  slot # NoSlot => slot.fence <= job[slot.job].fence /\ job[slot.job].stage = 0

(* Whoever may still send, or waits for the answer, has the slot; whoever  *)
(* knows the server to be done has nothing there.                          *)
SlotCoversSenders ==
  \A w \in Workers :
    /\ wk[w].pc \in {"claimed", "calling"} => SlotOf(Claim(w))
    /\ wk[w].pc = "claimed" => Claim(w) \notin inflight
    /\ wk[w].pc \in {"answered", "publish"} /\ releaseKnown(w) => Claim(w) \notin inflight

(* A claim made before a pause is invalid for as long as it is its row's.  *)
OldIsInvalid ==
  \A w \in Workers : wk[w].old /\ job[wk[w].job].fence = wk[w].fence => ~job[wk[w].job].valid

(* Each claim of a new job that passes a waiting historical one counts.    *)
SkipsAreCounted == skipped \in Nat /\ skipped <= newAttempts

IInv ==
  /\ TypeOK /\ WorkersOK /\ ClaimsAreReal /\ ClaimsAreDistinct
  /\ HeldIsAtWork /\ StageMatchesState /\ SlotIsReal /\ SlotCoversSenders
  /\ OldIsInvalid /\ SkipsAreCounted
  /\ OneRequest /\ ReservedForTheAttempt /\ PublishedOnce /\ SpaceFollowsJobs

-----------------------------------------------------------------------------
(* What each update makes of a row, and of a worker.                       *)

LEMMA CancelledRow ==
  ASSUME NEW r \in Rows, NEW b \in BOOLEAN
  PROVE  LET n == Cancelled(r, b) IN
         /\ n \in Rows /\ n.state = "cancelled" /\ n.fence = r.fence + 1 /\ ~n.held
         /\ n.attempts = r.attempts /\ n.valid = r.valid /\ n.stage = r.stage
<1>1. /\ r.fence + 1 \in Nat /\ "cancelled" \in States /\ FALSE \in BOOLEAN
      /\ (r.state = "retry_wait" => r.timer) \in BOOLEAN
  BY DEF Rows, States
<1>2. Cancelled(r, b) \in Rows
  BY <1>1, Zenon DEF Cancelled, Rows
<1> QED
  BY <1>1, <1>2 DEF Cancelled, Rows

LEMMA ResumedRow ==
  ASSUME NEW r \in Rows
  PROVE  LET n == Resumed(r) IN
         /\ n \in Rows /\ n.fence = r.fence /\ n.held = r.held
         /\ n.state \in IF r.stage # 0 THEN {"staged"} ELSE {"retry_wait", "queued"}
         /\ n.attempts = r.attempts /\ n.valid = r.valid /\ n.stage = r.stage
<1>1. /\ {"staged", "retry_wait", "queued"} \subseteq States /\ FALSE \in BOOLEAN
  BY DEF States, Unfinished
<1>2. Resumed(r) \in Rows
  BY <1>1, Zenon DEF Resumed, Rows
<1> QED
  BY <1>1, <1>2 DEF Resumed, Rows

LEMMA SuspendedRow ==
  ASSUME NEW r \in Rows
  PROVE  LET n == Suspended(r) IN
         /\ n \in Rows /\ n.state = r.state /\ n.fence = r.fence /\ n.held = r.held
         /\ n.attempts = r.attempts /\ ~n.valid /\ n.stage = r.stage
<1>1. /\ TRUE \in BOOLEAN /\ FALSE \in BOOLEAN
  BY DEF Rows
<1>2. Suspended(r) \in Rows
  BY <1>1, Zenon DEF Suspended, Rows
<1> QED
  BY <1>1, <1>2 DEF Suspended, Rows

LEMMA UnpausedRow ==
  ASSUME NEW r \in Rows
  PROVE  LET n == Unpaused(r) IN
         /\ n \in Rows /\ n.state = r.state /\ n.fence = r.fence /\ n.held = r.held
         /\ n.attempts = r.attempts /\ n.valid = r.valid /\ n.stage = r.stage
<1>1. FALSE \in BOOLEAN
  BY DEF Rows
<1>2. Unpaused(r) \in Rows
  BY <1>1, Zenon DEF Unpaused, Rows
<1> QED
  BY <1>1, <1>2 DEF Unpaused, Rows

LEMMA RecoveredRow ==
  ASSUME NEW r \in Rows
  PROVE  LET n == Recovered(r) IN
         /\ n \in Rows /\ n.fence = r.fence + 1 /\ ~n.held
         /\ n.state \in IF r.state = "running" THEN {"failed", "retry_wait"} ELSE {r.state}
         /\ n.attempts = r.attempts /\ n.valid = r.valid /\ n.stage = r.stage
<1>1. /\ r.fence + 1 \in Nat /\ FALSE \in BOOLEAN /\ (r.attempts < MaxAttempts) \in BOOLEAN
      /\ AfterAttempt(r) \in States /\ AfterAttempt(r) \in {"failed", "retry_wait"}
  BY DEF Rows, States, Unfinished, AfterAttempt
<1>2. Recovered(r) \in Rows
  BY <1>1, Zenon DEF Recovered, Rows
<1> QED
  BY <1>1, <1>2 DEF Recovered, Rows

LEMMA ClaimedRow ==
  ASSUME NEW r \in Rows, r.attempts < MaxAttempts
  PROVE  LET n == Claimed(r) IN
         /\ n \in Rows /\ n.state = "running" /\ n.fence = r.fence + 1 /\ n.held
         /\ n.valid /\ n.stage = r.stage
<1>1. /\ r.fence + 1 \in Nat /\ "running" \in States /\ TRUE \in BOOLEAN
      /\ r.attempts + 1 \in 0..MaxAttempts
  BY CompilerAssumption DEF Rows, States, Unfinished
<1>2. Claimed(r) \in Rows
  BY <1>1, Zenon DEF Claimed, Rows
<1> QED
  BY <1>1, <1>2 DEF Claimed, Rows

LEMMA AdoptedRow ==
  ASSUME NEW r \in Rows
  PROVE  LET n == Adopted(r) IN
         /\ n \in Rows /\ n.state = r.state /\ n.fence = r.fence + 1 /\ n.held
         /\ n.valid /\ n.stage = r.fence + 1
<1>1. r.fence + 1 \in Nat /\ TRUE \in BOOLEAN
  BY DEF Rows
<1>2. Adopted(r) \in Rows
  BY <1>1, Zenon DEF Adopted, Rows
<1> QED
  BY <1>1, <1>2 DEF Adopted, Rows

LEMMA DroppedRow ==
  ASSUME NEW r \in Rows
  PROVE  LET n == Dropped(r) IN
         /\ n \in Rows /\ n.state = "failed" /\ n.fence = r.fence + 1 /\ ~n.held
         /\ n.attempts = r.attempts /\ n.valid = r.valid /\ n.stage = r.stage
<1>1. r.fence + 1 \in Nat /\ "failed" \in States /\ FALSE \in BOOLEAN
  BY DEF Rows, States
<1>2. Dropped(r) \in Rows
  BY <1>1, Zenon DEF Dropped, Rows
<1> QED
  BY <1>1, <1>2 DEF Dropped, Rows

LEMMA FailedRow ==
  ASSUME NEW r \in Rows, NEW b \in BOOLEAN
  PROVE  LET n == Failed(r, b) IN
         /\ n \in Rows /\ n.state \in {"failed", "retry_wait"} /\ n.fence = r.fence /\ ~n.held
         /\ n.attempts = r.attempts /\ n.valid = r.valid /\ n.stage = r.stage
<1>1. /\ "failed" \in States /\ AfterAttempt(r) \in States /\ FALSE \in BOOLEAN
      /\ AfterAttempt(r) \in {"failed", "retry_wait"} /\ (~b) \in BOOLEAN
  BY DEF States, Unfinished, AfterAttempt
<1>2. Failed(r, b) \in Rows
  BY <1>1, Zenon DEF Failed, Rows
<1> QED
  BY <1>1, <1>2 DEF Failed, Rows

LEMMA StoppedRow ==
  ASSUME NEW r \in Rows, NEW w \in Workers
  PROVE  LET n == Stopped(w, r) IN
         /\ n \in Rows /\ n.fence = r.fence + 1 /\ ~n.held
         /\ n.state \in IF w \in Callers THEN {"cancelled"}
                         ELSE IF r.state = "staged" THEN {"staged"} ELSE {"failed", "retry_wait"}
         /\ n.attempts = r.attempts /\ n.valid = r.valid /\ n.stage = r.stage
<1>1. /\ r.fence + 1 \in Nat /\ "cancelled" \in States /\ TRUE \in BOOLEAN /\ FALSE \in BOOLEAN
      /\ AfterAttempt(r) \in States /\ AfterAttempt(r) \in {"failed", "retry_wait"}
      /\ (r.attempts < MaxAttempts) \in BOOLEAN
  BY DEF Rows, States, Unfinished, AfterAttempt
<1>2. Stopped(w, r) \in Rows
  BY <1>1, Zenon DEF Stopped, Rows
<1> QED
  BY <1>1, <1>2 DEF Stopped, Rows

LEMMA SavedRow ==
  ASSUME NEW r \in Rows, NEW f \in Nat
  PROVE  LET n == Saved(r, f) IN
         /\ n \in Rows /\ n.state = "staged" /\ n.fence = r.fence /\ n.held = r.held
         /\ n.attempts = r.attempts /\ n.valid = r.valid /\ n.stage = f
<1>1. "staged" \in States
  BY DEF States, Unfinished
<1>2. Saved(r, f) \in Rows
  BY <1>1, Zenon DEF Saved, Rows
<1> QED
  BY <1>1, <1>2 DEF Saved, Rows

LEMMA PublishedRow ==
  ASSUME NEW r \in Rows
  PROVE  LET n == Published(r) IN
         /\ n \in Rows /\ n.state = "completed" /\ n.fence = r.fence /\ ~n.held
         /\ n.attempts = r.attempts /\ n.valid = r.valid /\ n.stage = r.stage
<1>1. "completed" \in States /\ FALSE \in BOOLEAN
  BY DEF States
<1>2. Published(r) \in Rows
  BY <1>1, Zenon DEF Published, Rows
<1> QED
  BY <1>1, <1>2 DEF Published, Rows

LEMMA AtLocal ==
  ASSUME NEW p \in Places, NEW j \in Jobs \cup {NoJob}, NEW f \in Nat, NEW e \in Evidence
  PROVE  LET n == At(p, j, f, e) IN
         /\ n \in Locals /\ n.pc = p /\ n.job = j /\ n.fence = f /\ n.evidence = e
         /\ ~n.old
  BY DEF At, Idle, Locals

LEMMA AnsweredLocal ==
  ASSUME NEW l \in Locals, NEW e \in Evidence, NEW b \in BOOLEAN
  PROVE  LET n == Answered(l, e, b) IN
         /\ n \in Locals /\ n.pc = "answered" /\ n.evidence = e /\ n.job = l.job
         /\ n.fence = l.fence /\ n.old = l.old
<1>1. "answered" \in Places
  BY DEF Places, Holding
<1>2. Answered(l, e, b) \in Locals
  BY <1>1, Zenon DEF Answered, Locals
<1> QED
  BY <1>2 DEF Answered, Locals

LEMMA IdleLocal ==
  /\ Idle \in Locals /\ Idle.pc = "idle" /\ Idle.job = NoJob /\ Idle.fence = 0 /\ ~Idle.old
  BY DEF Idle, Locals, Places, Holding, Evidence

LEMMA MovedLocal ==
  ASSUME NEW l \in Locals, NEW p \in Places
  PROVE  LET n == [l EXCEPT !.pc = p] IN
         /\ n \in Locals /\ n.pc = p /\ n.job = l.job /\ n.fence = l.fence
         /\ n.evidence = l.evidence /\ n.old = l.old
<1>1. [l EXCEPT !.pc = p] \in Locals
  BY Zenon DEF Locals
<1> QED
  BY <1>1 DEF Locals

-----------------------------------------------------------------------------
(* What most steps leave alone.                                            *)

(* A worker keeps its claim; or it has none after the step.                *)
KeepsClaim(v) ==
  /\ wk[v].pc \in Holding /\ wk'[v].pc \in Holding
  /\ wk'[v].job = wk[v].job /\ wk'[v].fence = wk[v].fence /\ wk'[v].old = wk[v].old
HasNoClaim(v) ==
  /\ wk'[v].pc \notin Holding /\ wk'[v].fence = 0 /\ ~wk'[v].old
  /\ wk'[v].job \in IF wk'[v].pc = "adopt" THEN Jobs ELSE {NoJob}

(* Fences only grow, and a claim becomes valid only with a new fence.      *)
RowsMoveOn ==
  \A k \in Jobs : /\ job'[k].fence >= job[k].fence
                  /\ job'[k].fence = job[k].fence /\ job'[k].valid => job[k].valid

(* The worker is no new sender, and knows nothing new about its request.   *)
SendsNothingNew(v) ==
  /\ KeepsClaim(v)
  /\ wk'[v].pc \in {"claimed", "calling"} => wk'[v].pc = wk[v].pc
  /\ wk'[v].pc \in {"answered", "publish"} =>
       \/ wk[v].pc \in {"answered", "publish"} /\ wk'[v].evidence = wk[v].evidence
       \/ wk'[v].evidence \notin {"completed", "not_dispatched"}
       \/ Claim(v) \notin inflight'

SlotStays == slot' = slot \/ (slot # NoSlot /\ slot' = PendingSlot)

LEMMA Unmoved ==
  ASSUME IInv, NEW v \in Workers, wk'[v] = wk[v], inflight' \subseteq inflight
  PROVE  HasNoClaim(v) \/ (KeepsClaim(v) /\ SendsNothingNew(v))
  BY DEF IInv, ClaimsAreReal, HasNoClaim, KeepsClaim, SendsNothingNew, Holding

LEMMA ClaimsKeep ==
  ASSUME IInv, TypeOK', WorkersOK', RowsMoveOn,
         \A v \in Workers : KeepsClaim(v) \/ HasNoClaim(v)
  PROVE  ClaimsAreReal' /\ ClaimsAreDistinct' /\ OldIsInvalid'
<1> USE DEF KeepsClaim, HasNoClaim
<1>1. ClaimsAreReal'
  BY DEF IInv, ClaimsAreReal, RowsMoveOn, TypeOK, Rows, WorkersOK, Locals, Holding
<1>2. ClaimsAreDistinct'
  BY DEF IInv, ClaimsAreDistinct, Claim
<1>3. OldIsInvalid'
  BY DEF IInv, ClaimsAreReal, OldIsInvalid, RowsMoveOn, TypeOK, Rows, WorkersOK, Locals
<1> QED
  BY <1>1, <1>2, <1>3

LEMMA CoverKeeps ==
  ASSUME IInv, SlotStays, inflight' \subseteq inflight,
         \A v \in Workers : SendsNothingNew(v) \/ HasNoClaim(v)
  PROVE  SlotCoversSenders' /\ OneRequest'
<1>1. \A c : SlotOf(c) => SlotOf(c)'
  BY DEF SlotStays, SlotOf, PendingSlot, NoSlot
<1>2. OneRequest'
  BY <1>1 DEF IInv, OneRequest
<1>3. SlotCoversSenders'
  BY <1>1 DEF IInv, SlotCoversSenders, SendsNothingNew, KeepsClaim, HasNoClaim, Holding, Claim,
           releaseKnown
<1> QED
  BY <1>2, <1>3

(* The slot is freed by the claim it was reserved for, once the server is  *)
(* known to have nothing of it: then the server has nothing at all.        *)
LEMMA FreeKeeps ==
  ASSUME IInv, NEW w \in Workers, wk[w].pc \in Holding, SlotOf(Claim(w)),
         Claim(w) \notin inflight, slot' = NoSlot, inflight' = inflight,
         HasNoClaim(w) \/ (KeepsClaim(w) /\ wk'[w].pc = "publish"),
         \A v \in Workers \ {w} : wk'[v] = wk[v]
  PROVE  SlotCoversSenders' /\ OneRequest'
<1>1. inflight = {}
  <2>1. \A c \in inflight : c = [job |-> c.job, fence |-> c.fence]
    BY DEF IInv, TypeOK
  <2> QED
    BY <2>1 DEF IInv, OneRequest, SlotOf, Claim
<1>2. \A v \in Workers \ {w} : wk[v].pc \notin {"claimed", "calling"}
  <2> SUFFICES ASSUME NEW v \in Workers \ {w}, wk[v].pc \in {"claimed", "calling"}
               PROVE  FALSE
    OBVIOUS
  <2>1. SlotOf(Claim(v))
    BY DEF IInv, SlotCoversSenders
  <2>2. Claim(v) = Claim(w)
    BY <2>1 DEF SlotOf, Claim
  <2> QED
    BY <2>2 DEF IInv, ClaimsAreDistinct, Holding
<1>3. OneRequest'
  BY <1>1 DEF OneRequest
<1>4. SlotCoversSenders'
  BY <1>1, <1>2 DEF SlotCoversSenders, HasNoClaim, Holding
<1> QED
  BY <1>3, <1>4

(* What LateClaimsWriteNothing says of a step.                             *)
WritesNothingLate ==
  /\ \A c \in inflight' \ inflight : job[c.job].stage = 0
  /\ \A w \in Workers : wk[w].old =>
       /\ published'[wk[w].job] > published[wk[w].job] => wk'[w] = wk[w]
       /\ job'[wk[w].job].stage # job[wk[w].job].stage => wk'[w] = wk[w]

LEMMA NothingLate ==
  ASSUME IInv, inflight' \subseteq inflight, published' = published,
         \A k \in Jobs : job'[k].stage = job[k].stage
  PROVE  WritesNothingLate
<1>1. \A w \in Workers : wk[w].old => wk[w].job \in Jobs
  BY DEF IInv, ClaimsAreReal
<1>2. \A k \in Jobs : ~(published[k] > published[k])
  BY DEF IInv, TypeOK
<1> QED
  BY <1>1, <1>2 DEF WritesNothingLate

(* A step that claims, sends, publishes and frees nothing: what remains to *)
(* be shown of it is about the rows, the stage space and the slot.         *)
LEMMA StepKeeps ==
  ASSUME IInv, TypeOK', WorkersOK', UNCHANGED <<newAttempts, skipped, published>>,
         inflight' \subseteq inflight, SlotStays, RowsMoveOn,
         \A v \in Workers : SendsNothingNew(v) \/ HasNoClaim(v),
         \A k \in Jobs : job'[k].stage = job[k].stage,
         HeldIsAtWork', StageMatchesState', PublishedOnce', SpaceFollowsJobs',
         SlotIsReal', ReservedForTheAttempt'
  PROVE  IInv' /\ WritesNothingLate
<1>1. ClaimsAreReal' /\ ClaimsAreDistinct' /\ OldIsInvalid'
  BY ClaimsKeep DEF SendsNothingNew
<1>2. SlotCoversSenders' /\ OneRequest'
  BY CoverKeeps
<1>3. SkipsAreCounted'
  BY DEF IInv, SkipsAreCounted
<1>4. WritesNothingLate
  BY NothingLate
<1> QED
  BY <1>1, <1>2, <1>3, <1>4 DEF IInv

(* And if no row, no space and no slot changes, nothing remains.           *)
LEMMA WorkerStepKeeps ==
  ASSUME IInv, WorkersOK', inflight' \subseteq inflight,
         UNCHANGED <<job, history, slot, resources, newAttempts, published, skipped>>,
         \A v \in Workers : SendsNothingNew(v) \/ HasNoClaim(v)
  PROVE  IInv' /\ WritesNothingLate
<1>1. TypeOK'
  BY DEF IInv, TypeOK
<1>2. RowsMoveOn /\ SlotStays /\ \A k \in Jobs : job'[k].stage = job[k].stage
  BY DEF IInv, TypeOK, Rows, RowsMoveOn, SlotStays
<1>3. HeldIsAtWork' /\ StageMatchesState' /\ PublishedOnce' /\ SpaceFollowsJobs'
  BY DEF IInv, HeldIsAtWork, StageMatchesState, PublishedOnce, SpaceFollowsJobs
<1>4. SlotIsReal' /\ ReservedForTheAttempt'
  BY DEF IInv, SlotIsReal, ReservedForTheAttempt
<1> QED
  BY <1>1, <1>2, <1>3, <1>4, StepKeeps

(* A step of the rows alone: the workers stay where they are.              *)
LEMMA WorkersWait ==
  ASSUME IInv, UNCHANGED wk, inflight' \subseteq inflight
  PROVE  WorkersOK' /\ \A v \in Workers : SendsNothingNew(v) \/ HasNoClaim(v)
  BY Unmoved DEF IInv, WorkersOK

LEMMA RowStepKeeps ==
  ASSUME IInv, TypeOK', UNCHANGED <<inflight, wk, newAttempts, skipped, published>>,
         SlotStays, RowsMoveOn, \A k \in Jobs : job'[k].stage = job[k].stage,
         HeldIsAtWork', StageMatchesState', PublishedOnce', SpaceFollowsJobs',
         SlotIsReal', ReservedForTheAttempt'
  PROVE  IInv' /\ WritesNothingLate
  BY WorkersWait, StepKeeps

(* A worker moves, keeps or loses its claim, and the others wait.          *)
LEMMA OneWorkerMoves ==
  ASSUME IInv, NEW w \in Workers, NEW l \in Locals, wk' = [wk EXCEPT ![w] = l],
         inflight' \subseteq inflight, SendsNothingNew(w) \/ HasNoClaim(w)
  PROVE  WorkersOK' /\ \A v \in Workers : SendsNothingNew(v) \/ HasNoClaim(v)
<1>1. WorkersOK' /\ \A v \in Workers \ {w} : wk'[v] = wk[v]
  BY DEF IInv, WorkersOK
<1> QED
  BY <1>1, Unmoved

LEMMA WorkerRests ==
  ASSUME IInv, NEW w \in Workers, Done(w), inflight' \subseteq inflight
  PROVE  /\ WorkersOK' /\ HasNoClaim(w)
         /\ \A v \in Workers \ {w} : wk'[v] = wk[v]
         /\ \A v \in Workers : SendsNothingNew(v) \/ HasNoClaim(v)
<1>1. wk' = [wk EXCEPT ![w] = Idle] /\ wk'[w] = Idle /\ \A v \in Workers \ {w} : wk'[v] = wk[v]
  BY DEF Done, IInv, WorkersOK
<1>2. HasNoClaim(w)
  BY <1>1, IdleLocal DEF HasNoClaim, Holding
<1> QED
  BY <1>1, <1>2, IdleLocal, OneWorkerMoves

-----------------------------------------------------------------------------
(* Selection, the owner's commands and the clock.                          *)

(* What a change of one row means for the conjuncts about rows, when the   *)
(* row is not claimed, saved or published by it.                           *)
LEMMA OneRowChanges ==
  ASSUME IInv, NEW j \in Jobs, NEW n \in Rows, job' = [job EXCEPT ![j] = n],
         n.fence >= job[j].fence, n.stage = job[j].stage,
         n.fence = job[j].fence /\ n.valid => job[j].valid,
         n.held => job[j].held /\ n.state = job[j].state,
         n.state = "staged" => n.stage # 0,
         n.state \in {"none", "queued", "running", "retry_wait"} => n.stage = 0,
         n.state = "completed" <=> job[j].state = "completed",
         published' = published,
         resources' = IF n.state \in {"running", "staged"} THEN resources \cup {j}
                                                          ELSE resources \ {j},
         SlotStays \/ slot' = NoSlot,
         slot' # NoSlot /\ slot'.state = "reserved" /\ slot'.job = j =>
           n.state = "running" /\ n.held /\ n.fence = slot'.fence
  PROVE  /\ job' \in [Jobs -> Rows] /\ resources' \subseteq Jobs /\ RowsMoveOn
         /\ \A k \in Jobs : job'[k].stage = job[k].stage
         /\ HeldIsAtWork' /\ StageMatchesState' /\ PublishedOnce' /\ SpaceFollowsJobs'
         /\ SlotIsReal' /\ ReservedForTheAttempt'
<1>1. /\ job' \in [Jobs -> Rows] /\ job'[j] = n /\ \A k \in Jobs \ {j} : job'[k] = job[k]
      /\ job \in [Jobs -> Rows] /\ resources \subseteq Jobs
  BY DEF IInv, TypeOK
<1>2. RowsMoveOn /\ \A k \in Jobs : job'[k].stage = job[k].stage
  BY <1>1 DEF RowsMoveOn, Rows
<1>3. HeldIsAtWork'
  BY <1>1 DEF IInv, HeldIsAtWork, Rows
<1>4. StageMatchesState'
  BY <1>1 DEF IInv, StageMatchesState
<1>5. PublishedOnce'
  BY <1>1 DEF IInv, PublishedOnce
<1>6. SpaceFollowsJobs'
  <2>1. \A k \in Jobs : k \in resources <=> job[k].state \in {"running", "staged"}
    BY DEF IInv, SpaceFollowsJobs
  <2>2. \A k \in Jobs : k \in resources' <=> job'[k].state \in {"running", "staged"}
    BY <1>1, <2>1
  <2> QED
    BY <1>1, <2>2 DEF SpaceFollowsJobs
<1>7. slot' # NoSlot => slot' \in [state : {"reserved", "release_pending"}, job : Jobs, fence : Nat]
                        /\ slot # NoSlot /\ slot'.job = slot.job /\ slot'.fence = slot.fence
                        /\ (slot'.state = "reserved" => slot' = slot)
  BY DEF IInv, TypeOK, SlotStays, PendingSlot
<1>8. SlotIsReal'
  BY <1>1, <1>7 DEF IInv, SlotIsReal, Rows
<1>9. ReservedForTheAttempt'
  BY <1>1, <1>7 DEF IInv, ReservedForTheAttempt
<1> QED
  BY <1>1, <1>2, <1>3, <1>4, <1>5, <1>6, <1>8, <1>9

(* A row changes in its times and its pause alone.                         *)
LEMMA SameRowKeeps ==
  ASSUME IInv, NEW j \in Jobs, NEW n \in Rows, job' = [job EXCEPT ![j] = n],
         n.state = job[j].state, n.fence = job[j].fence, n.held = job[j].held,
         n.valid => job[j].valid, n.stage = job[j].stage,
         UNCHANGED <<slot, resources, published>>
  PROVE  /\ job' \in [Jobs -> Rows] /\ RowsMoveOn
         /\ \A k \in Jobs : job'[k].stage = job[k].stage
         /\ HeldIsAtWork' /\ StageMatchesState' /\ PublishedOnce' /\ SpaceFollowsJobs'
         /\ SlotIsReal' /\ ReservedForTheAttempt' /\ SlotStays
<1>1. /\ n.state = "staged" => n.stage # 0
      /\ n.state \in {"none", "queued", "running", "retry_wait"} => n.stage = 0
  BY DEF IInv, StageMatchesState
<1>2. resources' = IF n.state \in {"running", "staged"} THEN resources \cup {j}
                                                         ELSE resources \ {j}
  BY DEF IInv, SpaceFollowsJobs
<1>3. slot' # NoSlot /\ slot'.state = "reserved" /\ slot'.job = j =>
        n.state = "running" /\ n.held /\ n.fence = slot'.fence
  BY DEF IInv, ReservedForTheAttempt
<1>4. SlotStays /\ n.fence >= job[j].fence
  BY DEF SlotStays, Rows
<1> QED
  BY <1>1, <1>2, <1>3, <1>4, OneRowChanges

LEMMA SetState ==
  ASSUME NEW r \in Rows, NEW s \in States
  PROVE  LET n == [r EXCEPT !.state = s] IN
         /\ n \in Rows /\ n.state = s /\ n.fence = r.fence /\ n.held = r.held
         /\ n.attempts = r.attempts /\ n.valid = r.valid /\ n.stage = r.stage
<1>1. [r EXCEPT !.state = s] \in Rows
  BY Zenon DEF Rows
<1> QED
  BY <1>1 DEF Rows

LEMMA Lapsed ==
  ASSUME NEW r \in Rows
  PROVE  LET n == [r EXCEPT !.timer = FALSE] IN
         /\ n \in Rows /\ n.state = r.state /\ n.fence = r.fence /\ n.held = r.held
         /\ n.attempts = r.attempts /\ n.valid = r.valid /\ n.stage = r.stage
<1>1. FALSE \in BOOLEAN
  OBVIOUS
<1>2. [r EXCEPT !.timer = FALSE] \in Rows
  BY <1>1, Zenon DEF Rows
<1> QED
  BY <1>2 DEF Rows

LEMMA SelectKeeps ==
  ASSUME IInv, NEW j \in Jobs, selectCompilerUnit(j)
  PROVE  IInv' /\ WritesNothingLate
<1>1. PICK s \in {"queued", "failed"} : job' = [job EXCEPT ![j].state = s]
  BY DEF selectCompilerUnit
<1> DEFINE n == [job[j] EXCEPT !.state = s]
<1>2. /\ job[j].state = "none" /\ s \in States /\ job[j] \in Rows /\ job' = [job EXCEPT ![j] = n]
      /\ UNCHANGED <<history, slot, resources, newAttempts, inflight, wk, published, skipped>>
  BY <1>1 DEF selectCompilerUnit, IInv, TypeOK, States, Unfinished
<1>3. /\ n \in Rows /\ n.state = s /\ n.fence = job[j].fence /\ n.held = job[j].held
      /\ n.valid = job[j].valid /\ n.stage = job[j].stage
  BY <1>2, SetState
<1> HIDE DEF n
<1>4. /\ ~job[j].held /\ job[j].stage = 0 /\ j \notin resources
      /\ ~(slot # NoSlot /\ slot.state = "reserved" /\ slot.job = j)
  BY <1>2 DEF IInv, HeldIsAtWork, StageMatchesState, SpaceFollowsJobs, ReservedForTheAttempt
<1>5. SlotStays /\ n.fence >= job[j].fence
  BY <1>2, <1>3 DEF SlotStays, Rows
<1>6. /\ job' \in [Jobs -> Rows] /\ resources' \subseteq Jobs /\ RowsMoveOn
      /\ \A k \in Jobs : job'[k].stage = job[k].stage
      /\ HeldIsAtWork' /\ StageMatchesState' /\ PublishedOnce' /\ SpaceFollowsJobs'
      /\ SlotIsReal' /\ ReservedForTheAttempt'
  BY <1>2, <1>3, <1>4, <1>5, OneRowChanges
<1>7. TypeOK'
  BY <1>2, <1>6 DEF IInv, TypeOK
<1> QED
  BY <1>2, <1>5, <1>6, <1>7, RowStepKeeps

LEMMA CancelCompilationKeeps ==
  ASSUME IInv, NEW j \in Jobs, CancelCompilation(j)
  PROVE  IInv' /\ WritesNothingLate
<1> DEFINE n == Cancelled(job[j], FALSE)
<1>1. /\ job[j].state \in Unfinished /\ job[j] \in Rows
      /\ job' = [job EXCEPT ![j] = n]
      /\ slot' = IF slot # NoSlot /\ slot.job = j THEN PendingSlot ELSE slot
      /\ resources' = resources \ {j}
      /\ UNCHANGED <<history, newAttempts, inflight, wk, published, skipped>>
  BY DEF CancelCompilation, IInv, TypeOK
<1>2. /\ n \in Rows /\ n.state = "cancelled" /\ n.fence = job[j].fence + 1 /\ ~n.held
      /\ n.valid = job[j].valid /\ n.stage = job[j].stage
  BY <1>1, CancelledRow
<1> HIDE DEF n
<1>3. /\ SlotStays /\ n.fence >= job[j].fence /\ n.fence # job[j].fence
      /\ job[j].state # "completed"
  BY <1>1, <1>2 DEF SlotStays, Rows, Unfinished
<1>4. slot' # NoSlot /\ slot'.state = "reserved" => slot'.job # j
  BY <1>1 DEF PendingSlot
<1>5. /\ job' \in [Jobs -> Rows] /\ resources' \subseteq Jobs /\ RowsMoveOn
      /\ \A k \in Jobs : job'[k].stage = job[k].stage
      /\ HeldIsAtWork' /\ StageMatchesState' /\ PublishedOnce' /\ SpaceFollowsJobs'
      /\ SlotIsReal' /\ ReservedForTheAttempt'
  BY <1>1, <1>2, <1>3, <1>4, OneRowChanges
<1>6. TypeOK'
  BY <1>1, <1>5 DEF IInv, TypeOK, PendingSlot
<1> QED
  BY <1>1, <1>3, <1>5, <1>6, RowStepKeeps

LEMMA ResumeCompilationKeeps ==
  ASSUME IInv, NEW j \in Jobs, ResumeCompilation(j), UNCHANGED history
  PROVE  IInv' /\ WritesNothingLate
<1> DEFINE n == Resumed(job[j])
<1>1. /\ job[j].state = "cancelled" /\ job[j] \in Rows
      /\ job' = [job EXCEPT ![j] = n]
      /\ resources' = IF job[j].stage # 0 THEN resources \cup {j} ELSE resources
      /\ UNCHANGED <<slot, newAttempts, inflight, wk, published, skipped>>
  BY DEF ResumeCompilation, IInv, TypeOK
<1>2. /\ n \in Rows /\ n.fence = job[j].fence /\ n.held = job[j].held
      /\ n.state \in IF job[j].stage # 0 THEN {"staged"} ELSE {"retry_wait", "queued"}
      /\ n.valid = job[j].valid /\ n.stage = job[j].stage
  BY <1>1, ResumedRow
<1> HIDE DEF n
<1>3. /\ ~job[j].held /\ j \notin resources
      /\ ~(slot # NoSlot /\ slot.state = "reserved" /\ slot.job = j)
  BY <1>1 DEF IInv, HeldIsAtWork, SpaceFollowsJobs, ReservedForTheAttempt
<1>4. SlotStays /\ n.fence >= job[j].fence
  BY <1>1, <1>2 DEF SlotStays, Rows
<1>5. /\ job' \in [Jobs -> Rows] /\ resources' \subseteq Jobs /\ RowsMoveOn
      /\ \A k \in Jobs : job'[k].stage = job[k].stage
      /\ HeldIsAtWork' /\ StageMatchesState' /\ PublishedOnce' /\ SpaceFollowsJobs'
      /\ SlotIsReal' /\ ReservedForTheAttempt'
  BY <1>1, <1>2, <1>3, <1>4, OneRowChanges
<1>6. TypeOK'
  BY <1>1, <1>5 DEF IInv, TypeOK
<1> QED
  BY <1>1, <1>4, <1>5, <1>6, RowStepKeeps

LEMMA ResumeWorkKeeps ==
  ASSUME IInv, NEW j \in Jobs, ResumeWork(j)
  PROVE  IInv' /\ WritesNothingLate
<1> DEFINE n == Unpaused(job[j])
<1>1. /\ job[j] \in Rows /\ job' = [job EXCEPT ![j] = n]
      /\ UNCHANGED <<history, slot, resources, newAttempts, inflight, wk, published, skipped>>
  BY DEF ResumeWork, IInv, TypeOK
<1>2. /\ n \in Rows /\ n.state = job[j].state /\ n.fence = job[j].fence
      /\ n.held = job[j].held /\ n.valid = job[j].valid /\ n.stage = job[j].stage
  BY <1>1, UnpausedRow
<1> HIDE DEF n
<1>3. /\ job' \in [Jobs -> Rows] /\ RowsMoveOn
      /\ \A k \in Jobs : job'[k].stage = job[k].stage
      /\ HeldIsAtWork' /\ StageMatchesState' /\ PublishedOnce' /\ SpaceFollowsJobs'
      /\ SlotIsReal' /\ ReservedForTheAttempt' /\ SlotStays
  BY <1>1, <1>2, SameRowKeeps
<1>4. TypeOK'
  BY <1>1, <1>3 DEF IInv, TypeOK
<1> QED
  BY <1>1, <1>3, <1>4, RowStepKeeps

(* A due time comes or a lease lapses.                                     *)
LEMMA LapseKeeps ==
  ASSUME IInv, NEW j \in Jobs, Lapse(j) \/ Stall(j)
  PROVE  IInv' /\ WritesNothingLate
<1> DEFINE n == [job[j] EXCEPT !.timer = FALSE]
<1>1. /\ job[j] \in Rows /\ job' = [job EXCEPT ![j] = n]
      /\ UNCHANGED <<history, slot, resources, newAttempts, inflight, wk, published, skipped>>
  BY DEF Lapse, Stall, IInv, TypeOK
<1>2. /\ n \in Rows /\ n.state = job[j].state /\ n.fence = job[j].fence
      /\ n.held = job[j].held /\ n.valid = job[j].valid /\ n.stage = job[j].stage
  BY <1>1, Lapsed
<1> HIDE DEF n
<1>3. /\ job' \in [Jobs -> Rows] /\ RowsMoveOn
      /\ \A k \in Jobs : job'[k].stage = job[k].stage
      /\ HeldIsAtWork' /\ StageMatchesState' /\ PublishedOnce' /\ SpaceFollowsJobs'
      /\ SlotIsReal' /\ ReservedForTheAttempt' /\ SlotStays
  BY <1>1, <1>2, SameRowKeeps
<1>4. TypeOK'
  BY <1>1, <1>3 DEF IInv, TypeOK
<1> QED
  BY <1>1, <1>3, <1>4, RowStepKeeps

(* Rows that are given up: what a cancellation or a recovery makes of them *)
(* is behind a new fence and held by nobody.                               *)
GivenUp(r, n) ==
  /\ n.fence = r.fence + 1 /\ ~n.held /\ n.stage = r.stage
  /\ r.state # "completed"
  /\ \/ n.state \in {"cancelled", "failed"}
     \/ n.state = "staged" /\ r.state = "staged"
     \/ n.state = "retry_wait" /\ r.state = "running"

LEMMA RowsGivenUp ==
  ASSUME IInv, job' \in [Jobs -> Rows], published' = published, SlotStays,
         \A k \in Jobs : job'[k] = job[k] \/ GivenUp(job[k], job'[k]),
         resources' \subseteq Jobs,
         \A k \in Jobs : k \in resources' <=> job'[k].state \in {"running", "staged"},
         slot' # NoSlot /\ slot'.state = "reserved" => job'[slot'.job] = job[slot'.job]
  PROVE  /\ RowsMoveOn /\ \A k \in Jobs : job'[k].stage = job[k].stage
         /\ HeldIsAtWork' /\ StageMatchesState' /\ PublishedOnce' /\ SpaceFollowsJobs'
         /\ SlotIsReal' /\ ReservedForTheAttempt'
<1>1. job \in [Jobs -> Rows]
  BY DEF IInv, TypeOK
<1>2. RowsMoveOn /\ \A k \in Jobs : job'[k].stage = job[k].stage
  BY <1>1 DEF RowsMoveOn, GivenUp, Rows
<1>3. HeldIsAtWork'
  BY DEF IInv, HeldIsAtWork, GivenUp
<1>4. StageMatchesState'
  BY DEF IInv, StageMatchesState, GivenUp
<1>5. PublishedOnce'
  BY DEF IInv, PublishedOnce, GivenUp
<1>6. SpaceFollowsJobs'
  BY DEF SpaceFollowsJobs
<1>7. slot' # NoSlot => /\ slot # NoSlot /\ slot'.job = slot.job /\ slot'.fence = slot.fence
                        /\ slot.job \in Jobs /\ slot.fence \in Nat
                        /\ slot'.state = "reserved" => slot' = slot
  BY DEF IInv, TypeOK, SlotStays, PendingSlot
<1>8. SlotIsReal'
  BY <1>1, <1>7 DEF IInv, SlotIsReal, GivenUp, Rows
<1>9. ReservedForTheAttempt'
  BY <1>7 DEF IInv, ReservedForTheAttempt
<1> QED
  BY <1>2, <1>3, <1>4, <1>5, <1>6, <1>8, <1>9

LEMMA CancelCompilerHistoryKeeps ==
  ASSUME IInv, CancelCompilerHistory
  PROVE  IInv' /\ WritesNothingLate
<1> DEFINE S == HistoryJobs \cap UnfinishedJobs
<1>1. /\ history' = "cancelled"
      /\ job' = [j \in Jobs |-> IF j \in S THEN Cancelled(job[j], TRUE) ELSE job[j]]
      /\ slot' = IF slot # NoSlot /\ slot.job \in HistoryJobs THEN PendingSlot ELSE slot
      /\ resources' = resources \ HistoryJobs
      /\ UNCHANGED <<newAttempts, inflight, wk, published, skipped>>
  BY DEF CancelCompilerHistory
<1>2. \A k \in Jobs : /\ k \in S <=> k \in HistoryJobs /\ job[k].state \in Unfinished
                      /\ job[k] \in Rows
  BY DEF UnfinishedJobs, IInv, TypeOK
<1> HIDE DEF S
<1>3. \A k \in Jobs : IF k \in S
                      THEN /\ job'[k] \in Rows /\ job'[k].state = "cancelled"
                           /\ GivenUp(job[k], job'[k])
                      ELSE job'[k] = job[k]
  BY <1>1, <1>2, CancelledRow DEF GivenUp, Unfinished
<1>4. job' \in [Jobs -> Rows]
  BY <1>1, <1>2, <1>3
<1>5. SlotStays
  BY <1>1 DEF SlotStays
<1>6. \A k \in Jobs : k \in resources' <=> job'[k].state \in {"running", "staged"}
  BY <1>1, <1>2, <1>3 DEF IInv, SpaceFollowsJobs, Unfinished
<1>7. slot' # NoSlot /\ slot'.state = "reserved" => job'[slot'.job] = job[slot'.job]
  BY <1>1, <1>2, <1>3 DEF IInv, TypeOK, PendingSlot
<1>8. resources' \subseteq Jobs
  BY <1>1 DEF IInv, TypeOK
<1>9. /\ RowsMoveOn /\ \A k \in Jobs : job'[k].stage = job[k].stage
      /\ HeldIsAtWork' /\ StageMatchesState' /\ PublishedOnce' /\ SpaceFollowsJobs'
      /\ SlotIsReal' /\ ReservedForTheAttempt'
  BY <1>1, <1>3, <1>4, <1>5, <1>6, <1>7, <1>8, RowsGivenUp
<1>10. TypeOK'
  BY <1>1, <1>4, <1>8 DEF IInv, TypeOK, PendingSlot
<1> QED
  BY <1>1, <1>5, <1>9, <1>10, RowStepKeeps

LEMMA ResumeCompilerHistoryKeeps ==
  ASSUME IInv, \/ ResumeCompilerHistory
               \/ /\ history' = "active"
                  /\ UNCHANGED <<job, slot, resources, newAttempts, inflight, wk, published,
                                 skipped, trouble>>
  PROVE  IInv' /\ WritesNothingLate
<1>1. /\ history' \in {"active", "resuming"}
      /\ UNCHANGED <<job, slot, resources, newAttempts, inflight, wk, published, skipped>>
  BY DEF ResumeCompilerHistory
<1>2. TypeOK'
  BY <1>1 DEF IInv, TypeOK
<1>3. RowsMoveOn /\ SlotStays /\ \A k \in Jobs : job'[k].stage = job[k].stage
  BY <1>1 DEF IInv, TypeOK, Rows, RowsMoveOn, SlotStays
<1>4. HeldIsAtWork' /\ StageMatchesState' /\ PublishedOnce' /\ SpaceFollowsJobs'
  BY <1>1 DEF IInv, HeldIsAtWork, StageMatchesState, PublishedOnce, SpaceFollowsJobs
<1>5. SlotIsReal' /\ ReservedForTheAttempt'
  BY <1>1 DEF IInv, SlotIsReal, ReservedForTheAttempt
<1> QED
  BY <1>1, <1>2, <1>3, <1>4, <1>5, RowStepKeeps

LEMMA HistoryStepKeeps ==
  ASSUME IInv, resumeCompilerHistoryStep
  PROVE  IInv' /\ WritesNothingLate
<1>1. CASE HistoryResumable = {} /\ history' = "active"
           /\ UNCHANGED <<job, slot, resources, newAttempts, inflight, wk, published,
                          skipped, trouble>>
  BY <1>1, ResumeCompilerHistoryKeeps
<1>2. CASE \E j \in HistoryResumable : ResumeCompilation(j) /\ UNCHANGED <<history, trouble>>
  <2>1. PICK j \in HistoryResumable : ResumeCompilation(j) /\ UNCHANGED history
    BY <1>2
  <2>2. j \in Jobs
    BY CompilerAssumption DEF HistoryResumable
  <2> QED
    BY <2>1, <2>2, ResumeCompilationKeeps
<1> QED
  BY <1>1, <1>2 DEF resumeCompilerHistoryStep

(* A pause marks the claims that are current as made before it, and makes  *)
(* the row's claim invalid in the same transaction.                        *)
LEMMA PauseWorkKeeps ==
  ASSUME IInv, NEW j \in Jobs, PauseWork(j)
  PROVE  IInv' /\ WritesNothingLate
<1> DEFINE n == Suspended(job[j])
<1>1. /\ job[j] \in Rows /\ job' = [job EXCEPT ![j] = n]
      /\ wk' = [w \in Workers |-> IF wk[w].job = j /\ Current(w)
                                  THEN [wk[w] EXCEPT !.old = TRUE] ELSE wk[w]]
      /\ UNCHANGED <<history, slot, resources, newAttempts, inflight, published, skipped>>
  BY DEF PauseWork, IInv, TypeOK
<1>2. /\ n \in Rows /\ n.state = job[j].state /\ n.fence = job[j].fence
      /\ n.held = job[j].held /\ ~n.valid /\ n.stage = job[j].stage
  BY <1>1, SuspendedRow
<1> HIDE DEF n
<1>3. /\ job' \in [Jobs -> Rows] /\ RowsMoveOn
      /\ \A k \in Jobs : job'[k].stage = job[k].stage
      /\ HeldIsAtWork' /\ StageMatchesState' /\ PublishedOnce' /\ SpaceFollowsJobs'
      /\ SlotIsReal' /\ ReservedForTheAttempt' /\ SlotStays
  BY <1>1, <1>2, SameRowKeeps
<1>4. TypeOK'
  BY <1>1, <1>3 DEF IInv, TypeOK
<1>5. \A l \in Locals : LET m == [l EXCEPT !.old = TRUE] IN
        /\ m \in Locals /\ m.pc = l.pc /\ m.job = l.job /\ m.fence = l.fence
        /\ m.evidence = l.evidence /\ m.old
  <2> SUFFICES ASSUME NEW l \in Locals
               PROVE  LET m == [l EXCEPT !.old = TRUE] IN
                      /\ m \in Locals /\ m.pc = l.pc /\ m.job = l.job /\ m.fence = l.fence
                      /\ m.evidence = l.evidence /\ m.old
    OBVIOUS
  <2>1. TRUE \in BOOLEAN
    OBVIOUS
  <2>2. [l EXCEPT !.old = TRUE] \in Locals
    BY <2>1, Zenon DEF Locals
  <2> QED
    BY <2>2 DEF Locals
<1>6. \A v \in Workers :
        /\ wk'[v] \in Locals /\ wk'[v].pc = wk[v].pc /\ wk'[v].job = wk[v].job
        /\ wk'[v].fence = wk[v].fence /\ wk'[v].evidence = wk[v].evidence
        /\ wk'[v].old => wk[v].old \/ (wk[v].job = j /\ Current(v))
  BY <1>1, <1>5 DEF IInv, WorkersOK
<1>7. WorkersOK'
  BY <1>1, <1>6 DEF WorkersOK
<1>8. \A v \in Workers : wk[v].pc \notin Holding => ~(wk[v].job = j /\ Current(v))
  BY DEF IInv, ClaimsAreReal, HeldIsAtWork, Current, TypeOK, Rows
<1>9. \A k \in Jobs : job'[k].fence = job[k].fence
  BY <1>1, <1>2 DEF IInv, TypeOK
<1>10. ClaimsAreReal'
  BY <1>6, <1>8, <1>9 DEF IInv, ClaimsAreReal
<1>11. ClaimsAreDistinct'
  BY <1>6 DEF IInv, ClaimsAreDistinct, Claim
<1>12. OldIsInvalid'
  <2> SUFFICES ASSUME NEW v \in Workers, wk'[v].old,
                      job'[wk'[v].job].fence = wk'[v].fence, wk[v].job # j
               PROVE  ~job'[wk'[v].job].valid
    BY <1>1, <1>2, <1>6 DEF OldIsInvalid, IInv, TypeOK
  <2>1. wk[v].old /\ wk[v].job \in Jobs
    BY <1>6 DEF IInv, ClaimsAreReal
  <2>2. job'[wk[v].job] = job[wk[v].job]
    BY <1>1, <2>1 DEF IInv, TypeOK
  <2> QED
    BY <1>6, <2>1, <2>2 DEF IInv, OldIsInvalid
<1>13. SlotCoversSenders' /\ OneRequest'
  BY <1>1, <1>6 DEF IInv, SlotCoversSenders, OneRequest, SlotOf, Claim, releaseKnown
<1>14. SkipsAreCounted'
  BY <1>1 DEF IInv, SkipsAreCounted
<1>15. WritesNothingLate
  BY <1>1, <1>3, NothingLate
<1> QED
  BY <1>3, <1>4, <1>7, <1>10, <1>11, <1>12, <1>13, <1>14, <1>15 DEF IInv

-----------------------------------------------------------------------------
(* The steps of a host.                                                    *)

(* A worker without a claim or a stage to adopt moves on.                  *)
LEMMA FreeWorkerMoves ==
  ASSUME IInv, NEW w \in Workers, NEW p \in Places \ (Holding \cup {"adopt"}),
         wk[w].pc \notin Holding \cup {"adopt"}, wk' = [wk EXCEPT ![w].pc = p],
         inflight' \subseteq inflight
  PROVE  /\ WorkersOK' /\ HasNoClaim(w)
         /\ \A v \in Workers \ {w} : wk'[v] = wk[v]
         /\ \A v \in Workers : SendsNothingNew(v) \/ HasNoClaim(v)
<1> DEFINE n == [wk[w] EXCEPT !.pc = p]
<1>1. /\ wk[w] \in Locals /\ p \in Places
      /\ wk' = [wk EXCEPT ![w] = n] /\ wk'[w] = n /\ \A v \in Workers \ {w} : wk'[v] = wk[v]
  BY DEF IInv, WorkersOK
<1>2. n \in Locals /\ n.pc = p /\ n.job = wk[w].job /\ n.fence = wk[w].fence /\ n.old = wk[w].old
  BY <1>1, MovedLocal
<1> HIDE DEF n
<1>3. HasNoClaim(w)
  BY <1>1, <1>2 DEF IInv, ClaimsAreReal, HasNoClaim
<1> QED
  BY <1>1, <1>2, <1>3, OneWorkerMoves

LEMMA RecoverKeeps ==
  ASSUME IInv, NEW w \in Workers, RecoverCompilerWork(w)
  PROVE  IInv' /\ WritesNothingLate
<1> DEFINE lost == {j \in Expired : job[j].state = "running"}
<1>1. /\ wk[w].pc = "idle" /\ wk' = [wk EXCEPT ![w].pc = "reconcile"]
      /\ job' = [j \in Jobs |-> IF j \in Expired THEN Recovered(job[j]) ELSE job[j]]
      /\ slot' = IF slot # NoSlot /\ slot.job \in lost /\ slot.fence = job[slot.job].fence
                 THEN PendingSlot ELSE slot
      /\ resources' = resources \ lost
      /\ UNCHANGED <<history, newAttempts, inflight, published, skipped>>
  BY DEF RecoverCompilerWork
<1>2. \A k \in Jobs : /\ job[k] \in Rows
                      /\ k \in Expired => job[k].state \in {"running", "staged"}
                      /\ k \in lost <=> k \in Expired /\ job[k].state = "running"
  BY DEF Expired, IInv, TypeOK, HeldIsAtWork
<1>3. lost \subseteq Jobs
  BY DEF Expired
<1> HIDE DEF lost
<1>4. \A k \in Jobs :
        IF k \in Expired
        THEN /\ job'[k] \in Rows /\ GivenUp(job[k], job'[k])
             /\ job'[k].state \in IF k \in lost THEN {"failed", "retry_wait"} ELSE {"staged"}
        ELSE job'[k] = job[k]
  <2> SUFFICES ASSUME NEW k \in Jobs, k \in Expired
               PROVE  /\ job'[k] \in Rows /\ GivenUp(job[k], job'[k])
                      /\ job'[k].state \in IF k \in lost THEN {"failed", "retry_wait"}
                                                         ELSE {"staged"}
    BY <1>1
  <2>1. job'[k] = Recovered(job[k])
    BY <1>1
  <2> QED
    BY <1>2, <2>1, RecoveredRow DEF GivenUp
<1>5. job' \in [Jobs -> Rows]
  BY <1>1, <1>2, <1>4
<1>6. SlotStays /\ resources' \subseteq Jobs
  BY <1>1 DEF SlotStays, IInv, TypeOK
<1>7. \A k \in Jobs : k \in resources' <=> job'[k].state \in {"running", "staged"}
  BY <1>1, <1>2, <1>4 DEF IInv, SpaceFollowsJobs
<1>8. slot' # NoSlot /\ slot'.state = "reserved" => job'[slot'.job] = job[slot'.job]
  <2> SUFFICES ASSUME slot' # NoSlot, slot'.state = "reserved"
               PROVE  job'[slot'.job] = job[slot'.job]
    OBVIOUS
  <2>1. slot' = slot /\ slot.job \in Jobs
    BY <1>1 DEF PendingSlot, IInv, TypeOK
  <2>2. job[slot.job].state = "running" /\ job[slot.job].fence = slot.fence
    BY <2>1 DEF IInv, ReservedForTheAttempt
  <2>3. slot.job \notin lost
    BY <1>1, <2>1, <2>2 DEF PendingSlot
  <2> QED
    BY <1>2, <1>4, <2>1, <2>2, <2>3
<1>9. /\ RowsMoveOn /\ \A k \in Jobs : job'[k].stage = job[k].stage
      /\ HeldIsAtWork' /\ StageMatchesState' /\ PublishedOnce' /\ SpaceFollowsJobs'
      /\ SlotIsReal' /\ ReservedForTheAttempt'
  BY <1>1, <1>4, <1>5, <1>6, <1>7, <1>8, RowsGivenUp
<1>10. TypeOK'
  BY <1>1, <1>5, <1>6 DEF IInv, TypeOK, PendingSlot
<1>11. WorkersOK' /\ \A v \in Workers : SendsNothingNew(v) \/ HasNoClaim(v)
  BY <1>1, FreeWorkerMoves DEF Places, Holding
<1> QED
  BY <1>1, <1>6, <1>9, <1>10, <1>11, StepKeeps

(* The verifier frees the slot when nobody is left to send or to wait.     *)
LEMMA ReconcileKeeps ==
  ASSUME IInv, NEW w \in Workers, ReconcileCompilerCapacity(w)
  PROVE  IInv' /\ WritesNothingLate
<1>1. /\ wk[w].pc = "reconcile"
      /\ UNCHANGED <<job, history, resources, newAttempts, published, skipped>>
      /\ \E p \in {"pick", "pick_blocked"} : wk' = [wk EXCEPT ![w].pc = p]
      /\ \/ UNCHANGED <<slot, inflight>>
         \/ /\ slot # NoSlot /\ VerifierAcknowledges /\ slot' = NoSlot
            /\ inflight' = inflight \ {[job |-> slot.job, fence |-> slot.fence]}
  BY DEF ReconcileCompilerCapacity
<1>2. /\ WorkersOK' /\ HasNoClaim(w)
      /\ \A v \in Workers \ {w} : wk'[v] = wk[v]
      /\ \A v \in Workers : SendsNothingNew(v) \/ HasNoClaim(v)
  <2>1. PICK p \in {"pick", "pick_blocked"} : wk' = [wk EXCEPT ![w].pc = p]
    BY <1>1
  <2>2. p \in Places \ (Holding \cup {"adopt"}) /\ wk[w].pc \notin Holding \cup {"adopt"}
    BY <1>1 DEF Places, Holding
  <2> QED
    BY <1>1, <2>1, <2>2, FreeWorkerMoves
<1>3. CASE UNCHANGED <<slot, inflight>>
  BY <1>1, <1>2, <1>3, WorkerStepKeeps
<1>4. CASE /\ slot # NoSlot /\ VerifierAcknowledges /\ slot' = NoSlot
           /\ inflight' = inflight \ {[job |-> slot.job, fence |-> slot.fence]}
  <2>1. inflight' = {}
    <3>1. \A c \in inflight : c = [job |-> c.job, fence |-> c.fence]
      BY DEF IInv, TypeOK
    <3> QED
      BY <1>4, <3>1 DEF IInv, OneRequest, SlotOf
  <2>2. \A v \in Workers : wk'[v].pc \notin {"claimed", "calling"}
    BY <1>2, <1>4 DEF IInv, SlotCoversSenders, VerifierAcknowledges, HasNoClaim, Holding
  <2>3. OneRequest' /\ SlotCoversSenders'
    BY <2>1, <2>2 DEF OneRequest, SlotCoversSenders
  <2>4. TypeOK' /\ RowsMoveOn
    BY <1>1, <1>4, <2>1 DEF IInv, TypeOK, RowsMoveOn, Rows
  <2>5. ClaimsAreReal' /\ ClaimsAreDistinct' /\ OldIsInvalid'
    BY <1>2, <2>4, ClaimsKeep DEF SendsNothingNew
  <2>6. HeldIsAtWork' /\ StageMatchesState' /\ PublishedOnce' /\ SpaceFollowsJobs'
    BY <1>1 DEF IInv, HeldIsAtWork, StageMatchesState, PublishedOnce, SpaceFollowsJobs
  <2>7. SlotIsReal' /\ ReservedForTheAttempt' /\ SkipsAreCounted'
    BY <1>1, <1>4 DEF IInv, SlotIsReal, ReservedForTheAttempt, SkipsAreCounted
  <2>8. WritesNothingLate
    BY <1>1, <2>1, NothingLate
  <2> QED
    BY <1>2, <2>3, <2>4, <2>5, <2>6, <2>7, <2>8 DEF IInv
<1> QED
  BY <1>1, <1>3, <1>4

LEMMA PickNothingKeeps ==
  ASSUME IInv, NEW w \in Workers, PickNothing(w)
  PROVE  IInv' /\ WritesNothingLate
<1>1. /\ Done(w)
      /\ UNCHANGED <<job, history, slot, resources, newAttempts, inflight, published, skipped>>
  BY DEF PickNothing
<1> QED
  BY <1>1, WorkerRests, WorkerStepKeeps

LEMMA PickStageKeeps ==
  ASSUME IInv, NEW w \in Workers, NEW j \in Jobs, PickStage(w, j)
  PROVE  IInv' /\ WritesNothingLate
<1> DEFINE n == At("adopt", j, 0, "none")
<1>1. /\ wk' = [wk EXCEPT ![w] = n] /\ wk'[w] = n
      /\ UNCHANGED <<job, history, slot, resources, newAttempts, inflight, published, skipped>>
  BY DEF PickStage, IInv, WorkersOK
<1>2. n \in Locals /\ n.pc = "adopt" /\ n.job = j /\ n.fence = 0 /\ ~n.old
  BY SMTT(30), AtLocal DEF Places, Evidence
<1> HIDE DEF n
<1>3. HasNoClaim(w)
  BY <1>1, <1>2 DEF HasNoClaim, Holding
<1>4. WorkersOK' /\ \A v \in Workers : SendsNothingNew(v) \/ HasNoClaim(v)
  BY <1>1, <1>2, <1>3, OneWorkerMoves
<1> QED
  BY <1>1, <1>4, WorkerStepKeeps

(* A claim takes a fresh fence and the free slot, which nobody had.        *)
LEMMA ClaimKeeps ==
  ASSUME IInv, NEW w \in Workers, NEW j \in Jobs, wk[w].pc \notin Holding,
         claimCompilerJob(w, j), j \in NewJobs /\ HistoricalReady => newAttempts < NewLimit
  PROVE  IInv' /\ WritesNothingLate
<1> DEFINE n == Claimed(job[j])
           l == At("claimed", j, job[j].fence + 1, "none")
<1>1. /\ job[j] \in Rows /\ job[j].attempts < MaxAttempts
      /\ job[j].state \in {"queued", "retry_wait"}
      /\ slot = NoSlot /\ job' = [job EXCEPT ![j] = n]
      /\ resources' = resources \cup {j}
      /\ slot' = [state |-> "reserved", job |-> j, fence |-> job[j].fence + 1]
      /\ CountAttempt(j)
      /\ skipped' = IF j \in NewJobs /\ HistoricalReady THEN skipped + 1 ELSE 0
      /\ wk' = [wk EXCEPT ![w] = l]
      /\ UNCHANGED <<history, inflight, published>>
  BY DEF claimCompilerJob, Claimable, IInv, TypeOK
<1>2. /\ n \in Rows /\ n.state = "running" /\ n.fence = job[j].fence + 1 /\ n.held
      /\ n.valid /\ n.stage = job[j].stage
  BY <1>1, ClaimedRow
<1>3. job[j].fence + 1 \in Nat /\ job[j].fence \in Nat
  BY <1>1 DEF Rows
<1>4. /\ l \in Locals /\ l.pc = "claimed" /\ l.job = j /\ l.fence = job[j].fence + 1
      /\ ~l.old /\ l.evidence = "none"
  BY <1>3, AtLocal DEF Places, Holding, Evidence
<1> HIDE DEF n, l
<1>5. /\ job \in [Jobs -> Rows] /\ job' \in [Jobs -> Rows]
      /\ job'[j] = n /\ \A k \in Jobs \ {j} : job'[k] = job[k]
      /\ wk \in [Workers -> Locals] /\ wk'[w] = l /\ \A v \in Workers \ {w} : wk'[v] = wk[v]
  BY <1>1, <1>2 DEF IInv, TypeOK, WorkersOK
<1>6. newAttempts' \in 0..NewLimit /\ SkipsAreCounted'
  <2>1. NewLimit \in Nat \ {0}
    BY CompilerAssumption
  <2>2. newAttempts \in 0..NewLimit /\ skipped \in Nat /\ skipped <= newAttempts
    BY DEF IInv, TypeOK, SkipsAreCounted
  <2>3. newAttempts' = IF j \in NewJobs
                       THEN IF newAttempts < NewLimit THEN newAttempts + 1 ELSE NewLimit
                       ELSE 0
    BY <1>1 DEF CountAttempt
  <2> QED
    BY <1>1, <2>1, <2>2, <2>3 DEF SkipsAreCounted
<1>7. TypeOK' /\ WorkersOK'
  BY <1>1, <1>3, <1>4, <1>5, <1>6 DEF IInv, TypeOK, WorkersOK
<1>8. inflight = {} /\ \A v \in Workers : wk[v].pc \notin {"claimed", "calling"}
  BY <1>1 DEF IInv, OneRequest, SlotCoversSenders, SlotOf
<1>9. ClaimsAreReal'
  BY <1>2, <1>3, <1>4, <1>5 DEF IInv, ClaimsAreReal, Holding, Rows, Locals
<1>10. ClaimsAreDistinct'
  <2>1. \A v \in Workers \ {w} : wk[v].pc \in Holding /\ wk[v].job = j => wk[v].fence <= job[j].fence
    BY DEF IInv, ClaimsAreReal
  <2> QED
    BY <1>3, <1>4, <1>5, <2>1 DEF IInv, ClaimsAreDistinct, Claim, Holding, Locals
<1>11. OldIsInvalid'
  <2>1. \A v \in Workers \ {w} : wk[v].old => wk[v].job \in Jobs /\ wk[v].fence <= job[wk[v].job].fence
    BY DEF IInv, ClaimsAreReal
  <2> QED
    BY <1>2, <1>3, <1>4, <1>5, <2>1 DEF IInv, OldIsInvalid, Locals
<1>12. HeldIsAtWork' /\ StageMatchesState' /\ PublishedOnce'
  BY <1>1, <1>2, <1>3, <1>5 DEF IInv, HeldIsAtWork, StageMatchesState, PublishedOnce
<1>13. SpaceFollowsJobs'
  BY <1>1, <1>2, <1>5 DEF IInv, SpaceFollowsJobs
<1>14. SlotIsReal' /\ ReservedForTheAttempt'
  BY <1>1, <1>2, <1>3, <1>5 DEF IInv, StageMatchesState, SlotIsReal, ReservedForTheAttempt
<1>15. SlotOf(Claim(w))'
  BY <1>1, <1>4, <1>5 DEF SlotOf, Claim, NoSlot
<1>16. SlotCoversSenders' /\ OneRequest'
  BY <1>1, <1>4, <1>5, <1>8, <1>15 DEF SlotCoversSenders, OneRequest, releaseKnown
<1>17. WritesNothingLate
  <2>1. \A k \in Jobs : job'[k].stage = job[k].stage
    BY <1>2, <1>5
  <2> QED
    BY <1>1, <2>1, NothingLate
<1> QED
  BY <1>6, <1>7, <1>9, <1>10, <1>11, <1>12, <1>13, <1>14, <1>16, <1>17 DEF IInv

LEMMA RejectKeeps ==
  ASSUME IInv, NEW w \in Workers, NEW j \in Jobs, rejectCompilerClaim(w, j)
  PROVE  IInv' /\ WritesNothingLate
<1> DEFINE n == [job[j] EXCEPT !.state = "failed"]
<1>1. /\ job[j].state \in {"queued", "retry_wait"} /\ job[j] \in Rows
      /\ job' = [job EXCEPT ![j] = n] /\ Done(w)
      /\ UNCHANGED <<history, slot, resources, newAttempts, inflight, published, skipped>>
  BY DEF rejectCompilerClaim, Claimable, IInv, TypeOK
<1>2. /\ n \in Rows /\ n.state = "failed" /\ n.fence = job[j].fence /\ n.held = job[j].held
      /\ n.valid = job[j].valid /\ n.stage = job[j].stage
  BY <1>1, SetState DEF States
<1> HIDE DEF n
<1>3. /\ ~job[j].held /\ j \notin resources
      /\ ~(slot # NoSlot /\ slot.state = "reserved" /\ slot.job = j)
  BY <1>1 DEF IInv, HeldIsAtWork, SpaceFollowsJobs, ReservedForTheAttempt
<1>4. SlotStays /\ n.fence >= job[j].fence
  BY <1>1, <1>2 DEF SlotStays, Rows
<1>5. /\ job' \in [Jobs -> Rows] /\ resources' \subseteq Jobs /\ RowsMoveOn
      /\ \A k \in Jobs : job'[k].stage = job[k].stage
      /\ HeldIsAtWork' /\ StageMatchesState' /\ PublishedOnce' /\ SpaceFollowsJobs'
      /\ SlotIsReal' /\ ReservedForTheAttempt'
  BY <1>1, <1>2, <1>3, <1>4, OneRowChanges
<1>6. TypeOK'
  BY <1>1, <1>5 DEF IInv, TypeOK
<1>7. WorkersOK' /\ \A v \in Workers : SendsNothingNew(v) \/ HasNoClaim(v)
  BY <1>1, WorkerRests
<1> QED
  BY <1>1, <1>4, <1>5, <1>6, <1>7, StepKeeps

(* The supervisor's order: a new job is first only while the counter has   *)
(* room, if a historical job waits.                                        *)
LEMMA PickJobKeeps ==
  ASSUME IInv, NEW w \in Workers, NEW j \in Jobs, PickJob(w, j)
  PROVE  IInv' /\ WritesNothingLate
<1>1. CASE claimCompilerJob(w, j)
  <2>1. wk[w].pc \notin Holding
    BY DEF PickJob, Holding
  <2>2. ASSUME j \in NewJobs, HistoricalReady
        PROVE  newAttempts < NewLimit
    <3>1. PICK i \in Jobs \ NewJobs : ~Paused(i) /\ Claimable(i)
      BY <2>2 DEF HistoricalReady
    <3>2. Rank(j) <= Rank(i)
      BY <3>1 DEF PickJob, First, Ready
    <3>3. Rank(j) = 2
      BY <2>2 DEF PickJob, Rank
    <3>4. newAttempts >= NewLimit => Rank(i) = 1
      BY <3>1 DEF Rank, Claimable
    <3> QED
      BY <3>2, <3>3, <3>4, CompilerAssumption DEF IInv, TypeOK
  <2> QED
    BY <1>1, <2>1, <2>2, ClaimKeeps
<1>2. CASE rejectCompilerClaim(w, j)
  BY <1>2, RejectKeeps
<1> QED
  BY <1>1, <1>2 DEF PickJob

LEMMA CompileCandidateUnitKeeps ==
  ASSUME IInv, NEW w \in Workers, NEW j \in Jobs, CompileCandidateUnit(w, j)
  PROVE  IInv' /\ WritesNothingLate
<1>1. wk[w].pc \notin Holding /\ j \notin NewJobs
  BY DEF CompileCandidateUnit, Holding
<1> QED
  BY <1>1, ClaimKeeps, RejectKeeps DEF CompileCandidateUnit

LEMMA AdoptKeeps ==
  ASSUME IInv, NEW w \in Workers, adoptCompilerStage(w)
  PROVE  IInv' /\ WritesNothingLate
<1> DEFINE j == wk[w].job
           n == Adopted(job[j])
           l == At("publish", j, job[j].fence + 1, "completed")
<1>1. /\ wk[w].pc = "adopt" /\ job[j].state = "staged"
      /\ job' = [job EXCEPT ![j] = n]
      /\ resources' = resources \cup {j}
      /\ wk' = [wk EXCEPT ![w] = l]
      /\ UNCHANGED <<history, slot, newAttempts, inflight, published, skipped>>
  BY DEF adoptCompilerStage, Adoptable
<1>2. j \in Jobs /\ job[j] \in Rows /\ ~wk[w].old /\ job[j].stage # 0
  BY <1>1 DEF IInv, ClaimsAreReal, TypeOK, Holding, StageMatchesState
<1>3. job[j].fence + 1 \in Nat /\ job[j].fence \in Nat
  BY <1>2 DEF Rows
<1>4. /\ n \in Rows /\ n.state = job[j].state /\ n.fence = job[j].fence + 1 /\ n.held
      /\ n.valid /\ n.stage = job[j].fence + 1
  BY <1>2, AdoptedRow
<1>5. /\ l \in Locals /\ l.pc = "publish" /\ l.job = j /\ l.fence = job[j].fence + 1 /\ ~l.old
  BY <1>2, <1>3, AtLocal DEF Places, Holding, Evidence
<1> HIDE DEF n, l, j
<1>6. /\ job \in [Jobs -> Rows] /\ job' \in [Jobs -> Rows]
      /\ job'[j] = n /\ \A k \in Jobs \ {j} : job'[k] = job[k]
      /\ wk \in [Workers -> Locals] /\ wk'[w] = l /\ \A v \in Workers \ {w} : wk'[v] = wk[v]
  BY <1>1, <1>2, <1>4 DEF IInv, TypeOK, WorkersOK
<1>7. TypeOK' /\ WorkersOK'
  BY <1>1, <1>2, <1>5, <1>6 DEF IInv, TypeOK, WorkersOK
<1>8. \A v \in Workers : wk[v].pc \in Holding =>
        /\ wk[v].job \in Jobs /\ wk[v].fence > 0 /\ wk[v].fence <= job[wk[v].job].fence
  BY DEF IInv, ClaimsAreReal
<1>9. ClaimsAreReal'
  <2>1. \A k \in Jobs : job'[k].fence \in Nat /\ job[k].fence \in Nat /\ job'[k].fence >= job[k].fence
    BY <1>3, <1>4, <1>6 DEF Rows
  <2>2. \A v \in Workers \ {w} : wk'[v].pc \in Holding =>
          wk'[v].job \in Jobs /\ wk'[v].fence > 0 /\ wk'[v].fence <= job'[wk'[v].job].fence
    BY <1>6, <1>8, <2>1 DEF Locals
  <2>3. wk'[w].job \in Jobs /\ wk'[w].fence > 0 /\ wk'[w].fence <= job'[wk'[w].job].fence
    BY <1>2, <1>3, <1>4, <1>5, <1>6
  <2> QED
    BY <1>5, <1>6, <2>2, <2>3 DEF IInv, ClaimsAreReal, Holding
<1>10. ClaimsAreDistinct'
  BY <1>3, <1>5, <1>6, <1>8 DEF IInv, ClaimsAreDistinct, Claim, Holding, Locals
<1>11. OldIsInvalid'
  <2>1. \A v \in Workers : wk[v].old => wk[v].pc \in Holding
    BY DEF IInv, ClaimsAreReal
  <2> QED
    BY <1>3, <1>4, <1>5, <1>6, <1>8, <2>1 DEF IInv, OldIsInvalid, Locals
<1>12. HeldIsAtWork' /\ StageMatchesState' /\ PublishedOnce'
  BY <1>1, <1>3, <1>4, <1>6 DEF IInv, HeldIsAtWork, StageMatchesState, PublishedOnce
<1>13. SpaceFollowsJobs'
  BY <1>1, <1>2, <1>4, <1>6 DEF IInv, SpaceFollowsJobs
<1>14. slot # NoSlot => slot.job \in Jobs \ {j}
  BY <1>2 DEF IInv, TypeOK, SlotIsReal
<1>15. SlotIsReal' /\ ReservedForTheAttempt'
  BY <1>1, <1>6, <1>14 DEF IInv, SlotIsReal, ReservedForTheAttempt
<1>16. Claim(w)' \notin inflight
  BY <1>3, <1>5, <1>6, <1>14 DEF IInv, OneRequest, SlotOf, Claim
<1>17. SlotCoversSenders' /\ OneRequest'
  <2>1. \A v \in Workers \ {w} : /\ Claim(v)' = Claim(v) /\ wk'[v] = wk[v]
                                 /\ releaseKnown(v)' = releaseKnown(v)
    BY <1>6 DEF Claim, releaseKnown
  <2>2. \A c : SlotOf(c)' = SlotOf(c)
    BY <1>1 DEF SlotOf
  <2> QED
    BY <1>1, <1>5, <1>6, <1>16, <2>1, <2>2 DEF IInv, SlotCoversSenders, OneRequest
<1>18. SkipsAreCounted'
  BY <1>1 DEF IInv, SkipsAreCounted
<1>19. WritesNothingLate
  <2>1. \A v \in Workers : wk[v].old => wk[v].job \in Jobs /\ v # w
    BY <1>2 DEF IInv, ClaimsAreReal
  <2>2. \A k \in Jobs : ~(published[k] > published[k])
    BY DEF IInv, TypeOK
  <2> QED
    BY <1>1, <1>6, <2>1, <2>2 DEF WritesNothingLate
<1> QED
  BY <1>7, <1>9, <1>10, <1>11, <1>12, <1>13, <1>15, <1>17, <1>18, <1>19 DEF IInv

LEMMA AdoptFailsKeeps ==
  ASSUME IInv, NEW w \in Workers, AdoptFails(w)
  PROVE  IInv' /\ WritesNothingLate
<1> DEFINE j == wk[w].job
           n == Dropped(job[j])
<1>1. /\ wk[w].pc = "adopt" /\ Done(w)
      /\ UNCHANGED <<history, slot, newAttempts, inflight, published, skipped>>
  BY DEF AdoptFails
<1>2. WorkersOK' /\ \A v \in Workers : SendsNothingNew(v) \/ HasNoClaim(v)
  BY <1>1, WorkerRests
<1>3. CASE UNCHANGED <<job, resources>>
  BY <1>1, <1>2, <1>3, WorkerStepKeeps
<1>4. CASE Adoptable(j) /\ job' = [job EXCEPT ![j] = n] /\ resources' = resources \ {j}
  <2>1. j \in Jobs /\ job[j] \in Rows /\ job[j].state = "staged"
    BY <1>1, <1>4 DEF IInv, ClaimsAreReal, TypeOK, Adoptable, Holding
  <2>2. /\ n \in Rows /\ n.state = "failed" /\ n.fence = job[j].fence + 1 /\ ~n.held
        /\ n.valid = job[j].valid /\ n.stage = job[j].stage
    BY <2>1, DroppedRow
  <2> HIDE DEF n, j
  <2>3. /\ SlotStays /\ n.fence >= job[j].fence /\ n.fence # job[j].fence
        /\ ~(slot # NoSlot /\ slot.state = "reserved" /\ slot.job = j)
    BY <1>1, <2>1, <2>2 DEF SlotStays, Rows, IInv, ReservedForTheAttempt
  <2>4. /\ job' \in [Jobs -> Rows] /\ resources' \subseteq Jobs /\ RowsMoveOn
        /\ \A k \in Jobs : job'[k].stage = job[k].stage
        /\ HeldIsAtWork' /\ StageMatchesState' /\ PublishedOnce' /\ SpaceFollowsJobs'
        /\ SlotIsReal' /\ ReservedForTheAttempt'
    BY <1>1, <1>4, <2>1, <2>2, <2>3, OneRowChanges
  <2>5. TypeOK'
    BY <1>1, <2>4 DEF IInv, TypeOK
  <2> QED
    BY <1>1, <1>2, <2>3, <2>4, <2>5, StepKeeps
<1> QED
  BY <1>1, <1>3, <1>4 DEF AdoptFails

-----------------------------------------------------------------------------
(* The steps of a claim.                                                   *)

LEMMA ClaimIsReal ==
  ASSUME IInv, NEW w \in Workers, wk[w].pc \in Holding
  PROVE  /\ wk[w].job \in Jobs /\ wk[w].fence \in Nat \ {0} /\ wk[w] \in Locals
         /\ job[wk[w].job] \in Rows /\ wk[w].fence <= job[wk[w].job].fence
         /\ Claim(w) \in [job : Jobs, fence : Nat]
  BY DEF IInv, ClaimsAreReal, TypeOK, WorkersOK, Locals, Claim

(* Only a claim that has the slot is sent, and its job has no answer yet.  *)
LEMMA DispatchKeeps ==
  ASSUME IInv, NEW w \in Workers, Dispatch(w)
  PROVE  IInv' /\ WritesNothingLate
<1>1. /\ wk[w].pc = "claimed" /\ wk[w].pc \in Holding
      /\ UNCHANGED <<job, history, slot, resources, newAttempts, published, skipped>>
  BY DEF Dispatch, Holding
<1>2. CASE wk' = [wk EXCEPT ![w] = Answered(@, "not_dispatched", FALSE)] /\ UNCHANGED inflight
  <2> DEFINE l == Answered(wk[w], "not_dispatched", FALSE)
  <2>1. wk[w] \in Locals /\ wk' = [wk EXCEPT ![w] = l] /\ wk'[w] = l
    BY <1>2 DEF IInv, WorkersOK
  <2>2. /\ l \in Locals /\ l.pc = "answered" /\ l.evidence = "not_dispatched"
        /\ l.job = wk[w].job /\ l.fence = wk[w].fence /\ l.old = wk[w].old
    BY <2>1, AnsweredLocal DEF Evidence
  <2> HIDE DEF l
  <2>3. Claim(w) \notin inflight'
    BY <1>1, <1>2 DEF IInv, SlotCoversSenders
  <2>4. SendsNothingNew(w)
    BY <1>1, <2>1, <2>2, <2>3 DEF SendsNothingNew, KeepsClaim, Holding
  <2>5. WorkersOK' /\ \A v \in Workers : SendsNothingNew(v) \/ HasNoClaim(v)
    BY <1>2, <2>1, <2>2, <2>4, OneWorkerMoves
  <2> QED
    BY <1>1, <1>2, <2>5, WorkerStepKeeps
<1>3. CASE wk' = [wk EXCEPT ![w].pc = "calling"] /\ inflight' = inflight \cup {Claim(w)}
  <2> DEFINE l == [wk[w] EXCEPT !.pc = "calling"]
  <2>1. wk[w] \in Locals /\ wk'[w] = l /\ \A v \in Workers \ {w} : wk'[v] = wk[v]
    BY <1>3 DEF IInv, WorkersOK
  <2>2. /\ l \in Locals /\ l.pc = "calling" /\ l.job = wk[w].job /\ l.fence = wk[w].fence
        /\ l.old = wk[w].old
    BY <2>1, MovedLocal DEF Places, Holding
  <2> HIDE DEF l
  <2>3. WorkersOK'
    BY <1>3, <2>1, <2>2 DEF IInv, WorkersOK
  <2>4. TypeOK' /\ RowsMoveOn
    BY <1>1, <1>3, ClaimIsReal DEF IInv, TypeOK, RowsMoveOn, Rows
  <2>5. \A v \in Workers : KeepsClaim(v) \/ HasNoClaim(v)
    BY <1>1, <2>1, <2>2 DEF KeepsClaim, HasNoClaim, IInv, ClaimsAreReal, Holding
  <2>6. ClaimsAreReal' /\ ClaimsAreDistinct' /\ OldIsInvalid'
    BY <2>3, <2>4, <2>5, ClaimsKeep
  <2>7. SlotOf(Claim(w)) /\ Claim(w)' = Claim(w) /\ \A c : SlotOf(c)' = SlotOf(c)
    BY <1>1, <2>1, <2>2 DEF IInv, SlotCoversSenders, SlotOf, Claim
  <2>8. OneRequest'
    BY <1>3, <2>7 DEF IInv, OneRequest
  <2>9. SlotCoversSenders'
    <3>1. \A v \in Workers \ {w} :
            /\ Claim(v)' = Claim(v) /\ releaseKnown(v)' = releaseKnown(v)
            /\ wk[v].pc \in Holding => Claim(v) # Claim(w)
      BY <1>1, <2>1 DEF Claim, releaseKnown, IInv, ClaimsAreDistinct
    <3> QED
      BY <1>3, <2>1, <2>2, <2>7, <3>1 DEF IInv, SlotCoversSenders, Holding
  <2>10. HeldIsAtWork' /\ StageMatchesState' /\ PublishedOnce' /\ SpaceFollowsJobs'
    BY <1>1 DEF IInv, HeldIsAtWork, StageMatchesState, PublishedOnce, SpaceFollowsJobs
  <2>11. SlotIsReal' /\ ReservedForTheAttempt' /\ SkipsAreCounted'
    BY <1>1 DEF IInv, SlotIsReal, ReservedForTheAttempt, SkipsAreCounted
  <2>12. WritesNothingLate
    <3>1. job[wk[w].job].stage = 0
      BY <2>7 DEF IInv, SlotIsReal, SlotOf, Claim
    <3>2. \A k \in Jobs : ~(published[k] > published[k])
      BY DEF IInv, TypeOK
    <3>3. \A v \in Workers : wk[v].old => wk[v].job \in Jobs
      BY DEF IInv, ClaimsAreReal
    <3> QED
      BY <1>1, <1>3, <3>1, <3>2, <3>3 DEF WritesNothingLate, Claim
  <2> QED
    BY <2>3, <2>4, <2>6, <2>8, <2>9, <2>10, <2>11, <2>12 DEF IInv
<1> QED
  BY <1>2, <1>3 DEF Dispatch

(* The server finishes, or the client leaves it alone.                     *)
LEMMA AnswerKeeps ==
  ASSUME IInv, NEW w \in Workers, ServerFinishes(w) \/ ClientLeaves(w)
  PROVE  IInv' /\ WritesNothingLate
<1>1. PICK e \in {"completed", "unknown"}, b \in BOOLEAN :
         /\ wk' = [wk EXCEPT ![w] = Answered(@, e, b)]
         /\ e = "completed" => Claim(w) \notin inflight'
  BY DEF ServerFinishes, ClientLeaves
<1>2. /\ wk[w].pc = "calling" /\ inflight' \subseteq inflight
      /\ UNCHANGED <<job, history, slot, resources, newAttempts, published, skipped>>
  BY DEF ServerFinishes, ClientLeaves
<1> DEFINE l == Answered(wk[w], e, b)
<1>3. wk[w] \in Locals /\ wk' = [wk EXCEPT ![w] = l] /\ wk'[w] = l
  BY <1>1 DEF IInv, WorkersOK
<1>4. /\ l \in Locals /\ l.pc = "answered" /\ l.evidence = e
      /\ l.job = wk[w].job /\ l.fence = wk[w].fence /\ l.old = wk[w].old
  <2>1. e \in Evidence
    BY DEF Evidence
  <2> QED
    BY <1>3, <2>1, AnsweredLocal
<1> HIDE DEF l
<1>5. SendsNothingNew(w)
  BY <1>1, <1>2, <1>3, <1>4 DEF SendsNothingNew, KeepsClaim, Holding
<1>6. WorkersOK' /\ \A v \in Workers : SendsNothingNew(v) \/ HasNoClaim(v)
  BY <1>2, <1>3, <1>4, <1>5, OneWorkerMoves
<1> QED
  BY <1>2, <1>6, WorkerStepKeeps

LEMMA ServerEndsKeeps ==
  ASSUME IInv, NEW c \in inflight, ServerEnds(c)
  PROVE  IInv' /\ WritesNothingLate
<1>1. /\ inflight' \subseteq inflight
      /\ UNCHANGED <<job, history, slot, resources, newAttempts, wk, published, skipped>>
  BY DEF ServerEnds
<1> QED
  BY <1>1, WorkersWait, WorkerStepKeeps

LEMMA ContextLocal ==
  ASSUME NEW l \in Locals, NEW c \in {"live", "cancelled", "stopped"}
  PROVE  LET n == [l EXCEPT !.ctx = c] IN
         /\ n \in Locals /\ n.pc = l.pc /\ n.job = l.job /\ n.fence = l.fence
         /\ n.evidence = l.evidence /\ n.old = l.old
<1>1. [l EXCEPT !.ctx = c] \in Locals
  BY Zenon DEF Locals
<1> QED
  BY <1>1 DEF Locals

(* A worker's context ends, or the watcher has seen that.                  *)
LEMMA ContextEnds ==
  ASSUME IInv, NEW w \in Workers, NEW c \in {"live", "cancelled", "stopped"},
         wk[w].pc \in Holding, wk' = [wk EXCEPT ![w].ctx = c], UNCHANGED inflight
  PROVE  /\ WorkersOK' /\ KeepsClaim(w) /\ wk'[w].pc = wk[w].pc
         /\ \A v \in Workers \ {w} : wk'[v] = wk[v]
         /\ \A v \in Workers : SendsNothingNew(v) \/ HasNoClaim(v)
<1> DEFINE l == [wk[w] EXCEPT !.ctx = c]
<1>1. /\ wk[w] \in Locals /\ wk' = [wk EXCEPT ![w] = l] /\ wk'[w] = l
      /\ \A v \in Workers \ {w} : wk'[v] = wk[v]
  BY DEF IInv, WorkersOK
<1>2. /\ l \in Locals /\ l.pc = wk[w].pc /\ l.job = wk[w].job /\ l.fence = wk[w].fence
      /\ l.evidence = wk[w].evidence /\ l.old = wk[w].old
  BY <1>1, ContextLocal
<1> HIDE DEF l
<1>3. SendsNothingNew(w) /\ KeepsClaim(w)
  BY <1>1, <1>2 DEF SendsNothingNew, KeepsClaim
<1> QED
  BY <1>1, <1>2, <1>3, OneWorkerMoves

LEMMA CancelKeeps ==
  ASSUME IInv, NEW w \in Workers, Cancel(w)
  PROVE  IInv' /\ WritesNothingLate
<1>1. /\ wk[w].pc \in Holding /\ wk' = [wk EXCEPT ![w].ctx = "cancelled"]
      /\ UNCHANGED <<job, history, slot, resources, newAttempts, inflight, published, skipped>>
  BY DEF Cancel, Holding
<1> QED
  BY <1>1, ContextEnds, WorkerStepKeeps

(* A worker dies, or ends without writing.                                 *)
LEMMA CrashKeeps ==
  ASSUME IInv, NEW w \in Workers, Crash(w) \/ PublishFails(w)
  PROVE  IInv' /\ WritesNothingLate
<1>1. /\ Done(w)
      /\ UNCHANGED <<job, history, slot, resources, newAttempts, inflight, published, skipped>>
  BY DEF Crash, PublishFails
<1> QED
  BY <1>1, WorkerRests, WorkerStepKeeps

(* However an attempt is given up, the rows and the slot stay in step: the *)
(* slot is freed only for its own claim and on evidence.                   *)
LEMMA AttemptGivenUp ==
  ASSUME IInv, NEW w \in Workers, wk[w].pc \in Holding, NEW known \in BOOLEAN,
         \/ stopCompilerClaim(w, known)
         \/ \E terminal \in BOOLEAN : failCompilerAttempt(w, known, terminal),
         published' = published
  PROVE  /\ job' \in [Jobs -> Rows] /\ resources' \subseteq Jobs /\ RowsMoveOn
         /\ \A k \in Jobs : job'[k].stage = job[k].stage
         /\ HeldIsAtWork' /\ StageMatchesState' /\ PublishedOnce' /\ SpaceFollowsJobs'
         /\ SlotIsReal' /\ ReservedForTheAttempt'
         /\ SlotStays \/ (known /\ SlotOf(Claim(w)) /\ slot' = NoSlot)
<1> DEFINE j == wk[w].job
           r == job[j]
<1>1. j \in Jobs /\ r \in Rows /\ r.fence \in Nat
  BY ClaimIsReal DEF Rows
<1>2. CASE stopCompilerClaim(w, known) /\ Current(w)
  <2> DEFINE n == Stopped(w, r)
  <2>1. /\ job' = [job EXCEPT ![j] = n]
        /\ IF r.state = "running" THEN compilerRelease(Claim(w), known) ELSE UNCHANGED slot
        /\ resources' = IF w \in Callers \/ r.state = "running" THEN resources \ {j}
                                                                ELSE resources
    BY <1>2 DEF stopCompilerClaim
  <2>2. r.state \in {"running", "staged"} /\ j \in resources
    BY <1>1, <1>2 DEF Current, IInv, HeldIsAtWork, SpaceFollowsJobs
  <2>3. /\ n \in Rows /\ n.fence = r.fence + 1 /\ ~n.held
        /\ n.state \in IF w \in Callers THEN {"cancelled"}
                       ELSE IF r.state = "staged" THEN {"staged"} ELSE {"failed", "retry_wait"}
        /\ n.valid = r.valid /\ n.stage = r.stage
    BY <1>1, StoppedRow
  <2> HIDE DEF n
  <2>4. /\ SlotStays \/ (known /\ SlotOf(Claim(w)) /\ slot' = NoSlot)
        /\ ~(slot' # NoSlot /\ slot'.state = "reserved" /\ slot'.job = j)
    <3>1. CASE r.state = "running"
      BY <2>1, <3>1 DEF compilerRelease, SlotStays, SlotOf, PendingSlot
    <3>2. CASE r.state = "staged"
      BY <2>1, <3>2 DEF SlotStays, IInv, ReservedForTheAttempt
    <3> QED
      BY <2>2, <3>1, <3>2
  <2>5. /\ n.fence >= r.fence /\ n.fence # r.fence
        /\ n.state = "staged" => n.stage # 0
        /\ n.state \in {"none", "queued", "running", "retry_wait"} => n.stage = 0
        /\ n.state # "completed" /\ r.state # "completed"
        /\ resources' = IF n.state \in {"running", "staged"} THEN resources \cup {j}
                                                            ELSE resources \ {j}
    BY <1>1, <2>1, <2>2, <2>3 DEF IInv, StageMatchesState
  <2> HIDE DEF r, j
  <2>6. r = job[j]
    BY DEF r
  <2> QED
    BY <1>1, <2>1, <2>3, <2>4, <2>5, <2>6, OneRowChanges
<1>3. CASE stopCompilerClaim(w, known) /\ ~Current(w)
  <2>1. /\ slot' = slot \/ (known /\ SlotOf(Claim(w)) /\ slot' = NoSlot)
        /\ UNCHANGED <<job, resources>>
    BY <1>3 DEF stopCompilerClaim
  <2>2. job' \in [Jobs -> Rows] /\ resources' \subseteq Jobs /\ RowsMoveOn
    BY <2>1 DEF IInv, TypeOK, RowsMoveOn, Rows
  <2>3. HeldIsAtWork' /\ StageMatchesState' /\ PublishedOnce' /\ SpaceFollowsJobs'
    BY <2>1 DEF IInv, HeldIsAtWork, StageMatchesState, PublishedOnce, SpaceFollowsJobs
  <2>4. SlotIsReal' /\ ReservedForTheAttempt'
    BY <2>1 DEF IInv, SlotIsReal, ReservedForTheAttempt
  <2> QED
    BY <2>1, <2>2, <2>3, <2>4 DEF SlotStays
<1>4. ASSUME NEW b \in BOOLEAN, failCompilerAttempt(w, known, b), compilerFence(w, "running")
      PROVE  /\ job' \in [Jobs -> Rows] /\ resources' \subseteq Jobs /\ RowsMoveOn
             /\ \A k \in Jobs : job'[k].stage = job[k].stage
             /\ HeldIsAtWork' /\ StageMatchesState' /\ PublishedOnce' /\ SpaceFollowsJobs'
             /\ SlotIsReal' /\ ReservedForTheAttempt'
             /\ SlotStays \/ (known /\ SlotOf(Claim(w)) /\ slot' = NoSlot)
  <2> DEFINE n == Failed(r, b)
  <2>1. /\ job' = [job EXCEPT ![j] = n] /\ resources' = resources \ {j}
        /\ compilerRelease(Claim(w), known) /\ r.state = "running"
    BY <1>4 DEF failCompilerAttempt, compilerFence
  <2>2. /\ n \in Rows /\ n.state \in {"failed", "retry_wait"} /\ n.fence = r.fence /\ ~n.held
        /\ n.valid = r.valid /\ n.stage = r.stage
    BY <1>1, FailedRow
  <2> HIDE DEF n
  <2>3. /\ SlotStays \/ (known /\ SlotOf(Claim(w)) /\ slot' = NoSlot)
        /\ ~(slot' # NoSlot /\ slot'.state = "reserved" /\ slot'.job = j)
    BY <2>1 DEF compilerRelease, SlotStays, SlotOf, PendingSlot
  <2>4. n.fence >= r.fence /\ n.stage = 0
    BY <1>1, <2>1, <2>2 DEF IInv, StageMatchesState
  <2> HIDE DEF r, j
  <2>5. r = job[j]
    BY DEF r
  <2> QED
    BY <1>1, <2>1, <2>2, <2>3, <2>4, <2>5, OneRowChanges
<1> QED
  BY <1>2, <1>3, <1>4 DEF failCompilerAttempt

LEMMA WatcherStopsKeeps ==
  ASSUME IInv, NEW w \in Workers, WatcherStops(w)
  PROVE  IInv' /\ WritesNothingLate
<1>1. /\ wk[w].pc \in Holding /\ stopCompilerClaim(w, FALSE)
      /\ wk' = [wk EXCEPT ![w].ctx = "stopped"]
      /\ UNCHANGED <<history, newAttempts, inflight, published, skipped>>
  BY DEF WatcherStops, Holding
<1>2. /\ job' \in [Jobs -> Rows] /\ resources' \subseteq Jobs /\ RowsMoveOn
      /\ \A k \in Jobs : job'[k].stage = job[k].stage
      /\ HeldIsAtWork' /\ StageMatchesState' /\ PublishedOnce' /\ SpaceFollowsJobs'
      /\ SlotIsReal' /\ ReservedForTheAttempt' /\ SlotStays
  BY <1>1, AttemptGivenUp
<1>3. TypeOK'
  BY <1>1, <1>2 DEF IInv, TypeOK, SlotStays, PendingSlot
<1>4. WorkersOK' /\ \A v \in Workers : SendsNothingNew(v) \/ HasNoClaim(v)
  BY <1>1, ContextEnds
<1> QED
  BY <1>1, <1>2, <1>3, <1>4, StepKeeps

(* The attempt ends with what is known of the server.                      *)
LEMMA EndKeeps ==
  ASSUME IInv, NEW w \in Workers, wk[w].pc \in Holding, NEW known \in BOOLEAN,
         known => Claim(w) \notin inflight, Done(w),
         \/ stopCompilerClaim(w, known)
         \/ \E terminal \in BOOLEAN : failCompilerAttempt(w, known, terminal),
         UNCHANGED <<history, newAttempts, inflight, published, skipped>>
  PROVE  IInv' /\ WritesNothingLate
<1>1. /\ job' \in [Jobs -> Rows] /\ resources' \subseteq Jobs /\ RowsMoveOn
      /\ \A k \in Jobs : job'[k].stage = job[k].stage
      /\ HeldIsAtWork' /\ StageMatchesState' /\ PublishedOnce' /\ SpaceFollowsJobs'
      /\ SlotIsReal' /\ ReservedForTheAttempt'
      /\ SlotStays \/ (known /\ SlotOf(Claim(w)) /\ slot' = NoSlot)
  BY AttemptGivenUp
<1>2. /\ WorkersOK' /\ HasNoClaim(w)
      /\ \A v \in Workers \ {w} : wk'[v] = wk[v]
      /\ \A v \in Workers : SendsNothingNew(v) \/ HasNoClaim(v)
  BY WorkerRests
<1>3. TypeOK'
  BY <1>1 DEF IInv, TypeOK, SlotStays, PendingSlot
<1>4. CASE SlotStays
  BY <1>1, <1>2, <1>3, <1>4, StepKeeps
<1>5. CASE known /\ SlotOf(Claim(w)) /\ slot' = NoSlot
  <2>1. SlotCoversSenders' /\ OneRequest'
    BY <1>2, <1>5, FreeKeeps
  <2>2. ClaimsAreReal' /\ ClaimsAreDistinct' /\ OldIsInvalid'
    BY <1>1, <1>2, <1>3, ClaimsKeep DEF SendsNothingNew
  <2>3. SkipsAreCounted'
    BY DEF IInv, SkipsAreCounted
  <2>4. WritesNothingLate
    BY <1>1, NothingLate
  <2> QED
    BY <1>1, <1>2, <1>3, <2>1, <2>2, <2>3, <2>4 DEF IInv
<1> QED
  BY <1>1, <1>4, <1>5

LEMMA CancelledResultKeeps ==
  ASSUME IInv, NEW w \in Workers, CancelledResult(w)
  PROVE  IInv' /\ WritesNothingLate
<1>1. Done(w) /\ UNCHANGED <<history, newAttempts, inflight, published, skipped>>
  BY DEF CancelledResult
<1>2. PICK known \in BOOLEAN : /\ stopCompilerClaim(w, known) /\ wk[w].pc \in Holding
                               /\ known => Claim(w) \notin inflight
  <2>1. CASE wk[w].pc = "claimed" /\ stopCompilerClaim(w, TRUE)
    BY <2>1 DEF IInv, SlotCoversSenders, Holding
  <2>2. CASE wk[w].pc \in {"answered", "publish"} /\ stopCompilerClaim(w, releaseKnown(w))
    <3>1. releaseKnown(w) \in BOOLEAN
      BY DEF releaseKnown
    <3>2. releaseKnown(w) => Claim(w) \notin inflight
      BY <2>2 DEF IInv, SlotCoversSenders
    <3> QED
      BY <2>2, <3>1, <3>2 DEF Holding
  <2> QED
    BY <2>1, <2>2 DEF CancelledResult
<1> QED
  BY <1>1, <1>2, EndKeeps

LEMMA FailAttemptKeeps ==
  ASSUME IInv, NEW w \in Workers, FailAttempt(w)
  PROVE  IInv' /\ WritesNothingLate
<1>1. /\ wk[w].pc = "answered" /\ wk[w].pc \in Holding /\ Done(w)
      /\ \E terminal \in BOOLEAN : failCompilerAttempt(w, releaseKnown(w), terminal)
      /\ UNCHANGED <<history, newAttempts, inflight, published, skipped>>
  BY DEF FailAttempt, Holding
<1>2. releaseKnown(w) \in BOOLEAN /\ (releaseKnown(w) => Claim(w) \notin inflight)
  BY <1>1 DEF releaseKnown, IInv, SlotCoversSenders
<1> QED
  BY <1>1, <1>2, EndKeeps

(* Saving the answer frees the slot in the same transaction.               *)
LEMMA StageKeeps ==
  ASSUME IInv, NEW w \in Workers, stageCompilerResult(w)
  PROVE  IInv' /\ WritesNothingLate
<1> DEFINE j == wk[w].job
           n == Saved(job[j], wk[w].fence)
           l == [wk[w] EXCEPT !.pc = "publish"]
<1>1. /\ wk[w].pc = "answered" /\ wk[w].pc \in Holding /\ wk[w].evidence = "completed"
      /\ job[j].held /\ job[j].fence = wk[w].fence /\ job[j].state = "running" /\ job[j].valid
      /\ SlotOf(Claim(w)) /\ slot' = NoSlot
      /\ job' = [job EXCEPT ![j] = n]
      /\ wk' = [wk EXCEPT ![w].pc = "publish"]
      /\ UNCHANGED <<history, resources, newAttempts, inflight, published, skipped>>
  BY DEF stageCompilerResult, Usable, compilerFence, Current, compilerRelease, Holding
<1>2. /\ j \in Jobs /\ job[j] \in Rows /\ wk[w].fence \in Nat \ {0} /\ wk[w] \in Locals
  BY <1>1, ClaimIsReal
<1>3. /\ n \in Rows /\ n.state = "staged" /\ n.fence = job[j].fence /\ n.held
      /\ n.valid /\ n.stage = wk[w].fence
  BY <1>1, <1>2, SavedRow
<1>4. /\ l \in Locals /\ l.pc = "publish" /\ l.job = wk[w].job /\ l.fence = wk[w].fence
      /\ l.evidence = wk[w].evidence /\ l.old = wk[w].old
  BY <1>2, MovedLocal DEF Places, Holding
<1>5. /\ job \in [Jobs -> Rows] /\ job' \in [Jobs -> Rows]
      /\ job'[j] = n /\ \A k \in Jobs \ {j} : job'[k] = job[k]
      /\ wk' = [wk EXCEPT ![w] = l]
      /\ wk \in [Workers -> Locals] /\ wk'[w] = l /\ \A v \in Workers \ {w} : wk'[v] = wk[v]
  <2> HIDE DEF n
  <2> QED
    BY <1>1, <1>2, <1>3 DEF IInv, TypeOK, WorkersOK
<1> HIDE DEF n, l, j
<1>6. TypeOK' /\ WorkersOK'
  BY <1>1, <1>4, <1>5 DEF IInv, TypeOK, WorkersOK
<1>7. Claim(w) \notin inflight
  BY <1>1 DEF IInv, SlotCoversSenders, releaseKnown
<1>8. KeepsClaim(w) /\ SendsNothingNew(w)
  BY <1>1, <1>4, <1>5 DEF KeepsClaim, SendsNothingNew, Holding
<1>9. \A v \in Workers : SendsNothingNew(v) \/ HasNoClaim(v)
  BY <1>1, <1>4, <1>5, <1>8, OneWorkerMoves
<1>10. SlotCoversSenders' /\ OneRequest'
  BY <1>1, <1>4, <1>5, <1>7, <1>8, FreeKeeps
<1>11. RowsMoveOn
  BY <1>1, <1>2, <1>3, <1>5 DEF RowsMoveOn, Rows
<1>12. ClaimsAreReal' /\ ClaimsAreDistinct' /\ OldIsInvalid'
  BY <1>6, <1>9, <1>11, ClaimsKeep DEF SendsNothingNew
<1>13. HeldIsAtWork' /\ StageMatchesState' /\ PublishedOnce'
  BY <1>1, <1>2, <1>3, <1>5 DEF IInv, HeldIsAtWork, StageMatchesState, PublishedOnce
<1>14. SpaceFollowsJobs'
  BY <1>1, <1>2, <1>3, <1>5 DEF IInv, SpaceFollowsJobs
<1>15. SlotIsReal' /\ ReservedForTheAttempt' /\ SkipsAreCounted'
  BY <1>1 DEF IInv, SlotIsReal, ReservedForTheAttempt, SkipsAreCounted
<1>16. WritesNothingLate
  <2>1. ~wk[w].old
    BY <1>1 DEF IInv, OldIsInvalid, j
  <2>2. \A k \in Jobs : ~(published[k] > published[k])
    BY DEF IInv, TypeOK
  <2>3. \A v \in Workers : wk[v].old => wk[v].job \in Jobs
    BY DEF IInv, ClaimsAreReal
  <2> QED
    BY <1>1, <1>5, <2>1, <2>2, <2>3 DEF WritesNothingLate
<1> QED
  BY <1>6, <1>10, <1>12, <1>13, <1>14, <1>15, <1>16 DEF IInv

LEMMA PublishKeeps ==
  ASSUME IInv, NEW w \in Workers, publishCompilerResult(w)
  PROVE  IInv' /\ WritesNothingLate
<1> DEFINE j == wk[w].job
           n == Published(job[j])
<1>1. /\ wk[w].pc = "publish" /\ wk[w].pc \in Holding
      /\ job[j].fence = wk[w].fence /\ job[j].state = "staged" /\ job[j].valid
      /\ job' = [job EXCEPT ![j] = n]
      /\ resources' = resources \ {j}
      /\ published' = [published EXCEPT ![j] = @ + 1] /\ Done(w)
      /\ UNCHANGED <<history, slot, newAttempts, inflight, skipped>>
  BY DEF publishCompilerResult, compilerFence, Current, Holding
<1>2. j \in Jobs /\ job[j] \in Rows
  BY <1>1, ClaimIsReal
<1>3. /\ n \in Rows /\ n.state = "completed" /\ n.fence = job[j].fence /\ ~n.held
      /\ n.valid = job[j].valid /\ n.stage = job[j].stage
  BY <1>2, PublishedRow
<1> HIDE DEF n
<1>4. /\ job \in [Jobs -> Rows] /\ job' \in [Jobs -> Rows]
      /\ job'[j] = n /\ \A k \in Jobs \ {j} : job'[k] = job[k]
      /\ published \in [Jobs -> Nat] /\ published' \in [Jobs -> Nat]
      /\ published'[j] = published[j] + 1
      /\ \A k \in Jobs \ {j} : published'[k] = published[k]
  BY <1>1, <1>2, <1>3 DEF IInv, TypeOK
<1>5. ~wk[w].old
  BY <1>1 DEF IInv, OldIsInvalid
<1> HIDE DEF j
<1>6. TypeOK'
  BY <1>1, <1>4 DEF IInv, TypeOK
<1>7. /\ WorkersOK' /\ HasNoClaim(w)
      /\ \A v \in Workers \ {w} : wk'[v] = wk[v]
      /\ \A v \in Workers : SendsNothingNew(v) \/ HasNoClaim(v)
  BY <1>1, WorkerRests
<1>8. RowsMoveOn /\ SlotStays
  BY <1>1, <1>2, <1>3, <1>4 DEF RowsMoveOn, SlotStays, Rows
<1>9. ClaimsAreReal' /\ ClaimsAreDistinct' /\ OldIsInvalid'
  BY <1>6, <1>7, <1>8, ClaimsKeep DEF SendsNothingNew
<1>10. SlotCoversSenders' /\ OneRequest'
  BY <1>1, <1>7, <1>8, CoverKeeps
<1>11. HeldIsAtWork' /\ StageMatchesState'
  BY <1>1, <1>2, <1>3, <1>4 DEF IInv, HeldIsAtWork, StageMatchesState
<1>12. PublishedOnce'
  BY <1>1, <1>2, <1>3, <1>4 DEF IInv, PublishedOnce
<1>13. SpaceFollowsJobs'
  BY <1>1, <1>2, <1>3, <1>4 DEF IInv, SpaceFollowsJobs
<1>14. slot # NoSlot => slot.job \in Jobs
  BY DEF IInv, TypeOK
<1>15. SlotIsReal' /\ ReservedForTheAttempt' /\ SkipsAreCounted'
  BY <1>1, <1>3, <1>4, <1>14 DEF IInv, SlotIsReal, ReservedForTheAttempt, SkipsAreCounted
<1>16. WritesNothingLate
  <2>1. \A k \in Jobs : job'[k].stage = job[k].stage
    BY <1>3, <1>4
  <2>2. \A v \in Workers : wk[v].old => wk[v].job \in Jobs
    BY DEF IInv, ClaimsAreReal
  <2> QED
    BY <1>1, <1>5, <1>7, <2>1, <2>2 DEF WritesNothingLate
<1> QED
  BY <1>6, <1>7, <1>9, <1>10, <1>11, <1>12, <1>13, <1>15, <1>16 DEF IInv

-----------------------------------------------------------------------------
(* The whole specification.                                                *)

LEMMA InitIInv == Init => IInv
<1> SUFFICES ASSUME Init PROVE IInv
  OBVIOUS
<1>1. TypeOK
  BY CompilerAssumption DEF Init, TypeOK, Rows, States
<1>2. WorkersOK /\ ClaimsAreReal
  BY IdleLocal DEF Init, WorkersOK, ClaimsAreReal, Holding
<1>3. /\ ClaimsAreDistinct /\ HeldIsAtWork /\ StageMatchesState /\ SlotIsReal
      /\ SlotCoversSenders /\ OldIsInvalid
  BY DEF Init, ClaimsAreDistinct, HeldIsAtWork, StageMatchesState, SlotIsReal,
         SlotCoversSenders, OldIsInvalid, Idle, Holding
<1>4. /\ SkipsAreCounted /\ OneRequest /\ ReservedForTheAttempt /\ PublishedOnce
      /\ SpaceFollowsJobs
  BY DEF Init, SkipsAreCounted, OneRequest, ReservedForTheAttempt, PublishedOnce,
         SpaceFollowsJobs
<1> QED
  BY <1>1, <1>2, <1>3, <1>4 DEF IInv

LEMMA NextIInv ==
  ASSUME IInv, Next
  PROVE  IInv' /\ WritesNothingLate
<1>1. ASSUME NEW j \in Jobs, selectCompilerUnit(j) \/ Lapse(j) \/ Stall(j)
      PROVE  IInv' /\ WritesNothingLate
  BY <1>1, SelectKeeps, LapseKeeps
<1>2. CASE OwnerStep
  BY <1>2, CancelCompilerHistoryKeeps, ResumeCompilerHistoryKeeps, CancelCompilationKeeps,
     ResumeCompilationKeeps, PauseWorkKeeps, ResumeWorkKeeps DEF OwnerStep, OwnerResumes
<1>3. CASE resumeCompilerHistoryStep
  BY <1>3, HistoryStepKeeps
<1>4. ASSUME NEW w \in Hosts, HostStep(w)
      PROVE  IInv' /\ WritesNothingLate
  <2>1. w \in Workers
    BY DEF Workers
  <2> QED
    BY <1>4, <2>1, RecoverKeeps, ReconcileKeeps, PickNothingKeeps, PickStageKeeps,
       PickJobKeeps, AdoptKeeps, AdoptFailsKeeps DEF HostStep
<1>5. ASSUME NEW w \in Callers, NEW j \in Jobs, CompileCandidateUnit(w, j)
      PROVE  IInv' /\ WritesNothingLate
  BY <1>5, CompileCandidateUnitKeeps DEF Workers
<1>6. ASSUME NEW w \in Workers, ClaimStep(w) \/ Cancel(w) \/ Crash(w)
      PROVE  IInv' /\ WritesNothingLate
  BY <1>6, DispatchKeeps, AnswerKeeps, WatcherStopsKeeps, CancelledResultKeeps,
     FailAttemptKeeps, StageKeeps, PublishKeeps, CancelKeeps, CrashKeeps DEF ClaimStep
<1>7. ASSUME NEW c \in inflight, ServerEnds(c)
      PROVE  IInv' /\ WritesNothingLate
  BY <1>7, ServerEndsKeeps
<1> QED
  BY <1>1, <1>2, <1>3, <1>4, <1>5, <1>6, <1>7 DEF Next, Act

LEMMA StutterIInv ==
  ASSUME IInv, UNCHANGED vars
  PROVE  IInv'
<1>1. /\ UNCHANGED <<job, history, slot, resources, newAttempts, published, skipped>>
      /\ UNCHANGED <<wk, inflight>>
  BY DEF vars
<1> QED
  BY <1>1, WorkersWait, WorkerStepKeeps

(* The inductive invariant holds in every behaviour of the queue.          *)
THEOREM Invariance == Spec => []IInv
<1>1. IInv /\ [Next]_vars => IInv'
  BY NextIInv, StutterIInv
<1> QED
  BY InitIInv, <1>1, PTL DEF Spec

(* The queue is sound whatever the hosts, callers, owner and server do: a  *)
(* job is attempted at most MaxAttempts times and published exactly when   *)
(* it completes, stage space is held exactly by running and staged jobs,   *)
(* and at most NewLimit new jobs pass a waiting historical one             *)
(* (claimCompilerJob, publishCompilerResult, RecoverCompilerWork).         *)
THEOREM QueueStaysSound == Spec => []QueueIsSound
<1>1. IInv => QueueIsSound
  BY CompilerAssumption DEF IInv, QueueIsSound, HistoryNotStarved, SkipsAreCounted, TypeOK
<1> QED
  BY Invariance, <1>1, PTL

(* The one slot covers every request the model server may be working on,   *)
(* and is reserved for no attempt that is over, through crashes, lapsed    *)
(* leases, cancellations and late answers (compilerRelease,                *)
(* ReconcileCompilerCapacity, stopCompilerClaim).                          *)
THEOREM SlotStaysSound == Spec => []SlotIsSound
<1>1. IInv => SlotIsSound
  BY DEF IInv, SlotIsSound
<1> QED
  BY Invariance, <1>1, PTL

(* No request is sent for a job whose answer is saved, and a claim made    *)
(* before its activation was paused neither stages nor publishes after it  *)
(* (compilerFence, adoptCompilerStage).                                    *)
THEOREM LateClaimsNeverWrite == Spec => LateClaimsWriteNothing
<1>1. IInv /\ [Next]_vars => [WritesNothingLate]_vars
  BY NextIInv
<1>2. Spec => [][WritesNothingLate]_vars
  BY Invariance, <1>1, PTL DEF Spec
<1> QED
  BY <1>2 DEF LateClaimsWriteNothing, WritesNothingLate
=============================================================================
