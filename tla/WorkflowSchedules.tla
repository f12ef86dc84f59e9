------------------------- MODULE WorkflowSchedules -------------------------
(***************************************************************************)
(* The schedule of one workflow: internal/workflowruntime/schedules.go     *)
(* over internal/eviedb/workflow_schedules.go.  Every long-lived process   *)
(* has a ticker.  A tick takes the runner lease, reads the definition, the *)
(* owner's latest control and the latest decided slot in separate reads,   *)
(* decides from them, and then records one slot per transaction, so the    *)
(* owner and the other tickers act between any two of its steps.           *)
(*                                                                         *)
(* A slot is its place in the timetable; DueAt is when it comes due, which *)
(* two slots share when a daylight-saving gap shifted one of them.  A run  *)
(* is the Run Key it holds.  Preparing a start and its transaction are one *)
(* step: the transaction repeats every check that can change meanwhile.    *)
(* The workflow is blocked while its Workspace is archived.                *)
(***************************************************************************)
EXTENDS Integers, Sequences, FiniteSets, FiniteSetsExt

CONSTANTS
  Holders,      \* processes with a schedule ticker
  NoHolder,     \* runner_holder NULL
  Incapables,   \* sets of processes that cannot start the workflow's runs
  DueAt,        \* when each slot comes due, in timetable order
  RunKeys,      \* Run Keys of the workflow
  KeyOf,        \* the Run Key of a slot's run
  Policies,     \* catch-up policies to consider: "skip", "each_missed"
  MaxRuns,      \* each_missed: max_runs
  Grace,        \* SchedulerConfig.ScheduleGrace
  ScheduleKeep, \* scheduleKeep: the latest slots a tick looks at
  RunnerTicks,  \* scheduleRunnerLease: how long the runner lease lasts
  YieldTicks,   \* scheduleYieldTicks: how long a process leaves it to others
  MaxTime,      \* bound: the last instant told apart
  MaxVersion,   \* bound: approvals of the workflow
  MaxControls,  \* bound: pauses, resumes and deactivations
  MaxArchives,  \* bound: archivings and restorations of the Workspace
  MaxFaults,    \* bound: refused starts, failing runs, manual starts, crashes
  MaxEvents,    \* bound: all of these together
  MaxLate       \* bound: clock ticks past the lease of a suspended tick

Slots == DOMAIN DueAt

ASSUME ScheduleAssumption ==
  /\ NoHolder \notin Holders
  /\ Incapables \subseteq SUBSET Holders
  /\ DueAt \in Seq(Nat) /\ \A s, u \in Slots : s < u => DueAt[s] <= DueAt[u]
  /\ KeyOf \in [Slots -> RunKeys]
  /\ Policies \subseteq {"skip", "each_missed"}
  /\ {RunnerTicks, YieldTicks, MaxRuns, MaxVersion} \subseteq Nat \ {0}
  /\ {Grace, ScheduleKeep, MaxTime, MaxLate} \subseteq Nat
  /\ {MaxControls, MaxArchives, MaxFaults, MaxEvents} \subseteq Nat
  \* "more than any max_runs (31) and any skip grace's slots"
  /\ ScheduleKeep > MaxRuns
  /\ \A t \in 0..MaxTime :
       ScheduleKeep > Cardinality({s \in Slots : DueAt[s] \in (t - Grace)..t})

VARIABLES
  policy,      \* the catch-up policy of the schedule
  incapable,   \* processes that cannot start the workflow's runs
  late,        \* clock ticks that passed while a tick outlasted its runner lease
  now,         \* the clock
  version,     \* the latest row of workflow_activations: its version,
  approvedAt,  \*   approved_at, and
  active,      \*   whether it was not deactivated
  archived,    \* the Workspace is archived, which blocks the workflow
  control,     \* the latest workflow_schedule_controls row of the version
  controlAt,   \*   and when it was recorded
  outcome,     \* workflow_schedule_slots, by slot; "none" is no row
  held,        \* the Run Keys that a run holds
  runner,      \* workflow_scheduler_state: runner_holder, and
  runnerLeft,  \*   the ticks to runner_expires_at
  ticker,      \* what each process's tick has read and has left to do
  controls,    \* bounds spent
  archives,
  faults,
  starts,      \* history: how many runs each slot started
  passedOver,  \* history: the slots reported as skipped
  missed       \* history: the slots that came due while paused

definition == <<version, approvedAt, active, archived, control, controlAt, archives, controls>>
lease == <<runner, runnerLeft>>
history == <<starts, passedOver, missed>>
profile == <<policy, incapable>>
vars == <<profile, late, now, definition, outcome, held, lease, ticker, faults, history>>

Outcomes == {"none", "started", "existing", "skipped", "failed"}
NoSlot == 0
Cursors == [at : 0..MaxTime, key : Slots \cup {NoSlot}]
Idle == [pc |-> "idle", at |-> 0, version |-> 0, status |-> "inactive",
         cursor |-> [at |-> 0, key |-> NoSlot], todo |-> {}, yield |-> 0]

TypeOK ==
  /\ now \in 0..MaxTime /\ late \in 0..MaxLate /\ policy \in Policies
  /\ version \in 1..MaxVersion
  /\ approvedAt \in 0..MaxTime /\ controlAt \in 0..MaxTime
  /\ active \in BOOLEAN /\ archived \in BOOLEAN
  /\ control \in {"none", "pause", "resume"}
  /\ outcome \in [Slots -> Outcomes]
  /\ held \subseteq RunKeys
  /\ runner \in Holders \cup {NoHolder}
  /\ runnerLeft \in 0..RunnerTicks
  /\ ticker \in [Holders ->
       [pc : {"idle", "list", "control", "slot", "skip", "start", "fail", "yield"},
        at : 0..MaxTime, version : 0..MaxVersion,
        status : {"inactive", "paused", "blocked", "active"},
        cursor : Cursors, todo : SUBSET Slots, yield : 0..YieldTicks]]
  /\ controls \in 0..MaxControls /\ archives \in 0..MaxArchives /\ faults \in 0..MaxFaults
  /\ starts \in [Slots -> Nat]
  /\ passedOver \subseteq Slots /\ missed \subseteq Slots

Init ==
  /\ policy \in Policies /\ incapable \in Incapables /\ late = 0
  /\ now = 0
  /\ version = 1 /\ approvedAt = 0 /\ active = TRUE /\ archived = FALSE
  /\ control = "none" /\ controlAt = 0
  /\ outcome = [s \in Slots |-> "none"]
  /\ held = {}
  /\ runner = NoHolder /\ runnerLeft = 0
  /\ ticker = [h \in Holders |-> Idle]
  /\ controls = 0 /\ archives = 0 /\ faults = 0
  /\ starts = [s \in Slots |-> 0]
  /\ passedOver = {} /\ missed = {}

(* One more of the bounded events may happen.                              *)
More == version - 1 + controls + archives + faults < MaxEvents

-----------------------------------------------------------------------------
(* The timetable.                                                          *)

(* SlotCursor.Follows                                                      *)
Follows(c, s) ==
  \/ DueAt[s] > c.at
  \/ c.key # NoSlot /\ DueAt[s] = c.at /\ s > c.key

(* Timetable.Due: the slots after the cursor that are due.                 *)
Window(c, t) == {s \in Slots : Follows(c, s) /\ DueAt[s] <= t}

(* The latest n of a set of slots.                                         *)
Latest(S, n) == {s \in S : Cardinality({u \in S : u > s}) < n}

(* Which slots of the window the Catch-up Policy starts (tickSchedule).    *)
ToStart(status, W, t) ==
  LET latest == Latest(W, ScheduleKeep)
  IN IF status = "blocked" THEN {}
     ELSE IF policy = "each_missed" THEN Latest(latest, Max({MaxRuns, 1}))
     ELSE {s \in latest : t - DueAt[s] <= Grace}

-----------------------------------------------------------------------------
(* A tick.                                                                 *)

Go(h, place) == ticker' = [ticker EXCEPT ![h].pc = place]
EndTick(h, yield) == ticker' = [ticker EXCEPT ![h] = [Idle EXCEPT !.yield = yield]]
RowsUnchanged == UNCHANGED <<now, definition, outcome, held, history>>

(* tickSchedules up to AcquireWorkflowScheduleRunner, which renews its own *)
(* lease or takes a free or expired one.                                   *)
AcquireRunner(h) ==
  /\ ticker[h].pc = "idle" /\ ticker[h].yield = 0
  /\ runner = NoHolder \/ runner = h \/ runnerLeft = 0
  /\ runner' = h /\ runnerLeft' = RunnerTicks
  /\ ticker' = [ticker EXCEPT ![h].pc = "list", ![h].at = now]
  /\ RowsUnchanged /\ UNCHANGED faults

(* WorkflowSchedules, first read: the current version and its status.      *)
ReadDefinition(h) ==
  /\ ticker[h].pc = "list"
  /\ ticker' = [ticker EXCEPT ![h].pc = "control",
       ![h].version = version,
       ![h].status = IF ~active THEN "inactive" ELSE IF archived THEN "blocked" ELSE "active",
       ![h].cursor = [at |-> approvedAt, key |-> NoSlot]]
  /\ RowsUnchanged /\ UNCHANGED <<lease, faults>>

(* Second read: the latest control of the version read before.  A version  *)
(* that is no longer the latest is not started whatever its control says,  *)
(* so its control is not kept.                                             *)
ReadControl(h) ==
  LET known == ticker[h].version = version
  IN /\ ticker[h].pc = "control"
     /\ ticker' = [ticker EXCEPT ![h].pc = "slot",
          ![h].status = IF @ # "inactive" /\ known /\ control = "pause" THEN "paused" ELSE @,
          ![h].cursor = IF known /\ control = "resume" /\ controlAt > @.at
                        THEN [at |-> controlAt, key |-> NoSlot] ELSE @]
     /\ RowsUnchanged /\ UNCHANGED <<lease, faults>>

Decided == {s \in Slots : outcome[s] # "none"}

(* Third read: the latest decided slot, which completes the cursor; then   *)
(* tickSchedule decides from what was read, at the time the tick began.    *)
Cursor(h) ==
  LET c == ticker[h].cursor
  IN IF Decided # {} /\ DueAt[Max(Decided)] > c.at
     THEN [at |-> DueAt[Max(Decided)], key |-> Max(Decided)] ELSE c

ReadLastSlot(h) ==
  LET W == Window(Cursor(h), ticker[h].at)
  IN /\ ticker[h].pc = "slot"
     /\ IF ticker[h].status \in {"inactive", "paused"} \/ W = {}
        THEN EndTick(h, 0)
        ELSE ticker' = [ticker EXCEPT ![h].pc = "skip", ![h].cursor = Cursor(h),
                          ![h].todo = ToStart(ticker[h].status, W, ticker[h].at)]
     /\ RowsUnchanged /\ UNCHANGED <<lease, faults>>

(* RecordWorkflowScheduleSlot for the slots that are skipped: one row, of  *)
(* the latest of them, unless it is decided already.                       *)
RecordSkipped(h) ==
  LET W == Window(ticker[h].cursor, ticker[h].at)
      skipped == W \ ticker[h].todo
      looked == Latest(W, ScheduleKeep) \ ticker[h].todo
      last == Max(looked)
      record == looked # {} /\ outcome[last] = "none"
  IN /\ ticker[h].pc = "skip"
     /\ outcome' = IF record THEN [outcome EXCEPT ![last] = "skipped"] ELSE outcome
     /\ passedOver' = IF record THEN passedOver \cup skipped ELSE passedOver
     /\ IF ticker[h].todo = {} THEN EndTick(h, 0) ELSE Go(h, "start")
     /\ UNCHANGED <<now, definition, held, lease, faults, starts, missed>>

(* The slot of a tick's next start: oldest first.                          *)
NextSlot(h) == Min(ticker[h].todo)

(* The slot is done with: the next one, or the end of the tick.            *)
SlotDone(h) ==
  IF ticker[h].todo = {NextSlot(h)} THEN EndTick(h, 0)
  ELSE ticker' = [ticker EXCEPT ![h].pc = "start", ![h].todo = @ \ {NextSlot(h)}]

(* Mutant of Admitted: admission is not repeated in the transaction.       *)
AdmittedByVersion(v) == version = v

(* admitWorkflowStart and the check of the version: what the transaction   *)
(* of a scheduled start requires of the definition.                        *)
Admitted(v) == active /\ ~archived /\ version = v

(* Mutant of RecordStarted: the slot's row is not looked up first.         *)
RecordStartedAgain(h, s) ==
  /\ IF KeyOf[s] \in held
     THEN /\ outcome' = [outcome EXCEPT ![s] = "existing"]
          /\ UNCHANGED <<held, starts>>
     ELSE /\ outcome' = [outcome EXCEPT ![s] = "started"]
          /\ held' = held \cup {KeyOf[s]}
          /\ starts' = [starts EXCEPT ![s] = @ + 1]

(* recordStartedSlot, in StartWorkflowRun's transaction: the slot is       *)
(* recorded with the run it starts, or with the one that holds its key.    *)
(* A slot decided before refuses both.                                     *)
RecordStarted(h, s) ==
  IF outcome[s] # "none" THEN UNCHANGED <<outcome, held, starts>>
  ELSE IF KeyOf[s] \in held
       THEN /\ outcome' = [outcome EXCEPT ![s] = "existing"]
            /\ UNCHANGED <<held, starts>>
       ELSE /\ outcome' = [outcome EXCEPT ![s] = "started"]
            /\ held' = held \cup {KeyOf[s]}
            /\ starts' = [starts EXCEPT ![s] = @ + 1]

(* startSlot when nothing but the rows decides: the slot is recorded, was  *)
(* decided elsewhere, or the definition changed since the tick read it and *)
(* the slot is left undecided; the tick goes on with its next slot.        *)
StartSlot(h) ==
  /\ ticker[h].pc = "start" /\ h \notin incapable
  /\ IF Admitted(ticker[h].version) THEN RecordStarted(h, NextSlot(h))
                                    ELSE UNCHANGED <<outcome, held, starts>>
  /\ SlotDone(h)
  /\ UNCHANGED <<now, definition, lease, faults, passedOver, missed>>

(* startSlot in a process that cannot start it: the tick ends and yields.  *)
(* Preparing the run checks the version and its admission first.           *)
CannotStart(h) ==
  /\ ticker[h].pc = "start" /\ h \in incapable
  /\ IF Admitted(ticker[h].version) THEN Go(h, "yield") ELSE SlotDone(h)
  /\ RowsUnchanged /\ UNCHANGED <<lease, faults>>

(* startSlot when the start fails for any other reason: the slot is to be  *)
(* recorded as failed.                                                     *)
StartFails(h) ==
  /\ ticker[h].pc = "start"
  /\ faults < MaxFaults /\ More /\ faults' = faults + 1
  /\ Admitted(ticker[h].version)
  /\ Go(h, "fail")
  /\ RowsUnchanged /\ UNCHANGED lease

RecordFailed(h) ==
  /\ ticker[h].pc = "fail"
  /\ outcome' = [outcome EXCEPT ![NextSlot(h)] = IF @ = "none" THEN "failed" ELSE @]
  /\ SlotDone(h)
  /\ UNCHANGED <<now, definition, held, lease, faults, history>>

(* Mutant of Yield: the runner lease is kept.                              *)
YieldWithoutRelease(h) ==
  /\ ticker[h].pc = "yield"
  /\ EndTick(h, 0)
  /\ RowsUnchanged /\ UNCHANGED <<lease, faults>>

(* The end of tickSchedules after a slot it could not start, with          *)
(* ReleaseWorkflowScheduleRunner, which only releases the caller's lease.  *)
Yield(h) ==
  /\ ticker[h].pc = "yield"
  /\ runner' = IF runner = h THEN NoHolder ELSE runner
  /\ runnerLeft' = IF runner = h THEN 0 ELSE runnerLeft
  /\ EndTick(h, YieldTicks)
  /\ RowsUnchanged /\ UNCHANGED faults

(* The process dies, or a store call fails: the tick is not finished.      *)
Abandon(h) ==
  /\ ticker[h].pc # "idle"
  /\ faults < MaxFaults /\ More /\ faults' = faults + 1
  /\ EndTick(h, 0)
  /\ RowsUnchanged /\ UNCHANGED lease

(* The stop of the scheduler gives the runner lease up.                    *)
Stop(h) ==
  /\ ticker[h].pc = "idle" /\ runner = h
  /\ faults < MaxFaults /\ More /\ faults' = faults + 1
  /\ runner' = NoHolder /\ runnerLeft' = 0
  /\ RowsUnchanged /\ UNCHANGED ticker

-----------------------------------------------------------------------------
(* The owner, the runs and the clock.                                      *)

OwnerActs == controls < MaxControls /\ More /\ controls' = controls + 1
TickersUnchanged == UNCHANGED <<now, outcome, held, lease, ticker, faults, history>>

(* ControlWorkflowSchedule: pausing what runs, resuming what is paused.    *)
ControlSchedule(action) ==
  /\ OwnerActs
  /\ active
  /\ (control = "pause") # (action = "pause")
  /\ control' = action /\ controlAt' = now
  /\ TickersUnchanged /\ UNCHANGED <<version, approvedAt, active, archived, archives>>

(* ActivateWorkflow: the next version, whose schedule starts unpaused.     *)
ActivateWorkflow ==
  /\ version < MaxVersion /\ More
  /\ ~archived
  /\ version' = version + 1 /\ approvedAt' = now /\ active' = TRUE
  /\ control' = "none" /\ controlAt' = now
  /\ TickersUnchanged /\ UNCHANGED <<archived, archives, controls>>

DeactivateWorkflow ==
  /\ OwnerActs
  /\ active
  /\ active' = FALSE
  /\ TickersUnchanged /\ UNCHANGED <<version, approvedAt, archived, control, controlAt, archives>>

(* The Workspace is archived or restored.                                  *)
ArchiveWorkspace ==
  /\ archives < MaxArchives /\ More /\ archives' = archives + 1
  /\ archived' = ~archived
  /\ TickersUnchanged /\ UNCHANGED <<version, approvedAt, active, control, controlAt, controls>>

(* StartWorkflowRun by the owner, without a slot: nothing new starts while *)
(* a run holds the key.                                                    *)
StartManually(k) ==
  /\ faults < MaxFaults /\ More /\ faults' = faults + 1
  /\ active /\ ~archived
  /\ k \notin held
  /\ held' = held \cup {k}
  /\ UNCHANGED <<now, definition, outcome, lease, ticker, history>>

(* A run fails or is cancelled, which frees its key.                       *)
RunFails(k) ==
  /\ faults < MaxFaults /\ More /\ faults' = faults + 1
  /\ k \in held
  /\ held' = held \ {k}
  /\ UNCHANGED <<now, definition, outcome, lease, ticker, history>>

Less(n) == IF n = 0 THEN 0 ELSE n - 1

Punctual == \A h \in Holders : ticker[h].pc # "idle" => runner = h /\ runnerLeft > 1

(* Time passes.  A tick that is not suspended ends before its lease does.  *)
Clock ==
  /\ IF Punctual THEN UNCHANGED late ELSE late < MaxLate /\ late' = late + 1
  /\ now' = Min({now + 1, MaxTime})
  /\ runnerLeft' = Less(runnerLeft)
  /\ ticker' = [h \in Holders |-> [ticker[h] EXCEPT !.yield = Less(@)]]
  /\ missed' = IF control = "pause"
               THEN missed \cup {s \in Slots : now < DueAt[s] /\ DueAt[s] <= now'} ELSE missed
  /\ UNCHANGED <<profile, definition, outcome, held, runner, faults, starts, passedOver>>

Tick(h) ==
  \/ AcquireRunner(h) \/ ReadDefinition(h) \/ ReadControl(h) \/ ReadLastSlot(h)
  \/ RecordSkipped(h) \/ StartSlot(h) \/ CannotStart(h) \/ RecordFailed(h) \/ Yield(h)

Next ==
  \/ Clock
  \/ /\ \/ \E h \in Holders : Tick(h) \/ StartFails(h) \/ Abandon(h) \/ Stop(h)
        \/ \E action \in {"pause", "resume"} : ControlSchedule(action)
        \/ ActivateWorkflow
        \/ DeactivateWorkflow
        \/ ArchiveWorkspace
        \/ \E k \in RunKeys : StartManually(k) \/ RunFails(k)
     /\ UNCHANGED <<profile, late>>

Spec == Init /\ [][Next]_vars

(* A tick goes on once begun; a ticker fires every period, which comes     *)
(* several times within a yield (YieldTicks periods), so a lease given up  *)
(* again and again is found free (strong fairness); time passes.           *)
FairSpec ==
  /\ Spec
  /\ WF_vars(Clock)
  /\ \A h \in Holders :
       /\ SF_vars(AcquireRunner(h) /\ UNCHANGED <<profile, late>>)
       /\ WF_vars((ReadDefinition(h) \/ ReadControl(h) \/ ReadLastSlot(h)
                   \/ RecordSkipped(h) \/ StartSlot(h) \/ CannotStart(h)
                   \/ RecordFailed(h) \/ Yield(h)) /\ UNCHANGED <<profile, late>>)

-----------------------------------------------------------------------------
(* Safety.                                                                 *)

(* No slot starts two runs, whichever processes decide it and although its *)
(* run may fail and free its key in between.                               *)
SlotStartsOnce == \A s \in Slots : starts[s] <= 1

(* Slots that came due while the owner had paused the schedule are never   *)
(* caught up: no tick starts one, not even one that read the schedule      *)
(* before the pause or is suspended until after the resume.                *)
PausedSlotsNeverCaughtUp ==
  \A s \in missed : outcome[s] \notin {"started", "existing"}

(* A slot reported to the owner as skipped does not run afterwards, as     *)
(* long as no tick outlasts its runner lease.                              *)
SkippedStaysSkipped ==
  late = 0 => \A s \in passedOver : outcome[s] \notin {"started", "existing"}

(* Where the cursor of the latest version starts: at its approval, or at   *)
(* the resume that came after it.                                          *)
Horizon == IF control = "resume" /\ controlAt > approvedAt THEN controlAt ELSE approvedAt

(* The slots that are behind the cursor of the latest version although     *)
(* nothing was decided or reported about them.                             *)
Lost ==
  LET last == IF Decided = {} THEN NoSlot ELSE Max(Decided)
  IN {s \in Slots : /\ DueAt[s] > Horizon
                    /\ s < last
                    /\ outcome[s] = "none"
                    /\ s \notin passedOver}

(* No slot of an active schedule falls behind the cursor without a         *)
(* decision or a report ("the next tick reads it again", startSlot).  Only *)
(* a Workspace archived and restored between two starts of one tick makes  *)
(* it pass over the slot that was refused; and the cursor of a paused      *)
(* schedule is the moment of the resume to come.                           *)
NoSlotLost == late = 0 /\ archives < 2 /\ control # "pause" => Lost = {}

(* Every slot gets the one decision that the owner was told of.            *)
SlotsAreDecidedOnce ==
  /\ TypeOK
  /\ SlotStartsOnce
  /\ PausedSlotsNeverCaughtUp
  /\ SkippedStaysSkipped
  /\ NoSlotLost

-----------------------------------------------------------------------------
(* What a step may never do.                                               *)

(* A deactivated or blocked workflow, or a version that is no longer the   *)
(* latest, starts no run however old the read a tick decides from.         *)
StartsUnderCurrentVersion ==
  [][\A s \in Slots :
       outcome'[s] # outcome[s] /\ outcome'[s] \in {"started", "existing"} =>
         /\ active /\ ~archived
         /\ \E h \in Holders : /\ ticker[h].pc = "start" /\ s \in ticker[h].todo
                              /\ ticker[h].version = version]_vars

-----------------------------------------------------------------------------
(* Liveness.                                                               *)

(* Again and again no due slot of a running schedule is left undecided,    *)
(* also when one process cannot start its runs but another one can.        *)
DueSlotsAreDecided ==
  []<>(late = 0 => \A s \in Slots :
         DueAt[s] <= now /\ DueAt[s] > approvedAt =>
           \/ outcome[s] # "none"
           \/ \E u \in Decided : s < u
           \/ ~active \/ archived \/ control # "none" \/ version > 1)
=============================================================================
