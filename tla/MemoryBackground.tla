--------------------------- MODULE MemoryBackground ---------------------------
(***************************************************************************)
(* The background memory pass (internal/memorybackground/pass.go over      *)
(* internal/eviedb/memory_background.go).  Runners in several processes    *)
(* share one durable runner lease.  A tick lists the conversations that    *)
(* are due, and for each reads a batch of owner messages past its cursor,  *)
(* asks a model at most twice, and commits proposals and cursor under the  *)
(* conversation's turn lease, by compare-and-set on the cursor.            *)
(*                                                                         *)
(* A message is its ordinal in its conversation; texts, candidates,        *)
(* comparisons and prices are left out, and every model call is estimated  *)
(* at one unit of spend.  Time is counted only where it decides: the age   *)
(* of the runner lease while its holder works.                             *)
(***************************************************************************)
EXTENDS Naturals, FiniteSets

CONSTANTS
  Sessions,       \* root conversations
  Runners,        \* processes running the pass
  Nobody,         \* no runner
  Dead,           \* a process that died; its successor has a new name
  MaxMessages,    \* bound: owner messages per conversation
  MalformedSkip,  \* 3 in the code
  Retries,        \* ProviderRetries, 2 in the code
  CallTime,       \* CallTimeout
  CommitTime,     \* CommitAttempts times CommitWait
  Slack,          \* the minute runnerLeaseTTL adds
  Settings,       \* settings to consider: batch (30 in the code), retryDelay (the
                  \*   longest wait between two attempts), dailyCap (in calls)
  MaxFaults,      \* bound: provider faults, malformed answers, shutdowns
  MaxCrashes      \* bound: processes that die

ASSUME BackgroundAssumption ==
  /\ Nobody \notin Runners /\ Dead \notin Runners
  /\ {MalformedSkip, Slack, MaxMessages} \subseteq Nat \ {0}
  /\ {Retries, CallTime, CommitTime, MaxFaults, MaxCrashes} \subseteq Nat
  /\ Settings \subseteq [batch : Nat \ {0}, retryDelay : Nat, dailyCap : Nat \ {0}]

VARIABLES
  setting,    \* the settings of this behaviour
  last,       \* owner messages in each conversation
  compacted,  \* what a committed compaction summarized, per conversation
  turn,       \* the conversation's turn lease: "none", "chat" or a runner
  activated,  \* memory_background_state exists
  cursor,     \* memory_background_cursors: cursor_sequence,
  malformed,  \*   malformed,
  backoff,    \*   and next_attempt_at lies ahead
  lease,      \* the runner lease: holder and age
  recorded,   \* today's spend in memory_background_runs
  rn,         \* the runners' local state
  start,      \* the cursors at activation (history)
  covered,    \* how often a message was covered (history)
  tried,      \* how often a message was in a malformed batch (history)
  hasty,      \* batches given up before enough attempts on their first message (history)
  billed,     \* calls billed today (history)
  faults, crashes

chat == <<last, compacted>>
marks == <<cursor, malformed, backoff>>
hist == <<start, covered, tried, hasty, billed>>
vars == <<setting, chat, turn, activated, marks, lease, recorded, rn, hist, faults, crashes>>

Messages == 1..MaxMessages
BatchMessages == setting.batch
RetryDelay == setting.retryDelay
DailyCap == setting.dailyCap

\* Covers a whole pass: two calls with retries plus the commit wait.
runnerLeaseTTL == 2 * (1 + Retries) * CallTime + CommitTime + Slack

Idle == [pc |-> "idle", todo |-> {}, session |-> Nobody, through |-> 0, from |-> 0,
         to |-> 0, malformed |-> 0, call |-> 1, attempt |-> 0, spent |-> 0]

Init ==
  /\ setting \in Settings
  /\ last \in [Sessions -> {0, 1}] /\ compacted = [s \in Sessions |-> 0]
  /\ turn = [s \in Sessions |-> "none"]
  /\ activated = FALSE
  /\ cursor = [s \in Sessions |-> 0] /\ malformed = [s \in Sessions |-> 0]
  /\ backoff = [s \in Sessions |-> FALSE]
  /\ lease = [holder |-> Nobody, age |-> 0]
  /\ recorded = 0 /\ billed = 0
  /\ rn = [r \in Runners |-> Idle]
  /\ start = [s \in Sessions |-> 0]
  /\ covered = [s \in Sessions |-> [k \in Messages |-> 0]]
  /\ tried = [s \in Sessions |-> [k \in Messages |-> 0]]
  /\ hasty = {}
  /\ faults = 0 /\ crashes = 0

-----------------------------------------------------------------------------
(* The conversations.  A chat turn holds the turn lease; the owner's message *)
(* opens it, a compaction may commit within it.                              *)

OwnerMessage(s) ==
  /\ turn[s] = "none" /\ last[s] < MaxMessages
  /\ turn' = [turn EXCEPT ![s] = "chat"]
  /\ last' = [last EXCEPT ![s] = @ + 1]
  /\ UNCHANGED <<compacted, activated, marks, lease, recorded, rn, hist, faults, crashes>>

\* A compaction commits.  Its request to flush is only a wake-up: the durable
\* frontier alone makes the conversation due.
Compact(s) ==
  /\ turn[s] = "chat"
  /\ \E k \in Messages : k <= last[s] /\ k > compacted[s]
                         /\ compacted' = [compacted EXCEPT ![s] = k]
  /\ UNCHANGED <<last, turn, activated, marks, lease, recorded, rn, hist, faults, crashes>>

\* The turn ends, or its process died and the lease ran out.
EndTurn(s) ==
  /\ turn[s] = "chat"
  /\ turn' = [turn EXCEPT ![s] = "none"]
  /\ UNCHANGED <<chat, activated, marks, lease, recorded, rn, hist, faults, crashes>>

-----------------------------------------------------------------------------
(* The store's operations.                                                 *)

\* Mutant: an expired lease stays its holder's.
LeaseForEver(r) == lease.holder \in {r, Nobody}

LeaseFree(r) == lease.holder \in {r, Nobody} \/ lease.age >= runnerLeaseTTL

\* AcquireMemoryBackgroundRunner takes or renews the lease.
AcquireRunner(r) == LeaseFree(r) /\ lease' = [holder |-> r, age |-> 0]

\* Work of the holder takes time; the clock runs for everybody.
Takes(r, time) ==
  \E t \in {0, time} :
    lease' = IF lease.holder = r
             THEN [lease EXCEPT !.age = IF @ + t < runnerLeaseTTL THEN @ + t
                                        ELSE runnerLeaseTTL]
             ELSE lease

\* EnsureMemoryBackgroundActivation: once, every conversation starts at its end.
EnsureActivation ==
  IF activated THEN UNCHANGED <<activated, cursor, start>>
  ELSE activated' = TRUE /\ cursor' = last /\ start' = last

\* DueMemoryBackgroundSessions: messages past the cursor, no live turn, no
\* backoff.  The idle time is taken to be over whenever a tick looks.
Due == {s \in Sessions : cursor[s] < last[s] /\ turn[s] = "none" /\ ~backoff[s]}

\* An owed compaction flush runs through the compaction's frontier.
FlushTo(s) == IF compacted[s] > cursor[s] THEN compacted[s] ELSE 0

capExceeded(extra) == recorded + extra > DailyCap

\* Asked once per call, before its first attempt.
Capped(r) == rn[r].attempt = 0 /\ capExceeded(rn[r].spent + 1)

Earlier(a, b) == IF a < b THEN a ELSE b

\* The run's row: its spend counts toward today's cap.
insertRun(r, spent) == recorded' = recorded + spent

\* Mutant: no compare.
CursorUnchecked(r) == TRUE

\* checkBackgroundCursor, the compare-and-set.
CursorHeld(r) == cursor[rn[r].session] = rn[r].from

Cover(r) ==
  covered' = [covered EXCEPT ![rn[r].session] = [k \in Messages |->
    IF rn[r].from < k /\ k <= rn[r].to THEN @[k] + 1 ELSE @[k]]]

\* After a pass: a flush goes on to its frontier after progress, else the next
\* conversation.
After(r, progress) ==
  rn' = [rn EXCEPT ![r] = IF progress /\ rn[r].through > rn[r].to
                          THEN [@ EXCEPT !.pc = "renew", !.spent = 0]
                          ELSE [Idle EXCEPT !.pc = "next", !.todo = rn[r].todo]]

\* FailMemoryBackgroundPass for a failed or deferred run: the cursor stays, the
\* next attempt waits.  Superseded: the spend alone.
FailPass(r, status, bad, spent) ==
  LET s == rn[r].session IN
  /\ insertRun(r, spent)
  /\ UNCHANGED <<cursor, covered, hasty>>
  /\ IF CursorHeld(r)
     THEN /\ backoff' = [backoff EXCEPT ![s] = TRUE]
          /\ malformed' = [malformed EXCEPT ![s] = IF status = "deferred" THEN @
                                                   ELSE IF bad THEN @ + 1 ELSE 0]
     ELSE UNCHANGED <<backoff, malformed>>

\* A skipped run moves the cursor past its batch.
SkipPass(r) ==
  LET s == rn[r].session IN
  /\ insertRun(r, rn[r].spent)
  /\ IF CursorHeld(r)
     THEN /\ cursor' = [cursor EXCEPT ![s] = rn[r].to]
          /\ malformed' = [malformed EXCEPT ![s] = 0]
          /\ backoff' = [backoff EXCEPT ![s] = FALSE]
          /\ Cover(r)
          /\ hasty' = IF tried'[s][rn[r].from + 1] < MalformedSkip
                      THEN hasty \cup {<<s, rn[r].from>>} ELSE hasty
     ELSE UNCHANGED <<cursor, malformed, backoff, covered, hasty>>

-----------------------------------------------------------------------------
(* A runner's tick.                                                        *)

Tick(r) ==
  /\ rn[r].pc = "idle"
  /\ AcquireRunner(r)
  /\ EnsureActivation
  /\ rn' = [rn EXCEPT ![r] = IF capExceeded(1) \/ ~activated THEN Idle
                             ELSE [Idle EXCEPT !.pc = "next",
                                               !.todo = {<<s, FlushTo(s)>> : s \in Due}]]
  /\ UNCHANGED <<chat, turn, malformed, backoff, recorded, covered, tried, hasty, billed,
                 faults, crashes>>

\* The next conversation of the list, under a renewed lease; a runner that lost
\* the lease stops.
NextSession(r) ==
  /\ rn[r].pc = "next" /\ rn[r].todo # {}
  /\ \/ /\ AcquireRunner(r)
        /\ \E item \in rn[r].todo :
             rn' = [rn EXCEPT ![r] = [Idle EXCEPT !.pc = "read", !.session = item[1],
                      !.through = item[2], !.todo = rn[r].todo \ {item}]]
     \/ ~LeaseFree(r) /\ UNCHANGED lease /\ rn' = [rn EXCEPT ![r] = Idle]
  /\ UNCHANGED <<chat, turn, activated, marks, recorded, hist, faults, crashes>>

EndTick(r) ==
  /\ rn[r].pc = "next" /\ rn[r].todo = {}
  /\ rn' = [rn EXCEPT ![r] = Idle]
  /\ UNCHANGED <<chat, turn, activated, marks, lease, recorded, hist, faults, crashes>>

\* passThrough renews before each further batch of a flush.
Renew(r) ==
  /\ rn[r].pc = "renew"
  /\ \/ /\ AcquireRunner(r)
        /\ rn' = [rn EXCEPT ![r] = [Idle EXCEPT !.pc = "read", !.session = rn[r].session,
                             !.todo = rn[r].todo, !.through = rn[r].through]]
     \/ ~LeaseFree(r) /\ UNCHANGED lease /\ rn' = [rn EXCEPT ![r] = Idle]
  /\ UNCHANGED <<chat, turn, activated, marks, recorded, hist, faults, crashes>>

\* The last message of the batch: its size, the flush's frontier and the end of
\* the conversation bound it.
BatchEnd(r) ==
  LET s == rn[r].session
      end == IF rn[r].through > 0 THEN Earlier(rn[r].through, last[s]) ELSE last[s]
  IN Earlier(cursor[s] + BatchMessages, end)

\* MemoryBackgroundBatch.  A batch of commands and withheld messages alone is
\* covered without a call.
ReadBatch(r) ==
  LET s == rn[r].session IN
  /\ rn[r].pc = "read"
  /\ IF BatchEnd(r) <= cursor[s]
     THEN rn' = [rn EXCEPT ![r] = [Idle EXCEPT !.pc = "next", !.todo = rn[r].todo]]
     ELSE \E pc \in {"call", "commit"} :
            rn' = [rn EXCEPT ![r] = [@ EXCEPT !.pc = pc, !.from = cursor[s],
                                              !.to = BatchEnd(r), !.malformed = malformed[s]]]
  /\ UNCHANGED <<chat, turn, activated, marks, lease, recorded, hist, faults, crashes>>

\* One attempt is answered: extraction leads to the decision call or, without
\* similar memories, to the commit.
CallAnswered(r) ==
  /\ rn[r].pc = "call" /\ ~Capped(r)
  /\ Takes(r, CallTime)
  /\ billed' = billed + 1
  /\ \E pc \in (IF rn[r].call = 1 THEN {"call", "commit"} ELSE {"commit"}) :
       rn' = [rn EXCEPT ![r].pc = pc, ![r].call = 2, ![r].attempt = 0, ![r].spent = @ + 1]
  /\ UNCHANGED <<chat, turn, activated, marks, recorded, start, covered, tried, hasty,
                 faults, crashes>>

\* A failure that proved nothing was generated is tried again after a wait.
CallRetried(r) ==
  /\ rn[r].pc = "call" /\ ~Capped(r) /\ rn[r].attempt < Retries
  /\ faults < MaxFaults /\ faults' = faults + 1
  /\ Takes(r, CallTime + RetryDelay)
  /\ rn' = [rn EXCEPT ![r].attempt = @ + 1]
  /\ UNCHANGED <<chat, turn, activated, marks, recorded, hist, crashes>>

\* The provider failed; the call may have been billed, and is then charged.
CallFailed(r) ==
  /\ rn[r].pc = "call" /\ ~Capped(r)
  /\ faults < MaxFaults /\ faults' = faults + 1
  /\ Takes(r, CallTime)
  /\ \E b \in {0, 1} :
       /\ billed' = billed + b
       /\ rn' = [rn EXCEPT ![r].pc = "failed", ![r].spent = @ + b]
  /\ UNCHANGED <<chat, turn, activated, marks, recorded, start, covered, tried, hasty, crashes>>

\* The answer does not validate: billed, and it will fail the same way again.
CallMalformed(r) ==
  /\ rn[r].pc = "call" /\ ~Capped(r)
  /\ faults < MaxFaults /\ faults' = faults + 1
  /\ Takes(r, CallTime)
  /\ billed' = billed + 1
  /\ tried' = [tried EXCEPT ![rn[r].session] = [k \in Messages |->
                 IF rn[r].from < k /\ k <= rn[r].to THEN @[k] + 1 ELSE @[k]]]
  /\ rn' = [rn EXCEPT ![r].pc = "malformed", ![r].spent = @ + 1]
  /\ UNCHANGED <<chat, turn, activated, marks, recorded, start, covered, hasty, crashes>>

\* The daily cap falls before a call: without spend nothing is recorded, with it
\* the run is deferred; either way the tick is paused.
CallCapped(r) ==
  /\ rn[r].pc = "call" /\ Capped(r)
  /\ IF rn[r].spent = 0 THEN UNCHANGED <<marks, recorded, covered, hasty>>
     ELSE FailPass(r, "deferred", FALSE, rn[r].spent)
  /\ rn' = [rn EXCEPT ![r] = Idle]
  /\ UNCHANGED <<chat, turn, activated, lease, start, tried, billed, faults, crashes>>

RecordFailed(r) ==
  /\ rn[r].pc = "failed"
  /\ FailPass(r, "failed", FALSE, rn[r].spent)
  /\ After(r, FALSE)
  /\ UNCHANGED <<chat, turn, activated, lease, start, tried, billed, faults, crashes>>

\* Whether this attempt is the one that gives the batch up.
GivesUp(r) == rn[r].malformed + 1 >= MalformedSkip

RecordMalformed(r) ==
  /\ rn[r].pc = "malformed"
  /\ tried' = tried
  /\ IF GivesUp(r) THEN SkipPass(r) ELSE FailPass(r, "failed", TRUE, rn[r].spent)
  /\ After(r, FALSE)
  /\ UNCHANGED <<chat, turn, activated, lease, start, billed, faults, crashes>>

\* The commit waits for the turn lease, and defers when the turn outlasts it.
AcquireTurnLease(r) ==
  LET s == rn[r].session IN
  /\ rn[r].pc = "commit"
  /\ \/ /\ turn[s] = "none"
        /\ turn' = [turn EXCEPT ![s] = r]
        /\ rn' = [rn EXCEPT ![r].pc = "committing"]
        /\ UNCHANGED <<marks, recorded, covered, hasty>>
     \/ /\ turn[s] # "none"
        /\ FailPass(r, "deferred", FALSE, rn[r].spent)
        /\ After(r, FALSE)
        /\ UNCHANGED turn
  /\ Takes(r, CommitTime)
  /\ UNCHANGED <<chat, activated, start, tried, billed, faults, crashes>>

\* CommitMemoryBackgroundPass: proposals, run and cursor in one transaction
\* fenced by the turn lease.
CommitPass(r) ==
  LET s == rn[r].session IN
  /\ rn[r].pc = "committing"
  /\ IF turn[s] = r
     THEN /\ insertRun(r, rn[r].spent)
          /\ turn' = [turn EXCEPT ![s] = "none"]
          /\ IF CursorHeld(r)
             THEN /\ cursor' = [cursor EXCEPT ![s] = rn[r].to]
                  /\ malformed' = [malformed EXCEPT ![s] = 0]
                  /\ backoff' = [backoff EXCEPT ![s] = FALSE]
                  /\ Cover(r)
                  /\ After(r, TRUE)
             ELSE After(r, FALSE) /\ UNCHANGED <<marks, covered>>
          /\ UNCHANGED hasty
     ELSE FailPass(r, "failed", FALSE, rn[r].spent) /\ After(r, FALSE) /\ UNCHANGED turn
  /\ UNCHANGED <<chat, activated, lease, start, tried, billed, faults, crashes>>

\* Shutdown: a call in flight is cancelled and may have been billed, nothing is
\* committed, spend is recorded, and the leases are released.
Shutdown(r) ==
  /\ faults < MaxFaults /\ faults' = faults + 1
  /\ \E b \in (IF rn[r].pc = "call" /\ ~Capped(r) THEN {0, 1} ELSE {0}) :
       /\ billed' = billed + b
       /\ IF rn[r].spent + b = 0 THEN UNCHANGED <<marks, recorded, covered, hasty>>
          ELSE FailPass(r, "deferred", FALSE, rn[r].spent + b)
  /\ lease' = IF lease.holder = r THEN [holder |-> Nobody, age |-> 0] ELSE lease
  /\ turn' = [s \in Sessions |-> IF turn[s] = r THEN "none" ELSE turn[s]]
  /\ rn' = [rn EXCEPT ![r] = Idle]
  /\ UNCHANGED <<chat, activated, start, tried, crashes>>

\* The process dies and starts again under a new name.  A turn lease it held runs
\* out within seconds.
Crash(r) ==
  /\ rn[r].pc # "idle"
  /\ crashes < MaxCrashes /\ crashes' = crashes + 1
  /\ rn' = [rn EXCEPT ![r] = Idle]
  /\ lease' = IF lease.holder = r THEN [lease EXCEPT !.holder = Dead] ELSE lease
  /\ turn' = [s \in Sessions |-> IF turn[s] = r THEN "none" ELSE turn[s]]
  /\ UNCHANGED <<chat, activated, marks, recorded, hist, faults>>

\* A commit slower than its ten-second turn lease loses the conversation.
TurnLeaseLapses(s) ==
  /\ turn[s] \in Runners
  /\ faults < MaxFaults /\ faults' = faults + 1
  /\ turn' = [turn EXCEPT ![s] = "none"]
  /\ UNCHANGED <<chat, activated, marks, lease, recorded, rn, hist, crashes>>

BackoffOver(s) ==
  /\ backoff[s]
  /\ backoff' = [backoff EXCEPT ![s] = FALSE]
  /\ UNCHANGED <<chat, turn, activated, cursor, malformed, lease, recorded, rn, hist,
                 faults, crashes>>

\* The lease of a dead process, or of one between two ticks, runs out.
LeaseLapses ==
  /\ lease.holder # Nobody /\ lease.age < runnerLeaseTTL
  /\ lease.holder \in Runners => rn[lease.holder].pc = "idle"
  /\ lease' = [lease EXCEPT !.age = runnerLeaseTTL]
  /\ UNCHANGED <<chat, turn, activated, marks, recorded, rn, hist, faults, crashes>>

-----------------------------------------------------------------------------
PassStep(r) ==
  \/ Tick(r) \/ NextSession(r) \/ EndTick(r) \/ Renew(r) \/ ReadBatch(r)
  \/ CallAnswered(r) \/ CallCapped(r) \/ RecordFailed(r) \/ RecordMalformed(r)
  \/ AcquireTurnLease(r) \/ CommitPass(r)

Trouble(r) ==
  CallRetried(r) \/ CallFailed(r) \/ CallMalformed(r) \/ Shutdown(r) \/ Crash(r)

Act ==
  \/ \E s \in Sessions : \/ OwnerMessage(s) \/ Compact(s) \/ EndTurn(s)
                         \/ BackoffOver(s) \/ TurnLeaseLapses(s)
  \/ \E r \in Runners : PassStep(r) \/ Trouble(r)
  \/ LeaseLapses

Next == Act /\ UNCHANGED setting

Spec == Init /\ [][Next]_vars

(***************************************************************************)
(* Fairness: a runner ticks for ever and its calls end (CallTimeout), turns *)
(* end, backoffs pass, leases run out.  Nothing is assumed of messages or  *)
(* compactions.                                                            *)
(***************************************************************************)
FairSpec ==
  /\ Spec
  /\ \A r \in Runners : WF_vars(PassStep(r) /\ UNCHANGED setting)
  /\ \A s \in Sessions :
       /\ WF_vars(EndTurn(s) /\ UNCHANGED setting)
       /\ WF_vars(BackoffOver(s) /\ UNCHANGED setting)
  /\ WF_vars(LeaseLapses /\ UNCHANGED setting)

-----------------------------------------------------------------------------
(* Properties.                                                             *)

\* The marks, leases and runners hold values of their kinds; no cursor passes the
\* end of its conversation.
TypeOK ==
  /\ last \in [Sessions -> 0..MaxMessages] /\ compacted \in [Sessions -> 0..MaxMessages]
  /\ turn \in [Sessions -> {"none", "chat"} \cup Runners]
  /\ activated \in BOOLEAN
  /\ cursor \in [Sessions -> Nat] /\ \A s \in Sessions : cursor[s] <= last[s]
  /\ malformed \in [Sessions -> Nat] /\ backoff \in [Sessions -> BOOLEAN]
  /\ lease \in [holder : Runners \cup {Nobody, Dead}, age : 0..runnerLeaseTTL]
  /\ recorded \in Nat /\ billed \in Nat

\* Every owner message sent after activation is covered exactly once, in order,
\* whatever crashes, overlapping passes and repeated batches happen; none sent
\* before it is ever read.
CoveredOnce ==
  \A s \in Sessions, k \in Messages :
    covered[s][k] = IF start[s] < k /\ k <= cursor[s] THEN 1 ELSE 0

\* A batch is given up only after its first message was part of MalformedSkip
\* malformed attempts: interleaved failures and other runners do not hurry it.
SkippedWasTried == hasty = {}

\* The runner lease covers a whole pass: two processes never run paid passes at
\* once, if waits between attempts cost nothing.
OnePass ==
  RetryDelay = 0 =>
    Cardinality({r \in Runners : rn[r].pc \in {"call", "commit", "committing"}}) <= 1

\* Today's calls then stay within the daily cap, counting passes that failed, were
\* deferred or were superseded; only a process that dies takes its spend with it.
SpendWithinCap == RetryDelay = 0 /\ crashes = 0 => billed <= DailyCap

\* Passes cover each message once, give up none too soon, and pay within limits.
PassesAreSound ==
  TypeOK /\ CoveredOnce /\ SkippedWasTried /\ OnePass /\ SpendWithinCap

\* What a compaction summarized is covered some day, also when the request to
\* flush was lost with its process, unless the day's cap is spent.
FlushHappens ==
  []<>(activated => capExceeded(1) \/ \A s \in Sessions : cursor[s] >= compacted[s])
=============================================================================
