------------------------------ MODULE TurnHistory ------------------------------
(***************************************************************************)
(* A conversation's durable events and the lease that admits them          *)
(* (internal/eviedb: turn_leases.go, events.go, turn_compaction.go) with   *)
(* the turns and compactions that append them (internal/agent: Send,       *)
(* Compact, compaction.go, turn_compaction.go, context.go).                *)
(*                                                                         *)
(* The store admits an event under a lease and only where it fits what is  *)
(* already there; the agent reads the whole history back before every      *)
(* request and refuses one that it cannot make sense of.  An event's       *)
(* identity is its sequence number.  Intents and approvals, which no check *)
(* looks at, and all content are left out; how long a request is, is an    *)
(* open choice.                                                            *)
(***************************************************************************)
EXTENDS Naturals, Sequences, FiniteSets, FiniteSetsExt

CONSTANTS
  Processes,       \* processes that hold the conversation
  None,
  RetainedGroups,  \* turnCompactionRetainedGroups
  MaxTurns,        \* bound: turns of the conversation
  MaxGroups,       \* bound: tool responses of one turn
  MaxCalls,        \* bound: tool calls of one response
  MaxManual,       \* bound: manual compactions asked for up to this lease
  MaxFaults        \* bound: crashes, expiries, failures and requests too long

ASSUME HistoryAssumption ==
  /\ None \notin Processes /\ RetainedGroups \in Nat \ {0}
  /\ {MaxTurns, MaxGroups, MaxCalls, MaxManual, MaxFaults} \subseteq Nat

VARIABLES
  log,      \* events of the session
  lease,    \* session_turn_leases: holder, fencing_token, and whether expires_at is ahead
  p,        \* what each process is doing
  refused,  \* an event of the lease's holder that the store's checks turned down
  faults

vars == <<log, lease, p, refused, faults>>

\* What an event records; a reference is a sequence number or 0.
Event == [type |-> "user", by |-> 0, parent |-> 0, calls |-> 0, call |-> 0, turn |-> 0,
          first |-> 0, last |-> 0, retained |-> 0, gen |-> 0, prior |-> 0, auto |-> FALSE,
          active |-> 0, activeTurn |-> 0]

Idle == [pc |-> "idle", token |-> 0, root |-> 0, trigger |-> 0, plan |-> Event, left |-> 0,
         retry |-> "unused", compacted |-> FALSE, failed |-> FALSE]

Init ==
  /\ log = <<>>
  /\ lease = [holder |-> None, token |-> 0, live |-> FALSE]
  /\ p = [q \in Processes |-> Idle]
  /\ refused = FALSE /\ faults = 0

-----------------------------------------------------------------------------
(* Reading a history.                                                      *)

Of(h, types) == {i \in DOMAIN h : h[i].type \in types}
Roots(h) == Of(h, {"user"})
Greatest(S) == IF S = {} THEN 0 ELSE Max(S)
Before(S, i) == Greatest({j \in S : j < i})
After(S, i) == IF \E j \in S : j > i THEN Min({j \in S : j > i}) ELSE 0
NewestRoot(h) == Greatest(Roots(h))

\* The end of the turn of root r, compactions of the conversation not counted.
TurnEnd(h, r) ==
  LET next == After(Roots(h), r)
  IN Max({i \in DOMAIN h : i >= r /\ (next # 0 => i < next) /\ h[i].type # "compacted"})

\* A tool group: an assistant event with calls, up to the next answer or turn.
GroupEnd(h, a) == LET next == After(Of(h, {"user", "assistant"}), a)
                  IN IF next = 0 THEN Len(h) ELSE next - 1
Results(h, a) == {i \in a + 1 .. GroupEnd(h, a) : h[i].type = "outcome"}
GroupComplete(h, a) == {h[i].call : i \in Results(h, a)} = 1 .. h[a].calls
Groups(h, r) ==
  {a \in Of(h, {"assistant"}) : a > r /\ h[a].calls > 0
                                 /\ (After(Roots(h), r) # 0 => a < After(Roots(h), r))}

\* incompleteToolGroupEvents: every result belongs to its group, once.
ResultsMatch(h) ==
  \A i \in Of(h, {"outcome"}) :
    LET a == Before(Of(h, {"assistant", "user"}), i)
    IN /\ a # 0 /\ h[a].type = "assistant" /\ h[i].call \in 1 .. h[a].calls
       /\ \A j \in Results(h, a) : h[j].call = h[i].call => j = i

\* compactionTurnComplete: a terminal event, or a last answer without calls; any
\* turn is closed by the next.
TurnComplete(h, r) ==
  \/ After(Roots(h), r) # 0
  \/ \E i \in Of(h, {"terminal"}) : i > r
  \/ LET whole == {a \in Of(h, {"assistant"}) : a > r /\ (h[a].calls = 0 \/ GroupComplete(h, a))}
     IN whole # {} /\ h[Max(whole)].calls = 0

LatestTurnCompaction(h, r, before) ==
  Greatest({c \in Of(h, {"turn_compacted"}) : c > r /\ c < before})

\* latestTurnCompaction, of every one.
TurnCompactionsMatch(h) ==
  \A c \in Of(h, {"turn_compacted"}) :
    LET r == Before(Roots(h), c)
        e == h[c]
        groups == Groups(h, r)
        trigger == Before(groups, e.parent)
        prior == LatestTurnCompaction(h, r, c)
    IN /\ r # 0 /\ e.turn = r
       /\ \/ e.parent = c - 1
          \/ e.parent = c - 2 /\ h[c - 1].type = "snapshot" /\ h[c - 1].parent = e.parent
       /\ h[e.parent].type = "outcome"
       /\ {e.first, e.retained} \subseteq groups /\ e.first < e.retained
       /\ e.last = Greatest(Results(h, Before(groups, e.retained)))
       /\ IF prior = 0 THEN e.gen = 1 /\ e.first = Min(groups)
          ELSE e.gen = h[prior].gen + 1 /\ e.prior = prior /\ e.first = h[prior].retained
       /\ e.parent = Greatest(Results(h, trigger)) /\ trigger >= e.retained
       /\ \A a \in groups : a >= e.first /\ a <= trigger => GroupComplete(h, a)

\* decodedTurnCompactions: every snapshot follows its trigger, the trigger's
\* compaction, or the one retry of a rejected request.
SnapshotsMatch(h) ==
  \A s \in Of(h, {"snapshot"}) :
    LET e == h[s]
        r == Before(Roots(h), s)
    IN /\ \/ e.parent = s - 1
          \/ /\ \/ e.parent = s - 2
                \/ e.parent = s - 3 /\ h[s - 2].type = "snapshot" /\ h[s - 2].parent = e.parent
             /\ \/ /\ h[s - 1].type = "compacted" /\ h[s - 1].auto
                   /\ e.active = s - 1 /\ e.retained = h[s - 1].retained
                \/ h[s - 1].type = "turn_compacted" /\ h[s - 1].parent = e.parent
       /\ e.activeTurn = LatestTurnCompaction(h, r, s)
       /\ h[e.parent].type \in {"user", "outcome"}
       /\ e.retained \in Roots(h) /\ e.retained <= e.parent

\* validatedCompactionChain.
ChainMatches(h) ==
  \A c \in Of(h, {"compacted"}) :
    LET e == h[c]
        prior == Before(Of(h, {"compacted"}), c)
    IN /\ {e.first, e.retained} \subseteq Roots(h) /\ e.first < e.retained /\ e.retained < c
       /\ e.last = TurnEnd(h, Before(Roots(h), e.retained))
       /\ \A r \in Roots(h) : r >= e.first /\ r < e.retained => TurnComplete(h, r)
       /\ IF prior = 0 THEN e.gen = 1 /\ e.first = Min(Roots(h))
          ELSE e.gen = h[prior].gen + 1 /\ e.prior = prior /\ e.first = h[prior].retained

Readable(h) == ResultsMatch(h) /\ TurnCompactionsMatch(h) /\ SnapshotsMatch(h) /\ ChainMatches(h)

-----------------------------------------------------------------------------
(* What the store admits.                                                  *)

\* An event's ancestors.
Lineage(h) ==
  LET f[i \in 0 .. Len(h)] == IF i = 0 THEN {} ELSE {i} \cup f[h[i].parent] IN f

AdmitTerminal(h, e) ==
  /\ e.turn = NewestRoot(h)
  /\ e.parent = e.turn \/ h[e.parent].type = "outcome"
  /\ e.turn \in Lineage(h)[e.parent]

\* Mutant: the retry after a rejected request is not foreseen.
AdmitNoRetry(h, e) ==
  LET s == Len(h)
  IN /\ h[e.parent].type \in {"user", "outcome"}
     /\ \/ e.parent = s
        \/ /\ e.parent = s - 1
           /\ \/ h[s].type = "compacted" /\ e.active = s /\ h[s].auto
                 /\ e.retained = h[s].retained
              \/ h[s].type = "turn_compacted" /\ e.activeTurn = s /\ h[s].parent = e.parent
     /\ e.activeTurn = LatestTurnCompaction(h, NewestRoot(h), s + 1)
     /\ e.retained \in Roots(h) /\ e.retained <= e.parent

AdmitSnapshot(h, e) ==
  LET s == Len(h)
      retry == e.parent = s - 2 /\ h[s - 1].type = "snapshot" /\ h[s - 1].parent = e.parent
  IN /\ h[e.parent].type \in {"user", "outcome"}
     /\ \/ e.parent = s
        \/ /\ e.parent = s - 1 \/ retry
           /\ \/ h[s].type = "compacted" /\ e.active = s /\ h[s].auto
                 /\ e.retained = h[s].retained
              \/ h[s].type = "turn_compacted" /\ e.activeTurn = s /\ h[s].parent = e.parent
     /\ e.activeTurn = LatestTurnCompaction(h, NewestRoot(h), s + 1)
     /\ e.retained \in Roots(h) /\ e.retained <= e.parent

AdmitCompaction(h, e) ==
  LET prior == Greatest(Of(h, {"compacted"}))
  IN /\ IF prior = 0 THEN e.gen = 1 /\ e.prior = 0 /\ e.first = 1
        ELSE e.gen = h[prior].gen + 1 /\ e.prior = prior /\ e.first = h[prior].retained
     /\ {e.first, e.retained} \subseteq Roots(h) /\ e.last < e.retained
     /\ After(Roots(h), e.last) = e.retained
     /\ h[e.last].type # "compacted"
     /\ \A i \in e.last + 1 .. e.retained - 1 : h[i].type = "compacted"

AdmitTurnCompaction(h, e) ==
  LET s == Len(h)
      r == NewestRoot(h)
      prior == LatestTurnCompaction(h, r, s + 1)
      answers == Of(h, {"assistant"})
      covered == {a \in answers : a \in e.first .. e.last}
      outcomes == {i \in Of(h, {"outcome"}) : i \in e.first .. e.last}
  IN /\ e.turn = r /\ h[e.parent].type = "outcome" /\ e.parent > r
     /\ \/ e.parent = s
        \/ e.parent = s - 1 /\ h[s].type = "snapshot" /\ h[s].parent = e.parent
     /\ IF prior = 0 THEN e.gen = 1 /\ e.prior = 0 /\ e.first = After(answers, r)
        ELSE e.gen = h[prior].gen + 1 /\ e.prior = prior /\ e.first = h[prior].retained
     /\ h[e.first].type = "assistant" /\ e.first > r /\ h[e.last].type = "outcome"
     /\ h[e.retained].type = "assistant" /\ e.retained < e.parent
     /\ After(answers, e.last) = e.retained
     /\ \A i \in e.last + 1 .. e.retained - 1 : h[i].type # "outcome"
     /\ covered # {} /\ \A a \in covered : h[a].calls > 0
     /\ Cardinality(UNION {{a} \X (1 .. h[a].calls) : a \in covered}) = Cardinality(outcomes)

Admitted(h, e) ==
  CASE e.type = "terminal" -> AdmitTerminal(h, e)
    [] e.type = "snapshot" -> AdmitSnapshot(h, e)
    [] e.type = "compacted" -> AdmitCompaction(h, e)
    [] e.type = "turn_compacted" -> AdmitTurnCompaction(h, e)
    [] OTHER -> TRUE

-----------------------------------------------------------------------------
(* Leases.                                                                 *)

\* fenceTurnLeaseWrite.
Fenced(q) == lease.holder = q /\ lease.token = p[q].token /\ lease.live

Fault == faults < MaxFaults /\ faults' = faults + 1
Goto(q, pc) == p' = [p EXCEPT ![q].pc = pc]

\* AppendEventWithLease: fenced, checked and appended in one transaction.  A lost
\* lease ends the turn without a terminal event.
AppendEvent(q, e, next) ==
  IF ~Fenced(q) THEN Goto(q, "release") /\ UNCHANGED <<log, refused>>
  ELSE IF Admitted(log, e)
  THEN /\ log' = Append(log, [e EXCEPT !.by = p[q].token])
       /\ p' = [p EXCEPT ![q] = next]
       /\ UNCHANGED refused
  ELSE refused' = TRUE /\ Goto(q, "release") /\ UNCHANGED log

Id == Len(log) + 1

AcquireTurnLease(q, work) ==
  /\ p[q].pc = "idle" /\ (lease.holder = None \/ ~lease.live)
  /\ work = "user" => Cardinality(Roots(log)) < MaxTurns
  /\ work = "manual" => log # <<>> /\ lease.token < MaxManual
  /\ lease' = [holder |-> q, token |-> lease.token + 1, live |-> TRUE]
  /\ p' = [p EXCEPT ![q] = [Idle EXCEPT !.pc = work, !.token = lease.token + 1]]
  /\ UNCHANGED <<log, refused, faults>>

ReleaseTurnLease(q) ==
  /\ p[q].pc = "release"
  /\ lease' = IF Fenced(q) THEN [lease EXCEPT !.holder = None, !.live = FALSE] ELSE lease
  /\ p' = [p EXCEPT ![q] = Idle]
  /\ UNCHANGED <<log, refused, faults>>

\* No heartbeat came through, or there is nobody left to send one.
LeaseExpires ==
  /\ lease.live
  /\ IF p[lease.holder].token = lease.token THEN Fault ELSE UNCHANGED faults
  /\ lease' = [lease EXCEPT !.live = FALSE]
  /\ UNCHANGED <<log, p, refused>>

Crash(q) ==
  /\ p[q].pc # "idle" /\ Fault
  /\ p' = [p EXCEPT ![q] = Idle]
  /\ UNCHANGED <<log, lease, refused>>

\* A local failure ends a turn without terminal evidence.
FailLocally(q) ==
  /\ p[q].pc \notin {"idle", "release"} /\ Fault
  /\ Goto(q, "release")
  /\ UNCHANGED <<log, lease, refused>>

-----------------------------------------------------------------------------
(* Planning a compaction.                                                  *)

\* The first root turn that the summary does not cover.
Start(h) == LET c == Greatest(Of(h, {"compacted"}))
            IN IF c = 0 THEN Min(Roots(h)) ELSE h[c].retained

Compaction(h, retained, auto) ==
  LET prior == Greatest(Of(h, {"compacted"}))
  IN [Event EXCEPT !.type = "compacted", !.first = Start(h), !.retained = retained,
                   !.last = TurnEnd(h, Before(Roots(h), retained)), !.auto = auto,
                   !.prior = prior, !.gen = IF prior = 0 THEN 1 ELSE h[prior].gen + 1]

\* selectAutomaticCompactionFrom: any prefix of closed turns.
WholePlans(h, root) ==
  {Compaction(h, r, TRUE) : r \in {x \in Roots(h) : x > Start(h) /\ x <= root}}

\* selectManualCompaction keeps the last two complete turns.
ManualPlans(h) ==
  LET open == {r \in Roots(h) : r >= Start(h)}
      done == {r \in open : TurnComplete(h, r)}
      keep == Max(done \ {Max(done)})
      covered == {r \in open : r < keep /\ \A x \in open : x <= r => x \in done}
  IN IF Cardinality(done) < 3 THEN {}
     ELSE {Compaction(h, After(Roots(h), r), FALSE) : r \in covered}

\* planTurnCompaction: whole groups of the active turn, never the newest ones.
TurnPlans(h, root, trigger) ==
  LET groups == Groups(h, root)
      prior == LatestTurnCompaction(h, root, Len(h) + 1)
      first == IF prior = 0 THEN Min(groups) ELSE h[prior].retained
  IN IF \/ groups = {} \/ Greatest(Results(h, Max(groups))) # trigger
        \/ \E a \in groups : ~GroupComplete(h, a)
     THEN {}
     ELSE {[Event EXCEPT !.type = "turn_compacted", !.parent = trigger, !.turn = root, !.first = first,
                         !.last = Greatest(Results(h, a)), !.retained = After(groups, a),
                         !.prior = prior, !.gen = IF prior = 0 THEN 1 ELSE h[prior].gen + 1] :
             a \in {g \in groups : g >= first
                                  /\ Cardinality({x \in groups : x > g}) >= RetainedGroups}}

-----------------------------------------------------------------------------
(* A turn.                                                                 *)

AppendUser(q) ==
  /\ p[q].pc = "user"
  /\ AppendEvent(q, Event, [p[q] EXCEPT !.pc = "compose", !.root = Id, !.trigger = Id])
  /\ UNCHANGED <<lease, faults>>

\* The history is read back; the request goes out as it is, is compacted first,
\* or cannot be made to fit.  A retry is always compacted, a failed compaction
\* never tried again.
Compose(q) ==
  /\ p[q].pc = "compose"
  /\ IF ~Readable(log) THEN Goto(q, "release") /\ UNCHANGED faults
     ELSE \/ p[q].retry # "now" /\ Goto(q, "snapshot") /\ UNCHANGED faults
          \/ /\ ~p[q].failed
             /\ \E plan \in WholePlans(log, p[q].root) \cup TurnPlans(log, p[q].root, p[q].trigger) :
                  p' = [p EXCEPT ![q].pc = "compactor", ![q].plan = plan]
             /\ UNCHANGED faults
          \/ Goto(q, "terminal") /\ IF p[q].retry = "now" THEN UNCHANGED faults ELSE Fault
  /\ UNCHANGED <<log, lease, refused>>

\* performAutomaticCompaction.
Compact(q) ==
  /\ p[q].pc = "compactor"
  /\ \/ /\ AppendEvent(q, p[q].plan, [p[q] EXCEPT !.pc = "snapshot", !.compacted = TRUE,
                                                 !.plan = Event])
        /\ UNCHANGED faults
     \/ /\ Fault
        /\ \E pc \in {"terminal"} \cup (IF p[q].retry = "now" THEN {} ELSE {"snapshot"}) :
             p' = [p EXCEPT ![q].pc = pc, ![q].failed = TRUE, ![q].plan = Event]
        /\ UNCHANGED <<log, refused>>
  /\ UNCHANGED lease

AppendSnapshot(q) ==
  /\ p[q].pc = "snapshot"
  /\ AppendEvent(q, [Event EXCEPT !.type = "snapshot", !.parent = p[q].trigger,
                                  !.retained = Start(log),
                                  !.active = Greatest(Of(log, {"compacted"})),
                                  !.activeTurn = LatestTurnCompaction(log, p[q].root, Id)],
                 [p[q] EXCEPT !.pc = "provider"])
  /\ UNCHANGED <<lease, faults>>

\* Mutant: an answered turn is closed by a terminal event as well.
AppendAnswerThenTerminal(q) ==
  /\ p[q].pc = "provider"
  /\ \E n \in 0 .. MaxCalls :
       /\ n > 0 => Cardinality(Groups(log, p[q].root)) < MaxGroups
       /\ AppendEvent(q, [Event EXCEPT !.type = "assistant", !.parent = p[q].trigger, !.calls = n],
                      [p[q] EXCEPT !.pc = IF n = 0 THEN "terminal" ELSE "tools", !.left = n])
  /\ UNCHANGED <<lease, faults>>

\* The answer, or a request for tools.
AppendAnswer(q) ==
  /\ p[q].pc = "provider"
  /\ \E n \in 0 .. MaxCalls :
       /\ n > 0 => Cardinality(Groups(log, p[q].root)) < MaxGroups
       /\ AppendEvent(q, [Event EXCEPT !.type = "assistant", !.parent = p[q].trigger, !.calls = n],
                      [p[q] EXCEPT !.pc = IF n = 0 THEN "release" ELSE "tools", !.left = n,
                                   !.compacted = FALSE,
                                   !.retry = IF @ = "now" THEN "used" ELSE @])
  /\ UNCHANGED <<lease, faults>>

\* The provider finds the request too long: compacted and retried once.
Rejected(q) ==
  /\ p[q].pc = "provider" /\ Fault
  /\ IF p[q].retry = "unused" /\ ~p[q].compacted
     THEN p' = [p EXCEPT ![q].pc = "compose", ![q].retry = "now"]
     ELSE Goto(q, "terminal")
  /\ UNCHANGED <<log, lease, refused>>

\* Mutant: a tool's result is written whoever holds the lease.
AppendOutcomeUnfenced(q) ==
  /\ p[q].pc = "tools"
  /\ LET a == Max(Of(log, {"assistant"}))
         e == [Event EXCEPT !.type = "outcome", !.parent = a, !.call = log[a].calls - p[q].left + 1]
     IN log' = Append(log, [e EXCEPT !.by = p[q].token])
  /\ p' = [p EXCEPT ![q].left = @ - 1, ![q].pc = IF p[q].left = 1 THEN "release" ELSE "tools"]
  /\ UNCHANGED <<lease, faults, refused>>

AppendOutcome(q) ==
  /\ p[q].pc = "tools"
  /\ LET a == Max(Of(log, {"assistant"}))
         e == [Event EXCEPT !.type = "outcome", !.parent = a, !.call = log[a].calls - p[q].left + 1]
         last == p[q].left = 1
     IN AppendEvent(q, e, [p[q] EXCEPT !.left = @ - 1, !.pc = IF last THEN "compose" ELSE "tools",
                                       !.trigger = IF last THEN Id ELSE @])
  /\ UNCHANGED <<lease, faults>>

\* The provider fails or the caller gives up.
Interrupted(q) ==
  /\ p[q].pc \in {"compose", "compactor", "snapshot", "provider", "tools"} /\ Fault
  /\ Goto(q, "terminal")
  /\ UNCHANGED <<log, lease, refused>>

AppendTerminal(q) ==
  /\ p[q].pc = "terminal"
  /\ AppendEvent(q, [Event EXCEPT !.type = "terminal", !.parent = p[q].trigger, !.turn = p[q].root],
                 [p[q] EXCEPT !.pc = "release"])
  /\ UNCHANGED <<lease, faults>>

\* Session.Compact.
PlanManual(q) ==
  /\ p[q].pc = "manual"
  /\ IF ~Readable(log) \/ ManualPlans(log) = {} THEN Goto(q, "release")
     ELSE \E plan \in ManualPlans(log) :
            p' = [p EXCEPT ![q].pc = "summarized", ![q].plan = plan]
  /\ UNCHANGED <<log, lease, refused, faults>>

AppendManual(q) ==
  /\ p[q].pc = "summarized"
  /\ AppendEvent(q, p[q].plan, [p[q] EXCEPT !.pc = "release", !.plan = Event])
  /\ UNCHANGED <<lease, faults>>

Next ==
  \/ LeaseExpires
  \/ \E q \in Processes :
       \/ \E work \in {"user", "manual"} : AcquireTurnLease(q, work)
       \/ ReleaseTurnLease(q) \/ Crash(q) \/ FailLocally(q)
       \/ AppendUser(q) \/ Compose(q) \/ Compact(q) \/ AppendSnapshot(q) \/ AppendAnswer(q)
       \/ Rejected(q) \/ AppendOutcome(q) \/ Interrupted(q) \/ AppendTerminal(q)
       \/ PlanManual(q) \/ AppendManual(q)

Spec == Init /\ [][Next]_vars

-----------------------------------------------------------------------------
(* Properties.                                                             *)

Types == {"user", "assistant", "outcome", "snapshot", "compacted", "turn_compacted", "terminal"}

\* References point back, and only a current lease has a holder at work.
TypeOK ==
  /\ \A i \in DOMAIN log : /\ log[i].type \in Types
                           /\ {log[i].parent, log[i].last, log[i].retained, log[i].prior}
                                \subseteq 0 .. i - 1
  /\ \A q \in Processes : p[q].token <= lease.token
  /\ lease.live => lease.holder # None

\* The store never turns down an event of the turn that holds the lease: whatever
\* a crash left behind, the agent plans only what the store's checks admit.
NeverRefused == ~refused

\* Whatever the store admitted the agent can read back: no turn leaves a history
\* that ends the conversation.
HistoryReadable == Readable(log)

\* A stale turn writes nothing: every event of a turn was written under the lease
\* of its first, and none under a lease older than an event before it.
StaleWritesNothing ==
  \A i \in DOMAIN log :
    /\ \A j \in 1 .. i : log[j].by <= log[i].by
    /\ log[i].type \notin {"user", "compacted"} => log[i].by = log[Before(Roots(log), i)].by

\* A turn ends once: nothing of it follows its answer or its terminal event.
TurnEndsOnce ==
  \A i \in DOMAIN log :
    log[i].type = "terminal" \/ (log[i].type = "assistant" /\ log[i].calls = 0) =>
      \A j \in i + 1 .. Len(log) : log[j].type \notin {"user", "compacted"} =>
        Before(Roots(log), j) > i

\* Turns and compactions fit each other: what the agent plans the store admits,
\* and what the store admitted the agent can read back, whatever a crash, a lost
\* lease or a failed compaction left behind.
StoreAndAgentAgree == TypeOK /\ NeverRefused /\ HistoryReadable

\* Each turn writes under one lease, in the leases' order, and ends once.
TurnsAreWhole == StaleWritesNothing /\ TurnEndsOnce

-----------------------------------------------------------------------------
(* The abstract conversation (SessionTurns) that this one implements.      *)

Status(h, r) ==
  IF \E i \in Of(h, {"terminal"}) : Before(Roots(h), i) = r THEN "failed"
  ELSE IF \E a \in Of(h, {"assistant"}) : h[a].calls = 0 /\ Before(Roots(h), a) = r
  THEN "answered"
  ELSE IF \E x \in Roots(h) : x > r THEN "abandoned" ELSE "open"

turnsBar == [r \in Roots(log) |-> Status(log, r)]
coveredBar == IF log = <<>> THEN {} ELSE {r \in Roots(log) : r < Start(log)}

Turns == INSTANCE SessionTurns WITH turns <- turnsBar, covered <- coveredBar

\* The conversation implements the abstract one: turns open one at a time, a
\* closed turn stays as it ended, and the summary grows over closed turns only.
ImplementsSessionTurns == Turns!Spec
=============================================================================
