----------------------- MODULE TurnCoordinatorProofs -----------------------
(***************************************************************************)
(* The proofs about TurnCoordinator: that nothing is shown or committed    *)
(* after the turn's cause is final, and that what the turn tells its       *)
(* caller and leaves behind is true, for any number of provider callbacks, *)
(* responses, tool calls, fragments and faults.                            *)
(***************************************************************************)
EXTENDS TurnCoordinator, TLAPS

Held == {"append", "finish", "showing", "asking", "shown"}
Boundary == {"begin", "append", "finish"}
Calling == {"streaming", "joining"}
Over == {"classify", "selecting", "ending", "stopping", "terminal", "done"}
Commits == {"snapshot", "compaction", "final", "tools", "approval"}

(* The tool phase is open.                                                 *)
InToolPhase ==
  \/ t.pc \in {"authprep", "preparing", "approval", "ask", "asking", "decided", "authexec",
               "execute", "handoff", "abort"}
  \/ t.pc \in Boundary /\ t.commit = "approval"

TurnFields == {"pc", "commit", "err", "calls", "responses", "approved", "seen", "compacted",
               "failure", "retry"}
Shaped(r) == r = [f \in TurnFields |-> r[f]]
Events == [type : {"user", "intent", "outcome"} \cup Commits]
          \cup [type : {"terminal"}, stage : Stages \cup {"none"}]

(* The variables have their shapes.                                        *)
ShapeOK ==
  /\ Shaped(t)
  /\ t.err \in {"none", "provider_error", "lease_lost", "assistant_persistence", "storage"}
  /\ t.failure \in {"none", "provider_error", "provider_invalid", "storage"}
  /\ sel \in [{T, H} -> [pc : {"off", "cancel", "tool", "lock", "locking"}, kind : Kinds]]
  /\ heart \in [pc : {"run", "failed", "selecting", "done"},
                err : {"none", "ctx", "lease_lost", "heartbeat_failed"}]
  /\ cb \in [Callbacks -> {"out", "serial", "admit", "emit"}]
  /\ life \in [mu : {None} \cup Callbacks, serial : {None} \cup Callbacks,
               closed : BOOLEAN, fired : BOOLEAN]
  /\ log \in Seq(Events)

(* Who holds the lock: the turn in its boundaries and the callbacks that   *)
(* emit, which exist only during the provider call; and nobody once the    *)
(* cause is final.                                                         *)
LocksOK ==
  /\ \A c \in Callbacks : c \in readers <=> cb[c] = "emit"
  /\ \A c \in Callbacks : cb[c] # "out" => t.pc \in Calling
  /\ \A c \in Callbacks : cb[c] \in {"admit", "emit"} => life.fired
  /\ cause.kind # "none" => readers = {}

HeartKinds == {"caller_cancelled", "lease_lost", "heartbeat_failed"}

(* Pending and final causes, who selects them, and what they wait for.     *)
PendingOK ==
  /\ pending.by = None => pending = NoPending
  /\ pending # NoPending => pending.kind # "none"
  /\ pending.by = H => pending.kind \in HeartKinds
  /\ pending.by = T => t.pc = "selecting"
  /\ \A g \in {T, H} : pending.by = g => sel[g].pc # "off"
  /\ \A g \in {T, H} : sel[g].pc # "off" => pending # NoPending \/ cause.kind # "none"
  /\ \A g \in {T, H} : sel[g].pc \in {"lock", "locking"} => ~toolDone

CauseOK ==
  /\ cause.kind # "none" => pending = NoPending /\ cause.stage = stage
  /\ toolDone => cause.kind = "none"
  /\ toolDone <=> InToolPhase
  /\ t.pc \in {"selecting", "ending"} => cause.kind # "none" \/ pending # NoPending
  /\ t.pc \in {"classify", "abort"} => t.err # "none" \/ ~Active
  /\ t.pc = "uncompacted" => t.failure # "none"
  /\ heart.pc = "failed" => heart.err # "none" /\ (heart.err = "ctx" => CtxDone)

(* Streamed text that is not saved: where the turn is with it, and that    *)
(* every cause then selected reports it.                                   *)
ShownOK ==
  /\ t.err \in {"none", "provider_error"} \/ t.pc \in Over \cup {"abort"}
  /\ rendered = "shown" =>
       /\ t.pc \in Calling \cup Boundary \cup Over \cup {"answer"}
       /\ t.pc \in Boundary => t.commit \in {"final", "tools"}
       /\ life.fired /\ t.err # "storage"
       /\ pending # NoPending => discardReason(pending.kind)
       /\ cause.kind # "none" => discardReason(cause.kind)
       /\ t.pc = "done" => discarded

BeforeAnswer == {"turn_start", "context_compose", "context_compaction", "provider",
                 "assistant_commit"}
Accepting == {"tools", "intent", "approval"}
Last == IF log = <<>> THEN "none" ELSE log[Len(log)].type

(* What a terminal event at the present stage would say is true.           *)
Truthful ==
  /\ stage \in BeforeAnswer => Last \notin Accepting
  /\ stage \in {"tool_prepare", "tool_approval", "tool_execute"} => ~ran
  /\ stage \in {"tool_approval", "tool_execute"} => Last \in {"intent", "approval"}

(* The stage, the last durable event and the tool, at each point of the    *)
(* turn.                                                                   *)
RequestOK ==
  /\ t.pc \in {"start", "load", "compact", "compacting", "uncompacted", "authorize", "streaming",
               "joining", "answer"} => stage \in BeforeAnswer /\ Last \notin Accepting /\ ~ran
  /\ t.pc = "compose" => stage \in BeforeAnswer \cup {"tool_prepare", "tool_commit"}
                         /\ Last \notin Accepting /\ ~ran
  /\ t.pc \in Boundary => t.commit \in Commits /\ ~ran
  /\ t.pc \in Boundary /\ t.commit # "approval" => stage \in BeforeAnswer
  /\ t.pc \in {"begin", "append"} /\ t.commit # "approval" => Last \notin Accepting
  /\ t.pc \in {"begin", "append"} /\ t.commit = "approval" => Last = "intent"
  /\ t.pc \in Boundary /\ t.commit = "approval" => stage = "tool_approval"
  /\ t.pc = "finish" => Last = t.commit
CallOK ==
  /\ t.pc \in {"accepted", "prepare"} => stage \in {"tool_prepare", "tool_commit"} /\ ~ran
  /\ t.pc = "intent" => stage = "tool_prepare" /\ ~ran
  /\ t.pc \in {"showcall", "showing", "toolphase", "authprep", "preparing", "approval"} =>
       stage = "tool_prepare" /\ Last = "intent" /\ ~ran
  /\ t.pc \in {"ask", "asking"} => stage = "tool_approval" /\ Last = "intent" /\ ~ran
  /\ t.pc \in {"decided", "authexec", "execute"} =>
       /\ stage \in {"tool_prepare", "tool_execute", "tool_commit"}
       /\ Last \in {"intent", "approval"} /\ ~ran
  /\ t.pc = "outcome" => stage = "tool_commit"
  /\ t.pc \in {"showresult", "shown", "next"} =>
       stage \in {"tool_prepare", "tool_commit"} /\ Last \notin Accepting /\ ~ran
  /\ t.pc \in {"abort"} \cup (Over \ {"done"}) => Truthful

(* The end of the turn: what it saw is its cause, and what it left behind. *)
EndOK ==
  /\ t.pc \in {"stopping", "terminal", "done"} => t.seen = result /\ result.kind # "none"
  /\ "terminal" \in Types => t.pc = "done" /\ causeHasDurableTerminal(t.seen.kind)
  /\ "final" \in Types => cause.kind = "success" \/ (t.pc = "finish" /\ t.commit = "final")
  /\ StageTellsTheTruth

(* The inductive invariant.                                                *)
IInv == /\ TypeOK /\ ShapeOK /\ LocksOK /\ PendingOK /\ CauseOK
        /\ ShownOK /\ RequestOK /\ CallOK /\ EndOK

-----------------------------------------------------------------------------
(* What the steps of the turn's goroutine assign.                          *)

LEMMA GotoFields ==
  ASSUME Shaped(t), NEW p, Goto(p)
  PROVE  /\ Shaped(t') /\ t'.pc = p
         /\ t'.commit = t.commit /\ t'.err = t.err /\ t'.seen = t.seen /\ t'.failure = t.failure
BY DEF Shaped, TurnFields, Goto

LEMMA ErrFields ==
  ASSUME Shaped(t), NEW p, NEW e, t' = [t EXCEPT !.pc = p, !.err = e]
  PROVE  /\ Shaped(t') /\ t'.pc = p /\ t'.err = e
         /\ t'.commit = t.commit /\ t'.seen = t.seen /\ t'.failure = t.failure
BY DEF Shaped, TurnFields

LEMMA FailsFields ==
  ASSUME Shaped(t), NEW e, Fails(e)
  PROVE  /\ Shaped(t') /\ t'.pc = "classify" /\ t'.err = e
         /\ t'.commit = t.commit /\ t'.seen = t.seen /\ t'.failure = t.failure
BY ErrFields DEF Fails

(* An event at the end of the log.                                         *)
LEMMA RecordFields ==
  ASSUME log \in Seq(Events), NEW e \in Events, Record(e)
  PROVE  /\ log' \in Seq(Events) /\ log' # <<>>
         /\ Len(log') = Len(log) + 1
         /\ log'[Len(log')] = e
         /\ \A i \in 1..Len(log) : log'[i] = log[i]
         /\ Last' = e.type
         /\ Types' = Types \cup {e.type}
<1>1. /\ log' \in Seq(Events) /\ Len(log') = Len(log) + 1 /\ Len(log) \in Nat
      /\ log'[Len(log) + 1] = e
      /\ \A i \in 1..Len(log) : log'[i] = log[i]
  BY DEF Record
<1>2. log' # <<>>
  BY <1>1
<1>3. Last' = e.type
  BY <1>1, <1>2 DEF Last
<1>4. Types' = Types \cup {e.type}
  <2>1. Types' = {log'[i].type : i \in 1..Len(log')}
    BY DEF Types
  <2>2. 1..Len(log') = 1..Len(log) \cup {Len(log) + 1}
    BY <1>1
  <2>3. \A x : x \in Types' <=> x \in Types \/ x = e.type
    BY <1>1, <2>1, <2>2 DEF Types
  <2> QED
    BY <2>3
<1> QED
  BY <1>1, <1>2, <1>3, <1>4

LEMMA TypeOfEvent ==
  ASSUME NEW y \in {"user", "intent", "outcome"} \cup Commits
  PROVE  [type |-> y] \in Events /\ [type |-> y].type = y
BY DEF Events

LEMMA LogIsKept ==
  ASSUME UNCHANGED log
  PROVE  Last' = Last /\ Types' = Types
BY DEF Last, Types

LEMMA ActiveFacts ==
  Active <=> cause.kind = "none" /\ pending = NoPending /\ ~callerDone /\ ~cancelled
BY DEF Active, CtxDone

(* A step of the turn's goroutine that selects no cause and does not end   *)
(* the turn.                                                               *)
LifeRows == [mu : {None} \cup Callbacks, serial : {None} \cup Callbacks,
             closed : BOOLEAN, fired : BOOLEAN]
Onward == {"classify", "ending"}

QuietFrame ==
  /\ UNCHANGED <<cause, pending, cancelled, sel, heart, cb, wants, discarded, callerDone>>
  /\ t.pc \notin {"selecting", "ending", "stopping", "terminal", "done"}
  /\ ~(t.pc = "finish" /\ t.commit = "final")
  /\ Shaped(t')
  /\ t'.err \in {"none", "provider_error", "lease_lost", "assistant_persistence", "storage"}
  /\ t'.failure \in {"none", "provider_error", "provider_invalid", "storage"}
  /\ t'.pc \notin {"selecting", "stopping", "terminal", "done"}
  /\ stage' \in Stages /\ (cause.kind # "none" => stage' = stage)
QuietLock ==
  /\ readers' = IF t'.pc \in Held THEN readers \cup {T} ELSE readers \ {T}
  /\ t'.pc \in Held => cause.kind = "none"
  /\ (toolDone' <=> InToolPhase') /\ (toolDone' => toolDone \/ Active)
  /\ \A c \in Callbacks : cb[c] # "out" => t'.pc \in Calling
QuietCause ==
  /\ t'.pc \in {"classify", "abort"} => t'.err # "none" \/ ~Active
  /\ t'.pc = "ending" => cause.kind # "none" \/ pending # NoPending
  /\ t'.pc = "uncompacted" => t'.failure # "none"
  /\ t'.err \in {"none", "provider_error"} \/ t'.pc \in {"classify", "abort", "ending"}
QuietShown ==
  /\ life' \in LifeRows
  /\ \/ life'.fired = life.fired
     \/ rendered # "shown" /\ \A c \in Callbacks : cb[c] = "out"
  /\ rendered' = rendered \/ rendered' # "shown"
  /\ rendered' = "shown" =>
       /\ t'.pc \in Calling \cup Boundary \cup {"answer", "classify", "ending"}
       /\ t'.pc \in Boundary => t'.commit \in {"final", "tools"}
       /\ t'.err # "storage"
QuietLog ==
  \/ UNCHANGED log
  \/ \E y \in {"user", "intent", "outcome"} \cup Commits :
       /\ Record([type |-> y])
       /\ y = "final" => t'.pc = "finish" /\ t'.commit = "final"
QuietStep == QuietFrame /\ QuietLock /\ QuietCause /\ QuietShown /\ QuietLog

LEMMA QuietKeeps ==
  ASSUME IInv, QuietStep, RequestOK', CallOK'
  PROVE  IInv'
<1>1. /\ UNCHANGED <<cause, pending, cancelled, sel, heart, cb, wants, discarded, callerDone>>
      /\ T \notin Callbacks
  BY CoordinatorAssumption DEF QuietStep, QuietFrame
<1>2. TypeOK'
  <2>1. readers' \subseteq {T} \cup Callbacks /\ (T \in readers' <=> t'.pc \in Held)
    BY DEF IInv, TypeOK, QuietStep, QuietLock
  <2> QED
    BY <1>1, <2>1 DEF IInv, TypeOK, QuietStep, QuietFrame, Held
<1>3. log' \in Seq(Events)
  <2>1. CASE UNCHANGED log
    BY <2>1 DEF IInv, ShapeOK
  <2>2. ASSUME NEW y \in {"user", "intent", "outcome"} \cup Commits, Record([type |-> y])
        PROVE  log' \in Seq(Events)
    BY <2>2, TypeOfEvent, RecordFields DEF IInv, ShapeOK
  <2> QED
    BY <2>1, <2>2 DEF QuietStep, QuietLog
<1>4. ShapeOK'
  BY <1>1, <1>3 DEF IInv, ShapeOK, QuietStep, QuietFrame, QuietShown, LifeRows
<1>5. LocksOK'
  <2>1. \A c \in Callbacks : c \in readers' <=> c \in readers
    BY <1>1 DEF QuietStep, QuietLock
  <2>2. \A c \in Callbacks : cb[c] \in {"admit", "emit"} => life'.fired
    BY DEF IInv, LocksOK, QuietStep, QuietShown
  <2>3. cause.kind # "none" => readers' = {}
    BY DEF IInv, LocksOK, QuietStep, QuietLock
  <2> QED
    BY <1>1, <2>1, <2>2, <2>3 DEF IInv, LocksOK, QuietStep, QuietLock
<1>6. PendingOK'
  <2>1. \A g \in {T, H} : sel[g].pc \in {"lock", "locking"} => ~toolDone'
    BY ActiveFacts DEF IInv, PendingOK, QuietStep, QuietLock
  <2>2. pending.by # T
    BY DEF IInv, PendingOK, QuietStep, QuietFrame
  <2> QED
    BY <1>1, <2>1, <2>2 DEF IInv, PendingOK
<1>7. CauseOK'
  <2>1. toolDone' => cause.kind = "none"
    BY ActiveFacts DEF IInv, CauseOK, QuietStep, QuietLock
  <2>2. Active' <=> Active
    BY <1>1 DEF Active, CtxDone
  <2>3. CtxDone' <=> CtxDone
    BY <1>1 DEF CtxDone
  <2> QED
    BY <1>1, <2>1, <2>2, <2>3 DEF IInv, CauseOK, QuietStep, QuietFrame, QuietLock, QuietCause
<1>8. ShownOK'
  <2>1. rendered' = "shown" => rendered = "shown" /\ life'.fired = life.fired
    BY DEF QuietStep, QuietShown
  <2> QED
    BY <1>1, <2>1 DEF IInv, ShownOK, QuietStep, QuietFrame, QuietCause, QuietShown, Over
<1>9. EndOK'
  <2>1. "terminal" \notin Types /\ t'.pc \notin {"stopping", "terminal", "done"}
    BY DEF IInv, EndOK, QuietStep, QuietFrame
  <2>2. "final" \in Types => cause.kind = "success"
    BY DEF IInv, EndOK, QuietStep, QuietFrame
  <2>3. CASE UNCHANGED log
    <3>1. Types' = Types
      BY <2>3, LogIsKept
    <3> QED
      BY <1>1, <2>1, <2>2, <3>1 DEF EndOK, StageTellsTheTruth
  <2>4. ASSUME NEW y \in {"user", "intent", "outcome"} \cup Commits, Record([type |-> y]),
               y = "final" => t'.pc = "finish" /\ t'.commit = "final"
        PROVE  EndOK'
    <3>1. Types' = Types \cup {y}
      BY <2>4, TypeOfEvent, RecordFields DEF IInv, ShapeOK
    <3>2. y # "terminal"
      BY DEF Commits
    <3> QED
      BY <1>1, <2>1, <2>2, <2>4, <3>1, <3>2 DEF EndOK, StageTellsTheTruth
  <2> QED
    BY <2>3, <2>4 DEF QuietStep, QuietLog
<1> QED
  BY <1>2, <1>4, <1>5, <1>6, <1>7, <1>8, <1>9 DEF IInv

(* What the invariant says to such a step.                                 *)
LEMMA Known ==
  ASSUME IInv
  PROVE  /\ Shaped(t) /\ log \in Seq(Events) /\ stage \in Stages /\ life \in LifeRows
         /\ t.err \in {"none", "provider_error", "lease_lost", "assistant_persistence", "storage"}
         /\ t.failure \in {"none", "provider_error", "provider_invalid", "storage"}
         /\ T \in readers <=> t.pc \in Held
         /\ toolDone <=> InToolPhase
         /\ \A c \in Callbacks : cb[c] # "out" => t.pc \in Calling
         /\ cause.kind # "none" => readers = {}
         /\ toolDone => cause.kind = "none"
         /\ t.err \in {"none", "provider_error"} \/ t.pc \in Over \cup {"abort"}
         /\ rendered = "shown" =>
              /\ t.pc \in Calling \cup Boundary \cup Over \cup {"answer"}
              /\ t.pc \in Boundary => t.commit \in {"final", "tools"}
              /\ life.fired /\ t.err # "storage"
         /\ Active <=> cause.kind = "none" /\ pending = NoPending /\ ~CtxDone
         /\ RequestOK /\ CallOK
BY DEF IInv, TypeOK, ShapeOK, LocksOK, CauseOK, ShownOK, LifeRows, Held, Active

(* Where the turn may give up, a terminal event would be true.             *)
LEMMA TruthfulInside ==
  ASSUME RequestOK, CallOK, t.pc \notin {"handoff", "finish", "done"},
         t.pc \in {"start", "load", "compact", "compacting", "uncompacted", "authorize",
                   "streaming", "joining", "answer", "compose", "begin", "append", "accepted",
                   "prepare", "intent", "showcall", "showing", "toolphase", "authprep",
                   "preparing", "approval", "ask", "asking", "decided", "authexec", "execute",
                   "outcome", "showresult", "shown", "next", "abort"} \cup Over
  PROVE  Truthful
BY DEF RequestOK, CallOK, Truthful, Boundary, Commits, Over, BeforeAnswer, Accepting

(* The turn gives up before or outside a tool phase, or aborts it.         *)
LEMMA GivesUpAt ==
  ASSUME IInv, UNCHANGED <<cause, pending, cancelled, wants, sel, heart, cb, life,
                           rendered, log, ran, discarded, callerDone>>,
         stage' \in Stages, cause.kind # "none" => stage' = stage,
         readers' = readers \ {T},
         Shaped(t'), t'.failure = t.failure,
         t'.err \in {"none", "provider_error", "lease_lost", "assistant_persistence", "storage"},
         t.pc \notin Over \cup {"handoff", "finish"},
         Truthful',
         \/ t'.pc = "classify" /\ ~InToolPhase /\ UNCHANGED toolDone
         \/ t'.pc = "classify" /\ t.pc = "abort" /\ toolDone' = FALSE
         \/ t'.pc = "abort" /\ InToolPhase /\ UNCHANGED toolDone,
         \A c \in Callbacks : cb[c] = "out",
         t'.err # "none" \/ ~Active,
         rendered = "shown" => t'.pc = "classify" /\ t'.err # "storage"
  PROVE  IInv'
<1>1. RequestOK' /\ CallOK'
  BY DEF RequestOK, CallOK, Boundary
<1>2. QuietFrame
  BY Known DEF QuietFrame, Over
<1>3. QuietLock
  BY Known DEF QuietLock, InToolPhase, Held, Boundary
<1>4. QuietCause
  BY DEF QuietCause
<1>5. QuietShown /\ QuietLog
  BY Known DEF QuietShown, QuietLog, Boundary
<1> QED
  BY <1>1, <1>2, <1>3, <1>4, <1>5, QuietKeeps DEF QuietStep

LEMMA GivesUp ==
  ASSUME IInv, UNCHANGED <<stage, cause, pending, cancelled, wants, sel, heart, cb, life,
                           rendered, log, ran, discarded, callerDone>>,
         readers' = readers \ {T},
         Shaped(t'), t'.failure = t.failure,
         t'.err \in {"none", "provider_error", "lease_lost", "assistant_persistence", "storage"},
         t.pc \notin Over \cup {"handoff", "finish"},
         Truthful,
         \/ t'.pc = "classify" /\ ~InToolPhase /\ UNCHANGED toolDone
         \/ t'.pc = "classify" /\ t.pc = "abort" /\ toolDone' = FALSE
         \/ t'.pc = "abort" /\ InToolPhase /\ UNCHANGED toolDone,
         \A c \in Callbacks : cb[c] = "out",
         t'.err # "none" \/ ~Active,
         rendered = "shown" => t'.pc = "classify" /\ t'.err # "storage"
  PROVE  IInv'
<1>1. Truthful'
  BY LogIsKept DEF Truthful
<1> QED
  BY <1>1, GivesUpAt, Known

(* The outcomes of AppendOr.                                               *)
LEMMA AppendOrKeeps ==
  ASSUME IInv, NEW e \in {"user", "intent", "outcome"}, NEW next, AppendOr([type |-> e], next),
         UNCHANGED <<stage, cause, pending, cancelled, toolDone, readers, wants, sel, heart, cb,
                     life, rendered, discarded, callerDone>>,
         UNCHANGED log => UNCHANGED ran,
         t.pc \notin Over \cup Held \cup Calling \cup {"handoff"},
         next \notin Over \cup Held \cup Boundary \cup {"uncompacted", "abort"},
         ~InToolPhase, Truthful, rendered # "shown",
         Record([type |-> e]) /\ t'.pc = next => RequestOK' /\ CallOK' /\ ~InToolPhase'
  PROVE  IInv'
<1>1. \/ Record([type |-> e]) /\ Goto(next)
      \/ UNCHANGED log /\ \E f \in {"lease_lost", "storage"} : Fails(f)
  BY DEF AppendOr
<1>2. readers' = readers \ {T} /\ \A c \in Callbacks : cb[c] = "out"
  BY Known
<1>3. CASE Record([type |-> e]) /\ Goto(next)
  <2>1. Shaped(t') /\ t'.pc = next /\ t'.err = t.err /\ t'.failure = t.failure
    BY <1>3, Known, GotoFields
  <2>2. RequestOK' /\ CallOK' /\ ~InToolPhase'
    BY <1>3, <2>1
  <2>3. QuietFrame
    BY <2>1, Known DEF QuietFrame, Over, Held
  <2>4. QuietLock
    BY <1>2, <2>1, <2>2, Known DEF QuietLock
  <2>5. QuietCause /\ QuietShown
    BY <2>1, Known DEF QuietCause, QuietShown, Over, InToolPhase
  <2>6. QuietLog
    BY <1>3 DEF QuietLog
  <2> QED
    BY <2>2, <2>3, <2>4, <2>5, <2>6, QuietKeeps DEF QuietStep
<1>4. ASSUME UNCHANGED log, NEW f \in {"lease_lost", "storage"}, Fails(f) PROVE IInv'
  <2>1. Shaped(t') /\ t'.pc = "classify" /\ t'.err = f /\ t'.failure = t.failure
    BY <1>4, Known, FailsFields
  <2> QED
    BY <1>2, <1>4, <2>1, GivesUp DEF Held
<1> QED
  BY <1>1, <1>3, <1>4

(* The turn selects a cause: selectCause has its pending cause, or finds   *)
(* that there is one.                                                      *)
LEMMA SelectsCause ==
  ASSUME IInv, NEW k \in Kinds \ {"none"}, StartSelect(T, k),
         UNCHANGED <<cause, cancelled, toolDone, readers, wants, heart, cb, life,
                     rendered, log, ran, discarded, callerDone>>,
         stage' \in Stages, cause.kind # "none" => stage' = stage,
         Shaped(t'), t'.pc = "selecting", t'.err = t.err, t'.failure = t.failure,
         t.pc \notin Held \cup {"selecting", "ending", "stopping", "terminal", "done"},
         ~InToolPhase, Truthful',
         \A c \in Callbacks : cb[c] = "out",
         rendered = "shown" => discardReason(k)
  PROVE  IInv'
<1> DEFINE new == cause.kind = "none" /\ pending = NoPending
<1>1. /\ T # H /\ None # T /\ T \notin Callbacks
      /\ sel \in [{T, H} -> [pc : {"off", "cancel", "tool", "lock", "locking"}, kind : Kinds]]
      /\ pending.by # T /\ ~toolDone
  BY CoordinatorAssumption, Known DEF IInv, ShapeOK, PendingOK
<1>2. /\ pending' \in [kind : Kinds, by : {T, H, None}]
      /\ pending' # NoPending \/ cause.kind # "none"
      /\ sel' \in [{T, H} -> [pc : {"off", "cancel", "tool", "lock", "locking"}, kind : Kinds]]
      /\ PendingOK'
      /\ rendered = "shown" => /\ pending' # NoPending => discardReason(pending'.kind)
                               /\ cause.kind # "none" => discardReason(cause.kind)
      /\ cause.kind # "none" => pending' = NoPending
  <2>1. CASE new
    <3>1. /\ pending' = [kind |-> k, by |-> T]
          /\ sel' = [sel EXCEPT ![T] = [pc |-> "cancel", kind |-> k]]
      BY <2>1 DEF StartSelect
    <3>2. /\ pending'.kind = k /\ pending'.by = T /\ pending' # NoPending
          /\ pending' \in [kind : Kinds, by : {T, H, None}]
      BY <1>1, <3>1 DEF NoPending
    <3>3. /\ sel' \in [{T, H} -> [pc : {"off", "cancel", "tool", "lock", "locking"}, kind : Kinds]]
          /\ sel'[T].pc = "cancel" /\ sel'[H] = sel[H]
      BY <1>1, <3>1
    <3>4. PendingOK'
      BY <1>1, <2>1, <3>2, <3>3 DEF IInv, PendingOK
    <3> QED
      BY <2>1, <3>2, <3>3, <3>4
  <2>2. CASE ~new
    <3>1. UNCHANGED <<pending, sel>>
      BY <2>2 DEF StartSelect
    <3>2. PendingOK'
      BY <1>1, <3>1 DEF IInv, PendingOK
    <3> QED
      BY <1>1, <2>2, <3>1, <3>2 DEF IInv, TypeOK, ShownOK, CauseOK
  <2> QED
    BY <2>1, <2>2
<1> HIDE DEF new
<1>3. TypeOK'
  BY <1>2 DEF IInv, TypeOK, Held
<1>4. ShapeOK'
  BY <1>2 DEF IInv, ShapeOK
<1>5. LocksOK'
  BY DEF IInv, LocksOK
<1>6. CauseOK'
  <2>1. CtxDone' <=> CtxDone
    BY DEF CtxDone
  <2>2. ~InToolPhase'
    BY DEF InToolPhase, Boundary
  <2> QED
    BY <1>1, <1>2, <2>1, <2>2 DEF IInv, CauseOK
<1>7. ShownOK'
  BY <1>2 DEF IInv, ShownOK, Over, Boundary
<1>8. RequestOK' /\ CallOK'
  BY DEF RequestOK, CallOK, Boundary
<1>9. EndOK'
  <2>1. "terminal" \notin Types /\ ("final" \in Types => cause.kind = "success")
    BY DEF IInv, EndOK, Held
  <2>2. Types' = Types
    BY LogIsKept
  <2> QED
    BY <2>1, <2>2 DEF EndOK, StageTellsTheTruth
<1> QED
  BY <1>2, <1>3, <1>4, <1>5, <1>6, <1>7, <1>8, <1>9 DEF IInv

-----------------------------------------------------------------------------
(* One lemma for each step of the turn's goroutine: up to the answer.      *)

LEMMA StartTurnKeeps ==
  ASSUME IInv, StartTurn
  PROVE  IInv'
<1>1. /\ t.pc = "start" /\ AppendOr([type |-> "user"], "load")
      /\ UNCHANGED <<stage, cause, pending, cancelled, toolDone, readers, wants, sel, heart, cb,
                     life, rendered, ran, discarded, callerDone>>
  BY DEF StartTurn, coord, locks, stream
<1>2. Truthful /\ stage \in BeforeAnswer /\ ~ran
  BY <1>1, TruthfulInside, Known DEF RequestOK
<1>3. ASSUME Record([type |-> "user"]), t'.pc = "load"
      PROVE  RequestOK' /\ CallOK' /\ ~InToolPhase'
  <2>1. Last' = "user"
    BY <1>3, TypeOfEvent, RecordFields, Known
  <2> QED
    BY <1>1, <1>2, <1>3, <2>1 DEF RequestOK, CallOK, InToolPhase, Boundary, Accepting, Over
<1> QED
  BY <1>1, <1>2, <1>3, AppendOrKeeps, Known
     DEF Over, Held, Boundary, Calling, InToolPhase

LEMMA AppendIntentKeeps ==
  ASSUME IInv, AppendIntent
  PROVE  IInv'
<1>1. /\ t.pc = "intent" /\ AppendOr([type |-> "intent"], "showcall")
      /\ UNCHANGED <<stage, cause, pending, cancelled, toolDone, readers, wants, sel, heart, cb,
                     life, rendered, ran, discarded, callerDone>>
  BY DEF AppendIntent, coord, locks, stream
<1>2. Truthful /\ stage = "tool_prepare" /\ ~ran
  BY <1>1, TruthfulInside, Known DEF CallOK
<1>3. ASSUME Record([type |-> "intent"]), t'.pc = "showcall"
      PROVE  RequestOK' /\ CallOK' /\ ~InToolPhase'
  <2>1. Last' = "intent"
    BY <1>3, TypeOfEvent, RecordFields, Known
  <2> QED
    BY <1>1, <1>2, <1>3, <2>1 DEF RequestOK, CallOK, InToolPhase, Boundary, Over
<1> QED
  BY <1>1, <1>2, <1>3, AppendOrKeeps, Known
     DEF Over, Held, Boundary, Calling, InToolPhase

LEMMA AppendOutcomeKeeps ==
  ASSUME IInv, AppendOutcome
  PROVE  IInv'
<1>1. /\ t.pc = "outcome" /\ AppendOr([type |-> "outcome"], "showresult")
      /\ ran' = IF log' # log THEN FALSE ELSE ran
      /\ UNCHANGED <<stage, cause, pending, cancelled, toolDone, readers, wants, sel, heart, cb,
                     life, rendered, discarded, callerDone>>
  BY DEF AppendOutcome, coord, locks, stream
<1>2. Truthful /\ stage = "tool_commit"
  BY <1>1, TruthfulInside, Known DEF CallOK
<1>3. ASSUME Record([type |-> "outcome"]), t'.pc = "showresult"
      PROVE  RequestOK' /\ CallOK' /\ ~InToolPhase'
  <2>1. Last' = "outcome" /\ Len(log') = Len(log) + 1 /\ Len(log) \in Nat
    BY <1>3, TypeOfEvent, RecordFields, Known
  <2>2. ~ran'
    BY <1>1, <2>1
  <2> QED
    BY <1>1, <1>2, <1>3, <2>1, <2>2 DEF RequestOK, CallOK, InToolPhase, Boundary, Accepting, Over
<1> QED
  BY <1>1, <1>2, <1>3, AppendOrKeeps, Known
     DEF Over, Held, Boundary, Calling, InToolPhase

(* A move to another point, with or without a new stage.                   *)
LEMMA MovesOn ==
  ASSUME IInv, UNCHANGED <<cause, pending, cancelled, toolDone, wants, readers, sel, heart, cb,
                           life, log, discarded, callerDone>>,
         rendered' = rendered \/ rendered' # "shown",
         stage' \in Stages, cause.kind # "none" => stage' = stage,
         Shaped(t'), t'.err = t.err, t'.failure = t.failure,
         t.pc \notin Over \cup Held \cup {"abort"},
         t'.pc \notin Over \cup Held \cup {"uncompacted", "abort"},
         InToolPhase' <=> InToolPhase,
         t.pc \in Calling => \A c \in Callbacks : cb[c] = "out",
         rendered' = "shown" => /\ t'.pc \in Boundary \cup {"answer"}
                                /\ t'.pc \in Boundary => t'.commit \in {"final", "tools"},
         RequestOK', CallOK'
  PROVE  IInv'
<1>1. QuietFrame
  BY Known DEF QuietFrame, Over, Held
<1>2. QuietLock
  BY Known DEF QuietLock
<1>3. QuietCause
  BY Known DEF QuietCause, Over
<1>4. QuietShown /\ QuietLog
  BY Known DEF QuietShown, QuietLog
<1> QED
  BY <1>1, <1>2, <1>3, <1>4, QuietKeeps DEF QuietStep

LEMMA ComposeKeeps ==
  ASSUME IInv, Compose
  PROVE  IInv'
<1>1. /\ t.pc = "compose"
      /\ UNCHANGED <<cause, pending, cancelled, toolDone, readers, wants, sel, heart, cb, life,
                     log, ran, discarded, callerDone>>
  BY DEF Compose, locks, stream, env
<1>2. /\ Last \notin Accepting /\ ~ran /\ Last' = Last /\ Truthful /\ ~InToolPhase
      /\ readers' = readers \ {T} /\ (\A c \in Callbacks : cb[c] = "out") /\ rendered # "shown"
  BY <1>1, LogIsKept, TruthfulInside, Known
     DEF RequestOK, InToolPhase, Boundary, Held, Calling, Over
<1>3. CASE Active
  <2>1. /\ stage' = "context_compose" /\ rendered' = "nothing"
        /\ \E pc \in {"compact", "begin"} :
             t' = [t EXCEPT !.pc = pc, !.commit = "snapshot", !.compacted = FALSE]
    BY <1>3 DEF Compose
  <2>2. /\ Shaped(t') /\ t'.pc \in {"compact", "begin"} /\ t'.commit = "snapshot"
        /\ t'.err = t.err /\ t'.failure = t.failure
    BY <2>1, Known DEF Shaped, TurnFields
  <2>3. RequestOK' /\ CallOK' /\ ~InToolPhase'
    BY <1>1, <1>2, <2>1, <2>2
       DEF RequestOK, CallOK, InToolPhase, Boundary, Commits, BeforeAnswer, Over
  <2> QED
    BY <1>1, <1>2, <1>3, <2>1, <2>2, <2>3, MovesOn, Known
       DEF Over, Held, Calling, Stages
<1>4. CASE ~Active
  <2>1. Goto("classify") /\ UNCHANGED <<stage, rendered>>
    BY <1>4 DEF Compose
  <2>2. Shaped(t') /\ t'.pc = "classify" /\ t'.err = t.err /\ t'.failure = t.failure
    BY <2>1, GotoFields, Known
  <2> QED
    BY <1>1, <1>2, <1>4, <2>1, <2>2, GivesUp, Known DEF Over
<1> QED
  BY <1>3, <1>4

(* Before the answer: nothing of the tool phase, and no callbacks.         *)
LEMMA InRequest ==
  ASSUME IInv, t.pc \in {"load", "compact", "compacting", "uncompacted", "authorize"}
                        \/ (t.pc = "begin" /\ t.commit = "snapshot")
  PROVE  /\ stage \in BeforeAnswer /\ Last \notin Accepting /\ ~ran /\ Truthful
         /\ ~InToolPhase /\ readers = readers \ {T} /\ rendered # "shown"
         /\ \A c \in Callbacks : cb[c] = "out"
         /\ t.pc \notin Over \cup Held \cup Calling \cup {"abort", "handoff"}
<1>1. /\ stage \in BeforeAnswer /\ Last \notin Accepting /\ ~ran
  BY Known DEF RequestOK, Boundary
<1>2. Truthful
  BY <1>1 DEF Truthful, BeforeAnswer
<1> QED
  BY <1>1, <1>2, Known DEF InToolPhase, Boundary, Held, Calling, Over

LEMMA LoadTurnKeeps ==
  ASSUME IInv, LoadTurn
  PROVE  IInv'
<1>1. /\ t.pc = "load" /\ stage' = IF Active THEN "context_compose" ELSE stage
      /\ UNCHANGED <<cause, cancelled, toolDone, readers, wants, heart, cb, life, rendered,
                     log, ran, discarded, callerDone>>
  BY DEF LoadTurn, locks, stream, out
<1>2. /\ stage' \in BeforeAnswer /\ stage' \in Stages /\ (cause.kind # "none" => stage' = stage)
      /\ Last' = Last /\ Truthful'
  BY <1>1, InRequest, LogIsKept, Known DEF BeforeAnswer, Stages, Truthful, Active
<1>3. CASE Goto("compose") /\ UNCHANGED <<pending, sel>>
  <2>1. Shaped(t') /\ t'.pc = "compose" /\ t'.err = t.err /\ t'.failure = t.failure
    BY <1>3, GotoFields, Known
  <2>2. RequestOK' /\ CallOK' /\ ~InToolPhase'
    BY <1>1, <1>2, <2>1, InRequest DEF RequestOK, CallOK, InToolPhase, Boundary, Over
  <2> QED
    BY <1>1, <1>2, <1>3, <2>1, <2>2, InRequest, MovesOn DEF Over, Held, Boundary
<1>4. CASE Fails("storage") /\ UNCHANGED <<pending, sel>>
  <2>1. Shaped(t') /\ t'.pc = "classify" /\ t'.err = "storage" /\ t'.failure = t.failure
    BY <1>4, FailsFields, Known
  <2> QED
    BY <1>1, <1>2, <1>4, <2>1, InRequest, GivesUpAt DEF Over
<1>5. CASE StartSelect(T, "repository_instructions") /\ Goto("selecting")
  <2>1. Shaped(t') /\ t'.pc = "selecting" /\ t'.err = t.err /\ t'.failure = t.failure
    BY <1>5, GotoFields, Known
  <2> QED
    BY <1>1, <1>2, <1>5, <2>1, InRequest, SelectsCause DEF Kinds, Over
<1> QED
  BY <1>3, <1>4, <1>5 DEF LoadTurn

LEMMA ComposeFailsKeeps ==
  ASSUME IInv, ComposeFails
  PROVE  IInv'
<1>1. /\ t.pc \in {"compact"} \/ (t.pc = "begin" /\ t.commit = "snapshot")
      /\ UNCHANGED <<stage, cause, cancelled, toolDone, readers, wants, heart, cb, life, rendered,
                     log, ran, discarded, callerDone>>
  BY DEF ComposeFails, locks, stream, out
<1>2. stage \in Stages /\ Truthful'
  BY <1>1, InRequest, LogIsKept, Known DEF Truthful
<1>3. CASE StartSelect(T, "context_overflow") /\ Goto("selecting")
  <2>1. Shaped(t') /\ t'.pc = "selecting" /\ t'.err = t.err /\ t'.failure = t.failure
    BY <1>3, GotoFields, Known
  <2> QED
    BY <1>1, <1>2, <1>3, <2>1, InRequest, SelectsCause DEF Kinds, Over
<1>4. CASE Fails("storage") /\ UNCHANGED <<pending, sel>>
  <2>1. Shaped(t') /\ t'.pc = "classify" /\ t'.err = "storage" /\ t'.failure = t.failure
    BY <1>4, FailsFields, Known
  <2> QED
    BY <1>1, <1>4, <2>1, InRequest, GivesUp DEF Over
<1> QED
  BY <1>3, <1>4 DEF ComposeFails

(* The turn gives up the request before the answer.                        *)
LEMMA RequestGivesUp ==
  ASSUME IInv, t.pc \in {"load", "compact", "compacting", "uncompacted", "authorize"}
                        \/ (t.pc = "begin" /\ t.commit = "snapshot"),
         UNCHANGED <<stage, cause, pending, cancelled, toolDone, readers, wants, sel, heart, cb,
                     life, rendered, log, ran, discarded, callerDone>>,
         \/ Goto("classify") /\ ~Active
         \/ \E e \in {"lease_lost", "storage"} : Fails(e)
  PROVE  IInv'
<1>1. /\ Shaped(t') /\ t'.pc = "classify" /\ t'.failure = t.failure
      /\ (t'.err = t.err /\ ~Active) \/ t'.err \in {"lease_lost", "storage"}
  BY GotoFields, FailsFields, Known
<1> QED
  BY <1>1, InRequest, GivesUp, Known DEF Over

LEMMA StartCompactionKeeps ==
  ASSUME IInv, StartCompaction
  PROVE  IInv'
<1>1. /\ t.pc = "compact"
      /\ UNCHANGED <<cause, pending, cancelled, toolDone, readers, wants, sel, heart, cb, life,
                     rendered, log, ran, discarded, callerDone>>
  BY DEF StartCompaction, locks, stream, out, env
<1>2. Last' = Last
  BY <1>1, LogIsKept
<1>3. CASE t.failure # "none"
  <2>1. Goto("uncompacted") /\ UNCHANGED stage
    BY <1>3 DEF StartCompaction
  <2>2. Shaped(t') /\ t'.pc = "uncompacted" /\ t'.err = t.err /\ t'.failure = t.failure
    BY <2>1, GotoFields, Known
  <2>3. RequestOK' /\ CallOK' /\ ~InToolPhase'
    BY <1>1, <1>2, <2>1, <2>2, InRequest DEF RequestOK, CallOK, InToolPhase, Boundary, Over
  <2>4. QuietFrame
    BY <1>1, <2>1, <2>2, InRequest, Known DEF QuietFrame, Over, Held
  <2>5. QuietLock
    BY <1>1, <2>2, <2>3, InRequest, Known DEF QuietLock, Held
  <2>6. QuietCause /\ QuietShown /\ QuietLog
    BY <1>1, <1>3, <2>2, InRequest, Known DEF QuietCause, QuietShown, QuietLog
  <2> QED
    BY <2>3, <2>4, <2>5, <2>6, QuietKeeps DEF QuietStep
<1>4. CASE t.failure = "none" /\ Active
  <2>1. Goto("compacting") /\ stage' = "context_compaction"
    BY <1>4 DEF StartCompaction
  <2>2. Shaped(t') /\ t'.pc = "compacting" /\ t'.err = t.err /\ t'.failure = t.failure
    BY <2>1, GotoFields, Known
  <2>3. RequestOK' /\ CallOK' /\ ~InToolPhase'
    BY <1>1, <1>2, <2>1, <2>2, InRequest
       DEF RequestOK, CallOK, InToolPhase, Boundary, Over, BeforeAnswer
  <2> QED
    BY <1>1, <1>4, <2>1, <2>2, <2>3, InRequest, MovesOn, Known DEF Over, Held, Boundary, Stages
<1>5. CASE t.failure = "none" /\ ~Active
  <2>1. Goto("classify") /\ UNCHANGED stage
    BY <1>5 DEF StartCompaction
  <2> QED
    BY <1>1, <1>5, <2>1, RequestGivesUp
<1> QED
  BY <1>3, <1>4, <1>5

LEMMA EndCompactionKeeps ==
  ASSUME IInv, EndCompaction
  PROVE  IInv'
<1>1. /\ t.pc = "compacting"
      /\ UNCHANGED <<stage, cause, pending, cancelled, toolDone, readers, wants, sel, heart, cb,
                     life, rendered, log, ran, discarded, callerDone>>
  BY DEF EndCompaction, coord, locks, stream, out
<1>2. Last' = Last
  BY <1>1, LogIsKept
<1>3. CASE t' = [t EXCEPT !.pc = "begin", !.commit = "compaction"]
  <2>1. /\ Shaped(t') /\ t'.pc = "begin" /\ t'.commit = "compaction" /\ t'.err = t.err
        /\ t'.failure = t.failure
    BY <1>3, Known DEF Shaped, TurnFields
  <2>2. RequestOK' /\ CallOK' /\ ~InToolPhase'
    BY <1>1, <1>2, <2>1, InRequest
       DEF RequestOK, CallOK, InToolPhase, Boundary, Over, Commits
  <2> QED
    BY <1>1, <2>1, <2>2, InRequest, MovesOn, Known DEF Over, Held, Boundary
<1>4. CASE \E e \in {"lease_lost", "storage"} : Fails(e)
  BY <1>1, <1>4, RequestGivesUp
<1>5. ASSUME NEW kind \in {"provider_error", "provider_invalid"},
             t' = [t EXCEPT !.pc = "uncompacted", !.failure = kind]
      PROVE  IInv'
  <2>1. Shaped(t') /\ t'.pc = "uncompacted" /\ t'.err = t.err /\ t'.failure = kind
    BY <1>5, Known DEF Shaped, TurnFields
  <2>2. RequestOK' /\ CallOK' /\ ~InToolPhase'
    BY <1>1, <1>2, <2>1, InRequest DEF RequestOK, CallOK, InToolPhase, Boundary, Over
  <2>3. QuietFrame
    BY <1>1, <2>1, InRequest, Known DEF QuietFrame, Over, Held
  <2>4. QuietLock
    BY <1>1, <2>1, <2>2, InRequest, Known DEF QuietLock, Held
  <2>5. QuietCause /\ QuietShown /\ QuietLog
    BY <1>1, <2>1, InRequest, Known DEF QuietCause, QuietShown, QuietLog
  <2> QED
    BY <2>2, <2>3, <2>4, <2>5, QuietKeeps DEF QuietStep
<1> QED
  BY <1>3, <1>4, <1>5 DEF EndCompaction

LEMMA UncompactedRequestKeeps ==
  ASSUME IInv, UncompactedRequest
  PROVE  IInv'
<1>1. /\ t.pc = "uncompacted"
      /\ UNCHANGED <<cause, cancelled, toolDone, readers, wants, heart, cb, life, rendered,
                     log, ran, discarded, callerDone>>
  BY DEF UncompactedRequest, locks, stream, out, env
<1>2. Last' = Last
  BY <1>1, LogIsKept
<1>3. CASE result.kind # "none" /\ Goto("ending") /\ UNCHANGED <<stage, pending, sel>>
  <2>1. Shaped(t') /\ t'.pc = "ending" /\ t'.err = t.err /\ t'.failure = t.failure
    BY <1>3, GotoFields, Known
  <2>2. Truthful'
    BY <1>1, <1>2, <1>3, InRequest DEF Truthful
  <2>3. RequestOK' /\ CallOK' /\ ~InToolPhase'
    BY <2>1, <2>2 DEF RequestOK, CallOK, InToolPhase, Boundary
  <2>4. QuietFrame
    BY <1>1, <1>3, <2>1, InRequest, Known DEF QuietFrame, Over, Held
  <2>5. QuietLock
    BY <1>1, <2>1, <2>3, InRequest, Known DEF QuietLock, Held
  <2>6. QuietCause /\ QuietShown /\ QuietLog
    BY <1>1, <1>3, <2>1, InRequest, Known DEF QuietCause, QuietShown, QuietLog, result
  <2> QED
    BY <2>3, <2>4, <2>5, <2>6, QuietKeeps DEF QuietStep
<1>4. CASE Active /\ stage' = "context_compose" /\ UNCHANGED <<pending, sel>>
           /\ t' = [t EXCEPT !.pc = "begin", !.commit = "snapshot"]
  <2>1. /\ Shaped(t') /\ t'.pc = "begin" /\ t'.commit = "snapshot" /\ t'.err = t.err
        /\ t'.failure = t.failure
    BY <1>4, Known DEF Shaped, TurnFields
  <2>2. RequestOK' /\ CallOK' /\ ~InToolPhase'
    BY <1>1, <1>2, <1>4, <2>1, InRequest
       DEF RequestOK, CallOK, InToolPhase, Boundary, Over, Commits, BeforeAnswer
  <2> QED
    BY <1>1, <1>4, <2>1, <2>2, InRequest, MovesOn, Known DEF Over, Held, Boundary, Stages
<1>5. CASE /\ UNCHANGED <<stage, pending, sel>>
           /\ (Goto("classify") /\ ~Active) \/ Fails("storage")
  BY <1>1, <1>5, RequestGivesUp
<1>6. CASE t.failure # "storage" /\ UNCHANGED stage /\ StartSelect(T, t.failure) /\ Goto("selecting")
  <2>1. Shaped(t') /\ t'.pc = "selecting" /\ t'.err = t.err /\ t'.failure = t.failure
    BY <1>6, GotoFields, Known
  <2>2. t.failure \in Kinds \ {"none"}
    BY <1>1, Known DEF IInv, CauseOK, Kinds
  <2>3. Truthful'
    BY <1>1, <1>2, <1>6, InRequest DEF Truthful
  <2>4. stage' \in Stages
    BY <1>6, Known
  <2> QED
    BY <1>1, <1>6, <2>1, <2>2, <2>3, <2>4, InRequest, SelectsCause DEF Over
<1> QED
  BY <1>3, <1>4, <1>5, <1>6 DEF UncompactedRequest

-----------------------------------------------------------------------------
(* The commit boundary.                                                    *)

(* A move that may take or leave the lock, open or close the tool phase,   *)
(* and append an event.                                                    *)
LEMMA Crosses ==
  ASSUME IInv, UNCHANGED <<cause, pending, cancelled, wants, sel, heart, cb, life, discarded,
                           callerDone>>,
         rendered' = rendered \/ rendered' # "shown",
         stage' \in Stages, cause.kind # "none" => stage' = stage,
         Shaped(t'), t'.err = t.err,
         t'.failure \in {"none", "provider_error", "provider_invalid", "storage"},
         t.pc \notin Over \cup {"abort"}, ~(t.pc = "finish" /\ t.commit = "final"),
         t'.pc \notin Over \cup {"abort"}, t'.pc = "uncompacted" => t'.failure # "none",
         readers' = IF t'.pc \in Held THEN readers \cup {T} ELSE readers \ {T},
         t'.pc \in Held => cause.kind = "none",
         toolDone' <=> InToolPhase', toolDone' => toolDone \/ Active,
         \A c \in Callbacks : cb[c] = "out",
         rendered' = "shown" => /\ t'.pc \in Boundary \cup {"answer"}
                                /\ t'.pc \in Boundary => t'.commit \in {"final", "tools"},
         QuietLog, RequestOK', CallOK'
  PROVE  IInv'
<1>1. QuietFrame
  BY Known DEF QuietFrame, Over
<1>2. QuietLock
  BY DEF QuietLock
<1>3. QuietCause
  BY Known DEF QuietCause, Over
<1>4. QuietShown
  BY Known DEF QuietShown
<1> QED
  BY <1>1, <1>2, <1>3, <1>4, QuietKeeps DEF QuietStep

LEMMA beginCommitBoundaryKeeps ==
  ASSUME IInv, beginCommitBoundary
  PROVE  IInv'
<1>1. /\ t.pc = "begin"
      /\ UNCHANGED <<stage, cause, pending, cancelled, toolDone, wants, sel, heart, cb, life,
                     rendered, log, ran, discarded, callerDone>>
  BY DEF beginCommitBoundary, coord, stream, out, env
<1>2. /\ Truthful /\ (\A c \in Callbacks : cb[c] = "out") /\ T \notin readers
      /\ Last' = Last /\ t.commit \in Commits
      /\ t.pc \notin Over \cup {"abort", "handoff", "finish"}
  BY <1>1, LogIsKept, TruthfulInside, Known DEF Held, Calling, Over, RequestOK, Boundary
<1>3. CASE Active
  <2>1. Goto("append") /\ readers' = readers \cup {T}
    BY <1>3 DEF beginCommitBoundary
  <2>2. /\ Shaped(t') /\ t'.pc = "append" /\ t'.commit = t.commit /\ t'.err = t.err
        /\ t'.failure = t.failure
    BY <2>1, GotoFields, Known
  <2>3. RequestOK' /\ CallOK' /\ (InToolPhase' <=> InToolPhase)
    BY <1>1, <1>2, <2>2, Known DEF RequestOK, CallOK, InToolPhase, Boundary, Over
  <2>4. QuietLog
    BY <1>1 DEF QuietLog
  <2>5. rendered = "shown" => t.commit \in {"final", "tools"}
    BY <1>1, Known DEF Boundary
  <2> QED
    BY <1>1, <1>2, <1>3, <2>1, <2>2, <2>3, <2>4, <2>5, Crosses, Known DEF Over, Held, Boundary
<1>4. CASE ~Active
  <2>1. Goto(IF t.commit = "approval" THEN "abort" ELSE "classify") /\ UNCHANGED readers
    BY <1>4 DEF beginCommitBoundary
  <2>2. /\ Shaped(t') /\ t'.pc = (IF t.commit = "approval" THEN "abort" ELSE "classify")
        /\ t'.err = t.err /\ t'.failure = t.failure
    BY <2>1, GotoFields, Known
  <2>3. InToolPhase <=> t.commit = "approval"
    BY <1>1 DEF InToolPhase, Boundary
  <2>4. rendered = "shown" => t.commit \in {"final", "tools"} /\ t.err # "storage"
    BY <1>1, Known DEF Boundary
  <2> QED
    BY <1>1, <1>2, <1>4, <2>1, <2>2, <2>3, <2>4, GivesUp, Known
<1> QED
  BY <1>3, <1>4

LEMMA CommitAppendKeeps ==
  ASSUME IInv, CommitAppend
  PROVE  IInv'
<1>1. /\ t.pc = "append"
      /\ UNCHANGED <<stage, cause, pending, cancelled, toolDone, wants, sel, heart, cb, life,
                     rendered, ran, discarded, callerDone>>
  BY DEF CommitAppend, coord, stream
<1>2. /\ Truthful /\ (\A c \in Callbacks : cb[c] = "out") /\ T \in readers
      /\ t.commit \in Commits /\ ~ran /\ cause.kind = "none"
      /\ t.pc \notin Over \cup {"abort", "handoff", "finish"}
      /\ t.commit = "approval" => stage = "tool_approval"
      /\ t.commit # "approval" => stage \in BeforeAnswer /\ Last \notin Accepting
      /\ InToolPhase <=> t.commit = "approval"
      /\ rendered = "shown" => t.commit \in {"final", "tools"}
  BY <1>1, TruthfulInside, Known DEF Held, Calling, Over, RequestOK, Boundary, InToolPhase
<1>3. CASE Record([type |-> t.commit]) /\ Goto("finish") /\ UNCHANGED readers
  <2>1. /\ Shaped(t') /\ t'.pc = "finish" /\ t'.commit = t.commit /\ t'.err = t.err
        /\ t'.failure = t.failure
    BY <1>3, GotoFields, Known
  <2>2. Last' = t.commit
    BY <1>2, <1>3, TypeOfEvent, RecordFields, Known
  <2>3. RequestOK' /\ CallOK' /\ (InToolPhase' <=> InToolPhase)
    BY <1>1, <1>2, <2>1, <2>2 DEF RequestOK, CallOK, InToolPhase, Boundary, Over
  <2>4. QuietLog
    BY <1>2, <1>3, <2>1 DEF QuietLog
  <2>5. readers' = readers \cup {T}
    BY <1>2, <1>3
  <2> QED
    BY <1>1, <1>2, <2>1, <2>3, <2>4, <2>5, Crosses, Known DEF Over, Held, Boundary
<1>4. CASE /\ UNCHANGED log /\ readers' = readers \ {T}
           /\ t' = [t EXCEPT !.err = CASE ~lease -> "lease_lost"
                                       [] lease /\ t.commit \in {"final", "tools"} ->
                                            "assistant_persistence"
                                       [] OTHER -> "storage",
                             !.pc = IF t.commit = "approval" THEN "abort" ELSE "classify"]
  <2>1. /\ Shaped(t') /\ t'.pc = (IF t.commit = "approval" THEN "abort" ELSE "classify")
        /\ t'.failure = t.failure
        /\ t'.err \in {"lease_lost", "assistant_persistence", "storage"}
        /\ t.commit \in {"final", "tools"} => t'.err # "storage"
    BY <1>4, Known DEF Shaped, TurnFields
  <2> QED
    BY <1>1, <1>2, <1>4, <2>1, GivesUp, Known
<1>5. CASE /\ UNCHANGED log /\ readers' = readers \ {T} /\ t.commit = "compaction"
           /\ t' = [t EXCEPT !.pc = "uncompacted", !.failure = "storage"]
  <2>1. Shaped(t') /\ t'.pc = "uncompacted" /\ t'.err = t.err /\ t'.failure = "storage"
    BY <1>5, Known DEF Shaped, TurnFields
  <2>2. RequestOK' /\ CallOK' /\ ~InToolPhase'
    BY <1>1, <1>2, <1>5, <2>1, LogIsKept DEF RequestOK, CallOK, InToolPhase, Boundary, Over
  <2>3. QuietLog
    BY <1>5 DEF QuietLog
  <2> QED
    BY <1>1, <1>2, <1>5, <2>1, <2>2, <2>3, Crosses, Known DEF Over, Held, Boundary
<1> QED
  BY <1>3, <1>4, <1>5 DEF CommitAppend

LEMMA finishCommitBoundaryKeeps ==
  ASSUME IInv, finishCommitBoundary
  PROVE  IInv'
<1>1. /\ t.pc = "finish" /\ t.commit # "final" /\ readers' = readers \ {T}
      /\ stage' = IF cause.kind = "none" THEN StageAfter(t.commit) ELSE stage
      /\ rendered' = IF t.commit = "tools" THEN "committed" ELSE rendered
      /\ UNCHANGED <<cause, pending, cancelled, toolDone, wants, sel, heart, cb, life,
                     log, ran, discarded, callerDone>>
  BY DEF finishCommitBoundary, stream, env
<1>2. /\ (\A c \in Callbacks : cb[c] = "out") /\ T \in readers
      /\ t.commit \in Commits \ {"final"} /\ ~ran /\ cause.kind = "none"
      /\ t.pc \notin Over \cup {"abort"}
      /\ InToolPhase <=> t.commit = "approval"
      /\ Last' = t.commit
      /\ rendered = "shown" => t.commit = "tools"
  BY <1>1, LogIsKept, Known DEF Held, Calling, Over, RequestOK, Boundary, InToolPhase
<1>3. /\ Shaped(t') /\ t'.err = t.err /\ t'.failure = t.failure
      /\ \/ /\ t.commit = "compaction" /\ t'.commit = "snapshot" /\ t'.pc = "begin"
            /\ stage' = "context_compose"
         \/ t.commit = "snapshot" /\ t'.pc = "authorize" /\ stage' = "provider"
         \/ t.commit = "tools" /\ t'.pc = "accepted" /\ stage' = "tool_prepare"
         \/ /\ t.commit = "approval" /\ t'.pc = "decided"
            /\ stage' \in {"tool_execute", "tool_commit"}
  <2> DEFINE to == CASE t.commit = "compaction" -> "begin"
                     [] t.commit = "snapshot" -> "authorize"
                     [] t.commit = "tools" -> "accepted"
                     [] t.commit = "approval" -> "decided"
             done == t.compacted \/ t.commit = "compaction"
             left == IF t.commit = "compaction" THEN "snapshot" ELSE "none"
  <2>0. t' = [t EXCEPT !.commit = left, !.compacted = done, !.pc = to]
    BY DEF finishCommitBoundary
  <2> HIDE DEF done
  <2>1. /\ Shaped(t') /\ t'.err = t.err /\ t'.failure = t.failure
        /\ t'.commit = left /\ t'.pc = to
    <3> HIDE DEF to, left
    <3> QED
      BY <2>0, Known DEF Shaped, TurnFields
  <2> QED
    BY <1>1, <1>2, <2>1 DEF StageAfter, Commits
<1>4. stage' \in Stages
  BY <1>3 DEF Stages
<1>5. RequestOK' /\ CallOK' /\ (InToolPhase' <=> InToolPhase)
  BY <1>1, <1>2, <1>3
     DEF RequestOK, CallOK, InToolPhase, Boundary, Over, BeforeAnswer, Accepting, Commits
<1>6. QuietLog
  BY <1>1 DEF QuietLog
<1>7. rendered' # "shown" /\ t'.pc \notin Held
  BY <1>1, <1>2, <1>3 DEF Held
<1>8. t'.pc \notin Over \cup {"abort", "uncompacted"}
  BY <1>3 DEF Over
<1> QED
  BY <1>1, <1>2, <1>3, <1>4, <1>5, <1>6, <1>7, <1>8, Crosses, Known

LEMMA finishSuccessBoundaryKeeps ==
  ASSUME IInv, finishSuccessBoundary
  PROVE  IInv'
<1>1. /\ t.pc = "finish" /\ t.commit = "final" /\ readers' = readers \ {T} /\ Goto("ending")
      /\ cause' = [kind |-> "success", stage |-> stage] /\ pending' = NoPending
      /\ rendered' = "committed"
      /\ UNCHANGED <<stage, cancelled, toolDone, wants, sel, heart, cb, life, log, ran,
                     discarded, callerDone>>
  BY DEF finishSuccessBoundary, stream, env
<1>2. /\ Shaped(t') /\ t'.pc = "ending" /\ t'.err = t.err /\ t'.failure = t.failure
  BY <1>1, GotoFields, Known
<1>3. /\ \A c \in Callbacks : cb[c] = "out" /\ c \notin readers
      /\ stage \in BeforeAnswer /\ Last = "final" /\ ~ran /\ ~InToolPhase /\ ~toolDone
  BY <1>1, Known DEF IInv, LocksOK, Calling, RequestOK, Boundary, InToolPhase
<1>4. /\ cause'.kind = "success" /\ cause'.stage = stage /\ pending'.by = None
      /\ None \notin {T, H} /\ cause' \in [kind : Kinds, stage : Stages \cup {"none"}]
      /\ pending' \in [kind : Kinds, by : {T, H, None}]
  BY <1>1, Known, CoordinatorAssumption DEF NoPending, Kinds
<1>5. readers' = {}
  BY <1>1, <1>3 DEF IInv, TypeOK
<1>6. TypeOK'
  BY <1>1, <1>2, <1>4, <1>5 DEF IInv, TypeOK
<1>7. ShapeOK'
  BY <1>1, <1>2 DEF IInv, ShapeOK
<1>8. LocksOK'
  BY <1>1, <1>3, <1>5 DEF LocksOK
<1>9. PendingOK'
  BY <1>1, <1>3, <1>4 DEF PendingOK
<1>10. CauseOK'
  BY <1>1, <1>2, <1>3, <1>4 DEF IInv, CauseOK, InToolPhase, Boundary, CtxDone
<1>11. ShownOK'
  BY <1>1, <1>2 DEF ShownOK, Over
<1>12. RequestOK' /\ CallOK'
  BY <1>1, <1>2, <1>3, LogIsKept
     DEF RequestOK, CallOK, Truthful, Boundary, Accepting, BeforeAnswer
<1>13. EndOK'
  <2>1. "terminal" \notin Types /\ Types' = Types
    BY <1>1, LogIsKept DEF IInv, EndOK
  <2> QED
    BY <1>2, <1>4, <2>1 DEF EndOK, StageTellsTheTruth
<1> QED
  BY <1>6, <1>7, <1>8, <1>9, <1>10, <1>11, <1>12, <1>13 DEF IInv

-----------------------------------------------------------------------------
(* The provider call.                                                      *)

LEMMA ObservedFields ==
  ASSUME IInv, NEW next, Observed(next)
  PROVE  /\ Shaped(t') /\ t'.commit = t.commit /\ t'.err = t.err /\ t'.failure = t.failure
         /\ t'.pc = next \/ (t'.pc = "classify" /\ ~Active)
<1>1. Goto(next) \/ (Goto("classify") /\ (result.kind # "none" \/ CtxDone))
  BY DEF Observed
<1>2. result.kind # "none" => cause.kind # "none" \/ pending # NoPending
  BY DEF result
<1> QED
  BY <1>1, <1>2, GotoFields, Known

LEMMA AuthorizeProviderKeeps ==
  ASSUME IInv, AuthorizeProvider
  PROVE  IInv'
<1>1. /\ t.pc = "authorize"
      /\ UNCHANGED <<stage, cause, pending, cancelled, toolDone, readers, wants, sel, heart, cb,
                     rendered, log, ran, discarded, callerDone>>
  BY DEF AuthorizeProvider, coord, locks, out
<1>2. CASE UNCHANGED life /\ \E e \in {"lease_lost", "storage"} : Fails(e)
  BY <1>1, <1>2, RequestGivesUp
<1>3. CASE Observed("streaming") /\ life' = [life EXCEPT !.closed = FALSE, !.fired = FALSE]
  <2>1. /\ Shaped(t') /\ t'.commit = t.commit /\ t'.err = t.err /\ t'.failure = t.failure
        /\ t'.pc = "streaming" \/ (t'.pc = "classify" /\ ~Active)
    BY <1>3, ObservedFields
  <2>2. Last' = Last /\ Truthful'
    BY <1>1, LogIsKept, InRequest DEF Truthful
  <2>3. RequestOK' /\ CallOK' /\ ~InToolPhase'
    BY <1>1, <2>1, <2>2, InRequest DEF RequestOK, CallOK, InToolPhase, Boundary, Over
  <2>4. QuietFrame
    BY <1>1, <2>1, InRequest, Known DEF QuietFrame, Over, Held
  <2>5. QuietLock
    BY <1>1, <2>1, <2>3, InRequest, Known DEF QuietLock, Held, Calling
  <2>6. QuietCause /\ QuietLog
    BY <1>1, <2>1, InRequest, Known DEF QuietCause, QuietLog, Over
  <2>7. life' \in LifeRows
    BY <1>3, Known DEF LifeRows
  <2>8. QuietShown
    BY <1>1, <2>7, InRequest DEF QuietShown
  <2> QED
    BY <2>3, <2>4, <2>5, <2>6, <2>8, QuietKeeps DEF QuietStep
<1> QED
  BY <1>2, <1>3 DEF AuthorizeProvider

(* During the call the turn only waits; its callbacks stream.              *)
LEMMA CallingKeeps ==
  ASSUME IInv, t.pc \in Calling, t'.pc = "joining", Shaped(t'),
         t'.err \in {"none", "provider_error"}, t'.failure = t.failure,
         life' \in LifeRows, life'.fired = life.fired,
         UNCHANGED <<stage, cause, pending, cancelled, toolDone, readers, wants, sel, heart, cb,
                     rendered, log, ran, discarded, callerDone>>
  PROVE  IInv'
<1>1. RequestOK' /\ CallOK' /\ ~InToolPhase' /\ ~InToolPhase
  BY Known, LogIsKept DEF RequestOK, CallOK, InToolPhase, Boundary, Over, Calling
<1>2. QuietFrame
  BY Known DEF QuietFrame, Calling
<1>3. QuietLock
  BY <1>1, Known DEF QuietLock, Held, Calling
<1>4. QuietCause /\ QuietShown /\ QuietLog
  BY Known DEF QuietCause, QuietShown, QuietLog, Calling, Boundary
<1> QED
  BY <1>1, <1>2, <1>3, <1>4, QuietKeeps DEF QuietStep

LEMMA StreamEndsKeeps ==
  ASSUME IInv, StreamEnds
  PROVE  IInv'
<1>1. /\ t.pc = "streaming"
      /\ UNCHANGED <<stage, cause, pending, cancelled, toolDone, readers, wants, sel, heart, cb,
                     life, rendered, log, ran, discarded, callerDone>>
  BY DEF StreamEnds, coord, locks, stream, out
<1>2. PICK e \in {"none", "provider_error"} : t' = [t EXCEPT !.pc = "joining", !.err = e]
  BY DEF StreamEnds
<1> QED
  BY <1>1, <1>2, ErrFields, CallingKeeps, Known DEF Calling

LEMMA JoinCallbacksKeeps ==
  ASSUME IInv, JoinCallbacks
  PROVE  IInv'
<1>1. /\ t.pc = "joining" /\ t' = t
      /\ UNCHANGED <<stage, cause, pending, cancelled, toolDone, readers, wants, sel, heart, cb,
                     rendered, log, ran, discarded, callerDone>>
  BY DEF JoinCallbacks, coord, locks, out, env
<1>2. life' \in LifeRows /\ life'.fired = life.fired
  BY Known DEF JoinCallbacks, LifeRows
<1> QED
  BY <1>1, <1>2, CallingKeeps, Known DEF Calling, Over

(* The response and the answer: the callbacks are out.                     *)
LEMMA InAnswer ==
  ASSUME IInv, t.pc \in {"joining", "answer"}
  PROVE  /\ stage \in BeforeAnswer /\ Last \notin Accepting /\ ~ran /\ Truthful
         /\ ~InToolPhase /\ readers \ {T} = readers
         /\ t.pc \notin Over \cup Held \cup {"abort", "handoff", "finish", "selecting"}
         /\ t.err \in {"none", "provider_error"}
BY Known, TruthfulInside DEF RequestOK, InToolPhase, Boundary, Over, Held

LEMMA ResponseKeeps ==
  ASSUME IInv, Response
  PROVE  IInv'
<1>1. /\ t.pc = "joining" /\ \A c \in Callbacks : cb[c] = "out"
      /\ UNCHANGED <<stage, cause, cancelled, toolDone, readers, wants, heart, cb, life,
                     rendered, log, ran, discarded, callerDone>>
  BY DEF Response, locks, stream, out
<1>2. /\ Last' = Last /\ stage \in Stages
      /\ readers' = readers \ {T} /\ Truthful'
  BY <1>1, LogIsKept, InAnswer, Known DEF Truthful
<1>3. ASSUME UNCHANGED <<pending, sel>>, Shaped(t'), t'.err = t.err, t'.failure = t.failure,
             t'.pc = "answer" \/ (t'.pc \in {"authorize", "compose"} /\ rendered # "shown")
      PROVE  IInv'
  <2>1. RequestOK' /\ CallOK' /\ ~InToolPhase'
    BY <1>1, <1>2, <1>3, InAnswer DEF RequestOK, CallOK, InToolPhase, Boundary, Over
  <2> QED
    BY <1>1, <1>2, <1>3, <2>1, InAnswer, MovesOn DEF Over, Held, Boundary
<1>4. ASSUME UNCHANGED <<pending, sel>>, Shaped(t'), t'.err = t.err, t'.failure = t.failure,
             t'.pc = "classify", t.err # "none" \/ ~Active
      PROVE  IInv'
  BY <1>1, <1>2, <1>4, InAnswer, GivesUp, Known
<1>5. ASSUME NEW k \in {"provider_invalid", "provider_error", "step_limit", "context_overflow"},
             k = "context_overflow" => rendered # "shown",
             StartSelect(T, k), Goto("selecting")
      PROVE  IInv'
  <2>1. Shaped(t') /\ t'.pc = "selecting" /\ t'.err = t.err /\ t'.failure = t.failure
    BY <1>5, GotoFields, Known
  <2>2. k \in Kinds \ {"none"} /\ (rendered = "shown" => discardReason(k))
    BY <1>5 DEF Kinds, discardReason
  <2> QED
    BY <1>1, <1>2, <1>5, <2>1, <2>2, InAnswer, SelectsCause DEF Over
<1>6. CASE t.err = "none"
  <2>1. \/ Observed("answer") /\ UNCHANGED <<pending, sel>>
        \/ /\ \E k \in {"provider_invalid", "provider_error", "step_limit"} : StartSelect(T, k)
           /\ Goto("selecting")
    BY <1>6 DEF Response
  <2> QED
    BY <1>3, <1>4, <1>5, <2>1, ObservedFields
<1>7. CASE t.err # "none"
  <2>1. \/ Goto("classify") /\ UNCHANGED <<pending, sel>>
        \/ ~life.fired /\ Goto("authorize") /\ UNCHANGED <<pending, sel>>
        \/ /\ ~life.fired /\ t' = [t EXCEPT !.pc = "compose", !.retry = "now"]
           /\ UNCHANGED <<pending, sel>>
        \/ ~life.fired /\ StartSelect(T, "context_overflow") /\ Goto("selecting")
    BY <1>7 DEF Response
  <2>2. ~life.fired => rendered # "shown"
    BY Known
  <2>3. CASE Goto("classify") /\ UNCHANGED <<pending, sel>>
    BY <1>4, <1>7, <2>3, GotoFields, Known
  <2>4. CASE ~life.fired /\ Goto("authorize") /\ UNCHANGED <<pending, sel>>
    BY <1>3, <2>2, <2>4, GotoFields, Known
  <2>5. CASE /\ ~life.fired /\ t' = [t EXCEPT !.pc = "compose", !.retry = "now"]
             /\ UNCHANGED <<pending, sel>>
    <3>1. Shaped(t') /\ t'.err = t.err /\ t'.failure = t.failure /\ t'.pc = "compose"
      BY <2>5, Known DEF Shaped, TurnFields
    <3> QED
      BY <1>3, <2>2, <2>5, <3>1
  <2>6. CASE ~life.fired /\ StartSelect(T, "context_overflow") /\ Goto("selecting")
    BY <1>5, <2>2, <2>6
  <2> QED
    BY <2>1, <2>3, <2>4, <2>5, <2>6
<1> QED
  BY <1>6, <1>7

LEMMA CommitAnswerKeeps ==
  ASSUME IInv, CommitAnswer
  PROVE  IInv'
<1>1. /\ t.pc = "answer"
      /\ UNCHANGED <<cause, pending, cancelled, toolDone, readers, wants, sel, heart, cb, life,
                     rendered, log, ran, discarded, callerDone>>
  BY DEF CommitAnswer, locks, stream, out, env
<1>2. Last' = Last /\ readers' = readers \ {T} /\ \A c \in Callbacks : cb[c] = "out"
  BY <1>1, LogIsKept, InAnswer, Known DEF Calling
<1>3. CASE Active
  <2>1. /\ stage' = "assistant_commit"
        /\ \/ t' = [t EXCEPT !.pc = "begin", !.commit = "final"]
           \/ \E n \in 1..MaxCalls :
                t' = [t EXCEPT !.pc = "begin", !.commit = "tools", !.calls = n,
                               !.responses = t.responses + 1,
                               !.retry = IF t.retry = "now" THEN "used" ELSE t.retry]
    BY <1>3 DEF CommitAnswer
  <2>2. /\ Shaped(t') /\ t'.pc = "begin" /\ t'.commit \in {"final", "tools"} /\ t'.err = t.err
        /\ t'.failure = t.failure
    BY <2>1, Known DEF Shaped, TurnFields
  <2>3. RequestOK' /\ CallOK' /\ ~InToolPhase'
    BY <1>1, <1>2, <2>1, <2>2, InAnswer
       DEF RequestOK, CallOK, InToolPhase, Boundary, Over, Commits, BeforeAnswer
  <2> QED
    BY <1>1, <1>2, <1>3, <2>1, <2>2, <2>3, InAnswer, MovesOn, Known
       DEF Over, Held, Boundary, Stages
<1>4. CASE ~Active
  <2>1. Goto("classify") /\ UNCHANGED stage
    BY <1>4 DEF CommitAnswer
  <2>2. Shaped(t') /\ t'.pc = "classify" /\ t'.err = t.err /\ t'.failure = t.failure
    BY <2>1, GotoFields, Known
  <2> QED
    BY <1>1, <1>2, <1>4, <2>1, <2>2, InAnswer, GivesUp, Known
<1> QED
  BY <1>3, <1>4

-----------------------------------------------------------------------------
(* A tool call.                                                            *)

Phase == {"authprep", "preparing", "approval", "ask", "asking", "decided", "authexec", "execute",
          "handoff", "abort"}
CallPoints == Phase \cup {"accepted", "prepare", "intent", "showcall", "showing", "toolphase",
                          "outcome", "showresult", "shown", "next"}

LEMMA InCall ==
  ASSUME IInv, t.pc \in CallPoints
  PROVE  /\ rendered # "shown" /\ \A c \in Callbacks : cb[c] = "out"
         /\ t.pc \notin Over \cup Calling \cup Boundary \cup {"finish"}
         /\ T \in readers <=> t.pc \in Held
         /\ T \in readers => cause.kind = "none"
         /\ t.pc # "handoff" => Truthful
         /\ InToolPhase <=> t.pc \in Phase
         /\ toolDone <=> t.pc \in Phase
<1>1. t.pc \notin Over \cup Calling \cup Boundary \cup {"finish", "answer"}
  BY DEF CallPoints, Phase, Over, Calling, Boundary
<1>2. InToolPhase <=> t.pc \in Phase
  BY <1>1 DEF InToolPhase, Phase
<1>3. t.pc # "handoff" => Truthful
  BY <1>1, TruthfulInside, Known DEF CallPoints, Phase, Over
<1> QED
  BY <1>1, <1>2, <1>3, Known

(* The turn goes on to another point of the call.                          *)
LEMMA CallGoesOn ==
  ASSUME IInv, t.pc \in CallPoints \ {"abort"},
         UNCHANGED <<cause, pending, cancelled, wants, sel, heart, cb, life, rendered, log,
                     discarded, callerDone>>,
         stage' \in Stages, cause.kind # "none" => stage' = stage,
         Shaped(t'), t'.err = t.err, t'.failure = t.failure,
         t'.pc \in CallPoints \cup {"begin", "compose"}, t'.pc # "abort",
         readers' = IF t'.pc \in Held THEN readers \cup {T} ELSE readers \ {T},
         t'.pc \in Held => cause.kind = "none",
         toolDone' <=> InToolPhase', toolDone' => toolDone \/ Active,
         RequestOK', CallOK'
  PROVE  IInv'
<1>1. t'.pc \notin Over \cup {"abort", "uncompacted"}
  BY DEF CallPoints, Phase, Over
<1>2. QuietLog
  BY DEF QuietLog
<1> QED
  BY <1>1, <1>2, InCall, Known, Crosses

LEMMA AbortsFields ==
  ASSUME Shaped(t), NEW e, Aborts(e)
  PROVE  /\ Shaped(t') /\ t'.pc = "abort" /\ t'.err = e
         /\ t'.commit = t.commit /\ t'.failure = t.failure
BY ErrFields DEF Aborts

(* It gives the call up.                                                   *)
LEMMA CallGivesUp ==
  ASSUME IInv, t.pc \in CallPoints \ {"handoff", "abort"},
         UNCHANGED <<stage, cause, pending, cancelled, toolDone, wants, sel, heart, cb, life,
                     rendered, log, ran, discarded, callerDone>>,
         readers' = readers \ {T},
         \/ Goto("classify") /\ ~Active /\ t.pc \notin Phase
         \/ t.pc \in Phase /\ \E e \in {"lease_lost", "storage"} : Aborts(e)
  PROVE  IInv'
<1>1. /\ Shaped(t') /\ t'.failure = t.failure
      /\ \/ t'.pc = "classify" /\ t'.err = t.err /\ ~Active /\ t.pc \notin Phase
         \/ t'.pc = "abort" /\ t'.err \in {"lease_lost", "storage"} /\ t.pc \in Phase
  BY GotoFields, AbortsFields, Known
<1> QED
  BY <1>1, InCall, GivesUp, Known

LEMMA AcceptedKeeps ==
  ASSUME IInv, Accepted
  PROVE  IInv'
<1>1. /\ t.pc = "accepted" /\ Observed("prepare")
      /\ UNCHANGED <<stage, cause, pending, cancelled, toolDone, readers, wants, sel, heart, cb,
                     life, rendered, log, ran, discarded, callerDone>>
  BY DEF Accepted, coord, locks, stream, out, env
<1>2. /\ readers' = readers \ {T} /\ t.pc \in CallPoints /\ t.pc \notin Phase /\ Last' = Last
      /\ T \notin readers
  BY <1>1, InCall, LogIsKept DEF CallPoints, Phase, Held
<1>3. CASE t'.pc = "prepare"
  <2>1. RequestOK' /\ CallOK' /\ ~InToolPhase'
    BY <1>1, <1>2, <1>3, Known DEF RequestOK, CallOK, InToolPhase, Boundary, Over
  <2> QED
    BY <1>1, <1>2, <1>3, <2>1, ObservedFields, InCall, CallGoesOn, Known
       DEF CallPoints, Phase, Held
<1>4. CASE t'.pc = "classify" /\ ~Active
  BY <1>1, <1>2, <1>4, ObservedFields, InCall, GivesUp, Known DEF Phase
<1> QED
  BY <1>1, <1>3, <1>4, ObservedFields

LEMMA PrepareCallKeeps ==
  ASSUME IInv, PrepareCall
  PROVE  IInv'
<1>1. /\ t.pc = "prepare"
      /\ UNCHANGED <<cause, pending, cancelled, toolDone, readers, wants, sel, heart, cb,
                     life, rendered, log, ran, discarded, callerDone>>
  BY DEF PrepareCall, locks, stream, out, env
<1>2. /\ readers' = readers \ {T} /\ t.pc \in CallPoints /\ t.pc \notin Phase /\ Last' = Last
      /\ T \notin readers /\ ~ran
  BY <1>1, InCall, LogIsKept, Known DEF CallPoints, Phase, Held, CallOK
<1>3. CASE Active
  <2>1. stage' = "tool_prepare" /\ Goto("intent")
    BY <1>3 DEF PrepareCall
  <2>2. Shaped(t') /\ t'.pc = "intent" /\ t'.err = t.err /\ t'.failure = t.failure
    BY <2>1, GotoFields, Known
  <2>3. RequestOK' /\ CallOK' /\ ~InToolPhase'
    BY <1>1, <1>2, <2>1, <2>2 DEF RequestOK, CallOK, InToolPhase, Boundary, Over
  <2> QED
    BY <1>1, <1>2, <1>3, <2>1, <2>2, <2>3, InCall, CallGoesOn, Known
       DEF CallPoints, Phase, Held, Stages
<1>4. CASE ~Active
  <2>1. UNCHANGED stage /\ Goto("classify")
    BY <1>4 DEF PrepareCall
  <2> QED
    BY <1>1, <1>2, <1>4, <2>1, CallGivesUp DEF Phase
<1> QED
  BY <1>3, <1>4

(* emitIfActive, for the call and for its result.                          *)
LEMMA EmitStartsKeeps ==
  ASSUME IInv, NEW from, NEW to, EmitStarts(from, to),
         from \in {"showcall", "showresult"},
         to = IF from = "showcall" THEN "showing" ELSE "shown"
  PROVE  IInv'
<1>1. /\ t.pc = from
      /\ UNCHANGED <<stage, cause, pending, cancelled, toolDone, wants, sel, heart, cb,
                     life, rendered, log, ran, discarded, callerDone>>
  BY DEF EmitStarts, coord, stream, out, env
<1>2. /\ t.pc \in CallPoints /\ t.pc \notin Phase /\ Last' = Last
      /\ T \notin readers
  BY <1>1, InCall, LogIsKept, Known DEF CallPoints, Phase, Held
<1>3. CASE Active
  <2>1. readers' = readers \cup {T} /\ Goto(to)
    BY <1>3 DEF EmitStarts
  <2>2. Shaped(t') /\ t'.pc = to /\ t'.err = t.err /\ t'.failure = t.failure
    BY <2>1, GotoFields, Known
  <2>3. RequestOK' /\ CallOK' /\ ~InToolPhase'
    BY <1>1, <1>2, <2>2, Known DEF RequestOK, CallOK, InToolPhase, Boundary, Over
  <2>4. t'.pc \in CallPoints \ {"abort"} /\ t'.pc \in Held
    BY <2>2 DEF CallPoints, Phase, Held
  <2> QED
    BY <1>1, <1>2, <1>3, <2>1, <2>2, <2>3, <2>4, InCall, CallGoesOn, Known DEF Phase
<1>4. CASE ~Active
  <2>1. UNCHANGED readers /\ Goto("classify")
    BY <1>4 DEF EmitStarts
  <2> QED
    BY <1>1, <1>2, <1>4, <2>1, CallGivesUp DEF Phase
<1> QED
  BY <1>3, <1>4

LEMMA CallShownKeeps ==
  ASSUME IInv, CallShown
  PROVE  IInv'
<1>1. /\ t.pc = "showing" /\ readers' = readers \ {T} /\ Goto("toolphase")
      /\ UNCHANGED <<stage, cause, pending, cancelled, toolDone, wants, sel, heart, cb,
                     life, rendered, log, ran, discarded, callerDone>>
  BY DEF CallShown, coord, stream, out, env
<1>2. t.pc \in CallPoints /\ t.pc \notin Phase /\ Last' = Last
  BY <1>1, LogIsKept DEF CallPoints, Phase
<1>3. Shaped(t') /\ t'.pc = "toolphase" /\ t'.err = t.err /\ t'.failure = t.failure
  BY <1>1, GotoFields, Known
<1>4. RequestOK' /\ CallOK' /\ ~InToolPhase'
  BY <1>1, <1>2, <1>3, Known DEF RequestOK, CallOK, InToolPhase, Boundary, Over
<1> QED
  BY <1>1, <1>2, <1>3, <1>4, InCall, CallGoesOn, Known DEF CallPoints, Phase, Held

LEMMA beginToolPhaseKeeps ==
  ASSUME IInv, beginToolPhase
  PROVE  IInv'
<1>1. /\ t.pc = "toolphase"
      /\ UNCHANGED <<stage, cause, pending, cancelled, readers, wants, sel, heart, cb,
                     life, rendered, log, ran, discarded, callerDone>>
  BY DEF beginToolPhase, locks, stream, out, env
<1>2. /\ readers' = readers \ {T} /\ t.pc \in CallPoints /\ t.pc \notin Phase /\ Last' = Last
  BY <1>1, InCall, LogIsKept DEF CallPoints, Phase, Held
<1>3. CASE Active
  <2>1. PICK pc \in {"authprep", "authexec", "handoff"} :
          toolDone' = TRUE /\ t' = [t EXCEPT !.pc = pc, !.approved = FALSE]
    BY <1>3 DEF beginToolPhase
  <2>2. Shaped(t') /\ t'.pc = pc /\ t'.err = t.err /\ t'.failure = t.failure
    BY <2>1, Known DEF Shaped, TurnFields
  <2>3. RequestOK' /\ CallOK' /\ InToolPhase'
    BY <1>1, <1>2, <2>2, Known DEF RequestOK, CallOK, InToolPhase, Boundary, Over
  <2>4. t'.pc \in CallPoints \ {"abort"} /\ t'.pc \notin Held
    BY <2>2 DEF CallPoints, Phase, Held
  <2> QED
    BY <1>1, <1>2, <1>3, <2>1, <2>2, <2>3, <2>4, InCall, CallGoesOn, Known
<1>4. CASE ~Active
  <2>1. UNCHANGED toolDone /\ Goto("classify")
    BY <1>4 DEF beginToolPhase
  <2> QED
    BY <1>1, <1>2, <1>4, <2>1, CallGivesUp DEF Phase
<1> QED
  BY <1>3, <1>4

(* A lifecycle callback of the tool phase.                                 *)
LEMMA AuthorizeKeeps ==
  ASSUME IInv, NEW from, NEW new, NEW next, Authorize(from, new, next),
         \/ from = "authprep" /\ new = "tool_prepare" /\ next = "preparing"
         \/ from = "authexec" /\ new = "tool_execute" /\ next = "execute"
  PROVE  IInv'
<1>1. /\ t.pc = from
      /\ UNCHANGED <<cause, pending, cancelled, toolDone, readers, wants, sel, heart, cb, life,
                     rendered, log, ran, discarded, callerDone>>
  BY DEF Authorize, locks, stream, out
<1>2. /\ t.pc \in CallPoints \ {"handoff", "abort"} /\ t.pc \in Phase /\ Last' = Last
      /\ readers' = readers \ {T} /\ ~ran /\ Last \in {"intent", "approval"}
  BY <1>1, InCall, LogIsKept, Known DEF CallPoints, Phase, Held, CallOK
<1>3. CASE Active /\ stage' = new /\ Goto(next)
  <2>1. Shaped(t') /\ t'.pc = next /\ t'.err = t.err /\ t'.failure = t.failure
    BY <1>3, GotoFields, Known
  <2>2. RequestOK' /\ CallOK' /\ InToolPhase'
    BY <1>1, <1>2, <1>3, <2>1, Known DEF RequestOK, CallOK, InToolPhase, Boundary, Over
  <2>3. t'.pc \in CallPoints \ {"abort"} /\ t'.pc \notin Held /\ stage' \in Stages
    BY <1>3, <2>1 DEF CallPoints, Phase, Held, Stages
  <2> QED
    BY <1>1, <1>2, <1>3, <2>1, <2>2, <2>3, InCall, CallGoesOn, Known
<1>4. ASSUME NEW e \in {"lease_lost", "storage"}, Active, stage' = new, Aborts(e)
      PROVE  IInv'
  <2>1. Shaped(t') /\ t'.pc = "abort" /\ t'.err = e /\ t'.failure = t.failure
    BY <1>4, AbortsFields, Known
  <2>2. Truthful' /\ stage' \in Stages
    BY <1>1, <1>2, <1>4 DEF Truthful, Stages, BeforeAnswer
  <2> QED
    BY <1>1, <1>2, <1>4, <2>1, <2>2, InCall, GivesUpAt, Known
<1>5. CASE UNCHANGED stage /\ Aborts("storage")
  BY <1>1, <1>2, <1>5, CallGivesUp
<1> QED
  BY <1>3, <1>4, <1>5 DEF Authorize

LEMMA PrepareToolKeeps ==
  ASSUME IInv, PrepareTool
  PROVE  IInv'
<1>1. /\ t.pc = "preparing"
      /\ UNCHANGED <<stage, cause, pending, cancelled, toolDone, readers, wants, sel, heart, cb,
                     life, rendered, log, ran, discarded, callerDone>>
  BY DEF PrepareTool, coord, locks, stream, out, env
<1>2. /\ t.pc \in CallPoints \ {"handoff", "abort"} /\ t.pc \in Phase /\ Last' = Last
      /\ readers' = readers \ {T} /\ ~ran /\ Last = "intent" /\ stage = "tool_prepare"
  BY <1>1, InCall, LogIsKept, Known DEF CallPoints, Phase, Held, CallOK
<1>3. CASE Aborts("storage")
  BY <1>1, <1>2, <1>3, CallGivesUp
<1>4. ASSUME NEW pc \in {"approval", "authexec", "handoff"}, Goto(pc)
      PROVE  IInv'
  <2>1. Shaped(t') /\ t'.pc = pc /\ t'.err = t.err /\ t'.failure = t.failure
    BY <1>4, GotoFields, Known
  <2>2. RequestOK' /\ CallOK' /\ InToolPhase'
    BY <1>1, <1>2, <2>1 DEF RequestOK, CallOK, InToolPhase, Boundary, Over
  <2>3. t'.pc \in CallPoints \ {"abort"} /\ t'.pc \notin Held
    BY <2>1 DEF CallPoints, Phase, Held
  <2> QED
    BY <1>1, <1>2, <2>1, <2>2, <2>3, InCall, CallGoesOn, Known
<1> QED
  BY <1>3, <1>4 DEF PrepareTool

LEMMA StartApprovalKeeps ==
  ASSUME IInv, StartApproval
  PROVE  IInv'
<1>1. /\ t.pc = "approval"
      /\ UNCHANGED <<cause, pending, cancelled, toolDone, readers, wants, sel, heart, cb, life,
                     rendered, log, ran, discarded, callerDone>>
  BY DEF StartApproval, locks, stream, out, env
<1>2. /\ t.pc \in CallPoints \ {"handoff", "abort"} /\ t.pc \in Phase /\ Last' = Last
      /\ readers' = readers \ {T} /\ ~ran /\ Last = "intent"
  BY <1>1, InCall, LogIsKept, Known DEF CallPoints, Phase, Held, CallOK
<1>3. CASE Active /\ stage' = "tool_approval" /\ Goto("ask")
  <2>1. Shaped(t') /\ t'.pc = "ask" /\ t'.err = t.err /\ t'.failure = t.failure
    BY <1>3, GotoFields, Known
  <2>2. RequestOK' /\ CallOK' /\ InToolPhase'
    BY <1>1, <1>2, <1>3, <2>1 DEF RequestOK, CallOK, InToolPhase, Boundary, Over
  <2>3. t'.pc \in CallPoints \ {"abort"} /\ t'.pc \notin Held /\ stage' \in Stages
    BY <1>3, <2>1 DEF CallPoints, Phase, Held, Stages
  <2> QED
    BY <1>1, <1>2, <1>3, <2>1, <2>2, <2>3, InCall, CallGoesOn, Known
<1>4. CASE UNCHANGED stage /\ Aborts("storage")
  BY <1>1, <1>2, <1>4, CallGivesUp
<1> QED
  BY <1>3, <1>4 DEF StartApproval

LEMMA AskOwnerKeeps ==
  ASSUME IInv, AskOwner
  PROVE  IInv'
<1>1. /\ t.pc = "ask"
      /\ UNCHANGED <<stage, cause, pending, cancelled, toolDone, wants, sel, heart, cb, life,
                     rendered, log, ran, discarded, callerDone>>
  BY DEF AskOwner, coord, stream, out, env
<1>2. /\ t.pc \in CallPoints \ {"handoff", "abort"} /\ t.pc \in Phase /\ Last' = Last
      /\ T \notin readers
  BY <1>1, InCall, LogIsKept DEF CallPoints, Phase, Held
<1>3. CASE Active /\ readers' = readers \cup {T} /\ Goto("asking")
  <2>1. Shaped(t') /\ t'.pc = "asking" /\ t'.err = t.err /\ t'.failure = t.failure
    BY <1>3, GotoFields, Known
  <2>2. RequestOK' /\ CallOK' /\ InToolPhase'
    BY <1>1, <1>2, <2>1, Known DEF RequestOK, CallOK, InToolPhase, Boundary, Over
  <2>3. t'.pc \in CallPoints \ {"abort"} /\ t'.pc \in Held
    BY <2>1 DEF CallPoints, Phase, Held
  <2> QED
    BY <1>1, <1>2, <1>3, <2>1, <2>2, <2>3, InCall, CallGoesOn, Known
<1>4. CASE UNCHANGED readers /\ Aborts("storage")
  BY <1>1, <1>2, <1>4, CallGivesUp
<1> QED
  BY <1>3, <1>4 DEF AskOwner

LEMMA OwnerDecidesKeeps ==
  ASSUME IInv, OwnerDecides
  PROVE  IInv'
<1>1. /\ t.pc = "asking" /\ readers' = readers \ {T}
      /\ UNCHANGED <<stage, cause, pending, cancelled, toolDone, wants, sel, heart, cb, life,
                     rendered, log, ran, discarded, callerDone>>
  BY DEF OwnerDecides, coord, stream, out, env
<1>2. /\ t.pc \in CallPoints \ {"handoff", "abort"} /\ t.pc \in Phase /\ Last' = Last
      /\ ~ran /\ Last = "intent" /\ stage = "tool_approval"
  BY <1>1, InCall, LogIsKept, Known DEF CallPoints, Phase, CallOK
<1>3. CASE Aborts("storage")
  BY <1>1, <1>2, <1>3, CallGivesUp
<1>4. ASSUME NEW yes \in BOOLEAN,
             t' = [t EXCEPT !.pc = "begin", !.commit = "approval", !.approved = yes]
      PROVE  IInv'
  <2>1. /\ Shaped(t') /\ t'.pc = "begin" /\ t'.commit = "approval" /\ t'.err = t.err
        /\ t'.failure = t.failure
    BY <1>4, Known DEF Shaped, TurnFields
  <2>2. RequestOK' /\ CallOK' /\ InToolPhase'
    BY <1>1, <1>2, <2>1 DEF RequestOK, CallOK, InToolPhase, Boundary, Over, Commits
  <2> QED
    BY <1>1, <1>2, <2>1, <2>2, InCall, CallGoesOn, Known DEF Held
<1> QED
  BY <1>3, <1>4 DEF OwnerDecides

LEMMA DecidedKeeps ==
  ASSUME IInv, Decided
  PROVE  IInv'
<1>1. /\ t.pc = "decided"
      /\ UNCHANGED <<stage, cause, pending, cancelled, toolDone, readers, wants, sel, heart, cb,
                     life, rendered, log, ran, discarded, callerDone>>
  BY DEF Decided, coord, locks, stream, out, env
<1>2. /\ t.pc \in CallPoints \ {"handoff", "abort"} /\ t.pc \in Phase /\ Last' = Last
      /\ readers' = readers \ {T}
  BY <1>1, InCall, LogIsKept DEF CallPoints, Phase, Held
<1>3. CASE Aborts("storage")
  BY <1>1, <1>2, <1>3, CallGivesUp
<1>4. ASSUME NEW pc \in {"authexec", "handoff"}, Goto(pc)
      PROVE  IInv'
  <2>1. Shaped(t') /\ t'.pc = pc /\ t'.err = t.err /\ t'.failure = t.failure
    BY <1>4, GotoFields, Known
  <2>2. RequestOK' /\ CallOK' /\ InToolPhase'
    BY <1>1, <1>2, <2>1, Known DEF RequestOK, CallOK, InToolPhase, Boundary, Over
  <2>3. t'.pc \in CallPoints \ {"abort"} /\ t'.pc \notin Held
    BY <2>1 DEF CallPoints, Phase, Held
  <2> QED
    BY <1>1, <1>2, <2>1, <2>2, <2>3, InCall, CallGoesOn, Known
<1>5. Aborts("storage") \/ \E pc \in {"authexec", "handoff"} : Goto(pc)
  BY DEF Decided
<1> QED
  BY <1>3, <1>4, <1>5

LEMMA ExecuteKeeps ==
  ASSUME IInv, Execute
  PROVE  IInv'
<1>1. /\ t.pc = "execute"
      /\ UNCHANGED <<stage, cause, pending, cancelled, toolDone, readers, wants, sel, heart, cb,
                     life, rendered, log, discarded, callerDone>>
  BY DEF Execute, coord, locks, stream, env
<1>2. /\ t.pc \in CallPoints \ {"handoff", "abort"} /\ t.pc \in Phase
      /\ readers' = readers \ {T}
  BY <1>1, InCall DEF CallPoints, Phase, Held
<1>3. CASE Goto("handoff")
  <2>1. Shaped(t') /\ t'.pc = "handoff" /\ t'.err = t.err /\ t'.failure = t.failure
    BY <1>3, GotoFields, Known
  <2>2. RequestOK' /\ CallOK' /\ InToolPhase'
    BY <2>1 DEF RequestOK, CallOK, InToolPhase, Boundary, Over
  <2>3. t'.pc \in CallPoints \ {"abort"} /\ t'.pc \notin Held
    BY <2>1 DEF CallPoints, Phase, Held
  <2> QED
    BY <1>1, <1>2, <2>1, <2>2, <2>3, InCall, CallGoesOn, Known
<1>4. CASE Aborts("storage") /\ UNCHANGED ran
  BY <1>1, <1>2, <1>4, CallGivesUp
<1> QED
  BY <1>3, <1>4 DEF Execute

LEMMA completeToolPhaseKeeps ==
  ASSUME IInv, completeToolPhase
  PROVE  IInv'
<1>1. /\ t.pc = "handoff" /\ toolDone' = FALSE /\ Goto("outcome")
      /\ stage' = IF cause.kind = "none" THEN "tool_commit" ELSE stage
      /\ UNCHANGED <<cause, pending, cancelled, readers, wants, sel, heart, cb,
                     life, rendered, log, ran, discarded, callerDone>>
  BY DEF completeToolPhase, locks, stream, out, env
<1>2. /\ t.pc \in CallPoints \ {"abort"} /\ readers' = readers \ {T} /\ toolDone
  BY <1>1, InCall DEF CallPoints, Phase, Held
<1>3. stage' = "tool_commit"
  BY <1>1, <1>2, Known
<1>4. Shaped(t') /\ t'.pc = "outcome" /\ t'.err = t.err /\ t'.failure = t.failure
  BY <1>1, GotoFields, Known
<1>5. RequestOK' /\ CallOK' /\ ~InToolPhase'
  BY <1>3, <1>4 DEF RequestOK, CallOK, InToolPhase, Boundary, Over
<1>6. t'.pc \in CallPoints \ {"abort"} /\ t'.pc \notin Held /\ stage' \in Stages
  BY <1>3, <1>4 DEF CallPoints, Phase, Held, Stages
<1> QED
  BY <1>1, <1>2, <1>4, <1>5, <1>6, CallGoesOn, Known

LEMMA abortToolPhaseKeeps ==
  ASSUME IInv, abortToolPhase
  PROVE  IInv'
<1>1. /\ t.pc = "abort" /\ toolDone' = FALSE /\ Goto("classify")
      /\ UNCHANGED <<stage, cause, pending, cancelled, readers, wants, sel, heart, cb,
                     life, rendered, log, ran, discarded, callerDone>>
  BY DEF abortToolPhase, locks, stream, out, env
<1>2. t.pc \in CallPoints /\ readers' = readers \ {T}
  BY <1>1, InCall DEF CallPoints, Phase, Held
<1>3. Shaped(t') /\ t'.pc = "classify" /\ t'.err = t.err /\ t'.failure = t.failure
  BY <1>1, GotoFields, Known
<1>4. t.err # "none" \/ ~Active
  BY <1>1 DEF IInv, CauseOK
<1> QED
  BY <1>1, <1>2, <1>3, <1>4, InCall, GivesUp, Known

LEMMA ResultShownKeeps ==
  ASSUME IInv, ResultShown
  PROVE  IInv'
<1>1. /\ t.pc = "shown" /\ readers' = readers \ {T} /\ Goto("next")
      /\ stage' = IF t.calls > 1 /\ cause.kind = "none" THEN "tool_prepare" ELSE stage
      /\ UNCHANGED <<cause, pending, cancelled, toolDone, wants, sel, heart, cb,
                     life, rendered, log, ran, discarded, callerDone>>
  BY DEF ResultShown, stream, out, env
<1>2. /\ t.pc \in CallPoints \ {"abort"} /\ t.pc \notin Phase /\ Last' = Last
      /\ stage \in {"tool_prepare", "tool_commit"} /\ Last \notin Accepting /\ ~ran
  BY <1>1, LogIsKept, Known DEF CallPoints, Phase, CallOK
<1>3. Shaped(t') /\ t'.pc = "next" /\ t'.err = t.err /\ t'.failure = t.failure
  BY <1>1, GotoFields, Known
<1>4. /\ stage' \in {"tool_prepare", "tool_commit"} /\ stage' \in Stages
      /\ cause.kind # "none" => stage' = stage
  BY <1>1, <1>2 DEF Stages
<1>5. RequestOK' /\ CallOK' /\ ~InToolPhase'
  BY <1>1, <1>2, <1>3, <1>4 DEF RequestOK, CallOK, InToolPhase, Boundary, Over
<1>6. t'.pc \in CallPoints \ {"abort"} /\ t'.pc \notin Held
  BY <1>3 DEF CallPoints, Phase, Held
<1> QED
  BY <1>1, <1>2, <1>3, <1>4, <1>5, <1>6, InCall, CallGoesOn, Known

LEMMA NextCallKeeps ==
  ASSUME IInv, NextCall
  PROVE  IInv'
<1>1. /\ t.pc = "next"
      /\ UNCHANGED <<stage, cause, pending, cancelled, toolDone, readers, wants, sel, heart, cb,
                     life, rendered, log, ran, discarded, callerDone>>
  BY DEF NextCall, coord, locks, stream, out, env
<1>2. /\ t.pc \in CallPoints \ {"handoff", "abort"} /\ t.pc \notin Phase /\ Last' = Last
      /\ readers' = readers \ {T}
      /\ stage \in {"tool_prepare", "tool_commit"} /\ Last \notin Accepting /\ ~ran
  BY <1>1, InCall, LogIsKept, Known DEF CallPoints, Phase, CallOK, Held
<1>3. CASE result.kind = "none" /\ ~CtxDone
  <2>1. PICK pc \in {"prepare", "compose"} : t' = [t EXCEPT !.calls = t.calls - 1, !.pc = pc]
    BY <1>3 DEF NextCall
  <2>2. Shaped(t') /\ t'.pc = pc /\ t'.err = t.err /\ t'.failure = t.failure
    BY <2>1, Known DEF Shaped, TurnFields
  <2>3. RequestOK' /\ CallOK' /\ ~InToolPhase'
    BY <1>1, <1>2, <2>2 DEF RequestOK, CallOK, InToolPhase, Boundary, Over
  <2>4. t'.pc \in (CallPoints \ {"abort"}) \cup {"compose"} /\ t'.pc \notin Held
    BY <2>2 DEF CallPoints, Phase, Held
  <2> QED
    BY <1>1, <1>2, <2>2, <2>3, <2>4, InCall, CallGoesOn, Known
<1>4. CASE ~(result.kind = "none" /\ ~CtxDone)
  <2>1. Goto("classify") /\ ~Active
    BY <1>4 DEF NextCall, Active, result
  <2> QED
    BY <1>1, <1>2, <2>1, CallGivesUp
<1> QED
  BY <1>3, <1>4

-----------------------------------------------------------------------------
(* The end of the turn.                                                    *)

LEMMA ResultFacts ==
  ASSUME IInv
  PROVE  /\ result.kind = "none" <=> cause.kind = "none" /\ pending = NoPending
         /\ result.kind = "none" => (Active <=> ~CtxDone)
         /\ cause.kind # "none" => result = cause /\ cause.stage = stage
         /\ cause.kind = "none" /\ pending # NoPending =>
              result = [kind |-> pending.kind, stage |-> stage]
<1>1. /\ pending # NoPending => pending.kind # "none"
      /\ cause.kind # "none" => pending = NoPending /\ cause.stage = stage
  BY DEF IInv, PendingOK, CauseOK
<1> QED
  BY <1>1 DEF result, Active

LEMMA ClassifyKeeps ==
  ASSUME IInv, Classify
  PROVE  IInv'
<1>1. /\ t.pc = "classify"
      /\ UNCHANGED <<stage, cause, cancelled, toolDone, readers, wants, heart, cb, life,
                     rendered, log, ran, discarded, callerDone>>
  BY DEF Classify, locks, stream, out, env
<1>2. /\ Truthful' /\ stage \in Stages /\ ~InToolPhase /\ T \notin readers
      /\ \A c \in Callbacks : cb[c] = "out"
      /\ t.pc \notin Held
      /\ t.err # "none" \/ ~Active
      /\ rendered = "shown" => t.err # "storage"
  BY <1>1, LogIsKept, Known
     DEF IInv, CauseOK, CallOK, Over, Truthful, InToolPhase, Boundary, Calling, Held
<1>3. CASE result.kind # "none"
  <2>1. Goto("ending") /\ UNCHANGED <<pending, sel>>
    BY <1>3 DEF Classify
  <2>2. Shaped(t') /\ t'.pc = "ending" /\ t'.err = t.err /\ t'.failure = t.failure
    BY <2>1, GotoFields, Known
  <2>3. RequestOK' /\ CallOK' /\ ~InToolPhase'
    BY <1>2, <2>2 DEF RequestOK, CallOK, InToolPhase, Boundary
  <2>4. QuietFrame
    BY <1>1, <2>1, <2>2, Known DEF QuietFrame
  <2>5. QuietLock
    BY <1>1, <1>2, <2>2, <2>3, Known DEF QuietLock, Held
  <2>6. QuietCause /\ QuietShown /\ QuietLog
    BY <1>1, <1>2, <1>3, <2>1, <2>2, ResultFacts, Known DEF QuietCause, QuietShown, QuietLog, Boundary
  <2> QED
    BY <2>3, <2>4, <2>5, <2>6, QuietKeeps DEF QuietStep
<1>4. CASE result.kind = "none"
  <2>1. /\ Goto("selecting")
        /\ \E k \in {"caller_cancelled", t.err} :
             StartSelect(T, k) /\ (k = t.err /\ CtxDone => k \in {"lease_lost", "caller_cancelled"})
    BY <1>4 DEF Classify
  <2>2. PICK k \in {"caller_cancelled", t.err} :
             StartSelect(T, k) /\ (k = t.err /\ CtxDone => k \in {"lease_lost", "caller_cancelled"})
    BY <2>1
  <2>3. Shaped(t') /\ t'.pc = "selecting" /\ t'.err = t.err /\ t'.failure = t.failure
    BY <2>1, GotoFields, Known
  <2>4. k \in Kinds \ {"none"}
    BY <1>2, <1>4, <2>2, ResultFacts, Known DEF Kinds
  <2>5. rendered = "shown" => discardReason(k)
    BY <1>2, <2>2, <2>4, Known DEF discardReason
  <2> QED
    BY <1>1, <1>2, <2>2, <2>3, <2>4, <2>5, SelectsCause
<1> QED
  BY <1>3, <1>4

(* From the selected cause to the last step.                               *)
LEMMA EndGoesOn ==
  ASSUME IInv, UNCHANGED <<stage, cause, pending, cancelled, toolDone, readers, wants, sel, heart,
                           cb, life, rendered, log, ran, discarded, callerDone>>,
         Shaped(t'), t'.err = t.err, t'.failure = t.failure,
         t.pc \in {"selecting", "ending", "stopping"}, t'.pc \in {"ending", "stopping", "terminal"},
         pending.by # T,
         t'.pc \in {"stopping", "terminal"} => t'.seen = result
  PROVE  IInv'
<1>1. result' = result /\ Last' = Last /\ Types' = Types /\ Truthful'
  BY LogIsKept DEF result, IInv, CallOK, Truthful, Over
<1>2. result.kind # "none"
  BY ResultFacts DEF IInv, CauseOK, EndOK
<1>3. ~InToolPhase' /\ ~InToolPhase
  BY DEF InToolPhase, Boundary
<1>4. TypeOK' /\ ShapeOK'
  BY DEF IInv, TypeOK, ShapeOK
<1>5. LocksOK' /\ PendingOK'
  BY DEF IInv, LocksOK, PendingOK, Calling
<1>6. CauseOK'
  BY <1>2, <1>3, ResultFacts DEF IInv, CauseOK, CtxDone
<1>7. ShownOK'
  BY DEF IInv, ShownOK, Over, Boundary
<1>8. RequestOK' /\ CallOK'
  BY <1>1 DEF RequestOK, CallOK, Boundary
<1>9. EndOK'
  <2>1. "terminal" \notin Types /\ ("final" \in Types => cause.kind = "success")
    BY DEF IInv, EndOK
  <2> QED
    BY <1>1, <1>2, <2>1 DEF EndOK, StageTellsTheTruth
<1> QED
  BY <1>4, <1>5, <1>6, <1>7, <1>8, <1>9 DEF IInv

LEMMA SelectedKeeps ==
  ASSUME IInv, Selected
  PROVE  IInv'
<1>1. /\ t.pc = "selecting" /\ sel[T].pc = "off" /\ Goto("ending")
      /\ UNCHANGED <<stage, cause, pending, cancelled, toolDone, readers, wants, sel, heart, cb,
                     life, rendered, log, ran, discarded, callerDone>>
  BY DEF Selected, coord, locks, stream, out, env
<1>2. pending.by # T
  BY <1>1 DEF IInv, PendingOK
<1> QED
  BY <1>1, <1>2, GotoFields, Known, EndGoesOn

LEMMA EndingKeeps ==
  ASSUME IInv, Ending
  PROVE  IInv'
<1>1. /\ t.pc = "ending" /\ t' = [t EXCEPT !.pc = "stopping", !.seen = result]
      /\ UNCHANGED <<stage, cause, pending, cancelled, toolDone, readers, wants, sel, heart, cb,
                     life, rendered, log, ran, discarded, callerDone>>
  BY DEF Ending, coord, locks, stream, out, env
<1>2. pending.by # T
  BY <1>1 DEF IInv, PendingOK
<1>3. /\ Shaped(t') /\ t'.err = t.err /\ t'.failure = t.failure /\ t'.pc = "stopping"
      /\ t'.seen = result
  BY <1>1, Known DEF Shaped, TurnFields
<1> QED
  BY <1>1, <1>2, <1>3, EndGoesOn

LEMMA StopHeartbeatKeeps ==
  ASSUME IInv, StopHeartbeat
  PROVE  IInv'
<1>1. /\ t.pc = "stopping" /\ Goto("terminal")
      /\ UNCHANGED <<stage, cause, pending, cancelled, toolDone, readers, wants, sel, heart, cb,
                     life, rendered, log, ran, discarded, callerDone>>
  BY DEF StopHeartbeat, coord, locks, stream, out, env
<1>2. pending.by # T /\ t.seen = result
  BY <1>1 DEF IInv, PendingOK, EndOK
<1> QED
  BY <1>1, <1>2, GotoFields, Known, EndGoesOn

(* The terminal event tells what the turn saw, which is its cause at the   *)
(* stage it has now.                                                       *)
LEMMA EndTurnKeeps ==
  ASSUME IInv, EndTurn
  PROVE  IInv'
<1>1. /\ t.pc = "terminal" /\ Goto("done")
      /\ discarded' = (rendered = "shown" /\ discardReason(t.seen.kind))
      /\ UNCHANGED <<stage, cause, pending, cancelled, toolDone, readers, wants, sel, heart, cb,
                     life, rendered, ran, callerDone>>
  BY DEF EndTurn, coord, locks, stream
<1>2. \/ UNCHANGED log
      \/ /\ causeHasDurableTerminal(t.seen.kind) /\ log # <<>>
         /\ Record([type |-> "terminal", stage |-> t.seen.stage])
  BY DEF EndTurn
<1>3. /\ Shaped(t') /\ t'.pc = "done" /\ t'.err = t.err /\ t'.failure = t.failure
      /\ t'.seen = t.seen
  BY <1>1, GotoFields, Known
<1>4. /\ t.seen = result /\ result' = result /\ result.kind # "none" /\ result.stage = stage
      /\ pending.by # T /\ Truthful /\ stage \in Stages
      /\ "terminal" \notin Types /\ ("final" \in Types => cause.kind = "success")
  <2>1. /\ t.seen = result /\ result' = result /\ result.kind # "none"
        /\ pending.by # T /\ Truthful /\ stage \in Stages
        /\ "terminal" \notin Types /\ ("final" \in Types => cause.kind = "success")
    BY <1>1, Known DEF IInv, EndOK, PendingOK, CallOK, Over, result
  <2> QED
    BY <2>1, ResultFacts
<1>5. ~InToolPhase' /\ ~InToolPhase
  BY <1>1, <1>3 DEF InToolPhase, Boundary
<1>6. log' \in Seq(Events)
  <2>1. [type |-> "terminal", stage |-> t.seen.stage] \in Events
    BY <1>4 DEF Events
  <2> QED
    BY <1>2, <2>1, RecordFields, Known
<1>7. TypeOK' /\ ShapeOK'
  BY <1>1, <1>3, <1>6 DEF IInv, TypeOK, ShapeOK
<1>8. LocksOK' /\ PendingOK'
  BY <1>1, <1>3, <1>4 DEF IInv, LocksOK, PendingOK, Calling
<1>9. CauseOK'
  BY <1>1, <1>3, <1>5 DEF IInv, CauseOK, CtxDone
<1>10. ShownOK'
  <2>1. rendered = "shown" => discardReason(result.kind)
    BY <1>4, ResultFacts DEF IInv, ShownOK
  <2> QED
    BY <1>1, <1>3, <1>4, <2>1 DEF IInv, ShownOK, Over, Boundary
<1>11. RequestOK' /\ CallOK'
  BY <1>3 DEF RequestOK, CallOK, Boundary, Over
<1>12. EndOK'
  <2>1. CASE UNCHANGED log
    <3>1. Types' = Types
      BY <2>1, LogIsKept
    <3> QED
      BY <1>1, <1>3, <1>4, <3>1 DEF EndOK, StageTellsTheTruth
  <2>2. CASE /\ causeHasDurableTerminal(t.seen.kind) /\ log # <<>>
             /\ Record([type |-> "terminal", stage |-> t.seen.stage])
    <3> DEFINE e == [type |-> "terminal", stage |-> t.seen.stage]
    <3>1. e \in Events /\ e.type = "terminal" /\ e.stage = stage
      BY <1>4 DEF Events
    <3> HIDE DEF e
    <3>2. /\ Types' = Types \cup {"terminal"} /\ Len(log') = Len(log) + 1
          /\ log'[Len(log')] = e /\ \A i \in 1..Len(log) : log'[i] = log[i]
      BY <2>2, <3>1, RecordFields, Known DEF e
    <3>3. Len(log) \in 1..Len(log) /\ log[Len(log)].type = Last
      BY <2>2, Known DEF Last
    <3>4. log'[Len(log') - 1].type = Last
      BY <3>2, <3>3
    <3>5. StageTellsTheTruth'
      <4>1. \A a, b : a = stage /\ b = Last =>
              /\ a \in {"turn_start", "context_compose", "context_compaction", "provider",
                        "assistant_commit"} => b \notin {"tools", "intent", "approval"}
              /\ a \in {"tool_prepare", "tool_approval", "tool_execute"} => ~ran
              /\ a \in {"tool_approval", "tool_execute"} => b \in {"intent", "approval"}
        BY <1>4 DEF Truthful, BeforeAnswer, Accepting
      <4>2. log'[Len(log')].stage = stage /\ ran' = ran
        BY <1>1, <3>1, <3>2
      <4> QED
        BY <3>4, <4>1, <4>2 DEF StageTellsTheTruth
    <3> QED
      BY <1>1, <1>3, <1>4, <2>2, <3>2, <3>5 DEF EndOK
  <2> QED
    BY <1>2, <2>1, <2>2
<1> QED
  BY <1>7, <1>8, <1>9, <1>10, <1>11, <1>12 DEF IInv

-----------------------------------------------------------------------------
(* The selectors, the heartbeat and the world: the turn stays where it is. *)

SelRows == [{T, H} -> [pc : {"off", "cancel", "tool", "lock", "locking"}, kind : Kinds]]
HeartRows == [pc : {"run", "failed", "selecting", "done"},
              err : {"none", "ctx", "lease_lost", "heartbeat_failed"}]

LEMMA TurnStays ==
  ASSUME IInv, UNCHANGED <<stage, toolDone, readers, t, cb, life, rendered, log, ran, discarded>>,
         cause' \in [kind : Kinds, stage : Stages \cup {"none"}],
         pending' \in [kind : Kinds, by : {T, H, None}],
         wants' \subseteq {T, H}, sel' \in SelRows, heart' \in HeartRows,
         PendingOK',
         cause'.kind # "none" => /\ pending' = NoPending /\ cause'.stage = stage
                                 /\ readers = {} /\ ~toolDone,
         result.kind # "none" => result' = result,
         cause.kind # "none" => cause' = cause,
         Active' => Active,
         heart'.pc = "failed" => heart'.err # "none" /\ (heart'.err = "ctx" => CtxDone'),
         rendered = "shown" =>
           /\ pending' # NoPending => discardReason(pending'.kind)
           /\ cause'.kind # "none" => discardReason(cause'.kind)
  PROVE  IInv'
<1>1. Last' = Last /\ Types' = Types /\ (InToolPhase' <=> InToolPhase) /\ (Truthful' <=> Truthful)
  BY LogIsKept DEF InToolPhase, Truthful
<1>2. result.kind # "none" => cause'.kind # "none" \/ pending' # NoPending
  BY ResultFacts DEF result
<1>3. TypeOK' /\ ShapeOK'
  BY DEF IInv, TypeOK, ShapeOK, SelRows, HeartRows
<1>4. LocksOK'
  BY DEF IInv, LocksOK
<1>5. CauseOK'
  BY <1>1, <1>2, ResultFacts DEF IInv, CauseOK
<1>6. ShownOK'
  BY DEF IInv, ShownOK
<1>7. RequestOK'
  BY <1>1 DEF IInv, RequestOK
<1>8. CallOK'
  BY <1>1 DEF IInv, CallOK
<1>9. EndOK'
  <2>1. StageTellsTheTruth'
    BY <1>1 DEF IInv, EndOK, StageTellsTheTruth
  <2>2. /\ t.pc \in {"stopping", "terminal", "done"} => t.seen = result' /\ result'.kind # "none"
        /\ "final" \in Types => cause'.kind = "success" \/ (t.pc = "finish" /\ t.commit = "final")
    BY DEF IInv, EndOK
  <2> QED
    BY <1>1, <2>1, <2>2 DEF IInv, EndOK
<1> QED
  BY <1>3, <1>4, <1>5, <1>6, <1>7, <1>8, <1>9 DEF IInv

(* What a selector's step may rely on.                                     *)
LEMMA KnownCause ==
  ASSUME IInv
  PROVE  /\ cause \in [kind : Kinds, stage : Stages \cup {"none"}]
         /\ pending \in [kind : Kinds, by : {T, H, None}]
         /\ wants \subseteq {T, H} /\ sel \in SelRows /\ heart \in HeartRows /\ PendingOK
         /\ cause.kind # "none" => /\ pending = NoPending /\ cause.stage = stage
                                   /\ readers = {} /\ ~toolDone
         /\ heart.pc = "failed" => heart.err # "none" /\ (heart.err = "ctx" => CtxDone)
         /\ rendered = "shown" =>
              /\ pending # NoPending => discardReason(pending.kind)
              /\ cause.kind # "none" => discardReason(cause.kind)
         /\ T # H /\ None \notin {T, H}
         /\ stage \in Stages
BY CoordinatorAssumption
   DEF IInv, TypeOK, ShapeOK, LocksOK, CauseOK, ShownOK, SelRows, HeartRows

LEMMA SelMoves ==
  ASSUME NEW g \in {T, H}, NEW p \in {"off", "cancel", "tool", "lock", "locking"},
         sel \in SelRows, sel' = [sel EXCEPT ![g].pc = p]
  PROVE  /\ sel' \in SelRows /\ sel'[g].pc = p
         /\ \A h \in {T, H} : h # g => sel'[h] = sel[h]
BY DEF SelRows

LEMMA SelectCancelsKeeps ==
  ASSUME IInv, NEW g \in {T, H}, SelectCancels(g)
  PROVE  IInv'
<1>1. /\ sel[g].pc = "cancel" /\ cancelled' = TRUE
      /\ UNCHANGED <<stage, cause, pending, toolDone, readers, wants, t, heart, cb, life,
                     rendered, log, ran, discarded, callerDone>>
  BY DEF SelectCancels, locks, stream, out, env
<1>2. PICK p \in {"tool", "lock"} : sel' = [sel EXCEPT ![g].pc = p] /\ (p = "lock" => ~toolDone)
  BY DEF SelectCancels
<1>3. /\ sel' \in SelRows /\ sel'[g].pc = p /\ \A h \in {T, H} : h # g => sel'[h] = sel[h]
  BY <1>2, SelMoves, KnownCause
<1>4. PendingOK'
  BY <1>1, <1>2, <1>3, KnownCause DEF PendingOK
<1>5. result' = result /\ ~Active' /\ CtxDone'
  BY <1>1 DEF result, Active, CtxDone
<1> QED
  BY <1>1, <1>3, <1>4, <1>5, KnownCause, TurnStays

LEMMA SelectWaitsForToolKeeps ==
  ASSUME IInv, NEW g \in {T, H}, SelectWaitsForTool(g)
  PROVE  IInv'
<1>1. /\ sel[g].pc = "tool" /\ ~toolDone /\ sel' = [sel EXCEPT ![g].pc = "lock"]
      /\ UNCHANGED <<stage, cause, pending, cancelled, toolDone, readers, wants, t, heart, cb, life,
                     rendered, log, ran, discarded, callerDone>>
  BY DEF SelectWaitsForTool, coord, locks, stream, out, env
<1>2. /\ sel' \in SelRows /\ sel'[g].pc = "lock" /\ \A h \in {T, H} : h # g => sel'[h] = sel[h]
  BY <1>1, SelMoves, KnownCause
<1>3. PendingOK'
  BY <1>1, <1>2, KnownCause DEF PendingOK
<1>4. result' = result /\ (Active' <=> Active) /\ (CtxDone' <=> CtxDone)
  BY <1>1 DEF result, Active, CtxDone
<1> QED
  BY <1>1, <1>2, <1>3, <1>4, KnownCause, TurnStays

LEMMA SelectAsksLockKeeps ==
  ASSUME IInv, NEW g \in {T, H}, SelectAsksLock(g)
  PROVE  IInv'
<1>1. /\ sel[g].pc = "lock" /\ wants' = wants \cup {g} /\ sel' = [sel EXCEPT ![g].pc = "locking"]
      /\ UNCHANGED <<stage, cause, pending, cancelled, toolDone, readers, t, heart, cb, life,
                     rendered, log, ran, discarded, callerDone>>
  BY DEF SelectAsksLock, coord, stream, out, env
<1>2. /\ sel' \in SelRows /\ sel'[g].pc = "locking" /\ \A h \in {T, H} : h # g => sel'[h] = sel[h]
  BY <1>1, SelMoves, KnownCause
<1>3. PendingOK'
  BY <1>1, <1>2, KnownCause DEF PendingOK
<1>4. result' = result /\ (Active' <=> Active) /\ (CtxDone' <=> CtxDone)
  BY <1>1 DEF result, Active, CtxDone
<1> QED
  BY <1>1, <1>2, <1>3, <1>4, KnownCause, TurnStays

LEMMA SelectFinalKeeps ==
  ASSUME IInv, NEW g \in {T, H}, SelectFinal(g)
  PROVE  IInv'
<1>1. /\ sel[g].pc = "locking" /\ readers = {} /\ wants' = wants \ {g}
      /\ sel' = [sel EXCEPT ![g].pc = "off"]
      /\ UNCHANGED <<stage, cancelled, toolDone, readers, t, heart, cb, life,
                     rendered, log, ran, discarded, callerDone>>
  BY DEF SelectFinal, stream, out, env
<1>2. /\ sel' \in SelRows /\ sel'[g].pc = "off" /\ \A h \in {T, H} : h # g => sel'[h] = sel[h]
  BY <1>1, SelMoves, KnownCause
<1>3. ~toolDone /\ (CtxDone' <=> CtxDone)
  BY <1>1, KnownCause DEF PendingOK, CtxDone
<1>4. CASE cause.kind = "none" /\ pending.by = g
  <2>1. cause' = [kind |-> pending.kind, stage |-> stage] /\ pending' = NoPending
    BY <1>4 DEF SelectFinal
  <2>2. pending # NoPending /\ pending.kind # "none"
    BY <1>4, KnownCause DEF NoPending, PendingOK
  <2>3. /\ cause' \in [kind : Kinds, stage : Stages \cup {"none"}] /\ cause'.kind = pending.kind
        /\ cause'.stage = stage /\ pending' \in [kind : Kinds, by : {T, H, None}]
        /\ pending'.by = None
    BY <2>1, KnownCause DEF NoPending, Kinds
  <2>4. result' = result /\ ~Active'
    BY <1>4, <2>1, <2>2, <2>3 DEF result, Active
  <2>5. PendingOK'
    BY <1>1, <1>3, <2>1, <2>2, <2>3, KnownCause DEF PendingOK
  <2> QED
    BY <1>1, <1>2, <1>3, <1>4, <2>1, <2>2, <2>3, <2>4, <2>5, KnownCause, TurnStays
<1>5. CASE ~(cause.kind = "none" /\ pending.by = g)
  <2>1. UNCHANGED <<cause, pending>>
    BY <1>5 DEF SelectFinal
  <2>2. pending.by # g
    BY <1>5, KnownCause DEF NoPending
  <2>3. PendingOK'
    BY <1>1, <1>2, <2>1, <2>2, KnownCause DEF PendingOK
  <2>4. result' = result /\ (Active' <=> Active)
    BY <1>1, <1>3, <2>1 DEF result, Active
  <2> QED
    BY <1>1, <1>2, <1>3, <2>1, <2>3, <2>4, KnownCause, TurnStays
<1> QED
  BY <1>4, <1>5

-----------------------------------------------------------------------------
(* The heartbeat.                                                          *)

LEMMA HeartbeatFailsKeeps ==
  ASSUME IInv, HeartbeatFails
  PROVE  IInv'
<1>1. UNCHANGED <<stage, cause, pending, cancelled, toolDone, readers, wants, sel, t, cb, life,
                  rendered, log, ran, discarded, callerDone>>
  BY DEF HeartbeatFails, coord, locks, stream, out
<1>2. /\ heart' \in HeartRows /\ heart'.err # "none" /\ (heart'.err = "ctx" => CtxDone)
  BY DEF HeartbeatFails, HeartRows
<1>3. PendingOK'
  BY <1>1, KnownCause DEF PendingOK
<1>4. result' = result /\ (Active' <=> Active) /\ (CtxDone' <=> CtxDone)
  BY <1>1 DEF result, Active, CtxDone
<1> QED
  BY <1>1, <1>2, <1>3, <1>4, KnownCause, TurnStays

(* The heartbeat selects a cause or finds that there is one.               *)
LEMMA HeartbeatSelects ==
  ASSUME IInv, NEW k \in HeartKinds, StartSelect(H, k),
         UNCHANGED <<stage, cause, cancelled, toolDone, readers, wants, t, cb, life,
                     rendered, log, ran, discarded, callerDone>>,
         heart' \in HeartRows, heart'.pc = "selecting"
  PROVE  IInv'
<1>1. CtxDone' <=> CtxDone
  BY DEF CtxDone
<1>2. CASE cause.kind = "none" /\ pending = NoPending
  <2>1. /\ pending' = [kind |-> k, by |-> H]
        /\ sel' = [sel EXCEPT ![H] = [pc |-> "cancel", kind |-> k]]
    BY <1>2 DEF StartSelect
  <2>2. k \in Kinds /\ discardReason(k) /\ k # "none"
    BY DEF HeartKinds, Kinds, discardReason
  <2>3. /\ pending'.kind = k /\ pending'.by = H /\ pending' # NoPending
        /\ pending' \in [kind : Kinds, by : {T, H, None}]
    BY <2>1, <2>2, KnownCause DEF NoPending
  <2>4. sel' \in SelRows /\ sel'[H].pc = "cancel" /\ sel'[T] = sel[T]
    BY <2>1, <2>2, KnownCause DEF SelRows
  <2>5. PendingOK'
    <3>1. T # H /\ None # H /\ PendingOK
      BY KnownCause
    <3> QED
      BY <1>2, <2>2, <2>3, <2>4, <3>1 DEF PendingOK
  <2>6. result.kind = "none" /\ ~Active'
    BY <1>2, <2>3 DEF result, Active
  <2> QED
    BY <1>1, <1>2, <2>2, <2>3, <2>4, <2>5, <2>6, KnownCause, TurnStays
<1>3. CASE ~(cause.kind = "none" /\ pending = NoPending)
  <2>1. UNCHANGED <<pending, sel>>
    BY <1>3 DEF StartSelect
  <2>2. PendingOK'
    BY <2>1, KnownCause DEF PendingOK
  <2>3. result' = result /\ (Active' <=> Active)
    BY <1>1, <2>1 DEF result, Active
  <2> QED
    BY <1>1, <2>1, <2>2, <2>3, KnownCause, TurnStays
<1> QED
  BY <1>2, <1>3

(* It only moves.                                                          *)
LEMMA HeartbeatMoves ==
  ASSUME IInv, NEW p \in {"selecting", "done"}, heart' = [heart EXCEPT !.pc = p],
         UNCHANGED <<stage, cause, pending, cancelled, toolDone, readers, wants, sel, t, cb, life,
                     rendered, log, ran, discarded, callerDone>>
  PROVE  IInv'
<1>1. heart' \in HeartRows /\ heart'.pc = p
  BY KnownCause DEF HeartRows
<1>2. PendingOK'
  BY KnownCause DEF PendingOK
<1>3. result' = result /\ (Active' <=> Active) /\ (CtxDone' <=> CtxDone)
  BY DEF result, Active, CtxDone
<1> QED
  BY <1>1, <1>2, <1>3, KnownCause, TurnStays

LEMMA HeartbeatHearsCallerKeeps ==
  ASSUME IInv, HeartbeatHearsCaller
  PROVE  IInv'
<1>1. /\ heart' = [heart EXCEPT !.pc = "selecting"] /\ StartSelect(H, "caller_cancelled")
      /\ UNCHANGED <<stage, cause, cancelled, toolDone, readers, wants, t, cb, life,
                     rendered, log, ran, discarded, callerDone>>
  BY DEF HeartbeatHearsCaller, locks, stream, out, env
<1>2. heart' \in HeartRows /\ heart'.pc = "selecting"
  BY <1>1, KnownCause DEF HeartRows
<1> QED
  BY <1>1, <1>2, HeartbeatSelects DEF HeartKinds

LEMMA HeartbeatClassifiesKeeps ==
  ASSUME IInv, HeartbeatClassifies
  PROVE  IInv'
<1>1. /\ heart.pc = "failed"
      /\ UNCHANGED <<stage, cause, cancelled, toolDone, readers, wants, t, cb, life,
                     rendered, log, ran, discarded, callerDone>>
  BY DEF HeartbeatClassifies, locks, stream, out, env
<1>2. CASE heart' = [heart EXCEPT !.pc = "done"] /\ UNCHANGED <<pending, sel>>
  BY <1>1, <1>2, HeartbeatMoves
<1>3. CASE /\ ~(CtxDone /\ ~callerDone) /\ heart' = [heart EXCEPT !.pc = "selecting"]
           /\ StartSelect(H, IF callerDone THEN "caller_cancelled" ELSE heart.err)
  <2>1. heart' \in HeartRows /\ heart'.pc = "selecting"
    BY <1>3, KnownCause DEF HeartRows
  <2>2. (IF callerDone THEN "caller_cancelled" ELSE heart.err) \in HeartKinds
    BY <1>1, <1>3, KnownCause DEF HeartKinds, HeartRows
  <2> QED
    BY <1>1, <1>3, <2>1, <2>2, HeartbeatSelects
<1> QED
  BY <1>2, <1>3 DEF HeartbeatClassifies

LEMMA HeartbeatEndsKeeps ==
  ASSUME IInv, HeartbeatEnds
  PROVE  IInv'
<1>1. /\ heart' = [heart EXCEPT !.pc = "done"]
      /\ UNCHANGED <<stage, cause, pending, cancelled, toolDone, readers, wants, sel, t, cb, life,
                     rendered, log, ran, discarded, callerDone>>
  BY DEF HeartbeatEnds, coord, locks, stream, out, env
<1> QED
  BY <1>1, HeartbeatMoves

(* The caller's cancellation and the loss of the lease.                    *)
LEMMA EnvironmentKeeps ==
  ASSUME IInv, CallerCancels \/ LoseLease
  PROVE  IInv'
<1>1. /\ callerDone => callerDone'
      /\ UNCHANGED <<stage, cause, pending, cancelled, toolDone, readers, wants, sel, t, heart,
                     cb, life, rendered, log, ran, discarded>>
  BY DEF CallerCancels, LoseLease, coord, locks, stream, out
<1>2. PendingOK'
  BY <1>1, KnownCause DEF PendingOK
<1>3. result' = result /\ (Active' => Active) /\ (CtxDone => CtxDone')
  BY <1>1 DEF result, Active, CtxDone
<1> QED
  BY <1>1, <1>2, <1>3, KnownCause, TurnStays

-----------------------------------------------------------------------------
(* The provider's callbacks.                                               *)

LEMMA CallbackMoves ==
  ASSUME IInv, UNCHANGED <<stage, cause, pending, cancelled, toolDone, wants, sel, t, heart,
                           log, ran, discarded, callerDone>>,
         cb' \in [Callbacks -> {"out", "serial", "admit", "emit"}],
         life' \in LifeRows, life.fired => life'.fired,
         readers' \subseteq readers \cup Callbacks, T \in readers <=> T \in readers',
         \A c \in Callbacks : c \in readers' <=> cb'[c] = "emit",
         \A c \in Callbacks : cb'[c] # "out" => t.pc \in Calling,
         \A c \in Callbacks : cb'[c] \in {"admit", "emit"} => life'.fired,
         cause.kind # "none" => readers' = {},
         \/ UNCHANGED rendered
         \/ rendered' = "shown" /\ t.pc \in Calling /\ cause.kind = "none" /\ life.fired
  PROVE  IInv'
<1>1. /\ Last' = Last /\ Types' = Types /\ (InToolPhase' <=> InToolPhase)
      /\ (Truthful' <=> Truthful) /\ result' = result /\ (Active' <=> Active)
      /\ (CtxDone' <=> CtxDone)
  BY LogIsKept DEF InToolPhase, Truthful, result, Active, CtxDone
<1>2. TypeOK' /\ ShapeOK'
  BY DEF IInv, TypeOK, ShapeOK, LifeRows
<1>3. LocksOK'
  BY DEF LocksOK
<1>4. PendingOK' /\ CauseOK'
  BY <1>1 DEF IInv, PendingOK, CauseOK
<1>5. ShownOK'
  <2>1. CASE UNCHANGED rendered
    BY <2>1 DEF IInv, ShownOK
  <2>2. CASE rendered' = "shown" /\ t.pc \in Calling /\ cause.kind = "none" /\ life.fired
    <3>1. pending # NoPending => discardReason(pending.kind)
      <4>1. pending.by # T
        BY <2>2 DEF IInv, PendingOK, Calling
      <4>2. pending # NoPending => pending.kind \in HeartKinds
        BY <4>1, KnownCause DEF PendingOK
      <4> QED
        BY <4>2 DEF HeartKinds, discardReason
    <3>2. t.err # "storage"
      BY <2>2, Known DEF Calling, Over
    <3> QED
      BY <2>2, <3>1, <3>2 DEF IInv, ShownOK, Calling, Boundary
  <2> QED
    BY <2>1, <2>2
<1>6. RequestOK' /\ CallOK'
  BY <1>1 DEF IInv, RequestOK, CallOK
<1>7. EndOK'
  BY <1>1 DEF IInv, EndOK, StageTellsTheTruth
<1> QED
  BY <1>2, <1>3, <1>4, <1>5, <1>6, <1>7 DEF IInv

LEMMA KnownCallbacks ==
  ASSUME IInv
  PROVE  /\ cb \in [Callbacks -> {"out", "serial", "admit", "emit"}] /\ life \in LifeRows
         /\ LocksOK /\ T \notin Callbacks /\ readers \subseteq {T} \cup Callbacks
BY CoordinatorAssumption DEF IInv, TypeOK, ShapeOK, LifeRows

LEMMA CallbackEntersKeeps ==
  ASSUME IInv, NEW c \in Callbacks, CallbackEnters(c)
  PROVE  IInv'
<1>1. /\ t.pc \in Calling
      /\ UNCHANGED <<stage, cause, pending, cancelled, toolDone, readers, wants, sel, t, heart,
                     rendered, log, ran, discarded, callerDone>>
      /\ \/ UNCHANGED <<cb, life>>
         \/ cb[c] = "out" /\ cb' = [cb EXCEPT ![c] = "serial"] /\ life' = [life EXCEPT !.mu = c]
  BY DEF CallbackEnters, coord, locks, out, env, Calling
<1>2. /\ cb' \in [Callbacks -> {"out", "serial", "admit", "emit"}]
      /\ life' \in LifeRows /\ life'.fired = life.fired
      /\ \A d \in Callbacks : cb'[d] = cb[d] \/ (cb[d] = "out" /\ cb'[d] = "serial")
  BY <1>1, KnownCallbacks DEF LifeRows
<1> QED
  BY <1>1, <1>2, KnownCallbacks, CallbackMoves DEF LocksOK

LEMMA CallbackSerialKeeps ==
  ASSUME IInv, NEW c \in Callbacks, CallbackSerial(c)
  PROVE  IInv'
<1>1. /\ cb[c] = "serial" /\ cb' = [cb EXCEPT ![c] = "admit"]
      /\ life' = [life EXCEPT !.mu = None, !.serial = c, !.fired = TRUE]
      /\ UNCHANGED <<stage, cause, pending, cancelled, toolDone, readers, wants, sel, t, heart,
                     rendered, log, ran, discarded, callerDone>>
  BY DEF CallbackSerial, coord, locks, out, env
<1>2. /\ cb' \in [Callbacks -> {"out", "serial", "admit", "emit"}]
      /\ life' \in LifeRows /\ life'.fired
      /\ \A d \in Callbacks : cb'[d] = cb[d] \/ (cb[d] = "serial" /\ cb'[d] = "admit")
  BY <1>1, KnownCallbacks DEF LifeRows
<1> QED
  BY <1>1, <1>2, KnownCallbacks, CallbackMoves DEF LocksOK

LEMMA CallbackAdmittedKeeps ==
  ASSUME IInv, NEW c \in Callbacks, CallbackAdmitted(c)
  PROVE  IInv'
<1>1. /\ cb[c] = "admit"
      /\ UNCHANGED <<stage, cause, pending, cancelled, toolDone, wants, sel, t, heart,
                     rendered, log, ran, discarded, callerDone>>
  BY DEF CallbackAdmitted, coord, out, env
<1>2. CASE Active
  <2>1. cb' = [cb EXCEPT ![c] = "emit"] /\ readers' = readers \cup {c} /\ UNCHANGED life
    BY <1>2 DEF CallbackAdmitted
  <2>2. /\ cb' \in [Callbacks -> {"out", "serial", "admit", "emit"}] /\ cb'[c] = "emit"
        /\ \A d \in Callbacks : d # c => cb'[d] = cb[d]
    BY <2>1, KnownCallbacks
  <2>3. cause.kind = "none"
    BY <1>2 DEF Active
  <2> QED
    BY <1>1, <2>1, <2>2, <2>3, KnownCallbacks, CallbackMoves DEF LocksOK
<1>3. CASE ~Active
  <2>1. /\ cb' = [cb EXCEPT ![c] = "out"] /\ life' = [life EXCEPT !.serial = None]
        /\ UNCHANGED readers
    BY <1>3 DEF CallbackAdmitted
  <2>2. /\ cb' \in [Callbacks -> {"out", "serial", "admit", "emit"}] /\ cb'[c] = "out"
        /\ \A d \in Callbacks : d # c => cb'[d] = cb[d]
        /\ life' \in LifeRows /\ life'.fired = life.fired
    BY <2>1, KnownCallbacks DEF LifeRows
  <2> QED
    BY <1>1, <2>1, <2>2, KnownCallbacks, CallbackMoves DEF LocksOK
<1> QED
  BY <1>2, <1>3

LEMMA CallbackEmitsKeeps ==
  ASSUME IInv, NEW c \in Callbacks, CallbackEmits(c)
  PROVE  IInv'
<1>1. /\ cb[c] = "emit" /\ cb' = [cb EXCEPT ![c] = "out"] /\ readers' = readers \ {c}
      /\ life' = [life EXCEPT !.serial = None] /\ rendered' = "shown"
      /\ UNCHANGED <<stage, cause, pending, cancelled, toolDone, wants, sel, t, heart,
                     log, ran, discarded, callerDone>>
  BY DEF CallbackEmits, coord, env
<1>2. /\ cb' \in [Callbacks -> {"out", "serial", "admit", "emit"}] /\ cb'[c] = "out"
      /\ \A d \in Callbacks : d # c => cb'[d] = cb[d]
      /\ life' \in LifeRows /\ life'.fired = life.fired
  BY <1>1, KnownCallbacks DEF LifeRows
<1>3. t.pc \in Calling /\ cause.kind = "none" /\ life.fired
  BY <1>1, KnownCallbacks DEF LocksOK
<1> QED
  BY <1>1, <1>2, <1>3, KnownCallbacks, CallbackMoves DEF LocksOK

-----------------------------------------------------------------------------
(* The invariant, and what follows from it.                                *)

LEMMA TurnStepKeeps ==
  ASSUME IInv, TurnStep
  PROVE  IInv'
BY StartTurnKeeps, LoadTurnKeeps, ComposeKeeps, StartCompactionKeeps, EndCompactionKeeps,
   UncompactedRequestKeeps, beginCommitBoundaryKeeps, CommitAppendKeeps,
   finishSuccessBoundaryKeeps, finishCommitBoundaryKeeps, AuthorizeProviderKeeps,
   StreamEndsKeeps, JoinCallbacksKeeps, ResponseKeeps, CommitAnswerKeeps, AcceptedKeeps,
   PrepareCallKeeps, AppendIntentKeeps, EmitStartsKeeps, CallShownKeeps, beginToolPhaseKeeps,
   AuthorizeKeeps, PrepareToolKeeps, StartApprovalKeeps, AskOwnerKeeps, OwnerDecidesKeeps,
   DecidedKeeps, ExecuteKeeps, completeToolPhaseKeeps, abortToolPhaseKeeps, AppendOutcomeKeeps,
   ResultShownKeeps, NextCallKeeps, ClassifyKeeps, SelectedKeeps, EndingKeeps,
   StopHeartbeatKeeps, EndTurnKeeps
   DEF TurnStep, ShowCall, ShowResult, AuthorizePreparation, AuthorizeExecution

LEMMA StutterKeeps ==
  ASSUME IInv, UNCHANGED vars
  PROVE  IInv'
<1>1. UNCHANGED <<stage, cause, pending, cancelled, toolDone, readers, wants, sel, t, heart, cb,
                  life, rendered, log, ran, discarded, callerDone>>
  BY DEF vars, coord, locks, stream, out, env
<1>2. PendingOK'
  BY <1>1, KnownCause DEF PendingOK
<1>3. result' = result /\ (Active' <=> Active) /\ (CtxDone' <=> CtxDone)
  BY <1>1 DEF result, Active, CtxDone
<1> QED
  BY <1>1, <1>2, <1>3, KnownCause, TurnStays

LEMMA NextKeeps ==
  ASSUME IInv, [Next]_vars
  PROVE  IInv'
<1>1. CASE Heartbeat
  BY <1>1, HeartbeatFailsKeeps, HeartbeatHearsCallerKeeps, HeartbeatClassifiesKeeps,
     HeartbeatEndsKeeps DEF Heartbeat
<1>2. ASSUME NEW g \in {T, H}, SelectStep(g) PROVE IInv'
  BY <1>2, SelectCancelsKeeps, SelectWaitsForToolKeeps, SelectAsksLockKeeps, SelectFinalKeeps
     DEF SelectStep
<1>3. ASSUME NEW c \in Callbacks, Callback(c) PROVE IInv'
  BY <1>3, CallbackEntersKeeps, CallbackSerialKeeps, CallbackAdmittedKeeps, CallbackEmitsKeeps
     DEF Callback
<1> QED
  BY <1>1, <1>2, <1>3, TurnStepKeeps, ComposeFailsKeeps, EnvironmentKeeps, StutterKeeps
     DEF Next, Done

LEMMA InitHolds ==
  ASSUME Init
  PROVE  IInv
<1>1. /\ t.pc = "start" /\ t.err = "none" /\ t.failure = "none" /\ Shaped(t)
  BY DEF Init, Shaped, TurnFields
<1>2. /\ cause.kind = "none" /\ pending.kind = "none" /\ pending.by = None /\ pending = NoPending
      /\ cause \in [kind : Kinds, stage : Stages \cup {"none"}]
      /\ pending \in [kind : Kinds, by : {T, H, None}]
      /\ None \notin {T, H}
  BY CoordinatorAssumption DEF Init, NoCause, NoPending, Kinds
<1>3. Last = "none" /\ Types = {} /\ log \in Seq(Events)
  BY DEF Init, Last, Types
<1>4. TypeOK
  BY <1>1, <1>2 DEF Init, TypeOK, Stages
<1>5. ShapeOK
  <2>1. sel \in [{T, H} -> [pc : {"off", "cancel", "tool", "lock", "locking"}, kind : Kinds]]
    BY DEF Init, Kinds
  <2> QED
    BY <1>1, <1>3, <2>1 DEF Init, ShapeOK
<1>6. LocksOK
  BY <1>2 DEF Init, LocksOK
<1>7. PendingOK
  BY <1>2 DEF Init, PendingOK
<1>8. CauseOK
  BY <1>1, <1>2 DEF Init, CauseOK, InToolPhase, Boundary
<1>9. ShownOK
  BY <1>1 DEF Init, ShownOK
<1>10. RequestOK /\ CallOK
  BY <1>1, <1>3 DEF Init, RequestOK, CallOK, Boundary, Over, BeforeAnswer, Accepting
<1>11. EndOK
  BY <1>1, <1>3 DEF EndOK, StageTellsTheTruth
<1> QED
  BY <1>4, <1>5, <1>6, <1>7, <1>8, <1>9, <1>10, <1>11 DEF IInv

(* The coordinator's inductive invariant holds in every reachable state.   *)
THEOREM Invariance == Spec => []IInv
<1>1. Init => IInv
  BY InitHolds
<1>2. IInv /\ [Next]_vars => IInv'
  BY NextKeeps
<1> QED
  BY <1>1, <1>2, PTL DEF Spec

(* Once a cause is final nothing is shown and no commit is under way,      *)
(* however many callbacks stream: finalizing takes the lock alone          *)
(* (selectCause), and an admission needs it shared and no cause            *)
(* (emitIfActive, beginCommitBoundary).                                    *)
THEOREM CauseIsTheLastWord == Spec => []NothingAfterTheCause
<1>1. IInv => NothingAfterTheCause
  <2>1. ASSUME IInv, cause.kind # "none" PROVE NothingAfterTheCause
    BY <2>1 DEF IInv, TypeOK, LocksOK, NothingAfterTheCause
  <2> QED
    BY <2>1 DEF NothingAfterTheCause
<1> QED
  BY <1>1, Invariance, PTL

(* The turn's answer, terminal event and discard notice are what happened: *)
(* finishSuccessBoundary overrides a pending cause, finalizing keeps the   *)
(* stage, and every cause that can follow streamed text is one that        *)
(* discards it.                                                            *)
THEOREM AnswersStayTrue == Spec => []AnswersAreTrue
<1>1. IInv => AnswersAreTrue
  <2> SUFFICES ASSUME IInv PROVE AnswersAreTrue
    OBVIOUS
  <2>1. CommittedAnswerStands
    <3>1. ASSUME "final" \in Types, t.pc \in {"done"} PROVE t.seen.kind = "success"
      BY <3>1, ResultFacts DEF IInv, EndOK
    <3>2. ASSUME "final" \in Types, "terminal" \in Types PROVE FALSE
      BY <3>1, <3>2 DEF IInv, EndOK, causeHasDurableTerminal
    <3> QED
      BY <3>1, <3>2 DEF CommittedAnswerStands
  <2>2. DiscardIsReported
    BY DEF IInv, ShownOK, DiscardIsReported
  <2> QED
    BY <2>1, <2>2 DEF IInv, EndOK, AnswersAreTrue
<1> QED
  BY <1>1, Invariance, PTL
=============================================================================
