----------------------------- MODULE BuildGate -----------------------------
(***************************************************************************)
(* The verify-and-merge gate of build workers: internal/subagents/gate.go, *)
(* its records in internal/eviedb/subagent_gate.go and its git operations  *)
(* in internal/worktree/gate.go.                                           *)
(*                                                                         *)
(* A build works on a branch of its own.  A gate call verifies the branch, *)
(* rebases it onto the target's head, verifies it again and waits for an   *)
(* approval; the merge fast-forwards the target.  Calls come from chat     *)
(* turns and from the owner, in `evie serve` and in commands, which are    *)
(* processes of their own: beginGate keeps a second gate away only within  *)
(* one process.  Commits are histories: a head is the sequence of changes  *)
(* it contains, so "descends from" is "has as a prefix".                   *)
(***************************************************************************)
EXTENDS Naturals, SequencesExt, FiniteSets

CONSTANTS
    Builds,            \* build children, each with a worktree and a branch
    Calls,             \* gate calls, each made once
    Chats,             \* the calls of chat turns; the others are the owner's
    Process,           \* the process each call runs in
    Serve,             \* the process whose RunRecovery loop settles gates
    None,
    MaxOwnerCommits,   \* bound: commits the owner makes on the target
    MaxContinuations,  \* bound: continuations of each build child
    MaxLosses          \* bound: crashes of processes and lost turns

ASSUME GateAssumption ==
    /\ Chats \subseteq Calls
    /\ DOMAIN Process = Calls
    /\ None \notin Calls \cup (Builds \X (0..MaxContinuations))
    /\ {MaxOwnerCommits, MaxContinuations, MaxLosses} \subseteq Nat

VARIABLES
    target,    \* the head of the target branch
    branch,    \* the head of each build's branch
    marker,    \* the call whose git rebase is in progress in each worktree
    gone,      \* builds whose worktree and branch are removed on disk
    latest,    \* the number of each build child's latest attempt
    working,   \* builds whose latest attempt still runs
    gate,      \* the gate record of each attempt
    removed,   \* builds whose attempts record the worktree as removed
    stage,     \* where each call is
    at,        \* what each call holds in its local variables
    gates,     \* Supervisor.gates of every process: <<process, attempt>>
    held,      \* calls whose turn lease or owner's claim is in force
    recovery,  \* the candidate the recovery pass has read, or None
    losses,    \* crashes and lost turns so far
    verified,  \* heads that a passed verify run really ran on (history)
    landed     \* the attempts and heads that gates fast-forwarded to (history)

gateVars == <<target, branch, marker, gone, latest, working, gate, removed,
              stage, at, gates, held, recovery, losses, verified, landed>>
repo == <<target, branch, marker, gone>>
history == <<verified, landed>>
work == <<latest, working>>

Numbers == 0..MaxContinuations
Attempts == Builds \X Numbers

InProgress == {"verifying", "rebasing", "verifying_after", "merging"}
SettledSteps == {"none", "awaiting", "merged", "target_moved", "refused",
                 "interrupted"}
Steps == InProgress \cup SettledSteps

Changes == (Builds \X Numbers) \cup ({"owner"} \X (1..MaxOwnerCommits))

NoGate == [step |-> "none", owner |-> None, targetHead |-> None,
           branchHead |-> None, needsRebase |-> FALSE, merged |-> FALSE]
Nowhere == [id |-> None, targetHead |-> None, branchHead |-> None,
            seen |-> None]

Build(a) == a[1]
IsLatest(a) == latest[Build(a)] = a[2]
AtRest(a) == ~(IsLatest(a) /\ Build(a) \in working)

(* Compare(from, to) lists commits.                                        *)
HasCommits(from, to) == ~IsPrefix(to, from)

(* git rebase replays the changes the new base lacks, in their order.      *)
Replayed(head, onto) ==
    LET lacking == {i \in DOMAIN head: \A j \in DOMAIN onto: onto[j] # head[i]}
        nth(n) == CHOOSE i \in lacking: Cardinality({j \in lacking: j <= i}) = n
    IN onto \o [n \in 1..Cardinality(lacking) |-> head[nth(n)]]

GateInit ==
    /\ target = <<>>
    /\ branch = [b \in Builds |-> <<<<b, 0>>>>]
    /\ marker = [b \in Builds |-> None]
    /\ gone = {}
    /\ latest = [b \in Builds |-> 0]
    /\ working = {}
    /\ gate = [a \in Attempts |-> NoGate]
    /\ removed = {}
    /\ stage = [c \in Calls |-> "idle"]
    /\ at = [c \in Calls |-> Nowhere]
    /\ gates = {}
    /\ held = {}
    /\ recovery = None
    /\ losses = 0
    /\ verified = {}
    /\ landed = {}

-----------------------------------------------------------------------------
(* Authority and records                                                   *)

(* checkGateAttempt, and for a chat the live turn: what prepare and        *)
(* authorize check.                                                        *)
Authorized(c, a) ==
    /\ c \in Chats /\ stage[c] # "idle" => c \in held
    /\ AtRest(a) /\ IsLatest(a)
    /\ ~gate[a].merged
    /\ Build(a) \notin removed

GateActive(p, a) == <<p, a>> \in gates

(* claimed: the step is the owner's and his claim has not ended.           *)
Claimed(g) == g.owner \in (Calls \ Chats) \cap held

(* RecordBuildGate applies a change to the record under the write lock,    *)
(* whatever the record's step is by then.                                  *)
Record(a, g) == gate' = [gate EXCEPT ![a] = g]

(* gateFailure: the step that ended the proposal, without an owner.        *)
Failed(c, step) ==
    [gate[at[c].id] EXCEPT !.step = step, !.owner = None,
         !.targetHead = at[c].targetHead, !.branchHead = at[c].branchHead]

Leave(c) ==
    /\ stage' = [stage EXCEPT ![c] = "done"]
    /\ at' = [at EXCEPT ![c] = Nowhere]
    /\ gates' = gates \ {<<Process[c], at[c].id>>}
    /\ held' = IF c \in Chats THEN held ELSE held \ {c}

(* MarkBuildTargetMoved: the latest attempt of every other build child     *)
(* whose work is unmerged and still has its worktree.                      *)
TargetMovedRecords(g, b) ==
    [a \in Attempts |->
        IF IsLatest(a) /\ Build(a) # b /\ Build(a) \notin removed /\ ~g[a].merged
        THEN [g[a] EXCEPT !.needsRebase = TRUE]
        ELSE g[a]]

Merged(g) == [g EXCEPT !.step = "merged", !.owner = None, !.merged = TRUE]
Interrupted(g) == [g EXCEPT !.step = "interrupted", !.owner = None]

(* recoverGate with the record g read earlier: a rebase is aborted, a      *)
(* merge that reached the target is completed, anything else is marked     *)
(* interrupted.                                                            *)
Settle(a, g) ==
    /\ marker' = IF g.step = "rebasing" /\ Build(a) \notin gone
                 THEN [marker EXCEPT ![Build(a)] = None] ELSE marker
    /\ IF g.step = "merging" /\ g.branchHead = target
       THEN /\ gate' = TargetMovedRecords([gate EXCEPT ![a] = Merged(@)], Build(a))
            /\ gone' = gone \cup {Build(a)}
            /\ removed' = IF Build(a) \in working THEN removed
                          ELSE removed \cup {Build(a)}
       ELSE /\ Record(a, Interrupted(gate[a]))
            /\ UNCHANGED <<gone, removed>>

-----------------------------------------------------------------------------
(* proposeMerge                                                            *)

NeedsSettling(c, a) ==
    /\ gate[a].step \in InProgress
    /\ ~GateActive(Process[c], a)
    /\ ~Claimed(gate[a])

(* An earlier gate step was cut off and no gate of this process runs it:   *)
(* settle it first, then prepare again.                                    *)
SettleFirst(c, a) ==
    /\ stage[c] = "idle"
    /\ Authorized(c, a)
    /\ NeedsSettling(c, a)
    /\ Settle(a, gate[a])
    /\ UNCHANGED <<target, branch, latest, working, stage, at, gates, held,
                   recovery, losses, verified, landed>>

(* passedProposal: the gate passed and nothing moved since.                *)
PassedProposal(a) ==
    /\ gate[a].step = "awaiting"
    /\ gate[a].targetHead = target
    /\ gate[a].branchHead = branch[Build(a)]

(* beginGate, AbortRebase, the heads, and the record of the first run.     *)
Enter(c, a) ==
    LET b == Build(a) IN
    /\ stage[c] = "idle"
    /\ Authorized(c, a)
    /\ ~NeedsSettling(c, a)
    /\ ~GateActive(Process[c], a)
    /\ c \notin Chats => ~PassedProposal(a)
    /\ b \notin gone
    /\ HasCommits(target, branch[b])
    /\ gates' = gates \cup {<<Process[c], a>>}
    /\ marker' = [marker EXCEPT ![b] = None]
    /\ held' = held \cup {c}
    /\ at' = [at EXCEPT ![c] = [id |-> a, targetHead |-> target,
                                branchHead |-> branch[b], seen |-> branch[b]]]
    /\ Record(a, [gate[a] EXCEPT !.step = "verifying", !.owner = c,
                      !.targetHead = target, !.branchHead = branch[b]])
    /\ stage' = [stage EXCEPT ![c] = "verifying"]
    /\ UNCHANGED <<target, branch, gone, latest, working, removed, recovery,
                   losses, verified, landed>>

(* What a passed run really verified: the head that was in the worktree    *)
(* all the while.                                                          *)
RanOn(c) ==
    LET b == Build(at[c].id) IN
    IF branch[b] = at[c].seen /\ marker[b] = None /\ b \notin gone
    THEN {at[c].seen} ELSE {}

VerifyPasses(c) ==
    /\ stage[c] \in {"verifying", "verifying_after"}
    /\ verified' = verified \cup RanOn(c)
    /\ stage' = [stage EXCEPT ![c] = IF @ = "verifying" THEN "verified" ELSE "passed"]
    /\ UNCHANGED <<repo, work, gate, removed, at, gates, held, recovery,
                   losses, landed>>

(* A run that fails, times out, cannot run or is interrupted.              *)
VerifyFails(c) ==
    /\ stage[c] \in {"verifying", "verifying_after"}
    /\ \E step \in {"refused", "interrupted"}: Record(at[c].id, Failed(c, step))
    /\ Leave(c)
    /\ UNCHANGED <<repo, work, removed, recovery, losses, history>>

(* authorize again, read the target's head and record the rebase.          *)
RebaseRecorded(c) ==
    /\ stage[c] = "verified"
    /\ Authorized(c, at[c].id)
    /\ at' = [at EXCEPT ![c].targetHead = target]
    /\ Record(at[c].id, [gate[at[c].id] EXCEPT !.step = "rebasing",
                             !.targetHead = target])
    /\ stage' = [stage EXCEPT ![c] = "rebasing"]
    /\ UNCHANGED <<repo, work, removed, gates, held, recovery, losses, history>>

RebaseRefused(c) ==
    /\ stage[c] = "verified"
    /\ ~Authorized(c, at[c].id)
    /\ Record(at[c].id, Failed(c, "interrupted"))
    /\ Leave(c)
    /\ UNCHANGED <<repo, work, removed, recovery, losses, history>>

(* Mutant: the rebased head is proposed without a second run.              *)
RebaseIsEnough(c) ==
    LET b == Build(at[c].id)
        head == Replayed(branch[b], at[c].targetHead)
    IN
    /\ stage[c] = "rebasing"
    /\ b \notin gone
    /\ branch' = [branch EXCEPT ![b] = head]
    /\ at' = [at EXCEPT ![c].branchHead = head]
    /\ stage' = [stage EXCEPT ![c] = "passed"]
    /\ UNCHANGED <<target, marker, gone, work, gate, removed, gates, held,
                   recovery, losses, history>>

(* worktree.Rebase: a rebase left behind is aborted first; a branch that   *)
(* contains the target's head needs none, and the first run stands for it. *)
RebaseStarts(c) ==
    LET b == Build(at[c].id) IN
    /\ stage[c] = "rebasing"
    /\ b \notin gone
    /\ IF IsPrefix(at[c].targetHead, branch[b])
       THEN /\ marker' = [marker EXCEPT ![b] = None]
            /\ at' = [at EXCEPT ![c].branchHead = branch[b]]
            /\ stage' = [stage EXCEPT ![c] = "passed"]
       ELSE /\ marker' = [marker EXCEPT ![b] = c]
            /\ stage' = [stage EXCEPT ![c] = "replaying"]
            /\ UNCHANGED at
    /\ UNCHANGED <<target, branch, gone, work, gate, removed, gates, held,
                   recovery, losses, history>>

(* git rebase ends; RecordBuildRebase settles the move that made it        *)
(* necessary, and the second run is recorded.                              *)
RebaseEnds(c) ==
    LET a == at[c].id
        b == Build(a)
        head == Replayed(branch[b], at[c].targetHead)
    IN
    /\ stage[c] = "replaying"
    /\ marker[b] = c
    /\ branch' = [branch EXCEPT ![b] = head]
    /\ marker' = [marker EXCEPT ![b] = None]
    /\ at' = [at EXCEPT ![c].branchHead = head, ![c].seen = head]
    /\ gate' = [x \in Attempts |->
                   CASE x = a -> [gate[x] EXCEPT !.step = "verifying_after",
                                      !.needsRebase = FALSE, !.branchHead = head]
                     [] x # a /\ Build(x) = b -> [gate[x] EXCEPT !.needsRebase = FALSE]
                     [] OTHER -> gate[x]]
    /\ stage' = [stage EXCEPT ![c] = "verifying_after"]
    /\ UNCHANGED <<target, gone, work, removed, gates, held, recovery, losses,
                   history>>

(* The rebase conflicts or fails and is aborted: the branch stays.         *)
RebaseFails(c) ==
    LET b == Build(at[c].id) IN
    /\ stage[c] \in {"rebasing", "replaying"}
    /\ marker' = IF marker[b] = c THEN [marker EXCEPT ![b] = None] ELSE marker
    /\ Record(at[c].id, Failed(c, "refused"))
    /\ Leave(c)
    /\ UNCHANGED <<target, branch, gone, work, removed, recovery, losses, history>>

(* Both runs passed: the proposal awaits the owner's approval.             *)
Proposed(c) ==
    LET a == at[c].id IN
    /\ stage[c] = "passed"
    /\ Record(a, [gate[a] EXCEPT !.step = "awaiting", !.owner = None,
                      !.targetHead = at[c].targetHead,
                      !.branchHead = at[c].branchHead, !.needsRebase = FALSE])
    /\ gates' = gates \ {<<Process[c], a>>}
    /\ stage' = [stage EXCEPT ![c] = "approved"]
    /\ UNCHANGED <<repo, work, removed, at, held, recovery, losses, history>>

(* A call whose turn is lost meets its cancelled context at a record: it   *)
(* returns and leaves the step in progress.                                *)
Abandon(c) ==
    /\ c \in Chats \ held
    /\ stage[c] = "verified"
    /\ Leave(c)
    /\ UNCHANGED <<repo, work, gate, removed, recovery, losses, history>>

-----------------------------------------------------------------------------
(* merge                                                                   *)

(* MergeAsOwner on a Change whose gate passed: the recorded proposal.      *)
MergePassed(c, a) ==
    /\ stage[c] = "idle" /\ c \notin Chats
    /\ Authorized(c, a)
    /\ PassedProposal(a)
    /\ Build(a) \notin gone
    /\ held' = held \cup {c}
    /\ at' = [at EXCEPT ![c] = [Nowhere EXCEPT !.id = a,
                  !.targetHead = gate[a].targetHead,
                  !.branchHead = gate[a].branchHead]]
    /\ stage' = [stage EXCEPT ![c] = "approved"]
    /\ UNCHANGED <<repo, work, gate, removed, gates, recovery, losses, history>>

(* The gate still awaits exactly this approval.                            *)
StillAwaits(c) ==
    LET g == gate[at[c].id] IN
    /\ g.step = "awaiting"
    /\ g.targetHead = at[c].targetHead
    /\ g.branchHead = at[c].branchHead

MayMerge(c) ==
    /\ Authorized(c, at[c].id)
    /\ StillAwaits(c)
    /\ ~GateActive(Process[c], at[c].id)

(* The owner declines the card, or the merge is refused before it began.   *)
NotMerged(c) ==
    /\ stage[c] = "approved"
    /\ c \in Chats \/ ~MayMerge(c)
    /\ stage' = [stage EXCEPT ![c] = "done"]
    /\ at' = [at EXCEPT ![c] = Nowhere]
    /\ held' = IF c \in Chats THEN held ELSE held \ {c}
    /\ UNCHANGED <<repo, work, gate, removed, gates, recovery, losses, history>>

(* targetMoved: nothing is merged and the next proposal rebases.           *)
TargetMoved(c) == [Failed(c, "target_moved") EXCEPT !.needsRebase = TRUE]

(* Mutant: the merge is recorded as done before it is made.                *)
MergeRecordedFirst(c) ==
    LET a == at[c].id IN
    /\ stage[c] = "approved"
    /\ MayMerge(c)
    /\ Record(a, Merged(gate[a]))
    /\ gates' = gates \cup {<<Process[c], a>>}
    /\ stage' = [stage EXCEPT ![c] = "merging"]
    /\ UNCHANGED <<repo, work, removed, at, held, recovery, losses, history>>

(* beginGate and the two heads; the merge is recorded before it is made.   *)
MergeStarts(c) ==
    LET a == at[c].id IN
    /\ stage[c] = "approved"
    /\ MayMerge(c)
    /\ IF Build(a) \in gone \/ branch[Build(a)] # at[c].branchHead
       THEN Record(a, Failed(c, "refused")) /\ Leave(c)
       ELSE IF target # at[c].targetHead
       THEN Record(a, TargetMoved(c)) /\ Leave(c)
       ELSE /\ Record(a, [gate[a] EXCEPT !.step = "merging", !.owner = c])
            /\ gates' = gates \cup {<<Process[c], a>>}
            /\ stage' = [stage EXCEPT ![c] = "merging"]
            /\ UNCHANGED <<at, held>>
    /\ UNCHANGED <<repo, work, removed, recovery, losses, history>>

(* Mutant: the ref is forced without comparing the expected head.          *)
ForcedUpdate(c) ==
    /\ stage[c] = "merging"
    /\ target' = at[c].branchHead
    /\ landed' = landed \cup {<<at[c].id, at[c].branchHead>>}
    /\ stage' = [stage EXCEPT ![c] = "moved"]
    /\ UNCHANGED <<branch, marker, gone, work, gate, removed, at, gates, held,
                   recovery, losses, verified>>

(* worktree.FastForward moves the target from the expected head or refuses.*)
FastForward(c) ==
    /\ stage[c] = "merging"
    /\ target = at[c].targetHead
    /\ IsPrefix(at[c].targetHead, at[c].branchHead)
    /\ target' = at[c].branchHead
    /\ landed' = landed \cup {<<at[c].id, at[c].branchHead>>}
    /\ stage' = [stage EXCEPT ![c] = "moved"]
    /\ UNCHANGED <<branch, marker, gone, work, gate, removed, at, gates, held,
                   recovery, losses, verified>>

FastForwardRefused(c) ==
    /\ stage[c] = "merging"
    /\ Record(at[c].id, IF target # at[c].targetHead THEN TargetMoved(c)
                        ELSE Failed(c, "refused"))
    /\ Leave(c)
    /\ UNCHANGED <<repo, work, removed, recovery, losses, history>>

(* completeMerge: the record, then the worktree, then the other builds.    *)
MergeRecorded(c) ==
    /\ stage[c] = "moved"
    /\ Record(at[c].id, Merged(gate[at[c].id]))
    /\ stage' = [stage EXCEPT ![c] = "cleaning"]
    /\ UNCHANGED <<repo, work, removed, at, gates, held, recovery, losses, history>>

MergeCleansUp(c) ==
    LET b == Build(at[c].id) IN
    /\ stage[c] = "cleaning"
    /\ \/ /\ gone' = gone \cup {b}
          /\ removed' = IF b \in working THEN removed ELSE removed \cup {b}
          /\ marker' = [marker EXCEPT ![b] = None]
       \/ UNCHANGED <<gone, removed, marker>>
    /\ stage' = [stage EXCEPT ![c] = "telling"]
    /\ UNCHANGED <<target, branch, work, gate, at, gates, held, recovery,
                   losses, history>>

MergeTellsOthers(c) ==
    /\ stage[c] = "telling"
    /\ gate' = TargetMovedRecords(gate, Build(at[c].id))
    /\ Leave(c)
    /\ UNCHANGED <<repo, work, removed, recovery, losses, history>>

(* CloseAsOwner removes the worktree and branch of a build whose gate is   *)
(* not in progress.                                                        *)
CloseBegins(c, a) ==
    /\ stage[c] = "idle" /\ c \notin Chats
    /\ Authorized(c, a)
    /\ ~GateActive(Process[c], a)
    /\ gate[a].step \notin InProgress
    /\ gates' = gates \cup {<<Process[c], a>>}
    /\ at' = [at EXCEPT ![c].id = a]
    /\ stage' = [stage EXCEPT ![c] = "closing"]
    /\ UNCHANGED <<repo, work, gate, removed, held, recovery, losses, history>>

CloseEnds(c) ==
    LET b == Build(at[c].id) IN
    /\ stage[c] = "closing"
    /\ gone' = gone \cup {b}
    /\ marker' = [marker EXCEPT ![b] = None]
    /\ removed' = IF b \in working THEN removed ELSE removed \cup {b}
    /\ Leave(c)
    /\ UNCHANGED <<target, branch, work, gate, recovery, losses, history>>

-----------------------------------------------------------------------------
(* RecoverGates in evie serve                                              *)

(* Mutant: recovery leaves every owner's step alone, even a dead one's.    *)
CandidateOfAChat(a) ==
    /\ AtRest(a)
    /\ gate[a].step \in InProgress
    /\ gate[a].owner \in Chats \ held

(* BuildGateRecoveryCandidates: in progress, and the owner's turn or claim *)
(* is over.                                                                *)
Candidate(a) ==
    /\ AtRest(a)
    /\ gate[a].step \in InProgress
    /\ gate[a].owner \notin held

RecoveryReads(a) ==
    /\ recovery = None
    /\ Candidate(a)
    /\ recovery' = [id |-> a, gate |-> gate[a]]
    /\ UNCHANGED <<repo, work, gate, removed, stage, at, gates, held, losses, history>>

RecoverySettles ==
    /\ recovery # None
    /\ recovery' = None
    /\ IF GateActive(Serve, recovery.id)
       THEN UNCHANGED <<repo, gate, removed>>
       ELSE Settle(recovery.id, recovery.gate) /\ UNCHANGED <<target, branch>>
    /\ UNCHANGED <<work, stage, at, gates, held, losses, history>>

-----------------------------------------------------------------------------
(* The rest of the world                                                   *)

OwnerCommitted == Cardinality({i \in DOMAIN target: target[i][1] = "owner"})

OwnerCommits ==
    /\ OwnerCommitted < MaxOwnerCommits
    /\ target' = Append(target, <<"owner", OwnerCommitted + 1>>)
    /\ UNCHANGED <<branch, marker, gone, work, gate, removed, stage, at, gates,
                   held, recovery, losses, history>>

(* continue_research admits another attempt of the build child, in the     *)
(* same worktree, whatever its gate is doing.                              *)
ContinueBuild(b) ==
    /\ b \notin working \cup removed \cup gone
    /\ latest[b] < MaxContinuations
    /\ latest' = [latest EXCEPT ![b] = @ + 1]
    /\ working' = working \cup {b}
    /\ UNCHANGED <<repo, gate, removed, stage, at, gates, held, recovery, losses,
                   history>>

(* The attempt ends; the harness commits what the worker left.             *)
WorkerEnds(b) ==
    /\ b \in working
    /\ working' = working \ {b}
    /\ \/ /\ b \notin gone /\ marker[b] = None
          /\ branch' = [branch EXCEPT ![b] = Append(@, <<b, latest[b]>>)]
       \/ UNCHANGED branch
    /\ UNCHANGED <<target, marker, gone, latest, gate, removed, stage, at, gates,
                   held, recovery, losses, history>>

Underway(c) == stage[c] \notin {"idle", "done"}

(* A turn ends, or its lease is lost while its call goes on.               *)
LoseGateTurn(c) ==
    /\ c \in Chats \cap held
    /\ Underway(c) => losses < MaxLosses
    /\ held' = held \ {c}
    /\ losses' = IF Underway(c) THEN losses + 1 ELSE losses
    /\ UNCHANGED <<repo, work, gate, removed, stage, at, gates, recovery, history>>

(* A process dies: its calls and its gates are gone, the turns of its      *)
(* chats expire, and what is on disk and in the database stays.            *)
ProcessDies(p) ==
    LET dead == {c \in Calls: Process[c] = p /\ Underway(c)} IN
    /\ losses < MaxLosses
    /\ dead # {}
    /\ losses' = losses + 1
    /\ stage' = [c \in Calls |-> IF c \in dead THEN "done" ELSE stage[c]]
    /\ at' = [c \in Calls |-> IF c \in dead THEN Nowhere ELSE at[c]]
    /\ gates' = {g \in gates: g[1] # p}
    /\ recovery' = IF p = Serve THEN None ELSE recovery
    /\ UNCHANGED <<repo, work, gate, removed, held, history>>

(* A dead call's claim ends: an owner's claim outlasts the rest of his     *)
(* gate (two verify timeouts and a margin), so it ends on a dead call only.*)
ClaimEnds(c) ==
    /\ c \in held \ Chats
    /\ stage[c] = "done"
    /\ held' = held \ {c}
    /\ UNCHANGED <<repo, work, gate, removed, stage, at, gates, recovery, losses,
                   history>>

CallSteps(c) ==
    \/ VerifyPasses(c) \/ VerifyFails(c)
    \/ RebaseRecorded(c) \/ RebaseRefused(c)
    \/ RebaseStarts(c) \/ RebaseEnds(c) \/ RebaseFails(c)
    \/ Proposed(c) \/ Abandon(c) \/ NotMerged(c)
    \/ MergeStarts(c) \/ FastForward(c) \/ FastForwardRefused(c)
    \/ MergeRecorded(c) \/ MergeCleansUp(c) \/ MergeTellsOthers(c)
    \/ CloseEnds(c)

GateNext ==
    \/ \E c \in Calls: CallSteps(c) \/ LoseGateTurn(c) \/ ClaimEnds(c)
    \/ \E c \in Calls, a \in Attempts:
          SettleFirst(c, a) \/ Enter(c, a) \/ MergePassed(c, a) \/ CloseBegins(c, a)
    \/ \E a \in Attempts: RecoveryReads(a)
    \/ RecoverySettles
    \/ OwnerCommits
    \/ \E b \in Builds: ContinueBuild(b) \/ WorkerEnds(b)
    \/ \E p \in {Process[c]: c \in Calls}: ProcessDies(p)

GateSpec == GateInit /\ [][GateNext]_gateVars

(* Calls run on, worker attempts end, turns and claims of dead calls run   *)
(* out, and the recovery loop of evie serve comes round.                   *)
GateFairness ==
    /\ \A c \in Calls: /\ WF_gateVars(CallSteps(c))
                       /\ WF_gateVars(LoseGateTurn(c))
                       /\ WF_gateVars(ClaimEnds(c))
    /\ \A a \in Attempts: SF_gateVars(RecoveryReads(a))
    /\ WF_gateVars(RecoverySettles)
    /\ \A b \in Builds: WF_gateVars(WorkerEnds(b))

-----------------------------------------------------------------------------
(* Properties                                                              *)

GateTypeOK ==
    /\ target \in Seq(Changes)
    /\ branch \in [Builds -> Seq(Changes)]
    /\ marker \in [Builds -> Calls \cup {None}]
    /\ gone \subseteq Builds /\ removed \subseteq Builds /\ working \subseteq Builds
    /\ latest \in [Builds -> Numbers]
    /\ \A a \in Attempts:
          /\ gate[a].step \in Steps
          /\ gate[a].owner \in Calls \cup {None}
          /\ {gate[a].needsRebase, gate[a].merged} \subseteq BOOLEAN
    /\ \A c \in Calls: Underway(c) <=> at[c].id # None
    /\ gates \subseteq {Process[c]: c \in Calls} \X Attempts
    /\ held \subseteq Calls
    /\ losses \in 0..MaxLosses

(* Every head a gate fast-forwards the target to is a head that a verify   *)
(* run passed on, whatever the owner commits and crashes in between: merge *)
(* checks the attempt, the record and both heads again after the approval. *)
(* Two gates of one build in one process exclude each other; a continued   *)
(* build has a second attempt, whose gate they do not exclude, so it has   *)
(* to be the only one.                                                     *)
OnlyVerifiedMerges == \A l \in landed: l[2] \in verified

(* The target never loses a commit: FastForward moves it only from the     *)
(* head the gate verified against, so what the owner committed meanwhile   *)
(* stays.                                                                  *)
TargetOnlyGrows == [][IsPrefix(target, target')]_target

(* The records are well formed and tell what happened, as long as no gate  *)
(* was cut off: an attempt recorded as merged is in the target, and one    *)
(* recorded as refused, interrupted or stale was not merged.               *)
RecordsTellTheTruth ==
    GateTypeOK /\ (losses = 0 => \A a \in Attempts:
        /\ gate[a].merged => IsPrefix(gate[a].branchHead, target)
        /\ gate[a].step \in {"refused", "interrupted", "target_moved"}
              => <<a, gate[a].branchHead>> \notin landed)

(* No gate stays in progress: the call ends its step, or recovery settles  *)
(* it once the turn or the owner's claim is over.  And a fast-forward that *)
(* reached the target ends up recorded, although the process may die       *)
(* before completeMerge: recovery finds the target at the branch's head,   *)
(* unless the owner committed on top of it.                                *)
GatesSettle ==
    /\ \A a \in Attempts: []<>(gate[a].step \notin InProgress)
    /\ landed # {} ~> OwnerCommitted > 0 \/ \E a \in Attempts: gate[a].merged

=============================================================================
