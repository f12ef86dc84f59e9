----------------------------- MODULE TaskStore -----------------------------
(***************************************************************************)
(* Sessions, their turn leases, and the Tasks that turns claim and change: *)
(* internal/eviedb/turn_leases.go, session_archive.go, tasks.go,           *)
(* tasks_tree.go, tasks_claims.go, tasks_grants.go and task_idempotency.go.*)
(*                                                                         *)
(* A turn is a lease holder with the session and fencing token it was      *)
(* given.  Nothing tells a suspended turn that its lease ran out, so it    *)
(* goes on calling the store with its old token.  Every call is one        *)
(* immediate transaction and one step here.  A lease is kept as the ticks  *)
(* to its expiry.                                                          *)
(*                                                                         *)
(* A mutation carries an idempotency key.  Its first call stores an        *)
(* outcome, accepted or rejected; a later call with the key is answered    *)
(* from that row (replayed, or refused as a conflict when the request      *)
(* differs) and changes nothing, so it is no step.  A mutation names the   *)
(* revision its caller read; a wrong one is rejected, which can happen to  *)
(* any mutation, so revisions themselves are left out.                     *)
(***************************************************************************)
EXTENDS Integers, FiniteSets

CONSTANTS
  Owners,      \* conversations of the owner
  Children,    \* delegated sessions, of build workers
  ParentOf,    \* the owner session a child works for
  Holders,     \* turns: lease holder ids
  NoHolder,    \* holder_id NULL
  Tasks,
  NoTask,
  Keys,        \* idempotency keys of a session, numbered
  LeaseTicks,  \* how long an acquired or renewed lease lasts
  Scopes       \* bounds to consider: the holders, children and tasks in play, the
               \*   number of keys, the access levels an owner issues (1 read,
               \*   2 contribute, 3 manage), turns: acquisitions of a session's
               \*   lease, and admin: archivings, grants, assignments, overrides

Sessions == Owners \cup Children

ASSUME TaskStoreAssumption ==
  /\ Owners \cap Children = {}
  /\ ParentOf \in [Children -> Owners]
  /\ NoHolder \notin Holders \cup Owners \cup Children
  /\ NoTask \notin Tasks
  /\ LeaseTicks \in Nat \ {0}
  /\ Keys \subseteq Nat
  /\ Scopes \subseteq [holders : SUBSET Holders, children : SUBSET Children,
                       tasks : SUBSET Tasks, keys : Nat, levels : SUBSET (1..3),
                       turns : Nat, admin : Nat]

VARIABLES
  scope,    \* the bounds of this behaviour
  active,   \* the sessions whose status is active
  lease,    \* session_turn_leases: holder, fencing token, ticks to expiry
  turn,     \* the session and token each holder was last given
  status,   \* tasks.status; "absent" is no row
  parent,   \* task_hierarchy.parent_id
  claim,    \* task_claims, by task
  grant,    \* the active task_access_grants row of each child
  result,   \* the stored outcome of each session's keys
  admin,    \* bound spent
  written,  \* history: the token of the latest fenced write of a session
  claimNo,  \* history: how many claims of a task were acquired
  madeAt,   \* history: the claimNo under which each turn claimed a task
  workNo,   \* history: the madeAt of the latest work done on a task, or -1
  applied,  \* history: how often a request changed anything
  changer,  \* history: the session that changed a task last
  granted   \* the Tasks of a child's attempts and grants

leases == <<active, lease, turn>>
tree == <<status, parent>>
history == <<written, claimNo, madeAt, workNo, applied, changer, granted>>
vars == <<scope, leases, tree, claim, grant, result, admin, history>>

Working == {"open", "in_progress", "blocked"}
Ended == {"completed", "cancelled"}
Statuses == Working \cup Ended
(* What an update patches: the status, the result summary, or metadata.    *)
Patches == Statuses \cup {"summary", "metadata"}

NoTurn == [session |-> NoHolder, token |-> 0]
NoClaim == [session |-> NoHolder, holder |-> NoHolder, token |-> 0]
NoGrant == [root |-> NoTask, level |-> 0]

TypeOK ==
  /\ active \subseteq Sessions
  /\ lease \in [Sessions -> [holder : Holders \cup {NoHolder}, token : 0..scope.turns,
                             left : 0..LeaseTicks]]
  /\ turn \in [Holders -> {NoTurn} \cup [session : Sessions, token : 1..scope.turns]]
  /\ status \in [Tasks -> Statuses \cup {"absent"}]
  /\ parent \in [Tasks -> Tasks \cup {NoTask}]
  /\ claim \in [Tasks -> {NoClaim} \cup
                         [session : Sessions, holder : Holders, token : 1..scope.turns]]
  /\ grant \in [Children -> {NoGrant} \cup [root : Tasks, level : 1..3]]
  /\ result \in [Sessions \X Keys -> {"none", "accepted", "rejected"}]
  /\ admin \in 0..scope.admin

Init ==
  /\ scope \in Scopes
  /\ \E C \in SUBSET scope.children : active = Owners \cup C
  /\ lease = [s \in Sessions |-> [holder |-> NoHolder, token |-> 0, left |-> 0]]
  /\ turn = [h \in Holders |-> NoTurn]
  /\ status = [t \in Tasks |-> "absent"]
  /\ parent = [t \in Tasks |-> NoTask]
  /\ claim = [t \in Tasks |-> NoClaim]
  /\ grant = [c \in Children |-> NoGrant]
  /\ result = [r \in Sessions \X Keys |-> "none"]
  /\ admin = 0
  /\ written = [s \in Sessions |-> 0]
  /\ claimNo = [t \in Tasks |-> 0]
  /\ madeAt = [h \in Holders |-> [t \in Tasks |-> 0]]
  /\ workNo = [t \in Tasks |-> -1]
  /\ applied = [r \in Sessions \X Keys |-> 0]
  /\ changer = [t \in Tasks |-> NoHolder]
  /\ granted = [c \in Children |-> {}]

-----------------------------------------------------------------------------
(* Turn leases.                                                            *)

(* The lease row is held and not expired.                                  *)
Live(s) == lease[s].holder # NoHolder /\ lease[s].left > 0

(* fenceTurnLeaseWrite and claimExecutionActive: the turn's own token is   *)
(* the session's, unexpired, and the session is active.                    *)
Fenced(h) ==
  /\ turn[h] # NoTurn
  /\ turn[h].session \in active
  /\ Live(turn[h].session)
  /\ lease[turn[h].session].holder = h
  /\ lease[turn[h].session].token = turn[h].token

(* A claim whose execution no longer runs.                                 *)
Inactive(c) ==
  \/ c.session \notin active
  \/ ~ Live(c.session)
  \/ lease[c.session].holder # c.holder
  \/ lease[c.session].token # c.token

(* releaseTaskClaimsMatching                                               *)
Without(S) == [t \in Tasks |-> IF t \in S THEN NoClaim ELSE claim[t]]
Claimed == {t \in Tasks : claim[t] # NoClaim}

(* Mutant of AcquireTurnLease: claims of the previous turn are kept.       *)
AcquireKeepingClaims(h, s) ==
  /\ s \in active
  /\ ~ Live(s)
  /\ lease[s].token < scope.turns
  /\ lease' = [lease EXCEPT ![s] = [holder |-> h, token |-> @.token + 1, left |-> LeaseTicks]]
  /\ turn' = [turn EXCEPT ![h] = [session |-> s, token |-> lease[s].token + 1]]
  /\ UNCHANGED <<active, tree, claim, grant, result, admin, history>>

(* A turn takes a session whose lease is free or has expired, and releases *)
(* the claims that the session's earlier turns left.                       *)
AcquireTurnLease(h, s) ==
  /\ s \in active
  /\ ~ Live(s)
  /\ lease[s].token < scope.turns
  /\ claim' = Without({t \in Claimed : claim[t].session = s /\ Inactive(claim[t])})
  /\ lease' = [lease EXCEPT ![s] = [holder |-> h, token |-> @.token + 1, left |-> LeaseTicks]]
  /\ turn' = [turn EXCEPT ![h] = [session |-> s, token |-> lease[s].token + 1]]
  /\ UNCHANGED <<active, tree, grant, result, admin, history>>

HeartbeatTurnLease(h) ==
  /\ Fenced(h)
  /\ lease' = [lease EXCEPT ![turn[h].session].left = LeaseTicks]
  /\ UNCHANGED <<active, turn, tree, claim, grant, result, admin, history>>

(* A turn that still holds its lease gives it up with its claims; the      *)
(* session need not be active.  A lost lease rolls everything back.        *)
ReleaseTurnLease(h) ==
  /\ turn[h] # NoTurn
  /\ LET s == turn[h].session
     IN /\ Live(s) /\ lease[s].holder = h /\ lease[s].token = turn[h].token
        /\ claim' = Without({t \in Claimed :
             claim[t] = [session |-> s, holder |-> h, token |-> turn[h].token]})
        /\ lease' = [lease EXCEPT ![s].holder = NoHolder, ![s].left = 0]
  /\ UNCHANGED <<active, turn, tree, grant, result, admin, history>>

(* withTurnLeaseWrite: an event or message of the turn.  It is fenced when *)
(* the write starts and again before it commits.                           *)
TurnLeaseWrite(h) ==
  /\ Fenced(h)
  /\ written' = [written EXCEPT ![turn[h].session] = turn[h].token]
  /\ UNCHANGED <<leases, tree, claim, grant, result, admin, claimNo, madeAt, workNo,
                 applied, changer, granted>>

Tick ==
  /\ \E s \in Sessions : lease[s].left > 0
  /\ lease' = [s \in Sessions |-> IF lease[s].left > 0
                                  THEN [lease[s] EXCEPT !.left = @ - 1] ELSE lease[s]]
  /\ UNCHANGED <<active, turn, tree, claim, grant, result, admin, history>>

-----------------------------------------------------------------------------
(* Sessions and grants.                                                    *)

Spend == admin < scope.admin /\ admin' = admin + 1

(* Mutant of GrantsAfterClose: only the grantee's session ends a grant.    *)
GrantsAfterGranteeClose(s) == [c \in Children |-> IF c = s THEN NoGrant ELSE grant[c]]

(* The trigger sessions_end_task_access_grants: grants end with the        *)
(* session of either side.                                                 *)
GrantsAfterClose(s) ==
  [c \in Children |-> IF c = s \/ ParentOf[c] = s THEN NoGrant ELSE grant[c]]

(* An idle owner session is closed; its workers have settled.              *)
ArchiveSession(s) ==
  /\ s \in Owners \cap active /\ ~ Live(s)
  /\ \A c \in Children : ParentOf[c] = s => grant[c].level # 2
  /\ active' = active \ {s}
  /\ grant' = GrantsAfterClose(s)
  /\ Spend
  /\ UNCHANGED <<lease, turn, tree, claim, result, history>>

RestoreSession(s) ==
  /\ s \in Owners \ active /\ ~ Live(s)
  /\ active' = active \cup {s}
  /\ Spend
  /\ UNCHANGED <<lease, turn, tree, claim, grant, result, history>>

Grant(c, t, level) ==
  /\ grant' = [grant EXCEPT ![c] = [root |-> t, level |-> level]]
  /\ granted' = [granted EXCEPT ![c] = @ \cup {t}]
  /\ UNCHANGED <<written, claimNo, madeAt, workNo, applied, changer>>

(* IssueTaskAccessGrant: one active grant per child (unique index).        *)
IssueTaskAccessGrant(c, t, level) ==
  /\ ParentOf[c] \in active /\ c \in active
  /\ status[t] # "absent" /\ grant[c] = NoGrant
  /\ Spend
  /\ Grant(c, t, level)
  /\ UNCHANGED <<leases, tree, claim, result>>

TerminateTaskAccessGrant(c) ==
  /\ ParentOf[c] \in active /\ grant[c] # NoGrant
  /\ grant' = [grant EXCEPT ![c] = NoGrant]
  /\ Spend
  /\ UNCHANGED <<leases, tree, claim, result, history>>

(* A build attempt on a Task is admitted for a new child session: a stale  *)
(* claim of the Task is released, a live one refuses.                      *)
AssignBuild(c, t) ==
  /\ ParentOf[c] \in active /\ c \notin active /\ granted[c] = {}
  /\ status[t] \in Working
  /\ t \in Claimed => Inactive(claim[t])
  /\ claim' = Without({t})
  /\ active' = active \cup {c}
  /\ Spend
  /\ Grant(c, t, 2)
  /\ UNCHANGED <<lease, turn, tree, result>>

(* AdmitSubagentContinuation: a settled child gets a grant for a further   *)
(* attempt on its Task, whatever the Task's status and claims; its session *)
(* stays closed until the attempt starts.                                  *)
ContinueBuild(c, t) ==
  /\ ParentOf[c] \in active /\ c \notin active /\ grant[c] = NoGrant
  /\ t \in granted[c]
  /\ Spend
  /\ Grant(c, t, 2)
  /\ UNCHANGED <<leases, tree, claim, result>>

(* StartSubagent of a continuation: the session is open again, with no     *)
(* holder.                                                                 *)
StartContinuation(c) ==
  /\ c \notin active /\ grant[c] # NoGrant
  /\ active' = active \cup {c}
  /\ lease' = [lease EXCEPT ![c].holder = NoHolder, ![c].left = 0]
  /\ UNCHANGED <<turn, tree, claim, grant, result, admin, history>>

(* A build attempt ends: its grant and claims with it, its session closes. *)
SettleBuild(c) ==
  /\ grant[c].level = 2
  /\ claim' = Without({t \in Claimed : claim[t].session = c})
  /\ grant' = [grant EXCEPT ![c] = NoGrant]
  /\ active' = active \ {c}
  /\ UNCHANGED <<lease, turn, tree, result, admin, history>>

-----------------------------------------------------------------------------
(* The Task Tree.                                                          *)

Closed(S) == \A u \in S : parent[u] \in S \cup {NoTask}

(* The recursive queries over task_hierarchy: the least set that holds the *)
(* Task's parent and, with a Task, its parent.                             *)
Ancestors(t) ==
  {a \in Tasks : \A S \in SUBSET Tasks : Closed(S) /\ parent[t] \in S \cup {NoTask} => a \in S}

Subtree(t) == {u \in Tasks : u = t \/ t \in Ancestors(u)}

(* Mutant of countActiveDescendants: only the children are counted.        *)
ActiveChildren(t) == {u \in Tasks : parent[u] = t /\ status[u] \in Working}

countActiveDescendants(t) == {u \in Subtree(t) \ {t} : status[u] \in Working}

hasTerminalAncestor(t) == \E u \in Ancestors(t) : status[u] \in Ended

-----------------------------------------------------------------------------
(* Mutations of a turn.                                                    *)

(* taskAccessFromContext and the grant predicate of getGlobalTask: the     *)
(* session is active, and a child needs a grant of the level over the Task.*)
(* The lease is not looked at.                                             *)
Access(h, t, level) ==
  /\ turn[h] # NoTurn /\ turn[h].session \in active
  /\ turn[h].session \in Children =>
       /\ grant[turn[h].session].level >= level
       /\ t \in Subtree(grant[turn[h].session].root)

Unused(h, k) == turn[h] # NoTurn /\ result[<<turn[h].session, k>>] = "none"

Store(h, k, outcome) == result' = [result EXCEPT ![<<turn[h].session, k>>] = outcome]
Apply(h, k, T) ==
  /\ Store(h, k, "accepted")
  /\ applied' = [applied EXCEPT ![<<turn[h].session, k>>] = @ + 1]
  /\ changer' = [t \in Tasks |-> IF t \in T THEN turn[h].session ELSE changer[t]]
  /\ UNCHANGED <<written, granted>>

(* Mutant of Owned: any claim of the Task will do.                         *)
OwnedByAnyone(h, t) == claim[t] # NoClaim

(* claimOwnedBy                                                            *)
Owned(h, t) ==
  claim[t] = [session |-> turn[h].session, holder |-> h, token |-> turn[h].token]

(* A mutation is rejected, because its revision is stale or because a      *)
(* check below fails; the outcome is stored under its key.                 *)
Reject(h, k) ==
  /\ turn[h] # NoTurn /\ turn[h].session \in active
  /\ turn[h].session \in Children => grant[turn[h].session].level >= 2
  /\ Unused(h, k)
  /\ Store(h, k, "rejected")
  /\ UNCHANGED <<leases, tree, claim, grant, admin, history>>

(* CreateGlobalTask: a root, which only an owner creates.                  *)
CreateRoot(h, k, t) ==
  /\ turn[h] # NoTurn /\ turn[h].session \in Owners \cap active
  /\ Unused(h, k)
  /\ status[t] = "absent"
  /\ status' = [status EXCEPT ![t] = "open"]
  /\ Apply(h, k, {t})
  /\ UNCHANGED <<leases, parent, claim, grant, admin, claimNo, madeAt, workNo>>

(* New Tasks under a Task that has not ended: all of them or none.         *)
CreateChildren(h, k, p, T) ==
  /\ Access(h, p, 2) /\ Unused(h, k)
  /\ status[p] \in Working
  /\ status' = [t \in Tasks |-> IF t \in T THEN "open" ELSE status[t]]
  /\ parent' = [t \in Tasks |-> IF t \in T THEN p ELSE parent[t]]
  /\ Apply(h, k, T)
  /\ UNCHANGED <<leases, claim, grant, admin, claimNo, madeAt, workNo>>

createChildTask(h, k, p, t) == status[t] = "absent" /\ CreateChildren(h, k, p, {t})

DecomposeGlobalTask(h, k, p, T) ==
  Cardinality(T) > 1 /\ (\A t \in T : status[t] = "absent") /\ CreateChildren(h, k, p, T)

(* ClaimGlobalTask: acquired, or confirmed when the turn has it already.   *)
ClaimGlobalTask(h, k, t) ==
  /\ Access(h, t, 2) /\ Unused(h, k)
  /\ status[t] \in Working
  /\ Fenced(h)
  /\ claim[t] = NoClaim \/ Owned(h, t)
  /\ claim' = [claim EXCEPT ![t] =
       [session |-> turn[h].session, holder |-> h, token |-> turn[h].token]]
  /\ claimNo' = [claimNo EXCEPT ![t] = IF claim[t] = NoClaim THEN @ + 1 ELSE @]
  /\ madeAt' = [madeAt EXCEPT ![h][t] = claimNo'[t]]
  /\ Apply(h, k, {t})
  /\ UNCHANGED <<leases, tree, grant, admin, workNo>>

ReleaseGlobalTaskClaim(h, k, t) ==
  /\ Access(h, t, 2) /\ Unused(h, k)
  /\ Fenced(h)
  /\ Owned(h, t)
  /\ claim' = Without({t})
  /\ Apply(h, k, {t})
  /\ UNCHANGED <<leases, tree, grant, admin, claimNo, madeAt, workNo>>

taskUpdateNeedsClaim(t, patch) ==
  \/ patch \in {"summary", "in_progress", "blocked", "completed"}
  \/ patch = "open" /\ status[t] \in {"in_progress", "blocked"}

(* authorizeTaskUpdate without a management override.                      *)
authorizeTaskUpdate(h, t, patch) ==
  /\ taskUpdateNeedsClaim(t, patch) => Fenced(h) /\ Owned(h, t)
  /\ patch = "cancelled" /\ claim[t] # NoClaim => Fenced(h) /\ Owned(h, t)

(* The rest of updateGlobalTask's checks, and ValidateStatusTransition.    *)
ValidPatch(t, patch) ==
  /\ status[t] # "absent"
  /\ patch = "completed" => countActiveDescendants(t) = {}
  /\ patch = "open" /\ status[t] \in Ended => ~ hasTerminalAncestor(t)
  /\ patch \in Statuses => patch # status[t] /\ (status[t] \in Ended => patch = "open")

(* A child cancels and reopens only with a manage grant.                   *)
Level(t, patch) ==
  IF patch = "cancelled" \/ (patch = "open" /\ status[t] \in Ended) THEN 3 ELSE 2

Patched(t, patch) ==
  /\ status' = IF patch \in Statuses THEN [status EXCEPT ![t] = patch] ELSE status
  /\ claim' = IF patch \in Ended THEN Without({t}) ELSE claim

UpdateGlobalTask(h, k, t, patch) ==
  /\ Access(h, t, Level(t, patch)) /\ Unused(h, k)
  /\ authorizeTaskUpdate(h, t, patch)
  /\ ValidPatch(t, patch)
  /\ Patched(t, patch)
  /\ workNo' = IF taskUpdateNeedsClaim(t, patch)
               THEN [workNo EXCEPT ![t] = madeAt[h][t]] ELSE workNo
  /\ Apply(h, k, {t})
  /\ UNCHANGED <<leases, parent, grant, admin, claimNo, madeAt>>

-----------------------------------------------------------------------------
(* Recovery and management.                                                *)

(* RecoverInactiveTaskClaims, when a program starts.                       *)
RecoverInactiveTaskClaims ==
  /\ \E t \in Claimed : Inactive(claim[t])
  /\ claim' = Without({t \in Claimed : Inactive(claim[t])})
  /\ UNCHANGED <<leases, tree, grant, result, admin, history>>

OverrideReleaseGlobalTaskClaim(h, t) ==
  /\ Access(h, t, 3)
  /\ claim[t] # NoClaim
  /\ claim' = Without({t})
  /\ Spend
  /\ UNCHANGED <<leases, tree, grant, result, history>>

(* The claim is looked up but need not be owned.                           *)
ManagementUpdateGlobalTask(h, k, t, patch) ==
  /\ Access(h, t, 3) /\ Unused(h, k)
  /\ ValidPatch(t, patch)
  /\ Patched(t, patch)
  /\ Spend
  /\ Apply(h, k, {t})
  /\ UNCHANGED <<leases, parent, grant, claimNo, madeAt, workNo>>

(* The keys a turn may send: interchangeable, so a session's requests take *)
(* them in order.                                                          *)
Sent(h) ==
  {k \in Keys : /\ turn[h] # NoTurn /\ k <= scope.keys
                /\ \A j \in Keys : j < k => result[<<turn[h].session, j>>] # "none"}

Step ==
  \/ \E h \in scope.holders, s \in Sessions : AcquireTurnLease(h, s)
  \/ \E h \in Holders : HeartbeatTurnLease(h) \/ ReleaseTurnLease(h) \/ TurnLeaseWrite(h)
  \/ Tick
  \/ \E s \in Owners : ArchiveSession(s) \/ RestoreSession(s)
  \/ \E c \in scope.children, t \in scope.tasks :
       \/ AssignBuild(c, t) \/ ContinueBuild(c, t)
       \/ \E l \in scope.levels : IssueTaskAccessGrant(c, t, l)
  \/ \E c \in scope.children :
       StartContinuation(c) \/ SettleBuild(c) \/ TerminateTaskAccessGrant(c)
  \/ \E h \in Holders : \E k \in Sent(h) :
       \/ Reject(h, k)
       \/ \E t \in scope.tasks :
            \/ CreateRoot(h, k, t)
            \/ ClaimGlobalTask(h, k, t)
            \/ ReleaseGlobalTaskClaim(h, k, t)
            \/ \E p \in Patches :
                 UpdateGlobalTask(h, k, t, p) \/ ManagementUpdateGlobalTask(h, k, t, p)
            \/ \E u \in scope.tasks : createChildTask(h, k, t, u)
            \/ \E T \in SUBSET scope.tasks : DecomposeGlobalTask(h, k, t, T)
  \/ RecoverInactiveTaskClaims
  \/ \E h \in Holders, t \in scope.tasks : OverrideReleaseGlobalTaskClaim(h, t)

Next == Step /\ UNCHANGED scope

Spec == Init /\ [][Next]_vars

-----------------------------------------------------------------------------
(* A claim belongs to the turn that has its session's lease, or had it     *)
(* last: no claim outlives its turn's release or the session's next turn,  *)
(* so a turn never works beside claims of a dead one.                      *)
ClaimsFollowTheLease ==
  \A t \in Claimed : /\ lease[claim[t].session].holder = claim[t].holder
                     /\ lease[claim[t].session].token = claim[t].token

(* A Task that ended holds nobody's claim, whoever ended it.               *)
EndedTasksAreUnclaimed == \A t \in Claimed : status[t] \in Working

(* A completed Task has no unfinished work below it, whatever was created, *)
(* cancelled and reopened in its tree since.                               *)
CompletedMeansDone ==
  \A t \in Tasks : status[t] = "completed" =>
    ~ \E u \in Tasks : t \in Ancestors(u) /\ status[u] \in Working

(* A request changes the Tasks at most once, however often and in          *)
(* whichever turn of the session it is repeated.                           *)
RequestsApplyOnce == \A r \in Sessions \X Keys : applied[r] <= 1

(* A worker's authority never outlives its owner's conversation, though    *)
(* the worker itself may be between two attempts.                          *)
GrantsEndWithTheirOwners ==
  \A c \in Children : grant[c] # NoGrant => ParentOf[c] \in active

(* A worker changes only Tasks below one it was granted.                   *)
WorkersStayInTheirSubtree ==
  \A t \in Tasks : changer[t] \in Children =>
    \E r \in granted[changer[t]] : t \in Subtree(r)

(* Once another turn has claimed a Task, work that an earlier one did      *)
(* under its own claim is never accepted.                                  *)
LateWorkNeverLands ==
  [][\A t \in Tasks : workNo'[t] # workNo[t] => workNo'[t] = claimNo[t]]_workNo

(* The turns of a session write its history one after the other: once a    *)
(* turn has written, no turn before it does.                               *)
TurnsWriteInOrder == [][\A s \in Sessions : written'[s] >= written[s]]_written

(* Claims are those of the turns that hold their sessions.                 *)
ClaimsAreSound == TypeOK /\ ClaimsFollowTheLease /\ EndedTasksAreUnclaimed

(* What requests make of the Tasks.                                        *)
MutationsAreSound == CompletedMeansDone /\ RequestsApplyOnce

(* A worker's grant bounds what it does, and when.                         *)
GrantsAreBounds == GrantsEndWithTheirOwners /\ WorkersStayInTheirSubtree

(* A turn that lost its lease or its claim changes nothing any more.       *)
StaleTurnsChangeNothing == LateWorkNeverLands /\ TurnsWriteInOrder
=============================================================================
