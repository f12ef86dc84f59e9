------------------------------ MODULE TaskPlan ------------------------------
(***************************************************************************)
(* Task Tree orchestration: the plan of a tree (internal/task/plan.go),    *)
(* its dependencies (internal/eviedb/tasks_plan.go), the read model that   *)
(* tells a conversation which Tasks to dispatch (todo_ready) and the rules *)
(* that the admission of build workers enforces                            *)
(* (internal/eviedb/tasks_ready.go, subagents.go, subagent_build.go).      *)
(*                                                                         *)
(* Tasks are numbered in the order of their creation and Task 1 is the     *)
(* root.  A path is the sequence of its components.  Every conversation    *)
(* here is an orchestrating one, and all builds are of one repository.     *)
(***************************************************************************)
EXTENDS Naturals, SequencesExt, FiniteSets

CONSTANTS
    MaxTasks,      \* bound: Tasks of the tree
    Reported,      \* the statuses that callers report for a Task
    PathChoices,   \* the sets of paths a Task may declare; {} is any file
    MaxAttempts,   \* bound: build attempts
    MaxEdits,      \* bound: changes of a Task's plan after its creation
    MaxClaims,     \* bound: Tasks claimed at once
    MaxBatch,      \* assignments of one delegate_build call
    PerParent,     \* workers running at once for the conversation
    PerTurn        \* workers one turn may start

ASSUME PlanAssumption ==
    /\ {MaxTasks, MaxBatch, PerParent, PerTurn} \subseteq Nat \ {0}
    /\ Reported \subseteq {"open", "blocked", "completed", "cancelled"}
    /\ {MaxAttempts, MaxEdits, MaxClaims} \subseteq Nat

VARIABLES
    size,      \* number of Tasks
    parent,    \* parent of each Task, 0 for the root
    deps,      \* DependsOn of each Task
    paths,     \* Paths of each Task
    status,
    claims,    \* Tasks claimed by a live execution
    attempts,  \* build attempts in admission order
    started,   \* attempts this turn started
    edits      \* changes of plans so far

planVars == <<size, parent, deps, paths, status, claims, attempts, started, edits>>
tree == <<size, parent, deps, paths, edits>>

Ids == 1..MaxTasks
Tasks == 1..size
(* "open" stands for open and in progress, which the plan treats alike.    *)
Statuses == {"open", "blocked", "completed", "cancelled"}
Active == {"open", "blocked"}
States == {"running", "succeeded", "failed"}
Children(t) == {u \in Tasks: parent[u] = t}

(* Ancestors lists each Task's ancestors under p, nearest first.           *)
AncestorsFrom(p) ==
    LET up[t \in Ids] == IF p[t] = 0 THEN <<>> ELSE <<p[t]>> \o up[p[t]]
    IN up
Ancestors(t) == ToSet(AncestorsFrom(parent)[t])

PlanInit ==
    /\ size = 1
    /\ parent = [t \in Ids |-> 0]
    /\ deps = [t \in Ids |-> {}]
    /\ paths = [t \in Ids |-> {}]
    /\ status = [t \in Ids |-> "open"]
    /\ claims = {}
    /\ attempts = <<>>
    /\ started = 0
    /\ edits = 0

-----------------------------------------------------------------------------
(* Dependencies                                                            *)

(* Mutant: a subtask does not inherit what its ancestors wait for.         *)
OwnWaitsFor(m, p, d) ==
    [t \in 1..m |-> {u \in 1..m: u \in d[t] \/ p[u] = t}]

(* The "waits for" edges of the cycle check: a Task's own dependencies and *)
(* those of its ancestors, and its subtasks.                               *)
WaitsFor(m, p, d) ==
    LET above == AncestorsFrom(p)
    IN [t \in 1..m |-> {u \in 1..m: p[u] = t}
                         \cup UNION {d[a]: a \in {t} \cup ToSet(above[t])}]

(* DependencyCycle: some Tasks wait for one another for ever.              *)
DependencyCycle(m, p, d) ==
    LET edges == WaitsFor(m, p, d)
    IN \E S \in (SUBSET (1..m)) \ {{}}: \A t \in S: edges[t] \cap S # {}

(* checkTaskDependencies, of t's proposed list in the tree of m Tasks.     *)
DependenciesAllowed(m, p, d, t) ==
    /\ t \notin d[t] /\ d[t] \subseteq 1..m
    /\ d[t] \cap ToSet(AncestorsFrom(p)[t]) = {}
    /\ \A u \in d[t]: t \notin ToSet(AncestorsFrom(p)[u])
    /\ ~DependencyCycle(m, p, d)

-----------------------------------------------------------------------------
(* Paths                                                                   *)

(* PathsOverlap: equal, one inside the other, or either not declared.      *)
PathsOverlap(left, right) ==
    \/ left = {} \/ right = {}
    \/ \E l \in left, r \in right: IsPrefix(l, r) \/ IsPrefix(r, l)

-----------------------------------------------------------------------------
(* Builds                                                                  *)

Running == {i \in DOMAIN attempts: attempts[i].state = "running"}
OnTask(t) == {i \in DOMAIN attempts: attempts[i].task = t}

(* Phase of an attempt for orchestration.                                  *)
PhaseOf(a) ==
    CASE a.state = "running" -> "running"
      [] a.state # "running" /\ a.merged -> "merged"
      [] a.state # "running" /\ ~a.merged /\ a.removed -> "settled"
      [] a.state = "succeeded" /\ ~a.merged /\ ~a.removed /\ a.commits -> "awaiting_merge"
      [] a.state = "failed" /\ ~a.merged /\ ~a.removed -> "resumable"
      [] OTHER -> "settled"

(* A Task's latest build: a newer assignment or continuation supersedes.   *)
Phase(t) == IF OnTask(t) = {} THEN "settled"
            ELSE PhaseOf(attempts[CHOOSE i \in OnTask(t): \A j \in OnTask(t): j <= i])
Pending(t) == Phase(t) \in {"running", "awaiting_merge"}

(* EffectiveDependencies: a subtask cannot start before its parent could.  *)
EffectiveDependencies(t) == deps[t] \cup UNION {deps[a]: a \in Ancestors(t)}
DependencyDone(t) == status[t] = "completed" /\ ~Pending(t)
UnfinishedDependencies(t) == {u \in EffectiveDependencies(t): ~DependencyDone(u)}

(* CoveringWork: an ancestor's build is running.                           *)
Covered(t) == \E a \in Ancestors(t): Phase(a) = "running"

-----------------------------------------------------------------------------
(* Readiness, the read model of todo_ready                                 *)

(* BatchSize: the smallest of the call's, the conversation's and the       *)
(* turn's room.                                                            *)
Room(a, b) == IF a > b THEN a - b ELSE 0
BatchSize ==
    LET ofParent == Room(PerParent, Cardinality(Running))
        ofTurn == Room(PerTurn, started)
        lower(a, b) == IF a < b THEN a ELSE b
    IN lower(MaxBatch, lower(ofParent, ofTurn))

Unended(t) == status[t] \in Active

(* Tasks whose work looks finished: subtasks done, or the build merged.    *)
Completable ==
    {t \in Tasks:
        /\ Unended(t) /\ ~Pending(t) /\ ~Covered(t)
        /\ IF Children(t) # {}
           THEN \A u \in Children(t): ~Unended(u) /\ ~Pending(u)
           ELSE Phase(t) = "merged"}

(* Builds that hold paths: running or awaiting their merge.                *)
Occupied(t) ==
    \E u \in Tasks \ ({t} \cup Ancestors(t)):
        Pending(u) /\ PathsOverlap(paths[t], paths[u])

(* A leaf that can be dispatched now.                                      *)
Ready(t) ==
    /\ Unended(t) /\ ~Pending(t) /\ ~Covered(t)
    /\ Children(t) = {}
    /\ Phase(t) # "merged"
    /\ status[t] # "blocked"
    /\ t \notin claims
    /\ UnfinishedDependencies(t) = {}
    /\ ~Occupied(t)

(* Tree order: depth first, siblings in the order of their creation.       *)
PathTo(t) == Reverse(AncestorsFrom(parent)[t]) \o <<t>>
Before(t, u) ==
    LET p == PathTo(t) q == PathTo(u)
    IN \/ IsStrictPrefix(p, q)
       \/ \E i \in DOMAIN p \cap DOMAIN q:
             p[i] < q[i] /\ \A j \in 1..(i - 1): p[j] = q[j]
Candidates ==
    LET ready == {t \in Tasks: Ready(t)}
        nth(k) == CHOOSE t \in ready: Cardinality({u \in ready: Before(u, t)}) = k - 1
    IN [k \in 1..Cardinality(ready) |-> nth(k)]

(* First fit: a Task joins the first batch that has room and holds nothing *)
(* it conflicts with.                                                      *)
Place(batches, t) ==
    LET fits == {i \in DOMAIN batches:
                   /\ Len(batches[i]) < BatchSize
                   /\ \A j \in DOMAIN batches[i]: ~PathsOverlap(paths[t], paths[batches[i][j]])}
    IN IF fits = {} THEN Append(batches, <<t>>)
       ELSE LET i == CHOOSE i \in fits: \A j \in fits: i <= j
            IN [batches EXCEPT ![i] = Append(@, t)]
Batches == IF BatchSize = 0 THEN <<>> ELSE FoldLeft(Place, <<>>, Candidates)

-----------------------------------------------------------------------------
(* Admission of build workers                                              *)

(* prepareBuildTask: the Task is open, free and has no unfinished build.   *)
Free(t) ==
    /\ Unended(t)
    /\ t \notin claims
    /\ \A i \in OnTask(t): attempts[i].state # "running"

(* Mutant: only Tasks that declare the same paths conflict.                *)
NoEqualPaths(t, except) ==
    \A i \in Running:
        attempts[i].child # except /\ attempts[i].task # t
          => paths[t] # paths[attempts[i].task]

(* checkRunningBuildConflicts, against running builds of other Tasks.      *)
NoRunningConflict(t, except) ==
    \A i \in Running:
        attempts[i].child # except /\ attempts[i].task # t
          => ~PathsOverlap(paths[t], paths[attempts[i].task])

(* checkBuildOrchestration of the k-th Task of a call.                     *)
Orchestrated(batch, k) ==
    LET t == batch[k] IN
    /\ ~Covered(t)
    /\ \A j \in 1..(k - 1): batch[j] \notin Ancestors(t)
    /\ UnfinishedDependencies(t) = {}
    /\ \A j \in 1..(k - 1): ~PathsOverlap(paths[t], paths[batch[j]])
    /\ NoRunningConflict(t, 0)

(* admitSubagents: all of a call's assignments or none.                    *)
Admissible(batch) ==
    /\ Len(batch) <= MaxBatch
    /\ started + Len(batch) <= PerTurn
    /\ \A k \in DOMAIN batch:
          /\ \A j \in 1..(k - 1): batch[j] # batch[k]
          /\ Free(batch[k])
          /\ Orchestrated(batch, k)

Attempt(t, child) ==
    [task |-> t, child |-> child, state |-> "running", commits |-> FALSE,
     merged |-> FALSE, removed |-> FALSE]

Calls == UNION {[1..k -> Tasks]: k \in 1..MaxBatch}

AdmitBuilds(batch) ==
    /\ Len(attempts) + Len(batch) <= MaxAttempts
    /\ Admissible(batch)
    /\ attempts' = attempts \o
         [k \in DOMAIN batch |-> Attempt(batch[k], Len(attempts) + k)]
    /\ started' = started + Len(batch)
    /\ UNCHANGED <<tree, status, claims>>

ChildAttempts(c) == {j \in DOMAIN attempts: attempts[j].child = c}

(* resumableSubagent: the child's latest report, none of its attempts      *)
(* unfinished.                                                             *)
Resumable(i) ==
    LET own == ChildAttempts(attempts[i].child) IN
    /\ attempts[i].state = "succeeded"
    /\ \A j \in own: attempts[j].state # "running"
    /\ \A j \in own: attempts[j].state = "succeeded" => j <= i

(* AdmitSubagentContinuation, in the child's worktree; the conflicts of    *)
(* its Task with other Tasks are checked.                                  *)
ContinueBuild(i) ==
    LET a == attempts[i] IN
    /\ Len(attempts) < MaxAttempts
    /\ started < PerTurn
    /\ Resumable(i) /\ ~a.removed
    /\ NoRunningConflict(a.task, a.child)
    /\ attempts' = Append(attempts, Attempt(a.task, a.child))
    /\ started' = started + 1
    /\ UNCHANGED <<tree, status, claims>>

(* The attempt ends with a report and perhaps commits, or fails.           *)
FinishBuild(i) ==
    /\ attempts[i].state = "running"
    /\ \E s \in {"succeeded", "failed"}, c \in BOOLEAN:
          attempts' = [attempts EXCEPT ![i].state = s, ![i].commits = c]
    /\ UNCHANGED <<tree, status, claims, started>>

(* completeMerge, or a worktree removed without a merge.                   *)
CleanUp(i, merged) ==
    LET c == attempts[i].child IN
    /\ \A j \in ChildAttempts(c): j <= i /\ attempts[j].state # "running" /\ ~attempts[j].removed
    /\ merged => attempts[i].commits
    /\ attempts' = [j \in DOMAIN attempts |->
          IF attempts[j].child # c THEN attempts[j]
          ELSE [attempts[j] EXCEPT !.removed = TRUE, !.merged = (j = i /\ merged)]]
    /\ UNCHANGED <<tree, status, claims, started>>

NewTurn ==
    /\ started > 0
    /\ started' = 0
    /\ UNCHANGED <<tree, status, claims, attempts>>

-----------------------------------------------------------------------------
(* Changes of the tree                                                     *)

(* A subtask under a Task that has not ended, with its plan.               *)
CreateTask(p, D, P) ==
    LET t == size + 1
        parents == [parent EXCEPT ![t] = p]
        planned == [deps EXCEPT ![t] = D]
    IN
    /\ size < MaxTasks
    /\ Unended(p)
    /\ D # {} => DependenciesAllowed(t, parents, planned, t)
    /\ size' = t
    /\ parent' = parents
    /\ deps' = planned
    /\ paths' = [paths EXCEPT ![t] = P]
    /\ UNCHANGED <<status, claims, attempts, started, edits>>

UpdateDependencies(t, D) ==
    /\ edits < MaxEdits
    /\ D # deps[t]
    /\ DependenciesAllowed(size, parent, [deps EXCEPT ![t] = D], t)
    /\ deps' = [deps EXCEPT ![t] = D]
    /\ edits' = edits + 1
    /\ UNCHANGED <<size, parent, paths, status, claims, attempts, started>>

UpdatePaths(t, P) ==
    /\ edits < MaxEdits
    /\ P # paths[t]
    /\ paths' = [paths EXCEPT ![t] = P]
    /\ edits' = edits + 1
    /\ UNCHANGED <<size, parent, deps, status, claims, attempts, started>>

(* A Task is completed after its subtasks and reopens before them; it can  *)
(* be cancelled at any time.                                               *)
SetStatus(t, s) ==
    /\ s # status[t]
    /\ s = "completed" => \A u \in Tasks: t \in Ancestors(u) => ~Unended(u)
    /\ ~Unended(t) => s = "open" /\ \A a \in Ancestors(t): Unended(a)
    /\ status' = [status EXCEPT ![t] = s]
    /\ claims' = IF s \in Active THEN claims ELSE claims \ {t}
    /\ UNCHANGED <<tree, attempts, started>>

(* The conversation, or a worker, claims a Task or lets it go.             *)
ToggleClaim(t) ==
    /\ t \notin claims => Unended(t) /\ Cardinality(claims) < MaxClaims
    /\ claims' = IF t \in claims THEN claims \ {t} ELSE claims \cup {t}
    /\ UNCHANGED <<tree, status, attempts, started>>

PlanNext ==
    \/ \E p \in Tasks, D \in SUBSET Tasks, P \in PathChoices: CreateTask(p, D, P)
    \/ \E t \in Tasks:
          \/ \E D \in SUBSET Tasks: UpdateDependencies(t, D)
          \/ \E P \in PathChoices: UpdatePaths(t, P)
          \/ \E s \in Reported: SetStatus(t, s)
          \/ ToggleClaim(t)
    \/ \E batch \in Calls: AdmitBuilds(batch)
    \/ \E i \in DOMAIN attempts:
          ContinueBuild(i) \/ FinishBuild(i) \/ \E merged \in BOOLEAN: CleanUp(i, merged)
    \/ NewTurn

PlanSpec == PlanInit /\ [][PlanNext]_planVars

-----------------------------------------------------------------------------
(* Properties                                                              *)

(* The plan's values; a Task that has ended is claimed by nobody.          *)
PlanTypeOK ==
    /\ size \in Ids
    /\ parent \in [Ids -> 0..MaxTasks]
    /\ \A t \in Ids: parent[t] < t /\ (t > 1 /\ t <= size => parent[t] > 0)
    /\ deps \in [Ids -> SUBSET Ids]
    /\ status \in [Ids -> Statuses]
    /\ claims \subseteq {t \in Tasks: Unended(t)}
    /\ Len(attempts) <= MaxAttempts
    /\ started \in 0..PerTurn
    /\ \A i \in DOMAIN attempts: attempts[i].state \in States /\ attempts[i].task \in Tasks

(* What todo_ready offers can be dispatched: every batch passes the        *)
(* admission rules, which are written a second time in tasks_ready.go, as  *)
(* one delegate_build call.  Only where two attempts ran on one Task at a  *)
(* time, after a continuation, may the later one hide the earlier, which   *)
(* still runs, from the plan.                                              *)
BatchesAreAdmissible ==
    (\A i \in Running: \A j \in OnTask(attempts[i].task): j <= i)
      => \A i \in DOMAIN Batches: Admissible(Batches[i])

(* Builds that run at once on two Tasks touch disjoint paths, as long as   *)
(* no Task's plan is edited, which may happen under its build.             *)
RunningBuildsAreDisjoint ==
    \A i \in Running, j \in Running:
        edits = 0 /\ attempts[i].task # attempts[j].task
          => ~PathsOverlap(paths[attempts[i].task], paths[attempts[j].task])

(* The plan and the admission of workers agree: the rows are well formed,  *)
(* what is offered is admitted, and what runs at once is disjoint.         *)
BuildsAreAdmissible == PlanTypeOK /\ BatchesAreAdmissible /\ RunningBuildsAreDisjoint

(* A plan never gets stuck: while a Task has not ended, nothing is in      *)
(* flight, claimed or marked blocked, no dependency was cancelled and the  *)
(* turn may still start a worker, some Task is ready or completable.  A    *)
(* cycle the dependency check let through would leave none.                *)
PlanCanGoOn ==
    (/\ \E t \in Tasks: Unended(t)
     /\ \A t \in Tasks: ~Pending(t) /\ status[t] # "blocked"
     /\ claims = {}
     /\ \A t \in Tasks, u \in Tasks: u \in deps[t] => status[u] # "cancelled"
     /\ BatchSize > 0)
      => Candidates # <<>> \/ Completable # {}

=============================================================================
