-------------------------- MODULE TaskStoreProofs --------------------------
(***************************************************************************)
(* The proofs about TaskStore: that its claims, requests and grants are    *)
(* sound, for any numbers of sessions, turns, Tasks and requests, and that *)
(* a turn that lost its lease or its claim changes nothing any more.       *)
(***************************************************************************)
EXTENDS TaskStore, TLAPS

(* The bounds are some of those to consider, and the history variables     *)
(* hold values of their kinds.                                             *)
HistoryOK ==
  /\ scope \in [holders : SUBSET Holders, children : SUBSET Children,
                tasks : SUBSET Tasks, keys : Nat, levels : SUBSET (1..3),
                turns : Nat, admin : Nat]
  /\ written \in [Sessions -> Nat]
  /\ claimNo \in [Tasks -> Nat]
  /\ madeAt \in [Holders -> [Tasks -> Nat]]
  /\ workNo \in [Tasks -> Int]
  /\ applied \in [Sessions \X Keys -> Nat]
  /\ changer \in [Tasks -> Sessions \cup {NoHolder}]
  /\ granted \in [Children -> SUBSET Tasks]

(* A closed child session has no claims: a settled attempt gave them up.   *)
ClosedChildrenHoldNothing ==
  \A t \in Claimed : claim[t].session \in Children => claim[t].session \in active

(* The claim on a Task is its latest one.                                  *)
ClaimsAreTheLatest ==
  \A t \in Claimed : madeAt[claim[t].holder][t] = claimNo[t]

(* What a session wrote, it wrote under a token it was given.              *)
WritesAreFenced == \A s \in Sessions : written[s] <= lease[s].token

(* A request without an outcome changed nothing.                           *)
OutcomesAreStored ==
  \A r \in Sessions \X Keys : result[r] = "none" => applied[r] = 0

(* An active grant is among those of its child.                            *)
GrantsAreRecorded == \A c \in Children : grant[c] # NoGrant => grant[c].root \in granted[c]

(* A Task that does not exist is in no tree and was never changed.         *)
TreeOK ==
  \A t \in Tasks :
    /\ status[t] = "absent" => parent[t] = NoTask /\ changer[t] = NoHolder
    /\ parent[t] # NoTask => status[parent[t]] # "absent"

(* The inductive invariant.                                                *)
Leases == ClaimsFollowTheLease /\ ClosedChildrenHoldNothing /\ ClaimsAreTheLatest
Work == WritesAreFenced /\ OutcomesAreStored /\ RequestsApplyOnce
Grants == GrantsEndWithTheirOwners /\ GrantsAreRecorded /\ WorkersStayInTheirSubtree
Tree == TreeOK /\ CompletedMeansDone
IInv == /\ TypeOK /\ HistoryOK
        /\ Leases /\ EndedTasksAreUnclaimed
        /\ Work /\ Grants /\ Tree

-----------------------------------------------------------------------------
(* Ancestors.                                                              *)

(* The ancestors of a Task as a function of the parents, so that a lemma   *)
(* about them applies before and after a step.                             *)
ClosedUnder(f, S) == \A u \in S : f[u] \in S \cup {NoTask}
Above(f, t) ==
  {a \in Tasks : \A S \in SUBSET Tasks :
                   ClosedUnder(f, S) /\ f[t] \in S \cup {NoTask} => a \in S}

LEMMA AncestorsAreAbove ==
  ASSUME NEW t
  PROVE  /\ Ancestors(t) = Above(parent, t)
         /\ Ancestors(t)' = Above(parent', t)
BY DEF Ancestors, Closed, Above, ClosedUnder

(* The ancestors of a Task are closed and hold its parent.                 *)
LEMMA AboveIsClosed ==
  ASSUME NEW f \in [Tasks -> Tasks \cup {NoTask}], NEW t \in Tasks
  PROVE  /\ Above(f, t) \subseteq Tasks
         /\ ClosedUnder(f, Above(f, t))
         /\ f[t] \in Above(f, t) \cup {NoTask}
<1>1. ASSUME NEW u \in Above(f, t) PROVE f[u] \in Above(f, t) \cup {NoTask}
  <2>1. u \in Tasks /\ f[u] \in Tasks \cup {NoTask}
    BY DEF Above
  <2>2. ASSUME f[u] # NoTask, NEW S \in SUBSET Tasks, ClosedUnder(f, S),
               f[t] \in S \cup {NoTask}
        PROVE  f[u] \in S
    BY <2>2 DEF Above, ClosedUnder
  <2> QED
    BY <2>1, <2>2 DEF Above
<1>2. f[t] \in Above(f, t) \cup {NoTask}
  BY DEF Above
<1> QED
  BY <1>1, <1>2 DEF Above, ClosedUnder

(* They are the least such set.                                            *)
LEMMA AboveIsLeast ==
  ASSUME NEW f, NEW t, NEW S \in SUBSET Tasks, ClosedUnder(f, S),
         f[t] \in S \cup {NoTask}
  PROVE  Above(f, t) \subseteq S
BY DEF Above

LEMMA AboveTheParent ==
  ASSUME NEW f \in [Tasks -> Tasks \cup {NoTask}], NEW t \in Tasks, f[t] # NoTask
  PROVE  Above(f, t) = {f[t]} \cup Above(f, f[t])
<1> DEFINE p == f[t]
           S == {p} \cup Above(f, p)
<1>1. p \in Tasks
  OBVIOUS
<1>2. Above(f, p) \subseteq Tasks /\ ClosedUnder(f, Above(f, p))
      /\ f[p] \in Above(f, p) \cup {NoTask}
  BY <1>1, AboveIsClosed
<1>3. Above(f, t) \subseteq Tasks /\ ClosedUnder(f, Above(f, t)) /\ p \in Above(f, t)
  BY AboveIsClosed
<1>4. S \in SUBSET Tasks /\ ClosedUnder(f, S) /\ f[t] \in S \cup {NoTask}
  BY <1>1, <1>2 DEF ClosedUnder
<1>5. Above(f, t) \subseteq S
  BY <1>4, AboveIsLeast
<1>6. f[p] \in Above(f, t) \cup {NoTask}
  BY <1>3 DEF ClosedUnder
<1>7. Above(f, p) \subseteq Above(f, t)
  BY <1>3, <1>6, AboveIsLeast
<1> QED
  BY <1>3, <1>5, <1>7

LEMMA AboveARoot ==
  ASSUME NEW f, NEW t, f[t] = NoTask
  PROVE  Above(f, t) = {}
<1>1. {} \in SUBSET Tasks /\ ClosedUnder(f, {})
  BY DEF ClosedUnder
<1> QED
  BY <1>1, AboveIsLeast

(* Giving a parent to Tasks that were in no tree leaves the ancestors of   *)
(* the others alone.  E are the Tasks that exist.                          *)
LEMMA NewTasksKeepAbove ==
  ASSUME NEW f \in [Tasks -> Tasks \cup {NoTask}], NEW g \in [Tasks -> Tasks \cup {NoTask}],
         NEW E \in SUBSET Tasks, ClosedUnder(f, E),
         \A u \in E : g[u] = f[u],
         NEW t \in E
  PROVE  Above(f, t) \subseteq E /\ Above(g, t) = Above(f, t)
<1>1. f[t] \in E \cup {NoTask}
  BY DEF ClosedUnder
<1>2. Above(f, t) \subseteq E
  BY <1>1, AboveIsLeast
<1>3. Above(f, t) \subseteq Tasks /\ ClosedUnder(f, Above(f, t))
      /\ f[t] \in Above(f, t) \cup {NoTask}
  BY AboveIsClosed
<1>4. ClosedUnder(g, Above(f, t)) /\ g[t] \in Above(f, t) \cup {NoTask}
  BY <1>2, <1>3 DEF ClosedUnder
<1>5. Above(g, t) \subseteq Above(f, t)
  BY <1>3, <1>4, AboveIsLeast
<1>6. Above(g, t) \subseteq Tasks /\ ClosedUnder(g, Above(g, t))
      /\ g[t] \in Above(g, t) \cup {NoTask}
  BY AboveIsClosed
<1>7. ClosedUnder(f, Above(g, t)) /\ f[t] \in Above(g, t) \cup {NoTask}
  BY <1>2, <1>5, <1>6 DEF ClosedUnder
<1>8. Above(f, t) \subseteq Above(g, t)
  BY <1>6, <1>7, AboveIsLeast
<1> QED
  BY <1>2, <1>5, <1>8

(* A step that leaves the parents alone leaves every tree alone.           *)
LEMMA TreesKeep ==
  ASSUME UNCHANGED parent
  PROVE  \A t : Ancestors(t)' = Ancestors(t) /\ Subtree(t)' = Subtree(t)
<1>1. ASSUME NEW t PROVE Ancestors(t)' = Ancestors(t)
  BY AncestorsAreAbove
<1> QED
  BY <1>1 DEF Subtree

(* The Tasks that exist.                                                   *)
Existing == {t \in Tasks : status[t] # "absent"}

LEMMA ExistingIsClosed ==
  ASSUME TypeOK, TreeOK
  PROVE  ClosedUnder(parent, Existing)
BY DEF TypeOK, TreeOK, Existing, ClosedUnder

LEMMA AncestorsExist ==
  ASSUME TypeOK, TreeOK, NEW t \in Tasks
  PROVE  Ancestors(t) \subseteq Existing
<1>1. CASE status[t] = "absent"
  <2>1. Ancestors(t) = {}
    BY <1>1, AncestorsAreAbove, AboveARoot DEF TreeOK
  <2> QED
    BY <2>1
<1>2. CASE status[t] # "absent"
  <2>1. parent \in [Tasks -> Tasks \cup {NoTask}] /\ ClosedUnder(parent, Existing)
        /\ Existing \in SUBSET Tasks /\ t \in Existing
    BY <1>2, ExistingIsClosed DEF TypeOK, Existing
  <2>2. Above(parent, t) \subseteq Existing
    BY <2>1, NewTasksKeepAbove
  <2> QED
    BY <2>2, AncestorsAreAbove
<1> QED
  BY <1>1, <1>2

(* What createChildTask and DecomposeGlobalTask do to the tree.            *)
LEMMA NewTasksKeepTrees ==
  ASSUME TypeOK, TreeOK, NEW T \in SUBSET Tasks, \A t \in T : status[t] = "absent",
         NEW p \in Existing,
         parent' = [t \in Tasks |-> IF t \in T THEN p ELSE parent[t]]
  PROVE  /\ parent' \in [Tasks -> Tasks \cup {NoTask}]
         /\ \A t \in Tasks \ T : Ancestors(t)' = Ancestors(t)
         /\ \A t \in T : Ancestors(t)' = {p} \cup Ancestors(p)
<1>1. /\ parent \in [Tasks -> Tasks \cup {NoTask}] /\ ClosedUnder(parent, Existing)
      /\ Existing \in SUBSET Tasks
  BY ExistingIsClosed DEF TypeOK, Existing
<1>2. parent' \in [Tasks -> Tasks \cup {NoTask}]
  BY <1>1
<1>3. \A t \in Existing : parent'[t] = parent[t]
  BY DEF Existing
<1>4. ASSUME NEW t \in Existing PROVE Ancestors(t)' = Ancestors(t)
  <2>1. Above(parent', t) = Above(parent, t)
    BY <1>1, <1>2, <1>3, NewTasksKeepAbove
  <2> QED
    BY <2>1, AncestorsAreAbove
<1>5. ASSUME NEW t \in Tasks \ T, t \notin Existing PROVE Ancestors(t)' = Ancestors(t)
  <2>1. parent[t] = NoTask /\ parent'[t] = NoTask
    BY <1>5 DEF TreeOK, Existing
  <2>2. Above(parent', t) = {} /\ Above(parent, t) = {}
    BY <2>1, AboveARoot
  <2> QED
    BY <2>2, AncestorsAreAbove
<1>6. ASSUME NEW t \in T PROVE Ancestors(t)' = {p} \cup Ancestors(p)
  <2>1. p \in Tasks /\ p # NoTask
    BY TaskStoreAssumption DEF Existing
  <2>2. t \in Tasks /\ parent'[t] = p
    OBVIOUS
  <2>3. Above(parent', t) = {p} \cup Above(parent', p)
    BY <1>2, <2>1, <2>2, AboveTheParent
  <2>4. Ancestors(p)' = Ancestors(p)
    BY <1>4
  <2> QED
    BY <2>3, <2>4, AncestorsAreAbove
<1> QED
  BY <1>2, <1>4, <1>5, <1>6

-----------------------------------------------------------------------------
(* What several actions do.                                                *)

(* What a step may not do: LateWorkNeverLands and TurnsWriteInOrder.       *)
WorkIsOfTheLatest == \A t \in Tasks : workNo'[t] # workNo[t] => workNo'[t] = claimNo[t]
WritesGoOn == \A s \in Sessions : written'[s] >= written[s]
Orderly == WorkIsOfTheLatest /\ WritesGoOn

LeaseRows(n) == [holder : Holders \cup {NoHolder}, token : 0..n, left : 0..LeaseTicks]
Turns(n) == {NoTurn} \cup [session : Sessions, token : 1..n]
Claims(n) == {NoClaim} \cup [session : Sessions, holder : Holders, token : 1..n]

(* Claims that stay keep their meaning: their session's lease is not given *)
(* to another turn, their child stays open, their Task does not end.       *)
LEMMA FewerClaims ==
  ASSUME TypeOK, Leases, EndedTasksAreUnclaimed, UNCHANGED scope,
         NEW S, claim' = Without(S), UNCHANGED <<claimNo, madeAt>>,
         \A t \in Claimed \ S :
           /\ lease'[claim[t].session].holder = lease[claim[t].session].holder
           /\ lease'[claim[t].session].token = lease[claim[t].session].token
           /\ claim[t].session \in Children => claim[t].session \in active'
           /\ status'[t] \in Working
  PROVE  /\ claim' \in [Tasks -> Claims(scope.turns)]
         /\ Leases' /\ EndedTasksAreUnclaimed'
<1>1. claim \in [Tasks -> Claims(scope.turns)] /\ NoClaim \in Claims(scope.turns)
  BY DEF TypeOK, Claims
<1>2. claim' \in [Tasks -> Claims(scope.turns)]
  BY <1>1 DEF Without
<1>3. ASSUME NEW t \in Claimed' PROVE t \in Claimed \ S /\ claim'[t] = claim[t]
  BY DEF Claimed, Without
<1> QED
  BY <1>2, <1>3 DEF Leases, ClaimsFollowTheLease, ClosedChildrenHoldNothing,
     ClaimsAreTheLatest, EndedTasksAreUnclaimed

LEMMA SameClaims ==
  ASSUME TypeOK, UNCHANGED claim
  PROVE  claim' = Without({})
BY DEF TypeOK, Without

(* Claims are those of holders of sessions.                                *)
LEMMA ClaimedIsTyped ==
  ASSUME TypeOK, NEW t \in Claimed
  PROVE  /\ t \in Tasks /\ claim[t].session \in Sessions /\ claim[t].holder \in Holders
         /\ claim[t].token \in Nat
         /\ claim[t] \in [session : Sessions, holder : Holders, token : 1..scope.turns]
<1>1. t \in Tasks /\ claim[t] \in [session : Sessions, holder : Holders, token : 1..scope.turns]
  BY DEF TypeOK, Claimed
<1> QED
  BY <1>1

LEMMA TurnIsTyped ==
  ASSUME TypeOK, HistoryOK, NEW h \in Holders, turn[h] # NoTurn
  PROVE  /\ turn[h].session \in Sessions /\ turn[h].token \in 1..scope.turns
         /\ turn[h].token \in Nat /\ scope.turns \in Nat
<1>1. turn[h] \in [session : Sessions, token : 1..scope.turns]
  BY DEF TypeOK
<1>2. scope.turns \in Nat
  BY DEF HistoryOK
<1> QED
  BY <1>1, <1>2

LEMMA TreeIsKept ==
  ASSUME Tree, UNCHANGED <<status, parent, changer>>
  PROVE  Tree'
<1>1. \A t \in Tasks : Ancestors(t)' = Ancestors(t)
  BY TreesKeep
<1> QED
  BY <1>1 DEF Tree, TreeOK, CompletedMeansDone

LEMMA WorkersAreKept ==
  ASSUME WorkersStayInTheirSubtree, UNCHANGED <<parent, changer>>,
         \A c \in Children : granted[c] \subseteq granted'[c]
  PROVE  WorkersStayInTheirSubtree'
<1>1. \A t : Subtree(t)' = Subtree(t)
  BY TreesKeep
<1> QED
  BY <1>1 DEF WorkersStayInTheirSubtree

(* A step of leases and sessions that leaves Tasks, grants and requests    *)
(* alone.                                                                  *)
LEMMA LeaseStepKeeps ==
  ASSUME IInv, UNCHANGED <<scope, status, parent, grant, result, admin, claimNo, madeAt,
                           workNo, applied, changer, granted, written>>,
         active \subseteq active', active' \subseteq Sessions,
         lease' \in [Sessions -> LeaseRows(scope.turns)],
         turn' \in [Holders -> Turns(scope.turns)],
         \A s \in Sessions : lease'[s].token >= lease[s].token,
         NEW S, claim' = Without(S),
         \A t \in Claimed \ S :
           /\ lease'[claim[t].session].holder = lease[claim[t].session].holder
           /\ lease'[claim[t].session].token = lease[claim[t].session].token
  PROVE  IInv' /\ Orderly
<1>1. \A t \in Claimed \ S : /\ claim[t].session \in Children => claim[t].session \in active'
                             /\ status'[t] \in Working
  BY DEF IInv, Leases, ClosedChildrenHoldNothing, EndedTasksAreUnclaimed
<1>2. claim' \in [Tasks -> Claims(scope.turns)] /\ Leases' /\ EndedTasksAreUnclaimed'
  BY <1>1, FewerClaims DEF IInv
<1>3. TypeOK'
  BY <1>2 DEF IInv, TypeOK, LeaseRows, Turns, Claims
<1>4. HistoryOK'
  BY DEF IInv, HistoryOK
<1>5. Work'
  <2>1. ASSUME NEW s \in Sessions PROVE written'[s] <= lease'[s].token
    <3>1. written[s] \in Nat /\ lease[s].token \in Nat /\ lease'[s].token \in Nat
          /\ written[s] <= lease[s].token
      BY <1>3 DEF IInv, HistoryOK, TypeOK, Work, WritesAreFenced
    <3> QED
      BY <3>1
  <2> QED
    BY <2>1 DEF IInv, Work, WritesAreFenced, OutcomesAreStored, RequestsApplyOnce
<1>6. Grants'
  <2>1. WorkersStayInTheirSubtree'
    BY WorkersAreKept DEF IInv, Grants
  <2> QED
    BY <2>1 DEF IInv, Grants, GrantsEndWithTheirOwners, GrantsAreRecorded
<1>7. Tree'
  BY TreeIsKept DEF IInv
<1>8. Orderly
  BY DEF IInv, HistoryOK, Orderly, WorkIsOfTheLatest, WritesGoOn
<1> QED
  BY <1>2, <1>3, <1>4, <1>5, <1>6, <1>7, <1>8 DEF IInv

-----------------------------------------------------------------------------
(* One lemma for each action on leases, sessions and grants.               *)

LEMMA AcquireTurnLeaseKeeps ==
  ASSUME IInv, UNCHANGED scope, NEW h \in Holders, NEW s \in Sessions, AcquireTurnLease(h, s)
  PROVE  IInv' /\ Orderly
<1> DEFINE S == {t \in Claimed : claim[t].session = s /\ Inactive(claim[t])}
           row == [holder |-> h, token |-> lease[s].token + 1, left |-> LeaseTicks]
<1>1. /\ ~ Live(s) /\ lease[s].token < scope.turns
      /\ claim' = Without(S) /\ lease' = [lease EXCEPT ![s] = row]
      /\ turn' = [turn EXCEPT ![h] = [session |-> s, token |-> lease[s].token + 1]]
      /\ UNCHANGED <<active, status, parent, grant, result, admin, claimNo, madeAt,
                     workNo, applied, changer, granted, written>>
  BY DEF AcquireTurnLease, tree, history
<1>2. /\ lease \in [Sessions -> LeaseRows(scope.turns)] /\ turn \in [Holders -> Turns(scope.turns)]
      /\ active \subseteq Sessions /\ scope.turns \in Nat /\ LeaseTicks \in Nat
  BY TaskStoreAssumption DEF IInv, TypeOK, HistoryOK, LeaseRows, Turns
<1>3. /\ row \in LeaseRows(scope.turns) /\ row.token >= lease[s].token
      /\ [session |-> s, token |-> lease[s].token + 1] \in Turns(scope.turns)
  BY <1>1, <1>2 DEF LeaseRows, Turns
<1>4. /\ lease' \in [Sessions -> LeaseRows(scope.turns)]
      /\ turn' \in [Holders -> Turns(scope.turns)]
  BY <1>1, <1>2, <1>3
<1>5. \A r \in Sessions : lease'[r].token >= lease[r].token
  BY <1>1, <1>2, <1>3 DEF LeaseRows
<1>6. ASSUME NEW t \in Claimed \ S
      PROVE  /\ lease'[claim[t].session].holder = lease[claim[t].session].holder
             /\ lease'[claim[t].session].token = lease[claim[t].session].token
  <2>1. claim[t].session \in Sessions
    BY ClaimedIsTyped DEF IInv
  <2>2. claim[t].session # s
    BY <1>1 DEF Inactive
  <2> QED
    BY <1>1, <1>2, <2>1, <2>2
<1> HIDE DEF S, row
<1> QED
  BY <1>1, <1>2, <1>4, <1>5, <1>6, LeaseStepKeeps

(* A lease row whose ticks change.                                         *)
LEMMA LeftKeepsLeases ==
  ASSUME NEW n \in Nat, NEW r \in LeaseRows(n), NEW l \in 0..LeaseTicks
  PROVE  /\ [r EXCEPT !.left = l] \in LeaseRows(n)
         /\ [r EXCEPT !.left = l].holder = r.holder
         /\ [r EXCEPT !.left = l].token = r.token
BY DEF LeaseRows

(* A lease row that is given up.                                           *)
LEMMA FreedKeepsLeases ==
  ASSUME NEW n \in Nat, NEW r \in LeaseRows(n)
  PROVE  [r EXCEPT !.holder = NoHolder, !.left = 0] \in LeaseRows(n)
<1>1. 0 \in 0..LeaseTicks
  BY TaskStoreAssumption
<1> QED
  BY <1>1 DEF LeaseRows

LEMMA HeartbeatTurnLeaseKeeps ==
  ASSUME IInv, UNCHANGED scope, NEW h \in Holders, HeartbeatTurnLease(h)
  PROVE  IInv' /\ Orderly
<1> DEFINE s == turn[h].session
           row == [lease[s] EXCEPT !.left = LeaseTicks]
<1>1. /\ lease' = [lease EXCEPT ![s] = row]
      /\ UNCHANGED <<active, turn, claim, status, parent, grant, result, admin, claimNo,
                     madeAt, workNo, applied, changer, granted, written>>
  BY DEF HeartbeatTurnLease, tree, history
<1>2. /\ lease \in [Sessions -> LeaseRows(scope.turns)] /\ turn \in [Holders -> Turns(scope.turns)]
      /\ active \subseteq Sessions /\ scope.turns \in Nat /\ LeaseTicks \in 0..LeaseTicks
  BY TaskStoreAssumption DEF IInv, TypeOK, HistoryOK, LeaseRows, Turns
<1>3. s \in Sessions
  BY TurnIsTyped DEF IInv, HeartbeatTurnLease, Fenced
<1>4. row \in LeaseRows(scope.turns) /\ row.holder = lease[s].holder /\ row.token = lease[s].token
  BY <1>2, <1>3, LeftKeepsLeases
<1> HIDE DEF row, s
<1>5. lease' \in [Sessions -> LeaseRows(scope.turns)]
  BY <1>1, <1>2, <1>3, <1>4
<1>6. \A r \in Sessions : lease'[r].holder = lease[r].holder /\ lease'[r].token = lease[r].token
                          /\ lease[r].token \in Nat
  BY <1>1, <1>2, <1>3, <1>4 DEF LeaseRows
<1>7. claim' = Without({})
  BY <1>1, SameClaims DEF IInv
<1>8. \A t \in Claimed : claim[t].session \in Sessions
  BY ClaimedIsTyped DEF IInv
<1> QED
  BY <1>1, <1>2, <1>5, <1>6, <1>7, <1>8, LeaseStepKeeps

LEMMA ReleaseTurnLeaseKeeps ==
  ASSUME IInv, UNCHANGED scope, NEW h \in Holders, ReleaseTurnLease(h)
  PROVE  IInv' /\ Orderly
<1> DEFINE s == turn[h].session
           S == {t \in Claimed : claim[t] = [session |-> s, holder |-> h, token |-> turn[h].token]}
<1>1. /\ turn[h] # NoTurn /\ lease[s].holder = h /\ lease[s].token = turn[h].token
      /\ claim' = Without(S)
      /\ lease' = [lease EXCEPT ![s].holder = NoHolder, ![s].left = 0]
      /\ UNCHANGED <<active, turn, status, parent, grant, result, admin, claimNo, madeAt,
                     workNo, applied, changer, granted, written>>
  BY DEF ReleaseTurnLease, tree, history
<1>2. /\ lease \in [Sessions -> LeaseRows(scope.turns)] /\ turn \in [Holders -> Turns(scope.turns)]
      /\ active \subseteq Sessions /\ scope.turns \in Nat /\ LeaseTicks \in Nat
      /\ s \in Sessions
  BY <1>1, TaskStoreAssumption, TurnIsTyped DEF IInv, TypeOK, HistoryOK, LeaseRows, Turns
<1>3. lease' \in [Sessions -> LeaseRows(scope.turns)]
  BY <1>1, <1>2 DEF LeaseRows
<1>4. \A r \in Sessions : /\ lease'[r].token = lease[r].token /\ lease[r].token \in Nat
                          /\ r # s => lease'[r].holder = lease[r].holder
  BY <1>1, <1>2 DEF LeaseRows
<1>5. ASSUME NEW t \in Claimed \ S PROVE claim[t].session \in Sessions /\ claim[t].session # s
  <2>1. /\ claim[t].session \in Sessions
        /\ claim[t] \in [session : Sessions, holder : Holders, token : 1..scope.turns]
    BY ClaimedIsTyped DEF IInv
  <2>2. /\ lease[claim[t].session].holder = claim[t].holder
        /\ lease[claim[t].session].token = claim[t].token
    BY DEF IInv, Leases, ClaimsFollowTheLease
  <2> QED
    BY <1>1, <2>1, <2>2
<1> HIDE DEF s, S
<1> QED
  BY <1>1, <1>2, <1>3, <1>4, <1>5, LeaseStepKeeps

LEMMA TickKeeps ==
  ASSUME IInv, UNCHANGED scope, Tick
  PROVE  IInv' /\ Orderly
<1>1. lease' = [s \in Sessions |-> IF lease[s].left > 0
                                   THEN [lease[s] EXCEPT !.left = lease[s].left - 1]
                                   ELSE lease[s]]
  BY DEF Tick
<1>2. UNCHANGED <<active, turn, claim, status, parent, grant, result, admin, claimNo,
                  madeAt, workNo, applied, changer, granted, written>>
  BY DEF Tick, tree, history
<1>3. /\ lease \in [Sessions -> LeaseRows(scope.turns)] /\ turn \in [Holders -> Turns(scope.turns)]
      /\ active \subseteq Sessions /\ scope.turns \in Nat /\ LeaseTicks \in Nat
  BY TaskStoreAssumption DEF IInv, TypeOK, HistoryOK, LeaseRows, Turns
<1>4. ASSUME NEW r \in Sessions
      PROVE  /\ lease'[r] \in LeaseRows(scope.turns)
             /\ lease'[r].holder = lease[r].holder /\ lease'[r].token = lease[r].token
             /\ lease[r].token \in Nat
  BY <1>1, <1>3 DEF LeaseRows
<1>5. lease' \in [Sessions -> LeaseRows(scope.turns)]
  BY <1>1, <1>4
<1>6. claim' = Without({})
  BY <1>2, SameClaims DEF IInv
<1>7. \A t \in Claimed : claim[t].session \in Sessions
  BY ClaimedIsTyped DEF IInv
<1> QED
  BY <1>2, <1>3, <1>4, <1>5, <1>6, <1>7, LeaseStepKeeps

LEMMA RecoverInactiveTaskClaimsKeeps ==
  ASSUME IInv, UNCHANGED scope, RecoverInactiveTaskClaims
  PROVE  IInv' /\ Orderly
<1> DEFINE S == {t \in Claimed : Inactive(claim[t])}
<1>1. /\ claim' = Without(S)
      /\ UNCHANGED <<active, lease, turn, status, parent, grant, result, admin, claimNo,
                     madeAt, workNo, applied, changer, granted, written>>
  BY DEF RecoverInactiveTaskClaims, leases, tree, history
<1>2. /\ lease \in [Sessions -> LeaseRows(scope.turns)] /\ turn \in [Holders -> Turns(scope.turns)]
      /\ active \subseteq Sessions
  BY DEF IInv, TypeOK, LeaseRows, Turns
<1>3. \A r \in Sessions : lease[r].token \in Nat
  BY <1>2 DEF LeaseRows, IInv, HistoryOK
<1> HIDE DEF S
<1> QED
  BY <1>1, <1>2, <1>3, LeaseStepKeeps

LEMMA StartContinuationKeeps ==
  ASSUME IInv, UNCHANGED scope, NEW c \in Children, StartContinuation(c)
  PROVE  IInv' /\ Orderly
<1>1. /\ c \notin active /\ active' = active \cup {c} /\ c \in Sessions
      /\ lease' = [lease EXCEPT ![c].holder = NoHolder, ![c].left = 0]
      /\ UNCHANGED <<turn, claim, status, parent, grant, result, admin, claimNo,
                     madeAt, workNo, applied, changer, granted, written>>
  BY DEF StartContinuation, tree, history, Sessions
<1>2. /\ lease \in [Sessions -> LeaseRows(scope.turns)] /\ turn \in [Holders -> Turns(scope.turns)]
      /\ active \subseteq Sessions /\ scope.turns \in Nat /\ LeaseTicks \in Nat
  BY TaskStoreAssumption DEF IInv, TypeOK, HistoryOK, LeaseRows, Turns
<1>3. lease' \in [Sessions -> LeaseRows(scope.turns)]
  <2> DEFINE row == [lease[c] EXCEPT !.holder = NoHolder, !.left = 0]
  <2>1. row \in LeaseRows(scope.turns)
    BY <1>1, <1>2, FreedKeepsLeases
  <2>2. lease' = [lease EXCEPT ![c] = row]
    BY <1>1
  <2> HIDE DEF row
  <2> QED
    BY <1>2, <2>1, <2>2
<1>4. ASSUME NEW r \in Sessions
      PROVE  /\ lease'[r].token = lease[r].token /\ lease[r].token \in Nat
             /\ r # c => lease'[r].holder = lease[r].holder
  <2>1. lease[r] \in LeaseRows(scope.turns)
    BY <1>2
  <2>2. lease[r].token \in Nat
    BY <1>2, <2>1 DEF LeaseRows
  <2> QED
    BY <1>1, <1>2, <2>1, <2>2
<1>5. \A t \in Claimed : claim[t].session \in Sessions /\ claim[t].session # c
  BY <1>1, ClaimedIsTyped DEF IInv, Leases, ClosedChildrenHoldNothing
<1>6. claim' = Without({})
  BY <1>1, SameClaims DEF IInv
<1> QED
  BY <1>1, <1>2, <1>3, <1>4, <1>5, <1>6, LeaseStepKeeps

LEMMA TurnLeaseWriteKeeps ==
  ASSUME IInv, UNCHANGED scope, NEW h \in Holders, TurnLeaseWrite(h)
  PROVE  IInv' /\ Orderly
<1> DEFINE s == turn[h].session
           n == turn[h].token
<1>1. /\ turn[h] # NoTurn /\ lease[s].token = n
      /\ written' = [written EXCEPT ![s] = n]
      /\ UNCHANGED <<active, lease, turn, claim, status, parent, grant, result, admin,
                     claimNo, madeAt, workNo, applied, changer, granted>>
  BY DEF TurnLeaseWrite, Fenced, leases, tree
<1>2. s \in Sessions /\ n \in Nat /\ written \in [Sessions -> Nat]
  BY <1>1, TurnIsTyped DEF IInv, HistoryOK
<1>3. written[s] <= n
  BY <1>1, <1>2 DEF IInv, Work, WritesAreFenced
<1> HIDE DEF s, n
<1>4. written' \in [Sessions -> Nat] /\ (\A r \in Sessions : written'[r] >= written[r])
  BY <1>1, <1>2, <1>3
<1>5. TypeOK' /\ HistoryOK'
  BY <1>1, <1>4 DEF IInv, TypeOK, HistoryOK
<1>6. Leases' /\ EndedTasksAreUnclaimed'
  BY <1>1 DEF IInv, Leases, EndedTasksAreUnclaimed, ClaimsFollowTheLease, Claimed,
     ClosedChildrenHoldNothing, ClaimsAreTheLatest
<1>7. Work'
  <2>1. ASSUME NEW r \in Sessions PROVE written'[r] <= lease'[r].token
    <3>1. written[r] <= lease[r].token
      BY DEF IInv, Work, WritesAreFenced
    <3> QED
      BY <1>1, <1>2, <3>1
  <2> QED
    BY <1>1, <2>1 DEF IInv, Work, WritesAreFenced, OutcomesAreStored, RequestsApplyOnce
<1>8. Grants'
  <2>1. WorkersStayInTheirSubtree'
    BY <1>1, WorkersAreKept DEF IInv, Grants
  <2> QED
    BY <1>1, <2>1 DEF IInv, Grants, GrantsEndWithTheirOwners, GrantsAreRecorded
<1>9. Tree'
  BY <1>1, TreeIsKept DEF IInv
<1>10. Orderly
  BY <1>1, <1>4 DEF Orderly, WorkIsOfTheLatest, WritesGoOn
<1> QED
  BY <1>5, <1>6, <1>7, <1>8, <1>9, <1>10 DEF IInv

GrantRows == {NoGrant} \cup [root : Tasks, level : 1..3]

(* A step of sessions and grants that leaves leases, Tasks and requests    *)
(* alone.                                                                  *)
LEMMA SessionStepKeeps ==
  ASSUME IInv, UNCHANGED <<scope, lease, turn, status, parent, result, claimNo, madeAt,
                           workNo, applied, changer, written>>,
         active' \subseteq Sessions,
         grant' \in [Children -> GrantRows],
         granted' \in [Children -> SUBSET Tasks],
         admin' \in 0..scope.admin,
         \A c \in Children : granted[c] \subseteq granted'[c],
         \A c \in Children : grant'[c] # NoGrant => /\ ParentOf[c] \in active'
                                                    /\ grant'[c].root \in granted'[c],
         NEW S, claim' = Without(S),
         \A t \in Claimed \ S : claim[t].session \in Children => claim[t].session \in active'
  PROVE  IInv' /\ Orderly
<1>1. \A t \in Claimed \ S : status'[t] \in Working
  BY DEF IInv, EndedTasksAreUnclaimed
<1>2. claim' \in [Tasks -> Claims(scope.turns)] /\ Leases' /\ EndedTasksAreUnclaimed'
  BY <1>1, FewerClaims DEF IInv
<1>3. TypeOK'
  BY <1>2 DEF IInv, TypeOK, GrantRows, Claims
<1>4. HistoryOK'
  BY DEF IInv, HistoryOK
<1>5. Work'
  BY DEF IInv, Work, WritesAreFenced, OutcomesAreStored, RequestsApplyOnce
<1>6. Grants'
  <2>1. WorkersStayInTheirSubtree'
    BY WorkersAreKept DEF IInv, Grants
  <2> QED
    BY <2>1 DEF IInv, Grants, GrantsEndWithTheirOwners, GrantsAreRecorded
<1>7. Tree'
  BY TreeIsKept DEF IInv
<1>8. Orderly
  BY DEF IInv, HistoryOK, Orderly, WorkIsOfTheLatest, WritesGoOn
<1> QED
  BY <1>2, <1>3, <1>4, <1>5, <1>6, <1>7, <1>8 DEF IInv

LEMMA SpendKeeps ==
  ASSUME TypeOK, HistoryOK, Spend
  PROVE  admin' \in 0..scope.admin
<1>1. scope.admin \in Nat
  BY DEF HistoryOK
<1> QED
  BY <1>1 DEF TypeOK, Spend

(* What is known of grants before such a step.                             *)
LEMMA GrantFacts ==
  ASSUME IInv
  PROVE  /\ active \subseteq Sessions /\ grant \in [Children -> GrantRows]
         /\ granted \in [Children -> SUBSET Tasks] /\ admin \in 0..scope.admin
         /\ Owners \cap Children = {} /\ ParentOf \in [Children -> Owners]
         /\ Owners \subseteq Sessions /\ Children \subseteq Sessions
         /\ \A c \in Children : grant[c] # NoGrant => /\ ParentOf[c] \in active
                                                      /\ grant[c].root \in granted[c]
         /\ \A t \in Claimed : claim[t].session \in Children => claim[t].session \in active
BY TaskStoreAssumption DEF IInv, TypeOK, HistoryOK, Grants, GrantsEndWithTheirOwners,
   GrantsAreRecorded, GrantRows, Sessions, Leases, ClosedChildrenHoldNothing

LEMMA ArchiveSessionKeeps ==
  ASSUME IInv, UNCHANGED scope, NEW s \in Owners, ArchiveSession(s)
  PROVE  IInv' /\ Orderly
<1>1. /\ active' = active \ {s}
      /\ grant' = [c \in Children |-> IF c = s \/ ParentOf[c] = s THEN NoGrant ELSE grant[c]]
      /\ UNCHANGED <<lease, turn, status, parent, claim, result, claimNo, madeAt, workNo,
                     applied, changer, written, granted>>
      /\ Spend
  BY DEF ArchiveSession, GrantsAfterClose, tree, history
<1>2. admin' \in 0..scope.admin /\ claim' = Without({})
  BY <1>1, SpendKeeps, SameClaims DEF IInv
<1>3. grant' \in [Children -> GrantRows]
  BY <1>1, GrantFacts DEF GrantRows
<1> QED
  BY <1>1, <1>2, <1>3, GrantFacts, SessionStepKeeps

LEMMA RestoreSessionKeeps ==
  ASSUME IInv, UNCHANGED scope, NEW s \in Owners, RestoreSession(s)
  PROVE  IInv' /\ Orderly
<1>1. /\ active' = active \cup {s}
      /\ UNCHANGED <<lease, turn, status, parent, claim, grant, result, claimNo, madeAt,
                     workNo, applied, changer, written, granted>>
      /\ Spend
  BY DEF RestoreSession, tree, history
<1>2. admin' \in 0..scope.admin /\ claim' = Without({})
  BY <1>1, SpendKeeps, SameClaims DEF IInv
<1> QED
  BY <1>1, <1>2, GrantFacts, SessionStepKeeps

(* A grant that is given to a child of an active owner.                    *)
LEMMA GrantKeeps ==
  ASSUME IInv, NEW c \in Children, NEW t \in Tasks, NEW l \in 1..3, Grant(c, t, l),
         \A d \in Children : ParentOf[d] \in active => ParentOf[d] \in active',
         ParentOf[c] \in active
  PROVE  /\ UNCHANGED <<written, claimNo, madeAt, workNo, applied, changer>>
         /\ grant' \in [Children -> GrantRows]
         /\ granted' \in [Children -> SUBSET Tasks]
         /\ \A d \in Children : granted[d] \subseteq granted'[d]
         /\ \A d \in Children : grant'[d] # NoGrant => /\ ParentOf[d] \in active'
                                                       /\ grant'[d].root \in granted'[d]
<1>1. /\ UNCHANGED <<written, claimNo, madeAt, workNo, applied, changer>>
      /\ grant' = [grant EXCEPT ![c] = [root |-> t, level |-> l]]
      /\ granted' = [granted EXCEPT ![c] = granted[c] \cup {t}]
  BY DEF Grant
<1>2. [root |-> t, level |-> l] \in GrantRows /\ [root |-> t, level |-> l].root = t
  BY DEF GrantRows
<1>3. granted' \in [Children -> SUBSET Tasks] /\ (\A d \in Children : granted[d] \subseteq granted'[d])
      /\ t \in granted'[c]
  BY <1>1, GrantFacts
<1> QED
  BY <1>1, <1>2, <1>3, GrantFacts

LEMMA IssueTaskAccessGrantKeeps ==
  ASSUME IInv, UNCHANGED scope, NEW c \in Children, NEW t \in Tasks, NEW l \in 1..3,
         IssueTaskAccessGrant(c, t, l)
  PROVE  IInv' /\ Orderly
<1>1. /\ ParentOf[c] \in active /\ Spend /\ Grant(c, t, l)
      /\ UNCHANGED <<active, lease, turn, status, parent, claim, result>>
  BY DEF IssueTaskAccessGrant, leases, tree
<1>2. admin' \in 0..scope.admin /\ claim' = Without({})
  BY <1>1, SpendKeeps, SameClaims DEF IInv
<1> QED
  BY <1>1, <1>2, GrantFacts, GrantKeeps, SessionStepKeeps

LEMMA TerminateTaskAccessGrantKeeps ==
  ASSUME IInv, UNCHANGED scope, NEW c \in Children, TerminateTaskAccessGrant(c)
  PROVE  IInv' /\ Orderly
<1>1. /\ grant' = [grant EXCEPT ![c] = NoGrant] /\ Spend
      /\ UNCHANGED <<active, lease, turn, status, parent, claim, result, claimNo, madeAt,
                     workNo, applied, changer, written, granted>>
  BY DEF TerminateTaskAccessGrant, leases, tree, history
<1>2. admin' \in 0..scope.admin /\ claim' = Without({})
  BY <1>1, SpendKeeps, SameClaims DEF IInv
<1>3. grant' \in [Children -> GrantRows]
  BY <1>1, GrantFacts DEF GrantRows
<1> QED
  BY <1>1, <1>2, <1>3, GrantFacts, SessionStepKeeps

LEMMA AssignBuildKeeps ==
  ASSUME IInv, UNCHANGED scope, NEW c \in Children, NEW t \in Tasks, AssignBuild(c, t)
  PROVE  IInv' /\ Orderly
<1>1. /\ ParentOf[c] \in active /\ Spend /\ Grant(c, t, 2) /\ active' = active \cup {c}
      /\ claim' = Without({t})
      /\ UNCHANGED <<lease, turn, status, parent, result>>
  BY DEF AssignBuild, tree
<1>2. admin' \in 0..scope.admin
  BY <1>1, SpendKeeps DEF IInv
<1> QED
  BY <1>1, <1>2, GrantFacts, GrantKeeps, SessionStepKeeps

LEMMA ContinueBuildKeeps ==
  ASSUME IInv, UNCHANGED scope, NEW c \in Children, NEW t \in Tasks, ContinueBuild(c, t)
  PROVE  IInv' /\ Orderly
<1>1. /\ ParentOf[c] \in active /\ Spend /\ Grant(c, t, 2)
      /\ UNCHANGED <<active, lease, turn, status, parent, claim, result>>
  BY DEF ContinueBuild, leases, tree
<1>2. admin' \in 0..scope.admin /\ claim' = Without({})
  BY <1>1, SpendKeeps, SameClaims DEF IInv
<1> QED
  BY <1>1, <1>2, GrantFacts, GrantKeeps, SessionStepKeeps

LEMMA SettleBuildKeeps ==
  ASSUME IInv, UNCHANGED scope, NEW c \in Children, SettleBuild(c)
  PROVE  IInv' /\ Orderly
<1> DEFINE S == {t \in Claimed : claim[t].session = c}
<1>1. /\ grant' = [grant EXCEPT ![c] = NoGrant] /\ active' = active \ {c}
      /\ claim' = Without(S)
      /\ UNCHANGED <<lease, turn, status, parent, result, admin, claimNo, madeAt,
                     workNo, applied, changer, written, granted>>
  BY DEF SettleBuild, tree, history
<1>2. grant' \in [Children -> GrantRows]
  BY <1>1, GrantFacts DEF GrantRows
<1>3. \A t \in Claimed \ S : claim[t].session \in Children => claim[t].session \in active'
  BY <1>1, GrantFacts
<1>4. \A d \in Children : grant'[d] # NoGrant => /\ ParentOf[d] \in active'
                                                 /\ grant'[d].root \in granted'[d]
  BY <1>1, GrantFacts
<1> HIDE DEF S
<1> QED
  BY <1>1, <1>2, <1>3, <1>4, GrantFacts, SessionStepKeeps

-----------------------------------------------------------------------------
(* Requests.                                                               *)

(* A key without an outcome gets one; what it changes counts once.         *)
LEMMA OutcomeKeeps ==
  ASSUME TypeOK, HistoryOK, Work, NEW h \in Holders, NEW k \in Keys, Unused(h, k),
         NEW o \in {"accepted", "rejected"}, Store(h, k, o),
         UNCHANGED <<lease, written>>,
         \/ applied' = applied
         \/ applied' = [applied EXCEPT ![<<turn[h].session, k>>] =
                          applied[<<turn[h].session, k>>] + 1]
  PROVE  /\ result' \in [Sessions \X Keys -> {"none", "accepted", "rejected"}]
         /\ applied' \in [Sessions \X Keys -> Nat]
         /\ Work'
<1> DEFINE q == <<turn[h].session, k>>
<1>1. /\ q \in Sessions \X Keys /\ result[q] = "none"
      /\ result' = [result EXCEPT ![q] = o]
  BY TurnIsTyped DEF Unused, Store
<1>2. /\ applied' = applied \/ applied' = [applied EXCEPT ![q] = applied[q] + 1]
      /\ result \in [Sessions \X Keys -> {"none", "accepted", "rejected"}]
      /\ applied \in [Sessions \X Keys -> Nat]
      /\ \A r \in Sessions \X Keys : result[r] = "none" => applied[r] = 0
      /\ \A r \in Sessions \X Keys : applied[r] <= 1
  BY DEF TypeOK, HistoryOK, Work, OutcomesAreStored, RequestsApplyOnce
<1> HIDE DEF q
<1>3. result' \in [Sessions \X Keys -> {"none", "accepted", "rejected"}]
  BY <1>1, <1>2
<1>4. applied' \in [Sessions \X Keys -> Nat]
  BY <1>1, <1>2
<1>5. ASSUME NEW r \in Sessions \X Keys
      PROVE  (result'[r] = "none" => applied'[r] = 0) /\ applied'[r] <= 1
  <2>1. CASE r = q
    BY <1>1, <1>2, <2>1
  <2>2. CASE r # q
    BY <1>1, <1>2, <2>2
  <2> QED
    BY <2>1, <2>2
<1> QED
  BY <1>3, <1>4, <1>5 DEF Work, WritesAreFenced, OutcomesAreStored, RequestsApplyOnce

(* What a request changes is below a Task that its worker was granted.     *)
LEMMA ChangesKeep ==
  ASSUME TypeOK, HistoryOK, Grants, UNCHANGED <<active, grant, granted>>,
         NEW h \in Holders, turn[h] # NoTurn, NEW T \in SUBSET Tasks,
         changer' = [t \in Tasks |-> IF t \in T THEN turn[h].session ELSE changer[t]],
         \A t \in Tasks \ T : Ancestors(t)' = Ancestors(t),
         turn[h].session \in Children =>
           /\ grant[turn[h].session] # NoGrant
           /\ \A t \in T : t = grant[turn[h].session].root
                           \/ grant[turn[h].session].root \in Ancestors(t)'
  PROVE  changer' \in [Tasks -> Sessions \cup {NoHolder}] /\ Grants'
<1>1. turn[h].session \in Sessions /\ changer \in [Tasks -> Sessions \cup {NoHolder}]
  BY TurnIsTyped DEF HistoryOK
<1>2. changer' \in [Tasks -> Sessions \cup {NoHolder}]
  BY <1>1
<1>3. ASSUME NEW t \in Tasks, changer'[t] \in Children
      PROVE  \E r \in granted'[changer'[t]] : t \in Subtree(r)'
  <2>1. CASE t \in T
    <3>1. changer'[t] = turn[h].session
      BY <2>1
    <3>2. PICK r \in granted[turn[h].session] : r = grant[turn[h].session].root
      BY <1>3, <3>1 DEF Grants, GrantsAreRecorded
    <3>3. t \in Subtree(r)'
      BY <1>3, <2>1, <3>1, <3>2 DEF Subtree
    <3> QED
      BY <3>1, <3>2, <3>3
  <2>2. CASE t \notin T
    <3>1. changer'[t] = changer[t]
      BY <2>2
    <3>2. PICK r \in granted[changer[t]] : t \in Subtree(r)
      BY <1>3, <3>1 DEF Grants, WorkersStayInTheirSubtree
    <3>3. t \in Subtree(r)'
      BY <2>2, <3>2 DEF Subtree
    <3> QED
      BY <3>1, <3>2, <3>3
  <2> QED
    BY <2>1, <2>2
<1> QED
  BY <1>2, <1>3 DEF Grants, GrantsEndWithTheirOwners, GrantsAreRecorded,
     WorkersStayInTheirSubtree

(* Access to a Task is owned, or granted over a tree with the Task.        *)
LEMMA AccessIsGranted ==
  ASSUME TypeOK, NEW h \in Holders, NEW t \in Tasks, NEW l \in {2, 3}, Access(h, t, l)
  PROVE  /\ turn[h] # NoTurn
         /\ turn[h].session \in Children =>
              /\ grant[turn[h].session] # NoGrant
              /\ t = grant[turn[h].session].root
                 \/ grant[turn[h].session].root \in Ancestors(t)
<1>1. turn[h].session \in Children => grant[turn[h].session].level >= 2
  <2>1. turn[h].session \in Children => grant[turn[h].session].level >= l
    BY DEF Access
  <2>2. turn[h].session \in Children => grant[turn[h].session].level \in 0..3
    BY DEF TypeOK, NoGrant
  <2> QED
    BY <2>1, <2>2
<1>2. turn[h].session \in Children => grant[turn[h].session] # NoGrant
  BY <1>1 DEF NoGrant
<1> QED
  BY <1>2 DEF Access, Subtree

(* A status changes as the checks of updateGlobalTask allow.               *)
LEMMA StatusKeeps ==
  ASSUME TypeOK, Tree, NEW t \in Tasks, NEW patch \in Patches, ValidPatch(t, patch),
         status' = IF patch \in Statuses THEN [status EXCEPT ![t] = patch] ELSE status,
         UNCHANGED parent,
         \A u \in Tasks \ {t} : changer'[u] = changer[u]
  PROVE  status' \in [Tasks -> Statuses \cup {"absent"}] /\ Tree'
<1>1. \A u \in Tasks : Ancestors(u)' = Ancestors(u)
  BY TreesKeep
<1>2. status \in [Tasks -> Statuses \cup {"absent"}] /\ status[t] # "absent"
  BY DEF TypeOK, ValidPatch
<1>3. status' \in [Tasks -> Statuses \cup {"absent"}]
  BY <1>2
<1>4. \A u \in Tasks : status'[u] = "absent" <=> status[u] = "absent"
  BY <1>2 DEF Statuses, Working, Ended
<1>5. TreeOK'
  <2>1. parent \in [Tasks -> Tasks \cup {NoTask}]
    BY DEF TypeOK
  <2> QED
    BY <1>2, <1>4, <2>1 DEF Tree, TreeOK
<1>6. ASSUME NEW a \in Tasks, status'[a] = "completed", NEW u \in Tasks,
             a \in Ancestors(u), status'[u] \in Working
      PROVE  FALSE
  <2>1. status[a] = "completed" \/ (a = t /\ patch = "completed")
    BY <1>2, <1>6
  <2>2. status[u] \in Working \/ (u = t /\ patch \in Working /\ patch \in Statuses)
    BY <1>2, <1>6
  <2>3. CASE status[a] = "completed" /\ status[u] \in Working
    BY <1>6, <2>3 DEF Tree, CompletedMeansDone
  <2>4. CASE a = t /\ patch = "completed"
    <3>1. u \in Subtree(t)
      BY <1>6, <2>4 DEF Subtree
    <3>2. u # t
      BY <1>2, <1>6, <2>4 DEF Working, Statuses, Ended
    <3>3. status[u] \in Working
      BY <2>2, <3>2
    <3> QED
      BY <2>4, <3>1, <3>2, <3>3 DEF ValidPatch, countActiveDescendants
  <2>5. CASE status[a] = "completed" /\ u = t /\ status[u] \notin Working
    <3>1. status[t] \in Ended /\ patch = "open"
      BY <1>2, <2>2, <2>5 DEF ValidPatch, Statuses
    <3>2. ~ hasTerminalAncestor(t)
      BY <3>1 DEF ValidPatch
    <3> QED
      BY <1>6, <2>5, <3>2 DEF hasTerminalAncestor, Ended
  <2> QED
    BY <2>1, <2>2, <2>3, <2>4, <2>5
<1> QED
  BY <1>1, <1>3, <1>5, <1>6 DEF Tree, CompletedMeansDone

-----------------------------------------------------------------------------
(* One lemma for each request.                                             *)

(* A request that leaves the tree alone, and claims but for those it gives *)
(* up.                                                                     *)
LEMMA PatchKeeps ==
  ASSUME IInv, UNCHANGED <<scope, active, lease, turn, grant, parent, claimNo, madeAt>>,
         NEW h \in Holders, NEW k \in Keys, NEW t \in Tasks, NEW l \in {2, 3},
         NEW patch \in Patches,
         Access(h, t, l), Unused(h, k), ValidPatch(t, patch), Patched(t, patch),
         Apply(h, k, {t}),
         admin' \in 0..scope.admin, workNo' \in [Tasks -> Int], WorkIsOfTheLatest
  PROVE  IInv' /\ Orderly
<1>1. /\ turn[h] # NoTurn
      /\ changer' = [u \in Tasks |-> IF u \in {t} THEN turn[h].session ELSE changer[u]]
      /\ applied' = [applied EXCEPT ![<<turn[h].session, k>>] =
                       applied[<<turn[h].session, k>>] + 1]
      /\ Store(h, k, "accepted") /\ UNCHANGED <<written, granted>>
      /\ status' = IF patch \in Statuses THEN [status EXCEPT ![t] = patch] ELSE status
      /\ claim' = IF patch \in Ended THEN Without({t}) ELSE claim
  BY DEF Apply, Unused, Patched
<1>2. /\ result' \in [Sessions \X Keys -> {"none", "accepted", "rejected"}]
      /\ applied' \in [Sessions \X Keys -> Nat] /\ Work'
  BY <1>1, OutcomeKeeps DEF IInv
<1>3. \A u \in Tasks : Ancestors(u)' = Ancestors(u)
  BY TreesKeep
<1>4. changer' \in [Tasks -> Sessions \cup {NoHolder}] /\ Grants'
  BY <1>1, <1>3, AccessIsGranted, ChangesKeep DEF IInv
<1>5. status' \in [Tasks -> Statuses \cup {"absent"}] /\ Tree'
  BY <1>1, StatusKeeps DEF IInv
<1>6. claim' \in [Tasks -> Claims(scope.turns)] /\ Leases' /\ EndedTasksAreUnclaimed'
  <2> DEFINE S == IF patch \in Ended THEN {t} ELSE {}
  <2>1. claim' = Without(S)
    BY <1>1, SameClaims DEF IInv
  <2>2. ASSUME NEW u \in Claimed \ S PROVE status'[u] \in Working
    <3>1. status[u] \in Working /\ u \in Tasks
      BY DEF IInv, EndedTasksAreUnclaimed, Claimed
    <3>2. status \in [Tasks -> Statuses \cup {"absent"}]
      BY DEF IInv, TypeOK
    <3> QED
      BY <1>1, <3>1, <3>2 DEF Statuses
  <2>3. \A u \in Claimed \ S : claim[u].session \in Children => claim[u].session \in active'
    BY DEF IInv, Leases, ClosedChildrenHoldNothing
  <2> HIDE DEF S
  <2> QED
    BY <2>1, <2>2, <2>3, FewerClaims DEF IInv
<1>7. TypeOK' /\ HistoryOK'
  BY <1>1, <1>2, <1>4, <1>5, <1>6 DEF IInv, TypeOK, HistoryOK, Claims
<1>8. Orderly
  BY <1>1 DEF IInv, HistoryOK, Orderly, WritesGoOn
<1> QED
  BY <1>2, <1>4, <1>5, <1>6, <1>7, <1>8 DEF IInv

LEMMA UpdateGlobalTaskKeeps ==
  ASSUME IInv, UNCHANGED scope, NEW h \in Holders, NEW k \in Keys, NEW t \in Tasks,
         NEW patch \in Patches, UpdateGlobalTask(h, k, t, patch)
  PROVE  IInv' /\ Orderly
<1>1. /\ Access(h, t, Level(t, patch)) /\ Unused(h, k) /\ ValidPatch(t, patch)
      /\ Patched(t, patch) /\ Apply(h, k, {t})
      /\ UNCHANGED <<active, lease, turn, grant, parent, claimNo, madeAt, admin>>
  BY DEF UpdateGlobalTask, leases
<1>2. Level(t, patch) \in {2, 3} /\ admin' \in 0..scope.admin
  BY <1>1 DEF Level, IInv, TypeOK
<1>3. workNo \in [Tasks -> Int] /\ madeAt[h][t] \in Int
  BY DEF IInv, HistoryOK
<1>4. workNo' = workNo \/ (workNo' = [workNo EXCEPT ![t] = madeAt[h][t]] /\ Owned(h, t))
  BY DEF UpdateGlobalTask, authorizeTaskUpdate
<1>5. ASSUME Owned(h, t) PROVE madeAt[h][t] = claimNo[t]
  <2>1. claim[t].holder = h
    BY <1>5 DEF Owned
  <2>2. claim[t] # NoClaim
    BY <2>1, TaskStoreAssumption DEF NoClaim
  <2> QED
    BY <2>1, <2>2 DEF IInv, Leases, ClaimsAreTheLatest, Claimed
<1>6. workNo' \in [Tasks -> Int] /\ WorkIsOfTheLatest
  BY <1>3, <1>4, <1>5 DEF WorkIsOfTheLatest
<1> QED
  BY <1>1, <1>2, <1>6, PatchKeeps

LEMMA ManagementUpdateGlobalTaskKeeps ==
  ASSUME IInv, UNCHANGED scope, NEW h \in Holders, NEW k \in Keys, NEW t \in Tasks,
         NEW patch \in Patches, ManagementUpdateGlobalTask(h, k, t, patch)
  PROVE  IInv' /\ Orderly
<1>1. /\ Access(h, t, 3) /\ Unused(h, k) /\ ValidPatch(t, patch)
      /\ Patched(t, patch) /\ Apply(h, k, {t}) /\ Spend
      /\ UNCHANGED <<active, lease, turn, grant, parent, claimNo, madeAt, workNo>>
  BY DEF ManagementUpdateGlobalTask, leases
<1>2. admin' \in 0..scope.admin
  BY <1>1, SpendKeeps DEF IInv
<1>3. workNo' \in [Tasks -> Int] /\ WorkIsOfTheLatest
  BY <1>1 DEF IInv, HistoryOK, WorkIsOfTheLatest
<1> QED
  BY <1>1, <1>2, <1>3, PatchKeeps

LEMMA ReleaseGlobalTaskClaimKeeps ==
  ASSUME IInv, UNCHANGED scope, NEW h \in Holders, NEW k \in Keys, NEW t \in Tasks,
         ReleaseGlobalTaskClaim(h, k, t)
  PROVE  IInv' /\ Orderly
<1>1. /\ Access(h, t, 2) /\ Unused(h, k) /\ turn[h] # NoTurn /\ claim' = Without({t})
      /\ UNCHANGED <<active, lease, turn, status, parent, grant, admin, claimNo, madeAt,
                     workNo, written, granted>>
      /\ Store(h, k, "accepted")
      /\ applied' = [applied EXCEPT ![<<turn[h].session, k>>] =
                       applied[<<turn[h].session, k>>] + 1]
      /\ changer' = [u \in Tasks |-> IF u \in {t} THEN turn[h].session ELSE changer[u]]
  BY DEF ReleaseGlobalTaskClaim, Apply, Unused, leases, tree
<1>2. /\ result' \in [Sessions \X Keys -> {"none", "accepted", "rejected"}]
      /\ applied' \in [Sessions \X Keys -> Nat] /\ Work'
  BY <1>1, OutcomeKeeps DEF IInv
<1>3. \A u \in Tasks : Ancestors(u)' = Ancestors(u)
  BY <1>1, TreesKeep
<1>4. changer' \in [Tasks -> Sessions \cup {NoHolder}] /\ Grants'
  BY <1>1, <1>3, AccessIsGranted, ChangesKeep DEF IInv
<1>5. Tree'
  <2>1. status[t] # "absent"
    <3>1. claim[t] # NoClaim /\ t \in Claimed
      BY TaskStoreAssumption DEF ReleaseGlobalTaskClaim, Owned, NoClaim, Claimed
    <3> QED
      BY <3>1 DEF IInv, EndedTasksAreUnclaimed, Working
  <2>2. TreeOK'
    BY <1>1, <2>1 DEF IInv, Tree, TreeOK
  <2> QED
    BY <1>1, <1>3, <2>2 DEF IInv, Tree, CompletedMeansDone
<1>6. claim' \in [Tasks -> Claims(scope.turns)] /\ Leases' /\ EndedTasksAreUnclaimed'
  <2>1. \A u \in Claimed \ {t} : /\ claim[u].session \in Children => claim[u].session \in active'
                                 /\ status'[u] \in Working
    BY <1>1 DEF IInv, Leases, ClosedChildrenHoldNothing, EndedTasksAreUnclaimed
  <2> QED
    BY <1>1, <2>1, FewerClaims DEF IInv
<1>7. TypeOK' /\ HistoryOK'
  BY <1>1, <1>2, <1>4, <1>6 DEF IInv, TypeOK, HistoryOK, Claims
<1>8. Orderly
  BY <1>1 DEF IInv, HistoryOK, Orderly, WritesGoOn, WorkIsOfTheLatest
<1> QED
  BY <1>2, <1>4, <1>5, <1>6, <1>7, <1>8 DEF IInv

LEMMA OverrideReleaseGlobalTaskClaimKeeps ==
  ASSUME IInv, UNCHANGED scope, NEW h \in Holders, NEW t \in Tasks,
         OverrideReleaseGlobalTaskClaim(h, t)
  PROVE  IInv' /\ Orderly
<1>1. /\ claim' = Without({t}) /\ Spend
      /\ UNCHANGED <<active, lease, turn, status, parent, grant, result, claimNo, madeAt,
                     workNo, applied, changer, written, granted>>
  BY DEF OverrideReleaseGlobalTaskClaim, leases, tree, history
<1>2. admin' \in 0..scope.admin
  BY <1>1, SpendKeeps DEF IInv
<1> QED
  BY <1>1, <1>2, GrantFacts, SessionStepKeeps

LEMMA RejectKeeps ==
  ASSUME IInv, UNCHANGED scope, NEW h \in Holders, NEW k \in Keys, Reject(h, k)
  PROVE  IInv' /\ Orderly
<1>1. /\ Unused(h, k) /\ Store(h, k, "rejected")
      /\ UNCHANGED <<active, lease, turn, status, parent, claim, grant, admin, claimNo,
                     madeAt, workNo, applied, changer, written, granted>>
  BY DEF Reject, leases, tree, history
<1>2. result' \in [Sessions \X Keys -> {"none", "accepted", "rejected"}] /\ Work'
  BY <1>1, OutcomeKeeps DEF IInv
<1>3. TypeOK' /\ HistoryOK'
  BY <1>1, <1>2 DEF IInv, TypeOK, HistoryOK
<1>4. Leases' /\ EndedTasksAreUnclaimed'
  BY <1>1 DEF IInv, Leases, EndedTasksAreUnclaimed, ClaimsFollowTheLease, Claimed,
     ClosedChildrenHoldNothing, ClaimsAreTheLatest
<1>5. WorkersStayInTheirSubtree'
  BY <1>1, WorkersAreKept DEF IInv, Grants
<1>6. Grants'
  BY <1>1, <1>5 DEF IInv, Grants, GrantsEndWithTheirOwners, GrantsAreRecorded
<1>7. Tree'
  BY <1>1, TreeIsKept DEF IInv
<1>8. Orderly
  BY <1>1 DEF IInv, HistoryOK, Orderly, WritesGoOn, WorkIsOfTheLatest
<1> QED
  BY <1>2, <1>3, <1>4, <1>6, <1>7, <1>8 DEF IInv

(* New Tasks leave claims and statuses of the others alone.                *)
LEMMA NewTasksKeepClaims ==
  ASSUME IInv, UNCHANGED <<scope, active, lease, claim, claimNo, madeAt>>,
         NEW T \in SUBSET Tasks,
         status' = [t \in Tasks |-> IF t \in T THEN "open" ELSE status[t]]
  PROVE  /\ status' \in [Tasks -> Statuses \cup {"absent"}]
         /\ Leases' /\ EndedTasksAreUnclaimed'
<1>1. status \in [Tasks -> Statuses \cup {"absent"}]
  BY DEF IInv, TypeOK
<1>2. status' \in [Tasks -> Statuses \cup {"absent"}]
  BY <1>1 DEF Statuses, Working
<1>3. \A t \in Claimed : status'[t] \in Working
  BY <1>1 DEF IInv, EndedTasksAreUnclaimed, Working, Claimed
<1> QED
  BY <1>2, <1>3 DEF IInv, Leases, EndedTasksAreUnclaimed, ClaimsFollowTheLease, Claimed,
     ClosedChildrenHoldNothing, ClaimsAreTheLatest

LEMMA CreateRootKeeps ==
  ASSUME IInv, UNCHANGED scope, NEW h \in Holders, NEW k \in Keys, NEW t \in Tasks,
         CreateRoot(h, k, t)
  PROVE  IInv' /\ Orderly
<1>1. /\ turn[h] # NoTurn /\ turn[h].session \in Owners /\ Unused(h, k)
      /\ status[t] = "absent" /\ status' = [status EXCEPT ![t] = "open"]
      /\ UNCHANGED <<active, lease, turn, parent, claim, grant, admin, claimNo, madeAt,
                     workNo, written, granted>>
      /\ Store(h, k, "accepted")
      /\ applied' = [applied EXCEPT ![<<turn[h].session, k>>] =
                       applied[<<turn[h].session, k>>] + 1]
      /\ changer' = [u \in Tasks |-> IF u \in {t} THEN turn[h].session ELSE changer[u]]
  BY DEF CreateRoot, Apply, leases
<1>2. /\ result' \in [Sessions \X Keys -> {"none", "accepted", "rejected"}]
      /\ applied' \in [Sessions \X Keys -> Nat] /\ Work'
  BY <1>1, OutcomeKeeps DEF IInv
<1>3. \A u \in Tasks : Ancestors(u)' = Ancestors(u)
  BY <1>1, TreesKeep
<1>4. changer' \in [Tasks -> Sessions \cup {NoHolder}] /\ Grants'
  <2>1. turn[h].session \notin Children
    BY <1>1, TaskStoreAssumption
  <2> QED
    BY ZenonT(30), <1>1, <1>3, <2>1, ChangesKeep DEF IInv
<1>5. status \in [Tasks -> Statuses \cup {"absent"}] /\ parent \in [Tasks -> Tasks \cup {NoTask}]
  BY DEF IInv, TypeOK
<1>6. status' = [u \in Tasks |-> IF u \in {t} THEN "open" ELSE status[u]]
  BY <1>1, <1>5
<1>7. /\ status' \in [Tasks -> Statuses \cup {"absent"}]
      /\ Leases' /\ EndedTasksAreUnclaimed'
  BY <1>1, <1>6, NewTasksKeepClaims
<1>8. Tree'
  <2>1. TreeOK'
    BY <1>1, <1>5, <1>6 DEF IInv, Tree, TreeOK
  <2>2. Ancestors(t) = {}
    BY <1>1, AncestorsAreAbove, AboveARoot DEF IInv, Tree, TreeOK
  <2>3. \A u \in Tasks : status'[u] = "completed" => status[u] = "completed"
    BY <1>6
  <2>4. \A u \in Tasks : status'[u] \in Working => u = t \/ status[u] \in Working
    BY <1>6
  <2> QED
    BY <1>3, <2>1, <2>2, <2>3, <2>4 DEF IInv, Tree, CompletedMeansDone
<1>9. TypeOK' /\ HistoryOK'
  BY <1>1, <1>2, <1>4, <1>7 DEF IInv, TypeOK, HistoryOK
<1>10. Orderly
  BY <1>1 DEF IInv, HistoryOK, Orderly, WritesGoOn, WorkIsOfTheLatest
<1> QED
  BY <1>2, <1>4, <1>7, <1>8, <1>9, <1>10 DEF IInv

LEMMA CreateChildrenKeeps ==
  ASSUME IInv, UNCHANGED scope, NEW h \in Holders, NEW k \in Keys, NEW p \in Tasks,
         NEW T \in SUBSET Tasks, \A t \in T : status[t] = "absent",
         CreateChildren(h, k, p, T)
  PROVE  IInv' /\ Orderly
<1>1. /\ Access(h, p, 2) /\ turn[h] # NoTurn /\ Unused(h, k) /\ status[p] \in Working
      /\ status' = [t \in Tasks |-> IF t \in T THEN "open" ELSE status[t]]
      /\ parent' = [t \in Tasks |-> IF t \in T THEN p ELSE parent[t]]
      /\ UNCHANGED <<active, lease, turn, claim, grant, admin, claimNo, madeAt, workNo,
                     written, granted>>
      /\ Store(h, k, "accepted")
      /\ applied' = [applied EXCEPT ![<<turn[h].session, k>>] =
                       applied[<<turn[h].session, k>>] + 1]
      /\ changer' = [t \in Tasks |-> IF t \in T THEN turn[h].session ELSE changer[t]]
  BY DEF CreateChildren, Apply, Unused, leases
<1>2. /\ result' \in [Sessions \X Keys -> {"none", "accepted", "rejected"}]
      /\ applied' \in [Sessions \X Keys -> Nat] /\ Work'
  BY <1>1, OutcomeKeeps DEF IInv
<1>3. p \in Existing /\ p \notin T
  BY <1>1 DEF Existing, Working
<1>4. /\ parent' \in [Tasks -> Tasks \cup {NoTask}]
      /\ \A t \in Tasks \ T : Ancestors(t)' = Ancestors(t)
      /\ \A t \in T : Ancestors(t)' = {p} \cup Ancestors(p)
  BY <1>1, <1>3, NewTasksKeepTrees DEF IInv, Tree
<1>5. changer' \in [Tasks -> Sessions \cup {NoHolder}] /\ Grants'
  <2>1. turn[h].session \in Children =>
          /\ grant[turn[h].session] # NoGrant
          /\ \A t \in T : grant[turn[h].session].root \in Ancestors(t)'
    BY <1>1, <1>4, AccessIsGranted DEF IInv
  <2> QED
    BY <1>1, <1>4, <2>1, ChangesKeep DEF IInv
<1>6. /\ status' \in [Tasks -> Statuses \cup {"absent"}]
      /\ Leases' /\ EndedTasksAreUnclaimed'
  BY <1>1, NewTasksKeepClaims
<1>7. Tree'
  <2>1. status \in [Tasks -> Statuses \cup {"absent"}] /\ parent \in [Tasks -> Tasks \cup {NoTask}]
    BY DEF IInv, TypeOK
  <2>2. TreeOK'
    BY <1>1, <1>3, <2>1 DEF IInv, Tree, TreeOK, Existing
  <2>3. ASSUME NEW a \in Tasks, status'[a] = "completed", NEW u \in Tasks,
               a \in Ancestors(u)', status'[u] \in Working
        PROVE  FALSE
    <3>1. status[a] = "completed" /\ a # p
      BY <1>1, <1>3, <2>3 DEF Working
    <3>2. CASE u \in T
      <4>1. a \in Ancestors(p)
        BY <1>4, <2>3, <3>1, <3>2
      <4> QED
        BY <1>1, <3>1, <4>1 DEF IInv, Tree, CompletedMeansDone
    <3>3. CASE u \notin T
      <4>1. a \in Ancestors(u) /\ status[u] \in Working
        BY <1>1, <1>4, <2>3, <3>3
      <4> QED
        BY <3>1, <4>1 DEF IInv, Tree, CompletedMeansDone
    <3> QED
      BY <3>2, <3>3
  <2> QED
    BY <2>2, <2>3 DEF Tree, CompletedMeansDone
<1>8. TypeOK' /\ HistoryOK'
  BY <1>1, <1>2, <1>4, <1>5, <1>6 DEF IInv, TypeOK, HistoryOK
<1>9. Orderly
  BY <1>1 DEF IInv, HistoryOK, Orderly, WritesGoOn, WorkIsOfTheLatest
<1> QED
  BY <1>2, <1>5, <1>6, <1>7, <1>8, <1>9 DEF IInv

LEMMA ClaimGlobalTaskKeeps ==
  ASSUME IInv, UNCHANGED scope, NEW h \in Holders, NEW k \in Keys, NEW t \in Tasks,
         ClaimGlobalTask(h, k, t)
  PROVE  IInv' /\ Orderly
<1> DEFINE row == [session |-> turn[h].session, holder |-> h, token |-> turn[h].token]
           n == IF claim[t] = NoClaim THEN claimNo[t] + 1 ELSE claimNo[t]
<1>1. /\ Access(h, t, 2) /\ turn[h] # NoTurn /\ Unused(h, k) /\ status[t] \in Working
      /\ turn[h].session \in active
      /\ lease[turn[h].session].holder = h /\ lease[turn[h].session].token = turn[h].token
      /\ claim[t] = NoClaim \/ claim[t] = row
      /\ claim' = [claim EXCEPT ![t] = row]
      /\ claimNo' = [claimNo EXCEPT ![t] = n]
      /\ madeAt' = [madeAt EXCEPT ![h][t] = claimNo'[t]]
      /\ UNCHANGED <<active, lease, turn, status, parent, grant, admin, workNo, written,
                     granted>>
      /\ Store(h, k, "accepted")
      /\ applied' = [applied EXCEPT ![<<turn[h].session, k>>] =
                       applied[<<turn[h].session, k>>] + 1]
      /\ changer' = [u \in Tasks |-> IF u \in {t} THEN turn[h].session ELSE changer[u]]
  BY DEF ClaimGlobalTask, Apply, Unused, Fenced, Owned, leases, tree
<1>2. /\ result' \in [Sessions \X Keys -> {"none", "accepted", "rejected"}]
      /\ applied' \in [Sessions \X Keys -> Nat] /\ Work'
  BY <1>1, OutcomeKeeps DEF IInv
<1>3. \A u \in Tasks : Ancestors(u)' = Ancestors(u)
  BY <1>1, TreesKeep
<1>4. changer' \in [Tasks -> Sessions \cup {NoHolder}] /\ Grants'
  <2>1. /\ Access(h, t, 2) /\ turn[h] # NoTurn /\ UNCHANGED <<active, grant, granted>>
        /\ changer' = [u \in Tasks |-> IF u \in {t} THEN turn[h].session ELSE changer[u]]
    BY <1>1
  <2>2. turn[h].session \in Children =>
          /\ grant[turn[h].session] # NoGrant
          /\ \A u \in {t} : u = grant[turn[h].session].root
                           \/ grant[turn[h].session].root \in Ancestors(u)'
    BY <1>3, <2>1, AccessIsGranted DEF IInv
  <2>3. \A u \in Tasks \ {t} : Ancestors(u)' = Ancestors(u)
    BY <1>3
  <2> QED
    BY ZenonT(30), <2>1, <2>2, <2>3, ChangesKeep DEF IInv
<1>5. Tree'
  <2>1. TreeOK'
    BY <1>1 DEF IInv, Tree, TreeOK, Working
  <2> QED
    BY <1>1, <1>3, <2>1 DEF IInv, Tree, CompletedMeansDone
<1>6. /\ claim \in [Tasks -> Claims(scope.turns)] /\ claimNo \in [Tasks -> Nat]
      /\ madeAt \in [Holders -> [Tasks -> Nat]]
  BY DEF IInv, TypeOK, HistoryOK, Claims
<1>7. row \in Claims(scope.turns)
  BY <1>1, TurnIsTyped DEF IInv, Claims
<1>8. row.session = turn[h].session /\ row.holder = h /\ row.token = turn[h].token
  OBVIOUS
<1>9. n \in Nat
  BY <1>6
<1> HIDE DEF row, n
<1>10. claim' \in [Tasks -> Claims(scope.turns)] /\ claimNo' \in [Tasks -> Nat] /\ claimNo'[t] = n
  BY <1>1, <1>6, <1>7, <1>9
<1>11. madeAt' = [madeAt EXCEPT ![h] = [madeAt[h] EXCEPT ![t] = n]]
  BY <1>1, <1>10
<1>12. madeAt' \in [Holders -> [Tasks -> Nat]] /\ madeAt'[h][t] = n
       /\ (\A g \in Holders, u \in Tasks : u # t => madeAt'[g][u] = madeAt[g][u])
  BY <1>6, <1>9, <1>11
<1>13. Leases' /\ EndedTasksAreUnclaimed'
  <2>1. ASSUME NEW u \in Claimed'
        PROVE  /\ lease'[claim'[u].session].holder = claim'[u].holder
               /\ lease'[claim'[u].session].token = claim'[u].token
               /\ claim'[u].session \in Children => claim'[u].session \in active'
               /\ madeAt'[claim'[u].holder][u] = claimNo'[u]
               /\ status'[u] \in Working
    <3>1. CASE u = t
      BY <1>1, <1>6, <1>8, <1>10, <1>12, <3>1
    <3>2. CASE u # t
      <4>1. claim'[u] = claim[u] /\ claimNo'[u] = claimNo[u] /\ u \in Claimed /\ u \in Tasks
        BY <1>1, <1>6, <3>2 DEF Claimed
      <4>2. claim[u].holder \in Holders
        BY <4>1, ClaimedIsTyped DEF IInv
      <4>3. madeAt'[claim[u].holder][u] = madeAt[claim[u].holder][u]
        BY <1>12, <3>2, <4>1, <4>2
      <4> QED
        BY <1>1, <4>1, <4>3 DEF IInv, Leases, ClaimsFollowTheLease,
           ClosedChildrenHoldNothing, ClaimsAreTheLatest, EndedTasksAreUnclaimed
    <3> QED
      BY <3>1, <3>2
  <2> QED
    BY <2>1 DEF Leases, ClaimsFollowTheLease, ClosedChildrenHoldNothing, ClaimsAreTheLatest,
       EndedTasksAreUnclaimed
<1>14. TypeOK'
  BY <1>1, <1>2, <1>10 DEF IInv, TypeOK, Claims
<1>15. HistoryOK'
  <2>1. UNCHANGED <<scope, written, workNo, granted>>
    BY <1>1
  <2> QED
    BY <1>2, <1>4, <1>10, <1>12, <2>1 DEF IInv, HistoryOK
<1>16. Orderly
  <2>1. UNCHANGED <<written, workNo>>
    BY <1>1
  <2> QED
    BY <2>1 DEF IInv, HistoryOK, Orderly, WritesGoOn, WorkIsOfTheLatest
<1> QED
  BY <1>2, <1>4, <1>5, <1>13, <1>14, <1>15, <1>16 DEF IInv

-----------------------------------------------------------------------------
(* The theorems.                                                           *)

LEMMA InitIsInvariant == Init => IInv
<1> SUFFICES ASSUME Init PROVE IInv
  OBVIOUS
<1>1. scope \in [holders : SUBSET Holders, children : SUBSET Children,
                 tasks : SUBSET Tasks, keys : Nat, levels : SUBSET (1..3),
                 turns : Nat, admin : Nat]
  BY TaskStoreAssumption DEF Init
<1>2. scope.turns \in Nat /\ scope.admin \in Nat /\ LeaseTicks \in Nat /\ scope.children \subseteq Children
  BY <1>1, TaskStoreAssumption
<1>3. TypeOK
  BY <1>2 DEF Init, TypeOK, Sessions
<1>4. HistoryOK
  BY <1>1 DEF Init, HistoryOK
<1>5. Leases /\ EndedTasksAreUnclaimed
  BY DEF Init, Leases, ClaimsFollowTheLease, ClosedChildrenHoldNothing, ClaimsAreTheLatest,
     EndedTasksAreUnclaimed, Claimed
<1>6. Work
  BY DEF Init, Work, WritesAreFenced, OutcomesAreStored, RequestsApplyOnce
<1>7. Grants
  BY TaskStoreAssumption DEF Init, Grants, GrantsEndWithTheirOwners, GrantsAreRecorded,
     WorkersStayInTheirSubtree
<1>8. Tree
  BY DEF Init, Tree, TreeOK, CompletedMeansDone
<1> QED
  BY <1>3, <1>4, <1>5, <1>6, <1>7, <1>8 DEF IInv

(* Every step keeps the invariant and does nothing out of order.           *)
LEMMA NextKeeps ==
  ASSUME IInv, Next
  PROVE  IInv' /\ Orderly
<1>1. UNCHANGED scope /\ Step
  BY DEF Next
<1>2. /\ scope.holders \subseteq Holders /\ scope.children \subseteq Children
      /\ scope.tasks \subseteq Tasks /\ scope.levels \subseteq 1..3
  BY DEF IInv, HistoryOK
<1>3. ASSUME NEW h \in scope.holders, NEW s \in Sessions, AcquireTurnLease(h, s)
      PROVE  IInv' /\ Orderly
  BY <1>1, <1>2, <1>3, AcquireTurnLeaseKeeps
<1>4. ASSUME NEW h \in Holders,
             HeartbeatTurnLease(h) \/ ReleaseTurnLease(h) \/ TurnLeaseWrite(h)
      PROVE  IInv' /\ Orderly
  BY <1>1, <1>4, HeartbeatTurnLeaseKeeps, ReleaseTurnLeaseKeeps, TurnLeaseWriteKeeps
<1>5. ASSUME Tick \/ RecoverInactiveTaskClaims PROVE IInv' /\ Orderly
  BY <1>1, <1>5, TickKeeps, RecoverInactiveTaskClaimsKeeps
<1>6. ASSUME NEW s \in Owners, ArchiveSession(s) \/ RestoreSession(s)
      PROVE  IInv' /\ Orderly
  BY <1>1, <1>6, ArchiveSessionKeeps, RestoreSessionKeeps
<1>7. ASSUME NEW c \in scope.children, NEW t \in scope.tasks,
             \/ AssignBuild(c, t) \/ ContinueBuild(c, t)
             \/ \E l \in scope.levels : IssueTaskAccessGrant(c, t, l)
      PROVE  IInv' /\ Orderly
  BY <1>1, <1>2, <1>7, AssignBuildKeeps, ContinueBuildKeeps, IssueTaskAccessGrantKeeps
<1>8. ASSUME NEW c \in scope.children,
             StartContinuation(c) \/ SettleBuild(c) \/ TerminateTaskAccessGrant(c)
      PROVE  IInv' /\ Orderly
  BY <1>1, <1>2, <1>8, StartContinuationKeeps, SettleBuildKeeps, TerminateTaskAccessGrantKeeps
<1>9. ASSUME NEW h \in Holders, NEW k \in Sent(h), Reject(h, k) PROVE IInv' /\ Orderly
  BY <1>1, <1>9, RejectKeeps DEF Sent
<1>10. ASSUME NEW h \in Holders, NEW k \in Sent(h), NEW t \in scope.tasks,
              \/ CreateRoot(h, k, t) \/ ClaimGlobalTask(h, k, t)
              \/ ReleaseGlobalTaskClaim(h, k, t)
       PROVE  IInv' /\ Orderly
  BY <1>1, <1>2, <1>10, CreateRootKeeps, ClaimGlobalTaskKeeps, ReleaseGlobalTaskClaimKeeps DEF Sent
<1>11. ASSUME NEW h \in Holders, NEW k \in Sent(h), NEW t \in scope.tasks, NEW p \in Patches,
              UpdateGlobalTask(h, k, t, p) \/ ManagementUpdateGlobalTask(h, k, t, p)
       PROVE  IInv' /\ Orderly
  BY <1>1, <1>2, <1>11, UpdateGlobalTaskKeeps, ManagementUpdateGlobalTaskKeeps DEF Sent
<1>12. ASSUME NEW h \in Holders, NEW k \in Sent(h), NEW t \in scope.tasks,
              \/ \E u \in scope.tasks : createChildTask(h, k, t, u)
              \/ \E T \in SUBSET scope.tasks : DecomposeGlobalTask(h, k, t, T)
       PROVE  IInv' /\ Orderly
  <2>1. PICK T \in SUBSET scope.tasks :
          (\A u \in T : status[u] = "absent") /\ CreateChildren(h, k, t, T)
    BY <1>12 DEF createChildTask, DecomposeGlobalTask
  <2>2. T \in SUBSET Tasks /\ t \in Tasks /\ k \in Keys
    BY <1>2 DEF Sent
  <2> QED
    BY <1>1, <2>1, <2>2, CreateChildrenKeeps
<1>13. ASSUME NEW h \in Holders, NEW t \in scope.tasks, OverrideReleaseGlobalTaskClaim(h, t)
       PROVE  IInv' /\ Orderly
  BY <1>1, <1>2, <1>13, OverrideReleaseGlobalTaskClaimKeeps
<1> QED
  BY <1>1, <1>3, <1>4, <1>5, <1>6, <1>7, <1>8, <1>9, <1>10, <1>11, <1>12, <1>13 DEF Step

LEMMA StutterKeeps ==
  ASSUME IInv, UNCHANGED vars
  PROVE  IInv'
<1>1. UNCHANGED <<scope, active, lease, turn, status, parent, claim, grant, result, admin,
                  written, claimNo, madeAt, workNo, applied, changer, granted>>
  BY DEF vars, leases, tree, history
<1>2. TypeOK' /\ HistoryOK'
  BY <1>1 DEF IInv, TypeOK, HistoryOK
<1>3. Leases' /\ EndedTasksAreUnclaimed'
  BY <1>1 DEF IInv, Leases, EndedTasksAreUnclaimed, ClaimsFollowTheLease, Claimed,
     ClosedChildrenHoldNothing, ClaimsAreTheLatest
<1>4. Work'
  BY <1>1 DEF IInv, Work, WritesAreFenced, OutcomesAreStored, RequestsApplyOnce
<1>5. WorkersStayInTheirSubtree'
  BY <1>1, WorkersAreKept DEF IInv, Grants
<1>6. Grants'
  BY <1>1, <1>5 DEF IInv, Grants, GrantsEndWithTheirOwners, GrantsAreRecorded
<1>7. Tree'
  BY <1>1, TreeIsKept DEF IInv
<1> QED
  BY <1>2, <1>3, <1>4, <1>6, <1>7 DEF IInv

(* The invariant is inductive.                                             *)
THEOREM Invariance == Spec => []IInv
<1>1. IInv /\ [Next]_vars => IInv'
  BY NextKeeps, StutterKeeps
<1> QED
  BY <1>1, InitIsInvariant, PTL DEF Spec

(* A claim belongs to the turn that has its session's lease, or had it     *)
(* last, and only unfinished Tasks are claimed (turn_leases.go,            *)
(* tasks_claims.go).                                                       *)
THEOREM ClaimsStaySound == Spec => []ClaimsAreSound
<1>1. IInv => ClaimsAreSound
  BY DEF IInv, Leases, ClaimsAreSound
<1> QED
  BY <1>1, Invariance, PTL

(* A completed Task has nothing unfinished below it, in a tree of any      *)
(* shape, and a request changes the Tasks at most once (tasks.go,          *)
(* tasks_tree.go, task_idempotency.go).                                    *)
THEOREM MutationsStaySound == Spec => []MutationsAreSound
<1>1. IInv => MutationsAreSound
  BY DEF IInv, Work, Tree, MutationsAreSound
<1> QED
  BY <1>1, Invariance, PTL

(* A worker has authority only while its owner's conversation is open, and *)
(* changed only Tasks below those it was granted (tasks_grants.go).        *)
THEOREM GrantsStayBounds == Spec => []GrantsAreBounds
<1>1. IInv => GrantsAreBounds
  BY DEF IInv, Grants, GrantsAreBounds
<1> QED
  BY <1>1, Invariance, PTL

(* Once another turn has claimed a Task, work under an earlier claim is    *)
(* refused, and the turns of a session write one after the other           *)
(* (claimOwnedBy, fenceTurnLeaseWrite).                                    *)
THEOREM StaleTurnsNeverWrite == Spec => StaleTurnsChangeNothing
<1>1. IInv /\ [Next]_vars => [WorkIsOfTheLatest]_workNo
  <2>1. ASSUME UNCHANGED vars PROVE UNCHANGED workNo
    BY <2>1 DEF vars, history
  <2> QED
    BY <2>1, NextKeeps DEF Orderly
<1>2. IInv /\ [Next]_vars => [WritesGoOn]_written
  <2>1. ASSUME UNCHANGED vars PROVE UNCHANGED written
    BY <2>1 DEF vars, history
  <2> QED
    BY <2>1, NextKeeps DEF Orderly
<1>3. Spec => [][WorkIsOfTheLatest]_workNo
  BY <1>1, Invariance, PTL DEF Spec
<1>4. Spec => [][WritesGoOn]_written
  BY <1>2, Invariance, PTL DEF Spec
<1> QED
  BY <1>3, <1>4 DEF StaleTurnsChangeNothing, LateWorkNeverLands, TurnsWriteInOrder,
     WorkIsOfTheLatest, WritesGoOn
=============================================================================
