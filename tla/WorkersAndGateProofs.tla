------------------------ MODULE WorkersAndGateProofs ------------------------
(***************************************************************************)
(* The proofs about the workers and about the gate of their builds.        *)
(*                                                                         *)
(* Subagents: no more workers run than the policy allows, a child has one  *)
(* unfinished attempt, each attempt settles as what its own answer made    *)
(* it, and only a live attempt answers: for any number of parents, turns,  *)
(* attempts, events and crashes.                                           *)
(*                                                                         *)
(* BuildGate: the target never loses a commit, only verified heads land    *)
(* while one call at a time has a gate of a build, and the records of one  *)
(* process tell what happened: for any number of builds, calls, owner's    *)
(* commits and losses.                                                     *)
(***************************************************************************)
EXTENDS Subagents, BuildGate, FiniteSetTheorems, TLAPS

Places == {"gone", "queued", "answered", "finishing"} \cup Executing

Rows == [parent : Parents, turn : Nat, key : Keys \cup Nat, child : Nat, after : Nat,
         state : Unfinished \cup Outcomes, wrapUp : BOOLEAN]
Leases == [token : Nat, held : BOOLEAN, open : BOOLEAN]
Events == [by : Nat, kind : {"message", "work", "final"}]
Turns == [no : Nat, live : BOOLEAN, hosted : BOOLEAN]

(* The variables have their shapes.                                        *)
ShapeOK ==
  /\ turn \in [Parents -> Turns]
  /\ attempts \in Seq(Rows)
  /\ log \in [Ids -> Seq(Events)]
  /\ lease \in [Ids -> Leases]
  /\ pc \in [Ids -> Places]
  /\ token \in [Ids -> Nat]

Child(i) == attempts[i].child

(* Of a child's attempts only the latest may be unfinished, and no attempt *)
(* is of a turn to come.                                                   *)
RowsOK ==
  /\ \A i, j \in DOMAIN attempts : Child(i) = Child(j) /\ j < i => Terminal(j)
  /\ \A i \in DOMAIN attempts : attempts[i].turn <= turn[attempts[i].parent].no

(* The goroutine of i holds the child's lease, and its session is open.    *)
HoldsLease(i) ==
  lease[Child(i)].held /\ lease[Child(i)].open /\ lease[Child(i)].token = token[i]

(* A goroutine that called the model and still has its child's lease is of *)
(* a running attempt: whoever settled the attempt closed the session, and  *)
(* reopening it took the lease away.                                       *)
LeasesOK ==
  \A i \in DOMAIN attempts :
    /\ token[i] <= lease[Child(i)].token
    /\ pc[i] = "called" /\ HoldsLease(i) => attempts[i].state = "running"

(* The events of a child are written by its attempts.                      *)
EventsOK ==
  \A c \in Ids : \A n \in DOMAIN log[c] :
    log[c][n].by \in DOMAIN attempts /\ Child(log[c][n].by) = c

Final(c, n) == log[c][n].kind = "final"

(* A final answer comes after its attempt's admission, ends its            *)
(* goroutine's calls, and was marked if its goroutine was wrapping up.     *)
AnswerOK(i, n) ==
  /\ n > attempts[i].after
  /\ pc[i] \in {"answered", "finishing", "gone"}
  /\ i \in wrapping => attempts[i].wrapUp

(* The final answers after the admission of an unfinished attempt are its  *)
(* own.                                                                    *)
FinalsOK ==
  \A i \in DOMAIN attempts :
    /\ attempts[i].after <= Len(log[Child(i)])
    /\ \A n \in DOMAIN log[Child(i)] : Final(Child(i), n) =>
         /\ log[Child(i)][n].by = i => AnswerOK(i, n)
         /\ ~Terminal(i) /\ n > attempts[i].after => log[Child(i)][n].by = i

(* The child may write nothing more for attempt i.                         *)
Spent(i) == Terminal(i) \/ i \in late \/ ~ParentLive(i)

(* A goroutine executes what was started, and whoever wraps up has marked  *)
(* its attempt unless that may write no more.                              *)
WrappingOK ==
  \A i \in DOMAIN attempts :
    /\ pc[i] \in Executing \cup {"answered"} => attempts[i].state # "admitted"
    /\ i \in wrapping => attempts[i].state # "admitted" /\ (attempts[i].wrapUp \/ Spent(i))

(* The inductive invariant.                                                *)
IInv == /\ TypeOK /\ ShapeOK /\ RowsOK /\ LeasesOK /\ EventsOK /\ FinalsOK /\ WrappingOK
        /\ CapacityHeld /\ AnswersDecide /\ WrapUpIsPartial

-----------------------------------------------------------------------------
(* Attempts, children and their rows.                                      *)

(* The attempts are numbered without a gap.                                *)
LEMMA Finite ==
  ASSUME IInv
  PROVE  /\ Len(attempts) \in Nat /\ Len(attempts) <= MaxAttempts /\ MaxAttempts \in Nat
         /\ DOMAIN attempts = 1 .. Len(attempts) /\ DOMAIN attempts \subseteq Ids
         /\ IsFiniteSet(DOMAIN attempts)
<1>1. attempts \in Seq(Rows) /\ Len(attempts) <= MaxAttempts /\ MaxAttempts \in Nat
  BY SubagentsAssumption DEF IInv, TypeOK, ShapeOK
<1>2. Len(attempts) \in Nat /\ DOMAIN attempts = 1 .. Len(attempts)
  BY <1>1
<1>3. IsFiniteSet(1 .. Len(attempts))
  BY <1>2, FS_Interval
<1> QED
  BY <1>1, <1>2, <1>3 DEF Ids

(* An attempt and its child have ids, and are what their types say.        *)
LEMMA RowIs ==
  ASSUME IInv, NEW i \in DOMAIN attempts
  PROVE  /\ i \in Nat /\ i >= 1 /\ i \in Ids /\ attempts[i] \in Rows
         /\ Child(i) \in Nat /\ Child(i) <= i /\ Child(i) \in DOMAIN attempts /\ Child(i) \in Ids
         /\ lease[Child(i)] \in Leases /\ log[Child(i)] \in Seq(Events)
<1>1. attempts \in Seq(Rows)
  BY DEF IInv, ShapeOK
<1>2. i \in 1 .. Len(attempts) /\ attempts[i] \in Rows /\ i \in Ids
  BY <1>1, Finite
<1>3. Child(i) \in 1 .. i
  BY DEF IInv, TypeOK, Child
<1>4. Child(i) \in Nat /\ Child(i) <= i /\ Child(i) \in DOMAIN attempts /\ Child(i) \in Ids
  BY <1>2, <1>3, Finite
<1>5. lease[Child(i)] \in Leases /\ log[Child(i)] \in Seq(Events)
  BY <1>4 DEF IInv, ShapeOK
<1> QED
  BY <1>2, <1>4, <1>5, Finite

(* What is at least as great as the rest is the greatest.                  *)
LEMMA MaxIs ==
  ASSUME NEW S, S \subseteq Nat, NEW m \in S, \A x \in S : x <= m
  PROVE  Max(S) = m
<1>1. \A y \in S : (\A x \in S : y >= x) => y = m
  OBVIOUS
<1>2. m \in S /\ \A x \in S : m >= x
  OBVIOUS
<1> QED
  BY <1>1, <1>2 DEF Max

(* An unfinished attempt is its child's latest.                            *)
LEMMA UnfinishedIsLatest ==
  ASSUME IInv, NEW i \in DOMAIN attempts, ~Terminal(i)
  PROVE  Latest(Child(i)) = i
<1> DEFINE S == OfChild(Child(i))
<1>1. S \subseteq Nat /\ i \in S
  BY Finite DEF OfChild, Child
<1>2. \A j \in S : j <= i
  <2> SUFFICES ASSUME NEW j \in S, ~(j <= i) PROVE FALSE
    OBVIOUS
  <2>1. j \in DOMAIN attempts /\ Child(j) = Child(i) /\ i < j
    BY <1>1, RowIs DEF OfChild, Child
  <2> QED
    BY <2>1 DEF IInv, RowsOK
<1> HIDE DEF S
<1>3. Max(S) = i
  BY <1>1, <1>2, MaxIs
<1> QED
  BY <1>3 DEF S, Latest

(* An attempt that may be written for is the one that runs.                *)
LEMMA RunningIsAuthorized ==
  ASSUME IInv, NEW i \in DOMAIN attempts, attempts[i].state = "running",
         ChildAuthorized(Child(i))
  PROVE  i \notin late /\ ParentLive(i) /\ ~Spent(i)
<1>1. ~Terminal(i)
  BY DEF Terminal, Unfinished
<1>2. Latest(Child(i)) = i
  BY <1>1, UnfinishedIsLatest
<1> QED
  BY <1>1, <1>2 DEF ChildAuthorized, Spent

(* A goroutine that called the model and may write does so for its own     *)
(* running attempt.                                                        *)
LEMMA WritesForItself ==
  ASSUME IInv, NEW i \in DOMAIN attempts, pc[i] = "called", MayWrite(i)
  PROVE  attempts[i].state = "running" /\ i \notin late /\ ParentLive(i) /\ ~Spent(i)
<1>1. HoldsLease(i) /\ ChildAuthorized(Child(i))
  BY DEF MayWrite, HoldsLease, Child
<1>2. attempts[i].state = "running"
  BY <1>1 DEF IInv, LeasesOK
<1> QED
  BY <1>1, <1>2, RunningIsAuthorized

-----------------------------------------------------------------------------
(* What a step that leaves the rows and the events alone keeps.            *)

Said == {"answered", "finishing", "gone"}

(* Turns may end, deadlines pass and goroutines go on.                     *)
LEMMA QuietKeeps ==
  ASSUME IInv, UNCHANGED <<attempts, log, wrapping>>,
         \A q \in Parents : turn'[q].no \in Nat /\ turn[q].no <= turn'[q].no,
         \A j \in DOMAIN attempts : pc[j] \in Said => pc'[j] \in Said,
         \A j \in DOMAIN attempts :
           pc'[j] \in Executing \cup {"answered"} => attempts[j].state # "admitted",
         late \subseteq late',
         \A j \in DOMAIN attempts : ParentLive(j)' => ParentLive(j)
  PROVE  /\ RowsOK' /\ EventsOK' /\ FinalsOK' /\ WrappingOK'
         /\ CapacityHeld' /\ AnswersDecide' /\ WrapUpIsPartial'
<1>1. CapacityHeld' /\ AnswersDecide' /\ WrapUpIsPartial' /\ EventsOK'
  BY DEF IInv, CapacityHeld, Running, AnswersDecide, WrapUpIsPartial, EventsOK, Terminal, Child
<1>2. RowsOK'
  <2>1. \A j \in DOMAIN attempts : /\ attempts[j].turn \in Nat /\ attempts[j].parent \in Parents
                                   /\ turn[attempts[j].parent].no \in Nat
    BY RowIs DEF IInv, ShapeOK, Rows, Turns
  <2>2. \A j \in DOMAIN attempts : attempts[j].turn <= turn'[attempts[j].parent].no
    BY <2>1 DEF IInv, RowsOK
  <2> QED
    BY <2>2 DEF IInv, RowsOK, Terminal, Child
<1>3. FinalsOK'
  BY DEF IInv, FinalsOK, AnswerOK, Final, Terminal, Child, Said
<1>4. \A j \in DOMAIN attempts : Spent(j) => Spent(j)'
  BY DEF Spent, Terminal
<1>5. WrappingOK'
  BY <1>4 DEF IInv, WrappingOK
<1> QED
  BY <1>1, <1>2, <1>3, <1>5

(* A goroutine goes to x.                                                  *)
LEMMA GoroutineMoves ==
  ASSUME IInv, NEW i \in DOMAIN attempts, NEW x \in Places,
         pc' = [pc EXCEPT ![i] = x], UNCHANGED <<turn, attempts, log, late, wrapping>>,
         pc[i] \in Said => x \in Said,
         x \in Executing \cup {"answered"} => attempts[i].state # "admitted"
  PROVE  /\ RowsOK' /\ EventsOK' /\ FinalsOK' /\ WrappingOK'
         /\ CapacityHeld' /\ AnswersDecide' /\ WrapUpIsPartial'
         /\ pc' \in [Ids -> Places]
<1>1. pc \in [Ids -> Places] /\ i \in Ids /\ turn \in [Parents -> Turns]
  BY RowIs DEF IInv, ShapeOK
<1>2. pc' \in [Ids -> Places] /\ pc'[i] = x /\ \A j \in Ids : j # i => pc'[j] = pc[j]
  BY <1>1
<1>3. \A j \in DOMAIN attempts : pc[j] \in Said => pc'[j] \in Said
  BY <1>2, Finite
<1>4. \A j \in DOMAIN attempts :
        pc'[j] \in Executing \cup {"answered"} => attempts[j].state # "admitted"
  BY <1>2, Finite DEF IInv, WrappingOK
<1>5. \A q \in Parents : turn'[q].no \in Nat /\ turn[q].no <= turn'[q].no
  BY <1>1 DEF Turns
<1>6. \A j \in DOMAIN attempts : ParentLive(j)' => ParentLive(j)
  BY DEF ParentLive
<1>7. late \subseteq late'
  OBVIOUS
<1>8. UNCHANGED <<attempts, log, wrapping>>
  OBVIOUS
<1> QED
  BY <1>2, <1>3, <1>4, <1>5, <1>6, <1>7, <1>8, QuietKeeps

(* What a step may do to states and calls.                                 *)
StatesLast == \A j \in DOMAIN attempts : Terminal(j) => attempts'[j].state = attempts[j].state
CallsAreLive ==
  \A j \in DOMAIN attempts : pc[j] # "called" /\ pc'[j] = "called" =>
    attempts[j].state = "running" /\ ParentLive(j)
Kept == IInv' /\ StatesLast /\ CallsAreLive

(* Leases are untouched and nobody calls the model.                        *)
LEMMA LeasesStay ==
  ASSUME IInv, UNCHANGED <<attempts, lease, token>>,
         \A j \in DOMAIN attempts : pc'[j] = "called" => pc[j] = "called"
  PROVE  LeasesOK' /\ CallsAreLive /\ StatesLast
BY DEF IInv, LeasesOK, HoldsLease, Child, CallsAreLive, StatesLast

LEMMA AlreadySettledKeeps ==
  ASSUME IInv, NEW i \in DOMAIN attempts, AlreadySettled(i)
  PROVE  Kept
<1>1. PICK x : x = "gone"
  OBVIOUS
<1>2. /\ pc' = [pc EXCEPT ![i] = x] /\ x \in Places /\ x \in Said
      /\ x \notin Executing \cup {"answered"} /\ x # "called"
      /\ UNCHANGED <<turn, attempts, log, lease, late, token, wrapping, outcome, unsettled>>
      /\ pc[i] = "queued"
  BY <1>1 DEF AlreadySettled, Places, Said, Executing
<1>3. /\ RowsOK' /\ EventsOK' /\ FinalsOK' /\ WrappingOK'
      /\ CapacityHeld' /\ AnswersDecide' /\ WrapUpIsPartial' /\ pc' \in [Ids -> Places]
  BY <1>2, GoroutineMoves
<1>4. /\ pc \in [Ids -> Places] /\ i \in Ids
      /\ pc'[i] = x /\ \A j \in Ids : j # i => pc'[j] = pc[j]
  BY <1>2, RowIs DEF IInv, ShapeOK
<1>5. LeasesOK' /\ CallsAreLive /\ StatesLast
  BY <1>2, <1>4, LeasesStay, Finite
<1>6. TypeOK'
  BY <1>2, <1>4, Finite DEF IInv, TypeOK, Executing
<1>7. ShapeOK'
  BY <1>2, <1>3 DEF IInv, ShapeOK
<1> QED
  BY <1>3, <1>5, <1>6, <1>7 DEF IInv, Kept

LEMMA GiveUpKeeps ==
  ASSUME IInv, NEW i \in DOMAIN attempts, GiveUp(i)
  PROVE  Kept
<1>1. PICK x : x = "finishing"
  OBVIOUS
<1>2. PICK o \in {"failed", "cancelled", "interrupted"} : Decide(i, o)
  BY DEF GiveUp
<1>3. /\ pc' = [pc EXCEPT ![i] = x] /\ x \in Places /\ x \in Said
      /\ x \notin Executing \cup {"answered"} /\ x # "called"
      /\ UNCHANGED <<turn, attempts, log, lease, late, token, wrapping, unsettled>>
      /\ outcome' = [outcome EXCEPT ![i] = o] /\ o \in Outcomes /\ pc[i] = "queued"
  BY <1>1, <1>2 DEF GiveUp, Decide, Places, Said, Executing, Outcomes
<1>4. /\ RowsOK' /\ EventsOK' /\ FinalsOK' /\ WrappingOK'
      /\ CapacityHeld' /\ AnswersDecide' /\ WrapUpIsPartial' /\ pc' \in [Ids -> Places]
  BY <1>3, GoroutineMoves
<1>5. /\ pc \in [Ids -> Places] /\ i \in Ids
      /\ pc'[i] = x /\ \A j \in Ids : j # i => pc'[j] = pc[j]
  BY <1>3, RowIs DEF IInv, ShapeOK
<1>6. LeasesOK' /\ CallsAreLive /\ StatesLast
  BY <1>3, <1>5, LeasesStay, Finite
<1>7. TypeOK'
  BY <1>3, <1>5, Finite DEF IInv, TypeOK, Executing
<1>8. ShapeOK'
  BY <1>3, <1>4 DEF IInv, ShapeOK
<1> QED
  BY <1>4, <1>6, <1>7, <1>8 DEF IInv, Kept

LEMMA FailKeeps ==
  ASSUME IInv, NEW i \in DOMAIN attempts, Fail(i)
  PROVE  Kept
<1>1. PICK x : x = "answered"
  OBVIOUS
<1>2. PICK o \in {"failed", "cancelled", "interrupted"} : outcome' = [outcome EXCEPT ![i] = o]
  BY DEF Fail
<1>3. /\ pc' = [pc EXCEPT ![i] = x] /\ x \in Places /\ x \in Said /\ x # "called"
      /\ UNCHANGED <<turn, attempts, log, lease, late, token, wrapping, unsettled>>
      /\ pc[i] \in Executing
      /\ outcome' = [outcome EXCEPT ![i] = o] /\ o \in Outcomes
  BY <1>1, <1>2 DEF Fail, Places, Said, Outcomes
<1>4. attempts[i].state # "admitted"
  BY <1>3 DEF IInv, WrappingOK
<1>5. /\ RowsOK' /\ EventsOK' /\ FinalsOK' /\ WrappingOK'
      /\ CapacityHeld' /\ AnswersDecide' /\ WrapUpIsPartial' /\ pc' \in [Ids -> Places]
  BY <1>3, <1>4, GoroutineMoves
<1>6. /\ pc \in [Ids -> Places] /\ i \in Ids
      /\ pc'[i] = x /\ \A j \in Ids : j # i => pc'[j] = pc[j]
  BY <1>3, RowIs DEF IInv, ShapeOK
<1>7. LeasesOK' /\ CallsAreLive /\ StatesLast
  BY <1>3, <1>6, LeasesStay, Finite
<1>8. TypeOK'
  BY <1>1, <1>3, <1>6, Finite DEF IInv, TypeOK, Executing
<1>9. ShapeOK'
  BY <1>3, <1>5 DEF IInv, ShapeOK
<1> QED
  BY <1>5, <1>7, <1>8, <1>9 DEF IInv, Kept

LEMMA HandOffKeeps ==
  ASSUME IInv, NEW i \in DOMAIN attempts, HandOff(i)
  PROVE  Kept
<1>1. PICK x : x = "gone"
  OBVIOUS
<1>2. /\ pc' = [pc EXCEPT ![i] = x] /\ x \in Places /\ x \in Said
      /\ x \notin Executing \cup {"answered"} /\ x # "called"
      /\ UNCHANGED <<turn, attempts, log, lease, late, token, wrapping, outcome>>
      /\ unsettled' = unsettled \cup {i} /\ pc[i] = "finishing"
  BY <1>1 DEF HandOff, Places, Said, Executing
<1>3. /\ RowsOK' /\ EventsOK' /\ FinalsOK' /\ WrappingOK'
      /\ CapacityHeld' /\ AnswersDecide' /\ WrapUpIsPartial' /\ pc' \in [Ids -> Places]
  BY <1>2, GoroutineMoves
<1>4. /\ pc \in [Ids -> Places] /\ i \in Ids
      /\ pc'[i] = x /\ \A j \in Ids : j # i => pc'[j] = pc[j]
  BY <1>2, RowIs DEF IInv, ShapeOK
<1>5. LeasesOK' /\ CallsAreLive /\ StatesLast
  BY <1>2, <1>4, LeasesStay, Finite
<1>6. TypeOK'
  BY <1>2, <1>4, Finite DEF IInv, TypeOK, Executing
<1>7. ShapeOK'
  BY <1>2, <1>3 DEF IInv, ShapeOK
<1> QED
  BY <1>3, <1>5, <1>6, <1>7 DEF IInv, Kept

(* The child's lease gets a new token: who held it before holds it no more.*)
LEMMA AcquireKeeps ==
  ASSUME IInv, NEW i \in DOMAIN attempts, Acquire(i)
  PROVE  Kept
<1> DEFINE c == Child(i)
<1>1. PICK x : x = "acquired"
  OBVIOUS
<1>2. /\ pc' = [pc EXCEPT ![i] = x] /\ x \in Places /\ pc[i] = "started" /\ x # "called"
      /\ UNCHANGED <<turn, attempts, log, late, wrapping, outcome, unsettled>>
      /\ lease' = [lease EXCEPT ![c] = [lease[c] EXCEPT !.held = TRUE, !.token = lease[c].token + 1]]
      /\ token' = [token EXCEPT ![i] = lease[c].token + 1]
  BY <1>1 DEF Acquire, Places, Executing, Child
<1>3. attempts[i].state # "admitted"
  BY <1>2 DEF IInv, WrappingOK, Executing
<1>4. pc[i] \notin Said
  BY <1>2 DEF Said
<1>5. /\ RowsOK' /\ EventsOK' /\ FinalsOK' /\ WrappingOK'
      /\ CapacityHeld' /\ AnswersDecide' /\ WrapUpIsPartial' /\ pc' \in [Ids -> Places]
  BY <1>2, <1>3, <1>4, GoroutineMoves
<1>6. /\ pc \in [Ids -> Places] /\ i \in Ids /\ c \in Ids
      /\ pc'[i] = x /\ \A j \in Ids : j # i => pc'[j] = pc[j]
      /\ lease \in [Ids -> Leases] /\ token \in [Ids -> Nat] /\ lease[c].token \in Nat
  BY <1>2, RowIs DEF IInv, ShapeOK, Leases
<1>7. /\ lease'[c].token = lease[c].token + 1 /\ lease'[c] \in Leases
      /\ \A d \in Ids : d # c => lease'[d] = lease[d]
      /\ token'[i] = lease[c].token + 1 /\ \A j \in Ids : j # i => token'[j] = token[j]
      /\ lease' \in [Ids -> Leases] /\ token' \in [Ids -> Nat]
  <2>1. lease[c] \in Leases /\ TRUE \in BOOLEAN /\ lease[c].token + 1 \in Nat
    BY <1>6
  <2>2. [lease[c] EXCEPT !.held = TRUE, !.token = lease[c].token + 1] \in Leases
    BY <2>1, Zenon DEF Leases
  <2>3. [lease[c] EXCEPT !.held = TRUE, !.token = lease[c].token + 1].token = lease[c].token + 1
    BY <2>1 DEF Leases
  <2> QED
    BY <1>2, <1>6, <2>2, <2>3
<1> HIDE DEF c
<1>8. LeasesOK'
  <2>1. \A j \in DOMAIN attempts : j \in Ids /\ Child(j) \in Ids /\ Child(j)' = Child(j)
                                   /\ lease[Child(j)].token \in Nat /\ token[j] \in Nat
    BY <1>2, <1>6, RowIs DEF Child, Leases
  <2>2. ASSUME NEW j \in DOMAIN attempts, Child(j) # c PROVE
          /\ token'[j] <= lease'[Child(j)].token
          /\ pc'[j] = "called" /\ HoldsLease(j)' => attempts[j].state = "running"
    <3>1. j # i
      BY <2>2 DEF c
    <3> QED
      BY <1>6, <1>7, <2>1, <2>2, <3>1 DEF IInv, LeasesOK, HoldsLease
  <2>3. ASSUME NEW j \in DOMAIN attempts, Child(j) = c, j # i PROVE
          /\ token'[j] <= lease'[Child(j)].token /\ ~HoldsLease(j)'
    <3>1. token[j] <= lease[c].token
      BY <2>3 DEF IInv, LeasesOK
    <3>2. token'[j] = token[j] /\ token[j] \in Nat
      BY <1>7, <2>1, <2>3
    <3>3. lease'[Child(j)].token = lease[c].token + 1
      BY <1>7, <2>3
    <3> QED
      BY <1>6, <2>1, <3>1, <3>2, <3>3 DEF HoldsLease
  <2>4. token'[i] <= lease'[Child(i)].token /\ pc'[i] # "called"
    BY <1>2, <1>6, <1>7 DEF c
  <2>5. \A j \in DOMAIN attempts : \/ j = i \/ Child(j) # c \/ (Child(j) = c /\ j # i)
    OBVIOUS
  <2> QED
    BY <1>2, <2>1, <2>2, <2>3, <2>4, <2>5 DEF LeasesOK
<1>9. CallsAreLive /\ StatesLast
  BY <1>2, <1>6, Finite DEF CallsAreLive, StatesLast
<1>10. TypeOK'
  BY <1>1, <1>2, <1>6, <1>7, Finite DEF IInv, TypeOK, Executing
<1>11. ShapeOK'
  BY <1>2, <1>5, <1>7 DEF IInv, ShapeOK
<1> QED
  BY <1>5, <1>8, <1>9, <1>10, <1>11 DEF IInv, Kept

LEMMA CallModelKeeps ==
  ASSUME IInv, NEW i \in DOMAIN attempts, CallModel(i)
  PROVE  Kept
<1>1. PICK x : x = "called"
  OBVIOUS
<1>2. /\ pc' = [pc EXCEPT ![i] = x] /\ x \in Places /\ pc[i] = "asked" /\ x \in Executing
      /\ UNCHANGED <<turn, attempts, log, lease, late, token, wrapping, outcome, unsettled>>
      /\ attempts[i].state = "running" /\ ChildAuthorized(Child(i))
  BY <1>1 DEF CallModel, Places, Executing, Child
<1>3. attempts[i].state # "admitted" /\ pc[i] \notin Said
  BY <1>2 DEF Said
<1>4. /\ RowsOK' /\ EventsOK' /\ FinalsOK' /\ WrappingOK'
      /\ CapacityHeld' /\ AnswersDecide' /\ WrapUpIsPartial' /\ pc' \in [Ids -> Places]
  BY <1>2, <1>3, GoroutineMoves
<1>5. /\ pc \in [Ids -> Places] /\ i \in Ids
      /\ pc'[i] = x /\ \A j \in Ids : j # i => pc'[j] = pc[j]
  BY <1>2, RowIs DEF IInv, ShapeOK
<1>6. LeasesOK'
  BY <1>2, <1>5, Finite DEF IInv, LeasesOK, HoldsLease, Child
<1>7. ParentLive(i)
  BY <1>2, RunningIsAuthorized
<1>8. CallsAreLive /\ StatesLast
  BY <1>2, <1>5, <1>7, Finite DEF CallsAreLive, StatesLast
<1>9. TypeOK'
  BY <1>2, <1>5, Finite DEF IInv, TypeOK
<1>10. ShapeOK'
  BY <1>2, <1>4 DEF IInv, ShapeOK
<1> QED
  BY <1>4, <1>6, <1>8, <1>9, <1>10 DEF IInv, Kept

LEMMA ReleaseKeeps ==
  ASSUME IInv, NEW i \in DOMAIN attempts, Release(i)
  PROVE  Kept
<1> DEFINE c == Child(i)
<1>1. PICK x : x = "finishing"
  OBVIOUS
<1>2. /\ pc' = [pc EXCEPT ![i] = x] /\ x \in Places /\ pc[i] = "answered" /\ x # "called"
      /\ x \in Said /\ x \notin Executing \cup {"answered"}
      /\ UNCHANGED <<turn, attempts, log, late, wrapping, outcome, unsettled>>
      /\ lease' = lease \/ lease' = [lease EXCEPT ![c] = [lease[c] EXCEPT !.held = FALSE]]
      /\ token' = [token EXCEPT ![i] = 0]
  BY <1>1 DEF Release, Places, Executing, Child, Said
<1>3. /\ RowsOK' /\ EventsOK' /\ FinalsOK' /\ WrappingOK'
      /\ CapacityHeld' /\ AnswersDecide' /\ WrapUpIsPartial' /\ pc' \in [Ids -> Places]
  BY <1>2, GoroutineMoves
<1>4. /\ pc \in [Ids -> Places] /\ i \in Ids /\ c \in Ids
      /\ pc'[i] = x /\ \A j \in Ids : j # i => pc'[j] = pc[j]
      /\ lease \in [Ids -> Leases] /\ token \in [Ids -> Nat]
      /\ token'[i] = 0 /\ \A j \in Ids : j # i => token'[j] = token[j]
      /\ token' \in [Ids -> Nat]
  BY <1>2, RowIs DEF IInv, ShapeOK
<1>5. /\ lease' \in [Ids -> Leases]
      /\ \A d \in Ids : /\ lease'[d].token = lease[d].token /\ lease'[d].open = lease[d].open
                        /\ lease'[d].held => lease[d].held
  <2>1. [lease[c] EXCEPT !.held = FALSE] \in Leases
    BY <1>4 DEF Leases
  <2>2. /\ [lease[c] EXCEPT !.held = FALSE].token = lease[c].token
        /\ [lease[c] EXCEPT !.held = FALSE].open = lease[c].open
        /\ ~[lease[c] EXCEPT !.held = FALSE].held
    BY <1>4 DEF Leases
  <2> HIDE DEF c
  <2> QED
    BY <1>2, <1>4, <2>1, <2>2
<1> HIDE DEF c
<1>6. LeasesOK'
  <2> SUFFICES ASSUME NEW j \in DOMAIN attempts
               PROVE  /\ token'[j] <= lease'[Child(j)].token
                      /\ pc'[j] = "called" /\ HoldsLease(j)' => attempts[j].state = "running"
    BY <1>2 DEF LeasesOK, Child
  <2>1. /\ j \in Ids /\ Child(j) \in Ids /\ Child(j)' = Child(j)
        /\ lease[Child(j)].token \in Nat
    BY <1>2, <1>4, RowIs DEF Child, Leases
  <2>2. token[j] <= lease[Child(j)].token
        /\ (pc[j] = "called" /\ HoldsLease(j) => attempts[j].state = "running")
    BY DEF IInv, LeasesOK
  <2>3. CASE j = i
    BY <1>2, <1>4, <1>5, <2>1, <2>3
  <2>4. CASE j # i
    BY <1>4, <1>5, <2>1, <2>2, <2>4 DEF HoldsLease
  <2> QED
    BY <2>3, <2>4
<1>7. CallsAreLive /\ StatesLast
  BY <1>2, <1>4, Finite DEF CallsAreLive, StatesLast
<1>8. TypeOK'
  BY <1>2, <1>4, Finite DEF IInv, TypeOK, Executing
<1>9. ShapeOK'
  BY <1>2, <1>3, <1>4, <1>5 DEF IInv, ShapeOK
<1> QED
  BY <1>3, <1>6, <1>7, <1>8, <1>9 DEF IInv, Kept

-----------------------------------------------------------------------------
(* The surroundings.                                                       *)

LEMMA LoseTurnKeeps ==
  ASSUME IInv, NEW q \in Parents, LoseTurn(q)
  PROVE  Kept
<1>1. /\ turn' = [turn EXCEPT ![q] = [turn[q] EXCEPT !.live = FALSE]]
      /\ UNCHANGED <<attempts, log, lease, late, pc, token, wrapping, outcome, unsettled>>
  BY DEF LoseTurn
<1>2. turn \in [Parents -> Turns] /\ turn[q] \in Turns
  BY DEF IInv, ShapeOK
<1>3. /\ [turn[q] EXCEPT !.live = FALSE] \in Turns
      /\ [turn[q] EXCEPT !.live = FALSE].no = turn[q].no
      /\ ~[turn[q] EXCEPT !.live = FALSE].live
  <2>1. FALSE \in BOOLEAN
    OBVIOUS
  <2>2. [turn[q] EXCEPT !.live = FALSE] \in Turns
    BY <1>2, <2>1, Zenon DEF Turns
  <2> QED
    BY <1>2, <2>2 DEF Turns
<1>4. /\ turn' \in [Parents -> Turns]
      /\ \A r \in Parents : turn'[r].no = turn[r].no /\ (turn'[r].live => turn[r].live)
  BY <1>1, <1>2, <1>3
<1>5. \A r \in Parents : turn'[r].no \in Nat /\ turn[r].no <= turn'[r].no
  BY <1>4 DEF Turns
<1>6. \A j \in DOMAIN attempts : ParentLive(j)' => ParentLive(j)
  BY <1>1, <1>4, RowIs DEF ParentLive, Rows
<1>7. /\ UNCHANGED <<attempts, log, wrapping>> /\ late \subseteq late'
      /\ \A j \in DOMAIN attempts : pc[j] \in Said => pc'[j] \in Said
      /\ \A j \in DOMAIN attempts :
           pc'[j] \in Executing \cup {"answered"} => attempts[j].state # "admitted"
  BY <1>1 DEF IInv, WrappingOK
<1>8. /\ RowsOK' /\ EventsOK' /\ FinalsOK' /\ WrappingOK'
      /\ CapacityHeld' /\ AnswersDecide' /\ WrapUpIsPartial'
  BY <1>5, <1>6, <1>7, QuietKeeps
<1>9. LeasesOK' /\ CallsAreLive /\ StatesLast
  BY <1>1, LeasesStay
<1>10. TypeOK'
  BY <1>1, <1>4 DEF IInv, TypeOK
<1>11. ShapeOK'
  BY <1>1, <1>4 DEF IInv, ShapeOK
<1> QED
  BY <1>8, <1>9, <1>10, <1>11 DEF IInv, Kept

(* No attempt is of a turn to come.                                        *)
LEMMA NewTurnKeeps ==
  ASSUME IInv, NEW q \in Parents, NewTurn(q)
  PROVE  Kept
<1>1. /\ turn' = [turn EXCEPT ![q] = [no |-> turn[q].no + 1, live |-> TRUE, hosted |-> TRUE]]
      /\ UNCHANGED <<attempts, log, lease, late, pc, token, wrapping, outcome, unsettled>>
      /\ turn[q].no < MaxTurns
  BY DEF NewTurn
<1>2. turn \in [Parents -> Turns] /\ turn[q].no \in Nat /\ turn[q].no \in 1 .. MaxTurns
  BY DEF IInv, ShapeOK, TypeOK, Turns
<1>3. /\ turn' \in [Parents -> Turns] /\ turn'[q].no = turn[q].no + 1
      /\ \A r \in Parents : r # q => turn'[r] = turn[r]
  BY <1>1, <1>2 DEF Turns
<1>4. \A r \in Parents : turn'[r].no \in Nat /\ turn[r].no <= turn'[r].no
  BY <1>2, <1>3 DEF Turns
<1>5. ASSUME NEW j \in DOMAIN attempts, ParentLive(j)' PROVE ParentLive(j)
  <2>1. /\ attempts[j].parent \in Parents /\ attempts[j].turn \in Nat
        /\ attempts[j].turn <= turn[attempts[j].parent].no
        /\ turn'[attempts[j].parent].no = attempts[j].turn
    BY <1>1, <1>5, RowIs DEF ParentLive, IInv, RowsOK, Rows
  <2>2. attempts[j].parent # q
    BY <1>2, <1>3, <2>1
  <2> QED
    BY <1>1, <1>3, <1>5, <2>1, <2>2 DEF ParentLive
<1>6. \A j \in DOMAIN attempts : ParentLive(j)' => ParentLive(j)
  BY <1>5
<1>7. /\ UNCHANGED <<attempts, log, wrapping>> /\ late \subseteq late'
      /\ \A j \in DOMAIN attempts : pc[j] \in Said => pc'[j] \in Said
      /\ \A j \in DOMAIN attempts :
           pc'[j] \in Executing \cup {"answered"} => attempts[j].state # "admitted"
  BY <1>1 DEF IInv, WrappingOK
<1>8. /\ RowsOK' /\ EventsOK' /\ FinalsOK' /\ WrappingOK'
      /\ CapacityHeld' /\ AnswersDecide' /\ WrapUpIsPartial'
  BY <1>4, <1>6, <1>7, QuietKeeps
<1>9. LeasesOK' /\ CallsAreLive /\ StatesLast
  BY <1>1, LeasesStay
<1>10. TypeOK'
  <2>1. \A r \in Parents : turn'[r].no \in 1 .. MaxTurns
    BY <1>1, <1>2, <1>3, SubagentsAssumption DEF IInv, TypeOK
  <2> QED
    BY <1>1, <2>1 DEF IInv, TypeOK
<1>11. ShapeOK'
  BY <1>1, <1>3 DEF IInv, ShapeOK
<1> QED
  BY <1>8, <1>9, <1>10, <1>11 DEF IInv, Kept

LEMMA DeadlineKeeps ==
  ASSUME IInv, NEW i \in DOMAIN attempts, Deadline(i)
  PROVE  Kept
<1>1. /\ late' = late \cup {i}
      /\ UNCHANGED <<turn, attempts, log, lease, pc, token, wrapping, outcome, unsettled>>
  BY DEF Deadline
<1>2. \A r \in Parents : turn'[r].no \in Nat /\ turn[r].no <= turn'[r].no
  BY <1>1 DEF IInv, ShapeOK, Turns
<1>3. \A j \in DOMAIN attempts : ParentLive(j)' => ParentLive(j)
  BY <1>1 DEF ParentLive
<1>4. /\ UNCHANGED <<attempts, log, wrapping>> /\ late \subseteq late'
      /\ \A j \in DOMAIN attempts : pc[j] \in Said => pc'[j] \in Said
      /\ \A j \in DOMAIN attempts :
           pc'[j] \in Executing \cup {"answered"} => attempts[j].state # "admitted"
  BY <1>1 DEF IInv, WrappingOK
<1>5. /\ RowsOK' /\ EventsOK' /\ FinalsOK' /\ WrappingOK'
      /\ CapacityHeld' /\ AnswersDecide' /\ WrapUpIsPartial'
  BY <1>2, <1>3, <1>4, QuietKeeps
<1>6. LeasesOK' /\ CallsAreLive /\ StatesLast
  BY <1>1, LeasesStay
<1>7. TypeOK'
  BY <1>1 DEF IInv, TypeOK
<1>8. ShapeOK'
  BY <1>1 DEF IInv, ShapeOK
<1> QED
  BY <1>5, <1>6, <1>7, <1>8 DEF IInv, Kept

LEMMA CrashKeeps ==
  ASSUME IInv, Crash
  PROVE  Kept
<1>1. /\ pc' = [j \in Ids |-> "gone"] /\ unsettled' = {}
      /\ turn' = [q \in Parents |-> [turn[q] EXCEPT !.hosted = FALSE]]
      /\ token' = [j \in Ids |-> 0] /\ outcome' = [j \in Ids |-> "failed"]
      /\ UNCHANGED <<attempts, log, lease, late, wrapping>>
  BY DEF Crash
<1>2. turn \in [Parents -> Turns]
  BY DEF IInv, ShapeOK
<1>3. ASSUME NEW x \in Turns
      PROVE  /\ [x EXCEPT !.hosted = FALSE] \in Turns
             /\ [x EXCEPT !.hosted = FALSE].no = x.no
             /\ [x EXCEPT !.hosted = FALSE].live = x.live
  <2>1. FALSE \in BOOLEAN
    OBVIOUS
  <2>2. [x EXCEPT !.hosted = FALSE] \in Turns
    BY <2>1, Zenon DEF Turns
  <2> QED
    BY <2>2 DEF Turns
<1>4. /\ turn' \in [Parents -> Turns]
      /\ \A r \in Parents : turn'[r].no = turn[r].no /\ turn'[r].live = turn[r].live
  BY <1>1, <1>2, <1>3
<1>5. \A r \in Parents : turn'[r].no \in Nat /\ turn[r].no <= turn'[r].no
  BY <1>4 DEF Turns
<1>6. \A j \in DOMAIN attempts : ParentLive(j)' => ParentLive(j)
  BY <1>1, <1>4, RowIs DEF ParentLive, Rows
<1>7. \A j \in DOMAIN attempts : pc'[j] = "gone" /\ token'[j] = 0
  BY <1>1, Finite
<1>8. /\ UNCHANGED <<attempts, log, wrapping>> /\ late \subseteq late'
      /\ \A j \in DOMAIN attempts : pc[j] \in Said => pc'[j] \in Said
      /\ \A j \in DOMAIN attempts :
           pc'[j] \in Executing \cup {"answered"} => attempts[j].state # "admitted"
  BY <1>1, <1>7 DEF Said, Executing
<1>9. /\ RowsOK' /\ EventsOK' /\ FinalsOK' /\ WrappingOK'
      /\ CapacityHeld' /\ AnswersDecide' /\ WrapUpIsPartial'
  BY <1>5, <1>6, <1>8, QuietKeeps
<1>10. LeasesOK' /\ CallsAreLive /\ StatesLast
  <2>1. \A j \in DOMAIN attempts : lease[Child(j)].token \in Nat /\ Child(j)' = Child(j)
    BY <1>1, RowIs DEF Leases, Child
  <2>2. LeasesOK'
    BY <1>1, <1>7, <2>1 DEF LeasesOK
  <2> QED
    BY <1>1, <1>7, <2>2 DEF CallsAreLive, StatesLast
<1>11. TypeOK'
  <2>1. "failed" \in Outcomes
    BY DEF Outcomes
  <2> QED
    BY <1>1, <1>4, <1>7, <2>1 DEF IInv, TypeOK
<1>12. ShapeOK'
  <2>1. "gone" \in Places
    BY DEF Places
  <2> QED
    BY <1>1, <1>4, <2>1 DEF IInv, ShapeOK
<1> QED
  BY <1>9, <1>10, <1>11, <1>12 DEF IInv, Kept

-----------------------------------------------------------------------------
(* What the child's turn writes.                                           *)

(* A write appends one event to its child's log.                           *)
LEMMA WriteAppends ==
  ASSUME IInv, NEW i \in DOMAIN attempts, NEW k \in {"message", "work", "final"}, Write(i, k)
  PROVE  LET c == Child(i) IN
         /\ log' \in [Ids -> Seq(Events)] /\ Len(log[c]) \in Nat /\ c \in Ids
         /\ \A d \in Ids : d # c => log'[d] = log[d]
         /\ Len(log'[c]) = Len(log[c]) + 1 /\ Len(log'[c]) <= MaxEvents
         /\ DOMAIN log[c] = 1 .. Len(log[c]) /\ DOMAIN log'[c] = 1 .. Len(log[c]) + 1
         /\ \A n \in DOMAIN log[c] : log'[c][n] = log[c][n]
         /\ log'[c][Len(log[c]) + 1] = [by |-> i, kind |-> k]
<1> DEFINE c == Child(i)  e == [by |-> i, kind |-> k]
<1>1. /\ log' = [log EXCEPT ![c] = Append(log[c], e)] /\ Len(log[c]) < MaxEvents
  BY DEF Write, Child
<1>2. log \in [Ids -> Seq(Events)] /\ c \in Ids /\ log[c] \in Seq(Events) /\ e \in Events
  BY RowIs DEF IInv, ShapeOK, Events
<1>3. log'[c] = Append(log[c], e) /\ log' \in [Ids -> Seq(Events)]
      /\ \A d \in Ids : d # c => log'[d] = log[d]
  <2> HIDE DEF c, e
  <2> QED
    BY <1>1, <1>2
<1>4. MaxEvents \in Nat
  BY SubagentsAssumption
<1> HIDE DEF c, e
<1>5. /\ Len(log'[c]) = Len(log[c]) + 1 /\ Len(log'[c]) <= MaxEvents /\ Len(log[c]) \in Nat
      /\ DOMAIN log[c] = 1 .. Len(log[c]) /\ DOMAIN log'[c] = 1 .. Len(log[c]) + 1
      /\ \A n \in DOMAIN log[c] : log'[c][n] = log[c][n]
      /\ log'[c][Len(log[c]) + 1] = e
  BY <1>1, <1>2, <1>3, <1>4
<1> QED
  BY <1>2, <1>3, <1>5 DEF c, e

(* A write for i, that goes to x: a final answer only from the running     *)
(* attempt itself.                                                         *)
LEMMA WriteKeeps ==
  ASSUME IInv, NEW i \in DOMAIN attempts, NEW k \in {"message", "work", "final"}, Write(i, k),
         NEW x \in Places, pc' = [pc EXCEPT ![i] = x],
         UNCHANGED <<turn, attempts, late, wrapping>>,
         pc[i] \in Executing, x \in Executing \cup {"answered"},
         k = "final" => pc[i] = "called" /\ x = "answered"
  PROVE  /\ RowsOK' /\ EventsOK' /\ FinalsOK' /\ WrappingOK'
         /\ CapacityHeld' /\ AnswersDecide' /\ WrapUpIsPartial'
         /\ pc' \in [Ids -> Places] /\ log' \in [Ids -> Seq(Events)]
         /\ \A c \in Ids : Len(log'[c]) <= MaxEvents
<1> DEFINE c == Child(i)
<1>1. /\ log' \in [Ids -> Seq(Events)] /\ Len(log[c]) \in Nat /\ c \in Ids
      /\ \A d \in Ids : d # c => log'[d] = log[d]
      /\ Len(log'[c]) = Len(log[c]) + 1 /\ Len(log'[c]) <= MaxEvents
      /\ DOMAIN log[c] = 1 .. Len(log[c]) /\ DOMAIN log'[c] = 1 .. Len(log[c]) + 1
      /\ \A n \in DOMAIN log[c] : log'[c][n] = log[c][n]
      /\ log'[c][Len(log[c]) + 1] = [by |-> i, kind |-> k]
  BY WriteAppends
<1>2. /\ pc \in [Ids -> Places] /\ i \in Ids /\ pc' \in [Ids -> Places]
      /\ pc'[i] = x /\ \A j \in Ids : j # i => pc'[j] = pc[j]
  BY RowIs DEF IInv, ShapeOK
<1>3. k = "final" => attempts[i].state = "running" /\ ~Spent(i)
  <2>1. MayWrite(i)
    BY DEF Write
  <2> QED
    BY <2>1, WritesForItself
<1>4. \A j \in DOMAIN attempts : /\ j \in Ids /\ Child(j) \in Ids /\ Child(j)' = Child(j)
                                 /\ attempts[j].after \in Nat
  BY RowIs DEF Child, Rows
<1>5. \A d \in Ids : \A n \in DOMAIN log'[d] :
        \/ n \in DOMAIN log[d] /\ log'[d][n] = log[d][n]
        \/ d = c /\ n = Len(log[c]) + 1 /\ log'[d][n] = [by |-> i, kind |-> k]
  BY <1>1
<1>6. \A d \in Ids : \A n \in DOMAIN log[d] : n \in DOMAIN log'[d] /\ log'[d][n] = log[d][n]
  <2>1. ASSUME NEW n \in DOMAIN log[c] PROVE n \in DOMAIN log'[c] /\ log'[c][n] = log[c][n]
    <3> HIDE DEF c
    <3>1. n \in 1 .. Len(log[c]) + 1
      BY <1>1
    <3> QED
      BY <1>1, <3>1
  <2> HIDE DEF c
  <2> QED
    BY <1>1, <2>1
<1>7. \A d \in Ids : Len(log'[d]) <= MaxEvents
  BY <1>1 DEF IInv, TypeOK
<1>8. RowsOK' /\ CapacityHeld' /\ WrapUpIsPartial'
  BY DEF IInv, RowsOK, CapacityHeld, Running, WrapUpIsPartial, Terminal, Child
<1>9. EventsOK'
  BY <1>4, <1>5 DEF IInv, EventsOK, c
<1>10. WrappingOK'
  <2>1. \A j \in DOMAIN attempts : Spent(j)' = Spent(j)
    BY DEF Spent, Terminal, ParentLive
  <2>2. attempts[i].state # "admitted"
    BY DEF IInv, WrappingOK
  <2> QED
    BY <1>2, <1>4, <2>1, <2>2 DEF IInv, WrappingOK
<1>11. FinalsOK'
  <2> SUFFICES ASSUME NEW j \in DOMAIN attempts
               PROVE  /\ attempts[j].after <= Len(log'[Child(j)])
                      /\ \A n \in DOMAIN log'[Child(j)] : log'[Child(j)][n].kind = "final" =>
                           /\ log'[Child(j)][n].by = j => AnswerOK(j, n)'
                           /\ ~Terminal(j) /\ n > attempts[j].after => log'[Child(j)][n].by = j
    BY <1>4 DEF FinalsOK, Final, Terminal
  <2>1. attempts[j].after <= Len(log[Child(j)]) /\ attempts[j].after <= Len(log'[Child(j)])
    <3>1. attempts[j].after <= Len(log[Child(j)])
      BY DEF IInv, FinalsOK
    <3>2. CASE Child(j) = c
      BY <1>1, <1>4, <3>1, <3>2
    <3>3. CASE Child(j) # c
      BY <1>1, <1>4, <3>1, <3>3
    <3> QED
      BY <3>1, <3>2, <3>3
  <2>2. ASSUME NEW n \in DOMAIN log'[Child(j)], log'[Child(j)][n].kind = "final"
        PROVE  /\ log'[Child(j)][n].by = j => AnswerOK(j, n)'
               /\ ~Terminal(j) /\ n > attempts[j].after => log'[Child(j)][n].by = j
    <3>1. CASE n \in DOMAIN log[Child(j)] /\ log'[Child(j)][n] = log[Child(j)][n]
      <4>1. /\ log[Child(j)][n].by = j => AnswerOK(j, n)
            /\ ~Terminal(j) /\ n > attempts[j].after => log[Child(j)][n].by = j
        BY <2>2, <3>1 DEF IInv, FinalsOK, Final
      <4>2. j = i => ~AnswerOK(j, n)
        BY DEF AnswerOK, Executing
      <4>3. j # i => pc'[j] = pc[j]
        BY <1>2, <1>4
      <4> QED
        BY <3>1, <4>1, <4>2, <4>3 DEF AnswerOK
    <3>2. CASE Child(j) = c /\ n = Len(log[c]) + 1 /\ log'[Child(j)][n] = [by |-> i, kind |-> k]
      <4>1. k = "final" /\ log'[Child(j)][n].by = i
        BY <2>2, <3>2
      <4>2. attempts[i].state = "running" /\ ~Spent(i)
        BY <1>3, <4>1
      <4>3. ~Terminal(j) => j = i
        <5>1. j \in Nat /\ i \in Nat /\ ~Terminal(i)
          BY <4>2, RowIs DEF Spent
        <5> QED
          BY <3>2, <5>1 DEF IInv, RowsOK, c
      <4>4. j = i => AnswerOK(j, n)'
        <5>1. pc'[i] = "answered"
          BY <1>2, <4>1
        <5>2. i \in wrapping => attempts[i].wrapUp
          BY <4>2 DEF IInv, WrappingOK
        <5>3. j = i => n > attempts[j].after
          BY <1>1, <1>4, <2>1, <3>2 DEF c
        <5> QED
          BY <5>1, <5>2, <5>3 DEF AnswerOK
      <4> QED
        BY <4>1, <4>3, <4>4
    <3> QED
      BY <1>4, <1>5, <3>1, <3>2
  <2> QED
    BY <2>1, <2>2
<1>12. AnswersDecide'
  <2> SUFFICES ASSUME NEW j \in DOMAIN attempts, Terminal(j)
               PROVE  attempts[j].state \in {"succeeded", "partial"} <=>
                      \E n \in DOMAIN log'[Child(j)] :
                        log'[Child(j)][n] = [by |-> j, kind |-> "final"]
    BY DEF AnswersDecide, Terminal, Child
  <2>1. attempts[j].state \in {"succeeded", "partial"} <=>
        \E n \in DOMAIN log[Child(j)] : log[Child(j)][n] = [by |-> j, kind |-> "final"]
    BY DEF IInv, AnswersDecide, Child
  <2>2. k = "final" => j # i
    BY <1>3 DEF Spent
  <2>3. [by |-> i, kind |-> k] = [by |-> j, kind |-> "final"] => i = j /\ k = "final"
    OBVIOUS
  <2>4. \A n \in DOMAIN log'[Child(j)] :
          log'[Child(j)][n] = [by |-> j, kind |-> "final"]
          => n \in DOMAIN log[Child(j)] /\ log'[Child(j)][n] = log[Child(j)][n]
    BY <1>4, <1>5, <2>2, <2>3
  <2> QED
    BY <1>4, <1>6, <2>1, <2>4
<1> QED
  BY <1>1, <1>2, <1>7, <1>8, <1>9, <1>10, <1>11, <1>12

LEMMA AskKeeps ==
  ASSUME IInv, NEW i \in DOMAIN attempts, Ask(i)
  PROVE  Kept
<1>1. PICK x, k : x = "asked" /\ k = "message"
  OBVIOUS
<1>2. /\ pc' = [pc EXCEPT ![i] = x] /\ x \in Places /\ pc[i] \in Executing
      /\ x \in Executing /\ x # "called" /\ k # "final" /\ Write(i, k)
      /\ k \in {"message", "work", "final"}
      /\ UNCHANGED <<turn, attempts, lease, late, token, wrapping, outcome, unsettled>>
  BY <1>1 DEF Ask, Places, Executing
<1>3. /\ RowsOK' /\ EventsOK' /\ FinalsOK' /\ WrappingOK'
      /\ CapacityHeld' /\ AnswersDecide' /\ WrapUpIsPartial'
      /\ pc' \in [Ids -> Places] /\ log' \in [Ids -> Seq(Events)]
      /\ \A c \in Ids : Len(log'[c]) <= MaxEvents
  BY <1>2, WriteKeeps
<1>4. /\ pc \in [Ids -> Places] /\ i \in Ids
      /\ pc'[i] = x /\ \A j \in Ids : j # i => pc'[j] = pc[j]
  BY <1>2, RowIs DEF IInv, ShapeOK
<1>5. LeasesOK' /\ CallsAreLive /\ StatesLast
  BY <1>2, <1>4, LeasesStay, Finite
<1>6. TypeOK'
  BY <1>2, <1>3, <1>4, Finite DEF IInv, TypeOK
<1>7. ShapeOK'
  BY <1>2, <1>3 DEF IInv, ShapeOK
<1> QED
  BY <1>3, <1>5, <1>6, <1>7 DEF IInv, Kept

LEMMA UseToolsKeeps ==
  ASSUME IInv, NEW i \in DOMAIN attempts, UseTools(i)
  PROVE  Kept
<1>1. PICK x, k : x = "asked" /\ k = "work"
  OBVIOUS
<1>2. /\ pc' = [pc EXCEPT ![i] = x] /\ x \in Places /\ pc[i] \in Executing
      /\ x \in Executing /\ x # "called" /\ k # "final" /\ Write(i, k)
      /\ k \in {"message", "work", "final"}
      /\ UNCHANGED <<turn, attempts, lease, late, token, wrapping, outcome, unsettled>>
  BY <1>1 DEF UseTools, Places, Executing
<1>3. /\ RowsOK' /\ EventsOK' /\ FinalsOK' /\ WrappingOK'
      /\ CapacityHeld' /\ AnswersDecide' /\ WrapUpIsPartial'
      /\ pc' \in [Ids -> Places] /\ log' \in [Ids -> Seq(Events)]
      /\ \A c \in Ids : Len(log'[c]) <= MaxEvents
  BY <1>2, WriteKeeps
<1>4. /\ pc \in [Ids -> Places] /\ i \in Ids
      /\ pc'[i] = x /\ \A j \in Ids : j # i => pc'[j] = pc[j]
  BY <1>2, RowIs DEF IInv, ShapeOK
<1>5. LeasesOK' /\ CallsAreLive /\ StatesLast
  BY <1>2, <1>4, LeasesStay, Finite
<1>6. TypeOK'
  BY <1>2, <1>3, <1>4, Finite DEF IInv, TypeOK
<1>7. ShapeOK'
  BY <1>2, <1>3 DEF IInv, ShapeOK
<1> QED
  BY <1>3, <1>5, <1>6, <1>7 DEF IInv, Kept

LEMMA AnswerKeeps ==
  ASSUME IInv, NEW i \in DOMAIN attempts, Answer(i)
  PROVE  Kept
<1>1. PICK x, k : x = "answered" /\ k = "final"
  OBVIOUS
<1>2. /\ pc' = [pc EXCEPT ![i] = x] /\ x \in Places /\ pc[i] \in Executing /\ pc[i] = "called"
      /\ x # "called" /\ Write(i, k) /\ k \in {"message", "work", "final"}
      /\ x \in Executing \cup {"answered"}
      /\ UNCHANGED <<turn, attempts, lease, late, token, wrapping, unsettled>>
  BY <1>1 DEF Answer, Places, Executing
<1>3. PICK o \in Outcomes : outcome' = [outcome EXCEPT ![i] = o]
  BY DEF Answer, Outcomes
<1>4. /\ RowsOK' /\ EventsOK' /\ FinalsOK' /\ WrappingOK'
      /\ CapacityHeld' /\ AnswersDecide' /\ WrapUpIsPartial'
      /\ pc' \in [Ids -> Places] /\ log' \in [Ids -> Seq(Events)]
      /\ \A c \in Ids : Len(log'[c]) <= MaxEvents
  BY <1>1, <1>2, WriteKeeps
<1>5. /\ pc \in [Ids -> Places] /\ i \in Ids
      /\ pc'[i] = x /\ \A j \in Ids : j # i => pc'[j] = pc[j]
  BY <1>2, RowIs DEF IInv, ShapeOK
<1>6. LeasesOK' /\ CallsAreLive /\ StatesLast
  BY <1>2, <1>5, LeasesStay, Finite
<1>7. TypeOK'
  BY <1>1, <1>2, <1>3, <1>4, <1>5, Finite DEF IInv, TypeOK
<1>8. ShapeOK'
  BY <1>2, <1>4 DEF IInv, ShapeOK
<1> QED
  BY <1>4, <1>6, <1>7, <1>8 DEF IInv, Kept

-----------------------------------------------------------------------------
(* Steps that change the row of one attempt.                               *)

(* An attempt keeps its child, its parent and its beginning.               *)
LEMMA RowChanges ==
  ASSUME IInv, NEW i \in DOMAIN attempts, NEW r \in Rows, attempts' = [attempts EXCEPT ![i] = r],
         r.child = Child(i), r.parent = attempts[i].parent, r.turn = attempts[i].turn,
         r.after = attempts[i].after, UNCHANGED <<turn, log>>,
         Terminal(i) => r.state = attempts[i].state
  PROVE  /\ attempts' \in Seq(Rows) /\ DOMAIN attempts' = DOMAIN attempts
         /\ Len(attempts') = Len(attempts) /\ attempts'[i] = r
         /\ \A j \in DOMAIN attempts : j # i => attempts'[j] = attempts[j]
         /\ \A j \in DOMAIN attempts :
              /\ Child(j)' = Child(j) /\ attempts'[j].after = attempts[j].after
              /\ ParentLive(j)' = ParentLive(j)
              /\ Terminal(j) => attempts'[j].state = attempts[j].state
         /\ RowsOK' /\ EventsOK' /\ StatesLast
<1>1. attempts \in Seq(Rows)
  BY DEF IInv, ShapeOK
<1>2. /\ attempts' \in Seq(Rows) /\ DOMAIN attempts' = DOMAIN attempts
      /\ Len(attempts') = Len(attempts) /\ attempts'[i] = r
      /\ \A j \in DOMAIN attempts : j # i => attempts'[j] = attempts[j]
  BY <1>1
<1>3. \A j \in DOMAIN attempts :
        /\ Child(j)' = Child(j) /\ attempts'[j].after = attempts[j].after
        /\ attempts'[j].parent = attempts[j].parent /\ attempts'[j].turn = attempts[j].turn
        /\ Terminal(j) => attempts'[j].state = attempts[j].state
  BY <1>2 DEF Child
<1>4. \A j \in DOMAIN attempts : ParentLive(j)' = ParentLive(j)
  BY <1>3 DEF ParentLive
<1>5. RowsOK'
  BY <1>2, <1>3 DEF IInv, RowsOK, Terminal
<1>6. EventsOK'
  BY <1>2, <1>3 DEF IInv, EventsOK
<1>7. StatesLast
  BY <1>3 DEF StatesLast
<1> QED
  BY <1>2, <1>3, <1>4, <1>5, <1>6, <1>7

(* The child's events hold a final answer of the attempt's own.            *)
Answered(i) == \E n \in DOMAIN log[Child(i)] : log[Child(i)][n] = [by |-> i, kind |-> "final"]

(* An attempt that is settled now is settled as its own answer made it.    *)
LEMMA AnswersStay ==
  ASSUME IInv, UNCHANGED log, DOMAIN attempts' = DOMAIN attempts,
         \A j \in DOMAIN attempts : Child(j)' = Child(j),
         \A j \in DOMAIN attempts : Terminal(j)' =>
           \/ Terminal(j) /\ attempts'[j].state = attempts[j].state
           \/ attempts'[j].state \in {"succeeded", "partial"} <=> Answered(j)
  PROVE  AnswersDecide'
<1>1. \A j \in DOMAIN attempts : Answered(j)' <=> Answered(j)
  BY DEF Answered
<1>2. \A j \in DOMAIN attempts : Terminal(j) =>
        (attempts[j].state \in {"succeeded", "partial"} <=> Answered(j))
  BY DEF IInv, AnswersDecide, Answered, Child
<1>3. \A j \in DOMAIN attempts : Terminal(j)' =>
        (attempts'[j].state \in {"succeeded", "partial"} <=> Answered(j)')
  BY <1>1, <1>2
<1> QED
  BY <1>3 DEF AnswersDecide, Answered, Child

(* The goroutine of an attempt that answered executes no more, and whoever *)
(* reported before it wraps up has answered.                               *)
LEMMA WrapUpKeeps ==
  ASSUME IInv, NEW i \in DOMAIN attempts, WrapUp(i)
  PROVE  Kept
<1>1. PICK w \in BOOLEAN :
        /\ attempts' = [attempts EXCEPT ![i] = [attempts[i] EXCEPT !.wrapUp = w]]
        /\ attempts[i].wrapUp => w
        /\ w \/ ~(attempts[i].state = "running" /\ ChildAuthorized(Child(i)))
  <2>1. attempts \in Seq(Rows) /\ attempts[i] \in Rows
    BY RowIs DEF IInv, ShapeOK
  <2>2. attempts' = attempts => attempts' = [attempts EXCEPT ![i] = [attempts[i] EXCEPT !.wrapUp = attempts[i].wrapUp]]
    <3>1. [attempts[i] EXCEPT !.wrapUp = attempts[i].wrapUp] = attempts[i]
      BY <2>1 DEF Rows
    <3>2. [attempts EXCEPT ![i] = attempts[i]] = attempts
      BY <2>1
    <3> QED
      BY <3>1, <3>2
  <2>3. attempts[i].wrapUp \in BOOLEAN
    BY <2>1 DEF Rows
  <2>4. CASE attempts[i].state = "running" /\ ChildAuthorized(Child(i))
    <3>1. attempts' = [attempts EXCEPT ![i] = [attempts[i] EXCEPT !.wrapUp = TRUE]]
      BY <2>4 DEF WrapUp, Child
    <3> QED
      BY <3>1
  <2>5. CASE ~(attempts[i].state = "running" /\ ChildAuthorized(Child(i)))
    <3>1. attempts' = attempts
      BY <2>5 DEF WrapUp, Child
    <3> QED
      BY <2>2, <2>3, <2>5, <3>1
  <2> QED
    BY <2>4, <2>5
<1>2. PICK r : r = [attempts[i] EXCEPT !.wrapUp = w]
  OBVIOUS
<1>3. /\ r \in Rows /\ r.child = Child(i) /\ r.parent = attempts[i].parent
      /\ r.turn = attempts[i].turn /\ r.after = attempts[i].after /\ r.state = attempts[i].state
      /\ r.wrapUp = w
  <2>1. attempts[i] \in Rows
    BY RowIs
  <2>2. r \in Rows
    BY <1>2, <2>1, Zenon DEF Rows
  <2> QED
    BY <1>2, <2>1, <2>2 DEF Rows, Child
<1>4. /\ wrapping' = wrapping \cup {i} /\ pc[i] = "asked" /\ attempts' = [attempts EXCEPT ![i] = r]
      /\ UNCHANGED <<turn, log, lease, late, pc, token, outcome, unsettled>>
  BY <1>1, <1>2 DEF WrapUp
<1>5. /\ attempts' \in Seq(Rows) /\ DOMAIN attempts' = DOMAIN attempts
      /\ Len(attempts') = Len(attempts) /\ attempts'[i] = r
      /\ \A j \in DOMAIN attempts : j # i => attempts'[j] = attempts[j]
      /\ \A j \in DOMAIN attempts :
           /\ Child(j)' = Child(j) /\ attempts'[j].after = attempts[j].after
           /\ ParentLive(j)' = ParentLive(j)
           /\ Terminal(j) => attempts'[j].state = attempts[j].state
      /\ RowsOK' /\ EventsOK' /\ StatesLast
  BY <1>3, <1>4, RowChanges
<1>6. \A j \in DOMAIN attempts : attempts'[j].state = attempts[j].state /\ Terminal(j)' = Terminal(j)
  BY <1>3, <1>5 DEF Terminal
<1>7. \A n \in DOMAIN log[Child(i)] : Final(Child(i), n) => log[Child(i)][n].by # i
  BY <1>4 DEF IInv, FinalsOK, AnswerOK
<1>8. FinalsOK'
  <2> SUFFICES ASSUME NEW j \in DOMAIN attempts
               PROVE  /\ attempts[j].after <= Len(log[Child(j)])
                      /\ \A n \in DOMAIN log[Child(j)] : Final(Child(j), n) =>
                           /\ log[Child(j)][n].by = j => AnswerOK(j, n)'
                           /\ ~Terminal(j) /\ n > attempts[j].after => log[Child(j)][n].by = j
    BY <1>4, <1>5, <1>6 DEF FinalsOK, Final
  <2>1. j # i => \A n : AnswerOK(j, n) => AnswerOK(j, n)'
    BY <1>4, <1>5 DEF AnswerOK
  <2> QED
    BY <1>7, <2>1 DEF IInv, FinalsOK
<1>9. attempts[i].state # "admitted"
  BY <1>4 DEF IInv, WrappingOK, Executing
<1>10. w \/ Spent(i)
  <2>1. CASE attempts[i].state = "running" /\ ~ChildAuthorized(Child(i))
    <3>1. Latest(Child(i)) = i
      BY <2>1, UnfinishedIsLatest DEF Terminal, Unfinished
    <3> QED
      BY <2>1, <3>1 DEF ChildAuthorized, Spent
  <2>2. CASE attempts[i].state # "running"
    BY <1>9, <2>2 DEF Spent, Terminal, Unfinished
  <2> QED
    BY <1>1, <2>1, <2>2
<1>11. WrappingOK'
  <2>1. \A j \in DOMAIN attempts : Spent(j)' = Spent(j)
    BY <1>4, <1>5, <1>6 DEF Spent
  <2> QED
    BY <1>3, <1>4, <1>5, <1>6, <1>9, <1>10, <2>1 DEF IInv, WrappingOK
<1>12. CapacityHeld'
  <2>1. Running' = Running
    BY <1>5, <1>6 DEF Running
  <2>2. \A q \in Parents : {j \in Running' : attempts'[j].parent = q}
                           = {j \in Running : attempts[j].parent = q}
    BY <1>3, <1>5, <2>1 DEF Running
  <2> QED
    BY <2>1, <2>2 DEF IInv, CapacityHeld
<1>13. AnswersDecide'
  BY <1>4, <1>5, <1>6, AnswersStay
<1>14. attempts[i].state # "succeeded"
  <2>1. SUFFICES ASSUME attempts[i].state = "succeeded" PROVE FALSE
    OBVIOUS
  <2>2. PICK n \in DOMAIN log[Child(i)] : log[Child(i)][n] = [by |-> i, kind |-> "final"]
    BY <2>1 DEF IInv, AnswersDecide, Terminal, Unfinished, Child
  <2> QED
    BY <1>7, <2>2 DEF Final
<1>15. WrapUpIsPartial'
  BY <1>4, <1>5, <1>6, <1>14 DEF IInv, WrapUpIsPartial
<1>16. LeasesOK' /\ CallsAreLive
  BY <1>4, <1>5, <1>6 DEF IInv, LeasesOK, HoldsLease, CallsAreLive
<1>17. TypeOK'
  BY <1>4, <1>5, <1>6 DEF IInv, TypeOK, Child
<1>18. ShapeOK'
  BY <1>4, <1>5 DEF IInv, ShapeOK
<1> QED
  BY <1>5, <1>8, <1>11, <1>12, <1>13, <1>15, <1>16, <1>17, <1>18 DEF IInv, Kept

(* There was room, and reopening the child takes its lease away.           *)
LEMMA StartKeeps ==
  ASSUME IInv, NEW i \in DOMAIN attempts, Start(i)
  PROVE  Kept
<1> DEFINE c == Child(i)
<1>1. PICK r, x : r = [attempts[i] EXCEPT !.state = "running"] /\ x = "started"
  OBVIOUS
<1>2. /\ r \in Rows /\ r.child = Child(i) /\ r.parent = attempts[i].parent
      /\ r.turn = attempts[i].turn /\ r.after = attempts[i].after /\ r.state = "running"
  <2>1. attempts[i] \in Rows /\ "running" \in Unfinished \cup Outcomes
    BY RowIs DEF Unfinished
  <2>2. r \in Rows
    BY <1>1, <2>1, Zenon DEF Rows
  <2> QED
    BY <1>1, <2>1, <2>2 DEF Rows, Child
<1>3. /\ pc[i] = "queued" /\ attempts[i].state = "admitted" /\ Capacity(i)
      /\ attempts' = [attempts EXCEPT ![i] = r] /\ pc' = [pc EXCEPT ![i] = x]
      /\ lease' = lease \/ lease' = [lease EXCEPT ![c] = Reopened(c)]
      /\ UNCHANGED <<turn, log, late, token, wrapping, outcome, unsettled>>
  BY <1>1 DEF Start, Child
<1>4. ~Terminal(i)
  BY <1>3 DEF Terminal, Unfinished
<1>5. /\ attempts' \in Seq(Rows) /\ DOMAIN attempts' = DOMAIN attempts
      /\ Len(attempts') = Len(attempts) /\ attempts'[i] = r
      /\ \A j \in DOMAIN attempts : j # i => attempts'[j] = attempts[j]
      /\ \A j \in DOMAIN attempts :
           /\ Child(j)' = Child(j) /\ attempts'[j].after = attempts[j].after
           /\ ParentLive(j)' = ParentLive(j)
           /\ Terminal(j) => attempts'[j].state = attempts[j].state
      /\ RowsOK' /\ EventsOK' /\ StatesLast
  BY <1>2, <1>3, <1>4, RowChanges
<1>6. /\ pc \in [Ids -> Places] /\ i \in Ids /\ c \in Ids /\ pc' \in [Ids -> Places]
      /\ pc'[i] = x /\ \A j \in Ids : j # i => pc'[j] = pc[j]
      /\ lease \in [Ids -> Leases] /\ token \in [Ids -> Nat]
  <2>1. x \in Places
    BY <1>1 DEF Places, Executing
  <2> QED
    BY <1>3, <2>1, RowIs DEF IInv, ShapeOK
<1>7. \A j \in DOMAIN attempts : Terminal(j)' = Terminal(j)
  BY <1>2, <1>4, <1>5 DEF Terminal, Unfinished
<1>8. i \notin wrapping
  BY <1>3 DEF IInv, WrappingOK
<1>9. \A n : AnswerOK(i, n) = FALSE
  BY <1>3 DEF AnswerOK
<1>10. FinalsOK'
  <2>1. \A j \in DOMAIN attempts : j # i => \A n : AnswerOK(j, n) => AnswerOK(j, n)'
    BY <1>3, <1>5, <1>6, Finite DEF AnswerOK
  <2> QED
    BY <1>3, <1>5, <1>7, <1>9, <2>1 DEF IInv, FinalsOK, Final
<1>11. WrappingOK'
  <2>1. \A j \in DOMAIN attempts : Spent(j)' = Spent(j)
    BY <1>3, <1>5, <1>7 DEF Spent
  <2> QED
    BY <1>2, <1>3, <1>5, <1>6, <1>8, <2>1, Finite DEF IInv, WrappingOK
<1>12. CapacityHeld'
  <2>1. Running' = Running \cup {i} /\ i \notin Running
    BY <1>2, <1>3, <1>5 DEF Running
  <2>2. \A q \in Parents : {j \in Running' : attempts'[j].parent = q}
                           = IF q = attempts[i].parent
                             THEN {j \in Running : attempts[j].parent = q} \cup {i}
                             ELSE {j \in Running : attempts[j].parent = q}
    BY <1>2, <1>3, <1>5, <2>1 DEF Running
  <2>3. IsFiniteSet(Running)
    BY Finite, FS_Subset DEF Running
  <2>4. /\ Cardinality(Running) \in Nat
        /\ Cardinality(Running \cup {i})
           = IF i \in Running THEN Cardinality(Running) ELSE Cardinality(Running) + 1
    BY <2>3, FS_AddElement, FS_CardinalityType
  <2>5. ASSUME NEW q \in Parents
        PROVE  Cardinality({j \in Running' : attempts'[j].parent = q}) <= PerParent
    <3> DEFINE S == {j \in Running : attempts[j].parent = q}
    <3>1. IsFiniteSet(S)
      BY <2>3, FS_Subset
    <3>2. Cardinality(S) \in Nat
          /\ Cardinality(S \cup {i}) = IF i \in S THEN Cardinality(S) ELSE Cardinality(S) + 1
      BY <3>1, FS_AddElement, FS_CardinalityType
    <3>3. i \notin S /\ Cardinality(S) <= PerParent
      BY <2>1 DEF IInv, CapacityHeld
    <3>4. q = attempts[i].parent => Cardinality(S) < PerParent
      BY <1>3 DEF Capacity
    <3>5. {j \in Running' : attempts'[j].parent = q} = IF q = attempts[i].parent THEN S \cup {i} ELSE S
      BY <2>2
    <3>6. PerParent \in Nat
      BY SubagentsAssumption
    <3> HIDE DEF S
    <3>7. CASE q = attempts[i].parent
      <4>1. Cardinality({j \in Running' : attempts'[j].parent = q}) = Cardinality(S) + 1
        BY <3>2, <3>3, <3>5, <3>7
      <4> QED
        BY <3>2, <3>4, <3>6, <3>7, <4>1
    <3>8. CASE q # attempts[i].parent
      BY <3>3, <3>5, <3>8
    <3> QED
      BY <3>7, <3>8
  <2>6. Cardinality(Running') <= Runtime
    BY <1>3, <2>1, <2>4, SubagentsAssumption DEF Capacity
  <2> QED
    BY <2>5, <2>6 DEF CapacityHeld
<1>13. AnswersDecide'
  BY <1>3, <1>5, <1>7, AnswersStay
<1>14. WrapUpIsPartial'
  BY <1>3, <1>5, <1>8 DEF IInv, WrapUpIsPartial
<1>15. /\ lease' \in [Ids -> Leases]
       /\ \A d \in Ids : /\ lease'[d].token = lease[d].token
                         /\ lease'[d] = lease[d] \/ ~lease'[d].held
  <2>1. lease[c] \in Leases /\ TRUE \in BOOLEAN /\ FALSE \in BOOLEAN
    BY <1>6
  <2>2. Reopened(c) = [lease[c] EXCEPT !.open = TRUE, !.held = FALSE]
    BY DEF Reopened
  <2>3. Reopened(c) \in Leases
    BY <2>1, <2>2, Zenon DEF Leases
  <2>4. Reopened(c).token = lease[c].token /\ ~Reopened(c).held
    BY <2>1, <2>2 DEF Leases
  <2> HIDE DEF c
  <2> QED
    BY <1>3, <1>6, <2>3, <2>4
<1>16. LeasesOK'
  <2> SUFFICES ASSUME NEW j \in DOMAIN attempts
               PROVE  /\ token[j] <= lease'[Child(j)].token
                      /\ pc'[j] = "called" /\ HoldsLease(j)' => attempts'[j].state = "running"
    BY <1>3, <1>5 DEF LeasesOK
  <2>1. Child(j) \in Ids /\ j \in Ids /\ Child(j)' = Child(j)
    BY <1>5, RowIs
  <2>2. HoldsLease(j)' => HoldsLease(j)
    BY <1>3, <1>15, <2>1 DEF HoldsLease
  <2>3. pc'[i] # "called"
    BY <1>1, <1>6
  <2> QED
    BY <1>5, <1>6, <1>15, <2>1, <2>2, <2>3 DEF IInv, LeasesOK
<1>17. CallsAreLive
  <2>1. pc'[i] # "called"
    BY <1>1, <1>6
  <2> QED
    BY <1>6, <2>1, Finite DEF CallsAreLive
<1>18. TypeOK'
  <2>1. \A j \in DOMAIN attempts : attempts'[j].state \in Unfinished \cup Outcomes
    <3>1. \A j \in DOMAIN attempts : attempts'[j] \in Rows
      BY <1>5
    <3> QED
      BY <3>1 DEF Rows
  <2>2. \A j \in DOMAIN attempts :
          attempts'[j].child \in 1 .. j /\ attempts'[j].after \in 0 .. MaxEvents
    BY <1>5 DEF IInv, TypeOK, Child
  <2>3. \A j \in Ids : /\ pc'[j] # "gone" => j \in DOMAIN attempts
                       /\ token[j] # 0 => pc'[j] \in Executing \cup {"answered"}
    BY <1>1, <1>3, <1>6 DEF IInv, TypeOK, Executing
  <2> QED
    BY <1>3, <1>5, <2>1, <2>2, <2>3 DEF IInv, TypeOK
<1>19. ShapeOK'
  BY <1>3, <1>5, <1>6, <1>15 DEF IInv, ShapeOK
<1> QED
  BY <1>5, <1>10, <1>11, <1>12, <1>13, <1>14, <1>16, <1>17, <1>18, <1>19 DEF IInv, Kept

-----------------------------------------------------------------------------
(* Settlement.                                                             *)

(* The report of an unfinished attempt is its own answer.                  *)
LEMMA ReportIsOwn ==
  ASSUME IInv, NEW i \in DOMAIN attempts, ~Terminal(i)
  PROVE  /\ HasReport(i) <=> Answered(i)
         /\ HasReport(i) /\ i \in wrapping => attempts[i].wrapUp
<1> DEFINE c == Child(i)
<1>1. /\ log[c] \in Seq(Events) /\ attempts[i].after \in Nat
      /\ DOMAIN log[c] = 1 .. Len(log[c]) /\ Len(log[c]) \in Nat
  BY RowIs DEF Rows
<1>2. \A n \in DOMAIN log[c] : Final(c, n) =>
        /\ log[c][n].by = i => n > attempts[i].after /\ (i \in wrapping => attempts[i].wrapUp)
        /\ n > attempts[i].after => log[c][n].by = i
  BY DEF IInv, FinalsOK, AnswerOK
<1>3. HasReport(i) <=> \E n \in DOMAIN log[c] : n > attempts[i].after /\ Final(c, n)
  <2>1. HasReport(i) <=> \E n \in (attempts[i].after + 1) .. Len(log[c]) : Final(c, n)
    BY DEF HasReport, Final, Child
  <2>2. \A n : n \in (attempts[i].after + 1) .. Len(log[c])
               <=> n \in DOMAIN log[c] /\ n > attempts[i].after
    <3> HIDE DEF c
    <3> QED
      BY <1>1
  <2> QED
    BY <2>1, <2>2
<1>4. ASSUME NEW n \in DOMAIN log[c]
      PROVE  Final(c, n) /\ log[c][n].by = i <=> log[c][n] = [by |-> i, kind |-> "final"]
  <2>1. log[c][n] \in Events
    BY <1>1
  <2> QED
    BY <2>1 DEF Final, Events
<1>5. Answered(i) <=> \E n \in DOMAIN log[c] : Final(c, n) /\ log[c][n].by = i
  BY <1>4 DEF Answered
<1> HIDE DEF c
<1> QED
  BY <1>2, <1>3, <1>5

(* The state that settlement records agrees with the answer.               *)
LEMMA SettledIs ==
  ASSUME IInv, NEW i \in DOMAIN attempts, NEW o \in Outcomes, ~Terminal(i)
  PROVE  /\ Settled(i, o) \in Outcomes
         /\ Settled(i, o) \in {"succeeded", "partial"} <=> Answered(i)
         /\ i \in wrapping => Settled(i, o) # "succeeded"
<1>1. /\ HasReport(i) <=> Answered(i)
      /\ HasReport(i) /\ i \in wrapping => attempts[i].wrapUp
  BY ReportIsOwn
<1>2. CASE HasReport(i)
  <2>1. Settled(i, o) = IF attempts[i].wrapUp \/ o = "partial" THEN "partial" ELSE "succeeded"
    BY <1>2 DEF Settled
  <2> QED
    BY <1>1, <1>2, <2>1 DEF Outcomes
<1>3. CASE ~HasReport(i)
  <2>1. Settled(i, o) = IF o \in {"succeeded", "partial"} THEN "interrupted" ELSE o
    BY <1>3 DEF Settled
  <2> QED
    BY <1>1, <1>3, <2>1 DEF Outcomes
<1> QED
  BY <1>2, <1>3

(* Fewer attempts run.                                                     *)
LEMMA FewerRun ==
  ASSUME IInv, DOMAIN attempts' = DOMAIN attempts,
         \A j \in DOMAIN attempts : attempts'[j].parent = attempts[j].parent,
         \A j \in DOMAIN attempts : attempts'[j].state = "running" => attempts[j].state = "running"
  PROVE  CapacityHeld'
<1>1. Running' \in SUBSET Running /\ Running \in SUBSET DOMAIN attempts
  BY DEF Running
<1>2. IsFiniteSet(Running)
  BY <1>1, Finite, FS_Subset
<1>3. Runtime \in Nat /\ PerParent \in Nat
  BY SubagentsAssumption
<1>4. Cardinality(Running') <= Runtime
  <2>1. /\ Cardinality(Running') <= Cardinality(Running)
        /\ Cardinality(Running') \in Nat /\ Cardinality(Running) \in Nat
    BY <1>1, <1>2, FS_Subset, FS_CardinalityType
  <2>2. Cardinality(Running) <= Runtime
    BY DEF IInv, CapacityHeld
  <2> QED
    BY <1>3, <2>1, <2>2
<1>5. ASSUME NEW q \in Parents
      PROVE  Cardinality({j \in Running' : attempts'[j].parent = q}) <= PerParent
  <2> DEFINE S == {j \in Running : attempts[j].parent = q}
             T == {j \in Running' : attempts'[j].parent = q}
  <2>1. T \in SUBSET S /\ S \in SUBSET Running
    BY <1>1
  <2>2. Cardinality(S) <= PerParent
    BY DEF IInv, CapacityHeld
  <2> HIDE DEF S, T
  <2>3. IsFiniteSet(S)
    BY <1>2, <2>1, FS_Subset
  <2>4. /\ Cardinality(T) <= Cardinality(S)
        /\ Cardinality(T) \in Nat /\ Cardinality(S) \in Nat
    BY <2>1, <2>3, FS_Subset, FS_CardinalityType
  <2>5. Cardinality(T) <= PerParent
    BY <1>3, <2>2, <2>4
  <2> QED
    BY <2>5 DEF T
<1> QED
  BY <1>4, <1>5 DEF CapacityHeld

(* Whoever settles an attempt records what its own answer made it, and     *)
(* closes its child's session.                                             *)
LEMMA SettleKeeps ==
  ASSUME IInv, NEW i \in DOMAIN attempts, NEW o \in Outcomes, ~Terminal(i), Recorded(i, o),
         UNCHANGED <<turn, log, late, wrapping, token>>, pc' \in [Ids -> Places],
         \A j \in Ids : pc'[j] = pc[j] \/ (pc[j] = "finishing" /\ pc'[j] = "gone"),
         unsettled' \subseteq unsettled, outcome' \in [Ids -> Outcomes]
  PROVE  Kept
<1> DEFINE c == Child(i)
<1>1. PICK s : s = Settled(i, o)
  OBVIOUS
<1>2. /\ s \in Outcomes
      /\ s \in {"succeeded", "partial"} <=> Answered(i)
      /\ i \in wrapping => s # "succeeded"
  BY <1>1, SettledIs
<1>3. PICK r : r = [attempts[i] EXCEPT !.state = s]
  OBVIOUS
<1>4. /\ r \in Rows /\ r.child = Child(i) /\ r.parent = attempts[i].parent
      /\ r.turn = attempts[i].turn /\ r.after = attempts[i].after /\ r.state = s
      /\ r.wrapUp = attempts[i].wrapUp
  <2>1. attempts[i] \in Rows /\ s \in Unfinished \cup Outcomes
    BY <1>2, RowIs
  <2>2. r \in Rows
    BY <1>3, <2>1, Zenon DEF Rows
  <2> QED
    BY <1>3, <2>1, <2>2 DEF Rows, Child
<1>5. attempts' = [attempts EXCEPT ![i] = r]
  <2>1. attempts' = [attempts EXCEPT ![i].state = Settled(i, o)]
    BY DEF Recorded
  <2> QED
    BY <1>1, <1>3, <2>1
<1>6. lease' = [lease EXCEPT ![c] = [lease[c] EXCEPT !.open = FALSE]]
  BY DEF Recorded, Child
<1>7. /\ attempts' \in Seq(Rows) /\ DOMAIN attempts' = DOMAIN attempts
      /\ Len(attempts') = Len(attempts) /\ attempts'[i] = r
      /\ \A j \in DOMAIN attempts : j # i => attempts'[j] = attempts[j]
      /\ \A j \in DOMAIN attempts :
           /\ Child(j)' = Child(j) /\ attempts'[j].after = attempts[j].after
           /\ ParentLive(j)' = ParentLive(j)
           /\ Terminal(j) => attempts'[j].state = attempts[j].state
      /\ RowsOK' /\ EventsOK' /\ StatesLast
  BY <1>4, <1>5, RowChanges
<1>8. /\ s # "running" /\ s # "admitted" /\ Terminal(i)'
      /\ \A j \in DOMAIN attempts : /\ Terminal(j) => Terminal(j)'
                                    /\ attempts'[j].wrapUp = attempts[j].wrapUp
                                    /\ attempts'[j].parent = attempts[j].parent
  BY <1>2, <1>4, <1>7 DEF Terminal, Outcomes, Unfinished
<1>9. \A j \in DOMAIN attempts : j \in Ids /\ Child(j) \in Ids
  BY RowIs
<1>10. CapacityHeld'
  <2>1. \A j \in DOMAIN attempts : attempts'[j].state = "running" => attempts[j].state = "running"
    BY <1>4, <1>7, <1>8
  <2> QED
    BY <1>7, <1>8, <2>1, FewerRun
<1>11. AnswersDecide'
  <2>1. \A j \in DOMAIN attempts : Terminal(j)' =>
          \/ Terminal(j) /\ attempts'[j].state = attempts[j].state
          \/ attempts'[j].state \in {"succeeded", "partial"} <=> Answered(j)
    BY <1>2, <1>4, <1>7 DEF Terminal
  <2> QED
    BY <1>7, <2>1, AnswersStay
<1>12. WrapUpIsPartial'
  BY <1>2, <1>4, <1>7 DEF IInv, WrapUpIsPartial
<1>13. FinalsOK'
  <2>1. \A j \in DOMAIN attempts : \A n : AnswerOK(j, n) => AnswerOK(j, n)'
    BY <1>7, <1>8, <1>9 DEF AnswerOK
  <2> QED
    BY <1>7, <1>8, <2>1 DEF IInv, FinalsOK, Final
<1>14. WrappingOK'
  <2>1. \A j \in DOMAIN attempts : Spent(j) => Spent(j)'
    BY <1>7, <1>8 DEF Spent
  <2>2. \A j \in DOMAIN attempts : pc'[j] \in Executing \cup {"answered"}
                                   => pc[j] \in Executing \cup {"answered"}
    BY <1>9 DEF Executing
  <2> QED
    BY <1>4, <1>7, <1>8, <2>1, <2>2 DEF IInv, WrappingOK
<1>15. /\ lease' \in [Ids -> Leases] /\ ~lease'[c].open
       /\ \A d \in Ids : lease'[d].token = lease[d].token /\ (d # c => lease'[d] = lease[d])
  <2>1. lease \in [Ids -> Leases] /\ c \in Ids /\ lease[c] \in Leases /\ FALSE \in BOOLEAN
    BY RowIs DEF IInv, ShapeOK
  <2>2. [lease[c] EXCEPT !.open = FALSE] \in Leases
    BY <2>1, Zenon DEF Leases
  <2>3. /\ ~[lease[c] EXCEPT !.open = FALSE].open
        /\ [lease[c] EXCEPT !.open = FALSE].token = lease[c].token
    BY <2>1 DEF Leases
  <2> HIDE DEF c
  <2> QED
    BY <1>6, <2>1, <2>2, <2>3
<1>16. LeasesOK'
  <2> SUFFICES ASSUME NEW j \in DOMAIN attempts
               PROVE  /\ token[j] <= lease'[Child(j)].token
                      /\ pc'[j] = "called" /\ HoldsLease(j)' => attempts'[j].state = "running"
    BY <1>7 DEF LeasesOK
  <2>1. HoldsLease(j)' => HoldsLease(j) /\ Child(j) # c
    BY <1>7, <1>9, <1>15 DEF HoldsLease
  <2>2. Child(j) # c => attempts'[j] = attempts[j]
    BY <1>7
  <2>3. pc'[j] = "called" => pc[j] = "called"
    BY <1>9
  <2> QED
    BY <1>9, <1>15, <2>1, <2>2, <2>3 DEF IInv, LeasesOK
<1>17. CallsAreLive
  BY <1>9 DEF CallsAreLive
<1>18. TypeOK'
  <2>1. \A j \in DOMAIN attempts : attempts'[j].state \in Unfinished \cup Outcomes
    <3>1. \A j \in DOMAIN attempts : attempts'[j] \in Rows
      BY <1>7
    <3> QED
      BY <3>1 DEF Rows
  <2>2. \A j \in DOMAIN attempts :
          attempts'[j].child \in 1 .. j /\ attempts'[j].after \in 0 .. MaxEvents
    BY <1>7 DEF IInv, TypeOK, Child
  <2>3. \A j \in Ids : /\ pc'[j] # "gone" => j \in DOMAIN attempts
                       /\ token[j] # 0 => pc'[j] \in Executing \cup {"answered"}
    BY DEF IInv, TypeOK, Executing
  <2> QED
    BY <1>7, <2>1, <2>2, <2>3 DEF IInv, TypeOK
<1>19. ShapeOK'
  BY <1>7, <1>15 DEF IInv, ShapeOK
<1> QED
  BY <1>7, <1>10, <1>11, <1>12, <1>13, <1>14, <1>16, <1>17, <1>18, <1>19 DEF IInv, Kept

(* An attempt that was settled before stays as it is.                      *)
LEMMA RecordKeeps ==
  ASSUME IInv, NEW i \in DOMAIN attempts, NEW o \in Outcomes, Recorded(i, o),
         UNCHANGED <<turn, log, late, wrapping, token>>, pc' \in [Ids -> Places],
         \A j \in Ids : pc'[j] = pc[j] \/ (pc[j] = "finishing" /\ pc'[j] = "gone"),
         unsettled' \subseteq unsettled, outcome' \in [Ids -> Outcomes]
  PROVE  Kept
<1>1. CASE ~Terminal(i)
  BY <1>1, SettleKeeps
<1>2. CASE Terminal(i)
  <2>1. UNCHANGED <<attempts, lease>>
    BY <1>2 DEF Recorded
  <2>2. \A j \in DOMAIN attempts : j \in Ids
    BY Finite
  <2>3. /\ \A r \in Parents : turn'[r].no \in Nat /\ turn[r].no <= turn'[r].no
        /\ UNCHANGED <<attempts, log, wrapping>> /\ late \subseteq late'
        /\ \A j \in DOMAIN attempts : pc[j] \in Said => pc'[j] \in Said
    BY <2>1, <2>2 DEF IInv, ShapeOK, Turns, Said
  <2>4. \A j \in DOMAIN attempts :
          pc'[j] \in Executing \cup {"answered"} => attempts[j].state # "admitted"
    BY <2>2 DEF IInv, WrappingOK, Executing
  <2>5. \A j \in DOMAIN attempts : ParentLive(j)' => ParentLive(j)
    BY <2>1 DEF ParentLive
  <2>6. /\ RowsOK' /\ EventsOK' /\ FinalsOK' /\ WrappingOK'
        /\ CapacityHeld' /\ AnswersDecide' /\ WrapUpIsPartial'
    BY <2>3, <2>4, <2>5, QuietKeeps
  <2>7. LeasesOK' /\ CallsAreLive /\ StatesLast
    BY <2>1, <2>2, LeasesStay
  <2>8. TypeOK'
    <3>1. \A j \in Ids : /\ pc'[j] # "gone" => j \in DOMAIN attempts
                         /\ token[j] # 0 => pc'[j] \in Executing \cup {"answered"}
      BY DEF IInv, TypeOK, Executing
    <3> QED
      BY <2>1, <3>1 DEF IInv, TypeOK
  <2>9. ShapeOK'
    BY <2>1 DEF IInv, ShapeOK
  <2> QED
    BY <2>6, <2>7, <2>8, <2>9 DEF IInv, Kept
<1> QED
  BY <1>1, <1>2

LEMMA FinishKeeps ==
  ASSUME IInv, NEW i \in DOMAIN attempts, Finish(i)
  PROVE  Kept
<1>1. /\ i \in Ids /\ outcome \in [Ids -> Outcomes] /\ outcome[i] \in Outcomes
      /\ pc \in [Ids -> Places]
  BY RowIs DEF IInv, TypeOK, ShapeOK
<1>2. /\ Recorded(i, outcome[i]) /\ pc[i] = "finishing" /\ pc' = [pc EXCEPT ![i] = "gone"]
      /\ outcome' = [outcome EXCEPT ![i] = "failed"]
      /\ UNCHANGED <<turn, log, late, wrapping, token>> /\ unsettled' = unsettled
  BY DEF Finish, Forgotten
<1>3. "gone" \in Places /\ "failed" \in Outcomes
  BY DEF Places, Outcomes
<1>4. /\ pc' \in [Ids -> Places] /\ outcome' \in [Ids -> Outcomes]
      /\ \A j \in Ids : pc'[j] = pc[j] \/ (pc[j] = "finishing" /\ pc'[j] = "gone")
  BY <1>1, <1>2, <1>3
<1> QED
  BY <1>1, <1>2, <1>4, RecordKeeps

LEMMA SettlePendingKeeps ==
  ASSUME IInv, NEW i \in DOMAIN attempts, SettlePending(i)
  PROVE  Kept
<1>1. /\ i \in Ids /\ outcome \in [Ids -> Outcomes] /\ outcome[i] \in Outcomes
      /\ pc \in [Ids -> Places]
  BY RowIs DEF IInv, TypeOK, ShapeOK
<1>2. /\ Recorded(i, outcome[i]) /\ pc' = pc
      /\ outcome' = [outcome EXCEPT ![i] = "failed"]
      /\ UNCHANGED <<turn, log, late, wrapping, token>> /\ unsettled' \subseteq unsettled
  BY DEF SettlePending, Forgotten
<1>3. "failed" \in Outcomes
  BY DEF Outcomes
<1>4. outcome' \in [Ids -> Outcomes]
  BY <1>1, <1>2, <1>3
<1> QED
  BY <1>1, <1>2, <1>4, RecordKeeps

LEMMA RecoverKeeps ==
  ASSUME IInv, NEW i \in DOMAIN attempts, Recover(i)
  PROVE  Kept
<1>1. PICK o \in Outcomes : Recorded(i, o)
  BY DEF Recover, Outcomes
<1>2. /\ UNCHANGED <<turn, log, late, wrapping, token>> /\ unsettled' \subseteq unsettled
      /\ pc' = pc /\ outcome' = outcome
  BY DEF Recover
<1>3. pc \in [Ids -> Places] /\ outcome \in [Ids -> Outcomes]
  BY DEF IInv, TypeOK, ShapeOK
<1> QED
  BY <1>1, <1>2, <1>3, RecordKeeps
-----------------------------------------------------------------------------
(* Admission.                                                              *)

(* A child that has no attempt has no event.                               *)
LEMMA NoEvents ==
  ASSUME IInv, NEW c \in Ids, c \notin DOMAIN attempts
  PROVE  Len(log[c]) = 0
<1>1. log[c] \in Seq(Events)
  BY DEF IInv, ShapeOK
<1>2. Len(log[c]) \in Nat /\ DOMAIN log[c] = 1 .. Len(log[c])
  BY <1>1
<1>3. \A n \in DOMAIN log[c] : log[c][n].by \in DOMAIN attempts /\ Child(log[c][n].by) = c
  BY DEF IInv, EventsOK
<1>4. \A n \in DOMAIN log[c] : c \in DOMAIN attempts
  BY <1>3, RowIs
<1>5. 1 \notin DOMAIN log[c]
  BY <1>4
<1> QED
  BY <1>2, <1>5

(* New attempts, each the only unfinished one of its child: they begin     *)
(* after the child's events.                                               *)
LEMMA AdmissionKeeps ==
  ASSUME IInv, NEW new \in Seq(Rows), Admitted(new), Len(attempts) + Len(new) <= MaxAttempts,
         \A n \in DOMAIN new :
           /\ new[n].state = "admitted" /\ new[n].turn = turn[new[n].parent].no
           /\ new[n].child \in 1 .. (Len(attempts) + n)
           /\ new[n].after = Len(log[new[n].child])
           /\ \A j \in DOMAIN attempts : Child(j) = new[n].child => Terminal(j)
           /\ \A m \in DOMAIN new : new[m].child = new[n].child => m = n,
         UNCHANGED <<turn, log, late, token, wrapping, outcome, unsettled>>,
         lease' \in [Ids -> Leases], \A c \in DOMAIN attempts : lease'[c] = lease[c]
  PROVE  Kept
<1> DEFINE L == Len(attempts)
<1>1. /\ L \in Nat /\ DOMAIN attempts = 1 .. L /\ DOMAIN attempts \subseteq Ids
      /\ attempts \in Seq(Rows) /\ MaxAttempts \in Nat
  BY Finite DEF IInv, ShapeOK
<1>2. /\ attempts' = attempts \o new
      /\ pc' = [j \in Ids |-> IF j \in (L + 1) .. (L + Len(new)) THEN "queued" ELSE pc[j]]
  BY DEF Admitted
<1>3. Len(new) \in Nat /\ DOMAIN new = 1 .. Len(new)
  OBVIOUS
<1>4. /\ attempts' \in Seq(Rows) /\ Len(attempts') = L + Len(new)
      /\ DOMAIN attempts' = 1 .. (L + Len(new))
      /\ \A j \in DOMAIN attempts : j \in DOMAIN attempts' /\ attempts'[j] = attempts[j]
      /\ \A j \in DOMAIN attempts' : j \notin DOMAIN attempts =>
           j > L /\ j - L \in DOMAIN new /\ attempts'[j] = new[j - L]
  <2>1. /\ attempts \o new \in Seq(Rows) /\ Len(attempts \o new) = L + Len(new)
        /\ DOMAIN (attempts \o new) = 1 .. (L + Len(new))
        /\ \A j \in 1 .. L : (attempts \o new)[j] = attempts[j]
        /\ \A j \in (L + 1) .. (L + Len(new)) : (attempts \o new)[j] = new[j - L]
    BY <1>1, <1>3
  <2> HIDE DEF L
  <2> QED
    BY <1>1, <1>2, <1>3, <2>1
<1> HIDE DEF L
<1>5. L + Len(new) <= MaxAttempts
  BY DEF L
<1>6. /\ \A j \in DOMAIN attempts : pc'[j] = pc[j]
      /\ \A j \in DOMAIN attempts' : j \notin DOMAIN attempts => pc'[j] = "queued"
      /\ pc' \in [Ids -> Places] /\ DOMAIN attempts' \subseteq Ids
  <2>1. pc \in [Ids -> Places] /\ "queued" \in Places
    BY DEF IInv, ShapeOK, Places
  <2>2. Ids = 1 .. MaxAttempts
    BY DEF Ids
  <2>3. DOMAIN attempts' \subseteq Ids
    BY <1>1, <1>3, <1>4, <1>5, <2>2
  <2>4. \A j \in DOMAIN attempts : j \in Ids /\ j \notin (L + 1) .. (L + Len(new))
    BY <1>1
  <2>5. \A j \in DOMAIN attempts' : j \notin DOMAIN attempts => j \in (L + 1) .. (L + Len(new))
    BY <1>1, <1>3, <1>4
  <2> QED
    BY <1>2, <2>1, <2>3, <2>4, <2>5
<1>7. \A j \in DOMAIN attempts : /\ Child(j)' = Child(j) /\ Terminal(j)' = Terminal(j)
                                 /\ ParentLive(j)' = ParentLive(j) /\ Spent(j)' = Spent(j)
                                 /\ j \in Nat /\ Child(j) \in DOMAIN attempts
  BY <1>1, <1>4, RowIs DEF Child, Terminal, ParentLive, Spent
<1>8. ASSUME NEW j \in DOMAIN attempts', j \notin DOMAIN attempts
      PROVE  /\ attempts'[j] \in Rows /\ attempts'[j].state = "admitted" /\ ~Terminal(j)'
             /\ attempts'[j].turn = turn[attempts'[j].parent].no
             /\ Child(j)' = attempts'[j].child /\ Child(j)' \in 1 .. j /\ Child(j)' \in Ids
             /\ attempts'[j].after = Len(log[Child(j)'])
             /\ \A k \in DOMAIN attempts : Child(k) = Child(j)' => Terminal(k)
             /\ \A k \in DOMAIN attempts' :
                  k \notin DOMAIN attempts /\ Child(k)' = Child(j)' => k = j
             /\ j \in Nat /\ j > L /\ j \notin wrapping /\ token[j] = 0
  <2>1. /\ j > L /\ j - L \in DOMAIN new /\ attempts'[j] = new[j - L] /\ j \in Nat /\ j \in Ids
        /\ attempts'[j] \in Rows
    BY <1>3, <1>4, <1>6, <1>8
  <2>2. /\ attempts'[j].state = "admitted" /\ attempts'[j].turn = turn[attempts'[j].parent].no
        /\ attempts'[j].child \in 1 .. (L + (j - L))
        /\ attempts'[j].after = Len(log[attempts'[j].child])
        /\ \A k \in DOMAIN attempts : Child(k) = attempts'[j].child => Terminal(k)
    BY <2>1 DEF L
  <2>3. \A k \in DOMAIN attempts' :
          k \notin DOMAIN attempts /\ attempts'[k].child = attempts'[j].child => k = j
    <3> SUFFICES ASSUME NEW k \in DOMAIN attempts', k \notin DOMAIN attempts,
                        attempts'[k].child = attempts'[j].child
                 PROVE  k = j
      OBVIOUS
    <3>1. k - L \in DOMAIN new /\ attempts'[k] = new[k - L] /\ k \in Nat
      BY <1>3, <1>4
    <3>2. k - L = j - L
      BY <2>1, <3>1
    <3> QED
      BY <1>1, <2>1, <3>1, <3>2
  <2>4. attempts'[j].child \in 1 .. j /\ attempts'[j].child \in Ids
    <3>1. L + (j - L) = j
      BY <1>1, <2>1
    <3> QED
      BY <1>1, <2>1, <2>2, <3>1 DEF Ids
  <2>5. j \notin wrapping /\ token[j] = 0
    BY <1>8, <2>1 DEF IInv, TypeOK, Executing
  <2>6. ~Terminal(j)'
    BY <2>2 DEF Terminal, Unfinished
  <2> QED
    BY <2>1, <2>2, <2>3, <2>4, <2>5, <2>6 DEF Child
<1>9. RowsOK'
  <2>1. ASSUME NEW j \in DOMAIN attempts', NEW k \in DOMAIN attempts', Child(j)' = Child(k)', k < j
        PROVE  Terminal(k)'
    <3>1. CASE j \in DOMAIN attempts
      <4>1. k \in DOMAIN attempts
        BY <1>1, <1>8, <2>1, <3>1
      <4> QED
        BY <1>7, <2>1, <3>1, <4>1 DEF IInv, RowsOK
    <3>2. CASE j \notin DOMAIN attempts /\ k \in DOMAIN attempts
      BY <1>7, <1>8, <2>1, <3>2
    <3>3. CASE j \notin DOMAIN attempts /\ k \notin DOMAIN attempts
      <4>1. j = k /\ j \in Nat
        BY <1>8, <2>1, <3>3
      <4> QED
        BY <2>1, <4>1
    <3> QED
      BY <3>1, <3>2, <3>3
  <2>2. ASSUME NEW j \in DOMAIN attempts' PROVE attempts'[j].turn <= turn[attempts'[j].parent].no
    <3>1. CASE j \in DOMAIN attempts
      BY <1>4, <3>1 DEF IInv, RowsOK
    <3>2. CASE j \notin DOMAIN attempts
      <4>1. attempts'[j].turn \in Nat /\ attempts'[j].turn = turn[attempts'[j].parent].no
        BY <1>8, <3>2 DEF Rows
      <4> QED
        BY <4>1
    <3> QED
      BY <3>1, <3>2
  <2> QED
    BY <2>1, <2>2 DEF RowsOK
<1>10. EventsOK'
  BY <1>4, <1>7 DEF IInv, EventsOK
<1>11. FinalsOK'
  <2> SUFFICES ASSUME NEW j \in DOMAIN attempts'
               PROVE  /\ attempts'[j].after <= Len(log[Child(j)'])
                      /\ \A n \in DOMAIN log[Child(j)'] : Final(Child(j)', n) =>
                           /\ log[Child(j)'][n].by = j => AnswerOK(j, n)'
                           /\ ~Terminal(j)' /\ n > attempts'[j].after => log[Child(j)'][n].by = j
    BY DEF FinalsOK, Final
  <2>1. CASE j \in DOMAIN attempts
    <3>1. \A n : AnswerOK(j, n) => AnswerOK(j, n)'
      BY <1>4, <1>6, <2>1 DEF AnswerOK
    <3>2. Child(j)' = Child(j) /\ Terminal(j)' = Terminal(j) /\ attempts'[j] = attempts[j]
      BY <1>4, <1>7, <2>1
    <3> QED
      BY <2>1, <3>1, <3>2 DEF IInv, FinalsOK
  <2>2. CASE j \notin DOMAIN attempts
    <3>1. /\ attempts'[j].after = Len(log[Child(j)']) /\ Child(j)' \in Ids
      BY <1>8, <2>2
    <3>2. log[Child(j)'] \in Seq(Events)
      BY <3>1 DEF IInv, ShapeOK
    <3>3. \A n \in DOMAIN log[Child(j)'] : log[Child(j)'][n].by # j
      BY <2>2, <3>1 DEF IInv, EventsOK
    <3>4. /\ Len(log[Child(j)']) \in Nat
          /\ \A n \in DOMAIN log[Child(j)'] : n \in Nat /\ ~(n > Len(log[Child(j)']))
      BY <3>2
    <3> QED
      BY <3>1, <3>3, <3>4
  <2> QED
    BY <2>1, <2>2
<1>12. WrappingOK'
  <2>1. ASSUME NEW j \in DOMAIN attempts'
        PROVE  /\ pc'[j] \in Executing \cup {"answered"} => attempts'[j].state # "admitted"
               /\ j \in wrapping => attempts'[j].state # "admitted"
                                    /\ (attempts'[j].wrapUp \/ Spent(j)')
    <3>1. CASE j \in DOMAIN attempts
      BY <1>4, <1>6, <1>7, <3>1 DEF IInv, WrappingOK
    <3>2. CASE j \notin DOMAIN attempts
      BY <1>6, <1>8, <3>2 DEF Executing
    <3> QED
      BY <3>1, <3>2
  <2> QED
    BY <2>1 DEF WrappingOK
<1>13. CapacityHeld'
  <2>1. Running' = Running
    <3>1. \A j \in DOMAIN attempts' : j \notin DOMAIN attempts => attempts'[j].state # "running"
      BY <1>8
    <3> QED
      BY <1>4, <3>1 DEF Running
  <2>2. \A q \in Parents : {j \in Running' : attempts'[j].parent = q}
                           = {j \in Running : attempts[j].parent = q}
    BY <1>4, <2>1 DEF Running
  <2> QED
    BY <2>1, <2>2 DEF IInv, CapacityHeld
<1>14. AnswersDecide'
  <2>1. \A j \in DOMAIN attempts : Terminal(j) =>
          (attempts[j].state \in {"succeeded", "partial"} <=> Answered(j))
    BY DEF IInv, AnswersDecide, Answered, Child
  <2>2. \A j \in DOMAIN attempts : Answered(j)' <=> Answered(j)
    BY <1>7 DEF Answered
  <2>3. \A j \in DOMAIN attempts' : Terminal(j)' => j \in DOMAIN attempts
    BY <1>8
  <2>4. \A j \in DOMAIN attempts' : Terminal(j)' =>
          (attempts'[j].state \in {"succeeded", "partial"} <=> Answered(j)')
    BY <1>4, <1>7, <2>1, <2>2, <2>3
  <2> QED
    BY <2>4 DEF AnswersDecide, Answered, Child
<1>15. WrapUpIsPartial'
  <2>1. \A j \in DOMAIN attempts' : j \notin DOMAIN attempts => attempts'[j].state # "succeeded"
    BY <1>8
  <2> QED
    BY <1>4, <2>1 DEF IInv, WrapUpIsPartial
<1>16. LeasesOK'
  <2>1. ASSUME NEW j \in DOMAIN attempts'
        PROVE  /\ token[j] <= lease'[Child(j)'].token
               /\ pc'[j] = "called" /\ HoldsLease(j)' => attempts'[j].state = "running"
    <3>1. CASE j \in DOMAIN attempts
      <4>1. Child(j)' = Child(j) /\ lease'[Child(j)] = lease[Child(j)]
        BY <1>7, <3>1
      <4> QED
        BY <1>4, <1>6, <3>1, <4>1 DEF IInv, LeasesOK, HoldsLease
    <3>2. CASE j \notin DOMAIN attempts
      <4>1. lease'[Child(j)'] \in Leases /\ token[j] = 0 /\ pc'[j] = "queued"
        BY <1>6, <1>8, <3>2
      <4> QED
        BY <4>1 DEF Leases
    <3> QED
      BY <3>1, <3>2
  <2> QED
    BY <2>1 DEF LeasesOK
<1>17. CallsAreLive /\ StatesLast
  BY <1>4, <1>6 DEF CallsAreLive, StatesLast
<1>18. TypeOK'
  <2>1. \A j \in DOMAIN attempts' :
          /\ attempts'[j].state \in Unfinished \cup Outcomes
          /\ attempts'[j].child \in 1 .. j /\ attempts'[j].after \in 0 .. MaxEvents
    <3> SUFFICES ASSUME NEW j \in DOMAIN attempts'
                 PROVE  /\ attempts'[j].state \in Unfinished \cup Outcomes
                        /\ attempts'[j].child \in 1 .. j /\ attempts'[j].after \in 0 .. MaxEvents
      OBVIOUS
    <3>1. CASE j \in DOMAIN attempts
      BY <1>4, <3>1 DEF IInv, TypeOK
    <3>2. CASE j \notin DOMAIN attempts
      <4>1. /\ attempts'[j] \in Rows /\ attempts'[j].child \in 1 .. j
            /\ Child(j)' \in Ids /\ attempts'[j].after = Len(log[Child(j)'])
        BY <1>8, <3>2
      <4>2. Len(log[Child(j)']) <= MaxEvents
        BY <4>1 DEF IInv, TypeOK
      <4> QED
        BY <4>1, <4>2, SubagentsAssumption DEF Rows
    <3> QED
      BY <3>1, <3>2
  <2>2. \A j \in Ids : /\ pc'[j] # "gone" => j \in DOMAIN attempts'
                       /\ token[j] # 0 => pc'[j] \in Executing \cup {"answered"}
    <3> SUFFICES ASSUME NEW j \in Ids
                 PROVE  /\ pc'[j] # "gone" => j \in DOMAIN attempts'
                        /\ token[j] # 0 => pc'[j] \in Executing \cup {"answered"}
      OBVIOUS
    <3>1. /\ pc[j] # "gone" => j \in DOMAIN attempts
          /\ token[j] # 0 => pc[j] \in Executing \cup {"answered"}
      BY DEF IInv, TypeOK
    <3>2. pc[j] \in Executing \cup {"answered"} => j \in DOMAIN attempts
      BY <3>1 DEF Executing
    <3>3. j \in (L + 1) .. (L + Len(new)) => j \in DOMAIN attempts' /\ j \notin DOMAIN attempts
      BY <1>1, <1>3, <1>4
    <3>4. j \notin (L + 1) .. (L + Len(new)) => pc'[j] = pc[j]
      BY <1>2
    <3> QED
      BY <1>4, <1>6, <3>1, <3>2, <3>3, <3>4
  <2>3. late \cup wrapping \cup unsettled \subseteq DOMAIN attempts'
    BY <1>4 DEF IInv, TypeOK
  <2> QED
    BY <1>4, <1>5, <2>1, <2>2, <2>3 DEF IInv, TypeOK
<1>19. ShapeOK'
  BY <1>4, <1>6 DEF IInv, ShapeOK
<1> QED
  BY <1>9, <1>10, <1>11, <1>12, <1>13, <1>14, <1>15, <1>16, <1>17, <1>18, <1>19 DEF IInv, Kept

(* A finite set is listed in a sequence of its members.                    *)
LEMMA Listed ==
  ASSUME NEW S, IsFiniteSet(S)
  PROVE  SetToSeq(S) \in Seq(S)
<1>1. Cardinality(S) \in Nat /\ ExistsBijection(1 .. Cardinality(S), S)
  BY FS_CardinalityType
<1>2. \E f \in [1 .. Cardinality(S) -> S] : IsInjective(f)
  BY <1>1, Zenon DEF ExistsBijection, Bijection, Injection
<1>3. SetToSeq(S) \in [1 .. Cardinality(S) -> S]
  BY <1>2, Zenon DEF SetToSeq
<1> QED
  BY <1>1, <1>3

(* Each new key has a child of its own.                                    *)
LEMMA DelegateKeeps ==
  ASSUME IInv, NEW p \in Parents, NEW K \in SUBSET Keys, Delegate(p, K)
  PROVE  Kept
<1> DEFINE S == K \ KeysUsed(p)
           L == Len(attempts)
<1>1. PICK fresh : fresh = SetToSeq(S)
  OBVIOUS
<1>2. PICK new : new = [n \in DOMAIN fresh |-> Attempt(p, fresh[n], L + n, 0)]
  OBVIOUS
<1>3. fresh \in Seq(S) /\ S \subseteq Keys
  <2>1. S \in SUBSET Keys
    OBVIOUS
  <2>2. IsFiniteSet(S)
    BY <2>1, SubagentsAssumption, FS_Subset
  <2> QED
    BY <1>1, <2>1, <2>2, Listed
<1>4. /\ L + Len(fresh) <= MaxAttempts /\ Admitted(new)
      /\ lease' = [c \in Ids |-> IF c \in (L + 1) .. (L + Len(fresh))
                                 THEN [Nobody EXCEPT !.open = TRUE] ELSE lease[c]]
      /\ UNCHANGED <<turn, log, late, token, wrapping, outcome, unsettled>>
  BY <1>1, <1>2 DEF Delegate
<1> HIDE DEF S
<1>5. Len(fresh) \in Nat /\ DOMAIN fresh = 1 .. Len(fresh) /\ \A n \in DOMAIN fresh : fresh[n] \in Keys
  BY <1>3
<1>6. L \in Nat /\ DOMAIN attempts = 1 .. L /\ MaxAttempts \in Nat
  BY Finite
<1>7. turn[p].no \in Nat
  BY DEF IInv, ShapeOK, Turns
<1>8. \A n \in DOMAIN fresh : L + n \in Nat /\ L + n \in Ids /\ L + n \notin DOMAIN attempts
  <2> HIDE DEF L
  <2>1. L + Len(fresh) <= MaxAttempts
    BY <1>4
  <2> QED
    BY <1>5, <1>6, <2>1 DEF Ids
<1> HIDE DEF L
<1>9. \A n \in DOMAIN fresh : Attempt(p, fresh[n], L + n, 0) \in Rows
  BY <1>5, <1>7, <1>8 DEF Attempt, Rows, Unfinished
<1>10. new \in Seq(Rows) /\ Len(new) = Len(fresh) /\ DOMAIN new = DOMAIN fresh
  BY <1>2, <1>5, <1>9
<1>11. ASSUME NEW n \in DOMAIN new
       PROVE  /\ new[n].state = "admitted" /\ new[n].turn = turn[new[n].parent].no
              /\ new[n].child = L + n /\ new[n].child \in 1 .. (L + n)
              /\ new[n].after = Len(log[new[n].child])
              /\ \A j \in DOMAIN attempts : Child(j) = new[n].child => Terminal(j)
  <2>1. /\ new[n].state = "admitted" /\ new[n].turn = turn[p].no /\ new[n].parent = p
        /\ new[n].child = L + n /\ new[n].after = 0
    BY <1>2, <1>10 DEF Attempt
  <2>2. L + n \in Ids /\ L + n \notin DOMAIN attempts
    BY <1>8, <1>10
  <2>3. Len(log[L + n]) = 0
    BY <2>2, NoEvents
  <2>4. n \in Nat /\ n >= 1
    BY <1>5, <1>10
  <2>5. \A j \in DOMAIN attempts : Child(j) # L + n
    BY <2>2, RowIs
  <2> QED
    BY <1>6, <2>1, <2>3, <2>4, <2>5
<1>12. \A m, n \in DOMAIN new : new[m].child = new[n].child => m = n
  <2> SUFFICES ASSUME NEW m \in DOMAIN new, NEW n \in DOMAIN new, new[m].child = new[n].child
               PROVE  m = n
    OBVIOUS
  <2>1. L + m = L + n
    BY <1>11
  <2>2. m \in Nat /\ n \in Nat
    BY <1>5, <1>10
  <2> QED
    BY <1>6, <2>1, <2>2
<1>13. lease' \in [Ids -> Leases] /\ \A c \in DOMAIN attempts : lease'[c] = lease[c]
  <2>1. lease \in [Ids -> Leases] /\ [Nobody EXCEPT !.open = TRUE] \in Leases
    BY DEF IInv, ShapeOK, Nobody, Leases
  <2>2. \A c \in DOMAIN attempts : c \in Ids /\ c \notin (L + 1) .. (L + Len(fresh))
    BY <1>5, <1>6, Finite
  <2>3. lease' = [c \in Ids |-> IF c \in (L + 1) .. (L + Len(fresh))
                                THEN [Nobody EXCEPT !.open = TRUE] ELSE lease[c]]
    BY <1>4 DEF L
  <2> QED
    BY <2>1, <2>2, <2>3
<1>14. Len(attempts) + Len(new) <= MaxAttempts
  BY <1>4, <1>10 DEF L
<1>15. \A n \in DOMAIN new :
         /\ new[n].state = "admitted" /\ new[n].turn = turn[new[n].parent].no
         /\ new[n].child \in 1 .. (Len(attempts) + n)
         /\ new[n].after = Len(log[new[n].child])
         /\ \A j \in DOMAIN attempts : Child(j) = new[n].child => Terminal(j)
         /\ \A m \in DOMAIN new : new[m].child = new[n].child => m = n
  BY <1>11, <1>12 DEF L
<1> QED
  BY <1>4, <1>10, <1>13, <1>14, <1>15, AdmissionKeeps

(* A child goes on when none of its attempts is unfinished.                *)
LEMMA ContinueKeeps ==
  ASSUME IInv, NEW i \in DOMAIN attempts, Continue(i)
  PROVE  Kept
<1> DEFINE c == Child(i)
           L == Len(attempts)
<1>1. PICK e : e = Attempt(attempts[i].parent, L + 1, c, Len(log[c]))
  OBVIOUS
<1>2. PICK new : new = <<e>>
  OBVIOUS
<1>3. /\ Resumable(i) /\ L < MaxAttempts /\ Admitted(new)
      /\ UNCHANGED <<turn, log, lease, late, token, wrapping, outcome, unsettled>>
  BY <1>1, <1>2 DEF Continue, Child
<1>4. /\ L \in Nat /\ DOMAIN attempts = 1 .. L /\ MaxAttempts \in Nat
      /\ c \in DOMAIN attempts /\ c \in Ids /\ c \in Nat
      /\ attempts[i].parent \in Parents /\ log[c] \in Seq(Events) /\ Len(log[c]) \in Nat
  BY Finite, RowIs DEF Rows
<1>5. turn[attempts[i].parent].no \in Nat
  BY <1>4 DEF IInv, ShapeOK, Turns
<1>6. \A j \in DOMAIN attempts : Child(j) = c => Terminal(j)
  BY <1>3 DEF Resumable, OfChild, Child
<1> HIDE DEF c, L
<1>7. /\ e \in Rows /\ e.state = "admitted" /\ e.turn = turn[e.parent].no
      /\ e.child = c /\ e.after = Len(log[c])
  BY <1>1, <1>4, <1>5 DEF Attempt, Rows, Unfinished
<1>8. new \in Seq(Rows) /\ Len(new) = 1 /\ DOMAIN new = {1} /\ new[1] = e
  BY <1>2, <1>7
<1>9. c \in 1 .. (L + 1) /\ L + Len(new) <= MaxAttempts
  BY <1>3, <1>4, <1>8
<1>10. \A n \in DOMAIN new :
         /\ new[n].state = "admitted" /\ new[n].turn = turn[new[n].parent].no
         /\ new[n].child \in 1 .. (Len(attempts) + n)
         /\ new[n].after = Len(log[new[n].child])
         /\ \A j \in DOMAIN attempts : Child(j) = new[n].child => Terminal(j)
         /\ \A m \in DOMAIN new : new[m].child = new[n].child => m = n
  BY <1>6, <1>7, <1>8, <1>9 DEF L
<1>11. Len(attempts) + Len(new) <= MaxAttempts
  BY <1>9 DEF L
<1>12. lease' \in [Ids -> Leases] /\ \A d \in DOMAIN attempts : lease'[d] = lease[d]
  BY <1>3 DEF IInv, ShapeOK
<1> QED
  BY <1>3, <1>8, <1>10, <1>11, <1>12, AdmissionKeeps

-----------------------------------------------------------------------------
(* The invariant, and what follows from it.                                *)

(* The invariant holds before anything is delegated.                       *)
LEMMA InitHolds ==
  ASSUME Init
  PROVE  IInv
<1>1. attempts = <<>> /\ DOMAIN attempts = {} /\ Len(attempts) = 0
  BY DEF Init
<1>2. MaxTurns \in Nat \ {0} /\ MaxAttempts \in Nat /\ MaxEvents \in Nat
      /\ Runtime \in Nat /\ PerParent \in Nat
  BY SubagentsAssumption
<1>3. ShapeOK
  <2>1. /\ [no |-> 1, live |-> TRUE, hosted |-> TRUE] \in Turns
        /\ Nobody \in Leases /\ "gone" \in Places
    BY DEF Turns, Nobody, Leases, Places
  <2>2. <<>> \in Seq(Events) /\ <<>> \in Seq(Rows)
    OBVIOUS
  <2> QED
    BY <2>1, <2>2 DEF Init, ShapeOK
<1>4. TypeOK
  <2>1. "failed" \in Outcomes
    BY DEF Outcomes
  <2> QED
    BY <1>1, <1>2, <2>1 DEF Init, TypeOK
<1>5. RowsOK /\ LeasesOK /\ FinalsOK /\ WrappingOK /\ AnswersDecide /\ WrapUpIsPartial
  BY <1>1 DEF Init, RowsOK, LeasesOK, FinalsOK, WrappingOK, AnswersDecide, WrapUpIsPartial
<1>6. EventsOK
  BY DEF Init, EventsOK
<1>7. CapacityHeld
  <2>1. Running = {} /\ \A q \in Parents : {j \in Running : attempts[j].parent = q} = {}
    BY <1>1 DEF Running
  <2> QED
    BY <1>2, <2>1, FS_EmptySet DEF CapacityHeld
<1> QED
  BY <1>3, <1>4, <1>5, <1>6, <1>7 DEF IInv

(* Each step of the goroutine that owns an attempt.                        *)
LEMMA OwnerKeeps ==
  ASSUME IInv, NEW i \in DOMAIN attempts, OwnerStep(i)
  PROVE  Kept
<1>1. CASE Start(i) \/ AlreadySettled(i) \/ GiveUp(i) \/ Acquire(i)
  BY <1>1, StartKeeps, AlreadySettledKeeps, GiveUpKeeps, AcquireKeeps
<1>2. CASE Ask(i) \/ WrapUp(i) \/ CallModel(i) \/ UseTools(i)
  BY <1>2, AskKeeps, WrapUpKeeps, CallModelKeeps, UseToolsKeeps
<1>3. CASE Answer(i) \/ Fail(i) \/ Release(i) \/ Finish(i) \/ HandOff(i)
  BY <1>3, AnswerKeeps, FailKeeps, ReleaseKeeps, FinishKeeps, HandOffKeeps
<1> QED
  BY <1>1, <1>2, <1>3 DEF OwnerStep

(* Every step keeps the invariant, and calls a model or changes a state    *)
(* only for a live attempt.                                                *)
LEMMA NextKeeps ==
  ASSUME IInv, Next
  PROVE  Kept
<1>1. ASSUME NEW p \in Parents, NEW K \in SUBSET Keys, Delegate(p, K) PROVE Kept
  BY <1>1, DelegateKeeps
<1>2. ASSUME NEW p \in Parents, LoseTurn(p) \/ NewTurn(p) PROVE Kept
  BY <1>2, LoseTurnKeeps, NewTurnKeeps
<1>3. ASSUME NEW i \in DOMAIN attempts, OwnerStep(i) PROVE Kept
  BY <1>3, OwnerKeeps
<1>4. ASSUME NEW i \in DOMAIN attempts,
             Continue(i) \/ SettlePending(i) \/ Recover(i) \/ Deadline(i)
      PROVE  Kept
  BY <1>4, ContinueKeeps, SettlePendingKeeps, RecoverKeeps, DeadlineKeeps
<1>5. CASE Crash
  BY <1>5, CrashKeeps
<1> QED
  BY <1>1, <1>2, <1>3, <1>4, <1>5 DEF Next

(* A step that changes nothing keeps the invariant.                        *)
LEMMA StutterKeeps ==
  ASSUME IInv, UNCHANGED vars
  PROVE  IInv'
<1>1. UNCHANGED <<turn, attempts, log, lease, late, pc, token, wrapping, outcome, unsettled>>
  BY DEF vars
<1>2. TypeOK' /\ ShapeOK'
  BY <1>1 DEF IInv, TypeOK, ShapeOK
<1>3. RowsOK' /\ LeasesOK' /\ EventsOK'
  BY <1>1 DEF IInv, RowsOK, LeasesOK, EventsOK, HoldsLease, Terminal, Child
<1>4. FinalsOK'
  BY <1>1 DEF IInv, FinalsOK, AnswerOK, Final, Terminal, Child
<1>5. WrappingOK'
  BY <1>1 DEF IInv, WrappingOK, Spent, ParentLive, Terminal
<1>6. CapacityHeld' /\ AnswersDecide' /\ WrapUpIsPartial'
  BY <1>1 DEF IInv, CapacityHeld, Running, AnswersDecide, WrapUpIsPartial, Terminal
<1> QED
  BY <1>2, <1>3, <1>4, <1>5, <1>6 DEF IInv

(* The invariant holds in every reachable state.                           *)
LEMMA Invariance == Spec => []IInv
<1>1. IInv /\ [Next]_vars => IInv'
  BY NextKeeps, StutterKeeps DEF Kept
<1> QED
  BY <1>1, InitHolds, PTL DEF Spec

(* Whatever is delegated, continued, refused, stopped or recovered, and    *)
(* wherever the process ends: no more workers run than the policy allows,  *)
(* a child has at most one unfinished attempt, an attempt is settled with  *)
(* a report exactly when its own goroutine's final answer was accepted,    *)
(* and a report of the wrap-up is partial.                                 *)
THEOREM AttemptsStayAccounted == Spec => []AttemptsAreAccounted
<1>1. IInv => OneUnfinishedAttempt
  <2> SUFFICES ASSUME IInv, NEW i \in DOMAIN attempts, NEW j \in DOMAIN attempts,
                      i # j, Child(i) = Child(j)
               PROVE  Terminal(i) \/ Terminal(j)
    BY DEF OneUnfinishedAttempt, Child
  <2>1. i \in Nat /\ j \in Nat
    BY RowIs
  <2>2. CASE i < j
    BY <2>2 DEF IInv, RowsOK
  <2>3. CASE j < i
    BY <2>3 DEF IInv, RowsOK
  <2> QED
    BY <2>1, <2>2, <2>3
<1>2. IInv => AttemptsAreAccounted
  BY <1>1 DEF IInv, AttemptsAreAccounted
<1> QED
  BY <1>2, Invariance, PTL

(* A model is called, and an answer accepted, only for the attempt of the  *)
(* goroutine itself, while it runs and its parent's turn lives; and a      *)
(* settled attempt keeps its state.                                        *)
THEOREM OnlyTheLiveAnswer == Spec => OnlyLiveAttemptsAnswer
<1> DEFINE A == \A i \in DOMAIN attempts :
                  /\ pc[i] # "called" /\ pc'[i] = "called"
                       => attempts[i].state = "running" /\ ParentLive(i)
                  /\ Answer(i) => attempts[i].state = "running" /\ ParentLive(i)
                  /\ Terminal(i) => attempts'[i].state = attempts[i].state
<1>1. ASSUME IInv, [Next]_vars PROVE [A]_vars
  <2>1. CASE UNCHANGED vars
    BY <2>1
  <2>2. CASE Next
    <3>1. StatesLast /\ CallsAreLive
      BY <1>1, <2>2, NextKeeps DEF Kept
    <3>2. \A i \in DOMAIN attempts : Answer(i) => attempts[i].state = "running" /\ ParentLive(i)
      BY <1>1, WritesForItself DEF Answer, Write
    <3>3. A
      BY <3>1, <3>2 DEF StatesLast, CallsAreLive
    <3> HIDE DEF A
    <3> QED
      BY <3>3
  <2> QED
    BY <1>1, <2>1, <2>2
<1>2. OnlyLiveAttemptsAnswer <=> [][A]_vars
  BY DEF OnlyLiveAttemptsAnswer
<1> HIDE DEF A
<1> QED
  BY <1>1, <1>2, Invariance, PTL DEF Spec

-----------------------------------------------------------------------------
(* The gate.                                                               *)

(* A head that may be recorded: a history, or none yet.                    *)
Heads == Seq(Changes) \cup {None}

Records == [step : Steps, owner : Calls \cup {None}, targetHead : Heads,
            branchHead : Heads, needsRebase : BOOLEAN, merged : BOOLEAN]

Locals == [id : Attempts \cup {None}, targetHead : Heads, branchHead : Heads,
           seen : Heads]

(* A call on its way to a proposal; one that merges; one that only closes. *)
Proposing == {"verifying", "verified", "rebasing", "replaying",
              "verifying_after", "passed"}
Merging == {"merging", "moved"}
After == {"cleaning", "telling"}
Holding == Proposing \cup Merging \cup {"approved"}
GatePlaces ==
  {"idle", "done", "approved", "closing"} \cup Proposing \cup Merging \cup After

(* A call that has the gate of its attempt.                                *)
Gating(c) == stage[c] \in Proposing \cup Merging \cup After \cup {"closing"}

WorkOf(c) == Build(at[c].id)

(* The variables have their shapes, and a call that holds a proposal holds *)
(* two heads.                                                              *)
RepoShape ==
  /\ target \in Seq(Changes)
  /\ branch \in [Builds -> Seq(Changes)]
  /\ marker \in [Builds -> Calls \cup {None}]

WorkShape ==
  /\ gone \subseteq Builds /\ removed \subseteq Builds /\ working \subseteq Builds
  /\ latest \in [Builds -> Numbers]
  /\ losses \in 0..MaxLosses

RecordShape ==
  /\ gate \in [Attempts -> Records]
  /\ recovery = None \/ recovery \in [id : Attempts, gate : Records]

CallShape ==
  /\ stage \in [Calls -> GatePlaces]
  /\ at \in [Calls -> Locals]
  /\ \A c \in Calls : Underway(c) <=> at[c].id # None
  /\ \A c \in Calls : stage[c] \in Holding
        => at[c].targetHead \in Seq(Changes) /\ at[c].branchHead \in Seq(Changes)
  /\ gates \subseteq {Process[c] : c \in Calls} \X Attempts
  /\ held \subseteq Calls

GateShape == RepoShape /\ WorkShape /\ RecordShape /\ CallShape

(* No two calls have the gates of one build.                               *)
OneGatePerBuild ==
  \A c, d \in Calls : Gating(c) /\ Gating(d) /\ WorkOf(c) = WorkOf(d) => c = d

(* The attempt a call works on was at rest: while it is the latest one it  *)
(* stays at rest, and nothing but its gates changes the branch.            *)
AttemptRests(c) ==
  /\ at[c].id[2] <= latest[WorkOf(c)]
  /\ IsLatest(at[c].id) => WorkOf(c) \notin working

Untouched(c) == IsLatest(at[c].id) /\ WorkOf(c) \notin gone

(* What a call knows of the branch, while its attempt is the latest one    *)
(* and its worktree exists: a run that runs, runs on the head in the       *)
(* worktree, and from the first pass to the second run the head the call   *)
(* holds is a verified one.                                                *)
CallKnows(c) ==
  /\ stage[c] \in Proposing \cup {"approved"} => AttemptRests(c)
  /\ stage[c] \in {"verifying", "verifying_after"} => marker[WorkOf(c)] = None
  /\ (stage[c] \in {"verifying", "verifying_after"} /\ IsLatest(at[c].id)) =>
        /\ branch[WorkOf(c)] = at[c].seen
        /\ branch[WorkOf(c)] = at[c].branchHead
  /\ (stage[c] \in {"verified", "rebasing"} /\ Untouched(c)) =>
        /\ branch[WorkOf(c)] = at[c].branchHead
        /\ at[c].branchHead \in verified
  /\ (stage[c] \in {"passed", "approved"} /\ Untouched(c)) => at[c].branchHead \in verified
  /\ stage[c] = "merging" => at[c].branchHead \in verified

(* A record that awaits the approval of a head awaits that of a verified   *)
(* one.                                                                    *)
RecordKnows(a) ==
  gate[a].step = "awaiting" =>
     /\ a[2] <= latest[Build(a)]
     /\ IsLatest(a) /\ Build(a) \notin gone => gate[a].branchHead \in verified

(* The inductive invariant of OnlyVerifiedMerges.                          *)
VerifiedInv ==
  /\ OneGatePerBuild
  /\ OnlyVerifiedMerges
  /\ \A c \in Calls : CallKnows(c)
  /\ \A a \in Attempts : RecordKnows(a)

(* Supervisor.gates of the process of every gating call has its attempt,   *)
(* and no other call of that process has the gate of that attempt.         *)
GatesAreKept ==
  /\ \A c \in Calls : Gating(c) => <<Process[c], at[c].id>> \in gates
  /\ \A c, d \in Calls : Gating(c) /\ Gating(d) /\ Process[c] = Process[d]
        /\ at[c].id = at[d].id => c = d

(* The record of an attempt whose gate a call has.                         *)
RecordFits(c) ==
  /\ stage[c] \in Proposing =>
        /\ gate[at[c].id].step \in InProgress \ {"merging"}
  /\ stage[c] \in Merging =>
        /\ gate[at[c].id].step = "merging"
        /\ gate[at[c].id].branchHead = at[c].branchHead
  /\ stage[c] \in Proposing \cup Merging =>
        /\ gate[at[c].id].owner = c
        /\ c \in held
        /\ ~gate[at[c].id].merged
  /\ stage[c] = "approved" => c \in held
  /\ stage[c] = "moved" => IsPrefix(at[c].branchHead, target)

Truth(a) ==
  /\ gate[a].step \in InProgress =>
        \E c \in Calls : stage[c] \in Proposing \cup Merging /\ at[c].id = a
  /\ gate[a].merged =>
        /\ gate[a].step = "merged"
        /\ gate[a].branchHead \in Seq(Changes)
        /\ IsPrefix(gate[a].branchHead, target)
  /\ (\E l \in landed : l[1] = a) =>
        \/ gate[a].merged
        \/ \E c \in Calls : stage[c] = "moved" /\ at[c].id = a

(* What the records tell, while no call was cut off.                       *)
TruthNow ==
  /\ recovery = None
  /\ \A c \in Calls : RecordFits(c)
  /\ \A a \in Attempts : Truth(a)

TruthInv == losses = 0 => TruthNow

InOneProcess == \A c, d \in Calls : Process[c] = Process[d]

-----------------------------------------------------------------------------
(* Histories.                                                              *)

(* A prefix agrees with the sequence as far as it goes.                    *)
LEMMA PrefixMeans ==
  ASSUME NEW S, NEW s \in Seq(S), NEW t \in Seq(S)
  PROVE  IsPrefix(s, t) <=>
           /\ Len(s) <= Len(t)
           /\ \A i \in 1..Len(s) : s[i] = t[i]
  <1>1. Len(s) \in Nat /\ Len(t) \in Nat
    OBVIOUS
  <1>2. ASSUME Len(s) <= Len(t), SubSeq(s, 1, Len(s)) = SubSeq(t, 1, Len(s)),
               NEW i \in 1..Len(s)
        PROVE  s[i] = t[i]
    <2>1. SubSeq(s, 1, Len(s))[i] = s[i]
      BY <1>1
    <2>2. SubSeq(t, 1, Len(s))[i] = t[i]
      BY <1>1, <1>2
    <2> QED
      BY <1>2, <2>1, <2>2
  <1>3. ASSUME Len(s) <= Len(t), \A i \in 1..Len(s) : s[i] = t[i]
        PROVE  SubSeq(s, 1, Len(s)) = SubSeq(t, 1, Len(s))
    BY <1>1, <1>3
  <1> QED
    BY <1>2, <1>3 DEF IsPrefix

LEMMA PrefixReflexive ==
  ASSUME NEW S, NEW s \in Seq(S)
  PROVE  IsPrefix(s, s)
  BY PrefixMeans

LEMMA PrefixTransitive ==
  ASSUME NEW S, NEW s \in Seq(S), NEW t \in Seq(S), NEW u \in Seq(S),
         IsPrefix(s, t), IsPrefix(t, u)
  PROVE  IsPrefix(s, u)
  <1>1. /\ Len(s) \in Nat /\ Len(t) \in Nat /\ Len(u) \in Nat
    OBVIOUS
  <1>2. /\ Len(s) <= Len(t) /\ Len(t) <= Len(u)
        /\ \A i \in 1..Len(s) : s[i] = t[i]
        /\ \A i \in 1..Len(t) : t[i] = u[i]
    BY PrefixMeans
  <1>3. \A i \in 1..Len(s) : s[i] = u[i]
    BY <1>1, <1>2
  <1> QED
    BY <1>1, <1>2, <1>3, PrefixMeans

LEMMA PrefixOfAppend ==
  ASSUME NEW S, NEW s \in Seq(S), NEW e \in S
  PROVE  Append(s, e) \in Seq(S) /\ IsPrefix(s, Append(s, e))
  <1>1. Append(s, e) \in Seq(S) /\ Len(Append(s, e)) = Len(s) + 1
    OBVIOUS
  <1>2. \A i \in 1..Len(s) : Append(s, e)[i] = s[i]
    OBVIOUS
  <1>3. Len(s) \in Nat
    OBVIOUS
  <1>4. Len(s) <= Len(Append(s, e))
    BY <1>1, <1>3
  <1>5. ASSUME NEW t \in Seq(S), Len(s) <= Len(t), \A i \in 1..Len(s) : s[i] = t[i]
        PROVE  IsPrefix(s, t)
    BY <1>5, PrefixMeans
  <1> QED
    BY <1>1, <1>2, <1>4, <1>5

(* In a finite set of numbers every place is taken.                        *)
LEMMA EveryPlaceIsTaken ==
  ASSUME NEW K \in Nat, NEW lacking \in SUBSET (1..K),
         NEW n \in 1..Cardinality(lacking)
  PROVE  \E i \in lacking : Cardinality({j \in lacking : j <= i}) = n
  <1> DEFINE upTo(i) == {j \in lacking : j <= i}
             rank == [i \in lacking |-> Cardinality(upTo(i))]
             places == 1..Cardinality(lacking)
  <1>1. IsFiniteSet(1..K)
    BY FS_Interval
  <1>2. IsFiniteSet(lacking) /\ Cardinality(lacking) \in Nat
    BY <1>1, FS_Subset, FS_CardinalityType
  <1>3. ASSUME NEW i \in lacking
        PROVE  /\ IsFiniteSet(upTo(i)) /\ Cardinality(upTo(i)) \in Nat
               /\ Cardinality(upTo(i)) <= Cardinality(lacking)
    <2>1. upTo(i) \subseteq lacking
      OBVIOUS
    <2> HIDE DEF upTo
    <2> QED
      BY <1>2, <2>1, FS_Subset, FS_CardinalityType
  <1>4. ASSUME NEW i \in lacking
        PROVE  Cardinality(upTo(i)) >= 1
    <2>1. i \in upTo(i)
      OBVIOUS
    <2>2. upTo(i) # {}
      BY <2>1
    <2> HIDE DEF upTo
    <2> QED
      BY <1>3, <2>2, FS_EmptySet
  <1>5. ASSUME NEW i \in lacking, NEW k \in lacking, i < k
        PROVE  Cardinality(upTo(i)) # Cardinality(upTo(k))
    <2>1. upTo(i) \subseteq upTo(k)
      <3>1. i \in Nat /\ k \in Nat /\ \A j \in lacking : j \in Nat
        OBVIOUS
      <3>2. ASSUME NEW j \in lacking, j <= i
            PROVE  j <= k
        BY <1>5, <3>1, <3>2
      <3> QED
        BY <3>2
    <2>2. k \in upTo(k) /\ k \notin upTo(i)
      <3>1. i \in Nat /\ k \in Nat
        OBVIOUS
      <3>2. k <= k /\ ~(k <= i)
        BY <1>5, <3>1
      <3> QED
        BY <3>2
    <2>3. upTo(i) # upTo(k)
      BY <2>2
    <2> HIDE DEF upTo
    <2> QED
      BY <1>3, <2>1, <2>3, FS_Subset
  <1>6. rank \in [lacking -> places]
    <2> HIDE DEF upTo
    <2> QED
      BY <1>2, <1>3, <1>4
  <1>7. \A i, k \in lacking : rank[i] = rank[k] => i = k
    <2> HIDE DEF upTo
    <2> QED
      BY <1>5
  <1> HIDE DEF rank, upTo
  <1>8. rank \in Injection(lacking, places)
    BY <1>6, <1>7 DEF Injection, IsInjective
  <1>9. IsFiniteSet(places) /\ Cardinality(places) = Cardinality(lacking)
    BY <1>2, FS_Interval
  <1>10. rank \in Surjection(lacking, places)
    BY <1>8, <1>9, FS_Injection
  <1>11. PICK i \in lacking : rank[i] = n
    BY <1>10 DEF Surjection
  <1> QED
    BY <1>11 DEF rank, upTo

(* A rebase leaves a history of changes.                                   *)
LEMMA ReplayedIsAHistory ==
  ASSUME NEW head \in Seq(Changes), NEW onto \in Seq(Changes)
  PROVE  Replayed(head, onto) \in Seq(Changes)
  <1> DEFINE lacking == {i \in DOMAIN head : \A j \in DOMAIN onto : onto[j] # head[i]}
             nth(n) == CHOOSE i \in lacking : Cardinality({j \in lacking : j <= i}) = n
             kept == [n \in 1..Cardinality(lacking) |-> head[nth(n)]]
  <1>1. Len(head) \in Nat /\ DOMAIN head = 1..Len(head)
    OBVIOUS
  <1>2. lacking \in SUBSET (1..Len(head))
    BY <1>1
  <1>3. \A n \in 1..Cardinality(lacking) : nth(n) \in lacking
    <2> HIDE DEF lacking
    <2> QED
      BY <1>1, <1>2, EveryPlaceIsTaken
  <1>4. ASSUME NEW n \in 1..Cardinality(lacking)
        PROVE  head[nth(n)] \in Changes
    <2> HIDE DEF lacking, nth
    <2>1. nth(n) \in 1..Len(head)
      BY <1>2, <1>3
    <2> QED
      BY <1>1, <2>1
  <1>5. Cardinality(lacking) \in Nat
    <2> HIDE DEF lacking
    <2> QED
      <3>1. IsFiniteSet(1..Len(head))
        BY <1>1, FS_Interval
      <3> QED
        BY <1>2, <3>1, FS_Subset, FS_CardinalityType
  <1>6. kept \in Seq(Changes)
    <2> HIDE DEF lacking, nth
    <2> QED
      BY <1>4, <1>5
  <1>7. Replayed(head, onto) = onto \o kept
    BY DEF Replayed
  <1> HIDE DEF kept
  <1> QED
    BY <1>6, <1>7

-----------------------------------------------------------------------------
(* Shapes.                                                                 *)

LEMMA Bounds ==
  /\ MaxOwnerCommits \in Nat /\ MaxContinuations \in Nat /\ MaxLosses \in Nat
  /\ None \notin Calls /\ None \notin Attempts
  BY GateAssumption DEF Attempts, Numbers

LEMMA AttemptParts ==
  ASSUME NEW a \in Attempts
  PROVE  Build(a) \in Builds /\ a[2] \in Numbers /\ a[2] \in Nat /\ a # None
  <1>1. a[1] \in Builds /\ a[2] \in Numbers
    BY DEF Attempts
  <1>2. a[2] \in Nat
    BY <1>1, Bounds DEF Numbers
  <1> QED
    BY <1>1, <1>2, Bounds DEF Build

LEMMA CallHasWork ==
  ASSUME CallShape, NEW c \in Calls, Underway(c)
  PROVE  at[c].id \in Attempts /\ WorkOf(c) \in Builds
  <1>1. at[c] \in Locals /\ at[c].id # None
    BY DEF CallShape
  <1>2. at[c].id \in Attempts
    BY <1>1 DEF Locals
  <1> QED
    BY <1>2, AttemptParts DEF WorkOf

LEMMA RepoFrame ==
  ASSUME RepoShape, UNCHANGED <<target, branch, marker>>
  PROVE  RepoShape'
  BY DEF RepoShape

LEMMA WorkFrame ==
  ASSUME WorkShape, UNCHANGED <<gone, removed, working, latest, losses>>
  PROVE  WorkShape'
  BY DEF WorkShape

LEMMA RecordFrame ==
  ASSUME RecordShape, UNCHANGED <<gate, recovery>>
  PROVE  RecordShape'
  BY DEF RecordShape

LEMMA CallFrame ==
  ASSUME CallShape, UNCHANGED <<stage, at, gates, held>>
  PROVE  CallShape'
  BY DEF CallShape, Underway

(* A call moves on with new local variables.                               *)
LEMMA CallMoves ==
  ASSUME CallShape, NEW c \in Calls, NEW place \in GatePlaces, NEW mine \in Locals,
         stage' = [stage EXCEPT ![c] = place],
         at' = [at EXCEPT ![c] = mine],
         place \notin {"idle", "done"} <=> mine.id # None,
         place \in Holding => mine.targetHead \in Seq(Changes) /\ mine.branchHead \in Seq(Changes),
         gates' \subseteq {Process[d] : d \in Calls} \X Attempts,
         held' \subseteq Calls
  PROVE  CallShape'
  <1>1. stage' \in [Calls -> GatePlaces] /\ at' \in [Calls -> Locals]
    BY DEF CallShape
  <1>2. stage'[c] = place /\ at'[c] = mine
    BY DEF CallShape
  <1>3. \A d \in Calls : d # c => stage'[d] = stage[d] /\ at'[d] = at[d]
    BY DEF CallShape
  <1>4. \A d \in Calls : Underway(d)' <=> at'[d].id # None
    BY <1>2, <1>3 DEF CallShape, Underway
  <1>5. \A d \in Calls : stage'[d] \in Holding
          => at'[d].targetHead \in Seq(Changes) /\ at'[d].branchHead \in Seq(Changes)
    BY <1>2, <1>3 DEF CallShape
  <1> QED
    BY <1>1, <1>4, <1>5 DEF CallShape

(* A call that only moves on.                                              *)
LEMMA CallGoesOn ==
  ASSUME CallShape, NEW c \in Calls, NEW place \in GatePlaces,
         stage' = [stage EXCEPT ![c] = place], UNCHANGED at,
         Underway(c), place \notin {"idle", "done"},
         place \in Holding => stage[c] \in Holding,
         gates' \subseteq {Process[d] : d \in Calls} \X Attempts,
         held' \subseteq Calls
  PROVE  CallShape'
  <1>1. at[c] \in Locals /\ at[c].id # None
    BY DEF CallShape
  <1>2. at' = [at EXCEPT ![c] = at[c]]
    BY DEF CallShape
  <1>3. place \in Holding => at[c].targetHead \in Seq(Changes) /\ at[c].branchHead \in Seq(Changes)
    BY DEF CallShape
  <1> QED
    BY <1>1, <1>2, <1>3, CallMoves

LEMMA LeaveShapes ==
  ASSUME CallShape, NEW c \in Calls, Leave(c)
  PROVE  CallShape'
  <1>1. Nowhere \in Locals /\ Nowhere.id = None
    BY DEF Nowhere, Locals, Heads
  <1>2. "done" \in GatePlaces /\ "done" \notin Holding
    BY DEF GatePlaces, Holding, Proposing, Merging
  <1>3. gates' \subseteq {Process[d] : d \in Calls} \X Attempts /\ held' \subseteq Calls
    BY DEF Leave, CallShape
  <1>4. stage' = [stage EXCEPT ![c] = "done"] /\ at' = [at EXCEPT ![c] = Nowhere]
    BY DEF Leave
  <1> QED
    BY <1>1, <1>2, <1>3, <1>4, CallMoves

(* One record is written.                                                  *)
LEMMA RecordShapes ==
  ASSUME RecordShape, NEW a \in Attempts, NEW g \in Records, Record(a, g),
         UNCHANGED recovery
  PROVE  RecordShape'
  BY DEF RecordShape, Record

LEMMA RecordFields ==
  ASSUME RecordShape, NEW a \in Attempts
  PROVE  /\ gate[a] \in Records
         /\ gate[a].step \in Steps /\ gate[a].owner \in Calls \cup {None}
         /\ gate[a].targetHead \in Heads /\ gate[a].branchHead \in Heads
         /\ gate[a].needsRebase \in BOOLEAN /\ gate[a].merged \in BOOLEAN
  <1>1. gate[a] \in Records
    BY DEF RecordShape
  <1> QED
    BY <1>1 DEF Records

LEMMA LocalFields ==
  ASSUME CallShape, NEW c \in Calls
  PROVE  /\ at[c] \in Locals
         /\ at[c].targetHead \in Heads /\ at[c].branchHead \in Heads
         /\ at[c].seen \in Heads /\ at[c].id \in Attempts \cup {None}
  <1>1. at[c] \in Locals
    BY DEF CallShape
  <1> QED
    BY <1>1 DEF Locals

LEMMA FailedShapes ==
  ASSUME RecordShape, CallShape, NEW c \in Calls, Underway(c), NEW step \in Steps
  PROVE  /\ Failed(c, step) \in Records
         /\ [Failed(c, step) EXCEPT !.needsRebase = TRUE] \in Records
  <1>1. at[c].id \in Attempts
    BY CallHasWork
  <1>2. gate[at[c].id] \in Records
    BY <1>1, RecordFields
  <1>3. at[c].targetHead \in Heads /\ at[c].branchHead \in Heads
    BY LocalFields
  <1>4. Failed(c, step) \in Records
    BY <1>2, <1>3 DEF Records, Failed
  <1> QED
    BY <1>4 DEF Records

LEMMA MergedShapes ==
  ASSUME NEW g \in Records
  PROVE  Merged(g) \in Records /\ Interrupted(g) \in Records
  BY DEF Merged, Interrupted, Records, Steps, SettledSteps

LEMMA TargetMovedShapes ==
  ASSUME NEW f \in [Attempts -> Records], NEW b
  PROVE  TargetMovedRecords(f, b) \in [Attempts -> Records]
  <1>1. \A a \in Attempts : [f[a] EXCEPT !.needsRebase = TRUE] \in Records
    BY DEF Records
  <1> QED
    BY <1>1 DEF TargetMovedRecords

LEMMA SettleShapes ==
  ASSUME RepoShape, WorkShape, RecordShape, NEW a \in Attempts, NEW g, Settle(a, g),
         UNCHANGED <<target, branch, working, latest, losses>>,
         recovery' \in {recovery, None}
  PROVE  RepoShape' /\ WorkShape' /\ RecordShape'
  <1>1. Build(a) \in Builds
    BY AttemptParts
  <1>2. RepoShape'
    BY DEF RepoShape, Settle
  <1>3. WorkShape'
    BY <1>1 DEF WorkShape, Settle
  <1>4. gate[a] \in Records /\ gate \in [Attempts -> Records]
    BY DEF RecordShape
  <1>5. Merged(gate[a]) \in Records /\ Interrupted(gate[a]) \in Records
    BY <1>4, MergedShapes
  <1>6. /\ [gate EXCEPT ![a] = Interrupted(gate[a])] \in [Attempts -> Records]
        /\ [gate EXCEPT ![a] = Merged(gate[a])] \in [Attempts -> Records]
    BY <1>4, <1>5
  <1>7. TargetMovedRecords([gate EXCEPT ![a] = Merged(gate[a])], Build(a)) \in [Attempts -> Records]
    BY <1>6, TargetMovedShapes
  <1>8. gate' \in [Attempts -> Records]
    BY <1>6, <1>7 DEF Settle, Record
  <1> QED
    BY <1>2, <1>3, <1>8 DEF RecordShape

-----------------------------------------------------------------------------
(* Each step keeps the shapes.                                             *)

LEMMA SettleFirstShapes ==
  ASSUME GateShape, NEW c \in Calls, NEW a \in Attempts, SettleFirst(c, a)
  PROVE  GateShape'
  <1> USE DEF GateShape
  <1>11. RepoShape'
    BY SettleShapes DEF SettleFirst
  <1>12. WorkShape'
    BY SettleShapes DEF SettleFirst
  <1>13. RecordShape'
    BY SettleShapes DEF SettleFirst
  <1>14. CallShape'
    BY CallFrame DEF SettleFirst
  <1> QED
    BY <1>11, <1>12, <1>13, <1>14

LEMMA EnterShapes ==
  ASSUME GateShape, NEW c \in Calls, NEW a \in Attempts, Enter(c, a)
  PROVE  GateShape'
  <1> USE DEF GateShape
  <1>1. Build(a) \in Builds /\ a # None
    BY AttemptParts
  <1> DEFINE mine == [id |-> a, targetHead |-> target, branchHead |-> branch[Build(a)],
                      seen |-> branch[Build(a)]]
  <1>2. target \in Seq(Changes) /\ branch[Build(a)] \in Seq(Changes)
    BY <1>1 DEF RepoShape
  <1>3. mine \in Locals
    BY <1>2 DEF Locals, Heads
  <1>4. [gate[a] EXCEPT !.step = "verifying", !.owner = c, !.targetHead = target,
                       !.branchHead = branch[Build(a)]] \in Records
    BY <1>2, RecordFields DEF Records, Heads, Steps, InProgress
  <1>11. RepoShape'
    BY <1>1 DEF Enter, RepoShape
  <1>12. WorkShape'
    BY WorkFrame DEF Enter
  <1>13. RecordShape'
    BY <1>4, RecordShapes DEF Enter
  <1>14. CallShape'
    <2>1. stage' = [stage EXCEPT ![c] = "verifying"] /\ at' = [at EXCEPT ![c] = mine]
      BY DEF Enter
    <2>2. gates' \subseteq {Process[d] : d \in Calls} \X Attempts /\ held' \subseteq Calls
      BY DEF Enter, CallShape
    <2>3. "verifying" \in GatePlaces
      BY DEF GatePlaces, Proposing
    <2> QED
      BY <1>1, <1>2, <1>3, <2>1, <2>2, <2>3, CallMoves
  <1> QED
    BY <1>11, <1>12, <1>13, <1>14

LEMMA VerifyPassesShapes ==
  ASSUME GateShape, NEW c \in Calls, VerifyPasses(c)
  PROVE  GateShape'
  <1> USE DEF GateShape
  <1>1. Underway(c) /\ at[c].id \in Attempts /\ WorkOf(c) \in Builds
    BY CallHasWork DEF VerifyPasses, Underway
  <1>11. RepoShape'
    BY RepoFrame DEF VerifyPasses, repo, work
  <1>12. WorkShape'
    BY WorkFrame DEF VerifyPasses, repo, work
  <1>13. RecordShape'
    BY RecordFrame DEF VerifyPasses, repo, work
  <1>14. CallShape'
    <2>1. stage' = [stage EXCEPT ![c] = IF stage[c] = "verifying" THEN "verified" ELSE "passed"]
      BY DEF VerifyPasses, CallShape
    <2> QED
      BY <1>1, <2>1, CallGoesOn DEF VerifyPasses, GatePlaces, Holding, Proposing, CallShape
  <1> QED
    BY <1>11, <1>12, <1>13, <1>14

LEMMA VerifyFailsShapes ==
  ASSUME GateShape, NEW c \in Calls, VerifyFails(c)
  PROVE  GateShape'
  <1> USE DEF GateShape
  <1>1. Underway(c) /\ at[c].id \in Attempts /\ WorkOf(c) \in Builds
    BY CallHasWork DEF VerifyFails, Underway
  <1>11. RepoShape'
    BY RepoFrame DEF VerifyFails, repo, work
  <1>12. WorkShape'
    BY WorkFrame DEF VerifyFails, repo, work
  <1>13. RecordShape'
    <2>1. PICK step \in {"refused", "interrupted"} : Record(at[c].id, Failed(c, step))
      BY DEF VerifyFails
    <2>2. step \in Steps
      BY DEF Steps, SettledSteps
    <2>3. Failed(c, step) \in Records
      BY <1>1, <2>2, FailedShapes
    <2> QED
      BY <1>1, <2>1, <2>3, RecordShapes DEF VerifyFails
  <1>14. CallShape'
    BY LeaveShapes DEF VerifyFails
  <1> QED
    BY <1>11, <1>12, <1>13, <1>14

LEMMA RebaseRecordedShapes ==
  ASSUME GateShape, NEW c \in Calls, RebaseRecorded(c)
  PROVE  GateShape'
  <1> USE DEF GateShape
  <1>1. Underway(c) /\ at[c].id \in Attempts /\ WorkOf(c) \in Builds
    BY CallHasWork DEF RebaseRecorded, Underway
  <1>2. target \in Seq(Changes)
    BY DEF RepoShape
  <1> DEFINE mine == [at[c] EXCEPT !.targetHead = target]
  <1>3. mine \in Locals /\ mine.id # None /\ mine.targetHead = target
        /\ mine.branchHead = at[c].branchHead
    BY <1>1, <1>2, LocalFields, Bounds DEF Locals, Heads
  <1>4. [gate[at[c].id] EXCEPT !.step = "rebasing", !.targetHead = target] \in Records
    BY <1>1, <1>2, RecordFields DEF Records, Heads, Steps, InProgress
  <1>11. RepoShape'
    BY RepoFrame DEF RebaseRecorded, repo, work
  <1>12. WorkShape'
    BY WorkFrame DEF RebaseRecorded, repo, work
  <1>13. RecordShape'
    BY <1>1, <1>4, RecordShapes DEF RebaseRecorded
  <1>14. CallShape'
    <2>1. stage' = [stage EXCEPT ![c] = "rebasing"] /\ at' = [at EXCEPT ![c] = mine]
      BY DEF RebaseRecorded, CallShape
    <2>2. at[c].branchHead \in Seq(Changes)
      BY DEF RebaseRecorded, CallShape, Holding, Proposing
    <2>3. gates' \subseteq {Process[d] : d \in Calls} \X Attempts /\ held' \subseteq Calls
      BY DEF RebaseRecorded, CallShape
    <2>4. "rebasing" \in GatePlaces
      BY DEF GatePlaces, Proposing
    <2> QED
      BY <1>2, <1>3, <2>1, <2>2, <2>3, <2>4, CallMoves
  <1> QED
    BY <1>11, <1>12, <1>13, <1>14

LEMMA RebaseRefusedShapes ==
  ASSUME GateShape, NEW c \in Calls, RebaseRefused(c)
  PROVE  GateShape'
  <1> USE DEF GateShape
  <1>1. Underway(c) /\ at[c].id \in Attempts /\ WorkOf(c) \in Builds
    BY CallHasWork DEF RebaseRefused, Underway
  <1>11. RepoShape'
    BY RepoFrame DEF RebaseRefused, repo, work
  <1>12. WorkShape'
    BY WorkFrame DEF RebaseRefused, repo, work
  <1>13. RecordShape'
    <2>1. Failed(c, "interrupted") \in Records
      BY <1>1, FailedShapes DEF Steps, SettledSteps
    <2> QED
      BY <1>1, <2>1, RecordShapes DEF RebaseRefused
  <1>14. CallShape'
    BY LeaveShapes DEF RebaseRefused
  <1> QED
    BY <1>11, <1>12, <1>13, <1>14

LEMMA RebaseStartsShapes ==
  ASSUME GateShape, NEW c \in Calls, RebaseStarts(c)
  PROVE  GateShape'
  <1> USE DEF GateShape
  <1>1. Underway(c) /\ at[c].id \in Attempts /\ WorkOf(c) \in Builds
    BY CallHasWork DEF RebaseStarts, Underway
  <1>2. branch[WorkOf(c)] \in Seq(Changes)
    BY <1>1 DEF RepoShape
  <1> DEFINE mine == [at[c] EXCEPT !.branchHead = branch[WorkOf(c)]]
  <1>3. mine \in Locals /\ mine.id # None /\ mine.branchHead = branch[WorkOf(c)]
        /\ mine.targetHead = at[c].targetHead
    BY <1>1, <1>2, LocalFields, Bounds DEF Locals, Heads
  <1>11. RepoShape'
    BY <1>1 DEF RebaseStarts, RepoShape, WorkOf
  <1>12. WorkShape'
    BY WorkFrame DEF RebaseStarts, repo, work
  <1>13. RecordShape'
    BY RecordFrame DEF RebaseStarts, repo, work
  <1>14. CallShape'
    <2>1. gates' \subseteq {Process[d] : d \in Calls} \X Attempts /\ held' \subseteq Calls
      BY DEF RebaseStarts, CallShape
    <2>2. at[c].targetHead \in Seq(Changes) /\ stage[c] \in Holding
      BY DEF RebaseStarts, CallShape, Holding, Proposing
    <2>3. {"passed", "replaying"} \subseteq GatePlaces
      BY DEF GatePlaces, Proposing
    <2>4. CASE IsPrefix(at[c].targetHead, branch[WorkOf(c)])
      <3>1. stage' = [stage EXCEPT ![c] = "passed"] /\ at' = [at EXCEPT ![c] = mine]
        BY <2>4 DEF RebaseStarts, CallShape, WorkOf
      <3> QED
        BY <1>2, <1>3, <2>1, <2>2, <2>3, <3>1, CallMoves
    <2>5. CASE ~IsPrefix(at[c].targetHead, branch[WorkOf(c)])
      <3>1. stage' = [stage EXCEPT ![c] = "replaying"] /\ UNCHANGED at
        BY <2>5 DEF RebaseStarts, WorkOf
      <3> QED
        BY <1>1, <2>1, <2>2, <2>3, <3>1, CallGoesOn
    <2> QED
      BY <2>4, <2>5
  <1> QED
    BY <1>11, <1>12, <1>13, <1>14

LEMMA RebaseEndsShapes ==
  ASSUME GateShape, NEW c \in Calls, RebaseEnds(c)
  PROVE  GateShape'
  <1> USE DEF GateShape
  <1>1. Underway(c) /\ at[c].id \in Attempts /\ WorkOf(c) \in Builds
    BY CallHasWork DEF RebaseEnds, Underway
  <1> DEFINE head == Replayed(branch[WorkOf(c)], at[c].targetHead)
  <1>2. at[c].targetHead \in Seq(Changes)
    BY DEF RebaseEnds, CallShape, Holding, Proposing
  <1>3. head \in Seq(Changes)
    <2>1. branch[WorkOf(c)] \in Seq(Changes)
      BY <1>1 DEF RepoShape
    <2> QED
      BY <1>2, <2>1, ReplayedIsAHistory
  <1> HIDE DEF head
  <1> DEFINE mine == [at[c] EXCEPT !.branchHead = head, !.seen = head]
  <1>4. mine \in Locals /\ mine.id # None /\ mine.branchHead = head
        /\ mine.targetHead = at[c].targetHead
    BY <1>1, <1>3, LocalFields, Bounds DEF Locals, Heads
  <1>11. RepoShape'
    BY <1>1, <1>3 DEF RebaseEnds, RepoShape, WorkOf, head
  <1>12. WorkShape'
    BY WorkFrame DEF RebaseEnds, repo, work
  <1>13. RecordShape'
    <2>1. \A x \in Attempts :
             /\ [gate[x] EXCEPT !.step = "verifying_after", !.needsRebase = FALSE,
                                !.branchHead = head] \in Records
             /\ [gate[x] EXCEPT !.needsRebase = FALSE] \in Records
             /\ gate[x] \in Records
      BY <1>3, RecordFields DEF Records, Heads, Steps, InProgress
    <2>2. gate' = [x \in Attempts |->
                   CASE x = at[c].id -> [gate[x] EXCEPT !.step = "verifying_after",
                                      !.needsRebase = FALSE, !.branchHead = head]
                     [] x # at[c].id /\ Build(x) = WorkOf(c) -> [gate[x] EXCEPT !.needsRebase = FALSE]
                     [] OTHER -> gate[x]]
      BY DEF RebaseEnds, WorkOf, head
    <2>3. gate' \in [Attempts -> Records]
      BY <2>1, <2>2
    <2> QED
      BY <2>3 DEF RebaseEnds, RecordShape
  <1>14. CallShape'
    <2>1. stage' = [stage EXCEPT ![c] = "verifying_after"] /\ at' = [at EXCEPT ![c] = mine]
      BY DEF RebaseEnds, CallShape, WorkOf, head
    <2>2. gates' \subseteq {Process[d] : d \in Calls} \X Attempts /\ held' \subseteq Calls
      BY DEF RebaseEnds, CallShape
    <2>3. "verifying_after" \in GatePlaces
      BY DEF GatePlaces, Proposing
    <2> QED
      BY <1>2, <1>3, <1>4, <2>1, <2>2, <2>3, CallMoves
  <1> QED
    BY <1>11, <1>12, <1>13, <1>14

LEMMA RebaseFailsShapes ==
  ASSUME GateShape, NEW c \in Calls, RebaseFails(c)
  PROVE  GateShape'
  <1> USE DEF GateShape
  <1>1. Underway(c) /\ at[c].id \in Attempts /\ WorkOf(c) \in Builds
    BY CallHasWork DEF RebaseFails, Underway
  <1>11. RepoShape'
    BY <1>1 DEF RebaseFails, RepoShape, WorkOf
  <1>12. WorkShape'
    BY WorkFrame DEF RebaseFails, repo, work
  <1>13. RecordShape'
    <2>1. Failed(c, "refused") \in Records
      BY <1>1, FailedShapes DEF Steps, SettledSteps
    <2> QED
      BY <1>1, <2>1, RecordShapes DEF RebaseFails
  <1>14. CallShape'
    BY LeaveShapes DEF RebaseFails
  <1> QED
    BY <1>11, <1>12, <1>13, <1>14

LEMMA ProposedShapes ==
  ASSUME GateShape, NEW c \in Calls, Proposed(c)
  PROVE  GateShape'
  <1> USE DEF GateShape
  <1>1. Underway(c) /\ at[c].id \in Attempts /\ WorkOf(c) \in Builds
    BY CallHasWork DEF Proposed, Underway
  <1>2. [gate[at[c].id] EXCEPT !.step = "awaiting", !.owner = None,
                      !.targetHead = at[c].targetHead, !.branchHead = at[c].branchHead,
                      !.needsRebase = FALSE] \in Records
    <2>1. gate[at[c].id] \in Records /\ at[c].targetHead \in Heads /\ at[c].branchHead \in Heads
      BY <1>1, RecordFields, LocalFields
    <2> QED
      BY <2>1 DEF Records, Steps, SettledSteps
  <1>11. RepoShape'
    BY RepoFrame DEF Proposed, repo, work
  <1>12. WorkShape'
    BY WorkFrame DEF Proposed, repo, work
  <1>13. RecordShape'
    BY <1>1, <1>2, RecordShapes DEF Proposed
  <1>14. CallShape'
    BY <1>1, CallGoesOn DEF Proposed, GatePlaces, Holding, Proposing, Merging, After, Underway, CallShape, repo, work, history
  <1> QED
    BY <1>11, <1>12, <1>13, <1>14

LEMMA AbandonShapes ==
  ASSUME GateShape, NEW c \in Calls, Abandon(c)
  PROVE  GateShape'
  <1> USE DEF GateShape
  <1>11. RepoShape'
    BY RepoFrame DEF Abandon, repo, work
  <1>12. WorkShape'
    BY WorkFrame DEF Abandon, repo, work
  <1>13. RecordShape'
    BY RecordFrame DEF Abandon, repo, work
  <1>14. CallShape'
    BY LeaveShapes DEF Abandon
  <1> QED
    BY <1>11, <1>12, <1>13, <1>14

LEMMA MergePassedShapes ==
  ASSUME GateShape, NEW c \in Calls, NEW a \in Attempts, MergePassed(c, a)
  PROVE  GateShape'
  <1> USE DEF GateShape
  <1>1. Build(a) \in Builds /\ a # None
    BY AttemptParts
  <1> DEFINE mine == [Nowhere EXCEPT !.id = a, !.targetHead = gate[a].targetHead,
                                     !.branchHead = gate[a].branchHead]
  <1>2. gate[a].targetHead \in Seq(Changes) /\ gate[a].branchHead \in Seq(Changes)
    BY <1>1 DEF MergePassed, PassedProposal, RepoShape
  <1>3. mine \in Locals /\ mine.id = a /\ mine.targetHead = gate[a].targetHead
        /\ mine.branchHead = gate[a].branchHead
    BY <1>2 DEF Locals, Heads, Nowhere
  <1>11. RepoShape'
    BY RepoFrame DEF MergePassed, repo, work
  <1>12. WorkShape'
    BY WorkFrame DEF MergePassed, repo, work
  <1>13. RecordShape'
    BY RecordFrame DEF MergePassed, repo, work
  <1>14. CallShape'
    <2>1. stage' = [stage EXCEPT ![c] = "approved"] /\ at' = [at EXCEPT ![c] = mine]
      BY DEF MergePassed
    <2>2. gates' \subseteq {Process[d] : d \in Calls} \X Attempts /\ held' \subseteq Calls
      BY DEF MergePassed, CallShape
    <2>3. "approved" \in GatePlaces
      BY DEF GatePlaces
    <2> HIDE DEF mine
    <2> QED
      BY <1>1, <1>2, <1>3, <2>1, <2>2, <2>3, CallMoves
  <1> QED
    BY <1>11, <1>12, <1>13, <1>14

LEMMA NotMergedShapes ==
  ASSUME GateShape, NEW c \in Calls, NotMerged(c)
  PROVE  GateShape'
  <1> USE DEF GateShape
  <1>11. RepoShape'
    BY RepoFrame DEF NotMerged, repo, work
  <1>12. WorkShape'
    BY WorkFrame DEF NotMerged, repo, work
  <1>13. RecordShape'
    BY RecordFrame DEF NotMerged, repo, work
  <1>14. CallShape'
    <2>1. Nowhere \in Locals /\ Nowhere.id = None
      BY DEF Nowhere, Locals, Heads
    <2>2. "done" \in GatePlaces /\ "done" \notin Holding
      BY DEF GatePlaces, Holding, Proposing, Merging
    <2>3. gates' \subseteq {Process[d] : d \in Calls} \X Attempts /\ held' \subseteq Calls
      BY DEF NotMerged, CallShape
    <2>4. stage' = [stage EXCEPT ![c] = "done"] /\ at' = [at EXCEPT ![c] = Nowhere]
      BY DEF NotMerged
    <2> QED
      BY <2>1, <2>2, <2>3, <2>4, CallMoves
  <1> QED
    BY <1>11, <1>12, <1>13, <1>14

LEMMA MergeStartsShapes ==
  ASSUME GateShape, NEW c \in Calls, MergeStarts(c)
  PROVE  GateShape'
  <1> USE DEF GateShape
  <1>1. Underway(c) /\ at[c].id \in Attempts /\ WorkOf(c) \in Builds
    BY CallHasWork DEF MergeStarts, Underway
  <1>11. RepoShape'
    BY RepoFrame DEF MergeStarts, repo, work
  <1>12. WorkShape'
    BY WorkFrame DEF MergeStarts, repo, work
  <1>13. RecordShape'
    <2>1. Failed(c, "refused") \in Records /\ TargetMoved(c) \in Records
      BY <1>1, FailedShapes DEF Steps, SettledSteps, TargetMoved
    <2>2. [gate[at[c].id] EXCEPT !.step = "merging", !.owner = c] \in Records
      BY <1>1, RecordFields DEF Records, Steps, InProgress
    <2>3. UNCHANGED recovery
      BY DEF MergeStarts
    <2>4. \E g \in Records : Record(at[c].id, g)
      BY <2>1, <2>2 DEF MergeStarts
    <2> QED
      BY <1>1, <2>3, <2>4, RecordShapes
  <1>14. CallShape'
    <2>1. CASE Leave(c)
      BY <2>1, LeaveShapes
    <2>2. CASE ~Leave(c)
      <3>1. /\ gates' = gates \cup {<<Process[c], at[c].id>>}
            /\ stage' = [stage EXCEPT ![c] = "merging"]
            /\ UNCHANGED <<at, held>>
        BY <2>2 DEF MergeStarts
      <3>2. gates' \subseteq {Process[d] : d \in Calls} \X Attempts /\ held' \subseteq Calls
        BY <1>1, <3>1 DEF CallShape
      <3>3. "merging" \in GatePlaces /\ stage[c] \in Holding
        BY DEF GatePlaces, Holding, Merging, MergeStarts
      <3> QED
        BY <1>1, <3>1, <3>2, <3>3, CallGoesOn
    <2> QED
      BY <2>1, <2>2
  <1> QED
    BY <1>11, <1>12, <1>13, <1>14

LEMMA FastForwardShapes ==
  ASSUME GateShape, NEW c \in Calls, FastForward(c)
  PROVE  GateShape'
  <1> USE DEF GateShape
  <1>1. Underway(c) /\ at[c].id \in Attempts /\ WorkOf(c) \in Builds
    BY CallHasWork DEF FastForward, Underway
  <1>11. RepoShape'
    <2>1. at[c].branchHead \in Seq(Changes)
      BY DEF FastForward, CallShape, Holding, Merging
    <2> QED
      BY <2>1 DEF FastForward, RepoShape
  <1>12. WorkShape'
    BY WorkFrame DEF FastForward, repo, work
  <1>13. RecordShape'
    BY RecordFrame DEF FastForward, repo, work
  <1>14. CallShape'
    BY <1>1, CallGoesOn DEF FastForward, GatePlaces, Holding, Proposing, Merging, After, Underway, CallShape, repo, work, history
  <1> QED
    BY <1>11, <1>12, <1>13, <1>14

LEMMA FastForwardRefusedShapes ==
  ASSUME GateShape, NEW c \in Calls, FastForwardRefused(c)
  PROVE  GateShape'
  <1> USE DEF GateShape
  <1>1. Underway(c) /\ at[c].id \in Attempts /\ WorkOf(c) \in Builds
    BY CallHasWork DEF FastForwardRefused, Underway
  <1>11. RepoShape'
    BY RepoFrame DEF FastForwardRefused, repo, work
  <1>12. WorkShape'
    BY WorkFrame DEF FastForwardRefused, repo, work
  <1>13. RecordShape'
    <2>1. Failed(c, "refused") \in Records /\ TargetMoved(c) \in Records
      BY <1>1, FailedShapes DEF Steps, SettledSteps, TargetMoved
    <2>2. \E g \in Records : Record(at[c].id, g)
      BY <2>1 DEF FastForwardRefused
    <2> QED
      BY <1>1, <2>2, RecordShapes DEF FastForwardRefused
  <1>14. CallShape'
    BY LeaveShapes DEF FastForwardRefused
  <1> QED
    BY <1>11, <1>12, <1>13, <1>14

LEMMA MergeRecordedShapes ==
  ASSUME GateShape, NEW c \in Calls, MergeRecorded(c)
  PROVE  GateShape'
  <1> USE DEF GateShape
  <1>1. Underway(c) /\ at[c].id \in Attempts /\ WorkOf(c) \in Builds
    BY CallHasWork DEF MergeRecorded, Underway
  <1>11. RepoShape'
    BY RepoFrame DEF MergeRecorded, repo, work
  <1>12. WorkShape'
    BY WorkFrame DEF MergeRecorded, repo, work
  <1>13. RecordShape'
    BY <1>1, RecordFields, MergedShapes, RecordShapes DEF MergeRecorded
  <1>14. CallShape'
    BY <1>1, CallGoesOn DEF MergeRecorded, GatePlaces, Holding, Proposing, Merging, After, Underway, CallShape, repo, work, history
  <1> QED
    BY <1>11, <1>12, <1>13, <1>14

LEMMA MergeCleansUpShapes ==
  ASSUME GateShape, NEW c \in Calls, MergeCleansUp(c)
  PROVE  GateShape'
  <1> USE DEF GateShape
  <1>1. Underway(c) /\ at[c].id \in Attempts /\ WorkOf(c) \in Builds
    BY CallHasWork DEF MergeCleansUp, Underway
  <1>11. RepoShape'
    BY <1>1 DEF MergeCleansUp, RepoShape, WorkOf
  <1>12. WorkShape'
    BY <1>1 DEF MergeCleansUp, WorkShape, WorkOf, work
  <1>13. RecordShape'
    BY RecordFrame DEF MergeCleansUp, repo, work
  <1>14. CallShape'
    BY <1>1, CallGoesOn DEF MergeCleansUp, GatePlaces, Holding, Proposing, Merging, After, Underway, CallShape, repo, work, history
  <1> QED
    BY <1>11, <1>12, <1>13, <1>14

LEMMA MergeTellsOthersShapes ==
  ASSUME GateShape, NEW c \in Calls, MergeTellsOthers(c)
  PROVE  GateShape'
  <1> USE DEF GateShape
  <1>11. RepoShape'
    BY RepoFrame DEF MergeTellsOthers, repo, work
  <1>12. WorkShape'
    BY WorkFrame DEF MergeTellsOthers, repo, work
  <1>13. RecordShape'
    BY TargetMovedShapes DEF MergeTellsOthers, RecordShape
  <1>14. CallShape'
    BY LeaveShapes DEF MergeTellsOthers
  <1> QED
    BY <1>11, <1>12, <1>13, <1>14

LEMMA CloseBeginsShapes ==
  ASSUME GateShape, NEW c \in Calls, NEW a \in Attempts, CloseBegins(c, a)
  PROVE  GateShape'
  <1> USE DEF GateShape
  <1>1. Build(a) \in Builds /\ a # None
    BY AttemptParts
  <1> DEFINE mine == [at[c] EXCEPT !.id = a]
  <1>2. mine \in Locals /\ mine.id = a
    BY LocalFields DEF Locals
  <1>11. RepoShape'
    BY RepoFrame DEF CloseBegins, repo, work
  <1>12. WorkShape'
    BY WorkFrame DEF CloseBegins, repo, work
  <1>13. RecordShape'
    BY RecordFrame DEF CloseBegins, repo, work
  <1>14. CallShape'
    <2>1. stage' = [stage EXCEPT ![c] = "closing"] /\ at' = [at EXCEPT ![c] = mine]
      BY DEF CloseBegins, CallShape
    <2>2. gates' \subseteq {Process[d] : d \in Calls} \X Attempts /\ held' \subseteq Calls
      BY DEF CloseBegins, CallShape
    <2>3. "closing" \in GatePlaces /\ "closing" \notin Holding
      BY DEF GatePlaces, Holding, Proposing, Merging
    <2> HIDE DEF mine
    <2> QED
      BY <1>1, <1>2, <2>1, <2>2, <2>3, CallMoves
  <1> QED
    BY <1>11, <1>12, <1>13, <1>14

LEMMA CloseEndsShapes ==
  ASSUME GateShape, NEW c \in Calls, CloseEnds(c)
  PROVE  GateShape'
  <1> USE DEF GateShape
  <1>1. Underway(c) /\ at[c].id \in Attempts /\ WorkOf(c) \in Builds
    BY CallHasWork DEF CloseEnds, Underway
  <1>11. RepoShape'
    BY <1>1 DEF CloseEnds, RepoShape, WorkOf
  <1>12. WorkShape'
    BY <1>1 DEF CloseEnds, WorkShape, WorkOf, work
  <1>13. RecordShape'
    BY RecordFrame DEF CloseEnds, repo, work
  <1>14. CallShape'
    BY LeaveShapes DEF CloseEnds
  <1> QED
    BY <1>11, <1>12, <1>13, <1>14

LEMMA RecoveryReadsShapes ==
  ASSUME GateShape, NEW a \in Attempts, RecoveryReads(a)
  PROVE  GateShape'
  <1> USE DEF GateShape
  <1>11. RepoShape'
    BY RepoFrame DEF RecoveryReads, repo, work
  <1>12. WorkShape'
    BY WorkFrame DEF RecoveryReads, repo, work
  <1>13. RecordShape'
    BY RecordFields DEF RecoveryReads, RecordShape
  <1>14. CallShape'
    BY CallFrame DEF RecoveryReads, repo, work
  <1> QED
    BY <1>11, <1>12, <1>13, <1>14

LEMMA RecoverySettlesShapes ==
  ASSUME GateShape, RecoverySettles
  PROVE  GateShape'
  <1> USE DEF GateShape
  <1>1. recovery.id \in Attempts
    BY DEF RecoverySettles, RecordShape
  <1>2. recovery' \in {recovery, None}
    BY DEF RecoverySettles
  <1>3. RepoShape' /\ WorkShape' /\ RecordShape'
    <2>1. CASE GateActive(Serve, recovery.id)
      <3>1. UNCHANGED <<repo, work, losses, gate, removed>> /\ recovery' = None
        BY <2>1 DEF RecoverySettles
      <3> QED
        BY <3>1 DEF RepoShape, WorkShape, RecordShape, repo, work
    <2>2. CASE ~GateActive(Serve, recovery.id)
      <3>1. Settle(recovery.id, recovery.gate) /\ UNCHANGED <<target, branch, work, losses>>
        BY <2>2 DEF RecoverySettles
      <3> QED
        BY <1>1, <1>2, <3>1, SettleShapes DEF work
    <2> QED
      BY <2>1, <2>2
  <1>11. RepoShape'
    BY <1>3
  <1>12. WorkShape'
    BY <1>3
  <1>13. RecordShape'
    BY <1>3
  <1>14. CallShape'
    BY CallFrame DEF RecoverySettles, repo, work
  <1> QED
    BY <1>11, <1>12, <1>13, <1>14

LEMMA AnOwnersCommit ==
  ASSUME RepoShape, OwnerCommits
  PROVE  <<"owner", OwnerCommitted + 1>> \in Changes
  <2> DEFINE mine == {i \in DOMAIN target : target[i][1] = "owner"}
  <2>1. Len(target) \in Nat /\ DOMAIN target = 1..Len(target)
    BY DEF RepoShape
  <2>2. mine \in SUBSET (1..Len(target))
    BY <2>1
  <2>3. IsFiniteSet(1..Len(target))
    BY <2>1, FS_Interval
  <2> HIDE DEF mine
  <2>4. Cardinality(mine) \in Nat
    BY <2>2, <2>3, FS_Subset, FS_CardinalityType
  <2>5. OwnerCommitted \in Nat /\ OwnerCommitted < MaxOwnerCommits
    BY <2>4 DEF OwnerCommitted, OwnerCommits, mine
  <2>6. OwnerCommitted + 1 \in 1..MaxOwnerCommits
    BY <2>5, Bounds
  <2> QED
    BY <2>6 DEF Changes

LEMMA TargetMoves ==
  ASSUME [GateNext]_gateVars
  PROVE  \/ UNCHANGED target
         \/ \E c \in Calls : FastForward(c)
         \/ OwnerCommits
  <1>1. ASSUME NEW c \in Calls, CallSteps(c), ~FastForward(c)
        PROVE  UNCHANGED target
    BY <1>1 DEF CallSteps, VerifyPasses, VerifyFails, RebaseRecorded, RebaseRefused,
       RebaseStarts, RebaseEnds, RebaseFails, Proposed, Abandon, NotMerged, MergeStarts,
       FastForwardRefused, MergeRecorded, MergeCleansUp, MergeTellsOthers, CloseEnds, repo
  <1>2. ASSUME NEW c \in Calls, LoseGateTurn(c) \/ ClaimEnds(c)
        PROVE  UNCHANGED target
    BY <1>2 DEF LoseGateTurn, ClaimEnds, repo
  <1>3. ASSUME NEW c \in Calls, NEW a \in Attempts,
               SettleFirst(c, a) \/ Enter(c, a) \/ MergePassed(c, a) \/ CloseBegins(c, a)
        PROVE  UNCHANGED target
    BY <1>3 DEF SettleFirst, Enter, MergePassed, CloseBegins, repo
  <1>4. ASSUME NEW a \in Attempts, RecoveryReads(a)
        PROVE  UNCHANGED target
    BY <1>4 DEF RecoveryReads, repo
  <1>5. CASE RecoverySettles
    BY <1>5 DEF RecoverySettles, repo
  <1>6. ASSUME NEW b \in Builds, ContinueBuild(b) \/ WorkerEnds(b)
        PROVE  UNCHANGED target
    BY <1>6 DEF ContinueBuild, WorkerEnds, repo
  <1>7. ASSUME NEW p, ProcessDies(p)
        PROVE  UNCHANGED target
    BY <1>7 DEF ProcessDies, repo
  <1> QED
    BY <1>1, <1>2, <1>3, <1>4, <1>5, <1>6, <1>7 DEF GateNext, gateVars

LEMMA OwnerCommitsShapes ==
  ASSUME GateShape, OwnerCommits
  PROVE  GateShape'
  <1> USE DEF GateShape
  <1>1. <<"owner", OwnerCommitted + 1>> \in Changes
    BY AnOwnersCommit
  <1>11. RepoShape'
    BY <1>1, PrefixOfAppend DEF OwnerCommits, RepoShape
  <1>12. WorkShape'
    BY WorkFrame DEF OwnerCommits, repo, work
  <1>13. RecordShape'
    BY RecordFrame DEF OwnerCommits, repo, work
  <1>14. CallShape'
    BY CallFrame DEF OwnerCommits, repo, work
  <1> QED
    BY <1>11, <1>12, <1>13, <1>14

LEMMA ContinueBuildShapes ==
  ASSUME GateShape, NEW b \in Builds, ContinueBuild(b)
  PROVE  GateShape'
  <1> USE DEF GateShape
  <1>11. RepoShape'
    BY RepoFrame DEF ContinueBuild, repo, work
  <1>12. WorkShape'
    BY Bounds DEF ContinueBuild, WorkShape, Numbers, repo
  <1>13. RecordShape'
    BY RecordFrame DEF ContinueBuild, repo, work
  <1>14. CallShape'
    BY CallFrame DEF ContinueBuild, repo, work
  <1> QED
    BY <1>11, <1>12, <1>13, <1>14

LEMMA WorkerEndsShapes ==
  ASSUME GateShape, NEW b \in Builds, WorkerEnds(b)
  PROVE  GateShape'
  <1> USE DEF GateShape
  <1>11. RepoShape'
    <2>1. <<b, latest[b]>> \in Changes
      BY DEF WorkShape, Changes, Numbers
    <2>2. Append(branch[b], <<b, latest[b]>>) \in Seq(Changes)
      BY <2>1, PrefixOfAppend DEF RepoShape
    <2> QED
      BY <2>2 DEF WorkerEnds, RepoShape
  <1>12. WorkShape'
    BY DEF WorkerEnds, WorkShape
  <1>13. RecordShape'
    BY RecordFrame DEF WorkerEnds, repo, work
  <1>14. CallShape'
    BY CallFrame DEF WorkerEnds, repo, work
  <1> QED
    BY <1>11, <1>12, <1>13, <1>14

LEMMA LoseGateTurnShapes ==
  ASSUME GateShape, NEW c \in Calls, LoseGateTurn(c)
  PROVE  GateShape'
  <1> USE DEF GateShape
  <1>11. RepoShape'
    BY RepoFrame DEF LoseGateTurn, repo, work
  <1>12. WorkShape'
    BY Bounds DEF LoseGateTurn, WorkShape, repo, work
  <1>13. RecordShape'
    BY RecordFrame DEF LoseGateTurn, repo, work
  <1>14. CallShape'
    BY DEF LoseGateTurn, CallShape, Underway
  <1> QED
    BY <1>11, <1>12, <1>13, <1>14

LEMMA ProcessDiesShapes ==
  ASSUME GateShape, NEW p, ProcessDies(p)
  PROVE  GateShape'
  <1> USE DEF GateShape
  <1>11. RepoShape'
    BY RepoFrame DEF ProcessDies, repo, work
  <1>12. WorkShape'
    BY Bounds DEF ProcessDies, WorkShape, repo, work
  <1>13. RecordShape'
    BY DEF ProcessDies, RecordShape
  <1>14. CallShape'
    <2>1. Nowhere \in Locals /\ Nowhere.id = None
      BY DEF Nowhere, Locals, Heads
    <2>2. "done" \in GatePlaces /\ "done" \notin Holding
      BY DEF GatePlaces, Holding, Proposing, Merging
    <2>3. stage' \in [Calls -> GatePlaces] /\ at' \in [Calls -> Locals]
      BY <2>1, <2>2 DEF ProcessDies, CallShape
    <2>4. \A c \in Calls : \/ stage'[c] = stage[c] /\ at'[c] = at[c]
                           \/ stage'[c] = "done" /\ at'[c] = Nowhere
      BY DEF ProcessDies
    <2>5. \A c \in Calls : Underway(c)' <=> at'[c].id # None
      BY <2>1, <2>4 DEF CallShape, Underway
    <2>6. \A c \in Calls : stage'[c] \in Holding
            => at'[c].targetHead \in Seq(Changes) /\ at'[c].branchHead \in Seq(Changes)
      BY <2>2, <2>4 DEF CallShape
    <2>7. gates' \subseteq {Process[d] : d \in Calls} \X Attempts /\ held' \subseteq Calls
      BY DEF ProcessDies, CallShape
    <2> QED
      BY <2>3, <2>5, <2>6, <2>7 DEF CallShape
  <1> QED
    BY <1>11, <1>12, <1>13, <1>14

LEMMA ClaimEndsShapes ==
  ASSUME GateShape, NEW c \in Calls, ClaimEnds(c)
  PROVE  GateShape'
  <1> USE DEF GateShape
  <1>11. RepoShape'
    BY RepoFrame DEF ClaimEnds, repo, work
  <1>12. WorkShape'
    BY WorkFrame DEF ClaimEnds, repo, work
  <1>13. RecordShape'
    BY RecordFrame DEF ClaimEnds, repo, work
  <1>14. CallShape'
    BY DEF ClaimEnds, CallShape, Underway
  <1> QED
    BY <1>11, <1>12, <1>13, <1>14

LEMMA GateShapeInitially ==
  ASSUME GateInit
  PROVE  GateShape
  <1>1. <<>> \in Seq(Changes)
    OBVIOUS
  <1>2. \A b \in Builds : <<b, 0>> \in Changes
    BY Bounds DEF Changes, Numbers
  <1>3. ASSUME NEW b \in Builds
        PROVE  <<<<b, 0>>>> \in Seq(Changes)
    <2> DEFINE first == <<b, 0>>
    <2>1. first \in Changes
      BY <1>2
    <2> HIDE DEF first
    <2>2. <<first>> \in Seq(Changes)
      BY <2>1
    <2> QED
      BY <2>2 DEF first
  <1>4. branch \in [Builds -> Seq(Changes)]
    BY <1>3 DEF GateInit
  <1>5. RepoShape
    BY <1>1, <1>4 DEF GateInit, RepoShape
  <1>6. WorkShape
    BY Bounds DEF GateInit, WorkShape, Numbers
  <1>7. NoGate \in Records
    BY DEF NoGate, Records, Steps, SettledSteps, Heads
  <1>8. RecordShape
    BY <1>7 DEF GateInit, RecordShape
  <1>9. Nowhere \in Locals /\ Nowhere.id = None
    BY DEF Nowhere, Locals, Heads
  <1>10. CallShape
    BY <1>9 DEF GateInit, CallShape, GatePlaces, Holding, Proposing, Merging, Underway
  <1> QED
    BY <1>5, <1>6, <1>8, <1>10 DEF GateShape

LEMMA GateShapeStep ==
  ASSUME GateShape, [GateNext]_gateVars
  PROVE  GateShape'
  <1>1. CASE UNCHANGED gateVars
    BY <1>1, RepoFrame, WorkFrame, RecordFrame, CallFrame DEF gateVars, GateShape
  <1>2. ASSUME NEW c \in Calls, CallSteps(c)
        PROVE  GateShape'
    BY <1>2, VerifyPassesShapes, VerifyFailsShapes, RebaseRecordedShapes, RebaseRefusedShapes,
       RebaseStartsShapes, RebaseEndsShapes, RebaseFailsShapes, ProposedShapes, AbandonShapes,
       NotMergedShapes, MergeStartsShapes, FastForwardShapes, FastForwardRefusedShapes,
       MergeRecordedShapes, MergeCleansUpShapes, MergeTellsOthersShapes, CloseEndsShapes
    DEF CallSteps
  <1>3. ASSUME NEW c \in Calls, LoseGateTurn(c) \/ ClaimEnds(c)
        PROVE  GateShape'
    BY <1>3, LoseGateTurnShapes, ClaimEndsShapes
  <1>4. ASSUME NEW c \in Calls, NEW a \in Attempts,
               SettleFirst(c, a) \/ Enter(c, a) \/ MergePassed(c, a) \/ CloseBegins(c, a)
        PROVE  GateShape'
    BY <1>4, SettleFirstShapes, EnterShapes, MergePassedShapes, CloseBeginsShapes
  <1>5. ASSUME NEW a \in Attempts, RecoveryReads(a)
        PROVE  GateShape'
    BY <1>5, RecoveryReadsShapes
  <1>6. CASE RecoverySettles \/ OwnerCommits
    BY <1>6, RecoverySettlesShapes, OwnerCommitsShapes
  <1>7. ASSUME NEW b \in Builds, ContinueBuild(b) \/ WorkerEnds(b)
        PROVE  GateShape'
    BY <1>7, ContinueBuildShapes, WorkerEndsShapes
  <1>8. ASSUME NEW p \in {Process[c] : c \in Calls}, ProcessDies(p)
        PROVE  GateShape'
    BY <1>8, ProcessDiesShapes
  <1> QED
    BY <1>1, <1>2, <1>3, <1>4, <1>5, <1>6, <1>7, <1>8 DEF GateNext

LEMMA TargetGrows ==
  ASSUME GateShape, [GateNext]_gateVars
  PROVE  target' \in Seq(Changes) /\ IsPrefix(target, target')
  <1>1. target \in Seq(Changes) /\ target' \in Seq(Changes)
    BY GateShapeStep DEF GateShape, RepoShape
  <1>2. CASE UNCHANGED target
    BY <1>1, <1>2, PrefixReflexive
  <1>3. ASSUME NEW c \in Calls, FastForward(c)
        PROVE  IsPrefix(target, target')
    BY <1>3 DEF FastForward
  <1>4. CASE OwnerCommits
    <2>1. <<"owner", OwnerCommitted + 1>> \in Changes
      BY <1>4, AnOwnersCommit DEF GateShape
    <2> QED
      BY <1>1, <1>4, <2>1, PrefixOfAppend DEF OwnerCommits
  <1> QED
    BY <1>1, <1>2, <1>3, <1>4, TargetMoves

(* The target never loses a commit, whoever gates and whatever crashes.    *)
THEOREM TargetKeepsItsCommits == GateSpec => TargetOnlyGrows
  <1>1. GateInit => GateShape
    BY GateShapeInitially
  <1>2. GateShape /\ [GateNext]_gateVars => GateShape'
    BY GateShapeStep
  <1>3. GateShape /\ [GateNext]_gateVars => [IsPrefix(target, target')]_target
    BY TargetGrows
  <1> QED
    BY <1>1, <1>2, <1>3, PTL DEF GateSpec, TargetOnlyGrows

-----------------------------------------------------------------------------
(* Only verified heads land, as long as no two calls have the gates of one *)
(* build.                                                                  *)

LEMMA CallStillKnows ==
  ASSUME NEW d \in Calls, CallKnows(d), stage'[d] = stage[d], at'[d] = at[d],
         UNCHANGED <<latest, working>>, gone \subseteq gone', verified \subseteq verified',
         stage[d] \in Proposing => /\ branch'[WorkOf(d)] = branch[WorkOf(d)]
                                /\ marker'[WorkOf(d)] \in {marker[WorkOf(d)], None}
  PROVE  CallKnows(d)'
  BY DEF CallKnows, AttemptRests, Untouched, IsLatest, WorkOf, Build, Proposing

LEMMA GoneCallKnows ==
  ASSUME NEW c \in Calls, stage'[c] \in {"idle", "done", "moved", "cleaning", "telling", "closing"}
  PROVE  CallKnows(c)'
  BY DEF CallKnows, Proposing

LEMMA RecordStillKnows ==
  ASSUME NEW a \in Attempts, RecordKnows(a),
         UNCHANGED latest, gone \subseteq gone', verified \subseteq verified',
         gate'[a].step = "awaiting" =>
            gate[a].step = "awaiting" /\ gate'[a].branchHead = gate[a].branchHead
  PROVE  RecordKnows(a)'
  BY DEF RecordKnows, IsLatest

LEMMA WrittenRecordKnows ==
  ASSUME RecordShape, \A a \in Attempts : RecordKnows(a),
         NEW x \in Attempts, NEW g, Record(x, g), g.step # "awaiting",
         UNCHANGED latest, gone \subseteq gone', verified \subseteq verified'
  PROVE  \A a \in Attempts : RecordKnows(a)'
  <1>1. gate'[x] = g /\ \A a \in Attempts : a # x => gate'[a] = gate[a]
    BY DEF Record, RecordShape
  <1> QED
    BY <1>1, RecordStillKnows

(* A failure, an interruption and a merge are no approval to wait for.     *)
LEMMA FailedStep ==
  ASSUME RecordShape, CallShape, NEW c \in Calls, Underway(c), NEW step
  PROVE  /\ Failed(c, step).step = step /\ TargetMoved(c).step = "target_moved"
         /\ Failed(c, step).branchHead = at[c].branchHead
         /\ TargetMoved(c).branchHead = at[c].branchHead
         /\ Failed(c, step).merged = gate[at[c].id].merged
         /\ TargetMoved(c).merged = gate[at[c].id].merged
  <1>1. at[c].id \in Attempts
    BY CallHasWork
  <1>2. gate[at[c].id] \in Records
    BY <1>1, RecordFields
  <1> QED
    BY <1>2 DEF Failed, TargetMoved, Records

LEMMA MergedStep ==
  ASSUME NEW g \in Records
  PROVE  /\ Merged(g).step = "merged" /\ Merged(g).merged /\ Interrupted(g).step = "interrupted"
         /\ Merged(g).branchHead = g.branchHead /\ Interrupted(g).branchHead = g.branchHead
         /\ Interrupted(g).merged = g.merged
  BY DEF Merged, Interrupted, Records

LEMMA TargetMovedLeaves ==
  ASSUME NEW f \in [Attempts -> Records], NEW b, NEW a \in Attempts
  PROVE  /\ TargetMovedRecords(f, b)[a].step = f[a].step
         /\ TargetMovedRecords(f, b)[a].branchHead = f[a].branchHead
         /\ TargetMovedRecords(f, b)[a].merged = f[a].merged
         /\ TargetMovedRecords(f, b)[a].owner = f[a].owner
  <1>1. f[a] \in Records
    OBVIOUS
  <1>2. TargetMovedRecords(f, b)[a] \in {f[a], [f[a] EXCEPT !.needsRebase = TRUE]}
    BY DEF TargetMovedRecords
  <1> QED
    BY <1>1, <1>2 DEF Records

LEMMA SettleKnows ==
  ASSUME RecordShape, WorkShape, RepoShape, NEW a \in Attempts, NEW g, Settle(a, g),
         \A x \in Attempts : RecordKnows(x), UNCHANGED <<latest, verified>>
  PROVE  /\ \A x \in Attempts : RecordKnows(x)'
         /\ gone \subseteq gone'
         /\ \A b \in Builds : marker'[b] \in {marker[b], None}
  <1>1. gone \subseteq gone' /\ \A b \in Builds : marker'[b] \in {marker[b], None}
    BY DEF Settle, RepoShape
  <1>2. gate \in [Attempts -> Records] /\ gate[a] \in Records
    BY DEF RecordShape
  <1>3. Merged(gate[a]) \in Records /\ Merged(gate[a]).step = "merged"
        /\ Interrupted(gate[a]).step = "interrupted"
    BY <1>2, MergedShapes, MergedStep
  <1>4. CASE Record(a, Interrupted(gate[a]))
    BY <1>1, <1>3, <1>4, WrittenRecordKnows
  <1>5. CASE gate' = TargetMovedRecords([gate EXCEPT ![a] = Merged(gate[a])], Build(a))
    <2> DEFINE f == [gate EXCEPT ![a] = Merged(gate[a])]
    <2>1. f \in [Attempts -> Records] /\ f[a] = Merged(gate[a])
          /\ \A x \in Attempts : x # a => f[x] = gate[x]
      BY <1>2, <1>3
    <2>2. gate' = TargetMovedRecords(f, Build(a))
      BY <1>5
    <2> HIDE DEF f
    <2>3. \A x \in Attempts : gate'[x].step = f[x].step /\ gate'[x].branchHead = f[x].branchHead
      BY <2>1, <2>2, TargetMovedLeaves
    <2>4. ASSUME NEW x \in Attempts
          PROVE  gate'[x].step = "awaiting" =>
                   gate[x].step = "awaiting" /\ gate'[x].branchHead = gate[x].branchHead
      BY <1>3, <2>1, <2>3
    <2> QED
      BY <1>1, <2>4, RecordStillKnows
  <1> QED
    BY <1>1, <1>4, <1>5 DEF Settle

LEMMA SettleFirstKnows ==
  ASSUME GateShape, VerifiedInv, OneGatePerBuild', NEW c \in Calls, NEW a \in Attempts, SettleFirst(c, a)
  PROVE  VerifiedInv'
  <1> USE DEF GateShape, VerifiedInv
  <1>11. \A d \in Calls : CallKnows(d)'
    <2>1. gone \subseteq gone' /\ \A b \in Builds : marker'[b] \in {marker[b], None}
      BY SettleKnows DEF SettleFirst
    <2>2. ASSUME NEW d \in Calls, stage[d] \in Proposing
          PROVE  WorkOf(d) \in Builds
      BY <2>2, CallHasWork DEF Proposing, Underway
    <2> QED
      BY <2>1, <2>2, CallStillKnows DEF SettleFirst
  <1>13. \A x \in Attempts : RecordKnows(x)'
    BY SettleKnows DEF SettleFirst
  <1>14. OnlyVerifiedMerges'
    BY DEF SettleFirst, OnlyVerifiedMerges, history
  <1> QED
    BY <1>11, <1>13, <1>14

LEMMA EnterKnows ==
  ASSUME GateShape, VerifiedInv, OneGatePerBuild', NEW c \in Calls, NEW a \in Attempts, Enter(c, a)
  PROVE  VerifiedInv'
  <1> USE DEF GateShape, VerifiedInv
  <1>1. Build(a) \in Builds /\ a[2] \in Nat
    BY AttemptParts
  <1>2. ASSUME NEW d \in Calls, stage[d] \in Proposing
        PROVE  WorkOf(d) \in Builds
    BY <1>2, CallHasWork DEF Proposing, Underway
  <1>11. CallKnows(c)'
    <2>1. stage'[c] = "verifying"
          /\ at'[c] = [id |-> a, targetHead |-> target, branchHead |-> branch[Build(a)],
                       seen |-> branch[Build(a)]]
      BY DEF Enter, CallShape
    <2>2. WorkOf(c)' = Build(a) /\ IsLatest(at[c].id)' = IsLatest(a) /\ IsLatest(a)
          /\ Build(a) \notin working
      BY <2>1 DEF WorkOf, Build, IsLatest, Enter, Authorized, AtRest
    <2>3. marker'[Build(a)] = None /\ branch' = branch
      BY <1>1 DEF Enter, RepoShape
    <2>4. AttemptRests(c)'
      BY <1>1, <2>1, <2>2 DEF AttemptRests, IsLatest, Build, Enter
    <2> QED
      BY <2>1, <2>2, <2>3, <2>4 DEF CallKnows, Proposing
  <1>12. \A d \in Calls : d # c => CallKnows(d)'
    <2>1. \A d \in Calls : d # c => stage'[d] = stage[d] /\ at'[d] = at[d]
      BY DEF Enter, CallShape
    <2>2. \A b \in Builds : marker'[b] \in {marker[b], None}
      BY DEF Enter, RepoShape
    <2> QED
      BY <1>2, <2>1, <2>2, CallStillKnows DEF Enter
  <1>13. \A x \in Attempts : RecordKnows(x)'
    <2>1. gate[a] \in Records
      BY RecordFields
    <2> DEFINE g == [gate[a] EXCEPT !.step = "verifying", !.owner = c,
                      !.targetHead = target, !.branchHead = branch[Build(a)]]
    <2>2. g.step = "verifying"
      BY <2>1 DEF Records
    <2>3. Record(a, g)
      BY DEF Enter
    <2> HIDE DEF g
    <2> QED
      BY <2>2, <2>3, WrittenRecordKnows DEF Enter
  <1>14. OnlyVerifiedMerges'
    BY DEF Enter, OnlyVerifiedMerges, history
  <1> QED
    BY <1>11, <1>12, <1>13, <1>14

LEMMA VerifyPassesKnows ==
  ASSUME GateShape, VerifiedInv, OneGatePerBuild', NEW c \in Calls, VerifyPasses(c)
  PROVE  VerifiedInv'
  <1> USE DEF GateShape, VerifiedInv
  <1>11. CallKnows(c)'
    <2>1. stage'[c] = (IF stage[c] = "verifying" THEN "verified" ELSE "passed") /\ at' = at
      BY DEF VerifyPasses, CallShape
    <2>2. UNCHANGED <<branch, gone, latest, working>> /\ verified' = verified \cup RanOn(c)
      BY DEF VerifyPasses, repo, work
    <2>3. stage[c] \in {"verifying", "verifying_after"} /\ CallKnows(c)
      BY DEF VerifyPasses
    <2>4. Untouched(c) => at[c].branchHead \in verified'
      BY <2>2, <2>3 DEF CallKnows, Untouched, RanOn, WorkOf
    <2> QED
      BY <2>1, <2>2, <2>3, <2>4 DEF CallKnows, AttemptRests, Untouched, IsLatest, WorkOf, Build, Proposing
  <1>12. \A d \in Calls : d # c => CallKnows(d)'
    <2>1. \A d \in Calls : d # c => stage'[d] = stage[d] /\ at'[d] = at[d]
      BY DEF VerifyPasses, CallShape
    <2> QED
      BY <2>1, CallStillKnows DEF VerifyPasses, repo, work, history
  <1>13. \A x \in Attempts : RecordKnows(x)'
    BY RecordStillKnows DEF VerifyPasses, repo, work, history
  <1>14. OnlyVerifiedMerges'
    BY DEF VerifyPasses, OnlyVerifiedMerges
  <1> QED
    BY <1>11, <1>12, <1>13, <1>14

LEMMA VerifyFailsKnows ==
  ASSUME GateShape, VerifiedInv, OneGatePerBuild', NEW c \in Calls, VerifyFails(c)
  PROVE  VerifiedInv'
  <1> USE DEF GateShape, VerifiedInv
  <1>1. Underway(c) /\ at[c].id \in Attempts /\ WorkOf(c) \in Builds
    BY CallHasWork DEF VerifyFails, Underway
  <1>11. CallKnows(c)'
    BY GoneCallKnows DEF VerifyFails, CallShape, Leave
  <1>12. \A d \in Calls : d # c => CallKnows(d)'
    <2>1. \A d \in Calls : d # c => stage'[d] = stage[d] /\ at'[d] = at[d]
      BY DEF VerifyFails, CallShape, Leave
    <2> QED
      BY <2>1, CallStillKnows DEF VerifyFails, repo, work, history
  <1>13. \A x \in Attempts : RecordKnows(x)'
    <2>1. \E g : Record(at[c].id, g) /\ g.step # "awaiting"
      BY <1>1, FailedStep DEF VerifyFails
    <2> QED
      BY <1>1, <2>1, WrittenRecordKnows DEF VerifyFails, repo, work, history
  <1>14. OnlyVerifiedMerges'
    BY DEF VerifyFails, OnlyVerifiedMerges, history
  <1> QED
    BY <1>11, <1>12, <1>13, <1>14

LEMMA RebaseRecordedKnows ==
  ASSUME GateShape, VerifiedInv, OneGatePerBuild', NEW c \in Calls, RebaseRecorded(c)
  PROVE  VerifiedInv'
  <1> USE DEF GateShape, VerifiedInv
  <1>1. Underway(c) /\ at[c].id \in Attempts /\ WorkOf(c) \in Builds
    BY CallHasWork DEF RebaseRecorded, Underway
  <1>11. CallKnows(c)'
    <2>1. stage'[c] = "rebasing" /\ at'[c] = [at[c] EXCEPT !.targetHead = target]
      BY DEF RebaseRecorded, CallShape
    <2>2. at'[c].id = at[c].id /\ at'[c].branchHead = at[c].branchHead
      BY <2>1, LocalFields DEF Locals
    <2>3. stage[c] = "verified" /\ CallKnows(c) /\ UNCHANGED <<branch, gone, latest, working, verified>>
      BY DEF RebaseRecorded, repo, work, history
    <2> QED
      BY <2>1, <2>2, <2>3 DEF CallKnows, AttemptRests, Untouched, IsLatest, WorkOf, Build, Proposing
  <1>12. \A d \in Calls : d # c => CallKnows(d)'
    <2>1. \A d \in Calls : d # c => stage'[d] = stage[d] /\ at'[d] = at[d]
      BY DEF RebaseRecorded, CallShape
    <2> QED
      BY <2>1, CallStillKnows DEF RebaseRecorded, repo, work, history
  <1>13. \A x \in Attempts : RecordKnows(x)'
    <2>1. gate[at[c].id] \in Records
      BY <1>1, RecordFields
    <2> DEFINE g == [gate[at[c].id] EXCEPT !.step = "rebasing", !.targetHead = target]
    <2>2. g.step = "rebasing"
      BY <2>1 DEF Records
    <2>3. Record(at[c].id, g)
      BY DEF RebaseRecorded
    <2> HIDE DEF g
    <2> QED
      BY <1>1, <2>2, <2>3, WrittenRecordKnows DEF RebaseRecorded, repo, work, history
  <1>14. OnlyVerifiedMerges'
    BY DEF RebaseRecorded, OnlyVerifiedMerges, history
  <1> QED
    BY <1>11, <1>12, <1>13, <1>14

LEMMA RebaseRefusedKnows ==
  ASSUME GateShape, VerifiedInv, OneGatePerBuild', NEW c \in Calls, RebaseRefused(c)
  PROVE  VerifiedInv'
  <1> USE DEF GateShape, VerifiedInv
  <1>1. Underway(c) /\ at[c].id \in Attempts /\ WorkOf(c) \in Builds
    BY CallHasWork DEF RebaseRefused, Underway
  <1>11. CallKnows(c)'
    BY GoneCallKnows DEF RebaseRefused, CallShape, Leave
  <1>12. \A d \in Calls : d # c => CallKnows(d)'
    <2>1. \A d \in Calls : d # c => stage'[d] = stage[d] /\ at'[d] = at[d]
      BY DEF RebaseRefused, CallShape, Leave
    <2> QED
      BY <2>1, CallStillKnows DEF RebaseRefused, repo, work, history
  <1>13. \A x \in Attempts : RecordKnows(x)'
    <2>1. \E g : Record(at[c].id, g) /\ g.step # "awaiting"
      BY <1>1, FailedStep DEF RebaseRefused
    <2> QED
      BY <1>1, <2>1, WrittenRecordKnows DEF RebaseRefused, repo, work, history
  <1>14. OnlyVerifiedMerges'
    BY DEF RebaseRefused, OnlyVerifiedMerges, history
  <1> QED
    BY <1>11, <1>12, <1>13, <1>14

LEMMA RebaseStartsKnows ==
  ASSUME GateShape, VerifiedInv, OneGatePerBuild', NEW c \in Calls, RebaseStarts(c)
  PROVE  VerifiedInv'
  <1> USE DEF GateShape, VerifiedInv
  <1>1. Underway(c) /\ at[c].id \in Attempts /\ WorkOf(c) \in Builds
    BY CallHasWork DEF RebaseStarts, Underway
  <1>2. ASSUME NEW d \in Calls, stage[d] \in Proposing
        PROVE  WorkOf(d) \in Builds
    BY <1>2, CallHasWork DEF Proposing, Underway
  <1>3. ASSUME NEW d \in Calls, d # c, stage[d] \in Proposing
        PROVE  WorkOf(d) # WorkOf(c)
    BY <1>3 DEF OneGatePerBuild, Gating, Proposing, RebaseStarts
  <1>11. CallKnows(c)'
    <2>1. stage[c] = "rebasing" /\ CallKnows(c) /\ UNCHANGED <<branch, gone, latest, working, verified>>
      BY DEF RebaseStarts, work, history
    <2>2. at[c] \in Locals
      BY LocalFields
    <2>3. CASE IsPrefix(at[c].targetHead, branch[WorkOf(c)])
      <3>1. stage'[c] = "passed" /\ at'[c] = [at[c] EXCEPT !.branchHead = branch[WorkOf(c)]]
        BY <2>3 DEF RebaseStarts, CallShape, WorkOf
      <3>2. at'[c].id = at[c].id /\ at'[c].branchHead = branch[WorkOf(c)]
        BY <2>2, <3>1 DEF Locals
      <3> QED
        BY <2>1, <3>1, <3>2 DEF CallKnows, AttemptRests, Untouched, IsLatest, WorkOf, Build, Proposing
    <2>4. CASE ~IsPrefix(at[c].targetHead, branch[WorkOf(c)])
      <3>1. stage'[c] = "replaying" /\ at' = at
        BY <2>4 DEF RebaseStarts, CallShape, WorkOf
      <3> QED
        BY <2>1, <3>1 DEF CallKnows, AttemptRests, IsLatest, WorkOf, Build, Proposing
    <2> QED
      BY <2>3, <2>4
  <1>12. \A d \in Calls : d # c => CallKnows(d)'
    <2>1. \A d \in Calls : d # c => stage'[d] = stage[d] /\ at'[d] = at[d]
      BY DEF RebaseStarts, CallShape
    <2>2. \A b \in Builds : b # WorkOf(c) => marker'[b] = marker[b]
      BY DEF RebaseStarts, RepoShape, WorkOf
    <2> QED
      BY <1>2, <1>3, <2>1, <2>2, CallStillKnows DEF RebaseStarts, work, history
  <1>13. \A x \in Attempts : RecordKnows(x)'
    BY RecordStillKnows DEF RebaseStarts, repo, work, history
  <1>14. OnlyVerifiedMerges'
    BY DEF RebaseStarts, OnlyVerifiedMerges, history
  <1> QED
    BY <1>11, <1>12, <1>13, <1>14

LEMMA RebaseEndsKnows ==
  ASSUME GateShape, VerifiedInv, OneGatePerBuild', NEW c \in Calls, RebaseEnds(c)
  PROVE  VerifiedInv'
  <1> USE DEF GateShape, VerifiedInv
  <1>1. Underway(c) /\ at[c].id \in Attempts /\ WorkOf(c) \in Builds
    BY CallHasWork DEF RebaseEnds, Underway
  <1>2. ASSUME NEW d \in Calls, stage[d] \in Proposing
        PROVE  WorkOf(d) \in Builds
    BY <1>2, CallHasWork DEF Proposing, Underway
  <1>3. ASSUME NEW d \in Calls, d # c, stage[d] \in Proposing
        PROVE  WorkOf(d) # WorkOf(c)
    BY <1>3 DEF OneGatePerBuild, Gating, Proposing, RebaseEnds
  <1>11. CallKnows(c)'
    <2> DEFINE head == Replayed(branch[WorkOf(c)], at[c].targetHead)
    <2>1. stage'[c] = "verifying_after" /\ at'[c] = [at[c] EXCEPT !.branchHead = head, !.seen = head]
      BY DEF RebaseEnds, CallShape, WorkOf
    <2>2. branch'[WorkOf(c)] = head /\ marker'[WorkOf(c)] = None
      BY <1>1 DEF RebaseEnds, RepoShape, WorkOf
    <2> HIDE DEF head
    <2>3. at'[c].id = at[c].id /\ at'[c].branchHead = head /\ at'[c].seen = head
      BY <2>1, LocalFields DEF Locals
    <2>4. stage[c] = "replaying" /\ CallKnows(c) /\ UNCHANGED <<gone, latest, working, verified>>
      BY DEF RebaseEnds, work, history
    <2> QED
      BY <2>1, <2>2, <2>3, <2>4 DEF CallKnows, AttemptRests, IsLatest, WorkOf, Build, Proposing
  <1>12. \A d \in Calls : d # c => CallKnows(d)'
    <2>1. \A d \in Calls : d # c => stage'[d] = stage[d] /\ at'[d] = at[d]
      BY DEF RebaseEnds, CallShape
    <2>2. \A b \in Builds : b # WorkOf(c) => marker'[b] = marker[b] /\ branch'[b] = branch[b]
      BY DEF RebaseEnds, RepoShape, WorkOf
    <2> QED
      BY <1>2, <1>3, <2>1, <2>2, CallStillKnows DEF RebaseEnds, work, history
  <1>13. \A x \in Attempts : RecordKnows(x)'
    <2>1. ASSUME NEW x \in Attempts, gate'[x].step = "awaiting"
          PROVE  gate[x].step = "awaiting" /\ gate'[x].branchHead = gate[x].branchHead
      <3>1. gate[x] \in Records
        BY RecordFields
      <3>2. x # at[c].id
        BY <2>1, <3>1 DEF RebaseEnds, Records
      <3>3. gate'[x] \in {gate[x], [gate[x] EXCEPT !.needsRebase = FALSE]}
        BY <3>2 DEF RebaseEnds
      <3> QED
        BY <2>1, <3>1, <3>3 DEF Records
    <2> QED
      BY <2>1, RecordStillKnows DEF RebaseEnds, work, history
  <1>14. OnlyVerifiedMerges'
    BY DEF RebaseEnds, OnlyVerifiedMerges, history
  <1> QED
    BY <1>11, <1>12, <1>13, <1>14

LEMMA RebaseFailsKnows ==
  ASSUME GateShape, VerifiedInv, OneGatePerBuild', NEW c \in Calls, RebaseFails(c)
  PROVE  VerifiedInv'
  <1> USE DEF GateShape, VerifiedInv
  <1>1. Underway(c) /\ at[c].id \in Attempts /\ WorkOf(c) \in Builds
    BY CallHasWork DEF RebaseFails, Underway
  <1>2. ASSUME NEW d \in Calls, stage[d] \in Proposing
        PROVE  WorkOf(d) \in Builds
    BY <1>2, CallHasWork DEF Proposing, Underway
  <1>11. CallKnows(c)'
    BY GoneCallKnows DEF RebaseFails, CallShape, Leave
  <1>12. \A d \in Calls : d # c => CallKnows(d)'
    <2>1. \A d \in Calls : d # c => stage'[d] = stage[d] /\ at'[d] = at[d]
      BY DEF RebaseFails, CallShape, Leave
    <2>2. \A b \in Builds : marker'[b] \in {marker[b], None}
      BY DEF RebaseFails, RepoShape
    <2> QED
      BY <1>2, <2>1, <2>2, CallStillKnows DEF RebaseFails, work, history
  <1>13. \A x \in Attempts : RecordKnows(x)'
    <2>1. \E g : Record(at[c].id, g) /\ g.step # "awaiting"
      BY <1>1, FailedStep DEF RebaseFails
    <2> QED
      BY <1>1, <2>1, WrittenRecordKnows DEF RebaseFails, repo, work, history
  <1>14. OnlyVerifiedMerges'
    BY DEF RebaseFails, OnlyVerifiedMerges, history
  <1> QED
    BY <1>11, <1>12, <1>13, <1>14

LEMMA ProposedKnows ==
  ASSUME GateShape, VerifiedInv, OneGatePerBuild', NEW c \in Calls, Proposed(c)
  PROVE  VerifiedInv'
  <1> USE DEF GateShape, VerifiedInv
  <1>1. Underway(c) /\ at[c].id \in Attempts /\ WorkOf(c) \in Builds
    BY CallHasWork DEF Proposed, Underway
  <1>11. CallKnows(c)'
    <2>1. stage[c] = "passed" /\ stage'[c] = "approved" /\ CallKnows(c) /\ at' = at
      BY DEF Proposed, CallShape
    <2> QED
      BY <2>1 DEF Proposed, repo, work, history, CallKnows, AttemptRests, Untouched, IsLatest,
         WorkOf, Build, Proposing
  <1>12. \A d \in Calls : d # c => CallKnows(d)'
    <2>1. \A d \in Calls : d # c => stage'[d] = stage[d] /\ at'[d] = at[d]
      BY DEF Proposed, CallShape
    <2> QED
      BY <2>1, CallStillKnows DEF Proposed, repo, work, history
  <1>13. \A x \in Attempts : RecordKnows(x)'
    <2> DEFINE g == [gate[at[c].id] EXCEPT !.step = "awaiting", !.owner = None,
                      !.targetHead = at[c].targetHead, !.branchHead = at[c].branchHead,
                      !.needsRebase = FALSE]
    <2>1. gate[at[c].id] \in Records
      BY <1>1, RecordFields
    <2>2. g.step = "awaiting" /\ g.branchHead = at[c].branchHead
      BY <2>1 DEF Records
    <2>3. Record(at[c].id, g)
      BY DEF Proposed
    <2> HIDE DEF g
    <2>4. PICK a \in Attempts : a = at[c].id
      BY <1>1
    <2>5. gate'[a] = g /\ \A x \in Attempts : x # a => gate'[x] = gate[x]
      BY <2>3, <2>4 DEF Record, RecordShape
    <2>6. UNCHANGED <<gone, latest, verified>> /\ stage[c] = "passed" /\ CallKnows(c)
      BY DEF Proposed, repo, work, history
    <2>7. RecordKnows(a)'
      BY <2>2, <2>4, <2>5, <2>6 DEF RecordKnows, CallKnows, AttemptRests, Untouched, IsLatest,
         WorkOf, Build, Proposing
    <2> QED
      BY <2>5, <2>6, <2>7, RecordStillKnows
  <1>14. OnlyVerifiedMerges'
    BY DEF Proposed, OnlyVerifiedMerges, history
  <1> QED
    BY <1>11, <1>12, <1>13, <1>14

LEMMA AbandonKnows ==
  ASSUME GateShape, VerifiedInv, OneGatePerBuild', NEW c \in Calls, Abandon(c)
  PROVE  VerifiedInv'
  <1> USE DEF GateShape, VerifiedInv
  <1>11. CallKnows(c)'
    BY GoneCallKnows DEF Abandon, CallShape, Leave
  <1>12. \A d \in Calls : d # c => CallKnows(d)'
    <2>1. \A d \in Calls : d # c => stage'[d] = stage[d] /\ at'[d] = at[d]
      BY DEF Abandon, CallShape, Leave
    <2> QED
      BY <2>1, CallStillKnows DEF Abandon, repo, work, history
  <1>13. \A x \in Attempts : RecordKnows(x)'
    BY RecordStillKnows DEF Abandon, repo, work, history
  <1>14. OnlyVerifiedMerges'
    BY DEF Abandon, OnlyVerifiedMerges, history
  <1> QED
    BY <1>11, <1>12, <1>13, <1>14

LEMMA MergePassedKnows ==
  ASSUME GateShape, VerifiedInv, OneGatePerBuild', NEW c \in Calls, NEW a \in Attempts, MergePassed(c, a)
  PROVE  VerifiedInv'
  <1> USE DEF GateShape, VerifiedInv
  <1>1. Build(a) \in Builds /\ a[2] \in Nat
    BY AttemptParts
  <1>11. CallKnows(c)'
    <2>1. stage'[c] = "approved" /\ at'[c].id = a /\ at'[c].branchHead = gate[a].branchHead
      BY DEF MergePassed, CallShape, Nowhere
    <2>2. gate[a].step = "awaiting" /\ RecordKnows(a) /\ IsLatest(a) /\ Build(a) \notin working
      BY DEF MergePassed, PassedProposal, Authorized, AtRest, IsLatest
    <2>3. UNCHANGED <<gone, latest, working, verified>>
      BY DEF MergePassed, repo, work, history
    <2>4. AttemptRests(c)'
      BY <1>1, <2>1, <2>2, <2>3 DEF AttemptRests, IsLatest, WorkOf, Build
    <2> QED
      BY <2>1, <2>2, <2>3, <2>4 DEF CallKnows, RecordKnows, Untouched, IsLatest, WorkOf, Build, Proposing
  <1>12. \A d \in Calls : d # c => CallKnows(d)'
    <2>1. \A d \in Calls : d # c => stage'[d] = stage[d] /\ at'[d] = at[d]
      BY DEF MergePassed, CallShape
    <2> QED
      BY <2>1, CallStillKnows DEF MergePassed, repo, work, history
  <1>13. \A x \in Attempts : RecordKnows(x)'
    BY RecordStillKnows DEF MergePassed, repo, work, history
  <1>14. OnlyVerifiedMerges'
    BY DEF MergePassed, OnlyVerifiedMerges, history
  <1> QED
    BY <1>11, <1>12, <1>13, <1>14

LEMMA NotMergedKnows ==
  ASSUME GateShape, VerifiedInv, OneGatePerBuild', NEW c \in Calls, NotMerged(c)
  PROVE  VerifiedInv'
  <1> USE DEF GateShape, VerifiedInv
  <1>11. CallKnows(c)'
    BY GoneCallKnows DEF NotMerged, CallShape
  <1>12. \A d \in Calls : d # c => CallKnows(d)'
    <2>1. \A d \in Calls : d # c => stage'[d] = stage[d] /\ at'[d] = at[d]
      BY DEF NotMerged, CallShape
    <2> QED
      BY <2>1, CallStillKnows DEF NotMerged, repo, work, history
  <1>13. \A x \in Attempts : RecordKnows(x)'
    BY RecordStillKnows DEF NotMerged, repo, work, history
  <1>14. OnlyVerifiedMerges'
    BY DEF NotMerged, OnlyVerifiedMerges, history
  <1> QED
    BY <1>11, <1>12, <1>13, <1>14

LEMMA MergeStartsKnows ==
  ASSUME GateShape, VerifiedInv, OneGatePerBuild', NEW c \in Calls, MergeStarts(c)
  PROVE  VerifiedInv'
  <1> USE DEF GateShape, VerifiedInv
  <1>1. Underway(c) /\ at[c].id \in Attempts /\ WorkOf(c) \in Builds
    BY CallHasWork DEF MergeStarts, Underway
  <1>11. CallKnows(c)'
    <2>1. CASE Leave(c)
      BY <2>1, GoneCallKnows DEF Leave, CallShape
    <2>2. CASE ~Leave(c)
      <3>1. stage'[c] = "merging" /\ at' = at /\ WorkOf(c) \notin gone
        BY <2>2 DEF MergeStarts, CallShape, WorkOf
      <3>2. stage[c] = "approved" /\ CallKnows(c) /\ IsLatest(at[c].id) /\ verified' = verified
        BY DEF MergeStarts, MayMerge, Authorized, history
      <3> QED
        BY <3>1, <3>2 DEF CallKnows, Untouched, Proposing
    <2> QED
      BY <2>1, <2>2
  <1>12. \A d \in Calls : d # c => CallKnows(d)'
    <2>1. \A d \in Calls : d # c => stage'[d] = stage[d] /\ at'[d] = at[d]
      BY DEF MergeStarts, CallShape, Leave
    <2> QED
      BY <2>1, CallStillKnows DEF MergeStarts, repo, work, history
  <1>13. \A x \in Attempts : RecordKnows(x)'
    <2>1. Failed(c, "refused").step # "awaiting" /\ TargetMoved(c).step # "awaiting"
      BY <1>1, FailedStep
    <2>2. [gate[at[c].id] EXCEPT !.step = "merging", !.owner = c].step # "awaiting"
      <3>1. gate[at[c].id] \in Records
        BY <1>1, RecordFields
      <3> QED
        BY <3>1 DEF Records
    <2>3. \E g : Record(at[c].id, g) /\ g.step # "awaiting"
      BY <2>1, <2>2 DEF MergeStarts
    <2> QED
      BY <1>1, <2>3, WrittenRecordKnows DEF MergeStarts, repo, work, history
  <1>14. OnlyVerifiedMerges'
    BY DEF MergeStarts, OnlyVerifiedMerges, history
  <1> QED
    BY <1>11, <1>12, <1>13, <1>14

LEMMA FastForwardKnows ==
  ASSUME GateShape, VerifiedInv, OneGatePerBuild', NEW c \in Calls, FastForward(c)
  PROVE  VerifiedInv'
  <1> USE DEF GateShape, VerifiedInv
  <1>11. CallKnows(c)'
    BY GoneCallKnows DEF FastForward, CallShape
  <1>12. \A d \in Calls : d # c => CallKnows(d)'
    <2>1. \A d \in Calls : d # c => stage'[d] = stage[d] /\ at'[d] = at[d]
      BY DEF FastForward, CallShape
    <2> QED
      BY <2>1, CallStillKnows DEF FastForward, repo, work, history
  <1>13. \A x \in Attempts : RecordKnows(x)'
    BY RecordStillKnows DEF FastForward, repo, work, history
  <1>14. OnlyVerifiedMerges'
    <2>1. stage[c] = "merging" /\ CallKnows(c)
      BY DEF FastForward
    <2>2. at[c].branchHead \in verified
      BY <2>1 DEF CallKnows
    <2> QED
      BY <2>2 DEF FastForward, OnlyVerifiedMerges
  <1> QED
    BY <1>11, <1>12, <1>13, <1>14

LEMMA FastForwardRefusedKnows ==
  ASSUME GateShape, VerifiedInv, OneGatePerBuild', NEW c \in Calls, FastForwardRefused(c)
  PROVE  VerifiedInv'
  <1> USE DEF GateShape, VerifiedInv
  <1>1. Underway(c) /\ at[c].id \in Attempts /\ WorkOf(c) \in Builds
    BY CallHasWork DEF FastForwardRefused, Underway
  <1>11. CallKnows(c)'
    BY GoneCallKnows DEF FastForwardRefused, CallShape, Leave
  <1>12. \A d \in Calls : d # c => CallKnows(d)'
    <2>1. \A d \in Calls : d # c => stage'[d] = stage[d] /\ at'[d] = at[d]
      BY DEF FastForwardRefused, CallShape, Leave
    <2> QED
      BY <2>1, CallStillKnows DEF FastForwardRefused, repo, work, history
  <1>13. \A x \in Attempts : RecordKnows(x)'
    <2>1. \E g : Record(at[c].id, g) /\ g.step # "awaiting"
      BY <1>1, FailedStep DEF FastForwardRefused
    <2> QED
      BY <1>1, <2>1, WrittenRecordKnows DEF FastForwardRefused, repo, work, history
  <1>14. OnlyVerifiedMerges'
    BY DEF FastForwardRefused, OnlyVerifiedMerges, history
  <1> QED
    BY <1>11, <1>12, <1>13, <1>14

LEMMA MergeRecordedKnows ==
  ASSUME GateShape, VerifiedInv, OneGatePerBuild', NEW c \in Calls, MergeRecorded(c)
  PROVE  VerifiedInv'
  <1> USE DEF GateShape, VerifiedInv
  <1>1. Underway(c) /\ at[c].id \in Attempts /\ WorkOf(c) \in Builds
    BY CallHasWork DEF MergeRecorded, Underway
  <1>11. CallKnows(c)'
    BY GoneCallKnows DEF MergeRecorded, CallShape
  <1>12. \A d \in Calls : d # c => CallKnows(d)'
    <2>1. \A d \in Calls : d # c => stage'[d] = stage[d] /\ at'[d] = at[d]
      BY DEF MergeRecorded, CallShape
    <2> QED
      BY <2>1, CallStillKnows DEF MergeRecorded, repo, work, history
  <1>13. \A x \in Attempts : RecordKnows(x)'
    <2>1. Merged(gate[at[c].id]).step # "awaiting"
      BY <1>1, RecordFields, MergedStep
    <2> QED
      BY <1>1, <2>1, WrittenRecordKnows DEF MergeRecorded, repo, work, history
  <1>14. OnlyVerifiedMerges'
    BY DEF MergeRecorded, OnlyVerifiedMerges, history
  <1> QED
    BY <1>11, <1>12, <1>13, <1>14

LEMMA MergeCleansUpKnows ==
  ASSUME GateShape, VerifiedInv, OneGatePerBuild', NEW c \in Calls, MergeCleansUp(c)
  PROVE  VerifiedInv'
  <1> USE DEF GateShape, VerifiedInv
  <1>2. ASSUME NEW d \in Calls, stage[d] \in Proposing
        PROVE  WorkOf(d) \in Builds
    BY <1>2, CallHasWork DEF Proposing, Underway
  <1>11. CallKnows(c)'
    BY GoneCallKnows DEF MergeCleansUp, CallShape
  <1>12. \A d \in Calls : d # c => CallKnows(d)'
    <2>1. \A d \in Calls : d # c => stage'[d] = stage[d] /\ at'[d] = at[d]
      BY DEF MergeCleansUp, CallShape
    <2>2. \A b \in Builds : marker'[b] \in {marker[b], None}
      BY DEF MergeCleansUp, RepoShape
    <2>3. gone \subseteq gone'
      BY DEF MergeCleansUp
    <2> QED
      BY <1>2, <2>1, <2>2, <2>3, CallStillKnows DEF MergeCleansUp, work, history
  <1>13. \A x \in Attempts : RecordKnows(x)'
    <2>1. gone \subseteq gone'
      BY DEF MergeCleansUp
    <2> QED
      BY <2>1, RecordStillKnows DEF MergeCleansUp, work, history
  <1>14. OnlyVerifiedMerges'
    BY DEF MergeCleansUp, OnlyVerifiedMerges, history
  <1> QED
    BY <1>11, <1>12, <1>13, <1>14

LEMMA MergeTellsOthersKnows ==
  ASSUME GateShape, VerifiedInv, OneGatePerBuild', NEW c \in Calls, MergeTellsOthers(c)
  PROVE  VerifiedInv'
  <1> USE DEF GateShape, VerifiedInv
  <1>11. CallKnows(c)'
    BY GoneCallKnows DEF MergeTellsOthers, CallShape, Leave
  <1>12. \A d \in Calls : d # c => CallKnows(d)'
    <2>1. \A d \in Calls : d # c => stage'[d] = stage[d] /\ at'[d] = at[d]
      BY DEF MergeTellsOthers, CallShape, Leave
    <2> QED
      BY <2>1, CallStillKnows DEF MergeTellsOthers, repo, work, history
  <1>13. \A x \in Attempts : RecordKnows(x)'
    <2>1. gate \in [Attempts -> Records] /\ gate' = TargetMovedRecords(gate, WorkOf(c))
      BY DEF MergeTellsOthers, RecordShape, WorkOf
    <2>2. \A x \in Attempts : gate'[x].step = gate[x].step /\ gate'[x].branchHead = gate[x].branchHead
      BY <2>1, TargetMovedLeaves
    <2> QED
      BY <2>2, RecordStillKnows DEF MergeTellsOthers, repo, work, history
  <1>14. OnlyVerifiedMerges'
    BY DEF MergeTellsOthers, OnlyVerifiedMerges, history
  <1> QED
    BY <1>11, <1>12, <1>13, <1>14

LEMMA CloseBeginsKnows ==
  ASSUME GateShape, VerifiedInv, OneGatePerBuild', NEW c \in Calls, NEW a \in Attempts, CloseBegins(c, a)
  PROVE  VerifiedInv'
  <1> USE DEF GateShape, VerifiedInv
  <1>11. CallKnows(c)'
    BY GoneCallKnows DEF CloseBegins, CallShape
  <1>12. \A d \in Calls : d # c => CallKnows(d)'
    <2>1. \A d \in Calls : d # c => stage'[d] = stage[d] /\ at'[d] = at[d]
      BY DEF CloseBegins, CallShape
    <2> QED
      BY <2>1, CallStillKnows DEF CloseBegins, repo, work, history
  <1>13. \A x \in Attempts : RecordKnows(x)'
    BY RecordStillKnows DEF CloseBegins, repo, work, history
  <1>14. OnlyVerifiedMerges'
    BY DEF CloseBegins, OnlyVerifiedMerges, history
  <1> QED
    BY <1>11, <1>12, <1>13, <1>14

LEMMA CloseEndsKnows ==
  ASSUME GateShape, VerifiedInv, OneGatePerBuild', NEW c \in Calls, CloseEnds(c)
  PROVE  VerifiedInv'
  <1> USE DEF GateShape, VerifiedInv
  <1>2. ASSUME NEW d \in Calls, stage[d] \in Proposing
        PROVE  WorkOf(d) \in Builds
    BY <1>2, CallHasWork DEF Proposing, Underway
  <1>11. CallKnows(c)'
    BY GoneCallKnows DEF CloseEnds, CallShape, Leave
  <1>12. \A d \in Calls : d # c => CallKnows(d)'
    <2>1. \A d \in Calls : d # c => stage'[d] = stage[d] /\ at'[d] = at[d]
      BY DEF CloseEnds, CallShape, Leave
    <2>2. \A b \in Builds : marker'[b] \in {marker[b], None}
      BY DEF CloseEnds, RepoShape
    <2>3. gone \subseteq gone'
      BY DEF CloseEnds
    <2> QED
      BY <1>2, <2>1, <2>2, <2>3, CallStillKnows DEF CloseEnds, work, history
  <1>13. \A x \in Attempts : RecordKnows(x)'
    <2>1. gone \subseteq gone'
      BY DEF CloseEnds
    <2> QED
      BY <2>1, RecordStillKnows DEF CloseEnds, work, history
  <1>14. OnlyVerifiedMerges'
    BY DEF CloseEnds, OnlyVerifiedMerges, history
  <1> QED
    BY <1>11, <1>12, <1>13, <1>14

LEMMA RecoveryReadsKnows ==
  ASSUME GateShape, VerifiedInv, OneGatePerBuild', NEW a \in Attempts, RecoveryReads(a)
  PROVE  VerifiedInv'
  <1> USE DEF GateShape, VerifiedInv
  <1>11. \A d \in Calls : CallKnows(d)'
    BY CallStillKnows DEF RecoveryReads, repo, work, history
  <1>13. \A x \in Attempts : RecordKnows(x)'
    BY RecordStillKnows DEF RecoveryReads, repo, work, history
  <1>14. OnlyVerifiedMerges'
    BY DEF RecoveryReads, OnlyVerifiedMerges, history
  <1> QED
    BY <1>11, <1>13, <1>14

LEMMA RecoverySettlesKnows ==
  ASSUME GateShape, VerifiedInv, OneGatePerBuild', RecoverySettles
  PROVE  VerifiedInv'
  <1> USE DEF GateShape, VerifiedInv
  <1>2. ASSUME NEW d \in Calls, stage[d] \in Proposing
        PROVE  WorkOf(d) \in Builds
    BY <1>2, CallHasWork DEF Proposing, Underway
  <1>3. /\ \A x \in Attempts : RecordKnows(x)'
        /\ gone \subseteq gone' /\ branch' = branch
        /\ \A b \in Builds : marker'[b] \in {marker[b], None}
    <2>1. CASE GateActive(Serve, recovery.id)
      <3>1. UNCHANGED <<repo, gate, latest, verified>>
        BY <2>1 DEF RecoverySettles, work, history
      <3> QED
        BY <3>1, RecordStillKnows DEF repo
    <2>2. CASE ~GateActive(Serve, recovery.id)
      <3>1. Settle(recovery.id, recovery.gate) /\ UNCHANGED <<branch, latest, verified>>
        BY <2>2 DEF RecoverySettles, work, history
      <3>2. recovery.id \in Attempts
        BY DEF RecoverySettles, RecordShape
      <3> QED
        BY <3>1, <3>2, SettleKnows
    <2> QED
      BY <2>1, <2>2
  <1>11. \A d \in Calls : CallKnows(d)'
    BY <1>2, <1>3, CallStillKnows DEF RecoverySettles, work, history
  <1>13. \A x \in Attempts : RecordKnows(x)'
    BY <1>3
  <1>14. OnlyVerifiedMerges'
    BY DEF RecoverySettles, OnlyVerifiedMerges, history
  <1> QED
    BY <1>11, <1>13, <1>14

LEMMA OwnerCommitsKnows ==
  ASSUME GateShape, VerifiedInv, OneGatePerBuild', OwnerCommits
  PROVE  VerifiedInv'
  <1> USE DEF GateShape, VerifiedInv
  <1>11. \A d \in Calls : CallKnows(d)'
    BY CallStillKnows DEF OwnerCommits, repo, work, history
  <1>13. \A x \in Attempts : RecordKnows(x)'
    BY RecordStillKnows DEF OwnerCommits, repo, work, history
  <1>14. OnlyVerifiedMerges'
    BY DEF OwnerCommits, OnlyVerifiedMerges, history
  <1> QED
    BY <1>11, <1>13, <1>14

LEMMA ContinueBuildKnows ==
  ASSUME GateShape, VerifiedInv, OneGatePerBuild', NEW b \in Builds, ContinueBuild(b)
  PROVE  VerifiedInv'
  <1> USE DEF GateShape, VerifiedInv
  <1>11. \A d \in Calls : CallKnows(d)'
    <2>1. ASSUME NEW d \in Calls
          PROVE  CallKnows(d)'
      <3>1. CallKnows(d) /\ UNCHANGED <<repo, stage, at, verified>>
        BY DEF ContinueBuild, history
      <3>2. CASE stage[d] \in Proposing \cup {"approved"}
        <4>1. WorkOf(d) \in Builds /\ at[d].id[2] \in Nat /\ latest[WorkOf(d)] \in Nat
          BY <3>2, CallHasWork, AttemptParts, Bounds DEF Proposing, Underway, WorkShape, Numbers
        <4>2. at[d].id[2] <= latest[WorkOf(d)]
          BY <3>1, <3>2 DEF CallKnows, AttemptRests
        <4>3. CASE WorkOf(d) = b
          <5>1. latest'[WorkOf(d)] = latest[WorkOf(d)] + 1
            BY <4>1, <4>3 DEF ContinueBuild, WorkShape
          <5>2. at'[d].id[2] <= latest'[WorkOf(d)] /\ at'[d].id[2] # latest'[WorkOf(d)]
            BY <3>1, <4>1, <4>2, <5>1
          <5>3. ~IsLatest(at[d].id)' /\ AttemptRests(d)'
            BY <3>1, <5>2 DEF IsLatest, AttemptRests, WorkOf, Build
          <5> QED
            BY <3>1, <3>2, <5>3 DEF CallKnows, Untouched, WorkOf, repo, Proposing
        <4>4. CASE WorkOf(d) # b
          <5>1. latest'[WorkOf(d)] = latest[WorkOf(d)]
                /\ (WorkOf(d) \in working' <=> WorkOf(d) \in working)
            BY <4>1, <4>4 DEF ContinueBuild, WorkShape
          <5> QED
            BY <3>1, <5>1 DEF CallKnows, Untouched, AttemptRests, IsLatest, WorkOf, Build, repo
        <4> QED
          BY <4>3, <4>4
      <3>3. CASE stage[d] \notin Proposing \cup {"approved"}
        BY <3>1, <3>3 DEF CallKnows, Proposing
      <3> QED
        BY <3>2, <3>3
    <2> QED
      BY <2>1
  <1>13. \A x \in Attempts : RecordKnows(x)'
    <2>1. ASSUME NEW x \in Attempts
          PROVE  RecordKnows(x)'
      <3>1. RecordKnows(x) /\ UNCHANGED <<gate, gone, verified>>
        BY DEF ContinueBuild, repo, history
      <3>2. Build(x) \in Builds /\ x[2] \in Nat /\ latest[Build(x)] \in Nat
        BY AttemptParts, Bounds DEF WorkShape, Numbers
      <3>3. CASE Build(x) = b
        <4>1. latest'[Build(x)] = latest[Build(x)] + 1
          BY <3>2, <3>3 DEF ContinueBuild, WorkShape
        <4>2. x[2] <= latest[Build(x)] => x[2] <= latest'[Build(x)] /\ x[2] # latest'[Build(x)]
          BY <3>2, <4>1
        <4> QED
          BY <3>1, <4>2 DEF RecordKnows, IsLatest
      <3>4. CASE Build(x) # b
        <4>1. latest'[Build(x)] = latest[Build(x)]
          BY <3>2, <3>4 DEF ContinueBuild, WorkShape
        <4> QED
          BY <3>1, <4>1 DEF RecordKnows, IsLatest
      <3> QED
        BY <3>3, <3>4
    <2> QED
      BY <2>1
  <1>14. OnlyVerifiedMerges'
    BY DEF ContinueBuild, OnlyVerifiedMerges, history
  <1> QED
    BY <1>11, <1>13, <1>14

LEMMA WorkerEndsKnows ==
  ASSUME GateShape, VerifiedInv, OneGatePerBuild', NEW b \in Builds, WorkerEnds(b)
  PROVE  VerifiedInv'
  <1> USE DEF GateShape, VerifiedInv
  <1>2. ASSUME NEW d \in Calls, stage[d] \in Proposing
        PROVE  WorkOf(d) \in Builds
    BY <1>2, CallHasWork DEF Proposing, Underway
  <1>11. \A d \in Calls : CallKnows(d)'
    <2>1. ASSUME NEW d \in Calls
          PROVE  CallKnows(d)'
      <3>1. CallKnows(d) /\ UNCHANGED <<stage, at, marker, gone, latest, verified>> /\ working' \subseteq working
        BY DEF WorkerEnds, history
      <3>2. CASE stage[d] \in Proposing /\ WorkOf(d) = b
        <4>1. ~IsLatest(at[d].id)
          BY <3>1, <3>2 DEF CallKnows, AttemptRests, WorkerEnds
        <4>2. ~IsLatest(at[d].id)' /\ ~Untouched(d)'
          BY <3>1, <4>1 DEF IsLatest, Untouched
        <4> QED
          BY <3>1, <3>2, <4>2 DEF CallKnows, AttemptRests, WorkOf, Proposing
      <3>3. CASE stage[d] \in Proposing /\ WorkOf(d) # b
        <4>1. branch'[WorkOf(d)] = branch[WorkOf(d)]
          BY <1>2, <3>3 DEF WorkerEnds, RepoShape
        <4> QED
          BY <3>1, <4>1 DEF CallKnows, Untouched, AttemptRests, IsLatest, WorkOf
      <3>4. CASE stage[d] \notin Proposing
        BY <3>1, <3>4 DEF CallKnows, Untouched, AttemptRests, IsLatest, WorkOf, Proposing
      <3> QED
        BY <3>2, <3>3, <3>4
    <2> QED
      BY <2>1
  <1>13. \A x \in Attempts : RecordKnows(x)'
    BY RecordStillKnows DEF WorkerEnds, repo, work, history
  <1>14. OnlyVerifiedMerges'
    BY DEF WorkerEnds, OnlyVerifiedMerges, history
  <1> QED
    BY <1>11, <1>13, <1>14

LEMMA LoseGateTurnKnows ==
  ASSUME GateShape, VerifiedInv, OneGatePerBuild', NEW c \in Calls, LoseGateTurn(c)
  PROVE  VerifiedInv'
  <1> USE DEF GateShape, VerifiedInv
  <1>11. \A d \in Calls : CallKnows(d)'
    BY CallStillKnows DEF LoseGateTurn, repo, work, history
  <1>13. \A x \in Attempts : RecordKnows(x)'
    BY RecordStillKnows DEF LoseGateTurn, repo, work, history
  <1>14. OnlyVerifiedMerges'
    BY DEF LoseGateTurn, OnlyVerifiedMerges, history
  <1> QED
    BY <1>11, <1>13, <1>14

LEMMA ProcessDiesKnows ==
  ASSUME GateShape, VerifiedInv, OneGatePerBuild', NEW p, ProcessDies(p)
  PROVE  VerifiedInv'
  <1> USE DEF GateShape, VerifiedInv
  <1>11. \A d \in Calls : CallKnows(d)'
    <2>1. ASSUME NEW d \in Calls
          PROVE  CallKnows(d)'
      <3>1. CASE stage'[d] = "done"
        BY <3>1, GoneCallKnows
      <3>2. CASE stage'[d] # "done"
        <4>1. stage'[d] = stage[d] /\ at'[d] = at[d]
          BY <3>2 DEF ProcessDies
        <4> QED
          BY <4>1, CallStillKnows DEF ProcessDies, repo, work, history
      <3> QED
        BY <3>1, <3>2
    <2> QED
      BY <2>1
  <1>13. \A x \in Attempts : RecordKnows(x)'
    BY RecordStillKnows DEF ProcessDies, repo, work, history
  <1>14. OnlyVerifiedMerges'
    BY DEF ProcessDies, OnlyVerifiedMerges, history
  <1> QED
    BY <1>11, <1>13, <1>14

LEMMA ClaimEndsKnows ==
  ASSUME GateShape, VerifiedInv, OneGatePerBuild', NEW c \in Calls, ClaimEnds(c)
  PROVE  VerifiedInv'
  <1> USE DEF GateShape, VerifiedInv
  <1>11. \A d \in Calls : CallKnows(d)'
    BY CallStillKnows DEF ClaimEnds, repo, work, history
  <1>13. \A x \in Attempts : RecordKnows(x)'
    BY RecordStillKnows DEF ClaimEnds, repo, work, history
  <1>14. OnlyVerifiedMerges'
    BY DEF ClaimEnds, OnlyVerifiedMerges, history
  <1> QED
    BY <1>11, <1>13, <1>14

LEMMA VerifiedStep ==
  ASSUME GateShape, VerifiedInv, OneGatePerBuild', [GateNext]_gateVars
  PROVE  VerifiedInv'
  <1>1. CASE UNCHANGED gateVars
    <2>1. \A d \in Calls : CallKnows(d)'
      BY <1>1, CallStillKnows DEF gateVars, VerifiedInv
    <2>2. \A a \in Attempts : RecordKnows(a)'
      BY <1>1, RecordStillKnows DEF gateVars, VerifiedInv
    <2> QED
      BY <1>1, <2>1, <2>2 DEF gateVars, VerifiedInv, OnlyVerifiedMerges
  <1>2. ASSUME NEW c \in Calls, CallSteps(c)
        PROVE  VerifiedInv'
    BY <1>2, VerifyPassesKnows, VerifyFailsKnows, RebaseRecordedKnows, RebaseRefusedKnows,
       RebaseStartsKnows, RebaseEndsKnows, RebaseFailsKnows, ProposedKnows, AbandonKnows,
       NotMergedKnows, MergeStartsKnows, FastForwardKnows, FastForwardRefusedKnows,
       MergeRecordedKnows, MergeCleansUpKnows, MergeTellsOthersKnows, CloseEndsKnows
    DEF CallSteps
  <1>3. ASSUME NEW c \in Calls, LoseGateTurn(c) \/ ClaimEnds(c)
        PROVE  VerifiedInv'
    BY <1>3, LoseGateTurnKnows, ClaimEndsKnows
  <1>4. ASSUME NEW c \in Calls, NEW a \in Attempts,
               SettleFirst(c, a) \/ Enter(c, a) \/ MergePassed(c, a) \/ CloseBegins(c, a)
        PROVE  VerifiedInv'
    BY <1>4, SettleFirstKnows, EnterKnows, MergePassedKnows, CloseBeginsKnows
  <1>5. ASSUME NEW a \in Attempts, RecoveryReads(a)
        PROVE  VerifiedInv'
    BY <1>5, RecoveryReadsKnows
  <1>6. CASE RecoverySettles \/ OwnerCommits
    BY <1>6, RecoverySettlesKnows, OwnerCommitsKnows
  <1>7. ASSUME NEW b \in Builds, ContinueBuild(b) \/ WorkerEnds(b)
        PROVE  VerifiedInv'
    BY <1>7, ContinueBuildKnows, WorkerEndsKnows
  <1>8. ASSUME NEW p \in {Process[c] : c \in Calls}, ProcessDies(p)
        PROVE  VerifiedInv'
    BY <1>8, ProcessDiesKnows
  <1> QED
    BY <1>1, <1>2, <1>3, <1>4, <1>5, <1>6, <1>7, <1>8 DEF GateNext

LEMMA VerifiedInitially ==
  ASSUME GateInit
  PROVE  VerifiedInv
  BY DEF GateInit, VerifiedInv, OneGatePerBuild, Gating, OnlyVerifiedMerges, CallKnows,
     RecordKnows, NoGate, Proposing, Merging, After

(* The specification without the one thing the gates of one process do not *)
(* exclude, and the gates of two processes cannot: two gates of one build. *)
LoneGateSpec == GateInit /\ [][GateNext /\ OneGatePerBuild']_gateVars

(* Every head that lands is a head that a verify run passed on, with any   *)
(* number of processes, continuations, crashes, lost turns and commits of  *)
(* the owner, as long as one call at a time has a gate of a build.         *)
THEOREM VerifiedHeadsLand == LoneGateSpec => []OnlyVerifiedMerges
  <1>1. GateInit => GateShape /\ VerifiedInv
    BY GateShapeInitially, VerifiedInitially
  <1>2. GateShape /\ VerifiedInv /\ [GateNext /\ OneGatePerBuild']_gateVars
          => GateShape' /\ VerifiedInv'
    <2> SUFFICES ASSUME GateShape, VerifiedInv, [GateNext /\ OneGatePerBuild']_gateVars
                 PROVE  GateShape' /\ VerifiedInv'
      OBVIOUS
    <2>1. [GateNext]_gateVars
      OBVIOUS
    <2>2. OneGatePerBuild'
      BY DEF VerifiedInv, OneGatePerBuild, Gating, WorkOf, gateVars
    <2> QED
      BY <2>1, <2>2, GateShapeStep, VerifiedStep
  <1>3. VerifiedInv => OnlyVerifiedMerges
    BY DEF VerifiedInv
  <1> QED
    BY <1>1, <1>2, <1>3, PTL DEF LoneGateSpec

-----------------------------------------------------------------------------
(* Two calls of one process never have the gate of one attempt.            *)

LEMMA KeptByMoving ==
  ASSUME GatesAreKept, NEW c \in Calls,
         \A d \in Calls : d # c => stage'[d] = stage[d] /\ at'[d] = at[d],
         Gating(c)' => Gating(c) /\ at'[c].id = at[c].id,
         gates' = gates \/ (gates' = gates \ {<<Process[c], at[c].id>>} /\ Gating(c) /\ ~Gating(c)')
  PROVE  GatesAreKept'
  <1>1. \A d \in Calls : Gating(d)' => Gating(d) /\ at'[d].id = at[d].id
    BY DEF Gating
  <1>2. \A d, e \in Calls : Gating(d)' /\ Gating(e)' /\ Process[d] = Process[e]
                              /\ at'[d].id = at'[e].id => d = e
    BY <1>1 DEF GatesAreKept
  <1>3. ASSUME NEW d \in Calls, Gating(d)'
        PROVE  <<Process[d], at'[d].id>> \in gates'
    <2>1. Gating(d) /\ at'[d].id = at[d].id /\ <<Process[d], at[d].id>> \in gates
      BY <1>1, <1>3 DEF GatesAreKept
    <2>2. CASE gates' = gates
      BY <2>1, <2>2
    <2>3. CASE gates' = gates \ {<<Process[c], at[c].id>>} /\ Gating(c) /\ ~Gating(c)'
      <3>1. d # c
        BY <1>3, <2>3
      <3>2. ~(Process[d] = Process[c] /\ at[d].id = at[c].id)
        BY <2>1, <2>3, <3>1 DEF GatesAreKept
      <3> QED
        BY <2>1, <2>3, <3>2
    <2> QED
      BY <2>2, <2>3
  <1> QED
    BY <1>2, <1>3 DEF GatesAreKept

LEMMA KeptByBeginning ==
  ASSUME GatesAreKept, NEW c \in Calls, NEW a,
         \A d \in Calls : d # c => stage'[d] = stage[d] /\ at'[d] = at[d],
         at'[c].id = a, ~GateActive(Process[c], a), gates' = gates \cup {<<Process[c], a>>}
  PROVE  GatesAreKept'
  <1>1. \A d \in Calls : d # c => (Gating(d)' <=> Gating(d))
    BY DEF Gating
  <1>2. ASSUME NEW d \in Calls, d # c, Gating(d), Process[d] = Process[c]
        PROVE  at[d].id # a
    BY <1>2 DEF GatesAreKept, GateActive
  <1>3. ASSUME NEW d \in Calls, NEW e \in Calls, Gating(d)', Gating(e)',
               Process[d] = Process[e], at'[d].id = at'[e].id
        PROVE  d = e
    <2>1. CASE d # c /\ e # c
      BY <1>1, <1>3, <2>1 DEF GatesAreKept
    <2>2. CASE d = c /\ e # c
      BY <1>1, <1>2, <1>3, <2>2
    <2>3. CASE d # c /\ e = c
      BY <1>1, <1>2, <1>3, <2>3
    <2> QED
      BY <2>1, <2>2, <2>3
  <1>4. ASSUME NEW d \in Calls, Gating(d)'
        PROVE  <<Process[d], at'[d].id>> \in gates'
    BY <1>1, <1>4 DEF GatesAreKept
  <1> QED
    BY <1>3, <1>4 DEF GatesAreKept

LEMMA KeptByOthers ==
  ASSUME GatesAreKept, UNCHANGED <<stage, at, gates>>
  PROVE  GatesAreKept'
  BY DEF GatesAreKept, Gating

LEMMA VerifyPassesKeeps ==
  ASSUME GateShape, GatesAreKept, NEW c \in Calls, VerifyPasses(c)
  PROVE  GatesAreKept'
  <1>1. \A d \in Calls : d # c => stage'[d] = stage[d] /\ at'[d] = at[d]
    BY DEF VerifyPasses, GateShape, CallShape
  <1> QED
    BY <1>1, KeptByMoving DEF VerifyPasses, Gating, Proposing, Merging, After

LEMMA MergeRecordedKeeps ==
  ASSUME GateShape, GatesAreKept, NEW c \in Calls, MergeRecorded(c)
  PROVE  GatesAreKept'
  <1>1. \A d \in Calls : d # c => stage'[d] = stage[d] /\ at'[d] = at[d]
    BY DEF MergeRecorded, GateShape, CallShape
  <1> QED
    BY <1>1, KeptByMoving DEF MergeRecorded, Gating, Proposing, Merging, After

LEMMA MergeCleansUpKeeps ==
  ASSUME GateShape, GatesAreKept, NEW c \in Calls, MergeCleansUp(c)
  PROVE  GatesAreKept'
  <1>1. \A d \in Calls : d # c => stage'[d] = stage[d] /\ at'[d] = at[d]
    BY DEF MergeCleansUp, GateShape, CallShape
  <1> QED
    BY <1>1, KeptByMoving DEF MergeCleansUp, Gating, Proposing, Merging, After

LEMMA FastForwardKeeps ==
  ASSUME GateShape, GatesAreKept, NEW c \in Calls, FastForward(c)
  PROVE  GatesAreKept'
  <1>1. \A d \in Calls : d # c => stage'[d] = stage[d] /\ at'[d] = at[d]
    BY DEF FastForward, GateShape, CallShape
  <1> QED
    BY <1>1, KeptByMoving DEF FastForward, Gating, Proposing, Merging, After

LEMMA VerifyFailsKeeps ==
  ASSUME GateShape, GatesAreKept, NEW c \in Calls, VerifyFails(c)
  PROVE  GatesAreKept'
  <1>1. /\ \A d \in Calls : d # c => stage'[d] = stage[d] /\ at'[d] = at[d]
        /\ stage'[c] = "done"
    BY DEF VerifyFails, Leave, GateShape, CallShape
  <1>2. Gating(c) /\ ~Gating(c)' /\ gates' = gates \ {<<Process[c], at[c].id>>}
    BY <1>1 DEF VerifyFails, Leave, Gating, Proposing, Merging, After
  <1> QED
    BY <1>1, <1>2, KeptByMoving

LEMMA RebaseRefusedKeeps ==
  ASSUME GateShape, GatesAreKept, NEW c \in Calls, RebaseRefused(c)
  PROVE  GatesAreKept'
  <1>1. /\ \A d \in Calls : d # c => stage'[d] = stage[d] /\ at'[d] = at[d]
        /\ stage'[c] = "done"
    BY DEF RebaseRefused, Leave, GateShape, CallShape
  <1>2. Gating(c) /\ ~Gating(c)' /\ gates' = gates \ {<<Process[c], at[c].id>>}
    BY <1>1 DEF RebaseRefused, Leave, Gating, Proposing, Merging, After
  <1> QED
    BY <1>1, <1>2, KeptByMoving

LEMMA RebaseFailsKeeps ==
  ASSUME GateShape, GatesAreKept, NEW c \in Calls, RebaseFails(c)
  PROVE  GatesAreKept'
  <1>1. /\ \A d \in Calls : d # c => stage'[d] = stage[d] /\ at'[d] = at[d]
        /\ stage'[c] = "done"
    BY DEF RebaseFails, Leave, GateShape, CallShape
  <1>2. Gating(c) /\ ~Gating(c)' /\ gates' = gates \ {<<Process[c], at[c].id>>}
    BY <1>1 DEF RebaseFails, Leave, Gating, Proposing, Merging, After
  <1> QED
    BY <1>1, <1>2, KeptByMoving

LEMMA AbandonKeeps ==
  ASSUME GateShape, GatesAreKept, NEW c \in Calls, Abandon(c)
  PROVE  GatesAreKept'
  <1>1. /\ \A d \in Calls : d # c => stage'[d] = stage[d] /\ at'[d] = at[d]
        /\ stage'[c] = "done"
    BY DEF Abandon, Leave, GateShape, CallShape
  <1>2. Gating(c) /\ ~Gating(c)' /\ gates' = gates \ {<<Process[c], at[c].id>>}
    BY <1>1 DEF Abandon, Leave, Gating, Proposing, Merging, After
  <1> QED
    BY <1>1, <1>2, KeptByMoving

LEMMA FastForwardRefusedKeeps ==
  ASSUME GateShape, GatesAreKept, NEW c \in Calls, FastForwardRefused(c)
  PROVE  GatesAreKept'
  <1>1. /\ \A d \in Calls : d # c => stage'[d] = stage[d] /\ at'[d] = at[d]
        /\ stage'[c] = "done"
    BY DEF FastForwardRefused, Leave, GateShape, CallShape
  <1>2. Gating(c) /\ ~Gating(c)' /\ gates' = gates \ {<<Process[c], at[c].id>>}
    BY <1>1 DEF FastForwardRefused, Leave, Gating, Proposing, Merging, After
  <1> QED
    BY <1>1, <1>2, KeptByMoving

LEMMA MergeTellsOthersKeeps ==
  ASSUME GateShape, GatesAreKept, NEW c \in Calls, MergeTellsOthers(c)
  PROVE  GatesAreKept'
  <1>1. /\ \A d \in Calls : d # c => stage'[d] = stage[d] /\ at'[d] = at[d]
        /\ stage'[c] = "done"
    BY DEF MergeTellsOthers, Leave, GateShape, CallShape
  <1>2. Gating(c) /\ ~Gating(c)' /\ gates' = gates \ {<<Process[c], at[c].id>>}
    BY <1>1 DEF MergeTellsOthers, Leave, Gating, Proposing, Merging, After
  <1> QED
    BY <1>1, <1>2, KeptByMoving

LEMMA CloseEndsKeeps ==
  ASSUME GateShape, GatesAreKept, NEW c \in Calls, CloseEnds(c)
  PROVE  GatesAreKept'
  <1>1. /\ \A d \in Calls : d # c => stage'[d] = stage[d] /\ at'[d] = at[d]
        /\ stage'[c] = "done"
    BY DEF CloseEnds, Leave, GateShape, CallShape
  <1>2. Gating(c) /\ ~Gating(c)' /\ gates' = gates \ {<<Process[c], at[c].id>>}
    BY <1>1 DEF CloseEnds, Leave, Gating, Proposing, Merging, After
  <1> QED
    BY <1>1, <1>2, KeptByMoving

LEMMA RebaseRecordedKeeps ==
  ASSUME GateShape, GatesAreKept, NEW c \in Calls, RebaseRecorded(c)
  PROVE  GatesAreKept'
  <1>1. \A d \in Calls : d # c => stage'[d] = stage[d] /\ at'[d] = at[d]
    BY DEF RebaseRecorded, GateShape, CallShape
  <1>2. at[c] \in Locals /\ at \in [Calls -> Locals]
    BY LocalFields DEF GateShape, CallShape
  <1>3. at'[c].id = at[c].id
    BY <1>2 DEF RebaseRecorded, Locals
  <1>4. Gating(c) /\ gates' = gates
    BY DEF RebaseRecorded, Gating, Proposing, Merging, After
  <1> QED
    BY <1>1, <1>3, <1>4, KeptByMoving

LEMMA RebaseStartsKeeps ==
  ASSUME GateShape, GatesAreKept, NEW c \in Calls, RebaseStarts(c)
  PROVE  GatesAreKept'
  <1>1. \A d \in Calls : d # c => stage'[d] = stage[d] /\ at'[d] = at[d]
    BY DEF RebaseStarts, GateShape, CallShape
  <1>2. at[c] \in Locals /\ at \in [Calls -> Locals]
    BY LocalFields DEF GateShape, CallShape
  <1>3. at'[c].id = at[c].id
    BY <1>2 DEF RebaseStarts, Locals
  <1>4. Gating(c) /\ gates' = gates
    BY DEF RebaseStarts, Gating, Proposing, Merging, After
  <1> QED
    BY <1>1, <1>3, <1>4, KeptByMoving

LEMMA RebaseEndsKeeps ==
  ASSUME GateShape, GatesAreKept, NEW c \in Calls, RebaseEnds(c)
  PROVE  GatesAreKept'
  <1>1. \A d \in Calls : d # c => stage'[d] = stage[d] /\ at'[d] = at[d]
    BY DEF RebaseEnds, GateShape, CallShape
  <1>2. at[c] \in Locals /\ at \in [Calls -> Locals]
    BY LocalFields DEF GateShape, CallShape
  <1>3. at'[c].id = at[c].id
    BY <1>2 DEF RebaseEnds, Locals
  <1>4. Gating(c) /\ gates' = gates
    BY DEF RebaseEnds, Gating, Proposing, Merging, After
  <1> QED
    BY <1>1, <1>3, <1>4, KeptByMoving

LEMMA ProposedKeeps ==
  ASSUME GateShape, GatesAreKept, NEW c \in Calls, Proposed(c)
  PROVE  GatesAreKept'
  <1>1. /\ \A d \in Calls : d # c => stage'[d] = stage[d] /\ at'[d] = at[d]
        /\ stage'[c] = "approved"
    BY DEF Proposed, GateShape, CallShape
  <1>2. Gating(c) /\ ~Gating(c)' /\ gates' = gates \ {<<Process[c], at[c].id>>}
    BY <1>1 DEF Proposed, Gating, Proposing, Merging, After
  <1> QED
    BY <1>1, <1>2, KeptByMoving

LEMMA NotMergedKeeps ==
  ASSUME GateShape, GatesAreKept, NEW c \in Calls, NotMerged(c)
  PROVE  GatesAreKept'
  <1>1. /\ \A d \in Calls : d # c => stage'[d] = stage[d] /\ at'[d] = at[d]
        /\ stage'[c] = "done"
    BY DEF NotMerged, GateShape, CallShape
  <1>2. ~Gating(c)' /\ gates' = gates
    BY <1>1 DEF NotMerged, Gating, Proposing, Merging, After
  <1> QED
    BY <1>1, <1>2, KeptByMoving

LEMMA MergePassedKeeps ==
  ASSUME GateShape, GatesAreKept, NEW c \in Calls, NEW a \in Attempts, MergePassed(c, a)
  PROVE  GatesAreKept'
  <1>1. /\ \A d \in Calls : d # c => stage'[d] = stage[d] /\ at'[d] = at[d]
        /\ stage'[c] = "approved"
    BY DEF MergePassed, GateShape, CallShape
  <1>2. ~Gating(c)' /\ gates' = gates
    BY <1>1 DEF MergePassed, Gating, Proposing, Merging, After
  <1> QED
    BY <1>1, <1>2, KeptByMoving

LEMMA EnterKeeps ==
  ASSUME GateShape, GatesAreKept, NEW c \in Calls, NEW a \in Attempts, Enter(c, a)
  PROVE  GatesAreKept'
  <1>1. /\ \A d \in Calls : d # c => stage'[d] = stage[d] /\ at'[d] = at[d]
        /\ at'[c].id = a
    BY DEF Enter, GateShape, CallShape
  <1> QED
    BY <1>1, KeptByBeginning DEF Enter

LEMMA CloseBeginsKeeps ==
  ASSUME GateShape, GatesAreKept, NEW c \in Calls, NEW a \in Attempts, CloseBegins(c, a)
  PROVE  GatesAreKept'
  <1>1. \A d \in Calls : d # c => stage'[d] = stage[d] /\ at'[d] = at[d]
    BY DEF CloseBegins, GateShape, CallShape
  <1>2. at[c] \in Locals /\ at \in [Calls -> Locals]
    BY LocalFields DEF GateShape, CallShape
  <1>3. at'[c].id = a
    BY <1>2 DEF CloseBegins, Locals
  <1> QED
    BY <1>1, <1>3, KeptByBeginning DEF CloseBegins

LEMMA MergeStartsKeeps ==
  ASSUME GateShape, GatesAreKept, NEW c \in Calls, MergeStarts(c)
  PROVE  GatesAreKept'
  <1>1. \A d \in Calls : d # c => stage'[d] = stage[d] /\ at'[d] = at[d]
    BY DEF MergeStarts, Leave, GateShape, CallShape
  <1>2. ~GateActive(Process[c], at[c].id)
    BY DEF MergeStarts, MayMerge
  <1>3. CASE Leave(c)
    <2>1. stage'[c] = "done" /\ gates' = gates
      BY <1>2, <1>3 DEF Leave, GateActive, GateShape, CallShape
    <2> QED
      BY <1>1, <2>1, KeptByMoving DEF Gating, Proposing, Merging, After
  <1>4. CASE ~Leave(c)
    <2>1. gates' = gates \cup {<<Process[c], at[c].id>>} /\ at' = at
      BY <1>4 DEF MergeStarts
    <2> QED
      BY <1>1, <1>2, <2>1, KeptByBeginning
  <1> QED
    BY <1>3, <1>4

LEMMA SettleFirstKeeps ==
  ASSUME GateShape, GatesAreKept, NEW c \in Calls, NEW a \in Attempts, SettleFirst(c, a)
  PROVE  GatesAreKept'
  BY KeptByOthers DEF SettleFirst

LEMMA RecoveryReadsKeeps ==
  ASSUME GateShape, GatesAreKept, NEW a \in Attempts, RecoveryReads(a)
  PROVE  GatesAreKept'
  BY KeptByOthers DEF RecoveryReads

LEMMA RecoverySettlesKeeps ==
  ASSUME GateShape, GatesAreKept, RecoverySettles
  PROVE  GatesAreKept'
  BY KeptByOthers DEF RecoverySettles

LEMMA OwnerCommitsKeeps ==
  ASSUME GateShape, GatesAreKept, OwnerCommits
  PROVE  GatesAreKept'
  BY KeptByOthers DEF OwnerCommits

LEMMA ContinueBuildKeeps ==
  ASSUME GateShape, GatesAreKept, NEW b \in Builds, ContinueBuild(b)
  PROVE  GatesAreKept'
  BY KeptByOthers DEF ContinueBuild

LEMMA WorkerEndsKeeps ==
  ASSUME GateShape, GatesAreKept, NEW b \in Builds, WorkerEnds(b)
  PROVE  GatesAreKept'
  BY KeptByOthers DEF WorkerEnds

LEMMA LoseGateTurnKeeps ==
  ASSUME GateShape, GatesAreKept, NEW c \in Calls, LoseGateTurn(c)
  PROVE  GatesAreKept'
  BY KeptByOthers DEF LoseGateTurn

LEMMA ClaimEndsKeeps ==
  ASSUME GateShape, GatesAreKept, NEW c \in Calls, ClaimEnds(c)
  PROVE  GatesAreKept'
  BY KeptByOthers DEF ClaimEnds

LEMMA ProcessDiesKeeps ==
  ASSUME GateShape, GatesAreKept, NEW p, ProcessDies(p)
  PROVE  GatesAreKept'
  <1>1. ASSUME NEW c \in Calls, Gating(c)'
        PROVE  stage'[c] = stage[c] /\ at'[c] = at[c] /\ Gating(c) /\ Process[c] # p
    <2>1. stage'[c] # "done"
      BY <1>1 DEF Gating, Proposing, Merging, After
    <2>2. ~(Process[c] = p /\ Underway(c)) /\ stage'[c] = stage[c] /\ at'[c] = at[c]
      BY <2>1 DEF ProcessDies
    <2> QED
      BY <1>1, <2>2 DEF Gating, Proposing, Merging, After, Underway
  <1>2. gates' = {g \in gates : g[1] # p}
    BY DEF ProcessDies
  <1> QED
    BY <1>1, <1>2 DEF GatesAreKept

LEMMA GatesKeptStep ==
  ASSUME GateShape, GatesAreKept, [GateNext]_gateVars
  PROVE  GatesAreKept'
  <1>1. CASE UNCHANGED gateVars
    BY <1>1, KeptByOthers DEF gateVars
  <1>2. ASSUME NEW c \in Calls, CallSteps(c)
        PROVE  GatesAreKept'
    BY <1>2, VerifyPassesKeeps, VerifyFailsKeeps, RebaseRecordedKeeps, RebaseRefusedKeeps,
       RebaseStartsKeeps, RebaseEndsKeeps, RebaseFailsKeeps, ProposedKeeps, AbandonKeeps,
       NotMergedKeeps, MergeStartsKeeps, FastForwardKeeps, FastForwardRefusedKeeps,
       MergeRecordedKeeps, MergeCleansUpKeeps, MergeTellsOthersKeeps, CloseEndsKeeps
    DEF CallSteps
  <1>3. ASSUME NEW c \in Calls, LoseGateTurn(c) \/ ClaimEnds(c)
        PROVE  GatesAreKept'
    BY <1>3, LoseGateTurnKeeps, ClaimEndsKeeps
  <1>4. ASSUME NEW c \in Calls, NEW a \in Attempts,
               SettleFirst(c, a) \/ Enter(c, a) \/ MergePassed(c, a) \/ CloseBegins(c, a)
        PROVE  GatesAreKept'
    BY <1>4, SettleFirstKeeps, EnterKeeps, MergePassedKeeps, CloseBeginsKeeps
  <1>5. ASSUME NEW a \in Attempts, RecoveryReads(a)
        PROVE  GatesAreKept'
    BY <1>5, RecoveryReadsKeeps
  <1>6. CASE RecoverySettles \/ OwnerCommits
    BY <1>6, RecoverySettlesKeeps, OwnerCommitsKeeps
  <1>7. ASSUME NEW b \in Builds, ContinueBuild(b) \/ WorkerEnds(b)
        PROVE  GatesAreKept'
    BY <1>7, ContinueBuildKeeps, WorkerEndsKeeps
  <1>8. ASSUME NEW p \in {Process[c] : c \in Calls}, ProcessDies(p)
        PROVE  GatesAreKept'
    BY <1>8, ProcessDiesKeeps
  <1> QED
    BY <1>1, <1>2, <1>3, <1>4, <1>5, <1>6, <1>7, <1>8 DEF GateNext

LEMMA GatesKeptInitially ==
  ASSUME GateInit
  PROVE  GatesAreKept
  BY DEF GateInit, GatesAreKept, Gating, Proposing, Merging, After

(* Where no build is continued, a build has one attempt to gate.           *)
LEMMA OneGateInOneProcess ==
  ASSUME GateShape, GatesAreKept, InOneProcess, MaxContinuations = 0
  PROVE  OneGatePerBuild
  <1> SUFFICES ASSUME NEW c \in Calls, NEW d \in Calls, Gating(c), Gating(d), WorkOf(c) = WorkOf(d)
               PROVE  c = d
    BY DEF OneGatePerBuild
  <1>1. Underway(c) /\ Underway(d)
    BY DEF Gating, Underway, Proposing, Merging, After
  <1>2. at[c].id \in Attempts /\ at[d].id \in Attempts
    BY <1>1, CallHasWork DEF GateShape
  <1>3. at[c].id[2] = 0 /\ at[d].id[2] = 0
    BY <1>2 DEF Attempts, Numbers
  <1>4. at[c].id = <<WorkOf(c), 0>> /\ at[d].id = <<WorkOf(d), 0>>
    BY <1>2, <1>3 DEF Attempts, WorkOf, Build
  <1> QED
    BY <1>4 DEF GatesAreKept, InOneProcess

(* In one process beginGate is enough, where no build is continued: every  *)
(* head that lands is a verified one, whatever the owner commits, and      *)
(* whatever turns are lost and processes die.                              *)
THEOREM VerifiedHeadsLandInOneProcess ==
  ASSUME InOneProcess, MaxContinuations = 0
  PROVE  GateSpec => []OnlyVerifiedMerges
  <1>1. GateInit => GateShape /\ GatesAreKept /\ VerifiedInv
    BY GateShapeInitially, GatesKeptInitially, VerifiedInitially
  <1>2. GateShape /\ GatesAreKept /\ [GateNext]_gateVars => GateShape' /\ GatesAreKept'
    BY GateShapeStep, GatesKeptStep
  <1>3. GateShape /\ GatesAreKept => OneGatePerBuild
    BY OneGateInOneProcess
  <1>4. GateShape /\ VerifiedInv /\ OneGatePerBuild' /\ [GateNext]_gateVars => VerifiedInv'
    BY VerifiedStep
  <1>5. VerifiedInv => OnlyVerifiedMerges
    BY DEF VerifiedInv
  <1> QED
    BY <1>1, <1>2, <1>3, <1>4, <1>5, PTL DEF GateSpec

-----------------------------------------------------------------------------
(* The records tell the truth, in one process that lost nothing.           *)

(* What a step leaves of a record.                                         *)
SameRecord(a) ==
  /\ gate'[a].step = gate[a].step
  /\ gate'[a].owner = gate[a].owner
  /\ gate'[a].branchHead = gate[a].branchHead
  /\ gate'[a].merged = gate[a].merged

(* The calls other than c stay where they are; no other has the gate of a; *)
(* the other records stay.                                                 *)
OthersStay(c) ==
  \A d \in Calls : d # c => /\ stage'[d] = stage[d] /\ at'[d] = at[d]
                            /\ d \in held => d \in held'
NobodyElseHas(c, a) == \A d \in Calls : d # c /\ Gating(d) => at[d].id # a
OthersSame(a) == \A x \in Attempts : x # a => SameRecord(x)
NothingElseLanded(a) ==
  \A x \in Attempts : x # a /\ (\E l \in landed' : l[1] = x) => \E l \in landed : l[1] = x

LEMMA StillFits ==
  ASSUME CallShape, NEW d \in Calls, RecordFits(d), stage'[d] = stage[d], at'[d] = at[d],
         stage[d] \in Proposing \cup Merging => SameRecord(at[d].id),
         d \in held => d \in held',
         target \in Seq(Changes), target' \in Seq(Changes), IsPrefix(target, target')
  PROVE  RecordFits(d)'
  <1>1. stage[d] = "moved" => IsPrefix(at[d].branchHead, target')
    <2>1. stage[d] = "moved" => at[d].branchHead \in Seq(Changes)
      BY DEF CallShape, Holding, Merging
    <2> QED
      BY <2>1, PrefixTransitive DEF RecordFits
  <1> QED
    BY <1>1 DEF RecordFits, SameRecord

LEMMA OverFits ==
  ASSUME NEW c \in Calls, stage'[c] \in {"idle", "done", "cleaning", "telling", "closing"}
  PROVE  RecordFits(c)'
  BY DEF RecordFits, Proposing, Merging

LEMMA StillTrue ==
  ASSUME NEW a \in Attempts, Truth(a), SameRecord(a),
         target \in Seq(Changes), target' \in Seq(Changes), IsPrefix(target, target'),
         (\E l \in landed' : l[1] = a) => \E l \in landed : l[1] = a,
         \A c \in Calls : at[c].id = a /\ stage[c] \in Proposing \cup Merging
            => at'[c].id = a /\ stage'[c] \in Proposing \cup Merging
               /\ (stage[c] = "moved" => stage'[c] = "moved")
  PROVE  Truth(a)'
  <1>1. gate[a].merged => IsPrefix(gate[a].branchHead, target')
    BY PrefixTransitive DEF Truth
  <1>2. \A c \in Calls : at[c].id = a /\ stage[c] = "moved" => at'[c].id = a /\ stage'[c] = "moved"
    BY DEF Merging
  <1> QED
    BY <1>1, <1>2 DEF Truth, SameRecord

(* A step that writes no record, but marks some to be rebased.             *)
LEMMA QuietTells ==
  ASSUME GateShape, TruthNow, NEW c \in Calls,
         OthersStay(c),
         RecordFits(c)',
         stage[c] \in Proposing \cup Merging
            => /\ stage'[c] \in Proposing \cup Merging /\ at'[c].id = at[c].id
               /\ stage[c] = "moved" => stage'[c] = "moved",
         \A a \in Attempts : SameRecord(a),
         UNCHANGED <<landed, recovery, target>>
  PROVE  TruthNow'
  <1>1. target \in Seq(Changes) /\ target' \in Seq(Changes) /\ IsPrefix(target, target')
    BY PrefixReflexive DEF GateShape, RepoShape
  <1>2. ASSUME NEW d \in Calls, d # c
        PROVE  RecordFits(d)'
    <2>1. stage[d] \in Proposing \cup Merging => at[d].id \in Attempts
      BY CallHasWork DEF Underway, Proposing, Merging, GateShape
    <2> QED
      BY <1>1, <1>2, <2>1, StillFits DEF TruthNow, GateShape, OthersStay, OthersSame, NobodyElseHas
  <1>3. ASSUME NEW a \in Attempts
        PROVE  Truth(a)'
    <2>1. \A d \in Calls : at[d].id = a /\ stage[d] \in Proposing \cup Merging
            => at'[d].id = a /\ stage'[d] \in Proposing \cup Merging
               /\ (stage[d] = "moved" => stage'[d] = "moved")
      BY DEF OthersStay
    <2> QED
      BY <1>1, <2>1, StillTrue DEF TruthNow
  <1> QED
    BY <1>2, <1>3 DEF TruthNow

(* A step of a call that has, or begins, the gate of an attempt and writes *)
(* its record.                                                             *)
LEMMA OthersTell ==
  ASSUME GateShape, TruthNow, NEW c \in Calls, NEW a \in Attempts,
         OthersStay(c), NobodyElseHas(c, a),
         Gating(c) => at[c].id = a,
         OthersSame(a),
         target' \in Seq(Changes), IsPrefix(target, target'),
         NothingElseLanded(a),
         UNCHANGED recovery, RecordFits(c)', Truth(a)'
  PROVE  TruthNow'
  <1>1. target \in Seq(Changes)
    BY DEF GateShape, RepoShape
  <1>2. ASSUME NEW d \in Calls, d # c
        PROVE  RecordFits(d)'
    <2>1. stage[d] \in Proposing \cup Merging => at[d].id \in Attempts /\ Gating(d)
      BY CallHasWork DEF Underway, Gating, Proposing, Merging, GateShape
    <2> QED
      BY <1>1, <1>2, <2>1, StillFits DEF TruthNow, GateShape, OthersStay, OthersSame, NobodyElseHas
  <1>3. ASSUME NEW x \in Attempts, x # a
        PROVE  Truth(x)'
    <2>1. \A d \in Calls : at[d].id = x /\ stage[d] \in Proposing \cup Merging
            => at'[d].id = x /\ stage'[d] \in Proposing \cup Merging
               /\ (stage[d] = "moved" => stage'[d] = "moved")
      BY <1>3 DEF Gating, OthersStay
    <2> QED
      BY <1>1, <1>3, <2>1, StillTrue DEF TruthNow, OthersSame, NothingElseLanded
  <1> QED
    BY <1>2, <1>3 DEF TruthNow

(* No other call has the gate of the attempt a call has the gate of, and   *)
(* none has that of an attempt no gate of the process has.                 *)
LEMMA NobodyElse ==
  ASSUME GatesAreKept, InOneProcess, NEW c \in Calls, Gating(c)
  PROVE  NobodyElseHas(c, at[c].id)
  BY DEF GatesAreKept, InOneProcess, NobodyElseHas

LEMMA NobodyYet ==
  ASSUME GatesAreKept, InOneProcess, NEW c \in Calls, NEW a, ~GateActive(Process[c], a)
  PROVE  NobodyElseHas(c, a) /\ ~(Gating(c) /\ at[c].id = a)
  BY DEF GatesAreKept, InOneProcess, GateActive, NobodyElseHas

(* What is not merged and not being merged has not landed.                 *)
LEMMA NotLanded ==
  ASSUME NEW a \in Attempts, Truth(a), ~gate[a].merged,
         \A c \in Calls : at[c].id = a => stage[c] # "moved"
  PROVE  ~\E l \in landed : l[1] = a
  BY DEF Truth

LEMMA OneRecord ==
  ASSUME RecordShape, NEW a \in Attempts, NEW g, Record(a, g)
  PROVE  gate'[a] = g /\ OthersSame(a)
  BY DEF RecordShape, Record, SameRecord, OthersSame

LEMMA SameGate ==
  ASSUME UNCHANGED gate
  PROVE  (\A x \in Attempts : SameRecord(x)) /\ \A x \in Attempts : OthersSame(x)
  BY DEF SameRecord, OthersSame

(* A proposal or a merge that is over before the target moved.             *)
LEMMA EndTells ==
  ASSUME GateShape, TruthNow, GatesAreKept, InOneProcess, NEW c \in Calls,
         NEW a \in Attempts, at[c].id = a,
         stage[c] \in Proposing \cup {"approved", "merging"},
         OthersStay(c), NobodyElseHas(c, a),
         NEW g, Record(a, g), g.step \notin InProgress, ~g.merged, ~gate[a].merged,
         RecordFits(c)', UNCHANGED <<landed, recovery, target>>
  PROVE  TruthNow'
  <1>1. gate'[a] = g /\ OthersSame(a)
    BY OneRecord DEF GateShape
  <1>2. \A d \in Calls : at[d].id = a => stage[d] # "moved"
    BY DEF NobodyElseHas, Gating, Proposing, Merging
  <1>3. ~\E l \in landed : l[1] = a
    BY <1>2, NotLanded DEF TruthNow
  <1>4. Truth(a)'
    BY <1>1, <1>3 DEF Truth
  <1>5. NothingElseLanded(a)
    BY DEF NothingElseLanded
  <1>6. target' \in Seq(Changes) /\ IsPrefix(target, target')
    BY PrefixReflexive DEF GateShape, RepoShape
  <1> QED
    BY <1>1, <1>4, <1>5, <1>6, OthersTell

(* A proposal that goes on with its record.                                *)
LEMMA ProposalTells ==
  ASSUME GateShape, TruthNow, NEW c \in Calls, NEW a \in Attempts,
         OthersStay(c), NobodyElseHas(c, a),
         Gating(c) => at[c].id = a, stage[c] # "moved",
         at'[c].id = a, stage'[c] \in Proposing \cup {"merging"},
         OthersSame(a),
         gate'[a].step \in InProgress, ~gate'[a].merged, ~gate[a].merged,
         RecordFits(c)', UNCHANGED <<landed, recovery, target>>
  PROVE  TruthNow'
  <1>1. \A d \in Calls : at[d].id = a => stage[d] # "moved"
    BY DEF NobodyElseHas, Gating, Merging
  <1>2. ~\E l \in landed : l[1] = a
    BY <1>1, NotLanded DEF TruthNow
  <1>3. Truth(a)'
    BY <1>2 DEF Truth, Merging
  <1>4. NothingElseLanded(a)
    BY DEF NothingElseLanded
  <1>5. target' \in Seq(Changes) /\ IsPrefix(target, target')
    BY PrefixReflexive DEF GateShape, RepoShape
  <1> QED
    BY <1>3, <1>4, <1>5, OthersTell

LEMMA VerifyPassesTells ==
  ASSUME GateShape, GatesAreKept, InOneProcess, TruthNow, NEW c \in Calls, VerifyPasses(c)
  PROVE  TruthNow'
  <1> USE DEF GateShape
  <1>1. OthersStay(c)
    BY DEF VerifyPasses, OthersStay, CallShape
  <1>2. stage'[c] \in {"verified", "passed"} /\ at' = at /\ gate' = gate /\ held' = held
    BY DEF VerifyPasses, CallShape
  <1>3. RecordFits(c)'
    BY <1>2 DEF VerifyPasses, TruthNow, RecordFits, Proposing, Merging
  <1> QED
    BY <1>1, <1>2, <1>3, QuietTells, SameGate DEF VerifyPasses, repo, Proposing, Merging

LEMMA VerifyFailsTells ==
  ASSUME GateShape, GatesAreKept, InOneProcess, TruthNow, NEW c \in Calls, VerifyFails(c)
  PROVE  TruthNow'
  <1> USE DEF GateShape
  <1>1. Underway(c) /\ at[c].id \in Attempts
    BY CallHasWork DEF VerifyFails, Underway
  <1>2. OthersStay(c)
    BY DEF VerifyFails, OthersStay, CallShape, Leave
  <1>3. RecordFits(c) /\ Gating(c)
    BY DEF TruthNow, VerifyFails, Gating, Proposing, Merging, After
  <1>4. NobodyElseHas(c, at[c].id)
    BY <1>3, NobodyElse
  <1>5. RecordFits(c)'
    BY OverFits DEF VerifyFails, Leave, CallShape
  <1>6. ~gate[at[c].id].merged
    BY <1>3 DEF VerifyFails, RecordFits, Proposing, Merging
  <1>7. \E g : Record(at[c].id, g) /\ g.step \notin InProgress /\ ~g.merged
    <2>1. PICK step \in {"refused", "interrupted"} : Record(at[c].id, Failed(c, step))
      BY DEF VerifyFails
    <2>2. Failed(c, step).step \notin InProgress /\ ~Failed(c, step).merged
      BY <1>1, <1>6, FailedStep DEF InProgress
    <2> QED
      BY <2>1, <2>2
  <1> QED
    BY <1>1, <1>2, <1>4, <1>5, <1>6, <1>7, EndTells DEF VerifyFails, repo, history, Proposing

LEMMA RebaseRefusedTells ==
  ASSUME GateShape, GatesAreKept, InOneProcess, TruthNow, NEW c \in Calls, RebaseRefused(c)
  PROVE  TruthNow'
  <1> USE DEF GateShape
  <1>1. Underway(c) /\ at[c].id \in Attempts
    BY CallHasWork DEF RebaseRefused, Underway
  <1>2. OthersStay(c)
    BY DEF RebaseRefused, OthersStay, CallShape, Leave
  <1>3. RecordFits(c) /\ Gating(c)
    BY DEF TruthNow, RebaseRefused, Gating, Proposing, Merging, After
  <1>4. NobodyElseHas(c, at[c].id)
    BY <1>3, NobodyElse
  <1>5. RecordFits(c)'
    BY OverFits DEF RebaseRefused, Leave, CallShape
  <1>6. ~gate[at[c].id].merged
    BY <1>3 DEF RebaseRefused, RecordFits, Proposing, Merging
  <1>7. \E g : Record(at[c].id, g) /\ g.step \notin InProgress /\ ~g.merged
    BY <1>1, <1>6, FailedStep DEF RebaseRefused, InProgress
  <1> QED
    BY <1>1, <1>2, <1>4, <1>5, <1>6, <1>7, EndTells DEF RebaseRefused, repo, history, Proposing

LEMMA RebaseFailsTells ==
  ASSUME GateShape, GatesAreKept, InOneProcess, TruthNow, NEW c \in Calls, RebaseFails(c)
  PROVE  TruthNow'
  <1> USE DEF GateShape
  <1>1. Underway(c) /\ at[c].id \in Attempts
    BY CallHasWork DEF RebaseFails, Underway
  <1>2. OthersStay(c)
    BY DEF RebaseFails, OthersStay, CallShape, Leave
  <1>3. RecordFits(c) /\ Gating(c)
    BY DEF TruthNow, RebaseFails, Gating, Proposing, Merging, After
  <1>4. NobodyElseHas(c, at[c].id)
    BY <1>3, NobodyElse
  <1>5. RecordFits(c)'
    BY OverFits DEF RebaseFails, Leave, CallShape
  <1>6. ~gate[at[c].id].merged
    BY <1>3 DEF RebaseFails, RecordFits, Proposing, Merging
  <1>7. \E g : Record(at[c].id, g) /\ g.step \notin InProgress /\ ~g.merged
    BY <1>1, <1>6, FailedStep DEF RebaseFails, InProgress
  <1> QED
    BY <1>1, <1>2, <1>4, <1>5, <1>6, <1>7, EndTells DEF RebaseFails, repo, history, Proposing

LEMMA FastForwardRefusedTells ==
  ASSUME GateShape, GatesAreKept, InOneProcess, TruthNow, NEW c \in Calls, FastForwardRefused(c)
  PROVE  TruthNow'
  <1> USE DEF GateShape
  <1>1. Underway(c) /\ at[c].id \in Attempts
    BY CallHasWork DEF FastForwardRefused, Underway
  <1>2. OthersStay(c)
    BY DEF FastForwardRefused, OthersStay, CallShape, Leave
  <1>3. RecordFits(c) /\ Gating(c)
    BY DEF TruthNow, FastForwardRefused, Gating, Proposing, Merging, After
  <1>4. NobodyElseHas(c, at[c].id)
    BY <1>3, NobodyElse
  <1>5. RecordFits(c)'
    BY OverFits DEF FastForwardRefused, Leave, CallShape
  <1>6. ~gate[at[c].id].merged
    BY <1>3 DEF FastForwardRefused, RecordFits, Proposing, Merging
  <1>7. \E g : Record(at[c].id, g) /\ g.step \notin InProgress /\ ~g.merged
    BY <1>1, <1>6, FailedStep DEF FastForwardRefused, InProgress
  <1> QED
    BY <1>1, <1>2, <1>4, <1>5, <1>6, <1>7, EndTells DEF FastForwardRefused, repo, history, Proposing

LEMMA RebaseRecordedTells ==
  ASSUME GateShape, GatesAreKept, InOneProcess, TruthNow, NEW c \in Calls, RebaseRecorded(c)
  PROVE  TruthNow'
  <1> USE DEF GateShape
  <1>1. Underway(c) /\ at[c].id \in Attempts
    BY CallHasWork DEF RebaseRecorded, Underway
  <1>2. OthersStay(c)
    BY DEF RebaseRecorded, OthersStay, CallShape
  <1>3. RecordFits(c) /\ Gating(c)
    BY DEF TruthNow, RebaseRecorded, Gating, Proposing, Merging, After
  <1>4. NobodyElseHas(c, at[c].id)
    BY <1>3, NobodyElse
  <1> DEFINE a == at[c].id
             g == [gate[a] EXCEPT !.step = "rebasing", !.targetHead = target]
  <1>5. gate[a] \in Records /\ at[c] \in Locals
    BY <1>1, RecordFields, LocalFields
  <1>6. g.step = "rebasing" /\ g.owner = gate[a].owner /\ g.merged = gate[a].merged
    BY <1>5 DEF Records
  <1>7. Record(a, g) /\ stage[c] = "verified" /\ held' = held /\ UNCHANGED <<landed, recovery, target>>
    BY DEF RebaseRecorded, repo, history
  <1>8. stage'[c] = "rebasing" /\ at'[c].id = a
    <2>1. stage'[c] = "rebasing" /\ at'[c] = [at[c] EXCEPT !.targetHead = target]
      BY DEF RebaseRecorded, CallShape
    <2> QED
      BY <1>5, <2>1 DEF Locals
  <1> HIDE DEF g
  <1>9. gate'[a] = g /\ OthersSame(a)
    BY <1>1, <1>7, OneRecord
  <1>10. gate[a].owner = c /\ c \in held /\ ~gate[a].merged
    BY <1>3, <1>7 DEF RecordFits, Proposing
  <1>11. RecordFits(c)'
    BY <1>6, <1>7, <1>8, <1>9, <1>10 DEF RecordFits, Proposing, Merging, InProgress
  <1>12. gate'[a].step \in InProgress /\ ~gate'[a].merged
    BY <1>6, <1>9, <1>10 DEF InProgress
  <1>13. stage'[c] \in Proposing \cup {"merging"} /\ stage[c] # "moved"
    BY <1>7, <1>8 DEF Proposing
  <1> HIDE DEF a
  <1>14. a \in Attempts /\ a = at[c].id
    BY <1>1 DEF a
  <1> QED
    BY <1>2, <1>4, <1>7, <1>8, <1>9, <1>10, <1>11, <1>12, <1>13, <1>14, ProposalTells

LEMMA RebaseStartsTells ==
  ASSUME GateShape, GatesAreKept, InOneProcess, TruthNow, NEW c \in Calls, RebaseStarts(c)
  PROVE  TruthNow'
  <1> USE DEF GateShape
  <1>1. OthersStay(c)
    BY DEF RebaseStarts, OthersStay, CallShape
  <1>2. stage'[c] \in {"passed", "replaying"} /\ at'[c].id = at[c].id
    <2>1. at[c] \in Locals
      BY LocalFields
    <2> QED
      BY <2>1 DEF RebaseStarts, CallShape, Locals
  <1>3. gate' = gate /\ held' = held /\ stage[c] = "rebasing"
    BY DEF RebaseStarts
  <1>4. RecordFits(c)'
    BY <1>2, <1>3 DEF TruthNow, RecordFits, Proposing, Merging
  <1> QED
    BY <1>1, <1>2, <1>3, <1>4, QuietTells, SameGate DEF RebaseStarts, history, Proposing, Merging

LEMMA RebaseEndsTells ==
  ASSUME GateShape, GatesAreKept, InOneProcess, TruthNow, NEW c \in Calls, RebaseEnds(c)
  PROVE  TruthNow'
  <1> USE DEF GateShape
  <1>1. Underway(c) /\ at[c].id \in Attempts
    BY CallHasWork DEF RebaseEnds, Underway
  <1>2. OthersStay(c)
    BY DEF RebaseEnds, OthersStay, CallShape
  <1>3. RecordFits(c) /\ Gating(c)
    BY DEF TruthNow, RebaseEnds, Gating, Proposing, Merging, After
  <1>4. NobodyElseHas(c, at[c].id)
    BY <1>3, NobodyElse
  <1> DEFINE a == at[c].id
             head == Replayed(branch[Build(a)], at[c].targetHead)
             g == [gate[a] EXCEPT !.step = "verifying_after", !.needsRebase = FALSE,
                                  !.branchHead = head]
  <1>5. gate[a] \in Records /\ at[c] \in Locals
    BY <1>1, RecordFields, LocalFields
  <1>6. g.step = "verifying_after" /\ g.owner = gate[a].owner /\ g.merged = gate[a].merged
    BY <1>5 DEF Records
  <1>7. stage[c] = "replaying" /\ held' = held /\ UNCHANGED <<landed, recovery, target>>
    BY DEF RebaseEnds, history
  <1>8. stage'[c] = "verifying_after" /\ at'[c].id = a
    <2>1. stage'[c] = "verifying_after"
          /\ at'[c] = [at[c] EXCEPT !.branchHead = head, !.seen = head]
      BY DEF RebaseEnds, CallShape
    <2> HIDE DEF head
    <2> QED
      BY <1>5, <2>1 DEF Locals
  <1>9. gate'[a] = g
    BY <1>1 DEF RebaseEnds
  <1>10. OthersSame(a)
    <2> SUFFICES ASSUME NEW x \in Attempts, x # a
                 PROVE  SameRecord(x)
      BY DEF OthersSame
    <2>1. gate'[x] \in {gate[x], [gate[x] EXCEPT !.needsRebase = FALSE]}
      BY DEF RebaseEnds
    <2>2. gate[x] \in Records
      BY RecordFields
    <2> QED
      BY <2>1, <2>2 DEF SameRecord, Records
  <1> HIDE DEF g, head
  <1>11. gate[a].owner = c /\ c \in held /\ ~gate[a].merged
    BY <1>3, <1>7 DEF RecordFits, Proposing
  <1>12. RecordFits(c)'
    BY <1>6, <1>7, <1>8, <1>9, <1>11 DEF RecordFits, Proposing, Merging, InProgress
  <1>13. gate'[a].step \in InProgress /\ ~gate'[a].merged
    BY <1>6, <1>9, <1>11 DEF InProgress
  <1>14. stage'[c] \in Proposing \cup {"merging"} /\ stage[c] # "moved"
    BY <1>7, <1>8 DEF Proposing
  <1> HIDE DEF a
  <1>15. a \in Attempts /\ a = at[c].id
    BY <1>1 DEF a
  <1> QED
    BY <1>2, <1>4, <1>7, <1>8, <1>10, <1>11, <1>12, <1>13, <1>14, <1>15, ProposalTells

LEMMA ProposedTells ==
  ASSUME GateShape, GatesAreKept, InOneProcess, TruthNow, NEW c \in Calls, Proposed(c)
  PROVE  TruthNow'
  <1> USE DEF GateShape
  <1>1. Underway(c) /\ at[c].id \in Attempts
    BY CallHasWork DEF Proposed, Underway
  <1>2. OthersStay(c)
    BY DEF Proposed, OthersStay, CallShape
  <1>3. RecordFits(c) /\ Gating(c)
    BY DEF TruthNow, Proposed, Gating, Proposing, Merging, After
  <1>4. NobodyElseHas(c, at[c].id)
    BY <1>3, NobodyElse
  <1> DEFINE g == [gate[at[c].id] EXCEPT !.step = "awaiting", !.owner = None,
                      !.targetHead = at[c].targetHead, !.branchHead = at[c].branchHead,
                      !.needsRebase = FALSE]
  <1>5. gate[at[c].id] \in Records
    BY <1>1, RecordFields
  <1>6. g.step \notin InProgress /\ g.merged = gate[at[c].id].merged
    BY <1>5 DEF Records, InProgress
  <1>7. Record(at[c].id, g)
    BY DEF Proposed
  <1> HIDE DEF g
  <1>8. c \in held /\ ~gate[at[c].id].merged
    BY <1>3 DEF Proposed, RecordFits, Proposing
  <1>9. RecordFits(c)'
    BY <1>8 DEF Proposed, CallShape, RecordFits, Proposing, Merging
  <1> QED
    BY <1>1, <1>2, <1>4, <1>6, <1>7, <1>8, <1>9, EndTells DEF Proposed, repo, history, Proposing

LEMMA AbandonTells ==
  ASSUME GateShape, GatesAreKept, InOneProcess, TruthNow, NEW c \in Calls, Abandon(c)
  PROVE  TruthNow'
  <1> USE DEF GateShape
  <1>1. RecordFits(c) /\ stage[c] = "verified" /\ c \notin held
    BY DEF TruthNow, Abandon
  <1> QED
    BY <1>1 DEF RecordFits, Proposing

LEMMA NotMergedTells ==
  ASSUME GateShape, GatesAreKept, InOneProcess, TruthNow, NEW c \in Calls, NotMerged(c)
  PROVE  TruthNow'
  <1> USE DEF GateShape
  <1>1. OthersStay(c)
    BY DEF NotMerged, OthersStay, CallShape
  <1>2. stage'[c] = "done" /\ gate' = gate
    BY DEF NotMerged, CallShape
  <1>3. RecordFits(c)'
    BY <1>2, OverFits
  <1> QED
    BY <1>1, <1>2, <1>3, QuietTells, SameGate DEF NotMerged, repo, history, Proposing, Merging

LEMMA CloseBeginsTells ==
  ASSUME GateShape, GatesAreKept, InOneProcess, TruthNow, NEW c \in Calls, NEW a \in Attempts, CloseBegins(c, a)
  PROVE  TruthNow'
  <1> USE DEF GateShape
  <1>1. OthersStay(c)
    BY DEF CloseBegins, OthersStay, CallShape
  <1>2. stage'[c] = "closing" /\ gate' = gate
    BY DEF CloseBegins, CallShape
  <1>3. RecordFits(c)'
    BY <1>2, OverFits
  <1> QED
    BY <1>1, <1>2, <1>3, QuietTells, SameGate DEF CloseBegins, repo, history, Proposing, Merging

LEMMA CloseEndsTells ==
  ASSUME GateShape, GatesAreKept, InOneProcess, TruthNow, NEW c \in Calls, CloseEnds(c)
  PROVE  TruthNow'
  <1> USE DEF GateShape
  <1>1. OthersStay(c)
    BY DEF CloseEnds, OthersStay, CallShape, Leave
  <1>2. stage'[c] = "done" /\ gate' = gate
    BY DEF CloseEnds, CallShape, Leave
  <1>3. RecordFits(c)'
    BY <1>2, OverFits
  <1> QED
    BY <1>1, <1>2, <1>3, QuietTells, SameGate DEF CloseEnds, repo, history, Proposing, Merging

LEMMA MergeCleansUpTells ==
  ASSUME GateShape, GatesAreKept, InOneProcess, TruthNow, NEW c \in Calls, MergeCleansUp(c)
  PROVE  TruthNow'
  <1> USE DEF GateShape
  <1>1. OthersStay(c)
    BY DEF MergeCleansUp, OthersStay, CallShape
  <1>2. stage'[c] = "telling" /\ gate' = gate
    BY DEF MergeCleansUp, CallShape
  <1>3. RecordFits(c)'
    BY <1>2, OverFits
  <1> QED
    BY <1>1, <1>2, <1>3, QuietTells, SameGate DEF MergeCleansUp, repo, history, Proposing, Merging

LEMMA MergePassedTells ==
  ASSUME GateShape, GatesAreKept, InOneProcess, TruthNow, NEW c \in Calls, NEW a \in Attempts, MergePassed(c, a)
  PROVE  TruthNow'
  <1> USE DEF GateShape
  <1>1. OthersStay(c)
    BY DEF MergePassed, OthersStay, CallShape
  <1>2. stage'[c] = "approved" /\ gate' = gate /\ c \in held'
    BY DEF MergePassed, CallShape
  <1>3. RecordFits(c)'
    BY <1>2 DEF RecordFits, Proposing, Merging
  <1> QED
    BY <1>1, <1>2, <1>3, QuietTells, SameGate DEF MergePassed, repo, history, Proposing, Merging

LEMMA MergeTellsOthersTells ==
  ASSUME GateShape, GatesAreKept, InOneProcess, TruthNow, NEW c \in Calls, MergeTellsOthers(c)
  PROVE  TruthNow'
  <1> USE DEF GateShape
  <1>1. OthersStay(c)
    BY DEF MergeTellsOthers, OthersStay, CallShape, Leave
  <1>2. stage'[c] = "done"
    BY DEF MergeTellsOthers, Leave, CallShape
  <1>3. RecordFits(c)'
    BY <1>2, OverFits
  <1>4. \A x \in Attempts : SameRecord(x)
    <2>1. gate \in [Attempts -> Records] /\ gate' = TargetMovedRecords(gate, Build(at[c].id))
      BY DEF MergeTellsOthers, RecordShape
    <2> QED
      BY <2>1, TargetMovedLeaves DEF SameRecord
  <1> QED
    BY <1>1, <1>2, <1>3, <1>4, QuietTells DEF MergeTellsOthers, repo, history, Proposing, Merging

LEMMA EnterTells ==
  ASSUME GateShape, GatesAreKept, InOneProcess, TruthNow, NEW c \in Calls, NEW a \in Attempts, Enter(c, a)
  PROVE  TruthNow'
  <1> USE DEF GateShape
  <1>1. OthersStay(c)
    BY DEF Enter, OthersStay, CallShape
  <1> DEFINE g == [gate[a] EXCEPT !.step = "verifying", !.owner = c, !.targetHead = target,
                                  !.branchHead = branch[Build(a)]]
  <1>2. gate[a] \in Records
    BY RecordFields
  <1>3. g.step = "verifying" /\ g.owner = c /\ g.merged = gate[a].merged
    BY <1>2 DEF Records
  <1>4. Record(a, g) /\ stage[c] = "idle" /\ c \in held' /\ UNCHANGED <<landed, recovery, target>>
        /\ ~gate[a].merged /\ ~GateActive(Process[c], a)
    BY DEF Enter, Authorized
  <1> HIDE DEF g
  <1>5. stage'[c] = "verifying" /\ at'[c].id = a
    BY DEF Enter, CallShape
  <1>6. gate'[a] = g /\ OthersSame(a)
    BY <1>4, OneRecord
  <1>7. RecordFits(c)'
    BY <1>3, <1>4, <1>5, <1>6 DEF RecordFits, Proposing, Merging, InProgress
  <1>8. gate'[a].step \in InProgress /\ ~gate'[a].merged
    BY <1>3, <1>4, <1>6 DEF InProgress
  <1>9. NobodyElseHas(c, a) /\ ~Gating(c)
    BY <1>4, NobodyYet DEF Gating, Proposing, Merging, After
  <1>10. stage'[c] \in Proposing \cup {"merging"} /\ stage[c] # "moved"
    BY <1>4, <1>5 DEF Proposing
  <1> QED
    BY <1>1, <1>4, <1>5, <1>6, <1>7, <1>8, <1>9, <1>10, ProposalTells

LEMMA MergeStartsTells ==
  ASSUME GateShape, GatesAreKept, InOneProcess, TruthNow, NEW c \in Calls, MergeStarts(c)
  PROVE  TruthNow'
  <1> USE DEF GateShape
  <1>1. Underway(c) /\ at[c].id \in Attempts
    BY CallHasWork DEF MergeStarts, Underway
  <1>2. OthersStay(c)
    BY DEF MergeStarts, OthersStay, CallShape, Leave
  <1>3. RecordFits(c) /\ stage[c] = "approved" /\ MayMerge(c) /\ UNCHANGED <<landed, recovery, target>>
    BY DEF TruthNow, MergeStarts, repo, history
  <1>4. PICK a \in Attempts : a = at[c].id
    BY <1>1
  <1>5. /\ ~gate[a].merged /\ gate[a].branchHead = at[c].branchHead /\ c \in held
        /\ NobodyElseHas(c, a)
    BY <1>3, <1>4, NobodyYet DEF MayMerge, Authorized, StillAwaits, RecordFits
  <1>6. CASE Leave(c)
    <2>1. RecordFits(c)'
      BY <1>6, OverFits DEF Leave, CallShape
    <2>2. /\ Failed(c, "refused").step \notin InProgress /\ ~Failed(c, "refused").merged
          /\ TargetMoved(c).step \notin InProgress /\ ~TargetMoved(c).merged
      BY <1>1, <1>4, <1>5, FailedStep DEF InProgress
    <2>3. stage'[c] = "done"
      BY <1>6 DEF Leave, CallShape
    <2>4. Record(a, Failed(c, "refused")) \/ Record(a, TargetMoved(c))
      BY <1>4, <2>3 DEF MergeStarts, CallShape
    <2>5. CASE Record(a, Failed(c, "refused"))
      BY <1>2, <1>3, <1>4, <1>5, <2>1, <2>2, <2>5, EndTells
    <2>6. CASE Record(a, TargetMoved(c))
      BY <1>2, <1>3, <1>4, <1>5, <2>1, <2>2, <2>6, EndTells
    <2> QED
      BY <2>4, <2>5, <2>6
  <1>7. CASE ~Leave(c)
    <2> DEFINE g == [gate[a] EXCEPT !.step = "merging", !.owner = c]
    <2>1. Record(a, g) /\ stage'[c] = "merging" /\ at' = at /\ held' = held
      BY <1>4, <1>7 DEF MergeStarts, CallShape
    <2>2. gate[a] \in Records
      BY RecordFields
    <2>3. g.step = "merging" /\ g.owner = c /\ g.merged = gate[a].merged
          /\ g.branchHead = gate[a].branchHead
      BY <2>2 DEF Records
    <2> HIDE DEF g
    <2>4. gate'[a] = g /\ OthersSame(a)
      BY <2>1, OneRecord
    <2>5. RecordFits(c)'
      BY <1>4, <1>5, <2>1, <2>3, <2>4 DEF RecordFits, Proposing, Merging
    <2>6. gate'[a].step \in InProgress /\ ~gate'[a].merged
      BY <1>5, <2>3, <2>4 DEF InProgress
    <2> QED
      BY <1>2, <1>3, <1>4, <1>5, <2>1, <2>4, <2>5, <2>6, ProposalTells
  <1> QED
    BY <1>6, <1>7

LEMMA FastForwardTells ==
  ASSUME GateShape, GatesAreKept, InOneProcess, TruthNow, NEW c \in Calls, FastForward(c)
  PROVE  TruthNow'
  <1> USE DEF GateShape
  <1>1. Underway(c) /\ at[c].id \in Attempts
    BY CallHasWork DEF FastForward, Underway
  <1>2. OthersStay(c)
    BY DEF FastForward, OthersStay, CallShape
  <1>3. RecordFits(c) /\ Gating(c)
    BY DEF TruthNow, FastForward, Gating, Proposing, Merging, After
  <1>4. NobodyElseHas(c, at[c].id)
    BY <1>3, NobodyElse
  <1>5. PICK a \in Attempts : a = at[c].id
    BY <1>1
  <1>6. /\ stage[c] = "merging" /\ stage'[c] = "moved" /\ at' = at /\ gate' = gate /\ held' = held
        /\ target' = at[c].branchHead /\ IsPrefix(target, target')
        /\ landed' = landed \cup {<<a, at[c].branchHead>>} /\ recovery' = recovery
    BY <1>5 DEF FastForward, CallShape
  <1>7. target' \in Seq(Changes)
    BY <1>6 DEF CallShape, Holding, Merging
  <1>8. IsPrefix(at'[c].branchHead, target')
    BY <1>6, <1>7, PrefixReflexive
  <1>9. RecordFits(c)'
    BY <1>3, <1>6, <1>8 DEF RecordFits, Proposing, Merging
  <1>10. ~gate[a].merged /\ gate[a].step = "merging"
    BY <1>3, <1>5, <1>6 DEF RecordFits, Merging
  <1>11. Truth(a)'
    BY <1>5, <1>6, <1>10 DEF Truth, Merging
  <1>12. NothingElseLanded(a)
    BY <1>6 DEF NothingElseLanded
  <1> QED
    BY <1>2, <1>4, <1>5, <1>6, <1>7, <1>9, <1>11, <1>12, OthersTell, SameGate

LEMMA MergeRecordedTells ==
  ASSUME GateShape, GatesAreKept, InOneProcess, TruthNow, NEW c \in Calls, MergeRecorded(c)
  PROVE  TruthNow'
  <1> USE DEF GateShape
  <1>1. Underway(c) /\ at[c].id \in Attempts
    BY CallHasWork DEF MergeRecorded, Underway
  <1>2. OthersStay(c)
    BY DEF MergeRecorded, OthersStay, CallShape
  <1>3. RecordFits(c) /\ Gating(c)
    BY DEF TruthNow, MergeRecorded, Gating, Proposing, Merging, After
  <1>4. NobodyElseHas(c, at[c].id)
    BY <1>3, NobodyElse
  <1>5. PICK a \in Attempts : a = at[c].id
    BY <1>1
  <1>6. /\ stage[c] = "moved" /\ stage'[c] = "cleaning" /\ Record(a, Merged(gate[a]))
        /\ UNCHANGED <<target, landed, recovery>>
    BY <1>5 DEF MergeRecorded, CallShape, repo, history
  <1>7. gate'[a] = Merged(gate[a]) /\ OthersSame(a)
    BY <1>6, OneRecord
  <1>8. gate'[a].step = "merged" /\ gate'[a].merged /\ gate'[a].branchHead = gate[a].branchHead
    BY <1>7, RecordFields, MergedStep
  <1>9. gate[a].branchHead = at[c].branchHead /\ IsPrefix(at[c].branchHead, target)
        /\ at[c].branchHead \in Seq(Changes)
    BY <1>3, <1>5, <1>6 DEF RecordFits, Merging, CallShape, Holding
  <1>10. Truth(a)'
    BY <1>6, <1>8, <1>9 DEF Truth, InProgress
  <1>11. RecordFits(c)'
    BY <1>6, OverFits
  <1>12. target' \in Seq(Changes) /\ IsPrefix(target, target')
    BY <1>6, PrefixReflexive DEF RepoShape
  <1>13. NothingElseLanded(a)
    BY <1>6 DEF NothingElseLanded
  <1> QED
    BY <1>2, <1>4, <1>5, <1>6, <1>7, <1>10, <1>11, <1>12, <1>13, OthersTell

LEMMA SettleFirstTells ==
  ASSUME GateShape, GatesAreKept, InOneProcess, TruthNow, NEW c \in Calls, NEW a \in Attempts, SettleFirst(c, a)
  PROVE  TruthNow'
  <1> USE DEF GateShape
  <1>1. gate[a].step \in InProgress /\ ~GateActive(Process[c], a)
    BY DEF SettleFirst, NeedsSettling
  <1>2. PICK d \in Calls : stage[d] \in Proposing \cup Merging /\ at[d].id = a
    BY <1>1 DEF TruthNow, Truth
  <1>3. Gating(d)
    BY <1>2 DEF Gating
  <1> QED
    BY <1>1, <1>2, <1>3, NobodyYet DEF NobodyElseHas

LEMMA RecoveryReadsTells ==
  ASSUME GateShape, GatesAreKept, InOneProcess, TruthNow, NEW a \in Attempts, RecoveryReads(a)
  PROVE  TruthNow'
  <1> USE DEF GateShape
  <1>1. gate[a].step \in InProgress /\ gate[a].owner \notin held
    BY DEF RecoveryReads, Candidate
  <1>2. PICK d \in Calls : stage[d] \in Proposing \cup Merging /\ at[d].id = a
    BY <1>1 DEF TruthNow, Truth
  <1>3. gate[a].owner = d /\ d \in held
    BY <1>2 DEF TruthNow, RecordFits
  <1> QED
    BY <1>1, <1>3

LEMMA RecoverySettlesTells ==
  ASSUME GateShape, GatesAreKept, InOneProcess, TruthNow, RecoverySettles
  PROVE  TruthNow'
  <1> USE DEF GateShape
  <1> QED
    BY DEF RecoverySettles, TruthNow

LEMMA OwnerCommitsTells ==
  ASSUME GateShape, GatesAreKept, InOneProcess, TruthNow, OwnerCommits
  PROVE  TruthNow'
  <1> USE DEF GateShape
  <1>1. target \in Seq(Changes) /\ target' \in Seq(Changes) /\ IsPrefix(target, target')
    <2>1. OwnerCommits => GateNext
      BY DEF GateNext
    <2> QED
      BY <2>1, TargetGrows DEF RepoShape
  <1>2. UNCHANGED <<stage, at, held, gate, landed, recovery>>
    BY DEF OwnerCommits, history
  <1>3. \A x \in Attempts : SameRecord(x)
    BY <1>2, SameGate
  <1>4. ASSUME NEW d \in Calls
        PROVE  RecordFits(d)'
    <2>1. stage[d] \in Proposing \cup Merging => at[d].id \in Attempts
      BY CallHasWork DEF Underway, Proposing, Merging
    <2> QED
      BY <1>1, <1>2, <1>3, <2>1, StillFits DEF TruthNow
  <1>5. \A a \in Attempts : Truth(a)'
    BY <1>1, <1>2, <1>3, StillTrue DEF TruthNow
  <1> QED
    BY <1>2, <1>4, <1>5 DEF TruthNow

LEMMA NothingTells ==
  ASSUME TruthNow, UNCHANGED <<stage, at, held, gate, landed, recovery, target>>
  PROVE  TruthNow'
  BY DEF TruthNow, RecordFits, Truth

LEMMA ContinueBuildTells ==
  ASSUME GateShape, GatesAreKept, InOneProcess, TruthNow, NEW b \in Builds, ContinueBuild(b)
  PROVE  TruthNow'
  <1> USE DEF GateShape
  <1> QED
    BY NothingTells DEF ContinueBuild, repo, history

LEMMA WorkerEndsTells ==
  ASSUME GateShape, GatesAreKept, InOneProcess, TruthNow, NEW b \in Builds, WorkerEnds(b)
  PROVE  TruthNow'
  <1> USE DEF GateShape
  <1> QED
    BY NothingTells DEF WorkerEnds, history

LEMMA LoseGateTurnTells ==
  ASSUME GateShape, GatesAreKept, InOneProcess, TruthNow, NEW c \in Calls, LoseGateTurn(c), losses' = 0
  PROVE  TruthNow'
  <1> USE DEF GateShape
  <1>1. OthersStay(c)
    BY DEF LoseGateTurn, OthersStay
  <1>2. stage'[c] \in {"idle", "done"} /\ stage' = stage
    BY Bounds DEF LoseGateTurn, Underway, WorkShape
  <1>3. RecordFits(c)'
    BY <1>2, OverFits
  <1> QED
    BY <1>1, <1>2, <1>3, QuietTells, SameGate DEF LoseGateTurn, repo, history, Proposing, Merging

LEMMA ClaimEndsTells ==
  ASSUME GateShape, GatesAreKept, InOneProcess, TruthNow, NEW c \in Calls, ClaimEnds(c)
  PROVE  TruthNow'
  <1> USE DEF GateShape
  <1>1. OthersStay(c)
    BY DEF ClaimEnds, OthersStay
  <1>2. stage'[c] \in {"idle", "done"} /\ stage' = stage
    BY Bounds DEF ClaimEnds, Underway, WorkShape
  <1>3. RecordFits(c)'
    BY <1>2, OverFits
  <1> QED
    BY <1>1, <1>2, <1>3, QuietTells, SameGate DEF ClaimEnds, repo, history, Proposing, Merging

LEMMA ProcessDiesTells ==
  ASSUME GateShape, GatesAreKept, InOneProcess, TruthNow, NEW p, ProcessDies(p), losses' = 0
  PROVE  TruthNow'
  <1> USE DEF GateShape
  <1> QED
    BY Bounds DEF ProcessDies, WorkShape

LEMMA TruthNowStep ==
  ASSUME GateShape, GatesAreKept, InOneProcess, TruthNow, losses' = 0, [GateNext]_gateVars
  PROVE  TruthNow'
  <1>1. CASE UNCHANGED gateVars
    BY <1>1, NothingTells DEF gateVars
  <1>2. ASSUME NEW c \in Calls, CallSteps(c)
        PROVE  TruthNow'
    BY <1>2, VerifyPassesTells, VerifyFailsTells, RebaseRecordedTells, RebaseRefusedTells,
       RebaseStartsTells, RebaseEndsTells, RebaseFailsTells, ProposedTells, AbandonTells,
       NotMergedTells, MergeStartsTells, FastForwardTells, FastForwardRefusedTells,
       MergeRecordedTells, MergeCleansUpTells, MergeTellsOthersTells, CloseEndsTells
    DEF CallSteps
  <1>3. ASSUME NEW c \in Calls, LoseGateTurn(c) \/ ClaimEnds(c)
        PROVE  TruthNow'
    BY <1>3, LoseGateTurnTells, ClaimEndsTells
  <1>4. ASSUME NEW c \in Calls, NEW a \in Attempts,
               SettleFirst(c, a) \/ Enter(c, a) \/ MergePassed(c, a) \/ CloseBegins(c, a)
        PROVE  TruthNow'
    BY <1>4, SettleFirstTells, EnterTells, MergePassedTells, CloseBeginsTells
  <1>5. ASSUME NEW a \in Attempts, RecoveryReads(a)
        PROVE  TruthNow'
    BY <1>5, RecoveryReadsTells
  <1>6. CASE RecoverySettles \/ OwnerCommits
    BY <1>6, RecoverySettlesTells, OwnerCommitsTells
  <1>7. ASSUME NEW b \in Builds, ContinueBuild(b) \/ WorkerEnds(b)
        PROVE  TruthNow'
    BY <1>7, ContinueBuildTells, WorkerEndsTells
  <1>8. ASSUME NEW p \in {Process[c] : c \in Calls}, ProcessDies(p)
        PROVE  TruthNow'
    BY <1>8, ProcessDiesTells
  <1> QED
    BY <1>1, <1>2, <1>3, <1>4, <1>5, <1>6, <1>7, <1>8 DEF GateNext

LEMMA LossesStay ==
  ASSUME [GateNext]_gateVars
  PROVE  losses' \in {losses, losses + 1}
  <1>1. ASSUME NEW c \in Calls, CallSteps(c)
        PROVE  losses' = losses
    BY <1>1 DEF CallSteps, VerifyPasses, VerifyFails, RebaseRecorded, RebaseRefused,
       RebaseStarts, RebaseEnds, RebaseFails, Proposed, Abandon, NotMerged, MergeStarts,
       FastForward, FastForwardRefused, MergeRecorded, MergeCleansUp, MergeTellsOthers, CloseEnds
  <1>2. ASSUME NEW c \in Calls, LoseGateTurn(c) \/ ClaimEnds(c)
        PROVE  losses' \in {losses, losses + 1}
    BY <1>2 DEF LoseGateTurn, ClaimEnds
  <1>3. ASSUME NEW c \in Calls, NEW a \in Attempts,
               SettleFirst(c, a) \/ Enter(c, a) \/ MergePassed(c, a) \/ CloseBegins(c, a)
        PROVE  losses' = losses
    BY <1>3 DEF SettleFirst, Enter, MergePassed, CloseBegins
  <1>4. ASSUME NEW a \in Attempts, RecoveryReads(a)
        PROVE  losses' = losses
    BY <1>4 DEF RecoveryReads
  <1>5. CASE RecoverySettles \/ OwnerCommits
    BY <1>5 DEF RecoverySettles, OwnerCommits
  <1>6. ASSUME NEW b \in Builds, ContinueBuild(b) \/ WorkerEnds(b)
        PROVE  losses' = losses
    BY <1>6 DEF ContinueBuild, WorkerEnds
  <1>7. ASSUME NEW p, ProcessDies(p)
        PROVE  losses' = losses + 1
    BY <1>7 DEF ProcessDies
  <1> QED
    BY <1>1, <1>2, <1>3, <1>4, <1>5, <1>6, <1>7 DEF GateNext, gateVars

LEMMA TruthStep ==
  ASSUME GateShape, GatesAreKept, InOneProcess, TruthInv, [GateNext]_gateVars
  PROVE  TruthInv'
  <1>1. losses' = 0 => losses = 0
    <2>1. losses \in Nat
      BY Bounds DEF GateShape, WorkShape
    <2>2. losses' \in {losses, losses + 1}
      BY LossesStay
    <2> QED
      BY <2>1, <2>2
  <1> QED
    BY <1>1, TruthNowStep DEF TruthInv

LEMMA TruthInitially ==
  ASSUME GateInit
  PROVE  TruthInv
  BY DEF GateInit, TruthInv, TruthNow, RecordFits, Truth, NoGate, Proposing, Merging, InProgress

LEMMA ShapesAreTypes ==
  ASSUME GateShape
  PROVE  GateTypeOK
  <1>1. \A a \in Attempts :
          /\ gate[a].step \in Steps
          /\ gate[a].owner \in Calls \cup {None}
          /\ {gate[a].needsRebase, gate[a].merged} \subseteq BOOLEAN
    BY RecordFields DEF GateShape
  <1> QED
    BY <1>1 DEF GateShape, RepoShape, WorkShape, CallShape, GateTypeOK

LEMMA TruthTells ==
  ASSUME GateShape, TruthInv
  PROVE  RecordsTellTheTruth
  <1>1. GateTypeOK
    BY ShapesAreTypes
  <1>2. ASSUME losses = 0, NEW a \in Attempts,
               gate[a].step \in {"refused", "interrupted", "target_moved"},
               <<a, gate[a].branchHead>> \in landed
        PROVE  FALSE
    <2>1. TruthNow /\ Truth(a)
      BY <1>2 DEF TruthInv, TruthNow
    <2>2. \E l \in landed : l[1] = a
      BY <1>2
    <2>3. CASE gate[a].merged
      BY <1>2, <2>1, <2>3 DEF Truth
    <2>4. ASSUME NEW c \in Calls, stage[c] = "moved", at[c].id = a
          PROVE  FALSE
      <3>1. RecordFits(c)
        BY <2>1 DEF TruthNow
      <3> QED
        BY <1>2, <2>4, <3>1 DEF RecordFits, Merging
    <2> QED
      BY <2>1, <2>2, <2>3, <2>4 DEF Truth
  <1>3. ASSUME losses = 0, NEW a \in Attempts, gate[a].merged
        PROVE  IsPrefix(gate[a].branchHead, target)
    BY <1>3 DEF TruthInv, TruthNow, Truth
  <1> QED
    BY <1>1, <1>2, <1>3 DEF RecordsTellTheTruth

(* In one process the records tell what happened as long as no call was    *)
(* cut off, also where builds are continued under their gates.             *)
THEOREM TheRecordsTellTheTruth ==
  ASSUME InOneProcess
  PROVE  GateSpec => []RecordsTellTheTruth
  <1>1. GateInit => GateShape /\ GatesAreKept /\ TruthInv
    BY GateShapeInitially, GatesKeptInitially, TruthInitially
  <1>2. GateShape /\ GatesAreKept /\ TruthInv /\ [GateNext]_gateVars
          => GateShape' /\ GatesAreKept' /\ TruthInv'
    BY GateShapeStep, GatesKeptStep, TruthStep
  <1>3. GateShape /\ TruthInv => RecordsTellTheTruth
    BY TruthTells
  <1> QED
    BY <1>1, <1>2, <1>3, PTL DEF GateSpec

=============================================================================
