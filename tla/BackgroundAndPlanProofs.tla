---------------------- MODULE BackgroundAndPlanProofs ----------------------
(***************************************************************************)
(* The passes of MemoryBackground are sound for any number of              *)
(* conversations and runners, any settings, faults and crashes: each owner *)
(* message is covered once, no batch is given up too soon, and where waits *)
(* between attempts cost no time, one runner pays at a time and within the *)
(* daily cap.  The invariant says what a runner carries with it through a  *)
(* pass; there is one lemma per part of the invariant on how it survives a *)
(* step of one runner, and then one per action.                            *)
(*                                                                         *)
(* The plan of TaskPlan, in the second half, for a tree of any size with   *)
(* any parents, dependencies and paths: what it offers is admitted, builds *)
(* that run at once are disjoint, and it never gets stuck.  What follows a *)
(* Task to its ancestors is recursive: a claim about all Tasks is proved   *)
(* from the smallest Task that would break it (UpToABound).                *)
(***************************************************************************)
EXTENDS MemoryBackground, TaskPlan, FiniteSetTheorems, TLAPS

(* The places of a runner: in a pass, and in a pass with its batch read.   *)
Working == {"read", "call", "failed", "malformed", "commit", "committing"}
Reading == Working \ {"read"}
Places == Working \cup {"idle", "next", "renew"}

Locals ==
  [pc : Places, todo : SUBSET (Sessions \X Nat), session : Sessions \cup {Nobody},
   through : Nat, from : Nat, to : Nat, malformed : Nat, call : {1, 2},
   attempt : 0..Retries, spent : Nat]

(* Values of all variables.                                                *)
TypesOK ==
  /\ TypeOK
  /\ setting \in Settings
  /\ start \in [Sessions -> Nat]
  /\ covered \in [Sessions -> [Messages -> Nat]]
  /\ tried \in [Sessions -> [Messages -> Nat]]
  /\ rn \in [Runners -> Locals]
  /\ crashes \in Nat

(* What a runner carries: a batch that starts at or behind the cursor and  *)
(* after the activation, whose first message was malformed as often as the *)
(* runner believes; spend only within a pass.                              *)
BatchOK(l) ==
  /\ l.pc \in Working \cup {"renew"} => l.session \in Sessions
  /\ l.pc \in Reading =>
       /\ start[l.session] <= l.from /\ l.from <= cursor[l.session]
       /\ l.from < l.to /\ l.to <= last[l.session]
       /\ l.malformed + (IF l.pc = "malformed" THEN 1 ELSE 0) <= tried[l.session][l.from + 1]
  /\ l.pc \notin Reading => l.spent = 0
  /\ l.pc = "read" => l.attempt = 0

BatchesOK == \A r \in Runners : BatchOK(rn[r])

(* Nothing happened before the activation.                                 *)
StartOK ==
  /\ \A s \in Sessions : start[s] <= cursor[s]
  /\ ~activated => /\ \A r \in Runners : rn[r].pc = "idle"
                   /\ \A s \in Sessions : cursor[s] = 0 /\ malformed[s] = 0

(* Runners about to record a malformed attempt at the cursor's message.    *)
Waiting(s) ==
  {r \in Runners : rn[r].pc = "malformed" /\ rn[r].session = s /\ rn[r].from = cursor[s]}

Tried(s) == IF cursor[s] < last[s] THEN tried[s][cursor[s] + 1] ELSE 0

(* What is recorded of the cursor's message, and is about to be, happened. *)
CountsOK ==
  \A s \in Sessions : IsFiniteSet(Waiting(s)) /\ malformed[s] + Cardinality(Waiting(s)) <= Tried(s)

(* One call with its retries, and how old a pass may be where it is.       *)
FullCall == (1 + Retries) * CallTime
Tries(n) == n * CallTime
Age(l) ==
  CASE l.pc = "read" -> 0
    [] l.pc = "call" -> (IF l.call = 1 THEN 0 ELSE FullCall) + Tries(l.attempt)
    [] l.pc = "committing" -> 2 * FullCall + CommitTime
    [] OTHER -> 2 * FullCall

(* A working runner holds the lease, which is no older than its pass.      *)
LeaseOK ==
  RetryDelay = 0 => \A r \in Runners : rn[r].pc \in Working =>
                      lease.holder = r /\ lease.age <= Age(rn[r])

(* The calls billed are those recorded and those of the pass that runs,    *)
(* and a call that is retried was within the cap at its first attempt.     *)
SpendOK ==
  RetryDelay = 0 /\ crashes = 0 =>
    /\ billed <= DailyCap
    /\ \A r \in Runners : rn[r].pc \in Working =>
         /\ billed <= recorded + rn[r].spent
         /\ rn[r].pc = "call" /\ rn[r].attempt > 0 => recorded + rn[r].spent + 1 <= DailyCap
    /\ (\A r \in Runners : rn[r].pc \notin Working) => billed <= recorded

IInv ==
  /\ TypesOK
  /\ BatchesOK
  /\ StartOK
  /\ CoveredOnce
  /\ CountsOK
  /\ SkippedWasTried
  /\ LeaseOK
  /\ SpendOK

-----------------------------------------------------------------------------
(* Values                                                                  *)

LEMMA SettingValues ==
  ASSUME TypesOK
  PROVE  BatchMessages \in Nat \ {0} /\ RetryDelay \in Nat /\ DailyCap \in Nat \ {0}
<1>1. setting \in [batch : Nat \ {0}, retryDelay : Nat, dailyCap : Nat \ {0}]
  BY BackgroundAssumption DEF TypesOK
<1> QED
  BY <1>1 DEF BatchMessages, RetryDelay, DailyCap

(* The time of a call's attempts, and that a whole pass fits the lease.    *)
LEMMA Times ==
  /\ FullCall \in Nat /\ CommitTime \in Nat /\ CallTime \in Nat /\ Retries \in Nat
  /\ runnerLeaseTTL \in Nat /\ runnerLeaseTTL > 2 * FullCall + CommitTime
  /\ Tries(0) = 0
  /\ \A n \in 0..Retries : /\ Tries(n) \in Nat
                           /\ Tries(n) + CallTime <= FullCall
                           /\ Tries(n + 1) = Tries(n) + CallTime
<1>1. /\ CommitTime \in Nat /\ CallTime \in Nat /\ Retries \in Nat
      /\ Slack \in Nat /\ Slack > 0
  BY BackgroundAssumption
<1>2. FullCall \in Nat
  BY <1>1 DEF FullCall
<1>3. runnerLeaseTTL = 2 * FullCall + CommitTime + Slack
  BY <1>1 DEF runnerLeaseTTL, FullCall
<1>4. Tries(0) = 0
  BY <1>1 DEF Tries
<1>5. ASSUME NEW n \in 0..Retries
      PROVE  /\ Tries(n) \in Nat
             /\ Tries(n) + CallTime <= FullCall
             /\ Tries(n + 1) = Tries(n) + CallTime
  <2>1. n * CallTime \in Nat /\ (n + 1) * CallTime = n * CallTime + CallTime
    BY <1>1
  <2>2. (n + 1) * CallTime <= (1 + Retries) * CallTime
    <3>1. PICK k \in Nat : 1 + Retries = n + 1 + k
      BY <1>1
    <3>2. (1 + Retries) * CallTime = (n + 1) * CallTime + k * CallTime
      BY <1>1, <3>1
    <3>3. k * CallTime \in Nat
      BY <1>1
    <3> QED
      BY <1>1, <2>1, <3>2, <3>3
  <2> QED
    BY <2>1, <2>2 DEF Tries, FullCall
<1> QED
  BY <1>1, <1>2, <1>3, <1>4, <1>5

(* The fields of a runner.                                                 *)
LEMMA LocalFields ==
  ASSUME NEW l \in Locals
  PROVE  /\ l.pc \in Places /\ l.todo \subseteq Sessions \X Nat
         /\ l.session \in Sessions \cup {Nobody}
         /\ l.through \in Nat /\ l.from \in Nat /\ l.to \in Nat /\ l.malformed \in Nat
         /\ l.call \in {1, 2} /\ l.attempt \in 0..Retries /\ l.spent \in Nat
BY DEF Locals

(* No pass is older than the lease can be.                                 *)
LEMMA AgeIsBounded ==
  ASSUME NEW l \in Locals, l.pc \in Working
  PROVE  Age(l) \in Nat /\ Age(l) < runnerLeaseTTL
<1>1. l.call \in {1, 2} /\ l.attempt \in 0..Retries
  BY LocalFields
<1>2. Tries(l.attempt) \in Nat /\ Tries(l.attempt) + CallTime <= FullCall
  BY <1>1, Times
<1> QED
  BY <1>1, <1>2, Times DEF Age, Working

LEMMA IdleIsLocal == Idle \in Locals
BY Times DEF Idle, Locals, Places, Working

-----------------------------------------------------------------------------
(* A step of one runner                                                    *)

(* r moves, and nobody else.                                               *)
Moves(r) == /\ rn' \in [Runners -> Locals]
            /\ \A q \in Runners \ {r} : rn'[q] = rn[q]

(* The marks of the conversations only grow.                               *)
Grows ==
  /\ start' = start
  /\ \A s \in Sessions : cursor[s] <= cursor'[s] /\ last[s] <= last'[s]
  /\ \A s \in Sessions, k \in Messages : tried[s][k] <= tried'[s][k]

LEMMA BatchStays ==
  ASSUME TypesOK, TypesOK', Grows, NEW l \in Locals, BatchOK(l)
  PROVE  BatchOK(l)'
<1>1. CASE l.pc \notin Reading
  BY <1>1 DEF BatchOK
<1>2. CASE l.pc \in Reading
  <2> DEFINE s == l.session
  <2>1. s \in Sessions /\ l.from \in Nat /\ l.to \in Nat /\ l.malformed \in Nat
    BY <1>2, LocalFields DEF BatchOK, Reading
  <2>2. /\ start[s] <= l.from /\ l.from <= cursor[s] /\ l.from < l.to /\ l.to <= last[s]
        /\ l.malformed + (IF l.pc = "malformed" THEN 1 ELSE 0) <= tried[s][l.from + 1]
    BY <1>2 DEF BatchOK
  <2>3. /\ start'[s] = start[s] /\ cursor[s] <= cursor'[s] /\ last[s] <= last'[s]
        /\ cursor[s] \in Nat /\ cursor'[s] \in Nat
        /\ last[s] \in 0..MaxMessages /\ last'[s] \in 0..MaxMessages
    BY <2>1 DEF Grows, TypesOK, TypeOK
  <2>4. MaxMessages \in Nat
    BY BackgroundAssumption
  <2>5. l.from + 1 \in Messages
    BY <2>1, <2>2, <2>3, <2>4 DEF Messages
  <2>6. /\ tried[s][l.from + 1] \in Nat /\ tried'[s][l.from + 1] \in Nat
        /\ tried[s][l.from + 1] <= tried'[s][l.from + 1]
    BY <2>1, <2>5 DEF Grows, TypesOK
  <2>7. l.from <= cursor'[s] /\ l.to <= last'[s]
    BY <2>1, <2>2, <2>3, <2>4
  <2>8. l.malformed + (IF l.pc = "malformed" THEN 1 ELSE 0) <= tried'[s][l.from + 1]
    BY <2>1, <2>2, <2>6
  <2>9. l.pc \in Working \cup {"renew"} => s \in Sessions
    BY <2>1
  <2> QED
    BY <1>2, <2>2, <2>3, <2>7, <2>8, <2>9 DEF BatchOK
<1> QED
  BY <1>1, <1>2

LEMMA BatchesStay ==
  ASSUME TypesOK, TypesOK', BatchesOK, Grows, NEW r \in Runners, Moves(r),
         BatchOK(rn[r])'
  PROVE  BatchesOK'
<1>1. ASSUME NEW q \in Runners \ {r}
      PROVE  BatchOK(rn[q])'
  <2>1. PICK l \in Locals : l = rn[q] /\ rn'[q] = l
    BY DEF Moves, TypesOK
  <2>2. BatchOK(l)'
    BY <2>1, BatchStays DEF BatchesOK
  <2> QED
    BY <2>1, <2>2 DEF BatchOK
<1> QED
  BY <1>1 DEF BatchesOK

LEMMA AgeIs ==
  ASSUME NEW l
  PROVE  /\ l.pc = "read" => Age(l) = 0
         /\ l.pc = "call" => Age(l) = (IF l.call = 1 THEN 0 ELSE FullCall) + Tries(l.attempt)
         /\ l.pc = "committing" => Age(l) = 2 * FullCall + CommitTime
         /\ l.pc \in {"failed", "malformed", "commit"} => Age(l) = 2 * FullCall
BY Zenon DEF Age

LEMMA TriedGrows ==
  ASSUME TypesOK, TypesOK', Grows, NEW s \in Sessions, cursor'[s] = cursor[s]
  PROVE  Tried(s) \in Nat /\ Tried(s)' \in Nat /\ Tried(s) <= Tried(s)'
<1>1. /\ cursor[s] \in Nat /\ last[s] \in 0..MaxMessages /\ last'[s] \in 0..MaxMessages
      /\ last[s] <= last'[s] /\ MaxMessages \in Nat
  BY BackgroundAssumption DEF TypesOK, TypeOK, Grows
<1>2. CASE cursor[s] < last[s]
  <2>1. cursor[s] + 1 \in Messages /\ cursor[s] < last'[s]
    BY <1>1, <1>2 DEF Messages
  <2>2. /\ tried[s][cursor[s] + 1] \in Nat /\ tried'[s][cursor[s] + 1] \in Nat
        /\ tried[s][cursor[s] + 1] <= tried'[s][cursor[s] + 1]
    BY <2>1 DEF TypesOK, Grows
  <2> QED
    BY <1>2, <2>1, <2>2 DEF Tried
<1>3. CASE ~(cursor[s] < last[s])
  <2>1. cursor[s] < last'[s] => cursor[s] + 1 \in Messages
    BY <1>1 DEF Messages
  <2>2. cursor[s] < last'[s] => tried'[s][cursor[s] + 1] \in Nat
    BY <2>1 DEF TypesOK
  <2> QED
    BY <1>1, <1>3, <2>2 DEF Tried
<1> QED
  BY <1>2, <1>3

(* A conversation whose cursor and count stay, with fewer waiting, is      *)
(* still counted right; one whose cursor moves has nobody waiting.         *)
CountOK(s) == IsFiniteSet(Waiting(s)) /\ malformed[s] + Cardinality(Waiting(s)) <= Tried(s)

LEMMA FewerWait ==
  ASSUME TypesOK, TypesOK', CountsOK, Grows, NEW s \in Sessions,
         cursor'[s] = cursor[s], malformed'[s] <= malformed[s], Waiting(s)' \subseteq Waiting(s)
  PROVE  CountOK(s)'
<1>1. IsFiniteSet(Waiting(s)) /\ malformed[s] + Cardinality(Waiting(s)) <= Tried(s)
  BY DEF CountsOK
<1>2. /\ IsFiniteSet(Waiting(s)') /\ Cardinality(Waiting(s)') \in Nat
      /\ Cardinality(Waiting(s)) \in Nat
      /\ Cardinality(Waiting(s)') <= Cardinality(Waiting(s))
  BY <1>1, FS_Subset, FS_CardinalityType
<1>3. Tried(s) \in Nat /\ Tried(s)' \in Nat /\ Tried(s) <= Tried(s)'
  BY TriedGrows
<1>4. malformed[s] \in Nat /\ malformed'[s] \in Nat
  BY DEF TypesOK, TypeOK
<1>5. malformed'[s] + Cardinality(Waiting(s)') <= Tried(s)'
  BY <1>1, <1>2, <1>3, <1>4
<1> QED
  BY <1>2, <1>5 DEF CountOK

LEMMA NobodyWaits ==
  ASSUME TypesOK', NEW s \in Sessions, malformed'[s] = 0, Waiting(s)' = {}
  PROVE  CountOK(s)'
<1>1. /\ cursor'[s] \in Nat /\ last'[s] \in 0..MaxMessages /\ MaxMessages \in Nat
  BY BackgroundAssumption DEF TypesOK, TypeOK
<1>2. Tried(s)' \in Nat
  <2>1. cursor'[s] < last'[s] => cursor'[s] + 1 \in Messages
    BY <1>1 DEF Messages
  <2>2. cursor'[s] < last'[s] => tried'[s][cursor'[s] + 1] \in Nat
    BY <2>1 DEF TypesOK
  <2> QED
    BY <2>2 DEF Tried
<1>3. IsFiniteSet(Waiting(s)') /\ Cardinality(Waiting(s)') = 0
  BY FS_EmptySet
<1>4. malformed'[s] + Cardinality(Waiting(s)') <= Tried(s)'
  BY <1>2, <1>3
<1> QED
  BY <1>3, <1>4 DEF CountOK

LEMMA CountsAre ==
  /\ CountsOK <=> \A s \in Sessions : CountOK(s)
  /\ CountsOK' <=> \A s \in Sessions : CountOK(s)'
BY Zenon DEF CountsOK, CountOK

(* Where a step neither moves a cursor, counts an answer nor makes anybody *)
(* wait, the counts stay right.                                            *)
LEMMA CountsStay ==
  ASSUME TypesOK, TypesOK', CountsOK, Grows, NEW r \in Runners, Moves(r),
         cursor' = cursor, \A s \in Sessions : malformed'[s] <= malformed[s],
         rn'[r].pc = "malformed" => rn'[r] = rn[r]
  PROVE  CountsOK'
<1>1. ASSUME NEW s \in Sessions
      PROVE  CountOK(s)'
  <2>1. Waiting(s)' \subseteq Waiting(s)
    <3>1. ASSUME NEW q \in Runners, rn'[q].pc = "malformed"
          PROVE  rn'[q] = rn[q]
      BY <3>1 DEF Moves
    <3> QED
      BY <3>1 DEF Waiting
  <2> QED
    BY <2>1, FewerWait
<1> QED
  BY <1>1, CountsAre

(* A runner that moves the cursor past its batch finds nobody waiting at   *)
(* the new one.                                                            *)
LEMMA CountsMove ==
  ASSUME TypesOK, TypesOK', BatchesOK, CountsOK, Grows, NEW r \in Runners, Moves(r),
         NEW s \in Sessions, cursor[s] < cursor'[s], malformed'[s] = 0,
         rn[r].session = s, rn'[r].pc # "malformed",
         \A q \in Sessions \ {s} : cursor'[q] = cursor[q] /\ malformed'[q] = malformed[q]
  PROVE  CountsOK'
<1>1. CountOK(s)'
  <2>1. ASSUME NEW q \in Waiting(s)'
        PROVE  FALSE
    <3>1. q \in Runners /\ rn'[q].pc = "malformed" /\ rn'[q].session = s /\ rn'[q].from = cursor'[s]
      BY DEF Waiting
    <3>2. q # r /\ rn'[q] = rn[q]
      BY <3>1 DEF Moves
    <3>3. rn[q].from <= cursor[s] /\ rn[q].from \in Nat
      BY <3>1, <3>2, LocalFields DEF BatchesOK, BatchOK, TypesOK, Reading, Working
    <3>4. cursor[s] \in Nat /\ cursor'[s] \in Nat
      BY DEF TypesOK, TypeOK
    <3> QED
      BY <3>1, <3>2, <3>3, <3>4
  <2>2. Waiting(s)' = {}
    BY <2>1
  <2> QED
    BY <2>2, NobodyWaits
<1>2. ASSUME NEW q \in Sessions \ {s}
      PROVE  CountOK(q)'
  <2>1. Waiting(q)' \subseteq Waiting(q)
    <3>1. ASSUME NEW p \in Waiting(q)'
          PROVE  p \in Waiting(q)
      <4>1. p \in Runners /\ rn'[p].pc = "malformed" /\ rn'[p].session = q /\ rn'[p].from = cursor'[q]
        BY DEF Waiting
      <4>2. p # r /\ rn'[p] = rn[p] /\ cursor'[q] = cursor[q]
        BY <4>1 DEF Moves
      <4> QED
        BY <4>1, <4>2 DEF Waiting
    <3> QED
      BY <3>1
  <2>2. malformed'[q] <= malformed[q]
    BY DEF TypesOK, TypeOK
  <2>3. q \in Sessions /\ cursor'[q] = cursor[q]
    OBVIOUS
  <2> QED
    BY <2>1, <2>2, <2>3, FewerWait
<1> QED
  BY <1>1, <1>2, CountsAre

(* An answer that does not validate is counted with the runner that waits. *)
LEMMA CountsAdd ==
  ASSUME TypesOK, TypesOK', BatchesOK, CountsOK, Grows, NEW r \in Runners, Moves(r),
         rn[r].pc = "call", cursor' = cursor, malformed' = malformed, last' = last,
         rn'[r].session = rn[r].session, rn'[r].from = rn[r].from,
         tried' = [tried EXCEPT ![rn[r].session] = [k \in Messages |->
           IF rn[r].from < k /\ k <= rn[r].to THEN @[k] + 1 ELSE @[k]]]
  PROVE  CountsOK'
<1> DEFINE s == rn[r].session
<1>1. s \in Sessions /\ rn[r].from \in Nat /\ rn[r].to \in Nat
      /\ rn[r].from < rn[r].to /\ rn[r].to <= last[s]
  BY LocalFields DEF BatchesOK, BatchOK, TypesOK, Reading, Working
<1>2. ASSUME NEW q \in Sessions, \A p \in Waiting(q)' : p # r
      PROVE  CountOK(q)'
  <2>1. Waiting(q)' \subseteq Waiting(q)
    BY <1>2 DEF Waiting, Moves
  <2>2. malformed'[q] <= malformed[q] /\ cursor'[q] = cursor[q]
    BY DEF TypesOK, TypeOK
  <2> QED
    BY <2>1, <2>2, FewerWait
<1>3. ASSUME NEW q \in Sessions, r \in Waiting(q)'
      PROVE  CountOK(q)'
  <2>1. q = s /\ rn[r].from = cursor[q]
    BY <1>3 DEF Waiting
  <2>2. /\ cursor[q] \in Nat /\ last[q] \in 0..MaxMessages /\ MaxMessages \in Nat
        /\ malformed[q] \in Nat
    BY BackgroundAssumption DEF TypesOK, TypeOK
  <2>3. cursor[q] < last[q] /\ cursor[q] + 1 \in Messages
    BY <1>1, <2>1, <2>2 DEF Messages
  <2>4. tried[q][cursor[q] + 1] \in Nat /\ tried'[q][cursor[q] + 1] = tried[q][cursor[q] + 1] + 1
    <3>1. tried \in [Sessions -> [Messages -> Nat]]
      BY DEF TypesOK
    <3>2. rn[r].from < cursor[q] + 1 /\ cursor[q] + 1 <= rn[r].to
      BY <1>1, <2>1, <2>2
    <3> QED
      BY <2>1, <2>3, <3>1, <3>2
  <2>5. Tried(q)' = Tried(q) + 1
    BY <2>3, <2>4 DEF Tried
  <2>6. IsFiniteSet(Waiting(q)) /\ malformed[q] + Cardinality(Waiting(q)) <= Tried(q)
    BY DEF CountsOK
  <2>7. Waiting(q)' \subseteq Waiting(q) \cup {r}
    BY DEF Waiting, Moves
  <2>8. /\ IsFiniteSet(Waiting(q) \cup {r}) /\ Cardinality(Waiting(q) \cup {r}) \in Nat
        /\ Cardinality(Waiting(q)) \in Nat
        /\ Cardinality(Waiting(q) \cup {r}) <= Cardinality(Waiting(q)) + 1
    <3>1. IsFiniteSet(Waiting(q))
      BY <2>6
    <3>2. Cardinality(Waiting(q)) \in Nat
      BY <3>1, FS_CardinalityType
    <3>3. /\ IsFiniteSet(Waiting(q) \cup {r})
          /\ \/ Cardinality(Waiting(q) \cup {r}) = Cardinality(Waiting(q))
             \/ Cardinality(Waiting(q) \cup {r}) = Cardinality(Waiting(q)) + 1
      BY <3>1, FS_AddElement
    <3> QED
      BY <3>2, <3>3
  <2>9. /\ IsFiniteSet(Waiting(q)') /\ Cardinality(Waiting(q)') \in Nat
        /\ Cardinality(Waiting(q)') <= Cardinality(Waiting(q) \cup {r})
    <3>1. Waiting(q)' \in SUBSET (Waiting(q) \cup {r})
      BY <2>7
    <3> QED
      BY <2>8, <3>1, FS_Subset, FS_CardinalityType
  <2>10. Tried(q) \in Nat
    BY <2>3, <2>4 DEF Tried
  <2>11. malformed'[q] + Cardinality(Waiting(q)') <= Tried(q)'
    BY <2>2, <2>5, <2>6, <2>8, <2>9, <2>10
  <2> QED
    BY <2>9, <2>11 DEF CountOK
<1> QED
  BY <1>2, <1>3, CountsAre

(* A runner that records its malformed attempt no longer waits.            *)
LEMMA CountsRecord ==
  ASSUME TypesOK, TypesOK', CountsOK, Grows, NEW r \in Runners, Moves(r),
         rn[r].pc = "malformed", rn'[r].pc # "malformed", cursor' = cursor, CursorHeld(r),
         NEW s \in Sessions, s = rn[r].session, malformed'[s] = malformed[s] + 1,
         \A q \in Sessions \ {s} : malformed'[q] = malformed[q]
  PROVE  CountsOK'
<1>1. ASSUME NEW q \in Sessions
      PROVE  Waiting(q)' \subseteq Waiting(q) \ {r}
  <2>1. ASSUME NEW p \in Waiting(q)'
        PROVE  p \in Waiting(q) \ {r}
    <3>1. p \in Runners /\ rn'[p].pc = "malformed" /\ rn'[p].session = q /\ rn'[p].from = cursor'[q]
      BY DEF Waiting
    <3>2. p # r /\ rn'[p] = rn[p]
      BY <3>1 DEF Moves
    <3> QED
      BY <3>1, <3>2 DEF Waiting
  <2> QED
    BY <2>1
<1>2. ASSUME NEW q \in Sessions \ {s}
      PROVE  CountOK(q)'
  <2>1. q \in Sessions /\ malformed'[q] <= malformed[q] /\ cursor'[q] = cursor[q]
    BY DEF TypesOK, TypeOK
  <2>2. Waiting(q)' \subseteq Waiting(q)
    BY <1>1, <2>1
  <2> QED
    BY <2>1, <2>2, FewerWait
<1>3. CountOK(s)'
  <2>1. r \in Waiting(s)
    BY DEF Waiting, CursorHeld
  <2>2. IsFiniteSet(Waiting(s)) /\ malformed[s] + Cardinality(Waiting(s)) <= Tried(s)
    BY DEF CountsOK
  <2>3. /\ IsFiniteSet(Waiting(s) \ {r})
        /\ Cardinality(Waiting(s) \ {r}) = Cardinality(Waiting(s)) - 1
        /\ Cardinality(Waiting(s)) \in Nat /\ Cardinality(Waiting(s) \ {r}) \in Nat
    BY <2>1, <2>2, FS_RemoveElement, FS_CardinalityType
  <2>4. /\ IsFiniteSet(Waiting(s)') /\ Cardinality(Waiting(s)') \in Nat
        /\ Cardinality(Waiting(s)') <= Cardinality(Waiting(s) \ {r})
    <3>1. Waiting(s)' \in SUBSET (Waiting(s) \ {r})
      BY <1>1
    <3> QED
      BY <2>3, <3>1, FS_Subset, FS_CardinalityType
  <2>5. Tried(s) \in Nat /\ Tried(s)' \in Nat /\ Tried(s) <= Tried(s)'
    BY TriedGrows
  <2>6. malformed[s] \in Nat
    BY DEF TypesOK, TypeOK
  <2>7. malformed'[s] + Cardinality(Waiting(s)') <= Tried(s)'
    BY <2>2, <2>3, <2>4, <2>5, <2>6
  <2> QED
    BY <2>4, <2>7 DEF CountOK
<1> QED
  BY <1>2, <1>3, CountsAre

(* A batch that starts at the cursor is covered with the cursor's move.    *)
LEMMA CoverCovers ==
  ASSUME TypesOK, BatchesOK, CoveredOnce, NEW r \in Runners, rn[r].pc \in Reading,
         CursorHeld(r), Cover(r), start' = start,
         cursor' = [cursor EXCEPT ![rn[r].session] = rn[r].to]
  PROVE  CoveredOnce'
<1> DEFINE s == rn[r].session
<1>1. /\ s \in Sessions /\ rn[r].from \in Nat /\ rn[r].to \in Nat
      /\ start[s] <= rn[r].from /\ rn[r].from < rn[r].to /\ cursor[s] = rn[r].from
      /\ start[s] \in Nat
  BY LocalFields DEF BatchesOK, BatchOK, TypesOK, Reading, CursorHeld
<1>2. covered \in [Sessions -> [Messages -> Nat]] /\ cursor \in [Sessions -> Nat]
  BY DEF TypesOK, TypeOK
<1>3. ASSUME NEW q \in Sessions, NEW k \in Messages
      PROVE  covered'[q][k] = IF start'[q] < k /\ k <= cursor'[q] THEN 1 ELSE 0
  <2>1. covered[q][k] = IF start[q] < k /\ k <= cursor[q] THEN 1 ELSE 0
    BY DEF CoveredOnce
  <2>2. CASE q # s
    BY <1>2, <2>1, <2>2 DEF Cover
  <2>3. CASE q = s
    <3>1. covered'[q][k] = IF rn[r].from < k /\ k <= rn[r].to THEN covered[q][k] + 1 ELSE covered[q][k]
      BY <1>2, <2>3 DEF Cover
    <3>2. cursor'[q] = rn[r].to /\ k \in Nat /\ start[q] \in Nat
      BY <1>1, <1>2, <2>3 DEF Messages
    <3> QED
      BY <1>1, <2>1, <2>3, <3>1, <3>2
  <2> QED
    BY <2>2, <2>3
<1> QED
  BY <1>3 DEF CoveredOnce

-----------------------------------------------------------------------------
(* The lease and the spend                                                 *)

OthersRest(r) == RetryDelay = 0 => \A q \in Runners \ {r} : rn[q].pc \notin Working

LEMMA SettingStays ==
  ASSUME setting' = setting
  PROVE  RetryDelay' = RetryDelay /\ DailyCap' = DailyCap
BY DEF RetryDelay, DailyCap

(* A working runner holds a lease that nobody else can take.               *)
LEMMA WorkerHolds ==
  ASSUME TypesOK, LeaseOK, RetryDelay = 0, NEW q \in Runners, rn[q].pc \in Working
  PROVE  lease.holder = q /\ lease.age < runnerLeaseTTL
<1>1. lease.holder = q /\ lease.age <= Age(rn[q])
  BY DEF LeaseOK
<1>2. Age(rn[q]) \in Nat /\ Age(rn[q]) < runnerLeaseTTL
  BY AgeIsBounded DEF TypesOK
<1>3. lease.age \in 0..runnerLeaseTTL /\ runnerLeaseTTL \in Nat
  BY Times DEF TypesOK, TypeOK
<1> QED
  BY <1>1, <1>2, <1>3

LEMMA LeaseExcludes ==
  ASSUME TypesOK, LeaseOK, NEW r \in Runners, LeaseFree(r) \/ rn[r].pc \in Working \/ lease.holder = r
  PROVE  OthersRest(r)
<1> SUFFICES ASSUME RetryDelay = 0, NEW q \in Runners \ {r}, rn[q].pc \in Working
             PROVE  FALSE
  BY DEF OthersRest
<1>1. lease.holder = q /\ lease.age < runnerLeaseTTL
  BY WorkerHolds
<1>2. CASE LeaseFree(r)
  <2>1. lease.age \in 0..runnerLeaseTTL /\ runnerLeaseTTL \in Nat
    BY Times DEF TypesOK, TypeOK
  <2> QED
    BY <1>1, <1>2, <2>1, BackgroundAssumption DEF LeaseFree
<1>3. CASE rn[r].pc \in Working
  BY <1>1, <1>3, WorkerHolds
<1> QED
  BY <1>1, <1>2, <1>3

LEMMA LeaseMoves ==
  ASSUME LeaseOK, setting' = setting, NEW r \in Runners, Moves(r), lease' = lease \/ OthersRest(r),
         RetryDelay = 0 /\ rn'[r].pc \in Working => lease'.holder = r /\ lease'.age <= Age(rn'[r])
  PROVE  LeaseOK'
<1> SUFFICES ASSUME RetryDelay = 0, NEW q \in Runners, rn'[q].pc \in Working
             PROVE  lease'.holder = q /\ lease'.age <= Age(rn'[q])
  BY SettingStays DEF LeaseOK
<1>1. CASE q = r
  BY <1>1
<1>2. CASE q # r
  <2>1. rn'[q] = rn[q]
    BY <1>2 DEF Moves
  <2>2. lease' = lease
    BY <1>2, <2>1 DEF OthersRest
  <2> QED
    BY <2>1, <2>2 DEF LeaseOK
<1> QED
  BY <1>1, <1>2

(* What the spend is while one runner may work.                            *)
SpendOf(l) ==
  /\ l.pc \in Working =>
       /\ billed <= recorded + l.spent
       /\ l.pc = "call" /\ l.attempt > 0 => recorded + l.spent + 1 <= DailyCap
  /\ l.pc \notin Working => billed <= recorded
  /\ billed <= DailyCap

LEMMA SpendIs ==
  ASSUME SpendOK, RetryDelay = 0, crashes = 0, NEW r \in Runners, OthersRest(r)
  PROVE  SpendOf(rn[r])
BY DEF SpendOK, SpendOf, OthersRest

LEMMA SpendMoves ==
  ASSUME setting' = setting, NEW r \in Runners, Moves(r),
         RetryDelay = 0 /\ crashes' = 0 => OthersRest(r) /\ SpendOf(rn[r])'
  PROVE  SpendOK'
<1> SUFFICES ASSUME RetryDelay = 0, crashes' = 0
             PROVE  /\ billed' <= DailyCap
                    /\ \A q \in Runners : rn'[q].pc \in Working =>
                         /\ billed' <= recorded' + rn'[q].spent
                         /\ rn'[q].pc = "call" /\ rn'[q].attempt > 0
                              => recorded' + rn'[q].spent + 1 <= DailyCap
                    /\ (\A q \in Runners : rn'[q].pc \notin Working) => billed' <= recorded'
  BY SettingStays DEF SpendOK
<1>1. \A q \in Runners \ {r} : rn'[q].pc \notin Working
  BY DEF Moves, OthersRest
<1>2. /\ rn'[r].pc \in Working =>
            /\ billed' <= recorded' + rn'[r].spent
            /\ rn'[r].pc = "call" /\ rn'[r].attempt > 0
                 => recorded' + rn'[r].spent + 1 <= DailyCap
      /\ rn'[r].pc \notin Working => billed' <= recorded'
      /\ billed' <= DailyCap
  BY SettingStays DEF SpendOf
<1> QED
  BY <1>1, <1>2

LEMMA SpendStays ==
  ASSUME SpendOK, setting' = setting, NEW r \in Runners, Moves(r),
         rn[r].pc \notin Working, rn'[r].pc \notin Working,
         billed' = billed, recorded' = recorded, crashes' = crashes
  PROVE  SpendOK'
<1>1. \A q \in Runners : rn'[q].pc \in Working => rn'[q] = rn[q]
  BY DEF Moves
<1>2. (\A q \in Runners : rn'[q].pc \notin Working) => \A q \in Runners : rn[q].pc \notin Working
  BY DEF Moves
<1> QED
  BY <1>1, <1>2, SettingStays DEF SpendOK

-----------------------------------------------------------------------------
(* Operations                                                              *)

LEMMA MovesTo ==
  ASSUME TypesOK, NEW r \in Runners, NEW l \in Locals, rn' = [rn EXCEPT ![r] = l]
  PROVE  Moves(r) /\ rn'[r] = l
BY DEF TypesOK, Moves

(* A runner without a batch carries nothing that could go wrong.           *)
LEMMA RestIsOK ==
  ASSUME NEW r, rn'[r].pc \notin Reading, rn'[r].spent = 0,
         rn'[r].pc \in {"read", "renew"} => rn'[r].session \in Sessions,
         rn'[r].pc = "read" => rn'[r].attempt = 0
  PROVE  BatchOK(rn[r])'
BY DEF BatchOK, Reading, Working

LEMMA AfterIs ==
  ASSUME TypesOK, NEW r \in Runners, NEW progress \in BOOLEAN, After(r, progress),
         rn[r].session \in Sessions
  PROVE  Moves(r) /\ rn'[r].pc \in {"renew", "next"} /\ BatchOK(rn[r])'
<1>1. rn[r] \in Locals
  BY DEF TypesOK
<1>2. CASE progress /\ rn[r].through > rn[r].to
  <2> DEFINE l == [rn[r] EXCEPT !.pc = "renew", !.spent = 0]
  <2>1. l \in Locals /\ l.pc = "renew" /\ l.spent = 0 /\ l.session = rn[r].session
    BY <1>1 DEF Locals, Places, Working
  <2>2. rn' = [rn EXCEPT ![r] = l]
    BY <1>2 DEF After
  <2>3. Moves(r) /\ rn'[r] = l
    BY <2>1, <2>2, MovesTo
  <2> QED
    BY <2>1, <2>3, RestIsOK DEF Reading, Working
<1>3. CASE ~(progress /\ rn[r].through > rn[r].to)
  <2> DEFINE l == [Idle EXCEPT !.pc = "next", !.todo = rn[r].todo]
  <2>1. l \in Locals
    BY <1>1, IdleIsLocal, LocalFields DEF Locals, Places, Working
  <2>2. l.pc = "next" /\ l.spent = 0
    BY DEF Idle
  <2>3. rn' = [rn EXCEPT ![r] = l]
    BY <1>3 DEF After
  <2>4. Moves(r) /\ rn'[r] = l
    BY <2>1, <2>3, MovesTo
  <2> QED
    BY <2>2, <2>4, RestIsOK DEF Reading, Working
<1> QED
  BY <1>2, <1>3

LEMMA FailPassIs ==
  ASSUME TypesOK, NEW r \in Runners, rn[r].session \in Sessions, NEW how,
         NEW bad \in BOOLEAN, NEW spent \in Nat, FailPass(r, how, bad, spent)
  PROVE  /\ recorded' = recorded + spent /\ recorded' \in Nat
         /\ cursor' = cursor /\ covered' = covered /\ hasty' = hasty
         /\ backoff' \in [Sessions -> BOOLEAN] /\ malformed' \in [Sessions -> Nat]
         /\ \A q \in Sessions \ {rn[r].session} : malformed'[q] = malformed[q]
         /\ ~CursorHeld(r) \/ how = "deferred"
              => malformed'[rn[r].session] = malformed[rn[r].session]
         /\ CursorHeld(r) /\ how # "deferred"
              => malformed'[rn[r].session] = IF bad THEN malformed[rn[r].session] + 1 ELSE 0
<1>1. /\ recorded \in Nat /\ backoff \in [Sessions -> BOOLEAN] /\ malformed \in [Sessions -> Nat]
  BY DEF TypesOK, TypeOK
<1>2. recorded' = recorded + spent /\ cursor' = cursor /\ covered' = covered /\ hasty' = hasty
  BY DEF FailPass, insertRun
<1>3. CASE CursorHeld(r)
  <2> DEFINE s == rn[r].session
             v == IF how = "deferred" THEN malformed[s] ELSE IF bad THEN malformed[s] + 1 ELSE 0
  <2>1. malformed' = [malformed EXCEPT ![s] = v] /\ backoff' = [backoff EXCEPT ![s] = TRUE]
    BY <1>3 DEF FailPass
  <2>2. v \in Nat
    BY <1>1
  <2>3. /\ malformed' \in [Sessions -> Nat] /\ malformed'[s] = v
        /\ \A q \in Sessions \ {s} : malformed'[q] = malformed[q]
    <3> HIDE DEF v
    <3> QED
      BY <1>1, <2>1, <2>2
  <2>4. backoff' \in [Sessions -> BOOLEAN]
    BY <1>1, <2>1
  <2> QED
    BY <1>1, <1>2, <1>3, <2>3, <2>4
<1>4. CASE ~CursorHeld(r)
  BY <1>1, <1>2, <1>4 DEF FailPass
<1> QED
  BY <1>1, <1>2, <1>3, <1>4

LEMMA AcquireIs ==
  ASSUME TypesOK, LeaseOK, NEW r \in Runners, AcquireRunner(r)
  PROVE  /\ lease' \in [holder : Runners \cup {Nobody, Dead}, age : 0..runnerLeaseTTL]
         /\ lease'.holder = r /\ lease'.age = 0 /\ OthersRest(r)
BY LeaseExcludes, Times DEF AcquireRunner

LEMMA TakesIs ==
  ASSUME TypesOK, NEW r \in Runners, NEW time \in Nat, Takes(r, time)
  PROVE  /\ lease' \in [holder : Runners \cup {Nobody, Dead}, age : 0..runnerLeaseTTL]
         /\ lease.holder # r => lease' = lease
         /\ lease.holder = r => lease'.holder = r /\ lease'.age <= lease.age + time
<1>1. lease \in [holder : Runners \cup {Nobody, Dead}, age : 0..runnerLeaseTTL]
  BY DEF TypesOK, TypeOK
<1>2. runnerLeaseTTL \in Nat
  BY Times
<1>3. PICK t \in {0, time} : lease' = IF lease.holder = r
             THEN [lease EXCEPT !.age = IF @ + t < runnerLeaseTTL THEN @ + t
                                        ELSE runnerLeaseTTL]
             ELSE lease
  BY DEF Takes
<1> QED
  BY <1>1, <1>2, <1>3

(* A step of nobody: the conversations, their backoffs, the clock.         *)
LEMMA QuietStep ==
  ASSUME IInv, TypesOK', setting' = setting, rn' = rn,
         UNCHANGED <<start, cursor, malformed, covered, tried, hasty, activated,
                     recorded, billed, crashes>>,
         \A s \in Sessions : last[s] <= last'[s],
         lease' = lease \/ \A r \in Runners : RetryDelay = 0 => rn[r].pc \notin Working
  PROVE  IInv'
<1> USE DEF IInv
<1>1. Grows
  BY DEF Grows, TypesOK, TypeOK
<1>2. BatchesOK'
  <2> SUFFICES ASSUME NEW r \in Runners PROVE BatchOK(rn[r])'
    BY DEF BatchesOK
  <2>1. PICK l \in Locals : l = rn[r] /\ rn'[r] = l
    BY DEF TypesOK
  <2>2. BatchOK(l)'
    BY <1>1, <2>1, BatchStays DEF BatchesOK
  <2> QED
    BY <2>1, <2>2 DEF BatchOK
<1>3. StartOK' /\ CoveredOnce' /\ SkippedWasTried'
  BY DEF StartOK, CoveredOnce, SkippedWasTried
<1>4. CountsOK'
  <2>1. ASSUME NEW s \in Sessions
        PROVE  CountOK(s)'
    <3>1. Waiting(s)' \subseteq Waiting(s)
      BY DEF Waiting
    <3>2. cursor'[s] = cursor[s] /\ malformed'[s] <= malformed[s]
      BY DEF TypesOK, TypeOK
    <3> QED
      BY <1>1, <3>1, <3>2, FewerWait
  <2> QED
    BY <2>1, CountsAre
<1>5. LeaseOK'
  BY SettingStays DEF LeaseOK
<1>6. SpendOK'
  BY SettingStays DEF SpendOK
<1> QED
  BY <1>2, <1>3, <1>4, <1>5, <1>6

(* A runner goes on without a new cursor or a malformed answer.            *)
LEMMA PassGoesOn ==
  ASSUME IInv, TypesOK', setting' = setting, NEW r \in Runners, Moves(r), BatchOK(rn[r])',
         UNCHANGED <<last, start, cursor, covered, tried, hasty, activated>>,
         \A s \in Sessions : malformed'[s] <= malformed[s],
         rn'[r].pc # "malformed", activated \/ rn'[r].pc = "idle",
         lease' = lease \/ OthersRest(r),
         RetryDelay = 0 /\ rn'[r].pc \in Working => lease'.holder = r /\ lease'.age <= Age(rn'[r]),
         SpendOK'
  PROVE  IInv'
<1> USE DEF IInv
<1>1. Grows
  BY DEF Grows, TypesOK, TypeOK
<1>2. BatchesOK'
  BY <1>1, BatchesStay
<1>3. CoveredOnce' /\ SkippedWasTried'
  BY DEF CoveredOnce, SkippedWasTried
<1>4. StartOK'
  <2>1. \A s \in Sessions : malformed[s] \in Nat /\ malformed'[s] \in Nat
    BY DEF TypesOK, TypeOK
  <2>2. ~activated => \A q \in Runners : rn'[q].pc = "idle"
    BY DEF StartOK, Moves
  <2>3. ~activated => \A s \in Sessions : malformed'[s] = 0
    BY <2>1 DEF StartOK
  <2> QED
    BY <2>2, <2>3 DEF StartOK
<1>5. CountsOK'
  BY <1>1, CountsStay
<1>6. LeaseOK'
  BY LeaseMoves
<1> QED
  BY <1>2, <1>3, <1>4, <1>5, <1>6

-----------------------------------------------------------------------------
(* The conversations                                                       *)

LEMMA OwnerMessageKeeps ==
  ASSUME IInv, NEW s \in Sessions, OwnerMessage(s), setting' = setting
  PROVE  IInv'
<1> USE DEF IInv
<1>1. last \in [Sessions -> 0..MaxMessages] /\ cursor \in [Sessions -> Nat] /\ MaxMessages \in Nat
      /\ \A q \in Sessions : cursor[q] <= last[q]
  BY BackgroundAssumption DEF TypesOK, TypeOK
<1>2. last' = [last EXCEPT ![s] = @ + 1] /\ last[s] < MaxMessages
  BY DEF OwnerMessage
<1>3. last' \in [Sessions -> 0..MaxMessages] /\ \A q \in Sessions : last[q] <= last'[q]
  BY <1>1, <1>2
<1>4. \A q \in Sessions : cursor[q] <= last'[q]
  BY <1>1, <1>3
<1>5. TypesOK'
  BY <1>3, <1>4 DEF TypesOK, TypeOK, OwnerMessage, marks, hist
<1> QED
  BY <1>3, <1>5, QuietStep DEF OwnerMessage, marks, hist

LEMMA TurnKeeps ==
  ASSUME IInv, NEW s \in Sessions, setting' = setting,
         EndTurn(s) \/ TurnLeaseLapses(s) \/ Compact(s) \/ BackoffOver(s)
  PROVE  IInv'
<1> USE DEF IInv
<1>1. /\ turn' \in [Sessions -> {"none", "chat"} \cup Runners]
      /\ compacted' \in [Sessions -> 0..MaxMessages] /\ backoff' \in [Sessions -> BOOLEAN]
  <2>1. /\ turn \in [Sessions -> {"none", "chat"} \cup Runners]
        /\ compacted \in [Sessions -> 0..MaxMessages] /\ backoff \in [Sessions -> BOOLEAN]
    BY DEF TypesOK, TypeOK
  <2>2. CASE EndTurn(s) \/ TurnLeaseLapses(s)
    BY <2>1, <2>2 DEF EndTurn, TurnLeaseLapses, chat, marks
  <2>3. CASE Compact(s)
    <3>1. PICK k \in Messages : compacted' = [compacted EXCEPT ![s] = k]
      BY <2>3 DEF Compact
    <3>2. k \in 0..MaxMessages
      BY BackgroundAssumption DEF Messages
    <3> QED
      BY <2>1, <2>3, <3>1, <3>2 DEF Compact, marks
  <2>4. CASE BackoffOver(s)
    BY <2>1, <2>4 DEF BackoffOver, chat
  <2> QED
    BY <2>2, <2>3, <2>4
<1>2. UNCHANGED <<last, activated, cursor, malformed, lease, recorded, rn, hist, crashes>>
  BY DEF EndTurn, TurnLeaseLapses, Compact, BackoffOver, chat, marks
<1>3. TypesOK'
  BY <1>1, <1>2 DEF TypesOK, TypeOK, hist
<1>4. \A q \in Sessions : last[q] <= last'[q]
  BY <1>2, BackgroundAssumption DEF TypesOK, TypeOK
<1> QED
  BY <1>2, <1>3, <1>4, QuietStep DEF hist

LEMMA LeaseLapsesKeeps ==
  ASSUME IInv, LeaseLapses, setting' = setting
  PROVE  IInv'
<1> USE DEF IInv
<1>1. lease' \in [holder : Runners \cup {Nobody, Dead}, age : 0..runnerLeaseTTL]
  BY Times DEF LeaseLapses, TypesOK, TypeOK
<1>2. UNCHANGED <<last, compacted, turn, activated, marks, recorded, rn, hist, crashes>>
  BY DEF LeaseLapses, chat
<1>3. TypesOK'
  BY <1>1, <1>2 DEF TypesOK, TypeOK, marks, hist
<1>4. ASSUME NEW r \in Runners, RetryDelay = 0, rn[r].pc \in Working
      PROVE  FALSE
  <2>1. lease.holder = r
    BY <1>4, WorkerHolds
  <2> QED
    BY <1>4, <2>1 DEF LeaseLapses, Working
<1>5. \A q \in Sessions : last[q] <= last'[q]
  BY <1>2, BackgroundAssumption DEF TypesOK, TypeOK
<1> QED
  BY <1>2, <1>3, <1>4, <1>5, QuietStep DEF marks, hist

-----------------------------------------------------------------------------
(* Between the passes                                                      *)

(* What a runner's step leaves of the types to show.                       *)
LEMMA TypesStay ==
  ASSUME TypesOK, setting' = setting, NEW r \in Runners, Moves(r),
         UNCHANGED <<last, compacted, start, activated, covered, cursor>>,
         turn' \in [Sessions -> {"none", "chat"} \cup Runners],
         tried' \in [Sessions -> [Messages -> Nat]],
         malformed' \in [Sessions -> Nat], backoff' \in [Sessions -> BOOLEAN],
         lease' \in [holder : Runners \cup {Nobody, Dead}, age : 0..runnerLeaseTTL],
         recorded' \in Nat, billed' \in Nat, crashes' \in Nat
  PROVE  TypesOK'
BY DEF TypesOK, TypeOK, Moves

LEMMA ActiveMeansActivated ==
  ASSUME StartOK, NEW r \in Runners, rn[r].pc # "idle"
  PROVE  activated
BY DEF StartOK

(* A runner stops, or takes the next conversation under a renewed lease.   *)
LEMMA StopKeeps ==
  ASSUME IInv, NEW r \in Runners, rn' = [rn EXCEPT ![r] = Idle], setting' = setting,
         rn[r].pc \notin Working,
         UNCHANGED <<chat, turn, activated, marks, lease, recorded, hist, crashes>>
  PROVE  IInv'
<1> USE DEF IInv
<1>1. Moves(r) /\ rn'[r] = Idle
  BY MovesTo, IdleIsLocal
<1>2. TypesOK'
  BY <1>1, TypesStay DEF chat, marks, hist, TypesOK, TypeOK
<1>3. Idle.pc = "idle" /\ Idle.spent = 0
  BY DEF Idle
<1>4. BatchOK(rn[r])' /\ rn'[r].pc = "idle" /\ rn'[r].pc \notin Working
  BY <1>1, <1>3, RestIsOK DEF Reading, Working
<1>5. SpendOK'
  BY <1>1, <1>4, SpendStays DEF hist
<1>6. \A s \in Sessions : malformed'[s] <= malformed[s]
  BY DEF marks, TypesOK, TypeOK
<1> QED
  BY <1>1, <1>2, <1>4, <1>5, <1>6, PassGoesOn DEF chat, marks, hist

LEMMA TakeKeeps ==
  ASSUME IInv, NEW r \in Runners, NEW l \in Locals, rn' = [rn EXCEPT ![r] = l],
         setting' = setting, AcquireRunner(r), rn[r].pc \notin Working, activated,
         l.pc \in {"idle", "next", "read"}, l.spent = 0, l.attempt = 0,
         l.pc = "read" => l.session \in Sessions,
         UNCHANGED <<chat, turn, activated, marks, recorded, hist, crashes>>
  PROVE  IInv'
<1> USE DEF IInv
<1>1. Moves(r) /\ rn'[r] = l
  BY MovesTo
<1>2. /\ lease' \in [holder : Runners \cup {Nobody, Dead}, age : 0..runnerLeaseTTL]
      /\ lease'.holder = r /\ lease'.age = 0 /\ OthersRest(r)
  BY AcquireIs
<1>3. TypesOK'
  BY <1>1, <1>2, TypesStay DEF chat, marks, hist, TypesOK, TypeOK
<1>4. BatchOK(rn[r])' /\ rn'[r].pc # "malformed"
  BY <1>1, RestIsOK DEF Reading, Working
<1>5. RetryDelay = 0 /\ rn'[r].pc \in Working => lease'.holder = r /\ lease'.age <= Age(rn'[r])
  BY <1>1, <1>2, AgeIs DEF Working
<1>6. SpendOK'
  <2>1. ASSUME RetryDelay = 0, crashes' = 0
        PROVE  SpendOf(rn[r])'
    <3>1. billed <= recorded /\ billed <= DailyCap
      BY <1>2, <2>1, SpendIs DEF SpendOf
    <3>2. recorded \in Nat /\ billed \in Nat
      BY DEF TypesOK, TypeOK
    <3> QED
      BY <1>1, <3>1, <3>2, SettingStays DEF SpendOf, hist, Working
  <2> QED
    BY <1>1, <1>2, <2>1, SpendMoves
<1>7. \A s \in Sessions : malformed'[s] <= malformed[s]
  BY DEF marks, TypesOK, TypeOK
<1> QED
  BY <1>1, <1>2, <1>3, <1>4, <1>5, <1>6, <1>7, PassGoesOn DEF chat, marks, hist

LEMMA TickKeeps ==
  ASSUME IInv, NEW r \in Runners, Tick(r), setting' = setting
  PROVE  IInv'
<1> USE DEF IInv
<1> DEFINE l == IF capExceeded(1) \/ ~activated THEN Idle
                ELSE [Idle EXCEPT !.pc = "next", !.todo = {<<s, FlushTo(s)>> : s \in Due}]
<1>1. rn' = [rn EXCEPT ![r] = l] /\ rn[r].pc = "idle" /\ AcquireRunner(r)
  BY DEF Tick
<1>2. l \in Locals /\ l.pc \in {"idle", "next"} /\ l.spent = 0 /\ l.attempt = 0
  <2>1. {<<s, FlushTo(s)>> : s \in Due} \in SUBSET (Sessions \X Nat)
    <3>1. \A s \in Sessions : FlushTo(s) \in Nat
      BY BackgroundAssumption DEF FlushTo, TypesOK, TypeOK
    <3> QED
      BY <3>1 DEF Due
  <2>2. [Idle EXCEPT !.pc = "next", !.todo = {<<s, FlushTo(s)>> : s \in Due}] \in Locals
    BY <2>1, IdleIsLocal DEF Locals, Places, Working
  <2>3. /\ Idle.pc = "idle" /\ Idle.spent = 0 /\ Idle.attempt = 0
    BY DEF Idle
  <2>4. /\ [Idle EXCEPT !.pc = "next", !.todo = {<<s, FlushTo(s)>> : s \in Due}].pc = "next"
        /\ [Idle EXCEPT !.pc = "next", !.todo = {<<s, FlushTo(s)>> : s \in Due}].spent = 0
        /\ [Idle EXCEPT !.pc = "next", !.todo = {<<s, FlushTo(s)>> : s \in Due}].attempt = 0
    BY DEF Idle
  <2> QED
    BY <2>2, <2>3, <2>4, IdleIsLocal
<1>3. CASE activated
  <2>1. UNCHANGED <<activated, cursor, start>>
    BY <1>3 DEF Tick, EnsureActivation
  <2>2. UNCHANGED <<chat, turn, marks, recorded, hist, crashes>>
    BY <2>1 DEF Tick, marks, hist
  <2> HIDE DEF l
  <2> QED
    BY <1>1, <1>2, <1>3, <2>1, <2>2, TakeKeeps DEF Working
<1>4. CASE ~activated
  <2>1. l = Idle /\ Idle.pc = "idle" /\ Idle.spent = 0 /\ Idle.attempt = 0
    BY <1>4 DEF Idle
  <2>2. Moves(r) /\ rn'[r] = Idle
    BY <1>1, <2>1, MovesTo, IdleIsLocal
  <2>3. /\ \A q \in Runners : rn[q].pc = "idle"
        /\ \A s \in Sessions : cursor[s] = 0 /\ malformed[s] = 0 /\ start[s] = 0
    BY <1>4 DEF StartOK, TypesOK, TypeOK
  <2>4. \A q \in Runners : rn'[q].pc = "idle"
    BY <2>1, <2>2, <2>3 DEF Moves
  <2>5. /\ activated' = TRUE /\ cursor' = last /\ start' = last
        /\ UNCHANGED <<last, compacted, turn, malformed, backoff, recorded, covered, tried, hasty,
                       billed, crashes>>
    BY <1>4 DEF Tick, EnsureActivation, chat
  <2>6. /\ last \in [Sessions -> 0..MaxMessages] /\ last \in [Sessions -> Nat]
        /\ \A s \in Sessions : last[s] <= last[s]
    BY BackgroundAssumption DEF TypesOK, TypeOK
  <2>7. lease' \in [holder : Runners \cup {Nobody, Dead}, age : 0..runnerLeaseTTL] /\ OthersRest(r)
    BY <1>1, AcquireIs
  <2>8. TypesOK'
    BY <2>2, <2>5, <2>6, <2>7 DEF TypesOK, TypeOK, Moves
  <2>9. \A q \in Runners : rn'[q].spent = 0
    BY <2>1, <2>2, <2>3 DEF Moves, BatchesOK, BatchOK, Reading, Working
  <2>10. BatchesOK'
    <3> SUFFICES ASSUME NEW q \in Runners PROVE BatchOK(rn[q])'
      BY DEF BatchesOK
    <3> QED
      BY <2>4, <2>9, RestIsOK DEF Reading, Working
  <2>11. StartOK' /\ SkippedWasTried'
    BY <2>5, <2>6 DEF StartOK, SkippedWasTried
  <2>12. CoveredOnce'
    <3> SUFFICES ASSUME NEW s \in Sessions, NEW k \in Messages
                 PROVE  covered'[s][k] = IF start'[s] < k /\ k <= cursor'[s] THEN 1 ELSE 0
      BY DEF CoveredOnce
    <3>1. covered[s][k] = IF start[s] < k /\ k <= cursor[s] THEN 1 ELSE 0
      BY DEF CoveredOnce
    <3>2. covered'[s][k] = 0 /\ k \in Nat /\ last[s] \in Nat
      BY <2>3, <2>5, <2>6, <3>1, BackgroundAssumption DEF Messages
    <3> QED
      BY <2>5, <3>2
  <2>13. CountsOK'
    <3>1. ASSUME NEW s \in Sessions
          PROVE  CountOK(s)'
      <4>1. Waiting(s)' = {} /\ malformed'[s] = 0
        BY <2>3, <2>4, <2>5 DEF Waiting
      <4> QED
        BY <2>8, <4>1, NobodyWaits
    <3> QED
      BY <3>1, CountsAre
  <2>14. LeaseOK'
    BY <2>2, <2>4, <2>7, LeaseMoves DEF Working
  <2>15. SpendOK'
    BY <2>2, <2>3, <2>4, <2>5, SpendStays DEF Working
  <2> QED
    BY <2>8, <2>10, <2>11, <2>12, <2>13, <2>14, <2>15
<1> QED
  BY <1>3, <1>4

LEMMA NextSessionKeeps ==
  ASSUME IInv, NEW r \in Runners, NextSession(r), setting' = setting
  PROVE  IInv'
<1> USE DEF IInv
<1>1. rn[r].pc = "next" /\ activated /\ rn[r] \in Locals
  BY ActiveMeansActivated DEF NextSession, TypesOK
<1>2. CASE ~LeaseFree(r) /\ UNCHANGED lease /\ rn' = [rn EXCEPT ![r] = Idle]
  BY <1>1, <1>2, StopKeeps DEF NextSession, Working
<1>3. ASSUME AcquireRunner(r), NEW item \in rn[r].todo,
             rn' = [rn EXCEPT ![r] = [Idle EXCEPT !.pc = "read", !.session = item[1],
                      !.through = item[2], !.todo = rn[r].todo \ {item}]]
      PROVE  IInv'
  <2> DEFINE l == [Idle EXCEPT !.pc = "read", !.session = item[1],
                      !.through = item[2], !.todo = rn[r].todo \ {item}]
  <2>1. item[1] \in Sessions /\ item[2] \in Nat /\ rn[r].todo \ {item} \in SUBSET (Sessions \X Nat)
    BY <1>1, LocalFields
  <2>2. l \in Locals
    BY <2>1, IdleIsLocal DEF Locals, Places, Working
  <2>3. l.pc = "read" /\ l.spent = 0 /\ l.attempt = 0 /\ l.session = item[1]
    BY DEF Idle
  <2> HIDE DEF l
  <2> QED
    BY <1>1, <1>3, <2>1, <2>2, <2>3, TakeKeeps DEF NextSession, Working, l
<1> QED
  BY <1>2, <1>3 DEF NextSession

LEMMA EndTickKeeps ==
  ASSUME IInv, NEW r \in Runners, EndTick(r), setting' = setting
  PROVE  IInv'
BY StopKeeps DEF EndTick, Working

LEMMA RenewKeeps ==
  ASSUME IInv, NEW r \in Runners, Renew(r), setting' = setting
  PROVE  IInv'
<1> USE DEF IInv
<1>1. rn[r].pc = "renew" /\ activated /\ rn[r] \in Locals
  BY ActiveMeansActivated DEF Renew, TypesOK
<1>2. CASE ~LeaseFree(r) /\ UNCHANGED lease /\ rn' = [rn EXCEPT ![r] = Idle]
  BY <1>1, <1>2, StopKeeps DEF Renew, Working
<1>3. ASSUME AcquireRunner(r),
             rn' = [rn EXCEPT ![r] = [Idle EXCEPT !.pc = "read", !.session = rn[r].session,
                             !.todo = rn[r].todo, !.through = rn[r].through]]
      PROVE  IInv'
  <2> DEFINE l == [Idle EXCEPT !.pc = "read", !.session = rn[r].session,
                             !.todo = rn[r].todo, !.through = rn[r].through]
  <2>1. rn[r].session \in Sessions /\ rn[r].through \in Nat /\ rn[r].todo \in SUBSET (Sessions \X Nat)
    BY <1>1, LocalFields DEF BatchesOK, BatchOK
  <2>2. l \in Locals
    BY <2>1, IdleIsLocal DEF Locals, Places, Working
  <2>3. l.pc = "read" /\ l.spent = 0 /\ l.attempt = 0 /\ l.session = rn[r].session
    BY DEF Idle
  <2> HIDE DEF l
  <2> QED
    BY <1>1, <1>3, <2>1, <2>2, <2>3, TakeKeeps DEF Renew, Working, l
<1> QED
  BY <1>2, <1>3 DEF Renew

-----------------------------------------------------------------------------
(* A pass                                                                  *)

LEMMA ReadBatchKeeps ==
  ASSUME IInv, NEW r \in Runners, ReadBatch(r), setting' = setting
  PROVE  IInv'
<1> USE DEF IInv
<1> DEFINE s == rn[r].session
<1>1. /\ rn[r].pc = "read" /\ activated /\ rn[r] \in Locals /\ s \in Sessions
      /\ rn[r].spent = 0 /\ rn[r].attempt = 0
  BY ActiveMeansActivated DEF ReadBatch, TypesOK, BatchesOK, BatchOK, Working, Reading
<1>2. UNCHANGED <<chat, turn, activated, marks, lease, recorded, hist, crashes>>
  BY DEF ReadBatch
<1>3. /\ cursor[s] \in Nat /\ last[s] \in Nat /\ malformed[s] \in Nat /\ cursor[s] <= last[s]
      /\ \A q \in Sessions : malformed[q] <= malformed[q]
  BY <1>1, BackgroundAssumption DEF TypesOK, TypeOK
<1>4. BatchEnd(r) \in Nat /\ BatchEnd(r) <= last[s]
  <2>1. BatchMessages \in Nat /\ rn[r].through \in Nat
    BY <1>1, SettingValues, LocalFields
  <2> QED
    BY <1>3, <2>1 DEF BatchEnd, Earlier
<1>5. CASE BatchEnd(r) <= cursor[s]
  <2> DEFINE l == [Idle EXCEPT !.pc = "next", !.todo = rn[r].todo]
  <2>1. rn' = [rn EXCEPT ![r] = l]
    BY <1>5 DEF ReadBatch
  <2>2. l \in Locals
    BY <1>1, IdleIsLocal, LocalFields DEF Locals, Places, Working
  <2>3. l.pc = "next" /\ l.spent = 0
    BY DEF Idle
  <2> HIDE DEF l
  <2>4. Moves(r) /\ rn'[r] = l
    BY <2>1, <2>2, MovesTo
  <2>5. BatchOK(rn[r])'
    BY <2>3, <2>4, RestIsOK DEF Reading, Working
  <2>6. TypesOK'
    BY <1>2, <2>4, TypesStay DEF chat, marks, hist, TypesOK, TypeOK
  <2>7. SpendOK'
    <3>1. ASSUME RetryDelay = 0, crashes' = 0
          PROVE  OthersRest(r) /\ SpendOf(rn[r])'
      <4>1. OthersRest(r)
        BY <1>1, LeaseExcludes DEF Working
      <4>2. billed <= recorded + rn[r].spent /\ billed <= DailyCap
        BY <1>1, <1>2, <3>1, <4>1, SpendIs DEF SpendOf, Working
      <4>3. recorded \in Nat
        BY DEF TypesOK, TypeOK
      <4> QED
        BY <1>1, <1>2, <2>3, <2>4, <4>1, <4>2, <4>3, SettingStays DEF SpendOf, hist, Working
    <3> QED
      BY <2>4, <3>1, SpendMoves
  <2> QED
    BY <1>1, <1>2, <1>3, <2>3, <2>4, <2>5, <2>6, <2>7, PassGoesOn DEF chat, marks, hist, Working
<1>6. CASE ~(BatchEnd(r) <= cursor[s])
  <2>1. PICK pc \in {"call", "commit"} :
          rn' = [rn EXCEPT ![r] = [@ EXCEPT !.pc = pc, !.from = cursor[s],
                                            !.to = BatchEnd(r), !.malformed = malformed[s]]]
    BY <1>6 DEF ReadBatch
  <2> DEFINE l == [rn[r] EXCEPT !.pc = pc, !.from = cursor[s],
                                !.to = BatchEnd(r), !.malformed = malformed[s]]
  <2>2. l \in Locals
    BY <1>1, <1>3, <1>4, LocalFields DEF Locals, Places, Working
  <2>3. /\ l.pc = pc /\ l.session = s /\ l.from = cursor[s] /\ l.to = BatchEnd(r)
        /\ l.malformed = malformed[s] /\ l.spent = 0 /\ l.attempt = 0
    BY <1>1 DEF Locals
  <2>4. rn' = [rn EXCEPT ![r] = l]
    BY <2>1
  <2> HIDE DEF l
  <2>5. Moves(r) /\ rn'[r] = l
    BY <2>2, <2>4, MovesTo
  <2>6. TypesOK'
    BY <1>2, <2>5, TypesStay DEF chat, marks, hist, TypesOK, TypeOK
  <2>7. BatchOK(rn[r])'
    <3>1. malformed[s] <= tried[s][cursor[s] + 1]
      <4>1. IsFiniteSet(Waiting(s)) /\ malformed[s] + Cardinality(Waiting(s)) <= Tried(s)
        BY <1>1 DEF CountsOK
      <4>2. Cardinality(Waiting(s)) \in Nat
        BY <4>1, FS_CardinalityType
      <4>3. Tried(s) = tried[s][cursor[s] + 1] /\ Tried(s) \in Nat
        <5>1. cursor[s] < last[s] /\ cursor[s] + 1 \in Messages
          <6>1. last[s] \in 0..MaxMessages /\ MaxMessages \in Nat
            BY <1>1, BackgroundAssumption DEF TypesOK, TypeOK
          <6> QED
            BY <1>3, <1>4, <1>6, <6>1 DEF Messages
        <5> QED
          BY <1>1, <5>1 DEF Tried, TypesOK
      <4> QED
        BY <1>3, <4>1, <4>2, <4>3
    <3>2. start[s] <= cursor[s]
      BY <1>1 DEF StartOK
    <3>3. cursor[s] < BatchEnd(r) /\ cursor[s] <= cursor[s] /\ malformed[s] + 0 = malformed[s]
      BY <1>3, <1>4, <1>6
    <3> QED
      BY <1>1, <1>2, <1>4, <2>3, <2>5, <3>1, <3>2, <3>3
         DEF BatchOK, chat, marks, hist, Reading, Working
  <2>8. RetryDelay = 0 /\ rn'[r].pc \in Working => lease'.holder = r /\ lease'.age <= Age(rn'[r])
    <3>1. ASSUME RetryDelay = 0
          PROVE  lease.holder = r /\ lease.age <= 0
      BY <1>1, <3>1, AgeIs DEF LeaseOK, Working
    <3>2. l.pc \in {"call", "commit"} /\ l.attempt = 0 /\ l.call \in {1, 2}
      BY <2>2, <2>3, LocalFields
    <3>3. 0 <= Age(l)
      BY <3>2, AgeIs, Times
    <3>4. lease.age \in Nat /\ Age(l) \in Nat
      BY <2>2, <3>2, AgeIsBounded, Times DEF TypesOK, TypeOK, Working
    <3> QED
      BY <1>2, <2>5, <3>1, <3>3, <3>4
  <2>9. SpendOK'
    <3>1. ASSUME RetryDelay = 0, crashes' = 0
          PROVE  OthersRest(r) /\ SpendOf(rn[r])'
      <4>1. OthersRest(r)
        BY <1>1, LeaseExcludes DEF Working
      <4>2. billed <= recorded + rn[r].spent /\ billed <= DailyCap
        BY <1>1, <1>2, <3>1, <4>1, SpendIs DEF SpendOf, Working
      <4> QED
        BY <1>1, <1>2, <2>3, <2>5, <4>1, <4>2, SettingStays DEF SpendOf, hist, Working
    <3> QED
      BY <2>5, <3>1, SpendMoves
  <2> QED
    BY <1>1, <1>2, <1>3, <2>3, <2>5, <2>6, <2>7, <2>8, <2>9, PassGoesOn DEF chat, marks, hist
<1> QED
  BY <1>5, <1>6

(* What a runner in a call knows: nobody else works, its lease is no older *)
(* than its attempts, and the call fits the day's cap.                     *)
LEMMA CallFits ==
  ASSUME IInv, NEW r \in Runners, rn[r].pc = "call", ~Capped(r), RetryDelay = 0, crashes = 0
  PROVE  /\ recorded + rn[r].spent + 1 <= DailyCap
         /\ billed <= recorded + rn[r].spent
<1> USE DEF IInv
<1>1. OthersRest(r)
  BY LeaseExcludes DEF Working
<1>2. /\ billed <= recorded + rn[r].spent
      /\ rn[r].attempt > 0 => recorded + rn[r].spent + 1 <= DailyCap
  BY <1>1, SpendIs DEF SpendOf, Working
<1>3. rn[r] \in Locals /\ recorded \in Nat /\ DailyCap \in Nat
  BY SettingValues DEF TypesOK, TypeOK
<1>4. rn[r].attempt \in Nat /\ rn[r].spent \in Nat
  BY <1>3, LocalFields, Times
<1> QED
  BY <1>2, <1>3, <1>4 DEF Capped, capExceeded

LEMMA CallAges ==
  ASSUME IInv, NEW r \in Runners, rn[r].pc = "call", NEW time \in Nat, Takes(r, time)
  PROVE  /\ lease' \in [holder : Runners \cup {Nobody, Dead}, age : 0..runnerLeaseTTL]
         /\ lease' = lease \/ OthersRest(r)
         /\ RetryDelay = 0 /\ time = CallTime =>
              /\ lease'.holder = r
              /\ lease'.age <= 2 * FullCall
              /\ rn[r].call = 1 => lease'.age <= FullCall
              /\ lease'.age <= (IF rn[r].call = 1 THEN 0 ELSE FullCall) + Tries(rn[r].attempt) + CallTime
<1> USE DEF IInv
<1>1. /\ lease' \in [holder : Runners \cup {Nobody, Dead}, age : 0..runnerLeaseTTL]
      /\ lease.holder # r => lease' = lease
      /\ lease.holder = r => lease'.holder = r /\ lease'.age <= lease.age + time
  BY TakesIs
<1>2. lease' = lease \/ OthersRest(r)
  BY <1>1, LeaseExcludes
<1>3. ASSUME RetryDelay = 0, time = CallTime
      PROVE  /\ lease'.holder = r
             /\ lease'.age <= 2 * FullCall
             /\ rn[r].call = 1 => lease'.age <= FullCall
             /\ lease'.age <= (IF rn[r].call = 1 THEN 0 ELSE FullCall) + Tries(rn[r].attempt) + CallTime
  <2>1. rn[r] \in Locals
    BY DEF TypesOK
  <2>2. rn[r].call \in {1, 2} /\ rn[r].attempt \in 0..Retries
    BY <2>1, LocalFields
  <2>3. lease.holder = r /\ lease.age <= (IF rn[r].call = 1 THEN 0 ELSE FullCall) + Tries(rn[r].attempt)
    BY <1>3, AgeIs DEF LeaseOK, Working
  <2>4. lease.age \in Nat /\ lease'.age \in Nat
    BY <1>1, Times DEF TypesOK, TypeOK
  <2>5. /\ Tries(rn[r].attempt) \in Nat /\ CallTime \in Nat /\ FullCall \in Nat
        /\ Tries(rn[r].attempt) + CallTime <= FullCall
    BY <2>2, Times
  <2> QED
    BY <1>1, <1>3, <2>2, <2>3, <2>4, <2>5
<1> QED
  BY <1>1, <1>2, <1>3

(* A call of the pass, answered or not, without a mark of its own.         *)
LEMMA CallKeeps ==
  ASSUME IInv, NEW r \in Runners, rn[r].pc = "call", ~Capped(r), setting' = setting,
         NEW time \in {CallTime, CallTime + RetryDelay}, Takes(r, time),
         NEW l \in Locals, rn' = [rn EXCEPT ![r] = l],
         NEW b \in {0, 1}, billed' = billed + b, l.spent = rn[r].spent + b,
         l.pc \in {"call", "commit", "failed"},
         /\ l.session = rn[r].session /\ l.from = rn[r].from /\ l.to = rn[r].to
         /\ l.malformed = rn[r].malformed,
         l.pc = "call" => \/ l.call = 2 /\ l.attempt = 0 /\ rn[r].call = 1
                          \/ l.call = rn[r].call /\ l.attempt = rn[r].attempt + 1 /\ b = 0,
         UNCHANGED <<chat, turn, activated, marks, recorded, start, covered, tried, hasty, crashes>>
  PROVE  IInv'
<1> USE DEF IInv
<1>1. Moves(r) /\ rn'[r] = l
  BY MovesTo
<1>2. activated /\ time \in Nat /\ (RetryDelay = 0 => time = CallTime)
  BY ActiveMeansActivated, SettingValues, Times
<1>3. /\ lease' \in [holder : Runners \cup {Nobody, Dead}, age : 0..runnerLeaseTTL]
      /\ lease' = lease \/ OthersRest(r)
      /\ RetryDelay = 0 =>
           /\ lease'.holder = r
           /\ lease'.age <= 2 * FullCall
           /\ rn[r].call = 1 => lease'.age <= FullCall
           /\ lease'.age <= (IF rn[r].call = 1 THEN 0 ELSE FullCall) + Tries(rn[r].attempt) + CallTime
  BY <1>2, CallAges
<1>4. billed' \in Nat /\ recorded \in Nat /\ billed \in Nat
  BY DEF TypesOK, TypeOK
<1>5. TypesOK'
  BY <1>1, <1>3, <1>4, TypesStay DEF chat, marks, TypesOK, TypeOK
<1>6. BatchOK(rn[r])'
  BY <1>1 DEF BatchesOK, BatchOK, chat, marks, Reading, Working
<1>7. RetryDelay = 0 /\ rn'[r].pc \in Working => lease'.holder = r /\ lease'.age <= Age(rn'[r])
  <2>1. l.call \in {1, 2} /\ l.attempt \in 0..Retries /\ rn[r].attempt \in 0..Retries
    BY LocalFields DEF TypesOK
  <2>2. l.pc \in {"commit", "failed"} => Age(l) = 2 * FullCall
    BY AgeIs
  <2>3. l.pc = "call" => Age(l) = (IF l.call = 1 THEN 0 ELSE FullCall) + Tries(l.attempt)
    BY AgeIs
  <2>4. Tries(rn[r].attempt + 1) = Tries(rn[r].attempt) + CallTime /\ Tries(0) = 0
    BY <2>1, Times
  <2>5. /\ FullCall \in Nat /\ Tries(rn[r].attempt) \in Nat /\ CallTime \in Nat
        /\ (RetryDelay = 0 => lease'.age \in Nat)
    BY <1>3, <2>1, Times
  <2>6. ASSUME RetryDelay = 0, l.pc = "call", l.call = 2, l.attempt = 0, rn[r].call = 1
        PROVE  lease'.age <= Age(l)
    BY <1>3, <2>3, <2>4, <2>5, <2>6
  <2>7. ASSUME RetryDelay = 0, l.pc = "call", l.call = rn[r].call, l.attempt = rn[r].attempt + 1
        PROVE  lease'.age <= Age(l)
    <3>1. Age(l) = (IF rn[r].call = 1 THEN 0 ELSE FullCall) + (Tries(rn[r].attempt) + CallTime)
      BY <2>3, <2>4, <2>7
    <3> QED
      BY <1>3, <2>5, <2>7, <3>1
  <2> QED
    BY <1>1, <1>3, <2>2, <2>6, <2>7
<1>8. SpendOK'
  <2>1. ASSUME RetryDelay = 0, crashes' = 0
        PROVE  OthersRest(r) /\ SpendOf(rn[r])'
    <3>1. OthersRest(r)
      BY LeaseExcludes DEF Working
    <3>2. /\ recorded + rn[r].spent + 1 <= DailyCap
          /\ billed <= recorded + rn[r].spent
      BY <2>1, CallFits
    <3>3. rn[r].spent \in Nat /\ rn[r].attempt \in 0..Retries /\ DailyCap \in Nat
      BY LocalFields, SettingValues DEF TypesOK
    <3>4. billed' <= recorded + l.spent /\ billed' <= DailyCap
      BY <1>4, <3>2, <3>3
    <3>5. l.pc = "call" /\ l.attempt > 0 => recorded + l.spent + 1 <= DailyCap
      BY <1>4, <3>2, <3>3
    <3> QED
      BY <1>1, <3>1, <3>4, <3>5, SettingStays DEF SpendOf, Working
  <2> QED
    BY <1>1, <2>1, SpendMoves
<1>9. \A s \in Sessions : malformed'[s] <= malformed[s]
  BY DEF marks, TypesOK, TypeOK
<1> QED
  BY <1>1, <1>2, <1>3, <1>5, <1>6, <1>7, <1>8, <1>9, PassGoesOn DEF chat, marks

LEMMA CallAnsweredKeeps ==
  ASSUME IInv, NEW r \in Runners, CallAnswered(r), setting' = setting
  PROVE  IInv'
<1>1. PICK pc \in (IF rn[r].call = 1 THEN {"call", "commit"} ELSE {"commit"}) :
        rn' = [rn EXCEPT ![r].pc = pc, ![r].call = 2, ![r].attempt = 0, ![r].spent = @ + 1]
  BY DEF CallAnswered
<1> DEFINE l == [rn[r] EXCEPT !.pc = pc, !.call = 2, !.attempt = 0, !.spent = @ + 1]
<1>2. rn \in [Runners -> Locals] /\ rn[r] \in Locals
  BY DEF IInv, TypesOK
<1>3. l \in Locals
  <2>1. rn[r].spent + 1 \in Nat /\ 0 \in 0..Retries /\ pc \in Places
    BY <1>2, LocalFields, Times DEF Places, Working
  <2> QED
    BY <1>2, <2>1, LocalFields DEF Locals
<1>4. /\ l.pc = pc /\ l.call = 2 /\ l.attempt = 0 /\ l.spent = rn[r].spent + 1
      /\ l.session = rn[r].session /\ l.from = rn[r].from /\ l.to = rn[r].to
      /\ l.malformed = rn[r].malformed
  BY <1>2 DEF Locals
<1>5. rn' = [rn EXCEPT ![r] = l]
  BY <1>1, <1>2
<1>6. pc \in {"call", "commit"} /\ (pc = "call" => rn[r].call = 1)
  OBVIOUS
<1> HIDE DEF l
<1>7. /\ rn[r].pc = "call" /\ ~Capped(r) /\ Takes(r, CallTime) /\ billed' = billed + 1
      /\ UNCHANGED <<chat, turn, activated, marks, recorded, start, covered, tried, hasty, crashes>>
  BY DEF CallAnswered
<1> QED
  BY <1>3, <1>4, <1>5, <1>6, <1>7, CallKeeps

LEMMA CallRetriedKeeps ==
  ASSUME IInv, NEW r \in Runners, CallRetried(r), setting' = setting
  PROVE  IInv'
<1>1. /\ rn[r].pc = "call" /\ ~Capped(r) /\ Takes(r, CallTime + RetryDelay)
      /\ rn[r].attempt < Retries /\ rn' = [rn EXCEPT ![r].attempt = @ + 1]
      /\ UNCHANGED <<chat, turn, activated, marks, recorded, hist, crashes>>
  BY DEF CallRetried
<1> DEFINE l == [rn[r] EXCEPT !.attempt = @ + 1]
<1>2. rn \in [Runners -> Locals] /\ rn[r] \in Locals
  BY DEF IInv, TypesOK
<1>3. l \in Locals
  <2>1. rn[r].attempt + 1 \in 0..Retries
    BY <1>1, <1>2, LocalFields, Times
  <2> QED
    BY <1>2, <2>1, LocalFields DEF Locals
<1>4. /\ l.pc = rn[r].pc /\ l.call = rn[r].call /\ l.attempt = rn[r].attempt + 1
      /\ l.session = rn[r].session /\ l.from = rn[r].from /\ l.to = rn[r].to
      /\ l.malformed = rn[r].malformed /\ l.spent = rn[r].spent
  BY <1>2 DEF Locals
<1>5. rn' = [rn EXCEPT ![r] = l]
  BY <1>1, <1>2
<1>6. l.spent = rn[r].spent + 0 /\ billed' = billed + 0
  BY <1>1, <1>2, <1>4, LocalFields DEF IInv, TypesOK, TypeOK, hist
<1> HIDE DEF l
<1> QED
  BY <1>1, <1>3, <1>4, <1>5, <1>6, CallKeeps DEF hist

LEMMA CallFailedKeeps ==
  ASSUME IInv, NEW r \in Runners, CallFailed(r), setting' = setting
  PROVE  IInv'
<1>1. PICK b \in {0, 1} : /\ billed' = billed + b
                          /\ rn' = [rn EXCEPT ![r].pc = "failed", ![r].spent = @ + b]
  BY DEF CallFailed
<1> DEFINE l == [rn[r] EXCEPT !.pc = "failed", !.spent = @ + b]
<1>2. rn \in [Runners -> Locals] /\ rn[r] \in Locals
  BY DEF IInv, TypesOK
<1>3. l \in Locals
  <2>1. rn[r].spent + b \in Nat /\ "failed" \in Places
    BY <1>2, LocalFields DEF Places, Working
  <2> QED
    BY <1>2, <2>1, LocalFields DEF Locals
<1>4. /\ l.pc = "failed" /\ l.spent = rn[r].spent + b
      /\ l.session = rn[r].session /\ l.from = rn[r].from /\ l.to = rn[r].to
      /\ l.malformed = rn[r].malformed
  BY <1>2 DEF Locals
<1>5. rn' = [rn EXCEPT ![r] = l]
  BY <1>1, <1>2
<1> HIDE DEF l
<1>6. /\ rn[r].pc = "call" /\ ~Capped(r) /\ Takes(r, CallTime)
      /\ UNCHANGED <<chat, turn, activated, marks, recorded, start, covered, tried, hasty, crashes>>
  BY DEF CallFailed
<1> QED
  BY <1>1, <1>3, <1>4, <1>5, <1>6, CallKeeps

(* The malformed answer makes its runner wait, one attempt more counted.   *)
LEMMA CallMalformedKeeps ==
  ASSUME IInv, NEW r \in Runners, CallMalformed(r), setting' = setting
  PROVE  IInv'
<1> USE DEF IInv
<1> DEFINE s == rn[r].session
           l == [rn[r] EXCEPT !.pc = "malformed", !.spent = @ + 1]
<1>1. /\ rn[r].pc = "call" /\ ~Capped(r) /\ Takes(r, CallTime) /\ billed' = billed + 1
      /\ tried' = [tried EXCEPT ![s] = [k \in Messages |->
                 IF rn[r].from < k /\ k <= rn[r].to THEN @[k] + 1 ELSE @[k]]]
      /\ rn' = [rn EXCEPT ![r].pc = "malformed", ![r].spent = @ + 1]
      /\ UNCHANGED <<chat, turn, activated, marks, recorded, start, covered, hasty, crashes>>
  BY DEF CallMalformed
<1>2. rn \in [Runners -> Locals] /\ rn[r] \in Locals
  BY DEF TypesOK
<1>3. l \in Locals
  <2>1. rn[r].spent + 1 \in Nat /\ "malformed" \in Places
    BY <1>2, LocalFields DEF Places, Working
  <2> QED
    BY <1>2, <2>1, LocalFields DEF Locals
<1>4. /\ l.pc = "malformed" /\ l.spent = rn[r].spent + 1
      /\ l.session = s /\ l.from = rn[r].from /\ l.to = rn[r].to
      /\ l.malformed = rn[r].malformed
  BY <1>2 DEF Locals
<1>5. rn' = [rn EXCEPT ![r] = l]
  BY <1>1, <1>2
<1> HIDE DEF l
<1>6. Moves(r) /\ rn'[r] = l
  BY <1>3, <1>5, MovesTo
<1>7. /\ s \in Sessions /\ start[s] <= l.from /\ l.from <= cursor[s]
      /\ l.from < l.to /\ l.to <= last[s] /\ l.malformed <= tried[s][l.from + 1]
      /\ l.from \in Nat /\ l.to \in Nat /\ l.malformed \in Nat
  <2>1. rn[r].malformed + 0 <= tried[s][rn[r].from + 1] /\ rn[r].malformed \in Nat
    BY <1>1, <1>2, LocalFields DEF BatchesOK, BatchOK, Reading, Working
  <2>2. /\ s \in Sessions /\ start[s] <= rn[r].from /\ rn[r].from <= cursor[s]
        /\ rn[r].from < rn[r].to /\ rn[r].to <= last[s]
        /\ rn[r].from \in Nat /\ rn[r].to \in Nat
    BY <1>1, <1>2, LocalFields DEF BatchesOK, BatchOK, Reading, Working
  <2>3. rn[r].malformed <= tried[s][rn[r].from + 1]
    BY <2>1
  <2> QED
    BY <1>4, <2>1, <2>2, <2>3
<1>8. /\ tried' \in [Sessions -> [Messages -> Nat]]
      /\ \A q \in Sessions, k \in Messages : tried[q][k] <= tried'[q][k]
  <2> DEFINE row == [k \in Messages |->
               IF rn[r].from < k /\ k <= rn[r].to THEN tried[s][k] + 1 ELSE tried[s][k]]
  <2>1. tried \in [Sessions -> [Messages -> Nat]]
    BY DEF TypesOK
  <2>2. row \in [Messages -> Nat] /\ \A k \in Messages : tried[s][k] <= row[k]
    BY <1>7, <2>1
  <2>3. tried' = [tried EXCEPT ![s] = row]
    BY <1>1
  <2>4. \A q \in Sessions, k \in Messages : tried[q][k] <= tried[q][k]
    BY <2>1
  <2> HIDE DEF row
  <2>5. tried' \in [Sessions -> [Messages -> Nat]]
    BY <1>7, <2>1, <2>2, <2>3
  <2>6. ASSUME NEW q \in Sessions, NEW k \in Messages
        PROVE  tried[q][k] <= tried'[q][k]
    <3>1. CASE q = s
      BY <2>1, <2>2, <2>3, <3>1
    <3>2. CASE q # s
      BY <2>1, <2>3, <2>4, <3>2
    <3> QED
      BY <3>1, <3>2
  <2> QED
    BY <2>5, <2>6
<1>9. tried'[s][l.from + 1] = tried[s][l.from + 1] + 1 /\ tried[s][l.from + 1] \in Nat
  <2>1. l.from + 1 \in Messages
    <3>1. last[s] \in 0..MaxMessages /\ MaxMessages \in Nat
      BY <1>7, BackgroundAssumption DEF TypesOK, TypeOK
    <3> QED
      BY <1>7, <3>1 DEF Messages
  <2>2. tried \in [Sessions -> [Messages -> Nat]]
    BY DEF TypesOK
  <2>3. rn[r].from < l.from + 1 /\ l.from + 1 <= rn[r].to
    BY <1>4, <1>7
  <2> QED
    BY <1>1, <1>7, <2>1, <2>2, <2>3
<1>10. /\ lease' \in [holder : Runners \cup {Nobody, Dead}, age : 0..runnerLeaseTTL]
       /\ lease' = lease \/ OthersRest(r)
       /\ RetryDelay = 0 => lease'.holder = r /\ lease'.age <= 2 * FullCall
  BY <1>1, CallAges, Times
<1>11. billed' \in Nat /\ recorded \in Nat /\ billed \in Nat
  BY <1>1 DEF TypesOK, TypeOK
<1>12. TypesOK'
  BY <1>1, <1>6, <1>8, <1>10, <1>11, TypesStay DEF chat, marks, TypesOK, TypeOK
<1>13. Grows
  BY <1>1, <1>8 DEF Grows, chat, marks, TypesOK, TypeOK
<1>14. BatchOK(rn[r])'
  <2>1. l.malformed + 1 <= tried'[s][l.from + 1]
    BY <1>7, <1>9
  <2> QED
    BY <1>1, <1>4, <1>6, <1>7, <2>1 DEF BatchOK, chat, marks, Reading, Working
<1>15. BatchesOK'
  BY <1>6, <1>12, <1>13, <1>14, BatchesStay
<1>16. StartOK' /\ CoveredOnce' /\ SkippedWasTried'
  <2>1. activated
    BY <1>1, ActiveMeansActivated
  <2> QED
    BY <1>1, <2>1 DEF StartOK, CoveredOnce, SkippedWasTried, marks
<1>17. CountsOK'
  BY <1>1, <1>4, <1>6, <1>12, <1>13, CountsAdd DEF chat, marks
<1>18. LeaseOK'
  <2>1. Age(l) = 2 * FullCall
    BY <1>4, AgeIs
  <2> QED
    BY <1>6, <1>10, <2>1, LeaseMoves
<1>19. SpendOK'
  <2>1. ASSUME RetryDelay = 0, crashes' = 0
        PROVE  OthersRest(r) /\ SpendOf(rn[r])'
    <3>1. OthersRest(r)
      BY <1>1, LeaseExcludes DEF Working
    <3>2. /\ recorded + rn[r].spent + 1 <= DailyCap
          /\ billed <= recorded + rn[r].spent
      BY <1>1, <2>1, CallFits
    <3>3. rn[r].spent \in Nat /\ DailyCap \in Nat
      BY <1>2, LocalFields, SettingValues
    <3>4. billed' <= recorded + l.spent /\ billed' <= DailyCap
      BY <1>1, <1>4, <1>11, <3>2, <3>3
    <3> QED
      BY <1>1, <1>4, <1>6, <3>1, <3>4, SettingStays DEF SpendOf, Working
  <2> QED
    BY <1>6, <2>1, SpendMoves
<1> QED
  BY <1>12, <1>15, <1>16, <1>17, <1>18, <1>19

-----------------------------------------------------------------------------
(* The end of a pass                                                       *)

(* The spend recorded with the end of a pass is what it was billed.        *)
LEMMA SpendRecorded ==
  ASSUME TypesOK, LeaseOK, SpendOK, setting' = setting, NEW r \in Runners, Moves(r),
         rn[r].pc \in Working, rn'[r].pc \notin Working, NEW b \in {0, 1},
         b = 1 => rn[r].pc = "call" /\ ~Capped(r),
         billed' = billed + b, recorded' = recorded + (rn[r].spent + b), crashes' = crashes
  PROVE  SpendOK'
<1>1. ASSUME RetryDelay = 0, crashes' = 0
      PROVE  OthersRest(r) /\ SpendOf(rn[r])'
  <2>1. OthersRest(r)
    BY LeaseExcludes
  <2>2. /\ billed <= recorded + rn[r].spent /\ billed <= DailyCap
        /\ rn[r].pc = "call" /\ rn[r].attempt > 0 => recorded + rn[r].spent + 1 <= DailyCap
    BY <1>1, <2>1, SpendIs DEF SpendOf
  <2>3. /\ recorded \in Nat /\ billed \in Nat /\ DailyCap \in Nat
        /\ rn[r].spent \in Nat /\ rn[r].attempt \in Nat
    BY SettingValues, LocalFields, Times DEF TypesOK, TypeOK
  <2>4. b = 1 => recorded + rn[r].spent + 1 <= DailyCap
    BY <2>2, <2>3 DEF Capped, capExceeded
  <2>5. billed' <= recorded' /\ billed' <= DailyCap
    <3>1. CASE b = 0
      BY <2>2, <2>3, <3>1
    <3>2. CASE b = 1
      BY <2>2, <2>3, <2>4, <3>2
    <3> QED
      BY <3>1, <3>2
  <2> QED
    BY <2>1, <2>5, SettingStays DEF SpendOf
<1> QED
  BY <1>1, SpendMoves

(* A pass that ends without a new cursor: failed, deferred or superseded.  *)
LEMMA PassEnds ==
  ASSUME IInv, NEW r \in Runners, setting' = setting, rn[r].pc \in Working,
         Moves(r), rn'[r].pc \in {"idle", "next", "renew"}, BatchOK(rn[r])',
         NEW b \in {0, 1}, b = 1 => rn[r].pc = "call" /\ ~Capped(r),
         billed' = billed + b, recorded' = recorded + (rn[r].spent + b),
         UNCHANGED <<chat, start, cursor, covered, tried, hasty, activated, crashes>>,
         turn' \in [Sessions -> {"none", "chat"} \cup Runners],
         backoff' \in [Sessions -> BOOLEAN], malformed' \in [Sessions -> Nat],
         \A s \in Sessions : malformed'[s] <= malformed[s],
         lease' \in [holder : Runners \cup {Nobody, Dead}, age : 0..runnerLeaseTTL]
  PROVE  IInv'
<1> USE DEF IInv
<1>1. billed' \in Nat /\ recorded' \in Nat
  BY LocalFields DEF TypesOK, TypeOK
<1>2. TypesOK'
  BY <1>1, TypesStay DEF chat, TypesOK
<1>3. activated /\ OthersRest(r) /\ rn'[r].pc \notin Working
  BY ActiveMeansActivated, LeaseExcludes DEF Working
<1>4. SpendOK'
  BY <1>3, SpendRecorded
<1> QED
  BY <1>2, <1>3, <1>4, PassGoesOn DEF chat, Working

(* A pass that covers its batch and moves the cursor past it.              *)
LEMMA PassCovers ==
  ASSUME IInv, NEW r \in Runners, setting' = setting, rn[r].pc \in Reading,
         Moves(r), rn'[r].pc \in {"next", "renew"}, BatchOK(rn[r])', CursorHeld(r), Cover(r),
         cursor' = [cursor EXCEPT ![rn[r].session] = rn[r].to],
         malformed' = [malformed EXCEPT ![rn[r].session] = 0],
         backoff' = [backoff EXCEPT ![rn[r].session] = FALSE],
         turn' \in [Sessions -> {"none", "chat"} \cup Runners],
         recorded' = recorded + rn[r].spent, hasty' = {},
         UNCHANGED <<chat, start, tried, activated, billed, lease, crashes>>
  PROVE  IInv'
<1> USE DEF IInv
<1> DEFINE s == rn[r].session
<1>1. /\ s \in Sessions /\ start[s] <= rn[r].from /\ rn[r].from < rn[r].to
      /\ rn[r].to <= last[s] /\ rn[r].from \in Nat /\ rn[r].to \in Nat
      /\ cursor[s] = rn[r].from /\ start[s] \in Nat /\ rn[r].spent \in Nat
  <2>1. rn[r] \in Locals
    BY DEF TypesOK
  <2>2. s \in Sessions
    BY DEF BatchesOK, BatchOK, Reading, Working
  <2> QED
    BY <2>1, <2>2, LocalFields DEF BatchesOK, BatchOK, TypesOK, CursorHeld
<1>2. /\ cursor \in [Sessions -> Nat] /\ malformed \in [Sessions -> Nat]
      /\ backoff \in [Sessions -> BOOLEAN] /\ \A q \in Sessions : cursor[q] <= last[q]
      /\ recorded \in Nat /\ billed \in Nat
  BY DEF TypesOK, TypeOK
<1>3. /\ cursor' \in [Sessions -> Nat] /\ malformed' \in [Sessions -> Nat]
      /\ backoff' \in [Sessions -> BOOLEAN] /\ recorded' \in Nat
      /\ cursor'[s] = rn[r].to /\ malformed'[s] = 0
      /\ \A q \in Sessions \ {s} : cursor'[q] = cursor[q] /\ malformed'[q] = malformed[q]
  BY <1>1, <1>2
<1>4. \A q \in Sessions : cursor[q] <= cursor'[q] /\ cursor'[q] <= last[q]
  <2>1. cursor[s] <= cursor'[s] /\ cursor'[s] <= last[s]
    BY <1>1, <1>3
  <2>2. ASSUME NEW q \in Sessions \ {s}
        PROVE  cursor[q] <= cursor'[q] /\ cursor'[q] <= last[q]
    BY <1>2, <1>3
  <2> QED
    BY <2>1, <2>2
<1>5. covered' \in [Sessions -> [Messages -> Nat]]
  <2> DEFINE row == [k \in Messages |-> IF rn[r].from < k /\ k <= rn[r].to
                                        THEN covered[s][k] + 1 ELSE covered[s][k]]
  <2>1. covered \in [Sessions -> [Messages -> Nat]]
    BY DEF TypesOK
  <2>2. row \in [Messages -> Nat]
    BY <1>1, <2>1
  <2>3. covered' = [covered EXCEPT ![s] = row]
    BY DEF Cover
  <2> HIDE DEF row
  <2> QED
    BY <1>1, <2>1, <2>2, <2>3
<1>6. TypesOK'
  <2>1. TypeOK'
    BY <1>2, <1>3, <1>4 DEF TypesOK, TypeOK, chat
  <2> QED
    BY <1>5, <2>1 DEF TypesOK, Moves
<1>7. Grows
  <2>1. \A q \in Sessions : last[q] <= last'[q]
    BY BackgroundAssumption DEF chat, TypesOK, TypeOK
  <2>2. \A q \in Sessions, k \in Messages : tried[q][k] <= tried'[q][k]
    BY DEF TypesOK
  <2> QED
    BY <1>4, <2>1, <2>2 DEF Grows
<1>8. BatchesOK'
  BY <1>6, <1>7, BatchesStay
<1>9. StartOK'
  <2>1. activated
    BY ActiveMeansActivated DEF Reading, Working
  <2>2. \A q \in Sessions : start[q] <= cursor'[q]
    <3>1. ASSUME NEW q \in Sessions \ {s}
          PROVE  start[q] <= cursor'[q]
      BY <1>3 DEF StartOK
    <3>2. start[s] <= cursor'[s]
      BY <1>1, <1>3
    <3> QED
      BY <3>1, <3>2
  <2> QED
    BY <2>1, <2>2 DEF StartOK
<1>10. CoveredOnce'
  BY CoverCovers
<1>11. CountsOK'
  <2>1. cursor[s] < cursor'[s]
    BY <1>1, <1>3
  <2>2. rn'[r].pc # "malformed"
    OBVIOUS
  <2> QED
    BY <1>1, <1>3, <1>6, <1>7, <2>1, <2>2, CountsMove
<1>12. LeaseOK'
  BY LeaseMoves DEF Working
<1>13. SpendOK'
  <2>1. recorded' = recorded + (rn[r].spent + 0) /\ billed' = billed + 0
    BY <1>1, <1>2
  <2>2. rn[r].pc \in Working /\ rn'[r].pc \notin Working
    BY DEF Reading, Working
  <2> QED
    BY <2>1, <2>2, SpendRecorded
<1> QED
  BY <1>6, <1>8, <1>9, <1>10, <1>11, <1>12, <1>13 DEF SkippedWasTried

(* What a runner that stops leaves behind.                                 *)
LEMMA StopIs ==
  ASSUME TypesOK, NEW r \in Runners, rn' = [rn EXCEPT ![r] = Idle]
  PROVE  Moves(r) /\ rn'[r].pc = "idle" /\ BatchOK(rn[r])'
<1>1. Moves(r) /\ rn'[r] = Idle
  BY MovesTo, IdleIsLocal
<1>2. Idle.pc = "idle" /\ Idle.spent = 0
  BY DEF Idle
<1> QED
  BY <1>1, <1>2, RestIsOK DEF Reading, Working

(* The ends of a pass that count nothing against a message: failed,        *)
(* deferred, superseded, or without spend to record.                       *)
EndsWith(r, spent) ==
  \/ FailPass(r, "failed", FALSE, spent)
  \/ FailPass(r, "deferred", FALSE, spent)
  \/ FailPass(r, "failed", TRUE, spent) /\ ~CursorHeld(r)
  \/ spent = 0 /\ UNCHANGED <<marks, recorded, covered, hasty>>

LEMMA EndsWithIs ==
  ASSUME TypesOK, NEW r \in Runners, rn[r].session \in Sessions, NEW spent \in Nat,
         EndsWith(r, spent)
  PROVE  /\ recorded' = recorded + spent
         /\ cursor' = cursor /\ covered' = covered /\ hasty' = hasty
         /\ backoff' \in [Sessions -> BOOLEAN] /\ malformed' \in [Sessions -> Nat]
         /\ \A q \in Sessions : malformed'[q] <= malformed[q]
<1> DEFINE s == rn[r].session
<1>1. malformed \in [Sessions -> Nat] /\ backoff \in [Sessions -> BOOLEAN] /\ recorded \in Nat
  BY DEF TypesOK, TypeOK
<1>2. ASSUME /\ malformed' \in [Sessions -> Nat]
             /\ \A q \in Sessions \ {s} : malformed'[q] = malformed[q],
             malformed'[s] = malformed[s] \/ malformed'[s] = 0
      PROVE  \A q \in Sessions : malformed'[q] <= malformed[q]
  BY <1>1, <1>2
<1>3. CASE FailPass(r, "failed", FALSE, spent)
  <2>1. /\ recorded' = recorded + spent
        /\ cursor' = cursor /\ covered' = covered /\ hasty' = hasty
        /\ backoff' \in [Sessions -> BOOLEAN] /\ malformed' \in [Sessions -> Nat]
        /\ \A q \in Sessions \ {s} : malformed'[q] = malformed[q]
    BY <1>3, FailPassIs
  <2>2. malformed'[s] = malformed[s] \/ malformed'[s] = 0
    BY <1>1, <1>3 DEF FailPass
  <2> QED
    BY <1>2, <2>1, <2>2
<1>4. CASE FailPass(r, "deferred", FALSE, spent)
  <2>1. /\ recorded' = recorded + spent
        /\ cursor' = cursor /\ covered' = covered /\ hasty' = hasty
        /\ backoff' \in [Sessions -> BOOLEAN] /\ malformed' \in [Sessions -> Nat]
        /\ \A q \in Sessions \ {s} : malformed'[q] = malformed[q]
        /\ malformed'[s] = malformed[s]
    BY <1>4, FailPassIs
  <2> QED
    BY <1>2, <2>1
<1>5. CASE FailPass(r, "failed", TRUE, spent) /\ ~CursorHeld(r)
  <2>1. /\ recorded' = recorded + spent
        /\ cursor' = cursor /\ covered' = covered /\ hasty' = hasty
        /\ backoff' \in [Sessions -> BOOLEAN] /\ malformed' \in [Sessions -> Nat]
        /\ \A q \in Sessions \ {s} : malformed'[q] = malformed[q]
        /\ malformed'[s] = malformed[s]
    BY <1>5, FailPassIs
  <2> QED
    BY <1>2, <2>1
<1>6. CASE spent = 0 /\ UNCHANGED <<marks, recorded, covered, hasty>>
  BY <1>1, <1>6 DEF marks
<1> QED
  BY <1>3, <1>4, <1>5, <1>6 DEF EndsWith

LEMMA FailPassKeeps ==
  ASSUME IInv, NEW r \in Runners, setting' = setting, rn[r].pc \in Working,
         Moves(r), rn'[r].pc \in {"idle", "next", "renew"}, BatchOK(rn[r])',
         NEW b \in {0, 1}, b = 1 => rn[r].pc = "call" /\ ~Capped(r), billed' = billed + b,
         EndsWith(r, rn[r].spent + b),
         UNCHANGED <<chat, start, tried, activated, crashes>>,
         turn' \in [Sessions -> {"none", "chat"} \cup Runners],
         lease' \in [holder : Runners \cup {Nobody, Dead}, age : 0..runnerLeaseTTL]
  PROVE  IInv'
<1> USE DEF IInv
<1>1. rn[r] \in Locals
  BY DEF TypesOK
<1>2. rn[r].session \in Sessions /\ rn[r].spent + b \in Nat /\ rn[r].spent \in Nat
  BY <1>1, LocalFields DEF BatchesOK, BatchOK
<1> QED
  BY <1>2, EndsWithIs, PassEnds

LEMMA CallCappedKeeps ==
  ASSUME IInv, NEW r \in Runners, CallCapped(r), setting' = setting
  PROVE  IInv'
<1> USE DEF IInv
<1>1. Moves(r) /\ rn'[r].pc = "idle" /\ BatchOK(rn[r])'
  BY StopIs DEF CallCapped
<1>2. billed' = billed + 0 /\ rn[r].spent + 0 = rn[r].spent
  BY LocalFields DEF CallCapped, TypesOK, TypeOK
<1>3. EndsWith(r, rn[r].spent + 0)
  BY <1>2 DEF CallCapped, EndsWith
<1>4. /\ rn[r].pc \in Working /\ UNCHANGED <<chat, start, tried, activated, crashes>>
      /\ turn' \in [Sessions -> {"none", "chat"} \cup Runners]
      /\ lease' \in [holder : Runners \cup {Nobody, Dead}, age : 0..runnerLeaseTTL]
  BY DEF CallCapped, Working, TypesOK, TypeOK
<1> QED
  BY <1>1, <1>2, <1>3, <1>4, FailPassKeeps

LEMMA RecordFailedKeeps ==
  ASSUME IInv, NEW r \in Runners, RecordFailed(r), setting' = setting
  PROVE  IInv'
<1> USE DEF IInv
<1>1. rn[r].pc = "failed" /\ rn[r].session \in Sessions
  BY DEF RecordFailed, BatchesOK, BatchOK, Reading, Working
<1>2. Moves(r) /\ rn'[r].pc \in {"renew", "next"} /\ BatchOK(rn[r])'
  BY <1>1, AfterIs DEF RecordFailed
<1>3. billed' = billed + 0 /\ rn[r].spent + 0 = rn[r].spent
  BY LocalFields DEF RecordFailed, TypesOK, TypeOK
<1>4. EndsWith(r, rn[r].spent + 0)
  BY <1>3 DEF RecordFailed, EndsWith
<1>5. /\ rn[r].pc \in Working /\ UNCHANGED <<chat, start, tried, activated, crashes>>
      /\ turn' \in [Sessions -> {"none", "chat"} \cup Runners]
      /\ lease' \in [holder : Runners \cup {Nobody, Dead}, age : 0..runnerLeaseTTL]
  BY <1>1 DEF RecordFailed, Working, TypesOK, TypeOK
<1> QED
  BY <1>2, <1>3, <1>4, <1>5, FailPassKeeps

(* A malformed attempt is recorded, by the runner that waited with it.     *)
LEMMA MalformedRecorded ==
  ASSUME IInv, NEW r \in Runners, setting' = setting, rn[r].pc = "malformed", CursorHeld(r),
         FailPass(r, "failed", TRUE, rn[r].spent), After(r, FALSE),
         UNCHANGED <<chat, turn, activated, lease, start, tried, billed, crashes>>
  PROVE  IInv'
<1> USE DEF IInv
<1> DEFINE s == rn[r].session
<1>1. s \in Sessions /\ rn[r].spent \in Nat
  BY LocalFields DEF BatchesOK, BatchOK, TypesOK, Reading, Working
<1>2. Moves(r) /\ rn'[r].pc \in {"renew", "next"} /\ BatchOK(rn[r])'
  BY <1>1, AfterIs
<1>3. /\ recorded' = recorded + rn[r].spent /\ recorded' \in Nat
      /\ cursor' = cursor /\ covered' = covered /\ hasty' = hasty
      /\ backoff' \in [Sessions -> BOOLEAN] /\ malformed' \in [Sessions -> Nat]
      /\ \A q \in Sessions \ {s} : malformed'[q] = malformed[q]
      /\ malformed'[s] = malformed[s] + 1
  <2>1. /\ recorded' = recorded + rn[r].spent /\ recorded' \in Nat
        /\ cursor' = cursor /\ covered' = covered /\ hasty' = hasty
        /\ backoff' \in [Sessions -> BOOLEAN] /\ malformed' \in [Sessions -> Nat]
        /\ \A q \in Sessions \ {s} : malformed'[q] = malformed[q]
        /\ CursorHeld(r) /\ "failed" # "deferred" =>
             malformed'[s] = IF TRUE THEN malformed[s] + 1 ELSE 0
    BY <1>1, FailPassIs
  <2> QED
    BY <2>1
<1>4. TypesOK'
  BY <1>2, <1>3, TypesStay DEF chat, TypesOK, TypeOK
<1>5. Grows
  BY <1>3 DEF Grows, chat, TypesOK, TypeOK
<1>6. BatchesOK'
  BY <1>2, <1>4, <1>5, BatchesStay
<1>7. StartOK' /\ CoveredOnce' /\ SkippedWasTried'
  <2>1. activated
    BY ActiveMeansActivated
  <2> QED
    BY <1>3, <2>1 DEF StartOK, CoveredOnce, SkippedWasTried
<1>8. CountsOK'
  BY <1>1, <1>2, <1>3, <1>4, <1>5, CountsRecord
<1>9. LeaseOK'
  BY <1>2, LeaseMoves DEF Working
<1>10. SpendOK'
  <2>1. billed' = billed + 0 /\ recorded' = recorded + (rn[r].spent + 0)
    BY <1>1, <1>3 DEF TypesOK, TypeOK
  <2>2. rn[r].pc \in Working /\ rn'[r].pc \notin Working
    BY <1>2 DEF Working
  <2> QED
    BY <1>2, <2>1, <2>2, SpendRecorded
<1> QED
  BY <1>4, <1>6, <1>7, <1>8, <1>9, <1>10

LEMMA RecordMalformedKeeps ==
  ASSUME IInv, NEW r \in Runners, RecordMalformed(r), setting' = setting
  PROVE  IInv'
<1> USE DEF IInv
<1> DEFINE s == rn[r].session
<1>1. rn[r].pc = "malformed" /\ rn[r].pc \in Reading /\ rn[r].pc \in Working
  BY DEF RecordMalformed, Reading, Working
<1>2. /\ rn[r] \in Locals /\ s \in Sessions /\ rn[r].spent \in Nat /\ rn[r].malformed \in Nat
  BY <1>1, LocalFields DEF BatchesOK, BatchOK, TypesOK
<1>3. Moves(r) /\ rn'[r].pc \in {"renew", "next"} /\ BatchOK(rn[r])'
  BY <1>2, AfterIs DEF RecordMalformed
<1>4. UNCHANGED <<chat, turn, activated, lease, start, tried, billed, crashes>> /\ After(r, FALSE)
  BY DEF RecordMalformed
<1>5. /\ billed' = billed + 0 /\ rn[r].spent + 0 = rn[r].spent
      /\ turn \in [Sessions -> {"none", "chat"} \cup Runners]
      /\ lease \in [holder : Runners \cup {Nobody, Dead}, age : 0..runnerLeaseTTL]
  BY <1>2, <1>4 DEF TypesOK, TypeOK
<1>6. CASE ~GivesUp(r)
  <2>1. FailPass(r, "failed", TRUE, rn[r].spent)
    BY <1>6 DEF RecordMalformed
  <2>2. CASE CursorHeld(r)
    BY <1>1, <1>4, <2>1, <2>2, MalformedRecorded
  <2>3. CASE ~CursorHeld(r)
    <3>1. EndsWith(r, rn[r].spent + 0)
      BY <1>5, <2>1, <2>3 DEF EndsWith
    <3> QED
      BY <1>1, <1>3, <1>4, <1>5, <3>1, FailPassKeeps
  <2> QED
    BY <2>2, <2>3
<1>7. CASE GivesUp(r)
  <2>1. SkipPass(r)
    BY <1>7 DEF RecordMalformed
  <2>2. CASE CursorHeld(r)
    <3>1. rn[r].malformed + 1 <= tried[s][rn[r].from + 1]
      BY <1>1 DEF BatchesOK, BatchOK
    <3>2. tried[s][rn[r].from + 1] \in Nat
      <4>1. /\ rn[r].from \in Nat /\ rn[r].to \in Nat /\ rn[r].from < rn[r].to /\ rn[r].to <= last[s]
            /\ last[s] \in 0..MaxMessages /\ MaxMessages \in Nat
        BY <1>1, <1>2, LocalFields, BackgroundAssumption DEF BatchesOK, BatchOK, TypesOK, TypeOK
      <4>2. rn[r].from + 1 \in Messages
        BY <4>1 DEF Messages
      <4> QED
        BY <1>2, <4>2 DEF TypesOK
    <3>3. ~(tried'[s][rn[r].from + 1] < MalformedSkip)
      BY <1>2, <1>4, <1>7, <3>1, <3>2, BackgroundAssumption DEF GivesUp
    <3>4. hasty' = {}
      BY <2>1, <2>2, <3>3 DEF SkipPass, SkippedWasTried
    <3>5. /\ recorded' = recorded + rn[r].spent
          /\ cursor' = [cursor EXCEPT ![s] = rn[r].to]
          /\ malformed' = [malformed EXCEPT ![s] = 0]
          /\ backoff' = [backoff EXCEPT ![s] = FALSE] /\ Cover(r)
      BY <2>1, <2>2 DEF SkipPass, insertRun
    <3> QED
      BY <1>1, <1>3, <1>4, <1>5, <2>2, <3>4, <3>5, PassCovers
  <2>3. CASE ~CursorHeld(r)
    <3>1. recorded' = recorded + rn[r].spent /\ UNCHANGED <<cursor, malformed, backoff, covered, hasty>>
      BY <2>1, <2>3 DEF SkipPass, insertRun
    <3>2. EndsWith(r, rn[r].spent + 0)
      BY <1>5, <2>3, <3>1 DEF EndsWith, FailPass, insertRun
    <3> QED
      BY <1>1, <1>3, <1>4, <1>5, <3>2, FailPassKeeps
  <2> QED
    BY <2>2, <2>3
<1> QED
  BY <1>6, <1>7

LEMMA AcquireTurnLeaseKeeps ==
  ASSUME IInv, NEW r \in Runners, AcquireTurnLease(r), setting' = setting
  PROVE  IInv'
<1> USE DEF IInv
<1> DEFINE s == rn[r].session
<1>1. /\ rn[r].pc = "commit" /\ rn[r].pc \in Working /\ Takes(r, CommitTime)
      /\ UNCHANGED <<chat, activated, start, tried, billed, faults, crashes>>
  BY DEF AcquireTurnLease, Working
<1>2. rn[r] \in Locals /\ s \in Sessions /\ rn[r].spent \in Nat
  BY <1>1, LocalFields DEF BatchesOK, BatchOK, TypesOK
<1>3. /\ lease' \in [holder : Runners \cup {Nobody, Dead}, age : 0..runnerLeaseTTL]
      /\ lease.holder # r => lease' = lease
      /\ lease.holder = r => lease'.holder = r /\ lease'.age <= lease.age + CommitTime
  BY <1>1, TakesIs, Times
<1>4. /\ turn \in [Sessions -> {"none", "chat"} \cup Runners]
      /\ lease.age \in 0..runnerLeaseTTL /\ lease'.age \in 0..runnerLeaseTTL
      /\ rn[r].spent + 0 = rn[r].spent
      /\ billed' = billed + 0 /\ recorded \in Nat /\ billed \in Nat
  BY <1>1, <1>2, <1>3 DEF TypesOK, TypeOK
<1>5. CASE /\ FailPass(r, "deferred", FALSE, rn[r].spent)
           /\ After(r, FALSE)
           /\ UNCHANGED turn
  <2>1. Moves(r) /\ rn'[r].pc \in {"renew", "next"} /\ BatchOK(rn[r])'
    BY <1>2, <1>5, AfterIs
  <2>2. EndsWith(r, rn[r].spent + 0)
    BY <1>4, <1>5 DEF EndsWith
  <2>3. turn' \in [Sessions -> {"none", "chat"} \cup Runners]
    BY <1>4, <1>5
  <2> QED
    BY <1>1, <1>3, <1>4, <2>1, <2>2, <2>3, FailPassKeeps
<1>6. CASE /\ turn' = [turn EXCEPT ![s] = r]
           /\ rn' = [rn EXCEPT ![r].pc = "committing"]
           /\ UNCHANGED <<marks, recorded, covered, hasty>>
  <2> DEFINE l == [rn[r] EXCEPT !.pc = "committing"]
  <2>1. l \in Locals
    BY <1>2 DEF Locals, Places, Working
  <2>2. /\ l.pc = "committing" /\ l.spent = rn[r].spent
        /\ l.session = rn[r].session /\ l.from = rn[r].from /\ l.to = rn[r].to
        /\ l.malformed = rn[r].malformed
    BY <1>2 DEF Locals
  <2>3. rn' = [rn EXCEPT ![r] = l]
    BY <1>6 DEF TypesOK
  <2> HIDE DEF l
  <2>4. Moves(r) /\ rn'[r] = l
    BY <2>1, <2>3, MovesTo
  <2>5. turn' \in [Sessions -> {"none", "chat"} \cup Runners]
    BY <1>4, <1>6
  <2>6. TypesOK'
    BY <1>1, <1>3, <1>6, <2>4, <2>5, TypesStay DEF chat, marks, TypesOK, TypeOK
  <2>7. BatchOK(rn[r])'
    BY <1>1, <1>6, <2>2, <2>4 DEF BatchesOK, BatchOK, chat, marks, Reading, Working
  <2>8. OthersRest(r) /\ activated
    BY <1>1, LeaseExcludes, ActiveMeansActivated
  <2>9. RetryDelay = 0 /\ rn'[r].pc \in Working => lease'.holder = r /\ lease'.age <= Age(rn'[r])
    <3>1. RetryDelay = 0 => lease.holder = r /\ lease.age <= 2 * FullCall
      BY <1>1, AgeIs DEF LeaseOK
    <3>2. Age(l) = 2 * FullCall + CommitTime
      BY <2>2, AgeIs
    <3>3. FullCall \in Nat /\ CommitTime \in Nat /\ runnerLeaseTTL \in Nat
      BY Times
    <3> QED
      BY <1>3, <1>4, <2>4, <3>1, <3>2, <3>3
  <2>10. SpendOK'
    <3>1. ASSUME RetryDelay = 0, crashes' = 0
          PROVE  OthersRest(r) /\ SpendOf(rn[r])'
      <4>1. billed <= recorded + rn[r].spent /\ billed <= DailyCap
        BY <1>1, <2>8, <3>1, SpendIs DEF SpendOf
      <4> QED
        BY <1>1, <1>6, <2>2, <2>4, <2>8, <4>1, SettingStays DEF SpendOf, Working
    <3> QED
      BY <2>4, <3>1, SpendMoves
  <2>11. \A q \in Sessions : malformed'[q] <= malformed[q]
    BY <1>6 DEF marks, TypesOK, TypeOK
  <2>12. rn'[r].pc # "malformed"
    BY <2>2, <2>4
  <2> QED
    BY <1>1, <1>6, <2>4, <2>6, <2>7, <2>8, <2>9, <2>10, <2>11, <2>12, PassGoesOn DEF chat, marks
<1> QED
  BY <1>5, <1>6 DEF AcquireTurnLease

LEMMA CommitPassKeeps ==
  ASSUME IInv, NEW r \in Runners, CommitPass(r), setting' = setting
  PROVE  IInv'
<1> USE DEF IInv
<1> DEFINE s == rn[r].session
<1>1. /\ rn[r].pc = "committing" /\ rn[r].pc \in Working /\ rn[r].pc \in Reading
      /\ UNCHANGED <<chat, activated, lease, start, tried, billed, faults, crashes>>
  BY DEF CommitPass, Working, Reading
<1>2. rn[r] \in Locals /\ s \in Sessions /\ rn[r].spent \in Nat
  BY <1>1, LocalFields DEF BatchesOK, BatchOK, TypesOK
<1>3. /\ turn \in [Sessions -> {"none", "chat"} \cup Runners]
      /\ lease \in [holder : Runners \cup {Nobody, Dead}, age : 0..runnerLeaseTTL]
      /\ rn[r].spent + 0 = rn[r].spent
      /\ billed' = billed + 0
  BY <1>1, <1>2 DEF TypesOK, TypeOK
<1>4. CASE FailPass(r, "failed", FALSE, rn[r].spent) /\ After(r, FALSE) /\ UNCHANGED turn
  <2>1. Moves(r) /\ rn'[r].pc \in {"renew", "next"} /\ BatchOK(rn[r])'
    BY <1>2, <1>4, AfterIs
  <2>2. EndsWith(r, rn[r].spent + 0)
    BY <1>3, <1>4 DEF EndsWith
  <2> QED
    BY <1>1, <1>3, <1>4, <2>1, <2>2, FailPassKeeps
<1>5. ASSUME /\ insertRun(r, rn[r].spent)
             /\ turn' = [turn EXCEPT ![s] = "none"],
             UNCHANGED hasty,
             \/ /\ CursorHeld(r)
                /\ cursor' = [cursor EXCEPT ![s] = rn[r].to]
                /\ malformed' = [malformed EXCEPT ![s] = 0]
                /\ backoff' = [backoff EXCEPT ![s] = FALSE]
                /\ Cover(r)
                /\ After(r, TRUE)
             \/ ~CursorHeld(r) /\ After(r, FALSE) /\ UNCHANGED <<marks, covered>>
      PROVE  IInv'
  <2>1. turn' \in [Sessions -> {"none", "chat"} \cup Runners]
    BY <1>3, <1>5
  <2>2. Moves(r) /\ rn'[r].pc \in {"renew", "next"} /\ BatchOK(rn[r])'
    BY <1>2, <1>5, AfterIs
  <2>3. CASE CursorHeld(r)
    <3>1. recorded' = recorded + rn[r].spent /\ hasty' = {}
      BY <1>5 DEF insertRun, SkippedWasTried
    <3> QED
      BY <1>1, <1>5, <2>1, <2>2, <2>3, <3>1, PassCovers
  <2>4. CASE ~CursorHeld(r)
    <3>1. EndsWith(r, rn[r].spent + 0)
      BY <1>3, <1>5, <2>4 DEF EndsWith, FailPass, insertRun, marks
    <3> QED
      BY <1>1, <1>3, <2>1, <2>2, <3>1, FailPassKeeps
  <2> QED
    BY <2>3, <2>4
<1>6. CASE turn[s] = r
  <2>1. /\ insertRun(r, rn[r].spent)
        /\ turn' = [turn EXCEPT ![s] = "none"]
        /\ UNCHANGED hasty
        /\ IF CursorHeld(r)
           THEN /\ cursor' = [cursor EXCEPT ![s] = rn[r].to]
                /\ malformed' = [malformed EXCEPT ![s] = 0]
                /\ backoff' = [backoff EXCEPT ![s] = FALSE]
                /\ Cover(r)
                /\ After(r, TRUE)
           ELSE After(r, FALSE) /\ UNCHANGED <<marks, covered>>
    BY <1>6 DEF CommitPass
  <2> QED
    BY <1>5, <2>1
<1>7. CASE turn[s] # r
  BY <1>4, <1>7 DEF CommitPass
<1> QED
  BY <1>6, <1>7

-----------------------------------------------------------------------------
(* Shutdowns and crashes                                                   *)

LEMMA ShutdownKeeps ==
  ASSUME IInv, NEW r \in Runners, Shutdown(r), setting' = setting
  PROVE  IInv'
<1> USE DEF IInv
<1>1. Moves(r) /\ rn'[r].pc = "idle" /\ BatchOK(rn[r])'
  BY StopIs DEF Shutdown
<1>2. rn[r] \in Locals /\ rn[r].spent \in Nat
  BY LocalFields DEF TypesOK
<1>3. /\ turn' \in [Sessions -> {"none", "chat"} \cup Runners]
      /\ lease' \in [holder : Runners \cup {Nobody, Dead}, age : 0..runnerLeaseTTL]
      /\ lease' = lease \/ lease.holder = r
      /\ UNCHANGED <<chat, activated, start, tried, crashes>>
  BY Times DEF Shutdown, TypesOK, TypeOK
<1>4. PICK b \in (IF rn[r].pc = "call" /\ ~Capped(r) THEN {0, 1} ELSE {0}) :
        /\ billed' = billed + b
        /\ IF rn[r].spent + b = 0 THEN UNCHANGED <<marks, recorded, covered, hasty>>
           ELSE FailPass(r, "deferred", FALSE, rn[r].spent + b)
  BY DEF Shutdown
<1>5. b \in {0, 1} /\ (b = 1 => rn[r].pc = "call" /\ ~Capped(r))
  OBVIOUS
<1>6. CASE rn[r].pc \in Working
  <2>1. EndsWith(r, rn[r].spent + b)
    BY <1>4 DEF EndsWith
  <2> QED
    BY <1>1, <1>3, <1>4, <1>5, <1>6, <2>1, FailPassKeeps
<1>7. CASE rn[r].pc \notin Working
  <2>1. b = 0 /\ rn[r].spent = 0
    BY <1>5, <1>7 DEF BatchesOK, BatchOK, Reading, Working
  <2>2. UNCHANGED <<marks, recorded, covered, hasty>> /\ billed' = billed
    BY <1>2, <1>4, <2>1 DEF TypesOK, TypeOK
  <2>3. TypesOK'
    BY <1>1, <1>3, <2>2, TypesStay DEF chat, marks, TypesOK, TypeOK
  <2>4. SpendOK'
    BY <1>1, <1>3, <1>7, <2>2, SpendStays DEF Working
  <2>5. \A q \in Sessions : malformed'[q] <= malformed[q]
    BY <2>2 DEF marks, TypesOK, TypeOK
  <2>6. lease' = lease \/ OthersRest(r)
    BY <1>3, LeaseExcludes
  <2> QED
    BY <1>1, <1>3, <2>2, <2>3, <2>4, <2>5, <2>6, PassGoesOn DEF chat, marks, Working
<1> QED
  BY <1>6, <1>7

LEMMA CrashKeeps ==
  ASSUME IInv, NEW r \in Runners, Crash(r), setting' = setting
  PROVE  IInv'
<1> USE DEF IInv
<1>1. Moves(r) /\ rn'[r].pc = "idle" /\ BatchOK(rn[r])'
  BY StopIs DEF Crash
<1>2. /\ turn' \in [Sessions -> {"none", "chat"} \cup Runners]
      /\ lease' \in [holder : Runners \cup {Nobody, Dead}, age : 0..runnerLeaseTTL]
      /\ lease' = lease \/ lease.holder = r
      /\ crashes' \in Nat /\ crashes' # 0
      /\ UNCHANGED <<chat, activated, marks, recorded, hist>>
  BY DEF Crash, TypesOK, TypeOK
<1>3. TypesOK'
  BY <1>1, <1>2, TypesStay DEF chat, marks, hist, TypesOK, TypeOK
<1>4. SpendOK'
  BY <1>2 DEF SpendOK
<1>5. \A q \in Sessions : malformed'[q] <= malformed[q]
  BY <1>2 DEF marks, TypesOK, TypeOK
<1>6. lease' = lease \/ OthersRest(r)
  BY <1>2, LeaseExcludes
<1> QED
  BY <1>1, <1>2, <1>3, <1>4, <1>5, <1>6, PassGoesOn DEF chat, marks, hist, Working

-----------------------------------------------------------------------------
(* The invariant                                                           *)

LEMMA InitIsOK ==
  ASSUME Init
  PROVE  IInv
<1>1. /\ \A r \in Runners : rn[r] = Idle
      /\ Idle \in Locals /\ Idle.pc = "idle" /\ Idle.spent = 0
      /\ DailyCap \in Nat \ {0}
  <2>1. setting \in [batch : Nat \ {0}, retryDelay : Nat, dailyCap : Nat \ {0}]
    BY BackgroundAssumption DEF Init
  <2>2. Idle.pc = "idle" /\ Idle.spent = 0
    BY DEF Idle
  <2>3. \A r \in Runners : rn[r] = Idle
    BY DEF Init
  <2> QED
    BY <2>1, <2>2, <2>3, IdleIsLocal DEF DailyCap
<1>2. TypesOK
  <2>1. TypeOK
    <3>1. MaxMessages \in Nat \ {0}
      BY BackgroundAssumption
    <3>2. /\ last \in [Sessions -> 0..MaxMessages] /\ \A s \in Sessions : last[s] \in {0, 1}
      BY <3>1 DEF Init
    <3>3. compacted \in [Sessions -> 0..MaxMessages]
      BY <3>1 DEF Init
    <3>4. lease \in [holder : Runners \cup {Nobody, Dead}, age : 0..runnerLeaseTTL]
      BY Times DEF Init
    <3>5. cursor \in [Sessions -> Nat] /\ \A s \in Sessions : cursor[s] <= last[s]
      BY <3>2 DEF Init
    <3>6. /\ turn \in [Sessions -> {"none", "chat"} \cup Runners]
          /\ malformed \in [Sessions -> Nat] /\ backoff \in [Sessions -> BOOLEAN]
          /\ activated \in BOOLEAN /\ recorded \in Nat /\ billed \in Nat
      BY DEF Init
    <3> QED
      BY <3>2, <3>3, <3>4, <3>5, <3>6 DEF TypeOK
  <2>2. rn \in [Runners -> Locals]
    BY <1>1 DEF Init
  <2> QED
    BY <2>1, <2>2 DEF Init, TypesOK
<1>3. BatchesOK
  BY <1>1 DEF BatchesOK, BatchOK, Reading, Working
<1>4. StartOK
  BY <1>1 DEF Init, StartOK
<1>5. CoveredOnce
  <2>1. \A k \in Messages : ~(0 < k /\ k <= 0)
    BY BackgroundAssumption DEF Messages
  <2> QED
    BY <2>1 DEF Init, CoveredOnce
<1>6. CountsOK
  <2>1. ASSUME NEW s \in Sessions
        PROVE  IsFiniteSet(Waiting(s)) /\ malformed[s] + Cardinality(Waiting(s)) <= Tried(s)
    <3>1. Waiting(s) = {}
      BY <1>1 DEF Waiting
    <3>2. malformed[s] = 0 /\ cursor[s] = 0 /\ last[s] \in {0, 1}
      BY DEF Init
    <3>3. Tried(s) = 0
      <4>1. 1 \in Messages
        BY BackgroundAssumption DEF Messages
      <4> QED
        BY <3>2, <4>1 DEF Tried, Init
    <3>4. IsFiniteSet(Waiting(s)) /\ Cardinality(Waiting(s)) = 0
      BY <3>1, FS_EmptySet
    <3> QED
      BY <3>2, <3>3, <3>4
  <2> QED
    BY <2>1 DEF CountsOK
<1>7. SkippedWasTried
  BY DEF Init, SkippedWasTried
<1>8. LeaseOK
  BY <1>1 DEF LeaseOK, Working
<1>9. SpendOK
  BY <1>1 DEF Init, SpendOK, Working
<1> QED
  BY <1>2, <1>3, <1>4, <1>5, <1>6, <1>7, <1>8, <1>9 DEF IInv

LEMMA NextKeeps ==
  ASSUME IInv, Next
  PROVE  IInv'
<1>1. setting' = setting
  BY DEF Next
<1>2. ASSUME NEW s \in Sessions,
             OwnerMessage(s) \/ Compact(s) \/ EndTurn(s) \/ BackoffOver(s) \/ TurnLeaseLapses(s)
      PROVE  IInv'
  BY <1>1, <1>2, OwnerMessageKeeps, TurnKeeps
<1>3. ASSUME NEW r \in Runners, PassStep(r)
      PROVE  IInv'
  BY <1>1, <1>3, TickKeeps, NextSessionKeeps, EndTickKeeps, RenewKeeps, ReadBatchKeeps,
     CallAnsweredKeeps, CallCappedKeeps, RecordFailedKeeps, RecordMalformedKeeps,
     AcquireTurnLeaseKeeps, CommitPassKeeps DEF PassStep
<1>4. ASSUME NEW r \in Runners, Trouble(r)
      PROVE  IInv'
  BY <1>1, <1>4, CallRetriedKeeps, CallFailedKeeps, CallMalformedKeeps, ShutdownKeeps,
     CrashKeeps DEF Trouble
<1>5. ASSUME LeaseLapses
      PROVE  IInv'
  BY <1>1, <1>5, LeaseLapsesKeeps
<1> QED
  BY <1>2, <1>3, <1>4, <1>5 DEF Next, Act

LEMMA StutterKeeps ==
  ASSUME IInv, UNCHANGED vars
  PROVE  IInv'
<1>1. TypesOK'
  BY DEF IInv, TypesOK, TypeOK, vars, chat, marks, hist
<1>2. \A s \in Sessions : last[s] <= last'[s]
  BY BackgroundAssumption DEF IInv, TypesOK, TypeOK, vars, chat
<1> QED
  BY <1>1, <1>2, QuietStep DEF vars, chat, marks, hist

(* The invariant of the passes: what every runner carries through a pass   *)
(* (internal/memorybackground/pass.go) agrees with the marks, the lease and *)
(* the spend in the store (internal/eviedb/memory_background.go).           *)
THEOREM Invariance == Spec => []IInv
<1>1. Init => IInv
  BY InitIsOK
<1>2. IInv /\ [Next]_vars => IInv'
  BY NextKeeps, StutterKeeps
<1> QED
  BY <1>1, <1>2, PTL DEF Spec

(* One runner pays at a time: all who do hold the one lease.               *)
LEMMA OnePassHolds ==
  ASSUME TypesOK, LeaseOK
  PROVE  OnePass
<1> SUFFICES ASSUME RetryDelay = 0
             PROVE  Cardinality({r \in Runners : rn[r].pc \in {"call", "commit", "committing"}}) <= 1
  BY DEF OnePass
<1> DEFINE paying == {r \in Runners : rn[r].pc \in {"call", "commit", "committing"}}
<1>1. \A r \in paying : r = lease.holder
  BY DEF LeaseOK, Working
<1>2. CASE paying = {}
  BY <1>2, FS_EmptySet
<1>3. CASE paying # {}
  <2>1. paying = {lease.holder}
    BY <1>1, <1>3
  <2> HIDE DEF paying
  <2>2. Cardinality(paying) = 1
    BY <2>1, FS_Singleton
  <2> QED
    BY <2>2 DEF paying
<1> QED
  BY <1>2, <1>3

(* Background passes cover every owner message after the activation once   *)
(* and in order, give no batch up before MalformedSkip malformed attempts  *)
(* on its first message, and, where waits between attempts cost nothing,   *)
(* pay one at a time and, without dead processes, within the daily cap:    *)
(* Tick of internal/memorybackground/pass.go, for any conversations,       *)
(* processes, interleavings, shutdowns, lost leases and superseded batches. *)
THEOREM PassesStaySound == Spec => []PassesAreSound
<1>1. IInv => PassesAreSound
  <2> SUFFICES ASSUME IInv PROVE PassesAreSound
    OBVIOUS
  <2>1. OnePass
    BY OnePassHolds DEF IInv
  <2>2. SpendWithinCap
    BY DEF IInv, SpendOK, SpendWithinCap
  <2> QED
    BY <2>1, <2>2 DEF IInv, TypesOK, PassesAreSound
<1> QED
  BY <1>1, Invariance, PTL

-----------------------------------------------------------------------------
(* The plan.                                                               *)

(* A tree: parents come before their subtasks.                             *)
Trees == {p \in [Ids -> 0..MaxTasks] : \A t \in Ids : p[t] < t}

-----------------------------------------------------------------------------
(* Numbers.                                                                *)

LEMMA PlanBounds ==
  /\ MaxTasks \in Nat /\ MaxTasks > 0 /\ MaxBatch \in Nat /\ MaxBatch > 0
  /\ PerParent \in Nat /\ PerTurn \in Nat
  BY PlanAssumption

LEMMA SmallerIsWellFounded ==
  \E R : IsWellFoundedOn(R, Nat) /\ \A x, y \in Nat : x < y => <<x, y>> \in R
  <1>1. \A x, y \in Nat : x < y => <<x, y>> \in OpToRel(<, Nat)
    BY DEF OpToRel
  <1> QED
    BY <1>1, NatLessThanWellFounded

LEMMA SmallestNumber ==
  ASSUME NEW S, S \subseteq Nat, S # {}
  PROVE  \E m \in S : \A k \in S : m <= k
  <1>1. PICK R : IsWellFoundedOn(R, Nat) /\ \A x, y \in Nat : x < y => <<x, y>> \in R
    BY SmallerIsWellFounded
  <1>2. IsWellFoundedOn(R, Nat)
    BY <1>1
  <1>3. \E x \in S : \A y \in S : ~ (<<y, x>> \in R)
    BY <1>2, WFMin, ZenonT(60)
  <1>4. PICK x \in S : \A y \in S : ~ (<<y, x>> \in R)
    BY <1>3
  <1>5. ASSUME NEW y \in S PROVE x <= y
    <2>1. x \in Nat /\ y \in Nat /\ ~(<<y, x>> \in R)
      BY <1>4
    <2>2. ~(y < x)
      BY <1>1, <2>1, Zenon
    <2> QED
      BY <2>1, <2>2
  <1> QED
    BY <1>5

(* Induction up to a bound, for what can be said with a set.               *)
LEMMA UpToABound ==
  ASSUME NEW K \in Nat, NEW G,
         \A k \in 0..K : (\A j \in 0..K : j < k => j \in G) => k \in G
  PROVE  \A k \in 0..K : k \in G
  <1> SUFFICES ASSUME NEW k0 \in 0..K, k0 \notin G
               PROVE  FALSE
    OBVIOUS
  <1> DEFINE B == {k \in 0..K : k \notin G}
  <1>1. B \subseteq Nat /\ B # {}
    OBVIOUS
  <1> HIDE DEF B
  <1>2. PICK m \in B : \A k \in B : m <= k
    BY <1>1, SmallestNumber
  <1>3. m \in 0..K /\ m \notin G
    BY DEF B
  <1>4. ASSUME NEW j \in 0..K, j < m
        PROVE  j \in G
    BY <1>2, <1>3, <1>4 DEF B
  <1> QED
    BY <1>3, <1>4

-----------------------------------------------------------------------------
(* The tree.                                                               *)

(* In a tree the ancestors are those of the parent, behind the parent.     *)
LEMMA AncestorsAre ==
  ASSUME NEW p \in Trees
  PROVE  AncestorsFrom(p) =
           [t \in Ids |-> IF p[t] = 0 THEN <<>> ELSE <<p[t]>> \o AncestorsFrom(p)[p[t]]]
  <1> DEFINE Is(f, k) ==
               f = [t \in 1..k |-> IF p[t] = 0 THEN <<>> ELSE <<p[t]>> \o f[p[t]]]
             G == {k \in 0..MaxTasks : \E f : Is(f, k)}
  <1>1. ASSUME NEW k \in 0..MaxTasks, \A j \in 0..MaxTasks : j < k => j \in G
        PROVE  k \in G
    <2>1. CASE k = 0
      <3>1. Is([t \in 1..0 |-> 0], 0)
        OBVIOUS
      <3> QED
        BY <2>1, <3>1
    <2>2. CASE k # 0
      <3>1. k - 1 \in 0..MaxTasks /\ k - 1 < k /\ k \in Nat
        BY <2>2, PlanBounds
      <3>2. PICK f : Is(f, k - 1)
        BY <1>1, <3>1
      <3> DEFINE g == [t \in 1..k |-> IF p[t] = 0 THEN <<>> ELSE <<p[t]>> \o f[p[t]]]
      <3>3. ASSUME NEW t \in 1..(k - 1)
            PROVE  g[t] = f[t]
        <4>1. t \in 1..k
          BY <3>1
        <4>2. f[t] = IF p[t] = 0 THEN <<>> ELSE <<p[t]>> \o f[p[t]]
          BY <3>2
        <4> QED
          BY <4>1, <4>2
      <3>4. ASSUME NEW t \in 1..k, p[t] # 0
            PROVE  p[t] \in 1..(k - 1)
        <4>1. t \in Ids /\ t \in Nat
          BY PlanBounds DEF Ids
        <4>2. p[t] \in 0..MaxTasks /\ p[t] < t
          BY <4>1 DEF Trees
        <4> QED
          BY <3>1, <3>4, <4>1, <4>2
      <3>5. \A t \in 1..k : p[t] # 0 => g[p[t]] = f[p[t]]
        <4> HIDE DEF g
        <4> QED
          BY <3>3, <3>4
      <3>6. Is(g, k)
        <4>1. \A t \in 1..k :
                (IF p[t] = 0 THEN <<>> ELSE <<p[t]>> \o f[p[t]])
                  = (IF p[t] = 0 THEN <<>> ELSE <<p[t]>> \o g[p[t]])
          <5> HIDE DEF g
          <5> QED
            BY <3>5
        <4> DEFINE h == [t \in 1..k |-> IF p[t] = 0 THEN <<>> ELSE <<p[t]>> \o g[p[t]]]
        <4>2. g = h
          <5>1. DOMAIN g = 1..k /\ DOMAIN h = 1..k
            OBVIOUS
          <5>2. g = [t \in DOMAIN g |-> g[t]] /\ h = [t \in DOMAIN h |-> h[t]]
            OBVIOUS
          <5>3. \A t \in 1..k : g[t] = h[t]
            BY <4>1
          <5> HIDE DEF g, h
          <5> QED
            BY <5>1, <5>2, <5>3
        <4> HIDE DEF g
        <4> QED
          BY <4>2
      <3> HIDE DEF g, Is
      <3> QED
        BY <3>6
    <2> QED
      BY <2>1, <2>2
  <1> HIDE DEF G
  <1>2. MaxTasks \in G
    <2>1. MaxTasks \in Nat /\ MaxTasks \in 0..MaxTasks
      BY PlanBounds
    <2> QED
      BY <1>1, <2>1, UpToABound
  <1>3. \E f : Is(f, MaxTasks)
    BY <1>2 DEF G
  <1>4. AncestorsFrom(p) = CHOOSE f : Is(f, MaxTasks)
    BY DEF AncestorsFrom, Ids
  <1>5. Is(AncestorsFrom(p), MaxTasks)
    <2> HIDE DEF Is
    <2> QED
      BY <1>3, <1>4
  <1> QED
    BY <1>5 DEF Ids

AncestorSet(p, t) == ToSet(AncestorsFrom(p)[t])

LEMMA SeqOfLess ==
  ASSUME NEW S, NEW T, S \subseteq T, NEW s \in Seq(S)
  PROVE  s \in Seq(T)
  <1>1. Len(s) \in Nat /\ s = [i \in 1..Len(s) |-> s[i]] /\ \A i \in 1..Len(s) : s[i] \in S
    OBVIOUS
  <1>2. \A i \in 1..Len(s) : s[i] \in T
    BY <1>1
  <1> QED
    BY <1>1, <1>2

LEMMA ElementsAre ==
  ASSUME NEW S, NEW s \in Seq(S)
  PROVE  ToSet(s) \subseteq S
  <1>1. \A i \in DOMAIN s : s[i] \in S
    OBVIOUS
  <1> QED
    BY <1>1 DEF ToSet

LEMMA ElementsBehind ==
  ASSUME NEW S, NEW e \in S, NEW s \in Seq(S)
  PROVE  /\ <<e>> \o s \in Seq(S)
         /\ ToSet(<<e>> \o s) = {e} \cup ToSet(s)
  <1>1. /\ <<e>> \o s \in Seq(S) /\ Len(<<e>> \o s) = Len(s) + 1
        /\ Len(s) \in Nat /\ DOMAIN s = 1..Len(s)
        /\ DOMAIN (<<e>> \o s) = 1..(Len(s) + 1)
    OBVIOUS
  <1>2. (<<e>> \o s)[1] = e
    OBVIOUS
  <1>3. \A i \in 1..Len(s) : (<<e>> \o s)[i + 1] = s[i]
    OBVIOUS
  <1> DEFINE r == <<e>> \o s
  <1>4. \A i \in 1..(Len(s) + 1) : i = 1 \/ (i - 1 \in 1..Len(s) /\ i = (i - 1) + 1)
    BY <1>1
  <1>5. \A i \in 1..Len(s) : i + 1 \in 1..(Len(s) + 1)
    BY <1>1
  <1>6. 1 \in 1..(Len(s) + 1)
    BY <1>1
  <1> HIDE DEF r
  <1>7. ToSet(r) \subseteq {e} \cup ToSet(s)
    <2> SUFFICES ASSUME NEW i \in 1..(Len(s) + 1)
                 PROVE  r[i] \in {e} \cup ToSet(s)
      BY <1>1 DEF r, ToSet
    <2>1. CASE i = 1
      BY <2>1, <1>2 DEF r
    <2>2. CASE i # 1
      <3>1. r[i] = s[i - 1] /\ i - 1 \in DOMAIN s
        BY <2>2, <1>1, <1>3, <1>4 DEF r
      <3> QED
        BY <3>1 DEF ToSet
    <2> QED
      BY <2>1, <2>2
  <1>8. {e} \cup ToSet(s) \subseteq ToSet(r)
    <2>1. e \in ToSet(r)
      BY <1>1, <1>2, <1>6 DEF r, ToSet
    <2>2. ASSUME NEW i \in DOMAIN s PROVE s[i] \in ToSet(r)
      <3>1. r[i + 1] = s[i] /\ i + 1 \in DOMAIN r
        BY <1>1, <1>3, <1>5 DEF r
      <3> QED
        BY <3>1 DEF ToSet
    <2> QED
      BY <2>1, <2>2 DEF ToSet
  <1> QED
    BY <1>1, <1>7, <1>8 DEF r

(* A number in front of smaller ones.                                      *)
LEMMA NumberBehind ==
  \A t, e \in Nat : \A s \in Seq(1..(e - 1)) :
    e # 0 /\ e < t => /\ <<e>> \o s \in Seq(1..(t - 1))
                     /\ ToSet(<<e>> \o s) = {e} \cup ToSet(s)
  <1> TAKE t, e \in Nat
  <1> TAKE s \in Seq(1..(e - 1))
  <1> HAVE e # 0 /\ e < t
  <1> DEFINE T == 1..(t - 1)
  <1>1. 1..(e - 1) \subseteq T /\ e \in T
    OBVIOUS
  <1> HIDE DEF T
  <1>2. s \in Seq(T)
    BY <1>1, SeqOfLess
  <1>3. <<e>> \o s \in Seq(T) /\ ToSet(<<e>> \o s) = {e} \cup ToSet(s)
    BY <1>1, <1>2, ElementsBehind
  <1> QED
    BY <1>3, Zenon DEF T

(* The list of t's ancestors has Tasks created before t only.              *)
LEMMA AncestorsAreEarlier ==
  ASSUME NEW p \in Trees
  PROVE  \A t \in Ids : AncestorsFrom(p)[t] \in Seq(1..(t - 1))
  <1> DEFINE A == AncestorsFrom(p)
             G == {t \in 0..MaxTasks : t = 0 \/ A[t] \in Seq(1..(t - 1))}
  <1> HIDE DEF A
  <1>1. ASSUME NEW t \in 0..MaxTasks, \A u \in 0..MaxTasks : u < t => u \in G
        PROVE  t \in G
    <2>1. CASE t = 0
      BY <2>1
    <2>2. CASE t # 0
      <3>1. t \in Ids /\ t \in Nat
        BY <2>2, PlanBounds DEF Ids
      <3>2. A[t] = IF p[t] = 0 THEN <<>> ELSE <<p[t]>> \o A[p[t]]
        BY <3>1, AncestorsAre DEF A
      <3>3. p[t] \in 0..MaxTasks /\ p[t] < t
        BY <3>1 DEF Trees
      <3>4. CASE p[t] = 0
        <4>1. A[t] = <<>>
          BY <3>2, <3>4
        <4>2. <<>> \in Seq(1..(t - 1))
          OBVIOUS
        <4>3. A[t] \in Seq(1..(t - 1))
          BY <4>1, <4>2, Zenon
        <4> QED
          BY <4>3
      <3>5. CASE p[t] # 0
        <4>1. A[p[t]] \in Seq(1..(p[t] - 1))
          BY <1>1, <3>3, <3>5
        <4>4. A[t] = <<p[t]>> \o A[p[t]]
          BY <3>2, <3>5
        <4>5. <<p[t]>> \o A[p[t]] \in Seq(1..(t - 1))
          BY <3>1, <3>3, <3>5, <4>1, NumberBehind
        <4>6. A[t] \in Seq(1..(t - 1))
          BY <4>4, <4>5, Zenon
        <4> QED
          BY <4>6
      <3> QED
        BY <3>4, <3>5
    <2> QED
      BY <2>1, <2>2
  <1> HIDE DEF G
  <1>2. \A t \in 0..MaxTasks : t \in G
    BY <1>1, UpToABound, PlanBounds
  <1>3. ASSUME NEW t \in Ids
        PROVE  A[t] \in Seq(1..(t - 1))
    <2>1. t \in 0..MaxTasks /\ t # 0
      BY PlanBounds DEF Ids
    <2> QED
      BY <1>2, <2>1 DEF G
  <1> QED
    BY <1>3 DEF A

(* A Task's parent is the nearest ancestor, and the parent's ancestors are *)
(* the others.                                                             *)
LEMMA AncestorSetIs ==
  ASSUME NEW p \in Trees, NEW t \in Ids
  PROVE  /\ AncestorSet(p, t) =
              IF p[t] = 0 THEN {} ELSE {p[t]} \cup AncestorSet(p, p[t])
         /\ AncestorSet(p, t) \subseteq 1..(t - 1)
         /\ t \in Nat /\ p[t] \in 0..MaxTasks /\ p[t] < t
         /\ p[t] # 0 => p[t] \in Ids
  <1> DEFINE A == AncestorsFrom(p)
  <1> HIDE DEF A
  <1>1. t \in Nat /\ p[t] \in 0..MaxTasks /\ p[t] < t
    BY PlanBounds DEF Trees, Ids
  <1>2. p[t] # 0 => p[t] \in Ids
    BY <1>1, PlanBounds DEF Ids
  <1>3. A[t] = IF p[t] = 0 THEN <<>> ELSE <<p[t]>> \o A[p[t]]
    BY AncestorsAre DEF A
  <1>4. CASE p[t] = 0
    <2>1. A[t] = <<>>
      BY <1>3, <1>4
    <2>2. ToSet(A[t]) = {}
      BY <2>1 DEF ToSet
    <2> QED
      BY <2>2, <1>1, <1>4 DEF AncestorSet, A
  <1>5. CASE p[t] # 0
    <2>1. A[p[t]] \in Seq(1..(p[t] - 1)) /\ A[t] \in Seq(1..(t - 1))
      BY <1>2, <1>5, AncestorsAreEarlier DEF A
    <2>2. p[t] \in Nat /\ p[t] \in 1..(t - 1)
      BY <1>1, <1>5, PlanBounds
    <2>3. ToSet(<<p[t]>> \o A[p[t]]) = {p[t]} \cup ToSet(A[p[t]])
      BY <1>1, <1>5, <2>1, <2>2, NumberBehind
    <2>4. A[t] = <<p[t]>> \o A[p[t]]
      BY <1>3, <1>5
    <2>5. ToSet(A[t]) = {p[t]} \cup ToSet(A[p[t]])
      BY <2>3, <2>4, Zenon
    <2>6. ToSet(A[t]) \subseteq 1..(t - 1)
      BY <2>1, ElementsAre, Zenon
    <2> QED
      BY <1>1, <1>2, <1>5, <2>5, <2>6 DEF AncestorSet, A
  <1> QED
    BY <1>4, <1>5

(* An ancestor has a subtask.                                              *)
LEMMA AncestorsHaveSubtasks ==
  ASSUME NEW p \in Trees
  PROVE  \A t \in Ids : \A a \in AncestorSet(p, t) : \E u \in 1..t : p[u] = a
  <1> DEFINE Has(t) == \A a \in AncestorSet(p, t) : \E u \in 1..t : p[u] = a
             G == {t \in 0..MaxTasks : t = 0 \/ Has(t)}
  <1>1. ASSUME NEW t \in 0..MaxTasks, \A u \in 0..MaxTasks : u < t => u \in G
        PROVE  t \in G
    <2>1. CASE t = 0
      BY <2>1
    <2>2. CASE t # 0
      <3>1. t \in Ids
        BY <2>2, PlanBounds DEF Ids
      <3>2. /\ AncestorSet(p, t) = IF p[t] = 0 THEN {} ELSE {p[t]} \cup AncestorSet(p, p[t])
            /\ t \in Nat /\ p[t] \in 0..MaxTasks /\ p[t] < t
        BY <3>1, AncestorSetIs
      <3>3. ASSUME NEW a \in AncestorSet(p, t)
            PROVE  \E u \in 1..t : p[u] = a
        <4>1. p[t] # 0
          BY <3>2, <3>3
        <4>2. CASE a = p[t]
          BY <3>2, <4>2, <2>2
        <4>3. CASE a \in AncestorSet(p, p[t])
          <5>1. Has(p[t])
            BY <1>1, <3>2, <4>1
          <5>2. PICK u \in 1..p[t] : p[u] = a
            BY <4>3, <5>1
          <5>3. u \in 1..t
            BY <3>2
          <5> QED
            BY <5>2, <5>3
        <4> QED
          BY <3>2, <3>3, <4>1, <4>2, <4>3
      <3> QED
        BY <3>3
    <2> QED
      BY <2>1, <2>2
  <1> HIDE DEF G
  <1>2. \A t \in 0..MaxTasks : t \in G
    BY <1>1, UpToABound, PlanBounds
  <1> SUFFICES ASSUME NEW t \in Ids PROVE Has(t)
    OBVIOUS
  <1>3. t \in 0..MaxTasks /\ t # 0
    BY PlanBounds DEF Ids
  <1> QED
    BY <1>2, <1>3 DEF G

(* The ancestors of a Task depend on the parents of Tasks up to it.        *)
LEMMA SameParentsSameAncestors ==
  ASSUME NEW p \in Trees, NEW q \in Trees, NEW m \in 0..MaxTasks,
         \A t \in 1..m : p[t] = q[t]
  PROVE  \A t \in 1..m : AncestorsFrom(p)[t] = AncestorsFrom(q)[t]
  <1> DEFINE A == AncestorsFrom(p)
             B == AncestorsFrom(q)
             G == {t \in 0..m : t = 0 \/ A[t] = B[t]}
  <1> HIDE DEF A, B
  <1>0. m \in Nat /\ m <= MaxTasks
    BY PlanBounds
  <1>1. ASSUME NEW t \in 0..m, \A u \in 0..m : u < t => u \in G
        PROVE  t \in G
    <2>1. CASE t = 0
      BY <2>1
    <2>2. CASE t # 0
      <3>1. t \in Ids /\ t \in 1..m
        BY <1>0, <2>2, PlanBounds DEF Ids
      <3>2. /\ A[t] = IF p[t] = 0 THEN <<>> ELSE <<p[t]>> \o A[p[t]]
            /\ B[t] = IF q[t] = 0 THEN <<>> ELSE <<q[t]>> \o B[q[t]]
        BY <3>1, AncestorsAre DEF A, B
      <3>3. p[t] = q[t] /\ p[t] \in 0..MaxTasks /\ p[t] < t
        BY <3>1, AncestorSetIs
      <3>4. p[t] # 0 => A[p[t]] = B[p[t]]
        <4>1. p[t] \in 0..m
          BY <1>0, <3>1, <3>3
        <4> QED
          BY <1>1, <3>3, <4>1
      <3>5. A[t] = B[t]
        BY <3>2, <3>3, <3>4
      <3> QED
        BY <3>5
    <2> QED
      BY <2>1, <2>2
  <1> HIDE DEF G
  <1>2. \A t \in 0..m : t \in G
    BY <1>0, <1>1, UpToABound
  <1>3. \A t \in 1..m : t \in 0..m /\ t # 0
    BY <1>0
  <1> QED
    BY <1>2, <1>3 DEF G, A, B

-----------------------------------------------------------------------------
(* The order of the tree.                                                  *)

TreePaths == Seq(Nat)

(* The order of paths: a prefix first, else by the first difference.       *)
Lower(p, q) ==
  \E i \in DOMAIN p \cap DOMAIN q : p[i] < q[i] /\ \A j \in 1..(i - 1) : p[j] = q[j]
Precedes(p, q) == IsStrictPrefix(p, q) \/ Lower(p, q)

LEMMA StrictPrefixMeans ==
  ASSUME NEW p \in TreePaths, NEW q \in TreePaths
  PROVE  IsStrictPrefix(p, q) <=>
           Len(p) < Len(q) /\ \A i \in 1..Len(p) : p[i] = q[i]
  <1>1. /\ Len(p) \in Nat /\ Len(q) \in Nat
        /\ p = [i \in 1..Len(p) |-> p[i]] /\ q = [i \in 1..Len(q) |-> q[i]]
    BY DEF TreePaths
  <1>2. ASSUME Len(p) <= Len(q)
        PROVE  SubSeq(p, 1, Len(p)) = SubSeq(q, 1, Len(p))
                 <=> \A i \in 1..Len(p) : p[i] = q[i]
    <2> DEFINE a == SubSeq(p, 1, Len(p))
               b == SubSeq(q, 1, Len(p))
    <2>1. /\ a = [i \in 1..Len(p) |-> p[i]]
          /\ b = [i \in 1..Len(p) |-> q[i]]
      BY <1>1, <1>2 DEF TreePaths
    <2>2. ASSUME NEW i \in 1..Len(p) PROVE a[i] = p[i] /\ b[i] = q[i]
      <3> HIDE DEF a, b
      <3> QED
        BY <2>1
    <2> HIDE DEF a, b
    <2>3. a = b => \A i \in 1..Len(p) : p[i] = q[i]
      BY <2>2
    <2>4. (\A i \in 1..Len(p) : p[i] = q[i]) => a = b
      BY <2>1
    <2> QED
      BY <2>3, <2>4 DEF a, b
  <1>3. ASSUME Len(p) = Len(q), \A i \in 1..Len(p) : p[i] = q[i]
        PROVE  p = q
    BY <1>1, <1>3
  <1>4. IsStrictPrefix(p, q) <=>
          /\ Len(p) <= Len(q) /\ p # q
          /\ SubSeq(p, 1, Len(p)) = SubSeq(q, 1, Len(p))
    BY DEF IsStrictPrefix, IsPrefix
  <1>5. Len(p) \in Nat /\ Len(q) \in Nat /\ (p = q => Len(p) = Len(q))
    BY <1>1
  <1>6. Len(p) < Len(q) <=> Len(p) <= Len(q) /\ Len(p) # Len(q)
    BY <1>5
  <1> QED
    BY <1>2, <1>3, <1>4, <1>5, <1>6, Zenon

LEMMA PathsAreOrdered ==
  ASSUME NEW p \in TreePaths, NEW q \in TreePaths, p # q
  PROVE  Precedes(p, q) \/ Precedes(q, p)
  <1>1. /\ Len(p) \in Nat /\ Len(q) \in Nat
        /\ p = [i \in 1..Len(p) |-> p[i]] /\ q = [i \in 1..Len(q) |-> q[i]]
        /\ DOMAIN p = 1..Len(p) /\ DOMAIN q = 1..Len(q)
        /\ \A i \in DOMAIN p : p[i] \in Nat
        /\ \A i \in DOMAIN q : q[i] \in Nat
    BY DEF TreePaths
  <1> DEFINE D == {i \in Nat : i \in DOMAIN p \cap DOMAIN q /\ p[i] # q[i]}
  <1>2. CASE D = {}
    <2>1. \A i \in DOMAIN p \cap DOMAIN q : p[i] = q[i]
      BY <1>1, <1>2
    <2>2. CASE Len(p) < Len(q)
      BY <1>1, <2>1, <2>2, StrictPrefixMeans DEF Precedes
    <2>3. CASE Len(q) < Len(p)
      BY <1>1, <2>1, <2>3, StrictPrefixMeans DEF Precedes
    <2>4. CASE Len(p) = Len(q)
      <3>1. \A i \in 1..Len(p) : p[i] = q[i]
        BY <1>1, <2>1, <2>4
      <3>2. p = q
        BY <1>1, <2>4, <3>1
      <3> QED
        BY <3>2
    <2>5. Len(p) < Len(q) \/ Len(q) < Len(p) \/ Len(p) = Len(q)
      <3>1. Len(p) \in Nat /\ Len(q) \in Nat
        BY <1>1
      <3> QED
        BY <3>1
    <2> QED
      BY <2>2, <2>3, <2>4, <2>5, Zenon
  <1>3. CASE D # {}
    <2>1. PICK i \in D : \A k \in D : i <= k
      <3>1. D \subseteq Nat
        OBVIOUS
      <3> HIDE DEF D
      <3> QED
        BY <1>3, <3>1, SmallestNumber
    <2>2. i \in Nat /\ i \in DOMAIN p \cap DOMAIN q /\ p[i] # q[i]
      OBVIOUS
    <2>3. ASSUME NEW j \in 1..(i - 1) PROVE p[j] = q[j]
      <3>1. j \in Nat /\ j < i /\ j \in DOMAIN p \cap DOMAIN q
        BY <1>1, <2>2
      <3>2. j \notin D
        BY <2>1, <2>2, <3>1
      <3> QED
        BY <3>1, <3>2
    <2>4. p[i] < q[i] \/ q[i] < p[i]
      BY <1>1, <2>2
    <2> HIDE DEF D
    <2> QED
      BY <2>2, <2>3, <2>4 DEF Precedes, Lower
  <1> QED
    BY <1>2, <1>3

LEMMA PrecedesIsIrreflexive ==
  ASSUME NEW p \in TreePaths
  PROVE  ~Precedes(p, p)
  <1>1. \A i \in DOMAIN p : p[i] \in Nat /\ ~(p[i] < p[i])
    BY DEF TreePaths
  <1> QED
    BY <1>1 DEF Precedes, Lower, IsStrictPrefix

LEMMA PrecedesIsTransitive ==
  ASSUME NEW p \in TreePaths, NEW q \in TreePaths, NEW r \in TreePaths,
         Precedes(p, q), Precedes(q, r)
  PROVE  Precedes(p, r)
  <1>1. /\ Len(p) \in Nat /\ Len(q) \in Nat /\ Len(r) \in Nat
        /\ DOMAIN p = 1..Len(p) /\ DOMAIN q = 1..Len(q) /\ DOMAIN r = 1..Len(r)
        /\ \A i \in DOMAIN p : p[i] \in Nat
        /\ \A i \in DOMAIN q : q[i] \in Nat
        /\ \A i \in DOMAIN r : r[i] \in Nat
    BY DEF TreePaths
  <1>2. CASE IsStrictPrefix(p, q) /\ IsStrictPrefix(q, r)
    <2>1. /\ Len(p) < Len(q) /\ \A i \in 1..Len(p) : p[i] = q[i]
          /\ Len(q) < Len(r) /\ \A i \in 1..Len(q) : q[i] = r[i]
      BY <1>2, StrictPrefixMeans
    <2>2. Len(p) < Len(r) /\ \A i \in 1..Len(p) : p[i] = r[i]
      BY <1>1, <2>1
    <2> QED
      BY <2>2, StrictPrefixMeans DEF Precedes
  <1>3. CASE IsStrictPrefix(p, q) /\ Lower(q, r)
    <2>1. Len(p) < Len(q) /\ \A i \in 1..Len(p) : p[i] = q[i]
      BY <1>3, StrictPrefixMeans
    <2>2. PICK i \in DOMAIN q \cap DOMAIN r :
                 q[i] < r[i] /\ \A j \in 1..(i - 1) : q[j] = r[j]
      BY <1>3 DEF Lower
    <2>3. CASE i <= Len(p)
      <3>1. i \in DOMAIN p \cap DOMAIN r /\ p[i] < r[i] /\ \A j \in 1..(i - 1) : p[j] = r[j]
        BY <1>1, <2>1, <2>2, <2>3
      <3> QED
        BY <3>1 DEF Precedes, Lower
    <2>4. CASE Len(p) < i
      <3>1. Len(p) < Len(r) /\ \A j \in 1..Len(p) : p[j] = r[j]
        BY <1>1, <2>1, <2>2, <2>4
      <3> QED
        BY <3>1, StrictPrefixMeans DEF Precedes
    <2> QED
      BY <1>1, <2>3, <2>4
  <1>4. CASE Lower(p, q) /\ IsStrictPrefix(q, r)
    <2>1. PICK i \in DOMAIN p \cap DOMAIN q :
                 p[i] < q[i] /\ \A j \in 1..(i - 1) : p[j] = q[j]
      BY <1>4 DEF Lower
    <2>2. Len(q) < Len(r) /\ \A k \in 1..Len(q) : q[k] = r[k]
      BY <1>4, StrictPrefixMeans
    <2>3. i \in DOMAIN p \cap DOMAIN r /\ p[i] < r[i] /\ \A j \in 1..(i - 1) : p[j] = r[j]
      BY <1>1, <2>1, <2>2
    <2> QED
      BY <2>3 DEF Precedes, Lower
  <1>5. CASE Lower(p, q) /\ Lower(q, r)
    <2>1. PICK i \in DOMAIN p \cap DOMAIN q :
                 p[i] < q[i] /\ \A j \in 1..(i - 1) : p[j] = q[j]
      BY <1>5 DEF Lower
    <2>2. PICK k \in DOMAIN q \cap DOMAIN r :
                 q[k] < r[k] /\ \A j \in 1..(k - 1) : q[j] = r[j]
      BY <1>5 DEF Lower
    <2>3. CASE i <= k
      <3>1. i \in DOMAIN p \cap DOMAIN r /\ \A j \in 1..(i - 1) : p[j] = r[j]
        BY <1>1, <2>1, <2>2, <2>3
      <3>2. p[i] < r[i]
        <4>1. /\ i \in Nat /\ k \in Nat /\ i >= 1
              /\ p[i] \in Nat /\ q[i] \in Nat /\ q[k] \in Nat /\ r[k] \in Nat
          BY <1>1
        <4>2. CASE i = k
          BY <2>1, <2>2, <4>1, <4>2
        <4>3. CASE i # k
          <5>1. i \in 1..(k - 1)
            BY <2>3, <4>1, <4>3
          <5> QED
            BY <2>1, <2>2, <5>1
        <4> QED
          BY <4>2, <4>3
      <3> QED
        BY <3>1, <3>2 DEF Precedes, Lower
    <2>4. CASE k < i
      <3>1. k \in DOMAIN p \cap DOMAIN r /\ \A j \in 1..(k - 1) : p[j] = r[j]
        BY <1>1, <2>1, <2>2, <2>4
      <3>2. p[k] < r[k]
        BY <1>1, <2>1, <2>2, <2>4
      <3> QED
        BY <3>1, <3>2 DEF Precedes, Lower
    <2> QED
      BY <1>1, <2>3, <2>4
  <1> QED
    BY <1>2, <1>3, <1>4, <1>5 DEF Precedes

(* A Task's path ends with the Task.                                       *)
LEMMA PathsEnd ==
  ASSUME parent \in Trees, NEW t \in Ids
  PROVE  /\ PathTo(t) \in TreePaths
         /\ PathTo(t)[Len(PathTo(t))] = t
  <1> DEFINE up == AncestorsFrom(parent)[t]
             back == Reverse(up)
  <1>1. up \in Seq(1..(t - 1)) /\ t \in Nat
    BY AncestorsAreEarlier, PlanBounds DEF Ids
  <1>2. up \in Seq(Nat)
    <2>1. 1..(t - 1) \subseteq Nat
      BY <1>1
    <2> HIDE DEF up
    <2> QED
      BY <1>1, <2>1, SeqOfLess
  <1>3. back \in Seq(Nat)
    <2> HIDE DEF up
    <2>1. Len(up) \in Nat /\ \A i \in 1..Len(up) : up[i] \in Nat
      BY <1>2
    <2>2. \A i \in 1..Len(up) : (Len(up) - i) + 1 \in 1..Len(up)
      BY <2>1
    <2>3. \A i \in 1..Len(up) : up[(Len(up) - i) + 1] \in Nat
      BY <2>1, <2>2
    <2> QED
      BY <2>1, <2>3 DEF Reverse
  <1>4. PathTo(t) = back \o <<t>>
    BY DEF PathTo
  <1> HIDE DEF back
  <1>5. back \o <<t>> \in Seq(Nat) /\ (back \o <<t>>)[Len(back \o <<t>>)] = t
    BY <1>1, <1>3
  <1> QED
    BY <1>4, <1>5 DEF TreePaths

(* The order of the tree is a strict total order of its Tasks.             *)
LEMMA BeforeIsAnOrder ==
  ASSUME parent \in Trees
  PROVE  /\ \A t \in Ids : ~Before(t, t)
         /\ \A t, u \in Ids : t # u => Before(t, u) \/ Before(u, t)
         /\ \A t, u, v \in Ids : Before(t, u) /\ Before(u, v) => Before(t, v)
  <1>1. \A t, u \in Ids : Before(t, u) <=> Precedes(PathTo(t), PathTo(u))
    BY DEF Before, Precedes, Lower
  <1>2. \A t \in Ids : PathTo(t) \in TreePaths
    BY PathsEnd
  <1>3. \A t, u \in Ids : t # u => PathTo(t) # PathTo(u)
    BY PathsEnd
  <1>4. \A t \in Ids : ~Before(t, t)
    BY <1>1, <1>2, PrecedesIsIrreflexive
  <1>5. \A t, u \in Ids : t # u => Before(t, u) \/ Before(u, t)
    BY <1>1, <1>2, <1>3, PathsAreOrdered
  <1>6. \A t, u, v \in Ids : Before(t, u) /\ Before(u, v) => Before(t, v)
    BY <1>1, <1>2, PrecedesIsTransitive
  <1> QED
    BY <1>4, <1>5, <1>6

-----------------------------------------------------------------------------
(* What is ready, in its order.                                            *)

(* In a finite set that is strictly ordered every rank is taken.           *)
LEMMA EveryRankIsTaken ==
  ASSUME NEW S, IsFiniteSet(S), NEW R,
         \A t \in S : <<t, t>> \notin R,
         \A t, u \in S : t # u => <<t, u>> \in R \/ <<u, t>> \in R,
         \A t, u, v \in S : <<t, u>> \in R /\ <<u, v>> \in R => <<t, v>> \in R,
         NEW k \in 1..Cardinality(S)
  PROVE  \E t \in S : Cardinality({u \in S : <<u, t>> \in R}) = k - 1
  <1> DEFINE below(t) == {u \in S : <<u, t>> \in R}
             rank == [t \in S |-> Cardinality(below(t)) + 1]
             places == 1..Cardinality(S)
  <1>1. Cardinality(S) \in Nat
    BY FS_CardinalityType
  <1>2. ASSUME NEW t \in S
        PROVE  /\ IsFiniteSet(below(t)) /\ Cardinality(below(t)) \in Nat
               /\ Cardinality(below(t)) < Cardinality(S)
    <2>1. below(t) \subseteq S /\ t \notin below(t)
      OBVIOUS
    <2>2. below(t) # S
      BY <2>1
    <2> HIDE DEF below
    <2>3. /\ IsFiniteSet(below(t)) /\ Cardinality(below(t)) <= Cardinality(S)
          /\ Cardinality(S) # Cardinality(below(t))
      BY <2>1, <2>2, FS_Subset
    <2>4. Cardinality(below(t)) \in Nat
      BY <2>3, FS_CardinalityType
    <2> QED
      BY <1>1, <2>3, <2>4
  <1>3. ASSUME NEW t \in S, NEW u \in S, <<t, u>> \in R
        PROVE  Cardinality(below(t)) # Cardinality(below(u))
    <2>1. below(t) \subseteq below(u)
      BY <1>3
    <2>2. t \in below(u) /\ t \notin below(t)
      BY <1>3
    <2>3. below(t) # below(u)
      BY <2>2
    <2> HIDE DEF below
    <2> QED
      BY <1>2, <2>1, <2>3, FS_Subset
  <1>4. rank \in [S -> places]
    <2> HIDE DEF below
    <2>1. \A t \in S : Cardinality(below(t)) + 1 \in places
      BY <1>1, <1>2
    <2> QED
      BY <2>1
  <1>5. \A t, u \in S : rank[t] = rank[u] => t = u
    <2> SUFFICES ASSUME NEW t \in S, NEW u \in S, t # u
                 PROVE  rank[t] # rank[u]
      OBVIOUS
    <2>1. <<t, u>> \in R \/ <<u, t>> \in R
      OBVIOUS
    <2> HIDE DEF below
    <2>2. Cardinality(below(t)) # Cardinality(below(u))
      BY <1>3, <2>1
    <2>3. Cardinality(below(t)) \in Nat /\ Cardinality(below(u)) \in Nat
      BY <1>2
    <2> QED
      BY <2>2, <2>3
  <1> HIDE DEF rank, below
  <1>6. rank \in Injection(S, places)
    BY <1>4, <1>5 DEF Injection, IsInjective
  <1>7. IsFiniteSet(places) /\ Cardinality(places) = Cardinality(S)
    BY <1>1, FS_Interval
  <1>8. rank \in Surjection(S, places)
    BY <1>6, <1>7, FS_Injection
  <1>9. PICK t \in S : rank[t] = k
    BY <1>8 DEF Surjection
  <1>10. Cardinality(below(t)) = k - 1
    BY <1>2, <1>9 DEF rank
  <1> QED
    BY <1>10 DEF below

ReadyTasks == {t \in Tasks : Ready(t)}

LEMMA TasksAre ==
  ASSUME size \in Ids
  PROVE  /\ Tasks \subseteq Ids /\ IsFiniteSet(Tasks) /\ size \in Nat
         /\ \A t \in Tasks : t \in Nat
  <1>1. size \in Nat /\ size <= MaxTasks
    BY PlanBounds DEF Ids
  <1> QED
    BY <1>1, PlanBounds, FS_Interval DEF Tasks, Ids

(* Candidates lists the ready Tasks once each.                             *)
LEMMA CandidatesAre ==
  ASSUME parent \in Trees, size \in Ids
  PROVE  /\ Candidates \in Seq(ReadyTasks)
         /\ \A i, j \in DOMAIN Candidates : Candidates[i] = Candidates[j] => i = j
         /\ ReadyTasks # {} => Candidates # <<>>
  <1> DEFINE N == Cardinality(ReadyTasks)
             nth(k) == CHOOSE t \in ReadyTasks :
                         Cardinality({u \in ReadyTasks : Before(u, t)}) = k - 1
  <1>1. ReadyTasks \subseteq Ids /\ IsFiniteSet(ReadyTasks) /\ N \in Nat
    BY TasksAre, FS_Subset, FS_CardinalityType DEF ReadyTasks
  <1>2. ASSUME NEW k \in 1..N
        PROVE  /\ nth(k) \in ReadyTasks
               /\ Cardinality({u \in ReadyTasks : Before(u, nth(k))}) = k - 1
    <2> DEFINE R == {e \in ReadyTasks \X ReadyTasks : Before(e[1], e[2])}
    <2>1. \A t, u \in ReadyTasks : <<t, u>> \in R <=> Before(t, u)
      OBVIOUS
    <2>2. /\ \A t \in ReadyTasks : <<t, t>> \notin R
          /\ \A t, u \in ReadyTasks : t # u => <<t, u>> \in R \/ <<u, t>> \in R
          /\ \A t, u, v \in ReadyTasks : <<t, u>> \in R /\ <<u, v>> \in R => <<t, v>> \in R
      <3> HIDE DEF R
      <3> QED
        BY <1>1, <2>1, BeforeIsAnOrder
    <2>3. \E t \in ReadyTasks : Cardinality({u \in ReadyTasks : <<u, t>> \in R}) = k - 1
      <3> HIDE DEF R
      <3> QED
        BY <1>1, <2>2, EveryRankIsTaken
    <2>4. \A t \in ReadyTasks : {u \in ReadyTasks : <<u, t>> \in R}
                                  = {u \in ReadyTasks : Before(u, t)}
      <3> HIDE DEF R
      <3> QED
        BY <2>1
    <2>5. \E t \in ReadyTasks : Cardinality({u \in ReadyTasks : Before(u, t)}) = k - 1
      <3> HIDE DEF R
      <3> QED
        BY <2>3, <2>4
    <2> QED
      BY <2>5
  <1>3. Candidates = [k \in 1..N |-> nth(k)]
    BY DEF Candidates, ReadyTasks
  <1> HIDE DEF nth
  <1>4. Candidates \in Seq(ReadyTasks) /\ DOMAIN Candidates = 1..N
        /\ \A k \in 1..N : Candidates[k] = nth(k)
    <2> HIDE DEF N
    <2>1. DOMAIN Candidates = 1..N /\ \A k \in 1..N : Candidates[k] = nth(k)
      BY <1>3
    <2>2. \A k \in 1..N : nth(k) \in ReadyTasks
      BY <1>2
    <2>3. N \in Nat
      BY <1>1
    <2>4. [k \in 1..N |-> nth(k)] \in Seq(ReadyTasks)
      BY <2>2, <2>3
    <2>5. Candidates \in Seq(ReadyTasks)
      BY <1>3, <2>4, Zenon
    <2> QED
      BY <2>1, <2>5
  <1>5. ASSUME NEW i \in 1..N, NEW j \in 1..N, nth(i) = nth(j)
        PROVE  i = j
    <2>1. i - 1 = j - 1
      BY <1>2, <1>5
    <2> HIDE DEF N
    <2> QED
      BY <1>1, <2>1
  <1>6. ASSUME ReadyTasks # {} PROVE Candidates # <<>>
    <2>1. N # 0
      BY <1>1, <1>6, FS_EmptySet
    <2>2. 1 \in 1..N
      <3> HIDE DEF N
      <3> QED
        BY <1>1, <2>1
    <2>3. 1 \in DOMAIN Candidates /\ 1 \notin DOMAIN <<>>
      BY <1>4, <2>2
    <2> QED
      BY <2>3
  <1> QED
    BY <1>4, <1>5, <1>6

-----------------------------------------------------------------------------
(* The batches.                                                            *)

LEMMA GreatestOf ==
  ASSUME NEW k \in Nat, NEW s \in SUBSET (1..k), s # {}
  PROVE  Max(s) \in s /\ \A y \in s : y <= Max(s)
  <1> DEFINE B == {m \in Nat : \A y \in s : y <= m}
  <1>1. k \in B /\ B \subseteq Nat /\ \A y \in s : y \in Nat /\ y >= 1
    OBVIOUS
  <1>2. PICK m \in B : \A x \in B : m <= x
    <2> HIDE DEF B
    <2> QED
      BY <1>1, SmallestNumber
  <1>3. m \in Nat /\ \A y \in s : y <= m
    OBVIOUS
  <1>4. m \in s
    <2> SUFFICES ASSUME m \notin s PROVE FALSE
      OBVIOUS
    <2>1. PICK z \in s : TRUE
      OBVIOUS
    <2>2. m - 1 \in Nat
      BY <1>1, <1>3, <2>1
    <2>3. \A y \in s : y <= m - 1
      BY <1>1, <1>3
    <2>4. m - 1 \in B
      BY <2>2, <2>3
    <2> HIDE DEF B
    <2>5. m <= m - 1
      BY <1>2, <2>4
    <2> QED
      BY <1>3, <2>5
  <1>5. \E x \in s : \A y \in s : x >= y
    BY <1>1, <1>3, <1>4
  <1>6. Max(s) \in s /\ \A y \in s : Max(s) >= y
    <2> HIDE DEF B
    <2> QED
      BY <1>5 DEF Max
  <1> QED
    BY <1>1, <1>6

(* Batches places one candidate after another.                             *)
LEMMA CandidatesArePlaced ==
  ASSUME NEW X, NEW C \in Seq(X)
  PROVE  \E h : /\ h[0] = <<>>
                /\ \A k \in 1..Len(C) : h[k] = Place(h[k - 1], C[k])
                /\ FoldLeft(Place, <<>>, C) = h[Len(C)]
  <1> DEFINE L == Len(C)
             Step(f, s) == IF s = {} THEN <<>> ELSE Place(f[s \ {Max(s)}], C[Max(s)])
             Is(f, k) == f = [s \in SUBSET (1..k) |-> Step(f, s)]
             G == {k \in 0..L : \E f : Is(f, k)}
  <1>0. L \in Nat /\ DOMAIN C = 1..L
    OBVIOUS
  <1>1. FoldLeft(Place, <<>>, C) = (CHOOSE f : Is(f, L))[1..L]
    BY <1>0 DEF FoldLeft, MapThenFoldSet
  <1> HIDE DEF L
  <1>2. ASSUME NEW k \in Nat, NEW f, NEW s \in SUBSET (1..k), s # {}
        PROVE  s \ {Max(s)} \in SUBSET (1..(k - 1)) /\ Max(s) \in 1..k
    <2> DEFINE m == Max(s)
    <2>1. m \in s /\ \A y \in s : y <= m
      BY <1>2, GreatestOf
    <2> HIDE DEF m
    <2>2. m \in 1..k
      BY <2>1
    <2>3. ASSUME NEW y \in s \ {m} PROVE y \in 1..(k - 1)
      BY <2>1, <2>2
    <2> QED
      BY <2>2, <2>3 DEF m
  <1>3. ASSUME NEW k \in 0..L, \A j \in 0..L : j < k => j \in G
        PROVE  k \in G
    <2>1. CASE k = 0
      <3> DEFINE g == [s \in SUBSET (1..0) |-> <<>>]
      <3>1. SUBSET (1..0) = {{}}
        OBVIOUS
      <3>2. \A s \in SUBSET (1..0) : Step(g, s) = <<>>
        BY <3>1
      <3> HIDE DEF Step
      <3>3. Is(g, 0)
        BY <3>2
      <3> HIDE DEF g, Is
      <3> QED
        BY <2>1, <3>3
    <2>2. CASE k # 0
      <3>1. k - 1 \in 0..L /\ k - 1 < k /\ k \in Nat /\ k - 1 \in Nat
        BY <1>0, <2>2
      <3>2. PICK f : Is(f, k - 1)
        BY <1>3, <3>1
      <3> DEFINE g == [s \in SUBSET (1..k) |-> Step(f, s)]
      <3>3. ASSUME NEW s \in SUBSET (1..(k - 1))
            PROVE  g[s] = f[s]
        <4>1. s \in SUBSET (1..k)
          BY <3>1
        <4> HIDE DEF Step
        <4>2. g[s] = Step(f, s)
          BY <4>1
        <4>3. f[s] = Step(f, s)
          BY <3>2
        <4> QED
          BY <4>2, <4>3
      <3>4. ASSUME NEW s \in SUBSET (1..k)
            PROVE  Step(g, s) = Step(f, s)
        <4>1. CASE s = {}
          BY <4>1
        <4>2. CASE s # {}
          <5>1. s \ {Max(s)} \in SUBSET (1..(k - 1))
            BY <1>2, <3>1, <4>2
          <5> HIDE DEF g
          <5>2. g[s \ {Max(s)}] = f[s \ {Max(s)}]
            BY <3>3, <5>1
          <5> QED
            BY <4>2, <5>2
        <4> QED
          BY <4>1, <4>2
      <3> HIDE DEF Step
      <3>5. g = [s \in SUBSET (1..k) |-> Step(f, s)]
        OBVIOUS
      <3> HIDE DEF g
      <3>6. Is(g, k)
        BY <3>4, <3>5
      <3> HIDE DEF Is
      <3> QED
        BY <3>6
    <2> QED
      BY <2>1, <2>2
  <1> HIDE DEF G
  <1>4. L \in G
    <2>1. L \in 0..L
      BY <1>0
    <2> QED
      BY <1>0, <1>3, <2>1, UpToABound
  <1>5. \E f : Is(f, L)
    BY <1>4 DEF G
  <1> DEFINE iter == CHOOSE f : Is(f, L)
  <1>6. Is(iter, L)
    <2> HIDE DEF Is
    <2> QED
      BY <1>5
  <1> HIDE DEF iter
  <1> DEFINE h == [k \in 0..L |-> iter[1..k]]
  <1>7. \A k \in 0..L : 1..k \in SUBSET (1..L) /\ iter[1..k] = Step(iter, 1..k)
    <2>1. \A k \in 0..L : 1..k \in SUBSET (1..L)
      BY <1>0
    <2> HIDE DEF Step
    <2> QED
      BY <1>6, <2>1
  <1>8. h[0] = <<>>
    <2>1. 0 \in 0..L /\ 1..0 = {}
      BY <1>0
    <2> QED
      BY <1>7, <2>1
  <1>9. ASSUME NEW k \in 1..L
        PROVE  h[k] = Place(h[k - 1], C[k])
    <2>1. k \in 0..L /\ k - 1 \in 0..L /\ k \in Nat /\ k \in 1..k
      BY <1>0
    <2>2. Max(1..k) = k
      <3>1. 1..k # {} /\ 1..k \in SUBSET (1..k)
        BY <2>1
      <3>2. Max(1..k) \in 1..k /\ k <= Max(1..k)
        BY <2>1, <3>1, GreatestOf
      <3> QED
        BY <2>1, <3>2
    <2>3. (1..k) \ {k} = 1..(k - 1) /\ 1..k # {}
      BY <2>1
    <2>4. iter[1..k] = Place(iter[1..(k - 1)], C[k])
      BY <1>7, <2>1, <2>2, <2>3
    <2> QED
      BY <2>1, <2>4
  <1>10. FoldLeft(Place, <<>>, C) = h[L]
    <2>1. L \in 0..L
      BY <1>0
    <2> QED
      BY <1>1, <2>1 DEF iter
  <1> HIDE DEF h
  <1> QED
    BY <1>8, <1>9, <1>10 DEF L

Builds == [task : Ids, child : Nat, state : States, commits : BOOLEAN,
           merged : BOOLEAN, removed : BOOLEAN]

(* The values of all variables.                                            *)
PlanShape ==
  /\ PlanTypeOK
  /\ parent \in Trees
  /\ \A t \in Ids : deps[t] \subseteq Tasks
  /\ paths \in [Ids -> PathChoices \cup {{}}]
  /\ attempts \in Seq(Builds)
  /\ edits \in Nat

(* A list of Tasks that may be admitted together.                          *)
Fits(b) ==
  /\ Len(b) <= BatchSize
  /\ \A k \in DOMAIN b : \A j \in 1..(k - 1) :
       b[j] # b[k] /\ ~PathsOverlap(paths[b[k]], paths[b[j]])
Fitting(S) == {b \in Seq(S) : Fits(b)}

LEMMA RoomIs ==
  ASSUME PlanShape
  PROVE  /\ BatchSize \in Nat /\ BatchSize <= MaxBatch
         /\ BatchSize + started <= PerTurn \/ BatchSize = 0
         /\ IsFiniteSet(Running) /\ Cardinality(Running) \in Nat
  <1>1. Len(attempts) \in Nat /\ DOMAIN attempts = 1..Len(attempts)
    BY DEF PlanShape
  <1>2. IsFiniteSet(Running) /\ Cardinality(Running) \in Nat
    <2>1. Running \subseteq 1..Len(attempts)
      BY <1>1 DEF Running
    <2>2. IsFiniteSet(1..Len(attempts))
      BY <1>1, FS_Interval
    <2> QED
      BY <2>1, <2>2, FS_Subset, FS_CardinalityType
  <1>3. started \in 0..PerTurn
    BY DEF PlanShape, PlanTypeOK
  <1> DEFINE a == Room(PerParent, Cardinality(Running))
             b == Room(PerTurn, started)
  <1>4. a \in Nat
    BY <1>2, PlanBounds DEF Room
  <1>5. b \in Nat /\ (b + started <= PerTurn \/ b = 0)
    BY <1>3, PlanBounds DEF Room
  <1>6. BatchSize = IF MaxBatch < (IF a < b THEN a ELSE b) THEN MaxBatch
                    ELSE IF a < b THEN a ELSE b
    BY DEF BatchSize
  <1> HIDE DEF a, b
  <1>7. BatchSize \in Nat /\ BatchSize <= MaxBatch
    BY <1>4, <1>5, <1>6, PlanBounds
  <1>8. BatchSize + started <= PerTurn \/ BatchSize = 0
    <2>1. BatchSize <= b
      BY <1>4, <1>5, <1>6, PlanBounds
    <2>2. started \in Nat
      BY <1>3, PlanBounds
    <2> QED
      BY <1>5, <1>7, <2>1, <2>2, PlanBounds
  <1> QED
    BY <1>2, <1>7, <1>8

LEMMA FittingOfLess ==
  ASSUME NEW S, NEW T, S \subseteq T
  PROVE  Fitting(S) \subseteq Fitting(T)
  BY SeqOfLess DEF Fitting

(* A Task that is not yet placed joins a batch, or starts one.             *)
LEMMA PlaceFits ==
  ASSUME BatchSize \in Nat, BatchSize # 0,
         NEW S, NEW t, t \notin S, NEW B \in Seq(Fitting(S))
  PROVE  Place(B, t) \in Seq(Fitting(S \cup {t}))
  <1> DEFINE T == S \cup {t}
             free(b) == \A j \in DOMAIN b : ~PathsOverlap(paths[t], paths[b[j]])
             open == {i \in DOMAIN B : Len(B[i]) < BatchSize /\ free(B[i])}
  <1>1. B \in Seq(Fitting(T))
    <2>1. Fitting(S) \subseteq Fitting(T)
      BY FittingOfLess
    <2> HIDE DEF T
    <2> QED
      BY <2>1, SeqOfLess
  <1>2. Place(B, t) = IF open = {} THEN Append(B, <<t>>)
                      ELSE LET i == CHOOSE i \in open : \A j \in open : i <= j
                           IN [B EXCEPT ![i] = Append(@, t)]
    BY DEF Place
  <1>3. CASE open = {}
    <2>1. <<t>> \in Seq(T) /\ Len(<<t>>) = 1 /\ DOMAIN <<t>> = 1..1
      OBVIOUS
    <2>2. \A k \in DOMAIN <<t>> : 1..(k - 1) = {}
      BY <2>1
    <2>3. Fits(<<t>>)
      BY <2>1, <2>2 DEF Fits
    <2>4. <<t>> \in Fitting(T)
      BY <2>1, <2>3 DEF Fitting
    <2>5. Append(B, <<t>>) \in Seq(Fitting(T))
      <3> HIDE DEF T
      <3> QED
        BY <1>1, <2>4
    <2> HIDE DEF open
    <2> QED
      BY <1>2, <1>3, <2>5
  <1>4. CASE open # {}
    <2> DEFINE i == CHOOSE i \in open : \A j \in open : i <= j
    <2>1. open \subseteq Nat
      OBVIOUS
    <2>2. i \in open
      <3> HIDE DEF open
      <3>1. \E m \in open : \A j \in open : m <= j
        BY <1>4, <2>1, SmallestNumber
      <3> QED
        BY <3>1
    <2> HIDE DEF i
    <2>3. i \in DOMAIN B /\ Len(B[i]) < BatchSize /\ free(B[i])
      BY <2>2
    <2> DEFINE b == B[i]
               c == Append(b, t)
    <2>4. b \in Fitting(S)
      BY <2>3
    <2> HIDE DEF b
    <2>5. b \in Seq(S) /\ Fits(b)
      BY <2>4 DEF Fitting
    <2>6. /\ c \in Seq(T) /\ Len(b) \in Nat /\ Len(c) = Len(b) + 1
          /\ DOMAIN b = 1..Len(b) /\ DOMAIN c = 1..(Len(b) + 1)
          /\ c[Len(b) + 1] = t
          /\ \A k \in 1..Len(b) : c[k] = b[k] /\ b[k] \in S
      <3>1. b \in Seq(T)
        <4>1. S \subseteq T
          OBVIOUS
        <4> HIDE DEF T
        <4> QED
          BY <2>5, <4>1, SeqOfLess
      <3>2. t \in T
        OBVIOUS
      <3> HIDE DEF T
      <3> QED
        BY <2>5, <3>1, <3>2
    <2>7. Fits(c)
      <3>1. Len(c) <= BatchSize
        BY <2>3, <2>6 DEF b
      <3>2. ASSUME NEW k \in DOMAIN c, NEW j \in 1..(k - 1)
            PROVE  c[j] # c[k] /\ ~PathsOverlap(paths[c[k]], paths[c[j]])
        <4>1. k \in 1..(Len(b) + 1)
          BY <2>6
        <4>2. CASE k = Len(b) + 1
          <5>1. j \in DOMAIN b /\ c[j] = b[j] /\ b[j] \in S /\ c[k] = t
            BY <2>6, <4>2
          <5>2. ~PathsOverlap(paths[t], paths[b[j]])
            BY <2>3, <5>1 DEF b
          <5> QED
            BY <5>1, <5>2
        <4>3. CASE k # Len(b) + 1
          <5>1. k \in DOMAIN b /\ j \in 1..Len(b)
            BY <2>6, <4>1, <4>3
          <5>2. c[j] = b[j] /\ c[k] = b[k]
            BY <2>6, <5>1
          <5>3. b[j] # b[k] /\ ~PathsOverlap(paths[b[k]], paths[b[j]])
            BY <2>5, <5>1 DEF Fits
          <5> QED
            BY <5>2, <5>3
        <4> QED
          BY <4>2, <4>3
      <3> HIDE DEF c
      <3> QED
        BY <3>1, <3>2 DEF Fits
    <2>8. c \in Fitting(T)
      BY <2>6, <2>7 DEF Fitting
    <2>9. [B EXCEPT ![i] = c] \in Seq(Fitting(T))
      <3> HIDE DEF T, c
      <3> QED
        BY <1>1, <2>3, <2>8
    <2>10. Place(B, t) = [B EXCEPT ![i] = c]
      <3> HIDE DEF open
      <3> QED
        BY <1>2, <1>4 DEF i, b, c
    <2> QED
      BY <2>9, <2>10
  <1> QED
    BY <1>3, <1>4

(* Every batch lists ready Tasks that may be admitted together.            *)
LEMMA BatchesFit ==
  ASSUME PlanShape
  PROVE  \A i \in DOMAIN Batches : Batches[i] \in Fitting(ReadyTasks) /\ BatchSize # 0
  <1>1. CASE BatchSize = 0
    <2>1. DOMAIN Batches = {}
      BY <1>1 DEF Batches
    <2> QED
      BY <2>1
  <1>2. CASE BatchSize # 0
    <2> DEFINE C == Candidates
               S(k) == {C[l] : l \in 1..k}
    <2>1. /\ C \in Seq(ReadyTasks)
          /\ \A i, j \in DOMAIN C : C[i] = C[j] => i = j
      BY CandidatesAre DEF PlanShape, PlanTypeOK
    <2> HIDE DEF C
    <2>2. Len(C) \in Nat /\ DOMAIN C = 1..Len(C)
      BY <2>1
    <2>3. PICK h : /\ h[0] = <<>>
                   /\ \A k \in 1..Len(C) : h[k] = Place(h[k - 1], C[k])
                   /\ FoldLeft(Place, <<>>, C) = h[Len(C)]
      BY <2>1, CandidatesArePlaced
    <2> DEFINE G == {k \in 0..Len(C) : h[k] \in Seq(Fitting(S(k)))}
    <2>4. ASSUME NEW k \in 0..Len(C), \A j \in 0..Len(C) : j < k => j \in G
          PROVE  k \in G
      <3>1. CASE k = 0
        <4>1. <<>> \in Seq(Fitting(S(0)))
          OBVIOUS
        <4> HIDE DEF S
        <4>2. h[k] \in Seq(Fitting(S(k)))
          BY <2>3, <3>1, <4>1
        <4> QED
          BY <4>2
      <3>2. CASE k # 0
        <4>1. k \in 1..Len(C) /\ k - 1 \in 0..Len(C) /\ k - 1 < k /\ k \in Nat
          BY <2>2, <3>2
        <4>2. h[k - 1] \in Seq(Fitting(S(k - 1)))
          BY <2>4, <4>1
        <4>3. C[k] \notin S(k - 1)
          <5> SUFFICES ASSUME NEW l \in 1..(k - 1), C[k] = C[l] PROVE FALSE
            OBVIOUS
          <5>1. l \in DOMAIN C /\ k \in DOMAIN C /\ l # k
            BY <2>2, <4>1
          <5> QED
            BY <2>1, <5>1
        <4>4. S(k) = S(k - 1) \cup {C[k]}
          <5>1. 1..k = (1..(k - 1)) \cup {k}
            BY <4>1
          <5> QED
            BY <5>1
        <4> HIDE DEF S
        <4>5. Place(h[k - 1], C[k]) \in Seq(Fitting(S(k - 1) \cup {C[k]}))
          BY <1>2, <4>2, <4>3, RoomIs, PlaceFits
        <4>6. h[k] \in Seq(Fitting(S(k)))
          BY <2>3, <4>1, <4>4, <4>5
        <4> QED
          BY <4>6
      <3> QED
        BY <3>1, <3>2
    <2> HIDE DEF G
    <2>5. Len(C) \in G
      <3>1. Len(C) \in 0..Len(C)
        BY <2>2
      <3> QED
        BY <2>2, <2>4, <3>1, UpToABound
    <2>6. h[Len(C)] \in Seq(Fitting(S(Len(C))))
      BY <2>5 DEF G
    <2>7. S(Len(C)) \subseteq ReadyTasks
      BY <2>1, <2>2
    <2>8. Batches = h[Len(C)]
      BY <1>2, <2>3 DEF Batches, C
    <2>9. Fitting(S(Len(C))) \subseteq Fitting(ReadyTasks)
      <3> HIDE DEF S
      <3> QED
        BY <2>7, FittingOfLess
    <2>10. Batches \in Seq(Fitting(ReadyTasks))
      <3> HIDE DEF S
      <3> QED
        BY <2>6, <2>8, <2>9, SeqOfLess
    <2> QED
      BY <1>2, <2>10
  <1> QED
    BY <1>1, <1>2

-----------------------------------------------------------------------------
(* What is offered is admitted.                                            *)

(* No running build is hidden behind a later one of its Task.              *)
NoneHidden == \A i \in Running : \A j \in OnTask(attempts[i].task) : j <= i

LEMMA AttemptFields ==
  ASSUME PlanShape, NEW i \in DOMAIN attempts
  PROVE  /\ i \in Nat /\ i \in 1..Len(attempts)
         /\ attempts[i] \in Builds
         /\ attempts[i].task \in Ids /\ attempts[i].task \in Tasks
         /\ attempts[i].child \in Nat
         /\ attempts[i].state \in States
         /\ attempts[i].merged \in BOOLEAN /\ attempts[i].removed \in BOOLEAN
         /\ attempts[i].commits \in BOOLEAN
  <1>1. attempts[i] \in Builds /\ i \in 1..Len(attempts) /\ i \in Nat
    BY DEF PlanShape
  <1>2. attempts[i].task \in Tasks
    BY DEF PlanShape, PlanTypeOK
  <1> QED
    BY <1>1, <1>2 DEF Builds

LEMMA RunningIsSeen ==
  ASSUME PlanShape, NoneHidden, NEW i \in Running
  PROVE  Phase(attempts[i].task) = "running"
  <1>1. i \in DOMAIN attempts /\ attempts[i].state = "running"
    BY DEF Running
  <1> DEFINE t == attempts[i].task
             latest == CHOOSE k \in OnTask(t) : \A j \in OnTask(t) : j <= k
  <1>2. i \in OnTask(t) /\ \A j \in OnTask(t) : j <= i
    BY <1>1 DEF OnTask, NoneHidden
  <1>3. latest = i
    <2>1. latest \in OnTask(t) /\ \A j \in OnTask(t) : j <= latest
      <3> HIDE DEF t
      <3> QED
        BY <1>2
    <2>2. latest <= i /\ i <= latest
      BY <1>2, <2>1
    <2>3. latest \in DOMAIN attempts
      BY <2>1 DEF OnTask
    <2>4. latest \in Nat /\ i \in Nat
      BY <1>1, <2>3, AttemptFields
    <2> HIDE DEF latest
    <2> QED
      BY <2>2, <2>4
  <1>4. Phase(t) = PhaseOf(attempts[i])
    <2> HIDE DEF t
    <2>1. Phase(t) = PhaseOf(attempts[latest])
      BY <1>2 DEF Phase
    <2> QED
      BY <1>3, <2>1
  <1>5. PhaseOf(attempts[i]) = "running"
    BY <1>1 DEF PhaseOf
  <1> QED
    BY <1>4, <1>5

LEMMA OverlapIsSymmetric ==
  ASSUME NEW l, NEW r
  PROVE  PathsOverlap(l, r) <=> PathsOverlap(r, l)
  BY DEF PathsOverlap

(* A Task that is ready can be dispatched, beside the builds that run.     *)
LEMMA ReadyMeans ==
  ASSUME PlanShape, NoneHidden, NEW t \in ReadyTasks
  PROVE  /\ Free(t) /\ ~Covered(t) /\ UnfinishedDependencies(t) = {}
         /\ NoRunningConflict(t, 0)
         /\ Children(t) = {}
  <1>1. t \in Tasks /\ Ready(t)
    BY DEF ReadyTasks
  <1>2. /\ Unended(t) /\ ~Pending(t) /\ ~Covered(t) /\ Children(t) = {}
        /\ t \notin claims /\ UnfinishedDependencies(t) = {} /\ ~Occupied(t)
    BY <1>1 DEF Ready
  <1>3. ASSUME NEW i \in OnTask(t), attempts[i].state = "running"
        PROVE  FALSE
    <2>1. i \in Running /\ attempts[i].task = t
      BY <1>3 DEF OnTask, Running
    <2>2. Phase(t) = "running"
      BY <2>1, RunningIsSeen
    <2> QED
      BY <1>2, <2>2 DEF Pending
  <1>4. ASSUME NEW i \in Running, attempts[i].task # t
        PROVE  ~PathsOverlap(paths[t], paths[attempts[i].task])
    <2>1. Phase(attempts[i].task) = "running"
      BY RunningIsSeen
    <2>2. attempts[i].task \in Tasks
      BY AttemptFields DEF Running
    <2>3. attempts[i].task \notin Ancestors(t)
      BY <1>2, <2>1 DEF Covered
    <2>4. Pending(attempts[i].task)
      BY <2>1 DEF Pending
    <2> QED
      BY <1>2, <1>4, <2>2, <2>3, <2>4 DEF Occupied
  <1> QED
    BY <1>2, <1>3, <1>4 DEF Free, NoRunningConflict

LEMMA AncestorsOf ==
  ASSUME PlanShape, NEW t \in Tasks
  PROVE  /\ Ancestors(t) = AncestorSet(parent, t)
         /\ Ancestors(t) \subseteq Tasks
         /\ \A a \in Ancestors(t) : Children(a) # {}
  <1>1. parent \in Trees /\ size \in Ids
    BY DEF PlanShape, PlanTypeOK
  <1>2. t \in Ids /\ t \in Nat /\ size \in Nat /\ t <= size
    BY <1>1, TasksAre DEF Tasks
  <1>3. Ancestors(t) = AncestorSet(parent, t)
    BY DEF Ancestors, AncestorSet
  <1>4. Ancestors(t) \subseteq 1..(t - 1)
    BY <1>1, <1>2, <1>3, AncestorSetIs
  <1>5. 1..(t - 1) \subseteq Tasks /\ 1..t \subseteq Tasks
    BY <1>2 DEF Tasks
  <1>6. ASSUME NEW a \in Ancestors(t) PROVE Children(a) # {}
    <2>1. PICK u \in 1..t : parent[u] = a
      BY <1>1, <1>2, <1>3, <1>6, AncestorsHaveSubtasks
    <2> QED
      BY <1>5, <2>1 DEF Children
  <1> QED
    BY <1>3, <1>4, <1>5, <1>6

LEMMA FittingIsAdmissible ==
  ASSUME PlanShape, NoneHidden, BatchSize # 0, NEW b \in Fitting(ReadyTasks)
  PROVE  Admissible(b)
  <1>1. b \in Seq(ReadyTasks) /\ Fits(b)
    BY DEF Fitting
  <1>2. Len(b) \in Nat /\ \A k \in DOMAIN b : b[k] \in ReadyTasks
    BY <1>1
  <1>3. Len(b) <= BatchSize
    BY <1>1 DEF Fits
  <1>4. Len(b) <= MaxBatch /\ started + Len(b) <= PerTurn
    <2>1. started \in Nat
      BY PlanBounds DEF PlanShape, PlanTypeOK
    <2>2. /\ BatchSize \in Nat /\ BatchSize <= MaxBatch
          /\ BatchSize + started <= PerTurn
      BY RoomIs
    <2> QED
      BY <1>2, <1>3, <2>1, <2>2, PlanBounds
  <1>5. ASSUME NEW k \in DOMAIN b
        PROVE  /\ \A j \in 1..(k - 1) : b[j] # b[k]
               /\ Free(b[k])
               /\ Orchestrated(b, k)
    <2>1. b[k] \in ReadyTasks
      BY <1>2
    <2>2. /\ Free(b[k]) /\ ~Covered(b[k]) /\ UnfinishedDependencies(b[k]) = {}
          /\ NoRunningConflict(b[k], 0)
      BY <2>1, ReadyMeans
    <2>3. \A j \in 1..(k - 1) : b[j] # b[k] /\ ~PathsOverlap(paths[b[k]], paths[b[j]])
      BY <1>1 DEF Fits
    <2>4. ASSUME NEW j \in 1..(k - 1) PROVE b[j] \notin Ancestors(b[k])
      <3>1. j \in DOMAIN b
        <4>1. k \in 1..Len(b) /\ DOMAIN b = 1..Len(b)
          BY <1>1
        <4> QED
          BY <1>2, <4>1
      <3>2. b[j] \in ReadyTasks
        BY <1>2, <3>1
      <3>3. Children(b[j]) = {}
        BY <3>2, ReadyMeans
      <3>4. b[k] \in Tasks
        BY <2>1 DEF ReadyTasks
      <3> QED
        BY <3>3, <3>4, AncestorsOf
    <2> QED
      BY <2>2, <2>3, <2>4 DEF Orchestrated
  <1> QED
    BY <1>4, <1>5 DEF Admissible

LEMMA WhatIsOfferedIsAdmitted ==
  ASSUME PlanShape
  PROVE  BatchesAreAdmissible
  <1> SUFFICES ASSUME NoneHidden, NEW i \in DOMAIN Batches
               PROVE  Admissible(Batches[i])
    BY DEF BatchesAreAdmissible, NoneHidden
  <1> QED
    BY BatchesFit, FittingIsAdmissible

-----------------------------------------------------------------------------
(* The invariant.                                                          *)

(* The attempts of one child build one Task, and children are numbered     *)
(* from 1.                                                                 *)
ChildrenOK ==
  /\ \A i \in DOMAIN attempts : attempts[i].child \in 1..Len(attempts)
  /\ \A i, j \in DOMAIN attempts :
       attempts[i].child = attempts[j].child => attempts[i].task = attempts[j].task

(* No Tasks wait for one another.                                          *)
NobodyWaitsInACircle == ~DependencyCycle(size, parent, deps)

(* The inductive invariant.                                                *)
PlanInv ==
  PlanShape /\ ChildrenOK /\ RunningBuildsAreDisjoint /\ NobodyWaitsInACircle

LEMMA PlanInitially == PlanInit => PlanInv
  <1> SUFFICES ASSUME PlanInit PROVE PlanInv
    OBVIOUS
  <1> USE DEF PlanInit
  <1>1. 1 \in Ids /\ size \in Ids /\ Tasks = 1..1
    BY PlanBounds DEF Ids, Tasks
  <1>2. \A t \in Ids : t \in Nat /\ t > 0
    BY PlanBounds DEF Ids
  <1>3. parent \in [Ids -> 0..MaxTasks] /\ \A t \in Ids : parent[t] = 0
    BY PlanBounds
  <1>4. parent \in Trees
    BY <1>2, <1>3 DEF Trees
  <1>5. attempts = <<>> /\ DOMAIN attempts = {} /\ Len(attempts) = 0 /\ attempts \in Seq(Builds)
    OBVIOUS
  <1>6. PlanTypeOK
    <2>1. \A t \in Ids : parent[t] < t /\ ~(t > 1 /\ t <= size)
      BY <1>2, <1>3
    <2>2. status \in [Ids -> Statuses]
      BY DEF Statuses
    <2>3. MaxAttempts \in Nat
      BY PlanAssumption
    <2>4. started \in 0..PerTurn
      BY PlanBounds
    <2> QED
      BY <1>1, <1>3, <1>5, <2>1, <2>2, <2>3, <2>4 DEF PlanTypeOK
  <1>7. PlanShape
    BY <1>4, <1>5, <1>6 DEF PlanShape
  <1>8. ChildrenOK /\ RunningBuildsAreDisjoint
    BY <1>5 DEF ChildrenOK, RunningBuildsAreDisjoint, Running
  <1>9. NobodyWaitsInACircle
    <2> SUFFICES ASSUME NEW S \in (SUBSET (1..1)) \ {{}},
                        \A t \in S : WaitsFor(1, parent, deps)[t] \cap S # {}
                 PROVE  FALSE
      BY DEF NobodyWaitsInACircle, DependencyCycle
    <2>1. 1 \in S /\ S = {1}
      <3>1. \A x \in S : x \in 1..1 /\ x = 1
        OBVIOUS
      <3>2. S # {}
        OBVIOUS
      <3> QED
        BY <3>1, <3>2, Zenon
    <2>2. WaitsFor(1, parent, deps)[1] = {}
      <3>1. AncestorSet(parent, 1) = {} /\ parent[1] = 0
        BY <1>1, <1>3, <1>4, AncestorSetIs
      <3>2. (\A u \in 1..1 : parent[u] # 1) /\ deps[1] = {}
        BY <1>1
      <3>3. WaitsFor(1, parent, deps)[1] =
              {u \in 1..1 : parent[u] = 1}
                \cup UNION {deps[a] : a \in {1} \cup AncestorSet(parent, 1)}
        BY DEF WaitsFor, AncestorSet
      <3>4. {u \in 1..1 : parent[u] = 1} = {}
        BY <3>2
      <3>5. \A a \in {1} \cup AncestorSet(parent, 1) : deps[a] = {}
        BY <3>1, <3>2
      <3>6. UNION {deps[a] : a \in {1} \cup AncestorSet(parent, 1)} = {}
        <4> SUFFICES ASSUME NEW x \in UNION {deps[a] : a \in {1} \cup AncestorSet(parent, 1)}
                     PROVE  FALSE
          OBVIOUS
        <4>1. PICK a \in {1} \cup AncestorSet(parent, 1) : x \in deps[a]
          OBVIOUS
        <4> QED
          BY <3>5, <4>1
      <3>7. {} \cup {} = {}
        OBVIOUS
      <3> QED
        BY <3>3, <3>4, <3>6, <3>7, Zenon
    <2> QED
      BY <2>1, <2>2
  <1> QED
    BY <1>7, <1>8, <1>9 DEF PlanInv

-----------------------------------------------------------------------------
(* Changes of the tree.                                                    *)

Waits(m, p, d, x) ==
  {u \in 1..m : p[u] = x \/ \E a \in {x} \cup AncestorSet(p, x) : u \in d[a]}

LEMMA CycleIs ==
  ASSUME NEW m, NEW p, NEW d
  PROVE  DependencyCycle(m, p, d) <=>
           \E S \in (SUBSET (1..m)) \ {{}} : \A t \in S : Waits(m, p, d, t) \cap S # {}
  <1>1. \A t, u \in 1..m : u \in WaitsFor(m, p, d)[t] <=> u \in Waits(m, p, d, t)
    BY DEF WaitsFor, Waits, AncestorSet
  <1>2. ASSUME NEW S \in SUBSET (1..m), NEW t \in S
        PROVE  WaitsFor(m, p, d)[t] \cap S # {} <=> Waits(m, p, d, t) \cap S # {}
    BY <1>1
  <1> QED
    BY <1>2 DEF DependencyCycle

(* A new subtask that waits for nothing itself closes no circle: what it   *)
(* inherits its parent waits for, too.                                     *)
LEMMA SubtaskClosesNoCircle ==
  ASSUME PlanInv, NEW p \in Tasks, size < MaxTasks, NEW q, NEW d,
         q = [parent EXCEPT ![size + 1] = p], d = [deps EXCEPT ![size + 1] = {}],
         q \in Trees
  PROVE  ~DependencyCycle(size + 1, q, d)
  <1> DEFINE m == size
             n == size + 1
  <1>1. /\ parent \in Trees /\ size \in Ids /\ m \in Nat /\ n \in Ids /\ n \in Nat
        /\ n = m + 1 /\ m < n
        /\ \A t \in Ids : deps[t] \subseteq 1..m
        /\ deps \in [Ids -> SUBSET Ids]
    <2>1. parent \in Trees /\ size \in Ids /\ deps \in [Ids -> SUBSET Ids]
          /\ \A t \in Ids : deps[t] \subseteq 1..size
      BY DEF PlanInv, PlanShape, PlanTypeOK, Tasks
    <2>2. size \in Nat /\ size + 1 \in Ids /\ size + 1 \in Nat
      BY <2>1, PlanBounds DEF Ids
    <2> QED
      BY <2>1, <2>2
  <1>2. \A t \in 1..m : t \in Ids /\ t # n /\ t \in Nat /\ t \in 1..n
    BY <1>1, PlanBounds DEF Ids
  <1>3. p \in 1..m
    BY DEF Tasks
  <1>4. /\ \A t \in 1..m : q[t] = parent[t]
        /\ q[n] = p
    <2>1. parent \in [Ids -> 0..MaxTasks]
      BY <1>1 DEF Trees
    <2> QED
      BY <1>1, <1>2, <2>1
  <1>5. /\ \A t \in 1..m : d[t] = deps[t]
        /\ d[n] = {}
    BY <1>1, <1>2
  <1> HIDE DEF m, n
  <1>6. \A t \in 1..m : AncestorSet(q, t) = AncestorSet(parent, t)
    <2>1. m \in 0..MaxTasks
      BY <1>1, PlanBounds DEF m, Ids
    <2> QED
      <3>1. \A t \in 1..m : AncestorsFrom(q)[t] = AncestorsFrom(parent)[t]
        BY <1>1, <1>4, <2>1, SameParentsSameAncestors, Zenon
      <3> QED
        BY <3>1, Zenon DEF AncestorSet
  <1>7. \A t \in 1..m : AncestorSet(parent, t) \subseteq 1..m
    <2> SUFFICES ASSUME NEW t \in 1..m PROVE AncestorSet(parent, t) \subseteq 1..m
      OBVIOUS
    <2>1. AncestorSet(parent, t) \subseteq 1..(t - 1) /\ t \in Nat
      BY <1>1, <1>2, AncestorSetIs
    <2>2. 1..(t - 1) \subseteq 1..m
      BY <1>1, <2>1
    <2> QED
      BY <2>1, <2>2
  <1>8. AncestorSet(q, n) = {p} \cup AncestorSet(parent, p)
    <2>1. p # 0
      BY <1>1, <1>3
    <2>2. AncestorSet(q, n) = IF q[n] = 0 THEN {} ELSE {q[n]} \cup AncestorSet(q, q[n])
      BY <1>1, AncestorSetIs
    <2>4. AncestorSet(q, n) = {p} \cup AncestorSet(q, p)
      BY <1>4, <2>1, <2>2
    <2>3. AncestorSet(q, p) = AncestorSet(parent, p)
      BY <1>3, <1>6
    <2> QED
      BY <2>3, <2>4
  <1>9. ASSUME NEW x \in 1..m, NEW u \in Waits(n, q, d, x)
        PROVE  u \in Waits(m, parent, deps, x) \/ (u = n /\ x = p)
    <2>1. u \in 1..n /\ (q[u] = x \/ \E a \in {x} \cup AncestorSet(q, x) : u \in d[a])
      BY DEF Waits
    <2>2. CASE u = n
      <3>1. \A a \in {x} \cup AncestorSet(q, x) : u \notin d[a]
        <4> SUFFICES ASSUME NEW a \in {x} \cup AncestorSet(q, x) PROVE u \notin d[a]
          OBVIOUS
        <4>1. a \in 1..m
          BY <1>6, <1>7
        <4>2. d[a] \subseteq 1..m
          BY <1>1, <1>2, <1>5, <4>1
        <4>3. n \notin 1..m
          BY <1>1
        <4> QED
          BY <2>2, <4>2, <4>3
      <3>2. q[u] = x
        BY <2>1, <3>1
      <3> QED
        BY <1>4, <2>2, <3>2
    <2>3. CASE u # n
      <3>1. u \in 1..m
        BY <1>1, <2>1, <2>3
      <3>2. q[u] = x => parent[u] = x
        BY <1>4, <3>1
      <3>3. ASSUME NEW a \in {x} \cup AncestorSet(q, x), u \in d[a]
            PROVE  a \in {x} \cup AncestorSet(parent, x) /\ u \in deps[a]
        <4>1. a \in {x} \cup AncestorSet(parent, x) /\ a \in 1..m
          BY <1>6, <1>7
        <4> QED
          BY <1>5, <3>3, <4>1
      <3> QED
        BY <2>1, <3>1, <3>2, <3>3 DEF Waits
    <2> QED
      BY <2>2, <2>3
  <1>10. ASSUME NEW u \in Waits(n, q, d, n)
         PROVE  u \in 1..m /\ u \in Waits(m, parent, deps, p)
    <2>1. u \in 1..n /\ (q[u] = n \/ \E a \in {n} \cup AncestorSet(q, n) : u \in d[a])
      BY DEF Waits
    <2>2. q[u] # n
      <3>1. u \in Ids
        BY <1>1, <1>2, <2>1
      <3>2. q[u] < u /\ q[u] \in 0..MaxTasks /\ u \in Nat
        BY <3>1, AncestorSetIs
      <3> QED
        BY <1>1, <2>1, <3>2, PlanBounds
    <2>3. PICK a \in {n} \cup AncestorSet(q, n) : u \in d[a]
      BY <2>1, <2>2
    <2>4. a # n /\ a \in {p} \cup AncestorSet(parent, p)
      BY <1>5, <1>8, <2>3
    <2>5. a \in 1..m
      BY <1>3, <1>7, <2>4
    <2>6. u \in deps[a] /\ u \in 1..m
      BY <1>1, <1>2, <1>5, <2>3, <2>5
    <2> QED
      BY <2>4, <2>6 DEF Waits
  <1>11. SUFFICES ASSUME NEW S \in (SUBSET (1..n)) \ {{}},
                         \A t \in S : Waits(n, q, d, t) \cap S # {}
                  PROVE  FALSE
    <2>1. ~DependencyCycle(n, q, d)
      BY <1>11, CycleIs
    <2> QED
      BY <2>1 DEF n
  <1> DEFINE Z == S \ {n}
  <1>12. Z \subseteq 1..m
    BY <1>1
  <1>13. ASSUME n \in S
         PROVE  \E v \in Z : v \in Waits(m, parent, deps, p)
    <2>1. PICK v \in S : v \in Waits(n, q, d, n)
      BY <1>11, <1>13
    <2>2. v \in 1..m /\ v \in Waits(m, parent, deps, p)
      BY <1>10, <2>1
    <2>3. v # n
      BY <1>2, <2>2
    <2> QED
      BY <2>1, <2>2, <2>3
  <1>14. Z # {}
    BY <1>11, <1>13
  <1>15. ASSUME NEW x \in Z
         PROVE  Waits(m, parent, deps, x) \cap Z # {}
    <2>1. x \in 1..m /\ x \in S
      BY <1>12
    <2>2. PICK u \in S : u \in Waits(n, q, d, x)
      BY <1>11, <2>1
    <2>3. u \in Waits(m, parent, deps, x) \/ (u = n /\ x = p)
      BY <1>9, <2>1, <2>2
    <2>4. CASE u = n /\ x = p
      BY <1>13, <2>2, <2>4
    <2>5. CASE u \in Waits(m, parent, deps, x)
      <3>1. u \in 1..m
        BY <2>5 DEF Waits
      <3> QED
        BY <1>2, <2>2, <2>5, <3>1
    <2> QED
      BY <2>3, <2>4, <2>5
  <1>16. DependencyCycle(m, parent, deps)
    <2>1. Z \in (SUBSET (1..m)) \ {{}}
      BY <1>12, <1>14
    <2> HIDE DEF Z
    <2> QED
      BY <1>15, <2>1, CycleIs
  <1> QED
    BY <1>16 DEF PlanInv, NobodyWaitsInACircle, m

LEMMA ShapeParts ==
  ASSUME PlanShape
  PROVE  /\ size \in Ids /\ size \in Nat /\ Tasks \subseteq Ids
         /\ parent \in [Ids -> 0..MaxTasks] /\ parent \in Trees
         /\ \A t \in Ids : parent[t] < t /\ (t > 1 /\ t <= size => parent[t] > 0)
         /\ deps \in [Ids -> SUBSET Ids] /\ \A t \in Ids : deps[t] \subseteq Tasks
         /\ status \in [Ids -> Statuses] /\ claims \subseteq {t \in Tasks : Unended(t)}
         /\ Len(attempts) \in Nat /\ Len(attempts) <= MaxAttempts
         /\ DOMAIN attempts = 1..Len(attempts)
         /\ started \in 0..PerTurn /\ edits \in Nat
         /\ paths \in [Ids -> PathChoices \cup {{}}]
  <1>1. PlanTypeOK /\ attempts \in Seq(Builds)
    BY DEF PlanShape
  <1>2. size \in Ids
    BY <1>1 DEF PlanTypeOK
  <1>3. /\ size \in Nat /\ Tasks \subseteq Ids
    BY <1>2, TasksAre
  <1>4. Len(attempts) \in Nat /\ DOMAIN attempts = 1..Len(attempts)
    BY <1>1
  <1> QED
    BY <1>1, <1>2, <1>3, <1>4 DEF PlanShape, PlanTypeOK

(* The attempts are of Tasks, and none but running builds occupy.          *)
LEMMA SameAttempts ==
  ASSUME PlanInv, UNCHANGED attempts, Tasks \subseteq Tasks'
  PROVE  /\ (attempts \in Seq(Builds))' /\ ChildrenOK' /\ Running' = Running
         /\ Len(attempts') <= MaxAttempts
         /\ \A i \in DOMAIN attempts' :
              attempts'[i].state \in States /\ attempts'[i].task \in Tasks'
  BY DEF PlanInv, PlanShape, PlanTypeOK, ChildrenOK, Running

LEMMA CreateTaskKeeps ==
  ASSUME PlanInv, NEW p \in Tasks, NEW D \in SUBSET Tasks, NEW P \in PathChoices,
         CreateTask(p, D, P)
  PROVE  PlanInv'
  <1> DEFINE t == size + 1
  <1>1. /\ size < MaxTasks /\ size' = t
        /\ parent' = [parent EXCEPT ![t] = p]
        /\ deps' = [deps EXCEPT ![t] = D]
        /\ paths' = [paths EXCEPT ![t] = P]
        /\ UNCHANGED <<status, claims, attempts, started, edits>>
        /\ D # {} => DependenciesAllowed(t, parent', deps', t)
    BY DEF CreateTask
  <1>2. PlanShape /\ ChildrenOK /\ RunningBuildsAreDisjoint
    BY DEF PlanInv
  <1>3. /\ size \in Ids /\ size \in Nat /\ Tasks \subseteq Ids
        /\ parent \in [Ids -> 0..MaxTasks] /\ parent \in Trees
        /\ \A x \in Ids : parent[x] < x /\ (x > 1 /\ x <= size => parent[x] > 0)
        /\ deps \in [Ids -> SUBSET Ids] /\ \A x \in Ids : deps[x] \subseteq Tasks
        /\ status \in [Ids -> Statuses] /\ claims \subseteq {x \in Tasks : Unended(x)}
        /\ started \in 0..PerTurn /\ edits \in Nat
        /\ paths \in [Ids -> PathChoices \cup {{}}]
    BY <1>2, ShapeParts
  <1>4. /\ t \in Ids /\ t \in Nat /\ t \notin Tasks /\ Tasks' = Tasks \cup {t}
        /\ p \in Nat /\ p > 0 /\ p < t /\ p \in 0..MaxTasks /\ t > size
    <2>1. t \in Ids /\ t \in Nat /\ t \notin Tasks
      BY <1>1, <1>3, PlanBounds DEF Ids, Tasks
    <2>2. Tasks' = 1..t
      BY <1>1 DEF Tasks
    <2>3. Tasks' = Tasks \cup {t}
      <3>1. size \in Nat
        BY <1>3
      <3>2. 1..(size + 1) = (1..size) \cup {size + 1}
        BY <3>1
      <3> QED
        BY <2>2, <3>2, Zenon DEF Tasks
    <2>4. p \in Nat /\ p > 0 /\ p < t /\ p \in 0..MaxTasks /\ t > size
      BY <1>1, <1>3, PlanBounds DEF Ids, Tasks
    <2> QED
      BY <2>1, <2>3, <2>4
  <1> HIDE DEF t
  <1>5. /\ parent' \in [Ids -> 0..MaxTasks]
        /\ \A x \in Ids : parent'[x] < x /\ (x > 1 /\ x <= size' => parent'[x] > 0)
    <2>1. parent' \in [Ids -> 0..MaxTasks]
      BY <1>1, <1>3, <1>4
    <2>2. ASSUME NEW x \in Ids
          PROVE  parent'[x] < x /\ (x > 1 /\ x <= size' => parent'[x] > 0)
      <3>1. CASE x = t
        <4>1. parent'[x] = p
          BY <1>1, <1>3, <1>4, <3>1
        <4> QED
          BY <1>4, <3>1, <4>1
      <3>2. CASE x # t
        <4>1. parent'[x] = parent[x]
          BY <1>1, <1>3, <1>4, <3>2
        <4>2. x <= size' => x <= size
          <5>1. x \in Nat /\ size' = size + 1
            BY <1>1, PlanBounds DEF Ids, t
          <5> QED
            BY <1>3, <3>2, <5>1 DEF t
        <4> QED
          BY <1>3, <4>1, <4>2
      <3> QED
        BY <3>1, <3>2
    <2> QED
      BY <2>1, <2>2
  <1>6. parent' \in Trees
    BY <1>5 DEF Trees
  <1>7. /\ deps' \in [Ids -> SUBSET Ids] /\ \A x \in Ids : deps'[x] \subseteq Tasks'
        /\ paths' \in [Ids -> PathChoices \cup {{}}]
    <2>1. D \subseteq Ids
      BY <1>3
    <2>2. ASSUME NEW x \in Ids PROVE deps'[x] \subseteq Tasks'
      <3>1. CASE x = t
        BY <1>1, <1>3, <1>4, <3>1
      <3>2. CASE x # t
        BY <1>1, <1>3, <1>4, <3>2
      <3> QED
        BY <3>1, <3>2
    <2> QED
      BY <1>1, <1>3, <1>4, <2>1, <2>2
  <1>8. claims' \subseteq {x \in Tasks' : Unended(x)'}
    BY <1>1, <1>3, <1>4 DEF Unended
  <1>9. /\ attempts' \in Seq(Builds) /\ ChildrenOK' /\ Running' = Running
        /\ Len(attempts') <= MaxAttempts
        /\ \A i \in DOMAIN attempts' :
             attempts'[i].state \in States /\ attempts'[i].task \in Tasks'
    BY <1>1, <1>4, SameAttempts
  <1>10. PlanShape'
    <2>1. size' \in Ids /\ status' \in [Ids -> Statuses] /\ started' \in 0..PerTurn /\ edits' \in Nat
      BY <1>1, <1>3, <1>4
    <2> QED
      BY <1>5, <1>6, <1>7, <1>8, <1>9, <2>1 DEF PlanShape, PlanTypeOK
  <1>11. RunningBuildsAreDisjoint'
    <2>1. \A i \in Running : attempts[i].task \in Tasks /\ attempts[i].task \in Ids
      BY <1>2, AttemptFields DEF Running
    <2>2. \A x \in Tasks : paths'[x] = paths[x]
      BY <1>1, <1>3, <1>4
    <2>3. ASSUME NEW i \in Running, NEW j \in Running,
                 edits = 0, attempts[i].task # attempts[j].task
          PROVE  ~PathsOverlap(paths'[attempts[i].task], paths'[attempts[j].task])
      BY <1>2, <2>1, <2>2, <2>3 DEF RunningBuildsAreDisjoint
    <2>4. attempts' = attempts /\ edits' = edits
      BY <1>1
    <2> QED
      BY <1>9, <2>3, <2>4 DEF RunningBuildsAreDisjoint
  <1>12. NobodyWaitsInACircle'
    <2>1. CASE D = {}
      BY <1>1, <1>6, <2>1, SubtaskClosesNoCircle DEF NobodyWaitsInACircle, t
    <2>2. CASE D # {}
      BY <1>1, <2>2 DEF DependenciesAllowed, NobodyWaitsInACircle
    <2> QED
      BY <2>1, <2>2
  <1> QED
    BY <1>9, <1>10, <1>11, <1>12 DEF PlanInv

LEMMA UpdateDependenciesKeeps ==
  ASSUME PlanInv, NEW t \in Tasks, NEW D \in SUBSET Tasks, UpdateDependencies(t, D)
  PROVE  PlanInv'
  <1>1. /\ deps' = [deps EXCEPT ![t] = D] /\ edits' = edits + 1
        /\ UNCHANGED <<size, parent, paths, status, claims, attempts, started>>
        /\ DependenciesAllowed(size, parent, deps', t)
    BY DEF UpdateDependencies
  <1>2. PlanShape /\ Tasks' = Tasks
    BY <1>1 DEF PlanInv, Tasks
  <1>3. /\ size \in Ids /\ Tasks \subseteq Ids
        /\ parent \in [Ids -> 0..MaxTasks] /\ parent \in Trees
        /\ \A x \in Ids : parent[x] < x /\ (x > 1 /\ x <= size => parent[x] > 0)
        /\ deps \in [Ids -> SUBSET Ids] /\ \A x \in Ids : deps[x] \subseteq Tasks
        /\ status \in [Ids -> Statuses] /\ claims \subseteq {x \in Tasks : Unended(x)}
        /\ started \in 0..PerTurn /\ edits \in Nat
        /\ paths \in [Ids -> PathChoices \cup {{}}]
    BY <1>2, ShapeParts
  <1>4. deps' \in [Ids -> SUBSET Ids] /\ \A x \in Ids : deps'[x] \subseteq Tasks
    BY <1>1, <1>3
  <1>5. claims' \subseteq {x \in Tasks' : Unended(x)'}
    BY <1>1, <1>2, <1>3 DEF Unended
  <1>6. /\ attempts' \in Seq(Builds) /\ ChildrenOK'
        /\ Len(attempts') <= MaxAttempts
        /\ \A i \in DOMAIN attempts' :
             attempts'[i].state \in States /\ attempts'[i].task \in Tasks'
    BY <1>1, <1>2, SameAttempts
  <1>7. PlanShape'
    <2>1. edits' \in Nat
      BY <1>1, <1>3
    <2> QED
      BY <1>1, <1>2, <1>3, <1>4, <1>5, <1>6, <2>1 DEF PlanShape, PlanTypeOK
  <1>8. RunningBuildsAreDisjoint'
    <2>1. edits' # 0
      BY <1>1, <1>3
    <2> QED
      BY <2>1 DEF RunningBuildsAreDisjoint
  <1>9. NobodyWaitsInACircle'
    BY <1>1 DEF DependenciesAllowed, NobodyWaitsInACircle
  <1> QED
    BY <1>6, <1>7, <1>8, <1>9 DEF PlanInv

LEMMA UpdatePathsKeeps ==
  ASSUME PlanInv, NEW t \in Tasks, NEW P \in PathChoices, UpdatePaths(t, P)
  PROVE  PlanInv'
  <1>1. /\ paths' = [paths EXCEPT ![t] = P] /\ edits' = edits + 1
        /\ UNCHANGED <<size, parent, deps, status, claims, attempts, started>>
    BY DEF UpdatePaths
  <1>2. PlanShape /\ Tasks' = Tasks
    BY <1>1 DEF PlanInv, Tasks
  <1>3. /\ size \in Ids /\ Tasks \subseteq Ids
        /\ parent \in [Ids -> 0..MaxTasks] /\ parent \in Trees
        /\ \A x \in Ids : parent[x] < x /\ (x > 1 /\ x <= size => parent[x] > 0)
        /\ deps \in [Ids -> SUBSET Ids] /\ \A x \in Ids : deps[x] \subseteq Tasks
        /\ status \in [Ids -> Statuses] /\ claims \subseteq {x \in Tasks : Unended(x)}
        /\ started \in 0..PerTurn /\ edits \in Nat
        /\ paths \in [Ids -> PathChoices \cup {{}}]
    BY <1>2, ShapeParts
  <1>4. claims' \subseteq {x \in Tasks' : Unended(x)'}
    BY <1>1, <1>2, <1>3 DEF Unended
  <1>5. /\ attempts' \in Seq(Builds) /\ ChildrenOK'
        /\ Len(attempts') <= MaxAttempts
        /\ \A i \in DOMAIN attempts' :
             attempts'[i].state \in States /\ attempts'[i].task \in Tasks'
    BY <1>1, <1>2, SameAttempts
  <1>6. PlanShape'
    <2>1. edits' \in Nat /\ paths' \in [Ids -> PathChoices \cup {{}}]
      BY <1>1, <1>3
    <2> QED
      BY <1>1, <1>2, <1>3, <1>4, <1>5, <2>1 DEF PlanShape, PlanTypeOK
  <1>7. RunningBuildsAreDisjoint'
    <2>1. edits' # 0
      BY <1>1, <1>3
    <2> QED
      BY <2>1 DEF RunningBuildsAreDisjoint
  <1>8. NobodyWaitsInACircle'
    BY <1>1 DEF PlanInv, NobodyWaitsInACircle
  <1> QED
    BY <1>5, <1>6, <1>7, <1>8 DEF PlanInv

(* A step that leaves the tree and the attempts alone.                     *)
LEMMA StatusMoves ==
  ASSUME PlanInv, UNCHANGED <<tree, attempts>>,
         status' \in [Ids -> Statuses],
         claims' \subseteq {t \in Tasks : status'[t] \in Active},
         started' \in 0..PerTurn
  PROVE  PlanInv'
  <1>1. UNCHANGED <<size, parent, deps, paths, edits, attempts>>
    BY DEF tree
  <1>2. PlanShape /\ Tasks' = Tasks
    BY <1>1 DEF PlanInv, Tasks
  <1>3. /\ size \in Ids
        /\ parent \in [Ids -> 0..MaxTasks] /\ parent \in Trees
        /\ \A x \in Ids : parent[x] < x /\ (x > 1 /\ x <= size => parent[x] > 0)
        /\ deps \in [Ids -> SUBSET Ids] /\ \A x \in Ids : deps[x] \subseteq Tasks
        /\ edits \in Nat
        /\ paths \in [Ids -> PathChoices \cup {{}}]
    BY <1>2, ShapeParts
  <1>4. claims' \subseteq {x \in Tasks' : Unended(x)'}
    BY <1>2 DEF Unended
  <1>5. /\ attempts' \in Seq(Builds) /\ ChildrenOK' /\ Running' = Running
        /\ Len(attempts') <= MaxAttempts
        /\ \A i \in DOMAIN attempts' :
             attempts'[i].state \in States /\ attempts'[i].task \in Tasks'
    BY <1>1, <1>2, SameAttempts
  <1>6. PlanShape'
    BY <1>1, <1>2, <1>3, <1>4, <1>5 DEF PlanShape, PlanTypeOK
  <1>7. RunningBuildsAreDisjoint'
    BY <1>1, <1>5 DEF PlanInv, RunningBuildsAreDisjoint
  <1>8. NobodyWaitsInACircle'
    BY <1>1 DEF PlanInv, NobodyWaitsInACircle
  <1> QED
    BY <1>5, <1>6, <1>7, <1>8 DEF PlanInv

LEMMA SetStatusKeeps ==
  ASSUME PlanInv, NEW t \in Tasks, NEW s \in Reported, SetStatus(t, s)
  PROVE  PlanInv'
  <1>1. /\ status' = [status EXCEPT ![t] = s]
        /\ claims' = IF s \in Active THEN claims ELSE claims \ {t}
        /\ UNCHANGED <<tree, attempts, started>>
    BY DEF SetStatus
  <1>2. PlanShape
    BY DEF PlanInv
  <1>3. /\ status \in [Ids -> Statuses] /\ started \in 0..PerTurn /\ Tasks \subseteq Ids
        /\ claims \subseteq {x \in Tasks : status[x] \in Active}
    BY <1>2, ShapeParts DEF Unended
  <1>4. s \in Statuses
    BY PlanAssumption DEF Statuses
  <1>5. status' \in [Ids -> Statuses]
    BY <1>1, <1>3, <1>4
  <1>6. claims' \subseteq {x \in Tasks : status'[x] \in Active}
    <2> SUFFICES ASSUME NEW x \in claims' PROVE x \in Tasks /\ status'[x] \in Active
      OBVIOUS
    <2>1. x \in claims /\ (s \in Active \/ x # t)
      BY <1>1
    <2>2. x \in Tasks /\ status[x] \in Active /\ x \in Ids
      BY <1>3, <2>1
    <2> QED
      BY <1>1, <1>3, <2>1, <2>2
  <1> QED
    BY <1>1, <1>3, <1>5, <1>6, StatusMoves

LEMMA ToggleClaimKeeps ==
  ASSUME PlanInv, NEW t \in Tasks, ToggleClaim(t)
  PROVE  PlanInv'
  <1>1. PlanShape
    BY DEF PlanInv
  <1>2. /\ status \in [Ids -> Statuses] /\ started \in 0..PerTurn
        /\ claims \subseteq {x \in Tasks : status[x] \in Active}
    BY <1>1, ShapeParts DEF Unended
  <1>3. claims' \subseteq {x \in Tasks : status[x] \in Active}
    BY <1>2 DEF ToggleClaim, Unended
  <1> QED
    BY <1>2, <1>3, StatusMoves DEF ToggleClaim

LEMMA NewTurnKeeps ==
  ASSUME PlanInv, NewTurn
  PROVE  PlanInv'
  <1>1. PlanShape
    BY DEF PlanInv
  <1>2. /\ status \in [Ids -> Statuses]
        /\ claims \subseteq {x \in Tasks : status[x] \in Active}
    BY <1>1, ShapeParts DEF Unended
  <1>3. started' \in 0..PerTurn
    BY PlanBounds DEF NewTurn
  <1> QED
    BY <1>2, <1>3, StatusMoves DEF NewTurn

-----------------------------------------------------------------------------
(* Builds.                                                                 *)

LEMMA AttemptIs ==
  ASSUME NEW t \in Ids, NEW c \in Nat
  PROVE  /\ Attempt(t, c) \in Builds
         /\ Attempt(t, c).task = t /\ Attempt(t, c).child = c
         /\ Attempt(t, c).state = "running"
  BY DEF Attempt, Builds, States

(* A step of the builds that leaves the tree alone.                        *)
LEMMA AttemptsMove ==
  ASSUME PlanInv, UNCHANGED <<tree, status, claims>>,
         attempts' \in Seq(Builds), Len(attempts') <= MaxAttempts,
         \A i \in DOMAIN attempts' : attempts'[i].task \in Tasks,
         started' \in 0..PerTurn, ChildrenOK',
         \A i, j \in Running' : edits = 0 /\ attempts'[i].task # attempts'[j].task
            => ~PathsOverlap(paths[attempts'[i].task], paths[attempts'[j].task])
  PROVE  PlanInv'
  <1>1. UNCHANGED <<size, parent, deps, paths, edits, status, claims>>
    BY DEF tree
  <1>2. PlanShape /\ Tasks' = Tasks
    BY <1>1 DEF PlanInv, Tasks
  <1>3. /\ size \in Ids
        /\ parent \in [Ids -> 0..MaxTasks] /\ parent \in Trees
        /\ \A x \in Ids : parent[x] < x /\ (x > 1 /\ x <= size => parent[x] > 0)
        /\ deps \in [Ids -> SUBSET Ids] /\ \A x \in Ids : deps[x] \subseteq Tasks
        /\ status \in [Ids -> Statuses] /\ claims \subseteq {x \in Tasks : Unended(x)}
        /\ edits \in Nat
        /\ paths \in [Ids -> PathChoices \cup {{}}]
    BY <1>2, ShapeParts
  <1>4. claims' \subseteq {x \in Tasks' : Unended(x)'}
    BY <1>1, <1>2, <1>3 DEF Unended
  <1>5. \A i \in DOMAIN attempts' : attempts'[i].state \in States /\ attempts'[i].task \in Tasks'
    <2>1. \A i \in DOMAIN attempts' : attempts'[i] \in Builds
      OBVIOUS
    <2> QED
      BY <1>2, <2>1 DEF Builds
  <1>6. PlanShape'
    BY <1>1, <1>2, <1>3, <1>4, <1>5 DEF PlanShape, PlanTypeOK
  <1>7. RunningBuildsAreDisjoint'
    BY <1>1 DEF RunningBuildsAreDisjoint
  <1>8. NobodyWaitsInACircle'
    BY <1>1 DEF PlanInv, NobodyWaitsInACircle
  <1> QED
    BY <1>6, <1>7, <1>8 DEF PlanInv

(* Builds are only ended, or cleaned up.                                   *)
LEMMA BuildsSettle ==
  ASSUME PlanInv, UNCHANGED <<tree, status, claims, started>>,
         attempts' \in Seq(Builds), Len(attempts') = Len(attempts),
         \A i \in DOMAIN attempts :
            /\ attempts'[i].task = attempts[i].task
            /\ attempts'[i].child = attempts[i].child
            /\ attempts'[i].state = "running" => attempts[i].state = "running"
  PROVE  PlanInv'
  <1>1. PlanShape /\ ChildrenOK /\ RunningBuildsAreDisjoint
    BY DEF PlanInv
  <1>2. /\ Len(attempts) \in Nat /\ Len(attempts) <= MaxAttempts /\ started \in 0..PerTurn
        /\ DOMAIN attempts = 1..Len(attempts)
    BY <1>1, ShapeParts
  <1>3. DOMAIN attempts' = DOMAIN attempts
    BY <1>2
  <1>4. \A i \in DOMAIN attempts' : attempts'[i].task \in Tasks
    BY <1>1, <1>3, AttemptFields
  <1>5. ChildrenOK'
    BY <1>1, <1>3 DEF ChildrenOK
  <1>6. Running' \subseteq Running
    BY <1>3 DEF Running
  <1>7. \A i \in Running' : attempts'[i].task = attempts[i].task
    BY <1>6 DEF Running
  <1>8. \A i, j \in Running' : edits = 0 /\ attempts'[i].task # attempts'[j].task
            => ~PathsOverlap(paths[attempts'[i].task], paths[attempts'[j].task])
    BY <1>1, <1>6, <1>7 DEF RunningBuildsAreDisjoint
  <1> QED
    BY <1>2, <1>4, <1>5, <1>8, AttemptsMove

LEMMA FinishBuildKeeps ==
  ASSUME PlanInv, NEW i \in DOMAIN attempts, FinishBuild(i)
  PROVE  PlanInv'
  <1>1. PlanShape /\ attempts[i].state = "running" /\ UNCHANGED <<tree, status, claims, started>>
    BY DEF PlanInv, FinishBuild
  <1>2. PICK s \in {"succeeded", "failed"}, c \in BOOLEAN :
               attempts' = [attempts EXCEPT ![i].state = s, ![i].commits = c]
    BY DEF FinishBuild
  <1>3. attempts \in Seq(Builds) /\ attempts[i] \in Builds
    BY <1>1, AttemptFields DEF PlanShape
  <1> DEFINE done == [attempts[i] EXCEPT !.state = s, !.commits = c]
  <1>4. /\ done \in Builds /\ done.task = attempts[i].task
        /\ done.child = attempts[i].child /\ done.state = s
    BY <1>3 DEF Builds, States
  <1>5. attempts' = [attempts EXCEPT ![i] = done]
    BY <1>2
  <1> HIDE DEF done
  <1>6. attempts' \in Seq(Builds) /\ Len(attempts') = Len(attempts)
    BY <1>3, <1>4, <1>5
  <1>7. \A j \in DOMAIN attempts : attempts'[j] = IF j = i THEN done ELSE attempts[j]
    BY <1>5
  <1>8. \A j \in DOMAIN attempts :
            /\ attempts'[j].task = attempts[j].task
            /\ attempts'[j].child = attempts[j].child
            /\ attempts'[j].state = "running" => attempts[j].state = "running"
    BY <1>1, <1>4, <1>7
  <1> QED
    BY <1>1, <1>6, <1>8, BuildsSettle

LEMMA CleanUpKeeps ==
  ASSUME PlanInv, NEW i \in DOMAIN attempts, NEW merged \in BOOLEAN, CleanUp(i, merged)
  PROVE  PlanInv'
  <1> DEFINE clean(j) == IF attempts[j].child # attempts[i].child THEN attempts[j]
                         ELSE [attempts[j] EXCEPT !.removed = TRUE, !.merged = (j = i /\ merged)]
  <1>1. PlanShape /\ UNCHANGED <<tree, status, claims, started>>
    BY DEF PlanInv, CleanUp
  <1>2. attempts' = [j \in DOMAIN attempts |-> clean(j)]
    BY DEF CleanUp
  <1>3. ASSUME NEW j \in DOMAIN attempts
        PROVE  /\ clean(j) \in Builds
               /\ clean(j).task = attempts[j].task
               /\ clean(j).child = attempts[j].child
               /\ clean(j).state = attempts[j].state
    <2>1. attempts[j] \in Builds
      BY <1>1, AttemptFields
    <2>2. CASE attempts[j].child # attempts[i].child
      BY <2>1, <2>2
    <2>3. CASE attempts[j].child = attempts[i].child
      <3>1. (j = i /\ merged) \in BOOLEAN
        OBVIOUS
      <3> DEFINE v == (j = i /\ merged)
      <3>2. v \in BOOLEAN
        BY <3>1
      <3>3. clean(j) = [attempts[j] EXCEPT !.removed = TRUE, !.merged = v]
        BY <2>3
      <3> HIDE DEF v, clean
      <3> QED
        BY <2>1, <3>2, <3>3 DEF Builds
    <2> QED
      BY <2>2, <2>3
  <1> HIDE DEF clean
  <1>4. /\ Len(attempts) \in Nat /\ DOMAIN attempts = 1..Len(attempts)
    BY <1>1, ShapeParts
  <1>5. /\ attempts' \in Seq(Builds) /\ Len(attempts') = Len(attempts)
    BY <1>2, <1>3, <1>4
  <1>6. \A j \in DOMAIN attempts : attempts'[j] = clean(j)
    BY <1>2
  <1>7. \A j \in DOMAIN attempts :
            /\ attempts'[j].task = attempts[j].task
            /\ attempts'[j].child = attempts[j].child
            /\ attempts'[j].state = "running" => attempts[j].state = "running"
    BY <1>3, <1>6
  <1> QED
    BY <1>1, <1>5, <1>7, BuildsSettle

(* A build continues beside the running builds of other Tasks.             *)
LEMMA ContinueBuildKeeps ==
  ASSUME PlanInv, NEW i \in DOMAIN attempts, ContinueBuild(i)
  PROVE  PlanInv'
  <1> DEFINE a == attempts[i]
             L == Len(attempts)
             e == Attempt(a.task, a.child)
  <1>1. /\ L < MaxAttempts /\ started < PerTurn
        /\ Resumable(i)
        /\ NoRunningConflict(a.task, a.child)
        /\ attempts' = Append(attempts, e)
        /\ started' = started + 1
        /\ UNCHANGED <<tree, status, claims>>
    BY DEF ContinueBuild
  <1>2. PlanShape /\ ChildrenOK /\ RunningBuildsAreDisjoint
    BY DEF PlanInv
  <1>3. /\ L \in Nat /\ started \in 0..PerTurn /\ attempts \in Seq(Builds)
        /\ DOMAIN attempts = 1..L /\ a.task \in Ids /\ a.task \in Tasks /\ a.child \in Nat
        /\ a.child \in 1..L /\ MaxAttempts \in Nat
    BY <1>2, ShapeParts, AttemptFields, PlanAssumption DEF PlanShape, ChildrenOK
  <1>4. e \in Builds /\ e.task = a.task /\ e.child = a.child /\ e.state = "running"
    BY <1>3, AttemptIs
  <1> HIDE DEF e, L
  <1>5. /\ attempts' \in Seq(Builds) /\ Len(attempts') = L + 1
        /\ DOMAIN attempts' = 1..(L + 1)
        /\ \A j \in 1..L : attempts'[j] = attempts[j]
        /\ attempts'[L + 1] = e
    BY <1>1, <1>3, <1>4 DEF L
  <1>6. \A j \in 1..(L + 1) : j \in 1..L \/ j = L + 1
    BY <1>3
  <1>7. \A j \in DOMAIN attempts' : attempts'[j].task \in Tasks
    BY <1>2, <1>3, <1>4, <1>5, <1>6, AttemptFields
  <1>8. ChildrenOK'
    <2>1. \A j \in 1..L : attempts[j].child \in 1..(L + 1)
      BY <1>2, <1>3 DEF ChildrenOK, L
    <2>2. a.child \in 1..(L + 1)
      BY <1>3
    <2>3. \A j \in 1..L : attempts[j].child = a.child => attempts[j].task = a.task
      BY <1>2, <1>3 DEF ChildrenOK
    <2>4. \A j, k \in 1..L :
            attempts[j].child = attempts[k].child => attempts[j].task = attempts[k].task
      BY <1>2, <1>3 DEF ChildrenOK
    <2> HIDE DEF a
    <2> QED
      BY <1>4, <1>5, <1>6, <2>1, <2>2, <2>3, <2>4 DEF ChildrenOK
  <1>9. Running' = Running \cup {L + 1}
    <2>1. L + 1 \in 1..(L + 1) /\ 1..L \subseteq 1..(L + 1)
      BY <1>3
    <2> QED
      BY <1>3, <1>4, <1>5, <1>6, <2>1 DEF Running
  <1>10. \A j \in Running : j \in 1..L /\ attempts'[j] = attempts[j]
    BY <1>3, <1>5 DEF Running
  <1>11. ASSUME NEW j \in Running, attempts[j].task # a.task
         PROVE  ~PathsOverlap(paths[a.task], paths[attempts[j].task])
    <2>1. attempts[j].child # a.child
      BY <1>2, <1>11 DEF ChildrenOK, Running
    <2> QED
      BY <1>1, <1>11, <2>1 DEF NoRunningConflict
  <1>12. \A j, k \in Running' : edits = 0 /\ attempts'[j].task # attempts'[k].task
            => ~PathsOverlap(paths[attempts'[j].task], paths[attempts'[k].task])
    <2> HIDE DEF a
    <2> SUFFICES ASSUME NEW j \in Running', NEW k \in Running', edits = 0,
                        attempts'[j].task # attempts'[k].task
                 PROVE  ~PathsOverlap(paths[attempts'[j].task], paths[attempts'[k].task])
      OBVIOUS
    <2>1. CASE j \in Running /\ k \in Running
      BY <1>2, <1>10, <2>1 DEF RunningBuildsAreDisjoint
    <2>2. CASE j = L + 1 /\ k \in Running
      BY <1>4, <1>5, <1>10, <1>11, <2>2
    <2>3. CASE j \in Running /\ k = L + 1
      BY <1>4, <1>5, <1>10, <1>11, <2>3, OverlapIsSymmetric
    <2> QED
      BY <1>9, <2>1, <2>2, <2>3
  <1>13. started' \in 0..PerTurn /\ Len(attempts') <= MaxAttempts
    BY <1>1, <1>3, <1>5, PlanBounds
  <1> QED
    BY <1>1, <1>5, <1>7, <1>8, <1>12, <1>13, AttemptsMove

LEMMA JoinedIs ==
  ASSUME NEW S, NEW s \in Seq(S), NEW r \in Seq(S)
  PROVE  /\ s \o r \in Seq(S) /\ Len(s \o r) = Len(s) + Len(r)
         /\ DOMAIN (s \o r) = 1..(Len(s) + Len(r))
         /\ \A j \in 1..Len(s) : (s \o r)[j] = s[j]
         /\ \A k \in 1..Len(r) : (s \o r)[Len(s) + k] = r[k]
  <1>1. Len(s) \in Nat /\ Len(r) \in Nat
    OBVIOUS
  <1>2. /\ s \o r \in Seq(S) /\ Len(s \o r) = Len(s) + Len(r)
        /\ DOMAIN (s \o r) = 1..(Len(s) + Len(r))
    OBVIOUS
  <1>3. \A j \in 1..Len(s) : (s \o r)[j] = s[j]
    OBVIOUS
  <1>4. \A k \in 1..Len(r) : (s \o r)[Len(s) + k] = r[k]
    BY <1>1
  <1> QED
    BY <1>2, <1>3, <1>4

(* The Tasks of a call are built beside each other and beside the others.  *)
LEMMA AdmitBuildsKeeps ==
  ASSUME PlanInv, NEW batch \in Calls, AdmitBuilds(batch)
  PROVE  PlanInv'
  <1> DEFINE L == Len(attempts)
             K == Len(batch)
             e(k) == Attempt(batch[k], L + k)
             new == [k \in DOMAIN batch |-> e(k)]
  <1>1. /\ L + K <= MaxAttempts /\ Admissible(batch)
        /\ attempts' = attempts \o new
        /\ started' = started + K
        /\ UNCHANGED <<tree, status, claims>>
    BY DEF AdmitBuilds
  <1>2. PlanShape /\ ChildrenOK /\ RunningBuildsAreDisjoint
    BY DEF PlanInv
  <1>3. /\ L \in Nat /\ started \in 0..PerTurn /\ attempts \in Seq(Builds)
        /\ DOMAIN attempts = 1..L /\ Tasks \subseteq Ids
    BY <1>2, ShapeParts DEF PlanShape
  <1>4. /\ K \in Nat /\ DOMAIN batch = 1..K
        /\ \A k \in 1..K : batch[k] \in Tasks
    <2>1. PICK k0 \in 1..MaxBatch : batch \in [1..k0 -> Tasks]
      BY DEF Calls
    <2>2. batch \in Seq(Tasks) /\ Len(batch) = k0 /\ k0 \in Nat
      BY <2>1, PlanBounds
    <2> QED
      BY <2>1, <2>2
  <1> HIDE DEF L, K
  <1>5. ASSUME NEW k \in 1..K
        PROVE  /\ e(k) \in Builds /\ e(k).task = batch[k]
               /\ e(k).child = L + k /\ e(k).state = "running"
    <2>1. batch[k] \in Ids /\ L + k \in Nat
      BY <1>3, <1>4
    <2> QED
      BY <2>1, AttemptIs
  <1> HIDE DEF e
  <1>6. new \in Seq(Builds) /\ Len(new) = K /\ \A k \in 1..K : new[k] = e(k)
    BY <1>4, <1>5
  <1> HIDE DEF new
  <1>7. /\ attempts' \in Seq(Builds) /\ Len(attempts') = L + K
        /\ DOMAIN attempts' = 1..(L + K)
        /\ \A j \in 1..L : attempts'[j] = attempts[j]
        /\ \A k \in 1..K : attempts'[L + k] = e(k)
    <2>1. /\ attempts \o new \in Seq(Builds) /\ Len(attempts \o new) = L + K
          /\ DOMAIN (attempts \o new) = 1..(L + K)
          /\ \A j \in 1..L : (attempts \o new)[j] = attempts[j]
          /\ \A k \in 1..K : (attempts \o new)[L + k] = new[k]
      <3>1. new \in Seq(Builds) /\ attempts \in Seq(Builds) /\ Len(new) = K
        BY <1>3, <1>6
      <3>2. /\ attempts \o new \in Seq(Builds)
            /\ Len(attempts \o new) = Len(attempts) + Len(new)
            /\ DOMAIN (attempts \o new) = 1..(Len(attempts) + Len(new))
            /\ \A j \in 1..Len(attempts) : (attempts \o new)[j] = attempts[j]
            /\ \A k \in 1..Len(new) : (attempts \o new)[Len(attempts) + k] = new[k]
        <4>1. /\ attempts \o new \in Seq(Builds)
              /\ Len(attempts \o new) = Len(attempts) + Len(new)
          BY <3>1, JoinedIs
        <4>2. DOMAIN (attempts \o new) = 1..(Len(attempts) + Len(new))
          BY <3>1, JoinedIs
        <4>3. \A j \in 1..Len(attempts) : (attempts \o new)[j] = attempts[j]
          BY <3>1, JoinedIs
        <4>4. \A k \in 1..Len(new) : (attempts \o new)[Len(attempts) + k] = new[k]
          BY <3>1, JoinedIs
        <4> QED
          BY <4>1, <4>2, <4>3, <4>4
      <3>3. L = Len(attempts)
        BY DEF L
      <3> QED
        BY <3>1, <3>2, <3>3
    <2>2. attempts' = attempts \o new
      BY <1>1
    <2>3. \A k \in 1..K : (attempts \o new)[L + k] = e(k)
      BY <1>6, <2>1
    <2> QED
      BY <2>1, <2>2, <2>3, Zenon
  <1>8. \A j \in 1..(L + K) : j \in 1..L \/ (j - L \in 1..K /\ j = L + (j - L))
    BY <1>3, <1>4
  <1>9. \A j \in 1..(L + K) : \/ j \in 1..L /\ attempts'[j] = attempts[j]
                              \/ \E k \in 1..K : j = L + k /\ attempts'[j] = e(k)
    BY <1>7, <1>8
  <1>10. \A j \in DOMAIN attempts' : attempts'[j].task \in Tasks
    BY <1>2, <1>3, <1>4, <1>5, <1>7, <1>9, AttemptFields
  <1>11. ChildrenOK'
    <2>1. \A j \in 1..L : attempts[j].child \in 1..L
      BY <1>2, <1>3 DEF ChildrenOK, L
    <2>2. \A j \in 1..L : \A k \in 1..K : attempts[j].child # L + k
      BY <1>3, <1>4, <2>1
    <2>3. \A j \in DOMAIN attempts' : attempts'[j].child \in 1..(L + K)
      <3>1. \A j \in 1..L : attempts[j].child \in 1..(L + K)
        BY <1>3, <1>4, <2>1
      <3>2. \A k \in 1..K : L + k \in 1..(L + K)
        BY <1>3, <1>4
      <3> QED
        BY <1>5, <1>7, <1>9, <3>1, <3>2
    <2>4. ASSUME NEW i \in DOMAIN attempts', NEW j \in DOMAIN attempts',
                 attempts'[i].child = attempts'[j].child
          PROVE  attempts'[i].task = attempts'[j].task
      <3>1. CASE i \in 1..L /\ j \in 1..L
        BY <1>2, <1>3, <1>7, <2>4, <3>1 DEF ChildrenOK
      <3>2. CASE i \in 1..L /\ \E k \in 1..K : j = L + k
        BY <1>5, <1>7, <2>2, <2>4, <3>2
      <3>3. CASE j \in 1..L /\ \E k \in 1..K : i = L + k
        BY <1>5, <1>7, <2>2, <2>4, <3>3
      <3>4. ASSUME NEW k \in 1..K, NEW m \in 1..K, i = L + k, j = L + m
            PROVE  attempts'[i].task = attempts'[j].task
        <4>1. L + k = L + m
          BY <1>5, <1>7, <2>4, <3>4
        <4> QED
          BY <3>4, <4>1
      <3> QED
        BY <1>7, <1>9, <3>1, <3>2, <3>3, <3>4
    <2> QED
      BY <1>7, <2>3, <2>4 DEF ChildrenOK
  <1>12. ASSUME NEW k \in 1..K
         PROVE  /\ \A i \in Running : attempts[i].task # batch[k]
                     => ~PathsOverlap(paths[batch[k]], paths[attempts[i].task])
                /\ \A j \in 1..(k - 1) : ~PathsOverlap(paths[batch[k]], paths[batch[j]])
    <2>1. Orchestrated(batch, k)
      BY <1>1, <1>4 DEF Admissible
    <2>2. \A i \in Running : attempts[i].child # 0
      <3>1. \A i \in Running : attempts[i].child \in 1..L
        BY <1>2 DEF ChildrenOK, Running, L
      <3> QED
        BY <1>3, <3>1
    <2> QED
      BY <2>1, <2>2 DEF Orchestrated, NoRunningConflict
  <1>13. ASSUME NEW k \in 1..K, NEW m \in 1..K, batch[k] # batch[m]
         PROVE  ~PathsOverlap(paths[batch[k]], paths[batch[m]])
    <2>1. k \in 1..(m - 1) \/ m \in 1..(k - 1)
      <3>1. k # m /\ k \in Nat /\ m \in Nat
        BY <1>4, <1>13
      <3> QED
        BY <1>4, <3>1
    <2> QED
      BY <1>12, <2>1, OverlapIsSymmetric
  <1>14. \A i, j \in Running' : edits = 0 /\ attempts'[i].task # attempts'[j].task
            => ~PathsOverlap(paths[attempts'[i].task], paths[attempts'[j].task])
    <2> SUFFICES ASSUME NEW i \in Running', NEW j \in Running', edits = 0,
                        attempts'[i].task # attempts'[j].task
                 PROVE  ~PathsOverlap(paths[attempts'[i].task], paths[attempts'[j].task])
      OBVIOUS
    <2>1. \A k \in Running' : \/ k \in Running /\ attempts'[k] = attempts[k]
                              \/ \E m \in 1..K : attempts'[k] = e(m)
      BY <1>3, <1>7, <1>9 DEF Running
    <2>2. CASE i \in Running /\ attempts'[i] = attempts[i]
      <3>1. CASE j \in Running /\ attempts'[j] = attempts[j]
        BY <1>2, <2>2, <3>1 DEF RunningBuildsAreDisjoint
      <3>2. CASE \E m \in 1..K : attempts'[j] = e(m)
        BY <1>5, <1>12, <2>2, <3>2, OverlapIsSymmetric
      <3> QED
        BY <2>1, <3>1, <3>2
    <2>3. CASE \E m \in 1..K : attempts'[i] = e(m)
      <3>1. CASE j \in Running /\ attempts'[j] = attempts[j]
        BY <1>5, <1>12, <2>3, <3>1
      <3>2. CASE \E m \in 1..K : attempts'[j] = e(m)
        BY <1>5, <1>13, <2>3, <3>2
      <3> QED
        BY <2>1, <3>1, <3>2
    <2> QED
      BY <2>1, <2>2, <2>3
  <1>15. started' \in 0..PerTurn
    BY <1>1, <1>3, <1>4, PlanBounds DEF Admissible, K
  <1>16. Len(attempts') <= MaxAttempts
    BY <1>1, <1>7
  <1> QED
    BY <1>1, <1>7, <1>10, <1>11, <1>14, <1>15, <1>16, AttemptsMove

LEMMA PlanStepKeeps == PlanInv /\ [PlanNext]_planVars => PlanInv'
  <1> SUFFICES ASSUME PlanInv, [PlanNext]_planVars
               PROVE  PlanInv'
    OBVIOUS
  <1>1. CASE UNCHANGED planVars
    <2>1. /\ UNCHANGED <<tree, attempts>> /\ status' = status
          /\ claims' = claims /\ started' = started
      BY <1>1 DEF planVars, tree
    <2>2. PlanShape
      BY DEF PlanInv
    <2>3. /\ status' \in [Ids -> Statuses] /\ started' \in 0..PerTurn
          /\ claims' \subseteq {t \in Tasks : status'[t] \in Active}
      BY <2>1, <2>2, ShapeParts DEF Unended
    <2> QED
      BY <2>1, <2>3, StatusMoves
  <1>2. ASSUME NEW p \in Tasks, NEW D \in SUBSET Tasks, NEW P \in PathChoices,
               CreateTask(p, D, P)
        PROVE  PlanInv'
    BY <1>2, CreateTaskKeeps
  <1>3. ASSUME NEW t \in Tasks, NEW D \in SUBSET Tasks, UpdateDependencies(t, D)
        PROVE  PlanInv'
    BY <1>3, UpdateDependenciesKeeps
  <1>4. ASSUME NEW t \in Tasks, NEW P \in PathChoices, UpdatePaths(t, P)
        PROVE  PlanInv'
    BY <1>4, UpdatePathsKeeps
  <1>5. ASSUME NEW t \in Tasks, NEW s \in Reported, SetStatus(t, s)
        PROVE  PlanInv'
    BY <1>5, SetStatusKeeps
  <1>6. ASSUME NEW t \in Tasks, ToggleClaim(t)
        PROVE  PlanInv'
    BY <1>6, ToggleClaimKeeps
  <1>7. ASSUME NEW batch \in Calls, AdmitBuilds(batch)
        PROVE  PlanInv'
    BY <1>7, AdmitBuildsKeeps
  <1>8. ASSUME NEW i \in DOMAIN attempts, ContinueBuild(i)
        PROVE  PlanInv'
    BY <1>8, ContinueBuildKeeps
  <1>9. ASSUME NEW i \in DOMAIN attempts, FinishBuild(i)
        PROVE  PlanInv'
    BY <1>9, FinishBuildKeeps
  <1>10. ASSUME NEW i \in DOMAIN attempts, NEW merged \in BOOLEAN, CleanUp(i, merged)
         PROVE  PlanInv'
    BY <1>10, CleanUpKeeps
  <1>11. CASE NewTurn
    BY <1>11, NewTurnKeeps
  <1> QED
    BY <1>1, <1>2, <1>3, <1>4, <1>5, <1>6, <1>7, <1>8, <1>9, <1>10, <1>11 DEF PlanNext

(* The invariant of the plan: the rows are well formed, the attempts of    *)
(* one child build one Task, what runs at once is disjoint, and no Tasks   *)
(* wait for one another, whatever the tree's Tasks, parents, lists of      *)
(* dependencies and their changes (checkTaskDependencies).                 *)
THEOREM PlanInvariance == PlanSpec => []PlanInv
  <1>1. PlanInit => PlanInv
    BY PlanInitially
  <1>2. PlanInv /\ [PlanNext]_planVars => PlanInv'
    BY PlanStepKeeps
  <1> QED
    BY <1>1, <1>2, PTL DEF PlanSpec

(* What todo_ready offers, its batches by first fit in tree order, passes  *)
(* the admission rules of delegate_build, and builds that run at once      *)
(* touch disjoint paths while no plan is edited.                           *)
THEOREM BuildsStayAdmissible == PlanSpec => []BuildsAreAdmissible
  <1>1. PlanInv => BuildsAreAdmissible
    <2>1. PlanInv => PlanShape /\ RunningBuildsAreDisjoint
      BY DEF PlanInv
    <2>2. PlanShape => PlanTypeOK
      BY DEF PlanShape
    <2>3. PlanShape => BatchesAreAdmissible
      BY WhatIsOfferedIsAdmitted
    <2> QED
      BY <2>1, <2>2, <2>3 DEF BuildsAreAdmissible
  <1> QED
    BY <1>1, PlanInvariance, PTL

(* Where nothing is in flight, claimed, blocked or cancelled, a Task that  *)
(* is neither ready nor completable waits for one that has not ended.      *)
LEMMA WhoIsStuckWaits ==
  ASSUME PlanInv, \A t \in Tasks : ~Pending(t) /\ status[t] # "blocked",
         claims = {},
         \A t \in Tasks, u \in Tasks : u \in deps[t] => status[u] # "cancelled",
         NEW t \in Tasks, Unended(t), ~Ready(t), t \notin Completable
  PROVE  \E u \in Waits(size, parent, deps, t) : Unended(u)
  <1>1. PlanShape
    BY DEF PlanInv
  <1>2. /\ parent \in Trees /\ status \in [Ids -> Statuses] /\ Tasks \subseteq Ids
        /\ \A x \in Ids : deps[x] \subseteq Tasks
    BY <1>1, ShapeParts
  <1>3. Ancestors(t) \subseteq Tasks /\ Ancestors(t) = AncestorSet(parent, t)
    BY <1>1, AncestorsOf
  <1>4. ~Pending(t) /\ ~Covered(t)
    BY <1>3 DEF Covered, Pending
  <1>5. CASE Children(t) # {}
    <2>1. PICK u \in Children(t) : Unended(u) \/ Pending(u)
      BY <1>4, <1>5 DEF Completable
    <2>2. u \in Tasks /\ parent[u] = t
      BY DEF Children
    <2> QED
      BY <2>1, <2>2 DEF Waits, Tasks
  <1>6. CASE Children(t) = {}
    <2>1. Phase(t) # "merged"
      BY <1>4, <1>6 DEF Completable
    <2>2. ~Occupied(t)
      BY DEF Occupied
    <2>3. PICK u \in EffectiveDependencies(t) : ~DependencyDone(u)
      BY <1>4, <1>6, <2>1, <2>2 DEF Ready, UnfinishedDependencies
    <2>4. PICK a \in {t} \cup Ancestors(t) : u \in deps[a]
      BY DEF EffectiveDependencies
    <2>5. a \in Tasks /\ u \in Tasks
      BY <1>2, <1>3, <2>4
    <2>6. status[u] \in {"open", "blocked"}
      BY <1>2, <2>3, <2>4, <2>5 DEF DependencyDone, Statuses
    <2>7. u \in Waits(size, parent, deps, t)
      BY <1>3, <2>4, <2>5 DEF Waits, Tasks
    <2> QED
      BY <2>6, <2>7 DEF Unended, Active
  <1> QED
    BY <1>5, <1>6

(* A plan never gets stuck: while a Task has not ended and nothing is in   *)
(* flight, claimed, blocked or cancelled, todo_ready names a Task to       *)
(* dispatch or to complete.                                                *)
THEOREM ThePlanGoesOn == PlanSpec => []PlanCanGoOn
  <1>1. PlanInv => PlanCanGoOn
    <2> SUFFICES ASSUME PlanInv, \E t \in Tasks : Unended(t),
                        \A t \in Tasks : ~Pending(t) /\ status[t] # "blocked",
                        claims = {},
                        \A t \in Tasks, u \in Tasks :
                           u \in deps[t] => status[u] # "cancelled",
                        Candidates = <<>>, Completable = {}
                 PROVE  FALSE
      BY DEF PlanCanGoOn
    <2>1. PlanShape /\ ~DependencyCycle(size, parent, deps)
      BY DEF PlanInv, NobodyWaitsInACircle
    <2>2. parent \in Trees /\ size \in Ids
      BY <2>1, ShapeParts
    <2>3. ReadyTasks = {}
      BY <2>2, CandidatesAre
    <2> DEFINE S == {t \in Tasks : Unended(t)}
    <2>4. S \in (SUBSET (1..size)) \ {{}}
      BY DEF Tasks
    <2>5. ASSUME NEW t \in S
          PROVE  Waits(size, parent, deps, t) \cap S # {}
      <3>1. t \in Tasks /\ Unended(t) /\ ~Ready(t) /\ t \notin Completable
        BY <2>3 DEF ReadyTasks
      <3>2. PICK u \in Waits(size, parent, deps, t) : Unended(u)
        BY <3>1, WhoIsStuckWaits
      <3>3. u \in Tasks
        BY DEF Waits, Tasks
      <3> QED
        BY <3>2, <3>3
    <2> HIDE DEF S
    <2>6. DependencyCycle(size, parent, deps)
      BY <2>4, <2>5, CycleIs
    <2> QED
      BY <2>1, <2>6
  <1> QED
    BY <1>1, PlanInvariance, PTL

=============================================================================
