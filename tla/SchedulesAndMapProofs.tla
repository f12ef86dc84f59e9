----------------------- MODULE SchedulesAndMapProofs ------------------------
(***************************************************************************)
(* The proofs about WorkflowSchedules and WorkflowMap.  Every slot gets    *)
(* the one decision the owner was told of, and no run starts under a       *)
(* version, an activation or a Workspace that is no longer there: for any  *)
(* timetable, any number of processes and any sequence of controls,        *)
(* approvals and failures.  A map step's items are accounted for within    *)
(* the run's limits, and none runs in vain: for any declared step.         *)
(***************************************************************************)
EXTENDS WorkflowSchedules, WorkflowMap, FiniteSetTheorems, WellFoundedInduction, TLAPS

(* Places of a tick that decided what to do, and of one that read it all.  *)
Acting == {"skip", "start", "fail", "yield"}
Reading == {"control", "slot"} \cup Acting

Ticks == [pc : {"idle", "list", "control", "slot", "skip", "start", "fail", "yield"},
          at : 0..MaxTime, version : 0..MaxVersion,
          status : {"inactive", "paused", "blocked", "active"},
          cursor : Cursors, todo : SUBSET Slots, yield : 0..YieldTicks]

Due(t) == Window(t.cursor, t.at)

(* Nothing that was read or decided is later than the clock.               *)
ClocksOK ==
  /\ approvedAt <= now /\ controlAt <= now
  /\ \A s \in Slots : outcome[s] # "none" \/ s \in missed => DueAt[s] <= now
  /\ archived => archives >= 1

(* No slot starts before it is decided.                                    *)
StartsOK == \A s \in Slots : starts[s] <= 1 /\ (outcome[s] = "none" => starts[s] = 0)

(* Only the holder of a runner lease in force is in a tick.                *)
Exclusive(h, t) == late = 0 /\ t.pc # "idle" => runner = h /\ runnerLeft >= 1

(* What a tick has to do is in its window.                                 *)
TickOK(t) ==
  /\ t.at <= now /\ t.cursor.at <= now
  /\ t.pc \in {"control", "slot"} => t.cursor.key = NoSlot
  /\ t.pc \in Acting => t.status \in {"active", "blocked"} /\ t.todo \subseteq Due(t)
  /\ t.pc \in {"start", "fail", "yield"} => t.todo # {}
  /\ t.pc = "skip" => t.todo = ToStart(t.status, Due(t), t.at)

(* A tick that read an older version began before the present one; one     *)
(* that read the present one has its approval.                             *)
VersionOK(t) ==
  /\ t.pc \in Reading => t.version <= version /\ (t.version # version => t.at <= approvedAt)
  /\ t.pc = "control" /\ t.version = version => t.cursor.at = approvedAt

(* The cursor of a tick starts no later than that of the latest version,   *)
(* or follows a decided slot.                                              *)
CursorOK(t) ==
  t.pc \in Reading =>
    /\ t.cursor.key = NoSlot /\ t.version = version /\ control # "pause" =>
         t.cursor.at <= Horizon
    /\ t.cursor.key # NoSlot => t.cursor.key \in Decided /\ t.cursor.at = DueAt[t.cursor.key]

(* What came due during a pause is behind the cursor of every tick that    *)
(* read the version's control.                                             *)
BehindOK(t) ==
  /\ t.pc \in Reading \ {"control"} /\ t.version = version
  /\ t.status \notin {"inactive", "paused"}
  => \A s \in missed : DueAt[s] <= t.at => ~Follows(t.cursor, s)

(* What a tick has left to decide is ahead of everything decided.          *)
AheadOK(t) ==
  late = 0 =>
    /\ t.pc = "skip" => \A d \in Decided, s \in Due(t) : d < s
    /\ t.pc \in {"start", "fail"} => \A d \in Decided, s \in t.todo : d < s

(* Of its window, the rest is decided, reported, or was refused.           *)
AccountedOK(t) ==
  late = 0 /\ archives < 2 =>
    /\ t.pc = "start" =>
         \A s \in Due(t) : \/ s \in t.todo \/ outcome[s] # "none" \/ s \in passedOver
                           \/ version # t.version \/ ~active \/ archived
    /\ t.pc = "fail" =>
         \A s \in Due(t) : \/ s \in t.todo \/ outcome[s] # "none" \/ s \in passedOver
                           \/ version # t.version

Fine(t) == TickOK(t) /\ VersionOK(t) /\ CursorOK(t) /\ BehindOK(t) /\ AheadOK(t) /\ AccountedOK(t)

(* What came due during a pause is behind the cursor of the version and    *)
(* never started.                                                          *)
MissedOK ==
  \A s \in missed : /\ outcome[s] \notin {"started", "existing"}
                    /\ control = "pause" \/ DueAt[s] <= Horizon

(* A reported slot is at or before a decided one.                          *)
PassedOK ==
  late = 0 => \A s \in passedOver : /\ outcome[s] \notin {"started", "existing"}
                                    /\ \E d \in Decided : s <= d

(* The inductive invariant.                                                *)
IInv ==
  /\ TypeOK /\ incapable \subseteq Holders
  /\ ClocksOK /\ StartsOK /\ MissedOK /\ PassedOK /\ NoSlotLost
  /\ \A h \in Holders : Exclusive(h, ticker[h]) /\ Fine(ticker[h])

-----------------------------------------------------------------------------
(* Slots are numbers, in the order they come due.                          *)

LEMMA SlotsAre ==
  /\ \E n \in Nat : Slots = 1 .. n
  /\ \A s \in Slots : s \in Nat /\ s >= 1 /\ DueAt[s] \in Nat
  /\ \A s, u \in Slots : s <= u => DueAt[s] <= DueAt[u]
<1>1. DueAt \in Seq(Nat) /\ \A s, u \in Slots : s < u => DueAt[s] <= DueAt[u]
  BY ScheduleAssumption
<1>2. Slots = 1 .. Len(DueAt) /\ Len(DueAt) \in Nat
  BY <1>1 DEF Slots
<1>3. \A s \in Slots : s \in Nat /\ s >= 1 /\ DueAt[s] \in Nat
  BY <1>1, <1>2
<1>4. \A s, u \in Slots : s = u \/ s < u \/ u < s
  BY <1>3
<1>5. \A s, u \in Slots : s <= u => DueAt[s] <= DueAt[u]
  BY <1>1, <1>3, <1>4
<1> QED
  BY <1>2, <1>3, <1>5

LEMMA LessIsWellFounded ==
  \E R : IsWellFoundedOn(R, Nat) /\ \A x, y \in Nat : x < y => <<x, y>> \in R
<1>1. \A x, y \in Nat : x < y => <<x, y>> \in OpToRel(<, Nat)
  BY DEF OpToRel
<1> QED
  BY <1>1, NatLessThanWellFounded

LEMMA LeastNat ==
  ASSUME NEW S, S \subseteq Nat, S # {}
  PROVE  \E m \in S : \A k \in S : m <= k
<1>1. PICK R : IsWellFoundedOn(R, Nat) /\ \A x, y \in Nat : x < y => <<x, y>> \in R
  BY LessIsWellFounded
<1>2. IsWellFoundedOn(R, Nat)
  BY <1>1
<1>3. \E x \in S : \A y \in S : ~ (<<y, x>> \in R)
  BY <1>2, WFMin, ZenonT(60)
<1>4. PICK x \in S : \A y \in S : ~ (<<y, x>> \in R)
  BY <1>3
<1>5. ASSUME NEW y \in S PROVE x <= y
  <2>1. x \in Nat /\ y \in Nat /\ ~(<<y, x>> \in R)
    BY <1>4
  <2>2. ~(y < x)
    BY <1>1, <2>1, Zenon
  <2> QED
    BY <2>1, <2>2
<1> QED
  BY <1>5

LEMMA MinIs ==
  ASSUME NEW S, S \subseteq Slots, S # {}
  PROVE  Min(S) \in S /\ \A x \in S : Min(S) <= x
<1>1. S \subseteq Nat
  BY SlotsAre
<1>2. PICK m \in S : \A k \in S : m <= k
  BY <1>1, LeastNat
<1>3. \A y \in S : (\A x \in S : y <= x) => y = m
  BY <1>1, <1>2
<1>4. Min(S) = m
  BY <1>2, <1>3 DEF Min
<1> QED
  BY <1>2, <1>4

LEMMA MaxIs ==
  ASSUME NEW S, S \subseteq Slots, S # {}
  PROVE  Max(S) \in S /\ \A x \in S : x <= Max(S)
<1>1. PICK n \in Nat : Slots = 1 .. n
  BY SlotsAre
<1> DEFINE D == {n - x : x \in S}
<1>2. D \subseteq Nat /\ D # {}
  BY <1>1
<1> HIDE DEF D
<1>3. PICK d \in D : \A k \in D : d <= k
  BY <1>2, LeastNat
<1>4. PICK m \in S : d = n - m
  BY DEF D
<1>5. S \subseteq Nat
  BY <1>1
<1>6. ASSUME NEW x \in S PROVE x <= m
  <2>1. n - x \in D
    BY DEF D
  <2>2. n - m <= n - x /\ x \in Nat /\ m \in Nat
    BY <1>3, <1>4, <1>5, <2>1
  <2> QED
    BY <2>2
<1>7. \A y \in S : (\A x \in S : y >= x) => y = m
  BY <1>5, <1>6
<1>8. Max(S) = m
  BY <1>5, <1>6, <1>7 DEF Max
<1> QED
  BY <1>6, <1>8

LEMMA MinOfTwo ==
  ASSUME NEW a \in Nat, NEW b \in Nat
  PROVE  Min({a, b}) = IF a <= b THEN a ELSE b
<1>1. PICK m : m = IF a <= b THEN a ELSE b
  OBVIOUS
<1>2. m \in {a, b} /\ \A x \in {a, b} : m <= x
  BY <1>1
<1>3. \A y \in {a, b} : (\A x \in {a, b} : y <= x) => y = m
  BY <1>1
<1> QED
  BY <1>1, <1>2, <1>3 DEF Min

LEMMA MaxOfTwo ==
  ASSUME NEW a \in Nat, NEW b \in Nat, b <= a
  PROVE  Max({a, b}) = a
<1>1. a \in {a, b} /\ \A x \in {a, b} : a >= x
  OBVIOUS
<1>2. \A y \in {a, b} : (\A x \in {a, b} : y >= x) => y = a
  OBVIOUS
<1> QED
  BY <1>1, <1>2 DEF Max

LEMMA SlotSetsAreFinite ==
  ASSUME NEW S, S \subseteq Slots
  PROVE  IsFiniteSet(S) /\ Cardinality(S) \in Nat
<1>1. PICK n \in Nat : Slots = 1 .. n
  BY SlotsAre
<1>2. IsFiniteSet(1 .. n)
  BY <1>1, FS_Interval
<1>3. IsFiniteSet(S)
  BY <1>1, <1>2, FS_Subset
<1> QED
  BY <1>3, FS_CardinalityType

-----------------------------------------------------------------------------
(* A tick reports the slots it skips by the latest of them.                *)

(* Slots that are not among the latest n have n slots after them.          *)
LEMMA NotLatest ==
  ASSUME NEW W, W \subseteq Slots, NEW n \in Nat, Latest(W, n) # W
  PROVE  \E L : L \subseteq Latest(W, n) /\ Cardinality(L) >= n /\ IsFiniteSet(L)
<1> DEFINE R == W \ Latest(W, n)
<1>1. R \subseteq Slots /\ R # {}
  BY DEF Latest
<1>2. PICK s \in R : \A x \in R : x <= s
  <2> HIDE DEF R
  <2> QED
    BY <1>1, MaxIs
<1> DEFINE L == {u \in W : u > s}
<1>3. L \subseteq Latest(W, n)
  <2>1. ASSUME NEW u \in L PROVE u \in Latest(W, n)
    <3>1. u \in W /\ u > s /\ u \in Nat /\ s \in Nat
      BY <1>1, <1>2, SlotsAre
    <3>2. u \notin R
      BY <1>2, <3>1
    <3> QED
      BY <3>1, <3>2
  <2> QED
    BY <2>1
<1>4. L \subseteq Slots
  OBVIOUS
<1>5. IsFiniteSet(L) /\ Cardinality(L) \in Nat
  BY <1>4, SlotSetsAreFinite
<1>6. ~(Cardinality(L) < n)
  BY <1>2 DEF Latest
<1> QED
  BY <1>3, <1>5, <1>6

(* The later slots of a set are among its latest.                          *)
LEMMA LatestIsUpper ==
  ASSUME NEW W, W \subseteq Slots, NEW n \in Nat, NEW s \in Latest(W, n), NEW u \in W, s <= u
  PROVE  u \in Latest(W, n)
<1> DEFINE A == {v \in W : v > s}
           B == {v \in W : v > u}
<1>0. s \in W /\ s \in Nat /\ u \in Nat /\ \A v \in W : v \in Nat
  BY SlotsAre DEF Latest
<1>1. B \subseteq A
  <2>1. ASSUME NEW v \in W, v > u PROVE v > s
    BY <1>0, <2>1
  <2> QED
    BY <2>1
<1>2. IsFiniteSet(A) /\ Cardinality(A) \in Nat /\ IsFiniteSet(B) /\ Cardinality(B) \in Nat
  <2>1. A \subseteq Slots /\ B \subseteq Slots
    OBVIOUS
  <2> HIDE DEF A, B
  <2> QED
    BY <2>1, SlotSetsAreFinite
<1>3. Cardinality(B) <= Cardinality(A)
  BY <1>1, <1>2, FS_Subset
<1>4. Cardinality(A) < n
  BY DEF Latest
<1>5. Cardinality(B) < n
  BY <1>2, <1>3, <1>4
<1> QED
  BY <1>5 DEF Latest

LEMMA StartsAreLatest ==
  ASSUME NEW status, NEW W, W \subseteq Slots, NEW t \in Nat, policy \in Policies,
         NEW S, S = ToStart(status, W, t)
  PROVE  /\ S \subseteq Latest(W, ScheduleKeep) /\ S \subseteq W
         /\ \A s \in S, u \in Latest(W, ScheduleKeep) \ S : u < s
<1> DEFINE L == Latest(W, ScheduleKeep)
<1>1. L \subseteq W /\ L \subseteq Slots
  BY DEF Latest
<1>2. \A s \in L : s \in Slots /\ s \in Nat /\ DueAt[s] \in Nat
  BY <1>1, SlotsAre
<1> HIDE DEF L
<1>3. CASE status = "blocked"
  BY <1>3 DEF ToStart
<1>4. CASE status # "blocked" /\ policy = "each_missed"
  <2>1. PICK n \in Nat : n = Max({MaxRuns, 1})
    <3>1. MaxRuns \in Nat /\ 1 <= MaxRuns
      BY ScheduleAssumption
    <3> QED
      BY <3>1, MaxOfTwo
  <2>2. S = Latest(L, n)
    BY <1>4, <2>1 DEF ToStart, L
  <2>3. S \subseteq L
    BY <2>2 DEF Latest
  <2>4. ASSUME NEW s \in S, NEW u \in L \ S, s <= u PROVE FALSE
    BY <1>1, <2>2, <2>4, LatestIsUpper
  <2>5. \A s \in S, u \in L \ S : u < s
    BY <1>2, <2>3, <2>4
  <2> QED
    BY <1>1, <2>3, <2>5 DEF L
<1>5. CASE status # "blocked" /\ policy # "each_missed"
  <2>1. S = {s \in L : t - DueAt[s] <= Grace}
    BY <1>5 DEF ToStart, L
  <2>2. Grace \in Nat
    BY ScheduleAssumption
  <2>3. ASSUME NEW s \in S, NEW u \in L \ S, s <= u PROVE FALSE
    <3>1. s \in Slots /\ u \in Slots /\ DueAt[s] \in Nat /\ DueAt[u] \in Nat
      BY <1>2, <2>1
    <3>2. DueAt[s] <= DueAt[u]
      BY <2>3, <3>1, SlotsAre
    <3>3. t - DueAt[s] <= Grace /\ ~(t - DueAt[u] <= Grace)
      BY <2>1
    <3> QED
      BY <2>2, <3>1, <3>2, <3>3
  <2>4. \A s \in S, u \in L \ S : u < s
    BY <1>2, <2>1, <2>3
  <2> QED
    BY <1>1, <2>1, <2>4 DEF L
<1> QED
  BY <1>3, <1>4, <1>5

(* Whatever is skipped, one of the slots looked at is, and the latest of   *)
(* those is later than the rest.                                           *)
LEMMA SkipsAreLookedAt ==
  ASSUME NEW status, NEW W, W \subseteq Slots, NEW t \in 0 .. MaxTime, policy \in Policies,
         \A s \in W : DueAt[s] <= t,
         NEW S, S = ToStart(status, W, t), W \ S # {}
  PROVE  Latest(W, ScheduleKeep) \ S # {}
<1> DEFINE L == Latest(W, ScheduleKeep)
<1>0. /\ ScheduleKeep \in Nat /\ MaxRuns \in Nat \ {0} /\ ScheduleKeep > MaxRuns /\ Grace \in Nat
      /\ MaxTime \in Nat
  BY ScheduleAssumption
<1>1. S \subseteq L /\ S \subseteq W /\ \A s \in S, u \in L \ S : u < s
  BY <1>0, StartsAreLatest
<1>2. SUFFICES ASSUME S = L PROVE FALSE
  BY <1>1
<1>3. L # W
  BY <1>2
<1>4. PICK M : M \subseteq L /\ Cardinality(M) >= ScheduleKeep /\ IsFiniteSet(M)
  BY <1>0, <1>3, NotLatest
<1>5. L \subseteq W /\ L \subseteq Slots
  BY DEF Latest
<1>6. Cardinality(M) \in Nat
  BY <1>4, FS_CardinalityType
<1> HIDE DEF L
<1>7. M # {}
  BY <1>0, <1>4, <1>6, FS_EmptySet
<1>8. CASE status = "blocked"
  BY <1>2, <1>4, <1>7, <1>8 DEF ToStart
<1>9. CASE status # "blocked" /\ policy = "each_missed"
  <2>1. Max({MaxRuns, 1}) = MaxRuns
    BY <1>0, MaxOfTwo
  <2>2. S = Latest(L, MaxRuns)
    BY <1>9, <2>1 DEF ToStart, L
  <2>3. PICK m \in M : \A x \in M : m <= x
    <3>1. M \subseteq Slots
      BY <1>4, <1>5
    <3> QED
      BY <1>7, <3>1, MinIs
  <2> DEFINE U == {v \in L : v > m}
  <2>4. Cardinality(U) < MaxRuns
    BY <1>2, <1>4, <2>2 DEF Latest
  <2>5. M \ {m} \subseteq U
    <3>1. \A x \in M : x \in Nat
      BY <1>4, <1>5, SlotsAre
    <3> QED
      BY <1>4, <2>3, <3>1
  <2>6. U \subseteq Slots
    BY <1>5
  <2> HIDE DEF U
  <2>7. IsFiniteSet(U) /\ Cardinality(U) \in Nat
    BY <2>6, SlotSetsAreFinite
  <2>8. Cardinality(M \ {m}) = Cardinality(M) - 1
    BY <1>4, FS_RemoveElement
  <2>9. Cardinality(M \ {m}) <= Cardinality(U)
    BY <2>5, <2>7, FS_Subset
  <2> QED
    BY <1>0, <1>4, <1>6, <2>4, <2>7, <2>8, <2>9
<1>10. CASE status # "blocked" /\ policy # "each_missed"
  <2> DEFINE G == {s \in Slots : DueAt[s] \in (t - Grace)..t}
  <2>1. Cardinality(G) < ScheduleKeep
    BY ScheduleAssumption
  <2>2. S = {s \in L : t - DueAt[s] <= Grace}
    BY <1>10 DEF ToStart, L
  <2>3. M \subseteq G
    <3>1. ASSUME NEW x \in M PROVE x \in G
      <4>1. x \in Slots /\ DueAt[x] \in Nat /\ DueAt[x] <= t /\ t - DueAt[x] <= Grace
        BY <1>2, <1>4, <1>5, <2>2, SlotsAre
      <4> QED
        BY <1>0, <4>1
    <3> QED
      BY <3>1
  <2>4. G \subseteq Slots
    OBVIOUS
  <2> HIDE DEF G
  <2>5. IsFiniteSet(G) /\ Cardinality(G) \in Nat
    BY <2>4, SlotSetsAreFinite
  <2>6. Cardinality(M) <= Cardinality(G)
    BY <2>3, <2>5, FS_Subset
  <2> QED
    BY <1>0, <1>4, <1>6, <2>1, <2>5, <2>6
<1> QED
  BY <1>8, <1>9, <1>10

-----------------------------------------------------------------------------
(* Cursors.                                                                *)

LEMMA FollowsTime ==
  ASSUME NEW c, c.key = NoSlot, NEW s
  PROVE  Follows(c, s) <=> DueAt[s] > c.at
BY DEF Follows

LEMMA FollowsSlot ==
  ASSUME NEW c, c.key \in Slots, c.at = DueAt[c.key], NEW s \in Slots
  PROVE  Follows(c, s) <=> s > c.key
<1>1. /\ s \in Nat /\ c.key \in Nat /\ c.key >= 1 /\ DueAt[s] \in Nat /\ DueAt[c.key] \in Nat
      /\ s <= c.key => DueAt[s] <= DueAt[c.key]
      /\ c.key <= s => DueAt[c.key] <= DueAt[s]
  BY SlotsAre
<1>2. c.key # NoSlot
  BY <1>1 DEF NoSlot
<1> QED
  BY <1>1, <1>2 DEF Follows

LEMMA DecidedAre ==
  ASSUME TypeOK
  PROVE  /\ Decided \subseteq Slots
         /\ Decided # {} => Max(Decided) \in Decided /\ \A d \in Decided : d <= Max(Decided)
<1>1. Decided \subseteq Slots
  BY DEF Decided
<1> QED
  BY <1>1, MaxIs

(* What follows the last decided slot and the time read before is ahead of *)
(* everything decided.                                                     *)
LEMMA CursorIsAhead ==
  ASSUME TypeOK, ClocksOK, NEW h \in Holders, ticker[h].cursor.key = NoSlot
  PROVE  /\ Cursor(h) \in Cursors /\ Cursor(h).at >= ticker[h].cursor.at
         /\ Cursor(h).key # NoSlot => Cursor(h).key \in Decided /\ Cursor(h).at = DueAt[Cursor(h).key]
                                       /\ Cursor(h).at > ticker[h].cursor.at
         /\ Cursor(h).key = NoSlot => Cursor(h) = ticker[h].cursor
         /\ \A d \in Decided, s \in Slots : Follows(Cursor(h), s) => d < s
<1>1. ticker[h].cursor \in Cursors /\ ticker[h].cursor.at \in Nat
  BY DEF TypeOK, Cursors
<1>2. Decided \subseteq Slots
      /\ (Decided # {} => Max(Decided) \in Decided /\ \A d \in Decided : d <= Max(Decided))
  BY DecidedAre
<1>3. CASE Decided # {} /\ DueAt[Max(Decided)] > ticker[h].cursor.at
  <2>1. PICK m : m = Max(Decided)
    OBVIOUS
  <2>2. m \in Decided /\ m \in Slots /\ \A d \in Decided : d <= m
    BY <1>2, <1>3, <2>1
  <2>7. m \in Nat /\ m # NoSlot /\ DueAt[m] \in 0 .. MaxTime
    <3>1. m \in Nat /\ m >= 1 /\ DueAt[m] \in Nat
      BY <2>2, SlotsAre
    <3>2. DueAt[m] <= now
      BY <2>2 DEF ClocksOK, Decided
    <3>3. now \in 0 .. MaxTime
      BY DEF TypeOK
    <3>4. MaxTime \in Nat
      BY ScheduleAssumption
    <3> QED
      BY <3>1, <3>2, <3>3, <3>4 DEF NoSlot
  <2>3. Cursor(h) = [at |-> DueAt[m], key |-> m]
    BY <1>3, <2>1 DEF Cursor
  <2>4. DueAt[m] \in Nat /\ DueAt[m] > ticker[h].cursor.at
    BY <1>3, <2>1, <2>2, SlotsAre
  <2>5. \A s \in Slots : Follows(Cursor(h), s) => s > m
    <3>1. PICK c : c = Cursor(h)
      OBVIOUS
    <3>2. c.key = m /\ c.at = DueAt[m]
      BY <2>3, <3>1
    <3>3. \A s \in Slots : Follows(c, s) => s > m
      BY <2>2, <3>2, FollowsSlot
    <3> QED
      BY <3>1, <3>3
  <2>6. \A d \in Decided, s \in Slots : Follows(Cursor(h), s) => d < s
    <3>1. \A x \in Slots : x \in Nat
      BY SlotsAre
    <3> QED
      BY <1>2, <2>2, <2>5, <3>1
  <2> QED
    BY <1>1, <2>2, <2>3, <2>4, <2>6, <2>7 DEF Cursors
<1>4. CASE ~(Decided # {} /\ DueAt[Max(Decided)] > ticker[h].cursor.at)
  <2>1. Cursor(h) = ticker[h].cursor
    BY <1>4 DEF Cursor
  <2>2. ASSUME NEW d \in Decided, NEW s \in Slots, Follows(Cursor(h), s) PROVE d < s
    <3>1. DueAt[s] > ticker[h].cursor.at
      BY <2>1, <2>2, FollowsTime
    <3>2. PICK m \in Decided : d <= m /\ ~(DueAt[m] > ticker[h].cursor.at)
      BY <1>2, <1>4
    <3>3. d \in Slots /\ m \in Slots /\ d \in Nat /\ m \in Nat /\ s \in Nat
          /\ DueAt[s] \in Nat /\ DueAt[m] \in Nat
      BY <1>2, SlotsAre
    <3>4. s <= m => DueAt[s] <= DueAt[m]
      BY <3>3, SlotsAre
    <3> QED
      BY <1>1, <3>1, <3>2, <3>3, <3>4
  <2> QED
    BY <1>1, <2>1, <2>2
<1> QED
  BY <1>3, <1>4

-----------------------------------------------------------------------------
(* Frames.                                                                 *)

LEMMA FineKept ==
  ASSUME NEW x, Fine(x),
         UNCHANGED <<now, late, version, approvedAt, active, archived, control, controlAt, outcome,
                     archives, passedOver, missed, policy>>
  PROVE  Fine(x)'
BY DEF Fine, TickOK, VersionOK, CursorOK, BehindOK, AheadOK, AccountedOK, Due, Window, ToStart,
       Horizon, Decided

LEMMA TickersAre ==
  ASSUME TypeOK
  PROVE  ticker \in [Holders -> Ticks]
BY DEF TypeOK, Ticks

(* A step of a tick that writes no row.                                    *)
LEMMA TickMoves ==
  ASSUME IInv, NEW h \in Holders, NEW r \in Ticks,
         UNCHANGED <<now, definition, outcome, held, history, profile, late>>,
         ticker' = [ticker EXCEPT ![h] = r],
         runner' \in Holders \cup {NoHolder}, runnerLeft' \in 0 .. RunnerTicks,
         faults' \in 0 .. MaxFaults, Fine(r),
         late = 0 /\ r.pc # "idle" => runner' = h /\ runnerLeft' >= 1,
         \A g \in Holders : g # h /\ runner = g /\ runnerLeft >= 1 =>
                              runner' = g /\ runnerLeft' >= 1
  PROVE  IInv'
<1>1. ticker \in [Holders -> Ticks]
  BY TickersAre DEF IInv
<1>2. ticker' \in [Holders -> Ticks] /\ \A g \in Holders : ticker'[g] = IF g = h THEN r ELSE ticker[g]
  BY <1>1
<1>3. TypeOK'
  BY <1>2 DEF IInv, TypeOK, Ticks, definition, history, profile
<1>4. UNCHANGED <<now, late, version, approvedAt, active, archived, control, controlAt, outcome,
                  archives, passedOver, missed, policy, starts, incapable>>
  BY DEF definition, history, profile
<1>5. ASSUME NEW g \in Holders PROVE (Exclusive(g, ticker[g]) /\ Fine(ticker[g]))'
  <2>1. PICK x : x = ticker'[g]
    OBVIOUS
  <2>2. Fine(x)
    BY <1>2, <2>1 DEF IInv
  <2>3. Fine(x)'
    BY <1>4, <2>2, FineKept
  <2>4. Exclusive(g, ticker[g])
    BY DEF IInv
  <2>5. Exclusive(g, ticker[g])'
    BY <1>2, <1>4, <2>4 DEF Exclusive
  <2> QED
    BY <2>1, <2>3, <2>5
<1>6. (incapable \subseteq Holders /\ ClocksOK /\ StartsOK /\ MissedOK /\ PassedOK /\ NoSlotLost)'
  BY <1>4 DEF IInv, ClocksOK, StartsOK, MissedOK, PassedOK, NoSlotLost, Lost, Horizon, Decided
<1> QED
  BY <1>3, <1>5, <1>6 DEF IInv

LEMMA IdleIsFine ==
  ASSUME IInv, NEW y \in 0 .. YieldTicks
  PROVE  [Idle EXCEPT !.yield = y] \in Ticks /\ Fine([Idle EXCEPT !.yield = y])
         /\ [Idle EXCEPT !.yield = y].pc = "idle"
<1>1. PICK r : r = [Idle EXCEPT !.yield = y]
  OBVIOUS
<1>2. /\ r.pc = "idle" /\ r.at = 0 /\ r.cursor = [at |-> 0, key |-> NoSlot]
      /\ r = [pc |-> "idle", at |-> 0, version |-> 0, status |-> "inactive",
              cursor |-> [at |-> 0, key |-> NoSlot], todo |-> {}, yield |-> y]
  BY <1>1 DEF Idle
<1>3. MaxTime \in Nat /\ MaxVersion \in Nat /\ now \in Nat
  <2>1. MaxTime \in Nat /\ MaxVersion \in Nat
    BY ScheduleAssumption
  <2>2. now \in 0 .. MaxTime
    BY DEF IInv, TypeOK
  <2> QED
    BY <2>1, <2>2
<1>4. r \in Ticks
  BY <1>2, <1>3 DEF Ticks, Cursors
<1>5. Fine(r)
  BY <1>2, <1>3 DEF Fine, TickOK, VersionOK, CursorOK, BehindOK, AheadOK, AccountedOK, Reading, Acting
<1> QED
  BY <1>1, <1>2, <1>4, <1>5

(* The end of a tick without a row.                                        *)
LEMMA TickEnds ==
  ASSUME IInv, NEW h \in Holders, NEW y \in 0 .. YieldTicks, EndTick(h, y),
         UNCHANGED <<now, definition, outcome, held, history, profile, late>>,
         runner' \in Holders \cup {NoHolder}, runnerLeft' \in 0 .. RunnerTicks,
         faults' \in 0 .. MaxFaults,
         \A g \in Holders : g # h /\ runner = g /\ runnerLeft >= 1 =>
                              runner' = g /\ runnerLeft' >= 1
  PROVE  IInv'
<1>1. PICK r : r = [Idle EXCEPT !.yield = y]
  OBVIOUS
<1>2. r \in Ticks /\ Fine(r) /\ r.pc = "idle"
  BY <1>1, IdleIsFine
<1>3. ticker' = [ticker EXCEPT ![h] = r]
  BY <1>1 DEF EndTick
<1> QED
  BY <1>2, <1>3, TickMoves

LEMMA LeaseIs ==
  ASSUME IInv
  PROVE  /\ runner \in Holders \cup {NoHolder} /\ runnerLeft \in 0 .. RunnerTicks
         /\ faults \in 0 .. MaxFaults /\ now \in 0 .. MaxTime /\ ticker \in [Holders -> Ticks]
         /\ {RunnerTicks, YieldTicks, MaxRuns, MaxVersion} \subseteq Nat \ {0}
         /\ {Grace, ScheduleKeep, MaxTime, MaxLate, MaxFaults, MaxControls, MaxArchives} \subseteq Nat
BY ScheduleAssumption, TickersAre DEF IInv, TypeOK

-----------------------------------------------------------------------------
(* The steps of a tick that write no row.                                  *)

LEMMA TickIs ==
  ASSUME IInv, NEW h \in Holders
  PROVE  /\ ticker[h] \in Ticks /\ Fine(ticker[h]) /\ Exclusive(h, ticker[h])
         /\ ticker[h].at \in Nat /\ ticker[h].at \in 0 .. MaxTime
         /\ ticker[h].cursor.at \in Nat /\ ticker[h].todo \subseteq Slots
         /\ ticker[h].cursor \in Cursors
         /\ now \in Nat /\ approvedAt \in Nat /\ controlAt \in Nat /\ now \in 0 .. MaxTime
         /\ approvedAt <= now /\ controlAt <= now
         /\ approvedAt \in 0 .. MaxTime /\ controlAt \in 0 .. MaxTime
<1>1. ticker \in [Holders -> Ticks]
  BY LeaseIs
<1>2. ticker[h] \in Ticks
  BY <1>1
<1>3. now \in 0 .. MaxTime /\ approvedAt \in 0 .. MaxTime /\ controlAt \in 0 .. MaxTime
      /\ approvedAt <= now /\ controlAt <= now
  BY DEF IInv, TypeOK, ClocksOK
<1>4. MaxTime \in Nat
  BY LeaseIs
<1>5. now \in Nat /\ approvedAt \in Nat /\ controlAt \in Nat
  BY <1>3, <1>4
<1>6. ticker[h].cursor \in Cursors /\ ticker[h].at \in 0 .. MaxTime /\ ticker[h].todo \subseteq Slots
  BY <1>2 DEF Ticks
<1>7. ticker[h].cursor.at \in 0 .. MaxTime
  BY <1>6 DEF Cursors
<1>8. Fine(ticker[h]) /\ Exclusive(h, ticker[h])
  BY DEF IInv
<1> QED
  BY <1>2, <1>3, <1>4, <1>5, <1>6, <1>7, <1>8

LEMMA AcquireKeeps ==
  ASSUME IInv, NEW h \in Holders, AcquireRunner(h), UNCHANGED <<profile, late>>
  PROVE  IInv'
<1>1. PICK t : t = ticker[h]
  OBVIOUS
<1>2. t \in Ticks /\ Fine(t) /\ t.cursor.at <= now /\ now \in 0 .. MaxTime /\ now \in Nat
  <2>1. t \in Ticks /\ Fine(t) /\ now \in 0 .. MaxTime /\ now \in Nat
    BY <1>1, TickIs
  <2> QED
    BY <2>1 DEF Fine, TickOK
<1>3. PICK r : r = [t EXCEPT !.pc = "list", !.at = now]
  OBVIOUS
<1>4. /\ r \in Ticks /\ r.pc = "list" /\ r.at = now /\ r.cursor = t.cursor
  BY <1>2, <1>3 DEF Ticks
<1>5. Fine(r)
  BY <1>2, <1>4 DEF Fine, TickOK, VersionOK, CursorOK, BehindOK, AheadOK, AccountedOK, Reading, Acting
<1>6. ticker' = [ticker EXCEPT ![h] = r]
  BY <1>1, <1>3 DEF AcquireRunner
<1>7. runner' = h /\ runnerLeft' = RunnerTicks /\ RunnerTicks \in Nat \ {0}
  BY LeaseIs DEF AcquireRunner
<1>8. runner' \in Holders \cup {NoHolder} /\ runnerLeft' \in 0 .. RunnerTicks /\ runnerLeft' >= 1
  BY <1>7
<1>9. faults' \in 0 .. MaxFaults /\ UNCHANGED <<now, definition, outcome, held, history>>
  BY LeaseIs DEF AcquireRunner, RowsUnchanged
<1>10. ASSUME NEW g \in Holders, g # h, runner = g, runnerLeft >= 1 PROVE FALSE
  <2>1. runner = NoHolder \/ runner = h \/ runnerLeft = 0
    BY DEF AcquireRunner
  <2>2. NoHolder \notin Holders
    BY ScheduleAssumption
  <2> QED
    BY <1>10, <2>1, <2>2
<1> QED
  BY <1>4, <1>5, <1>6, <1>7, <1>8, <1>9, <1>10, TickMoves

(* A step of a tick that leaves the lease alone too.                       *)
LEMMA TickGoesOn ==
  ASSUME IInv, NEW h \in Holders, NEW r \in Ticks, RowsUnchanged, UNCHANGED <<lease, profile, late>>,
         faults' \in 0 .. MaxFaults,
         ticker' = [ticker EXCEPT ![h] = r], Fine(r), ticker[h].pc # "idle" \/ r.pc = "idle"
  PROVE  IInv'
<1>1. Exclusive(h, ticker[h])
  BY TickIs
<1>2. late = 0 /\ r.pc # "idle" => runner = h /\ runnerLeft >= 1
  BY <1>1 DEF Exclusive
<1>3. runner' = runner /\ runnerLeft' = runnerLeft /\ UNCHANGED <<now, definition, outcome, held, history>>
  BY DEF lease, RowsUnchanged
<1>4. runner \in Holders \cup {NoHolder} /\ runnerLeft \in 0 .. RunnerTicks
  BY LeaseIs
<1> QED
  BY <1>2, <1>3, <1>4, TickMoves

LEMMA ReadDefinitionKeeps ==
  ASSUME IInv, NEW h \in Holders, ReadDefinition(h), UNCHANGED <<profile, late>>
  PROVE  IInv'
<1>1. PICK t : t = ticker[h]
  OBVIOUS
<1>2. t \in Ticks /\ Fine(t) /\ approvedAt \in 0 .. MaxTime /\ approvedAt <= now /\ t.pc = "list"
      /\ now \in Nat /\ approvedAt \in Nat /\ controlAt \in Nat
  BY <1>1, TickIs DEF ReadDefinition
<1>3. PICK c : c = [at |-> approvedAt, key |-> NoSlot]
  OBVIOUS
<1>4. PICK st : st = IF ~active THEN "inactive" ELSE IF archived THEN "blocked" ELSE "active"
  OBVIOUS
<1>5. PICK r : r = [t EXCEPT !.pc = "control", !.version = version, !.status = st, !.cursor = c]
  OBVIOUS
<1>6. c \in Cursors /\ version \in 0 .. MaxVersion /\ version \in Nat
  <2>1. version \in 1 .. MaxVersion
    BY DEF IInv, TypeOK
  <2>2. MaxVersion \in Nat
    BY ScheduleAssumption
  <2> QED
    BY <1>2, <1>3, <2>1, <2>2 DEF Cursors
<1>7. st \in {"inactive", "paused", "blocked", "active"}
  BY <1>4
<1>8. r \in Ticks /\ r.pc = "control" /\ r.cursor = c /\ r.version = version /\ r.at = t.at
  BY <1>2, <1>5, <1>6, <1>7 DEF Ticks
<1>9. r.cursor.at = approvedAt /\ r.cursor.key = NoSlot
  BY <1>3, <1>8
<1>10. TickOK(r) /\ VersionOK(r)
  BY <1>2, <1>6, <1>8, <1>9 DEF Fine, TickOK, VersionOK, Reading, Acting
<1>11. CursorOK(r)
  BY <1>2, <1>8, <1>9 DEF CursorOK, Horizon
<1>12. Fine(r)
  BY <1>8, <1>10, <1>11 DEF Fine, BehindOK, AheadOK, AccountedOK
<1>13. ticker' = [ticker EXCEPT ![h] = r]
  BY <1>1, <1>3, <1>4, <1>5 DEF ReadDefinition
<1>14. faults' \in 0 .. MaxFaults /\ RowsUnchanged /\ UNCHANGED lease
  BY LeaseIs DEF ReadDefinition
<1> QED
  BY <1>1, <1>2, <1>8, <1>12, <1>13, <1>14, TickGoesOn

LEMMA ReadControlKeeps ==
  ASSUME IInv, NEW h \in Holders, ReadControl(h), UNCHANGED <<profile, late>>
  PROVE  IInv'
<1>1. PICK t : t = ticker[h]
  OBVIOUS
<1>2. t \in Ticks /\ Fine(t) /\ controlAt \in 0 .. MaxTime /\ controlAt <= now /\ t.pc = "control"
      /\ now \in Nat /\ approvedAt \in Nat /\ controlAt \in Nat /\ t.cursor \in Cursors
      /\ t.cursor.at \in Nat
  BY <1>1, TickIs DEF ReadControl
<1>3. PICK c : c = IF t.version = version /\ control = "resume" /\ controlAt > t.cursor.at
                   THEN [at |-> controlAt, key |-> NoSlot] ELSE t.cursor
  OBVIOUS
<1>4. PICK st : st = IF t.status # "inactive" /\ t.version = version /\ control = "pause"
                     THEN "paused" ELSE t.status
  OBVIOUS
<1>5. PICK r : r = [t EXCEPT !.pc = "slot", !.status = st, !.cursor = c]
  OBVIOUS
<1>6. TickOK(t) /\ VersionOK(t) /\ CursorOK(t) /\ t.cursor.key = NoSlot /\ t.cursor.at <= now
  BY <1>2 DEF Fine, TickOK
<1>7. /\ c \in Cursors /\ c.key = NoSlot /\ c.at <= now /\ c.at \in Nat
      /\ c.at = IF t.version = version /\ control = "resume" /\ controlAt > t.cursor.at
                THEN controlAt ELSE t.cursor.at
  BY <1>2, <1>3, <1>6 DEF Cursors
<1>8. st \in {"inactive", "paused", "blocked", "active"}
  BY <1>2, <1>4 DEF Ticks
<1>9. r \in Ticks /\ r.pc = "slot" /\ r.cursor = c /\ r.version = t.version /\ r.at = t.at /\ r.status = st
  BY <1>2, <1>5, <1>7, <1>8 DEF Ticks
<1>10. TickOK(r) /\ VersionOK(r)
  BY <1>2, <1>6, <1>7, <1>9 DEF TickOK, VersionOK, Reading, Acting
<1>11. CursorOK(r)
  <2>1. t.version = version /\ control # "pause" => t.cursor.at <= Horizon
    BY <1>2, <1>6 DEF CursorOK, Reading
  <2>2. t.version = version /\ control # "pause" => c.at <= Horizon
    BY <1>2, <1>7, <2>1 DEF Horizon
  <2> QED
    BY <1>7, <1>9, <2>2 DEF CursorOK
<1>12. BehindOK(r)
  <2>1. SUFFICES ASSUME t.version = version, st \notin {"inactive", "paused"}, NEW s \in missed
                 PROVE  ~Follows(c, s)
    BY <1>9 DEF BehindOK
  <2>2. control # "pause"
    BY <1>4, <2>1
  <2>3. s \in Slots /\ DueAt[s] <= Horizon /\ DueAt[s] \in Nat
    BY <2>2, SlotsAre DEF IInv, MissedOK, TypeOK
  <2>4. t.cursor.at = approvedAt
    BY <1>2, <1>6, <2>1 DEF VersionOK
  <2>5. ~(DueAt[s] > c.at)
    BY <1>2, <1>7, <2>1, <2>3, <2>4 DEF Horizon
  <2> QED
    BY <1>7, <2>5, FollowsTime
<1>13. Fine(r)
  BY <1>9, <1>10, <1>11, <1>12 DEF Fine, AheadOK, AccountedOK
<1>14. ticker' = [ticker EXCEPT ![h] = r]
  BY <1>1, <1>3, <1>4, <1>5 DEF ReadControl
<1>15. faults' \in 0 .. MaxFaults /\ RowsUnchanged /\ UNCHANGED lease
  BY LeaseIs DEF ReadControl
<1> QED
  BY <1>1, <1>2, <1>9, <1>13, <1>14, <1>15, TickGoesOn

LEMMA TickStops ==
  ASSUME IInv, NEW h \in Holders, NEW y \in 0 .. YieldTicks, EndTick(h, y), RowsUnchanged,
         UNCHANGED <<lease, profile, late>>, faults' \in 0 .. MaxFaults
  PROVE  IInv'
<1>1. runner' = runner /\ runnerLeft' = runnerLeft /\ UNCHANGED <<now, definition, outcome, held, history>>
  BY DEF lease, RowsUnchanged
<1>2. runner \in Holders \cup {NoHolder} /\ runnerLeft \in 0 .. RunnerTicks
  BY LeaseIs
<1> QED
  BY <1>1, <1>2, TickEnds

LEMMA ReadLastSlotKeeps ==
  ASSUME IInv, NEW h \in Holders, ReadLastSlot(h), UNCHANGED <<profile, late>>
  PROVE  IInv'
<1>1. PICK t : t = ticker[h]
  OBVIOUS
<1>2. t \in Ticks /\ Fine(t) /\ t.pc = "slot" /\ t.cursor.at \in Nat /\ t.at \in Nat /\ now \in Nat
      /\ t.at \in 0 .. MaxTime
  BY <1>1, TickIs DEF ReadLastSlot
<1>3. TickOK(t) /\ VersionOK(t) /\ CursorOK(t) /\ BehindOK(t) /\ t.cursor.key = NoSlot
      /\ t.cursor.at <= now /\ t.at <= now
  BY <1>2 DEF Fine, TickOK
<1>4. faults' \in 0 .. MaxFaults /\ RowsUnchanged /\ UNCHANGED lease /\ 0 \in 0 .. YieldTicks
  <2>1. YieldTicks \in Nat
    BY ScheduleAssumption
  <2> QED
    BY <2>1, LeaseIs DEF ReadLastSlot
<1>5. PICK c : c = Cursor(h)
  OBVIOUS
<1>6. PICK W : W = Window(c, t.at)
  OBVIOUS
<1>7. CASE t.status \in {"inactive", "paused"} \/ W = {}
  <2>1. EndTick(h, 0)
    BY <1>1, <1>5, <1>6, <1>7 DEF ReadLastSlot
  <2> QED
    BY <1>4, <2>1, TickStops
<1>8. CASE ~(t.status \in {"inactive", "paused"} \/ W = {})
  <2>1. PICK todo : todo = ToStart(t.status, W, t.at)
    OBVIOUS
  <2>2. PICK r : r = [t EXCEPT !.pc = "skip", !.cursor = c, !.todo = todo]
    OBVIOUS
  <2>3. TypeOK /\ ClocksOK /\ policy \in Policies /\ Decided \subseteq Slots
    BY DEF IInv, TypeOK, Decided
  <2>4. /\ c \in Cursors /\ c.at >= t.cursor.at
        /\ c.key # NoSlot => c.key \in Decided /\ c.at = DueAt[c.key] /\ c.at > t.cursor.at
        /\ c.key = NoSlot => c = t.cursor
        /\ \A d \in Decided, s \in Slots : Follows(c, s) => d < s
    BY <1>1, <1>3, <1>5, <2>3, CursorIsAhead
  <2>5. W \subseteq Slots /\ \A s \in W : Follows(c, s) /\ DueAt[s] <= t.at
    BY <1>6 DEF Window
  <2>6. todo \subseteq W
    BY <1>2, <2>1, <2>3, <2>5, StartsAreLatest
  <2>7. /\ r \in Ticks /\ r.pc = "skip" /\ r.cursor = c /\ r.todo = todo /\ r.at = t.at
        /\ r.version = t.version /\ r.status = t.status
    BY <1>2, <2>2, <2>4, <2>5, <2>6 DEF Ticks
  <2>8. Due(r) = W
    BY <1>6, <2>7 DEF Due
  <2>9. c.at <= now
    <3>1. c.key # NoSlot => DueAt[c.key] <= now
      BY <2>3, <2>4 DEF ClocksOK, Decided
    <3> QED
      BY <1>3, <2>4, <3>1
  <2>10. t.status \in {"active", "blocked"}
    BY <1>2, <1>8 DEF Ticks
  <2>11. TickOK(r)
    BY <1>3, <2>1, <2>6, <2>7, <2>8, <2>9, <2>10 DEF TickOK
  <2>12. VersionOK(r)
    BY <1>2, <1>3, <2>7 DEF VersionOK, Reading, Acting
  <2>13. CursorOK(r)
    BY <1>2, <1>3, <2>4, <2>7 DEF CursorOK, Reading, Acting
  <2>14. BehindOK(r)
    <3>1. SUFFICES ASSUME t.version = version, t.status \notin {"inactive", "paused"},
                          NEW s \in missed, DueAt[s] <= t.at
                   PROVE  ~Follows(c, s)
      BY <2>7 DEF BehindOK
    <3>2. ~Follows(t.cursor, s)
      BY <1>2, <1>3, <3>1 DEF BehindOK, Reading
    <3>3. s \in Slots /\ DueAt[s] \in Nat
      BY <2>3, SlotsAre DEF TypeOK
    <3>4. ~(DueAt[s] > t.cursor.at)
      BY <3>2 DEF Follows
    <3>5. c.key # NoSlot => c.at \in Nat
      BY <2>3, <2>4, SlotsAre
    <3> QED
      BY <1>2, <2>4, <3>2, <3>3, <3>4, <3>5 DEF Follows
  <2>15. AheadOK(r) /\ AccountedOK(r)
    BY <2>4, <2>5, <2>7, <2>8 DEF AheadOK, AccountedOK
  <2>16. Fine(r)
    BY <2>11, <2>12, <2>13, <2>14, <2>15 DEF Fine
  <2>17. ticker' = [ticker EXCEPT ![h] = r]
    BY <1>1, <1>5, <1>6, <1>8, <2>1, <2>2 DEF ReadLastSlot
  <2> QED
    BY <1>1, <1>2, <1>4, <2>7, <2>16, <2>17, TickGoesOn
<1> QED
  BY <1>7, <1>8

(* A tick moves on within what it decided: its place and what is left.     *)
LEMMA MoveIs ==
  ASSUME IInv, NEW h \in Holders, NEW r \in Ticks, ticker[h].pc \in Acting,
         r.pc \in {"start", "fail", "yield"}, r.todo \subseteq ticker[h].todo, r.todo # {},
         r.at = ticker[h].at, r.cursor = ticker[h].cursor,
         r.version = ticker[h].version, r.status = ticker[h].status
  PROVE  TickOK(r) /\ VersionOK(r) /\ CursorOK(r) /\ BehindOK(r) /\ Due(r) = Due(ticker[h])
<1>1. ticker[h] \in Ticks /\ Fine(ticker[h])
  BY TickIs
<1>3. Due(r) = Due(ticker[h])
  BY DEF Due
<1>4. TickOK(r)
  BY <1>1, <1>3 DEF Fine, TickOK, Acting
<1>5. VersionOK(r) /\ CursorOK(r)
  BY <1>1, <1>3 DEF Fine, VersionOK, CursorOK, Reading, Acting
<1>6. BehindOK(r)
  BY <1>1, <1>3 DEF Fine, BehindOK, Reading, Acting
<1> QED
  BY <1>3, <1>4, <1>5, <1>6

(* The tick after a slot that is done with.                                *)
LEMMA SlotDoneIs ==
  ASSUME IInv, NEW h \in Holders, SlotDone(h), ticker[h].pc \in {"start", "fail"}
  PROVE  /\ NextSlot(h) \in ticker[h].todo /\ \A u \in ticker[h].todo : NextSlot(h) <= u
         /\ ticker[h].todo # {NextSlot(h)} =>
              /\ ticker[h].todo \ {NextSlot(h)} # {}
              /\ ticker' = [ticker EXCEPT ![h] = [ticker[h] EXCEPT !.pc = "start",
                                                     !.todo = ticker[h].todo \ {NextSlot(h)}]]
         /\ ticker[h].todo = {NextSlot(h)} => EndTick(h, 0)
<1>1. Fine(ticker[h]) /\ ticker[h].todo \subseteq Slots
  BY TickIs
<1>2. ticker[h].todo # {}
  BY <1>1 DEF Fine, TickOK
<1>3. NextSlot(h) \in ticker[h].todo /\ \A u \in ticker[h].todo : NextSlot(h) <= u
  BY <1>1, <1>2, MinIs DEF NextSlot
<1>4. ticker[h].todo # {NextSlot(h)} =>
        ticker' = [ticker EXCEPT ![h] = [ticker[h] EXCEPT !.pc = "start",
                                            !.todo = ticker[h].todo \ {NextSlot(h)}]]
  BY DEF SlotDone
<1>5. ticker[h].todo = {NextSlot(h)} => EndTick(h, 0)
  BY DEF SlotDone
<1> QED
  BY <1>3, <1>4, <1>5

(* A slot that the definition refuses is left undecided, and one that      *)
(* another tick decided is left as it is.                                  *)
LEMMA LeftAloneKeeps ==
  ASSUME IInv, NEW h \in Holders, ticker[h].pc \in {"start", "fail"}, SlotDone(h),
         (~Admitted(ticker[h].version) /\ ticker[h].pc = "start") \/ late # 0,
         RowsUnchanged, UNCHANGED <<lease, profile, late, faults>>
  PROVE  IInv'
<1>1. PICK t : t = ticker[h]
  OBVIOUS
<1>2. PICK s : s = NextSlot(h)
  OBVIOUS
<1>3. faults' \in 0 .. MaxFaults /\ 0 \in 0 .. YieldTicks
  <2>1. YieldTicks \in Nat
    BY ScheduleAssumption
  <2> QED
    BY <2>1, LeaseIs
<1>4. CASE t.todo = {s}
  <2>1. EndTick(h, 0)
    BY <1>1, <1>2, <1>4, SlotDoneIs
  <2> QED
    BY <1>3, <2>1, TickStops
<1>5. CASE t.todo # {s}
  <2>1. PICK left : left = t.todo \ {s}
    OBVIOUS
  <2>2. PICK r : r = [t EXCEPT !.pc = "start", !.todo = left]
    OBVIOUS
  <2>3. left # {} /\ left \subseteq t.todo /\ ticker' = [ticker EXCEPT ![h] = r]
    BY <1>1, <1>2, <1>5, <2>1, <2>2, SlotDoneIs
  <2>4. t.pc \in {"start", "fail"} /\ t.pc \in Acting
    BY <1>1 DEF Acting
  <2>5. /\ r \in Ticks /\ r.pc = "start" /\ r.todo = left /\ r.version = t.version
        /\ TickOK(r) /\ VersionOK(r) /\ CursorOK(r) /\ BehindOK(r)
    <3>1. /\ r \in Ticks /\ r.pc = "start" /\ r.todo = left
          /\ r.at = t.at /\ r.cursor = t.cursor /\ r.version = t.version /\ r.status = t.status
      <4>1. t \in Ticks /\ left \subseteq Slots
        BY <1>1, <2>3, TickIs
      <4> QED
        BY <2>2, <4>1 DEF Ticks
    <3> QED
      BY <1>1, <2>3, <2>4, <3>1, MoveIs
  <2>6. AheadOK(r)
    <3>1. AheadOK(t)
      BY <1>1, TickIs DEF Fine
    <3> QED
      BY <2>3, <2>4, <2>5, <3>1 DEF AheadOK
  <2>7. AccountedOK(r)
    BY <1>1, <2>5 DEF AccountedOK, Admitted
  <2>8. Fine(r)
    BY <2>5, <2>6, <2>7 DEF Fine
  <2> QED
    BY <1>1, <1>3, <2>3, <2>4, <2>5, <2>8, TickGoesOn
<1> QED
  BY <1>4, <1>5

LEMMA CannotStartKeeps ==
  ASSUME IInv, NEW h \in Holders, CannotStart(h), UNCHANGED <<profile, late>>
  PROVE  IInv'
<1>1. PICK t : t = ticker[h]
  OBVIOUS
<1>2. t.pc = "start" /\ t.pc \in Acting /\ RowsUnchanged /\ UNCHANGED <<lease, faults>>
      /\ faults' \in 0 .. MaxFaults
  BY <1>1, LeaseIs DEF CannotStart, Acting
<1>3. CASE Admitted(t.version)
  <2>1. t \in Ticks /\ Fine(t)
    BY <1>1, TickIs
  <2>2. PICK left : left = t.todo
    OBVIOUS
  <2>3. left \subseteq t.todo /\ left # {}
    BY <1>2, <2>1, <2>2 DEF Fine, TickOK
  <2>4. PICK r : r = [t EXCEPT !.pc = "yield", !.todo = left]
    OBVIOUS
  <2>5. r = [t EXCEPT !.pc = "yield"]
    BY <2>1, <2>2, <2>4 DEF Ticks
  <2>6. ticker' = [ticker EXCEPT ![h] = r]
    BY <1>1, <1>3, <2>5 DEF CannotStart, Go
  <2>7. /\ r \in Ticks /\ r.pc = "yield"
        /\ TickOK(r) /\ VersionOK(r) /\ CursorOK(r) /\ BehindOK(r)
    <3>1. /\ r \in Ticks /\ r.pc = "yield" /\ r.todo = left
          /\ r.at = t.at /\ r.cursor = t.cursor /\ r.version = t.version /\ r.status = t.status
      BY <2>1, <2>2, <2>4 DEF Ticks
    <3> QED
      BY <1>1, <1>2, <2>3, <3>1, MoveIs
  <2>8. Fine(r)
    BY <2>7 DEF Fine, AheadOK, AccountedOK
  <2> QED
    BY <1>1, <1>2, <2>6, <2>7, <2>8, TickGoesOn
<1>4. CASE ~Admitted(t.version)
  <2>1. SlotDone(h)
    BY <1>1, <1>4 DEF CannotStart
  <2> QED
    BY <1>1, <1>2, <1>4, <2>1, LeftAloneKeeps
<1> QED
  BY <1>3, <1>4

LEMMA StartFailsKeeps ==
  ASSUME IInv, NEW h \in Holders, StartFails(h), UNCHANGED <<profile, late>>
  PROVE  IInv'
<1>1. PICK t : t = ticker[h]
  OBVIOUS
<1>2. t.pc = "start" /\ t.pc \in Acting /\ RowsUnchanged /\ UNCHANGED lease /\ Admitted(t.version)
  BY <1>1 DEF StartFails, Acting
<1>3. faults' \in 0 .. MaxFaults
  <2>1. faults \in 0 .. MaxFaults /\ faults' = faults + 1 /\ faults < MaxFaults /\ MaxFaults \in Nat
    BY LeaseIs DEF StartFails
  <2> QED
    BY <2>1
<1>4. t \in Ticks /\ Fine(t)
  BY <1>1, TickIs
<1>5. PICK left : left = t.todo
  OBVIOUS
<1>6. left \subseteq t.todo /\ left # {}
  BY <1>2, <1>4, <1>5 DEF Fine, TickOK
<1>7. PICK r : r = [t EXCEPT !.pc = "fail", !.todo = left]
  OBVIOUS
<1>8. r = [t EXCEPT !.pc = "fail"]
  BY <1>4, <1>5, <1>7 DEF Ticks
<1>9. ticker' = [ticker EXCEPT ![h] = r]
  BY <1>1, <1>8 DEF StartFails, Go
<1>10. /\ r \in Ticks /\ r.pc = "fail" /\ r.todo = left /\ r.version = t.version
       /\ TickOK(r) /\ VersionOK(r) /\ CursorOK(r) /\ BehindOK(r) /\ Due(r) = Due(t)
  <2>1. /\ r \in Ticks /\ r.pc = "fail" /\ r.todo = left
        /\ r.at = t.at /\ r.cursor = t.cursor /\ r.version = t.version /\ r.status = t.status
    BY <1>4, <1>5, <1>7 DEF Ticks
  <2> QED
    BY <1>1, <1>2, <1>6, <2>1, MoveIs
<1>11. AheadOK(r)
  BY <1>2, <1>4, <1>5, <1>10 DEF Fine, AheadOK
<1>12. AccountedOK(r)
  BY <1>2, <1>4, <1>5, <1>10 DEF Fine, AccountedOK, Admitted
<1>13. Fine(r)
  BY <1>10, <1>11, <1>12 DEF Fine
<1> QED
  BY <1>1, <1>2, <1>3, <1>9, <1>10, <1>13, TickGoesOn

LEMMA YieldKeeps ==
  ASSUME IInv, NEW h \in Holders, Yield(h), UNCHANGED <<profile, late>>
  PROVE  IInv'
<1>1. runner \in Holders \cup {NoHolder} /\ runnerLeft \in 0 .. RunnerTicks /\ faults \in 0 .. MaxFaults
      /\ RunnerTicks \in Nat /\ YieldTicks \in Nat
  BY LeaseIs
<1>2. /\ runner' = IF runner = h THEN NoHolder ELSE runner
      /\ runnerLeft' = IF runner = h THEN 0 ELSE runnerLeft
      /\ EndTick(h, YieldTicks) /\ UNCHANGED <<now, definition, outcome, held, history>>
      /\ faults' = faults
  BY DEF Yield, RowsUnchanged
<1>3. YieldTicks \in 0 .. YieldTicks /\ runner' \in Holders \cup {NoHolder}
      /\ runnerLeft' \in 0 .. RunnerTicks
  BY <1>1, <1>2
<1>4. \A g \in Holders : g # h /\ runner = g /\ runnerLeft >= 1 => runner' = g /\ runnerLeft' >= 1
  BY <1>2
<1> QED
  BY <1>1, <1>2, <1>3, <1>4, TickEnds

LEMMA AbandonKeeps ==
  ASSUME IInv, NEW h \in Holders, Abandon(h), UNCHANGED <<profile, late>>
  PROVE  IInv'
<1>1. faults \in 0 .. MaxFaults /\ MaxFaults \in Nat /\ YieldTicks \in Nat
  BY LeaseIs
<1>2. faults' \in 0 .. MaxFaults /\ 0 \in 0 .. YieldTicks
  BY <1>1 DEF Abandon
<1>3. EndTick(h, 0) /\ RowsUnchanged /\ UNCHANGED lease
  BY DEF Abandon
<1> QED
  BY <1>2, <1>3, TickStops

LEMMA StopKeeps ==
  ASSUME IInv, NEW h \in Holders, Stop(h), UNCHANGED <<profile, late>>
  PROVE  IInv'
<1>1. PICK r : r = ticker[h]
  OBVIOUS
<1>2. r \in Ticks /\ Fine(r) /\ r.pc = "idle"
  BY <1>1, TickIs DEF Stop
<1>3. ticker \in [Holders -> Ticks] /\ faults \in 0 .. MaxFaults /\ MaxFaults \in Nat /\ RunnerTicks \in Nat
  BY LeaseIs
<1>4. ticker' = [ticker EXCEPT ![h] = r]
  BY <1>1, <1>3 DEF Stop
<1>5. runner' \in Holders \cup {NoHolder} /\ runnerLeft' \in 0 .. RunnerTicks /\ faults' \in 0 .. MaxFaults
  BY <1>3 DEF Stop
<1>6. UNCHANGED <<now, definition, outcome, held, history>> /\ runner = h
  BY DEF Stop, RowsUnchanged
<1> QED
  BY <1>2, <1>4, <1>5, <1>6, TickMoves

-----------------------------------------------------------------------------
(* The steps of a tick that decide a slot.                                 *)

(* While no tick outlasts its lease, only one is at work.                  *)
LEMMA OthersIdle ==
  ASSUME IInv, NEW h \in Holders, NEW g \in Holders, g # h, late = 0, ticker[h].pc # "idle"
  PROVE  ticker[g].pc = "idle"
<1>1. Exclusive(h, ticker[h]) /\ Exclusive(g, ticker[g])
  BY TickIs
<1> QED
  BY <1>1 DEF Exclusive

(* One more slot is decided.                                               *)
LEMMA DecidedGrows ==
  ASSUME TypeOK, NEW s \in Slots, NEW o \in Outcomes \ {"none"}, outcome[s] = "none",
         outcome' = [outcome EXCEPT ![s] = o]
  PROVE  /\ outcome' \in [Slots -> Outcomes]
         /\ \A x \in Slots : outcome'[x] = IF x = s THEN o ELSE outcome[x]
         /\ Decided' = Decided \cup {s} /\ s \notin Decided
<1>1. outcome \in [Slots -> Outcomes]
  BY DEF TypeOK
<1>2. outcome' \in [Slots -> Outcomes] /\ \A x \in Slots : outcome'[x] = IF x = s THEN o ELSE outcome[x]
  BY <1>1
<1>3. Decided' = Decided \cup {s} /\ s \notin Decided
  BY <1>2 DEF Decided
<1> QED
  BY <1>2, <1>3

(* The decision about slot s loses no earlier slot.                        *)
LEMMA NothingLost ==
  ASSUME IInv, NEW h \in Holders, ticker[h].pc \in Acting, NEW s \in Due(ticker[h]),
         NEW o \in Outcomes \ {"none"}, outcome[s] = "none", outcome' = [outcome EXCEPT ![s] = o],
         passedOver \subseteq passedOver', UNCHANGED <<late, definition>>,
         \A x \in Due(ticker[h]) :
           late = 0 /\ archives < 2 /\ x < s /\ outcome[x] = "none" /\ x \notin passedOver' =>
             version # ticker[h].version
  PROVE  NoSlotLost'
<1>1. PICK t : t = ticker[h]
  OBVIOUS
<1>2. /\ TypeOK /\ Fine(t) /\ t.at \in Nat /\ t.cursor.at \in Nat /\ t.cursor \in Cursors
      /\ now \in Nat /\ approvedAt \in Nat /\ controlAt \in Nat
  BY <1>1, TickIs DEF IInv
<1>3. /\ s \in Slots /\ Follows(t.cursor, s) /\ DueAt[s] <= t.at /\ s \in Nat /\ DueAt[s] \in Nat
  <2>1. s \in Slots /\ Follows(t.cursor, s) /\ DueAt[s] <= t.at
    BY <1>1 DEF Due, Window
  <2> QED
    BY <2>1, SlotsAre
<1>4. /\ \A x \in Slots : outcome'[x] = IF x = s THEN o ELSE outcome[x]
      /\ Decided' = Decided \cup {s} /\ s \notin Decided /\ Decided \subseteq Slots
  BY <1>2, <1>3, DecidedGrows DEF Decided
<1>5. UNCHANGED <<version, approvedAt, archives, control, controlAt>> /\ Horizon' = Horizon
      /\ Horizon \in Nat /\ approvedAt <= Horizon
  BY <1>2 DEF definition, Horizon
<1>6. SUFFICES ASSUME late = 0, archives < 2, control # "pause", NEW x \in Lost' PROVE FALSE
  BY <1>5 DEF NoSlotLost
<1>7. x \in Slots /\ DueAt[x] > Horizon /\ outcome'[x] = "none" /\ x \notin passedOver'
  BY <1>5 DEF Lost
<1>8. x \in Nat /\ DueAt[x] \in Nat /\ outcome[x] = "none" /\ x # s /\ x \notin passedOver
  <2>1. x \in Nat /\ DueAt[x] \in Nat
    BY <1>7, SlotsAre
  <2>2. x # s /\ outcome[x] = "none"
    BY <1>4, <1>7
  <2> QED
    BY <1>7, <2>1, <2>2
<1>9. PICK d \in Decided \cup {s} : x < d
  <2>1. Decided' \subseteq Slots /\ Decided' # {}
    BY <1>3, <1>4
  <2>2. PICK D : D = Decided'
    OBVIOUS
  <2>3. Max(D) \in D
    BY <2>1, <2>2, MaxIs
  <2>4. x < Max(D)
    BY <2>1, <2>2 DEF Lost
  <2> QED
    BY <1>4, <2>2, <2>3, <2>4
<1>10. ASSUME NEW e \in Decided, x < e PROVE FALSE
  <2>1. Max(Decided) \in Decided /\ e <= Max(Decided)
    BY <1>4, MaxIs
  <2>2. e \in Nat /\ Max(Decided) \in Nat
    BY <1>4, <2>1, SlotsAre
  <2>3. x < Max(Decided) /\ Decided # {}
    BY <1>8, <1>10, <2>1, <2>2
  <2>4. x \in Lost
    BY <1>7, <1>8, <2>3 DEF Lost
  <2>5. NoSlotLost
    BY DEF IInv
  <2> QED
    BY <1>6, <2>4, <2>5 DEF NoSlotLost
<1>11. x < s
  BY <1>9, <1>10
<1>12. TickOK(t) /\ VersionOK(t) /\ CursorOK(t) /\ t.pc \in Reading
  BY <1>1, <1>2 DEF Fine, Reading
<1>13. DueAt[x] <= t.at
  <2>1. DueAt[x] <= DueAt[s]
    BY <1>3, <1>7, <1>8, <1>11, SlotsAre
  <2> QED
    BY <1>2, <1>3, <1>8, <2>1
<1>14. t.version = version
  <2>1. t.version # version => t.at <= approvedAt
    BY <1>12 DEF VersionOK
  <2> QED
    BY <1>2, <1>5, <1>7, <1>8, <1>13, <2>1
<1>15. CASE x \in Due(t)
  BY <1>1, <1>6, <1>7, <1>8, <1>11, <1>14, <1>15
<1>16. CASE x \notin Due(t)
  <2>1. ~Follows(t.cursor, x)
    BY <1>7, <1>13, <1>16 DEF Due, Window
  <2>2. CASE t.cursor.key = NoSlot
    <3>1. ~(DueAt[x] > t.cursor.at) /\ t.cursor.at <= Horizon
      BY <1>6, <1>12, <1>14, <2>1, <2>2, FollowsTime DEF CursorOK
    <3> QED
      BY <1>2, <1>5, <1>7, <1>8, <3>1
  <2>3. CASE t.cursor.key # NoSlot
    <3>1. t.cursor.key \in Decided /\ t.cursor.at = DueAt[t.cursor.key]
      BY <1>12, <2>3 DEF CursorOK
    <3>2. ~(x > t.cursor.key) /\ t.cursor.key \in Slots /\ t.cursor.key \in Nat
      BY <1>4, <1>7, <2>1, <3>1, FollowsSlot, SlotsAre
    <3>3. x # t.cursor.key
      BY <1>8, <3>1 DEF Decided
    <3> QED
      BY <1>8, <1>10, <3>1, <3>2, <3>3
  <2> QED
    BY <2>2, <2>3
<1> QED
  BY <1>15, <1>16

(* A tick at work decides slot s of its window.                            *)
LEMMA Decides ==
  ASSUME IInv, NEW h \in Holders, ticker[h].pc \in {"skip", "start", "fail"},
         NEW s \in Due(ticker[h]), NEW o \in Outcomes \ {"none"}, outcome[s] = "none",
         outcome' = [outcome EXCEPT ![s] = o],
         NEW r \in Ticks, ticker' = [ticker EXCEPT ![h] = r], Fine(r)',
         UNCHANGED <<now, definition, lease, faults, missed, profile, late>>,
         held' \subseteq RunKeys, starts' \in [Slots -> Nat], StartsOK',
         o \in {"started", "existing"} => s \notin missed,
         passedOver' \subseteq Slots, PassedOK', NoSlotLost'
  PROVE  IInv'
<1>1. ticker \in [Holders -> Ticks]
  BY TickersAre DEF IInv
<1>2. ticker' \in [Holders -> Ticks] /\ \A g \in Holders : ticker'[g] = IF g = h THEN r ELSE ticker[g]
  BY <1>1
<1>3. s \in Slots /\ DueAt[s] <= now /\ DueAt[s] \in Nat
  <2>1. s \in Slots /\ DueAt[s] <= ticker[h].at
    BY DEF Due, Window
  <2>2. ticker[h].at <= now /\ ticker[h].at \in Nat /\ now \in Nat
    BY TickIs DEF Fine, TickOK
  <2> QED
    BY <2>1, <2>2, SlotsAre
<1>4. /\ outcome' \in [Slots -> Outcomes]
      /\ \A x \in Slots : outcome'[x] = IF x = s THEN o ELSE outcome[x]
      /\ Decided' = Decided \cup {s}
  BY <1>3, DecidedGrows DEF IInv
<1>5. UNCHANGED <<now, late, version, approvedAt, active, archived, control, controlAt, archives,
                  controls, missed, policy, incapable, runner, runnerLeft>>
  BY DEF definition, profile, lease
<1>6. TypeOK'
  BY <1>2, <1>4, <1>5 DEF IInv, TypeOK, Ticks
<1>7. ClocksOK' /\ MissedOK'
  <2>1. ClocksOK'
    BY <1>3, <1>4, <1>5 DEF IInv, ClocksOK
  <2>2. missed \subseteq Slots /\ MissedOK /\ Horizon' = Horizon
    BY <1>5 DEF IInv, TypeOK, Horizon
  <2>3. MissedOK'
    BY <1>4, <1>5, <2>2 DEF MissedOK
  <2> QED
    BY <2>1, <2>3
<1>8. ASSUME NEW g \in Holders PROVE (Exclusive(g, ticker[g]) /\ Fine(ticker[g]))'
  <2>1. Exclusive(g, ticker[g]) /\ Fine(ticker[g])
    BY TickIs
  <2>2. Exclusive(g, ticker[g])'
    BY <1>2, <1>5, <2>1 DEF Exclusive
  <2>3. CASE g = h
    BY <1>2, <2>2, <2>3
  <2>4. CASE g # h
    <3>1. PICK x : x = ticker[g]
      OBVIOUS
    <3>2. late = 0 => x.pc = "idle"
      BY <2>4, <3>1, OthersIdle
    <3>3. TickOK(x) /\ VersionOK(x) /\ CursorOK(x) /\ BehindOK(x)
      BY <2>1, <3>1 DEF Fine
    <3>4. TickOK(x)' /\ VersionOK(x)' /\ BehindOK(x)'
      BY <1>5, <3>3 DEF TickOK, VersionOK, BehindOK, Due, Window, ToStart
    <3>5. CursorOK(x)'
      BY <1>4, <1>5, <3>3 DEF CursorOK, Horizon
    <3>6. AheadOK(x)' /\ AccountedOK(x)'
      BY <1>5, <3>2 DEF AheadOK, AccountedOK
    <3> QED
      BY <1>2, <2>2, <2>4, <3>1, <3>4, <3>5, <3>6 DEF Fine
  <2> QED
    BY <2>3, <2>4
<1>9. incapable' \subseteq Holders
  BY <1>5 DEF IInv
<1> QED
  BY <1>6, <1>7, <1>8, <1>9 DEF IInv

LEMMA IdleStaysFine ==
  ASSUME IInv, NEW r, r = [Idle EXCEPT !.yield = 0], now' = now
  PROVE  r \in Ticks /\ Fine(r)' /\ r.pc = "idle"
<1>1. YieldTicks \in Nat /\ now \in Nat
  <2>1. now \in 0 .. MaxTime
    BY LeaseIs
  <2>2. MaxTime \in Nat /\ YieldTicks \in Nat
    BY ScheduleAssumption
  <2> QED
    BY <2>1, <2>2
<1>2. PICK y \in 0 .. YieldTicks : y = 0
  BY <1>1
<1>3. r \in Ticks /\ r.pc = "idle"
  <2>1. r = [Idle EXCEPT !.yield = y]
    BY <1>2
  <2> QED
    BY <2>1, IdleIsFine
<1>4. r.at = 0 /\ r.cursor = [at |-> 0, key |-> NoSlot]
  BY DEF Idle
<1>5. Fine(r)'
  BY <1>1, <1>3, <1>4 DEF Fine, TickOK, VersionOK, CursorOK, BehindOK, AheadOK, AccountedOK, Reading, Acting
<1> QED
  BY <1>3, <1>5

(* A tick goes on after a decision.                                        *)
LEMMA GoesOnFine ==
  ASSUME IInv, NEW h \in Holders, NEW r \in Ticks, ticker[h].pc \in Acting,
         r.pc = "start", r.todo \subseteq ticker[h].todo, r.todo # {},
         r.at = ticker[h].at, r.cursor = ticker[h].cursor,
         r.version = ticker[h].version, r.status = ticker[h].status,
         UNCHANGED <<now, definition, missed, profile, late>>, Decided \subseteq Decided',
         late = 0 => \A d \in Decided', u \in r.todo : d < u,
         late = 0 /\ archives < 2 =>
           \A x \in Due(ticker[h]) :
             x \in r.todo \/ outcome'[x] # "none" \/ x \in passedOver'
             \/ version # ticker[h].version \/ ~active \/ archived
  PROVE  Fine(r)'
<1>1. TickOK(r) /\ VersionOK(r) /\ CursorOK(r) /\ BehindOK(r) /\ Due(r) = Due(ticker[h])
  BY MoveIs
<1>2. UNCHANGED <<now, late, version, approvedAt, active, archived, control, controlAt, archives,
                  missed, policy>>
  BY DEF definition, profile
<1>3. TickOK(r)' /\ VersionOK(r)' /\ BehindOK(r)'
  BY <1>1, <1>2 DEF TickOK, VersionOK, BehindOK, Due, Window, ToStart
<1>4. CursorOK(r)'
  BY <1>1, <1>2 DEF CursorOK, Horizon
<1>5. AheadOK(r)'
  BY <1>2 DEF AheadOK
<1>6. Due(r)' = Due(ticker[h])
  BY <1>1 DEF Due, Window
<1>7. AccountedOK(r)'
  BY <1>2, <1>6 DEF AccountedOK
<1> QED
  BY <1>3, <1>4, <1>5, <1>7 DEF Fine

(* A tick that starts decides its oldest slot left, for the better or not. *)
LEMMA StartDecides ==
  ASSUME IInv, NEW h \in Holders, ticker[h].pc \in {"start", "fail"}, SlotDone(h),
         NEW o \in Outcomes \ {"none"}, outcome[NextSlot(h)] = "none",
         outcome' = [outcome EXCEPT ![NextSlot(h)] = o],
         UNCHANGED <<now, definition, lease, faults, missed, passedOver, profile, late>>,
         held' \subseteq RunKeys, starts' \in [Slots -> Nat],
         \A x \in Slots : x # NextSlot(h) => starts'[x] = starts[x],
         starts'[NextSlot(h)] <= 1,
         ticker[h].pc = "start" => Admitted(ticker[h].version),
         o \in {"started", "existing"} => Admitted(ticker[h].version)
  PROVE  IInv'
<1>1. PICK t : t = ticker[h]
  OBVIOUS
<1>2. PICK s : s = NextSlot(h)
  OBVIOUS
<1>3. /\ TypeOK /\ t \in Ticks /\ Fine(t) /\ t.at \in Nat /\ t.todo \subseteq Slots /\ StartsOK
      /\ t.pc \in {"start", "fail"} /\ t.pc \in Acting /\ t.pc \in Reading \ {"control"}
  BY <1>1, TickIs DEF IInv, Acting, Reading
<1>4. s \in t.todo /\ \A u \in t.todo : s <= u
  BY <1>1, <1>2, SlotDoneIs
<1>5. TickOK(t) /\ BehindOK(t) /\ AheadOK(t) /\ AccountedOK(t) /\ t.todo \subseteq Due(t)
  BY <1>3 DEF Fine, TickOK
<1>6. s \in Due(t) /\ s \in Slots /\ s \in Nat /\ Follows(t.cursor, s) /\ DueAt[s] <= t.at
  <2>1. s \in Due(t)
    BY <1>4, <1>5
  <2>2. s \in Slots /\ Follows(t.cursor, s) /\ DueAt[s] <= t.at
    BY <2>1 DEF Due, Window
  <2> QED
    BY <2>1, <2>2, SlotsAre
<1>7. /\ \A x \in Slots : outcome'[x] = IF x = s THEN o ELSE outcome[x]
      /\ Decided' = Decided \cup {s}
  BY <1>2, <1>3, <1>6, DecidedGrows
<1>8. StartsOK'
  <2>1. ASSUME NEW x \in Slots PROVE starts'[x] <= 1 /\ (outcome'[x] = "none" => starts'[x] = 0)
    BY <1>2, <1>3, <1>7 DEF StartsOK
  <2> QED
    BY <2>1 DEF StartsOK
<1>9. ASSUME o \in {"started", "existing"}, s \in missed PROVE FALSE
  <2>1. t.version = version
    BY <1>1, <1>9 DEF Admitted
  <2>2. t.status \notin {"inactive", "paused"}
    BY <1>3, <1>5 DEF TickOK
  <2>3. ~Follows(t.cursor, s)
    BY <1>3, <1>5, <1>6, <1>9, <2>1, <2>2 DEF BehindOK
  <2> QED
    BY <1>6, <2>3
<1>10. late = 0 => \A d \in Decided, u \in t.todo : d < u
  BY <1>3, <1>5 DEF AheadOK
<1>11. \A x \in Due(t) :
         late = 0 /\ archives < 2 /\ x < s /\ outcome[x] = "none" /\ x \notin passedOver' =>
           version # t.version
  <2>1. ASSUME NEW x \in Due(t), late = 0, archives < 2, x < s, outcome[x] = "none",
               x \notin passedOver', version = t.version
        PROVE  FALSE
    <3>1. x \in Nat
      BY SlotsAre DEF Due, Window
    <3>2. x \notin t.todo
      BY <1>4, <1>6, <2>1, <3>1
    <3>3. t.pc = "start" => active /\ ~archived
      BY <1>1 DEF Admitted
    <3> QED
      BY <1>3, <1>5, <2>1, <3>2, <3>3 DEF AccountedOK
  <2> QED
    BY <2>1
<1>12. NoSlotLost'
  BY <1>1, <1>2, <1>3, <1>6, <1>11, NothingLost
<1>13. PassedOK'
  <2>1. SUFFICES ASSUME late = 0, NEW x \in passedOver
                 PROVE  outcome'[x] \notin {"started", "existing"} /\ \E d \in Decided' : x <= d
    BY DEF PassedOK
  <2>2. x \in Slots /\ x \in Nat /\ outcome[x] \notin {"started", "existing"}
        /\ \E d \in Decided : x <= d
    BY <1>3, <2>1, SlotsAre DEF IInv, TypeOK, PassedOK
  <2>3. PICK d \in Decided : x <= d
    BY <2>2
  <2>4. d < s /\ d \in Nat
    BY <1>4, <1>10, <2>1, SlotsAre DEF Decided
  <2>5. x # s
    BY <1>6, <2>2, <2>3, <2>4
  <2> QED
    BY <1>7, <2>2, <2>5
<1>14. passedOver' \subseteq Slots
  BY <1>3 DEF TypeOK
<1>15. CASE t.todo = {s}
  <2>1. PICK r : r = [Idle EXCEPT !.yield = 0]
    OBVIOUS
  <2>2. r \in Ticks /\ Fine(r)'
    BY <2>1, IdleStaysFine
  <2>3. ticker' = [ticker EXCEPT ![h] = r]
    BY <1>1, <1>2, <1>15, <2>1, SlotDoneIs DEF EndTick
  <2> QED
    BY <1>1, <1>2, <1>3, <1>6, <1>8, <1>9, <1>12, <1>13, <1>14, <2>2, <2>3, Decides
<1>16. CASE t.todo # {s}
  <2>1. PICK left : left = t.todo \ {s}
    OBVIOUS
  <2>2. PICK r : r = [t EXCEPT !.pc = "start", !.todo = left]
    OBVIOUS
  <2>3. left # {} /\ left \subseteq t.todo /\ ticker' = [ticker EXCEPT ![h] = r]
    BY <1>1, <1>2, <1>16, <2>1, <2>2, SlotDoneIs
  <2>4. left \subseteq Slots
    BY <1>3, <2>3
  <2>5. /\ r \in Ticks /\ r.pc = "start" /\ r.todo = left
        /\ r.at = t.at /\ r.cursor = t.cursor /\ r.version = t.version /\ r.status = t.status
    BY <1>3, <2>2, <2>4 DEF Ticks
  <2>6. late = 0 => \A d \in Decided', u \in r.todo : d < u
    <3>1. \A u \in left : u \in t.todo /\ u # s /\ s <= u /\ u \in Nat
      BY <1>4, <2>1, <2>4, SlotsAre
    <3>2. \A u \in left : s < u
      BY <1>6, <3>1
    <3> QED
      BY <1>7, <1>10, <2>5, <3>1, <3>2
  <2>7. ASSUME late = 0, archives < 2, NEW x \in Due(t)
        PROVE  x \in r.todo \/ outcome'[x] # "none" \/ x \in passedOver'
               \/ version # t.version \/ ~active \/ archived
    <3>1. x \in Slots
      BY DEF Due, Window
    <3>2. x \in t.todo \/ outcome[x] # "none" \/ x \in passedOver
          \/ version # t.version \/ ~active \/ archived
      BY <1>3, <1>5, <2>7 DEF AccountedOK
    <3> QED
      BY <1>7, <2>1, <2>5, <3>1, <3>2
  <2>8. Decided \subseteq Decided'
    BY <1>7
  <2>9. Fine(r)'
    BY <1>1, <1>3, <2>3, <2>5, <2>6, <2>7, <2>8, GoesOnFine
  <2> QED
    BY <1>1, <1>2, <1>3, <1>6, <1>8, <1>9, <1>12, <1>13, <1>14, <2>3, <2>5, <2>9, Decides
<1> QED
  BY <1>15, <1>16

LEMMA StartSlotKeeps ==
  ASSUME IInv, NEW h \in Holders, StartSlot(h), UNCHANGED <<profile, late>>
  PROVE  IInv'
<1>1. PICK s : s = NextSlot(h)
  OBVIOUS
<1>2. /\ ticker[h].pc = "start" /\ SlotDone(h)
      /\ UNCHANGED <<now, definition, lease, faults, passedOver, missed>>
  BY DEF StartSlot
<1>3. /\ s \in ticker[h].todo /\ Fine(ticker[h]) /\ ticker[h].todo \subseteq Slots
      /\ held \subseteq RunKeys /\ starts \in [Slots -> Nat] /\ StartsOK
  BY <1>1, <1>2, SlotDoneIs, TickIs DEF IInv, TypeOK
<1>4. s \in Slots /\ starts[s] \in Nat /\ starts[s] <= 1 /\ (outcome[s] = "none" => starts[s] = 0)
  BY <1>3 DEF StartsOK
<1>5. CASE Admitted(ticker[h].version) /\ outcome[s] = "none"
  <2>1. PICK o \in {"started", "existing"} : outcome' = [outcome EXCEPT ![s] = o]
    BY <1>1, <1>5 DEF StartSlot, RecordStarted
  <2>2. held' \subseteq RunKeys
    <3>1. KeyOf[s] \in RunKeys
      BY <1>4, ScheduleAssumption
    <3> QED
      BY <1>1, <1>3, <1>5, <3>1 DEF StartSlot, RecordStarted
  <2>3. starts' = starts \/ starts' = [starts EXCEPT ![s] = starts[s] + 1]
    BY <1>1, <1>5 DEF StartSlot, RecordStarted
  <2>4. starts' \in [Slots -> Nat] /\ (\A x \in Slots : x # s => starts'[x] = starts[x])
        /\ starts'[s] <= 1
    BY <1>3, <1>4, <1>5, <2>3
  <2>5. o \in Outcomes \ {"none"}
    BY <2>1 DEF Outcomes
  <2> QED
    BY <1>1, <1>2, <1>5, <2>1, <2>2, <2>4, <2>5, StartDecides
<1>6. CASE Admitted(ticker[h].version) /\ outcome[s] # "none"
  <2>1. UNCHANGED <<outcome, held, starts>>
    BY <1>1, <1>6 DEF StartSlot, RecordStarted
  <2>2. late # 0
    <3>1. s \in Decided /\ s \in Nat
      BY <1>4, <1>6, SlotsAre DEF Decided
    <3>2. AheadOK(ticker[h])
      BY <1>3 DEF Fine
    <3>3. late = 0 => s < s
      BY <1>2, <1>3, <3>1, <3>2 DEF AheadOK
    <3> QED
      BY <3>1, <3>3
  <2>3. RowsUnchanged
    BY <1>2, <2>1 DEF RowsUnchanged, history
  <2> QED
    BY <1>2, <2>2, <2>3, LeftAloneKeeps
<1>7. CASE ~Admitted(ticker[h].version)
  <2>1. RowsUnchanged
    BY <1>2, <1>7 DEF StartSlot, RowsUnchanged, history
  <2> QED
    BY <1>2, <1>7, <2>1, LeftAloneKeeps
<1> QED
  BY <1>5, <1>6, <1>7

LEMMA RecordFailedKeeps ==
  ASSUME IInv, NEW h \in Holders, RecordFailed(h), UNCHANGED <<profile, late>>
  PROVE  IInv'
<1>1. PICK s : s = NextSlot(h)
  OBVIOUS
<1>2. /\ ticker[h].pc = "fail" /\ SlotDone(h)
      /\ UNCHANGED <<now, definition, held, lease, faults, starts, passedOver, missed>>
      /\ outcome' = [outcome EXCEPT ![s] = IF outcome[s] = "none" THEN "failed" ELSE outcome[s]]
  BY <1>1 DEF RecordFailed, history
<1>3. /\ s \in ticker[h].todo /\ Fine(ticker[h]) /\ ticker[h].todo \subseteq Slots
      /\ held \subseteq RunKeys /\ starts \in [Slots -> Nat] /\ StartsOK
      /\ outcome \in [Slots -> Outcomes]
  BY <1>1, <1>2, SlotDoneIs, TickIs DEF IInv, TypeOK
<1>4. s \in Slots /\ starts[s] <= 1
  BY <1>3 DEF StartsOK
<1>5. CASE outcome[s] = "none"
  <2>1. PICK o \in Outcomes \ {"none"} : o = "failed"
    BY DEF Outcomes
  <2>2. outcome' = [outcome EXCEPT ![s] = o] /\ o \notin {"started", "existing"}
    BY <1>2, <1>5, <2>1
  <2> QED
    BY <1>1, <1>2, <1>3, <1>4, <1>5, <2>2, StartDecides
<1>6. CASE outcome[s] # "none"
  <2>1. outcome' = outcome
    BY <1>2, <1>3, <1>4, <1>6
  <2>2. late # 0
    <3>1. s \in Decided /\ s \in Nat
      BY <1>4, <1>6, SlotsAre DEF Decided
    <3>2. AheadOK(ticker[h])
      BY <1>3 DEF Fine
    <3>3. late = 0 => s < s
      BY <1>2, <1>3, <3>1, <3>2 DEF AheadOK
    <3> QED
      BY <3>1, <3>3
  <2>3. RowsUnchanged
    BY <1>2, <2>1 DEF RowsUnchanged, history
  <2> QED
    BY <1>2, <2>2, <2>3, LeftAloneKeeps
<1> QED
  BY <1>5, <1>6

(* The report of skipped slots comes at or after all of them, and before   *)
(* everything that is started.                                             *)
LEMMA ReportIsLast ==
  ASSUME IInv, NEW h \in Holders, ticker[h].pc = "skip", NEW W, W = Due(ticker[h]),
         NEW looked, looked = Latest(W, ScheduleKeep) \ ticker[h].todo
  PROVE  /\ W \subseteq Slots /\ ticker[h].todo \subseteq W /\ looked \subseteq W \ ticker[h].todo
         /\ W \ ticker[h].todo # {} => looked # {}
         /\ looked # {} => /\ Max(looked) \in looked
                           /\ \A x \in W \ ticker[h].todo : x <= Max(looked)
                           /\ \A u \in ticker[h].todo : Max(looked) < u
<1>1. PICK t : t = ticker[h]
  OBVIOUS
<1>2. /\ Fine(t) /\ t.at \in 0 .. MaxTime /\ t.at \in Nat /\ policy \in Policies /\ t.pc = "skip"
      /\ ScheduleKeep \in Nat
  BY <1>1, TickIs, ScheduleAssumption DEF IInv, TypeOK
<1>3. t.todo = ToStart(t.status, W, t.at)
  BY <1>1, <1>2 DEF Fine, TickOK
<1>4. W \subseteq Slots /\ \A s \in W : DueAt[s] <= t.at
  BY <1>1 DEF Due, Window
<1>5. PICK L : L = Latest(W, ScheduleKeep)
  OBVIOUS
<1>6. t.todo \subseteq L /\ t.todo \subseteq W /\ \A s \in t.todo, u \in L \ t.todo : u < s
  BY <1>2, <1>3, <1>4, <1>5, StartsAreLatest
<1>7. L \subseteq W
  BY <1>5 DEF Latest
<1>8. W \ t.todo # {} => looked # {}
  BY <1>1, <1>2, <1>3, <1>4, <1>5, SkipsAreLookedAt
<1>9. looked = L \ t.todo
  BY <1>1, <1>5
<1>10. ASSUME looked # {}
       PROVE  /\ Max(looked) \in looked
              /\ \A x \in W \ t.todo : x <= Max(looked)
              /\ \A u \in t.todo : Max(looked) < u
  <2>1. looked \subseteq Slots
    BY <1>4, <1>7, <1>9
  <2>2. PICK m : m = Max(looked)
    OBVIOUS
  <2>3. m \in looked /\ \A x \in looked : x <= m
    BY <1>10, <2>1, <2>2, MaxIs
  <2>4. \A u \in t.todo : m < u
    BY <1>6, <1>9, <2>3
  <2>5. ASSUME NEW x \in W \ t.todo PROVE x <= m
    <3>1. x \in Nat /\ m \in Nat
      BY <1>4, <2>1, <2>3, SlotsAre
    <3>2. CASE x \in L
      BY <1>9, <2>3, <3>2
    <3>3. CASE x \notin L
      <4>1. m \in Latest(W, ScheduleKeep) /\ x \in W /\ x \notin Latest(W, ScheduleKeep)
        BY <1>5, <1>9, <2>3, <3>3
      <4>2. ~(m <= x)
        BY <1>2, <1>4, <4>1, LatestIsUpper
      <4> QED
        BY <3>1, <4>2
    <3> QED
      BY <3>2, <3>3
  <2> QED
    BY <2>2, <2>3, <2>4, <2>5
<1> QED
  BY <1>1, <1>4, <1>6, <1>7, <1>8, <1>9, <1>10

(* The tick after the report.                                              *)
LEMMA SkipMoves ==
  ASSUME IInv, NEW h \in Holders, RecordSkipped(h), UNCHANGED <<profile, late>>,
         Decided \subseteq Decided',
         late = 0 => \A d \in Decided', u \in ticker[h].todo : d < u,
         late = 0 => Due(ticker[h]) \ ticker[h].todo \subseteq passedOver'
  PROVE  \E r \in Ticks : /\ Fine(r)' /\ ticker' = [ticker EXCEPT ![h] = r]
                          /\ ticker[h].pc # "idle" \/ r.pc = "idle"
<1>1. PICK t : t = ticker[h]
  OBVIOUS
<1>2. t \in Ticks /\ t.pc = "skip" /\ t.pc \in Acting /\ UNCHANGED <<now, definition, missed>>
  BY <1>1, TickIs DEF RecordSkipped, Acting
<1>3. CASE t.todo = {}
  <2>1. PICK r : r = [Idle EXCEPT !.yield = 0]
    OBVIOUS
  <2>2. r \in Ticks /\ Fine(r)' /\ r.pc = "idle"
    BY <1>2, <2>1, IdleStaysFine
  <2>3. ticker' = [ticker EXCEPT ![h] = r]
    BY <1>1, <1>3, <2>1 DEF RecordSkipped, EndTick
  <2> QED
    BY <2>2, <2>3
<1>4. CASE t.todo # {}
  <2>1. PICK r : r = [t EXCEPT !.pc = "start"]
    OBVIOUS
  <2>2. /\ r \in Ticks /\ r.pc = "start" /\ r.todo = t.todo
        /\ r.at = t.at /\ r.cursor = t.cursor /\ r.version = t.version /\ r.status = t.status
    BY <1>2, <2>1 DEF Ticks
  <2>3. ticker' = [ticker EXCEPT ![h] = r]
    BY <1>1, <1>4, <2>1 DEF RecordSkipped, Go
  <2>4. Fine(r)'
    BY <1>1, <1>2, <1>4, <2>2, GoesOnFine
  <2> QED
    BY <1>1, <1>2, <2>2, <2>3, <2>4
<1> QED
  BY <1>3, <1>4

LEMMA RecordSkippedKeeps ==
  ASSUME IInv, NEW h \in Holders, RecordSkipped(h), UNCHANGED <<profile, late>>
  PROVE  IInv'
<1>1. PICK t : t = ticker[h]
  OBVIOUS
<1>2. PICK W : W = Due(t)
  OBVIOUS
<1>3. PICK looked : looked = Latest(W, ScheduleKeep) \ t.todo
  OBVIOUS
<1>4. PICK s : s = Max(looked)
  OBVIOUS
<1>5. /\ t.pc = "skip" /\ t.pc \in Acting
      /\ UNCHANGED <<now, definition, held, lease, faults, starts, missed>>
      /\ outcome' = IF looked # {} /\ outcome[s] = "none" THEN [outcome EXCEPT ![s] = "skipped"]
                                                          ELSE outcome
      /\ passedOver' = IF looked # {} /\ outcome[s] = "none" THEN passedOver \cup (W \ t.todo)
                                                            ELSE passedOver
  BY <1>1, <1>2, <1>3, <1>4 DEF RecordSkipped, Due, Acting
<1>6. /\ TypeOK /\ StartsOK /\ PassedOK /\ Fine(t) /\ t.todo \subseteq Slots /\ starts \in [Slots -> Nat]
      /\ held \subseteq RunKeys /\ passedOver \subseteq Slots /\ Decided \subseteq Slots
  BY <1>1, TickIs DEF IInv, TypeOK, Decided
<1>7. /\ W \subseteq Slots /\ t.todo \subseteq W /\ looked \subseteq W \ t.todo
      /\ W \ t.todo # {} => looked # {}
      /\ looked # {} => s \in looked /\ (\A x \in W \ t.todo : x <= s) /\ (\A u \in t.todo : s < u)
  BY <1>1, <1>2, <1>3, <1>4, <1>5, ReportIsLast
<1>8. late = 0 => \A d \in Decided, u \in W : d < u
  BY <1>2, <1>5, <1>6 DEF Fine, AheadOK
<1>9. CASE looked # {} /\ outcome[s] = "none"
  <2>1. PICK o \in Outcomes \ {"none"} : o = "skipped"
    BY DEF Outcomes
  <2>2. outcome' = [outcome EXCEPT ![s] = o] /\ passedOver' = passedOver \cup (W \ t.todo)
        /\ o \notin {"started", "existing"}
    BY <1>5, <1>9, <2>1
  <2>3. s \in W /\ s \in Slots /\ s \notin t.todo
    BY <1>7, <1>9
  <2>4. /\ \A x \in Slots : outcome'[x] = IF x = s THEN o ELSE outcome[x]
        /\ Decided' = Decided \cup {s}
    BY <1>6, <1>9, <2>2, <2>3, DecidedGrows
  <2>5. StartsOK'
    BY <1>5, <1>6, <2>4 DEF StartsOK
  <2>6. PassedOK'
    <3>1. SUFFICES ASSUME late = 0, NEW x \in passedOver'
                   PROVE  outcome'[x] \notin {"started", "existing"} /\ \E d \in Decided' : x <= d
      BY DEF PassedOK
    <3>2. CASE x \in passedOver
      BY <1>6, <2>2, <2>4, <3>1, <3>2 DEF PassedOK
    <3>3. CASE x \in W \ t.todo
      <4>1. x <= s /\ x \in Slots /\ x \in Nat
        BY <1>7, <1>9, <3>3, SlotsAre
      <4>2. x \notin Decided
        BY <1>8, <3>1, <3>3, <4>1
      <4>3. outcome[x] = "none"
        BY <4>1, <4>2 DEF Decided
      <4> QED
        BY <2>2, <2>4, <4>1, <4>3
    <3> QED
      BY <2>2, <3>2, <3>3
  <2>7. NoSlotLost'
    <3>1. ASSUME NEW x \in W, x < s, x \notin passedOver' PROVE FALSE
      <4>1. x \in t.todo /\ s < x /\ x \in Nat /\ s \in Nat
        BY <1>7, <1>9, <2>2, <2>3, <3>1, SlotsAre
      <4> QED
        BY <3>1, <4>1
    <3> QED
      BY <1>1, <1>2, <1>5, <1>9, <2>2, <2>3, <3>1, NothingLost
  <2>8. passedOver' \subseteq Slots
    BY <1>6, <1>7, <2>2
  <2>9. late = 0 => \A d \in Decided', u \in t.todo : d < u
    BY <1>7, <1>8, <1>9, <2>4
  <2>10. W \ t.todo \subseteq passedOver' /\ Decided \subseteq Decided'
    BY <2>2, <2>4
  <2>11. PICK r \in Ticks : Fine(r)' /\ ticker' = [ticker EXCEPT ![h] = r]
    BY <1>1, <1>2, <2>9, <2>10, SkipMoves
  <2> QED
    BY <1>1, <1>2, <1>5, <1>6, <1>9, <2>2, <2>3, <2>5, <2>6, <2>7, <2>8, <2>11, Decides
<1>10. CASE ~(looked # {} /\ outcome[s] = "none")
  <2>1. UNCHANGED <<outcome, passedOver>>
    BY <1>5, <1>10
  <2>2. late = 0 => looked = {}
    <3>1. ASSUME late = 0, looked # {} PROVE FALSE
      <4>1. s \in W /\ s \in Slots /\ s \in Nat /\ outcome[s] # "none"
        BY <1>7, <1>10, <3>1, SlotsAre
      <4>2. s < s
        BY <1>8, <3>1, <4>1 DEF Decided
      <4> QED
        BY <4>1, <4>2
    <3> QED
      BY <3>1
  <2>3. late = 0 => W \ t.todo = {}
    BY <1>7, <2>2
  <2>4. late = 0 => \A d \in Decided', u \in t.todo : d < u
    BY <1>7, <1>8, <2>1 DEF Decided
  <2>5. Decided \subseteq Decided'
    BY <2>1 DEF Decided
  <2>6. PICK r \in Ticks : /\ Fine(r)' /\ ticker' = [ticker EXCEPT ![h] = r]
                           /\ ticker[h].pc # "idle" \/ r.pc = "idle"
    BY <1>1, <1>2, <2>3, <2>4, <2>5, SkipMoves
  <2>7. Fine(r)
    <3>1. UNCHANGED <<now, late, version, approvedAt, active, archived, control, controlAt, outcome,
                      archives, passedOver, missed, policy>>
      BY <1>5, <2>1 DEF definition, profile
    <3> QED
      BY <2>6, <3>1 DEF Fine, TickOK, VersionOK, CursorOK, BehindOK, AheadOK, AccountedOK, Due, Window,
                        ToStart, Horizon, Decided
  <2>8. RowsUnchanged /\ UNCHANGED lease /\ faults' \in 0 .. MaxFaults
    BY <1>5, <2>1, LeaseIs DEF RowsUnchanged, history
  <2> QED
    BY <2>6, <2>7, <2>8, TickGoesOn
<1> QED
  BY <1>9, <1>10

-----------------------------------------------------------------------------
(* The owner's steps.                                                      *)

(* A cursor that starts now leaves nothing behind it to lose.              *)
LEMMA StartsNow ==
  ASSUME IInv, Horizon' = now, outcome' = outcome, missed' = missed
  PROVE  NoSlotLost' /\ MissedOK'
<1>1. TypeOK /\ Decided \subseteq Slots /\ missed \subseteq Slots /\ now \in Nat
  <2>1. now \in 0 .. MaxTime
    BY LeaseIs
  <2>2. MaxTime \in Nat
    BY ScheduleAssumption
  <2> QED
    BY <2>1, <2>2 DEF IInv, TypeOK, Decided
<1>2. ASSUME NEW x \in Lost' PROVE FALSE
  <2>1. x \in Slots /\ DueAt[x] > now /\ Decided' = Decided
    BY DEF Lost, Decided
  <2>2. Decided # {} => Max(Decided) \in Decided /\ Max(Decided) \in Slots
    BY <1>1, MaxIs
  <2>3. x \in Nat /\ DueAt[x] \in Nat
    BY <2>1, SlotsAre
  <2>4. Decided # {}
    <3>1. Decided = {} => x < NoSlot
      BY <2>1 DEF Lost
    <3> QED
      BY <2>3, <3>1 DEF NoSlot
  <2>5. PICK m \in Decided : x < m
    <3>1. x < Max(Decided)
      BY <2>1, <2>4 DEF Lost
    <3> QED
      BY <2>2, <2>4, <3>1
  <2>6. m \in Slots /\ m \in Nat /\ DueAt[m] \in Nat /\ DueAt[m] <= now
    <3>1. ClocksOK /\ m \in Slots
      BY <1>1 DEF IInv
    <3> QED
      BY <3>1, SlotsAre DEF ClocksOK, Decided
  <2>7. DueAt[x] <= DueAt[m]
    BY <2>1, <2>3, <2>5, <2>6, SlotsAre
  <2> QED
    BY <1>1, <2>1, <2>3, <2>6, <2>7
<1>3. MissedOK'
  <2>1. ASSUME NEW s \in missed
        PROVE  outcome[s] \notin {"started", "existing"} /\ DueAt[s] <= now
    BY <1>1 DEF IInv, MissedOK, ClocksOK
  <2> QED
    BY <2>1 DEF MissedOK
<1> QED
  BY <1>2, <1>3 DEF NoSlotLost

(* The owner changes the definition; no tick notices yet.                  *)
LEMMA DefinitionMoves ==
  ASSUME IInv, TickersUnchanged, UNCHANGED <<profile, late>>,
         version' \in 1 .. MaxVersion, approvedAt' \in 0 .. MaxTime, controlAt' \in 0 .. MaxTime,
         active' \in BOOLEAN, archived' \in BOOLEAN, control' \in {"none", "pause", "resume"},
         controls' \in 0 .. MaxControls, archives' \in 0 .. MaxArchives,
         approvedAt' <= now, controlAt' <= now, archived' => archives' >= 1,
         MissedOK', NoSlotLost',
         \A h \in Holders : /\ VersionOK(ticker[h])' /\ CursorOK(ticker[h])' /\ BehindOK(ticker[h])'
                            /\ AccountedOK(ticker[h])'
  PROVE  IInv'
<1>1. /\ UNCHANGED <<now, outcome, held, runner, runnerLeft, ticker, faults, starts, passedOver, missed>>
      /\ UNCHANGED <<policy, incapable, late>>
  BY DEF TickersUnchanged, lease, history, profile
<1>2. TypeOK'
  BY <1>1 DEF IInv, TypeOK
<1>3. ClocksOK' /\ StartsOK' /\ PassedOK' /\ incapable' \subseteq Holders
  BY <1>1 DEF IInv, ClocksOK, StartsOK, PassedOK, Decided
<1>4. ASSUME NEW h \in Holders PROVE (Exclusive(h, ticker[h]) /\ Fine(ticker[h]))'
  <2>1. Exclusive(h, ticker[h]) /\ TickOK(ticker[h]) /\ AheadOK(ticker[h])
    BY TickIs DEF Fine
  <2>2. Exclusive(h, ticker[h])'
    BY <1>1, <2>1 DEF Exclusive
  <2>3. TickOK(ticker[h])' /\ AheadOK(ticker[h])'
    BY <1>1, <2>1 DEF TickOK, AheadOK, Due, Window, ToStart, Decided
  <2> QED
    BY <2>2, <2>3 DEF Fine
<1> QED
  BY <1>2, <1>3, <1>4 DEF IInv

LEMMA DefinitionIs ==
  ASSUME IInv
  PROVE  /\ version \in 1 .. MaxVersion /\ approvedAt \in 0 .. MaxTime /\ controlAt \in 0 .. MaxTime
         /\ active \in BOOLEAN /\ archived \in BOOLEAN /\ control \in {"none", "pause", "resume"}
         /\ controls \in 0 .. MaxControls /\ archives \in 0 .. MaxArchives /\ now \in 0 .. MaxTime
         /\ approvedAt <= now /\ controlAt <= now /\ (archived => archives >= 1)
         /\ MissedOK /\ NoSlotLost
         /\ version \in Nat /\ approvedAt \in Nat /\ controlAt \in Nat /\ now \in Nat
         /\ MaxTime \in Nat /\ MaxVersion \in Nat /\ MaxControls \in Nat /\ MaxArchives \in Nat
<1>1. MaxTime \in Nat /\ MaxVersion \in Nat /\ MaxControls \in Nat /\ MaxArchives \in Nat
  BY ScheduleAssumption
<1>2. /\ version \in 1 .. MaxVersion /\ approvedAt \in 0 .. MaxTime /\ controlAt \in 0 .. MaxTime
      /\ active \in BOOLEAN /\ archived \in BOOLEAN /\ control \in {"none", "pause", "resume"}
      /\ controls \in 0 .. MaxControls /\ archives \in 0 .. MaxArchives /\ now \in 0 .. MaxTime
      /\ approvedAt <= now /\ controlAt <= now /\ (archived => archives >= 1)
      /\ MissedOK /\ NoSlotLost
  BY DEF IInv, TypeOK, ClocksOK
<1>3. version \in Nat /\ approvedAt \in Nat /\ controlAt \in Nat /\ now \in Nat
  BY <1>1, <1>2
<1> QED
  BY <1>1, <1>2, <1>3

LEMMA ControlKeeps ==
  ASSUME IInv, NEW action \in {"pause", "resume"}, ControlSchedule(action), UNCHANGED <<profile, late>>
  PROVE  IInv'
<1>1. /\ control' = action /\ controlAt' = now /\ TickersUnchanged
      /\ UNCHANGED <<version, approvedAt, active, archived, archives>>
      /\ controls < MaxControls /\ controls' = controls + 1
      /\ UNCHANGED <<now, outcome, ticker, missed, passedOver>>
  BY DEF ControlSchedule, OwnerActs, TickersUnchanged, history
<1>2. /\ version' \in 1 .. MaxVersion /\ approvedAt' \in 0 .. MaxTime /\ controlAt' \in 0 .. MaxTime
      /\ active' \in BOOLEAN /\ archived' \in BOOLEAN /\ control' \in {"none", "pause", "resume"}
      /\ archives' \in 0 .. MaxArchives
      /\ approvedAt' <= now /\ controlAt' <= now /\ (archived' => archives' >= 1)
  BY <1>1, DefinitionIs
<1>3. controls' \in 0 .. MaxControls
  <2>1. controls \in 0 .. MaxControls /\ MaxControls \in Nat
    BY DefinitionIs
  <2> QED
    BY <1>1, <2>1
<1>4. control' # "pause" => Horizon' = now
  <2>1. approvedAt \in Nat /\ now \in Nat /\ approvedAt <= now
    BY DefinitionIs
  <2> QED
    BY <1>1, <2>1 DEF Horizon
<1>5. MissedOK' /\ NoSlotLost'
  <2>1. CASE action = "pause"
    BY <1>1, <2>1, DefinitionIs DEF MissedOK, NoSlotLost
  <2>2. CASE action = "resume"
    BY <1>1, <1>4, <2>2, StartsNow
  <2> QED
    BY <2>1, <2>2
<1>6. ASSUME NEW h \in Holders
      PROVE  /\ VersionOK(ticker[h])' /\ CursorOK(ticker[h])' /\ BehindOK(ticker[h])'
             /\ AccountedOK(ticker[h])'
  <2>1. PICK t : t = ticker[h]
    OBVIOUS
  <2>2. TickOK(t) /\ VersionOK(t) /\ CursorOK(t) /\ BehindOK(t) /\ AccountedOK(t)
    BY <2>1, TickIs DEF Fine
  <2>3. VersionOK(t)' /\ BehindOK(t)' /\ AccountedOK(t)'
    BY <1>1, <2>2 DEF VersionOK, BehindOK, AccountedOK, Due, Window
  <2>4. CursorOK(t)'
    <3>1. t.cursor.at <= now
      BY <2>2 DEF TickOK
    <3> QED
      BY <1>1, <1>4, <2>2, <3>1 DEF CursorOK, Decided
  <2> QED
    BY <1>1, <2>1, <2>3, <2>4
<1> QED
  BY <1>1, <1>2, <1>3, <1>5, <1>6, DefinitionMoves

LEMMA ActivateKeeps ==
  ASSUME IInv, ActivateWorkflow, UNCHANGED <<profile, late>>
  PROVE  IInv'
<1>1. /\ version' = version + 1 /\ version < MaxVersion /\ approvedAt' = now /\ active' = TRUE
      /\ control' = "none" /\ controlAt' = now /\ TickersUnchanged
      /\ UNCHANGED <<archived, archives, controls>>
      /\ UNCHANGED <<now, outcome, ticker, missed, passedOver>>
  BY DEF ActivateWorkflow, TickersUnchanged, history
<1>2. /\ approvedAt' \in 0 .. MaxTime /\ controlAt' \in 0 .. MaxTime
      /\ active' \in BOOLEAN /\ archived' \in BOOLEAN /\ control' \in {"none", "pause", "resume"}
      /\ controls' \in 0 .. MaxControls /\ archives' \in 0 .. MaxArchives
      /\ approvedAt' <= now /\ controlAt' <= now /\ (archived' => archives' >= 1)
  BY <1>1, DefinitionIs
<1>3. version' \in 1 .. MaxVersion
  <2>1. version \in 1 .. MaxVersion /\ MaxVersion \in Nat
    BY DefinitionIs
  <2> QED
    BY <1>1, <2>1
<1>4. Horizon' = now
  BY <1>1 DEF Horizon
<1>5. MissedOK' /\ NoSlotLost'
  BY <1>1, <1>4, StartsNow
<1>6. ASSUME NEW h \in Holders
      PROVE  /\ VersionOK(ticker[h])' /\ CursorOK(ticker[h])' /\ BehindOK(ticker[h])'
             /\ AccountedOK(ticker[h])'
  <2>1. PICK t : t = ticker[h]
    OBVIOUS
  <2>2. TickOK(t) /\ VersionOK(t) /\ CursorOK(t) /\ t \in Ticks
    BY <2>1, TickIs DEF Fine
  <2>3. t.pc \in Reading => t.version < version' /\ t.version # version' /\ t.version <= version'
    <3>1. t.version \in 0 .. MaxVersion /\ MaxVersion \in Nat /\ version \in Nat
      BY <2>2, DefinitionIs DEF Ticks
    <3>2. t.pc \in Reading => t.version <= version
      BY <2>2 DEF VersionOK
    <3> QED
      BY <1>1, <3>1, <3>2
  <2>4. t.at <= now
    BY <2>2 DEF TickOK
  <2>5. {"control", "start", "fail"} \subseteq Reading
    BY DEF Reading, Acting
  <2>6. VersionOK(t)'
    BY <1>1, <2>3, <2>4, <2>5 DEF VersionOK
  <2>7. CursorOK(t)'
    BY <1>1, <2>2, <2>3 DEF CursorOK, Decided
  <2>8. BehindOK(t)'
    BY <1>1, <2>3 DEF BehindOK
  <2>9. AccountedOK(t)'
    BY <1>1, <2>3, <2>5 DEF AccountedOK
  <2> QED
    BY <1>1, <2>1, <2>6, <2>7, <2>8, <2>9
<1> QED
  BY <1>1, <1>2, <1>3, <1>5, <1>6, DefinitionMoves

LEMMA DeactivateKeeps ==
  ASSUME IInv, DeactivateWorkflow, UNCHANGED <<profile, late>>
  PROVE  IInv'
<1>1. /\ active' = FALSE /\ TickersUnchanged
      /\ UNCHANGED <<version, approvedAt, archived, control, controlAt, archives>>
      /\ controls < MaxControls /\ controls' = controls + 1
      /\ UNCHANGED <<now, outcome, ticker, missed, passedOver>>
  BY DEF DeactivateWorkflow, OwnerActs, TickersUnchanged, history
<1>2. /\ version' \in 1 .. MaxVersion /\ approvedAt' \in 0 .. MaxTime /\ controlAt' \in 0 .. MaxTime
      /\ active' \in BOOLEAN /\ archived' \in BOOLEAN /\ control' \in {"none", "pause", "resume"}
      /\ archives' \in 0 .. MaxArchives
      /\ approvedAt' <= now /\ controlAt' <= now /\ (archived' => archives' >= 1)
  BY <1>1, DefinitionIs
<1>3. controls' \in 0 .. MaxControls
  <2>1. controls \in 0 .. MaxControls /\ MaxControls \in Nat
    BY DefinitionIs
  <2> QED
    BY <1>1, <2>1
<1>4. MissedOK' /\ NoSlotLost'
  BY <1>1, DefinitionIs DEF MissedOK, NoSlotLost, Lost, Horizon, Decided
<1>5. ASSUME NEW h \in Holders
      PROVE  /\ VersionOK(ticker[h])' /\ CursorOK(ticker[h])' /\ BehindOK(ticker[h])'
             /\ AccountedOK(ticker[h])'
  <2>1. PICK t : t = ticker[h]
    OBVIOUS
  <2>2. VersionOK(t) /\ CursorOK(t) /\ BehindOK(t) /\ AccountedOK(t)
    BY <2>1, TickIs DEF Fine
  <2>3. VersionOK(t)' /\ BehindOK(t)' /\ CursorOK(t)'
    BY <1>1, <2>2 DEF VersionOK, BehindOK, CursorOK, Horizon, Decided
  <2>4. AccountedOK(t)'
    BY <1>1, <2>2 DEF AccountedOK, Due, Window
  <2> QED
    BY <1>1, <2>1, <2>3, <2>4
<1> QED
  BY <1>1, <1>2, <1>3, <1>4, <1>5, DefinitionMoves

LEMMA ArchiveKeeps ==
  ASSUME IInv, ArchiveWorkspace, UNCHANGED <<profile, late>>
  PROVE  IInv'
<1>1. /\ archived' = ~archived /\ TickersUnchanged
      /\ UNCHANGED <<version, approvedAt, active, control, controlAt, controls>>
      /\ archives < MaxArchives /\ archives' = archives + 1
      /\ UNCHANGED <<now, outcome, ticker, missed, passedOver>>
  BY DEF ArchiveWorkspace, TickersUnchanged, history
<1>2. /\ version' \in 1 .. MaxVersion /\ approvedAt' \in 0 .. MaxTime /\ controlAt' \in 0 .. MaxTime
      /\ active' \in BOOLEAN /\ control' \in {"none", "pause", "resume"}
      /\ controls' \in 0 .. MaxControls /\ approvedAt' <= now /\ controlAt' <= now
  BY <1>1, DefinitionIs
<1>3. archived' \in BOOLEAN
  <2>1. archived \in BOOLEAN /\ archived' = ~archived
    BY <1>1, DefinitionIs
  <2> QED
    BY <2>1
<1>4. archives \in 0 .. MaxArchives /\ MaxArchives \in Nat /\ (archived => archives >= 1)
  BY DefinitionIs
<1>5. /\ archives' \in 0 .. MaxArchives /\ archives' >= 1
      /\ archives' < 2 => archives < 2 /\ ~archived /\ archived'
  <2>1. archives' \in 0 .. MaxArchives /\ archives' >= 1 /\ (archives' < 2 => archives < 2 /\ ~archived)
    BY <1>1, <1>4
  <2>2. ~archived => archived'
    BY <1>1
  <2> QED
    BY <2>1, <2>2
<1>6. MissedOK' /\ NoSlotLost'
  <2>1. MissedOK /\ NoSlotLost /\ Horizon' = Horizon /\ Lost' = Lost
    BY <1>1, DefinitionIs DEF Horizon, Lost, Decided
  <2>2. MissedOK'
    BY <1>1, <2>1 DEF MissedOK
  <2>3. NoSlotLost'
    BY <1>1, <1>5, <2>1 DEF NoSlotLost
  <2> QED
    BY <2>2, <2>3
<1>7. ASSUME NEW h \in Holders
      PROVE  /\ VersionOK(ticker[h])' /\ CursorOK(ticker[h])' /\ BehindOK(ticker[h])'
             /\ AccountedOK(ticker[h])'
  <2>1. PICK t : t = ticker[h]
    OBVIOUS
  <2>2. VersionOK(t) /\ CursorOK(t) /\ BehindOK(t) /\ AccountedOK(t)
    BY <2>1, TickIs DEF Fine
  <2>3. VersionOK(t)' /\ BehindOK(t)' /\ CursorOK(t)'
    BY <1>1, <2>2 DEF VersionOK, BehindOK, CursorOK, Horizon, Decided
  <2>4. Due(t)' = Due(t)
    BY DEF Due, Window
  <2>5. AccountedOK(t)'
    BY <1>1, <1>5, <2>2, <2>4 DEF AccountedOK
  <2> QED
    BY <1>1, <2>1, <2>3, <2>5
<1> QED
  BY <1>1, <1>2, <1>3, <1>5, <1>6, <1>7, DefinitionMoves

-----------------------------------------------------------------------------
(* The runs and the clock.                                                 *)

LEMMA RunsKeep ==
  ASSUME IInv, NEW k \in RunKeys, StartManually(k) \/ RunFails(k), UNCHANGED <<profile, late>>
  PROVE  IInv'
<1>1. /\ held' = held \cup {k} \/ held' = held \ {k}
      /\ UNCHANGED <<now, version, approvedAt, active, archived, control, controlAt, archives, controls,
                     outcome, runner, runnerLeft, ticker, starts, passedOver, missed, policy,
                     incapable, late>>
      /\ faults < MaxFaults /\ faults' = faults + 1
  BY DEF StartManually, RunFails, definition, lease, history, profile
<1>2. faults' \in 0 .. MaxFaults /\ held' \subseteq RunKeys
  <2>1. faults \in 0 .. MaxFaults /\ MaxFaults \in Nat /\ held \subseteq RunKeys
    BY LeaseIs DEF IInv, TypeOK
  <2> QED
    BY <1>1, <2>1
<1>3. TypeOK'
  BY <1>1, <1>2 DEF IInv, TypeOK
<1>4. (incapable \subseteq Holders /\ ClocksOK /\ StartsOK /\ MissedOK /\ PassedOK /\ NoSlotLost)'
  BY <1>1 DEF IInv, ClocksOK, StartsOK, MissedOK, PassedOK, NoSlotLost, Lost, Horizon, Decided
<1>5. ASSUME NEW h \in Holders PROVE (Exclusive(h, ticker[h]) /\ Fine(ticker[h]))'
  <2>1. PICK x : x = ticker[h]
    OBVIOUS
  <2>2. Exclusive(h, x) /\ Fine(x)
    BY <2>1, TickIs
  <2>3. Fine(x)'
    BY <1>1, <2>2, FineKept
  <2>4. Exclusive(h, x)'
    BY <1>1, <2>2 DEF Exclusive
  <2> QED
    BY <1>1, <2>1, <2>3, <2>4
<1> QED
  BY <1>3, <1>4, <1>5 DEF IInv

LEMMA ClockKeeps ==
  ASSUME IInv, Clock
  PROVE  IInv'
<1>1. /\ UNCHANGED <<version, approvedAt, active, archived, control, controlAt, archives, controls>>
      /\ UNCHANGED <<policy, incapable, outcome, held, runner, faults, starts, passedOver>>
      /\ runnerLeft' = Less(runnerLeft)
      /\ ticker' = [h \in Holders |-> [ticker[h] EXCEPT !.yield = Less(@)]]
      /\ missed' = IF control = "pause"
                   THEN missed \cup {s \in Slots : now < DueAt[s] /\ DueAt[s] <= now'} ELSE missed
  BY DEF Clock, definition, profile
<1>2. now \in 0 .. MaxTime /\ now \in Nat /\ MaxTime \in Nat /\ approvedAt \in Nat /\ controlAt \in Nat
  BY DefinitionIs
<1>3. now' \in 0 .. MaxTime /\ now' \in Nat /\ now <= now'
  <2>1. now' = Min({now + 1, MaxTime}) /\ now + 1 \in Nat
    BY <1>2 DEF Clock
  <2>2. now' = IF now + 1 <= MaxTime THEN now + 1 ELSE MaxTime
    BY <1>2, <2>1, MinOfTwo
  <2> QED
    BY <1>2, <2>2
<1>4. late \in 0 .. MaxLate /\ late' \in 0 .. MaxLate /\ (late' = 0 => late = 0 /\ Punctual)
  <2>1. late \in 0 .. MaxLate /\ MaxLate \in Nat
    BY ScheduleAssumption DEF IInv, TypeOK
  <2>2. IF Punctual THEN late' = late ELSE late < MaxLate /\ late' = late + 1
    BY DEF Clock
  <2>3. CASE Punctual
    BY <2>1, <2>2, <2>3
  <2>4. CASE ~Punctual
    BY <2>1, <2>2, <2>4
  <2> QED
    BY <2>3, <2>4
<1>5. runnerLeft \in 0 .. RunnerTicks /\ RunnerTicks \in Nat /\ YieldTicks \in Nat
  BY LeaseIs
<1>6. runnerLeft' \in 0 .. RunnerTicks /\ (runnerLeft > 1 => runnerLeft' >= 1)
  BY <1>1, <1>5 DEF Less
<1>7. ASSUME NEW h \in Holders
      PROVE  /\ ticker'[h] \in Ticks
             /\ ticker'[h].pc = ticker[h].pc /\ ticker'[h].at = ticker[h].at
             /\ ticker'[h].version = ticker[h].version /\ ticker'[h].status = ticker[h].status
             /\ ticker'[h].cursor = ticker[h].cursor /\ ticker'[h].todo = ticker[h].todo
  <2>1. ticker[h] \in Ticks
    BY TickIs
  <2>2. PICK y : y = Less(ticker[h].yield)
    OBVIOUS
  <2>3. ticker[h].yield \in 0 .. YieldTicks
    BY <2>1 DEF Ticks
  <2>4. y \in 0 .. YieldTicks
    BY <1>5, <2>2, <2>3 DEF Less
  <2>5. ticker'[h] = [ticker[h] EXCEPT !.yield = y]
    BY <1>1, <2>2
  <2> QED
    BY <2>1, <2>4, <2>5 DEF Ticks
<1>8. ticker' \in [Holders -> Ticks]
  BY <1>1, <1>7
<1>9. missed \subseteq Slots /\ missed' \subseteq Slots
      /\ \A s \in missed' : s \in missed \/ (control = "pause" /\ now < DueAt[s] /\ DueAt[s] <= now')
  <2>1. missed \subseteq Slots
    BY DEF IInv, TypeOK
  <2>2. CASE control = "pause"
    <3>1. missed' = missed \cup {s \in Slots : now < DueAt[s] /\ DueAt[s] <= now'}
      BY <1>1, <2>2
    <3> QED
      BY <2>1, <2>2, <3>1
  <2>3. CASE control # "pause"
    BY <1>1, <2>1, <2>3
  <2> QED
    BY <2>2, <2>3
<1>10. TypeOK'
  BY <1>1, <1>3, <1>4, <1>6, <1>8, <1>9 DEF IInv, TypeOK, Ticks
<1>11. ClocksOK'
  <2>1. ClocksOK
    BY DEF IInv
  <2>2. approvedAt' <= now' /\ controlAt' <= now' /\ (archived' => archives' >= 1)
    BY <1>1, <1>2, <1>3, <2>1 DEF ClocksOK
  <2>3. ASSUME NEW s \in Slots, outcome'[s] # "none" \/ s \in missed' PROVE DueAt[s] <= now'
    <3>1. DueAt[s] \in Nat
      BY SlotsAre
    <3>2. DueAt[s] <= now \/ DueAt[s] <= now'
      BY <1>1, <1>9, <2>1, <2>3 DEF ClocksOK
    <3> QED
      BY <1>2, <1>3, <3>1, <3>2
  <2> QED
    BY <2>2, <2>3 DEF ClocksOK
<1>12. MissedOK'
  <2>1. ASSUME NEW s \in missed'
        PROVE  outcome[s] \notin {"started", "existing"} /\ (control = "pause" \/ DueAt[s] <= Horizon)
    <3>1. CASE s \in missed
      BY <3>1 DEF IInv, MissedOK
    <3>2. CASE control = "pause" /\ now < DueAt[s]
      <4>1. s \in Slots /\ DueAt[s] \in Nat
        BY <1>9, SlotsAre
      <4>2. outcome[s] # "none" => DueAt[s] <= now
        BY <4>1 DEF IInv, ClocksOK
      <4> QED
        BY <1>2, <3>2, <4>1, <4>2
    <3> QED
      BY <1>9, <3>1, <3>2
  <2>2. Horizon' = Horizon
    BY <1>1 DEF Horizon
  <2> QED
    BY <1>1, <2>1, <2>2 DEF MissedOK
<1>13. StartsOK' /\ PassedOK' /\ NoSlotLost' /\ incapable' \subseteq Holders
  BY <1>1, <1>4 DEF IInv, StartsOK, PassedOK, NoSlotLost, Lost, Horizon, Decided
<1>14. ASSUME NEW h \in Holders PROVE (Exclusive(h, ticker[h]) /\ Fine(ticker[h]))'
  <2>1. Fine(ticker[h]) /\ Exclusive(h, ticker[h]) /\ ticker[h].at \in Nat /\ ticker[h].cursor.at \in Nat
    BY TickIs
  <2>2. PICK t : t = ticker[h]
    OBVIOUS
  <2>3. PICK x : x = ticker'[h]
    OBVIOUS
  <2>4. /\ x.pc = t.pc /\ x.at = t.at /\ x.version = t.version /\ x.status = t.status
        /\ x.cursor = t.cursor /\ x.todo = t.todo
    BY <1>7, <2>2, <2>3
  <2>5. TickOK(t) /\ VersionOK(t) /\ CursorOK(t) /\ BehindOK(t) /\ AheadOK(t) /\ AccountedOK(t)
    BY <2>1, <2>2 DEF Fine
  <2>6. TickOK(x)'
    <3>1. t.at <= now' /\ t.cursor.at <= now'
      BY <1>2, <1>3, <2>1, <2>2, <2>5 DEF TickOK
    <3>2. Due(x)' = Due(t)
      BY <2>4 DEF Due, Window
    <3>3. ToStart(x.status, Due(t), x.at)' = ToStart(t.status, Due(t), t.at)
      BY <1>1, <2>4 DEF ToStart, Due, Window
    <3> QED
      BY <2>4, <2>5, <3>1, <3>2, <3>3 DEF TickOK
  <2>7. VersionOK(x)' /\ CursorOK(x)'
    BY <1>1, <2>4, <2>5 DEF VersionOK, CursorOK, Horizon, Decided
  <2>8. BehindOK(x)'
    <3>1. SUFFICES ASSUME t.pc \in Reading \ {"control"}, t.version = version,
                          t.status \notin {"inactive", "paused"}, NEW s \in missed', DueAt[s] <= t.at
                   PROVE  ~Follows(t.cursor, s)
      BY <1>1, <2>4 DEF BehindOK, Follows
    <3>2. s \in Slots /\ DueAt[s] \in Nat
      BY <1>9, SlotsAre
    <3>3. t.at <= now
      BY <2>5 DEF TickOK
    <3>4. s \in missed
      BY <1>2, <1>9, <2>1, <2>2, <3>1, <3>2, <3>3
    <3> QED
      BY <2>5, <3>1, <3>4 DEF BehindOK
  <2>9. AheadOK(x)' /\ AccountedOK(x)'
    <3>1. Due(x)' = Due(t)
      BY <2>4 DEF Due, Window
    <3> QED
      BY <1>1, <1>4, <2>4, <2>5, <3>1 DEF AheadOK, AccountedOK, Decided
  <2>10. Exclusive(h, x)'
    BY <1>1, <1>4, <1>6, <2>2, <2>4 DEF Exclusive, Punctual
  <2> QED
    BY <2>3, <2>6, <2>7, <2>8, <2>9, <2>10 DEF Fine
<1> QED
  BY <1>10, <1>11, <1>12, <1>13, <1>14 DEF IInv

-----------------------------------------------------------------------------
(* The invariant holds.                                                    *)

LEMMA InitOK ==
  ASSUME Init
  PROVE  IInv
<1>1. /\ {MaxTime, MaxLate, MaxControls, MaxArchives, MaxFaults} \subseteq Nat
      /\ {RunnerTicks, YieldTicks, MaxVersion} \subseteq Nat \ {0}
      /\ Incapables \subseteq SUBSET Holders
  BY ScheduleAssumption
<1>2. Idle \in Ticks
  BY <1>1 DEF Idle, Ticks, Cursors
<1>3. ticker \in [Holders -> Ticks]
  BY <1>2 DEF Init
<1>4. TypeOK
  <2>1. /\ now \in 0 .. MaxTime /\ late \in 0 .. MaxLate /\ policy \in Policies
        /\ version \in 1 .. MaxVersion /\ approvedAt \in 0 .. MaxTime /\ controlAt \in 0 .. MaxTime
        /\ control \in {"none", "pause", "resume"} /\ runnerLeft \in 0 .. RunnerTicks
        /\ controls \in 0 .. MaxControls /\ archives \in 0 .. MaxArchives /\ faults \in 0 .. MaxFaults
    BY <1>1 DEF Init
  <2>2. active \in BOOLEAN /\ archived \in BOOLEAN
    BY DEF Init
  <2>3. outcome \in [Slots -> Outcomes] /\ starts \in [Slots -> Nat]
    BY DEF Init, Outcomes
  <2>4. /\ held \subseteq RunKeys /\ runner \in Holders \cup {NoHolder}
        /\ passedOver \subseteq Slots /\ missed \subseteq Slots
    BY DEF Init
  <2> QED
    BY <1>3, <2>1, <2>2, <2>3, <2>4 DEF TypeOK, Ticks
<1>5. incapable \subseteq Holders /\ ClocksOK /\ StartsOK /\ MissedOK /\ PassedOK
  BY <1>1 DEF Init, ClocksOK, StartsOK, MissedOK, PassedOK
<1>6. NoSlotLost
  <2>1. Decided = {}
    BY DEF Init, Decided
  <2>2. \A x \in Slots : ~(x < NoSlot)
    BY SlotsAre DEF NoSlot
  <2> QED
    BY <2>1, <2>2 DEF NoSlotLost, Lost
<1>7. ASSUME NEW h \in Holders PROVE Exclusive(h, ticker[h]) /\ Fine(ticker[h])
  <2>1. ticker[h].pc = "idle" /\ ticker[h].at = 0 /\ ticker[h].cursor.at = 0 /\ now = 0
    BY DEF Init, Idle
  <2> QED
    BY <2>1 DEF Exclusive, Fine, TickOK, VersionOK, CursorOK, BehindOK, AheadOK, AccountedOK, Reading,
                Acting
<1> QED
  BY <1>4, <1>5, <1>6, <1>7 DEF IInv

LEMMA NextOK ==
  ASSUME IInv, [Next]_vars
  PROVE  IInv'
<1>1. CASE UNCHANGED vars
  <2>1. UNCHANGED <<now, late, version, approvedAt, active, archived, control, controlAt, outcome,
                    archives, passedOver, missed, policy, incapable, starts, held, runner, runnerLeft,
                    ticker, faults, controls>>
    BY <1>1 DEF vars, profile, definition, lease, history
  <2>2. TypeOK' /\ (incapable \subseteq Holders)'
    BY <2>1 DEF IInv, TypeOK
  <2>3. (ClocksOK /\ StartsOK /\ MissedOK /\ PassedOK /\ NoSlotLost)'
    BY <2>1 DEF IInv, ClocksOK, StartsOK, MissedOK, PassedOK, NoSlotLost, Lost, Horizon, Decided
  <2>4. ASSUME NEW h \in Holders PROVE (Exclusive(h, ticker[h]) /\ Fine(ticker[h]))'
    <3>1. PICK x : x = ticker[h]
      OBVIOUS
    <3>2. Exclusive(h, x) /\ Fine(x)
      BY <3>1, TickIs
    <3>3. Fine(x)'
      BY <2>1, <3>2, FineKept
    <3>4. Exclusive(h, x)'
      BY <2>1, <3>2 DEF Exclusive
    <3> QED
      BY <2>1, <3>1, <3>3, <3>4
  <2> QED
    BY <2>2, <2>3, <2>4 DEF IInv
<1>2. CASE Clock
  BY <1>2, ClockKeeps
<1>3. ASSUME NEW h \in Holders, Tick(h) \/ StartFails(h) \/ Abandon(h) \/ Stop(h),
             UNCHANGED <<profile, late>>
      PROVE  IInv'
  BY <1>3, AcquireKeeps, ReadDefinitionKeeps, ReadControlKeeps, ReadLastSlotKeeps, RecordSkippedKeeps,
     StartSlotKeeps, CannotStartKeeps, RecordFailedKeeps, YieldKeeps, StartFailsKeeps, AbandonKeeps,
     StopKeeps DEF Tick
<1>4. ASSUME NEW action \in {"pause", "resume"}, ControlSchedule(action), UNCHANGED <<profile, late>>
      PROVE  IInv'
  BY <1>4, ControlKeeps
<1>5. ASSUME ActivateWorkflow \/ DeactivateWorkflow \/ ArchiveWorkspace, UNCHANGED <<profile, late>>
      PROVE  IInv'
  BY <1>5, ActivateKeeps, DeactivateKeeps, ArchiveKeeps
<1>6. ASSUME NEW k \in RunKeys, StartManually(k) \/ RunFails(k), UNCHANGED <<profile, late>>
      PROVE  IInv'
  BY <1>6, RunsKeep
<1> QED
  BY <1>1, <1>2, <1>3, <1>4, <1>5, <1>6 DEF Next

(* The inductive invariant holds of every behaviour: ticks, pauses,        *)
(* approvals, archivings and failures in any order.                        *)
THEOREM Invariance == Spec => []IInv
<1>1. Init => IInv
  BY InitOK
<1>2. IInv /\ [Next]_vars => IInv'
  BY NextOK
<1> QED
  BY <1>1, <1>2, PTL DEF Spec

(* Every slot gets the one decision the owner was told of: it starts at    *)
(* most one run, what came due during a pause is never caught up, and, as  *)
(* long as no tick outlasts its runner lease, what was reported skipped    *)
(* does not run and no slot falls behind the cursor undecided.             *)
THEOREM SlotsStayDecidedOnce == Spec => []SlotsAreDecidedOnce
<1>1. IInv => SlotsAreDecidedOnce
  <2>1. SUFFICES ASSUME IInv PROVE SlotsAreDecidedOnce
    OBVIOUS
  <2>2. TypeOK /\ NoSlotLost
    BY <2>1 DEF IInv
  <2>3. SlotStartsOnce
    BY <2>1 DEF IInv, StartsOK, SlotStartsOnce
  <2>4. PausedSlotsNeverCaughtUp
    BY <2>1 DEF IInv, MissedOK, PausedSlotsNeverCaughtUp
  <2>5. SkippedStaysSkipped
    BY <2>1 DEF IInv, PassedOK, SkippedStaysSkipped
  <2> QED
    BY <2>2, <2>3, <2>4, <2>5 DEF SlotsAreDecidedOnce
<1> QED
  BY <1>1, Invariance, PTL

(* Only StartSlot records a start, of the oldest slot its tick has left,   *)
(* and only under the version, activation and Workspace there are.         *)
LEMMA StepStartsCurrent ==
  ASSUME IInv, [Next]_vars, NEW s \in Slots, outcome'[s] # outcome[s],
         outcome'[s] \in {"started", "existing"}
  PROVE  /\ active /\ ~archived
         /\ \E h \in Holders : /\ ticker[h].pc = "start" /\ s \in ticker[h].todo
                              /\ ticker[h].version = version
<1>1. outcome \in [Slots -> Outcomes]
  BY DEF IInv, TypeOK
<1>2. ASSUME NEW h \in Holders, StartSlot(h)
      PROVE  /\ active /\ ~archived
             /\ \E g \in Holders : /\ ticker[g].pc = "start" /\ s \in ticker[g].todo
                                  /\ ticker[g].version = version
  <2>1. Admitted(ticker[h].version) /\ ticker[h].pc = "start" /\ SlotDone(h)
    BY <1>2 DEF StartSlot
  <2>2. PICK x : x = NextSlot(h)
    OBVIOUS
  <2>3. \E o : outcome' = [outcome EXCEPT ![x] = o]
    BY <1>1, <1>2, <2>1, <2>2 DEF StartSlot, RecordStarted
  <2>4. s = x
    BY <1>1, <2>3
  <2>5. s \in ticker[h].todo
    BY <2>1, <2>2, <2>4, SlotDoneIs
  <2> QED
    BY <2>1, <2>5 DEF Admitted
<1>3. ASSUME NEW h \in Holders, RecordSkipped(h) PROVE FALSE
  <2>1. \E x : outcome' = outcome \/ outcome' = [outcome EXCEPT ![x] = "skipped"]
    BY <1>3 DEF RecordSkipped
  <2> QED
    BY <1>1, <2>1
<1>4. ASSUME NEW h \in Holders, RecordFailed(h) PROVE FALSE
  <2>1. \E x : outcome' = [outcome EXCEPT ![x] = IF outcome[x] = "none" THEN "failed" ELSE outcome[x]]
    BY <1>4 DEF RecordFailed
  <2> QED
    BY <1>1, <2>1
<1>5. outcome' # outcome
  OBVIOUS
<1>6. \E h \in Holders : StartSlot(h) \/ RecordSkipped(h) \/ RecordFailed(h)
  BY <1>5 DEF Next, Tick, Clock, AcquireRunner, ReadDefinition, ReadControl, ReadLastSlot, CannotStart,
              Yield, StartFails, Abandon, Stop, ControlSchedule, ActivateWorkflow, DeactivateWorkflow,
              ArchiveWorkspace, StartManually, RunFails, TickersUnchanged, RowsUnchanged, vars
<1> QED
  BY <1>2, <1>3, <1>4, <1>6

(* A deactivated or blocked workflow, or a version that is no longer the   *)
(* latest, starts no run however old the read a tick decides from.         *)
THEOREM StartsStayCurrent == Spec => StartsUnderCurrentVersion
<1>1. IInv /\ [Next]_vars =>
        [\A s \in Slots :
           outcome'[s] # outcome[s] /\ outcome'[s] \in {"started", "existing"} =>
             /\ active /\ ~archived
             /\ \E h \in Holders : /\ ticker[h].pc = "start" /\ s \in ticker[h].todo
                                  /\ ticker[h].version = version]_vars
  BY StepStartsCurrent
<1> QED
  BY <1>1, Invariance, PTL DEF Spec, StartsUnderCurrentVersion

-----------------------------------------------------------------------------
(* A map step: the inductive invariant                                     *)

ItemRows ==
  [failed : 0..Attempts, cut : 0..Interruptions,
   state : {"none", "running", "succeeded", "failed", "interrupted"}]

WorkerRows ==
  [state : {"none", "running", "reported", "succeeded", "ended"}, responses : 0..Budget,
   calling : BOOLEAN, complete : BOOLEAN, adopted : BOOLEAN]

Returned == {"succeeded", "failed", "interrupted", "refused"}
InLoop == {"check", "start", "wait", "finish"}

MapTyped ==
  /\ step \in Steps
  /\ run \in {"running", "paused", "cancelling"} \cup Over
  /\ node \in {"none", "running", "interrupted", "succeeded", "failed"}
  /\ item \in [List -> ItemRows]
  /\ worker \in [List -> WorkerRows]
  /\ spent \in Nat
  /\ at \in {"none", "boundary"} \cup InLoop
  /\ job \in [List -> {"idle", "working"} \cup Returned]

(* An item in flight has an attempt left; a worker in flight belongs to an *)
(* item in flight that has not returned; an adopted worker has succeeded.  *)
RowsFit(n, w, j) ==
  /\ n.state = "running" => n.failed < Attempts /\ n.cut < Interruptions
  /\ n.state = "succeeded" => n.failed < Attempts
  /\ n.state = "none" => w.state = "none"
  /\ w.state \in {"running", "reported"} => n.state = "running" /\ j \in {"idle", "working"}
  /\ w.calling => w.responses < Budget
  /\ w.adopted => w.state = "succeeded"
  /\ j # "idle" => n.state = "running"
  /\ Kind = "deterministic" => w.state = "none"

ItemsFit == \A i \in List : RowsFit(item[i], worker[i], job[i])

(* The loop runs under the map's attempt, finishes when nothing is in      *)
(* flight, and starts nothing when it should have stopped.                 *)
LoopIsSound ==
  /\ at \in InLoop => node = "running" /\ run \notin Over
  /\ at = "finish" => Running = {} /\ (why = "" => AllDone)
  /\ at = "start" /\ why = "" /\ OnItemFailure = "fail" => ~FailedItem

MapInv ==
  /\ MapTyped
  /\ ItemsFit
  /\ LoopIsSound
  /\ ItemsEndFirst
  /\ WithinLimits
  /\ EnoughSucceeded

(* What the sizes of the declared step are, and that they do not change.   *)
LEMMA StepIs ==
  ASSUME step \in Steps
  PROVE  /\ Items \in Nat /\ Parallel \in Nat /\ MaxAttempts \in Nat /\ MaxTokens \in Nat
         /\ Attempts \in Nat /\ Interruptions \in Nat /\ Budget \in Nat
         /\ Attempts >= 1 /\ Interruptions >= 1
         /\ Kind \in {"agent", "deterministic"} /\ OnItemFailure \in {"fail", "partial"}
         /\ List \subseteq Nat /\ IsFiniteSet(List) /\ IsFiniteSet(1..Attempts)
<1>1. step \in [items : Positive, kind : {"agent", "deterministic"},
         onItemFailure : {"fail", "partial"}, minSucceeded : Nat, parallel : Positive,
         attempts : Positive, interruptions : Positive, maxAttempts : Nat,
         maxTokens : Nat, budget : Nat, cancellable : BOOLEAN, faults : Nat]
  BY WorkflowMapAssumption
<1>2. Items \in Nat /\ Attempts \in Nat /\ Attempts >= 1 /\ Interruptions \in Nat /\ Interruptions >= 1
  BY <1>1 DEF Items, Attempts, Interruptions, Positive
<1>3. Parallel \in Nat /\ MaxAttempts \in Nat /\ MaxTokens \in Nat /\ Budget \in Nat
  BY <1>1 DEF Parallel, MaxAttempts, MaxTokens, Budget, Positive
<1>4. Kind \in {"agent", "deterministic"} /\ OnItemFailure \in {"fail", "partial"}
  BY <1>1 DEF Kind, OnItemFailure
<1>5. List \subseteq Nat /\ IsFiniteSet(List) /\ IsFiniteSet(1..Attempts)
  BY <1>2, FS_Interval DEF List
<1> QED
  BY <1>2, <1>3, <1>4, <1>5

LEMMA StepStays ==
  ASSUME step' = step
  PROVE  /\ List' = List /\ Kind' = Kind /\ OnItemFailure' = OnItemFailure
         /\ MinSucceeded' = MinSucceeded /\ Attempts' = Attempts
         /\ Interruptions' = Interruptions /\ MaxAttempts' = MaxAttempts
         /\ MaxTokens' = MaxTokens /\ Budget' = Budget
BY DEF List, Items, Kind, OnItemFailure, MinSucceeded, Attempts, Interruptions, MaxAttempts,
       MaxTokens, Budget

(* What depends on the items only stays when they do.                      *)
LEMMA ItemsStay ==
  ASSUME step' = step, item' = item
  PROVE  /\ Running' = Running /\ AllDone' = AllDone /\ FailedItem' = FailedItem
         /\ Succeeded' = Succeeded /\ Counted' = Counted
<1>1. Running' = Running /\ Succeeded' = Succeeded
  BY StepStays DEF Running, Succeeded
<1>2. AllDone' = AllDone /\ FailedItem' = FailedItem
  BY StepStays DEF AllDone, FailedItem, Done, Failed
<1>3. Counted' = Counted
  BY StepStays DEF Counted, FailedAttempts, Counting
<1> QED
  BY <1>1, <1>2, <1>3

(* The counts are counts of finite sets.                                   *)
LEMMA CountsAre ==
  ASSUME step \in Steps
  PROVE  /\ IsFiniteSet(FailedAttempts) /\ IsFiniteSet(Counting)
         /\ IsFiniteSet(Open) /\ Open \subseteq List /\ Running \subseteq List
         /\ Cardinality(FailedAttempts) \in Nat /\ Cardinality(Counting) \in Nat
         /\ Cardinality(Open) \in Nat
<1>1. IsFiniteSet(List) /\ IsFiniteSet(1..Attempts)
  BY StepIs
<1>2. IsFiniteSet(List \X (1..Attempts))
  BY <1>1, FS_Product
<1>3. FailedAttempts \in SUBSET (List \X (1..Attempts))
  BY DEF FailedAttempts
<1>4. Counting \in SUBSET List /\ Open \in SUBSET List /\ Running \subseteq List
  BY DEF Counting, Open, Running
<1>5. IsFiniteSet(FailedAttempts) /\ IsFiniteSet(Counting) /\ IsFiniteSet(Open)
  BY <1>1, <1>2, <1>3, <1>4, FS_Subset
<1> QED
  BY <1>4, <1>5, FS_CardinalityType

(* The commitments stay while items, spent tokens and adoptions do.        *)
LEMMA LimitsStay ==
  ASSUME step' = step, item' = item, spent' = spent, WithinLimits,
         \A i \in List : worker'[i].adopted = worker[i].adopted
  PROVE  WithinLimits'
<1>1. Counted' = Counted /\ Running' = Running
  BY ItemsStay
<1>2. Open' = Open
  <2>1. Running \subseteq List
    BY DEF Running
  <2>2. \A i \in Running : worker'[i].adopted = worker[i].adopted
    BY <2>1
  <2> QED
    BY <1>1, <2>2, StepStays DEF Open
<1>3. Spend' = Spend
  BY <1>2, StepStays DEF Spend
<1> QED
  BY <1>1, <1>3, StepStays DEF WithinLimits

(* Steps that leave the items, their workers and what was spent alone.     *)
LEMMA StandStill ==
  ASSUME MapInv, step' = step, item' = item, worker' = worker, spent' = spent,
         job' = job \/ job' = [i \in List |-> "idle"],
         run' \in {"running", "paused", "cancelling"} \cup Over,
         node' \in {"none", "running", "interrupted", "succeeded", "failed"},
         at' \in {"none", "boundary"} \cup InLoop,
         LoopIsSound', ItemsEndFirst',
         node' = "succeeded" /\ node # "succeeded"
           => AllDone /\ (OnItemFailure = "partial" => Cardinality(Succeeded) >= MinSucceeded)
  PROVE  MapInv' /\ NotInVain
<1>1. MapTyped'
  BY StepStays DEF MapInv, MapTyped, ItemRows, WorkerRows, Over
<1>2. ItemsFit'
  <2>1. ASSUME NEW i \in List PROVE job'[i] \in {job[i], "idle"}
    OBVIOUS
  <2>2. ASSUME NEW i \in List PROVE RowsFit(item[i], worker[i], job'[i])
    <3>1. RowsFit(item[i], worker[i], job[i])
      BY DEF MapInv, ItemsFit
    <3> QED
      BY <2>1, <3>1 DEF RowsFit
  <2> QED
    BY <2>2, StepStays DEF ItemsFit, RowsFit
<1>3. WithinLimits'
  BY LimitsStay DEF MapInv
<1>4. EnoughSucceeded'
  BY ItemsStay, StepStays DEF MapInv, EnoughSucceeded
<1>5. NotInVain
  BY DEF NotInVain
<1> QED
  BY <1>1, <1>2, <1>3, <1>4, <1>5 DEF MapInv

(* The steps of the lease, of the owner and of the loop that start and     *)
(* record nothing.                                                         *)
LEMMA LoseLeaseKeeps ==
  ASSUME MapInv, step' = step, LoseLease
  PROVE  MapInv' /\ NotInVain
<1>1. /\ item' = item /\ worker' = worker /\ spent' = spent
      /\ job' = job \/ job' = [i \in List |-> "idle"]
  BY DEF LoseLease
<1>2. /\ run' \in {"running", "paused", "cancelling"} \cup Over
      /\ node' \in {"none", "running", "interrupted", "succeeded", "failed"}
      /\ at' \in {"none", "boundary"} \cup InLoop
  BY DEF LoseLease, MapInv, MapTyped, Over, InLoop
<1>3. Running' = Running /\ AllDone' = AllDone /\ FailedItem' = FailedItem
  BY <1>1, ItemsStay
<1>4. LoopIsSound'
  BY <1>3, StepStays DEF LoseLease, MapInv, LoopIsSound, ItemsEndFirst, InLoop, Over
<1>5. ItemsEndFirst'
  BY <1>3 DEF LoseLease, MapInv, LoopIsSound, ItemsEndFirst, InLoop, Over
<1>6. node' = "succeeded" /\ node # "succeeded"
        => AllDone /\ (OnItemFailure = "partial" => Cardinality(Succeeded) >= MinSucceeded)
  BY DEF LoseLease
<1> QED
  BY <1>1, <1>2, <1>4, <1>5, <1>6, StandStill

LEMMA CancelKeeps ==
  ASSUME MapInv, step' = step, Cancel
  PROVE  MapInv' /\ NotInVain
<1>1. /\ item' = item /\ worker' = worker /\ spent' = spent
      /\ job' = job \/ job' = [i \in List |-> "idle"]
  BY DEF Cancel
<1>2. /\ run' \in {"running", "paused", "cancelling"} \cup Over
      /\ node' \in {"none", "running", "interrupted", "succeeded", "failed"}
      /\ at' \in {"none", "boundary"} \cup InLoop
  BY DEF Cancel, MapInv, MapTyped, Over, InLoop
<1>3. Running' = Running /\ AllDone' = AllDone /\ FailedItem' = FailedItem
  BY <1>1, ItemsStay
<1>4. LoopIsSound'
  BY <1>3, StepStays DEF Cancel, MapInv, LoopIsSound, ItemsEndFirst, InLoop, Over
<1>5. ItemsEndFirst'
  BY <1>3 DEF Cancel, MapInv, LoopIsSound, ItemsEndFirst, InLoop, Over
<1>6. node' = "succeeded" /\ node # "succeeded"
        => AllDone /\ (OnItemFailure = "partial" => Cardinality(Succeeded) >= MinSucceeded)
  BY DEF Cancel
<1> QED
  BY <1>1, <1>2, <1>4, <1>5, <1>6, StandStill

LEMMA HearKeeps ==
  ASSUME MapInv, step' = step, HearCancel \/ StopRuntime
  PROVE  MapInv' /\ NotInVain
<1>1. /\ item' = item /\ worker' = worker /\ spent' = spent
      /\ job' = job \/ job' = [i \in List |-> "idle"]
  BY DEF HearCancel, StopRuntime, Hear
<1>2. /\ run' \in {"running", "paused", "cancelling"} \cup Over
      /\ node' \in {"none", "running", "interrupted", "succeeded", "failed"}
      /\ at' \in {"none", "boundary"} \cup InLoop
  BY DEF HearCancel, StopRuntime, Hear, MapInv, MapTyped, Over, InLoop
<1>3. Running' = Running /\ AllDone' = AllDone /\ FailedItem' = FailedItem
  BY <1>1, ItemsStay
<1>4. LoopIsSound'
  BY <1>3, StepStays DEF HearCancel, StopRuntime, Hear, MapInv, LoopIsSound, ItemsEndFirst, InLoop, Over
<1>5. ItemsEndFirst'
  BY <1>3 DEF HearCancel, StopRuntime, Hear, MapInv, LoopIsSound, ItemsEndFirst, InLoop, Over
<1>6. node' = "succeeded" /\ node # "succeeded"
        => AllDone /\ (OnItemFailure = "partial" => Cardinality(Succeeded) >= MinSucceeded)
  BY DEF HearCancel, StopRuntime, Hear
<1> QED
  BY <1>1, <1>2, <1>4, <1>5, <1>6, StandStill

LEMMA BeginKeeps ==
  ASSUME MapInv, step' = step, Begin
  PROVE  MapInv' /\ NotInVain
<1>1. /\ item' = item /\ worker' = worker /\ spent' = spent
      /\ job' = job \/ job' = [i \in List |-> "idle"]
  BY DEF Begin
<1>2. /\ run' \in {"running", "paused", "cancelling"} \cup Over
      /\ node' \in {"none", "running", "interrupted", "succeeded", "failed"}
      /\ at' \in {"none", "boundary"} \cup InLoop
  BY DEF Begin, MapInv, MapTyped, Over, InLoop
<1>3. Running' = Running /\ AllDone' = AllDone /\ FailedItem' = FailedItem
  BY <1>1, ItemsStay
<1>4. LoopIsSound'
  BY <1>3, StepStays DEF Begin, MapInv, LoopIsSound, ItemsEndFirst, InLoop, Over
<1>5. ItemsEndFirst'
  BY <1>3 DEF Begin, MapInv, LoopIsSound, ItemsEndFirst, InLoop, Over
<1>6. node' = "succeeded" /\ node # "succeeded"
        => AllDone /\ (OnItemFailure = "partial" => Cardinality(Succeeded) >= MinSucceeded)
  BY DEF Begin
<1> QED
  BY <1>1, <1>2, <1>4, <1>5, <1>6, StandStill

LEMMA BoundaryKeeps ==
  ASSUME MapInv, step' = step, FinishCancel \/ StopAtBoundary
  PROVE  MapInv' /\ NotInVain
<1>1. /\ item' = item /\ worker' = worker /\ spent' = spent
      /\ job' = job \/ job' = [i \in List |-> "idle"]
  BY DEF FinishCancel, StopAtBoundary, Released
<1>2. /\ run' \in {"running", "paused", "cancelling"} \cup Over
      /\ node' \in {"none", "running", "interrupted", "succeeded", "failed"}
      /\ at' \in {"none", "boundary"} \cup InLoop
  BY DEF FinishCancel, StopAtBoundary, Released, MapInv, MapTyped, Over, InLoop
<1>3. Running' = Running /\ AllDone' = AllDone /\ FailedItem' = FailedItem
  BY <1>1, ItemsStay
<1>4. LoopIsSound'
  BY <1>3, StepStays DEF FinishCancel, StopAtBoundary, Released, MapInv, LoopIsSound, ItemsEndFirst, InLoop, Over
<1>5. ItemsEndFirst'
  BY <1>3 DEF FinishCancel, StopAtBoundary, Released, MapInv, LoopIsSound, ItemsEndFirst, InLoop, Over
<1>6. node' = "succeeded" /\ node # "succeeded"
        => AllDone /\ (OnItemFailure = "partial" => Cardinality(Succeeded) >= MinSucceeded)
  BY DEF FinishCancel, StopAtBoundary, Released
<1> QED
  BY <1>1, <1>2, <1>4, <1>5, <1>6, StandStill

LEMMA CheckKeeps ==
  ASSUME MapInv, step' = step, Check
  PROVE  MapInv' /\ NotInVain
<1>1. /\ item' = item /\ worker' = worker /\ spent' = spent
      /\ job' = job \/ job' = [i \in List |-> "idle"]
  BY DEF Check
<1>2. /\ run' \in {"running", "paused", "cancelling"} \cup Over
      /\ node' \in {"none", "running", "interrupted", "succeeded", "failed"}
      /\ at' \in {"none", "boundary"} \cup InLoop
  BY DEF Check, MapInv, MapTyped, Over, InLoop
<1>3. Running' = Running /\ AllDone' = AllDone /\ FailedItem' = FailedItem
  BY <1>1, ItemsStay
<1>4. LoopIsSound'
  BY <1>3, StepStays DEF Check, MapInv, LoopIsSound, ItemsEndFirst, InLoop, Over
<1>5. ItemsEndFirst'
  BY <1>3 DEF Check, MapInv, LoopIsSound, ItemsEndFirst, InLoop, Over
<1>6. node' = "succeeded" /\ node # "succeeded"
        => AllDone /\ (OnItemFailure = "partial" => Cardinality(Succeeded) >= MinSucceeded)
  BY DEF Check
<1> QED
  BY <1>1, <1>2, <1>4, <1>5, <1>6, StandStill

LEMMA StartRefusedKeeps ==
  ASSUME MapInv, step' = step, StartRefused
  PROVE  MapInv' /\ NotInVain
<1>1. /\ item' = item /\ worker' = worker /\ spent' = spent
      /\ job' = job \/ job' = [i \in List |-> "idle"]
  BY DEF StartRefused, Resting
<1>2. /\ run' \in {"running", "paused", "cancelling"} \cup Over
      /\ node' \in {"none", "running", "interrupted", "succeeded", "failed"}
      /\ at' \in {"none", "boundary"} \cup InLoop
  BY DEF StartRefused, Resting, MapInv, MapTyped, Over, InLoop
<1>3. Running' = Running /\ AllDone' = AllDone /\ FailedItem' = FailedItem
  BY <1>1, ItemsStay
<1>4. LoopIsSound'
  BY <1>3, StepStays DEF StartRefused, Resting, MapInv, LoopIsSound, ItemsEndFirst, InLoop, Over
<1>5. ItemsEndFirst'
  BY <1>3 DEF StartRefused, Resting, MapInv, LoopIsSound, ItemsEndFirst, InLoop, Over
<1>6. node' = "succeeded" /\ node # "succeeded"
        => AllDone /\ (OnItemFailure = "partial" => Cardinality(Succeeded) >= MinSucceeded)
  BY DEF StartRefused, Resting
<1> QED
  BY <1>1, <1>2, <1>4, <1>5, <1>6, StandStill

LEMMA WaitKeeps ==
  ASSUME MapInv, step' = step, Wake \/ (\E i \in List: Backoff(i))
  PROVE  MapInv' /\ NotInVain
<1>1. /\ item' = item /\ worker' = worker /\ spent' = spent
      /\ job' = job \/ job' = [i \in List |-> "idle"]
  BY DEF Wake, Backoff
<1>2. /\ run' \in {"running", "paused", "cancelling"} \cup Over
      /\ node' \in {"none", "running", "interrupted", "succeeded", "failed"}
      /\ at' \in {"none", "boundary"} \cup InLoop
  BY DEF Wake, Backoff, MapInv, MapTyped, Over, InLoop
<1>3. Running' = Running /\ AllDone' = AllDone /\ FailedItem' = FailedItem
  BY <1>1, ItemsStay
<1>4. LoopIsSound'
  BY <1>3, StepStays DEF Wake, Backoff, MapInv, LoopIsSound, ItemsEndFirst, InLoop, Over
<1>5. ItemsEndFirst'
  BY <1>3 DEF Wake, Backoff, MapInv, LoopIsSound, ItemsEndFirst, InLoop, Over
<1>6. node' = "succeeded" /\ node # "succeeded"
        => AllDone /\ (OnItemFailure = "partial" => Cardinality(Succeeded) >= MinSucceeded)
  BY DEF Wake, Backoff
<1> QED
  BY <1>1, <1>2, <1>4, <1>5, <1>6, StandStill

LEMMA FinishKeeps ==
  ASSUME MapInv, step' = step, FinishSuccess \/ FinishFailure \/ FinishInterrupted
  PROVE  MapInv' /\ NotInVain
<1>1. /\ item' = item /\ worker' = worker /\ spent' = spent
      /\ job' = job \/ job' = [i \in List |-> "idle"]
  BY DEF FinishSuccess, FinishFailure, FinishInterrupted, Released
<1>2. /\ run' \in {"running", "paused", "cancelling"} \cup Over
      /\ node' \in {"none", "running", "interrupted", "succeeded", "failed"}
      /\ at' \in {"none", "boundary"} \cup InLoop
  BY DEF FinishSuccess, FinishFailure, FinishInterrupted, Released, MapInv, MapTyped, Over, InLoop
<1>3. Running' = Running /\ AllDone' = AllDone /\ FailedItem' = FailedItem
  BY <1>1, ItemsStay
<1>4. LoopIsSound'
  BY <1>3, StepStays DEF FinishSuccess, FinishFailure, FinishInterrupted, Released, MapInv, LoopIsSound, ItemsEndFirst, InLoop, Over
<1>5. ItemsEndFirst'
  BY <1>3 DEF FinishSuccess, FinishFailure, FinishInterrupted, Released, MapInv, LoopIsSound, ItemsEndFirst, InLoop, Over
<1>6. node' = "succeeded" /\ node # "succeeded"
        => AllDone /\ (OnItemFailure = "partial" => Cardinality(Succeeded) >= MinSucceeded)
  BY DEF FinishSuccess, FinishFailure, FinishInterrupted, Released, Ending, Enough, MapInv, LoopIsSound
<1> QED
  BY <1>1, <1>2, <1>4, <1>5, <1>6, StandStill

(* A step of one item's goroutine.                                         *)
LEMMA OneItemKeeps ==
  ASSUME MapInv, step' = step, NEW i \in List,
         item' = item, spent' = spent, run' = run, node' = node, at' = at, why' = why,
         worker' \in [List -> WorkerRows],
         job' \in [List -> {"idle", "working"} \cup Returned],
         \A k \in List \ {i} : worker'[k] = worker[k] /\ job'[k] = job[k],
         worker'[i].adopted = worker[i].adopted,
         RowsFit(item[i], worker'[i], job'[i]),
         worker[i].state \in {"reported", "succeeded"}
           => worker'[i].state \in {"reported", "succeeded"}
  PROVE  MapInv' /\ NotInVain
<1>1. MapTyped'
  BY StepStays DEF MapInv, MapTyped, ItemRows, WorkerRows, Over
<1>2. ItemsFit'
  <2>1. ASSUME NEW k \in List PROVE RowsFit(item[k], worker'[k], job'[k])
    <3>1. RowsFit(item[k], worker[k], job[k])
      BY DEF MapInv, ItemsFit
    <3>2. CASE k = i
      BY <3>2
    <3>3. CASE k # i
      BY <3>1, <3>3
    <3> QED
      BY <3>2, <3>3
  <2> QED
    BY <2>1, StepStays DEF ItemsFit, RowsFit
<1>3. \A k \in List : worker'[k].adopted = worker[k].adopted
  OBVIOUS
<1>4. WithinLimits'
  BY <1>3, LimitsStay DEF MapInv
<1>5. LoopIsSound' /\ ItemsEndFirst' /\ EnoughSucceeded'
  <2>1. Running' = Running /\ AllDone' = AllDone /\ FailedItem' = FailedItem /\ Succeeded' = Succeeded
    BY ItemsStay
  <2>2. OnItemFailure' = OnItemFailure /\ MinSucceeded' = MinSucceeded
    BY StepStays
  <2>3. LoopIsSound' /\ ItemsEndFirst'
    BY <2>1, <2>2 DEF MapInv, LoopIsSound, ItemsEndFirst
  <2> QED
    BY <2>1, <2>2, <2>3 DEF MapInv, EnoughSucceeded
<1>6. NotInVain
  <2>1. ASSUME NEW k \in List, worker[k].state \in {"reported", "succeeded"}
        PROVE  worker'[k].state \in {"reported", "succeeded"}
    BY <2>1
  <2> QED
    BY <2>1 DEF NotInVain
<1> QED
  BY <1>1, <1>2, <1>4, <1>5, <1>6 DEF MapInv

(* What an item's rows are.                                                *)
LEMMA RowsAre ==
  ASSUME MapInv, NEW i \in List
  PROVE  /\ worker \in [List -> WorkerRows] /\ worker[i] \in WorkerRows
         /\ item \in [List -> ItemRows] /\ item[i] \in ItemRows
         /\ job \in [List -> {"idle", "working"} \cup Returned]
         /\ RowsFit(item[i], worker[i], job[i])
         /\ Budget \in Nat /\ Attempts \in Nat /\ Interruptions \in Nat
BY StepIs DEF MapInv, MapTyped, ItemsFit

LEMMA ComputeKeeps ==
  ASSUME MapInv, step' = step, NEW i \in List, Compute(i)
  PROVE  MapInv' /\ NotInVain
<1>1. /\ worker \in [List -> WorkerRows] /\ worker[i] \in WorkerRows
      /\ job \in [List -> {"idle", "working"} \cup Returned]
      /\ RowsFit(item[i], worker[i], job[i]) /\ Budget \in Nat
  BY RowsAre
<1>2. /\ item' = item /\ spent' = spent /\ run' = run /\ node' = node /\ at' = at /\ why' = why
  BY DEF Compute, Return
<1>3. /\ worker' \in [List -> WorkerRows]
      /\ job' \in [List -> {"idle", "working"} \cup Returned]
  BY <1>1 DEF Compute, Fresh, Return, Returned, WorkerRows, RowsFit
<1>4. \A k \in List \ {i} : worker'[k] = worker[k] /\ job'[k] = job[k]
  BY <1>1 DEF Compute, Fresh, Return, Returned, WorkerRows, RowsFit
<1>5. /\ worker'[i].adopted = worker[i].adopted
      /\ RowsFit(item[i], worker'[i], job'[i])
      /\ worker[i].state \in {"reported", "succeeded"}
           => worker'[i].state \in {"reported", "succeeded"}
  BY <1>1 DEF Compute, Fresh, Return, Returned, WorkerRows, RowsFit
<1> QED
  BY <1>2, <1>3, <1>4, <1>5, OneItemKeeps

LEMMA AdmitKeeps ==
  ASSUME MapInv, step' = step, NEW i \in List, Admit(i)
  PROVE  MapInv' /\ NotInVain
<1>1. /\ worker \in [List -> WorkerRows] /\ worker[i] \in WorkerRows
      /\ job \in [List -> {"idle", "working"} \cup Returned]
      /\ RowsFit(item[i], worker[i], job[i]) /\ Budget \in Nat
  BY RowsAre
<1>2. /\ item' = item /\ spent' = spent /\ run' = run /\ node' = node /\ at' = at /\ why' = why
  BY DEF Admit, Return
<1>3. /\ worker' \in [List -> WorkerRows]
      /\ job' \in [List -> {"idle", "working"} \cup Returned]
  BY <1>1 DEF Admit, Fresh, Return, Returned, WorkerRows, RowsFit
<1>4. \A k \in List \ {i} : worker'[k] = worker[k] /\ job'[k] = job[k]
  BY <1>1 DEF Admit, Fresh, Return, Returned, WorkerRows, RowsFit
<1>5. /\ worker'[i].adopted = worker[i].adopted
      /\ RowsFit(item[i], worker'[i], job'[i])
      /\ worker[i].state \in {"reported", "succeeded"}
           => worker'[i].state \in {"reported", "succeeded"}
  BY <1>1 DEF Admit, Fresh, Return, Returned, WorkerRows, RowsFit
<1> QED
  BY <1>2, <1>3, <1>4, <1>5, OneItemKeeps

LEMMA NotAdmittedKeeps ==
  ASSUME MapInv, step' = step, NEW i \in List, NotAdmitted(i)
  PROVE  MapInv' /\ NotInVain
<1>1. /\ worker \in [List -> WorkerRows] /\ worker[i] \in WorkerRows
      /\ job \in [List -> {"idle", "working"} \cup Returned]
      /\ RowsFit(item[i], worker[i], job[i]) /\ Budget \in Nat
  BY RowsAre
<1>2. /\ item' = item /\ spent' = spent /\ run' = run /\ node' = node /\ at' = at /\ why' = why
  BY DEF NotAdmitted, Return
<1>3. /\ worker' \in [List -> WorkerRows]
      /\ job' \in [List -> {"idle", "working"} \cup Returned]
  BY <1>1 DEF NotAdmitted, Fresh, Return, Returned, WorkerRows, RowsFit
<1>4. \A k \in List \ {i} : worker'[k] = worker[k] /\ job'[k] = job[k]
  BY <1>1 DEF NotAdmitted, Fresh, Return, Returned, WorkerRows, RowsFit
<1>5. /\ worker'[i].adopted = worker[i].adopted
      /\ RowsFit(item[i], worker'[i], job'[i])
      /\ worker[i].state \in {"reported", "succeeded"}
           => worker'[i].state \in {"reported", "succeeded"}
  BY <1>1 DEF NotAdmitted, Fresh, Return, Returned, WorkerRows, RowsFit
<1> QED
  BY <1>2, <1>3, <1>4, <1>5, OneItemKeeps

LEMMA CallModelKeeps ==
  ASSUME MapInv, step' = step, NEW i \in List, CallModel(i)
  PROVE  MapInv' /\ NotInVain
<1>1. /\ worker \in [List -> WorkerRows] /\ worker[i] \in WorkerRows
      /\ job \in [List -> {"idle", "working"} \cup Returned]
      /\ RowsFit(item[i], worker[i], job[i]) /\ Budget \in Nat
  BY RowsAre
<1>2. /\ item' = item /\ spent' = spent /\ run' = run /\ node' = node /\ at' = at /\ why' = why
  BY DEF CallModel, Return
<1>3. /\ worker' \in [List -> WorkerRows]
      /\ job' \in [List -> {"idle", "working"} \cup Returned]
  BY <1>1 DEF CallModel, Fresh, Return, Returned, WorkerRows, RowsFit
<1>4. \A k \in List \ {i} : worker'[k] = worker[k] /\ job'[k] = job[k]
  BY <1>1 DEF CallModel, Fresh, Return, Returned, WorkerRows, RowsFit
<1>5. /\ worker'[i].adopted = worker[i].adopted
      /\ RowsFit(item[i], worker'[i], job'[i])
      /\ worker[i].state \in {"reported", "succeeded"}
           => worker'[i].state \in {"reported", "succeeded"}
  BY <1>1 DEF CallModel, Fresh, Return, Returned, WorkerRows, RowsFit
<1> QED
  BY <1>2, <1>3, <1>4, <1>5, OneItemKeeps

LEMMA RespondKeeps ==
  ASSUME MapInv, step' = step, NEW i \in List, Respond(i)
  PROVE  MapInv' /\ NotInVain
<1>1. /\ worker \in [List -> WorkerRows] /\ worker[i] \in WorkerRows
      /\ job \in [List -> {"idle", "working"} \cup Returned]
      /\ RowsFit(item[i], worker[i], job[i]) /\ Budget \in Nat
  BY RowsAre
<1>2. /\ item' = item /\ spent' = spent /\ run' = run /\ node' = node /\ at' = at /\ why' = why
  BY DEF Respond, Return
<1>3. /\ worker' \in [List -> WorkerRows]
      /\ job' \in [List -> {"idle", "working"} \cup Returned]
  BY <1>1 DEF Respond, Fresh, Return, Returned, WorkerRows, RowsFit
<1>4. \A k \in List \ {i} : worker'[k] = worker[k] /\ job'[k] = job[k]
  BY <1>1 DEF Respond, Fresh, Return, Returned, WorkerRows, RowsFit
<1>5. /\ worker'[i].adopted = worker[i].adopted
      /\ RowsFit(item[i], worker'[i], job'[i])
      /\ worker[i].state \in {"reported", "succeeded"}
           => worker'[i].state \in {"reported", "succeeded"}
  BY <1>1 DEF Respond, Fresh, Return, Returned, WorkerRows, RowsFit
<1> QED
  BY <1>2, <1>3, <1>4, <1>5, OneItemKeeps

LEMMA SettleKeeps ==
  ASSUME MapInv, step' = step, NEW i \in List, Settle(i)
  PROVE  MapInv' /\ NotInVain
<1>1. /\ worker \in [List -> WorkerRows] /\ worker[i] \in WorkerRows
      /\ job \in [List -> {"idle", "working"} \cup Returned]
      /\ RowsFit(item[i], worker[i], job[i]) /\ Budget \in Nat
  BY RowsAre
<1>2. /\ item' = item /\ spent' = spent /\ run' = run /\ node' = node /\ at' = at /\ why' = why
  BY DEF Settle, Settled, Return
<1> DEFINE w == worker[i]
           v == [Settled(w) EXCEPT !.complete = ~(w.calling /\ Authorized(i))]
<1>3. /\ worker' = [worker EXCEPT ![i] = v]
      /\ w.state \in {"running", "reported"} /\ job[i] = "working" /\ Kind = "agent"
  BY DEF Settle, Fresh
<1>4. \E j \in Returned : job' = [job EXCEPT ![i] = j]
  BY DEF Settle, Return, Returned
<1>5. Settled(w) \in WorkerRows
  BY <1>1, <1>3 DEF Settled, WorkerRows
<1>6. /\ v \in WorkerRows /\ v.adopted = w.adopted /\ v.responses = w.responses
      /\ v.state = Settled(w).state /\ v.calling = Settled(w).calling
  <2>1. (~(w.calling /\ Authorized(i))) \in BOOLEAN
    OBVIOUS
  <2> HIDE DEF w
  <2>2. Settled(w).adopted = w.adopted /\ Settled(w).responses = w.responses
    BY <1>1, <1>3 DEF w, Settled, WorkerRows
  <2> QED
    BY <1>5, <2>1, <2>2 DEF WorkerRows
<1>7. v.state = (IF w.state = "reported" THEN "succeeded" ELSE "ended") /\ (v.calling => w.calling)
  BY <1>1, <1>3, <1>6 DEF Settled, WorkerRows
<1> HIDE DEF v
<1>8. /\ worker' \in [List -> WorkerRows]
      /\ job' \in [List -> {"idle", "working"} \cup Returned]
      /\ \A k \in List \ {i} : worker'[k] = worker[k] /\ job'[k] = job[k]
      /\ worker'[i] = v /\ job'[i] \in Returned
  BY <1>1, <1>3, <1>4, <1>6
<1>9. /\ worker'[i].adopted = worker[i].adopted
      /\ RowsFit(item[i], worker'[i], job'[i])
      /\ worker[i].state \in {"reported", "succeeded"}
           => worker'[i].state \in {"reported", "succeeded"}
  BY <1>1, <1>3, <1>6, <1>7, <1>8 DEF RowsFit, Returned
<1> QED
  BY <1>2, <1>8, <1>9, OneItemKeeps

(* ClaimWorkflowRun: what was in flight is interrupted, and no call that   *)
(* was open counts more than the budget it reserved.                       *)
LEMMA ClaimIs ==
  ASSUME MapInv, step' = step, Claim
  PROVE  /\ item' \in [List -> ItemRows] /\ worker' \in [List -> WorkerRows]
         /\ \A i \in List : /\ item'[i].state # "running"
                            /\ item'[i].failed = item[i].failed
                            /\ item'[i].state \in {"succeeded", "failed"} => item'[i] = item[i]
                            /\ RowsFit(item'[i], worker'[i], "idle")
                            /\ worker[i].state \in {"reported", "succeeded"}
                                 => worker'[i].state = "succeeded"
<1>1. /\ item' = [i \in List |-> IF i \in Running
                  THEN [item[i] EXCEPT !.state = "interrupted", !.cut = @ + 1] ELSE item[i]]
      /\ worker' = [i \in List |-> Settled(worker[i])]
  BY DEF Claim, Claimed
<1>2. ASSUME NEW i \in List
      PROVE  /\ item'[i] \in ItemRows
             /\ item'[i].state # "running" /\ item'[i].failed = item[i].failed
             /\ item'[i].state = "interrupted" \/ item'[i] = item[i]
             /\ item[i].state = "running" => item'[i].state = "interrupted"
  <2>1. /\ item[i] \in ItemRows /\ Interruptions \in Nat
        /\ item[i].state = "running" => item[i].cut < Interruptions
    BY RowsAre DEF RowsFit
  <2>2. CASE i \in Running
    <3>1. item'[i] = [item[i] EXCEPT !.state = "interrupted", !.cut = item[i].cut + 1]
      BY <1>1, <2>2
    <3>2. item[i].cut + 1 \in 0..Interruptions
      BY <2>1, <2>2 DEF Running, ItemRows
    <3> QED
      BY <2>1, <3>1, <3>2 DEF ItemRows
  <2>3. CASE i \notin Running
    BY <1>1, <2>1, <2>3 DEF Running
  <2> QED
    BY <2>2, <2>3
<1>3. ASSUME NEW i \in List
      PROVE  /\ worker'[i] \in WorkerRows
             /\ worker'[i].state \notin {"running", "reported"}
             /\ worker'[i].calling => worker[i].calling
             /\ worker'[i].responses = worker[i].responses
             /\ worker'[i].adopted = worker[i].adopted
             /\ worker[i].state \in {"reported", "succeeded"} => worker'[i].state = "succeeded"
             /\ worker[i].state = "none" => worker'[i].state = "none"
  <2>1. worker[i] \in WorkerRows /\ worker'[i] = Settled(worker[i])
    BY <1>1, RowsAre
  <2> QED
    BY <2>1 DEF Settled, WorkerRows
<1>4. ASSUME NEW i \in List PROVE RowsFit(item'[i], worker'[i], "idle")
  <2>1. RowsFit(item[i], worker[i], job[i])
    BY RowsAre
  <2> QED
    BY <1>2, <1>3, <2>1 DEF RowsFit
<1>5. item' \in [List -> ItemRows] /\ worker' \in [List -> WorkerRows]
  BY <1>1, <1>2, <1>3
<1> QED
  BY <1>2, <1>3, <1>4, <1>5

LEMMA ClaimLimits ==
  ASSUME MapInv, step' = step, Claim
  PROVE  WithinLimits' /\ spent' \in Nat
<1>1. step \in Steps /\ spent \in Nat /\ WithinLimits
  BY DEF MapInv, MapTyped
<1>2. Budget \in Nat /\ IsFiniteSet(Open) /\ Cardinality(Open) \in Nat
  BY <1>1, StepIs, CountsAre
<1> DEFINE P == {t \in Open \X (1..Budget): t[2] <= CountedTokens(Settled(worker[t[1]]))}
<1>3. P \in SUBSET (Open \X (1..Budget)) /\ spent' = spent + Cardinality(P)
  BY DEF Claim, Claimed
<1> HIDE DEF P
<1>4. IsFiniteSet(1..Budget) /\ Cardinality(1..Budget) = Budget
  BY <1>2, FS_Interval
<1>5. /\ IsFiniteSet(Open \X (1..Budget))
      /\ Cardinality(Open \X (1..Budget)) = Cardinality(Open) * Budget
  BY <1>2, <1>4, FS_Product
<1>6. Cardinality(P) <= Cardinality(Open) * Budget
  BY <1>3, <1>5, FS_Subset
<1>7. Cardinality(P) \in Nat
  <2>1. IsFiniteSet(P)
    BY <1>3, <1>5, FS_Subset
  <2> QED
    BY <2>1, FS_CardinalityType
<1>8. Open' = {}
  <2>1. \A i \in List : item'[i].state # "running"
    BY ClaimIs
  <2>2. Running' = {}
    BY <2>1, StepStays DEF Running
  <2> QED
    BY <2>2 DEF Open
<1>9. Spend' = spent' + Budget * 0
  BY <1>8, FS_EmptySet, StepStays DEF Spend
<1>10. Spend' <= Spend
  BY <1>1, <1>2, <1>3, <1>6, <1>7, <1>9 DEF Spend
<1>11. FailedAttempts' = FailedAttempts
  <2>1. \A i \in List : item'[i].failed = item[i].failed
    BY ClaimIs
  <2>2. \A a \in List \X (1..Attempts) : item'[a[1]].failed = item[a[1]].failed
    BY <2>1
  <2> QED
    BY <2>2, StepStays DEF FailedAttempts
<1>12. Counting' \in SUBSET Counting
  <2>1. \A i \in List : item'[i].state # "running" /\ (item'[i].state = "succeeded" => item'[i] = item[i])
    BY ClaimIs
  <2> QED
    BY <2>1, StepStays DEF Counting
<1>13. Cardinality(Counting') <= Cardinality(Counting) /\ Cardinality(Counting') \in Nat
  BY <1>1, <1>12, CountsAre, FS_Subset, FS_CardinalityType
<1>14. Counted' <= Counted
  BY <1>1, <1>11, <1>13, CountsAre DEF Counted
<1>15. Counted' \in Nat /\ Counted \in Nat /\ Spend' \in Nat /\ Spend \in Nat
  BY <1>1, <1>2, <1>3, <1>7, <1>9, <1>11, <1>13, CountsAre DEF Counted, Spend
<1> QED
  BY <1>1, <1>3, <1>7, <1>10, <1>14, <1>15, StepIs, StepStays DEF WithinLimits

LEMMA ClaimKeeps ==
  ASSUME MapInv, step' = step, Claim
  PROVE  MapInv' /\ NotInVain
<1>1. /\ item' \in [List -> ItemRows] /\ worker' \in [List -> WorkerRows]
      /\ \A i \in List : /\ item'[i].state # "running"
                         /\ RowsFit(item'[i], worker'[i], "idle")
                         /\ worker[i].state \in {"reported", "succeeded"}
                              => worker'[i].state = "succeeded"
  BY ClaimIs
<1>2. spent' \in Nat
  BY ClaimLimits
<1>3. /\ run' \in {"running", "paused", "cancelling"} \cup Over /\ run' \notin Over
      /\ node' \in {"none", "interrupted", "failed"} /\ at' = "boundary"
      /\ job' = [i \in List |-> "idle"]
  BY DEF Claim, MapInv, MapTyped, Over
<1>4. MapTyped'
  BY <1>1, <1>2, <1>3, StepStays DEF MapInv, MapTyped, ItemRows, WorkerRows, Over
<1>5. ItemsFit'
  BY <1>1, <1>3, StepStays DEF ItemsFit, RowsFit
<1>6. LoopIsSound' /\ ItemsEndFirst'
  BY <1>1, <1>3, StepStays DEF LoopIsSound, ItemsEndFirst, Running, InLoop
<1>7. EnoughSucceeded'
  BY <1>3 DEF EnoughSucceeded
<1>8. NotInVain
  BY <1>1 DEF NotInVain
<1> QED
  BY <1>4, <1>5, <1>6, <1>7, <1>8, ClaimLimits DEF MapInv

(* FinishWorkflowItemAttempt: a finished call counts at most the budget it *)
(* reserved, and a failed attempt counts as it did in flight.              *)
LEMMA RecordIs ==
  ASSUME MapInv, NEW i \in List, Record(i)
  PROVE  /\ item[i].state = "running" /\ i \in Running
         /\ item[i].failed + 1 \in 0..Attempts /\ item[i].cut + 1 \in 0..Interruptions
         /\ worker[i].state \notin {"running", "reported"}
         /\ Outcome(i) \in Returned
         /\ item' \in [List -> ItemRows]
         /\ \A k \in List \ {i} : item'[k] = item[k]
         /\ item'[i].state = IF Outcome(i) = "refused" THEN "interrupted" ELSE Outcome(i)
         /\ item'[i].failed = item[i].failed + (IF Outcome(i) = "failed" THEN 1 ELSE 0)
<1>1. /\ item \in [List -> ItemRows] /\ item[i] \in ItemRows
      /\ RowsFit(item[i], worker[i], job[i])
      /\ Attempts \in Nat /\ Interruptions \in Nat
  BY RowsAre
<1>2. job[i] \in Returned
  BY DEF Record, Returned
<1>3. item[i].state = "running" /\ worker[i].state \notin {"running", "reported"}
  BY <1>1, <1>2 DEF RowsFit, Returned
<1>4. item[i].failed + 1 \in 0..Attempts /\ item[i].cut + 1 \in 0..Interruptions
  BY <1>1, <1>3 DEF RowsFit, ItemRows
<1> DEFINE o == Outcome(i)
<1>5. o \in Returned
  BY <1>2 DEF Outcome, Returned
<1> DEFINE n == [item[i] EXCEPT !.state = IF o = "refused" THEN "interrupted" ELSE o,
                                !.failed = IF o = "failed" THEN @ + 1 ELSE @,
                                !.cut = IF o \in {"interrupted", "refused"} THEN @ + 1 ELSE @]
<1>6. item' = [item EXCEPT ![i] = n]
  BY <1>1 DEF Record
<1> HIDE DEF o
<1>7. /\ n \in ItemRows
      /\ n.state = IF o = "refused" THEN "interrupted" ELSE o
      /\ n.failed = item[i].failed + (IF o = "failed" THEN 1 ELSE 0)
  <2>1. /\ (IF o = "failed" THEN item[i].failed + 1 ELSE item[i].failed) \in 0..Attempts
        /\ (IF o \in {"interrupted", "refused"} THEN item[i].cut + 1 ELSE item[i].cut)
              \in 0..Interruptions
    BY <1>1, <1>4 DEF ItemRows
  <2>2. (IF o = "refused" THEN "interrupted" ELSE o) \in {"succeeded", "failed", "interrupted"}
    BY <1>5 DEF Returned
  <2>3. n \in ItemRows
    BY <1>1, <2>1, <2>2 DEF ItemRows
  <2> QED
    BY <1>1, <2>3 DEF ItemRows
<1> HIDE DEF n
<1>8. /\ item' \in [List -> ItemRows] /\ item'[i] = n
      /\ \A k \in List \ {i} : item'[k] = item[k]
  BY <1>1, <1>6, <1>7
<1> QED
  BY <1>3, <1>4, <1>5, <1>7, <1>8 DEF o, Running

LEMMA RecordCounts ==
  ASSUME MapInv, step' = step, NEW i \in List, Record(i)
  PROVE  Counted' <= Counted /\ Counted' \in Nat /\ Counted \in Nat
<1>1. step \in Steps
  BY DEF MapInv, MapTyped
<1>2. /\ IsFiniteSet(FailedAttempts) /\ IsFiniteSet(Counting)
      /\ Cardinality(FailedAttempts) \in Nat /\ Cardinality(Counting) \in Nat
  BY <1>1, CountsAre
<1>3. /\ item[i].state = "running" /\ item[i].failed + 1 \in 0..Attempts /\ item[i].failed \in Nat
      /\ Outcome(i) \in Returned
      /\ \A k \in List \ {i} : item'[k] = item[k]
      /\ item'[i].state = IF Outcome(i) = "refused" THEN "interrupted" ELSE Outcome(i)
      /\ item'[i].failed = item[i].failed + (IF Outcome(i) = "failed" THEN 1 ELSE 0)
  BY RecordIs, RowsAre DEF ItemRows
<1>4. i \in Counting
  BY <1>3 DEF Counting
<1>5. CASE Outcome(i) = "succeeded"
  <2>1. Counting' = Counting
    BY <1>3, <1>5, StepStays DEF Counting
  <2>2. \A k \in List : item'[k].failed = item[k].failed
    BY <1>3, <1>5
  <2>3. FailedAttempts' = FailedAttempts
    <3>1. \A a \in List \X (1..Attempts) : item'[a[1]].failed = item[a[1]].failed
      BY <2>2
    <3> QED
      BY <3>1, StepStays DEF FailedAttempts
  <2> QED
    BY <1>2, <2>1, <2>3 DEF Counted
<1>6. CASE Outcome(i) # "succeeded"
  <2>1. Counting' = Counting \ {i}
    <3>1. item'[i].state \notin {"running", "succeeded"}
      BY <1>3, <1>6 DEF Returned
    <3> QED
      BY <1>3, <3>1, StepStays DEF Counting
  <2>2. Cardinality(Counting') = Cardinality(Counting) - 1
    BY <1>2, <1>4, <2>1, FS_RemoveElement
  <2>3. Cardinality(Counting') \in Nat
    BY <1>2, <2>1, FS_RemoveElement, FS_CardinalityType
  <2>4. CASE Outcome(i) = "failed"
    <3> DEFINE a == <<i, item[i].failed + 1>>
    <3>1. FailedAttempts' = FailedAttempts \cup {a}
      <4>1. ASSUME NEW b \in List \X (1..Attempts)
            PROVE  b[2] <= item'[b[1]].failed <=> b[2] <= item[b[1]].failed \/ b = a
        <5>1. b[1] \in List /\ b[2] \in Nat /\ b = <<b[1], b[2]>>
          BY <1>1, StepIs
        <5>2. CASE b[1] = i
          BY <1>3, <2>4, <5>1, <5>2
        <5>3. CASE b[1] # i
          BY <1>3, <5>1, <5>3
        <5> QED
          BY <5>2, <5>3
      <4>2. a \in List \X (1..Attempts)
        BY <1>1, <1>3, StepIs
      <4> HIDE DEF a
      <4>3. FailedAttempts' = {b \in List \X (1..Attempts): b[2] <= item'[b[1]].failed}
        BY StepStays DEF FailedAttempts
      <4>4. ASSUME NEW b PROVE b \in FailedAttempts' <=> b \in FailedAttempts \/ b = a
        BY <4>1, <4>2, <4>3 DEF FailedAttempts
      <4> QED
        BY <4>4
    <3> HIDE DEF a
    <3>2. /\ Cardinality(FailedAttempts \cup {a})
               = IF a \in FailedAttempts THEN Cardinality(FailedAttempts)
                 ELSE Cardinality(FailedAttempts) + 1
      BY <1>2, FS_AddElement
    <3>3. /\ Cardinality(FailedAttempts') <= Cardinality(FailedAttempts) + 1
          /\ Cardinality(FailedAttempts') \in Nat
      BY <1>2, <3>1, <3>2
    <3> QED
      BY <1>2, <2>2, <2>3, <3>2, <3>3 DEF Counted
  <2>5. CASE Outcome(i) # "failed"
    <3>1. \A k \in List : item'[k].failed = item[k].failed
      BY <1>3, <2>5
    <3>2. \A a \in List \X (1..Attempts) : item'[a[1]].failed = item[a[1]].failed
      BY <3>1
    <3>3. FailedAttempts' = FailedAttempts
      BY <3>2, StepStays DEF FailedAttempts
    <3> QED
      BY <1>2, <2>2, <2>3, <3>3 DEF Counted
  <2> QED
    BY <2>4, <2>5
<1> QED
  BY <1>5, <1>6

LEMMA RecordLimits ==
  ASSUME MapInv, step' = step, NEW i \in List, Record(i)
  PROVE  WithinLimits' /\ spent' \in Nat
<1>1. step \in Steps /\ spent \in Nat /\ WithinLimits
  BY DEF MapInv, MapTyped
<1>2. Budget \in Nat /\ MaxTokens \in Nat /\ MaxAttempts \in Nat
  BY <1>1, StepIs
<1>3. IsFiniteSet(Open) /\ Cardinality(Open) \in Nat
  BY <1>1, CountsAre
<1>4. /\ i \in Running /\ \A k \in List \ {i} : item'[k] = item[k]
      /\ item'[i].state # "running"
  BY RecordIs DEF Returned
<1>5. worker' = worker
  BY DEF Record
<1>6. Open' = Open \ {i}
  <2>1. Running' = Running \ {i}
    BY <1>4, StepStays DEF Running
  <2> QED
    BY <1>5, <2>1, StepStays DEF Open
<1>7. Spend' <= Spend /\ Spend' \in Nat /\ spent' \in Nat
  <2>1. CASE i \in Open
    <3>1. Cardinality(Open') = Cardinality(Open) - 1
      BY <1>3, <1>6, <2>1, FS_RemoveElement
    <3>2. Cardinality(Open') \in Nat
      BY <1>3, <1>6, FS_RemoveElement, FS_CardinalityType
    <3>3. CountedTokens(worker[i]) \in 0..Budget
      <4>1. worker[i] \in WorkerRows
        BY RowsAre
      <4> QED
        BY <1>2, <4>1 DEF CountedTokens, WorkerRows
    <3>4. spent' = spent + CountedTokens(worker[i])
      BY <2>1 DEF Record
    <3>5. Budget * Cardinality(Open) = Budget * (Cardinality(Open) - 1) + Budget
      BY <1>2, <1>3
    <3>6. Budget * (Cardinality(Open) - 1) \in Nat
      BY <1>2, <3>1, <3>2
    <3>7. Spend' = spent' + Budget * (Cardinality(Open) - 1)
      BY <3>1, StepStays DEF Spend
    <3> QED
      BY <1>1, <1>2, <3>3, <3>4, <3>5, <3>6, <3>7 DEF Spend
  <2>2. CASE i \notin Open
    <3>1. Open' = Open /\ spent' = spent
      BY <1>6, <2>2 DEF Record
    <3>2. Budget * Cardinality(Open) \in Nat
      BY <1>2, <1>3
    <3> QED
      BY <1>1, <3>1, <3>2, StepStays DEF Spend
  <2> QED
    BY <2>1, <2>2
<1>8. Spend \in Nat
  <2>1. Budget * Cardinality(Open) \in Nat
    BY <1>2, <1>3
  <2> QED
    BY <1>1, <2>1 DEF Spend
<1>9. Counted' <= Counted /\ Counted' \in Nat /\ Counted \in Nat
  BY RecordCounts
<1> QED
  BY <1>1, <1>2, <1>7, <1>8, <1>9, StepStays DEF WithinLimits

LEMMA RecordKeeps ==
  ASSUME MapInv, step' = step, NEW i \in List, Record(i)
  PROVE  MapInv' /\ NotInVain
<1>1. /\ item[i].state = "running" /\ i \in Running
      /\ item[i].failed + 1 \in 0..Attempts
      /\ worker[i].state \notin {"running", "reported"}
      /\ Outcome(i) \in Returned
      /\ item' \in [List -> ItemRows]
      /\ \A k \in List \ {i} : item'[k] = item[k]
      /\ item'[i].state = IF Outcome(i) = "refused" THEN "interrupted" ELSE Outcome(i)
      /\ item'[i].failed = item[i].failed + (IF Outcome(i) = "failed" THEN 1 ELSE 0)
  BY RecordIs
<1>2. /\ at = "wait" /\ at' = "check" /\ run' = run /\ node' = node /\ worker' = worker
      /\ job' = [job EXCEPT ![i] = "idle"]
  BY DEF Record
<1>3. /\ job \in [List -> {"idle", "working"} \cup Returned] /\ RowsFit(item[i], worker[i], job[i])
      /\ item[i] \in ItemRows /\ Attempts \in Nat
  BY RowsAre
<1>4. job' \in [List -> {"idle", "working"} \cup Returned] /\ job'[i] = "idle"
      /\ \A k \in List \ {i} : job'[k] = job[k]
  BY <1>2, <1>3
<1>5. MapTyped'
  BY <1>1, <1>2, <1>4, RecordLimits, StepStays DEF MapInv, MapTyped, ItemRows, WorkerRows, Over, InLoop
<1>6. ItemsFit'
  <2>1. RowsFit(item'[i], worker[i], "idle")
    <3>1. item'[i].state \in {"succeeded", "failed", "interrupted"}
      BY <1>1 DEF Returned
    <3>2. item'[i].state = "succeeded" => item'[i].failed < Attempts
      BY <1>1, <1>3 DEF ItemRows, RowsFit
    <3> QED
      BY <1>1, <1>3, <3>1, <3>2 DEF RowsFit
  <2>2. ASSUME NEW k \in List PROVE RowsFit(item'[k], worker[k], job'[k])
    <3>1. CASE k = i
      BY <1>4, <2>1, <3>1
    <3>2. CASE k # i
      BY <1>1, <1>4, <3>2 DEF MapInv, ItemsFit
    <3> QED
      BY <3>1, <3>2
  <2> QED
    BY <1>2, <2>2, StepStays DEF ItemsFit, RowsFit
<1>7. node = "running" /\ run \notin Over
  BY <1>2 DEF MapInv, LoopIsSound, InLoop
<1>8. LoopIsSound' /\ ItemsEndFirst' /\ EnoughSucceeded'
  BY <1>2, <1>7 DEF LoopIsSound, ItemsEndFirst, EnoughSucceeded, Over
<1>9. NotInVain
  <2>1. item'[i].state # "running"
    BY <1>1 DEF Returned
  <2> QED
    BY <1>1, <1>2, <2>1 DEF NotInVain
<1> QED
  BY <1>5, <1>6, <1>8, <1>9, RecordLimits DEF MapInv

(* A set of items that is not empty has its last item.                     *)
LEMMA LastItem ==
  ASSUME step \in Steps, NEW S \in SUBSET List, S # {}
  PROVE  \E m \in S : \A k \in S : k <= m
<1>1. Items \in Nat
  BY StepIs
<1> DEFINE D == {Items - k : k \in S}
<1>2. D \subseteq Nat /\ D # {}
  <2>1. ASSUME NEW k \in S PROVE Items - k \in Nat
    BY <1>1 DEF List
  <2> QED
    BY <2>1
<1> HIDE DEF D
<1>3. PICK d \in D : \A k \in D : d <= k
  BY <1>2, LeastNat
<1>4. PICK m \in S : d = Items - m
  BY DEF D
<1>5. ASSUME NEW k \in S PROVE k <= m
  <2>1. Items - k \in D
    BY DEF D
  <2>2. Items - m <= Items - k /\ k \in Nat /\ m \in Nat
    BY <1>1, <1>3, <1>4, <2>1 DEF List
  <2> QED
    BY <1>1, <2>2
<1> QED
  BY <1>5

(* startItems: the batch as a whole fits the run's limits, since its last  *)
(* item was allowed on top of all before it.                               *)
LEMMA BatchFits ==
  ASSUME step \in Steps, NEW due \in SUBSET List, Batch(due) # {}
  PROVE  /\ Counted + Cardinality(Batch(due)) <= MaxAttempts
         /\ Spend + Estimate(Batch(due)) <= MaxTokens
<1> DEFINE S == Batch(due)
<1>1. S \in SUBSET List /\ S \subseteq due /\ S # {}
  BY DEF Batch
<1>2. PICK m \in S : \A k \in S : k <= m
  <2> HIDE DEF S
  <2> QED
    BY <1>1, LastItem
<1>3. m \in due /\ m \in Nat /\ \A j \in due : j <= m => Allowed(due, j)
  BY <1>1, StepIs DEF Batch
<1>4. due \subseteq Nat /\ List \subseteq Nat /\ IsFiniteSet(List)
  BY StepIs
<1>5. ASSUME NEW i \in due, i < m PROVE i \in S
  <2>1. i \in Nat
    BY <1>4
  <2>2. ASSUME NEW j \in due, j <= i PROVE Allowed(due, j)
    <3>1. j \in Nat /\ j <= m
      BY <1>3, <1>4, <1>5, <2>1, <2>2
    <3> QED
      BY <1>3, <3>1
  <2> QED
    BY <2>2 DEF Batch
<1>6. S = Before(due, m) \cup {m} /\ m \notin Before(due, m)
  <2>1. ASSUME NEW i \in S, i # m PROVE i \in due /\ i < m
    BY <1>1, <1>2, <1>3, <1>4, <2>1
  <2>2. S \subseteq Before(due, m) \cup {m}
    BY <2>1 DEF Before
  <2>3. Before(due, m) \subseteq S
    BY <1>5 DEF Before
  <2>4. m \notin Before(due, m)
    BY <1>3 DEF Before
  <2> QED
    BY <1>2, <2>2, <2>3, <2>4
<1>7. Allowed(due, m)
  BY <1>3
<1> HIDE DEF S
<1>8. Before(due, m) \in SUBSET List
  BY DEF Before
<1>9. IsFiniteSet(Before(due, m)) /\ Cardinality(Before(due, m)) \in Nat
  BY <1>4, <1>8, FS_Subset, FS_CardinalityType
<1>10. Cardinality(S) = Cardinality(Before(due, m)) + 1
  BY <1>6, <1>9, FS_AddElement
<1>11. Counted \in Nat /\ MaxAttempts \in Nat
  BY StepIs, CountsAre DEF Counted
<1>12. Counted + Cardinality(S) <= MaxAttempts
  BY <1>7, <1>9, <1>10, <1>11 DEF Allowed
<1>13. Spend + Estimate(S) <= MaxTokens
  BY <1>6, <1>7 DEF Allowed
<1> QED
  BY <1>12, <1>13 DEF S

(* BeginWorkflowItemAttempts: what starts, and what becomes of its rows.   *)
Starting == IF why = "" THEN Batch(DueItems) ELSE {}

LEMMA StartingIs ==
  ASSUME MapInv
  PROVE  /\ Starting \in SUBSET List
         /\ \A i \in Starting : /\ item[i].state \notin {"running", "succeeded"}
                                /\ item[i].failed < Attempts /\ item[i].cut < Interruptions
         /\ Starting # {} => why = ""
<1>1. Starting \subseteq Pending
  BY DEF Starting, Batch, DueItems
<1>2. ASSUME NEW i \in Pending
      PROVE  /\ i \in List /\ item[i].state \notin {"running", "succeeded"}
             /\ item[i].failed < Attempts /\ item[i].cut < Interruptions
  <2>1. i \in List /\ ~Done(i) /\ i \notin Running
    BY DEF Pending
  <2>2. item[i] \in ItemRows /\ Attempts \in Nat /\ Interruptions \in Nat
    BY <2>1, RowsAre
  <2> QED
    BY <2>1, <2>2 DEF Done, Failed, Running, ItemRows
<1> QED
  BY <1>1, <1>2 DEF Starting

LEMMA StartItemsIs ==
  ASSUME MapInv, step' = step, StartItems
  PROVE  /\ item' \in [List -> ItemRows] /\ worker' \in [List -> WorkerRows]
         /\ job' \in [List -> {"idle", "working"} \cup Returned]
         /\ \A i \in List \ Starting : /\ item'[i] = item[i] /\ worker'[i] = worker[i]
                                       /\ job'[i] = job[i]
         /\ \A i \in Starting :
              /\ item'[i].state = "running" /\ item'[i].failed = item[i].failed
              /\ RowsFit(item'[i], worker'[i], job'[i])
              /\ worker'[i].adopted <=> Adopts(i)
              /\ Adopts(i) => worker'[i].state = "succeeded"
<1>1. /\ item' = [i \in List |-> IF i \in Starting THEN [item[i] EXCEPT !.state = "running"] ELSE item[i]]
      /\ worker' = [i \in List |-> IF i \notin Starting THEN worker[i]
                                   ELSE IF Adopts(i) THEN [worker[i] EXCEPT !.adopted = TRUE]
                                   ELSE NoWorker]
      /\ job' = [i \in List |-> IF i \in Starting THEN "working" ELSE job[i]]
  BY DEF StartItems, Starting
<1>2. Starting \in SUBSET List
  BY StartingIs
<1>3. ASSUME NEW i \in List
      PROVE  /\ item[i] \in ItemRows /\ worker[i] \in WorkerRows
             /\ job[i] \in {"idle", "working"} \cup Returned
             /\ RowsFit(item[i], worker[i], job[i]) /\ Budget \in Nat
  BY RowsAre
<1>4. NoWorker \in WorkerRows /\ ~NoWorker.adopted /\ NoWorker.state = "none" /\ ~NoWorker.calling
  <2>1. Budget \in Nat
    BY StepIs DEF MapInv, MapTyped
  <2> QED
    BY <2>1 DEF NoWorker, WorkerRows
<1>5. ASSUME NEW i \in Starting
      PROVE  /\ item'[i] \in ItemRows /\ worker'[i] \in WorkerRows /\ job'[i] = "working"
             /\ item'[i].state = "running" /\ item'[i].failed = item[i].failed
             /\ RowsFit(item'[i], worker'[i], job'[i])
             /\ worker'[i].adopted <=> Adopts(i)
             /\ Adopts(i) => worker'[i].state = "succeeded"
  <2>1. i \in List /\ item[i].failed < Attempts /\ item[i].cut < Interruptions
    BY <1>2, StartingIs
  <2>2. item'[i] = [item[i] EXCEPT !.state = "running"] /\ job'[i] = "working"
    BY <1>1, <2>1
  <2>3. /\ item'[i] \in ItemRows /\ item'[i].state = "running"
        /\ item'[i].failed = item[i].failed /\ item'[i].cut = item[i].cut
    BY <1>3, <2>1, <2>2 DEF ItemRows
  <2>4. CASE Adopts(i)
    <3>1. worker'[i] = [worker[i] EXCEPT !.adopted = TRUE] /\ worker[i].state = "succeeded"
      BY <1>1, <2>1, <2>4 DEF Adopts
    <3>2. /\ worker'[i] \in WorkerRows /\ worker'[i].adopted = TRUE
          /\ worker'[i].state = "succeeded" /\ worker'[i].calling = worker[i].calling
          /\ worker'[i].responses = worker[i].responses
      BY <1>3, <2>1, <3>1 DEF WorkerRows
    <3>3. RowsFit(item[i], worker[i], job[i])
      BY <1>3, <2>1
    <3> QED
      BY <2>1, <2>2, <2>3, <2>4, <3>1, <3>2, <3>3 DEF RowsFit
  <2>5. CASE ~Adopts(i)
    <3>1. worker'[i] = NoWorker
      BY <1>1, <2>1, <2>5
    <3> QED
      BY <1>4, <2>1, <2>2, <2>3, <2>5, <3>1 DEF RowsFit
  <2> QED
    BY <2>4, <2>5
<1>6. ASSUME NEW i \in List \ Starting
      PROVE  item'[i] = item[i] /\ worker'[i] = worker[i] /\ job'[i] = job[i]
  BY <1>1
<1>7. ASSUME NEW i \in List
      PROVE  /\ item'[i] \in ItemRows /\ worker'[i] \in WorkerRows
             /\ job'[i] \in {"idle", "working"} \cup Returned
  BY <1>3, <1>5, <1>6
<1>8. /\ item' \in [List -> ItemRows] /\ worker' \in [List -> WorkerRows]
      /\ job' \in [List -> {"idle", "working"} \cup Returned]
  BY <1>1, <1>7
<1> QED
  BY <1>5, <1>6, <1>8

LEMMA StartItemsLimits ==
  ASSUME MapInv, step' = step, StartItems
  PROVE  WithinLimits'
<1> DEFINE S == Starting
           H == {i \in S: Hires(i)}
<1>1. step \in Steps /\ spent \in Nat /\ WithinLimits /\ spent' = spent
  BY DEF MapInv, MapTyped, StartItems
<1>2. S \in SUBSET List /\ \A i \in S : item[i].state \notin {"running", "succeeded"}
  BY StartingIs
<1>3. /\ \A i \in List \ S : item'[i] = item[i] /\ worker'[i] = worker[i]
      /\ \A i \in S : /\ item'[i].state = "running" /\ item'[i].failed = item[i].failed
                      /\ worker'[i].adopted <=> Adopts(i)
  BY StartItemsIs
<1>4. /\ Budget \in Nat /\ MaxTokens \in Nat /\ MaxAttempts \in Nat /\ IsFiniteSet(List)
  BY <1>1, StepIs
<1>5. S # {} => Counted + Cardinality(S) <= MaxAttempts /\ Spend + Estimate(S) <= MaxTokens
  <2>1. DueItems \in SUBSET List
    BY DEF DueItems, Pending
  <2>2. S # {} => S = Batch(DueItems)
    BY DEF Starting
  <2> HIDE DEF S
  <2> QED
    BY <1>1, <2>1, <2>2, BatchFits
<1> HIDE DEF S
<1>6. H \in SUBSET List
  BY <1>2
<1>7. Running' = Running \cup S
  BY <1>2, <1>3, StepStays DEF Running
<1>8. Open' = Open \cup H
  <2>1. CASE Kind = "agent"
    <3>1. ASSUME NEW i \in List
          PROVE  (i \in Running' /\ ~worker'[i].adopted) <=> ((i \in Running /\ ~worker[i].adopted) \/ i \in H)
      <4>1. CASE i \in S
        <5>1. i \notin Running
          BY <1>2, <4>1 DEF Running
        <5> QED
          BY <1>3, <1>7, <2>1, <4>1, <5>1 DEF Hires
      <4>2. CASE i \notin S
        BY <1>3, <1>7, <4>2
      <4> QED
        BY <4>1, <4>2
    <3>2. Open' = {i \in Running': ~worker'[i].adopted} /\ Open = {i \in Running: ~worker[i].adopted}
      BY <2>1, StepStays DEF Open
    <3>3. Running \subseteq List /\ Running' \subseteq List
      BY <1>2, <1>7 DEF Running
    <3> HIDE DEF H
    <3> QED
      BY <1>6, <3>1, <3>2, <3>3
  <2>2. CASE Kind # "agent"
    BY <2>2, StepStays DEF Open, Hires
  <2> QED
    BY <2>1, <2>2
<1>9. Open \cap H = {}
  BY <1>2 DEF Open, Running
<1>10. IsFiniteSet(S) /\ IsFiniteSet(H) /\ Cardinality(S) \in Nat /\ Cardinality(H) \in Nat
  BY <1>2, <1>4, <1>6, FS_Subset, FS_CardinalityType
<1>11. Estimate(S) = Budget * Cardinality(H)
  BY DEF Estimate
<1> HIDE DEF H
<1>12. Cardinality(Open') = Cardinality(Open) + Cardinality(H)
  <2>1. IsFiniteSet(Open) /\ Cardinality(Open) \in Nat
    BY <1>1, CountsAre
  <2>2. Cardinality(Open \cup H) = Cardinality(Open) + Cardinality(H) - Cardinality(Open \cap H)
    BY <1>10, <2>1, FS_Union
  <2>3. Cardinality(Open \cap H) = 0
    BY <1>9, FS_EmptySet
  <2> QED
    BY <1>8, <1>10, <2>1, <2>2, <2>3
<1>13. Spend' = Spend + Estimate(S)
  <2>1. Spend' = spent + Budget * (Cardinality(Open) + Cardinality(H))
    BY <1>1, <1>12, StepStays DEF Spend
  <2>2. Cardinality(Open) \in Nat
    BY <1>1, CountsAre
  <2>3. Budget * (Cardinality(Open) + Cardinality(H)) = Budget * Cardinality(Open) + Budget * Cardinality(H)
    BY <1>4, <1>10, <2>2
  <2>4. Budget * Cardinality(Open) \in Nat /\ Budget * Cardinality(H) \in Nat
    BY <1>4, <1>10, <2>2
  <2> QED
    BY <1>1, <1>11, <2>1, <2>3, <2>4 DEF Spend
<1>14. FailedAttempts' = FailedAttempts
  <2>1. \A i \in List : item'[i].failed = item[i].failed
    BY <1>3
  <2>2. \A a \in List \X (1..Attempts) : item'[a[1]].failed = item[a[1]].failed
    BY <2>1
  <2> QED
    BY <2>2, StepStays DEF FailedAttempts
<1>15. Counting' = Counting \cup S /\ Counting \cap S = {}
  BY <1>2, <1>3, StepStays DEF Counting
<1>16. Cardinality(Counting') = Cardinality(Counting) + Cardinality(S)
  <2>1. IsFiniteSet(Counting) /\ Cardinality(Counting) \in Nat
    BY <1>1, CountsAre
  <2>2. Cardinality(Counting \cup S) = Cardinality(Counting) + Cardinality(S) - Cardinality(Counting \cap S)
    BY <1>10, <2>1, FS_Union
  <2>3. Cardinality(Counting \cap S) = 0
    BY <1>15, FS_EmptySet
  <2> QED
    BY <1>10, <1>15, <2>1, <2>2, <2>3
<1>17. Counted' = Counted + Cardinality(S)
  BY <1>1, <1>10, <1>14, <1>16, CountsAre DEF Counted
<1>18. Counted \in Nat
  BY <1>1, CountsAre DEF Counted
<1>19. CASE S # {}
  BY <1>5, <1>13, <1>17, <1>19, StepStays DEF WithinLimits
<1>20. CASE S = {}
  <2>1. Cardinality(S) = 0
    BY <1>20, FS_EmptySet
  <2>2. Counted' = Counted
    BY <1>17, <1>18, <2>1
  <2>3. Open' = Open
    BY <1>6, <1>8, <1>20 DEF H
  <2>4. Spend' = Spend
    BY <1>1, <2>3, StepStays DEF Spend
  <2> QED
    BY <1>1, <2>2, <2>4, StepStays DEF WithinLimits
<1> QED
  BY <1>19, <1>20

LEMMA StartItemsKeeps ==
  ASSUME MapInv, step' = step, StartItems
  PROVE  MapInv' /\ NotInVain
<1> DEFINE S == Starting
<1>1. /\ S \in SUBSET List
      /\ \A i \in S : item[i].state \notin {"running", "succeeded"}
      /\ S # {} => why = ""
  BY StartingIs
<1>2. /\ item' \in [List -> ItemRows] /\ worker' \in [List -> WorkerRows]
      /\ job' \in [List -> {"idle", "working"} \cup Returned]
      /\ \A i \in List \ S : item'[i] = item[i] /\ worker'[i] = worker[i] /\ job'[i] = job[i]
      /\ \A i \in S : /\ item'[i].state = "running"
                      /\ RowsFit(item'[i], worker'[i], job'[i])
                      /\ Adopts(i) => worker'[i].state = "succeeded"
  BY StartItemsIs
<1>3. /\ at = "start" /\ run' = run /\ node' = node /\ spent' = spent
      /\ at' = Resting(why', Running \cup S)
  BY DEF StartItems, Starting
<1>4. node = "running" /\ run \notin Over
  BY <1>3 DEF MapInv, LoopIsSound, InLoop
<1> HIDE DEF S
<1>5. MapTyped'
  <2>1. at' \in {"wait", "finish"}
    BY <1>3 DEF Resting
  <2> QED
    BY <1>2, <1>3, <2>1, StepStays DEF MapInv, MapTyped, ItemRows, WorkerRows, Over, InLoop
<1>6. ItemsFit'
  <2>1. ASSUME NEW i \in List PROVE RowsFit(item'[i], worker'[i], job'[i])
    BY <1>2 DEF MapInv, ItemsFit
  <2> QED
    BY <2>1, StepStays DEF ItemsFit, RowsFit
<1>7. LoopIsSound'
  <2>1. ASSUME at' = "finish" PROVE Running' = {} /\ (why' = "" => AllDone')
    <3>1. Running = {} /\ S = {} /\ (why' # "" \/ AllDone)
      BY <1>3, <2>1 DEF Resting
    <3>2. item' = item
      <4>1. item = [i \in List |-> item[i]] /\ item' = [i \in List |-> item'[i]]
        BY <1>2 DEF MapInv, MapTyped
      <4>2. \A i \in List : item'[i] = item[i]
        BY <1>2, <3>1
      <4> QED
        BY <4>1, <4>2
    <3> QED
      BY <3>1, <3>2, ItemsStay
  <2>2. at' # "start"
    BY <1>3 DEF Resting
  <2> QED
    BY <1>3, <1>4, <2>1, <2>2 DEF LoopIsSound, Over
<1>8. ItemsEndFirst' /\ EnoughSucceeded'
  BY <1>3, <1>4 DEF ItemsEndFirst, EnoughSucceeded, Over
<1>9. NotInVain
  <2>1. ASSUME OnItemFailure = "fail", NEW k \in List, item[k].failed >= Attempts
        PROVE  S = {}
    <3>1. /\ item[k] \in ItemRows /\ Attempts \in Nat
          /\ item[k].state = "succeeded" => item[k].failed < Attempts
      BY RowsAre DEF RowsFit
    <3>2. Failed(k)
      BY <2>1, <3>1 DEF Failed, ItemRows
    <3>3. why # ""
      BY <1>3, <2>1, <3>2 DEF MapInv, LoopIsSound, FailedItem
    <3> QED
      BY <1>1, <3>3
  <2>2. ASSUME NEW i \in List, worker[i].state \in {"reported", "succeeded"}, item[i].state # "failed"
        PROVE  worker'[i].state \in {"reported", "succeeded"}
    <3>1. CASE i \in S
      <4>1. item[i] \in ItemRows /\ RowsFit(item[i], worker[i], job[i])
        BY RowsAre
      <4>2. item[i].state = "interrupted" /\ worker[i].state = "succeeded"
        BY <1>1, <2>2, <3>1, <4>1 DEF ItemRows, RowsFit
      <4> QED
        BY <1>2, <3>1, <4>2 DEF Adopts
    <3>2. CASE i \notin S
      BY <1>2, <2>2, <3>2
    <3> QED
      BY <3>1, <3>2
  <2> QED
    BY <1>2, <2>1, <2>2 DEF NotInVain
<1> QED
  BY <1>5, <1>6, <1>7, <1>8, <1>9, StartItemsLimits DEF MapInv

(* Every step keeps the invariant, and runs nothing in vain.               *)
LEMMA MapStep ==
  ASSUME MapInv, MapNext
  PROVE  MapInv' /\ NotInVain
<1>1. Act /\ step' = step
  BY DEF MapNext
<1>2. CASE Claim
  BY <1>1, <1>2, ClaimKeeps
<1>3. CASE LoseLease \/ Cancel \/ HearCancel \/ StopRuntime
  BY <1>1, <1>3, LoseLeaseKeeps, CancelKeeps, HearKeeps
<1>4. CASE Begin \/ FinishCancel \/ StopAtBoundary \/ Check
  BY <1>1, <1>4, BeginKeeps, BoundaryKeeps, CheckKeeps
<1>5. CASE StartItems \/ StartRefused
  BY <1>1, <1>5, StartItemsKeeps, StartRefusedKeeps
<1>6. CASE Wake \/ FinishSuccess \/ FinishFailure \/ FinishInterrupted
  BY <1>1, <1>6, WaitKeeps, FinishKeeps
<1>7. CASE \E i \in List: Goroutine(i)
  <2>1. PICK i \in List: Goroutine(i)
    BY <1>7
  <2> QED
    BY <1>1, <2>1, ComputeKeeps, AdmitKeeps, NotAdmittedKeeps, CallModelKeeps, RespondKeeps,
       SettleKeeps DEF Goroutine
<1>8. CASE \E i \in List: Record(i)
  BY <1>1, <1>8, RecordKeeps
<1>9. CASE \E i \in List: Backoff(i)
  BY <1>1, <1>9, WaitKeeps
<1> QED
  BY <1>1, <1>2, <1>3, <1>4, <1>5, <1>6, <1>7, <1>8, <1>9 DEF Act, Loop

LEMMA MapStarts == MapInit => MapInv
<1> SUFFICES ASSUME MapInit PROVE MapInv
  OBVIOUS
<1>1. step \in Steps
  BY DEF MapInit
<1>2. /\ Attempts \in Nat /\ Attempts >= 1 /\ Interruptions \in Nat /\ Budget \in Nat
      /\ MaxTokens \in Nat /\ MaxAttempts \in Nat
  BY <1>1, StepIs
<1>3. item = [i \in List |-> [failed |-> 0, cut |-> 0, state |-> "none"]]
  BY DEF MapInit
<1>4. worker = [i \in List |-> NoWorker] /\ job = [i \in List |-> "idle"]
  BY DEF MapInit
<1>5. [failed |-> 0, cut |-> 0, state |-> "none"] \in ItemRows /\ NoWorker \in WorkerRows
  BY <1>2 DEF ItemRows, WorkerRows, NoWorker
<1>6. item \in [List -> ItemRows] /\ worker \in [List -> WorkerRows]
  BY <1>3, <1>4, <1>5
<1>7. job \in [List -> {"idle", "working"} \cup Returned]
  BY <1>4
<1>8. MapTyped
  BY <1>1, <1>6, <1>7 DEF MapInit, MapTyped
<1>9. ASSUME NEW i \in List
      PROVE  /\ item[i].state = "none" /\ item[i].failed = 0
             /\ worker[i] = NoWorker /\ job[i] = "idle"
  BY <1>3, <1>4
<1>10. ItemsFit
  BY <1>9 DEF ItemsFit, RowsFit, NoWorker
<1>11. Running = {} /\ Counting = {} /\ FailedAttempts = {}
  <2>1. Running = {} /\ Counting = {}
    BY <1>9 DEF Running, Counting
  <2>2. ASSUME NEW a \in List \X (1..Attempts) PROVE ~(a[2] <= item[a[1]].failed)
    <3>1. a[1] \in List /\ a[2] \in 1..Attempts
      OBVIOUS
    <3>2. item[a[1]].failed = 0
      BY <1>9, <3>1
    <3> QED
      BY <1>2, <3>1, <3>2
  <2> QED
    BY <2>1, <2>2 DEF FailedAttempts
<1>12. WithinLimits
  <2>1. Open = {} /\ spent = 0
    BY <1>11 DEF Open, MapInit
  <2>2. Counted = 0 /\ Spend = 0 + Budget * 0
    BY <1>11, <2>1, FS_EmptySet DEF Counted, Spend
  <2> QED
    BY <1>2, <2>2 DEF WithinLimits
<1>13. LoopIsSound /\ ItemsEndFirst /\ EnoughSucceeded
  BY <1>11 DEF LoopIsSound, ItemsEndFirst, EnoughSucceeded, MapInit, InLoop
<1> QED
  BY <1>8, <1>10, <1>12, <1>13 DEF MapInv

(* The inductive invariant holds in every behaviour of a map step.         *)
THEOREM MapInvariance == MapSpec => []MapInv
<1>1. MapInit => MapInv
  BY MapStarts
<1>2. MapInv /\ [MapNext]_mapVars => MapInv'
  <2> SUFFICES ASSUME MapInv, [MapNext]_mapVars PROVE MapInv'
    OBVIOUS
  <2>1. CASE MapNext
    BY <2>1, MapStep
  <2>2. CASE UNCHANGED mapVars
    <3>1. /\ step' = step /\ item' = item /\ worker' = worker /\ spent' = spent /\ job' = job
          /\ run' = run /\ node' = node /\ at' = at /\ why' = why
      BY <2>2 DEF mapVars
    <3>2. Running' = Running /\ AllDone' = AllDone /\ FailedItem' = FailedItem
      BY <3>1, ItemsStay
    <3>3. LoopIsSound' /\ ItemsEndFirst'
      BY <3>1, <3>2, StepStays DEF MapInv, LoopIsSound, ItemsEndFirst
    <3> QED
      BY <3>1, <3>3, StandStill DEF MapInv, MapTyped
  <2> QED
    BY <2>1, <2>2
<1> QED
  BY <1>1, <1>2, PTL DEF MapSpec

(* For any declared map step, any number of items and any limits: no item  *)
(* outlives its map's attempt or is tried beyond its policy, the run never *)
(* commits more tokens or attempts than its limits, and a map that         *)
(* succeeded has decided every item.                                       *)
THEOREM ItemsStayAccounted == MapSpec => []ItemsAreAccounted
<1>1. MapInv => ItemsAreAccounted
  <2> SUFFICES ASSUME MapInv PROVE ItemsAreAccounted
    OBVIOUS
  <2>1. ASSUME NEW i \in List
        PROVE  /\ item[i].state \in {"none", "running", "succeeded", "failed", "interrupted"}
               /\ item[i].failed \in 0..Attempts /\ item[i].cut \in 0..Interruptions
               /\ worker[i].state \in {"none", "running", "reported", "succeeded", "ended"}
               /\ worker[i].responses \in 0..Budget
    BY RowsAre DEF ItemRows, WorkerRows
  <2>2. MapTypeOK
    BY <2>1 DEF MapInv, MapTyped, MapTypeOK, InLoop
  <2> QED
    BY <2>2 DEF MapInv, ItemsAreAccounted
<1> QED
  BY <1>1, MapInvariance, PTL

(* For any declared map step: no item starts once one has failed for good  *)
(* in a map that fails with its first, and no worker that reported runs    *)
(* again unless its report was rejected.                                   *)
THEOREM NothingIsRunInVain == MapSpec => NothingRunsInVain
<1>1. MapInv /\ [MapNext]_mapVars => [NotInVain]_mapVars
  BY MapStep
<1> QED
  BY <1>1, MapInvariance, PTL DEF MapSpec, NothingRunsInVain

=============================================================================
