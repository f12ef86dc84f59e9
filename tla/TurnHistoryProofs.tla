-------------------------- MODULE TurnHistoryProofs --------------------------
(***************************************************************************)
(* The proofs about TurnHistory: each turn writes under one lease, in the  *)
(* leases' order, and ends once; the conversation implements SessionTurns; *)
(* and the store admits what the agent plans, and the agent can read back  *)
(* what the store admitted: for any number of processes, turns, tool       *)
(* calls, compactions, crashes and lost leases.                            *)
(***************************************************************************)
EXTENDS TurnHistory, WellFoundedInduction, FiniteSetTheorems, FunctionTheorems, TLAPS

EventFields == {"type", "by", "parent", "calls", "call", "turn", "first", "last", "retained",
                "gen", "prior", "auto", "active", "activeTurn"}
ProcessFields == {"pc", "token", "root", "trigger", "plan", "left", "retry", "compacted",
                  "failed"}
EventShaped(e) == e = [f \in EventFields |-> e[f]]
ProcessShaped(r) == r = [f \in ProcessFields |-> r[f]]

(* Where a turn is under way.                                              *)
Turning == {"compose", "compactor", "snapshot", "provider", "tools", "terminal"}

(* An event that ends its turn.                                            *)
Ends(e) == e.type = "terminal" \/ (e.type = "assistant" /\ e.calls = 0)

LeaseOK ==
  /\ lease \in [holder : Processes \cup {None}, token : Nat, live : BOOLEAN]
  /\ p = [q \in Processes |-> p[q]]
  /\ \A q \in Processes : /\ ProcessShaped(p[q])
                          /\ p[q].token \in Nat /\ p[q].token <= lease.token

(* The history starts with a message, and its events carry leases up to    *)
(* the present one; the summary ends before one of its turns.              *)
LogOK ==
  /\ \E S : log \in Seq(S)
  /\ \A i \in DOMAIN log : /\ EventShaped(log[i])
                           /\ log[i].by \in Nat /\ log[i].by <= lease.token
  /\ log # <<>> => log[1].type = "user" /\ Start(log) \in Roots(log)

(* Turn r is the newest, was begun under lease k and has not ended.        *)
InTurn(r, k) ==
  /\ r \in Roots(log) /\ \A x \in Roots(log) : x <= r
  /\ log[r].by = k
  /\ \A i \in DOMAIN log : Ends(log[i]) => i < r

(* Work r of a process fits the history; what it does as the lease's       *)
(* holder concerns the newest turn, and the summary as it stands.          *)
Doing(q, r) ==
  /\ r.pc \in {"manual", "summarized"} => log # <<>>
  /\ r.pc \in {"compactor", "summarized"} =>
       /\ EventShaped(r.plan)
       /\ r.plan.type = "compacted" \/ (r.plan.type = "turn_compacted" /\ r.pc = "compactor")
  /\ lease.holder = q /\ lease.token = r.token /\ lease.live =>
       /\ r.pc \in Turning => InTurn(r.root, r.token)
       /\ /\ r.pc \in {"compactor", "summarized"} /\ r.plan.type = "compacted"
          /\ r.plan.retained \in Roots(log)
          => r.plan.retained > Start(log)

(* The inductive invariant.                                                *)
IInv == LeaseOK /\ LogOK /\ (\A q \in Processes : Doing(q, p[q])) /\ TurnsAreWhole

-----------------------------------------------------------------------------
(* Sets of sequence numbers.                                               *)

LEMMA LessIsWellFounded ==
  \E R : IsWellFoundedOn(R, Nat) /\ \A x, y \in Nat : x < y => <<x, y>> \in R
<1>1. \A x, y \in Nat : x < y => <<x, y>> \in OpToRel(<, Nat)
  BY DEF OpToRel
<1> QED
  BY <1>1, NatLessThanWellFounded

LEMMA LeastNat ==
  ASSUME NEW S, S \subseteq Nat, S # {}
  PROVE  \E m \in S : \A k \in S : m <= k
<1>1. PICK R : IsWellFoundedOn(R, Nat) /\ \A x, y \in Nat : x < y => <<x, y>> \in R
  BY LessIsWellFounded
<1>2. IsWellFoundedOn(R, Nat)
  BY <1>1
<1>3. \E x \in S : \A y \in S : ~ (<<y, x>> \in R)
  BY <1>2, WFMin, ZenonT(60)
<1>4. PICK x \in S : \A y \in S : ~ (<<y, x>> \in R)
  BY <1>3
<1>5. ASSUME NEW y \in S PROVE x <= y
  <2>1. x \in Nat /\ y \in Nat /\ ~(<<y, x>> \in R)
    BY <1>4
  <2>2. ~(y < x)
    BY <1>1, <2>1, Zenon
  <2> QED
    BY <2>1, <2>2
<1> QED
  BY <1>5

LEMMA GreatestIs ==
  ASSUME NEW S, S \subseteq Nat, NEW m \in S, \A x \in S : x <= m
  PROVE  Greatest(S) = m
<1>1. \A y \in S : (\A x \in S : y >= x) => y = m
  OBVIOUS
<1>2. m \in S /\ \A x \in S : m >= x
  OBVIOUS
<1> QED
  BY <1>1, <1>2 DEF Greatest, Max

LEMMA GreatestIn ==
  ASSUME NEW n \in Nat, NEW S, S \subseteq 1..n, S # {}
  PROVE  Greatest(S) \in S /\ \A x \in S : x <= Greatest(S)
<1> DEFINE D == {n - x : x \in S}
<1>1. D \subseteq Nat /\ D # {}
  OBVIOUS
<1> HIDE DEF D
<1>2. PICK d \in D : \A k \in D : d <= k
  BY <1>1, LeastNat
<1>3. PICK m \in S : d = n - m
  BY DEF D
<1>4. \A x \in S : x <= m
  <2>1. ASSUME NEW x \in S PROVE x <= m
    <3>1. n - x \in D
      BY DEF D
    <3>2. n - m <= n - x
      BY <1>2, <1>3, <3>1
    <3> QED
      BY <3>2
  <2> QED
    BY <2>1
<1>5. Greatest(S) = m
  <2>1. S \subseteq Nat
    OBVIOUS
  <2> QED
    BY <1>4, <2>1, GreatestIs
<1> QED
  BY <1>4, <1>5

LEMMA AfterIs ==
  ASSUME NEW S, S \subseteq Nat, NEW i \in Nat, \E j \in S : j > i
  PROVE  After(S, i) \in S /\ After(S, i) > i
<1> DEFINE L == {j \in S : j > i}
<1>1. L \subseteq Nat /\ L # {}
  OBVIOUS
<1> HIDE DEF L
<1>2. PICK m \in L : \A k \in L : m <= k
  BY <1>1, LeastNat
<1>3. Min(L) = m
  <2>1. \A y \in L : (\A x \in L : y <= x) => y = m
    BY <1>1, <1>2
  <2> QED
    BY <1>2, <2>1 DEF Min
<1>4. After(S, i) = Min(L)
  BY DEF After, L
<1> QED
  BY <1>2, <1>3, <1>4 DEF L

-----------------------------------------------------------------------------
(* A history that grew by an event.                                        *)

Grown(h, g, e, n) ==
  /\ n \in Nat /\ DOMAIN h = 1 .. n /\ DOMAIN g = 1 .. n + 1
  /\ g[n + 1] = e /\ \A i \in 1 .. n : g[i] = h[i]

LEMMA AppendGrows ==
  ASSUME NEW h, \E S : h \in Seq(S), NEW e
  PROVE  Grown(h, Append(h, e), e, Len(h)) /\ \E S : Append(h, e) \in Seq(S)
<1>1. PICK S : h \in Seq(S)
  OBVIOUS
<1>2. h \in Seq(S \cup {e}) /\ e \in S \cup {e}
  BY <1>1
<1> QED
  BY <1>2 DEF Grown

LEMMA GrownOf ==
  ASSUME NEW h, NEW g, NEW e, NEW n, Grown(h, g, e, n), NEW T
  PROVE  /\ Of(h, T) \subseteq 1 .. n /\ Of(g, T) \subseteq 1 .. n + 1
         /\ Of(g, T) = Of(h, T) \cup (IF e.type \in T THEN {n + 1} ELSE {})
         /\ \A i \in 1 .. n : i \in Of(g, T) <=> i \in Of(h, T)
<1>1. \A i \in 1 .. n + 1 : i \in 1 .. n \/ i = n + 1
  BY DEF Grown
<1>2. \A i \in 1 .. n : i \in 1 .. n + 1 /\ i # n + 1
  BY DEF Grown
<1>3. n + 1 \in 1 .. n + 1
  BY DEF Grown
<1> QED
  BY <1>1, <1>2, <1>3 DEF Grown, Of

LEMMA GrownRoots ==
  ASSUME NEW h, NEW g, NEW e, NEW n, Grown(h, g, e, n)
  PROVE  /\ n \in Nat /\ Roots(h) \subseteq 1 .. n /\ Roots(g) \subseteq 1 .. n + 1
         /\ \A i \in 1 .. n : i \in Roots(g) <=> i \in Roots(h)
         /\ Roots(g) = Roots(h) \cup (IF e.type = "user" THEN {n + 1} ELSE {})
<1>1. /\ Of(h, {"user"}) \subseteq 1 .. n /\ Of(g, {"user"}) \subseteq 1 .. n + 1
      /\ Of(g, {"user"}) = Of(h, {"user"}) \cup (IF e.type \in {"user"} THEN {n + 1} ELSE {})
      /\ \A i \in 1 .. n : i \in Of(g, {"user"}) <=> i \in Of(h, {"user"})
  BY GrownOf
<1>2. n \in Nat
  BY DEF Grown
<1> QED
  BY <1>1, <1>2 DEF Roots

LEMMA GrownBefore ==
  ASSUME NEW h, NEW g, NEW e, NEW n, Grown(h, g, e, n), NEW i \in 1 .. n + 1
  PROVE  Before(Roots(g), i) = Before(Roots(h), i)
<1>1. n \in Nat /\ Roots(h) \subseteq 1 .. n /\ Roots(g) \subseteq 1 .. n + 1
      /\ \A x \in 1 .. n : x \in Roots(g) <=> x \in Roots(h)
  BY GrownRoots
<1>2. \A j \in Roots(g) : j < i => j \in 1 .. n
  BY <1>1
<1>3. {j \in Roots(g) : j < i} = {j \in Roots(h) : j < i}
  BY <1>1, <1>2
<1> QED
  BY <1>3 DEF Before

LEMMA BeforeIs ==
  ASSUME NEW n \in Nat, NEW S, S \subseteq 1 .. n, NEW i \in Nat, NEW r \in S,
         r < i, \A x \in S : x < i => x <= r
  PROVE  Before(S, i) = r
<1> DEFINE B == {j \in S : j < i}
<1>0. S \subseteq Nat
  OBVIOUS
<1>1. B \subseteq Nat
  BY <1>0
<1>2. r \in B /\ \A x \in B : x <= r
  OBVIOUS
<1>3. Greatest(B) = r
  <2> HIDE DEF B
  <2> QED
    BY <1>1, <1>2, GreatestIs
<1> QED
  BY <1>3 DEF Before

LEMMA BeforeIn ==
  ASSUME NEW n \in Nat, NEW S, S \subseteq 1 .. n, NEW i \in Nat
  PROVE  \/ Before(S, i) = 0 /\ \A x \in S : ~(x < i)
         \/ Before(S, i) \in S /\ Before(S, i) < i
<1> DEFINE B == {j \in S : j < i}
<1>1. B \subseteq 1 .. n
  OBVIOUS
<1>2. Before(S, i) = Greatest(B)
  BY DEF Before
<1>3. CASE B = {}
  BY <1>2, <1>3 DEF Greatest
<1>4. CASE B # {}
  <2>1. Greatest(B) \in B
    <3> HIDE DEF B
    <3> QED
      BY <1>1, <1>4, GreatestIn
  <2> QED
    BY <1>2, <2>1
<1> QED
  BY <1>3, <1>4

LEMMA FirstRoot ==
  ASSUME NEW n \in Nat, NEW S, S \subseteq 1 .. n, 1 \in S
  PROVE  Min(S) = 1
<1>1. \A y \in S : (\A x \in S : y <= x) => y = 1
  <2>1. \A y \in S : y \in Nat /\ y >= 1
    OBVIOUS
  <2> QED
    BY <2>1
<1>2. 1 \in S /\ \A x \in S : 1 <= x
  OBVIOUS
<1> QED
  BY <1>1, <1>2 DEF Min

-----------------------------------------------------------------------------
(* The summary of a history that grew.                                     *)

LEMMA GrownStart ==
  ASSUME NEW h, NEW g, NEW e, NEW n, Grown(h, g, e, n)
  PROVE  /\ e.type = "compacted" => Start(g) = e.retained
         /\ n # 0 /\ h[1].type = "user" /\ e.type # "compacted" => Start(g) = Start(h)
         /\ n = 0 /\ e.type = "user" => Start(g) = 1
<1> DEFINE C(x) == Of(x, {"compacted"})
<1>0. n \in Nat /\ g[n + 1] = e
  BY DEF Grown
<1>1. /\ n \in Nat /\ C(h) \subseteq 1 .. n /\ C(g) \subseteq 1 .. n + 1
      /\ C(g) = C(h) \cup (IF e.type \in {"compacted"} THEN {n + 1} ELSE {})
  BY <1>0, GrownOf
<1>2. Roots(h) \subseteq 1 .. n /\ Roots(g) \subseteq 1 .. n + 1
      /\ \A x \in 1 .. n : x \in Roots(g) <=> x \in Roots(h)
  BY GrownRoots
<1>3. \A x : Start(x) = IF Greatest(C(x)) = 0 THEN Min(Roots(x)) ELSE x[Greatest(C(x))].retained
  BY DEF Start
<1> HIDE DEF C
<1>4. ASSUME e.type = "compacted" PROVE Start(g) = e.retained
  <2>1. n + 1 \in C(g) /\ \A x \in C(g) : x <= n + 1
    BY <1>1, <1>4
  <2>2. Greatest(C(g)) = n + 1
    <3>1. C(g) \subseteq Nat
      BY <1>1
    <3> QED
      BY <2>1, <3>1, GreatestIs
  <2> QED
    <3>1. Greatest(C(g)) # 0
      BY <1>0, <2>2
    <3> QED
      BY <1>0, <1>3, <2>2, <3>1
<1>5. ASSUME n # 0, h[1].type = "user", e.type # "compacted" PROVE Start(g) = Start(h)
  <2>1. C(g) = C(h)
    BY <1>1, <1>5
  <2>2. Min(Roots(g)) = 1 /\ Min(Roots(h)) = 1
    <3>1. 1 \in 1 .. n /\ 1 \in 1 .. n + 1 /\ n + 1 \in Nat
      BY <1>1, <1>5
    <3>2. 1 \in Roots(h) /\ 1 \in Roots(g)
      BY <1>2, <1>5, <3>1 DEF Roots, Of, Grown
    <3> QED
      BY <1>1, <1>2, <3>1, <3>2, FirstRoot
  <2>3. Greatest(C(h)) # 0 => Greatest(C(h)) \in 1 .. n
    <3>1. CASE C(h) = {}
      BY <3>1 DEF Greatest
    <3>2. CASE C(h) # {}
      <4>1. Greatest(C(h)) \in C(h)
        BY <1>1, <3>2, GreatestIn
      <4> QED
        BY <1>1, <4>1
    <3> QED
      BY <3>1, <3>2
  <2>4. Greatest(C(h)) # 0 => g[Greatest(C(h))] = h[Greatest(C(h))]
    BY <2>3 DEF Grown
  <2> QED
    BY <1>3, <2>1, <2>2, <2>4
<1>6. ASSUME n = 0, e.type = "user" PROVE Start(g) = 1
  <2>1. C(g) = {}
    BY <1>1, <1>6
  <2>2. Greatest(C(g)) = 0
    BY <2>1 DEF Greatest
  <2>3. 1 \in Roots(g) /\ Roots(g) \subseteq 1 .. 1
    BY <1>2, <1>6 DEF Roots, Of, Grown
  <2>4. Min(Roots(g)) = 1
    BY <2>3, FirstRoot
  <2> QED
    BY <1>3, <2>2, <2>4
<1> QED
  BY <1>4, <1>5, <1>6

-----------------------------------------------------------------------------
(* How the turns of a history that grew ended.                             *)

FailedIn(h, r) == \E i \in Of(h, {"terminal"}) : Before(Roots(h), i) = r
AnsweredIn(h, r) == \E a \in Of(h, {"assistant"}) : h[a].calls = 0 /\ Before(Roots(h), a) = r

LEMMA StatusIs ==
  ASSUME NEW h, NEW r
  PROVE  Status(h, r) = IF FailedIn(h, r) THEN "failed"
                        ELSE IF AnsweredIn(h, r) THEN "answered"
                        ELSE IF \E x \in Roots(h) : x > r THEN "abandoned" ELSE "open"
BY DEF Status, FailedIn, AnsweredIn

LEMMA GrownEnds ==
  ASSUME NEW h, NEW g, NEW e, NEW n, Grown(h, g, e, n), NEW r
  PROVE  /\ FailedIn(g, r) <=> \/ FailedIn(h, r)
                               \/ e.type = "terminal" /\ Before(Roots(h), n + 1) = r
         /\ AnsweredIn(g, r) <=> \/ AnsweredIn(h, r)
                                 \/ /\ e.type = "assistant" /\ e.calls = 0
                                    /\ Before(Roots(h), n + 1) = r
<1>1. n \in Nat /\ n + 1 \in 1 .. n + 1 /\ 1 .. n \subseteq 1 .. n + 1 /\ g[n + 1] = e
      /\ \A i \in 1 .. n : g[i] = h[i]
  BY DEF Grown
<1>2. \A i \in 1 .. n + 1 : Before(Roots(g), i) = Before(Roots(h), i)
  BY GrownBefore
<1>3. /\ Of(h, {"terminal"}) \subseteq 1 .. n
      /\ Of(g, {"terminal"}) = Of(h, {"terminal"})
                                 \cup (IF e.type \in {"terminal"} THEN {n + 1} ELSE {})
  BY GrownOf
<1>4. /\ Of(h, {"assistant"}) \subseteq 1 .. n
      /\ Of(g, {"assistant"}) = Of(h, {"assistant"})
                                  \cup (IF e.type \in {"assistant"} THEN {n + 1} ELSE {})
  BY GrownOf
<1>5. FailedIn(g, r) <=> \/ FailedIn(h, r)
                         \/ e.type = "terminal" /\ Before(Roots(h), n + 1) = r
  BY <1>1, <1>2, <1>3 DEF FailedIn
<1>6. AnsweredIn(g, r) <=> \/ AnsweredIn(h, r)
                           \/ /\ e.type = "assistant" /\ e.calls = 0
                              /\ Before(Roots(h), n + 1) = r
  BY <1>1, <1>2, <1>4 DEF AnsweredIn
<1> QED
  BY <1>5, <1>6

(* The newest turn is open until an event ends it.                         *)
LEMMA OpenTurn ==
  ASSUME NEW h, NEW n \in Nat, DOMAIN h = 1 .. n, NEW r \in Roots(h),
         \A x \in Roots(h) : x <= r, \A i \in DOMAIN h : Ends(h[i]) => i < r
  PROVE  /\ Before(Roots(h), n + 1) = r /\ r \in 1 .. n
         /\ ~FailedIn(h, r) /\ ~AnsweredIn(h, r) /\ Status(h, r) = "open"
<1>1. Roots(h) \subseteq 1 .. n
  BY DEF Roots, Of
<1>2. r \in 1 .. n /\ r < n + 1
  BY <1>1
<1>3. Before(Roots(h), n + 1) = r
  BY <1>1, <1>2, BeforeIs
<1>4. ASSUME NEW i \in 1 .. n, Ends(h[i]) PROVE Before(Roots(h), i) # r
  <2>1. i < r
    BY <1>4
  <2>2. Before(Roots(h), i) = 0 \/ Before(Roots(h), i) < i
    BY <1>1, BeforeIn
  <2> QED
    BY <1>2, <2>1, <2>2
<1>5. ~FailedIn(h, r)
  BY <1>4 DEF FailedIn, Of, Ends
<1>6. ~AnsweredIn(h, r)
  BY <1>4 DEF AnsweredIn, Of, Ends
<1>7. ~\E x \in Roots(h) : x > r
  BY <1>1, <1>2
<1> QED
  BY <1>2, <1>3, <1>5, <1>6, <1>7, StatusIs

(* A message opens a turn and closes the one before it.                    *)
LEMMA MessageOpens ==
  ASSUME NEW h, NEW g, NEW e, NEW n, Grown(h, g, e, n), e.type = "user"
  PROVE  /\ Status(g, n + 1) = "open"
         /\ \A r \in Roots(h) : Status(g, r) = IF Status(h, r) = "open" THEN "abandoned"
                                               ELSE Status(h, r)
<1>1. n \in Nat /\ Roots(h) \subseteq 1 .. n /\ Roots(g) = Roots(h) \cup {n + 1}
  BY GrownRoots
<1>2. \A i \in 1 .. n + 1 : Before(Roots(g), i) # n + 1
  <2>1. ASSUME NEW i \in 1 .. n + 1 PROVE Before(Roots(g), i) # n + 1
    <3>1. n + 1 \in Nat /\ Roots(g) \subseteq 1 .. n + 1 /\ i \in Nat
      BY <1>1
    <3>2. Before(Roots(g), i) = 0 \/ Before(Roots(g), i) < i
      BY <3>1, BeforeIn
    <3> QED
      BY <1>1, <3>2
  <2> QED
    BY <2>1
<1>3. DOMAIN g = 1 .. n + 1
  BY DEF Grown
<1>4. ~FailedIn(g, n + 1) /\ ~AnsweredIn(g, n + 1)
  BY <1>2, <1>3 DEF FailedIn, AnsweredIn, Of
<1>5. ~\E x \in Roots(g) : x > n + 1
  BY <1>1
<1>6. Status(g, n + 1) = "open"
  BY <1>4, <1>5, StatusIs
<1>7. ASSUME NEW r \in Roots(h)
      PROVE  Status(g, r) = IF Status(h, r) = "open" THEN "abandoned" ELSE Status(h, r)
  <2>1. (FailedIn(g, r) <=> FailedIn(h, r)) /\ (AnsweredIn(g, r) <=> AnsweredIn(h, r))
    BY GrownEnds
  <2>2. \E x \in Roots(g) : x > r
    BY <1>1
  <2> QED
    BY <2>1, <2>2, StatusIs
<1> QED
  BY <1>6, <1>7

(* An event that ends no turn leaves every turn as it was.                 *)
LEMMA OthersKeep ==
  ASSUME NEW h, NEW g, NEW e, NEW n, Grown(h, g, e, n), e.type # "user", NEW r \in Roots(h),
         ~Ends(e) \/ Before(Roots(h), n + 1) # r
  PROVE  Status(g, r) = Status(h, r)
<1>1. (FailedIn(g, r) <=> FailedIn(h, r)) /\ (AnsweredIn(g, r) <=> AnsweredIn(h, r))
  BY GrownEnds DEF Ends
<1>2. Roots(g) = Roots(h)
  BY GrownRoots
<1> QED
  BY <1>1, <1>2, StatusIs

-----------------------------------------------------------------------------
(* Appending an event.                                                     *)

(* What the lease's holder may write.                                      *)
Fits(e) ==
  \/ e.type = "user"
  \/ log # <<>> /\ e.type = "compacted" /\ e.retained \in Roots(log) /\ e.retained > Start(log)
  \/ e.type \notin {"user", "compacted"} /\ \E r : InTurn(r, e.by)

Writes(q, e) ==
  /\ Fenced(q) /\ EventShaped(e) /\ e.by = p[q].token
  /\ log' = Append(log, e) /\ UNCHANGED lease

LEMMA Known ==
  ASSUME IInv
  PROVE  \E n \in Nat : /\ n = Len(log) /\ DOMAIN log = 1 .. n /\ Roots(log) \subseteq 1 .. n
                        /\ log # <<>> <=> n # 0
                        /\ n # 0 => 1 \in Roots(log) /\ log[1].type = "user"
                                    /\ Start(log) \in Roots(log)
<1>1. PICK S : log \in Seq(S)
  BY DEF IInv, LogOK
<1>2. Len(log) \in Nat /\ DOMAIN log = 1 .. Len(log) /\ (log # <<>> <=> Len(log) # 0)
  BY <1>1
<1>3. Roots(log) \subseteq 1 .. Len(log)
  BY <1>2 DEF Roots, Of
<1>4. log # <<>> => log[1].type = "user" /\ Start(log) \in Roots(log)
  BY DEF IInv, LogOK
<1>5. log # <<>> => 1 \in Roots(log)
  BY <1>2, <1>4 DEF Roots, Of
<1> QED
  BY <1>2, <1>3, <1>4, <1>5

LEMMA WritesGrow ==
  ASSUME IInv, NEW q \in Processes, NEW e, Writes(q, e)
  PROVE  Grown(log, log', e, Len(log)) /\ \E S : log' \in Seq(S)
<1>1. \E S : log \in Seq(S)
  BY DEF IInv, LogOK
<1>2. log' = Append(log, e)
  BY DEF Writes
<1> QED
  BY <1>1, <1>2, AppendGrows

LEMMA LogStaysOK ==
  ASSUME IInv, NEW q \in Processes, NEW e, Writes(q, e), Fits(e)
  PROVE  LogOK' /\ log' # <<>>
<1>1. PICK n \in Nat : /\ n = Len(log) /\ DOMAIN log = 1 .. n /\ Roots(log) \subseteq 1 .. n
                       /\ log # <<>> <=> n # 0
                       /\ n # 0 => 1 \in Roots(log) /\ log[1].type = "user"
                                   /\ Start(log) \in Roots(log)
  BY Known
<1>2. Grown(log, log', e, n) /\ \E S : log' \in Seq(S)
  BY <1>1, WritesGrow
<1>3. log' # <<>>
  BY <1>2 DEF Grown
<1>4. ASSUME NEW i \in DOMAIN log'
      PROVE  EventShaped(log'[i]) /\ log'[i].by \in Nat /\ log'[i].by <= lease'.token
  <2>1. lease' = lease /\ EventShaped(e) /\ e.by \in Nat /\ e.by <= lease.token
    BY DEF IInv, LeaseOK, Writes, Fenced
  <2>2. \A j \in 1 .. n : EventShaped(log[j]) /\ log[j].by \in Nat /\ log[j].by <= lease.token
    BY <1>1 DEF IInv, LogOK
  <2>3. i = n + 1 \/ i \in 1 .. n
    BY <1>2, <1>4 DEF Grown
  <2>4. log'[i] = e \/ (i \in 1 .. n /\ log'[i] = log[i])
    BY <1>2, <2>3 DEF Grown
  <2> QED
    BY <2>1, <2>2, <2>4
<1>5. Roots(log') = Roots(log) \cup (IF e.type = "user" THEN {n + 1} ELSE {})
  BY <1>2, GrownRoots
<1>6. log'[1].type = "user" /\ Start(log') \in Roots(log')
  <2>1. CASE n = 0
    <3>1. e.type = "user"
      BY <1>1, <2>1 DEF Fits, InTurn
    <3>2. log'[1] = e
      BY <1>2, <2>1 DEF Grown
    <3>3. Start(log') = 1
      BY <1>2, <2>1, <3>1, GrownStart
    <3> QED
      BY <1>5, <2>1, <3>1, <3>2, <3>3
  <2>2. CASE n # 0
    <3>1. 1 \in 1 .. n /\ log'[1] = log[1]
      BY <1>2, <2>2 DEF Grown
    <3>2. CASE e.type = "compacted"
      <4>1. Start(log') = e.retained
        BY <1>2, <3>2, GrownStart
      <4>2. e.retained \in Roots(log)
        BY <3>2 DEF Fits
      <4> QED
        BY <1>1, <1>5, <2>2, <3>1, <4>1, <4>2
    <3>3. CASE e.type # "compacted"
      <4>1. Start(log') = Start(log)
        BY <1>1, <1>2, <2>2, <3>3, GrownStart
      <4> QED
        BY <1>1, <1>5, <2>2, <3>1, <4>1
    <3> QED
      BY <3>2, <3>3
  <2> QED
    BY <2>1, <2>2
<1> QED
  BY <1>2, <1>3, <1>4, <1>6 DEF LogOK

LEMMA WritesKeepTurnsWhole ==
  ASSUME IInv, NEW q \in Processes, NEW e, Writes(q, e), Fits(e)
  PROVE  TurnsAreWhole'
<1>1. PICK n \in Nat : /\ n = Len(log) /\ DOMAIN log = 1 .. n /\ Roots(log) \subseteq 1 .. n
                       /\ log # <<>> <=> n # 0
                       /\ n # 0 => 1 \in Roots(log) /\ log[1].type = "user"
                                   /\ Start(log) \in Roots(log)
  BY Known
<1>2. Grown(log, log', e, n)
  BY <1>1, WritesGrow
<1>3. /\ DOMAIN log' = 1 .. n + 1 /\ log'[n + 1] = e /\ \A i \in 1 .. n : log'[i] = log[i]
  BY <1>2 DEF Grown
<1>4. \A i \in 1 .. n + 1 : Before(Roots(log'), i) = Before(Roots(log), i)
  BY <1>2, GrownBefore
<1>5. \A i \in 1 .. n + 1 : i = n + 1 \/ i \in 1 .. n
  OBVIOUS
<1>6. /\ e.by \in Nat /\ \A i \in 1 .. n : log[i].by \in Nat /\ log[i].by <= e.by
  BY <1>1 DEF IInv, LeaseOK, LogOK, Writes, Fenced
<1>7. e.type \notin {"user", "compacted"} =>
        /\ Before(Roots(log), n + 1) \in 1 .. n /\ log[Before(Roots(log), n + 1)].by = e.by
        /\ \A i \in 1 .. n : Ends(log[i]) => i < Before(Roots(log), n + 1)
  <2>1. SUFFICES ASSUME e.type \notin {"user", "compacted"}
                 PROVE  /\ Before(Roots(log), n + 1) \in 1 .. n
                        /\ log[Before(Roots(log), n + 1)].by = e.by
                        /\ \A i \in 1 .. n : Ends(log[i]) => i < Before(Roots(log), n + 1)
    OBVIOUS
  <2>2. PICK r : InTurn(r, e.by)
    BY <2>1 DEF Fits
  <2>3. Before(Roots(log), n + 1) = r /\ r \in 1 .. n
    BY <1>1, <2>2, OpenTurn DEF InTurn
  <2> QED
    BY <1>1, <2>2, <2>3 DEF InTurn
<1>8. ASSUME NEW i \in 1 .. n + 1
      PROVE  /\ \A j \in 1 .. i : log'[j].by <= log'[i].by
             /\ log'[i].type \notin {"user", "compacted"} =>
                  log'[i].by = log'[Before(Roots(log'), i)].by
  <2>1. CASE i = n + 1
    <3>1. \A j \in 1 .. i : log'[j].by <= log'[i].by
      BY <1>3, <1>5, <1>6, <2>1
    <3>2. log'[i].type \notin {"user", "compacted"} =>
            log'[i].by = log'[Before(Roots(log'), i)].by
      BY <1>3, <1>4, <1>7, <2>1
    <3> QED
      BY <3>1, <3>2
  <2>2. CASE i \in 1 .. n
    <3>1. /\ \A j \in 1 .. i : log[j].by <= log[i].by
          /\ log[i].type \notin {"user", "compacted"} =>
               log[i].by = log[Before(Roots(log), i)].by
      BY <1>1, <2>2 DEF IInv, TurnsAreWhole, StaleWritesNothing
    <3>2. \A j \in 1 .. i : j \in 1 .. n
      BY <2>2
    <3>3. \A j \in 1 .. i : log'[j].by <= log'[i].by
      BY <1>3, <2>2, <3>1, <3>2
    <3>4. ASSUME log[i].type \notin {"user", "compacted"}
          PROVE  Before(Roots(log), i) \in 1 .. n
      <4>1. i \in Nat /\ 1 \in Roots(log) /\ i # 1
        BY <1>1, <2>2, <3>4
      <4>2. ~(\A x \in Roots(log) : ~(x < i))
        BY <1>1, <2>2, <4>1
      <4> QED
        BY <1>1, <4>1, <4>2, BeforeIn
    <3> QED
      BY <1>3, <1>4, <2>2, <3>1, <3>3, <3>4
  <2> QED
    BY <1>5, <1>8, <2>1, <2>2
<1>9. StaleWritesNothing'
  BY <1>3, <1>8 DEF StaleWritesNothing
<1>10. ASSUME NEW i \in 1 .. n + 1,
              log'[i].type = "terminal" \/ (log'[i].type = "assistant" /\ log'[i].calls = 0),
              NEW j \in i + 1 .. n + 1, log'[j].type \notin {"user", "compacted"}
       PROVE  Before(Roots(log'), j) > i
  <2>1. i \in 1 .. n /\ j \in 1 .. n + 1
    OBVIOUS
  <2>2. Ends(log[i]) /\ (log[i].type = "terminal" \/ (log[i].type = "assistant" /\ log[i].calls = 0))
    BY <1>3, <1>10, <2>1 DEF Ends
  <2>3. CASE j = n + 1
    BY <1>3, <1>4, <1>7, <1>10, <2>1, <2>2, <2>3
  <2>4. CASE j \in 1 .. n
    <3>1. j \in i + 1 .. Len(log) /\ log[j].type \notin {"user", "compacted"}
      BY <1>1, <1>3, <1>10, <2>1, <2>4
    <3>2. Before(Roots(log), j) > i
      BY <1>1, <2>1, <2>2, <3>1 DEF IInv, TurnsAreWhole, TurnEndsOnce
    <3> QED
      BY <1>4, <2>1, <3>2
  <2> QED
    BY <1>5, <2>1, <2>3, <2>4
<1>11. TurnEndsOnce'
  <2>1. Len(log') = n + 1
    <3>1. PICK S : log' \in Seq(S)
      BY WritesGrow
    <3> QED
      BY <1>3, <3>1
  <2> QED
    BY <1>3, <1>10, <2>1 DEF TurnEndsOnce
<1> QED
  BY <1>9, <1>11 DEF TurnsAreWhole

(* The event is a step of the abstract conversation, or no step at all.    *)
LEMMA WritesAreTurns ==
  ASSUME IInv, NEW q \in Processes, NEW e, Writes(q, e), Fits(e)
  PROVE  [Turns!Next]_<<turnsBar, coveredBar>>
<1>1. PICK n \in Nat : /\ n = Len(log) /\ DOMAIN log = 1 .. n /\ Roots(log) \subseteq 1 .. n
                       /\ log # <<>> <=> n # 0
                       /\ n # 0 => 1 \in Roots(log) /\ log[1].type = "user"
                                   /\ Start(log) \in Roots(log)
  BY Known
<1>2. Grown(log, log', e, n)
  BY <1>1, WritesGrow
<1>3. log' # <<>>
  BY LogStaysOK
<1>4. Roots(log') = Roots(log) \cup (IF e.type = "user" THEN {n + 1} ELSE {})
  BY <1>2, GrownRoots
<1>5. /\ turnsBar = [r \in Roots(log) |-> Status(log, r)]
      /\ turnsBar' = [r \in Roots(log') |-> Status(log', r)]
  BY DEF turnsBar
<1>6. coveredBar' = {r \in Roots(log') : r < Start(log')}
  BY <1>3 DEF coveredBar
<1>7. n # 0 => coveredBar = {r \in Roots(log) : r < Start(log)}
  BY <1>1 DEF coveredBar
<1>8. CASE e.type = "user"
  <2>1. coveredBar' = coveredBar
    <3>1. CASE n = 0
      <4>1. Start(log') = 1 /\ Roots(log') = {1}
        BY <1>1, <1>2, <1>4, <1>8, <3>1, GrownStart
      <4> QED
        BY <1>1, <1>6, <3>1, <4>1 DEF coveredBar
    <3>2. CASE n # 0
      <4>1. Start(log') = Start(log) /\ Start(log) \in 1 .. n
        BY <1>1, <1>2, <1>8, <3>2, GrownStart
      <4> QED
        BY <1>1, <1>4, <1>6, <1>7, <1>8, <3>2, <4>1
    <3> QED
      BY <3>1, <3>2
  <2>2. Roots(log') = Roots(log) \cup {n + 1} /\ n + 1 \notin Roots(log)
        /\ \A m \in Roots(log) : m < n + 1
    BY <1>1, <1>4, <1>8
  <2>3. /\ Status(log', n + 1) = "open"
        /\ \A r \in Roots(log) : Status(log', r) = IF Status(log, r) = "open" THEN "abandoned"
                                                   ELSE Status(log, r)
    BY <1>2, <1>8, MessageOpens
  <2>4. DOMAIN turnsBar = Roots(log) /\ DOMAIN turnsBar' = Roots(log')
        /\ \A r \in Roots(log) : turnsBar[r] = Status(log, r)
    BY <1>5
  <2>5. turnsBar' = [m \in DOMAIN turnsBar \cup {n + 1} |->
                       IF m = n + 1 THEN "open" ELSE Turns!Closed(turnsBar[m])]
    <3>1. \A m \in Roots(log) : Status(log', m) = Turns!Closed(turnsBar[m])
      BY <2>3, <2>4 DEF Turns!Closed
    <3> QED
      BY <1>5, <2>2, <2>3, <2>4, <3>1
  <2>6. /\ n + 1 \in DOMAIN turnsBar' \ DOMAIN turnsBar
        /\ \A m \in DOMAIN turnsBar : m < n + 1
    BY <2>2, <2>4
  <2> QED
    BY <2>1, <2>5, <2>6 DEF Turns!Begin, Turns!Next
<1>9. CASE e.type = "compacted"
  <2>1. n # 0 /\ e.retained \in Roots(log) /\ e.retained > Start(log)
    BY <1>1, <1>9 DEF Fits
  <2>2. Start(log') = e.retained /\ Roots(log') = Roots(log)
    BY <1>2, <1>4, <1>9, GrownStart
  <2>3. turnsBar' = turnsBar
    <3>1. \A r \in Roots(log) : Status(log', r) = Status(log, r)
      BY <1>2, <1>9, OthersKeep DEF Ends
    <3> QED
      BY <1>5, <2>2, <3>1
  <2>4. DOMAIN turnsBar = Roots(log)
    BY <1>5
  <2>5. coveredBar' = {m \in DOMAIN turnsBar : m < e.retained}
    BY <1>6, <2>2, <2>4
  <2>6. coveredBar \subseteq coveredBar'
    BY <1>1, <1>7, <2>1, <2>4, <2>5
  <2>7. coveredBar # coveredBar'
    <3>1. Start(log) \in coveredBar' /\ Start(log) \notin coveredBar
      BY <1>1, <1>7, <2>1, <2>4, <2>5
    <3> QED
      BY <3>1
  <2> QED
    BY <2>1, <2>3, <2>4, <2>5, <2>6, <2>7 DEF Turns!Summarize, Turns!Next
<1>10. CASE e.type \notin {"user", "compacted"}
  <2>1. PICK r : InTurn(r, e.by)
    BY <1>10 DEF Fits
  <2>2. Before(Roots(log), n + 1) = r /\ r \in 1 .. n /\ Status(log, r) = "open"
        /\ ~FailedIn(log, r) /\ ~AnsweredIn(log, r)
    BY <1>1, <2>1, OpenTurn DEF InTurn
  <2>3. n # 0 /\ Roots(log') = Roots(log) /\ r \in Roots(log)
    BY <1>4, <1>10, <2>1, <2>2 DEF InTurn
  <2>4. coveredBar' = coveredBar
    <3>1. Start(log') = Start(log)
      BY <1>1, <1>2, <1>10, <2>3, GrownStart
    <3> QED
      BY <1>6, <1>7, <2>3, <3>1
  <2>5. \A x \in Roots(log) : ~Ends(e) \/ x # r => Status(log', x) = Status(log, x)
    BY <1>2, <1>10, <2>2, OthersKeep
  <2>6. CASE ~Ends(e)
    <3>1. turnsBar' = turnsBar
      BY <1>5, <2>3, <2>5, <2>6
    <3> QED
      BY <2>4, <3>1
  <2>7. ASSUME NEW s, Status(log', r) = s
        PROVE  /\ turnsBar[r] = "open" /\ r \in DOMAIN turnsBar
               /\ Ends(e) => turnsBar' = [turnsBar EXCEPT ![r] = s]
    BY <1>5, <2>2, <2>3, <2>5, <2>7
  <2>8. CASE e.type = "terminal"
    <3>1. Status(log', r) = "failed"
      BY <1>2, <2>2, <2>8, GrownEnds, StatusIs
    <3> QED
      BY <2>4, <2>7, <2>8, <3>1 DEF Ends, Turns!End, Turns!Next
  <2>9. CASE e.type = "assistant" /\ e.calls = 0
    <3>1. FailedIn(log', r) <=> FailedIn(log, r)
      BY <1>2, <2>9, GrownEnds
    <3>2. AnsweredIn(log', r)
      BY <1>2, <2>2, <2>9, GrownEnds
    <3>3. Status(log', r) = "answered"
      BY <2>2, <3>1, <3>2, StatusIs
    <3> QED
      BY <2>4, <2>7, <2>9, <3>3 DEF Ends, Turns!End, Turns!Next
  <2> QED
    BY <2>6, <2>8, <2>9 DEF Ends
<1> QED
  BY <1>8, <1>9, <1>10

-----------------------------------------------------------------------------
(* The frame of every step: a process goes on with other work, the history *)
(* as it was or one event longer.                                          *)

LEMMA Moves ==
  ASSUME IInv, NEW q \in Processes, NEW r, UNCHANGED <<log, lease>>,
         p' = [p EXCEPT ![q] = r], ProcessShaped(r), r.token \in Nat, r.token <= lease.token,
         Doing(q, r)
  PROVE  IInv' /\ [Turns!Next]_<<turnsBar, coveredBar>>
<1>1. p = [o \in Processes |-> p[o]] /\ p' = [o \in Processes |-> p'[o]]
      /\ \A o \in Processes : p'[o] = IF o = q THEN r ELSE p[o]
  BY DEF IInv, LeaseOK
<1>2. LeaseOK'
  BY <1>1 DEF IInv, LeaseOK
<1>3. LogOK' /\ TurnsAreWhole'
  BY DEF IInv, LogOK, TurnsAreWhole, StaleWritesNothing, TurnEndsOnce
<1>4. ASSUME NEW o \in Processes PROVE Doing(o, p[o])'
  <2>1. Doing(o, p'[o])
    BY <1>1 DEF IInv
  <2> QED
    BY <2>1 DEF Doing, InTurn
<1>5. turnsBar' = turnsBar /\ coveredBar' = coveredBar
  BY DEF turnsBar, coveredBar
<1> QED
  BY <1>2, <1>3, <1>4, <1>5 DEF IInv

LEMMA Adds ==
  ASSUME IInv, NEW q \in Processes, NEW e, NEW r, Writes(q, e), Fits(e),
         p' = [p EXCEPT ![q] = r], ProcessShaped(r), r.token = p[q].token,
         r.pc \notin {"manual", "summarized", "compactor"},
         r.pc \in Turning => \/ e.type = "user" /\ r.root = Len(log) + 1
                             \/ InTurn(r.root, r.token) /\ e.type # "user" /\ ~Ends(e)
  PROVE  IInv' /\ [Turns!Next]_<<turnsBar, coveredBar>>
<1>1. p = [o \in Processes |-> p[o]] /\ p' = [o \in Processes |-> p'[o]]
      /\ \A o \in Processes : p'[o] = IF o = q THEN r ELSE p[o]
  BY DEF IInv, LeaseOK
<1>2. lease' = lease /\ lease.holder = q /\ e.by = r.token
  BY DEF Writes, Fenced
<1>3. LeaseOK'
  BY <1>1, <1>2 DEF IInv, LeaseOK
<1>4. LogOK' /\ log' # <<>> /\ TurnsAreWhole'
  BY LogStaysOK, WritesKeepTurnsWhole
<1>5. ASSUME NEW o \in Processes, o # q PROVE Doing(o, p[o])'
  <2>1. Doing(o, p[o]) /\ p'[o] = p[o] /\ lease'.holder # o
    BY <1>1, <1>2, <1>5 DEF IInv
  <2> QED
    BY <1>4, <2>1 DEF Doing
<1>6. Doing(q, p[q])'
  <2>1. SUFFICES ASSUME r.pc \in Turning PROVE InTurn(r.root, r.token)'
    BY <1>1, <1>4 DEF Doing
  <2>2. PICK n \in Nat : n = Len(log) /\ DOMAIN log = 1 .. n /\ Roots(log) \subseteq 1 .. n
    BY Known
  <2>3. Grown(log, log', e, n)
    BY <2>2, WritesGrow
  <2>4. Roots(log') = Roots(log) \cup (IF e.type = "user" THEN {n + 1} ELSE {})
    BY <2>3, GrownRoots
  <2>5. /\ DOMAIN log' = 1 .. n + 1 /\ log'[n + 1] = e /\ \A i \in 1 .. n : log'[i] = log[i]
        /\ \A i \in 1 .. n + 1 : i = n + 1 \/ i \in 1 .. n
    BY <2>3 DEF Grown
  <2>6. CASE e.type = "user" /\ r.root = n + 1
    <3>1. n + 1 \in Roots(log') /\ \A x \in Roots(log') : x <= n + 1
      BY <2>2, <2>4, <2>6
    <3>2. ~Ends(e)
      BY <2>6 DEF Ends
    <3>3. \A i \in DOMAIN log' : Ends(log'[i]) => i < n + 1
      BY <2>5, <3>2
    <3> QED
      BY <1>2, <2>5, <2>6, <3>1, <3>3 DEF InTurn
  <2>7. CASE InTurn(r.root, r.token) /\ e.type # "user" /\ ~Ends(e)
    <3>1. Roots(log') = Roots(log) /\ r.root \in 1 .. n
      BY <2>2, <2>4, <2>7 DEF InTurn
    <3>2. \A i \in DOMAIN log' : Ends(log'[i]) => i < r.root
      BY <2>2, <2>5, <2>7 DEF InTurn
    <3> QED
      BY <2>5, <2>7, <3>1, <3>2 DEF InTurn
  <2> QED
    BY <2>1, <2>2, <2>6, <2>7
<1>7. [Turns!Next]_<<turnsBar, coveredBar>>
  BY WritesAreTurns
<1> QED
  BY <1>3, <1>4, <1>5, <1>6, <1>7 DEF IInv

(* The event is fenced, admitted and appended, or the turn is over.        *)
LEMMA Attempts ==
  ASSUME IInv, NEW q \in Processes, NEW e, NEW r, AppendEvent(q, e, r), UNCHANGED lease,
         EventShaped(e), ProcessShaped(r), r.token = p[q].token,
         r.pc \notin {"manual", "summarized", "compactor"},
         Fenced(q) /\ Admitted(log, e) =>
           /\ \/ e.type = "user"
              \/ /\ log # <<>> /\ e.type = "compacted"
                 /\ e.retained \in Roots(log) /\ e.retained > Start(log)
              \/ e.type \notin {"user", "compacted"} /\ InTurn(p[q].root, p[q].token)
           /\ r.pc \in Turning => \/ e.type = "user" /\ r.root = Len(log) + 1
                                  \/ InTurn(r.root, r.token) /\ e.type # "user" /\ ~Ends(e)
  PROVE  IInv' /\ [Turns!Next]_<<turnsBar, coveredBar>>
<1>1. ProcessShaped(p[q]) /\ p[q].token \in Nat /\ p[q].token <= lease.token
      /\ p = [o \in Processes |-> p[o]]
  BY DEF IInv, LeaseOK
<1>2. CASE log' = log /\ Goto(q, "release")
  <2>1. PICK s : s = [p[q] EXCEPT !.pc = "release"]
    OBVIOUS
  <2>2. p' = [p EXCEPT ![q] = s]
    BY <1>1, <1>2, <2>1 DEF Goto
  <2>3. ProcessShaped(s) /\ s.pc = "release" /\ s.token = p[q].token
    BY <1>1, <2>1 DEF ProcessShaped, ProcessFields
  <2>4. Doing(q, s)
    BY <2>3 DEF Doing, Turning
  <2>5. UNCHANGED <<log, lease>>
    BY <1>2
  <2> QED
    BY <1>1, <2>2, <2>3, <2>4, <2>5, Moves
<1>3. CASE /\ Fenced(q) /\ Admitted(log, e)
           /\ log' = Append(log, [e EXCEPT !.by = p[q].token]) /\ p' = [p EXCEPT ![q] = r]
  <2>1. PICK w : w = [e EXCEPT !.by = p[q].token]
    OBVIOUS
  <2>2. /\ EventShaped(w) /\ w.by = p[q].token /\ w.type = e.type /\ w.retained = e.retained
        /\ w.calls = e.calls
    BY <2>1 DEF EventShaped, EventFields
  <2>3. Writes(q, w)
    BY <1>3, <2>1, <2>2 DEF Writes
  <2>4. Fits(w)
    BY <1>3, <2>2 DEF Fits
  <2>5. r.pc \in Turning => \/ w.type = "user" /\ r.root = Len(log) + 1
                            \/ InTurn(r.root, r.token) /\ w.type # "user" /\ ~Ends(w)
    BY <1>3, <2>2 DEF Ends
  <2> QED
    BY <1>3, <2>3, <2>4, <2>5, Adds
<1> QED
  BY <1>2, <1>3 DEF AppendEvent

-----------------------------------------------------------------------------
(* Shapes of events and plans.                                             *)

LEMMA EventIs ==
  /\ EventShaped(Event) /\ Event.type = "user"
  /\ ProcessShaped(Idle) /\ Idle.pc = "idle" /\ Idle.token = 0
BY DEF Event, Idle, EventShaped, EventFields, ProcessShaped, ProcessFields

LEMMA CompactionIs ==
  ASSUME NEW h, NEW k, NEW auto
  PROVE  /\ EventShaped(Compaction(h, k, auto)) /\ Compaction(h, k, auto).type = "compacted"
         /\ Compaction(h, k, auto).retained = k
<1> DEFINE prior == Greatest(Of(h, {"compacted"}))
           last == TurnEnd(h, Before(Roots(h), k))
           gen == IF prior = 0 THEN 1 ELSE h[prior].gen + 1
<1>1. Compaction(h, k, auto) =
        [Event EXCEPT !.type = "compacted", !.first = Start(h), !.retained = k, !.last = last,
                      !.auto = auto, !.prior = prior, !.gen = gen]
  BY DEF Compaction
<1> HIDE DEF prior, last, gen
<1> QED
  BY <1>1, EventIs DEF EventShaped, EventFields

LEMMA TurnPlanIs ==
  ASSUME NEW h, NEW root, NEW trigger, NEW plan \in TurnPlans(h, root, trigger)
  PROVE  EventShaped(plan) /\ plan.type = "turn_compacted"
<1> DEFINE groups == Groups(h, root)
           prior == LatestTurnCompaction(h, root, Len(h) + 1)
           first == IF prior = 0 THEN Min(groups) ELSE h[prior].retained
           gen == IF prior = 0 THEN 1 ELSE h[prior].gen + 1
           last(a) == Greatest(Results(h, a))
           kept(a) == After(groups, a)
<1>1. PICK a : plan = [Event EXCEPT !.type = "turn_compacted", !.parent = trigger, !.turn = root,
                                    !.first = first, !.last = last(a), !.retained = kept(a),
                                    !.prior = prior, !.gen = gen]
  BY DEF TurnPlans
<1> HIDE DEF groups, prior, first, gen, last, kept
<1> QED
  BY <1>1, EventIs DEF EventShaped, EventFields

LEMMA WholePlanIs ==
  ASSUME NEW h, NEW root, NEW plan \in WholePlans(h, root)
  PROVE  EventShaped(plan) /\ plan.type = "compacted" /\ plan.retained > Start(h)
<1>1. PICK k \in Roots(h) : k > Start(h) /\ plan = Compaction(h, k, TRUE)
  BY DEF WholePlans
<1>2. PICK auto : plan = Compaction(h, k, auto)
  BY <1>1, Zenon
<1>3. k > Start(h)
  BY <1>1, Zenon
<1> QED
  BY <1>2, <1>3, CompactionIs

LEMMA ManualPlanIs ==
  ASSUME NEW h, NEW n \in Nat, DOMAIN h = 1 .. n, Start(h) \in Roots(h),
         NEW plan \in ManualPlans(h)
  PROVE  /\ EventShaped(plan) /\ plan.type = "compacted"
         /\ plan.retained \in Roots(h) => plan.retained > Start(h)
<1>1. PICK k \in Roots(h) : k >= Start(h) /\ plan = Compaction(h, After(Roots(h), k), FALSE)
  BY DEF ManualPlans
<1>2. /\ EventShaped(plan) /\ plan.type = "compacted" /\ plan.retained = After(Roots(h), k)
  <2>1. PICK auto : plan = Compaction(h, After(Roots(h), k), auto)
    BY <1>1, Zenon
  <2> QED
    BY <2>1, CompactionIs
<1>3. Roots(h) \subseteq 1 .. n
  BY DEF Roots, Of
<1>4. ASSUME After(Roots(h), k) \in Roots(h) PROVE After(Roots(h), k) > Start(h)
  <2>1. \E j \in Roots(h) : j > k
    BY <1>3, <1>4 DEF After
  <2>2. Roots(h) \subseteq Nat /\ k \in Nat
    BY <1>3
  <2>3. After(Roots(h), k) > k
    BY <2>1, <2>2, AfterIs
  <2> QED
    BY <1>1, <1>3, <1>4, <2>3
<1> QED
  BY <1>2, <1>4

-----------------------------------------------------------------------------
(* One lemma for each action.                                              *)

Kept == IInv' /\ [Turns!Next]_<<turnsBar, coveredBar>>

LEMMA Shapes ==
  ASSUME IInv, NEW q \in Processes
  PROVE  /\ p = [o \in Processes |-> p[o]] /\ ProcessShaped(p[q])
         /\ p[q].token \in Nat /\ p[q].token <= lease.token
         /\ Doing(q, p[q]) /\ (Fenced(q) /\ p[q].pc \in Turning => InTurn(p[q].root, p[q].token))
BY DEF IInv, LeaseOK, Doing, Fenced

(* A process at another place of the same turn, or leaving it.             *)
LEMMA Jumps ==
  ASSUME IInv, NEW q \in Processes, NEW pc, UNCHANGED <<log, lease>>, Goto(q, pc),
         \/ pc = "release"
         \/ p[q].pc \in Turning /\ pc \in Turning \ {"compactor"}
  PROVE  Kept
<1>1. p = [o \in Processes |-> p[o]] /\ ProcessShaped(p[q]) /\ Doing(q, p[q])
      /\ p[q].token \in Nat /\ p[q].token <= lease.token
  BY Shapes
<1>2. PICK s : s = [p[q] EXCEPT !.pc = pc]
  OBVIOUS
<1>3. p' = [p EXCEPT ![q] = s]
  BY <1>1, <1>2 DEF Goto
<1>4. ProcessShaped(s) /\ s.pc = pc /\ s.token = p[q].token /\ s.root = p[q].root
  BY <1>1, <1>2 DEF ProcessShaped, ProcessFields
<1>5. Doing(q, s)
  BY <1>1, <1>4 DEF Doing, Turning
<1> QED
  BY <1>1, <1>3, <1>4, <1>5, Moves DEF Kept

LEMMA Users ==
  ASSUME IInv, NEW q \in Processes, AppendUser(q)
  PROVE  Kept
<1>1. ProcessShaped(p[q])
  BY Shapes
<1>2. PICK r : r = [p[q] EXCEPT !.pc = "compose", !.root = Id, !.trigger = Id]
  OBVIOUS
<1>3. ProcessShaped(r) /\ r.pc = "compose" /\ r.token = p[q].token /\ r.root = Len(log) + 1
  BY <1>1, <1>2 DEF ProcessShaped, ProcessFields, Id
<1>4. AppendEvent(q, Event, r) /\ UNCHANGED lease
  BY <1>2 DEF AppendUser
<1>5. PICK e : e = Event
  OBVIOUS
<1>6. EventShaped(e) /\ e.type = "user" /\ AppendEvent(q, e, r)
  BY <1>4, <1>5, EventIs
<1> QED
  BY <1>3, <1>4, <1>6, Attempts DEF Kept

LEMMA Composes ==
  ASSUME IInv, NEW q \in Processes, Compose(q)
  PROVE  Kept
<1>1. p[q].pc = "compose" /\ UNCHANGED <<log, lease>>
  BY DEF Compose
<1>2. \/ Goto(q, "release") \/ Goto(q, "snapshot") \/ Goto(q, "terminal")
      \/ \E plan \in WholePlans(log, p[q].root) \cup TurnPlans(log, p[q].root, p[q].trigger) :
           p' = [p EXCEPT ![q].pc = "compactor", ![q].plan = plan]
  BY DEF Compose
<1>3. CASE Goto(q, "release") \/ Goto(q, "snapshot") \/ Goto(q, "terminal")
  BY <1>1, <1>3, Jumps DEF Turning
<1>4. ASSUME NEW plan \in WholePlans(log, p[q].root) \cup TurnPlans(log, p[q].root, p[q].trigger),
             p' = [p EXCEPT ![q].pc = "compactor", ![q].plan = plan]
      PROVE  Kept
  <2>1. p = [o \in Processes |-> p[o]] /\ ProcessShaped(p[q]) /\ Doing(q, p[q])
        /\ p[q].token \in Nat /\ p[q].token <= lease.token
    BY Shapes
  <2>2. PICK s : s = [p[q] EXCEPT !.pc = "compactor", !.plan = plan]
    OBVIOUS
  <2>3. p' = [p EXCEPT ![q] = s]
    BY <1>4, <2>1, <2>2
  <2>4. ProcessShaped(s) /\ s.pc = "compactor" /\ s.token = p[q].token /\ s.root = p[q].root
        /\ s.plan = plan
    BY <2>1, <2>2 DEF ProcessShaped, ProcessFields
  <2>5. /\ EventShaped(plan) /\ plan.type \in {"compacted", "turn_compacted"}
        /\ plan.type = "compacted" => plan.retained > Start(log)
    BY WholePlanIs, TurnPlanIs
  <2>6. Doing(q, s)
    BY <1>1, <2>1, <2>4, <2>5 DEF Doing, Turning
  <2> QED
    BY <1>1, <2>1, <2>3, <2>4, <2>6, Moves DEF Kept
<1> QED
  BY <1>2, <1>3, <1>4

LEMMA PlannedFits ==
  ASSUME IInv, NEW q \in Processes, p[q].pc \in {"compactor", "summarized"}, Fenced(q),
         Admitted(log, p[q].plan), p[q].plan.type = "compacted"
  PROVE  log # <<>> /\ p[q].plan.retained \in Roots(log) /\ p[q].plan.retained > Start(log)
<1>1. p[q].plan.retained \in Roots(log)
  BY DEF Admitted, AdmitCompaction
<1>2. p[q].plan.retained > Start(log)
  BY <1>1 DEF IInv, Doing, Fenced
<1>3. log # <<>>
  BY <1>1, Known
<1> QED
  BY <1>1, <1>2, <1>3

LEMMA Compacts ==
  ASSUME IInv, NEW q \in Processes, Compact(q)
  PROVE  Kept
<1>1. p[q].pc = "compactor" /\ UNCHANGED lease
  BY DEF Compact
<1>2. p = [o \in Processes |-> p[o]] /\ ProcessShaped(p[q]) /\ Doing(q, p[q])
      /\ p[q].token \in Nat /\ p[q].token <= lease.token
      /\ (Fenced(q) => InTurn(p[q].root, p[q].token))
  BY <1>1, Shapes DEF Turning
<1>3. CASE AppendEvent(q, p[q].plan, [p[q] EXCEPT !.pc = "snapshot", !.compacted = TRUE,
                                                  !.plan = Event])
  <2>1. PICK e : e = p[q].plan
    OBVIOUS
  <2>2. PICK r : r = [p[q] EXCEPT !.pc = "snapshot", !.compacted = TRUE, !.plan = Event]
    OBVIOUS
  <2>3. ProcessShaped(r) /\ r.pc = "snapshot" /\ r.token = p[q].token /\ r.root = p[q].root
    BY <1>2, <2>2 DEF ProcessShaped, ProcessFields
  <2>4. AppendEvent(q, e, r)
    BY <1>3, <2>1, <2>2
  <2>5. EventShaped(e) /\ e.type \in {"compacted", "turn_compacted"}
    BY <1>1, <1>2, <2>1 DEF Doing
  <2>6. Fenced(q) /\ Admitted(log, e) /\ e.type = "compacted" =>
          log # <<>> /\ e.retained \in Roots(log) /\ e.retained > Start(log)
    BY <1>1, <2>1, PlannedFits
  <2>7. ~Ends(e)
    BY <2>5 DEF Ends
  <2> QED
    BY <1>1, <1>2, <2>3, <2>4, <2>5, <2>6, <2>7, Attempts DEF Kept
<1>4. ASSUME NEW pc \in {"terminal", "snapshot"}, UNCHANGED log,
             p' = [p EXCEPT ![q].pc = pc, ![q].failed = TRUE, ![q].plan = Event]
      PROVE  Kept
  <2>1. PICK s : s = [p[q] EXCEPT !.pc = pc, !.failed = TRUE, !.plan = Event]
    OBVIOUS
  <2>2. p' = [p EXCEPT ![q] = s]
    BY <1>2, <1>4, <2>1
  <2>3. ProcessShaped(s) /\ s.pc = pc /\ s.token = p[q].token /\ s.root = p[q].root
    BY <1>2, <2>1 DEF ProcessShaped, ProcessFields
  <2>4. Doing(q, s)
    BY <1>1, <1>2, <2>3 DEF Doing, Turning
  <2> QED
    BY <1>1, <1>2, <1>4, <2>2, <2>3, <2>4, Moves DEF Kept
<1>5. \/ AppendEvent(q, p[q].plan, [p[q] EXCEPT !.pc = "snapshot", !.compacted = TRUE,
                                                !.plan = Event])
      \/ /\ UNCHANGED log
         /\ \E pc \in {"terminal", "snapshot"} :
              p' = [p EXCEPT ![q].pc = pc, ![q].failed = TRUE, ![q].plan = Event]
  BY DEF Compact
<1> QED
  BY <1>3, <1>4, <1>5

LEMMA Snapshots ==
  ASSUME IInv, NEW q \in Processes, AppendSnapshot(q)
  PROVE  Kept
<1>1. p[q].pc = "snapshot" /\ UNCHANGED lease
  BY DEF AppendSnapshot
<1>2. ProcessShaped(p[q]) /\ (Fenced(q) => InTurn(p[q].root, p[q].token))
  BY <1>1, Shapes DEF Turning
<1>3. PICK k, c, t : AppendEvent(q, [Event EXCEPT !.type = "snapshot", !.parent = p[q].trigger,
                                                  !.retained = k, !.active = c, !.activeTurn = t],
                                 [p[q] EXCEPT !.pc = "provider"])
  BY DEF AppendSnapshot
<1>4. PICK e : e = [Event EXCEPT !.type = "snapshot", !.parent = p[q].trigger,
                                 !.retained = k, !.active = c, !.activeTurn = t]
  OBVIOUS
<1>5. PICK r : r = [p[q] EXCEPT !.pc = "provider"]
  OBVIOUS
<1>6. AppendEvent(q, e, r)
  BY <1>3, <1>4, <1>5
<1>7. EventShaped(e) /\ e.type = "snapshot" /\ ~Ends(e)
  BY <1>4, EventIs DEF EventShaped, EventFields, Ends
<1>8. ProcessShaped(r) /\ r.pc = "provider" /\ r.token = p[q].token /\ r.root = p[q].root
  BY <1>2, <1>5 DEF ProcessShaped, ProcessFields
<1> QED
  BY <1>1, <1>2, <1>6, <1>7, <1>8, Attempts DEF Kept

LEMMA Answers ==
  ASSUME IInv, NEW q \in Processes, AppendAnswer(q)
  PROVE  Kept
<1>1. p[q].pc = "provider" /\ UNCHANGED lease
  BY DEF AppendAnswer
<1>2. ProcessShaped(p[q]) /\ (Fenced(q) => InTurn(p[q].root, p[q].token))
  BY <1>1, Shapes DEF Turning
<1>3. PICK n : AppendEvent(q, [Event EXCEPT !.type = "assistant", !.parent = p[q].trigger,
                                            !.calls = n],
                           [p[q] EXCEPT !.pc = IF n = 0 THEN "release" ELSE "tools", !.left = n,
                                        !.compacted = FALSE,
                                        !.retry = IF @ = "now" THEN "used" ELSE @])
  BY DEF AppendAnswer
<1>4. PICK e : e = [Event EXCEPT !.type = "assistant", !.parent = p[q].trigger, !.calls = n]
  OBVIOUS
<1>5. PICK r : r = [p[q] EXCEPT !.pc = IF n = 0 THEN "release" ELSE "tools", !.left = n,
                                !.compacted = FALSE,
                                !.retry = IF @ = "now" THEN "used" ELSE @]
  OBVIOUS
<1>6. AppendEvent(q, e, r)
  BY <1>3, <1>4, <1>5
<1>7. EventShaped(e) /\ e.type = "assistant" /\ (Ends(e) <=> n = 0)
  BY <1>4, EventIs DEF EventShaped, EventFields, Ends
<1>8. ProcessShaped(r) /\ r.pc = (IF n = 0 THEN "release" ELSE "tools")
      /\ r.token = p[q].token /\ r.root = p[q].root
  BY <1>2, <1>5 DEF ProcessShaped, ProcessFields
<1>9. r.pc \in Turning => ~Ends(e)
  BY <1>7, <1>8 DEF Turning
<1>10. r.pc \notin {"manual", "summarized", "compactor"}
  BY <1>8
<1> QED
  BY <1>1, <1>2, <1>6, <1>7, <1>8, <1>9, <1>10, Attempts DEF Kept

LEMMA Outcomes ==
  ASSUME IInv, NEW q \in Processes, AppendOutcome(q)
  PROVE  Kept
<1>1. p[q].pc = "tools" /\ UNCHANGED lease
  BY DEF AppendOutcome
<1>2. ProcessShaped(p[q]) /\ (Fenced(q) => InTurn(p[q].root, p[q].token))
  BY <1>1, Shapes DEF Turning
<1>3. PICK a, c : AppendEvent(q, [Event EXCEPT !.type = "outcome", !.parent = a, !.call = c],
        [p[q] EXCEPT !.left = @ - 1, !.pc = IF p[q].left = 1 THEN "compose" ELSE "tools",
                     !.trigger = IF p[q].left = 1 THEN Id ELSE @])
  BY DEF AppendOutcome
<1>4. PICK e : e = [Event EXCEPT !.type = "outcome", !.parent = a, !.call = c]
  OBVIOUS
<1>5. PICK r : r = [p[q] EXCEPT !.left = @ - 1,
                                !.pc = IF p[q].left = 1 THEN "compose" ELSE "tools",
                                !.trigger = IF p[q].left = 1 THEN Id ELSE @]
  OBVIOUS
<1>6. AppendEvent(q, e, r)
  BY <1>3, <1>4, <1>5
<1>7. EventShaped(e) /\ e.type = "outcome" /\ ~Ends(e)
  BY <1>4, EventIs DEF EventShaped, EventFields, Ends
<1>8. ProcessShaped(r) /\ r.pc \in {"compose", "tools"}
      /\ r.token = p[q].token /\ r.root = p[q].root
  BY <1>2, <1>5 DEF ProcessShaped, ProcessFields
<1> QED
  BY <1>1, <1>2, <1>6, <1>7, <1>8, Attempts DEF Kept

LEMMA Terminals ==
  ASSUME IInv, NEW q \in Processes, AppendTerminal(q)
  PROVE  Kept
<1>1. p[q].pc = "terminal" /\ UNCHANGED lease
  BY DEF AppendTerminal
<1>2. ProcessShaped(p[q]) /\ (Fenced(q) => InTurn(p[q].root, p[q].token))
  BY <1>1, Shapes DEF Turning
<1>3. PICK e : e = [Event EXCEPT !.type = "terminal", !.parent = p[q].trigger, !.turn = p[q].root]
  OBVIOUS
<1>4. PICK r : r = [p[q] EXCEPT !.pc = "release"]
  OBVIOUS
<1>5. AppendEvent(q, e, r)
  BY <1>3, <1>4 DEF AppendTerminal
<1>6. EventShaped(e) /\ e.type = "terminal"
  BY <1>3, EventIs DEF EventShaped, EventFields
<1>7. ProcessShaped(r) /\ r.pc = "release" /\ r.token = p[q].token /\ r.pc \notin Turning
  BY <1>2, <1>4 DEF ProcessShaped, ProcessFields, Turning
<1> QED
  BY <1>1, <1>2, <1>5, <1>6, <1>7, Attempts DEF Kept

LEMMA Manuals ==
  ASSUME IInv, NEW q \in Processes, PlanManual(q)
  PROVE  Kept
<1>1. p[q].pc = "manual" /\ UNCHANGED <<log, lease>>
  BY DEF PlanManual
<1>2. CASE Goto(q, "release")
  BY <1>1, <1>2, Jumps
<1>3. ASSUME NEW plan \in ManualPlans(log),
             p' = [p EXCEPT ![q].pc = "summarized", ![q].plan = plan]
      PROVE  Kept
  <2>1. p = [o \in Processes |-> p[o]] /\ ProcessShaped(p[q]) /\ Doing(q, p[q])
        /\ p[q].token \in Nat /\ p[q].token <= lease.token
    BY Shapes
  <2>2. log # <<>>
    BY <1>1, <2>1 DEF Doing
  <2>3. PICK s : s = [p[q] EXCEPT !.pc = "summarized", !.plan = plan]
    OBVIOUS
  <2>4. p' = [p EXCEPT ![q] = s]
    BY <1>3, <2>1, <2>3
  <2>5. ProcessShaped(s) /\ s.pc = "summarized" /\ s.token = p[q].token /\ s.plan = plan
    BY <2>1, <2>3 DEF ProcessShaped, ProcessFields
  <2>6. /\ EventShaped(plan) /\ plan.type = "compacted"
        /\ plan.retained \in Roots(log) => plan.retained > Start(log)
    <3>1. PICK n \in Nat : DOMAIN log = 1 .. n /\ Start(log) \in Roots(log)
      BY <2>2, Known
    <3> QED
      BY <3>1, ManualPlanIs
  <2>7. Doing(q, s)
    BY <2>2, <2>5, <2>6 DEF Doing, Turning
  <2> QED
    BY <1>1, <2>1, <2>4, <2>5, <2>7, Moves DEF Kept
<1> QED
  BY <1>2, <1>3 DEF PlanManual

LEMMA ManualAppends ==
  ASSUME IInv, NEW q \in Processes, AppendManual(q)
  PROVE  Kept
<1>1. p[q].pc = "summarized" /\ UNCHANGED lease
  BY DEF AppendManual
<1>2. ProcessShaped(p[q]) /\ Doing(q, p[q])
  BY Shapes
<1>3. PICK e : e = p[q].plan
  OBVIOUS
<1>4. PICK r : r = [p[q] EXCEPT !.pc = "release", !.plan = Event]
  OBVIOUS
<1>5. AppendEvent(q, e, r)
  BY <1>3, <1>4 DEF AppendManual
<1>6. EventShaped(e) /\ e.type = "compacted"
  BY <1>1, <1>2, <1>3 DEF Doing
<1>7. Fenced(q) /\ Admitted(log, e) =>
        log # <<>> /\ e.retained \in Roots(log) /\ e.retained > Start(log)
  BY <1>1, <1>3, <1>6, PlannedFits
<1>8. ProcessShaped(r) /\ r.pc = "release" /\ r.token = p[q].token /\ r.pc \notin Turning
  BY <1>2, <1>4 DEF ProcessShaped, ProcessFields, Turning
<1> QED
  BY <1>1, <1>5, <1>6, <1>7, <1>8, Attempts DEF Kept

LEMMA Rejections ==
  ASSUME IInv, NEW q \in Processes, Rejected(q)
  PROVE  Kept
<1>1. p[q].pc = "provider" /\ UNCHANGED <<log, lease>>
  BY DEF Rejected
<1>2. CASE Goto(q, "terminal")
  BY <1>1, <1>2, Jumps DEF Turning
<1>3. CASE p' = [p EXCEPT ![q].pc = "compose", ![q].retry = "now"]
  <2>1. p = [o \in Processes |-> p[o]] /\ ProcessShaped(p[q]) /\ Doing(q, p[q])
        /\ p[q].token \in Nat /\ p[q].token <= lease.token
    BY Shapes
  <2>2. PICK s : s = [p[q] EXCEPT !.pc = "compose", !.retry = "now"]
    OBVIOUS
  <2>3. p' = [p EXCEPT ![q] = s]
    BY <1>3, <2>1, <2>2
  <2>4. ProcessShaped(s) /\ s.pc = "compose" /\ s.token = p[q].token /\ s.root = p[q].root
    BY <2>1, <2>2 DEF ProcessShaped, ProcessFields
  <2>5. Doing(q, s)
    BY <1>1, <2>1, <2>4 DEF Doing, Turning
  <2> QED
    BY <1>1, <2>1, <2>3, <2>4, <2>5, Moves DEF Kept
<1> QED
  BY <1>2, <1>3 DEF Rejected

(* A process that stops leaves the history to whoever comes next.          *)
LEMMA Stops ==
  ASSUME IInv, NEW q \in Processes, Crash(q)
  PROVE  Kept
<1>1. p[q].token \in Nat /\ p[q].token <= lease.token /\ lease.token \in Nat
  BY DEF IInv, LeaseOK
<1>2. PICK s : s = Idle
  OBVIOUS
<1>3. ProcessShaped(s) /\ s.pc = "idle" /\ s.token = 0
  BY <1>2, EventIs
<1>4. p' = [p EXCEPT ![q] = s] /\ UNCHANGED <<log, lease>>
  BY <1>2 DEF Crash
<1>5. Doing(q, s)
  BY <1>3 DEF Doing, Turning
<1>6. s.token \in Nat /\ s.token <= lease.token
  BY <1>1, <1>3
<1> QED
  BY <1>3, <1>4, <1>5, <1>6, Moves DEF Kept

-----------------------------------------------------------------------------
(* The lease changes hands.                                                *)

LEMMA LeaseMoves ==
  ASSUME IInv, UNCHANGED log, lease' \in [holder : Processes \cup {None}, token : Nat, live : BOOLEAN],
         lease'.token >= lease.token, p' = [o \in Processes |-> p'[o]],
         \A o \in Processes : /\ ProcessShaped(p'[o])
                              /\ p'[o].token \in Nat /\ p'[o].token <= lease'.token
                              /\ Doing(o, p[o])'
  PROVE  Kept
<1>1. LeaseOK'
  BY DEF LeaseOK
<1>2. LogOK'
  <2>1. lease.token \in Nat /\ lease'.token \in Nat
    BY DEF IInv, LeaseOK
  <2>2. \A i \in DOMAIN log : log[i].by <= lease'.token
    BY <2>1 DEF IInv, LogOK
  <2> QED
    BY <2>2 DEF IInv, LogOK
<1>3. TurnsAreWhole'
  BY DEF IInv, TurnsAreWhole, StaleWritesNothing, TurnEndsOnce
<1>4. turnsBar' = turnsBar /\ coveredBar' = coveredBar
  BY DEF turnsBar, coveredBar
<1> QED
  BY <1>1, <1>2, <1>3, <1>4 DEF IInv, Kept

LEMMA Acquires ==
  ASSUME IInv, NEW q \in Processes, NEW work \in {"user", "manual"}, AcquireTurnLease(q, work)
  PROVE  Kept
<1>1. p = [o \in Processes |-> p[o]] /\ lease.token \in Nat
      /\ \A o \in Processes : /\ ProcessShaped(p[o]) /\ p[o].token \in Nat
                              /\ p[o].token <= lease.token /\ Doing(o, p[o])
  BY DEF IInv, LeaseOK
<1>2. PICK s : s = [Idle EXCEPT !.pc = work, !.token = lease.token + 1]
  OBVIOUS
<1>3. /\ lease' = [holder |-> q, token |-> lease.token + 1, live |-> TRUE] /\ UNCHANGED log
      /\ p' = [p EXCEPT ![q] = s] /\ (work = "manual" => log # <<>>)
  BY <1>2 DEF AcquireTurnLease
<1>4. ProcessShaped(s) /\ s.pc = work /\ s.token = lease.token + 1
  BY <1>2, EventIs DEF ProcessShaped, ProcessFields
<1>5. p' = [o \in Processes |-> p'[o]] /\ p'[q] = s
      /\ \A o \in Processes : o # q => p'[o] = p[o]
  BY <1>1, <1>3
<1>6. Doing(q, p[q])'
  BY <1>3, <1>4, <1>5 DEF Doing, Turning
<1>7. ASSUME NEW o \in Processes, o # q PROVE Doing(o, p[o])'
  <2>1. lease'.holder # o /\ p'[o] = p[o] /\ Doing(o, p[o])
    BY <1>1, <1>3, <1>5, <1>7
  <2> QED
    BY <1>3, <2>1 DEF Doing
<1>8. /\ lease' \in [holder : Processes \cup {None}, token : Nat, live : BOOLEAN]
      /\ lease'.token >= lease.token
  BY <1>1, <1>3
<1>9. \A o \in Processes : /\ ProcessShaped(p'[o])
                           /\ p'[o].token \in Nat /\ p'[o].token <= lease'.token
  BY <1>1, <1>3, <1>4, <1>5
<1> QED
  BY <1>3, <1>5, <1>6, <1>7, <1>8, <1>9, LeaseMoves

LEMMA Releases ==
  ASSUME IInv, NEW q \in Processes, ReleaseTurnLease(q)
  PROVE  Kept
<1>1. p = [o \in Processes |-> p[o]] /\ lease.token \in Nat
      /\ lease \in [holder : Processes \cup {None}, token : Nat, live : BOOLEAN]
      /\ \A o \in Processes : /\ ProcessShaped(p[o]) /\ p[o].token \in Nat
                              /\ p[o].token <= lease.token /\ Doing(o, p[o])
  BY DEF IInv, LeaseOK
<1>2. PICK s : s = Idle
  OBVIOUS
<1>3. ProcessShaped(s) /\ s.pc = "idle" /\ s.token = 0
  BY <1>2, EventIs
<1>4. p' = [p EXCEPT ![q] = s] /\ UNCHANGED log
      /\ (lease' = lease \/ lease' = [lease EXCEPT !.holder = None, !.live = FALSE])
  BY <1>2 DEF ReleaseTurnLease
<1>5. p' = [o \in Processes |-> p'[o]] /\ p'[q] = s
      /\ \A o \in Processes : o # q => p'[o] = p[o]
  BY <1>1, <1>4
<1>6. /\ lease' \in [holder : Processes \cup {None}, token : Nat, live : BOOLEAN]
      /\ lease'.token = lease.token /\ (lease' = lease \/ ~lease'.live)
  BY <1>1, <1>4
<1>7. Doing(q, p[q])'
  BY <1>3, <1>5 DEF Doing, Turning
<1>8. ASSUME NEW o \in Processes, o # q PROVE Doing(o, p[o])'
  <2>1. p'[o] = p[o] /\ Doing(o, p[o])
    BY <1>1, <1>5, <1>8
  <2> QED
    BY <1>4, <1>6, <2>1 DEF Doing, InTurn
<1>9. lease'.token >= lease.token
      /\ \A o \in Processes : /\ ProcessShaped(p'[o])
                              /\ p'[o].token \in Nat /\ p'[o].token <= lease'.token
  BY <1>1, <1>3, <1>5, <1>6
<1> QED
  BY <1>4, <1>5, <1>6, <1>7, <1>8, <1>9, LeaseMoves

LEMMA Expires ==
  ASSUME IInv, LeaseExpires
  PROVE  Kept
<1>1. p = [o \in Processes |-> p[o]] /\ lease.token \in Nat
      /\ lease \in [holder : Processes \cup {None}, token : Nat, live : BOOLEAN]
      /\ \A o \in Processes : /\ ProcessShaped(p[o]) /\ p[o].token \in Nat
                              /\ p[o].token <= lease.token /\ Doing(o, p[o])
  BY DEF IInv, LeaseOK
<1>2. lease' = [lease EXCEPT !.live = FALSE] /\ UNCHANGED <<log, p>>
  BY DEF LeaseExpires
<1>3. lease' \in [holder : Processes \cup {None}, token : Nat, live : BOOLEAN]
      /\ lease'.token = lease.token /\ ~lease'.live
  BY <1>1, <1>2
<1>4. \A o \in Processes : Doing(o, p[o])'
  BY <1>1, <1>2, <1>3 DEF Doing
<1>5. lease'.token >= lease.token
  BY <1>1, <1>3
<1> QED
  BY <1>1, <1>2, <1>3, <1>4, <1>5, LeaseMoves

-----------------------------------------------------------------------------
(* The theorems.                                                           *)

LEMMA Initially ==
  ASSUME Init
  PROVE  IInv /\ Turns!Init
<1>1. log = <<>> /\ Len(log) = 0 /\ DOMAIN log = {} /\ log \in Seq({})
  BY DEF Init
<1>2. Roots(log) = {}
  BY <1>1 DEF Roots, Of
<1>3. LogOK /\ TurnsAreWhole
  BY <1>1 DEF LogOK, TurnsAreWhole, StaleWritesNothing, TurnEndsOnce
<1>4. PICK s : s = Idle
  OBVIOUS
<1>5. ProcessShaped(s) /\ s.pc = "idle" /\ s.token = 0 /\ p = [q \in Processes |-> s]
  BY <1>4, EventIs DEF Init
<1>6. LeaseOK
  BY <1>5 DEF Init, LeaseOK
<1>7. \A q \in Processes : Doing(q, p[q])
  BY <1>5 DEF Doing, Turning
<1>8. turnsBar = <<>> /\ coveredBar = {}
  BY <1>1, <1>2 DEF turnsBar, coveredBar
<1> QED
  BY <1>3, <1>6, <1>7, <1>8 DEF IInv, Turns!Init

LEMMA EveryStep ==
  ASSUME IInv, [Next]_vars
  PROVE  Kept
<1>1. CASE UNCHANGED vars
  <2>1. IInv'
    BY <1>1 DEF vars, IInv, LeaseOK, LogOK, Doing, InTurn, Fenced, TurnsAreWhole,
                StaleWritesNothing, TurnEndsOnce
  <2>2. turnsBar' = turnsBar /\ coveredBar' = coveredBar
    BY <1>1 DEF vars, turnsBar, coveredBar
  <2> QED
    BY <2>1, <2>2 DEF Kept
<1>2. CASE LeaseExpires
  BY <1>2, Expires
<1>3. ASSUME NEW q \in Processes, NEW work \in {"user", "manual"}, AcquireTurnLease(q, work)
      PROVE  Kept
  BY <1>3, Acquires
<1>4. ASSUME NEW q \in Processes, ReleaseTurnLease(q) \/ Crash(q)
      PROVE  Kept
  BY <1>4, Releases, Stops
<1>5. ASSUME NEW q \in Processes, FailLocally(q)
      PROVE  Kept
  <2>1. Goto(q, "release") /\ UNCHANGED <<log, lease>>
    BY <1>5 DEF FailLocally
  <2> QED
    BY <2>1, Jumps
<1>6. ASSUME NEW q \in Processes, Interrupted(q)
      PROVE  Kept
  <2>1. Goto(q, "terminal") /\ UNCHANGED <<log, lease>> /\ p[q].pc \in Turning
    BY <1>6 DEF Interrupted, Turning
  <2>2. "terminal" \in Turning \ {"compactor"}
    BY DEF Turning
  <2> QED
    BY <2>1, <2>2, Jumps
<1>7. ASSUME NEW q \in Processes, AppendUser(q) \/ Compose(q) \/ Compact(q) \/ AppendSnapshot(q)
      PROVE  Kept
  BY <1>7, Users, Composes, Compacts, Snapshots
<1>8. ASSUME NEW q \in Processes, AppendAnswer(q) \/ Rejected(q) \/ AppendOutcome(q)
      PROVE  Kept
  BY <1>8, Answers, Rejections, Outcomes
<1>9. ASSUME NEW q \in Processes, AppendTerminal(q) \/ PlanManual(q) \/ AppendManual(q)
      PROVE  Kept
  BY <1>9, Terminals, Manuals, ManualAppends
<1> QED
  BY <1>1, <1>2, <1>3, <1>4, <1>5, <1>6, <1>7, <1>8, <1>9 DEF Next

(* The inductive invariant holds in every reachable state.                 *)
THEOREM Invariance == Spec => []IInv
<1>1. Init => IInv
  BY Initially
<1>2. IInv /\ [Next]_vars => IInv'
  BY EveryStep DEF Kept
<1> QED
  BY <1>1, <1>2, PTL DEF Spec

(* Each turn writes under the lease of its message, in the order of the    *)
(* leases, and nothing of it follows its answer or its terminal event:     *)
(* fenceTurnLeaseWrite turns away every write of a turn that lost its      *)
(* lease, whoever took over and however late the write comes.              *)
THEOREM TurnsStayWhole == Spec => []TurnsAreWhole
<1>1. IInv => TurnsAreWhole
  BY DEF IInv
<1> QED
  BY <1>1, Invariance, PTL

(* The conversation implements the abstract one: every event opens a turn, *)
(* ends the newest, extends the summary over closed turns, or changes      *)
(* nothing a reader of the conversation can tell.                          *)
THEOREM HistoryImplementsTurns == Spec => ImplementsSessionTurns
<1>1. Init => Turns!Init
  BY Initially
<1>2. IInv /\ [Next]_vars => [Turns!Next]_<<turnsBar, coveredBar>>
  BY EveryStep DEF Kept
<1> QED
  BY <1>1, <1>2, Invariance, PTL DEF Spec, ImplementsSessionTurns, Turns!Spec

-----------------------------------------------------------------------------
(* Least, greatest and neighbouring sequence numbers.                      *)

LEMMA BeforeMeans ==
  ASSUME NEW n \in Nat, NEW S, S \subseteq 1 .. n, NEW i \in Nat
  PROVE  \/ Before(S, i) = 0 /\ \A x \in S : ~(x < i)
         \/ /\ Before(S, i) \in S /\ Before(S, i) < i /\ Before(S, i) \in 1 .. n
            /\ \A x \in S : x < i => x <= Before(S, i)
<1> DEFINE B == {j \in S : j < i}
<1>1. B \subseteq 1 .. n
  OBVIOUS
<1>2. Before(S, i) = Greatest(B)
  BY DEF Before
<1>3. CASE B = {}
  BY <1>2, <1>3 DEF Greatest
<1>4. CASE B # {}
  <2>1. Greatest(B) \in B /\ \A x \in B : x <= Greatest(B)
    <3> HIDE DEF B
    <3> QED
      BY <1>1, <1>4, GreatestIn
  <2> QED
    BY <1>2, <2>1
<1> QED
  BY <1>3, <1>4

LEMMA MinMeans ==
  ASSUME NEW n \in Nat, NEW S, S \subseteq 1 .. n, S # {}
  PROVE  Min(S) \in S /\ Min(S) \in 1 .. n /\ \A x \in S : Min(S) <= x
<1>1. S \subseteq Nat
  OBVIOUS
<1>2. PICK m \in S : \A k \in S : m <= k
  BY <1>1, LeastNat
<1>3. \A y \in S : (\A x \in S : y <= x) => y = m
  BY <1>1, <1>2
<1>4. Min(S) = m
  BY <1>2, <1>3 DEF Min
<1> QED
  BY <1>2, <1>4

LEMMA LeastIs ==
  ASSUME NEW S, S \subseteq Nat, NEW m \in S, \A x \in S : m <= x
  PROVE  Min(S) = m
<1>1. \A y \in S : (\A x \in S : y <= x) => y = m
  OBVIOUS
<1> QED
  BY <1>1 DEF Min

LEMMA MaxMeans ==
  ASSUME NEW n \in Nat, NEW S, S \subseteq 1 .. n, S # {}
  PROVE  /\ Max(S) \in S /\ Max(S) \in 1 .. n /\ \A x \in S : x <= Max(S)
         /\ Greatest(S) = Max(S)
<1>1. Greatest(S) \in S /\ \A x \in S : x <= Greatest(S)
  BY GreatestIn
<1>2. Greatest(S) = Max(S)
  BY DEF Greatest
<1> QED
  BY <1>1, <1>2

LEMMA AfterMeans ==
  ASSUME NEW n \in Nat, NEW S, S \subseteq 1 .. n, NEW i \in Nat
  PROVE  \/ After(S, i) = 0 /\ \A x \in S : ~(x > i)
         \/ /\ After(S, i) \in S /\ After(S, i) > i /\ After(S, i) \in 1 .. n
            /\ \A x \in S : x > i => After(S, i) <= x
<1> DEFINE L == {j \in S : j > i}
<1>1. L \subseteq 1 .. n
  OBVIOUS
<1>2. After(S, i) = IF \E j \in S : j > i THEN Min(L) ELSE 0
  BY DEF After
<1>3. CASE ~\E j \in S : j > i
  BY <1>2, <1>3
<1>4. CASE \E j \in S : j > i
  <2>1. L # {}
    BY <1>4
  <2>2. Min(L) \in L /\ \A x \in L : Min(L) <= x
    <3> HIDE DEF L
    <3> QED
      BY <1>1, <2>1, MinMeans
  <2> QED
    BY <1>2, <1>4, <2>2
<1> QED
  BY <1>3, <1>4

LEMMA AfterIsThe ==
  ASSUME NEW n \in Nat, NEW S, S \subseteq 1 .. n, NEW i \in Nat, NEW m \in S, m > i,
         \A x \in S : x > i => m <= x
  PROVE  After(S, i) = m
<1>1. After(S, i) \in S /\ After(S, i) > i /\ After(S, i) <= m
  BY AfterMeans
<1>2. PICK k : k = After(S, i)
  OBVIOUS
<1>3. k \in S /\ k <= m /\ m <= k
  BY <1>1, <1>2
<1> QED
  BY <1>2, <1>3

-----------------------------------------------------------------------------
(* Histories, and what a reader finds in them.                             *)

IsHistory(h, n) ==
  /\ n \in Nat /\ DOMAIN h = 1 .. n /\ Len(h) = n
  /\ n # 0 => h[1].type = "user"
  /\ \A i \in 1 .. n :
       /\ h[i].type \in Types /\ h[i].calls \in Nat
       /\ {h[i].parent, h[i].last, h[i].retained, h[i].prior} \subseteq 0 .. i - 1

(* g is h and one event more.                                              *)
Extended(h, g, e, n) == IsHistory(h, n) /\ IsHistory(g, n + 1) /\ Grown(h, g, e, n)

(* Where a tool group may start, and where it is over.                     *)
Heads(h) == Of(h, {"user", "assistant"})

LEMMA HistoryIs ==
  ASSUME NEW h, NEW n, IsHistory(h, n)
  PROVE  /\ n \in Nat /\ DOMAIN h = 1 .. n /\ Len(h) = n
         /\ Heads(h) = {i \in 1 .. n : h[i].type \in {"user", "assistant"}}
         /\ Of(h, {"assistant"}) = {i \in 1 .. n : h[i].type = "assistant"}
         /\ Of(h, {"outcome"}) = {i \in 1 .. n : h[i].type = "outcome"}
         /\ Of(h, {"compacted"}) = {i \in 1 .. n : h[i].type = "compacted"}
         /\ Of(h, {"turn_compacted"}) = {i \in 1 .. n : h[i].type = "turn_compacted"}
         /\ Of(h, {"snapshot"}) = {i \in 1 .. n : h[i].type = "snapshot"}
         /\ Roots(h) = {i \in 1 .. n : h[i].type = "user"}
BY DEF IsHistory, Heads, Of, Roots

LEMMA ResultsMean ==
  ASSUME NEW h, NEW n, IsHistory(h, n), NEW a \in 1 .. n
  PROVE  /\ Results(h, a) \subseteq 1 .. n
         /\ \A i \in 1 .. n : i \in Results(h, a) <=>
              i > a /\ h[i].type = "outcome" /\ \A x \in Heads(h) : ~(a < x /\ x < i)
<1>1. /\ n \in Nat /\ DOMAIN h = 1 .. n /\ Len(h) = n
      /\ Heads(h) = {i \in 1 .. n : h[i].type \in {"user", "assistant"}}
  BY HistoryIs
<1>2. PICK next : next = After(Heads(h), a)
  OBVIOUS
<1>3. Heads(h) \subseteq 1 .. n /\ a \in Nat
  BY <1>1
<1>4. \/ next = 0 /\ \A x \in Heads(h) : ~(x > a)
      \/ /\ next \in Heads(h) /\ next > a /\ next \in 1 .. n
         /\ \A x \in Heads(h) : x > a => next <= x
  BY <1>1, <1>2, <1>3, AfterMeans
<1>5. Results(h, a) = {i \in a + 1 .. (IF next = 0 THEN n ELSE next - 1) : h[i].type = "outcome"}
  BY <1>1, <1>2 DEF Results, GroupEnd, Heads
<1>6. CASE next = 0
  <2>1. Results(h, a) = {i \in a + 1 .. n : h[i].type = "outcome"}
    BY <1>5, <1>6
  <2>2. \A x \in Heads(h) : ~(x > a)
    BY <1>1, <1>4, <1>6
  <2>3. \A x \in Heads(h) : x \in Nat
    BY <1>3
  <2> QED
    BY <1>1, <1>3, <2>1, <2>2, <2>3
<1>7. CASE next # 0
  <2>1. Results(h, a) = {i \in a + 1 .. next - 1 : h[i].type = "outcome"}
    BY <1>5, <1>7
  <2>2. next \in Heads(h) /\ next > a /\ next \in 1 .. n /\ \A x \in Heads(h) : x > a => next <= x
    BY <1>4, <1>7
  <2>3. h[next].type # "outcome"
    BY <1>1, <2>2
  <2>4. ASSUME NEW i \in 1 .. n
        PROVE  i \in Results(h, a) <=>
                 i > a /\ h[i].type = "outcome" /\ \A x \in Heads(h) : ~(a < x /\ x < i)
    <3>1. CASE i < next
      <4>1. \A x \in Heads(h) : ~(a < x /\ x < i)
        BY <1>3, <2>2, <3>1
      <4> QED
        BY <1>3, <2>1, <2>2, <3>1, <4>1
    <3>2. CASE i = next
      BY <2>1, <2>2, <2>3, <3>2
    <3>3. CASE i > next
      <4>1. ~(i \in Results(h, a))
        <5>1. next \in 1 .. n /\ ~(i <= next - 1)
          BY <1>1, <2>2, <3>3
        <5>2. i \notin a + 1 .. next - 1
          BY <5>1
        <5> QED
          BY <2>1, <5>2
      <4>2. ~ \A x \in Heads(h) : ~(a < x /\ x < i)
        BY <2>2, <3>3
      <4> QED
        BY <4>1, <4>2
    <3>4. i < next \/ i = next \/ i > next
      BY <2>2
    <3> QED
      BY <3>1, <3>2, <3>3, <3>4
  <2>5. Results(h, a) \subseteq 1 .. n
    BY <1>1, <1>3, <2>1, <2>2
  <2> QED
    BY <2>4, <2>5
<1> QED
  BY <1>6, <1>7

LEMMA GroupsMean ==
  ASSUME NEW h, NEW n, IsHistory(h, n), NEW r \in 1 .. n
  PROVE  /\ Groups(h, r) \subseteq 1 .. n
         /\ \A a \in 1 .. n : a \in Groups(h, r) <=>
              /\ a > r /\ h[a].type = "assistant" /\ h[a].calls > 0
              /\ \A x \in Roots(h) : ~(r < x /\ x < a)
<1>1. /\ n \in Nat /\ DOMAIN h = 1 .. n
      /\ Roots(h) = {i \in 1 .. n : h[i].type = "user"}
      /\ Of(h, {"assistant"}) = {i \in 1 .. n : h[i].type = "assistant"}
  BY HistoryIs
<1>2. PICK next : next = After(Roots(h), r)
  OBVIOUS
<1>3. Roots(h) \subseteq 1 .. n /\ r \in Nat
  BY <1>1
<1>4. \/ next = 0 /\ \A x \in Roots(h) : ~(x > r)
      \/ /\ next \in Roots(h) /\ next > r /\ next \in 1 .. n
         /\ \A x \in Roots(h) : x > r => next <= x
  BY <1>1, <1>2, <1>3, AfterMeans
<1>5. Groups(h, r) = {a \in 1 .. n : h[a].type = "assistant" /\ a > r /\ h[a].calls > 0
                                       /\ (next # 0 => a < next)}
  BY <1>1, <1>2 DEF Groups
<1>6. ASSUME NEW a \in 1 .. n, a > r, h[a].type = "assistant"
      PROVE  (next # 0 => a < next) <=> \A x \in Roots(h) : ~(r < x /\ x < a)
  <2>1. a \notin Roots(h)
    BY <1>1, <1>6
  <2>2. CASE next = 0
    BY <1>1, <1>3, <1>4, <2>2
  <2>3. CASE next # 0
    <3>1. next \in Roots(h) /\ next > r /\ next \in 1 .. n /\ \A x \in Roots(h) : x > r => next <= x
      BY <1>4, <2>3
    <3>2. a # next
      BY <2>1, <3>1
    <3>3. CASE a < next
      BY <1>3, <3>1, <3>3
    <3>4. CASE a > next
      BY <3>1, <3>4
    <3> QED
      BY <3>1, <3>2, <3>3, <3>4
  <2> QED
    BY <2>2, <2>3
<1> QED
  BY <1>5, <1>6

LEMMA SameBefore ==
  ASSUME NEW n \in Nat, NEW S, NEW T, S \subseteq 1 .. n + 1, T \subseteq 1 .. n + 1,
         \A x \in 1 .. n : x \in S <=> x \in T, NEW i \in 0 .. n + 1
  PROVE  Before(S, i) = Before(T, i)
<1>1. \A x \in 1 .. n + 1 : x < i => x \in 1 .. n
  OBVIOUS
<1>2. {x \in S : x < i} = {x \in T : x < i}
  BY <1>1
<1> QED
  BY <1>2 DEF Before


-----------------------------------------------------------------------------
(* What a history that grew keeps.                                         *)

LEMMA ExtendedIs ==
  ASSUME NEW h, NEW g, NEW e, NEW n, Extended(h, g, e, n)
  PROVE  /\ n \in Nat /\ n + 1 \in Nat /\ g[n + 1] = e /\ \A i \in 1 .. n : g[i] = h[i]
         /\ IsHistory(h, n) /\ IsHistory(g, n + 1) /\ Grown(h, g, e, n)
         /\ n + 1 \in 1 .. n + 1 /\ \A i \in 1 .. n + 1 : i \in 1 .. n \/ i = n + 1
         /\ \A i \in 1 .. n : i \in 1 .. n + 1 /\ i # n + 1 /\ i < n + 1 /\ i \in Nat
BY DEF Extended, Grown, IsHistory

LEMMA GrownHeads ==
  ASSUME NEW h, NEW g, NEW e, NEW n, Extended(h, g, e, n)
  PROVE  /\ Heads(h) \subseteq 1 .. n /\ Heads(g) \subseteq 1 .. n + 1
         /\ \A i \in 1 .. n : i \in Heads(g) <=> i \in Heads(h)
         /\ n + 1 \in Heads(g) <=> e.type \in {"user", "assistant"}
<1>1. /\ Of(h, {"user", "assistant"}) \subseteq 1 .. n
      /\ Of(g, {"user", "assistant"}) \subseteq 1 .. n + 1
      /\ Of(g, {"user", "assistant"}) =
           Of(h, {"user", "assistant"}) \cup (IF e.type \in {"user", "assistant"} THEN {n + 1} ELSE {})
      /\ \A i \in 1 .. n : i \in Of(g, {"user", "assistant"}) <=> i \in Of(h, {"user", "assistant"})
  BY ExtendedIs, GrownOf
<1>2. n + 1 \notin 1 .. n
  BY ExtendedIs
<1> QED
  BY <1>1, <1>2 DEF Heads

LEMMA GrownResults ==
  ASSUME NEW h, NEW g, NEW e, NEW n, Extended(h, g, e, n), NEW a \in 1 .. n
  PROVE  /\ \A i \in 1 .. n : i \in Results(g, a) <=> i \in Results(h, a)
         /\ n + 1 \in Results(g, a) <=> e.type = "outcome" /\ \A x \in Heads(h) : x <= a
         /\ Results(g, a) \subseteq 1 .. n + 1 /\ Results(h, a) \subseteq 1 .. n
<1>1. /\ n \in Nat /\ n + 1 \in Nat /\ g[n + 1] = e /\ \A i \in 1 .. n : g[i] = h[i]
      /\ IsHistory(h, n) /\ IsHistory(g, n + 1)
      /\ n + 1 \in 1 .. n + 1 /\ \A i \in 1 .. n + 1 : i \in 1 .. n \/ i = n + 1
      /\ \A i \in 1 .. n : i \in 1 .. n + 1 /\ i # n + 1 /\ i < n + 1 /\ i \in Nat
  BY ExtendedIs
<1>2. /\ Heads(h) \subseteq 1 .. n /\ Heads(g) \subseteq 1 .. n + 1
      /\ \A i \in 1 .. n : i \in Heads(g) <=> i \in Heads(h)
  BY GrownHeads
<1>3. /\ Results(h, a) \subseteq 1 .. n
      /\ \A i \in 1 .. n : i \in Results(h, a) <=>
           i > a /\ h[i].type = "outcome" /\ \A x \in Heads(h) : ~(a < x /\ x < i)
  BY <1>1, ResultsMean
<1>4. /\ Results(g, a) \subseteq 1 .. n + 1
      /\ \A i \in 1 .. n + 1 : i \in Results(g, a) <=>
           i > a /\ g[i].type = "outcome" /\ \A x \in Heads(g) : ~(a < x /\ x < i)
  BY <1>1, ResultsMean
<1>5. ASSUME NEW i \in 1 .. n
      PROVE  i \in Results(g, a) <=> i \in Results(h, a)
  <2>1. (\A x \in Heads(g) : ~(a < x /\ x < i)) <=> \A x \in Heads(h) : ~(a < x /\ x < i)
    <3>1. \A x \in Heads(g) : x < i => x \in 1 .. n
      BY <1>1, <1>2
    <3>2. \A x \in Heads(h) : x \in 1 .. n
      BY <1>2
    <3> QED
      BY <1>2, <3>1, <3>2
  <2>2. i \in 1 .. n + 1 /\ g[i] = h[i]
    BY <1>1
  <2> QED
    BY <1>3, <1>4, <2>1, <2>2
<1>6. n + 1 \in Results(g, a) <=> e.type = "outcome" /\ \A x \in Heads(h) : x <= a
  <2>1. n + 1 \in Results(g, a) <=>
           n + 1 > a /\ g[n + 1].type = "outcome" /\ \A x \in Heads(g) : ~(a < x /\ x < n + 1)
    BY <1>1, <1>4
  <2>2. n + 1 > a /\ g[n + 1].type = e.type
    BY <1>1
  <2>3. (\A x \in Heads(g) : ~(a < x /\ x < n + 1)) <=> \A x \in Heads(h) : x <= a
    <3>1. \A x \in Heads(h) : x \in Heads(g) /\ x \in Nat /\ x < n + 1
      BY <1>1, <1>2
    <3>2. \A x \in Heads(g) : x < n + 1 => x \in Heads(h)
      BY <1>1, <1>2
    <3>3. a \in Nat
      BY <1>1
    <3> QED
      BY <1>2, <3>1, <3>2, <3>3
  <2> QED
    BY <2>1, <2>2, <2>3
<1> QED
  BY <1>3, <1>4, <1>5, <1>6

(* A group's results are as they were, and so is what they say of it.      *)
SameGroup(h, g, a) == Results(g, a) = Results(h, a) /\ (GroupComplete(h, a) <=> GroupComplete(g, a))

LEMMA SameResults ==
  ASSUME NEW h, NEW g, NEW e, NEW n, Extended(h, g, e, n), NEW a \in 1 .. n,
         ~(e.type = "outcome" /\ \A x \in Heads(h) : x <= a)
  PROVE  SameGroup(h, g, a)
<1>1. /\ \A i \in 1 .. n + 1 : i \in 1 .. n \/ i = n + 1
      /\ \A i \in 1 .. n : g[i] = h[i] /\ i \in 1 .. n + 1
  BY ExtendedIs
<1>2. /\ \A i \in 1 .. n : i \in Results(g, a) <=> i \in Results(h, a)
      /\ n + 1 \notin Results(g, a)
      /\ Results(g, a) \subseteq 1 .. n + 1 /\ Results(h, a) \subseteq 1 .. n
  BY GrownResults
<1>3. Results(g, a) = Results(h, a)
  BY <1>1, <1>2
<1>4. {g[i].call : i \in Results(g, a)} = {h[i].call : i \in Results(h, a)}
  BY <1>1, <1>2, <1>3
<1>5. g[a] = h[a]
  BY <1>1
<1> QED
  BY <1>3, <1>4, <1>5 DEF GroupComplete, SameGroup

(* A result answers a call of the newest group that had no answer.         *)
NewResult(h, e) ==
  e.type = "outcome" =>
    \E a \in Of(h, {"assistant"}) :
      /\ \A x \in Heads(h) : x <= a
      /\ e.call \in 1 .. h[a].calls /\ \A i \in Results(h, a) : h[i].call # e.call

LEMMA CompleteStays ==
  ASSUME NEW h, NEW g, NEW e, NEW n, Extended(h, g, e, n), NewResult(h, e), NEW a \in 1 .. n,
         h[a].type = "assistant", GroupComplete(h, a)
  PROVE  SameGroup(h, g, a)
<1>1. IsHistory(h, n) /\ n \in Nat
  BY ExtendedIs
<1>2. /\ Of(h, {"assistant"}) = {i \in 1 .. n : h[i].type = "assistant"}
      /\ Heads(h) = {i \in 1 .. n : h[i].type \in {"user", "assistant"}}
  BY <1>1, HistoryIs
<1>3. ASSUME e.type = "outcome", \A x \in Heads(h) : x <= a
      PROVE  FALSE
  <2>1. PICK b \in Of(h, {"assistant"}) :
          /\ \A x \in Heads(h) : x <= b
          /\ e.call \in 1 .. h[b].calls /\ \A i \in Results(h, b) : h[i].call # e.call
    BY <1>3 DEF NewResult
  <2>2. a \in Heads(h) /\ b \in Heads(h) /\ b \in Nat /\ a \in Nat
    BY <1>2, <2>1
  <2>3. a = b
    BY <1>3, <2>1, <2>2
  <2>4. e.call \in {h[i].call : i \in Results(h, a)}
    BY <2>1, <2>3 DEF GroupComplete
  <2> QED
    BY <2>1, <2>3, <2>4
<1> QED
  BY <1>3, SameResults

LEMMA OverStays ==
  ASSUME NEW h, NEW g, NEW e, NEW n, Extended(h, g, e, n), NEW a \in 1 .. n,
         NEW b \in Heads(h), a < b
  PROVE  SameGroup(h, g, a)
<1>1. b \in Nat /\ a \in Nat
  BY ExtendedIs, GrownHeads
<1>2. ~(b <= a)
  BY <1>1
<1> QED
  BY <1>2, SameResults

LEMMA GrownGroups ==
  ASSUME NEW h, NEW g, NEW e, NEW n, Extended(h, g, e, n), NEW r \in 1 .. n
  PROVE  /\ Groups(h, r) \subseteq 1 .. n /\ Groups(g, r) \subseteq 1 .. n + 1
         /\ \A a \in 1 .. n : a \in Groups(g, r) <=> a \in Groups(h, r)
         /\ e.type # "assistant" => Groups(g, r) = Groups(h, r)
<1>1. /\ n \in Nat /\ n + 1 \in Nat /\ g[n + 1] = e /\ \A i \in 1 .. n : g[i] = h[i]
      /\ IsHistory(h, n) /\ IsHistory(g, n + 1) /\ Grown(h, g, e, n)
      /\ n + 1 \in 1 .. n + 1 /\ \A i \in 1 .. n + 1 : i \in 1 .. n \/ i = n + 1
      /\ \A i \in 1 .. n : i \in 1 .. n + 1 /\ i # n + 1 /\ i < n + 1 /\ i \in Nat
  BY ExtendedIs
<1>2. /\ Groups(h, r) \subseteq 1 .. n
      /\ \A a \in 1 .. n : a \in Groups(h, r) <=>
           /\ a > r /\ h[a].type = "assistant" /\ h[a].calls > 0
           /\ \A x \in Roots(h) : ~(r < x /\ x < a)
  BY <1>1, GroupsMean
<1>3. /\ Groups(g, r) \subseteq 1 .. n + 1
      /\ \A a \in 1 .. n + 1 : a \in Groups(g, r) <=>
           /\ a > r /\ g[a].type = "assistant" /\ g[a].calls > 0
           /\ \A x \in Roots(g) : ~(r < x /\ x < a)
  BY <1>1, GroupsMean
<1>4. /\ Roots(h) \subseteq 1 .. n /\ Roots(g) \subseteq 1 .. n + 1
      /\ \A i \in 1 .. n : i \in Roots(g) <=> i \in Roots(h)
  BY <1>1, GrownRoots
<1>5. ASSUME NEW a \in 1 .. n
      PROVE  a \in Groups(g, r) <=> a \in Groups(h, r)
  <2>1. (\A x \in Roots(g) : ~(r < x /\ x < a)) <=> \A x \in Roots(h) : ~(r < x /\ x < a)
    <3>1. \A x \in Roots(g) : x < a => x \in 1 .. n
      BY <1>1, <1>4
    <3>2. \A x \in Roots(h) : x \in 1 .. n
      BY <1>4
    <3> QED
      BY <1>4, <3>1, <3>2
  <2>2. a \in 1 .. n + 1 /\ g[a] = h[a]
    BY <1>1
  <2> QED
    BY <1>2, <1>3, <2>1, <2>2
<1>6. ASSUME e.type # "assistant" PROVE Groups(g, r) = Groups(h, r)
  <2>1. n + 1 \notin Groups(g, r)
    BY <1>1, <1>3, <1>6
  <2>2. \A a \in Groups(g, r) : a \in 1 .. n
    BY <1>1, <1>3, <2>1
  <2>3. \A a \in Groups(h, r) : a \in 1 .. n
    BY <1>2
  <2> QED
    BY <1>5, <2>2, <2>3
<1> QED
  BY <1>2, <1>3, <1>5, <1>6

LEMMA GrownLatest ==
  ASSUME NEW h, NEW g, NEW e, NEW n, Extended(h, g, e, n), NEW r, NEW c \in 0 .. n + 1
  PROVE  LatestTurnCompaction(g, r, c) = LatestTurnCompaction(h, r, c)
<1>1. /\ n \in Nat /\ Grown(h, g, e, n)
      /\ \A i \in 1 .. n + 1 : i \in 1 .. n \/ i = n + 1
  BY ExtendedIs
<1>2. /\ Of(h, {"turn_compacted"}) \subseteq 1 .. n
      /\ Of(g, {"turn_compacted"}) \subseteq 1 .. n + 1
      /\ \A i \in 1 .. n : i \in Of(g, {"turn_compacted"}) <=> i \in Of(h, {"turn_compacted"})
  BY <1>1, GrownOf
<1>3. \A x \in Of(g, {"turn_compacted"}) : x < c => x \in 1 .. n
  BY <1>1, <1>2
<1>4. {x \in Of(g, {"turn_compacted"}) : x > r /\ x < c}
        = {x \in Of(h, {"turn_compacted"}) : x > r /\ x < c}
  BY <1>2, <1>3
<1> QED
  BY <1>4 DEF LatestTurnCompaction

LEMMA LatestMeans ==
  ASSUME NEW h, NEW n, IsHistory(h, n), NEW r \in Nat, NEW c \in Nat
  PROVE  LET prior == LatestTurnCompaction(h, r, c)
         IN prior # 0 => /\ prior \in 1 .. n /\ h[prior].type = "turn_compacted"
                         /\ prior > r /\ prior < c
                         /\ \A x \in 1 .. n : h[x].type = "turn_compacted" /\ x > r /\ x < c
                                                => x <= prior
<1>1. Of(h, {"turn_compacted"}) = {i \in 1 .. n : h[i].type = "turn_compacted"} /\ n \in Nat
  BY HistoryIs
<1> DEFINE S == {x \in Of(h, {"turn_compacted"}) : x > r /\ x < c}
<1>2. LatestTurnCompaction(h, r, c) = Greatest(S)
  BY DEF LatestTurnCompaction
<1>3. S \subseteq 1 .. n
  BY <1>1
<1>4. CASE S = {}
  <2>1. Greatest(S) = 0
    BY <1>4 DEF Greatest
  <2> QED
    BY <1>2, <2>1
<1>5. CASE S # {}
  <2>1. Greatest(S) \in S /\ \A x \in S : x <= Greatest(S)
    <3> HIDE DEF S
    <3> QED
      BY <1>1, <1>3, <1>5, GreatestIn
  <2> QED
    BY <1>1, <1>2, <2>1
<1> QED
  BY <1>4, <1>5

-----------------------------------------------------------------------------
(* What a reader checks, event by event.                                   *)

ResultAt(h, i) ==
  LET a == Before(Of(h, {"assistant", "user"}), i)
  IN /\ a # 0 /\ h[a].type = "assistant" /\ h[i].call \in 1 .. h[a].calls
     /\ \A j \in Results(h, a) : h[j].call = h[i].call => j = i

TurnCompactionAt(h, c) ==
  LET r == Before(Roots(h), c)
      e == h[c]
      groups == Groups(h, r)
      trigger == Before(groups, e.parent)
      prior == LatestTurnCompaction(h, r, c)
  IN /\ r # 0 /\ e.turn = r
     /\ \/ e.parent = c - 1
        \/ e.parent = c - 2 /\ h[c - 1].type = "snapshot" /\ h[c - 1].parent = e.parent
     /\ h[e.parent].type = "outcome"
     /\ {e.first, e.retained} \subseteq groups /\ e.first < e.retained
     /\ e.last = Greatest(Results(h, Before(groups, e.retained)))
     /\ IF prior = 0 THEN e.gen = 1 /\ e.first = Min(groups)
        ELSE e.gen = h[prior].gen + 1 /\ e.prior = prior /\ e.first = h[prior].retained
     /\ e.parent = Greatest(Results(h, trigger)) /\ trigger >= e.retained
     /\ \A a \in groups : a >= e.first /\ a <= trigger => GroupComplete(h, a)

SnapshotAt(h, s) ==
  LET e == h[s]
      r == Before(Roots(h), s)
  IN /\ \/ e.parent = s - 1
        \/ /\ \/ e.parent = s - 2
              \/ e.parent = s - 3 /\ h[s - 2].type = "snapshot" /\ h[s - 2].parent = e.parent
           /\ \/ /\ h[s - 1].type = "compacted" /\ h[s - 1].auto
                 /\ e.active = s - 1 /\ e.retained = h[s - 1].retained
              \/ h[s - 1].type = "turn_compacted" /\ h[s - 1].parent = e.parent
     /\ e.activeTurn = LatestTurnCompaction(h, r, s)
     /\ h[e.parent].type \in {"user", "outcome"}
     /\ e.retained \in Roots(h) /\ e.retained <= e.parent

ChainAt(h, c) ==
  LET e == h[c]
      prior == Before(Of(h, {"compacted"}), c)
  IN /\ {e.first, e.retained} \subseteq Roots(h) /\ e.first < e.retained /\ e.retained < c
     /\ e.last = TurnEnd(h, Before(Roots(h), e.retained))
     /\ \A r \in Roots(h) : r >= e.first /\ r < e.retained => TurnComplete(h, r)
     /\ IF prior = 0 THEN e.gen = 1 /\ e.first = Min(Roots(h))
        ELSE e.gen = h[prior].gen + 1 /\ e.prior = prior /\ e.first = h[prior].retained

LEMMA ReadableIs ==
  ASSUME NEW h
  PROVE  Readable(h) <=> /\ \A i \in Of(h, {"outcome"}) : ResultAt(h, i)
                         /\ \A c \in Of(h, {"turn_compacted"}) : TurnCompactionAt(h, c)
                         /\ \A s \in Of(h, {"snapshot"}) : SnapshotAt(h, s)
                         /\ \A c \in Of(h, {"compacted"}) : ChainAt(h, c)
<1>1. ResultsMatch(h) <=> \A i \in Of(h, {"outcome"}) : ResultAt(h, i)
  BY Zenon DEF ResultsMatch, ResultAt
<1>2. TurnCompactionsMatch(h) <=> \A c \in Of(h, {"turn_compacted"}) : TurnCompactionAt(h, c)
  BY Zenon DEF TurnCompactionsMatch, TurnCompactionAt
<1>3. SnapshotsMatch(h) <=> \A s \in Of(h, {"snapshot"}) : SnapshotAt(h, s)
  BY Zenon DEF SnapshotsMatch, SnapshotAt
<1>4. ChainMatches(h) <=> \A c \in Of(h, {"compacted"}) : ChainAt(h, c)
  BY Zenon DEF ChainMatches, ChainAt
<1> QED
  BY <1>1, <1>2, <1>3, <1>4, Zenon DEF Readable

(* The head of an event's group, and what the event adds to the group.     *)
LEMMA HeadOf ==
  ASSUME NEW h, NEW n, IsHistory(h, n), NEW i \in 1 .. n + 1
  PROVE  LET a == Before(Heads(h), i)
         IN /\ a # 0 => a \in Heads(h) /\ a \in 1 .. n /\ a < i
            /\ \A x \in Heads(h) : x < i => a # 0 /\ x <= a
            /\ i \in 1 .. n /\ h[i].type = "outcome" /\ a # 0 => i \in Results(h, a)
<1>1. n \in Nat /\ Heads(h) \subseteq 1 .. n
  BY HistoryIs
<1>2. PICK a : a = Before(Heads(h), i)
  OBVIOUS
<1>3. \/ a = 0 /\ \A x \in Heads(h) : ~(x < i)
      \/ /\ a \in Heads(h) /\ a < i /\ a \in 1 .. n
         /\ \A x \in Heads(h) : x < i => x <= a
  <2>1. i \in Nat
    BY <1>1
  <2> QED
    BY <1>1, <1>2, <2>1, BeforeMeans
<1>4. i \in 1 .. n /\ h[i].type = "outcome" /\ a # 0 => i \in Results(h, a)
  <2>1. SUFFICES ASSUME i \in 1 .. n, h[i].type = "outcome", a # 0
                 PROVE  i \in Results(h, a)
    OBVIOUS
  <2>2. a \in 1 .. n /\ a < i /\ \A x \in Heads(h) : x < i => x <= a
    BY <1>3, <2>1
  <2>3. \A x \in Heads(h) : ~(a < x /\ x < i)
    BY <1>1, <2>2
  <2>4. i > a
    BY <2>2
  <2> QED
    BY <2>1, <2>2, <2>3, <2>4, ResultsMean
<1>5. 0 \notin 1 .. n
  OBVIOUS
<1>6. a # 0 => a \in Heads(h) /\ a \in 1 .. n /\ a < i
  BY <1>3
<1>7. \A x \in Heads(h) : x < i => a # 0 /\ x <= a
  BY <1>3, <1>5
<1> QED
  BY <1>2, <1>4, <1>6, <1>7

LEMMA SameHead ==
  ASSUME NEW h, NEW g, NEW e, NEW n, Extended(h, g, e, n), NEW i \in 1 .. n + 1
  PROVE  Before(Heads(g), i) = Before(Heads(h), i)
<1>1. n \in Nat /\ Heads(h) \subseteq 1 .. n + 1 /\ Heads(g) \subseteq 1 .. n + 1
      /\ \A x \in 1 .. n : x \in Heads(g) <=> x \in Heads(h)
  BY ExtendedIs, GrownHeads
<1>2. i \in 0 .. n + 1
  BY <1>1
<1> QED
  BY <1>1, <1>2, SameBefore

LEMMA HeadsAre ==
  ASSUME NEW h
  PROVE  Of(h, {"assistant", "user"}) = Heads(h)
<1>1. {"assistant", "user"} = {"user", "assistant"}
  OBVIOUS
<1> QED
  BY <1>1 DEF Heads

LEMMA ResultStays ==
  ASSUME NEW h, NEW g, NEW e, NEW n, Extended(h, g, e, n), NewResult(h, e), NEW i \in 1 .. n,
         h[i].type = "outcome", ResultAt(h, i)
  PROVE  ResultAt(g, i)
<1>1. /\ n \in Nat /\ n + 1 \in Nat /\ g[n + 1] = e /\ \A x \in 1 .. n : g[x] = h[x]
      /\ IsHistory(h, n) /\ IsHistory(g, n + 1)
      /\ n + 1 \in 1 .. n + 1 /\ \A x \in 1 .. n + 1 : x \in 1 .. n \/ x = n + 1
      /\ \A x \in 1 .. n : x \in 1 .. n + 1 /\ x # n + 1 /\ x < n + 1 /\ x \in Nat
  BY ExtendedIs
<1>2. PICK a : a = Before(Heads(h), i)
  OBVIOUS
<1>3. a = Before(Heads(g), i)
  BY <1>1, <1>2, SameHead
<1>4. /\ a # 0 /\ h[a].type = "assistant" /\ h[i].call \in 1 .. h[a].calls
      /\ \A j \in Results(h, a) : h[j].call = h[i].call => j = i
  BY <1>2, HeadsAre DEF ResultAt
<1>5. a \in 1 .. n /\ a \in Heads(h) /\ i \in Results(h, a)
  BY <1>1, <1>2, <1>4, HeadOf
<1>6. /\ \A j \in 1 .. n : j \in Results(g, a) <=> j \in Results(h, a)
      /\ n + 1 \in Results(g, a) <=> e.type = "outcome" /\ \A x \in Heads(h) : x <= a
      /\ Results(g, a) \subseteq 1 .. n + 1
  BY <1>5, GrownResults
<1>7. ASSUME n + 1 \in Results(g, a) PROVE e.call # h[i].call
  <2>1. PICK b \in Of(h, {"assistant"}) :
          /\ \A x \in Heads(h) : x <= b
          /\ \A j \in Results(h, b) : h[j].call # e.call
    BY <1>6, <1>7 DEF NewResult
  <2>2. b \in Heads(h) /\ b \in Nat /\ a \in Nat
    BY <1>1, <1>5, HistoryIs
  <2>3. a = b
    BY <1>5, <1>6, <1>7, <2>1, <2>2
  <2> QED
    BY <1>5, <2>1, <2>3
<1>8. ASSUME NEW j \in Results(g, a), g[j].call = g[i].call PROVE j = i
  <2>1. g[i] = h[i]
    BY <1>1
  <2>2. CASE j \in 1 .. n
    BY <1>1, <1>4, <1>6, <1>8, <2>1, <2>2
  <2>3. CASE j = n + 1
    BY <1>1, <1>7, <1>8, <2>1, <2>3
  <2> QED
    BY <1>1, <1>6, <2>2, <2>3
<1>9. g[a] = h[a] /\ g[i] = h[i]
  BY <1>1, <1>5
<1> QED
  BY <1>3, <1>4, <1>8, <1>9, HeadsAre DEF ResultAt

LEMMA ResultArrives ==
  ASSUME NEW h, NEW g, NEW e, NEW n, Extended(h, g, e, n), NewResult(h, e), e.type = "outcome"
  PROVE  ResultAt(g, n + 1)
<1>1. /\ n \in Nat /\ n + 1 \in Nat /\ g[n + 1] = e /\ \A x \in 1 .. n : g[x] = h[x]
      /\ IsHistory(h, n) /\ IsHistory(g, n + 1)
      /\ n + 1 \in 1 .. n + 1 /\ \A x \in 1 .. n + 1 : x \in 1 .. n \/ x = n + 1
      /\ \A x \in 1 .. n : x \in 1 .. n + 1 /\ x # n + 1 /\ x < n + 1 /\ x \in Nat
  BY ExtendedIs
<1>2. PICK a \in Of(h, {"assistant"}) :
        /\ \A x \in Heads(h) : x <= a
        /\ e.call \in 1 .. h[a].calls /\ \A i \in Results(h, a) : h[i].call # e.call
  BY DEF NewResult
<1>3. a \in Heads(h) /\ a \in 1 .. n /\ h[a].type = "assistant" /\ Heads(h) \subseteq 1 .. n
  BY <1>1, HistoryIs
<1>4. Before(Heads(h), n + 1) = a
  <2>1. a < n + 1 /\ n + 1 \in Nat
    BY <1>1, <1>3
  <2> QED
    BY <1>1, <1>2, <1>3, <2>1, BeforeIs
<1>5. Before(Heads(g), n + 1) = a
  BY <1>1, <1>4, SameHead
<1>6. /\ \A j \in 1 .. n : j \in Results(g, a) <=> j \in Results(h, a)
      /\ Results(g, a) \subseteq 1 .. n + 1
  BY <1>3, GrownResults
<1>7. ASSUME NEW j \in Results(g, a), g[j].call = g[n + 1].call PROVE j = n + 1
  BY <1>1, <1>2, <1>6, <1>7
<1>8. a # 0 /\ g[a] = h[a]
  BY <1>1, <1>3
<1> QED
  BY <1>1, <1>2, <1>3, <1>5, <1>7, <1>8, HeadsAre DEF ResultAt

LEMMA TurnCompactionStays ==
  ASSUME NEW h, NEW g, NEW e, NEW n, Extended(h, g, e, n), NewResult(h, e), NEW c \in 1 .. n,
         h[c].type = "turn_compacted", TurnCompactionAt(h, c)
  PROVE  TurnCompactionAt(g, c)
<1>1. /\ n \in Nat /\ n + 1 \in Nat /\ g[n + 1] = e /\ \A x \in 1 .. n : g[x] = h[x]
      /\ IsHistory(h, n) /\ IsHistory(g, n + 1) /\ Grown(h, g, e, n)
      /\ n + 1 \in 1 .. n + 1 /\ \A x \in 1 .. n + 1 : x \in 1 .. n \/ x = n + 1
      /\ \A x \in 1 .. n : x \in 1 .. n + 1 /\ x # n + 1 /\ x < n + 1 /\ x \in Nat
  BY ExtendedIs
<1>2. PICK r : r = Before(Roots(h), c)
  OBVIOUS
<1>3. PICK f : f = h[c]
  OBVIOUS
<1>4. PICK G : G = Groups(h, r)
  OBVIOUS
<1>5. PICK H : H = Groups(g, r)
  OBVIOUS
<1>6. PICK t : t = Before(G, f.parent)
  OBVIOUS
<1>7. PICK prior : prior = LatestTurnCompaction(h, r, c)
  OBVIOUS
<1>8. PICK b : b = Before(G, f.retained)
  OBVIOUS
<1>9. /\ r # 0 /\ f.turn = r
      /\ \/ f.parent = c - 1
         \/ f.parent = c - 2 /\ h[c - 1].type = "snapshot" /\ h[c - 1].parent = f.parent
      /\ h[f.parent].type = "outcome"
      /\ {f.first, f.retained} \subseteq G /\ f.first < f.retained
      /\ f.last = Greatest(Results(h, b))
      /\ IF prior = 0 THEN f.gen = 1 /\ f.first = Min(G)
         ELSE f.gen = h[prior].gen + 1 /\ f.prior = prior /\ f.first = h[prior].retained
      /\ f.parent = Greatest(Results(h, t)) /\ t >= f.retained
      /\ \A a \in G : a >= f.first /\ a <= t => GroupComplete(h, a)
  BY <1>2, <1>3, <1>4, <1>6, <1>7, <1>8, Zenon DEF TurnCompactionAt
<1>10. Roots(h) \subseteq 1 .. n /\ c \in Nat /\ n \in Nat /\ c <= n
  BY <1>1, HistoryIs
<1>11. r \in 1 .. n /\ r \in Nat
  BY <1>1, <1>2, <1>9, <1>10, BeforeMeans
<1>12. Before(Roots(g), c) = r
  BY <1>1, <1>2, GrownBefore
<1>13. G \subseteq 1 .. n /\ H \subseteq 1 .. n + 1 /\ \A a \in 1 .. n : a \in H <=> a \in G
  BY <1>4, <1>5, <1>11, GrownGroups
<1>14. f.parent \in Nat /\ f.retained \in 1 .. n /\ f.retained \in G /\ f.first \in 1 .. n
       /\ f.first \in G /\ f.parent < c
  <2>1. f.retained \in G /\ f.first \in G
    BY <1>9
  <2>2. {f.parent, f.last, f.retained, f.prior} \subseteq 0 .. c - 1
    BY <1>1, <1>3 DEF IsHistory
  <2>3. f.parent \in 0 .. c - 1
    BY <2>2
  <2>4. f.parent \in Nat /\ f.parent < c
    BY <1>10, <2>3
  <2>5. f.retained \in 1 .. n /\ f.first \in 1 .. n
    BY <1>13, <2>1
  <2> QED
    BY <2>1, <2>4, <2>5
<1>15. f.parent \in 1 .. n
  <2>1. f.parent # 0
    <3>1. h[1].type = "user"
      BY <1>1 DEF IsHistory
    <3>2. c # 1
      BY <1>3, <3>1
    <3>3. c = 2 => h[c - 1].type = "user"
      BY <3>1
    <3> QED
      BY <1>9, <1>10, <3>2, <3>3
  <2> QED
    BY <1>10, <1>14, <2>1
<1>16. Before(H, f.parent) = t
  <2>1. G \subseteq 1 .. n + 1 /\ H \subseteq 1 .. n + 1 /\ \A a \in 1 .. n : a \in G <=> a \in H
    BY <1>1, <1>13
  <2>2. PICK u : u = f.parent
    OBVIOUS
  <2>3. u \in 1 .. n
    BY <1>15, <2>2
  <2>4. Before(G, u) = Before(H, u)
    <3>1. \A x \in 1 .. n + 1 : x < u => x \in 1 .. n
      BY <1>10, <2>3
    <3>2. {x \in G : x < u} = {x \in H : x < u}
      BY <2>1, <3>1
    <3> QED
      BY <3>2 DEF Before
  <2> QED
    BY <1>6, <2>2, <2>4
<1>17. Before(H, f.retained) = b
  <2>1. G \subseteq 1 .. n + 1 /\ H \subseteq 1 .. n + 1 /\ \A a \in 1 .. n : a \in G <=> a \in H
    BY <1>1, <1>13
  <2>2. PICK u : u = f.retained
    OBVIOUS
  <2>3. u \in 1 .. n
    BY <1>14, <2>2
  <2>4. Before(G, u) = Before(H, u)
    <3>1. \A x \in 1 .. n + 1 : x < u => x \in 1 .. n
      BY <1>10, <2>3
    <3>2. {x \in G : x < u} = {x \in H : x < u}
      BY <2>1, <3>1
    <3> QED
      BY <3>2 DEF Before
  <2> QED
    BY <1>8, <2>2, <2>4
<1>18. LatestTurnCompaction(g, r, c) = prior
  <2>1. c \in 0 .. n + 1
    BY <1>1
  <2> QED
    BY <1>7, <2>1, GrownLatest
<1>19. prior # 0 => g[prior] = h[prior]
  BY <1>1, <1>7, <1>10, <1>11, LatestMeans
<1>20. Results(g, b) = Results(h, b)
  <2>1. b \in G /\ b < f.retained /\ b \in 1 .. n
    <3>1. f.retained \in Nat /\ ~(\A x \in G : ~(x < f.retained))
      BY <1>9, <1>14
    <3> QED
      BY <1>1, <1>8, <1>13, <3>1, BeforeMeans
  <2>2. f.retained \in Heads(h)
    <3>1. h[f.retained].type = "assistant"
      BY <1>1, <1>4, <1>11, <1>14, GroupsMean
    <3> QED
      BY <1>1, <1>14, <3>1, HistoryIs
  <2> QED
    BY <2>1, <2>2, OverStays DEF SameGroup
<1>21. ASSUME NEW a \in G, GroupComplete(h, a)
       PROVE  Results(g, a) = Results(h, a) /\ GroupComplete(g, a)
  <2>1. a \in 1 .. n
    BY <1>13
  <2>2. h[a].type = "assistant"
    BY <1>1, <1>4, <1>11, <2>1, GroupsMean
  <2> QED
    BY <1>21, <2>1, <2>2, CompleteStays DEF SameGroup
<1>22. t \in 1 .. n /\ t \in G
  <2>1. t # 0
    BY <1>9, <1>14
  <2> QED
    BY <1>1, <1>6, <1>13, <1>14, <2>1, BeforeMeans
<1>23. Results(g, t) = Results(h, t)
  <2>1. t >= f.first /\ t <= t
    BY <1>9, <1>14, <1>22
  <2> QED
    BY <1>9, <1>21, <1>22, <2>1
<1>24. \A a \in H : a >= f.first /\ a <= t => GroupComplete(g, a)
  <2>1. \A a \in H : a <= t => a \in 1 .. n
    BY <1>1, <1>13, <1>22
  <2> QED
    BY <1>9, <1>13, <1>21, <2>1
<1>25. Min(H) = Min(G)
  <2>1. Min(G) \in G /\ Min(G) \in 1 .. n /\ \A x \in G : Min(G) <= x
    BY <1>1, <1>13, <1>14, MinMeans
  <2>2. PICK m : m = Min(G)
    OBVIOUS
  <2>3. H \subseteq Nat
    BY <1>1, <1>13
  <2>4. m \in H
    BY <1>13, <2>1, <2>2
  <2>5. \A x \in H : m <= x
    <3>1. m \in 1 .. n /\ \A x \in G : m <= x
      BY <2>1, <2>2
    <3>2. m <= n + 1
      BY <1>1, <3>1
    <3> QED
      BY <1>1, <1>13, <3>1, <3>2
  <2>6. Min(H) = m
    BY <2>3, <2>4, <2>5, LeastIs
  <2> QED
    BY <2>2, <2>6
<1>26. g[c] = f /\ g[f.parent] = h[f.parent]
  BY <1>1, <1>3, <1>15
<1>27. \/ f.parent = c - 1
       \/ f.parent = c - 2 /\ g[c - 1].type = "snapshot" /\ g[c - 1].parent = f.parent
  <2>1. CASE f.parent = c - 1
    BY <2>1
  <2>2. CASE f.parent = c - 2
    <3>1. c - 1 \in 1 .. n
      <4>1. f.parent >= 1 /\ c - 2 >= 1
        BY <1>15, <2>2
      <4> QED
        BY <1>10, <4>1
    <3> QED
      BY <1>1, <1>9, <3>1
  <2> QED
    BY <1>9, <2>1, <2>2
<1>28. {f.first, f.retained} \subseteq H
  BY <1>13, <1>14
<1>29. IF prior = 0 THEN f.gen = 1 /\ f.first = Min(H)
       ELSE f.gen = g[prior].gen + 1 /\ f.prior = prior /\ f.first = g[prior].retained
  BY <1>9, <1>19, <1>25
<1>30. f.last = Greatest(Results(g, b)) /\ f.parent = Greatest(Results(g, t))
  BY <1>9, <1>20, <1>23
<1> QED
  BY <1>5, <1>9, <1>12, <1>16, <1>17, <1>18, <1>24, <1>26, <1>27, <1>28, <1>29, <1>30, Zenon
     DEF TurnCompactionAt

LEMMA SnapshotStays ==
  ASSUME NEW h, NEW g, NEW e, NEW n, Extended(h, g, e, n), NEW s \in 1 .. n, SnapshotAt(h, s)
  PROVE  SnapshotAt(g, s)
<1>1. /\ n \in Nat /\ n + 1 \in Nat /\ \A x \in 1 .. n : g[x] = h[x]
      /\ IsHistory(h, n) /\ Grown(h, g, e, n)
      /\ \A x \in 1 .. n : x \in 1 .. n + 1 /\ x \in Nat
  BY ExtendedIs
<1>2. PICK r : r = Before(Roots(h), s)
  OBVIOUS
<1>3. PICK f : f = h[s]
  OBVIOUS
<1>4. /\ \/ f.parent = s - 1
         \/ /\ \/ f.parent = s - 2
               \/ f.parent = s - 3 /\ h[s - 2].type = "snapshot" /\ h[s - 2].parent = f.parent
            /\ \/ /\ h[s - 1].type = "compacted" /\ h[s - 1].auto
                  /\ f.active = s - 1 /\ f.retained = h[s - 1].retained
               \/ h[s - 1].type = "turn_compacted" /\ h[s - 1].parent = f.parent
      /\ f.activeTurn = LatestTurnCompaction(h, r, s)
      /\ h[f.parent].type \in {"user", "outcome"}
      /\ f.retained \in Roots(h) /\ f.retained <= f.parent
  BY <1>2, <1>3, Zenon DEF SnapshotAt
<1>5. /\ Roots(h) \subseteq 1 .. n /\ \A x \in 1 .. n : x \in Roots(g) <=> x \in Roots(h)
  BY <1>1, GrownRoots
<1>6. f.parent \in 1 .. n /\ f.parent < s
  BY <1>1, <1>3, <1>4, <1>5 DEF IsHistory
<1>7. Before(Roots(g), s) = r
  BY <1>1, <1>2, GrownBefore
<1>8. LatestTurnCompaction(g, r, s) = LatestTurnCompaction(h, r, s)
  <2>1. s \in 0 .. n + 1
    BY <1>1
  <2> QED
    BY <2>1, GrownLatest
<1>9. g[s] = f /\ g[f.parent] = h[f.parent] /\ f.retained \in Roots(g)
  BY <1>1, <1>3, <1>4, <1>5, <1>6
<1>10. f.parent # s - 1 /\ (f.parent = s - 2 \/ f.parent = s - 3) => g[s - 1] = h[s - 1]
  BY <1>1, <1>6
<1>11. f.parent = s - 3 => g[s - 2] = h[s - 2]
  BY <1>1, <1>6
<1>12. \/ f.parent = s - 1
       \/ /\ \/ f.parent = s - 2
             \/ f.parent = s - 3 /\ g[s - 2].type = "snapshot" /\ g[s - 2].parent = f.parent
          /\ \/ /\ g[s - 1].type = "compacted" /\ g[s - 1].auto
                /\ f.active = s - 1 /\ f.retained = g[s - 1].retained
             \/ g[s - 1].type = "turn_compacted" /\ g[s - 1].parent = f.parent
  BY <1>4, <1>10, <1>11
<1> QED
  BY <1>4, <1>7, <1>8, <1>9, <1>12, Zenon DEF SnapshotAt

(* A turn that another follows ends before it, whatever comes later.       *)
LEMMA TurnEndMeans ==
  ASSUME NEW h, NEW n, IsHistory(h, n), NEW r \in Roots(h), NEW k \in Roots(h), r < k,
         \A x \in Roots(h) : x > r => k <= x
  PROVE  /\ TurnEnd(h, r) \in 1 .. n /\ r <= TurnEnd(h, r) /\ TurnEnd(h, r) < k
         /\ h[TurnEnd(h, r)].type # "compacted"
         /\ \A i \in 1 .. n : r <= i /\ i < k /\ h[i].type # "compacted" => i <= TurnEnd(h, r)
<1>1. n \in Nat /\ DOMAIN h = 1 .. n /\ Roots(h) = {i \in 1 .. n : h[i].type = "user"}
  BY HistoryIs
<1>2. r \in 1 .. n /\ k \in 1 .. n /\ h[r].type = "user" /\ r \in Nat /\ Roots(h) \subseteq 1 .. n
  BY <1>1
<1>3. After(Roots(h), r) = k
  BY <1>1, <1>2, AfterIsThe
<1> DEFINE S == {i \in 1 .. n : i >= r /\ i < k /\ h[i].type # "compacted"}
<1>4. TurnEnd(h, r) = Max(S)
  <2>1. k # 0
    BY <1>2
  <2>2. {i \in DOMAIN h : i >= r /\ (k # 0 => i < k) /\ h[i].type # "compacted"} = S
    BY <1>1, <2>1
  <2> QED
    BY <1>3, <2>2 DEF TurnEnd
<1>5. r \in S
  BY <1>2
<1>6. Max(S) \in S /\ \A x \in S : x <= Max(S)
  <2>1. S \subseteq 1 .. n /\ S # {}
    BY <1>5
  <2> HIDE DEF S
  <2> QED
    BY <1>1, <2>1, MaxMeans
<1>7. PICK m : m = Max(S)
  OBVIOUS
<1>8. m \in 1 .. n /\ m >= r /\ m < k /\ h[m].type # "compacted"
  BY <1>6, <1>7
<1>9. \A i \in 1 .. n : r <= i /\ i < k /\ h[i].type # "compacted" => i <= m
  BY <1>2, <1>6, <1>7
<1>10. r <= m
  BY <1>2, <1>8
<1> QED
  BY <1>4, <1>7, <1>8, <1>9, <1>10

LEMMA TurnEndStays ==
  ASSUME NEW h, NEW g, NEW e, NEW n, Extended(h, g, e, n), NEW k \in Roots(h),
         NEW f \in Roots(h), f < k
  PROVE  TurnEnd(g, Before(Roots(g), k)) = TurnEnd(h, Before(Roots(h), k))
<1>1. /\ n \in Nat /\ n + 1 \in Nat /\ \A x \in 1 .. n : g[x] = h[x]
      /\ IsHistory(h, n) /\ IsHistory(g, n + 1) /\ Grown(h, g, e, n)
      /\ \A x \in 1 .. n : x \in 1 .. n + 1 /\ x \in Nat
      /\ \A x \in 1 .. n + 1 : x \in 1 .. n \/ x = n + 1
  BY ExtendedIs
<1>2. /\ Roots(h) \subseteq 1 .. n /\ Roots(g) \subseteq 1 .. n + 1
      /\ \A x \in 1 .. n : x \in Roots(g) <=> x \in Roots(h)
  BY <1>1, GrownRoots
<1>3. k \in 1 .. n /\ k \in Nat /\ k \in 1 .. n + 1 /\ f \in 1 .. n
  BY <1>1, <1>2
<1>4. PICK r : r = Before(Roots(h), k)
  OBVIOUS
<1>5. Before(Roots(g), k) = r
  BY <1>1, <1>3, <1>4, GrownBefore
<1>6. /\ r \in Roots(h) /\ r < k /\ r \in 1 .. n
      /\ \A x \in Roots(h) : x < k => x <= r
  BY <1>1, <1>2, <1>3, <1>4, BeforeMeans
<1>7. (\A x \in Roots(h) : x > r => k <= x) /\ (\A x \in Roots(g) : x > r => k <= x)
  <2>1. \A x \in Roots(h) : x > r => k <= x
    BY <1>2, <1>3, <1>6
  <2>2. k <= n + 1
    BY <1>1, <1>3
  <2> QED
    BY <1>1, <1>2, <2>1, <2>2
<1>8. PICK u : u = TurnEnd(h, r)
  OBVIOUS
<1>9. PICK v : v = TurnEnd(g, r)
  OBVIOUS
<1>10. /\ u \in 1 .. n /\ r <= u /\ u < k /\ h[u].type # "compacted"
       /\ \A i \in 1 .. n : r <= i /\ i < k /\ h[i].type # "compacted" => i <= u
  BY <1>1, <1>6, <1>7, <1>8, TurnEndMeans
<1>11. /\ v \in 1 .. n + 1 /\ r <= v /\ v < k /\ g[v].type # "compacted"
       /\ \A i \in 1 .. n + 1 : r <= i /\ i < k /\ g[i].type # "compacted" => i <= v
  <2>1. r \in Roots(g) /\ k \in Roots(g)
    BY <1>2, <1>3, <1>6
  <2> QED
    BY <1>1, <1>6, <1>7, <1>9, <2>1, TurnEndMeans
<1>12. v \in 1 .. n
  BY <1>1, <1>3, <1>11
<1>13. u <= v
  BY <1>1, <1>10, <1>11
<1>14. v <= u
  BY <1>1, <1>10, <1>11, <1>12
<1>15. u = v
  BY <1>1, <1>10, <1>12, <1>13, <1>14
<1> QED
  BY <1>4, <1>5, <1>8, <1>9, <1>15

(* A turn that another follows is complete.                                *)
LEMMA FollowedIsComplete ==
  ASSUME NEW h, NEW n, IsHistory(h, n), NEW r \in Roots(h), NEW k \in Roots(h), r < k
  PROVE  TurnComplete(h, r)
<1>1. n \in Nat /\ Roots(h) \subseteq 1 .. n
  BY HistoryIs
<1>2. r \in Nat /\ Roots(h) \subseteq Nat /\ \E j \in Roots(h) : j > r
  BY <1>1
<1>3. After(Roots(h), r) \in Roots(h)
  BY <1>2, AfterIs
<1>4. After(Roots(h), r) # 0
  BY <1>1, <1>3
<1> QED
  BY <1>4 DEF TurnComplete

LEMMA ChainStays ==
  ASSUME NEW h, NEW g, NEW e, NEW n, Extended(h, g, e, n), NEW c \in 1 .. n, ChainAt(h, c)
  PROVE  ChainAt(g, c)
<1>1. /\ n \in Nat /\ n + 1 \in Nat /\ \A x \in 1 .. n : g[x] = h[x]
      /\ IsHistory(h, n) /\ IsHistory(g, n + 1) /\ Grown(h, g, e, n)
      /\ \A x \in 1 .. n : x \in 1 .. n + 1 /\ x \in Nat
      /\ \A x \in 1 .. n + 1 : x \in 1 .. n \/ x = n + 1
  BY ExtendedIs
<1>2. /\ Roots(h) \subseteq 1 .. n /\ Roots(g) \subseteq 1 .. n + 1
      /\ \A x \in 1 .. n : x \in Roots(g) <=> x \in Roots(h)
  BY <1>1, GrownRoots
<1>3. PICK f : f = h[c]
  OBVIOUS
<1>4. PICK prior : prior = Before(Of(h, {"compacted"}), c)
  OBVIOUS
<1>5. /\ {f.first, f.retained} \subseteq Roots(h) /\ f.first < f.retained /\ f.retained < c
      /\ f.last = TurnEnd(h, Before(Roots(h), f.retained))
      /\ IF prior = 0 THEN f.gen = 1 /\ f.first = Min(Roots(h))
         ELSE f.gen = h[prior].gen + 1 /\ f.prior = prior /\ f.first = h[prior].retained
  BY <1>3, <1>4, Zenon DEF ChainAt
<1>6. f.first \in Roots(h) /\ f.retained \in Roots(h) /\ {f.first, f.retained} \subseteq Roots(g)
      /\ f.retained \in Roots(g)
  BY <1>2, <1>5
<1>7. TurnEnd(g, Before(Roots(g), f.retained)) = TurnEnd(h, Before(Roots(h), f.retained))
  BY <1>5, <1>6, TurnEndStays
<1>8. /\ Of(h, {"compacted"}) \subseteq 1 .. n /\ Of(g, {"compacted"}) \subseteq 1 .. n + 1
      /\ \A i \in 1 .. n : i \in Of(g, {"compacted"}) <=> i \in Of(h, {"compacted"})
  BY <1>1, GrownOf
<1>9. Before(Of(g, {"compacted"}), c) = prior
  <2>1. Of(h, {"compacted"}) \subseteq 1 .. n + 1 /\ c \in 0 .. n + 1
    BY <1>1, <1>8
  <2> QED
    BY <1>1, <1>4, <1>8, <2>1, SameBefore
<1>10. prior # 0 => g[prior] = h[prior]
  BY <1>1, <1>4, <1>8, BeforeMeans
<1>11. Min(Roots(g)) = Min(Roots(h))
  <2>1. 1 \in 1 .. n /\ h[1].type = "user" /\ 1 \in 1 .. n + 1
    BY <1>1 DEF IsHistory
  <2>2. 1 \in Roots(h) /\ 1 \in Roots(g)
    BY <1>1, <1>2, <2>1, HistoryIs
  <2>3. Min(Roots(h)) = 1
    BY <1>1, <1>2, <2>2, FirstRoot
  <2>4. Min(Roots(g)) = 1
    BY <1>1, <1>2, <2>2, FirstRoot
  <2> QED
    BY <2>3, <2>4
<1>12. \A r \in Roots(g) : r >= f.first /\ r < f.retained => TurnComplete(g, r)
  BY <1>1, <1>6, FollowedIsComplete
<1>13. g[c] = f
  BY <1>1, <1>3
<1>14. IF prior = 0 THEN f.gen = 1 /\ f.first = Min(Roots(g))
       ELSE f.gen = g[prior].gen + 1 /\ f.prior = prior /\ f.first = g[prior].retained
  BY <1>5, <1>10, <1>11
<1> QED
  BY <1>5, <1>6, <1>7, <1>9, <1>12, <1>13, <1>14, Zenon DEF ChainAt

LEMMA ReadableGrows ==
  ASSUME NEW h, NEW g, NEW e, NEW n, Extended(h, g, e, n), NewResult(h, e), Readable(h),
         e.type = "turn_compacted" => TurnCompactionAt(g, n + 1),
         e.type = "snapshot" => SnapshotAt(g, n + 1),
         e.type = "compacted" => ChainAt(g, n + 1)
  PROVE  Readable(g)
<1>1. Grown(h, g, e, n) /\ IsHistory(h, n)
  BY ExtendedIs
<1>2. ASSUME NEW T, NEW i \in Of(g, {T})
      PROVE  (i = n + 1 /\ e.type = T) \/ (i \in 1 .. n /\ i \in Of(h, {T}) /\ h[i].type = T)
  <2>1. /\ Of(h, {T}) \subseteq 1 .. n
        /\ Of(g, {T}) = Of(h, {T}) \cup (IF e.type \in {T} THEN {n + 1} ELSE {})
    BY <1>1, GrownOf
  <2> QED
    BY <2>1 DEF Of
<1>3. ASSUME NEW i \in Of(g, {"outcome"}) PROVE ResultAt(g, i)
  <2>1. (i = n + 1 /\ e.type = "outcome")
        \/ (i \in 1 .. n /\ i \in Of(h, {"outcome"}) /\ h[i].type = "outcome")
    BY <1>2
  <2>2. \A x \in Of(h, {"outcome"}) : ResultAt(h, x)
    BY ReadableIs
  <2> QED
    BY <2>1, <2>2, ResultStays, ResultArrives
<1>4. ASSUME NEW c \in Of(g, {"turn_compacted"}) PROVE TurnCompactionAt(g, c)
  BY <1>2, TurnCompactionStays, ReadableIs
<1>5. ASSUME NEW s \in Of(g, {"snapshot"}) PROVE SnapshotAt(g, s)
  BY <1>2, SnapshotStays, ReadableIs
<1>6. ASSUME NEW c \in Of(g, {"compacted"}) PROVE ChainAt(g, c)
  BY <1>2, ChainStays, ReadableIs
<1> QED
  BY <1>3, <1>4, <1>5, <1>6, ReadableIs

-----------------------------------------------------------------------------
(* A compaction of the conversation.                                       *)

IsCompaction(e, h, k) ==
  LET prior == Greatest(Of(h, {"compacted"}))
  IN /\ e.type = "compacted" /\ e.first = Start(h) /\ e.retained = k
     /\ e.last = TurnEnd(h, Before(Roots(h), k)) /\ e.prior = prior /\ e.parent = 0 /\ e.calls = 0
     /\ e.gen = IF prior = 0 THEN 1 ELSE h[prior].gen + 1

LEMMA CompactionMeans ==
  ASSUME NEW h, NEW k, NEW auto
  PROVE  IsCompaction(Compaction(h, k, auto), h, k) /\ Compaction(h, k, auto).auto = auto
<1> DEFINE prior == Greatest(Of(h, {"compacted"}))
           last == TurnEnd(h, Before(Roots(h), k))
           gen == IF prior = 0 THEN 1 ELSE h[prior].gen + 1
           first == Start(h)
<1>1. PICK e : e = Compaction(h, k, auto)
  OBVIOUS
<1>2. e = [Event EXCEPT !.type = "compacted", !.first = first, !.retained = k, !.last = last,
                        !.auto = auto, !.prior = prior, !.gen = gen]
  BY <1>1 DEF Compaction
<1>3. IsCompaction(e, h, k) <=>
        /\ e.type = "compacted" /\ e.first = first /\ e.retained = k
        /\ e.last = last /\ e.prior = prior /\ e.parent = 0 /\ e.calls = 0 /\ e.gen = gen
  BY DEF IsCompaction
<1>4. Event = [type |-> "user", by |-> 0, parent |-> 0, calls |-> 0, call |-> 0, turn |-> 0,
               first |-> 0, last |-> 0, retained |-> 0, gen |-> 0, prior |-> 0, auto |-> FALSE,
               active |-> 0, activeTurn |-> 0]
  BY DEF Event
<1> HIDE DEF prior, last, gen, first
<1>5. /\ e.type = "compacted" /\ e.first = first /\ e.retained = k /\ e.auto = auto
      /\ e.last = last /\ e.prior = prior /\ e.parent = 0 /\ e.calls = 0 /\ e.gen = gen
  BY <1>2, <1>4
<1> QED
  BY <1>1, <1>3, <1>5

(* What the summary reaches, and the events behind it.                     *)
LEMMA SummaryMeans ==
  ASSUME NEW h, NEW n, IsHistory(h, n)
  PROVE  LET prior == Greatest(Of(h, {"compacted"}))
         IN /\ prior # 0 => prior \in 1 .. n /\ h[prior].type = "compacted"
            /\ n # 0 => Min(Roots(h)) = 1 /\ 1 \in Roots(h)
            /\ Start(h) = IF prior = 0 THEN Min(Roots(h)) ELSE h[prior].retained
            /\ \A c \in 1 .. n : h[c].type = "compacted" => c <= prior
<1>1. /\ n \in Nat /\ Of(h, {"compacted"}) = {i \in 1 .. n : h[i].type = "compacted"}
      /\ Roots(h) = {i \in 1 .. n : h[i].type = "user"}
  BY HistoryIs
<1> DEFINE C == Of(h, {"compacted"})
<1>2. C \subseteq 1 .. n /\ (\A c \in C : c \in 1 .. n /\ h[c].type = "compacted")
      /\ \A c \in 1 .. n : h[c].type = "compacted" => c \in C
  BY <1>1
<1>3. Start(h) = IF Greatest(C) = 0 THEN Min(Roots(h)) ELSE h[Greatest(C)].retained
  BY DEF Start
<1>4. n # 0 => Min(Roots(h)) = 1 /\ 1 \in Roots(h)
  <2>1. SUFFICES ASSUME n # 0 PROVE Min(Roots(h)) = 1 /\ 1 \in Roots(h)
    OBVIOUS
  <2>2. 1 \in Roots(h) /\ Roots(h) \subseteq 1 .. n
    BY <1>1, <2>1 DEF IsHistory
  <2> QED
    BY <1>1, <2>2, FirstRoot
<1>5. /\ Greatest(C) # 0 => Greatest(C) \in 1 .. n /\ h[Greatest(C)].type = "compacted"
      /\ \A c \in 1 .. n : h[c].type = "compacted" => c <= Greatest(C)
  <2> HIDE DEF C
  <2>1. CASE C = {}
    BY <1>2, <2>1 DEF Greatest
  <2>2. CASE C # {}
    <3>1. Greatest(C) \in C /\ \A c \in C : c <= Greatest(C)
      BY <1>1, <1>2, <2>2, GreatestIn
    <3> QED
      BY <1>2, <3>1
  <2> QED
    BY <2>1, <2>2
<1> QED
  BY <1>3, <1>4, <1>5

LEMMA CompactionFits ==
  ASSUME NEW h, NEW n, IsHistory(h, n), NEW e, NEW k \in Roots(h), IsCompaction(e, h, k),
         Start(h) \in Roots(h), Start(h) < k
  PROVE  /\ AdmitCompaction(h, e)
         /\ {e.parent, e.last, e.retained, e.prior} \subseteq 0 .. n
         /\ \A g : Extended(h, g, e, n) => ChainAt(g, n + 1)
<1>1. /\ n \in Nat /\ DOMAIN h = 1 .. n /\ Len(h) = n
      /\ Roots(h) = {i \in 1 .. n : h[i].type = "user"}
      /\ Of(h, {"compacted"}) = {i \in 1 .. n : h[i].type = "compacted"}
  BY HistoryIs
<1>2. PICK prior : prior = Greatest(Of(h, {"compacted"}))
  OBVIOUS
<1>3. PICK s : s = Start(h)
  OBVIOUS
<1>4. /\ e.type = "compacted" /\ e.first = s /\ e.retained = k /\ e.prior = prior /\ e.parent = 0
      /\ e.last = TurnEnd(h, Before(Roots(h), k))
      /\ e.gen = IF prior = 0 THEN 1 ELSE h[prior].gen + 1
  BY <1>2, <1>3 DEF IsCompaction
<1>5. /\ Roots(h) \subseteq 1 .. n /\ s \in Roots(h) /\ s < k /\ s \in 1 .. n /\ k \in 1 .. n
      /\ n # 0 /\ k \in Nat /\ k <= n
  BY <1>1, <1>3
<1>6. /\ prior # 0 => prior \in 1 .. n
      /\ Min(Roots(h)) = 1 /\ 1 \in Roots(h)
      /\ s = IF prior = 0 THEN 1 ELSE h[prior].retained
  BY <1>2, <1>3, <1>5, SummaryMeans
<1>7. PICK r : r = Before(Roots(h), k)
  OBVIOUS
<1>8. /\ r \in Roots(h) /\ r < k /\ r \in 1 .. n /\ \A x \in Roots(h) : x < k => x <= r
  BY <1>1, <1>5, <1>7, BeforeMeans
<1>9. \A x \in Roots(h) : x > r => k <= x
  BY <1>5, <1>8
<1>10. PICK u : u = TurnEnd(h, r)
  OBVIOUS
<1>11. /\ u \in 1 .. n /\ r <= u /\ u < k /\ h[u].type # "compacted"
       /\ \A i \in 1 .. n : r <= i /\ i < k /\ h[i].type # "compacted" => i <= u
  BY <1>8, <1>9, <1>10, TurnEndMeans
<1>12. e.last = u
  BY <1>4, <1>7, <1>10
<1>13. After(Roots(h), u) = k
  <2>1. u \in Nat /\ k > u
    BY <1>5, <1>11
  <2>2. \A x \in Roots(h) : x > u => k <= x
    BY <1>5, <1>8, <1>9, <1>11
  <2> QED
    BY <1>1, <1>5, <2>1, <2>2, AfterIsThe
<1>14. \A i \in u + 1 .. k - 1 : h[i].type = "compacted"
  <2>1. ASSUME NEW i \in u + 1 .. k - 1 PROVE h[i].type = "compacted"
    <3>1. i \in 1 .. n /\ r <= i /\ i < k /\ ~(i <= u)
      BY <1>1, <1>5, <1>8, <1>11
    <3> QED
      BY <1>11, <3>1
  <2> QED
    BY <2>1
<1>15. AdmitCompaction(h, e)
  <2>1. IF prior = 0 THEN e.gen = 1 /\ e.prior = 0 /\ e.first = 1
        ELSE e.gen = h[prior].gen + 1 /\ e.prior = prior /\ e.first = h[prior].retained
    BY <1>4, <1>6
  <2>2. {e.first, e.retained} \subseteq Roots(h) /\ e.last < e.retained
    BY <1>4, <1>5, <1>11, <1>12
  <2>3. /\ After(Roots(h), e.last) = e.retained /\ h[e.last].type # "compacted"
        /\ \A i \in e.last + 1 .. e.retained - 1 : h[i].type = "compacted"
    BY <1>4, <1>11, <1>12, <1>13, <1>14
  <2> QED
    BY <1>2, <2>1, <2>2, <2>3 DEF AdmitCompaction
<1>16. {e.parent, e.last, e.retained, e.prior} \subseteq 0 .. n
  <2>1. 0 \in 0 .. n /\ u \in 0 .. n /\ k \in 0 .. n /\ prior \in 0 .. n
    BY <1>1, <1>5, <1>6, <1>11
  <2> QED
    BY <1>4, <1>12, <2>1
<1>17. ASSUME NEW g, Extended(h, g, e, n) PROVE ChainAt(g, n + 1)
  <2>1. /\ n + 1 \in Nat /\ g[n + 1] = e /\ \A x \in 1 .. n : g[x] = h[x]
        /\ IsHistory(g, n + 1) /\ Grown(h, g, e, n)
    BY <1>17, ExtendedIs
  <2>2. Roots(g) = Roots(h)
    BY <1>4, <2>1, GrownRoots
  <2>3. /\ Of(h, {"compacted"}) \subseteq 1 .. n /\ Of(g, {"compacted"}) \subseteq 1 .. n + 1
        /\ \A i \in 1 .. n : i \in Of(g, {"compacted"}) <=> i \in Of(h, {"compacted"})
    BY <2>1, GrownOf
  <2>4. Before(Of(g, {"compacted"}), n + 1) = prior
    <3>1. \A x \in Of(g, {"compacted"}) : x < n + 1 => x \in 1 .. n
      BY <1>1, <2>3
    <3>2. \A x \in Of(h, {"compacted"}) : x < n + 1
      BY <1>1
    <3>3. {x \in Of(g, {"compacted"}) : x < n + 1} = Of(h, {"compacted"})
      BY <2>3, <3>1, <3>2
    <3> QED
      BY <1>2, <3>3 DEF Before
  <2>5. TurnEnd(g, Before(Roots(g), k)) = u
    BY <1>5, <1>7, <1>10, <1>17, TurnEndStays
  <2>6. prior # 0 => g[prior] = h[prior]
    BY <1>6, <2>1
  <2>7. \A x \in Roots(g) : x >= s /\ x < k => TurnComplete(g, x)
    BY <2>1, <2>2, FollowedIsComplete
  <2>8. IF prior = 0 THEN e.gen = 1 /\ e.first = Min(Roots(g))
        ELSE e.gen = g[prior].gen + 1 /\ e.prior = prior /\ e.first = g[prior].retained
    BY <1>4, <1>6, <2>2, <2>6
  <2>9. {e.first, e.retained} \subseteq Roots(g) /\ e.first < e.retained /\ e.retained < n + 1
    BY <1>1, <1>4, <1>5, <2>2
  <2>10. e.last = TurnEnd(g, Before(Roots(g), e.retained))
    BY <1>4, <1>12, <2>5
  <2>11. \A x \in Roots(g) : x >= e.first /\ x < e.retained => TurnComplete(g, x)
    BY <1>4, <2>7
  <2> QED
    BY <2>1, <2>4, <2>8, <2>9, <2>10, <2>11, Zenon DEF ChainAt
<1> QED
  BY <1>15, <1>16, <1>17

LEMMA WholePlanMeans ==
  ASSUME NEW h, NEW root, NEW plan \in WholePlans(h, root)
  PROVE  \E k \in Roots(h) : IsCompaction(plan, h, k) /\ Start(h) < k /\ plan.auto = TRUE
<1>1. PICK k \in Roots(h) : k > Start(h) /\ plan = Compaction(h, k, TRUE)
  BY DEF WholePlans
<1>2. IsCompaction(plan, h, k) /\ plan.auto = TRUE
  BY <1>1, CompactionMeans, Zenon
<1>3. Start(h) < k
  BY <1>1
<1> QED
  BY <1>2, <1>3

LEMMA ManualPlanMeans ==
  ASSUME NEW h, NEW n, IsHistory(h, n), Start(h) \in Roots(h), NEW plan \in ManualPlans(h)
  PROVE  \E k \in Roots(h) : IsCompaction(plan, h, k) /\ Start(h) < k
<1>1. n \in Nat /\ Roots(h) \subseteq 1 .. n
  BY HistoryIs
<1> DEFINE open == {r \in Roots(h) : r >= Start(h)}
           done == {r \in open : TurnComplete(h, r)}
           keep == Max(done \ {Max(done)})
<1>2. ~(Cardinality(done) < 3)
  BY DEF ManualPlans
<1>3. PICK r \in open : r < keep /\ plan = Compaction(h, After(Roots(h), r), FALSE)
  BY DEF ManualPlans
<1>4. done \subseteq 1 .. n /\ done \subseteq Roots(h)
  BY <1>1
<1>5. keep \in Roots(h)
  <2> HIDE DEF done
  <2>1. done \ {Max(done)} # {}
    <3>1. SUFFICES ASSUME done \ {Max(done)} = {} PROVE FALSE
      OBVIOUS
    <3>2. PICK m : m = Max(done)
      OBVIOUS
    <3>3. done = {} \/ done = {m}
      BY <3>1, <3>2
    <3>4. Cardinality(done) \in {0, 1}
      BY <3>3, FS_EmptySet, FS_Singleton
    <3> QED
      BY <1>2, <3>4
  <2>2. done \ {Max(done)} \subseteq 1 .. n
    BY <1>4
  <2>3. keep \in done \ {Max(done)}
    BY <1>1, <2>1, <2>2, MaxMeans
  <2> QED
    BY <1>4, <2>3
<1>6. PICK k : k = After(Roots(h), r)
  OBVIOUS
<1>7. r \in Nat /\ r \in Roots(h) /\ r >= Start(h)
  BY <1>1, <1>3
<1>8. k \in Roots(h) /\ k > r
  <2>1. PICK j : j = keep
    OBVIOUS
  <2>2. j \in Roots(h) /\ j > r
    BY <1>3, <1>5, <1>7, <2>1
  <2> QED
    BY <1>1, <1>6, <1>7, <2>2, AfterMeans
<1>9. Start(h) < k
  BY <1>1, <1>7, <1>8
<1>10. IsCompaction(plan, h, k)
  BY <1>3, <1>6, CompactionMeans, Zenon
<1> QED
  BY <1>8, <1>9, <1>10

-----------------------------------------------------------------------------
(* A compaction within a turn.                                             *)

Planned(e, h, root, trigger, a) ==
  LET groups == Groups(h, root)
      prior == LatestTurnCompaction(h, root, Len(h) + 1)
  IN /\ groups # {} /\ Greatest(Results(h, Max(groups))) = trigger
     /\ \A b \in groups : GroupComplete(h, b)
     /\ a \in groups /\ a >= e.first /\ Cardinality({x \in groups : x > a}) >= RetainedGroups
     /\ e.type = "turn_compacted" /\ e.parent = trigger /\ e.turn = root /\ e.calls = 0
     /\ e.first = IF prior = 0 THEN Min(groups) ELSE h[prior].retained
     /\ e.last = Greatest(Results(h, a)) /\ e.retained = After(groups, a)
     /\ e.prior = prior /\ e.gen = IF prior = 0 THEN 1 ELSE h[prior].gen + 1

LEMMA TurnPlanMeans ==
  ASSUME NEW h, NEW root, NEW trigger, NEW plan \in TurnPlans(h, root, trigger)
  PROVE  \E a : Planned(plan, h, root, trigger, a)
<1> DEFINE groups == Groups(h, root)
           prior == LatestTurnCompaction(h, root, Len(h) + 1)
           first == IF prior = 0 THEN Min(groups) ELSE h[prior].retained
           gen == IF prior = 0 THEN 1 ELSE h[prior].gen + 1
           last(a) == Greatest(Results(h, a))
           kept(a) == After(groups, a)
<1>1. /\ groups # {} /\ Greatest(Results(h, Max(groups))) = trigger
      /\ \A b \in groups : GroupComplete(h, b)
  BY DEF TurnPlans
<1>2. PICK a \in groups :
        /\ a >= first /\ Cardinality({x \in groups : x > a}) >= RetainedGroups
        /\ plan = [Event EXCEPT !.type = "turn_compacted", !.parent = trigger, !.turn = root,
                                !.first = first, !.last = last(a), !.retained = kept(a),
                                !.prior = prior, !.gen = gen]
  BY DEF TurnPlans
<1>3. PICK e : e = plan
  OBVIOUS
<1>4. Event = [type |-> "user", by |-> 0, parent |-> 0, calls |-> 0, call |-> 0, turn |-> 0,
               first |-> 0, last |-> 0, retained |-> 0, gen |-> 0, prior |-> 0, auto |-> FALSE,
               active |-> 0, activeTurn |-> 0]
  BY DEF Event
<1>5. e = [Event EXCEPT !.type = "turn_compacted", !.parent = trigger, !.turn = root,
                        !.first = first, !.last = last(a), !.retained = kept(a),
                        !.prior = prior, !.gen = gen]
  BY <1>2, <1>3
<1>6. Planned(e, h, root, trigger, a) <=>
        /\ groups # {} /\ Greatest(Results(h, Max(groups))) = trigger
        /\ \A b \in groups : GroupComplete(h, b)
        /\ a \in groups /\ a >= e.first /\ Cardinality({x \in groups : x > a}) >= RetainedGroups
        /\ e.type = "turn_compacted" /\ e.parent = trigger /\ e.turn = root /\ e.calls = 0
        /\ e.first = first /\ e.last = last(a) /\ e.retained = kept(a)
        /\ e.prior = prior /\ e.gen = gen
  BY DEF Planned
<1>7. /\ e.type = "turn_compacted" /\ e.parent = trigger /\ e.turn = root /\ e.calls = 0
      /\ e.first = first /\ e.last = last(a) /\ e.retained = kept(a)
      /\ e.prior = prior /\ e.gen = gen
  <2> HIDE DEF groups, prior, first, gen, last, kept
  <2> QED
    BY <1>4, <1>5
<1>8. Planned(e, h, root, trigger, a)
  <2>1. a >= e.first
    BY <1>2, <1>7, Zenon
  <2> HIDE DEF prior, first, gen, last, kept
  <2> QED
    BY <1>1, <1>2, <1>6, <1>7, <2>1
<1> QED
  BY <1>3, <1>8

(* The newest turn r is under way, and nothing ended it.                   *)
Open(h, n, r) ==
  /\ r \in Roots(h) /\ \A x \in Roots(h) : x <= r
  /\ \A i \in 1 .. n : Ends(h[i]) => i < r

LEMMA OpenGroups ==
  ASSUME NEW h, NEW n, IsHistory(h, n), NEW r, Open(h, n, r)
  PROVE  /\ r \in 1 .. n /\ Groups(h, r) \subseteq 1 .. n
         /\ \A x \in 1 .. n : x \in Groups(h, r) <=> x > r /\ h[x].type = "assistant"
         /\ \A x \in Heads(h) : x > r => x \in Groups(h, r)
         /\ \A x \in Groups(h, r) : /\ x \in Heads(h) /\ h[x].calls \in Nat /\ h[x].calls > 0
                                    /\ x > r /\ h[x].type = "assistant"
<1>1. /\ n \in Nat /\ Roots(h) = {i \in 1 .. n : h[i].type = "user"}
      /\ Heads(h) = {i \in 1 .. n : h[i].type \in {"user", "assistant"}}
  BY HistoryIs
<1>2. r \in 1 .. n /\ \A x \in Roots(h) : x <= r
  BY <1>1 DEF Open
<1>3. /\ Groups(h, r) \subseteq 1 .. n
      /\ \A a \in 1 .. n : a \in Groups(h, r) <=>
           /\ a > r /\ h[a].type = "assistant" /\ h[a].calls > 0
           /\ \A x \in Roots(h) : ~(r < x /\ x < a)
  BY <1>2, GroupsMean
<1>4. ASSUME NEW x \in 1 .. n, x > r, h[x].type = "assistant"
      PROVE  x \in Groups(h, r) /\ h[x].calls > 0
  <2>1. h[x].calls \in Nat
    BY DEF IsHistory
  <2>2. h[x].calls # 0
    BY <1>2, <1>4 DEF Open, Ends
  <2>3. h[x].calls > 0
    BY <2>1, <2>2
  <2>4. \A y \in Roots(h) : ~(r < y /\ y < x)
    BY <1>1, <1>2
  <2> QED
    BY <1>3, <1>4, <2>3, <2>4
<1>5. \A x \in 1 .. n : x \in Groups(h, r) <=> x > r /\ h[x].type = "assistant"
  BY <1>3, <1>4
<1>6. \A x \in Heads(h) : x > r => x \in Groups(h, r)
  <2>1. ASSUME NEW x \in Heads(h), x > r PROVE x \in Groups(h, r)
    <3>1. x \in 1 .. n /\ x \notin Roots(h)
      BY <1>1, <1>2, <2>1
    <3>2. h[x].type = "assistant"
      BY <1>1, <3>1
    <3> QED
      BY <1>5, <2>1, <3>1, <3>2
  <2> QED
    BY <2>1
<1>7. \A x \in Groups(h, r) : /\ x \in Heads(h) /\ h[x].calls \in Nat /\ h[x].calls > 0
                              /\ x > r /\ h[x].type = "assistant"
  <2>1. \A x \in 1 .. n : h[x].calls \in Nat
    BY DEF IsHistory
  <2> QED
    BY <1>1, <1>3, <2>1
<1> QED
  BY <1>2, <1>3, <1>5, <1>6, <1>7

(* A complete group has results, the greatest of them before any head that *)
(* comes later.                                                            *)
LEMMA GroupResults ==
  ASSUME NEW h, NEW n, IsHistory(h, n), NEW r, Open(h, n, r), NEW a \in Groups(h, r),
         GroupComplete(h, a)
  PROVE  LET last == Greatest(Results(h, a))
         IN /\ last \in Results(h, a) /\ last \in 1 .. n /\ a < last /\ h[last].type = "outcome"
            /\ \A i \in Results(h, a) : i <= last
            /\ \A x \in Heads(h) : x > a => x > last
<1>1. n \in Nat /\ Heads(h) = {i \in 1 .. n : h[i].type \in {"user", "assistant"}}
  BY HistoryIs
<1>2. a \in 1 .. n /\ h[a].calls \in Nat /\ h[a].calls > 0
  BY OpenGroups
<1>3. /\ Results(h, a) \subseteq 1 .. n
      /\ \A i \in 1 .. n : i \in Results(h, a) <=>
           i > a /\ h[i].type = "outcome" /\ \A x \in Heads(h) : ~(a < x /\ x < i)
  BY <1>2, ResultsMean
<1>4. Results(h, a) # {}
  <2>1. 1 \in 1 .. h[a].calls
    BY <1>2
  <2>2. 1 \in {h[i].call : i \in Results(h, a)}
    BY <2>1 DEF GroupComplete
  <2> QED
    BY <2>2
<1>5. PICK last : last = Greatest(Results(h, a))
  OBVIOUS
<1>6. last \in Results(h, a) /\ \A i \in Results(h, a) : i <= last
  BY <1>1, <1>3, <1>4, <1>5, GreatestIn
<1>7. /\ last \in 1 .. n /\ a < last /\ h[last].type = "outcome"
      /\ \A x \in Heads(h) : ~(a < x /\ x < last)
  BY <1>3, <1>6
<1>8. \A x \in Heads(h) : x > a => x > last
  <2>1. ASSUME NEW x \in Heads(h), x > a PROVE x > last
    <3>1. x # last
      BY <1>1, <1>7
    <3>2. x \in Nat /\ last \in Nat /\ a \in Nat /\ ~(x < last)
      BY <1>1, <1>2, <1>7, <2>1
    <3> QED
      BY <3>1, <3>2
  <2> QED
    BY <2>1
<1> QED
  BY <1>5, <1>6, <1>7, <1>8

(* What a plan covers and what it keeps.                                   *)
LEMMA PlanFacts ==
  ASSUME NEW h, NEW n, IsHistory(h, n), Readable(h), NEW r, Open(h, n, r), NEW e, NEW t, NEW a,
         Planned(e, h, r, t, a)
  PROVE  LET groups == Groups(h, r)
             m == Max(groups)
             k == e.retained
         IN /\ a \in groups /\ k \in groups /\ a < k /\ \A x \in groups : x > a => k <= x
            /\ m \in groups /\ \A x \in groups : x <= m
            /\ t = Greatest(Results(h, m))
            /\ e.first \in groups /\ e.first <= a
<1>1. n \in Nat /\ Len(h) = n /\ Roots(h) \subseteq 1 .. n
      /\ Of(h, {"turn_compacted"}) = {i \in 1 .. n : h[i].type = "turn_compacted"}
  BY HistoryIs
<1>2. PICK G : G = Groups(h, r)
  OBVIOUS
<1>3. PICK prior : prior = LatestTurnCompaction(h, r, n + 1)
  OBVIOUS
<1>4. /\ G # {} /\ Greatest(Results(h, Max(G))) = t
      /\ a \in G /\ a >= e.first /\ Cardinality({x \in G : x > a}) >= RetainedGroups
      /\ e.first = IF prior = 0 THEN Min(G) ELSE h[prior].retained
      /\ e.retained = After(G, a)
  BY <1>1, <1>2, <1>3, Zenon DEF Planned
<1>5. G \subseteq 1 .. n /\ r \in 1 .. n
  BY <1>2, OpenGroups
<1>6. \E x \in G : x > a
  <2>1. SUFFICES ASSUME ~\E x \in G : x > a PROVE FALSE
    OBVIOUS
  <2>2. {x \in G : x > a} = {}
    BY <2>1
  <2>3. 0 >= RetainedGroups
    BY <1>4, <2>2, FS_EmptySet
  <2> QED
    BY <2>3, HistoryAssumption
<1>7. PICK k : k = e.retained
  OBVIOUS
<1>8. k \in G /\ k > a /\ \A x \in G : x > a => k <= x
  <2>1. k = After(G, a) /\ a \in Nat
    BY <1>4, <1>5, <1>7
  <2> QED
    BY <1>1, <1>5, <1>6, <2>1, AfterMeans
<1>9. Max(G) \in G /\ \A x \in G : x <= Max(G)
  BY <1>1, <1>4, <1>5, MaxMeans
<1>10. e.first \in G
  <2>1. CASE prior = 0
    BY <1>1, <1>4, <1>5, <2>1, MinMeans
  <2>2. CASE prior # 0
    <3>1. prior \in 1 .. n /\ h[prior].type = "turn_compacted" /\ prior > r
      BY <1>1, <1>3, <1>5, <2>2, LatestMeans
    <3>2. TurnCompactionAt(h, prior)
      <4>1. prior \in Of(h, {"turn_compacted"})
        BY <1>1, <3>1
      <4> QED
        BY <4>1, ReadableIs
    <3>3. Before(Roots(h), prior) = r
      <4>1. r \in Roots(h) /\ \A x \in Roots(h) : x <= r
        BY DEF Open
      <4>2. r < prior /\ prior \in Nat
        BY <1>5, <3>1
      <4> QED
        BY <1>1, <4>1, <4>2, BeforeIs
    <3>4. h[prior].retained \in G
      <4>1. {h[prior].first, h[prior].retained} \subseteq Groups(h, Before(Roots(h), prior))
        BY <3>2, Zenon DEF TurnCompactionAt
      <4> QED
        BY <1>2, <3>3, <4>1
    <3> QED
      BY <1>4, <2>2, <3>4
  <2> QED
    BY <2>1, <2>2
<1>11. e.first <= a
  <2>1. PICK f : f = e.first
    OBVIOUS
  <2>2. f \in Nat /\ a \in Nat /\ a >= f
    BY <1>4, <1>5, <1>10, <2>1
  <2> QED
    BY <2>1, <2>2
<1>12. a < k
  BY <1>4, <1>5, <1>8
<1> QED
  BY <1>2, <1>4, <1>7, <1>8, <1>9, <1>10, <1>11, <1>12

(* As many results as calls, where every result answers a call of its own. *)
LEMMA SameSize ==
  ASSUME NEW n \in Nat, NEW O, O \subseteq 1 .. n, NEW T, NEW F \in [O -> T],
         \A i, j \in O : F[i] = F[j] => i = j, \A t \in T : \E i \in O : F[i] = t
  PROVE  Cardinality(T) = Cardinality(O)
<1>1. IsFiniteSet(O)
  <2>1. IsFiniteSet(1 .. n)
    BY FS_Interval
  <2> QED
    BY <2>1, FS_Subset
<1>2. F \in Bijection(O, T)
  BY Fun_IsBij
<1>3. ExistsBijection(O, T)
  BY <1>2, Fun_ExistsBij
<1> QED
  BY <1>1, <1>3, FS_Bijection

CallsOf(h, A) == UNION {{a} \X (1 .. h[a].calls) : a \in A}

(* The results O answer the calls of the groups A.                         *)
Owned(h, A, O) ==
  /\ \A i \in O : h[i].type = "outcome" /\ Before(Heads(h), i) \in A
  /\ \A a \in A : /\ GroupComplete(h, a) /\ Results(h, a) \subseteq O
                  /\ \A i \in Results(h, a) : Before(Heads(h), i) = a

LEMMA ResultsMatchCalls ==
  ASSUME NEW h, NEW n, IsHistory(h, n), Readable(h), NEW A, NEW O, O \subseteq 1 .. n,
         Owned(h, A, O)
  PROVE  Cardinality(CallsOf(h, A)) = Cardinality(O)
<1> DEFINE T == UNION {{a} \X (1 .. h[a].calls) : a \in A}
           F == [i \in O |-> <<Before(Heads(h), i), h[i].call>>]
<1>1. n \in Nat /\ Of(h, {"outcome"}) = {i \in 1 .. n : h[i].type = "outcome"}
  BY HistoryIs
<1>2. ASSUME NEW i \in O
      PROVE  LET a == Before(Heads(h), i)
             IN /\ a \in A /\ h[i].call \in 1 .. h[a].calls /\ i \in Results(h, a)
                /\ \A j \in Results(h, a) : h[j].call = h[i].call => j = i
  <2>1. i \in 1 .. n /\ h[i].type = "outcome" /\ Before(Heads(h), i) \in A
    BY DEF Owned
  <2>2. ResultAt(h, i)
    BY <1>1, <2>1, ReadableIs
  <2>3. PICK a : a = Before(Heads(h), i)
    OBVIOUS
  <2>4. /\ a # 0 /\ h[i].call \in 1 .. h[a].calls
        /\ \A j \in Results(h, a) : h[j].call = h[i].call => j = i
    BY <2>2, <2>3, HeadsAre DEF ResultAt
  <2>5. i \in Results(h, a)
    <3>1. i \in 1 .. n + 1
      BY <1>1, <2>1
    <3> QED
      BY <2>1, <2>3, <2>4, <3>1, HeadOf
  <2> QED
    BY <2>1, <2>3, <2>4, <2>5
<1>3. F \in [O -> T]
  <2>1. ASSUME NEW i \in O PROVE <<Before(Heads(h), i), h[i].call>> \in T
    <3>1. PICK a : a = Before(Heads(h), i)
      OBVIOUS
    <3>2. a \in A /\ h[i].call \in 1 .. h[a].calls
      BY <1>2, <3>1
    <3>3. <<a, h[i].call>> \in {a} \X (1 .. h[a].calls)
      BY <3>2
    <3> QED
      BY <3>1, <3>2, <3>3
  <2> QED
    BY <2>1
<1>4. ASSUME NEW i \in O, NEW j \in O, F[i] = F[j] PROVE i = j
  <2>1. Before(Heads(h), i) = Before(Heads(h), j) /\ h[i].call = h[j].call
    BY <1>4
  <2>2. PICK a : a = Before(Heads(h), i)
    OBVIOUS
  <2>3. j \in Results(h, a) /\ \A x \in Results(h, a) : h[x].call = h[i].call => x = i
    BY <1>2, <2>1, <2>2
  <2> QED
    BY <2>1, <2>3
<1>5. ASSUME NEW t \in T PROVE \E i \in O : F[i] = t
  <2>1. PICK a \in A : t \in {a} \X (1 .. h[a].calls)
    OBVIOUS
  <2>2. PICK c \in 1 .. h[a].calls : t = <<a, c>>
    BY <2>1
  <2>3. c \in {h[i].call : i \in Results(h, a)}
    BY <2>2 DEF GroupComplete, Owned
  <2>4. PICK i \in Results(h, a) : c = h[i].call
    BY <2>3
  <2>5. i \in O /\ Before(Heads(h), i) = a
    BY <2>4 DEF Owned
  <2>6. F[i] = <<a, c>>
    BY <2>4, <2>5
  <2> QED
    BY <2>2, <2>5, <2>6
<1>6. (\A i, j \in O : F[i] = F[j] => i = j) /\ (\A t \in T : \E i \in O : F[i] = t)
  BY <1>4, <1>5
<1> HIDE DEF F, T
<1>7. Cardinality(T) = Cardinality(O)
  BY <1>1, <1>3, <1>6, SameSize
<1> QED
  BY <1>7 DEF T, CallsOf

LEMMA TurnPlanAdmitted ==
  ASSUME NEW h, NEW n, IsHistory(h, n), Readable(h), NEW r, Open(h, n, r), NEW e, NEW t, NEW a,
         Planned(e, h, r, t, a), t = n \/ (t = n - 1 /\ h[n].type = "snapshot" /\ h[n].parent = t)
  PROVE  AdmitTurnCompaction(h, e)
<1>1. /\ n \in Nat /\ DOMAIN h = 1 .. n /\ Len(h) = n
      /\ Heads(h) = {i \in 1 .. n : h[i].type \in {"user", "assistant"}}
      /\ Of(h, {"assistant"}) = {i \in 1 .. n : h[i].type = "assistant"}
      /\ Of(h, {"outcome"}) = {i \in 1 .. n : h[i].type = "outcome"}
      /\ Roots(h) = {i \in 1 .. n : h[i].type = "user"}
  BY HistoryIs
<1>2. PICK G : G = Groups(h, r)
  OBVIOUS
<1>3. PICK prior : prior = LatestTurnCompaction(h, r, n + 1)
  OBVIOUS
<1>4. PICK f : f = e.first
  OBVIOUS
<1>5. PICK k : k = e.retained
  OBVIOUS
<1>6. PICK m : m = Max(G)
  OBVIOUS
<1>7. PICK last : last = Greatest(Results(h, a))
  OBVIOUS
<1>8. /\ \A b \in G : GroupComplete(h, b)
      /\ e.parent = t /\ e.turn = r /\ e.last = last /\ e.prior = prior
      /\ f = IF prior = 0 THEN Min(G) ELSE h[prior].retained
      /\ e.gen = IF prior = 0 THEN 1 ELSE h[prior].gen + 1
  BY <1>1, <1>2, <1>3, <1>4, <1>7, Zenon DEF Planned
<1>9. /\ a \in G /\ k \in G /\ a < k /\ \A x \in G : x > a => k <= x
      /\ m \in G /\ \A x \in G : x <= m
      /\ t = Greatest(Results(h, m)) /\ f \in G /\ f <= a
  BY <1>2, <1>4, <1>5, <1>6, PlanFacts
<1>10. /\ r \in 1 .. n /\ G \subseteq 1 .. n
       /\ \A x \in 1 .. n : x \in G <=> x > r /\ h[x].type = "assistant"
       /\ \A x \in Heads(h) : x > r => x \in G
       /\ \A x \in G : /\ x \in Heads(h) /\ h[x].calls \in Nat /\ h[x].calls > 0
                       /\ x > r /\ h[x].type = "assistant"
  BY <1>2, OpenGroups
<1>11. /\ last \in Results(h, a) /\ last \in 1 .. n /\ a < last /\ h[last].type = "outcome"
       /\ \A i \in Results(h, a) : i <= last
       /\ \A x \in Heads(h) : x > a => x > last
  BY <1>2, <1>7, <1>8, <1>9, GroupResults
<1>12. t \in Results(h, m) /\ t \in 1 .. n /\ m < t /\ h[t].type = "outcome"
  BY <1>2, <1>8, <1>9, GroupResults
<1>13. f \in 1 .. n /\ a \in 1 .. n /\ k \in 1 .. n /\ m \in 1 .. n /\ r < f /\ f <= m /\ k <= m
       /\ k > last
  BY <1>9, <1>10, <1>11
<1>14. NewestRoot(h) = r
  <2>1. r \in Roots(h) /\ \A x \in Roots(h) : x <= r
    BY DEF Open
  <2>2. Roots(h) \subseteq Nat
    BY <1>1
  <2> QED
    BY <2>1, <2>2, GreatestIs DEF NewestRoot
<1>15. ASSUME NEW b \in G, NEW i \in Results(h, b)
       PROVE  Before(Heads(h), i) = b /\ i \in 1 .. n /\ h[i].type = "outcome" /\ b < i
  <2>1. b \in 1 .. n /\ b \in Heads(h)
    BY <1>10
  <2>2. /\ Results(h, b) \subseteq 1 .. n
        /\ \A x \in 1 .. n : x \in Results(h, b) <=>
             x > b /\ h[x].type = "outcome" /\ \A y \in Heads(h) : ~(b < y /\ y < x)
    BY <2>1, ResultsMean
  <2>3. i \in 1 .. n /\ i \in Nat /\ h[i].type = "outcome" /\ b < i
        /\ \A y \in Heads(h) : ~(b < y /\ y < i)
    BY <1>1, <2>1, <2>2
  <2>4. Heads(h) \subseteq 1 .. n /\ \A y \in Heads(h) : y < i => y <= b
    BY <1>1, <2>1, <2>3
  <2>5. Before(Heads(h), i) = b
    BY <1>1, <2>1, <2>3, <2>4, BeforeIs
  <2> QED
    BY <2>3, <2>5
<1> DEFINE A == {x \in Of(h, {"assistant"}) : x \in f .. last}
           O == {i \in Of(h, {"outcome"}) : i \in f .. last}
<1>16. A \subseteq 1 .. n /\ O \subseteq 1 .. n /\ f \in A /\ A \subseteq G
  <2>1. \A x \in A : x \in 1 .. n /\ x > r /\ h[x].type = "assistant"
    BY <1>1, <1>10, <1>13
  <2>2. f \in 1 .. n /\ h[f].type = "assistant" /\ f \in f .. last
    BY <1>9, <1>10, <1>11, <1>13
  <2>3. A \subseteq G
    BY <1>10, <2>1
  <2>4. f \in A
    BY <1>1, <2>2
  <2> QED
    BY <1>1, <2>1, <2>3, <2>4
<1>17. ASSUME NEW i \in O PROVE h[i].type = "outcome" /\ Before(Heads(h), i) \in A
  <2>1. i \in 1 .. n /\ h[i].type = "outcome" /\ f <= i /\ i <= last /\ i \in 1 .. n + 1
    BY <1>1, <1>11, <1>13
  <2>2. PICK b : b = Before(Heads(h), i)
    OBVIOUS
  <2>3. f \in Heads(h) /\ f # i
    BY <1>9, <1>10, <2>1
  <2>4. f < i
    BY <1>13, <2>1, <2>3
  <2>5. b \in Heads(h) /\ b \in 1 .. n /\ b < i /\ f <= b
    BY <2>1, <2>2, <2>3, <2>4, HeadOf
  <2>6. b \in G
    BY <1>10, <1>13, <2>5
  <2>7. h[b].type = "assistant" /\ b \in f .. last
    BY <1>10, <1>11, <1>13, <2>1, <2>5, <2>6
  <2>8. b \in A
    BY <1>1, <2>5, <2>7
  <2> QED
    BY <2>1, <2>2, <2>8
<1>18. ASSUME NEW b \in A
       PROVE  /\ GroupComplete(h, b) /\ Results(h, b) \subseteq O
              /\ \A i \in Results(h, b) : Before(Heads(h), i) = b
  <2>1. b \in G /\ b \in Heads(h) /\ b \in 1 .. n /\ f <= b /\ b <= last
    BY <1>10, <1>13, <1>16
  <2>2. b <= a
    <3>1. ~(b > a)
      BY <1>11, <1>13, <2>1
    <3> QED
      BY <1>13, <2>1, <3>1
  <2>3. ASSUME NEW i \in Results(h, b) PROVE i \in O
    <3>1. i \in 1 .. n /\ h[i].type = "outcome" /\ b < i
      BY <1>15, <2>1
    <3>2. i <= last
      <4>1. CASE b = a
        BY <1>11, <4>1
      <4>2. CASE b < a
        <5>1. a \in Heads(h)
          BY <1>9, <1>10
        <5>2. Before(Heads(h), i) = b
          BY <1>15, <2>1
        <5>3. ~(a < i)
          <6>1. a < i => a <= b
            <7>1. i \in 1 .. n + 1
              BY <1>1, <3>1
            <7> QED
              BY <5>1, <5>2, <7>1, HeadOf
          <6> QED
            BY <1>13, <2>1, <4>2, <6>1
        <5> QED
          BY <1>11, <1>13, <3>1, <5>3
      <4> QED
        BY <1>13, <2>1, <2>2, <4>1, <4>2
    <3>3. i \in f .. last
      BY <1>11, <1>13, <2>1, <3>1, <3>2
    <3> QED
      BY <1>1, <3>1, <3>3
  <2>4. GroupComplete(h, b)
    BY <1>8, <2>1
  <2>5. \A i \in Results(h, b) : Before(Heads(h), i) = b
    BY <1>15, <2>1
  <2> QED
    BY <2>3, <2>4, <2>5
<1>19. Cardinality(CallsOf(h, A)) = Cardinality(O)
  <2>1. A \subseteq 1 .. n /\ O \subseteq 1 .. n
    BY <1>16
  <2>2. \A i \in O : h[i].type = "outcome" /\ Before(Heads(h), i) \in A
    BY <1>17
  <2>3. \A b \in A : /\ GroupComplete(h, b) /\ Results(h, b) \subseteq O
                     /\ \A i \in Results(h, b) : Before(Heads(h), i) = b
    BY <1>18
  <2>4. Owned(h, A, O)
    BY <2>2, <2>3 DEF Owned
  <2> HIDE DEF A, O
  <2> QED
    BY <2>1, <2>4, ResultsMatchCalls
<1>20. After(Of(h, {"assistant"}), last) = k
  <2>1. /\ Of(h, {"assistant"}) \subseteq 1 .. n /\ last \in Nat
        /\ k \in Of(h, {"assistant"}) /\ k > last
    BY <1>1, <1>9, <1>10, <1>11, <1>13
  <2>2. ASSUME NEW x \in Of(h, {"assistant"}), x > last PROVE k <= x
    <3>1. x \in 1 .. n /\ h[x].type = "assistant" /\ x > a /\ x > r
      <4>1. x \in 1 .. n /\ h[x].type = "assistant" /\ x > last
        BY <1>1, <2>2
      <4>2. x > a /\ a > r
        BY <1>9, <1>10, <1>11, <1>13, <4>1
      <4> QED
        BY <1>10, <1>13, <4>1, <4>2
    <3>2. x \in G
      BY <1>10, <3>1
    <3> QED
      BY <1>9, <3>1, <3>2
  <2> QED
    BY <1>1, <2>1, <2>2, AfterIsThe
<1>21. ASSUME NEW i \in last + 1 .. k - 1 PROVE h[i].type # "outcome"
  <2>1. SUFFICES ASSUME h[i].type = "outcome" PROVE FALSE
    OBVIOUS
  <2>2. i \in 1 .. n /\ i > last /\ i < k /\ i > a
    BY <1>1, <1>11, <1>13
  <2>3. ASSUME NEW y \in Heads(h), a < y, y < i PROVE FALSE
    <3>1. y \in 1 .. n /\ y > r
      BY <1>1, <1>9, <1>10, <1>13, <2>3
    <3>2. y \in G
      BY <1>10, <2>3, <3>1
    <3>3. k <= y
      BY <1>9, <2>3, <3>1, <3>2, <1>13
    <3> QED
      BY <1>13, <2>2, <2>3, <3>1, <3>3
  <2>4. i \in Results(h, a)
    BY <1>13, <2>1, <2>2, <2>3, ResultsMean
  <2> QED
    BY <1>11, <2>2, <2>4
<1>22. prior = 0 => f = After(Of(h, {"assistant"}), r)
  <2>1. SUFFICES ASSUME prior = 0 PROVE f = After(Of(h, {"assistant"}), r)
    OBVIOUS
  <2>2. f = Min(G)
    BY <1>8, <2>1
  <2>3. \A x \in G : f <= x
    BY <1>1, <1>9, <1>10, <2>2, MinMeans
  <2>4. /\ Of(h, {"assistant"}) \subseteq 1 .. n /\ r \in Nat /\ f \in Of(h, {"assistant"}) /\ f > r
    BY <1>1, <1>9, <1>10, <1>13
  <2>5. \A x \in Of(h, {"assistant"}) : x > r => f <= x
    BY <1>1, <1>10, <2>3
  <2> QED
    BY <1>1, <2>4, <2>5, AfterIsThe
<1>23. /\ e.turn = NewestRoot(h) /\ h[e.parent].type = "outcome" /\ e.parent > NewestRoot(h)
       /\ \/ e.parent = n
          \/ e.parent = n - 1 /\ h[n].type = "snapshot" /\ h[n].parent = e.parent
  <2>1. t > r
    BY <1>10, <1>12, <1>13
  <2> QED
    BY <1>8, <1>12, <1>14, <2>1
<1>24. IF prior = 0 THEN e.gen = 1 /\ e.prior = 0 /\ e.first = After(Of(h, {"assistant"}), r)
       ELSE e.gen = h[prior].gen + 1 /\ e.prior = prior /\ e.first = h[prior].retained
  BY <1>4, <1>8, <1>22
<1>25. /\ h[e.first].type = "assistant" /\ e.first > NewestRoot(h) /\ h[e.last].type = "outcome"
       /\ h[e.retained].type = "assistant" /\ e.retained < e.parent
  BY <1>4, <1>5, <1>8, <1>9, <1>10, <1>11, <1>12, <1>13, <1>14
<1>26. /\ After(Of(h, {"assistant"}), e.last) = e.retained
       /\ \A i \in e.last + 1 .. e.retained - 1 : h[i].type # "outcome"
  BY <1>5, <1>8, <1>20, <1>21
<1>27. A # {} /\ \A x \in A : h[x].calls > 0
  BY <1>10, <1>16
<1>28. /\ A = {x \in Of(h, {"assistant"}) : x \in e.first .. e.last}
       /\ O = {i \in Of(h, {"outcome"}) : i \in e.first .. e.last}
  BY <1>4, <1>8
<1>29. AdmitTurnCompaction(h, e) <=>
         /\ e.turn = NewestRoot(h) /\ h[e.parent].type = "outcome" /\ e.parent > NewestRoot(h)
         /\ \/ e.parent = n
            \/ e.parent = n - 1 /\ h[n].type = "snapshot" /\ h[n].parent = e.parent
         /\ IF prior = 0 THEN e.gen = 1 /\ e.prior = 0 /\ e.first = After(Of(h, {"assistant"}), r)
            ELSE e.gen = h[prior].gen + 1 /\ e.prior = prior /\ e.first = h[prior].retained
         /\ h[e.first].type = "assistant" /\ e.first > NewestRoot(h) /\ h[e.last].type = "outcome"
         /\ h[e.retained].type = "assistant" /\ e.retained < e.parent
         /\ After(Of(h, {"assistant"}), e.last) = e.retained
         /\ \A i \in e.last + 1 .. e.retained - 1 : h[i].type # "outcome"
         /\ A # {} /\ \A x \in A : h[x].calls > 0
         /\ Cardinality(CallsOf(h, A)) = Cardinality(O)
  <2> HIDE DEF A, O
  <2> QED
    BY <1>1, <1>3, <1>14, <1>28, Zenon DEF AdmitTurnCompaction, CallsOf
<1> HIDE DEF A, O
<1> QED
  BY <1>19, <1>23, <1>24, <1>25, <1>26, <1>27, <1>29, Zenon

LEMMA TurnPlanReads ==
  ASSUME NEW h, NEW n, IsHistory(h, n), Readable(h), NEW r, Open(h, n, r), NEW e, NEW t, NEW a,
         Planned(e, h, r, t, a), t = n \/ (t = n - 1 /\ h[n].type = "snapshot" /\ h[n].parent = t)
  PROVE  /\ {e.parent, e.last, e.retained, e.prior} \subseteq 0 .. n
         /\ \A g : Extended(h, g, e, n) => TurnCompactionAt(g, n + 1)
<1>1. n \in Nat /\ Len(h) = n /\ Roots(h) \subseteq 1 .. n
  BY HistoryIs
<1>2. PICK G : G = Groups(h, r)
  OBVIOUS
<1>3. PICK prior : prior = LatestTurnCompaction(h, r, n + 1)
  OBVIOUS
<1>4. PICK f : f = e.first
  OBVIOUS
<1>5. PICK k : k = e.retained
  OBVIOUS
<1>6. PICK m : m = Max(G)
  OBVIOUS
<1>7. PICK last : last = Greatest(Results(h, a))
  OBVIOUS
<1>8. /\ \A b \in G : GroupComplete(h, b)
      /\ e.parent = t /\ e.turn = r /\ e.last = last /\ e.prior = prior
      /\ f = IF prior = 0 THEN Min(G) ELSE h[prior].retained
      /\ e.gen = IF prior = 0 THEN 1 ELSE h[prior].gen + 1
      /\ e.type = "turn_compacted"
  BY <1>1, <1>2, <1>3, <1>4, <1>7, Zenon DEF Planned
<1>9. /\ a \in G /\ k \in G /\ a < k /\ \A x \in G : x > a => k <= x
      /\ m \in G /\ \A x \in G : x <= m
      /\ t = Greatest(Results(h, m)) /\ f \in G /\ f <= a
  BY <1>2, <1>4, <1>5, <1>6, PlanFacts
<1>10. /\ r \in 1 .. n /\ G \subseteq 1 .. n
       /\ \A x \in 1 .. n : x \in G <=> x > r /\ h[x].type = "assistant"
  BY <1>2, OpenGroups
<1>11. last \in Results(h, a) /\ last \in 1 .. n
  BY <1>2, <1>7, <1>8, <1>9, GroupResults
<1>12. t \in Results(h, m) /\ t \in 1 .. n /\ m < t /\ h[t].type = "outcome"
  BY <1>2, <1>8, <1>9, GroupResults
<1>13. f \in 1 .. n /\ a \in 1 .. n /\ k \in 1 .. n /\ m \in 1 .. n /\ r < f /\ f < k /\ k <= m
  BY <1>9, <1>10
<1>14. prior # 0 => prior \in 1 .. n
  <2>1. r \in Nat /\ n + 1 \in Nat
    BY <1>1, <1>10
  <2> QED
    BY <1>3, <2>1, LatestMeans
<1>15. {e.parent, e.last, e.retained, e.prior} \subseteq 0 .. n
  <2>1. t \in 0 .. n /\ last \in 0 .. n /\ k \in 0 .. n /\ prior \in 0 .. n
    BY <1>1, <1>11, <1>12, <1>13, <1>14
  <2> QED
    BY <1>5, <1>8, <2>1
<1>16. ASSUME NEW g, Extended(h, g, e, n) PROVE TurnCompactionAt(g, n + 1)
  <2>1. /\ n + 1 \in Nat /\ g[n + 1] = e /\ \A x \in 1 .. n : g[x] = h[x]
        /\ IsHistory(g, n + 1) /\ Grown(h, g, e, n)
    BY <1>16, ExtendedIs
  <2>2. Before(Roots(g), n + 1) = r
    <3>1. Before(Roots(h), n + 1) = r
      <4>1. r \in Roots(h) /\ \A x \in Roots(h) : x <= r
        BY DEF Open
      <4>2. r < n + 1 /\ n + 1 \in Nat
        BY <1>1, <1>10
      <4> QED
        BY <1>1, <4>1, <4>2, BeforeIs
    <3>2. n + 1 \in 1 .. n + 1
      BY <1>1
    <3> QED
      BY <2>1, <3>1, <3>2, GrownBefore
  <2>3. Groups(g, r) = G
    BY <1>2, <1>8, <1>10, <1>16, GrownGroups
  <2>4. \A b \in 1 .. n : /\ Results(g, b) = Results(h, b)
                          /\ GroupComplete(h, b) <=> GroupComplete(g, b)
    BY <1>8, <1>16, SameResults DEF SameGroup
  <2>5. Before(G, t) = m
    <3>1. t \in Nat /\ m < t /\ \A x \in G : x < t => x <= m
      BY <1>9, <1>12
    <3> QED
      BY <1>1, <1>9, <1>10, <3>1, BeforeIs
  <2>6. Before(G, k) = a
    <3>1. k \in Nat /\ a < k
      BY <1>9, <1>13
    <3>2. \A x \in G : x < k => x <= a
      BY <1>9, <1>10, <1>13
    <3> QED
      BY <1>1, <1>9, <1>10, <3>1, <3>2, BeforeIs
  <2>7. LatestTurnCompaction(g, r, n + 1) = prior
    <3>1. n + 1 \in 0 .. n + 1
      BY <1>1
    <3> QED
      BY <1>3, <1>16, <3>1, GrownLatest
  <2>8. prior # 0 => g[prior] = h[prior]
    BY <1>14, <2>1
  <2>9. \/ e.parent = (n + 1) - 1
        \/ /\ e.parent = (n + 1) - 2 /\ g[(n + 1) - 1].type = "snapshot"
           /\ g[(n + 1) - 1].parent = e.parent
    <3>1. (n + 1) - 1 = n /\ (n + 1) - 2 = n - 1
      BY <1>1
    <3>2. g[n] = h[n]
      <4>1. n \in 1 .. n
        BY <1>1, <1>12
      <4> QED
        BY <2>1, <4>1
    <3> QED
      BY <1>8, <3>1, <3>2
  <2>10. g[e.parent].type = "outcome"
    BY <1>8, <1>12, <2>1
  <2>11. e.last = Greatest(Results(g, Before(G, e.retained)))
    BY <1>5, <1>7, <1>8, <1>13, <2>4, <2>6
  <2>12. e.parent = Greatest(Results(g, Before(G, e.parent))) /\ Before(G, e.parent) >= e.retained
    <3>1. t = Greatest(Results(g, m))
      BY <1>9, <1>13, <2>4
    <3>2. m >= k
      BY <1>13
    <3> QED
      BY <1>5, <1>8, <2>5, <3>1, <3>2
  <2>13. \A b \in G : GroupComplete(g, b)
    BY <1>8, <1>10, <2>4
  <2>14. IF prior = 0 THEN e.gen = 1 /\ e.first = Min(G)
         ELSE e.gen = g[prior].gen + 1 /\ e.prior = prior /\ e.first = g[prior].retained
    BY <1>4, <1>8, <2>8
  <2>15. {e.first, e.retained} \subseteq G /\ e.first < e.retained /\ e.turn = r /\ r # 0
    BY <1>4, <1>5, <1>8, <1>9, <1>10, <1>13
  <2> QED
    BY <2>1, <2>2, <2>3, <2>7, <2>9, <2>10, <2>11, <2>12, <2>13, <2>14, <2>15, Zenon
       DEF TurnCompactionAt
<1> QED
  BY <1>15, <1>16

-----------------------------------------------------------------------------
(* A snapshot of the request.                                              *)

(* What a request is made of: the events t and n are the newest trigger    *)
(* and event, and at most a compaction and a rejected request lie between. *)
Composed(h, n, t) ==
  \/ t = n
  \/ /\ t = n - 1 \/ (t = n - 2 /\ h[n - 1].type = "snapshot" /\ h[n - 1].parent = t)
     /\ \/ h[n].type = "compacted" /\ h[n].auto
        \/ h[n].type = "turn_compacted" /\ h[n].parent = t

IsSnapshot(e, h, n, r, t) ==
  /\ e.type = "snapshot" /\ e.parent = t /\ e.retained = Start(h) /\ e.calls = 0
  /\ e.active = Greatest(Of(h, {"compacted"})) /\ e.activeTurn = LatestTurnCompaction(h, r, n + 1)
  /\ e.last = 0 /\ e.prior = 0

LEMMA SnapshotFits ==
  ASSUME NEW h, NEW n, IsHistory(h, n), NEW r, Open(h, n, r), Start(h) \in Roots(h),
         NEW t \in r .. n, t = r \/ h[t].type = "outcome", Composed(h, n, t), NEW e,
         IsSnapshot(e, h, n, r, t)
  PROVE  /\ AdmitSnapshot(h, e)
         /\ {e.parent, e.last, e.retained, e.prior} \subseteq 0 .. n
         /\ \A g : Extended(h, g, e, n) => SnapshotAt(g, n + 1)
<1>1. /\ n \in Nat /\ Len(h) = n /\ Roots(h) \subseteq 1 .. n
      /\ Roots(h) = {i \in 1 .. n : h[i].type = "user"}
  BY HistoryIs
<1>2. /\ r \in 1 .. n /\ r \in Nat /\ t \in 1 .. n /\ n \in 1 .. n /\ h[r].type = "user"
      /\ h[t].type \in {"user", "outcome"} /\ r \in Roots(h) /\ \A x \in Roots(h) : x <= r
  BY <1>1 DEF Open
<1>3. PICK s : s = Start(h)
  OBVIOUS
<1>4. PICK c : c = Greatest(Of(h, {"compacted"}))
  OBVIOUS
<1>5. PICK l : l = LatestTurnCompaction(h, r, n + 1)
  OBVIOUS
<1>6. /\ e.type = "snapshot" /\ e.parent = t /\ e.retained = s /\ e.active = c
      /\ e.activeTurn = l /\ e.last = 0 /\ e.prior = 0
  BY <1>3, <1>4, <1>5 DEF IsSnapshot
<1>7. s \in Roots(h) /\ s \in 1 .. n /\ s <= t
  BY <1>1, <1>2, <1>3
<1>8. h[n].type = "compacted" => c = n /\ s = h[n].retained
  <2>1. SUFFICES ASSUME h[n].type = "compacted" PROVE c = n /\ s = h[n].retained
    OBVIOUS
  <2>2. /\ c # 0 => c \in 1 .. n
        /\ s = IF c = 0 THEN Min(Roots(h)) ELSE h[c].retained
        /\ \A x \in 1 .. n : h[x].type = "compacted" => x <= c
    BY <1>3, <1>4, SummaryMeans
  <2>3. n <= c
    BY <1>2, <2>1, <2>2
  <2>4. c = n /\ c # 0
    BY <1>2, <2>2, <2>3
  <2> QED
    BY <2>2, <2>4
<1>9. h[n].type = "turn_compacted" /\ n # r => l = n
  <2>1. SUFFICES ASSUME h[n].type = "turn_compacted" PROVE l = n
    BY <1>2
  <2>2. Of(h, {"turn_compacted"}) = {i \in 1 .. n : h[i].type = "turn_compacted"}
    BY HistoryIs
  <2>3. n # r /\ n > r
    BY <1>2, <2>1
  <2> DEFINE S == {x \in Of(h, {"turn_compacted"}) : x > r /\ x < n + 1}
  <2>4. n \in S /\ S \subseteq Nat /\ \A x \in S : x <= n
    BY <1>1, <1>2, <2>1, <2>2, <2>3
  <2>5. l = Greatest(S)
    BY <1>5 DEF LatestTurnCompaction
  <2> HIDE DEF S
  <2> QED
    BY <2>4, <2>5, GreatestIs
<1>10. NewestRoot(h) = r
  <2>1. Roots(h) \subseteq Nat
    BY <1>1
  <2>2. r \in Roots(h) /\ \A x \in Roots(h) : x <= r
    BY <1>2
  <2> QED
    BY <2>1, <2>2, GreatestIs DEF NewestRoot
<1>11. h[n].type = "compacted" \/ h[n].type = "turn_compacted" => n # r
  BY <1>2
<1>12. AdmitSnapshot(h, e)
  <2>1. \/ t = n
        \/ /\ t = n - 1 \/ (t = n - 2 /\ h[n - 1].type = "snapshot" /\ h[n - 1].parent = t)
           /\ \/ h[n].type = "compacted" /\ c = n /\ h[n].auto /\ s = h[n].retained
              \/ h[n].type = "turn_compacted" /\ l = n /\ h[n].parent = t
    BY <1>8, <1>9, <1>11 DEF Composed
  <2>2. AdmitSnapshot(h, e) <=>
          /\ h[e.parent].type \in {"user", "outcome"}
          /\ \/ e.parent = n
             \/ /\ \/ e.parent = n - 1
                   \/ e.parent = n - 2 /\ h[n - 1].type = "snapshot" /\ h[n - 1].parent = e.parent
                /\ \/ h[n].type = "compacted" /\ e.active = n /\ h[n].auto
                      /\ e.retained = h[n].retained
                   \/ h[n].type = "turn_compacted" /\ e.activeTurn = n /\ h[n].parent = e.parent
          /\ e.activeTurn = LatestTurnCompaction(h, NewestRoot(h), n + 1)
          /\ e.retained \in Roots(h) /\ e.retained <= e.parent
    BY <1>1, Zenon DEF AdmitSnapshot
  <2> QED
    BY <1>2, <1>5, <1>6, <1>7, <1>10, <2>1, <2>2
<1>13. {e.parent, e.last, e.retained, e.prior} \subseteq 0 .. n
  <2>1. t \in 0 .. n /\ s \in 0 .. n /\ 0 \in 0 .. n
    BY <1>1, <1>2, <1>7
  <2> QED
    BY <1>6, <2>1
<1>14. ASSUME NEW g, Extended(h, g, e, n) PROVE SnapshotAt(g, n + 1)
  <2>1. /\ n + 1 \in Nat /\ g[n + 1] = e /\ \A x \in 1 .. n : g[x] = h[x]
        /\ IsHistory(g, n + 1) /\ Grown(h, g, e, n) /\ n + 1 \in 1 .. n + 1
    BY <1>14, ExtendedIs
  <2>2. Before(Roots(g), n + 1) = r
    <3>1. r < n + 1 /\ n + 1 \in Nat
      BY <1>1, <1>2
    <3>2. Before(Roots(h), n + 1) = r
      BY <1>1, <1>2, <3>1, BeforeIs
    <3> QED
      BY <2>1, <3>2, GrownBefore
  <2>3. Roots(g) = Roots(h)
    BY <1>6, <2>1, GrownRoots
  <2>4. LatestTurnCompaction(g, r, n + 1) = l
    <3>1. n + 1 \in 0 .. n + 1
      BY <2>1
    <3> QED
      BY <1>5, <1>14, <3>1, GrownLatest
  <2>5. /\ (n + 1) - 1 = n /\ (n + 1) - 2 = n - 1 /\ (n + 1) - 3 = n - 2
        /\ g[n] = h[n] /\ g[t] = h[t]
    BY <1>1, <1>2, <2>1
  <2>6. t = n - 2 => g[n - 1] = h[n - 1]
    <3>1. t = n - 2 => n - 1 \in 1 .. n
      BY <1>1, <1>2
    <3> QED
      BY <2>1, <3>1
  <2>7. \/ t = n
        \/ /\ t = n - 1 \/ (t = n - 2 /\ g[n - 1].type = "snapshot" /\ g[n - 1].parent = t)
           /\ \/ g[n].type = "compacted" /\ g[n].auto /\ c = n /\ s = g[n].retained
              \/ g[n].type = "turn_compacted" /\ g[n].parent = t
    BY <1>8, <2>5, <2>6 DEF Composed
  <2>8. \/ e.parent = (n + 1) - 1
        \/ /\ \/ e.parent = (n + 1) - 2
              \/ /\ e.parent = (n + 1) - 3 /\ g[(n + 1) - 2].type = "snapshot"
                 /\ g[(n + 1) - 2].parent = e.parent
           /\ \/ /\ g[(n + 1) - 1].type = "compacted" /\ g[(n + 1) - 1].auto
                 /\ e.active = (n + 1) - 1 /\ e.retained = g[(n + 1) - 1].retained
              \/ g[(n + 1) - 1].type = "turn_compacted" /\ g[(n + 1) - 1].parent = e.parent
    BY <1>6, <2>5, <2>7
  <2>9. /\ e.activeTurn = LatestTurnCompaction(g, r, n + 1)
        /\ g[e.parent].type \in {"user", "outcome"}
        /\ e.retained \in Roots(g) /\ e.retained <= e.parent
    BY <1>2, <1>6, <1>7, <2>3, <2>4, <2>5
  <2> QED
    BY <2>1, <2>2, <2>8, <2>9, Zenon DEF SnapshotAt
<1> QED
  BY <1>12, <1>13, <1>14

-----------------------------------------------------------------------------
(* An event's ancestors.                                                   *)

(* Induction up to a bound, for what can be said with a set.               *)
LEMMA UpTo ==
  ASSUME NEW n \in Nat, NEW G,
         \A k \in 0 .. n : (\A j \in 0 .. n : j < k => j \in G) => k \in G
  PROVE  \A k \in 0 .. n : k \in G
<1> SUFFICES ASSUME NEW c \in 0 .. n, c \notin G PROVE FALSE
  OBVIOUS
<1> DEFINE B == {k \in 0 .. n : k \notin G}
<1>1. B \subseteq Nat /\ B # {}
  OBVIOUS
<1>2. \A k \in B : k \in 0 .. n /\ k \notin G
  OBVIOUS
<1>3. \A k \in 0 .. n : k \in B \/ k \in G
  OBVIOUS
<1> HIDE DEF B
<1>4. PICK m \in B : \A k \in B : m <= k
  BY <1>1, LeastNat
<1>5. m \in 0 .. n /\ m \notin G
  BY <1>2
<1>6. ASSUME NEW j \in 0 .. n, j < m PROVE j \in G
  <2>1. ~(m <= j)
    BY <1>5, <1>6
  <2> QED
    BY <1>3, <1>4, <2>1
<1> QED
  BY <1>5, <1>6

LEMMA LineageIs ==
  ASSUME NEW h, NEW n, IsHistory(h, n)
  PROVE  /\ Lineage(h)[0] = {}
         /\ \A i \in 1 .. n : Lineage(h)[i] = {i} \cup Lineage(h)[h[i].parent]
<1>1. n \in Nat /\ Len(h) = n /\ n \in 0 .. n /\ 0 \in 0 .. n
  BY HistoryIs
<1>2. \A i \in 1 .. n : h[i].parent \in 0 .. i - 1
  BY DEF IsHistory
<1> DEFINE Is(f, k) == f = [i \in 0 .. k |-> IF i = 0 THEN {} ELSE {i} \cup f[h[i].parent]]
           G == {k \in 0 .. n : \E f : Is(f, k)}
<1>3. ASSUME NEW k \in 0 .. n, \A j \in 0 .. n : j < k => j \in G
      PROVE  k \in G
  <2>1. CASE k = 0
    <3> DEFINE f == [i \in 0 .. 0 |-> {}]
               g == [i \in 0 .. 0 |-> IF i = 0 THEN {} ELSE {i} \cup f[h[i].parent]]
    <3>1. \A i \in 0 .. 0 : i = 0
      OBVIOUS
    <3>2. f = g
      BY <3>1
    <3>3. Is(f, 0)
      BY <3>2
    <3> HIDE DEF f, g, Is
    <3> QED
      BY <2>1, <3>3
  <2>2. CASE k # 0
    <3>1. k - 1 \in 0 .. n /\ k - 1 < k /\ k \in Nat
      BY <1>1, <2>2
    <3>2. PICK f : Is(f, k - 1)
      BY <1>3, <3>1
    <3> DEFINE g == [i \in 0 .. k |-> IF i = 0 THEN {} ELSE {i} \cup f[h[i].parent]]
    <3>3. ASSUME NEW i \in 0 .. k - 1 PROVE g[i] = f[i]
      <4>1. i \in 0 .. k
        BY <3>1
      <4>2. f[i] = IF i = 0 THEN {} ELSE {i} \cup f[h[i].parent]
        BY <3>2
      <4> QED
        BY <4>1, <4>2
    <3>4. ASSUME NEW i \in 0 .. k, i # 0 PROVE h[i].parent \in 0 .. k - 1
      <4>1. i \in 1 .. n /\ i <= k /\ i \in Nat
        BY <1>1, <3>1, <3>4
      <4>2. h[i].parent \in 0 .. i - 1
        BY <1>2, <4>1
      <4> QED
        BY <3>1, <4>1, <4>2
    <3>5. \A i \in 0 .. k : i # 0 => g[h[i].parent] = f[h[i].parent]
      <4> HIDE DEF g
      <4> QED
        BY <3>3, <3>4
    <3>6. Is(g, k)
      <4> DEFINE u == [i \in 0 .. k |-> IF i = 0 THEN {} ELSE {i} \cup g[h[i].parent]]
      <4>1. \A i \in 0 .. k : (IF i = 0 THEN {} ELSE {i} \cup f[h[i].parent])
                               = (IF i = 0 THEN {} ELSE {i} \cup g[h[i].parent])
        <5> HIDE DEF g
        <5> QED
          BY <3>5
      <4>2. \A i \in 0 .. k : g[i] = u[i]
        BY <4>1
      <4>3. DOMAIN g = 0 .. k /\ DOMAIN u = 0 .. k
        OBVIOUS
      <4>4. g = [i \in DOMAIN g |-> g[i]] /\ u = [i \in DOMAIN u |-> u[i]]
        OBVIOUS
      <4>5. g = u
        <5> HIDE DEF g, u
        <5> QED
          BY <4>2, <4>3, <4>4
      <4> HIDE DEF g
      <4> QED
        BY <4>5
    <3> HIDE DEF g, Is
    <3> QED
      BY <3>6
  <2> QED
    BY <2>1, <2>2
<1> HIDE DEF G
<1>4. n \in G
  BY <1>1, <1>3, UpTo
<1>5. \E f : Is(f, n)
  BY <1>4 DEF G
<1>6. Lineage(h) = CHOOSE f : Is(f, n)
  BY <1>1 DEF Lineage
<1>7. Is(Lineage(h), n)
  <2> HIDE DEF Is
  <2> QED
    BY <1>5, <1>6
<1>8. \A i \in 0 .. n : Lineage(h)[i] = IF i = 0 THEN {} ELSE {i} \cup Lineage(h)[h[i].parent]
  <2>1. PICK f : f = Lineage(h)
    OBVIOUS
  <2>2. f = [i \in 0 .. n |-> IF i = 0 THEN {} ELSE {i} \cup f[h[i].parent]]
    BY <1>7, <2>1
  <2>3. \A i \in 0 .. n : f[i] = IF i = 0 THEN {} ELSE {i} \cup f[h[i].parent]
    BY <2>2
  <2> QED
    BY <2>1, <2>3
<1>9. \A i \in 1 .. n : i \in 0 .. n /\ i # 0
  BY <1>1
<1> QED
  BY <1>1, <1>8, <1>9

LEMMA LineageGrows ==
  ASSUME NEW h, NEW g, NEW e, NEW n, Extended(h, g, e, n)
  PROVE  /\ \A i \in 0 .. n : Lineage(g)[i] = Lineage(h)[i]
         /\ e.parent \in 0 .. n
         /\ Lineage(g)[n + 1] = {n + 1} \cup Lineage(h)[e.parent]
<1>1. /\ n \in Nat /\ n + 1 \in 1 .. n + 1 /\ g[n + 1] = e /\ \A i \in 1 .. n : g[i] = h[i]
      /\ IsHistory(h, n) /\ IsHistory(g, n + 1) /\ \A i \in 1 .. n : i \in 1 .. n + 1
  BY ExtendedIs
<1>2. PICK F : F = Lineage(h)
  OBVIOUS
<1>3. PICK K : K = Lineage(g)
  OBVIOUS
<1>4. F[0] = {} /\ \A i \in 1 .. n : F[i] = {i} \cup F[h[i].parent]
  BY <1>1, <1>2, LineageIs
<1>5. K[0] = {} /\ \A i \in 1 .. n + 1 : K[i] = {i} \cup K[g[i].parent]
  BY <1>1, <1>3, LineageIs
<1>6. \A i \in 1 .. n : h[i].parent \in 0 .. n /\ h[i].parent < i
  <2>1. ASSUME NEW i \in 1 .. n PROVE h[i].parent \in 0 .. n /\ h[i].parent < i
    <3>1. h[i].parent \in 0 .. i - 1
      BY <1>1 DEF IsHistory
    <3> QED
      BY <1>1, <3>1
  <2> QED
    BY <2>1
<1> DEFINE G == {i \in 0 .. n : K[i] = F[i]}
<1>7. ASSUME NEW k \in 0 .. n, \A j \in 0 .. n : j < k => j \in G PROVE k \in G
  <2>1. CASE k = 0
    BY <1>4, <1>5, <2>1
  <2>2. CASE k \in 1 .. n
    <3>1. h[k].parent \in G
      BY <1>6, <1>7, <2>2
    <3>2. K[k] = {k} \cup K[h[k].parent]
      BY <1>1, <1>5, <2>2
    <3> QED
      BY <1>4, <2>2, <3>1, <3>2
  <2>3. k = 0 \/ k \in 1 .. n
    BY <1>1
  <2> QED
    BY <2>1, <2>2, <2>3
<1>8. \A i \in 0 .. n : i \in G
  <2> HIDE DEF G
  <2> QED
    BY <1>1, <1>7, UpTo
<1>9. e.parent \in 0 .. n
  <2>1. g[n + 1].parent \in 0 .. (n + 1) - 1
    BY <1>1 DEF IsHistory
  <2> QED
    BY <1>1, <2>1
<1>10. K[n + 1] = {n + 1} \cup F[e.parent]
  BY <1>1, <1>5, <1>8, <1>9
<1> QED
  BY <1>2, <1>3, <1>8, <1>9, <1>10

-----------------------------------------------------------------------------
(* What the lease's holder is at.                                          *)

NewestAnswer(h) == Greatest(Of(h, {"assistant"}))
SnapshotOf(h, i, t) == h[i].type = "snapshot" /\ h[i].parent = t

(* The newest thing to answer is the turn's message or a tool's result,    *)
(* and the turn can be followed back from it.                              *)
UnderWay(h, n, w) ==
  /\ w.trigger \in w.root .. n
  /\ w.trigger = w.root \/ h[w.trigger].type = "outcome"
  /\ w.root \in Lineage(h)[w.trigger]

(* Nothing, or one rejected request, came after it.                        *)
Composing(h, n, w) ==
  IF w.retry = "now" THEN w.trigger = n - 1 /\ SnapshotOf(h, n, w.trigger) ELSE w.trigger = n

CallingTools(h, w) ==
  LET a == NewestAnswer(h)
  IN /\ a > w.root /\ h[a].parent = w.trigger /\ w.retry # "now"
     /\ w.left \in 1 .. h[a].calls
     /\ {h[i].call : i \in Results(h, a)} = 1 .. h[a].calls - w.left

AtWork(h, n, w) ==
  /\ w.pc = "user" => w.retry = "unused"
  /\ w.pc \in Turning => UnderWay(h, n, w)
  /\ w.pc \in {"compose", "compactor"} => Composing(h, n, w)
  /\ w.pc = "compactor" => w.plan \in WholePlans(h, w.root) \cup TurnPlans(h, w.root, w.trigger)
  /\ w.pc = "snapshot" => Composed(h, n, w.trigger) /\ (w.trigger = n \/ w.compacted)
  /\ w.pc = "provider" => SnapshotOf(h, n, w.trigger) /\ (w.trigger = n - 1 \/ w.compacted)
  /\ w.pc = "tools" => CallingTools(h, w)
  /\ w.pc = "summarized" => w.plan \in ManualPlans(h)

(* The inductive invariant, beside IInv: whoever holds the lease is where  *)
(* the history says.                                                       *)
HInv ==
  /\ IsHistory(log, Len(log)) /\ Readable(log) /\ ~refused
  /\ lease.live => lease.holder # None
  /\ \A q \in Processes : Fenced(q) => AtWork(log, Len(log), p[q])

(* The event w can be read back, and leaves its writer with work r.        *)
Fitting(h, n, w, r) ==
  /\ w.type \in Types /\ w.calls \in Nat
  /\ {w.parent, w.last, w.retained, w.prior} \subseteq 0 .. n /\ NewResult(h, w)
  /\ \A g : Extended(h, g, w, n) =>
       /\ w.type = "turn_compacted" => TurnCompactionAt(g, n + 1)
       /\ w.type = "snapshot" => SnapshotAt(g, n + 1)
       /\ w.type = "compacted" => ChainAt(g, n + 1)
       /\ AtWork(g, n + 1, r)

(* The event e, whoever signs it.                                          *)
Copied(w, e) ==
  /\ w.type = e.type /\ w.parent = e.parent /\ w.calls = e.calls /\ w.call = e.call
  /\ w.turn = e.turn /\ w.first = e.first /\ w.last = e.last /\ w.retained = e.retained
  /\ w.gen = e.gen /\ w.prior = e.prior /\ w.auto = e.auto /\ w.active = e.active
  /\ w.activeTurn = e.activeTurn

LEMMA HolderIs ==
  ASSUME IInv, HInv, NEW q \in Processes
  PROVE  \E n \in Nat :
           /\ n = Len(log) /\ IsHistory(log, n) /\ Readable(log)
           /\ n # 0 => Start(log) \in Roots(log)
           /\ Fenced(q) => AtWork(log, n, p[q])
           /\ Fenced(q) /\ p[q].pc \in Turning => Open(log, n, p[q].root)
<1>1. PICK n \in Nat : n = Len(log) /\ DOMAIN log = 1 .. n /\ (n # 0 => Start(log) \in Roots(log))
  BY Known
<1>2. Fenced(q) /\ p[q].pc \in Turning => Open(log, n, p[q].root)
  BY <1>1, Shapes DEF InTurn, Open
<1> QED
  BY <1>1, <1>2 DEF HInv

(* Work without a claim on the history.                                    *)
LEMMA Apart ==
  ASSUME NEW h, NEW n, NEW w, w.pc \in {"idle", "release", "manual"}
  PROVE  AtWork(h, n, w)
BY DEF AtWork, Turning

LEMMA Goes ==
  ASSUME IInv, HInv, NEW q \in Processes, NEW r, UNCHANGED <<log, lease, refused>>,
         p' = [p EXCEPT ![q] = r],
         AtWork(log, Len(log), r) \/ (r.token = p[q].token /\ ~Fenced(q))
  PROVE  HInv'
<1>1. \A o \in Processes : p'[o] = IF o = q THEN r ELSE p[o]
  BY DEF IInv, LeaseOK
<1>2. ASSUME NEW o \in Processes, Fenced(o)' PROVE AtWork(log, Len(log), p'[o])
  <2>1. CASE o = q
    <3>1. p'[o] = r
      BY <1>1, <2>1
    <3>2. r.token = p[q].token => Fenced(q)
      BY <1>2, <2>1, <3>1 DEF Fenced
    <3> QED
      BY <3>1, <3>2
  <2>2. CASE o # q
    <3>1. p'[o] = p[o]
      BY <1>1, <2>2
    <3>2. Fenced(o)
      BY <1>2, <3>1 DEF Fenced
    <3> QED
      BY <3>1, <3>2 DEF HInv
  <2> QED
    BY <2>1, <2>2
<1>3. log' = log /\ lease' = lease /\ refused' = refused
  OBVIOUS
<1>4. \A o \in Processes : Fenced(o)' => AtWork(log', Len(log'), p'[o])
  BY <1>2, <1>3
<1> QED
  BY <1>3, <1>4 DEF HInv

LEMMA Leaves ==
  ASSUME IInv, HInv, NEW q \in Processes, UNCHANGED <<log, lease, refused>>, Goto(q, "release")
  PROVE  HInv'
<1>1. ProcessShaped(p[q]) /\ p = [o \in Processes |-> p[o]]
  BY Shapes
<1>2. PICK s : s = [p[q] EXCEPT !.pc = "release"]
  OBVIOUS
<1>3. p' = [p EXCEPT ![q] = s]
  BY <1>1, <1>2 DEF Goto
<1>4. s.pc = "release"
  BY <1>1, <1>2 DEF ProcessShaped, ProcessFields
<1>5. AtWork(log, Len(log), s)
  BY <1>4, Apart
<1> QED
  BY <1>3, <1>5, Goes

(* An event that fits what is there is admitted and can be read back.      *)
LEMMA Written ==
  ASSUME IInv, IInv', HInv, NEW q \in Processes, NEW e, NEW r, AppendEvent(q, e, r),
         UNCHANGED lease, EventShaped(e),
         Fenced(q) => Admitted(log, e) /\ \A w : Copied(w, e) => Fitting(log, Len(log), w, r)
  PROVE  HInv'
<1>1. PICK n \in Nat : n = Len(log) /\ IsHistory(log, n) /\ Readable(log)
  BY HolderIs
<1>2. CASE ~Fenced(q)
  <2>1. Goto(q, "release") /\ UNCHANGED <<log, lease, refused>>
    BY <1>2 DEF AppendEvent
  <2> QED
    BY <2>1, Leaves
<1>3. CASE Fenced(q)
  <2>1. PICK w : w = [e EXCEPT !.by = p[q].token]
    OBVIOUS
  <2>2. log' = Append(log, w) /\ p' = [p EXCEPT ![q] = r] /\ refused' = refused
    BY <1>3, <2>1 DEF AppendEvent
  <2>3. Copied(w, e)
    BY <2>1 DEF Copied, EventShaped, EventFields
  <2>4. Fitting(log, n, w, r)
    BY <1>1, <1>3, <2>3
  <2>5. Grown(log, log', w, n) /\ Len(log') = n + 1
    <3>1. PICK S : log \in Seq(S)
      BY DEF IInv, LogOK
    <3>2. log \in Seq(S \cup {w}) /\ w \in S \cup {w}
      BY <3>1
    <3>3. Len(Append(log, w)) = n + 1
      BY <1>1, <3>2
    <3> QED
      BY <1>1, <2>2, <3>1, <3>3, AppendGrows
  <2>6. IsHistory(log', n + 1)
    <3>1. DOMAIN log' = 1 .. n + 1 /\ log'[n + 1] = w /\ \A i \in 1 .. n : log'[i] = log[i]
      BY <2>5 DEF Grown
    <3>2. log'[1].type = "user"
      <4>1. log' # <<>>
        BY <3>1
      <4> QED
        BY <4>1 DEF IInv, LogOK
    <3>3. ASSUME NEW i \in 1 .. n + 1
          PROVE  /\ log'[i].type \in Types /\ log'[i].calls \in Nat
                 /\ {log'[i].parent, log'[i].last, log'[i].retained, log'[i].prior}
                      \subseteq 0 .. i - 1
      <4>1. CASE i = n + 1
        <5>1. 0 .. i - 1 = 0 .. n
          BY <4>1
        <5> QED
          BY <2>4, <3>1, <4>1, <5>1 DEF Fitting
      <4>2. CASE i \in 1 .. n
        BY <1>1, <3>1, <4>2 DEF IsHistory
      <4> QED
        BY <4>1, <4>2
    <3> QED
      BY <2>5, <3>1, <3>2, <3>3 DEF IsHistory
  <2>7. Extended(log, log', w, n)
    BY <1>1, <2>5, <2>6 DEF Extended
  <2>8. /\ w.type = "turn_compacted" => TurnCompactionAt(log', n + 1)
        /\ w.type = "snapshot" => SnapshotAt(log', n + 1)
        /\ w.type = "compacted" => ChainAt(log', n + 1)
        /\ AtWork(log', n + 1, r) /\ NewResult(log, w)
    BY <2>4, <2>7 DEF Fitting
  <2>9. Readable(log')
    BY <1>1, <2>7, <2>8, ReadableGrows
  <2>10. ASSUME NEW o \in Processes, Fenced(o)' PROVE AtWork(log', Len(log'), p'[o])
    <3>1. o = q
      BY <1>3, <2>10 DEF Fenced
    <3>2. p'[q] = r
      BY <2>2 DEF IInv, LeaseOK
    <3> QED
      BY <2>5, <2>8, <3>1, <3>2
  <2>11. lease' = lease /\ ~refused'
    BY <2>2 DEF HInv
  <2> QED
    BY <2>5, <2>6, <2>9, <2>10, <2>11 DEF HInv
<1> QED
  BY <1>2, <1>3

(* A turn goes on.                                                         *)
LEMMA GoesOn ==
  ASSUME NEW h, NEW g, NEW e, NEW n, Extended(h, g, e, n), NEW w, w.root \in 1 .. n,
         UnderWay(h, n, w), NEW r, r.root = w.root, r.trigger = w.trigger
  PROVE  UnderWay(g, n + 1, r) /\ w.trigger \in 1 .. n /\ g[w.trigger] = h[w.trigger]
<1>1. n \in Nat /\ \A i \in 1 .. n : g[i] = h[i]
  BY ExtendedIs
<1>2. w.trigger \in 1 .. n /\ w.trigger \in w.root .. n + 1 /\ w.trigger \in 0 .. n
  BY <1>1 DEF UnderWay
<1>3. Lineage(g)[w.trigger] = Lineage(h)[w.trigger]
  BY <1>2, LineageGrows
<1>4. g[w.trigger] = h[w.trigger]
  BY <1>1, <1>2
<1> QED
  BY <1>2, <1>3, <1>4 DEF UnderWay

-----------------------------------------------------------------------------
(* One lemma for each action.                                              *)

LEMMA UserAgrees ==
  ASSUME IInv, IInv', HInv, NEW q \in Processes, AppendUser(q)
  PROVE  HInv'
<1>1. PICK n \in Nat : n = Len(log) /\ IsHistory(log, n) /\ (Fenced(q) => AtWork(log, n, p[q]))
  BY HolderIs
<1>2. PICK r : r = [p[q] EXCEPT !.pc = "compose", !.root = Id, !.trigger = Id]
  OBVIOUS
<1>3. /\ r.pc = "compose" /\ r.root = n + 1 /\ r.trigger = n + 1 /\ r.retry = p[q].retry
  <2>1. ProcessShaped(p[q])
    BY Shapes
  <2> QED
    BY <1>1, <1>2, <2>1 DEF ProcessShaped, ProcessFields, Id
<1>4. PICK e : e = Event
  OBVIOUS
<1>5. AppendEvent(q, e, r) /\ UNCHANGED lease /\ p[q].pc = "user"
  BY <1>2, <1>4 DEF AppendUser
<1>6. /\ EventShaped(e) /\ e.type = "user" /\ e.calls = 0 /\ e.parent = 0 /\ e.last = 0
      /\ e.retained = 0 /\ e.prior = 0
  BY <1>4, EventIs DEF Event
<1>7. Admitted(log, e)
  BY <1>6 DEF Admitted
<1>8. ASSUME Fenced(q), NEW w, Copied(w, e) PROVE Fitting(log, n, w, r)
  <2>1. /\ w.type = "user" /\ w.calls = 0 /\ w.parent = 0 /\ w.last = 0 /\ w.retained = 0
        /\ w.prior = 0
    BY <1>6, <1>8 DEF Copied
  <2>2. ASSUME NEW g, Extended(log, g, w, n) PROVE AtWork(g, n + 1, r)
    <3>1. Lineage(g)[n + 1] = {n + 1} \cup Lineage(log)[w.parent]
      BY <2>2, LineageGrows
    <3>2. UnderWay(g, n + 1, r)
      <4>1. n + 1 \in n + 1 .. n + 1 /\ n + 1 \in Lineage(g)[n + 1]
        BY <3>1
      <4> QED
        BY <1>3, <4>1 DEF UnderWay
    <3>3. Composing(g, n + 1, r)
      <4>1. r.retry = "unused"
        BY <1>1, <1>3, <1>5, <1>8 DEF AtWork
      <4> QED
        BY <1>3, <4>1 DEF Composing
    <3> QED
      BY <1>3, <3>2, <3>3 DEF AtWork
  <2>3. {w.parent, w.last, w.retained, w.prior} \subseteq 0 .. n
    BY <2>1
  <2> QED
    BY <2>1, <2>2, <2>3 DEF Fitting, Types, NewResult
<1> QED
  BY <1>1, <1>5, <1>6, <1>7, <1>8, Written

LEMMA ComposeAgrees ==
  ASSUME IInv, HInv, NEW q \in Processes, Compose(q)
  PROVE  HInv'
<1>1. PICK n \in Nat : n = Len(log) /\ Readable(log) /\ (Fenced(q) => AtWork(log, n, p[q]))
  BY HolderIs
<1>2. p[q].pc = "compose" /\ UNCHANGED <<log, lease, refused>>
  BY DEF Compose
<1>3. ProcessShaped(p[q]) /\ p = [o \in Processes |-> p[o]]
  BY Shapes
<1>4. Fenced(q) => UnderWay(log, n, p[q]) /\ Composing(log, n, p[q])
  BY <1>1, <1>2 DEF AtWork, Turning
<1>5. ASSUME NEW pc, Goto(q, pc), pc = "terminal" \/ (pc = "snapshot" /\ p[q].retry # "now")
      PROVE  HInv'
  <2>1. PICK s : s = [p[q] EXCEPT !.pc = pc]
    OBVIOUS
  <2>2. p' = [p EXCEPT ![q] = s]
    BY <1>3, <1>5, <2>1 DEF Goto
  <2>3. s.pc = pc /\ s.root = p[q].root /\ s.trigger = p[q].trigger /\ s.token = p[q].token
    BY <1>3, <2>1 DEF ProcessShaped, ProcessFields
  <2>4. Fenced(q) => AtWork(log, n, s)
    <3>1. SUFFICES ASSUME Fenced(q) PROVE AtWork(log, n, s)
      OBVIOUS
    <3>2. UnderWay(log, n, s)
      BY <1>4, <2>3, <3>1 DEF UnderWay
    <3>3. pc = "snapshot" => s.trigger = n
      BY <1>4, <1>5, <2>3, <3>1 DEF Composing
    <3>4. s.pc = "snapshot" => Composed(log, n, s.trigger) /\ (s.trigger = n \/ s.compacted)
      BY <2>3, <3>3 DEF Composed
    <3> QED
      BY <1>5, <2>3, <3>2, <3>4 DEF AtWork
  <2> QED
    BY <1>1, <1>2, <2>2, <2>3, <2>4, Goes
<1>6. ASSUME NEW plan \in WholePlans(log, p[q].root) \cup TurnPlans(log, p[q].root, p[q].trigger),
             p' = [p EXCEPT ![q].pc = "compactor", ![q].plan = plan]
      PROVE  HInv'
  <2>1. PICK s : s = [p[q] EXCEPT !.pc = "compactor", !.plan = plan]
    OBVIOUS
  <2>2. p' = [p EXCEPT ![q] = s]
    BY <1>3, <1>6, <2>1
  <2>3. /\ s.pc = "compactor" /\ s.root = p[q].root /\ s.trigger = p[q].trigger
        /\ s.token = p[q].token /\ s.plan = plan /\ s.retry = p[q].retry
    BY <1>3, <2>1 DEF ProcessShaped, ProcessFields
  <2>4. Fenced(q) => AtWork(log, n, s)
    <3>1. SUFFICES ASSUME Fenced(q) PROVE AtWork(log, n, s)
      OBVIOUS
    <3>2. UnderWay(log, n, s)
      BY <1>4, <2>3, <3>1 DEF UnderWay
    <3>3. Composing(log, n, s)
      BY <1>4, <2>3, <3>1 DEF Composing
    <3>4. s.plan \in WholePlans(log, s.root) \cup TurnPlans(log, s.root, s.trigger)
      BY <1>6, <2>3
    <3> QED
      BY <2>3, <3>2, <3>3, <3>4 DEF AtWork
  <2> QED
    BY <1>1, <1>2, <2>2, <2>3, <2>4, Goes
<1>7. \/ p[q].retry # "now" /\ Goto(q, "snapshot")
      \/ Goto(q, "terminal")
      \/ \E plan \in WholePlans(log, p[q].root) \cup TurnPlans(log, p[q].root, p[q].trigger) :
           p' = [p EXCEPT ![q].pc = "compactor", ![q].plan = plan]
  BY <1>1 DEF Compose
<1> QED
  BY <1>5, <1>6, <1>7

(* A planned compaction of either kind, admitted and readable.             *)
LEMMA PlanFits ==
  ASSUME NEW h, NEW n, IsHistory(h, n), Readable(h), Start(h) \in Roots(h), NEW w,
         Open(h, n, w.root), UnderWay(h, n, w), Composing(h, n, w),
         NEW e \in WholePlans(h, w.root) \cup TurnPlans(h, w.root, w.trigger), NEW r,
         r.pc = "snapshot", r.root = w.root, r.trigger = w.trigger, r.compacted = TRUE
  PROVE  Admitted(h, e) /\ \A v : Copied(v, e) => Fitting(h, n, v, r)
<1>1. n \in Nat /\ w.root \in 1 .. n
  BY OpenGroups, HistoryIs
<1>2. w.trigger = n \/ (w.trigger = n - 1 /\ h[n].type = "snapshot" /\ h[n].parent = w.trigger)
  BY DEF Composing, SnapshotOf
<1>3. ASSUME NEW v, NEW g, Extended(h, g, v, n),
             (v.type = "compacted" /\ v.auto) \/ (v.type = "turn_compacted" /\ v.parent = w.trigger)
      PROVE  AtWork(g, n + 1, r)
  <2>1. g[n + 1] = v /\ \A i \in 1 .. n : g[i] = h[i]
    BY <1>3, ExtendedIs
  <2>2. UnderWay(g, n + 1, r) /\ w.trigger \in 1 .. n
    BY <1>1, <1>3, GoesOn
  <2>3. g[n] = h[n]
    <3>1. n \in 1 .. n
      BY <1>1
    <3> QED
      BY <2>1, <3>1
  <2>4. Composed(g, n + 1, w.trigger)
    <3>1. (n + 1) - 1 = n /\ (n + 1) - 2 = n - 1
      BY <1>1
    <3> QED
      BY <1>2, <1>3, <2>1, <2>3, <3>1 DEF Composed
  <2> QED
    BY <2>2, <2>4 DEF AtWork
<1>4. CASE e \in WholePlans(h, w.root)
  <2>1. PICK k \in Roots(h) : IsCompaction(e, h, k) /\ Start(h) < k /\ e.auto = TRUE
    BY <1>4, WholePlanMeans
  <2>2. e.type = "compacted"
    BY <2>1 DEF IsCompaction
  <2>3. Admitted(h, e)
    <3>1. AdmitCompaction(h, e)
      BY <2>1, CompactionFits
    <3> QED
      BY <2>2, <3>1 DEF Admitted
  <2>4. ASSUME NEW v, Copied(v, e) PROVE Fitting(h, n, v, r)
    <3>1. IsCompaction(v, h, k) /\ v.type = "compacted" /\ v.auto = TRUE /\ v.calls = 0
      BY <2>1, <2>4, Zenon DEF Copied, IsCompaction
    <3>2. /\ {v.parent, v.last, v.retained, v.prior} \subseteq 0 .. n
          /\ \A g : Extended(h, g, v, n) => ChainAt(g, n + 1)
      BY <2>1, <3>1, CompactionFits
    <3> QED
      BY <1>3, <3>1, <3>2 DEF Fitting, Types, NewResult
  <2> QED
    BY <2>3, <2>4
<1>5. CASE e \in TurnPlans(h, w.root, w.trigger)
  <2>1. PICK a : Planned(e, h, w.root, w.trigger, a)
    BY <1>5, TurnPlanMeans
  <2>2. e.type = "turn_compacted"
    BY <2>1 DEF Planned
  <2>3. Admitted(h, e)
    <3>1. AdmitTurnCompaction(h, e)
      BY <1>2, <2>1, TurnPlanAdmitted
    <3> QED
      BY <2>2, <3>1 DEF Admitted
  <2>4. ASSUME NEW v, Copied(v, e) PROVE Fitting(h, n, v, r)
    <3>1. Planned(v, h, w.root, w.trigger, a)
      BY <2>1, <2>4, Zenon DEF Copied, Planned
    <3>2. v.type = "turn_compacted" /\ v.parent = w.trigger /\ v.calls = 0
      BY <3>1 DEF Planned
    <3>3. /\ {v.parent, v.last, v.retained, v.prior} \subseteq 0 .. n
          /\ \A g : Extended(h, g, v, n) => TurnCompactionAt(g, n + 1)
      BY <1>2, <3>1, TurnPlanReads
    <3> QED
      BY <1>3, <3>2, <3>3 DEF Fitting, Types, NewResult
  <2> QED
    BY <2>3, <2>4
<1> QED
  BY <1>4, <1>5

LEMMA CompactAgrees ==
  ASSUME IInv, IInv', HInv, NEW q \in Processes, Compact(q)
  PROVE  HInv'
<1>1. PICK n \in Nat : /\ n = Len(log) /\ IsHistory(log, n) /\ Readable(log)
                       /\ n # 0 => Start(log) \in Roots(log)
                       /\ Fenced(q) => AtWork(log, n, p[q])
                       /\ Fenced(q) /\ p[q].pc \in Turning => Open(log, n, p[q].root)
  BY HolderIs
<1>2. p[q].pc = "compactor" /\ UNCHANGED lease
  BY DEF Compact
<1>3. ProcessShaped(p[q]) /\ p = [o \in Processes |-> p[o]] /\ Doing(q, p[q])
  BY Shapes
<1>4. Fenced(q) =>
        /\ UnderWay(log, n, p[q]) /\ Composing(log, n, p[q]) /\ Open(log, n, p[q].root)
        /\ p[q].plan \in WholePlans(log, p[q].root) \cup TurnPlans(log, p[q].root, p[q].trigger)
        /\ Start(log) \in Roots(log)
  <2>1. SUFFICES ASSUME Fenced(q)
                 PROVE  /\ UnderWay(log, n, p[q]) /\ Composing(log, n, p[q])
                        /\ Open(log, n, p[q].root) /\ Start(log) \in Roots(log)
                        /\ p[q].plan \in WholePlans(log, p[q].root)
                                           \cup TurnPlans(log, p[q].root, p[q].trigger)
    OBVIOUS
  <2>2. Open(log, n, p[q].root)
    BY <1>1, <1>2, <2>1 DEF Turning
  <2>3. n # 0
    BY <1>1, <2>2, OpenGroups
  <2> QED
    BY <1>1, <1>2, <2>1, <2>2, <2>3 DEF AtWork, Turning
<1>5. CASE AppendEvent(q, p[q].plan, [p[q] EXCEPT !.pc = "snapshot", !.compacted = TRUE,
                                                  !.plan = Event])
  <2>1. PICK r : r = [p[q] EXCEPT !.pc = "snapshot", !.compacted = TRUE, !.plan = Event]
    OBVIOUS
  <2>2. /\ r.pc = "snapshot" /\ r.root = p[q].root /\ r.trigger = p[q].trigger
        /\ r.compacted = TRUE
    BY <1>3, <2>1 DEF ProcessShaped, ProcessFields
  <2>3. EventShaped(p[q].plan)
    BY <1>2, <1>3 DEF Doing
  <2>4. Fenced(q) => /\ Admitted(log, p[q].plan)
                     /\ \A v : Copied(v, p[q].plan) => Fitting(log, n, v, r)
    <3>1. PICK w : w = p[q]
      OBVIOUS
    <3> QED
      BY <1>1, <1>4, <2>2, <3>1, PlanFits
  <2>5. PICK e : e = p[q].plan
    OBVIOUS
  <2>6. AppendEvent(q, e, r)
    BY <1>5, <2>1, <2>5
  <2> QED
    BY <1>1, <1>2, <2>3, <2>4, <2>5, <2>6, Written
<1>6. CASE /\ UNCHANGED <<log, refused>>
           /\ \E pc \in {"terminal"} \cup (IF p[q].retry = "now" THEN {} ELSE {"snapshot"}) :
                p' = [p EXCEPT ![q].pc = pc, ![q].failed = TRUE, ![q].plan = Event]
  <2>1. PICK pc : /\ pc = "terminal" \/ (pc = "snapshot" /\ p[q].retry # "now")
                  /\ p' = [p EXCEPT ![q].pc = pc, ![q].failed = TRUE, ![q].plan = Event]
    BY <1>6
  <2>2. PICK s : s = [p[q] EXCEPT !.pc = pc, !.failed = TRUE, !.plan = Event]
    OBVIOUS
  <2>3. p' = [p EXCEPT ![q] = s]
    BY <1>3, <2>1, <2>2
  <2>4. s.pc = pc /\ s.root = p[q].root /\ s.trigger = p[q].trigger /\ s.token = p[q].token
    BY <1>3, <2>2 DEF ProcessShaped, ProcessFields
  <2>5. Fenced(q) => AtWork(log, n, s)
    <3>1. SUFFICES ASSUME Fenced(q) PROVE AtWork(log, n, s)
      OBVIOUS
    <3>2. UnderWay(log, n, s)
      BY <1>4, <2>4, <3>1 DEF UnderWay
    <3>3. pc = "snapshot" => s.trigger = n
      BY <1>4, <2>1, <2>4, <3>1 DEF Composing
    <3>4. s.pc = "snapshot" => Composed(log, n, s.trigger) /\ (s.trigger = n \/ s.compacted)
      BY <2>4, <3>3 DEF Composed
    <3> QED
      BY <2>1, <2>4, <3>2, <3>4 DEF AtWork
  <2> QED
    BY <1>1, <1>2, <1>6, <2>3, <2>4, <2>5, Goes
<1> QED
  BY <1>5, <1>6 DEF Compact

LEMMA SnapshotAgrees ==
  ASSUME IInv, IInv', HInv, NEW q \in Processes, AppendSnapshot(q)
  PROVE  HInv'
<1>1. PICK n \in Nat : /\ n = Len(log) /\ IsHistory(log, n) /\ Readable(log)
                       /\ n # 0 => Start(log) \in Roots(log)
                       /\ Fenced(q) => AtWork(log, n, p[q])
                       /\ Fenced(q) /\ p[q].pc \in Turning => Open(log, n, p[q].root)
  BY HolderIs
<1>2. p[q].pc = "snapshot" /\ UNCHANGED lease
  BY DEF AppendSnapshot
<1>3. PICK s : s = Start(log)
  OBVIOUS
<1>4. PICK c : c = Greatest(Of(log, {"compacted"}))
  OBVIOUS
<1>5. PICK l : l = LatestTurnCompaction(log, p[q].root, n + 1)
  OBVIOUS
<1>6. PICK t : t = p[q].trigger
  OBVIOUS
<1>7. PICK e : e = [Event EXCEPT !.type = "snapshot", !.parent = t, !.retained = s, !.active = c,
                                 !.activeTurn = l]
  OBVIOUS
<1>8. PICK r : r = [p[q] EXCEPT !.pc = "provider"]
  OBVIOUS
<1>9. AppendEvent(q, e, r)
  BY <1>1, <1>3, <1>4, <1>5, <1>6, <1>7, <1>8 DEF AppendSnapshot, Id
<1>10. /\ EventShaped(e) /\ e.type = "snapshot" /\ e.parent = t /\ e.retained = s
       /\ e.active = c /\ e.activeTurn = l /\ e.calls = 0 /\ e.last = 0 /\ e.prior = 0
  BY <1>7 DEF Event, EventShaped, EventFields
<1>11. /\ r.pc = "provider" /\ r.root = p[q].root /\ r.trigger = t
       /\ r.compacted = p[q].compacted
  <2>1. ProcessShaped(p[q])
    BY Shapes
  <2> QED
    BY <1>6, <1>8, <2>1 DEF ProcessShaped, ProcessFields
<1>12. ASSUME Fenced(q)
       PROVE  Admitted(log, e) /\ \A v : Copied(v, e) => Fitting(log, n, v, r)
  <2>1. PICK w : w = p[q]
    OBVIOUS
  <2>2. /\ UnderWay(log, n, w) /\ Open(log, n, w.root) /\ Composed(log, n, t)
        /\ t = n \/ w.compacted
    BY <1>1, <1>2, <1>6, <1>12, <2>1 DEF AtWork, Turning
  <2>3. w.root \in 1 .. n /\ n # 0 /\ s \in Roots(log)
    <3>1. w.root \in 1 .. n
      BY <1>1, <2>2, OpenGroups
    <3>2. n # 0
      BY <3>1
    <3> QED
      BY <1>1, <1>3, <3>1, <3>2
  <2>4. t \in w.root .. n /\ (t = w.root \/ log[t].type = "outcome")
    BY <1>6, <2>1, <2>2 DEF UnderWay
  <2>5. IsSnapshot(e, log, n, w.root, t)
    BY <1>3, <1>4, <1>5, <1>10, <2>1 DEF IsSnapshot
  <2>6. Admitted(log, e)
    <3>1. AdmitSnapshot(log, e)
      BY <1>1, <1>3, <2>2, <2>3, <2>4, <2>5, SnapshotFits
    <3> QED
      BY <1>10, <3>1 DEF Admitted
  <2>7. ASSUME NEW v, Copied(v, e) PROVE Fitting(log, n, v, r)
    <3>1. IsSnapshot(v, log, n, w.root, t)
      BY <2>5, <2>7, Zenon DEF Copied, IsSnapshot
    <3>2. v.type = "snapshot" /\ v.parent = t /\ v.calls = 0
      BY <3>1 DEF IsSnapshot
    <3>3. /\ {v.parent, v.last, v.retained, v.prior} \subseteq 0 .. n
          /\ \A g : Extended(log, g, v, n) => SnapshotAt(g, n + 1)
      BY <1>1, <1>3, <2>2, <2>3, <2>4, <3>1, SnapshotFits
    <3>4. ASSUME NEW g, Extended(log, g, v, n) PROVE AtWork(g, n + 1, r)
      <4>1. UnderWay(g, n + 1, r)
        BY <1>6, <1>11, <2>1, <2>2, <2>3, <3>4, GoesOn
      <4>2. g[n + 1] = v
        BY <3>4, ExtendedIs
      <4>3. SnapshotOf(g, n + 1, t)
        BY <3>2, <4>2 DEF SnapshotOf
      <4>4. t = (n + 1) - 1 \/ r.compacted
        BY <1>11, <2>1, <2>2
      <4> QED
        BY <1>11, <4>1, <4>3, <4>4 DEF AtWork
    <3> QED
      BY <3>2, <3>3, <3>4 DEF Fitting, Types, NewResult
  <2> QED
    BY <2>6, <2>7
<1> QED
  BY <1>1, <1>2, <1>9, <1>10, <1>12, Written

LEMMA AnswerAgrees ==
  ASSUME IInv, IInv', HInv, NEW q \in Processes, AppendAnswer(q)
  PROVE  HInv'
<1>1. PICK n \in Nat : /\ n = Len(log) /\ IsHistory(log, n) /\ Readable(log)
                       /\ Fenced(q) => AtWork(log, n, p[q])
                       /\ Fenced(q) /\ p[q].pc \in Turning => Open(log, n, p[q].root)
  BY HolderIs
<1>2. p[q].pc = "provider" /\ UNCHANGED lease
  BY DEF AppendAnswer
<1>3. PICK t : t = p[q].trigger
  OBVIOUS
<1>4. PICK m \in 0 .. MaxCalls :
        AppendEvent(q, [Event EXCEPT !.type = "assistant", !.parent = t, !.calls = m],
                    [p[q] EXCEPT !.pc = IF m = 0 THEN "release" ELSE "tools", !.left = m,
                                 !.compacted = FALSE,
                                 !.retry = IF @ = "now" THEN "used" ELSE @])
  BY <1>3 DEF AppendAnswer
<1>5. PICK e : e = [Event EXCEPT !.type = "assistant", !.parent = t, !.calls = m]
  OBVIOUS
<1>6. PICK r : r = [p[q] EXCEPT !.pc = IF m = 0 THEN "release" ELSE "tools", !.left = m,
                                !.compacted = FALSE,
                                !.retry = IF @ = "now" THEN "used" ELSE @]
  OBVIOUS
<1>7. AppendEvent(q, e, r)
  BY <1>4, <1>5, <1>6
<1>8. /\ EventShaped(e) /\ e.type = "assistant" /\ e.parent = t /\ e.calls = m
      /\ e.last = 0 /\ e.retained = 0 /\ e.prior = 0
  BY <1>5 DEF Event, EventShaped, EventFields
<1>9. /\ r.pc = (IF m = 0 THEN "release" ELSE "tools") /\ r.root = p[q].root /\ r.trigger = t
      /\ r.left = m /\ r.retry # "now"
  <2>1. ProcessShaped(p[q])
    BY Shapes
  <2> QED
    BY <1>3, <1>6, <2>1 DEF ProcessShaped, ProcessFields
<1>10. m \in Nat
  BY HistoryAssumption
<1>11. ASSUME Fenced(q), NEW v, Copied(v, e) PROVE Fitting(log, n, v, r)
  <2>1. /\ v.type = "assistant" /\ v.parent = t /\ v.calls = m /\ v.last = 0 /\ v.retained = 0
        /\ v.prior = 0
    BY <1>8, <1>11 DEF Copied
  <2>2. PICK w : w = p[q]
    OBVIOUS
  <2>3. UnderWay(log, n, w) /\ Open(log, n, w.root)
    BY <1>1, <1>2, <1>11, <2>2 DEF AtWork, Turning
  <2>4. w.root \in 1 .. n /\ t \in 1 .. n
    <3>1. w.root \in 1 .. n
      BY <1>1, <2>3, OpenGroups
    <3> QED
      BY <1>3, <2>2, <2>3, <3>1 DEF UnderWay
  <2>5. ASSUME NEW g, Extended(log, g, v, n), m # 0 PROVE AtWork(g, n + 1, r)
    <3>1. UnderWay(g, n + 1, r)
      BY <1>3, <1>9, <2>2, <2>3, <2>4, <2>5, GoesOn
    <3>2. g[n + 1] = v /\ IsHistory(g, n + 1) /\ Grown(log, g, v, n) /\ n + 1 \in 1 .. n + 1
      BY <2>5, ExtendedIs
    <3>3. NewestAnswer(g) = n + 1
      <4>1. /\ Of(log, {"assistant"}) \subseteq 1 .. n
            /\ Of(g, {"assistant"}) = Of(log, {"assistant"})
                                        \cup (IF v.type \in {"assistant"} THEN {n + 1} ELSE {})
        BY <3>2, GrownOf
      <4>2. Of(g, {"assistant"}) = Of(log, {"assistant"}) \cup {n + 1}
        BY <2>1, <4>1
      <4> DEFINE S == Of(g, {"assistant"})
      <4>3. S \subseteq Nat /\ n + 1 \in S /\ \A x \in S : x <= n + 1
        BY <4>1, <4>2
      <4> HIDE DEF S
      <4>4. Greatest(S) = n + 1
        BY <4>3, GreatestIs
      <4> QED
        BY <4>4 DEF NewestAnswer, S
    <3>4. Results(g, n + 1) = {}
      <4>1. /\ Results(g, n + 1) \subseteq 1 .. n + 1
            /\ \A i \in 1 .. n + 1 : i \in Results(g, n + 1) => i > n + 1
        BY <3>2, ResultsMean
      <4> QED
        BY <4>1
    <3>5. CallingTools(g, r)
      <4>1. {g[i].call : i \in Results(g, n + 1)} = 1 .. m - m
        BY <1>10, <3>4
      <4>2. m \in 1 .. m /\ n + 1 > w.root
        BY <1>10, <2>4, <2>5
      <4> QED
        BY <1>9, <2>1, <2>2, <3>2, <3>3, <4>1, <4>2 DEF CallingTools
    <3> QED
      BY <1>9, <2>5, <3>1, <3>5 DEF AtWork
  <2>6. ASSUME NEW g, Extended(log, g, v, n), m = 0 PROVE AtWork(g, n + 1, r)
    BY <1>9, <2>6, Apart
  <2>7. {v.parent, v.last, v.retained, v.prior} \subseteq 0 .. n
    BY <2>1, <2>4
  <2> QED
    BY <1>10, <2>1, <2>5, <2>6, <2>7 DEF Fitting, Types, NewResult
<1>12. Admitted(log, e)
  BY <1>8 DEF Admitted
<1> QED
  BY <1>1, <1>2, <1>7, <1>8, <1>11, <1>12, Written

LEMMA RejectedAgrees ==
  ASSUME IInv, HInv, NEW q \in Processes, Rejected(q)
  PROVE  HInv'
<1>1. PICK n \in Nat : n = Len(log) /\ (Fenced(q) => AtWork(log, n, p[q]))
  BY HolderIs
<1>2. p[q].pc = "provider" /\ UNCHANGED <<log, lease, refused>>
  BY DEF Rejected
<1>3. ProcessShaped(p[q]) /\ p = [o \in Processes |-> p[o]]
  BY Shapes
<1>4. Fenced(q) => /\ UnderWay(log, n, p[q]) /\ SnapshotOf(log, n, p[q].trigger)
                   /\ p[q].trigger = n - 1 \/ p[q].compacted
  BY <1>1, <1>2 DEF AtWork, Turning
<1>5. CASE Goto(q, "terminal")
  <2>1. PICK s : s = [p[q] EXCEPT !.pc = "terminal"]
    OBVIOUS
  <2>2. p' = [p EXCEPT ![q] = s]
    BY <1>3, <1>5, <2>1 DEF Goto
  <2>3. s.pc = "terminal" /\ s.root = p[q].root /\ s.trigger = p[q].trigger
        /\ s.token = p[q].token
    BY <1>3, <2>1 DEF ProcessShaped, ProcessFields
  <2>4. Fenced(q) => AtWork(log, n, s)
    BY <1>4, <2>3 DEF AtWork, UnderWay
  <2> QED
    BY <1>1, <1>2, <2>2, <2>3, <2>4, Goes
<1>6. CASE ~p[q].compacted /\ p' = [p EXCEPT ![q].pc = "compose", ![q].retry = "now"]
  <2>1. PICK s : s = [p[q] EXCEPT !.pc = "compose", !.retry = "now"]
    OBVIOUS
  <2>2. p' = [p EXCEPT ![q] = s]
    BY <1>3, <1>6, <2>1
  <2>3. /\ s.pc = "compose" /\ s.root = p[q].root /\ s.trigger = p[q].trigger
        /\ s.token = p[q].token /\ s.retry = "now"
    BY <1>3, <2>1 DEF ProcessShaped, ProcessFields
  <2>4. Fenced(q) => AtWork(log, n, s)
    <3>1. SUFFICES ASSUME Fenced(q) PROVE AtWork(log, n, s)
      OBVIOUS
    <3>2. UnderWay(log, n, s)
      BY <1>4, <2>3, <3>1 DEF UnderWay
    <3>3. Composing(log, n, s)
      BY <1>4, <1>6, <2>3, <3>1 DEF Composing
    <3> QED
      BY <2>3, <3>2, <3>3 DEF AtWork
  <2> QED
    BY <1>1, <1>2, <2>2, <2>3, <2>4, Goes
<1> QED
  BY <1>5, <1>6 DEF Rejected

(* The answer whose tools are called is the newest group.                  *)
LEMMA AnswerMeans ==
  ASSUME NEW h, NEW n, IsHistory(h, n), NEW w, Open(h, n, w.root), CallingTools(h, w)
  PROVE  /\ NewestAnswer(h) = Max(Of(h, {"assistant"}))
         /\ NewestAnswer(h) \in 1 .. n /\ NewestAnswer(h) \in Of(h, {"assistant"})
         /\ \A x \in Heads(h) : x <= NewestAnswer(h)
<1>1. /\ n \in Nat /\ Roots(h) = {i \in 1 .. n : h[i].type = "user"}
      /\ Heads(h) = {i \in 1 .. n : h[i].type \in {"user", "assistant"}}
      /\ Of(h, {"assistant"}) = {i \in 1 .. n : h[i].type = "assistant"}
  BY HistoryIs
<1>2. PICK a : a = NewestAnswer(h)
  OBVIOUS
<1>3. w.root \in 1 .. n /\ w.root \in Roots(h) /\ (\A x \in Roots(h) : x <= w.root) /\ a > w.root
  BY <1>1, <1>2 DEF Open, CallingTools
<1>4. PICK S : S = Of(h, {"assistant"})
  OBVIOUS
<1>5. S \subseteq 1 .. n /\ a = Greatest(S)
  BY <1>1, <1>2, <1>4 DEF NewestAnswer
<1>6. S # {}
  <2>1. SUFFICES ASSUME S = {} PROVE FALSE
    OBVIOUS
  <2>2. a = 0
    BY <1>5, <2>1 DEF Greatest
  <2>3. a > w.root
    BY <1>3
  <2>4. ~(0 > w.root)
    BY <1>3
  <2> QED
    BY <2>2, <2>3, <2>4
<1>7. a = Max(S) /\ a \in S /\ a \in 1 .. n /\ \A x \in S : x <= a
  <2>1. n \in Nat /\ S \subseteq 1 .. n
    BY <1>1, <1>5
  <2>2. Max(S) \in S /\ Max(S) \in 1 .. n /\ (\A x \in S : x <= Max(S)) /\ Greatest(S) = Max(S)
    BY <1>6, <2>1, MaxMeans
  <2>3. a = Max(S)
    BY <1>5, <2>2
  <2> QED
    BY <2>2, <2>3
<1>8. ASSUME NEW x \in Heads(h) PROVE x <= a
  <2>1. x \in 1 .. n /\ (x \in Roots(h) \/ x \in S)
    BY <1>1, <1>4
  <2> QED
    BY <1>1, <1>3, <1>7, <2>1
<1> QED
  BY <1>2, <1>4, <1>7, <1>8

(* The next result of a group, and what is left after it.                  *)
LEMMA OutcomeFits ==
  ASSUME NEW h, NEW n, IsHistory(h, n), NEW w, Open(h, n, w.root), UnderWay(h, n, w),
         CallingTools(h, w), NEW v, v.type = "outcome", v.parent = NewestAnswer(h),
         v.call = h[NewestAnswer(h)].calls - w.left + 1, v.calls = 0, v.last = 0, v.retained = 0,
         v.prior = 0, NEW r, r.root = w.root, r.retry = w.retry, r.left = w.left - 1,
         r.pc = (IF w.left = 1 THEN "compose" ELSE "tools"),
         r.trigger = (IF w.left = 1 THEN n + 1 ELSE w.trigger)
  PROVE  Fitting(h, n, v, r)
<1>1. n \in Nat /\ w.root \in 1 .. n
  BY HistoryIs, OpenGroups
<1>2. PICK a : a = NewestAnswer(h)
  OBVIOUS
<1>3. a \in 1 .. n /\ a \in Of(h, {"assistant"}) /\ \A x \in Heads(h) : x <= a
  BY <1>2, AnswerMeans
<1>4. PICK k : k = h[a].calls
  OBVIOUS
<1>5. k \in Nat
  BY <1>3, <1>4 DEF IsHistory
<1>6. /\ a > w.root /\ h[a].parent = w.trigger /\ w.retry # "now" /\ w.left \in 1 .. k
      /\ {h[i].call : i \in Results(h, a)} = 1 .. k - w.left
  BY <1>2, <1>4 DEF CallingTools
<1>7. PICK c : c = k - w.left + 1
  OBVIOUS
<1>8. c \in 1 .. k /\ c \notin 1 .. k - w.left /\ v.call = c
  BY <1>2, <1>4, <1>5, <1>6, <1>7
<1>9. NewResult(h, v)
  <2>1. \A i \in Results(h, a) : h[i].call # c
    BY <1>6, <1>8
  <2> QED
    BY <1>3, <1>4, <1>8, <2>1 DEF NewResult
<1>10. {v.parent, v.last, v.retained, v.prior} \subseteq 0 .. n
  <2>1. a \in 0 .. n /\ 0 \in 0 .. n
    BY <1>1, <1>3
  <2> QED
    BY <1>2, <2>1
<1>11. ASSUME NEW g, Extended(h, g, v, n) PROVE AtWork(g, n + 1, r)
  <2>1. g[n + 1] = v /\ IsHistory(g, n + 1) /\ Grown(h, g, v, n) /\ g[a] = h[a]
    BY <1>3, <1>11, ExtendedIs
  <2>2. CASE w.left = 1
    <3>1. /\ Lineage(g)[n + 1] = {n + 1} \cup Lineage(h)[a]
      BY <1>2, <1>11, LineageGrows
    <3>2. Lineage(h)[a] = {a} \cup Lineage(h)[w.trigger]
      BY <1>3, <1>6, LineageIs
    <3>3. w.root \in Lineage(g)[n + 1]
      BY <3>1, <3>2 DEF UnderWay
    <3>4. n + 1 \in w.root .. n + 1
      BY <1>1
    <3>5. UnderWay(g, n + 1, r)
      BY <2>1, <2>2, <3>3, <3>4 DEF UnderWay
    <3>6. Composing(g, n + 1, r)
      BY <1>6, <2>2 DEF Composing
    <3> QED
      BY <2>2, <3>5, <3>6 DEF AtWork
  <2>3. CASE w.left # 1
    <3>1. UnderWay(g, n + 1, r)
      BY <1>1, <1>11, <2>3, GoesOn
    <3>2. NewestAnswer(g) = a
      <4>1. Of(g, {"assistant"}) = Of(h, {"assistant"})
                                     \cup (IF v.type \in {"assistant"} THEN {n + 1} ELSE {})
        BY <2>1, GrownOf
      <4>2. Of(g, {"assistant"}) = Of(h, {"assistant"})
        BY <4>1
      <4> QED
        BY <1>2, <4>2 DEF NewestAnswer
    <3>3. {g[i].call : i \in Results(g, a)} = 1 .. k - r.left
      <4>1. Results(g, a) = Results(h, a) \cup {n + 1}
        <5>1. /\ \A i \in 1 .. n : i \in Results(g, a) <=> i \in Results(h, a)
              /\ n + 1 \in Results(g, a)
              /\ Results(g, a) \subseteq 1 .. n + 1 /\ Results(h, a) \subseteq 1 .. n
          BY <1>3, <1>11, GrownResults
        <5>2. \A i \in 1 .. n + 1 : i \in 1 .. n \/ i = n + 1
          BY <1>1
        <5> QED
          BY <5>1, <5>2
      <4>2. \A i \in Results(h, a) : g[i].call = h[i].call
        <5>1. Results(h, a) \subseteq 1 .. n
          BY <1>3, <1>11, GrownResults
        <5> QED
          BY <1>11, <5>1, ExtendedIs
      <4>3. {g[i].call : i \in Results(g, a)} = {h[i].call : i \in Results(h, a)} \cup {c}
        BY <1>8, <2>1, <4>1, <4>2
      <4>4. 1 .. k - r.left = (1 .. k - w.left) \cup {c}
        BY <1>5, <1>6, <1>7
      <4> QED
        BY <1>6, <4>3, <4>4
    <3>4. r.left \in 1 .. k
      BY <1>5, <1>6, <2>3
    <3>5. CallingTools(g, r)
      BY <1>4, <1>6, <2>1, <2>3, <3>2, <3>3, <3>4 DEF CallingTools
    <3> QED
      BY <2>3, <3>1, <3>5 DEF AtWork
  <2> QED
    BY <2>2, <2>3
<1> QED
  BY <1>9, <1>10, <1>11 DEF Fitting, Types

LEMMA OutcomeAgrees ==
  ASSUME IInv, IInv', HInv, NEW q \in Processes, AppendOutcome(q)
  PROVE  HInv'
<1>1. PICK n \in Nat : /\ n = Len(log) /\ IsHistory(log, n)
                       /\ Fenced(q) => AtWork(log, n, p[q])
                       /\ Fenced(q) /\ p[q].pc \in Turning => Open(log, n, p[q].root)
  BY HolderIs
<1>2. p[q].pc = "tools" /\ UNCHANGED lease
  BY DEF AppendOutcome
<1>3. PICK a : a = Max(Of(log, {"assistant"}))
  OBVIOUS
<1>4. PICK c : c = log[a].calls - p[q].left + 1
  OBVIOUS
<1>5. PICK e : e = [Event EXCEPT !.type = "outcome", !.parent = a, !.call = c]
  OBVIOUS
<1>6. PICK r : r = [p[q] EXCEPT !.left = @ - 1,
                                !.pc = IF p[q].left = 1 THEN "compose" ELSE "tools",
                                !.trigger = IF p[q].left = 1 THEN Id ELSE @]
  OBVIOUS
<1>7. AppendEvent(q, e, r)
  BY <1>3, <1>4, <1>5, <1>6 DEF AppendOutcome
<1>8. /\ EventShaped(e) /\ e.type = "outcome" /\ e.parent = a /\ e.call = c /\ e.calls = 0
      /\ e.last = 0 /\ e.retained = 0 /\ e.prior = 0
  BY <1>5 DEF Event, EventShaped, EventFields
<1>9. /\ r.root = p[q].root /\ r.retry = p[q].retry /\ r.left = p[q].left - 1
      /\ r.pc = (IF p[q].left = 1 THEN "compose" ELSE "tools")
      /\ r.trigger = (IF p[q].left = 1 THEN n + 1 ELSE p[q].trigger)
  <2>1. ProcessShaped(p[q])
    BY Shapes
  <2> QED
    BY <1>1, <1>6, <2>1 DEF ProcessShaped, ProcessFields, Id
<1>10. Admitted(log, e)
  BY <1>8 DEF Admitted
<1>11. ASSUME Fenced(q), NEW v, Copied(v, e) PROVE Fitting(log, n, v, r)
  <2>1. PICK w : w = p[q]
    OBVIOUS
  <2>2. UnderWay(log, n, w) /\ Open(log, n, w.root) /\ CallingTools(log, w)
    BY <1>1, <1>2, <1>11, <2>1 DEF AtWork, Turning
  <2>3. a = NewestAnswer(log)
    BY <1>1, <1>3, <2>2, AnswerMeans
  <2>4. /\ v.type = "outcome" /\ v.parent = NewestAnswer(log) /\ v.calls = 0 /\ v.last = 0
        /\ v.retained = 0 /\ v.prior = 0
        /\ v.call = log[NewestAnswer(log)].calls - w.left + 1
    BY <1>4, <1>8, <1>11, <2>1, <2>3 DEF Copied
  <2>5. /\ r.root = w.root /\ r.retry = w.retry /\ r.left = w.left - 1
        /\ r.pc = (IF w.left = 1 THEN "compose" ELSE "tools")
        /\ r.trigger = (IF w.left = 1 THEN n + 1 ELSE w.trigger)
    BY <1>9, <2>1
  <2> QED
    BY <1>1, <2>2, <2>4, <2>5, OutcomeFits
<1> QED
  BY <1>1, <1>2, <1>7, <1>8, <1>10, <1>11, Written

LEMMA InterruptedAgrees ==
  ASSUME IInv, HInv, NEW q \in Processes, Interrupted(q)
  PROVE  HInv'
<1>1. PICK n \in Nat : n = Len(log) /\ (Fenced(q) => AtWork(log, n, p[q]))
  BY HolderIs
<1>2. /\ p[q].pc \in Turning /\ UNCHANGED <<log, lease, refused>> /\ Goto(q, "terminal")
  BY DEF Interrupted, Turning
<1>3. ProcessShaped(p[q]) /\ p = [o \in Processes |-> p[o]]
  BY Shapes
<1>4. PICK s : s = [p[q] EXCEPT !.pc = "terminal"]
  OBVIOUS
<1>5. p' = [p EXCEPT ![q] = s]
  BY <1>2, <1>3, <1>4 DEF Goto
<1>6. s.pc = "terminal" /\ s.root = p[q].root /\ s.trigger = p[q].trigger /\ s.token = p[q].token
  BY <1>3, <1>4 DEF ProcessShaped, ProcessFields
<1>7. Fenced(q) => AtWork(log, n, s)
  BY <1>1, <1>2, <1>6 DEF AtWork, UnderWay
<1> QED
  BY <1>1, <1>2, <1>5, <1>6, <1>7, Goes

LEMMA TerminalAgrees ==
  ASSUME IInv, IInv', HInv, NEW q \in Processes, AppendTerminal(q)
  PROVE  HInv'
<1>1. PICK n \in Nat : /\ n = Len(log) /\ IsHistory(log, n)
                       /\ Fenced(q) => AtWork(log, n, p[q])
                       /\ Fenced(q) /\ p[q].pc \in Turning => Open(log, n, p[q].root)
  BY HolderIs
<1>2. p[q].pc = "terminal" /\ UNCHANGED lease
  BY DEF AppendTerminal
<1>3. PICK w : w = p[q]
  OBVIOUS
<1>4. PICK e : e = [Event EXCEPT !.type = "terminal", !.parent = w.trigger, !.turn = w.root]
  OBVIOUS
<1>5. PICK r : r = [w EXCEPT !.pc = "release"]
  OBVIOUS
<1>6. AppendEvent(q, e, r)
  BY <1>3, <1>4, <1>5 DEF AppendTerminal
<1>7. /\ EventShaped(e) /\ e.type = "terminal" /\ e.parent = w.trigger /\ e.turn = w.root
      /\ e.calls = 0 /\ e.last = 0 /\ e.retained = 0 /\ e.prior = 0
  BY <1>4 DEF Event, EventShaped, EventFields
<1>8. r.pc = "release"
  <2>1. ProcessShaped(w)
    BY <1>3, Shapes
  <2> QED
    BY <1>5, <2>1 DEF ProcessShaped, ProcessFields
<1>9. ASSUME Fenced(q)
      PROVE  Admitted(log, e) /\ \A v : Copied(v, e) => Fitting(log, n, v, r)
  <2>1. UnderWay(log, n, w) /\ Open(log, n, w.root)
    BY <1>1, <1>2, <1>3, <1>9 DEF AtWork, Turning
  <2>2. w.root \in 1 .. n /\ Roots(log) \subseteq Nat
    BY <1>1, <2>1, OpenGroups, HistoryIs
  <2>3. NewestRoot(log) = w.root
    <3>1. w.root \in Roots(log) /\ \A x \in Roots(log) : x <= w.root
      BY <2>1 DEF Open
    <3> QED
      BY <2>2, <3>1, GreatestIs DEF NewestRoot
  <2>4. w.trigger \in 0 .. n
    BY <1>1, <2>1, <2>2 DEF UnderWay
  <2>5. Admitted(log, e)
    <3>1. AdmitTerminal(log, e)
      BY <1>7, <2>1, <2>3 DEF AdmitTerminal, UnderWay
    <3> QED
      BY <1>7, <3>1 DEF Admitted
  <2>6. ASSUME NEW v, Copied(v, e) PROVE Fitting(log, n, v, r)
    <3>1. /\ v.type = "terminal" /\ v.parent = w.trigger /\ v.calls = 0 /\ v.last = 0
          /\ v.retained = 0 /\ v.prior = 0
      BY <1>7, <2>6 DEF Copied
    <3>2. {v.parent, v.last, v.retained, v.prior} \subseteq 0 .. n
      BY <1>1, <2>4, <3>1
    <3>3. \A g : AtWork(g, n + 1, r)
      BY <1>8, Apart
    <3> QED
      BY <3>1, <3>2, <3>3 DEF Fitting, Types, NewResult
  <2> QED
    BY <2>5, <2>6
<1> QED
  BY <1>1, <1>2, <1>6, <1>7, <1>9, Written

LEMMA ManualPlanned ==
  ASSUME IInv, HInv, NEW q \in Processes, PlanManual(q)
  PROVE  HInv'
<1>1. PICK n \in Nat : n = Len(log) /\ Readable(log)
  BY HolderIs
<1>2. p[q].pc = "manual" /\ UNCHANGED <<log, lease, refused>>
  BY DEF PlanManual
<1>3. ProcessShaped(p[q]) /\ p = [o \in Processes |-> p[o]]
  BY Shapes
<1>4. ASSUME NEW plan \in ManualPlans(log),
             p' = [p EXCEPT ![q].pc = "summarized", ![q].plan = plan]
      PROVE  HInv'
  <2>1. PICK s : s = [p[q] EXCEPT !.pc = "summarized", !.plan = plan]
    OBVIOUS
  <2>2. p' = [p EXCEPT ![q] = s]
    BY <1>3, <1>4, <2>1
  <2>3. s.pc = "summarized" /\ s.plan = plan
    BY <1>3, <2>1 DEF ProcessShaped, ProcessFields
  <2>4. AtWork(log, Len(log), s)
    BY <1>4, <2>3 DEF AtWork, Turning
  <2> QED
    BY <1>2, <2>2, <2>4, Goes
<1> QED
  BY <1>2, <1>4, Leaves DEF PlanManual

LEMMA ManualAgrees ==
  ASSUME IInv, IInv', HInv, NEW q \in Processes, AppendManual(q)
  PROVE  HInv'
<1>1. PICK n \in Nat : /\ n = Len(log) /\ IsHistory(log, n)
                       /\ n # 0 => Start(log) \in Roots(log)
                       /\ Fenced(q) => AtWork(log, n, p[q])
  BY HolderIs
<1>2. p[q].pc = "summarized" /\ UNCHANGED lease
  BY DEF AppendManual
<1>3. ProcessShaped(p[q]) /\ Doing(q, p[q])
  BY Shapes
<1>4. PICK e : e = p[q].plan
  OBVIOUS
<1>5. PICK r : r = [p[q] EXCEPT !.pc = "release", !.plan = Event]
  OBVIOUS
<1>6. AppendEvent(q, e, r) /\ EventShaped(e)
  BY <1>2, <1>3, <1>4, <1>5 DEF AppendManual, Doing
<1>7. r.pc = "release"
  BY <1>3, <1>5 DEF ProcessShaped, ProcessFields
<1>8. ASSUME Fenced(q)
      PROVE  Admitted(log, e) /\ \A v : Copied(v, e) => Fitting(log, n, v, r)
  <2>1. Start(log) \in Roots(log)
    <3>1. log # <<>>
      BY <1>2, <1>3 DEF Doing
    <3> QED
      BY <3>1, Known
  <2>2. e \in ManualPlans(log)
    BY <1>1, <1>2, <1>4, <1>8 DEF AtWork
  <2>3. PICK k \in Roots(log) : IsCompaction(e, log, k) /\ Start(log) < k
    BY <1>1, <2>1, <2>2, ManualPlanMeans
  <2>4. Admitted(log, e)
    <3>1. AdmitCompaction(log, e)
      BY <1>1, <2>1, <2>3, CompactionFits
    <3>2. e.type = "compacted"
      BY <2>3 DEF IsCompaction
    <3> QED
      BY <3>1, <3>2 DEF Admitted
  <2>5. ASSUME NEW v, Copied(v, e) PROVE Fitting(log, n, v, r)
    <3>1. IsCompaction(v, log, k)
      BY <2>3, <2>5, Zenon DEF Copied, IsCompaction
    <3>2. v.type = "compacted" /\ v.calls = 0
      BY <3>1 DEF IsCompaction
    <3>3. /\ {v.parent, v.last, v.retained, v.prior} \subseteq 0 .. n
          /\ \A g : Extended(log, g, v, n) => ChainAt(g, n + 1)
      BY <1>1, <2>1, <2>3, <3>1, CompactionFits
    <3>4. \A g : AtWork(g, n + 1, r)
      BY <1>7, Apart
    <3> QED
      BY <3>2, <3>3, <3>4 DEF Fitting, Types, NewResult
  <2> QED
    BY <2>4, <2>5
<1> QED
  BY <1>1, <1>2, <1>6, <1>8, Written

LEMMA CrashAgrees ==
  ASSUME IInv, HInv, NEW q \in Processes, Crash(q)
  PROVE  HInv'
<1>1. PICK s : s = Idle
  OBVIOUS
<1>2. s.pc = "idle" /\ UNCHANGED <<log, lease, refused>> /\ p' = [p EXCEPT ![q] = s]
  BY <1>1, EventIs DEF Crash
<1>3. AtWork(log, Len(log), s)
  BY <1>2, Apart
<1> QED
  BY <1>2, <1>3, Goes

(* The lease changes hands.                                                *)
LEMMA Passes ==
  ASSUME HInv, UNCHANGED <<log, refused>>, lease'.live => lease'.holder # None,
         \A o \in Processes : Fenced(o)' => AtWork(log, Len(log), p'[o])
  PROVE  HInv'
<1>1. \A o \in Processes : Fenced(o)' => AtWork(log', Len(log'), p'[o])
  OBVIOUS
<1> QED
  BY <1>1 DEF HInv

LEMMA LeaseAgrees ==
  ASSUME IInv, HInv, NEW q \in Processes,
         \/ \E work \in {"user", "manual"} : AcquireTurnLease(q, work)
         \/ ReleaseTurnLease(q) \/ LeaseExpires
  PROVE  HInv'
<1>1. /\ p = [o \in Processes |-> p[o]]
      /\ lease \in [holder : Processes \cup {None}, token : Nat, live : BOOLEAN]
  BY DEF IInv, LeaseOK
<1>2. ASSUME NEW work \in {"user", "manual"}, AcquireTurnLease(q, work) PROVE HInv'
  <2>1. PICK s : s = [Idle EXCEPT !.pc = work, !.token = lease.token + 1]
    OBVIOUS
  <2>2. /\ lease' = [holder |-> q, token |-> lease.token + 1, live |-> TRUE]
        /\ UNCHANGED <<log, refused>> /\ p' = [p EXCEPT ![q] = s]
    BY <1>2, <2>1 DEF AcquireTurnLease
  <2>3. s.pc = work /\ s.retry = "unused"
    BY <2>1 DEF Idle
  <2>4. AtWork(log, Len(log), s)
    BY <2>3 DEF AtWork, Turning
  <2>5. \A o \in Processes : Fenced(o)' => AtWork(log, Len(log), p'[o])
    <3>1. \A o \in Processes : Fenced(o)' => o = q
      BY <2>2 DEF Fenced
    <3>2. p'[q] = s
      BY <1>1, <2>2
    <3> QED
      BY <2>4, <3>1, <3>2
  <2>6. lease'.holder # None
    BY <2>2, HistoryAssumption
  <2> QED
    BY <2>2, <2>5, <2>6, Passes
<1>3. CASE ReleaseTurnLease(q)
  <2>1. PICK s : s = Idle
    OBVIOUS
  <2>2. /\ UNCHANGED <<log, refused>> /\ p' = [p EXCEPT ![q] = s]
        /\ lease' = lease \/ lease' = [lease EXCEPT !.holder = None, !.live = FALSE]
    BY <1>3, <2>1 DEF ReleaseTurnLease
  <2>3. s.pc = "idle"
    BY <2>1, EventIs
  <2>4. AtWork(log, Len(log), s)
    BY <2>3, Apart
  <2>5. lease' = lease \/ ~lease'.live
    BY <1>1, <2>2
  <2>6. ASSUME NEW o \in Processes, Fenced(o)' PROVE AtWork(log, Len(log), p'[o])
    <3>1. p'[o] = IF o = q THEN s ELSE p[o]
      BY <1>1, <2>2
    <3>2. lease' = lease
      BY <2>5, <2>6 DEF Fenced
    <3>3. o # q => Fenced(o)
      BY <2>6, <3>1, <3>2 DEF Fenced
    <3> QED
      BY <2>4, <3>1, <3>3 DEF HInv
  <2>7. lease'.live => lease'.holder # None
    BY <2>5 DEF HInv
  <2> QED
    BY <2>2, <2>6, <2>7, Passes
<1>4. CASE LeaseExpires
  <2>1. UNCHANGED <<log, refused>> /\ lease' = [lease EXCEPT !.live = FALSE]
    BY <1>4 DEF LeaseExpires
  <2>2. ~lease'.live
    BY <1>1, <2>1
  <2>3. \A o \in Processes : ~(Fenced(o)')
    BY <2>2 DEF Fenced
  <2> QED
    BY <2>1, <2>2, <2>3, Passes
<1> QED
  BY <1>2, <1>3, <1>4

-----------------------------------------------------------------------------
(* The agreement.                                                          *)

LEMMA AgreedAtFirst ==
  ASSUME Init
  PROVE  HInv
<1>1. log = <<>> /\ Len(log) = 0 /\ DOMAIN log = {} /\ ~refused /\ lease.live = FALSE
  BY DEF Init
<1>2. IsHistory(log, 0)
  <2>1. 1 .. 0 = {}
    OBVIOUS
  <2> QED
    BY <1>1, <2>1 DEF IsHistory
<1>3. \A T : Of(log, T) = {}
  BY <1>1 DEF Of
<1>4. Readable(log)
  BY <1>3, ReadableIs
<1> QED
  BY <1>1, <1>2, <1>4 DEF HInv, Fenced

LEMMA AgreedNext ==
  ASSUME IInv, IInv', HInv, [Next]_vars
  PROVE  HInv'
<1>1. CASE UNCHANGED vars
  BY <1>1 DEF vars, HInv, Fenced
<1>2. CASE LeaseExpires
  <2>1. \E q : q \in Processes
    <3>1. lease.live /\ lease.holder # None
      BY <1>2 DEF LeaseExpires, HInv
    <3> QED
      BY <3>1 DEF IInv, LeaseOK
  <2> QED
    BY <1>2, <2>1, LeaseAgrees
<1>3. ASSUME NEW q \in Processes,
             (\E work \in {"user", "manual"} : AcquireTurnLease(q, work)) \/ ReleaseTurnLease(q)
      PROVE  HInv'
  BY <1>3, LeaseAgrees
<1>4. ASSUME NEW q \in Processes, Crash(q) \/ FailLocally(q) PROVE HInv'
  <2>1. FailLocally(q) => Goto(q, "release") /\ UNCHANGED <<log, lease, refused>>
    BY DEF FailLocally
  <2> QED
    BY <1>4, <2>1, CrashAgrees, Leaves
<1>5. ASSUME NEW q \in Processes, AppendUser(q) \/ Compose(q) \/ Compact(q) \/ AppendSnapshot(q)
      PROVE  HInv'
  BY <1>5, UserAgrees, ComposeAgrees, CompactAgrees, SnapshotAgrees
<1>6. ASSUME NEW q \in Processes, AppendAnswer(q) \/ Rejected(q) \/ AppendOutcome(q)
      PROVE  HInv'
  BY <1>6, AnswerAgrees, RejectedAgrees, OutcomeAgrees
<1>7. ASSUME NEW q \in Processes,
             Interrupted(q) \/ AppendTerminal(q) \/ PlanManual(q) \/ AppendManual(q)
      PROVE  HInv'
  BY <1>7, InterruptedAgrees, TerminalAgrees, ManualPlanned, ManualAgrees
<1> QED
  BY <1>1, <1>2, <1>3, <1>4, <1>5, <1>6, <1>7 DEF Next

LEMMA AgreementHolds ==
  ASSUME IInv, HInv
  PROVE  StoreAndAgentAgree
<1>1. PICK n \in Nat : n = Len(log) /\ IsHistory(log, n) /\ DOMAIN log = 1 .. n
  BY Known DEF HInv
<1>2. \A i \in DOMAIN log : /\ log[i].type \in Types
                            /\ {log[i].parent, log[i].last, log[i].retained, log[i].prior}
                                 \subseteq 0 .. i - 1
  BY <1>1 DEF IsHistory
<1>3. \A q \in Processes : p[q].token <= lease.token
  BY DEF IInv, LeaseOK
<1>4. TypeOK
  BY <1>2, <1>3 DEF TypeOK, HInv
<1> QED
  BY <1>4 DEF StoreAndAgentAgree, NeverRefused, HistoryReadable, HInv

(* What the agent plans the store admits, and what the store admitted the  *)
(* agent can read back: every check of the append (turn_compaction.go,     *)
(* events.go) passes for the lease's holder, and every check of the reader *)
(* (context.go, compaction.go) passes for the history, for any number of   *)
(* turns, tool groups, compactions of either kind, retries, crashes and    *)
(* lost leases.                                                            *)
THEOREM StoreAndAgentStayInAgreement == Spec => []StoreAndAgentAgree
<1>1. Init => HInv
  BY AgreedAtFirst
<1>2. IInv /\ IInv' /\ HInv /\ [Next]_vars => HInv'
  BY AgreedNext
<1>3. IInv /\ HInv => StoreAndAgentAgree
  BY AgreementHolds
<1> QED
  BY <1>1, <1>2, <1>3, Invariance, PTL DEF Spec
=============================================================================
