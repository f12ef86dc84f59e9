---------------------------- MODULE MCSubagents -----------------------------
(* A small instance of delegated workers: a child that is continued over   *)
(* two turns, two children of one turn, or a child each of three parents.  *)
EXTENDS Subagents

CONSTANTS p1, p2, p3, k1, k2

VARIABLE part  \* which of the three this behaviour is

(* What each part leaves out.                                              *)
Within ==
    CASE part = "continued" ->
           /\ \A i \in DOMAIN attempts: attempts[i].parent = p1 /\ attempts[i].child = 1
           /\ turn[p2].live /\ turn[p3].live /\ Len(log[1]) <= 3 /\ late = {}
      [] part = "two" ->
           /\ \A i \in DOMAIN attempts: attempts[i].parent = p1
           /\ turn[p1].no = 1 /\ turn[p2].live /\ turn[p3].live
           /\ Len(attempts) <= 2 /\ \A c \in Ids: Len(log[c]) <= 3
      [] part = "capacity" ->
           /\ \A i, j \in DOMAIN attempts: i # j => attempts[i].parent # attempts[j].parent
           /\ \A i \in DOMAIN attempts: attempts[i].key = k1
           /\ \A c \in Ids: Len(log[c]) <= 1
           /\ \A x \in Parents: turn[x].no = 1 /\ turn[x].live
           /\ late = {} /\ wrapping = {} /\ unsettled = {} /\ crashes = 0

MCInit == Init /\ part \in {"continued", "two", "capacity"}
MCNext == Next /\ UNCHANGED part /\ Within'
MCSpec == MCInit /\ [][MCNext]_<<vars, part>> /\ Fairness
=============================================================================
