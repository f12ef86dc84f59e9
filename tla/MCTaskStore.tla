---------------------------- MODULE MCTaskStore ----------------------------
(* Instances of TaskStore: kinship, bounds and symmetries for TLC.         *)
EXTENDS TaskStore, TLC

CONSTANTS o1, c1, h1, h2, t1, t2, t3

OneParent == [c \in Children |-> o1]

Scope(holders, children, tasks, keys, levels, turns, spend) ==
  [holders |-> holders, children |-> children, tasks |-> tasks, keys |-> keys,
   levels |-> levels, turns |-> turns, admin |-> spend]

(* Turns that contend for one Task, a tree of three, a worker with grants  *)
(* on two, and a claim handed to a worker.                                 *)
SmallScopes ==
  {Scope({h1, h2}, {}, {t1}, 4, {}, 3, 1),
   Scope({h1}, {}, {t1, t2, t3}, 5, {}, 1, 1),
   Scope({h1, h2}, {c1}, {t1, t2}, 2, {1, 3}, 1, 2),
   Scope({h1, h2}, {c1}, {t1}, 3, {}, 1, 1)}

Symmetry == Permutations(Holders) \cup Permutations(Tasks)
=============================================================================
