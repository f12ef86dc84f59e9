----------------------------- MODULE MCTaskPlan -----------------------------
(* A small instance of Task Tree orchestration: batches of a tree whose    *)
(* paths nest, attempts and claims on two Tasks, or a larger tree whose    *)
(* dependencies are edited.                                                *)
EXTENDS TaskPlan

VARIABLE part  \* which of the three this behaviour is

Paths == {{}, {<<"a">>}, {<<"a", "b">>}, {<<"c">>}}

PartPaths == [batches |-> Paths \ {{}}, attempts |-> {{<<"a">>}, {<<"c">>}}, edits |-> {{}}]

(* What each part leaves out.                                              *)
Within ==
    /\ \A t \in 2..size: paths[t] \in PartPaths[part]
    /\ CASE part = "batches" ->
              /\ size <= 3 /\ Len(attempts) <= 2 /\ edits = 0 /\ claims = {} /\ status[1] = "open"
              /\ \A t \in Tasks: status[t] \in {"open", "completed"}
              /\ \A i \in DOMAIN attempts: attempts[i].state # "failed"
         [] part = "attempts" ->
              size <= 2 /\ edits = 0 /\ status[1] = "open" /\ status[2] \in {"open", "blocked"}
         [] part = "edits" ->
              attempts = <<>> /\ claims = {} /\ \A t \in Tasks: status[t] # "blocked"

MCInit == PlanInit /\ part \in DOMAIN PartPaths
MCNext == PlanNext /\ UNCHANGED part /\ Within'
MCSpec == MCInit /\ [][MCNext]_<<planVars, part>>
=============================================================================
