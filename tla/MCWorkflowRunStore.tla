------------------------- MODULE MCWorkflowRunStore -------------------------
(* An instance of WorkflowRunStore for TLC: one run followed far, or two   *)
(* runs with a lease and an attempt each, whose effects need overlapping   *)
(* sets of conflict keys or which share their Run Key.                     *)
EXTENDS WorkflowRunStore, TLC

CONSTANTS r1, r2, r3, h1, h2, k1, k2

VARIABLE part  \* which of the three this behaviour is

RunKeys == r1 :> "key" @@ r2 :> "other" @@ r3 :> "key"

Started == [alone |-> {r1}, conflicts |-> {r1, r2}, keys |-> {r1, r3}]

(* What the part leaves out: runs never started; a second conflict key;    *)
(* a second holder, lease or attempt, and questions; conflict keys.        *)
Within ==
  /\ \A r \in Runs \ Started[part] : state[r] = "absent"
  /\ part = "alone" => held[k2] = {}
  /\ part = "keys" => \A k \in Keys : held[k] = {}
  /\ part # "alone" =>
       \A r \in Runs :
         /\ token[r] <= 1 /\ attState[r][2] = "none" /\ ckpt[r] <= 1
         /\ \A c \in Checkpoints : questions[r][c] = "none"
         /\ \A q \in Runs : holder[q] \in {NoHolder, holder[r]} \/ holder[r] = NoHolder

MCInit == Init /\ part \in DOMAIN Started
MCNext == Next /\ UNCHANGED part /\ Within'
MCSpec == MCInit /\ [][MCNext]_<<vars, part>>

Symmetry == Permutations(Holders)
=============================================================================
