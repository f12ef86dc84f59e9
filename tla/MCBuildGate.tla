---------------------------- MODULE MCBuildGate ----------------------------
(* A small instance of the merge gate in one process: two builds, gated by *)
(* a chat and the owner while calls are lost and the owner commits, or one *)
(* build that is continued under the owner's gate.                         *)
EXTENDS BuildGate, TLC

CONSTANTS b1, b2, chat, owner, serve

VARIABLE part  \* which of the two this behaviour is

OneProcess == chat :> serve @@ owner :> serve

(* What each part leaves out.                                              *)
Within ==
    CASE part = "builds" -> OwnerCommitted <= 1 /\ \A b \in Builds: latest[b] = 0
      [] part = "continued" ->
            /\ losses = 0 /\ stage[chat] = "idle" /\ latest[b2] = 0
            /\ \A n \in Numbers: gate[<<b2, n>>].step = "none"

MCInit == GateInit /\ part \in {"builds", "continued"}
MCNext == GateNext /\ UNCHANGED part /\ Within'
MCSpec == MCInit /\ [][MCNext]_<<gateVars, part>> /\ GateFairness
=============================================================================
