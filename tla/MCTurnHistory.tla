--------------------------- MODULE MCTurnHistory ---------------------------
(***************************************************************************)
(* Instances of TurnHistory for TLC: several short turns in two processes, *)
(* with manual compactions, or one long turn that is compacted within.     *)
(* The processes are alike, so p1 may go first.                            *)
(***************************************************************************)
EXTENDS TurnHistory

CONSTANTS p1, p2

VARIABLE part

MCInit == Init /\ part \in {"turns", "long"}

Within ==
  IF part = "turns"
  THEN /\ Cardinality(Of(log, {"outcome"})) + Cardinality(Roots(log)) <= 3
       /\ \A i \in DOMAIN log : log[i].calls <= 1
       /\ lease.token = 1 => lease.holder # p2
  ELSE /\ Cardinality(Roots(log)) <= 1
       /\ p[p2].pc = "idle" /\ \A q \in Processes : p[q].pc # "manual"

MCNext == Next /\ UNCHANGED part /\ Within'

MCSpec == MCInit /\ [][MCNext]_<<vars, part>>
=============================================================================
