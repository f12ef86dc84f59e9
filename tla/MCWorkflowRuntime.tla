-------------------------- MODULE MCWorkflowRuntime --------------------------
(* Instances of WorkflowRuntime for TLC.                                   *)
EXTENDS WorkflowRuntime, TLC

OwnKeys == [r \in Runs |-> r]

(* Definitions: an effect alone, an effect after a question, and one of    *)
(* every other kind of step.                                               *)
EffectOnly == 0 :> "effect"
AskThenEffect == (0 :> "interrupt") @@ (1 :> "effect")
ReadThenCompute == (0 :> "read") @@ (1 :> "deterministic")

Setting(steps, who, idempotent, kinds) ==
  [steps |-> steps, reconciler |-> who, idempotent |-> idempotent, faults |-> kinds]

Ordinary == {"crash", "stop", "refuse", "lookup", "race", "late"}

SmallSettings ==
  {Setting(EffectOnly, "provider", FALSE, Ordinary),
   Setting(EffectOnly, "provider", FALSE, Ordinary \cup {"write"}),
   Setting(EffectOnly, "provider", TRUE, {"crash", "stall", "write"}),
   Setting(AskThenEffect, "owner", FALSE, Ordinary),
   Setting(ReadThenCompute, "provider", FALSE, Ordinary \cup {"write"})}
=============================================================================
