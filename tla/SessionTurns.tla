----------------------------- MODULE SessionTurns -----------------------------
(***************************************************************************)
(* What a conversation promises (internal/memory/event.go, the durable     *)
(* event vocabulary): its turns in order, each open until it is answered,  *)
(* fails or is abandoned for the next one, and a summary of the oldest     *)
(* ones that only grows and never reaches the newest.                      *)
(***************************************************************************)
EXTENDS Naturals

VARIABLES
  turns,    \* the status of each turn, by the number of the message that began it
  covered   \* the turns that the summary stands for

Init == turns = <<>> /\ covered = {}

Closed(s) == IF s = "open" THEN "abandoned" ELSE s

\* A new message comes after every turn and closes whatever came before it.
Begin ==
  /\ \E n \in DOMAIN turns' \ DOMAIN turns :
       /\ \A m \in DOMAIN turns : m < n
       /\ turns' = [m \in DOMAIN turns \cup {n} |-> IF m = n THEN "open" ELSE Closed(turns[m])]
  /\ UNCHANGED covered

End(status) ==
  /\ \E n \in DOMAIN turns :
       /\ turns[n] = "open"
       /\ turns' = [turns EXCEPT ![n] = status]
  /\ UNCHANGED covered

\* The summary reaches further, up to a turn that is kept.
Summarize ==
  /\ \E n \in DOMAIN turns : covered' = {m \in DOMAIN turns : m < n}
  /\ covered \subseteq covered' /\ covered # covered'
  /\ UNCHANGED turns

Next == Begin \/ End("answered") \/ End("failed") \/ Summarize

Spec == Init /\ [][Next]_<<turns, covered>>
=============================================================================
