------------------------ MODULE MCWorkflowSchedules ------------------------
(* An instance of WorkflowSchedules: a timetable and its Run Keys for TLC. *)
EXTENDS WorkflowSchedules

(* The second slot was shifted out of a gap to the first one's time.       *)
ShiftedSlots == <<1, 1, 2>>

(* The first two slots share a Run Key.                                    *)
SharedKeys == [s \in Slots |-> IF s <= 2 THEN 1 ELSE 2]
=============================================================================
