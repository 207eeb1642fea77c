------------------------- MODULE MCOfflineRollCalls -------------------------
(* Values for TLC: one student, who is present or absent. *)
EXTENDS OfflineRollCalls, TLC

CONSTANTS ada

MCStudents == {ada}
MCRolls    == [MCStudents -> {"PRESENT", "ABSENT"}]
Nobody     == {}
=============================================================================
