----------------------------- MODULE MCRollCall -----------------------------
(* Values for TLC: two students, of whom one has a guardian to reach; at most *)
(* one of them is absent in a roll call.                                     *)
EXTENDS RollCallServer, TLC

CONSTANTS ada, bayo

MCStudents == {ada, bayo}
MCRolls    == {r \in [MCStudents -> {"PRESENT", "ABSENT"}] :
                 r[ada] # "ABSENT" \/ r[bayo] # "ABSENT"}
Guarded    == {ada}
=============================================================================
