--------------------------- MODULE ExeatLifeCycle ---------------------------
(***************************************************************************)
(* The life of an exeat (a boarder's leave to go home), without handlers:  *)
(* requested, approved or rejected, picked up at the gate, returned.       *)
(*                                                                         *)
(* With requests in turn an exeat goes to a status only from the one       *)
(* before it. Once requests have overlapped (loose) it may be sent back or *)
(* past a decision, but it still enters no status without having been in   *)
(* the one before it: nobody leaves without an approval.                   *)
(*                                                                         *)
(* Exeats implements this module.                                          *)
(***************************************************************************)
CONSTANT ExeatIds

VARIABLES
    status,  \* of each exeat, "absent" until it is submitted
    been,    \* the statuses it has been in
    loose    \* requests have overlapped

lifeVars == <<status, been, loose>>

\* The status before s.
Before(s) == CASE s = "APPROVED"  -> "PENDING"
               [] s = "REJECTED"  -> "PENDING"
               [] s = "PICKED_UP" -> "APPROVED"
               [] s = "RETURNED"  -> "PICKED_UP"

Decided == {"APPROVED", "REJECTED", "PICKED_UP", "RETURNED"}

LifeInit ==
    /\ status = [e \in ExeatIds |-> "absent"]
    /\ been = [e \in ExeatIds |-> {}]
    /\ loose = FALSE

Enter(e, s) ==
    /\ status' = [status EXCEPT ![e] = s]
    /\ been' = [been EXCEPT ![e] = @ \cup {s}]

Submit(e) ==
    /\ status[e] = "absent"
    /\ Enter(e, "PENDING")
    /\ UNCHANGED loose

Move(e, s) ==
    /\ IF loose THEN Before(s) \in been[e] ELSE Before(s) = status[e]
    /\ Enter(e, s)
    /\ UNCHANGED loose

Loosen == loose' = TRUE /\ UNCHANGED <<status, been>>

LifeNext ==
    \/ \E e \in ExeatIds : Submit(e) \/ \E s \in Decided : Move(e, s)
    \/ Loosen

LifeSpec == LifeInit /\ [][LifeNext]_lifeVars
=============================================================================
