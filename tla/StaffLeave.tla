----------------------------- MODULE StaffLeave -----------------------------
(***************************************************************************)
(* Staff: their status, their leave and their payslips of one period.      *)
(*                                                                         *)
(* An approved leave that includes today puts its owner on leave, whatever *)
(* the owner's status was, in a query of its own; nothing puts them back   *)
(* but an edit. The payroll pays who is active or on leave and has a basic *)
(* salary, and leaves out who has a payslip.                               *)
(***************************************************************************)
EXTENDS Handlers

CONSTANTS
    Staff,
    Leaves,   \* leave requests that may be made
    OwnerOf,  \* [Leaves -> Staff]
    Running   \* the leaves whose days include today

LeaveStatuses == {"PENDING", "APPROVED", "REJECTED", "CANCELLED"}

\* LEFT stands for suspended, resigned, terminated and retired alike.
StaffStatuses == {"ACTIVE", "ON_LEAVE", "LEFT"}

ASSUME LeaveAssumptions ==
    /\ IsFiniteSet(Staff)
    /\ OwnerOf \in [Leaves -> Staff]
    /\ Running \subseteq Leaves

VARIABLES
    leaves,    \* [Leaves -> "none" or the status]
    status,    \* [Staff -> StaffStatuses]
    slips,     \* [Staff -> "none", "due" or "paid"]
    reported,  \* payslips that answers claimed to have generated
    decided,   \* decisions the owner of a leave was told of
    entered,   \* history: the status as it was last entered for a person
    granted    \* history: people whose leave of today was approved since

leaveVars == <<leaves, status, slips, reported, decided, entered, granted>>

LeaveInit ==
    /\ leaves = [l \in Leaves |-> "none"]
    /\ status = [s \in Staff |-> "ACTIVE"]
    /\ slips = [s \in Staff |-> "none"]
    /\ reported = 0
    /\ decided = [l \in Leaves |-> 0]
    /\ entered = status
    /\ granted = {}

----------------------------------------------------------------------------
(* POST /api/staff/[id]/leave *)

Apply(p, l) ==
    /\ leaves[l] = "none" /\ \A q \in Procs : pc[q] = "leave_create" => job[q].leave # l
    /\ Begin(p, [op |-> "apply", leave |-> l], "leave_create")
    /\ UNCHANGED leaveVars

ApplyWrite(p) ==
    /\ pc[p] = "leave_create"
    /\ leaves' = [leaves EXCEPT ![job[p].leave] = "PENDING"]
    /\ Finish(p)
    /\ UNCHANGED <<status, slips, reported, decided, entered, granted>>

----------------------------------------------------------------------------
(* PATCH /api/staff/leave/[leaveId] *)

\* Faulty variant of MayReview: a leave that was reviewed may be reviewed again.
MayReviewAgain(l, decision) == leaves[l] # "none"

\* Only the owner cancels, in any state.
MayReview(l, decision) ==
    \/ leaves[l] = "PENDING"
    \/ leaves[l] # "none" /\ decision = "CANCELLED"

ReviewRead(p, l, decision) ==
    /\ MayReview(l, decision)
    /\ Begin(p, [op |-> "review", leave |-> l, decision |-> decision], "leave_write")
    /\ UNCHANGED leaveVars

ReviewWrite(p) ==
    /\ pc[p] = "leave_write"
    /\ LET l == job[p].leave
           decision == job[p].decision IN
       /\ leaves' = [leaves EXCEPT ![l] = decision]
       /\ CASE decision = "APPROVED" /\ l \in Running -> GoTo(p, "leave_flip")
            [] decision = "CANCELLED"                 -> Finish(p)
            [] OTHER                                  -> GoTo(p, "leave_tell")
    /\ UNCHANGED <<status, slips, reported, decided, entered, granted>>

\* "If approved and the leave is currently active, flip the staff status."
FlipStatus(p) ==
    /\ pc[p] = "leave_flip"
    /\ LET s == OwnerOf[job[p].leave] IN
       /\ status' = [status EXCEPT ![s] = "ON_LEAVE"]
       /\ granted' = granted \cup {s}
    /\ GoTo(p, "leave_tell")
    /\ UNCHANGED <<leaves, slips, reported, decided, entered>>

TellOwner(p) ==
    /\ pc[p] = "leave_tell"
    /\ decided' = [decided EXCEPT ![job[p].leave] = @ + 1]
    /\ Finish(p)
    /\ UNCHANGED <<leaves, status, slips, reported, entered, granted>>

----------------------------------------------------------------------------
(* PUT /api/staff/[id] *)

EditStaff(p, s, new) ==
    /\ Begin(p, [op |-> "staff", staff |-> s, status |-> new], "staff_write")
    /\ UNCHANGED leaveVars

EditStaffWrite(p) ==
    /\ pc[p] = "staff_write"
    /\ LET s == job[p].staff IN
       /\ status' = [status EXCEPT ![s] = job[p].status]
       /\ entered' = [entered EXCEPT ![s] = job[p].status]
       /\ granted' = granted \ {s}
    /\ Finish(p)
    /\ UNCHANGED <<leaves, slips, reported, decided>>

----------------------------------------------------------------------------
(* POST /api/staff/payroll/periods/[id]/generate *)

Slipped == {s \in Staff : slips[s] # "none"}

PayrollRead(p) ==
    /\ Begin(p, [op |-> "payroll", slipped |-> Slipped, rows |-> {}], "pay_staff")
    /\ UNCHANGED leaveVars

\* salaried are the people with a basic salary, which an edit may enter or clear.
PayrollStaff(p, salaried) ==
    /\ pc[p] = "pay_staff"
    /\ LET rows == {s \in salaried : status[s] \in {"ACTIVE", "ON_LEAVE"}} \ job[p].slipped IN
       IF rows = {} THEN Finish(p) ELSE Carry(p, [job[p] EXCEPT !.rows = rows], "pay_write")
    /\ UNCHANGED leaveVars

\* createMany skips who has a payslip by now; the answer counts them all.
PayrollWrite(p) ==
    /\ pc[p] = "pay_write"
    /\ slips' = [s \in Staff |-> IF s \in job[p].rows \ Slipped THEN "due" ELSE slips[s]]
    /\ reported' = reported + Cardinality(job[p].rows)
    /\ Finish(p)
    /\ UNCHANGED <<leaves, status, decided, entered, granted>>

\* PATCH /api/staff/payroll/payslips/[id]
MarkSlip(p, s, mark) ==
    /\ s \in Slipped
    /\ Begin(p, [op |-> "slip", staff |-> s, mark |-> mark], "slip_write")
    /\ UNCHANGED leaveVars

MarkSlipWrite(p) ==
    /\ pc[p] = "slip_write"
    /\ slips' = [slips EXCEPT ![job[p].staff] = job[p].mark]
    /\ Finish(p)
    /\ UNCHANGED <<leaves, status, reported, decided, entered, granted>>

----------------------------------------------------------------------------
LeaveNext ==
    \E p \in Procs :
      \/ \E l \in Leaves :
           \/ Apply(p, l)
           \/ \E decision \in LeaveStatuses \ {"PENDING"} : ReviewRead(p, l, decision)
      \/ \E s \in Staff :
           \/ \E new \in StaffStatuses : EditStaff(p, s, new)
           \/ \E mark \in {"due", "paid"} : MarkSlip(p, s, mark)
      \/ PayrollRead(p)
      \/ ApplyWrite(p)
      \/ ReviewWrite(p) \/ FlipStatus(p) \/ TellOwner(p)
      \/ EditStaffWrite(p)
      \/ \E salaried \in SUBSET Staff : PayrollStaff(p, salaried)
      \/ PayrollWrite(p) \/ MarkSlipWrite(p)
      \/ Dies(p) /\ UNCHANGED leaveVars

LeaveSpec == HandlersInit /\ LeaveInit /\ [][LeaveNext]_<<handlerVars, leaveVars>>

----------------------------------------------------------------------------
(* Properties *)

LeaveStages ==
    {"leave_create", "leave_write", "leave_flip", "leave_tell", "staff_write",
     "pay_staff", "pay_write", "slip_write"}

LeaveJobs ==
    [op : {"apply"}, leave : Leaves]
      \cup [op : {"review"}, leave : Leaves, decision : LeaveStatuses]
      \cup [op : {"staff"}, staff : Staff, status : StaffStatuses]
      \cup [op : {"payroll"}, slipped : SUBSET Staff, rows : SUBSET Staff]
      \cup [op : {"slip"}, staff : Staff, mark : {"due", "paid"}]

LeaveTablesOK ==
    /\ leaves \in [Leaves -> LeaveStatuses \cup {"none"}]
    /\ status \in [Staff -> StaffStatuses] /\ entered \in [Staff -> StaffStatuses]
    /\ slips \in [Staff -> {"none", "due", "paid"}]
    /\ reported \in Nat /\ decided \in [Leaves -> Nat]
    /\ granted \subseteq Staff

\* The types of the variables.
LeaveTypeOK == HandlersTypeOK(LeaveStages, LeaveJobs) /\ LeaveTablesOK

\* A leave is decided once, or as often as reviewers found it pending side by
\* side, and a payslip is reported once, or as often as payrolls ran side by
\* side. With requests in turn a person's status is what was entered last
\* unless a leave of today was approved since, which puts on leave, and so on
\* the payroll, even who had left; cancelling that leave does not undo it.
LeaveAndPayAgree ==
    /\ \A l \in Leaves : decided[l] <= Cardinality(Procs)
    /\ reported >= Cardinality(Slipped)
    /\ reported <= Cardinality(Slipped) * Cardinality(Procs)
    /\ ~overlapped =>
         /\ \A l \in Leaves : decided[l] <= 1
         /\ \A s \in Staff : status[s] = IF s \in granted THEN "ON_LEAVE" ELSE entered[s]
         /\ \A s \in granted : \E l \in Running : OwnerOf[l] = s /\ leaves[l] \in {"APPROVED", "CANCELLED"}
         /\ reported = Cardinality(Slipped)
=============================================================================
