------------------------------- MODULE Exeats -------------------------------
(***************************************************************************)
(* Exeats: submitted by a parent, a student or the staff; approved or      *)
(* rejected by the houseparent; picked up at the gate with the code that   *)
(* was texted to the guardian; returned.                                   *)
(*                                                                         *)
(* Each of the last four reads the exeat, checks its status as read,       *)
(* writes the new status without asking again, writes an audit row and     *)
(* texts the guardian, each awaited in turn. An audit row that cannot be   *)
(* written and a text that cannot be sent are logged and forgotten.        *)
(***************************************************************************)
EXTENDS Handlers

CONSTANTS
    ExeatIds,
    PickupCodes,   \* pickup codes; two approvals may well draw the same one
    NoPickup

ASSUME ExeatAssumptions == NoPickup \notin PickupCodes

VARIABLES
    exeats,  \* [ExeatIds -> [status, code]]
    trail,   \* the audit rows of each exeat, [from, to], oldest first
    texted,  \* the codes texted to each exeat's guardian
    been     \* history: the statuses each exeat has been in

exeatVars == <<exeats, trail, texted, been>>

\* Faulty variant of From: a return needs no pickup.
FromHome(s) == IF s \in {"APPROVED", "REJECTED"} THEN "PENDING" ELSE "APPROVED"

\* The status the handler asks for before it goes to s, and audits as "before".
From(s) == CASE s = "APPROVED"  -> "PENDING"
             [] s = "REJECTED"  -> "PENDING"
             [] s = "PICKED_UP" -> "APPROVED"
             [] s = "RETURNED"  -> "PICKED_UP"

ExeatsInit ==
    /\ exeats = [e \in ExeatIds |-> [status |-> "absent", code |-> NoPickup]]
    /\ trail = [e \in ExeatIds |-> <<>>]
    /\ texted = [e \in ExeatIds |-> {}]
    /\ been = [e \in ExeatIds |-> {}]

----------------------------------------------------------------------------
(* POST /api/hostel/exeat *)

\* The student is looked up, and a parent's link to the student.
SubmitRead(p, e) ==
    /\ exeats[e].status = "absent"
    /\ \A q \in Procs : pc[q] = "exeat_create" => job[q].exeat # e
    /\ Begin(p, [op |-> "submit", exeat |-> e], "exeat_create")
    /\ UNCHANGED exeatVars

SubmitWrite(p) ==
    /\ pc[p] = "exeat_create"
    /\ LET e == job[p].exeat IN
       /\ exeats' = [exeats EXCEPT ![e].status = "PENDING"]
       /\ been' = [been EXCEPT ![e] = @ \cup {"PENDING"}]
    /\ Finish(p)
    /\ UNCHANGED <<trail, texted>>

----------------------------------------------------------------------------
(* PATCH /api/hostel/exeat/[id] *)

\* Approve, with the code to be texted, or reject; 409 unless it is pending.
\* The staff row of whoever decides is fetched before anything is written.
DecideRead(p, e, s, c) ==
    /\ exeats[e].status = From(s)
    /\ Begin(p, [op |-> "move", exeat |-> e, to |-> s, code |-> c], "exeat_staff")
    /\ UNCHANGED exeatVars

DecideStaff(p) ==
    /\ pc[p] = "exeat_staff"
    /\ GoTo(p, "exeat_write")
    /\ UNCHANGED exeatVars

\* The gate: the exeat must be approved, and the code must be the one stored.
PickupRead(p, e, c) ==
    /\ exeats[e].status = From("PICKED_UP")
    /\ exeats[e].code = c
    /\ Begin(p, [op |-> "move", exeat |-> e, to |-> "PICKED_UP", code |-> NoPickup], "exeat_write")
    /\ UNCHANGED exeatVars

ReturnRead(p, e) ==
    /\ exeats[e].status = From("RETURNED")
    /\ Begin(p, [op |-> "move", exeat |-> e, to |-> "RETURNED", code |-> NoPickup], "exeat_write")
    /\ UNCHANGED exeatVars

\* An approval stores its code, a pickup clears it, the others leave it.
MoveWrite(p) ==
    /\ pc[p] = "exeat_write"
    /\ LET e == job[p].exeat
           s == job[p].to IN
       /\ exeats' = [exeats EXCEPT
                       ![e].status = s,
                       ![e].code = IF s \in {"APPROVED", "PICKED_UP"} THEN job[p].code ELSE @]
       /\ been' = [been EXCEPT ![e] = @ \cup {s}]
    /\ GoTo(p, "exeat_audit")
    /\ UNCHANGED <<trail, texted>>

\* Faulty variant of AuditRow: a decision is audited, a pickup is not.
AuditRowDecisions(p) ==
    IF job[p].to \in {"APPROVED", "REJECTED"}
    THEN <<[from |-> From(job[p].to), to |-> job[p].to]>> ELSE <<>>

\* What logAudit writes: "before" is the status asked for, not the one replaced.
AuditRow(p) == <<[from |-> From(job[p].to), to |-> job[p].to]>>

\* An error of the insert is swallowed.
AuditWrite(p) ==
    /\ pc[p] = "exeat_audit"
    /\ pc' = [pc EXCEPT ![p] = "exeat_text"]
    /\ \/ /\ trail' = [trail EXCEPT ![job[p].exeat] = @ \o AuditRow(p)]
          /\ UNCHANGED faults
       \/ /\ faults < MaxFaults
          /\ faults' = faults + 1
          /\ UNCHANGED trail
    /\ UNCHANGED <<exeats, texted, been, job, overlapped>>

\* An approval's message carries its code.
CodeInText(p) == IF job[p].to = "APPROVED" THEN {job[p].code} ELSE {}

\* An error of the lookup or the gateway is swallowed; so is a missing phone.
TextGuardian(p) ==
    /\ pc[p] = "exeat_text"
    /\ pc' = [pc EXCEPT ![p] = "idle"]
    /\ job' = [job EXCEPT ![p] = NoJob]
    /\ \/ /\ texted' = [texted EXCEPT ![job[p].exeat] = @ \cup CodeInText(p)]
          /\ UNCHANGED faults
       \/ /\ faults < MaxFaults
          /\ faults' = faults + 1
          /\ UNCHANGED texted
    /\ UNCHANGED <<exeats, trail, been, overlapped>>

----------------------------------------------------------------------------
ExeatsNext ==
    \/ \E p \in Procs, e \in ExeatIds :
         \/ SubmitRead(p, e)
         \/ DecideRead(p, e, "REJECTED", NoPickup)
         \/ \E c \in PickupCodes : DecideRead(p, e, "APPROVED", c) \/ PickupRead(p, e, c)
         \/ ReturnRead(p, e)
    \/ \E p \in Procs :
         \/ SubmitWrite(p)
         \/ DecideStaff(p) \/ MoveWrite(p) \/ AuditWrite(p) \/ TextGuardian(p)
         \/ Dies(p) /\ UNCHANGED exeatVars

ExeatsSpec == HandlersInit /\ ExeatsInit /\ [][ExeatsNext]_<<handlerVars, exeatVars>>

----------------------------------------------------------------------------
(* Properties *)

Statuses == {"absent", "PENDING", "APPROVED", "REJECTED", "PICKED_UP", "RETURNED"}
Moves == {"APPROVED", "REJECTED", "PICKED_UP", "RETURNED"}

ExeatStages == {"exeat_create", "exeat_staff", "exeat_write", "exeat_audit", "exeat_text"}

ExeatJobs ==
    [op : {"submit"}, exeat : ExeatIds]
      \cup [op : {"move"}, exeat : ExeatIds, to : Moves, code : PickupCodes \cup {NoPickup}]

ExeatTablesOK ==
    /\ exeats \in [ExeatIds -> [status : Statuses, code : PickupCodes \cup {NoPickup}]]
    /\ trail \in [ExeatIds -> Seq([from : Statuses, to : Moves])]
    /\ texted \in [ExeatIds -> SUBSET PickupCodes]
    /\ been \in [ExeatIds -> SUBSET Statuses]

\* The types of the variables.
ExeatsTypeOK == HandlersTypeOK(ExeatStages, ExeatJobs) /\ ExeatTablesOK

LifeCycle == INSTANCE ExeatLifeCycle
                WITH status <- [e \in ExeatIds |-> exeats[e].status], loose <- overlapped

\* The handlers implement the life cycle: in turn, an exeat goes through its
\* statuses in order; overlapping, it may lose a decision to another one, but
\* it enters no status before it has been in the one that must come first.
LifeCycleImplemented == LifeCycle!LifeSpec

\* When nothing is in progress and nothing failed, the audit trail leaves no
\* status out; with requests in turn it is the way the exeat went, each row
\* beginning where the one before ended.
TrailComplete(e) ==
    LET rows == trail[e] IN
    /\ been[e] \ {"PENDING"} = {rows[i].to : i \in DOMAIN rows}
    /\ ~overlapped /\ been[e] # {} =>
         /\ \A i \in DOMAIN rows : rows[i].from = IF i = 1 THEN "PENDING" ELSE rows[i - 1].to
         /\ exeats[e].status = IF rows = <<>> THEN "PENDING" ELSE rows[Len(rows)].to

\* An approved exeat has a code. When nothing is in progress and nothing failed
\* its guardian has been texted it, whatever other decisions ran beside, and the
\* audit trail is complete.
DecisionsTold ==
    \A e \in ExeatIds :
        /\ exeats[e].status = "APPROVED" => exeats[e].code \in PickupCodes
        /\ Quiescent /\ faults = 0 =>
             /\ TrailComplete(e)
             /\ exeats[e].status = "APPROVED" => exeats[e].code \in texted[e]
=============================================================================
