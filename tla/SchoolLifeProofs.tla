-------------------------- MODULE SchoolLifeProofs --------------------------
(***************************************************************************)
(* Proofs about the services of a school's daily life: exeats, hostel      *)
(* beds, leave with the payroll, mark sheets, report cards and the         *)
(* timetable. For any number of requests at a time and faults, and any     *)
(* exeats, hostels, rooms, students, staff, leaves, pupils, scores,        *)
(* sections and hours.                                                     *)
(***************************************************************************)
EXTENDS Exeats, HostelBeds, StaffLeave, ReportCards, Timetables, HandlersProofs, SequenceTheorems

----------------------------------------------------------------------------
(* Exeats *)

SubmitJobs == [op : {"submit"}, exeat : ExeatIds]

(* Who approves brings a code.                                               *)
MoveJobs ==
    {j \in [op : {"move"}, exeat : ExeatIds, to : Moves, code : PickupCodes \cup {NoPickup}] :
        j.to = "APPROVED" => j.code \in PickupCodes}

(* LifeCycleImplemented is not inductive: a move checks a status long before *)
(* it writes the next. What a request has found out still holds when it      *)
(* writes: the exeat has been in the status it asked for, and with requests  *)
(* in turn is in it now; an exeat to be submitted is absent.                 *)
Informed(p) ==
    /\ pc[p] = "exeat_create" =>
         job[p] \in SubmitJobs /\ exeats[job[p].exeat].status = "absent"
    /\ pc[p] \in {"exeat_staff", "exeat_write"} =>
         /\ job[p] \in MoveJobs
         /\ From(job[p].to) \in been[job[p].exeat]
         /\ ~overlapped => exeats[job[p].exeat].status = From(job[p].to)
    /\ pc[p] \in {"exeat_audit", "exeat_text"} => job[p] \in MoveJobs

AllInformed == \A p \in Procs : Informed(p)

OneCreator ==
    \A p, q \in Procs : pc[p] = "exeat_create" /\ pc[q] = "exeat_create"
                        /\ job[p].exeat = job[q].exeat => p = q

BeenThere ==
    \A e \in ExeatIds :
        IF exeats[e].status = "absent" THEN been[e] = {} ELSE exeats[e].status \in been[e]

Coded == \A e \in ExeatIds : exeats[e].status = "APPROVED" => exeats[e].code \in PickupCodes

LifeInv == ExeatsTypeOK /\ Lone /\ AllInformed /\ OneCreator /\ BeenThere /\ Coded

LEMMA FromType ==
    ASSUME NEW s \in Moves
    PROVE  From(s) \in Statuses /\ From(s) # "absent"
BY DEF From, Moves, Statuses

LEMMA JobTypes ==
    /\ SubmitJobs \subseteq ExeatJobs /\ MoveJobs \subseteq ExeatJobs
    /\ \A j \in MoveJobs : j.exeat \in ExeatIds /\ j.to \in Moves
    /\ \A j \in SubmitJobs : j.exeat \in ExeatIds
BY DEF SubmitJobs, MoveJobs, ExeatJobs

LEMMA LifeInitial == HandlersInit /\ ExeatsInit => LifeInv
<1> SUFFICES ASSUME HandlersInit, ExeatsInit PROVE LifeInv
    OBVIOUS
<1>1. HandlersTypeOK(ExeatStages, ExeatJobs) /\ Lone /\ Quiescent
    BY HandlersInitType
<1>2. ExeatTablesOK
    BY EmptySeq DEF ExeatsInit, ExeatTablesOK, Statuses
<1>3. AllInformed /\ OneCreator
    BY <1>1 DEF Quiescent, AllInformed, Informed, OneCreator
<1>4. BeenThere /\ Coded
    BY DEF ExeatsInit, BeenThere, Coded
<1> QED BY <1>1, <1>2, <1>3, <1>4 DEF LifeInv, ExeatsTypeOK

(* A step that leaves the tables alone, and after which p is informed.       *)
LEMMA LifeFrame ==
    ASSUME LifeInv, HandlersTypeOK(ExeatStages, ExeatJobs)', Lone', UNCHANGED <<exeats, been>>,
           ExeatTablesOK', overlapped => overlapped',
           NEW p \in Procs, OthersStay(p), Informed(p)',
           pc'[p] = "exeat_create" =>
              \A q \in Procs : pc[q] = "exeat_create" => job[q].exeat # job'[p].exeat
    PROVE  LifeInv'
<1>1. ASSUME NEW q \in Procs, q # p PROVE Informed(q)'
    BY <1>1 DEF LifeInv, AllInformed, Informed, OthersStay
<1>2. AllInformed'
    BY <1>1 DEF AllInformed
<1>3. OneCreator'
    BY DEF LifeInv, OneCreator, OthersStay
<1>4. BeenThere' /\ Coded'
    BY DEF LifeInv, BeenThere, Coded
<1> QED BY <1>2, <1>3, <1>4 DEF LifeInv, ExeatsTypeOK

(* What the taking up of a request leaves as it was.                         *)
TakenUp(p) ==
    /\ OthersStay(p) /\ pc[p] = "idle" /\ pc'[p] \in {"exeat_create", "exeat_staff", "exeat_write"}
    /\ overlapped => overlapped'
    /\ faults' = faults

(* A request is taken up: its checks are what Informed asks for.             *)
LEMMA LifeBegin ==
    ASSUME LifeInv, NEW p \in Procs, NEW e \in ExeatIds,
           \/ SubmitRead(p, e)
           \/ DecideRead(p, e, "REJECTED", NoPickup)
           \/ \E c \in PickupCodes : DecideRead(p, e, "APPROVED", c) \/ PickupRead(p, e, c)
           \/ ReturnRead(p, e)
    PROVE  LifeInv' /\ UNCHANGED exeatVars /\ TakenUp(p)
<1> DEFINE move(s, c) == [op |-> "move", exeat |-> e, to |-> s, code |-> c]
<1>0. HandlersTypeOK(ExeatStages, ExeatJobs) /\ Lone /\ "idle" \notin ExeatStages
    BY DEF LifeInv, ExeatsTypeOK, ExeatStages
<1>1. CASE SubmitRead(p, e)
    <2> DEFINE j == [op |-> "submit", exeat |-> e]
    <2>1. j \in SubmitJobs /\ j \in ExeatJobs /\ j.exeat = e
        BY JobTypes DEF SubmitJobs
    <2>2. "exeat_create" \in ExeatStages
        BY DEF ExeatStages
    <2>3. /\ HandlersTypeOK(ExeatStages, ExeatJobs)' /\ Lone'
          /\ pc'[p] = "exeat_create" /\ job'[p] = j /\ OthersStay(p)
          /\ (overlapped => overlapped') /\ pc[p] = "idle" /\ faults' = faults
        BY <1>0, <1>1, <2>1, <2>2, BeginStep DEF SubmitRead
    <2>4. UNCHANGED exeatVars /\ exeats[e].status = "absent"
          /\ \A q \in Procs : pc[q] = "exeat_create" => job[q].exeat # e
        BY <1>1 DEF SubmitRead
    <2>5. UNCHANGED <<exeats, been>> /\ ExeatTablesOK'
        BY <2>4 DEF exeatVars, ExeatTablesOK, LifeInv, ExeatsTypeOK
    <2>6. Informed(p)'
        BY <2>1, <2>3, <2>4, <2>5 DEF Informed
    <2>7. LifeInv'
        BY <2>1, <2>3, <2>4, <2>5, <2>6, LifeFrame
    <2> QED BY <2>3, <2>4, <2>7 DEF TakenUp
<1>2. ASSUME NEW s \in Moves, NEW c \in PickupCodes \cup {NoPickup}, NEW stage \in {"exeat_staff", "exeat_write"},
             s = "APPROVED" => c \in PickupCodes,
             exeats[e].status = From(s), Begin(p, move(s, c), stage), UNCHANGED exeatVars
      PROVE  LifeInv' /\ UNCHANGED exeatVars /\ TakenUp(p)
    <2>1. move(s, c) \in MoveJobs /\ move(s, c) \in ExeatJobs
          /\ move(s, c).exeat = e /\ move(s, c).to = s
        BY <1>2, JobTypes DEF MoveJobs
    <2>2. stage \in ExeatStages
        BY DEF ExeatStages
    <2> HIDE DEF move
    <2>3. /\ HandlersTypeOK(ExeatStages, ExeatJobs)' /\ Lone'
          /\ pc'[p] = stage /\ job'[p] = move(s, c) /\ OthersStay(p)
          /\ (overlapped => overlapped') /\ pc[p] = "idle" /\ faults' = faults
        BY <1>0, <1>2, <2>1, <2>2, BeginStep
    <2>4. UNCHANGED <<exeats, been>> /\ ExeatTablesOK'
        BY <1>2 DEF exeatVars, ExeatTablesOK, LifeInv, ExeatsTypeOK
    <2>5. From(s) \in been[e]
        BY <1>2, FromType DEF LifeInv, BeenThere
    <2>6. Informed(p)'
        BY <1>2, <2>1, <2>3, <2>4, <2>5 DEF Informed
    <2>7. LifeInv'
        BY <1>2, <2>3, <2>4, <2>6, LifeFrame
    <2> QED BY <1>2, <2>3, <2>7 DEF TakenUp
<1>3. CASE DecideRead(p, e, "REJECTED", NoPickup)
    BY <1>2, <1>3 DEF DecideRead, Moves
<1>4. ASSUME NEW c \in PickupCodes, DecideRead(p, e, "APPROVED", c)
      PROVE  LifeInv' /\ UNCHANGED exeatVars /\ TakenUp(p)
    BY <1>2, <1>4 DEF DecideRead, Moves
<1>5. ASSUME NEW c \in PickupCodes, PickupRead(p, e, c)
      PROVE  LifeInv' /\ UNCHANGED exeatVars /\ TakenUp(p)
    BY <1>2, <1>5 DEF PickupRead, Moves
<1>6. CASE ReturnRead(p, e)
    BY <1>2, <1>6 DEF ReturnRead, Moves
<1> QED BY <1>1, <1>3, <1>4, <1>5, <1>6

(* The exeat is entered in the table.                                        *)
LEMMA LifeSubmit ==
    ASSUME LifeInv, NEW p \in Procs, SubmitWrite(p)
    PROVE  LifeInv' /\ OthersStay(p) /\ pc'[p] = "idle"
<1> DEFINE e == job[p].exeat
<1>1. e \in ExeatIds /\ exeats[e].status = "absent" /\ pc[p] = "exeat_create"
    BY JobTypes DEF SubmitWrite, LifeInv, AllInformed, Informed
<1>2. /\ exeats'[e].status = "PENDING" /\ been'[e] = been[e] \cup {"PENDING"}
      /\ \A f \in ExeatIds : f # e => exeats'[f] = exeats[f] /\ been'[f] = been[f]
    BY <1>1 DEF SubmitWrite, LifeInv, ExeatsTypeOK, ExeatTablesOK
<1>3. /\ HandlersTypeOK(ExeatStages, ExeatJobs)' /\ Lone'
      /\ pc'[p] = "idle" /\ OthersStay(p) /\ overlapped' = overlapped
    BY <1>1, FinishStep DEF SubmitWrite, LifeInv, ExeatsTypeOK
<1>4. ExeatTablesOK'
    <2>1. "PENDING" \in Statuses
        BY DEF Statuses
    <2> QED BY <1>1, <2>1 DEF SubmitWrite, LifeInv, ExeatsTypeOK, ExeatTablesOK
<1>5. ASSUME NEW q \in Procs PROVE Informed(q)'
    <2>1. CASE q = p
        BY <1>3, <2>1 DEF Informed
    <2>2. CASE q # p
        <3>1. pc'[q] = pc[q] /\ job'[q] = job[q] /\ Informed(q)
            BY <1>3, <2>2 DEF OthersStay, LifeInv, AllInformed
        <3>2. pc[q] = "exeat_create" => job[q].exeat # e /\ job[q].exeat \in ExeatIds
            BY <1>1, <2>2, <3>1, JobTypes DEF LifeInv, OneCreator, Informed
        <3>3. pc[q] # "idle" => overlapped
            BY <1>1, <2>2 DEF LifeInv, Lone
        <3>4. job[q] \in MoveJobs => been[job[q].exeat] \subseteq been'[job[q].exeat]
            BY <1>2, JobTypes
        <3> QED BY <1>2, <1>3, <3>1, <3>2, <3>3, <3>4 DEF Informed
    <2> QED BY <2>1, <2>2
<1>6. OneCreator'
    BY <1>3 DEF LifeInv, OneCreator, OthersStay
<1>7. BeenThere' /\ Coded'
    BY <1>2 DEF LifeInv, BeenThere, Coded
<1> QED BY <1>3, <1>4, <1>5, <1>6, <1>7 DEF LifeInv, ExeatsTypeOK, AllInformed

(* A move is written: the exeat leaves whatever status it is in by then.     *)
LEMMA LifeMove ==
    ASSUME LifeInv, NEW p \in Procs, MoveWrite(p)
    PROVE  LifeInv' /\ OthersStay(p) /\ pc'[p] = "exeat_audit" /\ job' = job
<1> DEFINE e == job[p].exeat
           s == job[p].to
<1>1. e \in ExeatIds /\ s \in Moves /\ job[p] \in MoveJobs /\ pc[p] = "exeat_write"
    BY JobTypes DEF MoveWrite, LifeInv, AllInformed, Informed
<1>2. /\ exeats'[e].status = s /\ been'[e] = been[e] \cup {s}
      /\ s = "APPROVED" => exeats'[e].code = job[p].code
      /\ \A f \in ExeatIds : f # e => exeats'[f] = exeats[f] /\ been'[f] = been[f]
    BY <1>1 DEF MoveWrite, LifeInv, ExeatsTypeOK, ExeatTablesOK
<1>3. /\ HandlersTypeOK(ExeatStages, ExeatJobs)' /\ Lone'
      /\ pc'[p] = "exeat_audit" /\ job' = job /\ OthersStay(p) /\ overlapped' = overlapped
    BY <1>1, GoToStep DEF MoveWrite, LifeInv, ExeatsTypeOK, ExeatStages
<1>4. ExeatTablesOK'
    <2>1. job[p].code \in PickupCodes \cup {NoPickup} /\ s \in Statuses
        BY <1>1 DEF MoveJobs, Moves, Statuses
    <2>2. ExeatTablesOK /\ trail' = trail /\ texted' = texted
        BY DEF LifeInv, ExeatsTypeOK, MoveWrite
    <2>3. been' \in [ExeatIds -> SUBSET Statuses]
        <3>1. been[e] \cup {s} \in SUBSET Statuses /\ been' = [been EXCEPT ![e] = been[e] \cup {s}]
            BY <1>1, <2>1, <2>2 DEF MoveWrite, ExeatTablesOK
        <3> QED BY <2>2, <3>1 DEF ExeatTablesOK
    <2>4. exeats' \in [ExeatIds -> [status : Statuses, code : PickupCodes \cup {NoPickup}]]
        <3>1. PICK row \in [status : Statuses, code : PickupCodes \cup {NoPickup}] :
                  exeats' = [exeats EXCEPT ![e] = row]
            <4>1. exeats[e] \in [status : Statuses, code : PickupCodes \cup {NoPickup}]
                BY <1>1, <2>2 DEF ExeatTablesOK
            <4>2. exeats' = [exeats EXCEPT
                       ![e] = [exeats[e] EXCEPT !.status = s,
                                 !.code = IF s \in {"APPROVED", "PICKED_UP"} THEN job[p].code ELSE @]]
                BY <1>1, <2>2 DEF MoveWrite, ExeatTablesOK
            <4>3. [exeats[e] EXCEPT !.status = s,
                                    !.code = IF s \in {"APPROVED", "PICKED_UP"} THEN job[p].code ELSE @]
                      \in [status : Statuses, code : PickupCodes \cup {NoPickup}]
                BY <2>1, <4>1
            <4> QED BY <4>2, <4>3
        <3> QED BY <2>2, <3>1 DEF ExeatTablesOK
    <2> QED BY <2>2, <2>3, <2>4 DEF ExeatTablesOK
<1>5. ASSUME NEW q \in Procs PROVE Informed(q)'
    <2>1. CASE q = p
        BY <1>1, <1>3, <2>1 DEF Informed
    <2>2. CASE q # p
        <3>1. pc'[q] = pc[q] /\ job'[q] = job[q] /\ Informed(q)
            BY <1>3, <2>2 DEF OthersStay, LifeInv, AllInformed
        <3>2. pc[q] # "idle" => overlapped
            BY <1>1, <2>2 DEF LifeInv, Lone
        <3>3. job[q] \in MoveJobs => been[job[q].exeat] \subseteq been'[job[q].exeat]
            BY <1>2, JobTypes
        <3>4. ASSUME pc[q] = "exeat_create"
              PROVE  job[q].exeat \in ExeatIds /\ job[q].exeat # e
            <4>1. /\ job[q].exeat \in ExeatIds /\ been[job[q].exeat] = {}
                BY <3>1, <3>4, JobTypes DEF Informed, LifeInv, BeenThere
            <4>2. been[e] # {}
                BY <1>1 DEF LifeInv, AllInformed, Informed
            <4> QED BY <4>1, <4>2
        <3> QED BY <1>2, <1>3, <3>1, <3>2, <3>3, <3>4 DEF Informed
    <2> QED BY <2>1, <2>2
<1>6. OneCreator'
    BY <1>3 DEF LifeInv, OneCreator, OthersStay
<1>7. BeenThere' /\ Coded'
    <2>1. s = "APPROVED" => job[p].code \in PickupCodes
        BY <1>1 DEF MoveJobs
    <2>2. s # "absent"
        BY <1>1 DEF Moves
    <2> QED BY <1>2, <2>1, <2>2 DEF LifeInv, BeenThere, Coded
<1> QED BY <1>3, <1>4, <1>5, <1>6, <1>7 DEF LifeInv, ExeatsTypeOK, AllInformed

(* The trail after an audit, and the codes after a text.                     *)
LEMMA TrailStep ==
    ASSUME LifeInv, NEW p \in Procs, job[p] \in MoveJobs
    PROVE  /\ AuditRow(p) \in Seq([from : Statuses, to : Moves])
           /\ Len(AuditRow(p)) = 1 /\ AuditRow(p)[1] = [from |-> From(job[p].to), to |-> job[p].to]
           /\ CodeInText(p) \subseteq PickupCodes
<1>1. job[p].to \in Moves /\ From(job[p].to) \in Statuses
    BY JobTypes, FromType
<1>2. [from |-> From(job[p].to), to |-> job[p].to] \in [from : Statuses, to : Moves]
    BY <1>1
<1>3. CodeInText(p) \subseteq PickupCodes
    BY DEF CodeInText, MoveJobs
<1> QED BY <1>2, <1>3 DEF AuditRow

(* The steps that write neither a status nor a code of the table.            *)
LEMMA LifeOther ==
    ASSUME LifeInv, NEW p \in Procs,
           DecideStaff(p) \/ AuditWrite(p) \/ TextGuardian(p) \/ (Dies(p) /\ UNCHANGED exeatVars)
    PROVE  LifeInv' /\ UNCHANGED <<exeats, been, overlapped>> /\ OthersStay(p)
<1>0. HandlersTypeOK(ExeatStages, ExeatJobs) /\ Lone /\ ExeatTablesOK
      /\ "idle" \notin ExeatStages /\ Informed(p)
    BY DEF LifeInv, ExeatsTypeOK, ExeatStages, AllInformed
<1>1. CASE DecideStaff(p)
    <2>1. pc[p] = "exeat_staff" /\ GoTo(p, "exeat_write") /\ UNCHANGED exeatVars
        BY <1>1 DEF DecideStaff
    <2>2. /\ HandlersTypeOK(ExeatStages, ExeatJobs)' /\ Lone' /\ pc'[p] = "exeat_write"
          /\ job' = job /\ OthersStay(p) /\ overlapped' = overlapped
        BY <1>0, <2>1, GoToStep DEF ExeatStages
    <2>3. UNCHANGED <<exeats, been>> /\ ExeatTablesOK'
        BY <1>0, <2>1 DEF exeatVars, ExeatTablesOK
    <2>4. Informed(p)'
        BY <1>0, <2>1, <2>2, <2>3 DEF Informed
    <2> QED BY <2>2, <2>3, <2>4, LifeFrame
<1>2. CASE AuditWrite(p)
    <2>1. pc[p] = "exeat_audit" /\ UNCHANGED <<exeats, texted, been, job, overlapped>>
          /\ pc' = [pc EXCEPT ![p] = "exeat_text"]
        BY <1>2, SMTT(30) DEF AuditWrite
    <2>0. UNCHANGED faults \/ (faults < MaxFaults /\ faults' = faults + 1)
        BY <1>2 DEF AuditWrite
    <2>2. /\ HandlersTypeOK(ExeatStages, ExeatJobs)' /\ Lone' /\ pc'[p] = "exeat_text"
          /\ OthersStay(p)
        <3>1. Lossy(p, "exeat_text")
            BY <2>0, <2>1 DEF Lossy
        <3>2. "exeat_text" \in ExeatStages \cup {"idle"}
            BY DEF ExeatStages
        <3> QED BY <1>0, <3>1, <3>2, LossyStep
    <2>3. job[p] \in MoveJobs /\ job[p].exeat \in ExeatIds
        BY <1>0, <2>1, JobTypes, SMTT(30) DEF Informed
    <2>4. trail' = [trail EXCEPT ![job[p].exeat] = @ \o AuditRow(p)] \/ UNCHANGED trail
        BY <1>2 DEF AuditWrite
    <2>5. trail' \in [ExeatIds -> Seq([from : Statuses, to : Moves])]
        <3>1. PICK rows \in Seq([from : Statuses, to : Moves]) : rows = trail[job[p].exeat] \o AuditRow(p)
            BY <1>0, <2>3, TrailStep, ConcatProperties DEF ExeatTablesOK
        <3>2. trail' = [trail EXCEPT ![job[p].exeat] = rows] \/ trail' = trail
            BY <2>4, <3>1
        <3>3. trail \in [ExeatIds -> Seq([from : Statuses, to : Moves])]
            BY <1>0 DEF ExeatTablesOK
        <3> QED BY <3>2, <3>3
    <2>6. UNCHANGED <<exeats, been>> /\ ExeatTablesOK'
        BY <1>0, <2>1, <2>5 DEF ExeatTablesOK
    <2>7. Informed(p)'
        BY <2>1, <2>2, <2>3 DEF Informed
    <2> QED BY <2>1, <2>2, <2>6, <2>7, LifeFrame
<1>3. CASE TextGuardian(p)
    <2>1. pc[p] = "exeat_text" /\ UNCHANGED <<exeats, trail, been, overlapped>>
          /\ pc' = [pc EXCEPT ![p] = "idle"] /\ job' = [job EXCEPT ![p] = NoJob]
        BY <1>3 DEF TextGuardian
    <2>0. UNCHANGED faults \/ (faults < MaxFaults /\ faults' = faults + 1)
        BY <1>3 DEF TextGuardian
    <2>2. /\ HandlersTypeOK(ExeatStages, ExeatJobs)' /\ Lone' /\ pc'[p] = "idle"
          /\ OthersStay(p)
        <3>1. Lossy(p, "idle")
            BY <2>0, <2>1 DEF Lossy
        <3> QED BY <1>0, <3>1, LossyStep
    <2>3. job[p] \in MoveJobs /\ job[p].exeat \in ExeatIds
        BY <1>0, <2>1, JobTypes DEF Informed
    <2>4. texted' = [texted EXCEPT ![job[p].exeat] = @ \cup CodeInText(p)] \/ UNCHANGED texted
        BY <1>3 DEF TextGuardian
    <2>5. texted' \in [ExeatIds -> SUBSET PickupCodes]
        <3>1. PICK codes \in SUBSET PickupCodes : codes = texted[job[p].exeat] \cup CodeInText(p)
            BY <1>0, <2>3, TrailStep DEF ExeatTablesOK
        <3>2. texted' = [texted EXCEPT ![job[p].exeat] = codes] \/ texted' = texted
            BY <2>4, <3>1
        <3>3. texted \in [ExeatIds -> SUBSET PickupCodes]
            BY <1>0 DEF ExeatTablesOK
        <3> QED BY <3>2, <3>3
    <2>6. UNCHANGED <<exeats, been>> /\ ExeatTablesOK'
        BY <1>0, <2>1, <2>5 DEF ExeatTablesOK
    <2>7. Informed(p)'
        BY <2>2 DEF Informed
    <2> QED BY <2>1, <2>2, <2>6, <2>7, LifeFrame
<1>4. CASE Dies(p) /\ UNCHANGED exeatVars
    <2>1. pc[p] # "idle" /\ UNCHANGED <<exeats, been>> /\ ExeatTablesOK'
        BY <1>0, <1>4 DEF Dies, exeatVars, ExeatTablesOK
    <2>2. /\ HandlersTypeOK(ExeatStages, ExeatJobs)' /\ Lone' /\ pc'[p] = "idle"
          /\ OthersStay(p) /\ overlapped' = overlapped
        BY <1>0, <1>4, <2>1, FinishStep
    <2>3. Informed(p)'
        BY <2>2 DEF Informed
    <2> QED BY <2>1, <2>2, <2>3, LifeFrame
<1> QED BY <1>1, <1>2, <1>3, <1>4

LEMMA LifeStutter ==
    ASSUME LifeInv, UNCHANGED <<handlerVars, exeatVars>>
    PROVE  LifeInv'
BY DEF LifeInv, handlerVars, exeatVars, ExeatsTypeOK, HandlersTypeOK, ExeatTablesOK, Lone,
       AllInformed, Informed, OneCreator, BeenThere, Coded

LEMMA LifeInductive == LifeInv /\ [ExeatsNext]_<<handlerVars, exeatVars>> => LifeInv'
<1> SUFFICES ASSUME LifeInv, ExeatsNext PROVE LifeInv'
    BY LifeStutter
<1>1. ASSUME NEW p \in Procs, NEW e \in ExeatIds,
             \/ SubmitRead(p, e)
             \/ DecideRead(p, e, "REJECTED", NoPickup)
             \/ \E c \in PickupCodes : DecideRead(p, e, "APPROVED", c) \/ PickupRead(p, e, c)
             \/ ReturnRead(p, e)
      PROVE  LifeInv'
    BY <1>1, LifeBegin
<1>2. ASSUME NEW p \in Procs,
             \/ SubmitWrite(p)
             \/ DecideStaff(p) \/ MoveWrite(p) \/ AuditWrite(p) \/ TextGuardian(p)
             \/ Dies(p) /\ UNCHANGED exeatVars
      PROVE  LifeInv'
    BY <1>2, LifeSubmit, LifeMove, LifeOther
<1> QED BY <1>1, <1>2 DEF ExeatsNext

(* The types of the exeats, their trail, their texts and their requests.     *)
THEOREM ExeatTypes == ExeatsSpec => []ExeatsTypeOK
<1>1. LifeInv => ExeatsTypeOK
    BY DEF LifeInv
<1> QED BY <1>1, LifeInitial, LifeInductive, PTL DEF ExeatsSpec

(* A status written is entered in the life cycle.                            *)
LEMMA EnterStep ==
    ASSUME LifeInv, NEW e \in ExeatIds, NEW s, NEW c,
           exeats' = [exeats EXCEPT ![e].status = s, ![e].code = c],
           been' = [been EXCEPT ![e] = @ \cup {s}]
    PROVE  LifeCycle!Enter(e, s)
<1>1. exeats \in [ExeatIds -> [status : Statuses, code : PickupCodes \cup {NoPickup}]]
    BY DEF LifeInv, ExeatsTypeOK, ExeatTablesOK
<1>2. \A f \in ExeatIds : exeats'[f].status = IF f = e THEN s ELSE exeats[f].status
    BY <1>1
<1> QED BY <1>2 DEF LifeCycle!Enter

(* Every step of the handlers is a step of the life cycle or none at all.    *)
LEMMA LifeCycleStep ==
    ASSUME LifeInv, [ExeatsNext]_<<handlerVars, exeatVars>>
    PROVE  [LifeCycle!LifeNext]_(LifeCycle!lifeVars)
<1>1. CASE UNCHANGED <<handlerVars, exeatVars>>
    BY <1>1 DEF handlerVars, exeatVars, LifeCycle!lifeVars
<1>2. ASSUME NEW p \in Procs, NEW e \in ExeatIds,
             \/ SubmitRead(p, e)
             \/ DecideRead(p, e, "REJECTED", NoPickup)
             \/ \E c \in PickupCodes : DecideRead(p, e, "APPROVED", c) \/ PickupRead(p, e, c)
             \/ ReturnRead(p, e)
      PROVE  [LifeCycle!LifeNext]_(LifeCycle!lifeVars)
    <2>1. LifeInv' /\ UNCHANGED exeatVars /\ (overlapped => overlapped')
        BY <1>2, LifeBegin DEF TakenUp
    <2>2. overlapped \in BOOLEAN /\ overlapped' \in BOOLEAN
        BY <2>1 DEF LifeInv, ExeatsTypeOK, HandlersTypeOK
    <2>3. overlapped' = overlapped \/ overlapped' = TRUE
        BY <2>1, <2>2
    <2> QED BY <2>1, <2>3 DEF exeatVars, LifeCycle!LifeNext, LifeCycle!Loosen, LifeCycle!lifeVars
<1>3. ASSUME NEW p \in Procs,
             DecideStaff(p) \/ AuditWrite(p) \/ TextGuardian(p) \/ (Dies(p) /\ UNCHANGED exeatVars)
      PROVE  [LifeCycle!LifeNext]_(LifeCycle!lifeVars)
    <2>1. UNCHANGED <<exeats, been, overlapped>>
        BY <1>3, LifeOther
    <2> QED BY <2>1 DEF LifeCycle!lifeVars
<1>4. ASSUME NEW p \in Procs, SubmitWrite(p)
      PROVE  LifeCycle!LifeNext
    <2>0. PICK e \in ExeatIds : job[p].exeat = e
        BY <1>4, JobTypes DEF SubmitWrite, LifeInv, AllInformed, Informed
    <2>1. exeats[e].status = "absent"
        BY <1>4, <2>0 DEF SubmitWrite, LifeInv, AllInformed, Informed
    <2>2. exeats' = [exeats EXCEPT ![e].status = "PENDING", ![e].code = exeats[e].code]
        BY <1>4, <2>0 DEF SubmitWrite, LifeInv, ExeatsTypeOK, ExeatTablesOK
    <2>3. LifeCycle!Enter(e, "PENDING")
        BY <1>4, <2>0, <2>2, EnterStep DEF SubmitWrite
    <2>4. UNCHANGED overlapped
        BY <1>4 DEF SubmitWrite, Finish
    <2>5. LifeCycle!Submit(e)
        BY <2>1, <2>3, <2>4 DEF LifeCycle!Submit
    <2> QED BY <2>1, <2>5 DEF LifeCycle!LifeNext
<1>5. ASSUME NEW p \in Procs, MoveWrite(p)
      PROVE  LifeCycle!LifeNext
    <2>0. PICK e \in ExeatIds, s \in Moves : job[p].exeat = e /\ job[p].to = s
        BY <1>5, JobTypes DEF MoveWrite, LifeInv, AllInformed, Informed
    <2>1. From(s) \in been[e] /\ (~overlapped => exeats[e].status = From(s))
        BY <1>5, <2>0 DEF MoveWrite, LifeInv, AllInformed, Informed
    <2>2. PICK c : exeats' = [exeats EXCEPT ![e].status = s, ![e].code = c]
        <3>1. exeats' = [exeats EXCEPT ![e].status = s,
                             ![e].code = IF s \in {"APPROVED", "PICKED_UP"} THEN job[p].code
                                         ELSE exeats[e].code]
            BY <1>5, <2>0 DEF MoveWrite, LifeInv, ExeatsTypeOK, ExeatTablesOK
        <3> QED BY <3>1
    <2>3. LifeCycle!Enter(e, s)
        BY <1>5, <2>0, <2>2, EnterStep, ZenonT(60) DEF MoveWrite
    <2>4. UNCHANGED overlapped
        BY <1>5 DEF MoveWrite, GoTo
    <2>5. LifeCycle!Before(s) = From(s) /\ s \in LifeCycle!Decided
        BY DEF Moves, From, LifeCycle!Before, LifeCycle!Decided
    <2>6. LifeCycle!Move(e, s)
        BY <2>1, <2>3, <2>4, <2>5 DEF LifeCycle!Move
    <2> QED BY <2>1, <2>5, <2>6 DEF LifeCycle!LifeNext
<1> QED BY <1>1, <1>2, <1>3, <1>4, <1>5 DEF ExeatsNext

(* The exeat handlers implement the life of an exeat: with requests in turn  *)
(* it goes through its statuses in order, and however they overlap it enters *)
(* none without having been in the one before.                               *)
THEOREM ExeatsImplementLifeCycle == ExeatsSpec => LifeCycleImplemented
<1>1. HandlersInit /\ ExeatsInit => LifeCycle!LifeInit
    BY DEF HandlersInit, ExeatsInit, LifeCycle!LifeInit
<1>2. LifeInv /\ [ExeatsNext]_<<handlerVars, exeatVars>> => [LifeCycle!LifeNext]_(LifeCycle!lifeVars)
    BY LifeCycleStep
<1> QED BY <1>1, <1>2, LifeInitial, LifeInductive, PTL
        DEF ExeatsSpec, LifeCycleImplemented, LifeCycle!LifeSpec

----------------------------------------------------------------------------
(* DecisionsTold speaks of the server at rest. While requests are in         *)
(* progress and nothing has failed, what is not yet audited or texted is     *)
(* still in somebody's hands.                                                *)
Telling(p, e) == pc[p] \in {"exeat_audit", "exeat_text"} /\ job[p].exeat = e
Auditing(p, e) == pc[p] = "exeat_audit" /\ job[p].exeat = e

Audited(e) ==
    /\ \A s \in been[e] \ {"PENDING"} :
          \/ \E i \in DOMAIN trail[e] : trail[e][i].to = s
          \/ \E p \in Procs : Auditing(p, e) /\ job[p].to = s
    /\ \A i \in DOMAIN trail[e] : trail[e][i].to \in been[e] \ {"PENDING"}
    /\ \A p \in Procs : Auditing(p, e) => job[p].to \in been[e] \ {"PENDING"}

CodeTold(e) ==
    exeats[e].status = "APPROVED" =>
       \/ exeats[e].code \in texted[e]
       \/ \E p \in Procs : /\ Telling(p, e)
                           /\ job[p].to = "APPROVED" /\ job[p].code = exeats[e].code

LastAudited(e) == IF trail[e] = <<>> THEN "PENDING" ELSE trail[e][Len(trail[e])].to

(* The way the exeat went, up to the row still to be written.                *)
InOrder(e) ==
    /\ \A i \in DOMAIN trail[e] :
          trail[e][i].from = IF i = 1 THEN "PENDING" ELSE trail[e][i - 1].to
    /\ \A p \in Procs : Auditing(p, e) =>
          From(job[p].to) = LastAudited(e) /\ exeats[e].status = job[p].to
    /\ (\A p \in Procs : ~Auditing(p, e)) /\ been[e] # {} => exeats[e].status = LastAudited(e)

Told(e) == faults = 0 => Audited(e) /\ CodeTold(e) /\ (~overlapped => InOrder(e))

ToldInv == \A e \in ExeatIds : Told(e)

LEMMA ToldInitial == HandlersInit /\ ExeatsInit => ToldInv
BY DEF HandlersInit, ExeatsInit, ToldInv, Told, Audited, CodeTold, InOrder, Auditing, Telling

(* At rest the two say the same.                                             *)
LEMMA ToldAtRest == LifeInv /\ ToldInv => DecisionsTold
<1> SUFFICES ASSUME LifeInv, ToldInv, NEW e \in ExeatIds
             PROVE  /\ exeats[e].status = "APPROVED" => exeats[e].code \in PickupCodes
                    /\ Quiescent /\ faults = 0 =>
                         /\ TrailComplete(e)
                         /\ exeats[e].status = "APPROVED" => exeats[e].code \in texted[e]
    BY DEF DecisionsTold
<1>1. exeats[e].status = "APPROVED" => exeats[e].code \in PickupCodes
    BY DEF LifeInv, Coded
<1>2. ASSUME Quiescent, faults = 0
      PROVE  TrailComplete(e) /\ (exeats[e].status = "APPROVED" => exeats[e].code \in texted[e])
    <2>1. Audited(e) /\ CodeTold(e) /\ (~overlapped => InOrder(e))
        BY <1>2 DEF ToldInv, Told
    <2>2. \A p \in Procs : ~Auditing(p, e) /\ ~Telling(p, e)
        BY <1>2 DEF Quiescent, Auditing, Telling
    <2>3. been[e] \ {"PENDING"} = {trail[e][i].to : i \in DOMAIN trail[e]}
        BY <2>1, <2>2 DEF Audited
    <2> QED BY <2>1, <2>2, <2>3 DEF TrailComplete, CodeTold, InOrder, LastAudited
<1> QED BY <1>1, <1>2

(* A step that does not touch e, by a request that is not telling of e.      *)
LEMMA ToldFrame ==
    ASSUME NEW e \in ExeatIds, Told(e), NEW p \in Procs, OthersStay(p),
           ~Telling(p, e), ~Telling(p, e)',
           exeats'[e] = exeats[e], been'[e] = been[e], trail'[e] = trail[e],
           texted'[e] = texted[e], overlapped => overlapped', faults' = faults
    PROVE  Told(e)'
<1>1. /\ \A q \in Procs : Telling(q, e)' = Telling(q, e)
      /\ \A q \in Procs : Auditing(q, e)' = Auditing(q, e)
      /\ \A q \in Procs : Telling(q, e) => job'[q] = job[q]
      /\ \A q \in Procs : Auditing(q, e) => Telling(q, e)
    BY DEF OthersStay, Telling, Auditing
<1> HIDE DEF Telling, Auditing
<1>2. Audited(e) => Audited(e)'
    BY <1>1 DEF Audited
<1>3. CodeTold(e) => CodeTold(e)'
    BY <1>1 DEF CodeTold
<1>4. LastAudited(e)' = LastAudited(e)
    BY DEF LastAudited
<1>5. InOrder(e) => InOrder(e)'
    BY <1>1, <1>4 DEF InOrder
<1> QED BY <1>2, <1>3, <1>5 DEF Told

LEMMA RowAppended ==
    ASSUME NEW S, NEW rows \in Seq(S), NEW row \in S
    PROVE  LET longer == rows \o <<row>> IN
           /\ Len(longer) = Len(rows) + 1 /\ longer # <<>>
           /\ DOMAIN longer = 1..(Len(rows) + 1) /\ DOMAIN rows = 1..Len(rows) /\ Len(rows) \in Nat
           /\ \A i \in 1..Len(rows) : longer[i] = rows[i]
           /\ longer[Len(rows) + 1] = row
           /\ rows = <<>> <=> Len(rows) = 0
<1>1. rows \o <<row>> = Append(rows, row)
    BY AppendIsConcat
<1>2. Append(rows, row) \in Seq(S) /\ Len(Append(rows, row)) = Len(rows) + 1
      /\ (\A i \in 1..Len(rows) : Append(rows, row)[i] = rows[i])
      /\ Append(rows, row)[Len(rows) + 1] = row
    BY AppendProperties
<1>3. DOMAIN rows = 1..Len(rows) /\ Len(rows) \in Nat /\ (rows = <<>> <=> Len(rows) = 0)
    BY EmptySeq, LenProperties
<1>4. DOMAIN Append(rows, row) = 1..(Len(rows) + 1)
    BY <1>2, LenProperties
<1>5. Append(rows, row) # <<>>
    BY <1>2, <1>3, EmptySeq
<1> QED BY <1>1, <1>2, <1>3, <1>4, <1>5

LEMMA NoRows ==
    ASSUME NEW S, NEW rows \in Seq(S), DOMAIN rows = {}
    PROVE  rows = <<>>
<1>1. Len(rows) \in Nat /\ DOMAIN rows = 1..Len(rows)
    BY LenProperties
<1>2. Len(rows) = 0
    BY <1>1
<1> QED BY <1>2, EmptySeq

LEMMA ToldSubmit ==
    ASSUME LifeInv, ToldInv, NEW p \in Procs, SubmitWrite(p)
    PROVE  ToldInv'
<1>0. PICK e \in ExeatIds : job[p].exeat = e /\ exeats[e].status = "absent"
    BY JobTypes DEF SubmitWrite, LifeInv, AllInformed, Informed
<1>1. OthersStay(p) /\ pc'[p] = "idle" /\ pc[p] = "exeat_create"
    BY LifeSubmit DEF SubmitWrite
<1>2. UNCHANGED <<trail, texted, overlapped, faults>>
    BY DEF SubmitWrite, Finish
<1>3. /\ exeats'[e].status = "PENDING" /\ been'[e] = been[e] \cup {"PENDING"}
      /\ \A f \in ExeatIds : f # e => exeats'[f] = exeats[f] /\ been'[f] = been[f]
    BY <1>0 DEF SubmitWrite, LifeInv, ExeatsTypeOK, ExeatTablesOK
<1>4. \A f \in ExeatIds : ~Telling(p, f) /\ ~Telling(p, f)'
    BY <1>1 DEF Telling
<1>5. ASSUME NEW f \in ExeatIds, f # e PROVE Told(f)'
    BY <1>1, <1>2, <1>3, <1>4, <1>5, ToldFrame DEF ToldInv
<1>6. Told(e)'
    <2> SUFFICES ASSUME faults = 0 PROVE Audited(e)' /\ CodeTold(e)' /\ (~overlapped => InOrder(e)')
        BY <1>2 DEF Told
    <2>1. Audited(e) /\ been[e] = {}
        BY <1>0 DEF ToldInv, Told, LifeInv, BeenThere
    <2>2. DOMAIN trail[e] = {} /\ \A q \in Procs : ~Auditing(q, e)
        BY <2>1 DEF Audited
    <2>3. trail[e] = <<>>
        <3>1. trail[e] \in Seq([from : Statuses, to : Moves])
            BY DEF LifeInv, ExeatsTypeOK, ExeatTablesOK
        <3> QED BY <2>2, <3>1, NoRows
    <2>4. \A q \in Procs : ~Auditing(q, e)'
        BY <1>1, <2>2 DEF Auditing, OthersStay
    <2> QED BY <1>2, <1>3, <2>1, <2>2, <2>3, <2>4 DEF Audited, CodeTold, InOrder, LastAudited
<1> QED BY <1>5, <1>6 DEF ToldInv

LEMMA ToldMove ==
    ASSUME LifeInv, ToldInv, NEW p \in Procs, MoveWrite(p)
    PROVE  ToldInv'
<1>0. PICK e \in ExeatIds, s \in Moves : job[p].exeat = e /\ job[p].to = s
    BY JobTypes, SMTT(30) DEF MoveWrite, LifeInv, AllInformed, Informed
<1>1. OthersStay(p) /\ job' = job /\ pc'[p] = "exeat_audit" /\ pc[p] = "exeat_write"
    BY LifeMove DEF MoveWrite
<1>2. UNCHANGED <<trail, texted, overlapped, faults>>
    BY DEF MoveWrite, GoTo
<1>3. /\ exeats'[e].status = s /\ been'[e] = been[e] \cup {s}
      /\ s = "APPROVED" => exeats'[e].code = job[p].code
      /\ \A f \in ExeatIds : f # e => exeats'[f] = exeats[f] /\ been'[f] = been[f]
    BY <1>0 DEF MoveWrite, LifeInv, ExeatsTypeOK, ExeatTablesOK
<1>4. ASSUME NEW f \in ExeatIds, f # e PROVE Told(f)'
    <2>1. ~Telling(p, f) /\ ~Telling(p, f)'
        BY <1>0, <1>1, <1>4 DEF Telling
    <2> QED BY <1>1, <1>2, <1>3, <1>4, <2>1, ToldFrame DEF ToldInv
<1>5. Told(e)'
    <2> SUFFICES ASSUME faults = 0 PROVE Audited(e)' /\ CodeTold(e)' /\ (~overlapped => InOrder(e)')
        BY <1>2 DEF Told
    <2>1. Audited(e) /\ (~overlapped => InOrder(e))
        BY DEF ToldInv, Told
    <2>2. Auditing(p, e)' /\ job'[p].to = s /\ s # "PENDING"
        BY <1>0, <1>1 DEF Auditing, Moves
    <2>3. \A q \in Procs : q # p => Auditing(q, e)' = Auditing(q, e) /\ job'[q] = job[q]
        BY <1>1 DEF OthersStay, Auditing
    <2>4. ~Auditing(p, e)
        BY <1>1 DEF Auditing
    <2>5. Audited(e)'
        <3>1. \A r \in been'[e] \ {"PENDING"} :
                 \/ \E i \in DOMAIN trail[e] : trail[e][i].to = r
                 \/ \E q \in Procs : Auditing(q, e)' /\ job'[q].to = r
            BY <1>3, <2>1, <2>2, <2>3, <2>4 DEF Audited
        <3>2. \A i \in DOMAIN trail[e] : trail[e][i].to \in been'[e] \ {"PENDING"}
            BY <1>3, <2>1 DEF Audited
        <3>3. \A q \in Procs : Auditing(q, e)' => job'[q].to \in been'[e] \ {"PENDING"}
            BY <1>3, <2>1, <2>2, <2>3 DEF Audited
        <3> QED BY <1>2, <3>1, <3>2, <3>3 DEF Audited
    <2>6. CodeTold(e)'
        <3>1. Telling(p, e)'
            BY <1>0, <1>1 DEF Telling
        <3> QED BY <1>0, <1>1, <1>3, <3>1 DEF CodeTold
    <2>7. ASSUME ~overlapped PROVE InOrder(e)'
        <3>1. InOrder(e)
            BY <2>1, <2>7
        <3>2. \A q \in Procs : q # p => ~Auditing(q, e)
            BY <1>1, <2>7 DEF LifeInv, Lone, Auditing
        <3>3. exeats[e].status = From(s) /\ From(s) \in been[e]
            BY <1>0, <1>1, <2>7 DEF LifeInv, AllInformed, Informed
        <3>4. From(s) = LastAudited(e)
            BY <2>4, <3>1, <3>2, <3>3 DEF InOrder
        <3>5. LastAudited(e)' = LastAudited(e)
            BY <1>2 DEF LastAudited
        <3>6. \A q \in Procs : Auditing(q, e)' =>
                  From(job'[q].to) = LastAudited(e) /\ exeats'[e].status = job'[q].to
            BY <1>3, <2>2, <2>3, <3>2, <3>4
        <3> QED BY <1>2, <2>2, <3>1, <3>5, <3>6 DEF InOrder
    <2> QED BY <2>5, <2>6, <2>7
<1> QED BY <1>4, <1>5 DEF ToldInv

LEMMA ToldAudit ==
    ASSUME LifeInv, ToldInv, NEW p \in Procs, AuditWrite(p)
    PROVE  ToldInv'
<1>0. PICK e \in ExeatIds, s \in Moves : job[p].exeat = e /\ job[p].to = s
    BY JobTypes DEF AuditWrite, LifeInv, AllInformed, Informed
<1>1. OthersStay(p) /\ job' = job /\ pc[p] = "exeat_audit" /\ pc'[p] = "exeat_text"
      /\ UNCHANGED <<exeats, been, texted, overlapped>>
    <2>1. OthersStay(p)
        BY LifeOther
    <2> QED BY <2>1 DEF AuditWrite, LifeInv, ExeatsTypeOK, HandlersTypeOK
<1>2. faults \in Nat
    BY HandlersAssumptions DEF HandlersAssumptions, LifeInv, ExeatsTypeOK, HandlersTypeOK
<1>3. CASE faults' = faults + 1
    BY <1>2, <1>3 DEF ToldInv, Told
<1>4. CASE trail' = [trail EXCEPT ![e] = @ \o AuditRow(p)] /\ UNCHANGED faults
    <2> DEFINE row == [from |-> From(s), to |-> s]
    <2>1. trail' = [trail EXCEPT ![e] = @ \o <<row>>]
        BY <1>0, <1>4 DEF AuditRow
    <2>2. trail[e] \in Seq([from : Statuses, to : Moves])
        BY DEF LifeInv, ExeatsTypeOK, ExeatTablesOK
    <2>3. row \in [from : Statuses, to : Moves] /\ row.from = From(s) /\ row.to = s
        BY FromType
    <2>4. trail'[e] = trail[e] \o <<row>> /\ \A f \in ExeatIds : f # e => trail'[f] = trail[f]
        BY <2>1 DEF LifeInv, ExeatsTypeOK, ExeatTablesOK
    <2> HIDE DEF row
    <2> DEFINE n == Len(trail[e])
    <2>5. /\ trail'[e] # <<>> /\ n \in Nat /\ Len(trail'[e]) = n + 1
          /\ DOMAIN trail[e] = 1..n /\ DOMAIN trail'[e] = 1..(n + 1)
          /\ \A i \in 1..n : trail'[e][i] = trail[e][i]
          /\ trail'[e][n + 1] = row /\ (trail[e] = <<>> <=> n = 0)
        BY <2>2, <2>3, <2>4, RowAppended
    <2>6. ASSUME NEW f \in ExeatIds, f # e PROVE Told(f)'
        <3>1. ~Telling(p, f) /\ ~Telling(p, f)'
            BY <1>0, <1>1, <2>6 DEF Telling
        <3> QED BY <1>1, <1>4, <2>4, <2>6, <3>1, ToldFrame DEF ToldInv
    <2>7. Told(e)'
        <3> SUFFICES ASSUME faults = 0
                     PROVE  Audited(e)' /\ CodeTold(e)' /\ (~overlapped => InOrder(e)')
            BY <1>1, <1>4 DEF Told
        <3>1. Audited(e) /\ CodeTold(e) /\ (~overlapped => InOrder(e))
            BY DEF ToldInv, Told
        <3>2. Auditing(p, e) /\ ~Auditing(p, e)' /\ s \in been[e] \ {"PENDING"}
            BY <1>0, <1>1, <3>1 DEF Auditing, Audited
        <3>3. \A q \in Procs : q # p => Auditing(q, e)' = Auditing(q, e)
            BY <1>1 DEF OthersStay, Auditing
        <3>4. Audited(e)'
            <4>1. ASSUME NEW r \in been[e] \ {"PENDING"}
                  PROVE  \/ \E i \in DOMAIN trail'[e] : trail'[e][i].to = r
                         \/ \E q \in Procs : Auditing(q, e)' /\ job'[q].to = r
                <5>1. CASE \E i \in DOMAIN trail[e] : trail[e][i].to = r
                    BY <2>5, <5>1
                <5>2. CASE \E q \in Procs : Auditing(q, e) /\ job[q].to = r
                    <6>1. PICK q \in Procs : Auditing(q, e) /\ job[q].to = r
                        BY <5>2
                    <6>2. CASE q = p
                        <7>1. n + 1 \in DOMAIN trail'[e] /\ trail'[e][n + 1].to = r
                            BY <1>0, <2>3, <2>5, <6>1, <6>2
                        <7> QED BY <7>1
                    <6>3. CASE q # p
                        BY <1>1, <3>3, <6>1, <6>3
                    <6> QED BY <6>2, <6>3
                <5> QED BY <3>1, <5>1, <5>2 DEF Audited
            <4>2. ASSUME NEW i \in DOMAIN trail'[e] PROVE trail'[e][i].to \in been[e] \ {"PENDING"}
                <5>1. CASE i = n + 1
                    BY <2>3, <2>5, <3>2, <5>1
                <5>2. CASE i # n + 1
                    BY <2>5, <3>1, <5>2 DEF Audited
                <5> QED BY <5>1, <5>2
            <4>3. \A q \in Procs : Auditing(q, e)' => job'[q].to \in been[e] \ {"PENDING"}
                BY <1>1, <3>1, <3>2, <3>3 DEF Audited
            <4> QED BY <1>1, <4>1, <4>2, <4>3 DEF Audited
        <3>5. CodeTold(e)'
            <4>1. \A q \in Procs : Telling(q, e) => Telling(q, e)'
                BY <1>1 DEF OthersStay, Telling
            <4> QED BY <1>1, <3>1, <4>1 DEF CodeTold
        <3>6. ASSUME ~overlapped PROVE InOrder(e)'
            <4>1. InOrder(e)
                BY <3>1, <3>6
            <4>2. \A q \in Procs : ~Auditing(q, e)'
                BY <1>1, <3>2, <3>6 DEF LifeInv, Lone, Auditing, OthersStay
            <4>3. From(s) = LastAudited(e) /\ exeats[e].status = s
                BY <1>0, <3>2, <4>1 DEF InOrder
            <4>4. LastAudited(e)' = s
                BY <2>3, <2>5 DEF LastAudited
            <4>5. ASSUME NEW i \in DOMAIN trail'[e]
                  PROVE  trail'[e][i].from = IF i = 1 THEN "PENDING" ELSE trail'[e][i - 1].to
                <5>1. CASE i = n + 1
                    <6>1. trail'[e][i].from = LastAudited(e)
                        BY <2>3, <2>5, <4>3, <5>1
                    <6>2. CASE n = 0
                        BY <2>5, <5>1, <6>1, <6>2 DEF LastAudited
                    <6>3. CASE n # 0
                        <7>1. n \in 1..n /\ i - 1 = n /\ i # 1
                            BY <2>5, <5>1, <6>3
                        <7> QED BY <2>5, <6>1, <6>3, <7>1 DEF LastAudited
                    <6> QED BY <6>2, <6>3
                <5>2. CASE i # n + 1
                    <6>1. i \in 1..n /\ (i # 1 => i - 1 \in 1..n)
                        BY <2>5, <5>2
                    <6>2. trail[e][i].from = IF i = 1 THEN "PENDING" ELSE trail[e][i - 1].to
                        BY <2>5, <4>1, <6>1 DEF InOrder
                    <6> QED BY <2>5, <6>1, <6>2
                <5> QED BY <5>1, <5>2
            <4> QED BY <1>1, <4>2, <4>3, <4>4, <4>5 DEF InOrder
        <3> QED BY <3>4, <3>5, <3>6
    <2> QED BY <2>6, <2>7 DEF ToldInv
<1> QED BY <1>0, <1>3, <1>4 DEF AuditWrite

LEMMA ToldText ==
    ASSUME LifeInv, ToldInv, NEW p \in Procs, TextGuardian(p)
    PROVE  ToldInv'
<1>0. PICK e \in ExeatIds, s \in Moves : job[p].exeat = e /\ job[p].to = s
    BY JobTypes DEF TextGuardian, LifeInv, AllInformed, Informed
<1>1. OthersStay(p) /\ pc[p] = "exeat_text" /\ pc'[p] = "idle"
      /\ UNCHANGED <<exeats, trail, been, overlapped>>
    <2>1. OthersStay(p)
        BY LifeOther
    <2> QED BY <2>1 DEF TextGuardian, LifeInv, ExeatsTypeOK, HandlersTypeOK
<1>2. faults \in Nat
    BY HandlersAssumptions DEF HandlersAssumptions, LifeInv, ExeatsTypeOK, HandlersTypeOK
<1>3. CASE faults' = faults + 1
    BY <1>2, <1>3 DEF ToldInv, Told
<1>4. CASE texted' = [texted EXCEPT ![e] = @ \cup CodeInText(p)] /\ UNCHANGED faults
    <2>1. texted'[e] = texted[e] \cup CodeInText(p) /\ \A f \in ExeatIds : f # e => texted'[f] = texted[f]
        BY <1>4 DEF LifeInv, ExeatsTypeOK, ExeatTablesOK
    <2>2. ASSUME NEW f \in ExeatIds, f # e PROVE Told(f)'
        <3>1. ~Telling(p, f) /\ ~Telling(p, f)'
            BY <1>0, <1>1, <2>2 DEF Telling
        <3> QED BY <1>1, <1>4, <2>1, <2>2, <3>1, ToldFrame DEF ToldInv
    <2>3. Told(e)'
        <3> SUFFICES ASSUME faults = 0
                     PROVE  Audited(e)' /\ CodeTold(e)' /\ (~overlapped => InOrder(e)')
            BY <1>1, <1>4 DEF Told
        <3>1. Audited(e) /\ CodeTold(e) /\ (~overlapped => InOrder(e))
            BY DEF ToldInv, Told
        <3>2. /\ \A q \in Procs : Auditing(q, e)' = Auditing(q, e)
              /\ \A q \in Procs : Auditing(q, e) => job'[q] = job[q]
            BY <1>1 DEF OthersStay, Auditing
        <3>3. Audited(e)'
            BY <1>1, <3>1, <3>2 DEF Audited
        <3>4. InOrder(e) => InOrder(e)'
            <4>1. LastAudited(e)' = LastAudited(e)
                BY <1>1 DEF LastAudited
            <4> QED BY <1>1, <3>2, <4>1 DEF InOrder
        <3>5. ASSUME exeats[e].status = "APPROVED", exeats[e].code \notin texted'[e]
              PROVE  \E q \in Procs : /\ Telling(q, e)'
                                      /\ job'[q].to = "APPROVED" /\ job'[q].code = exeats[e].code
            <4>1. PICK q \in Procs : /\ Telling(q, e)
                                     /\ job[q].to = "APPROVED" /\ job[q].code = exeats[e].code
                BY <2>1, <3>1, <3>5 DEF CodeTold
            <4>2. q # p
                BY <2>1, <3>5, <4>1 DEF CodeInText
            <4> QED BY <1>1, <4>1, <4>2 DEF OthersStay, Telling
        <3>6. CodeTold(e)'
            BY <1>1, <3>5 DEF CodeTold
        <3> QED BY <3>1, <3>3, <3>4, <3>6
    <2> QED BY <2>2, <2>3 DEF ToldInv
<1> QED BY <1>0, <1>3, <1>4 DEF TextGuardian

LEMMA ToldInductive == LifeInv /\ ToldInv /\ [ExeatsNext]_<<handlerVars, exeatVars>> => ToldInv'
<1> SUFFICES ASSUME LifeInv, ToldInv, [ExeatsNext]_<<handlerVars, exeatVars>> PROVE ToldInv'
    OBVIOUS
<1>1. CASE UNCHANGED <<handlerVars, exeatVars>>
    BY <1>1 DEF handlerVars, exeatVars, ToldInv, Told, Audited, CodeTold, InOrder, LastAudited,
                Auditing, Telling
<1>2. ASSUME NEW p \in Procs, OthersStay(p), UNCHANGED exeatVars, overlapped => overlapped',
             faults' = faults, \A e \in ExeatIds : ~Telling(p, e) /\ ~Telling(p, e)'
      PROVE  ToldInv'
    BY <1>2, ToldFrame DEF ToldInv, exeatVars
<1>3. ASSUME NEW p \in Procs, NEW e \in ExeatIds,
             \/ SubmitRead(p, e)
             \/ DecideRead(p, e, "REJECTED", NoPickup)
             \/ \E c \in PickupCodes : DecideRead(p, e, "APPROVED", c) \/ PickupRead(p, e, c)
             \/ ReturnRead(p, e)
      PROVE  ToldInv'
    BY <1>2, <1>3, LifeBegin DEF TakenUp, Telling
<1>4. ASSUME NEW p \in Procs, DecideStaff(p)
      PROVE  ToldInv'
    <2>1. OthersStay(p) /\ UNCHANGED <<exeats, been, overlapped>>
        BY <1>4, LifeOther
    <2>2. pc[p] = "exeat_staff" /\ pc'[p] = "exeat_write" /\ UNCHANGED exeatVars
          /\ UNCHANGED faults
        BY <1>4 DEF DecideStaff, GoTo, LifeInv, ExeatsTypeOK, HandlersTypeOK
    <2> QED BY <1>2, <2>1, <2>2 DEF Telling
<1>5. ASSUME NEW p \in Procs, Dies(p), UNCHANGED exeatVars
      PROVE  ToldInv'
    <2>1. faults \in Nat /\ faults' = faults + 1
        BY <1>5, HandlersAssumptions
           DEF HandlersAssumptions, LifeInv, ExeatsTypeOK, HandlersTypeOK, Dies
    <2> QED BY <2>1 DEF ToldInv, Told
<1> QED BY <1>1, <1>3, <1>4, <1>5, ToldSubmit, ToldMove, ToldAudit, ToldText DEF ExeatsNext

(* Whatever decisions run beside each other, an approved exeat has a code,   *)
(* and once nothing is in progress and nothing failed its guardian has been  *)
(* texted it and the audit trail tells where the exeat has been; with        *)
(* requests in turn, in the order it went.                                   *)
THEOREM DecisionsAreTold == ExeatsSpec => []DecisionsTold
BY LifeInitial, LifeInductive, ToldInitial, ToldInductive, ToldAtRest, PTL DEF ExeatsSpec

----------------------------------------------------------------------------
(* Hostel beds *)

StayRows == [boarder : Boarders, room : Rooms, bed : Beds, active : BOOLEAN]

AssignStages == {"bed_check", "boarder_check", "assign_write"}

BedJob(p) ==
    /\ pc[p] \in {"room_create", "resize_check", "resize_write"} =>
         job[p] \in [op : {"room"}, room : Rooms, capacity : Beds]
    /\ pc[p] \in AssignStages =>
         job[p] \in [op : {"assign"}, boarder : Boarders, room : Rooms, bed : Beds]
    /\ pc[p] = "release_write" => job[p].stay \in Stays
    /\ pc[p] \in {"unroom_check", "unroom_write"} => job[p].room \in Rooms
    /\ pc[p] = "regender_write" => job[p].hostel \in Hostels /\ job[p].gender \in HostelGenders
    /\ pc[p] \in {"unhostel_check", "unhostel_write"} => job[p].hostel \in Hostels

(* Those who found the bed free, and those who found the student without one. *)
Claiming(r, b) == {p \in Procs : /\ pc[p] \in {"boarder_check", "assign_write"}
                                 /\ job[p].room = r /\ job[p].bed = b}
Placing(s) == {p \in Procs : pc[p] = "assign_write" /\ job[p].boarder = s}

(* HoldersBounded is not inductive: who holds a bed and who is about to take  *)
(* it are together no more than there were requests at a time.                *)
BedsCounted ==
    /\ \A r \in Rooms, b \in Beds :
         Cardinality(InBed(r, b)) + Cardinality(Claiming(r, b)) <= Width
    /\ \A s \in Boarders :
         Cardinality(StaysOf(s)) + Cardinality(Placing(s)) <= Width

Fits(s, r, b) ==
    /\ IsOpen(r)
    /\ b <= rooms[r].capacity
    /\ \/ GenderFits(s, hostels[HostelOf[r]].gender)
       \/ hostels[HostelOf[r]].regendered

AllFit == \A i \in Stays : stays[i].active => Fits(stays[i].boarder, stays[i].room, stays[i].bed)

(* What a request in turn has found out still holds when it writes.           *)
StillHolds(p) ==
    /\ pc[p] \in AssignStages => Fits(job[p].boarder, job[p].room, job[p].bed)
    /\ pc[p] = "resize_write" => \A i \in InRoom(job[p].room) : stays[i].bed <= job[p].capacity
    /\ pc[p] = "unroom_write" => InRoom(job[p].room) = {}
    /\ pc[p] = "unhostel_write" =>
         \A i \in Stays : stays[i].active => HostelOf[stays[i].room] # job[p].hostel

BedsInTurn == ~overlapped => AllFit /\ \A p \in Procs : StillHolds(p)

BedsInv == BedsTypeOK /\ Lone /\ (\A p \in Procs : BedJob(p)) /\ BedsCounted /\ BedsInTurn

(* Some of A and at most one more, who left C for it.                         *)
LEMMA CountKept ==
    ASSUME NEW A, IsFiniteSet(A), NEW x, NEW B, B \subseteq A \cup {x},
           NEW C \in SUBSET Procs, NEW D \in SUBSET Procs, D \subseteq C,
           NEW p \in Procs, B \subseteq A \/ (p \in C /\ p \notin D),
           NEW v \in Nat, NEW w \in Nat, v <= w,
           Cardinality(A) + Cardinality(C) <= v
    PROVE  Cardinality(B) + Cardinality(D) <= w
<1>1. IsFiniteSet(Procs)
    BY HandlersAssumptions DEF HandlersAssumptions
<1>2. IsFiniteSet(C) /\ Cardinality(C) \in Nat /\ Cardinality(A) \in Nat
    BY <1>1, FS_Subset, FS_CardinalityType
<1>3. Cardinality(D) \in Nat /\ Cardinality(D) <= Cardinality(C)
    BY <1>2, FS_Subset, FS_CardinalityType
<1>4. CASE B \subseteq A
    <2>1. Cardinality(B) \in Nat /\ Cardinality(B) <= Cardinality(A)
        BY <1>4, FS_Subset, FS_CardinalityType
    <2> QED BY <1>2, <1>3, <2>1
<1>5. CASE p \in C /\ p \notin D
    <2>1. IsFiniteSet(A \cup {x}) /\ Cardinality(A \cup {x}) <= Cardinality(A) + 1
        BY <1>2, FS_AddElement
    <2>2. Cardinality(B) \in Nat /\ Cardinality(B) <= Cardinality(A \cup {x})
        BY <2>1, FS_Subset, FS_CardinalityType
    <2>3. Cardinality(A \cup {x}) \in Nat
        BY <2>1, FS_CardinalityType
    <2>4. D \subseteq C \ {p}
        BY <1>5
    <2>5. /\ IsFiniteSet(C \ {p}) /\ Cardinality(C \ {p}) = Cardinality(C) - 1
        BY <1>2, <1>5, FS_RemoveElement
    <2>6. Cardinality(D) <= Cardinality(C) - 1
        BY <2>4, <2>5, FS_Subset
    <2> QED BY <1>2, <1>3, <2>1, <2>2, <2>3, <2>6
<1> QED BY <1>4, <1>5

(* Stays are rows of a finite table.                                          *)
LEMMA StaysFinite ==
    ASSUME BedTablesOK
    PROVE  /\ Len(stays) \in Nat /\ Stays = 1..Len(stays)
           /\ \A i \in Stays : stays[i] \in StayRows
           /\ \A r, b : IsFiniteSet(InBed(r, b))
           /\ \A s : IsFiniteSet(StaysOf(s))
<1>1. Len(stays) \in Nat /\ Stays = 1..Len(stays) /\ \A i \in Stays : stays[i] \in StayRows
    <2>1. stays \in Seq(StayRows)
        BY DEF BedTablesOK, StayRows
    <2> QED BY <2>1, LenProperties, ElementOfSeq DEF Stays
<1>2. IsFiniteSet(Stays)
    BY <1>1, FS_Interval
<1>3. \A r, b : InBed(r, b) \subseteq Stays
    BY DEF InBed, InRoom
<1>4. \A s : StaysOf(s) \subseteq Stays
    BY DEF StaysOf
<1> QED BY <1>1, <1>2, <1>3, <1>4, FS_Subset

LEMMA BedsInitial == HandlersInit /\ BedsInit => BedsInv
<1> SUFFICES ASSUME HandlersInit, BedsInit PROVE BedsInv
    OBVIOUS
<1>1. HandlersTypeOK(BedStages, BedJobs) /\ Lone /\ Quiescent
    BY HandlersInitType
<1>2. /\ stays \in Seq(StayRows) /\ Stays = {}
    BY EmptySeq DEF BedsInit, Stays
<1>3. BedTablesOK
    <2>1. hostels \in [Hostels -> [gender : HostelGenders, open : BOOLEAN, regendered : BOOLEAN]]
        BY DEF BedsInit
    <2>2. 0 \in 0..MaxBeds
        BY HostelAssumptions DEF HostelAssumptions
    <2>3. rooms \in [Rooms -> [state : {"absent", "open", "deleted"}, capacity : 0..MaxBeds]]
        BY <2>2 DEF BedsInit
    <2> QED BY <1>2, <2>1, <2>3 DEF BedTablesOK, StayRows
<1>4. \A p \in Procs : BedJob(p) /\ StillHolds(p)
    BY <1>1 DEF Quiescent, BedJob, StillHolds, AssignStages
<1>5. BedsCounted
    <2>1. \A r, b : InBed(r, b) = {} /\ Claiming(r, b) = {}
        BY <1>1, <1>2 DEF InBed, InRoom, Claiming, Quiescent
    <2>2. \A s : StaysOf(s) = {} /\ Placing(s) = {}
        BY <1>1, <1>2 DEF StaysOf, Placing, Quiescent
    <2>3. Width = 1
        BY DEF HandlersInit, Width
    <2>4. Cardinality({}) + Cardinality({}) <= 1
        <3>1. Cardinality({}) = 0
            BY FS_EmptySet
        <3> QED BY <3>1
    <2> QED BY <2>1, <2>2, <2>3, <2>4 DEF BedsCounted
<1>6. BedsInTurn
    BY <1>2, <1>4 DEF BedsInTurn, AllFit
<1> QED BY <1>1, <1>3, <1>4, <1>5, <1>6 DEF BedsInv, BedsTypeOK

(* A step that leaves the tables alone. Whoever now claims a bed, or is about *)
(* to write a stay, found the bed free or the student without one.            *)
LEMMA BedsFrame ==
    ASSUME BedsInv, HandlersTypeOK(BedStages, BedJobs)', Lone', UNCHANGED bedVars,
           overlapped => overlapped', NEW p \in Procs, OthersStay(p),
           ~overlapped' => \A q \in Procs : q # p => pc'[q] = "idle",
           BedJob(p)', ~overlapped' => StillHolds(p)',
           \A r, b : p \in Claiming(r, b)' => p \in Claiming(r, b) \/ InBed(r, b) = {},
           \A s : p \in Placing(s)' => StaysOf(s) = {}
    PROVE  BedsInv'
<1>1. /\ BedsTypeOK /\ BedTablesOK /\ UNCHANGED <<hostels, rooms, stays>>
      /\ overlapped \in BOOLEAN /\ overlapped' \in BOOLEAN
    BY DEF BedsInv, BedsTypeOK, HandlersTypeOK, bedVars
<1>2. BedsTypeOK'
    BY <1>1 DEF BedsTypeOK, BedTablesOK
<1>3. \A q \in Procs : BedJob(q)'
    <2>1. ASSUME NEW q \in Procs, q # p PROVE BedJob(q)'
        <3>1. BedJob(q) /\ pc'[q] = pc[q] /\ job'[q] = job[q] /\ Stays' = Stays
            BY <1>1, <2>1 DEF BedsInv, OthersStay, Stays
        <3> QED BY <3>1 DEF BedJob
    <2> QED BY <2>1
<1>4. BedsInTurn'
    <2> SUFFICES ASSUME ~overlapped' PROVE AllFit' /\ \A q \in Procs : StillHolds(q)'
        BY DEF BedsInTurn
    <2>1. AllFit'
        BY <1>1 DEF BedsInv, BedsInTurn, AllFit, Fits, IsOpen, GenderFits, Stays
    <2>2. ASSUME NEW q \in Procs, q # p PROVE StillHolds(q)'
        <3>1. pc'[q] = "idle"
            BY <2>2
        <3> QED BY <3>1 DEF StillHolds, AssignStages
    <2> QED BY <2>1, <2>2
<1>5. Width \in Nat /\ Width' \in Nat /\ Width <= Width'
    BY <1>1, WidthType
<1>6. ASSUME NEW S \in SUBSET Procs, \A q \in S : pc'[q] # "idle"
      PROVE  Cardinality(S) \in Nat /\ Cardinality(S) <= Width'
    BY <1>6, GroupBound DEF Lone, Width
<1>7. Cardinality({}) = 0
    BY FS_EmptySet
<1>8. BedsCounted'
    <2>1. ASSUME NEW r \in Rooms, NEW b \in Beds
          PROVE  Cardinality(InBed(r, b)') + Cardinality(Claiming(r, b)') <= Width'
        <3> DEFINE A == InBed(r, b)
                   C == Claiming(r, b)
        <3>1. PICK D \in SUBSET Procs : D = Claiming(r, b)'
            BY DEF Claiming
        <3>2. InBed(r, b)' = A /\ IsFiniteSet(A) /\ Cardinality(A) + Cardinality(C) <= Width /\ C \in SUBSET Procs
            <4>1. InBed(r, b)' = InBed(r, b)
                BY <1>1 DEF InBed, InRoom, Stays
            <4> QED BY <1>1, <4>1, StaysFinite DEF BedsInv, BedsCounted, Claiming
        <3>3. \A q \in D : q # p => q \in C
            BY <3>1 DEF Claiming, OthersStay
        <3>4. CASE D \subseteq C
            <4> HIDE DEF A, C
            <4>1. Cardinality(A) + Cardinality(D) <= Width'
                BY <1>5, <3>2, <3>4, CountKept
            <4> QED BY <3>1, <3>2, <4>1
        <3>5. CASE ~(D \subseteq C)
            <4>1. A = {}
                BY <3>1, <3>3, <3>5
            <4>2. Cardinality(D) \in Nat /\ Cardinality(D) <= Width'
                <5>1. \A q \in D : pc'[q] # "idle"
                    BY <3>1 DEF Claiming
                <5> QED BY <1>6, <5>1
            <4>3. Cardinality(A) + Cardinality(D) <= Width'
                BY <1>5, <1>7, <4>1, <4>2
            <4> QED BY <3>1, <3>2, <4>3
        <3> QED BY <3>4, <3>5
    <2>2. ASSUME NEW s \in Boarders
          PROVE  Cardinality(StaysOf(s)') + Cardinality(Placing(s)') <= Width'
        <3> DEFINE A == StaysOf(s)
                   C == Placing(s)
        <3>1. PICK D \in SUBSET Procs : D = Placing(s)'
            BY DEF Placing
        <3>2. StaysOf(s)' = A /\ IsFiniteSet(A) /\ Cardinality(A) + Cardinality(C) <= Width /\ C \in SUBSET Procs
            BY <1>1, StaysFinite DEF StaysOf, Stays, BedsInv, BedsCounted, Placing
        <3>3. \A q \in D : q # p => q \in C
            BY <3>1 DEF Placing, OthersStay
        <3>4. CASE D \subseteq C
            <4> HIDE DEF A, C
            <4>1. Cardinality(A) + Cardinality(D) <= Width'
                BY <1>5, <3>2, <3>4, CountKept
            <4> QED BY <3>1, <3>2, <4>1
        <3>5. CASE ~(D \subseteq C)
            <4>1. A = {}
                BY <3>1, <3>3, <3>5
            <4>2. Cardinality(D) \in Nat /\ Cardinality(D) <= Width'
                <5>1. \A q \in D : pc'[q] # "idle"
                    BY <3>1 DEF Placing
                <5> QED BY <1>6, <5>1
            <4>3. Cardinality(A) + Cardinality(D) <= Width'
                BY <1>5, <1>7, <4>1, <4>2
            <4> QED BY <3>1, <3>2, <4>3
        <3> QED BY <3>4, <3>5
    <2> QED BY <2>1, <2>2 DEF BedsCounted
<1>9. Lone'
    OBVIOUS
<1> QED BY <1>2, <1>3, <1>4, <1>8, <1>9 DEF BedsInv

(* A write, after which the request is over; a stay it adds it had claimed.   *)
LEMMA BedsOver ==
    ASSUME BedsInv, HandlersTypeOK(BedStages, BedJobs)', Lone', BedTablesOK', overlapped' = overlapped,
           NEW p \in Procs, pc[p] # "idle", pc'[p] = "idle", OthersStay(p), Stays \subseteq Stays', NEW x,
           \A r, b : /\ InBed(r, b)' \subseteq InBed(r, b) \cup {x}
                     /\ InBed(r, b)' \subseteq InBed(r, b) \/ p \in Claiming(r, b),
           \A s : /\ StaysOf(s)' \subseteq StaysOf(s) \cup {x}
                  /\ StaysOf(s)' \subseteq StaysOf(s) \/ p \in Placing(s),
           ~overlapped => AllFit'
    PROVE  BedsInv'
<1>1. /\ BedsTypeOK' /\ BedTablesOK /\ overlapped \in BOOLEAN
    BY DEF BedsInv, BedsTypeOK, HandlersTypeOK
<1>2. \A q \in Procs : BedJob(q)'
    <2>1. ASSUME NEW q \in Procs, q # p PROVE BedJob(q)'
        <3>1. BedJob(q) /\ pc'[q] = pc[q] /\ job'[q] = job[q]
            BY <2>1 DEF BedsInv, OthersStay
        <3> QED BY <3>1 DEF BedJob
    <2>2. BedJob(p)'
        BY DEF BedJob, AssignStages
    <2> QED BY <2>1, <2>2
<1>3. BedsInTurn'
    <2> SUFFICES ASSUME ~overlapped' PROVE AllFit' /\ \A q \in Procs : StillHolds(q)'
        BY DEF BedsInTurn
    <2>1. \A q \in Procs : pc'[q] = "idle"
        BY DEF BedsInv, Lone, OthersStay
    <2> QED BY <2>1 DEF StillHolds, AssignStages
<1>4. Width \in Nat /\ Width' = Width
    BY <1>1, WidthType DEF Width
<1>5. BedsCounted'
    <2>1. ASSUME NEW r \in Rooms, NEW b \in Beds
          PROVE  Cardinality(InBed(r, b)') + Cardinality(Claiming(r, b)') <= Width'
        <3> DEFINE A == InBed(r, b)
                   C == Claiming(r, b)
        <3>1. PICK D \in SUBSET Procs : D = Claiming(r, b)'
            BY DEF Claiming
        <3>2. PICK B : B = InBed(r, b)'
            OBVIOUS
        <3>3. IsFiniteSet(A) /\ Cardinality(A) + Cardinality(C) <= Width /\ C \in SUBSET Procs
            BY <1>1, StaysFinite DEF BedsInv, BedsCounted, Claiming
        <3>4. D \subseteq C /\ p \notin D
            BY <3>1 DEF Claiming, OthersStay
        <3>5. B \subseteq A \cup {x} /\ (B \subseteq A \/ (p \in C /\ p \notin D))
            BY <3>2, <3>4
        <3> HIDE DEF A, C
        <3>6. Cardinality(B) + Cardinality(D) <= Width
            <4>1. Width <= Width
                BY <1>4
            <4> QED BY <1>4, <3>3, <3>4, <3>5, <4>1, CountKept
        <3> QED BY <1>4, <3>1, <3>2, <3>6
    <2>2. ASSUME NEW s \in Boarders
          PROVE  Cardinality(StaysOf(s)') + Cardinality(Placing(s)') <= Width'
        <3> DEFINE A == StaysOf(s)
                   C == Placing(s)
        <3>1. PICK D \in SUBSET Procs : D = Placing(s)'
            BY DEF Placing
        <3>2. PICK B : B = StaysOf(s)'
            OBVIOUS
        <3>3. IsFiniteSet(A) /\ Cardinality(A) + Cardinality(C) <= Width /\ C \in SUBSET Procs
            BY <1>1, StaysFinite DEF BedsInv, BedsCounted, Placing
        <3>4. D \subseteq C /\ p \notin D
            BY <3>1 DEF Placing, OthersStay
        <3>5. B \subseteq A \cup {x} /\ (B \subseteq A \/ (p \in C /\ p \notin D))
            BY <3>2, <3>4
        <3> HIDE DEF A, C
        <3>6. Cardinality(B) + Cardinality(D) <= Width
            <4>1. Width <= Width
                BY <1>4
            <4> QED BY <1>4, <3>3, <3>4, <3>5, <4>1, CountKept
        <3> QED BY <1>4, <3>1, <3>2, <3>6
    <2> QED BY <2>1, <2>2 DEF BedsCounted
<1>6. Lone'
    OBVIOUS
<1> QED BY <1>1, <1>2, <1>3, <1>5, <1>6 DEF BedsInv

LEMMA BedsBegun ==
    ASSUME BedsInv, NEW p \in Procs, NEW j \in BedJobs,
           NEW stage \in BedStages \ {"boarder_check", "assign_write"}, Begin(p, j, stage),
           UNCHANGED bedVars,
           pc'[p] = stage /\ job'[p] = j => BedJob(p)',
           pc'[p] = stage /\ job'[p] = j /\ AllFit => StillHolds(p)'
    PROVE  BedsInv'
<1>1. HandlersTypeOK(BedStages, BedJobs) /\ Lone /\ "idle" \notin BedStages
    BY DEF BedsInv, BedsTypeOK, BedStages
<1>2. /\ HandlersTypeOK(BedStages, BedJobs)' /\ Lone'
      /\ pc[p] = "idle" /\ pc'[p] = stage /\ job'[p] = j /\ OthersStay(p)
      /\ overlapped => overlapped'
      /\ ~overlapped' => \A q \in Procs : pc[q] = "idle"
    BY <1>1, BeginStep
<1>3. ~overlapped' => \A q \in Procs : q # p => pc'[q] = "idle"
    BY <1>2 DEF OthersStay
<1>4. BedJob(p)' /\ (~overlapped' => StillHolds(p)')
    BY <1>2 DEF BedsInv, BedsInTurn
<1>5. /\ \A r, b : p \notin Claiming(r, b)'
      /\ \A s : p \notin Placing(s)'
    BY <1>2 DEF Claiming, Placing
<1> QED BY <1>2, <1>3, <1>4, <1>5, BedsFrame

LEMMA BedsGoOn ==
    ASSUME BedsInv, NEW p \in Procs, pc[p] # "idle", NEW stage \in BedStages, GoTo(p, stage),
           UNCHANGED bedVars,
           pc'[p] = stage /\ job' = job => BedJob(p)',
           pc'[p] = stage /\ job' = job /\ ~overlapped => StillHolds(p)',
           stage = "boarder_check" => InBed(job[p].room, job[p].bed) = {},
           stage = "assign_write" => pc[p] = "boarder_check" /\ StaysOf(job[p].boarder) = {}
    PROVE  BedsInv'
<1>1. HandlersTypeOK(BedStages, BedJobs) /\ Lone /\ "idle" \notin BedStages
    BY DEF BedsInv, BedsTypeOK, BedStages
<1>2. /\ HandlersTypeOK(BedStages, BedJobs)' /\ Lone'
      /\ pc'[p] = stage /\ job' = job /\ OthersStay(p) /\ overlapped' = overlapped
    BY <1>1, GoToStep
<1>3. ~overlapped' => \A q \in Procs : q # p => pc'[q] = "idle"
    BY <1>1, <1>2 DEF Lone, OthersStay
<1>4. BedJob(p)' /\ (~overlapped' => StillHolds(p)')
    BY <1>2
<1>5. \A r, b : p \in Claiming(r, b)' => p \in Claiming(r, b) \/ InBed(r, b) = {}
    BY <1>2 DEF Claiming
<1>6. \A s : p \in Placing(s)' => StaysOf(s) = {}
    BY <1>2 DEF Placing
<1> QED BY <1>2, <1>3, <1>4, <1>5, <1>6, BedsFrame

(* A request that is refused, or writes no stay.                              *)
LEMMA BedsDone ==
    ASSUME BedsInv, NEW p \in Procs, pc[p] # "idle", Finish(p), BedTablesOK',
           Stays' = Stays,
           \A i \in Stays : /\ stays'[i].active => stays[i].active
                            /\ stays'[i].room = stays[i].room /\ stays'[i].bed = stays[i].bed
                            /\ stays'[i].boarder = stays[i].boarder,
           ~overlapped => AllFit'
    PROVE  BedsInv'
<1>1. HandlersTypeOK(BedStages, BedJobs) /\ Lone /\ "idle" \notin BedStages
    BY DEF BedsInv, BedsTypeOK, BedStages
<1>2. /\ HandlersTypeOK(BedStages, BedJobs)' /\ Lone'
      /\ pc'[p] = "idle" /\ OthersStay(p) /\ overlapped' = overlapped
    BY <1>1, FinishStep
<1>3. \A r, b : InBed(r, b)' \subseteq InBed(r, b)
    BY DEF InBed, InRoom, Stays
<1>4. \A s : StaysOf(s)' \subseteq StaysOf(s)
    BY DEF StaysOf, Stays
<1>5. /\ \A r, b : InBed(r, b)' \subseteq InBed(r, b) \cup {p}
      /\ \A s : StaysOf(s)' \subseteq StaysOf(s) \cup {p}
    BY <1>3, <1>4
<1> QED BY <1>2, <1>3, <1>4, <1>5, BedsOver

LEMMA BedsRefused ==
    ASSUME BedsInv, NEW p \in Procs, pc[p] # "idle", Finish(p), UNCHANGED bedVars
    PROVE  BedsInv'
<1>1. /\ BedTablesOK /\ UNCHANGED <<hostels, rooms, stays>>
    BY DEF BedsInv, BedsTypeOK, bedVars
<1>2. BedTablesOK' /\ Stays' = Stays
    BY <1>1 DEF BedTablesOK, Stays
<1>3. ~overlapped => AllFit'
    BY <1>1 DEF BedsInv, BedsInTurn, AllFit, Fits, IsOpen, GenderFits, Stays
<1> QED BY <1>1, <1>2, <1>3, BedsDone

----------------------------------------------------------------------------
(* Assignments *)

LEMMA AssignReadStep ==
    ASSUME BedsInv, NEW p \in Procs, NEW s \in Boarders, NEW r \in Rooms, NEW b \in Beds,
           AssignRead(p, s, r, b)
    PROVE  BedsInv'
<1> DEFINE j == [op |-> "assign", boarder |-> s, room |-> r, bed |-> b]
<1>1. j \in [op : {"assign"}, boarder : Boarders, room : Rooms, bed : Beds]
    OBVIOUS
<1>2. j \in BedJobs /\ "bed_check" \in BedStages
    BY <1>1 DEF BedJobs, BedStages
<1>3. Fits(s, r, b) /\ Begin(p, j, "bed_check") /\ UNCHANGED <<hostels, rooms, stays>>
    BY DEF AssignRead, Fits, bedVars
<1>4. Fits(s, r, b)'
    BY <1>3 DEF Fits, IsOpen, GenderFits
<1>5. j.boarder = s /\ j.room = r /\ j.bed = b
    OBVIOUS
<1> HIDE DEF j
<1>6. pc'[p] = "bed_check" /\ job'[p] = j => BedJob(p)'
    BY <1>1 DEF BedJob
<1>7. pc'[p] = "bed_check" /\ job'[p] = j => StillHolds(p)'
    BY <1>4, <1>5 DEF StillHolds
<1>8. UNCHANGED bedVars
    BY DEF AssignRead
<1> QED BY <1>2, <1>3, <1>6, <1>7, <1>8, BedsBegun

LEMMA BedCheckStep ==
    ASSUME BedsInv, NEW p \in Procs, BedCheck(p) \/ BoarderCheck(p)
    PROVE  BedsInv'
<1>1. /\ UNCHANGED bedVars /\ UNCHANGED <<hostels, rooms, stays>>
      /\ pc[p] \in AssignStages /\ pc[p] # "idle" /\ BedJob(p) /\ BedsInTurn
      /\ {"boarder_check", "assign_write"} \subseteq BedStages
    BY DEF BedCheck, BoarderCheck, bedVars, AssignStages, BedsInv, BedStages
<1>2. CASE Finish(p)
    BY <1>1, <1>2, BedsRefused
<1>3. ASSUME NEW stage \in {"boarder_check", "assign_write"}, pc'[p] = stage, job' = job
      PROVE  BedJob(p)' /\ (~overlapped => StillHolds(p)')
    <2>1. stage \in AssignStages /\ Stays' = Stays
        BY <1>1 DEF AssignStages, Stays
    <2>2. BedJob(p)'
        BY <1>1, <1>3, <2>1 DEF BedJob, AssignStages
    <2>3. ASSUME ~overlapped PROVE StillHolds(p)'
        <3>1. Fits(job[p].boarder, job[p].room, job[p].bed)
            BY <1>1, <2>3 DEF BedsInTurn, StillHolds
        <3>2. Fits(job[p].boarder, job[p].room, job[p].bed)'
            BY <1>1, <1>3, <3>1 DEF Fits, IsOpen, GenderFits
        <3> QED BY <1>3, <3>2 DEF StillHolds
    <2> QED BY <2>2, <2>3
<1>4. CASE BedCheck(p) /\ InBed(job[p].room, job[p].bed) = {}
    <2>1. GoTo(p, "boarder_check") /\ InBed(job[p].room, job[p].bed) = {}
        BY <1>4 DEF BedCheck
    <2> QED BY <1>1, <1>3, <2>1, BedsGoOn
<1>5. CASE BoarderCheck(p) /\ StaysOf(job[p].boarder) = {}
    <2>1. GoTo(p, "assign_write") /\ pc[p] = "boarder_check" /\ StaysOf(job[p].boarder) = {}
        BY <1>5 DEF BoarderCheck
    <2> QED BY <1>1, <1>3, <2>1, BedsGoOn
<1> QED BY <1>2, <1>4, <1>5 DEF BedCheck, BoarderCheck

LEMMA AssignWriteStep ==
    ASSUME BedsInv, NEW p \in Procs, AssignWrite(p)
    PROVE  BedsInv'
<1> DEFINE stay == [boarder |-> job[p].boarder, room |-> job[p].room, bed |-> job[p].bed, active |-> TRUE]
           n == Len(stays)
<1>1. /\ pc[p] = "assign_write" /\ Finish(p) /\ stays' = Append(stays, stay)
      /\ UNCHANGED <<hostels, rooms>> /\ BedTablesOK
      /\ job[p] \in [op : {"assign"}, boarder : Boarders, room : Rooms, bed : Beds]
    BY DEF AssignWrite, BedsInv, BedsTypeOK, BedJob, AssignStages
<1>2. /\ HandlersTypeOK(BedStages, BedJobs)' /\ Lone'
      /\ pc'[p] = "idle" /\ OthersStay(p) /\ overlapped' = overlapped
    <2>1. HandlersTypeOK(BedStages, BedJobs) /\ Lone /\ "idle" \notin BedStages
        BY DEF BedsInv, BedsTypeOK, BedStages
    <2> QED BY <1>1, <2>1, FinishStep
<1>3. /\ stay \in StayRows /\ stay.active
      /\ stay.boarder = job[p].boarder /\ stay.room = job[p].room /\ stay.bed = job[p].bed
    BY <1>1 DEF StayRows
<1> HIDE DEF stay
<1>4. /\ n \in Nat /\ Stays = 1..n /\ stays \in Seq(StayRows)
    BY <1>1, StaysFinite DEF BedTablesOK, StayRows
<1>5. /\ stays' \in Seq(StayRows) /\ Stays' = 1..(n + 1)
      /\ stays'[n + 1] = stay /\ \A i \in 1..n : stays'[i] = stays[i]
    <2>1. /\ Append(stays, stay) \in Seq(StayRows) /\ Len(Append(stays, stay)) = n + 1
          /\ \A i \in 1..n : Append(stays, stay)[i] = stays[i]
          /\ Append(stays, stay)[n + 1] = stay
        BY <1>3, <1>4, AppendProperties
    <2>2. DOMAIN Append(stays, stay) = 1..(n + 1)
        BY <2>1, LenProperties
    <2> QED BY <1>1, <2>1, <2>2 DEF Stays
<1>6. BedTablesOK'
    BY <1>1, <1>5 DEF BedTablesOK, StayRows
<1> HIDE DEF n
<1>7. Stays' = Stays \cup {n + 1} /\ \A i \in Stays : stays'[i] = stays[i]
    BY <1>4, <1>5
<1>8. \A r, b : /\ InBed(r, b)' \subseteq InBed(r, b) \cup {n + 1}
                /\ InBed(r, b)' \subseteq InBed(r, b) \/ p \in Claiming(r, b)
    <2> TAKE r, b
    <2>1. \A i \in InBed(r, b)' : i \in InBed(r, b) \/ (i = n + 1 /\ stay.room = r /\ stay.bed = b)
        BY <1>5, <1>7 DEF InBed, InRoom
    <2>2. stay.room = r /\ stay.bed = b => p \in Claiming(r, b)
        BY <1>1, <1>3 DEF Claiming
    <2> QED BY <2>1, <2>2
<1>9. \A s : /\ StaysOf(s)' \subseteq StaysOf(s) \cup {n + 1}
             /\ StaysOf(s)' \subseteq StaysOf(s) \/ p \in Placing(s)
    <2> TAKE s
    <2>1. \A i \in StaysOf(s)' : i \in StaysOf(s) \/ (i = n + 1 /\ stay.boarder = s)
        BY <1>5, <1>7 DEF StaysOf
    <2>2. stay.boarder = s => p \in Placing(s)
        BY <1>1, <1>3 DEF Placing
    <2> QED BY <2>1, <2>2
<1>10. ASSUME ~overlapped PROVE AllFit'
    <2>1. AllFit /\ Fits(job[p].boarder, job[p].room, job[p].bed)
        BY <1>1, <1>10 DEF BedsInv, BedsInTurn, StillHolds, AssignStages
    <2>2. ASSUME NEW i \in Stays', stays'[i].active
          PROVE  Fits(stays'[i].boarder, stays'[i].room, stays'[i].bed)
        BY <1>3, <1>5, <1>7, <2>1, <2>2 DEF AllFit
    <2>3. \A s, r, b : Fits(s, r, b)' <=> Fits(s, r, b)
        BY <1>1 DEF Fits, IsOpen, GenderFits
    <2> QED BY <2>2, <2>3 DEF AllFit
<1> QED BY <1>1, <1>2, <1>6, <1>7, <1>8, <1>9, <1>10, BedsOver

LEMMA ReleaseStep ==
    ASSUME BedsInv, NEW p \in Procs, (\E i \in Stays : ReleaseRead(p, i)) \/ ReleaseWrite(p)
    PROVE  BedsInv'
<1>1. ASSUME NEW i \in Stays, ReleaseRead(p, i) PROVE BedsInv'
    <2> DEFINE j == [op |-> "release", stay |-> i]
    <2>1. i \in Nat /\ Stays' = Stays
        BY <1>1, StaysFinite DEF BedsInv, BedsTypeOK, ReleaseRead, bedVars, Stays
    <2>2. j \in BedJobs /\ j.stay = i /\ "release_write" \in BedStages
        BY <2>1 DEF BedJobs, BedStages
    <2>3. Begin(p, j, "release_write") /\ UNCHANGED bedVars
        BY <1>1 DEF ReleaseRead
    <2> HIDE DEF j
    <2>4. /\ pc'[p] = "release_write" /\ job'[p] = j => BedJob(p)'
          /\ pc'[p] = "release_write" => StillHolds(p)'
        BY <2>1, <2>2 DEF BedJob, StillHolds, AssignStages
    <2> QED BY <2>2, <2>3, <2>4, BedsBegun
<1>2. ASSUME ReleaseWrite(p) PROVE BedsInv'
    <2>1. /\ pc[p] = "release_write" /\ Finish(p) /\ UNCHANGED <<hostels, rooms>> /\ BedTablesOK
          /\ job[p].stay \in Stays /\ stays' = [stays EXCEPT ![job[p].stay].active = FALSE]
        BY <1>2 DEF ReleaseWrite, BedsInv, BedsTypeOK, BedJob
    <2>2. /\ stays \in [1..Len(stays) -> StayRows] /\ Stays = 1..Len(stays) /\ Len(stays) \in Nat
        <3>1. stays \in Seq(StayRows)
            BY <2>1 DEF BedTablesOK, StayRows
        <3> QED BY <2>1, <3>1, StaysFinite, LenProperties
    <2>3. /\ stays' \in [1..Len(stays) -> StayRows] /\ Stays' = Stays
          /\ \A i \in Stays : /\ stays'[i].active => stays[i].active
                              /\ stays'[i].room = stays[i].room /\ stays'[i].bed = stays[i].bed
                              /\ stays'[i].boarder = stays[i].boarder
        BY <2>1, <2>2 DEF StayRows, Stays
    <2>4. stays' \in Seq(StayRows)
        BY <2>2, <2>3, IsASeq
    <2>5. BedTablesOK'
        BY <2>1, <2>4 DEF BedTablesOK, StayRows
    <2>6. ~overlapped => AllFit'
        <3>1. \A s, r, b : Fits(s, r, b)' <=> Fits(s, r, b)
            BY <2>1 DEF Fits, IsOpen, GenderFits
        <3> QED BY <2>3, <3>1 DEF BedsInv, BedsInTurn, AllFit
    <2> QED BY <2>1, <2>3, <2>5, <2>6, BedsDone
<1> QED BY <1>1, <1>2

----------------------------------------------------------------------------
(* Rooms and hostels *)

LEMMA RoomReads ==
    ASSUME BedsInv, NEW p \in Procs, NEW r \in Rooms,
           \/ \E n \in Beds : AddRoom(p, r, n) \/ ResizeRead(p, r, n)
           \/ DeleteRoomRead(p, r)
    PROVE  BedsInv'
<1>1. BedsTypeOK /\ BedTablesOK
    BY DEF BedsInv, BedsTypeOK
<1>2. ASSUME NEW n \in Beds, NEW stage \in {"room_create", "resize_check", "resize_write"},
             Begin(p, [op |-> "room", room |-> r, capacity |-> n], stage), UNCHANGED bedVars,
             stage = "resize_write" => ~(n < rooms[r].capacity)
      PROVE  BedsInv'
    <2> DEFINE j == [op |-> "room", room |-> r, capacity |-> n]
    <2>1. /\ j \in [op : {"room"}, room : Rooms, capacity : Beds] /\ j.room = r /\ j.capacity = n
          /\ j \in BedJobs /\ stage \in BedStages \ {"boarder_check", "assign_write"}
          /\ stage \notin AssignStages
        BY DEF BedJobs, BedStages, AssignStages
    <2>2. Begin(p, j, stage) /\ UNCHANGED bedVars /\ UNCHANGED stays
        BY <1>2 DEF bedVars
    <2> HIDE DEF j
    <2>3. pc'[p] = stage /\ job'[p] = j => BedJob(p)'
        BY <2>1 DEF BedJob
    <2>4. ASSUME pc'[p] = stage, job'[p] = j, AllFit PROVE StillHolds(p)'
        <3>1. ASSUME stage = "resize_write", NEW i \in InRoom(r) PROVE stays[i].bed <= n
            <4>1. stays[i].active /\ stays[i].room = r /\ i \in Stays /\ stays[i] \in StayRows
                BY <1>1, <3>1, StaysFinite DEF InRoom
            <4>2. stays[i].bed <= rooms[r].capacity
                BY <2>4, <4>1 DEF AllFit, Fits
            <4>3. stays[i].bed \in Nat /\ rooms[r].capacity \in Nat /\ n \in Nat
                BY <1>1, <4>1, HostelAssumptions DEF HostelAssumptions, StayRows, Beds, BedTablesOK
            <4> QED BY <1>2, <3>1, <4>2, <4>3
        <3>2. InRoom(r)' = InRoom(r)
            BY <2>2 DEF InRoom, Stays
        <3> QED BY <2>1, <2>2, <2>4, <3>1, <3>2 DEF StillHolds
    <2> QED BY <2>1, <2>2, <2>3, <2>4, BedsBegun
<1>3. ASSUME NEW n \in Beds, AddRoom(p, r, n) PROVE BedsInv'
    BY <1>2, <1>3 DEF AddRoom
<1>4. ASSUME NEW n \in Beds, ResizeRead(p, r, n) PROVE BedsInv'
    <2>1. CASE n < rooms[r].capacity
        BY <1>2, <1>4, <2>1 DEF ResizeRead
    <2>2. CASE ~(n < rooms[r].capacity)
        BY <1>2, <1>4, <2>2 DEF ResizeRead
    <2> QED BY <2>1, <2>2
<1>5. ASSUME DeleteRoomRead(p, r) PROVE BedsInv'
    <2> DEFINE j == [op |-> "unroom", room |-> r]
    <2>1. j \in BedJobs /\ j.room = r /\ "unroom_check" \in BedStages
        BY DEF BedJobs, BedStages
    <2>2. Begin(p, j, "unroom_check") /\ UNCHANGED bedVars
        BY <1>5 DEF DeleteRoomRead
    <2> HIDE DEF j
    <2>3. /\ pc'[p] = "unroom_check" /\ job'[p] = j => BedJob(p)'
          /\ pc'[p] = "unroom_check" => StillHolds(p)'
        BY <2>1 DEF BedJob, StillHolds, AssignStages
    <2> QED BY <2>1, <2>2, <2>3, BedsBegun
<1> QED BY <1>3, <1>4, <1>5

LEMMA HostelReads ==
    ASSUME BedsInv, NEW p \in Procs, NEW h \in Hostels,
           \/ \E g \in HostelGenders : EditHostelRead(p, h, g)
           \/ DeleteHostelRead(p, h)
    PROVE  BedsInv'
<1>1. ASSUME NEW g \in HostelGenders, EditHostelRead(p, h, g) PROVE BedsInv'
    <2> DEFINE j == [op |-> "regender", hostel |-> h, gender |-> g]
    <2>1. j \in BedJobs /\ j.hostel = h /\ j.gender = g /\ "regender_write" \in BedStages
        BY DEF BedJobs, BedStages
    <2>2. Begin(p, j, "regender_write") /\ UNCHANGED bedVars
        BY <1>1 DEF EditHostelRead
    <2> HIDE DEF j
    <2>3. /\ pc'[p] = "regender_write" /\ job'[p] = j => BedJob(p)'
          /\ pc'[p] = "regender_write" => StillHolds(p)'
        BY <2>1 DEF BedJob, StillHolds, AssignStages
    <2> QED BY <2>1, <2>2, <2>3, BedsBegun
<1>2. ASSUME DeleteHostelRead(p, h) PROVE BedsInv'
    <2> DEFINE j == [op |-> "unhostel", hostel |-> h]
    <2>1. j \in BedJobs /\ j.hostel = h /\ "unhostel_check" \in BedStages
        BY DEF BedJobs, BedStages
    <2>2. Begin(p, j, "unhostel_check") /\ UNCHANGED bedVars
        BY <1>2 DEF DeleteHostelRead
    <2> HIDE DEF j
    <2>3. /\ pc'[p] = "unhostel_check" /\ job'[p] = j => BedJob(p)'
          /\ pc'[p] = "unhostel_check" => StillHolds(p)'
        BY <2>1 DEF BedJob, StillHolds, AssignStages
    <2> QED BY <2>1, <2>2, <2>3, BedsBegun
<1> QED BY <1>1, <1>2

(* What the checks find; nobody stays in a room that is not open.             *)
LEMMA ChecksStep ==
    ASSUME BedsInv, NEW p \in Procs, ResizeCheck(p) \/ DeleteRoomCheck(p) \/ DeleteHostelCheck(p)
    PROVE  BedsInv'
<1>1. /\ UNCHANGED bedVars /\ UNCHANGED <<hostels, rooms, stays>>
      /\ pc[p] # "idle" /\ BedJob(p) /\ BedsInTurn
      /\ {"resize_write", "unroom_write", "unhostel_write"} \subseteq BedStages
    BY DEF ResizeCheck, DeleteRoomCheck, DeleteHostelCheck, bedVars, BedsInv, BedStages
<1>2. CASE Finish(p)
    BY <1>1, <1>2, BedsRefused
<1>3. /\ \A r : InRoom(r)' = InRoom(r)
      /\ Stays' = Stays
    BY <1>1 DEF InRoom, Stays
<1>4. CASE ResizeCheck(p) /\ ~Finish(p)
    <2>1. /\ pc[p] = "resize_check" /\ GoTo(p, "resize_write")
          /\ ~\E i \in InRoom(job[p].room) : stays[i].bed > job[p].capacity
        BY <1>4 DEF ResizeCheck
    <2>2. \A i \in InRoom(job[p].room) : stays[i].bed <= job[p].capacity
        <3>1. BedTablesOK /\ job[p].capacity \in Nat
            BY <1>1, <2>1, HostelAssumptions DEF HostelAssumptions, BedsInv, BedsTypeOK, BedJob, Beds
        <3>2. ASSUME NEW i \in InRoom(job[p].room) PROVE stays[i].bed <= job[p].capacity
            <4>1. stays[i] \in StayRows
                BY <3>1, StaysFinite DEF InRoom
            <4>2. stays[i].bed \in Nat
                BY <4>1, HostelAssumptions DEF HostelAssumptions, StayRows, Beds
            <4> QED BY <2>1, <3>1, <4>2
        <3> QED BY <3>2
    <2>3. pc'[p] = "resize_write" /\ job' = job => BedJob(p)' /\ StillHolds(p)'
        BY <1>1, <1>3, <2>1, <2>2 DEF BedJob, StillHolds, AssignStages
    <2> QED BY <1>1, <2>1, <2>3, BedsGoOn
<1>5. CASE DeleteRoomCheck(p) /\ ~Finish(p)
    <2>1. pc[p] = "unroom_check" /\ GoTo(p, "unroom_write") /\ InRoom(job[p].room) = {}
        BY <1>5 DEF DeleteRoomCheck
    <2>2. pc'[p] = "unroom_write" /\ job' = job => BedJob(p)' /\ StillHolds(p)'
        BY <1>1, <1>3, <2>1 DEF BedJob, StillHolds, AssignStages
    <2> QED BY <1>1, <2>1, <2>2, BedsGoOn
<1>6. CASE DeleteHostelCheck(p) /\ ~Finish(p)
    <2>1. /\ pc[p] = "unhostel_check" /\ GoTo(p, "unhostel_write")
          /\ \A r \in Rooms : HostelOf[r] = job[p].hostel /\ rooms[r].state = "open" => InRoom(r) = {}
        BY <1>6 DEF DeleteHostelCheck
    <2>2. pc'[p] = "unhostel_write" /\ job' = job => BedJob(p)'
        BY <1>1, <2>1 DEF BedJob, AssignStages
    <2>3. ASSUME ~overlapped, NEW i \in Stays, stays[i].active
          PROVE  HostelOf[stays[i].room] # job[p].hostel
        <3>1. IsOpen(stays[i].room)
            BY <1>1, <2>3 DEF BedsInTurn, AllFit, Fits
        <3>2. stays[i].room \in Rooms /\ i \in InRoom(stays[i].room)
            BY <2>3, StaysFinite DEF BedsInv, BedsTypeOK, StayRows, InRoom
        <3> QED BY <2>1, <3>1, <3>2 DEF IsOpen
    <2>4. pc'[p] = "unhostel_write" /\ job' = job /\ ~overlapped => StillHolds(p)'
        BY <1>1, <1>3, <2>3 DEF StillHolds, AssignStages
    <2> QED BY <1>1, <2>1, <2>2, <2>4, BedsGoOn
<1> QED BY <1>2, <1>4, <1>5, <1>6 DEF ResizeCheck, DeleteRoomCheck, DeleteHostelCheck

(* A write that leaves every stay as it is, in a room where it still fits.    *)
LEMMA RoomWrites ==
    ASSUME BedsInv, NEW p \in Procs,
           CreateRoom(p) \/ ResizeWrite(p) \/ DeleteRoomWrite(p) \/ EditHostelWrite(p) \/ DeleteHostelWrite(p)
    PROVE  BedsInv'
<1>1. /\ stays' = stays /\ Stays' = Stays /\ pc[p] # "idle" /\ Finish(p)
      /\ BedTablesOK /\ BedJob(p) /\ BedsInTurn
    BY DEF CreateRoom, ResizeWrite, DeleteRoomWrite, EditHostelWrite, DeleteHostelWrite, Stays,
           BedsInv, BedsTypeOK
<1>2. MaxBeds \in Nat /\ Beds \subseteq 0..MaxBeds /\ HostelOf \in [Rooms -> Hostels]
    BY HostelAssumptions DEF HostelAssumptions, Beds
<1>3. /\ \A i \in Stays : stays[i] \in StayRows /\ (stays[i].active => i \in InRoom(stays[i].room))
    BY <1>1, StaysFinite DEF InRoom
<1>4. BedTablesOK' /\ (~overlapped => AllFit') => BedsInv'
    BY <1>1, BedsDone
<1>5. ASSUME ~overlapped,
             \A i \in Stays : stays[i].active /\ Fits(stays[i].boarder, stays[i].room, stays[i].bed) =>
                              Fits(stays[i].boarder, stays[i].room, stays[i].bed)'
      PROVE  AllFit'
    BY <1>1, <1>5 DEF BedsInTurn, AllFit
<1>6. CASE CreateRoom(p)
    <2>1. /\ pc[p] = "room_create" /\ hostels' = hostels
          /\ job[p].room \in Rooms /\ job[p].capacity \in Beds
        BY <1>1, <1>6 DEF CreateRoom, BedJob
    <2>2. BedTablesOK'
        <3>1. [state |-> "open", capacity |-> job[p].capacity]
                \in [state : {"absent", "open", "deleted"}, capacity : 0..MaxBeds]
            BY <1>2, <2>1
        <3> QED BY <1>1, <1>6, <2>1, <3>1 DEF CreateRoom, BedTablesOK
    <2>3. \A r \in Rooms : IsOpen(r) => rooms'[r] = rooms[r]
        BY <1>1, <1>6 DEF CreateRoom, BedTablesOK, IsOpen
    <2>4. ~overlapped => AllFit'
        BY <1>1, <1>3, <1>5, <2>1, <2>3 DEF Fits, IsOpen, GenderFits, StayRows
    <2> QED BY <1>4, <2>2, <2>4
<1>7. CASE ResizeWrite(p)
    <2>1. /\ pc[p] = "resize_write" /\ hostels' = hostels
          /\ job[p].room \in Rooms /\ job[p].capacity \in Beds
          /\ rooms' = [rooms EXCEPT ![job[p].room].capacity = job[p].capacity]
        BY <1>1, <1>7 DEF ResizeWrite, BedJob
    <2>2. BedTablesOK'
        <3>1. job[p].capacity \in 0..MaxBeds
            BY <1>2, <2>1
        <3>2. rooms' \in [Rooms -> [state : {"absent", "open", "deleted"}, capacity : 0..MaxBeds]]
            BY <1>1, <2>1, <3>1 DEF BedTablesOK
        <3> QED BY <1>1, <2>1, <3>2 DEF BedTablesOK
    <2>3. \A r \in Rooms : /\ rooms'[r].state = rooms[r].state
                           /\ rooms'[r].capacity = IF r = job[p].room THEN job[p].capacity
                                                   ELSE rooms[r].capacity
        BY <1>1, <2>1 DEF BedTablesOK
    <2>4. ASSUME ~overlapped PROVE AllFit'
        <3>1. \A i \in InRoom(job[p].room) : stays[i].bed <= job[p].capacity
            BY <1>1, <2>1, <2>4 DEF BedsInTurn, StillHolds
        <3> QED BY <1>1, <1>3, <1>5, <2>1, <2>3, <2>4, <3>1 DEF Fits, IsOpen, GenderFits, StayRows
    <2> QED BY <1>4, <2>2, <2>4
<1>8. CASE DeleteRoomWrite(p)
    <2>1. /\ pc[p] = "unroom_write" /\ hostels' = hostels /\ job[p].room \in Rooms
          /\ rooms' = [rooms EXCEPT ![job[p].room].state = "deleted"]
        BY <1>1, <1>8 DEF DeleteRoomWrite, BedJob
    <2>2. BedTablesOK'
        <3>1. rooms' \in [Rooms -> [state : {"absent", "open", "deleted"}, capacity : 0..MaxBeds]]
            BY <1>1, <2>1 DEF BedTablesOK
        <3> QED BY <1>1, <2>1, <3>1 DEF BedTablesOK
    <2>3. \A r \in Rooms : r # job[p].room => rooms'[r] = rooms[r]
        BY <1>1, <2>1 DEF BedTablesOK
    <2>4. ASSUME ~overlapped PROVE AllFit'
        <3>1. InRoom(job[p].room) = {}
            BY <1>1, <2>1, <2>4 DEF BedsInTurn, StillHolds
        <3> QED BY <1>1, <1>3, <1>5, <2>1, <2>3, <2>4, <3>1 DEF Fits, IsOpen, GenderFits, StayRows
    <2> QED BY <1>4, <2>2, <2>4
<1>9. CASE EditHostelWrite(p)
    <2>1. /\ pc[p] = "regender_write" /\ rooms' = rooms /\ job[p].hostel \in Hostels
          /\ job[p].gender \in HostelGenders
          /\ hostels' = [hostels EXCEPT ![job[p].hostel].gender = job[p].gender,
                                        ![job[p].hostel].regendered = TRUE]
        BY <1>1, <1>9 DEF EditHostelWrite, BedJob
    <2>2. hostels' \in [Hostels -> [gender : HostelGenders, open : BOOLEAN, regendered : BOOLEAN]]
        BY <1>1, <2>1, ZenonT(60) DEF BedTablesOK
    <2>3. BedTablesOK'
        BY <1>1, <2>1, <2>2 DEF BedTablesOK
    <2>4. \A h \in Hostels : /\ hostels'[h].open = hostels[h].open
                             /\ h # job[p].hostel => hostels'[h] = hostels[h]
                             /\ h = job[p].hostel => hostels'[h].regendered
        BY <1>1, <2>1 DEF BedTablesOK
    <2>5. ASSUME NEW i \in Stays, stays[i].active, Fits(stays[i].boarder, stays[i].room, stays[i].bed)
          PROVE  Fits(stays[i].boarder, stays[i].room, stays[i].bed)'
        <3>1. PICK r \in Rooms, h \in Hostels : stays[i].room = r /\ HostelOf[r] = h
            BY <1>2, <1>3, <2>5 DEF StayRows
        <3>2. /\ hostels'[h].open = hostels[h].open
              /\ hostels'[h] = hostels[h] \/ hostels'[h].regendered
            BY <2>4
        <3>3. stays'[i] = stays[i] /\ rooms' = rooms
            BY <1>1, <2>1
        <3> QED BY <2>5, <3>1, <3>2, <3>3 DEF Fits, IsOpen, GenderFits
    <2>6. ~overlapped => AllFit'
        BY <1>5, <2>5
    <2> QED BY <1>4, <2>3, <2>6
<1>10. CASE DeleteHostelWrite(p)
    <2>1. /\ pc[p] = "unhostel_write" /\ rooms' = rooms /\ job[p].hostel \in Hostels
          /\ hostels' = [hostels EXCEPT ![job[p].hostel].open = FALSE]
        BY <1>1, <1>10 DEF DeleteHostelWrite, BedJob
    <2>2. hostels' \in [Hostels -> [gender : HostelGenders, open : BOOLEAN, regendered : BOOLEAN]]
        BY <1>1, <2>1 DEF BedTablesOK
    <2>3. BedTablesOK'
        BY <1>1, <2>1, <2>2 DEF BedTablesOK
    <2>4. \A h \in Hostels : h # job[p].hostel => hostels'[h] = hostels[h]
        BY <1>1, <2>1 DEF BedTablesOK
    <2>5. ASSUME ~overlapped PROVE AllFit'
        <3>1. \A i \in Stays : stays[i].active => HostelOf[stays[i].room] # job[p].hostel
            BY <1>1, <2>1, <2>5 DEF BedsInTurn, StillHolds
        <3> QED BY <1>1, <1>2, <1>3, <1>5, <2>1, <2>4, <2>5, <3>1 DEF Fits, IsOpen, GenderFits, StayRows
    <2> QED BY <1>4, <2>3, <2>5
<1> QED BY <1>6, <1>7, <1>8, <1>9, <1>10

----------------------------------------------------------------------------
LEMMA BedsStep == BedsInv /\ [BedsNext]_<<handlerVars, bedVars>> => BedsInv'
<1> SUFFICES ASSUME BedsInv, [BedsNext]_<<handlerVars, bedVars>> PROVE BedsInv'
    OBVIOUS
<1>1. ASSUME NEW p \in Procs, NEW r \in Rooms,
             \/ \E n \in Beds : AddRoom(p, r, n) \/ ResizeRead(p, r, n)
             \/ \E s \in Boarders, b \in Beds : AssignRead(p, s, r, b)
             \/ DeleteRoomRead(p, r)
      PROVE  BedsInv'
    BY <1>1, RoomReads, AssignReadStep
<1>2. ASSUME NEW p \in Procs, NEW i \in Stays, ReleaseRead(p, i) PROVE BedsInv'
    BY <1>2, ReleaseStep
<1>3. ASSUME NEW p \in Procs, NEW h \in Hostels,
             \/ \E g \in HostelGenders \ {hostels[h].gender} : EditHostelRead(p, h, g)
             \/ DeleteHostelRead(p, h)
      PROVE  BedsInv'
    BY <1>3, HostelReads
<1>4. ASSUME NEW p \in Procs,
             \/ CreateRoom(p)
             \/ BedCheck(p) \/ BoarderCheck(p) \/ AssignWrite(p)
             \/ ReleaseWrite(p)
             \/ ResizeCheck(p) \/ ResizeWrite(p)
             \/ DeleteRoomCheck(p) \/ DeleteRoomWrite(p)
             \/ EditHostelWrite(p)
             \/ DeleteHostelCheck(p) \/ DeleteHostelWrite(p)
      PROVE  BedsInv'
    BY <1>4, RoomWrites, BedCheckStep, AssignWriteStep, ReleaseStep, ChecksStep
<1>5. CASE UNCHANGED <<handlerVars, bedVars>>
    <2>1. UNCHANGED <<pc, job, overlapped, faults>> /\ UNCHANGED <<hostels, rooms, stays>>
        BY <1>5 DEF handlerVars, bedVars
    <2>2. BedsTypeOK' /\ Lone'
        BY <2>1 DEF BedsInv, BedsTypeOK, BedTablesOK, HandlersTypeOK, Lone
    <2>3. \A p \in Procs : BedJob(p)'
        BY <2>1 DEF BedsInv, BedJob, Stays
    <2>4. /\ \A r, b : InBed(r, b)' = InBed(r, b) /\ Claiming(r, b)' = Claiming(r, b)
          /\ \A s : StaysOf(s)' = StaysOf(s) /\ Placing(s)' = Placing(s)
          /\ Width' = Width
        BY <2>1 DEF InBed, InRoom, Stays, StaysOf, Claiming, Placing, Width
    <2>5. BedsCounted'
        BY <2>4 DEF BedsInv, BedsCounted
    <2>6. BedsInTurn'
        BY <2>1 DEF BedsInv, BedsInTurn, AllFit, StillHolds, Fits, IsOpen, GenderFits, InRoom, Stays
    <2> QED BY <2>2, <2>3, <2>5, <2>6 DEF BedsInv
<1> QED BY <1>1, <1>2, <1>3, <1>4, <1>5 DEF BedsNext

LEMMA BedsInvImplies == BedsInv => StaysFitTheirRooms
<1> SUFFICES ASSUME BedsInv PROVE StaysFitTheirRooms
    OBVIOUS
<1>1. BedTablesOK /\ BedsCounted /\ BedsInTurn
    BY DEF BedsInv, BedsTypeOK
<1>2. ASSUME NEW A, IsFiniteSet(A), NEW C \in SUBSET Procs, Cardinality(A) + Cardinality(C) <= Width
      PROVE  /\ Cardinality(A) <= Cardinality(Procs)
             /\ ~overlapped => Cardinality(A) <= 1
    <2>1. IsFiniteSet(Procs)
        BY HandlersAssumptions DEF HandlersAssumptions
    <2>2. /\ Cardinality(A) \in Nat /\ Cardinality(C) \in Nat /\ Cardinality(Procs) \in Nat
        BY <1>2, <2>1, FS_Subset, FS_CardinalityType
    <2>3. CASE overlapped
        BY <1>2, <2>2, <2>3 DEF Width
    <2>4. CASE ~overlapped
        <3>1. PICK p \in Procs : TRUE
            BY HandlersAssumptions DEF HandlersAssumptions
        <3>2. Cardinality({p}) = 1 /\ Cardinality({p}) <= Cardinality(Procs)
            BY <2>1, <3>1, FS_Singleton, FS_Subset
        <3> QED BY <1>2, <2>2, <2>4, <3>2 DEF Width
    <2> QED BY <2>3, <2>4
<1>3. /\ \A r \in Rooms, b \in Beds : IsFiniteSet(InBed(r, b)) /\ Claiming(r, b) \in SUBSET Procs
      /\ \A s \in Boarders : IsFiniteSet(StaysOf(s)) /\ Placing(s) \in SUBSET Procs
    BY <1>1, StaysFinite DEF Claiming, Placing
<1>4. HoldersBounded
    BY <1>1, <1>2, <1>3 DEF BedsCounted, HoldersBounded
<1>5. ASSUME ~overlapped, NEW i \in Stays, stays[i].active
      PROVE  Fits(stays[i].boarder, stays[i].room, stays[i].bed)
    BY <1>1, <1>5 DEF BedsInTurn, AllFit
<1> QED BY <1>4, <1>5 DEF StaysFitTheirRooms, Fits

(* Hostels, rooms and stays keep their types however assignments, resizings,  *)
(* edits and deletions interleave: a room has never more beds than the        *)
(* largest, nor a stay a bed beyond them.                                     *)
THEOREM BedTypes == BedsSpec => []BedsTypeOK
<1>1. BedsInv => BedsTypeOK
    BY DEF BedsInv
<1> QED BY <1>1, BedsInitial, BedsStep, PTL DEF BedsSpec

(* However assignments interleave, a bed has no more students and a student  *)
(* no more beds than there are requests at a time; with requests in turn one *)
(* each, in a room that is open, has the bed and is for the student's        *)
(* gender, whatever was resized, edited or deleted since.                    *)
THEOREM BoardersFitTheirRooms == BedsSpec => []StaysFitTheirRooms
<1> QED BY BedsInitial, BedsStep, BedsInvImplies, PTL DEF BedsSpec

----------------------------------------------------------------------------
(* Leave and payroll *)

ReviewJobs == [op : {"review"}, leave : Leaves, decision : LeaveStatuses]

LeaveJob(p) ==
    /\ pc[p] = "leave_create" =>
         job[p] \in [op : {"apply"}, leave : Leaves] /\ leaves[job[p].leave] = "none"
    /\ pc[p] \in {"leave_write", "leave_flip", "leave_tell"} =>
         job[p] \in ReviewJobs /\ job[p].decision # "PENDING" /\ leaves[job[p].leave] # "none"
    /\ pc[p] \in {"leave_flip", "leave_tell"} =>
         leaves[job[p].leave] # "PENDING" /\ job[p].decision # "CANCELLED"
    /\ pc[p] = "staff_write" => job[p] \in [op : {"staff"}, staff : Staff, status : StaffStatuses]
    /\ pc[p] \in {"pay_staff", "pay_write"} =>
         job[p] \in [op : {"payroll"}, slipped : SUBSET Staff, rows : SUBSET Staff]
    /\ pc[p] = "slip_write" =>
         job[p] \in [op : {"slip"}, staff : Staff, mark : {"due", "paid"}] /\ job[p].staff \in Slipped

OneApplicant ==
    \A p, q \in Procs : pc[p] = "leave_create" /\ pc[q] = "leave_create"
                        /\ job[p].leave = job[q].leave => p = q

(* Those who will tell the owner what they decided.                           *)
ReviewsToTell(l) ==
    {p \in Procs : /\ pc[p] \in {"leave_write", "leave_flip", "leave_tell"}
                   /\ job[p].leave = l /\ job[p].decision # "CANCELLED"}

(* That a leave is decided at most so often is not inductive: decisions made  *)
(* and decisions on their way are together no more than there were requests   *)
(* at a time, and none was made while the leave was pending.                  *)
DecisionsCounted ==
    \A l \in Leaves :
        /\ decided[l] + Cardinality(ReviewsToTell(l)) <= Width
        /\ leaves[l] \in {"none", "PENDING"} => decided[l] = 0

(* The payroll p may yet report a payslip of s.                               *)
Owes(p, s) ==
    \/ pc[p] = "pay_staff" /\ s \notin job[p].slipped
    \/ pc[p] = "pay_write" /\ s \in job[p].rows

(* Nor is the bound on payslips reported: each report of a person is charged  *)
(* to the payroll that made it, and a payroll that begins after the payslip   *)
(* is there reports it no more.                                               *)
SlipReports == {x \in Slipped \X Procs : ~Owes(x[2], x[1])}

PayslipsCounted ==
    reported >= Cardinality(Slipped) /\ reported <= Cardinality(SlipReports)

StatusExplained ==
    /\ \A s \in Staff : status[s] = IF s \in granted THEN "ON_LEAVE" ELSE entered[s]
    /\ \A s \in granted : \E l \in Running : OwnerOf[l] = s /\ leaves[l] \in {"APPROVED", "CANCELLED"}

(* What a request in turn has read is still so.                               *)
StillRead(p) ==
    /\ pc[p] = "leave_write" => MayReview(job[p].leave, job[p].decision)
    /\ pc[p] = "leave_flip" => job[p].leave \in Running /\ leaves[job[p].leave] = "APPROVED"
    /\ pc[p] = "pay_staff" => job[p].slipped = Slipped
    /\ pc[p] = "pay_write" => job[p].rows \cap Slipped = {}

LeaveInTurn ==
    ~overlapped => /\ StatusExplained /\ reported = Cardinality(Slipped)
                   /\ \A p \in Procs : StillRead(p)

LeaveInv ==
    /\ LeaveTypeOK /\ Lone /\ (\A p \in Procs : LeaveJob(p)) /\ OneApplicant
    /\ DecisionsCounted /\ PayslipsCounted /\ LeaveInTurn

LEMMA LeaveFacts ==
    ASSUME LeaveInv
    PROVE  /\ HandlersTypeOK(LeaveStages, LeaveJobs) /\ Lone /\ LeaveTablesOK
           /\ overlapped \in BOOLEAN /\ "idle" \notin LeaveStages
           /\ IsFiniteSet(Staff) /\ IsFiniteSet(Slipped) /\ Slipped \subseteq Staff
           /\ Cardinality(Slipped) \in Nat /\ reported \in Nat
           /\ IsFiniteSet(SlipReports) /\ Cardinality(SlipReports) \in Nat
           /\ SlipReports \subseteq Slipped \X Procs
<1>1. HandlersTypeOK(LeaveStages, LeaveJobs) /\ Lone /\ LeaveTablesOK
    BY DEF LeaveInv, LeaveTypeOK
<1>2. IsFiniteSet(Staff) /\ IsFiniteSet(Procs)
    BY LeaveAssumptions, HandlersAssumptions DEF LeaveAssumptions, HandlersAssumptions
<1>3. Slipped \subseteq Staff
    BY DEF Slipped
<1>4. IsFiniteSet(Slipped) /\ Cardinality(Slipped) \in Nat
    BY <1>2, <1>3, FS_Subset, FS_CardinalityType
<1>5. SlipReports \subseteq Slipped \X Procs
    BY DEF SlipReports
<1>6. IsFiniteSet(SlipReports) /\ Cardinality(SlipReports) \in Nat
    BY <1>2, <1>4, <1>5, FS_Product, FS_Subset, FS_CardinalityType
<1> QED BY <1>1, <1>2, <1>3, <1>4, <1>5, <1>6 DEF HandlersTypeOK, LeaveStages, LeaveTablesOK

(* What the others know stays so if leaves only go forward.                   *)
LEMMA OthersKnow ==
    ASSUME LeaveInv, NEW p \in Procs, OthersStay(p), Slipped \subseteq Slipped',
           \A q \in Procs : q # p /\ pc[q] = "leave_create" => leaves'[job[q].leave] = "none",
           \A l \in Leaves :
               /\ leaves[l] # "none" => leaves'[l] # "none"
               /\ leaves[l] \notin {"none", "PENDING"} => leaves'[l] \notin {"none", "PENDING"}
    PROVE  \A q \in Procs : q # p => LeaveJob(q)'
<1> SUFFICES ASSUME NEW q \in Procs, q # p PROVE LeaveJob(q)'
    OBVIOUS
<1>1. pc'[q] = pc[q] /\ job'[q] = job[q] /\ LeaveJob(q)
    BY DEF OthersStay, LeaveInv
<1>2. job[q] \in ReviewJobs => job[q].leave \in Leaves
    BY DEF ReviewJobs
<1> QED BY <1>1, <1>2 DEF LeaveJob

(* Decisions stay counted when p makes none, begins one on a pending leave,   *)
(* or moves a leave on.                                                       *)
LEMMA DecisionsKept ==
    ASSUME LeaveInv, NEW p \in Procs, OthersStay(p), Lone', overlapped' \in BOOLEAN,
           overlapped => overlapped', UNCHANGED decided,
           \A l \in Leaves : leaves'[l] \in {"none", "PENDING"} => leaves[l] \in {"none", "PENDING"},
           \A l \in Leaves : p \in ReviewsToTell(l)' => p \in ReviewsToTell(l) \/ leaves[l] = "PENDING"
    PROVE  DecisionsCounted'
<1> SUFFICES ASSUME NEW l \in Leaves
             PROVE  /\ decided[l] + Cardinality(ReviewsToTell(l)') <= Width'
                    /\ leaves'[l] \in {"none", "PENDING"} => decided[l] = 0
    BY DEF DecisionsCounted
<1>1. /\ decided[l] + Cardinality(ReviewsToTell(l)) <= Width /\ decided[l] \in Nat
      /\ leaves[l] \in {"none", "PENDING"} => decided[l] = 0
    BY LeaveFacts DEF LeaveInv, DecisionsCounted, LeaveTablesOK
<1>2. PICK v, w \in Nat : v = Width /\ w = Width' /\ v <= w
    BY LeaveFacts, WidthType
<1>3. PICK S \in SUBSET Procs, T \in SUBSET Procs : S = ReviewsToTell(l) /\ T = ReviewsToTell(l)'
    BY DEF ReviewsToTell
<1>4. \A q \in Procs : q # p => (q \in S <=> q \in T)
    BY <1>3 DEF ReviewsToTell, OthersStay
<1>5. /\ Cardinality(S) \in Nat /\ Cardinality(T) \in Nat
      /\ p \in S \/ p \notin T => Cardinality(T) <= Cardinality(S)
    BY <1>4, GroupStep
<1>6. CASE p \in S \/ p \notin T
    <2>1. decided[l] + Cardinality(T) <= w
        BY <1>1, <1>2, <1>3, <1>5, <1>6
    <2> QED BY <1>1, <1>2, <1>3, <2>1
<1>7. CASE p \notin S /\ p \in T
    <2>1. leaves[l] = "PENDING" /\ decided[l] = 0
        BY <1>1, <1>3, <1>7
    <2>2. ~overlapped' => \A x, y \in T : x = y
        <3>1. \A x \in T : pc'[x] # "idle"
            BY <1>3 DEF ReviewsToTell
        <3> QED BY <3>1 DEF Lone
    <2>3. Cardinality(T) <= IF overlapped' THEN Cardinality(Procs) ELSE 1
        BY <2>2, GroupBound
    <2>4. Cardinality(T) <= w
        BY <1>2, <2>3 DEF Width
    <2>5. decided[l] + Cardinality(T) <= w
        BY <1>5, <2>1, <2>4
    <2> QED BY <1>1, <1>2, <1>3, <2>1, <2>5
<1> QED BY <1>6, <1>7

(* Payslips stay counted when p writes none and owes no more than before.     *)
LEMMA PayslipsKept ==
    ASSUME LeaveInv, NEW p \in Procs, OthersStay(p), Slipped' = Slipped, UNCHANGED reported,
           \A s \in Slipped : Owes(p, s)' => Owes(p, s)
    PROVE  PayslipsCounted'
<1>1. \A q \in Procs, s \in Slipped : Owes(q, s)' => Owes(q, s)
    BY DEF Owes, OthersStay
<1>2. PICK R : R = SlipReports'
    OBVIOUS
<1>3. R = {x \in Slipped \X Procs : ~Owes(x[2], x[1])'}
    BY <1>2 DEF SlipReports
<1>4. SlipReports \subseteq R /\ R \subseteq Slipped \X Procs
    BY <1>1, <1>3 DEF SlipReports
<1>5. IsFiniteSet(Procs)
    BY HandlersAssumptions DEF HandlersAssumptions
<1>6. IsFiniteSet(R)
    BY <1>4, <1>5, LeaveFacts, FS_Product, FS_Subset
<1>7. Cardinality(SlipReports) <= Cardinality(R) /\ Cardinality(R) \in Nat
    BY <1>4, <1>6, FS_Subset, FS_CardinalityType
<1>8. reported >= Cardinality(Slipped) /\ reported <= Cardinality(R)
    BY <1>7, LeaveFacts DEF LeaveInv, PayslipsCounted
<1> QED BY <1>2, <1>8 DEF PayslipsCounted

LEMMA ApplicantsKept ==
    ASSUME LeaveInv, NEW p \in Procs, OthersStay(p),
           pc'[p] = "leave_create" =>
               \A q \in Procs : pc[q] = "leave_create" => job[q].leave # job'[p].leave
    PROVE  OneApplicant'
BY DEF LeaveInv, OneApplicant, OthersStay

(* A request in turn has read what is still so; the others are idle.          *)
LEMMA TurnKept ==
    ASSUME NEW p \in Procs, Lone', pc'[p] # "idle" \/ \A q \in Procs : q # p => pc'[q] = "idle",
           ~overlapped' => StatusExplained' /\ reported' = Cardinality(Slipped') /\ StillRead(p)'
    PROVE  LeaveInTurn'
<1> SUFFICES ASSUME ~overlapped' PROVE \A q \in Procs : StillRead(q)'
    BY DEF LeaveInTurn
<1>1. ASSUME NEW q \in Procs, q # p PROVE StillRead(q)'
    <2>1. pc'[q] = "idle"
        BY <1>1 DEF Lone
    <2> QED BY <2>1 DEF StillRead
<1> QED BY <1>1

(* The steps that leave the tables alone.                                     *)
LEMMA LeaveFrame ==
    ASSUME LeaveInv, HandlersTypeOK(LeaveStages, LeaveJobs)', Lone', UNCHANGED leaveVars,
           overlapped => overlapped', NEW p \in Procs, OthersStay(p),
           pc'[p] # "idle" \/ (pc[p] # "idle" /\ overlapped' = overlapped),
           LeaveJob(p)', ~overlapped' => StillRead(p)',
           pc'[p] = "leave_create" =>
               \A q \in Procs : pc[q] = "leave_create" => job[q].leave # job'[p].leave,
           \A l \in Leaves : p \in ReviewsToTell(l)' => p \in ReviewsToTell(l) \/ leaves[l] = "PENDING",
           \A s \in Slipped : Owes(p, s)' => Owes(p, s)
    PROVE  LeaveInv'
<1>1. UNCHANGED <<leaves, status, slips, reported, decided, entered, granted>> /\ Slipped' = Slipped
    BY DEF leaveVars, Slipped
<1>2. overlapped' \in BOOLEAN /\ overlapped \in BOOLEAN
    BY LeaveFacts DEF HandlersTypeOK
<1>3. LeaveTypeOK'
    BY <1>1, LeaveFacts DEF LeaveTypeOK, LeaveTablesOK
<1>4. \A q \in Procs : LeaveJob(q)'
    <2>1. \A q \in Procs : pc[q] = "leave_create" => leaves[job[q].leave] = "none"
        BY DEF LeaveInv, LeaveJob
    <2>2. \A q \in Procs : q # p => LeaveJob(q)'
        BY <1>1, <2>1, OthersKnow
    <2> QED BY <2>2
<1>5. OneApplicant' /\ DecisionsCounted' /\ PayslipsCounted'
    BY <1>1, <1>2, ApplicantsKept, DecisionsKept, PayslipsKept
<1>6. LeaveInTurn'
    <2>1. pc'[p] # "idle" \/ \A q \in Procs : q # p => pc'[q] = "idle" \/ overlapped'
        BY <1>2 DEF LeaveInv, Lone, OthersStay
    <2>2. ASSUME ~overlapped' PROVE StatusExplained' /\ reported' = Cardinality(Slipped') /\ StillRead(p)'
        BY <1>1, <1>2, <2>2 DEF LeaveInv, LeaveInTurn, StatusExplained
    <2>3. CASE overlapped'
        BY <2>3 DEF LeaveInTurn
    <2>4. CASE ~overlapped'
        BY <2>1, <2>2, <2>4, TurnKept
    <2> QED BY <2>3, <2>4
<1> QED BY <1>3, <1>4, <1>5, <1>6 DEF LeaveInv

LEMMA LeaveInitial == HandlersInit /\ LeaveInit => LeaveInv
<1> SUFFICES ASSUME HandlersInit, LeaveInit PROVE LeaveInv
    OBVIOUS
<1>1. HandlersTypeOK(LeaveStages, LeaveJobs) /\ Lone /\ Quiescent
    BY HandlersInitType
<1>2. LeaveTablesOK /\ Slipped = {}
    BY DEF LeaveInit, LeaveTablesOK, LeaveStatuses, StaffStatuses, Slipped
<1>3. /\ \A p \in Procs : LeaveJob(p) /\ StillRead(p)
      /\ OneApplicant
    BY <1>1 DEF Quiescent, LeaveJob, StillRead, OneApplicant
<1>4. Cardinality({}) = 0 /\ 0 + 0 <= 1
    BY FS_EmptySet
<1>5. DecisionsCounted
    <2>1. \A l : ReviewsToTell(l) = {}
        BY <1>1 DEF ReviewsToTell, Quiescent
    <2>2. Width = 1 /\ \A l \in Leaves : decided[l] = 0
        BY DEF HandlersInit, Width, LeaveInit
    <2> QED BY <1>4, <2>1, <2>2 DEF DecisionsCounted
<1>6. PayslipsCounted /\ reported = Cardinality(Slipped)
    <2>1. SlipReports = {}
        BY <1>2 DEF SlipReports
    <2> QED BY <1>2, <1>4, <2>1 DEF PayslipsCounted, LeaveInit
<1>7. StatusExplained
    BY DEF LeaveInit, StatusExplained
<1> QED BY <1>1, <1>2, <1>3, <1>5, <1>6, <1>7 DEF LeaveInv, LeaveTypeOK, LeaveInTurn

(* A request is taken up.                                                     *)
LEMMA LeaveBegun ==
    ASSUME LeaveInv, NEW p \in Procs, NEW j \in LeaveJobs, NEW stage \in LeaveStages,
           Begin(p, j, stage), UNCHANGED leaveVars,
           pc'[p] = stage /\ job'[p] = j =>
               /\ LeaveJob(p)' /\ StillRead(p)'
               /\ \A l \in Leaves : p \in ReviewsToTell(l)' => leaves[l] = "PENDING"
               /\ \A s \in Slipped : ~Owes(p, s)',
           stage = "leave_create" =>
               \A q \in Procs : pc[q] = "leave_create" => job[q].leave # j.leave
    PROVE  LeaveInv'
<1>1. /\ HandlersTypeOK(LeaveStages, LeaveJobs)' /\ Lone'
      /\ pc[p] = "idle" /\ pc'[p] = stage /\ job'[p] = j /\ OthersStay(p)
      /\ overlapped => overlapped'
    BY LeaveFacts, BeginStep
<1>2. pc'[p] # "idle"
    BY <1>1, LeaveFacts
<1> QED BY <1>1, <1>2, LeaveFrame

LEMMA LeaveReads ==
    ASSUME LeaveInv, NEW p \in Procs,
           \/ \E l \in Leaves :
                \/ Apply(p, l)
                \/ \E decision \in LeaveStatuses \ {"PENDING"} : ReviewRead(p, l, decision)
           \/ \E s \in Staff :
                \/ \E new \in StaffStatuses : EditStaff(p, s, new)
                \/ \E mark \in {"due", "paid"} : MarkSlip(p, s, mark)
           \/ PayrollRead(p)
    PROVE  LeaveInv'
<1>1. ASSUME NEW l \in Leaves, Apply(p, l) PROVE LeaveInv'
    <2> DEFINE j == [op |-> "apply", leave |-> l]
    <2>1. /\ j \in LeaveJobs /\ j \in [op : {"apply"}, leave : Leaves] /\ j.leave = l
          /\ "leave_create" \in LeaveStages
        BY DEF LeaveJobs, LeaveStages
    <2>2. Begin(p, j, "leave_create") /\ UNCHANGED leaveVars /\ leaves[l] = "none" /\ leaves' = leaves
          /\ \A q \in Procs : pc[q] = "leave_create" => job[q].leave # j.leave
        BY <1>1 DEF Apply, leaveVars
    <2> HIDE DEF j
    <2>3. ASSUME pc'[p] = "leave_create", job'[p] = j
          PROVE  /\ LeaveJob(p)' /\ StillRead(p)'
                 /\ \A m \in Leaves : p \notin ReviewsToTell(m)'
                 /\ \A s \in Slipped : ~Owes(p, s)'
        BY <2>1, <2>2, <2>3 DEF LeaveJob, StillRead, ReviewsToTell, Owes
    <2> QED BY <2>1, <2>2, <2>3, LeaveBegun
<1>2. ASSUME NEW l \in Leaves, NEW decision \in LeaveStatuses \ {"PENDING"}, ReviewRead(p, l, decision)
      PROVE  LeaveInv'
    <2> DEFINE j == [op |-> "review", leave |-> l, decision |-> decision]
    <2>1. /\ j \in LeaveJobs /\ j \in ReviewJobs /\ j.leave = l /\ j.decision = decision
          /\ decision # "PENDING" /\ "leave_write" \in LeaveStages
        BY DEF LeaveJobs, ReviewJobs, LeaveStages
    <2>2. Begin(p, j, "leave_write") /\ UNCHANGED leaveVars /\ leaves' = leaves
          /\ leaves[l] # "none" /\ (decision # "CANCELLED" => leaves[l] = "PENDING")
          /\ MayReview(l, decision)
        BY <1>2 DEF ReviewRead, MayReview, leaveVars
    <2> HIDE DEF j
    <2>3. ASSUME pc'[p] = "leave_write", job'[p] = j
          PROVE  /\ LeaveJob(p)' /\ StillRead(p)'
                 /\ \A m \in Leaves : p \in ReviewsToTell(m)' => leaves[m] = "PENDING"
                 /\ \A s \in Slipped : ~Owes(p, s)'
        BY <2>1, <2>2, <2>3 DEF LeaveJob, StillRead, MayReview, ReviewsToTell, Owes
    <2> QED BY <2>1, <2>2, <2>3, LeaveBegun
<1>3. ASSUME NEW s \in Staff, NEW new \in StaffStatuses, EditStaff(p, s, new) PROVE LeaveInv'
    <2> DEFINE j == [op |-> "staff", staff |-> s, status |-> new]
    <2>1. /\ j \in LeaveJobs /\ j \in [op : {"staff"}, staff : Staff, status : StaffStatuses]
          /\ "staff_write" \in LeaveStages
        BY DEF LeaveJobs, LeaveStages
    <2>2. Begin(p, j, "staff_write") /\ UNCHANGED leaveVars
        BY <1>3 DEF EditStaff
    <2> HIDE DEF j
    <2>3. ASSUME pc'[p] = "staff_write", job'[p] = j
          PROVE  /\ LeaveJob(p)' /\ StillRead(p)'
                 /\ \A m \in Leaves : p \notin ReviewsToTell(m)'
                 /\ \A x \in Slipped : ~Owes(p, x)'
        BY <2>1, <2>3 DEF LeaveJob, StillRead, ReviewsToTell, Owes
    <2> QED BY <2>1, <2>2, <2>3, LeaveBegun
<1>4. ASSUME NEW s \in Staff, NEW mark \in {"due", "paid"}, MarkSlip(p, s, mark) PROVE LeaveInv'
    <2> DEFINE j == [op |-> "slip", staff |-> s, mark |-> mark]
    <2>1. /\ j \in LeaveJobs /\ j \in [op : {"slip"}, staff : Staff, mark : {"due", "paid"}]
          /\ j.staff = s /\ "slip_write" \in LeaveStages
        BY DEF LeaveJobs, LeaveStages
    <2>2. Begin(p, j, "slip_write") /\ UNCHANGED leaveVars /\ s \in Slipped /\ Slipped' = Slipped
        BY <1>4 DEF MarkSlip, leaveVars, Slipped
    <2> HIDE DEF j
    <2>3. ASSUME pc'[p] = "slip_write", job'[p] = j
          PROVE  /\ LeaveJob(p)' /\ StillRead(p)'
                 /\ \A m \in Leaves : p \notin ReviewsToTell(m)'
                 /\ \A x \in Slipped : ~Owes(p, x)'
        BY <2>1, <2>2, <2>3 DEF LeaveJob, StillRead, ReviewsToTell, Owes
    <2> QED BY <2>1, <2>2, <2>3, LeaveBegun
<1>5. CASE PayrollRead(p)
    <2> DEFINE j == [op |-> "payroll", slipped |-> Slipped, rows |-> {}]
    <2>1. /\ j \in LeaveJobs /\ j \in [op : {"payroll"}, slipped : SUBSET Staff, rows : SUBSET Staff]
          /\ j.slipped = Slipped /\ "pay_staff" \in LeaveStages
        BY LeaveFacts DEF LeaveJobs, LeaveStages
    <2>2. Begin(p, j, "pay_staff") /\ UNCHANGED leaveVars /\ Slipped' = Slipped
        BY <1>5 DEF PayrollRead, leaveVars, Slipped
    <2> HIDE DEF j
    <2>3. ASSUME pc'[p] = "pay_staff", job'[p] = j
          PROVE  /\ LeaveJob(p)' /\ StillRead(p)'
                 /\ \A m \in Leaves : p \notin ReviewsToTell(m)'
                 /\ \A x \in Slipped : ~Owes(p, x)'
        BY <2>1, <2>2, <2>3 DEF LeaveJob, StillRead, ReviewsToTell, Owes
    <2> QED BY <2>1, <2>2, <2>3, LeaveBegun
<1> QED BY <1>1, <1>2, <1>3, <1>4, <1>5

LEMMA PayrollSelects ==
    ASSUME LeaveInv, NEW p \in Procs, NEW salaried \in SUBSET Staff, PayrollStaff(p, salaried)
    PROVE  LeaveInv'
<1> DEFINE rows == {s \in salaried : status[s] \in {"ACTIVE", "ON_LEAVE"}} \ job[p].slipped
           j == [job[p] EXCEPT !.rows = rows]
<1>1. /\ pc[p] = "pay_staff" /\ pc[p] # "idle" /\ UNCHANGED leaveVars
      /\ IF rows = {} THEN Finish(p) ELSE Carry(p, j, "pay_write")
    BY DEF PayrollStaff
<1>2. /\ job[p] \in [op : {"payroll"}, slipped : SUBSET Staff, rows : SUBSET Staff]
    BY <1>1 DEF LeaveInv, LeaveJob
<1>3. CASE rows = {}
    <2>1. /\ HandlersTypeOK(LeaveStages, LeaveJobs)' /\ Lone'
          /\ pc'[p] = "idle" /\ OthersStay(p) /\ overlapped' = overlapped
        BY <1>1, <1>3, LeaveFacts, FinishStep
    <2>2. /\ LeaveJob(p)' /\ StillRead(p)'
          /\ \A l \in Leaves : p \notin ReviewsToTell(l)'
          /\ \A s \in Slipped : ~Owes(p, s)'
        BY <2>1 DEF LeaveJob, StillRead, ReviewsToTell, Owes
    <2> QED BY <1>1, <2>1, <2>2, LeaveFrame
<1>4. CASE rows # {}
    <2>1. /\ j \in [op : {"payroll"}, slipped : SUBSET Staff, rows : SUBSET Staff]
          /\ j.rows = rows /\ rows \cap job[p].slipped = {} /\ j \in LeaveJobs
          /\ "pay_write" \in LeaveStages
        BY <1>2 DEF LeaveJobs, LeaveStages
    <2>2. Carry(p, j, "pay_write")
        BY <1>1, <1>4
    <2> HIDE DEF j
    <2>3. /\ HandlersTypeOK(LeaveStages, LeaveJobs)' /\ Lone'
          /\ pc'[p] = "pay_write" /\ job'[p] = j /\ OthersStay(p) /\ overlapped' = overlapped
        BY <1>1, <2>1, <2>2, LeaveFacts, CarryStep
    <2>4. Slipped' = Slipped
        BY <1>1 DEF leaveVars, Slipped
    <2>5. /\ LeaveJob(p)'
          /\ \A l \in Leaves : p \notin ReviewsToTell(l)'
          /\ \A s \in Slipped : Owes(p, s)' => Owes(p, s)
        BY <1>1, <2>1, <2>3 DEF LeaveJob, ReviewsToTell, Owes
    <2>6. ~overlapped' => StillRead(p)'
        <3>1. ~overlapped => job[p].slipped = Slipped
            BY <1>1 DEF LeaveInv, LeaveInTurn, StillRead
        <3> QED BY <2>1, <2>3, <2>4, <3>1 DEF StillRead
    <2> QED BY <1>1, <2>1, <2>3, <2>5, <2>6, LeaveFrame
<1> QED BY <1>3, <1>4

LEMMA LeaveDies ==
    ASSUME LeaveInv, NEW p \in Procs, Dies(p) /\ UNCHANGED leaveVars
    PROVE  LeaveInv'
<1>1. pc[p] # "idle"
    BY DEF Dies
<1>2. /\ HandlersTypeOK(LeaveStages, LeaveJobs)' /\ Lone'
      /\ pc'[p] = "idle" /\ OthersStay(p) /\ overlapped' = overlapped
    BY <1>1, LeaveFacts, FinishStep
<1>3. /\ LeaveJob(p)' /\ StillRead(p)'
      /\ \A l \in Leaves : p \notin ReviewsToTell(l)'
      /\ \A s \in Slipped : ~Owes(p, s)'
    BY <1>2 DEF LeaveJob, StillRead, ReviewsToTell, Owes
<1> QED BY <1>1, <1>2, <1>3, LeaveFrame

(* The steps that write. Whoever ends is known to nothing any more.           *)
LEMMA LeaveEnds ==
    ASSUME LeaveInv, NEW p \in Procs, pc'[p] = "idle"
    PROVE  /\ LeaveJob(p)' /\ StillRead(p)'
           /\ \A l \in Leaves : p \notin ReviewsToTell(l)'
           /\ \A s : ~Owes(p, s)'
BY DEF LeaveJob, StillRead, ReviewsToTell, Owes

(* A step of a request that leaves the payslips as they are.                  *)
LEMMA LeaveWritten ==
    ASSUME LeaveInv, HandlersTypeOK(LeaveStages, LeaveJobs)', Lone', LeaveTablesOK',
           overlapped' = overlapped, NEW p \in Procs, pc[p] # "idle", OthersStay(p),
           pc'[p] # "leave_create", Slipped' = Slipped, UNCHANGED reported,
           LeaveJob(p)', \A s : ~Owes(p, s)',
           \A q \in Procs : q # p => LeaveJob(q)',
           DecisionsCounted',
           ~overlapped => StatusExplained' /\ StillRead(p)'
    PROVE  LeaveInv'
<1>1. OneApplicant' /\ PayslipsCounted'
    BY ApplicantsKept, PayslipsKept
<1>2. \A q \in Procs : LeaveJob(q)'
    OBVIOUS
<1>3. LeaveInTurn'
    <2>1. CASE overlapped
        BY <2>1 DEF LeaveInTurn
    <2>2. CASE ~overlapped
        <3>1. \A q \in Procs : q # p => pc'[q] = "idle"
            BY <2>2 DEF LeaveInv, Lone, OthersStay
        <3>2. StatusExplained' /\ reported' = Cardinality(Slipped') /\ StillRead(p)'
            BY <2>2 DEF LeaveInv, LeaveInTurn
        <3> QED BY <3>1, <3>2, TurnKept
    <2> QED BY <2>1, <2>2 DEF LeaveInv, LeaveTypeOK, HandlersTypeOK
<1> QED BY <1>1, <1>2, <1>3 DEF LeaveInv, LeaveTypeOK

LEMMA ApplyWriteStep ==
    ASSUME LeaveInv, NEW p \in Procs, ApplyWrite(p)
    PROVE  LeaveInv'
<1> DEFINE l == job[p].leave
<1>1. /\ pc[p] = "leave_create" /\ pc[p] # "idle" /\ l \in Leaves /\ leaves[l] = "none"
      /\ leaves' = [leaves EXCEPT ![l] = "PENDING"]
      /\ UNCHANGED <<status, slips, reported, decided, entered, granted>>
      /\ Finish(p) /\ LeaveTablesOK
    BY LeaveFacts DEF ApplyWrite, LeaveInv, LeaveJob
<1>2. /\ HandlersTypeOK(LeaveStages, LeaveJobs)' /\ Lone'
      /\ pc'[p] = "idle" /\ OthersStay(p) /\ overlapped' = overlapped
    BY <1>1, LeaveFacts, FinishStep
<1>3. /\ leaves'[l] = "PENDING" /\ \A m \in Leaves : m # l => leaves'[m] = leaves[m]
      /\ leaves' \in [Leaves -> LeaveStatuses \cup {"none"}]
    BY <1>1 DEF LeaveTablesOK, LeaveStatuses
<1>4. LeaveTablesOK' /\ Slipped' = Slipped
    BY <1>1, <1>3 DEF LeaveTablesOK, Slipped
<1>5. \A q \in Procs : q # p => LeaveJob(q)'
    <2>1. ASSUME NEW q \in Procs, q # p, pc[q] = "leave_create" PROVE leaves'[job[q].leave] = "none"
        BY <1>1, <1>3, <2>1 DEF LeaveInv, OneApplicant, LeaveJob
    <2> QED BY <1>1, <1>2, <1>3, <1>4, <2>1, OthersKnow
<1>6. LeaveJob(p)' /\ StillRead(p)' /\ (\A m \in Leaves : p \notin ReviewsToTell(m)') /\ \A s : ~Owes(p, s)'
    BY <1>2, LeaveEnds
<1>7. DecisionsCounted'
    BY <1>1, <1>2, <1>3, <1>6, LeaveFacts, DecisionsKept
<1>8. ~overlapped => StatusExplained'
    <2> SUFFICES ASSUME ~overlapped PROVE StatusExplained'
        OBVIOUS
    <2>1. StatusExplained
        BY DEF LeaveInv, LeaveInTurn
    <2>2. \A m \in Running : m \in Leaves
        BY LeaveAssumptions DEF LeaveAssumptions
    <2> QED BY <1>1, <1>3, <2>1, <2>2 DEF StatusExplained
<1> QED BY <1>1, <1>2, <1>4, <1>5, <1>6, <1>7, <1>8, LeaveWritten

LEMMA ReviewWriteStep ==
    ASSUME LeaveInv, NEW p \in Procs, ReviewWrite(p)
    PROVE  LeaveInv'
<1> DEFINE l == job[p].leave
           d == job[p].decision
<1>1. /\ pc[p] = "leave_write" /\ pc[p] # "idle" /\ l \in Leaves /\ leaves[l] # "none"
      /\ d \in LeaveStatuses \ {"PENDING"} /\ job[p] \in ReviewJobs
      /\ leaves' = [leaves EXCEPT ![l] = d]
      /\ UNCHANGED <<status, slips, reported, decided, entered, granted>>
      /\ LeaveTablesOK
    BY LeaveFacts DEF ReviewWrite, LeaveInv, LeaveJob, ReviewJobs
<1>2. PICK stage \in {"leave_flip", "leave_tell", "idle"} :
          /\ stage = "idle" => d = "CANCELLED" /\ Finish(p)
          /\ stage # "idle" => d # "CANCELLED" /\ GoTo(p, stage)
          /\ stage = "leave_flip" => d = "APPROVED" /\ l \in Running
    <2>1. CASE d = "APPROVED" /\ l \in Running
        BY <2>1 DEF ReviewWrite
    <2>2. CASE d = "CANCELLED"
        BY <2>2 DEF ReviewWrite
    <2>3. CASE ~(d = "APPROVED" /\ l \in Running) /\ d # "CANCELLED"
        BY <2>3 DEF ReviewWrite
    <2> QED BY <2>1, <2>2, <2>3
<1>3. /\ HandlersTypeOK(LeaveStages, LeaveJobs)' /\ Lone'
      /\ pc'[p] = stage /\ (stage # "idle" => job'[p] = job[p])
      /\ OthersStay(p) /\ overlapped' = overlapped
    <2>1. CASE stage = "idle"
        BY <1>1, <1>2, <2>1, LeaveFacts, FinishStep
    <2>2. CASE stage # "idle"
        <3>1. stage \in LeaveStages
            BY <2>2 DEF LeaveStages
        <3> QED BY <1>1, <1>2, <2>2, <3>1, LeaveFacts, GoToStep
    <2> QED BY <2>1, <2>2
<1>4. /\ leaves'[l] = d /\ \A m \in Leaves : m # l => leaves'[m] = leaves[m]
      /\ leaves' \in [Leaves -> LeaveStatuses \cup {"none"}]
    BY <1>1 DEF LeaveTablesOK
<1>5. LeaveTablesOK' /\ Slipped' = Slipped
    BY <1>1, <1>4 DEF LeaveTablesOK, Slipped
<1>6. d \notin {"none", "PENDING"}
    BY <1>1 DEF LeaveStatuses
<1>7. \A q \in Procs : q # p => LeaveJob(q)'
    <2>1. ASSUME NEW q \in Procs, q # p, pc[q] = "leave_create" PROVE leaves'[job[q].leave] = "none"
        BY <1>1, <1>4, <2>1 DEF LeaveInv, LeaveJob
    <2>2. \A m \in Leaves :
              /\ leaves[m] # "none" => leaves'[m] # "none"
              /\ leaves[m] \notin {"none", "PENDING"} => leaves'[m] \notin {"none", "PENDING"}
        BY <1>4, <1>6
    <2> QED BY <1>3, <1>5, <2>1, <2>2, OthersKnow
<1>8. LeaveJob(p)' /\ \A s : ~Owes(p, s)'
    BY <1>1, <1>2, <1>3, <1>4, <1>6 DEF LeaveJob, Owes
<1>9. \A m \in Leaves : p \in ReviewsToTell(m)' => p \in ReviewsToTell(m)
    BY <1>1, <1>2, <1>3 DEF ReviewsToTell
<1>10. \A m \in Leaves : leaves'[m] \in {"none", "PENDING"} => leaves[m] \in {"none", "PENDING"}
    BY <1>4, <1>6
<1>11. DecisionsCounted'
    BY <1>1, <1>3, <1>9, <1>10, LeaveFacts, DecisionsKept
<1>12. ~overlapped => StatusExplained' /\ StillRead(p)'
    <2> SUFFICES ASSUME ~overlapped PROVE StatusExplained' /\ StillRead(p)'
        OBVIOUS
    <2>1. StatusExplained /\ MayReview(l, d)
        BY <1>1 DEF LeaveInv, LeaveInTurn, StillRead
    <2>2. \A m \in Running : m \in Leaves
        BY LeaveAssumptions DEF LeaveAssumptions
    <2>3. leaves[l] \in {"APPROVED", "CANCELLED"} => d = "CANCELLED"
        BY <2>1 DEF MayReview
    <2>4. \A m \in Running : leaves[m] \in {"APPROVED", "CANCELLED"} => leaves'[m] \in {"APPROVED", "CANCELLED"}
        BY <1>4, <2>2, <2>3
    <2>5. StatusExplained'
        BY <1>1, <2>1, <2>4 DEF StatusExplained
    <2>6. StillRead(p)'
        BY <1>2, <1>3, <1>4 DEF StillRead
    <2> QED BY <2>5, <2>6
<1> QED BY <1>1, <1>2, <1>3, <1>5, <1>7, <1>8, <1>11, <1>12, LeaveWritten

LEMMA FlipStep ==
    ASSUME LeaveInv, NEW p \in Procs, FlipStatus(p)
    PROVE  LeaveInv'
<1> DEFINE l == job[p].leave
           s == OwnerOf[job[p].leave]
<1>1. /\ pc[p] = "leave_flip" /\ pc[p] # "idle" /\ l \in Leaves /\ s \in Staff
      /\ status' = [status EXCEPT ![s] = "ON_LEAVE"] /\ granted' = granted \cup {s}
      /\ UNCHANGED <<leaves, slips, reported, decided, entered>>
      /\ GoTo(p, "leave_tell") /\ LeaveTablesOK /\ "leave_tell" \in LeaveStages
      /\ job[p] \in ReviewJobs
    BY LeaveFacts, LeaveAssumptions
       DEF LeaveAssumptions, FlipStatus, LeaveInv, LeaveJob, ReviewJobs, LeaveStages
<1>2. /\ HandlersTypeOK(LeaveStages, LeaveJobs)' /\ Lone'
      /\ pc'[p] = "leave_tell" /\ job' = job /\ OthersStay(p) /\ overlapped' = overlapped
    BY <1>1, LeaveFacts, GoToStep
<1>3. /\ status'[s] = "ON_LEAVE" /\ \A x \in Staff : x # s => status'[x] = status[x]
      /\ status' \in [Staff -> StaffStatuses]
    BY <1>1 DEF LeaveTablesOK, StaffStatuses
<1>4. LeaveTablesOK' /\ Slipped' = Slipped
    BY <1>1, <1>3 DEF LeaveTablesOK, Slipped
<1>5. \A q \in Procs : q # p => LeaveJob(q)'
    <2>1. \A q \in Procs : q # p /\ pc[q] = "leave_create" => leaves'[job[q].leave] = "none"
        BY <1>1 DEF LeaveInv, LeaveJob
    <2> QED BY <1>1, <1>2, <1>4, <2>1, OthersKnow
<1>6. LeaveJob(p)' /\ StillRead(p)' /\ \A x : ~Owes(p, x)'
    BY <1>1, <1>2 DEF LeaveInv, LeaveJob, StillRead, Owes
<1>7. \A m \in Leaves : p \in ReviewsToTell(m)' => p \in ReviewsToTell(m)
    BY <1>1, <1>2 DEF ReviewsToTell
<1>8. DecisionsCounted'
    BY <1>1, <1>2, <1>7, LeaveFacts, DecisionsKept
<1>9. ~overlapped => StatusExplained'
    <2> SUFFICES ASSUME ~overlapped PROVE StatusExplained'
        OBVIOUS
    <2>1. StatusExplained /\ l \in Running /\ leaves[l] = "APPROVED"
        BY <1>1 DEF LeaveInv, LeaveInTurn, StillRead
    <2>2. \A x \in Staff : status'[x] = IF x \in granted' THEN "ON_LEAVE" ELSE entered'[x]
        BY <1>1, <1>3, <2>1 DEF StatusExplained
    <2>3. \A x \in granted' : \E m \in Running : OwnerOf[m] = x /\ leaves'[m] \in {"APPROVED", "CANCELLED"}
        BY <1>1, <2>1 DEF StatusExplained
    <2> QED BY <2>2, <2>3 DEF StatusExplained
<1> QED BY <1>1, <1>2, <1>4, <1>5, <1>6, <1>8, <1>9, LeaveWritten

LEMMA TellStep ==
    ASSUME LeaveInv, NEW p \in Procs, TellOwner(p)
    PROVE  LeaveInv'
<1> DEFINE l == job[p].leave
<1>1. /\ pc[p] = "leave_tell" /\ pc[p] # "idle" /\ l \in Leaves
      /\ leaves[l] \notin {"none", "PENDING"} /\ job[p].decision # "CANCELLED"
      /\ decided' = [decided EXCEPT ![l] = @ + 1]
      /\ UNCHANGED <<leaves, status, slips, reported, entered, granted>>
      /\ Finish(p) /\ LeaveTablesOK
    BY LeaveFacts DEF TellOwner, LeaveInv, LeaveJob, ReviewJobs
<1>2. /\ HandlersTypeOK(LeaveStages, LeaveJobs)' /\ Lone'
      /\ pc'[p] = "idle" /\ OthersStay(p) /\ overlapped' = overlapped
    BY <1>1, LeaveFacts, FinishStep
<1>3. decided' \in [Leaves -> Nat] /\ \A m \in Leaves : decided'[m] = IF m = l THEN decided[m] + 1 ELSE decided[m]
    BY <1>1 DEF LeaveTablesOK
<1>4. LeaveTablesOK' /\ Slipped' = Slipped
    BY <1>1, <1>3 DEF LeaveTablesOK, Slipped
<1>5. \A q \in Procs : q # p => LeaveJob(q)'
    <2>1. \A q \in Procs : q # p /\ pc[q] = "leave_create" => leaves'[job[q].leave] = "none"
        BY <1>1 DEF LeaveInv, LeaveJob
    <2> QED BY <1>1, <1>2, <1>4, <2>1, OthersKnow
<1>6. LeaveJob(p)' /\ StillRead(p)' /\ (\A m \in Leaves : p \notin ReviewsToTell(m)') /\ \A x : ~Owes(p, x)'
    BY <1>2, LeaveEnds
<1>7. DecisionsCounted'
    <2> SUFFICES ASSUME NEW m \in Leaves
                 PROVE  /\ decided'[m] + Cardinality(ReviewsToTell(m)') <= Width'
                        /\ leaves'[m] \in {"none", "PENDING"} => decided'[m] = 0
        BY DEF DecisionsCounted
    <2>1. /\ decided[m] + Cardinality(ReviewsToTell(m)) <= Width /\ decided[m] \in Nat
          /\ leaves[m] \in {"none", "PENDING"} => decided[m] = 0
        BY <1>1 DEF LeaveInv, DecisionsCounted, LeaveTablesOK
    <2>2. PICK w \in Nat : w = Width /\ w = Width'
        BY <1>2, LeaveFacts, WidthType DEF Width
    <2>3. PICK S \in SUBSET Procs, T \in SUBSET Procs : S = ReviewsToTell(m) /\ T = ReviewsToTell(m)'
        BY DEF ReviewsToTell
    <2>4. \A q \in Procs : q # p => (q \in S <=> q \in T)
        BY <1>2, <2>3 DEF ReviewsToTell, OthersStay
    <2>5. p \notin T /\ (p \in S <=> m = l)
        BY <1>1, <1>6, <2>3 DEF ReviewsToTell
    <2>6. /\ Cardinality(S) \in Nat /\ Cardinality(T) \in Nat
          /\ m = l => Cardinality(S) = Cardinality(T) + 1
          /\ m # l => Cardinality(S) = Cardinality(T)
        BY <2>4, <2>5, GroupStep
    <2>7. PICK d \in Nat : d = decided'[m]
        BY <1>3
    <2>8. d + Cardinality(T) <= w
        BY <1>3, <2>1, <2>2, <2>3, <2>6, <2>7
    <2>9. leaves'[m] \in {"none", "PENDING"} => decided'[m] = 0
        BY <1>1, <1>3, <2>1
    <2> QED BY <2>2, <2>3, <2>7, <2>8, <2>9
<1>8. ~overlapped => StatusExplained'
    BY <1>1 DEF LeaveInv, LeaveInTurn, StatusExplained
<1> QED BY <1>1, <1>2, <1>4, <1>5, <1>6, <1>7, <1>8, LeaveWritten

LEMMA EditWriteStep ==
    ASSUME LeaveInv, NEW p \in Procs, EditStaffWrite(p)
    PROVE  LeaveInv'
<1> DEFINE s == job[p].staff
           new == job[p].status
<1>1. /\ pc[p] = "staff_write" /\ pc[p] # "idle" /\ s \in Staff /\ new \in StaffStatuses
      /\ status' = [status EXCEPT ![s] = new] /\ entered' = [entered EXCEPT ![s] = new]
      /\ granted' = granted \ {s}
      /\ UNCHANGED <<leaves, slips, reported, decided>>
      /\ Finish(p) /\ LeaveTablesOK
    BY LeaveFacts DEF EditStaffWrite, LeaveInv, LeaveJob
<1>2. /\ HandlersTypeOK(LeaveStages, LeaveJobs)' /\ Lone'
      /\ pc'[p] = "idle" /\ OthersStay(p) /\ overlapped' = overlapped
    BY <1>1, LeaveFacts, FinishStep
<1>3. /\ status' \in [Staff -> StaffStatuses] /\ entered' \in [Staff -> StaffStatuses]
      /\ \A x \in Staff : /\ status'[x] = IF x = s THEN new ELSE status[x]
                          /\ entered'[x] = IF x = s THEN new ELSE entered[x]
    BY <1>1 DEF LeaveTablesOK
<1>4. LeaveTablesOK' /\ Slipped' = Slipped
    BY <1>1, <1>3 DEF LeaveTablesOK, Slipped
<1>5. \A q \in Procs : q # p => LeaveJob(q)'
    <2>1. \A q \in Procs : q # p /\ pc[q] = "leave_create" => leaves'[job[q].leave] = "none"
        BY <1>1 DEF LeaveInv, LeaveJob
    <2> QED BY <1>1, <1>2, <1>4, <2>1, OthersKnow
<1>6. LeaveJob(p)' /\ StillRead(p)' /\ (\A m \in Leaves : p \notin ReviewsToTell(m)') /\ \A x : ~Owes(p, x)'
    BY <1>2, LeaveEnds
<1>7. DecisionsCounted'
    BY <1>1, <1>2, <1>6, LeaveFacts, DecisionsKept
<1>8. ~overlapped => StatusExplained'
    BY <1>1, <1>3 DEF LeaveInv, LeaveInTurn, StatusExplained, LeaveTablesOK
<1> QED BY <1>1, <1>2, <1>4, <1>5, <1>6, <1>7, <1>8, LeaveWritten

LEMMA MarkSlipStep ==
    ASSUME LeaveInv, NEW p \in Procs, MarkSlipWrite(p)
    PROVE  LeaveInv'
<1> DEFINE s == job[p].staff
<1>1. /\ pc[p] = "slip_write" /\ pc[p] # "idle" /\ s \in Slipped /\ s \in Staff
      /\ job[p].mark \in {"due", "paid"}
      /\ slips' = [slips EXCEPT ![s] = job[p].mark]
      /\ UNCHANGED <<leaves, status, reported, decided, entered, granted>>
      /\ Finish(p) /\ LeaveTablesOK
    BY LeaveFacts DEF MarkSlipWrite, LeaveInv, LeaveJob
<1>2. /\ HandlersTypeOK(LeaveStages, LeaveJobs)' /\ Lone'
      /\ pc'[p] = "idle" /\ OthersStay(p) /\ overlapped' = overlapped
    BY <1>1, LeaveFacts, FinishStep
<1>3. /\ slips' \in [Staff -> {"none", "due", "paid"}] /\ slips'[s] # "none"
      /\ \A x \in Staff : x # s => slips'[x] = slips[x]
    BY <1>1 DEF LeaveTablesOK
<1>4. LeaveTablesOK' /\ Slipped' = Slipped
    BY <1>1, <1>3 DEF LeaveTablesOK, Slipped
<1>5. \A q \in Procs : q # p => LeaveJob(q)'
    <2>1. \A q \in Procs : q # p /\ pc[q] = "leave_create" => leaves'[job[q].leave] = "none"
        BY <1>1 DEF LeaveInv, LeaveJob
    <2> QED BY <1>1, <1>2, <1>4, <2>1, OthersKnow
<1>6. LeaveJob(p)' /\ StillRead(p)' /\ (\A m \in Leaves : p \notin ReviewsToTell(m)') /\ \A x : ~Owes(p, x)'
    BY <1>2, LeaveEnds
<1>7. DecisionsCounted'
    BY <1>1, <1>2, <1>6, LeaveFacts, DecisionsKept
<1>8. ~overlapped => StatusExplained'
    BY <1>1 DEF LeaveInv, LeaveInTurn, StatusExplained
<1> QED BY <1>1, <1>2, <1>4, <1>5, <1>6, <1>7, <1>8, LeaveWritten

(* The payslips of rows are written, and each person of rows is charged to p. *)
LEMMA PayrollWriteStep ==
    ASSUME LeaveInv, NEW p \in Procs, PayrollWrite(p)
    PROVE  LeaveInv'
<1>1. PICK R \in SUBSET Staff : R = job[p].rows
    BY DEF PayrollWrite, LeaveInv, LeaveJob
<1>2. /\ pc[p] = "pay_write" /\ pc[p] # "idle"
      /\ slips' = [s \in Staff |-> IF s \in R \ Slipped THEN "due" ELSE slips[s]]
      /\ reported' = reported + Cardinality(R)
      /\ UNCHANGED <<leaves, status, decided, entered, granted>>
      /\ Finish(p) /\ LeaveTablesOK
    BY <1>1, LeaveFacts DEF PayrollWrite
<1>3. /\ HandlersTypeOK(LeaveStages, LeaveJobs)' /\ Lone'
      /\ pc'[p] = "idle" /\ OthersStay(p) /\ overlapped' = overlapped
    BY <1>2, LeaveFacts, FinishStep
<1>4. Slipped' = Slipped \cup R
    BY <1>2 DEF Slipped
<1>5. /\ IsFiniteSet(R) /\ Cardinality(R) \in Nat /\ IsFiniteSet(Slipped) /\ IsFiniteSet(Procs)
      /\ IsFiniteSet(Slipped \cup R) /\ Cardinality(Slipped \cup R) \in Nat
      /\ Cardinality(Slipped) \in Nat /\ reported \in Nat
    BY LeaveFacts, HandlersAssumptions, FS_Subset, FS_Union, FS_CardinalityType DEF HandlersAssumptions
<1>6. LeaveTablesOK'
    <2>1. reported' \in Nat
        BY <1>2, <1>5
    <2> QED BY <1>2, <2>1 DEF LeaveTablesOK
<1>7. \A q \in Procs : LeaveJob(q)'
    <2>1. \A q \in Procs : q # p /\ pc[q] = "leave_create" => leaves'[job[q].leave] = "none"
        BY <1>2 DEF LeaveInv, LeaveJob
    <2>2. \A q \in Procs : q # p => LeaveJob(q)'
        BY <1>2, <1>3, <1>4, <2>1, OthersKnow
    <2> QED BY <1>3, <2>2, LeaveEnds
<1>8. OneApplicant' /\ DecisionsCounted'
    <2>1. \A m \in Leaves : p \notin ReviewsToTell(m)'
        BY <1>3, LeaveEnds
    <2> QED BY <1>2, <1>3, <2>1, LeaveFacts, ApplicantsKept, DecisionsKept
<1>9. PayslipsCounted'
    <2> DEFINE charged == R \X {p}
    <2>1. PICK After : After = SlipReports'
        OBVIOUS
    <2>2. After \subseteq (Slipped \cup R) \X Procs
        BY <1>4, <2>1 DEF SlipReports
    <2>3. IsFiniteSet(After) /\ Cardinality(After) \in Nat
        BY <1>5, <2>2, FS_Product, FS_Subset, FS_CardinalityType
    <2>4. SlipReports \subseteq After
        <3>1. ASSUME NEW s \in Slipped, NEW q \in Procs, ~Owes(q, s) PROVE ~Owes(q, s)'
            <4>1. CASE q = p
                BY <1>3, <4>1, LeaveEnds
            <4>2. CASE q # p
                BY <1>3, <3>1, <4>2 DEF Owes, OthersStay
            <4> QED BY <4>1, <4>2
        <3> QED BY <1>4, <2>1, <3>1 DEF SlipReports
    <2>5. charged \subseteq After
        <3>1. \A s : ~Owes(p, s)'
            BY <1>3, LeaveEnds
        <3> QED BY <1>4, <2>1, <3>1 DEF SlipReports
    <2>6. charged \cap SlipReports = {}
        BY <1>1, <1>2 DEF SlipReports, Owes
    <2>7. IsFiniteSet({p}) /\ Cardinality({p}) = 1
        BY FS_Singleton
    <2>8. IsFiniteSet(charged) /\ Cardinality(charged) = Cardinality(R) * 1
        BY <1>5, <2>7, FS_Product
    <2>9. Cardinality(charged) = Cardinality(R)
        BY <1>5, <2>8
    <2>10. PICK c : c = charged
        OBVIOUS
    <2> HIDE DEF charged
    <2>11. /\ IsFiniteSet(SlipReports \cup c)
           /\ Cardinality(SlipReports \cup c) = Cardinality(SlipReports) + Cardinality(c) - Cardinality(SlipReports \cap c)
        BY <2>8, <2>10, LeaveFacts, FS_Union
    <2>12. SlipReports \cap c = {} /\ Cardinality({}) = 0
        BY <2>6, <2>10, FS_EmptySet
    <2>13. Cardinality(SlipReports \cup c) <= Cardinality(After)
        BY <2>3, <2>4, <2>5, <2>10, FS_Subset
    <2>14. reported <= Cardinality(SlipReports) /\ Cardinality(SlipReports) \in Nat
        BY LeaveFacts DEF LeaveInv, PayslipsCounted
    <2>15. Cardinality(c) = Cardinality(R)
        BY <2>9, <2>10
    <2>16. Cardinality(SlipReports \cup c) = Cardinality(SlipReports) + Cardinality(R)
        <3>1. Cardinality(SlipReports \cap c) = 0
            BY <2>12
        <3>2. Cardinality(SlipReports \cup c) = Cardinality(SlipReports) + Cardinality(R) - 0
            BY <2>11, <2>15, <3>1
        <3>3. Cardinality(R) \in Nat
            BY <1>5
        <3> QED BY <2>14, <3>2, <3>3
    <2>17. reported + Cardinality(R) <= Cardinality(After)
        BY <1>5, <2>3, <2>13, <2>14, <2>16
    <2>18. Cardinality(Slipped \cup R) <= Cardinality(Slipped) + Cardinality(R)
        <3>1. Cardinality(Slipped \cup R) = Cardinality(Slipped) + Cardinality(R) - Cardinality(Slipped \cap R)
            BY <1>5, FS_Union
        <3>2. Cardinality(Slipped \cap R) \in Nat
            BY <1>5, FS_Intersection, FS_CardinalityType
        <3> QED BY <1>5, <3>1, <3>2
    <2>19. reported >= Cardinality(Slipped)
        BY DEF LeaveInv, PayslipsCounted
    <2>20. reported + Cardinality(R) >= Cardinality(Slipped \cup R)
        BY <1>5, <2>18, <2>19
    <2> QED BY <1>2, <1>4, <2>1, <2>17, <2>20 DEF PayslipsCounted
<1>10. LeaveInTurn'
    <2> SUFFICES ASSUME ~overlapped PROVE LeaveInTurn'
        BY <1>3 DEF LeaveInTurn
    <2>1. StatusExplained /\ reported = Cardinality(Slipped) /\ R \cap Slipped = {}
        BY <1>1, <1>2 DEF LeaveInv, LeaveInTurn, StillRead
    <2>2. StatusExplained'
        BY <1>2, <2>1 DEF StatusExplained
    <2>3. Cardinality(Slipped \cup R) = Cardinality(Slipped) + Cardinality(R)
        <3>1. Cardinality(Slipped \cup R) = Cardinality(Slipped) + Cardinality(R) - Cardinality(Slipped \cap R)
            BY <1>5, FS_Union
        <3>2. Slipped \cap R = {} /\ Cardinality({}) = 0
            BY <2>1, FS_EmptySet
        <3>3. Cardinality(Slipped \cap R) = 0
            BY <3>2
        <3> QED BY <1>5, <3>1, <3>3
    <2>4. reported' = Cardinality(Slipped')
        BY <1>2, <1>4, <2>1, <2>3
    <2>5. \A q \in Procs : q # p => pc'[q] = "idle"
        BY <1>2, <1>3 DEF LeaveInv, Lone, OthersStay
    <2>6. StillRead(p)'
        BY <1>3, LeaveEnds
    <2> QED BY <1>3, <2>2, <2>4, <2>5, <2>6, TurnKept
<1> QED BY <1>3, <1>6, <1>7, <1>8, <1>9, <1>10 DEF LeaveInv, LeaveTypeOK

LEMMA LeaveStep == LeaveInv /\ [LeaveNext]_<<handlerVars, leaveVars>> => LeaveInv'
<1> SUFFICES ASSUME LeaveInv, [LeaveNext]_<<handlerVars, leaveVars>> PROVE LeaveInv'
    OBVIOUS
<1>1. ASSUME NEW p \in Procs,
             \/ \E l \in Leaves :
                  \/ Apply(p, l)
                  \/ \E decision \in LeaveStatuses \ {"PENDING"} : ReviewRead(p, l, decision)
             \/ \E s \in Staff :
                  \/ \E new \in StaffStatuses : EditStaff(p, s, new)
                  \/ \E mark \in {"due", "paid"} : MarkSlip(p, s, mark)
             \/ PayrollRead(p)
      PROVE  LeaveInv'
    BY <1>1, LeaveReads
<1>2. ASSUME NEW p \in Procs,
             \/ ApplyWrite(p)
             \/ ReviewWrite(p) \/ FlipStatus(p) \/ TellOwner(p)
             \/ EditStaffWrite(p)
             \/ (\E salaried \in SUBSET Staff : PayrollStaff(p, salaried))
             \/ PayrollWrite(p) \/ MarkSlipWrite(p)
             \/ Dies(p) /\ UNCHANGED leaveVars
      PROVE  LeaveInv'
    BY <1>2, ApplyWriteStep, ReviewWriteStep, FlipStep, TellStep, EditWriteStep,
       PayrollSelects, PayrollWriteStep, MarkSlipStep, LeaveDies
<1>3. CASE UNCHANGED <<handlerVars, leaveVars>>
    <2>1. /\ UNCHANGED <<pc, job, overlapped, faults>>
          /\ UNCHANGED <<leaves, status, slips, reported, decided, entered, granted>>
        BY <1>3 DEF handlerVars, leaveVars
    <2>2. LeaveTypeOK' /\ Lone'
        BY <2>1 DEF LeaveInv, LeaveTypeOK, LeaveTablesOK, HandlersTypeOK, Lone
    <2>3. (\A p \in Procs : LeaveJob(p)') /\ OneApplicant'
        BY <2>1 DEF LeaveInv, LeaveJob, OneApplicant, Slipped
    <2>4. Slipped' = Slipped /\ SlipReports' = SlipReports /\ Width' = Width /\ \A l : ReviewsToTell(l)' = ReviewsToTell(l)
        BY <2>1 DEF Slipped, SlipReports, Owes, Width, ReviewsToTell
    <2>5. DecisionsCounted' /\ PayslipsCounted'
        BY <2>1, <2>4 DEF LeaveInv, DecisionsCounted, PayslipsCounted
    <2>6. LeaveInTurn'
        BY <2>1, <2>4 DEF LeaveInv, LeaveInTurn, StatusExplained, StillRead, MayReview
    <2> QED BY <2>2, <2>3, <2>5, <2>6 DEF LeaveInv
<1> QED BY <1>1, <1>2, <1>3 DEF LeaveNext

LEMMA LeaveInvImplies == LeaveInv => LeaveAndPayAgree
<1> SUFFICES ASSUME LeaveInv PROVE LeaveAndPayAgree
    OBVIOUS
<1>1. IsFiniteSet(Procs) /\ Cardinality(Procs) \in Nat /\ Cardinality(Procs) >= 1
    <2>1. PICK p \in Procs : IsFiniteSet(Procs)
        BY HandlersAssumptions DEF HandlersAssumptions
    <2>2. Cardinality({p}) = 1 /\ Cardinality({p}) <= Cardinality(Procs)
        BY <2>1, FS_Singleton, FS_Subset
    <2> QED BY <2>1, <2>2, FS_CardinalityType
<1>2. ASSUME NEW l \in Leaves
      PROVE  decided[l] <= Cardinality(Procs) /\ (~overlapped => decided[l] <= 1)
    <2>1. ReviewsToTell(l) \subseteq Procs
        BY DEF ReviewsToTell
    <2>2. Cardinality(ReviewsToTell(l)) \in Nat /\ decided[l] \in Nat
        BY <1>1, <2>1, LeaveFacts, FS_Subset, FS_CardinalityType DEF LeaveTablesOK
    <2>3. decided[l] + Cardinality(ReviewsToTell(l)) <= Width
        BY DEF LeaveInv, DecisionsCounted
    <2>4. CASE overlapped
        BY <1>1, <2>2, <2>3, <2>4 DEF Width
    <2>5. CASE ~overlapped
        BY <1>1, <2>2, <2>3, <2>5 DEF Width
    <2> QED BY <2>4, <2>5
<1>3. reported >= Cardinality(Slipped) /\ reported <= Cardinality(Slipped) * Cardinality(Procs)
    <2>1. reported >= Cardinality(Slipped) /\ reported <= Cardinality(SlipReports)
        BY DEF LeaveInv, PayslipsCounted
    <2>2. /\ IsFiniteSet(Slipped \X Procs)
          /\ Cardinality(Slipped \X Procs) = Cardinality(Slipped) * Cardinality(Procs)
        BY <1>1, LeaveFacts, FS_Product
    <2>3. Cardinality(SlipReports) <= Cardinality(Slipped \X Procs)
        BY <2>2, LeaveFacts, FS_Subset
    <2>4. Cardinality(Slipped \X Procs) \in Nat
        BY <2>2, FS_CardinalityType
    <2>5. reported <= Cardinality(Slipped \X Procs)
        BY <2>1, <2>3, <2>4, LeaveFacts
    <2> QED BY <2>1, <2>2, <2>5
<1> QED BY <1>2, <1>3 DEF LeaveAndPayAgree, LeaveInv, LeaveInTurn, StatusExplained

(* Leaves, people, payslips and what was decided and reported keep their      *)
(* types, however applications, reviews, edits and payrolls run beside each   *)
(* other; a payroll holds nobody but staff.                                   *)
THEOREM LeaveTypes == LeaveSpec => []LeaveTypeOK
<1>1. LeaveInv => LeaveTypeOK
    BY DEF LeaveInv
<1> QED BY <1>1, LeaveInitial, LeaveStep, PTL DEF LeaveSpec

(* However reviews and payrolls overlap, a leave is decided no more often than *)
(* there are requests at a time and so is a payslip reported; in turn once     *)
(* each, and a person's status is what was entered last or follows from an     *)
(* approved leave.                                                             *)
THEOREM LeaveAgreesWithPay == LeaveSpec => []LeaveAndPayAgree
<1> QED BY LeaveInitial, LeaveStep, LeaveInvImplies, PTL DEF LeaveSpec

----------------------------------------------------------------------------
(* Mark sheets *)

Totals == {Total(marks) : marks \in Marks}
SheetRows == [marks : Marks, total : Totals, position : Positions]

SaveJobs ==
    [op : {"marks"}, from : {"blur", "all", "file"}, entries : Partial(Marks),
     positions : Partial(Positions)]
CellJobs == [op : {"cell"}, pupil : Pupils, marks : Marks]

GenerateJobs ==
    [op : {"cards"}, left : SUBSET Active, ai : BOOLEAN, pupil : Active, total : {0} \cup Totals,
     position : Positions, remark : {"none", "ai", "staff"}]
EditJobs == [op : {"edit"}, pupil : Active, edit : EditRequests]

(* The requests of mark sheets and of the report cards made from them.        *)
GradeStages == MarkStages \cup CardStages
GradeJobs == SaveJobs \cup CellJobs \cup GenerateJobs \cup EditJobs
GradeRequests == HandlersTypeOK(GradeStages, GradeJobs)

SheetOK ==
    /\ sheet \in [Pupils -> SheetRows \cup {NoGrade}]
    /\ page \in [Pupils -> [marks : Marks, dirty : BOOLEAN]]
    /\ unsure \subseteq Pupils /\ unranked \in BOOLEAN

SaveStages == {"mark_write", "rank_read", "rank_write", "mark_answer", "mark_reload"}

(* What a save knows of the rows nobody typed into or saved beside it: the    *)
(* page shows what it was sent, as dirty until it is written, and the table   *)
(* has it from then on.                                                       *)
FromPage(q) ==
    \A s \in DOMAIN job[q].entries \ unsure :
        /\ page[s].marks = job[q].entries[s]
        /\ pc[q] = "mark_write" => page[s].dirty
        /\ pc[q] # "mark_write" => Stored(s) = job[q].entries[s]

SaveKnown(q) ==
    /\ pc[q] \in SaveStages =>
         /\ job[q] \in SaveJobs
         /\ job[q].from = "file" => DOMAIN job[q].entries \subseteq unsure
         /\ job[q].from = "blur" => \E s \in Pupils : DOMAIN job[q].entries = {s}
         /\ job[q].from # "file" /\ pc[q] # "mark_reload" => FromPage(q)
    /\ pc[q] = "mark_reload" => job[q].from = "all"
    /\ pc[q] = "rank_write" => DOMAIN job[q].positions \subseteq Graded
    /\ pc[q] = "cell_write" => job[q] \in CellJobs /\ job[q].pupil \in unsure

(* The rows a save from the page holds. Of two saves that hold one row the    *)
(* row is unsure.                                                             *)
Holds(q, s) == SaveOrigin(q) = "all" \/ (SaveOrigin(q) = "blur" /\ s \in DOMAIN job[q].entries)

HeldOnce ==
    \A p, q \in Procs, s \in Pupils : p # q /\ Holds(p, s) /\ Holds(q, s) => s \in unsure

SheetAgrees ==
    /\ \A s \in Graded : sheet[s].total = Total(sheet[s].marks)
    /\ \A s \in Pupils \ unsure : ~page[s].dirty => page[s].marks = Stored(s)

Ranks == [s \in Graded |-> Position(s, Graded, [t \in Graded |-> sheet[t].total])]

(* With requests in turn a ranking is of the totals there are.                *)
RanksInTurn ==
    ~overlapped =>
        /\ ~unranked => \A s \in Graded : sheet[s].position = Ranks[s]
        /\ \A p \in Procs : pc[p] = "rank_write" => job[p].positions = Ranks

MarksInv ==
    /\ GradeRequests /\ Lone /\ SheetOK
    /\ (\A q \in Procs : SaveKnown(q)) /\ HeldOnce /\ SheetAgrees /\ RanksInTurn

LEMMA MarksFacts ==
    ASSUME MarksInv
    PROVE  /\ GradeRequests /\ Lone /\ SheetOK /\ "idle" \notin GradeStages
           /\ MarkStages \subseteq GradeStages /\ CardStages \subseteq GradeStages
           /\ SaveJobs \subseteq GradeJobs /\ CellJobs \subseteq GradeJobs
           /\ GenerateJobs \subseteq GradeJobs /\ EditJobs \subseteq GradeJobs
           /\ overlapped \in BOOLEAN /\ faults \in Nat
<1>1. GradeRequests /\ Lone /\ SheetOK
    BY DEF MarksInv
<1>2. faults \in Nat /\ overlapped \in BOOLEAN
    BY <1>1, HandlersAssumptions DEF HandlersAssumptions, HandlersTypeOK, GradeRequests
<1> QED BY <1>1, <1>2 DEF GradeStages, GradeJobs, MarkStages, CardStages

(* A total is a sum, taken one cell at a time in some order: a function on    *)
(* the sets of cells says what those of a set sum up to. That there is one is *)
(* shown of a smallest set for which there is none.                           *)
OneOf(S) == CHOOSE x \in S : TRUE

Adds(S, w, g) ==
    g = [s \in SUBSET S |-> IF s = {} THEN 0 ELSE w[OneOf(s)] + g[s \ {OneOf(s)}]]

Added(S, w) == CHOOSE g : Adds(S, w, g)

LEMMA TotalIsAdded ==
    ASSUME NEW marks
    PROVE  Total(marks) = Added(Cells, marks)[Cells]
BY DEF Total, MapThenSumSet, MapThenFoldSet, Added, Adds, OneOf

(* A smallest of some finite sets.                                            *)
LEMMA LeastSet ==
    ASSUME NEW S, NEW Bad \in SUBSET SUBSET S, Bad # {}, \A T \in Bad : IsFiniteSet(T)
    PROVE  \E T \in Bad : \A U \in SUBSET T : U # T => U \notin Bad
<1>1. Bad \subseteq FiniteSubsetsOf(S)
    BY DEF FiniteSubsetsOf
<1>2. PICK T \in Bad : \A U \in Bad : ~(<<U, T>> \in StrictSubsetOrdering(S))
    BY <1>1, FS_StrictSubsetOrderingWellFounded, WFMin
<1> QED BY <1>2 DEF StrictSubsetOrdering

LEMMA AddsAt ==
    ASSUME NEW S, NEW w, NEW g, Adds(S, w, g), NEW s \in SUBSET S
    PROVE  /\ s = {} => g[s] = 0
           /\ s # {} => /\ g[s] = w[OneOf(s)] + g[s \ {OneOf(s)}]
                        /\ OneOf(s) \in s /\ s \ {OneOf(s)} \in SUBSET S /\ s \ {OneOf(s)} # s
<1>1. g[s] = IF s = {} THEN 0 ELSE w[OneOf(s)] + g[s \ {OneOf(s)}]
    <2>1. g = [t \in SUBSET S |-> IF t = {} THEN 0 ELSE w[OneOf(t)] + g[t \ {OneOf(t)}]]
        BY DEF Adds
    <2> QED BY <2>1
<1>2. s # {} => OneOf(s) \in s
    BY DEF OneOf
<1> QED BY <1>1, <1>2

(* Such functions agree where both are defined.                               *)
LEMMA AddsAgree ==
    ASSUME NEW A, NEW B, NEW w, NEW g, NEW h, Adds(A, w, g), Adds(B, w, h),
           NEW u \in SUBSET A, u \in SUBSET B, IsFiniteSet(u)
    PROVE  g[u] = h[u]
<1> DEFINE Bad == {s \in SUBSET u : g[s] # h[s]}
<1> SUFFICES ASSUME Bad # {} PROVE FALSE
    OBVIOUS
<1>1. PICK s \in Bad : \A t \in SUBSET s : t # s => t \notin Bad
    <2>1. Bad \in SUBSET SUBSET u /\ \A s \in Bad : IsFiniteSet(s)
        BY FS_Subset
    <2> HIDE DEF Bad
    <2> QED BY <2>1, LeastSet
<1>2. s \in SUBSET A /\ s \in SUBSET B /\ g[s] # h[s]
    OBVIOUS
<1>3. s # {}
    BY <1>2, AddsAt
<1>4. /\ g[s] = w[OneOf(s)] + g[s \ {OneOf(s)}]
      /\ h[s] = w[OneOf(s)] + h[s \ {OneOf(s)}]
      /\ s \ {OneOf(s)} # s
    BY <1>2, <1>3, AddsAt
<1>5. g[s \ {OneOf(s)}] = h[s \ {OneOf(s)}]
    BY <1>1, <1>4
<1> QED BY <1>2, <1>4, <1>5

LEMMA AddedAdds ==
    ASSUME NEW S, NEW w, IsFiniteSet(S)
    PROVE  Adds(S, w, Added(S, w))
<1> DEFINE Bad == {T \in SUBSET S : ~Adds(T, w, Added(T, w))}
<1> SUFFICES ASSUME Bad # {} PROVE FALSE
    OBVIOUS
<1>1. PICK T \in Bad : \A U \in SUBSET T : U # T => U \notin Bad
    <2>1. Bad \in SUBSET SUBSET S /\ \A T \in Bad : IsFiniteSet(T)
        BY FS_Subset
    <2> HIDE DEF Bad
    <2> QED BY <2>1, LeastSet
<1>2. ASSUME NEW U \in SUBSET T, U # T PROVE Adds(U, w, Added(U, w)) /\ IsFiniteSet(U)
    BY <1>1, <1>2, FS_Subset
<1> HIDE DEF Bad
<1> DEFINE g == [s \in SUBSET T |-> IF s = {} THEN 0
                                    ELSE w[OneOf(s)] + Added(s \ {OneOf(s)}, w)[s \ {OneOf(s)}]]
<1>3. ASSUME NEW u \in SUBSET T, u # T PROVE g[u] = Added(u, w)[u]
    <2>1. Adds(u, w, Added(u, w)) /\ u \in SUBSET u
        BY <1>2, <1>3
    <2>2. CASE u = {}
        <3>1. Added(u, w)[u] = 0
            BY <2>1, <2>2, AddsAt
        <3> QED BY <2>2, <3>1
    <2>3. CASE u # {}
        <3> DEFINE v == u \ {OneOf(u)}
        <3>1. Added(u, w)[u] = w[OneOf(u)] + Added(u, w)[v] /\ v \in SUBSET u /\ v # u
            BY <2>1, <2>3, AddsAt
        <3>2. Adds(v, w, Added(v, w)) /\ IsFiniteSet(v) /\ v \in SUBSET v
            <4>1. v \in SUBSET T /\ v # T
                BY <1>3, <3>1
            <4> HIDE DEF v
            <4> QED BY <1>2, <4>1
        <3>3. Added(u, w)[v] = Added(v, w)[v]
            <4> HIDE DEF v
            <4> QED BY <2>1, <3>1, <3>2, AddsAgree
        <3>4. g[u] = w[OneOf(u)] + Added(v, w)[v]
            BY <2>3
        <3> QED BY <3>1, <3>3, <3>4
    <2> QED BY <2>2, <2>3
<1>4. Adds(T, w, g)
    <2>1. ASSUME NEW s \in SUBSET T, s # {}
          PROVE  Added(s \ {OneOf(s)}, w)[s \ {OneOf(s)}] = g[s \ {OneOf(s)}]
        <3>1. OneOf(s) \in s
            BY <2>1 DEF OneOf
        <3>2. s \ {OneOf(s)} \in SUBSET T /\ s \ {OneOf(s)} # T
            BY <3>1
        <3> HIDE DEF g
        <3> QED BY <1>3, <3>2
    <2>2. \A s \in SUBSET T : g[s] = IF s = {} THEN 0 ELSE w[OneOf(s)] + g[s \ {OneOf(s)}]
        <3> SUFFICES ASSUME NEW s \in SUBSET T
                     PROVE  g[s] = IF s = {} THEN 0 ELSE w[OneOf(s)] + g[s \ {OneOf(s)}]
            OBVIOUS
        <3>1. g[s] = IF s = {} THEN 0 ELSE w[OneOf(s)] + Added(s \ {OneOf(s)}, w)[s \ {OneOf(s)}]
            OBVIOUS
        <3> HIDE DEF g
        <3> QED BY <2>1, <3>1
    <2>3. g = [s \in SUBSET T |-> g[s]]
        OBVIOUS
    <2> HIDE DEF g
    <2> QED BY <2>2, <2>3 DEF Adds
<1>5. Adds(T, w, Added(T, w))
    <2> HIDE DEF g
    <2> QED BY <1>4 DEF Added
<1> QED BY <1>1, <1>5 DEF Bad

(* The total of a pupil's marks is a number.                                  *)
LEMMA TotalType ==
    ASSUME NEW marks \in Marks
    PROVE  Total(marks) \in Nat /\ Total(marks) \in Totals
<1>1. IsFiniteSet(Cells) /\ MaxScore \in Nat
    BY MarkAssumptions DEF MarkAssumptions
<1> DEFINE g == Added(Cells, marks)
           Bad == {S \in SUBSET Cells : g[S] \notin Nat}
<1>2. Adds(Cells, marks, g)
    BY <1>1, AddedAdds
<1>3. ASSUME Bad # {} PROVE FALSE
    <2>1. PICK S \in Bad : \A U \in SUBSET S : U # S => U \notin Bad
        <3>1. Bad \in SUBSET SUBSET Cells /\ \A S \in Bad : IsFiniteSet(S)
            BY <1>1, FS_Subset
        <3> HIDE DEF Bad
        <3> QED BY <1>3, <3>1, LeastSet
    <2>2. S \in SUBSET Cells /\ g[S] \notin Nat
        OBVIOUS
    <2> HIDE DEF g
    <2>3. S # {}
        <3>1. S = {} => g[S] = 0
            BY <1>2, <2>2, AddsAt
        <3> QED BY <2>2, <3>1
    <2>4. /\ g[S] = marks[OneOf(S)] + g[S \ {OneOf(S)}]
          /\ OneOf(S) \in S /\ S \ {OneOf(S)} \in SUBSET S /\ S \ {OneOf(S)} # S
        BY <1>2, <2>2, <2>3, AddsAt
    <2>5. g[S \ {OneOf(S)}] \in Nat
        BY <2>1, <2>2, <2>4
    <2>6. marks[OneOf(S)] \in Nat
        BY <1>1, <2>2, <2>4 DEF Marks, Scores
    <2> QED BY <2>2, <2>4, <2>5, <2>6
<1>4. g[Cells] \in Nat
    BY <1>3
<1> QED BY <1>4, TotalIsAdded DEF Totals

(* A pupil is at best the first and at worst the last of all.                 *)
LEMMA PositionType ==
    ASSUME NEW among \in SUBSET Pupils, NEW total \in [among -> Totals], NEW s \in among
    PROVE  Position(s, among, total) \in Positions
<1> DEFINE Before == {t \in among : total[t] > total[s]}
<1>1. IsFiniteSet(Pupils) /\ Cardinality(Pupils) \in Nat
    BY FS_CardinalityType, MarkAssumptions DEF MarkAssumptions
<1>2. total[s] \in Nat
    <2>1. total[s] \in Totals
        OBVIOUS
    <2> QED BY <2>1, TotalType DEF Totals
<1>3. Before \subseteq Pupils \ {s}
    BY <1>2
<1>4. IsFiniteSet(Pupils \ {s}) /\ Cardinality(Pupils \ {s}) = Cardinality(Pupils) - 1
    BY <1>1, FS_RemoveElement
<1>5. Cardinality(Before) \in Nat /\ Cardinality(Before) <= Cardinality(Pupils) - 1
    <2> HIDE DEF Before
    <2> QED BY <1>3, <1>4, FS_Subset, FS_CardinalityType
<1>6. 1 + Cardinality(Before) \in Positions
    <2> HIDE DEF Before
    <2> QED BY <1>1, <1>5 DEF Positions
<1> QED BY <1>6 DEF Position

(* Zero stands for no position.                                               *)
LEMMA NoPosition == 0 \in Positions
<1>1. Cardinality(Pupils) \in Nat
    BY FS_CardinalityType, MarkAssumptions DEF MarkAssumptions
<1> QED BY <1>1 DEF Positions

(* A row is not the lack of one.                                              *)
LEMMA RowIsThere ==
    /\ \A row \in SheetRows : row # NoGrade
    /\ \A total \in Totals : total # NoGrade
<1>1. \A row \in [marks : Marks, total : Totals, position : Nat] : row # NoGrade
    BY GradeAssumptions DEF GradeAssumptions, Totals
<1>2. Positions \subseteq Nat
    BY DEF Positions
<1>3. SheetRows \subseteq [marks : Marks, total : Totals, position : Nat]
    BY <1>2 DEF SheetRows
<1> QED BY <1>1, <1>3, GradeAssumptions DEF GradeAssumptions, Totals

LEMMA RowType ==
    ASSUME SheetOK, NEW s \in Pupils, NEW marks \in Marks
    PROVE  /\ Row(s, marks) \in SheetRows
           /\ Row(s, marks).marks = marks /\ Row(s, marks).total = Total(marks)
<1>1. s \in Graded => sheet[s] \in SheetRows
    BY DEF SheetOK, Graded
<1>2. Total(marks) \in Totals
    BY DEF Totals
<1>3. (IF s \in Graded THEN sheet[s].position ELSE 0) \in Positions
    BY <1>1, NoPosition DEF SheetRows
<1> QED BY <1>2, <1>3 DEF Row, SheetRows

LEMMA StoredType ==
    ASSUME SheetOK, NEW s \in Pupils
    PROVE  Stored(s) \in Marks
<1>1. s \in Graded => sheet[s] \in SheetRows
    BY DEF SheetOK, Graded
<1>2. 0 \in Scores
    BY MarkAssumptions DEF MarkAssumptions, Scores
<1>3. Blank \in Marks
    BY <1>2 DEF Blank, Marks
<1> QED BY <1>1, <1>3 DEF Stored, SheetRows

LEMMA MarksInitial == HandlersInit /\ MarksInit => MarksInv
<1> SUFFICES ASSUME HandlersInit, MarksInit PROVE MarksInv
    OBVIOUS
<1>1. GradeRequests /\ Lone /\ \A q \in Procs : pc[q] = "idle"
    BY HandlersInitType DEF GradeRequests, Quiescent
<1>2. PICK pupils \in SUBSET Pupils, marks \in [Pupils -> Marks] :
          sheet = [s \in Pupils |->
                     IF s \in pupils
                     THEN [marks |-> marks[s], total |-> Total(marks[s]),
                           position |-> Position(s, pupils, [t \in pupils |-> Total(marks[t])])]
                     ELSE NoGrade]
    BY DEF MarksInit
<1>3. /\ page = [s \in Pupils |-> [marks |-> Stored(s), dirty |-> FALSE]]
      /\ unsure = {} /\ unranked = FALSE
    BY DEF MarksInit
<1>4. ASSUME NEW s \in pupils
      PROVE  /\ sheet[s] \in SheetRows /\ sheet[s].marks = marks[s]
             /\ sheet[s].total = Total(marks[s])
             /\ sheet[s].position = Position(s, pupils, [t \in pupils |-> Total(marks[t])])
    <2>1. Position(s, pupils, [t \in pupils |-> Total(marks[t])]) \in Positions
        <3>1. [t \in pupils |-> Total(marks[t])] \in [pupils -> Totals]
            BY DEF Totals
        <3> QED BY <3>1, PositionType
    <2>2. marks[s] \in Marks /\ Total(marks[s]) \in Totals
        BY DEF Totals
    <2> QED BY <1>2, <2>1, <2>2 DEF SheetRows
<1>5. Graded = pupils
    BY <1>2, <1>4, RowIsThere DEF Graded
<1>6. SheetOK
    <2>1. sheet \in [Pupils -> SheetRows \cup {NoGrade}]
        BY <1>2, <1>4
    <2>2. \A s \in Pupils : Stored(s) \in Marks
        <3>1. 0 \in Scores
            BY MarkAssumptions DEF MarkAssumptions, Scores
        <3>2. Blank \in Marks
            BY <3>1 DEF Blank, Marks
        <3> QED BY <1>4, <1>5, <3>2 DEF Stored
    <2> QED BY <1>3, <2>1, <2>2 DEF SheetOK
<1>7. (\A q \in Procs : SaveKnown(q)) /\ HeldOnce
    BY <1>1 DEF SaveKnown, HeldOnce, Holds, SaveOrigin, SaveStages
<1>8. SheetAgrees
    BY <1>3, <1>4, <1>5 DEF SheetAgrees
<1>9. RanksInTurn
    <2>1. [t \in Graded |-> sheet[t].total] = [t \in pupils |-> Total(marks[t])]
        BY <1>4, <1>5
    <2>2. \A s \in Graded : Ranks[s] = Position(s, Graded, [t \in Graded |-> sheet[t].total])
        BY DEF Ranks
    <2>3. \A s \in Graded : sheet[s].position = Ranks[s]
        BY <1>4, <1>5, <2>1, <2>2, ZenonT(60)
    <2> QED BY <1>1, <2>3 DEF RanksInTurn
<1> QED BY <1>1, <1>6, <1>7, <1>8, <1>9 DEF MarksInv

(* A save knows what it knew while the rows it holds stay.                    *)
LEMMA StillKnown ==
    ASSUME NEW q \in Procs, SaveKnown(q), pc'[q] = pc[q], job'[q] = job[q],
           unsure \subseteq unsure', Graded \subseteq Graded',
           \A s \in Pupils \ unsure' : Holds(q, s) => page'[s] = page[s] /\ Stored(s)' = Stored(s)
    PROVE  SaveKnown(q)'
<1>1. ASSUME pc[q] \in SaveStages, job[q].from # "file", pc[q] # "mark_reload" PROVE FromPage(q)'
    <2>1. FromPage(q) /\ job[q] \in SaveJobs
        BY <1>1 DEF SaveKnown
    <2>2. DOMAIN job[q].entries \subseteq Pupils
        BY <2>1 DEF SaveJobs, Partial
    <2>3. \A s \in DOMAIN job[q].entries : Holds(q, s)
        BY <1>1, <2>1 DEF Holds, SaveOrigin, SaveStages, SaveJobs
    <2> QED BY <2>1, <2>2, <2>3 DEF FromPage
<1> QED BY <1>1 DEF SaveKnown

(* A step of p that takes up rows nobody else holds, and changes none that    *)
(* the others hold.                                                           *)
LEMMA MarksMove ==
    ASSUME MarksInv, GradeRequests', Lone', SheetOK', NEW p \in Procs, OthersStay(p),
           unsure \subseteq unsure', Graded \subseteq Graded', SaveKnown(p)',
           \A q \in Procs, s \in Pupils \ unsure' :
               q # p /\ Holds(q, s) => page'[s] = page[s] /\ Stored(s)' = Stored(s),
           \A q \in Procs, s \in Pupils \ unsure' :
               q # p /\ Holds(q, s) => ~Holds(p, s)',
           SheetAgrees', RanksInTurn'
    PROVE  MarksInv'
<1>1. \A q \in Procs : SaveKnown(q)'
    <2>1. ASSUME NEW q \in Procs, q # p PROVE SaveKnown(q)'
        BY <2>1, StillKnown DEF MarksInv, OthersStay
    <2> QED BY <2>1
<1>2. \A q \in Procs, s \in Pupils : q # p => Holds(q, s)' = Holds(q, s)
    BY DEF OthersStay, Holds, SaveOrigin
<1>3. HeldOnce'
    BY <1>2 DEF MarksInv, HeldOnce
<1> QED BY <1>1, <1>3 DEF MarksInv

LEMMA RanksStay ==
    ASSUME MarksInv, Lone', NEW p \in Procs, OthersStay(p), overlapped => overlapped',
           pc'[p] # "rank_write",
           \/ sheet' = sheet /\ unranked' = unranked
           \/ unranked' /\ (pc'[p] # "idle" \/ (pc[p] # "idle" /\ overlapped' = overlapped))
    PROVE  RanksInTurn'
<1>1. CASE sheet' = sheet /\ unranked' = unranked
    BY <1>1 DEF MarksInv, RanksInTurn, OthersStay, Ranks, Graded
<1>2. CASE unranked' /\ (pc'[p] # "idle" \/ (pc[p] # "idle" /\ overlapped' = overlapped))
    <2>1. ASSUME ~overlapped', NEW q \in Procs, q # p PROVE pc'[q] = "idle"
        BY <1>2, <2>1 DEF MarksInv, Lone, OthersStay
    <2> QED BY <1>2, <2>1 DEF RanksInTurn
<1> QED BY <1>1, <1>2

(* The request in hand moves on and nothing else does.                        *)
LEMMA MarksOnly ==
    ASSUME MarksInv, GradeRequests', Lone', NEW p \in Procs, OthersStay(p), overlapped => overlapped',
           UNCHANGED <<sheet, page, unsure, unranked>>,
           pc'[p] \notin SaveStages \cup {"cell_write"}
    PROVE  MarksInv'
<1>1. SheetOK' /\ SheetAgrees' /\ \A s : Stored(s)' = Stored(s)
    BY DEF MarksInv, SheetOK, SheetAgrees, Stored, Graded
<1>2. SaveKnown(p)' /\ \A s : ~Holds(p, s)'
    BY DEF SaveKnown, Holds, SaveOrigin, SaveStages
<1>3. Graded \subseteq Graded' /\ RanksInTurn'
    BY RanksStay DEF Graded, SaveStages
<1> QED BY <1>1, <1>2, <1>3, MarksMove

LEMMA TypeStep ==
    ASSUME MarksInv, NEW s \in Pupils, NEW c \in Cells, NEW v \in Scores, Type(s, c, v)
    PROVE  MarksInv'
<1>1. /\ page' = [page EXCEPT ![s].marks[c] = v, ![s].dirty = TRUE]
      /\ UNCHANGED handlerVars /\ sheet' = sheet /\ unranked' = unranked
      /\ unsure' = IF RowSaving(s) THEN unsure \cup {s} ELSE unsure
    BY DEF Type
<1>2. /\ GradeRequests' /\ Lone' /\ pc' = pc /\ job' = job /\ overlapped' = overlapped
    BY <1>1, MarksFacts, HandlersStutter DEF GradeRequests
<1>3. /\ page'[s].dirty /\ \A t \in Pupils : t # s => page'[t] = page[t]
      /\ page' \in [Pupils -> [marks : Marks, dirty : BOOLEAN]]
    BY <1>1, MarksFacts DEF SheetOK, Marks
<1>4. SheetOK' /\ Graded' = Graded /\ \A t : Stored(t)' = Stored(t)
    BY <1>1, <1>3, MarksFacts DEF SheetOK, Graded, Stored
<1>5. unsure \subseteq unsure'
    BY <1>1
<1>6. \A q \in Procs : Holds(q, s) => s \in unsure'
    <2>1. \A q \in Procs : Holds(q, s) => RowSaving(s)
        BY DEF Holds, RowSaving
    <2> QED BY <1>1, <2>1
<1>7. \A q \in Procs : SaveKnown(q)'
    BY <1>2, <1>3, <1>4, <1>5, <1>6, StillKnown DEF MarksInv
<1>8. HeldOnce'
    BY <1>2, <1>5 DEF MarksInv, HeldOnce, Holds, SaveOrigin
<1>9. SheetAgrees'
    BY <1>1, <1>3, <1>4, <1>5 DEF MarksInv, SheetAgrees
<1>10. RanksInTurn'
    BY <1>1, <1>2 DEF MarksInv, RanksInTurn, Ranks, Graded
<1> QED BY <1>2, <1>4, <1>7, <1>8, <1>9, <1>10 DEF MarksInv

(* A save is sent: whoever holds a row it takes up makes the row unsure.      *)
LEMMA SubmitStep ==
    ASSUME MarksInv, NEW p \in Procs, NEW from \in {"blur", "all"}, NEW pupils \in SUBSET Pupils,
           Submit(p, from, pupils), \A s \in pupils : page[s].dirty,
           from = "blur" => \E s \in Pupils : pupils = {s}
    PROVE  MarksInv'
<1> DEFINE j == [op |-> "marks", from |-> from, entries |-> [s \in pupils |-> page[s].marks],
                 positions |-> <<>>]
<1>1. /\ Begin(p, j, "mark_write") /\ UNCHANGED <<sheet, page, unranked>>
      /\ unsure' = unsure \cup {s \in (IF from = "all" THEN Pupils ELSE pupils) : RowSaving(s)}
    BY DEF Submit
<1>2. \A s \in pupils : page[s].marks \in Marks
    BY MarksFacts DEF SheetOK
<1>3. /\ j \in SaveJobs /\ j.from = from /\ DOMAIN j.entries = pupils
      /\ \A s \in pupils : j.entries[s] = page[s].marks
    <2>1. j.entries \in [pupils -> Marks]
        BY <1>2
    <2>2. j.entries \in Partial(Marks)
        BY <2>1 DEF Partial
    <2>3. <<>> \in [{} -> Positions]
        OBVIOUS
    <2>4. j.positions \in Partial(Positions)
        BY <2>3 DEF Partial
    <2> QED BY <2>2, <2>4 DEF SaveJobs
<1> HIDE DEF j
<1>4. j \in GradeJobs /\ "mark_write" \in GradeStages
    BY <1>3, MarksFacts DEF GradeStages, MarkStages
<1>5. /\ GradeRequests' /\ Lone' /\ pc'[p] = "mark_write" /\ job'[p] = j /\ OthersStay(p)
      /\ overlapped => overlapped'
    BY <1>1, <1>4, MarksFacts, BeginStep DEF GradeRequests
<1>6. /\ SheetOK' /\ Graded' = Graded /\ unsure \subseteq unsure'
      /\ \A s : Stored(s)' = Stored(s)
    BY <1>1, MarksFacts DEF SheetOK, Graded, Stored
<1>7. SaveKnown(p)'
    <2>1. FromPage(p)'
        BY <1>1, <1>3, <1>5 DEF FromPage
    <2> QED BY <1>3, <1>5, <2>1 DEF SaveKnown, SaveStages
<1>8. ASSUME NEW q \in Procs, NEW s \in Pupils \ unsure', q # p, Holds(q, s) PROVE ~Holds(p, s)'
    <2>1. RowSaving(s)
        BY <1>8 DEF RowSaving, Holds
    <2>2. from # "all" /\ s \notin pupils
        BY <1>1, <1>8, <2>1
    <2> QED BY <1>3, <1>5, <2>2 DEF Holds, SaveOrigin
<1>9. SheetAgrees'
    BY <1>1, <1>6 DEF MarksInv, SheetAgrees
<1>10. RanksInTurn'
    BY <1>1, <1>5, RanksStay
<1> QED BY <1>1, <1>5, <1>6, <1>7, <1>8, <1>9, <1>10, MarksMove

LEMMA SaveStep ==
    ASSUME MarksInv, NEW p \in Procs, SaveAll(p) \/ \E s \in Pupils : SaveRow(p, s)
    PROVE  MarksInv'
<1>1. CASE SaveAll(p)
    <2>1. PICK dirty \in SUBSET Pupils : dirty = {s \in Pupils : page[s].dirty}
        OBVIOUS
    <2>2. Submit(p, "all", dirty) /\ \A s \in dirty : page[s].dirty
        BY <1>1, <2>1 DEF SaveAll
    <2> QED BY <2>2, SubmitStep
<1>2. ASSUME NEW s \in Pupils, SaveRow(p, s) PROVE MarksInv'
    <2>1. Submit(p, "blur", {s}) /\ page[s].dirty
        BY <1>2 DEF SaveRow
    <2> QED BY <2>1, SubmitStep
<1> QED BY <1>1, <1>2

(* Marks from elsewhere: their rows are unsure from the start.                *)
LEMMA ElsewhereStep ==
    ASSUME MarksInv, NEW p \in Procs,
           \/ \E s \in Elsewhere, marks \in Marks : Import(p, [t \in {s} |-> marks])
           \/ \E s \in Elsewhere, c \in Cells, v \in Scores : PatchRead(p, s, c, v)
    PROVE  MarksInv'
<1>1. PICK j \in SaveJobs \cup CellJobs, stage \in {"mark_write", "cell_write"}, s \in Pupils :
          /\ Begin(p, j, stage) /\ UNCHANGED <<sheet, page, unranked>> /\ unsure' = unsure \cup {s}
          /\ stage = "mark_write" => j \in SaveJobs /\ j.from = "file" /\ DOMAIN j.entries = {s}
          /\ stage = "cell_write" => j \in CellJobs /\ j.pupil = s
    <2>1. Elsewhere \subseteq Pupils
        BY MarkAssumptions DEF MarkAssumptions
    <2>2. ASSUME NEW s \in Elsewhere, NEW marks \in Marks, Import(p, [t \in {s} |-> marks])
          PROVE  \E j \in SaveJobs :
                     /\ Begin(p, j, "mark_write") /\ UNCHANGED <<sheet, page, unranked>>
                     /\ unsure' = unsure \cup {s} /\ j.from = "file" /\ DOMAIN j.entries = {s}
        <3> DEFINE j == [op |-> "marks", from |-> "file", entries |-> [t \in {s} |-> marks],
                         positions |-> <<>>]
        <3>1. j.entries \in [{s} -> Marks] /\ {s} \in SUBSET Pupils
            BY <2>1
        <3>2. j.entries \in Partial(Marks)
            BY <3>1 DEF Partial
        <3>3. <<>> \in [{} -> Positions]
            OBVIOUS
        <3>4. j.positions \in Partial(Positions)
            BY <3>3 DEF Partial
        <3>5. j \in SaveJobs
            BY <3>2, <3>4 DEF SaveJobs
        <3>6. /\ Begin(p, j, "mark_write") /\ UNCHANGED <<sheet, page, unranked>>
              /\ unsure' = unsure \cup {s} /\ j.from = "file" /\ DOMAIN j.entries = {s}
            BY <2>2 DEF Import
        <3> HIDE DEF j
        <3> QED BY <3>5, <3>6
    <2>3. ASSUME NEW s \in Elsewhere, NEW c \in Cells, NEW v \in Scores, PatchRead(p, s, c, v)
          PROVE  \E j \in CellJobs :
                     /\ Begin(p, j, "cell_write") /\ UNCHANGED <<sheet, page, unranked>>
                     /\ unsure' = unsure \cup {s} /\ j.pupil = s
        <3> DEFINE j == [op |-> "cell", pupil |-> s, marks |-> [sheet[s].marks EXCEPT ![c] = v]]
        <3>1. sheet[s].marks \in Marks
            BY <2>1, <2>3, MarksFacts DEF PatchRead, Graded, SheetOK, SheetRows
        <3>2. [sheet[s].marks EXCEPT ![c] = v] \in Marks
            BY <3>1 DEF Marks
        <3>3. j \in CellJobs
            BY <2>1, <3>2 DEF CellJobs
        <3>4. /\ Begin(p, j, "cell_write") /\ UNCHANGED <<sheet, page, unranked>>
              /\ unsure' = unsure \cup {s} /\ j.pupil = s
            BY <2>3 DEF PatchRead
        <3> HIDE DEF j
        <3> QED BY <3>3, <3>4
    <2>4. CASE \E s \in Elsewhere, marks \in Marks : Import(p, [t \in {s} |-> marks])
        <3>1. PICK s \in Elsewhere, j \in SaveJobs :
                  /\ Begin(p, j, "mark_write") /\ UNCHANGED <<sheet, page, unranked>>
                  /\ unsure' = unsure \cup {s} /\ j.from = "file" /\ DOMAIN j.entries = {s}
            BY <2>2, <2>4
        <3>2. s \in Pupils /\ "mark_write" # "cell_write"
            BY <2>1
        <3> QED BY <3>1, <3>2
    <2>5. CASE \E s \in Elsewhere, c \in Cells, v \in Scores : PatchRead(p, s, c, v)
        <3>1. PICK s \in Elsewhere, j \in CellJobs :
                  /\ Begin(p, j, "cell_write") /\ UNCHANGED <<sheet, page, unranked>>
                  /\ unsure' = unsure \cup {s} /\ j.pupil = s
            BY <2>3, <2>5
        <3>2. s \in Pupils /\ "mark_write" # "cell_write"
            BY <2>1
        <3> QED BY <3>1, <3>2
    <2> QED BY <2>4, <2>5
<1>2. j \in GradeJobs /\ stage \in GradeStages
    BY MarksFacts DEF GradeStages, MarkStages
<1>3. /\ GradeRequests' /\ Lone' /\ pc'[p] = stage /\ job'[p] = j /\ OthersStay(p)
      /\ overlapped => overlapped'
    BY <1>1, <1>2, MarksFacts, BeginStep DEF GradeRequests
<1>4. /\ SheetOK' /\ Graded' = Graded /\ unsure \subseteq unsure'
      /\ \A t : Stored(t)' = Stored(t)
    BY <1>1, MarksFacts DEF SheetOK, Graded, Stored
<1>5. SaveKnown(p)' /\ \A t \in Pupils : ~Holds(p, t)'
    BY <1>1, <1>3 DEF SaveKnown, SaveStages, Holds, SaveOrigin
<1>6. SheetAgrees'
    BY <1>1, <1>4 DEF MarksInv, SheetAgrees
<1>7. RanksInTurn'
    BY <1>1, <1>3, RanksStay
<1> QED BY <1>1, <1>3, <1>4, <1>5, <1>6, <1>7, MarksMove

(* The rows are written: a row the page shows as saved is none of them.       *)
LEMMA WriteMarksStep ==
    ASSUME MarksInv, NEW p \in Procs, WriteMarks(p)
    PROVE  MarksInv'
<1>1. /\ pc[p] = "mark_write" /\ pc[p] # "idle" /\ job[p] \in SaveJobs /\ SaveKnown(p)
      /\ unranked' = TRUE /\ GoTo(p, "rank_read") /\ page' = page /\ unsure' = unsure
      /\ "rank_read" \in GradeStages
    BY DEF WriteMarks, MarksInv, SaveKnown, SaveStages, GradeStages, MarkStages
<1>0. PICK written \in SUBSET Pupils : job[p].entries \in [written -> Marks]
    BY <1>1 DEF SaveJobs, Partial
<1>2. PICK entries \in [written -> Marks] : entries = job[p].entries /\ written = DOMAIN job[p].entries
    BY <1>0
<1>3. sheet' = [s \in Pupils |-> IF s \in written THEN Row(s, entries[s]) ELSE sheet[s]]
    BY <1>2 DEF WriteMarks
<1>4. /\ GradeRequests' /\ Lone' /\ pc'[p] = "rank_read" /\ job' = job /\ OthersStay(p)
      /\ overlapped' = overlapped
    BY <1>1, MarksFacts, GoToStep DEF GradeRequests
<1>5. ASSUME NEW s \in written
      PROVE  /\ sheet'[s] \in SheetRows /\ sheet'[s] # NoGrade /\ sheet'[s].marks = entries[s]
             /\ sheet'[s].total = Total(entries[s]) /\ Stored(s)' = entries[s]
    <2>1. entries[s] \in Marks /\ sheet'[s] = Row(s, entries[s])
        BY <1>3
    <2>2. sheet'[s] \in SheetRows /\ sheet'[s].marks = entries[s] /\ sheet'[s].total = Total(entries[s])
        BY <2>1, RowType, MarksFacts
    <2> QED BY <2>2, RowIsThere DEF Stored, Graded
<1>6. \A s \in Pupils \ written : sheet'[s] = sheet[s] /\ Stored(s)' = Stored(s)
    BY <1>3 DEF Stored, Graded
<1>7. SheetOK' /\ Graded \subseteq Graded'
    <2>1. sheet' \in [Pupils -> SheetRows \cup {NoGrade}]
        BY <1>3, <1>5, <1>6, MarksFacts DEF SheetOK
    <2>2. Graded \subseteq Graded'
        BY <1>5, <1>6 DEF Graded
    <2> QED BY <1>1, <2>1, <2>2, MarksFacts DEF SheetOK
<1>8. \A s \in written \ unsure : job[p].from # "file" /\ page[s].dirty /\ page[s].marks = entries[s] /\ Holds(p, s)
    <2>1. ASSUME NEW s \in written \ unsure PROVE job[p].from # "file"
        BY <1>1, <1>2, <2>1 DEF SaveKnown, SaveStages
    <2>2. ASSUME NEW s \in written \ unsure PROVE page[s].dirty /\ page[s].marks = entries[s]
        BY <1>1, <1>2, <2>1, <2>2 DEF SaveKnown, SaveStages, FromPage
    <2>3. ASSUME NEW s \in written \ unsure PROVE Holds(p, s)
        BY <1>1, <1>2, <2>1, <2>3 DEF Holds, SaveOrigin, SaveJobs
    <2> QED BY <2>1, <2>2, <2>3
<1>9. SaveKnown(p)'
    <2>1. job[p].from # "file" => FromPage(p)'
        BY <1>1, <1>2, <1>4, <1>5, <1>8 DEF FromPage
    <2> QED BY <1>1, <1>4, <2>1 DEF SaveKnown, SaveStages
<1>10. ASSUME NEW q \in Procs, NEW s \in Pupils \ unsure', q # p, Holds(q, s)
       PROVE  page'[s] = page[s] /\ Stored(s)' = Stored(s) /\ ~Holds(p, s)'
    <2>1. ~Holds(p, s)
        BY <1>1, <1>10 DEF MarksInv, HeldOnce
    <2>2. Holds(p, s)' = Holds(p, s)
        BY <1>1, <1>4 DEF Holds, SaveOrigin
    <2>3. s \notin written
        BY <1>1, <1>8, <1>10, <2>1
    <2> QED BY <1>1, <1>6, <2>1, <2>2, <2>3
<1>11. SheetAgrees'
    <2>1. ASSUME NEW s \in Graded' PROVE sheet'[s].total = Total(sheet'[s].marks)
        <3>1. s \in Pupils /\ sheet'[s] # NoGrade
            BY <2>1 DEF Graded
        <3>2. CASE s \in written
            BY <1>5, <3>2
        <3>3. CASE s \notin written
            BY <1>6, <3>1, <3>3 DEF MarksInv, SheetAgrees, Graded
        <3> QED BY <3>2, <3>3
    <2>2. ASSUME NEW s \in Pupils \ unsure', ~page'[s].dirty PROVE page'[s].marks = Stored(s)'
        <3>1. s \notin written
            BY <1>1, <1>8, <2>2
        <3> QED BY <1>1, <1>6, <2>2, <3>1 DEF MarksInv, SheetAgrees
    <2> QED BY <2>1, <2>2 DEF SheetAgrees
<1>12. RanksInTurn'
    BY <1>1, <1>4, RanksStay
<1> QED BY <1>1, <1>4, <1>7, <1>9, <1>10, <1>11, <1>12, MarksMove

LEMMA RankReadStep ==
    ASSUME MarksInv, NEW p \in Procs, RankRead(p)
    PROVE  MarksInv'
<1> DEFINE j == [job[p] EXCEPT !.positions = Ranks]
<1>1. /\ pc[p] = "rank_read" /\ pc[p] # "idle" /\ job[p] \in SaveJobs /\ SaveKnown(p)
      /\ UNCHANGED <<sheet, page, unsure, unranked>> /\ "rank_write" \in GradeStages
    BY DEF RankRead, markVars, MarksInv, SaveKnown, SaveStages, GradeStages, MarkStages
<1>2. Carry(p, j, "rank_write")
    BY DEF RankRead, Ranks
<1>3. Graded \in SUBSET Pupils
    BY DEF Graded
<1>4. Ranks \in [Graded -> Positions]
    <2>1. [t \in Graded |-> sheet[t].total] \in [Graded -> Totals]
        BY MarksFacts DEF SheetOK, SheetRows, Graded
    <2> QED BY <1>3, <2>1, PositionType DEF Ranks
<1>5. Ranks \in Partial(Positions)
    BY <1>3, <1>4 DEF Partial
<1>6. j \in SaveJobs /\ j.from = job[p].from /\ j.entries = job[p].entries /\ j.positions = Ranks
    BY <1>1, <1>5 DEF SaveJobs
<1> HIDE DEF j
<1>7. /\ GradeRequests' /\ Lone' /\ pc'[p] = "rank_write" /\ job'[p] = j /\ OthersStay(p)
      /\ overlapped' = overlapped
    BY <1>1, <1>2, <1>6, MarksFacts, CarryStep DEF GradeRequests
<1>8. SheetOK' /\ Graded' = Graded /\ Ranks' = Ranks /\ \A s : Stored(s)' = Stored(s)
    BY <1>1, MarksFacts DEF SheetOK, Graded, Stored, Ranks
<1>9. SaveKnown(p)'
    <2>1. job[p].from # "file" => FromPage(p)'
        BY <1>1, <1>6, <1>7, <1>8 DEF SaveKnown, SaveStages, FromPage
    <2>2. DOMAIN Ranks = Graded
        BY DEF Ranks
    <2> QED BY <1>1, <1>6, <1>7, <1>8, <2>1, <2>2 DEF SaveKnown, SaveStages
<1>10. \A q \in Procs, s \in Pupils \ unsure' : q # p /\ Holds(q, s) => ~Holds(p, s)'
    <2>1. \A s \in Pupils : Holds(p, s)' = Holds(p, s)
        BY <1>1, <1>6, <1>7 DEF Holds, SaveOrigin
    <2> QED BY <1>1, <2>1 DEF MarksInv, HeldOnce
<1>11. SheetAgrees'
    BY <1>1, <1>8 DEF MarksInv, SheetAgrees
<1>12. RanksInTurn'
    <2>1. \A q \in Procs : q # p => (pc'[q] = "rank_write" => job'[q].positions = Ranks) \/ overlapped
        BY <1>7 DEF MarksInv, RanksInTurn, OthersStay
    <2> QED BY <1>1, <1>6, <1>7, <1>8, <2>1 DEF MarksInv, RanksInTurn
<1> QED BY <1>1, <1>7, <1>8, <1>9, <1>10, <1>11, <1>12, MarksMove

(* The positions of rows that are there are written.                          *)
LEMMA RankWriteStep ==
    ASSUME MarksInv, NEW p \in Procs, RankWrite(p)
    PROVE  MarksInv'
<1>1. /\ pc[p] = "rank_write" /\ pc[p] # "idle" /\ job[p] \in SaveJobs /\ SaveKnown(p)
      /\ unranked' = FALSE /\ GoTo(p, "mark_answer") /\ page' = page /\ unsure' = unsure
      /\ "mark_answer" \in GradeStages
    BY DEF RankWrite, MarksInv, SaveKnown, SaveStages, GradeStages, MarkStages
<1>0. PICK ranked \in SUBSET Pupils : job[p].positions \in [ranked -> Positions]
    BY <1>1 DEF SaveJobs, Partial
<1>2. PICK positions \in [ranked -> Positions] : positions = job[p].positions /\ ranked = DOMAIN job[p].positions
    BY <1>0
<1>3. sheet' = [s \in Pupils |-> IF s \in ranked THEN [sheet[s] EXCEPT !.position = positions[s]] ELSE sheet[s]]
    BY <1>2 DEF RankWrite
<1>4. /\ GradeRequests' /\ Lone' /\ pc'[p] = "mark_answer" /\ job' = job /\ OthersStay(p)
      /\ overlapped' = overlapped
    BY <1>1, MarksFacts, GoToStep DEF GradeRequests
<1>5. ASSUME NEW s \in ranked
      PROVE  /\ s \in Graded /\ sheet'[s] \in SheetRows /\ sheet'[s] # NoGrade
             /\ sheet'[s].marks = sheet[s].marks /\ sheet'[s].total = sheet[s].total
             /\ sheet'[s].position = positions[s]
    <2>1. s \in Graded
        BY <1>1, <1>2 DEF SaveKnown
    <2>2. sheet[s] \in SheetRows /\ positions[s] \in Positions
        BY <2>1, MarksFacts DEF SheetOK, Graded
    <2>3. sheet'[s] = [sheet[s] EXCEPT !.position = positions[s]]
        BY <1>3
    <2>4. /\ sheet'[s] \in SheetRows /\ sheet'[s].marks = sheet[s].marks
          /\ sheet'[s].total = sheet[s].total /\ sheet'[s].position = positions[s]
        BY <2>2, <2>3 DEF SheetRows
    <2> QED BY <2>1, <2>4, RowIsThere
<1>6. \A s \in Pupils \ ranked : sheet'[s] = sheet[s]
    BY <1>3
<1>7. Graded' = Graded
    BY <1>5, <1>6 DEF Graded
<1>8. /\ \A s \in Graded : sheet'[s].marks = sheet[s].marks /\ sheet'[s].total = sheet[s].total
      /\ \A s \in Pupils : Stored(s)' = Stored(s)
    BY <1>5, <1>6, <1>7 DEF Graded, Stored
<1>9. SheetOK'
    <2>1. sheet' \in [Pupils -> SheetRows \cup {NoGrade}]
        BY <1>3, <1>5, <1>6, MarksFacts DEF SheetOK
    <2> QED BY <1>1, <2>1, MarksFacts DEF SheetOK
<1>10. SaveKnown(p)'
    <2>1. job[p].from # "file" => FromPage(p)'
        <3>1. DOMAIN job[p].entries \subseteq Pupils
            BY <1>1 DEF SaveJobs, Partial
        <3> QED BY <1>1, <1>4, <1>8, <3>1 DEF SaveKnown, SaveStages, FromPage
    <2> QED BY <1>1, <1>4, <2>1 DEF SaveKnown, SaveStages
<1>11. \A q \in Procs, s \in Pupils \ unsure' : q # p /\ Holds(q, s) => ~Holds(p, s)'
    <2>1. \A s \in Pupils : Holds(p, s)' = Holds(p, s)
        BY <1>1, <1>4 DEF Holds, SaveOrigin
    <2> QED BY <1>1, <2>1 DEF MarksInv, HeldOnce
<1>12. SheetAgrees'
    BY <1>1, <1>7, <1>8 DEF MarksInv, SheetAgrees
<1>13. RanksInTurn'
    <2> SUFFICES ASSUME ~overlapped'
                 PROVE  /\ \A s \in Graded' : sheet'[s].position = Ranks'[s]
                        /\ \A q \in Procs : pc'[q] # "rank_write"
        BY DEF RanksInTurn
    <2>1. Ranks' = Ranks
        <3>1. [t \in Graded' |-> sheet'[t].total] = [t \in Graded |-> sheet[t].total]
            BY <1>7, <1>8
        <3> QED BY <1>7, <3>1 DEF Ranks
    <2>2. positions = Ranks
        BY <1>1, <1>2, <1>4 DEF MarksInv, RanksInTurn
    <2>3. \A s \in Graded' : sheet'[s].position = Ranks'[s]
        <3>1. DOMAIN Ranks = Graded
            BY DEF Ranks
        <3>2. ranked = Graded
            BY <1>2, <2>2, <3>1
        <3> QED BY <1>5, <1>7, <2>1, <2>2, <3>2
    <2>4. \A q \in Procs : pc'[q] # "rank_write"
        BY <1>1, <1>4 DEF MarksInv, Lone, OthersStay
    <2> QED BY <2>3, <2>4
<1> QED BY <1>1, <1>4, <1>7, <1>8, <1>9, <1>10, <1>11, <1>12, <1>13, MarksMove

(* The answer cleans the row that was sent.                                   *)
LEMMA AnsweredStep ==
    ASSUME MarksInv, NEW p \in Procs, Answered(p)
    PROVE  MarksInv'
<1>1. /\ pc[p] = "mark_answer" /\ pc[p] # "idle" /\ job[p] \in SaveJobs /\ SaveKnown(p)
      /\ UNCHANGED <<sheet, unsure, unranked>>
    BY DEF Answered, MarksInv, SaveKnown, SaveStages
<1>2. Graded' = Graded /\ \A s : Stored(s)' = Stored(s)
    BY <1>1 DEF Graded, Stored
<1>3. CASE job[p].from = "all"
    <2>1. GoTo(p, "mark_reload") /\ page' = page /\ "mark_reload" \in GradeStages
        BY <1>3 DEF Answered, GradeStages, MarkStages
    <2>2. /\ GradeRequests' /\ Lone' /\ pc'[p] = "mark_reload" /\ job' = job /\ OthersStay(p)
          /\ overlapped' = overlapped
        BY <1>1, <2>1, MarksFacts, GoToStep DEF GradeRequests
    <2>3. SheetOK' /\ SheetAgrees'
        BY <1>1, <1>2, <2>1 DEF MarksInv, SheetOK, SheetAgrees
    <2>4. SaveKnown(p)'
        BY <1>1, <1>3, <2>2 DEF SaveKnown, SaveStages
    <2>5. \A q \in Procs, s \in Pupils \ unsure' : q # p /\ Holds(q, s) => ~Holds(p, s)'
        <3>1. \A s \in Pupils : Holds(p, s)' = Holds(p, s)
            BY <1>1, <2>2 DEF Holds, SaveOrigin
        <3> QED BY <1>1, <3>1 DEF MarksInv, HeldOnce
    <2>6. RanksInTurn'
        BY <1>1, <2>2, RanksStay
    <2> QED BY <1>1, <1>2, <2>1, <2>2, <2>3, <2>4, <2>5, <2>6, MarksMove
<1>4. CASE job[p].from # "all"
    <2>1. Finish(p) /\ page' = IF job[p].from = "blur"
                               THEN Cleaned(CHOOSE s \in DOMAIN job[p].entries : TRUE) ELSE page
        BY <1>4 DEF Answered
    <2>2. /\ GradeRequests' /\ Lone' /\ pc'[p] = "idle" /\ OthersStay(p)
          /\ overlapped' = overlapped
        BY <1>1, <2>1, MarksFacts, FinishStep DEF GradeRequests
    <2>3. CASE job[p].from # "blur"
        BY <1>1, <2>1, <2>2, <2>3, MarksOnly DEF SaveStages
    <2>4. CASE job[p].from = "blur"
        <3>1. PICK s \in Pupils : DOMAIN job[p].entries = {s}
            BY <1>1, <2>4 DEF SaveKnown, SaveStages
        <3>2. page' = [page EXCEPT ![s].dirty = FALSE]
            BY <2>1, <2>4, <3>1 DEF Cleaned
        <3>3. /\ page'[s].marks = page[s].marks /\ \A t \in Pupils : t # s => page'[t] = page[t]
              /\ page' \in [Pupils -> [marks : Marks, dirty : BOOLEAN]]
            BY <3>2, MarksFacts DEF SheetOK
        <3>4. s \notin unsure => page[s].marks = Stored(s)
            BY <1>1, <2>4, <3>1 DEF SaveKnown, SaveStages, FromPage
        <3>5. Holds(p, s) /\ \A t \in Pupils : ~Holds(p, t)'
            BY <1>1, <2>2, <2>4, <3>1 DEF Holds, SaveOrigin
        <3>6. \A q \in Procs, t \in Pupils \ unsure' :
                  q # p /\ Holds(q, t) => page'[t] = page[t] /\ Stored(t)' = Stored(t)
            BY <1>1, <1>2, <3>3, <3>5 DEF MarksInv, HeldOnce
        <3>7. SheetOK' /\ SaveKnown(p)'
            BY <1>1, <2>2, <3>3, MarksFacts DEF SheetOK, SaveKnown, SaveStages
        <3>8. SheetAgrees'
            BY <1>1, <1>2, <3>3, <3>4 DEF MarksInv, SheetAgrees
        <3>9. RanksInTurn'
            BY <1>1, <2>2, RanksStay
        <3> QED BY <1>1, <1>2, <2>2, <3>5, <3>6, <3>7, <3>8, <3>9, MarksMove
    <2> QED BY <2>3, <2>4
<1> QED BY <1>3, <1>4

LEMMA ReloadStep ==
    ASSUME MarksInv, NEW p \in Procs, Reload(p)
    PROVE  MarksInv'
<1>1. /\ pc[p] = "mark_reload" /\ pc[p] # "idle" /\ SaveKnown(p) /\ job[p].from = "all"
      /\ UNCHANGED <<sheet, unsure, unranked>> /\ Finish(p)
    BY DEF Reload, MarksInv, SaveKnown
<1>2. /\ GradeRequests' /\ Lone' /\ pc'[p] = "idle" /\ OthersStay(p)
      /\ overlapped' = overlapped
    BY <1>1, MarksFacts, FinishStep DEF GradeRequests
<1>3. CASE page' = page
    BY <1>1, <1>2, <1>3, MarksOnly DEF SaveStages
<1>4. CASE page' = [s \in Pupils |-> [marks |-> Stored(s), dirty |-> FALSE]]
    <2>1. Graded' = Graded /\ \A s : Stored(s)' = Stored(s)
        BY <1>1 DEF Graded, Stored
    <2>2. \A s \in Pupils : Holds(p, s) /\ ~Holds(p, s)'
        BY <1>1, <1>2 DEF Holds, SaveOrigin
    <2>3. \A q \in Procs, s \in Pupils \ unsure' : ~(q # p /\ Holds(q, s))
        BY <1>1, <2>2 DEF MarksInv, HeldOnce
    <2>4. SheetOK' /\ SaveKnown(p)'
        <3>1. \A s \in Pupils : Stored(s) \in Marks
            BY StoredType, MarksFacts
        <3> QED BY <1>1, <1>2, <1>4, <3>1, MarksFacts DEF SheetOK, SaveKnown, SaveStages
    <2>5. SheetAgrees'
        BY <1>1, <1>4, <2>1 DEF MarksInv, SheetAgrees
    <2>6. RanksInTurn'
        BY <1>1, <1>2, RanksStay
    <2> QED BY <1>1, <1>2, <2>1, <2>2, <2>3, <2>4, <2>5, <2>6, MarksMove
<1> QED BY <1>3, <1>4 DEF Reload

LEMMA PatchWriteStep ==
    ASSUME MarksInv, NEW p \in Procs, PatchWrite(p)
    PROVE  MarksInv'
<1>1. /\ pc[p] = "cell_write" /\ pc[p] # "idle" /\ job[p] \in CellJobs /\ job[p].pupil \in unsure
      /\ unranked' = TRUE /\ Finish(p) /\ page' = page /\ unsure' = unsure
    BY DEF PatchWrite, MarksInv, SaveKnown
<1>2. PICK s \in Pupils, marks \in Marks : s = job[p].pupil /\ marks = job[p].marks
    BY <1>1 DEF CellJobs
<1>3. sheet' = [sheet EXCEPT ![s] = Row(s, marks)]
    BY <1>2 DEF PatchWrite
<1>4. /\ GradeRequests' /\ Lone' /\ pc'[p] = "idle" /\ OthersStay(p)
      /\ overlapped' = overlapped
    BY <1>1, MarksFacts, FinishStep DEF GradeRequests
<1>5. /\ sheet'[s] \in SheetRows /\ sheet'[s] # NoGrade
      /\ sheet'[s].marks = marks /\ sheet'[s].total = Total(marks)
      /\ \A t \in Pupils : t # s => sheet'[t] = sheet[t]
      /\ sheet' \in [Pupils -> SheetRows \cup {NoGrade}]
    <2>1. /\ Row(s, marks) \in SheetRows
          /\ Row(s, marks).marks = marks /\ Row(s, marks).total = Total(marks)
        BY RowType, MarksFacts
    <2> QED BY <1>3, <2>1, RowIsThere, MarksFacts DEF SheetOK
<1>6. SheetOK' /\ Graded \subseteq Graded' /\ \A t \in Pupils : t # s => Stored(t)' = Stored(t)
    BY <1>1, <1>5, MarksFacts DEF SheetOK, Graded, Stored
<1>7. SaveKnown(p)' /\ \A t \in Pupils : ~Holds(p, t)'
    BY <1>4 DEF SaveKnown, SaveStages, Holds, SaveOrigin
<1>8. \A q \in Procs, t \in Pupils \ unsure' : page'[t] = page[t] /\ Stored(t)' = Stored(t)
    BY <1>1, <1>2, <1>6
<1>9. SheetAgrees'
    <2>1. ASSUME NEW t \in Graded' PROVE sheet'[t].total = Total(sheet'[t].marks)
        BY <1>5, <2>1 DEF MarksInv, SheetAgrees, Graded
    <2> QED BY <1>1, <1>8, <2>1 DEF MarksInv, SheetAgrees
<1>10. RanksInTurn'
    BY <1>1, <1>4, RanksStay
<1> QED BY <1>1, <1>4, <1>6, <1>7, <1>8, <1>9, <1>10, MarksMove

LEMMA MarksStep ==
    ASSUME MarksInv, MarksNext
    PROVE  MarksInv'
<1>1. ASSUME NEW p \in Procs, Dies(p), UNCHANGED markVars PROVE MarksInv'
    <2>1. pc[p] # "idle" /\ UNCHANGED <<sheet, page, unsure, unranked>>
        BY <1>1 DEF Dies, markVars
    <2>2. /\ GradeRequests' /\ Lone' /\ pc'[p] = "idle" /\ OthersStay(p)
          /\ overlapped' = overlapped
        BY <1>1, <2>1, MarksFacts, FinishStep DEF GradeRequests
    <2> QED BY <2>1, <2>2, MarksOnly DEF SaveStages
<1> QED BY <1>1, TypeStep, SaveStep, ElsewhereStep, WriteMarksStep, RankReadStep, RankWriteStep,
           AnsweredStep, ReloadStep, PatchWriteStep DEF MarksNext

LEMMA MarksStutter ==
    ASSUME MarksInv, UNCHANGED <<handlerVars, markVars>>
    PROVE  MarksInv'
<1>1. /\ GradeRequests' /\ Lone' /\ pc' = pc /\ job' = job /\ overlapped' = overlapped
    BY MarksFacts, HandlersStutter DEF GradeRequests
<1>2. sheet' = sheet /\ page' = page /\ unsure' = unsure /\ unranked' = unranked
    BY DEF markVars
<1>3. SheetOK' /\ SheetAgrees' /\ Graded' = Graded /\ Ranks' = Ranks /\ \A s : Stored(s)' = Stored(s)
    BY <1>2 DEF MarksInv, SheetOK, SheetAgrees, Graded, Ranks, Stored
<1>4. \A q \in Procs : SaveKnown(q)'
    BY <1>1, <1>2, <1>3, StillKnown DEF MarksInv
<1>5. HeldOnce' /\ RanksInTurn'
    BY <1>1, <1>2, <1>3 DEF MarksInv, HeldOnce, Holds, SaveOrigin, RanksInTurn
<1> QED BY <1>1, <1>3, <1>4, <1>5 DEF MarksInv

LEMMA MarksInvImplies == MarksInv => MarksStored
<1> SUFFICES ASSUME MarksInv PROVE MarksStored
    OBVIOUS
<1>1. ~overlapped /\ ~unranked => \A s \in Graded :
          sheet[s].position = Position(s, Graded, [t \in Graded |-> sheet[t].total])
    <2>1. \A s \in Graded : Ranks[s] = Position(s, Graded, [t \in Graded |-> sheet[t].total])
        BY DEF Ranks
    <2> QED BY <2>1 DEF MarksInv, RanksInTurn
<1> QED BY <1>1 DEF MarksInv, SheetAgrees, MarksStored

(* A row the page shows as saved is what the table has, whatever other rows   *)
(* are typed, saved, imported or patched meanwhile and whoever dies, unless   *)
(* it was typed into or saved elsewhere while it was being saved; totals add  *)
(* up, and with requests in turn positions rank them (api/grades,             *)
(* grade-entry.tsx).                                                          *)
THEOREM MarksStayStored == MarksSpec => []MarksStored
<1>1. MarksInv /\ [MarksNext]_<<handlerVars, markVars>> => MarksInv'
    BY MarksStep, MarksStutter
<1> QED BY <1>1, MarksInitial, MarksInvImplies, PTL DEF MarksSpec

(* A step of marks leaves requests and marks alone, or is one of a request.   *)
MarkMoves(p) ==
    /\ OthersStay(p) /\ (overlapped => overlapped')
    /\ pc'[p] \in MarkStages \cup {"idle"}
    /\ pc'[p] = "idle" => pc[p] # "idle" /\ job'[p] = NoJob

LEMMA MarkRequest ==
    ASSUME MarksInv, MarksNext
    PROVE  \/ pc' = pc /\ job' = job /\ overlapped' = overlapped /\ sheet' = sheet
           \/ \E p \in Procs : MarkMoves(p)
<1>1. ASSUME NEW p \in Procs, NEW stage \in MarkStages \cup {"idle"}, NEW j,
             pc' = [pc EXCEPT ![p] = stage], job' = [job EXCEPT ![p] = j] \/ (job' = job /\ stage # "idle"),
             overlapped => overlapped', stage = "idle" => pc[p] # "idle" /\ j = NoJob
      PROVE  MarkMoves(p)
    BY <1>1, MarksFacts DEF MarkMoves, OthersStay, GradeRequests, HandlersTypeOK
<1>2. ASSUME NEW p \in Procs, NEW j, Begin(p, j, "mark_write") \/ Begin(p, j, "cell_write") PROVE MarkMoves(p)
    BY <1>1, <1>2, MarksFacts DEF Begin, MarkStages
<1>3. ASSUME NEW p \in Procs, pc[p] # "idle", Finish(p) PROVE MarkMoves(p)
    BY <1>1, <1>3 DEF Finish
<1>4. ASSUME NEW p \in Procs, NEW stage \in MarkStages, GoTo(p, stage) PROVE MarkMoves(p)
    BY <1>1, <1>4 DEF GoTo, MarkStages
<1>5. ASSUME NEW s \in Pupils, NEW c \in Cells, NEW v \in Scores, Type(s, c, v)
      PROVE  pc' = pc /\ job' = job /\ overlapped' = overlapped /\ sheet' = sheet
    BY <1>5 DEF Type, handlerVars
<1>6. ASSUME NEW p \in Procs, NEW s \in Pupils, NEW c \in Cells, NEW v \in Scores, PatchRead(p, s, c, v)
      PROVE  MarkMoves(p)
    BY <1>2, <1>6 DEF PatchRead
<1>7. ASSUME NEW p \in Procs, \/ \E s \in Pupils : SaveRow(p, s)
                              \/ \E s \in Elsewhere, marks \in Marks : Import(p, [t \in {s} |-> marks])
                              \/ SaveAll(p)
      PROVE  MarkMoves(p)
    BY <1>2, <1>7 DEF SaveRow, Import, SaveAll, Submit
<1>8. ASSUME NEW p \in Procs, WriteMarks(p) \/ RankWrite(p) \/ Answered(p) \/ Reload(p) \/ PatchWrite(p)
      PROVE  MarkMoves(p)
    BY <1>3, <1>4, <1>8 DEF WriteMarks, RankWrite, Answered, Reload, PatchWrite, MarkStages
<1>9. ASSUME NEW p \in Procs, RankRead(p) PROVE MarkMoves(p)
    BY <1>1, <1>9 DEF RankRead, Carry, MarkStages
<1>10. ASSUME NEW p \in Procs, Dies(p) PROVE MarkMoves(p)
    BY <1>1, <1>10 DEF Dies
<1> QED BY <1>5, <1>6, <1>7, <1>8, <1>9, <1>10 DEF MarksNext

(* Cells are typed, and marks saved elsewhere, up to their bounds.            *)
CountersOK == typed \in 0..MaxTyped /\ elsewhere \in 0..MaxElsewhere

LEMMA CountersInitial == MarksInit => CountersOK
BY MarkAssumptions DEF MarkAssumptions, MarksInit, CountersOK

LEMMA CountersStep ==
    ASSUME CountersOK, MarksNext \/ UNCHANGED markVars
    PROVE  CountersOK'
<1>1. {MaxTyped, MaxElsewhere} \subseteq Nat
    BY MarkAssumptions DEF MarkAssumptions
<1>2. ASSUME UNCHANGED <<typed, elsewhere>> PROVE CountersOK'
    BY <1>2 DEF CountersOK
<1>3. ASSUME NEW s, NEW c, NEW v, Type(s, c, v) PROVE CountersOK'
    BY <1>1, <1>3 DEF Type, CountersOK
<1>4. ASSUME NEW p, NEW entries, Import(p, entries) PROVE CountersOK'
    BY <1>1, <1>4 DEF Import, CountersOK
<1>5. ASSUME NEW p, NEW s, NEW c, NEW v, PatchRead(p, s, c, v) PROVE CountersOK'
    BY <1>1, <1>5 DEF PatchRead, CountersOK
<1>6. ASSUME NEW p, \/ SaveAll(p) \/ \E s \in Pupils : SaveRow(p, s)
                    \/ WriteMarks(p) \/ RankRead(p) \/ RankWrite(p)
                    \/ Answered(p) \/ Reload(p) \/ PatchWrite(p)
      PROVE  CountersOK'
    BY <1>2, <1>6 DEF SaveAll, SaveRow, Submit, WriteMarks, RankRead, RankWrite, Answered, Reload,
                      PatchWrite, markVars
<1>7. UNCHANGED markVars => CountersOK'
    BY <1>2 DEF markVars
<1> QED BY <1>3, <1>4, <1>5, <1>6, <1>7, Zenon DEF MarksNext

(* The tables keep their types.                                               *)
LEMMA MarkTablesKept == SheetOK /\ CountersOK => MarkTablesOK
<1>1. SheetRows \subseteq [marks : Marks, total : Nat, position : Positions]
    BY TotalType DEF SheetRows, Totals
<1> QED BY <1>1 DEF SheetOK, CountersOK, MarkTablesOK

(* While nobody asks for report cards every request is one of marks.          *)
NoCards ==
    \A p \in Procs : pc[p] \in MarkStages \cup {"idle"} /\ (pc[p] = "idle" => job[p] = NoJob)

LEMMA MarkRequestsTyped ==
    ASSUME MarksInv, NoCards
    PROVE  HandlersTypeOK(MarkStages, MarkJobs)
<1>1. SaveJobs \cup CellJobs = MarkJobs
    BY DEF SaveJobs, CellJobs, MarkJobs
<1>2. ASSUME NEW p \in Procs, pc[p] # "idle" PROVE job[p] \in SaveJobs \cup CellJobs
    BY <1>2 DEF MarksInv, SaveKnown, NoCards, MarkStages, SaveStages
<1>3. job \in [Procs -> MarkJobs \cup {NoJob}] /\ pc \in [Procs -> MarkStages \cup {"idle"}]
    BY <1>1, <1>2 DEF MarksInv, GradeRequests, HandlersTypeOK, NoCards
<1> QED BY <1>1, <1>2, <1>3 DEF MarksInv, GradeRequests, HandlersTypeOK

(* The mark sheet, the page and the requests of marks keep their types:       *)
(* totals are sums of marks, and every position is one among the pupils.      *)
THEOREM MarksTypes == MarksSpec => []MarksTypeOK
<1> DEFINE TypeInv == MarksInv /\ NoCards /\ CountersOK
<1>1. HandlersInit /\ MarksInit => TypeInv
    BY MarksInitial, CountersInitial DEF NoCards, HandlersInit
<1>2. TypeInv /\ [MarksNext]_<<handlerVars, markVars>> => TypeInv'
    <2> SUFFICES ASSUME TypeInv, [MarksNext]_<<handlerVars, markVars>> PROVE TypeInv'
        OBVIOUS
    <2>1. MarksInv'
        BY MarksStep, MarksStutter
    <2>2. CountersOK'
        BY CountersStep
    <2>3. NoCards'
        <3>1. CASE MarksNext
            BY <3>1, MarkRequest DEF NoCards, MarkMoves, OthersStay
        <3>2. CASE UNCHANGED <<handlerVars, markVars>>
            BY <3>2 DEF NoCards, handlerVars
        <3> QED BY <3>1, <3>2
    <2> QED BY <2>1, <2>2, <2>3
<1>3. TypeInv => MarksTypeOK
    BY MarkRequestsTyped, MarkTablesKept DEF MarksTypeOK, MarksInv
<1> QED BY <1>1, <1>2, <1>3, PTL DEF MarksSpec

----------------------------------------------------------------------------
(* Report cards *)

CardRows ==
    [total : {0} \cup Totals, position : Positions, remark : {"none", "ai", "staff"}, locked : BOOLEAN]

CardsOK ==
    /\ cards \in [Active -> CardRows \cup {NoCard}]
    /\ sealed \in [Active -> CardRows \cup {NoCard}]
    /\ raced \subseteq Active /\ fresh \subseteq Active

GenerateStages == {"card_marks", "card_rank", "card_read", "card_write"}

CardJob(q) ==
    /\ pc[q] \in GenerateStages => job[q] \in GenerateJobs
    /\ pc[q] = "edit_write" => job[q] \in EditJobs /\ cards[job[q].pupil] \in CardRows

(* A card stands as it was locked because it is locked, and nobody is about   *)
(* to write it but to unlock it.                                              *)
SealHolds(s) ==
    sealed[s] # NoCard =>
        /\ cards[s] = sealed[s] /\ cards[s] \in CardRows /\ cards[s].locked
        /\ \A q \in Writing(s) : pc[q] = "edit_write" /\ job[q].edit.lock = "unlock"

(* With requests in turn what a generation read is still so when it writes.   *)
TotalRead(q) == job[q].pupil \in Graded => job[q].total = sheet[job[q].pupil].total
PositionRead(q) == job[q].pupil \in Graded => job[q].position = Ranks[job[q].pupil]

ReadInTurn(q) ==
    /\ pc[q] \in {"card_rank", "card_read", "card_write"} => TotalRead(q)
    /\ pc[q] \in {"card_read", "card_write"} => PositionRead(q)

FreshCard(s) == cards[s].total = sheet[s].total /\ cards[s].position = Ranks[s]

CardsInTurn ==
    ~overlapped => (\A s \in fresh \cap Graded : FreshCard(s)) /\ (\A q \in Procs : ReadInTurn(q))

CardsInv ==
    /\ MarksInv /\ CardsOK /\ (\A q \in Procs : CardJob(q))
    /\ (\A s \in Active \ raced : SealHolds(s)) /\ CardsInTurn

LEMMA CardsInitial == HandlersInit /\ MarksInit /\ CardsInit => CardsInv
<1> SUFFICES ASSUME HandlersInit, MarksInit, CardsInit PROVE CardsInv
    OBVIOUS
<1>1. MarksInv /\ \A q \in Procs : pc[q] = "idle"
    BY MarksInitial DEF HandlersInit
<1>2. CardsOK /\ CardsInTurn /\ (\A s \in Active \ raced : SealHolds(s))
    BY <1>1 DEF CardsInit, CardsOK, CardsInTurn, SealHolds, ReadInTurn
<1>3. \A q \in Procs : CardJob(q)
    BY <1>1 DEF CardJob, GenerateStages
<1> QED BY <1>1, <1>2, <1>3 DEF CardsInv

(* A step of a request about cards.                                           *)
LEMMA CardsMove ==
    ASSUME CardsInv, GradeRequests', Lone', UNCHANGED markVars, NEW p \in Procs, OthersStay(p),
           overlapped => overlapped', pc'[p] \notin SaveStages \cup {"cell_write"},
           pc'[p] # "idle" \/ (pc[p] # "idle" /\ overlapped' = overlapped),
           CardsOK', CardJob(p)',
           \A s \in Active : cards[s] \in CardRows => cards'[s] \in CardRows,
           \A s \in Active \ raced' : SealHolds(s)',
           ~overlapped' => (\A s \in fresh' \cap Graded : FreshCard(s)') /\ ReadInTurn(p)'
    PROVE  CardsInv'
<1>1. MarksInv' /\ Graded' = Graded
    BY MarksOnly DEF CardsInv, markVars, Graded
<1>2. ASSUME NEW q \in Procs, q # p PROVE CardJob(q)'
    <2>1. CardJob(q) /\ pc'[q] = pc[q] /\ job'[q] = job[q]
        BY <1>2 DEF CardsInv, OthersStay
    <2>2. job[q] \in EditJobs => job[q].pupil \in Active
        BY DEF EditJobs
    <2> QED BY <2>1, <2>2 DEF CardJob
<1>3. CardsInTurn'
    <2>1. ASSUME ~overlapped', NEW q \in Procs, q # p PROVE ReadInTurn(q)'
        <3>1. pc'[q] = "idle"
            BY <2>1 DEF CardsInv, MarksInv, Lone, OthersStay
        <3> QED BY <3>1 DEF ReadInTurn
    <2> QED BY <1>1, <2>1 DEF CardsInTurn
<1>4. \A q \in Procs : CardJob(q)'
    BY <1>2
<1> QED BY <1>1, <1>3, <1>4 DEF CardsInv

(* One that leaves the cards alone, and writes no card that stands locked.    *)
LEMMA CardsQuiet ==
    ASSUME CardsInv, GradeRequests', Lone', UNCHANGED <<markVars, cardVars>>, NEW p \in Procs,
           OthersStay(p), overlapped => overlapped', pc'[p] \notin SaveStages \cup {"cell_write"},
           pc'[p] # "idle" \/ (pc[p] # "idle" /\ overlapped' = overlapped),
           pc'[p] \in GenerateStages => job'[p] \in GenerateJobs,
           pc'[p] = "edit_write" => job'[p] \in EditJobs /\ cards[job'[p].pupil] \in CardRows,
           \A s \in Active \ raced : sealed[s] # NoCard /\ p \in Writing(s)' =>
               pc'[p] = "edit_write" /\ job'[p].edit.lock = "unlock",
           ~overlapped' => ReadInTurn(p)'
    PROVE  CardsInv'
<1>1. cards' = cards /\ sealed' = sealed /\ raced' = raced /\ fresh' = fresh /\ UNCHANGED markVars
    BY DEF cardVars
<1>2. CardsOK' /\ CardJob(p)'
    BY <1>1 DEF CardsInv, CardsOK, CardJob
<1>3. \A s \in Active \ raced' : SealHolds(s)'
    BY <1>1 DEF CardsInv, SealHolds, Writing, OthersStay
<1>4. ASSUME ~overlapped' PROVE \A s \in fresh' \cap Graded : FreshCard(s)'
    <2>1. sheet' = sheet
        BY DEF markVars
    <2> QED BY <1>1, <1>4, <2>1, ZenonT(60) DEF CardsInv, CardsInTurn, FreshCard, Ranks, Graded
<1> QED BY <1>1, <1>2, <1>3, <1>4, CardsMove

(* The next pupil, or the end.                                                *)
LEMMA NextCardStep ==
    ASSUME CardsInv, NEW p \in Procs, pc[p] \in GenerateStages, NextCard(p),
           \/ UNCHANGED faults
           \/ faults < MaxFaults /\ faults' = faults + 1
    PROVE  /\ GradeRequests' /\ Lone' /\ OthersStay(p) /\ overlapped' = overlapped
           /\ pc[p] # "idle" /\ pc'[p] \in {"idle", "card_marks"}
           /\ pc'[p] = "card_marks" => job'[p] \in GenerateJobs
<1>1. /\ GradeRequests /\ Lone /\ job[p] \in GenerateJobs /\ pc[p] # "idle"
      /\ GenerateJobs \subseteq GradeJobs /\ "card_marks" \in GradeStages
    BY MarksFacts DEF CardsInv, CardJob, GenerateStages, GradeStages, CardStages
<1>2. overlapped' = overlapped
    BY DEF NextCard
<1>3. PICK stage, j : /\ (stage = "idle" /\ j = NoJob) \/ (stage = "card_marks" /\ j \in GenerateJobs)
                      /\ pc' = [pc EXCEPT ![p] = stage] /\ job' = [job EXCEPT ![p] = j]
    <2>1. CASE job[p].left \ {job[p].pupil} = {}
        BY <2>1 DEF NextCard
    <2>2. CASE job[p].left \ {job[p].pupil} # {}
        <3>1. PICK s \in job[p].left \ {job[p].pupil} :
                  job' = [job EXCEPT ![p].left = job[p].left \ {job[p].pupil}, ![p].pupil = s]
            BY <2>2 DEF NextCard
        <3>2. job' = [job EXCEPT ![p] = [job[p] EXCEPT !.left = job[p].left \ {job[p].pupil}, !.pupil = s]]
            BY <1>1, <3>1 DEF GradeRequests, HandlersTypeOK
        <3>3. [job[p] EXCEPT !.left = job[p].left \ {job[p].pupil}, !.pupil = s] \in GenerateJobs
            BY <1>1 DEF GenerateJobs
        <3>4. pc' = [pc EXCEPT ![p] = "card_marks"]
            BY <2>2 DEF NextCard
        <3> QED BY <3>2, <3>3, <3>4
    <2> QED BY <2>1, <2>2
<1>4. faults' \in 0..MaxFaults
    BY <1>1, HandlersAssumptions DEF HandlersAssumptions, GradeRequests, HandlersTypeOK
<1>5. OthersStay(p) /\ pc'[p] = stage /\ job'[p] = j
    BY <1>1, <1>3 DEF OthersStay, GradeRequests, HandlersTypeOK
<1>6. GradeRequests'
    <2>1. /\ pc' \in [Procs -> GradeStages \cup {"idle"}]
          /\ job' \in [Procs -> GradeJobs \cup {NoJob}]
        BY <1>1, <1>3 DEF GradeRequests, HandlersTypeOK
    <2>2. \A q \in Procs : pc'[q] # "idle" => job'[q] \in GradeJobs
        BY <1>1, <1>3, <1>5 DEF OthersStay, GradeRequests, HandlersTypeOK
    <2> QED BY <1>1, <1>2, <1>4, <2>1, <2>2 DEF GradeRequests, HandlersTypeOK
<1>7. Lone'
    BY <1>1, <1>2, <1>5 DEF Lone, OthersStay
<1> QED BY <1>1, <1>2, <1>3, <1>5, <1>6, <1>7

LEMMA CardsFacts ==
    ASSUME CardsInv
    PROVE  /\ GradeRequests /\ Lone /\ "idle" \notin GradeStages /\ GenerateJobs \subseteq GradeJobs
           /\ EditJobs \subseteq GradeJobs /\ GenerateStages \subseteq GradeStages
           /\ "edit_write" \in GradeStages /\ SheetOK /\ MarksInv /\ CardsOK
           /\ overlapped \in BOOLEAN
BY MarksFacts DEF CardsInv, GradeStages, CardStages, GenerateStages

LEMMA GenerateStep ==
    ASSUME CardsInv, NEW p \in Procs, NEW ai \in BOOLEAN, Generate(p, ai), UNCHANGED markVars
    PROVE  CardsInv'
<1>1. PICK s \in Active :
          Begin(p, [op |-> "cards", left |-> Active, ai |-> ai, pupil |-> s,
                    total |-> 0, position |-> 0, remark |-> "none"], "card_marks")
    BY DEF Generate
<1> DEFINE j == [op |-> "cards", left |-> Active, ai |-> ai, pupil |-> s,
                 total |-> 0, position |-> 0, remark |-> "none"]
<1>2. j \in GenerateJobs /\ "card_marks" \in GradeStages /\ Begin(p, j, "card_marks")
    BY <1>1, CardsFacts, NoPosition DEF GenerateJobs, GenerateStages
<1> HIDE DEF j
<1>3. /\ GradeRequests' /\ Lone' /\ pc'[p] = "card_marks" /\ job'[p] = j /\ OthersStay(p)
      /\ overlapped => overlapped'
    BY <1>2, CardsFacts, BeginStep DEF GradeRequests
<1>4. ReadInTurn(p)' /\ \A t : p \notin Writing(t)'
    BY <1>3 DEF ReadInTurn, Writing
<1>5. UNCHANGED <<markVars, cardVars>>
    BY DEF Generate
<1> QED BY <1>2, <1>3, <1>4, <1>5, CardsQuiet DEF SaveStages, GenerateStages

(* Totals and positions are read one after the other.                         *)
LEMMA CardMarksStep ==
    ASSUME CardsInv, NEW p \in Procs, CardMarks(p) \/ CardRank(p), UNCHANGED markVars
    PROVE  CardsInv'
<1>1. /\ pc[p] \in {"card_marks", "card_rank"} /\ pc[p] # "idle" /\ job[p] \in GenerateJobs
      /\ UNCHANGED <<markVars, cardVars>>
    BY DEF CardMarks, CardRank, CardsInv, CardJob, GenerateStages
<1>2. PICK s \in Active : s = job[p].pupil
    BY <1>1 DEF GenerateJobs
<1>3. s \in Graded => sheet[s].total \in Totals /\ Ranks[s] \in Positions
    <2>1. s \in Graded => sheet[s] \in SheetRows
        BY CardsFacts DEF SheetOK, Graded
    <2>2. s \in Graded => Ranks[s] \in Positions
        <3>1. [t \in Graded |-> sheet[t].total] \in [Graded -> Totals] /\ Graded \in SUBSET Pupils
            BY CardsFacts DEF SheetOK, SheetRows, Graded
        <3> QED BY <3>1, PositionType DEF Ranks
    <2> QED BY <2>1, <2>2 DEF SheetRows
<1>4. PICK j \in GenerateJobs, stage \in {"card_rank", "card_read"} :
          /\ Carry(p, j, stage) /\ j.pupil = s
          /\ s \in Graded => /\ stage = "card_rank" => j.total = sheet[s].total
                             /\ stage = "card_read" => j.total = job[p].total /\ j.position = Ranks[s]
          /\ stage = "card_read" => pc[p] = "card_rank"
    <2>1. CASE CardMarks(p)
        <3> DEFINE j == [job[p] EXCEPT !.total = IF s \in Graded THEN sheet[s].total ELSE 0]
        <3>1. /\ j \in GenerateJobs /\ j.pupil = s
              /\ s \in Graded => j.total = sheet[s].total
            BY <1>1, <1>2, <1>3 DEF GenerateJobs
        <3>2. Carry(p, j, "card_rank")
            BY <1>2, <2>1 DEF CardMarks
        <3> HIDE DEF j
        <3> QED BY <3>1, <3>2
    <2>2. CASE CardRank(p)
        <3> DEFINE j == [job[p] EXCEPT !.position = IF s \in Graded THEN Ranks[s] ELSE 0]
        <3>1. /\ j \in GenerateJobs /\ j.pupil = s
              /\ s \in Graded => j.total = job[p].total /\ j.position = Ranks[s]
            BY <1>1, <1>2, <1>3, NoPosition DEF GenerateJobs
        <3>2. s \in Graded => Ranks[s] = Position(s, Graded, [t \in Graded |-> sheet[t].total])
            BY DEF Ranks
        <3>3. Carry(p, j, "card_read") /\ pc[p] = "card_rank"
            BY <1>2, <2>2, <3>2 DEF CardRank
        <3> HIDE DEF j
        <3> QED BY <3>1, <3>3
    <2> QED BY <2>1, <2>2
<1>5. /\ GradeRequests' /\ Lone' /\ pc'[p] = stage /\ job'[p] = j /\ OthersStay(p)
      /\ overlapped' = overlapped
    <2>1. j \in GradeJobs /\ stage \in GradeStages
        BY CardsFacts DEF GenerateStages
    <2> QED BY <1>1, <1>4, <2>1, CardsFacts, CarryStep DEF GradeRequests
<1>6. ASSUME ~overlapped' PROVE ReadInTurn(p)'
    <2>1. sheet' = sheet /\ Graded' = Graded /\ Ranks' = Ranks
        BY <1>1 DEF markVars, Graded, Ranks
    <2>2. stage = "card_read" => TotalRead(p)
        BY <1>4, <1>5, <1>6 DEF CardsInv, CardsInTurn, ReadInTurn
    <2> QED BY <1>2, <1>4, <1>5, <2>1, <2>2 DEF ReadInTurn, TotalRead, PositionRead
<1>7. \A t : p \notin Writing(t)'
    BY <1>5 DEF Writing
<1> QED BY <1>1, <1>4, <1>5, <1>6, <1>7, CardsQuiet DEF SaveStages, GenerateStages

(* The card is read: a locked one is left out.                                *)
LEMMA CardReadStep ==
    ASSUME CardsInv, NEW p \in Procs, CardRead(p), UNCHANGED markVars
    PROVE  CardsInv'
<1>1. /\ pc[p] = "card_read" /\ pc[p] # "idle" /\ pc[p] \in GenerateStages /\ job[p] \in GenerateJobs
      /\ UNCHANGED <<markVars, cardVars>>
    BY DEF CardRead, CardsInv, CardJob, GenerateStages
<1>2. PICK s \in Active : s = job[p].pupil
    BY <1>1 DEF GenerateJobs
<1>3. CASE Locked(s)
    <2>1. NextCard(p) /\ UNCHANGED faults
        BY <1>2, <1>3 DEF CardRead
    <2>2. /\ GradeRequests' /\ Lone' /\ OthersStay(p) /\ overlapped' = overlapped
          /\ pc[p] # "idle" /\ pc'[p] \in {"idle", "card_marks"}
          /\ pc'[p] = "card_marks" => job'[p] \in GenerateJobs
        BY <1>1, <2>1, NextCardStep
    <2>3. ReadInTurn(p)' /\ \A t : p \notin Writing(t)'
        BY <2>2 DEF ReadInTurn, Writing
    <2> QED BY <1>1, <2>2, <2>3, CardsQuiet DEF SaveStages, GenerateStages
<1>4. CASE ~Locked(s)
    <2> DEFINE j == [job[p] EXCEPT !.remark = IF cards[s] = NoCard THEN "none" ELSE cards[s].remark]
    <2>1. cards[s] = NoCard \/ cards[s] \in CardRows
        BY CardsFacts DEF CardsOK
    <2>2. /\ j \in GenerateJobs /\ j.pupil = s /\ j.total = job[p].total /\ j.position = job[p].position
        BY <1>1, <1>2, <2>1 DEF GenerateJobs, CardRows
    <2>3. Carry(p, j, "card_write") /\ "card_write" \in GradeStages
        BY <1>2, <1>4, CardsFacts DEF CardRead, GenerateStages
    <2> HIDE DEF j
    <2>4. j \in GradeJobs
        BY <2>2, CardsFacts
    <2>5. /\ GradeRequests' /\ Lone' /\ pc'[p] = "card_write" /\ job'[p] = j /\ OthersStay(p)
          /\ overlapped' = overlapped
        BY <1>1, <2>3, <2>4, CardsFacts, CarryStep DEF GradeRequests
    <2>6. ASSUME ~overlapped' PROVE ReadInTurn(p)'
        <3>1. sheet' = sheet /\ Graded' = Graded /\ Ranks' = Ranks
            BY <1>1 DEF markVars, Graded, Ranks
        <3>2. TotalRead(p) /\ PositionRead(p)
            BY <1>1, <2>5, <2>6 DEF CardsInv, CardsInTurn, ReadInTurn
        <3> QED BY <1>2, <2>2, <2>5, <3>1, <3>2 DEF ReadInTurn, TotalRead, PositionRead
    <2>7. ASSUME NEW t \in Active \ raced, sealed[t] # NoCard PROVE p \notin Writing(t)'
        <3>1. Locked(t)
            BY <2>7 DEF CardsInv, SealHolds, Locked
        <3>2. t # s
            BY <1>4, <3>1
        <3> QED BY <2>2, <2>5, <3>2 DEF Writing
    <2> QED BY <1>1, <2>2, <2>5, <2>6, <2>7, CardsQuiet DEF SaveStages, GenerateStages
<1> QED BY <1>3, <1>4

LEMMA CardFailsStep ==
    ASSUME CardsInv, NEW p \in Procs, CardFails(p), UNCHANGED markVars
    PROVE  CardsInv'
<1>1. /\ pc[p] \in GenerateStages /\ NextCard(p) /\ faults < MaxFaults /\ faults' = faults + 1
      /\ UNCHANGED <<markVars, cardVars>>
    BY DEF CardFails, GenerateStages
<1>2. /\ GradeRequests' /\ Lone' /\ OthersStay(p) /\ overlapped' = overlapped
      /\ pc[p] # "idle" /\ pc'[p] \in {"idle", "card_marks"}
      /\ pc'[p] = "card_marks" => job'[p] \in GenerateJobs
    BY <1>1, NextCardStep
<1>3. ReadInTurn(p)' /\ \A t : p \notin Writing(t)'
    BY <1>2 DEF ReadInTurn, Writing
<1> QED BY <1>1, <1>2, <1>3, CardsQuiet DEF SaveStages, GenerateStages

LEMMA EditCardStep ==
    ASSUME CardsInv, NEW p \in Procs, NEW s \in Active, NEW e \in Edits, EditCard(p, s, e), UNCHANGED markVars
    PROVE  CardsInv'
<1> DEFINE j == [op |-> "edit", pupil |-> s, edit |-> e]
<1>1. /\ cards[s] # NoCard /\ (Locked(s) => e.lock = "unlock") /\ Begin(p, j, "edit_write")
      /\ UNCHANGED <<markVars, cardVars>>
    BY DEF EditCard
<1>2. j \in EditJobs /\ j.pupil = s /\ j.edit = e
    BY CardAssumptions DEF CardAssumptions, EditJobs
<1>3. cards[s] \in CardRows
    BY <1>1, CardsFacts DEF CardsOK
<1> HIDE DEF j
<1>4. j \in GradeJobs
    BY <1>2, CardsFacts
<1>5. /\ GradeRequests' /\ Lone' /\ pc'[p] = "edit_write" /\ job'[p] = j /\ OthersStay(p)
      /\ overlapped => overlapped'
    BY <1>1, <1>4, CardsFacts, BeginStep DEF GradeRequests
<1>6. ReadInTurn(p)'
    BY <1>5 DEF ReadInTurn
<1>7. ASSUME NEW t \in Active \ raced, sealed[t] # NoCard, p \in Writing(t)' PROVE j.edit.lock = "unlock"
    <2>1. t = s
        BY <1>2, <1>5, <1>7 DEF Writing
    <2>2. Locked(t)
        BY <1>7 DEF CardsInv, SealHolds, Locked
    <2> QED BY <1>1, <1>2, <2>1, <2>2
<1> QED BY <1>1, <1>2, <1>3, <1>5, <1>6, <1>7, CardsQuiet DEF SaveStages, GenerateStages

(* A card is written, which nobody had locked before it was found unlocked.   *)
LEMMA CardWriteStep ==
    ASSUME CardsInv, NEW p \in Procs, CardWrite(p), UNCHANGED markVars
    PROVE  CardsInv'
<1>1. /\ pc[p] = "card_write" /\ pc[p] \in GenerateStages /\ job[p] \in GenerateJobs
      /\ NextCard(p) /\ UNCHANGED faults /\ sealed' = sealed /\ raced' = raced
    BY DEF CardWrite, CardsInv, CardJob, GenerateStages
<1>2. PICK s \in Active : s = job[p].pupil
    BY <1>1 DEF GenerateJobs
<1>3. PICK card \in CardRows :
          /\ card.total = job[p].total /\ card.position = job[p].position
          /\ cards' = [cards EXCEPT ![s] = card]
    <2>1. PICK remark \in {job[p].remark} \cup (IF job[p].ai /\ job[p].remark = "none" THEN {"ai"} ELSE {}) :
              cards' = [cards EXCEPT ![s] =
                          [total |-> job[p].total, position |-> job[p].position, remark |-> remark,
                           locked |-> Locked(s)]]
        BY <1>2 DEF CardWrite
    <2>2. Locked(s) \in BOOLEAN
        BY CardsFacts DEF Locked, CardsOK, CardRows
    <2>3. [total |-> job[p].total, position |-> job[p].position, remark |-> remark,
           locked |-> Locked(s)] \in CardRows
        BY <1>1, <2>2 DEF GenerateJobs, CardRows
    <2> QED BY <2>1, <2>3
<1>4. fresh' = fresh \cup {s}
    BY <1>2 DEF CardWrite
<1>5. /\ GradeRequests' /\ Lone' /\ OthersStay(p) /\ overlapped' = overlapped
      /\ pc[p] # "idle" /\ pc'[p] \in {"idle", "card_marks"}
      /\ pc'[p] = "card_marks" => job'[p] \in GenerateJobs
    BY <1>1, NextCardStep
<1>6. /\ cards'[s] = card /\ \A t \in Active : t # s => cards'[t] = cards[t]
      /\ CardsOK'
    BY <1>1, <1>3, <1>4, CardsFacts DEF CardsOK
<1>7. CardJob(p)' /\ ReadInTurn(p)' /\ \A t : p \notin Writing(t)'
    BY <1>5 DEF CardJob, ReadInTurn, Writing, GenerateStages
<1>8. ASSUME NEW t \in Active \ raced' PROVE SealHolds(t)'
    <2>1. CASE sealed[t] = NoCard
        BY <1>1, <2>1 DEF SealHolds
    <2>2. CASE sealed[t] # NoCard
        <3>1. t # s
            BY <1>1, <1>2, <2>2 DEF CardsInv, SealHolds, Writing
        <3>2. \A q \in Writing(t)' : q \in Writing(t) /\ pc'[q] = pc[q] /\ job'[q] = job[q]
            BY <1>5, <1>7 DEF Writing, OthersStay
        <3> QED BY <1>1, <1>6, <3>1, <3>2 DEF CardsInv, SealHolds
    <2> QED BY <2>1, <2>2
<1>9. ASSUME ~overlapped' PROVE \A t \in fresh' \cap Graded : FreshCard(t)'
    <2>1. sheet' = sheet /\ Graded' = Graded /\ Ranks' = Ranks
        BY DEF markVars, Graded, Ranks
    <2>2. TotalRead(p) /\ PositionRead(p)
        BY <1>1, <1>5, <1>9 DEF CardsInv, CardsInTurn, ReadInTurn
    <2>3. s \in Graded => FreshCard(s)'
        BY <1>2, <1>3, <1>6, <2>1, <2>2 DEF FreshCard, TotalRead, PositionRead
    <2>4. ASSUME NEW t \in fresh \cap Graded, t # s PROVE FreshCard(t)'
        <3>1. t \in Active /\ FreshCard(t)
            BY <1>5, <1>9, <2>4, CardsFacts DEF CardsInv, CardsInTurn, CardsOK
        <3> QED BY <1>6, <2>1, <2>4, <3>1 DEF FreshCard
    <2> QED BY <1>4, <2>3, <2>4
<1>10. \A t \in Active : cards[t] \in CardRows => cards'[t] \in CardRows
    BY <1>6
<1> QED BY <1>1, <1>5, <1>6, <1>7, <1>8, <1>9, <1>10, CardsMove DEF SaveStages

(* An edit is written to the card as it is now.                               *)
LEMMA EditCardWriteStep ==
    ASSUME CardsInv, NEW p \in Procs, EditCardWrite(p), UNCHANGED markVars
    PROVE  CardsInv'
<1>1. /\ pc[p] = "edit_write" /\ pc[p] # "idle" /\ job[p] \in EditJobs
      /\ cards[job[p].pupil] \in CardRows /\ Finish(p) /\ fresh' = fresh
    BY DEF EditCardWrite, CardsInv, CardJob
<1>2. PICK s \in Active : s = job[p].pupil
    BY <1>1 DEF EditJobs
<1>3. PICK e \in EditRequests : e = job[p].edit
    BY <1>1 DEF EditJobs
<1>4. p \in Writing(s)
    BY <1>1, <1>2 DEF Writing
<1>5. PICK card : card = [cards[s] EXCEPT !.remark = IF e.remark = "keep" THEN @ ELSE e.remark,
                                          !.locked = IF e.lock = "keep" THEN @ ELSE e.lock = "lock"]
    OBVIOUS
<1>6. /\ card \in CardRows /\ card.total = cards[s].total /\ card.position = cards[s].position
      /\ e.lock = "lock" => card.locked
      /\ e.lock \in {"keep", "lock", "unlock"}
    BY <1>1, <1>2, <1>5 DEF CardRows, EditRequests
<1>7. /\ cards' = [cards EXCEPT ![s] = card]
      /\ sealed' = [sealed EXCEPT ![s] = CASE e.lock = "lock" -> card
                                           [] e.lock = "unlock" -> NoCard
                                           [] OTHER -> sealed[s]]
      /\ raced' = IF e.lock = "lock" /\ Writing(s) # {p} THEN raced \cup {s} ELSE raced
    BY <1>2, <1>3, <1>5 DEF EditCardWrite
<1>8. /\ cards'[s] = card /\ \A t \in Active : t # s => cards'[t] = cards[t] /\ sealed'[t] = sealed[t]
      /\ e.lock = "lock" => sealed'[s] = card
      /\ e.lock = "unlock" => sealed'[s] = NoCard
      /\ e.lock = "keep" => sealed'[s] = sealed[s]
      /\ CardsOK'
    BY <1>1, <1>6, <1>7, CardsFacts DEF CardsOK
<1>9. /\ GradeRequests' /\ Lone' /\ pc'[p] = "idle" /\ OthersStay(p) /\ overlapped' = overlapped
    BY <1>1, CardsFacts, FinishStep DEF GradeRequests
<1>10. CardJob(p)' /\ ReadInTurn(p)' /\ \A t : Writing(t)' \subseteq Writing(t) \ {p}
    BY <1>9 DEF CardJob, ReadInTurn, Writing, GenerateStages, OthersStay
<1>11. ASSUME NEW t \in Active \ raced' PROVE SealHolds(t)'
    <2>1. t \notin raced /\ \A q \in Writing(t)' : q \in Writing(t) /\ pc'[q] = pc[q] /\ job'[q] = job[q]
        BY <1>7, <1>9, <1>10 DEF OthersStay, Writing
    <2>2. CASE t # s
        BY <1>8, <2>1, <2>2 DEF CardsInv, SealHolds
    <2>3. CASE t = s /\ e.lock = "lock"
        <3>1. Writing(s) = {p}
            BY <1>7, <2>3
        <3>2. Writing(s)' = {}
            BY <1>10, <3>1
        <3> QED BY <1>6, <1>8, <2>3, <3>2 DEF SealHolds
    <2>4. CASE t = s /\ e.lock = "unlock"
        BY <1>8, <2>4 DEF SealHolds
    <2>5. CASE t = s /\ e.lock = "keep"
        <3>1. sealed[s] = NoCard
            BY <1>3, <1>4, <2>1, <2>5 DEF CardsInv, SealHolds
        <3> QED BY <1>8, <2>5, <3>1 DEF SealHolds
    <2> QED BY <1>6, <2>2, <2>3, <2>4, <2>5
<1>12. ASSUME ~overlapped' PROVE \A t \in fresh' \cap Graded : FreshCard(t)'
    <2>1. sheet' = sheet /\ Graded' = Graded /\ Ranks' = Ranks
        BY DEF markVars, Graded, Ranks
    <2>2. ASSUME NEW t \in fresh \cap Graded PROVE FreshCard(t)'
        <3>1. t \in Active /\ FreshCard(t)
            BY <1>9, <1>12, CardsFacts DEF CardsInv, CardsInTurn, CardsOK
        <3> QED BY <1>6, <1>8, <2>1, <3>1 DEF FreshCard
    <2> QED BY <1>1, <2>2
<1>13. \A t \in Active : cards[t] \in CardRows => cards'[t] \in CardRows
    BY <1>6, <1>8
<1>14. CardJob(p)' /\ ReadInTurn(p)' /\ pc'[p] \notin SaveStages \cup {"cell_write"}
    BY <1>9, <1>10 DEF SaveStages
<1>15. \A t \in Active \ raced' : SealHolds(t)'
    BY <1>11
<1> QED BY <1>1, <1>8, <1>9, <1>12, <1>13, <1>14, <1>15, CardsMove

(* Marks that do not change leave totals and ranks as they are.               *)
LEMMA SameMarks ==
    ASSUME SheetOK, SheetOK', \A s \in Pupils : Mark(s)' = Mark(s)
    PROVE  /\ Graded' = Graded /\ Ranks' = Ranks
           /\ \A s \in Graded : sheet'[s].total = sheet[s].total
<1>1. ASSUME NEW s \in Pupils PROVE Mark(s) = NoGrade <=> s \notin Graded
    BY RowIsThere DEF Mark, Graded, SheetOK, SheetRows
<1>2. ASSUME NEW s \in Pupils PROVE Mark(s)' = NoGrade <=> s \notin Graded'
    BY RowIsThere DEF Mark, Graded, SheetOK, SheetRows
<1>3. Graded' = Graded
    <2>1. Graded \subseteq Pupils /\ Graded' \subseteq Pupils
        BY DEF Graded
    <2> QED BY <1>1, <1>2, <2>1
<1>4. \A s \in Graded : sheet'[s].total = sheet[s].total
    BY <1>3 DEF Mark, Graded
<1>5. [t \in Graded |-> sheet'[t].total] = [t \in Graded |-> sheet[t].total]
    BY <1>4
<1>6. Ranks' = [s \in Graded |-> Position(s, Graded, [t \in Graded |-> sheet'[t].total])]
    BY <1>3 DEF Ranks
<1>7. Ranks' = Ranks
    BY <1>5, <1>6 DEF Ranks
<1> QED BY <1>3, <1>4, <1>7

LEMMA CardsMarksStep ==
    ASSUME CardsInv, MarksNext, UNCHANGED <<cards, sealed, raced>>,
           fresh' = IF \A s \in Pupils : Mark(s)' = Mark(s) THEN fresh ELSE {}
    PROVE  CardsInv'
<1>1. MarksInv' /\ SheetOK /\ SheetOK' /\ CardsOK'
    BY MarksStep, CardsFacts DEF CardsInv, MarksInv, CardsOK
<1>2. CASE pc' = pc /\ job' = job /\ overlapped' = overlapped /\ sheet' = sheet
    <2>1. \A q \in Procs : CardJob(q)'
        BY <1>2 DEF CardsInv, CardJob
    <2>2. \A s \in Active \ raced' : SealHolds(s)'
        BY <1>2 DEF CardsInv, SealHolds, Writing
    <2>3. Graded' = Graded /\ Ranks' = Ranks /\ fresh' \subseteq fresh
        BY <1>2 DEF Graded, Ranks
    <2>4. CardsInTurn'
        BY <1>2, <2>3 DEF CardsInv, CardsInTurn, FreshCard, ReadInTurn, TotalRead, PositionRead
    <2> QED BY <1>1, <2>1, <2>2, <2>4 DEF CardsInv
<1>3. ASSUME NEW p \in Procs, OthersStay(p), overlapped => overlapped',
             pc'[p] \notin GenerateStages \cup {"edit_write"}, pc'[p] = "idle" => pc[p] # "idle"
      PROVE  CardsInv'
    <2>1. \A q \in Procs : CardJob(q)'
        <3>1. CardJob(p)'
            BY <1>3 DEF CardJob
        <3>2. \A q \in Procs : q # p => CardJob(q)'
            BY <1>3 DEF CardsInv, CardJob, OthersStay
        <3> QED BY <3>1, <3>2
    <2>2. \A s \in Active \ raced' : SealHolds(s)'
        <3>1. \A s : \A q \in Writing(s)' : q \in Writing(s) /\ pc'[q] = pc[q] /\ job'[q] = job[q]
            BY <1>3 DEF Writing, OthersStay, GenerateStages
        <3> QED BY <3>1 DEF CardsInv, SealHolds
    <2>3. ASSUME ~overlapped', NEW q \in Procs PROVE ReadInTurn(q)'
        <3>1. pc'[q] \notin GenerateStages
            <4>1. CASE q = p
                BY <1>3, <4>1
            <4>2. CASE q # p
                <5>1. pc'[q] = pc[q]
                    BY <1>3, <4>2 DEF OthersStay
                <5>2. CASE pc'[p] = "idle"
                    <6>1. pc[p] # "idle" /\ ~overlapped
                        BY <1>3, <2>3, <5>2
                    <6>2. pc[q] = "idle"
                        BY <4>2, <6>1, CardsFacts DEF Lone
                    <6> QED BY <5>1, <6>2 DEF GenerateStages
                <5>3. CASE pc'[p] # "idle"
                    <6>1. pc'[q] = "idle"
                        BY <1>1, <2>3, <4>2, <5>3 DEF MarksInv, Lone
                    <6> QED BY <6>1 DEF GenerateStages
                <5> QED BY <5>2, <5>3
            <4> QED BY <4>1, <4>2
        <3> QED BY <3>1 DEF ReadInTurn, GenerateStages
    <2>4. ASSUME ~overlapped', NEW s \in (fresh \cap Graded)' PROVE FreshCard(s)'
        <3>1. \A t \in Pupils : Mark(t)' = Mark(t)
            BY <2>4
        <3>2. /\ Graded' = Graded /\ Ranks' = Ranks
              /\ \A t \in Graded : sheet'[t].total = sheet[t].total
            BY <1>1, <3>1, SameMarks
        <3>3. s \in fresh \cap Graded /\ FreshCard(s)
            BY <1>3, <2>4, <3>1, <3>2 DEF CardsInv, CardsInTurn
        <3> QED BY <3>2, <3>3 DEF FreshCard
    <2>5. CardsInTurn'
        BY <2>3, <2>4 DEF CardsInTurn
    <2> QED BY <1>1, <2>1, <2>2, <2>5 DEF CardsInv
<1>4. ASSUME NEW p \in Procs, MarkMoves(p) PROVE CardsInv'
    BY <1>3, <1>4 DEF MarkMoves, MarkStages, GenerateStages
<1> QED BY <1>2, <1>4, MarkRequest, CardsFacts

LEMMA CardsStep == CardsInv /\ [CardsNext]_<<handlerVars, markVars, cardVars>> => CardsInv'
<1> SUFFICES ASSUME CardsInv, [CardsNext]_<<handlerVars, markVars, cardVars>> PROVE CardsInv'
    OBVIOUS
<1>1. CASE CardSteps /\ UNCHANGED markVars
    <2>1. PICK p \in Procs :
              \/ \E ai \in BOOLEAN : Generate(p, ai)
              \/ CardMarks(p) \/ CardRank(p) \/ CardRead(p) \/ CardWrite(p) \/ CardFails(p)
              \/ \E s \in Active, e \in Edits : EditCard(p, s, e)
              \/ EditCardWrite(p)
        BY <1>1 DEF CardSteps
    <2> QED BY <1>1, <2>1, GenerateStep, CardMarksStep, CardReadStep, CardWriteStep, CardFailsStep,
               EditCardStep, EditCardWriteStep
<1>2. CASE /\ MarksNext
           /\ fresh' = IF \A s \in Pupils : Mark(s)' = Mark(s) THEN fresh ELSE {}
           /\ UNCHANGED <<cards, sealed, raced>>
    BY <1>2, CardsMarksStep
<1>3. CASE UNCHANGED <<handlerVars, markVars, cardVars>>
    <2>1. MarksInv'
        BY <1>3, MarksStutter DEF CardsInv
    <2>2. /\ pc' = pc /\ job' = job /\ overlapped' = overlapped /\ sheet' = sheet
          /\ cards' = cards /\ sealed' = sealed /\ raced' = raced /\ fresh' = fresh
        BY <1>3 DEF handlerVars, markVars, cardVars
    <2>3. CardsOK' /\ (\A q \in Procs : CardJob(q)') /\ \A s \in Active \ raced' : SealHolds(s)'
        BY <2>2 DEF CardsInv, CardsOK, CardJob, SealHolds, Writing
    <2>4. Graded' = Graded /\ Ranks' = Ranks
        BY <2>2 DEF Graded, Ranks
    <2>5. CardsInTurn'
        BY <2>2, <2>4 DEF CardsInv, CardsInTurn, FreshCard, ReadInTurn, TotalRead, PositionRead
    <2> QED BY <2>1, <2>3, <2>5 DEF CardsInv
<1> QED BY <1>1, <1>2, <1>3 DEF CardsNext

LEMMA CardsInvImplies == CardsInv => CardsStandLocked
<1> SUFFICES ASSUME CardsInv PROVE CardsStandLocked
    OBVIOUS
<1>1. \A s \in Graded : Ranks[s] = Position(s, Graded, [t \in Graded |-> sheet[t].total])
    BY DEF Ranks
<1> QED BY <1>1 DEF CardsInv, CardsInTurn, SealHolds, FreshCard, CardsStandLocked

(* A card that was locked stands as it was locked, however generation runs,   *)
(* edits and saves of marks interleave, unless a request that had found it    *)
(* unlocked was about to write it; and in turn an unlocked one carries the    *)
(* total and the position of its mark sheet until marks change                *)
(* (api/grades/report-cards/generate and edit/[id]).                          *)
THEOREM LockedCardsStand == CardsSpec => []CardsStandLocked
<1> QED BY CardsInitial, CardsStep, CardsInvImplies, PTL DEF CardsSpec

(* The tables and the requests of marks and of the cards made from them keep  *)
(* their types.                                                               *)
THEOREM CardsTypes == CardsSpec => []CardsTypeOK
<1>1. HandlersInit /\ MarksInit /\ CardsInit => CardsInv /\ CountersOK
    BY CardsInitial, CountersInitial
<1>2. CardsInv /\ CountersOK /\ [CardsNext]_<<handlerVars, markVars, cardVars>> =>
          CardsInv' /\ CountersOK'
    BY CardsStep, CountersStep DEF CardsNext
<1>3. CardsInv /\ CountersOK => CardsTypeOK
    <2> SUFFICES ASSUME CardsInv, CountersOK PROVE CardsTypeOK
        OBVIOUS
    <2>1. \A t \in {0} \cup Totals : t \in Nat
        BY TotalType DEF Totals
    <2>2. HandlersTypeOK(GradeStages, MarkJobs \cup CardJobs)
        <3>1. GradeJobs \subseteq MarkJobs \cup CardJobs
            <4>1. GenerateJobs \cup EditJobs \subseteq CardJobs
                <5>1. ASSUME NEW j \in GenerateJobs PROVE j \in CardJobs
                    BY <2>1 DEF GenerateJobs, CardJobs
                <5>2. EditJobs \subseteq CardJobs
                    BY DEF EditJobs, CardJobs
                <5> QED BY <5>1, <5>2
            <4>2. SaveJobs \cup CellJobs \subseteq MarkJobs
                BY DEF SaveJobs, CellJobs, MarkJobs
            <4> QED BY <4>1, <4>2 DEF GradeJobs
        <3>2. GradeRequests
            BY CardsFacts
        <3>3. job \in [Procs -> MarkJobs \cup CardJobs \cup {NoJob}]
            BY <3>1, <3>2 DEF GradeRequests, HandlersTypeOK
        <3>4. \A p \in Procs : pc[p] # "idle" => job[p] \in MarkJobs \cup CardJobs
            BY <3>1, <3>2 DEF GradeRequests, HandlersTypeOK
        <3> QED BY <3>2, <3>3, <3>4 DEF GradeRequests, HandlersTypeOK
    <2>3. CardRows \subseteq Cards
        <3>1. ASSUME NEW card \in CardRows PROVE card \in Cards
            BY <2>1 DEF CardRows, Cards
        <3> QED BY <3>1
    <2>4. CardTablesOK
        <3>1. CardsOK
            BY CardsFacts
        <3> QED BY <2>3, <3>1 DEF CardsOK, CardTablesOK
    <2> QED BY <2>2, <2>4, MarkTablesKept, CardsFacts DEF CardsTypeOK, GradeStages
<1> QED BY <1>1, <1>2, <1>3, PTL DEF CardsSpec

----------------------------------------------------------------------------
(* Timetables *)

SlotRows == [hour : Hours, lesson : Lessons, live : BOOLEAN]

SlotJobs == [op : {"slot"}, slot : Nat, hour : Hours, lesson : Lessons]
UnslotJobs == [op : {"unslot"}, slot : Nat]
SwapJobs == [op : {"swap"}, slot : Nat, other : Nat, lesson : Lessons, others : Lessons]
DraftJobs == [op : {"draft"}, draft : Drafts, left : SUBSET Hours, used : SUBSET Hours,
              missed : SUBSET Hours, replace : BOOLEAN, saved : Nat]

SlotRequests == HandlersTypeOK(TimetableStages, TimetableJobs)

(* What requests hold.                                                        *)
SlotJob(q) ==
    /\ pc[q] = "slot_write" => job[q] \in SlotJobs /\ job[q].slot \in {0} \cup Slots
    /\ pc[q] = "unslot_write" => job[q] \in UnslotJobs /\ job[q].slot \in Slots
    /\ pc[q] = "swap_write" => job[q] \in SwapJobs /\ {job[q].slot, job[q].other} \subseteq Slots
    /\ pc[q] \in {"draft_replace", "draft_create"} =>
         job[q] \in DraftJobs /\ job[q].left \subseteq DOMAIN job[q].draft

Taught(h) == At({h}) \cap LiveSlots # {}

(* TimetableKept is not inductive: a swap writes lessons it read before, and  *)
(* a draft answers with what it counted on the way. With requests in turn the *)
(* lessons to be swapped are still those of the two slots, and a draft that   *)
(* replaces has created, of the hours behind it, those that had no row and    *)
(* whose insert did not fail.                                                 *)
SwapKnown(q) ==
    pc[q] = "swap_write" =>
        /\ job[q].slot # job[q].other /\ {job[q].slot, job[q].other} \subseteq LiveSlots
        /\ slots[job[q].slot].lesson = job[q].lesson /\ slots[job[q].other].lesson = job[q].others

Behind(q) == DOMAIN job[q].draft \ job[q].left

DraftKnown(q) ==
    pc[q] \in {"draft_replace", "draft_create"} /\ job[q].replace =>
        /\ Used = job[q].used \cup (Behind(q) \ job[q].missed)
        /\ job[q].missed \subseteq Behind(q) \ job[q].used
        /\ job[q].saved = Cardinality(Behind(q) \ (job[q].used \cup job[q].missed))
        /\ pc[q] = "draft_replace" => job[q].left = DOMAIN job[q].draft
        /\ pc[q] = "draft_create" =>
             \A h \in DOMAIN job[q].draft : Taught(h) <=> h \notin job[q].left \cup job[q].used \cup job[q].missed

DraftTold ==
    told # NoDraft =>
        /\ \A h \in told.hours : Taught(h) <=> h \notin told.used \cup told.missed
        /\ told.saved = Cardinality(told.hours \ (told.used \cup told.missed))

SlotsInTurn ==
    ~overlapped =>
        /\ wanted = Count(LiveSlots) /\ DraftTold
        /\ \A q \in Procs : SwapKnown(q) /\ DraftKnown(q)

SlotsInv ==
    /\ SlotRequests /\ Lone /\ slots \in Seq(SlotRows)
    /\ (\A q \in Procs : SlotJob(q)) /\ SlotsInTurn

LEMMA SlotFacts ==
    ASSUME slots \in Seq(SlotRows)
    PROVE  /\ Len(slots) \in Nat /\ Slots = 1..Len(slots) /\ slots \in [Slots -> SlotRows]
           /\ 0 \notin Slots /\ IsFiniteSet(Slots) /\ LiveSlots \subseteq Slots
<1>1. /\ Len(slots) \in Nat /\ slots \in [1..Len(slots) -> SlotRows] /\ Slots = 1..Len(slots)
    BY LenProperties DEF Slots
<1>2. IsFiniteSet(Slots)
    BY <1>1, FS_Interval
<1> QED BY <1>1, <1>2 DEF LiveSlots

(* The live slots of a lesson.                                                *)
Teaching(l) == {i \in LiveSlots : slots[i].lesson = l}

LEMMA TeachingFacts ==
    ASSUME slots \in Seq(SlotRows)
    PROVE  \A l : /\ IsFiniteSet(Teaching(l)) /\ Cardinality(Teaching(l)) \in Nat
                  /\ Teaching(l) \subseteq Slots
<1> SUFFICES ASSUME NEW l
             PROVE  /\ IsFiniteSet(Teaching(l)) /\ Cardinality(Teaching(l)) \in Nat
                    /\ Teaching(l) \subseteq Slots
    OBVIOUS
<1>1. Teaching(l) \subseteq Slots
    BY DEF Teaching, LiveSlots
<1> QED BY <1>1, SlotFacts, FS_Subset, FS_CardinalityType

(* How many live slots a lesson has after some are taken out of a set and     *)
(* others put in.                                                             *)
Replaces(S, Out, In, T) ==
    IsFiniteSet(S) /\ IsFiniteSet(In) /\ In \cap (S \ Out) = {} /\ T = (S \ Out) \cup In

LEMMA Recount ==
    ASSUME NEW S, NEW Out, NEW In, NEW T, Replaces(S, Out, In, T)
    PROVE  Cardinality(T) = Cardinality(S) - Cardinality(S \cap Out) + Cardinality(In)
<1>0. /\ IsFiniteSet(S) /\ IsFiniteSet(In) /\ (S \ Out) \cap In = {} /\ T = (S \ Out) \cup In
    BY DEF Replaces
<1>1. /\ IsFiniteSet(S \ Out) /\ IsFiniteSet(S \cap Out)
      /\ Cardinality(S \ Out) = Cardinality(S) - Cardinality(S \cap Out)
    BY <1>0, FS_Difference, FS_Intersection
<1>2. /\ Cardinality(S) \in Nat /\ Cardinality(S \cap Out) \in Nat /\ Cardinality(In) \in Nat
      /\ Cardinality(S \ Out) \in Nat
    BY <1>0, <1>1, FS_CardinalityType
<1>3. Cardinality((S \ Out) \cup In) = Cardinality(S \ Out) + Cardinality(In) - Cardinality((S \ Out) \cap In)
    BY <1>0, <1>1, FS_Union
<1>4. Cardinality({}) = 0
    BY FS_EmptySet
<1>5. Cardinality((S \ Out) \cap In) = 0
    BY <1>0, <1>4
<1>6. Cardinality(T) = Cardinality(S \ Out) + Cardinality(In)
    <2>1. Cardinality(T) = Cardinality(S \ Out) + Cardinality(In) - 0
        BY <1>0, <1>3, <1>5
    <2> QED BY <1>2, <2>1
<1> QED BY <1>1, <1>6

LEMMA Recounted ==
    ASSUME slots \in Seq(SlotRows), slots' \in Seq(SlotRows), wanted = Count(LiveSlots),
           NEW Out, NEW In,
           \A l \in Lessons : /\ Teaching(l)' = (Teaching(l) \ Out) \cup In[l]
                              /\ IsFiniteSet(In[l]) /\ In[l] \cap (Teaching(l) \ Out) = {},
           wanted' = [l \in Lessons |-> wanted[l] - Cardinality(Teaching(l) \cap Out) + Cardinality(In[l])]
    PROVE  wanted' = Count(LiveSlots)'
<1>1. \A l \in Lessons : wanted[l] = Cardinality(Teaching(l))
    BY DEF Count, Teaching
<1>2. Count(LiveSlots)' = [l \in Lessons |-> Cardinality(Teaching(l)')]
    BY DEF Count, Teaching
<1>3. ASSUME NEW l \in Lessons
      PROVE  Cardinality(Teaching(l)') = wanted[l] - Cardinality(Teaching(l) \cap Out) + Cardinality(In[l])
    <2>1. PICK S : S = Teaching(l)
        OBVIOUS
    <2>2. PICK New : New = In[l]
        OBVIOUS
    <2>3. PICK T : T = (S \ Out) \cup New
        OBVIOUS
    <2>4. Replaces(S, Out, New, T)
        <3>1. IsFiniteSet(S) /\ IsFiniteSet(New) /\ New \cap (S \ Out) = {}
            BY <2>1, <2>2, TeachingFacts
        <3> QED BY <2>3, <3>1 DEF Replaces
    <2>5. Cardinality(T) = Cardinality(S) - Cardinality(S \cap Out) + Cardinality(New)
        BY <2>4, Recount
    <2>6. Teaching(l)' = T /\ wanted[l] = Cardinality(S)
        BY <1>1, <2>1, <2>2, <2>3
    <2> QED BY <2>1, <2>2, <2>5, <2>6
<1>4. wanted' = [l \in Lessons |-> Cardinality(Teaching(l)')]
    BY <1>3
<1> QED BY <1>2, <1>4

LEMMA SlotsInitial == HandlersInit /\ TimetableInit => SlotsInv
<1> SUFFICES ASSUME HandlersInit, TimetableInit PROVE SlotsInv
    OBVIOUS
<1>1. SlotRequests /\ Lone /\ \A q \in Procs : pc[q] = "idle"
    BY HandlersInitType DEF SlotRequests, HandlersInit
<1>2. slots \in Seq(SlotRows) /\ Slots = {}
    BY DEF TimetableInit, Slots
<1>3. \A l : {i \in LiveSlots : slots[i].lesson = l} = {}
    BY <1>2 DEF LiveSlots
<1>4. wanted = Count(LiveSlots)
    <2>1. Cardinality({}) = 0
        BY FS_EmptySet
    <2> QED BY <1>3, <2>1 DEF TimetableInit, Count
<1>5. DraftTold
    BY DEF DraftTold, TimetableInit
<1>6. \A q \in Procs : SlotJob(q) /\ SwapKnown(q) /\ DraftKnown(q)
    BY <1>1 DEF SlotJob, SwapKnown, DraftKnown
<1> QED BY <1>1, <1>2, <1>4, <1>5, <1>6 DEF SlotsInv, SlotsInTurn

(* A step of p.                                                               *)
LEMMA SlotsMove ==
    ASSUME SlotsInv, SlotRequests', Lone', NEW p \in Procs, OthersStay(p), overlapped => overlapped',
           pc'[p] # "idle" \/ (pc[p] # "idle" /\ overlapped' = overlapped),
           slots' \in Seq(SlotRows), Slots \subseteq Slots', SlotJob(p)',
           ~overlapped' => /\ wanted' = Count(LiveSlots)' /\ DraftTold'
                           /\ SwapKnown(p)' /\ DraftKnown(p)'
    PROVE  SlotsInv'
<1>1. ASSUME NEW q \in Procs, q # p PROVE SlotJob(q)'
    BY <1>1 DEF SlotsInv, SlotJob, OthersStay
<1>2. ASSUME ~overlapped', NEW q \in Procs, q # p PROVE SwapKnown(q)' /\ DraftKnown(q)'
    <2>1. pc'[q] = "idle"
        BY <1>2 DEF SlotsInv, Lone, OthersStay
    <2> QED BY <2>1 DEF SwapKnown, DraftKnown
<1>3. SlotsInTurn'
    BY <1>2 DEF SlotsInTurn
<1> QED BY <1>1, <1>3 DEF SlotsInv

LEMMA SlotsFacts ==
    ASSUME SlotsInv
    PROVE  /\ HandlersTypeOK(TimetableStages, TimetableJobs) /\ Lone /\ "idle" \notin TimetableStages
           /\ slots \in Seq(SlotRows)
           /\ SlotJobs \subseteq TimetableJobs /\ UnslotJobs \subseteq TimetableJobs
           /\ SwapJobs \subseteq TimetableJobs /\ DraftJobs \subseteq TimetableJobs
           /\ \A l : IsFiniteSet(Teaching(l)) /\ Cardinality(Teaching(l)) \in Nat
           /\ ~overlapped => wanted = Count(LiveSlots) /\ DraftTold
BY TeachingFacts DEF SlotsInv, SlotsInTurn, SlotRequests, TimetableStages, TimetableJobs, SlotJobs, UnslotJobs,
   SwapJobs, DraftJobs

(* The slots stay.                                                            *)
LEMMA SlotsQuiet ==
    ASSUME SlotsInv, UNCHANGED timetableVars, SlotRequests', Lone', NEW p \in Procs, OthersStay(p),
           overlapped => overlapped',
           pc'[p] # "idle" \/ (pc[p] # "idle" /\ overlapped' = overlapped),
           SlotJob(p)', ~overlapped' => SwapKnown(p)' /\ DraftKnown(p)'
    PROVE  SlotsInv'
<1>1. slots' = slots /\ wanted' = wanted /\ told' = told
    BY DEF timetableVars
<1>2. Slots' = Slots /\ LiveSlots' = LiveSlots /\ Count(LiveSlots)' = Count(LiveSlots)
    BY <1>1 DEF Slots, LiveSlots, Count
<1>3. DraftTold' <=> DraftTold
    BY <1>1, <1>2 DEF DraftTold, Taught, At
<1>4. ~overlapped' => wanted' = Count(LiveSlots)' /\ DraftTold'
    BY <1>1, <1>2, <1>3, SlotsFacts
<1> QED BY <1>1, <1>2, <1>4, SlotsFacts, SlotsMove

LEMMA SlotReadsStep ==
    ASSUME SlotsInv, NEW p \in Procs,
           \/ \E h \in Hours, l \in Lessons :
                \/ AddSlot(p, h, l)
                \/ \E i \in Slots : EditSlot(p, i, h, l)
           \/ \E draft \in Drafts, replace \in BOOLEAN : SaveDraft(p, draft, replace)
           \/ \E i, j \in LiveSlots : SwapRead(p, i, j)
           \/ \E i \in LiveSlots : RemoveSlotRead(p, i)
    PROVE  SlotsInv'
<1>1. ASSUME NEW j \in TimetableJobs, NEW stage \in TimetableStages, Begin(p, j, stage), UNCHANGED timetableVars,
             stage = "slot_write" => j \in SlotJobs /\ j.slot \in {0} \cup Slots,
             stage = "unslot_write" => j \in UnslotJobs /\ j.slot \in Slots,
             stage = "swap_write" =>
                 /\ j \in SwapJobs /\ {j.slot, j.other} \subseteq LiveSlots /\ j.slot # j.other
                 /\ slots[j.slot].lesson = j.lesson /\ slots[j.other].lesson = j.others,
             stage \in {"draft_replace", "draft_create"} =>
                 /\ j \in DraftJobs /\ j.left = DOMAIN j.draft /\ j.used = Used /\ j.missed = {} /\ j.saved = 0
                 /\ j.replace => stage = "draft_replace"
      PROVE  SlotsInv'
    <2>1. /\ SlotRequests' /\ Lone' /\ pc'[p] = stage /\ job'[p] = j /\ OthersStay(p)
          /\ stage # "idle" /\ (overlapped => overlapped')
        BY <1>1, SlotsFacts, BeginStep DEF SlotRequests
    <2>2. slots' = slots /\ Slots' = Slots /\ LiveSlots' = LiveSlots /\ Used' = Used
        BY <1>1 DEF timetableVars, Slots, LiveSlots, Used
    <2>3. SlotJob(p)'
        <3>1. LiveSlots \subseteq Slots
            BY DEF LiveSlots
        <3> QED BY <1>1, <2>1, <2>2, <3>1 DEF SlotJob
    <2>4. SwapKnown(p)'
        BY <1>1, <2>1, <2>2 DEF SwapKnown
    <2>5. DraftKnown(p)'
        <3> SUFFICES ASSUME stage \in {"draft_replace", "draft_create"}, j.replace PROVE DraftKnown(p)'
            BY <2>1 DEF DraftKnown
        <3>1. Behind(p)' = {} /\ {} \ (j.used \cup j.missed) = {} /\ Cardinality({}) = 0
            BY <1>1, <2>1, FS_EmptySet DEF Behind
        <3>2. /\ Used' = j.used \cup (Behind(p)' \ j.missed)
              /\ Cardinality(Behind(p)' \ (j.used \cup j.missed)) = 0
            BY <1>1, <2>2, <3>1
        <3>3. stage = "draft_replace" /\ j.left = DOMAIN j.draft /\ j.saved = 0 /\ j.missed = {}
            BY <1>1
        <3> QED BY <2>1, <3>2, <3>3 DEF DraftKnown
    <2> QED BY <1>1, <2>1, <2>3, <2>4, <2>5, SlotsQuiet
<1>2. ASSUME NEW h \in Hours, NEW l \in Lessons, NEW i \in {0} \cup Slots,
             Begin(p, [op |-> "slot", slot |-> i, hour |-> h, lesson |-> l], "slot_write"),
             UNCHANGED timetableVars
      PROVE  SlotsInv'
    <2>1. i \in Nat /\ i \in {0} \cup Slots
        BY SlotsFacts, SlotFacts
    <2>2. [op |-> "slot", slot |-> i, hour |-> h, lesson |-> l] \in SlotJobs /\ "slot_write" \in TimetableStages
        BY <2>1 DEF SlotJobs, TimetableStages
    <2> DEFINE j == [op |-> "slot", slot |-> i, hour |-> h, lesson |-> l]
    <2>3. j \in SlotJobs /\ j.slot = i /\ Begin(p, j, "slot_write")
        BY <1>2, <2>2
    <2> HIDE DEF j
    <2> QED BY <1>1, <1>2, <2>1, <2>2, <2>3, SlotsFacts
<1>3. ASSUME NEW i \in LiveSlots, RemoveSlotRead(p, i) PROVE SlotsInv'
    <2> DEFINE j == [op |-> "unslot", slot |-> i]
    <2>1. i \in Nat /\ i \in Slots
        BY SlotsFacts, SlotFacts
    <2>2. /\ j \in UnslotJobs /\ j.slot = i /\ Begin(p, j, "unslot_write") /\ UNCHANGED timetableVars
          /\ "unslot_write" \in TimetableStages
        BY <1>3, <2>1 DEF RemoveSlotRead, UnslotJobs, TimetableStages
    <2> HIDE DEF j
    <2> QED BY <1>1, <2>1, <2>2, SlotsFacts
<1>4. ASSUME NEW i \in LiveSlots, NEW k \in LiveSlots, SwapRead(p, i, k) PROVE SlotsInv'
    <2> DEFINE j == [op |-> "swap", slot |-> i, other |-> k,
                     lesson |-> slots[i].lesson, others |-> slots[k].lesson]
    <2>1. i \in Nat /\ k \in Nat /\ slots[i] \in SlotRows /\ slots[k] \in SlotRows
        BY SlotsFacts, SlotFacts
    <2>2. /\ j \in SwapJobs /\ j.slot = i /\ j.other = k /\ i # k
          /\ j.lesson = slots[i].lesson /\ j.others = slots[k].lesson
          /\ Begin(p, j, "swap_write") /\ UNCHANGED timetableVars
          /\ "swap_write" \in TimetableStages
        BY <1>4, <2>1 DEF SwapRead, SwapJobs, SlotRows, TimetableStages
    <2> HIDE DEF j
    <2> QED BY <1>1, <2>2, SlotsFacts
<1>5. ASSUME NEW draft \in Drafts, NEW replace \in BOOLEAN, SaveDraft(p, draft, replace) PROVE SlotsInv'
    <2> DEFINE j == [op |-> "draft", draft |-> draft, left |-> DOMAIN draft, used |-> Used,
                     missed |-> {}, replace |-> replace, saved |-> 0]
    <2>1. Used \subseteq Hours /\ DOMAIN draft \subseteq Hours
        <3>1. Used \subseteq Hours
            BY SlotsFacts, SlotFacts DEF Used, SlotRows
        <3> QED BY <3>1, TimetableAssumptions DEF TimetableAssumptions
    <2>2. PICK stage \in {"draft_replace", "draft_create"} :
              Begin(p, j, stage) /\ (replace => stage = "draft_replace") /\ UNCHANGED timetableVars
        BY <1>5 DEF SaveDraft
    <2>3. /\ j \in DraftJobs /\ j.left = DOMAIN j.draft /\ j.used = Used /\ j.missed = {} /\ j.saved = 0
          /\ j.replace = replace /\ stage \in TimetableStages
        BY <2>1 DEF DraftJobs, TimetableStages
    <2> HIDE DEF j
    <2> QED BY <1>1, <2>2, <2>3, SlotsFacts
<1> QED BY <1>2, <1>3, <1>4, <1>5 DEF AddSlot, EditSlot

(* A slot is added at the end.                                                *)
LEMMA SlotAdded ==
    ASSUME slots \in Seq(SlotRows), NEW h \in Hours, NEW l \in Lessons,
           slots' = Append(slots, [hour |-> h, lesson |-> l, live |-> TRUE])
    PROVE  /\ slots' \in Seq(SlotRows) /\ Slots \subseteq Slots'
           /\ \E n : /\ n \notin Slots
                     /\ \A m : Teaching(m)' = Teaching(m) \cup (IF m = l THEN {n} ELSE {})
           /\ Used' = Used \cup {h}
           /\ \A k : Taught(k)' <=> Taught(k) \/ k = h
<1> DEFINE row == [hour |-> h, lesson |-> l, live |-> TRUE]
<1>1. row \in SlotRows /\ row.hour = h /\ row.lesson = l /\ row.live
    BY DEF SlotRows
<1> HIDE DEF row
<1>2. slots' = Append(slots, row)
    BY DEF row
<1>3. /\ slots' \in Seq(SlotRows) /\ Len(slots') = Len(slots) + 1
      /\ \A i \in 1..Len(slots) : slots'[i] = slots[i]
      /\ slots'[Len(slots) + 1] = row
    BY <1>1, <1>2, AppendProperties
<1>4. PICK n : n = Len(slots) + 1
    OBVIOUS
<1>5. Len(slots) \in Nat /\ Slots = 1..Len(slots) /\ Slots' = 1..(Len(slots) + 1)
    BY <1>3, LenProperties DEF Slots
<1>6. n \notin Slots /\ Slots' = Slots \cup {n}
    BY <1>4, <1>5
<1>7. \A i \in Slots : slots'[i] = slots[i]
    BY <1>3, <1>5
<1>8. slots'[n] = row
    BY <1>3, <1>4
<1>9. LiveSlots' = LiveSlots \cup {n}
    BY <1>1, <1>6, <1>7, <1>8 DEF LiveSlots
<1>10. \A m : Teaching(m)' = Teaching(m) \cup (IF m = l THEN {n} ELSE {})
    <2> SUFFICES ASSUME NEW m PROVE Teaching(m)' = Teaching(m) \cup (IF m = l THEN {n} ELSE {})
        OBVIOUS
    <2>1. \A i \in LiveSlots : i # n /\ slots'[i] = slots[i]
        BY <1>6, <1>7 DEF LiveSlots
    <2>2. Teaching(m)' = {i \in LiveSlots \cup {n} : slots'[i].lesson = m}
        BY <1>9 DEF Teaching
    <2>3. slots'[n].lesson = m <=> m = l
        BY <1>1, <1>8
    <2>4. Teaching(m) = {i \in LiveSlots : slots'[i].lesson = m}
        BY <2>1 DEF Teaching
    <2>5. CASE m = l
        BY <2>2, <2>3, <2>4, <2>5
    <2>6. CASE m # l
        BY <2>1, <2>2, <2>3, <2>4, <2>6
    <2> QED BY <2>5, <2>6
<1>11. Used' = Used \cup {h}
    <2>1. \A k : k \in Used <=> \E i \in Slots : slots[i].hour = k
        BY DEF Used
    <2>2. \A k : k \in Used' <=> \E i \in Slots' : slots'[i].hour = k
        BY DEF Used
    <2>3. \A k : k \in Used <=> \E i \in Slots : slots'[i].hour = k
        BY <1>7, <2>1
    <2>4. slots'[n].hour = h
        BY <1>1, <1>8
    <2>5. \A k : k \in Used' <=> k \in Used \/ k = h
        BY <1>6, <2>2, <2>3, <2>4, ZenonT(60)
    <2> QED BY <2>5
<1>12. ASSUME NEW k PROVE Taught(k)' <=> Taught(k) \/ k = h
    <2>1. Taught(k) <=> \E i \in LiveSlots : slots[i].hour = k
        BY DEF Taught, At, LiveSlots
    <2>2. Taught(k)' <=> \E i \in LiveSlots' : slots'[i].hour = k
        BY DEF Taught, At, LiveSlots
    <2>3. \A i \in LiveSlots : slots'[i] = slots[i]
        BY <1>7 DEF LiveSlots
    <2>4. Taught(k) <=> \E i \in LiveSlots : slots'[i].hour = k
        BY <2>1, <2>3
    <2>5. slots'[n].hour = h
        BY <1>1, <1>8
    <2> QED BY <1>9, <2>2, <2>4, <2>5
<1> QED BY <1>3, <1>6, <1>10, <1>11, <1>12

(* A request that writes a slot ends with it.                                 *)
LEMMA SlotsEnd ==
    ASSUME SlotsInv, NEW p \in Procs, pc[p] # "idle", Finish(p) \/ Dies(p),
           slots' \in Seq(SlotRows), Slots \subseteq Slots',
           ~overlapped => wanted' = Count(LiveSlots)' /\ DraftTold'
    PROVE  SlotsInv'
<1>1. /\ SlotRequests' /\ Lone' /\ pc'[p] = "idle" /\ OthersStay(p) /\ overlapped' = overlapped
    BY SlotsFacts, FinishStep DEF SlotRequests
<1>2. SlotJob(p)' /\ SwapKnown(p)' /\ DraftKnown(p)'
    BY <1>1 DEF SlotJob, SwapKnown, DraftKnown
<1> QED BY <1>1, <1>2, SlotsMove

LEMMA SlotsUntouched ==
    ASSUME SlotsInv, NEW p \in Procs, pc[p] # "idle", Finish(p) \/ Dies(p), UNCHANGED timetableVars
    PROVE  SlotsInv'
<1>1. slots' = slots /\ wanted' = wanted /\ told' = told
    BY DEF timetableVars
<1>2. Slots' = Slots /\ LiveSlots' = LiveSlots /\ Count(LiveSlots)' = Count(LiveSlots)
    BY <1>1 DEF Slots, LiveSlots, Count
<1>3. DraftTold' <=> DraftTold
    BY <1>1, <1>2 DEF DraftTold, Taught, At
<1> QED BY <1>1, <1>2, <1>3, SlotsFacts, SlotsEnd

(* What a set of slots amounts to.                                            *)
LEMMA CountOf ==
    ASSUME NEW X, NEW l \in Lessons
    PROVE  Count(X \cap LiveSlots)[l] = Cardinality(Teaching(l) \cap X)
<1>1. {i \in X \cap LiveSlots : slots[i].lesson = l} = Teaching(l) \cap X
    BY DEF Teaching
<1> QED BY <1>1 DEF Count

LEMMA WriteSlotStep ==
    ASSUME SlotsInv, NEW p \in Procs, WriteSlot(p)
    PROVE  SlotsInv'
<1>1. /\ pc[p] = "slot_write" /\ pc[p] # "idle" /\ Finish(p)
      /\ job[p] \in SlotJobs /\ job[p].slot \in {0} \cup Slots
    BY DEF WriteSlot, SlotsInv, SlotJob
<1>2. PICK i \in {0} \cup Slots, h \in Hours, l \in Lessons :
          i = job[p].slot /\ h = job[p].hour /\ l = job[p].lesson
    BY <1>1 DEF SlotJobs
<1>3. CASE UNCHANGED timetableVars
    BY <1>1, <1>3, SlotsUntouched
<1>4. CASE /\ slots' = IF i = 0 THEN Append(slots, [hour |-> h, lesson |-> l, live |-> TRUE])
                       ELSE [slots EXCEPT ![i].hour = h, ![i].lesson = l]
           /\ Want([m \in Lessons |-> wanted[m] - Count({i} \cap LiveSlots)[m]
                                       + (IF m = l /\ (i = 0 \/ i \in LiveSlots) THEN 1 ELSE 0)])
           /\ told' = NoDraft
    <2>1. DraftTold'
        BY <1>4 DEF DraftTold
    <2>2. Cardinality({}) = 0 /\ IsFiniteSet({}) /\ \A x : Cardinality({x}) = 1 /\ IsFiniteSet({x})
        BY FS_EmptySet, FS_Singleton
    <2>3. ASSUME ~overlapped
          PROVE  wanted' = [m \in Lessons |-> wanted[m] - Cardinality(Teaching(m) \cap {i})
                                                + (IF m = l /\ (i = 0 \/ i \in LiveSlots) THEN 1 ELSE 0)]
        <3>1. \A m \in Lessons : Count({i} \cap LiveSlots)[m] = Cardinality(Teaching(m) \cap {i})
            BY CountOf
        <3> QED BY <1>4, <2>3, <3>1 DEF Want
    <2>4. CASE i = 0
        <3>1. /\ slots' \in Seq(SlotRows) /\ Slots \subseteq Slots'
              /\ \E n : /\ n \notin Slots
                        /\ \A m : Teaching(m)' = Teaching(m) \cup (IF m = l THEN {n} ELSE {})
            BY <1>4, <2>4, SlotsFacts, SlotAdded
        <3>2. PICK n : /\ n \notin Slots
                       /\ \A m : Teaching(m)' = Teaching(m) \cup (IF m = l THEN {n} ELSE {})
            BY <3>1
        <3> DEFINE In == [m \in Lessons |-> IF m = l THEN {n} ELSE {}]
        <3>3. ASSUME NEW m \in Lessons
              PROVE  /\ Teaching(m)' = (Teaching(m) \ {i}) \cup In[m]
                     /\ IsFiniteSet(In[m]) /\ In[m] \cap (Teaching(m) \ {i}) = {}
                     /\ Cardinality(In[m]) = IF m = l /\ (i = 0 \/ i \in LiveSlots) THEN 1 ELSE 0
            <4>1. Teaching(m) \subseteq Slots /\ 0 \notin Slots
                BY SlotsFacts, SlotFacts, TeachingFacts
            <4> QED BY <2>2, <2>4, <3>2, <4>1
        <3> HIDE DEF In
        <3>4. ASSUME ~overlapped PROVE wanted' = Count(LiveSlots)'
            <4>1. wanted' = [m \in Lessons |->
                               wanted[m] - Cardinality(Teaching(m) \cap {i}) + Cardinality(In[m])]
                BY <2>3, <3>3, <3>4
            <4> QED BY <3>1, <3>3, <3>4, <4>1, SlotsFacts, Recounted
        <3> QED BY <1>1, <2>1, <3>1, <3>4, SlotsEnd
    <2>5. CASE i # 0
        <3>1. i \in Slots /\ slots \in [Slots -> SlotRows]
            BY <2>5, SlotsFacts, SlotFacts
        <3>2. slots' = [slots EXCEPT ![i] = [slots[i] EXCEPT !.hour = h, !.lesson = l]]
            BY <1>4, <2>5, <3>1
        <3>3. [slots[i] EXCEPT !.hour = h, !.lesson = l] \in SlotRows
            BY <3>1 DEF SlotRows
        <3>4. slots' \in Seq(SlotRows) /\ Slots' = Slots
            BY <3>1, <3>2, <3>3, SlotsFacts DEF Slots
        <3>5. /\ slots'[i].lesson = l /\ slots'[i].live = slots[i].live
              /\ \A k \in Slots : k # i => slots'[k] = slots[k]
            BY <3>1, <3>2 DEF SlotRows
        <3>6. LiveSlots' = LiveSlots
            BY <3>1, <3>4, <3>5 DEF LiveSlots
        <3> DEFINE In == [m \in Lessons |-> IF m = l /\ i \in LiveSlots THEN {i} ELSE {}]
        <3>7. ASSUME NEW m \in Lessons
              PROVE  /\ Teaching(m)' = (Teaching(m) \ {i}) \cup In[m]
                     /\ IsFiniteSet(In[m]) /\ In[m] \cap (Teaching(m) \ {i}) = {}
                     /\ Cardinality(In[m]) = IF m = l /\ (i = 0 \/ i \in LiveSlots) THEN 1 ELSE 0
            <4>1. LiveSlots \subseteq Slots
                BY DEF LiveSlots
            <4>2. Teaching(m)' = (Teaching(m) \ {i}) \cup In[m]
                BY <3>1, <3>5, <3>6, <4>1 DEF Teaching
            <4>3. Cardinality(In[m]) = IF m = l /\ (i = 0 \/ i \in LiveSlots) THEN 1 ELSE 0
                BY <2>2, <2>5
            <4> QED BY <2>2, <4>2, <4>3
        <3> HIDE DEF In
        <3>8. ASSUME ~overlapped PROVE wanted' = Count(LiveSlots)'
            <4>1. wanted' = [m \in Lessons |->
                               wanted[m] - Cardinality(Teaching(m) \cap {i}) + Cardinality(In[m])]
                BY <2>3, <3>7, <3>8
            <4> QED BY <3>4, <3>7, <3>8, <4>1, SlotsFacts, Recounted
        <3> QED BY <1>1, <2>1, <3>4, <3>8, SlotsEnd
    <2> QED BY <2>4, <2>5
<1> QED BY <1>2, <1>3, <1>4 DEF WriteSlot

LEMMA RemoveSlotWriteStep ==
    ASSUME SlotsInv, NEW p \in Procs, RemoveSlotWrite(p)
    PROVE  SlotsInv'
<1>1. /\ pc[p] = "unslot_write" /\ pc[p] # "idle" /\ Finish(p) /\ job[p].slot \in Slots
    BY DEF RemoveSlotWrite, SlotsInv, SlotJob
<1>2. PICK i \in Slots : i = job[p].slot
    BY <1>1
<1>3. /\ slots' = [slots EXCEPT ![i].live = FALSE] /\ told' = NoDraft
      /\ Want([l \in Lessons |-> wanted[l] - Count({i} \cap LiveSlots)[l]])
    BY <1>2 DEF RemoveSlotWrite
<1>4. slots \in [Slots -> SlotRows]
    BY SlotsFacts, SlotFacts
<1>5. slots' = [slots EXCEPT ![i] = [slots[i] EXCEPT !.live = FALSE]]
    BY <1>3, <1>4
<1>6. [slots[i] EXCEPT !.live = FALSE] \in SlotRows
    BY <1>4 DEF SlotRows
<1>7. slots' \in Seq(SlotRows) /\ Slots' = Slots
    BY <1>4, <1>5, <1>6, SlotsFacts DEF Slots
<1>8. ~slots'[i].live /\ \A k \in Slots : k # i => slots'[k] = slots[k]
    BY <1>4, <1>5 DEF SlotRows
<1>9. LiveSlots' = LiveSlots \ {i}
    BY <1>7, <1>8 DEF LiveSlots
<1>10. \A l : Teaching(l)' = Teaching(l) \ {i}
    <2>1. LiveSlots \subseteq Slots
        BY DEF LiveSlots
    <2> QED BY <1>8, <1>9, <2>1 DEF Teaching
<1> DEFINE In == [l \in Lessons |-> {}]
<1>11. \A l \in Lessons : /\ Teaching(l)' = (Teaching(l) \ {i}) \cup In[l]
                          /\ IsFiniteSet(In[l]) /\ In[l] \cap (Teaching(l) \ {i}) = {}
                          /\ Cardinality(In[l]) = 0
    BY <1>10, FS_EmptySet
<1> HIDE DEF In
<1>12. ASSUME ~overlapped PROVE wanted' = Count(LiveSlots)'
    <2>1. \A l \in Lessons : Count({i} \cap LiveSlots)[l] = Cardinality(Teaching(l) \cap {i})
        BY CountOf
    <2>2. ASSUME NEW l \in Lessons
          PROVE  wanted[l] - Cardinality(Teaching(l) \cap {i})
                   = wanted[l] - Cardinality(Teaching(l) \cap {i}) + Cardinality(In[l])
        <3>1. wanted[l] = Cardinality(Teaching(l))
            BY <1>12, SlotsFacts DEF Count, Teaching
        <3>2. IsFiniteSet(Teaching(l)) /\ IsFiniteSet(Teaching(l) \cap {i})
            BY SlotsFacts, FS_Intersection
        <3>3. wanted[l] \in Int /\ Cardinality(Teaching(l) \cap {i}) \in Int /\ Cardinality(In[l]) = 0
            BY <1>11, <3>1, <3>2, FS_CardinalityType
        <3>4. \A a, b \in Int : a - b = (a - b) + 0
            OBVIOUS
        <3> QED BY <3>3, <3>4
    <2>3. wanted' = [l \in Lessons |->
                       wanted[l] - Cardinality(Teaching(l) \cap {i}) + Cardinality(In[l])]
        BY <1>3, <1>12, <2>1, <2>2 DEF Want
    <2> QED BY <1>7, <1>11, <1>12, <2>3, SlotsFacts, Recounted
<1>13. DraftTold'
    BY <1>3 DEF DraftTold
<1> QED BY <1>1, <1>7, <1>12, <1>13, SlotsEnd

(* One element for another.                                                   *)
LEMMA Exchanged ==
    ASSUME NEW S, IsFiniteSet(S), NEW x \in S, NEW y, y \notin S
    PROVE  Cardinality((S \ {x}) \cup {y}) = Cardinality(S)
<1>1. IsFiniteSet(S \ {x}) /\ Cardinality(S \ {x}) = Cardinality(S) - 1
    BY FS_RemoveElement
<1>2. Cardinality((S \ {x}) \cup {y}) = Cardinality(S \ {x}) + 1
    BY <1>1, FS_AddElement
<1>3. Cardinality(S) \in Nat
    BY FS_CardinalityType
<1> QED BY <1>1, <1>2, <1>3

(* In turn the two slots have the lessons that were read, and exchange them.  *)
LEMMA SwapWriteStep ==
    ASSUME SlotsInv, NEW p \in Procs, SwapWrite(p)
    PROVE  SlotsInv'
<1>1. /\ pc[p] = "swap_write" /\ pc[p] # "idle" /\ Finish(p) /\ job[p] \in SwapJobs
      /\ job[p].slot \in Slots /\ job[p].other \in Slots
      /\ slots' = Swapped(p) /\ told' = NoDraft /\ wanted' = wanted
    BY DEF SwapWrite, SlotsInv, SlotJob
<1>2. PICK i \in Slots : i = job[p].slot
    BY <1>1
<1>3. PICK k \in Slots : k = job[p].other
    BY <1>1
<1>4. PICK a \in Lessons : a = job[p].lesson
    BY <1>1 DEF SwapJobs
<1>5. PICK b \in Lessons : b = job[p].others
    BY <1>1 DEF SwapJobs
<1>6. slots' = [slots EXCEPT ![i].lesson = b, ![k].lesson = a]
    BY <1>1, <1>2, <1>3, <1>4, <1>5 DEF Swapped
<1>7. slots \in [Slots -> SlotRows]
    BY SlotsFacts, SlotFacts
<1>8. /\ slots' \in [Slots -> SlotRows] /\ slots'[k].lesson = a /\ slots'[k].live = slots[k].live
      /\ k # i => slots'[i].lesson = b /\ slots'[i].live = slots[i].live
      /\ \A n \in Slots : n \notin {i, k} => slots'[n] = slots[n]
    BY <1>6, <1>7 DEF SlotRows
<1>9. slots' \in Seq(SlotRows) /\ Slots' = Slots
    BY <1>7, <1>8, SlotsFacts, SlotFacts DEF Slots
<1>10. ASSUME ~overlapped PROVE wanted' = Count(LiveSlots)'
    <2>1. /\ i # k /\ {i, k} \subseteq LiveSlots /\ slots[i].lesson = a /\ slots[k].lesson = b
          /\ wanted = Count(LiveSlots)
        BY <1>1, <1>2, <1>3, <1>4, <1>5, <1>10 DEF SlotsInv, SlotsInTurn, SwapKnown
    <2>2. LiveSlots' = LiveSlots
        BY <1>8, <1>9, <2>1 DEF LiveSlots
    <2>3. ASSUME NEW l \in Lessons PROVE Cardinality(Teaching(l)') = Cardinality(Teaching(l))
        <3>1. LiveSlots \subseteq Slots
            BY DEF LiveSlots
        <3>2. CASE l = a /\ l = b
            <4>1. Teaching(l)' = Teaching(l)
                BY <1>8, <2>1, <2>2, <3>1, <3>2 DEF Teaching
            <4> QED BY <4>1
        <3>3. CASE l # a /\ l # b
            <4>1. Teaching(l)' = Teaching(l)
                BY <1>8, <2>1, <2>2, <3>1, <3>3 DEF Teaching
            <4> QED BY <4>1
        <3>4. CASE l = a /\ l # b
            <4>1. Teaching(l)' = (Teaching(l) \ {i}) \cup {k} /\ i \in Teaching(l) /\ k \notin Teaching(l)
                BY <1>8, <2>1, <2>2, <3>1, <3>4 DEF Teaching
            <4> QED BY <4>1, SlotsFacts, Exchanged
        <3>5. CASE l # a /\ l = b
            <4>1. Teaching(l)' = (Teaching(l) \ {k}) \cup {i} /\ k \in Teaching(l) /\ i \notin Teaching(l)
                BY <1>8, <2>1, <2>2, <3>1, <3>5 DEF Teaching
            <4> QED BY <4>1, SlotsFacts, Exchanged
        <3> QED BY <3>2, <3>3, <3>4, <3>5
    <2>4. /\ Count(LiveSlots) = [l \in Lessons |-> Cardinality(Teaching(l))]
          /\ Count(LiveSlots)' = [l \in Lessons |-> Cardinality(Teaching(l)')]
        BY DEF Count, Teaching
    <2> QED BY <1>1, <2>1, <2>3, <2>4
<1>11. DraftTold'
    BY <1>1 DEF DraftTold
<1> QED BY <1>1, <1>9, <1>10, <1>11, SlotsEnd

LEMMA DraftFacts ==
    ASSUME SlotsInv, NEW p \in Procs, pc[p] \in {"draft_replace", "draft_create"}
    PROVE  /\ pc[p] # "idle" /\ job[p] \in DraftJobs /\ job[p].left \subseteq DOMAIN job[p].draft
           /\ DOMAIN job[p].draft \subseteq Hours /\ IsFiniteSet(DOMAIN job[p].draft)
           /\ \A h \in DOMAIN job[p].draft : job[p].draft[h] \in Lessons
<1>1. job[p] \in DraftJobs /\ job[p].left \subseteq DOMAIN job[p].draft
    BY DEF SlotsInv, SlotJob
<1>2. job[p].draft \in Drafts
    BY <1>1 DEF DraftJobs
<1>3. /\ DOMAIN job[p].draft \subseteq Hours
      /\ job[p].draft \in [DOMAIN job[p].draft -> Lessons] /\ IsFiniteSet(Hours)
    BY <1>2, TimetableAssumptions DEF TimetableAssumptions
<1>4. IsFiniteSet(DOMAIN job[p].draft)
    BY <1>3, FS_Subset
<1> QED BY <1>1, <1>3, <1>4

(* Every slot of the draft's sections goes, so none is left at its hours.     *)
LEMMA DraftReplaceStep ==
    ASSUME SlotsInv, NEW p \in Procs, DraftReplace(p)
    PROVE  SlotsInv'
<1>1. /\ pc[p] = "draft_replace" /\ pc[p] # "idle" /\ GoTo(p, "draft_create")
      /\ job[p] \in DraftJobs /\ job[p].left \subseteq DOMAIN job[p].draft
      /\ told' = NoDraft /\ "draft_create" \in TimetableStages
    BY DraftFacts DEF DraftReplace, TimetableStages
<1>2. PICK R : R = Replaced(p)
    OBVIOUS
<1>3. R \subseteq LiveSlots /\ LiveSlots \subseteq Slots
    BY <1>2 DEF Replaced, LiveSlots
<1>4. /\ slots' = [i \in Slots |-> [slots[i] EXCEPT !.live = slots[i].live /\ i \notin R]]
      /\ Want([l \in Lessons |-> wanted[l] - Count(R)[l]])
    BY <1>2 DEF DraftReplace
<1>5. slots \in [Slots -> SlotRows] /\ Slots = 1..Len(slots) /\ Len(slots) \in Nat
    BY SlotsFacts, SlotFacts
<1>6. \A i \in Slots : /\ slots'[i] \in SlotRows /\ slots'[i].hour = slots[i].hour
                       /\ slots'[i].lesson = slots[i].lesson
                       /\ slots'[i].live = (slots[i].live /\ i \notin R)
    BY <1>4, <1>5 DEF SlotRows
<1>7. slots' \in [1..Len(slots) -> SlotRows]
    BY <1>4, <1>5, <1>6
<1>8. slots' \in Seq(SlotRows) /\ Slots' = Slots
    BY <1>5, <1>7 DEF Slots
<1>9. LiveSlots' = LiveSlots \ R
    BY <1>6, <1>8 DEF LiveSlots
<1>10. \A l : Teaching(l)' = Teaching(l) \ R
    BY <1>3, <1>6, <1>9 DEF Teaching
<1>11. Used' = Used
    <2>1. \A k : k \in Used' <=> \E i \in Slots : slots'[i].hour = k
        BY <1>8 DEF Used
    <2>2. \A k : k \in Used <=> \E i \in Slots : slots[i].hour = k
        BY DEF Used
    <2>3. \A k : k \in Used' <=> k \in Used
        BY <1>6, <2>1, <2>2
    <2> QED BY <2>3
<1>12. /\ SlotRequests' /\ Lone' /\ pc'[p] = "draft_create" /\ job' = job /\ OthersStay(p)
       /\ overlapped' = overlapped
    BY <1>1, SlotsFacts, GoToStep DEF SlotRequests
<1>13. SlotJob(p)' /\ SwapKnown(p)' /\ DraftTold'
    BY <1>1, <1>12 DEF SlotJob, SwapKnown, DraftTold
<1> DEFINE In == [l \in Lessons |-> {}]
<1>14. \A l \in Lessons : /\ Teaching(l)' = (Teaching(l) \ R) \cup In[l]
                          /\ IsFiniteSet(In[l]) /\ In[l] \cap (Teaching(l) \ R) = {}
                          /\ Cardinality(In[l]) = 0
    BY <1>10, FS_EmptySet
<1> HIDE DEF In
<1>15. ASSUME ~overlapped PROVE wanted' = Count(LiveSlots)'
    <2>1. ASSUME NEW l \in Lessons PROVE Count(R)[l] = Cardinality(Teaching(l) \cap R)
        <3>1. {i \in R : slots[i].lesson = l} = Teaching(l) \cap R
            BY <1>3 DEF Teaching
        <3> QED BY <3>1 DEF Count
    <2>2. ASSUME NEW l \in Lessons
          PROVE  wanted[l] - Cardinality(Teaching(l) \cap R)
                   = wanted[l] - Cardinality(Teaching(l) \cap R) + Cardinality(In[l])
        <3>1. wanted[l] = Cardinality(Teaching(l))
            BY <1>15, SlotsFacts DEF Count, Teaching
        <3>2. IsFiniteSet(Teaching(l)) /\ IsFiniteSet(Teaching(l) \cap R)
            BY SlotsFacts, FS_Intersection
        <3>3. wanted[l] \in Int /\ Cardinality(Teaching(l) \cap R) \in Int /\ Cardinality(In[l]) = 0
            BY <1>14, <3>1, <3>2, FS_CardinalityType
        <3>4. \A a, b \in Int : a - b = (a - b) + 0
            OBVIOUS
        <3> QED BY <3>3, <3>4
    <2>3. wanted' = [l \in Lessons |->
                       wanted[l] - Cardinality(Teaching(l) \cap R) + Cardinality(In[l])]
        BY <1>4, <1>15, <2>1, <2>2 DEF Want
    <2> QED BY <1>8, <1>14, <1>15, <2>3, SlotsFacts, Recounted
<1>16. ASSUME ~overlapped PROVE DraftKnown(p)'
    <2> SUFFICES ASSUME job[p].replace PROVE DraftKnown(p)'
        BY <1>12 DEF DraftKnown
    <2>1. /\ Used = job[p].used \cup (Behind(p) \ job[p].missed)
          /\ job[p].missed \subseteq Behind(p) \ job[p].used
          /\ job[p].saved = Cardinality(Behind(p) \ (job[p].used \cup job[p].missed))
          /\ job[p].left = DOMAIN job[p].draft
        BY <1>1, <1>16 DEF SlotsInv, SlotsInTurn, DraftKnown
    <2>2. Behind(p)' = Behind(p) /\ Behind(p) = {}
        BY <1>12, <2>1 DEF Behind
    <2>3. ASSUME NEW h \in DOMAIN job[p].draft PROVE ~Taught(h)'
        <3>1. ASSUME NEW i \in LiveSlots', slots'[i].hour = h PROVE FALSE
            <4>1. i \in LiveSlots /\ i \notin R /\ slots[i].hour = h
                BY <1>3, <1>6, <1>9, <3>1
            <4> QED BY <1>2, <4>1 DEF Replaced
        <3> QED BY <3>1 DEF Taught, At
    <2> QED BY <1>11, <1>12, <2>1, <2>2, <2>3 DEF DraftKnown
<1>17. Slots \subseteq Slots'
    BY <1>8
<1> QED BY <1>1, <1>8, <1>12, <1>13, <1>15, <1>16, <1>17, SlotsMove

(* A draft comes to the hour h: its slot is stored or not, and missed is what *)
(* it has missed by then.                                                     *)
DraftCreates(p, h, stores, missed) ==
    LET saved == job[p].saved + (IF stores THEN 1 ELSE 0) IN
    /\ slots' = IF stores THEN Append(slots, [hour |-> h, lesson |-> job[p].draft[h], live |-> TRUE])
                ELSE slots
    /\ Want(IF stores THEN [wanted EXCEPT ![job[p].draft[h]] = @ + 1] ELSE wanted)
    /\ IF job[p].left \ {h} = {}
       THEN /\ told' = IF job[p].replace /\ ~overlapped
                       THEN [hours |-> DOMAIN job[p].draft, used |-> job[p].used,
                             missed |-> missed, saved |-> saved]
                       ELSE NoDraft
            /\ Finish(p)
       ELSE /\ told' = NoDraft
            /\ Carry(p, [job[p] EXCEPT !.left = job[p].left \ {h}, !.missed = missed, !.saved = saved],
                     "draft_create")

(* What a draft has created grows by the hour h it comes to, if its slot is   *)
(* stored: then it has one taught there.                                      *)
LEMMA DraftCreated ==
    ASSUME SlotsInv, NEW p \in Procs, pc[p] = "draft_create", NEW h \in job[p].left, NEW stores \in BOOLEAN,
           NEW missed, missed = job[p].missed \cup (IF h \notin Used /\ ~stores THEN {h} ELSE {}),
           stores => h \notin Used, DraftCreates(p, h, stores, missed),
           slots' \in Seq(SlotRows), Slots \subseteq Slots', Used' = Used \cup (IF stores THEN {h} ELSE {}),
           \A k : Taught(k)' <=> Taught(k) \/ (k = h /\ stores),
           ~overlapped => wanted' = Count(LiveSlots)'
    PROVE  SlotsInv'
<1>1. /\ pc[p] # "idle" /\ job[p] \in DraftJobs /\ job[p].left \subseteq DOMAIN job[p].draft
      /\ DOMAIN job[p].draft \subseteq Hours /\ IsFiniteSet(DOMAIN job[p].draft)
    BY DraftFacts
<1>2. PICK D : D = DOMAIN job[p].draft
    OBVIOUS
<1>3. PICK left : left = job[p].left \ {h}
    OBVIOUS
<1>4. PICK used : used = job[p].used
    OBVIOUS
<1>5. PICK saved : saved = job[p].saved + (IF stores THEN 1 ELSE 0)
    OBVIOUS
<1>6. h \in D /\ left \subseteq D /\ IsFiniteSet(D) /\ saved \in Nat /\ missed \subseteq Hours
    BY <1>1, <1>2, <1>3, <1>5 DEF DraftJobs
<1>7. ASSUME ~overlapped, job[p].replace
      PROVE  /\ Used' = used \cup ((D \ left) \ missed) /\ missed \subseteq (D \ left) \ used
             /\ saved = Cardinality((D \ left) \ (used \cup missed))
             /\ \A k \in D : Taught(k)' <=> k \notin left \cup used \cup missed
    <2>1. PICK past : past = D \ job[p].left
        OBVIOUS
    <2>2. PICK before : before = job[p].missed
        OBVIOUS
    <2>3. /\ Used = used \cup (past \ before) /\ before \subseteq past \ used
          /\ job[p].saved = Cardinality(past \ (used \cup before))
          /\ \A k \in D : Taught(k) <=> k \notin job[p].left \cup used \cup before
        BY <1>2, <1>4, <1>7, <2>1, <2>2 DEF SlotsInv, SlotsInTurn, DraftKnown, Behind
    <2>4. /\ h \notin past /\ h \notin before /\ D \ left = past \cup {h}
          /\ (h \in Used <=> h \in used)
        BY <1>3, <1>6, <2>1, <2>3
    <2>5. missed = before \cup (IF h \notin used /\ ~stores THEN {h} ELSE {}) /\ (stores => h \notin used)
        BY <2>2, <2>4
    <2>6. Used' = used \cup ((D \ left) \ missed) /\ missed \subseteq (D \ left) \ used
        BY <2>3, <2>4, <2>5
    <2>7. saved = Cardinality((D \ left) \ (used \cup missed))
        <3>1. IsFiniteSet(past \ (used \cup before))
            BY <1>6, <2>1, FS_Subset
        <3>2. CASE stores
            <4>1. /\ (D \ left) \ (used \cup missed) = (past \ (used \cup before)) \cup {h}
                  /\ h \notin past \ (used \cup before)
                BY <2>4, <2>5, <3>2
            <4>2. Cardinality((past \ (used \cup before)) \cup {h}) = Cardinality(past \ (used \cup before)) + 1
                BY <3>1, <4>1, FS_AddElement
            <4> QED BY <1>5, <2>3, <3>2, <4>1, <4>2
        <3>3. CASE ~stores
            <4>1. (D \ left) \ (used \cup missed) = past \ (used \cup before)
                BY <2>4, <2>5, <3>3
            <4>2. job[p].saved \in Nat /\ saved = job[p].saved + 0
                BY <1>1, <1>5, <3>3 DEF DraftJobs
            <4>3. saved = job[p].saved
                BY <4>2
            <4> QED BY <2>3, <4>1, <4>3
        <3> QED BY <3>2, <3>3
    <2>8. ASSUME NEW k \in D PROVE Taught(k)' <=> k \notin left \cup used \cup missed
        <3>1. CASE k = h
            BY <1>3, <2>3, <2>4, <2>5, <3>1
        <3>2. CASE k # h
            BY <1>3, <2>3, <2>5, <3>2
        <3> QED BY <3>1, <3>2
    <2> QED BY <2>6, <2>7, <2>8
<1>8. CASE /\ left = {}
           /\ told' = IF job[p].replace /\ ~overlapped
                      THEN [hours |-> D, used |-> used, missed |-> missed, saved |-> saved] ELSE NoDraft
           /\ Finish(p)
    <2>1. ASSUME ~overlapped PROVE DraftTold'
        <3>1. CASE job[p].replace
            <4>1. told'.hours = D /\ told'.used = used /\ told'.missed = missed /\ told'.saved = saved
                BY <1>8, <2>1, <3>1
            <4>2. D \ left = D /\ \A k \in D : Taught(k)' <=> k \notin used \cup missed
                BY <1>7, <1>8, <2>1, <3>1
            <4>3. saved = Cardinality(D \ (used \cup missed))
                BY <1>7, <2>1, <3>1, <4>2
            <4> QED BY <4>1, <4>2, <4>3 DEF DraftTold
        <3>2. CASE ~job[p].replace
            BY <1>8, <3>2 DEF DraftTold
        <3> QED BY <3>1, <3>2
    <2> QED BY <1>1, <1>8, <2>1, SlotsEnd
<1>9. CASE /\ told' = NoDraft
           /\ Carry(p, [job[p] EXCEPT !.left = left, !.missed = missed, !.saved = saved], "draft_create")
    <2> DEFINE j == [job[p] EXCEPT !.left = left, !.missed = missed, !.saved = saved]
    <2>1. /\ j \in DraftJobs /\ j.left = left /\ j.missed = missed /\ j.saved = saved /\ j.draft = job[p].draft
          /\ j.used = job[p].used /\ j.replace = job[p].replace
        BY <1>1, <1>3, <1>6 DEF DraftJobs
    <2>2. Carry(p, j, "draft_create") /\ "draft_create" \in TimetableStages
        BY <1>9 DEF TimetableStages
    <2> HIDE DEF j
    <2>3. /\ SlotRequests' /\ Lone' /\ pc'[p] = "draft_create" /\ job'[p] = j /\ OthersStay(p)
          /\ overlapped' = overlapped
        BY <1>1, <2>1, <2>2, SlotsFacts, CarryStep DEF SlotRequests
    <2>4. SlotJob(p)' /\ SwapKnown(p)' /\ DraftTold'
        BY <1>2, <1>6, <1>9, <2>1, <2>3 DEF SlotJob, SwapKnown, DraftTold
    <2>5. ASSUME ~overlapped PROVE DraftKnown(p)'
        <3> SUFFICES ASSUME job[p].replace PROVE DraftKnown(p)'
            BY <2>1, <2>3 DEF DraftKnown
        <3>1. Behind(p)' = D \ left
            BY <1>2, <2>1, <2>3 DEF Behind
        <3>2. /\ Used' = used \cup (Behind(p)' \ missed) /\ missed \subseteq Behind(p)' \ used
              /\ saved = Cardinality(Behind(p)' \ (used \cup missed))
              /\ \A k \in D : Taught(k)' <=> k \notin left \cup used \cup missed
            BY <1>7, <2>5, <3>1
        <3> QED BY <1>2, <1>4, <2>1, <2>3, <3>2 DEF DraftKnown
    <2> QED BY <1>1, <2>3, <2>4, <2>5, SlotsMove
<1> QED BY <1>2, <1>3, <1>4, <1>5, <1>8, <1>9 DEF DraftCreates

LEMMA DraftCreateStep ==
    ASSUME SlotsInv, NEW p \in Procs, DraftCreate(p)
    PROVE  SlotsInv'
<1>1. /\ pc[p] = "draft_create" /\ pc[p] # "idle"
      /\ job[p] \in DraftJobs /\ job[p].left \subseteq DOMAIN job[p].draft
      /\ DOMAIN job[p].draft \subseteq Hours /\ IsFiniteSet(DOMAIN job[p].draft)
      /\ \A h \in DOMAIN job[p].draft : job[p].draft[h] \in Lessons
    BY DraftFacts DEF DraftCreate
<1>2. PICK h \in job[p].left, fails \in BOOLEAN :
          /\ DraftCreates(p, h, At({h}) = {} /\ ~fails, job[p].missed \cup (IF fails THEN {h} ELSE {}))
          /\ fails => At({h}) = {}
    BY Zenon DEF DraftCreate, DraftCreates
<1>3. PICK l \in Lessons : l = job[p].draft[h]
    BY <1>1, <1>2
<1>4. PICK stores \in BOOLEAN : stores = (At({h}) = {} /\ ~fails)
    OBVIOUS
<1>5. PICK missed : missed = job[p].missed \cup (IF fails THEN {h} ELSE {})
    OBVIOUS
<1>6. At({h}) = {} <=> h \notin Used
    BY DEF At, Used
<1>7. /\ missed = job[p].missed \cup (IF h \notin Used /\ ~stores THEN {h} ELSE {})
      /\ stores => h \notin Used
    BY <1>2, <1>4, <1>5, <1>6
<1>8. h \in Hours /\ DraftCreates(p, h, stores, missed)
    BY <1>1, <1>2, <1>4, <1>5
<1>9. CASE stores
    <2>1. slots' = Append(slots, [hour |-> h, lesson |-> l, live |-> TRUE])
        BY <1>3, <1>8, <1>9 DEF DraftCreates
    <2>2. /\ slots' \in Seq(SlotRows) /\ Slots \subseteq Slots'
          /\ \E n : /\ n \notin Slots
                    /\ \A m : Teaching(m)' = Teaching(m) \cup (IF m = l THEN {n} ELSE {})
          /\ Used' = Used \cup {h}
          /\ \A k : Taught(k)' <=> Taught(k) \/ k = h
        BY <1>8, <2>1, SlotsFacts, SlotAdded
    <2>3. ASSUME ~overlapped PROVE wanted' = Count(LiveSlots)'
        <3>1. PICK n : /\ n \notin Slots
                       /\ \A m : Teaching(m)' = Teaching(m) \cup (IF m = l THEN {n} ELSE {})
            BY <2>2
        <3>2. wanted' = [wanted EXCEPT ![l] = @ + 1]
            BY <1>3, <1>8, <1>9, <2>3 DEF Want, DraftCreates
        <3>3. wanted = [m \in Lessons |-> Cardinality(Teaching(m))]
            BY <2>3, SlotsFacts DEF Count, Teaching
        <3>4. ASSUME NEW m \in Lessons PROVE wanted'[m] = Cardinality(Teaching(m)')
            <4>1. CASE m = l
                <5>1. n \notin Teaching(l)
                    BY <3>1 DEF Teaching, LiveSlots
                <5>2. Cardinality(Teaching(l) \cup {n}) = Cardinality(Teaching(l)) + 1
                    BY <5>1, SlotsFacts, FS_AddElement
                <5> QED BY <3>1, <3>2, <3>3, <4>1, <5>2
            <4>2. CASE m # l
                <5>1. Teaching(m)' = Teaching(m)
                    BY <3>1, <4>2
                <5> QED BY <3>2, <3>3, <4>2, <5>1
            <4> QED BY <4>1, <4>2
        <3>5. Count(LiveSlots)' = [m \in Lessons |-> Cardinality(Teaching(m)')]
            BY DEF Count, Teaching
        <3>6. wanted' \in [Lessons -> {wanted'[m] : m \in Lessons}] /\ DOMAIN wanted' = Lessons
            BY <3>2, <3>3
        <3> QED BY <3>4, <3>5, <3>6
    <2>4. /\ Used' = Used \cup (IF stores THEN {h} ELSE {})
          /\ \A k : Taught(k)' <=> Taught(k) \/ (k = h /\ stores)
        BY <1>9, <2>2
    <2> QED BY <1>1, <1>7, <1>8, <2>2, <2>3, <2>4, DraftCreated
<1>10. CASE ~stores
    <2>1. slots' = slots
        BY <1>8, <1>10 DEF DraftCreates
    <2>2. Slots' = Slots /\ LiveSlots' = LiveSlots /\ Count(LiveSlots)' = Count(LiveSlots) /\ Used' = Used
        BY <2>1 DEF Slots, LiveSlots, Count, Used
    <2>3. \A k : Taught(k)' <=> Taught(k) \/ (k = h /\ stores)
        <3>1. \A k : Taught(k)' <=> Taught(k)
            BY <2>1, <2>2 DEF Taught, At
        <3> QED BY <1>10, <3>1
    <2>4. ~overlapped => wanted' = Count(LiveSlots)'
        BY <1>8, <1>10, <2>2, SlotsFacts DEF Want, DraftCreates
    <2>5. slots' \in Seq(SlotRows) /\ Slots \subseteq Slots' /\ Used' = Used \cup (IF stores THEN {h} ELSE {})
        BY <1>10, <2>1, <2>2, SlotsFacts
    <2> QED BY <1>1, <1>7, <1>8, <2>3, <2>4, <2>5, DraftCreated
<1> QED BY <1>9, <1>10

LEMMA SlotsStep == SlotsInv /\ [TimetableNext]_<<handlerVars, timetableVars>> => SlotsInv'
<1> SUFFICES ASSUME SlotsInv, [TimetableNext]_<<handlerVars, timetableVars>> PROVE SlotsInv'
    OBVIOUS
<1>1. ASSUME NEW p \in Procs,
             \/ \E h \in Hours, l \in Lessons :
                  \/ AddSlot(p, h, l)
                  \/ \E i \in Slots : EditSlot(p, i, h, l)
             \/ \E draft \in Drafts, replace \in BOOLEAN : SaveDraft(p, draft, replace)
             \/ \E i, j \in LiveSlots : SwapRead(p, i, j)
             \/ \E i \in LiveSlots : RemoveSlotRead(p, i)
      PROVE  SlotsInv'
    BY <1>1, SlotReadsStep
<1>2. ASSUME NEW p \in Procs,
             \/ WriteSlot(p) \/ RemoveSlotWrite(p) \/ SwapWrite(p)
             \/ DraftReplace(p) \/ DraftCreate(p)
      PROVE  SlotsInv'
    BY <1>2, WriteSlotStep, RemoveSlotWriteStep, SwapWriteStep, DraftReplaceStep, DraftCreateStep
<1>3. ASSUME NEW p \in Procs, Dies(p), UNCHANGED timetableVars PROVE SlotsInv'
    <2>1. pc[p] # "idle"
        BY <1>3 DEF Dies
    <2> QED BY <1>3, <2>1, SlotsUntouched
<1>4. CASE UNCHANGED <<handlerVars, timetableVars>>
    <2>1. SlotRequests' /\ Lone' /\ pc' = pc /\ job' = job /\ overlapped' = overlapped
        BY <1>4, SlotsFacts, HandlersStutter DEF SlotRequests
    <2>2. slots' = slots /\ wanted' = wanted /\ told' = told
        BY <1>4 DEF timetableVars
    <2>3. Slots' = Slots /\ LiveSlots' = LiveSlots /\ Used' = Used /\ Count(LiveSlots)' = Count(LiveSlots)
        BY <2>2 DEF Slots, LiveSlots, Used, Count
    <2>4. \A k : Taught(k)' <=> Taught(k)
        BY <2>2, <2>3 DEF Taught, At
    <2>5. \A q \in Procs : SlotJob(q)' /\ (SwapKnown(q) => SwapKnown(q)') /\ (DraftKnown(q) => DraftKnown(q)')
        BY <2>1, <2>2, <2>3, <2>4 DEF SlotsInv, SlotJob, SwapKnown, DraftKnown, Behind
    <2>6. DraftTold => DraftTold'
        BY <2>2, <2>4 DEF DraftTold
    <2> QED BY <2>1, <2>2, <2>3, <2>5, <2>6 DEF SlotsInv, SlotsInTurn
<1> QED BY <1>1, <1>2, <1>3, <1>4 DEF TimetableNext

LEMMA SlotsInvImplies == SlotsInv => TimetableKept
<1> SUFFICES ASSUME SlotsInv, ~overlapped PROVE TimetableKept
    BY DEF TimetableKept
<1>1. Count(LiveSlots) = wanted /\ DraftTold
    BY DEF SlotsInv, SlotsInTurn
<1>2. ASSUME told # NoDraft PROVE Held(told.hours) = told.hours \ (told.used \cup told.missed)
    BY <1>1, <1>2 DEF DraftTold, Held, Taught
<1> QED BY <1>1, <1>2 DEF DraftTold, TimetableKept

(* However slots are added, moved, deleted, swapped and drafted, and whoever  *)
(* dies: as long as requests come in turn the live slots have the lessons     *)
(* that were entered and not taken out, and a draft that replaced the slots   *)
(* of its sections said at how many of its hours there is a slot now, among   *)
(* them all that never had a row and whose insert did not fail                *)
(* (api/timetable, timetable/swap, ai/timetable/save).                        *)
THEOREM TimetableStaysKept == TimetableSpec => []TimetableKept
<1> QED BY SlotsInitial, SlotsStep, SlotsInvImplies, PTL DEF TimetableSpec

----------------------------------------------------------------------------
(* The types of the timetable *)

DraftAnswers ==
    [hours : SUBSET Hours, used : SUBSET Hours, missed : SUBSET Hours, saved : Nat] \cup {NoDraft}

OneRowEach == \A i, k \in Slots : slots[i].hour = slots[k].hour => i = k

(* That there are as many hours in use as rows says that no two rows have one *)
(* hour, in which form it is inductive.                                       *)
SlotsTyped == OneRowEach /\ wanted \in [Lessons -> Int] /\ told \in DraftAnswers

LEMMA UsedCounted ==
    ASSUME slots \in Seq(SlotRows), OneRowEach
    PROVE  Cardinality(Used) = Len(slots)
<1> DEFINE f == [i \in Slots |-> slots[i].hour]
<1>1. Slots = 1..Len(slots) /\ Len(slots) \in Nat
    BY SlotFacts
<1>2. f \in [Slots -> Used] /\ \A u \in Used : \E i \in Slots : f[i] = u
    BY DEF Used
<1>3. \A i, k \in Slots : f[i] = f[k] => i = k
    BY DEF OneRowEach
<1> HIDE DEF f
<1>4. f \in Bijection(1..Len(slots), Used)
    BY <1>1, <1>2, <1>3 DEF Bijection, Injection, Surjection, IsInjective
<1> QED BY <1>1, <1>4, FS_CountingElements DEF ExistsBijection

(* No row is added and none has another hour.                                 *)
LEMMA HoursStay ==
    ASSUME OneRowEach, Slots' = Slots, \A i \in Slots : slots'[i].hour = slots[i].hour
    PROVE  OneRowEach'
BY DEF OneRowEach

(* A row is added at an hour that had none.                                   *)
LEMMA HourNew ==
    ASSUME OneRowEach, NEW n, NEW h, \A i \in Slots : slots[i].hour # h,
           Slots' = Slots \cup {n}, slots'[n].hour = h,
           \A i \in Slots : slots'[i].hour = slots[i].hour
    PROVE  OneRowEach'
BY DEF OneRowEach

LEMMA HourAdded ==
    ASSUME OneRowEach, slots \in Seq(SlotRows), NEW h \in Hours, At({h}) = {}, NEW l \in Lessons,
           slots' = Append(slots, [hour |-> h, lesson |-> l, live |-> TRUE])
    PROVE  OneRowEach'
<1>1. Slots = 1..Len(slots) /\ Len(slots) \in Nat
    BY SlotFacts
<1>2. /\ Slots' = Slots \cup {Len(slots) + 1} /\ slots'[Len(slots) + 1].hour = h
      /\ \A i \in Slots : slots'[i] = slots[i]
    BY <1>1, AppendProperties DEF Slots
<1>3. \A i \in Slots : slots[i].hour # h
    BY DEF At
<1>4. \A i \in Slots : slots'[i].hour = slots[i].hour
    BY <1>2
<1> QED BY <1>2, <1>3, <1>4, HourNew

LEMMA CountType ==
    ASSUME NEW X, IsFiniteSet(X)
    PROVE  \A l \in Lessons : Count(X)[l] \in Nat
<1>1. ASSUME NEW l \in Lessons PROVE Cardinality({i \in X : slots[i].lesson = l}) \in Nat
    BY FS_Subset, FS_CardinalityType, IsFiniteSet({i \in X : slots[i].lesson = l})
<1> QED BY <1>1 DEF Count

LEMMA WantType ==
    ASSUME NEW lessons, \A l \in Lessons : lessons[l] \in Int, DOMAIN lessons = Lessons,
           lessons = [l \in Lessons |-> lessons[l]], Want(lessons)
    PROVE  wanted' \in [Lessons -> Int]
BY DEF Want

LEMMA WriteSlotTyped ==
    ASSUME SlotsInv, SlotsTyped, NEW p \in Procs, WriteSlot(p)
    PROVE  SlotsTyped'
<1>1. job[p] \in SlotJobs /\ job[p].slot \in {0} \cup Slots
    BY DEF WriteSlot, SlotsInv, SlotJob
<1>2. PICK i \in {0} \cup Slots, h \in Hours, l \in Lessons :
          i = job[p].slot /\ h = job[p].hour /\ l = job[p].lesson
    BY <1>1 DEF SlotJobs
<1>3. slots \in Seq(SlotRows) /\ slots \in [Slots -> SlotRows] /\ 0 \notin Slots /\ IsFiniteSet(Slots)
    BY SlotsFacts, SlotFacts
<1>4. CASE UNCHANGED timetableVars
    BY <1>4 DEF timetableVars, SlotsTyped, OneRowEach, Slots
<1> DEFINE new == [m \in Lessons |-> wanted[m] - Count({i} \cap LiveSlots)[m]
                                       + (IF m = l /\ (i = 0 \/ i \in LiveSlots) THEN 1 ELSE 0)]
<1>5. CASE /\ At({h}) \ {i} = {}
           /\ slots' = IF i = 0 THEN Append(slots, [hour |-> h, lesson |-> l, live |-> TRUE])
                       ELSE [slots EXCEPT ![i].hour = h, ![i].lesson = l]
           /\ Want(new)
           /\ told' = NoDraft
    <2>1. wanted' \in [Lessons -> Int]
        <3>1. IsFiniteSet({i} \cap LiveSlots)
            BY FS_Singleton, FS_Subset
        <3>2. \A m \in Lessons : Count({i} \cap LiveSlots)[m] \in Nat
            BY <3>1, CountType
        <3>3. ASSUME NEW m \in Lessons PROVE new[m] \in Int
            <4>1. PICK c \in Nat : c = Count({i} \cap LiveSlots)[m]
                BY <3>2
            <4>2. PICK w \in Int : w = wanted[m]
                BY DEF SlotsTyped
            <4>3. new[m] = w - c + 1 \/ new[m] = w - c + 0
                BY <4>1, <4>2
            <4> QED BY <4>3
        <3>4. DOMAIN new = Lessons /\ new = [m \in Lessons |-> new[m]]
            OBVIOUS
        <3> HIDE DEF new
        <3> QED BY <1>5, <3>3, <3>4, WantType
    <2>2. told' \in DraftAnswers
        BY <1>5 DEF DraftAnswers
    <2>3. CASE i = 0
        <3>1. At({h}) = {}
            BY <1>3, <1>5, <2>3 DEF At
        <3>2. OneRowEach'
            BY <1>3, <1>5, <2>3, <3>1, HourAdded DEF SlotsTyped
        <3> QED BY <2>1, <2>2, <3>2 DEF SlotsTyped
    <2>4. CASE i # 0
        <3>1. i \in Slots /\ Slots' = Slots
            BY <1>3, <1>5, <2>4 DEF Slots
        <3>2. slots' = [slots EXCEPT ![i] = [slots[i] EXCEPT !.hour = h, !.lesson = l]]
            BY <1>3, <1>5, <2>4, <3>1
        <3>3. slots'[i].hour = h /\ \A k \in Slots : k # i => slots'[k] = slots[k]
            BY <1>3, <3>1, <3>2 DEF SlotRows
        <3>4. \A k \in Slots : k # i => slots[k].hour # h
            BY <1>5 DEF At
        <3>5. OneRowEach'
            BY <3>1, <3>3, <3>4 DEF SlotsTyped, OneRowEach
        <3> QED BY <2>1, <2>2, <3>5 DEF SlotsTyped
    <2> QED BY <2>3, <2>4
<1> QED BY <1>2, <1>4, <1>5 DEF WriteSlot

LEMMA RemoveSlotWriteTyped ==
    ASSUME SlotsInv, SlotsTyped, NEW p \in Procs, RemoveSlotWrite(p)
    PROVE  SlotsTyped'
<1>1. PICK i \in Slots : i = job[p].slot
    BY DEF RemoveSlotWrite, SlotsInv, SlotJob
<1>2. slots \in [Slots -> SlotRows]
    BY SlotsFacts, SlotFacts
<1> DEFINE new == [l \in Lessons |-> wanted[l] - Count({i} \cap LiveSlots)[l]]
<1>3. slots' = [slots EXCEPT ![i].live = FALSE] /\ Want(new) /\ told' = NoDraft
    BY <1>1 DEF RemoveSlotWrite
<1>4. Slots' = Slots /\ \A k \in Slots : slots'[k].hour = slots[k].hour
    BY <1>2, <1>3 DEF Slots, SlotRows
<1>5. IsFiniteSet({i} \cap LiveSlots)
    BY FS_Singleton, FS_Subset
<1>6. \A l \in Lessons : wanted[l] \in Int /\ Count({i} \cap LiveSlots)[l] \in Nat
    BY <1>5, CountType DEF SlotsTyped
<1>7. \A l \in Lessons : new[l] \in Int
    BY <1>6
<1>8. DOMAIN new = Lessons /\ new = [l \in Lessons |-> new[l]]
    OBVIOUS
<1> HIDE DEF new
<1>9. wanted' \in [Lessons -> Int]
    BY <1>3, <1>7, <1>8, WantType
<1> QED BY <1>3, <1>4, <1>9, HoursStay DEF SlotsTyped, DraftAnswers

LEMMA SwapWriteTyped ==
    ASSUME SlotsInv, SlotsTyped, NEW p \in Procs, SwapWrite(p)
    PROVE  SlotsTyped'
<1>1. slots \in [Slots -> SlotRows] /\ slots' = Swapped(p) /\ told' = NoDraft /\ wanted' = wanted
    BY SlotsFacts, SlotFacts DEF SwapWrite
<1>2. Slots' = Slots /\ \A k \in Slots : slots'[k].hour = slots[k].hour
    BY <1>1 DEF Swapped, Slots, SlotRows
<1> QED BY <1>1, <1>2, HoursStay DEF SlotsTyped, DraftAnswers

LEMMA DraftReplaceTyped ==
    ASSUME SlotsInv, SlotsTyped, NEW p \in Procs, DraftReplace(p)
    PROVE  SlotsTyped'
<1>1. PICK R : R = Replaced(p)
    OBVIOUS
<1>2. slots \in [Slots -> SlotRows] /\ IsFiniteSet(R)
    <2>1. R \subseteq Slots
        BY <1>1 DEF Replaced, LiveSlots
    <2> QED BY <2>1, SlotsFacts, SlotFacts, FS_Subset
<1> DEFINE new == [l \in Lessons |-> wanted[l] - Count(R)[l]]
<1>3. /\ slots' = [i \in Slots |-> [slots[i] EXCEPT !.live = slots[i].live /\ i \notin R]]
      /\ Want(new) /\ told' = NoDraft
    BY <1>1 DEF DraftReplace
<1>4. Slots' = Slots /\ \A k \in Slots : slots'[k].hour = slots[k].hour
    BY <1>2, <1>3 DEF Slots, SlotRows
<1>5. \A l \in Lessons : wanted[l] \in Int /\ Count(R)[l] \in Nat
    BY <1>2, CountType DEF SlotsTyped
<1>6. \A l \in Lessons : new[l] \in Int
    BY <1>5
<1>7. DOMAIN new = Lessons /\ new = [l \in Lessons |-> new[l]]
    OBVIOUS
<1> HIDE DEF new
<1>8. wanted' \in [Lessons -> Int]
    BY <1>3, <1>6, <1>7, WantType
<1> QED BY <1>3, <1>4, <1>8, HoursStay DEF SlotsTyped, DraftAnswers

LEMMA DraftCreateTyped ==
    ASSUME SlotsInv, SlotsTyped, NEW p \in Procs, DraftCreate(p)
    PROVE  SlotsTyped'
<1>1. /\ job[p] \in DraftJobs /\ job[p].left \subseteq DOMAIN job[p].draft
      /\ DOMAIN job[p].draft \subseteq Hours
      /\ \A h \in DOMAIN job[p].draft : job[p].draft[h] \in Lessons
    BY DraftFacts DEF DraftCreate
<1>2. PICK h \in job[p].left, l \in Lessons, stores \in BOOLEAN, missed \in SUBSET Hours :
          /\ l = job[p].draft[h] /\ (stores => At({h}) = {})
          /\ slots' = IF stores THEN Append(slots, [hour |-> h, lesson |-> l, live |-> TRUE]) ELSE slots
          /\ Want(IF stores THEN [wanted EXCEPT ![l] = @ + 1] ELSE wanted)
          /\ \/ told' = NoDraft
             \/ told' = [hours |-> DOMAIN job[p].draft, used |-> job[p].used, missed |-> missed,
                         saved |-> job[p].saved + (IF stores THEN 1 ELSE 0)]
    <2>1. PICK h \in job[p].left, fails \in BOOLEAN :
              DraftCreates(p, h, At({h}) = {} /\ ~fails, job[p].missed \cup (IF fails THEN {h} ELSE {}))
        BY Zenon DEF DraftCreate, DraftCreates
    <2>2. PICK stores \in BOOLEAN : stores = (At({h}) = {} /\ ~fails)
        OBVIOUS
    <2>3. PICK missed : missed = job[p].missed \cup (IF fails THEN {h} ELSE {})
        OBVIOUS
    <2>4. h \in DOMAIN job[p].draft /\ job[p].draft[h] \in Lessons /\ missed \in SUBSET Hours
        BY <1>1, <2>3 DEF DraftJobs
    <2> QED BY <2>1, <2>2, <2>3, <2>4 DEF DraftCreates
<1>3. told' \in DraftAnswers
    <2>1. job[p].used \in SUBSET Hours /\ job[p].saved \in Nat
        BY <1>1 DEF DraftJobs
    <2>2. job[p].saved + (IF stores THEN 1 ELSE 0) \in Nat
        BY <2>1
    <2> QED BY <1>1, <1>2, <2>1, <2>2 DEF DraftAnswers
<1>4. wanted' \in [Lessons -> Int]
    BY <1>2 DEF Want, SlotsTyped
<1>5. OneRowEach'
    <2>1. CASE stores
        <3>1. h \in Hours
            BY <1>1
        <3> QED BY <1>2, <2>1, <3>1, SlotsFacts, HourAdded DEF SlotsTyped
    <2>2. CASE ~stores
        BY <1>2, <2>2 DEF SlotsTyped, OneRowEach, Slots
    <2> QED BY <2>1, <2>2
<1> QED BY <1>3, <1>4, <1>5 DEF SlotsTyped

LEMMA SlotsTypedStep ==
    SlotsInv /\ SlotsTyped /\ [TimetableNext]_<<handlerVars, timetableVars>> => SlotsTyped'
<1> SUFFICES ASSUME SlotsInv, SlotsTyped, [TimetableNext]_<<handlerVars, timetableVars>> PROVE SlotsTyped'
    OBVIOUS
<1>1. CASE UNCHANGED timetableVars
    BY <1>1 DEF timetableVars, SlotsTyped, OneRowEach, Slots
<1>2. ASSUME NEW p \in Procs,
             WriteSlot(p) \/ RemoveSlotWrite(p) \/ SwapWrite(p) \/ DraftReplace(p) \/ DraftCreate(p)
      PROVE  SlotsTyped'
    BY <1>2, WriteSlotTyped, RemoveSlotWriteTyped, SwapWriteTyped, DraftReplaceTyped, DraftCreateTyped
<1>3. CASE TimetableNext
    <2> SUFFICES ASSUME ~UNCHANGED timetableVars PROVE SlotsTyped'
        BY <1>1
    <2> QED BY <1>2, <1>3 DEF TimetableNext, AddSlot, EditSlot, RemoveSlotRead, SwapRead, SaveDraft
<1>4. CASE UNCHANGED <<handlerVars, timetableVars>>
    BY <1>1, <1>4
<1> QED BY <1>3, <1>4

(* However slots are added, moved, deleted, swapped and drafted: no two rows  *)
(* have the same section, day and start, deleted rows counted, and a draft    *)
(* answers with hours and a number.                                           *)
THEOREM TimetableTypes == TimetableSpec => []TimetableTypeOK
<1>1. HandlersInit /\ TimetableInit => SlotsInv /\ SlotsTyped
    <2>1. HandlersInit /\ TimetableInit => SlotsTyped
        BY DEF TimetableInit, SlotsTyped, OneRowEach, Slots, DraftAnswers
    <2> QED BY <2>1, SlotsInitial
<1>2. SlotsInv /\ SlotsTyped /\ [TimetableNext]_<<handlerVars, timetableVars>> => (SlotsInv /\ SlotsTyped)'
    BY SlotsStep, SlotsTypedStep
<1>3. SlotsInv /\ SlotsTyped => TimetableTypeOK
    BY UsedCounted DEF SlotsInv, SlotsTyped, SlotRequests, SlotRows, DraftAnswers,
       TimetableTypeOK, TimetableTablesOK
<1> QED BY <1>1, <1>2, <1>3, PTL DEF TimetableSpec
=============================================================================
