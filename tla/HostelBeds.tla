----------------------------- MODULE HostelBeds -----------------------------
(***************************************************************************)
(* A boarding school's hostels: rooms added, resized and deleted, hostels  *)
(* edited and deleted, students assigned to beds and checked out.          *)
(*                                                                         *)
(* A stay is a row of its own; a bed is nothing but a number in it. No     *)
(* index forbids two active stays in one bed, or of one student: the       *)
(* routes look first and write afterwards. Each route writes once, as its  *)
(* last step: one that dies is one that never takes its next step.         *)
(***************************************************************************)
EXTENDS Handlers

CONSTANTS
    Hostels,
    Rooms,      \* room numbers, each of the hostel HostelOf names
    HostelOf,
    Boarders,   \* the students
    Genders,    \* of students; a hostel is for one of them or MIXED
    GenderOf,   \* a student's gender, or NoGender
    NoGender,
    MaxBeds,    \* bound: beds in a room (the code's is 20)
    MaxStays    \* bound: stays ever recorded

HostelGenders == Genders \cup {"MIXED"}
Beds == 1..MaxBeds

ASSUME HostelAssumptions ==
    /\ HostelOf \in [Rooms -> Hostels]
    /\ GenderOf \in [Boarders -> Genders \cup {NoGender}]
    /\ NoGender \notin HostelGenders
    /\ MaxBeds \in Nat /\ MaxStays \in Nat

VARIABLES
    hostels,  \* [Hostels -> [gender, open, regendered]]; the last is history
    rooms,    \* [Rooms -> [state, capacity]]
    stays     \* [1..n -> [boarder, room, bed, active]], oldest first

bedVars == <<hostels, rooms, stays>>

Stays == DOMAIN stays
InRoom(r) == {i \in Stays : stays[i].active /\ stays[i].room = r}
InBed(r, b) == {i \in InRoom(r) : stays[i].bed = b}
StaysOf(s) == {i \in Stays : stays[i].active /\ stays[i].boarder = s}

\* A room the routes find: not deleted, in a hostel that is not deleted.
IsOpen(r) == rooms[r].state = "open" /\ hostels[HostelOf[r]].open

GenderFits(s, g) == g = "MIXED" \/ GenderOf[s] = g

Assigning == {p \in Procs : pc[p] \in {"bed_check", "boarder_check", "assign_write"}}

\* The school's hostels exist; rooms are added as it goes.
BedsInit ==
    /\ hostels \in [Hostels -> [gender : HostelGenders, open : {TRUE}, regendered : {FALSE}]]
    /\ rooms = [r \in Rooms |-> [state |-> "absent", capacity |-> 0]]
    /\ stays = <<>>

----------------------------------------------------------------------------
(* POST /api/hostel/rooms *)

AddRoom(p, r, n) ==
    /\ hostels[HostelOf[r]].open
    /\ Begin(p, [op |-> "room", room |-> r, capacity |-> n], "room_create")
    /\ UNCHANGED bedVars

\* A number is unique in its hostel, among deleted rooms too: 409 otherwise.
CreateRoom(p) ==
    /\ pc[p] = "room_create"
    /\ LET r == job[p].room IN
       rooms' = IF rooms[r].state = "absent"
                THEN [rooms EXCEPT ![r] = [state |-> "open", capacity |-> job[p].capacity]]
                ELSE rooms
    /\ Finish(p)
    /\ UNCHANGED <<hostels, stays>>

----------------------------------------------------------------------------
(* POST /api/hostel/assignments *)

\* The student and the room are read together; the bed must be in range.
AssignRead(p, s, r, b) ==
    /\ IsOpen(r)
    /\ b <= rooms[r].capacity
    /\ GenderFits(s, hostels[HostelOf[r]].gender)
    /\ Len(stays) + Cardinality(Assigning) < MaxStays
    /\ Begin(p, [op |-> "assign", boarder |-> s, room |-> r, bed |-> b], "bed_check")
    /\ UNCHANGED bedVars

\* Faulty variant of BedCheck: only a stay of the same student counts.
BedCheckOwn(p) ==
    /\ pc[p] = "bed_check"
    /\ IF InBed(job[p].room, job[p].bed) \cap StaysOf(job[p].boarder) = {}
       THEN GoTo(p, "boarder_check") ELSE Finish(p)
    /\ UNCHANGED bedVars

\* 409 if the bed is taken.
BedCheck(p) ==
    /\ pc[p] = "bed_check"
    /\ IF InBed(job[p].room, job[p].bed) = {} THEN GoTo(p, "boarder_check") ELSE Finish(p)
    /\ UNCHANGED bedVars

\* 409 if the student has a bed anywhere.
BoarderCheck(p) ==
    /\ pc[p] = "boarder_check"
    /\ IF StaysOf(job[p].boarder) = {} THEN GoTo(p, "assign_write") ELSE Finish(p)
    /\ UNCHANGED bedVars

AssignWrite(p) ==
    /\ pc[p] = "assign_write"
    /\ stays' = Append(stays, [boarder |-> job[p].boarder, room |-> job[p].room,
                               bed |-> job[p].bed, active |-> TRUE])
    /\ Finish(p)
    /\ UNCHANGED <<hostels, rooms>>

----------------------------------------------------------------------------
(* DELETE /api/hostel/assignments/[id]: the student checks out *)

ReleaseRead(p, i) ==
    /\ stays[i].active
    /\ Begin(p, [op |-> "release", stay |-> i], "release_write")
    /\ UNCHANGED bedVars

ReleaseWrite(p) ==
    /\ pc[p] = "release_write"
    /\ stays' = [stays EXCEPT ![job[p].stay].active = FALSE]
    /\ Finish(p)
    /\ UNCHANGED <<hostels, rooms>>

----------------------------------------------------------------------------
(* PATCH and DELETE /api/hostel/rooms/[id] *)

\* Only a shrink asks about the beds in use.
ResizeRead(p, r, n) ==
    /\ IsOpen(r)
    /\ Begin(p, [op |-> "room", room |-> r, capacity |-> n],
             IF n < rooms[r].capacity THEN "resize_check" ELSE "resize_write")
    /\ UNCHANGED bedVars

\* Faulty variant of ResizeCheck: the beds in use are counted, not looked at.
ResizeCheckCounting(p) ==
    /\ pc[p] = "resize_check"
    /\ IF Cardinality(InRoom(job[p].room)) > job[p].capacity
       THEN Finish(p) ELSE GoTo(p, "resize_write")
    /\ UNCHANGED bedVars

\* 409 if the highest bed in use would be cut off.
ResizeCheck(p) ==
    /\ pc[p] = "resize_check"
    /\ IF \E i \in InRoom(job[p].room) : stays[i].bed > job[p].capacity
       THEN Finish(p) ELSE GoTo(p, "resize_write")
    /\ UNCHANGED bedVars

ResizeWrite(p) ==
    /\ pc[p] = "resize_write"
    /\ rooms' = [rooms EXCEPT ![job[p].room].capacity = job[p].capacity]
    /\ Finish(p)
    /\ UNCHANGED <<hostels, stays>>

DeleteRoomRead(p, r) ==
    /\ IsOpen(r)
    /\ Begin(p, [op |-> "unroom", room |-> r], "unroom_check")
    /\ UNCHANGED bedVars

\* 409 if anybody stays there.
DeleteRoomCheck(p) ==
    /\ pc[p] = "unroom_check"
    /\ IF InRoom(job[p].room) = {} THEN GoTo(p, "unroom_write") ELSE Finish(p)
    /\ UNCHANGED bedVars

DeleteRoomWrite(p) ==
    /\ pc[p] = "unroom_write"
    /\ rooms' = [rooms EXCEPT ![job[p].room].state = "deleted"]
    /\ Finish(p)
    /\ UNCHANGED <<hostels, stays>>

----------------------------------------------------------------------------
(* PATCH and DELETE /api/hostel/hostels/[id] *)

\* The gender may change; the residents are not looked at.
EditHostelRead(p, h, g) ==
    /\ hostels[h].open
    /\ Begin(p, [op |-> "regender", hostel |-> h, gender |-> g], "regender_write")
    /\ UNCHANGED bedVars

EditHostelWrite(p) ==
    /\ pc[p] = "regender_write"
    /\ hostels' = [hostels EXCEPT ![job[p].hostel].gender = job[p].gender,
                                  ![job[p].hostel].regendered = TRUE]
    /\ Finish(p)
    /\ UNCHANGED <<rooms, stays>>

DeleteHostelRead(p, h) ==
    /\ hostels[h].open
    /\ Begin(p, [op |-> "unhostel", hostel |-> h], "unhostel_check")
    /\ UNCHANGED bedVars

\* 409 if anybody stays in a room of the hostel that is not deleted.
DeleteHostelCheck(p) ==
    /\ pc[p] = "unhostel_check"
    /\ IF \A r \in Rooms : HostelOf[r] = job[p].hostel /\ rooms[r].state = "open"
                             => InRoom(r) = {}
       THEN GoTo(p, "unhostel_write") ELSE Finish(p)
    /\ UNCHANGED bedVars

DeleteHostelWrite(p) ==
    /\ pc[p] = "unhostel_write"
    /\ hostels' = [hostels EXCEPT ![job[p].hostel].open = FALSE]
    /\ Finish(p)
    /\ UNCHANGED <<rooms, stays>>

----------------------------------------------------------------------------
BedsNext ==
    \/ \E p \in Procs, r \in Rooms :
         \/ \E n \in Beds : AddRoom(p, r, n) \/ ResizeRead(p, r, n)
         \/ \E s \in Boarders, b \in Beds : AssignRead(p, s, r, b)
         \/ DeleteRoomRead(p, r)
    \/ \E p \in Procs, i \in Stays : ReleaseRead(p, i)
    \/ \E p \in Procs, h \in Hostels :
         \/ \E g \in HostelGenders \ {hostels[h].gender} : EditHostelRead(p, h, g)
         \/ DeleteHostelRead(p, h)
    \/ \E p \in Procs :
         \/ CreateRoom(p)
         \/ BedCheck(p) \/ BoarderCheck(p) \/ AssignWrite(p)
         \/ ReleaseWrite(p)
         \/ ResizeCheck(p) \/ ResizeWrite(p)
         \/ DeleteRoomCheck(p) \/ DeleteRoomWrite(p)
         \/ EditHostelWrite(p)
         \/ DeleteHostelCheck(p) \/ DeleteHostelWrite(p)

BedsSpec == HandlersInit /\ BedsInit /\ [][BedsNext]_<<handlerVars, bedVars>>

----------------------------------------------------------------------------
(* Properties *)

BedStages ==
    {"room_create", "bed_check", "boarder_check", "assign_write", "release_write",
     "resize_check", "resize_write", "unroom_check", "unroom_write", "regender_write",
     "unhostel_check", "unhostel_write"}

BedJobs ==
    [op : {"room"}, room : Rooms, capacity : Beds]
      \cup [op : {"assign"}, boarder : Boarders, room : Rooms, bed : Beds]
      \cup [op : {"release"}, stay : Nat]
      \cup [op : {"unroom"}, room : Rooms]
      \cup [op : {"regender"}, hostel : Hostels, gender : HostelGenders]
      \cup [op : {"unhostel"}, hostel : Hostels]

BedTablesOK ==
    /\ hostels \in [Hostels -> [gender : HostelGenders, open : BOOLEAN, regendered : BOOLEAN]]
    /\ rooms \in [Rooms -> [state : {"absent", "open", "deleted"}, capacity : 0..MaxBeds]]
    /\ stays \in Seq([boarder : Boarders, room : Rooms, bed : Beds, active : BOOLEAN])

\* The types of the variables.
BedsTypeOK == HandlersTypeOK(BedStages, BedJobs) /\ BedTablesOK

\* Assignments that pass the two checks together may put two students into a
\* bed, or one student into two, but no more than there are requests at a time;
\* with requests in turn this is "no double-booking the bed, student doesn't
\* already have an active assignment elsewhere".
HoldersBounded ==
    /\ \A r \in Rooms, b \in Beds : Cardinality(InBed(r, b)) <= Cardinality(Procs)
    /\ \A s \in Boarders : Cardinality(StaysOf(s)) <= Cardinality(Procs)
    /\ ~overlapped =>
         /\ \A r \in Rooms, b \in Beds : Cardinality(InBed(r, b)) <= 1
         /\ \A s \in Boarders : Cardinality(StaysOf(s)) <= 1

\* Nobody holds more than HoldersBounded allows, and with requests in turn,
\* whatever was resized, edited or deleted since, every active stay is in an
\* open room, in a bed the room has, in a hostel for the student's gender unless
\* that was changed.
StaysFitTheirRooms ==
    /\ HoldersBounded
    /\ ~overlapped => \A i \in Stays : stays[i].active =>
         /\ IsOpen(stays[i].room)
         /\ stays[i].bed <= rooms[stays[i].room].capacity
         /\ \/ GenderFits(stays[i].boarder, hostels[HostelOf[stays[i].room]].gender)
            \/ hostels[HostelOf[stays[i].room]].regendered
=============================================================================
