----------------------------- MODULE Timetables -----------------------------
(***************************************************************************)
(* The timetable of the school: slots that staff add, move, delete and     *)
(* swap one at a time, and drafts of the timetable generator that replace  *)
(* the slots of whole sections.                                            *)
(*                                                                         *)
(* A deleted slot keeps its row, and a section, day and start have one row *)
(* at most, deleted ones counted. A draft deletes in one query and then    *)
(* creates slot by slot, leaving out those whose hour has a row and those  *)
(* whose insert fails for another reason.                                  *)
(***************************************************************************)
EXTENDS Handlers

CONSTANTS
    Sections,
    Hours,       \* a section, a day and a start
    SectionOf,   \* [Hours -> Sections]
    Lessons,     \* a subject, a teacher and a room
    Drafts,      \* bound: what the generator drafts, hours with their lessons
    NoDraft      \* "no draft was saved since slots last changed"

ASSUME TimetableAssumptions ==
    /\ SectionOf \in [Hours -> Sections] /\ IsFiniteSet(Hours)
    /\ \A draft \in Drafts : DOMAIN draft \subseteq Hours /\ draft \in [DOMAIN draft -> Lessons]

VARIABLES
    slots,   \* rows [hour, lesson, live], oldest first
    wanted,  \* history: how often each lesson was entered and not taken out,
             \* as long as requests are in turn
    told     \* history: the draft saved last, [hours, used, missed, saved], or
             \* NoDraft

timetableVars == <<slots, wanted, told>>

Slots == DOMAIN slots
LiveSlots == {i \in Slots : slots[i].live}
At(hours) == {i \in Slots : slots[i].hour \in hours}
Used == {slots[i].hour : i \in Slots}

TimetableInit ==
    /\ slots = <<>>
    /\ wanted = [l \in Lessons |-> 0]
    /\ told = NoDraft

\* What the lessons of some live slots amount to.
Count(ids) == [l \in Lessons |-> Cardinality({i \in ids : slots[i].lesson = l})]

Want(lessons) == wanted' = IF overlapped THEN [l \in Lessons |-> 0] ELSE lessons

----------------------------------------------------------------------------
(* POST /api/timetable *)

AddSlot(p, h, l) ==
    /\ Begin(p, [op |-> "slot", slot |-> 0, hour |-> h, lesson |-> l], "slot_write")
    /\ UNCHANGED timetableVars

\* The grid lists deleted slots too, and an edit does not ask whether its slot
\* is one.
EditSlot(p, i, h, l) ==
    /\ Begin(p, [op |-> "slot", slot |-> i, hour |-> h, lesson |-> l], "slot_write")
    /\ UNCHANGED timetableVars

\* Refused by the unique index if another slot, deleted or not, has the hour.
\* A deleted slot stays deleted.
WriteSlot(p) ==
    /\ pc[p] = "slot_write"
    /\ LET i == job[p].slot
           h == job[p].hour
           l == job[p].lesson IN
       IF At({h}) \ {i} # {} THEN UNCHANGED timetableVars
       ELSE /\ slots' = IF i = 0 THEN Append(slots, [hour |-> h, lesson |-> l, live |-> TRUE])
                        ELSE [slots EXCEPT ![i].hour = h, ![i].lesson = l]
            /\ Want([m \in Lessons |-> wanted[m] - Count({i} \cap LiveSlots)[m]
                                        + (IF m = l /\ (i = 0 \/ i \in LiveSlots) THEN 1 ELSE 0)])
            /\ told' = NoDraft
    /\ Finish(p)

----------------------------------------------------------------------------
(* DELETE /api/timetable/[id] *)

RemoveSlotRead(p, i) ==
    /\ i \in LiveSlots
    /\ Begin(p, [op |-> "unslot", slot |-> i], "unslot_write")
    /\ UNCHANGED timetableVars

RemoveSlotWrite(p) ==
    /\ pc[p] = "unslot_write"
    /\ slots' = [slots EXCEPT ![job[p].slot].live = FALSE]
    /\ Want([l \in Lessons |-> wanted[l] - Count({job[p].slot} \cap LiveSlots)[l]])
    /\ told' = NoDraft
    /\ Finish(p)

----------------------------------------------------------------------------
(* POST /api/timetable/swap *)

SwapRead(p, i, j) ==
    /\ i \in LiveSlots /\ j \in LiveSlots /\ i # j
    /\ Begin(p, [op |-> "swap", slot |-> i, other |-> j,
                 lesson |-> slots[i].lesson, others |-> slots[j].lesson], "swap_write")
    /\ UNCHANGED timetableVars

\* Faulty variant of Swapped: the second update reads what the first one wrote.
SwappedInTurn(p) ==
    [slots EXCEPT ![job[p].slot].lesson = job[p].others, ![job[p].other].lesson = job[p].others]

\* The lessons move as they were read; hours stay.
Swapped(p) ==
    [slots EXCEPT ![job[p].slot].lesson = job[p].others, ![job[p].other].lesson = job[p].lesson]

SwapWrite(p) ==
    /\ pc[p] = "swap_write"
    /\ slots' = Swapped(p)
    /\ told' = NoDraft
    /\ Finish(p)
    /\ UNCHANGED wanted

----------------------------------------------------------------------------
(* POST /api/ai/timetable/save *)

SaveDraft(p, draft, replace) ==
    /\ Begin(p, [op |-> "draft", draft |-> draft, left |-> DOMAIN draft, used |-> Used,
                 missed |-> {}, replace |-> replace, saved |-> 0],
             IF replace THEN "draft_replace" ELSE "draft_create")
    /\ UNCHANGED timetableVars

\* Every live slot of the sections of the draft.
Replaced(p) == {i \in LiveSlots : \E h \in DOMAIN job[p].draft : SectionOf[slots[i].hour] = SectionOf[h]}

DraftReplace(p) ==
    /\ pc[p] = "draft_replace"
    /\ slots' = [i \in Slots |-> [slots[i] EXCEPT !.live = @ /\ i \notin Replaced(p)]]
    /\ Want([l \in Lessons |-> wanted[l] - Count(Replaced(p))[l]])
    /\ told' = NoDraft
    /\ GoTo(p, "draft_create")

\* One slot after another; an hour that has a row is left out. So is one whose
\* insert fails, which is logged.
DraftCreate(p) ==
    /\ pc[p] = "draft_create"
    /\ \E h \in job[p].left, fails \in BOOLEAN :
         LET l == job[p].draft[h]
             stores == At({h}) = {} /\ ~fails
             left == job[p].left \ {h}
             missed == job[p].missed \cup (IF fails THEN {h} ELSE {})
             saved == job[p].saved + (IF stores THEN 1 ELSE 0) IN
         /\ fails => At({h}) = {}
         /\ slots' = IF stores THEN Append(slots, [hour |-> h, lesson |-> l, live |-> TRUE]) ELSE slots
         /\ Want(IF stores THEN [wanted EXCEPT ![l] = @ + 1] ELSE wanted)
         /\ IF left = {}
            THEN /\ told' = IF job[p].replace /\ ~overlapped
                            THEN [hours |-> DOMAIN job[p].draft, used |-> job[p].used,
                                  missed |-> missed, saved |-> saved]
                            ELSE NoDraft
                 /\ Finish(p)
            ELSE /\ told' = NoDraft
                 /\ Carry(p, [job[p] EXCEPT !.left = left, !.missed = missed, !.saved = saved],
                          "draft_create")

----------------------------------------------------------------------------
TimetableNext ==
    \E p \in Procs :
      \/ \E h \in Hours, l \in Lessons :
           \/ AddSlot(p, h, l)
           \/ \E i \in Slots : EditSlot(p, i, h, l)
      \/ \E draft \in Drafts, replace \in BOOLEAN : SaveDraft(p, draft, replace)
      \/ \E i, j \in LiveSlots : SwapRead(p, i, j)
      \/ \E i \in LiveSlots : RemoveSlotRead(p, i)
      \/ WriteSlot(p) \/ RemoveSlotWrite(p) \/ SwapWrite(p)
      \/ DraftReplace(p) \/ DraftCreate(p)
      \/ Dies(p) /\ UNCHANGED timetableVars

TimetableSpec == HandlersInit /\ TimetableInit /\ [][TimetableNext]_<<handlerVars, timetableVars>>

----------------------------------------------------------------------------
(* Properties *)

TimetableStages ==
    {"slot_write", "unslot_write", "swap_write", "draft_replace", "draft_create"}

TimetableJobs ==
    [op : {"slot"}, slot : Nat, hour : Hours, lesson : Lessons]
      \cup [op : {"unslot"}, slot : Nat]
      \cup [op : {"swap"}, slot : Nat, other : Nat, lesson : Lessons, others : Lessons]
      \cup [op : {"draft"}, draft : Drafts,
            left : SUBSET Hours, used : SUBSET Hours, missed : SUBSET Hours,
            replace : BOOLEAN, saved : Nat]

TimetableTablesOK ==
    /\ slots \in Seq([hour : Hours, lesson : Lessons, live : BOOLEAN])
    /\ Cardinality(Used) = Len(slots)
    /\ wanted \in [Lessons -> Int]
    /\ told \in [hours : SUBSET Hours, used : SUBSET Hours, missed : SUBSET Hours, saved : Nat]
                  \cup {NoDraft}

\* The types of the variables; an hour has one row at most.
TimetableTypeOK == HandlersTypeOK(TimetableStages, TimetableJobs) /\ TimetableTablesOK

\* With requests in turn, swaps lose no lesson and double none: the live slots
\* have the lessons that were entered and not taken out. A draft that replaces
\* the slots of its sections answers with how many of its hours have a slot now,
\* and leaves out none that never had a row and whose insert did not fail.
Held(hours) == {h \in hours : At({h}) \cap LiveSlots # {}}
TimetableKept ==
    ~overlapped =>
      /\ Count(LiveSlots) = wanted
      /\ told # NoDraft =>
           /\ told.saved = Cardinality(Held(told.hours))
           /\ told.hours \ (told.used \cup told.missed) \subseteq Held(told.hours)
=============================================================================
