----------------------------- MODULE MarkSheets -----------------------------
(***************************************************************************)
(* The marks of one subject in one section: the page on which a teacher    *)
(* types them and the handlers that store them and rank the pupils.        *)
(*                                                                         *)
(* The page keeps a copy of every row and whether it is dirty. Leaving a   *)
(* cell saves its row; a button saves all dirty rows and loads the section *)
(* again. A save writes the rows in one transaction, reads all totals, and *)
(* writes the positions in another. Marks also arrive from a file, and one *)
(* cell at a time, without the page that is open being told.               *)
(***************************************************************************)
EXTENDS Handlers, FiniteSetsExt

CONSTANTS
    Pupils,
    Cells,        \* the components of the assessment and the exam
    MaxScore,     \* bound: no cell is more
    NoGrade,      \* "no row in the table of grades"
    MaxTyped,     \* bound: cells typed on the page
    Elsewhere,    \* bound: pupils whose marks come from a file or by the cell
    MaxElsewhere  \* bound: saves of such marks

ASSUME MarkAssumptions ==
    /\ IsFiniteSet(Pupils) /\ IsFiniteSet(Cells) /\ Elsewhere \subseteq Pupils
    /\ {MaxScore, MaxTyped, MaxElsewhere} \subseteq Nat

VARIABLES
    sheet,      \* the table: [Pupils -> NoGrade or [marks, total, position]]
    page,       \* what the teacher sees: [Pupils -> [marks, dirty]]
    typed,      \* cells typed so far
    elsewhere,  \* saves past the page so far
    unsure,     \* history: pupils whose row changed while it was being saved,
                \* or elsewhere
    unranked    \* history: marks changed since positions were last written

markVars == <<sheet, page, typed, elsewhere, unsure, unranked>>

Scores == 0..MaxScore
Marks  == [Cells -> Scores]
Blank  == [c \in Cells |-> 0]

Total(marks) == MapThenSumSet(LAMBDA c : marks[c], Cells)

Graded == {s \in Pupils : sheet[s] # NoGrade}
Stored(s) == IF s \in Graded THEN sheet[s].marks ELSE Blank

\* Equal totals share a position, and the next one counts them all.
Position(s, among, total) == 1 + Cardinality({t \in among : total[t] > total[s]})

\* NoGrade is no row and no total.
ASSUME GradeAssumptions ==
    LET totals == {Total(marks) : marks \in Marks} IN
    NoGrade \notin totals \cup [marks : Marks, total : totals, position : Nat]

\* Any marks of earlier days, ranked, and the page that shows them.
MarksInit ==
    /\ \E pupils \in SUBSET Pupils, marks \in [Pupils -> Marks] :
         sheet = [s \in Pupils |->
                    IF s \in pupils
                    THEN [marks |-> marks[s], total |-> Total(marks[s]),
                          position |-> Position(s, pupils, [t \in pupils |-> Total(marks[t])])]
                    ELSE NoGrade]
    /\ page = [s \in Pupils |-> [marks |-> Stored(s), dirty |-> FALSE]]
    /\ typed \in {0, MaxTyped}    \* or a page that nobody types on
    /\ elsewhere \in {0, MaxElsewhere}    \* or marks that come from nowhere else
    /\ unsure = {}
    /\ unranked = FALSE

----------------------------------------------------------------------------
(* The page *)

\* Where the save in hand comes from. Saving all touches every row, since it
\* ends with loading them again.
SaveOrigin(q) ==
    IF pc[q] \in {"mark_write", "rank_read", "rank_write", "mark_answer", "mark_reload"}
    THEN job[q].from ELSE "other"

RowSaving(s) ==
    \E q \in Procs :
      SaveOrigin(q) = "all" \/ (SaveOrigin(q) = "blur" /\ s \in DOMAIN job[q].entries)

Type(s, c, v) ==
    /\ typed < MaxTyped
    /\ page[s].marks[c] # v
    /\ page' = [page EXCEPT ![s].marks[c] = v, ![s].dirty = TRUE]
    /\ typed' = typed + 1
    /\ unsure' = IF RowSaving(s) THEN unsure \cup {s} ELSE unsure
    /\ UNCHANGED <<handlerVars, sheet, elsewhere, unranked>>

Submit(p, from, pupils) ==
    /\ Begin(p, [op |-> "marks", from |-> from, entries |-> [s \in pupils |-> page[s].marks],
                 positions |-> <<>>], "mark_write")
    /\ unsure' = unsure \cup {s \in (IF from = "all" THEN Pupils ELSE pupils) : RowSaving(s)}
    /\ UNCHANGED <<sheet, page, typed, elsewhere, unranked>>

\* Autosave when a cell is left.
SaveRow(p, s) == page[s].dirty /\ Submit(p, "blur", {s})

\* The button is disabled while its last save is pending.
SaveAll(p) ==
    LET dirty == {s \in Pupils : page[s].dirty} IN
    /\ dirty # {}
    /\ \A q \in Procs : SaveOrigin(q) # "all"
    /\ Submit(p, "all", dirty)

\* Faulty variant of Cleaned: one answer cleans the page.
CleanedPage(s) == [t \in Pupils |-> [page[t] EXCEPT !.dirty = FALSE]]

\* The row that was saved is clean, whatever was typed meanwhile.
Cleaned(s) == [page EXCEPT ![s].dirty = FALSE]

Answered(p) ==
    /\ pc[p] = "mark_answer"
    /\ IF job[p].from = "all"
       THEN GoTo(p, "mark_reload") /\ UNCHANGED page
       ELSE /\ page' = IF job[p].from = "blur"
                       THEN Cleaned(CHOOSE s \in DOMAIN job[p].entries : TRUE) ELSE page
            /\ Finish(p)
    /\ UNCHANGED <<sheet, typed, elsewhere, unsure, unranked>>

\* GET /api/grades; rows equal to the last ones loaded leave the page alone.
Reload(p) ==
    /\ pc[p] = "mark_reload"
    /\ \/ page' = [s \in Pupils |-> [marks |-> Stored(s), dirty |-> FALSE]]
       \/ UNCHANGED page
    /\ Finish(p)
    /\ UNCHANGED <<sheet, typed, elsewhere, unsure, unranked>>

----------------------------------------------------------------------------
(* POST /api/grades and, with commit, POST /api/grades/import *)

\* A row of the file that lacks a cell says zero.
Import(p, entries) ==
    /\ elsewhere < MaxElsewhere
    /\ elsewhere' = elsewhere + 1
    /\ Begin(p, [op |-> "marks", from |-> "file", entries |-> entries, positions |-> <<>>], "mark_write")
    /\ unsure' = unsure \cup DOMAIN entries
    /\ UNCHANGED <<sheet, page, typed, unranked>>

Row(s, marks) ==
    [marks |-> marks, total |-> Total(marks),
     position |-> IF s \in Graded THEN sheet[s].position ELSE 0]

\* All rows in one transaction, new or not; positions stay.
WriteMarks(p) ==
    /\ pc[p] = "mark_write"
    /\ sheet' = [s \in Pupils |-> IF s \in DOMAIN job[p].entries THEN Row(s, job[p].entries[s])
                                  ELSE sheet[s]]
    /\ unranked' = TRUE
    /\ GoTo(p, "rank_read")
    /\ UNCHANGED <<page, typed, elsewhere, unsure>>

\* "Recompute positions across the full subject roster."
RankRead(p) ==
    /\ pc[p] = "rank_read"
    /\ LET total == [s \in Graded |-> sheet[s].total] IN
       Carry(p, [job[p] EXCEPT !.positions = [s \in Graded |-> Position(s, Graded, total)]], "rank_write")
    /\ UNCHANGED markVars

RankWrite(p) ==
    /\ pc[p] = "rank_write"
    /\ sheet' = [s \in Pupils |-> IF s \in DOMAIN job[p].positions
                                  THEN [sheet[s] EXCEPT !.position = job[p].positions[s]] ELSE sheet[s]]
    /\ unranked' = FALSE
    /\ GoTo(p, "mark_answer")
    /\ UNCHANGED <<page, typed, elsewhere, unsure>>

----------------------------------------------------------------------------
(* PATCH /api/grades/[id] *)

PatchRead(p, s, c, v) ==
    /\ s \in Graded
    /\ elsewhere < MaxElsewhere
    /\ elsewhere' = elsewhere + 1
    /\ Begin(p, [op |-> "cell", pupil |-> s, marks |-> [sheet[s].marks EXCEPT ![c] = v]], "cell_write")
    /\ unsure' = unsure \cup {s}
    /\ UNCHANGED <<sheet, page, typed, unranked>>

\* The cell and, as they were read, the others. Positions are not recomputed.
PatchWrite(p) ==
    /\ pc[p] = "cell_write"
    /\ sheet' = [sheet EXCEPT ![job[p].pupil] = Row(job[p].pupil, job[p].marks)]
    /\ unranked' = TRUE
    /\ Finish(p)
    /\ UNCHANGED <<page, typed, elsewhere, unsure>>

----------------------------------------------------------------------------
MarksNext ==
    \/ \E s \in Pupils, c \in Cells, v \in Scores :
         \/ Type(s, c, v)
         \/ \E p \in Procs : s \in Elsewhere /\ PatchRead(p, s, c, v)
    \/ \E p \in Procs :
         \/ \E s \in Pupils : SaveRow(p, s)
         \/ \E s \in Elsewhere, marks \in Marks : Import(p, [t \in {s} |-> marks])
         \/ SaveAll(p)
         \/ WriteMarks(p) \/ RankRead(p) \/ RankWrite(p)
         \/ Answered(p) \/ Reload(p)
         \/ PatchWrite(p)
         \/ Dies(p) /\ UNCHANGED markVars

MarksSpec == HandlersInit /\ MarksInit /\ [][MarksNext]_<<handlerVars, markVars>>

----------------------------------------------------------------------------
(* Properties *)

MarkStages == {"mark_write", "rank_read", "rank_write", "mark_answer", "mark_reload", "cell_write"}

Positions == 0..Cardinality(Pupils)

Partial(values) == UNION {[pupils -> values] : pupils \in SUBSET Pupils}

MarkJobs ==
    [op : {"marks"}, from : {"blur", "all", "file"}, entries : Partial(Marks),
     positions : Partial(Positions)]
      \cup [op : {"cell"}, pupil : Pupils, marks : Marks]

MarkTablesOK ==
    /\ sheet \in [Pupils -> [marks : Marks, total : Nat, position : Positions] \cup {NoGrade}]
    /\ page \in [Pupils -> [marks : Marks, dirty : BOOLEAN]]
    /\ typed \in 0..MaxTyped /\ elsewhere \in 0..MaxElsewhere
    /\ unsure \subseteq Pupils /\ unranked \in BOOLEAN

\* The types of the variables.
MarksTypeOK == HandlersTypeOK(MarkStages, MarkJobs) /\ MarkTablesOK

\* A row the page shows as saved is what the table has, whatever other rows are
\* being typed or saved and whoever dies, unless it was typed into while it was
\* being saved: the answer to that save cleans it, and leaving the cell then
\* saves nothing. Totals add up always, and with requests in turn positions
\* rank the totals from every finished ranking until marks change.
MarksStored ==
    /\ \A s \in Graded : sheet[s].total = Total(sheet[s].marks)
    /\ \A s \in Pupils \ unsure : ~page[s].dirty => page[s].marks = Stored(s)
    /\ ~overlapped /\ ~unranked => \A s \in Graded :
         sheet[s].position = Position(s, Graded, [t \in Graded |-> sheet[t].total])
=============================================================================
