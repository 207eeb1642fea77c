-------------------------- MODULE ScheduledReports -------------------------
(***************************************************************************)
(* The console's saved reports: run by hand, or one after the other by a   *)
(* daily sweep which an outside scheduler calls; deleted by their authors. *)
(*                                                                         *)
(* A run logs a row, reads the data, stores a file of them, mails its link *)
(* and only then, in one transaction, says that it succeeded and when the  *)
(* report ran last. Deleting a report deletes its rows, whoever works on   *)
(* them: the next write to one throws, and ends a whole sweep. Nothing     *)
(* keeps a sweep that is called twice from running twice. The store and    *)
(* the mail are left out: a run goes on even if neither takes the file.    *)
(***************************************************************************)
EXTENDS Handlers, SequencesExt, FiniteSetsExt

CONSTANTS
    SavedReports,  \* sequence: the reports, by name
    DueReports,    \* those with a schedule that fires today
    MaxRuns        \* bound: runs begun

Reports == ToSet(SavedReports)

ASSUME ReportAssumptions ==
    /\ SavedReports \in Seq(Reports)
    /\ DueReports \subseteq Reports
    /\ MaxRuns \in Nat

VARIABLES
    deleted,   \* reports deleted so far
    ranLast,   \* those with a time of their last run
    runs,      \* [1..n -> [report, status]], oldest first; "gone" if deleted
    expected   \* history: [Reports -> runs that requests which ended owe it]

reportVars == <<deleted, ranLast, runs, expected>>

Logged == DOMAIN runs
RunsOf(r) == {n \in Logged : runs[n].report = r}

\* The first of some reports, by name.
FirstOf(some) == SavedReports[Min({n \in DOMAIN SavedReports : SavedReports[n] \in some})]

\* The report a request is at; it has those in left still to run.
Report(p) == FirstOf(job[p].left)

Gone(p) == runs[job[p].run].status = "gone"

ReportsInit ==
    /\ deleted = {} /\ ranLast = {}
    /\ runs = <<>>
    /\ expected = [r \in Reports |-> 0]

\* Rows that requests in progress may still log.
Pending == MapThenSumSet(LAMBDA p : Cardinality(job[p].left), {p \in Procs : pc[p] \notin {"idle", "rep_delete"}})

RunJob(all) == [op |-> "run", left |-> all, all |-> all, run |-> 0]

\* The next report of the sweep; its end.
NextReport(p) ==
    IF job[p].left = {Report(p)}
    THEN /\ Finish(p)
         /\ expected' = [r \in Reports |->
                           expected[r] + (IF r \in job[p].all \ deleted THEN 1 ELSE 0)]
    ELSE /\ Carry(p, [job[p] EXCEPT !.left = @ \ {Report(p)}, !.run = 0], "rep_find")
         /\ UNCHANGED expected

\* The row to be written is gone: the query throws, and with it the request.
ThrowRow(p) == Finish(p) /\ UNCHANGED reportVars

----------------------------------------------------------------------------
\* POST /api/cron/reports
Sweep(p) ==
    LET due == DueReports \ deleted IN
    /\ due # {}
    /\ Len(runs) + Pending + Cardinality(due) <= MaxRuns
    /\ Begin(p, RunJob(due), "rep_find")
    /\ UNCHANGED reportVars

\* POST /api/reports/[id]/run
RunNow(p, r) ==
    /\ r \notin deleted
    /\ Len(runs) + Pending < MaxRuns
    /\ Begin(p, RunJob({r}), "rep_find")
    /\ UNCHANGED reportVars

\* A report that was deleted meanwhile is an outcome, not an error.
FindReport(p) ==
    /\ pc[p] = "rep_find"
    /\ IF Report(p) \in deleted
       THEN NextReport(p)
       ELSE GoTo(p, "rep_log") /\ UNCHANGED expected
    /\ UNCHANGED <<deleted, ranLast, runs>>

\* "The log row is written BEFORE the work starts and updated after."
LogRun(p) ==
    /\ pc[p] = "rep_log"
    /\ IF Report(p) \in deleted
       THEN ThrowRow(p)
       ELSE /\ runs' = Append(runs, [report |-> Report(p), status |-> "RUNNING"])
            /\ Carry(p, [job[p] EXCEPT !.run = Len(runs) + 1], "rep_work")
            /\ UNCHANGED <<deleted, ranLast, expected>>

\* The data is read, put in a workbook, stored and mailed, or cannot be read.
ReadData(p) ==
    /\ pc[p] = "rep_work"
    /\ GoTo(p, "rep_fail") \/ GoTo(p, "rep_done")
    /\ UNCHANGED reportVars

\* Faulty variant of FailRun: a report that fails ends the sweep.
FailSweep(p) ==
    /\ pc[p] = "rep_fail"
    /\ IF Gone(p)
       THEN ThrowRow(p)
       ELSE /\ runs' = [runs EXCEPT ![job[p].run].status = "FAILED"]
            /\ Finish(p)
            /\ expected' = [r \in Reports |-> expected[r] + (IF r \in job[p].all \ deleted THEN 1 ELSE 0)]
            /\ UNCHANGED <<deleted, ranLast>>

FailRun(p) ==
    /\ pc[p] = "rep_fail"
    /\ IF Gone(p)
       THEN ThrowRow(p)
       ELSE /\ runs' = [runs EXCEPT ![job[p].run].status = "FAILED"]
            /\ NextReport(p)
            /\ UNCHANGED <<deleted, ranLast>>

\* One transaction.
Succeed(p) ==
    /\ pc[p] = "rep_done"
    /\ IF Gone(p)
       THEN ThrowRow(p)
       ELSE /\ runs' = [runs EXCEPT ![job[p].run].status = "SUCCEEDED"]
            /\ ranLast' = ranLast \cup {Report(p)}
            /\ NextReport(p)
            /\ UNCHANGED deleted

----------------------------------------------------------------------------
\* DELETE /api/reports/[id]; its runs go with it.
RetireRead(p, r) ==
    /\ r \notin deleted
    /\ Begin(p, [op |-> "delete", report |-> r], "rep_delete")
    /\ UNCHANGED reportVars

RetireWrite(p) ==
    /\ pc[p] = "rep_delete"
    /\ deleted' = deleted \cup {job[p].report}
    /\ runs' = [n \in Logged |-> IF n \in RunsOf(job[p].report) THEN [runs[n] EXCEPT !.status = "gone"] ELSE runs[n]]
    /\ Finish(p)
    /\ UNCHANGED <<ranLast, expected>>

----------------------------------------------------------------------------
ReportStep(p) ==
    \/ FindReport(p) \/ LogRun(p) \/ ReadData(p) \/ FailRun(p) \/ Succeed(p)
    \/ RetireWrite(p)

ReportsNext ==
    \E p \in Procs :
      \/ Sweep(p)
      \/ \E r \in Reports : RunNow(p, r) \/ RetireRead(p, r)
      \/ ReportStep(p)
      \/ Dies(p) /\ UNCHANGED reportVars

ReportsSpec == HandlersInit /\ ReportsInit /\ [][ReportsNext]_<<handlerVars, reportVars>>

----------------------------------------------------------------------------
(* Properties *)

ReportStages == {"rep_find", "rep_log", "rep_work", "rep_fail", "rep_done", "rep_delete"}

ReportJobs ==
    [op : {"run"}, left : SUBSET Reports, all : SUBSET Reports, run : Nat]
      \cup [op : {"delete"}, report : Reports]

ReportTablesOK ==
    /\ deleted \subseteq Reports /\ ranLast \subseteq Reports
    /\ runs \in Seq([report : Reports, status : {"RUNNING", "FAILED", "SUCCEEDED", "gone"}])
    /\ expected \in [Reports -> Nat]

\* The types of the variables.
ReportsTypeOK == HandlersTypeOK(ReportStages, ReportJobs) /\ ReportTablesOK

\* A report has the time of its last run exactly if a run of it succeeded. "A
\* run that crashes mid-way leaves a RUNNING row somebody can see", and nothing
\* else does. When no request died and no report was deleted beside another
\* request, every report has a row for each request that was to run it,
\* whichever of the other reports failed.
RunsAccountedFor ==
    \A r \in Reports \ deleted :
         /\ r \in ranLast <=> \E n \in RunsOf(r) : runs[n].status = "SUCCEEDED"
         /\ Quiescent /\ faults = 0 => \A n \in RunsOf(r) : runs[n].status # "RUNNING"
         /\ Quiescent /\ faults = 0 /\ (deleted = {} \/ ~overlapped) =>
              Cardinality(RunsOf(r)) = expected[r]
=============================================================================
