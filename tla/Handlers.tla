------------------------------ MODULE Handlers ------------------------------
(***************************************************************************)
(* What every request handler and cron run of the server has in common.    *)
(*                                                                         *)
(* Node runs a handler from one await to the next without interruption; at *)
(* an await any other handler may run, and the process may die. A handler  *)
(* is therefore the stage it has reached, the query or call it is about to *)
(* make, and what it carries from earlier ones.                            *)
(*                                                                         *)
(* The modules of the school's services extend this one: each takes up     *)
(* requests with Begin, moves them on with GoTo and Carry and ends them    *)
(* with Finish. overlapped is a history variable: some request began while *)
(* another was in progress. Properties use it to tell what overlapping     *)
(* requests cannot break from what only requests in turn keep to.          *)
(***************************************************************************)
EXTENDS Integers, FiniteSets, Sequences

CONSTANTS
    Procs,     \* bound: requests the server works on at a time
    NoJob,     \* "no request in hand"
    MaxFaults  \* bound: processes that die, calls whose outcome is lost

ASSUME HandlersAssumptions ==
    /\ IsFiniteSet(Procs) /\ Procs # {}
    /\ NoJob \notin [op : STRING]
    /\ MaxFaults \in Nat

VARIABLES
    pc,          \* the stage of each request, "idle" if there is none
    job,         \* what it was asked, and what it has read
    overlapped,  \* history: two requests were in progress at once
    faults       \* faults so far

handlerVars == <<pc, job, overlapped, faults>>

HandlersInit ==
    /\ pc = [p \in Procs |-> "idle"]
    /\ job = [p \in Procs |-> NoJob]
    /\ overlapped = FALSE
    /\ faults = 0

Quiescent == \A p \in Procs : pc[p] = "idle"

\* A request is taken up; j is what it was asked, its next query is at stage.
Begin(p, j, stage) ==
    /\ pc[p] = "idle"
    /\ pc' = [pc EXCEPT ![p] = stage]
    /\ job' = [job EXCEPT ![p] = j]
    /\ overlapped' = (overlapped \/ ~Quiescent)
    /\ UNCHANGED faults

GoTo(p, stage) ==
    /\ pc' = [pc EXCEPT ![p] = stage]
    /\ UNCHANGED <<job, overlapped, faults>>

\* The same, with what the handler has read or written meanwhile.
Carry(p, j, stage) ==
    /\ pc' = [pc EXCEPT ![p] = stage]
    /\ job' = [job EXCEPT ![p] = j]
    /\ UNCHANGED <<overlapped, faults>>

Finish(p) ==
    /\ pc' = [pc EXCEPT ![p] = "idle"]
    /\ job' = [job EXCEPT ![p] = NoJob]
    /\ UNCHANGED <<overlapped, faults>>

\* An awaited query throws, or the process dies, before the next write.
Dies(p) ==
    /\ pc[p] # "idle"
    /\ faults < MaxFaults
    /\ pc' = [pc EXCEPT ![p] = "idle"]
    /\ job' = [job EXCEPT ![p] = NoJob]
    /\ faults' = faults + 1
    /\ UNCHANGED overlapped

\* The types of the four, with the stages and jobs of the module that extends.
HandlersTypeOK(stages, jobs) ==
    /\ pc \in [Procs -> stages \cup {"idle"}]
    /\ job \in [Procs -> jobs \cup {NoJob}]
    /\ \A p \in Procs : pc[p] # "idle" => job[p] \in jobs
    /\ overlapped \in BOOLEAN
    /\ faults \in 0..MaxFaults
=============================================================================
