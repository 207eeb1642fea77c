--------------------------- MODULE RollCallServer ---------------------------
(***************************************************************************)
(* The server's side of a daily roll call: POST /api/attendance for one    *)
(* section and one day, the jobs it enqueues for the absent, the BullMQ    *)
(* worker that runs them, and the QR check-in that writes the same rows.   *)
(*                                                                         *)
(* A request compares the roll it was given with the rows it read before   *)
(* it writes, to find who is newly absent; two requests may read before    *)
(* either writes. The jobs are handed over without waiting ("void"): they  *)
(* stay in the server's memory until Redis has taken them.                 *)
(***************************************************************************)
EXTENDS Naturals, FiniteSets

CONSTANTS
    Students,
    Rolls,       \* the roll calls that may be submitted
    PastNine,    \* it is past nine in the morning: a scan counts as LATE
    HasGuardian, \* students whose primary guardian has a phone number
    Kinds,       \* the jobs enqueued for each newly absent student
    Attempts,    \* attempts a job gets before it has failed
    Concurrency, \* jobs the worker process runs at a time
    Procs,       \* bound: requests the server works on at a time
    MaxPosts,    \* bound: roll calls submitted
    MaxCrashes,  \* bound: processes that die
    NoRoll       \* "no roll in hand"

Marks == {"PRESENT", "ABSENT", "LATE", "EXCUSED"}
Rows  == [Students -> Marks \cup {"NONE"}]

ASSUME RollCallAssumptions ==
    /\ Rolls \subseteq [Students -> Marks]
    /\ PastNine \in BOOLEAN
    /\ HasGuardian \subseteq Students
    /\ "absent-sms" \in Kinds
    /\ Attempts \in Nat \ {0}
    /\ Concurrency \in Nat \ {0}
    /\ MaxPosts \in Nat /\ MaxCrashes \in Nat
    /\ NoRoll \notin Rows

VARIABLES
    roll,    \* the attendance rows of the day; "NONE" where there is no row
    pc,      \* the await each request is about to make, "idle" if none
    post,    \* which submission each request is, counted from 1
    asked,   \* the roll call it was given
    before,  \* the rows it read
    jobs,    \* [Jobs -> [state, tries]], from the moment a job is handed over
    told,    \* [Students -> Nat]: absence messages sent about each
    refused, \* students of whom the gateway did not take a message
    posts,   \* roll calls submitted so far
    crashes  \* processes that died so far

request == <<pc, post, asked, before>>
messages == <<told, refused>>
serverVars == <<roll, request, jobs, messages, posts, crashes>>

Stages == {"idle", "read", "write", "hand_over"}

\* A job is known by the submission that enqueued it.
Jobs == [post : 1..MaxPosts, kind : Kinds, student : Students]

\* "handed" is in the server's memory; "sent" has seen to its message and is
\* about to store the notification.
JobStates == {"none", "handed", "waiting", "active", "sent", "done", "failed", "lost"}

In(state) == {j \in Jobs : jobs[j].state = state}
Running   == In("active") \cup In("sent")

----------------------------------------------------------------------------
ServerInit ==
    /\ roll = [s \in Students |-> "NONE"]
    /\ pc = [p \in Procs |-> "idle"]
    /\ post = [p \in Procs |-> 0]
    /\ asked = [p \in Procs |-> NoRoll]
    /\ before = [p \in Procs |-> NoRoll]
    /\ jobs = [j \in Jobs |-> [state |-> "none", tries |-> 0]]
    /\ told = [s \in Students |-> 0]
    /\ refused = {}
    /\ posts = 0
    /\ crashes = 0

Finish(p) ==
    /\ pc' = [pc EXCEPT ![p] = "idle"]
    /\ post' = [post EXCEPT ![p] = 0]
    /\ asked' = [asked EXCEPT ![p] = NoRoll]
    /\ before' = [before EXCEPT ![p] = NoRoll]

----------------------------------------------------------------------------
(* POST /api/attendance *)

\* A roll call that passes the checks is taken up.
Post(p, r) ==
    /\ pc[p] = "idle"
    /\ posts < MaxPosts
    /\ posts' = posts + 1
    /\ pc' = [pc EXCEPT ![p] = "read"]
    /\ post' = [post EXCEPT ![p] = posts + 1]
    /\ asked' = [asked EXCEPT ![p] = r]
    /\ UNCHANGED <<roll, before, jobs, messages, crashes>>

\* The rows of the day, to tell who was absent already.
ReadBefore(p) ==
    /\ pc[p] = "read"
    /\ before' = [before EXCEPT ![p] = roll]
    /\ pc' = [pc EXCEPT ![p] = "write"]
    /\ UNCHANGED <<roll, post, asked, jobs, messages, posts, crashes>>

\* Every row is upserted, in one transaction.
Upsert(p) ==
    /\ pc[p] = "write"
    /\ roll' = asked[p]
    /\ pc' = [pc EXCEPT ![p] = "hand_over"]
    /\ UNCHANGED <<post, asked, before, jobs, messages, posts, crashes>>

\* The transaction throws: 500, nothing is written.
UpsertFails(p) ==
    /\ pc[p] = "write"
    /\ Finish(p)
    /\ UNCHANGED <<roll, jobs, messages, posts, crashes>>

Absent(r) == {s \in Students : r[s] = "ABSENT"}

\* Faulty variants of NewlyAbsent: everyone absent, as before or not; only a
\* student who had a row before counts.
NewlyAbsentAgain(p) == Absent(asked[p])

NewlyAbsentFlipped(p) ==
    {s \in Absent(asked[p]) \ Absent(before[p]) : before[p][s] # "NONE"}

NewlyAbsent(p) == Absent(asked[p]) \ Absent(before[p])

\* The jobs are handed over and the answer is sent, without waiting for Redis.
HandOver(p) ==
    /\ pc[p] = "hand_over"
    /\ jobs' = [j \in Jobs |->
                  IF j.post = post[p] /\ j.student \in NewlyAbsent(p)
                  THEN [state |-> "handed", tries |-> 0] ELSE jobs[j]]
    /\ Finish(p)
    /\ UNCHANGED <<roll, messages, posts, crashes>>

----------------------------------------------------------------------------
(* POST /api/attendance/qr-checkin *)

\* One upsert: LATE after nine; before, PRESENT where there is no row yet.
Scan(s) ==
    /\ roll' = [roll EXCEPT ![s] = IF PastNine THEN "LATE"
                                  ELSE IF @ = "NONE" THEN "PRESENT" ELSE @]
    /\ UNCHANGED <<request, jobs, messages, posts, crashes>>

----------------------------------------------------------------------------
(* enqueueAttendanceJob *)

Becomes(j, state) == jobs' = [jobs EXCEPT ![j].state = state]

\* queue.add: Redis has the job.
Enqueue(j) ==
    /\ jobs[j].state = "handed"
    /\ Becomes(j, "waiting")
    /\ UNCHANGED <<roll, request, messages, posts, crashes>>

\* An absent-sms job has a message to send if there is a guardian to tell.
HasMessage(j) == j.kind = "absent-sms" /\ j.student \in HasGuardian

\* sendSms: the message goes out, or the gateway does not take it. It says so
\* without throwing, and the handler goes on either way.
Tell(j) ==
    IF HasMessage(j)
    THEN \/ told' = [told EXCEPT ![j.student] = @ + 1] /\ UNCHANGED refused
         \/ refused' = refused \cup {j.student} /\ UNCHANGED told
    ELSE UNCHANGED messages

\* Faulty variant of RunInline: without Redis the job is dropped.
RunInlineNever(j) ==
    /\ jobs[j].state = "handed"
    /\ Becomes(j, "done")
    /\ UNCHANGED <<roll, request, messages, posts, crashes>>

\* Redis cannot be reached, or inline dispatch is configured: the job is run at
\* once, a single time, and may fail before or after its message.
RunInline(j) ==
    /\ jobs[j].state = "handed"
    /\ \/ Becomes(j, "done") /\ Tell(j)
       \/ Becomes(j, "failed") /\ Tell(j)
       \/ Becomes(j, "failed") /\ UNCHANGED messages
    /\ UNCHANGED <<roll, request, posts, crashes>>

----------------------------------------------------------------------------
(* The worker: runAttendanceJob, and what BullMQ does around it. *)

\* The worker takes a waiting job; it runs Concurrency of them at a time.
Take(j) ==
    /\ jobs[j].state = "waiting"
    /\ Cardinality(Running) < Concurrency
    /\ Becomes(j, "active")
    /\ UNCHANGED <<roll, request, messages, posts, crashes>>

\* The handler has read what it needs: it has something to say and sends it, or
\* nothing (no guardian's phone; not three days in a row; above 75%).
Send(j) ==
    /\ jobs[j].state = "active"
    /\ \/ /\ j.kind # "absent-sms" \/ j.student \in HasGuardian
          /\ Tell(j)
          /\ Becomes(j, "sent")
       \/ /\ j.kind # "absent-sms" \/ j.student \notin HasGuardian
          /\ Becomes(j, "done")
          /\ UNCHANGED messages
    /\ UNCHANGED <<roll, request, posts, crashes>>

\* notification.create, the handler's last await.
StoreNotice(j) ==
    /\ jobs[j].state = "sent"
    /\ Becomes(j, "done")
    /\ UNCHANGED <<roll, request, messages, posts, crashes>>

\* Faulty variant of Throws: a failed attempt is not counted.
ThrowsUncounted(j) ==
    /\ j \in Running
    /\ Becomes(j, "waiting")
    /\ UNCHANGED <<roll, request, messages, posts, crashes>>

\* An await of the handler throws. BullMQ runs the job again, Attempts times in
\* all; what was sent is not taken back.
Throws(j) ==
    /\ j \in Running
    /\ LET tries == jobs[j].tries + 1 IN
       jobs' = [jobs EXCEPT ![j] =
                  [state |-> IF tries < Attempts THEN "waiting" ELSE "failed",
                   tries |-> tries]]
    /\ UNCHANGED <<roll, request, messages, posts, crashes>>

----------------------------------------------------------------------------
(* Processes that die. *)

\* The web server dies: requests and jobs still in its memory are gone.
ServerDies ==
    /\ crashes < MaxCrashes
    /\ crashes' = crashes + 1
    /\ pc' = [p \in Procs |-> "idle"]
    /\ post' = [p \in Procs |-> 0]
    /\ asked' = [p \in Procs |-> NoRoll]
    /\ before' = [p \in Procs |-> NoRoll]
    /\ jobs' = [j \in Jobs |-> IF jobs[j].state = "handed"
                               THEN [jobs[j] EXCEPT !.state = "lost"] ELSE jobs[j]]
    /\ UNCHANGED <<roll, messages, posts>>

\* The worker dies: BullMQ finds its jobs stalled and lets them wait again.
WorkerDies ==
    /\ crashes < MaxCrashes
    /\ crashes' = crashes + 1
    /\ jobs' = [j \in Jobs |-> IF j \in Running
                               THEN [jobs[j] EXCEPT !.state = "waiting"] ELSE jobs[j]]
    /\ UNCHANGED <<roll, request, messages, posts>>

----------------------------------------------------------------------------
RequestStep(p) == ReadBefore(p) \/ Upsert(p) \/ UpsertFails(p) \/ HandOver(p)
JobStep(j) == Enqueue(j) \/ RunInline(j) \/ Take(j) \/ Send(j) \/ StoreNotice(j)

\* What the server does by itself, once roll calls are submitted.
Internal ==
    \/ \E p \in Procs : RequestStep(p)
    \/ \E j \in Jobs : JobStep(j) \/ Throws(j)
    \/ ServerDies
    \/ WorkerDies

ServerNext ==
    \/ Internal
    \/ \E p \in Procs, r \in Rolls : Post(p, r)
    \/ \E s \in Students : Scan(s)

ServerSpec == ServerInit /\ [][ServerNext]_serverVars

\* Node finishes its requests and hands the jobs on; the worker process runs.
\* Each is only asked to work on something: what there is to do is bounded.
ServerFairness ==
    /\ WF_serverVars(\/ \E p \in Procs : RequestStep(p)
                     \/ \E j \in Jobs : Enqueue(j) \/ RunInline(j))
    /\ WF_serverVars(\E j \in Jobs : Take(j) \/ Send(j) \/ StoreNotice(j))

FairServer == ServerSpec /\ ServerFairness

----------------------------------------------------------------------------
(* Properties *)

\* The types of the variables.
ServerTypeOK ==
    /\ roll \in Rows
    /\ pc \in [Procs -> Stages]
    /\ post \in [Procs -> 0..MaxPosts]
    /\ asked \in [Procs -> Rolls \cup {NoRoll}]
    /\ before \in [Procs -> Rows \cup {NoRoll}]
    /\ \A p \in Procs : pc[p] # "idle" => asked[p] \in Rolls /\ post[p] \in 1..MaxPosts
    /\ \A p \in Procs : pc[p] \in {"write", "hand_over"} => before[p] \in Rows
    /\ jobs \in [Jobs -> [state : JobStates, tries : 0..Attempts]]
    /\ told \in [Students -> Nat]
    /\ refused \subseteq Students
    /\ posts \in 0..MaxPosts
    /\ crashes \in 0..MaxCrashes

\* A guardian is not messaged without end: every message belongs to an attempt
\* of a job, and each job has a bounded number of them, a death of the worker
\* adding one for each job it ran.
AlertJobs(s) == {j \in Jobs : j.kind = "absent-sms" /\ j.student = s /\ jobs[j].state # "none"}
MessagesBounded ==
    \A s \in Students :
        told[s] <= (Attempts + crashes) * Cardinality(AlertJobs(s))

\* Messages are bounded, and nobody is marked absent in silence: as long as no
\* process died, a student with an ABSENT row has an absence alert in the
\* pipeline, or a request still about to hand it over. A request that finds the
\* row ABSENT leaves the alert to the one that wrote it, however the two
\* interleaved.
AbsenceAlerted ==
    /\ MessagesBounded
    /\ crashes = 0 => \A s \in Students : roll[s] = "ABSENT" =>
         \/ AlertJobs(s) # {}
         \/ \E p \in Procs : pc[p] = "hand_over" /\ s \in NewlyAbsent(p)

\* Every absence leads to a message, unless the gateway did not take it, a job
\* ran out of attempts or a process died with it.
GuardianTold ==
    \A s \in HasGuardian :
        roll[s] = "ABSENT" ~>
            \/ told[s] > 0
            \/ s \in refused
            \/ \E j \in AlertJobs(s) : jobs[j].state = "failed"
            \/ crashes > 0
=============================================================================
