--------------------------- MODULE Announcements ----------------------------
(***************************************************************************)
(* Announcements: posted now or for later, edited (perhaps sending them    *)
(* again), deleted, and sent by a cron run when their time comes.          *)
(*                                                                         *)
(* Whoever sends one fans it out first and stamps dispatchedAt afterwards. *)
(* The post, the edit and the cron run all do so on the row as they read   *)
(* or wrote it, whatever happened to it meanwhile. A fan-out is one step:  *)
(* its notifications are inserted in one query, and what goes out over the *)
(* other channels is not awaited.                                          *)
(***************************************************************************)
EXTENDS Handlers, SequencesExt

CONSTANTS
    Notices,      \* the announcements
    BatchSize,    \* rows a cron run reads, at most (50 in the code)
    MaxTime,      \* bound: the clock stops there
    Editable,     \* bound: the announcements that are edited or deleted
    MaxEdits      \* bound: edits in all

ASSUME AnnouncementAssumptions ==
    /\ BatchSize \in Nat \ {0} /\ MaxTime \in Nat /\ MaxEdits \in Nat
    /\ IsFiniteSet(Notices) /\ Editable \subseteq Notices

VARIABLES
    notices,    \* [Notices -> [state, publish, dispatched]]
    clock,
    fanouts,    \* how often each was sent
    edits,      \* edits begun so far
    renotified  \* history: edits of each that asked for a second sending

noticeVars == <<notices, clock, fanouts, edits, renotified>>

Times == 0..MaxTime
NoTime == -1     \* publishedAt is null
KeepTime == -2   \* an edit that says nothing about it

Live(t) == t = NoTime \/ t <= clock

\* What the cron run's query finds; a row without publishedAt is not in it.
Due(a) ==
    /\ notices[a].state = "posted"
    /\ ~notices[a].dispatched
    /\ notices[a].publish # NoTime
    /\ notices[a].publish <= clock

NoticesInit ==
    /\ notices = [a \in Notices |-> [state |-> "absent", publish |-> NoTime, dispatched |-> FALSE]]
    /\ clock = 0
    /\ fanouts = [a \in Notices |-> 0]
    /\ edits = 0
    /\ renotified = [a \in Notices |-> 0]

\* A handler's job: what it does, the announcements it has still to send (the
\* one in hand first), and for an edit the new time and whether to send again.
NoticeJob(op, list, t, again) == [op |-> op, list |-> list, publish |-> t, again |-> again]
InHand(p) == Head(job[p].list)

\* The one in hand is done with: a cron run goes on to the next.
NextNotice(p) ==
    IF Len(job[p].list) = 1 THEN Finish(p)
    ELSE Carry(p, [job[p] EXCEPT !.list = Tail(@)], "ann_fanout")

----------------------------------------------------------------------------
(* POST /api/announcements *)

\* Posted for t; a post without a time is for now. The class or arm it is for
\* is looked up first.
PostNotice(p, a, t) ==
    /\ notices[a].state = "absent"
    /\ \A q \in Procs : pc[q] = "ann_create" => InHand(q) # a
    /\ Begin(p, NoticeJob("post", <<a>>, t, FALSE), "ann_create")
    /\ UNCHANGED noticeVars

CreateNotice(p) ==
    /\ pc[p] = "ann_create"
    /\ notices' = [notices EXCEPT ![InHand(p)] =
                     [state |-> "posted", publish |-> job[p].publish, dispatched |-> FALSE]]
    /\ IF Live(job[p].publish) THEN GoTo(p, "ann_fanout") ELSE Finish(p)
    /\ UNCHANGED <<clock, fanouts, edits, renotified>>

----------------------------------------------------------------------------
(* dispatchAnnouncement, and the stamp its callers write after it *)

FanOut(p) ==
    /\ pc[p] = "ann_fanout"
    /\ fanouts' = [fanouts EXCEPT ![InHand(p)] = @ + 1]
    /\ GoTo(p, "ann_stamp")
    /\ UNCHANGED <<notices, clock, edits, renotified>>

\* Faulty variant of Stamp: the cron run leaves its rows unstamped.
StampOfPosts(p) ==
    /\ pc[p] = "ann_stamp"
    /\ notices' = [notices EXCEPT ![InHand(p)].dispatched = job[p].op # "cron"]
    /\ NextNotice(p)
    /\ UNCHANGED <<clock, fanouts, edits, renotified>>

Stamp(p) ==
    /\ pc[p] = "ann_stamp"
    /\ notices' = [notices EXCEPT ![InHand(p)].dispatched = TRUE]
    /\ NextNotice(p)
    /\ UNCHANGED <<clock, fanouts, edits, renotified>>

----------------------------------------------------------------------------
(* GET or POST /api/cron/announcements/dispatch-scheduled *)

DueNotices == {a \in Notices : Due(a)}

\* What the query may return: the oldest due rows, as many as a batch takes.
BatchLength == IF Cardinality(DueNotices) < BatchSize THEN Cardinality(DueNotices) ELSE BatchSize
Batches ==
    {list \in [1..BatchLength -> DueNotices] :
        /\ IsInjective(list)
        /\ \A i \in 1..BatchLength, a \in DueNotices :
             (\A j \in 1..(i - 1) : list[j] # a) => notices[list[i]].publish <= notices[a].publish}

\* Faulty variant of SelectDue: a row is stamped as it is picked.
SelectDueStamping(p) ==
    /\ pc[p] = "idle"
    /\ DueNotices # {}
    /\ \E list \in Batches :
         /\ Begin(p, NoticeJob("cron", list, NoTime, FALSE), "ann_fanout")
         /\ notices' = [a \in Notices |-> IF a \in ToSet(list)
                                          THEN [notices[a] EXCEPT !.dispatched = TRUE] ELSE notices[a]]
    /\ UNCHANGED <<clock, fanouts, edits, renotified>>

\* A run that finds nothing due ends at once.
SelectDue(p) ==
    /\ pc[p] = "idle"
    /\ DueNotices # {}
    /\ \E list \in Batches : Begin(p, NoticeJob("cron", list, NoTime, FALSE), "ann_fanout")
    /\ UNCHANGED noticeVars

\* The fan-out or the stamp of one row throws: the run notes it and goes on. In
\* a post or an edit the same error ends the request (Dies).
CronItemFails(p) ==
    /\ pc[p] \in {"ann_fanout", "ann_stamp"}
    /\ job[p].op = "cron"
    /\ faults < MaxFaults
    /\ faults' = faults + 1
    /\ IF Len(job[p].list) = 1
       THEN /\ pc' = [pc EXCEPT ![p] = "idle"]
            /\ job' = [job EXCEPT ![p] = NoJob]
       ELSE /\ pc' = [pc EXCEPT ![p] = "ann_fanout"]
            /\ job' = [job EXCEPT ![p].list = Tail(@)]
    /\ UNCHANGED <<overlapped, noticeVars>>

----------------------------------------------------------------------------
(* PATCH and DELETE /api/announcements/[id] *)

\* The time may move, or be cleared; again asks for a second sending.
EditRead(p, a, t, again) ==
    /\ notices[a].state = "posted"
    /\ edits < MaxEdits
    /\ edits' = edits + 1
    /\ Begin(p, NoticeJob("edit", <<a>>, t, again), "ann_edit")
    /\ UNCHANGED <<notices, clock, fanouts, renotified>>

\* Only an announcement that is live now is sent again; the stamp stays.
EditWrite(p) ==
    /\ pc[p] = "ann_edit"
    /\ notices' = [notices EXCEPT ![InHand(p)].publish =
                     IF job[p].publish = KeepTime THEN @ ELSE job[p].publish]
    /\ IF job[p].again /\ Live(notices'[InHand(p)].publish)
       THEN /\ GoTo(p, "ann_fanout")
            /\ renotified' = [renotified EXCEPT ![InHand(p)] = @ + 1]
       ELSE /\ Finish(p)
            /\ UNCHANGED renotified
    /\ UNCHANGED <<clock, fanouts, edits>>

DeleteRead(p, a) ==
    /\ notices[a].state = "posted"
    /\ Begin(p, NoticeJob("delete", <<a>>, NoTime, FALSE), "ann_delete")
    /\ UNCHANGED noticeVars

DeleteWrite(p) ==
    /\ pc[p] = "ann_delete"
    /\ notices' = [notices EXCEPT ![InHand(p)].state = "deleted"]
    /\ Finish(p)
    /\ UNCHANGED <<clock, fanouts, edits, renotified>>

----------------------------------------------------------------------------
ClockTicks ==
    /\ clock < MaxTime
    /\ clock' = clock + 1
    /\ UNCHANGED <<notices, fanouts, edits, renotified, handlerVars>>

NoticeStep(p) ==
    CreateNotice(p) \/ FanOut(p) \/ Stamp(p) \/ CronItemFails(p) \/ EditWrite(p) \/ DeleteWrite(p)

CronRun == \E p \in Procs : SelectDue(p)

NoticesNext ==
    \/ \E p \in Procs, a \in Notices, t \in Times : PostNotice(p, a, t)
    \/ \E p \in Procs, a \in Editable :
         \/ \E t \in Times \cup {NoTime, KeepTime}, again \in BOOLEAN : EditRead(p, a, t, again)
         \/ DeleteRead(p, a)
    \/ CronRun
    \/ \E p \in Procs : NoticeStep(p) \/ (Dies(p) /\ UNCHANGED noticeVars)
    \/ ClockTicks

\* Node goes on with one handler or another as long as there is one; the
\* scheduler starts the cron run every minute, again and again.
NoticesFairness ==
    /\ WF_<<handlerVars, noticeVars>>(\E p \in Procs : NoticeStep(p))
    /\ SF_<<handlerVars, noticeVars>>(CronRun)

NoticesSpec ==
    /\ HandlersInit /\ NoticesInit
    /\ [][NoticesNext]_<<handlerVars, noticeVars>>
    /\ NoticesFairness

----------------------------------------------------------------------------
(* Properties *)

NoticeStages == {"ann_create", "ann_fanout", "ann_stamp", "ann_edit", "ann_delete"}

NoticeJobs ==
    [op : {"post", "cron", "edit", "delete"}, list : Seq(Notices),
     publish : Times \cup {NoTime, KeepTime}, again : BOOLEAN]

NoticeTablesOK ==
    /\ notices \in [Notices -> [state : {"absent", "posted", "deleted"},
                                publish : Times \cup {NoTime}, dispatched : BOOLEAN]]
    /\ clock \in Times
    /\ fanouts \in [Notices -> Nat]
    /\ edits \in 0..MaxEdits
    /\ renotified \in [Notices -> Nat]

\* The types of the variables.
NoticesTypeOK == HandlersTypeOK(NoticeStages, NoticeJobs) /\ NoticeTablesOK

\* With requests in turn an announcement is sent once, and once more for every
\* edit that asked for it and every handler that died between the fan-out and
\* the stamp.
SentOnce ==
    ~overlapped => \A a \in Notices : fanouts[a] <= 1 + renotified[a] + faults

\* Its time has come, and nobody has sent it yet.
Owed(a) ==
    /\ notices[a].state = "posted"
    /\ notices[a].publish # NoTime /\ notices[a].publish <= clock
    /\ fanouts[a] = 0

\* Whatever dies or overlaps, again and again no announcement is owed: each one
\* is sent after its time has come, unless it is deleted or put off first.
DueIsSent == []<>(\A a \in Notices : ~Owed(a))
=============================================================================
