-------------------------- MODULE OfflineRollCalls --------------------------
(***************************************************************************)
(* A teacher's roll call on an unreliable connection: the roll-call page   *)
(* in the tabs of a browser, the queue of offline writes they share, the   *)
(* flush that replays it, and the network, composed with the server of     *)
(* RollCallServer.                                                         *)
(*                                                                         *)
(* The page saves by a TanStack mutation, which is paused from the moment  *)
(* its tab hears "offline" until it hears "online", and posts then what    *)
(* the page shows. So only a tab that was loaded without coverage, and has *)
(* heard neither event since, puts a save into the queue. A paused save    *)
(* has no state of its own here: it is the post it becomes.                *)
(*                                                                         *)
(* The queue has one entry per key, and the key is the section and the     *)
(* day: one section and one day are one entry. The entries of other keys   *)
(* appear only in what they do to this one: a flush that has listed it may *)
(* send others first, and stops at the first network failure.              *)
(*                                                                         *)
(* Jobs are handed over but do not run here: nothing they do can reach the *)
(* rows, the queue or an answer, and RollCallServer runs them. Nor does a  *)
(* QR scanner write to the rows of this section meanwhile.                 *)
(*                                                                         *)
(* saved, latest and mixed are history variables.                          *)
(***************************************************************************)
EXTENDS RollCallServer, Sequences

CONSTANTS
    Tabs,       \* tabs of the browser that are open
    NoTab,      \* "no tab"
    Calls,      \* bound: requests the browser has in progress at a time
    MaxSaves,   \* bound: times the teacher saves
    MaxFailures \* bound: requests that fail, on the network or on the server

NoCall == [from |-> "nobody", tab |-> NoTab, roll |-> NoRoll, state |-> "none"]

ASSUME OfflineAssumptions ==
    MaxSaves \in Nat /\ MaxFailures \in Nat /\ NoTab \notin Tabs /\ NoCall \notin Calls

VARIABLES
    online,   \* navigator.onLine
    fresh,    \* tabs loaded without coverage that have heard no event since
    heard,    \* tabs that have heard "online" and have yet to list the queue
    queue,    \* the entry stored for the key, NoRoll if there is none
    calls,    \* [Calls -> [from, tab, roll, state]]: what the browser waits for
    serving,  \* the call each server process answers, NoCall if none
    failures, \* requests that failed so far
    saved,    \* the roll calls the teacher saved, in order
    latest,   \* what the rows may be by what the teacher was told last
    mixed     \* {"save"}: a save was made while an older one was on its way;
              \* {"post"}: the server worked on two requests at once

history == <<saved, latest, mixed>>
coverage == <<online, fresh, heard>>
offlineVars == <<serverVars, coverage, queue, calls, serving, failures, history>>

CallStates == {"listed", "sent", "received", "ok", "error", "broken"}
Free(c)    == calls[c] = NoCall
\* Which of the free ones is used does not matter.
FirstFree  == CHOOSE c \in Calls : Free(c)
Of(t)      == {c \in Calls : calls[c].tab = t}
OfPage(t)  == {c \in Of(t) : calls[c].from = "page"}

Fail ==
    /\ failures < MaxFailures
    /\ failures' = failures + 1

Busy == {p \in Procs : pc[p] # "idle"}
FirstIdle == CHOOSE p \in Procs : pc[p] = "idle"

----------------------------------------------------------------------------
OfflineInit ==
    /\ ServerInit
    /\ online \in BOOLEAN
    /\ fresh \in SUBSET Tabs /\ (online => fresh = {})
    /\ heard = {}
    /\ queue = NoRoll
    /\ calls = [c \in Calls |-> NoCall]
    /\ serving = [p \in Procs |-> NoCall]
    /\ failures = 0
    /\ saved = <<>>
    /\ latest = {roll}
    /\ mixed = {}

Becoming(c, state) == [calls EXCEPT ![c].state = state]

\* The teacher presses save: older says whether an older save may still be on
\* its way.
Saves(r, older) ==
    /\ Len(saved) < MaxSaves
    /\ saved' = Append(saved, r)
    /\ mixed' = IF older \/ Busy # {} \/ \E c \in Calls : ~Free(c)
                THEN mixed \cup {"save"} ELSE mixed

----------------------------------------------------------------------------
(* The roll-call page: submit *)

\* The page is opened anew: what the tab waited for is forgotten, whatever the
\* server has received of it, and it starts as one that is online.
Load(t) ==
    /\ IF Of(t) = {} /\ t \notin heard THEN UNCHANGED failures ELSE Fail
    /\ calls' = [c \in Calls |-> IF c \in Of(t) THEN NoCall ELSE calls[c]]
    /\ serving' = [p \in Procs |-> IF serving[p] \in Of(t) THEN NoCall ELSE serving[p]]
    /\ fresh' = IF online THEN fresh ELSE fresh \cup {t}
    /\ heard' = heard \ {t}
    /\ latest' = latest \cup {calls[c].roll : c \in OfPage(t)}
    /\ UNCHANGED <<serverVars, online, queue, saved, mixed>>

\* Faulty variant of SaveOffline: the entry already stored for the key is kept.
SaveOfflineKeeping(t, r) ==
    /\ ~online
    /\ t \in fresh
    /\ Saves(r, FALSE)
    /\ queue' = IF queue = NoRoll THEN r ELSE queue
    /\ latest' = {r}
    /\ UNCHANGED <<serverVars, coverage, calls, serving, failures>>

\* Offline, in a tab that was loaded so: the entry of the key is replaced.
\* "Saved locally."
SaveOffline(t, r) ==
    /\ ~online
    /\ t \in fresh
    /\ Saves(r, FALSE)
    /\ queue' = r
    /\ latest' = {r}
    /\ UNCHANGED <<serverVars, coverage, calls, serving, failures>>

Posted(t, r) == [from |-> "page", tab |-> t, roll |-> r, state |-> "sent"]

\* Faulty variant of SaveOnline: the button can be pressed again.
SaveOnlineAgain(t, c, r) ==
    /\ online
    /\ Free(c) /\ c = FirstFree
    /\ Saves(r, queue # NoRoll)
    /\ calls' = [calls EXCEPT ![c] = Posted(t, r)]
    /\ UNCHANGED <<serverVars, coverage, queue, serving, failures, latest>>

\* Online, or a paused save that goes on now: posted at once; the button waits
\* for the answer. The queue is not looked at.
SaveOnline(t, c, r) ==
    /\ online
    /\ OfPage(t) = {}
    /\ Free(c) /\ c = FirstFree
    /\ Saves(r, queue # NoRoll)
    /\ calls' = [calls EXCEPT ![c] = Posted(t, r)]
    /\ UNCHANGED <<serverVars, coverage, queue, serving, failures, latest>>

\* The answer to the page: "Saved", or an error, after which the teacher cannot
\* know whether the server has stored the roll call.
PageAnswered(c) ==
    /\ calls[c].from = "page"
    /\ calls[c].state \in {"ok", "error", "broken"}
    /\ latest' = IF calls[c].state = "ok" THEN {calls[c].roll}
                 ELSE latest \cup {calls[c].roll}
    /\ calls' = [calls EXCEPT ![c] = NoCall]
    /\ UNCHANGED <<serverVars, coverage, queue, serving, failures, saved, mixed>>

----------------------------------------------------------------------------
(* SyncManager and flushQueue *)

GoOffline ==
    /\ online
    /\ online' = FALSE
    /\ UNCHANGED <<serverVars, fresh, heard, queue, calls, serving, failures, history>>

\* Faulty variant of GoOnline: nobody listens to the event.
GoOnlineUnheard ==
    /\ ~online
    /\ online' = TRUE
    /\ fresh' = {}
    /\ UNCHANGED <<serverVars, heard, queue, calls, serving, failures, history>>

\* The "online" event, which alone starts a flush, reaches every tab.
GoOnline ==
    /\ ~online
    /\ online' = TRUE
    /\ fresh' = {}
    /\ heard' = Tabs
    /\ UNCHANGED <<serverVars, queue, calls, serving, failures, history>>

\* A tab that heard it lists the queue. A flush that is still under way, there
\* or in another tab, is no obstacle.
List(t, c) ==
    /\ online
    /\ t \in heard
    /\ queue # NoRoll
    /\ Free(c) /\ c = FirstFree
    /\ heard' = heard \ {t}
    /\ calls' = [calls EXCEPT ![c] =
                    [from |-> "flush", tab |-> t, roll |-> queue, state |-> "listed"]]
    /\ UNCHANGED <<serverVars, online, fresh, queue, serving, failures, history>>

\* There is nothing to flush, or no coverage by now.
ListNothing(t) ==
    /\ t \in heard
    /\ queue = NoRoll \/ ~online
    /\ heard' = heard \ {t}
    /\ UNCHANGED <<serverVars, online, fresh, queue, calls, serving, failures, history>>

\* Its turn comes: what was listed is posted, whatever the queue holds now.
FlushSends(c) ==
    /\ calls[c].state = "listed"
    /\ calls' = Becoming(c, "sent")
    /\ UNCHANGED <<serverVars, coverage, queue, serving, failures, history>>

\* The post of another key's entry fails on the network: the flush is over.
FlushStops(c) ==
    /\ calls[c].state = "listed"
    /\ Fail
    /\ calls' = [calls EXCEPT ![c] = NoCall]
    /\ UNCHANGED <<serverVars, coverage, queue, serving, history>>

\* Faulty variant of FlushAnswered: the entry is removed whatever the answer.
FlushAnsweredRemoving(c) ==
    /\ calls[c].from = "flush"
    /\ calls[c].state \in {"ok", "error", "broken"}
    /\ queue' = NoRoll
    /\ calls' = [calls EXCEPT ![c] = NoCall]
    /\ UNCHANGED <<serverVars, coverage, serving, failures, history>>

\* 2xx: the entry of the key is removed. An error or a network failure: the
\* listed entry is put back with one more attempt.
FlushAnswered(c) ==
    /\ calls[c].from = "flush"
    /\ calls[c].state \in {"ok", "error", "broken"}
    /\ queue' = IF calls[c].state = "ok" THEN NoRoll ELSE calls[c].roll
    /\ calls' = [calls EXCEPT ![c] = NoCall]
    /\ UNCHANGED <<serverVars, coverage, serving, failures, history>>

----------------------------------------------------------------------------
(* The network *)

\* The request reaches the server.
Receive(p, c) ==
    /\ calls[c].state = "sent"
    /\ pc[p] = "idle" /\ p = FirstIdle
    /\ Post(p, calls[c].roll)
    /\ calls' = Becoming(c, "received")
    /\ serving' = [serving EXCEPT ![p] = c]
    /\ mixed' = IF Busy # {} THEN mixed \cup {"post"} ELSE mixed
    /\ UNCHANGED <<coverage, queue, failures, saved, latest>>

\* A check refuses it: no session, no term for the date, not enrolled.
Refuse(c) ==
    /\ calls[c].state = "sent"
    /\ Fail
    /\ calls' = Becoming(c, "error")
    /\ UNCHANGED <<serverVars, coverage, queue, serving, history>>

\* The connection breaks: the request, or only its answer, is lost. The server
\* goes on with what it has received.
Break(c) ==
    /\ calls[c].state \in {"sent", "received"}
    /\ Fail
    /\ calls' = Becoming(c, "broken")
    /\ serving' = [p \in Procs |-> IF serving[p] = c THEN NoCall ELSE serving[p]]
    /\ UNCHANGED <<serverVars, coverage, queue, history>>

\* The server answers the call that process p works on.
Answer(p, state) ==
    /\ calls' = IF serving[p] \in Calls THEN Becoming(serving[p], state) ELSE calls
    /\ serving' = [serving EXCEPT ![p] = NoCall]

\* The server fails a request, or dies with all of them.
RequestFails ==
    /\ Fail
    /\ \/ \E p \in Procs : UpsertFails(p) /\ Answer(p, "error")
       \/ /\ ServerDies
          /\ calls' = [c \in Calls |-> IF \E p \in Procs : serving[p] = c
                                       THEN [calls[c] EXCEPT !.state = "broken"] ELSE calls[c]]
          /\ serving' = [p \in Procs |-> NoCall]
    /\ UNCHANGED <<coverage, queue, history>>

\* The steps of a request, the last of which sends the answer.
RequestGoesOn(p) ==
    /\ \/ HandOver(p) /\ Answer(p, "ok")
       \/ (ReadBefore(p) \/ Upsert(p)) /\ UNCHANGED <<calls, serving>>
    /\ UNCHANGED <<coverage, queue, failures, history>>

----------------------------------------------------------------------------
CallStep(c) == PageAnswered(c) \/ FlushSends(c) \/ FlushAnswered(c)

OfflineNext ==
    \/ \E t \in Tabs : Load(t) \/ ListNothing(t) \/ \E c \in Calls : List(t, c)
    \/ \E t \in Tabs, r \in Rolls : SaveOffline(t, r) \/ \E c \in Calls : SaveOnline(t, c, r)
    \/ GoOffline \/ GoOnline
    \/ \E c \in Calls : CallStep(c) \/ FlushStops(c) \/ Refuse(c) \/ Break(c)
    \/ \E p \in Procs, c \in Calls : Receive(p, c)
    \/ \E p \in Procs : RequestGoesOn(p)
    \/ RequestFails

OfflineSpec == OfflineInit /\ [][OfflineNext]_offlineVars

\* Coverage comes back and goes away again: only the "online" event starts a
\* flush, and now and then it stays until a tab has listed the queue. The browser,
\* the network and the server go on, with one request or another: each takes a
\* bounded number of steps.
Working ==
    \/ \E c \in Calls : CallStep(c) \/ \E p \in Procs : Receive(p, c)
    \/ \E p \in Procs : RequestGoesOn(p)

OfflineFairness ==
    /\ WF_offlineVars(GoOffline \/ GoOnline)
    /\ SF_offlineVars(\E t \in Tabs, c \in Calls : List(t, c))
    /\ WF_offlineVars(Working)

FairOffline == OfflineSpec /\ OfflineFairness

----------------------------------------------------------------------------
(* Properties *)

\* The types of the variables, the server's included; a page waits for one
\* answer at a time, only a flush lists, and who has only just been loaded waits
\* for nothing.
OfflineTypeOK ==
    /\ ServerTypeOK
    /\ online \in BOOLEAN
    /\ fresh \subseteq Tabs /\ heard \subseteq Tabs
    /\ \A t \in fresh : ~online /\ t \notin heard /\ Of(t) = {}
    /\ queue \in Rolls \cup {NoRoll}
    /\ calls \in [Calls -> [from : {"page", "flush"}, tab : Tabs, roll : Rolls,
                              state : CallStates] \cup {NoCall}]
    /\ \A t \in Tabs : Cardinality(OfPage(t)) <= 1
    /\ \A c \in Calls : calls[c].state = "listed" => calls[c].from = "flush"
    /\ serving \in [Procs -> Calls \cup {NoCall}]
    /\ \A p \in Procs : serving[p] \in Calls =>
         calls[serving[p]].state = "received" /\ calls[serving[p]].roll = asked[p]
    /\ failures \in 0..MaxFailures
    /\ saved \in Seq(Rolls) /\ Len(saved) <= MaxSaves
    /\ latest \subseteq Rows
    /\ mixed \subseteq {"save", "post"}

\* Replaying a queued roll call does not alert a guardian again: a student gets
\* at most one absence alert for each time the teacher saved them as absent,
\* unless two posts were worked on at once.
ReplayAlertsOnce ==
    mixed = {} => \A s \in Students :
        Cardinality(AlertJobs(s)) <= Cardinality({k \in DOMAIN saved : saved[k][s] = "ABSENT"})

\* Replays alert once, and what the teacher was told is saved is not lost,
\* whatever fails: it is in the rows, in the queue or on its way, as long as no
\* save was made while an older one was still on its way.
PageWaits == \E c \in Calls : calls[c].from = "page"
LatestKept ==
    /\ ReplayAlertsOnce
    /\ "save" \notin mixed /\ ~PageWaits =>
         \/ roll \in latest
         \/ queue \in latest
         \/ \E c \in Calls : calls[c].roll \in latest

\* What is queued is uploaded in the end: an entry does not stay in the queue
\* for ever, once requests stop failing and coverage keeps coming back.
QueueDrains == queue # NoRoll ~> queue = NoRoll

\* "the user can keep tweaking and only the latest version uploads": when
\* nothing is queued or on its way any more, the rows are what was saved last.
Settled == queue = NoRoll /\ Busy = {} /\ \A c \in Calls : Free(c)
LatestVersionUploads == Settled => roll \in latest
=============================================================================
