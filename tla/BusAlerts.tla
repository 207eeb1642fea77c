----------------------------- MODULE BusAlerts ------------------------------
(***************************************************************************)
(* What the school bus tells people: a student has boarded, the bus comes  *)
(* near a stop, the bus has left its route.                                *)
(*                                                                         *)
(* Each alert is for once a day. A handler looks for an audit row of the   *)
(* alert, writes one if there is none, and only then raises the alert: the *)
(* opposite order to FeeReminders, and the opposite fault. Audit rows are  *)
(* not unique, so the row keeps out only those who look after it is there. *)
(*                                                                         *)
(* Positions are left out: a ping is the list of alerts it calls for.      *)
(***************************************************************************)
EXTENDS Handlers, SequencesExt

CONSTANTS
    Boardings,  \* alerts "has boarded", one for each student and day
    RouteAlerts \* the other alerts of a day: the deviation, then the stops of
                \* the route, in the order a ping takes them

ASSUME BusAssumptions ==
    /\ RouteAlerts \in Seq(ToSet(RouteAlerts))
    /\ Boardings \cap ToSet(RouteAlerts) = {}

VARIABLES
    stamped,  \* alerts with an audit row
    raised    \* how often each was raised

busVars == <<stamped, raised>>

Alerts == Boardings \cup ToSet(RouteAlerts)
Alert(p) == Head(job[p].list)

BusInit ==
    /\ stamped = {}
    /\ raised = [a \in Alerts |-> 0]

----------------------------------------------------------------------------
\* POST /api/transport/board, for a student with a route, by its driver.
Board(p, a) ==
    /\ Begin(p, [op |-> "board", list |-> <<a>>], "bus_dedupe")
    /\ UNCHANGED busVars

\* The places of the alerts of a ping, in the order of the route.
Places ==
    UNION {{at \in [1..n -> 1..Len(RouteAlerts)] : \A i, k \in 1..n : i < k => at[i] < at[k]} :
           n \in 1..Len(RouteAlerts)}

\* POST /api/transport/update-location: where the bus is decides which alerts
\* the ping calls for; at night the stops are left out.
Ping(p, places) ==
    /\ Begin(p, [op |-> "ping", list |-> [i \in DOMAIN places |-> RouteAlerts[places[i]]]], "bus_dedupe")
    /\ UNCHANGED busVars

\* The alert in hand is done with: the handler goes on to the next, or ends.
NextAlert(p) ==
    IF Len(job[p].list) = 1 THEN Finish(p)
    ELSE Carry(p, [job[p] EXCEPT !.list = Tail(@)], "bus_dedupe")

\* Faulty variant of LookForStamp: the row is looked for and not heeded.
LookForStampOnly(p) ==
    /\ pc[p] = "bus_dedupe"
    /\ GoTo(p, "bus_stamp")
    /\ UNCHANGED busVars

LookForStamp(p) ==
    /\ pc[p] = "bus_dedupe"
    /\ IF Alert(p) \in stamped THEN NextAlert(p) ELSE GoTo(p, "bus_stamp")
    /\ UNCHANGED busVars

\* "Stamp the dedupe row first so concurrent pings don't all fire alerts."
WriteStamp(p) ==
    /\ pc[p] = "bus_stamp"
    /\ stamped' = stamped \cup {Alert(p)}
    /\ GoTo(p, "bus_raise")
    /\ UNCHANGED raised

\* The text to the parents, or the notification to the administrators.
Raise(p) ==
    /\ pc[p] = "bus_raise"
    /\ raised' = [raised EXCEPT ![Alert(p)] = @ + 1]
    /\ NextAlert(p)
    /\ UNCHANGED stamped

\* A query of an alert throws, which ends the ping's alerts, or the process dies.
BusNext ==
    \/ \E p \in Procs, a \in Boardings : Board(p, a)
    \/ \E p \in Procs, places \in Places : Ping(p, places)
    \/ \E p \in Procs :
         \/ LookForStamp(p) \/ WriteStamp(p) \/ Raise(p)
         \/ Dies(p) /\ UNCHANGED busVars

BusSpec == HandlersInit /\ BusInit /\ [][BusNext]_<<handlerVars, busVars>>

----------------------------------------------------------------------------
(* Properties *)

BusStages == {"bus_dedupe", "bus_stamp", "bus_raise"}
\* No list is empty while a request is in progress.
BusJobs == [op : {"board", "ping"}, list : Seq(Alerts) \ {<<>>}]

BusTablesOK ==
    /\ stamped \subseteq Alerts
    /\ raised \in [Alerts -> Nat]

\* The types of the variables.
BusTypeOK == HandlersTypeOK(BusStages, BusJobs) /\ BusTablesOK

\* However often the driver taps and whatever dies, an alert is raised only
\* under its stamp, once for requests in turn, and for overlapping ones at most
\* once for each that was looking before the stamp was there. The stamp costs
\* an alert only by a fault: when nothing failed, what is stamped has been
\* raised by the time nobody works on it.
AlertsBounded ==
    \A a \in Alerts :
        /\ raised[a] > 0 => a \in stamped
        /\ raised[a] <= IF overlapped THEN Cardinality(Procs) ELSE 1
        /\ Quiescent /\ faults = 0 /\ a \in stamped => raised[a] > 0
=============================================================================
