---------------------------- MODULE OfficeProofs ----------------------------
(***************************************************************************)
(* Proofs about what the school's office sends and about the services of   *)
(* the operator console: bus alerts, fee reminders and announcements;      *)
(* message templates, referrals, refunds, subscriptions, promo codes with  *)
(* the schools that register on their own, and scheduled reports. For any  *)
(* number of requests at a time and faults, and any alerts, invoices,      *)
(* announcements, templates, referrals, charges, subscribers, codes and    *)
(* reports.                                                                *)
(***************************************************************************)
EXTENDS BusAlerts, FeeReminders, Announcements, MessageTemplates, Referrals,
        SubscriptionRefunds, Subscriptions, SchoolRegistration, ScheduledReports,
        HandlersProofs, SequenceTheorems

(* A sequence that has a length is not empty.                                *)
LEMMA NonEmpty == ASSUME NEW S, NEW list \in Seq(S), Len(list) >= 1 PROVE list # <<>>
<1>1. Len(list) # 0
    BY LenProperties
<1> QED BY <1>1, EmptySeq

(* A list that is worked on from its head ends with its last element.        *)
LEMMA NextInList ==
    ASSUME NEW S, NEW list \in Seq(S), list # <<>>
    PROVE  /\ Head(list) \in S /\ Tail(list) \in Seq(S)
           /\ Len(list) # 1 => Tail(list) # <<>>
<1>1. Head(list) \in S /\ Tail(list) \in Seq(S) /\ Len(Tail(list)) = Len(list) - 1
    BY HeadTailProperties
<1>2. Len(list) \in Nat \ {0}
    BY EmptySeq
<1>3. Len(list) # 1 => Len(Tail(list)) >= 1
    BY <1>1, <1>2
<1> QED BY <1>1, <1>3, NonEmpty

(* A sequence that grows by one.                                             *)
LEMMA Grown ==
    ASSUME NEW S, NEW list \in Seq(S), NEW x \in S
    PROVE  /\ Append(list, x) \in Seq(S)
           /\ Len(list) \in Nat /\ Len(Append(list, x)) = Len(list) + 1
           /\ DOMAIN list = 1..Len(list) /\ DOMAIN Append(list, x) = 1..(Len(list) + 1)
           /\ \A i \in 1..Len(list) : Append(list, x)[i] = list[i]
           /\ Append(list, x)[Len(list) + 1] = x
<1>1. /\ Append(list, x) \in Seq(S) /\ Len(Append(list, x)) = Len(list) + 1
      /\ \A i \in 1..Len(list) : Append(list, x)[i] = list[i]
      /\ Append(list, x)[Len(list) + 1] = x
    BY AppendProperties
<1>2. /\ Len(list) \in Nat /\ DOMAIN list = 1..Len(list)
    BY LenProperties
<1>3. DOMAIN Append(list, x) = 1..(Len(list) + 1)
    BY <1>1, LenProperties
<1> QED BY <1>1, <1>2, <1>3

----------------------------------------------------------------------------
(* Alerts of the school bus *)

(* Those who found no stamp of the alert, and those about to raise it.       *)
Alerting(a) == {p \in Procs : pc[p] \in {"bus_stamp", "bus_raise"} /\ Alert(p) = a}
Raising(a) == {p \in Procs : pc[p] = "bus_raise" /\ Alert(p) = a}

(* Raised and about to be is no more than looked before the stamp was there; *)
(* and only a fault comes between the stamp and the alert.                   *)
AlertsCounted ==
    \A a \in Alerts :
        /\ raised[a] + Cardinality(Alerting(a)) <= Width
        /\ a \notin stamped => raised[a] = 0 /\ Raising(a) = {}
        /\ faults = 0 /\ a \in stamped => raised[a] > 0 \/ Raising(a) # {}

BusInv == BusTypeOK /\ Lone /\ AlertsCounted

LEMMA BusInitial == HandlersInit /\ BusInit => BusInv
<1> SUFFICES ASSUME HandlersInit, BusInit PROVE BusInv
    OBVIOUS
<1>1. BusTypeOK /\ Lone /\ Quiescent
    BY HandlersInitType DEF BusInit, BusTypeOK, BusTablesOK
<1>2. ASSUME NEW a \in Alerts
      PROVE  /\ raised[a] + Cardinality(Alerting(a)) <= Width
             /\ a \notin stamped => raised[a] = 0 /\ Raising(a) = {}
             /\ a \notin stamped
    <2>1. Alerting(a) = {} /\ Raising(a) = {}
        BY <1>1 DEF Quiescent, Alerting, Raising
    <2>2. Cardinality(Alerting(a)) = 0
        BY <2>1, FS_EmptySet
    <2>3. Width = 1 /\ raised[a] = 0 /\ a \notin stamped
        BY DEF HandlersInit, BusInit, Width
    <2> QED BY <2>1, <2>2, <2>3
<1> QED BY <1>1, <1>2 DEF BusInv, AlertsCounted

(* Whoever moves, the count of those who work on an alert moves with them.   *)
LEMMA AlertingStep ==
    ASSUME BusInv, NEW p \in Procs, OthersStay(p), overlapped' \in BOOLEAN, overlapped => overlapped',
           Lone', NEW a \in Alerts
    PROVE  /\ Cardinality(Alerting(a)) \in Nat /\ Cardinality(Alerting(a))' \in Nat
           /\ Cardinality(Alerting(a))' <= Width'
           /\ p \notin Alerting(a)' => Cardinality(Alerting(a))' <= Cardinality(Alerting(a))
           /\ p \in Alerting(a) /\ p \notin Alerting(a)' =>
                Cardinality(Alerting(a)) = Cardinality(Alerting(a))' + 1
           /\ p \in Alerting(a) /\ p \in Alerting(a)' =>
                Cardinality(Alerting(a)) = Cardinality(Alerting(a))'
           /\ Width \in Nat /\ Width' \in Nat /\ Width <= Width'
           /\ raised[a] \in Nat /\ raised[a] + Cardinality(Alerting(a)) <= Width
           /\ \A q \in Procs : q # p => (q \in Raising(a) <=> q \in Raising(a)')
<1>1. Alerting(a) \in SUBSET Procs /\ Alerting(a)' \in SUBSET Procs
      /\ (~overlapped' => \A q, r \in Alerting(a)' : q = r)
    BY DEF Alerting, Lone
<1>2. \A q \in Procs : q # p => /\ q \in Alerting(a) <=> q \in Alerting(a)'
                                /\ q \in Raising(a) <=> q \in Raising(a)'
    BY DEF OthersStay, Alerting, Raising, Alert
<1>3. /\ Cardinality(Alerting(a)) \in Nat /\ Cardinality(Alerting(a)') \in Nat
      /\ p \in Alerting(a) /\ p \notin Alerting(a)' =>
            Cardinality(Alerting(a)) = Cardinality(Alerting(a)') + 1
      /\ (p \in Alerting(a) <=> p \in Alerting(a)') => Cardinality(Alerting(a)) = Cardinality(Alerting(a)')
    BY <1>1, <1>2, GroupStep
<1>4. Cardinality(Alerting(a)') <= IF overlapped' THEN Cardinality(Procs) ELSE 1
    BY <1>1, GroupBound
<1>5. Width \in Nat /\ Width' \in Nat /\ Width <= Width'
    BY WidthType DEF BusInv, BusTypeOK, HandlersTypeOK
<1>6. Cardinality(Alerting(a))' = Cardinality(Alerting(a)') /\ Width' = IF overlapped' THEN Cardinality(Procs) ELSE 1
    BY DEF Alerting, Width
<1>7. raised[a] \in Nat /\ raised[a] + Cardinality(Alerting(a)) <= Width
    BY DEF BusInv, BusTypeOK, BusTablesOK, AlertsCounted
<1> QED BY <1>2, <1>3, <1>4, <1>5, <1>6, <1>7

(* A step that looks for no stamp in vain, writes none and raises nothing.   *)
LEMMA BusFrame ==
    ASSUME BusInv, HandlersTypeOK(BusStages, BusJobs)', Lone', NEW p \in Procs, OthersStay(p),
           overlapped => overlapped',
           UNCHANGED busVars, pc'[p] \notin {"bus_stamp", "bus_raise"},
           faults' = 0 => faults = 0 /\ pc[p] # "bus_raise"
    PROVE  BusInv'
<1>1. overlapped' \in BOOLEAN /\ UNCHANGED <<stamped, raised>>
    BY DEF HandlersTypeOK, busVars
<1>2. ASSUME NEW a \in Alerts
      PROVE  /\ raised'[a] + Cardinality(Alerting(a))' <= Width'
             /\ a \notin stamped' => raised'[a] = 0 /\ Raising(a)' = {}
             /\ faults' = 0 /\ a \in stamped' => raised'[a] > 0 \/ Raising(a)' # {}
    <2>1. p \notin Alerting(a)' /\ p \notin Raising(a)'
        BY DEF Alerting, Raising
    <2>2. raised'[a] + Cardinality(Alerting(a))' <= Width'
        BY <1>1, <2>1, AlertingStep
    <2>3. \A q \in Procs : q # p => (q \in Raising(a) <=> q \in Raising(a)')
        BY <1>1, AlertingStep
    <2>4. Raising(a) \subseteq Procs /\ Raising(a)' \subseteq Procs /\ (p \in Raising(a) => pc[p] = "bus_raise")
        BY DEF Raising
    <2>5. /\ a \notin stamped => raised[a] = 0 /\ Raising(a) = {}
          /\ faults = 0 /\ a \in stamped => raised[a] > 0 \/ Raising(a) # {}
        BY DEF BusInv, AlertsCounted
    <2> QED BY <1>1, <2>1, <2>2, <2>3, <2>4, <2>5
<1> QED BY <1>1, <1>2 DEF BusInv, BusTypeOK, BusTablesOK, AlertsCounted

(* The alert in hand is one of the alerts.                                   *)
LEMMA AlertType ==
    ASSUME BusTypeOK, NEW p \in Procs, pc[p] # "idle"
    PROVE  /\ Alert(p) \in Alerts
           /\ job[p].list \in Seq(Alerts) /\ Tail(job[p].list) \in Seq(Alerts)
           /\ Len(job[p].list) # 1 => Tail(job[p].list) # <<>>
<1>1. job[p] \in BusJobs
    BY DEF BusTypeOK, HandlersTypeOK
<1>2. job[p].list \in Seq(Alerts) /\ job[p].list # <<>>
    BY <1>1 DEF BusJobs
<1> QED BY <1>2, NextInList DEF Alert

(* What a ping calls for is a list of alerts.                                *)
LEMMA CalledType ==
    ASSUME NEW places \in Places
    PROVE  [i \in DOMAIN places |-> RouteAlerts[places[i]]] \in Seq(Alerts) \ {<<>>}
<1> DEFINE list == [i \in DOMAIN places |-> RouteAlerts[places[i]]]
<1>1. RouteAlerts \in Seq(ToSet(RouteAlerts))
    BY BusAssumptions DEF BusAssumptions
<1>2. Len(RouteAlerts) \in Nat /\ \A i \in 1..Len(RouteAlerts) : RouteAlerts[i] \in Alerts
    BY <1>1, LenProperties, ElementOfSeq DEF Alerts
<1>3. PICK n \in 1..Len(RouteAlerts) : places \in [1..n -> 1..Len(RouteAlerts)]
    BY DEF Places
<1>4. n \in Nat /\ n >= 1 /\ list \in [1..n -> Alerts]
    BY <1>2, <1>3
<1>5. list \in Seq(Alerts) /\ Len(list) = n
    BY <1>4, IsASeq, LenProperties
<1> QED BY <1>4, <1>5, NonEmpty

(* The alert in hand is done with.                                           *)
LEMMA NextAlertStep ==
    ASSUME BusInv, NEW p \in Procs, pc[p] # "idle", NextAlert(p)
    PROVE  /\ HandlersTypeOK(BusStages, BusJobs)' /\ Lone' /\ OthersStay(p)
           /\ pc'[p] \in {"idle", "bus_dedupe"}
           /\ faults' = faults /\ overlapped' = overlapped
<1>1. HandlersTypeOK(BusStages, BusJobs) /\ Lone /\ "idle" \notin BusStages /\ "bus_dedupe" \in BusStages
    BY DEF BusInv, BusTypeOK, BusStages
<1>2. CASE Len(job[p].list) = 1
    <2>1. Finish(p)
        BY <1>2 DEF NextAlert
    <2> QED BY <1>1, <2>1, FinishStep
<1>3. CASE Len(job[p].list) # 1
    <2> DEFINE j == [job[p] EXCEPT !.list = Tail(@)]
    <2>1. Carry(p, j, "bus_dedupe")
        BY <1>3 DEF NextAlert
    <2>2. job[p] \in BusJobs /\ Tail(job[p].list) \in Seq(Alerts) \ {<<>>}
        BY <1>1, <1>3, AlertType DEF HandlersTypeOK, BusInv
    <2>3. j \in BusJobs
        BY <2>2 DEF BusJobs
    <2> HIDE DEF j
    <2> QED BY <1>1, <2>1, <2>3, CarryStep
<1> QED BY <1>2, <1>3

(* Every step keeps the invariant.                                           *)
LEMMA BusStep == BusInv /\ [BusNext]_<<handlerVars, busVars>> => BusInv'
<1> SUFFICES ASSUME BusInv, [BusNext]_<<handlerVars, busVars>> PROVE BusInv'
    OBVIOUS
<1>0. /\ HandlersTypeOK(BusStages, BusJobs) /\ Lone /\ faults \in Nat /\ overlapped \in BOOLEAN
      /\ BusTablesOK /\ "idle" \notin BusStages /\ {"bus_dedupe", "bus_stamp", "bus_raise"} \subseteq BusStages
    BY HandlersAssumptions DEF BusInv, BusTypeOK, BusStages, HandlersTypeOK, HandlersAssumptions
<1>1. ASSUME NEW p \in Procs, NEW j \in BusJobs, Begin(p, j, "bus_dedupe"), UNCHANGED busVars
      PROVE  BusInv'
    <2>1. /\ HandlersTypeOK(BusStages, BusJobs)' /\ Lone' /\ OthersStay(p)
          /\ pc[p] = "idle" /\ pc'[p] = "bus_dedupe"
          /\ faults' = faults /\ (overlapped => overlapped')
        BY <1>0, <1>1, BeginStep
    <2> QED BY <1>1, <2>1, BusFrame
<1>2. ASSUME NEW p \in Procs, LookForStamp(p)
      PROVE  BusInv'
    <2>1. pc[p] = "bus_dedupe" /\ UNCHANGED busVars
        BY <1>2 DEF LookForStamp
    <2>2. CASE NextAlert(p)
        BY <2>1, <2>2, NextAlertStep, BusFrame
    <2>3. CASE Alert(p) \notin stamped /\ GoTo(p, "bus_stamp")
        <3>1. /\ pc'[p] = "bus_stamp" /\ job' = job /\ OthersStay(p)
              /\ faults' = faults /\ overlapped' = overlapped
              /\ HandlersTypeOK(BusStages, BusJobs)' /\ Lone'
            BY <1>0, <2>1, <2>3, GoToStep
        <3>2. overlapped' \in BOOLEAN /\ BusTypeOK'
            BY <1>0, <2>1, <3>1 DEF BusTypeOK, BusTablesOK, busVars
        <3>3. ASSUME NEW a \in Alerts
              PROVE  /\ raised'[a] + Cardinality(Alerting(a))' <= Width'
                     /\ a \notin stamped' => raised'[a] = 0 /\ Raising(a)' = {}
                     /\ faults' = 0 /\ a \in stamped' => raised'[a] > 0 \/ Raising(a)' # {}
            <4>1. Raising(a)' = Raising(a)
                BY <2>1, <3>1 DEF OthersStay, Raising, Alert
            <4>2. /\ a \notin stamped => raised[a] = 0 /\ Raising(a) = {}
                  /\ faults = 0 /\ a \in stamped => raised[a] > 0 \/ Raising(a) # {}
                BY DEF BusInv, AlertsCounted
            <4>3. raised' = raised /\ stamped' = stamped
                BY <2>1 DEF busVars
            <4>4. CASE p \in Alerting(a)'
                <5>1. a \notin stamped
                    BY <2>3, <3>1, <4>4 DEF Alerting, Alert
                <5>2. Cardinality(Alerting(a))' <= Width' /\ Width' \in Nat /\ Cardinality(Alerting(a))' \in Nat
                    BY <3>1, <3>2, AlertingStep
                <5> QED BY <3>1, <4>1, <4>2, <4>3, <5>1, <5>2
            <4>5. CASE p \notin Alerting(a)'
                <5>1. raised'[a] + Cardinality(Alerting(a))' <= Width'
                    BY <3>1, <3>2, <4>3, <4>5, AlertingStep
                <5> QED BY <3>1, <4>1, <4>2, <4>3, <5>1
            <4> QED BY <4>4, <4>5
        <3> QED BY <3>1, <3>2, <3>3 DEF BusInv, AlertsCounted
    <2> QED BY <1>2, <2>2, <2>3 DEF LookForStamp
<1>3. ASSUME NEW p \in Procs, WriteStamp(p)
      PROVE  BusInv'
    <2>1. /\ pc[p] = "bus_stamp" /\ stamped' = stamped \cup {Alert(p)} /\ raised' = raised
          /\ GoTo(p, "bus_raise")
        BY <1>3 DEF WriteStamp
    <2>2. /\ pc'[p] = "bus_raise" /\ job' = job /\ OthersStay(p)
          /\ faults' = faults /\ overlapped' = overlapped
          /\ HandlersTypeOK(BusStages, BusJobs)' /\ Lone'
        BY <1>0, <2>1, GoToStep
    <2>3. overlapped' \in BOOLEAN /\ BusTypeOK'
        <3>1. Alert(p) \in Alerts
            BY <2>1, AlertType DEF BusInv
        <3> QED BY <1>0, <2>1, <2>2, <3>1 DEF BusTypeOK, BusTablesOK
    <2>4. ASSUME NEW a \in Alerts
          PROVE  /\ raised'[a] + Cardinality(Alerting(a))' <= Width'
                 /\ a \notin stamped' => raised'[a] = 0 /\ Raising(a)' = {}
                 /\ faults' = 0 /\ a \in stamped' => raised'[a] > 0 \/ Raising(a)' # {}
        <3>1. /\ p \in Alerting(a) <=> Alert(p) = a
              /\ p \in Alerting(a)' <=> Alert(p) = a
              /\ p \in Raising(a)' <=> Alert(p) = a
              /\ p \notin Raising(a)
            BY <2>1, <2>2 DEF Alerting, Raising, Alert
        <3>2. raised'[a] + Cardinality(Alerting(a))' <= Width'
            BY <2>1, <2>2, <2>3, <3>1, AlertingStep
        <3>3. \A q \in Procs : q # p => (q \in Raising(a) <=> q \in Raising(a)')
            BY <2>2, <2>3, AlertingStep
        <3>4. Raising(a) \subseteq Procs /\ Raising(a)' \subseteq Procs
            BY DEF Raising
        <3>5. /\ a \notin stamped => raised[a] = 0 /\ Raising(a) = {}
              /\ faults = 0 /\ a \in stamped => raised[a] > 0 \/ Raising(a) # {}
            BY DEF BusInv, AlertsCounted
        <3> QED BY <2>1, <2>2, <3>1, <3>2, <3>3, <3>4, <3>5
    <2> QED BY <2>2, <2>3, <2>4 DEF BusInv, AlertsCounted
<1>4. ASSUME NEW p \in Procs, Raise(p)
      PROVE  BusInv'
    <2>1. /\ pc[p] = "bus_raise" /\ stamped' = stamped /\ NextAlert(p)
          /\ raised' = [raised EXCEPT ![Alert(p)] = @ + 1]
        BY <1>4 DEF Raise
    <2>2. /\ HandlersTypeOK(BusStages, BusJobs)' /\ Lone' /\ OthersStay(p)
          /\ pc'[p] \in {"idle", "bus_dedupe"}
          /\ faults' = faults /\ overlapped' = overlapped /\ overlapped' \in BOOLEAN
        BY <1>0, <2>1, NextAlertStep
    <2>3. Alert(p) \in Alerts /\ raised \in [Alerts -> Nat] /\ BusTypeOK'
        <3>1. Alert(p) \in Alerts /\ raised \in [Alerts -> Nat]
            BY <1>0, <2>1, AlertType DEF BusInv, BusTablesOK
        <3>2. raised[Alert(p)] + 1 \in Nat
            BY <3>1
        <3> QED BY <1>0, <2>1, <2>2, <3>1, <3>2 DEF BusTypeOK, BusTablesOK
    <2>4. ASSUME NEW a \in Alerts
          PROVE  /\ raised'[a] + Cardinality(Alerting(a))' <= Width'
                 /\ a \notin stamped' => raised'[a] = 0 /\ Raising(a)' = {}
                 /\ faults' = 0 /\ a \in stamped' => raised'[a] > 0 \/ Raising(a)' # {}
        <3>1. /\ p \in Alerting(a) <=> Alert(p) = a
              /\ p \in Raising(a) <=> Alert(p) = a
              /\ p \notin Alerting(a)' /\ p \notin Raising(a)'
            BY <2>1, <2>2 DEF Alerting, Raising
        <3>2. \A q \in Procs : q # p => (q \in Raising(a) <=> q \in Raising(a)')
            BY <2>2, AlertingStep
        <3>3. Raising(a) \subseteq Procs /\ Raising(a)' \subseteq Procs
            BY DEF Raising
        <3>4. /\ a \notin stamped => raised[a] = 0 /\ Raising(a) = {}
              /\ faults = 0 /\ a \in stamped => raised[a] > 0 \/ Raising(a) # {}
            BY DEF BusInv, AlertsCounted
        <3>5. CASE Alert(p) = a
            <4>1. raised'[a] = raised[a] + 1 /\ raised[a] \in Nat
                BY <2>1, <2>3, <3>5
            <4>2. raised'[a] + Cardinality(Alerting(a))' <= Width'
                BY <2>2, <3>1, <3>5, <4>1, AlertingStep
            <4>3. a \in stamped
                BY <3>1, <3>4, <3>5
            <4> QED BY <2>1, <4>1, <4>2, <4>3
        <3>6. CASE Alert(p) # a
            <4>1. raised'[a] = raised[a]
                BY <2>1, <2>3, <3>6
            <4>2. raised'[a] + Cardinality(Alerting(a))' <= Width'
                BY <2>2, <3>1, <4>1, AlertingStep
            <4> QED BY <2>1, <2>2, <3>1, <3>2, <3>3, <3>4, <3>6, <4>1, <4>2
        <3> QED BY <3>5, <3>6
    <2> QED BY <2>2, <2>3, <2>4 DEF BusInv, AlertsCounted
<1>5. ASSUME NEW p \in Procs, Dies(p), UNCHANGED busVars
      PROVE  BusInv'
    <2>1. /\ HandlersTypeOK(BusStages, BusJobs)' /\ Lone' /\ OthersStay(p)
          /\ pc'[p] = "idle" /\ faults' # 0 /\ overlapped' = overlapped
        <3>1. pc[p] # "idle"
            BY <1>5 DEF Dies
        <3> QED BY <1>0, <1>5, <3>1, FinishStep
    <2> QED BY <1>5, <2>1, BusFrame
<1>6. CASE UNCHANGED <<handlerVars, busVars>>
    <2>1. /\ HandlersTypeOK(BusStages, BusJobs)' /\ Lone'
          /\ UNCHANGED <<pc, job, faults, overlapped, stamped, raised>>
        BY <1>0, <1>6, HandlersStutter DEF busVars
    <2> QED BY <1>0, <2>1 DEF BusInv, BusTypeOK, BusTablesOK, AlertsCounted, Alerting, Raising, Alert, Width
<1>7. ASSUME NEW p \in Procs, NEW a \in Boardings, Board(p, a)
      PROVE  BusInv'
    <2>1. [op |-> "board", list |-> <<a>>] \in BusJobs
        <3>1. a \in Alerts /\ <<a>> \in Seq(Alerts) /\ <<a>> # <<>>
            BY DEF Alerts
        <3> QED BY <3>1 DEF BusJobs
    <2> QED BY <1>1, <1>7, <2>1 DEF Board
<1>8. ASSUME NEW p \in Procs, NEW places \in Places, Ping(p, places)
      PROVE  BusInv'
    <2> DEFINE list == [i \in DOMAIN places |-> RouteAlerts[places[i]]]
    <2>1. list \in Seq(Alerts) \ {<<>>}
        BY CalledType
    <2> HIDE DEF list
    <2>2. [op |-> "ping", list |-> list] \in BusJobs
        BY <2>1 DEF BusJobs
    <2>3. Begin(p, [op |-> "ping", list |-> list], "bus_dedupe") /\ UNCHANGED busVars
        BY <1>8 DEF Ping, list
    <2> QED BY <1>1, <2>2, <2>3
<1> QED BY <1>2, <1>3, <1>4, <1>5, <1>6, <1>7, <1>8 DEF BusNext

(* The tables and the requests of the school bus keep their types: every     *)
(* handler in progress has an alert in hand, and stamps and raises are of    *)
(* alerts there are.                                                         *)
THEOREM BusTypes == BusSpec => []BusTypeOK
<1>1. BusInv => BusTypeOK
    BY DEF BusInv
<1> QED BY <1>1, BusInitial, BusStep, PTL DEF BusSpec

(* An alert is raised only under its stamp, once for requests in turn and    *)
(* once for each that looks before the stamp is there otherwise; and what is *)
(* stamped has been raised once nobody works on it, unless something failed. *)
THEOREM AlertsStayBounded == BusSpec => []AlertsBounded
<1>1. BusInv => AlertsBounded
    <2> SUFFICES ASSUME BusInv, NEW a \in Alerts
                 PROVE  /\ raised[a] > 0 => a \in stamped
                        /\ raised[a] <= IF overlapped THEN Cardinality(Procs) ELSE 1
                        /\ Quiescent /\ faults = 0 /\ a \in stamped => raised[a] > 0
        BY DEF AlertsBounded
    <2>1. Alerting(a) \in SUBSET Procs /\ (~overlapped => \A p, q \in Alerting(a) : p = q)
        BY DEF BusInv, Lone, Alerting
    <2>2. Cardinality(Alerting(a)) \in Nat
        BY <2>1, GroupBound
    <2>3. IsFiniteSet(Procs)
        BY HandlersAssumptions DEF HandlersAssumptions
    <2>4. raised[a] \in Nat /\ Width \in Nat /\ raised[a] + Cardinality(Alerting(a)) <= Width
        BY <2>3, FS_CardinalityType DEF BusInv, BusTypeOK, BusTablesOK, AlertsCounted, Width
    <2>5. raised[a] <= Width
        BY <2>2, <2>4
    <2>6. Quiescent => Raising(a) = {}
        BY DEF Quiescent, Raising
    <2> QED BY <2>4, <2>5, <2>6 DEF BusInv, AlertsCounted, Width
<1> QED BY <1>1, BusInitial, BusStep, PTL DEF BusSpec

----------------------------------------------------------------------------
(* Fee reminders *)

(* A run has an offset in hand while it works on the invoices read for it,   *)
(* and an invoice while it texts about it.                                   *)
RunAt(p) ==
    /\ pc[p] \in {"rem_dedupe", "rem_send", "rem_note"} => job[p].offsets # <<>>
    /\ pc[p] \in {"rem_send", "rem_note"} => job[p].bill \in Bills

(* Those who found no note and will send the text, and those who have sent   *)
(* it and will write the note.                                               *)
Sending(b, o) == {p \in Procs : pc[p] = "rem_send" /\ job[p].bill = b /\ Offset(p) = o}
Noting(b, o) == {p \in Procs : pc[p] = "rem_note" /\ job[p].bill = b /\ Offset(p) = o}

(* Without a note every text has somebody who will write it, or died before; *)
(* once there is one, only those who looked before it was there still send.  *)
TextsCounted ==
    \A b \in Bills, o \in OffsetSet :
        /\ Noted(b, o) => texts[<<b, o>>] + Cardinality(Sending(b, o)) <= faults + Width
        /\ ~Noted(b, o) => texts[<<b, o>>] <= faults + Cardinality(Noting(b, o))

RemindersInv ==
    /\ RemindersTypeOK /\ Lone
    /\ \A p \in Procs : RunAt(p)
    /\ TextsCounted

(* The offsets are in the set of the offsets, and so are those left of them. *)
LEMMA OffsetsType ==
    /\ Offsets \in Seq(OffsetSet)
    /\ \A list \in Seq(OffsetSet) : list # <<>> => Head(list) \in OffsetSet /\ Tail(list) \in Seq(OffsetSet)
<1>1. Offsets \in Seq(Int)
    BY ReminderAssumptions DEF ReminderAssumptions
<1>2. /\ Len(Offsets) \in Nat /\ DOMAIN Offsets = 1..Len(Offsets)
      /\ Offsets = [i \in 1..Len(Offsets) |-> Offsets[i]]
    BY <1>1, LenProperties
<1>3. \A i \in 1..Len(Offsets) : Offsets[i] \in OffsetSet
    BY <1>2 DEF OffsetSet, ToSet
<1>4. Offsets \in [1..Len(Offsets) -> OffsetSet]
    BY <1>2, <1>3
<1>5. Offsets \in Seq(OffsetSet)
    BY <1>2, <1>4, IsASeq
<1> HIDE DEF OffsetSet
<1>6. ASSUME NEW list \in Seq(OffsetSet), list # <<>>
      PROVE  Head(list) \in OffsetSet /\ Tail(list) \in Seq(OffsetSet)
    BY <1>6, HeadTailProperties
<1> QED BY <1>5, <1>6

LEMMA RemindersInitial == HandlersInit /\ RemindersInit => RemindersInv
<1> SUFFICES ASSUME HandlersInit, RemindersInit PROVE RemindersInv
    OBVIOUS
<1>1. HandlersTypeOK(ReminderStages, ReminderJobs) /\ Lone /\ Quiescent
    BY HandlersInitType
<1>2. ReminderTablesOK
    BY DEF RemindersInit, ReminderTablesOK
<1>3. \A p \in Procs : RunAt(p)
    BY <1>1 DEF Quiescent, RunAt
<1>4. TextsCounted
    <2> SUFFICES ASSUME NEW b \in Bills, NEW o \in OffsetSet
                 PROVE  ~Noted(b, o) /\ texts[<<b, o>>] <= faults + Cardinality(Noting(b, o))
        BY DEF TextsCounted
    <2>1. Noting(b, o) = {}
        BY <1>1 DEF Quiescent, Noting
    <2>2. texts[<<b, o>>] = 0 /\ faults = 0 /\ ~Noted(b, o)
        BY DEF RemindersInit, HandlersInit, Noted
    <2>3. Cardinality(Noting(b, o)) = 0
        BY <2>1, FS_EmptySet
    <2> QED BY <2>2, <2>3
<1> QED BY <1>1, <1>2, <1>3, <1>4 DEF RemindersInv, RemindersTypeOK

(* How the groups change with the run that moves.                            *)
LEMMA SendingStep ==
    ASSUME RemindersInv, NEW p \in Procs, OthersStay(p), overlapped' \in BOOLEAN, overlapped => overlapped',
           NEW b \in Bills, NEW o \in OffsetSet
    PROVE  /\ Cardinality(Sending(b, o)) \in Nat /\ Cardinality(Sending(b, o))' \in Nat
           /\ Cardinality(Noting(b, o)) \in Nat /\ Cardinality(Noting(b, o))' \in Nat
           /\ p \in Sending(b, o) /\ p \notin Sending(b, o)' =>
                Cardinality(Sending(b, o)) = Cardinality(Sending(b, o))' + 1
           /\ p \notin Sending(b, o) /\ p \notin Sending(b, o)' =>
                Cardinality(Sending(b, o)) = Cardinality(Sending(b, o))'
           /\ p \in Noting(b, o) /\ p \notin Noting(b, o)' =>
                Cardinality(Noting(b, o)) = Cardinality(Noting(b, o))' + 1
           /\ p \notin Noting(b, o) /\ p \in Noting(b, o)' =>
                Cardinality(Noting(b, o))' = Cardinality(Noting(b, o)) + 1
           /\ p \notin Noting(b, o) /\ p \notin Noting(b, o)' =>
                Cardinality(Noting(b, o)) = Cardinality(Noting(b, o))'
           /\ Cardinality(Sending(b, o)) + Cardinality(Noting(b, o)) <= Width
           /\ Width \in Nat /\ Width' \in Nat /\ Width <= Width'
           /\ texts[<<b, o>>] \in Nat /\ faults \in Nat
<1> DEFINE S == Sending(b, o)
           N == Noting(b, o)
<1>1. S \in SUBSET Procs /\ N \in SUBSET Procs /\ S' \in SUBSET Procs /\ N' \in SUBSET Procs
    BY DEF Sending, Noting
<1>2. \A q \in Procs : q # p => (q \in S <=> q \in S') /\ (q \in N <=> q \in N')
    BY DEF OthersStay, Sending, Noting, Offset
<1>3. Cardinality(S)' = Cardinality(S') /\ Cardinality(N)' = Cardinality(N')
    BY DEF Sending, Noting
<1>4. S \cap N = {} /\ S \cup N \in SUBSET Procs /\ (~overlapped => \A q, r \in S \cup N : q = r)
    BY DEF RemindersInv, Lone, Sending, Noting
<1> HIDE DEF S, N
<1>5. /\ Cardinality(S) \in Nat /\ Cardinality(S') \in Nat
      /\ p \in S /\ p \notin S' => Cardinality(S) = Cardinality(S') + 1
      /\ (p \in S <=> p \in S') => Cardinality(S) = Cardinality(S')
    BY <1>1, <1>2, GroupStep
<1>6. /\ Cardinality(N) \in Nat /\ Cardinality(N') \in Nat
      /\ p \in N /\ p \notin N' => Cardinality(N) = Cardinality(N') + 1
      /\ p \notin N /\ p \in N' => Cardinality(N') = Cardinality(N) + 1
      /\ (p \in N <=> p \in N') => Cardinality(N) = Cardinality(N')
    BY <1>1, <1>2, GroupStep
<1>7. Cardinality(S \cup N) <= Width
    BY <1>4, GroupBound DEF Width
<1>8. Cardinality(S) + Cardinality(N) = Cardinality(S \cup N)
    <2>1. IsFiniteSet(S) /\ IsFiniteSet(N)
        BY <1>1, HandlersAssumptions, FS_Subset DEF HandlersAssumptions
    <2>2. Cardinality(S \cup N) = Cardinality(S) + Cardinality(N) - Cardinality(S \cap N)
        BY <2>1, FS_Union
    <2>3. Cardinality(S \cap N) = 0
        BY <1>4, FS_EmptySet
    <2> QED BY <1>5, <1>6, <2>2, <2>3
<1>9. Width \in Nat /\ Width' \in Nat /\ Width <= Width'
    BY WidthType DEF RemindersInv, RemindersTypeOK, HandlersTypeOK
<1>10. texts[<<b, o>>] \in Nat /\ faults \in Nat
    <2>1. <<b, o>> \in Bills \X OffsetSet /\ texts \in [Bills \X OffsetSet -> Nat]
        BY DEF RemindersInv, RemindersTypeOK, ReminderTablesOK
    <2>2. faults \in Nat
        BY HandlersAssumptions DEF HandlersAssumptions, RemindersInv, RemindersTypeOK, HandlersTypeOK
    <2> QED BY <2>1, <2>2
<1> QED BY <1>3, <1>5, <1>6, <1>7, <1>8, <1>9, <1>10 DEF S, N

(* A run that sends nothing and notes nothing: it leaves a text without its  *)
(* note only by a fault.                                                     *)
LEMMA RemindersFrame ==
    ASSUME RemindersInv, HandlersTypeOK(ReminderStages, ReminderJobs)', Lone',
           NEW p \in Procs, OthersStay(p), overlapped => overlapped', UNCHANGED reminderVars,
           faults' \in Nat, faults' >= faults, pc[p] = "rem_note" => faults' > faults,
           pc'[p] # "rem_note", RunAt(p)',
           pc'[p] = "rem_send" => ~Noted(job'[p].bill, Offset(p)')
    PROVE  RemindersInv'
<1>1. overlapped' \in BOOLEAN /\ UNCHANGED <<owing, day, notes, texts>>
    BY DEF HandlersTypeOK, reminderVars
<1>2. ReminderTablesOK' /\ \A q \in Procs : RunAt(q)'
    BY <1>1 DEF RemindersInv, RemindersTypeOK, ReminderTablesOK, RunAt, OthersStay
<1>3. ASSUME NEW b \in Bills, NEW o \in OffsetSet
      PROVE  /\ Noted(b, o)' => texts'[<<b, o>>] + Cardinality(Sending(b, o))' <= faults' + Width'
             /\ ~Noted(b, o)' => texts'[<<b, o>>] <= faults' + Cardinality(Noting(b, o))'
    <2>1. /\ Noted(b, o)' = Noted(b, o) /\ p \notin Noting(b, o)'
          /\ p \in Noting(b, o) => pc[p] = "rem_note"
          /\ p \in Sending(b, o)' => ~Noted(b, o)
        BY <1>1 DEF Noted, Sending, Noting, Offset
    <2>2. CASE Noted(b, o)
        <3>1. texts[<<b, o>>] + Cardinality(Sending(b, o)) <= faults + Width
            BY <2>2 DEF RemindersInv, TextsCounted
        <3>2. Cardinality(Sending(b, o))' <= Cardinality(Sending(b, o))
              /\ Cardinality(Sending(b, o))' \in Nat /\ Cardinality(Sending(b, o)) \in Nat
            <4>1. /\ p \notin Sending(b, o)'
                  /\ Cardinality(Sending(b, o))' \in Nat /\ Cardinality(Sending(b, o)) \in Nat
                BY <1>1, <2>1, <2>2, SendingStep
            <4>2. p \in Sending(b, o) => Cardinality(Sending(b, o)) = Cardinality(Sending(b, o))' + 1
                BY <1>1, <4>1, SendingStep
            <4>3. p \notin Sending(b, o) => Cardinality(Sending(b, o)) = Cardinality(Sending(b, o))'
                BY <1>1, <4>1, SendingStep
            <4> QED BY <4>1, <4>2, <4>3
        <3>3. texts[<<b, o>>] \in Nat /\ faults \in Nat /\ Width \in Nat /\ Width' \in Nat /\ Width <= Width'
            BY <1>1, SendingStep
        <3> QED BY <1>1, <2>1, <2>2, <3>1, <3>2, <3>3
    <2>3. CASE ~Noted(b, o)
        <3>1. texts[<<b, o>>] <= faults + Cardinality(Noting(b, o))
            BY <2>3 DEF RemindersInv, TextsCounted
        <3>2. /\ Cardinality(Noting(b, o))' \in Nat /\ Cardinality(Noting(b, o)) \in Nat
              /\ p \in Noting(b, o) => Cardinality(Noting(b, o)) = Cardinality(Noting(b, o))' + 1
              /\ p \notin Noting(b, o) => Cardinality(Noting(b, o)) = Cardinality(Noting(b, o))'
              /\ texts[<<b, o>>] \in Nat /\ faults \in Nat
            BY <1>1, <2>1, SendingStep
        <3> QED BY <1>1, <2>1, <2>3, <3>1, <3>2
    <2> QED BY <2>2, <2>3
<1> QED BY <1>2, <1>3 DEF RemindersInv, RemindersTypeOK, TextsCounted

(* The text goes out: it is owed a note, or one is there already.            *)
LEMMA ReminderSent ==
    ASSUME RemindersInv, NEW p \in Procs, pc[p] = "rem_send", GoTo(p, "rem_note"),
           texts' = [texts EXCEPT ![<<job[p].bill, Offset(p)>>] = @ + 1],
           UNCHANGED <<owing, day, notes>>
    PROVE  RemindersInv'
<1>1. /\ HandlersTypeOK(ReminderStages, ReminderJobs) /\ Lone /\ ReminderTablesOK
      /\ "idle" \notin ReminderStages /\ "rem_note" \in ReminderStages
    BY DEF RemindersInv, RemindersTypeOK, ReminderStages
<1>2. PICK b \in Bills, o \in OffsetSet : job[p].bill = b /\ Offset(p) = o
    <2>1. job[p].bill \in Bills /\ job[p].offsets # <<>> /\ job[p].offsets \in Seq(OffsetSet)
        BY <1>1 DEF RemindersInv, RunAt, HandlersTypeOK, ReminderJobs
    <2> QED BY <2>1, OffsetsType DEF Offset
<1>3. /\ HandlersTypeOK(ReminderStages, ReminderJobs)' /\ Lone' /\ pc'[p] = "rem_note" /\ job' = job
      /\ OthersStay(p) /\ overlapped' = overlapped /\ faults' = faults /\ overlapped' \in BOOLEAN
    <2>1. /\ HandlersTypeOK(ReminderStages, ReminderJobs)' /\ Lone' /\ pc'[p] = "rem_note" /\ job' = job
          /\ OthersStay(p) /\ overlapped' = overlapped /\ faults' = faults
        BY <1>1, GoToStep
    <2> QED BY <2>1 DEF HandlersTypeOK
<1>4. /\ texts' \in [Bills \X OffsetSet -> Nat] /\ texts'[<<b, o>>] = texts[<<b, o>>] + 1
      /\ \A x \in Bills \X OffsetSet : x # <<b, o>> => texts'[x] = texts[x]
    <2>1. <<b, o>> \in Bills \X OffsetSet /\ texts \in [Bills \X OffsetSet -> Nat]
        BY <1>1 DEF ReminderTablesOK
    <2> QED BY <1>2, <2>1
<1>5. ReminderTablesOK' /\ \A q \in Procs : RunAt(q)'
    <2>1. RunAt(p)' /\ \A q \in Procs : q # p => RunAt(q)'
        BY <1>3 DEF RemindersInv, RunAt, OthersStay
    <2> QED BY <1>1, <1>4, <2>1 DEF ReminderTablesOK
<1>6. ASSUME NEW c \in Bills, NEW n \in OffsetSet
      PROVE  /\ Noted(c, n)' => texts'[<<c, n>>] + Cardinality(Sending(c, n))' <= faults' + Width'
             /\ ~Noted(c, n)' => texts'[<<c, n>>] <= faults' + Cardinality(Noting(c, n))'
    <2>1. /\ Noted(c, n)' = Noted(c, n)
          /\ p \in Sending(c, n) <=> <<c, n>> = <<b, o>>
          /\ p \in Noting(c, n)' <=> <<c, n>> = <<b, o>>
          /\ p \notin Sending(c, n)' /\ p \notin Noting(c, n)
        BY <1>2, <1>3 DEF Noted, Sending, Noting, Offset
    <2>2. /\ Noted(c, n) => texts[<<c, n>>] + Cardinality(Sending(c, n)) <= faults + Width
          /\ ~Noted(c, n) => texts[<<c, n>>] <= faults + Cardinality(Noting(c, n))
        BY DEF RemindersInv, TextsCounted
    <2>3. /\ Cardinality(Sending(c, n)) \in Nat /\ Cardinality(Sending(c, n))' \in Nat
          /\ Cardinality(Noting(c, n)) \in Nat /\ Cardinality(Noting(c, n))' \in Nat
          /\ Width \in Nat /\ Width' \in Nat /\ Width <= Width'
          /\ texts[<<c, n>>] \in Nat /\ faults \in Nat
        BY <1>3, SendingStep
    <2>4. CASE <<c, n>> = <<b, o>>
        <3>1. Cardinality(Sending(c, n)) = Cardinality(Sending(c, n))' + 1
            BY <1>3, <2>1, <2>4, SendingStep
        <3>2. Cardinality(Noting(c, n))' = Cardinality(Noting(c, n)) + 1
            BY <1>3, <2>1, <2>4, SendingStep
        <3>3. texts'[<<c, n>>] = texts[<<c, n>>] + 1
            BY <1>4, <2>4
        <3> QED BY <1>3, <2>1, <2>2, <2>3, <3>1, <3>2, <3>3
    <2>5. CASE <<c, n>> # <<b, o>>
        <3>1. Cardinality(Sending(c, n)) = Cardinality(Sending(c, n))'
            BY <1>3, <2>1, <2>5, SendingStep
        <3>2. Cardinality(Noting(c, n)) = Cardinality(Noting(c, n))'
            BY <1>3, <2>1, <2>5, SendingStep
        <3>3. texts'[<<c, n>>] = texts[<<c, n>>]
            BY <1>4, <2>5
        <3> QED BY <1>3, <2>1, <2>2, <2>3, <3>1, <3>2, <3>3
    <2> QED BY <2>4, <2>5
<1> QED BY <1>3, <1>5, <1>6 DEF RemindersInv, RemindersTypeOK, TextsCounted

(* The invoice is passed over.                                               *)
LEMMA PassOverStep ==
    ASSUME RemindersInv, NEW p \in Procs, pc[p] \in {"rem_dedupe", "rem_send", "rem_note"},
           NEW b, PassOver(p, b)
    PROVE  /\ HandlersTypeOK(ReminderStages, ReminderJobs)' /\ Lone' /\ pc'[p] = "rem_dedupe"
           /\ OthersStay(p) /\ overlapped' = overlapped /\ faults' = faults /\ RunAt(p)'
<1> DEFINE j == [job[p] EXCEPT !.left = @ \ {b}, !.bill = NoBill]
<1>1. /\ HandlersTypeOK(ReminderStages, ReminderJobs) /\ Lone /\ pc[p] # "idle"
      /\ "idle" \notin ReminderStages /\ "rem_dedupe" \in ReminderStages
    BY DEF RemindersInv, RemindersTypeOK, ReminderStages
<1>2. job[p] \in ReminderJobs /\ job[p].offsets # <<>>
    BY <1>1 DEF HandlersTypeOK, RemindersInv, RunAt
<1>3. j \in ReminderJobs /\ j.offsets = job[p].offsets
    BY <1>2 DEF ReminderJobs
<1>4. Carry(p, j, "rem_dedupe")
    BY DEF PassOver
<1> HIDE DEF j
<1>5. /\ HandlersTypeOK(ReminderStages, ReminderJobs)' /\ Lone' /\ pc'[p] = "rem_dedupe" /\ job'[p] = j
      /\ OthersStay(p) /\ overlapped' = overlapped /\ faults' = faults
    BY <1>1, <1>3, <1>4, CarryStep
<1> QED BY <1>2, <1>3, <1>5 DEF RunAt

(* The note is written: from then on only those already sending send.        *)
LEMMA ReminderNoted ==
    ASSUME RemindersInv, NEW p \in Procs, NoteReminder(p)
    PROVE  RemindersInv'
<1>1. /\ HandlersTypeOK(ReminderStages, ReminderJobs) /\ Lone /\ ReminderTablesOK /\ pc[p] = "rem_note"
      /\ notes' = notes \cup {[bill |-> job[p].bill, offset |-> Offset(p)]}
      /\ PassOver(p, job[p].bill) /\ UNCHANGED <<owing, day, texts>>
    BY DEF RemindersInv, RemindersTypeOK, NoteReminder
<1>2. PICK b \in Bills, o \in OffsetSet : job[p].bill = b /\ Offset(p) = o
    <2>1. job[p].bill \in Bills /\ job[p].offsets # <<>> /\ job[p].offsets \in Seq(OffsetSet)
        BY <1>1 DEF RemindersInv, RunAt, HandlersTypeOK, ReminderJobs
    <2> QED BY <2>1, OffsetsType DEF Offset
<1>3. /\ HandlersTypeOK(ReminderStages, ReminderJobs)' /\ Lone' /\ pc'[p] = "rem_dedupe"
      /\ OthersStay(p) /\ overlapped' = overlapped /\ faults' = faults /\ RunAt(p)'
    BY <1>1, PassOverStep
<1>4. overlapped' \in BOOLEAN
    BY <1>3 DEF HandlersTypeOK
<1>5. ReminderTablesOK' /\ \A q \in Procs : RunAt(q)'
    <2>1. \A q \in Procs : q # p => RunAt(q)'
        BY <1>3 DEF RemindersInv, RunAt, OthersStay
    <2> QED BY <1>1, <1>2, <1>3, <2>1 DEF ReminderTablesOK
<1>6. ASSUME NEW c \in Bills, NEW n \in OffsetSet
      PROVE  /\ Noted(c, n)' => texts'[<<c, n>>] + Cardinality(Sending(c, n))' <= faults' + Width'
             /\ ~Noted(c, n)' => texts'[<<c, n>>] <= faults' + Cardinality(Noting(c, n))'
    <2>1. /\ Noted(c, n)' <=> Noted(c, n) \/ <<c, n>> = <<b, o>>
          /\ p \in Noting(c, n) <=> <<c, n>> = <<b, o>>
          /\ p \notin Noting(c, n)' /\ p \notin Sending(c, n)' /\ p \notin Sending(c, n)
        BY <1>1, <1>2, <1>3 DEF Noted, Sending, Noting, Offset
    <2>2. /\ Noted(c, n) => texts[<<c, n>>] + Cardinality(Sending(c, n)) <= faults + Width
          /\ ~Noted(c, n) => texts[<<c, n>>] <= faults + Cardinality(Noting(c, n))
        BY DEF RemindersInv, TextsCounted
    <2>3. /\ Cardinality(Sending(c, n)) \in Nat /\ Cardinality(Sending(c, n))' \in Nat
          /\ Cardinality(Noting(c, n)) \in Nat /\ Cardinality(Noting(c, n))' \in Nat
          /\ Width \in Nat /\ Width' \in Nat /\ Width <= Width'
          /\ texts[<<c, n>>] \in Nat /\ faults \in Nat
          /\ Cardinality(Sending(c, n)) + Cardinality(Noting(c, n)) <= Width
        BY <1>3, <1>4, SendingStep
    <2>4. Cardinality(Sending(c, n)) = Cardinality(Sending(c, n))'
        BY <1>3, <1>4, <2>1, SendingStep
    <2>5. <<c, n>> # <<b, o>> => Cardinality(Noting(c, n)) = Cardinality(Noting(c, n))'
        BY <1>3, <1>4, <2>1, SendingStep
    <2> QED BY <1>1, <1>3, <2>1, <2>2, <2>3, <2>4, <2>5
<1> QED BY <1>3, <1>5, <1>6 DEF RemindersInv, RemindersTypeOK, TextsCounted

(* Every step keeps the invariant.                                           *)
LEMMA RemindersStep == RemindersInv /\ [RemindersNext]_<<handlerVars, reminderVars>> => RemindersInv'
<1> SUFFICES ASSUME RemindersInv, [RemindersNext]_<<handlerVars, reminderVars>> PROVE RemindersInv'
    OBVIOUS
<1>0. /\ HandlersTypeOK(ReminderStages, ReminderJobs) /\ Lone /\ ReminderTablesOK
      /\ "idle" \notin ReminderStages
      /\ {"rem_select", "rem_dedupe", "rem_send", "rem_note"} \subseteq ReminderStages
      /\ faults \in Nat
    BY HandlersAssumptions DEF RemindersInv, RemindersTypeOK, ReminderStages, HandlersTypeOK, HandlersAssumptions
<1>1. ASSUME NEW p \in Procs, StartReminders(p)
      PROVE  RemindersInv'
    <2> DEFINE j == [op |-> "remind", offsets |-> Offsets, left |-> {}, bill |-> NoBill]
    <2>1. Begin(p, j, "rem_select") /\ UNCHANGED reminderVars
        BY <1>1 DEF StartReminders
    <2>2. j \in ReminderJobs
        BY OffsetsType DEF ReminderJobs
    <2> HIDE DEF j
    <2>3. /\ HandlersTypeOK(ReminderStages, ReminderJobs)' /\ Lone' /\ pc'[p] = "rem_select" /\ pc[p] = "idle"
          /\ OthersStay(p) /\ (overlapped => overlapped') /\ faults' = faults
        BY <1>0, <2>1, <2>2, BeginStep
    <2>4. RunAt(p)'
        BY <2>3 DEF RunAt
    <2> QED BY <1>0, <2>1, <2>3, <2>4, RemindersFrame
<1>2. ASSUME NEW p \in Procs, SelectBills(p)
      PROVE  RemindersInv'
    <2>1. pc[p] = "rem_select" /\ UNCHANGED reminderVars
        BY <1>2 DEF SelectBills
    <2>2. CASE Finish(p)
        <3>1. /\ HandlersTypeOK(ReminderStages, ReminderJobs)' /\ Lone' /\ pc'[p] = "idle"
              /\ OthersStay(p) /\ overlapped' = overlapped /\ faults' = faults
            BY <1>0, <2>1, <2>2, FinishStep
        <3>2. RunAt(p)'
            BY <3>1 DEF RunAt
        <3> QED BY <1>0, <2>1, <3>1, <3>2, RemindersFrame
    <2>3. ASSUME job[p].offsets # <<>>, NEW read \in SUBSET Targets(Offset(p)),
                 Carry(p, [job[p] EXCEPT !.left = read], "rem_dedupe")
          PROVE  RemindersInv'
        <3> DEFINE j == [job[p] EXCEPT !.left = read]
        <3>1. job[p] \in ReminderJobs /\ read \in SUBSET Bills
            BY <1>0, <2>1 DEF HandlersTypeOK, Targets, ReminderTablesOK
        <3>2. j \in ReminderJobs /\ j.offsets = job[p].offsets
            BY <3>1 DEF ReminderJobs
        <3>3. Carry(p, j, "rem_dedupe")
            BY <2>3
        <3> HIDE DEF j
        <3>4. /\ HandlersTypeOK(ReminderStages, ReminderJobs)' /\ Lone' /\ pc'[p] = "rem_dedupe" /\ job'[p] = j
              /\ OthersStay(p) /\ overlapped' = overlapped /\ faults' = faults
            BY <1>0, <2>1, <3>2, <3>3, CarryStep
        <3>5. RunAt(p)'
            BY <2>3, <3>2, <3>4 DEF RunAt
        <3> QED BY <1>0, <2>1, <3>4, <3>5, RemindersFrame
    <2> QED BY <1>2, <2>2, <2>3 DEF SelectBills
<1>3. ASSUME NEW p \in Procs, Dedupe(p)
      PROVE  RemindersInv'
    <2>1. /\ pc[p] = "rem_dedupe" /\ UNCHANGED reminderVars
          /\ job[p] \in ReminderJobs /\ job[p].offsets # <<>>
        BY <1>0, <1>3 DEF Dedupe, HandlersTypeOK, RemindersInv, RunAt
    <2>2. CASE Carry(p, [job[p] EXCEPT !.offsets = Tail(@)], "rem_select")
        <3> DEFINE j == [job[p] EXCEPT !.offsets = Tail(@)]
        <3>1. Tail(job[p].offsets) \in Seq(OffsetSet)
            BY <2>1, OffsetsType DEF ReminderJobs
        <3>2. j \in ReminderJobs /\ Carry(p, j, "rem_select")
            BY <2>1, <2>2, <3>1 DEF ReminderJobs
        <3> HIDE DEF j
        <3>3. /\ HandlersTypeOK(ReminderStages, ReminderJobs)' /\ Lone' /\ pc'[p] = "rem_select"
              /\ OthersStay(p) /\ overlapped' = overlapped /\ faults' = faults
            BY <1>0, <2>1, <3>2, CarryStep
        <3>4. RunAt(p)'
            BY <3>3 DEF RunAt
        <3> QED BY <1>0, <2>1, <3>3, <3>4, RemindersFrame
    <2>3. ASSUME NEW b \in job[p].left, ~Noted(b, Offset(p)), Carry(p, [job[p] EXCEPT !.bill = b], "rem_send")
          PROVE  RemindersInv'
        <3> DEFINE j == [job[p] EXCEPT !.bill = b]
        <3>1. b \in Bills
            BY <2>1, <2>3 DEF ReminderJobs
        <3>2. j \in ReminderJobs /\ j.offsets = job[p].offsets /\ j.bill = b /\ Carry(p, j, "rem_send")
            BY <2>1, <2>3, <3>1 DEF ReminderJobs
        <3> HIDE DEF j
        <3>3. /\ HandlersTypeOK(ReminderStages, ReminderJobs)' /\ Lone' /\ pc'[p] = "rem_send" /\ job'[p] = j
              /\ OthersStay(p) /\ overlapped' = overlapped /\ faults' = faults
            BY <1>0, <2>1, <3>2, CarryStep
        <3>4. RunAt(p)'
            BY <2>1, <3>1, <3>2, <3>3 DEF RunAt
        <3>5. Offset(p)' = Offset(p) /\ job'[p].bill = b
            BY <3>2, <3>3 DEF Offset
        <3> QED BY <1>0, <2>1, <2>3, <3>3, <3>4, <3>5, RemindersFrame
    <2>4. ASSUME NEW b \in job[p].left, PassOver(p, b)
          PROVE  RemindersInv'
        <3>1. /\ HandlersTypeOK(ReminderStages, ReminderJobs)' /\ Lone' /\ pc'[p] = "rem_dedupe"
              /\ OthersStay(p) /\ overlapped' = overlapped /\ faults' = faults /\ RunAt(p)'
            BY <2>1, <2>4, PassOverStep
        <3> QED BY <1>0, <2>1, <3>1, RemindersFrame
    <2> QED BY <1>3, <2>2, <2>3, <2>4 DEF Dedupe
<1>4. ASSUME NEW p \in Procs, SendReminder(p)
      PROVE  RemindersInv'
    <2>1. CASE PassOver(p, job[p].bill) /\ UNCHANGED texts
        <3>1. pc[p] = "rem_send" /\ UNCHANGED reminderVars
            BY <1>4, <2>1 DEF SendReminder, reminderVars
        <3>2. /\ HandlersTypeOK(ReminderStages, ReminderJobs)' /\ Lone' /\ pc'[p] = "rem_dedupe"
              /\ OthersStay(p) /\ overlapped' = overlapped /\ faults' = faults /\ RunAt(p)'
            BY <2>1, <3>1, PassOverStep
        <3> QED BY <1>0, <3>1, <3>2, RemindersFrame
    <2> QED BY <1>4, <2>1, ReminderSent DEF SendReminder
<1>5. ASSUME NEW p \in Procs, Dies(p), UNCHANGED reminderVars
      PROVE  RemindersInv'
    <2>1. /\ HandlersTypeOK(ReminderStages, ReminderJobs)' /\ Lone' /\ pc'[p] = "idle"
          /\ OthersStay(p) /\ overlapped' = overlapped /\ faults' = faults + 1
        BY <1>0, <1>5, FinishStep DEF Dies
    <2>2. RunAt(p)'
        BY <2>1 DEF RunAt
    <2> QED BY <1>0, <1>5, <2>1, <2>2, RemindersFrame
<1>6. ASSUME UNCHANGED <<handlerVars, notes, texts>>, ReminderTablesOK'
      PROVE  RemindersInv'
    <2>1. UNCHANGED handlerVars /\ UNCHANGED <<notes, texts>>
        BY <1>6
    <2>2. /\ HandlersTypeOK(ReminderStages, ReminderJobs)' /\ Lone'
          /\ pc' = pc /\ job' = job /\ faults' = faults /\ overlapped' = overlapped
        BY <1>0, <2>1, HandlersStutter
    <2>3. (\A q \in Procs : RunAt(q)') /\ TextsCounted'
        BY <2>1, <2>2 DEF RemindersInv, RunAt, TextsCounted, Noted, Sending, Noting, Offset, Width
    <2> QED BY <1>6, <2>2, <2>3 DEF RemindersInv, RemindersTypeOK
<1>7. ASSUME NEW b \in Bills, Settle(b)
      PROVE  RemindersInv'
    BY <1>0, <1>6, <1>7 DEF Settle, ReminderTablesOK
<1>8. CASE NextDay
    BY <1>0, <1>6, <1>8 DEF NextDay, ReminderTablesOK
<1>9. CASE UNCHANGED <<handlerVars, reminderVars>>
    BY <1>0, <1>6, <1>9 DEF ReminderTablesOK, reminderVars
<1> QED BY <1>1, <1>2, <1>3, <1>4, <1>5, <1>7, <1>8, <1>9, ReminderNoted DEF RemindersNext

(* What is owed, the days, the notes and the texts keep their types; a run    *)
(* always has the offsets it still goes through, and the bill it works on or  *)
(* none.                                                                      *)
THEOREM ReminderTypes == RemindersSpec => []RemindersTypeOK
<1>1. RemindersInv => RemindersTypeOK
    BY DEF RemindersInv
<1> QED BY <1>1, RemindersInitial, RemindersStep, PTL DEF RemindersSpec

(* An invoice gets one text for an offset, one more for every fault, and     *)
(* when runs overlap one for each of them.                                   *)
THEOREM RemindersStayBounded == RemindersSpec => []RemindersBounded
<1>1. RemindersInv => RemindersBounded
    <2> SUFFICES ASSUME RemindersInv, NEW b \in Bills, NEW o \in OffsetSet
                 PROVE  texts[<<b, o>>] <= faults + (IF overlapped THEN Cardinality(Procs) ELSE 1)
        BY DEF RemindersBounded
    <2>1. /\ Noted(b, o) => texts[<<b, o>>] + Cardinality(Sending(b, o)) <= faults + Width
          /\ ~Noted(b, o) => texts[<<b, o>>] <= faults + Cardinality(Noting(b, o))
        BY DEF RemindersInv, TextsCounted
    <2>2. /\ Sending(b, o) \in SUBSET Procs /\ (~overlapped => \A p, q \in Sending(b, o) : p = q)
          /\ Noting(b, o) \in SUBSET Procs /\ (~overlapped => \A p, q \in Noting(b, o) : p = q)
        BY DEF RemindersInv, Lone, Sending, Noting
    <2>3. Cardinality(Sending(b, o)) \in Nat
        BY <2>2, GroupBound
    <2>4. Cardinality(Noting(b, o)) \in Nat /\ Cardinality(Noting(b, o)) <= Width
        BY <2>2, GroupBound DEF Width
    <2>5. texts[<<b, o>>] \in Nat /\ faults \in Nat /\ Width \in Nat
        <3>1. <<b, o>> \in Bills \X OffsetSet /\ texts \in [Bills \X OffsetSet -> Nat]
            BY DEF RemindersInv, RemindersTypeOK, ReminderTablesOK
        <3>2. faults \in Nat /\ IsFiniteSet(Procs)
            BY HandlersAssumptions DEF HandlersAssumptions, RemindersInv, RemindersTypeOK, HandlersTypeOK
        <3> QED BY <3>1, <3>2, FS_CardinalityType DEF Width
    <2>6. texts[<<b, o>>] <= faults + Width
        BY <2>1, <2>3, <2>4, <2>5
    <2> QED BY <2>6 DEF Width
<1> QED BY <1>1, RemindersInitial, RemindersStep, PTL DEF RemindersSpec

----------------------------------------------------------------------------
(* Announcements *)

(* It may be sent once more.                                                 *)
Room(a) == fanouts[a] <= renotified[a] + faults

(* What a request has in hand: announcements that were posted, each once,    *)
(* and with requests in turn those that are still to be sent have room.      *)
NoticesInHand(p) ==
    /\ pc[p] # "idle" => job[p].list # <<>>
    /\ pc[p] = "ann_create" => job[p].publish \in Times
    /\ pc[p] \in {"ann_create", "ann_edit", "ann_delete"} => Len(job[p].list) = 1
    /\ pc[p] \in {"ann_edit", "ann_delete", "ann_fanout", "ann_stamp"} =>
         \A i \in 1..Len(job[p].list) : notices[job[p].list[i]].state # "absent"
    /\ pc[p] \in {"ann_fanout", "ann_stamp"} =>
         \A i, j \in 1..Len(job[p].list) : job[p].list[i] = job[p].list[j] => i = j
    /\ ~overlapped =>
         /\ pc[p] \in {"ann_create", "ann_fanout"} => \A i \in 1..Len(job[p].list) : Room(job[p].list[i])
         /\ pc[p] = "ann_stamp" => \A i \in 2..Len(job[p].list) : Room(job[p].list[i])

Stamping(a) == \E p \in Procs : pc[p] = "ann_stamp" /\ InHand(p) = a

(* What is unstamped may be sent again, unless the stamp is on its way.      *)
SendingsCounted ==
    \A a \in Notices :
        /\ notices[a].state = "absent" => ~notices[a].dispatched
        /\ ~overlapped => /\ fanouts[a] <= 1 + renotified[a] + faults
                          /\ ~notices[a].dispatched => Room(a) \/ Stamping(a)

NoticesInv ==
    /\ NoticesTypeOK /\ Lone
    /\ \A p \in Procs : NoticesInHand(p)
    /\ SendingsCounted

LEMMA NoticesInitial == HandlersInit /\ NoticesInit => NoticesInv
<1> SUFFICES ASSUME HandlersInit, NoticesInit PROVE NoticesInv
    OBVIOUS
<1>1. HandlersTypeOK(NoticeStages, NoticeJobs) /\ Lone /\ Quiescent
    BY HandlersInitType
<1>2. NoticeTablesOK
    <2>1. MaxTime \in Nat /\ MaxEdits \in Nat
        BY AnnouncementAssumptions DEF AnnouncementAssumptions
    <2> QED BY <2>1 DEF NoticesInit, NoticeTablesOK, Times
<1>3. \A p \in Procs : NoticesInHand(p)
    BY <1>1 DEF Quiescent, NoticesInHand
<1>4. SendingsCounted
    BY DEF NoticesInit, HandlersInit, SendingsCounted, Room
<1> QED BY <1>1, <1>2, <1>3, <1>4 DEF NoticesInv, NoticesTypeOK

(* The types of what a request has in hand.                                  *)
LEMMA ListType ==
    ASSUME NoticesInv, NEW p \in Procs, pc[p] # "idle"
    PROVE  /\ job[p] \in NoticeJobs /\ job[p].list \in Seq(Notices)
           /\ Len(job[p].list) \in Nat /\ Len(job[p].list) >= 1
           /\ \A i \in 1..Len(job[p].list) : job[p].list[i] \in Notices
           /\ InHand(p) = job[p].list[1] /\ InHand(p) \in Notices
<1>1. job[p] \in NoticeJobs /\ job[p].list # <<>>
    BY DEF NoticesInv, NoticesTypeOK, HandlersTypeOK, NoticesInHand
<1>2. job[p].list \in Seq(Notices)
    BY <1>1 DEF NoticeJobs
<1>3. /\ Len(job[p].list) \in Nat /\ Len(job[p].list) >= 1
      /\ \A i \in 1..Len(job[p].list) : job[p].list[i] \in Notices
      /\ Head(job[p].list) = job[p].list[1]
    BY <1>1, <1>2, EmptySeq, LenProperties, ElementOfSeq
<1> QED BY <1>1, <1>2, <1>3 DEF InHand

(* A step that sends nothing and takes no room away.                         *)
LEMMA NoticesFrame ==
    ASSUME NoticesInv, HandlersTypeOK(NoticeStages, NoticeJobs)', Lone', NoticeTablesOK',
           NEW p \in Procs, OthersStay(p), overlapped => overlapped',
           ~overlapped' => \A q \in Procs : q # p => pc[q] = "idle",
           UNCHANGED fanouts, faults' \in Nat, faults' >= faults,
           \A a \in Notices : renotified'[a] >= renotified[a],
           \A a \in Notices : notices'[a].state = "absent" => notices[a].state = "absent" /\ ~notices'[a].dispatched,
           ~overlapped' => \A a \in Notices : ~notices'[a].dispatched => Room(a)' \/ Stamping(a)',
           NoticesInHand(p)'
    PROVE  NoticesInv'
<1>1. ASSUME NEW q \in Procs, q # p
      PROVE  NoticesInHand(q)'
    <2>1. pc'[q] = pc[q] /\ job'[q] = job[q] /\ NoticesInHand(q) /\ (~overlapped' => pc[q] = "idle")
        BY <1>1 DEF NoticesInv, OthersStay
    <2>2. pc[q] # "idle" => \A i \in 1..Len(job[q].list) : job[q].list[i] \in Notices
        BY ListType
    <2> QED BY <2>1, <2>2 DEF NoticesInHand
<1>2. ASSUME ~overlapped', NEW a \in Notices
      PROVE  fanouts'[a] <= 1 + renotified'[a] + faults'
    <2>1. /\ fanouts[a] \in Nat /\ renotified[a] \in Nat /\ renotified'[a] \in Nat /\ faults \in Nat
          /\ fanouts'[a] = fanouts[a] /\ renotified'[a] >= renotified[a]
        BY HandlersAssumptions DEF HandlersAssumptions, NoticesInv, NoticesTypeOK, NoticeTablesOK, HandlersTypeOK
    <2>2. fanouts[a] <= 1 + renotified[a] + faults
        BY <1>2 DEF NoticesInv, SendingsCounted
    <2> QED BY <2>1, <2>2
<1> QED BY <1>1, <1>2 DEF NoticesInv, NoticesTypeOK, SendingsCounted

(* Room stays while nothing is sent.                                         *)
LEMMA RoomStays ==
    ASSUME NoticesInv, NoticeTablesOK', NEW a \in Notices, fanouts'[a] = fanouts[a],
           renotified'[a] >= renotified[a], faults' \in Nat, faults' >= faults, Room(a)
    PROVE  Room(a)'
<1>1. /\ fanouts[a] \in Nat /\ renotified[a] \in Nat /\ renotified'[a] \in Nat /\ faults \in Nat
    BY HandlersAssumptions DEF HandlersAssumptions, NoticesInv, NoticesTypeOK, NoticeTablesOK, HandlersTypeOK
<1> QED BY <1>1 DEF Room

(* A request for one announcement, or a run for a batch, is taken up.        *)
LEMMA NoticesTaken ==
    ASSUME NoticesInv, NEW p \in Procs, NEW j \in NoticeJobs, NEW stage \in NoticeStages \ {"ann_stamp"},
           Begin(p, j, stage), UNCHANGED <<notices, clock, fanouts, renotified>>, edits' \in 0..MaxEdits,
           j.list # <<>>,
           stage # "ann_fanout" => Len(j.list) = 1,
           stage = "ann_create" => j.publish \in Times,
           stage # "ann_create" => \A i \in 1..Len(j.list) : notices[j.list[i]].state # "absent",
           \A i, k \in 1..Len(j.list) : j.list[i] = j.list[k] => i = k,
           stage \in {"ann_create", "ann_fanout"} =>
               \A i \in 1..Len(j.list) : j.list[i] \in Notices /\ ~notices[j.list[i]].dispatched
    PROVE  NoticesInv'
<1>1. /\ HandlersTypeOK(NoticeStages, NoticeJobs) /\ Lone /\ NoticeTablesOK /\ "idle" \notin NoticeStages
      /\ faults \in Nat
    BY HandlersAssumptions
       DEF NoticesInv, NoticesTypeOK, NoticeStages, HandlersTypeOK, HandlersAssumptions
<1>2. /\ HandlersTypeOK(NoticeStages, NoticeJobs)' /\ Lone' /\ pc[p] = "idle" /\ pc'[p] = stage
      /\ job'[p] = j /\ OthersStay(p) /\ faults' = faults /\ (overlapped => overlapped')
      /\ ~overlapped' => \A q \in Procs : pc[q] = "idle"
    BY <1>1, BeginStep
<1>3. NoticeTablesOK'
    BY <1>1 DEF NoticeTablesOK
<1>4. ASSUME ~overlapped', NEW a \in Notices, ~notices[a].dispatched
      PROVE  Room(a) /\ Room(a)'
    <2>1. ~Stamping(a)
        BY <1>2, <1>4 DEF Stamping
    <2>2. Room(a)
        BY <1>2, <1>4, <2>1 DEF NoticesInv, SendingsCounted
    <2> QED BY <1>2, <2>2 DEF Room
<1>5. NoticesInHand(p)'
    <2>1. ~overlapped' /\ stage \in {"ann_create", "ann_fanout"} =>
              \A i \in 1..Len(j.list) : Room(j.list[i])'
        BY <1>4
    <2> QED BY <1>2, <2>1 DEF NoticesInHand, Room
<1>6. \A a \in Notices : /\ renotified'[a] >= renotified[a]
                         /\ notices[a].state = "absent" => ~notices[a].dispatched
    BY <1>1 DEF NoticesInv, SendingsCounted, NoticeTablesOK
<1> QED BY <1>1, <1>2, <1>3, <1>4, <1>5, <1>6, NoticesFrame

(* The announcement in hand is done with, or given up.                       *)
LEMMA NextNoticeStep ==
    ASSUME NoticesInv, NEW p \in Procs, pc[p] \in {"ann_fanout", "ann_stamp"},
           \/ /\ Len(job[p].list) = 1
              /\ pc' = [pc EXCEPT ![p] = "idle"] /\ job' = [job EXCEPT ![p] = NoJob]
           \/ /\ Len(job[p].list) # 1
              /\ pc' = [pc EXCEPT ![p] = "ann_fanout"]
              /\ job' = [job EXCEPT ![p] = [job[p] EXCEPT !.list = Tail(@)]],
           overlapped' = overlapped,
           faults' = faults \/ (faults < MaxFaults /\ faults' = faults + 1),
           UNCHANGED <<fanouts, renotified>>, NoticeTablesOK',
           \A a \in Notices : notices'[a].state = "absent" => notices[a].state = "absent"
    PROVE  /\ HandlersTypeOK(NoticeStages, NoticeJobs)' /\ Lone' /\ OthersStay(p)
           /\ faults \in Nat /\ faults' \in Nat /\ faults' >= faults /\ NoticesInHand(p)'
           /\ pc'[p] \in {"idle", "ann_fanout"}
<1>1. /\ HandlersTypeOK(NoticeStages, NoticeJobs) /\ Lone /\ NoticesInHand(p)
      /\ {"idle", "ann_fanout"} \subseteq NoticeStages \cup {"idle"}
      /\ faults \in Nat /\ MaxFaults \in Nat /\ faults \in 0..MaxFaults
    BY HandlersAssumptions DEF NoticesInv, NoticesTypeOK, NoticeStages, HandlersTypeOK, HandlersAssumptions
<1>2. PICK stage \in {"idle", "ann_fanout"} : pc' = [pc EXCEPT ![p] = stage]
    OBVIOUS
<1>3. pc'[p] = stage /\ OthersStay(p)
    BY <1>1, <1>2 DEF HandlersTypeOK, OthersStay
<1>4. Lone'
    BY <1>1, <1>3 DEF Lone, OthersStay
<1>5. faults' \in Nat /\ faults' >= faults /\ faults' \in 0..MaxFaults
    BY <1>1
<1> DEFINE list == job[p].list
           j == [job[p] EXCEPT !.list = Tail(@)]
<1>6. /\ job[p] \in NoticeJobs /\ list \in Seq(Notices) /\ Len(list) \in Nat /\ Len(list) >= 1
      /\ \A i \in 1..Len(list) : list[i] \in Notices
      /\ list # <<>>
    BY <1>1, ListType DEF NoticesInHand
<1>7. /\ Tail(list) \in Seq(Notices) /\ Len(Tail(list)) = Len(list) - 1
      /\ \A i \in 1..Len(Tail(list)) : Tail(list)[i] = list[i + 1]
    BY <1>6, HeadTailProperties
<1>8. j \in NoticeJobs /\ j.list = Tail(list)
    BY <1>6, <1>7 DEF NoticeJobs
<1>9. HandlersTypeOK(NoticeStages, NoticeJobs)'
    <2>1. pc' \in [Procs -> NoticeStages \cup {"idle"}]
        BY <1>1, <1>2 DEF HandlersTypeOK
    <2>2. job' \in [Procs -> NoticeJobs \cup {NoJob}]
        <3> HIDE DEF j
        <3> QED BY <1>1, <1>8 DEF HandlersTypeOK, j
    <2>3. \A q \in Procs : pc'[q] # "idle" => job'[q] \in NoticeJobs
        <3>1. stage # "idle" => job'[p] = j
            <4>1. stage # "idle" => job' = [job EXCEPT ![p] = j]
                BY <1>1, <1>3 DEF HandlersTypeOK
            <4> HIDE DEF j
            <4> QED BY <1>1, <4>1 DEF HandlersTypeOK
        <3> QED BY <1>1, <1>3, <1>8, <3>1 DEF HandlersTypeOK, OthersStay
    <2> QED BY <1>1, <1>5, <2>1, <2>2, <2>3 DEF HandlersTypeOK
<1>10. NoticesInHand(p)'
    <2>1. CASE stage = "idle"
        BY <1>3, <2>1 DEF NoticesInHand
    <2>2. CASE stage = "ann_fanout"
        <3>1. Len(list) # 1 /\ job' = [job EXCEPT ![p] = j]
            BY <1>1, <1>3, <2>2 DEF HandlersTypeOK
        <3> HIDE DEF j
        <3>2. job'[p] = j
            BY <1>1, <3>1 DEF HandlersTypeOK
        <3> HIDE DEF list
        <3>3. Len(Tail(list)) \in Nat /\ Len(Tail(list)) >= 1 /\ Tail(list) # <<>>
            <4>1. Len(Tail(list)) \in Nat /\ Len(Tail(list)) >= 1
                BY <1>6, <1>7, <3>1
            <4>2. Tail(list) # <<>>
                BY <1>7, <4>1, NonEmpty
            <4> QED BY <4>1, <4>2
        <3>4. \A i \in 1..Len(Tail(list)) : i + 1 \in 2..Len(list) /\ i + 1 \in 1..Len(list)
            BY <1>6, <1>7
        <3>5. /\ \A i \in 1..Len(list) : notices[list[i]].state # "absent"
              /\ \A i, k \in 1..Len(list) : list[i] = list[k] => i = k
              /\ ~overlapped => \A i \in 2..Len(list) : Room(list[i])
            <4>1. /\ \A i \in 1..Len(list) : notices[list[i]].state # "absent"
                  /\ \A i, k \in 1..Len(list) : list[i] = list[k] => i = k
                BY <1>1 DEF NoticesInHand, list
            <4>2. ASSUME ~overlapped, NEW i \in 2..Len(list)
                  PROVE  Room(list[i])
                <5>1. i \in 1..Len(list)
                    BY <1>6
                <5> QED BY <1>1, <4>2, <5>1 DEF NoticesInHand, list
            <4> QED BY <4>1, <4>2
        <3>6. \A i \in 1..Len(Tail(list)) : notices'[Tail(list)[i]].state # "absent"
            BY <1>6, <1>7, <3>4, <3>5
        <3>7. \A i, k \in 1..Len(Tail(list)) : Tail(list)[i] = Tail(list)[k] => i = k
            <4> SUFFICES ASSUME NEW i \in 1..Len(Tail(list)), NEW k \in 1..Len(Tail(list)),
                                Tail(list)[i] = Tail(list)[k]
                         PROVE  i = k
                OBVIOUS
            <4>1. list[i + 1] = list[k + 1] /\ i + 1 \in 1..Len(list) /\ k + 1 \in 1..Len(list)
                BY <1>7, <3>4
            <4>2. i + 1 = k + 1
                BY <3>5, <4>1
            <4> QED BY <3>3, <4>2
        <3>8. ASSUME ~overlapped', NEW i \in 1..Len(Tail(list))
              PROVE  fanouts'[Tail(list)[i]] <= renotified'[Tail(list)[i]] + faults'
            <4>1. PICK a \in Notices : a = list[i + 1]
                BY <1>6, <3>4
            <4>2. Room(a)
                BY <3>4, <3>5, <3>8, <4>1
            <4>3. renotified[a] \in Nat /\ renotified'[a] = renotified[a] /\ fanouts'[a] = fanouts[a]
                BY DEF NoticesInv, NoticesTypeOK, NoticeTablesOK
            <4>4. Room(a)'
                BY <1>5, <4>2, <4>3, RoomStays
            <4>5. Tail(list)[i] = a
                BY <1>7, <4>1
            <4> QED BY <4>4, <4>5 DEF Room
        <3>9. job'[p].list = Tail(list) /\ pc'[p] = "ann_fanout"
            BY <1>3, <1>8, <2>2, <3>2
        <3> QED BY <3>3, <3>6, <3>7, <3>8, <3>9 DEF NoticesInHand, Room
    <2> QED BY <2>1, <2>2
<1> QED BY <1>1, <1>3, <1>4, <1>5, <1>9, <1>10

(* With requests in turn, what is unstamped has room, unless the one at work *)
(* is about to stamp it.                                                     *)
LEMMA UnstampedHasRoom ==
    ASSUME NoticesInv, ~overlapped, NEW p \in Procs, pc[p] # "idle",
           NEW a \in Notices, ~notices[a].dispatched
    PROVE  \/ Room(a)
           \/ pc[p] = "ann_stamp" /\ InHand(p) = a
BY DEF NoticesInv, SendingsCounted, Stamping, Lone

(* A request that stops, for good or by a fault: what it was about to stamp  *)
(* without doing so has room by the fault.                                   *)
LEMMA RoomByFault ==
    ASSUME NoticesInv, NoticeTablesOK', ~overlapped, NEW p \in Procs, pc[p] # "idle",
           UNCHANGED <<notices, fanouts, renotified>>, faults' = faults + 1
    PROVE  \A a \in Notices : ~notices'[a].dispatched => Room(a)'
<1> SUFFICES ASSUME NEW a \in Notices, ~notices'[a].dispatched PROVE Room(a)'
    OBVIOUS
<1>1. fanouts[a] <= 1 + renotified[a] + faults
    BY DEF NoticesInv, SendingsCounted
<1>2. fanouts[a] \in Nat /\ renotified[a] \in Nat /\ faults \in Nat
    BY HandlersAssumptions DEF HandlersAssumptions, NoticesInv, NoticesTypeOK, NoticeTablesOK, HandlersTypeOK
<1>3. fanouts'[a] = fanouts[a] /\ renotified'[a] = renotified[a]
    OBVIOUS
<1> QED BY <1>1, <1>2, <1>3 DEF Room

(* The announcement is posted, edited or deleted, and sent at once or not.   *)
LEMMA NoticeWritten ==
    ASSUME NoticesInv, NEW p \in Procs, CreateNotice(p) \/ EditWrite(p) \/ DeleteWrite(p)
    PROVE  NoticesInv'
<1>1. /\ HandlersTypeOK(NoticeStages, NoticeJobs) /\ Lone /\ NoticeTablesOK /\ NoticesInHand(p)
      /\ "idle" \notin NoticeStages /\ "ann_fanout" \in NoticeStages
      /\ pc[p] \in {"ann_create", "ann_edit", "ann_delete"} /\ faults \in Nat
      /\ UNCHANGED <<clock, fanouts, edits>>
    BY HandlersAssumptions
       DEF NoticesInv, NoticesTypeOK, NoticeStages, HandlersTypeOK, HandlersAssumptions,
           CreateNotice, EditWrite, DeleteWrite
<1>2. PICK a \in Notices : a = InHand(p)
    BY <1>1, ListType
<1>3. Len(job[p].list) = 1 /\ job[p].list[1] = a /\ job[p] \in NoticeJobs /\ job[p].list # <<>>
    BY <1>1, <1>2, ListType DEF NoticesInHand
<1>4. PICK row \in [state : {"posted", "deleted", notices[a].state}, publish : Times \cup {NoTime}, dispatched : BOOLEAN] :
          /\ notices' = [notices EXCEPT ![a] = row]
          /\ pc[p] # "ann_create" => row.dispatched = notices[a].dispatched
    <2>1. CASE CreateNotice(p)
        BY <1>1, <1>2, <2>1 DEF CreateNotice, NoticesInHand
    <2>2. CASE EditWrite(p)
        <3>1. job[p].publish # KeepTime => job[p].publish \in Times \cup {NoTime}
            BY <1>3 DEF NoticeJobs
        <3>2. notices[a] \in [state : {"absent", "posted", "deleted"}, publish : Times \cup {NoTime}, dispatched : BOOLEAN]
            BY <1>1 DEF NoticeTablesOK
        <3> DEFINE publish == IF job[p].publish = KeepTime THEN notices[a].publish ELSE job[p].publish
                   row == [notices[a] EXCEPT !.publish = publish]
        <3>3. notices' = [notices EXCEPT ![a].publish = publish]
            BY <1>2, <2>2 DEF EditWrite
        <3>4. publish \in Times \cup {NoTime}
            BY <3>1, <3>2
        <3> HIDE DEF publish
        <3>5. notices' = [notices EXCEPT ![a] = row]
            BY <3>3
        <3>6. row \in [state : {"posted", "deleted", notices[a].state}, publish : Times \cup {NoTime}, dispatched : BOOLEAN]
              /\ row.dispatched = notices[a].dispatched
            BY <3>2, <3>4
        <3> HIDE DEF row
        <3> QED BY <3>5, <3>6
    <2>3. CASE DeleteWrite(p)
        <3>1. notices[a] \in [state : {"absent", "posted", "deleted"}, publish : Times \cup {NoTime}, dispatched : BOOLEAN]
            BY <1>1 DEF NoticeTablesOK
        <3> DEFINE row == [notices[a] EXCEPT !.state = "deleted"]
        <3>2. notices' = [notices EXCEPT ![a] = row]
            BY <1>2, <2>3 DEF DeleteWrite
        <3>3. row \in [state : {"posted", "deleted", notices[a].state}, publish : Times \cup {NoTime}, dispatched : BOOLEAN]
              /\ row.dispatched = notices[a].dispatched
            BY <3>1
        <3> HIDE DEF row
        <3> QED BY <3>2, <3>3
    <2> QED BY <2>1, <2>2, <2>3
<1>5. /\ notices[a].state \in {"absent", "posted", "deleted"} /\ notices'[a] = row
      /\ \A b \in Notices : b # a => notices'[b] = notices[b]
      /\ pc[p] # "ann_create" => notices[a].state # "absent"
    BY <1>1, <1>3, <1>4 DEF NoticeTablesOK, NoticesInHand
<1>6. row.state # "absent"
    <2>1. pc[p] = "ann_create" => row.state = "posted"
        BY <1>1, <1>2, <1>5 DEF CreateNotice, EditWrite, DeleteWrite, NoticeTablesOK
    <2> QED BY <1>4, <1>5, <2>1
<1>7. /\ \/ GoTo(p, "ann_fanout") /\ (pc[p] = "ann_create" \/ renotified'[a] = renotified[a] + 1)
         \/ Finish(p)
      /\ renotified' \in [Notices -> Nat] /\ \A b \in Notices : renotified'[b] >= renotified[b]
    <2>1. renotified \in [Notices -> Nat]
        BY <1>1 DEF NoticeTablesOK
    <2>2. renotified' = renotified \/ renotified' = [renotified EXCEPT ![a] = @ + 1]
        BY <1>2 DEF CreateNotice, EditWrite, DeleteWrite
    <2>3. \/ GoTo(p, "ann_fanout") /\ (pc[p] = "ann_create" \/ renotified' = [renotified EXCEPT ![a] = @ + 1])
          \/ Finish(p)
        BY <1>1, <1>2 DEF CreateNotice, EditWrite, DeleteWrite
    <2> QED BY <2>1, <2>2, <2>3
<1>8. /\ HandlersTypeOK(NoticeStages, NoticeJobs)' /\ Lone' /\ OthersStay(p)
      /\ faults' = faults /\ overlapped' = overlapped
      /\ GoTo(p, "ann_fanout") => pc'[p] = "ann_fanout" /\ job' = job
      /\ Finish(p) => pc'[p] = "idle"
    BY <1>1, <1>7, GoToStep, FinishStep
<1>9. NoticeTablesOK'
    BY <1>1, <1>4, <1>5, <1>6, <1>7 DEF NoticeTablesOK
<1>10. ASSUME ~overlapped, NEW b \in Notices, ~notices'[b].dispatched
       PROVE  Room(b)'
    <2>1. Room(b)
        <3>1. CASE ~notices[b].dispatched
            BY <1>1, <1>10, <3>1, UnstampedHasRoom
        <3>2. CASE b = a /\ pc[p] = "ann_create"
            BY <1>1, <1>3, <1>10, <3>2 DEF NoticesInHand
        <3> QED BY <1>4, <1>5, <1>10, <3>1, <3>2
    <2>2. fanouts'[b] = fanouts[b] /\ renotified'[b] >= renotified[b] /\ faults' \in Nat /\ faults' >= faults
        BY <1>1, <1>7, <1>8
    <2> QED BY <1>9, <2>1, <2>2, RoomStays
<1>11. NoticesInHand(p)'
    <2>1. CASE Finish(p)
        BY <1>8, <2>1 DEF NoticesInHand
    <2>2. CASE GoTo(p, "ann_fanout") /\ (pc[p] = "ann_create" \/ renotified'[a] = renotified[a] + 1)
        <3>1. ~overlapped => Room(a)'
            <4>1. CASE pc[p] = "ann_create"
                <5>1. ~overlapped => Room(a)
                    BY <1>1, <1>3, <4>1 DEF NoticesInHand
                <5>2. fanouts'[a] = fanouts[a] /\ renotified'[a] >= renotified[a] /\ faults' \in Nat /\ faults' >= faults
                    BY <1>1, <1>7, <1>8
                <5> QED BY <1>9, <5>1, <5>2, RoomStays
            <4>2. CASE renotified'[a] = renotified[a] + 1
                <5>1. ~overlapped => fanouts[a] <= 1 + renotified[a] + faults
                    BY DEF NoticesInv, SendingsCounted
                <5>2. fanouts[a] \in Nat /\ renotified[a] \in Nat
                    BY <1>1 DEF NoticeTablesOK
                <5> QED BY <1>1, <1>8, <4>2, <5>1, <5>2 DEF Room
            <4> QED BY <2>2, <4>1, <4>2
        <3>2. \A i, k \in 1..1 : i = 1 /\ i = k
            OBVIOUS
        <3> QED BY <1>3, <1>5, <1>6, <1>8, <2>2, <3>1, <3>2 DEF NoticesInHand, Room
    <2> QED BY <1>7, <2>1, <2>2
<1>12. ~overlapped' => \A q \in Procs : q # p => pc[q] = "idle"
    BY <1>1, <1>8 DEF Lone
<1>13. \A b \in Notices : notices'[b].state = "absent" => notices[b].state = "absent" /\ ~notices'[b].dispatched
    BY <1>5, <1>6 DEF NoticesInv, SendingsCounted
<1> QED BY <1>1, <1>7, <1>8, <1>9, <1>10, <1>11, <1>12, <1>13, NoticesFrame

(* The announcement in hand is sent: that uses up its room.                  *)
LEMMA NoticeSent ==
    ASSUME NoticesInv, NEW p \in Procs, FanOut(p)
    PROVE  NoticesInv'
<1>1. /\ HandlersTypeOK(NoticeStages, NoticeJobs) /\ Lone /\ NoticeTablesOK /\ NoticesInHand(p)
      /\ "idle" \notin NoticeStages /\ "ann_stamp" \in NoticeStages
      /\ pc[p] = "ann_fanout" /\ faults \in Nat
      /\ GoTo(p, "ann_stamp") /\ UNCHANGED <<notices, clock, edits, renotified>>
    BY HandlersAssumptions
       DEF NoticesInv, NoticesTypeOK, NoticeStages, HandlersTypeOK, HandlersAssumptions, FanOut
<1>2. PICK a \in Notices : a = InHand(p) /\ a = job[p].list[1]
    BY <1>1, ListType
<1>3. /\ HandlersTypeOK(NoticeStages, NoticeJobs)' /\ Lone' /\ OthersStay(p)
      /\ pc'[p] = "ann_stamp" /\ job' = job /\ faults' = faults /\ overlapped' = overlapped
    BY <1>1, GoToStep
<1>4. fanouts' = [fanouts EXCEPT ![a] = @ + 1]
    BY <1>2 DEF FanOut
<1>5. /\ fanouts'[a] = fanouts[a] + 1 /\ fanouts' \in [Notices -> Nat]
      /\ \A b \in Notices : b # a => fanouts'[b] = fanouts[b]
    BY <1>1, <1>4 DEF NoticeTablesOK
<1>6. NoticeTablesOK'
    BY <1>1, <1>5 DEF NoticeTablesOK
<1>7. \A b \in Notices : b # a => (Room(b)' <=> Room(b))
    BY <1>1, <1>3, <1>5 DEF Room
<1>8. InHand(p)' = a
    BY <1>2, <1>3 DEF InHand
<1>9. NoticesInHand(p)'
    <2>1. ASSUME ~overlapped, NEW i \in 2..Len(job[p].list)
          PROVE  fanouts'[job[p].list[i]] <= renotified'[job[p].list[i]] + faults'
        <3>1. i \in 1..Len(job[p].list) /\ 1 \in 1..Len(job[p].list) /\ i # 1
            BY <1>1, ListType
        <3>2. PICK b \in Notices : b = job[p].list[i]
            BY <1>1, <3>1, ListType
        <3>3. b # a /\ Room(b)
            BY <1>1, <1>2, <2>1, <3>1, <3>2 DEF NoticesInHand
        <3>4. Room(b)'
            BY <1>7, <3>3
        <3> QED BY <1>3, <3>2, <3>4 DEF Room
    <2> QED BY <1>1, <1>3, <2>1 DEF NoticesInHand, Room
<1>10. ASSUME NEW q \in Procs, q # p
       PROVE  NoticesInHand(q)'
    <2>1. pc'[q] = pc[q] /\ job'[q] = job[q] /\ NoticesInHand(q) /\ (~overlapped' => pc[q] = "idle")
        BY <1>1, <1>3, <1>10 DEF NoticesInv, OthersStay, Lone
    <2> QED BY <1>1, <2>1 DEF NoticesInHand
<1>11. ASSUME NEW b \in Notices
       PROVE  /\ notices'[b].state = "absent" => ~notices'[b].dispatched
              /\ ~overlapped' => /\ fanouts'[b] <= 1 + renotified'[b] + faults'
                                 /\ ~notices'[b].dispatched => Room(b)' \/ Stamping(b)'
    <2>1. notices[b].state = "absent" => ~notices[b].dispatched
        BY DEF NoticesInv, SendingsCounted
    <2>2. ASSUME ~overlapped
          PROVE  /\ fanouts'[b] <= 1 + renotified'[b] + faults'
                 /\ ~notices'[b].dispatched => Room(b)' \/ Stamping(b)'
        <3>1. CASE b = a
            <4>1. Room(a)
                <5>1. 1 \in 1..Len(job[p].list)
                    BY <1>1, ListType
                <5> QED BY <1>1, <1>2, <2>2, <5>1 DEF NoticesInHand
            <4>2. fanouts[a] \in Nat /\ renotified[a] \in Nat /\ renotified'[a] = renotified[a]
                BY <1>1 DEF NoticeTablesOK
            <4>3. Stamping(a)'
                BY <1>3, <1>8 DEF Stamping
            <4> QED BY <1>1, <1>3, <1>5, <3>1, <4>1, <4>2, <4>3 DEF Room
        <3>2. CASE b # a
            <4>1. fanouts[b] <= 1 + renotified[b] + faults
                BY <2>2 DEF NoticesInv, SendingsCounted
            <4>2. ~notices[b].dispatched => Room(b)
                BY <1>1, <2>2, UnstampedHasRoom
            <4> QED BY <1>1, <1>3, <1>5, <1>7, <3>2, <4>1, <4>2
        <3> QED BY <3>1, <3>2
    <2> QED BY <1>1, <1>3, <2>1, <2>2
<1>12. \A q \in Procs : NoticesInHand(q)'
    BY <1>9, <1>10
<1> QED BY <1>3, <1>6, <1>11, <1>12 DEF NoticesInv, NoticesTypeOK, SendingsCounted

(* It is stamped, or that fails, and a run goes on to the next.              *)
LEMMA NoticeStamped ==
    ASSUME NoticesInv, NEW p \in Procs, Stamp(p) \/ CronItemFails(p)
    PROVE  NoticesInv'
<1>1. /\ NoticeTablesOK /\ NoticesInHand(p) /\ Lone /\ faults \in Nat /\ pc[p] \in {"ann_fanout", "ann_stamp"}
      /\ UNCHANGED <<clock, fanouts, edits, renotified>>
    BY HandlersAssumptions
       DEF NoticesInv, NoticesTypeOK, HandlersTypeOK, HandlersAssumptions, Stamp, CronItemFails, noticeVars
<1>2. PICK a \in Notices : a = InHand(p) /\ a = job[p].list[1] /\ 1 \in 1..Len(job[p].list)
    BY <1>1, ListType
<1>3. notices[a].state # "absent"
    BY <1>1, <1>2 DEF NoticesInHand
<1>4. \/ pc[p] = "ann_stamp" /\ notices' = [notices EXCEPT ![a].dispatched = TRUE] /\ faults' = faults
      \/ notices' = notices /\ faults' = faults + 1
    BY <1>2 DEF Stamp, CronItemFails, noticeVars, NextNotice, Finish, Carry
<1>5. /\ NoticeTablesOK' /\ \A b \in Notices : notices'[b].state = notices[b].state
      /\ \A b \in Notices : b # a => notices'[b] = notices[b]
      /\ notices' = notices \/ (pc[p] = "ann_stamp" /\ notices'[a].dispatched)
    <2>1. CASE pc[p] = "ann_stamp" /\ notices' = [notices EXCEPT ![a].dispatched = TRUE]
        <3> DEFINE row == [notices[a] EXCEPT !.dispatched = TRUE]
        <3>1. notices[a] \in [state : {"absent", "posted", "deleted"}, publish : Times \cup {NoTime}, dispatched : BOOLEAN]
            BY <1>1 DEF NoticeTablesOK
        <3>2. row \in [state : {"absent", "posted", "deleted"}, publish : Times \cup {NoTime}, dispatched : BOOLEAN]
              /\ row.state = notices[a].state /\ row.dispatched
            BY <3>1
        <3>3. notices' = [notices EXCEPT ![a] = row]
            BY <2>1
        <3> HIDE DEF row
        <3> QED BY <1>1, <2>1, <3>2, <3>3, ZenonT(60) DEF NoticeTablesOK
    <2>2. CASE notices' = notices
        BY <1>1, <2>2 DEF NoticeTablesOK
    <2> QED BY <1>4, <2>1, <2>2
<1>6. /\ HandlersTypeOK(NoticeStages, NoticeJobs)' /\ Lone' /\ OthersStay(p)
      /\ faults' \in Nat /\ faults' >= faults /\ NoticesInHand(p)' /\ overlapped' = overlapped
    <2>1. /\ \/ /\ Len(job[p].list) = 1
                /\ pc' = [pc EXCEPT ![p] = "idle"] /\ job' = [job EXCEPT ![p] = NoJob]
             \/ /\ Len(job[p].list) # 1
                /\ pc' = [pc EXCEPT ![p] = "ann_fanout"]
                /\ job' = [job EXCEPT ![p] = [job[p] EXCEPT !.list = Tail(@)]]
          /\ overlapped' = overlapped
          /\ faults' = faults \/ (faults < MaxFaults /\ faults' = faults + 1)
        <3>1. CASE Stamp(p)
            BY <3>1 DEF Stamp, NextNotice, Finish, Carry
        <3>2. CASE CronItemFails(p)
            <4>1. [job EXCEPT ![p].list = Tail(@)] = [job EXCEPT ![p] = [job[p] EXCEPT !.list = Tail(@)]]
                OBVIOUS
            <4> QED BY <3>2, <4>1 DEF CronItemFails
        <3> QED BY <3>1, <3>2
    <2> QED BY <1>1, <1>5, <2>1, NextNoticeStep
<1>7. ASSUME ~overlapped', NEW b \in Notices, ~notices'[b].dispatched
      PROVE  Room(b)'
    <2>1. CASE notices' = notices /\ faults' = faults + 1
        BY <1>1, <1>5, <1>6, <1>7, <2>1, RoomByFault
    <2>2. CASE pc[p] = "ann_stamp" /\ notices' = [notices EXCEPT ![a].dispatched = TRUE]
        <3>1. notices[a] \in [state : {"absent", "posted", "deleted"}, publish : Times \cup {NoTime}, dispatched : BOOLEAN]
            BY <1>1 DEF NoticeTablesOK
        <3>2. notices'[a].dispatched
            BY <1>1, <2>2, <3>1 DEF NoticeTablesOK
        <3>3. b # a /\ notices'[b] = notices[b]
            BY <1>5, <1>7, <3>2
        <3>4. Room(b)
            BY <1>1, <1>2, <1>6, <1>7, <3>3, UnstampedHasRoom
        <3>5. fanouts'[b] = fanouts[b] /\ renotified'[b] >= renotified[b]
            BY <1>1 DEF NoticeTablesOK
        <3> QED BY <1>5, <1>6, <3>4, <3>5, RoomStays
    <2> QED BY <1>4, <2>1, <2>2
<1>8. ~overlapped' => \A q \in Procs : q # p => pc[q] = "idle"
    BY <1>1, <1>6 DEF Lone
<1>9. \A b \in Notices : /\ notices'[b].state = "absent" => notices[b].state = "absent" /\ ~notices'[b].dispatched
                         /\ renotified'[b] >= renotified[b]
    BY <1>1, <1>3, <1>5 DEF NoticesInv, SendingsCounted, NoticeTablesOK
<1> QED BY <1>1, <1>5, <1>6, <1>7, <1>8, <1>9, NoticesFrame

(* What a cron run picks is a batch of due announcements, each once.         *)
LEMMA BatchType ==
    ASSUME NoticesInv, DueNotices # {}, NEW list \in Batches
    PROVE  /\ list \in Seq(Notices) /\ list # <<>>
           /\ \A i \in 1..Len(list) : /\ list[i] \in Notices
                                      /\ notices[list[i]].state # "absent"
                                      /\ ~notices[list[i]].dispatched
           /\ \A i, k \in 1..Len(list) : list[i] = list[k] => i = k
<1>1. IsFiniteSet(Notices) /\ BatchSize \in Nat /\ BatchSize >= 1
    BY AnnouncementAssumptions DEF AnnouncementAssumptions
<1>2. DueNotices \in SUBSET Notices
    BY DEF DueNotices
<1>3. IsFiniteSet(DueNotices) /\ Cardinality(DueNotices) \in Nat
    BY <1>1, <1>2, FS_Subset, FS_CardinalityType
<1>4. Cardinality(DueNotices) # 0
    BY <1>3, FS_EmptySet
<1>5. BatchLength \in Nat /\ BatchLength >= 1
    BY <1>1, <1>3, <1>4 DEF BatchLength
<1>6. list \in [1..BatchLength -> DueNotices] /\ IsInjective(list)
    BY DEF Batches
<1>7. list \in [1..BatchLength -> Notices]
    BY <1>2, <1>6
<1>8. list \in Seq(Notices)
    BY <1>5, <1>7, IsASeq
<1>9. Len(list) = BatchLength
    BY <1>5, <1>7, <1>8, LenProperties
<1>10. list # <<>>
    BY <1>5, <1>8, <1>9, NonEmpty
<1>11. \A i, k \in 1..Len(list) : list[i] = list[k] => i = k
    BY <1>6, <1>9 DEF IsInjective
<1>12. \A i \in 1..Len(list) : list[i] \in DueNotices
    BY <1>6, <1>9
<1>13. \A a \in DueNotices : a \in Notices /\ notices[a].state # "absent" /\ ~notices[a].dispatched
    BY DEF DueNotices, Due
<1> QED BY <1>8, <1>10, <1>11, <1>12, <1>13

(* A request about one announcement.                                         *)
OfOne(j, a, t) ==
    /\ j \in NoticeJobs /\ j.list # <<>> /\ Len(j.list) = 1 /\ j.publish = t
    /\ \A i \in 1..Len(j.list) : j.list[i] = a /\ i = 1

(* Every step keeps the invariant.                                           *)
LEMMA NoticesStep == NoticesInv /\ [NoticesNext]_<<handlerVars, noticeVars>> => NoticesInv'
<1> SUFFICES ASSUME NoticesInv, [NoticesNext]_<<handlerVars, noticeVars>> PROVE NoticesInv'
    OBVIOUS
<1>0. /\ HandlersTypeOK(NoticeStages, NoticeJobs) /\ Lone /\ NoticeTablesOK
      /\ NoticeStages = {"ann_create", "ann_fanout", "ann_stamp", "ann_edit", "ann_delete"}
      /\ "idle" \notin NoticeStages
      /\ faults \in Nat /\ MaxTime \in Nat /\ MaxEdits \in Nat /\ Editable \subseteq Notices
    BY HandlersAssumptions, AnnouncementAssumptions
       DEF NoticesInv, NoticesTypeOK, NoticeStages, HandlersTypeOK, HandlersAssumptions, AnnouncementAssumptions
<1>1. \A op \in {"post", "edit", "delete"}, a \in Notices, t \in Times \cup {NoTime, KeepTime}, again \in BOOLEAN :
          OfOne(NoticeJob(op, <<a>>, t, again), a, t)
    <2> SUFFICES ASSUME NEW op \in {"post", "edit", "delete"}, NEW a \in Notices,
                        NEW t \in Times \cup {NoTime, KeepTime}, NEW again \in BOOLEAN
                 PROVE  OfOne(NoticeJob(op, <<a>>, t, again), a, t)
        OBVIOUS
    <2>1. <<a>> \in Seq(Notices) /\ Len(<<a>>) = 1 /\ <<a>> # <<>> /\ <<a>>[1] = a
        OBVIOUS
    <2>2. \A i \in 1..1 : i = 1
        OBVIOUS
    <2> QED BY <2>1, <2>2 DEF OfOne, NoticeJob, NoticeJobs
<1>2. ASSUME NEW p \in Procs, NEW a \in Notices, NEW t \in Times, PostNotice(p, a, t)
      PROVE  NoticesInv'
    <2> DEFINE j == NoticeJob("post", <<a>>, t, FALSE)
    <2>1. /\ Begin(p, j, "ann_create") /\ UNCHANGED <<notices, clock, fanouts, edits, renotified>>
          /\ notices[a].state = "absent"
        BY <1>2 DEF PostNotice, noticeVars
    <2>2. ~notices[a].dispatched
        BY <2>1 DEF NoticesInv, SendingsCounted
    <2>3. OfOne(j, a, t)
        BY <1>1
    <2> HIDE DEF j
    <2>4. /\ \A i, k \in 1..Len(j.list) : j.list[i] = j.list[k] => i = k
          /\ \A i \in 1..Len(j.list) : j.list[i] \in Notices /\ ~notices[j.list[i]].dispatched
        BY <2>2, <2>3 DEF OfOne
    <2>5. edits' \in 0..MaxEdits /\ "ann_create" \in NoticeStages \ {"ann_stamp"}
        BY <1>0, <2>1 DEF NoticeTablesOK
    <2> QED BY <2>1, <2>3, <2>4, <2>5, NoticesTaken DEF OfOne
<1>3. ASSUME NEW p \in Procs, NEW a \in Notices,
             \/ \E t \in Times \cup {NoTime, KeepTime}, again \in BOOLEAN : EditRead(p, a, t, again)
             \/ DeleteRead(p, a)
      PROVE  NoticesInv'
    <2>1. PICK op \in {"edit", "delete"}, stage \in {"ann_edit", "ann_delete"},
               t \in Times \cup {NoTime, KeepTime}, again \in BOOLEAN :
              Begin(p, NoticeJob(op, <<a>>, t, again), stage)
        BY <1>3 DEF EditRead, DeleteRead
    <2> DEFINE j == NoticeJob(op, <<a>>, t, again)
    <2>2. /\ Begin(p, j, stage) /\ UNCHANGED <<notices, clock, fanouts, renotified>>
          /\ notices[a].state # "absent" /\ edits' \in 0..MaxEdits
        <3>1. edits \in 0..MaxEdits
            BY <1>0 DEF NoticeTablesOK
        <3>2. Begin(p, j, stage)
            BY <2>1
        <3>3. CASE \E u \in Times \cup {NoTime, KeepTime}, w \in BOOLEAN : EditRead(p, a, u, w)
            <4>1. /\ UNCHANGED <<notices, clock, fanouts, renotified>>
                  /\ notices[a].state = "posted" /\ edits < MaxEdits /\ edits' = edits + 1
                BY <3>3 DEF EditRead
            <4>2. notices[a].state # "absent" /\ edits' \in 0..MaxEdits
                BY <1>0, <3>1, <4>1
            <4> QED BY <3>2, <4>1, <4>2
        <3>4. CASE DeleteRead(p, a)
            <4>1. /\ UNCHANGED <<notices, clock, fanouts, edits, renotified>>
                  /\ notices[a].state = "posted"
                BY <3>4 DEF DeleteRead, noticeVars
            <4> QED BY <3>1, <3>2, <4>1
        <3> QED BY <1>3, <3>3, <3>4
    <2>3. OfOne(j, a, t)
        BY <1>1
    <2> HIDE DEF j
    <2>4. /\ \A i, k \in 1..Len(j.list) : j.list[i] = j.list[k] => i = k
          /\ \A i \in 1..Len(j.list) : notices[j.list[i]].state # "absent"
        BY <2>2, <2>3 DEF OfOne
    <2>5. stage \in NoticeStages \ {"ann_stamp"} /\ stage \notin {"ann_create", "ann_fanout"}
        BY <1>0
    <2> QED BY <2>2, <2>3, <2>4, <2>5, NoticesTaken DEF OfOne
<1>4. ASSUME NEW p \in Procs, SelectDue(p)
      PROVE  NoticesInv'
    <2>1. PICK list \in Batches : Begin(p, NoticeJob("cron", list, NoTime, FALSE), "ann_fanout")
        BY <1>4 DEF SelectDue
    <2> DEFINE j == NoticeJob("cron", list, NoTime, FALSE)
    <2>2. /\ Begin(p, j, "ann_fanout") /\ UNCHANGED <<notices, clock, fanouts, edits, renotified>>
          /\ DueNotices # {}
        BY <1>4, <2>1 DEF SelectDue, noticeVars
    <2>3. /\ list \in Seq(Notices) /\ list # <<>>
          /\ \A i \in 1..Len(list) : /\ list[i] \in Notices
                                     /\ notices[list[i]].state # "absent"
                                     /\ ~notices[list[i]].dispatched
          /\ \A i, k \in 1..Len(list) : list[i] = list[k] => i = k
        BY <2>2, BatchType
    <2>4. j \in NoticeJobs /\ j.list = list
        BY <2>3 DEF NoticeJob, NoticeJobs
    <2> HIDE DEF j
    <2>5. edits' \in 0..MaxEdits /\ "ann_fanout" \in NoticeStages \ {"ann_stamp"}
        BY <1>0, <2>2 DEF NoticeTablesOK
    <2> QED BY <2>2, <2>3, <2>4, <2>5, NoticesTaken
<1>5. ASSUME NEW p \in Procs, Dies(p), UNCHANGED noticeVars
      PROVE  NoticesInv'
    <2>1. /\ HandlersTypeOK(NoticeStages, NoticeJobs)' /\ Lone' /\ pc'[p] = "idle" /\ pc[p] # "idle"
          /\ OthersStay(p) /\ overlapped' = overlapped /\ faults' = faults + 1
        BY <1>0, <1>5, FinishStep DEF Dies
    <2>2. UNCHANGED <<notices, clock, fanouts, edits, renotified>> /\ NoticeTablesOK'
        BY <1>0, <1>5 DEF noticeVars, NoticeTablesOK
    <2>3. ~overlapped' => \A a \in Notices : ~notices'[a].dispatched => Room(a)'
        BY <2>1, <2>2, RoomByFault
    <2>4. NoticesInHand(p)' /\ (~overlapped' => \A q \in Procs : q # p => pc[q] = "idle")
        BY <1>0, <2>1 DEF NoticesInHand, Lone
    <2>5. \A a \in Notices : /\ renotified'[a] >= renotified[a]
                             /\ notices'[a].state = "absent" => notices[a].state = "absent" /\ ~notices'[a].dispatched
        BY <1>0, <2>2 DEF NoticesInv, SendingsCounted, NoticeTablesOK
    <2>6. faults' \in Nat /\ faults' >= faults
        BY <1>0, <2>1
    <2> QED BY <2>1, <2>2, <2>3, <2>4, <2>5, <2>6, NoticesFrame
<1>6. ASSUME UNCHANGED <<handlerVars, notices, fanouts, edits, renotified>>, clock' \in Times
      PROVE  NoticesInv'
    <2>1. UNCHANGED handlerVars /\ UNCHANGED <<notices, fanouts, edits, renotified>>
        BY <1>6
    <2>2. /\ HandlersTypeOK(NoticeStages, NoticeJobs)' /\ Lone'
          /\ pc' = pc /\ job' = job /\ faults' = faults /\ overlapped' = overlapped
        BY <1>0, <2>1, HandlersStutter
    <2>3. NoticeTablesOK' /\ (\A q \in Procs : NoticesInHand(q)') /\ SendingsCounted'
        BY <1>0, <1>6, <2>1, <2>2
           DEF NoticeTablesOK, NoticesInv, NoticesInHand, SendingsCounted, Room, Stamping, InHand
    <2> QED BY <2>2, <2>3 DEF NoticesInv, NoticesTypeOK
<1>7. CASE ClockTicks
    <2>1. clock' \in Times
        BY <1>0, <1>7 DEF ClockTicks, NoticeTablesOK, Times
    <2> QED BY <1>6, <1>7, <2>1 DEF ClockTicks
<1>8. CASE UNCHANGED <<handlerVars, noticeVars>>
    BY <1>0, <1>6, <1>8 DEF NoticeTablesOK, noticeVars
<1>9. \A p \in Procs : NoticeStep(p) => NoticesInv'
    BY NoticeWritten, NoticeSent, NoticeStamped DEF NoticeStep
<1>10. CASE NoticesNext
    BY <1>0, <1>2, <1>3, <1>4, <1>5, <1>7, <1>9, <1>10 DEF NoticesNext, CronRun
<1> QED BY <1>8, <1>10

(* Announcements, their dates and their sendings keep their types, and the    *)
(* cron run a list of announcements; edits stay within their bound.           *)
THEOREM NoticeTypes == NoticesSpec => []NoticesTypeOK
<1>1. NoticesInv => NoticesTypeOK
    BY DEF NoticesInv
<1> QED BY <1>1, NoticesInitial, NoticesStep, PTL DEF NoticesSpec

(* With requests in turn an announcement is sent once, and once more for     *)
(* every edit that asked for it and every fault.                             *)
THEOREM AnnouncementsSentOnce == NoticesSpec => []SentOnce
<1>1. NoticesInv => SentOnce
    BY DEF NoticesInv, SendingsCounted, SentOnce
<1> QED BY <1>1, NoticesInitial, NoticesStep, PTL DEF NoticesSpec

----------------------------------------------------------------------------
(* Message templates *)

(* What an edit has read is something the template said, and with requests   *)
(* in turn what it says now.                                                 *)
WordingRead(p) ==
    pc[p] \in {"tpl_number", "tpl_write"} =>
       /\ \E m \in 1..Len(spoken) : job[p].old = spoken[m]
       /\ ~overlapped => job[p].old = wording

TemplatesInv == TemplatesTypeOK /\ Lone /\ WordingKept /\ \A p \in Procs : WordingRead(p)

LEMMA TemplatesInitial == HandlersInit /\ TemplatesInit => TemplatesInv
<1> SUFFICES ASSUME HandlersInit, TemplatesInit PROVE TemplatesInv
    OBVIOUS
<1>1. HandlersTypeOK(TemplateStages, TemplateJobs) /\ Lone /\ Quiescent
    BY HandlersInitType
<1>2. FirstWording \in Wordings
    BY TemplateAssumptions
<1>3. versions \in Seq(Wordings) /\ Len(versions) = 0 /\ DOMAIN versions = {}
    BY EmptySeq DEF TemplatesInit
<1>4. spoken \in Seq(Wordings) /\ Len(spoken) = 1 /\ spoken[1] = FirstWording
    BY <1>2 DEF TemplatesInit
<1>5. TemplatesTypeOK
    BY <1>1, <1>2, <1>3, <1>4 DEF TemplatesTypeOK, TemplateTablesOK, TemplatesInit
<1>6. WordingKept
    BY <1>3, <1>4 DEF WordingKept, TemplatesInit
<1> QED BY <1>1, <1>5, <1>6 DEF TemplatesInv, WordingRead, Quiescent

(* A step that leaves the template alone.                                    *)
LEMMA TemplatesFrame ==
    ASSUME TemplatesInv, HandlersTypeOK(TemplateStages, TemplateJobs)', Lone',
           UNCHANGED templateVars, overlapped => overlapped',
           NEW p \in Procs, OthersStay(p), WordingRead(p)'
    PROVE  TemplatesInv'
<1>1. ASSUME NEW q \in Procs, q # p PROVE WordingRead(q)'
    BY <1>1 DEF TemplatesInv, WordingRead, OthersStay, templateVars
<1>2. TemplateTablesOK' /\ WordingKept'
    BY DEF TemplatesInv, TemplatesTypeOK, TemplateTablesOK, WordingKept, templateVars
<1> QED BY <1>1, <1>2 DEF TemplatesInv, TemplatesTypeOK

LEMMA TemplatesWrite ==
    ASSUME TemplatesInv, NEW p \in Procs, WriteWording(p)
    PROVE  TemplatesInv'
<1>1. HandlersTypeOK(TemplateStages, TemplateJobs) /\ Lone /\ pc[p] = "tpl_write"
      /\ Finish(p) /\ WordingRead(p) /\ WordingKept /\ TemplateTablesOK
    BY DEF TemplatesInv, TemplatesTypeOK, WriteWording
<1>2. /\ HandlersTypeOK(TemplateStages, TemplateJobs)' /\ Lone' /\ pc'[p] = "idle"
      /\ OthersStay(p) /\ overlapped' = overlapped
    BY <1>1, FinishStep
<1>3. WordingRead(p)'
    BY <1>2 DEF WordingRead
<1>4. CASE UNCHANGED templateVars
    BY <1>2, <1>3, <1>4, TemplatesFrame
<1>5. CASE /\ versions' = Append(versions, Kept(p)) /\ wording' = NewWording(p)
           /\ spoken' = Append(spoken, NewWording(p))
    <2> DEFINE n == Len(versions)
    <2>1. job[p] \in TemplateJobs
        BY <1>1 DEF HandlersTypeOK
    <2>2. Kept(p) \in Wordings /\ NewWording(p) \in Wordings
        BY <2>1 DEF Kept, NewWording, TemplateJobs, Wordings
    <2>3. n \in Nat /\ Len(spoken) = n + 1 /\ wording = spoken[n + 1] /\ DOMAIN versions = 1..n
        BY <1>1, LenProperties DEF WordingKept, TemplateTablesOK
    <2>4. /\ versions' \in Seq(Wordings) /\ Len(versions') = n + 1 /\ DOMAIN versions' = 1..(n + 1)
          /\ \A i \in 1..n : versions'[i] = versions[i]
          /\ versions'[n + 1] = job[p].old
        BY <1>1, <1>5, <2>2, Grown DEF TemplateTablesOK, Kept
    <2>5. /\ spoken' \in Seq(Wordings) /\ Len(spoken') = n + 2
          /\ \A i \in 1..(n + 1) : spoken'[i] = spoken[i]
          /\ spoken'[n + 2] = wording'
        <3>1. /\ spoken' \in Seq(Wordings) /\ Len(spoken') = Len(spoken) + 1
              /\ \A i \in 1..Len(spoken) : spoken'[i] = spoken[i]
              /\ spoken'[Len(spoken) + 1] = wording'
            BY <1>1, <1>5, <2>2, Grown DEF TemplateTablesOK
        <3> QED BY <2>3, <3>1
    <2>6. (\E m \in 1..(n + 1) : job[p].old = spoken[m]) /\ (~overlapped => job[p].old = wording)
        BY <1>1, <2>3 DEF WordingRead
    <2>7. ASSUME NEW i \in 1..(n + 1)
          PROVE  (\E m \in 1..i : versions'[i] = spoken'[m]) /\ (~overlapped => versions'[i] = spoken'[i])
        <3>1. CASE i = n + 1
            BY <2>3, <2>4, <2>5, <2>6, <3>1
        <3>2. CASE i # n + 1
            <4>1. i \in 1..n /\ \A m \in 1..i : m \in 1..(n + 1)
                BY <2>3, <3>2
            <4> QED BY <1>1, <2>3, <2>4, <2>5, <4>1, SMTT(30) DEF WordingKept
        <3> QED BY <3>1, <3>2
    <2>8. WordingKept'
        BY <1>2, <2>3, <2>4, <2>5, <2>7 DEF WordingKept
    <2>9. ASSUME NEW q \in Procs PROVE WordingRead(q)'
        <3>1. CASE q = p
            BY <1>3, <3>1
        <3>2. CASE q # p
            <4>1. pc'[q] = pc[q] /\ job'[q] = job[q] /\ (pc[q] # "idle" => overlapped)
                BY <1>1, <1>2, <3>2 DEF OthersStay, Lone
            <4>2. pc[q] \in {"tpl_number", "tpl_write"} => \E m \in 1..(n + 1) : job[q].old = spoken[m]
                BY <2>3 DEF TemplatesInv, WordingRead
            <4>3. \A m \in 1..(n + 1) : m \in 1..Len(spoken') /\ spoken'[m] = spoken[m]
                BY <2>3, <2>5
            <4> QED BY <1>2, <4>1, <4>2, <4>3 DEF WordingRead
        <3> QED BY <3>1, <3>2
    <2> QED BY <1>2, <1>5, <2>2, <2>4, <2>5, <2>8, <2>9 DEF TemplatesInv, TemplatesTypeOK, TemplateTablesOK
<1> QED BY <1>4, <1>5 DEF WriteWording

LEMMA TemplatesStep ==
    ASSUME TemplatesInv, [TemplatesNext]_<<handlerVars, templateVars>>
    PROVE  TemplatesInv'
<1>0. HandlersTypeOK(TemplateStages, TemplateJobs) /\ Lone /\ TemplateTablesOK /\ WordingKept
      /\ "idle" \notin TemplateStages
    BY DEF TemplatesInv, TemplatesTypeOK, TemplateStages
<1>1. CASE UNCHANGED <<handlerVars, templateVars>>
    BY <1>1 DEF TemplatesInv, TemplatesTypeOK, handlerVars, templateVars, HandlersTypeOK, TemplateTablesOK,
                Lone, WordingKept, WordingRead
<1>2. ASSUME NEW p \in Procs, NEW subject \in Subjects \cup {KeepSubject}, NEW body \in Bodies,
             Begin(p, Saving(subject, body), "tpl_read"), UNCHANGED templateVars
      PROVE  TemplatesInv'
    <2>1. Saving(subject, body) \in TemplateJobs /\ "tpl_read" \in TemplateStages
        BY TemplateAssumptions DEF Saving, TemplateJobs, TemplateStages
    <2>2. /\ HandlersTypeOK(TemplateStages, TemplateJobs)' /\ Lone' /\ pc'[p] = "tpl_read"
          /\ OthersStay(p) /\ (overlapped => overlapped')
        BY <1>0, <1>2, <2>1, BeginStep
    <2>3. WordingRead(p)'
        BY <2>2 DEF WordingRead
    <2> QED BY <1>2, <2>2, <2>3, TemplatesFrame
<1>3. ASSUME NEW p \in Procs, NEW n \in DOMAIN versions, Rollback(p, n)
      PROVE  TemplatesInv'
    <2>1. versions[n] \in Wordings
        BY <1>0, LenProperties DEF TemplateTablesOK
    <2>2. versions[n].subject \in Subjects \cup {KeepSubject} /\ versions[n].body \in Bodies
        BY <2>1 DEF Wordings
    <2> QED BY <1>2, <1>3, <2>2 DEF Rollback
<1>4. ASSUME NEW p \in Procs, ReadWording(p)
      PROVE  TemplatesInv'
    <2> DEFINE j == [job[p] EXCEPT !.old = wording]
    <2>1. pc[p] = "tpl_read" /\ Carry(p, j, "tpl_number") /\ UNCHANGED templateVars
        BY <1>4 DEF ReadWording
    <2>2. j \in TemplateJobs /\ j.old = wording /\ "tpl_number" \in TemplateStages
        BY <1>0, <2>1 DEF TemplateJobs, TemplateTablesOK, TemplateStages, HandlersTypeOK
    <2> HIDE DEF j
    <2>3. /\ HandlersTypeOK(TemplateStages, TemplateJobs)' /\ Lone' /\ pc'[p] = "tpl_number"
          /\ OthersStay(p) /\ overlapped' = overlapped /\ job'[p] = j
        BY <1>0, <2>1, <2>2, CarryStep
    <2>4. Len(spoken) \in 1..Len(spoken) /\ wording = spoken[Len(spoken)]
        BY <1>0, LenProperties DEF WordingKept, TemplateTablesOK
    <2>5. WordingRead(p)'
        BY <2>1, <2>2, <2>3, <2>4 DEF WordingRead, templateVars
    <2> QED BY <2>1, <2>3, <2>5, TemplatesFrame
<1>5. ASSUME NEW p \in Procs, NumberVersion(p)
      PROVE  TemplatesInv'
    <2> DEFINE j == [job[p] EXCEPT !.version = Len(versions) + 1]
    <2>1. pc[p] = "tpl_number" /\ Carry(p, j, "tpl_write") /\ UNCHANGED templateVars
        BY <1>5 DEF NumberVersion
    <2>2. Len(versions) + 1 \in Nat
        BY <1>0, LenProperties DEF TemplateTablesOK
    <2>3. j \in TemplateJobs /\ j.old = job[p].old /\ "tpl_write" \in TemplateStages
        BY <1>0, <2>1, <2>2 DEF TemplateJobs, TemplateStages, HandlersTypeOK
    <2> HIDE DEF j
    <2>4. /\ HandlersTypeOK(TemplateStages, TemplateJobs)' /\ Lone' /\ pc'[p] = "tpl_write"
          /\ OthersStay(p) /\ overlapped' = overlapped /\ job'[p] = j
        BY <1>0, <2>1, <2>3, CarryStep
    <2>5. WordingRead(p)'
        BY <2>1, <2>3, <2>4 DEF TemplatesInv, WordingRead, templateVars
    <2> QED BY <2>1, <2>4, <2>5, TemplatesFrame
<1>6. ASSUME NEW p \in Procs, Dies(p), UNCHANGED templateVars
      PROVE  TemplatesInv'
    <2>1. /\ HandlersTypeOK(TemplateStages, TemplateJobs)' /\ Lone' /\ pc'[p] = "idle"
          /\ OthersStay(p) /\ overlapped' = overlapped
        BY <1>0, <1>6, FinishStep DEF Dies
    <2>2. WordingRead(p)'
        BY <2>1 DEF WordingRead
    <2> QED BY <1>6, <2>1, <2>2, TemplatesFrame
<1> QED BY <1>1, <1>2, <1>3, <1>4, <1>5, <1>6, TemplatesWrite DEF TemplatesNext, EditTemplate

(* What a template says, its versions and its edits keep their types,         *)
(* whichever edits and rollbacks run beside each other.                       *)
THEOREM TemplateTypes == TemplatesSpec => []TemplatesTypeOK
<1>1. TemplatesInv => TemplatesTypeOK
    BY DEF TemplatesInv
<1> QED BY <1>1, TemplatesInitial, TemplatesStep, PTL DEF TemplatesSpec

(* With edits in turn the versions and the template are all that it ever     *)
(* said; overlapping, every version is still something that it said before.  *)
THEOREM TemplateWordingIsKept == TemplatesSpec => []WordingKept
<1>1. TemplatesInv => WordingKept
    BY DEF TemplatesInv
<1> QED BY <1>1, TemplatesInitial, TemplatesStep, PTL DEF TemplatesSpec

----------------------------------------------------------------------------
(* Referrals *)

ReferralRows == [school : Referrers, status : ReferralStatuses, months : Rewards]

OneReward ==
    \A i, j \in DOMAIN referrals :
        referrals[i].months > 0 /\ referrals[j].months > 0 /\ referrals[i].school = referrals[j].school
        => i = j

(* The reward of a school is what the tiers say.                             *)
Rewarded(s) ==
    \A i \in DOMAIN referrals : referrals[i].school = s =>
        referrals[i].months = IF i = Latest(Qualifying(s))
                              THEN rewardFor(Cardinality(Qualifying(s))) ELSE 0

(* What a move knows: its latest referral is one of the school it settles;   *)
(* with requests in turn nothing has changed since it looked.                *)
Reckoned(p) ==
    /\ pc[p] = "rfl_create" => job[p] \in [op : {"refer"}, school : Referrers]
    /\ pc[p] = "rfl_status" =>
         /\ job[p] \in [op : {"advance"}, referral : Nat, status : ReferralStatuses]
         /\ job[p].referral \in DOMAIN referrals
    /\ pc[p] \in {"rfl_count", "rfl_latest", "rfl_settle"} =>
         job[p] \in [op : {"settle"}, school : Referrers, earned : Rewards, latest : Nat]
    /\ pc[p] \in {"rfl_latest", "rfl_settle"} /\ ~overlapped =>
         job[p].earned = rewardFor(Cardinality(Qualifying(job[p].school)))
    /\ pc[p] = "rfl_settle" =>
         /\ job[p].latest # 0 => /\ job[p].latest \in DOMAIN referrals
                                 /\ referrals[job[p].latest].school = job[p].school
         /\ ~overlapped => job[p].latest = Latest(Qualifying(job[p].school))

ReferralsInv ==
    /\ ReferralsTypeOK /\ Lone
    /\ OneReward
    /\ ~overlapped => \A s \in Referrers \ unsettled : Rewarded(s)
    /\ \A p \in Procs : Reckoned(p)

(* A set of indices has a largest one.                                       *)
LEMMA LatestIs ==
    ASSUME NEW n \in Nat, NEW ids \in SUBSET (1..n), ids # {}
    PROVE  Latest(ids) \in ids /\ \A j \in ids : j <= Latest(ids)
<1> DEFINE T == {n - i : i \in ids}
<1>1. T \subseteq Nat /\ T # {}
    <2>1. \A i \in ids : i \in Int /\ i <= n /\ n - i \in Nat
        OBVIOUS
    <2> QED BY <2>1
<1>2. \E x \in T : \A y \in T : ~(<<y, x>> \in OpToRel(<, Nat))
    BY <1>1, NatLessThanWellFounded, WFMin
<1>3. PICK x \in T : \A y \in T : ~(<<y, x>> \in OpToRel(<, Nat))
    BY <1>2
<1>4. \A y \in T : ~(y < x)
    BY <1>1, <1>3 DEF OpToRel
<1>5. PICK i \in ids : x = n - i
    BY <1>3
<1>6. \A j \in ids : j <= i
    BY <1>4, <1>5
<1> QED BY <1>6 DEF Latest

LEMMA QualifyingIs ==
    ASSUME ReferralTablesOK, NEW s
    PROVE  /\ Qualifying(s) \subseteq DOMAIN referrals /\ DOMAIN referrals = 1..Len(referrals)
           /\ Len(referrals) \in Nat
           /\ rewardFor(Cardinality(Qualifying(s))) \in Rewards
           /\ Latest(Qualifying(s)) \in Nat
           /\ Latest(Qualifying(s)) # 0 => /\ Latest(Qualifying(s)) \in DOMAIN referrals
                                           /\ referrals[Latest(Qualifying(s))].school = s
<1>1. /\ Qualifying(s) \subseteq DOMAIN referrals /\ DOMAIN referrals = 1..Len(referrals)
      /\ Len(referrals) \in Nat
    BY LenProperties DEF ReferralTablesOK, Qualifying
<1>2. Cardinality(Qualifying(s)) \in Nat
    <2>1. IsFiniteSet(1..Len(referrals))
        BY <1>1, FS_Interval
    <2> QED BY <1>1, <2>1, FS_Subset, FS_CardinalityType
<1>3. rewardFor(Cardinality(Qualifying(s))) \in Rewards
    BY <1>2 DEF rewardFor, Rewards
<1>4. CASE Qualifying(s) = {}
    BY <1>1, <1>3, <1>4 DEF Latest
<1>5. CASE Qualifying(s) # {}
    <2>1. Latest(Qualifying(s)) \in Qualifying(s)
        BY <1>1, <1>5, LatestIs
    <2> QED BY <1>1, <1>3, <2>1 DEF Qualifying
<1> QED BY <1>4, <1>5

LEMMA ReferralsInitial == HandlersInit /\ ReferralsInit => ReferralsInv
<1> SUFFICES ASSUME HandlersInit, ReferralsInit PROVE ReferralsInv
    OBVIOUS
<1>1. HandlersTypeOK(ReferralStages, ReferralJobs) /\ Lone /\ Quiescent
    BY HandlersInitType
<1>2. ReferralTablesOK /\ DOMAIN referrals = {}
    BY EmptySeq DEF ReferralsInit, ReferralTablesOK
<1>3. OneReward /\ \A s \in Referrers : Rewarded(s)
    BY <1>2 DEF OneReward, Rewarded
<1> QED BY <1>1, <1>2, <1>3 DEF ReferralsInv, ReferralsTypeOK, Reckoned, Quiescent

(* A step that leaves the referrals alone.                                   *)
LEMMA ReferralsFrame ==
    ASSUME ReferralsInv, HandlersTypeOK(ReferralStages, ReferralJobs)', Lone',
           UNCHANGED referralVars, overlapped => overlapped',
           NEW p \in Procs, OthersStay(p), Reckoned(p)'
    PROVE  ReferralsInv'
<1>1. \A s : Qualifying(s)' = Qualifying(s)
    BY DEF referralVars, Qualifying
<1>2. ASSUME NEW q \in Procs, q # p PROVE Reckoned(q)'
    BY <1>1, <1>2 DEF ReferralsInv, Reckoned, OthersStay, referralVars
<1>3. ReferralTablesOK' /\ OneReward' /\ \A s \in Referrers : Rewarded(s) => Rewarded(s)'
    BY <1>1 DEF ReferralsInv, ReferralsTypeOK, ReferralTablesOK, OneReward, Rewarded, referralVars
<1> QED BY <1>2, <1>3 DEF ReferralsInv, ReferralsTypeOK, referralVars

(* A step that writes referrals: no school changes, none is taken away.      *)
LEMMA OthersReckoned ==
    ASSUME ReferralsInv, NEW p \in Procs, pc[p] # "idle", OthersStay(p), overlapped' = overlapped,
           DOMAIN referrals \subseteq DOMAIN referrals',
           \A i \in DOMAIN referrals : referrals'[i].school = referrals[i].school,
           NEW q \in Procs, q # p
    PROVE  Reckoned(q)'
<1>1. pc'[q] = pc[q] /\ job'[q] = job[q] /\ Reckoned(q) /\ (pc[q] # "idle" => overlapped)
    BY DEF ReferralsInv, OthersStay, Lone
<1> QED BY <1>1 DEF Reckoned

LEMMA ReferralCreated ==
    ASSUME ReferralsInv, NEW p \in Procs, ReferCreate(p)
    PROVE  ReferralsInv'
<1> DEFINE n == Len(referrals)
           row == [school |-> job[p].school, status |-> "PENDING", months |-> 0]
<1>1. /\ HandlersTypeOK(ReferralStages, ReferralJobs) /\ Lone /\ ReferralTablesOK
      /\ pc[p] = "rfl_create" /\ Finish(p) /\ UNCHANGED unsettled
      /\ job[p] \in [op : {"refer"}, school : Referrers]
    BY DEF ReferralsInv, ReferralsTypeOK, ReferCreate, Reckoned
<1>2. /\ HandlersTypeOK(ReferralStages, ReferralJobs)' /\ Lone' /\ pc'[p] = "idle"
      /\ OthersStay(p) /\ overlapped' = overlapped
    BY <1>1, FinishStep
<1>3. Reckoned(p)'
    BY <1>2 DEF Reckoned
<1>4. CASE UNCHANGED referrals
    BY <1>1, <1>2, <1>3, <1>4, ReferralsFrame DEF referralVars
<1>5. CASE referrals' = Append(referrals, row)
    <2>1. row \in ReferralRows /\ row.months = 0 /\ row.status = "PENDING"
        BY <1>1 DEF ReferralRows, ReferralStatuses, Rewards
    <2> HIDE DEF row
    <2>2. /\ referrals' \in Seq(ReferralRows) /\ n \in Nat
          /\ DOMAIN referrals = 1..n /\ DOMAIN referrals' = 1..(n + 1)
          /\ \A i \in 1..n : referrals'[i] = referrals[i]
          /\ referrals'[n + 1] = row
        BY <1>1, <1>5, <2>1, Grown DEF ReferralTablesOK, ReferralRows
    <2>3. ReferralTablesOK'
        BY <1>1, <2>2 DEF ReferralTablesOK, ReferralRows
    <2>4. \A s : Qualifying(s)' = Qualifying(s)
        BY <2>1, <2>2 DEF Qualifying
    <2>5. OneReward'
        BY <2>1, <2>2 DEF ReferralsInv, OneReward
    <2>6. ASSUME NEW s \in Referrers, Rewarded(s) PROVE Rewarded(s)'
        <3>1. Latest(Qualifying(s)) # n + 1
            BY <1>1, <2>2, QualifyingIs
        <3>2. ASSUME NEW i \in 1..(n + 1), referrals'[i].school = s
              PROVE  referrals'[i].months = IF i = Latest(Qualifying(s))
                                            THEN rewardFor(Cardinality(Qualifying(s))) ELSE 0
            <4>1. CASE i = n + 1
                BY <2>1, <2>2, <3>1, <4>1
            <4>2. CASE i # n + 1
                <5>1. i \in 1..n
                    BY <2>2, <4>2
                <5> QED BY <2>2, <2>6, <3>2, <5>1 DEF Rewarded
            <4> QED BY <4>1, <4>2
        <3> QED BY <2>2, <2>4, <3>2 DEF Rewarded
    <2>7. \A q \in Procs : Reckoned(q)'
        BY <1>1, <1>2, <1>3, <2>2, OthersReckoned
    <2> QED BY <1>1, <1>2, <2>3, <2>5, <2>6, <2>7 DEF ReferralsInv, ReferralsTypeOK
<1> QED BY <1>4, <1>5 DEF ReferCreate

LEMMA ReferralAdvanced ==
    ASSUME ReferralsInv, NEW p \in Procs, AdvanceWrite(p)
    PROVE  ReferralsInv'
<1>1. /\ HandlersTypeOK(ReferralStages, ReferralJobs) /\ Lone /\ ReferralTablesOK
      /\ pc[p] = "rfl_status" /\ "idle" \notin ReferralStages
      /\ job[p].status \in ReferralStatuses /\ job[p].referral \in DOMAIN referrals
    BY DEF ReferralsInv, ReferralsTypeOK, AdvanceWrite, Reckoned, ReferralStages
<1>2. PICK i \in DOMAIN referrals : i = job[p].referral
    BY <1>1
<1>3. PICK s : s = referrals[i].school
    OBVIOUS
<1>4. s \in Referrers /\ referrals \in [1..Len(referrals) -> ReferralRows]
      /\ DOMAIN referrals = 1..Len(referrals)
    <2>1. referrals \in [1..Len(referrals) -> ReferralRows] /\ DOMAIN referrals = 1..Len(referrals)
        BY <1>1, LenProperties DEF ReferralTablesOK, ReferralRows
    <2> QED BY <1>3, <2>1 DEF ReferralRows
<1> DEFINE j == [op |-> "settle", school |-> s, earned |-> 0, latest |-> 0]
<1>5. /\ referrals' = [referrals EXCEPT ![i].status = job[p].status]
      /\ unsettled' = unsettled \cup {s}
      /\ Carry(p, j, "rfl_count")
    BY <1>2, <1>3 DEF AdvanceWrite
<1>6. j \in [op : {"settle"}, school : Referrers, earned : Rewards, latest : Nat]
    BY <1>4 DEF Rewards
<1>7. j \in ReferralJobs /\ "rfl_count" \in ReferralStages
    BY <1>6 DEF ReferralJobs, ReferralStages
<1> HIDE DEF j
<1>8. /\ HandlersTypeOK(ReferralStages, ReferralJobs)' /\ Lone' /\ pc'[p] = "rfl_count"
      /\ OthersStay(p) /\ overlapped' = overlapped /\ job'[p] = j
    BY <1>1, <1>5, <1>7, CarryStep
<1>9. Reckoned(p)'
    BY <1>6, <1>8 DEF Reckoned
<1> DEFINE row == [referrals[i] EXCEPT !.status = job[p].status]
<1>10. /\ row \in ReferralRows /\ row.school = s /\ row.months = referrals[i].months
       /\ referrals' = [referrals EXCEPT ![i] = row]
    <2>1. referrals[i] \in ReferralRows
        BY <1>4
    <2> QED BY <1>1, <1>3, <1>5, <2>1 DEF ReferralRows
<1> HIDE DEF row
<1>11. /\ ReferralTablesOK' /\ DOMAIN referrals' = DOMAIN referrals
       /\ \A k \in DOMAIN referrals : /\ referrals'[k].school = referrals[k].school
                                      /\ referrals'[k].months = referrals[k].months
                                      /\ k # i => referrals'[k] = referrals[k]
    <2>1. referrals \in Seq(ReferralRows) /\ i \in 1..Len(referrals)
        BY <1>1, <1>4 DEF ReferralTablesOK, ReferralRows
    <2>2. /\ referrals' \in Seq(ReferralRows)
          /\ \A k \in 1..Len(referrals) : referrals'[k] = IF k = i THEN row ELSE referrals[k]
        BY <1>10, <2>1, ExceptSeq
    <2>3. ReferralTablesOK'
        BY <1>1, <1>4, <1>5, <2>2 DEF ReferralTablesOK, ReferralRows
    <2> QED BY <1>3, <1>4, <1>10, <2>2, <2>3
<1>12. OneReward'
    BY <1>11 DEF ReferralsInv, OneReward
<1>13. ASSUME NEW t \in Referrers, t # s, Rewarded(t) PROVE Rewarded(t)'
    <2>1. Qualifying(t)' = Qualifying(t)
        BY <1>3, <1>11, <1>13 DEF Qualifying
    <2> QED BY <1>11, <1>13, <2>1 DEF Rewarded
<1>14. \A q \in Procs : Reckoned(q)'
    BY <1>1, <1>8, <1>9, <1>11, OthersReckoned
<1> QED BY <1>5, <1>8, <1>11, <1>12, <1>13, <1>14 DEF ReferralsInv, ReferralsTypeOK

LEMMA ReferralsSettled ==
    ASSUME ReferralsInv, NEW p \in Procs, SettleReward(p)
    PROVE  ReferralsInv'
<1>1. /\ HandlersTypeOK(ReferralStages, ReferralJobs) /\ Lone /\ ReferralTablesOK
      /\ pc[p] = "rfl_settle" /\ Finish(p) /\ Reckoned(p)
    BY DEF ReferralsInv, ReferralsTypeOK, SettleReward
<1>2. /\ HandlersTypeOK(ReferralStages, ReferralJobs)' /\ Lone' /\ pc'[p] = "idle"
      /\ OthersStay(p) /\ overlapped' = overlapped
    BY <1>1, FinishStep
<1>3. PICK s \in Referrers, e \in Rewards, l \in Nat :
          job[p].school = s /\ job[p].earned = e /\ job[p].latest = l
    BY <1>1 DEF Reckoned
<1>4. /\ l # 0 => l \in DOMAIN referrals /\ referrals[l].school = s
      /\ ~overlapped => l = Latest(Qualifying(s)) /\ e = rewardFor(Cardinality(Qualifying(s)))
    BY <1>1, <1>3 DEF Reckoned
<1>5. /\ DOMAIN referrals = 1..Len(referrals) /\ Len(referrals) \in Nat
      /\ \A i \in DOMAIN referrals : referrals[i] \in ReferralRows
    BY <1>1, LenProperties, ZenonT(60) DEF ReferralTablesOK, ReferralRows
<1>6. ASSUME NEW i \in DOMAIN referrals
      PROVE  /\ MonthsOf(p, i) = IF i = l THEN e
                                 ELSE IF referrals[i].school = s THEN 0 ELSE referrals[i].months
             /\ MonthsOf(p, i) \in Rewards
    <2>1. referrals[i].months \in Rewards /\ 0 \in Rewards
        BY <1>5 DEF ReferralRows, Rewards
    <2> QED BY <1>3, <2>1 DEF MonthsOf
<1>7. DOMAIN referrals' = DOMAIN referrals /\ unsettled' = unsettled \ {s}
    BY <1>3 DEF SettleReward
<1>8. ASSUME NEW i \in DOMAIN referrals
      PROVE  /\ referrals'[i] \in ReferralRows
             /\ referrals'[i].school = referrals[i].school
             /\ referrals'[i].status = referrals[i].status
             /\ referrals'[i].months = MonthsOf(p, i)
    <2>1. referrals'[i] = [referrals[i] EXCEPT !.months = MonthsOf(p, i)]
        BY DEF SettleReward
    <2>2. referrals[i] \in ReferralRows /\ MonthsOf(p, i) \in Rewards
        BY <1>5, <1>6
    <2> QED BY <2>1, <2>2 DEF ReferralRows
<1>9. ReferralTablesOK'
    <2>1. referrals' = [i \in 1..Len(referrals) |-> [referrals[i] EXCEPT !.months = MonthsOf(p, i)]]
        BY <1>5 DEF SettleReward
    <2>2. referrals' \in [1..Len(referrals) -> ReferralRows]
        BY <1>5, <1>8, <2>1
    <2>3. referrals' \in Seq(ReferralRows)
        BY <1>5, <2>2, SeqDef
    <2> QED BY <1>1, <1>7, <2>3 DEF ReferralTablesOK, ReferralRows
<1>10. \A t : Qualifying(t)' = Qualifying(t)
    BY <1>7, <1>8 DEF Qualifying
<1>11. OneReward'
    <2> SUFFICES ASSUME NEW i \in DOMAIN referrals, NEW k \in DOMAIN referrals,
                        MonthsOf(p, i) > 0, MonthsOf(p, k) > 0,
                        referrals[i].school = referrals[k].school
                 PROVE  i = k
        BY <1>7, <1>8 DEF OneReward
    <2>0. 0 \notin DOMAIN referrals /\ ~(0 > 0)
        BY <1>5
    <2>1. CASE referrals[i].school = s
        <3>1. \A x \in DOMAIN referrals : referrals[x].school = s /\ x # l => MonthsOf(p, x) = 0
            BY <1>6
        <3> QED BY <2>0, <2>1, <3>1
    <2>2. CASE referrals[i].school # s
        <3>1. i # l /\ k # l
            BY <1>4, <2>0, <2>2
        <3> QED BY <1>6, <2>2, <3>1 DEF ReferralsInv, OneReward
    <2> QED BY <2>1, <2>2
<1>12. ASSUME ~overlapped, NEW t \in Referrers \ unsettled' PROVE Rewarded(t)'
    <2>1. CASE t = s
        BY <1>4, <1>6, <1>7, <1>8, <1>10, <1>12, <2>1 DEF Rewarded
    <2>2. CASE t # s
        <3>1. Rewarded(t)
            BY <1>7, <1>12, <2>2 DEF ReferralsInv
        <3>2. \A i \in DOMAIN referrals : referrals[i].school = t => i # l
            BY <1>4, <1>5, <2>2
        <3> QED BY <1>6, <1>7, <1>8, <1>10, <2>2, <3>1, <3>2 DEF Rewarded
    <2> QED BY <2>1, <2>2
<1>13. Reckoned(p)'
    BY <1>2 DEF Reckoned
<1>14. \A q \in Procs : Reckoned(q)'
    BY <1>1, <1>2, <1>7, <1>8, <1>13, OthersReckoned
<1> QED BY <1>2, <1>9, <1>11, <1>12, <1>14 DEF ReferralsInv, ReferralsTypeOK

LEMMA ReferralsStep ==
    ASSUME ReferralsInv, [ReferralsNext]_<<handlerVars, referralVars>>
    PROVE  ReferralsInv'
<1>0. HandlersTypeOK(ReferralStages, ReferralJobs) /\ Lone /\ ReferralTablesOK
      /\ "idle" \notin ReferralStages /\ \A p \in Procs : Reckoned(p)
    BY DEF ReferralsInv, ReferralsTypeOK, ReferralStages
<1>1. CASE UNCHANGED <<handlerVars, referralVars>>
    <2>1. /\ pc' = pc /\ job' = job /\ overlapped' = overlapped
          /\ referrals' = referrals /\ unsettled' = unsettled
          /\ HandlersTypeOK(ReferralStages, ReferralJobs)' /\ Lone'
        BY <1>0, <1>1, HandlersStutter DEF handlerVars, referralVars
    <2>2. \A t : Qualifying(t)' = Qualifying(t)
        BY <2>1 DEF Qualifying
    <2>3. \A q \in Procs : Reckoned(q)'
        BY <1>0, <2>1, <2>2 DEF Reckoned
    <2>4. ReferralTablesOK' /\ OneReward' /\ \A s \in Referrers : Rewarded(s) => Rewarded(s)'
        BY <1>0, <2>1, <2>2 DEF ReferralsInv, ReferralTablesOK, OneReward, Rewarded
    <2> QED BY <2>1, <2>3, <2>4 DEF ReferralsInv, ReferralsTypeOK
<1>2. ASSUME NEW p \in Procs, NEW s \in Referrers, ReferRead(p, s)
      PROVE  ReferralsInv'
    <2> DEFINE j == [op |-> "refer", school |-> s]
    <2>1. j \in [op : {"refer"}, school : Referrers] /\ j \in ReferralJobs /\ "rfl_create" \in ReferralStages
        BY DEF ReferralJobs, ReferralStages
    <2>2. Begin(p, j, "rfl_create") /\ UNCHANGED referralVars
        BY <1>2 DEF ReferRead
    <2> HIDE DEF j
    <2>3. /\ HandlersTypeOK(ReferralStages, ReferralJobs)' /\ Lone' /\ pc'[p] = "rfl_create"
          /\ OthersStay(p) /\ (overlapped => overlapped') /\ job'[p] = j
        BY <1>0, <2>1, <2>2, BeginStep
    <2>4. Reckoned(p)'
        BY <2>1, <2>3 DEF Reckoned
    <2> QED BY <2>2, <2>3, <2>4, ReferralsFrame
<1>3. ASSUME NEW p \in Procs, NEW i \in DOMAIN referrals, NEW status \in Asked, AdvanceRead(p, i, status)
      PROVE  ReferralsInv'
    <2> DEFINE j == [op |-> "advance", referral |-> i, status |-> status]
    <2>1. i \in Nat /\ status \in ReferralStatuses
        BY <1>0, LenProperties, ReferralAssumptions DEF ReferralTablesOK
    <2>2. /\ j \in [op : {"advance"}, referral : Nat, status : ReferralStatuses]
          /\ j \in ReferralJobs /\ "rfl_status" \in ReferralStages /\ j.referral = i
        BY <2>1 DEF ReferralJobs, ReferralStages
    <2>3. Begin(p, j, "rfl_status") /\ UNCHANGED referralVars
        BY <1>3 DEF AdvanceRead
    <2> HIDE DEF j
    <2>4. /\ HandlersTypeOK(ReferralStages, ReferralJobs)' /\ Lone' /\ pc'[p] = "rfl_status"
          /\ OthersStay(p) /\ (overlapped => overlapped') /\ job'[p] = j
        BY <1>0, <2>2, <2>3, BeginStep
    <2>5. Reckoned(p)'
        BY <2>2, <2>3, <2>4 DEF Reckoned, referralVars
    <2> QED BY <2>3, <2>4, <2>5, ReferralsFrame
<1>4. ASSUME NEW p \in Procs, CountConverted(p)
      PROVE  ReferralsInv'
    <2> DEFINE s == job[p].school
               j == [job[p] EXCEPT !.earned = rewardFor(Cardinality(Qualifying(s)))]
    <2>1. pc[p] = "rfl_count" /\ Carry(p, j, "rfl_latest") /\ UNCHANGED referralVars
        BY <1>4 DEF CountConverted
    <2>2. job[p] \in [op : {"settle"}, school : Referrers, earned : Rewards, latest : Nat]
        BY <1>0, <2>1 DEF Reckoned
    <2>3. rewardFor(Cardinality(Qualifying(s))) \in Rewards
        BY <1>0, QualifyingIs
    <2>4. /\ j \in [op : {"settle"}, school : Referrers, earned : Rewards, latest : Nat]
          /\ j.school = s /\ j.earned = rewardFor(Cardinality(Qualifying(s)))
        BY <2>2, <2>3
    <2>5. j \in ReferralJobs /\ "rfl_latest" \in ReferralStages
        BY <2>4 DEF ReferralJobs, ReferralStages
    <2>6. \A t : Qualifying(t)' = Qualifying(t)
        BY <2>1 DEF referralVars, Qualifying
    <2> HIDE DEF j
    <2>7. /\ HandlersTypeOK(ReferralStages, ReferralJobs)' /\ Lone' /\ pc'[p] = "rfl_latest"
          /\ OthersStay(p) /\ overlapped' = overlapped /\ job'[p] = j
        BY <1>0, <2>1, <2>5, CarryStep
    <2>8. Reckoned(p)'
        BY <2>4, <2>6, <2>7 DEF Reckoned
    <2> QED BY <2>1, <2>7, <2>8, ReferralsFrame
<1>5. ASSUME NEW p \in Procs, FindLatest(p)
      PROVE  ReferralsInv'
    <2> DEFINE s == job[p].school
               l == Latest(Qualifying(s))
               j == [job[p] EXCEPT !.latest = l]
    <2>1. pc[p] = "rfl_latest" /\ Carry(p, j, "rfl_settle") /\ UNCHANGED referralVars
        BY <1>5 DEF FindLatest
    <2>2. /\ job[p] \in [op : {"settle"}, school : Referrers, earned : Rewards, latest : Nat]
          /\ ~overlapped => job[p].earned = rewardFor(Cardinality(Qualifying(s)))
        BY <1>0, <2>1 DEF Reckoned
    <2>3. l \in Nat /\ (l # 0 => l \in DOMAIN referrals /\ referrals[l].school = s)
        BY <1>0, QualifyingIs
    <2>4. /\ j \in [op : {"settle"}, school : Referrers, earned : Rewards, latest : Nat]
          /\ j.school = s /\ j.earned = job[p].earned /\ j.latest = l
        BY <2>2, <2>3
    <2>5. j \in ReferralJobs /\ "rfl_settle" \in ReferralStages
        BY <2>4 DEF ReferralJobs, ReferralStages
    <2>6. UNCHANGED referrals /\ \A t : Qualifying(t)' = Qualifying(t)
        BY <2>1 DEF referralVars, Qualifying
    <2> HIDE DEF j
    <2>7. /\ HandlersTypeOK(ReferralStages, ReferralJobs)' /\ Lone' /\ pc'[p] = "rfl_settle"
          /\ OthersStay(p) /\ overlapped' = overlapped /\ job'[p] = j
        BY <1>0, <2>1, <2>5, CarryStep
    <2>8. Reckoned(p)'
        BY <2>2, <2>3, <2>4, <2>6, <2>7 DEF Reckoned
    <2> QED BY <2>1, <2>7, <2>8, ReferralsFrame
<1>6. ASSUME NEW p \in Procs, Dies(p), UNCHANGED referralVars
      PROVE  ReferralsInv'
    <2>1. /\ HandlersTypeOK(ReferralStages, ReferralJobs)' /\ Lone' /\ pc'[p] = "idle"
          /\ OthersStay(p) /\ overlapped' = overlapped
        BY <1>0, <1>6, FinishStep DEF Dies
    <2>2. Reckoned(p)'
        BY <2>1 DEF Reckoned
    <2> QED BY <1>6, <2>1, <2>2, ReferralsFrame
<1> QED BY <1>1, <1>2, <1>3, <1>4, <1>5, <1>6, ReferralCreated, ReferralAdvanced, ReferralsSettled
        DEF ReferralsNext

(* The rows of referrals keep their types: a reward is never of a number of   *)
(* months that no tier gives.                                                 *)
THEOREM ReferralTypes == ReferralsSpec => []ReferralsTypeOK
<1>1. ReferralsInv => ReferralsTypeOK
    BY DEF ReferralsInv
<1> QED BY <1>1, ReferralsInitial, ReferralsStep, PTL DEF ReferralsSpec

(* A school's reward is on one referral at most, whatever overlaps or dies;  *)
(* with requests in turn it is what the tiers say, on the latest referral    *)
(* that counts.                                                              *)
THEOREM RewardsMatch == ReferralsSpec => []RewardsMatchTiers
<1>1. ReferralsInv => RewardsMatchTiers
    BY DEF ReferralsInv, OneReward, Rewarded, RewardsMatchTiers
<1> QED BY <1>1, ReferralsInitial, ReferralsStep, PTL DEF ReferralsSpec

----------------------------------------------------------------------------
(* Refunds of subscription charges *)

RefundRequests == [op : {"refund"}, charge : Charges, amount : 1..Amount, already : Nat]
OtherRequests == [op : {"retry", "resolve"}, charge : Charges]

(* What a request has read is still so when it writes, with requests in turn. *)
RefundKnown(p) ==
    /\ pc[p] \in {"ref_gateway", "ref_write", "ref_failed"} => job[p] \in RefundRequests
    /\ pc[p] \in {"retry_write", "resolve_write"} => job[p] \in OtherRequests
    /\ pc[p] \in {"ref_gateway", "ref_write"} /\ ~overlapped =>
         /\ job[p].already = refunded[job[p].charge]
         /\ job[p].already + job[p].amount <= Amount
         /\ charges[job[p].charge].status \in Settled
    /\ pc[p] = "retry_write" /\ ~overlapped => charges[job[p].charge].status = "FAILED"

(* The naira that the requests in S ask for, one by one: overlapping         *)
(* requests cannot be added up, but their naira can be counted.              *)
NairaOf(S, j) == {x \in Procs \X (1..Amount) : x[1] \in S /\ x[2] <= j[x[1]].amount}
Sum(S, j) == Cardinality(NairaOf(S, j))

Asking(c) == {p \in Procs : pc[p] \in {"ref_gateway", "ref_write"} /\ job[p].charge = c}
AnsweredOn(c) == {p \in Procs : pc[p] = "ref_write" /\ job[p].charge = c}

(* What has been refunded and what is asked for never exceed the amount for  *)
(* each request; the gateway has paid what the rows say, or will once those  *)
(* who have its answer write them.                                           *)
RefundsCovered ==
    \A c \in Charges :
        /\ refunded[c] + Sum(Asking(c), job) <= Amount * Cardinality(Procs)
        /\ faults = 0 => paidOut[c] = IF charges[c].live THEN refunded[c] + Sum(AnsweredOn(c), job) ELSE 0

RefundsInv ==
    /\ RefundsTypeOK /\ Lone
    /\ RefundsInTurn /\ RefundsCovered
    /\ \A p \in Procs : RefundKnown(p)

LEMMA SumType ==
    ASSUME NEW S, NEW j
    PROVE  IsFiniteSet(NairaOf(S, j)) /\ Sum(S, j) \in Nat
<1>1. IsFiniteSet(Procs) /\ IsFiniteSet(1..Amount)
    BY HandlersAssumptions, RefundAssumptions, FS_Interval
<1>2. IsFiniteSet(Procs \X (1..Amount))
    BY <1>1, FS_Product
<1>3. NairaOf(S, j) \in SUBSET (Procs \X (1..Amount))
    BY DEF NairaOf
<1> QED BY <1>2, <1>3, FS_Subset, FS_CardinalityType DEF Sum

(* One more request asks.                                                    *)
OneMore(S, U, j, p) == p \notin S /\ U = S \cup {p} /\ j[p].amount \in 1..Amount

LEMMA SumAdd ==
    ASSUME NEW S, NEW U, NEW j, NEW p \in Procs, OneMore(S, U, j, p)
    PROVE  Sum(U, j) = Sum(S, j) + j[p].amount
<1>0. PICK n \in 1..Amount : n = j[p].amount /\ p \notin S /\ U = S \cup {p}
    BY DEF OneMore
<1> DEFINE own == {p} \X (1..n)
<1>1. IsFiniteSet({p}) /\ Cardinality({p}) = 1 /\ IsFiniteSet(1..n) /\ Cardinality(1..n) = n
      /\ n \in Nat
    <2>1. n \in Nat /\ n >= 1
        BY RefundAssumptions
    <2>2. IsFiniteSet({p}) /\ Cardinality({p}) = 1
        BY FS_Singleton
    <2>3. IsFiniteSet(1..n) /\ Cardinality(1..n) = IF 1 > n THEN 0 ELSE n - 1 + 1
        BY <2>1, FS_Interval
    <2>4. (IF 1 > n THEN 0 ELSE n - 1 + 1) = n
        BY <2>1
    <2> QED BY <2>1, <2>2, <2>3, <2>4
<1>2. IsFiniteSet(own) /\ Cardinality(own) = n
    <2>1. IsFiniteSet(own) /\ Cardinality(own) = Cardinality({p}) * Cardinality(1..n)
        BY <1>1, FS_Product
    <2>2. 1 * n = n
        BY <1>1
    <2> QED BY <1>1, <2>1, <2>2
<1>3. NairaOf(U, j) = NairaOf(S, j) \cup own
    BY <1>0, RefundAssumptions DEF NairaOf
<1>4. NairaOf(S, j) \cap own = {}
    BY <1>0 DEF NairaOf
<1>5. Cardinality(NairaOf(S, j) \cap own) = 0
    BY <1>4, FS_EmptySet
<1>6. Cardinality(NairaOf(S, j) \cup own) = Cardinality(NairaOf(S, j)) + Cardinality(own)
                                               - Cardinality(NairaOf(S, j) \cap own)
    BY <1>2, SumType, FS_Union
<1> HIDE DEF own
<1>7. Cardinality(NairaOf(S, j)) \in Nat
    BY SumType DEF Sum
<1>8. Cardinality(NairaOf(U, j)) = Cardinality(NairaOf(S, j)) + n
    <2>1. Cardinality(NairaOf(S, j) \cup own) = Cardinality(NairaOf(S, j)) + n
        BY <1>1, <1>2, <1>5, <1>6, <1>7
    <2> QED BY <1>3, <2>1
<1> QED BY <1>0, <1>8 DEF Sum

LEMMA SumSame ==
    ASSUME NEW S, NEW j, NEW k, \A p \in S : k[p].amount = j[p].amount
    PROVE  Sum(S, k) = Sum(S, j)
BY DEF Sum, NairaOf

LEMMA SumBound ==
    ASSUME NEW S \in SUBSET Procs, NEW j, NEW p \in Procs, p \notin S
    PROVE  Sum(S, j) + Amount <= Amount * Cardinality(Procs)
<1> DEFINE rest == Procs \ {p}
           N == Cardinality(Procs)
<1>1. /\ IsFiniteSet(rest) /\ Cardinality(rest) = N - 1 /\ N \in Nat
      /\ IsFiniteSet(1..Amount) /\ Cardinality(1..Amount) = Amount /\ Amount \in Nat
    <2>1. IsFiniteSet(Procs)
        BY HandlersAssumptions DEF HandlersAssumptions
    <2>2. Amount \in Nat /\ Amount >= 1
        BY RefundAssumptions DEF RefundAssumptions
    <2>3. IsFiniteSet(rest) /\ Cardinality(rest) = N - 1 /\ N \in Nat
        BY <2>1, FS_RemoveElement, FS_CardinalityType
    <2>4. IsFiniteSet(1..Amount) /\ Cardinality(1..Amount) = IF 1 > Amount THEN 0 ELSE Amount - 1 + 1
        BY <2>2, FS_Interval
    <2>5. (IF 1 > Amount THEN 0 ELSE Amount - 1 + 1) = Amount
        BY <2>2
    <2> QED BY <2>2, <2>3, <2>4, <2>5
<1>2. IsFiniteSet(rest \X (1..Amount)) /\ Cardinality(rest \X (1..Amount)) = (N - 1) * Amount
    <2>1. /\ IsFiniteSet(rest \X (1..Amount))
          /\ Cardinality(rest \X (1..Amount)) = Cardinality(rest) * Cardinality(1..Amount)
        BY <1>1, FS_Product
    <2> QED BY <1>1, <2>1
<1>3. NairaOf(S, j) \in SUBSET (rest \X (1..Amount))
    BY DEF NairaOf
<1>4. Sum(S, j) <= (N - 1) * Amount
    BY <1>2, <1>3, FS_Subset DEF Sum
<1>5. Sum(S, j) \in Nat
    BY SumType
<1>6. (N - 1) * Amount + Amount = Amount * N
    BY <1>1
<1>7. (N - 1) * Amount \in Int /\ Amount * N \in Int
    BY <1>1
<1> QED BY <1>1, <1>4, <1>5, <1>6, <1>7

(* One request moves between groups of requests: what the others ask for is  *)
(* what it was, and the sums differ by what it asks for.                     *)
OneMoves(S, T, j, k, p) ==
    /\ S \in SUBSET Procs /\ T \in SUBSET Procs
    /\ \A q \in Procs : q # p => (q \in S <=> q \in T)
    /\ \A q \in Procs : q # p => k[q].amount = j[q].amount
    /\ p \in S => j[p].amount \in 1..Amount
    /\ p \in T => k[p].amount \in 1..Amount

SumMoves(S, T, j, k, p) ==
    /\ p \in S /\ p \notin T => Sum(S, j) = Sum(T, k) + j[p].amount
    /\ p \notin S /\ p \in T => Sum(T, k) = Sum(S, j) + k[p].amount
    /\ p \notin S /\ p \notin T => Sum(T, k) = Sum(S, j)
    /\ p \in S /\ p \in T /\ k[p] = j[p] => Sum(T, k) = Sum(S, j)

LEMMA SumStep ==
    ASSUME NEW S, NEW T, NEW j, NEW k, NEW p \in Procs, OneMoves(S, T, j, k, p)
    PROVE  SumMoves(S, T, j, k, p)
<1> DEFINE R == S \ {p}
<1>1. /\ R \in SUBSET Procs /\ p \notin R /\ R = T \ {p}
      /\ (p \in S => S = R \cup {p} /\ j[p].amount \in 1..Amount)
      /\ (p \in T => T = R \cup {p} /\ k[p].amount \in 1..Amount)
      /\ (p \notin S => S = R) /\ (p \notin T => T = R)
    BY DEF OneMoves
<1>2. Sum(R, k) = Sum(R, j)
    BY SumSame DEF OneMoves
<1> HIDE DEF R
<1>3. (p \in S => OneMore(R, S, j, p)) /\ (p \in T => OneMore(R, T, k, p))
    BY <1>1 DEF OneMore
<1>4. p \in S => Sum(S, j) = Sum(R, j) + j[p].amount
    BY <1>3, SumAdd
<1>5. p \in T => Sum(T, k) = Sum(R, k) + k[p].amount
    BY <1>3, SumAdd
<1> QED BY <1>1, <1>2, <1>4, <1>5 DEF SumMoves

LEMMA RefundsInitial == HandlersInit /\ RefundsInit => RefundsInv
<1> SUFFICES ASSUME HandlersInit, RefundsInit PROVE RefundsInv
    OBVIOUS
<1>1. HandlersTypeOK(RefundStages, RefundJobs) /\ Lone /\ Quiescent
    BY HandlersInitType
<1>2. RefundTablesOK
    BY DEF RefundsInit, RefundTablesOK, ChargeStatuses
<1>3. Amount \in Nat /\ Amount >= 1 /\ Cardinality(Procs) \in Nat
    BY RefundAssumptions, HandlersAssumptions, FS_CardinalityType DEF RefundAssumptions, HandlersAssumptions
<1>4. RefundsInTurn
    BY <1>3 DEF RefundsInit, RefundsInTurn
<1>5. ASSUME NEW c \in Charges
      PROVE  Sum(Asking(c), job) = 0 /\ Sum(AnsweredOn(c), job) = 0
    <2>1. NairaOf(Asking(c), job) = {} /\ NairaOf(AnsweredOn(c), job) = {}
        BY <1>1 DEF Quiescent, NairaOf, Asking, AnsweredOn
    <2> QED BY <2>1, FS_EmptySet DEF Sum
<1>6. RefundsCovered
    <2>1. Amount * Cardinality(Procs) >= 0
        BY <1>3
    <2> QED BY <1>5, <2>1 DEF RefundsInit, RefundsCovered
<1>7. \A p \in Procs : RefundKnown(p)
    BY <1>1 DEF RefundKnown, Quiescent
<1> QED BY <1>1, <1>2, <1>4, <1>6, <1>7 DEF RefundsInv, RefundsTypeOK

LEMMA OthersKnown ==
    ASSUME RefundsInv, NEW p \in Procs, OthersStay(p), overlapped => overlapped',
           UNCHANGED <<charges, refunded>> \/ (pc[p] # "idle" /\ overlapped' = overlapped),
           NEW q \in Procs, q # p
    PROVE  RefundKnown(q)'
<1>1. pc'[q] = pc[q] /\ job'[q] = job[q] /\ RefundKnown(q)
      /\ (pc[q] # "idle" /\ pc[p] # "idle" => overlapped)
    BY DEF RefundsInv, OthersStay, Lone
<1> QED BY <1>1 DEF RefundKnown

(* How the sums move with the request that moves.                            *)
LEMMA AskingStep ==
    ASSUME RefundsInv, NEW p \in Procs, OthersStay(p), RefundKnown(p)', NEW c \in Charges
    PROVE  /\ p \in Asking(c) /\ p \notin Asking(c)' =>
                Sum(Asking(c), job) = Sum(Asking(c), job)' + job[p].amount
           /\ p \notin Asking(c) /\ p \in Asking(c)' =>
                Sum(Asking(c), job)' = Sum(Asking(c), job) + job'[p].amount
           /\ p \notin Asking(c) /\ p \notin Asking(c)' => Sum(Asking(c), job)' = Sum(Asking(c), job)
           /\ p \in Asking(c) /\ p \in Asking(c)' /\ job'[p] = job[p] =>
                Sum(Asking(c), job)' = Sum(Asking(c), job)
           /\ p \in AnsweredOn(c) /\ p \notin AnsweredOn(c)' =>
                Sum(AnsweredOn(c), job) = Sum(AnsweredOn(c), job)' + job[p].amount
           /\ p \notin AnsweredOn(c) /\ p \in AnsweredOn(c)' =>
                Sum(AnsweredOn(c), job)' = Sum(AnsweredOn(c), job) + job'[p].amount
           /\ p \notin AnsweredOn(c) /\ p \notin AnsweredOn(c)' => Sum(AnsweredOn(c), job)' = Sum(AnsweredOn(c), job)
           /\ Sum(Asking(c), job) \in Nat /\ Sum(Asking(c), job)' \in Nat
           /\ Sum(AnsweredOn(c), job) \in Nat /\ Sum(AnsweredOn(c), job)' \in Nat
<1>1. /\ Asking(c) \in SUBSET Procs /\ Asking(c)' \in SUBSET Procs
      /\ AnsweredOn(c) \in SUBSET Procs /\ AnsweredOn(c)' \in SUBSET Procs
    BY DEF Asking, AnsweredOn
<1>2. \A q \in Procs : q # p => /\ q \in Asking(c) <=> q \in Asking(c)'
                                /\ q \in AnsweredOn(c) <=> q \in AnsweredOn(c)'
                                /\ job'[q].amount = job[q].amount
    BY DEF OthersStay, Asking, AnsweredOn
<1>3. /\ p \in Asking(c) \/ p \in AnsweredOn(c) => job[p].amount \in 1..Amount
      /\ p \in Asking(c)' \/ p \in AnsweredOn(c)' => job'[p].amount \in 1..Amount
    BY DEF RefundsInv, RefundKnown, Asking, AnsweredOn, RefundRequests
<1>4. SumMoves(Asking(c), Asking(c)', job, job', p)
    <2>1. OneMoves(Asking(c), Asking(c)', job, job', p)
        BY <1>1, <1>2, <1>3 DEF OneMoves
    <2> QED BY <2>1, SumStep
<1>5. SumMoves(AnsweredOn(c), AnsweredOn(c)', job, job', p)
    <2>1. OneMoves(AnsweredOn(c), AnsweredOn(c)', job, job', p)
        BY <1>1, <1>2, <1>3 DEF OneMoves
    <2> QED BY <2>1, SumStep
<1>6. /\ Sum(Asking(c), job)' = Sum(Asking(c)', job')
      /\ Sum(AnsweredOn(c), job)' = Sum(AnsweredOn(c)', job')
    BY DEF Sum, NairaOf
<1>7. /\ Sum(Asking(c), job) \in Nat /\ Sum(Asking(c)', job') \in Nat
      /\ Sum(AnsweredOn(c), job) \in Nat /\ Sum(AnsweredOn(c)', job') \in Nat
    BY SumType
<1> QED BY <1>4, <1>5, <1>6, <1>7 DEF SumMoves

(* A step that neither asks for more nor refunds anything.                   *)
LEMMA RefundsFrame ==
    ASSUME RefundsInv, HandlersTypeOK(RefundStages, RefundJobs)', Lone', RefundTablesOK',
           NEW p \in Procs, OthersStay(p), RefundKnown(p)',
           overlapped => overlapped', faults' = 0 => faults = 0 /\ UNCHANGED paidOut,
           UNCHANGED refunded, \A c \in Charges : charges'[c].live = charges[c].live,
           UNCHANGED charges \/ (pc[p] # "idle" /\ overlapped' = overlapped),
           pc'[p] \notin {"ref_gateway", "ref_write"},
           faults' = 0 => pc[p] # "ref_write",
           RefundsInTurn'
    PROVE  RefundsInv'
<1>1. \A q \in Procs : RefundKnown(q)'
    BY OthersKnown
<1>2. \A c \in Charges : /\ refunded[c] \in Nat /\ p \notin Asking(c)' /\ p \notin AnsweredOn(c)'
                         /\ faults' = 0 => p \notin AnsweredOn(c)
                         /\ p \in Asking(c) => job[p].amount \in Nat
    BY DEF RefundsInv, RefundsTypeOK, RefundTablesOK, Asking, AnsweredOn, RefundKnown, RefundRequests
<1>3. Amount * Cardinality(Procs) \in Int
    BY RefundAssumptions, HandlersAssumptions, FS_CardinalityType DEF RefundAssumptions, HandlersAssumptions
<1>4. ASSUME NEW c \in Charges
      PROVE  /\ refunded'[c] + Sum(Asking(c), job)' <= Amount * Cardinality(Procs)
             /\ faults' = 0 => paidOut'[c] = IF charges'[c].live THEN refunded'[c] + Sum(AnsweredOn(c), job)' ELSE 0
    <2>1. Sum(Asking(c), job)' <= Sum(Asking(c), job) /\ Sum(Asking(c), job)' \in Nat
          /\ Sum(Asking(c), job) \in Nat
        BY <1>2, AskingStep
    <2>2. refunded[c] + Sum(Asking(c), job) <= Amount * Cardinality(Procs)
        BY DEF RefundsInv, RefundsCovered
    <2>3. refunded'[c] + Sum(Asking(c), job)' <= Amount * Cardinality(Procs)
        BY <1>2, <1>3, <2>1, <2>2
    <2>4. faults' = 0 => Sum(AnsweredOn(c), job)' = Sum(AnsweredOn(c), job)
        BY <1>2, AskingStep
    <2> QED BY <2>3, <2>4 DEF RefundsInv, RefundsCovered
<1> QED BY <1>1, <1>4 DEF RefundsInv, RefundsTypeOK, RefundsCovered

(* A refund is asked for: so much is left, so there is room for it.          *)
LEMMA RefundTaken ==
    ASSUME RefundsInv, NEW p \in Procs, NEW c \in Charges, NEW n \in 1..Amount, RefundRead(p, c, n)
    PROVE  RefundsInv'
<1> DEFINE j == [op |-> "refund", charge |-> c, amount |-> n, already |-> refunded[c]]
<1>1. HandlersTypeOK(RefundStages, RefundJobs) /\ Lone /\ RefundTablesOK
      /\ "idle" \notin RefundStages /\ "ref_gateway" \in RefundStages
    BY DEF RefundsInv, RefundsTypeOK, RefundStages
<1>2. refunded[c] \in Nat /\ Amount \in Nat /\ n \in Nat /\ n <= Amount - refunded[c]
      /\ charges[c].status \in Settled
    BY <1>1, RefundAssumptions DEF RefundTablesOK, RefundRead, RefundAssumptions
<1>3. j \in RefundRequests /\ j \in RefundJobs /\ j.charge = c /\ j.amount = n /\ j.already = refunded[c]
    BY <1>2 DEF RefundRequests, RefundJobs
<1>4. Begin(p, j, "ref_gateway") /\ UNCHANGED refundVars
    BY DEF RefundRead
<1> HIDE DEF j
<1>5. /\ HandlersTypeOK(RefundStages, RefundJobs)' /\ Lone' /\ pc'[p] = "ref_gateway"
      /\ OthersStay(p) /\ (overlapped => overlapped') /\ job'[p] = j /\ pc[p] = "idle"
      /\ faults' = faults
    BY <1>1, <1>3, <1>4, BeginStep
<1>6. /\ UNCHANGED <<charges, refunded>> /\ UNCHANGED paidOut /\ RefundTablesOK'
      /\ RefundsInTurn => RefundsInTurn'
    BY <1>1, <1>4, <1>5 DEF refundVars, RefundTablesOK, RefundsInTurn
<1>7. RefundKnown(p)'
    <2>1. refunded[c] + n <= Amount
        BY <1>2
    <2> QED BY <1>2, <1>3, <1>5, <1>6, <2>1 DEF RefundKnown
<1>8. \A q \in Procs : RefundKnown(q)'
    BY <1>5, <1>6, <1>7, OthersKnown
<1>9. ASSUME NEW d \in Charges
      PROVE  /\ refunded[d] + Sum(Asking(d), job)' <= Amount * Cardinality(Procs)
             /\ Sum(AnsweredOn(d), job)' = Sum(AnsweredOn(d), job)
    <2>1. p \notin Asking(d) /\ p \notin AnsweredOn(d) /\ p \notin AnsweredOn(d)'
          /\ (p \in Asking(d)' <=> d = c)
        BY <1>3, <1>5 DEF Asking, AnsweredOn
    <2>2. Sum(AnsweredOn(d), job)' = Sum(AnsweredOn(d), job)
        BY <1>5, <1>7, <2>1, AskingStep
    <2>3. CASE d # c
        <3>1. Sum(Asking(d), job)' = Sum(Asking(d), job)
            BY <1>5, <1>7, <2>1, <2>3, AskingStep
        <3> QED BY <2>2, <3>1 DEF RefundsInv, RefundsCovered
    <2>4. CASE d = c
        <3>1. Sum(Asking(d), job)' = Sum(Asking(d), job) + n /\ Sum(Asking(d), job) \in Nat
            BY <1>3, <1>5, <1>7, <2>1, <2>4, AskingStep
        <3>2. Asking(d) \in SUBSET Procs
            BY DEF Asking
        <3>3. Sum(Asking(d), job) + Amount <= Amount * Cardinality(Procs)
            BY <2>1, <3>2, SumBound
        <3>4. Amount * Cardinality(Procs) \in Int
            BY <1>2, HandlersAssumptions, FS_CardinalityType DEF HandlersAssumptions
        <3> QED BY <1>2, <2>2, <2>4, <3>1, <3>3, <3>4
    <2> QED BY <2>3, <2>4
<1>10. RefundsCovered'
    BY <1>5, <1>6, <1>9 DEF RefundsInv, RefundsCovered
<1> QED BY <1>5, <1>6, <1>8, <1>10 DEF RefundsInv, RefundsTypeOK

(* The gateway is asked: what it pays is owed a row.                         *)
LEMMA GatewayAsked ==
    ASSUME RefundsInv, NEW p \in Procs, AskGateway(p)
    PROVE  RefundsInv'
<1>1. HandlersTypeOK(RefundStages, RefundJobs) /\ Lone /\ RefundTablesOK
      /\ "idle" \notin RefundStages /\ {"ref_write", "ref_failed"} \subseteq RefundStages
      /\ pc[p] = "ref_gateway" /\ RefundKnown(p)
    BY DEF RefundsInv, RefundsTypeOK, RefundStages, AskGateway
<1>2. PICK c \in Charges, n \in 1..Amount : job[p].charge = c /\ job[p].amount = n
    BY <1>1 DEF RefundKnown, RefundRequests
<1>3. job[p] \in RefundRequests /\ UNCHANGED <<charges, refunded, markedPaid>>
      /\ Amount \in Nat /\ n \in Nat /\ faults \in Nat
    <2>1. Amount \in Nat
        BY RefundAssumptions DEF RefundAssumptions
    <2>2. faults \in Nat
        BY <1>1, HandlersAssumptions DEF HandlersAssumptions, HandlersTypeOK
    <2> QED BY <1>1, <2>1, <2>2 DEF RefundKnown, AskGateway
<1>4. /\ pc' = [pc EXCEPT ![p] = pc'[p]] /\ pc'[p] \in {"ref_write", "ref_failed"}
      /\ job' = job /\ overlapped' = overlapped
      /\ UNCHANGED faults \/ (faults < MaxFaults /\ faults' = faults + 1)
    <2>1. pc \in [Procs -> RefundStages \cup {"idle"}]
        BY <1>1 DEF HandlersTypeOK
    <2> QED BY <2>1 DEF AskGateway, GoTo
<1>5. /\ HandlersTypeOK(RefundStages, RefundJobs)' /\ Lone' /\ OthersStay(p)
      /\ faults' # faults => faults' > 0
    <2>1. PICK stage \in {"ref_write", "ref_failed"} : pc' = [pc EXCEPT ![p] = stage]
        BY <1>4
    <2>2. stage \in RefundStages \cup {"idle"} /\ pc[p] # "idle"
        BY <1>1
    <2>3. Lossy(p, stage)
        BY <1>4, <2>1, <2>2 DEF Lossy
    <2> QED BY <1>1, <2>3, LossyStep
<1>6. paidOut' \in [Charges -> Nat] /\ \A d \in Charges : d # c => paidOut'[d] = paidOut[d]
    <2>1. paidOut[c] + n \in Nat
        BY <1>1, <1>3 DEF RefundTablesOK
    <2> QED BY <1>1, <1>2, <2>1 DEF RefundTablesOK, AskGateway, Pays
<1>7. RefundTablesOK' /\ RefundsInTurn'
    BY <1>1, <1>3, <1>4, <1>6 DEF RefundsInv, RefundTablesOK, RefundsInTurn
<1>8. RefundKnown(p)'
    BY <1>1, <1>3, <1>4 DEF RefundKnown
<1>9. CASE pc'[p] = "ref_failed"
    <2>1. pc \in [Procs -> RefundStages \cup {"idle"}]
        BY <1>1 DEF HandlersTypeOK
    <2>2. faults' = faults => UNCHANGED paidOut
        BY <1>1, <1>3, <1>9, <2>1 DEF AskGateway, GoTo
    <2>3. faults' = 0 => faults = 0 /\ UNCHANGED paidOut
        BY <1>3, <1>4, <1>5, <2>2
    <2>4. UNCHANGED <<charges, refunded>> /\ pc[p] # "ref_write" /\ overlapped' = overlapped
        BY <1>1, <1>3, <1>4
    <2> QED BY <1>5, <1>7, <1>8, <1>9, <2>3, <2>4, RefundsFrame
<1>10. CASE pc'[p] = "ref_write"
    <2>1. faults' = faults /\ (charges[c].live => paidOut'[c] = paidOut[c] + n)
          /\ (~charges[c].live => paidOut'[c] = paidOut[c])
        <3>1. pc \in [Procs -> RefundStages \cup {"idle"}]
            BY <1>1 DEF HandlersTypeOK
        <3> QED BY <1>1, <1>2, <1>10, <3>1 DEF AskGateway, GoTo, AsksGateway, Pays, RefundTablesOK
    <2>2. ASSUME NEW d \in Charges
          PROVE  /\ Sum(Asking(d), job)' = Sum(Asking(d), job)
                 /\ Sum(AnsweredOn(d), job)' = Sum(AnsweredOn(d), job) + (IF d = c THEN n ELSE 0)
        <3>1. p \notin AnsweredOn(d) /\ (p \in AnsweredOn(d)' <=> d = c)
              /\ (p \in Asking(d) <=> d = c) /\ (p \in Asking(d)' <=> d = c)
            BY <1>1, <1>2, <1>4, <1>10 DEF Asking, AnsweredOn
        <3>2. Sum(Asking(d), job)' = Sum(Asking(d), job)
            BY <1>4, <1>5, <1>8, <3>1, AskingStep
        <3>3. Sum(AnsweredOn(d), job) \in Nat
              /\ Sum(AnsweredOn(d), job)' = IF d = c THEN Sum(AnsweredOn(d), job) + n ELSE Sum(AnsweredOn(d), job)
            BY <1>2, <1>4, <1>5, <1>8, <3>1, AskingStep
        <3> QED BY <1>3, <3>2, <3>3
    <2>3. ASSUME NEW d \in Charges, faults = 0
          PROVE  paidOut'[d] = IF charges[d].live THEN refunded[d] + Sum(AnsweredOn(d), job)' ELSE 0
        <3>1. paidOut[d] = IF charges[d].live THEN refunded[d] + Sum(AnsweredOn(d), job) ELSE 0
            BY <2>3 DEF RefundsInv, RefundsCovered
        <3>2. refunded[d] \in Nat /\ paidOut[d] \in Nat /\ Sum(AnsweredOn(d), job) \in Nat
            BY <1>1, SumType DEF RefundTablesOK
        <3>3. CASE d = c
            BY <1>3, <2>1, <2>2, <3>1, <3>2, <3>3
        <3>4. CASE d # c
            BY <1>6, <2>2, <3>1, <3>2, <3>4
        <3> QED BY <3>3, <3>4
    <2>4. RefundsCovered'
        BY <1>3, <2>1, <2>2, <2>3 DEF RefundsInv, RefundsCovered
    <2>5. \A q \in Procs : RefundKnown(q)'
        BY <1>3, <1>4, <1>5, <1>8, OthersKnown
    <2> QED BY <1>5, <1>7, <2>4, <2>5 DEF RefundsInv, RefundsTypeOK
<1> QED BY <1>4, <1>9, <1>10

(* The row and the status are written: the request that asked for the money  *)
(* no longer does.                                                           *)
LEMMA RefundWritten ==
    ASSUME RefundsInv, NEW p \in Procs, WriteRefund(p)
    PROVE  RefundsInv'
<1>1. /\ HandlersTypeOK(RefundStages, RefundJobs) /\ Lone /\ RefundTablesOK
      /\ pc[p] = "ref_write" /\ RefundKnown(p) /\ Finish(p) /\ UNCHANGED <<paidOut, markedPaid>>
    BY DEF RefundsInv, RefundsTypeOK, WriteRefund
<1>2. PICK c \in Charges, n \in 1..Amount, a \in Nat :
          job[p].charge = c /\ job[p].amount = n /\ job[p].already = a
    BY <1>1 DEF RefundKnown, RefundRequests
<1>3. /\ HandlersTypeOK(RefundStages, RefundJobs)' /\ Lone' /\ pc'[p] = "idle"
      /\ OthersStay(p) /\ overlapped' = overlapped /\ faults' = faults
    BY <1>1, FinishStep
<1>4. /\ refunded' = [refunded EXCEPT ![c] = @ + n]
      /\ charges' = [charges EXCEPT ![c].status = IF a + n >= Amount THEN "REFUNDED" ELSE "PARTIALLY_REFUNDED"]
    BY <1>2 DEF WriteRefund
<1>5. Amount \in Nat /\ n \in Nat /\ n >= 1 /\ refunded[c] \in Nat
    BY <1>1, RefundAssumptions DEF RefundTablesOK, RefundAssumptions
<1>6. /\ refunded'[c] = refunded[c] + n /\ refunded' \in [Charges -> Nat]
      /\ \A d \in Charges : d # c => refunded'[d] = refunded[d] /\ charges'[d] = charges[d]
      /\ charges'[c].status = IF a + n >= Amount THEN "REFUNDED" ELSE "PARTIALLY_REFUNDED"
      /\ \A d \in Charges : charges'[d].live = charges[d].live
    BY <1>1, <1>4, <1>5 DEF RefundTablesOK
<1>7. RefundTablesOK'
    BY <1>1, <1>4, <1>6 DEF RefundTablesOK, ChargeStatuses
<1>8. RefundsInTurn'
    <2> SUFFICES ASSUME ~overlapped, NEW d \in Charges
                 PROVE  /\ refunded'[d] <= Amount
                        /\ charges'[d].status = "REFUNDED" => refunded'[d] = Amount
                        /\ charges'[d].status = "PARTIALLY_REFUNDED" => refunded'[d] \in 1..(Amount - 1)
                        /\ charges'[d].status \notin {"REFUNDED", "PARTIALLY_REFUNDED"} /\ refunded'[d] > 0
                               => d \in markedPaid'
        BY <1>3 DEF RefundsInTurn
    <2>1. a = refunded[c] /\ a + n <= Amount
        BY <1>1, <1>2 DEF RefundKnown
    <2>2. CASE d = c
        BY <1>5, <1>6, <2>1, <2>2
    <2>3. CASE d # c
        BY <1>1, <1>6, <2>3 DEF RefundsInv, RefundsInTurn
    <2> QED BY <2>2, <2>3
<1>9. RefundKnown(p)'
    BY <1>3 DEF RefundKnown
<1>10. \A q \in Procs : RefundKnown(q)'
    BY <1>1, <1>3, <1>9, OthersKnown
<1>11. ASSUME NEW d \in Charges
       PROVE  /\ refunded'[d] + Sum(Asking(d), job)' = refunded[d] + Sum(Asking(d), job)
              /\ refunded'[d] + Sum(AnsweredOn(d), job)' = refunded[d] + Sum(AnsweredOn(d), job)
    <2>1. /\ p \notin Asking(d)' /\ p \notin AnsweredOn(d)'
          /\ p \in Asking(d) <=> d = c
          /\ p \in AnsweredOn(d) <=> d = c
        BY <1>1, <1>2, <1>3 DEF Asking, AnsweredOn
    <2>2. /\ Sum(Asking(d), job) \in Nat /\ Sum(Asking(d), job)' \in Nat
          /\ Sum(AnsweredOn(d), job) \in Nat /\ Sum(AnsweredOn(d), job)' \in Nat
          /\ refunded[d] \in Nat
        BY <1>1, <1>3, <1>9, AskingStep DEF RefundTablesOK
    <2>3. CASE d = c
        <3>1. Sum(Asking(d), job) = Sum(Asking(d), job)' + n /\ Sum(AnsweredOn(d), job) = Sum(AnsweredOn(d), job)' + n
            BY <1>2, <1>3, <1>9, <2>1, <2>3, AskingStep
        <3> QED BY <1>5, <1>6, <2>2, <2>3, <3>1
    <2>4. CASE d # c
        <3>1. Sum(Asking(d), job) = Sum(Asking(d), job)' /\ Sum(AnsweredOn(d), job) = Sum(AnsweredOn(d), job)'
            BY <1>3, <1>9, <2>1, <2>4, AskingStep
        <3> QED BY <1>6, <2>4, <3>1
    <2> QED BY <2>3, <2>4
<1>12. RefundsCovered'
    BY <1>1, <1>3, <1>6, <1>11 DEF RefundsInv, RefundsCovered
<1> QED BY <1>3, <1>7, <1>8, <1>10, <1>12 DEF RefundsInv, RefundsTypeOK

(* The billing job changes no charge that a request has found settled or     *)
(* failed.                                                                   *)
LEMMA ChargeBilled ==
    ASSUME RefundsInv, NEW c \in Charges, Bill(c)
    PROVE  RefundsInv'
<1>1. PICK s \in {"SUCCESSFUL", "FAILED"} : charges' = [charges EXCEPT ![c].status = s]
    BY DEF Bill
<1>2. /\ charges[c].status = "PENDING" /\ UNCHANGED <<refunded, paidOut, markedPaid>>
      /\ pc' = pc /\ job' = job /\ faults' = faults /\ overlapped' = overlapped
      /\ HandlersTypeOK(RefundStages, RefundJobs)' /\ Lone'
    BY HandlersStutter DEF Bill, RefundsInv, RefundsTypeOK, handlerVars
<1>3. /\ \A d \in Charges : charges'[d].live = charges[d].live
      /\ \A d \in Charges : d # c => charges'[d] = charges[d]
      /\ charges'[c].status = s /\ RefundTablesOK'
    BY <1>1, <1>2 DEF RefundsInv, RefundsTypeOK, RefundTablesOK, ChargeStatuses
<1>4. RefundsInTurn'
    BY <1>2, <1>3 DEF RefundsInv, RefundsInTurn
<1>5. \A q \in Procs : RefundKnown(q)'
    <2> TAKE q \in Procs
    <2>1. CASE pc[q] \in {"ref_gateway", "ref_write"} /\ ~overlapped
        <3>1. PICK d \in Charges : job[q].charge = d
            BY <2>1 DEF RefundsInv, RefundKnown, RefundRequests
        <3>2. d # c /\ charges'[d] = charges[d]
            BY <1>2, <1>3, <2>1, <3>1 DEF RefundsInv, RefundKnown, Settled
        <3> QED BY <1>2, <2>1, <3>1, <3>2 DEF RefundsInv, RefundKnown
    <2>2. CASE pc[q] = "retry_write" /\ ~overlapped
        <3>1. PICK d \in Charges : job[q].charge = d
            BY <2>2 DEF RefundsInv, RefundKnown, OtherRequests
        <3>2. d # c /\ charges'[d] = charges[d]
            BY <1>2, <1>3, <2>2, <3>1 DEF RefundsInv, RefundKnown
        <3> QED BY <1>2, <2>2, <3>1, <3>2 DEF RefundsInv, RefundKnown
    <2> QED BY <1>2, <2>1, <2>2 DEF RefundsInv, RefundKnown
<1>6. RefundsCovered'
    <2>1. \A d \in Charges : Sum(Asking(d), job)' = Sum(Asking(d), job)
                             /\ Sum(AnsweredOn(d), job)' = Sum(AnsweredOn(d), job)
        BY <1>2 DEF Sum, NairaOf, Asking, AnsweredOn
    <2> QED BY <1>2, <1>3, <2>1 DEF RefundsInv, RefundsCovered
<1> QED BY <1>2, <1>3, <1>4, <1>5, <1>6 DEF RefundsInv, RefundsTypeOK

(* A failed charge is queued again, or one is marked as paid.                *)
LEMMA ChargeSettled ==
    ASSUME RefundsInv, NEW p \in Procs, RetryWrite(p) \/ ResolveWrite(p)
    PROVE  RefundsInv'
<1>1. /\ HandlersTypeOK(RefundStages, RefundJobs) /\ Lone /\ RefundTablesOK
      /\ pc[p] \in {"retry_write", "resolve_write"} /\ RefundKnown(p) /\ Finish(p)
      /\ UNCHANGED <<refunded, paidOut>>
    BY DEF RefundsInv, RefundsTypeOK, RetryWrite, ResolveWrite
<1>2. PICK c \in Charges : job[p].charge = c
    BY <1>1 DEF RefundKnown, OtherRequests
<1>3. /\ HandlersTypeOK(RefundStages, RefundJobs)' /\ Lone' /\ pc'[p] = "idle"
      /\ OthersStay(p) /\ overlapped' = overlapped /\ faults' = faults
    BY <1>1, FinishStep
<1>4. PICK s \in {"PENDING", "SUCCESSFUL"} :
          /\ charges' = [charges EXCEPT ![c].status = s]
          /\ s = "PENDING" => pc[p] = "retry_write" /\ markedPaid' = markedPaid
          /\ s = "SUCCESSFUL" => markedPaid' = markedPaid \cup {c}
    BY <1>2 DEF RetryWrite, ResolveWrite
<1>5. /\ \A d \in Charges : charges'[d].live = charges[d].live
      /\ \A d \in Charges : d # c => charges'[d] = charges[d]
      /\ charges'[c].status = s /\ RefundTablesOK'
    BY <1>1, <1>4 DEF RefundTablesOK, ChargeStatuses
<1>6. RefundsInTurn'
    <2>1. ~overlapped /\ s = "PENDING" => charges[c].status = "FAILED"
        BY <1>1, <1>2, <1>4 DEF RefundKnown
    <2>2. markedPaid \subseteq markedPaid'
        BY <1>4
    <2> QED BY <1>1, <1>3, <1>4, <1>5, <2>1, <2>2 DEF RefundsInv, RefundsInTurn
<1>7. RefundKnown(p)'
    BY <1>3 DEF RefundKnown
<1> QED BY <1>1, <1>3, <1>5, <1>6, <1>7, RefundsFrame

(* Every step keeps the invariant.                                           *)
LEMMA RefundsStep == RefundsInv /\ [RefundsNext]_<<handlerVars, refundVars>> => RefundsInv'
<1> SUFFICES ASSUME RefundsInv, [RefundsNext]_<<handlerVars, refundVars>> PROVE RefundsInv'
    OBVIOUS
<1>0. /\ HandlersTypeOK(RefundStages, RefundJobs) /\ Lone /\ RefundTablesOK /\ RefundsInTurn
      /\ "idle" \notin RefundStages /\ {"retry_write", "resolve_write"} \subseteq RefundStages
    BY DEF RefundsInv, RefundsTypeOK, RefundStages
<1>1. CASE UNCHANGED <<handlerVars, refundVars>>
    <2>1. UNCHANGED handlerVars
        BY <1>1
    <2>2. /\ HandlersTypeOK(RefundStages, RefundJobs)' /\ Lone'
          /\ pc' = pc /\ job' = job /\ faults' = faults /\ overlapped' = overlapped
        BY <1>0, <2>1, HandlersStutter
    <2>3. /\ charges' = charges /\ refunded' = refunded /\ paidOut' = paidOut /\ markedPaid' = markedPaid
        BY <1>1 DEF refundVars
    <2>4. RefundTablesOK' /\ RefundsInTurn' /\ \A q \in Procs : RefundKnown(q)'
        BY <2>2, <2>3 DEF RefundsInv, RefundsTypeOK, RefundTablesOK, RefundsInTurn, RefundKnown
    <2>5. RefundsCovered'
        <3>1. \A d \in Charges : Sum(Asking(d), job)' = Sum(Asking(d), job)
                                 /\ Sum(AnsweredOn(d), job)' = Sum(AnsweredOn(d), job)
            BY <2>2 DEF Sum, NairaOf, Asking, AnsweredOn
        <3> QED BY <2>2, <2>3, <3>1 DEF RefundsInv, RefundsCovered
    <2> QED BY <2>2, <2>4, <2>5 DEF RefundsInv, RefundsTypeOK
<1>2. ASSUME NEW p \in Procs, NEW c \in Charges, RetryRead(p, c) \/ ResolveRead(p, c)
      PROVE  RefundsInv'
    <2>1. PICK o \in {"retry", "resolve"}, stage \in {"retry_write", "resolve_write"} :
              /\ Begin(p, [op |-> o, charge |-> c], stage)
              /\ stage = "retry_write" => charges[c].status = "FAILED"
        BY <1>2 DEF RetryRead, ResolveRead
    <2> DEFINE j == [op |-> o, charge |-> c]
    <2>2. j \in OtherRequests /\ j \in RefundJobs /\ j.charge = c /\ stage \in RefundStages
        BY <1>0 DEF OtherRequests, RefundJobs
    <2>3. Begin(p, j, stage) /\ UNCHANGED refundVars
        BY <1>2, <2>1 DEF RetryRead, ResolveRead
    <2> HIDE DEF j
    <2>4. /\ HandlersTypeOK(RefundStages, RefundJobs)' /\ Lone' /\ pc[p] = "idle" /\ pc'[p] = stage
          /\ OthersStay(p) /\ (overlapped => overlapped') /\ job'[p] = j /\ faults' = faults
        BY <1>0, <2>2, <2>3, BeginStep
    <2>5. /\ charges' = charges /\ refunded' = refunded /\ paidOut' = paidOut /\ markedPaid' = markedPaid
        BY <2>3 DEF refundVars
    <2>6. RefundKnown(p)'
        BY <2>1, <2>2, <2>4, <2>5 DEF RefundKnown
    <2>7. RefundTablesOK' /\ RefundsInTurn'
        BY <1>0, <2>4, <2>5 DEF RefundTablesOK, RefundsInTurn
    <2> QED BY <2>4, <2>5, <2>6, <2>7, RefundsFrame
<1>3. ASSUME NEW p \in Procs, WriteFailure(p) \/ (Dies(p) /\ UNCHANGED refundVars)
      PROVE  RefundsInv'
    <2>1. pc[p] # "idle" /\ (Finish(p) \/ Dies(p))
        BY <1>3 DEF WriteFailure, Dies
    <2>2. /\ charges' = charges /\ refunded' = refunded /\ paidOut' = paidOut /\ markedPaid' = markedPaid
        BY <1>3 DEF refundVars, WriteFailure
    <2>3. /\ HandlersTypeOK(RefundStages, RefundJobs)' /\ Lone' /\ pc'[p] = "idle"
          /\ OthersStay(p) /\ overlapped' = overlapped
          /\ Finish(p) => faults' = faults
          /\ Dies(p) => faults' > 0
        BY <1>0, <2>1, FinishStep
    <2>4. faults' = 0 => faults = 0 /\ pc[p] # "ref_write"
        <3>1. CASE WriteFailure(p)
            BY <2>3, <3>1 DEF WriteFailure
        <3>2. CASE Dies(p)
            BY <2>3, <3>2
        <3> QED BY <1>3, <3>1, <3>2
    <2>5. RefundKnown(p)'
        BY <2>3 DEF RefundKnown
    <2>6. RefundTablesOK' /\ RefundsInTurn'
        BY <1>0, <2>2, <2>3 DEF RefundTablesOK, RefundsInTurn
    <2> QED BY <2>1, <2>2, <2>3, <2>4, <2>5, <2>6, RefundsFrame
<1> QED BY <1>1, <1>2, <1>3, RefundTaken, GatewayAsked, RefundWritten, ChargeSettled, ChargeBilled
        DEF RefundsNext

(* Charges and refunds keep their types; whoever asks, no request asks for    *)
(* more than the whole charge, or for nothing.                                *)
THEOREM RefundTypes == RefundsSpec => []RefundsTypeOK
<1>1. RefundsInv => RefundsTypeOK
    BY DEF RefundsInv
<1> QED BY <1>1, RefundsInitial, RefundsStep, PTL DEF RefundsSpec

(* In turn, a charge is never refunded beyond its amount and its status says *)
(* how much of it was; whatever overlaps, the refunds come to no more than   *)
(* the amount for each request; and with nothing failed the gateway has paid *)
(* back what the rows say once nothing is in progress.                       *)
THEOREM RefundsStayBounded == RefundsSpec => []RefundsBounded
<1>1. RefundsInv => RefundsBounded
    <2> SUFFICES ASSUME RefundsInv, NEW c \in Charges
                 PROVE  /\ refunded[c] <= Amount * Cardinality(Procs)
                        /\ Quiescent /\ faults = 0 => paidOut[c] = IF charges[c].live THEN refunded[c] ELSE 0
        BY DEF RefundsInv, RefundsBounded
    <2>1. /\ refunded[c] \in Nat /\ Sum(Asking(c), job) \in Nat /\ Amount * Cardinality(Procs) \in Int
          /\ refunded[c] + Sum(Asking(c), job) <= Amount * Cardinality(Procs)
        <3>1. Amount * Cardinality(Procs) \in Int
            BY RefundAssumptions, HandlersAssumptions, FS_CardinalityType DEF RefundAssumptions, HandlersAssumptions
        <3> QED BY <3>1, SumType DEF RefundsInv, RefundsTypeOK, RefundTablesOK, RefundsCovered
    <2>2. refunded[c] <= Amount * Cardinality(Procs)
        BY <2>1
    <2>3. ASSUME Quiescent, faults = 0
          PROVE  paidOut[c] = IF charges[c].live THEN refunded[c] ELSE 0
        <3>1. NairaOf(AnsweredOn(c), job) = {}
            BY <2>3 DEF Quiescent, AnsweredOn, NairaOf
        <3>2. Sum(AnsweredOn(c), job) = 0
            BY <3>1, FS_EmptySet DEF Sum
        <3>3. paidOut[c] = IF charges[c].live THEN refunded[c] + Sum(AnsweredOn(c), job) ELSE 0
            BY <2>3 DEF RefundsInv, RefundsCovered
        <3> QED BY <2>1, <3>2, <3>3
    <2> QED BY <2>2, <2>3
<1> QED BY <1>1, RefundsInitial, RefundsStep, PTL DEF RefundsSpec

----------------------------------------------------------------------------
(* Subscriptions and the history of revenue *)

StatusJobs == [op : {"status"}, school : Subscribers, status : SubscriptionStatuses, old : SubscriptionRows]
OfferJobs == [op : {"offer"}, school : Subscribers, offer : Offers, dated : BOOLEAN, old : Offers]
TrialJobs == [op : {"trial"}, school : Subscribers, action : {"convert", "lost"}, old : Offers]

(* What a request has read is still so when it writes, with requests in turn. *)
SubscriptionRead(p) ==
    /\ pc[p] = "sub_status" => job[p] \in StatusJobs
                               /\ (~overlapped => job[p].old = subs[job[p].school])
    /\ pc[p] = "sub_offer" => job[p] \in OfferJobs
                              /\ (~overlapped => job[p].old = subs[job[p].school].offer)
    /\ pc[p] = "sub_trial" => job[p] \in TrialJobs
                              /\ (~overlapped => /\ job[p].old = subs[job[p].school].offer
                                                 /\ subs[job[p].school].status = "TRIAL")

(* The latest revision tells what the school pays, or that it has left: or   *)
(* that it had, when it came back unnoticed.                                 *)
Recorded(s) ==
    /\ subs[s].cancelled <=> subs[s].status = "CHURNED"
    /\ s \notin misdated =>
         /\ HasChurned(s) => subs[s].status = "CHURNED" \/ s \in returned
         /\ latest[s] # NoRevision /\ ~HasChurned(s) => latest[s].monthly = monthlyAmount(subs[s].offer)
    /\ (s \in open) <=> (subs[s].status \notin Ending \/ s \in lost)

(* Those who found the school on trial.                                      *)
OnTrial(s) == {p \in Procs : pc[p] = "sub_trial" /\ job[p].school = s}

(* Conversions made and under way are covered by the trials, and a school    *)
(* that is on trial has made none in this one.                               *)
TrialsCover(s) ==
    /\ trials[s] >= 1
    /\ bought[s] + Cardinality(OnTrial(s)) <= trials[s] * Width
    /\ subs[s].status = "TRIAL" => bought[s] <= (trials[s] - 1) * Width

SubscriptionsInv ==
    /\ SubscriptionsTypeOK /\ Lone
    /\ \A p \in Procs : SubscriptionRead(p)
    /\ ~overlapped => \A s \in Subscribers : Recorded(s)
    /\ \A s \in Subscribers : TrialsCover(s)

(* A month's worth is a number.                                              *)
LEMMA MonthlyType == ASSUME NEW o \in Offers PROVE monthlyAmount(o) \in Nat
<1>1. o.amount \in Nat /\ o.cycle \in Cycles
    BY SubscriptionAssumptions DEF SubscriptionAssumptions
<1> QED BY <1>1 DEF monthlyAmount, Cycles

LEMMA SubscriptionsInitial == HandlersInit /\ SubscriptionsInit => SubscriptionsInv
<1> SUFFICES ASSUME HandlersInit, SubscriptionsInit PROVE SubscriptionsInv
    OBVIOUS
<1>1. HandlersTypeOK(SubscriptionStages, SubscriptionJobs) /\ Lone /\ Quiescent
    BY HandlersInitType
<1>2. MaxAsked \in Nat
    BY SubscriptionAssumptions DEF SubscriptionAssumptions
<1>3. SubscriptionTablesOK
    <2>1. subs \in [Subscribers -> SubscriptionRows]
        <3>1. \A row \in [status : {"TRIAL"}, offer : Offers, cancelled : {FALSE}] : row \in SubscriptionRows
            BY DEF SubscriptionRows, SubscriptionStatuses
        <3> QED BY <3>1 DEF SubscriptionsInit
    <2>2. /\ latest \in [Subscribers -> [kind : RevisionKinds, monthly : Nat] \cup {NoRevision}]
          /\ trials \in [Subscribers -> Nat] /\ bought \in [Subscribers -> Nat]
        BY DEF SubscriptionsInit
    <2>3. asked \in 0..MaxAsked /\ \A group \in {open, misdated, returned, lost} : group \subseteq Subscribers
        BY <1>2 DEF SubscriptionsInit
    <2> QED BY <2>1, <2>2, <2>3 DEF SubscriptionTablesOK
<1>4. \A p \in Procs : SubscriptionRead(p)
    BY <1>1 DEF Quiescent, SubscriptionRead
<1>5. \A s \in Subscribers : Recorded(s)
    BY DEF SubscriptionsInit, Recorded, HasChurned, Ending
<1>6. ASSUME NEW s \in Subscribers PROVE TrialsCover(s)
    <2>1. OnTrial(s) = {}
        BY <1>1 DEF Quiescent, OnTrial
    <2>2. Cardinality(OnTrial(s)) = 0
        BY <2>1, FS_EmptySet
    <2>3. Width = 1 /\ trials[s] = 1 /\ bought[s] = 0
        BY DEF HandlersInit, SubscriptionsInit, Width
    <2> QED BY <2>2, <2>3 DEF TrialsCover
<1> QED BY <1>1, <1>3, <1>4, <1>5, <1>6 DEF SubscriptionsInv, SubscriptionsTypeOK

(* Requests that stay keep what they have read: one that writes while        *)
(* another waits has overlapped it.                                          *)
LEMMA OthersRead ==
    ASSUME SubscriptionsInv, NEW p \in Procs, OthersStay(p), overlapped => overlapped',
           UNCHANGED subs \/ (pc[p] # "idle" /\ overlapped' = overlapped),
           NEW q \in Procs, q # p
    PROVE  SubscriptionRead(q)'
<1>1. pc'[q] = pc[q] /\ job'[q] = job[q] /\ SubscriptionRead(q)
      /\ (pc[q] # "idle" /\ pc[p] # "idle" => overlapped)
    BY DEF SubscriptionsInv, OthersStay, Lone
<1> QED BY <1>1 DEF SubscriptionRead

(* Whoever moves, the trials cover what is bought, so long as what is bought *)
(* was under way and a new trial is counted.                                 *)
LEMMA TrialsStep ==
    ASSUME SubscriptionsInv, SubscriptionsTypeOK', Lone', NEW p \in Procs, OthersStay(p),
           overlapped => overlapped', NEW s \in Subscribers,
           \/ /\ bought'[s] = bought[s] /\ trials'[s] = trials[s]
              /\ subs'[s].status = "TRIAL" => subs[s].status = "TRIAL"
              /\ p \in OnTrial(s)' => subs[s].status = "TRIAL"
           \/ bought'[s] = bought[s] /\ trials'[s] = trials[s] + 1 /\ p \notin OnTrial(s)'
           \/ /\ trials'[s] = trials[s] /\ bought'[s] = bought[s] + 1
              /\ p \in OnTrial(s) /\ p \notin OnTrial(s)' /\ subs'[s].status # "TRIAL"
    PROVE  TrialsCover(s)'
<1> DEFINE t == trials[s]
           b == bought[s]
           n == Cardinality(OnTrial(s))
           m == Cardinality(OnTrial(s)')
           W == Width
           V == Width'
<1>1. /\ t \in Nat /\ b \in Nat /\ t >= 1 /\ b + n <= t * W
      /\ subs[s].status = "TRIAL" => b <= (t - 1) * W
    BY DEF SubscriptionsInv, SubscriptionsTypeOK, SubscriptionTablesOK, TrialsCover
<1>2. W \in Nat /\ V \in Nat /\ W >= 1 /\ V >= 1 /\ W <= V
    BY WidthType DEF SubscriptionsInv, SubscriptionsTypeOK, HandlersTypeOK
<1>3. n \in Nat /\ m \in Nat /\ (p \notin OnTrial(s)' => m <= n)
      /\ (p \in OnTrial(s) /\ p \notin OnTrial(s)' => n = m + 1)
    <2>1. OnTrial(s) \in SUBSET Procs /\ OnTrial(s)' \in SUBSET Procs
        BY DEF OnTrial
    <2>2. \A q \in Procs : q # p => (q \in OnTrial(s) <=> q \in OnTrial(s)')
        BY DEF OthersStay, OnTrial
    <2> HIDE DEF n, m
    <2>3. /\ n \in Nat /\ m \in Nat
          /\ p \in OnTrial(s) /\ p \notin OnTrial(s)' => n = m + 1
          /\ (p \in OnTrial(s) <=> p \in OnTrial(s)') => n = m
        BY <2>1, <2>2, GroupStep DEF n, m
    <2> QED BY <2>3
<1>4. m <= V
    <2>1. OnTrial(s)' \in SUBSET Procs /\ (~overlapped' => \A q, r \in OnTrial(s)' : q = r)
        BY DEF OnTrial, Lone
    <2>2. Cardinality(OnTrial(s)') <= IF overlapped' THEN Cardinality(Procs) ELSE 1
        BY <2>1, GroupBound
    <2> QED BY <2>2 DEF Width
<1>5. Cardinality(OnTrial(s))' = m /\ Width' = V
    BY DEF OnTrial
<1> HIDE DEF n, m, W, V, t, b
<1>6. t * W <= t * V /\ (t - 1) * W <= (t - 1) * V /\ t * V = (t - 1) * V + V
      /\ (t + 1) * V = t * V + V /\ t * V \in Int /\ t * W \in Int /\ (t - 1) * V \in Int /\ (t - 1) * W \in Int
    <2>1. \A x, y, z \in Nat : y <= z => x * y <= x * z
        OBVIOUS
    <2>2. t - 1 \in Nat /\ t \in Nat
        BY <1>1
    <2>3. t * W <= t * V /\ (t - 1) * W <= (t - 1) * V
        BY <1>2, <2>1, <2>2
    <2>4. t * V = (t - 1) * V + V /\ (t + 1) * V = t * V + V
        BY <1>1, <1>2
    <2> QED BY <1>1, <1>2, <2>2, <2>3, <2>4
<1>7. CASE /\ bought'[s] = bought[s] /\ trials'[s] = trials[s]
           /\ subs'[s].status = "TRIAL" => subs[s].status = "TRIAL"
           /\ p \in OnTrial(s)' => subs[s].status = "TRIAL"
    <2>1. trials'[s] = t /\ bought'[s] = b
        BY <1>7 DEF t, b
    <2>2. b + m <= t * V
        <3>1. CASE p \in OnTrial(s)'
            <4>1. b <= (t - 1) * W
                BY <1>1, <1>7, <3>1
            <4> QED BY <1>1, <1>2, <1>3, <1>4, <1>6, <4>1
        <3>2. CASE p \notin OnTrial(s)'
            BY <1>1, <1>2, <1>3, <1>6, <3>2
        <3> QED BY <3>1, <3>2
    <2>3. subs'[s].status = "TRIAL" => b <= (t - 1) * V
        BY <1>1, <1>2, <1>6, <1>7
    <2> QED BY <1>1, <1>5, <2>1, <2>2, <2>3 DEF TrialsCover
<1>8. CASE bought'[s] = bought[s] /\ trials'[s] = trials[s] + 1 /\ p \notin OnTrial(s)'
    <2>1. trials'[s] = t + 1 /\ bought'[s] = b
        BY <1>8 DEF t, b
    <2>2. b + m <= t * V
        BY <1>1, <1>2, <1>3, <1>6, <1>8
    <2>3. b + m <= (t + 1) * V /\ b <= ((t + 1) - 1) * V
        <3>1. (t + 1) - 1 = t
            BY <1>1
        <3> QED BY <1>1, <1>2, <1>3, <1>6, <2>2, <3>1
    <2>4. t + 1 >= 1
        BY <1>1
    <2> QED BY <1>5, <2>1, <2>3, <2>4 DEF TrialsCover
<1>9. CASE /\ trials'[s] = trials[s] /\ bought'[s] = bought[s] + 1
           /\ p \in OnTrial(s) /\ p \notin OnTrial(s)' /\ subs'[s].status # "TRIAL"
    <2>1. trials'[s] = t /\ bought'[s] = b + 1
        BY <1>9 DEF t, b
    <2>2. b + 1 + m <= t * V
        BY <1>1, <1>2, <1>3, <1>6, <1>9
    <2> QED BY <1>1, <1>5, <1>9, <2>1, <2>2 DEF TrialsCover
<1> QED BY <1>7, <1>8, <1>9

(* A request reads the subscription.                                         *)
LEMMA SubscriptionTaken ==
    ASSUME SubscriptionsInv, NEW p \in Procs, NEW s \in Subscribers,
           \/ \E status \in AskedStatuses : StatusRead(p, s, status)
           \/ \E o \in Offers, dated \in BOOLEAN : OfferRead(p, s, o, dated)
           \/ \E action \in {"convert", "lost"} : TrialRead(p, s, action)
    PROVE  SubscriptionsInv'
<1>1. /\ HandlersTypeOK(SubscriptionStages, SubscriptionJobs) /\ Lone /\ SubscriptionTablesOK
      /\ "idle" \notin SubscriptionStages
      /\ subs[s] \in SubscriptionRows /\ subs[s].offer \in Offers
      /\ AskedStatuses \subseteq SubscriptionStatuses
    BY SubscriptionAssumptions
       DEF SubscriptionsInv, SubscriptionsTypeOK, SubscriptionTablesOK, SubscriptionStages, SubscriptionRows,
           SubscriptionAssumptions
<1>2. Ask /\ UNCHANGED <<subs, open, latest, trials, bought, misdated, returned, lost>>
    BY DEF StatusRead, OfferRead, TrialRead
<1>3. PICK j \in SubscriptionJobs, stage \in SubscriptionStages :
          /\ Begin(p, j, stage) /\ j.school = s
          /\ stage = "sub_status" => j \in StatusJobs /\ j.old = subs[s]
          /\ stage = "sub_offer" => j \in OfferJobs /\ j.old = subs[s].offer
          /\ stage = "sub_trial" => j \in TrialJobs /\ j.old = subs[s].offer /\ subs[s].status = "TRIAL"
    <2>1. ASSUME NEW status \in AskedStatuses, StatusRead(p, s, status)
          PROVE  LET j == [op |-> "status", school |-> s, status |-> status, old |-> subs[s]] IN
                 j \in StatusJobs /\ j \in SubscriptionJobs /\ Begin(p, j, "sub_status")
                 /\ j.school = s /\ j.old = subs[s]
        BY <1>1, <2>1 DEF StatusRead, StatusJobs, SubscriptionJobs
    <2>2. ASSUME NEW o \in Offers, NEW dated \in BOOLEAN, OfferRead(p, s, o, dated)
          PROVE  LET j == [op |-> "offer", school |-> s, offer |-> o, dated |-> dated, old |-> subs[s].offer] IN
                 j \in OfferJobs /\ j \in SubscriptionJobs /\ Begin(p, j, "sub_offer")
                 /\ j.school = s /\ j.old = subs[s].offer
        BY <1>1, <2>2 DEF OfferRead, OfferJobs, SubscriptionJobs
    <2>3. ASSUME NEW action \in {"convert", "lost"}, TrialRead(p, s, action)
          PROVE  LET j == [op |-> "trial", school |-> s, action |-> action, old |-> subs[s].offer] IN
                 j \in TrialJobs /\ j \in SubscriptionJobs /\ Begin(p, j, "sub_trial")
                 /\ j.school = s /\ j.old = subs[s].offer /\ subs[s].status = "TRIAL"
        BY <1>1, <2>3 DEF TrialRead, TrialJobs, SubscriptionJobs
    <2>4. {"sub_status", "sub_offer", "sub_trial"} = SubscriptionStages
        BY DEF SubscriptionStages
    <2> QED BY <2>1, <2>2, <2>3, <2>4
<1>4. /\ HandlersTypeOK(SubscriptionStages, SubscriptionJobs)' /\ Lone' /\ pc'[p] = stage
      /\ OthersStay(p) /\ (overlapped => overlapped') /\ job'[p] = j /\ pc[p] = "idle"
    BY <1>1, <1>3, BeginStep
<1>5. SubscriptionRead(p)'
    BY <1>2, <1>3, <1>4 DEF SubscriptionRead
<1>6. \A q \in Procs : SubscriptionRead(q)'
    BY <1>2, <1>4, <1>5, OthersRead
<1>7. SubscriptionTablesOK'
    <2>1. asked' \in 0..MaxAsked
        BY <1>1, <1>2, SubscriptionAssumptions DEF SubscriptionTablesOK, Ask, SubscriptionAssumptions
    <2> QED BY <1>1, <1>2, <2>1 DEF SubscriptionTablesOK
<1>8. ~overlapped' => \A r \in Subscribers : Recorded(r)'
    BY <1>2, <1>4 DEF SubscriptionsInv, Recorded, HasChurned
<1>9. ASSUME NEW r \in Subscribers PROVE TrialsCover(r)'
    <2>1. p \in OnTrial(r)' => subs[r].status = "TRIAL"
        BY <1>3, <1>4 DEF OnTrial
    <2> QED BY <1>2, <1>4, <1>7, <2>1, TrialsStep DEF SubscriptionsTypeOK
<1> QED BY <1>4, <1>6, <1>7, <1>8, <1>9 DEF SubscriptionsInv, SubscriptionsTypeOK

(* A status is set.                                                          *)
LEMMA StatusWritten ==
    ASSUME SubscriptionsInv, NEW p \in Procs, StatusWrite(p)
    PROVE  SubscriptionsInv'
<1>1. /\ HandlersTypeOK(SubscriptionStages, SubscriptionJobs) /\ Lone /\ SubscriptionTablesOK
      /\ pc[p] = "sub_status" /\ SubscriptionRead(p) /\ Finish(p) /\ UNCHANGED <<asked, bought, misdated>>
    BY DEF SubscriptionsInv, SubscriptionsTypeOK, StatusWrite
<1>2. PICK s \in Subscribers, new \in SubscriptionStatuses, row \in SubscriptionRows :
          job[p].school = s /\ job[p].status = new /\ job[p].old = row
    BY <1>1 DEF SubscriptionRead, StatusJobs
<1> DEFINE value == [kind |-> IF new = "CHURNED" THEN "CHURN" ELSE "REACTIVATION",
                     monthly |-> IF new = "CHURNED" THEN 0 ELSE monthlyAmount(row.offer)]
           revises == RevisesStatus(row.status, new)
<1>3. /\ HandlersTypeOK(SubscriptionStages, SubscriptionJobs)' /\ Lone' /\ pc'[p] = "idle"
      /\ OthersStay(p) /\ overlapped' = overlapped
    BY <1>1, FinishStep
<1>4. /\ subs' = [subs EXCEPT ![s].status = new, ![s].cancelled = (new = "CHURNED")]
      /\ open' = IF new \in Ending THEN open \ {s} ELSE open \cup {s}
      /\ latest' = IF revises THEN [latest EXCEPT ![s] = value] ELSE latest
      /\ trials' = IF new = "TRIAL" THEN [trials EXCEPT ![s] = @ + 1] ELSE trials
      /\ returned' = IF row.status = "CHURNED" /\ new \notin {"CHURNED", "ACTIVE"} THEN returned \cup {s}
                     ELSE IF revises THEN returned \ {s} ELSE returned
      /\ lost' = lost \ {s}
    BY <1>2 DEF StatusWrite, Revise
<1>5. row.offer \in Offers /\ row.status \in SubscriptionStatuses /\ value \in [kind : RevisionKinds, monthly : Nat]
    <2>1. row.offer \in Offers /\ row.status \in SubscriptionStatuses
        BY DEF SubscriptionRows
    <2>2. monthlyAmount(row.offer) \in Nat
        BY <2>1, MonthlyType
    <2> QED BY <2>1, <2>2 DEF RevisionKinds
<1>6. /\ subs'[s] = [subs[s] EXCEPT !.status = new, !.cancelled = (new = "CHURNED")]
      /\ subs[s] \in SubscriptionRows
      /\ \A r \in Subscribers : r # s => subs'[r] = subs[r]
    BY <1>1, <1>4 DEF SubscriptionTablesOK
<1>7. /\ subs'[s].status = new /\ (subs'[s].cancelled <=> new = "CHURNED") /\ subs'[s].offer = subs[s].offer
      /\ subs'[s] \in SubscriptionRows
    BY <1>6 DEF SubscriptionRows
<1> HIDE DEF value, revises
<1>8. SubscriptionTablesOK'
    <2>1. subs' \in [Subscribers -> SubscriptionRows]
        BY <1>1, <1>4, <1>6, <1>7 DEF SubscriptionTablesOK
    <2>2. latest' \in [Subscribers -> [kind : RevisionKinds, monthly : Nat] \cup {NoRevision}]
        BY <1>1, <1>4, <1>5 DEF SubscriptionTablesOK
    <2>3. trials' \in [Subscribers -> Nat] /\ bought' \in [Subscribers -> Nat] /\ asked' \in 0..MaxAsked
        BY <1>1, <1>4 DEF SubscriptionTablesOK
    <2>4. open' \subseteq Subscribers /\ misdated' \subseteq Subscribers
          /\ returned' \subseteq Subscribers /\ lost' \subseteq Subscribers
        BY <1>1, <1>4 DEF SubscriptionTablesOK
    <2> QED BY <2>1, <2>2, <2>3, <2>4 DEF SubscriptionTablesOK
<1>9. \A q \in Procs : SubscriptionRead(q)'
    <2>1. SubscriptionRead(p)'
        BY <1>3 DEF SubscriptionRead
    <2> QED BY <1>1, <1>3, <2>1, OthersRead
<1>10. ASSUME ~overlapped', NEW r \in Subscribers PROVE Recorded(r)'
    <2>1. Recorded(r) /\ row = subs[s]
        BY <1>1, <1>2, <1>3, <1>10 DEF SubscriptionsInv, SubscriptionRead
    <2>2. CASE r # s
        <3>1. latest'[r] = latest[r]
            BY <1>1, <1>4, <2>2 DEF SubscriptionTablesOK
        <3>2. /\ r \in open' <=> r \in open
              /\ r \in lost' <=> r \in lost
              /\ r \in misdated' <=> r \in misdated
              /\ r \in returned' <=> r \in returned
            BY <1>1, <1>4, <2>2
        <3> QED BY <1>6, <2>1, <2>2, <3>1, <3>2 DEF Recorded, HasChurned
    <2>3. CASE r = s
        <3>1. subs'[s].cancelled <=> subs'[s].status = "CHURNED"
            BY <1>7
        <3>2. (s \in open') <=> (subs'[s].status \notin Ending \/ s \in lost')
            BY <1>4, <1>7
        <3>3. ASSUME s \notin misdated'
              PROVE  /\ HasChurned(s)' => subs'[s].status = "CHURNED" \/ s \in returned'
                     /\ latest'[s] # NoRevision /\ ~HasChurned(s)' => latest'[s].monthly = monthlyAmount(subs'[s].offer)
            <4>1. CASE revises
                <5>1. latest'[s] = value
                    BY <1>1, <1>4, <4>1 DEF SubscriptionTablesOK
                <5>2. new = "CHURNED" => value.kind = "CHURN"
                    BY DEF value
                <5>3. new # "CHURNED" => value.kind # "CHURN" /\ value.monthly = monthlyAmount(row.offer)
                    BY DEF value
                <5> QED BY <1>7, <2>1, <5>1, <5>2, <5>3 DEF HasChurned
            <4>2. CASE ~revises
                <5>1. latest' = latest /\ new # "CHURNED"
                      /\ (row.status = "CHURNED" => s \in returned') /\ (s \in returned => s \in returned')
                    BY <1>4, <4>2 DEF revises, RevisesStatus
                <5> QED BY <1>1, <1>7, <2>1, <2>3, <3>3, <5>1 DEF Recorded, HasChurned
            <4> QED BY <4>1, <4>2
        <3> QED BY <2>3, <3>1, <3>2, <3>3 DEF Recorded
    <2> QED BY <2>2, <2>3
<1>11. ASSUME NEW r \in Subscribers PROVE TrialsCover(r)'
    <2>1. p \notin OnTrial(r)'
        BY <1>3 DEF OnTrial
    <2>2. CASE r = s /\ new = "TRIAL"
        <3>1. trials'[r] = trials[r] + 1
            BY <1>1, <1>4, <2>2 DEF SubscriptionTablesOK
        <3> QED BY <1>1, <1>3, <1>8, <2>1, <3>1, TrialsStep DEF SubscriptionsTypeOK
    <2>3. CASE ~(r = s /\ new = "TRIAL")
        <3>1. trials'[r] = trials[r] /\ bought'[r] = bought[r]
            BY <1>1, <1>4, <2>3 DEF SubscriptionTablesOK
        <3>2. subs'[r].status = "TRIAL" => subs[r].status = "TRIAL"
            BY <1>6, <1>7, <2>3
        <3> QED BY <1>1, <1>3, <1>8, <2>1, <3>1, <3>2, TrialsStep DEF SubscriptionsTypeOK
    <2> QED BY <2>2, <2>3
<1> QED BY <1>3, <1>8, <1>9, <1>10, <1>11 DEF SubscriptionsInv, SubscriptionsTypeOK

(* Plan, price or cycle are changed.                                         *)
LEMMA OfferWritten ==
    ASSUME SubscriptionsInv, NEW p \in Procs, OfferWrite(p)
    PROVE  SubscriptionsInv'
<1>1. /\ HandlersTypeOK(SubscriptionStages, SubscriptionJobs) /\ Lone /\ SubscriptionTablesOK
      /\ pc[p] = "sub_offer" /\ SubscriptionRead(p) /\ Finish(p)
      /\ UNCHANGED <<open, asked, trials, bought, lost>>
    BY DEF SubscriptionsInv, SubscriptionsTypeOK, OfferWrite
<1>2. PICK s \in Subscribers, new \in Offers, old \in Offers, dated \in BOOLEAN :
          job[p].school = s /\ job[p].offer = new /\ job[p].old = old /\ job[p].dated = dated
    BY <1>1 DEF SubscriptionRead, OfferJobs
<1> DEFINE value == [kind |-> ChangeKind(old, new), monthly |-> monthlyAmount(new)]
<1>3. /\ HandlersTypeOK(SubscriptionStages, SubscriptionJobs)' /\ Lone' /\ pc'[p] = "idle"
      /\ OthersStay(p) /\ overlapped' = overlapped
    BY <1>1, FinishStep
<1>4. /\ subs' = [subs EXCEPT ![s].offer = new]
      /\ \/ new = old /\ UNCHANGED <<latest, misdated, returned>>
         \/ new # old /\ latest' = [latest EXCEPT ![s] = value] /\ returned' = returned \ {s}
            /\ misdated' \in {misdated, misdated \cup {s}}
         \/ new # old /\ UNCHANGED <<latest, returned>> /\ misdated' = misdated \cup {s}
    BY <1>2 DEF OfferWrite, Revise
<1>5. value \in [kind : RevisionKinds \ {"CHURN"}, monthly : Nat] /\ value.kind # "CHURN"
      /\ value.monthly = monthlyAmount(new)
    <2>1. monthlyAmount(new) \in Nat
        BY MonthlyType
    <2>2. ChangeKind(old, new) \in {"UPGRADE", "DOWNGRADE", "CYCLE_CHANGE", "PRICE_CHANGE"}
        BY DEF ChangeKind
    <2>3. {"UPGRADE", "DOWNGRADE", "CYCLE_CHANGE", "PRICE_CHANGE"} \subseteq RevisionKinds \ {"CHURN"}
        BY DEF RevisionKinds
    <2> HIDE DEF RevisionKinds
    <2> QED BY <2>1, <2>2, <2>3
<1>6. /\ subs'[s] = [subs[s] EXCEPT !.offer = new] /\ subs[s] \in SubscriptionRows
      /\ \A r \in Subscribers : r # s => subs'[r] = subs[r]
    BY <1>1, <1>4 DEF SubscriptionTablesOK
<1>7. /\ subs'[s].status = subs[s].status /\ subs'[s].cancelled = subs[s].cancelled /\ subs'[s].offer = new
      /\ subs'[s] \in SubscriptionRows
    BY <1>6 DEF SubscriptionRows
<1> HIDE DEF value
<1>8. SubscriptionTablesOK'
    <2>1. subs' \in [Subscribers -> SubscriptionRows]
        BY <1>1, <1>4, <1>6, <1>7 DEF SubscriptionTablesOK
    <2>2. latest' \in [Subscribers -> [kind : RevisionKinds, monthly : Nat] \cup {NoRevision}]
        <3>1. value \in [kind : RevisionKinds, monthly : Nat]
            BY <1>5
        <3> QED BY <1>1, <1>4, <3>1 DEF SubscriptionTablesOK
    <2>3. misdated' \subseteq Subscribers /\ returned' \subseteq Subscribers
        BY <1>1, <1>4 DEF SubscriptionTablesOK
    <2> QED BY <1>1, <2>1, <2>2, <2>3 DEF SubscriptionTablesOK
<1>9. \A q \in Procs : SubscriptionRead(q)'
    <2>1. SubscriptionRead(p)'
        BY <1>3 DEF SubscriptionRead
    <2> QED BY <1>1, <1>3, <2>1, OthersRead
<1>10. ASSUME ~overlapped', NEW r \in Subscribers PROVE Recorded(r)'
    <2>1. Recorded(r) /\ old = subs[s].offer
        BY <1>1, <1>2, <1>3, <1>10 DEF SubscriptionsInv, SubscriptionRead
    <2>2. CASE r # s
        <3>1. latest'[r] = latest[r]
            BY <1>1, <1>4, <2>2 DEF SubscriptionTablesOK
        <3>2. /\ r \in misdated' <=> r \in misdated
              /\ r \in returned' <=> r \in returned
            BY <1>4, <2>2
        <3> QED BY <1>1, <1>6, <2>1, <2>2, <3>1, <3>2 DEF Recorded, HasChurned
    <2>3. CASE r = s
        <3>1. /\ subs'[s].cancelled <=> subs'[s].status = "CHURNED"
              /\ (s \in open') <=> (subs'[s].status \notin Ending \/ s \in lost')
            BY <1>1, <1>7, <2>1, <2>3 DEF Recorded
        <3>2. ASSUME s \notin misdated'
              PROVE  /\ HasChurned(s)' => subs'[s].status = "CHURNED" \/ s \in returned'
                     /\ latest'[s] # NoRevision /\ ~HasChurned(s)' => latest'[s].monthly = monthlyAmount(subs'[s].offer)
            <4>1. CASE latest' = [latest EXCEPT ![s] = value]
                <5>1. latest'[s] = value
                    BY <1>1, <4>1 DEF SubscriptionTablesOK
                <5> QED BY <1>5, <1>7, <5>1 DEF HasChurned
            <4>2. CASE new = old /\ UNCHANGED <<latest, misdated, returned>>
                BY <1>7, <2>1, <2>3, <3>2, <4>2 DEF Recorded, HasChurned
            <4> QED BY <1>4, <3>2, <4>1, <4>2
        <3> QED BY <2>3, <3>1, <3>2 DEF Recorded
    <2> QED BY <2>2, <2>3
<1>11. ASSUME NEW r \in Subscribers PROVE TrialsCover(r)'
    <2>1. p \notin OnTrial(r)'
        BY <1>3 DEF OnTrial
    <2>2. subs'[r].status = "TRIAL" => subs[r].status = "TRIAL"
        BY <1>6, <1>7
    <2> QED BY <1>1, <1>3, <1>8, <2>1, <2>2, TrialsStep DEF SubscriptionsTypeOK
<1> QED BY <1>3, <1>8, <1>9, <1>10, <1>11 DEF SubscriptionsInv, SubscriptionsTypeOK

(* A trial is converted, or given up.                                        *)
LEMMA TrialEnded ==
    ASSUME SubscriptionsInv, NEW p \in Procs, Convert(p) \/ GiveUp(p)
    PROVE  SubscriptionsInv'
<1>1. /\ HandlersTypeOK(SubscriptionStages, SubscriptionJobs) /\ Lone /\ SubscriptionTablesOK
      /\ pc[p] = "sub_trial" /\ SubscriptionRead(p) /\ Finish(p)
      /\ UNCHANGED <<open, asked, trials, misdated>>
    BY DEF SubscriptionsInv, SubscriptionsTypeOK, Convert, GiveUp
<1>2. PICK s \in Subscribers, old \in Offers : job[p].school = s /\ job[p].old = old
    BY <1>1 DEF SubscriptionRead, TrialJobs
<1> DEFINE value == [kind |-> "UPGRADE", monthly |-> monthlyAmount(old)]
<1>3. /\ HandlersTypeOK(SubscriptionStages, SubscriptionJobs)' /\ Lone' /\ pc'[p] = "idle"
      /\ OthersStay(p) /\ overlapped' = overlapped
    BY <1>1, FinishStep
<1>4. \/ /\ subs' = [subs EXCEPT ![s].status = "ACTIVE"]
         /\ latest' = [latest EXCEPT ![s] = value]
         /\ bought' = [bought EXCEPT ![s] = @ + 1]
         /\ returned' = returned \ {s} /\ lost' = lost
      \/ /\ subs' = [subs EXCEPT ![s].status = "CHURNED", ![s].cancelled = TRUE]
         /\ lost' = lost \cup {s}
         /\ UNCHANGED <<latest, bought, returned>>
    BY <1>2 DEF Convert, GiveUp, Revise
<1>5. value \in [kind : RevisionKinds, monthly : Nat] /\ value.kind # "CHURN" /\ value.monthly = monthlyAmount(old)
    <2>1. monthlyAmount(old) \in Nat
        BY MonthlyType
    <2> QED BY <2>1 DEF RevisionKinds
<1>6. /\ subs[s] \in SubscriptionRows /\ \A r \in Subscribers : r # s => subs'[r] = subs[r]
      /\ \/ subs'[s] = [subs[s] EXCEPT !.status = "ACTIVE"]
         \/ subs'[s] = [subs[s] EXCEPT !.status = "CHURNED", !.cancelled = TRUE]
    BY <1>1, <1>4 DEF SubscriptionTablesOK
<1>7. /\ subs'[s] \in SubscriptionRows /\ subs'[s].status \in {"ACTIVE", "CHURNED"}
      /\ subs'[s].offer = subs[s].offer
    BY <1>6 DEF SubscriptionRows, SubscriptionStatuses
<1> HIDE DEF value
<1>8. SubscriptionTablesOK'
    <2>1. subs' \in [Subscribers -> SubscriptionRows]
        BY <1>1, <1>4, <1>6, <1>7 DEF SubscriptionTablesOK
    <2>2. latest' \in [Subscribers -> [kind : RevisionKinds, monthly : Nat] \cup {NoRevision}]
        BY <1>1, <1>4, <1>5 DEF SubscriptionTablesOK
    <2>3. bought' \in [Subscribers -> Nat] /\ trials' \in [Subscribers -> Nat] /\ asked' \in 0..MaxAsked
        BY <1>1, <1>4 DEF SubscriptionTablesOK
    <2>4. open' \subseteq Subscribers /\ misdated' \subseteq Subscribers
          /\ returned' \subseteq Subscribers /\ lost' \subseteq Subscribers
        BY <1>1, <1>4 DEF SubscriptionTablesOK
    <2> QED BY <2>1, <2>2, <2>3, <2>4 DEF SubscriptionTablesOK
<1>9. \A q \in Procs : SubscriptionRead(q)'
    <2>1. SubscriptionRead(p)'
        BY <1>3 DEF SubscriptionRead
    <2> QED BY <1>1, <1>3, <2>1, OthersRead
<1>10. ASSUME ~overlapped', NEW r \in Subscribers PROVE Recorded(r)'
    <2>1. Recorded(r) /\ old = subs[s].offer /\ subs[s].status = "TRIAL"
        BY <1>1, <1>2, <1>3, <1>10 DEF SubscriptionsInv, SubscriptionRead
    <2>2. CASE r # s
        <3>1. latest'[r] = latest[r]
            BY <1>1, <1>4, <2>2 DEF SubscriptionTablesOK
        <3>2. /\ r \in lost' <=> r \in lost
              /\ r \in returned' <=> r \in returned
            BY <1>4, <2>2
        <3> QED BY <1>1, <1>6, <2>1, <2>2, <3>1, <3>2 DEF Recorded, HasChurned
    <2>3. CASE r = s
        <3>1. s \in open /\ ~subs[s].cancelled
            BY <2>1, <2>3 DEF Recorded, Ending
        <3>2. CASE latest' = [latest EXCEPT ![s] = value] /\ subs'[s] = [subs[s] EXCEPT !.status = "ACTIVE"]
            <4>1. latest'[s] = value
                BY <1>1, <3>2 DEF SubscriptionTablesOK
            <4>2. subs'[s].status = "ACTIVE" /\ ~subs'[s].cancelled
                BY <1>6, <3>1, <3>2 DEF SubscriptionRows
            <4> QED BY <1>1, <1>5, <1>7, <2>1, <2>3, <3>1, <4>1, <4>2 DEF Recorded, HasChurned, Ending
        <3>3. CASE latest' = latest /\ lost' = lost \cup {s}
                   /\ subs'[s] = [subs[s] EXCEPT !.status = "CHURNED", !.cancelled = TRUE]
                   /\ UNCHANGED returned
            <4>1. subs'[s].status = "CHURNED" /\ subs'[s].cancelled
                BY <1>6, <3>3 DEF SubscriptionRows
            <4> QED BY <1>1, <1>7, <2>1, <2>3, <3>1, <3>3, <4>1 DEF Recorded, HasChurned, Ending
        <3>4. \/ latest' = [latest EXCEPT ![s] = value] /\ subs'[s] = [subs[s] EXCEPT !.status = "ACTIVE"]
              \/ /\ latest' = latest /\ lost' = lost \cup {s} /\ UNCHANGED returned
                 /\ subs'[s] = [subs[s] EXCEPT !.status = "CHURNED", !.cancelled = TRUE]
            BY <1>1, <1>4 DEF SubscriptionTablesOK
        <3> QED BY <3>2, <3>3, <3>4
    <2> QED BY <2>2, <2>3
<1>11. ASSUME NEW r \in Subscribers PROVE TrialsCover(r)'
    <2>1. p \notin OnTrial(r)' /\ (r = s => p \in OnTrial(r)) /\ trials'[r] = trials[r]
        BY <1>1, <1>2, <1>3 DEF OnTrial
    <2>2. subs'[r].status = "TRIAL" => subs[r].status = "TRIAL" /\ r # s
        BY <1>6, <1>7
    <2>3. bought'[r] = bought[r] \/ (r = s /\ bought'[r] = bought[r] + 1)
        BY <1>1, <1>4 DEF SubscriptionTablesOK
    <2> QED BY <1>1, <1>3, <1>8, <2>1, <2>2, <2>3, TrialsStep DEF SubscriptionsTypeOK
<1> QED BY <1>3, <1>8, <1>9, <1>10, <1>11 DEF SubscriptionsInv, SubscriptionsTypeOK

(* Every step keeps the invariant.                                           *)
LEMMA SubscriptionsStep ==
    SubscriptionsInv /\ [SubscriptionsNext]_<<handlerVars, subscriptionVars>> => SubscriptionsInv'
<1> SUFFICES ASSUME SubscriptionsInv, [SubscriptionsNext]_<<handlerVars, subscriptionVars>>
             PROVE  SubscriptionsInv'
    OBVIOUS
<1>0. /\ HandlersTypeOK(SubscriptionStages, SubscriptionJobs) /\ Lone /\ SubscriptionTablesOK
    BY DEF SubscriptionsInv, SubscriptionsTypeOK
<1>1. ASSUME NEW p \in Procs, Dies(p), UNCHANGED subscriptionVars
      PROVE  SubscriptionsInv'
    <2>1. /\ HandlersTypeOK(SubscriptionStages, SubscriptionJobs)' /\ Lone' /\ pc'[p] = "idle"
          /\ OthersStay(p) /\ overlapped' = overlapped
        BY <1>0, <1>1, FinishStep DEF Dies
    <2>2. UNCHANGED <<subs, open, latest, asked, trials, bought, misdated, returned, lost>>
        BY <1>1 DEF subscriptionVars
    <2>3. SubscriptionTablesOK' /\ (~overlapped' => \A s \in Subscribers : Recorded(s)')
        BY <1>0, <2>1, <2>2 DEF SubscriptionTablesOK, SubscriptionsInv, Recorded, HasChurned
    <2>4. SubscriptionRead(p)'
        BY <2>1 DEF SubscriptionRead
    <2>5. \A q \in Procs : SubscriptionRead(q)'
        BY <2>1, <2>2, <2>4, OthersRead
    <2>6. ASSUME NEW r \in Subscribers PROVE TrialsCover(r)'
        <3>1. p \notin OnTrial(r)'
            BY <2>1 DEF OnTrial
        <3> QED BY <2>1, <2>2, <2>3, <3>1, TrialsStep DEF SubscriptionsTypeOK
    <2> QED BY <2>1, <2>3, <2>5, <2>6 DEF SubscriptionsInv, SubscriptionsTypeOK
<1>2. CASE UNCHANGED <<handlerVars, subscriptionVars>>
    <2>1. UNCHANGED handlerVars
        BY <1>2
    <2>2. /\ HandlersTypeOK(SubscriptionStages, SubscriptionJobs)' /\ Lone'
          /\ pc' = pc /\ job' = job /\ overlapped' = overlapped
        BY <1>0, <2>1, HandlersStutter
    <2>3. UNCHANGED <<subs, open, latest, asked, trials, bought, misdated, returned, lost>>
        BY <1>2 DEF subscriptionVars
    <2>4. SubscriptionTablesOK' /\ \A q \in Procs : SubscriptionRead(q)'
        BY <1>0, <2>2, <2>3 DEF SubscriptionTablesOK, SubscriptionsInv, SubscriptionRead
    <2>5. (~overlapped' => \A s \in Subscribers : Recorded(s)') /\ \A s \in Subscribers : TrialsCover(s)'
        BY <2>2, <2>3 DEF SubscriptionsInv, Recorded, HasChurned, TrialsCover, OnTrial, Width
    <2> QED BY <2>2, <2>4, <2>5 DEF SubscriptionsInv, SubscriptionsTypeOK
<1> QED BY <1>1, <1>2, SubscriptionTaken, StatusWritten, OfferWritten, TrialEnded DEF SubscriptionsNext

(* The rows of subscriptions, their last revisions and the trials keep their  *)
(* types: every revision is of a known kind and a monthly amount.             *)
THEOREM SubscriptionTypes == SubscriptionsSpec => []SubscriptionsTypeOK
<1>1. SubscriptionsInv => SubscriptionsTypeOK
    BY DEF SubscriptionsInv
<1> QED BY <1>1, SubscriptionsInitial, SubscriptionsStep, PTL DEF SubscriptionsSpec

(* The two figures for revenue agree with requests in turn, but for a school *)
(* that came back by another way than ACTIVE; a trial is converted once, or  *)
(* once for each request that found it a trial; with requests in turn a      *)
(* school's people can sign in unless it has ended, or its trial was lost.   *)
THEOREM RevenueFiguresAgree == SubscriptionsSpec => []SubscriptionsAgree
<1>1. SubscriptionsInv => SubscriptionsAgree
    <2> SUFFICES ASSUME SubscriptionsInv PROVE SubscriptionsAgree
        OBVIOUS
    <2>1. ASSUME ~overlapped, NEW s \in Subscribers \ misdated
          PROVE  RevenueByHistory(s) = IF s \in returned /\ HasChurned(s) THEN 0 ELSE RevenueNow(s)
        <3>1. Recorded(s) /\ subs[s].cancelled \in BOOLEAN
            BY <2>1 DEF SubscriptionsInv, SubscriptionsTypeOK, SubscriptionTablesOK, SubscriptionRows
        <3>2. CASE HasChurned(s)
            BY <2>1, <3>1, <3>2 DEF Recorded, RevenueByHistory, RevenueNow, RevenueStatuses
        <3>3. CASE ~HasChurned(s)
            BY <2>1, <3>1, <3>3 DEF Recorded, RevenueByHistory, RevenueNow, RevenueStatuses
        <3> QED BY <3>2, <3>3
    <2>2. ASSUME NEW s \in Subscribers
          PROVE  bought[s] <= trials[s] * (IF overlapped THEN Cardinality(Procs) ELSE 1)
        <3>1. bought[s] \in Nat /\ trials[s] \in Nat /\ Cardinality(OnTrial(s)) \in Nat
              /\ bought[s] + Cardinality(OnTrial(s)) <= trials[s] * Width
            <4>1. OnTrial(s) \in SUBSET Procs /\ IsFiniteSet(Procs)
                BY HandlersAssumptions DEF OnTrial, HandlersAssumptions
            <4> QED BY <4>1, FS_Subset, FS_CardinalityType
                   DEF SubscriptionsInv, SubscriptionsTypeOK, SubscriptionTablesOK, TrialsCover
        <3>2. Width \in Nat
            BY HandlersAssumptions, FS_CardinalityType DEF HandlersAssumptions, Width
        <3>3. trials[s] * Width \in Nat
            BY <3>1, <3>2
        <3> QED BY <3>1, <3>3 DEF Width
    <2>3. ASSUME ~overlapped, NEW s \in Subscribers
          PROVE  (s \in open) <=> (subs[s].status \notin Ending \/ s \in lost)
        BY <2>3 DEF SubscriptionsInv, Recorded
    <2> QED BY <2>1, <2>2, <2>3 DEF SubscriptionsAgree, RevenueAgrees
<1> QED BY <1>1, SubscriptionsInitial, SubscriptionsStep, PTL DEF SubscriptionsSpec

----------------------------------------------------------------------------
(* Registration and promo codes *)

RegisterJobs ==
    [op : {"register"}, applicant : Applicants, promo : Promos \cup {NoPromo},
     slug : Slugs, off : 0..Price]

(* Who is to redeem a code has a school that pays so much less.               *)
RegistrationJob(p) ==
    /\ pc[p] = "promo_create" => job[p] \in [op : {"make"}, promo : Promos]
    /\ pc[p] = "promo_remove" => job[p] \in [op : {"remove"}, promo : Promos, redeemed : BOOLEAN]
    /\ pc[p] \in {"reg_slug", "reg_promo", "reg_create", "reg_redeem"} => job[p] \in RegisterJobs
    /\ pc[p] \in {"reg_create", "reg_redeem"} /\ job[p].promo \in Promos =>
         promos[job[p].promo].state # "absent"
    /\ pc[p] = "reg_redeem" =>
         /\ job[p].promo \in Promos
         /\ schools[job[p].applicant].open
         /\ schools[job[p].applicant].promo = job[p].promo
         /\ schools[job[p].applicant].amount + job[p].off = Price
         /\ \A r \in redemptions : r.applicant # job[p].applicant

OneRedeemer ==
    \A p, q \in Procs : pc[p] = "reg_redeem" /\ pc[q] = "reg_redeem"
                        /\ job[p].applicant = job[q].applicant => p = q

(* Those who found the code valid and have not counted their use of it.       *)
Validated(c) == {p \in Procs : pc[p] \in {"reg_create", "reg_redeem"} /\ job[p].promo = c}

(* UsesBounded is not inductive: uses and those to come exceed the limit by   *)
(* no more than the requests there were at a time.                            *)
UsesOf(c) ==
    Exists(c) => /\ promos[c].used = Cardinality(RedemptionsOf(c))
                 /\ promos[c].used + Cardinality(Validated(c)) <= MaxUsesOf[c] - 1 + Width

UsesCounted == IsFiniteSet(redemptions) /\ \A c \in Promos : UsesOf(c)

SlugsUnique ==
    \A a, b \in Applicants :
        schools[a].open /\ schools[b].open /\ schools[a].slug = schools[b].slug => a = b

RowsTrue ==
    \A r \in redemptions :
        /\ Exists(r.promo)
        /\ schools[r.applicant].open
        /\ schools[r.applicant].promo = r.promo
        /\ schools[r.applicant].amount + r.off = Price

(* With requests in turn a code found valid stays there, and one found unused *)
(* stays unused; a reduced price has its redemption or is about to have it.   *)
StillValid(p) ==
    /\ pc[p] \in {"reg_create", "reg_redeem"} /\ job[p].promo \in Promos => Exists(job[p].promo)
    /\ pc[p] = "promo_remove" /\ ~job[p].redeemed => RedemptionsOf(job[p].promo) = {}

Redeemed(a) == \E r \in redemptions : r.applicant = a /\ r.promo = schools[a].promo

ReductionsKnown ==
    \A a \in Applicants : schools[a].promo # NoPromo =>
        Redeemed(a) \/ \E p \in Procs : pc[p] = "reg_redeem" /\ job[p].applicant = a

RegistrationInTurn ==
    ~overlapped => (\A p \in Procs : StillValid(p)) /\ (faults = 0 => ReductionsKnown)

RegistrationInv ==
    /\ RegistrationTypeOK /\ Lone /\ (\A p \in Procs : RegistrationJob(p)) /\ OneRedeemer
    /\ UsesCounted /\ SlugsUnique /\ RowsTrue /\ RegistrationInTurn

LEMMA RegistrationFacts ==
    ASSUME RegistrationInv
    PROVE  /\ HandlersTypeOK(RegistrationStages, RegistrationJobs) /\ Lone /\ RegistrationTablesOK
           /\ overlapped \in BOOLEAN /\ "idle" \notin RegistrationStages
           /\ faults \in Nat /\ Price \in Nat /\ RegisterJobs \subseteq RegistrationJobs
           /\ \A c \in Promos : MaxUsesOf[c] \in Nat \ {0} /\ PercentOf[c] \in 0..100 /\ c # NoPromo
<1>1. HandlersTypeOK(RegistrationStages, RegistrationJobs) /\ Lone /\ RegistrationTablesOK
    BY DEF RegistrationInv, RegistrationTypeOK
<1>2. faults \in Nat
    BY <1>1, HandlersAssumptions DEF HandlersAssumptions, HandlersTypeOK
<1> QED BY <1>1, <1>2, RegistrationAssumptions
       DEF HandlersTypeOK, RegistrationStages, RegistrationAssumptions, RegisterJobs, RegistrationJobs

LEMMA RegistrationInitial == HandlersInit /\ RegistrationInit => RegistrationInv
<1> SUFFICES ASSUME HandlersInit, RegistrationInit PROVE RegistrationInv
    OBVIOUS
<1>1. HandlersTypeOK(RegistrationStages, RegistrationJobs) /\ Lone /\ Quiescent
    BY HandlersInitType
<1>2. RegistrationTablesOK
    <2>1. Price \in Nat /\ 0 \in 0..Price
        BY RegistrationAssumptions DEF RegistrationAssumptions
    <2>2. \A a \in Applicants : <<NameOf[a], 0>> \in Slugs
        BY DEF Slugs
    <2> QED BY <2>1, <2>2 DEF RegistrationInit, RegistrationTablesOK
<1>3. (\A p \in Procs : RegistrationJob(p) /\ StillValid(p)) /\ OneRedeemer
    BY <1>1 DEF Quiescent, RegistrationJob, StillValid, OneRedeemer
<1>4. UsesCounted
    <2>1. \A c \in Promos : ~Exists(c)
        BY DEF RegistrationInit, Exists
    <2> QED BY <2>1, FS_EmptySet DEF RegistrationInit, UsesCounted, UsesOf
<1>5. SlugsUnique /\ RowsTrue /\ ReductionsKnown
    BY DEF RegistrationInit, SlugsUnique, RowsTrue, ReductionsKnown
<1> QED BY <1>1, <1>2, <1>3, <1>4, <1>5 DEF RegistrationInv, RegistrationTypeOK, RegistrationInTurn

(* What the others know stays so if nothing but a code is forgotten.          *)
LEMMA OthersRegistered ==
    ASSUME RegistrationInv, NEW p \in Procs, OthersStay(p),
           \A c \in Promos : promos[c].state # "absent" => promos'[c].state # "absent",
           \A a \in Applicants : schools[a].open => schools'[a] = schools[a],
           \A q \in Procs : q # p /\ pc[q] = "reg_redeem" =>
               \A r \in redemptions' : r.applicant # job[q].applicant
    PROVE  \A q \in Procs : q # p => RegistrationJob(q)'
<1> SUFFICES ASSUME NEW q \in Procs, q # p PROVE RegistrationJob(q)'
    OBVIOUS
<1>1. pc'[q] = pc[q] /\ job'[q] = job[q] /\ RegistrationJob(q)
    BY DEF OthersStay, RegistrationInv
<1>2. job[q] \in RegisterJobs => job[q].applicant \in Applicants
    BY DEF RegisterJobs
<1> QED BY <1>1, <1>2 DEF RegistrationJob

(* The uses of a code that stays stay counted when p validates it, or uses    *)
(* it no more.                                                                *)
LEMMA UsesKept ==
    ASSUME RegistrationInv, NEW p \in Procs, OthersStay(p), Lone', overlapped' \in BOOLEAN,
           overlapped => overlapped', NEW c \in Promos, Exists(c),
           promos'[c].used = promos[c].used, RedemptionsOf(c)' = RedemptionsOf(c),
           p \in Validated(c)' => p \in Validated(c) \/ promos[c].used < MaxUsesOf[c]
    PROVE  UsesOf(c)'
<1>1. PICK u \in Nat, v \in Nat, w \in Nat, m \in Nat \ {0} :
          u = promos[c].used /\ v = Width /\ w = Width' /\ v <= w /\ m = MaxUsesOf[c]
    BY RegistrationFacts, WidthType DEF RegistrationTablesOK
<1>2. u = Cardinality(RedemptionsOf(c)) /\ u + Cardinality(Validated(c)) <= m - 1 + v
    BY <1>1 DEF RegistrationInv, UsesCounted, UsesOf
<1>3. PICK S \in SUBSET Procs, T \in SUBSET Procs : S = Validated(c) /\ T = Validated(c)'
    BY DEF Validated
<1>4. \A q \in Procs : q # p => (q \in S <=> q \in T)
    BY <1>3 DEF Validated, OthersStay
<1>5. /\ Cardinality(S) \in Nat /\ Cardinality(T) \in Nat
      /\ p \in S \/ p \notin T => Cardinality(T) <= Cardinality(S)
    BY <1>4, GroupStep
<1>6. u + Cardinality(T) <= m - 1 + w
    <2>1. CASE p \in S \/ p \notin T
        BY <1>1, <1>2, <1>3, <1>5, <2>1
    <2>2. CASE p \notin S /\ p \in T
        <3>1. u < m
            BY <1>1, <1>3, <2>2
        <3>2. ~overlapped' => \A x, y \in T : x = y
            <4>1. \A x \in T : pc'[x] # "idle"
                BY <1>3 DEF Validated
            <4> QED BY <4>1 DEF Lone
        <3>3. Cardinality(T) <= IF overlapped' THEN Cardinality(Procs) ELSE 1
            BY <3>2, GroupBound
        <3>4. Cardinality(T) <= w
            BY <1>1, <3>3 DEF Width
        <3> QED BY <1>1, <1>5, <3>1, <3>4
    <2> QED BY <2>1, <2>2
<1>7. promos'[c].used = u /\ u = Cardinality(RedemptionsOf(c)')
    BY <1>1, <1>2
<1>8. promos'[c].used + Cardinality(Validated(c)') <= MaxUsesOf[c] - 1 + Width'
    BY <1>1, <1>3, <1>6, <1>7
<1> QED BY <1>7, <1>8 DEF UsesOf

(* A step of p after which the others know what they knew.                    *)
LEMMA RegistrationMoves ==
    ASSUME RegistrationInv, HandlersTypeOK(RegistrationStages, RegistrationJobs)', Lone',
           RegistrationTablesOK', overlapped => overlapped', NEW p \in Procs, OthersStay(p),
           pc'[p] # "idle" \/ (pc[p] # "idle" /\ overlapped' = overlapped),
           RegistrationJob(p)', \A q \in Procs : q # p => RegistrationJob(q)',
           pc'[p] = "reg_redeem" =>
               \A q \in Procs : q # p /\ pc[q] = "reg_redeem" => job[q].applicant # job'[p].applicant,
           UsesCounted', SlugsUnique', RowsTrue',
           ~overlapped' => StillValid(p)' /\ (faults' = 0 => ReductionsKnown')
    PROVE  RegistrationInv'
<1>1. OneRedeemer'
    BY DEF RegistrationInv, OneRedeemer, OthersStay
<1>2. RegistrationInTurn'
    <2> SUFFICES ASSUME ~overlapped' PROVE \A q \in Procs : StillValid(q)'
        BY DEF RegistrationInTurn
    <2>1. ASSUME NEW q \in Procs, q # p PROVE StillValid(q)'
        <3>1. pc'[q] = "idle"
            BY <2>1 DEF RegistrationInv, Lone, OthersStay
        <3> QED BY <3>1 DEF StillValid
    <2> QED BY <2>1
<1>3. \A q \in Procs : RegistrationJob(q)'
    OBVIOUS
<1> QED BY <1>1, <1>2, <1>3 DEF RegistrationInv, RegistrationTypeOK

(* A step that leaves the tables alone.                                       *)
LEMMA RegistrationFrame ==
    ASSUME RegistrationInv, HandlersTypeOK(RegistrationStages, RegistrationJobs)', Lone',
           UNCHANGED <<schools, promos, redemptions>>, overlapped => overlapped',
           faults' >= faults, NEW p \in Procs, OthersStay(p),
           pc'[p] # "idle" \/ (pc[p] # "idle" /\ overlapped' = overlapped),
           pc'[p] # "reg_redeem", RegistrationJob(p)',
           \A c \in Promos : Exists(c) /\ p \in Validated(c)' =>
               p \in Validated(c) \/ promos[c].used < MaxUsesOf[c],
           ~overlapped' => StillValid(p)',
           ~overlapped' /\ faults' = 0 => pc[p] # "reg_redeem"
    PROVE  RegistrationInv'
<1>1. /\ RegistrationTablesOK' /\ overlapped' \in BOOLEAN /\ faults' \in Nat /\ faults \in Nat
      /\ \A c : Exists(c)' = Exists(c) /\ RedemptionsOf(c)' = RedemptionsOf(c)
    BY RegistrationFacts, HandlersAssumptions
       DEF RegistrationTablesOK, HandlersTypeOK, HandlersAssumptions, Exists, RedemptionsOf
<1>2. \A q \in Procs : q # p => RegistrationJob(q)'
    <2>1. \A q \in Procs : pc[q] = "reg_redeem" => \A r \in redemptions : r.applicant # job[q].applicant
        BY DEF RegistrationInv, RegistrationJob
    <2> QED BY <2>1, OthersRegistered
<1>3. UsesCounted'
    <2>1. ASSUME NEW c \in Promos PROVE UsesOf(c)'
        <3>1. CASE Exists(c)
            BY <1>1, <3>1, UsesKept
        <3>2. CASE ~Exists(c)
            BY <1>1, <3>2 DEF UsesOf
        <3> QED BY <3>1, <3>2
    <2> QED BY <2>1 DEF UsesCounted, RegistrationInv
<1>4. SlugsUnique' /\ RowsTrue'
    BY <1>1 DEF RegistrationInv, SlugsUnique, RowsTrue
<1>5. ASSUME ~overlapped', faults' = 0 PROVE ReductionsKnown'
    <2>1. ~overlapped /\ faults = 0 /\ pc[p] # "reg_redeem"
        BY <1>1, <1>5
    <2>2. ReductionsKnown
        BY <2>1 DEF RegistrationInv, RegistrationInTurn
    <2> QED BY <2>1, <2>2 DEF ReductionsKnown, Redeemed, OthersStay
<1> QED BY <1>1, <1>2, <1>3, <1>4, <1>5, RegistrationMoves

(* The discount is a part of the price.                                       *)
LEMMA DiscountType ==
    ASSUME NEW amount \in Nat, NEW percent \in 0..100
    PROVE  applyDiscount(amount, percent) \in 0..amount
<1>1. percent \in Nat
    OBVIOUS
<1>2. 2 * amount \in Nat
    OBVIOUS
<1>3. \A x, y \in Nat : x * y \in Nat
    OBVIOUS
<1>4. 2 * amount * percent \in Nat
    BY <1>1, <1>2, <1>3
<1>5. \A x \in Nat : (x + 100) \div 200 \in Nat
    OBVIOUS
<1>6. PICK off \in Nat : off = (2 * amount * percent + 100) \div 200
    BY <1>4, <1>5
<1>7. applyDiscount(amount, percent) = IF off > amount THEN amount ELSE off
    BY <1>6 DEF applyDiscount
<1> QED BY <1>6, <1>7

(* A request is taken up.                                                     *)
LEMMA RegistrationBegun ==
    ASSUME RegistrationInv, NEW p \in Procs, NEW j \in RegistrationJobs, NEW stage \in RegistrationStages,
           Begin(p, j, stage), UNCHANGED registrationVars,
           stage \notin {"reg_create", "reg_redeem"},
           pc'[p] = stage /\ job'[p] = j => RegistrationJob(p)' /\ StillValid(p)'
    PROVE  RegistrationInv'
<1>1. /\ HandlersTypeOK(RegistrationStages, RegistrationJobs)' /\ Lone'
      /\ pc[p] = "idle" /\ pc'[p] = stage /\ job'[p] = j /\ OthersStay(p)
      /\ (overlapped => overlapped') /\ faults' = faults
    BY RegistrationFacts, BeginStep
<1>2. /\ pc'[p] # "idle" /\ pc'[p] # "reg_redeem" /\ pc[p] # "reg_redeem" /\ faults' >= faults
      /\ UNCHANGED <<schools, promos, redemptions>>
      /\ \A c \in Promos : p \notin Validated(c)'
    BY <1>1, RegistrationFacts DEF registrationVars, Validated
<1> QED BY <1>1, <1>2, RegistrationFrame

LEMMA RegistrationReads ==
    ASSUME RegistrationInv, NEW p \in Procs,
           \/ \E c \in Promos : MakePromo(p, c) \/ RemoveRead(p, c)
           \/ \E a \in Applicants, c \in Promos \cup {NoPromo} : RegisterRead(p, a, c)
    PROVE  RegistrationInv'
<1>1. ASSUME NEW c \in Promos, MakePromo(p, c) PROVE RegistrationInv'
    <2> DEFINE j == [op |-> "make", promo |-> c]
    <2>1. /\ j \in RegistrationJobs /\ j \in [op : {"make"}, promo : Promos]
          /\ "promo_create" \in RegistrationStages
        BY DEF RegistrationJobs, RegistrationStages
    <2>2. Begin(p, j, "promo_create") /\ UNCHANGED registrationVars
        BY <1>1 DEF MakePromo
    <2> HIDE DEF j
    <2>3. pc'[p] = "promo_create" /\ job'[p] = j => RegistrationJob(p)' /\ StillValid(p)'
        BY <2>1 DEF RegistrationJob, StillValid
    <2> QED BY <2>1, <2>2, <2>3, RegistrationBegun
<1>2. ASSUME NEW c \in Promos, RemoveRead(p, c) PROVE RegistrationInv'
    <2> DEFINE j == [op |-> "remove", promo |-> c, redeemed |-> RedemptionsOf(c) # {}]
    <2>1. /\ j \in [op : {"remove"}, promo : Promos, redeemed : BOOLEAN]
          /\ j.promo = c /\ "promo_remove" \in RegistrationStages
        BY DEF RegistrationStages
    <2>2. j \in RegistrationJobs
        BY <2>1 DEF RegistrationJobs
    <2>3. ~j.redeemed => RedemptionsOf(c) = {}
        OBVIOUS
    <2>4. Begin(p, j, "promo_remove") /\ UNCHANGED registrationVars /\ RedemptionsOf(c)' = RedemptionsOf(c)
        BY <1>2 DEF RemoveRead, registrationVars, RedemptionsOf
    <2> HIDE DEF j
    <2>5. pc'[p] = "promo_remove" /\ job'[p] = j => RegistrationJob(p)' /\ StillValid(p)'
        BY <2>1, <2>3, <2>4 DEF RegistrationJob, StillValid
    <2> QED BY <2>1, <2>2, <2>4, <2>5, RegistrationBegun
<1>3. ASSUME NEW a \in Applicants, NEW c \in Promos \cup {NoPromo}, RegisterRead(p, a, c)
      PROVE  RegistrationInv'
    <2> DEFINE j == [op |-> "register", applicant |-> a, promo |-> c, slug |-> <<NameOf[a], 0>>, off |-> 0]
    <2>1. /\ j \in RegisterJobs /\ "reg_slug" \in RegistrationStages
        <3>1. 0 \in 0..Price /\ <<NameOf[a], 0>> \in Slugs
            BY RegistrationFacts DEF Slugs
        <3> QED BY <3>1 DEF RegisterJobs, RegistrationStages
    <2>2. j \in RegistrationJobs
        BY <2>1, RegistrationFacts
    <2>3. Begin(p, j, "reg_slug") /\ UNCHANGED registrationVars
        BY <1>3 DEF RegisterRead
    <2> HIDE DEF j
    <2>4. pc'[p] = "reg_slug" /\ job'[p] = j => RegistrationJob(p)' /\ StillValid(p)'
        BY <2>1 DEF RegistrationJob, StillValid
    <2> QED BY <2>1, <2>2, <2>3, <2>4, RegistrationBegun
<1> QED BY <1>1, <1>2, <1>3

(* A request ends and leaves the tables alone.                                *)
LEMMA RegistrationEnds ==
    ASSUME RegistrationInv, NEW p \in Procs, pc[p] # "idle", UNCHANGED <<schools, promos, redemptions>>,
           (Finish(p) /\ pc[p] # "reg_redeem") \/ Dies(p)
    PROVE  RegistrationInv'
<1>1. /\ HandlersTypeOK(RegistrationStages, RegistrationJobs)' /\ Lone'
      /\ pc'[p] = "idle" /\ OthersStay(p) /\ overlapped' = overlapped
      /\ faults' >= faults /\ (Dies(p) => faults' > 0)
    BY RegistrationFacts, FinishStep
<1>2. /\ RegistrationJob(p)' /\ StillValid(p)'
      /\ \A c \in Promos : p \notin Validated(c)'
    BY <1>1 DEF RegistrationJob, StillValid, Validated
<1>3. ~overlapped' /\ faults' = 0 => pc[p] # "reg_redeem"
    BY <1>1
<1> QED BY <1>1, <1>2, <1>3, RegistrationFrame

LEMMA FindSlugStep ==
    ASSUME RegistrationInv, NEW p \in Procs, FindSlug(p)
    PROVE  RegistrationInv'
<1>1. /\ pc[p] = "reg_slug" /\ pc[p] # "idle" /\ job[p] \in RegisterJobs
      /\ UNCHANGED <<schools, promos, redemptions>>
    BY DEF FindSlug, registrationVars, RegistrationInv, RegistrationJob
<1>2. CASE SlugTaken(job[p].slug)
    <2> DEFINE j == [job[p] EXCEPT !.slug = <<job[p].slug[1], job[p].slug[2] + 1>>]
    <2>1. <<job[p].slug[1], job[p].slug[2] + 1>> \in Slugs
        <3>1. job[p].slug \in Slugs
            BY <1>1 DEF RegisterJobs
        <3> QED BY <3>1 DEF Slugs
    <2>2. j \in RegisterJobs /\ j \in RegistrationJobs /\ "reg_slug" \in RegistrationStages
        BY <1>1, <2>1, RegistrationFacts DEF RegisterJobs, RegistrationStages
    <2>3. Carry(p, j, "reg_slug")
        BY <1>2 DEF FindSlug
    <2> HIDE DEF j
    <2>4. /\ HandlersTypeOK(RegistrationStages, RegistrationJobs)' /\ Lone'
          /\ pc'[p] = "reg_slug" /\ job'[p] = j /\ OthersStay(p)
          /\ faults' = faults /\ overlapped' = overlapped
        BY <1>1, <2>2, <2>3, RegistrationFacts, CarryStep
    <2>5. /\ RegistrationJob(p)' /\ StillValid(p)' /\ faults' >= faults
          /\ \A c \in Promos : p \notin Validated(c)'
        BY <2>2, <2>4, RegistrationFacts DEF RegistrationJob, StillValid, Validated
    <2> QED BY <1>1, <2>4, <2>5, RegistrationFrame
<1>3. CASE ~SlugTaken(job[p].slug)
    <2>1. GoTo(p, "reg_promo") /\ "reg_promo" \in RegistrationStages
        BY <1>3 DEF FindSlug, RegistrationStages
    <2>2. /\ HandlersTypeOK(RegistrationStages, RegistrationJobs)' /\ Lone'
          /\ pc'[p] = "reg_promo" /\ job' = job /\ OthersStay(p)
          /\ faults' = faults /\ overlapped' = overlapped
        BY <1>1, <2>1, RegistrationFacts, GoToStep
    <2>3. /\ RegistrationJob(p)' /\ StillValid(p)' /\ faults' >= faults
          /\ \A c \in Promos : p \notin Validated(c)'
        BY <1>1, <2>2, RegistrationFacts DEF RegistrationJob, StillValid, Validated
    <2> QED BY <1>1, <2>2, <2>3, RegistrationFrame
<1> QED BY <1>2, <1>3

LEMMA CheckPromoStep ==
    ASSUME RegistrationInv, NEW p \in Procs, CheckPromo(p)
    PROVE  RegistrationInv'
<1>1. /\ pc[p] = "reg_promo" /\ pc[p] # "idle" /\ job[p] \in RegisterJobs
      /\ UNCHANGED <<schools, promos, redemptions>> /\ "reg_create" \in RegistrationStages
      /\ job[p].promo \in Promos \cup {NoPromo}
    BY DEF CheckPromo, registrationVars, RegistrationInv, RegistrationJob, RegistrationStages, RegisterJobs
<1>2. CASE job[p].promo = NoPromo
    <2>1. GoTo(p, "reg_create") /\ NoPromo \notin Promos
        BY <1>2, RegistrationAssumptions DEF CheckPromo, RegistrationAssumptions
    <2>2. /\ HandlersTypeOK(RegistrationStages, RegistrationJobs)' /\ Lone'
          /\ pc'[p] = "reg_create" /\ job' = job /\ OthersStay(p)
          /\ faults' = faults /\ overlapped' = overlapped
        BY <1>1, <2>1, RegistrationFacts, GoToStep
    <2>3. /\ RegistrationJob(p)' /\ StillValid(p)' /\ faults' >= faults
          /\ \A c \in Promos : p \notin Validated(c)'
        BY <1>1, <1>2, <2>1, <2>2, RegistrationFacts DEF RegistrationJob, StillValid, Validated
    <2> QED BY <1>1, <2>2, <2>3, RegistrationFrame
<1>3. CASE job[p].promo # NoPromo /\ ~Valid(job[p].promo)
    <2>1. Finish(p)
        BY <1>3 DEF CheckPromo
    <2> QED BY <1>1, <2>1, RegistrationEnds
<1>4. CASE job[p].promo # NoPromo /\ Valid(job[p].promo)
    <2>1. PICK c \in Promos : c = job[p].promo
        BY <1>1, <1>4
    <2> DEFINE j == [job[p] EXCEPT !.off = applyDiscount(Price, PercentOf[c])]
    <2>2. applyDiscount(Price, PercentOf[c]) \in 0..Price
        BY RegistrationFacts, DiscountType
    <2>3. j \in RegisterJobs /\ j \in RegistrationJobs /\ j.promo = c
        BY <1>1, <2>1, <2>2, RegistrationFacts DEF RegisterJobs
    <2>4. /\ Carry(p, j, "reg_create") /\ promos[c].state = "active" /\ promos[c].used < MaxUsesOf[c]
        BY <1>4, <2>1 DEF CheckPromo, Valid
    <2> HIDE DEF j
    <2>5. /\ HandlersTypeOK(RegistrationStages, RegistrationJobs)' /\ Lone'
          /\ pc'[p] = "reg_create" /\ job'[p] = j /\ OthersStay(p)
          /\ faults' = faults /\ overlapped' = overlapped
        BY <1>1, <2>3, <2>4, RegistrationFacts, CarryStep
    <2>6. /\ RegistrationJob(p)' /\ StillValid(p)' /\ faults' >= faults
          /\ \A d \in Promos : p \in Validated(d)' => promos[d].used < MaxUsesOf[d]
        BY <1>1, <2>3, <2>4, <2>5, RegistrationFacts DEF RegistrationJob, StillValid, Validated, Exists
    <2> QED BY <1>1, <2>5, <2>6, RegistrationFrame
<1> QED BY <1>2, <1>3, <1>4

(* A code starts unused: nobody has it who validated it before.               *)
LEMMA CreatePromoStep ==
    ASSUME RegistrationInv, NEW p \in Procs, CreatePromo(p)
    PROVE  RegistrationInv'
<1>1. /\ pc[p] = "promo_create" /\ pc[p] # "idle" /\ Finish(p) /\ UNCHANGED <<schools, redemptions>>
      /\ RegistrationTablesOK
    BY RegistrationFacts DEF CreatePromo
<1>2. PICK c \in Promos : c = job[p].promo
    BY <1>1 DEF RegistrationInv, RegistrationJob
<1>3. CASE promos[c].state # "absent"
    <2>1. UNCHANGED <<schools, promos, redemptions>>
        BY <1>1, <1>2, <1>3 DEF CreatePromo
    <2> QED BY <1>1, <2>1, RegistrationEnds
<1>4. CASE promos[c].state = "absent"
    <2>1. promos' = [promos EXCEPT ![c] = [state |-> "active", used |-> 0]]
        BY <1>2, <1>4 DEF CreatePromo
    <2>2. /\ promos'[c].state = "active" /\ promos'[c].used = 0
          /\ \A d \in Promos : d # c => promos'[d] = promos[d]
        BY <1>1, <2>1 DEF RegistrationTablesOK
    <2>3. RegistrationTablesOK'
        <3>1. promos' \in [Promos -> [state : {"absent", "active", "off", "gone"}, used : Nat]]
            BY <1>1, <2>1 DEF RegistrationTablesOK
        <3> QED BY <1>1, <3>1 DEF RegistrationTablesOK
    <2>4. /\ HandlersTypeOK(RegistrationStages, RegistrationJobs)' /\ Lone'
          /\ pc'[p] = "idle" /\ OthersStay(p) /\ overlapped' = overlapped /\ faults' = faults
        BY <1>1, RegistrationFacts, FinishStep
    <2>5. RegistrationJob(p)' /\ StillValid(p)'
        BY <2>4 DEF RegistrationJob, StillValid
    <2>6. \A q \in Procs : q # p => RegistrationJob(q)'
        <3>1. \A q \in Procs : pc[q] = "reg_redeem" => \A r \in redemptions : r.applicant # job[q].applicant
            BY DEF RegistrationInv, RegistrationJob
        <3>2. \A d \in Promos : promos[d].state # "absent" => promos'[d].state # "absent"
            BY <1>4, <2>2
        <3> QED BY <1>1, <2>4, <3>1, <3>2, OthersRegistered
    <2>7. ~Exists(c) /\ Exists(c)' /\ \A d \in Promos : d # c => Exists(d)' = Exists(d)
        BY <1>4, <2>2 DEF Exists
    <2>8. UsesCounted'
        <3>1. UsesOf(c)'
            <4>1. RedemptionsOf(c)' = {}
                BY <1>1, <2>7 DEF RegistrationInv, RowsTrue, RedemptionsOf
            <4>2. Validated(c)' = {}
                BY <1>4, <2>4 DEF Validated, OthersStay, RegistrationInv, RegistrationJob
            <4>3. Cardinality({}) = 0
                BY FS_EmptySet
            <4>4. /\ Cardinality(RedemptionsOf(c)') = 0 /\ Cardinality(Validated(c)') = 0
                  /\ promos'[c].used = 0
                BY <2>2, <4>1, <4>2, <4>3
            <4>5. PICK w \in Nat, m \in Nat \ {0} : w = Width' /\ m = MaxUsesOf[c]
                BY <2>4, RegistrationFacts, WidthType
            <4> QED BY <4>4, <4>5 DEF UsesOf
        <3>2. ASSUME NEW d \in Promos, d # c PROVE UsesOf(d)'
            <4>1. CASE Exists(d)
                <5>1. p \notin Validated(d)'
                    BY <2>4 DEF Validated
                <5>2. /\ promos'[d].used = promos[d].used /\ RedemptionsOf(d)' = RedemptionsOf(d)
                      /\ overlapped' \in BOOLEAN /\ (overlapped => overlapped')
                    BY <1>1, <2>2, <2>4, <3>2, RegistrationFacts DEF RedemptionsOf
                <5> QED BY <2>4, <4>1, <5>1, <5>2, UsesKept
            <4>2. CASE ~Exists(d)
                BY <2>7, <3>2, <4>2 DEF UsesOf
            <4> QED BY <4>1, <4>2
        <3> QED BY <1>1, <3>1, <3>2 DEF UsesCounted, RegistrationInv
    <2>9. SlugsUnique'
        BY <1>1 DEF RegistrationInv, SlugsUnique
    <2>10. RowsTrue'
        <3>1. \A r \in redemptions : r.promo \in Promos
            BY <1>1 DEF RegistrationTablesOK
        <3> QED BY <1>1, <2>7, <3>1 DEF RegistrationInv, RowsTrue
    <2>11. ASSUME ~overlapped', faults' = 0 PROVE ReductionsKnown'
        <3>1. ReductionsKnown
            BY <2>4, <2>11 DEF RegistrationInv, RegistrationInTurn
        <3> QED BY <1>1, <2>4, <3>1 DEF ReductionsKnown, Redeemed, OthersStay
    <2> QED BY <1>1, <2>3, <2>4, <2>5, <2>6, <2>8, <2>9, <2>10, <2>11, RegistrationMoves
<1> QED BY <1>3, <1>4

(* A code is switched off, or forgotten with the redemptions it has.          *)
LEMMA RemoveWriteStep ==
    ASSUME RegistrationInv, NEW p \in Procs, RemoveWrite(p)
    PROVE  RegistrationInv'
<1>1. /\ pc[p] = "promo_remove" /\ pc[p] # "idle" /\ Finish(p) /\ schools' = schools
      /\ RegistrationTablesOK /\ overlapped \in BOOLEAN
    BY RegistrationFacts DEF RemoveWrite
<1>2. PICK c \in Promos : c = job[p].promo
    BY <1>1 DEF RegistrationInv, RegistrationJob
<1>3. /\ HandlersTypeOK(RegistrationStages, RegistrationJobs)' /\ Lone'
      /\ pc'[p] = "idle" /\ OthersStay(p) /\ overlapped' = overlapped /\ faults' = faults
    BY <1>1, RegistrationFacts, FinishStep
<1>4. /\ RegistrationJob(p)' /\ StillValid(p)'
      /\ \A d \in Promos : p \notin Validated(d)'
    BY <1>3 DEF RegistrationJob, StillValid, Validated
<1>5. \A r \in redemptions : r.promo \in Promos
    BY <1>1 DEF RegistrationTablesOK
<1>6. CASE ~Exists(c)
    <2>1. UNCHANGED <<schools, promos, redemptions>>
        BY <1>1, <1>2, <1>6 DEF RemoveWrite
    <2> QED BY <1>1, <2>1, RegistrationEnds
<1>7. ASSUME NEW row \in [state : {"off", "gone"}, used : Nat], Exists(c),
             promos' = [promos EXCEPT ![c] = row],
             \/ /\ row.state = "off" /\ row.used = promos[c].used
                /\ redemptions' = redemptions
             \/ /\ row.state = "gone" /\ ~job[p].redeemed
                /\ redemptions' = redemptions \ RedemptionsOf(c)
      PROVE  RegistrationInv'
    <2>1. promos'[c] = row /\ \A d \in Promos : d # c => promos'[d] = promos[d]
        BY <1>1, <1>7 DEF RegistrationTablesOK
    <2>2. redemptions' \subseteq redemptions
        BY <1>7
    <2>3. RegistrationTablesOK'
        <3>1. promos' \in [Promos -> [state : {"absent", "active", "off", "gone"}, used : Nat]]
            BY <1>1, <1>7 DEF RegistrationTablesOK
        <3> QED BY <1>1, <2>2, <3>1 DEF RegistrationTablesOK
    <2>4. \A q \in Procs : q # p => RegistrationJob(q)'
        <3>1. \A q \in Procs : pc[q] = "reg_redeem" => \A r \in redemptions' : r.applicant # job[q].applicant
            BY <2>2 DEF RegistrationInv, RegistrationJob
        <3>2. \A d \in Promos : promos[d].state # "absent" => promos'[d].state # "absent"
            BY <2>1
        <3> QED BY <1>1, <1>3, <3>1, <3>2, OthersRegistered
    <2>5. /\ \A d \in Promos : d # c => Exists(d)' = Exists(d) /\ RedemptionsOf(d)' = RedemptionsOf(d)
          /\ row.state = "off" => Exists(c)' /\ RedemptionsOf(c)' = RedemptionsOf(c)
          /\ row.state = "gone" => ~Exists(c)' /\ \A r \in redemptions' : r.promo # c
        BY <1>7, <2>1 DEF Exists, RedemptionsOf
    <2>6. UsesCounted'
        <3>1. ASSUME NEW d \in Promos PROVE UsesOf(d)'
            <4>1. CASE ~Exists(d)'
                BY <4>1 DEF UsesOf
            <4>2. CASE Exists(d)'
                <5>1. /\ Exists(d) /\ promos'[d].used = promos[d].used
                      /\ RedemptionsOf(d)' = RedemptionsOf(d)
                    BY <1>7, <2>1, <2>5, <4>2
                <5>2. overlapped' \in BOOLEAN /\ (overlapped => overlapped') /\ p \notin Validated(d)'
                    BY <1>1, <1>3, <1>4
                <5> QED BY <1>3, <5>1, <5>2, UsesKept
            <4> QED BY <4>1, <4>2
        <3>2. IsFiniteSet(redemptions')
            BY <2>2, FS_Subset DEF RegistrationInv, UsesCounted
        <3> QED BY <3>1, <3>2 DEF UsesCounted
    <2>7. SlugsUnique'
        BY <1>1 DEF RegistrationInv, SlugsUnique
    <2>8. RowsTrue'
        BY <1>1, <1>5, <1>7, <2>2, <2>5 DEF RegistrationInv, RowsTrue
    <2>9. ASSUME ~overlapped', faults' = 0 PROVE ReductionsKnown'
        <3>1. ReductionsKnown /\ StillValid(p)
            BY <1>3, <2>9 DEF RegistrationInv, RegistrationInTurn
        <3>2. redemptions' = redemptions
            BY <1>1, <1>2, <1>7, <3>1 DEF StillValid
        <3> QED BY <1>1, <1>3, <3>1, <3>2 DEF ReductionsKnown, Redeemed, OthersStay
    <2> QED BY <1>1, <1>3, <1>4, <2>3, <2>4, <2>6, <2>7, <2>8, <2>9, RegistrationMoves
<1>8. CASE Exists(c)
    <2>1. promos[c] \in [state : {"absent", "active", "off", "gone"}, used : Nat]
        BY <1>1 DEF RegistrationTablesOK
    <2>2. CASE job[p].redeemed
        <3>1. promos' = [promos EXCEPT ![c].state = "off"] /\ redemptions' = redemptions
            BY <1>2, <1>8, <2>2 DEF RemoveWrite
        <3>2. PICK row \in [state : {"off", "gone"}, used : Nat] :
                  row = [state |-> "off", used |-> promos[c].used]
            BY <2>1
        <3>3. [promos[c] EXCEPT !.state = "off"] = row
            BY <2>1, <3>2
        <3>4. promos' = [promos EXCEPT ![c] = row]
            BY <3>1, <3>3
        <3>5. row.state = "off" /\ row.used = promos[c].used
            BY <3>2
        <3> QED BY <1>7, <1>8, <3>1, <3>4, <3>5
    <2>3. CASE ~job[p].redeemed
        <3>1. /\ promos' = [promos EXCEPT ![c] = [state |-> "gone", used |-> 0]]
              /\ redemptions' = redemptions \ RedemptionsOf(c)
            BY <1>2, <1>8, <2>3 DEF RemoveWrite
        <3>2. PICK row \in [state : {"off", "gone"}, used : Nat] : row = [state |-> "gone", used |-> 0]
            OBVIOUS
        <3> QED BY <1>7, <1>8, <2>3, <3>1, <3>2
    <2> QED BY <2>2, <2>3
<1> QED BY <1>6, <1>8

(* The school is written, at the price less what was taken off.               *)
LEMMA CreateSchoolStep ==
    ASSUME RegistrationInv, NEW p \in Procs, CreateSchool(p)
    PROVE  RegistrationInv'
<1>1. /\ pc[p] = "reg_create" /\ pc[p] # "idle" /\ UNCHANGED <<promos, redemptions>>
      /\ job[p] \in RegisterJobs /\ RegistrationTablesOK /\ overlapped \in BOOLEAN
    BY RegistrationFacts DEF CreateSchool, RegistrationInv, RegistrationJob
<1>2. PICK a \in Applicants, c \in Promos \cup {NoPromo}, s \in Slugs, off \in 0..Price :
          a = job[p].applicant /\ c = job[p].promo /\ s = job[p].slug /\ off = job[p].off
    BY <1>1 DEF RegisterJobs
<1>3. CASE schools[a].open \/ SlugTaken(s)
    <2>1. Finish(p) /\ UNCHANGED <<schools, promos, redemptions>>
        BY <1>1, <1>2, <1>3 DEF CreateSchool
    <2> QED BY <1>1, <2>1, RegistrationEnds
<1>4. CASE ~schools[a].open /\ ~SlugTaken(s)
    <2>1. /\ schools' = [schools EXCEPT ![a] = [open |-> TRUE, slug |-> s, promo |-> c,
                                                amount |-> Price - off]]
          /\ IF c = NoPromo THEN Finish(p) ELSE GoTo(p, "reg_redeem")
        BY <1>2, <1>4 DEF CreateSchool
    <2>2. /\ schools'[a].open /\ schools'[a].slug = s /\ schools'[a].promo = c
          /\ schools'[a].amount = Price - off
          /\ \A b \in Applicants : b # a => schools'[b] = schools[b]
        BY <1>1, <2>1 DEF RegistrationTablesOK
    <2>3. /\ HandlersTypeOK(RegistrationStages, RegistrationJobs)' /\ Lone'
          /\ OthersStay(p) /\ overlapped' = overlapped /\ faults' = faults
          /\ c = NoPromo => pc'[p] = "idle"
          /\ c # NoPromo => pc'[p] = "reg_redeem" /\ job' = job
        <3>1. CASE c = NoPromo
            BY <1>1, <2>1, <3>1, RegistrationFacts, FinishStep
        <3>2. CASE c # NoPromo
            <4>1. "reg_redeem" \in RegistrationStages
                BY DEF RegistrationStages
            <4> QED BY <1>1, <2>1, <3>2, <4>1, RegistrationFacts, GoToStep
        <3> QED BY <3>1, <3>2
    <2>4. Price - off \in 0..Price /\ (Price - off) + off = Price
        BY RegistrationFacts
    <2>5. RegistrationTablesOK'
        BY <1>1, <2>1, <2>4 DEF RegistrationTablesOK
    <2>6. \A r \in redemptions : r.applicant \in Applicants /\ r.applicant # a
        BY <1>1, <1>4 DEF RegistrationInv, RowsTrue, RegistrationTablesOK
    <2>7. /\ \A d : Exists(d)' = Exists(d) /\ RedemptionsOf(d)' = RedemptionsOf(d)
        BY <1>1 DEF Exists, RedemptionsOf
    <2>8. RegistrationJob(p)'
        <3>1. CASE c = NoPromo
            BY <2>3, <3>1 DEF RegistrationJob
        <3>2. CASE c # NoPromo
            <4>1. /\ pc'[p] = "reg_redeem" /\ job'[p] = job[p] /\ job[p].promo \in Promos
                  /\ promos'[job[p].promo].state # "absent"
                BY <1>1, <1>2, <2>3, <3>2 DEF RegistrationInv, RegistrationJob
            <4>2. schools'[a].amount + off = Price
                BY <2>2, <2>4
            <4> QED BY <1>1, <1>2, <2>2, <2>6, <4>1, <4>2 DEF RegistrationJob
        <3> QED BY <3>1, <3>2
    <2>9. \A q \in Procs : q # p => RegistrationJob(q)'
        <3>1. \A q \in Procs : pc[q] = "reg_redeem" => \A r \in redemptions' : r.applicant # job[q].applicant
            BY <1>1 DEF RegistrationInv, RegistrationJob
        <3>2. \A b \in Applicants : schools[b].open => schools'[b] = schools[b]
            BY <1>4, <2>2
        <3> QED BY <1>1, <2>3, <3>1, <3>2, OthersRegistered
    <2>10. \A q \in Procs : q # p /\ pc[q] = "reg_redeem" => job[q].applicant # job[p].applicant
        BY <1>2, <1>4 DEF RegistrationInv, RegistrationJob
    <2>11. UsesCounted'
        <3>1. ASSUME NEW d \in Promos PROVE UsesOf(d)'
            <4>1. CASE Exists(d)
                <5>1. p \in Validated(d)' => p \in Validated(d)
                    BY <1>1, <2>3 DEF Validated
                <5>2. promos'[d].used = promos[d].used /\ overlapped' \in BOOLEAN /\ (overlapped => overlapped')
                    BY <1>1, <2>3
                <5> QED BY <2>3, <2>7, <4>1, <5>1, <5>2, UsesKept
            <4>2. CASE ~Exists(d)
                BY <2>7, <4>2 DEF UsesOf
            <4> QED BY <4>1, <4>2
        <3> QED BY <1>1, <3>1 DEF UsesCounted, RegistrationInv
    <2>12. SlugsUnique'
        <3>1. \A b \in Applicants : schools[b].open => schools[b].slug # s
            BY <1>4 DEF SlugTaken
        <3> QED BY <2>2, <3>1 DEF RegistrationInv, SlugsUnique
    <2>13. RowsTrue'
        BY <1>1, <2>2, <2>6, <2>7 DEF RegistrationInv, RowsTrue
    <2>14. ASSUME ~overlapped' PROVE StillValid(p)'
        BY <1>1, <1>2, <2>3, <2>7, <2>14 DEF RegistrationInv, RegistrationInTurn, StillValid
    <2>15. ASSUME ~overlapped', faults' = 0 PROVE ReductionsKnown'
        <3>1. ReductionsKnown
            BY <2>3, <2>15 DEF RegistrationInv, RegistrationInTurn
        <3>2. ASSUME NEW b \in Applicants, b # a, schools'[b].promo # NoPromo
              PROVE  Redeemed(b)' \/ \E q \in Procs : pc'[q] = "reg_redeem" /\ job'[q].applicant = b
            <4>1. Redeemed(b) \/ \E q \in Procs : pc[q] = "reg_redeem" /\ job[q].applicant = b
                BY <2>2, <3>1, <3>2 DEF ReductionsKnown
            <4> QED BY <1>1, <2>2, <2>3, <3>2, <4>1 DEF Redeemed, OthersStay
        <3>3. c # NoPromo => pc'[p] = "reg_redeem" /\ job'[p].applicant = a
            BY <1>2, <2>3
        <3> QED BY <2>2, <3>2, <3>3 DEF ReductionsKnown
    <2>16. pc'[p] = "reg_redeem" =>
               \A q \in Procs : q # p /\ pc[q] = "reg_redeem" => job[q].applicant # job'[p].applicant
        BY <2>3, <2>10
    <2> QED BY <1>1, <2>3, <2>5, <2>8, <2>9, <2>11, <2>12, <2>13, <2>14, <2>15, <2>16, RegistrationMoves
<1> QED BY <1>3, <1>4

(* The row and the count are written, if the code is still there.             *)
LEMMA RedeemStep ==
    ASSUME RegistrationInv, NEW p \in Procs, Redeem(p)
    PROVE  RegistrationInv'
<1>1. /\ pc[p] = "reg_redeem" /\ pc[p] # "idle" /\ Finish(p) /\ schools' = schools
      /\ RegistrationTablesOK /\ overlapped \in BOOLEAN /\ RegistrationJob(p)
      /\ job[p] \in RegisterJobs
    BY RegistrationFacts DEF Redeem, RegistrationInv, RegistrationJob
<1>2. PICK a \in Applicants, c \in Promos, off \in 0..Price :
          a = job[p].applicant /\ c = job[p].promo /\ off = job[p].off
    BY <1>1 DEF RegistrationJob, RegisterJobs
<1>3. /\ HandlersTypeOK(RegistrationStages, RegistrationJobs)' /\ Lone'
      /\ pc'[p] = "idle" /\ OthersStay(p) /\ overlapped' = overlapped /\ faults' = faults
    BY <1>1, RegistrationFacts, FinishStep
<1>4. /\ RegistrationJob(p)' /\ StillValid(p)'
      /\ \A d \in Promos : p \notin Validated(d)'
    BY <1>3 DEF RegistrationJob, StillValid, Validated
<1>5. /\ schools[a].open /\ schools[a].promo = c /\ schools[a].amount + off = Price
      /\ \A r \in redemptions : r.applicant # a
      /\ \A q \in Procs : q # p /\ pc[q] = "reg_redeem" =>
             job[q].applicant # a /\ \A r \in redemptions : r.applicant # job[q].applicant
    BY <1>1, <1>2 DEF RegistrationInv, RegistrationJob, OneRedeemer
<1>6. CASE ~Exists(c)
    <2>1. UNCHANGED <<schools, promos, redemptions>>
        BY <1>1, <1>2, <1>6 DEF Redeem
    <2>2. RegistrationTablesOK' /\ \A d : Exists(d)' = Exists(d) /\ RedemptionsOf(d)' = RedemptionsOf(d)
        BY <1>1, <2>1 DEF RegistrationTablesOK, Exists, RedemptionsOf
    <2>3. \A q \in Procs : q # p => RegistrationJob(q)'
        BY <1>3, <1>5, <2>1, OthersRegistered
    <2>4. UsesCounted'
        <3>1. ASSUME NEW d \in Promos PROVE UsesOf(d)'
            <4>1. CASE Exists(d)
                BY <1>1, <1>3, <1>4, <2>1, <2>2, <4>1, UsesKept
            <4>2. CASE ~Exists(d)
                BY <2>2, <4>2 DEF UsesOf
            <4> QED BY <4>1, <4>2
        <3> QED BY <2>1, <3>1 DEF UsesCounted, RegistrationInv
    <2>5. SlugsUnique' /\ RowsTrue'
        BY <2>1, <2>2 DEF RegistrationInv, SlugsUnique, RowsTrue
    <2>6. overlapped'
        BY <1>1, <1>2, <1>3, <1>6 DEF RegistrationInv, RegistrationInTurn, StillValid
    <2> QED BY <1>1, <1>3, <1>4, <2>2, <2>3, <2>4, <2>5, <2>6, RegistrationMoves
<1>7. CASE Exists(c)
    <2> DEFINE row == [promo |-> c, applicant |-> a, off |-> off]
    <2>1. /\ redemptions' = redemptions \cup {row}
          /\ promos' = [promos EXCEPT ![c].used = promos[c].used + 1]
        BY <1>2, <1>7 DEF Redeem
    <2>2. /\ row \in [promo : Promos, applicant : Applicants, off : 0..Price]
          /\ row.promo = c /\ row.applicant = a /\ row.off = off
        OBVIOUS
    <2> HIDE DEF row
    <2>3. promos[c] \in [state : {"absent", "active", "off", "gone"}, used : Nat]
        BY <1>1 DEF RegistrationTablesOK
    <2>4. /\ promos'[c].used = promos[c].used + 1 /\ promos'[c].state = promos[c].state
          /\ \A d \in Promos : d # c => promos'[d] = promos[d]
          /\ promos' \in [Promos -> [state : {"absent", "active", "off", "gone"}, used : Nat]]
        BY <1>1, <2>1, <2>3 DEF RegistrationTablesOK
    <2>5. RegistrationTablesOK'
        BY <1>1, <2>1, <2>2, <2>4 DEF RegistrationTablesOK
    <2>6. \A d \in Promos : Exists(d)' = Exists(d) /\ (d # c => RedemptionsOf(d)' = RedemptionsOf(d))
        BY <2>1, <2>2, <2>4 DEF Exists, RedemptionsOf
    <2>7. \A q \in Procs : q # p => RegistrationJob(q)'
        <3>1. \A q \in Procs : q # p /\ pc[q] = "reg_redeem" =>
                  \A r \in redemptions' : r.applicant # job[q].applicant
            BY <1>5, <2>1, <2>2
        <3>2. \A d \in Promos : promos[d].state # "absent" => promos'[d].state # "absent"
            BY <2>4
        <3> QED BY <1>1, <1>3, <3>1, <3>2, OthersRegistered
    <2>8. UsesOf(c)'
        <3>1. PICK u \in Nat, v \in Nat, m \in Nat \ {0} :
                  u = promos[c].used /\ v = Width /\ v = Width' /\ m = MaxUsesOf[c]
            <4>1. Width' = Width /\ Width \in Nat
                BY <1>1, <1>3, WidthType DEF Width
            <4> QED BY <2>3, <4>1, RegistrationFacts
        <3>2. u = Cardinality(RedemptionsOf(c)) /\ u + Cardinality(Validated(c)) <= m - 1 + v
            BY <1>7, <3>1 DEF RegistrationInv, UsesCounted, UsesOf
        <3>3. PICK S \in SUBSET Procs, T \in SUBSET Procs : S = Validated(c) /\ T = Validated(c)'
            BY DEF Validated
        <3>4. /\ \A q \in Procs : q # p => (q \in S <=> q \in T)
              /\ p \in S /\ p \notin T
            BY <1>1, <1>2, <1>3, <1>4, <3>3 DEF Validated, OthersStay
        <3>5. Cardinality(T) \in Nat /\ Cardinality(S) = Cardinality(T) + 1
            BY <3>4, GroupStep
        <3>6. RedemptionsOf(c)' = RedemptionsOf(c) \cup {row} /\ row \notin RedemptionsOf(c)
            BY <1>5, <2>1, <2>2 DEF RedemptionsOf
        <3>7. IsFiniteSet(RedemptionsOf(c))
            BY FS_Subset DEF RegistrationInv, UsesCounted, RedemptionsOf
        <3>8. Cardinality(RedemptionsOf(c) \cup {row}) = Cardinality(RedemptionsOf(c)) + 1
            BY <3>6, <3>7, FS_AddElement
        <3>9. promos'[c].used = u + 1 /\ Cardinality(RedemptionsOf(c)') = u + 1
            BY <2>4, <3>1, <3>2, <3>6, <3>8
        <3>10. (u + 1) + Cardinality(T) <= m - 1 + v
            BY <3>1, <3>2, <3>3, <3>5
        <3> QED BY <3>1, <3>3, <3>9, <3>10 DEF UsesOf
    <2>9. UsesCounted'
        <3>1. ASSUME NEW d \in Promos, d # c PROVE UsesOf(d)'
            <4>1. CASE Exists(d)
                <5>1. /\ promos'[d].used = promos[d].used /\ RedemptionsOf(d)' = RedemptionsOf(d)
                      /\ overlapped' \in BOOLEAN /\ (overlapped => overlapped') /\ p \notin Validated(d)'
                    BY <1>1, <1>3, <1>4, <2>4, <2>6, <3>1
                <5> QED BY <1>3, <4>1, <5>1, UsesKept
            <4>2. CASE ~Exists(d)
                BY <2>6, <4>2 DEF UsesOf
            <4> QED BY <4>1, <4>2
        <3>2. IsFiniteSet(redemptions')
            BY <2>1, FS_AddElement DEF RegistrationInv, UsesCounted
        <3> QED BY <2>8, <3>1, <3>2 DEF UsesCounted
    <2>10. SlugsUnique'
        BY <1>1 DEF RegistrationInv, SlugsUnique
    <2>11. RowsTrue'
        <3>1. \A r \in redemptions : r.promo \in Promos
            BY <1>1 DEF RegistrationTablesOK
        <3> QED BY <1>1, <1>5, <1>7, <2>1, <2>2, <2>6, <3>1 DEF RegistrationInv, RowsTrue
    <2>12. ASSUME ~overlapped', faults' = 0 PROVE ReductionsKnown'
        <3>1. ReductionsKnown
            BY <1>3, <2>12 DEF RegistrationInv, RegistrationInTurn
        <3>2. Redeemed(a)'
            BY <1>1, <1>5, <2>1, <2>2 DEF Redeemed
        <3>3. \A b \in Applicants : Redeemed(b) => Redeemed(b)'
            BY <1>1, <2>1 DEF Redeemed
        <3> QED BY <1>1, <1>2, <1>3, <3>1, <3>2, <3>3 DEF ReductionsKnown, OthersStay
    <2> QED BY <1>1, <1>3, <1>4, <2>5, <2>7, <2>9, <2>10, <2>11, <2>12, RegistrationMoves
<1> QED BY <1>6, <1>7

(* A code runs out: its uses and redemptions stay.                            *)
LEMMA PromoExpiresStep ==
    ASSUME RegistrationInv, NEW c \in Promos, PromoExpires(c)
    PROVE  RegistrationInv'
<1>1. /\ promos[c].state = "active" /\ promos' = [promos EXCEPT ![c].state = "off"]
      /\ UNCHANGED handlerVars /\ UNCHANGED <<schools, redemptions>> /\ RegistrationTablesOK
    BY RegistrationFacts DEF PromoExpires
<1>2. /\ HandlersTypeOK(RegistrationStages, RegistrationJobs)' /\ Lone'
      /\ pc' = pc /\ job' = job /\ faults' = faults /\ overlapped' = overlapped
    BY <1>1, RegistrationFacts, HandlersStutter
<1>3. promos[c] \in [state : {"absent", "active", "off", "gone"}, used : Nat]
    BY <1>1 DEF RegistrationTablesOK
<1>4. /\ promos'[c].used = promos[c].used /\ promos'[c].state = "off"
      /\ \A d \in Promos : d # c => promos'[d] = promos[d]
      /\ promos' \in [Promos -> [state : {"absent", "active", "off", "gone"}, used : Nat]]
    BY <1>1, <1>3 DEF RegistrationTablesOK
<1>5. RegistrationTablesOK'
    BY <1>1, <1>4 DEF RegistrationTablesOK
<1>6. /\ \A d \in Promos : Exists(d)' = Exists(d)
      /\ \A d : RedemptionsOf(d)' = RedemptionsOf(d) /\ Validated(d)' = Validated(d)
      /\ Width' = Width
    BY <1>1, <1>2, <1>4 DEF Exists, RedemptionsOf, Validated, Width
<1>7. \A p \in Procs : RegistrationJob(p)'
    <2>1. \A d \in Promos : promos[d].state # "absent" => promos'[d].state # "absent"
        BY <1>4
    <2> QED BY <1>1, <1>2, <2>1 DEF RegistrationInv, RegistrationJob
<1>8. UsesCounted'
    <2>1. \A d \in Promos : promos'[d].used = promos[d].used
        BY <1>4
    <2> QED BY <1>1, <1>6, <2>1 DEF RegistrationInv, UsesCounted, UsesOf
<1>9. SlugsUnique' /\ OneRedeemer' /\ RowsTrue'
    <2>1. \A r \in redemptions : r.promo \in Promos
        BY <1>1 DEF RegistrationTablesOK
    <2> QED BY <1>1, <1>2, <1>6, <2>1 DEF RegistrationInv, SlugsUnique, OneRedeemer, RowsTrue
<1>10. RegistrationInTurn'
    <2>1. ASSUME ~overlapped PROVE \A p \in Procs : StillValid(p)'
        BY <1>2, <1>6, <2>1 DEF RegistrationInv, RegistrationInTurn, StillValid
    <2>2. ASSUME ~overlapped, faults = 0 PROVE ReductionsKnown'
        BY <1>1, <1>2, <2>2 DEF RegistrationInv, RegistrationInTurn, ReductionsKnown, Redeemed
    <2> QED BY <1>2, <2>1, <2>2 DEF RegistrationInTurn
<1> QED BY <1>2, <1>5, <1>7, <1>8, <1>9, <1>10 DEF RegistrationInv, RegistrationTypeOK

LEMMA RegistrationStep ==
    RegistrationInv /\ [RegistrationNext]_<<handlerVars, registrationVars>> => RegistrationInv'
<1> SUFFICES ASSUME RegistrationInv, [RegistrationNext]_<<handlerVars, registrationVars>>
             PROVE  RegistrationInv'
    OBVIOUS
<1>1. ASSUME NEW p \in Procs, NEW c \in Promos, MakePromo(p, c) \/ RemoveRead(p, c)
      PROVE  RegistrationInv'
    BY <1>1, RegistrationReads
<1>2. ASSUME NEW p \in Procs, NEW a \in Applicants, NEW c \in Promos \cup {NoPromo}, RegisterRead(p, a, c)
      PROVE  RegistrationInv'
    BY <1>2, RegistrationReads
<1>3. ASSUME NEW p \in Procs, Dies(p), UNCHANGED registrationVars PROVE RegistrationInv'
    <2>1. pc[p] # "idle" /\ UNCHANGED <<schools, promos, redemptions>>
        BY <1>3 DEF Dies, registrationVars
    <2> QED BY <1>3, <2>1, RegistrationEnds
<1>4. CASE UNCHANGED <<handlerVars, registrationVars>>
    <2>1. /\ HandlersTypeOK(RegistrationStages, RegistrationJobs)' /\ Lone'
          /\ pc' = pc /\ job' = job /\ faults' = faults /\ overlapped' = overlapped
        BY <1>4, RegistrationFacts, HandlersStutter
    <2>2. schools' = schools /\ promos' = promos /\ redemptions' = redemptions
        BY <1>4 DEF registrationVars
    <2>3. RegistrationTypeOK'
        BY <2>1, <2>2 DEF RegistrationInv, RegistrationTypeOK, RegistrationTablesOK
    <2>4. /\ (\A p \in Procs : RegistrationJob(p)') /\ OneRedeemer' /\ SlugsUnique'
        BY <2>1, <2>2 DEF RegistrationInv, RegistrationJob, OneRedeemer, SlugsUnique
    <2>5. /\ \A c : Exists(c)' = Exists(c) /\ RedemptionsOf(c)' = RedemptionsOf(c)
                    /\ Validated(c)' = Validated(c)
          /\ Width' = Width
        BY <2>1, <2>2 DEF Exists, RedemptionsOf, Validated, Width
    <2>6. UsesCounted' /\ RowsTrue'
        BY <2>2, <2>5 DEF RegistrationInv, UsesCounted, UsesOf, RowsTrue
    <2>7. RegistrationInTurn'
        BY <2>1, <2>2, <2>5 DEF RegistrationInv, RegistrationInTurn, StillValid, ReductionsKnown, Redeemed
    <2> QED BY <2>1, <2>3, <2>4, <2>6, <2>7 DEF RegistrationInv
<1> QED BY <1>1, <1>2, <1>3, <1>4, CreatePromoStep, RemoveWriteStep, FindSlugStep, CheckPromoStep,
           CreateSchoolStep, RedeemStep, PromoExpiresStep DEF RegistrationNext

(* Schools, codes and redemptions keep their types: no school pays less than  *)
(* nothing or more than the price, with any codes.                            *)
THEOREM RegistrationTypes == RegistrationSpec => []RegistrationTypeOK
<1>1. RegistrationInv => RegistrationTypeOK
    BY DEF RegistrationInv
<1> QED BY <1>1, RegistrationInitial, RegistrationStep, PTL DEF RegistrationSpec

(* However many register side by side, the uses of a promo code are its        *)
(* redemptions and exceed its limit by no more than the registrations in       *)
(* progress; no two schools share a slug; a redemption is of a school that     *)
(* pays the price less what the row says; and with requests in turn and no     *)
(* failure no reduced price lacks its redemption (register-school,             *)
(* config/promo-codes).                                                        *)
THEOREM DiscountsStayAccountedFor == RegistrationSpec => []DiscountsAccountedFor
<1>1. RegistrationInv => DiscountsAccountedFor
    <2> SUFFICES ASSUME RegistrationInv PROVE DiscountsAccountedFor
        OBVIOUS
    <2>1. UsesBounded
        <3> SUFFICES ASSUME NEW c \in Promos, Exists(c)
                     PROVE  /\ promos[c].used = Cardinality(RedemptionsOf(c))
                            /\ promos[c].used <=
                                 MaxUsesOf[c] - 1 + (IF overlapped THEN Cardinality(Procs) ELSE 1)
            BY DEF UsesBounded
        <3>1. Validated(c) \in SUBSET Procs
            BY DEF Validated
        <3>2. /\ Cardinality(Validated(c)) \in Nat /\ promos[c].used \in Nat
              /\ MaxUsesOf[c] \in Nat
            <4>1. IsFiniteSet(Validated(c))
                BY <3>1, HandlersAssumptions, FS_Subset DEF HandlersAssumptions
            <4> QED BY <4>1, FS_CardinalityType, RegistrationFacts DEF RegistrationTablesOK
        <3>3. /\ promos[c].used = Cardinality(RedemptionsOf(c))
              /\ promos[c].used + Cardinality(Validated(c)) <= MaxUsesOf[c] - 1 + Width
            BY DEF RegistrationInv, UsesCounted, UsesOf
        <3>4. Width \in Nat
            <4>1. Cardinality(Procs) \in Nat
                BY HandlersAssumptions, FS_CardinalityType DEF HandlersAssumptions
            <4> QED BY <4>1 DEF Width
        <3>5. promos[c].used <= MaxUsesOf[c] - 1 + Width
            BY <3>2, <3>3, <3>4
        <3> QED BY <3>3, <3>5 DEF Width
    <2>2. ASSUME Quiescent, faults = 0, ~overlapped, NEW a \in Applicants, schools[a].promo # NoPromo
          PROVE  Redeemed(a)
        BY <2>2 DEF RegistrationInv, RegistrationInTurn, ReductionsKnown, Quiescent
    <2> QED BY <2>1, <2>2 DEF RegistrationInv, SlugsUnique, RowsTrue, Redeemed, DiscountsAccountedFor
<1> QED BY <1>1, RegistrationInitial, RegistrationStep, PTL DEF RegistrationSpec
----------------------------------------------------------------------------
(* Scheduled reports *)

RunJobs    == [op : {"run"}, left : SUBSET Reports, all : SUBSET Reports, run : Nat]
RetireJobs == [op : {"delete"}, report : Reports]

RowStages == {"rep_work", "rep_fail", "rep_done"}
RunStages == {"rep_find", "rep_log"} \cup RowStages

(* A run has reports left; between logging a row and finishing it, it has     *)
(* the row of the report it is at, which no other request has and which says  *)
(* RUNNING unless it was deleted.                                             *)
ReportJob(p) ==
    /\ pc[p] \in RunStages => job[p] \in RunJobs /\ job[p].left # {} /\ job[p].left \subseteq job[p].all
    /\ pc[p] = "rep_delete" => job[p] \in RetireJobs

RowHeld(p) ==
    pc[p] \in RowStages =>
      /\ job[p].run \in 1..Len(runs)
      /\ runs[job[p].run].report = Report(p)
      /\ runs[job[p].run].status \in {"RUNNING", "gone"}
      /\ \A q \in Procs : pc[q] \in RowStages /\ job[q].run = job[p].run => q = p

GoneAreDeleted == \A n \in 1..Len(runs) : runs[n].status = "gone" => runs[n].report \in deleted

TimesTold ==
    \A r \in Reports \ deleted : r \in ranLast <=> \E n \in RunsOf(r) : runs[n].status = "SUCCEEDED"

(* Whatever is RUNNING has somebody who runs it.                              *)
Attended ==
    faults = 0 => \A n \in 1..Len(runs) :
                    runs[n].status = "RUNNING" => \E p \in Procs : pc[p] \in RowStages /\ job[p].run = n

(* Nothing was deleted beside another request: what a run set out to do is    *)
(* still there.                                                               *)
Steady == deleted = {} \/ ~overlapped

AllThere == Steady => \A p \in Procs : pc[p] \in RunStages => job[p].all \cap deleted = {}

(* The requests in progress that have logged their row for r.                 *)
Ran(p, r) ==
    /\ pc[p] \in RunStages /\ r \in job[p].all
    /\ r \notin job[p].left \/ (pc[p] \in RowStages /\ r = Report(p))

RanBy(r) == {p \in Procs : Ran(p, r)}

(* A report has a row for each request that ended and each of these.          *)
RowsCounted ==
    faults = 0 /\ Steady =>
      \A r \in Reports \ deleted : Cardinality(RunsOf(r)) = expected[r] + Cardinality(RanBy(r))

ReportsInv ==
    /\ ReportsTypeOK /\ Lone
    /\ \A p \in Procs : ReportJob(p) /\ RowHeld(p)
    /\ GoneAreDeleted /\ TimesTold /\ Attended /\ AllThere /\ RowsCounted

LEMMA ReportsFacts ==
    ASSUME ReportsInv
    PROVE  /\ HandlersTypeOK(ReportStages, ReportJobs) /\ Lone /\ ReportTablesOK
           /\ "idle" \notin ReportStages
           /\ ReportStages = RunStages \cup {"rep_delete"} /\ ReportJobs = RunJobs \cup RetireJobs
           /\ RowStages \subseteq RunStages
           /\ Len(runs) \in Nat /\ DOMAIN runs = 1..Len(runs)
           /\ \A r : RunsOf(r) = {n \in 1..Len(runs) : runs[n].report = r}
           /\ \A r : RanBy(r) \in SUBSET Procs
<1>1. ReportTablesOK
    BY DEF ReportsInv, ReportsTypeOK
<1>2. Len(runs) \in Nat /\ DOMAIN runs = 1..Len(runs)
    BY <1>1, LenProperties DEF ReportTablesOK
<1>3. \A r : RunsOf(r) = {n \in 1..Len(runs) : runs[n].report = r}
    BY <1>2 DEF RunsOf, Logged
<1>4. /\ "idle" \notin ReportStages /\ RowStages \subseteq RunStages
      /\ ReportStages = RunStages \cup {"rep_delete"} /\ ReportJobs = RunJobs \cup RetireJobs
    BY DEF ReportStages, RunStages, RowStages, ReportJobs, RunJobs, RetireJobs
<1> QED BY <1>1, <1>2, <1>3, <1>4 DEF ReportsInv, ReportsTypeOK, RanBy

(* The first of some reports is one of them.                                  *)
LEMMA FirstIsOne ==
    ASSUME NEW some \in SUBSET Reports, some # {}
    PROVE  FirstOf(some) \in some
<1> DEFINE places == {n \in DOMAIN SavedReports : SavedReports[n] \in some}
<1>1. DOMAIN SavedReports \subseteq Nat
    BY ReportAssumptions, LenProperties DEF ReportAssumptions
<1>2. places \subseteq Nat /\ places # {}
    BY <1>1 DEF Reports, ToSet
<1>3. PICK m \in places : \A n \in places : m <= n
    <2>1. PICK m \in places : \A n \in places : ~(<<n, m>> \in OpToRel(<, Nat))
        <3> HIDE DEF places
        <3> QED BY <1>2, NatLessThanWellFounded, WFMin
    <2>2. \A n \in places : ~(n < m)
        BY <1>2, <2>1 DEF OpToRel
    <2> QED BY <1>2, <2>2
<1>4. Min(places) \in places
    <2> HIDE DEF places
    <2> QED BY <1>3 DEF Min
<1> QED BY <1>4 DEF FirstOf

LEMMA ReportsInitial == HandlersInit /\ ReportsInit => ReportsInv
<1> SUFFICES ASSUME HandlersInit, ReportsInit PROVE ReportsInv
    OBVIOUS
<1>1. HandlersTypeOK(ReportStages, ReportJobs) /\ Lone /\ Quiescent
    BY HandlersInitType
<1>2. /\ deleted = {} /\ ranLast = {} /\ runs = <<>> /\ expected = [r \in Reports |-> 0]
      /\ Len(runs) = 0 /\ 1..Len(runs) = {} /\ DOMAIN runs = {}
    BY EmptySeq DEF ReportsInit
<1>3. ReportTablesOK
    BY <1>2, EmptySeq DEF ReportTablesOK
<1>4. \A p \in Procs : pc[p] \notin RunStages /\ pc[p] \notin RowStages /\ pc[p] # "rep_delete"
    BY <1>1 DEF Quiescent, RunStages, RowStages
<1>5. RowsCounted
    <2>1. \A r \in Reports : RunsOf(r) = {} /\ RanBy(r) = {} /\ expected[r] = 0
        BY <1>2, <1>4 DEF RunsOf, Logged, RanBy, Ran
    <2> QED BY <2>1, FS_EmptySet DEF RowsCounted
<1>6. TimesTold
    BY <1>2 DEF TimesTold, RunsOf, Logged
<1>7. GoneAreDeleted /\ Attended
    BY <1>2 DEF GoneAreDeleted, Attended
<1>8. AllThere /\ \A p \in Procs : ReportJob(p) /\ RowHeld(p)
    BY <1>4 DEF AllThere, ReportJob, RowHeld
<1> QED BY <1>1, <1>3, <1>5, <1>6, <1>7, <1>8 DEF ReportsInv, ReportsTypeOK

(* What the requests of others do to a request is nothing.                    *)
LEMMA ReportOthers ==
    ASSUME NEW p \in Procs, OthersStay(p)
    PROVE  /\ \A q \in Procs : q # p => Report(q)' = Report(q) /\ \A r : Ran(q, r)' <=> Ran(q, r)
           /\ job'[p].left = job[p].left => Report(p)' = Report(p)
BY DEF OthersStay, Report, Ran

(* A request is taken up, moves on, or ends, and leaves the tables alone.     *)
LEMMA ReportMoves ==
    ASSUME ReportsInv, NEW p \in Procs, UNCHANGED reportVars,
           HandlersTypeOK(ReportStages, ReportJobs)', Lone', OthersStay(p),
           overlapped => overlapped', faults' = 0 => faults = 0, ReportJob(p)',
           pc'[p] \in RowStages => pc[p] \in RowStages /\ job'[p] = job[p],
           pc[p] \in RowStages /\ pc'[p] \notin RowStages => faults' # 0 \/ Gone(p),
           Steady /\ pc'[p] \in RunStages => job'[p].all \cap deleted = {},
           faults' = 0 /\ Steady => \A r \in Reports \ deleted : Ran(p, r)' <=> Ran(p, r)
    PROVE  ReportsInv'
<1>1. /\ deleted' = deleted /\ ranLast' = ranLast /\ runs' = runs /\ expected' = expected
      /\ \A r : RunsOf(r)' = RunsOf(r)
    BY DEF reportVars, RunsOf, Logged
<1>2. /\ \A q \in Procs : q # p => pc'[q] = pc[q] /\ job'[q] = job[q] /\ Report(q)' = Report(q)
      /\ \A q \in Procs : q # p => \A r : Ran(q, r)' <=> Ran(q, r)
    BY ReportOthers DEF OthersStay
<1>3. Steady' => Steady
    BY <1>1 DEF Steady
<1>4. ReportTablesOK'
    BY <1>1, ReportsFacts DEF ReportTablesOK
<1>5. \A q \in Procs : ReportJob(q)'
    BY <1>2 DEF ReportsInv, ReportJob
<1>6. \A q \in Procs : pc'[q] \in RowStages =>
         pc[q] \in RowStages /\ job'[q] = job[q] /\ Report(q)' = Report(q)
    BY <1>2 DEF Report
<1>7. \A q \in Procs : RowHeld(q)'
    BY <1>1, <1>6 DEF ReportsInv, RowHeld
<1>8. GoneAreDeleted' /\ TimesTold'
    BY <1>1 DEF ReportsInv, GoneAreDeleted, TimesTold
<1>9. Attended'
    <2> SUFFICES ASSUME faults' = 0, NEW n \in 1..Len(runs), runs[n].status = "RUNNING"
                 PROVE  \E q \in Procs : pc'[q] \in RowStages /\ job'[q].run = n
        BY <1>1 DEF Attended
    <2>1. PICK q \in Procs : pc[q] \in RowStages /\ job[q].run = n
        BY DEF ReportsInv, Attended
    <2>2. q = p => ~Gone(p)
        BY <2>1 DEF Gone
    <2>3. pc'[q] \in RowStages
        BY <1>2, <2>1, <2>2
    <2> QED BY <1>6, <2>1, <2>3
<1>10. AllThere'
    BY <1>1, <1>2, <1>3 DEF ReportsInv, AllThere
<1>11. RowsCounted'
    <2> SUFFICES ASSUME faults' = 0, Steady', NEW r \in Reports \ deleted
                 PROVE  Cardinality(RunsOf(r)) = expected[r] + Cardinality(RanBy(r)')
        BY <1>1 DEF RowsCounted
    <2>1. \A q \in Procs : Ran(q, r)' <=> Ran(q, r)
        BY <1>2, <1>3
    <2>2. RanBy(r)' = RanBy(r)
        BY <2>1 DEF RanBy
    <2> QED BY <1>3, <2>2 DEF ReportsInv, RowsCounted
<1> QED BY <1>4, <1>5, <1>7, <1>8, <1>9, <1>10, <1>11 DEF ReportsInv, ReportsTypeOK

(* A sweep, a run by hand, or a deletion begins.                              *)
LEMMA ReportsBegin ==
    ASSUME ReportsInv, NEW p \in Procs,
           Sweep(p) \/ \E r \in Reports : RunNow(p, r) \/ RetireRead(p, r)
    PROVE  ReportsInv'
<1> DEFINE runJob(all) == [op |-> "run", left |-> all, all |-> all, run |-> 0]
<1>1. ASSUME NEW all \in SUBSET Reports, all # {}, all \cap deleted = {},
             Begin(p, runJob(all), "rep_find"), UNCHANGED reportVars
      PROVE  ReportsInv'
    <2>1. runJob(all) \in RunJobs /\ runJob(all) \in ReportJobs /\ "rep_find" \in ReportStages
        BY DEF RunJobs, ReportJobs, ReportStages
    <2>2. /\ HandlersTypeOK(ReportStages, ReportJobs)' /\ Lone'
          /\ pc[p] = "idle" /\ pc'[p] = "rep_find" /\ job'[p] = runJob(all) /\ OthersStay(p)
          /\ faults' = faults /\ (overlapped => overlapped')
        <3> HIDE DEF runJob
        <3> QED BY <1>1, <2>1, ReportsFacts, BeginStep
    <2>3. job'[p].left = all /\ job'[p].all = all
        BY <2>2
    <2>4. ReportJob(p)'
        BY <1>1, <2>1, <2>2, <2>3 DEF ReportJob
    <2>5. \A r : ~Ran(p, r) /\ ~Ran(p, r)'
        BY <2>2, <2>3 DEF Ran, RunStages, RowStages
    <2>6. pc[p] \notin RowStages /\ pc'[p] \notin RowStages
        BY <2>2 DEF RowStages
    <2> QED BY <1>1, <2>2, <2>3, <2>4, <2>5, <2>6, ReportMoves
<1>2. CASE Sweep(p)
    <2>1. DueReports \ deleted # {} /\ Begin(p, runJob(DueReports \ deleted), "rep_find") /\ UNCHANGED reportVars
        BY <1>2 DEF Sweep, RunJob
    <2>2. DueReports \ deleted \in SUBSET Reports
        BY ReportAssumptions DEF ReportAssumptions
    <2> HIDE DEF runJob
    <2> QED BY <1>1, <2>1, <2>2
<1>3. ASSUME NEW r \in Reports, RunNow(p, r) PROVE ReportsInv'
    <2>1. r \notin deleted /\ Begin(p, runJob({r}), "rep_find") /\ UNCHANGED reportVars
        BY <1>3 DEF RunNow, RunJob
    <2>2. {r} \in SUBSET Reports /\ {r} # {} /\ {r} \cap deleted = {}
        BY <2>1
    <2> HIDE DEF runJob
    <2> QED BY <1>1, <2>1, <2>2
<1>4. ASSUME NEW r \in Reports, RetireRead(p, r) PROVE ReportsInv'
    <2> DEFINE j == [op |-> "delete", report |-> r]
    <2>1. j \in RetireJobs /\ j \in ReportJobs /\ "rep_delete" \in ReportStages
        BY DEF RetireJobs, ReportJobs, ReportStages
    <2>2. Begin(p, j, "rep_delete") /\ UNCHANGED reportVars
        BY <1>4 DEF RetireRead
    <2> HIDE DEF j
    <2>3. /\ HandlersTypeOK(ReportStages, ReportJobs)' /\ Lone'
          /\ pc[p] = "idle" /\ pc'[p] = "rep_delete" /\ job'[p] = j /\ OthersStay(p)
          /\ faults' = faults /\ (overlapped => overlapped')
        BY <2>1, <2>2, ReportsFacts, BeginStep
    <2>4. pc'[p] \notin RunStages /\ pc[p] \notin RunStages /\ pc'[p] \notin RowStages
        BY <2>3 DEF RunStages, RowStages
    <2>5. ReportJob(p)'
        BY <2>1, <2>3, <2>4 DEF ReportJob
    <2>6. \A r2 : ~Ran(p, r2) /\ ~Ran(p, r2)'
        BY <2>4 DEF Ran
    <2>7. pc[p] \notin RowStages
        BY <2>4 DEF RunStages
    <2> QED BY <2>2, <2>3, <2>4, <2>5, <2>6, <2>7, ReportMoves
<1> QED BY <1>2, <1>3, <1>4

(* What a run is at is one of the reports it set out to run.                  *)
LEMMA ReportIsOne ==
    ASSUME ReportsInv, NEW p \in Procs, pc[p] \in RunStages
    PROVE  /\ job[p] \in RunJobs /\ job[p].left \subseteq job[p].all /\ job[p].all \subseteq Reports
           /\ Report(p) \in job[p].left
<1>1. /\ job[p] \in RunJobs /\ job[p].left # {} /\ job[p].left \subseteq job[p].all
    BY DEF ReportsInv, ReportJob
<1>2. job[p].left \in SUBSET Reports /\ job[p].all \in SUBSET Reports
    BY <1>1 DEF RunJobs
<1> QED BY <1>1, <1>2, FirstIsOne DEF Report

(* A request throws at a row that is gone, or at a report that is, or dies.   *)
LEMMA ReportEnds ==
    ASSUME ReportsInv, NEW p \in Procs, pc[p] # "idle", UNCHANGED reportVars,
           \/ Dies(p)
           \/ Finish(p) /\ pc[p] = "rep_log" /\ Report(p) \in deleted
           \/ Finish(p) /\ pc[p] \in RowStages /\ Gone(p)
    PROVE  ReportsInv'
<1>1. /\ HandlersTypeOK(ReportStages, ReportJobs)' /\ Lone' /\ pc'[p] = "idle" /\ OthersStay(p)
      /\ overlapped' = overlapped /\ faults' \in Nat /\ faults' >= faults
      /\ (Finish(p) => faults' = faults) /\ (Dies(p) => faults' > 0)
    BY ReportsFacts, FinishStep
<1>2. pc'[p] \notin RunStages /\ pc'[p] \notin RowStages /\ ReportJob(p)'
    BY <1>1 DEF RunStages, RowStages, ReportJob
<1>3. faults \in Nat
    BY ReportsFacts, HandlersAssumptions DEF HandlersTypeOK, HandlersAssumptions
<1>4. ASSUME faults' = 0, Steady PROVE FALSE
    <2>1. ~Dies(p)
        BY <1>1, <1>4
    <2>2. pc[p] \in RunStages
        BY <2>1 DEF RunStages
    <2>3. Report(p) \in deleted
        BY <2>1 DEF ReportsInv, RowHeld, GoneAreDeleted, Gone
    <2> QED BY <1>4, <2>2, <2>3, ReportIsOne DEF ReportsInv, AllThere
<1>5. faults' = 0 => faults = 0
    BY <1>1, <1>3
<1>6. pc[p] \in RowStages => faults' # 0 \/ Gone(p)
    BY <1>1 DEF RowStages
<1> QED BY <1>1, <1>2, <1>4, <1>5, <1>6, ReportMoves

(* A report is found, or its data read.                                       *)
LEMMA ReportGoesOn ==
    ASSUME ReportsInv, NEW p \in Procs, NEW stage \in RunStages, GoTo(p, stage), UNCHANGED reportVars,
           \/ pc[p] = "rep_find" /\ stage = "rep_log"
           \/ pc[p] \in RowStages /\ stage \in RowStages
    PROVE  ReportsInv'
<1>1. pc[p] # "idle" /\ stage \in ReportStages /\ pc[p] \in RunStages
    BY DEF RunStages, RowStages, ReportStages
<1>2. /\ HandlersTypeOK(ReportStages, ReportJobs)' /\ Lone'
      /\ pc'[p] = stage /\ job' = job /\ OthersStay(p)
      /\ faults' = faults /\ overlapped' = overlapped
    BY <1>1, ReportsFacts, GoToStep
<1>3. /\ pc'[p] \in RowStages <=> pc[p] \in RowStages
      /\ pc'[p] # "rep_delete"
    BY <1>2 DEF RowStages
<1>4. ReportJob(p)'
    BY <1>1, <1>2, <1>3 DEF ReportsInv, ReportJob
<1>5. Report(p)' = Report(p)
    BY <1>2 DEF Report
<1>6. \A r : Ran(p, r)' <=> Ran(p, r)
    BY <1>1, <1>2, <1>3, <1>5 DEF Ran
<1>7. Steady => job'[p].all \cap deleted = {}
    BY <1>1, <1>2 DEF ReportsInv, AllThere
<1> QED BY <1>2, <1>3, <1>4, <1>6, <1>7, ReportMoves

(* A row is logged before the work starts.                                    *)
LEMMA LogRunStep ==
    ASSUME ReportsInv, NEW p \in Procs, LogRun(p)
    PROVE  ReportsInv'
<1>1. CASE Report(p) \in deleted
    <2>1. pc[p] = "rep_log" /\ pc[p] # "idle" /\ Finish(p) /\ UNCHANGED reportVars
        BY <1>1 DEF LogRun, ThrowRow
    <2> QED BY <1>1, <2>1, ReportEnds
<1>2. CASE Report(p) \notin deleted
    <2> DEFINE newRow == [report |-> Report(p), status |-> "RUNNING"]
               newJob == [job[p] EXCEPT !.run = Len(runs) + 1]
               N == Len(runs) + 1
    <2>1. /\ pc[p] = "rep_log" /\ runs' = Append(runs, newRow) /\ Carry(p, newJob, "rep_work")
          /\ deleted' = deleted /\ ranLast' = ranLast /\ expected' = expected
        BY <1>2 DEF LogRun
    <2>2. /\ pc[p] # "idle" /\ pc[p] \in RunStages /\ pc[p] \notin RowStages
          /\ "rep_work" \in ReportStages /\ "rep_work" \in RunStages /\ "rep_work" \in RowStages
        BY <2>1 DEF RunStages, RowStages, ReportStages
    <2>3. /\ job[p] \in RunJobs /\ job[p].left \subseteq job[p].all /\ job[p].all \subseteq Reports
          /\ Report(p) \in job[p].left /\ Report(p) \in Reports
        BY <2>2, ReportIsOne
    <2>4. Len(runs) \in Nat /\ N \in Nat /\ DOMAIN runs = 1..Len(runs)
        BY ReportsFacts
    <2>5. /\ newJob \in RunJobs /\ newJob \in ReportJobs /\ newJob.run = N
          /\ newJob.left = job[p].left /\ newJob.all = job[p].all
        BY <2>3, <2>4 DEF RunJobs, ReportJobs
    <2>6. newRow \in [report : Reports, status : {"RUNNING", "FAILED", "SUCCEEDED", "gone"}]
        BY <2>3
    <2>7. /\ newRow.report = Report(p) /\ newRow.status = "RUNNING"
          /\ newRow.status # "gone" /\ newRow.status # "SUCCEEDED"
        OBVIOUS
    <2> HIDE DEF newRow, newJob
    <2>8. /\ HandlersTypeOK(ReportStages, ReportJobs)' /\ Lone'
          /\ pc'[p] = "rep_work" /\ job'[p] = newJob /\ OthersStay(p)
          /\ faults' = faults /\ overlapped' = overlapped
        BY <2>1, <2>2, <2>5, ReportsFacts, CarryStep
    <2>9. /\ runs' \in Seq([report : Reports, status : {"RUNNING", "FAILED", "SUCCEEDED", "gone"}])
          /\ Len(runs') = N /\ DOMAIN runs' = 1..N
          /\ \A n \in 1..Len(runs) : runs'[n] = runs[n]
          /\ runs'[N] = newRow
        BY <2>1, <2>4, <2>6, ReportsFacts, Grown DEF ReportTablesOK
    <2>10. ReportTablesOK'
        BY <2>1, <2>9, ReportsFacts DEF ReportTablesOK
    <2>11. /\ \A q \in Procs : q # p => pc'[q] = pc[q] /\ job'[q] = job[q] /\ Report(q)' = Report(q)
           /\ \A q \in Procs : q # p => \A r : Ran(q, r)' <=> Ran(q, r)
           /\ Report(p)' = Report(p)
        BY <2>5, <2>8, ReportOthers DEF OthersStay
    <2>12. \A q \in Procs : ReportJob(q)'
        <3>1. ReportJob(p)'
            BY <2>3, <2>5, <2>8 DEF ReportJob
        <3> QED BY <2>11, <3>1 DEF ReportsInv, ReportJob
    <2>13. \A q \in Procs : q # p /\ pc[q] \in RowStages => job[q].run \in 1..Len(runs) /\ job[q].run # N
        BY <2>4 DEF ReportsInv, RowHeld
    <2>14. 1..N = 1..Len(runs) \cup {N} /\ N \in 1..N /\ N \notin 1..Len(runs)
        BY <2>4
    <2>15. \A q \in Procs : RowHeld(q)'
        <3>1. RowHeld(p)'
            <4>1. job'[p].run = N
                BY <2>5, <2>8
            <4>2. \A q \in Procs : pc'[q] \in RowStages /\ job'[q].run = N => q = p
                BY <2>11, <2>13
            <4> QED BY <2>7, <2>9, <2>11, <2>14, <4>1, <4>2 DEF RowHeld
        <3>2. ASSUME NEW q \in Procs, q # p PROVE RowHeld(q)'
            <4>1. SUFFICES ASSUME pc[q] \in RowStages PROVE RowHeld(q)'
                BY <2>11, <3>2 DEF RowHeld
            <4>2. /\ job'[q].run = job[q].run /\ job[q].run \in 1..Len(runs) /\ job[q].run \in 1..N
                  /\ job'[p].run = N /\ job[q].run # N
                BY <2>5, <2>8, <2>11, <2>13, <2>14, <3>2, <4>1
            <4>3. \A o \in Procs : pc'[o] \in RowStages /\ job'[o].run = job[q].run => o = q
                BY <2>11, <3>2, <4>1, <4>2 DEF ReportsInv, RowHeld
            <4> QED BY <2>9, <2>11, <3>2, <4>1, <4>2, <4>3 DEF ReportsInv, RowHeld
        <3> QED BY <3>1, <3>2
    <2>16. GoneAreDeleted'
        BY <2>1, <2>7, <2>9, <2>14 DEF ReportsInv, GoneAreDeleted
    <2>17. /\ \A r : r = Report(p) => RunsOf(r)' = RunsOf(r) \cup {N}
           /\ \A r : r # Report(p) => RunsOf(r)' = RunsOf(r)
           /\ \A r : N \notin RunsOf(r)
        <3>1. \A r : RunsOf(r) = {n \in 1..Len(runs) : runs[n].report = r}
            BY ReportsFacts
        <3>2. \A r : RunsOf(r)' = {n \in 1..N : runs'[n].report = r}
            BY <2>9 DEF RunsOf, Logged
        <3>3. /\ \A n \in 1..Len(runs) : n \in 1..N /\ runs'[n].report = runs[n].report
              /\ runs'[N].report = Report(p)
            BY <2>7, <2>9, <2>14
        <3>4. ASSUME NEW r, NEW n
              PROVE  n \in RunsOf(r)' <=> n \in RunsOf(r) \/ (n = N /\ r = Report(p))
            BY <2>14, <3>1, <3>2, <3>3
        <3>5. \A r : N \notin RunsOf(r)
            BY <2>14, <3>1
        <3> QED BY <3>4, <3>5
    <2>18. TimesTold'
        <3> SUFFICES ASSUME NEW r \in Reports \ deleted
                     PROVE  (\E n \in RunsOf(r)' : runs'[n].status = "SUCCEEDED")
                              <=> \E n \in RunsOf(r) : runs[n].status = "SUCCEEDED"
            BY <2>1 DEF ReportsInv, TimesTold
        <3>1. RunsOf(r) \subseteq 1..Len(runs)
            BY ReportsFacts
        <3> QED BY <2>7, <2>9, <2>17, <3>1
    <2>19. Attended'
        <3> SUFFICES ASSUME faults' = 0, NEW n \in 1..N, runs'[n].status = "RUNNING"
                     PROVE  \E q \in Procs : pc'[q] \in RowStages /\ job'[q].run = n
            BY <2>9 DEF Attended
        <3>1. CASE n = N
            BY <2>2, <2>5, <2>8, <3>1
        <3>2. CASE n \in 1..Len(runs)
            <4>1. PICK q \in Procs : pc[q] \in RowStages /\ job[q].run = n
                BY <2>8, <2>9, <3>2 DEF ReportsInv, Attended
            <4> QED BY <2>2, <2>11, <4>1
        <3> QED BY <2>14, <3>1, <3>2
    <2>20. AllThere'
        BY <2>1, <2>2, <2>5, <2>8, <2>11 DEF ReportsInv, AllThere, Steady
    <2>21. RowsCounted'
        <3> SUFFICES ASSUME faults' = 0, Steady', NEW r \in Reports \ deleted
                     PROVE  Cardinality(RunsOf(r)') = expected[r] + Cardinality(RanBy(r)')
            BY <2>1 DEF RowsCounted
        <3>1. Cardinality(RunsOf(r)) = expected[r] + Cardinality(RanBy(r))
            BY <2>1, <2>8 DEF ReportsInv, RowsCounted, Steady
        <3>2. RanBy(r) \in SUBSET Procs /\ RanBy(r)' \in SUBSET Procs
            BY DEF RanBy
        <3>3. \A q \in Procs : q # p => (q \in RanBy(r) <=> q \in RanBy(r)')
            BY <2>11 DEF RanBy
        <3>4. /\ p \in RanBy(r) <=> r \in job[p].all /\ r \notin job[p].left
              /\ p \in RanBy(r)' <=> r \in job[p].all /\ (r \notin job[p].left \/ r = Report(p))
            BY <2>2, <2>5, <2>8, <2>11 DEF RanBy, Ran
        <3>5. expected[r] \in Nat
            BY ReportsFacts DEF ReportTablesOK
        <3>6. CASE r = Report(p)
            <4>1. p \notin RanBy(r) /\ p \in RanBy(r)'
                BY <2>3, <3>4, <3>6
            <4>2. Cardinality(RanBy(r)') = Cardinality(RanBy(r)) + 1 /\ Cardinality(RanBy(r)) \in Nat
                BY <3>2, <3>3, <4>1, GroupStep
            <4>3. IsFiniteSet(RunsOf(r))
                <5>1. RunsOf(r) \subseteq 1..Len(runs)
                    BY ReportsFacts
                <5>2. IsFiniteSet(1..Len(runs))
                    BY <2>4, FS_Interval
                <5> QED BY <5>1, <5>2, FS_Subset
            <4>4. Cardinality(RunsOf(r)') = Cardinality(RunsOf(r)) + 1
                BY <2>17, <3>6, <4>3, FS_AddElement
            <4> QED BY <3>1, <3>5, <4>2, <4>4
        <3>7. CASE r # Report(p)
            <4>1. RanBy(r)' = RanBy(r)
                BY <3>2, <3>3, <3>4, <3>7
            <4> QED BY <2>17, <3>1, <3>7, <4>1
        <3> QED BY <3>6, <3>7
    <2> QED BY <2>8, <2>10, <2>12, <2>15, <2>16, <2>18, <2>19, <2>20, <2>21 DEF ReportsInv, ReportsTypeOK
<1> QED BY <1>1, <1>2

(* A run is done with a report: with a row that it found RUNNING and that     *)
(* says how it went, or without one because the report is gone. It ends, or   *)
(* goes on to the next report.                                                *)
LEMMA NextReportStep ==
    ASSUME ReportsInv, NEW p \in Procs, NextReport(p), deleted' = deleted,
           ReportTablesOK', TimesTold', Len(runs') = Len(runs),
           \A n \in 1..Len(runs) : runs'[n].report = runs[n].report,
           \/ /\ pc[p] = "rep_find" /\ Report(p) \in deleted
              /\ runs' = runs
           \/ /\ pc[p] \in RowStages
              /\ runs'[job[p].run].status \in {"FAILED", "SUCCEEDED"}
              /\ \A n \in 1..Len(runs) : n # job[p].run => runs'[n] = runs[n]
    PROVE  ReportsInv'
<1> DEFINE nextJob == [job[p] EXCEPT !.left = @ \ {Report(p)}, !.run = 0]
           last == job[p].left = {Report(p)}
<1>1. pc[p] # "idle" /\ pc[p] \in RunStages /\ (pc[p] = "rep_find" => pc[p] \notin RowStages)
    BY DEF RunStages, RowStages
<1>2. /\ job[p] \in RunJobs /\ job[p].left \subseteq job[p].all /\ job[p].all \subseteq Reports
      /\ Report(p) \in job[p].left /\ Report(p) \in Reports
    BY <1>1, ReportIsOne
<1>3. /\ nextJob \in RunJobs /\ nextJob \in ReportJobs
      /\ nextJob.left = job[p].left \ {Report(p)} /\ nextJob.all = job[p].all
    BY <1>2 DEF RunJobs, ReportJobs
<1>4. ASSUME last
      PROVE  /\ HandlersTypeOK(ReportStages, ReportJobs)' /\ Lone' /\ OthersStay(p)
             /\ faults' = faults /\ overlapped' = overlapped /\ pc'[p] = "idle"
             /\ \A r \in Reports :
                  expected'[r] = expected[r] + (IF r \in job[p].all \ deleted THEN 1 ELSE 0)
    <2>1. /\ Finish(p)
          /\ expected' = [r \in Reports |-> expected[r] + (IF r \in job[p].all \ deleted THEN 1 ELSE 0)]
        BY <1>4 DEF NextReport
    <2>2. /\ HandlersTypeOK(ReportStages, ReportJobs)' /\ Lone' /\ pc'[p] = "idle" /\ OthersStay(p)
          /\ overlapped' = overlapped /\ faults' = faults
        BY <1>1, <2>1, ReportsFacts, FinishStep
    <2> QED BY <2>1, <2>2
<1>5. ASSUME ~last
      PROVE  /\ HandlersTypeOK(ReportStages, ReportJobs)' /\ Lone' /\ OthersStay(p)
             /\ faults' = faults /\ overlapped' = overlapped
             /\ pc'[p] = "rep_find" /\ job'[p] = nextJob /\ expected' = expected
    <2>1. Carry(p, nextJob, "rep_find") /\ expected' = expected
        BY <1>5 DEF NextReport
    <2>2. "rep_find" \in ReportStages
        BY DEF ReportStages
    <2> HIDE DEF nextJob
    <2>3. /\ HandlersTypeOK(ReportStages, ReportJobs)' /\ Lone'
          /\ pc'[p] = "rep_find" /\ job'[p] = nextJob /\ OthersStay(p)
          /\ faults' = faults /\ overlapped' = overlapped
        BY <1>1, <1>3, <2>1, <2>2, ReportsFacts, CarryStep
    <2> QED BY <2>1, <2>3
<1> HIDE DEF nextJob, last
<1>6. /\ HandlersTypeOK(ReportStages, ReportJobs)' /\ Lone' /\ OthersStay(p)
      /\ faults' = faults /\ overlapped' = overlapped
      /\ last => /\ pc'[p] = "idle"
                 /\ \A r \in Reports :
                      expected'[r] = expected[r] + (IF r \in job[p].all \ deleted THEN 1 ELSE 0)
      /\ ~last => pc'[p] = "rep_find" /\ job'[p] = nextJob /\ expected' = expected
    BY <1>4, <1>5
<1>7. /\ \A q \in Procs : q # p => pc'[q] = pc[q] /\ job'[q] = job[q] /\ Report(q)' = Report(q)
      /\ \A q \in Procs : q # p => \A r : Ran(q, r)' <=> Ran(q, r)
    BY <1>6, ReportOthers DEF OthersStay
<1>8. pc'[p] \notin RowStages /\ (last => pc'[p] \notin RunStages) /\ pc'[p] # "rep_delete"
    BY <1>6 DEF RowStages, RunStages
<1>9. Len(runs) \in Nat /\ DOMAIN runs = 1..Len(runs) /\ DOMAIN runs' = 1..Len(runs)
    BY ReportsFacts, LenProperties DEF ReportTablesOK
<1>10. \A q \in Procs : ReportJob(q)'
    <2>1. ReportJob(p)'
        <3>1. ~last => nextJob.left # {} /\ nextJob.left \subseteq nextJob.all
            BY <1>2, <1>3 DEF last
        <3> QED BY <1>3, <1>6, <1>8, <3>1 DEF ReportJob
    <2> QED BY <1>7, <2>1 DEF ReportsInv, ReportJob
<1>11. \A q \in Procs : q # p /\ pc[q] \in RowStages =>
          job[q].run \in 1..Len(runs) /\ runs'[job[q].run] = runs[job[q].run]
    BY DEF ReportsInv, RowHeld
<1>12. \A q \in Procs : RowHeld(q)'
    <2> SUFFICES ASSUME NEW q \in Procs, pc'[q] \in RowStages PROVE RowHeld(q)'
        BY DEF RowHeld
    <2>1. q # p /\ pc[q] \in RowStages /\ job'[q] = job[q] /\ Report(q)' = Report(q)
        BY <1>7, <1>8
    <2>2. \A o \in Procs : pc'[o] \in RowStages /\ job'[o].run = job[q].run => o = q
        BY <1>7, <1>8, <2>1 DEF ReportsInv, RowHeld
    <2> QED BY <1>9, <1>11, <2>1, <2>2 DEF ReportsInv, RowHeld
<1>13. \A n \in 1..Len(runs) : runs'[n].status \in {"FAILED", "SUCCEEDED"} \/ runs'[n] = runs[n]
    OBVIOUS
<1>14. GoneAreDeleted'
    BY <1>9, <1>13 DEF ReportsInv, GoneAreDeleted
<1>15. Attended'
    <2> SUFFICES ASSUME faults' = 0, NEW n \in 1..Len(runs), runs'[n].status = "RUNNING"
                 PROVE  \E q \in Procs : pc'[q] \in RowStages /\ job'[q].run = n
        BY DEF Attended
    <2>1. runs'[n] = runs[n] /\ runs[n].status = "RUNNING"
        BY <1>13
    <2>2. PICK q \in Procs : pc[q] \in RowStages /\ job[q].run = n
        BY <1>6, <2>1 DEF ReportsInv, Attended
    <2>3. q # p
        BY <1>1, <2>2
    <2> QED BY <1>7, <2>2, <2>3
<1>16. AllThere'
    BY <1>1, <1>3, <1>6, <1>7, <1>8 DEF ReportsInv, AllThere, Steady
<1>17. RowsCounted'
    <2> SUFFICES ASSUME faults' = 0, Steady', NEW r \in Reports \ deleted
                 PROVE  Cardinality(RunsOf(r)') = expected'[r] + Cardinality(RanBy(r)')
        BY DEF RowsCounted
    <2>1. faults = 0 /\ Steady
        BY <1>6 DEF Steady
    <2>2. Cardinality(RunsOf(r)) = expected[r] + Cardinality(RanBy(r))
        BY <2>1 DEF ReportsInv, RowsCounted
    <2>3. RunsOf(r)' = RunsOf(r)
        BY <1>9 DEF RunsOf, Logged
    <2>4. RanBy(r) \in SUBSET Procs /\ RanBy(r)' \in SUBSET Procs
        BY DEF RanBy
    <2>5. \A q \in Procs : q # p => (q \in RanBy(r) <=> q \in RanBy(r)')
        BY <1>7 DEF RanBy
    <2>6. pc[p] \in RowStages
        BY <1>1, <1>2, <2>1 DEF ReportsInv, AllThere
    <2>7. p \in RanBy(r) <=> r \in job[p].all /\ (r \notin job[p].left \/ r = Report(p))
        BY <1>1, <2>6 DEF RanBy, Ran
    <2>8. expected[r] \in Nat
        BY ReportsFacts DEF ReportTablesOK
    <2>9. CASE last
        <3>1. p \in RanBy(r) <=> r \in job[p].all
            BY <2>7, <2>9 DEF last
        <3>2. p \notin RanBy(r)'
            BY <1>8, <2>9 DEF RanBy, Ran
        <3>3. /\ r \in job[p].all => expected'[r] = expected[r] + 1
              /\ r \notin job[p].all => expected'[r] = expected[r] + 0
            BY <1>6, <2>9
        <3>4. /\ Cardinality(RanBy(r)) \in Nat /\ Cardinality(RanBy(r)') \in Nat
              /\ p \in RanBy(r) => Cardinality(RanBy(r)) = Cardinality(RanBy(r)') + 1
              /\ p \notin RanBy(r) => Cardinality(RanBy(r)) = Cardinality(RanBy(r)')
            BY <2>4, <2>5, <3>2, GroupStep
        <3> QED BY <2>2, <2>3, <2>8, <3>1, <3>3, <3>4
    <2>10. CASE ~last
        <3>1. pc'[p] \in RunStages /\ pc'[p] \notin RowStages
            BY <1>6, <2>10 DEF RunStages, RowStages
        <3>2. p \in RanBy(r)' <=> r \in job[p].all /\ r \notin job[p].left \ {Report(p)}
            <4>1. job'[p].left = job[p].left \ {Report(p)} /\ job'[p].all = job[p].all
                BY <1>3, <1>6, <2>10
            <4> QED BY <3>1, <4>1 DEF RanBy, Ran
        <3>3. p \in RanBy(r)' <=> p \in RanBy(r)
            BY <2>7, <3>2
        <3>4. Cardinality(RanBy(r)') = Cardinality(RanBy(r))
            BY <2>4, <2>5, <3>3, GroupStep, SMTT(30)
        <3> QED BY <1>6, <2>2, <2>3, <2>10, <3>4
    <2> QED BY <2>9, <2>10
<1> QED BY <1>6, <1>10, <1>12, <1>14, <1>15, <1>16, <1>17 DEF ReportsInv, ReportsTypeOK

(* How a run went is noted in its row: everything the row was part of.        *)
LEMMA RowNoted ==
    ASSUME ReportsInv, NEW p \in Procs, pc[p] \in RowStages, ~Gone(p),
           NEW s \in {"FAILED", "SUCCEEDED"}, runs' = [runs EXCEPT ![job[p].run].status = s]
    PROVE  /\ runs' \in Seq([report : Reports, status : {"RUNNING", "FAILED", "SUCCEEDED", "gone"}])
           /\ Len(runs') = Len(runs)
           /\ \A n \in 1..Len(runs) : runs'[n].report = runs[n].report
           /\ \A n \in 1..Len(runs) : n # job[p].run => runs'[n] = runs[n]
           /\ job[p].run \in 1..Len(runs) /\ runs'[job[p].run].status = s
           /\ runs[job[p].run].status = "RUNNING" /\ runs[job[p].run].report = Report(p)
           /\ \A r : RunsOf(r)' = RunsOf(r)
<1> DEFINE Rows == [report : Reports, status : {"RUNNING", "FAILED", "SUCCEEDED", "gone"}]
           m == job[p].run
<1>1. /\ m \in 1..Len(runs) /\ runs[m].status = "RUNNING" /\ runs[m].report = Report(p)
    BY DEF ReportsInv, RowHeld, Gone
<1>2. runs \in Seq(Rows) /\ Len(runs) \in Nat /\ DOMAIN runs = 1..Len(runs)
    BY ReportsFacts DEF ReportTablesOK
<1>3. runs \in [1..Len(runs) -> Rows]
    BY <1>2, LenProperties, ElementOfSeq
<1>4. runs[m] \in Rows
    BY <1>1, <1>3
<1>5. [runs[m] EXCEPT !.status = s] \in Rows /\ [runs[m] EXCEPT !.status = s].status = s
      /\ [runs[m] EXCEPT !.status = s].report = runs[m].report
    BY <1>4
<1> HIDE DEF Rows, m
<1>6. runs' = [runs EXCEPT ![m] = [runs[m] EXCEPT !.status = s]]
    BY DEF m
<1>7. /\ runs' \in [1..Len(runs) -> Rows]
      /\ runs'[m] = [runs[m] EXCEPT !.status = s]
      /\ \A n \in 1..Len(runs) : n # m => runs'[n] = runs[n]
    BY <1>1, <1>3, <1>5, <1>6
<1>8. runs' \in Seq(Rows) /\ Len(runs') = Len(runs)
    BY <1>2, <1>7, LenProperties, SeqDef
<1>9. \A n \in 1..Len(runs) : runs'[n].report = runs[n].report
    BY <1>5, <1>7
<1>10. \A r : RunsOf(r)' = RunsOf(r)
    BY <1>2, <1>7, <1>9 DEF RunsOf, Logged
<1> QED BY <1>1, <1>5, <1>7, <1>8, <1>9, <1>10 DEF Rows, m

LEMMA NextReportType ==
    ASSUME ReportsInv, NEW p \in Procs, NextReport(p)
    PROVE  expected' \in [Reports -> Nat]
<1>1. expected \in [Reports -> Nat]
    BY ReportsFacts DEF ReportTablesOK
<1>2. CASE job[p].left = {Report(p)}
    <2>1. expected' = [r \in Reports |-> expected[r] + (IF r \in job[p].all \ deleted THEN 1 ELSE 0)]
        BY <1>2 DEF NextReport
    <2> QED BY <1>1, <2>1
<1>3. CASE job[p].left # {Report(p)}
    BY <1>1, <1>3 DEF NextReport
<1> QED BY <1>2, <1>3

(* A failure is noted, and costs the other reports nothing.                   *)
LEMMA FailRunStep ==
    ASSUME ReportsInv, NEW p \in Procs, FailRun(p)
    PROVE  ReportsInv'
<1>1. pc[p] = "rep_fail" /\ pc[p] # "idle" /\ pc[p] \in RowStages
    BY DEF FailRun, RowStages
<1>2. CASE Gone(p)
    <2>1. Finish(p) /\ UNCHANGED reportVars
        BY <1>2 DEF FailRun, ThrowRow
    <2> QED BY <1>1, <1>2, <2>1, ReportEnds
<1>3. CASE ~Gone(p)
    <2>1. /\ runs' = [runs EXCEPT ![job[p].run].status = "FAILED"] /\ NextReport(p)
          /\ deleted' = deleted /\ ranLast' = ranLast
        BY <1>3, SMTT(30) DEF FailRun
    <2>2. /\ runs' \in Seq([report : Reports, status : {"RUNNING", "FAILED", "SUCCEEDED", "gone"}])
          /\ Len(runs') = Len(runs)
          /\ \A n \in 1..Len(runs) : runs'[n].report = runs[n].report
          /\ \A n \in 1..Len(runs) : n # job[p].run => runs'[n] = runs[n]
          /\ runs'[job[p].run].status = "FAILED" /\ runs[job[p].run].status = "RUNNING"
          /\ \A r : RunsOf(r)' = RunsOf(r)
        BY <1>1, <1>3, <2>1, RowNoted
    <2>3. \A n \in 1..Len(runs) : runs'[n].status = "SUCCEEDED" <=> runs[n].status = "SUCCEEDED"
        BY <2>2
    <2>4. TimesTold'
        <3>1. \A r : RunsOf(r) \subseteq 1..Len(runs)
            BY ReportsFacts
        <3> QED BY <2>1, <2>2, <2>3, <3>1 DEF ReportsInv, TimesTold
    <2>5. ReportTablesOK'
        <3>1. expected' \in [Reports -> Nat]
            BY <2>1, NextReportType
        <3> QED BY <2>1, <2>2, <3>1, ReportsFacts DEF ReportTablesOK
    <2> QED BY <1>1, <2>1, <2>2, <2>4, <2>5, NextReportStep
<1> QED BY <1>2, <1>3

(* A success is noted with the time of the report's last run.                 *)
LEMMA SucceedStep ==
    ASSUME ReportsInv, NEW p \in Procs, Succeed(p)
    PROVE  ReportsInv'
<1>1. pc[p] = "rep_done" /\ pc[p] # "idle" /\ pc[p] \in RowStages
    BY DEF Succeed, RowStages
<1>2. CASE Gone(p)
    <2>1. Finish(p) /\ UNCHANGED reportVars
        BY <1>2 DEF Succeed, ThrowRow
    <2> QED BY <1>1, <1>2, <2>1, ReportEnds
<1>3. CASE ~Gone(p)
    <2>1. /\ runs' = [runs EXCEPT ![job[p].run].status = "SUCCEEDED"] /\ NextReport(p)
          /\ deleted' = deleted /\ ranLast' = ranLast \cup {Report(p)}
        BY <1>3, SMTT(30) DEF Succeed
    <2>2. /\ runs' \in Seq([report : Reports, status : {"RUNNING", "FAILED", "SUCCEEDED", "gone"}])
          /\ Len(runs') = Len(runs)
          /\ \A n \in 1..Len(runs) : runs'[n].report = runs[n].report
          /\ \A n \in 1..Len(runs) : n # job[p].run => runs'[n] = runs[n]
          /\ job[p].run \in 1..Len(runs) /\ runs[job[p].run].report = Report(p)
          /\ runs'[job[p].run].status = "SUCCEEDED" /\ runs[job[p].run].status = "RUNNING"
          /\ \A r : RunsOf(r)' = RunsOf(r)
        BY <1>1, <1>3, <2>1, RowNoted
    <2>3. \A n \in 1..Len(runs) :
             runs'[n].status = "SUCCEEDED" <=> n = job[p].run \/ runs[n].status = "SUCCEEDED"
        BY <2>2
    <2>4. TimesTold'
        <3> SUFFICES ASSUME NEW r \in Reports \ deleted
                     PROVE  r \in ranLast' <=> \E n \in RunsOf(r) : runs'[n].status = "SUCCEEDED"
            BY <2>1, <2>2 DEF TimesTold
        <3>1. RunsOf(r) = {n \in 1..Len(runs) : runs[n].report = r}
            BY ReportsFacts
        <3>2. r \in ranLast <=> \E n \in RunsOf(r) : runs[n].status = "SUCCEEDED"
            BY DEF ReportsInv, TimesTold
        <3>3. job[p].run \in RunsOf(r) <=> r = Report(p)
            BY <2>2, <3>1
        <3> QED BY <2>1, <2>3, <3>1, <3>2, <3>3
    <2>5. Report(p) \in Reports
        <3>1. pc[p] \in RunStages
            BY <1>1, ReportsFacts
        <3> QED BY <3>1, ReportIsOne
    <2>6. ReportTablesOK'
        <3>1. expected' \in [Reports -> Nat]
            BY <2>1, NextReportType
        <3> QED BY <2>1, <2>2, <2>5, <3>1, ReportsFacts DEF ReportTablesOK
    <2> QED BY <1>1, <2>1, <2>2, <2>4, <2>6, NextReportStep
<1> QED BY <1>2, <1>3

(* A report that was deleted meanwhile is passed over.                        *)
LEMMA FindReportStep ==
    ASSUME ReportsInv, NEW p \in Procs, FindReport(p)
    PROVE  ReportsInv'
<1>1. pc[p] = "rep_find" /\ deleted' = deleted /\ ranLast' = ranLast /\ runs' = runs
    BY DEF FindReport
<1>2. CASE Report(p) \in deleted
    <2>1. NextReport(p)
        BY <1>2 DEF FindReport
    <2>2. expected' \in [Reports -> Nat]
        BY <2>1, NextReportType
    <2>3. ReportTablesOK'
        BY <1>1, <2>2, ReportsFacts DEF ReportTablesOK
    <2>4. TimesTold'
        BY <1>1 DEF ReportsInv, TimesTold, RunsOf, Logged
    <2> QED BY <1>1, <1>2, <2>1, <2>3, <2>4, NextReportStep
<1>3. CASE Report(p) \notin deleted
    <2>1. GoTo(p, "rep_log") /\ UNCHANGED reportVars
        BY <1>1, <1>3 DEF FindReport, reportVars
    <2>2. "rep_log" \in RunStages
        BY DEF RunStages
    <2> QED BY <1>1, <2>1, <2>2, ReportGoesOn
<1> QED BY <1>2, <1>3

(* A report is deleted with its runs, whoever is at work on them.             *)
LEMMA RetireWriteStep ==
    ASSUME ReportsInv, NEW p \in Procs, RetireWrite(p)
    PROVE  ReportsInv'
<1> DEFINE r0 == job[p].report
           Rows == [report : Reports, status : {"RUNNING", "FAILED", "SUCCEEDED", "gone"}]
<1>1. /\ pc[p] = "rep_delete" /\ Finish(p) /\ deleted' = deleted \cup {r0}
      /\ ranLast' = ranLast /\ expected' = expected
      /\ runs' = [n \in 1..Len(runs) |->
                    IF n \in RunsOf(r0) THEN [runs[n] EXCEPT !.status = "gone"] ELSE runs[n]]
    BY ReportsFacts DEF RetireWrite, Logged
<1>2. pc[p] # "idle" /\ pc[p] \notin RunStages /\ pc[p] \notin RowStages
    BY <1>1 DEF RunStages, RowStages
<1>3. job[p] \in RetireJobs /\ r0 \in Reports
    <2>1. job[p] \in RetireJobs
        BY <1>1 DEF ReportsInv, ReportJob
    <2> QED BY <2>1 DEF RetireJobs
<1>4. /\ HandlersTypeOK(ReportStages, ReportJobs)' /\ Lone' /\ pc'[p] = "idle" /\ OthersStay(p)
      /\ overlapped' = overlapped /\ faults' = faults
    BY <1>1, <1>2, ReportsFacts, FinishStep
<1>5. /\ \A q \in Procs : q # p => pc'[q] = pc[q] /\ job'[q] = job[q] /\ Report(q)' = Report(q)
      /\ \A q \in Procs : q # p => \A r : Ran(q, r)' <=> Ran(q, r)
    BY <1>4, ReportOthers DEF OthersStay
<1>6. pc'[p] \notin RunStages /\ pc'[p] \notin RowStages /\ pc'[p] # "rep_delete"
    BY <1>4 DEF RunStages, RowStages
<1>7. runs \in Seq(Rows) /\ Len(runs) \in Nat /\ runs \in [1..Len(runs) -> Rows]
    BY ReportsFacts, LenProperties, ElementOfSeq DEF ReportTablesOK
<1>8. /\ \A n : n \in RunsOf(r0) <=> n \in 1..Len(runs) /\ runs[n].report = r0
    BY ReportsFacts
<1>9. \A n \in 1..Len(runs) : /\ runs'[n] \in Rows /\ runs'[n].report = runs[n].report
                              /\ runs[n].report = r0 => runs'[n].status = "gone"
                              /\ runs[n].report # r0 => runs'[n] = runs[n]
    <2> SUFFICES ASSUME NEW n \in 1..Len(runs)
                 PROVE  /\ runs'[n] \in Rows /\ runs'[n].report = runs[n].report
                        /\ runs[n].report = r0 => runs'[n].status = "gone"
                        /\ runs[n].report # r0 => runs'[n] = runs[n]
        OBVIOUS
    <2>1. runs[n] \in Rows
        BY <1>7
    <2>2. runs'[n] = IF runs[n].report = r0 THEN [runs[n] EXCEPT !.status = "gone"] ELSE runs[n]
        BY <1>1, <1>8
    <2> QED BY <2>1, <2>2
<1>10. runs' \in Seq(Rows) /\ Len(runs') = Len(runs) /\ DOMAIN runs' = 1..Len(runs)
    <2>1. runs' \in [1..Len(runs) -> Rows]
        <3> HIDE DEF Rows, r0
        <3> QED BY <1>1, <1>9
    <2> HIDE DEF Rows, r0
    <2> QED BY <1>7, <2>1, LenProperties, SeqDef
<1> HIDE DEF Rows, r0
<1>11. ReportTablesOK'
    BY <1>1, <1>3, <1>10, ReportsFacts DEF ReportTablesOK, Rows
<1>12. \A r : RunsOf(r)' = RunsOf(r)
    <2>1. \A r : RunsOf(r) = {n \in 1..Len(runs) : runs[n].report = r}
        BY ReportsFacts
    <2>2. \A r : RunsOf(r)' = {n \in 1..Len(runs) : runs'[n].report = r}
        BY <1>10 DEF RunsOf, Logged
    <2> QED BY <1>9, <2>1, <2>2
<1>13. \A q \in Procs : ReportJob(q)'
    BY <1>5, <1>6 DEF ReportsInv, ReportJob
<1>14. \A q \in Procs : RowHeld(q)'
    <2> SUFFICES ASSUME NEW q \in Procs, pc'[q] \in RowStages PROVE RowHeld(q)'
        BY DEF RowHeld
    <2>1. q # p /\ pc[q] \in RowStages /\ job'[q] = job[q] /\ Report(q)' = Report(q)
        BY <1>5, <1>6
    <2>2. /\ job[q].run \in 1..Len(runs) /\ runs[job[q].run].report = Report(q)
          /\ runs[job[q].run].status \in {"RUNNING", "gone"}
        BY <2>1 DEF ReportsInv, RowHeld
    <2>3. /\ runs'[job[q].run].report = Report(q)
          /\ runs'[job[q].run].status \in {"RUNNING", "gone"}
        BY <1>9, <2>2
    <2>4. \A o \in Procs : pc'[o] \in RowStages /\ job'[o].run = job[q].run => o = q
        BY <1>5, <1>6, <2>1 DEF ReportsInv, RowHeld
    <2> QED BY <1>10, <2>1, <2>2, <2>3, <2>4 DEF RowHeld
<1>15. GoneAreDeleted'
    <2>1. deleted' = deleted \cup {r0}
        BY <1>1
    <2> SUFFICES ASSUME NEW n \in 1..Len(runs), runs'[n].status = "gone", runs[n].report # r0
                 PROVE  runs[n].report \in deleted
        BY <1>9, <1>10, <2>1 DEF GoneAreDeleted
    <2>2. runs[n].status = "gone"
        BY <1>9
    <2> QED BY <2>2 DEF ReportsInv, GoneAreDeleted
<1>16. TimesTold'
    <2> SUFFICES ASSUME NEW r \in Reports \ deleted, r # r0
                 PROVE  r \in ranLast <=> \E n \in RunsOf(r) : runs'[n].status = "SUCCEEDED"
        BY <1>1, <1>12 DEF TimesTold
    <2>1. \A n \in RunsOf(r) : runs'[n] = runs[n]
        BY <1>9, ReportsFacts
    <2> QED BY <2>1 DEF ReportsInv, TimesTold
<1>17. Attended'
    <2> SUFFICES ASSUME faults' = 0, NEW n \in 1..Len(runs), runs'[n].status = "RUNNING"
                 PROVE  \E q \in Procs : pc'[q] \in RowStages /\ job'[q].run = n
        BY <1>10 DEF Attended
    <2>1. runs[n].status = "RUNNING"
        BY <1>9
    <2>2. PICK q \in Procs : pc[q] \in RowStages /\ job[q].run = n
        BY <1>4, <2>1 DEF ReportsInv, Attended
    <2> QED BY <1>2, <1>5, <2>2
<1>18. AllThere'
    <2> SUFFICES ASSUME Steady', NEW q \in Procs, pc'[q] \in RunStages
                 PROVE  FALSE
        BY DEF AllThere
    <2>1. ~overlapped
        BY <1>1, <1>4 DEF Steady
    <2>2. q # p /\ pc[q] # "idle"
        BY <1>5, <1>6 DEF RunStages, RowStages
    <2> QED BY <1>2, <2>1, <2>2 DEF ReportsInv, Lone
<1>19. RowsCounted'
    <2> SUFFICES ASSUME faults' = 0, Steady', NEW r \in Reports \ deleted
                 PROVE  Cardinality(RunsOf(r)) = expected[r] + Cardinality(RanBy(r)')
        BY <1>1, <1>12 DEF RowsCounted
    <2>1. faults = 0 /\ Steady
        BY <1>1, <1>4 DEF Steady
    <2>2. \A q \in Procs : Ran(q, r)' <=> Ran(q, r)
        BY <1>2, <1>5, <1>6 DEF Ran
    <2>3. RanBy(r)' = RanBy(r)
        BY <2>2 DEF RanBy
    <2> QED BY <2>1, <2>3 DEF ReportsInv, RowsCounted
<1> QED BY <1>4, <1>11, <1>13, <1>14, <1>15, <1>16, <1>17, <1>18, <1>19 DEF ReportsInv, ReportsTypeOK

LEMMA ReportsStep ==
    ReportsInv /\ [ReportsNext]_<<handlerVars, reportVars>> => ReportsInv'
<1> SUFFICES ASSUME ReportsInv, [ReportsNext]_<<handlerVars, reportVars>> PROVE ReportsInv'
    OBVIOUS
<1>1. ASSUME NEW p \in Procs, ReadData(p) PROVE ReportsInv'
    <2>1. PICK stage \in {"rep_fail", "rep_done"} : GoTo(p, stage)
        BY <1>1 DEF ReadData
    <2>2. pc[p] \in RowStages /\ stage \in RowStages /\ stage \in RunStages /\ UNCHANGED reportVars
        BY <1>1, <2>1 DEF ReadData, RunStages, RowStages
    <2> QED BY <2>1, <2>2, ReportGoesOn
<1>2. ASSUME NEW p \in Procs, Dies(p), UNCHANGED reportVars PROVE ReportsInv'
    <2>1. pc[p] # "idle"
        BY <1>2 DEF Dies
    <2> QED BY <1>2, <2>1, ReportEnds
<1>3. CASE UNCHANGED <<handlerVars, reportVars>>
    <2>1. /\ HandlersTypeOK(ReportStages, ReportJobs)' /\ Lone'
          /\ pc' = pc /\ job' = job /\ faults' = faults /\ overlapped' = overlapped
        BY <1>3, ReportsFacts, HandlersStutter
    <2>2. deleted' = deleted /\ ranLast' = ranLast /\ runs' = runs /\ expected' = expected
        BY <1>3 DEF reportVars
    <2>3. ReportTablesOK'
        BY <2>2, ReportsFacts DEF ReportTablesOK
    <2>4. /\ \A p : Report(p)' = Report(p)
          /\ \A r : RunsOf(r)' = RunsOf(r)
          /\ Steady' = Steady
        BY <2>1, <2>2 DEF Report, RunsOf, Logged, Steady
    <2>5. \A r : RanBy(r)' = RanBy(r)
        BY <2>1, <2>4 DEF RanBy, Ran
    <2>6. \A p \in Procs : ReportJob(p)' /\ RowHeld(p)'
        BY <2>1, <2>2, <2>4 DEF ReportsInv, ReportJob, RowHeld
    <2>7. GoneAreDeleted' /\ TimesTold' /\ Attended' /\ AllThere' /\ RowsCounted'
        BY <2>1, <2>2, <2>4, <2>5 DEF ReportsInv, GoneAreDeleted, TimesTold, Attended, AllThere, RowsCounted
    <2> QED BY <2>1, <2>3, <2>6, <2>7 DEF ReportsInv, ReportsTypeOK
<1> QED BY <1>1, <1>2, <1>3, ReportsBegin, FindReportStep, LogRunStep, FailRunStep, SucceedStep,
           RetireWriteStep DEF ReportsNext, ReportStep

(* Reports, their runs and those expected keep their types; a sweep never     *)
(* holds a report that was not saved.                                         *)
THEOREM ReportTypes == ReportsSpec => []ReportsTypeOK
<1>1. ReportsInv => ReportsTypeOK
    BY DEF ReportsInv
<1> QED BY <1>1, ReportsInitial, ReportsStep, PTL DEF ReportsSpec

(* A report has the time of its last run exactly if a run of it succeeded;    *)
(* without deaths no row says RUNNING once the requests are done, and unless  *)
(* a report was deleted beside another request each report has a row for      *)
(* every request that was to run it, however the others went                  *)
(* (lib/report-scheduler.ts).                                                 *)
THEOREM RunsAreAccountedFor == ReportsSpec => []RunsAccountedFor
<1>1. ReportsInv => RunsAccountedFor
    <2> SUFFICES ASSUME ReportsInv, NEW r \in Reports \ deleted
                 PROVE  /\ r \in ranLast <=> \E n \in RunsOf(r) : runs[n].status = "SUCCEEDED"
                        /\ Quiescent /\ faults = 0 => \A n \in RunsOf(r) : runs[n].status # "RUNNING"
                        /\ Quiescent /\ faults = 0 /\ (deleted = {} \/ ~overlapped) =>
                             Cardinality(RunsOf(r)) = expected[r]
        BY DEF RunsAccountedFor
    <2>1. RunsOf(r) \subseteq 1..Len(runs)
        BY ReportsFacts
    <2>2. Quiescent => \A p \in Procs : pc[p] \notin RunStages /\ pc[p] \notin RowStages
        BY DEF Quiescent, RunStages, RowStages
    <2>3. Quiescent => RanBy(r) = {}
        BY <2>2 DEF RanBy, Ran
    <2>4. expected[r] \in Nat /\ Cardinality({}) = 0
        BY ReportsFacts, FS_EmptySet DEF ReportTablesOK
    <2>5. r \in ranLast <=> \E n \in RunsOf(r) : runs[n].status = "SUCCEEDED"
        BY DEF ReportsInv, TimesTold
    <2>6. Quiescent /\ faults = 0 => \A n \in RunsOf(r) : runs[n].status # "RUNNING"
        BY <2>1, <2>2 DEF ReportsInv, Attended
    <2>7. Quiescent /\ faults = 0 /\ Steady => Cardinality(RunsOf(r)) = expected[r]
        BY <2>3, <2>4 DEF ReportsInv, RowsCounted
    <2> QED BY <2>5, <2>6, <2>7 DEF Steady
<1> QED BY <1>1, ReportsInitial, ReportsStep, PTL DEF ReportsSpec
=============================================================================
