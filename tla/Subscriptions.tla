--------------------------- MODULE Subscriptions ----------------------------
(***************************************************************************)
(* A school's subscription: its status, what it pays, and the history of   *)
(* both, from which the console computes the monthly recurring revenue.    *)
(*                                                                         *)
(* Three routes write it: one sets a status, one changes plan, price and   *)
(* cycle, one converts a trial or gives it up. Each reads the subscription *)
(* and then writes, with its revision in one transaction if it makes one,  *)
(* what it computed from that reading. Revenue is computed twice: from     *)
(* the rows as they are, and from the latest revision of each. Audit rows  *)
(* and notices to the school, which nothing reads back, are left out.      *)
(***************************************************************************)
EXTENDS Handlers

CONSTANTS
    Subscribers,
    Offers,          \* bound: the [plan, amount, cycle] asked for; amounts in naira
    AskedStatuses,   \* bound: the statuses the staff set
    NoRevision,      \* "no row in the history"
    MaxAsked         \* bound: requests in all

Cycles == {"MONTHLY", "TERMLY", "ANNUAL"}
SubscriptionStatuses == {"TRIAL", "ACTIVE", "PAST_DUE", "SUSPENDED", "CHURNED"}
RevenueStatuses == {"ACTIVE", "PAST_DUE"}
Ending == {"SUSPENDED", "CHURNED"}

ASSUME SubscriptionAssumptions ==
    /\ \A o \in Offers : o.amount \in Nat /\ o.cycle \in Cycles
    /\ AskedStatuses \subseteq SubscriptionStatuses
    /\ MaxAsked \in Nat

VARIABLES
    subs,     \* [Subscribers -> [status, offer, cancelled]]
    open,     \* schools that are active, whose people may sign in
    latest,   \* [Subscribers -> [kind, monthly]], the latest revision in effect
    asked,    \* requests so far
    trials,   \* history: how often each went on trial
    bought,   \* history: how often each trial was converted
    misdated, \* history: schools with a revision dated another time than it was made
    returned, \* history: schools that came back from CHURNED, but not to ACTIVE
    lost      \* history: schools whose trial was given up, and no status set since

subscriptionVars == <<subs, open, latest, asked, trials, bought, misdated, returned, lost>>

\* Per month, in twelfths of a naira.
monthlyAmount(o) ==
    o.amount * (CASE o.cycle = "MONTHLY" -> 12 [] o.cycle = "TERMLY" -> 4 [] o.cycle = "ANNUAL" -> 1)

SubscriptionsInit ==
    /\ subs \in [Subscribers -> [status : {"TRIAL"}, offer : Offers, cancelled : {FALSE}]]
    /\ open = Subscribers
    /\ latest = [s \in Subscribers |-> NoRevision]
    /\ asked = 0
    /\ trials = [s \in Subscribers |-> 1]
    /\ bought = [s \in Subscribers |-> 0]
    /\ misdated = {} /\ returned = {} /\ lost = {}

Ask == asked < MaxAsked /\ asked' = asked + 1

Revise(s, kind, monthly) == latest' = [latest EXCEPT ![s] = [kind |-> kind, monthly |-> monthly]]

----------------------------------------------------------------------------
(* PUT /api/schools/[id]/status *)

StatusRead(p, s, status) ==
    /\ Ask
    /\ Begin(p, [op |-> "status", school |-> s, status |-> status, old |-> subs[s]], "sub_status")
    /\ UNCHANGED <<subs, open, latest, trials, bought, misdated, returned, lost>>

\* Faulty variant of RevisesStatus: coming back is no revision.
RevisesChurnOnly(old, status) == status = "CHURNED"

\* "Churn and reactivation move MRR, so they belong in the revision history."
RevisesStatus(old, status) == status = "CHURNED" \/ (old = "CHURNED" /\ status = "ACTIVE")

\* One transaction. The revision says what the subscription cost when it was read.
StatusWrite(p) ==
    /\ pc[p] = "sub_status"
    /\ LET s == job[p].school
           new == job[p].status
           old == job[p].old.status IN
       /\ subs' = [subs EXCEPT ![s].status = new, ![s].cancelled = (new = "CHURNED")]
       /\ open' = IF new \in Ending THEN open \ {s} ELSE open \cup {s}
       /\ IF RevisesStatus(old, new)
          THEN Revise(s, IF new = "CHURNED" THEN "CHURN" ELSE "REACTIVATION",
                      IF new = "CHURNED" THEN 0 ELSE monthlyAmount(job[p].old.offer))
          ELSE UNCHANGED latest
       /\ trials' = IF new = "TRIAL" THEN [trials EXCEPT ![s] = @ + 1] ELSE trials
       /\ returned' = IF old = "CHURNED" /\ new \notin {"CHURNED", "ACTIVE"} THEN returned \cup {s}
                      ELSE IF RevisesStatus(old, new) THEN returned \ {s} ELSE returned
       /\ lost' = lost \ {s}
    /\ Finish(p)
    /\ UNCHANGED <<asked, bought, misdated>>

----------------------------------------------------------------------------
(* PUT /api/schools/[id]/subscription *)

OfferRead(p, s, o, dated) ==
    /\ Ask
    /\ Begin(p, [op |-> "offer", school |-> s, offer |-> o, dated |-> dated, old |-> subs[s].offer], "sub_offer")
    /\ UNCHANGED <<subs, open, latest, trials, bought, misdated, returned, lost>>

ChangeKind(old, new) ==
    CASE old.plan # new.plan -> IF monthlyAmount(new) >= monthlyAmount(old) THEN "UPGRADE" ELSE "DOWNGRADE"
      [] old.plan = new.plan /\ old.cycle # new.cycle -> "CYCLE_CHANGE"
      [] OTHER -> "PRICE_CHANGE"

\* One transaction. A revision with an effective date may be later than the
\* latest one in effect or not, and may come into effect at any time after.
OfferWrite(p) ==
    /\ pc[p] = "sub_offer"
    /\ LET s == job[p].school
           new == job[p].offer
           old == job[p].old IN
       /\ subs' = [subs EXCEPT ![s].offer = new]
       /\ IF new = old
          THEN UNCHANGED <<latest, misdated, returned>>
          ELSE /\ \/ Revise(s, ChangeKind(old, new), monthlyAmount(new)) /\ returned' = returned \ {s}
                  \/ job[p].dated /\ UNCHANGED <<latest, returned>>
               /\ misdated' = IF job[p].dated THEN misdated \cup {s} ELSE misdated
    /\ Finish(p)
    /\ UNCHANGED <<open, asked, trials, bought, lost>>

----------------------------------------------------------------------------
(* POST /api/growth/trials/[schoolId]/action *)

\* Extending a trial and nudging its school are left out.
TrialRead(p, s, action) ==
    /\ Ask
    /\ subs[s].status = "TRIAL"
    /\ Begin(p, [op |-> "trial", school |-> s, action |-> action, old |-> subs[s].offer], "sub_trial")
    /\ UNCHANGED <<subs, open, latest, trials, bought, misdated, returned, lost>>

\* One transaction: "a conversion that skipped it would leave NRR unable to see
\* the expansion".
Convert(p) ==
    /\ pc[p] = "sub_trial" /\ job[p].action = "convert"
    /\ LET s == job[p].school IN
       /\ subs' = [subs EXCEPT ![s].status = "ACTIVE"]
       /\ Revise(s, "UPGRADE", monthlyAmount(job[p].old))
       /\ bought' = [bought EXCEPT ![s] = @ + 1]
       /\ returned' = returned \ {s}
    /\ Finish(p)
    /\ UNCHANGED <<open, asked, trials, misdated, lost>>

\* The school stays open, and the history is not told.
GiveUp(p) ==
    /\ pc[p] = "sub_trial" /\ job[p].action = "lost"
    /\ subs' = [subs EXCEPT ![job[p].school].status = "CHURNED", ![job[p].school].cancelled = TRUE]
    /\ lost' = lost \cup {job[p].school}
    /\ Finish(p)
    /\ UNCHANGED <<open, latest, asked, trials, bought, misdated, returned>>

----------------------------------------------------------------------------
SubscriptionsNext ==
    \/ \E p \in Procs, s \in Subscribers :
         \/ \E status \in AskedStatuses : StatusRead(p, s, status)
         \/ \E o \in Offers, dated \in BOOLEAN : OfferRead(p, s, o, dated)
         \/ \E action \in {"convert", "lost"} : TrialRead(p, s, action)
    \/ \E p \in Procs :
         \/ StatusWrite(p) \/ OfferWrite(p) \/ Convert(p) \/ GiveUp(p)
         \/ Dies(p) /\ UNCHANGED subscriptionVars

SubscriptionsSpec ==
    HandlersInit /\ SubscriptionsInit /\ [][SubscriptionsNext]_<<handlerVars, subscriptionVars>>

----------------------------------------------------------------------------
(* Properties *)

SubscriptionStages == {"sub_status", "sub_offer", "sub_trial"}

SubscriptionRows == [status : SubscriptionStatuses, offer : Offers, cancelled : BOOLEAN]

SubscriptionJobs ==
    [op : {"status"}, school : Subscribers, status : SubscriptionStatuses, old : SubscriptionRows]
      \cup [op : {"offer"}, school : Subscribers, offer : Offers, dated : BOOLEAN, old : Offers]
      \cup [op : {"trial"}, school : Subscribers, action : {"convert", "lost"}, old : Offers]

RevisionKinds == {"UPGRADE", "DOWNGRADE", "CYCLE_CHANGE", "PRICE_CHANGE", "CHURN", "REACTIVATION"}

SubscriptionTablesOK ==
    /\ subs \in [Subscribers -> SubscriptionRows]
    /\ latest \in [Subscribers -> [kind : RevisionKinds, monthly : Nat] \cup {NoRevision}]
    /\ asked \in 0..MaxAsked
    /\ trials \in [Subscribers -> Nat] /\ bought \in [Subscribers -> Nat]
    /\ \A group \in {open, misdated, returned, lost} : group \subseteq Subscribers

\* The types of the variables.
SubscriptionsTypeOK == HandlersTypeOK(SubscriptionStages, SubscriptionJobs) /\ SubscriptionTablesOK

\* What a school is worth a month, by the rows as they are (lib/metrics.ts) and
\* by the history (lib/revenue.ts).
RevenueNow(s) ==
    IF subs[s].status \in RevenueStatuses /\ ~subs[s].cancelled THEN monthlyAmount(subs[s].offer) ELSE 0

HasChurned(s) == latest[s] # NoRevision /\ latest[s].kind = "CHURN"

RevenueByHistory(s) ==
    IF subs[s].status \notin RevenueStatuses \cup {"CHURNED"} \/ subs[s].cancelled \/ HasChurned(s) THEN 0
    ELSE IF latest[s] # NoRevision THEN latest[s].monthly
    ELSE IF subs[s].status = "CHURNED" THEN 0
    ELSE monthlyAmount(subs[s].offer)

\* The two figures agree with requests in turn, whatever dies, unless a change
\* was given another date than its own; a school that comes back from CHURNED
\* by way of another status is worth nothing to the history until it changes.
RevenueAgrees ==
    ~overlapped => \A s \in Subscribers \ misdated :
        RevenueByHistory(s) = IF s \in returned /\ HasChurned(s) THEN 0 ELSE RevenueNow(s)

\* The figures for revenue agree. A trial is converted once, or as often as
\* requests found it a trial side by side. "School.isActive gates the school's
\* own app, so it has to follow": with requests in turn the people of a school
\* can sign in unless it is suspended or has churned; but a trial given up
\* leaves its school open.
SubscriptionsAgree ==
    /\ RevenueAgrees
    /\ \A s \in Subscribers :
         bought[s] <= trials[s] * (IF overlapped THEN Cardinality(Procs) ELSE 1)
    /\ ~overlapped => \A s \in Subscribers :
         (s \in open) <=> (subs[s].status \notin Ending \/ s \in lost)
=============================================================================
