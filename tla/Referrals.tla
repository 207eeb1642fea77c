----------------------------- MODULE Referrals ------------------------------
(***************************************************************************)
(* The referral programme: a school gets codes to hand out, each of which  *)
(* moves between PENDING, SIGNED_UP, CONVERTED and REWARDED as the staff   *)
(* say, and earns free months by the number of its referrals that count.   *)
(*                                                                         *)
(* A move writes the status, counts, looks for the latest referral that    *)
(* counts and writes the whole reward anew, in four queries of which only  *)
(* the last is a transaction.                                              *)
(***************************************************************************)
EXTENDS Handlers

CONSTANTS
    Referrers,     \* the schools that refer
    Asked,         \* bound: the statuses the staff ask for
    MaxReferrals   \* bound: referrals ever made

ReferralStatuses == {"PENDING", "SIGNED_UP", "CONVERTED", "REWARDED"}

ASSUME ReferralAssumptions == Asked \subseteq ReferralStatuses /\ MaxReferrals \in Nat

VARIABLES
    referrals,   \* [1..n -> [school, status, months]], oldest first
    unsettled    \* history: schools whose statuses changed since their last reward

referralVars == <<referrals, unsettled>>

Qualifying(s) == {i \in DOMAIN referrals : /\ referrals[i].school = s
                                           /\ referrals[i].status \in {"CONVERTED", "REWARDED"}}

\* The latest of a set of referrals, 0 if there is none.
Latest(ids) == IF ids = {} THEN 0 ELSE CHOOSE i \in ids : \A j \in ids : j <= i

\* Free months for n referrals that count.
rewardFor(n) == CASE n >= 5 -> 6
                  [] n >= 3 /\ n < 5 -> 3
                  [] n >= 1 /\ n < 3 -> 1
                  [] OTHER -> 0

ReferralsInit == referrals = <<>> /\ unsettled = {}

----------------------------------------------------------------------------
(* POST /api/growth/referrals *)

ReferRead(p, s) ==
    /\ Len(referrals) + Cardinality({q \in Procs : pc[q] = "rfl_create"}) < MaxReferrals
    /\ Begin(p, [op |-> "refer", school |-> s], "rfl_create")
    /\ UNCHANGED referralVars

\* A new code, unless three in a row were taken.
ReferCreate(p) ==
    /\ pc[p] = "rfl_create"
    /\ \/ referrals' = Append(referrals, [school |-> job[p].school, status |-> "PENDING", months |-> 0])
       \/ UNCHANGED referrals
    /\ Finish(p)
    /\ UNCHANGED unsettled

----------------------------------------------------------------------------
(* PATCH /api/growth/referrals/[id] *)

\* To any status, from any other. The school that was referred is looked up.
AdvanceRead(p, i, status) ==
    /\ Begin(p, [op |-> "advance", referral |-> i, status |-> status], "rfl_status")
    /\ UNCHANGED referralVars

AdvanceWrite(p) ==
    /\ pc[p] = "rfl_status"
    /\ LET i == job[p].referral
           s == referrals[i].school IN
       /\ referrals' = [referrals EXCEPT ![i].status = job[p].status]
       /\ unsettled' = unsettled \cup {s}
       /\ Carry(p, [op |-> "settle", school |-> s, earned |-> 0, latest |-> 0], "rfl_count")

CountConverted(p) ==
    /\ pc[p] = "rfl_count"
    /\ Carry(p, [job[p] EXCEPT !.earned = rewardFor(Cardinality(Qualifying(job[p].school)))], "rfl_latest")
    /\ UNCHANGED referralVars

FindLatest(p) ==
    /\ pc[p] = "rfl_latest"
    /\ Carry(p, [job[p] EXCEPT !.latest = Latest(Qualifying(job[p].school))], "rfl_settle")
    /\ UNCHANGED referralVars

\* Faulty variant of Settled: only the referrals that count are zeroed.
MonthsOfQualifying(p, i) ==
    CASE i = job[p].latest -> job[p].earned
      [] i # job[p].latest /\ i \in Qualifying(job[p].school) -> 0
      [] OTHER -> referrals[i].months

\* "Credit the whole entitlement to the most recent qualifying referral and
\* zero EVERY other referral this school holds."
MonthsOf(p, i) ==
    CASE i = job[p].latest -> job[p].earned
      [] i # job[p].latest /\ referrals[i].school = job[p].school -> 0
      [] OTHER -> referrals[i].months

\* One transaction.
SettleReward(p) ==
    /\ pc[p] = "rfl_settle"
    /\ referrals' = [i \in DOMAIN referrals |-> [referrals[i] EXCEPT !.months = MonthsOf(p, i)]]
    /\ unsettled' = unsettled \ {job[p].school}
    /\ Finish(p)

----------------------------------------------------------------------------
ReferralsNext ==
    \/ \E p \in Procs :
         \/ \E s \in Referrers : ReferRead(p, s)
         \/ \E i \in DOMAIN referrals, status \in Asked : AdvanceRead(p, i, status)
         \/ ReferCreate(p)
         \/ AdvanceWrite(p) \/ CountConverted(p) \/ FindLatest(p) \/ SettleReward(p)
         \/ Dies(p) /\ UNCHANGED referralVars

ReferralsSpec == HandlersInit /\ ReferralsInit /\ [][ReferralsNext]_<<handlerVars, referralVars>>

----------------------------------------------------------------------------
(* Properties *)

ReferralStages == {"rfl_create", "rfl_status", "rfl_count", "rfl_latest", "rfl_settle"}

Rewards == {0, 1, 3, 6}

ReferralJobs ==
    [op : {"refer"}, school : Referrers]
      \cup [op : {"advance"}, referral : Nat, status : ReferralStatuses]
      \cup [op : {"settle"}, school : Referrers, earned : Rewards, latest : Nat]

ReferralTablesOK ==
    /\ referrals \in Seq([school : Referrers, status : ReferralStatuses, months : Rewards])
    /\ unsettled \subseteq Referrers

\* The types of the variables.
ReferralsTypeOK == HandlersTypeOK(ReferralStages, ReferralJobs) /\ ReferralTablesOK

\* A school's reward is on one referral at most, whatever overlaps or dies. With
\* requests in turn it is what the tiers say of the referrals that count now,
\* on the latest of them, from every finished move until the next: "a referral
\* that is later un-converted cannot leave a paid-out month behind". A move that
\* dies leaves the old reward, and the next one puts it right.
RewardsMatchTiers ==
    \A s \in Referrers :
        /\ \A i, j \in DOMAIN referrals :
             /\ referrals[i].school = s /\ referrals[i].months > 0
             /\ referrals[j].school = s /\ referrals[j].months > 0
             => i = j
        /\ ~overlapped /\ s \notin unsettled =>
             \A i \in DOMAIN referrals : referrals[i].school = s =>
               referrals[i].months = IF i = Latest(Qualifying(s))
                                     THEN rewardFor(Cardinality(Qualifying(s))) ELSE 0
=============================================================================
