------------------------- MODULE InvoiceGeneration -------------------------
(***************************************************************************)
(* Bulk generation of one term's fee invoices, POST                        *)
(* /api/finance/invoices/generate, and the invoice numbers it makes up.    *)
(*                                                                         *)
(* A request walks through the enrolments it read at its start and, per    *)
(* student, awaits four queries: is there an invoice already, which        *)
(* discount applies, which number is the latest, and the insert. Other     *)
(* requests, of this school and of others, run between any two of them.    *)
(* Two unique indexes stand behind the insert: (student, term), and the    *)
(* invoice number, which is unique over ALL schools while the query for    *)
(* the latest number looks at one school only.                             *)
(***************************************************************************)
EXTENDS Naturals, FiniteSets, FiniteSetsExt

CONSTANTS
    Schools,
    Students,       \* students with an active enrolment
    SchoolOf,       \* the school of each
    Prefix,         \* the first letters of each school's slug
    Billable,       \* students whose class has fee components for the term
    Subtotal,       \* the mandatory fees of each
    AutoDiscount,   \* the sibling reduction each qualifies for, 0 if none
    Awards,         \* the reductions a bursar may award to each
    Base,           \* a number is written in this base,
    LastPadded,     \* zero-padded up to the width of this number (9999)
    Earlier,        \* numbers issued for earlier terms of the year
    PastDue,        \* the due date the bursar typed is before now
    Procs,          \* bound: requests the server works on at a time
    MaxTimeouts,    \* bound: requests cut off half way
    NoStudent       \* "no student in hand"

ASSUME GenerationAssumptions ==
    /\ SchoolOf \in [Students -> Schools]
    /\ Billable \subseteq Students
    /\ Subtotal \in [Students -> Nat]
    /\ AutoDiscount \in [Students -> Nat]
    /\ Awards \in [Students -> SUBSET Nat]
    /\ \A s \in Students : IsFiniteSet(Awards[s])
    /\ Base \in Nat \ {0, 1} /\ LastPadded \in Nat /\ LastPadded >= Base
    /\ PastDue \in BOOLEAN
    /\ MaxTimeouts \in Nat
    /\ NoStudent \notin Students

Numbers == [school : Schools, prefix : {Prefix[sc] : sc \in Schools}, n : Nat]

OwnPrefix(sc) == \A other \in Schools \ {sc} : Prefix[other] # Prefix[sc]

\* The earlier terms' numbers come from the counter modelled here: those of a
\* school alone with its prefix are 1 to k, and k is at most what it reaches.
ASSUME EarlierAssumption ==
    /\ Earlier \subseteq Numbers /\ IsFiniteSet(Earlier)
    /\ \A no \in Earlier : no.prefix = Prefix[no.school]
    /\ \A sc \in Schools : OwnPrefix(sc) =>
         \E k \in 0..(LastPadded + 1) : {no.n : no \in {x \in Earlier : x.school = sc}} = 1..k

VARIABLES
    invoices,   \* the term's invoices: a set of [student, no, amountDue, status]
    approved,   \* the awards of each student that are APPROVED now
    pc,         \* the await each request is about to make, "idle" if none
    todo,       \* enrolments it has not come to
    cur,        \* the student it is about
    reduction,  \* the discount it picked for that student
    number,     \* the invoice number it made up
    report,     \* the answer it builds: [chosen, created, skipped, errors]
    timeouts    \* requests cut off so far

request == <<pc, todo, cur, reduction, number, report>>
vars == <<invoices, approved, request, timeouts>>

Stages == {"idle", "lookup", "discount", "number", "create"}
EmptyReport == [chosen |-> {}, created |-> {}, skipped |-> {}, errors |-> {}]
Approvals == {f \in [Students -> SUBSET UNION {Awards[s] : s \in Students}] :
                 \A s \in Students : f[s] \subseteq Awards[s]}
StatusesAtIssue == {"WAIVED", "OVERDUE", "PENDING"}

----------------------------------------------------------------------------
(* Invoice numbers *)

\* Every invoice number stored, with the school that stores it.
Issued == Earlier \cup {[school |-> SchoolOf[v.student], prefix |-> v.no.prefix,
                         n |-> v.no.n] : v \in invoices}

\* The order of numbers as texts. Up to LastPadded all have one width; one with
\* a digit more comes before a shorter one that its leading digits do not reach.
TextBefore(m, n) ==
    IF (m > LastPadded) = (n > LastPadded) THEN m < n
    ELSE IF n > LastPadded THEN m <= n \div Base
    ELSE m \div Base < n

\* The latest number of a school, in the order of texts, 0 if it has none.
Latest(sc) ==
    LET own == {no.n : no \in {x \in Issued : x.school = sc /\ x.prefix = Prefix[sc]}}
    IN IF own = {} THEN 0
       ELSE CHOOSE n \in own : \A m \in own \ {n} : TextBefore(m, n)

\* invoiceNo is a unique column, whichever the school.
NumberFree(no) == \A x \in Issued : x.prefix # no.prefix \/ x.n # no.n

HasInvoice(s) == \E v \in invoices : v.student = s

\* Faulty variant of StatusAtIssue: nothing due counts as paid.
StatusAtIssueFunded(due) ==
    IF due = 0 THEN "PAID" ELSE IF PastDue THEN "OVERDUE" ELSE "PENDING"

\* recomputeInvoiceStatus for an invoice with nothing paid yet.
StatusAtIssue(due) ==
    IF due = 0 THEN "WAIVED" ELSE IF PastDue THEN "OVERDUE" ELSE "PENDING"

AmountDue(s, off) == IF off >= Subtotal[s] THEN 0 ELSE Subtotal[s] - off

----------------------------------------------------------------------------
Init ==
    /\ invoices = {}
    /\ approved \in Approvals
    /\ pc = [p \in Procs |-> "idle"]
    /\ todo = [p \in Procs |-> {}]
    /\ cur = [p \in Procs |-> NoStudent]
    /\ reduction = [p \in Procs |-> 0]
    /\ number = [p \in Procs |-> 0]
    /\ report = [p \in Procs |-> EmptyReport]
    /\ timeouts = 0

\* The bursar asks for some classes of the school; the request reads their
\* active enrolments.
Start(p, sc, chosen) ==
    /\ pc[p] = "idle"
    /\ chosen \subseteq {s \in Students : SchoolOf[s] = sc}
    /\ pc' = [pc EXCEPT ![p] = "lookup"]
    /\ todo' = [todo EXCEPT ![p] = chosen]
    /\ report' = [report EXCEPT ![p] = [EmptyReport EXCEPT !.chosen = chosen]]
    /\ UNCHANGED <<invoices, approved, cur, reduction, number, timeouts>>

\* The body of the loop for a student, up to its first branch: no fees for the
\* class is an error, an invoice that exists is skipped.
Lookup(p, s) ==
    /\ pc[p] = "lookup"
    /\ s \in todo[p]
    /\ todo' = [todo EXCEPT ![p] = @ \ {s}]
    /\ \/ /\ s \notin Billable
          /\ report' = [report EXCEPT ![p].errors = @ \cup {s}]
          /\ UNCHANGED <<pc, cur>>
       \/ /\ s \in Billable /\ HasInvoice(s)
          /\ report' = [report EXCEPT ![p].skipped = @ \cup {s}]
          /\ UNCHANGED <<pc, cur>>
       \/ /\ s \in Billable /\ ~HasInvoice(s)
          /\ pc' = [pc EXCEPT ![p] = "discount"]
          /\ cur' = [cur EXCEPT ![p] = s]
          /\ UNCHANGED report
    /\ UNCHANGED <<invoices, approved, reduction, number, timeouts>>

\* pickStudentDiscount: the largest of the approved awards and the sibling rule.
PickDiscount(p) ==
    /\ pc[p] = "discount"
    /\ reduction' = [reduction EXCEPT ![p] =
                       Max(approved[cur[p]] \cup {AutoDiscount[cur[p]]})]
    /\ pc' = [pc EXCEPT ![p] = "number"]
    /\ UNCHANGED <<invoices, approved, todo, cur, number, report, timeouts>>

\* Faulty variant of ReadNumber: counts the invoices of this request instead of
\* asking for the latest.
ReadNumberOwn(p) ==
    /\ pc[p] = "number"
    /\ number' = [number EXCEPT ![p] = Cardinality(report[p].created) + 1]
    /\ pc' = [pc EXCEPT ![p] = "create"]
    /\ UNCHANGED <<invoices, approved, todo, cur, reduction, report, timeouts>>

\* Faulty variant: leaves room for the request running beside this one.
ReadNumberSkipping(p) ==
    /\ pc[p] = "number"
    /\ number' = [number EXCEPT ![p] =
         Latest(SchoolOf[cur[p]]) + Cardinality({q \in Procs : pc[q] \in {"number", "create"}})]
    /\ pc' = [pc EXCEPT ![p] = "create"]
    /\ UNCHANGED <<invoices, approved, todo, cur, reduction, report, timeouts>>

\* generateInvoiceNumber: one more than the school's latest.
ReadNumber(p) ==
    /\ pc[p] = "number"
    /\ number' = [number EXCEPT ![p] = Latest(SchoolOf[cur[p]]) + 1]
    /\ pc' = [pc EXCEPT ![p] = "create"]
    /\ UNCHANGED <<invoices, approved, todo, cur, reduction, report, timeouts>>

Candidate(p) ==
    [student |-> cur[p],
     no |-> [prefix |-> Prefix[SchoolOf[cur[p]]], n |-> number[p]],
     amountDue |-> AmountDue(cur[p], reduction[p]),
     status |-> StatusAtIssue(AmountDue(cur[p], reduction[p]))]

\* Faulty variants of Create: an upsert on (student, term); counted as created
\* before the insert is known to succeed.
CreateUpsert(p) ==
    /\ pc[p] = "create"
    /\ invoices' = {v \in invoices : v.student # cur[p]} \cup {Candidate(p)}
    /\ report' = [report EXCEPT ![p].created = @ \cup {cur[p]}]
    /\ pc' = [pc EXCEPT ![p] = "lookup"]
    /\ cur' = [cur EXCEPT ![p] = NoStudent]
    /\ UNCHANGED <<approved, todo, reduction, number, timeouts>>

CreateCountedFirst(p) ==
    /\ pc[p] = "create"
    /\ report' = [report EXCEPT ![p].created = @ \cup {cur[p]}]
    /\ invoices' = IF NumberFree(Candidate(p).no) /\ ~HasInvoice(cur[p])
                   THEN invoices \cup {Candidate(p)} ELSE invoices
    /\ pc' = [pc EXCEPT ![p] = "lookup"]
    /\ cur' = [cur EXCEPT ![p] = NoStudent]
    /\ UNCHANGED <<approved, todo, reduction, number, timeouts>>

\* feeInvoice.create; either unique index makes it throw, which the loop notes
\* as an error before it goes on to the next student. No retry.
Create(p) ==
    /\ pc[p] = "create"
    /\ \/ /\ NumberFree(Candidate(p).no) /\ ~HasInvoice(cur[p])
          /\ invoices' = invoices \cup {Candidate(p)}
          /\ report' = [report EXCEPT ![p].created = @ \cup {cur[p]}]
       \/ /\ ~NumberFree(Candidate(p).no) \/ HasInvoice(cur[p])
          /\ report' = [report EXCEPT ![p].errors = @ \cup {cur[p]}]
          /\ UNCHANGED invoices
    /\ pc' = [pc EXCEPT ![p] = "lookup"]
    /\ cur' = [cur EXCEPT ![p] = NoStudent]
    /\ UNCHANGED <<approved, todo, reduction, number, timeouts>>

Forget(p) ==
    /\ pc' = [pc EXCEPT ![p] = "idle"]
    /\ todo' = [todo EXCEPT ![p] = {}]
    /\ cur' = [cur EXCEPT ![p] = NoStudent]
    /\ reduction' = [reduction EXCEPT ![p] = 0]
    /\ number' = [number EXCEPT ![p] = 0]
    /\ report' = [report EXCEPT ![p] = EmptyReport]

\* The loop is over: the report is the answer.
Answered(p) == pc[p] = "lookup" /\ todo[p] = {}

Respond(p) ==
    /\ Answered(p)
    /\ Forget(p)
    /\ UNCHANGED <<invoices, approved, timeouts>>

\* maxDuration is 300 seconds: the platform may cut a request off anywhere.
TimesOut(p) ==
    /\ pc[p] # "idle"
    /\ timeouts < MaxTimeouts
    /\ timeouts' = timeouts + 1
    /\ Forget(p)
    /\ UNCHANGED <<invoices, approved>>

\* An award is approved, rejected, revoked or given again meanwhile.
AwardChanges(s, a) ==
    /\ approved' = [approved EXCEPT ![s] = IF a \in @ THEN @ \ {a} ELSE @ \cup {a}]
    /\ UNCHANGED <<invoices, request, timeouts>>

RequestStep(p) ==
    \/ \E s \in Students : Lookup(p, s)
    \/ PickDiscount(p)
    \/ ReadNumber(p)
    \/ Create(p)
    \/ Respond(p)

Next ==
    \/ \E p \in Procs, sc \in Schools, chosen \in SUBSET Students : Start(p, sc, chosen)
    \/ \E p \in Procs : RequestStep(p) \/ TimesOut(p)
    \/ \E s \in Students : \E a \in Awards[s] : AwardChanges(s, a)

Spec == Init /\ [][Next]_vars

\* The bursar runs the generation for the whole school again for as long as a
\* student is without an invoice (the route is documented as safe to re-run).
Rerun(sc) ==
    \E p \in Procs :
        /\ \E s \in Billable : SchoolOf[s] = sc /\ ~HasInvoice(s)
        /\ Start(p, sc, {s \in Students : SchoolOf[s] = sc})

FairSpec ==
    /\ Spec
    /\ \A p \in Procs : WF_vars(RequestStep(p))
    /\ \A sc \in Schools : SF_vars(Rerun(sc))

----------------------------------------------------------------------------
(* Properties *)

\* The types of the variables.
TypeOK ==
    /\ \A v \in invoices :
         /\ v.student \in Billable
         /\ v.no.prefix = Prefix[SchoolOf[v.student]]
         /\ v.no.n \in Nat \ {0}
         /\ v.amountDue \in Nat
         /\ v.status \in StatusesAtIssue
    /\ approved \in Approvals
    /\ pc \in [Procs -> Stages]
    /\ todo \in [Procs -> SUBSET Students]
    /\ cur \in [Procs -> Students \cup {NoStudent}]
    /\ \A p \in Procs : pc[p] \in {"discount", "number", "create"} => cur[p] \in Billable
    /\ \A p \in Procs : pc[p] = "create" => number[p] # 0
    /\ reduction \in [Procs -> Nat]
    /\ number \in [Procs -> Nat]
    /\ report \in [Procs -> [chosen : SUBSET Students, created : SUBSET Students,
                             skipped : SUBSET Students, errors : SUBSET Students]]
    /\ timeouts \in 0..MaxTimeouts

\* The answer accounts for every student asked for exactly once, and every
\* student it counts as created or skipped has an invoice: the bursar can rely
\* on it to know whom to look after, whatever ran at the same time.
Accounted(p) ==
    report[p].created \cup report[p].skipped \cup report[p].errors
ReportHonest ==
    \A p \in Procs :
        /\ Answered(p) => Accounted(p) = report[p].chosen
        /\ report[p].created \cap (report[p].skipped \cup report[p].errors) = {}
        /\ report[p].skipped \cap report[p].errors = {}
        /\ \A s \in report[p].created \cup report[p].skipped : HasInvoice(s)

\* Running the generation again, or twice at once, never rebills a student:
\* invoices are only added, for students that have none.
NeverRebilled ==
    [][/\ invoices \subseteq invoices'
       /\ \A v \in invoices' \ invoices : ~HasInvoice(v.student)]_vars

\* The counter of a school that shares its prefix with no other has no holes
\* and no repeats: with k numbers issued they are 1 to k, although the number
\* is read by one query and used by another, in requests that overlap, fail and
\* are cut off.
NumbersOf(sc) == {no.n : no \in {x \in Issued : x.school = sc}}
NumbersConsecutive ==
    \A sc \in Schools : OwnPrefix(sc) => NumbersOf(sc) = 1..Cardinality(NumbersOf(sc))

\* Overlapping runs may collide on a number and leave students out, but a
\* bursar who runs the generation again until nobody is missing gets there, as
\* long as the school has not issued the number after LastPadded: the latest one
\* as a text is LastPadded from then on, and every number made up is taken.
Stopped(sc) == LastPadded + 1 \in NumbersOf(sc)
EveryoneIsInvoiced == \A s \in Billable : <>(HasInvoice(s) \/ Stopped(SchoolOf[s]))
=============================================================================
