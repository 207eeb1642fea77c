---------------------- MODULE InvoiceGenerationProofs ----------------------
(***************************************************************************)
(* Proofs about InvoiceGeneration, for any schools, students, awards and   *)
(* overlapping requests: the answers can be relied on, nobody is billed    *)
(* twice, and a school's numbers have no holes although one query reads    *)
(* the latest and a later one uses it.                                     *)
(***************************************************************************)
EXTENDS InvoiceGeneration, FiniteSetTheorems, WellFoundedInduction, TLAPS

----------------------------------------------------------------------------
(* The greatest of finitely many                                             *)

(* A set of pairs orders S; its greatest element.                            *)
Orders(R, S) ==
    /\ \A x, y \in S : x = y \/ <<x, y>> \in R \/ <<y, x>> \in R
    /\ \A x, y, z \in S : <<x, y>> \in R /\ <<y, z>> \in R => <<x, z>> \in R
Greatest(R, S, n) == \A m \in S : m = n \/ <<m, n>> \in R

(* A finite set that is ordered has a greatest element.                      *)
LEMMA FiniteHasGreatest ==
    ASSUME NEW R, NEW S, IsFiniteSet(S), S # {}, Orders(R, S)
    PROVE  \E n \in S : Greatest(R, S, n)
<1> DEFINE Bad == {T \in FiniteSubsetsOf(S) : T # {} /\ \A n \in T : ~Greatest(R, T, n)}
<1> SUFFICES ASSUME \A n \in S : ~Greatest(R, S, n) PROVE FALSE
    OBVIOUS
<1>1. S \in Bad
    BY DEF FiniteSubsetsOf
<1>2. PICK T \in Bad : \A U \in Bad : ~(<<U, T>> \in StrictSubsetOrdering(S))
    <2>1. Bad \subseteq FiniteSubsetsOf(S) /\ Bad # {}
        BY <1>1
    <2> HIDE DEF Bad
    <2> QED BY <2>1, FS_StrictSubsetOrderingWellFounded, WFMin
<1>3. T \subseteq S /\ IsFiniteSet(T) /\ T # {} /\ \A n \in T : ~Greatest(R, T, n)
    BY DEF FiniteSubsetsOf
<1>4. PICK x \in T : TRUE
    BY <1>3
<1>5. \A m \in T : <<m, x>> \in R \/ m = x \/ <<x, m>> \in R
    BY <1>3, <1>4 DEF Orders
<1>6. \A m, y \in T : <<m, y>> \in R /\ <<y, x>> \in R => <<m, x>> \in R
    BY <1>3, <1>4 DEF Orders
<1> DEFINE U == T \ {x}
<1>7. U # {}
    <2>1. PICK m \in T : m # x
        BY <1>3, <1>4 DEF Greatest
    <2> QED BY <2>1
<1>8. U \in SUBSET S /\ T \in SUBSET S /\ U \subseteq T /\ U # T
    BY <1>3, <1>4
<1>9. U \in FiniteSubsetsOf(S)
    BY <1>3, <1>8, FS_Subset DEF FiniteSubsetsOf
<1>10. U \notin Bad
    <2> HIDE DEF U, Bad
    <2>1. <<U, T>> \in StrictSubsetOrdering(S)
        BY <1>8 DEF StrictSubsetOrdering
    <2> QED BY <1>2, <2>1
<1>11. PICK y \in U : Greatest(R, U, y)
    BY <1>7, <1>9, <1>10
<1>12. CASE <<x, y>> \in R
    <2>1. Greatest(R, T, y)
        BY <1>11, <1>12 DEF Greatest
    <2> QED BY <1>3, <1>11, <2>1
<1>13. CASE <<y, x>> \in R
    <2>1. Greatest(R, T, x)
        BY <1>6, <1>11, <1>13 DEF Greatest
    <2> QED BY <1>3, <1>4, <2>1
<1> QED BY <1>5, <1>11, <1>12, <1>13

(* The largest of finitely many reductions.                                  *)
LEMMA MaxOf ==
    ASSUME NEW S, S \subseteq Nat, IsFiniteSet(S), S # {}
    PROVE  Max(S) \in S
<1> DEFINE R == {q \in Nat \X Nat : q[1] <= q[2]}
<1>1. \A x, y \in Nat : <<x, y>> \in R <=> x <= y
    OBVIOUS
<1> HIDE DEF R
<1>2. Orders(R, S)
    <2>1. ASSUME NEW x \in S, NEW y \in S
          PROVE  x = y \/ <<x, y>> \in R \/ <<y, x>> \in R
        <3>1. x \in Nat /\ y \in Nat
            OBVIOUS
        <3> QED BY <1>1, <3>1
    <2>2. ASSUME NEW x \in S, NEW y \in S, NEW z \in S, <<x, y>> \in R, <<y, z>> \in R
          PROVE  <<x, z>> \in R
        <3>1. x \in Nat /\ y \in Nat /\ z \in Nat
            OBVIOUS
        <3> QED BY <1>1, <2>2, <3>1
    <2> QED BY <2>1, <2>2 DEF Orders
<1>3. PICK n \in S : Greatest(R, S, n)
    BY <1>2, FiniteHasGreatest
<1>4. ASSUME NEW m \in S PROVE n >= m
    <2>1. m \in Nat /\ n \in Nat
        OBVIOUS
    <2>2. m = n \/ <<m, n>> \in R
        BY <1>3 DEF Greatest
    <2>3. <<m, n>> \in R => m <= n
        BY <1>1, <2>1
    <2> QED BY <2>1, <2>2, <2>3
<1> QED BY <1>4 DEF Max

(* Dropping the last digit makes a number smaller, and keeps the order.      *)
LEMMA LeadingDigits ==
    /\ \A m \in Nat : m \div Base \in Nat
    /\ \A m, n \in Nat : m <= n => m \div Base <= n \div Base
    /\ (LastPadded + 1) \div Base < LastPadded
<1>1. Base \in Nat /\ Base >= 2 /\ LastPadded \in Nat /\ LastPadded >= Base
    BY GenerationAssumptions DEF GenerationAssumptions
<1>2. \A m \in Nat : m \div Base \in Nat
    BY <1>1
<1>3. ASSUME NEW m \in Nat, NEW n \in Nat, m <= n
      PROVE  m \div Base <= n \div Base
    BY <1>1, <1>3
<1>4. (LastPadded + 1) \div Base < LastPadded
    BY <1>1
<1> QED BY <1>2, <1>3, <1>4

(* The order of numbers as texts is one.                                     *)
LEMMA TextOrder ==
    /\ \A m, n \in Nat : m = n \/ TextBefore(m, n) \/ TextBefore(n, m)
    /\ \A k, m, n \in Nat : TextBefore(k, m) /\ TextBefore(m, n) => TextBefore(k, n)
<1>1. LastPadded \in Nat
    BY GenerationAssumptions DEF GenerationAssumptions
<1>2. \A m, n \in Nat : m = n \/ TextBefore(m, n) \/ TextBefore(n, m)
    BY <1>1, LeadingDigits DEF TextBefore
<1>3. ASSUME NEW k \in Nat, NEW m \in Nat, NEW n \in Nat, TextBefore(k, m), TextBefore(m, n)
      PROVE  TextBefore(k, n)
    BY <1>1, <1>3, LeadingDigits DEF TextBefore
<1> QED BY <1>2, <1>3

----------------------------------------------------------------------------
(* The latest number                                                         *)

OwnNumbers(sc) == {no.n : no \in {x \in Issued : x.school = sc /\ x.prefix = Prefix[sc]}}

(* A school's latest number is one of its own, and none of them comes later. *)
LEMMA LatestOf ==
    ASSUME NEW sc, IsFiniteSet(OwnNumbers(sc)), OwnNumbers(sc) \subseteq Nat
    PROVE  /\ Latest(sc) \in Nat
           /\ OwnNumbers(sc) = {} => Latest(sc) = 0
           /\ OwnNumbers(sc) # {} =>
                 /\ Latest(sc) \in OwnNumbers(sc)
                 /\ \A m \in OwnNumbers(sc) : m = Latest(sc) \/ TextBefore(m, Latest(sc))
<1> DEFINE own == OwnNumbers(sc)
           R == {q \in Nat \X Nat : TextBefore(q[1], q[2])}
<1>1. Latest(sc) = IF own = {} THEN 0
                   ELSE CHOOSE n \in own : \A m \in own \ {n} : TextBefore(m, n)
    BY DEF Latest, OwnNumbers
<1>2. \A m, n \in Nat : <<m, n>> \in R <=> TextBefore(m, n)
    OBVIOUS
<1>3. IsFiniteSet(own) /\ own \subseteq Nat
    OBVIOUS
<1> HIDE DEF R, own
<1>4. Orders(R, own)
    <2>1. ASSUME NEW x \in own, NEW y \in own
          PROVE  x = y \/ <<x, y>> \in R \/ <<y, x>> \in R
        BY <1>2, <1>3, TextOrder
    <2>2. ASSUME NEW x \in own, NEW y \in own, NEW z \in own, <<x, y>> \in R, <<y, z>> \in R
          PROVE  <<x, z>> \in R
        <3>1. x \in Nat /\ y \in Nat /\ z \in Nat
            BY <1>3
        <3> QED BY <1>2, <2>2, <3>1, TextOrder
    <2> QED BY <2>1, <2>2 DEF Orders
<1>5. CASE own # {}
    <2>1. PICK n \in own : Greatest(R, own, n)
        BY <1>3, <1>4, <1>5, FiniteHasGreatest
    <2>2. \A m \in own \ {n} : TextBefore(m, n)
        <3> SUFFICES ASSUME NEW m \in own, m # n PROVE TextBefore(m, n)
            OBVIOUS
        <3>1. <<m, n>> \in R
            BY <2>1 DEF Greatest
        <3>2. m \in Nat /\ n \in Nat
            BY <1>3
        <3> QED BY <1>2, <3>1, <3>2
    <2>3. /\ Latest(sc) \in own
          /\ \A m \in own \ {Latest(sc)} : TextBefore(m, Latest(sc))
        BY <1>1, <1>5, <2>2
    <2> QED BY <1>3, <1>5, <2>3 DEF own
<1> QED BY <1>1, <1>5 DEF own

(* Where the numbers are 1 to k the next one is one of them or k + 1, and    *)
(* the counter stops at the first number too wide for its zeros.             *)
LEMMA NextNumber ==
    ASSUME NEW sc, NEW k \in 0..(LastPadded + 1), OwnNumbers(sc) = 1..k
    PROVE  Latest(sc) + 1 \in 1..(k + 1) /\ Latest(sc) <= LastPadded
<1>1. LastPadded \in Nat /\ LastPadded >= 1 /\ k \in Nat /\ k <= LastPadded + 1
    BY GenerationAssumptions DEF GenerationAssumptions
<1>2. IsFiniteSet(OwnNumbers(sc)) /\ OwnNumbers(sc) \subseteq Nat
    BY <1>1, FS_Interval
<1>3. CASE k = 0
    <2>1. OwnNumbers(sc) = {}
        BY <1>3
    <2> QED BY <1>1, <1>2, <1>3, <2>1, LatestOf
<1>4. CASE k # 0
    <2>1. OwnNumbers(sc) # {}
        BY <1>1, <1>4
    <2>2. /\ Latest(sc) \in 1..k
          /\ \A m \in 1..k : m = Latest(sc) \/ TextBefore(m, Latest(sc))
        BY <1>2, <2>1, LatestOf
    <2>3. Latest(sc) # LastPadded + 1
        <3> SUFFICES ASSUME Latest(sc) = LastPadded + 1 PROVE FALSE
            OBVIOUS
        <3>1. LastPadded \in 1..k /\ LastPadded # Latest(sc)
            BY <1>1, <2>2
        <3>2. TextBefore(LastPadded, LastPadded + 1)
            BY <2>2, <3>1
        <3>3. LastPadded <= (LastPadded + 1) \div Base
            <4>1. ~(LastPadded > LastPadded) /\ LastPadded + 1 > LastPadded
                BY <1>1
            <4> QED BY <3>2, <4>1 DEF TextBefore
        <3>4. (LastPadded + 1) \div Base \in Nat /\ (LastPadded + 1) \div Base < LastPadded
            BY <1>1, LeadingDigits
        <3> QED BY <1>1, <3>3, <3>4
    <2> QED BY <1>1, <2>2, <2>3
<1> QED BY <1>3, <1>4

----------------------------------------------------------------------------
(* The invariant                                                             *)

(* The student a request is about to bill.                                   *)
InHand(p) == IF pc[p] \in {"discount", "number", "create"} THEN {cur[p]} ELSE {}

(* What a request was asked for is split into what its report has, what it   *)
(* has in hand and what it has not come to; whom it calls billed is.         *)
AnswerOK(p) ==
    /\ Accounted(p) \cup todo[p] \cup InHand(p) = report[p].chosen
    /\ Accounted(p) \cap (todo[p] \cup InHand(p)) = {}
    /\ todo[p] \cap InHand(p) = {}
    /\ report[p].created \cap (report[p].skipped \cup report[p].errors) = {}
    /\ report[p].skipped \cap report[p].errors = {}
    /\ \A s \in report[p].created \cup report[p].skipped : HasInvoice(s)

(* A school alone with its prefix has issued 1 to k, and each number about   *)
(* to be inserted for it is one of these or the next.                        *)
CounterAt(sc, k) ==
    /\ NumbersOf(sc) = 1..k
    /\ \A p \in Procs : pc[p] = "create" /\ SchoolOf[cur[p]] = sc =>
                           number[p] \in 1..(k + 1) /\ number[p] <= LastPadded + 1
Counters == \A sc \in Schools : OwnPrefix(sc) => \E k \in 0..(LastPadded + 1) : CounterAt(sc, k)

GenerationInv ==
    TypeOK /\ IsFiniteSet(invoices) /\ (\A p \in Procs : AnswerOK(p)) /\ Counters

(* A function has finitely many values on a finite set.                      *)
LEMMA FiniteImage ==
    ASSUME NEW S, IsFiniteSet(S), NEW f
    PROVE  IsFiniteSet({f[x] : x \in S})
<1> DEFINE T == {f[x] : x \in S}
<1>1. PICK n \in Nat : ExistsSurjection(1..n, S)
    BY FS_NatSurjection
<1>2. PICK g \in [1..n -> S] : \A x \in S : \E i \in 1..n : g[i] = x
    BY <1>1 DEF ExistsSurjection, Surjection
<1> DEFINE h == [i \in 1..n |-> f[g[i]]]
<1>3. h \in [1..n -> T]
    BY <1>2
<1>4. \A t \in T : \E i \in 1..n : h[i] = t
    <2>1. ASSUME NEW t \in T PROVE \E i \in 1..n : h[i] = t
        <3>1. PICK x \in S : t = f[x]
            OBVIOUS
        <3>2. PICK i \in 1..n : g[i] = x
            BY <1>2
        <3> QED BY <3>1, <3>2
    <2> HIDE DEF h, T
    <2> QED BY <2>1
<1>5. ExistsSurjection(1..n, T)
    <2> HIDE DEF h, T
    <2> QED BY <1>3, <1>4 DEF ExistsSurjection, Surjection
<1> HIDE DEF T
<1>6. IsFiniteSet(T)
    BY <1>5, FS_NatSurjection
<1> QED BY <1>6 DEF T

(* Every number issued carries its school's prefix; they are finitely many.  *)
LEMMA IssuedIs ==
    ASSUME TypeOK
    PROVE  /\ \A x \in Issued : x.school \in Schools /\ x.prefix = Prefix[x.school] /\ x.n \in Nat
           /\ \A sc \in Schools : NumbersOf(sc) = OwnNumbers(sc) /\ NumbersOf(sc) \subseteq Nat
           /\ IsFiniteSet(invoices) => \A sc \in Schools : IsFiniteSet(NumbersOf(sc))
<1>1. \A x \in Earlier : x.school \in Schools /\ x.prefix = Prefix[x.school] /\ x.n \in Nat
    BY EarlierAssumption DEF EarlierAssumption, Numbers
<1>2. \A v \in invoices : SchoolOf[v.student] \in Schools
    BY GenerationAssumptions DEF GenerationAssumptions, TypeOK
<1>3. \A x \in Issued : x.school \in Schools /\ x.prefix = Prefix[x.school] /\ x.n \in Nat
    BY <1>1, <1>2 DEF Issued, TypeOK
<1>4. \A sc \in Schools : NumbersOf(sc) = OwnNumbers(sc) /\ NumbersOf(sc) \subseteq Nat
    BY <1>3 DEF NumbersOf, OwnNumbers
<1>5. ASSUME IsFiniteSet(invoices), NEW sc \in Schools
      PROVE  IsFiniteSet(NumbersOf(sc))
    <2> DEFINE New == {[school |-> SchoolOf[v.student], prefix |-> v.no.prefix, n |-> v.no.n] : v \in invoices}
               Own == {x \in Issued : x.school = sc}
               f == [v \in invoices |-> [school |-> SchoolOf[v.student], prefix |-> v.no.prefix, n |-> v.no.n]]
               g == [no \in Own |-> no.n]
    <2>1. IsFiniteSet(New)
        <3>1. IsFiniteSet({f[v] : v \in invoices})
            <4> HIDE DEF f
            <4> QED BY <1>5, FiniteImage
        <3>2. New = {f[v] : v \in invoices}
            OBVIOUS
        <3> QED BY <3>1, <3>2
    <2>2. IsFiniteSet(Issued)
        BY <2>1, EarlierAssumption, FS_Union DEF Issued, EarlierAssumption
    <2>3. IsFiniteSet(Own)
        BY <2>2, FS_Subset
    <2>4. IsFiniteSet({no.n : no \in Own})
        <3>1. IsFiniteSet({g[no] : no \in Own})
            <4> HIDE DEF g, Own
            <4> QED BY <2>3, FiniteImage
        <3>2. {no.n : no \in Own} = {g[no] : no \in Own}
            OBVIOUS
        <3> QED BY <3>1, <3>2
    <2> QED BY <2>4 DEF NumbersOf
<1> QED BY <1>3, <1>4, <1>5

LEMMA GenerationInit == Init => GenerationInv
<1> SUFFICES ASSUME Init PROVE GenerationInv
    OBVIOUS
<1>1. TypeOK
    BY GenerationAssumptions DEF GenerationAssumptions, Init, TypeOK, Stages, EmptyReport
<1>2. IsFiniteSet(invoices)
    BY FS_EmptySet DEF Init
<1>3. ASSUME NEW p \in Procs PROVE AnswerOK(p)
    BY DEF Init, AnswerOK, Accounted, InHand, EmptyReport
<1>4. Counters
    <2>1. \A p \in Procs : pc[p] # "create"
        BY DEF Init
    <2>2. Issued = Earlier
        BY DEF Init, Issued
    <2>3. \A sc \in Schools : NumbersOf(sc) = {no.n : no \in {x \in Earlier : x.school = sc}}
        BY <2>2 DEF NumbersOf
    <2> QED BY <2>1, <2>3, EarlierAssumption DEF EarlierAssumption, Counters, CounterAt
<1> QED BY <1>1, <1>2, <1>3, <1>4 DEF GenerationInv

----------------------------------------------------------------------------
(* The steps                                                                 *)

(* A step of p keeps the answers of the other requests: invoices only grow.  *)
LEMMA OtherAnswers ==
    ASSUME NEW p, NEW q \in Procs, q # p, AnswerOK(q), invoices \subseteq invoices',
           pc'[q] = pc[q], todo'[q] = todo[q], cur'[q] = cur[q], report'[q] = report[q]
    PROVE  AnswerOK(q)'
<1>1. \A s : HasInvoice(s) => HasInvoice(s)'
    BY DEF HasInvoice
<1>2. InHand(q)' = InHand(q) /\ Accounted(q)' = Accounted(q)
    BY DEF InHand, Accounted
<1> QED BY <1>1, <1>2 DEF AnswerOK

(* A step that inserts nothing and makes up no number keeps the counters.    *)
LEMMA SameCounters ==
    ASSUME Counters, invoices' = invoices,
           \A q \in Procs : pc'[q] = "create" =>
               pc[q] = "create" /\ cur'[q] = cur[q] /\ number'[q] = number[q]
    PROVE  Counters'
<1>1. \A sc : NumbersOf(sc)' = NumbersOf(sc)
    BY DEF NumbersOf, Issued
<1>2. \A sc, k : CounterAt(sc, k) => CounterAt(sc, k)'
    BY <1>1 DEF CounterAt
<1> QED BY <1>2 DEF Counters

LEMMA StartStep ==
    ASSUME GenerationInv, NEW p \in Procs, NEW sc \in Schools, NEW chosen \in SUBSET Students,
           Start(p, sc, chosen)
    PROVE  GenerationInv'
<1>1. TypeOK'
    BY DEF GenerationInv, TypeOK, Start, EmptyReport, Stages
<1>2. AnswerOK(p)'
    BY DEF GenerationInv, TypeOK, Start, AnswerOK, Accounted, InHand, EmptyReport
<1>3. \A q \in Procs : q # p => AnswerOK(q)'
    BY OtherAnswers DEF GenerationInv, TypeOK, Start
<1>4. Counters'
    BY SameCounters DEF GenerationInv, TypeOK, Start
<1> QED BY <1>1, <1>2, <1>3, <1>4 DEF GenerationInv, Start

LEMMA LookupStep ==
    ASSUME GenerationInv, NEW p \in Procs, NEW s \in Students, Lookup(p, s)
    PROVE  GenerationInv'
<1>1. TypeOK'
    <2>1. /\ TypeOK /\ todo' \in [Procs -> SUBSET Students]
          /\ UNCHANGED <<invoices, approved, reduction, number, timeouts>>
        BY DEF GenerationInv, TypeOK, Lookup
    <2> DEFINE Reports == [Procs -> [chosen : SUBSET Students, created : SUBSET Students,
                                     skipped : SUBSET Students, errors : SUBSET Students]]
    <2>2. report \in Reports
        BY <2>1 DEF TypeOK
    <2>3. CASE UNCHANGED <<pc, cur>>
        <3>1. CASE report' = [report EXCEPT ![p].errors = @ \cup {s}]
            <4>1. report' \in Reports
                BY <2>2, <3>1
            <4> QED BY <2>1, <2>3, <4>1 DEF TypeOK
        <3>2. CASE report' = [report EXCEPT ![p].skipped = @ \cup {s}]
            <4>1. report' \in Reports
                BY <2>2, <3>2
            <4> QED BY <2>1, <2>3, <4>1 DEF TypeOK
        <3>3. CASE UNCHANGED report
            BY <2>1, <2>2, <2>3, <3>3 DEF TypeOK
        <3> QED BY <3>1, <3>2, <3>3 DEF Lookup
    <2>4. CASE s \in Billable /\ ~HasInvoice(s)
        <3>1. /\ pc' = [pc EXCEPT ![p] = "discount"] /\ cur' = [cur EXCEPT ![p] = s]
              /\ UNCHANGED report /\ "discount" \in Stages /\ s \in Billable
            BY <2>4 DEF Lookup, Stages
        <3> QED BY <2>1, <2>2, <3>1 DEF TypeOK
    <2>5. UNCHANGED <<pc, cur>> \/ (s \in Billable /\ ~HasInvoice(s))
        BY DEF Lookup
    <2> QED BY <2>3, <2>4, <2>5
<1>2. AnswerOK(p)'
    <2>1. /\ pc[p] = "lookup" /\ s \in todo[p] /\ todo'[p] = todo[p] \ {s} /\ invoices' = invoices
          /\ AnswerOK(p) /\ InHand(p) = {}
        BY DEF GenerationInv, TypeOK, Lookup, InHand
    <2>2. \A t : HasInvoice(t)' = HasInvoice(t)
        BY <2>1 DEF HasInvoice
    <2>3. CASE s \notin Billable
        <3>1. InHand(p)' = {} /\ report'[p] = [report[p] EXCEPT !.errors = @ \cup {s}]
            BY <2>1, <2>3 DEF GenerationInv, TypeOK, Lookup, InHand
        <3> QED BY <2>1, <2>2, <3>1 DEF GenerationInv, TypeOK, AnswerOK, Accounted
    <2>4. CASE s \in Billable /\ HasInvoice(s)
        <3>1. InHand(p)' = {} /\ report'[p] = [report[p] EXCEPT !.skipped = @ \cup {s}]
            BY <2>1, <2>4 DEF GenerationInv, TypeOK, Lookup, InHand
        <3> QED BY <2>1, <2>2, <2>4, <3>1 DEF GenerationInv, TypeOK, AnswerOK, Accounted
    <2>5. CASE s \in Billable /\ ~HasInvoice(s)
        <3>1. InHand(p)' = {s} /\ report'[p] = report[p]
            BY <2>1, <2>5 DEF GenerationInv, TypeOK, Lookup, InHand
        <3> QED BY <2>1, <2>2, <3>1 DEF AnswerOK, Accounted
    <2> QED BY <2>3, <2>4, <2>5
<1>3. \A q \in Procs : q # p => AnswerOK(q)'
    BY OtherAnswers, ZenonT(60) DEF GenerationInv, TypeOK, Lookup
<1>4. Counters'
    BY SameCounters DEF GenerationInv, TypeOK, Lookup
<1> QED BY <1>1, <1>2, <1>3, <1>4 DEF GenerationInv, Lookup

LEMMA DiscountStep ==
    ASSUME GenerationInv, NEW p \in Procs, PickDiscount(p)
    PROVE  GenerationInv'
<1>1. TypeOK'
    <2>1. cur[p] \in Students
        BY GenerationAssumptions DEF GenerationAssumptions, GenerationInv, TypeOK, PickDiscount
    <2> DEFINE S == approved[cur[p]] \cup {AutoDiscount[cur[p]]}
    <2>2. S \subseteq Nat /\ S # {} /\ IsFiniteSet(S)
        <3>1. approved[cur[p]] \subseteq Awards[cur[p]]
            BY <2>1 DEF GenerationInv, TypeOK, Approvals
        <3>2. Awards[cur[p]] \subseteq Nat /\ IsFiniteSet(Awards[cur[p]]) /\ AutoDiscount[cur[p]] \in Nat
            BY <2>1, GenerationAssumptions DEF GenerationAssumptions
        <3>3. IsFiniteSet(approved[cur[p]])
            BY <3>1, <3>2, FS_Subset
        <3> QED BY <3>1, <3>2, <3>3, FS_AddElement
    <2> HIDE DEF S
    <2>3. Max(S) \in Nat
        BY <2>2, MaxOf
    <2>4. reduction' = [reduction EXCEPT ![p] = Max(S)]
        BY DEF PickDiscount, S
    <2>5. reduction' \in [Procs -> Nat]
        BY <2>3, <2>4 DEF GenerationInv, TypeOK
    <2> QED BY <2>5 DEF GenerationInv, TypeOK, PickDiscount, Stages
<1>2. AnswerOK(p)'
    BY DEF GenerationInv, TypeOK, PickDiscount, AnswerOK, Accounted, InHand, HasInvoice
<1>3. \A q \in Procs : q # p => AnswerOK(q)'
    BY OtherAnswers DEF GenerationInv, TypeOK, PickDiscount
<1>4. Counters'
    BY SameCounters DEF GenerationInv, TypeOK, PickDiscount
<1> QED BY <1>1, <1>2, <1>3, <1>4 DEF GenerationInv, PickDiscount

LEMMA NumberStep ==
    ASSUME GenerationInv, NEW p \in Procs, ReadNumber(p)
    PROVE  GenerationInv'
<1> DEFINE home == SchoolOf[cur[p]]
<1>1. TypeOK /\ pc[p] = "number" /\ cur[p] \in Students /\ home \in Schools
    BY GenerationAssumptions DEF GenerationAssumptions, GenerationInv, TypeOK, ReadNumber
<1>2. IsFiniteSet(OwnNumbers(home)) /\ OwnNumbers(home) \subseteq Nat
    BY <1>1, IssuedIs DEF GenerationInv
<1>3. Latest(home) \in Nat
    BY <1>2, LatestOf
<1>4. number' = [number EXCEPT ![p] = Latest(home) + 1]
    BY DEF ReadNumber
<1> HIDE DEF home
<1>5. TypeOK'
    BY <1>1, <1>3, <1>4 DEF TypeOK, ReadNumber, Stages
<1>6. AnswerOK(p)'
    BY DEF GenerationInv, TypeOK, ReadNumber, AnswerOK, Accounted, InHand, HasInvoice
<1>7. \A q \in Procs : q # p => AnswerOK(q)'
    BY OtherAnswers DEF GenerationInv, TypeOK, ReadNumber
<1>8. Counters'
    <2> SUFFICES ASSUME NEW sc \in Schools, OwnPrefix(sc)
                 PROVE  \E k \in 0..(LastPadded + 1) : CounterAt(sc, k)'
        BY DEF Counters
    <2>1. PICK k \in 0..(LastPadded + 1) : CounterAt(sc, k)
        BY DEF GenerationInv, Counters
    <2>2. NumbersOf(sc)' = NumbersOf(sc)
        BY DEF NumbersOf, Issued, ReadNumber
    <2>3. ASSUME NEW q \in Procs, pc'[q] = "create", SchoolOf[cur'[q]] = sc
          PROVE  number'[q] \in 1..(k + 1) /\ number'[q] <= LastPadded + 1
        <3>1. CASE q = p
            <4>1. sc = home /\ number'[p] = Latest(home) + 1
                BY <1>1, <1>4, <2>3, <3>1 DEF ReadNumber, home, TypeOK
            <4>2. OwnNumbers(sc) = 1..k
                BY <1>1, <2>1, IssuedIs DEF CounterAt
            <4>3. Latest(sc) + 1 \in 1..(k + 1) /\ Latest(sc) <= LastPadded
                BY <4>2, NextNumber
            <4>4. LastPadded \in Nat /\ Latest(sc) \in Nat
                BY <1>3, <4>1, GenerationAssumptions DEF GenerationAssumptions
            <4> QED BY <3>1, <4>1, <4>3, <4>4
        <3>2. CASE q # p
            BY <1>1, <2>1, <2>3, <3>2 DEF ReadNumber, TypeOK, CounterAt
        <3> QED BY <3>1, <3>2
    <2> QED BY <2>1, <2>2, <2>3 DEF CounterAt
<1> QED BY <1>5, <1>6, <1>7, <1>8 DEF GenerationInv, ReadNumber

(* The insert: what goes in is the candidate, whose number nobody has.       *)
LEMMA CreateStep ==
    ASSUME GenerationInv, NEW p \in Procs, Create(p)
    PROVE  GenerationInv'
<1>0. PICK s \in Students : cur[p] = s
    BY GenerationAssumptions DEF GenerationAssumptions, GenerationInv, TypeOK, Create
<1> DEFINE c == Candidate(p)
           home == SchoolOf[s]
           Inserts == NumberFree(c.no) /\ ~HasInvoice(s)
<1>1. /\ TypeOK /\ pc[p] = "create" /\ s \in Billable /\ home \in Schools
      /\ number[p] \in Nat \ {0} /\ reduction[p] \in Nat /\ AnswerOK(p)
    BY <1>0, GenerationAssumptions DEF GenerationAssumptions, GenerationInv, TypeOK, Create
<1>2. /\ c.student = s /\ c.no.prefix = Prefix[home] /\ c.no.n = number[p]
      /\ c.amountDue \in Nat /\ c.status \in StatusesAtIssue
    <2>1. AmountDue(s, reduction[p]) \in Nat
        BY <1>1, GenerationAssumptions DEF GenerationAssumptions, AmountDue
    <2> QED BY <1>0, <2>1 DEF Candidate, StatusAtIssue, StatusesAtIssue
<1>3. /\ pc' = [pc EXCEPT ![p] = "lookup"] /\ cur' = [cur EXCEPT ![p] = NoStudent]
      /\ UNCHANGED <<approved, todo, reduction, number, timeouts>>
      /\ \/ /\ Inserts /\ invoices' = invoices \cup {c}
            /\ report' = [report EXCEPT ![p].created = @ \cup {s}]
         \/ /\ ~Inserts /\ invoices' = invoices
            /\ report' = [report EXCEPT ![p].errors = @ \cup {s}]
    BY <1>0 DEF Create
<1> HIDE DEF c, Inserts
<1>4. TypeOK'
    <2>1. \A v \in invoices' : /\ v.student \in Billable
                               /\ v.no.prefix = Prefix[SchoolOf[v.student]]
                               /\ v.no.n \in Nat \ {0}
                               /\ v.amountDue \in Nat
                               /\ v.status \in StatusesAtIssue
        BY <1>1, <1>2, <1>3 DEF TypeOK
    <2>2. report' \in [Procs -> [chosen : SUBSET Students, created : SUBSET Students,
                                 skipped : SUBSET Students, errors : SUBSET Students]]
        <3> DEFINE Answers == [chosen : SUBSET Students, created : SUBSET Students,
                               skipped : SUBSET Students, errors : SUBSET Students]
        <3>1. report \in [Procs -> Answers]
            BY <1>1 DEF TypeOK
        <3>2. \A r \in Answers : /\ [r EXCEPT !.created = @ \cup {s}] \in Answers
                                 /\ [r EXCEPT !.errors = @ \cup {s}] \in Answers
            OBVIOUS
        <3>3. \/ report' = [report EXCEPT ![p] = [report[p] EXCEPT !.created = @ \cup {s}]]
              \/ report' = [report EXCEPT ![p] = [report[p] EXCEPT !.errors = @ \cup {s}]]
            BY <1>3
        <3> HIDE DEF Answers
        <3>4. report' \in [Procs -> Answers]
            BY <3>1, <3>2, <3>3, ZenonT(60)
        <3> QED BY <3>4 DEF Answers
    <2> QED BY <1>1, <1>3, <2>1, <2>2 DEF TypeOK, Stages
<1>5. IsFiniteSet(invoices')
    BY <1>3, FS_AddElement DEF GenerationInv
<1>6. AnswerOK(p)'
    <2>1. /\ InHand(p) = {s} /\ InHand(p)' = {} /\ todo'[p] = todo[p]
          /\ \A t : HasInvoice(t) => HasInvoice(t)'
        BY <1>0, <1>1, <1>3 DEF TypeOK, InHand, HasInvoice
    <2>2. CASE Inserts
        <3>1. report'[p] = [report[p] EXCEPT !.created = @ \cup {s}] /\ HasInvoice(s)'
            BY <1>1, <1>2, <1>3, <2>2 DEF TypeOK, HasInvoice
        <3> QED BY <1>1, <2>1, <3>1 DEF TypeOK, AnswerOK, Accounted
    <2>3. CASE ~Inserts
        <3>1. report'[p] = [report[p] EXCEPT !.errors = @ \cup {s}]
            BY <1>1, <1>3, <2>3 DEF TypeOK
        <3> QED BY <1>1, <2>1, <3>1 DEF TypeOK, AnswerOK, Accounted
    <2> QED BY <2>2, <2>3
<1>7. \A q \in Procs : q # p => AnswerOK(q)'
    BY <1>1, <1>3, OtherAnswers, ZenonT(60) DEF GenerationInv, TypeOK
<1>8. \A q \in Procs : pc'[q] = "create" =>
          q # p /\ pc[q] = "create" /\ cur'[q] = cur[q] /\ number'[q] = number[q]
    BY <1>1, <1>3 DEF TypeOK
<1>9. CASE ~Inserts
    <2>1. Counters'
        BY <1>3, <1>8, <1>9, SameCounters DEF GenerationInv
    <2> QED BY <1>4, <1>5, <1>6, <1>7, <2>1 DEF GenerationInv
<1>10. CASE Inserts
    <2> DEFINE r == [school |-> home, prefix |-> Prefix[home], n |-> number[p]]
    <2>1. Issued' = Issued \cup {r}
        <3>1. r = [school |-> SchoolOf[c.student], prefix |-> c.no.prefix, n |-> c.no.n]
            BY <1>2
        <3> HIDE DEF r
        <3> QED BY <1>3, <1>10, <3>1 DEF Issued
    <2>2. Counters'
        <3> SUFFICES ASSUME NEW sc \in Schools, OwnPrefix(sc)
                     PROVE  \E k \in 0..(LastPadded + 1) : CounterAt(sc, k)'
            BY DEF Counters
        <3>1. PICK k \in 0..(LastPadded + 1) : CounterAt(sc, k)
            BY DEF GenerationInv, Counters
        <3>2. LastPadded \in Nat
            BY GenerationAssumptions DEF GenerationAssumptions
        <3>3. CASE sc # home
            <4>1. NumbersOf(sc)' = NumbersOf(sc)
                <5>1. r.school # sc
                    BY <3>3
                <5> HIDE DEF r
                <5>2. {y \in Issued' : y.school = sc} = {y \in Issued : y.school = sc}
                    BY <2>1, <5>1
                <5> QED BY <5>2 DEF NumbersOf
            <4> QED BY <1>8, <3>1, <4>1 DEF CounterAt
        <3>4. CASE sc = home
            <4>1. NumbersOf(sc)' = NumbersOf(sc) \cup {number[p]}
                <5>1. r.school = sc /\ r.n = number[p]
                    BY <3>4
                <5> HIDE DEF r
                <5>2. {y \in Issued' : y.school = sc} = {y \in Issued : y.school = sc} \cup {r}
                    BY <2>1, <5>1
                <5> QED BY <5>1, <5>2 DEF NumbersOf
            <4>2. number[p] \notin NumbersOf(sc)
                <5>1. \A y \in Issued : y.prefix # Prefix[home] \/ y.n # number[p]
                    BY <1>2, <1>10 DEF Inserts, NumberFree
                <5>2. \A y \in Issued : y.school = sc => y.prefix = Prefix[home]
                    BY <1>1, <3>4, IssuedIs
                <5> QED BY <5>1, <5>2 DEF NumbersOf
            <4>3. number[p] \in 1..(k + 1) /\ number[p] <= LastPadded + 1 /\ NumbersOf(sc) = 1..k
                BY <1>0, <1>1, <3>1, <3>4 DEF CounterAt
            <4>4. number[p] = k + 1
                BY <4>2, <4>3
            <4>5. k + 1 \in 0..(LastPadded + 1) /\ NumbersOf(sc)' = 1..(k + 1)
                BY <3>2, <4>1, <4>3, <4>4
            <4>6. \A q \in Procs : pc'[q] = "create" /\ SchoolOf[cur'[q]] = sc =>
                      number'[q] \in 1..(k + 1 + 1) /\ number'[q] <= LastPadded + 1
                BY <1>8, <3>1 DEF CounterAt
            <4> QED BY <4>5, <4>6 DEF CounterAt
        <3> QED BY <3>3, <3>4
    <2> QED BY <1>4, <1>5, <1>6, <1>7, <2>2 DEF GenerationInv
<1> QED BY <1>9, <1>10

(* A request that answers or is cut off leaves what it did.                  *)
LEMMA ForgetStep ==
    ASSUME GenerationInv, NEW p \in Procs, Forget(p), UNCHANGED <<invoices, approved>>,
           timeouts' \in 0..MaxTimeouts
    PROVE  GenerationInv'
<1>1. TypeOK'
    BY DEF GenerationInv, TypeOK, Forget, EmptyReport, Stages
<1>2. AnswerOK(p)'
    BY DEF GenerationInv, TypeOK, Forget, AnswerOK, Accounted, InHand, EmptyReport
<1>3. \A q \in Procs : q # p => AnswerOK(q)'
    BY OtherAnswers DEF GenerationInv, TypeOK, Forget
<1>4. Counters'
    BY SameCounters DEF GenerationInv, TypeOK, Forget
<1> QED BY <1>1, <1>2, <1>3, <1>4 DEF GenerationInv

(* A step that leaves the requests and the invoices alone.                   *)
LEMMA AwardStep ==
    ASSUME GenerationInv, UNCHANGED <<invoices, request, timeouts>>, approved' \in Approvals
    PROVE  GenerationInv'
<1>1. TypeOK'
    BY DEF GenerationInv, TypeOK, request
<1>2. \A q \in Procs : AnswerOK(q)'
    BY DEF GenerationInv, request, AnswerOK, Accounted, InHand, HasInvoice
<1>3. Counters'
    BY SameCounters DEF GenerationInv, request
<1> QED BY <1>1, <1>2, <1>3 DEF GenerationInv, request

LEMMA GenerationNext == GenerationInv /\ [Next]_vars => GenerationInv'
<1> SUFFICES ASSUME GenerationInv, [Next]_vars PROVE GenerationInv'
    OBVIOUS
<1>0. TypeOK /\ MaxTimeouts \in Nat /\ timeouts \in 0..MaxTimeouts
    BY GenerationAssumptions DEF GenerationAssumptions, GenerationInv, TypeOK
<1>1. ASSUME NEW p \in Procs, RequestStep(p) PROVE GenerationInv'
    <2>1. CASE Respond(p)
        BY <1>0, <2>1, ForgetStep DEF Respond
    <2> QED BY <1>1, <2>1, LookupStep, DiscountStep, NumberStep, CreateStep DEF RequestStep
<1>2. ASSUME NEW p \in Procs, TimesOut(p) PROVE GenerationInv'
    <2>1. timeouts' \in 0..MaxTimeouts
        BY <1>0, <1>2 DEF TimesOut
    <2> QED BY <1>2, <2>1, ForgetStep DEF TimesOut
<1>3. ASSUME NEW s \in Students, NEW a \in Awards[s], AwardChanges(s, a) PROVE GenerationInv'
    <2>1. approved' \in Approvals
        BY <1>0, <1>3 DEF TypeOK, Approvals, AwardChanges
    <2> QED BY <1>3, <2>1, AwardStep DEF AwardChanges
<1>4. CASE UNCHANGED vars
    <2>1. approved' \in Approvals
        BY <1>0, <1>4 DEF TypeOK, vars
    <2> QED BY <1>4, <2>1, AwardStep DEF vars
<1> QED BY <1>1, <1>2, <1>3, <1>4, StartStep DEF Next

(* The invariant holds whatever runs at the same time.                       *)
LEMMA GenerationInvariant == Spec => []GenerationInv
<1> QED BY GenerationInit, GenerationNext, PTL DEF Spec

----------------------------------------------------------------------------
(* The theorems                                                              *)

(* The variables keep their types: what is billed is billed to a student     *)
(* with fees, under a number of the school, with a status fit for an invoice *)
(* that nothing was paid on (POST .../invoices/generate).                    *)
THEOREM InvoiceTypes == Spec => []TypeOK
<1>1. GenerationInv => TypeOK
    BY DEF GenerationInv
<1> QED BY <1>1, GenerationInvariant, PTL

(* The answer of a generation accounts for every student asked for exactly   *)
(* once and counts nobody as billed who has no invoice, whatever ran beside  *)
(* it (the loop of POST .../invoices/generate and its result).               *)
THEOREM AnswersAreHonest == Spec => []ReportHonest
<1>1. GenerationInv => ReportHonest
    <2> SUFFICES ASSUME GenerationInv, NEW p \in Procs
                 PROVE  /\ Answered(p) => Accounted(p) = report[p].chosen
                        /\ report[p].created \cap (report[p].skipped \cup report[p].errors) = {}
                        /\ report[p].skipped \cap report[p].errors = {}
                        /\ \A s \in report[p].created \cup report[p].skipped : HasInvoice(s)
        BY DEF ReportHonest
    <2> QED BY DEF GenerationInv, AnswerOK, Answered, InHand
<1> QED BY <1>1, GenerationInvariant, PTL

(* A school alone with its prefix issues 1, 2, 3 and so on without a hole or *)
(* a repeat, although the latest number is read by one query and used by     *)
(* another, and generations overlap (generateInvoiceNumber and the unique    *)
(* invoiceNo).                                                               *)
THEOREM NumbersHaveNoHoles == Spec => []NumbersConsecutive
<1>1. GenerationInv => NumbersConsecutive
    <2> SUFFICES ASSUME GenerationInv, NEW sc \in Schools, OwnPrefix(sc)
                 PROVE  NumbersOf(sc) = 1..Cardinality(NumbersOf(sc))
        BY DEF NumbersConsecutive
    <2>1. PICK k \in 0..(LastPadded + 1) : NumbersOf(sc) = 1..k
        BY DEF GenerationInv, Counters, CounterAt
    <2>2. k \in Nat
        BY GenerationAssumptions DEF GenerationAssumptions
    <2>3. Cardinality(1..k) = IF 1 > k THEN 0 ELSE k - 1 + 1
        BY <2>2, FS_Interval
    <2>4. Cardinality(1..k) = k
        BY <2>2, <2>3
    <2> QED BY <2>1, <2>2, <2>4
<1> QED BY <1>1, GenerationInvariant, PTL

(* Generating again, or twice at once, never bills a student again: invoices *)
(* are only added, and only for students that have none (the check before    *)
(* the insert and the unique index of (student, term)).                      *)
THEOREM NobodyIsRebilled == Spec => NeverRebilled
<1>1. [Next]_vars => [/\ invoices \subseteq invoices'
                     /\ \A v \in invoices' \ invoices : ~HasInvoice(v.student)]_vars
    <2> SUFFICES ASSUME Next
                 PROVE  /\ invoices \subseteq invoices'
                        /\ \A v \in invoices' \ invoices : ~HasInvoice(v.student)
        OBVIOUS
    <2>1. ASSUME NEW p \in Procs, Create(p)
          PROVE  invoices' = invoices \/ (invoices' = invoices \cup {Candidate(p)} /\ ~HasInvoice(cur[p]))
        BY <2>1 DEF Create
    <2>2. \A p \in Procs : Candidate(p).student = cur[p]
        BY DEF Candidate
    <2>3. ASSUME NEW p \in Procs, Create(p)
          PROVE  /\ invoices \subseteq invoices'
                 /\ \A v \in invoices' \ invoices : ~HasInvoice(v.student)
        BY <2>1, <2>2, <2>3
    <2>4. (\A p \in Procs : ~Create(p)) => invoices' = invoices
        BY DEF Next, RequestStep, Start, Lookup, PickDiscount, ReadNumber, Respond, TimesOut, AwardChanges
    <2> QED BY <2>3, <2>4
<1> QED BY <1>1, PTL DEF Spec, NeverRebilled

(* Once a school alone with its prefix has issued the first number of the    *)
(* next width, 10000, no step issues it an invoice again: every number that  *)
(* is made up, also one that was read before, is taken, and whoever is left  *)
(* gets none (generateInvoiceNumber, padStart(4), orderBy invoiceNo desc).   *)
THEOREM CounterStops ==
    Spec => [][\A v \in invoices' \ invoices :
                   LET home == SchoolOf[v.student] IN OwnPrefix(home) => ~Stopped(home)]_vars
<1> DEFINE Issues == \A v \in invoices' \ invoices :
                         LET home == SchoolOf[v.student] IN OwnPrefix(home) => ~Stopped(home)
<1>1. ASSUME GenerationInv, NEW p \in Procs, Create(p), NumberFree(Candidate(p).no),
             OwnPrefix(SchoolOf[cur[p]])
      PROVE  ~Stopped(SchoolOf[cur[p]])
    <2> DEFINE home == SchoolOf[cur[p]]
    <2>1. /\ home \in Schools
          /\ \A no \in Issued : no.school = home => no.n # number[p]
        <3>1. cur[p] \in Billable
            BY <1>1 DEF GenerationInv, TypeOK, Create
        <3>2. home \in Schools
            BY <3>1, GenerationAssumptions DEF GenerationAssumptions
        <3>3. \A no \in Issued : no.prefix = Prefix[no.school]
            BY <1>1, IssuedIs DEF GenerationInv
        <3>4. Candidate(p).no.prefix = Prefix[home] /\ Candidate(p).no.n = number[p]
            BY DEF Candidate
        <3> QED BY <1>1, <3>2, <3>3, <3>4 DEF NumberFree
    <2>2. number[p] \notin NumbersOf(home)
        BY <2>1 DEF NumbersOf
    <2>3. PICK k \in 0..(LastPadded + 1) : CounterAt(home, k)
        BY <1>1, <2>1 DEF GenerationInv, Counters
    <2>4. number[p] \in 1..(k + 1) /\ number[p] <= LastPadded + 1 /\ NumbersOf(home) = 1..k
        BY <1>1, <2>3 DEF CounterAt, Create
    <2>5. LastPadded \in Nat
        BY GenerationAssumptions DEF GenerationAssumptions
    <2>6. LastPadded + 1 \notin 1..k
        BY <2>2, <2>4, <2>5
    <2> QED BY <2>4, <2>6 DEF Stopped
<1>2. GenerationInv /\ [Next]_vars => [Issues]_vars
    <2> SUFFICES ASSUME GenerationInv, Next PROVE Issues
        OBVIOUS
    <2>1. ASSUME NEW p \in Procs, Create(p) PROVE Issues
        <3>1. Candidate(p).student = cur[p]
            BY DEF Candidate
        <3>2. \/ invoices' = invoices \cup {Candidate(p)} /\ NumberFree(Candidate(p).no)
              \/ invoices' = invoices
            BY <2>1 DEF Create
        <3> QED BY <1>1, <2>1, <3>1, <3>2
    <2>2. (\A p \in Procs : ~Create(p)) => invoices' = invoices
        BY DEF Next, RequestStep, Start, Lookup, PickDiscount, ReadNumber, Respond, TimesOut, AwardChanges
    <2> QED BY <2>1, <2>2
<1> QED BY <1>2, GenerationInvariant, PTL DEF Spec
=============================================================================
