------------------------- MODULE LibraryLoansProofs -------------------------
(***************************************************************************)
(* Proofs about LibraryLoans, for any books, students, copies, loans and   *)
(* overlapping requests.                                                   *)
(***************************************************************************)
EXTENDS LibraryLoans, FiniteSetTheorems, SequenceTheorems, TLAPS

AddStages    == {"library_find", "library_create", "book_create"}
IssueStages  == {"issue_check", "issue_write"}
ReturnStages == {"return_rate", "return_write"}

AddJobs    == [op : {"add"}, book : Books, total : Copies]
EditJobs   == [op : {"edit"}, book : Books, total : Copies, available : Nat]
DeleteJobs == [op : {"delete"}, book : Books]
IssueJobs  == [op : {"issue"}, book : Books, student : Students, due : Times]
ReturnJobs == [op : {"return"}, loan : 1..MaxLoans, at : Times \cup {NotReturned}]

BookRow == [state : {"absent", "listed", "deleted"}, total : 0..MaxCopies, available : Int]
LoanRow == [book : Books, student : Students, due : Times,
            returned : Times \cup {NotReturned}, fine : Nat]

(* A request's job is the one its stage is about.                            *)
JobFits(p) ==
    /\ pc[p] \in AddStages => job[p] \in AddJobs
    /\ pc[p] = "edit_write" => job[p] \in EditJobs
    /\ pc[p] = "delete_write" => job[p] \in DeleteJobs
    /\ pc[p] \in IssueStages => job[p] \in IssueJobs
    /\ pc[p] \in ReturnStages => job[p] \in ReturnJobs /\ job[p].loan <= Len(loans)
    /\ pc[p] = "return_write" => job[p].at # NotReturned

(* What an edit is about to write back, with no other request beside it,     *)
(* leaves every copy accounted for.                                          *)
EditKeeps(p) ==
    "edit" \notin overlaps /\ pc[p] = "edit_write" =>
        job[p].available + Cardinality(Active(job[p].book)) >= job[p].total

(* With one librarian what a request found is still so.                      *)
InTurn(p) ==
    overlaps = {} =>
        /\ pc[p] \in IssueStages => books[job[p].book].available >= 1
        /\ pc[p] = "issue_write" => OnLoanTo(job[p].book, job[p].student) = {}
        /\ pc[p] \in ReturnStages => loans[job[p].loan].returned = NotReturned

RequestOK(p) == JobFits(p) /\ EditKeeps(p) /\ InTurn(p)

(* Nothing runs beside another request, nothing beside an edit.              *)
Alone ==
    /\ overlaps = {} => \A p, q \in Procs : pc[p] # "idle" /\ pc[q] # "idle" => p = q
    /\ "edit" \notin overlaps =>
         \A p, q \in Procs : pc[p] = "edit_write" /\ pc[q] # "idle" => p = q

(* The requests that are about to lend a copy of b.                          *)
Lending(b) == {p \in Procs : pc[p] \in IssueStages /\ job[p].book = b}

(* Each of these found a copy on the shelf.                                  *)
Shelf(b) == books[b].available - Cardinality(Lending(b)) >= 1 - Cardinality(Procs)

Kept(b) == "edit" \notin overlaps => books[b].available + Cardinality(Active(b)) >= books[b].total

KeptInTurn(b) ==
    overlaps = {} => /\ books[b].available >= 0
                     /\ \A s \in Students : Cardinality(OnLoanTo(b, s)) <= 1

BooksOK == \A b \in Books : Shelf(b) /\ Kept(b) /\ KeptInTurn(b)

LoansLeft == Len(loans) + Cardinality(Issuing) <= MaxLoans

LibraryInv == TypeOK /\ Alone /\ (\A p \in Procs : RequestOK(p)) /\ BooksOK /\ LoansLeft

----------------------------------------------------------------------------
(* Counting                                                                  *)

(* A set of requests is finite, and no larger than all of them.              *)
LEMMA RequestCount ==
    ASSUME NEW S \in SUBSET Procs
    PROVE  /\ IsFiniteSet(S) /\ Cardinality(S) \in Nat /\ Cardinality(Procs) \in Nat
           /\ Cardinality(S) <= Cardinality(Procs)
           /\ \A p \in Procs : p \notin S => Cardinality(S) <= Cardinality(Procs) - 1
<1>1. IsFiniteSet(Procs)
    BY LibraryAssumptions DEF LibraryAssumptions
<1>2. IsFiniteSet(S) /\ Cardinality(S) \in Nat /\ Cardinality(Procs) \in Nat
      /\ Cardinality(S) <= Cardinality(Procs)
    BY <1>1, FS_Subset, FS_CardinalityType
<1>3. ASSUME NEW p \in Procs, p \notin S PROVE Cardinality(S) <= Cardinality(Procs) - 1
    <2>1. S \in SUBSET (Procs \ {p})
        BY <1>3
    <2>2. IsFiniteSet(Procs \ {p}) /\ Cardinality(Procs \ {p}) = Cardinality(Procs) - 1
        BY <1>1, <1>3, FS_RemoveElement
    <2>3. Cardinality(S) <= Cardinality(Procs \ {p})
        BY <2>1, <2>2, FS_Subset
    <2> QED BY <2>2, <2>3
<1> QED BY <1>2, <1>3

(* One member more, one less.                                                *)
LEMMA CountStep ==
    ASSUME NEW S, IsFiniteSet(S), NEW x
    PROVE  /\ Cardinality(S) \in Nat /\ IsFiniteSet(S \cup {x}) /\ IsFiniteSet(S \ {x})
           /\ Cardinality(S \cup {x}) \in Nat /\ Cardinality(S \ {x}) \in Nat
           /\ x \notin S => Cardinality(S \cup {x}) = Cardinality(S) + 1
           /\ x \in S => Cardinality(S \ {x}) = Cardinality(S) - 1
           /\ Cardinality(S \cup {x}) <= Cardinality(S) + 1
           /\ Cardinality(S \ {x}) >= Cardinality(S) - 1
<1>1. IsFiniteSet(S \cup {x}) /\ IsFiniteSet(S \ {x})
    BY FS_AddElement, FS_RemoveElement
<1>2. Cardinality(S) \in Nat /\ Cardinality(S \cup {x}) \in Nat /\ Cardinality(S \ {x}) \in Nat
    BY <1>1, FS_CardinalityType
<1>3. CASE x \in S
    <2>1. S \cup {x} = S
        BY <1>3
    <2>2. Cardinality(S \ {x}) = Cardinality(S) - 1
        BY <1>3, FS_RemoveElement
    <2>3. Cardinality(S \cup {x}) <= Cardinality(S) + 1 /\ Cardinality(S \ {x}) >= Cardinality(S) - 1
        BY <1>2, <2>1, <2>2
    <2> QED BY <1>1, <1>2, <1>3, <2>2, <2>3
<1>4. CASE x \notin S
    <2>1. S \ {x} = S
        BY <1>4
    <2>2. Cardinality(S \cup {x}) = Cardinality(S) + 1
        BY <1>4, FS_AddElement
    <2>3. Cardinality(S \cup {x}) <= Cardinality(S) + 1 /\ Cardinality(S \ {x}) >= Cardinality(S) - 1
        BY <1>2, <2>1, <2>2
    <2> QED BY <1>1, <1>2, <1>4, <2>2, <2>3
<1> QED BY <1>3, <1>4

LEMMA ActiveIs ==
    ASSUME TypeOK, NEW b
    PROVE  /\ Loans = 1..Len(loans) /\ Len(loans) \in Nat
           /\ Active(b) \subseteq Loans /\ IsFiniteSet(Active(b)) /\ Cardinality(Active(b)) \in Nat
           /\ \A s : IsFiniteSet(OnLoanTo(b, s)) /\ Cardinality(OnLoanTo(b, s)) \in Nat
           /\ \A l \in Loans : loans[l] \in LoanRow
<1>1. loans \in Seq(LoanRow)
    BY DEF TypeOK, LoanRow
<1>2. Loans = 1..Len(loans) /\ Len(loans) \in Nat /\ \A l \in Loans : loans[l] \in LoanRow
    BY <1>1, LenProperties, ElementOfSeq DEF Loans
<1>3. IsFiniteSet(Loans)
    BY <1>2, FS_Interval
<1>4. Active(b) \subseteq Loans /\ \A s : OnLoanTo(b, s) \subseteq Loans
    BY DEF Active, OnLoanTo
<1>5. IsFiniteSet(Active(b)) /\ \A s : IsFiniteSet(OnLoanTo(b, s))
    BY <1>3, <1>4, FS_Subset
<1> QED BY <1>2, <1>4, <1>5, FS_CardinalityType

(* A late return costs a natural number of naira.                            *)
LEMMA FineType ==
    ASSUME NEW due \in Times, NEW at \in Times
    PROVE  Fine(due, at) \in Nat
<1>1. FinePerDay \in Nat /\ DayLength \in Nat /\ DayLength >= 1 /\ due \in Nat /\ at \in Nat
    BY LibraryAssumptions DEF LibraryAssumptions, Times
<1>2. ASSUME at > due PROVE Fine(due, at) \in Nat
    <2> DEFINE late == at - due + DayLength - 1
    <2>1. late \in Nat
        BY <1>1, <1>2
    <2>2. late \div DayLength \in Nat
        BY <1>1, <2>1
    <2>3. \A x, y \in Nat : x * y \in Nat
        OBVIOUS
    <2> HIDE DEF late
    <2>4. FinePerDay * (late \div DayLength) \in Nat
        BY <1>1, <2>2, <2>3
    <2> QED BY <1>1, <1>2, <2>4 DEF Fine, late
<1>3. ASSUME at <= due PROVE Fine(due, at) \in Nat
    BY <1>3 DEF Fine
<1> QED BY <1>1, <1>2, <1>3

----------------------------------------------------------------------------
(* The steps every request takes                                             *)

LEMMA LibraryInit == Init => LibraryInv
<1> SUFFICES ASSUME Init PROVE LibraryInv
    OBVIOUS
<1>1. MaxCopies \in Nat /\ MaxLoans \in Nat /\ MaxTime \in Nat
    BY LibraryAssumptions DEF LibraryAssumptions
<1>2. loans = <<>> /\ Len(loans) = 0 /\ loans \in Seq(LoanRow)
    BY EmptySeq DEF Init
<1>3. TypeOK
    BY <1>1, <1>2 DEF Init, TypeOK, LoanRow, Stages, Times
<1>4. Alone /\ \A p \in Procs : RequestOK(p)
    BY DEF Init, Alone, RequestOK, JobFits, EditKeeps, InTurn, AddStages, IssueStages, ReturnStages
<1>5. Issuing = {} /\ \A b : Lending(b) = {}
    BY DEF Init, Issuing, Lending, IssueStages
<1>6. Loans = {} /\ \A b : Active(b) = {} /\ \A s : OnLoanTo(b, s) = {}
    BY <1>2 DEF Loans, Active, OnLoanTo
<1>7. Cardinality({}) = 0
    BY FS_EmptySet
<1>8. LoansLeft
    BY <1>1, <1>2, <1>5, <1>7 DEF LoansLeft
<1>9. BooksOK
    <2>1. \A b \in Books : books[b].available = 0 /\ books[b].total = 0
        BY DEF Init
    <2>2. Cardinality(Procs) \in Nat /\ Cardinality(Procs) >= 1
        <3>1. PICK p : p \in Procs
            BY LibraryAssumptions DEF LibraryAssumptions
        <3>2. {p} \in SUBSET Procs /\ Cardinality({p}) = 1
            BY <3>1, FS_Singleton
        <3> QED BY <3>2, RequestCount
    <2>3. \A b \in Books : Shelf(b)
        BY <1>5, <1>7, <2>1, <2>2 DEF Shelf
    <2>4. \A b : Cardinality(Active(b)) = 0 /\ \A s : Cardinality(OnLoanTo(b, s)) = 0
        BY <1>6, <1>7
    <2>5. \A b \in Books : Kept(b)
        BY <2>1, <2>4 DEF Kept
    <2>6. \A b \in Books : KeptInTurn(b)
        BY <2>1, <2>4 DEF KeptInTurn
    <2> QED BY <2>3, <2>5, <2>6 DEF BooksOK
<1> QED BY <1>3, <1>4, <1>8, <1>9 DEF LibraryInv

(* What the other requests know does not depend on the step of p, as long as *)
(* the books and the loans are left alone.                                   *)
LEMMA OthersUndisturbed ==
    ASSUME LibraryInv, NEW p \in Procs, NEW q \in Procs, q # p,
           pc'[q] = pc[q], job'[q] = job[q], overlaps \subseteq overlaps', UNCHANGED <<books, loans>>
    PROVE  RequestOK(q)'
<1>1. RequestOK(q)
    BY DEF LibraryInv
<1>2. JobFits(q)'
    BY <1>1 DEF RequestOK, JobFits
<1>3. EditKeeps(q)'
    BY <1>1 DEF RequestOK, EditKeeps, Active, Loans
<1>4. InTurn(q)'
    BY <1>1 DEF RequestOK, InTurn, OnLoanTo, Active, Loans
<1> QED BY <1>2, <1>3, <1>4 DEF RequestOK

(* A request is taken up: to be lent, a copy must be on the shelf.           *)
LEMMA Taken ==
    ASSUME LibraryInv, NEW p \in Procs, NEW j \in Jobs, NEW stage \in Stages \ {"idle"},
           Begin(p, j, stage), UNCHANGED <<books, loans, library, now>>,
           stage = "edit_write" => j.op = "edit",
           stage \in IssueStages => /\ books[j.book].available >= 1
                                    /\ Len(loans) + Cardinality(Issuing) < MaxLoans,
           RequestOK(p)'
    PROVE  LibraryInv'
<1>1. /\ TypeOK /\ pc[p] = "idle" /\ pc' = [pc EXCEPT ![p] = stage] /\ job' = [job EXCEPT ![p] = j]
      /\ pc'[p] = stage /\ job'[p] = j
      /\ \A q \in Procs : q # p => pc'[q] = pc[q] /\ job'[q] = job[q]
    BY DEF LibraryInv, TypeOK, Begin
<1> DEFINE beside == {job[q] : q \in {x \in Procs : pc[x] # "idle"}}
<1>2. overlaps' = overlaps \cup (IF beside = {} THEN {}
                                 ELSE {IF k.op = "edit" THEN "edit" ELSE "other" : k \in beside \cup {j}})
    BY DEF Begin
<1>3. overlaps \subseteq overlaps' /\ overlaps' \subseteq {"edit", "other"}
    BY <1>1, <1>2 DEF TypeOK
<1>4. overlaps' = {} => \A q \in Procs : pc[q] = "idle"
    <2>1. ASSUME NEW q \in Procs, pc[q] # "idle" PROVE overlaps' # {}
        <3>1. job[q] \in beside
            BY <2>1
        <3> HIDE DEF beside
        <3> QED BY <1>2, <3>1
    <2> QED BY <2>1
<1>5. ASSUME "edit" \notin overlaps'
      PROVE  /\ \A q \in Procs : pc[q] # "edit_write"
             /\ stage = "edit_write" => \A q \in Procs : pc[q] = "idle"
    <2>1. ASSUME NEW q \in Procs, pc[q] = "edit_write" PROVE FALSE
        <3>1. job[q] \in beside /\ job[q].op = "edit"
            BY <2>1 DEF LibraryInv, RequestOK, JobFits, EditJobs
        <3> HIDE DEF beside
        <3> QED BY <1>2, <1>5, <3>1
    <2>2. ASSUME stage = "edit_write", NEW q \in Procs, pc[q] # "idle" PROVE FALSE
        <3>1. job[q] \in beside /\ j.op = "edit"
            BY <2>2
        <3> HIDE DEF beside
        <3> QED BY <1>2, <1>5, <3>1
    <2> QED BY <2>1, <2>2
<1> HIDE DEF beside
<1>6. TypeOK'
    BY <1>1, <1>3 DEF TypeOK
<1>7. Alone'
    BY <1>1, <1>3, <1>4, <1>5 DEF Alone
<1>8. \A q \in Procs : RequestOK(q)'
    BY <1>1, <1>3, OthersUndisturbed
<1>9. BooksOK'
    <2> SUFFICES ASSUME NEW b \in Books PROVE (Shelf(b) /\ Kept(b) /\ KeptInTurn(b))'
        BY DEF BooksOK
    <2>1. Shelf(b) /\ Kept(b) /\ KeptInTurn(b)
        BY DEF LibraryInv, BooksOK
    <2>2. Kept(b)' /\ KeptInTurn(b)'
        BY <1>3, <2>1 DEF Kept, KeptInTurn, OnLoanTo, Active, Loans
    <2>3. CASE stage \in IssueStages /\ j.book = b
        <3>1. Lending(b)' \in SUBSET Procs
            BY DEF Lending
        <3>2. Cardinality(Lending(b)') \in Nat /\ Cardinality(Lending(b)') <= Cardinality(Procs)
              /\ Cardinality(Procs) \in Nat
            BY <3>1, RequestCount
        <3>3. books'[b] = books[b] /\ books[b].available >= 1 /\ books[b].available \in Int
            BY <1>1, <2>3 DEF TypeOK
        <3>4. Shelf(b)'
            BY <3>2, <3>3 DEF Shelf
        <3> QED BY <2>2, <3>4
    <2>4. CASE ~(stage \in IssueStages /\ j.book = b)
        <3>1. Lending(b)' = Lending(b)
            BY <1>1, <2>4 DEF Lending, IssueStages
        <3>2. Shelf(b)'
            BY <2>1, <3>1 DEF Shelf
        <3> QED BY <2>2, <3>2
    <2> QED BY <2>3, <2>4
<1>10. LoansLeft'
    <2>1. Issuing \in SUBSET Procs /\ p \notin Issuing
        BY <1>1 DEF Issuing
    <2>2. Len(loans) \in Nat /\ MaxLoans \in Nat
        BY <1>1, ActiveIs, LibraryAssumptions DEF LibraryAssumptions
    <2>3. CASE stage \in IssueStages
        <3>1. Issuing' = Issuing \cup {p}
            BY <1>1, <2>3 DEF Issuing, IssueStages
        <3>2. /\ Cardinality(Issuing) \in Nat /\ Cardinality(Issuing \cup {p}) \in Nat
              /\ Cardinality(Issuing \cup {p}) <= Cardinality(Issuing) + 1
            BY <2>1, RequestCount, CountStep
        <3> QED BY <2>2, <2>3, <3>1, <3>2 DEF LoansLeft
    <2>4. CASE stage \notin IssueStages
        <3>1. Issuing' = Issuing
            BY <1>1, <2>4 DEF Issuing, IssueStages
        <3> QED BY <3>1 DEF LibraryInv, LoansLeft
    <2> QED BY <2>3, <2>4
<1> QED BY <1>6, <1>7, <1>8, <1>9, <1>10 DEF LibraryInv

(* A request goes on or ends, having written neither books nor loans.        *)
LEMMA Moved ==
    ASSUME LibraryInv, NEW p \in Procs, pc[p] # "idle", NEW stage \in Stages \ {"edit_write"},
           pc' = [pc EXCEPT ![p] = stage], NEW j \in Jobs \cup {NoJob}, job' = [job EXCEPT ![p] = j],
           stage \in IssueStages => pc[p] \in IssueStages /\ j = job[p],
           overlaps' = overlaps, UNCHANGED <<books, loans, now>>, library' \in BOOLEAN,
           RequestOK(p)'
    PROVE  LibraryInv'
<1>1. /\ TypeOK /\ pc'[p] = stage /\ job'[p] = j
      /\ \A q \in Procs : q # p => pc'[q] = pc[q] /\ job'[q] = job[q]
    BY DEF LibraryInv, TypeOK
<1>2. TypeOK'
    BY <1>1 DEF TypeOK
<1>3. Alone'
    BY <1>1 DEF LibraryInv, Alone
<1>4. \A q \in Procs : RequestOK(q)'
    BY <1>1, OthersUndisturbed
<1>5. BooksOK'
    <2> SUFFICES ASSUME NEW b \in Books PROVE (Shelf(b) /\ Kept(b) /\ KeptInTurn(b))'
        BY DEF BooksOK
    <2>1. Shelf(b) /\ Kept(b) /\ KeptInTurn(b)
        BY DEF LibraryInv, BooksOK
    <2>2. Kept(b)' /\ KeptInTurn(b)'
        BY <2>1 DEF Kept, KeptInTurn, OnLoanTo, Active, Loans
    <2>3. Lending(b) \in SUBSET Procs /\ Lending(b)' \subseteq Lending(b)
        BY <1>1 DEF Lending
    <2>4. /\ Cardinality(Lending(b)) \in Nat /\ Cardinality(Lending(b)') \in Nat
          /\ Cardinality(Lending(b)') <= Cardinality(Lending(b)) /\ Cardinality(Procs) \in Nat
        BY <2>3, RequestCount, FS_Subset, FS_CardinalityType
    <2>5. books'[b] = books[b] /\ books[b].available \in Int
        BY <1>1 DEF TypeOK
    <2>6. Shelf(b)'
        BY <2>1, <2>4, <2>5 DEF Shelf
    <2> QED BY <2>2, <2>6
<1>6. LoansLeft'
    <2>1. Issuing \in SUBSET Procs /\ Issuing' \subseteq Issuing
        BY <1>1 DEF Issuing, IssueStages
    <2>2. /\ Cardinality(Issuing) \in Nat /\ Cardinality(Issuing') \in Nat
          /\ Cardinality(Issuing') <= Cardinality(Issuing)
        BY <2>1, RequestCount, FS_Subset, FS_CardinalityType
    <2>3. Len(loans) \in Nat /\ MaxLoans \in Nat
        BY <1>1, ActiveIs, LibraryAssumptions DEF LibraryAssumptions
    <2> QED BY <2>2, <2>3 DEF LibraryInv, LoansLeft
<1> QED BY <1>2, <1>3, <1>4, <1>5, <1>6 DEF LibraryInv

(* A request writes and ends: what it leaves is shown of the books; the      *)
(* others only count on them when there are no others.                       *)
LEMMA Written ==
    ASSUME LibraryInv, NEW p \in Procs, pc[p] # "idle", Finish(p), UNCHANGED <<library, now>>,
           books' \in [Books -> BookRow], loans' \in Seq(LoanRow), Len(loans) <= Len(loans'),
           Len(loans') > Len(loans) => p \in Issuing /\ Len(loans') = Len(loans) + 1,
           \A b \in Books : (Shelf(b) /\ Kept(b) /\ KeptInTurn(b))'
    PROVE  LibraryInv'
<1>1. /\ TypeOK /\ Alone /\ pc'[p] = "idle" /\ overlaps' = overlaps
      /\ \A q \in Procs : q # p => pc'[q] = pc[q] /\ job'[q] = job[q]
    BY DEF LibraryInv, TypeOK, Finish
<1>2. Issuing' = Issuing \ {p} /\ Issuing \in SUBSET Procs
    BY <1>1 DEF Issuing
<1>3. /\ Len(loans) \in Nat /\ Len(loans') \in Nat /\ MaxLoans \in Nat
      /\ Cardinality(Issuing) \in Nat /\ Cardinality(Issuing') \in Nat
      /\ p \in Issuing => Cardinality(Issuing') = Cardinality(Issuing) - 1
      /\ p \notin Issuing => Cardinality(Issuing') = Cardinality(Issuing)
    <2>1. /\ IsFiniteSet(Issuing) /\ Cardinality(Issuing) \in Nat
        BY <1>2, RequestCount
    <2>2. p \notin Issuing => Issuing' = Issuing
        BY <1>2
    <2> QED BY <1>1, <1>2, <2>1, <2>2, CountStep, ActiveIs, LenProperties, LibraryAssumptions
            DEF LibraryAssumptions
<1>4. LoansLeft' /\ Len(loans') <= MaxLoans
    <2>1. Len(loans) + Cardinality(Issuing) <= MaxLoans
        BY DEF LibraryInv, LoansLeft
    <2>2. Len(loans') + Cardinality(Issuing') <= MaxLoans
        BY <1>3, <2>1
    <2>3. Len(loans') <= MaxLoans
        BY <1>3, <2>2
    <2> QED BY <2>2, <2>3 DEF LoansLeft
<1>5. TypeOK'
    <2>1. /\ pc' \in [Procs -> Stages] /\ job' \in [Procs -> Jobs \cup {NoJob}]
          /\ library' \in BOOLEAN /\ now' \in Times /\ overlaps' \subseteq {"edit", "other"}
        BY <1>1 DEF TypeOK, Finish, Stages
    <2> QED BY <1>4, <2>1 DEF TypeOK, BookRow, LoanRow
<1>6. Alone'
    BY <1>1 DEF Alone
<1>7. RequestOK(p)'
    BY <1>1 DEF RequestOK, JobFits, EditKeeps, InTurn, AddStages, IssueStages, ReturnStages
<1>8. ASSUME NEW q \in Procs, q # p PROVE RequestOK(q)'
    <2>1. RequestOK(q) /\ pc'[q] = pc[q] /\ job'[q] = job[q]
        BY <1>1, <1>8 DEF LibraryInv
    <2>2. overlaps = {} => pc[q] = "idle"
        BY <1>1, <1>8 DEF Alone
    <2>3. "edit" \notin overlaps => pc[q] # "edit_write"
        BY <1>1, <1>8 DEF Alone
    <2>4. JobFits(q)'
        <3>1. pc[q] \in ReturnStages => job[q].loan <= Len(loans')
            <4>1. pc[q] \in ReturnStages => job[q].loan \in 1..MaxLoans /\ job[q].loan <= Len(loans)
                BY <2>1 DEF RequestOK, JobFits, ReturnJobs
            <4> QED BY <1>3, <4>1
        <3> QED BY <2>1, <3>1 DEF RequestOK, JobFits
    <2>5. EditKeeps(q)'
        BY <1>1, <2>1, <2>3 DEF EditKeeps
    <2>6. InTurn(q)'
        BY <1>1, <2>1, <2>2 DEF InTurn, IssueStages, ReturnStages
    <2> QED BY <2>4, <2>5, <2>6 DEF RequestOK
<1> QED BY <1>4, <1>5, <1>6, <1>7, <1>8 DEF LibraryInv, BooksOK

(* A request that ends lends no more.                                        *)
LEMMA LendingEnds ==
    ASSUME TypeOK, NEW p \in Procs, Finish(p), NEW b
    PROVE  /\ Cardinality(Lending(b)) \in Nat /\ Cardinality(Lending(b)') \in Nat
           /\ Cardinality(Procs) \in Nat
           /\ Cardinality(Lending(b)') <= Cardinality(Lending(b))
           /\ Cardinality(Lending(b)') <= Cardinality(Procs) - 1
           /\ p \in Lending(b) => Cardinality(Lending(b)') = Cardinality(Lending(b)) - 1
<1>1. Lending(b) \in SUBSET Procs /\ Lending(b)' = Lending(b) \ {p} /\ Lending(b)' \in SUBSET Procs
    BY DEF TypeOK, Finish, Lending, IssueStages
<1>2. /\ IsFiniteSet(Lending(b)) /\ Cardinality(Lending(b)) \in Nat /\ Cardinality(Lending(b)') \in Nat
      /\ Cardinality(Procs) \in Nat
    BY <1>1, RequestCount
<1>3. Cardinality(Lending(b)') <= Cardinality(Procs) - 1
    <2>1. p \notin Lending(b)'
        BY <1>1
    <2> QED BY <1>1, <2>1, RequestCount
<1>4. Cardinality(Lending(b)') <= Cardinality(Lending(b))
    BY <1>1, <1>2, FS_Subset
<1>5. p \in Lending(b) => Cardinality(Lending(b) \ {p}) = Cardinality(Lending(b)) - 1
    BY <1>2, CountStep
<1> QED BY <1>1, <1>2, <1>3, <1>4, <1>5

----------------------------------------------------------------------------
(* The books                                                                 *)

(* A request writes one book's row and ends.                                 *)
LEMMA BookWritten ==
    ASSUME LibraryInv, NEW p \in Procs, pc[p] # "idle", Finish(p), UNCHANGED <<loans, library, now>>,
           NEW c \in Books, NEW r \in BookRow, books' = [books EXCEPT ![c] = r],
           r.available >= 0 \/ r.available = books[c].available,
           "edit" \notin overlaps => r.available + Cardinality(Active(c)) >= r.total,
           overlaps = {} => r.available >= 0
    PROVE  LibraryInv'
<1>1. /\ TypeOK /\ overlaps' = overlaps /\ books \in [Books -> BookRow] /\ loans \in Seq(LoanRow)
    BY DEF LibraryInv, TypeOK, Finish, BookRow, LoanRow
<1>2. books' \in [Books -> BookRow]
    BY <1>1
<1>3. \A b : Active(b)' = Active(b) /\ \A s : OnLoanTo(b, s)' = OnLoanTo(b, s)
    BY DEF OnLoanTo, Active, Loans
<1>4. ASSUME NEW b \in Books PROVE (Shelf(b) /\ Kept(b) /\ KeptInTurn(b))'
    <2>1. Shelf(b) /\ Kept(b) /\ KeptInTurn(b) /\ books[b].available \in Int
        BY <1>1 DEF LibraryInv, BooksOK, BookRow
    <2>2. /\ Cardinality(Lending(b)) \in Nat /\ Cardinality(Lending(b)') \in Nat
          /\ Cardinality(Procs) \in Nat
          /\ Cardinality(Lending(b)') <= Cardinality(Lending(b))
          /\ Cardinality(Lending(b)') <= Cardinality(Procs) - 1
        BY <1>1, LendingEnds
    <2>3. CASE b = c
        <3>1. books'[b] = r /\ r.available \in Int
            BY <1>1, <2>3 DEF BookRow
        <3>2. r.available - Cardinality(Lending(b)') >= 1 - Cardinality(Procs)
            <4>1. CASE r.available >= 0
                BY <2>2, <3>1, <4>1
            <4>2. CASE r.available = books[c].available
                BY <2>1, <2>2, <2>3, <3>1, <4>2 DEF Shelf
            <4> QED BY <4>1, <4>2
        <3>3. Shelf(b)'
            BY <3>1, <3>2 DEF Shelf
        <3>4. Kept(b)'
            BY <1>1, <1>3, <2>3, <3>1 DEF Kept
        <3>5. KeptInTurn(b)'
            BY <1>1, <1>3, <2>1, <3>1 DEF KeptInTurn
        <3> QED BY <3>3, <3>4, <3>5
    <2>4. CASE b # c
        <3>1. books'[b] = books[b]
            BY <1>1, <2>4
        <3>2. Shelf(b)'
            BY <2>1, <2>2, <3>1 DEF Shelf
        <3>3. Kept(b)'
            BY <1>1, <1>3, <2>1, <3>1 DEF Kept
        <3>4. KeptInTurn(b)'
            BY <1>1, <1>3, <2>1, <3>1 DEF KeptInTurn
        <3> QED BY <3>2, <3>3, <3>4
    <2> QED BY <2>3, <2>4
<1>5. Len(loans') = Len(loans) /\ Len(loans) \in Nat
    BY <1>1, ActiveIs
<1>6. Len(loans) <= Len(loans') /\ ~(Len(loans') > Len(loans)) /\ loans' \in Seq(LoanRow)
    BY <1>1, <1>5
<1> QED BY <1>2, <1>4, <1>6, Written

LEMMA AddedBook ==
    ASSUME LibraryInv, NEW p \in Procs, CreateBook(p)
    PROVE  LibraryInv'
<1>1. /\ TypeOK /\ pc[p] = "book_create" /\ job[p] \in AddJobs /\ Finish(p) /\ RequestOK(p)
      /\ UNCHANGED <<loans, library, now>> /\ MaxCopies \in Nat
    BY LibraryAssumptions DEF LibraryAssumptions, LibraryInv, RequestOK, JobFits, AddStages, CreateBook
<1>2. PICK c \in Books, n \in Copies : job[p].book = c /\ job[p].total = n
    BY <1>1 DEF AddJobs
<1>3. CASE books[c].state = "absent"
    <2> DEFINE r == [state |-> "listed", total |-> n, available |-> n]
    <2>1. r \in BookRow /\ r.available = n /\ r.total = n /\ n \in Nat
        BY <1>1 DEF BookRow, Copies
    <2>2. books' = [books EXCEPT ![c] = r]
        BY <1>2, <1>3 DEF CreateBook
    <2> HIDE DEF r
    <2>3. r.available >= 0 /\ r.available + Cardinality(Active(c)) >= r.total
        <3>1. Cardinality(Active(c)) \in Nat
            BY <1>1, ActiveIs
        <3> QED BY <2>1, <3>1
    <2> QED BY <1>1, <2>1, <2>2, <2>3, BookWritten
<1>4. CASE books[c].state # "absent"
    <2>1. books' = books
        BY <1>2, <1>4 DEF CreateBook
    <2>2. /\ pc' = [pc EXCEPT ![p] = "idle"] /\ job' = [job EXCEPT ![p] = NoJob] /\ overlaps' = overlaps
          /\ pc'[p] = "idle"
        BY <1>1 DEF TypeOK, Finish
    <2>3. RequestOK(p)'
        BY <2>2 DEF RequestOK, JobFits, EditKeeps, InTurn, AddStages, IssueStages, ReturnStages
    <2>4. "idle" \in Stages \ {"edit_write"} /\ "idle" \notin IssueStages /\ library' \in BOOLEAN
        BY <1>1 DEF Stages, IssueStages, TypeOK
    <2> QED BY <1>1, <2>1, <2>2, <2>3, <2>4, Moved
<1> QED BY <1>3, <1>4

LEMMA EditedBook ==
    ASSUME LibraryInv, NEW p \in Procs, EditWrite(p)
    PROVE  LibraryInv'
<1>1. /\ TypeOK /\ pc[p] = "edit_write" /\ job[p] \in EditJobs /\ Finish(p) /\ RequestOK(p)
      /\ UNCHANGED <<loans, library, now>> /\ MaxCopies \in Nat
    BY LibraryAssumptions DEF LibraryAssumptions, LibraryInv, RequestOK, JobFits, EditWrite
<1>2. PICK c \in Books, n \in Copies, a \in Nat :
          job[p].book = c /\ job[p].total = n /\ job[p].available = a
    BY <1>1 DEF EditJobs
<1> DEFINE r == [books[c] EXCEPT !.total = n, !.available = a]
<1>3. r \in BookRow /\ r.available = a /\ r.total = n
    <2>1. books[c] \in BookRow
        BY <1>1 DEF BookRow, TypeOK
    <2>2. n \in 0..MaxCopies /\ a \in Int
        BY <1>1 DEF Copies
    <2> QED BY <2>1, <2>2 DEF BookRow
<1>4. books' = [books EXCEPT ![c] = r]
    BY <1>1, <1>2 DEF EditWrite, TypeOK
<1> HIDE DEF r
<1>5. "edit" \notin overlaps => r.available + Cardinality(Active(c)) >= r.total
    BY <1>1, <1>2, <1>3 DEF RequestOK, EditKeeps
<1>6. r.available >= 0
    BY <1>3
<1> QED BY <1>1, <1>3, <1>4, <1>5, <1>6, BookWritten

LEMMA DeletedBook ==
    ASSUME LibraryInv, NEW p \in Procs, DeleteWrite(p)
    PROVE  LibraryInv'
<1>1. /\ TypeOK /\ pc[p] = "delete_write" /\ job[p] \in DeleteJobs /\ Finish(p)
      /\ UNCHANGED <<loans, library, now>>
    BY DEF LibraryInv, RequestOK, JobFits, DeleteWrite
<1>2. PICK c \in Books : job[p].book = c
    BY <1>1 DEF DeleteJobs
<1> DEFINE r == [books[c] EXCEPT !.state = "deleted"]
<1>3. r \in BookRow /\ r.available = books[c].available /\ r.total = books[c].total
    BY <1>1, ZenonT(60) DEF BookRow, TypeOK
<1>4. books' = [books EXCEPT ![c] = r]
    BY <1>1, <1>2 DEF DeleteWrite, TypeOK
<1> HIDE DEF r
<1>5. /\ "edit" \notin overlaps => r.available + Cardinality(Active(c)) >= r.total
      /\ overlaps = {} => r.available >= 0
    BY <1>3 DEF LibraryInv, BooksOK, Kept, KeptInTurn
<1> QED BY <1>1, <1>3, <1>4, <1>5, BookWritten

----------------------------------------------------------------------------
(* The loans                                                                 *)

(* The transaction of an issue: one copy less on the shelf, one loan more.   *)
LEMMA IssuedBook ==
    ASSUME LibraryInv, NEW p \in Procs, IssueWrite(p)
    PROVE  LibraryInv'
<1>1. /\ TypeOK /\ pc[p] = "issue_write" /\ job[p] \in IssueJobs /\ Finish(p) /\ RequestOK(p)
      /\ UNCHANGED <<library, now>> /\ overlaps' = overlaps
      /\ books \in [Books -> BookRow] /\ loans \in Seq(LoanRow)
    BY DEF LibraryInv, RequestOK, JobFits, IssueStages, IssueWrite, Finish, TypeOK, BookRow, LoanRow
<1>2. PICK c \in Books, s \in Students, due \in Times :
          job[p].book = c /\ job[p].student = s /\ job[p].due = due
    BY <1>1 DEF IssueJobs
<1> DEFINE n == Len(loans)
           row == [book |-> c, student |-> s, due |-> due, returned |-> NotReturned, fine |-> 0]
<1>3. row \in LoanRow /\ row.book = c /\ row.student = s /\ row.returned = NotReturned
    BY DEF LoanRow
<1>4. books' = [books EXCEPT ![c].available = @ - 1] /\ loans' = Append(loans, row)
    BY <1>2 DEF IssueWrite
<1> HIDE DEF row
<1>5. /\ n \in Nat /\ Loans = 1..n /\ loans' \in Seq(LoanRow) /\ Len(loans') = n + 1
      /\ loans'[n + 1] = row /\ \A l \in 1..n : loans'[l] = loans[l]
    <2>1. n \in Nat /\ Loans = 1..n
        BY <1>1, ActiveIs
    <2>2. /\ Append(loans, row) \in Seq(LoanRow) /\ Len(Append(loans, row)) = n + 1
          /\ Append(loans, row)[n + 1] = row /\ \A l \in 1..n : Append(loans, row)[l] = loans[l]
        BY <1>1, <1>3, AppendProperties
    <2> QED BY <1>4, <2>1, <2>2
<1>6. books' \in [Books -> BookRow]
    <2>1. books[c] \in BookRow /\ books[c].available - 1 \in Int
        BY <1>1 DEF BookRow
    <2>2. [books[c] EXCEPT !.available = @ - 1] \in BookRow
        BY <2>1 DEF BookRow
    <2> QED BY <1>1, <1>4, <2>2
<1>7. Loans' = 1..(n + 1)
    BY <1>5, LenProperties DEF Loans
<1>8. ASSUME NEW b PROVE Active(b)' = IF b = c THEN Active(b) \cup {n + 1} ELSE Active(b)
    BY <1>3, <1>5, <1>7 DEF Active
<1>9. ASSUME NEW b, NEW t
      PROVE  OnLoanTo(b, t)' = IF b = c /\ t = s THEN OnLoanTo(b, t) \cup {n + 1} ELSE OnLoanTo(b, t)
    <2>1. \A l \in Active(b) : l \in 1..n
        BY <1>1, <1>5, ActiveIs
    <2> QED BY <1>3, <1>5, <1>8, <2>1 DEF OnLoanTo
<1> DEFINE m == n + 1
<1>10. \A b : n + 1 \notin Active(b)
    BY <1>1, <1>5, ActiveIs
<1> HIDE DEF n, m
<1>11. ASSUME NEW b \in Books PROVE (Shelf(b) /\ Kept(b) /\ KeptInTurn(b))'
    <2>1. Shelf(b) /\ Kept(b) /\ KeptInTurn(b) /\ books[b].available \in Int /\ books[b].total \in Int
        BY <1>1 DEF LibraryInv, BooksOK, BookRow
    <2>2. /\ Cardinality(Lending(b)) \in Nat /\ Cardinality(Lending(b)') \in Nat
          /\ Cardinality(Procs) \in Nat
          /\ Cardinality(Lending(b)') <= Cardinality(Lending(b))
          /\ p \in Lending(b) => Cardinality(Lending(b)') = Cardinality(Lending(b)) - 1
        BY <1>1, LendingEnds
    <2>3. CASE b = c
        <3>1. books'[b].available = books[b].available - 1 /\ books'[b].total = books[b].total
            BY <1>1, <1>4, <2>3 DEF BookRow
        <3>2. p \in Lending(b)
            BY <1>1, <1>2, <2>3 DEF Lending, IssueStages
        <3>3. Shelf(b)'
            BY <2>1, <2>2, <3>1, <3>2 DEF Shelf
        <3>4. Kept(b)'
            <4>1. /\ Cardinality(Active(b)) \in Nat /\ IsFiniteSet(Active(b))
                BY <1>1, ActiveIs
            <4>2. Cardinality(Active(b)') = Cardinality(Active(b)) + 1
                BY <1>8, <1>10, <2>3, <4>1, CountStep
            <4> QED BY <1>1, <2>1, <3>1, <4>1, <4>2 DEF Kept
        <3>5. KeptInTurn(b)'
            <4>1. ASSUME overlaps = {} PROVE books'[b].available >= 0
                BY <1>1, <1>2, <2>1, <2>3, <3>1, <4>1 DEF RequestOK, InTurn, IssueStages
            <4>2. ASSUME overlaps = {}, NEW t \in Students PROVE Cardinality(OnLoanTo(b, t)') <= 1
                <5>1. CASE t = s
                    <6>1. OnLoanTo(b, t) = {}
                        BY <1>1, <1>2, <2>3, <4>2, <5>1 DEF RequestOK, InTurn
                    <6>2. OnLoanTo(b, t)' = {n + 1}
                        BY <1>9, <2>3, <5>1, <6>1
                    <6>3. Cardinality({n + 1}) = 1
                        BY FS_Singleton
                    <6> QED BY <6>2, <6>3
                <5>2. CASE t # s
                    BY <1>9, <2>1, <4>2, <5>2 DEF KeptInTurn
                <5> QED BY <5>1, <5>2
            <4> QED BY <1>1, <4>1, <4>2 DEF KeptInTurn
        <3> QED BY <3>3, <3>4, <3>5
    <2>4. CASE b # c
        <3>1. books'[b] = books[b] /\ Active(b)' = Active(b) /\ \A t : OnLoanTo(b, t)' = OnLoanTo(b, t)
            BY <1>1, <1>4, <1>8, <1>9, <2>4
        <3>2. Shelf(b)'
            BY <2>1, <2>2, <3>1 DEF Shelf
        <3>3. Kept(b)' /\ KeptInTurn(b)'
            BY <1>1, <2>1, <3>1 DEF Kept, KeptInTurn
        <3> QED BY <3>2, <3>3
    <2> QED BY <2>3, <2>4
<1>12. p \in Issuing
    BY <1>1 DEF Issuing
<1>13. Len(loans) <= Len(loans') /\ Len(loans') = Len(loans) + 1
    BY <1>5 DEF n
<1>14. loans' \in Seq(LoanRow)
    BY <1>5
<1> QED BY <1>1, <1>6, <1>11, <1>12, <1>13, <1>14, Written

(* The transaction of a return: the loan gets its date and its fine, the     *)
(* shelf a copy, whether the loan was still active or not.                   *)
LEMMA ReturnedBook ==
    ASSUME LibraryInv, NEW p \in Procs, ReturnWrite(p)
    PROVE  LibraryInv'
<1>1. /\ TypeOK /\ pc[p] = "return_write" /\ job[p] \in ReturnJobs /\ Finish(p) /\ RequestOK(p)
      /\ job[p].loan <= Len(loans) /\ job[p].at # NotReturned
      /\ UNCHANGED <<library, now>> /\ overlaps' = overlaps
      /\ books \in [Books -> BookRow] /\ loans \in Seq(LoanRow)
    BY DEF LibraryInv, RequestOK, JobFits, ReturnStages, ReturnWrite, Finish, TypeOK, BookRow, LoanRow
<1>2. PICK l \in 1..MaxLoans, at \in Times : job[p].loan = l /\ job[p].at = at /\ at # NotReturned
    BY <1>1 DEF ReturnJobs
<1>3. l \in Loans /\ loans[l] \in LoanRow /\ Loans = 1..Len(loans) /\ Len(loans) \in Nat
    <2>1. l \in Nat /\ l >= 1 /\ l <= Len(loans)
        BY <1>1, <1>2, LibraryAssumptions DEF LibraryAssumptions
    <2> QED BY <1>1, <2>1, ActiveIs
<1>4. PICK c \in Books, due \in Times : loans[l].book = c /\ loans[l].due = due
    BY <1>3 DEF LoanRow
<1> DEFINE row == [loans[l] EXCEPT !.returned = at, !.fine = Fine(due, at)]
<1>5. /\ row \in LoanRow /\ row.book = c /\ row.returned # NotReturned /\ row.student = loans[l].student
    <2>1. Fine(due, at) \in Nat
        BY FineType
    <2> QED BY <1>2, <1>3, <1>4, <2>1 DEF LoanRow
<1>6. /\ books' = [books EXCEPT ![c].available = @ + 1]
      /\ loans' = [loans EXCEPT ![l] = row]
    BY <1>1, <1>2, <1>3, <1>4 DEF ReturnWrite, LoanRow
<1> HIDE DEF row
<1>7. /\ loans' \in Seq(LoanRow) /\ Len(loans') = Len(loans) /\ Loans' = Loans
      /\ loans'[l] = row /\ \A k \in Loans : k # l => loans'[k] = loans[k]
    BY <1>1, <1>3, <1>5, <1>6, ExceptSeq, LenProperties DEF Loans
<1>8. books' \in [Books -> BookRow]
    <2>1. books[c] \in BookRow /\ books[c].available + 1 \in Int
        BY <1>1 DEF BookRow
    <2>2. [books[c] EXCEPT !.available = @ + 1] \in BookRow
        BY <2>1 DEF BookRow
    <2> QED BY <1>1, <1>6, <2>2
<1>9. ASSUME NEW b PROVE Active(b)' = Active(b) \ {l}
    BY <1>3, <1>5, <1>7 DEF Active
<1>10. ASSUME NEW b, NEW t PROVE OnLoanTo(b, t)' = OnLoanTo(b, t) \ {l}
    <2>1. Active(b) \subseteq Loans
        BY <1>1, ActiveIs
    <2> QED BY <1>3, <1>7, <1>9, <2>1 DEF OnLoanTo
<1>11. \A b : b # c => l \notin Active(b)
    BY <1>4 DEF Active
<1>12. ASSUME NEW b \in Books PROVE (Shelf(b) /\ Kept(b) /\ KeptInTurn(b))'
    <2>1. Shelf(b) /\ Kept(b) /\ KeptInTurn(b) /\ books[b].available \in Int /\ books[b].total \in Int
        BY <1>1 DEF LibraryInv, BooksOK, BookRow
    <2>2. /\ Cardinality(Lending(b)) \in Nat /\ Cardinality(Lending(b)') \in Nat
          /\ Cardinality(Procs) \in Nat
          /\ Cardinality(Lending(b)') <= Cardinality(Lending(b))
        BY <1>1, LendingEnds
    <2>3. /\ books'[b].available = IF b = c THEN books[b].available + 1 ELSE books[b].available
          /\ books'[b].total = books[b].total
        BY <1>1, <1>6 DEF BookRow
    <2>4. Shelf(b)'
        BY <2>1, <2>2, <2>3 DEF Shelf
    <2>5. Kept(b)'
        <3>1. Cardinality(Active(b)) \in Nat /\ IsFiniteSet(Active(b))
            BY <1>1, ActiveIs
        <3>2. /\ Cardinality(Active(b)') \in Nat /\ Cardinality(Active(b)') >= Cardinality(Active(b)) - 1
            BY <1>9, <3>1, CountStep
        <3>3. b # c => Active(b)' = Active(b)
            BY <1>9, <1>11
        <3> QED BY <1>1, <2>1, <2>3, <3>1, <3>2, <3>3 DEF Kept
    <2>6. KeptInTurn(b)'
        <3>1. ASSUME overlaps = {} PROVE books'[b].available >= 0
            BY <2>1, <2>3, <3>1 DEF KeptInTurn
        <3>2. ASSUME overlaps = {}, NEW t \in Students PROVE Cardinality(OnLoanTo(b, t)') <= 1
            <4>1. Cardinality(OnLoanTo(b, t)) <= 1
                BY <2>1, <3>2 DEF KeptInTurn
            <4>2. Cardinality(OnLoanTo(b, t)) \in Nat /\ IsFiniteSet(OnLoanTo(b, t))
                BY <1>1, ActiveIs
            <4>3. Cardinality(OnLoanTo(b, t) \ {l}) <= Cardinality(OnLoanTo(b, t))
                  /\ Cardinality(OnLoanTo(b, t) \ {l}) \in Nat
                BY <4>2, FS_Subset, CountStep
            <4>4. Cardinality(OnLoanTo(b, t) \ {l}) <= 1
                BY <4>1, <4>2, <4>3
            <4> QED BY <1>10, <4>4
        <3> QED BY <1>1, <3>1, <3>2 DEF KeptInTurn
    <2> QED BY <2>4, <2>5, <2>6
<1>13. Len(loans) <= Len(loans') /\ ~(Len(loans') > Len(loans))
    BY <1>3, <1>7
<1>14. loans' \in Seq(LoanRow)
    BY <1>7
<1> QED BY <1>1, <1>8, <1>12, <1>13, <1>14, Written

----------------------------------------------------------------------------
(* The invariant                                                             *)

LEMMA EditTaken ==
    ASSUME LibraryInv, NEW p \in Procs, NEW b \in Books, NEW n \in Copies, EditRead(p, b, n)
    PROVE  LibraryInv'
<1> DEFINE moved == books[b].available + (n - books[b].total)
<1>1. /\ TypeOK /\ moved \in Int /\ books[b].available \in Int /\ books[b].total \in Int /\ n \in Int
    BY LibraryAssumptions DEF LibraryAssumptions, LibraryInv, TypeOK, Copies
<1>2. PICK a \in Nat : a = IF moved < 0 THEN 0 ELSE moved
    BY <1>1
<1> DEFINE j == [op |-> "edit", book |-> b, total |-> n, available |-> a]
<1>3. Begin(p, j, "edit_write") /\ UNCHANGED <<books, loans, library, now>>
    BY <1>2 DEF EditRead
<1>4. j \in EditJobs /\ j \in Jobs /\ j.op = "edit" /\ j.book = b /\ j.total = n /\ j.available = a
    BY DEF EditJobs, Jobs
<1> HIDE DEF j, moved
<1>5. pc'[p] = "edit_write" /\ job'[p] = j /\ overlaps \subseteq overlaps'
    BY <1>1, <1>3 DEF TypeOK, Begin
<1>6. EditKeeps(p)'
    <2>1. Cardinality(Active(b)) \in Nat /\ Active(b)' = Active(b)
        BY <1>1, <1>3, ActiveIs DEF Active, Loans
    <2>2. Kept(b)
        BY DEF LibraryInv, BooksOK
    <2>3. "edit" \notin overlaps => a + Cardinality(Active(b)) >= n
        BY <1>1, <1>2, <2>1, <2>2 DEF Kept, moved
    <2> QED BY <1>4, <1>5, <2>1, <2>3 DEF EditKeeps
<1>7. RequestOK(p)'
    BY <1>4, <1>5, <1>6 DEF RequestOK, JobFits, InTurn, AddStages, IssueStages, ReturnStages
<1>8. "edit_write" \in Stages \ {"idle"} /\ "edit_write" \notin IssueStages
    BY DEF Stages, IssueStages
<1> QED BY <1>3, <1>4, <1>7, <1>8, Taken

LEMMA IssueTaken ==
    ASSUME LibraryInv, NEW p \in Procs, NEW b \in Books, NEW s \in Students, NEW due \in Times,
           IssueRead(p, b, s, due)
    PROVE  LibraryInv'
<1> DEFINE j == [op |-> "issue", book |-> b, student |-> s, due |-> due]
<1>1. /\ Begin(p, j, "issue_check") /\ UNCHANGED <<books, loans, library, now>>
      /\ books[b].available >= 1 /\ Len(loans) + Cardinality(Issuing) < MaxLoans
    BY DEF IssueRead
<1>2. j \in IssueJobs /\ j \in Jobs /\ j.book = b
    BY DEF IssueJobs, Jobs
<1> HIDE DEF j
<1>3. pc'[p] = "issue_check" /\ job'[p] = j
    BY <1>1 DEF LibraryInv, TypeOK, Begin
<1>4. RequestOK(p)'
    BY <1>1, <1>2, <1>3 DEF RequestOK, JobFits, EditKeeps, InTurn, AddStages, IssueStages, ReturnStages
<1>5. "issue_check" \in Stages \ {"idle"} /\ "issue_check" # "edit_write"
    BY DEF Stages
<1> QED BY <1>1, <1>2, <1>4, <1>5, Taken

LEMMA ReturnTaken ==
    ASSUME LibraryInv, NEW p \in Procs, NEW l \in Loans, ReturnFind(p, l)
    PROVE  LibraryInv'
<1> DEFINE j == [op |-> "return", loan |-> l, at |-> NotReturned]
<1>1. /\ Begin(p, j, "return_rate") /\ UNCHANGED <<books, loans, library, now>>
      /\ loans[l].returned = NotReturned
    BY DEF ReturnFind
<1>2. j \in ReturnJobs /\ j \in Jobs /\ j.loan = l /\ l <= Len(loans)
    <2>1. l \in 1..MaxLoans /\ l <= Len(loans)
        <3>1. l \in 1..Len(loans) /\ Len(loans) \in Nat /\ Len(loans) <= MaxLoans /\ MaxLoans \in Nat
            BY ActiveIs, LibraryAssumptions DEF LibraryAssumptions, LibraryInv, TypeOK
        <3> QED BY <3>1
    <2> QED BY <2>1 DEF ReturnJobs, Jobs
<1> HIDE DEF j
<1>3. pc'[p] = "return_rate" /\ job'[p] = j
    BY <1>1 DEF LibraryInv, TypeOK, Begin
<1>4. RequestOK(p)'
    BY <1>1, <1>2, <1>3 DEF RequestOK, JobFits, EditKeeps, InTurn, AddStages, IssueStages, ReturnStages
<1>5. "return_rate" \in Stages \ {"idle"} /\ "return_rate" # "edit_write" /\ "return_rate" \notin IssueStages
    BY DEF Stages, IssueStages
<1> QED BY <1>1, <1>2, <1>4, <1>5, Taken

LEMMA BookAsked ==
    ASSUME LibraryInv, NEW p \in Procs, NEW b \in Books,
           (\E n \in Copies : AddBook(p, b, n)) \/ DeleteRead(p, b)
    PROVE  LibraryInv'
<1>1. PICK j \in AddJobs \cup DeleteJobs, stage \in {"library_find", "delete_write"} :
          /\ Begin(p, j, stage) /\ UNCHANGED <<books, loans, library, now>>
          /\ stage = "library_find" => j \in AddJobs
          /\ stage = "delete_write" => j \in DeleteJobs
    <2>1. ASSUME NEW n \in Copies, AddBook(p, b, n)
          PROVE  /\ [op |-> "add", book |-> b, total |-> n] \in AddJobs
                 /\ Begin(p, [op |-> "add", book |-> b, total |-> n], "library_find")
                 /\ UNCHANGED <<books, loans, library, now>>
        BY <2>1 DEF AddBook, AddJobs
    <2>2. ASSUME DeleteRead(p, b)
          PROVE  /\ [op |-> "delete", book |-> b] \in DeleteJobs
                 /\ Begin(p, [op |-> "delete", book |-> b], "delete_write")
                 /\ UNCHANGED <<books, loans, library, now>>
        BY <2>2 DEF DeleteRead, DeleteJobs
    <2> QED BY <2>1, <2>2
<1>2. pc'[p] = stage /\ job'[p] = j
    BY <1>1 DEF LibraryInv, TypeOK, Begin
<1>3. RequestOK(p)'
    BY <1>1, <1>2 DEF RequestOK, JobFits, EditKeeps, InTurn, AddStages, IssueStages, ReturnStages
<1>4. stage \in Stages \ {"idle"} /\ stage # "edit_write" /\ stage \notin IssueStages /\ j \in Jobs
    BY DEF Stages, IssueStages, Jobs, AddJobs, DeleteJobs
<1> QED BY <1>1, <1>3, <1>4, Taken

(* The steps between the reads and the writes.                               *)
LEMMA Between ==
    ASSUME LibraryInv, NEW p \in Procs,
           FindLibrary(p) \/ CreateLibrary(p) \/ IssueCheck(p) \/ ReturnRate(p) \/ Fails(p)
    PROVE  LibraryInv'
<1>1. TypeOK /\ RequestOK(p) /\ (pc[p] # "idle" => job[p] \in Jobs \cup {NoJob})
    BY DEF LibraryInv, TypeOK
<1>2. ASSUME pc[p] # "idle", Finish(p), UNCHANGED <<books, loans, library, now>> PROVE LibraryInv'
    <2>1. /\ pc' = [pc EXCEPT ![p] = "idle"] /\ job' = [job EXCEPT ![p] = NoJob] /\ overlaps' = overlaps
          /\ pc'[p] = "idle" /\ library' \in BOOLEAN
        BY <1>1, <1>2 DEF TypeOK, Finish
    <2>2. RequestOK(p)'
        BY <2>1 DEF RequestOK, JobFits, EditKeeps, InTurn, AddStages, IssueStages, ReturnStages
    <2>3. "idle" \in Stages \ {"edit_write"} /\ "idle" \notin IssueStages
        BY DEF Stages, IssueStages
    <2> QED BY <1>2, <2>1, <2>2, <2>3, Moved
<1>3. ASSUME NEW stage \in {"library_create", "book_create"}, pc[p] \in AddStages, GoTo(p, stage),
             UNCHANGED <<books, loans, now>>, library' \in BOOLEAN
      PROVE  LibraryInv'
    <2>1. /\ pc' = [pc EXCEPT ![p] = stage] /\ job' = [job EXCEPT ![p] = job[p]] /\ overlaps' = overlaps
          /\ pc'[p] = stage /\ job'[p] = job[p] /\ pc[p] # "idle"
        BY <1>1, <1>3 DEF TypeOK, GoTo, AddStages
    <2>2. RequestOK(p)'
        BY <1>1, <1>3, <2>1 DEF RequestOK, JobFits, EditKeeps, InTurn, AddStages, IssueStages, ReturnStages
    <2>3. stage \in Stages \ {"edit_write"} /\ stage \notin IssueStages /\ job[p] \in Jobs \cup {NoJob}
        BY <1>1, <2>1 DEF Stages, IssueStages
    <2> QED BY <1>3, <2>1, <2>2, <2>3, Moved
<1>4. CASE FindLibrary(p)
    <2>1. PICK stage \in {"library_create", "book_create"} : GoTo(p, stage)
        BY <1>4 DEF FindLibrary
    <2>2. pc[p] \in AddStages /\ UNCHANGED <<books, loans, now>> /\ library' \in BOOLEAN
        BY <1>1, <1>4 DEF FindLibrary, AddStages, TypeOK
    <2> QED BY <1>3, <2>1, <2>2
<1>5. CASE CreateLibrary(p)
    <2>1. pc[p] \in AddStages /\ UNCHANGED <<books, loans, now>> /\ library' \in BOOLEAN /\ pc[p] # "idle"
        BY <1>1, <1>5 DEF CreateLibrary, AddStages, TypeOK
    <2>2. CASE GoTo(p, "book_create")
        BY <1>3, <2>1, <2>2
    <2>3. CASE Finish(p) /\ UNCHANGED library
        BY <1>2, <2>1, <2>3
    <2> QED BY <1>5, <2>2, <2>3 DEF CreateLibrary
<1>6. CASE IssueCheck(p)
    <2>1. pc[p] = "issue_check" /\ UNCHANGED <<books, loans, library, now>>
        BY <1>6 DEF IssueCheck
    <2>2. CASE Finish(p)
        BY <1>2, <2>1, <2>2
    <2>3. CASE OnLoanTo(job[p].book, job[p].student) = {} /\ GoTo(p, "issue_write")
        <3>1. /\ pc' = [pc EXCEPT ![p] = "issue_write"] /\ job' = [job EXCEPT ![p] = job[p]]
              /\ overlaps' = overlaps /\ pc'[p] = "issue_write" /\ job'[p] = job[p]
              /\ library' \in BOOLEAN /\ job[p] \in Jobs \cup {NoJob}
            BY <1>1, <2>1, <2>3 DEF TypeOK, GoTo
        <3>2. OnLoanTo(job[p].book, job[p].student)' = {}
            BY <2>1, <2>3, <3>1 DEF OnLoanTo, Active, Loans
        <3>3. RequestOK(p)'
            <4>1. JobFits(p)' /\ EditKeeps(p)'
                BY <1>1, <2>1, <3>1
                   DEF RequestOK, JobFits, EditKeeps, AddStages, IssueStages, ReturnStages
            <4>2. InTurn(p)'
                BY <1>1, <2>1, <3>1, <3>2 DEF RequestOK, InTurn, IssueStages, ReturnStages
            <4> QED BY <4>1, <4>2 DEF RequestOK
        <3>4. /\ "issue_write" \in Stages \ {"edit_write"} /\ pc[p] \in IssueStages /\ pc[p] # "idle"
            BY <2>1 DEF Stages, IssueStages
        <3> QED BY <2>1, <3>1, <3>3, <3>4, Moved
    <2> QED BY <1>6, <2>2, <2>3 DEF IssueCheck
<1>7. CASE ReturnRate(p)
    <2>1. /\ pc[p] = "return_rate" /\ UNCHANGED <<books, loans, library, now, overlaps>>
          /\ pc' = [pc EXCEPT ![p] = "return_write"] /\ job' = [job EXCEPT ![p].at = now]
          /\ job[p] \in ReturnJobs /\ now \in Times /\ now # NotReturned /\ job \in [Procs -> Jobs \cup {NoJob}]
        <3>1. now \in Times /\ now # NotReturned
            BY <1>1, LibraryAssumptions DEF LibraryAssumptions, TypeOK, Times, NotReturned
        <3> QED BY <1>1, <1>7, <3>1 DEF RequestOK, JobFits, ReturnStages, ReturnRate, TypeOK
    <2> DEFINE j == [job[p] EXCEPT !.at = now]
    <2>2. j \in ReturnJobs /\ j \in Jobs /\ j.loan = job[p].loan /\ j.at = now
        BY <2>1 DEF ReturnJobs, Jobs
    <2>3. job' = [job EXCEPT ![p] = j] /\ pc'[p] = "return_write" /\ job'[p] = j
        BY <1>1, <2>1 DEF TypeOK
    <2> HIDE DEF j
    <2>4. RequestOK(p)'
        <3>1. JobFits(p)' /\ EditKeeps(p)'
            BY <1>1, <2>1, <2>2, <2>3
               DEF RequestOK, JobFits, EditKeeps, AddStages, IssueStages, ReturnStages
        <3>2. InTurn(p)'
            BY <1>1, <2>1, <2>2, <2>3 DEF RequestOK, InTurn, IssueStages, ReturnStages
        <3> QED BY <3>1, <3>2 DEF RequestOK
    <2>5. "return_write" \in Stages \ {"edit_write"} /\ "return_write" \notin IssueStages
          /\ library' \in BOOLEAN
        BY <1>1, <2>1 DEF Stages, IssueStages, TypeOK
    <2> QED BY <2>1, <2>2, <2>3, <2>4, <2>5, Moved
<1>8. CASE Fails(p)
    BY <1>2, <1>8 DEF Fails
<1> QED BY <1>4, <1>5, <1>6, <1>7, <1>8

LEMMA LibraryNext == LibraryInv /\ [Next]_vars => LibraryInv'
<1> SUFFICES ASSUME LibraryInv, [Next]_vars PROVE LibraryInv'
    OBVIOUS
<1>1. ASSUME UNCHANGED <<books, loans, library, pc, job, overlaps>>, now' \in Times
      PROVE  LibraryInv'
    <2>1. TypeOK' /\ Alone' /\ LoansLeft'
        BY <1>1 DEF LibraryInv, TypeOK, Alone, LoansLeft, Issuing
    <2>2. \A p \in Procs : RequestOK(p)'
        BY <1>1, ZenonT(60) DEF LibraryInv, RequestOK, JobFits, EditKeeps, InTurn, OnLoanTo, Active, Loans
    <2>3. BooksOK'
        BY <1>1 DEF LibraryInv, BooksOK, Shelf, Kept, KeptInTurn, Lending, OnLoanTo, Active, Loans
    <2> QED BY <2>1, <2>2, <2>3 DEF LibraryInv
<1>2. now \in Times /\ MaxTime \in Nat
    BY LibraryAssumptions DEF LibraryAssumptions, LibraryInv, TypeOK
<1>3. CASE Tick
    <2>1. now' \in Times
        BY <1>2, <1>3 DEF Tick, Times
    <2> QED BY <1>1, <1>3, <2>1 DEF Tick
<1>4. CASE UNCHANGED vars
    BY <1>1, <1>2, <1>4 DEF vars
<1>5. ASSUME NEW p \in Procs, NEW b \in Books,
             \/ \E n \in Copies : AddBook(p, b, n) \/ EditRead(p, b, n)
             \/ DeleteRead(p, b)
             \/ \E s \in Students, due \in Times : IssueRead(p, b, s, due)
      PROVE  LibraryInv'
    BY <1>5, BookAsked, EditTaken, IssueTaken
<1>6. ASSUME NEW p \in Procs,
             \/ FindLibrary(p) \/ CreateLibrary(p) \/ CreateBook(p)
             \/ EditWrite(p) \/ DeleteWrite(p)
             \/ IssueCheck(p) \/ IssueWrite(p)
             \/ ReturnRate(p) \/ ReturnWrite(p)
             \/ Fails(p)
      PROVE  LibraryInv'
    BY <1>6, Between, AddedBook, EditedBook, DeletedBook, IssuedBook, ReturnedBook
<1> QED BY <1>3, <1>4, <1>5, <1>6, ReturnTaken DEF Next

(* The invariant holds however many requests overlap.                        *)
LEMMA LibraryInvariant == Spec => []LibraryInv
<1> QED BY LibraryInit, LibraryNext, PTL DEF Spec

----------------------------------------------------------------------------
(* The theorems                                                              *)

(* The variables keep their types; what an edit writes back is never         *)
(* negative, and no more loans are issued than were asked for (the routes    *)
(* under api/library).                                                       *)
THEOREM LibraryTypes == Spec => []TypeOK
<1>1. LibraryInv => TypeOK
    BY DEF LibraryInv
<1> QED BY <1>1, LibraryInvariant, PTL

(* The shelf is oversold only by the requests in progress; unless an edit    *)
(* ran beside another request no copy is ever forgotten; and with one        *)
(* librarian no book is oversold and no student has it twice (the counters   *)
(* and the checks of POST api/library/transactions).                         *)
THEOREM NoCopyIsLost == Spec => []CopiesNotLost
<1>1. LibraryInv => CopiesNotLost
    <2> SUFFICES ASSUME LibraryInv PROVE CopiesNotLost
        OBVIOUS
    <2>1. ASSUME NEW b \in Books PROVE books[b].available >= 1 - Cardinality(Procs)
        <3>1. books[b].available \in Int
            BY DEF LibraryInv, TypeOK
        <3>2. Lending(b) \in SUBSET Procs
            BY DEF Lending
        <3>3. Cardinality(Lending(b)) \in Nat /\ Cardinality(Procs) \in Nat
            BY <3>2, RequestCount
        <3> QED BY <3>1, <3>3 DEF LibraryInv, BooksOK, Shelf
    <2> QED BY <2>1 DEF LibraryInv, BooksOK, Kept, KeptInTurn, CopiesNotLost, OversoldByRequests
<1> QED BY <1>1, LibraryInvariant, PTL

(* A returned loan stays returned, whatever overlaps; with one librarian its *)
(* date and its fine are final (the "return" action, which does not ask      *)
(* again whether the loan is active).                                        *)
THEOREM ReturnsAreFinal == Spec => ReturnIsFinal
<1>1. LibraryInv /\ [Next]_vars =>
          [\A l \in Loans : loans[l].returned # NotReturned =>
               /\ loans'[l].returned # NotReturned
               /\ overlaps = {} => loans'[l] = loans[l]]_vars
    <2> SUFFICES ASSUME LibraryInv, Next, NEW l \in Loans, loans[l].returned # NotReturned
                 PROVE  /\ loans'[l].returned # NotReturned
                        /\ overlaps = {} => loans'[l] = loans[l]
        OBVIOUS
    <2>1. Loans = 1..Len(loans) /\ Len(loans) \in Nat /\ loans \in Seq(LoanRow) /\ l \in 1..Len(loans)
        BY ActiveIs DEF LibraryInv, TypeOK, LoanRow
    <2>2. CASE loans' = loans
        BY <2>2
    <2>3. ASSUME NEW p \in Procs, IssueWrite(p) PROVE loans'[l] = loans[l]
        <3> DEFINE row == [book |-> job[p].book, student |-> job[p].student,
                           due |-> job[p].due, returned |-> NotReturned, fine |-> 0]
        <3>1. loans' = Append(loans, row)
            BY <2>3 DEF IssueWrite
        <3>2. row \in LoanRow
            BY <2>3 DEF IssueWrite, LibraryInv, RequestOK, JobFits, IssueStages, IssueJobs, LoanRow
        <3> HIDE DEF row
        <3> QED BY <2>1, <3>1, <3>2, AppendProperties
    <2>4. ASSUME NEW p \in Procs, ReturnWrite(p)
          PROVE  /\ loans'[l].returned # NotReturned
                 /\ overlaps = {} => loans'[l] = loans[l]
        <3>1. /\ pc[p] = "return_write" /\ RequestOK(p) /\ job[p].at # NotReturned
              /\ overlaps = {} => loans[job[p].loan].returned = NotReturned
            BY <2>4, SMTT(30) DEF ReturnWrite, LibraryInv, RequestOK, JobFits, InTurn, ReturnStages
        <3>2. loans' = [loans EXCEPT ![job[p].loan].returned = job[p].at,
                                     ![job[p].loan].fine = Fine(loans[job[p].loan].due, job[p].at)]
            BY <2>4 DEF ReturnWrite
        <3>3. loans \in [1..Len(loans) -> LoanRow]
            BY <2>1, LenProperties
        <3>4. CASE l = job[p].loan
            <4>1. loans'[l] = [loans[l] EXCEPT !.returned = job[p].at,
                                               !.fine = Fine(loans[l].due, job[p].at)]
                BY <2>1, <3>2, <3>4, <3>3
            <4>2. loans'[l].returned = job[p].at
                BY <2>1, <3>3, <4>1 DEF LoanRow
            <4> QED BY <3>1, <3>4, <4>2
        <3>5. CASE l # job[p].loan
            <4>1. loans'[l] = loans[l]
                BY <2>1, <3>2, <3>5, <3>3, SMTT(30)
            <4> QED BY <4>1
        <3> QED BY <3>4, <3>5, SMTT(30)
    <2>5. (\A p \in Procs : ~IssueWrite(p) /\ ~ReturnWrite(p)) => loans' = loans
        BY DEF Next, AddBook, EditRead, DeleteRead, IssueRead, ReturnFind, FindLibrary, CreateLibrary,
               CreateBook, EditWrite, DeleteWrite, IssueCheck, ReturnRate, Fails, Tick
    <2> QED BY <2>2, <2>3, <2>4, <2>5
<1> QED BY <1>1, LibraryInvariant, PTL DEF Spec, ReturnIsFinal
=============================================================================
