---------------------------- MODULE LibraryLoans ----------------------------
(***************************************************************************)
(* A school library: adding, editing and deleting books, issuing them to   *)
(* students and taking them back.                                          *)
(*                                                                         *)
(* A book row keeps two counters, totalCopies and availableCopies; the     *)
(* loans are rows of their own. Issue and return change a counter and a    *)
(* loan in one transaction, after checks made by earlier queries; an edit  *)
(* of totalCopies writes both counters from values it read earlier.        *)
(*                                                                         *)
(* overlaps is a history variable: which operations ever ran beside        *)
(* another. It lets one run state what overlapping requests cannot break   *)
(* and what only a library with one librarian can count on.                *)
(***************************************************************************)
EXTENDS Integers, FiniteSets, Sequences

CONSTANTS
    Books,      \* one per ISBN
    Students,
    MaxCopies,  \* bound: no book has more copies
    MaxLoans,   \* bound: loans issued in all
    MaxTime,    \* bound: the clock stops there
    DayLength,  \* instants in a day
    FinePerDay, \* the school's rate for a late return
    Procs,      \* bound: requests the server works on at a time
    NoJob       \* "no request in hand"

ASSUME LibraryAssumptions ==
    /\ MaxCopies \in Nat /\ MaxLoans \in Nat /\ MaxTime \in Nat
    /\ DayLength \in Nat \ {0}
    /\ FinePerDay \in Nat
    /\ IsFiniteSet(Procs) /\ Procs # {}
    /\ NoJob \notin [op : STRING]

VARIABLES
    books,      \* [Books -> [state, total, available]]
    loans,      \* [1..n -> [book, student, due, returned, fine]], oldest first
    library,    \* the school has its "Main Library" row
    now,        \* the clock
    pc,         \* the query each request is about to make, "idle" if none
    job,        \* what it was asked, and what it read and will write
    overlaps    \* "edit" or "other" for the operations that ran beside another

vars == <<books, loans, library, now, pc, job, overlaps>>

Copies == 1..MaxCopies
Times  == 0..MaxTime
NotReturned == -1

Stages == {"idle", "library_find", "library_create", "book_create", "edit_write",
           "delete_write", "issue_check", "issue_write", "return_rate", "return_write"}

----------------------------------------------------------------------------
\* computeFine: every day begun after the due date costs FinePerDay.
Fine(due, at) ==
    IF at <= due THEN 0
    ELSE FinePerDay * ((at - due + DayLength - 1) \div DayLength)

Loans == DOMAIN loans
Active(b) == {l \in Loans : loans[l].book = b /\ loans[l].returned = NotReturned}
OnLoanTo(b, s) == {l \in Active(b) : loans[l].student = s}

Issuing == {p \in Procs : pc[p] \in {"issue_check", "issue_write"}}

----------------------------------------------------------------------------
Init ==
    /\ books = [b \in Books |-> [state |-> "absent", total |-> 0, available |-> 0]]
    /\ loans = <<>>
    /\ library \in BOOLEAN
    /\ now = 0
    /\ pc = [p \in Procs |-> "idle"]
    /\ job = [p \in Procs |-> NoJob]
    /\ overlaps = {}

\* A request is taken up; j is what it was asked, its next query is at stage.
Begin(p, j, stage) ==
    /\ pc[p] = "idle"
    /\ pc' = [pc EXCEPT ![p] = stage]
    /\ job' = [job EXCEPT ![p] = j]
    /\ LET beside == {job[q] : q \in {x \in Procs : pc[x] # "idle"}} IN
       overlaps' = overlaps \cup
           (IF beside = {} THEN {}
            ELSE {IF k.op = "edit" THEN "edit" ELSE "other" : k \in beside \cup {j}})

GoTo(p, stage) ==
    /\ pc' = [pc EXCEPT ![p] = stage]
    /\ UNCHANGED <<job, overlaps>>

Finish(p) ==
    /\ pc' = [pc EXCEPT ![p] = "idle"]
    /\ job' = [job EXCEPT ![p] = NoJob]
    /\ UNCHANGED overlaps

----------------------------------------------------------------------------
(* POST /api/library/books *)

AddBook(p, b, n) ==
    /\ Begin(p, [op |-> "add", book |-> b, total |-> n], "library_find")
    /\ UNCHANGED <<books, loans, library, now>>

\* getDefaultLibrary: the school's library, made on demand. Its name is unique
\* in the school: of two requests that find none, one throws.
FindLibrary(p) ==
    /\ pc[p] = "library_find"
    /\ GoTo(p, IF library THEN "book_create" ELSE "library_create")
    /\ UNCHANGED <<books, loans, library, now>>

CreateLibrary(p) ==
    /\ pc[p] = "library_create"
    /\ \/ /\ ~library
          /\ library' = TRUE
          /\ GoTo(p, "book_create")
       \/ /\ library
          /\ Finish(p)
          /\ UNCHANGED library
    /\ UNCHANGED <<books, loans, now>>

\* An ISBN is unique in its library, among deleted books too.
CreateBook(p) ==
    /\ pc[p] = "book_create"
    /\ books' = IF books[job[p].book].state = "absent"
                THEN [books EXCEPT ![job[p].book] =
                        [state |-> "listed", total |-> job[p].total, available |-> job[p].total]]
                ELSE books
    /\ Finish(p)
    /\ UNCHANGED <<loans, library, now>>

----------------------------------------------------------------------------
(* PATCH and DELETE /api/library/books/[id] *)

\* Faulty variant of EditRead: the delta is not held at zero from below.
EditReadUnclamped(p, b, n) ==
    /\ books[b].state = "listed"
    /\ Begin(p, [op |-> "edit", book |-> b, total |-> n,
                 available |-> books[b].available + (n - books[b].total)], "edit_write")
    /\ UNCHANGED <<books, loans, library, now>>

\* The new availableCopies is the one read plus the change of the total, but
\* never below zero.
EditRead(p, b, n) ==
    /\ books[b].state = "listed"
    /\ LET moved == books[b].available + (n - books[b].total) IN
       Begin(p, [op |-> "edit", book |-> b, total |-> n,
                 available |-> IF moved < 0 THEN 0 ELSE moved], "edit_write")
    /\ UNCHANGED <<books, loans, library, now>>

EditWrite(p) ==
    /\ pc[p] = "edit_write"
    /\ books' = [books EXCEPT ![job[p].book].total = job[p].total,
                              ![job[p].book].available = job[p].available]
    /\ Finish(p)
    /\ UNCHANGED <<loans, library, now>>

\* Refuses when some copies seem to be out.
DeleteRead(p, b) ==
    /\ books[b].state = "listed"
    /\ books[b].available >= books[b].total
    /\ Begin(p, [op |-> "delete", book |-> b], "delete_write")
    /\ UNCHANGED <<books, loans, library, now>>

DeleteWrite(p) ==
    /\ pc[p] = "delete_write"
    /\ books' = [books EXCEPT ![job[p].book].state = "deleted"]
    /\ Finish(p)
    /\ UNCHANGED <<loans, library, now>>

----------------------------------------------------------------------------
(* POST /api/library/transactions, action "issue" *)

IssueRead(p, b, s, due) ==
    /\ books[b].state = "listed"
    /\ books[b].available >= 1
    /\ Len(loans) + Cardinality(Issuing) < MaxLoans
    /\ Begin(p, [op |-> "issue", book |-> b, student |-> s, due |-> due], "issue_check")
    /\ UNCHANGED <<books, loans, library, now>>

\* Faulty variant of IssueCheck: a second loan of the same book goes through.
IssueCheckNone(p) ==
    /\ pc[p] = "issue_check"
    /\ GoTo(p, "issue_write")
    /\ UNCHANGED <<books, loans, library, now>>

\* 409 if the student has the book already.
IssueCheck(p) ==
    /\ pc[p] = "issue_check"
    /\ IF OnLoanTo(job[p].book, job[p].student) = {} THEN GoTo(p, "issue_write") ELSE Finish(p)
    /\ UNCHANGED <<books, loans, library, now>>

\* One transaction: the counter goes down, the loan is created.
IssueWrite(p) ==
    /\ pc[p] = "issue_write"
    /\ books' = [books EXCEPT ![job[p].book].available = @ - 1]
    /\ loans' = Append(loans, [book |-> job[p].book, student |-> job[p].student,
                               due |-> job[p].due, returned |-> NotReturned, fine |-> 0])
    /\ Finish(p)
    /\ UNCHANGED <<library, now>>

----------------------------------------------------------------------------
(* POST /api/library/transactions, action "return" *)

\* Faulty variant of ReturnFind: any loan of the desk's choice.
ReturnFindAny(p, l) ==
    /\ Begin(p, [op |-> "return", loan |-> l, at |-> NotReturned], "return_rate")
    /\ UNCHANGED <<books, loans, library, now>>

\* The active loan named by the desk, or the latest of the book and student.
ReturnFind(p, l) ==
    /\ loans[l].returned = NotReturned
    /\ Begin(p, [op |-> "return", loan |-> l, at |-> NotReturned], "return_rate")
    /\ UNCHANGED <<books, loans, library, now>>

\* The rate is fetched, then the clock is read.
ReturnRate(p) ==
    /\ pc[p] = "return_rate"
    /\ pc' = [pc EXCEPT ![p] = "return_write"]
    /\ job' = [job EXCEPT ![p].at = now]
    /\ UNCHANGED <<books, loans, library, now, overlaps>>

\* Faulty variant of ReturnWrite: the counter is left alone.
ReturnWriteNoIncrement(p) ==
    /\ pc[p] = "return_write"
    /\ LET l == job[p].loan IN
       loans' = [loans EXCEPT ![l].returned = job[p].at,
                              ![l].fine = Fine(loans[l].due, job[p].at)]
    /\ Finish(p)
    /\ UNCHANGED <<books, library, now>>

\* One transaction; it does not ask again whether the loan is still active.
ReturnWrite(p) ==
    /\ pc[p] = "return_write"
    /\ LET l == job[p].loan IN
       /\ loans' = [loans EXCEPT ![l].returned = job[p].at,
                                 ![l].fine = Fine(loans[l].due, job[p].at)]
       /\ books' = [books EXCEPT ![loans[l].book].available = @ + 1]
    /\ Finish(p)
    /\ UNCHANGED <<library, now>>

----------------------------------------------------------------------------
\* An awaited query throws, or the process dies: every write was one transaction.
Fails(p) ==
    /\ pc[p] # "idle"
    /\ Finish(p)
    /\ UNCHANGED <<books, loans, library, now>>

Tick ==
    /\ now < MaxTime
    /\ now' = now + 1
    /\ UNCHANGED <<books, loans, library, pc, job, overlaps>>

Next ==
    \/ \E p \in Procs, b \in Books :
         \/ \E n \in Copies : AddBook(p, b, n) \/ EditRead(p, b, n)
         \/ DeleteRead(p, b)
         \/ \E s \in Students, due \in Times : IssueRead(p, b, s, due)
    \/ \E p \in Procs, l \in Loans : ReturnFind(p, l)
    \/ \E p \in Procs :
         \/ FindLibrary(p) \/ CreateLibrary(p) \/ CreateBook(p)
         \/ EditWrite(p) \/ DeleteWrite(p)
         \/ IssueCheck(p) \/ IssueWrite(p)
         \/ ReturnRate(p) \/ ReturnWrite(p)
         \/ Fails(p)
    \/ Tick

Spec == Init /\ [][Next]_vars

----------------------------------------------------------------------------
(* Properties *)

Jobs ==
    [op : {"add"}, book : Books, total : Copies]
      \cup [op : {"edit"}, book : Books, total : Copies, available : Nat]
      \cup [op : {"delete"}, book : Books]
      \cup [op : {"issue"}, book : Books, student : Students, due : Times]
      \cup [op : {"return"}, loan : 1..MaxLoans, at : Times \cup {NotReturned}]

\* The types of the variables; what an edit writes back is never negative.
TypeOK ==
    /\ books \in [Books -> [state : {"absent", "listed", "deleted"},
                            total : 0..MaxCopies, available : Int]]
    /\ loans \in Seq([book : Books, student : Students, due : Times,
                      returned : Times \cup {NotReturned}, fine : Nat])
    /\ Len(loans) <= MaxLoans
    /\ library \in BOOLEAN
    /\ now \in Times
    /\ pc \in [Procs -> Stages]
    /\ job \in [Procs -> Jobs \cup {NoJob}]
    /\ overlaps \subseteq {"edit", "other"}

\* Requests that pass the last-copy check together may lend more copies than
\* the shelf holds, but only as many as the requests that were in progress.
OversoldByRequests == \A b \in Books : books[b].available >= 1 - Cardinality(Procs)

\* As long as no edit runs beside another request, every copy is accounted for:
\* it is on the shelf or on loan. Overlapping returns of one loan, or a shrunk
\* total, may count a copy twice; none is ever forgotten. Edits or not, the
\* shelf is oversold only by the requests in progress. With one librarian it is
\* not oversold, and a student has at most one copy of a book.
CopiesNotLost ==
    /\ OversoldByRequests
    /\ "edit" \notin overlaps =>
         \A b \in Books : books[b].available + Cardinality(Active(b)) >= books[b].total
    /\ overlaps = {} => \A b \in Books :
         /\ \A s \in Students : Cardinality(OnLoanTo(b, s)) <= 1
         /\ books[b].available >= 0

\* A loan that was returned stays returned; with one librarian its fine is
\* final as well.
ReturnIsFinal ==
    [][\A l \in Loans : loans[l].returned # NotReturned =>
         /\ loans'[l].returned # NotReturned
         /\ overlaps = {} => loans'[l] = loans[l]]_vars

\* "Refuse to delete if any copies are currently on loan."
DeletedBookIsBack ==
    \A b \in Books : books[b].state = "deleted" => Active(b) = {}
=============================================================================
