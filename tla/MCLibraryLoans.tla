--------------------------- MODULE MCLibraryLoans ---------------------------
(* Values for TLC: one title, two students, enough copies and loans for the  *)
(* last copy to be contested and a total to shrink below what is on loan.   *)
EXTENDS LibraryLoans, TLC

\* A third loan is followed only while the clock stands and all loans are due at
\* once: it is there for the last copy to be oversold, not for its fine.
ThirdLoanToday ==
    Len(loans) + Cardinality(Issuing) <= 2
    \/ /\ now = 0
       /\ \A l \in Loans : loans[l].due = 0
       /\ \A p \in Issuing : job[p].due = 0

Interchangeable == Permutations(Procs) \cup Permutations(Students)
=============================================================================
