------------------------ MODULE MCInvoiceGeneration ------------------------
(* Values for TLC: a school with two students to bill, one of whom has an   *)
(* award that comes and goes and the other the sibling reduction, and a     *)
(* second school with one student.                                          *)
EXTENDS InvoiceGeneration, TLC

CONSTANTS grace, hill, ada, bayo, chi

MCSchools  == {grace, hill}
MCStudents == {ada, bayo, chi}
MCSchoolOf == (chi :> hill) @@ [s \in MCStudents |-> grace]
MCSubtotal == [s \in MCStudents |-> 2]
MCAuto     == (bayo :> 1) @@ [s \in MCStudents |-> 0]
MCAwards   == (ada :> {2}) @@ [s \in MCStudents |-> {}]

\* Numbers have two binary digits, as 9999 is the last of four decimal ones:
\* grace has two of them left, then the first of three digits, and hill none.
OwnPrefixes  == (grace :> "GRA") @@ (hill :> "HIL")
EarlierYears == [school : {grace}, prefix : {"GRA"}, n : 1..2]
                  \cup [school : {hill}, prefix : {"HIL"}, n : 1..4]

\* Two schools whose slugs begin with the same three letters.
SharedPrefixes == (grace :> "GRA") @@ (hill :> "GRA")
NoneIssued     == {}
=============================================================================
