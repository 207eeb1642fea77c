\* Two requests overlap, one of them may be cut off; prefixes differ.
SPECIFICATION FairSpec
CONSTANTS
    grace = grace
    hill = hill
    ada = ada
    bayo = bayo
    chi = chi
    Schools <- MCSchools
    Students <- MCStudents
    SchoolOf <- MCSchoolOf
    Prefix <- OwnPrefixes
    Billable <- MCStudents
    Subtotal <- MCSubtotal
    AutoDiscount <- MCAuto
    Awards <- MCAwards
    Base = 2
    LastPadded = 3
    Earlier <- EarlierYears
    PastDue = FALSE
    Procs = {p1, p2}
    MaxTimeouts = 1
    NoStudent = NoStudent
INVARIANTS TypeOK ReportHonest NumbersConsecutive
PROPERTIES NeverRebilled EveryoneIsInvoiced
