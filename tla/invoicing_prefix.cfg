\* One request at a time, none cut off; the schools share their prefix.
SPECIFICATION FairSpec
CONSTANTS
    grace = grace
    hill = hill
    ada = ada
    bayo = bayo
    chi = chi
    Schools <- MCSchools
    Students <- MCStudents
    SchoolOf <- MCSchoolOf
    Prefix <- SharedPrefixes
    Billable <- MCStudents
    Subtotal <- MCSubtotal
    AutoDiscount <- MCAuto
    Awards <- MCAwards
    Base = 10
    LastPadded = 9999
    Earlier <- NoneIssued
    PastDue = FALSE
    Procs = {p1}
    MaxTimeouts = 0
    NoStudent = NoStudent
PROPERTIES EveryoneIsInvoiced
