SPECIFICATION Spec

CONSTANTS
    s1 = s1
    j1 = j1
    j2 = j2
    e1 = e1
    e2 = e2
    e3 = e3
    a = a
    b = b
    Null = Null
    Seeker = {s1}
    Job = {j1, j2}
    Employer = {e1, e2, e3}
    EmployerOf <- Employers
    Resume <- HighSalary
    Posting <- Postings
    AccountLength <- NameLengths
    AutoNegLimit = 1
    Call = {c1, c2}
    MaxCalls = 3
    MaxOverlapping = 2
    MaxFaults = 0
    RerankLimit = 2
    MaxRows = 3
    MaxRelisted = 1

INVARIANT SalariesOverlap

CHECK_DEADLOCK FALSE
