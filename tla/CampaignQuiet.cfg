\* Nothing goes wrong; a run and a dashboard call enroll at the same time.
CONSTANTS
    c1 = c1
    c2 = c2
    w1 = w1
    w2 = w2
    call = call
    r1 = r1
    NoJob = NoJob
    NoRow = NoRow
    Contacts = {c1}
    MaxEnrollments = 2
    LastStep = 2
    Runs = {r1}
    Workers = {w1}
    Callers = {call}
    Reports = {"delivered", "hard bounce"}
    MaxReports = 1
    MaxMishaps = 0
SPECIFICATION FairSpec
INVARIANTS
    CountIsRight
PROPERTIES
    EveryEnrollmentEnds
    BarredIsLeftAlone
