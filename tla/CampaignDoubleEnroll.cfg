\* A run and a dashboard call enroll the same contact; nothing goes wrong.
CONSTANTS
    c1 = c1
    c2 = c2
    w1 = w1
    w2 = w2
    call = call
    r1 = r1
    NoJob = NoJob
    NoRow = NoRow
    Contacts = {c1}
    MaxEnrollments = 2
    LastStep = 1
    Runs = {r1}
    Workers = {w1}
    Callers = {call}
    Reports = {}
    MaxReports = 0
    MaxMishaps = 0
SPECIFICATION Spec
INVARIANTS
    OneActiveEnrollment
