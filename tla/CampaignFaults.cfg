\* Two mishaps, whatever they are, while three steps are sent.
CONSTANTS
    c1 = c1
    c2 = c2
    w1 = w1
    w2 = w2
    call = call
    r1 = r1
    NoJob = NoJob
    NoRow = NoRow
    Contacts = {c1}
    MaxEnrollments = 1
    LastStep = 3
    Runs = {r1}
    Workers = {w1, w2}
    Callers = {}
    Reports = {}
    MaxReports = 0
    MaxMishaps = 2
SPECIFICATION Spec
SYMMETRY WorkerSymmetry
INVARIANTS
    TypeOK
    MailedInSequence
    MailedAtMostOnce
    StatusFollowsMail
    CompletedIsMailedOut
    CountIsRight
    NoneIsForgotten
PROPERTIES
    ImplementsDrip
