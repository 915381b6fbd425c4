SPECIFICATION MCSpec
CONSTANTS
    Subs = {s1, s2}
    Requests = {r1, r2}
    MaxEvents = 4
    Pods = {p1, p2}
    Requesters = {c1}
    ServedBy <- MCServedBy
    Items = {i1}
    Lots = {l1}
    Levels <- MCLevels
    TellLimit = 3
    MaxDisturbed = 2
    TrialHours = 336
    MaxHours = 360
    Reminders = {7, 11, 13}
    RunsPerHour = 2
    MaxRollbacks = 1
INVARIANTS
    TypeOK
    AppliedAtMostOnce
    AgreesWithStripe
    JobsTypeOK
    AlertsAreRight
    TrialIsAnnounced
PROPERTIES
    AlertsReachAdministrators
CHECK_DEADLOCK FALSE
