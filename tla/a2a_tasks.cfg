SPECIFICATION FairSpec
CONSTANTS
    Task = {t1}
    Request = {r1}
    Job = {j1}
    MaxActive = 5
    MaxHides = 1
    MaxFaults = 2
    NoTask = NoTask
CHECK_DEADLOCK FALSE
INVARIANT TypeOK
PROPERTIES KeepsPromise CancelledWorkStops SubmittedIsDelivered OutcomeIsTold
