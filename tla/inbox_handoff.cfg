SPECIFICATION FairSpec
CONSTANTS
    Event = {e1, e2}
    Media = {e1}
    Content = {c1, c2}
    Drain = {d1, d2}
    MaxRows = 3
    MaxIdentities = 2
    MaxFaults = 1
    NoEvent = noEvent
    NoDrain = noDrain
INVARIANTS TypeOK SnapshotIsWhatEveGets FailedWasTold
PROPERTIES KeepsPromise AcceptanceRecorded LaneMoves
