SPECIFICATION FairSpec
CONSTANTS
    s1 = s1
    f1 = f1
    Sender = {s1, s2}
    GoogleUser = {g1}
    ChannelFirstUser = {f1}
    FirstAddress <- OneAddress
    SessionId = {i1, i2}
    BrowserChallenge = {b1}
    DeviceChallenge = {d1}
    None = None
CHECK_DEADLOCK FALSE
INVARIANTS TypeOK SessionsFollowAddresses PromptTellsTheTruth
PROPERTIES KeepsPromise PromptSettles
