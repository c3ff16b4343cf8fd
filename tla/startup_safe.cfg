SPECIFICATION FairSpec
CONSTANTS
    Apis = {p1, p2}
    HhOwners = {h1}
    AvitoOwners = {v1}
    Nobody = Nobody
    Configs <- AllOrNothing
    Retries = 2
    MaxId = 4
    MaxTroubles = 1
INVARIANTS
    TypeOK
    StartLeavesHooks
PROPERTIES
    EventuallyUp
