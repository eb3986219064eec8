SPECIFICATION FairSpec
CONSTANTS
    s1 = s1
    s2 = s2
    s3 = s3
    Sentinel = {s1, s2}
    Redis = {m, r1, r2}
    Nobody = Nobody
    Master0 = m
    Quorum = 2
    Tilted = {}
    Lossy <- LossyLinks
    Suspicious = {}
    Operated = {s1}
    Restarting = {s1, s2}
    Crashing = {m}
    Recovering = {m}
    Timely = TRUE
    Overlapping = FALSE
    MaxEpoch = 1
    MaxRestarts = 2
    MaxIncidents = 1
INVARIANTS
    OneVotePerEpoch
    LeaderUnique
    

    
CHECK_DEADLOCK FALSE
