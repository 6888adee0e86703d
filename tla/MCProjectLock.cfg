SPECIFICATION FairSpec
CONSTANTS
    t1 = t1
    t2 = t2
    t3 = t3
    p1 = p1
    p2 = p2
    Tasks = {t1, t2, t3}
    Processes = {p1, p2}
    ProcessOf <- MCProcessOf
    Nobody = Nobody
    MaxOrphans = 1
    MaxCrashes = 1
INVARIANT TypeOK
INVARIANT MutualExclusion
INVARIANT OnePerProcess
INVARIANT HeartbeatWhileHeld
PROPERTY LockComesFree
