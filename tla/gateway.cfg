CONSTANTS
    c1 = c1
    c2 = c2
    Conns = {c1, c2}
    Configs <- MCConfigs
    BusCapacity = 1
    MaxId = 2
    MaxClock = 1
SPECIFICATION FairSpec
CHECK_DEADLOCK FALSE
INVARIANTS
    DrainIsGraceful
    
    AttestationSound
    AuditedBeforeForwarding

    
    
