SPECIFICATION PoolSpec
CONSTANTS
    c1 = c1
    r1 = r1
    r2 = r2
    i1 = i1
    alice = alice
    root = root
    b1 = b1
    w1 = w1
    Creds = {c1}
    Reqs = {r1, r2}
    Instances = {i1}
    NoReq = NoReq
    NoCred = NoCred
    Bridges = {b1}
    Writers = {w1}
    Limits = {2}
    InstanceOf <- MCInstanceOf
    WhoOf <- MCWhoOf
    Admins <- MCAdmins
    OwnerOf <- MCOwnerOf
    KindOf <- MCKindOf
    AuthModes <- MCAuthModes
    Serves <- MCServes
    InitRow <- MCInitRow
    CooldownTicks = 1
    LeaseTtl = 2
    MaxRun = 1
    MaxFaults = 1
    MaxEdits = 0
INVARIANTS
    PoolTypeOK
    UndercountExplained
PROPERTIES
    StartsOnlyOnEligible
