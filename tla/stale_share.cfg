SPECIFICATION PoolSpec
CONSTANTS
    c1 = c1
    r1 = r1
    r2 = r2
    i1 = i1
    alice = alice
    root = root
    b1 = b1
    w1 = w1
    Creds = {c1}
    Reqs = {r1, r2}
    Instances = {i1}
    NoReq = NoReq
    NoCred = NoCred
    Bridges = {}
    Writers = {w1}
    Limits = {}
    InstanceOf <- MCInstanceOf
    WhoOf <- MCWhoOf
    Admins <- MCAdmins
    OwnerOf <- MCOwnerOf
    KindOf <- MCKindOf
    AuthModes <- MCAuthModes
    Serves <- MCServes
    InitRow <- MCInitRow
    CooldownTicks = 1
    LeaseTtl = 2
    MaxRun = 1
    MaxFaults = 0
    MaxEdits = 1
PROPERTIES
    SharedOnlyByPromotion
