SPECIFICATION Spec
CONSTANTS
    c1 = c1
    c2 = c2
    r1 = r1
    r2 = r2
    r3 = r3
    i1 = i1
    i2 = i2
    alice = alice
    root = root
    Creds = {c1, c2}
    Reqs = {r1, r2}
    Instances = {i1, i2}
    NoReq = NoReq
    NoCred = NoCred
    InstanceOf <- MCInstanceOf
    WhoOf <- MCWhoOf
    Admins <- MCAdmins
    OwnerOf <- MCOwnerOf
    KindOf <- MCKindOf
    AuthModes <- MCAuthModes
    Serves <- MCServes
    InitRow <- MCInitRow
    CooldownTicks = 1
    LeaseTtl = 2
    MaxRun = 1
    MaxFaults = 1
    MaxEdits = 1
INVARIANTS
    TypeOK
    LeaseAccounting
    NoOversubscription
PROPERTIES
    StartsOnlyOnEligible
    ImplementsSlots
