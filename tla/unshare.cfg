SPECIFICATION Spec
CONSTANTS
    c1 = c1
    c2 = c2
    c3 = c3
    i1 = i1
    i2 = i2
    NoCred = NoCred
    Creds = {c1}
    Instances = {i1}
    NameOf <- MCNameOf
    MaxOps = 3
    MaxTurns = 1
    MaxFaults = 0
SYMMETRY Twins
CHECK_DEADLOCK FALSE
INVARIANTS
    UnshareWithdraws
