SPECIFICATION Spec
CONSTANTS
    p1 = p1
    p2 = p2
    k1 = k1
    k2 = k2
    l1 = l1
    h1 = h1
    b1 = b1
    s1 = s1
    s2 = s2
    a1 = a1
    DB = DB
    NoLogin = NoLogin
    NoOrigin = NoOrigin
    Procs = {p1, p2}
    Wirings = {"memory", "postgres"}
    Logins = {l1}
    Codes = {k1, k2}
    Tokens = {h1, b1, s1, s2, a1}
    LoginTtl = 1
    CodeTtl = 3
    Supplies <- MCSupplies
    KindOf <- MCKindOf
    TokenTtl <- MCTokenTtl
    MaxTime = 4
    MaxRestarts = 1
    MaxRevoked = 1
SYMMETRY Twins
CHECK_DEADLOCK FALSE
INVARIANTS
    TypeOK
    CodeRedeemedOnce
    BootstrapSpentOnce
    SessionInTime
PROPERTIES
    NeverRehabilitated
