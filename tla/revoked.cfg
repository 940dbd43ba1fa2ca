SPECIFICATION Spec
CONSTANTS
    p1 = p1
    p2 = p2
    k1 = k1
    k2 = k2
    l1 = l1
    h1 = h1
    b1 = b1
    s1 = s1
    s2 = s2
    a1 = a1
    DB = DB
    NoLogin = NoLogin
    NoOrigin = NoOrigin
    Procs = {p1, p2}
    Wirings = {"postgres"}
    Logins = {l1}
    Codes = {k1, k2}
    Tokens = {h1, b1, s1, s2, a1}
    LoginTtl = 1
    CodeTtl = 1
    Supplies <- MCSupplies
    KindOf <- MCKindOf
    TokenTtl <- MCTokenTtl
    MaxTime = 1
    MaxRestarts = 0
    MaxRevoked = 1
CHECK_DEADLOCK FALSE
PROPERTIES
    RevokedIssuesNothing
