SPECIFICATION Spec
CONSTANTS
    None = None
    c1 = c1
    d1 = d1
    d2 = d2
    d3 = d3
    t1 = t1
    t2 = t2
    t3 = t3
    app = app
    other = other
    a1 = a1
    a2 = a2
    Consents = {c1}
    Decisions = {d1, d2}
    TokenRequests = {t1, t2, t3}
    Clients = {app, other}
    ClientOf <- OneClient
    Scopes = {"accounts_read", "payments_initiate"}
    Accounts = {a1, a2}
    Asked <- AskedBoth
    Forms <- FewForms
    Faults = {"db"}
SYMMETRY RequestSymmetry
INVARIANT TypeOK
INVARIANT OneCodePerConsent
INVARIANT ScopeWasApproved
INVARIANT SpentOnce
INVARIANT FreshCredentialAccepted
INVARIANT ReadsWereApproved
INVARIANT IInv
CHECK_DEADLOCK FALSE
