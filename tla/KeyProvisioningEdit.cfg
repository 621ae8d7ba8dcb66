\* One user, one host whose account is edited, a database that never fails.
CONSTANTS
    u1 = u1  h1 = h1  h2 = h2  a1 = a1  a2 = a2
    k1 = k1  k2 = k2  k3 = k3  c1 = c1  c2 = c2
    Users = {u1}
    Hosts = {h1}
    Accounts = {a1, a2}
    Keys = {k1, k2}
    Logins = {c1}
    None = None
    StoreMayFail = FALSE
SYMMETRY LoginSymmetry
SPECIFICATION Spec
INVARIANT PasswordLoginProvisionsKey
