\* Two hosts, two accounts, two logins at once, two keys, a database that
\* may fail and a server that may crash.
CONSTANTS
    u1 = u1  h1 = h1  h2 = h2  a1 = a1  a2 = a2
    k1 = k1  k2 = k2  k3 = k3  c1 = c1  c2 = c2
    Users = {u1}
    Hosts = {h1, h2}
    Accounts = {a1, a2}
    Keys = {k1, k2}
    Logins = {c1, c2}
    None = None
    StoreMayFail = TRUE
SYMMETRY LoginSymmetry
SPECIFICATION Spec
INVARIANTS
    TypeOK
    StoredKeyReachedItsHost
    StoredKeyStaysWithItsHost
    UneditedHostsAreProvisioned
PROPERTIES
    OnlyRacersReplaceStoredKey
    CustodyIsKept
