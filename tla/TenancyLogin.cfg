\* One server and one client.
CONSTANTS
    t1 = t1  t2 = t2  u1 = u1  u2 = u2  u3 = u3  h1 = h1  h2 = h2
    default = default  acme = acme  n1 = n1  n2 = n2
    m1 = m1  m2 = m2  a1 = a1  a2 = a2  s1 = s1  s2 = s2  c1 = c1  c2 = c2
    TenantIds = {t1, t2}
    UserIds = {u1, u2}
    HostIds = {h1}
    Slugs = {default, acme}
    Default = default
    Names = {n1, n2}
    Granted = {"admin", "operator"}
    HostNames = {m1}
    Addresses = {a1, a2}
    Starts = {s1}
    Clients = {c1}
    None = None
SPECIFICATION Spec
INVARIANT EveryUserCanLogIn
