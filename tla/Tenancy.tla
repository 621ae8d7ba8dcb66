------------------------------ MODULE Tenancy ------------------------------
(***************************************************************************)
(* Tenants, their users and their hosts: the tables tenants, users and     *)
(* hosts (internal/store/open.go, store.go, scope.go), Store.Bootstrap,    *)
(* which fills them at the first start, Service.Login (internal/auth) and  *)
(* the handlers of the API that edit them (internal/api/server.go).        *)
(*                                                                         *)
(* Every statement on the database is a step: the statements of starting   *)
(* processes and of requests interleave, a process may end between any two *)
(* of its statements, and any statement may fail.                          *)
(***************************************************************************)
CONSTANTS
    TenantIds, UserIds, HostIds,    \* ids; bound how many rows there are
    Slugs, Default,                 \* tenant slugs, and the one of Bootstrap
    Names,                          \* user names
    Granted,                        \* the roles given to new users
    HostNames, Addresses,           \* host names, and all else a host row holds
    Starts,                         \* server processes
    Clients,                        \* users of the API, one request at a time
    None                            \* no row, no value, and the empty tenant id

ASSUME NoneIsNothing ==
    None \notin TenantIds \cup UserIds \cup HostIds \cup Slugs
                \cup Names \cup HostNames \cup Addresses
ASSUME RolesOfThePage == Granted \subseteq {"admin", "operator"}
ASSUME DefaultIsASlug == Default \in Slugs

VARIABLES
    tenants, users, hosts,  \* the tables: the row of each id, or None
    start,                  \* the processes in Bootstrap and beyond
    client                  \* the clients, their tokens and requests

tables == <<tenants, users, hosts>>
vars == <<tenants, users, hosts, start, client>>

-----------------------------------------------------------------------------
TenantRow == [slug: Slugs, enabled: BOOLEAN]
UserRow == [tenant: TenantIds \cup {None}, name: Names,
            role: {"root", "admin", "operator"}]
HostRow == [tenant: TenantIds \cup {None}, name: HostNames, addr: Addresses]
HostBody == [name: HostNames \cup {None}, addr: Addresses \cup {None}]

ASSUME NoneIsNoRow == None \notin TenantRow \cup UserRow \cup HostRow

(* admin: the administrator of the configuration, while Bootstrap runs.     *)
(* late: began when there was a root user (history).                        *)
Start == [at: {"off", "count", "tenant", "root", "up", "refused"},
          admin: Names \cup {None}, late: BOOLEAN]

(* away: no token; ready: between requests; put: has read the host it       *)
(* edits.  id and row: the row as it was read, and after an edit as the     *)
(* client now expects it.  alone: no other has written it since (history).  *)
Client == [at: {"away", "ready", "put"}, user: UserIds \cup {None},
           id: HostIds \cup {None}, row: HostRow \cup {None}, alone: BOOLEAN]

TypeOK ==
    /\ tenants \in [TenantIds -> TenantRow \cup {None}]
    /\ users \in [UserIds -> UserRow \cup {None}]
    /\ hosts \in [HostIds -> HostRow \cup {None}]
    /\ start \in [Starts -> Start]
    /\ client \in [Clients -> Client]

In(stage) == [at |-> stage, admin |-> None, late |-> FALSE]

Away == [at |-> "away", user |-> None, id |-> None, row |-> None,
         alone |-> FALSE]

(* A token carries the user's id, tenant and role, which never change.      *)
Ready(u) == [Away EXCEPT !.at = "ready", !.user = u]

Init ==
    /\ tenants = [t \in TenantIds |-> None]
    /\ users = [u \in UserIds |-> None]
    /\ hosts = [h \in HostIds |-> None]
    /\ start = [s \in Starts |-> In("off")]
    /\ client = [c \in Clients |-> Away]

-----------------------------------------------------------------------------
(* Queries                                                                  *)

Rows(table) == {i \in DOMAIN table : table[i] # None}

(* The id of a new row: uuids are never used twice, so which one it is does *)
(* not matter.  Without it, no row can be added any more.                   *)
Fresh(table) ==
    LET free == DOMAIN table \ Rows(table) IN
    IF free = {} THEN {} ELSE {CHOOSE i \in free : TRUE}

RootNamed(n) == {u \in Rows(users) : users[u].role = "root" /\ users[u].name = n}
TenantBySlug(s) == {t \in Rows(tenants) : tenants[t].slug = s}
UserNamed(t, n) ==
    {u \in Rows(users) : users[u].tenant = t /\ users[u].name = n}

(* Mutant: the slug is not UNIQUE.                                          *)
AnySlug(s, i) == TRUE

(* The UNIQUE constraints, for a row that is to be stored under id i.       *)
SlugIsFree(s, i) == TenantBySlug(s) \subseteq {i}
UserIsFree(t, n) == UserNamed(t, n) = {}
HostIsFree(t, n, i) ==
    \A h \in Rows(hosts) : hosts[h].tenant = t /\ hosts[h].name = n => h = i

(* lookupSSHUser for "name@slug", and Service.Login for a name and a slug.  *)
(* Whoever has a root user's name is taken for that root user.              *)
SshFinds(n, s) ==
    IF RootNamed(n) # {} THEN RootNamed(n)
    ELSE UNION {UserNamed(t, n) : t \in TenantBySlug(s)}

WebFinds(n, s) ==
    IF RootNamed(n) # {} THEN RootNamed(n)
    ELSE UNION {UserNamed(t, n) : t \in {x \in TenantBySlug(s) : tenants[x].enabled}}

(* Who sends a request, and Scope.tenantFilter for it.                      *)
IsRoot(c) == users[client[c].user].role = "root"
IsAdmin(c) == users[client[c].user].role \in {"root", "admin"}
HomeOf(c) == users[client[c].user].tenant

InScope(c, row) == IsRoot(c) \/ row.tenant = HomeOf(c)

-----------------------------------------------------------------------------
(* runServe up to Bootstrap's return                                        *)

At(s, from, to) ==
    /\ start[s].at = from
    /\ start' = [start EXCEPT ![s] = IF to = "up" THEN In("up")
                                     ELSE [@ EXCEPT !.at = to]]

(* Processes may be started side by side, and their configurations may name *)
(* different administrators.                                                *)
Begin(s, admin) ==
    /\ start[s].at \in {"off", "refused"}
    /\ start' = [start EXCEPT ![s] =
          [at |-> "count", admin |-> admin,
           late |-> \E u \in Rows(users) : users[u].role = "root"]]
    /\ UNCHANGED <<tables, client>>

(* Mutant: a bootstrapped database is known by its default tenant.          *)
LooksForDefault(s) ==
    /\ At(s, "count", IF TenantBySlug(Default) = {} THEN "tenant" ELSE "up")
    /\ UNCHANGED <<tables, client>>

(* A database with any user is taken to be bootstrapped.                    *)
CountUsers(s) ==
    /\ At(s, "count", IF Rows(users) = {} THEN "tenant" ELSE "up")
    /\ UNCHANGED <<tables, client>>

InsertDefault(s) ==
    /\ SlugIsFree(Default, None)
    /\ At(s, "tenant", "root")
    /\ \E t \in Fresh(tenants) :
          tenants' = [tenants EXCEPT ![t] = [slug |-> Default, enabled |-> TRUE]]
    /\ UNCHANGED <<users, hosts, client>>

(* Mutant: the error of CreateTenant is ignored.                            *)
TenantErrorIgnored(s) ==
    /\ ~SlugIsFree(Default, None)
    /\ At(s, "tenant", "root")
    /\ UNCHANGED <<tables, client>>

DefaultRefused(s) ==
    /\ ~SlugIsFree(Default, None)
    /\ At(s, "tenant", "refused")
    /\ UNCHANGED <<tables, client>>

InsertRoot(s) ==
    /\ UserIsFree(None, start[s].admin)
    /\ At(s, "root", "up")
    /\ \E u \in Fresh(users) :
          users' = [users EXCEPT ![u] =
                       [tenant |-> None, name |-> start[s].admin, role |-> "root"]]
    /\ UNCHANGED <<tenants, hosts, client>>

RootRefused(s) ==
    /\ ~UserIsFree(None, start[s].admin)
    /\ At(s, "root", "refused")
    /\ UNCHANGED <<tables, client>>

(* A process ends: it is stopped, it crashes, or a statement of Bootstrap   *)
(* fails.  The last one to serve takes the requests along, and leaves the   *)
(* clients their tokens.                                                    *)
End(s) ==
    /\ start[s].at \in {"count", "tenant", "root", "up"}
    /\ start' = [start EXCEPT ![s] = In("off")]
    /\ client' = IF \E o \in Starts \ {s} : start[o].at = "up" THEN client
                 ELSE [c \in Clients |->
                          IF client[c].at = "put" THEN Ready(client[c].user)
                                                  ELSE client[c]]
    /\ UNCHANGED tables

-----------------------------------------------------------------------------
Serving == \E s \in Starts : start[s].at = "up"

(* Login, with the right password for user u and the slug the client gives. *)
(* One step stands for its three queries: the ids, the names and the        *)
(* tenants of users never change, and the tenant's slug and enabled are     *)
(* read by one query.                                                       *)
LogIn(c, u, s) ==
    /\ Serving
    /\ client[c].at = "away" /\ users[u] # None
    /\ WebFinds(users[u].name, s) = {u}
    /\ client' = [client EXCEPT ![c] = Ready(u)]
    /\ UNCHANGED <<tables, start>>

-----------------------------------------------------------------------------
(* Requests.  One statement: an INSERT or a DELETE, or a read that is kept. *)

Asks(c) == Serving /\ client[c].at = "ready"

(* c writes host h; the others that have read or written it no longer know  *)
(* the row.                                                                 *)
Write(c, h, row, new) ==
    /\ hosts' = [hosts EXCEPT ![h] = row]
    /\ client' = [d \in Clients |->
          CASE d = c -> new
            [] d # c /\ client[d].id = h /\ client[d].at = "put" ->
                  [client[d] EXCEPT !.alone = FALSE]
            [] d # c /\ client[d].id = h /\ client[d].at = "ready" ->
                  Ready(client[d].user)
            [] OTHER -> client[d]]
    /\ UNCHANGED <<tenants, users, start>>

Idle(c) == Ready(client[c].user)
Done(c) == client' = [client EXCEPT ![c] = Idle(c)]

(* createTenant, behind RootMiddleware.                                     *)
CreateTenant(c, t, s) ==
    /\ Asks(c) /\ IsRoot(c)
    /\ SlugIsFree(s, t)
    /\ tenants' = [tenants EXCEPT ![t] = [slug |-> s, enabled |-> TRUE]]
    /\ Done(c)
    /\ UNCHANGED <<users, hosts, start>>

(* createUser, behind AdminMiddleware.  Only a root user's choice of tenant *)
(* counts; the page offers none, and two roles.                             *)
CreateUser(c, u, n, role, t) ==
    LET home == IF IsRoot(c) /\ t # None THEN t ELSE HomeOf(c) IN
    /\ Asks(c) /\ IsAdmin(c)
    /\ UserIsFree(home, n)
    /\ users' = [users EXCEPT ![u] = [tenant |-> home, name |-> n, role |-> role]]
    /\ Done(c)
    /\ UNCHANGED <<tenants, hosts, start>>

(* createHost takes the id from the body when there is one, that of a       *)
(* deleted host included.                                                   *)
CreateHost(c, h, n, a, t) ==
    LET home == IF IsRoot(c) /\ t # None THEN t ELSE HomeOf(c) IN
    /\ Asks(c)
    /\ hosts[h] = None /\ HostIsFree(home, n, h)
    /\ Write(c, h, [tenant |-> home, name |-> n, addr |-> a], Idle(c))

DeleteHost(c, h) ==
    /\ Asks(c)
    /\ hosts[h] # None /\ InScope(c, hosts[h])
    /\ Write(c, h, None, Idle(c))

-----------------------------------------------------------------------------
(* Requests that read a row, decode the body over it and store the result.  *)

GetHost(c, h) ==
    /\ Asks(c)
    /\ hosts[h] # None /\ InScope(c, hosts[h])
    /\ client' = [client EXCEPT ![c] =
          [@ EXCEPT !.at = "put", !.id = h, !.row = hosts[h], !.alone = TRUE]]
    /\ UNCHANGED <<tables, start>>

Given(new, old) == IF new = None THEN old ELSE new

(* Mutant: the body is decoded into an empty row.                           *)
DecodeAfresh(row, body) ==
    [tenant |-> row.tenant, name |-> Given(body.name, row.name), addr |-> body.addr]

(* json Decode over the row: absent fields keep their value.  A body names  *)
(* the row's own tenant, as the page's does, or none.                       *)
Merge(row, body) ==
    [row EXCEPT !.name = Given(body.name, @), !.addr = Given(body.addr, @)]

(* Mutant: UPDATE by id alone.                                              *)
MatchesId(c) == hosts[client[c].id] # None

(* UPDATE by id and the tenant of the row that was read.                    *)
Matches(c) ==
    /\ hosts[client[c].id] # None
    /\ hosts[client[c].id].tenant = client[c].row.tenant

(* What the client expects from now on, if it was alone: the fields its     *)
(* body named, and the rest as it was.                                      *)
Answered(c, body) ==
    LET old == client[c].row IN
    IF ~client[c].alone THEN Idle(c)
    ELSE [client[c] EXCEPT !.at = "ready", !.row =
             [tenant |-> old.tenant,
              name |-> IF body.name = None THEN old.name ELSE body.name,
              addr |-> IF body.addr = None THEN old.addr ELSE body.addr]]

UpdateHost(c, body) ==
    LET h == client[c].id  new == Merge(client[c].row, body) IN
    /\ client[c].at = "put" /\ Serving
    /\ Matches(c) /\ HostIsFree(hosts[h].tenant, new.name, h)
    /\ Write(c, h, [new EXCEPT !.tenant = hosts[h].tenant], Answered(c, body))

(* No row matches any more: the request is answered as if it had been       *)
(* stored.                                                                  *)
UpdateNothing(c, body) ==
    /\ client[c].at = "put" /\ Serving /\ ~Matches(c)
    /\ client' = [client EXCEPT ![c] = Answered(c, body)]
    /\ UNCHANGED <<tables, start>>

(* updateTenant, behind RootMiddleware: read, decode, UPDATE by id.  Tenants *)
(* are never deleted and a body may set every field, so that the row read    *)
(* before does not narrow what is stored.                                    *)
UpdateTenant(c, t, s, enabled) ==
    /\ Asks(c) /\ IsRoot(c)
    /\ tenants[t] # None /\ SlugIsFree(s, t)
    /\ tenants' = [tenants EXCEPT ![t] = [slug |-> s, enabled |-> enabled]]
    /\ Done(c)
    /\ UNCHANGED <<users, hosts, start>>

(* A refused or failed request, or a logout.                                *)
GiveUp(c) ==
    /\ client[c].at # "away"
    /\ client' \in {[client EXCEPT ![c] = new] : new \in {Idle(c), Away}}
    /\ UNCHANGED <<tables, start>>

-----------------------------------------------------------------------------
Starting(s) ==
    \/ \E n \in Names : Begin(s, n)
    \/ CountUsers(s) \/ InsertDefault(s) \/ DefaultRefused(s)
    \/ InsertRoot(s) \/ RootRefused(s) \/ End(s)

Use(c) ==
    \/ GiveUp(c)
    \/ \E u \in UserIds, s \in Slugs : LogIn(c, u, s)
    \/ \E t \in Fresh(tenants), s \in Slugs : CreateTenant(c, t, s)
    \/ \E u \in Fresh(users), n \in Names, role \in Granted,
          t \in Rows(tenants) \cup {None} : CreateUser(c, u, n, role, t)
    \/ \E h \in HostIds, n \in HostNames, a \in Addresses,
          t \in Rows(tenants) \cup {None} : CreateHost(c, h, n, a, t)

Edit(c) ==
    \/ \E h \in HostIds : GetHost(c, h) \/ DeleteHost(c, h)
    \/ \E body \in HostBody : UpdateHost(c, body) \/ UpdateNothing(c, body)
    \/ \E t \in TenantIds, s \in Slugs, e \in BOOLEAN : UpdateTenant(c, t, s, e)

Next ==
    \/ \E s \in Starts : Starting(s)
    \/ \E c \in Clients : Use(c) \/ Edit(c)

Spec == Init /\ [][Next]_vars

-----------------------------------------------------------------------------
(* Bootstraps that run side by side, under different administrators' names, *)
(* make one administrator: the UNIQUE slug of the default tenant decides    *)
(* (store.go:23-41).  A second one takes a second default tenant, after the *)
(* first was renamed while a slower process was on its way to insert its    *)
(* own.                                                                     *)
OneRoot ==
    (\A t1, t2 \in Rows(tenants) : t1 = t2) =>
        \A u, v \in Rows(users) :
            users[u].role = "root" /\ users[v].role = "root" => u = v

(* Every server that serves has an administrator and a tenant, whatever     *)
(* starts were cut short before it.                                         *)
ServersAreBootstrapped ==
    Serving => (\E u \in Rows(users) : users[u].role = "root")
               /\ Rows(tenants) # {}

(* Once there is an administrator, no start bootstraps again or is refused, *)
(* however the tenants were renamed and the users added since.              *)
LaterStartsServe ==
    \A s \in Starts : start[s].late => start[s].at = "count"

(* Both together: the database is bootstrapped once, before anybody serves, *)
(* and stays so for every process that starts later.                        *)
BootstrapIsOnceAndEnough == ServersAreBootstrapped /\ LaterStartsServe

(* "SSH jump: user@tenant@bastion, or log in on the web and choose the      *)
(* tenant" (README.md:88-93): a user of a tenant is found, and nobody else, *)
(* by name and current slug; the tenant must be enabled for the web.  The   *)
(* administrator is found whatever the slug.  Users who share the           *)
(* administrator's name are excepted.                                       *)
NamesLeadToTheirUser ==
    \A u \in Rows(users) :
        LET t == users[u].tenant  n == users[u].name IN
        /\ users[u].role = "root" =>
              \A s \in Slugs : SshFinds(n, s) = {u} /\ WebFinds(n, s) = {u}
        /\ t # None /\ RootNamed(n) = {} =>
              /\ SshFinds(n, tenants[t].slug) = {u}
              /\ tenants[t].enabled => WebFinds(n, tenants[t].slug) = {u}

(* An answered PUT is what the table holds until another request writes the *)
(* row, if none did since it was read: what the body named, and the rest as *)
(* it was.  Of two overlapping edits one may be lost (api/server.go:208-218)*)
LoneEditsAreKept ==
    \A c \in Clients :
        client[c].at = "ready" /\ client[c].id # None =>
            hosts[client[c].id] = client[c].row

(* Tenants are isolated (README.md:7): a host row appears, changes and goes *)
(* by a request of its own tenant's users or of the administrator, also     *)
(* when its id belonged to another tenant's host while the request ran.     *)
MayTouch(c, row) == row = None \/ row.tenant = HomeOf(c)

TenantsChangeTheirOwnHosts ==
    [][\A h \in HostIds :
          hosts'[h] # hosts[h] =>
              \E c \in Clients :
                  /\ client[c].at \in {"ready", "put"}
                  /\ \/ IsRoot(c)
                     \/ MayTouch(c, hosts[h]) /\ MayTouch(c, hosts'[h])]_vars

(* README.md:88-91 lists how every user logs in: with the administrator's   *)
(* name, or with the tenant's slug and the user's name.  Every user of an   *)
(* enabled tenant, and every user without a tenant, whose name is not the   *)
(* administrator's too, is found by one.                                    *)
EveryUserCanLogIn ==
    \A u \in Rows(users) :
        LET t == users[u].tenant  n == users[u].name IN
        (t = None \/ tenants[t].enabled) /\ RootNamed(n) \subseteq {u} =>
            \E s \in Slugs : WebFinds(n, s) = {u}
=============================================================================
