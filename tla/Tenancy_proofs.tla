--------------------------- MODULE Tenancy_proofs ---------------------------
(***************************************************************************)
(* Proofs about Tenancy, for any number of tenants, users, hosts, starting *)
(* processes and clients.                                                  *)
(***************************************************************************)
EXTENDS Tenancy, TLAPS

RootUser(u) == u \in Rows(users) /\ users[u].role = "root"
HasRoot == \E u \in UserIds : RootUser(u)
AtRoot(s) == start[s].at = "root"

(* A process inserts its administrator only after a default tenant, and as  *)
(* long as there is one tenant it is the only one to do so.                 *)
OneAdministrator ==
    /\ HasRoot \/ (\E s \in Starts : AtRoot(s)) => Rows(tenants) # {}
    /\ (\A t, x \in Rows(tenants) : t = x) =>
          /\ \A s, o \in Starts : AtRoot(s) /\ AtRoot(o) => s = o
          /\ \A u, v \in UserIds : RootUser(u) /\ RootUser(v) => u = v
          /\ \A s \in Starts : AtRoot(s) => ~HasRoot

(* The administrator comes before every other user, and every process that  *)
(* serves, or began to start after it, is one of a bootstrapped database.   *)
RootFirst ==
    /\ Rows(users) # {} => HasRoot
    /\ \A s \in Starts : start[s].at = "up" => HasRoot
    /\ \A s \in Starts : start[s].late => start[s].at = "count" /\ HasRoot
    /\ \A s \in Starts :
          start[s].at \in {"count", "tenant", "root"} => start[s].admin \in Names

(* The UNIQUE constraints, and users whose tenant has a row.                *)
Unique ==
    /\ \A t, x \in Rows(tenants) : tenants[t].slug = tenants[x].slug => t = x
    /\ \A u, v \in Rows(users) :
          users[u].tenant = users[v].tenant /\ users[u].name = users[v].name => u = v

UsersHaveTenants ==
    \A u \in Rows(users) :
        IF users[u].role = "root" THEN users[u].tenant = None
        ELSE users[u].tenant \in Rows(tenants) \cup {None}

(* A token is one of a user, a request holds a row of its user's tenant,    *)
(* and what nobody else has written is still in the table.                  *)
ClientFits(c) ==
    /\ client[c].at # "away" => client[c].user \in Rows(users)
    /\ client[c].at = "put" =>
          /\ client[c].id \in HostIds /\ client[c].row \in HostRow
          /\ InScope(c, client[c].row)
    /\ ((client[c].at = "put" /\ client[c].alone)
        \/ (client[c].at = "ready" /\ client[c].id # None)) =>
          /\ client[c].row \in HostRow
          /\ hosts[client[c].id] = client[c].row

ClientsFit == \A c \in Clients : ClientFits(c)

RegistryFits == OneAdministrator /\ RootFirst /\ Unique /\ UsersHaveTenants

IInv == TypeOK /\ RegistryFits /\ ClientsFit

-----------------------------------------------------------------------------
USE NoneIsNothing, NoneIsNoRow

Stages == {"off", "count", "tenant", "root", "up", "refused"}

LEMMA InitInv == Init => IInv
<1> SUFFICES ASSUME Init PROVE IInv
  OBVIOUS
<1>1. /\ \A s \in Starts : start[s] = In("off")
      /\ In("off") \in Start /\ In("off").at = "off" /\ ~In("off").late
  BY DEF Init, In, Start
<1>2. /\ \A c \in Clients : client[c] = Away
      /\ Away \in Client /\ Away.at = "away" /\ Away.id = None
  BY DEF Init, Away, Client
<1>3. Rows(tenants) = {} /\ Rows(users) = {} /\ Rows(hosts) = {}
  BY DEF Init, Rows
<1>4. TypeOK
  BY <1>1, <1>2 DEF Init, TypeOK
<1>5. RegistryFits
  BY <1>1, <1>3
  DEF RegistryFits, OneAdministrator, RootFirst, Unique, UsersHaveTenants,
      HasRoot, RootUser, AtRoot
<1>6. ClientsFit
  BY <1>2 DEF ClientsFit, ClientFits
<1> QED BY <1>4, <1>5, <1>6 DEF IInv

-----------------------------------------------------------------------------
(* Rows and records                                                         *)

LEMMA FreshIds ==
    ASSUME NEW table, NEW i \in Fresh(table)
    PROVE  i \in DOMAIN table /\ table[i] = None
<1> DEFINE free == DOMAIN table \ Rows(table)
<1>1. free # {} /\ i = CHOOSE j \in free : TRUE
  BY DEF Fresh
<1>2. i \in free
  BY <1>1
<1> QED BY <1>2 DEF Rows

(* A process moves on, alone.                                               *)
Moved(s, to) ==
    /\ start' \in [Starts -> Start]
    /\ start'[s].at = to
    /\ start'[s].late => start[s].late /\ to # "up"
    /\ to # "up" => start'[s].admin = start[s].admin
    /\ \A o \in Starts \ {s} : start'[o] = start[o]

LEMMA StartMoves ==
    ASSUME start \in [Starts -> Start], NEW s \in Starts, NEW to \in Stages,
           NEW from, At(s, from, to)
    PROVE  start[s].at = from /\ Moved(s, to)
<1> DEFINE r == IF to = "up" THEN In("up") ELSE [start[s] EXCEPT !.at = to]
<1>1. [start[s] EXCEPT !.at = to] \in Start
      /\ [start[s] EXCEPT !.at = to].at = to
      /\ [start[s] EXCEPT !.at = to].late = start[s].late
      /\ [start[s] EXCEPT !.at = to].admin = start[s].admin
  BY DEF Start, Stages
<1>2. In("up") \in Start /\ In("up").at = "up" /\ In("up").late = FALSE
  BY DEF In, Start
<1>3. r \in Start /\ r.at = to /\ (r.late => start[s].late /\ to # "up")
      /\ (to # "up" => r.admin = start[s].admin)
  BY <1>1, <1>2
<1>4. start' = [start EXCEPT ![s] = r] /\ start[s].at = from
  BY DEF At
<1> HIDE DEF r
<1> QED BY <1>3, <1>4 DEF Moved

LEMMA AwayClients == Away \in Client /\ Away.at = "away" /\ Away.id = None
  BY DEF Away, Client

LEMMA ReadyClients ==
    ASSUME NEW u \in UserIds
    PROVE  /\ Ready(u) \in Client
           /\ Ready(u).at = "ready" /\ Ready(u).user = u /\ Ready(u).id = None
<1>1. ASSUME NEW a \in Client
      PROVE  LET r == [a EXCEPT !.at = "ready", !.user = u]
             IN  r \in Client /\ r.at = "ready" /\ r.user = u /\ r.id = a.id
  BY DEF Client
<1> QED BY <1>1, AwayClients DEF Ready

(* A client with no row is one of a user or away.                           *)
LEMMA EmptyHanded ==
    ASSUME NEW c, NEW u \in Rows(users)', UserIds = DOMAIN users',
           client'[c] = Ready(u) \/ client'[c] = Away
    PROVE  ClientFits(c)'
<1>1. u \in UserIds
  BY DEF Rows
<1> QED BY <1>1, ReadyClients, AwayClients DEF ClientFits

(* Rows of users never change.                                              *)
UsersStay ==
    \A u \in Rows(users) : u \in Rows(users)' /\ users'[u] = users[u]

(* A client that no step touches, and whose host no step touches, fits.     *)
LEMMA Untouched ==
    ASSUME NEW c \in Clients, ClientFits(c), UsersStay, client'[c] = client[c],
           client[c].id \in HostIds => hosts'[client[c].id] = hosts[client[c].id],
           client[c].id \in HostIds \cup {None}
    PROVE  ClientFits(c)'
  BY DEF ClientFits, UsersStay, InScope, IsRoot, HomeOf

(* A step of one client that leaves the hosts alone.                        *)
LEMMA OneClient ==
    ASSUME TypeOK, ClientsFit, UsersStay, hosts' = hosts, NEW c \in Clients,
           NEW new \in Client, client' = [client EXCEPT ![c] = new],
           ClientFits(c)'
    PROVE  client' \in [Clients -> Client] /\ ClientsFit'
<1>1. client' \in [Clients -> Client]
      /\ \A d \in Clients \ {c} : client'[d] = client[d]
  BY DEF TypeOK
<1>2. ASSUME NEW d \in Clients \ {c} PROVE ClientFits(d)'
  <2>1. client[d].id \in HostIds \cup {None}
    BY DEF TypeOK, Client
  <2> QED BY <1>1, <2>1, Untouched DEF ClientsFit
<1> QED BY <1>1, <1>2 DEF ClientsFit

(* A request that is answered, refused or failed, and a logout.             *)
LEMMA Answers ==
    ASSUME TypeOK, ClientsFit, UsersStay, hosts' = hosts,
           users' \in [UserIds -> UserRow \cup {None}],
           NEW c \in Clients, client[c].at # "away",
           NEW new \in {Idle(c), Away}, client' = [client EXCEPT ![c] = new]
    PROVE  client' \in [Clients -> Client] /\ ClientsFit'
<1>1. client[c].user \in Rows(users)' /\ client[c].user \in UserIds
  BY DEF ClientsFit, ClientFits, UsersStay, Rows, TypeOK
<1>2. new \in Client /\ client'[c] = new
  BY <1>1, ReadyClients, AwayClients DEF Idle, TypeOK
<1>3. ClientFits(c)'
  BY <1>1, <1>2, EmptyHanded DEF Idle
<1> QED BY <1>2, <1>3, OneClient

(* New rows.                                                                *)
TenantSet(t, row) ==
    /\ tenants' \in [TenantIds -> TenantRow \cup {None}]
    /\ Rows(tenants)' = Rows(tenants) \cup {t}
    /\ tenants'[t] = row
    /\ \A x \in TenantIds \ {t} : tenants'[x] = tenants[x]

LEMMA TenantWritten ==
    ASSUME TypeOK, NEW t \in TenantIds, NEW row \in TenantRow,
           tenants' = [tenants EXCEPT ![t] = row]
    PROVE  TenantSet(t, row)
  BY DEF TypeOK, TenantSet, Rows

UserAdded(u, row) ==
    /\ users' \in [UserIds -> UserRow \cup {None}]
    /\ u \notin Rows(users) /\ Rows(users)' = Rows(users) \cup {u}
    /\ users'[u] = row
    /\ UsersStay

LEMMA UserWritten ==
    ASSUME TypeOK, NEW u \in Fresh(users), NEW row \in UserRow,
           users' = [users EXCEPT ![u] = row]
    PROVE  UserAdded(u, row)
<1>1. u \in UserIds /\ users[u] = None
  BY FreshIds DEF TypeOK
<1> QED BY <1>1 DEF TypeOK, UserAdded, Rows, UsersStay

(* The roots after a user was added.                                        *)
LEMMA RootsAfter ==
    ASSUME TypeOK, NEW u \in UserIds, NEW row \in UserRow, UserAdded(u, row)
    PROVE  /\ \A v \in UserIds :
                RootUser(v)' <=> RootUser(v) \/ (v = u /\ row.role = "root")
           /\ HasRoot => HasRoot'
  BY DEF UserAdded, UsersStay, RootUser, HasRoot

-----------------------------------------------------------------------------
(* Starting processes                                                       *)

LEMMA BeginKeepsRegistry ==
    ASSUME TypeOK, RegistryFits, NEW s \in Starts, NEW n \in Names, Begin(s, n)
    PROVE  start' \in [Starts -> Start] /\ RegistryFits'
<1> DEFINE r == [at |-> "count", admin |-> n,
                 late |-> \E u \in Rows(users) : users[u].role = "root"]
<1>1. UNCHANGED <<tenants, users>> /\ start' = [start EXCEPT ![s] = r]
  BY DEF Begin, tables
<1>2. r \in Start /\ r.at = "count" /\ (r.late => HasRoot) /\ r.admin \in Names
  <2>1. (\E u \in Rows(users) : users[u].role = "root") => HasRoot
    BY DEF HasRoot, RootUser, Rows, TypeOK
  <2> QED BY <2>1 DEF Start
<1> HIDE DEF r
<1>3. start' \in [Starts -> Start] /\ start'[s] = r
      /\ \A o \in Starts \ {s} : start'[o] = start[o]
  BY <1>1, <1>2 DEF TypeOK
<1>4. OneAdministrator'
  BY <1>1, <1>2, <1>3
  DEF RegistryFits, OneAdministrator, AtRoot, HasRoot, RootUser, Rows
<1>5. RootFirst'
  BY <1>1, <1>2, <1>3 DEF RegistryFits, RootFirst, HasRoot, RootUser, Rows
<1>6. Unique' /\ UsersHaveTenants'
  BY <1>1 DEF RegistryFits, Unique, UsersHaveTenants, Rows
<1> QED BY <1>3, <1>4, <1>5, <1>6 DEF RegistryFits

(* A process that only moves, and neither comes to insert its administrator *)
(* nor to serve a database without one.                                     *)
LEMMA MovesKeepRegistry ==
    ASSUME TypeOK, RegistryFits, NEW s \in Starts, NEW to \in Stages,
           Moved(s, to), UNCHANGED <<tenants, users>>,
           ~start'[s].late, to # "root", to = "up" => HasRoot,
           to \in {"count", "tenant"} => start[s].at = "count"
    PROVE  RegistryFits'
<1>1. OneAdministrator'
  BY DEF RegistryFits, OneAdministrator, AtRoot, HasRoot, RootUser, Rows, Moved
<1>2. RootFirst'
  BY DEF RegistryFits, RootFirst, HasRoot, RootUser, Rows, Moved
<1>3. Unique' /\ UsersHaveTenants'
  BY DEF RegistryFits, Unique, UsersHaveTenants, Rows
<1> QED BY <1>1, <1>2, <1>3 DEF RegistryFits

LEMMA InsertDefaultKeepsRegistry ==
    ASSUME TypeOK, RegistryFits, NEW s \in Starts, InsertDefault(s)
    PROVE  /\ start' \in [Starts -> Start]
           /\ tenants' \in [TenantIds -> TenantRow \cup {None}]
           /\ RegistryFits'
<1> DEFINE row == [slug |-> Default, enabled |-> TRUE]
<1>1. PICK t \in Fresh(tenants) : tenants' = [tenants EXCEPT ![t] = row]
  BY DEF InsertDefault
<1>2. users' = users /\ start[s].at = "tenant" /\ Moved(s, "root")
  <2>1. "root" \in Stages
    BY DEF Stages
  <2> QED BY <2>1, StartMoves DEF InsertDefault, TypeOK
<1>3. row \in TenantRow /\ row.slug = Default
  BY DefaultIsASlug DEF TenantRow
<1> HIDE DEF row
<1>4. t \in TenantIds /\ t \notin Rows(tenants)
  BY <1>1, FreshIds DEF TypeOK, Rows
<1>5. TenantSet(t, row)
  BY <1>1, <1>3, <1>4, TenantWritten
<1>6. \A x \in Rows(tenants) : tenants[x].slug # Default
  BY DEF InsertDefault, SlugIsFree, TenantBySlug, Rows, TypeOK
<1>7. OneAdministrator'
  <2>1. (\A x, y \in Rows(tenants)' : x = y) => Rows(tenants) = {}
    BY <1>4, <1>5 DEF TenantSet
  <2>2. Rows(tenants)' # {}
    BY <1>5 DEF TenantSet
  <2> QED BY <1>2, <2>1, <2>2
    DEF RegistryFits, OneAdministrator, HasRoot, RootUser, Rows, AtRoot, Moved
<1>8. RootFirst'
  BY <1>2 DEF RegistryFits, RootFirst, HasRoot, RootUser, Rows, Moved
<1>9. Unique'
  <2>1. \A x \in Rows(tenants) : x \in TenantIds /\ x # t
    BY <1>4 DEF Rows, TypeOK
  <2>2. \A x, y \in Rows(tenants)' : tenants'[x].slug = tenants'[y].slug => x = y
    BY <1>3, <1>5, <1>6, <2>1 DEF RegistryFits, Unique, TenantSet
  <2> QED BY <1>2, <2>2 DEF RegistryFits, Unique, Rows
<1>10. UsersHaveTenants'
  BY <1>2, <1>5 DEF RegistryFits, UsersHaveTenants, TenantSet, Rows
<1> QED BY <1>2, <1>5, <1>7, <1>8, <1>9, <1>10 DEF RegistryFits, Moved, TenantSet

LEMMA InsertRootKeepsRegistry ==
    ASSUME TypeOK, RegistryFits, NEW s \in Starts, InsertRoot(s)
    PROVE  /\ start' \in [Starts -> Start]
           /\ users' \in [UserIds -> UserRow \cup {None}] /\ UsersStay
           /\ RegistryFits'
<1> DEFINE n == start[s].admin
           row == [tenant |-> None, name |-> n, role |-> "root"]
<1>1. PICK u \in Fresh(users) : users' = [users EXCEPT ![u] = row]
  BY DEF InsertRoot
<1>2. tenants' = tenants /\ start[s].at = "root" /\ Moved(s, "up")
  <2>1. "up" \in Stages
    BY DEF Stages
  <2> QED BY <2>1, StartMoves DEF InsertRoot, TypeOK
<1>3. n \in Names
  BY <1>2 DEF RegistryFits, RootFirst
<1>4. row \in UserRow /\ row.tenant = None /\ row.name = n /\ row.role = "root"
  BY <1>3 DEF UserRow
<1>5. \A v \in Rows(users) : ~(users[v].tenant = None /\ users[v].name = n)
  BY DEF InsertRoot, UserIsFree, UserNamed
<1> HIDE DEF row, n
<1>6. u \in UserIds /\ UserAdded(u, row)
  BY <1>1, <1>4, UserWritten, FreshIds DEF TypeOK
<1>7. /\ \A v \in UserIds : RootUser(v)' <=> RootUser(v) \/ v = u
      /\ HasRoot'
  BY <1>4, <1>6, RootsAfter DEF HasRoot
<1>8. OneAdministrator'
  <2>1. \A o \in Starts : AtRoot(o)' => o # s /\ AtRoot(o)
    BY <1>2 DEF AtRoot, Moved
  <2>2. AtRoot(s)
    BY <1>2 DEF AtRoot
  <2>3. Rows(tenants)' = Rows(tenants)
    BY <1>2 DEF Rows
  <2>4. (\A x, y \in Rows(tenants) : x = y)
        => /\ \A o \in Starts : ~AtRoot(o)'
           /\ \A v \in UserIds : RootUser(v)' => v = u
    BY <1>7, <2>1, <2>2 DEF RegistryFits, OneAdministrator, HasRoot
  <2>5. Rows(tenants) # {}
    BY <2>2 DEF RegistryFits, OneAdministrator
  <2> QED BY <2>3, <2>4, <2>5, <1>7 DEF OneAdministrator
<1>9. RootFirst'
  BY <1>2, <1>7 DEF RegistryFits, RootFirst, Moved
<1>10. Unique'
  <2>1. \A v, w \in Rows(users)' :
            users'[v].tenant = users'[w].tenant /\ users'[v].name = users'[w].name
            => v = w
    BY <1>4, <1>5, <1>6 DEF RegistryFits, Unique, UserAdded, UsersStay
  <2> QED BY <1>2, <2>1 DEF RegistryFits, Unique, Rows
<1>11. UsersHaveTenants'
  BY <1>2, <1>4, <1>6 DEF RegistryFits, UsersHaveTenants, UserAdded, UsersStay, Rows
<1> QED BY <1>2, <1>6, <1>8, <1>9, <1>10, <1>11 DEF RegistryFits, Moved, UserAdded

(* What a starting process may do, seen from the clients.                   *)
LEMMA StartingKeepsRegistry ==
    ASSUME TypeOK, RegistryFits, NEW s \in Starts, Starting(s)
    PROVE  /\ tenants' \in [TenantIds -> TenantRow \cup {None}]
           /\ users' \in [UserIds -> UserRow \cup {None}] /\ UsersStay
           /\ start' \in [Starts -> Start]
           /\ hosts' = hosts
           /\ RegistryFits'
<1>1. hosts' = hosts
  BY DEF Starting, Begin, CountUsers, InsertDefault, DefaultRefused, InsertRoot,
         RootRefused, End, tables
<1>2. /\ users' = users => UsersStay
      /\ UNCHANGED <<tenants, users>> =>
            /\ tenants' \in [TenantIds -> TenantRow \cup {None}]
            /\ users' \in [UserIds -> UserRow \cup {None}] /\ UsersStay
  BY DEF UsersStay, Rows, TypeOK
<1>3. CASE \E n \in Names : Begin(s, n)
  BY <1>1, <1>2, <1>3, BeginKeepsRegistry DEF Begin, tables
<1>4. CASE CountUsers(s)
  <2> DEFINE to == IF Rows(users) = {} THEN "tenant" ELSE "up"
  <2>1. to \in Stages /\ to \in {"tenant", "up"} /\ (to = "up" => HasRoot)
        /\ (to = "tenant" => ~HasRoot)
    BY DEF Stages, RegistryFits, RootFirst, HasRoot, RootUser
  <2>2. At(s, "count", to) /\ UNCHANGED <<tenants, users>>
    BY <1>4 DEF CountUsers, tables
  <2> HIDE DEF to
  <2>3. start[s].at = "count" /\ Moved(s, to)
    BY <2>1, <2>2, StartMoves DEF TypeOK
  <2>4. ~start'[s].late
    BY <2>1, <2>3 DEF Moved, RegistryFits, RootFirst
  <2>5. RegistryFits'
    BY <2>1, <2>2, <2>3, <2>4, MovesKeepRegistry
  <2> QED BY <1>1, <1>2, <2>2, <2>3, <2>5 DEF Moved
<1>5. CASE InsertDefault(s)
  BY <1>1, <1>2, <1>5, InsertDefaultKeepsRegistry DEF InsertDefault, TypeOK
<1>6. CASE DefaultRefused(s) \/ RootRefused(s)
  <2>1. UNCHANGED <<tenants, users>>
        /\ (At(s, "tenant", "refused") \/ At(s, "root", "refused"))
    BY <1>6 DEF DefaultRefused, RootRefused, tables
  <2>2. "refused" \in Stages
    BY DEF Stages
  <2>3. start[s].at \in {"tenant", "root"} /\ Moved(s, "refused")
    BY <2>1, <2>2, StartMoves DEF TypeOK
  <2>4. ~start'[s].late
    BY <2>3 DEF Moved, RegistryFits, RootFirst
  <2>5. RegistryFits'
    BY <2>1, <2>2, <2>3, <2>4, MovesKeepRegistry
  <2> QED BY <1>1, <1>2, <2>1, <2>3, <2>5 DEF Moved
<1>7. CASE InsertRoot(s)
  BY <1>1, <1>2, <1>7, InsertRootKeepsRegistry DEF InsertRoot, TypeOK
<1>8. CASE End(s)
  <2>1. In("off") \in Start /\ In("off").at = "off" /\ ~In("off").late
    BY DEF In, Start
  <2>2. start' \in [Starts -> Start] /\ start'[s] = In("off")
        /\ (\A o \in Starts \ {s} : start'[o] = start[o])
        /\ UNCHANGED <<tenants, users>>
    BY <1>8, <2>1 DEF End, TypeOK, tables
  <2>3. OneAdministrator'
    BY <2>1, <2>2 DEF RegistryFits, OneAdministrator, AtRoot, HasRoot, RootUser, Rows
  <2>4. RootFirst'
    BY <2>1, <2>2 DEF RegistryFits, RootFirst, HasRoot, RootUser, Rows
  <2>5. Unique' /\ UsersHaveTenants'
    BY <2>2 DEF RegistryFits, Unique, UsersHaveTenants, Rows
  <2> QED BY <1>1, <1>2, <2>2, <2>3, <2>4, <2>5 DEF RegistryFits
<1> QED BY <1>3, <1>4, <1>5, <1>6, <1>7, <1>8 DEF Starting

LEMMA StartingKeepsInv ==
    ASSUME IInv, NEW s \in Starts, Starting(s)
    PROVE  IInv'
<1>1. /\ tenants' \in [TenantIds -> TenantRow \cup {None}]
      /\ users' \in [UserIds -> UserRow \cup {None}] /\ UsersStay
      /\ start' \in [Starts -> Start]
      /\ hosts' = hosts
      /\ RegistryFits'
  BY StartingKeepsRegistry DEF IInv
<1>2. ASSUME NEW c \in Clients
      PROVE  client[c].user \in UserIds => Ready(client[c].user) \in Client
  BY ReadyClients
<1>3. client' \in [Clients -> Client]
      /\ \A c \in Clients :
            client'[c] = client[c] \/ (client[c].at = "put"
                                       /\ client'[c] = Ready(client[c].user))
  <2>1. CASE client' = client
    BY <2>1 DEF IInv, TypeOK
  <2>2. CASE client' = [c \in Clients |-> IF client[c].at = "put"
                                          THEN Ready(client[c].user) ELSE client[c]]
    <3>1. \A c \in Clients : client[c].at = "put" => client[c].user \in UserIds
      BY DEF IInv, ClientsFit, ClientFits, Rows, TypeOK
    <3> QED BY <1>2, <2>2, <3>1 DEF IInv, TypeOK
  <2> QED BY <2>1, <2>2 DEF Starting, Begin, CountUsers, InsertDefault,
                            DefaultRefused, InsertRoot, RootRefused, End
<1>4. ASSUME NEW c \in Clients PROVE ClientFits(c)'
  <2>1. CASE client'[c] = client[c]
    <3>1. client[c].id \in HostIds \cup {None}
      BY DEF IInv, TypeOK, Client
    <3> QED BY <1>1, <2>1, <3>1, Untouched DEF IInv, ClientsFit
  <2>2. CASE client[c].at = "put" /\ client'[c] = Ready(client[c].user)
    <3>1. client[c].user \in Rows(users)' /\ UserIds = DOMAIN users'
      BY <1>1, <2>2 DEF IInv, ClientsFit, ClientFits, UsersStay
    <3> QED BY <2>2, <3>1, EmptyHanded
  <2> QED BY <1>3, <2>1, <2>2
<1> QED BY <1>1, <1>3, <1>4 DEF IInv, TypeOK, ClientsFit

-----------------------------------------------------------------------------
(* Requests about tenants and users                                         *)

(* A tenant's row is written by the administrator: there is a tenant before,*)
(* and its slug is free.                                                    *)
LEMMA TenantRequestsKeepInv ==
    ASSUME IInv, NEW c \in Clients, NEW t \in TenantIds, NEW slug \in Slugs,
           NEW e \in BOOLEAN, Asks(c), SlugIsFree(slug, t),
           tenants' = [tenants EXCEPT ![t] = [slug |-> slug, enabled |-> e]],
           Done(c), UNCHANGED <<users, hosts, start>>,
           IsRoot(c)
    PROVE  IInv'
<1> DEFINE row == [slug |-> slug, enabled |-> e]
<1>1. row \in TenantRow /\ row.slug = slug
  BY DEF TenantRow
<1> HIDE DEF row
<1>2. TenantSet(t, row)
  BY <1>1, TenantWritten DEF IInv, row
<1>3. UsersStay /\ users' \in [UserIds -> UserRow \cup {None}]
  BY DEF IInv, TypeOK, UsersStay, Rows
<1>4. client' \in [Clients -> Client] /\ ClientsFit'
  BY <1>3, Answers DEF IInv, Asks, Done
<1>5. HasRoot
  <2>1. client[c].user \in Rows(users)
    BY DEF IInv, ClientsFit, ClientFits, Asks
  <2> QED BY <2>1 DEF IsRoot, HasRoot, RootUser, Rows, IInv, TypeOK
<1>6. Rows(tenants) # {} /\ Rows(tenants) \subseteq Rows(tenants)'
  BY <1>2, <1>5 DEF IInv, RegistryFits, OneAdministrator, TenantSet
<1>7. OneAdministrator'
  BY <1>6 DEF IInv, RegistryFits, OneAdministrator, HasRoot, RootUser, Rows, AtRoot
<1>8. RootFirst'
  BY DEF IInv, RegistryFits, RootFirst, HasRoot, RootUser, Rows
<1>9. Unique'
  <2>1. \A x \in Rows(tenants) : x # t => tenants[x].slug # slug
    BY DEF SlugIsFree, TenantBySlug
  <2>2. \A x, y \in Rows(tenants)' : tenants'[x].slug = tenants'[y].slug => x = y
    <3>1. \A x \in Rows(tenants)' : x \in TenantIds /\ (x # t => x \in Rows(tenants))
      BY <1>2 DEF TenantSet, Rows
    <3> QED BY <1>1, <1>2, <2>1, <3>1 DEF IInv, RegistryFits, Unique, TenantSet
  <2> QED BY <2>2 DEF IInv, RegistryFits, Unique, Rows
<1>10. UsersHaveTenants'
  BY <1>6 DEF IInv, RegistryFits, UsersHaveTenants, Rows
<1> QED BY <1>2, <1>3, <1>4, <1>7, <1>8, <1>9, <1>10
        DEF IInv, TypeOK, RegistryFits, TenantSet

LEMMA CreateUserKeepsInv ==
    ASSUME IInv, NEW c \in Clients, NEW u \in Fresh(users), NEW n \in Names,
           NEW role \in Granted, NEW t \in Rows(tenants) \cup {None},
           CreateUser(c, u, n, role, t)
    PROVE  IInv'
<1> DEFINE home == IF IsRoot(c) /\ t # None THEN t ELSE HomeOf(c)
           row == [tenant |-> home, name |-> n, role |-> role]
<1>1. UserIsFree(home, n) /\ users' = [users EXCEPT ![u] = row]
      /\ Asks(c) /\ Done(c) /\ UNCHANGED <<tenants, hosts, start>>
  BY DEF CreateUser
<1>2. home \in Rows(tenants) \cup {None}
  <2>1. client[c].user \in Rows(users)
    BY <1>1 DEF IInv, ClientsFit, ClientFits, Asks
  <2> QED BY <2>1 DEF HomeOf, IInv, RegistryFits, UsersHaveTenants
<1>3. row \in UserRow /\ row.tenant = home /\ row.name = n /\ row.role # "root"
  BY <1>2, RolesOfThePage DEF UserRow, Rows, IInv, TypeOK
<1> HIDE DEF row, home
<1>4. u \in UserIds /\ UserAdded(u, row)
  BY <1>1, <1>3, UserWritten, FreshIds DEF IInv, TypeOK
<1>5. client' \in [Clients -> Client] /\ ClientsFit'
  BY <1>1, <1>4, Answers DEF IInv, Asks, Done, UserAdded
<1>6. /\ \A v \in UserIds : RootUser(v)' <=> RootUser(v)
      /\ HasRoot' <=> HasRoot
  BY <1>3, <1>4, RootsAfter DEF IInv, HasRoot
<1>7. HasRoot
  <2>1. client[c].user \in Rows(users)
    BY <1>1 DEF IInv, ClientsFit, ClientFits, Asks
  <2> QED BY <2>1 DEF IInv, RegistryFits, RootFirst
<1>8. OneAdministrator'
  BY <1>1, <1>6 DEF IInv, RegistryFits, OneAdministrator, Rows, AtRoot
<1>9. RootFirst'
  BY <1>1, <1>6, <1>7 DEF IInv, RegistryFits, RootFirst
<1>10. Unique'
  <2>1. \A v \in Rows(users) : ~(users[v].tenant = home /\ users[v].name = n)
    BY <1>1 DEF UserIsFree, UserNamed
  <2>2. \A v, w \in Rows(users)' :
            users'[v].tenant = users'[w].tenant /\ users'[v].name = users'[w].name
            => v = w
    BY <1>3, <1>4, <2>1 DEF IInv, RegistryFits, Unique, UserAdded, UsersStay
  <2> QED BY <1>1, <2>2 DEF IInv, RegistryFits, Unique, Rows
<1>11. UsersHaveTenants'
  BY <1>1, <1>2, <1>3, <1>4
  DEF IInv, RegistryFits, UsersHaveTenants, UserAdded, UsersStay, Rows
<1> QED BY <1>1, <1>4, <1>5, <1>8, <1>9, <1>10, <1>11
        DEF IInv, TypeOK, RegistryFits, UserAdded

-----------------------------------------------------------------------------
(* Requests that leave tenants, users and processes alone                   *)

LEMMA RegistryStays ==
    ASSUME TypeOK, RegistryFits, UNCHANGED <<tenants, users, start>>
    PROVE  /\ tenants' \in [TenantIds -> TenantRow \cup {None}]
           /\ users' \in [UserIds -> UserRow \cup {None}] /\ UsersStay
           /\ start' \in [Starts -> Start]
           /\ RegistryFits'
<1>1. OneAdministrator' /\ RootFirst'
  BY DEF RegistryFits, OneAdministrator, RootFirst, HasRoot, RootUser, Rows, AtRoot
<1>2. Unique' /\ UsersHaveTenants'
  BY DEF RegistryFits, Unique, UsersHaveTenants, Rows
<1> QED BY <1>1, <1>2 DEF RegistryFits, TypeOK, UsersStay, Rows

LEMMA LogInKeepsInv ==
    ASSUME IInv, NEW c \in Clients, NEW u \in UserIds, NEW slug \in Slugs,
           LogIn(c, u, slug)
    PROVE  IInv'
<1>1. UNCHANGED <<tenants, users, hosts, start>> /\ u \in Rows(users)
      /\ client' = [client EXCEPT ![c] = Ready(u)]
  BY DEF LogIn, tables, Rows, IInv, TypeOK
<1>2. client'[c] = Ready(u) /\ u \in Rows(users)' /\ UserIds = DOMAIN users'
  BY <1>1 DEF IInv, TypeOK, Rows
<1>3. client' \in [Clients -> Client] /\ ClientsFit'
  BY <1>1, <1>2, ReadyClients, EmptyHanded, OneClient, RegistryStays DEF IInv
<1> QED BY <1>1, <1>3, RegistryStays DEF IInv, TypeOK

LEMMA GiveUpKeepsInv ==
    ASSUME IInv, NEW c \in Clients, GiveUp(c)
    PROVE  IInv'
<1>1. PICK new \in {Idle(c), Away} : client' = [client EXCEPT ![c] = new]
  BY DEF GiveUp
<1>2. UNCHANGED <<tenants, users, hosts, start>> /\ client[c].at # "away"
  BY DEF GiveUp, tables
<1>3. client' \in [Clients -> Client] /\ ClientsFit'
  BY <1>1, <1>2, Answers, RegistryStays DEF IInv
<1> QED BY <1>2, <1>3, RegistryStays DEF IInv, TypeOK

LEMMA GetHostKeepsInv ==
    ASSUME IInv, NEW c \in Clients, NEW h \in HostIds, GetHost(c, h)
    PROVE  IInv'
<1> DEFINE new == [client[c] EXCEPT !.at = "put", !.id = h, !.row = hosts[h],
                                    !.alone = TRUE]
<1>1. UNCHANGED <<tenants, users, hosts, start>> /\ client[c].at = "ready"
      /\ client' = [client EXCEPT ![c] = new]
      /\ hosts[h] \in HostRow /\ InScope(c, hosts[h])
  BY DEF GetHost, tables, IInv, TypeOK, Asks
<1>2. /\ new \in Client /\ new.at = "put" /\ new.user = client[c].user
      /\ new.id = h /\ new.row = hosts[h]
  BY <1>1 DEF IInv, TypeOK, Client
<1> HIDE DEF new
<1>3. client'[c] = new
  BY <1>1 DEF IInv, TypeOK
<1>4. ClientFits(c)'
  <2>1. client[c].user \in Rows(users)'
    BY <1>1 DEF IInv, ClientsFit, ClientFits, Rows
  <2> QED BY <1>1, <1>2, <1>3, <2>1 DEF ClientFits, InScope, IsRoot, HomeOf
<1>5. client' \in [Clients -> Client] /\ ClientsFit'
  BY <1>1, <1>2, <1>4, OneClient, RegistryStays DEF IInv
<1> QED BY <1>1, <1>5, RegistryStays DEF IInv, TypeOK

-----------------------------------------------------------------------------
(* Requests that write a host                                               *)

(* Whoever else holds the row that is written no longer relies on it.       *)
LEMMA Writes ==
    ASSUME IInv, NEW c \in Clients, NEW h \in HostIds,
           NEW row \in HostRow \cup {None}, NEW new \in Client,
           Write(c, h, row, new)
    PROVE  /\ TypeOK' /\ RegistryFits'
           /\ client'[c] = new /\ hosts'[h] = row /\ UsersStay
           /\ \A d \in Clients \ {c} : ClientFits(d)'
<1>1. UNCHANGED <<tenants, users, start>> /\ hosts' = [hosts EXCEPT ![h] = row]
  BY DEF Write
<1>2. /\ tenants' \in [TenantIds -> TenantRow \cup {None}]
      /\ users' \in [UserIds -> UserRow \cup {None}] /\ UsersStay
      /\ start' \in [Starts -> Start]
      /\ RegistryFits'
  BY <1>1, RegistryStays DEF IInv
<1>3. hosts' \in [HostIds -> HostRow \cup {None}] /\ hosts'[h] = row
      /\ \A g \in HostIds \ {h} : hosts'[g] = hosts[g]
  BY <1>1 DEF IInv, TypeOK
<1>4. client'[c] = new /\ DOMAIN client' = Clients
  BY DEF Write
<1>5. ASSUME NEW d \in Clients \ {c} PROVE client'[d] \in Client /\ ClientFits(d)'
  <2> DEFINE held == [client[d] EXCEPT !.alone = FALSE]
  <2>1. client[d] \in Client /\ client[d].id \in HostIds \cup {None}
    BY DEF IInv, TypeOK, Client
  <2>2. /\ held \in Client /\ held.at = client[d].at /\ held.id = client[d].id
        /\ held.user = client[d].user /\ held.row = client[d].row
        /\ held.alone = FALSE
    BY <2>1 DEF Client
  <2> HIDE DEF held
  <2>3. CASE client[d].id = h /\ client[d].at = "put"
    <3>1. client'[d] = held
      BY <2>3 DEF Write, held
    <3>2. client[d].user \in Rows(users)' /\ users' = users
      BY <1>1, <2>3 DEF IInv, ClientsFit, ClientFits, Rows
    <3> QED BY <2>2, <2>3, <3>1, <3>2
      DEF IInv, ClientsFit, ClientFits, InScope, IsRoot, HomeOf
  <2>4. CASE client[d].id = h /\ client[d].at = "ready"
    <3>1. client'[d] = Ready(client[d].user)
      BY <2>4 DEF Write
    <3>2. client[d].user \in Rows(users)' /\ client[d].user \in UserIds
          /\ UserIds = DOMAIN users'
      BY <1>1, <2>4 DEF IInv, TypeOK, ClientsFit, ClientFits, Rows
    <3> QED BY <3>1, <3>2, ReadyClients, EmptyHanded
  <2>5. CASE client[d].id # h
    <3>1. client'[d] = client[d]
      BY <2>5 DEF Write
    <3> QED BY <1>2, <1>3, <2>1, <2>5, <3>1, Untouched DEF IInv, ClientsFit
  <2>6. CASE client[d].id = h /\ client[d].at = "away"
    <3>1. client'[d] = client[d]
      BY <2>6 DEF Write
    <3> QED BY <2>1, <2>6, <3>1 DEF ClientFits
  <2>7. client[d].at \in {"away", "ready", "put"}
    BY <2>1 DEF Client
  <2> QED BY <2>3, <2>4, <2>5, <2>6, <2>7
<1>6. client' \in [Clients -> Client]
  <2>1. client' = [d \in Clients |-> client'[d]]
    BY DEF Write
  <2> QED BY <1>4, <1>5, <2>1
<1> QED BY <1>2, <1>3, <1>4, <1>5, <1>6 DEF TypeOK

LEMMA HostRequestsKeepInv ==
    ASSUME IInv, NEW c \in Clients, NEW h \in HostIds,
           NEW row \in HostRow \cup {None}, Write(c, h, row, Idle(c)),
           client[c].at # "away"
    PROVE  IInv'
<1>1. client[c].user \in Rows(users) /\ client[c].user \in UserIds
  BY DEF IInv, TypeOK, ClientsFit, ClientFits, Rows
<1>2. Idle(c) \in Client
  BY <1>1, ReadyClients DEF Idle
<1>3. /\ TypeOK' /\ RegistryFits' /\ client'[c] = Idle(c) /\ UsersStay
      /\ \A d \in Clients \ {c} : ClientFits(d)'
  BY <1>2, Writes
<1>4. ClientFits(c)'
  <2>1. client[c].user \in Rows(users)' /\ UserIds = DOMAIN users'
    BY <1>1, <1>3 DEF UsersStay, TypeOK
  <2> QED BY <1>3, <2>1, EmptyHanded DEF Idle
<1> QED BY <1>3, <1>4 DEF IInv, ClientsFit

(* What a body changes of a row, and the tenant the statement stores.       *)
LEMMA Merges ==
    ASSUME NEW row \in HostRow, NEW body \in HostBody
    PROVE  LET new == Merge(row, body)
               kept == [tenant |-> row.tenant,
                        name |-> IF body.name = None THEN row.name ELSE body.name,
                        addr |-> IF body.addr = None THEN row.addr ELSE body.addr]
           IN  /\ new \in HostRow /\ kept \in HostRow /\ new = kept
               /\ [new EXCEPT !.tenant = row.tenant] = kept
<1> DEFINE n == IF body.name = None THEN row.name ELSE body.name
           a == IF body.addr = None THEN row.addr ELSE body.addr
           kept == [tenant |-> row.tenant, name |-> n, addr |-> a]
<1>1. n \in HostNames /\ a \in Addresses
  BY DEF HostRow, HostBody
<1>2. Merge(row, body) = [row EXCEPT !.name = n, !.addr = a]
  BY DEF Merge, Given, HostRow
<1> HIDE DEF n, a
<1>3. kept \in HostRow
  BY <1>1 DEF HostRow
<1>4. Merge(row, body) = kept
  BY <1>1, <1>2 DEF HostRow
<1>5. [kept EXCEPT !.tenant = row.tenant] = kept
  BY <1>1, <1>3 DEF HostRow
<1> QED BY <1>3, <1>4, <1>5 DEF n, a

LEMMA UpdateHostKeepsInv ==
    ASSUME IInv, NEW c \in Clients, NEW body \in HostBody, UpdateHost(c, body)
    PROVE  IInv'
<1> DEFINE h == client[c].id
           old == client[c].row
           kept == [tenant |-> old.tenant,
                    name |-> IF body.name = None THEN old.name ELSE body.name,
                    addr |-> IF body.addr = None THEN old.addr ELSE body.addr]
           stored == [Merge(old, body) EXCEPT !.tenant = hosts[h].tenant]
<1>1. /\ client[c].at = "put" /\ h \in HostIds /\ old \in HostRow
      /\ client[c].user \in Rows(users)
      /\ hosts[h].tenant = old.tenant
      /\ Write(c, h, stored, Answered(c, body))
  BY DEF IInv, ClientsFit, ClientFits, UpdateHost, Matches
<1>2. stored = kept /\ kept \in HostRow
  BY <1>1, Merges
<1>3. CASE ~client[c].alone
  <2>1. Answered(c, body) = Idle(c)
    BY <1>3 DEF Answered
  <2> QED BY <1>1, <1>2, <2>1, HostRequestsKeepInv
<1>4. CASE client[c].alone
  <2> DEFINE new == [client[c] EXCEPT !.at = "ready", !.row = kept]
  <2>1. Answered(c, body) = new
    BY <1>4 DEF Answered
  <2> HIDE DEF kept
  <2>2. /\ new \in Client /\ new.at = "ready" /\ new.user = client[c].user
        /\ new.id = h /\ new.row = kept
    BY <1>2 DEF IInv, TypeOK, Client
  <2> HIDE DEF new
  <2>3. /\ TypeOK' /\ RegistryFits' /\ client'[c] = new /\ hosts'[h] = kept
        /\ UsersStay /\ \A d \in Clients \ {c} : ClientFits(d)'
    BY <1>1, <1>2, <2>1, <2>2, Writes
  <2>4. ClientFits(c)'
    BY <1>1, <1>2, <2>2, <2>3 DEF ClientFits, UsersStay
  <2> QED BY <2>3, <2>4 DEF IInv, ClientsFit
<1> QED BY <1>3, <1>4

(* An UPDATE that meets no row is one whose row another request has written.*)
LEMMA UpdateNothingKeepsInv ==
    ASSUME IInv, NEW c \in Clients, NEW body \in HostBody, UpdateNothing(c, body)
    PROVE  IInv'
<1>1. /\ client[c].at = "put" /\ ~Matches(c)
      /\ UNCHANGED <<tenants, users, hosts, start>>
      /\ client' = [client EXCEPT ![c] = Answered(c, body)]
  BY DEF UpdateNothing, tables
<1>2. ~client[c].alone
  BY <1>1 DEF IInv, ClientsFit, ClientFits, Matches
<1>3. Answered(c, body) = Idle(c)
  BY <1>2 DEF Answered
<1>4. client' \in [Clients -> Client] /\ ClientsFit'
  BY <1>1, <1>3, Answers, RegistryStays DEF IInv
<1> QED BY <1>1, <1>4, RegistryStays DEF IInv, TypeOK

-----------------------------------------------------------------------------
(* The row a client writes, and what it may write, seen from its request.   *)
LEMMA CreateHostRow ==
    ASSUME IInv, NEW c \in Clients, NEW h \in HostIds, NEW n \in HostNames,
           NEW a \in Addresses, NEW t \in Rows(tenants) \cup {None},
           CreateHost(c, h, n, a, t)
    PROVE  \E row \in HostRow :
              /\ Write(c, h, row, Idle(c)) /\ client[c].at = "ready"
              /\ hosts[h] = None /\ InScope(c, row)
<1> DEFINE home == IF IsRoot(c) /\ t # None THEN t ELSE HomeOf(c)
           row == [tenant |-> home, name |-> n, addr |-> a]
<1>1. Write(c, h, row, Idle(c)) /\ client[c].at = "ready" /\ hosts[h] = None
  BY DEF CreateHost, Asks
<1>2. home \in TenantIds \cup {None}
  <2>1. client[c].user \in Rows(users)
    BY <1>1 DEF IInv, ClientsFit, ClientFits
  <2> QED BY <2>1 DEF HomeOf, IInv, RegistryFits, UsersHaveTenants, Rows, TypeOK,
                      UserRow
<1>3. row \in HostRow /\ row.tenant = home
  BY <1>2 DEF HostRow
<1>4. InScope(c, row)
  BY <1>3 DEF InScope
<1> QED BY <1>1, <1>3, <1>4

LEMMA ClientsKeepInv ==
    ASSUME IInv, NEW c \in Clients, Use(c) \/ Edit(c)
    PROVE  IInv'
<1>1. CASE GiveUp(c)
  BY <1>1, GiveUpKeepsInv
<1>2. ASSUME NEW u \in UserIds, NEW s \in Slugs, LogIn(c, u, s) PROVE IInv'
  BY <1>2, LogInKeepsInv
<1>3. ASSUME NEW t \in Fresh(tenants), NEW s \in Slugs, CreateTenant(c, t, s)
      PROVE  IInv'
  <2>1. t \in TenantIds
    BY FreshIds DEF IInv, TypeOK
  <2> QED BY <1>3, <2>1, TenantRequestsKeepInv DEF CreateTenant
<1>4. ASSUME NEW u \in Fresh(users), NEW n \in Names, NEW role \in Granted,
             NEW t \in Rows(tenants) \cup {None}, CreateUser(c, u, n, role, t)
      PROVE  IInv'
  BY <1>4, CreateUserKeepsInv
<1>5. ASSUME NEW h \in HostIds, NEW n \in HostNames, NEW a \in Addresses,
             NEW t \in Rows(tenants) \cup {None}, CreateHost(c, h, n, a, t)
      PROVE  IInv'
  BY <1>5, CreateHostRow, HostRequestsKeepInv
<1>6. ASSUME NEW h \in HostIds, GetHost(c, h) PROVE IInv'
  BY <1>6, GetHostKeepsInv
<1>7. ASSUME NEW h \in HostIds, DeleteHost(c, h) PROVE IInv'
  BY <1>7, HostRequestsKeepInv DEF DeleteHost, Asks
<1>8. ASSUME NEW body \in HostBody, UpdateHost(c, body) \/ UpdateNothing(c, body)
      PROVE  IInv'
  BY <1>8, UpdateHostKeepsInv, UpdateNothingKeepsInv
<1>9. ASSUME NEW t \in TenantIds, NEW s \in Slugs, NEW e \in BOOLEAN,
             UpdateTenant(c, t, s, e)
      PROVE  IInv'
  BY <1>9, TenantRequestsKeepInv DEF UpdateTenant
<1> QED BY <1>1, <1>2, <1>3, <1>4, <1>5, <1>6, <1>7, <1>8, <1>9 DEF Use, Edit

LEMMA NextInv == IInv /\ [Next]_vars => IInv'
<1> SUFFICES ASSUME IInv, [Next]_vars PROVE IInv'
  OBVIOUS
<1>1. ASSUME NEW s \in Starts, Starting(s) PROVE IInv'
  BY <1>1, StartingKeepsInv
<1>2. ASSUME NEW c \in Clients, Use(c) \/ Edit(c) PROVE IInv'
  BY <1>2, ClientsKeepInv
<1>3. CASE UNCHANGED vars
  <2>1. TypeOK' /\ RegistryFits' /\ UsersStay
    BY <1>3, RegistryStays DEF IInv, vars, TypeOK
  <2>2. ClientsFit'
    BY <1>3 DEF IInv, vars, ClientsFit, ClientFits, InScope, IsRoot, HomeOf, Rows
  <2> QED BY <2>1, <2>2 DEF IInv
<1> QED BY <1>1, <1>2, <1>3 DEF Next

-----------------------------------------------------------------------------
(* Tables, starting processes and clients fit together, for any number of   *)
(* each and any interleaving of their statements.                           *)
THEOREM Inductive == Spec => []IInv
<1> QED BY InitInv, NextInv, PTL DEF Spec

(* Every variable keeps its type.                                           *)
THEOREM TypeCorrect == Spec => []TypeOK
<1>1. IInv => TypeOK
  BY DEF IInv
<1> QED BY <1>1, Inductive, PTL

(* Bootstraps that race make one administrator (Store.Bootstrap).           *)
THEOREM RacingBootstrapsMakeOneRoot == Spec => []OneRoot
<1>1. IInv => OneRoot
  BY DEF IInv, RegistryFits, OneAdministrator, OneRoot, RootUser, Rows, TypeOK
<1> QED BY <1>1, Inductive, PTL

(* Whoever serves has an administrator and a tenant (Store.Bootstrap).      *)
THEOREM ServersHaveARoot == Spec => []ServersAreBootstrapped
<1>1. IInv => ServersAreBootstrapped
  BY DEF IInv, RegistryFits, OneAdministrator, RootFirst, ServersAreBootstrapped,
         HasRoot, RootUser, Serving
<1> QED BY <1>1, Inductive, PTL

(* A start after the bootstrap is neither refused nor bootstraps again.     *)
THEOREM LaterStartsAreServed == Spec => []LaterStartsServe
<1>1. IInv => LaterStartsServe
  BY DEF IInv, RegistryFits, RootFirst, LaterStartsServe
<1> QED BY <1>1, Inductive, PTL

(* The database is bootstrapped once, before anybody serves.                *)
THEOREM BootstrapsSuffice == Spec => []BootstrapIsOnceAndEnough
<1>1. ServersAreBootstrapped /\ LaterStartsServe => BootstrapIsOnceAndEnough
  BY DEF BootstrapIsOnceAndEnough
<1> QED BY <1>1, ServersHaveARoot, LaterStartsAreServed, PTL

(* A name and the tenant's slug lead to one user over SSH and, while the    *)
(* tenant is enabled, over the web (lookupSSHUser, Service.Login).          *)
THEOREM NamesAreUnambiguous == Spec => []NamesLeadToTheirUser
<1>1. ASSUME IInv PROVE NamesLeadToTheirUser
  <2> SUFFICES ASSUME NEW u \in Rows(users)
               PROVE  LET t == users[u].tenant  n == users[u].name IN
                 /\ users[u].role = "root" =>
                       \A s \in Slugs : SshFinds(n, s) = {u} /\ WebFinds(n, s) = {u}
                 /\ t # None /\ RootNamed(n) = {} =>
                       /\ SshFinds(n, tenants[t].slug) = {u}
                       /\ tenants[t].enabled => WebFinds(n, tenants[t].slug) = {u}
    BY DEF NamesLeadToTheirUser
  <2> DEFINE t == users[u].tenant
             n == users[u].name
  <2>1. ASSUME users[u].role = "root"
        PROVE  RootNamed(n) = {u}
    BY <1>1, <2>1 DEF IInv, RegistryFits, Unique, UsersHaveTenants, RootNamed
  <2>2. ASSUME t # None
        PROVE  /\ TenantBySlug(tenants[t].slug) = {t} /\ UserNamed(t, n) = {u}
    <3>1. t \in Rows(tenants)
      BY <1>1, <2>2 DEF IInv, RegistryFits, UsersHaveTenants
    <3> QED BY <1>1, <3>1 DEF IInv, RegistryFits, Unique, TenantBySlug, UserNamed
  <2>3. ASSUME t # None, RootNamed(n) = {}
        PROVE  /\ SshFinds(n, tenants[t].slug) = {u}
               /\ tenants[t].enabled => WebFinds(n, tenants[t].slug) = {u}
    BY <2>2, <2>3 DEF SshFinds, WebFinds
  <2> QED BY <2>1, <2>3 DEF SshFinds, WebFinds
<1> QED BY <1>1, Inductive, PTL

(* What is true instead of "every user can log in": of the users whom no    *)
(* disabled tenant and no administrator of the same name stands in the way, *)
(* the web finds exactly the administrators and those who have a tenant,    *)
(* whatever is renamed, and nobody without one is found under any name and  *)
(* slug, on the web or over SSH (createUser, api/server.go:244-266; Login). *)
OnlyTheTenantlessAreLost ==
    \A u \in Rows(users) :
        LET t == users[u].tenant  n == users[u].name
            known == users[u].role = "root" \/ t # None IN
        /\ (t = None \/ tenants[t].enabled) /\ RootNamed(n) \subseteq {u} =>
              ((\E s \in Slugs : WebFinds(n, s) = {u}) <=> known)
        /\ ~known => \A m \in Names, s \in Slugs :
                        u \notin SshFinds(m, s) \cup WebFinds(m, s)

(* The users the page makes without a tenant are the only ones lost.        *)
THEOREM LostUsersHaveNoTenant == Spec => []OnlyTheTenantlessAreLost
<1>1. ASSUME IInv, NamesLeadToTheirUser PROVE OnlyTheTenantlessAreLost
  <2> SUFFICES ASSUME NEW u \in Rows(users)
               PROVE  LET t == users[u].tenant  n == users[u].name
                          known == users[u].role = "root" \/ t # None IN
                 /\ (t = None \/ tenants[t].enabled) /\ RootNamed(n) \subseteq {u} =>
                       ((\E s \in Slugs : WebFinds(n, s) = {u}) <=> known)
                 /\ ~known => \A m \in Names, s \in Slugs :
                                 u \notin SshFinds(m, s) \cup WebFinds(m, s)
    BY DEF OnlyTheTenantlessAreLost
  <2> DEFINE t == users[u].tenant
             n == users[u].name
  <2>0. n \in Names /\ u \in UserIds
    BY <1>1 DEF IInv, TypeOK, Rows, UserRow
  <2>1. CASE users[u].role = "root"
    BY <1>1, <2>1, DefaultIsASlug DEF NamesLeadToTheirUser
  <2>2. CASE users[u].role # "root" /\ t # None
    <3>1. t \in Rows(tenants)
      BY <1>1, <2>2 DEF IInv, RegistryFits, UsersHaveTenants
    <3>2. tenants[t].slug \in Slugs
      BY <1>1, <3>1 DEF IInv, TypeOK, Rows, TenantRow
    <3>3. RootNamed(n) \subseteq {u} => RootNamed(n) = {}
      BY <2>2 DEF RootNamed
    <3> QED BY <1>1, <2>2, <3>2, <3>3 DEF NamesLeadToTheirUser
  <2>3. CASE users[u].role # "root" /\ t = None
    <3>1. \A m : u \notin RootNamed(m)
      BY <2>3 DEF RootNamed
    <3>2. \A x \in Rows(tenants) : \A m : u \notin UserNamed(x, m)
      BY <1>1, <2>3 DEF IInv, TypeOK, Rows, UserNamed
    <3>3. \A m, s : u \notin SshFinds(m, s) /\ u \notin WebFinds(m, s)
      BY <3>1, <3>2 DEF SshFinds, WebFinds, TenantBySlug
    <3> QED BY <2>3, <3>3
  <2> QED BY <2>1, <2>2, <2>3
<1> QED BY <1>1, Inductive, NamesAreUnambiguous, PTL

(* What an answered PUT has stored stays until another request writes it    *)
(* (updateHost, Scope.UpdateHost).                                          *)
THEOREM LoneEditsStay == Spec => []LoneEditsAreKept
<1>1. IInv => LoneEditsAreKept
  BY DEF IInv, ClientsFit, ClientFits, LoneEditsAreKept
<1> QED BY <1>1, Inductive, PTL

(* A host's row is only written by its own tenant's users and by the        *)
(* administrator (Scope, internal/store/scope.go).                          *)
THEOREM TenantsAreIsolated == Spec => TenantsChangeTheirOwnHosts
<1> DEFINE Touches(h) ==
        \E c \in Clients :
            /\ client[c].at \in {"ready", "put"}
            /\ \/ IsRoot(c)
               \/ MayTouch(c, hosts[h]) /\ MayTouch(c, hosts'[h])
           Isolated == \A h \in HostIds : hosts'[h] # hosts[h] => Touches(h)
<1>1. ASSUME IInv, [Next]_vars PROVE Isolated \/ UNCHANGED vars
  <2>1. ASSUME hosts' = hosts PROVE Isolated
    BY <2>1
  <2>2. ASSUME NEW s \in Starts, Starting(s) PROVE Isolated
    BY <1>1, <2>1, <2>2, StartingKeepsRegistry DEF IInv
  <2>3. ASSUME NEW c \in Clients, NEW h \in HostIds, NEW row, NEW new,
               Write(c, h, row, new), client[c].at \in {"ready", "put"},
               IsRoot(c) \/ (MayTouch(c, hosts[h]) /\ MayTouch(c, row))
        PROVE  Isolated
    <3>1. hosts' = [hosts EXCEPT ![h] = row]
      BY <2>3 DEF Write
    <3>2. \A g \in HostIds : hosts'[g] # hosts[g] => g = h /\ hosts'[g] = row
      BY <1>1, <3>1 DEF IInv, TypeOK
    <3> QED BY <2>3, <3>2
  <2>4. ASSUME NEW c \in Clients, Use(c) PROVE Isolated
    <3>1. ASSUME NEW h \in HostIds, NEW n \in HostNames, NEW a \in Addresses,
                 NEW t \in Rows(tenants) \cup {None}, CreateHost(c, h, n, a, t)
          PROVE  Isolated
      BY <1>1, <2>3, <3>1, CreateHostRow DEF InScope, MayTouch
    <3> QED BY <2>1, <2>4, <3>1
            DEF Use, GiveUp, LogIn, CreateTenant, CreateUser, tables
  <2>5. ASSUME NEW c \in Clients, Edit(c) PROVE Isolated
    <3>1. ASSUME NEW h \in HostIds, DeleteHost(c, h) PROVE Isolated
      BY <2>3, <3>1 DEF DeleteHost, Asks, InScope, MayTouch
    <3>2. ASSUME NEW body \in HostBody, UpdateHost(c, body) PROVE Isolated
      <4> DEFINE h == client[c].id
                 row == [Merge(client[c].row, body) EXCEPT !.tenant = hosts[h].tenant]
      <4>1. /\ client[c].at = "put" /\ h \in HostIds /\ client[c].row \in HostRow
            /\ hosts[h].tenant = client[c].row.tenant
            /\ InScope(c, client[c].row)
            /\ Write(c, h, row, Answered(c, body))
        BY <1>1, <3>2 DEF IInv, ClientsFit, ClientFits, UpdateHost, Matches
      <4>2. row.tenant = hosts[h].tenant
        BY <4>1, Merges
      <4> HIDE DEF row
      <4> QED BY <2>3, <4>1, <4>2 DEF InScope, MayTouch
    <3> QED BY <2>1, <2>5, <3>1, <3>2
            DEF Edit, GetHost, UpdateNothing, UpdateTenant, tables
  <2> QED BY <1>1, <2>2, <2>4, <2>5 DEF Next
<1>2. IInv /\ [Next]_vars => [Isolated]_vars
  BY <1>1
<1> QED BY <1>2, Inductive, PTL DEF Spec, TenantsChangeTheirOwnHosts
=============================================================================
