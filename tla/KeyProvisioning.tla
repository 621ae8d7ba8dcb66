-------------------------- MODULE KeyProvisioning --------------------------
(***************************************************************************)
(* How a login to a target host is authenticated, and how a first password *)
(* login turns into a stored key: Server.connectTarget and the goroutine   *)
(* ensureKeyUploaded it starts (internal/bastion/server.go), the table     *)
(* host_key_pairs (internal/store/store.go) and the host edits of the API  *)
(* that change where a host points while logins are in flight.             *)
(*                                                                         *)
(* Many logins run at once; each reads the tables, dials the target and    *)
(* writes back in separate steps, and the server may crash between any two *)
(* of them.  The authorized_keys files of the targets are external.        *)
(***************************************************************************)
EXTENDS FiniteSets

CONSTANTS
    Users,          \* rows of table users
    Hosts,          \* ids of table hosts
    Accounts,       \* login accounts on the targets (address, port, username)
    Keys,           \* key pairs sshkeys.Generate may return; bounds how many
    Logins,         \* calls of connectTarget that may be in flight at once
    None,           \* no row, no account, no key
    StoreMayFail    \* whether a statement on the database may return an error

ASSUME NoneIsFresh == None \notin Users \cup Hosts \cup Accounts \cup Keys
ASSUME StoreMayFailIsBoolean == StoreMayFail \in BOOLEAN

VARIABLES
    host,       \* the hosts table: the account each host id points at, or None
    home,       \* history: every account each host id has pointed at
    pair,       \* host_key_pairs: the key stored for a user and a host, or None
    minted,     \* keys Generate has returned so far
    keys,       \* external: the authorized_keys file of every account
    login,      \* the calls of connectTarget and the clients they returned
    upload      \* the goroutines ensureKeyUploaded, one per password login

vars == <<host, home, pair, minted, keys, login, upload>>

-----------------------------------------------------------------------------
(* Every row SaveHostKeyPair writes has Uploaded: true, its only call site  *)
(* sets it; a stored pair is therefore a key, and a missing one is None.    *)

LoginStates == {"idle", "lookup", "keyDial", "passwordDial", "open"}
UploadStates == {"idle", "reread", "session", "run", "save", "done"}
Outcomes == {"none", "present", "uploaded"}

LoginRecord ==
    [at: LoginStates, user: Users \cup {None}, host: Hosts \cup {None},
     acct: Accounts \cup {None}, password: BOOLEAN, kp: Keys \cup {None}]
UploadRecord ==
    [at: UploadStates, key: Keys \cup {None}, outcome: Outcomes]

IdleLogin == [at |-> "idle", user |-> None, host |-> None, acct |-> None,
              password |-> FALSE, kp |-> None]
IdleUpload == [at |-> "idle", key |-> None, outcome |-> "none"]

TypeOK ==
    /\ host \in [Hosts -> Accounts \cup {None}]
    /\ home \in [Hosts -> SUBSET Accounts]
    /\ pair \in [Users -> [Hosts -> Keys \cup {None}]]
    /\ minted \in SUBSET Keys
    /\ keys \in [Accounts -> SUBSET Keys]
    /\ login \in [Logins -> LoginRecord]
    /\ upload \in [Logins -> UploadRecord]

(* Mutant: the query filters on user_id only.                               *)
RowOfAnyHost(c) == pair[login[c].user][CHOOSE h \in Hosts : TRUE]

(* What the query on user_id and host_id returns for a login.               *)
Row(c) == pair[login[c].user][login[c].host]

Init ==
    /\ host \in [Hosts -> Accounts]
    /\ home = [h \in Hosts |-> {host[h]}]
    /\ pair = [u \in Users |-> [h \in Hosts |-> None]]
    /\ minted = {}
    /\ keys = [a \in Accounts |-> {}]
    /\ login = [c \in Logins |-> IdleLogin]
    /\ upload = [c \in Logins |-> IdleUpload]

-----------------------------------------------------------------------------
(* connectTarget                                                            *)

(* A caller has loaded the host row and calls connectTarget.  The bastion's *)
(* shell and exec requests pass no password, the web terminal and the API   *)
(* pass the one they were given.                                            *)
Call(c, u, h, pw) ==
    /\ login[c].at = "idle" /\ upload[c].at \in {"idle", "done"}
    /\ host[h] # None
    /\ login' = [login EXCEPT ![c] =
          [at |-> "lookup", user |-> u, host |-> h, acct |-> host[h],
           password |-> pw, kp |-> None]]
    /\ upload' = [upload EXCEPT ![c] = IdleUpload]
    /\ UNCHANGED <<host, home, pair, minted, keys>>

(* GetHostKeyPair returns the row; an error ends the call.                  *)
LookupKey(c) ==
    /\ login[c].at = "lookup"
    /\ login' = [login EXCEPT ![c].kp = Row(c),
          ![c].at = IF Row(c) = None THEN "passwordDial" ELSE "keyDial"]
    /\ UNCHANGED <<host, home, pair, minted, keys, upload>>

LookupError(c) ==
    /\ StoreMayFail
    /\ login[c].at = "lookup"
    /\ login' = [login EXCEPT ![c] = IdleLogin]
    /\ UNCHANGED <<host, home, pair, minted, keys, upload>>

(* Dialling with the stored key is accepted when the account lists it;      *)
(* any failure, a refusal or an unreachable target, falls through.          *)
DialWithKey(c) ==
    /\ login[c].at = "keyDial"
    /\ login[c].kp \in keys[login[c].acct]
    /\ login' = [login EXCEPT ![c].at = "open"]
    /\ UNCHANGED <<host, home, pair, minted, keys, upload>>

KeyDialFails(c) ==
    /\ login[c].at = "keyDial"
    /\ login' = [login EXCEPT ![c].at = "passwordDial"]
    /\ UNCHANGED <<host, home, pair, minted, keys, upload>>

(* A password that is accepted opens the client and starts the goroutine.   *)
DialWithPassword(c) ==
    /\ login[c].at = "passwordDial" /\ login[c].password
    /\ login' = [login EXCEPT ![c].at = "open"]
    /\ upload' = [upload EXCEPT ![c].at = "reread"]
    /\ UNCHANGED <<host, home, pair, minted, keys>>

(* The password is refused, or there is none: "no credentials for host".    *)
NoCredentials(c) ==
    /\ login[c].at = "passwordDial"
    /\ login' = [login EXCEPT ![c] = IdleLogin]
    /\ UNCHANGED <<host, home, pair, minted, keys, upload>>

(* The caller is done: an open client is closed (defer client.Close()),     *)
(* whatever its goroutine is doing; the goroutine keeps its arguments.      *)
CallerReturns(c) ==
    /\ login[c].at = "open"
    /\ login' = [login EXCEPT ![c] =
          IF upload[c].at \in {"idle", "done"} THEN IdleLogin
                                              ELSE [@ EXCEPT !.at = "idle"]]
    /\ upload' = [upload EXCEPT ![c] = IF @.at = "done" THEN IdleUpload ELSE @]
    /\ UNCHANGED <<host, home, pair, minted, keys>>
-----------------------------------------------------------------------------
(* ensureKeyUploaded, running beside its caller                             *)

(* The second read finds a row: another login has provisioned the host.     *)
FindsRow(c) ==
    /\ upload[c].at = "reread"
    /\ Row(c) # None
    /\ upload' = [upload EXCEPT ![c].at = "done", ![c].outcome = "present"]
    /\ UNCHANGED <<host, home, pair, minted, keys, login>>

(* Mutant: a key the caller had read is not used again.                     *)
AlwaysGenerates(c) == Keys \ minted

(* The key to install: the one the caller had read, else a new one.         *)
Choice(c) == IF login[c].kp # None THEN {login[c].kp} ELSE Keys \ minted

(* It finds none.  The error of this read is dropped, so a failed read is   *)
(* taken for a missing row.                                                 *)
ChoosesKey(c) ==
    /\ upload[c].at = "reread"
    /\ Row(c) = None \/ StoreMayFail
    /\ \E k \in Choice(c) :
          /\ upload' = [upload EXCEPT ![c].at = "session", ![c].key = k]
          /\ minted' = minted \cup {k}
    /\ UNCHANGED <<host, home, pair, keys, login>>

(* client.NewSession() needs the client the caller may have closed.         *)
OpensSession(c) ==
    /\ upload[c].at = "session"
    /\ login[c].at = "open"
    /\ upload' = [upload EXCEPT ![c].at = "run"]
    /\ UNCHANGED <<host, home, pair, minted, keys, login>>

SessionRefused(c) ==
    /\ upload[c].at = "session"
    /\ upload' = [upload EXCEPT ![c] = IdleUpload]
    /\ UNCHANGED <<host, home, pair, minted, keys, login>>

(* Mutant: the script writes the file (>) instead of appending to it (>>).  *)
Overwritten(c) == [keys EXCEPT ![login[c].acct] = {upload[c].key}]

Installed(c) ==
    [keys EXCEPT ![login[c].acct] = @ \cup {upload[c].key}]

(* UploadPublicKey: the script appends the key unless the file has it.      *)
ScriptSucceeds(c) ==
    /\ upload[c].at = "run"
    /\ login[c].at = "open"
    /\ keys' = Installed(c)
    /\ upload' = [upload EXCEPT ![c].at = "save"]
    /\ UNCHANGED <<host, home, pair, minted, login>>

(* Mutant: the error of UploadPublicKey is not looked at.                   *)
ScriptErrorIgnored(c) ==
    /\ upload[c].at = "run"
    /\ keys' \in {keys, Installed(c)}
    /\ upload' = [upload EXCEPT ![c].at = "save"]
    /\ UNCHANGED <<host, home, pair, minted, login>>

(* The script failed, or its exit status was lost with the client.          *)
ScriptFails(c) ==
    /\ upload[c].at = "run"
    /\ keys' \in {keys, Installed(c)}
    /\ upload' = [upload EXCEPT ![c] = IdleUpload]
    /\ UNCHANGED <<host, home, pair, minted, login>>

(* SaveHostKeyPair upserts on (user_id, host_id).                           *)
SavesKey(c) ==
    /\ upload[c].at = "save"
    /\ pair' = [pair EXCEPT ![login[c].user][login[c].host] = upload[c].key]
    /\ upload' = [upload EXCEPT ![c].at = "done", ![c].outcome = "uploaded"]
    /\ UNCHANGED <<host, home, minted, keys, login>>

(* Its error is dropped, and key_uploaded is audited all the same.          *)
SaveFails(c) ==
    /\ StoreMayFail
    /\ upload[c].at = "save"
    /\ upload' = [upload EXCEPT ![c].at = "done", ![c].outcome = "uploaded"]
    /\ UNCHANGED <<host, home, pair, minted, keys, login>>

-----------------------------------------------------------------------------
(* The API's host handlers, and the end of the process                      *)

PutHost(h, a) ==
    /\ host' = [host EXCEPT ![h] = a]
    /\ home' = [home EXCEPT ![h] = @ \cup {a}]
    /\ UNCHANGED <<pair, minted, keys, login, upload>>

(* createHost keeps an id the request supplies, one deleted before included.*)
CreateHost(h, a) == host[h] = None /\ PutHost(h, a)

(* updateHost changes address, port or username; key pairs stay.            *)
UpdateHost(h, a) == host[h] \notin {None, a} /\ PutHost(h, a)

(* Mutant: a deleted host becomes one with an empty account.                *)
BlanksHost(h) == host[h] # None /\ PutHost(h, None)

(* deleteHost leaves the rows of host_key_pairs behind.                     *)
DeleteHost(h) ==
    /\ host[h] # None
    /\ host' = [host EXCEPT ![h] = None]
    /\ UNCHANGED <<home, pair, minted, keys, login, upload>>

(* The server process ends, at any point, and is started again.             *)
Crash ==
    /\ login' = [c \in Logins |-> IdleLogin]
    /\ upload' = [c \in Logins |-> IdleUpload]
    /\ UNCHANGED <<host, home, pair, minted, keys>>

-----------------------------------------------------------------------------
ConnectStep(c) ==
    \/ \E u \in Users, h \in Hosts, pw \in BOOLEAN : Call(c, u, h, pw)
    \/ LookupKey(c) \/ LookupError(c)
    \/ DialWithKey(c) \/ KeyDialFails(c)
    \/ DialWithPassword(c) \/ NoCredentials(c)
    \/ CallerReturns(c)

UploadStep(c) ==
    \/ FindsRow(c) \/ ChoosesKey(c)
    \/ OpensSession(c) \/ SessionRefused(c)
    \/ ScriptSucceeds(c) \/ ScriptFails(c)
    \/ SavesKey(c) \/ SaveFails(c)

HostStep ==
    \E h \in Hosts :
        \/ \E a \in Accounts : CreateHost(h, a) \/ UpdateHost(h, a)
        \/ DeleteHost(h)

Next ==
    \/ \E c \in Logins : ConnectStep(c) \/ UploadStep(c)
    \/ HostStep
    \/ Crash

Spec == Init /\ [][Next]_vars

-----------------------------------------------------------------------------
(* A key is stored only after it reached a target: whatever logins, edits   *)
(* and crashes did, the key of a stored pair is listed by an account its    *)
(* host id has pointed at (ensureKeyUploaded saves after UploadPublicKey).  *)
StoredKeyReachedItsHost ==
    \A u \in Users, h \in Hosts :
        pair[u][h] # None =>
            \E a \in home[h] : pair[u][h] \in keys[a]

(* A stored key is never spread: only accounts its own host id has pointed  *)
(* at list it, and no two rows hold the same key.  A login that mixes up    *)
(* the rows of two hosts or two users, or that installs on one target and   *)
(* saves for another, breaks it.                                            *)
StoredKeyStaysWithItsHost ==
    \A u \in Users, h \in Hosts :
        pair[u][h] # None =>
            /\ \A a \in Accounts : pair[u][h] \in keys[a] => a \in home[h]
            /\ \A v \in Users, g \in Hosts :
                  pair[v][g] = pair[u][h] => v = u /\ g = h

(* A stored key is final for later logins: only a goroutine whose caller    *)
(* had found no row, that is one racing the first upload, may replace it    *)
(* with a new key; one whose caller had read a key can at most write that   *)
(* key back.  It rests on the second read, and on reusing the caller's key  *)
(* when the second read fails.                                              *)
OnlyRacersReplaceStoredKey ==
    [][\A u \in Users, h \in Hosts :
          (pair[u][h] # None /\ pair'[u][h] # pair[u][h]) =>
              \E c \in Logins :
                  /\ login[c].user = u /\ login[c].host = h
                  /\ upload[c].key = pair'[u][h]
                  /\ login[c].kp \in {None, pair'[u][h]}]_vars

(* "no credentials for host ...: login via web UI with password first"      *)
(* (server.go:379): a password login whose goroutine ended without a        *)
(* failure leaves a stored key that the account it logged in to accepts.    *)
PasswordLoginProvisionsKey ==
    \A c \in Logins :
        upload[c].outcome \in {"present", "uploaded"} =>
            Row(c) \in keys[login[c].acct]

(* That promise does hold of a host that was never edited: whatever other   *)
(* logins and crashes did, a goroutine that found a row, or that uploaded   *)
(* with a database that does not fail, leaves a stored key that the account *)
(* accepts (ensureKeyUploaded saves only after UploadPublicKey succeeded).  *)
UneditedHostsAreProvisioned ==
    \A c \in Logins :
        (/\ upload[c].outcome = "present" \/ ~StoreMayFail
         /\ upload[c].outcome # "none"
         /\ home[login[c].host] = {login[c].acct}) =>
            Row(c) \in keys[login[c].acct]

(* The tables and the targets together keep what KeyCustody promises: every *)
(* script run is an installation of a key on its owner's own target, every  *)
(* SaveHostKeyPair stores a key for its owner after that, and no other step *)
(* of a login, an edit or a crash touches either.                           *)
Custody == INSTANCE KeyCustody

CustodyIsKept == Custody!Spec
=============================================================================
