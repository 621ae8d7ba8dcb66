----------------------- MODULE KeyProvisioning_proofs -----------------------
(***************************************************************************)
(* Proofs about KeyProvisioning, for any number of users, hosts, accounts, *)
(* keys and concurrent logins, with or without a database that fails.      *)
(***************************************************************************)
EXTENDS KeyProvisioning, TLAPS

(* A login that is under way, or whose goroutine is or was, is about a user *)
(* and a host, and it dials an account its host has pointed at.             *)
Busy(c) == login[c].at # "idle" \/ upload[c].at # "idle"

BusyLoginsDialTheirHost ==
    \A c \in Logins : Busy(c) =>
        /\ login[c].user \in Users
        /\ login[c].host \in Hosts
        /\ login[c].acct \in Accounts
        /\ login[c].acct \in home[login[c].host]

(* A goroutine past its choice holds a key; one about to save it has        *)
(* installed it on the account its caller logged in to.                     *)
UploadsHoldTheirKey ==
    \A c \in Logins :
        /\ upload[c].at \in {"session", "run", "save"} => upload[c].key \in Keys
        /\ upload[c].at = "save" => upload[c].key \in keys[login[c].acct]

(* The goroutine starts when its caller has dialled.                         *)
UploadsFollowDials ==
    \A c \in Logins :
        login[c].at \in {"lookup", "keyDial", "passwordDial"} =>
            upload[c].at = "idle"

(* home is what its name says.                                              *)
HomeCoversHosts == \A h \in Hosts : host[h] # None => host[h] \in home[h]

IInv ==
    /\ TypeOK
    /\ HomeCoversHosts
    /\ BusyLoginsDialTheirHost
    /\ UploadsHoldTheirKey
    /\ UploadsFollowDials
    /\ StoredKeyReachedItsHost

-----------------------------------------------------------------------------
USE NoneIsFresh

(* Changing fields of one login's, or one goroutine's, record keeps its type. *)
LEMMA LoginMoves ==
    ASSUME login \in [Logins -> LoginRecord], NEW c \in Logins, NEW s \in LoginStates
    PROVE  [login EXCEPT ![c].at = s] \in [Logins -> LoginRecord]
<1>1. [login[c] EXCEPT !.at = s] \in LoginRecord
  BY DEF LoginRecord
<1> QED BY <1>1

LEMMA UploadMoves ==
    ASSUME upload \in [Logins -> UploadRecord], NEW c \in Logins,
           NEW s \in UploadStates
    PROVE  /\ [upload EXCEPT ![c].at = s] \in [Logins -> UploadRecord]
           /\ \A k \in Keys :
                [upload EXCEPT ![c].at = s, ![c].key = k] \in [Logins -> UploadRecord]
           /\ \A o \in Outcomes :
                [upload EXCEPT ![c].at = s, ![c].outcome = o] \in [Logins -> UploadRecord]
<1>1. [upload[c] EXCEPT !.at = s] \in UploadRecord
  BY DEF UploadRecord
<1>2. ASSUME NEW k \in Keys
      PROVE  [upload[c] EXCEPT !.at = s, !.key = k] \in UploadRecord
  BY DEF UploadRecord
<1>3. ASSUME NEW o \in Outcomes
      PROVE  [upload[c] EXCEPT !.at = s, !.outcome = o] \in UploadRecord
  BY DEF UploadRecord
<1> QED BY <1>1, <1>2, <1>3

LEMMA InitIInv == Init => IInv
<1> SUFFICES ASSUME Init PROVE IInv
  OBVIOUS
<1>1. TypeOK
  BY DEF Init, TypeOK, IdleLogin, IdleUpload, LoginRecord, UploadRecord,
         LoginStates, UploadStates, Outcomes
<1>2. BusyLoginsDialTheirHost
  BY DEF Init, BusyLoginsDialTheirHost, Busy, IdleLogin, IdleUpload
<1>3. UploadsHoldTheirKey
  BY DEF Init, UploadsHoldTheirKey, IdleUpload
<1>4. StoredKeyReachedItsHost
  BY DEF Init, StoredKeyReachedItsHost
<1>5. HomeCoversHosts
  BY DEF Init, HomeCoversHosts
<1>6. UploadsFollowDials
  BY DEF Init, UploadsFollowDials, IdleUpload
<1> QED BY <1>1, <1>2, <1>3, <1>4, <1>5, <1>6 DEF IInv


(* The steps of connectTarget change only the login and its goroutine.      *)
LEMMA ConnectIInv ==
    ASSUME IInv, NEW c \in Logins, ConnectStep(c)
    PROVE  IInv'
<1> DEFINE Goal == /\ UNCHANGED <<host, home, pair, minted, keys>>
                   /\ login' \in [Logins -> LoginRecord]
                   /\ upload' \in [Logins -> UploadRecord]
                   /\ BusyLoginsDialTheirHost' /\ UploadsHoldTheirKey'
                   /\ UploadsFollowDials'
<1>0. /\ host \in [Hosts -> Accounts \cup {None}]
      /\ login \in [Logins -> LoginRecord]
      /\ upload \in [Logins -> UploadRecord]
      /\ BusyLoginsDialTheirHost /\ UploadsHoldTheirKey /\ UploadsFollowDials
  BY DEF IInv, TypeOK
<1>1. ASSUME NEW u \in Users, NEW h \in Hosts, NEW pw \in BOOLEAN,
             Call(c, u, h, pw)
      PROVE  Goal
  <2>1. /\ host[h] # None
        /\ login' = [login EXCEPT ![c] =
              [at |-> "lookup", user |-> u, host |-> h, acct |-> host[h],
               password |-> pw, kp |-> None]]
        /\ upload' = [upload EXCEPT ![c] = IdleUpload]
        /\ UNCHANGED <<host, home, pair, minted, keys>>
    BY <1>0, <1>1 DEF Call
  <2>7. host[h] \in Accounts /\ host[h] \in home[h]
    BY <1>0, <2>1 DEF IInv, HomeCoversHosts
  <2>2. login' \in [Logins -> LoginRecord]
    BY <1>0, <2>1 DEF LoginRecord, LoginStates, IdleLogin
  <2>3. upload' \in [Logins -> UploadRecord]
    BY <1>0, <2>1 DEF UploadRecord, UploadStates, Outcomes, IdleUpload
  <2>4. BusyLoginsDialTheirHost'
    BY <1>0, <2>1, <2>7 DEF BusyLoginsDialTheirHost, Busy, LoginRecord, UploadRecord, IdleLogin, IdleUpload
  <2>5. UploadsHoldTheirKey'
    BY <1>0, <2>1 DEF UploadsHoldTheirKey, LoginRecord, UploadRecord, IdleLogin, IdleUpload
  <2>6. UploadsFollowDials'
    BY <1>0, <2>1 DEF UploadsFollowDials, LoginRecord, UploadRecord, IdleLogin, IdleUpload
  <2> QED BY <1>0, <2>1, <2>2, <2>3, <2>4, <2>5, <2>6
<1>2. ASSUME LookupKey(c)
      PROVE  Goal
  <2>1. /\ login[c].at = "lookup"
        /\ login' = [login EXCEPT ![c].kp = Row(c),
              ![c].at = IF Row(c) = None THEN "passwordDial" ELSE "keyDial"]
        /\ UNCHANGED <<host, home, pair, minted, keys, upload>>
    BY <1>0, <1>2 DEF LookupKey
  <2>7. Row(c) \in Keys \cup {None}
    BY <1>0, <2>1 DEF IInv, TypeOK, Row, BusyLoginsDialTheirHost, Busy, LoginRecord, UploadRecord, IdleUpload
  <2>2. login' \in [Logins -> LoginRecord]
    BY <1>0, <2>1, <2>7 DEF LoginRecord, LoginStates, IdleLogin
  <2>3. upload' \in [Logins -> UploadRecord]
    BY <1>0, <2>1 DEF UploadRecord, UploadStates, Outcomes, IdleUpload
  <2>4. BusyLoginsDialTheirHost'
    BY <1>0, <2>1, <2>7 DEF BusyLoginsDialTheirHost, Busy, LoginRecord, UploadRecord, IdleLogin, IdleUpload
  <2>5. UploadsHoldTheirKey'
    BY <1>0, <2>1 DEF UploadsHoldTheirKey, LoginRecord, UploadRecord, IdleLogin, IdleUpload
  <2>6. UploadsFollowDials'
    BY <1>0, <2>1, <2>7 DEF UploadsFollowDials, LoginRecord, UploadRecord, IdleLogin, IdleUpload
  <2> QED BY <1>0, <2>1, <2>2, <2>3, <2>4, <2>5, <2>6
<1>3. ASSUME LookupError(c) \/ NoCredentials(c)
      PROVE  Goal
  <2>1. /\ login' = [login EXCEPT ![c] = IdleLogin]
        /\ upload[c].at = "idle"
        /\ UNCHANGED <<host, home, pair, minted, keys, upload>>
    BY <1>0, <1>3 DEF LookupError, NoCredentials, UploadsFollowDials
  <2>2. login' \in [Logins -> LoginRecord]
    BY <1>0, <2>1 DEF LoginRecord, LoginStates, IdleLogin
  <2>3. upload' \in [Logins -> UploadRecord]
    BY <1>0, <2>1 DEF UploadRecord, UploadStates, Outcomes, IdleUpload
  <2>4. BusyLoginsDialTheirHost'
    BY <1>0, <2>1 DEF BusyLoginsDialTheirHost, Busy, LoginRecord, UploadRecord, IdleLogin, IdleUpload
  <2>5. UploadsHoldTheirKey'
    BY <1>0, <2>1 DEF UploadsHoldTheirKey, LoginRecord, UploadRecord, IdleLogin, IdleUpload
  <2>6. UploadsFollowDials'
    BY <1>0, <2>1 DEF UploadsFollowDials, LoginRecord, UploadRecord, IdleLogin, IdleUpload
  <2> QED BY <1>0, <2>1, <2>2, <2>3, <2>4, <2>5, <2>6
<1>4. ASSUME DialWithKey(c) \/ KeyDialFails(c)
      PROVE  Goal
  <2>1. /\ login[c].at # "idle" /\ upload[c].at = "idle"
        /\ \E s \in {"open", "passwordDial"} : login' = [login EXCEPT ![c].at = s]
        /\ UNCHANGED <<host, home, pair, minted, keys, upload>>
    BY <1>0, <1>4 DEF DialWithKey, KeyDialFails, UploadsFollowDials
  <2>2. login' \in [Logins -> LoginRecord]
    <3>1. PICK s \in {"open", "passwordDial"} : login' = [login EXCEPT ![c].at = s]
      BY <2>1
    <3>2. s \in LoginStates
      BY DEF LoginStates
    <3> QED BY <1>0, <3>1, <3>2, LoginMoves
  <2>3. upload' \in [Logins -> UploadRecord]
    BY <1>0, <2>1, UploadMoves DEF UploadStates, Outcomes
  <2>4. BusyLoginsDialTheirHost'
    BY <1>0, <2>1 DEF BusyLoginsDialTheirHost, Busy, LoginRecord, UploadRecord, IdleLogin, IdleUpload
  <2>5. UploadsHoldTheirKey'
    BY <1>0, <2>1 DEF UploadsHoldTheirKey, LoginRecord, UploadRecord, IdleLogin, IdleUpload
  <2>6. UploadsFollowDials'
    BY <1>0, <2>1 DEF UploadsFollowDials, LoginRecord, UploadRecord, IdleLogin, IdleUpload
  <2> QED BY <1>0, <2>1, <2>2, <2>3, <2>4, <2>5, <2>6
<1>5. ASSUME DialWithPassword(c)
      PROVE  Goal
  <2>1. /\ login[c].at = "passwordDial"
        /\ login' = [login EXCEPT ![c].at = "open"]
        /\ upload' = [upload EXCEPT ![c].at = "reread"]
        /\ UNCHANGED <<host, home, pair, minted, keys>>
    BY <1>0, <1>5 DEF DialWithPassword
  <2>2. login' \in [Logins -> LoginRecord]
    BY <1>0, <2>1, LoginMoves DEF LoginStates
  <2>3. upload' \in [Logins -> UploadRecord]
    BY <1>0, <2>1, UploadMoves DEF UploadStates, Outcomes
  <2>4. BusyLoginsDialTheirHost'
    BY <1>0, <2>1 DEF BusyLoginsDialTheirHost, Busy, LoginRecord, UploadRecord, IdleLogin, IdleUpload
  <2>5. UploadsHoldTheirKey'
    BY <1>0, <2>1 DEF UploadsHoldTheirKey, LoginRecord, UploadRecord, IdleLogin, IdleUpload
  <2>6. UploadsFollowDials'
    BY <1>0, <2>1 DEF UploadsFollowDials, LoginRecord, UploadRecord, IdleLogin, IdleUpload
  <2> QED BY <1>0, <2>1, <2>2, <2>3, <2>4, <2>5, <2>6
<1>6. ASSUME CallerReturns(c)
      PROVE  Goal
  <2>1. /\ login[c].at = "open"
        /\ login' = [login EXCEPT ![c] =
              IF upload[c].at \in {"idle", "done"} THEN IdleLogin
                                                  ELSE [@ EXCEPT !.at = "idle"]]
        /\ upload' = [upload EXCEPT ![c] = IF @.at = "done" THEN IdleUpload ELSE @]
        /\ UNCHANGED <<host, home, pair, minted, keys>>
    BY <1>0, <1>6 DEF CallerReturns
  <2>2. login' \in [Logins -> LoginRecord]
    BY <1>0, <2>1 DEF LoginRecord, LoginStates, IdleLogin
  <2>3. upload' \in [Logins -> UploadRecord]
    BY <1>0, <2>1 DEF UploadRecord, UploadStates, Outcomes, IdleUpload
  <2>4. BusyLoginsDialTheirHost'
    BY <1>0, <2>1 DEF BusyLoginsDialTheirHost, Busy, LoginRecord, UploadRecord, IdleLogin, IdleUpload
  <2>5. UploadsHoldTheirKey'
    BY <1>0, <2>1 DEF UploadsHoldTheirKey, LoginRecord, UploadRecord, IdleLogin, IdleUpload
  <2>6. UploadsFollowDials'
    BY <1>0, <2>1 DEF UploadsFollowDials, LoginRecord, UploadRecord, IdleLogin, IdleUpload
  <2> QED BY <1>0, <2>1, <2>2, <2>3, <2>4, <2>5, <2>6
<1>7. Goal
  BY <1>1, <1>2, <1>3, <1>4, <1>5, <1>6 DEF ConnectStep
<1> QED BY <1>7 DEF IInv, TypeOK, StoredKeyReachedItsHost, HomeCoversHosts

-----------------------------------------------------------------------------
(* The goroutine's steps change the row and the account of its own login.   *)
LEMMA UploadIInv ==
    ASSUME IInv, NEW c \in Logins, UploadStep(c)
    PROVE  IInv'
<1> DEFINE Goal == /\ UNCHANGED <<host, home, login>>
                   /\ upload' \in [Logins -> UploadRecord]
                   /\ pair' \in [Users -> [Hosts -> Keys \cup {None}]]
                   /\ minted' \in SUBSET Keys
                   /\ keys' \in [Accounts -> SUBSET Keys]
                   /\ UploadsHoldTheirKey' /\ StoredKeyReachedItsHost'
<1>0. /\ upload \in [Logins -> UploadRecord]
      /\ pair \in [Users -> [Hosts -> Keys \cup {None}]]
      /\ home \in [Hosts -> SUBSET Accounts]
      /\ minted \in SUBSET Keys
      /\ keys \in [Accounts -> SUBSET Keys]
      /\ login \in [Logins -> LoginRecord]
      /\ BusyLoginsDialTheirHost /\ UploadsHoldTheirKey
      /\ UploadsFollowDials /\ StoredKeyReachedItsHost
  BY DEF IInv, TypeOK
<1>1. upload[c].at # "idle"
  BY DEF UploadStep, FindsRow, ChoosesKey, OpensSession, SessionRefused,
         ScriptSucceeds, ScriptFails, SavesKey, SaveFails
<1>2. /\ login[c].user \in Users /\ login[c].host \in Hosts
      /\ login[c].acct \in Accounts /\ login[c].acct \in home[login[c].host]
  BY <1>0, <1>1 DEF BusyLoginsDialTheirHost, Busy
<1>3. ASSUME FindsRow(c) \/ SaveFails(c)
      PROVE  Goal
  <2>1. /\ \E o \in {"present", "uploaded"} :
              upload' = [upload EXCEPT ![c].at = "done", ![c].outcome = o]
        /\ UNCHANGED <<host, home, pair, minted, keys, login>>
    BY <1>3 DEF FindsRow, SaveFails
  <2>2. upload' \in [Logins -> UploadRecord]
    <3>1. PICK o \in {"present", "uploaded"} :
              upload' = [upload EXCEPT ![c].at = "done", ![c].outcome = o]
      BY <2>1
    <3>2. o \in Outcomes /\ "done" \in UploadStates
      BY DEF Outcomes, UploadStates
    <3> QED BY <1>0, <3>1, <3>2, UploadMoves
  <2>3. UploadsHoldTheirKey'
    BY <1>0, <2>1 DEF UploadsHoldTheirKey, LoginRecord, UploadRecord, IdleLogin, IdleUpload
  <2>4. StoredKeyReachedItsHost'
    BY <1>0, <2>1 DEF StoredKeyReachedItsHost, LoginRecord, UploadRecord, IdleLogin, IdleUpload
  <2> QED BY <1>0, <2>1, <2>2, <2>3, <2>4
<1>4. ASSUME SessionRefused(c)
      PROVE  Goal
  <2>1. /\ upload' = [upload EXCEPT ![c] = IdleUpload]
        /\ UNCHANGED <<host, home, pair, minted, keys, login>>
    BY <1>4 DEF SessionRefused
  <2>2. upload' \in [Logins -> UploadRecord]
    BY <1>0, <2>1 DEF UploadRecord, UploadStates, Outcomes, IdleUpload
  <2>3. UploadsHoldTheirKey'
    BY <1>0, <2>1 DEF UploadsHoldTheirKey, LoginRecord, UploadRecord, IdleLogin, IdleUpload
  <2>4. StoredKeyReachedItsHost'
    BY <1>0, <2>1 DEF StoredKeyReachedItsHost, LoginRecord, UploadRecord, IdleLogin, IdleUpload
  <2> QED BY <1>0, <2>1, <2>2, <2>3, <2>4
<1>5. ASSUME ChoosesKey(c) PROVE Goal
  <2>1. PICK k \in Choice(c) :
          /\ upload' = [upload EXCEPT ![c].at = "session", ![c].key = k]
          /\ minted' = minted \cup {k}
    BY <1>5 DEF ChoosesKey
  <2>2. UNCHANGED <<host, home, pair, keys, login>>
    BY <1>5 DEF ChoosesKey
  <2>3. k \in Keys
    BY <1>0, <2>1 DEF Choice, LoginRecord, LoginRecord, UploadRecord, IdleUpload
  <2>4. upload' \in [Logins -> UploadRecord] /\ minted' \in SUBSET Keys
    BY <1>0, <2>1, <2>3, UploadMoves DEF UploadStates, Outcomes
  <2>5. UploadsHoldTheirKey'
    BY <1>0, <2>1, <2>2, <2>3 DEF UploadsHoldTheirKey, LoginRecord, UploadRecord, IdleLogin, IdleUpload
  <2>6. StoredKeyReachedItsHost'
    BY <1>0, <2>2 DEF StoredKeyReachedItsHost, LoginRecord, UploadRecord, IdleLogin, IdleUpload
  <2> QED BY <1>0, <2>2, <2>4, <2>5, <2>6
<1>6. ASSUME OpensSession(c)
      PROVE  Goal
  <2>1. /\ upload[c].at = "session"
        /\ upload' = [upload EXCEPT ![c].at = "run"]
        /\ UNCHANGED <<host, home, pair, minted, keys, login>>
    BY <1>6 DEF OpensSession
  <2>2. upload' \in [Logins -> UploadRecord]
    BY <1>0, <2>1, UploadMoves DEF UploadStates, Outcomes
  <2>3. UploadsHoldTheirKey'
    BY <1>0, <2>1 DEF UploadsHoldTheirKey, LoginRecord, UploadRecord, IdleLogin, IdleUpload
  <2>4. StoredKeyReachedItsHost'
    BY <1>0, <2>1 DEF StoredKeyReachedItsHost, LoginRecord, UploadRecord, IdleLogin, IdleUpload
  <2> QED BY <1>0, <2>1, <2>2, <2>3, <2>4
<1>7. ASSUME upload[c].at = "run", keys' \in {keys, Installed(c)}
      PROVE  /\ keys' \in [Accounts -> SUBSET Keys]
             /\ \A a \in Accounts : keys[a] \subseteq keys'[a]
  <2>1. upload[c].key \in Keys
    BY <1>0, <1>7 DEF UploadsHoldTheirKey, LoginRecord, UploadRecord, IdleUpload
  <2>2. keys[login[c].acct] \cup {upload[c].key} \in SUBSET Keys
    BY <1>0, <1>2, <2>1
  <2>3. Installed(c) \in [Accounts -> SUBSET Keys]
    BY <1>0, <2>2 DEF Installed
  <2>4. \A a \in Accounts : keys[a] \subseteq Installed(c)[a]
    BY <1>0, <1>2 DEF Installed
  <2> QED BY <1>0, <1>7, <2>3, <2>4
<1>8. ASSUME NEW s \in {"idle", "save"},
             upload'[c].at = s, upload' \in [Logins -> UploadRecord],
             s = "save" => upload'[c].key \in Keys
                           /\ upload'[c].key \in keys'[login[c].acct],
             \A d \in Logins \ {c} : upload'[d] = upload[d],
             \A a \in Accounts : keys[a] \subseteq keys'[a],
             UNCHANGED <<host, home, pair, login>>
      PROVE  UploadsHoldTheirKey' /\ StoredKeyReachedItsHost'
  <2>1. ASSUME NEW d \in Logins
        PROVE  /\ upload'[d].at \in {"session", "run", "save"} => upload'[d].key \in Keys
               /\ upload'[d].at = "save" => upload'[d].key \in keys'[login[d].acct]
    <3>1. CASE d = c
      BY <1>8, <3>1
    <3>2. CASE d # c
      <4>1. upload[d].at # "idle" => login[d].acct \in Accounts
        BY <1>0 DEF BusyLoginsDialTheirHost, Busy
      <4> QED BY <1>0, <1>8, <3>2, <4>1 DEF UploadsHoldTheirKey
    <3> QED BY <3>1, <3>2
  <2>2. UploadsHoldTheirKey'
    BY <1>8, <2>1 DEF UploadsHoldTheirKey, LoginRecord, UploadRecord, IdleLogin, IdleUpload
  <2>3. StoredKeyReachedItsHost'
    BY <1>0, <1>8 DEF StoredKeyReachedItsHost, LoginRecord, UploadRecord, IdleLogin, IdleUpload
  <2> QED BY <2>2, <2>3
<1>9. ASSUME ScriptSucceeds(c) PROVE Goal
  <2>1. /\ upload[c].at = "run"
        /\ keys' = Installed(c)
        /\ upload' = [upload EXCEPT ![c].at = "save"]
        /\ UNCHANGED <<host, home, pair, minted, login>>
    BY <1>9 DEF ScriptSucceeds
  <2>2. /\ keys' \in [Accounts -> SUBSET Keys]
        /\ \A a \in Accounts : keys[a] \subseteq keys'[a]
    BY <1>7, <2>1
  <2>3. upload' \in [Logins -> UploadRecord]
    BY <1>0, <2>1, UploadMoves DEF UploadStates, Outcomes
  <2>4. upload'[c].key \in Keys /\ upload'[c].key \in keys'[login[c].acct]
    BY <1>0, <1>2, <2>1 DEF Installed, UploadsHoldTheirKey, LoginRecord, UploadRecord, IdleUpload
  <2>5. UploadsHoldTheirKey' /\ StoredKeyReachedItsHost'
    BY <1>0, <1>8, <2>1, <2>2, <2>3, <2>4 DEF LoginRecord, UploadRecord, IdleLogin, IdleUpload
  <2> QED BY <1>0, <2>1, <2>2, <2>3, <2>5
<1>10. ASSUME ScriptFails(c) PROVE Goal
  <2>1. /\ upload[c].at = "run"
        /\ keys' \in {keys, Installed(c)}
        /\ upload' = [upload EXCEPT ![c] = IdleUpload]
        /\ UNCHANGED <<host, home, pair, minted, login>>
    BY <1>10 DEF ScriptFails
  <2>2. /\ keys' \in [Accounts -> SUBSET Keys]
        /\ \A a \in Accounts : keys[a] \subseteq keys'[a]
    BY <1>7, <2>1
  <2>3. upload' \in [Logins -> UploadRecord] /\ upload'[c].at = "idle"
    BY <1>0, <2>1 DEF UploadRecord, UploadStates, Outcomes, IdleUpload
  <2>4. UploadsHoldTheirKey' /\ StoredKeyReachedItsHost'
    BY <1>0, <1>8, <2>1, <2>2, <2>3 DEF LoginRecord, UploadRecord, IdleLogin, IdleUpload
  <2> QED BY <1>0, <2>1, <2>2, <2>3, <2>4
<1>11. ASSUME SavesKey(c) PROVE Goal
  <2>1. /\ upload[c].at = "save"
        /\ pair' = [pair EXCEPT ![login[c].user][login[c].host] = upload[c].key]
        /\ upload' = [upload EXCEPT ![c].at = "done", ![c].outcome = "uploaded"]
        /\ UNCHANGED <<host, home, minted, keys, login>>
    BY <1>11 DEF SavesKey
  <2>2. upload[c].key \in Keys /\ upload[c].key \in keys[login[c].acct]
    BY <1>0, <2>1 DEF UploadsHoldTheirKey, LoginRecord, UploadRecord, IdleUpload
  <2>3. upload' \in [Logins -> UploadRecord]
    BY <1>0, <2>1, UploadMoves DEF UploadStates, Outcomes
  <2>4. pair' \in [Users -> [Hosts -> Keys \cup {None}]]
    <3>1. [pair[login[c].user] EXCEPT ![login[c].host] = upload[c].key]
            \in [Hosts -> Keys \cup {None}]
      BY <1>0, <1>2, <2>2
    <3> QED BY <1>0, <1>2, <2>1, <3>1
  <2>5. UploadsHoldTheirKey'
    BY <1>0, <2>1 DEF UploadsHoldTheirKey, LoginRecord, UploadRecord, IdleLogin, IdleUpload
  <2>6. StoredKeyReachedItsHost'
    BY <1>0, <1>2, <2>1, <2>2 DEF StoredKeyReachedItsHost, LoginRecord, UploadRecord, IdleLogin, IdleUpload
  <2> QED BY <1>0, <2>1, <2>3, <2>4, <2>5, <2>6
<1>12. Goal
  BY <1>3, <1>4, <1>5, <1>6, <1>9, <1>10, <1>11 DEF UploadStep
<1>13. \A d \in Logins : d # c => upload'[d] = upload[d]
  BY <1>0 DEF UploadStep, FindsRow, ChoosesKey, OpensSession, SessionRefused,
         ScriptSucceeds, ScriptFails, SavesKey, SaveFails
<1>14. BusyLoginsDialTheirHost' /\ UploadsFollowDials'
  BY <1>0, <1>1, <1>2, <1>12, <1>13 DEF BusyLoginsDialTheirHost, Busy, UploadsFollowDials, LoginRecord, UploadRecord, IdleLogin, IdleUpload
<1> QED BY <1>12, <1>14 DEF IInv, TypeOK, HomeCoversHosts

-----------------------------------------------------------------------------
(* Host edits only add to home; a crash only empties the tables of logins.  *)
LEMMA HostIInv == IInv /\ HostStep => IInv'
<1> SUFFICES ASSUME IInv, HostStep PROVE IInv'
  OBVIOUS
<1> USE DEF TypeOK
<1>0. TypeOK /\ HomeCoversHosts /\ BusyLoginsDialTheirHost
      /\ UploadsHoldTheirKey /\ UploadsFollowDials /\ StoredKeyReachedItsHost
  BY DEF IInv
<1>1. PICK h \in Hosts : (\E a \in Accounts : PutHost(h, a)) \/ DeleteHost(h)
  BY DEF HostStep, CreateHost, UpdateHost
<1>2. UNCHANGED <<pair, minted, keys, login, upload>>
  BY <1>1 DEF PutHost, DeleteHost
<1>3. \A g \in Hosts : home[g] \subseteq home'[g]
  BY <1>0, <1>1 DEF PutHost, DeleteHost
<1>4. TypeOK'
  BY <1>0, <1>1, <1>2 DEF PutHost, DeleteHost
<1>5. HomeCoversHosts'
  BY <1>0, <1>1 DEF PutHost, DeleteHost, HomeCoversHosts
<1>6. BusyLoginsDialTheirHost'
  BY <1>0, <1>2, <1>3 DEF BusyLoginsDialTheirHost, Busy
<1>7. UploadsHoldTheirKey' /\ UploadsFollowDials'
  BY <1>0, <1>2 DEF UploadsHoldTheirKey, UploadsFollowDials
<1>8. StoredKeyReachedItsHost'
  BY <1>0, <1>2, <1>3 DEF StoredKeyReachedItsHost
<1> QED BY <1>4, <1>5, <1>6, <1>7, <1>8 DEF IInv

LEMMA CrashIInv == IInv /\ Crash => IInv'
<1> SUFFICES ASSUME IInv, Crash PROVE IInv'
  OBVIOUS
<1>1. TypeOK'
  BY DEF IInv, Crash, TypeOK, LoginRecord, UploadRecord, LoginStates,
         UploadStates, Outcomes, IdleLogin, IdleUpload
<1>2. BusyLoginsDialTheirHost' /\ UploadsHoldTheirKey' /\ UploadsFollowDials'
  BY DEF Crash, BusyLoginsDialTheirHost, Busy, UploadsHoldTheirKey,
         UploadsFollowDials, IdleLogin, IdleUpload
<1>3. HomeCoversHosts' /\ StoredKeyReachedItsHost'
  BY DEF IInv, Crash, HomeCoversHosts, StoredKeyReachedItsHost
<1> QED BY <1>1, <1>2, <1>3 DEF IInv

LEMMA NextIInv == IInv /\ [Next]_vars => IInv'
<1> SUFFICES ASSUME IInv, [Next]_vars PROVE IInv'
  OBVIOUS
<1>1. CASE UNCHANGED vars
  BY <1>1 DEF vars, IInv, TypeOK, HomeCoversHosts, BusyLoginsDialTheirHost,
         Busy, UploadsHoldTheirKey, UploadsFollowDials, StoredKeyReachedItsHost
<1>2. CASE Next
  BY <1>2, ConnectIInv, UploadIInv, HostIInv, CrashIInv DEF Next
<1> QED BY <1>1, <1>2

THEOREM Inductive == Spec => []IInv
  BY InitIInv, NextIInv, PTL DEF Spec

(* Type correctness of the tables, the logins and their goroutines.         *)
THEOREM TypeCorrect == Spec => []TypeOK
<1>1. IInv => TypeOK
  BY DEF IInv
<1> QED BY <1>1, Inductive, PTL

(* A stored key has reached an account its host id has pointed at, whatever *)
(* the number of logins racing and whenever hosts are edited or the server  *)
(* crashes.                                                                 *)
THEOREM StoredKeySafe == Spec => []StoredKeyReachedItsHost
<1>1. IInv => StoredKeyReachedItsHost
  BY DEF IInv
<1> QED BY <1>1, Inductive, PTL

-----------------------------------------------------------------------------
(* Who holds or stores a key.                                               *)
Holds(c, k) ==
    \/ login[c].kp = k
    \/ upload[c].at \in {"session", "run", "save"} /\ upload[c].key = k

Claims(k, u, h) ==
    \/ pair[u][h] = k
    \/ \E c \in Logins : Holds(c, k) /\ login[c].user = u /\ login[c].host = h

(* Every key belongs to one user and one host, and has reached only accounts*)
(* that host has pointed at.                                                *)
KeysHaveOneOwner ==
    \A k \in Keys :
        /\ \A u, v \in Users, h, g \in Hosts :
              Claims(k, u, h) /\ Claims(k, v, g) => u = v /\ h = g
        /\ \A u \in Users, h \in Hosts :
              Claims(k, u, h) =>
                  k \in minted /\ (\A a \in Accounts : k \in keys[a] => a \in home[h])
        /\ \A a \in Accounts : k \in keys[a] => k \in minted

(* A goroutine installs the key its caller had read, if it had read one.    *)
CallersKeyIsUsed ==
    \A c \in Logins :
        /\ upload[c].at \in {"session", "run", "save"} =>
              login[c].kp \in {None, upload[c].key}
        /\ login[c].kp # None => login[c].user \in Users /\ login[c].host \in Hosts

OwnerInv == KeysHaveOneOwner /\ CallersKeyIsUsed

(* No step hands a key that is in use to another user or host: a claim is   *)
(* old, or it is one on a key that is new.                                  *)
ClaimsAreOld ==
    /\ minted \subseteq minted'
    /\ \A h \in Hosts : home[h] \subseteq home'[h]
    /\ \A k \in Keys, u \in Users, h \in Hosts : Claims(k, u, h)' => Claims(k, u, h)
    /\ \A k \in Keys, a \in Accounts :
          k \in keys'[a] =>
              \/ k \in keys[a]
              \/ \E u \in Users, h \in Hosts : Claims(k, u, h) /\ a \in home[h]

LEMMA OwnersStay ==
    ASSUME KeysHaveOneOwner, ClaimsAreOld
    PROVE  KeysHaveOneOwner'
<1> SUFFICES ASSUME NEW k \in Keys
             PROVE  /\ \A u, v \in Users, h, g \in Hosts :
                          Claims(k, u, h)' /\ Claims(k, v, g)' => u = v /\ h = g
                    /\ \A u \in Users, h \in Hosts :
                          Claims(k, u, h)' =>
                              /\ k \in minted'
                              /\ \A a \in Accounts : k \in keys'[a] => a \in home'[h]
                    /\ \A a \in Accounts : k \in keys'[a] => k \in minted'
  BY DEF KeysHaveOneOwner
<1>1. /\ \A u, v \in Users, h, g \in Hosts :
            Claims(k, u, h) /\ Claims(k, v, g) => u = v /\ h = g
      /\ \A u \in Users, h \in Hosts :
            Claims(k, u, h) =>
                k \in minted /\ (\A a \in Accounts : k \in keys[a] => a \in home[h])
      /\ \A a \in Accounts : k \in keys[a] => k \in minted
  BY DEF KeysHaveOneOwner
<1>2. /\ minted \subseteq minted'
      /\ \A h \in Hosts : home[h] \subseteq home'[h]
      /\ \A u \in Users, h \in Hosts : Claims(k, u, h)' => Claims(k, u, h)
      /\ \A a \in Accounts :
            k \in keys'[a] =>
                \/ k \in keys[a]
                \/ \E u \in Users, h \in Hosts : Claims(k, u, h) /\ a \in home[h]
  BY DEF ClaimsAreOld
<1> QED BY <1>1, <1>2

(* A step of one login that leaves keys and rows alone, and after which the *)
(* login holds no key but those it held, or the one stored for it.          *)
LEMMA OneLogin ==
    ASSUME NEW c \in Logins, UNCHANGED <<home, pair, keys>>, minted \subseteq minted',
           \A d \in Logins \ {c} : login'[d] = login[d] /\ upload'[d] = upload[d],
           \A k \in Keys : Holds(c, k)' =>
               /\ Holds(c, k) \/ k = Row(c)
               /\ login'[c].user = login[c].user /\ login'[c].host = login[c].host
    PROVE  ClaimsAreOld
<1>1. ASSUME NEW k \in Keys, NEW u \in Users, NEW h \in Hosts, Claims(k, u, h)'
      PROVE  Claims(k, u, h)
  <2>1. CASE pair'[u][h] = k
    BY <2>1 DEF Claims
  <2>2. CASE pair'[u][h] # k
    <3>1. PICK d \in Logins : Holds(d, k)' /\ login'[d].user = u /\ login'[d].host = h
      BY <1>1, <2>2 DEF Claims
    <3>2. CASE d = c
      BY <3>1, <3>2 DEF Claims, Row
    <3>3. CASE d # c
      BY <3>1, <3>3 DEF Claims, Holds
    <3> QED BY <3>2, <3>3
  <2> QED BY <2>1, <2>2
<1> QED BY <1>1 DEF ClaimsAreOld

(* The steps of connectTarget: the only key a login gains is the stored one.*)
LEMMA ConnectOwner ==
    ASSUME IInv, OwnerInv, NEW c \in Logins, ConnectStep(c)
    PROVE  OwnerInv'
<1> DEFINE Goal == /\ UNCHANGED <<home, pair, keys, minted>>
                   /\ \A d \in Logins \ {c} :
                         login'[d] = login[d] /\ upload'[d] = upload[d]
                   /\ \A k \in Keys : Holds(c, k)' =>
                         /\ Holds(c, k) \/ k = Row(c)
                         /\ login'[c].user = login[c].user
                         /\ login'[c].host = login[c].host
                   /\ upload'[c].at \in {"session", "run", "save"} =>
                         login'[c].kp \in {None, upload'[c].key}
                   /\ login'[c].kp # None =>
                         login'[c].user \in Users /\ login'[c].host \in Hosts
<1>0. /\ login \in [Logins -> LoginRecord]
      /\ upload \in [Logins -> UploadRecord]
      /\ BusyLoginsDialTheirHost /\ UploadsFollowDials
      /\ KeysHaveOneOwner /\ CallersKeyIsUsed
  BY DEF IInv, TypeOK, OwnerInv
<1>1. ASSUME NEW u \in Users, NEW h \in Hosts, NEW pw \in BOOLEAN,
             Call(c, u, h, pw)
      PROVE  Goal
  BY <1>0, <1>1 DEF Call, Holds, IdleUpload, LoginRecord, UploadRecord
<1>2. ASSUME LookupKey(c)
      PROVE  Goal
  BY <1>0, <1>2 DEF LookupKey, Holds, LoginRecord, UploadRecord,
     UploadsFollowDials, BusyLoginsDialTheirHost, Busy
<1>3. ASSUME LookupError(c) \/ NoCredentials(c)
      PROVE  Goal
  BY <1>0, <1>3 DEF LookupError, NoCredentials, Holds, LoginRecord, UploadRecord,
     UploadsFollowDials, IdleLogin
<1>4. ASSUME DialWithKey(c) \/ KeyDialFails(c)
      PROVE  Goal
  <2>1. /\ UNCHANGED <<home, pair, keys, minted, upload>>
        /\ \E s \in {"open", "passwordDial"} : login' = [login EXCEPT ![c].at = s]
    BY <1>4 DEF DialWithKey, KeyDialFails
  <2>2. /\ login'[c].kp = login[c].kp /\ login'[c].user = login[c].user
        /\ login'[c].host = login[c].host
        /\ \A d \in Logins \ {c} : login'[d] = login[d]
    BY <1>0, <2>1 DEF LoginRecord
  <2> QED BY <1>0, <2>1, <2>2 DEF Holds, CallersKeyIsUsed
<1>5. ASSUME DialWithPassword(c)
      PROVE  Goal
  BY <1>0, <1>5 DEF DialWithPassword, Holds, LoginRecord, UploadRecord,
     CallersKeyIsUsed
<1>6. ASSUME CallerReturns(c)
      PROVE  Goal
  BY <1>0, <1>6 DEF CallerReturns, Holds, LoginRecord, UploadRecord,
     CallersKeyIsUsed, IdleLogin, IdleUpload
<1>7. Goal
  BY <1>1, <1>2, <1>3, <1>4, <1>5, <1>6 DEF ConnectStep
<1>8. ClaimsAreOld
  BY <1>7, OneLogin
<1>9. KeysHaveOneOwner'
  BY <1>0, <1>8, OwnersStay
<1>10. CallersKeyIsUsed'
  BY <1>0, <1>7 DEF CallersKeyIsUsed
<1> QED BY <1>9, <1>10 DEF OwnerInv

-----------------------------------------------------------------------------
(* A key nobody holds or stores can be taken: it becomes its taker's.       *)
LEMMA FreshKey ==
    ASSUME IInv, KeysHaveOneOwner, NEW c \in Logins, NEW key \in Keys \ minted,
           UNCHANGED <<home, pair, keys, login>>, minted' = minted \cup {key},
           \A d \in Logins \ {c} : upload'[d] = upload[d],
           \A k \in Keys : Holds(c, k)' => Holds(c, k) \/ k = key
    PROVE  KeysHaveOneOwner'
<1> SUFFICES ASSUME NEW k \in Keys
             PROVE  /\ \A u, v \in Users, h, g \in Hosts :
                          Claims(k, u, h)' /\ Claims(k, v, g)' => u = v /\ h = g
                    /\ \A u \in Users, h \in Hosts :
                          Claims(k, u, h)' =>
                              /\ k \in minted'
                              /\ \A a \in Accounts : k \in keys'[a] => a \in home'[h]
                    /\ \A a \in Accounts : k \in keys'[a] => k \in minted'
  BY DEF KeysHaveOneOwner
<1>1. /\ \A u, v \in Users, h, g \in Hosts :
            Claims(k, u, h) /\ Claims(k, v, g) => u = v /\ h = g
      /\ \A u \in Users, h \in Hosts :
            Claims(k, u, h) =>
                k \in minted /\ (\A a \in Accounts : k \in keys[a] => a \in home[h])
      /\ \A a \in Accounts : k \in keys[a] => k \in minted
  BY DEF KeysHaveOneOwner
<1>2. ASSUME NEW u \in Users, NEW h \in Hosts, Claims(k, u, h)'
      PROVE  \/ Claims(k, u, h)
             \/ k = key /\ login[c].user = u /\ login[c].host = h
  <2>1. CASE pair'[u][h] = k
    BY <2>1 DEF Claims
  <2>2. CASE pair'[u][h] # k
    <3>1. PICK d \in Logins : Holds(d, k)' /\ login[d].user = u /\ login[d].host = h
      BY <1>2, <2>2 DEF Claims
    <3>2. CASE d = c
      BY <3>1, <3>2 DEF Claims
    <3>3. CASE d # c
      BY <3>1, <3>3 DEF Claims, Holds
    <3> QED BY <3>2, <3>3
  <2> QED BY <2>1, <2>2
<1>3. CASE k = key
  BY <1>1, <1>2, <1>3
<1>4. CASE k # key
  BY <1>1, <1>2, <1>4
<1> QED BY <1>3, <1>4

(* The goroutine's steps: a key it installs or saves is one it holds.       *)
LEMMA UploadOwner ==
    ASSUME IInv, OwnerInv, NEW c \in Logins, UploadStep(c)
    PROVE  OwnerInv'
<1>0. /\ login \in [Logins -> LoginRecord]
      /\ upload \in [Logins -> UploadRecord]
      /\ keys \in [Accounts -> SUBSET Keys]
      /\ pair \in [Users -> [Hosts -> Keys \cup {None}]]
      /\ BusyLoginsDialTheirHost /\ UploadsHoldTheirKey
      /\ KeysHaveOneOwner /\ CallersKeyIsUsed
  BY DEF IInv, TypeOK, OwnerInv
<1>1. /\ UNCHANGED <<home, login>>
      /\ upload[c].at # "idle"
      /\ \A d \in Logins \ {c} : upload'[d] = upload[d]
  BY <1>0 DEF UploadStep, FindsRow, ChoosesKey, OpensSession, SessionRefused,
         ScriptSucceeds, ScriptFails, SavesKey, SaveFails
<1>2. /\ login[c].user \in Users /\ login[c].host \in Hosts
      /\ login[c].acct \in Accounts /\ login[c].acct \in home[login[c].host]
  BY <1>0, <1>1 DEF BusyLoginsDialTheirHost, Busy
<1> DEFINE Kept == \A k \in Keys : Holds(c, k)' => Holds(c, k)
           Used == upload'[c].at \in {"session", "run", "save"} =>
                      login[c].kp \in {None, upload'[c].key}
<1>3. ASSUME FindsRow(c) \/ SaveFails(c) \/ OpensSession(c) \/ SessionRefused(c)
      PROVE  KeysHaveOneOwner' /\ Used
  <2>1. UNCHANGED <<home, pair, keys, minted, login>>
    BY <1>3 DEF FindsRow, SaveFails, OpensSession, SessionRefused
  <2>2. Kept /\ Used
    BY <1>0, <1>3, <2>1 DEF FindsRow, SaveFails, OpensSession, SessionRefused,
       Holds, UploadRecord, IdleUpload, CallersKeyIsUsed
  <2>3. ClaimsAreOld
    BY <1>1, <2>1, <2>2, OneLogin
  <2> QED BY <1>0, <2>2, <2>3, OwnersStay
<1>4. ASSUME ChoosesKey(c)
      PROVE  KeysHaveOneOwner' /\ Used
  <2>1. PICK k \in Choice(c) :
          /\ upload' = [upload EXCEPT ![c].at = "session", ![c].key = k]
          /\ minted' = minted \cup {k}
    BY <1>4 DEF ChoosesKey
  <2>2. UNCHANGED <<home, pair, keys, login>>
    BY <1>4 DEF ChoosesKey
  <2>3. Used
    BY <1>0, <2>1 DEF Choice, UploadRecord
  <2>4. CASE login[c].kp = None
    <3>1. k \in Keys \ minted
      BY <2>1, <2>4 DEF Choice
    <3>2. \A j \in Keys : Holds(c, j)' => Holds(c, j) \/ j = k
      BY <1>0, <2>1, <2>2 DEF Holds, UploadRecord
    <3>3. KeysHaveOneOwner'
      BY <1>0, <1>1, <2>1, <2>2, <3>1, <3>2, FreshKey
    <3> QED BY <2>3, <3>3
  <2>5. CASE login[c].kp # None
    <3>1. k = login[c].kp
      BY <2>1, <2>5 DEF Choice
    <3>2. Kept
      BY <1>0, <2>1, <2>2, <3>1 DEF Holds, UploadRecord
    <3>3. ClaimsAreOld
      BY <1>1, <2>1, <2>2, <3>2, OneLogin
    <3> QED BY <1>0, <2>3, <3>3, OwnersStay
  <2> QED BY <2>4, <2>5
<1>5. ASSUME ScriptSucceeds(c) \/ ScriptFails(c)
      PROVE  KeysHaveOneOwner' /\ Used
  <2>1. /\ UNCHANGED <<home, pair, minted, login>>
        /\ upload[c].at = "run"
        /\ keys' \in {keys, Installed(c)}
    BY <1>5 DEF ScriptSucceeds, ScriptFails
  <2>2. Kept /\ Used
    BY <1>0, <1>5, <2>1 DEF ScriptSucceeds, ScriptFails,
       Holds, UploadRecord, IdleUpload, CallersKeyIsUsed
  <2>3. \A k \in Keys, u \in Users, h \in Hosts : Claims(k, u, h)' => Claims(k, u, h)
    BY <1>1, <2>1, <2>2 DEF Claims, Holds
  <2>4. \A k \in Keys, a \in Accounts :
          k \in keys'[a] => k \in keys[a] \/ (k = upload[c].key /\ a = login[c].acct)
    BY <1>0, <1>2, <2>1 DEF Installed
  <2>5. Holds(c, upload[c].key) /\ Claims(upload[c].key, login[c].user, login[c].host)
    BY <2>1 DEF Holds, Claims
  <2>6. ClaimsAreOld
    BY <1>2, <2>1, <2>3, <2>4, <2>5 DEF ClaimsAreOld
  <2> QED BY <1>0, <2>2, <2>6, OwnersStay
<1>6. ASSUME SavesKey(c)
      PROVE  KeysHaveOneOwner' /\ Used
  <2>1. /\ UNCHANGED <<home, keys, minted, login>>
        /\ upload[c].at = "save"
        /\ pair' = [pair EXCEPT ![login[c].user][login[c].host] = upload[c].key]
        /\ upload' = [upload EXCEPT ![c].at = "done", ![c].outcome = "uploaded"]
    BY <1>6 DEF SavesKey
  <2>2. Kept /\ Used
    BY <1>0, <2>1 DEF Holds, UploadRecord
  <2>3. Claims(upload[c].key, login[c].user, login[c].host)
    BY <2>1 DEF Holds, Claims
  <2>4. \A u \in Users, h \in Hosts :
          \/ pair'[u][h] = pair[u][h]
          \/ u = login[c].user /\ h = login[c].host /\ pair'[u][h] = upload[c].key
    BY <1>0, <1>2, <2>1
  <2>5. ASSUME NEW k \in Keys, NEW u \in Users, NEW h \in Hosts, Claims(k, u, h)'
        PROVE  Claims(k, u, h)
    <3>1. CASE pair'[u][h] = k
      BY <2>3, <2>4, <3>1 DEF Claims
    <3>2. CASE pair'[u][h] # k
      <4>1. PICK d \in Logins : Holds(d, k)' /\ login[d].user = u /\ login[d].host = h
        BY <2>1, <2>5, <3>2 DEF Claims
      <4>2. Holds(d, k)
        BY <1>1, <2>2, <4>1 DEF Holds
      <4> QED BY <4>1, <4>2 DEF Claims
    <3> QED BY <3>1, <3>2
  <2>6. ClaimsAreOld
    BY <2>1, <2>5 DEF ClaimsAreOld
  <2> QED BY <1>0, <2>2, <2>6, OwnersStay
<1>7. KeysHaveOneOwner' /\ Used
  BY <1>3, <1>4, <1>5, <1>6 DEF UploadStep
<1>8. CallersKeyIsUsed'
  BY <1>0, <1>1, <1>7 DEF CallersKeyIsUsed
<1> QED BY <1>7, <1>8 DEF OwnerInv

-----------------------------------------------------------------------------
(* Host edits add to home only; a crash takes claims away.                  *)
LEMMA HostOwner == IInv /\ OwnerInv /\ HostStep => OwnerInv'
<1> SUFFICES ASSUME IInv, OwnerInv, HostStep PROVE OwnerInv'
  OBVIOUS
<1>0. TypeOK /\ KeysHaveOneOwner /\ CallersKeyIsUsed
  BY DEF IInv, OwnerInv
<1>1. PICK h \in Hosts : (\E a \in Accounts : PutHost(h, a)) \/ DeleteHost(h)
  BY DEF HostStep, CreateHost, UpdateHost
<1>2. UNCHANGED <<pair, minted, keys, login, upload>>
  BY <1>1 DEF PutHost, DeleteHost
<1>3. \A g \in Hosts : home[g] \subseteq home'[g]
  BY <1>0, <1>1 DEF PutHost, DeleteHost, TypeOK
<1>4. ClaimsAreOld
  BY <1>2, <1>3 DEF ClaimsAreOld, Claims, Holds
<1>5. CallersKeyIsUsed'
  BY <1>0, <1>2 DEF CallersKeyIsUsed
<1> QED BY <1>0, <1>4, <1>5, OwnersStay DEF OwnerInv

LEMMA CrashOwner == IInv /\ OwnerInv /\ Crash => OwnerInv'
<1> SUFFICES ASSUME IInv, OwnerInv, Crash PROVE OwnerInv'
  OBVIOUS
<1>1. /\ UNCHANGED <<home, pair, minted, keys>>
      /\ \A c \in Logins : login'[c] = IdleLogin /\ upload'[c] = IdleUpload
  BY DEF Crash
<1>2. \A c \in Logins, k \in Keys : ~ Holds(c, k)'
  BY <1>1 DEF Holds, IdleLogin, IdleUpload
<1>3. ClaimsAreOld
  BY <1>1, <1>2 DEF ClaimsAreOld, Claims
<1>4. CallersKeyIsUsed'
  BY <1>1 DEF CallersKeyIsUsed, IdleLogin, IdleUpload
<1> QED BY <1>3, <1>4, OwnersStay DEF OwnerInv

LEMMA InitOwner == Init => OwnerInv
<1> SUFFICES ASSUME Init PROVE OwnerInv
  OBVIOUS
<1>1. \A c \in Logins, k \in Keys : ~ Holds(c, k)
  BY DEF Init, Holds, IdleLogin, IdleUpload
<1>2. \A k \in Keys, u \in Users, h \in Hosts : ~ Claims(k, u, h)
  BY <1>1 DEF Init, Claims
<1>3. KeysHaveOneOwner
  BY <1>2 DEF Init, KeysHaveOneOwner
<1>4. CallersKeyIsUsed
  BY DEF Init, CallersKeyIsUsed, IdleLogin, IdleUpload
<1> QED BY <1>3, <1>4 DEF OwnerInv

LEMMA NextOwner == IInv /\ OwnerInv /\ [Next]_vars => OwnerInv'
<1> SUFFICES ASSUME IInv, OwnerInv, [Next]_vars PROVE OwnerInv'
  OBVIOUS
<1>1. CASE UNCHANGED vars
  BY <1>1 DEF vars, OwnerInv, KeysHaveOneOwner, CallersKeyIsUsed, Claims, Holds
<1>2. CASE Next
  BY <1>2, ConnectOwner, UploadOwner, HostOwner, CrashOwner DEF Next
<1> QED BY <1>1, <1>2

(* Keys keep their owner: two users, two hosts or two logins never share    *)
(* one, and no key reaches an account its owner's host has not pointed at.  *)
THEOREM OwnersAreInductive == Spec => []OwnerInv
  BY InitOwner, NextOwner, Inductive, PTL DEF Spec

(* A stored key is never spread to a target its host has not pointed at,    *)
(* and no two rows hold the same key.                                       *)
THEOREM StoredKeysStayHome == Spec => []StoredKeyStaysWithItsHost
<1>1. IInv /\ OwnerInv => StoredKeyStaysWithItsHost
  <2> SUFFICES ASSUME IInv, OwnerInv, NEW u \in Users, NEW h \in Hosts,
                      pair[u][h] # None
               PROVE  /\ \A a \in Accounts : pair[u][h] \in keys[a] => a \in home[h]
                      /\ \A v \in Users, g \in Hosts :
                            pair[v][g] = pair[u][h] => v = u /\ g = h
    BY DEF StoredKeyStaysWithItsHost
  <2>1. pair[u][h] \in Keys
    BY DEF IInv, TypeOK
  <2>2. \A v \in Users, g \in Hosts :
          pair[v][g] = pair[u][h] => Claims(pair[u][h], v, g)
    BY DEF Claims
  <2> QED BY <2>1, <2>2 DEF OwnerInv, KeysHaveOneOwner
<1> QED BY <1>1, Inductive, OwnersAreInductive, PTL

(* Only SavesKey changes a row, and a goroutine whose caller had read a key *)
(* holds that key.                                                          *)
THEOREM StoredKeysAreFinal == Spec => OnlyRacersReplaceStoredKey
<1> DEFINE Replaced ==
      \A u \in Users, h \in Hosts :
          (pair[u][h] # None /\ pair'[u][h] # pair[u][h]) =>
              \E c \in Logins :
                  /\ login[c].user = u /\ login[c].host = h
                  /\ upload[c].key = pair'[u][h]
                  /\ login[c].kp \in {None, pair'[u][h]}
<1>1. IInv /\ OwnerInv /\ [Next]_vars => [Replaced]_vars
  <2> SUFFICES ASSUME IInv, OwnerInv, Next, NEW u \in Users, NEW h \in Hosts,
                      pair'[u][h] # pair[u][h]
               PROVE  \E c \in Logins :
                          /\ login[c].user = u /\ login[c].host = h
                          /\ upload[c].key = pair'[u][h]
                          /\ login[c].kp \in {None, pair'[u][h]}
    OBVIOUS
  <2>1. PICK c \in Logins : SavesKey(c)
    BY DEF Next, ConnectStep, UploadStep, HostStep, Crash, Call, LookupKey,
       LookupError, DialWithKey, KeyDialFails, DialWithPassword, NoCredentials,
       CallerReturns, FindsRow, ChoosesKey, OpensSession, SessionRefused,
       ScriptSucceeds, ScriptFails, SaveFails, CreateHost, UpdateHost, PutHost,
       DeleteHost
  <2>2. /\ upload[c].at = "save"
        /\ pair' = [pair EXCEPT ![login[c].user][login[c].host] = upload[c].key]
    BY <2>1 DEF SavesKey
  <2>3. login[c].user = u /\ login[c].host = h /\ pair'[u][h] = upload[c].key
    BY <2>2 DEF IInv, TypeOK
  <2>4. login[c].kp \in {None, upload[c].key}
    BY <2>2 DEF OwnerInv, CallersKeyIsUsed
  <2> QED BY <2>3, <2>4
<1>2. Spec => [][Replaced]_vars
  BY <1>1, Inductive, OwnersAreInductive, PTL DEF Spec
<1> QED BY <1>2 DEF OnlyRacersReplaceStoredKey

-----------------------------------------------------------------------------
(* A goroutine that found a row, or uploaded with a database that works,    *)
(* leaves a row behind, and nothing deletes one.                            *)
EndedUploadsHaveARow ==
    \A c \in Logins : upload[c].outcome # "none" =>
        /\ upload[c].at = "done"
        /\ upload[c].outcome = "present" \/ ~StoreMayFail => Row(c) # None

(* A login whose goroutine has not ended, or has just been forgotten, claims *)
(* nothing; the others keep their rows.                                     *)
LEMMA ConnectEnded ==
    ASSUME IInv, EndedUploadsHaveARow, NEW c \in Logins, ConnectStep(c)
    PROVE  EndedUploadsHaveARow'
<1>0. /\ login \in [Logins -> LoginRecord]
      /\ upload \in [Logins -> UploadRecord]
      /\ UploadsFollowDials
  BY DEF IInv, TypeOK
<1>1. /\ pair' = pair
      /\ \A d \in Logins \ {c} : login'[d] = login[d] /\ upload'[d] = upload[d]
  BY <1>0 DEF ConnectStep, Call, LookupKey, LookupError, DialWithKey, KeyDialFails,
     DialWithPassword, NoCredentials, CallerReturns
<1>2. \/ upload'[c].outcome = "none"
      \/ /\ upload'[c] = upload[c]
         /\ login'[c].user = login[c].user /\ login'[c].host = login[c].host
  <2>1. CASE \E u \in Users, h \in Hosts, pw \in BOOLEAN : Call(c, u, h, pw)
    BY <1>0, <2>1 DEF Call, IdleUpload
  <2>2. CASE LookupKey(c) \/ DialWithKey(c) \/ KeyDialFails(c)
    BY <1>0, <2>2 DEF LookupKey, DialWithKey, KeyDialFails, LoginRecord
  <2>3. CASE LookupError(c) \/ NoCredentials(c) \/ DialWithPassword(c)
    <3>1. upload[c].at = "idle"
      BY <1>0, <2>3 DEF LookupError, NoCredentials, DialWithPassword, UploadsFollowDials
    <3>2. upload[c].outcome = "none"
      BY <3>1 DEF EndedUploadsHaveARow
    <3> QED BY <1>0, <2>3, <3>2 DEF LookupError, NoCredentials, DialWithPassword, UploadRecord
  <2>4. CASE CallerReturns(c)
    BY <1>0, <2>4 DEF CallerReturns, EndedUploadsHaveARow, IdleUpload, LoginRecord, UploadRecord
  <2> QED BY <2>1, <2>2, <2>3, <2>4 DEF ConnectStep
<1> QED BY <1>1, <1>2 DEF EndedUploadsHaveARow, Row

LEMMA UploadEnded ==
    ASSUME IInv, EndedUploadsHaveARow, NEW c \in Logins, UploadStep(c)
    PROVE  EndedUploadsHaveARow'
<1>0. /\ login \in [Logins -> LoginRecord]
      /\ upload \in [Logins -> UploadRecord]
      /\ pair \in [Users -> [Hosts -> Keys \cup {None}]]
      /\ UploadsHoldTheirKey
  BY DEF IInv, TypeOK
<1>1. /\ login' = login
      /\ upload[c].at # "idle"
      /\ \A d \in Logins \ {c} : upload'[d] = upload[d]
  BY <1>0 DEF UploadStep, FindsRow, ChoosesKey, OpensSession, SessionRefused,
         ScriptSucceeds, ScriptFails, SavesKey, SaveFails
<1>2. login[c].user \in Users /\ login[c].host \in Hosts
  BY <1>1 DEF IInv, BusyLoginsDialTheirHost, Busy
<1>3. \A u \in Users, h \in Hosts : pair[u][h] # None => pair'[u][h] # None
  <2>1. CASE SavesKey(c)
    <3>1. upload[c].key \in Keys
      BY <1>0, <2>1 DEF SavesKey, UploadsHoldTheirKey
    <3> QED BY <1>0, <1>2, <2>1, <3>1 DEF SavesKey
  <2>2. CASE ~ SavesKey(c)
    BY <2>2 DEF UploadStep, FindsRow, ChoosesKey, OpensSession, SessionRefused,
         ScriptSucceeds, ScriptFails, SaveFails
  <2> QED BY <2>1, <2>2
<1>4. \/ upload'[c].outcome = "none"
      \/ /\ upload'[c].at = "done"
         /\ upload'[c].outcome = "present" \/ ~StoreMayFail => Row(c)' # None
  <2>1. upload[c].at # "done" => upload[c].outcome = "none"
    BY DEF EndedUploadsHaveARow
  <2>2. CASE FindsRow(c)
    BY <1>0, <1>1, <2>2 DEF FindsRow, Row
  <2>3. CASE SavesKey(c)
    <3>1. upload[c].key \in Keys
      BY <1>0, <2>3 DEF SavesKey, UploadsHoldTheirKey
    <3> QED BY <1>0, <1>1, <1>2, <2>3, <3>1 DEF SavesKey, Row
  <2>4. CASE SaveFails(c)
    BY <1>0, <2>4 DEF SaveFails, UploadRecord
  <2>5. CASE ChoosesKey(c) \/ OpensSession(c) \/ SessionRefused(c)
             \/ ScriptSucceeds(c) \/ ScriptFails(c)
    BY <1>0, <2>1, <2>5 DEF ChoosesKey, OpensSession, SessionRefused,
       ScriptSucceeds, ScriptFails, UploadRecord, IdleUpload
  <2> QED BY <2>2, <2>3, <2>4, <2>5 DEF UploadStep
<1>5. ASSUME NEW d \in Logins \ {c}, upload'[d].outcome # "none"
      PROVE  /\ upload'[d].at = "done"
             /\ upload'[d].outcome = "present" \/ ~StoreMayFail => Row(d)' # None
  <2>1. login[d].user \in Users /\ login[d].host \in Hosts
    BY <1>1, <1>5 DEF EndedUploadsHaveARow, IInv, BusyLoginsDialTheirHost, Busy
  <2> QED BY <1>1, <1>3, <1>5, <2>1 DEF EndedUploadsHaveARow, Row
<1> QED BY <1>4, <1>5 DEF EndedUploadsHaveARow

LEMMA NextEnded == IInv /\ EndedUploadsHaveARow /\ [Next]_vars => EndedUploadsHaveARow'
<1> SUFFICES ASSUME IInv, EndedUploadsHaveARow, [Next]_vars
             PROVE  EndedUploadsHaveARow'
  OBVIOUS
<1>1. CASE UNCHANGED vars \/ HostStep
  BY <1>1 DEF vars, HostStep, CreateHost, UpdateHost, PutHost, DeleteHost,
     EndedUploadsHaveARow, Row
<1>2. CASE Crash
  BY <1>2 DEF Crash, IdleUpload, EndedUploadsHaveARow
<1> QED BY <1>1, <1>2, ConnectEnded, UploadEnded DEF Next

(* A host that was never edited accepts the key stored for whoever logged   *)
(* in to it with a password, when nothing failed: what the advice "login    *)
(* via web UI with password first" (server.go:379) is worth.                *)
THEOREM UneditedHostsProvisioned == Spec => []UneditedHostsAreProvisioned
<1>1. Init => EndedUploadsHaveARow
  BY DEF Init, EndedUploadsHaveARow, IdleUpload
<1>2. IInv /\ EndedUploadsHaveARow => UneditedHostsAreProvisioned
  <2> SUFFICES ASSUME IInv, EndedUploadsHaveARow, NEW c \in Logins,
                      upload[c].outcome = "present" \/ ~StoreMayFail,
                      upload[c].outcome # "none",
                      home[login[c].host] = {login[c].acct}
               PROVE  Row(c) \in keys[login[c].acct]
    BY DEF UneditedHostsAreProvisioned
  <2>1. upload[c].at = "done" /\ Row(c) # None
    BY DEF EndedUploadsHaveARow
  <2>2. login[c].user \in Users /\ login[c].host \in Hosts
    BY <2>1 DEF IInv, BusyLoginsDialTheirHost, Busy
  <2> QED BY <2>1, <2>2 DEF IInv, StoredKeyReachedItsHost, Row
<1> QED BY <1>1, <1>2, NextEnded, Inductive, PTL DEF Spec

-----------------------------------------------------------------------------
(* A key that a row or a login claims belongs to its claimant.              *)
LEMMA ClaimantOwns ==
    ASSUME KeysHaveOneOwner, NEW k \in Keys, NEW u \in Users, NEW h \in Hosts,
           Claims(k, u, h)
    PROVE  Custody!Belongs(k, u, h)
<1>1. \A v \in Users, g \in Hosts : pair[v][g] = k => v = u /\ g = h
  <2>1. \A v \in Users, g \in Hosts : pair[v][g] = k => Claims(k, v, g)
    BY DEF Claims
  <2> QED BY <2>1 DEF KeysHaveOneOwner
<1>2. \A a \in Accounts : k \in keys[a] => a \in home[h]
  BY DEF KeysHaveOneOwner
<1> QED BY <1>1, <1>2 DEF Custody!Belongs

(* A goroutine's step installs its key on its caller's account, stores it   *)
(* in its caller's row, or touches neither.                                 *)
LEMMA UploadCustody ==
    ASSUME IInv, OwnerInv, NEW c \in Logins, UploadStep(c)
    PROVE  [Custody!Next]_Custody!vars
<1>0. /\ UploadsHoldTheirKey /\ KeysHaveOneOwner
      /\ upload[c].at # "idle"
  BY DEF IInv, OwnerInv, UploadStep, FindsRow, ChoosesKey, OpensSession,
         SessionRefused, ScriptSucceeds, ScriptFails, SavesKey, SaveFails
<1>1. /\ login[c].user \in Users /\ login[c].host \in Hosts
      /\ login[c].acct \in Accounts /\ login[c].acct \in home[login[c].host]
  BY <1>0 DEF IInv, BusyLoginsDialTheirHost, Busy
<1>2. CASE FindsRow(c) \/ ChoosesKey(c) \/ OpensSession(c) \/ SessionRefused(c)
           \/ SaveFails(c)
  <2>1. UNCHANGED <<home, keys, pair>>
    BY <1>2 DEF FindsRow, ChoosesKey, OpensSession, SessionRefused, SaveFails
  <2> QED BY <2>1 DEF Custody!vars
<1>3. CASE upload[c].at \in {"run", "save"}
  <2>1. upload[c].key \in Keys
    BY <1>0, <1>3 DEF UploadsHoldTheirKey
  <2>2. Custody!Belongs(upload[c].key, login[c].user, login[c].host)
    <3>1. Claims(upload[c].key, login[c].user, login[c].host)
      BY <1>3 DEF Claims, Holds
    <3> QED BY <1>0, <1>1, <2>1, <3>1, ClaimantOwns
  <2>3. CASE ScriptSucceeds(c) \/ ScriptFails(c)
    <3>1. UNCHANGED <<home, pair>> /\ keys' \in {keys, Installed(c)}
      BY <2>3 DEF ScriptSucceeds, ScriptFails
    <3>2. CASE keys' = keys
      BY <3>1, <3>2 DEF Custody!vars
    <3>3. CASE keys' = Installed(c)
      <4>1. Custody!Install(upload[c].key, login[c].user, login[c].host, login[c].acct)
        BY <1>1, <2>2, <3>1, <3>3 DEF Custody!Install, Installed
      <4> QED BY <1>1, <2>1, <4>1 DEF Custody!Next
    <3> QED BY <3>1, <3>2, <3>3
  <2>4. CASE SavesKey(c)
    <3>1. /\ upload[c].key \in keys[login[c].acct]
          /\ pair' = [pair EXCEPT ![login[c].user][login[c].host] = upload[c].key]
          /\ UNCHANGED <<home, keys>>
      BY <1>0, <2>4 DEF SavesKey, UploadsHoldTheirKey
    <3>2. Custody!Store(upload[c].key, login[c].user, login[c].host)
      BY <1>1, <2>2, <3>1 DEF Custody!Store
    <3> QED BY <1>1, <2>1, <3>2 DEF Custody!Next
  <2> QED BY <1>2, <1>3, <2>3, <2>4 DEF UploadStep
<1>4. upload[c].at \in {"run", "save"}
      \/ FindsRow(c) \/ ChoosesKey(c) \/ OpensSession(c) \/ SessionRefused(c)
  BY DEF UploadStep, ScriptSucceeds, ScriptFails, SavesKey, SaveFails
<1> QED BY <1>2, <1>3, <1>4

LEMMA StepCustody == IInv /\ OwnerInv /\ [Next]_vars => [Custody!Next]_Custody!vars
<1> SUFFICES ASSUME IInv, OwnerInv, [Next]_vars PROVE [Custody!Next]_Custody!vars
  OBVIOUS
<1>1. CASE UNCHANGED vars
  BY <1>1 DEF vars, Custody!vars
<1>2. CASE Crash \/ \E c \in Logins : ConnectStep(c)
  <2>1. UNCHANGED <<home, keys, pair>>
    BY <1>2 DEF Crash, ConnectStep, Call, LookupKey, LookupError, DialWithKey,
       KeyDialFails, DialWithPassword, NoCredentials, CallerReturns
  <2> QED BY <2>1 DEF Custody!vars
<1>3. CASE HostStep
  <2>1. PICK h \in Hosts : (\E a \in Accounts : PutHost(h, a)) \/ DeleteHost(h)
    BY <1>3 DEF HostStep, CreateHost, UpdateHost
  <2>2. CASE DeleteHost(h)
    BY <2>2 DEF DeleteHost, Custody!vars
  <2>3. ASSUME NEW a \in Accounts, PutHost(h, a) PROVE Custody!Next
    BY <2>3 DEF PutHost, Custody!Move, Custody!Next
  <2> QED BY <2>1, <2>2, <2>3
<1>4. CASE \E c \in Logins : UploadStep(c)
  BY <1>4, UploadCustody
<1> QED BY <1>1, <1>2, <1>3, <1>4 DEF Next

(* Logins that race, hosts that are edited and servers that crash keep what *)
(* KeyCustody promises of the stored keys, for any number of them.          *)
THEOREM CustodyRefined == Spec => CustodyIsKept
<1>1. Init => Custody!Init
  BY DEF Init, Custody!Init
<1>2. Spec => Custody!Init /\ [][Custody!Next]_Custody!vars
  BY <1>1, StepCustody, Inductive, OwnersAreInductive, PTL DEF Spec
<1> QED BY <1>2 DEF CustodyIsKept, Custody!Spec
=============================================================================
