------------------------------ MODULE Sessions ------------------------------
(***************************************************************************)
(* The life of a terminal and what is recorded about it: the bastion's     *)
(* shell requests (Server.handleSession, startSession, proxyShell in       *)
(* internal/bastion/server.go), the web terminals (Handler.ServeHTTP in    *)
(* internal/webssh/handler.go), the sessions table and the audit log they  *)
(* write (internal/store/store.go, internal/audit/audit.go), and the stop  *)
(* of the process under them (cmd/server/serve.go).                        *)
(*                                                                         *)
(* A handler is one request; every database statement, dial and wait is a  *)
(* step of its own, so that host edits, other handlers and the stop of the *)
(* server fall between any two of them.                                    *)
(***************************************************************************)
EXTENDS Sequences

CONSTANTS
    Shells,         \* shell requests on the SSH bastion
    Webs,           \* web terminals
    StoreMayFail,   \* whether a statement on an open database may fail
    MayStop         \* whether the server process may be stopped or crash

ASSUME KindsAreDisjoint == Shells \cap Webs = {}
ASSUME FlagsAreBoolean == StoreMayFail \in BOOLEAN /\ MayStop \in BOOLEAN

Handlers == Shells \cup Webs

VARIABLES
    server,     \* phase of runServe
    host,       \* the target's row in table hosts
    at,         \* where each handler stands
    todo,       \* what a handler that is finishing still has to do
    row,        \* table sessions
    audit,      \* table audit_logs: (handler, event) pairs
    target,     \* external: the shell on the target, as its channel shows it
    missed      \* history: handlers one of whose statements failed

vars == <<server, host, at, todo, row, audit, target, missed>>

-----------------------------------------------------------------------------
Phases == {"up", "draining", "closed", "down"}
Stages == {"new", "create", "connect", "channel", "start", "shell", "running",
           "finishing", "gone", "killed"}
Events == {"start", "end", "connect_failed"}

(* From the accepted request to the end of the proxying.                    *)
LiveStages == {"create", "connect", "channel", "start", "shell", "running"}

TypeOK ==
    /\ server \in Phases
    /\ host \in {"enabled", "disabled", "deleted"}
    /\ at \in [Handlers -> Stages]
    /\ todo \in [Handlers -> Seq(Events \cup {"close"})]
    /\ row \in [Handlers -> {"absent", "active", "closed"}]
    /\ audit \in SUBSET (Handlers \X Events)
    /\ target \in [Handlers -> {"none", "open", "over"}]
    /\ missed \in SUBSET Handlers

Init ==
    /\ server = "up"
    /\ host \in {"enabled", "disabled"}
    /\ at = [h \in Handlers |-> "new"]
    /\ todo = [h \in Handlers |-> <<>>]
    /\ row = [h \in Handlers |-> "absent"]
    /\ audit = {}
    /\ target = [h \in Handlers |-> "none"]
    /\ missed = {}

-----------------------------------------------------------------------------
(* Statements on the database.  Handlers drop every error of one: a failed  *)
(* statement changes nothing but the history.                               *)
StoreIsOpen == server \in {"up", "draining"}

Succeeds(h) == StoreIsOpen /\ UNCHANGED missed
Fails(h) == (StoreMayFail \/ ~StoreIsOpen) /\ missed' = missed \cup {h}

(* CreateSession inserts the row as active.                                 *)
InsertRow(h) ==
    \/ Succeeds(h) /\ row' = [row EXCEPT ![h] = "active"]
    \/ Fails(h) /\ UNCHANGED row

(* Mutants: the statement has no WHERE clause; it writes another status.    *)
CloseEveryRow(h) ==
    \/ /\ Succeeds(h)
       /\ row' = [g \in Handlers |->
                     IF row[g] = "active" THEN "closed" ELSE row[g]]
    \/ Fails(h) /\ UNCHANGED row

EndRow(h) ==
    \/ Succeeds(h) /\ row' = [row EXCEPT ![h] = "ended"]
    \/ Fails(h) /\ UNCHANGED row

(* CloseSession updates by id; without a row it changes nothing, and the    *)
(* bastion, which has no id then, does not ask for it.                      *)
CloseRow(h) ==
    \/ /\ Succeeds(h)
       /\ row' = [row EXCEPT ![h] = IF @ = "active" THEN "closed" ELSE @]
    \/ Fails(h) /\ UNCHANGED row

(* audit.Logger.Log                                                         *)
WriteAudit(h, event) ==
    \/ Succeeds(h) /\ audit' = audit \cup {<<h, event>>}
    \/ Fails(h) /\ UNCHANGED audit

-----------------------------------------------------------------------------
(* How a handler leaves: the steps it still runs before it returns.         *)
Goto(h, stage) == at' = [at EXCEPT ![h] = stage] /\ UNCHANGED todo

Leave(h, steps) ==
    /\ at' = [at EXCEPT ![h] = "finishing"]
    /\ todo' = [todo EXCEPT ![h] = steps]

(* Mutant: the bastion returns without closing the row.                     *)
ForgetsRow(h) == IF h \in Shells THEN <<"connect_failed">> ELSE <<"close">>

AfterConnectFailure(h) ==
    IF h \in Shells THEN <<"connect_failed", "close">> ELSE <<"close">>

(* client.NewSession() is refused.  proxyShell returns to handleSession,    *)
(* which closes the row; ServeHTTP returns at once.                         *)
AfterChannelFailure(h) == IF h \in Shells THEN <<"close">> ELSE <<>>

(* The shell request is refused, after session_start was audited.           *)
AfterShellFailure == <<"close">>

(* Mutants: the web terminal does not audit its end; it does not close.     *)
WebEndUnaudited(h) == IF h \in Shells THEN <<"end", "close">> ELSE <<"close">>
WebEndUnclosed(h) == IF h \in Shells THEN <<"end", "close">> ELSE <<"end">>

(* The terminal ended: the bastion audits, then closes; the web terminal    *)
(* closes, then audits.                                                     *)
AfterTerminal(h) ==
    IF h \in Shells THEN <<"end", "close">> ELSE <<"close", "end">>

-----------------------------------------------------------------------------
(* resolveTarget ignores whether the host is enabled, ServeHTTP does not.   *)
(* The SSH listener accepts until the process ends, the HTTP listener until *)
(* Shutdown.                                                                *)
Resolve(h) ==
    /\ at[h] = "new"
    /\ \/ h \in Shells /\ StoreIsOpen /\ host # "deleted"
       \/ h \in Webs /\ server = "up" /\ host = "enabled"
    /\ Goto(h, "create")
    /\ UNCHANGED <<server, host, row, audit, target, missed>>

Create(h) ==
    /\ at[h] = "create"
    /\ InsertRow(h)
    /\ Goto(h, "connect")
    /\ UNCHANGED <<server, host, audit, target>>

(* connectTarget (module KeyProvisioning) returns a client or an error.     *)
Connect(h) ==
    /\ at[h] = "connect"
    /\ Goto(h, "channel") \/ Leave(h, AfterConnectFailure(h))
    /\ UNCHANGED <<server, host, row, audit, target, missed>>

OpenChannel(h) ==
    /\ at[h] = "channel"
    /\ \/ Goto(h, IF h \in Shells THEN "start" ELSE "shell")
       \/ Leave(h, AfterChannelFailure(h))
    /\ UNCHANGED <<server, host, row, audit, target, missed>>

(* The bastion audits session_start and then asks for the shell; the web    *)
(* terminal asks first and audits web_session_start whatever the answer.    *)
Start(h) ==
    /\ at[h] = "start"
    /\ WriteAudit(h, "start")
    /\ Goto(h, IF h \in Shells THEN "shell" ELSE "running")
    /\ UNCHANGED <<server, host, row, target>>

AskShell(h) ==
    /\ at[h] = "shell"
    /\ target' = [target EXCEPT ![h] = "open"]
    /\ Goto(h, IF h \in Shells THEN "running" ELSE "start")
    /\ UNCHANGED <<server, host, row, audit, missed>>

ShellRefused(h) ==
    /\ at[h] = "shell"
    /\ IF h \in Shells THEN Leave(h, AfterShellFailure) ELSE Goto(h, "start")
    /\ UNCHANGED <<server, host, row, audit, target, missed>>

(* Mutant: the handler does not wait for the shell.                         *)
DoesNotWait(h) ==
    /\ at[h] = "running"
    /\ Leave(h, AfterTerminal(h))
    /\ UNCHANGED <<server, host, row, audit, target, missed>>

(* session.Wait() returns; a web terminal whose shell was refused gives up  *)
(* when the target closes its channel.                                      *)
TerminalDone(h) ==
    /\ at[h] = "running"
    /\ target[h] # "open"
    /\ Leave(h, AfterTerminal(h))
    /\ UNCHANGED <<server, host, row, audit, target, missed>>

(* The next of the handler's last statements.                               *)
Conclude(h) ==
    /\ at[h] = "finishing" /\ todo[h] # <<>>
    /\ \/ Head(todo[h]) = "close" /\ CloseRow(h) /\ UNCHANGED audit
       \/ Head(todo[h]) # "close" /\ WriteAudit(h, Head(todo[h])) /\ UNCHANGED row
    /\ todo' = [todo EXCEPT ![h] = Tail(@)]
    /\ UNCHANGED <<server, host, at, target>>

Return(h) ==
    /\ at[h] = "finishing" /\ todo[h] = <<>>
    /\ Goto(h, "gone")
    /\ UNCHANGED <<server, host, row, audit, target, missed>>

-----------------------------------------------------------------------------
(* External: the user leaves the shell, or the target drops it.             *)
TargetEnds(h) ==
    /\ target[h] = "open"
    /\ target' = [target EXCEPT ![h] = "over"]
    /\ UNCHANGED <<server, host, at, todo, row, audit, missed>>

(* PUT and DELETE /hosts/{id}.                                              *)
EditHost ==
    /\ host' \in {"enabled", "disabled", "deleted"} \ {host}
    /\ host # "deleted"
    /\ UNCHANGED <<server, at, todo, row, audit, target, missed>>

-----------------------------------------------------------------------------
(* runServe: Shutdown waits for plain requests only; then the deferred      *)
(* st.Close() runs, and the process ends under the handlers that are left.  *)
Advance(from, to) ==
    /\ MayStop /\ server \in from
    /\ server' = to
    /\ UNCHANGED <<host, todo, row, audit, target, missed>>

Shutdown == Advance({"up"}, "draining") /\ UNCHANGED at
CloseStore == Advance({"draining"}, "closed") /\ UNCHANGED at

(* The end of a stop, or a crash at any time.                               *)
Exit ==
    /\ Advance({"up", "draining", "closed"}, "down")
    /\ at' = [h \in Handlers |->
                 IF at[h] \in {"new", "gone"} THEN at[h] ELSE "killed"]

Restart == Advance({"down"}, "up") /\ UNCHANGED at

-----------------------------------------------------------------------------
HandlerStep(h) ==
    \/ Resolve(h) \/ Create(h) \/ Connect(h) \/ OpenChannel(h)
    \/ Start(h) \/ AskShell(h) \/ ShellRefused(h) \/ TerminalDone(h)
    \/ Conclude(h) \/ Return(h)

Next ==
    \/ \E h \in Handlers : HandlerStep(h) \/ TargetEnds(h)
    \/ EditHost
    \/ Shutdown \/ CloseStore \/ Exit \/ Restart

(* A handler is a goroutine: once started it keeps running.  Nothing makes  *)
(* a user leave or a target answer in time, so TargetEnds has no fairness.  *)
Fairness == \A h \in Handlers : WF_vars(HandlerStep(h) /\ at[h] # "new")

Spec == Init /\ [][Next]_vars
FairSpec == Spec /\ Fairness

-----------------------------------------------------------------------------
(* A terminal that may be in use is never shown as closed, whatever the     *)
(* order in which rows are closed, shells end and the server stops.         *)
LiveTerminalsAreNotClosed ==
    \A h \in Handlers :
        at[h] \in LiveStages \/ (target[h] = "open" /\ at[h] # "killed") =>
            row[h] # "closed"

(* A shell that was opened on a target is accounted for when its handler    *)
(* has returned and none of its statements failed: it has ended, its row is *)
(* closed, and the audit log brackets it.                                   *)
TerminalsAreAccountedFor ==
    \A h \in Handlers \ missed :
        at[h] = "gone" /\ target[h] # "none" =>
            /\ target[h] = "over"
            /\ row[h] = "closed"
            /\ {<<h, "start">>, <<h, "end">>} \subseteq audit

(* The audit log tells a possible story about every handler: no end without *)
(* a start and none while the shell is open, and a failed connection is not *)
(* followed by a start.                                                     *)
AuditTellsAPossibleStory ==
    \A h \in Handlers :
        /\ <<h, "end">> \in audit =>
              target[h] # "open" /\ (h \in missed \/ <<h, "start">> \in audit)
        /\ <<h, "connect_failed">> \in audit =>
              target[h] = "none" /\ <<h, "start">> \notin audit

(* A session that is listed as active although no handler serves it any     *)
(* more has one of three causes: the process ended under its handler, a     *)
(* statement failed, or a web terminal was refused the channel, the one     *)
(* return of ServeHTTP after CreateSession that skips CloseSession.         *)
LeftoversHaveACause ==
    \A h \in Handlers :
        row[h] = "active" /\ at[h] \notin LiveStages \cup {"finishing"} =>
            \/ at[h] = "killed"
            \/ h \in missed
            \/ h \in Webs /\ target[h] = "none" /\ <<h, "start">> \notin audit

(* When a shell ends on the target its session stops being listed as active *)
(* or the handler was cut off by the database or the end of the process.    *)
EndedTerminalsAreUnlisted ==
    \A h \in Handlers :
        target[h] = "over" ~>
            row[h] # "active" \/ h \in missed \/ at[h] = "killed"

(* The sessions table keeps the promise of SessionLedger.                   *)
Ledger == INSTANCE SessionLedger
            WITH live <- {h \in Handlers : at[h] \in LiveStages}
LedgerIsKept == Ledger!Spec

(* The page's count of active sessions ("活跃会话", static/manager.html:72,    *)
(* from GET /sessions/active): every session a running server lists as      *)
(* active has a handler that still serves it or will still close it.        *)
ActiveSessionsAreServed ==
    \A h \in Handlers :
        server = "up" /\ row[h] = "active" => at[h] \in LiveStages \cup {"finishing"}
=============================================================================
