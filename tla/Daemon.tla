------------------------------- MODULE Daemon -------------------------------
(***************************************************************************)
(* The background server as its operator handles it: the processes that    *)
(* run runServe (cmd/server/serve.go), the files state.json and the pid    *)
(* file they publish and clean up, the two ports they listen on, and the   *)
(* commands start, stop and restart (cmd/server/control.go) that find a    *)
(* server through the files and talk to it over HTTP.  The command status  *)
(* only reads what start reads.                                            *)
(*                                                                         *)
(* All processes share one configuration: one state file, one HTTP and one *)
(* SSH address.  Processes and commands interleave at every file access,   *)
(* every bind and every request; a process may crash anywhere.  Managed    *)
(* autostart (systemd, launchd, schtasks) is taken to be disabled.         *)
(***************************************************************************)
CONSTANTS
    Pids,       \* server processes; bounds how many are ever spawned
    Cmds,       \* command invocations
    None,       \* no process, no file
    Torn        \* state.json between its truncation and its rewriting

ASSUME ValuesAreDistinct == None \notin Pids /\ Torn \notin Pids /\ None # Torn

VARIABLES
    proc,       \* where each process stands in runServe
    asked,      \* processes whose shutdownCh or signal channel has fired
    binding,    \* <<port, process>> pairs whose net.Listen is under way
    http, ssh,  \* the process that owns each port, or None
    stateFile,  \* the process state.json describes, Torn or None
    pidFile,    \* the process the pid file names, or None
    cmd,        \* the commands
    overlapped  \* history: a process was spawned beside another actor

serverVars == <<proc, asked, binding, http, ssh>>
fileVars == <<stateFile, pidFile>>
vars == <<proc, asked, binding, http, ssh, stateFile, pidFile, cmd, overlapped>>

-----------------------------------------------------------------------------
Stages == {"unborn", "boot", "rewrite", "pid", "init", "serve", "clean",
           "rmState", "rmPid", "close", "gone"}
CmdStages == {"idle", "load", "health", "post", "wait", "rmState", "rmPid",
              "spawn", "poll", "pollHealth", "ok", "notRunning", "failed"}
Kinds == {"start", "stop", "restart"}
Command == [at: CmdStages, kind: Kinds, seen: Pids \cup {None}]

TypeOK ==
    /\ proc \in [Pids -> Stages]
    /\ asked \in SUBSET Pids
    /\ binding \in SUBSET ({"http", "ssh"} \X Pids)
    /\ http \in Pids \cup {None} /\ ssh \in Pids \cup {None}
    /\ stateFile \in Pids \cup {None, Torn}
    /\ pidFile \in Pids \cup {None}
    /\ cmd \in [Cmds -> Command]
    /\ overlapped \in BOOLEAN

Alive(p) == proc[p] \notin {"unborn", "gone"}
Busy(c) == cmd[c].at \notin {"idle", "ok", "notRunning", "failed"}

Init ==
    /\ proc = [p \in Pids |-> "unborn"]
    /\ asked = {} /\ binding = {}
    /\ http = None /\ ssh = None
    /\ stateFile = None /\ pidFile = None
    /\ cmd = [c \in Cmds |-> [at |-> "idle", kind |-> "start", seen |-> None]]
    /\ overlapped = FALSE

-----------------------------------------------------------------------------
(* runServe                                                                 *)

Step(p, from, to) == proc[p] = from /\ proc' = [proc EXCEPT ![p] = to]

OwnerWithout(owner, p) == IF owner = p THEN None ELSE owner

(* Configuration, log, database and bootstrap come first; any of them may   *)
(* fail, and nothing is published then.                                     *)
BootFails(p) ==
    /\ Step(p, "boot", "gone")
    /\ UNCHANGED <<asked, binding, http, ssh, stateFile, pidFile, cmd, overlapped>>

(* saveRuntimeState: os.WriteFile truncates state.json and writes it, then  *)
(* the pid file.                                                            *)
TruncateState(p) ==
    /\ Step(p, "boot", "rewrite")
    /\ stateFile' = Torn
    /\ UNCHANGED <<asked, binding, http, ssh, pidFile, cmd, overlapped>>

WriteState(p) ==
    /\ Step(p, "rewrite", "pid")
    /\ stateFile' = p
    /\ UNCHANGED <<asked, binding, http, ssh, pidFile, cmd, overlapped>>

(* Mutant: an existing pid file is not overwritten.                         *)
KeepPid(p) ==
    /\ Step(p, "pid", "init")
    /\ pidFile' = IF pidFile = None THEN p ELSE pidFile
    /\ UNCHANGED <<asked, binding, http, ssh, stateFile, cmd, overlapped>>

WritePid(p) ==
    /\ Step(p, "pid", "init")
    /\ pidFile' = p
    /\ UNCHANGED <<asked, binding, http, ssh, stateFile, cmd, overlapped>>

(* bastion.New may fail, and the deferred clean-up runs then; otherwise the *)
(* two listening goroutines start.                                          *)
Initialise(p) ==
    /\ \/ Step(p, "init", "serve") /\ binding' = binding \cup ({"http", "ssh"} \X {p})
       \/ Step(p, "init", "clean") /\ UNCHANGED binding
    /\ UNCHANGED <<asked, http, ssh, stateFile, pidFile, cmd, overlapped>>

(* Mutant: a bind error of the HTTP server is only logged.                  *)
BindHttpOrLog(p) ==
    /\ <<"http", p>> \in binding
    /\ binding' = binding \ {<<"http", p>>}
    /\ http' = IF http = None THEN p ELSE http
    /\ UNCHANGED <<proc, asked, ssh, stateFile, pidFile, cmd, overlapped>>

(* The goroutine of httpServer.ListenAndServe: a bind error asks the        *)
(* process to stop.                                                         *)
BindHttp(p) ==
    /\ <<"http", p>> \in binding
    /\ binding' = binding \ {<<"http", p>>}
    /\ \/ http = None /\ http' = p /\ UNCHANGED asked
       \/ http # None /\ asked' = asked \cup {p} /\ UNCHANGED http
    /\ UNCHANGED <<proc, ssh, stateFile, pidFile, cmd, overlapped>>

(* The goroutine of bastionSrv.ListenAndServe: a bind error is only logged. *)
(* It goes on while the main goroutine cleans up.                           *)
BindSsh(p) ==
    /\ <<"ssh", p>> \in binding
    /\ binding' = binding \ {<<"ssh", p>>}
    /\ ssh' = IF ssh = None THEN p ELSE ssh
    /\ UNCHANGED <<proc, asked, http, stateFile, pidFile, cmd, overlapped>>

(* SIGINT or SIGTERM once signal.Notify has been called.                    *)
Signal(p) ==
    /\ proc[p] = "serve" /\ p \notin asked
    /\ asked' = asked \cup {p}
    /\ UNCHANGED <<proc, binding, http, ssh, stateFile, pidFile, cmd, overlapped>>

(* Mutant: only a process that serves is shut down.                         *)
ShutdownWhileServing(p) ==
    /\ Step(p, "serve", "clean")
    /\ p \in asked /\ http = p
    /\ http' = None
    /\ UNCHANGED <<asked, binding, ssh, stateFile, pidFile, cmd, overlapped>>

(* httpServer.Shutdown closes the HTTP listener at once, before it waits up *)
(* to ten seconds for requests in flight, and a later ListenAndServe of it  *)
(* fails.  Nothing closes the SSH listener.                                 *)
BeginShutdown(p) ==
    /\ Step(p, "serve", "clean")
    /\ p \in asked
    /\ http' = OwnerWithout(http, p)
    /\ binding' = binding \ {<<"http", p>>}
    /\ UNCHANGED <<asked, ssh, stateFile, pidFile, cmd, overlapped>>

(* cleanupRuntimeState: a pid file that can be read and names another       *)
(* process leaves both files alone.                                         *)
MayClean(p) == pidFile \in {None, p}

ReadPid(p) ==
    /\ Step(p, "clean", IF MayClean(p) THEN "rmState" ELSE "close")
    /\ UNCHANGED <<asked, binding, http, ssh, stateFile, pidFile, cmd, overlapped>>

RemoveState(p) ==
    /\ Step(p, "rmState", "rmPid")
    /\ stateFile' = None
    /\ UNCHANGED <<asked, binding, http, ssh, pidFile, cmd, overlapped>>

(* Mutant: the pid file is emptied, not removed.                            *)
EmptyPid(p) ==
    /\ Step(p, "rmPid", "close")
    /\ pidFile' = Torn
    /\ UNCHANGED <<asked, binding, http, ssh, stateFile, cmd, overlapped>>

RemovePid(p) ==
    /\ Step(p, "rmPid", "close")
    /\ pidFile' = None
    /\ UNCHANGED <<asked, binding, http, ssh, stateFile, cmd, overlapped>>

(* The end of the process, orderly or not, releases its ports.              *)
Release(p) ==
    /\ proc' = [proc EXCEPT ![p] = "gone"]
    /\ http' = OwnerWithout(http, p)
    /\ ssh' = OwnerWithout(ssh, p)
    /\ binding' = binding \ ({"http", "ssh"} \X {p})
    /\ UNCHANGED <<asked, stateFile, pidFile, cmd, overlapped>>

Exit(p) == proc[p] = "close" /\ Release(p)
Crash(p) == Alive(p) /\ Release(p)
-----------------------------------------------------------------------------
(* The commands                                                             *)

Advance(c, from, to) ==
    /\ cmd[c].at = from
    /\ cmd' = [cmd EXCEPT ![c].at = to]

Begin(c, k) ==
    /\ cmd[c].at = "idle"
    /\ cmd' = [cmd EXCEPT ![c].at = "load", ![c].kind = k]
    /\ UNCHANGED <<serverVars, fileVars, overlapped>>

(* Where loadRuntimeState leads: a server was found or not, or state.json   *)
(* cannot be decoded.  seen is the server found, None when nobody serves.   *)
IfFound(c) ==
    IF cmd[c].kind = "start" THEN "failed" ELSE "post"      \* "already running"

IfMissing(c) == IF cmd[c].kind = "stop" THEN "notRunning" ELSE "spawn"

ReadsState(c) ==
    /\ cmd[c].at = "load"
    /\ cmd' = [cmd EXCEPT
          ![c].at = CASE stateFile = None -> IfMissing(c)
                      [] stateFile = Torn -> "failed"
                      [] OTHER -> "health",
          ![c].seen = IF stateFile \in Pids THEN stateFile ELSE None]
    /\ UNCHANGED <<serverVars, fileVars, overlapped>>

(* GET /health is answered by whoever owns the port.                        *)
ChecksHealth(c) ==
    /\ cmd[c].at = "health"
    /\ cmd' = [cmd EXCEPT
          ![c].at = IF http = None THEN IfMissing(c) ELSE IfFound(c),
          ![c].seen = IF http = None THEN None ELSE @]
    /\ UNCHANGED <<serverVars, fileVars, overlapped>>

(* Mutant: the control token is not compared.                               *)
AcceptsAnyToken(c) == http # None

(* POST /__admin/shutdown with the token of the state that was read: only   *)
(* the process that published it accepts; filling shutdownCh twice is one   *)
(* request.                                                                 *)
Accepts(c) == http # None /\ http = cmd[c].seen

Posts(c) ==
    /\ Accepts(c)
    /\ Advance(c, "post", "wait")
    /\ asked' = asked \cup {http}
    /\ UNCHANGED <<proc, binding, http, ssh, fileVars, overlapped>>

PostFails(c) ==
    /\ ~Accepts(c)
    /\ Advance(c, "post", "failed")
    /\ UNCHANGED <<serverVars, fileVars, overlapped>>

(* stopServer polls until nobody answers, for ten seconds at most.          *)
SeesItDown(c) ==
    /\ http = None
    /\ Advance(c, "wait", IF cmd[c].kind = "stop" THEN "rmState" ELSE "spawn")
    /\ UNCHANGED <<serverVars, fileVars, overlapped>>

WaitTimesOut(c) ==
    /\ http # None
    /\ Advance(c, "wait", "failed")
    /\ UNCHANGED <<serverVars, fileVars, overlapped>>

(* runStop removes both files whatever they say by now.                     *)
StopRemovesState(c) ==
    /\ Advance(c, "rmState", "rmPid")
    /\ stateFile' = None
    /\ UNCHANGED <<serverVars, pidFile, overlapped>>

StopRemovesPid(c) ==
    /\ Advance(c, "rmPid", "ok")
    /\ pidFile' = None
    /\ UNCHANGED <<serverVars, stateFile, overlapped>>

(* A new process; is another one alive, or another command under way?       *)
Born(p, others) ==
    /\ Step(p, "unborn", "boot")
    /\ overlapped' = (overlapped \/ (\E q \in Pids : Alive(q))
                                \/ (\E d \in others : Busy(d)))
    /\ UNCHANGED <<asked, binding, http, ssh, fileVars>>

(* ssh233-server serve, run by hand or by a service manager.                *)
Serve(p) == Born(p, Cmds) /\ UNCHANGED cmd

(* startDetachedServer spawns a process ...                                 *)
Spawn(c, p) == Born(p, Cmds \ {c}) /\ Advance(c, "spawn", "poll")

(* ... and takes the first healthy state it can read for its own, within    *)
(* fifteen seconds; an unreadable one is read again.                        *)
Polls(c) ==
    /\ stateFile \in Pids
    /\ Advance(c, "poll", "pollHealth")
    /\ UNCHANGED <<serverVars, fileVars, overlapped>>

PollsHealth(c) ==
    /\ Advance(c, "pollHealth", IF http = None THEN "poll" ELSE "ok")
    /\ UNCHANGED <<serverVars, fileVars, overlapped>>

PollTimesOut(c) ==
    /\ Advance(c, "poll", "failed")
    /\ UNCHANGED <<serverVars, fileVars, overlapped>>

-----------------------------------------------------------------------------
ServerStep(p) ==
    \/ BootFails(p) \/ TruncateState(p) \/ WriteState(p) \/ WritePid(p)
    \/ Initialise(p) \/ BindHttp(p) \/ BindSsh(p)
    \/ BeginShutdown(p) \/ ReadPid(p) \/ RemoveState(p) \/ RemovePid(p)
    \/ Exit(p)

CmdStep(c) ==
    \/ ReadsState(c) \/ ChecksHealth(c) \/ Posts(c) \/ PostFails(c)
    \/ SeesItDown(c) \/ WaitTimesOut(c)
    \/ StopRemovesState(c) \/ StopRemovesPid(c)
    \/ \E p \in Pids : Spawn(c, p)
    \/ Polls(c) \/ PollsHealth(c) \/ PollTimesOut(c)

Next ==
    \/ \E p \in Pids : ServerStep(p) \/ Serve(p) \/ Signal(p) \/ Crash(p)
    \/ \E c \in Cmds : CmdStep(c) \/ \E k \in Kinds : Begin(c, k)

Spec == Init /\ [][Next]_vars

(* The operating system runs every process; nobody has to signal one, to    *)
(* crash it or to type a command.                                           *)
Fairness == \A p \in Pids : WF_vars(ServerStep(p))

FairSpec == Spec /\ Fairness

-----------------------------------------------------------------------------
(* "stopped ssh233-server pid=N" (control.go:80) is true: a stop that       *)
(* succeeds was accepted by the very process whose state it had read, not   *)
(* by a successor on the same port, and that process serves no more.        *)
StopSucceedsOnItsTargetOnly ==
    \A c \in Cmds :
        (cmd[c].kind = "stop" /\ cmd[c].at = "ok") =>
            /\ cmd[c].seen \in asked
            /\ http # cmd[c].seen
            /\ proc[cmd[c].seen] \notin {"boot", "rewrite", "pid", "init"}

(* No server stays half alive: a process that was spawned gets the HTTP     *)
(* port or ends, also when another process holds the port.                  *)
EveryServerServesOrEnds ==
    \A p \in Pids : proc[p] = "boot" ~> (http = p \/ proc[p] = "gone")

(* A server that was asked to stop, by a command, a signal or its own bind  *)
(* error, ends, and both ports are free of it.                              *)
AskedServersEnd ==
    \A p \in Pids :
        p \in asked ~> (proc[p] = "gone" /\ http # p /\ ssh # p)

(* As long as no process was spawned beside a living process or another     *)
(* command, the files describe the server that serves, so that status, stop *)
(* and start find it, crashes and stale files of crashed servers included,  *)
(* and it owns the SSH port once it has bound it.                           *)
LoneServerIsDiscoverable ==
    \A p \in Pids :
        (~overlapped /\ http = p) =>
            /\ stateFile = p /\ pidFile = p
            /\ <<"ssh", p>> \notin binding => ssh = p

(* "Restart background server" (main.go:73), the server being the "SSH      *)
(* bastion" of README.md:9: when a restart that replaced a server has       *)
(* succeeded, and nobody else is about, the server it reports has the SSH   *)
(* port too once its bastion has tried to listen.                           *)
RestartBringsUpTheBastion ==
    \A c \in Cmds, p \in Pids :
        (/\ cmd[c].kind = "restart" /\ cmd[c].at = "ok" /\ cmd[c].seen # None
         /\ \A d \in Cmds : ~Busy(d)
         /\ http = p /\ stateFile = p /\ <<"ssh", p>> \notin binding) => ssh = p
=============================================================================
