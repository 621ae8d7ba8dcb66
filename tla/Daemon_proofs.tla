--------------------------- MODULE Daemon_proofs ---------------------------
(***************************************************************************)
(* Proofs about Daemon, for any number of processes and commands.          *)
(***************************************************************************)
EXTENDS Daemon, Integers, TLAPS

Starting == {"unborn", "boot", "rewrite", "pid", "init"}
Opening(port, p) == <<port, p>> \in binding

(* Ports belong to the processes that serve, and the HTTP port to those     *)
(* that were not asked to stop before they had bound it; only processes     *)
(* that have come to serve are asked to stop.                               *)
ServersFit ==
    /\ \A p \in asked : proc[p] \notin Starting
    /\ \A p \in Pids : http = p => proc[p] = "serve" /\ ~Opening("http", p)
    /\ \A p \in Pids : Opening("http", p) => proc[p] = "serve"
    /\ \A p \in Pids : proc[p] = "serve" => http = p \/ Opening("http", p) \/ p \in asked
    /\ \A p \in Pids : ssh = p => Alive(p) /\ proc[p] \notin Starting
    /\ \A p \in Pids : Opening("ssh", p) => Alive(p) /\ proc[p] \notin Starting

(* The process a command has asked to stop had bound its port, so that it   *)
(* never binds it again.                                                    *)
HasItsTarget(c) ==
    /\ cmd[c].seen \in asked
    /\ ~Opening("http", cmd[c].seen)

HasSeenItDown(c) == HasItsTarget(c) /\ http # cmd[c].seen

CommandsFit ==
    \A c \in Cmds :
        /\ cmd[c].at = "wait" => HasItsTarget(c)
        /\ cmd[c].at \in {"rmState", "rmPid"} =>
              cmd[c].kind = "stop" /\ HasSeenItDown(c)
        /\ cmd[c].kind = "stop" =>
              /\ cmd[c].at \notin {"spawn", "poll", "pollHealth"}
              /\ cmd[c].at = "ok" => HasSeenItDown(c)

(* While no process was spawned beside another actor, one process at most   *)
(* is alive, the commands that stop a server stop that one, and the files   *)
(* are its own from their writing to its shutdown.                          *)
Removing == {"wait", "rmState", "rmPid"}

LoneServer ==
    /\ \A p, q \in Pids : Alive(p) /\ Alive(q) => p = q
    /\ \A p \in Pids, c \in Cmds :
          Alive(p) /\ cmd[c].at \in Removing => cmd[c].seen = p
    /\ \A p \in Pids : proc[p] = "pid" => stateFile = p
    /\ \A p \in Pids : proc[p] = "init" => stateFile = p /\ pidFile = p
    /\ \A p \in Pids :
          Opening("http", p) \/ http = p => stateFile = p /\ pidFile = p
    /\ \A p \in Pids : proc[p] = "serve" /\ ~Opening("ssh", p) => ssh = p

IInv == TypeOK /\ ServersFit /\ CommandsFit /\ (overlapped \/ LoneServer)

-----------------------------------------------------------------------------
USE ValuesAreDistinct

LEMMA InitInv == Init => IInv
<1> SUFFICES ASSUME Init PROVE IInv
  OBVIOUS
<1>1. TypeOK
  BY DEF Init, TypeOK, Command, Stages, CmdStages, Kinds
<1>2. ServersFit
  BY DEF Init, ServersFit, Opening
<1>3. CommandsFit
  BY DEF Init, CommandsFit
<1>4. LoneServer
  BY DEF Init, LoneServer, Alive, Opening, Removing
<1> QED BY <1>1, <1>2, <1>3, <1>4 DEF IInv

(* A step of command c leaves the other commands alone.                     *)
Becomes(c, s, k, p) ==
    /\ cmd' \in [Cmds -> Command]
    /\ cmd'[c].at = s /\ cmd'[c].kind = k /\ cmd'[c].seen = p
    /\ \A d \in Cmds \ {c} : cmd'[d] = cmd[d]

LEMMA CommandMoves ==
    ASSUME cmd \in [Cmds -> Command], NEW c \in Cmds, NEW s \in CmdStages,
           NEW k \in Kinds, NEW p \in Pids \cup {None}
    PROVE  /\ cmd' = [cmd EXCEPT ![c].at = s] =>
                 Becomes(c, s, cmd[c].kind, cmd[c].seen)
           /\ cmd' = [cmd EXCEPT ![c].at = s, ![c].kind = k] =>
                 Becomes(c, s, k, cmd[c].seen)
           /\ cmd' = [cmd EXCEPT ![c].at = s, ![c].seen = p] =>
                 Becomes(c, s, cmd[c].kind, p)
<1>1. ASSUME cmd' = [cmd EXCEPT ![c].at = s]
      PROVE  Becomes(c, s, cmd[c].kind, cmd[c].seen)
  <2> DEFINE r == [cmd[c] EXCEPT !.at = s]
  <2>1. r \in Command /\ r.at = s /\ r.kind = cmd[c].kind /\ r.seen = cmd[c].seen
    BY DEF Command
  <2>2. cmd' = [cmd EXCEPT ![c] = r]
    BY <1>1
  <2> HIDE DEF r
  <2> QED BY <2>1, <2>2 DEF Becomes
<1>2. ASSUME cmd' = [cmd EXCEPT ![c].at = s, ![c].kind = k]
      PROVE  Becomes(c, s, k, cmd[c].seen)
  <2> DEFINE r == [cmd[c] EXCEPT !.at = s, !.kind = k]
  <2>1. r \in Command /\ r.at = s /\ r.kind = k /\ r.seen = cmd[c].seen
    BY DEF Command
  <2>2. cmd' = [cmd EXCEPT ![c] = r]
    BY <1>2
  <2> HIDE DEF r
  <2> QED BY <2>1, <2>2 DEF Becomes
<1>3. ASSUME cmd' = [cmd EXCEPT ![c].at = s, ![c].seen = p]
      PROVE  Becomes(c, s, cmd[c].kind, p)
  <2> DEFINE r == [cmd[c] EXCEPT !.at = s, !.seen = p]
  <2>1. r \in Command /\ r.at = s /\ r.kind = cmd[c].kind /\ r.seen = p
    BY DEF Command
  <2>2. cmd' = [cmd EXCEPT ![c] = r]
    BY <1>3
  <2> HIDE DEF r
  <2> QED BY <2>1, <2>2 DEF Becomes
<1> QED BY <1>1, <1>2, <1>3

(* What a step of command c on to stage s may do besides.                   *)
LEMMA Advances ==
    ASSUME cmd \in [Cmds -> Command], NEW c \in Cmds, NEW s \in CmdStages,
           NEW from, Advance(c, from, s)
    PROVE  /\ cmd[c].at = from
           /\ Becomes(c, s, cmd[c].kind, cmd[c].seen)
<1>1. cmd[c].kind \in Kinds /\ cmd[c].seen \in Pids \cup {None}
  BY DEF Command
<1> QED BY <1>1, CommandMoves DEF Advance

-----------------------------------------------------------------------------
(* The server processes                                                     *)

LEMMA StepTypes ==
    ASSUME TypeOK, NEW p \in Pids, ServerStep(p) \/ Signal(p) \/ Crash(p)
    PROVE  TypeOK'
<1>1. cmd' = cmd /\ overlapped' = overlapped
  BY DEF ServerStep, BootFails, TruncateState, WriteState, WritePid, Initialise,
         BindHttp, BindSsh, BeginShutdown, ReadPid, RemoveState, RemovePid,
         Exit, Signal, Crash, Release
<1>2. proc' \in [Pids -> Stages]
  BY DEF ServerStep, BootFails, TruncateState, WriteState, WritePid, Initialise,
         BindHttp, BindSsh, BeginShutdown, ReadPid, RemoveState, RemovePid,
         Exit, Signal, Crash, Release, Step, TypeOK, Stages
<1>3. asked' \in SUBSET Pids
  BY DEF ServerStep, BootFails, TruncateState, WriteState, WritePid, Initialise,
         BindHttp, BindSsh, BeginShutdown, ReadPid, RemoveState, RemovePid,
         Exit, Signal, Crash, Release, TypeOK
<1>4. binding' \in SUBSET ({"http", "ssh"} \X Pids)
  BY DEF ServerStep, BootFails, TruncateState, WriteState, WritePid, Initialise,
         BindHttp, BindSsh, BeginShutdown, ReadPid, RemoveState, RemovePid,
         Exit, Signal, Crash, Release, TypeOK
<1>5. http' \in Pids \cup {None} /\ ssh' \in Pids \cup {None}
  BY DEF ServerStep, BootFails, TruncateState, WriteState, WritePid, Initialise,
         BindHttp, BindSsh, BeginShutdown, ReadPid, RemoveState, RemovePid,
         Exit, Signal, Crash, Release, OwnerWithout, TypeOK
<1>6. stateFile' \in Pids \cup {None, Torn} /\ pidFile' \in Pids \cup {None}
  BY DEF ServerStep, BootFails, TruncateState, WriteState, WritePid, Initialise,
         BindHttp, BindSsh, BeginShutdown, ReadPid, RemoveState, RemovePid,
         Exit, Signal, Crash, Release, TypeOK
<1> QED BY <1>1, <1>2, <1>3, <1>4, <1>5, <1>6 DEF TypeOK

(* Ports and requests to stop stay with the processes that serve.           *)
LEMMA StepServers ==
    ASSUME TypeOK, ServersFit, NEW p \in Pids,
           ServerStep(p) \/ Signal(p) \/ Crash(p)
    PROVE  ServersFit'
<1>1. CASE BootFails(p)
  BY <1>1 DEF BootFails, Step, TypeOK, Stages,
    ServersFit, Starting, Opening, Alive
<1>2. CASE TruncateState(p)
  BY <1>2 DEF TruncateState, Step, TypeOK, Stages,
    ServersFit, Starting, Opening, Alive
<1>3. CASE WriteState(p)
  BY <1>3 DEF WriteState, Step, TypeOK, Stages,
    ServersFit, Starting, Opening, Alive
<1>4. CASE WritePid(p)
  BY <1>4 DEF WritePid, Step, TypeOK, Stages,
    ServersFit, Starting, Opening, Alive
<1>5. CASE Initialise(p)
  BY <1>5 DEF Initialise, Step, TypeOK, Stages,
    ServersFit, Starting, Opening, Alive
<1>6. CASE BindHttp(p)
  BY <1>6 DEF BindHttp, Step, TypeOK, Stages,
    ServersFit, Starting, Opening, Alive
<1>7. CASE BindSsh(p)
  BY <1>7 DEF BindSsh, Step, TypeOK, Stages,
    ServersFit, Starting, Opening, Alive
<1>8. CASE BeginShutdown(p)
  BY <1>8 DEF BeginShutdown, OwnerWithout, Step, TypeOK, Stages,
    ServersFit, Starting, Opening, Alive
<1>9. CASE ReadPid(p)
  BY <1>9 DEF ReadPid, Step, TypeOK, Stages,
    ServersFit, Starting, Opening, Alive
<1>10. CASE RemoveState(p)
  BY <1>10 DEF RemoveState, Step, TypeOK, Stages,
    ServersFit, Starting, Opening, Alive
<1>11. CASE RemovePid(p)
  BY <1>11 DEF RemovePid, Step, TypeOK, Stages,
    ServersFit, Starting, Opening, Alive
<1>12. CASE Signal(p)
  BY <1>12 DEF Signal, TypeOK, Stages,
    ServersFit, Starting, Opening, Alive
<1>13. CASE Exit(p) \/ Crash(p)
  BY <1>13 DEF Exit, Crash, Release, OwnerWithout, TypeOK, Stages,
    ServersFit, Starting, Opening, Alive
<1> QED BY <1>1, <1>2, <1>3, <1>4, <1>5, <1>6, <1>7, <1>8, <1>9, <1>10, <1>11, <1>12, <1>13 DEF ServerStep

(* What a command knows of its target stays true, whatever processes do.    *)
LEMMA StepCommands ==
    ASSUME TypeOK, ServersFit, CommandsFit, NEW p \in Pids,
           ServerStep(p) \/ Signal(p) \/ Crash(p)
    PROVE  CommandsFit'
<1>1. CASE BootFails(p)
  BY <1>1 DEF BootFails, Step, TypeOK,
    ServersFit, Starting, Opening, CommandsFit, HasItsTarget, HasSeenItDown
<1>2. CASE TruncateState(p)
  BY <1>2 DEF TruncateState, Step, TypeOK,
    ServersFit, Starting, Opening, CommandsFit, HasItsTarget, HasSeenItDown
<1>3. CASE WriteState(p)
  BY <1>3 DEF WriteState, Step, TypeOK,
    ServersFit, Starting, Opening, CommandsFit, HasItsTarget, HasSeenItDown
<1>4. CASE WritePid(p)
  BY <1>4 DEF WritePid, Step, TypeOK,
    ServersFit, Starting, Opening, CommandsFit, HasItsTarget, HasSeenItDown
<1>5. CASE Initialise(p)
  BY <1>5 DEF Initialise, Step, TypeOK,
    ServersFit, Starting, Opening, CommandsFit, HasItsTarget, HasSeenItDown
<1>6. CASE BindHttp(p)
  BY <1>6 DEF BindHttp, Step, TypeOK,
    ServersFit, Starting, Opening, CommandsFit, HasItsTarget, HasSeenItDown
<1>7. CASE BindSsh(p)
  BY <1>7 DEF BindSsh, Step, TypeOK,
    ServersFit, Starting, Opening, CommandsFit, HasItsTarget, HasSeenItDown
<1>8. CASE BeginShutdown(p)
  BY <1>8 DEF BeginShutdown, OwnerWithout, Step, TypeOK,
    ServersFit, Starting, Opening, CommandsFit, HasItsTarget, HasSeenItDown
<1>9. CASE ReadPid(p)
  BY <1>9 DEF ReadPid, Step, TypeOK,
    ServersFit, Starting, Opening, CommandsFit, HasItsTarget, HasSeenItDown
<1>10. CASE RemoveState(p)
  BY <1>10 DEF RemoveState, Step, TypeOK,
    ServersFit, Starting, Opening, CommandsFit, HasItsTarget, HasSeenItDown
<1>11. CASE RemovePid(p)
  BY <1>11 DEF RemovePid, Step, TypeOK,
    ServersFit, Starting, Opening, CommandsFit, HasItsTarget, HasSeenItDown
<1>12. CASE Signal(p)
  BY <1>12 DEF Signal, TypeOK,
    ServersFit, Starting, Opening, CommandsFit, HasItsTarget, HasSeenItDown
<1>13. CASE Exit(p) \/ Crash(p)
  BY <1>13 DEF Exit, Crash, Release, OwnerWithout, TypeOK,
    ServersFit, Starting, Opening, CommandsFit, HasItsTarget, HasSeenItDown
<1> QED BY <1>1, <1>2, <1>3, <1>4, <1>5, <1>6, <1>7, <1>8, <1>9, <1>10, <1>11, <1>12, <1>13 DEF ServerStep

(* A lone process writes, keeps and removes its own files.                  *)
LEMMA StepLone ==
    ASSUME TypeOK, ServersFit, CommandsFit, LoneServer, NEW p \in Pids,
           ServerStep(p) \/ Signal(p) \/ Crash(p)
    PROVE  LoneServer'
<1>1. CASE BootFails(p)
  BY <1>1 DEF BootFails, Step, TypeOK,
    ServersFit, Starting, Opening, Alive, LoneServer, Stages
<1>2. CASE TruncateState(p)
  BY <1>2 DEF TruncateState, Step, TypeOK,
    ServersFit, Starting, Opening, Alive, LoneServer, Stages
<1>3. CASE WriteState(p)
  BY <1>3 DEF WriteState, Step, TypeOK,
    ServersFit, Starting, Opening, Alive, LoneServer, Stages
<1>4. CASE WritePid(p)
  BY <1>4 DEF WritePid, Step, TypeOK,
    ServersFit, Starting, Opening, Alive, LoneServer, Stages
<1>5. CASE Initialise(p)
  BY <1>5 DEF Initialise, Step, TypeOK,
    ServersFit, Starting, Opening, Alive, LoneServer, Stages
<1>6. CASE BindHttp(p)
  BY <1>6 DEF BindHttp, Step, TypeOK,
    ServersFit, Starting, Opening, Alive, LoneServer, Stages
<1>7. CASE BindSsh(p)
  BY <1>7 DEF BindSsh, Step, TypeOK,
    ServersFit, Starting, Opening, Alive, LoneServer, Stages
<1>8. CASE BeginShutdown(p)
  BY <1>8 DEF BeginShutdown, OwnerWithout, Step, TypeOK,
    ServersFit, Starting, Opening, Alive, LoneServer, Stages
<1>9. CASE ReadPid(p)
  BY <1>9 DEF ReadPid, Step, TypeOK,
    ServersFit, Starting, Opening, Alive, LoneServer, Stages
<1>10. CASE RemoveState(p)
  BY <1>10 DEF RemoveState, Step, TypeOK,
    ServersFit, Starting, Opening, Alive, LoneServer, Stages
<1>11. CASE RemovePid(p)
  BY <1>11 DEF RemovePid, Step, TypeOK,
    ServersFit, Starting, Opening, Alive, LoneServer, Stages
<1>12. CASE Signal(p)
  BY <1>12 DEF Signal, TypeOK,
    ServersFit, Starting, Opening, Alive, LoneServer, Stages
<1>13. CASE Exit(p) \/ Crash(p)
  BY <1>13 DEF Exit, Crash, Release, OwnerWithout, TypeOK,
    ServersFit, Starting, Opening, Alive, LoneServer, Stages
<1> QED BY <1>1, <1>2, <1>3, <1>4, <1>5, <1>6, <1>7, <1>8, <1>9, <1>10, <1>11, <1>12, <1>13 DEF ServerStep

LEMMA ServerStepsKeepInv ==
    ASSUME IInv, NEW p \in Pids, ServerStep(p) \/ Signal(p) \/ Crash(p)
    PROVE  IInv'
<1>1. TypeOK' /\ ServersFit' /\ CommandsFit'
  BY StepTypes, StepServers, StepCommands DEF IInv
<1>2. overlapped' = overlapped
  BY DEF ServerStep, BootFails, TruncateState, WriteState, WritePid, Initialise,
         BindHttp, BindSsh, BeginShutdown, ReadPid, RemoveState, RemovePid,
         Exit, Signal, Crash, Release
<1>3. ASSUME LoneServer PROVE LoneServer'
  BY <1>3, StepLone DEF IInv
<1> QED BY <1>1, <1>2, <1>3 DEF IInv

-----------------------------------------------------------------------------
(* A new process, and the commands that read, ask, wait and clean up        *)

(* A process that is born beside nobody is the only one alive, and no other *)
(* command is about to remove files.                                        *)
LEMMA Births ==
    ASSUME TypeOK, ServersFit, NEW p \in Pids, NEW others \in SUBSET Cmds,
           Born(p, others), overlapped \/ LoneServer
    PROVE  /\ proc' \in [Pids -> Stages] /\ overlapped' \in BOOLEAN
           /\ ServersFit'
           /\ \/ overlapped'
              \/ /\ \A q \in Pids : Alive(q)' => q = p
                 /\ \A d \in others : cmd[d].at \notin Removing
                 /\ LoneServer
<1>1. proc' \in [Pids -> Stages] /\ overlapped' \in BOOLEAN
  BY DEF Born, Step, TypeOK, Stages
<1>2. ServersFit'
  BY DEF Born, Step, TypeOK, Stages, ServersFit, Starting, Opening, Alive
<1>3. ASSUME ~overlapped'
      PROVE  /\ \A q \in Pids : Alive(q)' => q = p
             /\ \A d \in others : cmd[d].at \notin Removing
             /\ LoneServer
  BY <1>3 DEF Born, Step, TypeOK, Alive, Busy, Removing
<1> QED BY <1>1, <1>2, <1>3

LEMMA ServeKeepsInv ==
    ASSUME IInv, NEW p \in Pids, Serve(p)
    PROVE  IInv'
<1>1. /\ proc' \in [Pids -> Stages] /\ overlapped' \in BOOLEAN
      /\ ServersFit'
      /\ \/ overlapped'
         \/ /\ \A q \in Pids : Alive(q)' => q = p
            /\ \A d \in Cmds : cmd[d].at \notin Removing
            /\ LoneServer
  BY Births DEF IInv, Serve
<1>2. UNCHANGED <<asked, binding, http, ssh, stateFile, pidFile, cmd>>
  BY DEF Serve, Born, fileVars
<1>3. TypeOK'
  BY <1>1, <1>2 DEF IInv, TypeOK
<1>4. CommandsFit'
  BY <1>2 DEF IInv, CommandsFit, HasItsTarget, HasSeenItDown, Opening
<1>5. ASSUME ~overlapped' PROVE LoneServer'
  <2>1. Step(p, "unborn", "boot")
    BY DEF Serve, Born
  <2> QED BY <1>1, <1>2, <1>5, <2>1
    DEF IInv, TypeOK, LoneServer, Opening, Step
<1> QED BY <1>1, <1>3, <1>4, <1>5 DEF IInv

(* A command that moves on its own keeps the invariant if what it knows of  *)
(* its target at its new stage is true.                                     *)
LEMMA CommandKeepsInv ==
    ASSUME IInv, NEW c \in Cmds, NEW s \in CmdStages, NEW k \in Kinds,
           NEW p \in Pids \cup {None}, Becomes(c, s, k, p),
           UNCHANGED <<serverVars, fileVars, overlapped>>,
           s = "wait" => p \in asked /\ ~Opening("http", p)
                         /\ (LoneServer => \A q \in Pids : Alive(q) => p = q),
           s \in {"rmState", "rmPid"} =>
               /\ k = "stop" /\ p \in asked /\ ~Opening("http", p) /\ http # p
               /\ LoneServer => \A q \in Pids : Alive(q) => p = q,
           k = "stop" =>
               /\ s \notin {"spawn", "poll", "pollHealth"}
               /\ s = "ok" => p \in asked /\ ~Opening("http", p) /\ http # p
    PROVE  IInv'
<1>1. TypeOK' /\ ServersFit'
  BY DEF IInv, TypeOK, serverVars, fileVars, Becomes, ServersFit, Opening, Alive
<1>2. CommandsFit'
  BY DEF IInv, serverVars, fileVars, Becomes, CommandsFit, HasItsTarget,
         HasSeenItDown, Opening
<1>3. ASSUME LoneServer PROVE LoneServer'
  BY <1>3 DEF IInv, serverVars, fileVars, Becomes, LoneServer, Opening, Alive,
              Removing
<1> QED BY <1>1, <1>2, <1>3 DEF IInv

LEMMA BeginKeepsInv ==
    ASSUME IInv, NEW c \in Cmds, NEW k \in Kinds, Begin(c, k)
    PROVE  IInv'
<1>1. cmd[c].seen \in Pids \cup {None} /\ "load" \in CmdStages
  BY DEF IInv, TypeOK, Command, CmdStages
<1>2. Becomes(c, "load", k, cmd[c].seen)
  BY <1>1, CommandMoves DEF Begin, IInv, TypeOK
<1> QED BY <1>1, <1>2, CommandKeepsInv DEF Begin

LEMMA LoadsKeepInv ==
    ASSUME IInv, NEW c \in Cmds, ReadsState(c) \/ ChecksHealth(c)
    PROVE  IInv'
<1> DEFINE k == cmd[c].kind
<1>1. k \in Kinds /\ cmd[c].seen \in Pids \cup {None}
  BY DEF IInv, TypeOK, Command
<1>2. UNCHANGED <<serverVars, fileVars, overlapped>>
  BY DEF ReadsState, ChecksHealth
<1>3. /\ IfFound(c) \in {"failed", "post"}
      /\ IfMissing(c) = IF k = "stop" THEN "notRunning" ELSE "spawn"
  BY DEF IfFound, IfMissing
<1>4. CASE ReadsState(c)
  <2> DEFINE s == CASE stateFile = None -> IfMissing(c)
                    [] stateFile = Torn -> "failed"
                    [] OTHER -> "health"
             p == IF stateFile \in Pids THEN stateFile ELSE None
  <2>1. s \in {"failed", "health", "notRunning", "spawn"}
        /\ (k = "stop" => s # "spawn") /\ p \in Pids \cup {None}
    BY <1>3
  <2>2. cmd' = [cmd EXCEPT ![c].at = s, ![c].seen = p]
    BY <1>4 DEF ReadsState
  <2> HIDE DEF s, p
  <2>3. s \in CmdStages
    BY <2>1 DEF CmdStages
  <2>4. Becomes(c, s, k, p)
    BY <1>1, <2>1, <2>2, <2>3, CommandMoves DEF IInv, TypeOK
  <2> QED BY <1>1, <1>2, <2>1, <2>3, <2>4, CommandKeepsInv
<1>5. CASE ChecksHealth(c)
  <2> DEFINE s == IF http = None THEN IfMissing(c) ELSE IfFound(c)
             p == IF http = None THEN None ELSE cmd[c].seen
  <2>1. s \in {"failed", "post", "notRunning", "spawn"}
        /\ (k = "stop" => s # "spawn") /\ p \in Pids \cup {None}
    BY <1>1, <1>3
  <2>2. cmd' = [cmd EXCEPT ![c].at = s, ![c].seen = p]
    BY <1>5 DEF ChecksHealth
  <2> HIDE DEF s, p
  <2>3. s \in CmdStages
    BY <2>1 DEF CmdStages
  <2>4. Becomes(c, s, k, p)
    BY <1>1, <2>1, <2>2, <2>3, CommandMoves DEF IInv, TypeOK
  <2> QED BY <1>1, <1>2, <2>1, <2>3, <2>4, CommandKeepsInv
<1> QED BY <1>4, <1>5

(* The stages that have no condition on what a command knows.               *)
LEMMA OtherStepsKeepInv ==
    ASSUME IInv, NEW c \in Cmds,
           \/ PostFails(c) \/ SeesItDown(c) \/ WaitTimesOut(c)
           \/ Polls(c) \/ PollsHealth(c) \/ PollTimesOut(c)
    PROVE  IInv'
<1> DEFINE k == cmd[c].kind
           p == cmd[c].seen
<1>1. k \in Kinds /\ p \in Pids \cup {None}
  BY DEF IInv, TypeOK, Command
<1>2. UNCHANGED <<serverVars, fileVars, overlapped>>
  BY DEF PostFails, SeesItDown, WaitTimesOut, Polls, PollsHealth, PollTimesOut
<1>3. CASE SeesItDown(c)
  <2> DEFINE s == IF k = "stop" THEN "rmState" ELSE "spawn"
  <2>1. s \in CmdStages /\ (k = "stop" => s = "rmState")
        /\ (k # "stop" => s = "spawn")
    BY DEF CmdStages
  <2>2. Advance(c, "wait", s) /\ http = None
    BY <1>3 DEF SeesItDown
  <2> HIDE DEF s
  <2>3. cmd[c].at = "wait" /\ Becomes(c, s, k, p)
    BY <2>1, <2>2, Advances DEF IInv, TypeOK
  <2>4. p \in asked /\ ~Opening("http", p) /\ http # p
    BY <2>2, <2>3 DEF IInv, TypeOK, CommandsFit, HasItsTarget
  <2>5. LoneServer => \A q \in Pids : Alive(q) => p = q
    BY <2>3 DEF LoneServer, Removing
  <2> QED BY <1>1, <1>2, <2>1, <2>3, <2>4, <2>5, CommandKeepsInv
<1>4. CASE PostFails(c) \/ WaitTimesOut(c) \/ PollTimesOut(c)
  <2>1. PICK from : Advance(c, from, "failed")
    BY <1>4 DEF PostFails, WaitTimesOut, PollTimesOut
  <2>2. "failed" \in CmdStages
    BY DEF CmdStages
  <2>3. Becomes(c, "failed", k, p)
    BY <2>1, <2>2, Advances DEF IInv, TypeOK
  <2> QED BY <1>1, <1>2, <2>2, <2>3, CommandKeepsInv
<1>5. CASE Polls(c) \/ PollsHealth(c)
  <2>1. PICK s \in {"poll", "pollHealth", "ok"} :
            Advance(c, "poll", s) \/ Advance(c, "pollHealth", s)
    BY <1>5 DEF Polls, PollsHealth
  <2>2. s \in CmdStages
    BY DEF CmdStages
  <2>3. cmd[c].at \in {"poll", "pollHealth"} /\ Becomes(c, s, k, p)
    BY <2>1, <2>2, Advances DEF IInv, TypeOK
  <2>4. k # "stop"
    BY <2>3 DEF IInv, CommandsFit
  <2> QED BY <1>1, <1>2, <2>2, <2>3, <2>4, CommandKeepsInv
<1> QED BY <1>3, <1>4, <1>5

(* The request to stop is accepted by the owner of the HTTP port, which is  *)
(* then the only process alive if any is.                                   *)
LEMMA PostsKeepInv ==
    ASSUME IInv, NEW c \in Cmds, Posts(c)
    PROVE  IInv'
<1> DEFINE k == cmd[c].kind
<1>1. http \in Pids /\ http = cmd[c].seen /\ k \in Kinds /\ "wait" \in CmdStages
  BY DEF IInv, TypeOK, Command, Posts, Accepts, CmdStages
<1>2. Becomes(c, "wait", k, http)
  BY <1>1, Advances DEF IInv, TypeOK, Posts
<1>3. UNCHANGED <<proc, binding, http, ssh, stateFile, pidFile, overlapped>>
      /\ asked' = asked \cup {http}
  BY DEF Posts, fileVars
<1>4. proc[http] = "serve" /\ ~Opening("http", http)
  BY <1>1 DEF IInv, ServersFit
<1>5. TypeOK'
  BY <1>1, <1>2, <1>3 DEF IInv, TypeOK, Becomes
<1>6. ServersFit'
  BY <1>3, <1>4 DEF IInv, ServersFit, Opening, Alive, Starting
<1>7. CommandsFit'
  BY <1>1, <1>2, <1>3, <1>4
  DEF IInv, CommandsFit, Becomes, HasItsTarget, HasSeenItDown, Opening
<1>8. ASSUME LoneServer PROVE LoneServer'
  BY <1>1, <1>2, <1>3, <1>4, <1>8
  DEF IInv, LoneServer, Becomes, Opening, Alive, Removing
<1> QED BY <1>3, <1>5, <1>6, <1>7, <1>8 DEF IInv

(* runStop removes files that no process alive needs any more.              *)
LEMMA RemovalsKeepInv ==
    ASSUME IInv, NEW c \in Cmds, StopRemovesState(c) \/ StopRemovesPid(c)
    PROVE  IInv'
<1> DEFINE k == cmd[c].kind
           p == cmd[c].seen
<1>1. /\ cmd[c].at \in {"rmState", "rmPid"}
      /\ \E s \in {"rmPid", "ok"} : Becomes(c, s, k, p)
  <2>1. "rmPid" \in CmdStages /\ "ok" \in CmdStages
    BY DEF CmdStages
  <2> QED BY <2>1, Advances DEF IInv, TypeOK, StopRemovesState, StopRemovesPid
<1>2. UNCHANGED <<proc, asked, binding, http, ssh, overlapped>>
      /\ stateFile' \in {stateFile, None} /\ pidFile' \in {pidFile, None}
  BY DEF StopRemovesState, StopRemovesPid, serverVars
<1>3. k = "stop" /\ p \in asked /\ ~Opening("http", p) /\ http # p
  BY <1>1 DEF IInv, CommandsFit, HasSeenItDown, HasItsTarget
<1>4. p \in Pids /\ proc[p] \notin Starting
  BY <1>3 DEF IInv, TypeOK, ServersFit
<1>5. TypeOK'
  BY <1>1, <1>2 DEF IInv, TypeOK, Becomes
<1>6. ServersFit'
  BY <1>2 DEF IInv, ServersFit, Opening, Alive
<1>7. CommandsFit'
  BY <1>1, <1>2, <1>3
  DEF IInv, CommandsFit, Becomes, HasItsTarget, HasSeenItDown, Opening
<1>8. ASSUME LoneServer PROVE LoneServer'
  <2>1. \A q \in Pids : Alive(q) => q = p
    BY <1>1, <1>8 DEF LoneServer, Removing
  <2>2. \A q \in Pids : /\ proc[q] # "pid" /\ proc[q] # "init"
                        /\ ~Opening("http", q) /\ http # q
    BY <1>3, <1>4, <2>1 DEF IInv, ServersFit, Alive, Starting
  <2>3. \A d \in Cmds : /\ cmd'[d].at \in Removing => cmd[d].at \in Removing
                        /\ cmd'[d].seen = cmd[d].seen
    BY <1>1 DEF Becomes, Removing
  <2> QED BY <1>2, <1>8, <2>2, <2>3 DEF LoneServer, Opening, Alive
<1> QED BY <1>2, <1>5, <1>6, <1>7, <1>8 DEF IInv

LEMMA SpawnsKeepInv ==
    ASSUME IInv, NEW c \in Cmds, NEW p \in Pids, Spawn(c, p)
    PROVE  IInv'
<1>1. /\ proc' \in [Pids -> Stages] /\ overlapped' \in BOOLEAN
      /\ ServersFit'
      /\ \/ overlapped'
         \/ /\ \A q \in Pids : Alive(q)' => q = p
            /\ \A d \in Cmds \ {c} : cmd[d].at \notin Removing
            /\ LoneServer
  BY Births DEF IInv, Spawn
<1>2. UNCHANGED <<asked, binding, http, ssh, stateFile, pidFile>>
      /\ Step(p, "unborn", "boot")
  BY DEF Spawn, Born, fileVars
<1>3. cmd[c].at = "spawn" /\ Becomes(c, "poll", cmd[c].kind, cmd[c].seen)
  <2>1. "poll" \in CmdStages
    BY DEF CmdStages
  <2> QED BY <2>1, Advances DEF IInv, TypeOK, Spawn
<1>4. TypeOK'
  BY <1>1, <1>2, <1>3 DEF IInv, TypeOK, Becomes
<1>5. CommandsFit'
  BY <1>2, <1>3
  DEF IInv, CommandsFit, Becomes, HasItsTarget, HasSeenItDown, Opening
<1>6. ASSUME ~overlapped' PROVE LoneServer'
  <2>1. \A d \in Cmds : cmd'[d].at \notin Removing
    BY <1>1, <1>3, <1>6 DEF Becomes, Removing
  <2> QED BY <1>1, <1>2, <1>6, <2>1
    DEF IInv, TypeOK, LoneServer, Opening, Step
<1> QED BY <1>1, <1>4, <1>5, <1>6 DEF IInv

-----------------------------------------------------------------------------
LEMMA NextInv == IInv /\ [Next]_vars => IInv'
<1> SUFFICES ASSUME IInv, [Next]_vars PROVE IInv'
  OBVIOUS
<1>1. ASSUME NEW p \in Pids, ServerStep(p) \/ Serve(p) \/ Signal(p) \/ Crash(p)
      PROVE  IInv'
  BY <1>1, ServerStepsKeepInv, ServeKeepsInv
<1>2. ASSUME NEW c \in Cmds, CmdStep(c)
      PROVE  IInv'
  BY <1>2, LoadsKeepInv, OtherStepsKeepInv, PostsKeepInv, RemovalsKeepInv,
     SpawnsKeepInv DEF CmdStep
<1>3. ASSUME NEW c \in Cmds, NEW k \in Kinds, Begin(c, k)
      PROVE  IInv'
  BY <1>3, BeginKeepsInv
<1>4. CASE UNCHANGED vars
  <2>1. TypeOK' /\ ServersFit' /\ CommandsFit'
    BY <1>4 DEF IInv, vars, TypeOK, ServersFit, CommandsFit, HasItsTarget,
                HasSeenItDown, Opening, Alive
  <2>2. LoneServer => LoneServer'
    BY <1>4 DEF vars, LoneServer, Opening, Alive
  <2> QED BY <1>4, <2>1, <2>2 DEF IInv, vars
<1> QED BY <1>1, <1>2, <1>3, <1>4 DEF Next

(* Files, ports, processes and what commands know fit together, for any     *)
(* number of processes and commands in any interleaving.                    *)
THEOREM Inductive == Spec => []IInv
<1> QED BY InitInv, NextInv, PTL DEF Spec

(* Every variable keeps its type.                                           *)
THEOREM TypeCorrect == Spec => []TypeOK
<1>1. IInv => TypeOK
  BY DEF IInv
<1> QED BY <1>1, Inductive, PTL

(* A stop that succeeds was accepted by the process whose state it had read *)
(* and that process has left the HTTP port for good (control.go, runStop).  *)
THEOREM StopReachesItsTarget == Spec => []StopSucceedsOnItsTargetOnly
<1>1. IInv => StopSucceedsOnItsTargetOnly
  BY DEF IInv, CommandsFit, HasSeenItDown, HasItsTarget, ServersFit, Starting,
         StopSucceedsOnItsTargetOnly
<1> QED BY <1>1, Inductive, PTL

(* Without overlapping starts, the files describe the server that owns the  *)
(* HTTP port, and that server has the SSH port once it has bound it.        *)
THEOREM LoneServerIsFound == Spec => []LoneServerIsDiscoverable
<1>1. IInv => LoneServerIsDiscoverable
  BY DEF IInv, LoneServer, ServersFit, Opening, LoneServerIsDiscoverable
<1> QED BY <1>1, Inductive, PTL

(* The core of EveryServerServesOrEnds and AskedServersEnd: a process that  *)
(* has come to serve serves, has not tried to bind the port yet, or was     *)
(* told to stop, so that it never waits on shutdownCh for nothing, whoever  *)
(* took the port before it, closed it or crashed with it (serve.go:142-174),*)
(* and one that is not alive holds no port.                                 *)
NoServerIsHalfAlive ==
    \A p \in Pids :
        /\ proc[p] = "serve" => http = p \/ <<"http", p>> \in binding \/ p \in asked
        /\ ~Alive(p) => http # p /\ ssh # p

(* Nobody lingers without the port and without an order to stop.            *)
THEOREM NobodyIsHalfAlive == Spec => []NoServerIsHalfAlive
<1>1. IInv => NoServerIsHalfAlive
  BY DEF IInv, ServersFit, Opening, Alive, NoServerIsHalfAlive
<1> QED BY <1>1, Inductive, PTL

-----------------------------------------------------------------------------
(* What a process has still to do                                           *)

Pending(port, p) == IF Opening(port, p) THEN 1 ELSE 0

StageLeft == [unborn |-> 13, boot |-> 12, rewrite |-> 11, pid |-> 10, init |-> 9,
              serve |-> 6, clean |-> 5, rmState |-> 4, rmPid |-> 3, close |-> 2,
              gone |-> 0]

LeftToDo(p) == StageLeft[proc[p]] + Pending("http", p) + Pending("ssh", p)

LEMMA OwnStepsWork ==
    ASSUME TypeOK, ServersFit, NEW p \in Pids, ServerStep(p)
    PROVE  LeftToDo(p)' < LeftToDo(p)
<1> USE DEF LeftToDo, Pending, StageLeft, Opening
<1>1. CASE BootFails(p) \/ TruncateState(p) \/ WriteState(p) \/ WritePid(p)
  BY <1>1 DEF BootFails, TruncateState, WriteState, WritePid, Step, TypeOK
<1>2. CASE Initialise(p)
  <2>1. ~Opening("http", p) /\ ~Opening("ssh", p)
    BY <1>2 DEF Initialise, Step, ServersFit, Starting
  <2> QED BY <1>2, <2>1 DEF Initialise, Step, TypeOK
<1>3. CASE BindHttp(p) \/ BindSsh(p)
  BY <1>3 DEF BindHttp, BindSsh, TypeOK, Stages
<1>4. CASE BeginShutdown(p)
  BY <1>4 DEF BeginShutdown, Step, TypeOK
<1>5. CASE ReadPid(p) \/ RemoveState(p) \/ RemovePid(p)
  BY <1>5 DEF ReadPid, RemoveState, RemovePid, Step, TypeOK
<1>6. CASE Exit(p)
  BY <1>6 DEF Exit, Release, TypeOK
<1> QED BY <1>1, <1>2, <1>3, <1>4, <1>5, <1>6 DEF ServerStep

(* No loop: every step of a server's own uses up part of a fixed amount of  *)
(* work, and no step of anybody gives it more, so that with                 *)
(* NoServerIsHalfAlive a server that runs comes to own the HTTP port or to  *)
(* its end, and to its end if it was asked (serve.go, runServe).            *)
THEOREM ServersWearOut ==
    Spec => [][\A p \in Pids :
                  /\ ServerStep(p) => LeftToDo(p)' < LeftToDo(p)
                  /\ LeftToDo(p)' <= LeftToDo(p)]_vars
<1>1. ASSUME TypeOK, ServersFit, [Next]_vars, NEW p \in Pids
      PROVE  LeftToDo(p)' <= LeftToDo(p)
  <2> USE DEF LeftToDo, Pending, StageLeft, Opening
  <2>0. proc[p] \in Stages
    BY <1>1 DEF TypeOK
  <2>1. CASE ServerStep(p)
    <3>1. LeftToDo(p)' < LeftToDo(p)
      BY <1>1, <2>1, OwnStepsWork
    <3>2. LeftToDo(p) \in Int /\ LeftToDo(p)' \in Int
      <4>1. TypeOK'
        BY <1>1, <2>1, StepTypes
      <4> QED BY <2>0, <4>1 DEF TypeOK, Stages
    <3> HIDE DEF LeftToDo
    <3> QED BY <3>1, <3>2
  <2>2. ASSUME NEW q \in Pids, q # p, ServerStep(q) \/ Crash(q)
        PROVE  proc'[p] = proc[p] /\ (Opening("http", p) <=> Opening("http", p)')
                                 /\ (Opening("ssh", p) <=> Opening("ssh", p)')
    BY <1>1, <2>2 DEF ServerStep, BootFails, TruncateState, WriteState, WritePid,
         Initialise, BindHttp, BindSsh, BeginShutdown, ReadPid, RemoveState, RemovePid,
         Exit, Crash, Release, Step, TypeOK
  <2>3. ASSUME NEW q \in Pids, ServerStep(q) \/ Crash(q)
        PROVE  LeftToDo(p)' <= LeftToDo(p)
    <3>1. CASE q = p /\ Crash(q)
      BY <1>1, <2>0, <3>1 DEF Crash, Release, TypeOK, Stages
    <3>2. CASE q # p
      BY <2>0, <2>2, <2>3, <3>2 DEF Stages
    <3> QED BY <2>1, <2>3, <3>1, <3>2
  <2>4. ASSUME NEW q \in Pids, NEW others, Born(q, others)
        PROVE  LeftToDo(p)' <= LeftToDo(p)
    BY <1>1, <2>0, <2>4 DEF Born, Step, Stages, TypeOK
  <2>5. CASE UNCHANGED <<proc, binding>>
    BY <2>0, <2>5 DEF Stages
  <2>6. ASSUME NEW q \in Pids, Signal(q) PROVE UNCHANGED <<proc, binding>>
    BY <2>6 DEF Signal
  <2>7. ASSUME NEW c \in Cmds, CmdStep(c), ~\E q \in Pids : Spawn(c, q)
        PROVE  UNCHANGED <<proc, binding>>
    BY <2>7 DEF CmdStep, ReadsState, ChecksHealth, Posts, PostFails, SeesItDown,
       WaitTimesOut, StopRemovesState, StopRemovesPid, Polls, PollsHealth,
       PollTimesOut, serverVars
  <2>8. ASSUME NEW c \in Cmds, NEW k \in Kinds, Begin(c, k)
        PROVE  UNCHANGED <<proc, binding>>
    BY <2>8 DEF Begin, serverVars
  <2> HIDE DEF LeftToDo
  <2> QED BY <1>1, <2>3, <2>4, <2>5, <2>6, <2>7, <2>8 DEF Next, Serve, Spawn, vars
<1>2. IInv /\ [Next]_vars
        => [\A p \in Pids :
               /\ ServerStep(p) => LeftToDo(p)' < LeftToDo(p)
               /\ LeftToDo(p)' <= LeftToDo(p)]_vars
  <2> HIDE DEF LeftToDo
  <2> QED BY <1>1, OwnStepsWork DEF IInv
<1> QED BY <1>2, Inductive, PTL DEF Spec
=============================================================================
