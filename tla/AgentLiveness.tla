--------------------------- MODULE AgentLiveness ---------------------------
(***************************************************************************)
(* The agents table as a failure detector: an agent (cmd/agent/main.go)    *)
(* registers, then posts a heartbeat on every tick of its ticker; the      *)
(* server's handlers Register and Heartbeat stamp its row; and the stale   *)
(* checker marks the rows it has not heard of for two HeartbeatTTL as      *)
(* offline (internal/agent/manager.go, internal/store/store.go).           *)
(*                                                                         *)
(* Time is discrete.  Timers are punctual: time does not pass a tick that  *)
(* is due.  A request may be late or lost, the answer to it may be lost,   *)
(* the server may stop and start, an agent may vanish and come back with   *)
(* its token or register again, and a statement may fail.                  *)
(***************************************************************************)
EXTENDS Integers

CONSTANTS
    Agents,     \* agent processes
    Rows,       \* ids of table agents; bounds how often agents register
    None,       \* no row
    TTL,        \* Agent.HeartbeatTTL
    Beat,       \* period of the agent's ticker, 30 seconds in main.go
    Delay,      \* how long a request and its answer take when all is well
    Horizon     \* bound on the clock

ASSUME NoneIsNoRow == None \notin Rows
ASSUME Periods ==
    /\ TTL \in Nat \ {0} /\ Beat \in Nat \ {0} /\ Delay \in Nat
    /\ Horizon \in Nat

(* What the defaults (TTL 60 s, Beat 30 s) leave to the network.            *)
ASSUME BeatsFitTheTTL == Beat + 2 * Delay <= 2 * TTL

VARIABLES
    now,        \* the clock
    server,     \* whether the server process is up
    check,      \* when the stale checker's ticker fires next
    cutoff,     \* what the checker has computed, or -1 - 2 * TTL when idle
    status,     \* agents.status: "absent", "online" or "offline"
    seen,       \* agents.last_seen
    at,         \* what each agent process does
    token,      \* the row whose token an agent process holds
    tick,       \* when an agent's ticker fires next
    deadline,   \* when the request an agent has under way becomes late
    regular,    \* history: agents heard of, and nothing went wrong since
    checked     \* history: the latest check since the start succeeded

serverVars == <<server, check, cutoff, checked>>
rowVars == <<status, seen>>
agentVars == <<at, token, tick, deadline>>
vars == <<now, server, check, cutoff, status, seen, at, token, tick, deadline,
          regular, checked>>

-----------------------------------------------------------------------------
NoCutoff == -1 - 2 * TTL
AgentStages == {"off", "register", "registered", "idle", "sent", "found",
                "answered", "lost"}
Waiting == AgentStages \ {"off", "idle"}

TypeOK ==
    /\ now \in Nat
    /\ server \in BOOLEAN
    /\ check \in Nat
    /\ cutoff \in Int
    /\ status \in [Rows -> {"absent", "online", "offline"}]
    /\ seen \in [Rows -> Nat]
    /\ at \in [Agents -> AgentStages]
    /\ token \in [Agents -> Rows \cup {None}]
    /\ tick \in [Agents -> Nat]
    /\ deadline \in [Agents -> Nat]
    /\ regular \in SUBSET Agents
    /\ checked \in BOOLEAN

Init ==
    /\ now = 0
    /\ server = TRUE /\ check = TTL /\ cutoff = NoCutoff /\ checked = FALSE
    /\ status = [r \in Rows |-> "absent"]
    /\ seen = [r \in Rows |-> 0]
    /\ at = [a \in Agents |-> "off"]
    /\ token = [a \in Agents |-> None]
    /\ tick = [a \in Agents |-> 0]
    /\ deadline = [a \in Agents |-> 0]
    /\ regular = {}

-----------------------------------------------------------------------------
(* The agent process                                                        *)

Goto(a, stage) == at' = [at EXCEPT ![a] = stage]

Ask(a, stage) == Goto(a, stage) /\ deadline' = [deadline EXCEPT ![a] = now + Delay]

(* Started without -agent-token: it registers, under any name, again.       *)
StartsAfresh(a) ==
    /\ at[a] = "off"
    /\ Ask(a, "register")
    /\ token' = [token EXCEPT ![a] = None]
    /\ UNCHANGED <<now, serverVars, rowVars, tick, regular>>

StartsTicking(a) == tick' = [tick EXCEPT ![a] = now + Beat]

(* Started with the token of an earlier registration.                       *)
StartsWithToken(a) ==
    /\ at[a] = "off" /\ token[a] # None
    /\ Goto(a, "idle") /\ StartsTicking(a)
    /\ UNCHANGED <<now, serverVars, rowVars, token, deadline, regular>>

(* The answer arrives; the ticker is made.                                  *)
Registered(a) ==
    /\ at[a] = "registered"
    /\ Goto(a, "idle") /\ StartsTicking(a)
    /\ UNCHANGED <<now, serverVars, rowVars, token, deadline, regular>>

(* The ticker fires.  Ticks that passed during the last request are dropped *)
(* but for one: the next one is the first of its sequence after now.        *)
SendsBeat(a) ==
    /\ at[a] = "idle" /\ tick[a] <= now
    /\ Ask(a, "sent")
    /\ \E t \in (now + 1) .. (now + Beat) :
          /\ (t - tick[a]) % Beat = 0
          /\ tick' = [tick EXCEPT ![a] = t]
    /\ UNCHANGED <<now, serverVars, rowVars, token, regular>>

GetsAnswer(a) ==
    /\ at[a] = "answered"
    /\ Goto(a, "idle")
    /\ UNCHANGED <<now, serverVars, rowVars, token, tick, deadline, regular>>

(* A request, or its answer, is lost, or the server answers with an error:  *)
(* a failed registration ends the agent, a failed heartbeat is printed.     *)
RequestFails(a) ==
    /\ at[a] \in Waiting
    /\ IF at[a] \in {"register", "registered"}
          THEN Goto(a, "off") /\ token' = [token EXCEPT ![a] = None]
          ELSE Goto(a, "idle") /\ UNCHANGED token
    /\ regular' = regular \ {a}
    /\ UNCHANGED <<now, serverVars, rowVars, tick, deadline>>

(* http.Post has no timeout: a request may take any time.                   *)
GetsLate(a) ==
    /\ at[a] \in Waiting /\ a \in regular /\ deadline[a] <= now
    /\ regular' = regular \ {a}
    /\ UNCHANGED <<now, serverVars, rowVars, agentVars>>

(* SIGINT, SIGTERM or a crash; a token it has printed can be used again.    *)
Vanishes(a) ==
    /\ at[a] # "off"
    /\ Goto(a, "off")
    /\ regular' = regular \ {a}
    /\ UNCHANGED <<now, serverVars, rowVars, token, tick, deadline>>

-----------------------------------------------------------------------------
(* The server                                                               *)

(* Manager.Register inserts a new row, whoever registered before.           *)
Register(a, r) ==
    /\ server /\ at[a] = "register" /\ status[r] = "absent"
    /\ status' = [status EXCEPT ![r] = "online"]
    /\ seen' = [seen EXCEPT ![r] = now]
    /\ token' = [token EXCEPT ![a] = r]
    /\ Goto(a, "registered")
    /\ regular' = IF now <= deadline[a] THEN regular \cup {a} ELSE regular
    /\ UNCHANGED <<now, serverVars, tick, deadline>>

(* Manager.Heartbeat finds the row by the token ...                         *)
FindsAgent(a) ==
    /\ server /\ at[a] = "sent"
    /\ status[token[a]] # "absent"
    /\ Goto(a, "found")
    /\ UNCHANGED <<now, serverVars, rowVars, token, tick, deadline, regular>>

(* Mutant: last_seen is stamped, status is not.                             *)
StampsOnly(a) ==
    /\ server /\ at[a] = "found"
    /\ seen' = [seen EXCEPT ![token[a]] = now]
    /\ Goto(a, "answered")
    /\ regular' = IF now <= deadline[a] THEN regular \cup {a} ELSE regular
    /\ UNCHANGED <<now, serverVars, status, token, tick, deadline>>

(* ... and stamps it.                                                       *)
AgentHeartbeat(a) ==
    /\ server /\ at[a] = "found"
    /\ status' = [status EXCEPT ![token[a]] = "online"]
    /\ seen' = [seen EXCEPT ![token[a]] = now]
    /\ Goto(a, "answered")
    /\ regular' = IF now <= deadline[a] THEN regular \cup {a} ELSE regular
    /\ UNCHANGED <<now, serverVars, token, tick, deadline>>

(* The statement fails, and the answer says ok all the same.                *)
HeartbeatDropped(a) ==
    /\ server /\ at[a] = "found"
    /\ Goto(a, "answered")
    /\ regular' = regular \ {a}
    /\ UNCHANGED <<now, serverVars, rowVars, token, tick, deadline>>

(* Mutant: one TTL of silence is enough.                                    *)
OneTTL == now - TTL

StaleBefore == now - 2 * TTL

(* StartStaleChecker: the ticker fires and the cut-off is computed ...      *)
ComputesCutoff ==
    /\ server /\ cutoff = NoCutoff /\ check <= now
    /\ cutoff' = StaleBefore
    /\ check' = check + TTL
    /\ UNCHANGED <<now, server, checked, rowVars, agentVars, regular>>

(* Mutant: rows left behind by an agent that registered again are skipped.  *)
IsStaleAfterBeat(r) ==
    /\ status[r] = "online" /\ seen[r] < cutoff
    /\ \E a \in Agents : token[a] = r

IsStale(r) == status[r] = "online" /\ seen[r] < cutoff

(* Mutant: another status is written.                                       *)
MarkStale ==
    /\ server /\ cutoff # NoCutoff
    /\ status' = [r \in Rows |-> IF IsStale(r) THEN "stale" ELSE status[r]]
    /\ cutoff' = NoCutoff
    /\ checked' = TRUE
    /\ UNCHANGED <<now, server, check, seen, agentVars, regular>>

(* ... then the rows are updated, all in one statement.                     *)
MarkStaleAgentsOffline ==
    /\ server /\ cutoff # NoCutoff
    /\ status' = [r \in Rows |-> IF IsStale(r) THEN "offline" ELSE status[r]]
    /\ cutoff' = NoCutoff
    /\ checked' = TRUE
    /\ UNCHANGED <<now, server, check, seen, agentVars, regular>>

MarkFails ==
    /\ server /\ cutoff # NoCutoff
    /\ cutoff' = NoCutoff
    /\ checked' = FALSE
    /\ UNCHANGED <<now, server, check, rowVars, agentVars, regular>>

Interrupted(stage) ==
    IF stage = "register" THEN "off"
    ELSE IF stage \in {"sent", "found"} THEN "lost" ELSE stage

(* The process ends, orderly or not, and its requests are lost; an agent    *)
(* may hear of that at any time.                                            *)
Stop ==
    /\ server
    /\ server' = FALSE /\ cutoff' = NoCutoff /\ checked' = FALSE
    /\ regular' = {}
    /\ at' = [a \in Agents |-> Interrupted(at[a])]
    /\ UNCHANGED <<now, check, rowVars, token, tick, deadline>>

Start ==
    /\ ~server
    /\ server' = TRUE /\ check' = now + TTL
    /\ UNCHANGED <<now, cutoff, checked, rowVars, agentVars, regular>>

-----------------------------------------------------------------------------
(* Timers are punctual, and the request of a regular agent is not late.     *)
Tick ==
    /\ now < Horizon
    /\ server => now < check /\ cutoff = NoCutoff
    /\ \A a \in Agents :
          /\ at[a] = "idle" => now < tick[a]
          /\ a \in regular /\ at[a] \in Waiting => now < deadline[a]
    /\ now' = now + 1
    /\ UNCHANGED <<serverVars, rowVars, agentVars, regular>>

AgentStep(a) ==
    \/ StartsAfresh(a) \/ StartsWithToken(a) \/ Registered(a)
    \/ SendsBeat(a) \/ GetsAnswer(a)
    \/ RequestFails(a) \/ GetsLate(a) \/ Vanishes(a)

HandlerStep(a) ==
    \/ \E r \in Rows : Register(a, r)
    \/ FindsAgent(a) \/ AgentHeartbeat(a) \/ HeartbeatDropped(a)

CheckerStep == ComputesCutoff \/ MarkStaleAgentsOffline \/ MarkFails

Next ==
    \/ Tick
    \/ \E a \in Agents : AgentStep(a) \/ HandlerStep(a)
    \/ CheckerStep
    \/ Stop \/ Start

Spec == Init /\ [][Next]_vars

-----------------------------------------------------------------------------
(* No false alarm lasts: an agent shown as offline has been silent for more *)
(* than two TTL, also when its heartbeat and the stale check overlap.       *)
OfflineMeansSilent ==
    \A r \in Rows : status[r] = "offline" => seen[r] + 2 * TTL < now

(* No flapping: an agent that was heard of, and whose requests have come    *)
(* through in time since, is shown as online, whatever happened before and  *)
(* however its ticker and the checker's interleave.                         *)
RegularAgentsAreOnline ==
    \A a \in regular : token[a] \in Rows /\ status[token[a]] = "online"

(* Silence is noticed: once a check has succeeded, and as long as none      *)
(* fails, no row shown as online has been silent for more than three TTL,   *)
(* rows that lost their agent to a new registration included.               *)
SilentAgentsAreNoticed ==
    server /\ checked =>
        \A r \in Rows : status[r] = "online" => now - seen[r] <= 3 * TTL

(* Every row is kept as by an atomic FailureDetector, although a check is   *)
(* two steps that heartbeats come between, heartbeats are two steps that    *)
(* checks come between, and either may fail or be cut off: only a heartbeat *)
(* or a registration makes a row online, only a check that finds it silent  *)
(* for more than two TTL makes it offline, and none is forgotten            *)
(* (manager.go, Register, Heartbeat and StartStaleChecker; store.go,        *)
(* MarkStaleAgentsOffline).                                                 *)
Detector(r) ==
    INSTANCE FailureDetector WITH
        verdict <- status[r], silence <- now - seen[r],
        watched <- server /\ checked, Grace <- 2 * TTL, Limit <- 3 * TTL

RowsAreDetectors ==
    /\ \A r \in Rows : Detector(r)!Init
    /\ [][\A r \in Rows : [Detector(r)!Next]_(Detector(r)!vars)]_vars
=============================================================================
