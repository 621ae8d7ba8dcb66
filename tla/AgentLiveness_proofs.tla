----------------------- MODULE AgentLiveness_proofs -----------------------
(***************************************************************************)
(* Proofs about AgentLiveness, for any agents and rows and any periods     *)
(* with Beat + 2 * Delay <= 2 * TTL: what its three invariants say.        *)
(***************************************************************************)
EXTENDS AgentLiveness, TLAPS

(* A token that is held names a row, and a process that works holds one.    *)
TokensNameRows ==
    \A a \in Agents :
        /\ token[a] # None => status[token[a]] # "absent"
        /\ at[a] \notin {"off", "register"} => token[a] # None

(* Nothing is stamped later than now.                                       *)
StampsArePast == \A r \in Rows : seen[r] <= now

(* The checker's ticker is never overdue, and a cut-off is fresh.           *)
CheckIsPunctual ==
    /\ ~server => cutoff = NoCutoff /\ ~checked
    /\ server => now <= check /\ check <= now + TTL
    /\ cutoff # NoCutoff => cutoff = now - 2 * TTL /\ check = now + TTL

(* What a successful check leaves behind, until the next one and during it. *)
OnlineAtLastCheck ==
    server /\ checked =>
        \A r \in Rows : status[r] = "online" =>
            /\ seen[r] >= check - 4 * TTL
            /\ cutoff = NoCutoff => seen[r] >= check - 3 * TTL

(* Where a request stands against its agent's ticker.                       *)
RequestsAreFresh ==
    \A a \in Agents :
        /\ at[a] \in {"register", "sent", "found"} => deadline[a] <= now + Delay
        /\ at[a] \in {"sent", "found"} => tick[a] <= deadline[a] - Delay + Beat

(* How long ago a regular agent was heard of, at each point of its loop.    *)
RegularBound(a) ==
    /\ at[a] \in {"idle", "registered", "sent", "found", "answered"}
    /\ token[a] \in Rows
    /\ status[token[a]] = "online"
    /\ at[a] = "idle" =>
          /\ tick[a] <= seen[token[a]] + Delay + Beat
          /\ now <= tick[a] \/ now <= seen[token[a]] + Delay
    /\ at[a] = "registered" =>
          now <= deadline[a] /\ deadline[a] <= seen[token[a]] + Delay
    /\ at[a] \in {"sent", "found"} =>
          now <= deadline[a] /\ deadline[a] <= seen[token[a]] + 2 * Delay + Beat
    /\ at[a] = "answered" =>
          /\ now <= deadline[a] /\ deadline[a] <= seen[token[a]] + Delay
          /\ tick[a] <= seen[token[a]] + Beat

RegularAgentsAreRecent == \A a \in regular : RegularBound(a)

IInv ==
    /\ TypeOK /\ TokensNameRows /\ StampsArePast /\ CheckIsPunctual
    /\ OfflineMeansSilent /\ OnlineAtLastCheck /\ RequestsAreFresh
    /\ RegularAgentsAreRecent

-----------------------------------------------------------------------------
(* What the invariant is for: the three properties.                         *)
LEMMA Consequences == ASSUME IInv PROVE RegularAgentsAreOnline /\ SilentAgentsAreNoticed
<1>1. RegularAgentsAreOnline
  BY DEF IInv, RegularAgentsAreRecent, RegularBound, RegularAgentsAreOnline
<1>2. SilentAgentsAreNoticed
  BY Periods DEF IInv, TypeOK, OnlineAtLastCheck, CheckIsPunctual, SilentAgentsAreNoticed
<1> QED BY <1>1, <1>2

(* A regular agent's row is too fresh for the cut-off of a check.           *)
LEMMA RegularIsNotStale ==
    ASSUME IInv, NEW a \in regular, cutoff # NoCutoff
    PROVE  ~IsStale(token[a])
<1>1. /\ RegularBound(a) /\ a \in Agents /\ token[a] \in Rows
      /\ tick[a] \in Int /\ deadline[a] \in Int /\ seen[token[a]] \in Int
      /\ now \in Int /\ TTL \in Int /\ Beat \in Nat /\ Delay \in Nat
  BY Periods DEF IInv, RegularAgentsAreRecent, TypeOK, RegularBound
<1>2. now <= seen[token[a]] + Beat + 2 * Delay
  BY <1>1 DEF RegularBound
<1>3. cutoff = now - 2 * TTL
  BY DEF IInv, CheckIsPunctual
<1> QED BY <1>1, <1>2, <1>3, BeatsFitTheTTL DEF IsStale

LEMMA InitIInv == ASSUME Init PROVE IInv
<1>1. server \in BOOLEAN /\ checked \in BOOLEAN
  BY DEF Init
<1>2. check \in Nat /\ now \in Nat /\ cutoff \in Int /\ CheckIsPunctual
  BY Periods DEF Init, CheckIsPunctual, NoCutoff
<1>3. TypeOK
  BY <1>1, <1>2 DEF Init, TypeOK, AgentStages
<1> QED BY <1>2, <1>3 DEF Init, IInv, TokensNameRows, StampsArePast,
           OfflineMeansSilent, OnlineAtLastCheck, RequestsAreFresh,
           RegularAgentsAreRecent

(* The steps of an agent process keep the invariant.                        *)
LEMMA AgentIInv ==
    ASSUME IInv, NEW a \in Agents, AgentStep(a)
    PROVE  IInv'
<1> USE DEF serverVars, rowVars, agentVars
<1>1. CASE StartsAfresh(a)
  <2>1. TypeOK'
    BY <1>1, Periods, NoneIsNoRow DEF IInv, StartsAfresh, Goto, Ask, TypeOK,
       AgentStages
  <2>2. TokensNameRows'
    BY <1>1, Periods, NoneIsNoRow DEF IInv, StartsAfresh, Goto, Ask, TypeOK,
       TokensNameRows
  <2>3. StampsArePast'
    BY <1>1, Periods DEF IInv, StartsAfresh, Goto, Ask, TypeOK, StampsArePast
  <2>4. CheckIsPunctual'
    BY <1>1, Periods DEF IInv, StartsAfresh, Goto, Ask, TypeOK,
       CheckIsPunctual, NoCutoff
  <2>5. OfflineMeansSilent'
    BY <1>1, Periods DEF IInv, StartsAfresh, Goto, Ask, TypeOK,
       OfflineMeansSilent
  <2>6. OnlineAtLastCheck'
    BY <1>1, Periods DEF IInv, StartsAfresh, Goto, Ask, TypeOK,
       OnlineAtLastCheck, CheckIsPunctual
  <2>7. RequestsAreFresh'
    BY <1>1, Periods DEF IInv, StartsAfresh, Goto, Ask, TypeOK,
       RequestsAreFresh
  <2>8. RegularAgentsAreRecent'
    BY <1>1, Periods, NoneIsNoRow DEF IInv, StartsAfresh, Goto, Ask, TypeOK,
       RegularAgentsAreRecent, RegularBound, StampsArePast, RequestsAreFresh,
       TokensNameRows
  <2> QED BY <2>1, <2>2, <2>3, <2>4, <2>5, <2>6, <2>7, <2>8 DEF IInv
<1>2. CASE StartsWithToken(a)
  <2>1. TypeOK'
    BY <1>2, Periods, NoneIsNoRow DEF IInv, StartsWithToken, Goto,
       StartsTicking, TypeOK, AgentStages
  <2>2. TokensNameRows'
    BY <1>2, Periods, NoneIsNoRow DEF IInv, StartsWithToken, Goto,
       StartsTicking, TypeOK, TokensNameRows
  <2>3. StampsArePast'
    BY <1>2, Periods DEF IInv, StartsWithToken, Goto, StartsTicking, TypeOK,
       StampsArePast
  <2>4. CheckIsPunctual'
    BY <1>2, Periods DEF IInv, StartsWithToken, Goto, StartsTicking, TypeOK,
       CheckIsPunctual, NoCutoff
  <2>5. OfflineMeansSilent'
    BY <1>2, Periods DEF IInv, StartsWithToken, Goto, StartsTicking, TypeOK,
       OfflineMeansSilent
  <2>6. OnlineAtLastCheck'
    BY <1>2, Periods DEF IInv, StartsWithToken, Goto, StartsTicking, TypeOK,
       OnlineAtLastCheck, CheckIsPunctual
  <2>7. RequestsAreFresh'
    BY <1>2, Periods DEF IInv, StartsWithToken, Goto, StartsTicking, TypeOK,
       RequestsAreFresh
  <2>8. RegularAgentsAreRecent'
    BY <1>2, Periods, NoneIsNoRow DEF IInv, StartsWithToken, Goto,
       StartsTicking, TypeOK, RegularAgentsAreRecent, RegularBound,
       StampsArePast, RequestsAreFresh, TokensNameRows
  <2> QED BY <2>1, <2>2, <2>3, <2>4, <2>5, <2>6, <2>7, <2>8 DEF IInv
<1>3. CASE Registered(a)
  <2>1. TypeOK'
    BY <1>3, Periods, NoneIsNoRow DEF IInv, Registered, Goto, StartsTicking,
       TypeOK, AgentStages
  <2>2. TokensNameRows'
    BY <1>3, Periods, NoneIsNoRow DEF IInv, Registered, Goto, StartsTicking,
       TypeOK, TokensNameRows
  <2>3. StampsArePast'
    BY <1>3, Periods DEF IInv, Registered, Goto, StartsTicking, TypeOK,
       StampsArePast
  <2>4. CheckIsPunctual'
    BY <1>3, Periods DEF IInv, Registered, Goto, StartsTicking, TypeOK,
       CheckIsPunctual, NoCutoff
  <2>5. OfflineMeansSilent'
    BY <1>3, Periods DEF IInv, Registered, Goto, StartsTicking, TypeOK,
       OfflineMeansSilent
  <2>6. OnlineAtLastCheck'
    BY <1>3, Periods DEF IInv, Registered, Goto, StartsTicking, TypeOK,
       OnlineAtLastCheck, CheckIsPunctual
  <2>7. RequestsAreFresh'
    BY <1>3, Periods DEF IInv, Registered, Goto, StartsTicking, TypeOK,
       RequestsAreFresh
  <2>8. RegularAgentsAreRecent'
    BY <1>3, Periods, NoneIsNoRow DEF IInv, Registered, Goto, StartsTicking,
       TypeOK, RegularAgentsAreRecent, RegularBound, StampsArePast,
       RequestsAreFresh, TokensNameRows
  <2> QED BY <2>1, <2>2, <2>3, <2>4, <2>5, <2>6, <2>7, <2>8 DEF IInv
<1>4. CASE SendsBeat(a)
  <2>1. TypeOK'
    BY <1>4, Periods, NoneIsNoRow DEF IInv, SendsBeat, Goto, Ask, TypeOK,
       AgentStages
  <2>2. TokensNameRows'
    BY <1>4, Periods, NoneIsNoRow DEF IInv, SendsBeat, Goto, Ask, TypeOK,
       TokensNameRows
  <2>3. StampsArePast'
    BY <1>4, Periods DEF IInv, SendsBeat, Goto, Ask, TypeOK, StampsArePast
  <2>4. CheckIsPunctual'
    BY <1>4, Periods DEF IInv, SendsBeat, Goto, Ask, TypeOK, CheckIsPunctual,
       NoCutoff
  <2>5. OfflineMeansSilent'
    BY <1>4, Periods DEF IInv, SendsBeat, Goto, Ask, TypeOK,
       OfflineMeansSilent
  <2>6. OnlineAtLastCheck'
    BY <1>4, Periods DEF IInv, SendsBeat, Goto, Ask, TypeOK,
       OnlineAtLastCheck, CheckIsPunctual
  <2>7. RequestsAreFresh'
    BY <1>4, Periods DEF IInv, SendsBeat, Goto, Ask, TypeOK, RequestsAreFresh
  <2>8. RegularAgentsAreRecent'
    BY <1>4, Periods, NoneIsNoRow DEF IInv, SendsBeat, Goto, Ask, TypeOK,
       RegularAgentsAreRecent, RegularBound, StampsArePast, RequestsAreFresh,
       TokensNameRows
  <2> QED BY <2>1, <2>2, <2>3, <2>4, <2>5, <2>6, <2>7, <2>8 DEF IInv
<1>5. CASE GetsAnswer(a)
  <2>1. TypeOK'
    BY <1>5, Periods, NoneIsNoRow DEF IInv, GetsAnswer, Goto, TypeOK,
       AgentStages
  <2>2. TokensNameRows'
    BY <1>5, Periods, NoneIsNoRow DEF IInv, GetsAnswer, Goto, TypeOK,
       TokensNameRows
  <2>3. StampsArePast'
    BY <1>5, Periods DEF IInv, GetsAnswer, Goto, TypeOK, StampsArePast
  <2>4. CheckIsPunctual'
    BY <1>5, Periods DEF IInv, GetsAnswer, Goto, TypeOK, CheckIsPunctual,
       NoCutoff
  <2>5. OfflineMeansSilent'
    BY <1>5, Periods DEF IInv, GetsAnswer, Goto, TypeOK, OfflineMeansSilent
  <2>6. OnlineAtLastCheck'
    BY <1>5, Periods DEF IInv, GetsAnswer, Goto, TypeOK, OnlineAtLastCheck,
       CheckIsPunctual
  <2>7. RequestsAreFresh'
    BY <1>5, Periods DEF IInv, GetsAnswer, Goto, TypeOK, RequestsAreFresh
  <2>8. RegularAgentsAreRecent'
    BY <1>5, Periods, NoneIsNoRow DEF IInv, GetsAnswer, Goto, TypeOK,
       RegularAgentsAreRecent, RegularBound, StampsArePast, RequestsAreFresh,
       TokensNameRows
  <2> QED BY <2>1, <2>2, <2>3, <2>4, <2>5, <2>6, <2>7, <2>8 DEF IInv
<1>6. CASE RequestFails(a)
  <2>1. TypeOK'
    BY <1>6, Periods, NoneIsNoRow DEF IInv, RequestFails, Goto, Waiting,
       AgentStages, TypeOK
  <2>2. TokensNameRows'
    BY <1>6, Periods, NoneIsNoRow DEF IInv, RequestFails, Goto, Waiting,
       AgentStages, TypeOK, TokensNameRows
  <2>3. StampsArePast'
    BY <1>6, Periods DEF IInv, RequestFails, Goto, Waiting, AgentStages,
       TypeOK, StampsArePast
  <2>4. CheckIsPunctual'
    BY <1>6, Periods DEF IInv, RequestFails, Goto, Waiting, AgentStages,
       TypeOK, CheckIsPunctual, NoCutoff
  <2>5. OfflineMeansSilent'
    BY <1>6, Periods DEF IInv, RequestFails, Goto, Waiting, AgentStages,
       TypeOK, OfflineMeansSilent
  <2>6. OnlineAtLastCheck'
    BY <1>6, Periods DEF IInv, RequestFails, Goto, Waiting, AgentStages,
       TypeOK, OnlineAtLastCheck, CheckIsPunctual
  <2>7. RequestsAreFresh'
    BY <1>6, Periods DEF IInv, RequestFails, Goto, Waiting, AgentStages,
       TypeOK, RequestsAreFresh
  <2>8. RegularAgentsAreRecent'
    BY <1>6, Periods, NoneIsNoRow DEF IInv, RequestFails, Goto, Waiting,
       AgentStages, TypeOK, RegularAgentsAreRecent, RegularBound,
       StampsArePast, RequestsAreFresh, TokensNameRows
  <2> QED BY <2>1, <2>2, <2>3, <2>4, <2>5, <2>6, <2>7, <2>8 DEF IInv
<1>7. CASE GetsLate(a)
  <2>1. TypeOK'
    BY <1>7, Periods, NoneIsNoRow DEF IInv, GetsLate, Waiting, AgentStages,
       TypeOK
  <2>2. TokensNameRows'
    BY <1>7, Periods, NoneIsNoRow DEF IInv, GetsLate, Waiting, AgentStages,
       TypeOK, TokensNameRows
  <2>3. StampsArePast'
    BY <1>7, Periods DEF IInv, GetsLate, Waiting, AgentStages, TypeOK,
       StampsArePast
  <2>4. CheckIsPunctual'
    BY <1>7, Periods DEF IInv, GetsLate, Waiting, AgentStages, TypeOK,
       CheckIsPunctual, NoCutoff
  <2>5. OfflineMeansSilent'
    BY <1>7, Periods DEF IInv, GetsLate, Waiting, AgentStages, TypeOK,
       OfflineMeansSilent
  <2>6. OnlineAtLastCheck'
    BY <1>7, Periods DEF IInv, GetsLate, Waiting, AgentStages, TypeOK,
       OnlineAtLastCheck, CheckIsPunctual
  <2>7. RequestsAreFresh'
    BY <1>7, Periods DEF IInv, GetsLate, Waiting, AgentStages, TypeOK,
       RequestsAreFresh
  <2>8. RegularAgentsAreRecent'
    BY <1>7, Periods, NoneIsNoRow DEF IInv, GetsLate, Waiting, AgentStages,
       TypeOK, RegularAgentsAreRecent, RegularBound, StampsArePast,
       RequestsAreFresh, TokensNameRows
  <2> QED BY <2>1, <2>2, <2>3, <2>4, <2>5, <2>6, <2>7, <2>8 DEF IInv
<1>8. CASE Vanishes(a)
  <2>1. TypeOK'
    BY <1>8, Periods, NoneIsNoRow DEF IInv, Vanishes, Goto, TypeOK,
       AgentStages
  <2>2. TokensNameRows'
    BY <1>8, Periods, NoneIsNoRow DEF IInv, Vanishes, Goto, TypeOK,
       TokensNameRows
  <2>3. StampsArePast'
    BY <1>8, Periods DEF IInv, Vanishes, Goto, TypeOK, StampsArePast
  <2>4. CheckIsPunctual'
    BY <1>8, Periods DEF IInv, Vanishes, Goto, TypeOK, CheckIsPunctual,
       NoCutoff
  <2>5. OfflineMeansSilent'
    BY <1>8, Periods DEF IInv, Vanishes, Goto, TypeOK, OfflineMeansSilent
  <2>6. OnlineAtLastCheck'
    BY <1>8, Periods DEF IInv, Vanishes, Goto, TypeOK, OnlineAtLastCheck,
       CheckIsPunctual
  <2>7. RequestsAreFresh'
    BY <1>8, Periods DEF IInv, Vanishes, Goto, TypeOK, RequestsAreFresh
  <2>8. RegularAgentsAreRecent'
    BY <1>8, Periods, NoneIsNoRow DEF IInv, Vanishes, Goto, TypeOK,
       RegularAgentsAreRecent, RegularBound, StampsArePast, RequestsAreFresh,
       TokensNameRows
  <2> QED BY <2>1, <2>2, <2>3, <2>4, <2>5, <2>6, <2>7, <2>8 DEF IInv
<1> QED BY <1>1, <1>2, <1>3, <1>4, <1>5, <1>6, <1>7, <1>8 DEF AgentStep

(* The steps of a handler keep the invariant.                               *)
LEMMA HandlerIInv ==
    ASSUME IInv, NEW a \in Agents, HandlerStep(a)
    PROVE  IInv'
<1> USE DEF serverVars, rowVars, agentVars
<1>1. ASSUME NEW r \in Rows, Register(a, r) PROVE IInv'
  <2>1. TypeOK'
    BY <1>1, Periods, NoneIsNoRow DEF IInv, Register, Goto, TypeOK,
       AgentStages
  <2>2. TokensNameRows'
    BY <1>1, Periods, NoneIsNoRow DEF IInv, Register, Goto, TypeOK,
       TokensNameRows
  <2>3. StampsArePast'
    BY <1>1, Periods DEF IInv, Register, Goto, TypeOK, StampsArePast
  <2>4. CheckIsPunctual'
    BY <1>1, Periods DEF IInv, Register, Goto, TypeOK, CheckIsPunctual,
       NoCutoff
  <2>5. OfflineMeansSilent'
    BY <1>1, Periods DEF IInv, Register, Goto, TypeOK, OfflineMeansSilent
  <2>6. OnlineAtLastCheck'
    BY <1>1, Periods DEF IInv, Register, Goto, TypeOK, OnlineAtLastCheck,
       CheckIsPunctual
  <2>7. RequestsAreFresh'
    BY <1>1, Periods DEF IInv, Register, Goto, TypeOK, RequestsAreFresh
  <2>8. RegularAgentsAreRecent'
    BY <1>1, Periods, NoneIsNoRow DEF IInv, Register, Goto, TypeOK,
       RegularAgentsAreRecent, RegularBound, StampsArePast, RequestsAreFresh,
       TokensNameRows
  <2> QED BY <2>1, <2>2, <2>3, <2>4, <2>5, <2>6, <2>7, <2>8 DEF IInv
<1>2. CASE FindsAgent(a)
  <2>1. TypeOK'
    BY <1>2, Periods, NoneIsNoRow DEF IInv, FindsAgent, Goto, TypeOK,
       AgentStages
  <2>2. TokensNameRows'
    BY <1>2, Periods, NoneIsNoRow DEF IInv, FindsAgent, Goto, TypeOK,
       TokensNameRows
  <2>3. StampsArePast'
    BY <1>2, Periods DEF IInv, FindsAgent, Goto, TypeOK, StampsArePast
  <2>4. CheckIsPunctual'
    BY <1>2, Periods DEF IInv, FindsAgent, Goto, TypeOK, CheckIsPunctual,
       NoCutoff
  <2>5. OfflineMeansSilent'
    BY <1>2, Periods DEF IInv, FindsAgent, Goto, TypeOK, OfflineMeansSilent
  <2>6. OnlineAtLastCheck'
    BY <1>2, Periods DEF IInv, FindsAgent, Goto, TypeOK, OnlineAtLastCheck,
       CheckIsPunctual
  <2>7. RequestsAreFresh'
    BY <1>2, Periods DEF IInv, FindsAgent, Goto, TypeOK, RequestsAreFresh
  <2>8. RegularAgentsAreRecent'
    BY <1>2, Periods, NoneIsNoRow DEF IInv, FindsAgent, Goto, TypeOK,
       RegularAgentsAreRecent, RegularBound, StampsArePast, RequestsAreFresh,
       TokensNameRows
  <2> QED BY <2>1, <2>2, <2>3, <2>4, <2>5, <2>6, <2>7, <2>8 DEF IInv
<1>3. CASE AgentHeartbeat(a)
  <2>1. TypeOK'
    BY <1>3, Periods, NoneIsNoRow DEF IInv, AgentHeartbeat, Goto, TypeOK,
       AgentStages
  <2>2. TokensNameRows'
    BY <1>3, Periods, NoneIsNoRow DEF IInv, AgentHeartbeat, Goto, TypeOK,
       TokensNameRows
  <2>3. StampsArePast'
    BY <1>3, Periods DEF IInv, AgentHeartbeat, Goto, TypeOK, StampsArePast
  <2>4. CheckIsPunctual'
    BY <1>3, Periods DEF IInv, AgentHeartbeat, Goto, TypeOK, CheckIsPunctual,
       NoCutoff
  <2>5. OfflineMeansSilent'
    BY <1>3, Periods DEF IInv, AgentHeartbeat, Goto, TypeOK,
       OfflineMeansSilent
  <2>6. OnlineAtLastCheck'
    BY <1>3, Periods DEF IInv, AgentHeartbeat, Goto, TypeOK,
       OnlineAtLastCheck, CheckIsPunctual
  <2>7. RequestsAreFresh'
    BY <1>3, Periods DEF IInv, AgentHeartbeat, Goto, TypeOK, RequestsAreFresh
  <2>8. RegularAgentsAreRecent'
    BY <1>3, Periods, NoneIsNoRow DEF IInv, AgentHeartbeat, Goto, TypeOK,
       RegularAgentsAreRecent, RegularBound, StampsArePast, RequestsAreFresh,
       TokensNameRows
  <2> QED BY <2>1, <2>2, <2>3, <2>4, <2>5, <2>6, <2>7, <2>8 DEF IInv
<1>4. CASE HeartbeatDropped(a)
  <2>1. TypeOK'
    BY <1>4, Periods, NoneIsNoRow DEF IInv, HeartbeatDropped, Goto, TypeOK,
       AgentStages
  <2>2. TokensNameRows'
    BY <1>4, Periods, NoneIsNoRow DEF IInv, HeartbeatDropped, Goto, TypeOK,
       TokensNameRows
  <2>3. StampsArePast'
    BY <1>4, Periods DEF IInv, HeartbeatDropped, Goto, TypeOK, StampsArePast
  <2>4. CheckIsPunctual'
    BY <1>4, Periods DEF IInv, HeartbeatDropped, Goto, TypeOK,
       CheckIsPunctual, NoCutoff
  <2>5. OfflineMeansSilent'
    BY <1>4, Periods DEF IInv, HeartbeatDropped, Goto, TypeOK,
       OfflineMeansSilent
  <2>6. OnlineAtLastCheck'
    BY <1>4, Periods DEF IInv, HeartbeatDropped, Goto, TypeOK,
       OnlineAtLastCheck, CheckIsPunctual
  <2>7. RequestsAreFresh'
    BY <1>4, Periods DEF IInv, HeartbeatDropped, Goto, TypeOK,
       RequestsAreFresh
  <2>8. RegularAgentsAreRecent'
    BY <1>4, Periods, NoneIsNoRow DEF IInv, HeartbeatDropped, Goto, TypeOK,
       RegularAgentsAreRecent, RegularBound, StampsArePast, RequestsAreFresh,
       TokensNameRows
  <2> QED BY <2>1, <2>2, <2>3, <2>4, <2>5, <2>6, <2>7, <2>8 DEF IInv
<1> QED BY <1>1, <1>2, <1>3, <1>4 DEF HandlerStep

(* The steps of the stale checker keep the invariant.                       *)
LEMMA CheckerIInv ==
    ASSUME IInv, CheckerStep
    PROVE  IInv'
<1> USE DEF serverVars, rowVars, agentVars
<1>1. CASE ComputesCutoff
  <2>1. TypeOK'
    BY <1>1, Periods, NoneIsNoRow DEF IInv, ComputesCutoff, StaleBefore,
       NoCutoff, TypeOK, AgentStages
  <2>2. TokensNameRows'
    BY <1>1, Periods, NoneIsNoRow DEF IInv, ComputesCutoff, StaleBefore,
       NoCutoff, TypeOK, TokensNameRows
  <2>3. StampsArePast'
    BY <1>1, Periods DEF IInv, ComputesCutoff, StaleBefore, NoCutoff, TypeOK,
       StampsArePast
  <2>4. CheckIsPunctual'
    BY <1>1, Periods DEF IInv, ComputesCutoff, StaleBefore, NoCutoff, TypeOK,
       CheckIsPunctual
  <2>5. OfflineMeansSilent'
    BY <1>1, Periods DEF IInv, ComputesCutoff, StaleBefore, NoCutoff, TypeOK,
       OfflineMeansSilent
  <2>6. OnlineAtLastCheck'
    BY <1>1, Periods DEF IInv, ComputesCutoff, StaleBefore, NoCutoff, TypeOK,
       OnlineAtLastCheck, CheckIsPunctual
  <2>7. RequestsAreFresh'
    BY <1>1, Periods DEF IInv, ComputesCutoff, StaleBefore, NoCutoff, TypeOK,
       RequestsAreFresh
  <2>8. RegularAgentsAreRecent'
    BY <1>1, Periods, NoneIsNoRow DEF IInv, ComputesCutoff, StaleBefore,
       NoCutoff, TypeOK, RegularAgentsAreRecent, RegularBound, StampsArePast,
       RequestsAreFresh, TokensNameRows
  <2> QED BY <2>1, <2>2, <2>3, <2>4, <2>5, <2>6, <2>7, <2>8 DEF IInv
<1>2. CASE MarkStaleAgentsOffline
  <2>1. TypeOK'
    BY <1>2, Periods, NoneIsNoRow DEF IInv, MarkStaleAgentsOffline, IsStale,
       NoCutoff, TypeOK, AgentStages
  <2>2. TokensNameRows'
    BY <1>2, Periods, NoneIsNoRow DEF IInv, MarkStaleAgentsOffline, IsStale,
       NoCutoff, TypeOK, TokensNameRows
  <2>3. StampsArePast'
    BY <1>2, Periods DEF IInv, MarkStaleAgentsOffline, IsStale, NoCutoff,
       TypeOK, StampsArePast
  <2>4. CheckIsPunctual'
    BY <1>2, Periods DEF IInv, MarkStaleAgentsOffline, IsStale, NoCutoff,
       TypeOK, CheckIsPunctual
  <2>5. OfflineMeansSilent'
    BY <1>2, Periods DEF IInv, MarkStaleAgentsOffline, IsStale, NoCutoff,
       CheckIsPunctual, TypeOK, OfflineMeansSilent
  <2>6. OnlineAtLastCheck'
    BY <1>2, Periods DEF IInv, MarkStaleAgentsOffline, IsStale, NoCutoff,
       CheckIsPunctual, TypeOK, OnlineAtLastCheck
  <2>7. RequestsAreFresh'
    BY <1>2, Periods DEF IInv, MarkStaleAgentsOffline, IsStale, NoCutoff,
       CheckIsPunctual, TypeOK, RequestsAreFresh
  <2>8. RegularAgentsAreRecent'
    BY <1>2, Periods, NoneIsNoRow, RegularIsNotStale DEF IInv,
       MarkStaleAgentsOffline, IsStale, NoCutoff, CheckIsPunctual, TypeOK,
       RegularAgentsAreRecent, RegularBound, StampsArePast, RequestsAreFresh,
       TokensNameRows
  <2> QED BY <2>1, <2>2, <2>3, <2>4, <2>5, <2>6, <2>7, <2>8 DEF IInv
<1>3. CASE MarkFails
  <2>1. TypeOK'
    <3>1. server' \in BOOLEAN /\ checked' \in BOOLEAN
      BY <1>3 DEF MarkFails, IInv, TypeOK
    <3>2. now' \in Nat /\ check' \in Nat /\ cutoff' \in Int
      BY <1>3, Periods DEF MarkFails, IInv, TypeOK, NoCutoff
    <3> QED BY <3>1, <3>2, <1>3 DEF MarkFails, IInv, TypeOK
  <2>2. TokensNameRows'
    BY <1>3, Periods, NoneIsNoRow DEF IInv, MarkFails, NoCutoff, TypeOK,
       TokensNameRows
  <2>3. StampsArePast'
    BY <1>3, Periods DEF IInv, MarkFails, NoCutoff, TypeOK, StampsArePast
  <2>4. CheckIsPunctual'
    BY <1>3, Periods DEF IInv, MarkFails, NoCutoff, TypeOK, CheckIsPunctual
  <2>5. OfflineMeansSilent'
    BY <1>3, Periods DEF IInv, MarkFails, NoCutoff, TypeOK, OfflineMeansSilent
  <2>6. OnlineAtLastCheck'
    BY <1>3, Periods DEF IInv, MarkFails, NoCutoff, TypeOK, OnlineAtLastCheck,
       CheckIsPunctual
  <2>7. RequestsAreFresh'
    BY <1>3, Periods DEF IInv, MarkFails, NoCutoff, TypeOK, RequestsAreFresh
  <2>8. RegularAgentsAreRecent'
    BY <1>3, Periods, NoneIsNoRow DEF IInv, MarkFails, NoCutoff, TypeOK,
       RegularAgentsAreRecent, RegularBound, StampsArePast, RequestsAreFresh,
       TokensNameRows
  <2> QED BY <2>1, <2>2, <2>3, <2>4, <2>5, <2>6, <2>7, <2>8 DEF IInv
<1> QED BY <1>1, <1>2, <1>3 DEF CheckerStep

(* The steps of the server process keep the invariant.                      *)
LEMMA ServerIInv ==
    ASSUME IInv, Stop \/ Start
    PROVE  IInv'
<1> USE DEF serverVars, rowVars, agentVars
<1>1. CASE Stop
  <2>1. TypeOK'
    <3>1. server' \in BOOLEAN /\ checked' \in BOOLEAN
      BY <1>1 DEF Stop, IInv, TypeOK
    <3>2. now' \in Nat /\ check' \in Nat /\ cutoff' \in Int
      BY <1>1, Periods DEF Stop, IInv, TypeOK, NoCutoff
    <3>3. at' \in [Agents -> AgentStages]
      BY <1>1 DEF Stop, Interrupted, IInv, TypeOK, AgentStages
    <3> QED BY <3>1, <3>2, <3>3, <1>1 DEF Stop, IInv, TypeOK
  <2>2. TokensNameRows'
    BY <1>1, Periods, NoneIsNoRow DEF IInv, Stop, NoCutoff, Interrupted,
       TypeOK, TokensNameRows
  <2>3. StampsArePast'
    BY <1>1, Periods DEF IInv, Stop, NoCutoff, Interrupted, TypeOK,
       StampsArePast
  <2>4. CheckIsPunctual'
    BY <1>1, Periods DEF IInv, Stop, NoCutoff, Interrupted, TypeOK,
       CheckIsPunctual
  <2>5. OfflineMeansSilent'
    BY <1>1, Periods DEF IInv, Stop, NoCutoff, Interrupted, TypeOK,
       OfflineMeansSilent
  <2>6. OnlineAtLastCheck'
    BY <1>1, Periods DEF IInv, Stop, NoCutoff, Interrupted, TypeOK,
       OnlineAtLastCheck, CheckIsPunctual
  <2>7. RequestsAreFresh'
    BY <1>1, Periods DEF IInv, Stop, NoCutoff, Interrupted, TypeOK,
       RequestsAreFresh
  <2>8. RegularAgentsAreRecent'
    BY <1>1, Periods, NoneIsNoRow DEF IInv, Stop, NoCutoff, Interrupted,
       TypeOK, RegularAgentsAreRecent, RegularBound, StampsArePast,
       RequestsAreFresh, TokensNameRows
  <2> QED BY <2>1, <2>2, <2>3, <2>4, <2>5, <2>6, <2>7, <2>8 DEF IInv
<1>2. CASE Start
  <2>1. TypeOK'
    BY <1>2, Periods, NoneIsNoRow DEF IInv, Start, TypeOK, AgentStages
  <2>2. TokensNameRows'
    BY <1>2, Periods, NoneIsNoRow DEF IInv, Start, TypeOK, TokensNameRows
  <2>3. StampsArePast'
    BY <1>2, Periods DEF IInv, Start, TypeOK, StampsArePast
  <2>4. CheckIsPunctual'
    BY <1>2, Periods DEF IInv, Start, TypeOK, CheckIsPunctual, NoCutoff
  <2>5. OfflineMeansSilent'
    BY <1>2, Periods DEF IInv, Start, TypeOK, OfflineMeansSilent
  <2>6. OnlineAtLastCheck'
    BY <1>2, Periods DEF IInv, Start, TypeOK, OnlineAtLastCheck,
       CheckIsPunctual
  <2>7. RequestsAreFresh'
    BY <1>2, Periods DEF IInv, Start, TypeOK, RequestsAreFresh
  <2>8. RegularAgentsAreRecent'
    BY <1>2, Periods, NoneIsNoRow DEF IInv, Start, TypeOK,
       RegularAgentsAreRecent, RegularBound, StampsArePast, RequestsAreFresh,
       TokensNameRows
  <2> QED BY <2>1, <2>2, <2>3, <2>4, <2>5, <2>6, <2>7, <2>8 DEF IInv
<1> QED BY <1>1, <1>2

(* The steps of time keep the invariant.                                    *)
LEMMA TickIInv ==
    ASSUME IInv, Tick
    PROVE  IInv'
<1> USE DEF serverVars, rowVars, agentVars
<1>1. CASE Tick
  <2>1. TypeOK'
    BY <1>1, Periods, NoneIsNoRow DEF IInv, Tick, Waiting, AgentStages, TypeOK
  <2>2. TokensNameRows'
    BY <1>1, Periods, NoneIsNoRow DEF IInv, Tick, Waiting, AgentStages,
       TypeOK, TokensNameRows
  <2>3. StampsArePast'
    BY <1>1, Periods DEF IInv, Tick, Waiting, AgentStages, TypeOK,
       StampsArePast
  <2>4. CheckIsPunctual'
    BY <1>1, Periods DEF IInv, Tick, Waiting, AgentStages, TypeOK,
       CheckIsPunctual, NoCutoff
  <2>5. OfflineMeansSilent'
    BY <1>1, Periods DEF IInv, Tick, Waiting, AgentStages, TypeOK,
       OfflineMeansSilent
  <2>6. OnlineAtLastCheck'
    BY <1>1, Periods DEF IInv, Tick, Waiting, AgentStages, TypeOK,
       OnlineAtLastCheck, CheckIsPunctual
  <2>7. RequestsAreFresh'
    BY <1>1, Periods DEF IInv, Tick, Waiting, AgentStages, TypeOK,
       RequestsAreFresh
  <2>8. RegularAgentsAreRecent'
    BY <1>1, Periods, NoneIsNoRow DEF IInv, Tick, Waiting, AgentStages,
       TypeOK, RegularAgentsAreRecent, RegularBound, StampsArePast,
       RequestsAreFresh, TokensNameRows
  <2> QED BY <2>1, <2>2, <2>3, <2>4, <2>5, <2>6, <2>7, <2>8 DEF IInv
<1> QED BY <1>1

LEMMA NextIInv == ASSUME IInv, [Next]_vars PROVE IInv'
<1>1. CASE Next
  BY <1>1, AgentIInv, HandlerIInv, CheckerIInv, ServerIInv, TickIInv DEF Next
<1>2. CASE UNCHANGED vars
  BY <1>2 DEF vars, IInv, TypeOK, TokensNameRows, StampsArePast,
     CheckIsPunctual, OfflineMeansSilent, OnlineAtLastCheck, RequestsAreFresh,
     RegularAgentsAreRecent, RegularBound
<1> QED BY <1>1, <1>2

-----------------------------------------------------------------------------
(* The invariant holds in every reachable state.                            *)
THEOREM Inductive == Spec => []IInv
  BY InitIInv, NextIInv, PTL DEF Spec

(* Every variable keeps its type.                                           *)
THEOREM TypeCorrect == Spec => []TypeOK
<1>1. IInv => TypeOK
  BY DEF IInv
<1> QED BY <1>1, Inductive, PTL

(* The stale checker raises no false alarm: an agent shown as offline has   *)
(* been silent for more than two TTL, for every TTL and any interleaving.   *)
THEOREM NoFalseAlarm == Spec => []OfflineMeansSilent
<1>1. IInv => OfflineMeansSilent
  BY DEF IInv
<1> QED BY <1>1, Inductive, PTL

(* An agent that is heard of regularly does not flap, for every period with *)
(* Beat + 2 * Delay <= 2 * TTL.                                             *)
THEOREM NoFlapping == Spec => []RegularAgentsAreOnline
<1>1. IInv => RegularAgentsAreOnline
  BY Consequences
<1> QED BY <1>1, Inductive, PTL

(* Silence is noticed within three TTL by checks that succeed.              *)
THEOREM SilenceIsNoticed == Spec => []SilentAgentsAreNoticed
<1>1. IInv => SilentAgentsAreNoticed
  BY Consequences
<1> QED BY <1>1, Inductive, PTL

-----------------------------------------------------------------------------
(* Every row is an atomic failure detector                                  *)

LEMMA Stutters ==
    ASSUME NEW r \in Rows, status'[r] = status[r], seen'[r] = seen[r], now' = now,
           (server /\ checked)' = (server /\ checked)
    PROVE  [Detector(r)!Next]_(Detector(r)!vars)
  BY DEF Detector!vars

(* A row that is stamped is heard, and the others see nothing.              *)
LEMMA Hears ==
    ASSUME TypeOK, NEW h \in Rows, NEW r \in Rows,
           status' = [status EXCEPT ![h] = "online"], seen' = [seen EXCEPT ![h] = now],
           UNCHANGED <<now, server, checked>>
    PROVE  [Detector(r)!Next]_(Detector(r)!vars)
<1>1. CASE r = h
  <2>1. status'[r] = "online" /\ now' - seen'[r] = 0
    BY <1>1 DEF TypeOK
  <2> QED BY <2>1 DEF Detector!Next, Detector!Hear
<1>2. CASE r # h
  BY <1>2, Stutters DEF TypeOK
<1> QED BY <1>1, <1>2

(* A check compares with a cut-off that is still right when it marks.       *)
LEMMA Looks ==
    ASSUME IInv, NEW r \in Rows, MarkStaleAgentsOffline
    PROVE  Detector(r)!Look
<1>1. /\ cutoff = now - 2 * TTL /\ now \in Int /\ TTL \in Int /\ seen[r] \in Int
      /\ status \in [Rows -> {"absent", "online", "offline"}]
  BY Periods DEF IInv, TypeOK, CheckIsPunctual, MarkStaleAgentsOffline
<1>2. IsStale(r) <=> status[r] = "online" /\ now - seen[r] > 2 * TTL
  BY <1>1 DEF IsStale
<1>3. /\ status'[r] = IF IsStale(r) THEN "offline" ELSE status[r]
      /\ UNCHANGED <<now, server, seen>> /\ server /\ checked'
  BY DEF MarkStaleAgentsOffline
<1> HIDE DEF IsStale
<1> QED BY <1>1, <1>2, <1>3 DEF Detector!Look

LEMMA SilenceEnds == IInv => SilentAgentsAreNoticed
  BY Consequences

(* Time does not pass by a row that is online, watched and silent for long. *)
LEMMA Passes ==
    ASSUME IInv, IInv', NEW r \in Rows, Tick
    PROVE  Detector(r)!Pass
<1>1. SilentAgentsAreNoticed'
  BY SilenceEnds, PTL
<1>2. UNCHANGED <<server, checked, status, seen>> /\ now' = now + 1
  BY DEF Tick, serverVars, rowVars
<1>3. now \in Int /\ TTL \in Int /\ seen[r] \in Int
  BY Periods DEF IInv, TypeOK
<1> QED BY <1>1, <1>2, <1>3 DEF Detector!Pass, SilentAgentsAreNoticed

LEMMA StepIsDetected ==
    IInv /\ IInv' /\ [Next]_vars
        => \A r \in Rows : [Detector(r)!Next]_(Detector(r)!vars)
<1> SUFFICES ASSUME IInv, IInv', [Next]_vars, NEW r \in Rows
             PROVE  [Detector(r)!Next]_(Detector(r)!vars)
  OBVIOUS
<1> USE DEF serverVars, rowVars
<1>0. TypeOK /\ TokensNameRows /\ CheckIsPunctual
  BY DEF IInv
<1>1. ASSUME NEW a \in Agents, AgentStep(a)
      PROVE  [Detector(r)!Next]_(Detector(r)!vars)
  <2>1. UNCHANGED <<now, server, checked, status, seen>>
    BY <1>1 DEF AgentStep, StartsAfresh, StartsWithToken, Registered, SendsBeat,
                GetsAnswer, RequestFails, GetsLate, Vanishes
  <2> QED BY <2>1, Stutters
<1>2. ASSUME NEW a \in Agents, HandlerStep(a)
      PROVE  [Detector(r)!Next]_(Detector(r)!vars)
  <2>1. ASSUME NEW h \in Rows, Register(a, h)
        PROVE  [Detector(r)!Next]_(Detector(r)!vars)
    BY <1>0, <2>1, Hears DEF Register
  <2>2. CASE AgentHeartbeat(a)
    <3>1. token[a] \in Rows
      BY <1>0, <2>2 DEF AgentHeartbeat, TokensNameRows, TypeOK
    <3> QED BY <1>0, <2>2, <3>1, Hears DEF AgentHeartbeat
  <2>3. CASE FindsAgent(a) \/ HeartbeatDropped(a)
    BY <2>3, Stutters DEF FindsAgent, HeartbeatDropped
  <2> QED BY <1>2, <2>1, <2>2, <2>3 DEF HandlerStep
<1>3. CASE CheckerStep
  <2>1. CASE ComputesCutoff
    BY <2>1, Stutters DEF ComputesCutoff
  <2>2. CASE MarkStaleAgentsOffline
    BY <2>2, Looks DEF Detector!Next
  <2>3. CASE MarkFails
    <3>1. (server /\ checked)' = FALSE /\ UNCHANGED <<now, status, seen>>
      BY <2>3 DEF MarkFails
    <3> QED BY <3>1 DEF Detector!Next, Detector!Blink
  <2> QED BY <1>3, <2>1, <2>2, <2>3 DEF CheckerStep
<1>4. CASE Stop
  <2>1. (server /\ checked)' = FALSE /\ UNCHANGED <<now, status, seen>>
    BY <1>4 DEF Stop
  <2> QED BY <2>1 DEF Detector!Next, Detector!Blink
<1>5. CASE Start
  <2>1. (server /\ checked)' = (server /\ checked)
    BY <1>0, <1>5 DEF Start, CheckIsPunctual, TypeOK
  <2> QED BY <1>5, <2>1, Stutters DEF Start
<1>6. CASE Tick
  BY <1>6, Passes DEF Detector!Next
<1>7. CASE UNCHANGED vars
  BY <1>7, Stutters DEF vars
<1> QED BY <1>1, <1>2, <1>3, <1>4, <1>5, <1>6, <1>7 DEF Next

(* The agents table keeps, for every row, the promises of an atomic failure *)
(* detector with a grace of two TTL, whatever fails, stops or overlaps.     *)
THEOREM DetectorsRefined == Spec => RowsAreDetectors
<1>1. Init => \A r \in Rows : Detector(r)!Init
  <2>1. Init => server \in BOOLEAN /\ checked \in BOOLEAN
    BY DEF Init
  <2> QED BY <2>1 DEF Init, Detector!Init
<1>2. IInv /\ IInv' /\ [Next]_vars
        => [\A r \in Rows : [Detector(r)!Next]_(Detector(r)!vars)]_vars
  BY StepIsDetected
<1> QED BY <1>1, <1>2, Inductive, PTL DEF Spec, RowsAreDetectors
=============================================================================
