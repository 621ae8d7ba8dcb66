--------------------------- MODULE Sessions_proofs ---------------------------
(***************************************************************************)
(* Proofs about Sessions, for any number of shells and web terminals: it   *)
(* implements SessionLedger, a terminal in use is never shown closed, and  *)
(* what the two tables say about a handler that has returned is complete.  *)
(***************************************************************************)
EXTENDS Sessions, Integers, SequenceTheorems, TLAPS

Steps == Events \cup {"close"}

(* What a handler has recorded so far fits the point it has reached.        *)
RowFollowsHandler ==
    \A h \in Handlers :
        /\ at[h] \in {"new", "create"} => row[h] = "absent"
        /\ row[h] = "closed" => at[h] \in {"finishing", "gone", "killed"}

(* A shell is open only between the request for it and the end of the wait. *)
OpenShellsAreWaitedFor ==
    \A h \in Handlers :
        /\ target[h] = "open" => at[h] \in {"start", "running", "killed"}
        /\ at[h] \in {"new", "create", "connect", "channel", "shell"} =>
              target[h] = "none"
        /\ h \in Shells /\ at[h] = "start" => target[h] = "none"

IInv == TypeOK /\ RowFollowsHandler /\ OpenShellsAreWaitedFor

-----------------------------------------------------------------------------
(* The lists of last steps, and what is left of one after a step.           *)
LEMMA ShortSequences ==
    ASSUME NEW S, NEW a \in S, NEW b \in S
    PROVE  /\ <<>> \in Seq(S) /\ <<a>> \in Seq(S) /\ <<a, b>> \in Seq(S)
  OBVIOUS

LEMMA LastSteps ==
    ASSUME NEW h \in Handlers
    PROVE  /\ AfterConnectFailure(h) \in Seq(Steps)
           /\ AfterChannelFailure(h) \in Seq(Steps)
           /\ AfterTerminal(h) \in Seq(Steps)
           /\ AfterShellFailure \in Seq(Steps)
<1>1. "end" \in Steps /\ "close" \in Steps /\ "connect_failed" \in Steps
  BY DEF Steps, Events
<1>2. /\ <<>> \in Seq(Steps) /\ <<"close">> \in Seq(Steps)
      /\ <<"connect_failed", "close">> \in Seq(Steps)
      /\ <<"end", "close">> \in Seq(Steps) /\ <<"close", "end">> \in Seq(Steps)
  BY <1>1, ShortSequences
<1> QED BY <1>2 DEF AfterConnectFailure, AfterChannelFailure, AfterTerminal,
                    AfterShellFailure
-----------------------------------------------------------------------------
(* The building blocks of a step keep the types of what they change.        *)
LEMMA Blocks ==
    ASSUME TypeOK, NEW h \in Handlers
    PROVE  /\ \A s \in Stages : Goto(h, s) =>
                 at' = [at EXCEPT ![h] = s] /\ todo' = todo
                 /\ at' \in [Handlers -> Stages]
                 /\ todo' \in [Handlers -> Seq(Steps)]
           /\ \A q \in Seq(Steps) : Leave(h, q) =>
                 at' = [at EXCEPT ![h] = "finishing"]
                 /\ at' \in [Handlers -> Stages]
                 /\ todo' \in [Handlers -> Seq(Steps)]
           /\ InsertRow(h) \/ CloseRow(h) =>
                 row' \in [Handlers -> {"absent", "active", "closed"}]
                 /\ missed' \in SUBSET Handlers
           /\ \A e \in Events : WriteAudit(h, e) =>
                 audit' \in SUBSET (Handlers \X Events)
                 /\ missed' \in SUBSET Handlers
<1> USE DEF TypeOK
<1>1. ASSUME NEW s \in Stages, Goto(h, s)
      PROVE  /\ at' = [at EXCEPT ![h] = s] /\ todo' = todo
             /\ at' \in [Handlers -> Stages] /\ todo' \in [Handlers -> Seq(Steps)]
  BY <1>1 DEF Goto, Steps
<1>2. ASSUME NEW q \in Seq(Steps), Leave(h, q)
      PROVE  /\ at' = [at EXCEPT ![h] = "finishing"]
             /\ at' \in [Handlers -> Stages] /\ todo' \in [Handlers -> Seq(Steps)]
  BY <1>2 DEF Leave, Stages, Steps
<1>3. ASSUME InsertRow(h) \/ CloseRow(h)
      PROVE  /\ row' \in [Handlers -> {"absent", "active", "closed"}]
             /\ missed' \in SUBSET Handlers
  <2>1. row' \in {row, [row EXCEPT ![h] = "active"],
                  [row EXCEPT ![h] = IF @ = "active" THEN "closed" ELSE @]}
    BY <1>3 DEF InsertRow, CloseRow
  <2>2. missed' \in {missed, missed \cup {h}}
    BY <1>3 DEF InsertRow, CloseRow, Succeeds, Fails
  <2> QED BY <2>1, <2>2
<1>4. ASSUME NEW e \in Events, WriteAudit(h, e)
      PROVE  /\ audit' \in SUBSET (Handlers \X Events)
             /\ missed' \in SUBSET Handlers
  <2>1. audit' \in {audit, audit \cup {<<h, e>>}}
    BY <1>4 DEF WriteAudit
  <2>2. missed' \in {missed, missed \cup {h}}
    BY <1>4 DEF WriteAudit, Succeeds, Fails
  <2> QED BY <2>1, <2>2
<1> QED BY <1>1, <1>2, <1>3, <1>4

(* One step per operation of a handler.  Beside the types it shows what the *)
(* step does to the handler's row, which is what SessionLedger asks.        *)
LEMMA HandlerKeeps ==
    ASSUME IInv, NEW h \in Handlers, HandlerStep(h)
    PROVE  IInv'
<1> DEFINE Goal == TypeOK' /\ RowFollowsHandler' /\ OpenShellsAreWaitedFor'
<1>0. TypeOK /\ RowFollowsHandler /\ OpenShellsAreWaitedFor
  BY DEF IInv
<1>1. ASSUME NEW s \in Stages, Goto(h, s),
             UNCHANGED <<server, host, row, audit, target, missed>>,
             row[h] = "closed" => s \in {"gone", "finishing", "killed"},
             s \in {"new", "create"} => row[h] = "absent",
             target[h] # "open", target[h] = "none" \/ s = "gone"
      PROVE  Goal
  <2>1. /\ at' = [at EXCEPT ![h] = s]
        /\ at' \in [Handlers -> Stages] /\ todo' \in [Handlers -> Seq(Steps)]
    BY <1>0, <1>1, Blocks
  <2>2. TypeOK'
    BY <1>0, <1>1, <2>1 DEF TypeOK, Steps
  <2>3. RowFollowsHandler'
    BY <1>0, <1>1, <2>1 DEF TypeOK, RowFollowsHandler
  <2>4. OpenShellsAreWaitedFor'
    BY <1>0, <1>1, <2>1 DEF TypeOK, OpenShellsAreWaitedFor
  <2> QED BY <2>2, <2>3, <2>4
<1>2. ASSUME NEW q \in Seq(Steps), Leave(h, q), target[h] # "open",
             UNCHANGED <<server, host, row, audit, target, missed>>
      PROVE  Goal
  <2>1. /\ at' = [at EXCEPT ![h] = "finishing"]
        /\ at' \in [Handlers -> Stages] /\ todo' \in [Handlers -> Seq(Steps)]
    BY <1>0, <1>2, Blocks
  <2>2. TypeOK'
    BY <1>0, <1>2, <2>1 DEF TypeOK, Steps
  <2>3. RowFollowsHandler'
    BY <1>0, <1>2, <2>1 DEF TypeOK, RowFollowsHandler
  <2>4. OpenShellsAreWaitedFor'
    BY <1>0, <1>2, <2>1 DEF TypeOK, OpenShellsAreWaitedFor
  <2> QED BY <2>2, <2>3, <2>4
<1>3. ASSUME Resolve(h) PROVE Goal
  <2>1. /\ at[h] = "new" /\ Goto(h, "create") /\ "create" \in Stages
        /\ UNCHANGED <<server, host, row, audit, target, missed>>
    BY <1>3 DEF Resolve, Stages
  <2>2. row[h] = "absent" /\ target[h] = "none"
    BY <1>0, <2>1 DEF RowFollowsHandler, OpenShellsAreWaitedFor
  <2> QED BY <1>1, <2>1, <2>2
<1>4. ASSUME Create(h) PROVE Goal
  <2>1. /\ at[h] = "create" /\ InsertRow(h) /\ Goto(h, "connect")
        /\ "connect" \in Stages /\ UNCHANGED <<server, host, audit, target>>
    BY <1>4 DEF Create, Stages
  <2>2. /\ row[h] = "absent" /\ target[h] = "none"
        /\ row' \in {row, [row EXCEPT ![h] = "active"]}
    BY <1>0, <2>1 DEF RowFollowsHandler, OpenShellsAreWaitedFor, InsertRow
  <2>3. /\ at' = [at EXCEPT ![h] = "connect"]
        /\ at' \in [Handlers -> Stages] /\ todo' \in [Handlers -> Seq(Steps)]
        /\ row' \in [Handlers -> {"absent", "active", "closed"}]
        /\ missed' \in SUBSET Handlers
    BY <1>0, <2>1, Blocks
  <2>4. TypeOK'
    BY <1>0, <2>1, <2>3 DEF TypeOK, Steps
  <2>5. RowFollowsHandler'
    BY <1>0, <2>2, <2>3 DEF TypeOK, RowFollowsHandler
  <2>6. OpenShellsAreWaitedFor'
    BY <1>0, <2>1, <2>2, <2>3 DEF TypeOK, OpenShellsAreWaitedFor
  <2> QED BY <2>4, <2>5, <2>6
<1>5. ASSUME Connect(h) \/ OpenChannel(h) PROVE Goal
  <2>1. /\ at[h] \in {"connect", "channel"}
        /\ UNCHANGED <<server, host, row, audit, target, missed>>
        /\ \/ \E s \in {"channel", "start", "shell"} : Goto(h, s)
           \/ Leave(h, AfterConnectFailure(h)) \/ Leave(h, AfterChannelFailure(h))
    BY <1>5 DEF Connect, OpenChannel
  <2>2. row[h] # "closed" /\ target[h] = "none"
    BY <1>0, <2>1 DEF RowFollowsHandler, OpenShellsAreWaitedFor
  <2>3. ASSUME NEW s \in {"channel", "start", "shell"}, Goto(h, s) PROVE Goal
    <3>1. s \in Stages
      BY DEF Stages
    <3> QED BY <1>1, <2>1, <2>2, <2>3, <3>1
  <2>4. ASSUME \/ Leave(h, AfterConnectFailure(h))
               \/ Leave(h, AfterChannelFailure(h))
        PROVE  Goal
    BY <1>2, <2>1, <2>2, <2>4, LastSteps
  <2> QED BY <2>1, <2>3, <2>4
<1>6. ASSUME Start(h) PROVE Goal
  <2>1. /\ at[h] = "start" /\ WriteAudit(h, "start") /\ "start" \in Events
        /\ UNCHANGED <<server, host, row, target>>
    BY <1>6 DEF Start, Events
  <2>2. PICK s \in {"shell", "running"} :
          Goto(h, s) /\ (s = "shell" => h \in Shells)
    BY <1>6 DEF Start
  <2>3. s \in Stages
    BY DEF Stages
  <2>4. /\ at' = [at EXCEPT ![h] = s]
        /\ at' \in [Handlers -> Stages] /\ todo' \in [Handlers -> Seq(Steps)]
        /\ audit' \in SUBSET (Handlers \X Events) /\ missed' \in SUBSET Handlers
    BY <1>0, <2>1, <2>2, <2>3, Blocks
  <2>5. row[h] # "closed" /\ (h \in Shells => target[h] = "none")
    BY <1>0, <2>1 DEF RowFollowsHandler, OpenShellsAreWaitedFor
  <2>6. TypeOK'
    BY <1>0, <2>1, <2>4 DEF TypeOK, Steps
  <2>7. RowFollowsHandler'
    BY <1>0, <2>1, <2>4, <2>5 DEF TypeOK, RowFollowsHandler
  <2>8. OpenShellsAreWaitedFor'
    BY <1>0, <2>1, <2>2, <2>4, <2>5 DEF TypeOK, OpenShellsAreWaitedFor
  <2> QED BY <2>6, <2>7, <2>8
<1>7. ASSUME AskShell(h) PROVE Goal
  <2>1. /\ at[h] = "shell" /\ target' = [target EXCEPT ![h] = "open"]
        /\ UNCHANGED <<server, host, row, audit, missed>>
    BY <1>7 DEF AskShell
  <2>2. PICK s \in {"running", "start"} :
          Goto(h, s) /\ (s = "start" => h \notin Shells)
    BY <1>7 DEF AskShell
  <2>3. s \in Stages
    BY DEF Stages
  <2>4. /\ at' = [at EXCEPT ![h] = s]
        /\ at' \in [Handlers -> Stages] /\ todo' \in [Handlers -> Seq(Steps)]
    BY <1>0, <2>2, <2>3, Blocks
  <2>5. row[h] # "closed"
    BY <1>0, <2>1 DEF RowFollowsHandler
  <2>6. TypeOK'
    BY <1>0, <2>1, <2>4 DEF TypeOK, Steps
  <2>7. RowFollowsHandler'
    BY <1>0, <2>1, <2>4, <2>5 DEF TypeOK, RowFollowsHandler
  <2>8. OpenShellsAreWaitedFor'
    BY <1>0, <2>1, <2>2, <2>4, <2>5 DEF TypeOK, OpenShellsAreWaitedFor
  <2> QED BY <2>6, <2>7, <2>8
<1>8. ASSUME ShellRefused(h) PROVE Goal
  <2>1. /\ at[h] = "shell"
        /\ UNCHANGED <<server, host, row, audit, target, missed>>
        /\ Leave(h, AfterShellFailure) \/ Goto(h, "start")
        /\ "start" \in Stages
    BY <1>8 DEF ShellRefused, Stages
  <2>2. row[h] # "closed" /\ target[h] = "none"
    BY <1>0, <2>1 DEF RowFollowsHandler, OpenShellsAreWaitedFor
  <2> QED BY <1>1, <1>2, <2>1, <2>2, LastSteps
<1>9. ASSUME TerminalDone(h) PROVE Goal
  BY <1>2, <1>9, LastSteps DEF TerminalDone
<1>10. ASSUME Return(h) PROVE Goal
  <2>1. /\ at[h] = "finishing" /\ Goto(h, "gone") /\ "gone" \in Stages
        /\ UNCHANGED <<server, host, row, audit, target, missed>>
    BY <1>10 DEF Return, Stages
  <2>2. target[h] # "open"
    BY <1>0, <2>1 DEF OpenShellsAreWaitedFor
  <2> QED BY <1>1, <2>1, <2>2
<1>11. ASSUME Conclude(h) PROVE Goal
  <2>1. /\ at[h] = "finishing" /\ todo[h] \in Seq(Steps) /\ todo[h] # <<>>
        /\ todo' = [todo EXCEPT ![h] = Tail(@)]
        /\ UNCHANGED <<server, host, at, target>>
    BY <1>0, <1>11 DEF Conclude, TypeOK, Steps
  <2>2. Head(todo[h]) \in Steps /\ Tail(todo[h]) \in Seq(Steps)
    BY <2>1, HeadTailProperties
  <2>3. /\ audit' \in SUBSET (Handlers \X Events)
        /\ missed' \in SUBSET Handlers
        /\ row' \in [Handlers -> {"absent", "active", "closed"}]
    <3>1. CASE Head(todo[h]) = "close"
      BY <1>0, <1>11, <3>1, Blocks DEF Conclude, TypeOK
    <3>2. CASE Head(todo[h]) # "close"
      <4>1. Head(todo[h]) \in Events
        BY <2>2, <3>2 DEF Steps
      <4> QED BY <1>0, <1>11, <3>2, <4>1, Blocks DEF Conclude, TypeOK
    <3> QED BY <3>1, <3>2
  <2>4. row' \in {row, [row EXCEPT ![h] = IF @ = "active" THEN "closed" ELSE @]}
    BY <1>11 DEF Conclude, CloseRow
  <2>5. TypeOK'
    BY <1>0, <2>1, <2>2, <2>3 DEF TypeOK, Steps
  <2>6. RowFollowsHandler'
    BY <1>0, <2>1, <2>4 DEF TypeOK, RowFollowsHandler
  <2>7. OpenShellsAreWaitedFor'
    BY <1>0, <2>1 DEF OpenShellsAreWaitedFor
  <2> QED BY <2>5, <2>6, <2>7
<1>12. Goal
  BY <1>3, <1>4, <1>5, <1>6, <1>7, <1>8, <1>9, <1>10, <1>11 DEF HandlerStep
<1> QED BY <1>12 DEF IInv
-----------------------------------------------------------------------------
(* The target, the API and the end of the process.                          *)
LEMMA WorldKeeps ==
    ASSUME IInv,
           \/ \E h \in Handlers : TargetEnds(h)
           \/ EditHost \/ Shutdown \/ CloseStore \/ Exit \/ Restart
    PROVE  IInv'
<1>0. TypeOK /\ RowFollowsHandler /\ OpenShellsAreWaitedFor
  BY DEF IInv
<1>1. ASSUME NEW h \in Handlers, TargetEnds(h) PROVE IInv'
  <2>1. TypeOK'
    BY <1>0, <1>1 DEF TargetEnds, TypeOK
  <2>2. RowFollowsHandler' /\ OpenShellsAreWaitedFor'
    BY <1>0, <1>1 DEF TargetEnds, TypeOK, RowFollowsHandler, OpenShellsAreWaitedFor
  <2> QED BY <2>1, <2>2 DEF IInv
<1>2. ASSUME EditHost PROVE IInv'
  BY <1>0, <1>2 DEF EditHost, IInv, TypeOK, RowFollowsHandler, OpenShellsAreWaitedFor
<1>3. ASSUME Shutdown \/ CloseStore \/ Restart PROVE IInv'
  <2>1. /\ server' \in Phases
        /\ UNCHANGED <<host, at, todo, row, audit, target, missed>>
    BY <1>3 DEF Shutdown, CloseStore, Restart, Advance, Phases
  <2> QED BY <1>0, <2>1 DEF IInv, TypeOK, RowFollowsHandler, OpenShellsAreWaitedFor
<1>4. ASSUME Exit PROVE IInv'
  <2>1. /\ server' \in Phases
        /\ UNCHANGED <<host, todo, row, audit, target, missed>>
        /\ at' = [h \in Handlers |->
                    IF at[h] \in {"new", "gone"} THEN at[h] ELSE "killed"]
    BY <1>4 DEF Exit, Advance, Phases
  <2>2. at' \in [Handlers -> Stages]
    BY <1>0, <2>1 DEF TypeOK, Stages
  <2>3. TypeOK'
    BY <1>0, <2>1, <2>2 DEF TypeOK
  <2>4. RowFollowsHandler' /\ OpenShellsAreWaitedFor'
    BY <1>0, <2>1 DEF TypeOK, RowFollowsHandler, OpenShellsAreWaitedFor
  <2> QED BY <2>3, <2>4 DEF IInv
<1> QED BY <1>1, <1>2, <1>3, <1>4

LEMMA NextKeeps == IInv /\ [Next]_vars => IInv'
<1> SUFFICES ASSUME IInv, [Next]_vars PROVE IInv'
  OBVIOUS
<1>1. CASE UNCHANGED vars
  BY <1>1 DEF vars, IInv, TypeOK, RowFollowsHandler, OpenShellsAreWaitedFor
<1>2. CASE Next
  BY <1>2, HandlerKeeps, WorldKeeps DEF Next
<1> QED BY <1>1, <1>2

THEOREM Inductive == Spec => []IInv
<1>1. Init => IInv
  BY ShortSequences DEF Init, IInv, TypeOK, RowFollowsHandler,
     OpenShellsAreWaitedFor, Phases, Stages
<1> QED BY <1>1, NextKeeps, PTL DEF Spec

(* Every table, stage and list of last steps keeps its type.                *)
THEOREM TypeCorrect == Spec => []TypeOK
<1>1. IInv => TypeOK
  BY DEF IInv
<1> QED BY <1>1, Inductive, PTL

(* No interleaving of handlers, failing statements, stops and crashes shows *)
(* a terminal as closed while it may be in use.                             *)
THEOREM LiveNeverClosed == Spec => []LiveTerminalsAreNotClosed
<1>1. IInv => LiveTerminalsAreNotClosed
  BY DEF IInv, RowFollowsHandler, OpenShellsAreWaitedFor,
     LiveTerminalsAreNotClosed, LiveStages
<1> QED BY <1>1, Inductive, PTL

-----------------------------------------------------------------------------
(* What is recorded.                                                        *)

(* What is left of the last steps of a handler.                             *)
WillFail(h) == todo[h] = <<"connect_failed", "close">>
WillEnd(h) == todo[h] \in {<<"end", "close">>, <<"close", "end">>, <<"end">>}
WillClose(h) ==
    todo[h] \in {<<"close">>, <<"connect_failed", "close">>, <<"end", "close">>,
                 <<"close", "end">>}

Logged(h, e) == <<h, e>> \in audit

(* The stages before the audit of the start, and those after it.            *)
BeforeStart(h) ==
    at[h] \in {"new", "create", "connect", "channel",
               IF h \in Shells THEN "start" ELSE "shell"}
    \/ (h \in Webs /\ at[h] = "start")
AfterStart(h) == at[h] = "running" \/ (h \in Shells /\ at[h] = "shell")
Ending(h) == at[h] \in {"finishing", "gone", "killed"}

(* The audit log and the last steps of a handler fit each other.            *)
Told(h) ==
    /\ at[h] \notin {"finishing", "killed"} => todo[h] = <<>>
    /\ WillClose(h) \/ WillEnd(h) \/ todo[h] = <<>>
    /\ BeforeStart(h) \/ WillFail(h) => ~Logged(h, "start")
    /\ WillFail(h) => target[h] = "none"
    /\ AfterStart(h) \/ WillEnd(h) => h \in missed \/ Logged(h, "start")
    /\ Logged(h, "end") =>
          /\ Ending(h) /\ ~WillFail(h) /\ target[h] # "open"
          /\ h \in missed \/ Logged(h, "start")
    /\ Logged(h, "connect_failed") =>
          Ending(h) /\ ~WillEnd(h) /\ target[h] = "none" /\ ~Logged(h, "start")

(* A handler none of whose statements failed has recorded what it did, or   *)
(* still will.                                                              *)
Accounted(h) ==
    /\ at[h] \notin {"new", "create", "killed"} => row[h] # "absent"
    /\ at[h] \in {"finishing", "gone"} =>
          /\ \/ row[h] = "closed" \/ WillClose(h)
             \/ h \in Webs /\ target[h] = "none" /\ ~Logged(h, "start")
          /\ target[h] # "none" =>
                Logged(h, "start") /\ (Logged(h, "end") \/ WillEnd(h))

Records == \A h \in Handlers : Told(h) /\ (h \in missed \/ Accounted(h))

(* The lists of last steps differ, and lose their heads one by one.         *)
LEMMA Lists ==
    /\ Head(<<"close">>) = "close" /\ Tail(<<"close">>) = <<>>
    /\ Head(<<"end">>) = "end" /\ Tail(<<"end">>) = <<>>
    /\ Head(<<"end", "close">>) = "end" /\ Tail(<<"end", "close">>) = <<"close">>
    /\ Head(<<"close", "end">>) = "close" /\ Tail(<<"close", "end">>) = <<"end">>
    /\ Head(<<"connect_failed", "close">>) = "connect_failed"
    /\ Tail(<<"connect_failed", "close">>) = <<"close">>
  OBVIOUS

LEMMA ListsDiffer ==
    /\ <<>> # <<"close">> /\ <<>> # <<"end">> /\ <<"close">> # <<"end">>
    /\ \A a, b, c \in Steps : /\ <<>> # <<a, b>> /\ <<c>> # <<a, b>>
                              /\ <<a, b>> = <<b, a>> => a = b
    /\ <<"connect_failed", "close">> \notin {<<"end", "close">>, <<"close", "end">>}
  OBVIOUS

(* A step of another handler.                                               *)
Same(g) ==
    /\ at'[g] = at[g] /\ todo'[g] = todo[g] /\ row'[g] = row[g]
    /\ target'[g] = target[g] /\ (g \in missed' <=> g \in missed)
    /\ \A e \in Events : Logged(g, e)' <=> Logged(g, e)

LEMMA SameRecords ==
    ASSUME NEW g \in Handlers, Same(g), Told(g), g \in missed \/ Accounted(g)
    PROVE  Told(g)' /\ (g \in missed \/ Accounted(g))'
<1>1. {"start", "end", "connect_failed"} = Events
  BY DEF Events
<1> QED BY <1>1 DEF Same, Told, Accounted, WillFail, WillEnd, WillClose,
                    BeforeStart, AfterStart, Ending

LEMMA OthersStay ==
    ASSUME TypeOK, NEW h \in Handlers, HandlerStep(h), NEW g \in Handlers \ {h}
    PROVE  Same(g)
<1>1. at'[g] = at[g] /\ todo'[g] = todo[g]
  BY DEF HandlerStep, Resolve, Create, Connect, OpenChannel, Start, AskShell,
         ShellRefused, TerminalDone, Conclude, Return, Goto, Leave, TypeOK
<1>2. row'[g] = row[g] /\ target'[g] = target[g]
  BY DEF HandlerStep, Resolve, Create, Connect, OpenChannel, Start, AskShell,
         ShellRefused, TerminalDone, Conclude, Return, InsertRow, CloseRow, TypeOK
<1>3. missed' \in {missed, missed \cup {h}}
  BY DEF HandlerStep, Resolve, Create, Connect, OpenChannel, Start, AskShell,
         ShellRefused, TerminalDone, Conclude, Return, InsertRow, CloseRow,
         WriteAudit, Succeeds, Fails
<1>4. audit' = audit \/ \E e : audit' = audit \cup {<<h, e>>}
  BY DEF HandlerStep, Resolve, Create, Connect, OpenChannel, Start, AskShell,
         ShellRefused, TerminalDone, Conclude, Return, WriteAudit
<1> QED BY <1>1, <1>2, <1>3, <1>4 DEF Same, Logged

(* A handler that moves on to stage s and writes nothing.                   *)
LEMMA MoveRecords ==
    ASSUME IInv, NEW h \in Handlers, Told(h), h \in missed \/ Accounted(h),
           NEW s \in Stages \ {"new", "create", "finishing", "gone", "killed"},
           at[h] \in LiveStages, at'[h] = s, todo'[h] = todo[h],
           at[h] = "create" => row'[h] # "absent" \/ h \in missed',
           at[h] # "create" => row'[h] = row[h],
           BeforeStart(h)' => BeforeStart(h),
           AfterStart(h)' => AfterStart(h) \/ h \in missed' \/ Logged(h, "start")',
           Logged(h, "end")' <=> Logged(h, "end"),
           Logged(h, "connect_failed")' <=> Logged(h, "connect_failed"),
           Logged(h, "start")' => Logged(h, "start") \/ ~BeforeStart(h)',
           Logged(h, "start") => Logged(h, "start")',
           h \in missed => h \in missed'
    PROVE  Told(h)' /\ (h \in missed \/ Accounted(h))'
<1>1. todo[h] = <<>> /\ ~Ending(h) /\ ~Ending(h)'
  BY DEF Told, LiveStages, Ending
<1>2. ~WillFail(h) /\ ~WillEnd(h) /\ ~WillFail(h)' /\ ~WillEnd(h)'
  BY <1>1, ListsDiffer DEF WillFail, WillEnd, Steps, Events
<1>3. Told(h)'
  BY <1>1, <1>2 DEF Told
<1>4. ASSUME h \notin missed' PROVE Accounted(h)'
  BY <1>1, <1>4 DEF Accounted, Ending, LiveStages
<1> QED BY <1>3, <1>4

(* A handler that leaves with its last steps still to do.                   *)
LEMMA LeaveRecords ==
    ASSUME IInv, NEW h \in Handlers, Told(h), h \in missed \/ Accounted(h),
           NEW q \in Seq(Steps), Leave(h, q),
           at[h] \in LiveStages \ {"create"}, target[h] # "open",
           UNCHANGED <<row, audit, target, missed>>,
           \/ /\ q = <<"connect_failed", "close">>
              /\ BeforeStart(h) /\ target[h] = "none"
           \/ q = <<"close">> /\ target[h] = "none"
           \/ q = <<>> /\ h \in Webs /\ target[h] = "none" /\ BeforeStart(h)
           \/ /\ q \in {<<"end", "close">>, <<"close", "end">>}
              /\ AfterStart(h)
    PROVE  Told(h)' /\ (h \in missed \/ Accounted(h))'
<1>1. at'[h] = "finishing" /\ todo'[h] = q
  BY DEF Leave, IInv, TypeOK
<1>2. ~Logged(h, "end") /\ ~Logged(h, "connect_failed")
  BY DEF Told, Ending, LiveStages
<1>3. \A e \in Events : Logged(h, e)' <=> Logged(h, e)
  BY DEF Logged
<1>4. /\ WillFail(h)' <=> q = <<"connect_failed", "close">>
      /\ WillEnd(h)' <=> q \in {<<"end", "close">>, <<"close", "end">>, <<"end">>}
      /\ WillClose(h)' <=> q \in {<<"close">>, <<"connect_failed", "close">>,
                                  <<"end", "close">>, <<"close", "end">>}
  BY <1>1 DEF WillFail, WillEnd, WillClose
<1>5. ~BeforeStart(h)' /\ ~AfterStart(h)' /\ Ending(h)'
  BY <1>1 DEF BeforeStart, AfterStart, Ending
<1>6. Told(h)'
  BY <1>1, <1>2, <1>3, <1>4, <1>5, ListsDiffer DEF Told, Events, Steps
<1>7. ASSUME h \notin missed' PROVE Accounted(h)'
  <2>1. row'[h] # "absent"
    BY <1>7 DEF Accounted, LiveStages
  <2>2. CASE q \in {<<"end", "close">>, <<"close", "end">>}
    BY <1>1, <1>3, <1>4, <1>7, <2>1, <2>2, ListsDiffer
    DEF Told, Accounted, BeforeStart, AfterStart, Events, Steps
  <2>3. CASE q \in {<<"connect_failed", "close">>, <<"close">>} /\ target[h] = "none"
    BY <1>1, <1>4, <2>1, <2>3 DEF Accounted
  <2>4. CASE q = <<>> /\ h \in Webs /\ target[h] = "none" /\ BeforeStart(h)
    BY <1>1, <1>3, <2>1, <2>4 DEF Told, Accounted, Events
  <2> QED BY <2>2, <2>3, <2>4
<1> QED BY <1>6, <1>7

(* One of the last steps is done: it leaves the list, and is recorded       *)
(* unless it failed.                                                        *)
LEMMA ConcludeRecords ==
    ASSUME IInv, NEW h \in Handlers, Told(h), h \in missed \/ Accounted(h),
           Conclude(h)
    PROVE  Told(h)' /\ (h \in missed \/ Accounted(h))'
<1>1. /\ at[h] = "finishing" /\ at'[h] = "finishing" /\ target' = target
      /\ todo[h] # <<>> /\ todo'[h] = Tail(todo[h])
      /\ target[h] # "open"
  BY DEF Conclude, IInv, TypeOK, OpenShellsAreWaitedFor
<1>2. /\ ~BeforeStart(h)' /\ ~AfterStart(h)' /\ Ending(h)'
  BY <1>1 DEF BeforeStart, AfterStart, Ending
<1>3. \/ todo[h] = <<"close">> /\ Head(todo[h]) = "close" /\ todo'[h] = <<>>
      \/ todo[h] = <<"end">> /\ Head(todo[h]) = "end" /\ todo'[h] = <<>>
      \/ /\ todo[h] = <<"end", "close">> /\ Head(todo[h]) = "end"
         /\ todo'[h] = <<"close">>
      \/ /\ todo[h] = <<"close", "end">> /\ Head(todo[h]) = "close"
         /\ todo'[h] = <<"end">>
      \/ /\ todo[h] = <<"connect_failed", "close">>
         /\ Head(todo[h]) = "connect_failed" /\ todo'[h] = <<"close">>
  <2>1. todo[h] \in {<<"close">>, <<"end">>, <<"end", "close">>, <<"close", "end">>,
                     <<"connect_failed", "close">>}
    BY <1>1 DEF Told, WillClose, WillEnd
  <2> QED BY <1>1, <2>1, Lists
<1>4. missed' \in {missed, missed \cup {h}}
  BY DEF Conclude, CloseRow, WriteAudit, Succeeds, Fails
<1>5. CASE Head(todo[h]) = "close" /\ CloseRow(h) /\ UNCHANGED audit
  <2>1. \A e \in Events : Logged(h, e)' <=> Logged(h, e)
    BY <1>5 DEF Logged
  <2>2. \/ todo[h] = <<"close">> /\ todo'[h] = <<>>
        \/ todo[h] = <<"close", "end">> /\ todo'[h] = <<"end">>
    BY <1>3, <1>5
  <2>3. /\ ~WillFail(h) /\ ~WillFail(h)'
        /\ WillEnd(h)' <=> WillEnd(h)
        /\ WillEnd(h)' \/ todo'[h] = <<>>
    BY <2>2, ListsDiffer DEF WillFail, WillEnd, Events, Steps
  <2>4. Told(h)'
    BY <1>1, <1>2, <1>4, <2>1, <2>3 DEF Told, Events
  <2>5. ASSUME h \notin missed' PROVE Accounted(h)'
    <3>1. h \notin missed /\ Accounted(h) /\ row[h] # "absent"
      BY <1>1, <1>4, <2>5 DEF Accounted
    <3>2. row'[h] = "closed"
      <4>1. row' = [row EXCEPT ![h] = IF @ = "active" THEN "closed" ELSE @]
        BY <1>5, <2>5 DEF CloseRow, Fails
      <4> QED BY <3>1, <4>1 DEF IInv, TypeOK
    <3> QED BY <1>1, <2>1, <2>3, <3>1, <3>2 DEF Accounted, Events
  <2> QED BY <2>4, <2>5
<1>6. CASE Head(todo[h]) # "close" /\ WriteAudit(h, Head(todo[h])) /\ UNCHANGED row
  <2>1. PICK e \in {"end", "connect_failed"} :
            /\ e = Head(todo[h])
            /\ \/ /\ e = "end" /\ todo[h] = <<"end">> /\ todo'[h] = <<>>
               \/ /\ e = "end" /\ todo[h] = <<"end", "close">>
                  /\ todo'[h] = <<"close">>
               \/ /\ e = "connect_failed" /\ todo[h] = <<"connect_failed", "close">>
                  /\ todo'[h] = <<"close">>
    BY <1>3, <1>6
  <2>2. audit' \in {audit, audit \cup {<<h, e>>}}
        /\ (h \notin missed' => audit' = audit \cup {<<h, e>>})
    BY <1>6, <2>1 DEF WriteAudit, Fails, Succeeds
  <2>3. /\ \A f \in Events : f # e => (Logged(h, f)' <=> Logged(h, f))
        /\ Logged(h, e) => Logged(h, e)'
        /\ h \notin missed' => Logged(h, e)'
    BY <2>2 DEF Logged
  <2>4. /\ WillEnd(h) <=> e = "end"
        /\ WillFail(h) <=> e = "connect_failed"
        /\ WillClose(h) => WillClose(h)'
        /\ ~WillEnd(h)' /\ ~WillFail(h)'
        /\ WillClose(h)' \/ todo'[h] = <<>>
    BY <2>1, ListsDiffer DEF WillEnd, WillFail, WillClose, Steps, Events
  <2>5. Told(h)'
    BY <1>1, <1>2, <1>4, <2>1, <2>3, <2>4 DEF Told, Events
  <2>6. ASSUME h \notin missed' PROVE Accounted(h)'
    BY <1>1, <1>4, <1>6, <2>1, <2>3, <2>4, <2>6 DEF Told, Accounted, Events
  <2> QED BY <2>5, <2>6
<1> QED BY <1>5, <1>6 DEF Conclude

LEMMA OwnRecords ==
    ASSUME IInv, NEW h \in Handlers, Told(h), h \in missed \/ Accounted(h),
           HandlerStep(h)
    PROVE  Told(h)' /\ (h \in missed \/ Accounted(h))'
<1> DEFINE Goal == Told(h)' /\ (h \in missed \/ Accounted(h))'
<1>1. CASE Resolve(h)
  <2>1. /\ at[h] = "new" /\ at'[h] = "create" /\ todo'[h] = <<>> /\ todo[h] = <<>>
        /\ UNCHANGED <<row, audit, target, missed>>
    BY <1>1 DEF Resolve, Goto, IInv, TypeOK, Told
  <2> QED BY <2>1 DEF Told, Accounted, Logged, WillFail, WillEnd, WillClose,
                      BeforeStart, AfterStart, Ending
<1>2. CASE Create(h)
  <2>1. /\ at[h] = "create" /\ at'[h] = "connect" /\ todo' = todo
        /\ UNCHANGED <<audit, target>> /\ "connect" \in Stages
        /\ missed' \in {missed, missed \cup {h}}
        /\ row'[h] = "active" \/ h \in missed'
    BY <1>2 DEF Create, Goto, InsertRow, Succeeds, Fails, IInv, TypeOK, Stages
  <2> QED BY <2>1, MoveRecords DEF Logged, LiveStages, BeforeStart, AfterStart
<1>3. CASE Connect(h)
  <2>1. /\ at[h] = "connect" /\ target[h] = "none"
        /\ UNCHANGED <<row, audit, target, missed>>
    BY <1>3 DEF Connect, IInv, OpenShellsAreWaitedFor
  <2>2. CASE Goto(h, "channel")
    <3>1. at'[h] = "channel" /\ todo' = todo /\ "channel" \in Stages
      BY <2>2 DEF Goto, IInv, TypeOK, Stages
    <3> QED BY <2>1, <3>1, MoveRecords DEF Logged, LiveStages, BeforeStart, AfterStart
  <2>3. CASE Leave(h, AfterConnectFailure(h))
    BY <2>1, <2>3, LastSteps, LeaveRecords
    DEF AfterConnectFailure, LiveStages, BeforeStart
  <2> QED BY <1>3, <2>2, <2>3 DEF Connect
<1>4. CASE OpenChannel(h)
  <2>1. /\ at[h] = "channel" /\ target[h] = "none"
        /\ UNCHANGED <<row, audit, target, missed>>
    BY <1>4 DEF OpenChannel, IInv, OpenShellsAreWaitedFor
  <2>2. CASE Goto(h, IF h \in Shells THEN "start" ELSE "shell")
    <3> DEFINE s == IF h \in Shells THEN "start" ELSE "shell"
    <3>1. at'[h] = s /\ todo' = todo
          /\ s \in Stages \ {"new", "create", "finishing", "gone", "killed"}
      BY <2>2 DEF Goto, IInv, TypeOK, Stages
    <3>2. ~AfterStart(h)' /\ BeforeStart(h)
      BY <2>1, <3>1 DEF AfterStart, BeforeStart
    <3> HIDE DEF s
    <3> QED BY <2>1, <3>1, <3>2, MoveRecords DEF Logged, LiveStages
  <2>3. CASE Leave(h, AfterChannelFailure(h))
    <3>1. h \in Webs \/ h \in Shells
      BY DEF Handlers
    <3> QED BY <2>1, <2>3, <3>1, LastSteps, LeaveRecords
      DEF AfterChannelFailure, LiveStages, BeforeStart
  <2> QED BY <1>4, <2>2, <2>3 DEF OpenChannel
<1>5. CASE Start(h)
  <2> DEFINE s == IF h \in Shells THEN "shell" ELSE "running"
  <2>1. /\ at[h] = "start" /\ at'[h] = s /\ todo' = todo /\ row' = row
        /\ s \in Stages \ {"new", "create", "finishing", "gone", "killed"}
        /\ missed' \in {missed, missed \cup {h}}
        /\ audit' \in {audit, audit \cup {<<h, "start">>}}
        /\ h \in missed' \/ audit' = audit \cup {<<h, "start">>}
    BY <1>5 DEF Start, Goto, WriteAudit, Succeeds, Fails, IInv, TypeOK, Stages
  <2>2. ~BeforeStart(h)'
    BY <2>1, KindsAreDisjoint DEF BeforeStart
  <2>3. /\ h \in missed' \/ Logged(h, "start")'
        /\ Logged(h, "start") => Logged(h, "start")'
        /\ Logged(h, "end")' <=> Logged(h, "end")
        /\ Logged(h, "connect_failed")' <=> Logged(h, "connect_failed")
    BY <2>1 DEF Logged
  <2> HIDE DEF s
  <2> QED BY <2>1, <2>2, <2>3, MoveRecords DEF LiveStages
<1>6. CASE AskShell(h) \/ (ShellRefused(h) /\ h \notin Shells)
  <2> DEFINE s == IF h \in Shells THEN "running" ELSE "start"
  <2>1. /\ at[h] = "shell" /\ at'[h] = s /\ todo' = todo
        /\ UNCHANGED <<row, audit, missed>>
        /\ s \in Stages \ {"new", "create", "finishing", "gone", "killed"}
    BY <1>6 DEF AskShell, ShellRefused, Goto, IInv, TypeOK, Stages
  <2>2. /\ BeforeStart(h)' => BeforeStart(h)
        /\ AfterStart(h)' => AfterStart(h)
    BY <2>1, KindsAreDisjoint DEF BeforeStart, AfterStart, Handlers
  <2> HIDE DEF s
  <2> QED BY <2>1, <2>2, MoveRecords DEF Logged, LiveStages
<1>7. CASE ShellRefused(h) /\ h \in Shells
  <2>1. /\ at[h] = "shell" /\ target[h] = "none" /\ Leave(h, <<"close">>)
        /\ UNCHANGED <<row, audit, target, missed>> /\ <<"close">> \in Seq(Steps)
    BY <1>7, LastSteps
    DEF ShellRefused, AfterShellFailure, IInv, OpenShellsAreWaitedFor
  <2> QED BY <2>1, LeaveRecords DEF LiveStages
<1>8. CASE TerminalDone(h)
  <2>1. /\ at[h] = "running" /\ target[h] # "open" /\ Leave(h, AfterTerminal(h))
        /\ UNCHANGED <<row, audit, target, missed>>
    BY <1>8 DEF TerminalDone
  <2> QED BY <2>1, LastSteps, LeaveRecords DEF AfterTerminal, LiveStages, AfterStart
<1>9. CASE Conclude(h)
  BY <1>9, ConcludeRecords
<1>10. CASE Return(h)
  <2>1. /\ at[h] = "finishing" /\ at'[h] = "gone" /\ todo'[h] = <<>> /\ todo[h] = <<>>
        /\ UNCHANGED <<row, audit, target, missed>>
    BY <1>10 DEF Return, Goto, IInv, TypeOK
  <2> QED BY <2>1 DEF Told, Accounted, Logged, WillFail, WillEnd, WillClose,
                      BeforeStart, AfterStart, Ending
<1> QED BY <1>1, <1>2, <1>3, <1>4, <1>5, <1>6, <1>7, <1>8, <1>9, <1>10
        DEF HandlerStep

LEMMA WorldRecords ==
    ASSUME IInv, NEW h \in Handlers, Told(h), h \in missed \/ Accounted(h),
           \/ \E g \in Handlers : TargetEnds(g)
           \/ EditHost \/ Shutdown \/ CloseStore \/ Exit \/ Restart
           \/ UNCHANGED vars
    PROVE  Told(h)' /\ (h \in missed \/ Accounted(h))'
<1>1. UNCHANGED <<todo, row, audit, missed>>
  BY DEF TargetEnds, EditHost, Shutdown, CloseStore, Exit, Restart, Advance, vars
<1>2. /\ \A e \in Events : Logged(h, e)' <=> Logged(h, e)
      /\ (WillFail(h)' <=> WillFail(h)) /\ (WillEnd(h)' <=> WillEnd(h))
      /\ (WillClose(h)' <=> WillClose(h))
  BY <1>1 DEF Logged, WillFail, WillEnd, WillClose
<1>3. CASE \E g \in Handlers : TargetEnds(g)
  <2>1. at' = at /\ target'[h] \in {target[h], "over"}
        /\ (target'[h] # target[h] => target[h] = "open")
    BY <1>3 DEF TargetEnds, IInv, TypeOK
  <2> QED BY <1>1, <1>2, <2>1
    DEF Told, Accounted, Events, BeforeStart, AfterStart, Ending
<1>4. CASE Exit
  <2>1. target' = target
        /\ at'[h] = IF at[h] \in {"new", "gone"} THEN at[h] ELSE "killed"
    BY <1>4 DEF Exit, Advance
  <2> QED BY <1>1, <1>2, <2>1
    DEF Told, Accounted, Events, BeforeStart, AfterStart, Ending
<1>5. CASE EditHost \/ Shutdown \/ CloseStore \/ Restart \/ UNCHANGED vars
  <2>1. target' = target /\ at' = at
    BY <1>5 DEF EditHost, Shutdown, CloseStore, Restart, Advance, vars
  <2> QED BY <1>1, <1>2, <2>1
    DEF Told, Accounted, Events, BeforeStart, AfterStart, Ending
<1> QED BY <1>3, <1>4, <1>5

(* Every handler's records are complete for the point it has reached, or    *)
(* one of its statements has failed.                                        *)
THEOREM RecordsAreComplete == Spec => [](IInv /\ Records)
<1>1. Init => Records
  BY DEF Init, Records, Told, Accounted, Logged, WillFail, WillEnd, WillClose,
         BeforeStart, AfterStart, Ending
<1>2. IInv /\ Records /\ [Next]_vars => Records'
  <2> SUFFICES ASSUME IInv, Records, [Next]_vars, NEW h \in Handlers
               PROVE  Told(h)' /\ (h \in missed \/ Accounted(h))'
    BY DEF Records
  <2>1. Told(h) /\ (h \in missed \/ Accounted(h))
    BY DEF Records
  <2>2. ASSUME NEW g \in Handlers, HandlerStep(g)
        PROVE  Told(h)' /\ (h \in missed \/ Accounted(h))'
    <3>1. CASE g = h
      BY <2>1, <2>2, <3>1, OwnRecords
    <3>2. CASE g # h
      BY <2>1, <2>2, <3>2, OthersStay, SameRecords DEF IInv
    <3> QED BY <3>1, <3>2
  <2> QED BY <2>1, <2>2, WorldRecords DEF Next
<1> QED BY <1>1, <1>2, Inductive, PTL DEF Spec

(* A shell that was opened is over, closed and bracketed in the audit log   *)
(* when its handler has returned without a failed statement.                *)
THEOREM EveryTerminalIsAccountedFor == Spec => []TerminalsAreAccountedFor
<1>1. IInv /\ Records => TerminalsAreAccountedFor
  <2> SUFFICES ASSUME IInv, Records, NEW h \in Handlers \ missed,
                      at[h] = "gone", target[h] # "none"
               PROVE  /\ target[h] = "over" /\ row[h] = "closed"
                      /\ {<<h, "start">>, <<h, "end">>} \subseteq audit
    BY DEF TerminalsAreAccountedFor
  <2>1. Told(h) /\ Accounted(h) /\ target[h] = "over"
    BY DEF Records, IInv, TypeOK, OpenShellsAreWaitedFor
  <2>2. ~WillClose(h) /\ ~WillEnd(h)
    BY <2>1, ListsDiffer DEF Told, WillClose, WillEnd, Steps, Events
  <2> QED BY <2>1, <2>2 DEF Accounted, Logged
<1> QED BY <1>1, RecordsAreComplete, PTL

(* No end in the audit log without a start, none while the shell is open,   *)
(* and no start after a failed connection.                                  *)
THEOREM AuditIsAPossibleStory == Spec => []AuditTellsAPossibleStory
<1>1. Records => AuditTellsAPossibleStory
  BY DEF Records, Told, Logged, AuditTellsAPossibleStory
<1> QED BY <1>1, RecordsAreComplete, PTL

(* A row left active has one of the three causes.                           *)
THEOREM LeftoversAreExplained == Spec => []LeftoversHaveACause
<1>1. IInv /\ Records => LeftoversHaveACause
  <2> SUFFICES ASSUME IInv, Records, NEW h \in Handlers, row[h] = "active",
                      at[h] \notin LiveStages \cup {"finishing"},
                      at[h] # "killed", h \notin missed
               PROVE  h \in Webs /\ target[h] = "none" /\ <<h, "start">> \notin audit
    BY DEF LeftoversHaveACause
  <2>1. Told(h) /\ Accounted(h) /\ at[h] = "gone"
    BY DEF Records, IInv, TypeOK, Stages, LiveStages, RowFollowsHandler
  <2>2. ~WillClose(h)
    BY <2>1, ListsDiffer DEF Told, WillClose, Steps, Events
  <2> QED BY <2>1, <2>2 DEF Accounted, Logged
<1> QED BY <1>1, RecordsAreComplete, PTL

-----------------------------------------------------------------------------
(* Refinement.  Live handlers of the ledger are those in a live stage.      *)
Live == {h \in Handlers : at[h] \in LiveStages}

(* Every step that leaves the table alone and adds no live handler is a     *)
(* step Over of the ledger, or none.                                        *)
LEMMA OverOrStutter ==
    ASSUME UNCHANGED row, Live' \in SUBSET Live
    PROVE  [Ledger!Next]_<<row, Live>>
<1>1. CASE Live = {}
  BY <1>1
<1>2. CASE Live # {}
  BY <1>2 DEF Ledger!Next, Ledger!Over, Live
<1> QED BY <1>1, <1>2

LEMMA HandlerRefines ==
    ASSUME IInv, NEW h \in Handlers, HandlerStep(h)
    PROVE  [Ledger!Next]_<<row, Live>>
<1>0. TypeOK /\ RowFollowsHandler
  BY DEF IInv
<1>1. ASSUME Resolve(h) PROVE [Ledger!Next]_<<row, Live>>
  <2>1. /\ at[h] = "new" /\ at' = [at EXCEPT ![h] = "create"] /\ row' = row
    BY <1>1 DEF Resolve, Goto
  <2>2. row[h] = "absent" /\ h \notin Live
    BY <1>0, <2>1 DEF RowFollowsHandler, Live, LiveStages
  <2>3. Live' = Live \cup {h}
    BY <1>0, <2>1 DEF TypeOK, Live, LiveStages
  <2>4. Ledger!Accept(h)
    BY <2>1, <2>2, <2>3 DEF Ledger!Accept, Live
  <2> QED BY <2>4 DEF Ledger!Next
<1>2. ASSUME Create(h) PROVE [Ledger!Next]_<<row, Live>>
  <2>1. /\ at[h] = "create" /\ at' = [at EXCEPT ![h] = "connect"]
        /\ row' \in {row, [row EXCEPT ![h] = "active"]}
    BY <1>2 DEF Create, Goto, InsertRow
  <2>2. row[h] = "absent" /\ h \in Live
    BY <1>0, <2>1 DEF RowFollowsHandler, Live, LiveStages
  <2>3. Live' = Live
    BY <1>0, <2>1 DEF TypeOK, Live, LiveStages
  <2>4. CASE row' = row
    BY <2>3, <2>4
  <2>5. CASE row' = [row EXCEPT ![h] = "active"]
    <3>1. Ledger!Record(h)
      BY <2>2, <2>3, <2>5 DEF Ledger!Record, Live
    <3> QED BY <3>1 DEF Ledger!Next
  <2> QED BY <2>1, <2>4, <2>5
<1>3. ASSUME Conclude(h) PROVE [Ledger!Next]_<<row, Live>>
  <2>1. /\ at[h] = "finishing" /\ at' = at
        /\ row' \in {row, [row EXCEPT ![h] = IF @ = "active" THEN "closed" ELSE @]}
    BY <1>3 DEF Conclude, CloseRow
  <2>2. Live' = Live /\ h \notin Live
    BY <2>1 DEF Live, LiveStages
  <2>3. CASE row' = row
    BY <2>2, <2>3
  <2>4. CASE row' # row
    <3>1. row[h] = "active" /\ row' = [row EXCEPT ![h] = "closed"]
      BY <1>0, <2>1, <2>4 DEF TypeOK
    <3>2. Ledger!Close(h)
      BY <2>2, <3>1 DEF Ledger!Close, Live
    <3> QED BY <3>2 DEF Ledger!Next
  <2> QED BY <2>3, <2>4
<1>4. ASSUME \/ Connect(h) \/ OpenChannel(h) \/ Start(h) \/ AskShell(h)
             \/ ShellRefused(h) \/ TerminalDone(h) \/ Return(h)
      PROVE  [Ledger!Next]_<<row, Live>>
  <2>1. row' = row
    BY <1>4 DEF Connect, OpenChannel, Start, AskShell, ShellRefused,
                TerminalDone, Return
  <2>2. \E s : at' = [at EXCEPT ![h] = s] /\ (s \in LiveStages => h \in Live)
    BY <1>4 DEF Connect, OpenChannel, Start, AskShell, ShellRefused,
                TerminalDone, Return, Goto, Leave, Live, LiveStages
  <2>3. Live' \in SUBSET Live
    BY <1>0, <2>2 DEF TypeOK, Live
  <2> QED BY <2>1, <2>3, OverOrStutter
<1> QED BY <1>1, <1>2, <1>3, <1>4 DEF HandlerStep

LEMMA NextRefines ==
    ASSUME IInv, [Next]_vars
    PROVE  [Ledger!Next]_<<row, Live>>
<1>1. ASSUME NEW h \in Handlers, HandlerStep(h)
      PROVE  [Ledger!Next]_<<row, Live>>
  BY <1>1, HandlerRefines
<1>2. ASSUME \/ UNCHANGED vars
             \/ \E h \in Handlers : TargetEnds(h)
             \/ EditHost \/ Shutdown \/ CloseStore \/ Restart
      PROVE  [Ledger!Next]_<<row, Live>>
  <2>1. UNCHANGED <<row, at>>
    BY <1>2 DEF vars, TargetEnds, EditHost, Shutdown, CloseStore, Restart, Advance
  <2> QED BY <2>1 DEF Live
<1>3. ASSUME Exit PROVE [Ledger!Next]_<<row, Live>>
  <2>1. row' = row
    BY <1>3 DEF Exit, Advance
  <2>2. Live' \in SUBSET Live
    BY <1>3 DEF Exit, Live, LiveStages
  <2> QED BY <2>1, <2>2, OverOrStutter
<1> QED BY <1>1, <1>2, <1>3 DEF Next

(* Sessions implements SessionLedger: handlers of both kinds, with their    *)
(* own orders of audit and close, keep the promise of the sessions table.   *)
THEOREM KeepsLedger == Spec => LedgerIsKept
<1>1. Init => Ledger!Init
  BY DEF Init, Ledger!Init, LiveStages
<1>2. IInv /\ [Next]_vars => [Ledger!Next]_<<row, {h \in Handlers : at[h] \in LiveStages}>>
  BY NextRefines DEF Live
<1> QED BY <1>1, <1>2, Inductive, PTL DEF Spec, LedgerIsKept, Ledger!Spec

-----------------------------------------------------------------------------
(* What a handler has still to do                                           *)

(* A handler that was accepted has a step to take, unless it waits for an   *)
(* open shell: no statement and no refusal ever blocks it.                  *)
CanMove(h) ==
    \/ at[h] \in {"create", "connect", "channel", "start", "shell", "finishing"}
    \/ at[h] = "running" /\ target[h] # "open"

(* The core of EndedTerminalsAreUnlisted: where a shell has ended on its    *)
(* target and its session is still listed, the handler has a step to take   *)
(* or was cut off (server.go:297-346, handler.go:106-190).                  *)
NoEndedTerminalIsForgotten ==
    \A h \in Handlers :
        target[h] = "over" /\ row[h] = "active" =>
            CanMove(h) \/ h \in missed \/ at[h] = "killed"

(* The end of a shell always finds its handler, whatever failed or stopped. *)
THEOREM EndsAreNoticed == Spec => []NoEndedTerminalIsForgotten
<1>1. IInv /\ Records => NoEndedTerminalIsForgotten
  <2> SUFFICES ASSUME IInv, Records, NEW h \in Handlers,
                      target[h] = "over", row[h] = "active",
                      h \notin missed, at[h] # "killed"
               PROVE  CanMove(h)
    BY DEF NoEndedTerminalIsForgotten
  <2>1. Told(h) /\ Accounted(h) /\ at[h] \in Stages
    BY DEF Records, IInv, TypeOK
  <2>2. at[h] # "new"
    BY DEF IInv, RowFollowsHandler
  <2>3. at[h] # "gone"
    <3>1. CASE at[h] = "gone"
      <4>1. ~WillClose(h)
        BY <2>1, <3>1, ListsDiffer DEF Told, WillClose, Steps, Events
      <4> QED BY <2>1, <3>1, <4>1 DEF Accounted
    <3> QED BY <3>1
  <2> QED BY <2>1, <2>2, <2>3 DEF CanMove, Stages
<1> QED BY <1>1, RecordsAreComplete, PTL

(* The two kinds audit the start and ask for the shell in different orders. *)
StageLeft(h) ==
    [new |-> 10, create |-> 9, connect |-> 8, channel |-> 7,
     start |-> IF h \in Shells THEN 6 ELSE 5,
     shell |-> IF h \in Shells THEN 5 ELSE 6,
     running |-> 4, finishing |-> 1, gone |-> 0, killed |-> 0]

StepsLeft(h) ==
    StageLeft(h)[at[h]] + IF at[h] = "finishing" THEN Len(todo[h]) ELSE 0

LEMMA FewLastSteps ==
    ASSUME NEW h \in Handlers
    PROVE  /\ Len(AfterConnectFailure(h)) <= 2 /\ Len(AfterChannelFailure(h)) <= 2
           /\ Len(AfterTerminal(h)) <= 2 /\ Len(AfterShellFailure) <= 2
<1>1. /\ Len(<<>>) = 0 /\ Len(<<"close">>) = 1
      /\ Len(<<"connect_failed", "close">>) = 2
      /\ Len(<<"end", "close">>) = 2 /\ Len(<<"close", "end">>) = 2
  OBVIOUS
<1> QED BY <1>1 DEF AfterConnectFailure, AfterChannelFailure, AfterTerminal,
                    AfterShellFailure

LEMMA OwnStepsCount ==
    ASSUME TypeOK, NEW h \in Handlers, HandlerStep(h)
    PROVE  StepsLeft(h)' < StepsLeft(h)
<1> USE DEF StepsLeft, StageLeft
<1>0. at \in [Handlers -> Stages] /\ todo \in [Handlers -> Seq(Steps)]
  BY DEF TypeOK, Steps
<1>1. ASSUME NEW q \in Seq(Steps), Len(q) <= 2, Leave(h, q),
             at[h] \in {"connect", "channel", "shell", "running"}
      PROVE  StepsLeft(h)' < StepsLeft(h)
  <2>1. at'[h] = "finishing" /\ todo'[h] = q /\ Len(q) \in Nat
    BY <1>0, <1>1, LenProperties DEF Leave
  <2> QED BY <1>1, <2>1
<1>2. CASE Resolve(h) \/ Create(h) \/ Start(h) \/ AskShell(h)
  BY <1>0, <1>2, KindsAreDisjoint
  DEF Resolve, Create, Start, AskShell, Goto, Handlers
<1>3. CASE Connect(h)
  <2>1. CASE Goto(h, "channel")
    BY <1>0, <1>3, <2>1 DEF Connect, Goto
  <2>2. CASE Leave(h, AfterConnectFailure(h))
    BY <1>1, <1>3, <2>2, LastSteps, FewLastSteps DEF Connect
  <2> QED BY <1>3, <2>1, <2>2 DEF Connect
<1>4. CASE OpenChannel(h)
  <2>1. CASE Goto(h, IF h \in Shells THEN "start" ELSE "shell")
    BY <1>0, <1>4, <2>1 DEF OpenChannel, Goto
  <2>2. CASE Leave(h, AfterChannelFailure(h))
    BY <1>1, <1>4, <2>2, LastSteps, FewLastSteps DEF OpenChannel
  <2> QED BY <1>4, <2>1, <2>2 DEF OpenChannel
<1>5. CASE ShellRefused(h)
  <2>1. CASE h \notin Shells
    BY <1>0, <1>5, <2>1 DEF ShellRefused, Goto
  <2>2. CASE h \in Shells
    BY <1>1, <1>5, <2>2, LastSteps, FewLastSteps DEF ShellRefused
  <2> QED BY <2>1, <2>2
<1>6. CASE TerminalDone(h)
  BY <1>1, <1>6, LastSteps, FewLastSteps DEF TerminalDone
<1>7. CASE Conclude(h)
  <2>1. /\ at[h] = "finishing" /\ at' = at /\ todo[h] \in Seq(Steps)
        /\ todo[h] # <<>> /\ todo'[h] = Tail(todo[h])
    BY <1>0, <1>7 DEF Conclude
  <2>2. Len(Tail(todo[h])) = Len(todo[h]) - 1 /\ Len(todo[h]) \in Nat
    BY <2>1, HeadTailProperties, LenProperties
  <2> QED BY <2>1, <2>2
<1>8. CASE Return(h)
  <2>1. at[h] = "finishing" /\ at'[h] = "gone" /\ Len(todo[h]) \in Nat
    BY <1>0, <1>8, LenProperties DEF Return, Goto
  <2> QED BY <2>1
<1> QED BY <1>2, <1>3, <1>4, <1>5, <1>6, <1>7, <1>8 DEF HandlerStep

(* No handler turns in a loop or is taken back: each step of its own uses   *)
(* up one of a fixed number, and nobody's step, the stop and the restart of *)
(* the server included, gives it more.  With NoEndedTerminalIsForgotten a   *)
(* handler that keeps running closes the row of a shell that has ended.     *)
THEOREM HandlersWearOut ==
    Spec => [][\A h \in Handlers :
                  /\ HandlerStep(h) => StepsLeft(h)' < StepsLeft(h)
                  /\ StepsLeft(h)' <= StepsLeft(h)]_vars
<1>1. ASSUME TypeOK, TypeOK', [Next]_vars, NEW h \in Handlers
      PROVE  StepsLeft(h)' <= StepsLeft(h)
  <2>0. /\ at[h] \in Stages /\ todo[h] \in Seq(Steps)
        /\ at'[h] \in Stages /\ todo'[h] \in Seq(Steps)
    BY <1>1 DEF TypeOK, Steps
  <2>1. StepsLeft(h) \in Nat /\ StepsLeft(h)' \in Nat
    <3>1. Len(todo[h]) \in Nat /\ Len(todo'[h]) \in Nat
      BY <2>0, LenProperties
    <3>2. StageLeft(h)[at[h]] \in Nat /\ StageLeft(h)[at'[h]] \in Nat
      BY <2>0 DEF StageLeft, Stages
    <3>3. StepsLeft(h) \in Nat
      BY <3>1, <3>2 DEF StepsLeft
    <3>4. StepsLeft(h)' \in Nat
      BY <3>1, <3>2 DEF StepsLeft, StageLeft
    <3> QED BY <3>3, <3>4
  <2>2. CASE HandlerStep(h)
    BY <1>1, <2>1, <2>2, OwnStepsCount
  <2>3. CASE at'[h] = at[h] /\ todo'[h] = todo[h]
    <3>1. StepsLeft(h)' = StepsLeft(h)
      BY <2>3 DEF StepsLeft, StageLeft
    <3> QED BY <2>1, <3>1
  <2>4. CASE Exit
    <3>1. at'[h] = IF at[h] \in {"new", "gone"} THEN at[h] ELSE "killed"
      BY <2>4 DEF Exit
    <3>2. CASE at'[h] = "killed"
      <4>1. StepsLeft(h)' = 0
        BY <3>2 DEF StepsLeft, StageLeft
      <4> QED BY <2>1, <4>1
    <3>3. CASE at'[h] = at[h]
      BY <2>3, <2>4, <3>3 DEF Exit, Advance
    <3> QED BY <3>1, <3>2, <3>3
  <2>5. ASSUME NEW g \in Handlers \ {h}, HandlerStep(g)
        PROVE  at'[h] = at[h] /\ todo'[h] = todo[h]
    BY <1>1, <2>5
    DEF HandlerStep, Resolve, Create, Connect, OpenChannel, Start, AskShell,
        ShellRefused, TerminalDone, Conclude, Return, Goto, Leave, TypeOK
  <2>6. ASSUME \/ \E g \in Handlers : TargetEnds(g)
               \/ EditHost \/ Shutdown \/ CloseStore \/ Restart \/ UNCHANGED vars
        PROVE  at'[h] = at[h] /\ todo'[h] = todo[h]
    BY <2>6 DEF TargetEnds, EditHost, Shutdown, CloseStore, Restart, Advance, vars
  <2> QED BY <1>1, <2>2, <2>3, <2>4, <2>5, <2>6 DEF Next
<1>2. IInv /\ IInv' /\ [Next]_vars
        => [\A h \in Handlers :
               /\ HandlerStep(h) => StepsLeft(h)' < StepsLeft(h)
               /\ StepsLeft(h)' <= StepsLeft(h)]_vars
  BY <1>1, OwnStepsCount DEF IInv
<1> QED BY <1>2, Inductive, PTL DEF Spec
=============================================================================
