---------------------------- MODULE Relay_proofs ----------------------------
(***************************************************************************)
(* Proofs about Relay, for any number of pieces and any room: what was     *)
(* sent before an end has arrived when the other side learns of it.        *)
(***************************************************************************)
EXTENDS Relay, TLAPS

AllOff == \A d \in Directions : pump[d] = "off"
MainsReturned == \A d \in MainPumps : Returned(d)

(* The handler goes on only when the pumps it waits for have returned, and, *)
(* but for a forwarded connection, when the program has exited.             *)
HandlerFits ==
    /\ main \in {"dial", "request"} => AllOff
    /\ main \in {"dial", "request", "relay", "wait", "closeTarget"} =>
          open = {"client", "target"}
    /\ main \in {"closeClient", "gone"} =>
          IF "target" \in open THEN kind = "tcp" /\ AllOff ELSE MainsReturned
    /\ main = "closeClient" => "client" \in open
    /\ main = "gone" => "client" \notin open
    /\ main \in {"wait", "closeTarget"} => MainsReturned
    /\ main = "dial" => kind = "tcp"
    /\ main \in {"request", "wait"} => kind # "tcp"
    /\ main \in {"closeTarget", "closeClient", "gone"} =>
          kind = "tcp" \/ target = "gone"

(* What the ends have done shows in the directions they send.               *)
EndsFit ==
    /\ \A d \in Directions \ Streams : pump[d] = "off" /\ flow[d].sent = 0
    /\ client # "open" => flow["in"].ended
    /\ eof => kind = "exec" \/ Returned("in")
    /\ kind = "tcp" /\ pump["in"] = "done" => flow["in"].ended
    /\ \A d \in Directions : pump[d] = "last" => flow[d].ended

(* Of a direction that is heard the pump holds at most the piece it is writing, no   *)
(* write has failed, and a pump that has met the end has met the last piece.*)
Complete(d) ==
    /\ pump[d] # "failed"
    /\ flow[d].taken = IF Writing(d) THEN flow[d].given + 1 ELSE flow[d].given
    /\ pump[d] \in {"last", "done"} =>
          flow[d].ended /\ flow[d].taken = flow[d].sent

NothingIsLost == \A d \in Directions : Heard(d) => Complete(d)

(* A pump that writes has taken what it has not given yet.                  *)
WritersHoldAPiece ==
    \A d \in Directions : Writing(d) => flow[d].given < flow[d].taken

IInv == TypeOK /\ WritersHoldAPiece /\ HandlerFits /\ EndsFit /\ NothingIsLost

-----------------------------------------------------------------------------
LEMMA InitInv == Init => IInv
<1> SUFFICES ASSUME Init PROVE IInv
  OBVIOUS
<1>1. TypeOK
  BY Bounds DEF Init, TypeOK, Flow, MainStages, PumpStages, Directions
<1>2. HandlerFits
  BY DEF Init, HandlerFits, AllOff
<1>3. EndsFit
  BY DEF Init, EndsFit, Directions
<1>4. NothingIsLost
  BY DEF Init, NothingIsLost, Complete, Writing
<1>5. WritersHoldAPiece
  BY DEF Init, WritersHoldAPiece, Writing
<1> QED BY <1>1, <1>2, <1>3, <1>4, <1>5 DEF IInv

(* A step counts one piece on, or ends a direction, and leaves the other    *)
(* numbers and the other directions alone.                                  *)
Changed(d, f) ==
    /\ flow' \in [Directions -> Flow]
    /\ \A e \in Directions \ {d} : flow'[e] = flow[e]
    /\ f # "sent" => flow'[d].sent = flow[d].sent
    /\ f # "taken" => flow'[d].taken = flow[d].taken
    /\ f # "given" => flow'[d].given = flow[d].given
    /\ f # "used" => flow'[d].used = flow[d].used
    /\ f # "ended" => flow'[d].ended = flow[d].ended

LEMMA Counts ==
    ASSUME flow \in [Directions -> Flow], NEW d \in Directions
    PROVE  /\ flow' = [flow EXCEPT ![d].sent = @ + 1] =>
                 Changed(d, "sent") /\ flow'[d].sent = flow[d].sent + 1
           /\ flow' = [flow EXCEPT ![d].taken = @ + 1] =>
                 Changed(d, "taken") /\ flow'[d].taken = flow[d].taken + 1
           /\ flow' = [flow EXCEPT ![d].given = @ + 1] =>
                 Changed(d, "given") /\ flow'[d].given = flow[d].given + 1
           /\ flow' = [flow EXCEPT ![d].used = @ + 1] =>
                 Changed(d, "used") /\ flow'[d].used = flow[d].used + 1
           /\ flow' = [flow EXCEPT ![d].ended = TRUE] =>
                 Changed(d, "ended") /\ flow'[d].ended
<1>1. flow[d] \in Flow /\ flow[d].sent \in Nat /\ flow[d].taken \in Nat
      /\ flow[d].given \in Nat /\ flow[d].used \in Nat
  BY DEF Flow
<1>2. ASSUME flow' = [flow EXCEPT ![d].sent = @ + 1]
      PROVE  Changed(d, "sent") /\ flow'[d].sent = flow[d].sent + 1
  <2> DEFINE r == [flow[d] EXCEPT !.sent = flow[d].sent + 1]
  <2>1. r \in Flow /\ r.sent = flow[d].sent + 1
    BY <1>1 DEF Flow
  <2>2. /\ r.taken = flow[d].taken /\ r.given = flow[d].given
      /\ r.used = flow[d].used /\ r.ended = flow[d].ended
    BY <1>1 DEF Flow
  <2>3. flow' = [flow EXCEPT ![d] = r]
    BY <1>2
  <2> HIDE DEF r
  <2> QED BY <2>1, <2>2, <2>3 DEF Changed
<1>3. ASSUME flow' = [flow EXCEPT ![d].taken = @ + 1]
      PROVE  Changed(d, "taken") /\ flow'[d].taken = flow[d].taken + 1
  <2> DEFINE r == [flow[d] EXCEPT !.taken = flow[d].taken + 1]
  <2>1. r \in Flow /\ r.taken = flow[d].taken + 1
    BY <1>1 DEF Flow
  <2>2. /\ r.sent = flow[d].sent /\ r.given = flow[d].given
      /\ r.used = flow[d].used /\ r.ended = flow[d].ended
    BY <1>1 DEF Flow
  <2>3. flow' = [flow EXCEPT ![d] = r]
    BY <1>3
  <2> HIDE DEF r
  <2> QED BY <2>1, <2>2, <2>3 DEF Changed
<1>4. ASSUME flow' = [flow EXCEPT ![d].given = @ + 1]
      PROVE  Changed(d, "given") /\ flow'[d].given = flow[d].given + 1
  <2> DEFINE r == [flow[d] EXCEPT !.given = flow[d].given + 1]
  <2>1. r \in Flow /\ r.given = flow[d].given + 1
    BY <1>1 DEF Flow
  <2>2. /\ r.sent = flow[d].sent /\ r.taken = flow[d].taken
      /\ r.used = flow[d].used /\ r.ended = flow[d].ended
    BY <1>1 DEF Flow
  <2>3. flow' = [flow EXCEPT ![d] = r]
    BY <1>4
  <2> HIDE DEF r
  <2> QED BY <2>1, <2>2, <2>3 DEF Changed
<1>5. ASSUME flow' = [flow EXCEPT ![d].used = @ + 1]
      PROVE  Changed(d, "used") /\ flow'[d].used = flow[d].used + 1
  <2> DEFINE r == [flow[d] EXCEPT !.used = flow[d].used + 1]
  <2>1. r \in Flow /\ r.used = flow[d].used + 1
    BY <1>1 DEF Flow
  <2>2. /\ r.sent = flow[d].sent /\ r.taken = flow[d].taken
      /\ r.given = flow[d].given /\ r.ended = flow[d].ended
    BY <1>1 DEF Flow
  <2>3. flow' = [flow EXCEPT ![d] = r]
    BY <1>5
  <2> HIDE DEF r
  <2> QED BY <2>1, <2>2, <2>3 DEF Changed
<1>6. ASSUME flow' = [flow EXCEPT ![d].ended = TRUE]
      PROVE  Changed(d, "ended") /\ flow'[d].ended
  <2> DEFINE r == [flow[d] EXCEPT !.ended = TRUE]
  <2>1. r \in Flow /\ r.ended = TRUE
    BY <1>1 DEF Flow
  <2>2. /\ r.sent = flow[d].sent /\ r.taken = flow[d].taken
      /\ r.given = flow[d].given /\ r.used = flow[d].used
    BY <1>1 DEF Flow
  <2>3. flow' = [flow EXCEPT ![d] = r]
    BY <1>6
  <2> HIDE DEF r
  <2> QED BY <2>1, <2>2, <2>3 DEF Changed
<1> QED BY <1>2, <1>3, <1>4, <1>5, <1>6

(* Pumps move along their stages, and only the reader of a program's input  *)
(* tells it the end.                                                        *)
LEMMA Moves ==
    ASSUME TypeOK, NEW d \in Directions, NEW s \in PumpStages, Goto(d, s)
    PROVE  /\ pump' \in [Directions -> PumpStages] /\ pump'[d] = s
           /\ \A e \in Directions \ {d} : pump'[e] = pump[e]
           /\ eof' \in BOOLEAN
           /\ eof' => eof \/ (s \in {"done", "failed"} /\ d = "in")
  BY DEF TypeOK, Goto, TellsEnd

-----------------------------------------------------------------------------
(* The pumps                                                                *)

LEMMA PumpTypes ==
    ASSUME TypeOK, WritersHoldAPiece, NEW d \in Directions, PumpStep(d)
    PROVE  TypeOK' /\ WritersHoldAPiece'
<1>1. UNCHANGED <<kind, main, open, client, target>>
  BY DEF PumpStep, Read, ReadEnds, Write, WriteFails
<1>2. ASSUME NEW s \in PumpStages, Goto(d, s)
      PROVE  /\ pump' \in [Directions -> PumpStages] /\ pump'[d] = s
             /\ \A e \in Directions \ {d} : pump'[e] = pump[e]
             /\ eof' \in BOOLEAN
  BY <1>2, Moves
<1>3. CASE Read(d)
  <2>1. PICK s \in {"write", "last"} : Goto(d, s)
    BY <1>3 DEF Read
  <2>2. Changed(d, "taken") /\ flow'[d].taken = flow[d].taken + 1
    BY <1>3, Counts DEF TypeOK, Read
  <2>3. flow[d].taken < flow[d].sent
    BY <1>3 DEF Read, Waiting
  <2>4. /\ pump' \in [Directions -> PumpStages] /\ eof' \in BOOLEAN
        /\ \A e \in Directions \ {d} : pump'[e] = pump[e]
    BY <1>2, <2>1 DEF PumpStages
  <2>5. TypeOK'
    BY <1>1, <2>2, <2>3, <2>4, Bounds DEF TypeOK, Changed, Flow
  <2>6. WritersHoldAPiece'
    BY <2>2, <2>4 DEF WritersHoldAPiece, Writing, TypeOK, Changed, Flow
  <2> QED BY <2>5, <2>6
<1>4. CASE Write(d)
  <2>1. PICK s \in {"read", "done"} : Goto(d, s)
    BY <1>4 DEF Write, AfterWrite
  <2>2. Changed(d, "given") /\ flow'[d].given = flow[d].given + 1
    BY <1>4, Counts DEF TypeOK, Write
  <2>3. flow[d].given < flow[d].taken
    BY <1>4 DEF Write, WritersHoldAPiece
  <2>4. /\ pump' \in [Directions -> PumpStages] /\ eof' \in BOOLEAN /\ pump'[d] = s
        /\ \A e \in Directions \ {d} : pump'[e] = pump[e]
    BY <1>2, <2>1 DEF PumpStages
  <2>5. TypeOK'
    BY <1>1, <2>2, <2>3, <2>4 DEF TypeOK, Changed, Flow
  <2>6. WritersHoldAPiece'
    BY <2>2, <2>4 DEF WritersHoldAPiece, Writing, TypeOK, Changed, Flow
  <2> QED BY <2>5, <2>6
<1>5. CASE ReadEnds(d) \/ WriteFails(d)
  <2>1. PICK s \in {"read", "done", "failed"} : Goto(d, s)
    BY <1>5 DEF ReadEnds, WriteFails, AfterWrite
  <2>2. /\ pump' \in [Directions -> PumpStages] /\ eof' \in BOOLEAN /\ pump'[d] = s
        /\ \A e \in Directions \ {d} : pump'[e] = pump[e]
    BY <1>2, <2>1 DEF PumpStages
  <2>3. flow' = flow
    BY <1>5 DEF ReadEnds, WriteFails
  <2> QED BY <1>1, <2>2, <2>3 DEF TypeOK, WritersHoldAPiece, Writing
<1> QED BY <1>3, <1>4, <1>5 DEF PumpStep

(* What a pump's step leaves alone, and where it leads.                     *)
LEMMA PumpFrame ==
    ASSUME TypeOK, NEW d \in Directions, PumpStep(d)
    PROVE  /\ UNCHANGED <<kind, main, open, client, target>>
           /\ pump[d] \in {"read", "write", "last"} /\ pump'[d] \in PumpStages \ {"off"}
           /\ \A e \in Directions \ {d} : pump'[e] = pump[e] /\ flow'[e] = flow[e]
           /\ \A e \in Directions :
                 flow'[e].sent = flow[e].sent /\ flow'[e].ended = flow[e].ended
           /\ eof' => eof \/ (pump'[d] \in {"done", "failed"} /\ d = "in")
<1>1. PICK s \in PumpStages \ {"off"} : Goto(d, s)
  BY DEF PumpStep, Read, ReadEnds, Write, WriteFails, AfterWrite, PumpStages
<1>2. /\ pump'[d] = s /\ \A e \in Directions \ {d} : pump'[e] = pump[e]
      /\ eof' => eof \/ (s \in {"done", "failed"} /\ d = "in")
  BY <1>1, Moves
<1>3. pump[d] \in {"read", "write", "last"} /\ UNCHANGED <<kind, main, open, client, target>>
  BY DEF PumpStep, Read, ReadEnds, Write, WriteFails, Writing
<1>4. flow' = flow \/ Changed(d, "taken") \/ Changed(d, "given")
  BY Counts DEF TypeOK, PumpStep, Read, ReadEnds, Write, WriteFails
<1> QED BY <1>1, <1>2, <1>3, <1>4 DEF Changed

LEMMA PumpKeepsFit ==
    ASSUME IInv, NEW d \in Directions, PumpStep(d)
    PROVE  HandlerFits' /\ EndsFit'
<1> USE DEF IInv
<1>1. /\ UNCHANGED <<kind, main, open, client, target>>
      /\ pump[d] \in {"read", "write", "last"} /\ pump'[d] # "off"
      /\ \A e \in Directions \ {d} : pump'[e] = pump[e] /\ flow'[e] = flow[e]
      /\ \A e \in Directions :
            flow'[e].sent = flow[e].sent /\ flow'[e].ended = flow[e].ended
      /\ eof' => eof \/ (pump'[d] \in {"done", "failed"} /\ d = "in")
  BY PumpFrame
<1>2. ~AllOff /\ (MainsReturned => MainsReturned') /\ MainPumps' = MainPumps
      /\ Streams' = Streams /\ d \in Streams /\ (Returned("in") => Returned("in")')
  BY <1>1 DEF AllOff, MainsReturned, Returned, MainPumps, Streams, EndsFit, Directions
<1>3. HandlerFits'
  BY <1>1, <1>2 DEF HandlerFits
<1>4. kind = "tcp" /\ d = "in" /\ pump'[d] = "done" => flow[d].ended
  <2>1. SUFFICES ASSUME kind = "tcp", d = "in", ReadEnds(d), ~SourceIsOpen(d)
                 PROVE  FALSE
    BY <1>1, Moves DEF EndsFit, PumpStep, Read, Write, WriteFails, ReadEnds, AfterWrite,
                       PumpStages, Writing
  <2>2. main = "gone" /\ "target" \notin open
    BY <1>2, <2>1 DEF SourceIsOpen, HandlerFits, TypeOK, MainStages
  <2> QED BY <1>1, <2>1, <2>2 DEF HandlerFits, MainsReturned, MainPumps, Returned
<1>5. pump'[d] = "last" => flow[d].ended
  BY Moves DEF PumpStep, Read, Write, WriteFails, ReadEnds, AfterWrite, PumpStages
<1>6. EndsFit'
  BY <1>1, <1>2, <1>4, <1>5 DEF EndsFit, Returned, Directions
<1> QED BY <1>3, <1>6

(* While a direction is heard, its pump has somewhere to read from and to   *)
(* write to.                                                                *)
LEMMA HeardIsOpen ==
    ASSUME IInv, NEW d \in Directions, Heard(d), pump[d] \in {"read", "write", "last"}
    PROVE  SourceIsOpen(d) /\ DestinationIsOpen(d)
<1> USE DEF IInv
<1>1. ~AllOff
  BY DEF AllOff
<1>2. CASE d = "in"
  <2>1. "client" \notin open \/ "target" \notin open => MainsReturned /\ kind = "tcp"
    BY <1>1, <1>2 DEF Heard, HandlerFits, TypeOK, MainStages
  <2>2. ~(MainsReturned /\ kind = "tcp")
    BY <1>2 DEF MainsReturned, MainPumps, Returned
  <2> QED BY <1>2, <2>1, <2>2 DEF SourceIsOpen, DestinationIsOpen, Heard
<1>3. CASE d # "in"
  <2>1. "client" \notin open \/ "target" \notin open => MainsReturned
    BY <1>1 DEF HandlerFits, TypeOK, MainStages
  <2>2. CASE kind = "tcp"
    <3>1. ~flow["in"].ended /\ pump["in"] # "failed" /\ client = "open"
      BY <1>3, <2>2 DEF Heard, EndsFit
    <3>2. ~MainsReturned
      BY <2>2, <3>1 DEF MainsReturned, MainPumps, Returned, EndsFit
    <3> QED BY <1>3, <2>1, <3>1, <3>2 DEF SourceIsOpen, DestinationIsOpen
  <2>3. CASE kind # "tcp"
    <3>1. client # "gone" /\ d \in MainPumps
      BY <1>3, <2>3 DEF Heard, MainPumps, Directions, TypeOK
    <3>2. ~MainsReturned
      BY <3>1 DEF MainsReturned, Returned
    <3> QED BY <1>3, <2>1, <3>1, <3>2 DEF SourceIsOpen, DestinationIsOpen
  <2> QED BY <2>2, <2>3
<1> QED BY <1>2, <1>3

LEMMA PumpLosesNothing ==
    ASSUME IInv, NEW d \in Directions, PumpStep(d)
    PROVE  NothingIsLost'
<1> USE DEF IInv
<1>1. /\ UNCHANGED <<kind, main, open, client, target>>
      /\ pump[d] \in {"read", "write", "last"} /\ pump'[d] \in PumpStages
      /\ \A e \in Directions \ {d} : pump'[e] = pump[e] /\ flow'[e] = flow[e]
      /\ \A e \in Directions :
            flow'[e].sent = flow[e].sent /\ flow'[e].ended = flow[e].ended
  BY PumpFrame
<1>2. \A e \in Directions : Heard(e)' => Heard(e)
  BY <1>1 DEF Heard, Directions
<1>3. ASSUME NEW e \in Directions \ {d}, Heard(e)'
      PROVE  Complete(e)'
  BY <1>1, <1>2, <1>3 DEF NothingIsLost, Complete, Writing
<1>4. ASSUME Heard(d)
      PROVE  Complete(d)'
  <2>1. SourceIsOpen(d) /\ DestinationIsOpen(d) /\ Complete(d)
    BY <1>1, <1>4, HeardIsOpen DEF NothingIsLost
  <2>2. CASE Read(d)
    <3>1. flow'[d].taken = flow[d].taken + 1 /\ flow'[d].given = flow[d].given
      BY <2>2, Counts DEF Read, TypeOK, Changed
    <3>2. CASE Goto(d, "write")
      <4>1. pump'[d] = "write"
        BY <3>2, Moves DEF PumpStages
      <4> QED BY <1>1, <2>1, <2>2, <3>1, <4>1 DEF Complete, Writing, Read
    <3>3. CASE Goto(d, "last") /\ flow[d].ended /\ flow[d].sent = flow[d].taken + 1
      <4>1. pump'[d] = "last"
        BY <3>3, Moves DEF PumpStages
      <4> QED BY <1>1, <2>1, <2>2, <3>1, <3>3, <4>1 DEF Complete, Writing, Read
    <3> QED BY <2>2, <3>2, <3>3 DEF Read
  <2>3. CASE ReadEnds(d)
    <3>1. pump'[d] = "done" /\ flow' = flow /\ pump[d] = "read"
      BY <2>3, Moves DEF ReadEnds, PumpStages
    <3>2. flow[d].ended /\ flow[d].taken = flow[d].sent
      BY <2>1, <2>3 DEF ReadEnds, Waiting, TypeOK, Flow
    <3> QED BY <2>1, <3>1, <3>2 DEF Complete, Writing
  <2>4. CASE Write(d)
    <3>1. flow'[d].given = flow[d].given + 1 /\ flow'[d].taken = flow[d].taken
      BY <2>4, Counts DEF Write, TypeOK, Changed
    <3>2. pump'[d] = IF pump[d] = "last" THEN "done" ELSE "read"
      BY <2>4, Moves DEF Write, AfterWrite, PumpStages
    <3> QED BY <1>1, <2>1, <2>4, <3>1, <3>2 DEF Complete, Write, Writing
  <2> QED BY <2>1, <2>2, <2>3, <2>4 DEF PumpStep, WriteFails
<1> QED BY <1>2, <1>3, <1>4 DEF NothingIsLost

-----------------------------------------------------------------------------
(* The handler                                                              *)

LEMMA PumpsStart ==
    ASSUME IInv, main \in {"dial", "request"}, StartPumps, main' = "relay",
           UNCHANGED <<kind, flow, ends>>
    PROVE  IInv'
<1> USE DEF IInv, ends
<1>1. AllOff /\ open = {"client", "target"}
  BY DEF HandlerFits
<1>2. pump' = [d \in Directions |-> IF d \in Streams THEN "read" ELSE "off"]
  BY DEF StartPumps
<1>3. TypeOK' /\ WritersHoldAPiece'
  BY <1>2 DEF TypeOK, MainStages, PumpStages, WritersHoldAPiece, Writing
<1>4. HandlerFits'
  BY <1>1 DEF HandlerFits
<1>5. EndsFit'
  BY <1>1, <1>2 DEF EndsFit, AllOff, Returned, Streams, Directions
<1>6. NothingIsLost'
  <2>1. \A d \in Directions : Heard(d)' => Heard(d)
    BY <1>1 DEF Heard, AllOff, Directions
  <2>2. \A d \in Directions : Complete(d) => Complete(d)'
    BY <1>1, <1>2 DEF Complete, Writing, AllOff
  <2> QED BY <2>1, <2>2 DEF NothingIsLost
<1> QED BY <1>3, <1>4, <1>5, <1>6

LEMMA HandlerKeeps ==
    ASSUME IInv, MainStep
    PROVE  IInv'
<1> USE DEF IInv
<1>1. CASE Dials \/ Begins
  BY <1>1, PumpsStart DEF Dials, Begins, Goes
<1>2. CASE ~(Dials \/ Begins)
  <2>1. UNCHANGED <<kind, pump, flow, client, target, eof>>
    BY <1>2 DEF MainStep, DialFails, MainPumpsReturn, ProgramExited, CloseTarget,
                CloseClient, ends
  <2>2. main' \in MainStages /\ open' \in SUBSET {"client", "target"}
    BY <1>2 DEF MainStep, DialFails, MainPumpsReturn, ProgramExited, CloseTarget,
                CloseClient, ends, Goes, MainStages, TypeOK
  <2>3. TypeOK' /\ WritersHoldAPiece' /\ EndsFit'
    BY <2>1, <2>2 DEF TypeOK, WritersHoldAPiece, Writing, EndsFit, Streams, Returned
  <2>4. NothingIsLost'
    BY <2>1 DEF NothingIsLost, Complete, Heard, Writing
  <2>5. /\ (AllOff <=> AllOff') /\ (MainsReturned <=> MainsReturned')
        /\ MainPumps' = MainPumps
    BY <2>1 DEF AllOff, MainsReturned, MainPumps, Returned
  <2>6. HandlerFits'
    <3>1. CASE DialFails
      BY <2>1, <2>5, <3>1 DEF HandlerFits, DialFails, Goes, ends
    <3>2. CASE MainPumpsReturn
      BY <2>1, <2>5, <3>2 DEF HandlerFits, MainPumpsReturn, MainsReturned, Goes, ends
    <3>3. CASE ProgramExited
      BY <2>1, <2>5, <3>3 DEF HandlerFits, ProgramExited, Goes, ends
    <3>4. CASE CloseTarget
      BY <2>1, <2>5, <3>4 DEF HandlerFits, CloseTarget, Goes
    <3>5. CASE CloseClient
      BY <2>1, <2>5, <3>5 DEF HandlerFits, CloseClient, Goes
    <3> QED BY <1>2, <3>1, <3>2, <3>3, <3>4, <3>5 DEF MainStep
  <2> QED BY <2>3, <2>4, <2>6
<1> QED BY <1>1, <1>2

-----------------------------------------------------------------------------
(* The two ends                                                             *)

(* A step of an end that ends directions, or counts a piece of one.         *)
LEMMA EndsFrame ==
    ASSUME TypeOK, EndStep
    PROVE  /\ UNCHANGED <<kind, main, pump, open, eof>>
           /\ flow' \in [Directions -> Flow]
           /\ \A d \in Directions :
                 /\ flow'[d].given = flow[d].given /\ flow'[d].taken = flow[d].taken
                 /\ flow[d].ended => flow'[d].ended /\ flow'[d].sent = flow[d].sent
                 /\ flow'[d].sent \in {flow[d].sent, flow[d].sent + 1}
                 /\ flow'[d].sent # flow[d].sent =>
                       d \in Streams /\ flow[d].sent < Pieces[d]
                 /\ flow'[d].used <= flow[d].given
           /\ client' = "open" => client = "open"
           /\ client' # client => flow'["in"].ended
           /\ client = "gone" => client' = "gone"
           /\ client' \in {"open", "done", "gone"} /\ target' \in {"open", "gone"}
           /\ target = "gone" => target' = "gone"
<1>1. flow \in [Directions -> Flow] /\ \A d \in Directions : flow[d].used <= flow[d].given
  BY DEF TypeOK
<1>2. ASSUME NEW d \in Directions, Send(d)
      PROVE  /\ Changed(d, "sent") /\ flow'[d].sent = flow[d].sent + 1
             /\ ~flow[d].ended /\ flow[d].sent < Pieces[d] /\ d \in Streams
             /\ UNCHANGED <<kind, main, pump, ends>>
  BY <1>1, <1>2, Counts DEF Send
<1>3. ASSUME NEW d \in Directions, Use(d)
      PROVE  /\ Changed(d, "used") /\ flow'[d].used = flow[d].used + 1
             /\ flow[d].used < flow[d].given
             /\ UNCHANGED <<kind, main, pump, ends>>
  BY <1>1, <1>3, Counts DEF Use
<1>4. ASSUME NEW d \in Directions, flow' = [flow EXCEPT ![d].ended = TRUE]
      PROVE  Changed(d, "ended") /\ flow'[d].ended
  BY <1>1, <1>4, Counts
<1>5. ASSUME TargetGoes
      PROVE  /\ flow' \in [Directions -> Flow]
             /\ \A d \in Directions :
                   /\ flow'[d].given = flow[d].given /\ flow'[d].taken = flow[d].taken
                   /\ flow'[d].sent = flow[d].sent /\ flow'[d].used = flow[d].used
                   /\ flow[d].ended => flow'[d].ended
  <2> DEFINE End(d) == [flow[d] EXCEPT !.ended = TRUE]
  <2>1. ASSUME NEW d \in Directions
        PROVE  /\ End(d) \in Flow /\ End(d).ended
               /\ End(d).given = flow[d].given /\ End(d).taken = flow[d].taken
               /\ End(d).sent = flow[d].sent /\ End(d).used = flow[d].used
    BY <1>1 DEF Flow
  <2>2. flow' = [flow EXCEPT !["out"] = End("out"), !["err"] = End("err")]
    BY <1>5 DEF TargetGoes
  <2>3. \A d \in Directions : flow'[d] = flow[d] \/ flow'[d] = End(d)
    BY <1>1, <2>2 DEF Directions
  <2>4. flow' \in [Directions -> Flow]
    <3>1. End("out") \in Flow /\ End("err") \in Flow
      BY <2>1 DEF Directions
    <3> HIDE DEF End
    <3> QED BY <1>1, <2>2, <3>1
  <2> HIDE DEF End
  <2> QED BY <2>1, <2>3, <2>4
<1>6. CASE \E d \in Directions : Send(d)
  <2>1. PICK d \in Directions : Send(d)
    BY <1>6
  <2> QED BY <1>1, <1>2, <2>1 DEF TypeOK, Changed, Flow, ends
<1>7. CASE \E d \in Directions : Use(d)
  <2>1. PICK d \in Directions : Use(d)
    BY <1>7
  <2> QED BY <1>1, <1>3, <2>1 DEF TypeOK, Changed, Flow, ends
<1>8. CASE ClientFinishes \/ ClientGoes
  <2>1. Changed("in", "ended") /\ flow'["in"].ended
    BY <1>4, <1>8 DEF ClientFinishes, ClientGoes, Directions
  <2> QED BY <1>1, <1>8, <2>1 DEF TypeOK, Changed, ClientFinishes, ClientGoes
<1>9. CASE \E d \in Directions : TargetFinishes(d)
  <2>1. PICK d \in Directions : TargetFinishes(d)
    BY <1>9
  <2>2. Changed(d, "ended") /\ flow'[d].ended
    BY <1>4, <2>1 DEF TargetFinishes
  <2> QED BY <1>1, <2>1, <2>2 DEF TypeOK, Changed, TargetFinishes, ends
<1>10. CASE TargetGoes
  BY <1>1, <1>5, <1>10 DEF TypeOK, TargetGoes
<1> QED BY <1>6, <1>7, <1>8, <1>9, <1>10 DEF EndStep

(* A direction carries more only when its own source sends.                 *)
LEMMA OnlySendsSend ==
    ASSUME TypeOK, EndStep, NEW d \in Directions, flow'[d].sent # flow[d].sent
    PROVE  Send(d)
<1>1. ASSUME NEW e \in Directions \ {d}, Send(e) PROVE flow'[d].sent = flow[d].sent
  BY <1>1, Counts DEF Send, Changed, TypeOK
<1>2. ASSUME NEW e \in Directions, Use(e) \/ TargetFinishes(e)
      PROVE  flow'[d].sent = flow[d].sent
  BY <1>2, Counts DEF Use, TargetFinishes, Changed, TypeOK
<1>3. CASE ClientFinishes \/ ClientGoes
  BY <1>3, Counts DEF ClientFinishes, ClientGoes, Changed, TypeOK, Directions
<1>4. CASE TargetGoes
  BY <1>4 DEF TargetGoes, TypeOK, Flow, Directions
<1> QED BY <1>1, <1>2, <1>3, <1>4 DEF EndStep

LEMMA EndsKeep ==
    ASSUME IInv, EndStep
    PROVE  IInv'
<1> USE DEF IInv
<1>1. /\ UNCHANGED <<kind, main, pump, open, eof>>
      /\ flow' \in [Directions -> Flow]
      /\ \A d \in Directions :
            /\ flow'[d].given = flow[d].given /\ flow'[d].taken = flow[d].taken
            /\ flow[d].ended => flow'[d].ended /\ flow'[d].sent = flow[d].sent
            /\ flow'[d].sent \in {flow[d].sent, flow[d].sent + 1}
            /\ flow'[d].sent # flow[d].sent =>
                  d \in Streams /\ flow[d].sent < Pieces[d]
            /\ flow'[d].used <= flow[d].given
      /\ client' = "open" => client = "open"
      /\ client' # client => flow'["in"].ended
      /\ client = "gone" => client' = "gone"
      /\ client' \in {"open", "done", "gone"} /\ target' \in {"open", "gone"}
      /\ target = "gone" => target' = "gone"
  BY EndsFrame
<1>2. TypeOK'
  <2>1. ASSUME NEW d \in Directions
        PROVE  /\ flow'[d].used <= flow'[d].given /\ flow'[d].given <= flow'[d].taken
               /\ flow'[d].taken <= flow'[d].sent /\ flow'[d].sent <= Pieces[d]
    BY <1>1, Bounds DEF TypeOK, Flow
  <2> QED BY <1>1, <2>1 DEF TypeOK
<1>3. WritersHoldAPiece'
  BY <1>1 DEF WritersHoldAPiece, Writing
<1>4. HandlerFits'
  <2>1. /\ (AllOff <=> AllOff') /\ (MainsReturned <=> MainsReturned')
    BY <1>1 DEF AllOff, MainsReturned, MainPumps, Returned
  <2> QED BY <1>1, <2>1 DEF HandlerFits
<1>5. EndsFit'
  BY <1>1 DEF EndsFit, Returned, Streams, Directions
<1>6. NothingIsLost'
  <2>1. \A d \in Directions : Heard(d)' => Heard(d)
    BY <1>1 DEF Heard, Directions, TypeOK
  <2>2. \A d \in Directions : Complete(d) => Complete(d)'
    BY <1>1 DEF Complete, Writing
  <2> QED BY <2>1, <2>2 DEF NothingIsLost
<1> QED BY <1>2, <1>3, <1>4, <1>5, <1>6

-----------------------------------------------------------------------------
LEMMA NextKeeps == IInv /\ [Next]_vars => IInv'
<1> SUFFICES ASSUME IInv, [Next]_vars PROVE IInv'
  OBVIOUS
<1>1. CASE \E d \in Directions : PumpStep(d)
  <2>1. PICK d \in Directions : PumpStep(d)
    BY <1>1
  <2> QED BY <2>1, PumpTypes, PumpKeepsFit, PumpLosesNothing DEF IInv
<1>2. CASE MainStep \/ EndStep
  BY <1>2, HandlerKeeps, EndsKeep
<1>3. CASE UNCHANGED vars
  BY <1>3 DEF vars, IInv, TypeOK, WritersHoldAPiece, HandlerFits, EndsFit,
              NothingIsLost, Complete, Heard, AllOff, MainsReturned,
              MainPumps, Streams, Returned, Writing
<1> QED BY <1>1, <1>2, <1>3 DEF Next

(* The inductive invariant holds in every behaviour.                        *)
THEOREM Inductive == Spec => []IInv
<1>1. Init => IInv
  BY InitInv
<1>2. IInv /\ [Next]_vars => IInv'
  BY NextKeeps
<1> QED BY <1>1, <1>2, PTL DEF Spec

(* Every reachable state of the pumps, the handler and the ends is well     *)
(* typed, and no direction carries more than was sent.                      *)
THEOREM TypeCorrect == Spec => []TypeOK
<1>1. IInv => TypeOK
  BY DEF IInv
<1> QED BY <1>1, Inductive, PTL

(* What a client sent before it finished is with the target before that is  *)
(* closed or told the end of its input (copySSH and handleDirectTCP,        *)
(* server.go:170-192; ServeHTTP, handler.go:168-180).                       *)
THEOREM InputArrives == Spec => []ClientDataArrives
<1>1. ASSUME IInv, target = "open",
             InputIsOver
      PROVE  flow["in"].given = flow["in"].sent
  <2> USE <1>1 DEF IInv, InputIsOver
  <2>1. Complete("in") /\ "in" \in Directions
    BY DEF NothingIsLost, Heard, Directions
  <2>2. CASE Returned("in")
    BY <2>1, <2>2 DEF Complete, Returned, Writing
  <2>3. CASE kind = "tcp"
    <3>1. MainsReturned
      BY <2>3 DEF HandlerFits, TypeOK, MainStages
    <3> QED BY <2>2, <2>3, <3>1 DEF MainsReturned, MainPumps
  <2>4. CASE kind = "exec"
    <3>1. flow["in"].sent = 0
      BY <2>1, <2>4 DEF EndsFit, Streams
    <3> QED BY <2>1, <3>1 DEF TypeOK, Flow
  <2> QED BY <2>2, <2>3, <2>4 DEF EndsFit
<1>2. IInv => ClientDataArrives
  BY <1>1 DEF ClientDataArrives
<1> QED BY <1>2, Inductive, PTL

(* What the target wrote before it finished is with the client when the     *)
(* pump of the direction returns, while the client listens.                 *)
THEOREM OutputArrives == Spec => []TargetDataArrives
<1>1. ASSUME IInv, NEW d \in {"out", "err"}, Returned(d), Heard(d)
      PROVE  flow[d].given = flow[d].sent
  <2>1. Complete(d)
    BY <1>1 DEF IInv, NothingIsLost, Directions
  <2> QED BY <1>1, <2>1 DEF Complete, Returned, Writing
<1>2. IInv => TargetDataArrives
  BY <1>1 DEF TargetDataArrives
<1> QED BY <1>2, Inductive, PTL

(* Both directions: what was sent before its end arrives before its end.    *)
THEOREM EverythingArrives == Spec => []DataArrives
<1>1. ClientDataArrives /\ TargetDataArrives => DataArrives
  BY DEF DataArrives
<1> QED BY <1>1, InputArrives, OutputArrives, PTL

-----------------------------------------------------------------------------
(* Every direction is a stream                                              *)

IsOver(d) == IF d = "in" THEN InputIsOver ELSE Returned(d)

LEMMA OverIsBoolean == \A d \in Directions : IsOver(d) \in BOOLEAN
<1> SUFFICES ASSUME NEW d \in Directions PROVE IsOver(d) \in BOOLEAN
  OBVIOUS
<1>1. InputIsOver \in BOOLEAN /\ Returned(d) \in BOOLEAN
  BY DEF InputIsOver, Returned
<1> HIDE DEF InputIsOver, Returned
<1> QED BY <1>1 DEF IsOver

(* A direction that is heard and over has delivered what was sent, and its  *)
(* source sends no more.                                                    *)
LEMMA OverIsComplete ==
    ASSUME IInv, NEW d \in Directions, IsOver(d), Heard(d)
    PROVE  flow[d].given = flow[d].sent /\ (d \in Streams => flow[d].ended)
<1> USE DEF IInv
<1>1. Complete(d)
  BY DEF NothingIsLost
<1>2. CASE Returned(d)
  BY <1>1, <1>2 DEF Complete, Returned, Writing
<1>3. CASE d = "in" /\ kind = "tcp"
  <2>1. MainsReturned
    BY <1>3 DEF IsOver, InputIsOver, HandlerFits, TypeOK, MainStages
  <2> QED BY <1>2, <1>3, <2>1 DEF MainsReturned, MainPumps
<1>4. CASE d = "in" /\ kind = "exec"
  <2>1. d \notin Streams /\ flow[d].sent = 0
    BY <1>4 DEF EndsFit, Streams
  <2> QED BY <2>1 DEF TypeOK, Flow
<1> QED BY <1>2, <1>3, <1>4 DEF IsOver, InputIsOver, EndsFit

OverAreComplete ==
    \A d \in Directions :
        /\ IsOver(d) \in BOOLEAN
        /\ IsOver(d) /\ Heard(d) => flow[d].given = flow[d].sent

LEMMA CompleteWhenOver == IInv => OverAreComplete
  BY OverIsBoolean, OverIsComplete DEF OverAreComplete

(* The ways in which a step may move a stream, one at a time.               *)
Still(d) == flow'[d].sent = flow[d].sent /\ flow'[d].given = flow[d].given

LEMMA OneStreamStep ==
    ASSUME NEW d \in Directions, flow[d].sent \in Nat, flow[d].given \in Nat,
           IsOver(d) \in BOOLEAN, IsOver(d)' \in BOOLEAN,
           IsOver(d) => IsOver(d)',
           IsOver(d)' /\ Heard(d)' => flow'[d].given = flow'[d].sent,
           \/ Still(d) /\ Heard(d)' = Heard(d)
           \/ Still(d) /\ IsOver(d)' = IsOver(d) /\ (Heard(d)' => Heard(d))
           \/ /\ flow'[d].sent = flow[d].sent /\ flow[d].given < flow[d].sent
              /\ flow'[d].given = flow[d].given + 1 /\ Heard(d)' = Heard(d)
           \/ /\ flow'[d].sent = flow[d].sent + 1 /\ flow'[d].given = flow[d].given
              /\ Heard(d)' = Heard(d) /\ IsOver(d)' = IsOver(d)
              /\ IsOver(d) => ~Heard(d)
    PROVE  [Stream(d)!Next]_(Stream(d)!vars)
<1>1. Heard(d) \in BOOLEAN /\ Heard(d)' \in BOOLEAN
  BY DEF Heard
<1>2. CASE Still(d) /\ Heard(d)' = Heard(d)
  <2>1. CASE IsOver(d)'
    BY <1>2, <2>1 DEF Stream!Next, Stream!End, IsOver, Still
  <2>2. CASE ~IsOver(d)'
    BY <1>2, <2>2 DEF Stream!vars, IsOver, Still
  <2> QED BY <2>1, <2>2
<1>3. CASE Still(d) /\ IsOver(d)' = IsOver(d) /\ (Heard(d)' => Heard(d))
  <2>1. CASE Heard(d)'
    BY <1>1, <1>3, <2>1 DEF Stream!vars, IsOver, Still
  <2>2. CASE ~Heard(d)'
    BY <1>3, <2>2 DEF Stream!Next, Stream!Break, IsOver, Still
  <2> QED BY <2>1, <2>2
<1>4. CASE /\ flow'[d].sent = flow[d].sent /\ flow[d].given < flow[d].sent
           /\ flow'[d].given = flow[d].given + 1 /\ Heard(d)' = Heard(d)
  BY <1>1, <1>4 DEF Stream!Next, Stream!Arrive, IsOver
<1>5. CASE /\ flow'[d].sent = flow[d].sent + 1 /\ flow'[d].given = flow[d].given
           /\ Heard(d)' = Heard(d) /\ IsOver(d)' = IsOver(d)
           /\ IsOver(d) => ~Heard(d)
  BY <1>1, <1>5 DEF Stream!Next, Stream!Send, IsOver
<1> QED BY <1>2, <1>3, <1>4, <1>5

LEMMA PumpStreams ==
    ASSUME IInv, IInv', NEW e \in Directions, PumpStep(e), NEW d \in Directions
    PROVE  [Stream(d)!Next]_(Stream(d)!vars)
<1>0. TypeOK /\ TypeOK' /\ WritersHoldAPiece
  BY DEF IInv
<1>1. /\ UNCHANGED <<kind, main, open, client, target>>
      /\ pump[e] \in {"read", "write", "last"}
      /\ \A f \in Directions \ {e} : pump'[f] = pump[f] /\ flow'[f] = flow[f]
      /\ \A f \in Directions :
            flow'[f].sent = flow[f].sent /\ flow'[f].ended = flow[f].ended
      /\ eof' => eof \/ e = "in"
      /\ eof => eof'
  <2>1. eof => eof'
    BY DEF PumpStep, Read, ReadEnds, Write, WriteFails, Goto
  <2> QED BY <1>0, <2>1, PumpFrame
<1>2. IsOver(d) \in BOOLEAN /\ IsOver(d)' \in BOOLEAN
  <2>1. OverAreComplete /\ OverAreComplete'
    BY CompleteWhenOver, PTL
  <2> QED BY <2>1 DEF OverAreComplete
<1>3. IsOver(d) => IsOver(d)'
  BY <1>1 DEF IsOver, InputIsOver, Returned
<1>4. IsOver(d)' /\ Heard(d)' => flow'[d].given = flow'[d].sent
  <2>1. OverAreComplete'
    BY CompleteWhenOver, PTL
  <2> QED BY <2>1 DEF OverAreComplete
<1>5. flow[d].sent \in Nat /\ flow[d].given \in Nat
  BY <1>0 DEF TypeOK, Flow
<1>8. pump[e] # "failed"
  BY <1>1
<1>6. CASE d # e
  <2>1. IsOver(d)' = IsOver(d)
    BY <1>1, <1>6 DEF IsOver, InputIsOver, Returned, Directions
  <2>2. Heard(d)' => Heard(d)
    BY <1>1, <1>8 DEF Heard, Directions
  <2> QED BY <1>1, <1>2, <1>3, <1>4, <1>5, <1>6, <2>1, <2>2, OneStreamStep DEF Still
<1>7. CASE d = e
  <2>1. Heard(d)' = Heard(d)
    BY <1>1, <1>7 DEF Heard, Directions
  <2>2. \/ Still(d)
        \/ flow[d].given < flow[d].sent /\ flow'[d].given = flow[d].given + 1
    <3>1. CASE Read(d)
      BY <1>0, <1>1, <3>1, Counts DEF Read, Still, Changed, TypeOK
    <3>2. CASE Write(d)
      <4>1. flow[d].given < flow[d].taken /\ flow[d].taken <= flow[d].sent
        BY <1>0, <3>2 DEF Write, WritersHoldAPiece, TypeOK
      <4>2. flow'[d].given = flow[d].given + 1
        BY <1>0, <3>2, Counts DEF Write, TypeOK
      <4> QED BY <1>0, <4>1, <4>2 DEF TypeOK, Flow
    <3>3. CASE ReadEnds(d) \/ WriteFails(d)
      BY <3>3 DEF ReadEnds, WriteFails, Still
    <3> QED BY <1>7, <3>1, <3>2, <3>3 DEF PumpStep
  <2> QED BY <1>1, <1>2, <1>3, <1>4, <1>5, <2>1, <2>2, OneStreamStep
<1> QED BY <1>6, <1>7

LEMMA MainStreams ==
    ASSUME IInv, IInv', MainStep, NEW d \in Directions
    PROVE  [Stream(d)!Next]_(Stream(d)!vars)
<1>0. TypeOK /\ TypeOK' /\ HandlerFits
  BY DEF IInv
<1>1. UNCHANGED <<kind, flow, client, target, eof>> /\ open' \subseteq open
      /\ (main # "dial" => main' # "dial") /\ (main = "dial" => open' = open)
  BY DEF MainStep, Dials, DialFails, Begins, MainPumpsReturn, ProgramExited,
     CloseTarget, CloseClient, Goes, ends
<1>2. \A e \in Directions :
         /\ Returned(e)' = Returned(e)
         /\ (pump'[e] = "failed") = (pump[e] = "failed")
  <2>1. CASE Dials \/ Begins
    BY <2>1 DEF Dials, Begins, Goes, StartPumps, HandlerFits, AllOff, Returned, IInv
  <2>2. CASE ~(Dials \/ Begins)
    BY <2>2 DEF MainStep, DialFails, MainPumpsReturn, ProgramExited,
       CloseTarget, CloseClient, Returned
  <2> QED BY <2>1, <2>2
<1>3. Heard(d)' = Heard(d)
  BY <1>1, <1>2 DEF Heard, Directions
<1>4. IsOver(d) \in BOOLEAN /\ IsOver(d)' \in BOOLEAN
  <2>1. OverAreComplete /\ OverAreComplete'
    BY CompleteWhenOver, PTL
  <2> QED BY <2>1 DEF OverAreComplete
<1>5. IsOver(d) => IsOver(d)'
  BY <1>1, <1>2 DEF IsOver, InputIsOver
<1>6. IsOver(d)' /\ Heard(d)' => flow'[d].given = flow'[d].sent
  <2>1. OverAreComplete'
    BY CompleteWhenOver, PTL
  <2> QED BY <2>1 DEF OverAreComplete
<1>7. flow[d].sent \in Nat /\ flow[d].given \in Nat
  BY <1>0 DEF TypeOK, Flow
<1> QED BY <1>1, <1>3, <1>4, <1>5, <1>6, <1>7, OneStreamStep DEF Still

LEMMA EndStreams ==
    ASSUME IInv, IInv', EndStep, NEW d \in Directions
    PROVE  [Stream(d)!Next]_(Stream(d)!vars)
<1>0. TypeOK /\ TypeOK'
  BY DEF IInv
<1>1. /\ UNCHANGED <<kind, main, pump, open, eof>>
      /\ \A e \in Directions :
            /\ flow'[e].given = flow[e].given
            /\ flow[e].ended => flow'[e].ended
      /\ client = "gone" => client' = "gone"
      /\ client' \in {"open", "done", "gone"} /\ target' \in {"open", "gone"}
      /\ target = "gone" => target' = "gone"
  BY <1>0, EndsFrame
<1>2. IsOver(d)' = IsOver(d) /\ IsOver(d) \in BOOLEAN
  BY <1>1, OverIsBoolean DEF IsOver, InputIsOver, Returned
<1>3. Heard(d)' => Heard(d)
  BY <1>0, <1>1 DEF Heard, Directions, TypeOK
<1>4. IsOver(d)' /\ Heard(d)' => flow'[d].given = flow'[d].sent
  <2>1. OverAreComplete'
    BY CompleteWhenOver, PTL
  <2> QED BY <2>1 DEF OverAreComplete
<1>5. flow[d].sent \in Nat /\ flow[d].given \in Nat
  BY <1>0 DEF TypeOK, Flow
<1>6. CASE Send(d)
  <2>1. /\ flow'[d].sent = flow[d].sent + 1 /\ ~flow[d].ended /\ d \in Streams
        /\ UNCHANGED <<client, target>>
        /\ \A e \in Directions : flow'[e].ended = flow[e].ended
    BY <1>0, <1>6, Counts DEF Send, Changed, TypeOK, ends
  <2>2. Heard(d)' = Heard(d)
    BY <1>1, <2>1 DEF Heard, Directions
  <2>3. IsOver(d) => ~Heard(d)
    BY <2>1, OverIsComplete
  <2> QED BY <1>1, <1>2, <1>4, <1>5, <2>1, <2>2, <2>3, OneStreamStep
<1>7. CASE flow'[d].sent = flow[d].sent
  BY <1>1, <1>2, <1>3, <1>4, <1>5, <1>7, OneStreamStep DEF Still
<1>8. flow'[d].sent # flow[d].sent => Send(d)
  BY <1>0, OnlySendsSend
<1> QED BY <1>6, <1>7, <1>8

LEMMA StepStreams ==
    IInv /\ IInv' /\ [Next]_vars
        => \A d \in Directions : [Stream(d)!Next]_(Stream(d)!vars)
<1> SUFFICES ASSUME IInv, IInv', [Next]_vars, NEW d \in Directions
             PROVE  [Stream(d)!Next]_(Stream(d)!vars)
  OBVIOUS
<1>1. CASE UNCHANGED vars
  <2>1. UNCHANGED Stream(d)!vars
    BY <1>1 DEF Stream!vars, vars, InputIsOver, Returned, Heard
  <2> QED BY <2>1
<1> QED BY <1>1, PumpStreams, MainStreams, EndStreams DEF Next

(* Each direction of a connection is an orderly stream: no piece of a live  *)
(* direction is dropped or repeated, its end comes after its last piece and *)
(* is final (copySSH, io.Copy, and the pumps of a web terminal).            *)
THEOREM StreamsRefined == Spec => StreamsAreKept
<1>1. Init => \A d \in Directions : Stream(d)!Init
  <2> SUFFICES ASSUME Init, NEW d \in Directions PROVE Stream(d)!Init
    OBVIOUS
  <2>1. (IF d = "in" THEN InputIsOver ELSE Returned(d)) \in BOOLEAN
    BY OverIsBoolean DEF IsOver
  <2> QED BY <2>1 DEF Init, Stream!Init, Heard
<1>2. IInv /\ IInv' /\ [Next]_vars
        => [\A d \in Directions : [Stream(d)!Next]_(Stream(d)!vars)]_vars
  BY StepStreams
<1> QED BY <1>1, <1>2, Inductive, PTL DEF Spec, StreamsAreKept

-----------------------------------------------------------------------------
(* A handler that may go on can                                             *)

(* Who has returned has said so, and who has gone has ended what it sends.  *)
Told ==
    /\ kind \in {"shell", "web"} /\ Returned("in") => eof
    /\ kind = "exec" => eof
    /\ target = "gone" => flow["out"].ended /\ flow["err"].ended
    /\ main \in {"relay", "wait"} => \A d \in Streams : pump[d] # "off"

LEMMA ToldKept == IInv /\ Told /\ [Next]_vars => Told'
<1> SUFFICES ASSUME IInv, Told, [Next]_vars PROVE Told'
  OBVIOUS
<1>0. TypeOK
  BY DEF IInv
<1>1. ASSUME NEW d \in Directions, PumpStep(d) PROVE Told'
  <2>1. /\ UNCHANGED <<kind, main, open, client, target>>
        /\ pump'[d] # "off"
        /\ \A e \in Directions \ {d} : pump'[e] = pump[e]
        /\ \A e \in Directions : flow'[e].ended = flow[e].ended
    BY <1>0, <1>1, PumpFrame
  <2>2. (eof => eof') /\ (kind # "tcp" /\ d = "in" /\ pump'[d] \in {"done", "failed"} => eof')
    BY <1>0, <1>1 DEF PumpStep, Read, ReadEnds, Write, WriteFails, Goto, TellsEnd,
                      TypeOK, AfterWrite
  <2>3. Streams' = Streams /\ Streams \subseteq Directions
    BY <2>1 DEF Streams, Directions
  <2> QED BY <2>1, <2>2, <2>3 DEF Told, Returned, Directions
<1>2. CASE MainStep
  <2>1. CASE Dials \/ Begins
    <3>1. Streams' = Streams /\ Streams \subseteq Directions
      BY <2>1 DEF Dials, Begins, Streams, Directions
    <3>2. \A e \in Directions : pump'[e] \in {"off", "read"}
      BY <2>1 DEF Dials, Begins, StartPumps
    <3>3. \A e \in Streams : pump'[e] = "read"
      BY <2>1, <3>1 DEF Dials, Begins, StartPumps
    <3>4. ~Returned("in")'
      BY <3>2 DEF Returned, Directions
    <3> QED BY <2>1, <3>1, <3>3, <3>4 DEF Told, Dials, Begins, ends
  <2>2. CASE ~(Dials \/ Begins)
    <3>1. UNCHANGED <<kind, pump, flow, target, eof>>
          /\ (main' \in {"relay", "wait"} => main = "relay")
      BY <1>2, <2>2 DEF MainStep, DialFails, MainPumpsReturn, ProgramExited,
                        CloseTarget, CloseClient, Goes, ends
    <3> QED BY <3>1 DEF Told, Returned, Streams
  <2> QED BY <2>1, <2>2
<1>3. CASE EndStep
  <2>1. /\ UNCHANGED <<kind, main, pump, eof>>
        /\ \A d \in Directions : flow[d].ended => flow'[d].ended
    BY <1>0, <1>3, EndsFrame
  <2>2. target' = "gone" /\ target # "gone" => flow'["out"].ended /\ flow'["err"].ended
    BY <1>0, <1>3 DEF EndStep, Send, Use, TargetFinishes, ClientFinishes, ClientGoes,
                      TargetGoes, ends, TypeOK, Flow, Directions
  <2> QED BY <2>1, <2>2 DEF Told, Returned, Streams, Directions
<1>4. CASE UNCHANGED vars
  BY <1>4 DEF vars, Told, Returned, Streams
<1> QED BY <1>1, <1>2, <1>3, <1>4 DEF Next

LEMMA AlwaysTold == Spec => []Told
<1>1. Init => Told
  BY DEF Init, Told, Returned, Directions
<1> QED BY <1>1, ToldKept, Inductive, PTL DEF Spec

(* A pump that runs can move once its source has ended or was closed, and   *)
(* its destination has gone or was closed.                                  *)
LEMMA Movable ==
    ASSUME NEW d \in Directions, pump[d] \in {"read", "write", "last"},
           pump[d] = "read" => ~SourceIsOpen(d) \/ flow[d].ended,
           Writing(d) => ~DestinationIsOpen(d)
    PROVE  PumpCanMove(d)
  BY DEF PumpCanMove, Writing

(* A handler whose client has gone, or whose program has exited, is over or *)
(* one of its goroutines can take a step, unless an end that stays holds it *)
(* (server.go:168-192, handler.go:140-190).                                 *)
THEOREM NobodyIsStuck == Spec => []NoHandlerIsStuck
<1> DEFINE Runs(d) == pump[d] \in {"read", "write", "last"}
           Someone == \E d \in Directions : PumpCanMove(d)
<1>1. ASSUME TypeOK, HandlerFits, main = "gone", NEW d \in Directions, Runs(d)
      PROVE  PumpCanMove(d)
  <2>1. "client" \notin open /\ "target" \notin open
    BY <1>1 DEF HandlerFits, AllOff
  <2> QED BY <1>1, <2>1, Movable DEF SourceIsOpen, DestinationIsOpen
<1>2. ASSUME IInv, Told, main \in {"relay", "wait"}, client = "gone", ~LeftByTarget
      PROVE  MainCanMove \/ Someone
  <2> USE <1>2 DEF IInv
  <2>0. flow["in"].ended
    BY DEF EndsFit
  <2>1. CASE target = "gone"
    <3>1. ASSUME NEW d \in Directions, Runs(d) PROVE PumpCanMove(d)
      BY <2>0, <2>1, <3>1, Movable DEF Told, DestinationIsOpen, Directions
    <3>2. MainPumps \subseteq Streams /\ MainPumps \subseteq Directions
      BY DEF MainPumps, Streams, Directions, TypeOK
    <3>3. \A d \in MainPumps : Returned(d) \/ Runs(d)
      BY <3>2 DEF Told, TypeOK, PumpStages, Returned
    <3> QED BY <2>1, <3>1, <3>2, <3>3 DEF MainCanMove
  <2>2. CASE target # "gone"
    <3>1. target = "open" /\ ~Writing("in") /\ (kind = "tcp" \/ ~eof)
      BY <2>2 DEF LeftByTarget, TypeOK
    <3>2. "in" \in Streams /\ "in" \in Directions
      BY <3>1 DEF Streams, Told, TypeOK, Directions
    <3>3. CASE Returned("in")
      BY <3>1, <3>3 DEF Told, TypeOK, MainCanMove, MainPumps, HandlerFits
    <3>4. CASE ~Returned("in")
      <4>1. pump["in"] = "read"
        BY <3>1, <3>2, <3>4 DEF Returned, Told, Writing, TypeOK, PumpStages
      <4> QED BY <2>0, <3>2, <4>1 DEF PumpCanMove
    <3> QED BY <3>3, <3>4
  <2> QED BY <2>1, <2>2
<1>3. ASSUME IInv, Told, main \in {"relay", "wait"}, kind # "tcp", target = "gone",
             ~(client # "gone" /\ (Writing("out") \/ Writing("err")))
      PROVE  MainCanMove \/ Someone
  <2> USE <1>3 DEF IInv
  <2>1. ASSUME NEW d \in {"out", "err"}, Runs(d) PROVE PumpCanMove(d)
    BY <2>1, Movable DEF Told, DestinationIsOpen, Directions
  <2>2. MainPumps \subseteq Streams /\ MainPumps \subseteq {"out", "err"}
    BY DEF MainPumps, Streams, Directions, TypeOK
  <2>3. \A d \in MainPumps : Returned(d) \/ Runs(d)
    BY <2>2 DEF Told, TypeOK, PumpStages, Returned, Directions
  <2> QED BY <2>1, <2>2, <2>3 DEF MainCanMove, Directions
<1>4. ASSUME IInv, Told PROVE NoHandlerIsStuck
  <2>1. main \in MainStages /\ TypeOK /\ HandlerFits
    BY <1>4 DEF IInv, TypeOK
  <2>2. CASE main = "gone"
    BY <1>1, <2>1, <2>2 DEF NoHandlerIsStuck, Over
  <2>3. CASE main \in {"relay", "wait"}
    BY <1>2, <1>3, <1>4, <2>3 DEF NoHandlerIsStuck
  <2>4. CASE main \in {"dial", "request", "closeTarget", "closeClient"}
    BY <2>4 DEF NoHandlerIsStuck, MainCanMove
  <2> QED BY <2>1, <2>2, <2>3, <2>4 DEF MainStages
<1> QED BY <1>4, Inductive, AlwaysTold, PTL

-----------------------------------------------------------------------------
(* The work runs out                                                        *)

(* What the goroutines have still to do when nothing more is sent: two      *)
(* steps for every piece that was not taken, and where each of them stands. *)
WorkOf(d) ==
    LET stages == [off |-> 1, read |-> 1, write |-> 2, last |-> 2, done |-> 0, failed |-> 0]
    IN  2 * (flow[d].sent - flow[d].taken) + stages[pump[d]]

MainWork == [dial |-> 5, request |-> 5, relay |-> 4, wait |-> 3,
             closeTarget |-> 2, closeClient |-> 1, gone |-> 0]

Work == MainWork[main] + WorkOf("in") + WorkOf("out") + WorkOf("err")

WorkRunsOut ==
    [][\/ Work' < Work
       \/ Work' = Work /\ EndStep
       \/ Work' = Work + 2 /\ \E d \in Directions : Send(d)]_vars

WorkIsInt == \A d \in Directions : WorkOf(d) \in Int

LEMMA WorkIsNumber == TypeOK => WorkIsInt
<1> USE DEF WorkIsInt
<1> SUFFICES ASSUME TypeOK, NEW d \in Directions PROVE WorkOf(d) \in Int
  OBVIOUS
<1>1. flow[d].sent \in Nat /\ flow[d].taken \in Nat /\ pump[d] \in PumpStages
  BY DEF TypeOK, Flow
<1> QED BY <1>1 DEF WorkOf, PumpStages

LEMMA PumpWorks ==
    ASSUME IInv, TypeOK', NEW d \in Directions, PumpStep(d)
    PROVE  WorkOf(d)' < WorkOf(d)
<1>0. TypeOK
  BY DEF IInv
<1>1. /\ flow[d].sent \in Nat /\ flow[d].taken \in Nat
      /\ flow'[d].sent = flow[d].sent
  BY <1>0, PumpFrame DEF TypeOK, Flow
<1>2. CASE Read(d)
  <2>1. flow'[d].taken = flow[d].taken + 1
    BY <1>0, <1>2, Counts DEF Read, TypeOK
  <2>2. pump[d] = "read" /\ pump'[d] \in {"write", "last"}
    BY <1>0, <1>2, Moves DEF Read, PumpStages
  <2> QED BY <1>1, <2>1, <2>2 DEF WorkOf
<1>3. CASE Write(d)
  <2>1. flow'[d].taken = flow[d].taken
    BY <1>0, <1>3, Counts DEF Write, TypeOK, Changed
  <2>2. pump[d] \in {"write", "last"} /\ pump'[d] \in {"read", "done"}
    BY <1>0, <1>3, Moves DEF Write, Writing, AfterWrite, PumpStages
  <2> QED BY <1>1, <2>1, <2>2 DEF WorkOf
<1>4. CASE WriteFails(d)
  <2>1. pump[d] \in {"write", "last"} /\ pump'[d] \in {"read", "done", "failed"}
    BY <1>0, <1>4, Moves DEF WriteFails, Writing, AfterWrite, PumpStages
  <2> QED BY <1>1, <1>4, <2>1 DEF WorkOf, WriteFails
<1>5. CASE ReadEnds(d)
  <2>1. pump[d] = "read" /\ pump'[d] = "done"
    BY <1>0, <1>5, Moves DEF ReadEnds, PumpStages
  <2> QED BY <1>1, <1>5, <2>1 DEF WorkOf, ReadEnds
<1> QED BY <1>2, <1>3, <1>4, <1>5 DEF PumpStep

LEMMA StepWorks ==
    ASSUME IInv, IInv', [Next]_vars
    PROVE  \/ Work' < Work
           \/ Work' = Work /\ EndStep
           \/ Work' = Work + 2 /\ \E d \in Directions : Send(d)
           \/ UNCHANGED vars
<1>0. TypeOK /\ TypeOK'
  BY DEF IInv
<1>1. \A d \in Directions : WorkOf(d) \in Int /\ WorkOf(d)' \in Int
  <2>1. WorkIsInt /\ WorkIsInt'
    BY <1>0, WorkIsNumber, PTL
  <2> QED BY <2>1 DEF WorkIsInt
<1>2. MainWork[main] \in Int /\ MainWork[main'] \in Int
  BY <1>0 DEF TypeOK, MainStages, MainWork
<1>3. \A d \in Directions :
         flow[d].sent \in Nat /\ flow[d].taken \in Nat /\ pump[d] \in PumpStages
  BY <1>0 DEF TypeOK, Flow
<1>4. CASE \E d \in Directions : PumpStep(d)
  <2>1. PICK d \in Directions : PumpStep(d)
    BY <1>4
  <2>2. WorkOf(d)' < WorkOf(d)
    BY <1>0, <2>1, PumpWorks
  <2>3. main' = main /\ \A e \in Directions \ {d} : WorkOf(e)' = WorkOf(e)
    BY <1>0, <2>1, PumpFrame DEF WorkOf
  <2> HIDE DEF WorkOf
  <2> QED BY <1>1, <1>2, <2>2, <2>3 DEF Work, Directions
<1>5. CASE MainStep
  <2>1. \A d \in Directions : WorkOf(d)' = WorkOf(d)
    <3>1. CASE Dials \/ Begins
      <4>1. \A d \in Directions : pump[d] = "off" /\ pump'[d] \in {"off", "read"}
        BY <3>1 DEF Dials, Begins, StartPumps, Goes, IInv, HandlerFits, AllOff
      <4>2. flow' = flow
        BY <3>1 DEF Dials, Begins
      <4> QED BY <4>1, <4>2 DEF WorkOf
    <3>2. CASE ~(Dials \/ Begins)
      BY <1>5, <3>2 DEF MainStep, DialFails, MainPumpsReturn, ProgramExited,
                        CloseTarget, CloseClient, WorkOf
    <3> QED BY <3>1, <3>2
  <2>2. MainWork[main'] < MainWork[main]
    BY <1>5 DEF MainStep, Dials, DialFails, Begins, MainPumpsReturn, ProgramExited,
                CloseTarget, CloseClient, Goes, MainWork
  <2> HIDE DEF WorkOf
  <2> QED BY <1>1, <1>2, <2>1, <2>2 DEF Work, Directions
<1>6. CASE EndStep
  <2>1. /\ UNCHANGED <<main, pump>>
        /\ \A d \in Directions : flow'[d].taken = flow[d].taken
    BY <1>0, <1>6, EndsFrame
  <2>2. CASE \E d \in Directions : Send(d)
    <3>1. PICK d \in Directions : Send(d)
      BY <2>2
    <3>2. /\ flow'[d].sent = flow[d].sent + 1
          /\ \A e \in Directions \ {d} : flow'[e] = flow[e]
      BY <1>0, <3>1, Counts DEF Send, Changed, TypeOK
    <3>3. WorkOf(d)' = WorkOf(d) + 2 /\ \A e \in Directions \ {d} : WorkOf(e)' = WorkOf(e)
      BY <1>3, <2>1, <3>2 DEF WorkOf, PumpStages
    <3> HIDE DEF WorkOf
    <3> QED BY <1>1, <1>2, <2>1, <3>1, <3>3 DEF Work, Directions
  <2>3. CASE ~\E d \in Directions : Send(d)
    <3>1. \A d \in Directions : flow'[d].sent = flow[d].sent
      BY <1>0, <1>6, <2>3, OnlySendsSend
    <3>2. \A d \in Directions : WorkOf(d)' = WorkOf(d)
      BY <2>1, <3>1 DEF WorkOf
    <3> HIDE DEF WorkOf
    <3> QED BY <1>1, <1>2, <1>6, <2>1, <3>2 DEF Work, Directions
  <2> QED BY <2>2, <2>3
<1> QED BY <1>4, <1>5, <1>6 DEF Next

(* No handler that can move does so for ever: a step of the handler or of a *)
(* goroutine uses up work, and only a piece that an end sends adds to it.   *)
(* No loop of the pumps turns without moving a piece, and nothing that has  *)
(* returned starts again (server.go:168-192, handler.go:140-190).           *)
THEOREM ServerWorksOff == Spec => WorkRunsOut
<1>1. IInv /\ IInv' /\ [Next]_vars
        => [\/ Work' < Work
            \/ Work' = Work /\ EndStep
            \/ Work' = Work + 2 /\ \E d \in Directions : Send(d)]_vars
  BY StepWorks
<1> QED BY <1>1, Inductive, PTL DEF Spec, WorkRunsOut
=============================================================================
