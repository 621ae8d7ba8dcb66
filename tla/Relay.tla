------------------------------- MODULE Relay -------------------------------
(***************************************************************************)
(* The bytes of one connection through the server, once its target is      *)
(* known.                                                                  *)
(*   tcp    a direct-tcpip channel, copied to a connection to the target   *)
(*          and back (handleDirectTCP, copySSH; internal/bastion/server.go)*)
(*   shell  a shell request, copied by the SSH library between the channel *)
(*          and a session on the target (proxyShell)                       *)
(*   exec   a command, likewise, without input (execCommand)               *)
(*   web    a web terminal, copied between a WebSocket and the pipes of a  *)
(*          session (ServeHTTP, internal/webssh/handler.go)                *)
(*                                                                         *)
(* Every direction has a pump, a loop that reads a piece and writes it.    *)
(* A direction keeps the order of its pieces, so that counting them is     *)
(* enough.  Both ends send, stop reading, finish and go as they like.      *)
(***************************************************************************)
EXTENDS Integers

CONSTANTS
    Pieces,     \* how much each direction carries; a bound
    Room        \* pieces that fit between a write and the reader at the end

Directions == {"in", "out", "err"}      \* to the target, its stdout, its stderr

ASSUME Bounds == Pieces \in [Directions -> Nat] /\ Room \in Nat \ {0}

VARIABLES
    kind,       \* "tcp", "shell", "exec" or "web"
    main,       \* where the handler stands
    pump,       \* where the pump of each direction stands
    flow,       \* what each direction has carried so far
    open,       \* the ends the server has not closed
    client,     \* "open", "done": it only reads any more, or "gone"
    target,     \* "open" or "gone"
    eof         \* the program was told that its input has ended

ends == <<open, client, target, eof>>
vars == <<kind, main, pump, flow, open, client, target, eof>>

-----------------------------------------------------------------------------
MainStages == {"dial", "request", "relay", "wait", "closeTarget",
               "closeClient", "gone"}
(* last: has read a piece together with an error; done: returned after a    *)
(* read; failed: returned after a write.                                    *)
PumpStages == {"off", "read", "write", "last", "done", "failed"}

(* sent by the source, and arrived; taken from it by the pump; given to the *)
(* destination; used by its reader.  ended: the source sends no more.       *)
Flow == [sent: Nat, taken: Nat, given: Nat, used: Nat, ended: BOOLEAN]

TypeOK ==
    /\ kind \in {"tcp", "shell", "exec", "web"}
    /\ main \in MainStages
    /\ pump \in [Directions -> PumpStages]
    /\ flow \in [Directions -> Flow]
    /\ \A d \in Directions :
          /\ flow[d].used <= flow[d].given
          /\ flow[d].given <= flow[d].taken
          /\ flow[d].taken <= flow[d].sent
          /\ flow[d].sent <= Pieces[d]
    /\ open \in SUBSET {"client", "target"}
    /\ client \in {"open", "done", "gone"} /\ target \in {"open", "gone"}
    /\ eof \in BOOLEAN

Init ==
    /\ kind \in {"tcp", "shell", "exec", "web"}
    /\ main = IF kind = "tcp" THEN "dial" ELSE "request"
    /\ pump = [d \in Directions |-> "off"]
    /\ flow = [d \in Directions |->
                 [sent |-> 0, taken |-> 0, given |-> 0, used |-> 0, ended |-> FALSE]]
    /\ open = {"client", "target"}
    /\ client = "open" /\ target = "open"
    /\ eof = (kind = "exec")

Streams == CASE kind = "tcp" -> {"in", "out"}
             [] kind = "exec" -> {"out", "err"}
             [] OTHER -> Directions

SourceIsOpen(d) == (IF d = "in" THEN "client" ELSE "target") \in open
DestinationIsOpen(d) ==
    IF d = "in" THEN "target" \in open /\ target # "gone"
                ELSE "client" \in open /\ client # "gone"

Waiting(d) == flow[d].taken < flow[d].sent
Writing(d) == pump[d] \in {"write", "last"}
Returned(d) == pump[d] \in {"done", "failed"}

-----------------------------------------------------------------------------
(* The pumps                                                                *)

(* Mutant: the reader of the browser leaves the shell's input open.         *)
NotToldByWeb(d) == kind = "shell" /\ d = "in"

(* Whose return tells a program that its input has ended: io.Copy is        *)
(* followed by CloseWrite, the browser's reader by stdin.Close.  A TCP      *)
(* target is not told.                                                      *)
TellsEnd(d) == kind # "tcp" /\ d = "in"

Goto(d, stage) ==
    /\ pump' = [pump EXCEPT ![d] = stage]
    /\ eof' = (eof \/ (stage \in {"done", "failed"} /\ TellsEnd(d)))

(* Mutant: the error of a read is looked at before its bytes.               *)
ReadDropsLast(d) ==
    /\ pump[d] = "read" /\ SourceIsOpen(d) /\ Waiting(d)
    /\ flow' = [flow EXCEPT ![d].taken = @ + 1]
    /\ Goto(d, IF flow[d].ended /\ flow[d].sent = flow[d].taken + 1 THEN "done"
               ELSE "write")
    /\ UNCHANGED <<kind, main, open, client, target>>

(* A Reader may return the last bytes together with its error; a message of *)
(* the browser comes whole.                                                 *)
Read(d) ==
    /\ pump[d] = "read" /\ SourceIsOpen(d) /\ Waiting(d)
    /\ flow' = [flow EXCEPT ![d].taken = @ + 1]
    /\ \/ Goto(d, "write")
       \/ /\ flow[d].ended /\ flow[d].sent = flow[d].taken + 1
          /\ ~(kind = "web" /\ d = "in")
          /\ Goto(d, "last")
    /\ UNCHANGED <<kind, main, open, client, target>>

ReadEnds(d) ==
    /\ pump[d] = "read"
    /\ SourceIsOpen(d) => flow[d].ended /\ ~Waiting(d)
    /\ Goto(d, "done")
    /\ UNCHANGED <<kind, main, flow, open, client, target>>

AfterWrite(d) == IF pump[d] = "last" THEN "done" ELSE "read"

(* Mutant: what was written is written again.                               *)
WriteAgain(d) ==
    /\ Writing(d) /\ DestinationIsOpen(d)
    /\ flow[d].given - flow[d].used < Room
    /\ flow' = [flow EXCEPT ![d].given = @ + 1]
    /\ UNCHANGED <<kind, main, pump, ends>>

(* A write blocks while the reader at the end does not make room.           *)
Write(d) ==
    /\ Writing(d) /\ DestinationIsOpen(d)
    /\ flow[d].given - flow[d].used < Room
    /\ flow' = [flow EXCEPT ![d].given = @ + 1]
    /\ Goto(d, AfterWrite(d))
    /\ UNCHANGED <<kind, main, open, client, target>>

(* copySSH and io.Copy return; the pumps of a web terminal drop the error   *)
(* and the bytes, and go on.                                                *)
WriteFails(d) ==
    /\ Writing(d) /\ ~DestinationIsOpen(d)
    /\ Goto(d, IF kind = "web" THEN AfterWrite(d) ELSE "failed")
    /\ UNCHANGED <<kind, main, flow, open, client, target>>

-----------------------------------------------------------------------------
(* The handler                                                              *)

Goes(from, to) == main = from /\ main' = to

StartPumps ==
    pump' = [d \in Directions |-> IF d \in Streams THEN "read" ELSE "off"]

(* net.DialTimeout                                                          *)
Dials ==
    /\ Goes("dial", "relay")
    /\ StartPumps
    /\ UNCHANGED <<kind, flow, ends>>

DialFails ==
    /\ Goes("dial", "closeClient")
    /\ UNCHANGED <<kind, pump, flow, ends>>

(* Shell() or Run(), and after it the goroutines that copy.  The program    *)
(* may have begun, and written, before they do.                             *)
Begins ==
    /\ Goes("request", "relay")
    /\ StartPumps
    /\ UNCHANGED <<kind, flow, ends>>

(* Mutant: the handler waits for another direction.                         *)
OtherMainPumps ==
    CASE kind = "tcp" -> {"out"} [] kind = "web" -> {"in"} [] OTHER -> {"err"}

(* The pump that handleDirectTCP runs itself, the one whose channel done    *)
(* ServeHTTP waits for, and those that session.Wait waits for.              *)
MainPumps ==
    CASE kind = "tcp" -> {"in"} [] kind = "web" -> {"out"} [] OTHER -> {"out", "err"}

MainPumpsReturn ==
    /\ \A d \in MainPumps : Returned(d)
    /\ Goes("relay", IF kind = "tcp" THEN "closeTarget" ELSE "wait")
    /\ UNCHANGED <<kind, pump, flow, ends>>

(* session.Wait and session.Run: the program has exited.                    *)
ProgramExited ==
    /\ target = "gone"
    /\ Goes("wait", "closeTarget")
    /\ UNCHANGED <<kind, pump, flow, ends>>

(* The deferred calls, last one first.                                      *)
CloseTarget ==
    /\ Goes("closeTarget", "closeClient")
    /\ open' = open \ {"target"}
    /\ UNCHANGED <<kind, pump, flow, client, target, eof>>

CloseClient ==
    /\ Goes("closeClient", "gone")
    /\ open' = open \ {"client"}
    /\ UNCHANGED <<kind, pump, flow, client, target, eof>>

-----------------------------------------------------------------------------
(* The two ends.  On a channel either may finish sending and go on receiving.*)

Alive(d) == IF d = "in" THEN client # "gone" ELSE target # "gone"
Reads(d) == IF d = "in" THEN target # "gone" ELSE client # "gone"

Send(d) ==
    /\ Alive(d) /\ ~flow[d].ended /\ d \in Streams
    /\ main # "dial"
    /\ flow[d].sent < Pieces[d]
    /\ flow' = [flow EXCEPT ![d].sent = @ + 1]
    /\ UNCHANGED <<kind, main, pump, ends>>

Use(d) ==
    /\ Reads(d) /\ flow[d].used < flow[d].given
    /\ flow' = [flow EXCEPT ![d].used = @ + 1]
    /\ UNCHANGED <<kind, main, pump, ends>>

ClientFinishes ==
    /\ kind # "web" /\ client = "open"
    /\ client' = "done"
    /\ flow' = [flow EXCEPT !["in"].ended = TRUE]
    /\ UNCHANGED <<kind, main, pump, open, target, eof>>

ClientGoes ==
    /\ client # "gone"
    /\ client' = "gone"
    /\ flow' = [flow EXCEPT !["in"].ended = TRUE]
    /\ UNCHANGED <<kind, main, pump, open, target, eof>>

TargetFinishes(d) ==
    /\ target = "open" /\ d # "in" /\ main # "dial"
    /\ flow' = [flow EXCEPT ![d].ended = TRUE]
    /\ UNCHANGED <<kind, main, pump, ends>>

TargetGoes ==
    /\ target = "open" /\ main # "dial"
    /\ target' = "gone"
    /\ flow' = [flow EXCEPT !["out"].ended = TRUE, !["err"].ended = TRUE]
    /\ UNCHANGED <<kind, main, pump, open, client, eof>>

-----------------------------------------------------------------------------
PumpStep(d) == Read(d) \/ ReadEnds(d) \/ Write(d) \/ WriteFails(d)

MainStep ==
    \/ Dials \/ DialFails \/ Begins \/ MainPumpsReturn \/ ProgramExited
    \/ CloseTarget \/ CloseClient

EndStep ==
    \/ \E d \in Directions : Send(d) \/ Use(d) \/ TargetFinishes(d)
    \/ ClientFinishes \/ ClientGoes \/ TargetGoes

Next == MainStep \/ EndStep \/ \E d \in Directions : PumpStep(d)

Spec == Init /\ [][Next]_vars

(* Goroutines run.  Nobody has to send, to read or to go.                   *)
Fairness ==
    /\ WF_vars(MainStep)
    /\ \A d \in Directions : WF_vars(PumpStep(d))

FairSpec == Spec /\ Fairness

-----------------------------------------------------------------------------
(* What a client sent before it finished is with the target before the      *)
(* forwarder closes it, or with the program before that is told the end of  *)
(* its input, unless the target has gone (server.go:170-192,                *)
(* handler.go:168-180).                                                     *)
InputIsOver ==
    \/ kind = "tcp" /\ main # "dial" /\ "target" \notin open
    \/ kind # "tcp" /\ eof

ClientDataArrives ==
    target = "open" /\ InputIsOver => flow["in"].given = flow["in"].sent

(* What the target wrote before it finished is with the client when the     *)
(* pump returns, as long as the client is there.  A forwarded channel is    *)
(* closed under what is still on its way when the client finishes sending,  *)
(* or a write to the target fails (server.go:168-171); a web terminal may   *)
(* lose stderr, which it does not wait for (handler.go:156-190).            *)
Heard(d) ==
    IF d = "in" THEN target = "open"
    ELSE IF kind = "tcp" THEN ~flow["in"].ended /\ pump["in"] # "failed"
    ELSE client # "gone" /\ (kind = "web" => d = "out")

TargetDataArrives ==
    \A d \in {"out", "err"} :
        Returned(d) /\ Heard(d) => flow[d].given = flow[d].sent

(* Both together: nothing that was sent before an end is lost to that end.  *)
DataArrives == ClientDataArrives /\ TargetDataArrives

(* Every direction of a connection is a ByteStream, broken when nobody      *)
(* listens to it any more: a piece of a live direction is never dropped,    *)
(* repeated or overtaken by the end of its stream, and an end, once seen,   *)
(* is final (copySSH, server.go:175-192; ServeHTTP, handler.go:140-187).    *)
Stream(d) ==
    INSTANCE ByteStream WITH
        sent <- flow[d].sent, arrived <- flow[d].given,
        over <- IF d = "in" THEN InputIsOver ELSE Returned(d),
        broken <- ~Heard(d)

StreamsAreKept ==
    /\ \A d \in Directions : Stream(d)!Init
    /\ [][\A d \in Directions : [Stream(d)!Next]_(Stream(d)!vars)]_vars

(* A handler and its goroutines have returned.                              *)
Over == main = "gone" /\ \A d \in Directions : pump[d] \notin {"read", "write", "last"}

(* When the client has gone, the handler and its goroutines return, unless  *)
(* the target stays and does not read, or is a program that does not end    *)
(* when its input does (server.go:168-171, handler.go:168-187).             *)
LeftByTarget ==
    target = "open" /\ (Writing("in") \/ (kind # "tcp" /\ eof))

HangUpsEnd == <>(client = "gone") => <>Over \/ <>[]LeftByTarget

(* When the program has exited, the handler is over, whether the client     *)
(* sends anything or not, unless the client stays and does not read.        *)
ExitsEnd ==
    kind # "tcp" /\ <>(target = "gone")
        => <>Over \/ <>[](client # "gone" /\ (Writing("out") \/ Writing("err")))

(* The core of both, without fairness: a handler whose client has gone, or  *)
(* whose program has exited, is over or one of its goroutines can move.     *)
(* It never waits for a goroutine of its own that waits for it, nor for an  *)
(* end that has gone or has nothing more to say; only an end that stays and *)
(* does not read, or a program that was told the end of its input and runs  *)
(* on, can hold it (server.go:168-192, handler.go:140-190).                 *)
PumpCanMove(d) ==
    \/ pump[d] = "read" /\ (SourceIsOpen(d) => Waiting(d) \/ flow[d].ended)
    \/ Writing(d) /\ (DestinationIsOpen(d) => flow[d].given - flow[d].used < Room)

MainCanMove ==
    \/ main \in {"dial", "request", "closeTarget", "closeClient"}
    \/ main = "relay" /\ \A d \in MainPumps : Returned(d)
    \/ main = "wait" /\ target = "gone"

NoHandlerIsStuck ==
    \/ client = "gone" /\ ~LeftByTarget
    \/ /\ kind # "tcp" /\ target = "gone"
       /\ ~(client # "gone" /\ (Writing("out") \/ Writing("err")))
    => Over \/ MainCanMove \/ \E d \in Directions : PumpCanMove(d)
=============================================================================
