------------------------------ MODULE AsyncFizz ------------------------------
(***************************************************************************)
(* The asynchronous transports: AsyncFizzBase (queued writes, delivery of  *)
(* data and errors to the application, read back-pressure, handshake       *)
(* timeout) with its two subclasses AsyncFizzClient and AsyncFizzServer.   *)
(*                                                                         *)
(* Everything runs on one thread, but nearly every function calls back     *)
(* into the application or the socket, which may call any other function   *)
(* of the same object.  The call stack is therefore part of the state:     *)
(* `stack` holds one frame per function that has not returned, innermost   *)
(* first, and each action runs the code of the innermost frame up to its   *)
(* next call.  A frame "app" is the application inside a callback; with an *)
(* empty stack the event base runs whatever comes next.                    *)
(*                                                                         *)
(* Data are counted in units of kPartialWriteThreshold; a unit is the      *)
(* number of the write it belongs to.                                      *)
(***************************************************************************)
EXTENDS Naturals, Sequences, SequencesExt, FiniteSets

CONSTANT Configs   \* the settings of a connection and the bounds on its environment

SettingsOf(c) ==
  /\ c.role \in {"client", "server"}
  /\ c.sendEarly \in BOOLEAN           \* FizzClientContext::getSendEarlyData
  /\ c.policy \in {"Fatal", "Resend"}  \* EarlyDataRejectionPolicy
  /\ c.maxEarly \in Nat                \* max_early_data_size of the PSK, in units
  /\ c.timeout \in BOOLEAN             \* whether connect is given a timeout, by default not
  /\ c.rekey \in Nat                   \* keyUpdateThreshold_ in units, 0 when unset
  /\ c.maxBuf \in Nat \ {0}            \* kMaxBufSize, in records
  /\ c.kinds \subseteq Nat \X BOOLEAN   \* size and isShared of the writes
  /\ c.maxWrites \in Nat               \* bound on the writes of the application
  /\ c.maxCalls \in Nat                \* bound on its other calls
  /\ c.maxRecords \in Nat              \* bound on the records the peer sends
  /\ c.faults \in BOOLEAN              \* whether the socket may fail on its own

ASSUME ConfigsAssumption == Configs # {} /\ \A c \in Configs : SettingsOf(c)

VARIABLES
  stack,  \* the call stack, innermost frame first
  fb,     \* FizzBase and the state machine behind it
  base,   \* the members of AsyncFizzBase
  sub,    \* the members of AsyncFizzClient or AsyncFizzServer
  sock,   \* the transport underneath
  hist    \* history

vars == <<stack, fb, base, sub, sock, hist>>

Role == sub.config.role
SendEarly == sub.config.sendEarly
Policy == sub.config.policy
MaxEarly == sub.config.maxEarly
TimeoutGiven == sub.config.timeout
Rekey == sub.config.rekey
MaxBuf == sub.config.maxBuf
MaxWrites == sub.config.maxWrites
MaxCalls == sub.config.maxCalls
MaxRecords == sub.config.maxRecords
Faults == sub.config.faults

Threshold == 1                \* kPartialWriteThreshold, the unit of size
NoEarly == [on |-> FALSE, remaining |-> 0, pending |-> <<>>, resend |-> <<>>]

(* A write callback: none, the application's for write id, or the          *)
(* QueuedWriteRequest of write id.                                         *)
NoToken == [kind |-> "none", id |-> 0]
App(id) == [kind |-> "app", id |-> id]
Request(id) == [kind |-> "request", id |-> id]

Units(id, n) == [i \in 1..n |-> id]
AppWriteOf(tok, data) == [type |-> "AppWrite", token |-> tok, data |-> data]
EarlyAppWriteOf(tok, data) == [type |-> "EarlyAppWrite", token |-> tok, data |-> data]
EventOf(type) == [type |-> type, token |-> NoToken, data |-> <<>>]

Frame(f) == [f |-> f]
Top == Head(stack)
On(f) == stack # <<>> /\ Top.f = f
Return == stack' = Tail(stack)
Call(fs) == stack' = fs \o stack          \* call and come back to this frame
TailCall(fs) == stack' = fs \o Tail(stack)

Init ==
  /\ stack = <<>>
  /\ fb = [state |-> "Uninitialized", early |-> "NotAttempted", pending |-> <<>>,
           guard |-> FALSE, inLoop |-> FALSE, error |-> FALSE, paused |-> FALSE,
           waitForData |-> TRUE, unread |-> 0, deferred |-> <<>>]
  /\ base = [readCallback |-> FALSE, appDataBuf |-> <<>>, pendingReadEx |-> "none",
             chain |-> <<>>, buffered |-> 0, immediate |-> 0, reads |-> FALSE,
             timeout |-> FALSE, underKey |-> 0]
  /\ \E c \in Configs :
       sub = [callback |-> FALSE, early |-> NoEarly, handshakeWrites |-> <<>>,
              replaySafety |-> FALSE, config |-> c]
  /\ sock = [state |-> "open", queue |-> <<>>]
  /\ hist = [writes |-> <<>>, answers |-> <<>>, wire |-> <<>>, lost |-> {},
             reports |-> <<>>, produced |-> 0, delivered |-> 0, dropped |-> FALSE,
             calls |-> 0, records |-> 0, rekeyFailed |-> FALSE]

-----------------------------------------------------------------------------
(* Queries of the application and of the code itself.                      *)

TransportGood == sock.state \in {"open", "connecting"}
InTerminalState == fb.error \/ fb.state \in {"Error", "Closed"}
Good == ~InTerminalState /\ TransportGood
Connecting == sub.callback \/ sock.state = "connecting"
IsReplaySafe == ~sub.early.on

(* The application runs inside a callback, or the event base is idle.      *)
AppTurn == stack = <<>> \/ On("app")
Started == sub.callback \/ hist.reports # <<>>
AppCall == AppTurn /\ Started /\ hist.calls < MaxCalls
Counted == hist' = [hist EXCEPT !.calls = @ + 1]

Answer(h, id, how) == [h EXCEPT !.answers[id] = IF @ = "none" THEN how ELSE "twice"]

-----------------------------------------------------------------------------
(* FizzBase, as the transport uses it.                                     *)

Submit ==
  /\ On("submit")
  /\ fb' = [fb EXCEPT !.pending = Append(@, Top.event)]
  /\ TailCall(<<Frame("process")>>)
  /\ UNCHANGED <<base, sub, sock, hist>>

ProcessPendingEvents ==
  /\ On("process")
  /\ IF fb.inLoop THEN Return /\ UNCHANGED fb
     ELSE TailCall(<<Frame("loop")>>) /\ fb' = [fb EXCEPT !.inLoop = TRUE]
  /\ UNCHANGED <<base, sub, sock, hist>>

(* What the state machine answers, as the actions that reach the transport *)
(* in the order they are visited.  A Flight is any write without token:    *)
(* handshake messages or an alert.  Unit 0 on the wire is a KeyUpdate.     *)
Mutate(st) == [a |-> "MutateState", state |-> st]
WriteToSocket(tok, data, early) ==
  [a |-> "WriteToSocket", token |-> tok, data |-> data, early |-> early]
Flight == WriteToSocket(NoToken, <<>>, FALSE)
Failure == <<Mutate("Error"), Flight, [a |-> "ReportError"]>>
CloseNotified == <<Mutate("Closed"), [a |-> "EndOfData"]>>
MayAppWrite == {"Open"} \cup IF Role = "server" THEN {"HalfOpen"} ELSE {}

HasWriteLayer == fb.state \notin {"Uninitialized", "ExpectingCloseNotify"}

EventActions(e) ==
  CASE e.type = "AppWrite" /\ fb.state \in MayAppWrite ->
         <<WriteToSocket(e.token, e.data, FALSE)>>
    [] e.type = "EarlyAppWrite" /\ fb.state \in {"Connecting", "Open"} ->
         IF fb.early = "Rejected"
         THEN <<[a |-> "ReportEarlyWriteFailed", token |-> e.token]>>
         ELSE <<WriteToSocket(e.token, e.data, fb.state = "Connecting")>>
    [] e.type = "AppClose" ->
         IF HasWriteLayer THEN <<Mutate("ExpectingCloseNotify"), Flight>>
                          ELSE <<Mutate("Closed")>>
    [] e.type = "AppCloseImmediate" ->
         <<Mutate("Closed")>> \o IF HasWriteLayer THEN <<Flight>> ELSE <<>>
    [] e.type = "KeyUpdate" /\ fb.state = "Open" -> <<WriteToSocket(NoToken, <<0>>, FALSE)>>
    [] OTHER -> Failure

(* A write given to a state machine that cannot take it is dropped with    *)
(* its token.                                                              *)
Swallows(e) == e.type \in {"AppWrite", "EarlyAppWrite"} /\ EventActions(e) = Failure

RecordActions ==
  {Failure} \cup
  CASE fb.state = "Connecting" /\ Role = "client" ->
         (IF fb.early = "Attempted"
          THEN {<<[a |-> "EarlyData", type |-> t]>> : t \in {"Accepted", "Rejected"}}
          ELSE {<<Mutate("Open"), Flight,
                  [a |-> "ReportHandshakeSuccess", accepted |-> fb.early = "Accepted"]>>})
    [] fb.state = "Connecting" /\ Role = "server" ->
         {<<Flight, Mutate("HalfOpen")>>,
          <<Flight, Mutate("HalfOpen"), [a |-> "ReportEarlyHandshakeSuccess"]>>,
          <<Mutate("Error"), [a |-> "AttemptVersionFallback"]>>}
    [] fb.state = "HalfOpen" ->
         {<<Mutate("Open"), [a |-> "ReportHandshakeSuccess", accepted |-> TRUE]>>}
         \cup (IF sub.callback THEN {} ELSE {<<[a |-> "DeliverAppData"]>>})
    [] fb.state = "Open" ->
         {<<[a |-> "DeliverAppData"]>>, <<Flight>> \o CloseNotified}
    [] fb.state = "ExpectingCloseNotify" -> {CloseNotified}
    [] OTHER -> {}

MayRun == ~fb.guard /\ ~InTerminalState /\ ~fb.paused

Loop ==
  /\ On("loop")
  /\ ~MayRun \/ (fb.waitForData /\ fb.pending = <<>>)
  /\ fb' = [fb EXCEPT !.inLoop = FALSE]
  /\ Return
  /\ UNCHANGED <<base, sub, sock, hist>>

Visit(as) == [f |-> "visit", actions |-> as]

LoopEvent ==
  /\ On("loop") /\ MayRun /\ fb.waitForData /\ fb.pending # <<>>
  /\ LET e == Head(fb.pending) IN
       /\ fb' = [fb EXCEPT !.pending = Tail(@), !.guard = TRUE]
       /\ Call(<<Visit(EventActions(e))>>)
       /\ hist' = [hist EXCEPT
            !.lost = IF Swallows(e) THEN @ \cup {e.token.id} ELSE @,
            !.rekeyFailed = @ \/ (e.type = "KeyUpdate" /\ EventActions(e) = Failure)]
  /\ UNCHANGED <<base, sub, sock>>

LoopNoData ==
  /\ On("loop") /\ MayRun /\ ~fb.waitForData /\ fb.unread = 0
  /\ fb' = [fb EXCEPT !.guard = TRUE]
  /\ Call(<<Visit(<<[a |-> "WaitForData"]>>)>>)
  /\ UNCHANGED <<base, sub, sock, hist>>

(* The server's handshake handlers may complete later, on the executor.    *)
LoopRecord(as, later) ==
  /\ On("loop") /\ MayRun /\ ~fb.waitForData /\ fb.unread > 0
  /\ as \in RecordActions
  /\ later => Role = "server" /\ fb.state \in {"Connecting", "HalfOpen"}
  /\ fb' = [fb EXCEPT !.unread = @ - 1, !.guard = TRUE,
                      !.deferred = IF later THEN as ELSE <<>>]
  /\ IF later THEN UNCHANGED stack ELSE Call(<<Visit(as)>>)
  /\ UNCHANGED <<base, sub, sock, hist>>

FutureCompletes ==
  /\ stack = <<>> /\ fb.deferred # <<>>
  /\ fb' = [fb EXCEPT !.deferred = <<>>]
  /\ stack' = <<Visit(fb.deferred)>>
  /\ UNCHANGED <<base, sub, sock, hist>>

VisitDone ==
  /\ On("visit") /\ Top.actions = <<>>
  /\ fb' = [fb EXCEPT !.guard = FALSE]
  /\ TailCall(<<Frame("process")>>)
  /\ UNCHANGED <<base, sub, sock, hist>>

MoveToErrorState ==
  /\ On("moveToErrorState")
  /\ IF fb.error THEN Return /\ UNCHANGED fb
     ELSE TailCall(<<Frame("drain")>>) /\ fb' = [fb EXCEPT !.error = TRUE]
  /\ UNCHANGED <<base, sub, sock, hist>>

(* The writeErr of a callback: the application's, a request's, or none.    *)
FailFrames(tok) ==
  CASE tok.kind = "app" -> <<Frame("app")>>
    [] tok.kind = "request" -> <<[f |-> "writeErr", id |-> tok.id]>>
    [] OTHER -> <<>>
Failed(tok) == IF tok.kind = "app" THEN Answer(hist, tok.id, "err") ELSE hist

Drain ==
  /\ On("drain")
  /\ IF fb.pending = <<>> THEN Return /\ UNCHANGED <<fb, hist>>
     ELSE LET tok == Head(fb.pending).token IN
            /\ fb' = [fb EXCEPT !.pending = Tail(@)]
            /\ Call(FailFrames(tok))
            /\ hist' = Failed(tok)
  /\ UNCHANGED <<base, sub, sock>>

-----------------------------------------------------------------------------
(* The transport underneath (folly::AsyncSocket), as AsyncFizzBase uses it *)
(* and is used by it: a write is answered at once or later, a socket that  *)
(* is closed refuses writes, closing it may tell the installed reader EOF. *)

SucceedFrames(tok) ==
  CASE tok.kind = "app" -> <<Frame("app")>>
    [] tok.kind = "request" -> <<[f |-> "writeSuccess", id |-> tok.id]>>
    [] OTHER -> <<>>
Succeeded(tok) == IF tok.kind = "app" THEN Answer(hist, tok.id, "ok") ELSE hist

SockWrite(now) ==
  /\ On("sockWrite")
  /\ now => sock.queue = <<>>
  /\ LET tok == Top.token
         sent == [i \in DOMAIN Top.data |-> [id |-> Top.data[i], early |-> Top.early]] IN
     IF sock.state \notin {"open", "eof"}
     THEN /\ now = FALSE
          /\ TailCall(FailFrames(tok))
          /\ hist' = Failed(tok)
          /\ UNCHANGED sock
     ELSE /\ hist' = [(IF now THEN Succeeded(tok) ELSE hist) EXCEPT !.wire = @ \o sent]
          /\ TailCall(IF now THEN SucceedFrames(tok) ELSE <<>>)
          /\ sock' = IF now THEN sock ELSE [sock EXCEPT !.queue = Append(@, tok)]
  /\ UNCHANGED <<fb, base, sub>>

SockWriteDone ==
  /\ stack = <<>> /\ sock.queue # <<>> /\ sock.state # "closed"
  /\ sock' = [state |-> IF sock.state = "closing" /\ Len(sock.queue) = 1
                        THEN "closed" ELSE sock.state,
              queue |-> Tail(sock.queue)]
  /\ stack' = SucceedFrames(Head(sock.queue))
  /\ hist' = Succeeded(Head(sock.queue))
  /\ UNCHANGED <<fb, base, sub>>

(* Each queued write is failed in turn, then the reader is told.           *)
SockFailAll ==
  /\ On("sockFail")
  /\ IF sock.queue # <<>>
     THEN /\ sock' = [sock EXCEPT !.queue = Tail(@)]
          /\ Call(FailFrames(Head(sock.queue)))
          /\ hist' = Failed(Head(sock.queue))
          /\ UNCHANGED base
     ELSE /\ TailCall(IF Top.tell /\ base.reads
                      THEN <<[f |-> "transportError", ex |-> Top.ex]>> ELSE <<>>)
          /\ base' = [base EXCEPT !.reads = FALSE]
          /\ UNCHANGED <<sock, hist>>
  /\ UNCHANGED <<fb, sub>>

(* A socket closed while it connects fails the connect.                    *)
ConnectErrFrames ==
  IF sock.state = "connecting"
  THEN <<[f |-> "deliverAllErrors", ex |-> "Error", close |-> FALSE]>> ELSE <<>>

SockCloseNow(tell) ==
  /\ On("sockCloseNow")
  /\ sock' = [sock EXCEPT !.state = "closed"]
  /\ TailCall(ConnectErrFrames \o <<[f |-> "sockFail", ex |-> "EOF", tell |-> tell]>>)
  /\ UNCHANGED <<fb, base, sub, hist>>

(* close() lets the queued writes finish first.                            *)
SockClose(tell) ==
  /\ On("sockClose")
  /\ IF sock.queue = <<>>
     THEN TailCall(<<Frame("sockCloseNow")>>) /\ UNCHANGED <<base, sock>>
     ELSE /\ sock' = [sock EXCEPT !.state = IF @ = "closed" THEN @ ELSE "closing"]
          /\ base' = [base EXCEPT !.reads = FALSE]
          /\ TailCall(IF tell /\ base.reads
                      THEN <<[f |-> "transportError", ex |-> "EOF"]>> ELSE <<>>)
  /\ UNCHANGED <<fb, sub, hist>>

(* The peer closes its side; or the connection breaks.                     *)
SockEOF ==
  /\ Faults /\ stack = <<>> /\ sock.state = "open" /\ base.reads
  /\ sock' = [sock EXCEPT !.state = "eof"]
  /\ base' = [base EXCEPT !.reads = FALSE]
  /\ stack' = <<[f |-> "transportError", ex |-> "EOF"]>>
  /\ UNCHANGED <<fb, sub, hist>>

SockError ==
  /\ Faults /\ stack = <<>> /\ sock.state \in {"open", "eof", "closing"} /\ Started
  /\ sock' = [sock EXCEPT !.state = "closed"]
  /\ stack' = <<[f |-> "sockFail", ex |-> "Error", tell |-> TRUE]>>
  /\ UNCHANGED <<fb, base, sub, hist>>

-----------------------------------------------------------------------------
(* Writes: AsyncFizzBase::writeChain and QueuedWriteRequest.  base.chain   *)
(* is the list of requests from the one being written to tailWriteRequest_ *)
(* and base.buffered the tail's entireChainBytesBuffered.                  *)

WriteChain(size, shared) ==
  /\ AppTurn /\ Started /\ Len(hist.writes) < MaxWrites
  /\ LET id == Len(hist.writes) + 1
         request == [id |-> id, left |-> size]
         queue == base.chain # <<>>
                  \/ /\ size > Threshold \/ sock.queue # <<>>
                     /\ shared /\ ~Connecting /\ IsReplaySafe IN
       /\ hist' = [hist EXCEPT !.writes = Append(@, size), !.answers = Append(@, "none")]
       /\ base' = IF queue THEN [base EXCEPT !.chain = Append(@, request),
                                             !.buffered = @ + size]
                           ELSE base
       /\ Call(IF ~queue THEN <<[f |-> "writeAppData", token |-> App(id), n |-> size]>>
               ELSE IF base.chain = <<>> THEN <<[f |-> "startWriting", id |-> id]>>
               ELSE <<>>)
  /\ UNCHANGED <<fb, sub, sock>>

StartWriting ==
  /\ On("startWriting")
  /\ LET n == IF base.chain[1].left > Threshold THEN Threshold ELSE base.chain[1].left IN
       /\ base' = [base EXCEPT !.chain[1].left = @ - n, !.buffered = @ - n]
       /\ TailCall(<<[f |-> "writeAppData", token |-> Request(Top.id), n |-> n]>>)
  /\ UNCHANGED <<fb, sub, sock, hist>>

NextInChain == IF Len(base.chain) > 1 THEN base.chain[2].id ELSE 0
(* advanceOnBase and delete: the head leaves, the tail pointer goes when   *)
(* it was the last.                                                        *)
AdvanceOnBase(b) ==
  [b EXCEPT !.chain = Tail(@), !.buffered = IF Len(b.chain) = 1 THEN 0 ELSE @]

(* Mutant: the next request is not remembered while the callback runs.     *)
RequestWriteSuccessMutant ==
  /\ On("writeSuccess")
  /\ IF base.chain[1].left > 0
     THEN /\ TailCall(<<[f |-> "startWriting", id |-> Top.id]>>)
          /\ UNCHANGED <<base, hist>>
     ELSE /\ base' = AdvanceOnBase(base)
          /\ hist' = Answer(hist, Top.id, "ok")
          /\ TailCall(<<Frame("app"), [f |-> "startNext", id |-> NextInChain]>>)
  /\ UNCHANGED <<fb, sub, sock>>

RequestWriteSuccess ==
  /\ On("writeSuccess")
  /\ IF base.chain[1].left > 0
     THEN /\ TailCall(<<[f |-> "startWriting", id |-> Top.id]>>)
          /\ UNCHANGED <<base, hist>>
     ELSE /\ base' = [AdvanceOnBase(base) EXCEPT !.immediate = NextInChain]
          /\ hist' = Answer(hist, Top.id, "ok")
          /\ TailCall(<<Frame("app"), [f |-> "startNext", id |-> NextInChain]>>)
  /\ UNCHANGED <<fb, sub, sock>>

StartNext ==
  /\ On("startNext")
  /\ IF Top.id # 0 /\ base.immediate = Top.id
     THEN /\ base' = [base EXCEPT !.immediate = 0]
          /\ TailCall(<<[f |-> "startWriting", id |-> Top.id]>>)
     ELSE Return /\ UNCHANGED base
  /\ UNCHANGED <<fb, sub, sock, hist>>

(* The error goes to this request and to all behind it.                    *)
RequestWriteErr ==
  /\ On("writeErr")
  /\ IF Top.id = 0 THEN Return /\ UNCHANGED <<base, hist>>
     ELSE /\ base' = AdvanceOnBase(base)
          /\ hist' = Answer(hist, Top.id, "err")
          /\ TailCall(<<Frame("app"), [f |-> "writeErr", id |-> NextInChain]>>)
  /\ UNCHANGED <<fb, sub, sock>>

PerformAppWrite(tok, data) ==
  <<[f |-> "submit", event |-> AppWriteOf(tok, data)],
    [f |-> "wroteApplicationBytes", n |-> Len(data)]>>

WroteApplicationBytes ==
  /\ On("wroteApplicationBytes")
  /\ LET n == base.underKey + Top.n
         rekey == Rekey > 0 /\ n >= Rekey IN
       /\ base' = [base EXCEPT !.underKey = IF Rekey = 0 \/ rekey THEN 0 ELSE n]
       /\ TailCall(IF rekey THEN <<[f |-> "submit", event |-> EventOf("KeyUpdate")]>> ELSE <<>>)
  /\ UNCHANGED <<fb, sub, sock, hist>>

WriteAppDataBad ==
  /\ On("writeAppData") /\ ~Good
  /\ TailCall(FailFrames(Top.token))
  /\ hist' = Failed(Top.token)
  /\ UNCHANGED <<fb, base, sub, sock>>

ServerWriteAppData ==
  /\ On("writeAppData") /\ Good /\ Role = "server"
  /\ TailCall(PerformAppWrite(Top.token, Units(Top.token.id, Top.n)))
  /\ UNCHANGED <<fb, base, sub, sock, hist>>

ClientWriteAppData ==
  /\ On("writeAppData") /\ Good /\ Role = "client" /\ ~sub.early.on
  /\ LET data == Units(Top.token.id, Top.n) IN
     IF Connecting /\ ~SendEarly
     THEN /\ sub' = [sub EXCEPT !.handshakeWrites = Append(@, AppWriteOf(Top.token, data))]
          /\ Return
     ELSE TailCall(PerformAppWrite(Top.token, data)) /\ UNCHANGED sub
  /\ UNCHANGED <<fb, base, sock, hist>>

(* Mutant: a write that fits into the early data overtakes those that did  *)
(* not.                                                                    *)
ClientWriteEarlyDataMutant ==
  /\ On("writeAppData") /\ Good /\ Role = "client" /\ sub.early.on
  /\ LET data == Units(Top.token.id, Top.n) IN
     IF Top.n > sub.early.remaining
     THEN /\ sub' = [sub EXCEPT !.early.pending = Append(@, AppWriteOf(Top.token, data))]
          /\ Return
     ELSE /\ sub' = [sub EXCEPT !.early.remaining = @ - Top.n,
                                !.early.resend = IF Policy = "Resend" THEN @ \o data ELSE @]
          /\ TailCall(<<[f |-> "submit", event |-> EarlyAppWriteOf(Top.token, data)]>>)
  /\ UNCHANGED <<fb, base, sock, hist>>

ClientWriteEarlyData ==
  /\ On("writeAppData") /\ Good /\ Role = "client" /\ sub.early.on
  /\ LET data == Units(Top.token.id, Top.n) IN
     IF sub.early.pending # <<>> \/ Top.n > sub.early.remaining
     THEN /\ sub' = [sub EXCEPT !.early.remaining = 0,
                                !.early.pending = Append(@, AppWriteOf(Top.token, data))]
          /\ Return
     ELSE /\ sub' = [sub EXCEPT !.early.remaining = @ - Top.n,
                                !.early.resend = IF Policy = "Resend" THEN @ \o data ELSE @]
          /\ TailCall(<<[f |-> "submit", event |-> EarlyAppWriteOf(Top.token, data)]>>)
  /\ UNCHANGED <<fb, base, sock, hist>>

-----------------------------------------------------------------------------
(* Reads: the record arrives, the machine delivers, the callback takes it. *)

CheckBufLen(b) ==
  [b EXCEPT !.reads = @ /\ ~(~b.readCallback /\ (fb.unread >= MaxBuf
                                                 \/ Len(b.appDataBuf) >= MaxBuf))]

TransportDataAvailable ==
  /\ stack = <<>> /\ base.reads /\ sock.state = "open" /\ hist.records < MaxRecords
  /\ fb' = [fb EXCEPT !.unread = @ + 1, !.waitForData = FALSE]
  /\ hist' = [hist EXCEPT !.records = @ + 1]
  /\ stack' = <<Frame("process"), Frame("checkBufLen")>>
  /\ UNCHANGED <<base, sub, sock>>

CheckBufLenStep ==
  /\ On("checkBufLen")
  /\ base' = CheckBufLen(base)
  /\ Return
  /\ UNCHANGED <<fb, sub, sock, hist>>

(* Mutant: what the removed callback left is not kept.                     *)
DeliverAppDataStopMutant ==
  /\ On("deliverAppData") /\ (Top.data = <<>> \/ ~base.readCallback)
  /\ base' = CheckBufLen(base)
  /\ Return
  /\ UNCHANGED <<fb, sub, sock, hist>>

DeliverAppDataStop ==
  /\ On("deliverAppData") /\ (Top.data = <<>> \/ ~base.readCallback)
  /\ base' = CheckBufLen([base EXCEPT !.appDataBuf = Top.data])
  /\ Return
  /\ UNCHANGED <<fb, sub, sock, hist>>

(* readBufferAvailable takes everything, readDataAvailable as much as the  *)
(* buffer of the callback holds; the callback may be replaced or removed   *)
(* before the rest.                                                        *)
DeliverAppData(movable) ==
  /\ On("deliverAppData") /\ base.readCallback /\ Top.data # <<>>
  /\ hist' = [hist EXCEPT !.delivered = @ + IF movable THEN Len(Top.data) ELSE 1]
  /\ TailCall(<<Frame("app")>> \o
              IF movable THEN <<>> ELSE <<[Top EXCEPT !.data = Tail(@)]>>)
  /\ UNCHANGED <<fb, base, sub, sock>>

(* getReadBuffer throws or returns nothing: the data are gone.             *)
DeliverAppDataThrows ==
  /\ Faults /\ On("deliverAppData") /\ base.readCallback /\ Top.data # <<>>
  /\ hist' = [hist EXCEPT !.dropped = TRUE]
  /\ TailCall(<<[f |-> "deliverError", ex |-> "Error", close |-> TRUE]>>)
  /\ UNCHANGED <<fb, base, sub, sock>>

SetReadCB(set) ==
  /\ AppCall /\ Counted
  /\ base' = [base EXCEPT !.readCallback = set,
                          !.appDataBuf = IF set THEN <<>> ELSE @]
  /\ Call(IF ~set THEN <<>>
          ELSE (IF base.appDataBuf = <<>> THEN <<>>
                ELSE <<[f |-> "deliverAppData", data |-> base.appDataBuf]>>)
               \o <<Frame("setReadCB")>>)
  /\ UNCHANGED <<fb, sub, sock>>

(* Mutant: setting a callback does not start the reads again.              *)
SetReadCBRestMutant ==
  /\ On("setReadCB")
  /\ IF base.readCallback /\ base.pendingReadEx # "none"
     THEN /\ base' = [base EXCEPT !.pendingReadEx = "none"]
          /\ TailCall(<<[f |-> "deliverError", ex |-> base.pendingReadEx, close |-> TRUE]>>)
     ELSE Return /\ UNCHANGED base
  /\ UNCHANGED <<fb, sub, sock, hist>>

SetReadCBRest ==
  /\ On("setReadCB")
  /\ IF base.readCallback /\ base.pendingReadEx # "none"
     THEN /\ base' = [base EXCEPT !.pendingReadEx = "none"]
          /\ TailCall(<<[f |-> "deliverError", ex |-> base.pendingReadEx, close |-> TRUE]>>)
     ELSE IF ~Good
     THEN TailCall(<<[f |-> "deliverError", ex |-> "Error", close |-> TRUE]>>) /\ UNCHANGED base
     ELSE Return /\ base' = [base EXCEPT !.reads = TRUE]
  /\ UNCHANGED <<fb, sub, sock, hist>>

-----------------------------------------------------------------------------
(* Errors.                                                                 *)

(* The reader is told once, or finds the error when it is set.             *)
DeliverError ==
  /\ On("deliverError")
  /\ base' = [base EXCEPT !.readCallback = FALSE,
                          !.pendingReadEx = IF base.readCallback THEN @ ELSE Top.ex]
  /\ TailCall((IF base.readCallback THEN <<Frame("app")>> ELSE <<>>)
              \o <<[f |-> "failImmediate", close |-> Top.close]>>)
  /\ UNCHANGED <<fb, sub, sock, hist>>

FailImmediatelyPending ==
  /\ On("failImmediate")
  /\ base' = [base EXCEPT !.immediate = 0]
  /\ TailCall((IF base.immediate = 0 THEN <<>>
               ELSE <<[f |-> "writeErr", id |-> base.immediate]>>)
              \o IF Top.close THEN <<Frame("sockClose")>> ELSE <<>>)
  /\ UNCHANGED <<fb, sub, sock, hist>>

AllErrors(ex, close) == [f |-> "deliverAllErrors", ex |-> ex, close |-> close]

TransportError ==
  /\ On("transportError")
  /\ TailCall(<<AllErrors(Top.ex, TRUE)>>)
  /\ UNCHANGED <<fb, base, sub, sock, hist>>

ServerErrorFrames(ex, close) ==
  <<Frame("deliverHandshakeError"), Frame("moveToErrorState"),
    [f |-> "deliverError", ex |-> ex, close |-> close]>>

ClientErrorFrames(ex, close) ==
  <<Frame("deliverHandshakeError"), Frame("failPendingWrites"), Frame("moveToErrorState"),
    [f |-> "deliverError", ex |-> ex, close |-> close]>>

DeliverAllErrors ==
  /\ On("deliverAllErrors")
  /\ TailCall(IF Role = "client" THEN ClientErrorFrames(Top.ex, Top.close)
                                 ELSE ServerErrorFrames(Top.ex, Top.close))
  /\ UNCHANGED <<fb, base, sub, sock, hist>>

(* Mutant: the callback is called and not forgotten.                       *)
DeliverHandshakeErrorMutant ==
  /\ On("deliverHandshakeError")
  /\ IF sub.callback
     THEN /\ base' = [base EXCEPT !.timeout = FALSE]
          /\ hist' = [hist EXCEPT !.reports = Append(@, "error")]
          /\ TailCall(<<Frame("app")>>)
     ELSE Return /\ UNCHANGED <<base, hist>>
  /\ UNCHANGED <<fb, sub, sock>>

DeliverHandshakeError ==
  /\ On("deliverHandshakeError")
  /\ IF sub.callback
     THEN /\ sub' = [sub EXCEPT !.callback = FALSE]
          /\ base' = [base EXCEPT !.timeout = FALSE]
          /\ hist' = [hist EXCEPT !.reports = Append(@, "error")]
          /\ TailCall(<<Frame("app")>>)
     ELSE Return /\ UNCHANGED <<sub, base, hist>>
  /\ UNCHANGED <<fb, sock>>

(* Mutant: the writes that wait for the handshake are forgotten.           *)
FailPendingWritesMutant ==
  /\ On("failPendingWrites")
  /\ IF sub.early.pending # <<>>
     THEN LET tok == Head(sub.early.pending).token IN
            /\ sub' = [sub EXCEPT !.early.pending = Tail(@), !.replaySafety = FALSE]
            /\ hist' = Failed(tok)
            /\ Call(FailFrames(tok))
     ELSE Return /\ sub' = [sub EXCEPT !.replaySafety = FALSE] /\ UNCHANGED hist
  /\ UNCHANGED <<fb, base, sock>>
(* Client: writes that wait for the handshake, then those that wait for    *)
(* the end of early data, one callback at a time.                          *)
FailPendingWrites ==
  /\ On("failPendingWrites")
  /\ IF sub.handshakeWrites # <<>>
     THEN LET tok == Head(sub.handshakeWrites).token IN
            /\ sub' = [sub EXCEPT !.handshakeWrites = Tail(@), !.replaySafety = FALSE]
            /\ hist' = Failed(tok)
            /\ Call(FailFrames(tok))
     ELSE IF sub.early.pending # <<>>
     THEN LET tok == Head(sub.early.pending).token IN
            /\ sub' = [sub EXCEPT !.early.pending = Tail(@), !.replaySafety = FALSE]
            /\ hist' = Failed(tok)
            /\ Call(FailFrames(tok))
     ELSE Return /\ sub' = [sub EXCEPT !.replaySafety = FALSE] /\ UNCHANGED hist
  /\ UNCHANGED <<fb, base, sock>>

(* Mutant: the timeout tells the handshake callback and nobody else.       *)
HandshakeTimeoutExpiredMutant ==
  /\ stack = <<>> /\ base.timeout
  /\ base' = [base EXCEPT !.timeout = FALSE]
  /\ stack' = <<Frame("deliverHandshakeError")>>
  /\ UNCHANGED <<fb, sub, sock, hist>>

HandshakeTimeoutExpired ==
  /\ stack = <<>> /\ base.timeout
  /\ base' = [base EXCEPT !.timeout = FALSE]
  /\ stack' = <<[f |-> "transportError", ex |-> "Error"]>>
  /\ UNCHANGED <<fb, sub, sock, hist>>

-----------------------------------------------------------------------------
(* The visitors of the actions.  The visit goes on with the rest after the *)
(* call returns.                                                           *)

Visiting(a) == On("visit") /\ Top.actions # <<>> /\ Head(Top.actions).a = a
Action == Head(Top.actions)
ThenRest(fs) == TailCall(fs \o <<Visit(Tail(Top.actions))>>)

VisitMutateState ==
  /\ Visiting("MutateState")
  /\ fb' = [fb EXCEPT !.state = Action.state]
  /\ ThenRest(<<>>)
  /\ UNCHANGED <<base, sub, sock, hist>>

VisitEarlyData ==
  /\ Visiting("EarlyData")
  /\ fb' = [fb EXCEPT !.early = Action.type]
  /\ ThenRest(<<>>)
  /\ UNCHANGED <<base, sub, sock, hist>>

VisitWriteToSocket ==
  /\ Visiting("WriteToSocket")
  /\ ThenRest(<<[f |-> "sockWrite", token |-> Action.token, data |-> Action.data,
                 early |-> Action.early]>>)
  /\ UNCHANGED <<fb, base, sub, sock, hist>>

VisitDeliverAppData ==
  /\ Visiting("DeliverAppData")
  /\ hist' = [hist EXCEPT !.produced = @ + 1]
  /\ base' = [base EXCEPT !.appDataBuf = <<>>]
  /\ ThenRest(<<[f |-> "deliverAppData",
                 data |-> Append(base.appDataBuf, hist.produced + 1)]>>)
  /\ UNCHANGED <<fb, sub, sock>>

VisitWaitForData ==
  /\ Visiting("WaitForData")
  /\ fb' = [fb EXCEPT !.waitForData = TRUE]
  /\ base' = [base EXCEPT !.reads = @ \/ (sub.callback /\ TransportGood)]
  /\ ThenRest(<<>>)
  /\ UNCHANGED <<sub, sock, hist>>

VisitReportError ==
  /\ Visiting("ReportError")
  /\ ThenRest(<<Frame("deliverHandshakeError"), AllErrors("Error", TRUE)>>)
  /\ UNCHANGED <<fb, base, sub, sock, hist>>

(* The end of the connection in good order: the reader sees EOF.           *)
VisitEndOfData ==
  /\ Visiting("EndOfData")
  /\ IF Connecting
     THEN /\ ThenRest(<<[f |-> "transportError", ex |-> "Error"]>>)
          /\ UNCHANGED base
     ELSE /\ base' = [base EXCEPT !.readCallback = FALSE,
                        !.pendingReadEx = IF base.readCallback \/ @ # "none" THEN @ ELSE "EOF"]
          /\ ThenRest((IF base.readCallback THEN <<Frame("app")>> ELSE <<>>)
                      \o <<Frame("sockClose")>>)
  /\ UNCHANGED <<fb, sub, sock, hist>>

ReportSuccess ==
  /\ On("reportSuccess")
  /\ IF sub.callback
     THEN /\ sub' = [sub EXCEPT !.callback = FALSE]
          /\ hist' = [hist EXCEPT !.reports = Append(@, "success")]
          /\ TailCall(<<Frame("app"), Frame("replaySafe")>>)
     ELSE TailCall(<<Frame("replaySafe")>>) /\ UNCHANGED <<sub, hist>>
  /\ UNCHANGED <<fb, base, sock>>

OnReplaySafe ==
  /\ On("replaySafe")
  /\ sub' = [sub EXCEPT !.replaySafety = FALSE]
  /\ TailCall(IF sub.replaySafety THEN <<Frame("app")>> ELSE <<>>)
  /\ UNCHANGED <<fb, base, sock, hist>>

(* Server.  A report finds the transport broken if it broke while the      *)
(* future of the handler was pending.                                      *)
ReportUnlessBroken ==
  /\ ThenRest(<<IF Good THEN Frame("reportSuccess")
                ELSE [f |-> "transportError", ex |-> "Error"]>>)
  /\ UNCHANGED <<fb, base, sub, sock, hist>>
ServerReportSuccess ==
  Role = "server" /\ Visiting("ReportHandshakeSuccess") /\ ReportUnlessBroken
ServerReportEarlySuccess ==
  Role = "server" /\ Visiting("ReportEarlyHandshakeSuccess") /\ ReportUnlessBroken

AttemptVersionFallback ==
  /\ Visiting("AttemptVersionFallback")
  /\ sub' = [sub EXCEPT !.callback = FALSE]
  /\ fb' = [fb EXCEPT !.unread = IF sub.callback THEN 0 ELSE @]
  /\ hist' = IF sub.callback THEN [hist EXCEPT !.reports = Append(@, "fallback")] ELSE hist
  /\ ThenRest(IF sub.callback THEN <<Frame("app")>> ELSE <<>>)
  /\ UNCHANGED <<base, sock>>

Accept ==
  /\ Role = "server" /\ stack = <<>> /\ fb.state = "Uninitialized"
  /\ fb' = [fb EXCEPT !.state = "Connecting"]
  /\ sub' = [sub EXCEPT !.callback = TRUE]
  /\ base' = [base EXCEPT !.reads = TRUE]
  /\ UNCHANGED <<stack, sock, hist>>

-----------------------------------------------------------------------------
(* Client.                                                                 *)

(* The connect handler: a ClientHello, and early data when it may be sent. *)
ConnectActions(early) ==
  IF fb.state # "Uninitialized" THEN Failure
  ELSE <<Mutate("Connecting"), Flight>> \o 
       IF early THEN <<[a |-> "EarlyData", type |-> "Attempted"],
                    [a |-> "ReportEarlyHandshakeSuccess"]>> ELSE <<>>

MayConnect == Role = "client" /\ stack = <<>> /\ fb.state = "Uninitialized" /\ ~Started

(* Mutant: no timeout is scheduled for a handshake on a connected socket.  *)
ConnectMutant(early) ==
  /\ MayConnect /\ TransportGood /\ (early => SendEarly)
  /\ sub' = [sub EXCEPT !.callback = TRUE]
  /\ base' = [base EXCEPT !.reads = TRUE]
  /\ fb' = [fb EXCEPT !.guard = TRUE]
  /\ stack' = <<Visit(ConnectActions(early))>>
  /\ UNCHANGED <<sock, hist>>

(* connect on a connected socket.  The handshake timeout is scheduled only *)
(* when the caller gives one.                                              *)
Connect(early) ==
  /\ MayConnect /\ TransportGood /\ (early => SendEarly)
  /\ sub' = [sub EXCEPT !.callback = TRUE]
  /\ base' = [base EXCEPT !.timeout = TimeoutGiven, !.reads = TRUE]
  /\ fb' = [fb EXCEPT !.guard = TRUE]
  /\ stack' = <<Visit(ConnectActions(early))>>
  /\ UNCHANGED <<sock, hist>>

(* The socket handed to the client breaks before connect is called.        *)
SockBreaksEarly ==
  /\ Faults /\ MayConnect /\ sock.state = "open"
  /\ sock' = [sock EXCEPT !.state = "closed"]
  /\ UNCHANGED <<stack, fb, base, sub, hist>>

ConnectNotGood ==
  /\ MayConnect /\ ~TransportGood
  /\ sub' = [sub EXCEPT !.callback = TRUE]
  /\ stack' = <<AllErrors("Error", FALSE)>>
  /\ UNCHANGED <<fb, base, sock, hist>>

(* connect with an address: the socket connects first.                     *)
ConnectAddress ==
  /\ MayConnect /\ sock.state = "open"
  /\ sub' = [sub EXCEPT !.callback = TRUE]
  /\ base' = [base EXCEPT !.timeout = TimeoutGiven]
  /\ sock' = [sock EXCEPT !.state = "connecting"]
  /\ UNCHANGED <<stack, fb, hist>>

(* There is no AsyncSocket underneath that could connect.                  *)
ConnectAddressNoSocket ==
  /\ MayConnect /\ sock.state = "open"
  /\ sub' = [sub EXCEPT !.callback = TRUE]
  /\ base' = [base EXCEPT !.timeout = TimeoutGiven]
  /\ stack' = <<AllErrors("Error", FALSE)>>
  /\ UNCHANGED <<fb, sock, hist>>

ConnectSuccess(early) ==
  /\ stack = <<>> /\ sock.state = "connecting" /\ (early => SendEarly)
  /\ sock' = [sock EXCEPT !.state = "open"]
  /\ base' = [base EXCEPT !.reads = TRUE]
  /\ fb' = [fb EXCEPT !.guard = TRUE]
  /\ stack' = <<Visit(ConnectActions(early))>>
  /\ UNCHANGED <<sub, hist>>

ConnectErr ==
  /\ stack = <<>> /\ sock.state = "connecting"
  /\ sock' = [sock EXCEPT !.state = "closed"]
  /\ stack' = <<AllErrors("Error", FALSE)>>
  /\ UNCHANGED <<fb, base, sub, hist>>

ClientReportEarlySuccess ==
  /\ Role = "client" /\ Visiting("ReportEarlyHandshakeSuccess")
  /\ sub' = [sub EXCEPT !.early = [NoEarly EXCEPT !.on = TRUE, !.remaining = MaxEarly],
                        !.callback = FALSE, !.replaySafety = sub.callback]
  /\ hist' = IF sub.callback THEN [hist EXCEPT !.reports = Append(@, "success")] ELSE hist
  /\ ThenRest(IF sub.callback THEN <<Frame("app")>> ELSE <<>>)
  /\ UNCHANGED <<fb, base, sock>>

VisitReportEarlyWriteFailed ==
  /\ Visiting("ReportEarlyWriteFailed")
  /\ ThenRest(SucceedFrames(Action.token))
  /\ hist' = Succeeded(Action.token)
  /\ UNCHANGED <<fb, base, sub, sock>>

ClientReportSuccess ==
  /\ Role = "client" /\ Visiting("ReportHandshakeSuccess")
  /\ base' = [base EXCEPT !.timeout = FALSE]
  /\ ThenRest(<<Frame("flushHandshakeWrites"),
                [f |-> "endEarlyData", accepted |-> Action.accepted]>>)
  /\ UNCHANGED <<fb, sub, sock, hist>>

FlushHandshakeWrites ==
  /\ On("flushHandshakeWrites")
  /\ IF sub.handshakeWrites = <<>> THEN Return /\ UNCHANGED sub
     ELSE LET w == Head(sub.handshakeWrites) IN
            /\ sub' = [sub EXCEPT !.handshakeWrites = Tail(@)]
            /\ Call(PerformAppWrite(w.token, w.data))
  /\ UNCHANGED <<fb, base, sock, hist>>

(* The parameters of a connection that early data depend on; what the      *)
(* cached PSK promised, and what may be negotiated instead.                *)
EarlyDataParams == [version |-> "tls_1_3_26_fb", cipher |-> "aes", alpn |-> "h2",
                    serverCert |-> "s", clientCert |-> "none"]
Negotiable ==
  {EarlyDataParams, [EarlyDataParams EXCEPT !.version = "tls_1_3"],
   [EarlyDataParams EXCEPT !.version = "other"], [EarlyDataParams EXCEPT !.cipher = "chacha"],
   [EarlyDataParams EXCEPT !.alpn = "none"], [EarlyDataParams EXCEPT !.serverCert = "t"],
   [EarlyDataParams EXCEPT !.clientCert = "c"]}

EarlyParametersMatch(now, early) ==
  /\ \/ now.version = early.version
     \/ now.version = "tls_1_3" /\ early.version = "tls_1_3_26_fb"
  /\ now.cipher = early.cipher
  /\ now.alpn = early.alpn
  /\ now.serverCert = early.serverCert
  /\ now.clientCert = early.clientCert

(* handleEarlyReject: with AutomaticResend and the parameters that early   *)
(* data were sent under, everything is sent again, else it is fatal.       *)
EndEarlyData(params) ==
  /\ On("endEarlyData")
  /\ LET early == sub.early
         rejected == early.on /\ ~Top.accepted
         resend == rejected /\ Policy = "Resend"
                   /\ EarlyParametersMatch(params, EarlyDataParams) IN
       /\ sub' = IF resend THEN [sub EXCEPT !.early.resend = <<>>] ELSE sub
       /\ TailCall(
            IF rejected /\ ~resend
            THEN <<AllErrors("Error", FALSE), Frame("sockCloseNow")>>
            ELSE (IF resend /\ early.resend # <<>>
                  THEN PerformAppWrite(NoToken, early.resend) ELSE <<>>)
                 \o <<Frame("flushEarlyWrites"), Frame("reportSuccess")>>)
  /\ UNCHANGED <<fb, base, sock, hist>>

FlushEarlyWrites ==
  /\ On("flushEarlyWrites")
  /\ IF sub.early.pending = <<>> THEN Return /\ sub' = [sub EXCEPT !.early = NoEarly]
     ELSE LET w == Head(sub.early.pending) IN
            /\ sub' = [sub EXCEPT !.early.pending = Tail(@)]
            /\ Call(PerformAppWrite(w.token, w.data))
  /\ UNCHANGED <<fb, base, sock, hist>>

-----------------------------------------------------------------------------
(* Closing, in the ways the application may ask for it.                    *)

Close ==
  /\ AppCall /\ Counted
  /\ Call(IF TransportGood
          THEN <<[f |-> "submit", event |-> EventOf("AppCloseImmediate")]>>
          ELSE <<AllErrors("EOF", FALSE), Frame("sockClose")>>)
  /\ UNCHANGED <<fb, base, sub, sock>>

CloseNow ==
  /\ AppCall /\ Counted
  /\ Call((IF TransportGood
           THEN <<[f |-> "submit", event |-> EventOf("AppCloseImmediate")]>> ELSE <<>>)
          \o <<AllErrors("EOF", FALSE), Frame("sockCloseNow")>>)
  /\ UNCHANGED <<fb, base, sub, sock>>

TlsShutdown ==
  /\ AppCall /\ Counted /\ TransportGood
  /\ Call(<<[f |-> "submit", event |-> EventOf("AppClose")]>>)
  /\ UNCHANGED <<fb, base, sub, sock>>

(* shutdownWrite: tlsShutdown, then no more writes on the socket.          *)
ShutdownWrite ==
  /\ AppCall /\ Counted /\ TransportGood
  /\ Call(<<[f |-> "submit", event |-> EventOf("AppClose")], Frame("sockShutdownWrite")>>)
  /\ UNCHANGED <<fb, base, sub, sock>>

SockShutdownWrite ==
  /\ On("sockShutdownWrite")
  /\ sock' = [sock EXCEPT !.state = IF @ = "closed" THEN @ ELSE "closing"]
  /\ Return
  /\ UNCHANGED <<fb, base, sub, hist>>

(* The transport leaves its event base and comes back to one.              *)
Detach ==
  /\ AppCall /\ Counted /\ stack = <<>> /\ ~base.timeout /\ ~fb.paused
  /\ sock.state = "open"
  /\ Role = "server" => ~fb.guard
  /\ base' = [base EXCEPT !.reads = FALSE]
  /\ fb' = [fb EXCEPT !.paused = TRUE]
  /\ UNCHANGED <<stack, sub, sock>>

Attach ==
  /\ stack = <<>> /\ fb.paused
  /\ fb' = [fb EXCEPT !.paused = FALSE]
  /\ stack' = <<Frame("process"), Frame("attached")>>
  /\ UNCHANGED <<base, sub, sock, hist>>

Attached ==
  /\ On("attached")
  /\ base' = [base EXCEPT !.reads = @ \/ TransportGood]
  /\ TailCall(IF ~TransportGood /\ base.readCallback
              THEN <<[f |-> "transportError", ex |-> "Error"]>> ELSE <<>>)
  /\ UNCHANGED <<fb, sub, sock, hist>>

AppReturns ==
  /\ On("app")
  /\ Return
  /\ UNCHANGED <<fb, base, sub, sock, hist>>

-----------------------------------------------------------------------------
ApplicationStep ==
  \/ \E kind \in sub.config.kinds : WriteChain(kind[1], kind[2])
  \/ \E set \in BOOLEAN : SetReadCB(set)
  \/ Close \/ CloseNow \/ TlsShutdown \/ ShutdownWrite \/ Detach
  \/ Accept \/ \E early \in BOOLEAN : Connect(early)
  \/ ConnectNotGood \/ ConnectAddress \/ ConnectAddressNoSocket

EnvironmentStep ==
  \/ TransportDataAvailable \/ SockWriteDone \/ SockEOF \/ SockError \/ SockBreaksEarly
  \/ HandshakeTimeoutExpired \/ FutureCompletes \/ Attach
  \/ ConnectErr \/ \E early \in BOOLEAN : ConnectSuccess(early)

CodeStep ==
  \/ AppReturns \/ Submit \/ ProcessPendingEvents \/ Loop \/ LoopEvent \/ LoopNoData
  \/ \E as \in RecordActions, later \in BOOLEAN : LoopRecord(as, later)
  \/ VisitDone \/ MoveToErrorState \/ Drain
  \/ \E b \in BOOLEAN : SockWrite(b) \/ SockClose(b) \/ SockCloseNow(b)
  \/ SockFailAll \/ SockShutdownWrite
  \/ StartWriting \/ RequestWriteSuccess \/ StartNext \/ RequestWriteErr
  \/ WroteApplicationBytes \/ WriteAppDataBad \/ ServerWriteAppData
  \/ ClientWriteAppData \/ ClientWriteEarlyData
  \/ CheckBufLenStep \/ DeliverAppDataStop \/ DeliverAppDataThrows
  \/ \E movable \in BOOLEAN : DeliverAppData(movable)
  \/ SetReadCBRest \/ Attached
  \/ DeliverError \/ FailImmediatelyPending \/ TransportError \/ DeliverAllErrors
  \/ DeliverHandshakeError \/ FailPendingWrites
  \/ VisitMutateState \/ VisitEarlyData \/ VisitWriteToSocket \/ VisitDeliverAppData
  \/ VisitWaitForData \/ VisitReportError \/ VisitEndOfData
  \/ ReportSuccess \/ OnReplaySafe \/ ServerReportSuccess \/ ServerReportEarlySuccess
  \/ AttemptVersionFallback
  \/ ClientReportEarlySuccess \/ VisitReportEarlyWriteFailed \/ ClientReportSuccess
  \/ FlushHandshakeWrites \/ \E params \in Negotiable : EndEarlyData(params)
  \/ FlushEarlyWrites

Next == ApplicationStep \/ EnvironmentStep \/ CodeStep

Spec == Init /\ [][Next]_vars

(* The code runs to its next call and callbacks return; a timeout that is  *)
(* scheduled expires, a socket completes or fails its writes, and a        *)
(* detached transport is attached again.                                   *)
FairSpec == /\ Spec
            /\ WF_vars(CodeStep) /\ WF_vars(HandshakeTimeoutExpired)
            /\ WF_vars(SockWriteDone) /\ WF_vars(Attach)
-----------------------------------------------------------------------------
Quiet == stack = <<>>
Written == DOMAIN hist.writes

(* The application data the peer gets to see: early data count only while  *)
(* they have not been rejected.                                            *)
Stream == SelectSeq(hist.wire, LAMBDA u : u.id # 0 /\ (u.early => fb.early # "Rejected"))
Sent(id) == Cardinality({i \in DOMAIN Stream : Stream[i].id = id})

(* A queued request whose write the state machine swallowed holds up all   *)
(* the requests behind it.                                                 *)
Stranded(id) == /\ base.chain # <<>> /\ base.chain[1].id \in hist.lost
                /\ \E k \in DOMAIN base.chain : base.chain[k].id = id

(* Who holds the token of a queued request.                                *)
HoldsRequest(fr) ==
  \/ fr.f \in {"startWriting", "writeSuccess"}
  \/ fr.f = "writeErr" /\ fr.id # 0
  \/ fr.f \in {"writeAppData", "sockWrite"} /\ fr.token.kind = "request"
  \/ fr.f = "submit" /\ fr.event.token.kind = "request"
  \/ fr.f = "visit" /\ \E i \in DOMAIN fr.actions :
       fr.actions[i].a \in {"WriteToSocket", "ReportEarlyWriteFailed"}
       /\ fr.actions[i].token.kind = "request"
QueuedEvents == fb.pending \o sub.handshakeWrites \o sub.early.pending
Holders ==
  {<<"stack", i>> : i \in {i \in DOMAIN stack : HoldsRequest(stack[i])}}
  \cup {<<"socket", i>> : i \in {i \in DOMAIN sock.queue : sock.queue[i].kind = "request"}}
  \cup {<<"event", i>> : i \in {i \in DOMAIN QueuedEvents :
                                   QueuedEvents[i].token.kind = "request"}}
  \cup (IF base.immediate # 0 THEN {<<"immediate", 0>>} ELSE {})

(* A write callback is called at most once, whatever the callbacks do:     *)
(* QueuedWriteRequest hands over to the next request, fails the chain and  *)
(* is failed by deliverError without ever calling twice.  And once         *)
(* deliverAllErrors has run and the socket has given back its writes, none *)
(* is left without answer, except the ones the state machine refused with  *)
(* an exception, which drops their token.                                  *)
WritesAnswered ==
  /\ \A id \in Written : hist.answers[id] # "twice"
  /\ (Quiet /\ fb.error /\ sock.queue = <<>>) =>
       \A id \in Written : hist.answers[id] # "none" \/ id \in hist.lost \/ Stranded(id)

(* The peer sees the application's bytes in the order of the writes and    *)
(* without a gap but for writes reported as failed, across queued          *)
(* requests, pieces of a large write, writes kept for the end of the       *)
(* handshake, early data and its retransmission.  A write reported as      *)
(* successful was sent whole; for early data this holds again once the     *)
(* handshake has settled whether they were accepted.                       *)
StreamInOrder ==
  /\ \A i, j \in DOMAIN Stream : i < j => Stream[i].id <= Stream[j].id
  /\ \A i \in DOMAIN Stream, id \in Written :
       /\ Sent(id) <= hist.writes[id]
       /\ id < Stream[i].id => Sent(id) = hist.writes[id] \/ hist.answers[id] = "err"
  /\ (Quiet /\ fb.state = "Open" /\ ~fb.error /\ fb.pending = <<>>) =>
       \A id \in Written : hist.answers[id] = "ok" => Sent(id) = hist.writes[id]

(* At any time the chain of queued requests has exactly one owner that     *)
(* will start, complete or fail its head: it is never forgotten and never  *)
(* driven twice (immediatelyPendingWriteRequest_, the DCHECKs), and        *)
(* getAppBytesBuffered counts what is queued and not yet handed down, as   *)
(* long as no error is being delivered to the chain.                       *)
ChainHasOneOwner ==
  /\ Cardinality(Holders) <= 1
  /\ Holders # {} => base.chain # <<>>
  /\ base.chain # <<>> => Holders # {} \/ base.chain[1].id \in hist.lost
  /\ base.immediate # 0 => base.immediate = base.chain[1].id
  /\ (\A i \in DOMAIN stack : stack[i].f # "writeErr") =>
       base.buffered = FoldFunction(LAMBDA r, sum : r.left + sum, 0, base.chain)

(* The handshake callback is called once, with an error if the transport   *)
(* fails first: the timeout, the socket and the state machine race.  A     *)
(* client whose handshake is complete can no longer time out.              *)
HandshakeReportedOnce ==
  /\ Len(hist.reports) <= 1
  /\ (Quiet /\ Started /\ fb.error) => hist.reports # <<>>
  /\ (Quiet /\ Role = "client" /\ fb.state = "Open") => ~base.timeout

(* The data of the state machine reach the application in order and whole, *)
(* or wait in appDataBuf_, even when the callback is changed in between.   *)
NoDataLost ==
  LET held == [i \in DOMAIN stack |-> IF stack[i].f = "deliverAppData" THEN stack[i].data
                                                                       ELSE <<>>] IN
  hist.dropped \/
    FlattenSeq(held) \o base.appDataBuf =
      [i \in 1..(hist.produced - hist.delivered) |-> hist.delivered + i]

(* Reads stopped because a buffer was full are started again: a reader, or *)
(* a handshake in need of data, is never left without the socket's reads,  *)
(* and no reader keeps waiting on a transport that has failed.             *)
ReadsResumed ==
  /\ (Quiet /\ Good /\ ~fb.paused /\ sock.state = "open") =>
       \/ base.reads
       \/ ~base.readCallback /\ ~(sub.callback /\ fb.waitForData /\ ~fb.guard)
  /\ (Quiet /\ fb.error) => ~base.readCallback

(* What ends the handshake of a client: the timeout, if connect was given  *)
(* one, an error, or its completion.  By default there is no timeout, and  *)
(* then neither a silent peer nor a close by the application ends it.      *)
SomethingEndsIt == TimeoutGiven \/ fb.error \/ fb.state \in {"Open", "Error"}

(* The handshake callback of a client that was given a timeout is called   *)
(* in the end, whatever the peer, the socket and the application do.       *)
(* Without one it is called in the end once the transport has been told    *)
(* of an error, the state machine has failed or the handshake is complete. *)
HandshakeSettles == Role = "client" /\ Started /\ SomethingEndsIt ~> hist.reports # <<>>

Settled(id) ==
  /\ id \in Written
  /\ hist.answers[id] # "none" \/ id \in hist.lost \/ Stranded(id)

(* Every write of a client whose handshake ends is answered in the end,    *)
(* also those kept for the end of the handshake or of early data, unless   *)
(* the state machine dropped it with an exception, or the application      *)
(* closed: then the rest of a queued write is only failed when the socket  *)
(* ends.                                                                   *)
WritesSettle ==
  \A id \in 1..2 :
    id \in Written /\ SomethingEndsIt ~> Settled(id) \/ fb.state = "Closed"

(* setRekeyAfterWriting says a key_update is initiated automatically after *)
(* the given number of bytes: on a connection that has been reported to    *)
(* the application, the request for it is not an error.                    *)
RekeyIsInitiated == hist.reports = <<"success">> => ~hist.rekeyFailed
=============================================================================
