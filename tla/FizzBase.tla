------------------------------ MODULE FizzBase ------------------------------
(***************************************************************************)
(* The event loop that drives a fizz state machine:                        *)
(* fizz/protocol/FizzBase-inl.h, with the two ways of starting actions     *)
(* that its subclasses add (FizzClient: always inline; FizzServer: inline, *)
(* or later, when a future completes on the executor) and FizzServer's     *)
(* check for an SSLv2 ClientHello.                                         *)
(*                                                                         *)
(* Everything runs on one thread.  What makes the loop delicate is         *)
(* reentrancy: while the actions of one event are visited, callbacks of    *)
(* the application may call back into the very object that is visiting.    *)
(* The stack of the thread is captured by three variables:                 *)
(*   inProcessPendingEvents  the loop is on the stack                      *)
(*   mode = "visiting"       visitActions is on the stack, above the loop  *)
(*                           if inProcessPendingEvents, else alone         *)
(*   draining                moveToErrorState is on top, calling back      *)
(* A call of the application is possible exactly when the code on top of   *)
(* the stack is the application's: see UserTurn.                           *)
(***************************************************************************)
EXTENDS Naturals, Sequences

CONSTANTS
  Token,          \* write callbacks the application may attach to a write
  NoToken,        \* a write without callback (token == nullptr)
  Role,           \* "client" or "server": which startActions is used
  FutureMayFail,  \* whether the machine's future may hold an exception
  MaxSubmitted,   \* bound on the events submitted in one behaviour
  MaxUnread       \* bound on the records waiting in transportReadBuf_

ASSUME RoleAssumption == Role \in {"client", "server"}
ASSUME TokenAssumption == NoToken \notin Token
ASSUME FutureAssumption == FutureMayFail \in BOOLEAN
ASSUME BoundAssumption == MaxSubmitted \in Nat /\ MaxUnread \in Nat

VARIABLES
  pendingEvents,           \* pendingEvents_
  waitForData,             \* waitForData_
  actionGuard,             \* actionGuard_.has_value()
  inProcessPendingEvents,  \* inProcessPendingEvents_
  externalError,           \* externalError_
  paused,                  \* paused_
  state,                   \* state_.state(), up to what the loop tells apart
  checkV2Hello,            \* FizzServer::checkV2Hello_
  unread,                  \* complete records in transportReadBuf_
  mode,                    \* what the guard is held for
  actions,                 \* actions still to be visited
  draining,                \* the loop of moveToErrorState is running
  submitted,               \* history: every event ever pushed, in order
  handled,                 \* history: how many were given to the machine
  dropped,                 \* history: how many moveToErrorState removed
  failed                   \* history: tokens handed to moveToErrorState's cb

queueVars == <<pendingEvents, submitted, handled, dropped, failed>>
stackVars == <<mode, actions, draining, inProcessPendingEvents, actionGuard>>
flagVars == <<waitForData, externalError, paused, state, checkV2Hello, unread>>
vars == <<pendingEvents, submitted, handled, dropped, failed, mode, actions,
          draining, inProcessPendingEvents, actionGuard, waitForData,
          externalError, paused, state, checkV2Hello, unread>>

WriteTypes == {"AppWrite", "EarlyAppWrite"}
OtherTypes == {"AppClose", "AppCloseImmediate", "WriteNewSessionTicket",
               "KeyUpdateInitiation"}
Event == [type: WriteTypes, token: Token \cup {NoToken}]
           \cup [type: OtherTypes, token: {NoToken}]

ActionType == {"Open", "Error", "Closed",   \* MutateState to that state
               "WaitForData", "ReportError", "Callback"}

(***************************************************************************)
(* The action lists a state machine returns, up to the visits that matter  *)
(* to the loop.  "Callback" stands for every visit that only reaches the   *)
(* application or the socket: DeliverAppData, WriteToSocket, the success   *)
(* reports, EndOfData, SecretAvailable, AttemptVersionFallback.            *)
(***************************************************************************)
Progress == <<"Open", "Callback">>
NeedData == <<"WaitForData">>
Failure == <<"Error", "Callback", "ReportError">>
Closing == <<"Closed", "Callback">>
Fallback == <<"Error", "Callback">>

(***************************************************************************)
(* Before accept/connect every event but a close is an invalid event.      *)
(* Only a record read from the socket can ask for a version fallback.      *)
(***************************************************************************)
EventOutcomes(st) ==
  IF st = "Uninitialized" THEN {Failure, Closing}
                          ELSE {Progress, Failure, Closing}
RecordOutcomes(st) ==
  IF st = "Uninitialized" THEN {Failure}
                          ELSE {Progress, Failure, Closing, Fallback}

Init ==
  /\ pendingEvents = <<>>
  /\ waitForData = TRUE
  /\ actionGuard = FALSE
  /\ inProcessPendingEvents = FALSE
  /\ externalError = FALSE
  /\ paused = FALSE
  /\ state = "Uninitialized"
  /\ checkV2Hello = FALSE
  /\ unread = 0
  /\ mode = "idle"
  /\ actions = <<>>
  /\ draining = FALSE
  /\ submitted = <<>>
  /\ handled = 0
  /\ dropped = 0
  /\ failed = {}

InTerminalState == externalError \/ state \in {"Error", "Closed"}

(* Mutant: the loop condition forgets externalError_.                      *)
MayRunMutant == ~actionGuard /\ state \notin {"Error", "Closed"} /\ ~paused

MayRun == ~actionGuard /\ ~InTerminalState /\ ~paused

(***************************************************************************)
(* A call of processPendingEvents: it returns at once when the loop is     *)
(* already on the stack, and when the loop condition does not hold.        *)
(***************************************************************************)
ProcessPendingEvents ==
  inProcessPendingEvents' = (inProcessPendingEvents \/ MayRun')

UserTurn == draining \/ mode = "visiting" \/ ~inProcessPendingEvents

-----------------------------------------------------------------------------
(* Calls of the application and of the transport.                          *)

(* Mutant: push_front instead of push_back.                                *)
SubmitMutant(e) ==
  /\ UserTurn
  /\ Len(submitted) < MaxSubmitted
  /\ pendingEvents' = <<e>> \o pendingEvents
  /\ submitted' = Append(submitted, e)
  /\ UNCHANGED <<handled, dropped, failed, mode, actions, draining,
                 actionGuard, flagVars>>
  /\ ProcessPendingEvents

Submit(e) ==
  /\ UserTurn
  /\ Len(submitted) < MaxSubmitted
  /\ pendingEvents' = Append(pendingEvents, e)
  /\ submitted' = Append(submitted, e)
  /\ UNCHANGED <<handled, dropped, failed, mode, actions, draining,
                 actionGuard, flagVars>>
  /\ ProcessPendingEvents

AppWrite(t) == Submit([type |-> "AppWrite", token |-> t])
EarlyAppWrite(t) == Submit([type |-> "EarlyAppWrite", token |-> t])
AppClose == Submit([type |-> "AppClose", token |-> NoToken])
AppCloseImmediate == Submit([type |-> "AppCloseImmediate", token |-> NoToken])
WriteNewSessionTicket ==
  /\ Role = "server"
  /\ Submit([type |-> "WriteNewSessionTicket", token |-> NoToken])
InitiateKeyUpdate == Submit([type |-> "KeyUpdateInitiation", token |-> NoToken])

(***************************************************************************)
(* addProcessingActions, for actions that are complete: throws when the    *)
(* guard is held (the callers below exclude that), else holds it and       *)
(* visits.  It does not look at inTerminalState or paused_.                *)
(***************************************************************************)
AddProcessingActions(as) ==
  /\ ~actionGuard
  /\ actionGuard' = TRUE
  /\ mode' = "visiting"
  /\ actions' = as
  /\ UNCHANGED <<draining, inProcessPendingEvents>>

(* FizzServer::accept and FizzClient::connect, outside a write callback.    *)
Start ==
  /\ UserTurn
  /\ ~draining
  /\ state = "Uninitialized"
  /\ checkV2Hello' \in IF Role = "server" THEN BOOLEAN ELSE {FALSE}
  /\ AddProcessingActions(<<"Open">>)
  /\ UNCHANGED <<queueVars, waitForData, externalError, paused, state, unread>>

(***************************************************************************)
(* The transport appends data and calls newTransportData.  The first data  *)
(* a server sees may look like an SSLv2 ClientHello; the check is skipped  *)
(* for good if the guard is held at that moment.                           *)
(***************************************************************************)
V2Fallback ==
  /\ UserTurn
  /\ ~draining
  /\ checkV2Hello
  /\ AddProcessingActions(Fallback)
  /\ UNCHANGED <<queueVars, flagVars>>

NewTransportData ==
  /\ UserTurn
  /\ unread < MaxUnread
  /\ unread' = unread + 1
  /\ checkV2Hello' = FALSE
  /\ waitForData' = FALSE
  /\ UNCHANGED <<queueVars, mode, actions, draining, actionGuard,
                 externalError, paused, state>>
  /\ ProcessPendingEvents

Pause ==
  /\ UserTurn
  /\ paused' = TRUE
  /\ UNCHANGED <<queueVars, stackVars, waitForData, externalError, state,
                 checkV2Hello, unread>>

(* Mutant: resume() does not process what queued up meanwhile.             *)
ResumeMutant ==
  /\ UserTurn
  /\ paused' = FALSE
  /\ UNCHANGED <<queueVars, stackVars, waitForData, externalError, state,
                 checkV2Hello, unread>>

Resume ==
  /\ UserTurn
  /\ paused' = FALSE
  /\ UNCHANGED <<queueVars, mode, actions, draining, actionGuard,
                 waitForData, externalError, state, checkV2Hello, unread>>
  /\ ProcessPendingEvents

(* Mutant: the flag is set and the pending events are left where they are. *)
EnterErrorStateMutant ==
  /\ ~externalError
  /\ externalError' = TRUE
  /\ UNCHANGED draining

(* moveToErrorState up to its loop; a second call returns at once.         *)
EnterErrorState ==
  /\ ~externalError
  /\ externalError' = TRUE
  /\ draining' = TRUE

MoveToErrorState ==
  /\ UserTurn
  /\ EnterErrorState
  /\ UNCHANGED <<queueVars, mode, actions, inProcessPendingEvents,
                 actionGuard, waitForData, paused, state, checkV2Hello,
                 unread>>

-----------------------------------------------------------------------------
(* Steps of the code itself.                                               *)

(* Mutant: early writes are dropped silently.                              *)
DrainOneMutant ==
  /\ draining
  /\ pendingEvents # <<>>
  /\ pendingEvents' = Tail(pendingEvents)
  /\ dropped' = dropped + 1
  /\ LET e == Head(pendingEvents) IN
       failed' = IF e.type = "AppWrite" THEN failed \cup ({e.token} \ {NoToken})
                                        ELSE failed
  /\ UNCHANGED <<submitted, handled, stackVars, flagVars>>

(* One turn of the loop of moveToErrorState.                               *)
DrainOne ==
  /\ draining
  /\ pendingEvents # <<>>
  /\ pendingEvents' = Tail(pendingEvents)
  /\ dropped' = dropped + 1
  /\ failed' = failed \cup ({Head(pendingEvents).token} \ {NoToken})
  /\ UNCHANGED <<submitted, handled, stackVars, flagVars>>

DrainDone ==
  /\ draining
  /\ pendingEvents = <<>>
  /\ draining' = FALSE
  /\ UNCHANGED <<queueVars, mode, actions, inProcessPendingEvents,
                 actionGuard, flagVars>>

(* Mutant: the guard is not held while a future is outstanding.            *)
StartActionsMutant(as) ==
  /\ actions' = as
  /\ \/ /\ mode' = "visiting"
        /\ actionGuard' = TRUE
        /\ UNCHANGED inProcessPendingEvents
     \/ /\ Role = "server"
        /\ mode' = "async"
        /\ actionGuard' = FALSE
        /\ UNCHANGED inProcessPendingEvents
  /\ UNCHANGED draining

(***************************************************************************)
(* startActions, called from the loop with the guard just taken.  Inline:  *)
(* the visit begins, above the loop.  A future that is not ready: the loop *)
(* condition fails on the guard, so the loop returns.  A future that holds *)
(* an exception: nothing ever resets the guard.                            *)
(***************************************************************************)
StartActions(as) ==
  /\ actionGuard' = TRUE
  /\ actions' = as
  /\ \/ mode' = "visiting" /\ UNCHANGED inProcessPendingEvents
     \/ /\ Role = "server"
        /\ mode' = "async"
        /\ inProcessPendingEvents' = FALSE
     \/ /\ Role = "server" /\ FutureMayFail
        /\ mode' = "lost"
        /\ inProcessPendingEvents' = FALSE
  /\ UNCHANGED draining

LoopTurn == inProcessPendingEvents /\ MayRun /\ ~draining

ProcessSocketData ==
  /\ LoopTurn
  /\ ~waitForData
  /\ \/ unread = 0 /\ StartActions(NeedData) /\ UNCHANGED unread
     \/ /\ unread > 0
        /\ unread' = unread - 1
        /\ \E as \in RecordOutcomes(state) : StartActions(as)
  /\ UNCHANGED <<queueVars, waitForData, externalError, paused, state,
                 checkV2Hello>>

ProcessEvent ==
  /\ LoopTurn
  /\ waitForData
  /\ pendingEvents # <<>>
  /\ pendingEvents' = Tail(pendingEvents)
  /\ handled' = handled + 1
  /\ \E as \in EventOutcomes(state) : StartActions(as)
  /\ UNCHANGED <<submitted, dropped, failed, flagVars>>

LoopReturns ==
  /\ LoopTurn
  /\ waitForData
  /\ pendingEvents = <<>>
  /\ inProcessPendingEvents' = FALSE
  /\ UNCHANGED <<queueVars, mode, actions, draining, actionGuard, flagVars>>

(* The executor runs processActions for a future that completed.           *)
AsyncCompletes ==
  /\ mode = "async"
  /\ ~draining
  /\ mode' = "visiting"
  /\ UNCHANGED <<queueVars, actions, draining, inProcessPendingEvents,
                 actionGuard, flagVars>>

(***************************************************************************)
(* visitActions: the visitor of AsyncFizzServer/AsyncFizzClient applies    *)
(* the actions in order.  ReportError ends in moveToErrorState.            *)
(***************************************************************************)
VisitAction ==
  /\ mode = "visiting"
  /\ ~draining
  /\ actions # <<>>
  /\ actions' = Tail(actions)
  /\ LET a == Head(actions) IN
       /\ state' = IF a \in {"Open", "Error", "Closed"} THEN a ELSE state
       /\ waitForData' = (waitForData \/ a = "WaitForData")
       /\ IF a = "ReportError" /\ ~externalError
          THEN EnterErrorState
          ELSE UNCHANGED <<externalError, draining>>
  /\ UNCHANGED <<queueVars, mode, inProcessPendingEvents, actionGuard,
                 paused, checkV2Hello, unread>>

(* Mutant: a completed future resets the guard and does not run the loop.  *)
FinishActionsMutant ==
  /\ mode = "visiting"
  /\ ~draining
  /\ actions = <<>>
  /\ mode' = "idle"
  /\ actionGuard' = FALSE
  /\ UNCHANGED <<queueVars, actions, draining, flagVars>>
  /\ inProcessPendingEvents' = (inProcessPendingEvents /\ MayRun')

(* The end of processActions: the guard goes, and the loop runs again.     *)
FinishActions ==
  /\ mode = "visiting"
  /\ ~draining
  /\ actions = <<>>
  /\ mode' = "idle"
  /\ actionGuard' = FALSE
  /\ UNCHANGED <<queueVars, actions, draining, flagVars>>
  /\ inProcessPendingEvents' = MayRun'

-----------------------------------------------------------------------------
UserNext ==
  \/ \E t \in Token \cup {NoToken} : AppWrite(t) \/ EarlyAppWrite(t)
  \/ AppClose
  \/ AppCloseImmediate
  \/ WriteNewSessionTicket
  \/ InitiateKeyUpdate
  \/ Start
  \/ V2Fallback
  \/ NewTransportData
  \/ Pause
  \/ Resume
  \/ MoveToErrorState

SystemNext ==
  \/ DrainOne
  \/ DrainDone
  \/ ProcessSocketData
  \/ ProcessEvent
  \/ LoopReturns
  \/ AsyncCompletes
  \/ VisitAction
  \/ FinishActions

Next == UserNext \/ SystemNext

Spec == Init /\ [][Next]_vars

(***************************************************************************)
(* The thread keeps running the code that is on its stack, and the         *)
(* executor eventually runs the continuation of a completed future.        *)
(***************************************************************************)
Fairness == WF_vars(SystemNext)

LiveSpec == Spec /\ Fairness

-----------------------------------------------------------------------------
(* Properties.                                                             *)

(* The variables of the loop keep their types; in particular only real     *)
(* callbacks, never a null one, are called by moveToErrorState.            *)
TypeOK ==
  /\ pendingEvents \in Seq(Event)
  /\ waitForData \in BOOLEAN
  /\ actionGuard \in BOOLEAN
  /\ inProcessPendingEvents \in BOOLEAN
  /\ externalError \in BOOLEAN
  /\ paused \in BOOLEAN
  /\ state \in {"Uninitialized", "Open", "Error", "Closed"}
  /\ checkV2Hello \in BOOLEAN
  /\ unread \in Nat
  /\ mode \in {"idle", "visiting", "async", "lost"}
  /\ actions \in Seq(ActionType)
  /\ draining \in BOOLEAN
  /\ submitted \in Seq(Event)
  /\ handled \in Nat
  /\ dropped \in Nat
  /\ failed \subseteq Token

(***************************************************************************)
(* Events are neither lost, nor duplicated, nor reordered: the queue is    *)
(* what is left of the submissions once the events given to the machine    *)
(* and then those removed by moveToErrorState are taken off the front.     *)
(***************************************************************************)
QueueIsSuffix ==
  /\ handled + dropped + Len(pendingEvents) = Len(submitted)
  /\ \A i \in 1 .. Len(pendingEvents) :
       pendingEvents[i] = submitted[handled + dropped + i]

(***************************************************************************)
(* The callback of a write is told of the failure exactly when the write   *)
(* was taken off the queue by moveToErrorState: a write that reached the   *)
(* machine is never reported as failed by the loop, and one that was       *)
(* removed never goes unreported.                                          *)
(***************************************************************************)
FailedAreDropped ==
  failed = {submitted[i].token : i \in handled + 1 .. handled + dropped}
             \ {NoToken}

(***************************************************************************)
(* No lost wake-up: when the stack has unwound and nothing holds the       *)
(* guard, then, unless the connection is terminal or paused, every event   *)
(* has been handled and all transport data consumed.  Every reentrant call *)
(* that found the loop busy has been made up for.                          *)
(***************************************************************************)
NoLostWakeup ==
  (~inProcessPendingEvents /\ mode = "idle" /\ ~InTerminalState /\ ~paused)
    => pendingEvents = <<>> /\ waitForData

(***************************************************************************)
(* A terminal state is for ever, whatever an action that was in flight     *)
(* when it was entered still does, and the machine is given no event in    *)
(* it.  This is why externalError_ is a flag of its own (FizzBase-inl.h,   *)
(* moveToErrorState).                                                      *)
(***************************************************************************)
TerminalIsAbsorbing ==
  [][InTerminalState => InTerminalState' /\ handled' = handled]_vars

(***************************************************************************)
(* One event at a time: the machine is given an event or a record only     *)
(* when the actions of the previous one have all been visited.             *)
(***************************************************************************)
OneEventInFlight ==
  [][handled' # handled \/ unread' < unread
       => mode = "idle" /\ actions = <<>> /\ ~draining]_vars

Settled(i) == handled + dropped >= i

(***************************************************************************)
(* An event that was submitted is eventually given to the machine or       *)
(* removed, unless the application pauses the loop, the connection ends or *)
(* the machine's future fails, which leaves the guard held for good.       *)
(* The premise is needed: the loop prefers socket data to pending events,  *)
(* and data that keeps arriving while a server waits for futures keeps the *)
(* events waiting.                                                         *)
(***************************************************************************)
EventsSettle ==
  <>[](unread = 0) =>
    \A i \in 1 .. MaxSubmitted :
      Len(submitted) >= i ~> (Settled(i) \/ paused \/ InTerminalState \/ mode = "lost")

(***************************************************************************)
(* When the machine reports an error, or the transport does, everything    *)
(* that was queued at that time is eventually removed, so that its writers *)
(* hear of it (FailedAreDropped).                                          *)
(***************************************************************************)
ErrorReachesWriters ==
  \A i \in 1 .. MaxSubmitted :
    (/\ Len(submitted) >= i
     /\ draining \/ (mode = "visiting" /\ "ReportError" \in {actions[k] : k \in DOMAIN actions}
                      /\ ~externalError))
      ~> Settled(i)
=============================================================================
