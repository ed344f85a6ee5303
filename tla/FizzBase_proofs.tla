-------------------------- MODULE FizzBase_proofs --------------------------
(***************************************************************************)
(* The safety properties of the event loop, for every set of tokens, both  *)
(* roles and every bound, and of the kernel socket that takes a connection *)
(* over from it, for every number of writes and records.                   *)
(***************************************************************************)
EXTENDS FizzBase, KTLS, SequenceTheorems, TLAPS

(***************************************************************************)
(* The shape of the stack: the guard is held exactly while an event is in  *)
(* flight; a loop that is on the stack with nothing above it is about to   *)
(* take a turn; a loop that is not on the stack has nothing left to do.    *)
(***************************************************************************)
StackInv ==
  /\ actionGuard <=> mode # "idle"
  /\ draining => externalError
  /\ inProcessPendingEvents /\ mode = "idle" => MayRun
  /\ mode \in {"async", "lost"} => ~inProcessPendingEvents
  /\ mode = "idle" => actions = <<>>
  /\ NoLostWakeup

(* The queue and what became of the events that left it.                   *)
QueueInv ==
  /\ QueueIsSuffix
  /\ dropped > 0 => externalError
  /\ FailedAreDropped

(* Actions still to be visited never reopen a connection that is over.     *)
ActionsInv ==
  \A k \in 1 .. Len(actions) :
    actions[k] = "Open" => k = 1 /\ state \notin {"Error", "Closed"}

(* The inductive invariant.                                                *)
Inv == TypeOK /\ StackInv /\ QueueInv /\ ActionsInv

-----------------------------------------------------------------------------
(* The action lists of the model are sequences of actions, and only the    *)
(* first action of a list moves the state to "Open".                       *)
LEMMA ListsTyped ==
  ASSUME NEW as \in {Progress, NeedData, Failure, Closing, Fallback, <<"Open">>}
  PROVE  /\ as \in Seq(ActionType)
         /\ \A k \in 1 .. Len(as) : as[k] = "Open" => k = 1
<1> USE DEF ActionType
<1>1. CASE as = Progress
  BY <1>1 DEF Progress
<1>2. CASE as = NeedData
  BY <1>2 DEF NeedData
<1>3. CASE as = Failure
  BY <1>3 DEF Failure
<1>4. CASE as = Closing
  BY <1>4 DEF Closing
<1>5. CASE as = Fallback
  BY <1>5 DEF Fallback
<1>6. CASE as = <<"Open">>
  BY <1>6
<1> QED
  BY <1>1, <1>2, <1>3, <1>4, <1>5, <1>6

LEMMA EventTyped ==
  /\ \A t \in Token \cup {NoToken} :
       /\ [type |-> "AppWrite", token |-> t] \in Event
       /\ [type |-> "EarlyAppWrite", token |-> t] \in Event
  /\ [type |-> "AppClose", token |-> NoToken] \in Event
  /\ [type |-> "AppCloseImmediate", token |-> NoToken] \in Event
  /\ [type |-> "WriteNewSessionTicket", token |-> NoToken] \in Event
  /\ [type |-> "KeyUpdateInitiation", token |-> NoToken] \in Event
BY DEF Event, WriteTypes, OtherTypes

LEMMA EventToken == \A e \in Event : e.token \in Token \cup {NoToken}
BY DEF Event, WriteTypes, OtherTypes

LEMMA InitInv == Init => Inv
<1> SUFFICES ASSUME Init PROVE Inv
  OBVIOUS
<1>1. TypeOK
  <2>1. pendingEvents \in Seq(Event) /\ submitted \in Seq(Event)
    BY DEF Init
  <2>2. actions \in Seq(ActionType)
    BY DEF Init
  <2> QED
    BY <2>1, <2>2 DEF Init, TypeOK
<1>2. StackInv
  BY DEF Init, StackInv, NoLostWakeup, MayRun, InTerminalState
<1>3. QueueInv
  BY DEF Init, QueueInv, QueueIsSuffix, FailedAreDropped
<1>4. ActionsInv
  BY DEF Init, ActionsInv
<1> QED
  BY <1>1, <1>2, <1>3, <1>4 DEF Inv

-----------------------------------------------------------------------------
(* The queue: pushing, popping towards the machine, popping towards cb.    *)

LEMMA PushQueue ==
  ASSUME Inv, NEW e \in Event, Submit(e)
  PROVE  Inv'
<1> USE DEF Inv, Submit, flagVars
<1>1. TypeOK'
  BY DEF TypeOK, ProcessPendingEvents, MayRun, InTerminalState
<1>2. StackInv'
  BY DEF StackInv, TypeOK, ProcessPendingEvents, MayRun, InTerminalState,
         NoLostWakeup, UserTurn
<1>3. QueueInv'
  <2>1. QueueIsSuffix'
    <3>1. /\ Len(pendingEvents) \in Nat /\ Len(submitted) \in Nat
          /\ Len(pendingEvents') = Len(pendingEvents) + 1
          /\ Len(submitted') = Len(submitted) + 1
          /\ \A i \in 1 .. Len(pendingEvents) : pendingEvents'[i] = pendingEvents[i]
          /\ \A i \in 1 .. Len(submitted) : submitted'[i] = submitted[i]
          /\ pendingEvents'[Len(pendingEvents) + 1] = e
          /\ submitted'[Len(submitted) + 1] = e
      BY DEF TypeOK
    <3>2. handled \in Nat /\ dropped \in Nat /\ UNCHANGED <<handled, dropped>>
      BY DEF TypeOK
    <3>3. handled + dropped + Len(pendingEvents) = Len(submitted)
      BY DEF QueueInv, QueueIsSuffix
    <3>4. ASSUME NEW i \in 1 .. Len(pendingEvents')
          PROVE  pendingEvents'[i] = submitted'[handled + dropped + i]
      <4> HIDE DEF Submit, Inv
      <4>1. CASE i = Len(pendingEvents) + 1
        <5>1. handled + dropped + i = Len(submitted) + 1
          BY <3>1, <3>2, <3>3, <4>1
        <5> QED
          BY <3>1, <4>1, <5>1
      <4>2. CASE i \in 1 .. Len(pendingEvents)
        <5>1. handled + dropped + i \in 1 .. Len(submitted)
          BY <3>1, <3>2, <3>3, <4>2, SMTT(30)
        <5>2. pendingEvents[i] = submitted[handled + dropped + i]
          BY <4>2 DEF Inv, QueueInv, QueueIsSuffix
        <5> QED
          BY <3>1, <4>2, <5>1, <5>2
      <4>3. i = Len(pendingEvents) + 1 \/ i \in 1 .. Len(pendingEvents)
        BY <3>1
      <4> QED
        BY <4>1, <4>2, <4>3
    <3>5. handled' + dropped' + Len(pendingEvents') = Len(submitted')
      BY <3>1, <3>2, <3>3
    <3> HIDE DEF Submit
    <3> QED
      BY <3>2, <3>4, <3>5 DEF QueueIsSuffix
  <2>2. FailedAreDropped'
    <3>1. \A i \in handled + 1 .. handled + dropped :
            submitted'[i] = submitted[i]
      BY DEF QueueInv, QueueIsSuffix, TypeOK
    <3> QED
      BY <3>1 DEF QueueInv, FailedAreDropped, TypeOK
  <2> QED
    BY <2>1, <2>2 DEF QueueInv
<1>4. ActionsInv'
  BY DEF ActionsInv
<1> QED
  BY <1>1, <1>2, <1>3, <1>4 DEF Inv

LEMMA StartedActions ==
  ASSUME Inv, ProcessSocketData \/ ProcessEvent
  PROVE  /\ StackInv' /\ ActionsInv'
         /\ actions' \in Seq(ActionType)
         /\ mode' \in {"visiting", "async", "lost"}
         /\ actionGuard' = TRUE
         /\ inProcessPendingEvents' \in BOOLEAN
         /\ draining' = draining
<1>1. PICK as \in {Progress, NeedData, Failure, Closing, Fallback, <<"Open">>} :
        StartActions(as)
  BY DEF ProcessSocketData, ProcessEvent, EventOutcomes, RecordOutcomes
<1>2. /\ actions' = as
      /\ UNCHANGED <<draining, externalError, state>>
      /\ state \notin {"Error", "Closed"}
  BY <1>1 DEF StartActions, ProcessSocketData, ProcessEvent, flagVars,
              LoopTurn, MayRun, InTerminalState
<1>3. /\ as \in Seq(ActionType)
      /\ \A k \in 1 .. Len(as) : as[k] = "Open" => k = 1
  BY ListsTyped
<1>4. /\ mode' \in {"visiting", "async", "lost"}
      /\ actionGuard' = TRUE
      /\ inProcessPendingEvents' \in BOOLEAN
      /\ mode' \in {"async", "lost"} => ~inProcessPendingEvents'
  BY <1>1 DEF StartActions, Inv, TypeOK
<1>5. StackInv'
  BY <1>2, <1>4 DEF StackInv, NoLostWakeup, Inv
<1>6. ActionsInv'
  BY <1>2, <1>3 DEF ActionsInv
<1> QED
  BY <1>2, <1>3, <1>4, <1>5, <1>6

LEMMA NextInv == Inv /\ [Next]_vars => Inv'
<1> SUFFICES ASSUME Inv, [Next]_vars PROVE Inv'
  OBVIOUS
<1> USE DEF Inv
<1>1. ASSUME NEW t \in Token \cup {NoToken}, AppWrite(t) \/ EarlyAppWrite(t)
      PROVE  Inv'
  BY <1>1, EventTyped, PushQueue DEF AppWrite, EarlyAppWrite
<1>2. CASE AppClose
  BY <1>2, EventTyped, PushQueue DEF AppClose
<1>3. CASE AppCloseImmediate
  BY <1>3, EventTyped, PushQueue DEF AppCloseImmediate
<1>4. CASE WriteNewSessionTicket
  BY <1>4, EventTyped, PushQueue DEF WriteNewSessionTicket
<1>5. CASE InitiateKeyUpdate
  BY <1>5, EventTyped, PushQueue DEF InitiateKeyUpdate
<1>6. CASE Start
  <2> USE <1>6 DEF Start, AddProcessingActions, queueVars
  <2>1. TypeOK'
    BY ListsTyped DEF TypeOK
  <2>2. StackInv'
    BY DEF StackInv, TypeOK, NoLostWakeup, UserTurn
  <2>3. QueueInv'
    BY DEF QueueInv, QueueIsSuffix, FailedAreDropped
  <2>4. ActionsInv'
    BY ListsTyped DEF ActionsInv
  <2> QED
    BY <2>1, <2>2, <2>3, <2>4
<1>7. CASE V2Fallback
  <2> USE <1>7 DEF V2Fallback, AddProcessingActions, queueVars, flagVars
  <2>1. TypeOK'
    BY ListsTyped DEF TypeOK
  <2>2. StackInv'
    BY DEF StackInv, TypeOK, NoLostWakeup, UserTurn
  <2>3. QueueInv'
    BY DEF QueueInv, QueueIsSuffix, FailedAreDropped
  <2>4. ActionsInv'
    <3>1. \A k \in 1 .. Len(Fallback) : Fallback[k] # "Open"
      BY DEF Fallback
    <3> QED
      BY <3>1 DEF ActionsInv
  <2> QED
    BY <2>1, <2>2, <2>3, <2>4
<1>8. CASE NewTransportData
  <2> USE <1>8 DEF NewTransportData, queueVars
  <2>1. TypeOK'
    <3>1. unread' \in Nat
      BY DEF TypeOK
    <3>2. inProcessPendingEvents' \in BOOLEAN
      BY DEF ProcessPendingEvents
    <3> QED
      BY <3>1, <3>2 DEF TypeOK
  <2>2. StackInv'
    BY DEF StackInv, TypeOK, NoLostWakeup, UserTurn, ProcessPendingEvents,
           MayRun, InTerminalState
  <2>3. QueueInv' /\ ActionsInv'
    BY DEF QueueInv, QueueIsSuffix, FailedAreDropped, ActionsInv
  <2> QED
    BY <2>1, <2>2, <2>3
<1>9. CASE Pause
  <2> USE <1>9 DEF Pause, queueVars, stackVars
  <2>1. TypeOK'
    BY DEF TypeOK
  <2>2. StackInv'
    BY DEF StackInv, TypeOK, NoLostWakeup, UserTurn, MayRun, InTerminalState
  <2>3. QueueInv' /\ ActionsInv'
    BY DEF QueueInv, QueueIsSuffix, FailedAreDropped, ActionsInv
  <2> QED
    BY <2>1, <2>2, <2>3
<1>10. CASE Resume
  <2> USE <1>10 DEF Resume, queueVars
  <2>1. TypeOK'
    BY DEF TypeOK, ProcessPendingEvents, MayRun, InTerminalState
  <2>2. StackInv'
    BY DEF StackInv, TypeOK, NoLostWakeup, UserTurn, ProcessPendingEvents,
           MayRun, InTerminalState
  <2>3. QueueInv' /\ ActionsInv'
    BY DEF QueueInv, QueueIsSuffix, FailedAreDropped, ActionsInv
  <2> QED
    BY <2>1, <2>2, <2>3
<1>11. CASE MoveToErrorState
  <2> USE <1>11 DEF MoveToErrorState, EnterErrorState, queueVars
  <2>1. TypeOK'
    BY DEF TypeOK
  <2>2. StackInv'
    BY DEF StackInv, TypeOK, NoLostWakeup, UserTurn, MayRun, InTerminalState
  <2>3. QueueInv' /\ ActionsInv'
    BY DEF QueueInv, QueueIsSuffix, FailedAreDropped, ActionsInv
  <2> QED
    BY <2>1, <2>2, <2>3
<1>12. CASE DrainOne
  <2> USE <1>12 DEF DrainOne, stackVars, flagVars
  <2>1. Head(pendingEvents) \in Event /\ Tail(pendingEvents) \in Seq(Event)
    BY DEF TypeOK
  <2>2. TypeOK'
    BY <2>1, EventToken DEF TypeOK
  <2>3. StackInv'
    BY <2>1 DEF StackInv, TypeOK, NoLostWakeup, MayRun, InTerminalState
  <2>4. QueueIsSuffix'
    BY <2>1 DEF QueueInv, QueueIsSuffix, TypeOK
  <2>5. FailedAreDropped'
    <3>1. Head(pendingEvents) = submitted[handled + dropped + 1]
      BY DEF QueueInv, QueueIsSuffix, TypeOK
    <3>2. handled + 1 .. handled + dropped' =
            (handled + 1 .. handled + dropped) \cup {handled + dropped + 1}
      <4>1. handled \in Nat /\ dropped \in Nat /\ dropped' = dropped + 1
        BY DEF TypeOK
      <4> HIDE DEF DrainOne, Inv
      <4> QED
        BY <4>1
    <3>3. failed' = {submitted[i].token :
                       i \in (handled + 1 .. handled + dropped)
                                \cup {handled + dropped + 1}} \ {NoToken}
      BY <3>1 DEF QueueInv, FailedAreDropped
    <3>4. submitted' = submitted /\ handled' = handled
      OBVIOUS
    <3> QED
      BY <3>2, <3>3, <3>4 DEF FailedAreDropped
  <2>6. QueueInv' /\ ActionsInv'
    BY <2>4, <2>5 DEF QueueInv, ActionsInv, StackInv
  <2> QED
    BY <2>2, <2>3, <2>6
<1>13. CASE DrainDone
  <2> USE <1>13 DEF DrainDone, queueVars, flagVars
  <2>1. TypeOK'
    BY DEF TypeOK
  <2>2. StackInv'
    BY DEF StackInv, TypeOK, NoLostWakeup, MayRun, InTerminalState
  <2>3. QueueInv' /\ ActionsInv'
    BY DEF QueueInv, QueueIsSuffix, FailedAreDropped, ActionsInv
  <2> QED
    BY <2>1, <2>2, <2>3
<1>14. CASE ProcessSocketData
  <2>1. TypeOK'
    <3>1. unread' \in Nat
      BY <1>14 DEF TypeOK, ProcessSocketData
    <3>2. mode' \in {"idle", "visiting", "async", "lost"}
      BY <1>14, StartedActions
    <3>3. UNCHANGED <<queueVars, waitForData, externalError, paused, state,
                      checkV2Hello>>
      BY <1>14 DEF ProcessSocketData
    <3> QED
      BY <3>1, <3>2, <3>3, <1>14, StartedActions DEF TypeOK, queueVars
  <2>2. QueueInv'
    BY <1>14 DEF QueueInv, QueueIsSuffix, FailedAreDropped,
                 ProcessSocketData, queueVars
  <2> QED
    BY <2>1, <2>2, <1>14, StartedActions
<1>15. CASE ProcessEvent
  <2> USE <1>15 DEF ProcessEvent, flagVars
  <2>1. Tail(pendingEvents) \in Seq(Event)
    BY DEF TypeOK
  <2>2. TypeOK'
    <3>1. UNCHANGED <<submitted, dropped, failed, waitForData, externalError,
                      paused, state, checkV2Hello, unread, draining>>
      BY StartedActions
    <3>2. mode' \in {"idle", "visiting", "async", "lost"}
      BY StartedActions
    <3>3. pendingEvents' \in Seq(Event) /\ handled' \in Nat
      BY <2>1 DEF TypeOK
    <3>4. actions' \in Seq(ActionType) /\ actionGuard' \in BOOLEAN
            /\ inProcessPendingEvents' \in BOOLEAN
      BY StartedActions
    <3> HIDE DEF ProcessEvent
    <3> QED
      BY <3>1, <3>2, <3>3, <3>4 DEF TypeOK
  <2>3. QueueIsSuffix'
    BY <2>1 DEF QueueInv, QueueIsSuffix, TypeOK
  <2>4. dropped = 0 /\ dropped' = 0
    BY DEF QueueInv, LoopTurn, MayRun, InTerminalState, TypeOK
  <2>5. FailedAreDropped'
    <3>1. handled + 1 .. handled + 0 = {} /\ handled' + 1 .. handled' + 0 = {}
      BY DEF TypeOK
    <3> QED
      BY <2>4, <3>1 DEF QueueInv, FailedAreDropped
  <2>6. QueueInv'
    BY <2>3, <2>4, <2>5 DEF QueueInv
  <2> QED
    BY <2>2, <2>6, StartedActions
<1>16. CASE LoopReturns
  <2> USE <1>16 DEF LoopReturns, queueVars, flagVars
  <2>1. TypeOK'
    BY DEF TypeOK
  <2>2. StackInv'
    BY DEF StackInv, TypeOK, NoLostWakeup, MayRun, InTerminalState
  <2>3. QueueInv' /\ ActionsInv'
    BY DEF QueueInv, QueueIsSuffix, FailedAreDropped, ActionsInv
  <2> QED
    BY <2>1, <2>2, <2>3
<1>17. CASE AsyncCompletes
  <2> USE <1>17 DEF AsyncCompletes, queueVars, flagVars
  <2>1. TypeOK'
    BY DEF TypeOK
  <2>2. StackInv'
    BY DEF StackInv, TypeOK, NoLostWakeup, MayRun, InTerminalState
  <2>3. QueueInv' /\ ActionsInv'
    BY DEF QueueInv, QueueIsSuffix, FailedAreDropped, ActionsInv
  <2> QED
    BY <2>1, <2>2, <2>3
<1>18. CASE VisitAction
  <2> USE <1>18 DEF VisitAction, EnterErrorState, queueVars
  <2>1. /\ Head(actions) \in ActionType /\ Head(actions) = actions[1]
        /\ Tail(actions) \in Seq(ActionType)
        /\ Len(Tail(actions)) = Len(actions) - 1
        /\ \A k \in 1 .. Len(Tail(actions)) : Tail(actions)[k] = actions[k + 1]
    BY DEF TypeOK
  <2>2. TypeOK'
    BY <2>1 DEF TypeOK, ActionType
  <2>3. StackInv'
    BY DEF StackInv, TypeOK, NoLostWakeup, MayRun, InTerminalState
  <2>4. QueueInv'
    BY DEF QueueInv, QueueIsSuffix, FailedAreDropped
  <2>5. ActionsInv'
    <3>1. Len(actions) \in Nat /\ Len(actions) >= 1
      BY DEF TypeOK
    <3>2. \A k \in 1 .. Len(actions') : actions'[k] # "Open"
      BY <2>1, <3>1 DEF ActionsInv
    <3> QED
      BY <3>2 DEF ActionsInv
  <2> QED
    BY <2>2, <2>3, <2>4, <2>5
<1>19. CASE FinishActions
  <2> USE <1>19 DEF FinishActions, queueVars, flagVars
  <2>1. TypeOK'
    BY DEF TypeOK, MayRun, InTerminalState
  <2>2. StackInv'
    BY DEF StackInv, TypeOK, NoLostWakeup, MayRun, InTerminalState
  <2>3. QueueInv' /\ ActionsInv'
    BY DEF QueueInv, QueueIsSuffix, FailedAreDropped, ActionsInv
  <2> QED
    BY <2>1, <2>2, <2>3
<1>20. CASE UNCHANGED vars
  BY <1>20 DEF vars, TypeOK, StackInv, QueueInv, ActionsInv, NoLostWakeup,
               QueueIsSuffix, FailedAreDropped, MayRun, InTerminalState
<1> QED
  BY <1>1, <1>2, <1>3, <1>4, <1>5, <1>6, <1>7, <1>8, <1>9, <1>10, <1>11,
     <1>12, <1>13, <1>14, <1>15, <1>16, <1>17, <1>18, <1>19, <1>20
     DEF Next, UserNext, SystemNext

-----------------------------------------------------------------------------
THEOREM Invariance == Spec => []Inv
  BY InitInv, NextInv, PTL DEF Spec

(***************************************************************************)
(* The queue of FizzBase holds exactly the submitted events that were      *)
(* neither handled nor removed, in order.                                  *)
(***************************************************************************)
THEOREM QueueExact == Spec => []QueueIsSuffix
<1>1. Inv => QueueIsSuffix
  BY DEF Inv, QueueInv
<1> QED
  BY <1>1, Invariance, PTL

(***************************************************************************)
(* moveToErrorState calls back for exactly the writes it removes.          *)
(***************************************************************************)
THEOREM FailuresExact == Spec => []FailedAreDropped
<1>1. Inv => FailedAreDropped
  BY DEF Inv, QueueInv
<1> QED
  BY <1>1, Invariance, PTL

(***************************************************************************)
(* The reentrant calls that processPendingEvents turns away are made up    *)
(* for before the stack unwinds.                                           *)
(***************************************************************************)
THEOREM WakeupsKept == Spec => []NoLostWakeup
<1>1. Inv => NoLostWakeup
  BY DEF Inv, StackInv
<1> QED
  BY <1>1, Invariance, PTL

(* The variables of the event loop keep their types.                       *)
THEOREM TypeCorrect == Spec => []TypeOK
<1>1. Inv => TypeOK
  BY DEF Inv
<1> QED
  BY <1>1, Invariance, PTL

(***************************************************************************)
(* inTerminalState, once true, stays true, and no event is handled in it.  *)
(***************************************************************************)
THEOREM TerminalForever == Spec => TerminalIsAbsorbing
<1>1. ASSUME Inv, [Next]_vars, InTerminalState
      PROVE  InTerminalState' /\ handled' = handled
  <2> USE <1>1 DEF InTerminalState, Inv
  <2>1. CASE UNCHANGED <<externalError, state, handled>>
    BY <2>1
  <2>2. CASE MoveToErrorState
    BY <2>2 DEF MoveToErrorState, EnterErrorState, queueVars
  <2>3. CASE VisitAction
    <3>1. handled' = handled /\ (externalError => externalError')
      BY <2>3 DEF VisitAction, EnterErrorState, queueVars
    <3>2. CASE externalError
      BY <3>1, <3>2
    <3>3. CASE state \in {"Error", "Closed"}
      <4>1. Len(actions) \in Nat /\ Len(actions) >= 1 /\ Head(actions) = actions[1]
        BY <2>3 DEF VisitAction, TypeOK
      <4>2. Head(actions) # "Open"
        BY <3>3, <4>1 DEF ActionsInv
      <4> QED
        BY <2>3, <3>1, <3>3, <4>2 DEF VisitAction
    <3> QED
      BY <3>2, <3>3
  <2>4. ASSUME ~(UNCHANGED <<externalError, state, handled>>)
        PROVE  MoveToErrorState \/ VisitAction
    <3>1. ~LoopTurn
      BY DEF LoopTurn, MayRun
    <3> QED
      BY <2>4, <3>1 DEF Next, UserNext, SystemNext, vars, queueVars, flagVars, AppWrite,
         EarlyAppWrite, AppClose, AppCloseImmediate, WriteNewSessionTicket,
         InitiateKeyUpdate, Submit, Start, V2Fallback, NewTransportData,
         Pause, Resume, DrainOne, DrainDone, ProcessSocketData, ProcessEvent,
         LoopReturns, AsyncCompletes, FinishActions
  <2> QED
    BY <2>1, <2>2, <2>3, <2>4
<1>2. Inv /\ [Next]_vars
        => [InTerminalState => InTerminalState' /\ handled' = handled]_vars
  BY <1>1
<1> QED
  BY <1>2, Invariance, PTL DEF Spec, TerminalIsAbsorbing
(***************************************************************************)
(* The state machine is never entered while the actions of its previous    *)
(* answer are still to be visited, be it inline, after a future, or with   *)
(* moveToErrorState calling back on top of them.                           *)
(***************************************************************************)
THEOREM EventsDoNotOverlap == Spec => OneEventInFlight
<1>1. ASSUME Inv, [Next]_vars, handled' # handled \/ unread' < unread
      PROVE  mode = "idle" /\ actions = <<>> /\ ~draining
  <2>1. LoopTurn => mode = "idle" /\ actions = <<>> /\ ~draining
    BY <1>1 DEF LoopTurn, MayRun, Inv, StackInv
  <2>2. CASE UNCHANGED <<handled, unread>>
    BY <1>1, <2>2 DEF Inv, TypeOK
  <2>3. CASE NewTransportData
    BY <1>1, <2>3 DEF NewTransportData, queueVars, Inv, TypeOK
  <2>4. CASE ProcessSocketData
    BY <2>1, <2>4 DEF ProcessSocketData
  <2>5. CASE ProcessEvent
    BY <2>1, <2>5 DEF ProcessEvent
  <2>6. \/ UNCHANGED <<handled, unread>>
        \/ NewTransportData \/ ProcessSocketData \/ ProcessEvent
    BY <1>1 DEF Next, UserNext, SystemNext, vars, queueVars, flagVars, AppWrite,
       EarlyAppWrite, AppClose, AppCloseImmediate, WriteNewSessionTicket,
       InitiateKeyUpdate, Submit, Start, V2Fallback, Pause, Resume,
       MoveToErrorState, DrainOne, DrainDone, LoopReturns, AsyncCompletes,
       VisitAction, FinishActions
  <2> QED
    BY <2>2, <2>3, <2>4, <2>5, <2>6
<1>2. Inv /\ [Next]_vars
        => [handled' # handled \/ unread' < unread
              => mode = "idle" /\ actions = <<>> /\ ~draining]_vars
  BY <1>1
<1> QED
  BY <1>2, Invariance, PTL DEF Spec, OneEventInFlight

-----------------------------------------------------------------------------
(***************************************************************************)
(* Kernel TLS.  Between two steps the socket holds the writes that were    *)
(* made directly and, last, the next piece of the request at the head of   *)
(* the queue.  Within a step the socket may not hold that piece yet: held  *)
(* is one if it does and else zero.                                        *)
(***************************************************************************)
KTLSSpec == KTLSInit /\ [][KTLSNext]_kt

KTLSFields ==
  {"setup", "sock", "asked", "read", "write", "rx", "tx", "sent", "taken", "delivered",
   "reading", "undecryptable", "callback", "unparsed", "cache", "out", "sockq", "queue",
   "writes", "answers", "alive"}

OutCrypto(k, n) == PeerCrypto("out", k.setup.suite, n)
OutRecords(k) ==
  [crypto : [key : {<<"out", k.setup.suite>>}, nonce : {<<"iv[:4]", "iv[4:]">>}, seq : Nat],
   data : Nat \X Nat]

KTLSWriteTypes(k) ==
  /\ DOMAIN k = KTLSFields /\ k.setup \in KTLSSetups /\ k.sock \in {"fizz", "ktls"}
  /\ k.alive \in BOOLEAN
  /\ k.writes \in Seq(KTLSWrites)
  /\ k.answers \in Seq([id : Nat, ok : BOOLEAN])
  /\ k.queue \in Seq([id : Nat, size : Nat, written : Nat])
  /\ k.sockq \in Seq([id : Nat, queued : BOOLEAN, records : Seq(OutRecords(k))])
  /\ k.out \in Seq(OutRecords(k))

(* The number of the next record; the number that the i-th write in the    *)
(* socket starts at.                                                       *)
NextNumber(k) == IF k.setup.kind = "both" THEN k.tx.seq ELSE k.write.sequence
StartOf(k, i) == IF i <= Len(k.sockq) THEN k.sockq[i].records[1].crypto.seq ELSE NextNumber(k)

Layer(k) ==
  /\ k.write = RecordState("out", k.setup.suite, k.write.sequence) /\ k.write.sequence \in Nat
  /\ k.sock = "ktls" /\ k.setup.kind = "both" =>
       k.tx = OutCrypto(k, k.tx.seq) /\ k.tx.seq \in Nat

Numbered(k) ==
  /\ \A i \in 1 .. Len(k.out) : k.out[i].crypto = OutCrypto(k, i - 1)
  /\ k.sock = "ktls" /\ k.alive =>
       /\ StartOf(k, 1) = Len(k.out)
       /\ \A i \in 1 .. Len(k.sockq) :
            /\ Len(k.sockq[i].records) >= 1
            /\ StartOf(k, i + 1) = StartOf(k, i) + Len(k.sockq[i].records)
            /\ \A j \in 1 .. Len(k.sockq[i].records) :
                 k.sockq[i].records[j].crypto = OutCrypto(k, StartOf(k, i) + j - 1)

(* The writes in the socket that are not of the queue.                     *)
Direct(k, held) == Len(k.sockq) - held

Counted(k, held) ==
  /\ Direct(k, held) >= 0
  /\ Len(k.writes) = Len(k.answers) + Direct(k, held) + Len(k.queue)
  /\ \A i \in 1 .. Len(k.answers) : k.answers[i].id = i
  /\ \A i \in 1 .. Direct(k, held) :
       /\ ~k.sockq[i].queued /\ k.sockq[i].id = Len(k.answers) + i
       /\ Len(k.sockq[i].records) = k.writes[Len(k.answers) + i].size
       /\ \A j \in 1 .. Len(k.sockq[i].records) :
            k.sockq[i].records[j].data = <<Len(k.answers) + i, j>>
  /\ \A j \in 1 .. Len(k.queue) :
       /\ k.queue[j].id = Len(k.answers) + Direct(k, held) + j
       /\ k.queue[j].size = k.writes[Len(k.answers) + Direct(k, held) + j].size
       /\ j > 1 => k.queue[j].written = 0

Held(k, held) ==
  /\ k.setup.kind = "both" => k.queue = <<>>
  /\ k.queue # <<>> /\ Direct(k, held) > 0 => k.queue[1].written = held
  /\ held = 0 /\ k.queue # <<>> => k.queue[1].written < k.queue[1].size
  /\ held = 1 =>
       /\ k.alive /\ k.queue # <<>>
       /\ k.queue[1].written \in 1 .. k.queue[1].size
       /\ k.sockq[Len(k.sockq)].queued /\ k.sockq[Len(k.sockq)].id = k.queue[1].id
       /\ Len(k.sockq[Len(k.sockq)].records) = 1
       /\ k.sockq[Len(k.sockq)].records[1].data = <<k.queue[1].id, k.queue[1].written>>

(* The piece that goes out next.                                           *)
PieceNext(k, held) ==
  <<Len(k.answers) + 1,
    IF Direct(k, held) > 0 \/ k.queue = <<>> THEN 1
    ELSE k.queue[1].written + 1 - held>>

InOrder(k, held) ==
  /\ Len(k.out) >= k.setup.wseq
  /\ \A i \in k.setup.wseq + 1 .. Len(k.out) :
       /\ k.out[i].data[1] \in 1 .. Len(k.writes)
       /\ k.out[i].data = IF i = k.setup.wseq + 1 THEN <<1, 1>>
                          ELSE PieceAfter(k.writes, k.out[i - 1].data)
  /\ k.alive => PieceNext(k, held) = IF Len(k.out) = k.setup.wseq THEN <<1, 1>>
                                     ELSE PieceAfter(k.writes, k.out[Len(k.out)].data)
  /\ \A i \in 1 .. Len(k.answers) : k.answers[i].ok =>
       \E j \in 1 .. Len(k.out) : k.out[j].data = <<i, k.writes[i].size>>

WriteInv(k, held) ==
  /\ held \in {0, 1} /\ KTLSWriteTypes(k) /\ Layer(k) /\ Numbered(k)
  /\ Counted(k, held) /\ Held(k, held) /\ InOrder(k, held)
  /\ k.alive
  /\ k.sock = "fizz" => /\ k.write.sequence = k.setup.wseq /\ Len(k.out) = k.setup.wseq
                        /\ k.writes = <<>> /\ k.sockq = <<>> /\ k.queue = <<>>

(* Between two steps.                                                      *)
WritesInv(k) == WriteInv(k, IF k.queue = <<>> THEN 0 ELSE 1)

(***************************************************************************)
(* A dead socket holds the writes that were made directly and, last, the   *)
(* piece of the request at the head of the queue: s is what it holds, q    *)
(* the queue.  The callbacks are called for one after the other, and a     *)
(* write that is made meanwhile is told before them or waits behind them.  *)
(***************************************************************************)
Before(s, q) == Len(s) - IF q = <<>> THEN 0 ELSE 1
Waiting(s, q) == {s[i].id : i \in 1 .. Before(s, q)} \cup {q[j].id : j \in 1 .. Len(q)}

Lined(s, q) ==
  /\ Before(s, q) >= 0
  /\ \A i \in 1 .. Before(s, q) : ~s[i].queued
  /\ q # <<>> => s[Len(s)].queued
  /\ \A i, j \in 1 .. Before(s, q) : i # j => s[i].id # s[j].id
  /\ \A i, j \in 1 .. Len(q) : i # j => q[i].id # q[j].id
  /\ \A i \in 1 .. Before(s, q) : \A j \in 1 .. Len(q) : s[i].id # q[j].id

(* Of the writes up to n, the ones in W still wait for their callback.     *)
Owes(answers, W, n) ==
  /\ W \subseteq 1 .. n
  /\ \A i \in 1 .. Len(answers) : answers[i].id \in (1 .. n) \ W
  /\ \A i, j \in 1 .. Len(answers) : i # j => answers[i].id # answers[j].id
  /\ \A id \in (1 .. n) \ W : \E i \in 1 .. Len(answers) : answers[i].id = id

FailedInv(k) ==
  /\ KTLSWriteTypes(k) /\ Numbered(k) /\ InOrder(k, 0) /\ ~k.alive /\ k.sock = "ktls"
  /\ k.setup.kind = "both" => k.queue = <<>>
  /\ \A i \in 1 .. Len(k.answers) : k.answers[i].ok => k.answers[i].id = i
  /\ Lined(k.sockq, k.queue)
  /\ Owes(k.answers, Waiting(k.sockq, k.queue), Len(k.writes))

SockEntry(k) == [id : Nat, queued : BOOLEAN, records : Seq(OutRecords(k))]
Request == [id : Nat, size : Nat, written : Nat]
Answer == [id : Nat, ok : BOOLEAN]
ErrAnswer(id) == [id |-> id, ok |-> FALSE]


(* The socket lives, or has failed.                                        *)
Writing(k) == WritesInv(k) \/ FailedInv(k)

(* What was read.                                                          *)
Messages(k) ==
  UNION {Range(k.sent[i].body) : i \in {j \in 1 .. k.taken : k.sent[j].type = "handshake"}}

Delivered(k, n) ==
  /\ \A i, j \in 1 .. Len(k.delivered) : i < j => k.delivered[i] < k.delivered[j]
  /\ Range(k.delivered) = {p \in 1 .. n : k.sent[p].type = "data"}

(* Data is known by the place of its record.                               *)
Received(k) ==
  /\ k.sent \in Seq([type : {"data"}, body : Nat] \cup PeerRecords)
  /\ \A i \in 1 .. Len(k.sent) : k.sent[i].type = "data" => k.sent[i].body = i
  /\ k.taken \in 0 .. Len(k.sent) /\ k.delivered \in Seq(Nat)

ReadingOn(k) ==
  /\ Delivered(k, k.taken)
  /\ k.sock = "ktls" => k.rx = PeerCrypto("in", k.setup.suite, k.taken)
  /\ k.unparsed # None =>
       k.taken > 0 /\ k.sent[k.taken].type = "handshake" /\ k.unparsed \in Seq(Messages(k))

(* Reading has ended, at the record that was taken last.                   *)
Stopped(k) ==
  /\ k.taken > 0 /\ Delivered(k, k.taken - 1)
  /\ \/ k.sent[k.taken].type # "data" \/ k.unparsed # None
     \/ k.sock = "fizz" /\ k.rx # None

NotConverted(k) ==
  /\ k.unparsed = None /\ k.cache = None
  /\ ~k.asked => k.rx = None
  /\ k.rx = None => k.read = RecordState("in", k.setup.suite, k.taken)

Cached(k) ==
  \E m \in Messages(k) : /\ m.type = "NewSessionTicket" /\ k.cache.psk = m.ticket
                         /\ k.cache.secret = <<"resumption secret", m.nonce>>

ReadInv(k) ==
  /\ Received(k) /\ ~k.undecryptable
  /\ IF k.reading = "open" THEN ReadingOn(k) ELSE Stopped(k)
  /\ k.sock = "fizz" => NotConverted(k)
  /\ k.cache # None => Cached(k)

KTLSInv == Writing(kt) /\ ReadInv(kt)

(* Two connections that differ in the fields of F only.                    *)
SameBut(k, m, F) == DOMAIN m = KTLSFields /\ \A f \in KTLSFields \ F : m[f] = k[f]

(* The fields that writing may change.                                     *)
WriteFields == {"write", "tx", "out", "sockq", "queue", "writes", "answers", "alive"}

LEMMA PiecesIs ==
  ASSUME NEW id \in Nat, NEW from \in Nat, NEW n \in Nat
  PROVE  /\ Pieces(id, from, n) \in Seq(Nat \X Nat) /\ Len(Pieces(id, from, n)) = n
         /\ \A i \in 1 .. n : Pieces(id, from, n)[i] = <<id, from + i>>
<1>1. \A i \in 1 .. n : <<id, from + i>> \in Nat \X Nat
  OBVIOUS
<1>. QED  BY <1>1 DEF Pieces

LEMMA OutCryptoIs ==
  ASSUME NEW k, NEW n, NEW m
  PROVE  /\ OutCrypto(k, n).seq = n
         /\ [OutCrypto(k, n) EXCEPT !.seq = m] = OutCrypto(k, m)
BY DEF OutCrypto, PeerCrypto

LEMMA WriteAppDataIs ==
  ASSUME NEW k, NEW n \in Nat, NEW pieces \in Seq(Nat \X Nat)
  PROVE  LET r == WriteAppData(OutCrypto(k, n), pieces)
         IN /\ r \in Seq(OutRecords(k)) /\ Len(r) = Len(pieces)
            /\ \A j \in 1 .. Len(pieces) :
                 r[j].crypto = OutCrypto(k, n + j - 1) /\ r[j].data = pieces[j]
<1>. DEFINE record(j) == [crypto |-> [OutCrypto(k, n) EXCEPT !.seq = @ + j - 1], data |-> pieces[j]]
<1>1. ASSUME NEW j \in 1 .. Len(pieces)
      PROVE  /\ record(j) \in OutRecords(k) /\ record(j).crypto = OutCrypto(k, n + j - 1)
             /\ record(j).data = pieces[j]
  <2>1. n + j - 1 \in Nat /\ pieces[j] \in Nat \X Nat
    OBVIOUS
  <2>2. [OutCrypto(k, n) EXCEPT !.seq = @ + j - 1] = OutCrypto(k, n + j - 1)
    <3>. DEFINE z == n + j - 1
    <3>1. OutCrypto(k, n).seq + j - 1 = z
      BY OutCryptoIs
    <3>. HIDE DEF z
    <3>2. [OutCrypto(k, n) EXCEPT !.seq = z] = OutCrypto(k, z)
      BY OutCryptoIs
    <3>. QED  BY <3>1, <3>2 DEF z
  <2>. QED  BY <2>1, <2>2 DEF OutRecords, OutCrypto, PeerCrypto
<1>. DEFINE r == WriteAppData(OutCrypto(k, n), pieces)
<1>2. Len(pieces) \in Nat /\ r = [j \in 1 .. Len(pieces) |-> record(j)]
  BY DEF WriteAppData
<1>. HIDE DEF record
<1>3. r \in Seq(OutRecords(k)) /\ Len(r) = Len(pieces)
  BY <1>1, <1>2
<1>. QED  BY <1>1, <1>2, <1>3


(* A write that reaches the socket.                                        *)
SocketTook(k, m, id, queued, pieces) ==
  /\ SameBut(k, m, {"write", "tx", "sockq"}) /\ Layer(m)
  /\ NextNumber(k) \in Nat /\ NextNumber(m) = NextNumber(k) + Len(pieces)
  /\ \E rs \in Seq(OutRecords(k)) :
       /\ m.sockq = Append(k.sockq, [id |-> id, queued |-> queued, records |-> rs])
       /\ Len(rs) = Len(pieces)
       /\ \A j \in 1 .. Len(pieces) :
            rs[j].crypto = OutCrypto(k, NextNumber(k) + j - 1) /\ rs[j].data = pieces[j]

LEMMA SocketWriteIs ==
  ASSUME NEW k, KTLSWriteTypes(k), Layer(k), k.sock = "ktls", k.alive,
         NEW id \in Nat, NEW queued, NEW pieces \in Seq(Nat \X Nat)
  PROVE  SocketTook(k, SocketWrite(k, id, queued, pieces), id, queued, pieces)
<1>. DEFINE m == SocketWrite(k, id, queued, pieces)
            n == NextNumber(k)
            rs == WriteAppData(OutCrypto(k, n), pieces)
            entry == [id |-> id, queued |-> queued, records |-> rs]
<1>1. n \in Nat
  BY DEF NextNumber, Layer
<1>2. DOMAIN k = KTLSFields /\ Len(pieces) \in Nat
  BY DEF KTLSWriteTypes
<1>3. /\ rs \in Seq(OutRecords(k)) /\ Len(rs) = Len(pieces)
      /\ \A j \in 1 .. Len(pieces) : rs[j].crypto = OutCrypto(k, n + j - 1) /\ rs[j].data = pieces[j]
  <2>. HIDE DEF n
  <2>. QED  BY <1>1, WriteAppDataIs
<1>4. CASE k.setup.kind = "both"
  <2>1. k.tx = OutCrypto(k, n) /\ n = k.tx.seq
    BY <1>4 DEF Layer, NextNumber
  <2>2. m = [k EXCEPT !.sockq = Append(@, entry), !.tx = [k.tx EXCEPT !.seq = k.tx.seq + Len(pieces)]]
    <3>. HIDE DEF n
    <3>. QED  BY <1>4, <2>1 DEF SocketWrite
  <2>. HIDE DEF rs, n, entry
  <2>3. SameBut(k, m, {"write", "tx", "sockq"}) /\ m.write = k.write /\ m.sockq = Append(k.sockq, entry)
        /\ m.tx = [k.tx EXCEPT !.seq = k.tx.seq + Len(pieces)]
    <3>. HIDE DEF m
    <3>. QED  BY <1>2, <2>2 DEF SameBut, KTLSFields
  <2>. HIDE DEF m
  <2>4. m.tx = OutCrypto(k, n + Len(pieces)) /\ m.tx.seq = n + Len(pieces)
    <3>1. m.tx = [OutCrypto(k, n) EXCEPT !.seq = n + Len(pieces)]
      BY <2>1, <2>3, Zenon
    <3>. DEFINE e == n + Len(pieces)
    <3>. HIDE DEF e
    <3>2. m.tx = OutCrypto(k, e)
      BY <3>1, OutCryptoIs DEF e
    <3>. QED  BY <3>2, OutCryptoIs DEF e
  <2>5. m.setup = k.setup /\ m.sock = k.sock
    BY <2>3 DEF SameBut, KTLSFields
  <2>6. Layer(m) /\ NextNumber(m) = n + Len(pieces)
    BY <1>1, <1>2, <1>4, <2>3, <2>4, <2>5 DEF Layer, NextNumber, OutCrypto
  <2>. QED  BY <1>1, <1>3, <2>3, <2>6 DEF SocketTook, m, n, entry
<1>5. CASE k.setup.kind # "both"
  <2>1. n = k.write.sequence
    BY <1>5 DEF NextNumber
  <2>2. m = [k EXCEPT !.sockq = Append(@, entry), !.write = [k.write EXCEPT !.sequence = k.write.sequence + Len(pieces)]]
    <3>. HIDE DEF n
    <3>. QED  BY <1>5, <2>1 DEF SocketWrite, RxOnlyRecords, OutCrypto
  <2>. HIDE DEF rs, n, entry
  <2>3. SameBut(k, m, {"write", "tx", "sockq"}) /\ m.tx = k.tx /\ m.sockq = Append(k.sockq, entry)
        /\ m.write = [k.write EXCEPT !.sequence = k.write.sequence + Len(pieces)]
    <3>. HIDE DEF m
    <3>. QED  BY <1>2, <2>2 DEF SameBut, KTLSFields
  <2>. HIDE DEF m
  <2>4. m.write = RecordState("out", k.setup.suite, n + Len(pieces)) /\ m.write.sequence = n + Len(pieces)
    <3>. DEFINE e == n + Len(pieces)
    <3>. HIDE DEF e
    <3>1. m.write = [RecordState("out", k.setup.suite, n) EXCEPT !.sequence = e]
      BY <2>1, <2>3, Zenon DEF Layer, e
    <3>2. m.write = RecordState("out", k.setup.suite, e) /\ m.write.sequence = e
      BY <3>1 DEF RecordState
    <3>. QED  BY <3>2 DEF e
  <2>5. m.setup = k.setup /\ m.sock = k.sock
    BY <2>3 DEF SameBut, KTLSFields
  <2>6. Layer(m) /\ NextNumber(m) = n + Len(pieces)
    BY <1>1, <1>2, <1>5, <2>3, <2>4, <2>5 DEF Layer, NextNumber, OutCrypto
  <2>. QED  BY <1>1, <1>3, <2>3, <2>6 DEF SocketTook, m, n, entry
<1>. QED  BY <1>4, <1>5

(* The socket holds one write more, numbered from where the last one ends. *)
LEMMA NumberedOn ==
  ASSUME NEW k, NEW m, KTLSWriteTypes(k), Numbered(k), k.sock = "ktls", k.alive,
         SameBut(k, m, {"write", "tx", "sockq", "queue", "writes"}),
         NEW rs \in Seq(OutRecords(k)), NEW id, NEW queued,
         m.sockq = Append(k.sockq, [id |-> id, queued |-> queued, records |-> rs]),
         Len(rs) >= 1, NextNumber(k) \in Nat, NextNumber(m) = NextNumber(k) + Len(rs),
         \A j \in 1 .. Len(rs) : rs[j].crypto = OutCrypto(k, NextNumber(k) + j - 1)
  PROVE  Numbered(m)
<1>. DEFINE n == Len(k.sockq)
            entry == [id |-> id, queued |-> queued, records |-> rs]
            N == NextNumber(k)
<1>1. /\ m.out = k.out /\ m.sock = k.sock /\ m.alive = k.alive /\ m.setup = k.setup
      /\ \A x : OutCrypto(m, x) = OutCrypto(k, x)
  BY DEF SameBut, KTLSFields, OutCrypto
<1>2. n \in Nat /\ Len(m.sockq) = n + 1 /\ Len(rs) \in Nat
      /\ (\A i \in 1 .. n : m.sockq[i] = k.sockq[i]) /\ m.sockq[n + 1] = entry
  <2>. HIDE DEF entry
  <2>. QED  BY DEF KTLSWriteTypes, entry
<1>3. rs[1].crypto.seq = N
  <2>1. rs[1].crypto = OutCrypto(k, N + 1 - 1) /\ N + 1 - 1 = N
    BY <1>2
  <2>. HIDE DEF N
  <2>. QED  BY <2>1, OutCryptoIs
<1>4. /\ \A i \in 1 .. n + 1 : StartOf(m, i) = StartOf(k, i)
      /\ StartOf(m, n + 2) = N + Len(rs) /\ StartOf(k, n + 1) = N
  BY <1>2, <1>3 DEF StartOf
<1>. HIDE DEF N, entry
<1>5. entry.records = rs
  BY DEF entry
<1>6. /\ \A i \in 1 .. Len(k.out) : k.out[i].crypto = OutCrypto(k, i - 1)
      /\ StartOf(k, 1) = Len(k.out)
      /\ \A i \in 1 .. n :
           /\ Len(k.sockq[i].records) >= 1
           /\ StartOf(k, i + 1) = StartOf(k, i) + Len(k.sockq[i].records)
           /\ \A j \in 1 .. Len(k.sockq[i].records) :
                k.sockq[i].records[j].crypto = OutCrypto(k, StartOf(k, i) + j - 1)
  BY DEF Numbered
<1>7. \A i \in 1 .. n + 1 :
           /\ Len(m.sockq[i].records) >= 1
           /\ StartOf(m, i + 1) = StartOf(m, i) + Len(m.sockq[i].records)
           /\ \A j \in 1 .. Len(m.sockq[i].records) :
                m.sockq[i].records[j].crypto = OutCrypto(k, StartOf(m, i) + j - 1)
  <2>. TAKE i \in 1 .. n + 1
  <2>1. CASE i \in 1 .. n
    <3>1. i + 1 \in 1 .. n + 1
      BY <1>2, <2>1
    <3>2. m.sockq[i] = k.sockq[i] /\ StartOf(m, i) = StartOf(k, i) /\ StartOf(m, i + 1) = StartOf(k, i + 1)
      BY <1>2, <1>4, <2>1, <3>1
    <3>. QED  BY <1>6, <2>1, <3>2
  <2>2. CASE i = n + 1
    <3>1. i + 1 = n + 2 /\ m.sockq[i].records = rs /\ StartOf(m, i) = N
      BY <1>2, <1>4, <1>5, <2>2
    <3>. QED  BY <1>4, <3>1 DEF N
  <2>. QED  BY <1>2, <2>1, <2>2
<1>8. StartOf(m, 1) = Len(k.out)
  BY <1>2, <1>4, <1>6
<1>. QED  BY <1>1, <1>2, <1>6, <1>7, <1>8 DEF Numbered

(* The fields of writing that a write leaves alone.                        *)
LEMMA SameWrite ==
  ASSUME NEW k, NEW m, KTLSWriteTypes(k), SameBut(k, m, {"write", "tx", "sockq", "queue", "writes"})
  PROVE  /\ m.answers = k.answers /\ m.out = k.out /\ m.setup = k.setup /\ m.sock = k.sock
         /\ m.alive = k.alive /\ OutRecords(m) = OutRecords(k)
BY DEF SameBut, KTLSFields, OutRecords

(* A write more that was made: what was known of the writes before it      *)
(* stays.                                                                  *)
LEMMA WritesGrow ==
  ASSUME NEW s \in Seq(KTLSWrites), NEW w \in KTLSWrites
  PROVE  /\ Append(s, w) \in Seq(KTLSWrites) /\ Len(Append(s, w)) = Len(s) + 1 /\ Len(s) \in Nat
         /\ \A i \in 1 .. Len(s) : Append(s, w)[i] = s[i] /\ s[i].size \in Nat \ {0}
         /\ Append(s, w)[Len(s) + 1] = w /\ w.size \in Nat \ {0}
         /\ \A p \in Nat \X Nat : p[1] \in 1 .. Len(s) => PieceAfter(Append(s, w), p) = PieceAfter(s, p)
BY KTLSAssumption DEF PieceAfter

(* The order of what went out, when one more write is made and the piece   *)
(* that goes out next stays.                                               *)
LEMMA OrderStays ==
  ASSUME NEW k, NEW m, NEW before, NEW after,
         KTLSWriteTypes(k), InOrder(k, before),
         \A i \in 1 .. Len(k.answers) : k.answers[i].ok => i \in 1 .. Len(k.writes),
         m.out = k.out, m.answers = k.answers, m.setup = k.setup, m.alive = k.alive,
         m.writes = k.writes \/ \E w \in KTLSWrites : m.writes = Append(k.writes, w),
         k.alive => PieceNext(m, after) = PieceNext(k, before)
  PROVE  InOrder(m, after)
<1>1. /\ Len(k.writes) \in Nat /\ Len(m.writes) \in Nat /\ Len(m.writes) >= Len(k.writes)
      /\ \A i \in 1 .. Len(k.writes) : m.writes[i] = k.writes[i]
      /\ \A p \in Nat \X Nat : p[1] \in 1 .. Len(k.writes) => PieceAfter(m.writes, p) = PieceAfter(k.writes, p)
  <2>1. k.writes \in Seq(KTLSWrites)
    BY DEF KTLSWriteTypes
  <2>2. CASE m.writes = k.writes
    BY <2>1, <2>2
  <2>3. CASE \E w \in KTLSWrites : m.writes = Append(k.writes, w)
    BY <2>1, <2>3, WritesGrow
  <2>. QED  BY <2>2, <2>3
<1>2. /\ Len(k.out) \in Nat /\ \A i \in 1 .. Len(k.out) : k.out[i].data \in Nat \X Nat
  <2>1. \A r \in OutRecords(k) : r.data \in Nat \X Nat
    BY DEF OutRecords
  <2>. QED  BY <2>1 DEF KTLSWriteTypes
<1>3. k.setup.wseq \in Nat /\ Len(k.answers) \in Nat
  BY KTLSAssumption DEF KTLSWriteTypes
<1>4. Len(k.out) >= k.setup.wseq /\ \A i \in k.setup.wseq + 1 .. Len(k.out) :
        /\ k.out[i].data[1] \in 1 .. Len(k.writes)
        /\ k.out[i].data = IF i = k.setup.wseq + 1 THEN <<1, 1>>
                           ELSE PieceAfter(k.writes, k.out[i - 1].data)
  BY DEF InOrder
<1>5. \A i \in k.setup.wseq + 1 .. Len(k.out) :
        /\ k.out[i].data[1] \in 1 .. Len(m.writes)
        /\ k.out[i].data = IF i = k.setup.wseq + 1 THEN <<1, 1>>
                           ELSE PieceAfter(m.writes, k.out[i - 1].data)
  <2>. TAKE i \in k.setup.wseq + 1 .. Len(k.out)
  <2>1. CASE i = k.setup.wseq + 1
    <3>1. k.out[i].data[1] \in 1 .. Len(k.writes) /\ k.out[i].data = <<1, 1>>
      BY <1>4, <2>1
    <3>2. k.out[i].data[1] \in 1 .. Len(m.writes)
      BY <1>1, <3>1
    <3>. QED  BY <2>1, <3>1, <3>2, Zenon
  <2>2. CASE i # k.setup.wseq + 1
    <3>1. i - 1 \in k.setup.wseq + 1 .. Len(k.out) /\ i - 1 \in 1 .. Len(k.out)
      BY <1>2, <1>3, <2>2
    <3>2. k.out[i - 1].data \in Nat \X Nat /\ k.out[i - 1].data[1] \in 1 .. Len(k.writes)
      BY <1>2, <1>4, <3>1
    <3>3. PieceAfter(m.writes, k.out[i - 1].data) = PieceAfter(k.writes, k.out[i - 1].data)
      BY <1>1, <3>2
    <3>4. /\ k.out[i].data[1] \in 1 .. Len(k.writes)
          /\ k.out[i].data = PieceAfter(k.writes, k.out[i - 1].data)
      BY <1>4, <2>2
    <3>5. k.out[i].data[1] \in 1 .. Len(m.writes)
      BY <1>1, <3>4
    <3>. QED  BY <2>2, <3>3, <3>4, <3>5, Zenon
  <2>. QED  BY <2>1, <2>2
<1>6. k.alive => PieceNext(k, before) = IF Len(k.out) = k.setup.wseq THEN <<1, 1>>
                                        ELSE PieceAfter(m.writes, k.out[Len(k.out)].data)
  <2>1. CASE Len(k.out) # k.setup.wseq
    <3>1. Len(k.out) \in k.setup.wseq + 1 .. Len(k.out) /\ Len(k.out) \in 1 .. Len(k.out)
      BY <1>2, <1>3, <1>4, <2>1
    <3>. QED  BY <1>1, <1>2, <1>4, <2>1, <3>1 DEF InOrder
  <2>. QED  BY <2>1 DEF InOrder
<1>7. \A i \in 1 .. Len(k.answers) : k.answers[i].ok =>
        \E j \in 1 .. Len(k.out) : k.out[j].data = <<i, m.writes[i].size>>
  <2>1. \A i \in 1 .. Len(k.answers) : k.answers[i].ok => m.writes[i] = k.writes[i]
    BY <1>1
  <2>. SUFFICES ASSUME NEW i \in 1 .. Len(k.answers), k.answers[i].ok
                PROVE  \E j \in 1 .. Len(k.out) : k.out[j].data = <<i, m.writes[i].size>>
    OBVIOUS
  <2>2. \E j \in 1 .. Len(k.out) : k.out[j].data = <<i, k.writes[i].size>>
    BY DEF InOrder
  <2>. QED  BY <2>1, <2>2, Zenon
<1>8. \A i \in m.setup.wseq + 1 .. Len(m.out) :
        /\ m.out[i].data[1] \in 1 .. Len(m.writes)
        /\ m.out[i].data = IF i = m.setup.wseq + 1 THEN <<1, 1>>
                           ELSE PieceAfter(m.writes, m.out[i - 1].data)
  BY <1>5, Zenon
<1>9. m.alive => PieceNext(m, after) = IF Len(m.out) = m.setup.wseq THEN <<1, 1>>
                                       ELSE PieceAfter(m.writes, m.out[Len(m.out)].data)
  BY <1>6, Zenon
<1>10. \A i \in 1 .. Len(m.answers) : m.answers[i].ok =>
        \E j \in 1 .. Len(m.out) : m.out[j].data = <<i, m.writes[i].size>>
  BY <1>7, Zenon
<1>11. Len(m.out) >= m.setup.wseq
  BY <1>4
<1>. QED  BY <1>8, <1>9, <1>10, <1>11, Zenon DEF InOrder

LEMMA OrderKept ==
  ASSUME NEW k, NEW m, NEW before, NEW after,
         KTLSWriteTypes(k), InOrder(k, before), Len(k.answers) <= Len(k.writes),
         m.out = k.out, m.answers = k.answers, m.setup = k.setup, m.alive = k.alive,
         m.writes = k.writes \/ \E w \in KTLSWrites : m.writes = Append(k.writes, w),
         k.alive => PieceNext(m, after) = PieceNext(k, before)
  PROVE  InOrder(m, after)
<1>1. Len(k.answers) \in Nat /\ Len(k.writes) \in Nat
  BY DEF KTLSWriteTypes
<1>2. \A i \in 1 .. Len(k.answers) : i \in 1 .. Len(k.writes)
  BY <1>1
<1>. QED  BY <1>2, OrderStays

(* A write of the application that goes to the socket.                     *)
LEMMA DirectWrite ==
  ASSUME NEW k, WriteInv(k, 0), k.sock = "ktls", k.alive, k.queue = <<>>,
         NEW w \in KTLSWrites
  PROVE  LET id == Len(k.writes) + 1
             m == SocketWrite([k EXCEPT !.writes = Append(@, w)], id, FALSE, Pieces(id, 0, w.size))
         IN WriteInv(m, 0) /\ m.queue = <<>> /\ SameBut(k, m, WriteFields)
<1>. DEFINE id == Len(k.writes) + 1
            l == [k EXCEPT !.writes = Append(k.writes, w)]
            pieces == Pieces(id, 0, w.size)
            no == FALSE
            m == SocketWrite(l, id, no, pieces)
            a == Len(k.answers)
            n == Len(k.sockq)
<1>1. /\ KTLSWriteTypes(k) /\ Layer(k) /\ Numbered(k) /\ Counted(k, 0) /\ InOrder(k, 0)
  BY DEF WriteInv
<1>2. /\ Append(k.writes, w) \in Seq(KTLSWrites) /\ Len(Append(k.writes, w)) = Len(k.writes) + 1
      /\ Len(k.writes) \in Nat /\ w.size \in Nat \ {0}
      /\ (\A i \in 1 .. Len(k.writes) : Append(k.writes, w)[i] = k.writes[i])
      /\ Append(k.writes, w)[Len(k.writes) + 1] = w
  BY <1>1, WritesGrow DEF KTLSWriteTypes
<1>3. SameBut(k, l, {"writes"}) /\ l.writes = Append(k.writes, w)
  BY <1>1 DEF KTLSWriteTypes, SameBut, KTLSFields
<1>. HIDE DEF l
<1>4. /\ l.setup = k.setup /\ l.sock = "ktls" /\ l.alive /\ l.tx = k.tx /\ l.write = k.write
      /\ l.sockq = k.sockq /\ l.queue = k.queue /\ l.answers = k.answers /\ l.out = k.out
      /\ DOMAIN l = KTLSFields
  BY <1>3 DEF SameBut, KTLSFields
<1>5. OutRecords(l) = OutRecords(k) /\ (\A x : OutCrypto(l, x) = OutCrypto(k, x))
      /\ NextNumber(l) = NextNumber(k)
  BY <1>4 DEF OutRecords, OutCrypto, NextNumber
<1>6. KTLSWriteTypes(l) /\ Layer(l)
  BY <1>1, <1>2, <1>3, <1>4, <1>5 DEF KTLSWriteTypes, Layer
<1>7. pieces \in Seq(Nat \X Nat) /\ Len(pieces) = w.size /\ \A i \in 1 .. w.size : pieces[i] = <<id, i>>
  <2>1. id \in Nat /\ w.size \in Nat /\ \A i \in 1 .. w.size : 0 + i = i
    BY <1>2
  <2>2. /\ pieces \in Seq(Nat \X Nat) /\ Len(pieces) = w.size
        /\ \A i \in 1 .. w.size : pieces[i] = <<id, 0 + i>>
    <3>. HIDE DEF id
    <3>. QED  BY <2>1, PiecesIs
  <2>. QED  BY <2>1, <2>2
<1>. HIDE DEF pieces, id
<1>. HIDE DEF no
<1>8. SocketTook(l, m, id, no, pieces)
  <2>1. id \in Nat
    BY <1>2 DEF id
  <2>. QED  BY <1>4, <1>6, <1>7, <2>1, SocketWriteIs
<1>. HIDE DEF m
<1>9. PICK rs \in Seq(OutRecords(k)) :
           /\ m.sockq = Append(k.sockq, [id |-> id, queued |-> no, records |-> rs])
           /\ Len(rs) = w.size
           /\ \A j \in 1 .. w.size :
                rs[j].crypto = OutCrypto(k, NextNumber(k) + j - 1) /\ rs[j].data = <<id, j>>
  <2>1. PICK rs \in Seq(OutRecords(l)) :
           /\ m.sockq = Append(l.sockq, [id |-> id, queued |-> no, records |-> rs])
           /\ Len(rs) = Len(pieces)
           /\ \A j \in 1 .. Len(pieces) :
                rs[j].crypto = OutCrypto(l, NextNumber(l) + j - 1) /\ rs[j].data = pieces[j]
    BY <1>8 DEF SocketTook
  <2>2. rs \in Seq(OutRecords(k)) /\ m.sockq = Append(k.sockq, [id |-> id, queued |-> no, records |-> rs])
    BY <1>4, <1>5, <2>1
  <2>3. \A j \in 1 .. w.size : rs[j].crypto = OutCrypto(k, NextNumber(k) + j - 1) /\ rs[j].data = <<id, j>>
    BY <1>5, <1>7, <2>1
  <2>4. Len(rs) = w.size
    BY <1>7, <2>1
  <2>. QED  BY <2>2, <2>3, <2>4
<1>10. SameBut(k, m, {"write", "tx", "sockq", "queue", "writes"}) /\ m.queue = <<>> /\ m.writes = l.writes
  BY <1>3, <1>8 DEF SocketTook, SameBut, KTLSFields
<1>11. Numbered(m)
  <2>1. NextNumber(k) \in Nat /\ NextNumber(m) = NextNumber(k) + Len(rs) /\ Len(rs) >= 1
    BY <1>2, <1>5, <1>7, <1>8, <1>9 DEF SocketTook
  <2>2. \A j \in 1 .. Len(rs) : rs[j].crypto = OutCrypto(k, NextNumber(k) + j - 1)
    BY <1>9
  <2>. QED  BY <1>1, <1>9, <1>10, <2>1, <2>2, NumberedOn
<1>12. /\ m.answers = k.answers /\ m.out = k.out /\ m.setup = k.setup /\ m.sock = k.sock
       /\ m.alive = k.alive /\ OutRecords(m) = OutRecords(k)
  BY <1>1, <1>10, SameWrite
<1>. DEFINE entry == [id |-> id, queued |-> no, records |-> rs]
<1>13. /\ entry \in [id : Nat, queued : BOOLEAN, records : Seq(OutRecords(k))]
       /\ entry.id = id /\ ~entry.queued /\ entry.records = rs
  BY <1>2 DEF id, no
<1>. HIDE DEF entry
<1>14. /\ m.sockq \in Seq([id : Nat, queued : BOOLEAN, records : Seq(OutRecords(k))])
       /\ n \in Nat /\ Len(m.sockq) = n + 1 /\ (\A i \in 1 .. n : m.sockq[i] = k.sockq[i]) /\ m.sockq[n + 1] = entry
  <2>1. m.sockq = Append(k.sockq, entry)
    BY <1>9 DEF entry
  <2>. QED  BY <1>1, <1>13, <2>1 DEF KTLSWriteTypes
<1>15. KTLSWriteTypes(m)
  BY <1>1, <1>2, <1>3, <1>10, <1>12, <1>14 DEF KTLSWriteTypes, SameBut
<1>16. a \in Nat /\ Len(k.queue) = 0 /\ Len(k.writes) = a + n
  BY <1>1, <1>14 DEF Counted, Direct, KTLSWriteTypes
<1>. HIDE DEF a, n
<1>17. Counted(m, 0)
  <2>1. Direct(m, 0) = n + 1 /\ Direct(k, 0) = n /\ Len(m.answers) = a /\ Len(k.answers) = a
    BY <1>12, <1>14 DEF Direct, n, a
  <2>2. Len(m.writes) = a + (n + 1) /\ Len(m.queue) = 0
    BY <1>2, <1>3, <1>10, <1>14, <1>16
  <2>5. \A i \in 1 .. n :
          /\ ~k.sockq[i].queued /\ k.sockq[i].id = a + i
          /\ Len(k.sockq[i].records) = k.writes[a + i].size
          /\ \A j \in 1 .. Len(k.sockq[i].records) : k.sockq[i].records[j].data = <<a + i, j>>
    BY <1>1, <2>1 DEF Counted
  <2>3. ASSUME NEW i \in 1 .. n + 1
        PROVE  /\ ~m.sockq[i].queued /\ m.sockq[i].id = a + i
               /\ Len(m.sockq[i].records) = m.writes[a + i].size
               /\ \A j \in 1 .. Len(m.sockq[i].records) : m.sockq[i].records[j].data = <<a + i, j>>
    <3>1. CASE i \in 1 .. n
      <4>1. a + i \in 1 .. Len(k.writes) /\ m.sockq[i] = k.sockq[i]
        <5>1. n \in Nat /\ m.sockq[i] = k.sockq[i]
          BY <1>14, <3>1
        <5>. QED  BY <1>16, <3>1, <5>1
      <4>2. m.writes[a + i] = k.writes[a + i]
        BY <1>2, <1>3, <1>10, <4>1
      <4>. QED  BY <2>5, <3>1, <4>1, <4>2
    <3>2. CASE i = n + 1
      <4>1. a + i = id /\ m.writes[a + i] = w
        <5>. DEFINE u == Len(k.writes)
        <5>1. a \in Nat /\ n \in Nat /\ u = a + n
          BY <1>14, <1>16, Zenon
        <5>. HIDE DEF u
        <5>2. a + i = u + 1
          BY <3>2, <5>1
        <5>3. m.writes = Append(k.writes, w)
          BY <1>3, <1>10, Zenon
        <5>4. m.writes[u + 1] = w
          BY <1>2, <5>3, Zenon DEF u
        <5>. QED  BY <5>2, <5>4, Zenon DEF id, u
      <4>. QED  BY <1>9, <1>13, <1>14, <3>2, <4>1
    <3>3. n \in Nat
      BY <1>14, Zenon
    <3>4. i \in 1 .. n \/ i = n + 1
      BY <3>3
    <3>. QED  BY <3>1, <3>2, <3>4, Zenon
  <2>4. \A i \in 1 .. a : m.answers[i].id = i
    BY <1>1, <1>12 DEF Counted, a
  <2>6. Direct(m, 0) >= 0 /\ Len(m.writes) = Len(m.answers) + Direct(m, 0) + Len(m.queue)
    <3>1. n \in Nat
      BY <1>14
    <3>. QED  BY <1>16, <2>1, <2>2, <3>1
  <2>7. \A j \in 1 .. Len(m.queue) : FALSE
    BY <2>2
  <2>8. \A i \in 1 .. Direct(m, 0) :
          /\ ~m.sockq[i].queued /\ m.sockq[i].id = Len(m.answers) + i
          /\ Len(m.sockq[i].records) = m.writes[Len(m.answers) + i].size
          /\ \A j \in 1 .. Len(m.sockq[i].records) :
               m.sockq[i].records[j].data = <<Len(m.answers) + i, j>>
    <3>. HIDE DEF Direct
    <3>. QED  BY <2>1, <2>3, ZenonT(40)
  <2>9. \A i \in 1 .. Len(m.answers) : m.answers[i].id = i
    BY <2>1, <2>4, Zenon
  <2>10. \A j \in 1 .. Len(m.queue) :
           /\ m.queue[j].id = Len(m.answers) + Direct(m, 0) + j
           /\ m.queue[j].size = m.writes[Len(m.answers) + Direct(m, 0) + j].size
           /\ j > 1 => m.queue[j].written = 0
    BY <2>7, Zenon
  <2>. QED  BY <2>6, <2>8, <2>9, <2>10, Zenon DEF Counted
<1>18. InOrder(m, 0)
  <2>1. PieceNext(m, 0) = PieceNext(k, 0)
    BY <1>10, <1>12 DEF PieceNext
  <2>2. Len(k.answers) <= Len(k.writes)
    BY <1>14, <1>16 DEF a
  <2>3. m.writes = Append(k.writes, w)
    BY <1>3, <1>10
  <2>. QED  BY <1>1, <1>12, <2>1, <2>2, <2>3, OrderKept
<1>19. Held(m, 0)
  BY <1>10 DEF Held
<1>20. SameBut(k, m, WriteFields)
  BY <1>10 DEF SameBut, WriteFields
<1>21. Layer(m)
  BY <1>8 DEF SocketTook
<1>. QED  BY <1>21, <1>10, <1>11, <1>12, <1>15, <1>17, <1>18, <1>19, <1>20 DEF WriteInv, m, l, id, pieces, no

LEMMA Appended ==
  ASSUME NEW S, NEW s \in Seq(S), NEW e \in S
  PROVE  /\ Append(s, e) \in Seq(S) /\ Len(s) \in Nat /\ Len(Append(s, e)) = Len(s) + 1
         /\ (\A i \in 1 .. Len(s) : Append(s, e)[i] = s[i]) /\ Append(s, e)[Len(s) + 1] = e
         /\ Append(s, e) # <<>> /\ (Len(s) = 0 <=> s = <<>>)
OBVIOUS

(* A write of the application that goes to the queue.                      *)
LEMMA Enqueue ==
  ASSUME NEW k, NEW h, WriteInv(k, h), k.sock = "ktls", k.setup.kind # "both", NEW w \in KTLSWrites
  PROVE  LET id == Len(k.writes) + 1
             m == [k EXCEPT !.writes = Append(k.writes, w),
                            !.queue = Append(k.queue, QueuedRequest(id, w.size))]
         IN WriteInv(m, h) /\ m.queue # <<>> /\ SameBut(k, m, WriteFields)
            /\ Len(m.queue) = Len(k.queue) + 1
<1>. DEFINE id == Len(k.writes) + 1
            request == QueuedRequest(id, w.size)
            m == [k EXCEPT !.writes = Append(k.writes, w), !.queue = Append(k.queue, request)]
            a == Len(k.answers)
            d == Direct(k, h)
            q == Len(k.queue)
<1>1. /\ KTLSWriteTypes(k) /\ Layer(k) /\ Numbered(k) /\ Counted(k, h) /\ Held(k, h) /\ InOrder(k, h) /\ h \in {0, 1}
  BY DEF WriteInv
<1>2. /\ Append(k.writes, w) \in Seq(KTLSWrites) /\ Len(Append(k.writes, w)) = Len(k.writes) + 1
      /\ Len(k.writes) \in Nat /\ w.size \in Nat \ {0}
      /\ (\A i \in 1 .. Len(k.writes) : Append(k.writes, w)[i] = k.writes[i])
      /\ Append(k.writes, w)[Len(k.writes) + 1] = w
  BY <1>1, WritesGrow DEF KTLSWriteTypes
<1>3. /\ SameBut(k, m, {"write", "tx", "sockq", "queue", "writes"}) /\ SameBut(k, m, {"queue", "writes"})
      /\ m.writes = Append(k.writes, w) /\ m.queue = Append(k.queue, request)
  <2>. HIDE DEF request
  <2>. QED  BY <1>1 DEF KTLSWriteTypes, SameBut, KTLSFields
<1>4. /\ request \in [id : Nat, size : Nat, written : Nat]
      /\ request.id = id /\ request.size = w.size /\ request.written = 0
  BY <1>2 DEF QueuedRequest
<1>. HIDE DEF m, request, id
<1>5. /\ m.answers = k.answers /\ m.out = k.out /\ m.setup = k.setup /\ m.sock = k.sock
      /\ m.alive = k.alive /\ OutRecords(m) = OutRecords(k)
  BY <1>1, <1>3, SameWrite
<1>6. m.sockq = k.sockq /\ m.tx = k.tx /\ m.write = k.write /\ DOMAIN m = KTLSFields
  BY <1>3 DEF SameBut, KTLSFields
<1>7. /\ m.queue \in Seq([id : Nat, size : Nat, written : Nat]) /\ q \in Nat /\ Len(m.queue) = q + 1
      /\ (\A j \in 1 .. q : m.queue[j] = k.queue[j]) /\ m.queue[q + 1] = request
      /\ m.queue # <<>> /\ (q = 0 <=> k.queue = <<>>)
  <2>. DEFINE S == [id : Nat, size : Nat, written : Nat]
  <2>1. k.queue \in Seq(S) /\ request \in S /\ m.queue = Append(k.queue, request)
    BY <1>1, <1>3, <1>4 DEF KTLSWriteTypes
  <2>. HIDE DEF S
  <2>2. /\ m.queue \in Seq(S) /\ q \in Nat /\ Len(m.queue) = q + 1
        /\ (\A j \in 1 .. q : m.queue[j] = k.queue[j]) /\ m.queue[q + 1] = request
        /\ m.queue # <<>> /\ (q = 0 <=> k.queue = <<>>)
    BY <2>1, Appended
  <2>. QED  BY <2>2 DEF S
<1>8. KTLSWriteTypes(m)
  <2>1. m.writes \in Seq(KTLSWrites)
    BY <1>2, <1>3, Zenon
  <2>2. /\ k.setup \in KTLSSetups /\ k.sock \in {"fizz", "ktls"} /\ k.alive \in BOOLEAN
        /\ k.answers \in Seq([id : Nat, ok : BOOLEAN]) /\ k.out \in Seq(OutRecords(k))
        /\ k.sockq \in Seq([id : Nat, queued : BOOLEAN, records : Seq(OutRecords(k))])
    BY <1>1, Zenon DEF KTLSWriteTypes
  <2>. QED  BY <1>5, <1>6, <1>7, <2>1, <2>2, ZenonT(40) DEF KTLSWriteTypes
<1>9. Layer(m) /\ Numbered(m)
  <2>1. \A x : OutCrypto(m, x) = OutCrypto(k, x)
    BY <1>5, Zenon DEF OutCrypto
  <2>2. NextNumber(m) = NextNumber(k)
    BY <1>5, <1>6, Zenon DEF NextNumber
  <2>3. \A x : StartOf(m, x) = StartOf(k, x)
    BY <1>6, <2>2, Zenon DEF StartOf
  <2>4. Layer(m)
    <3>. HIDE DEF OutCrypto
    <3>. QED  BY <1>1, <1>5, <1>6, <2>1, Zenon DEF Layer
  <2>5. Numbered(m)
    <3>. HIDE DEF OutCrypto, StartOf
    <3>1. \A i \in 1 .. Len(m.out) : m.out[i].crypto = OutCrypto(m, i - 1)
      BY <1>1, <1>5, <2>1, Zenon DEF Numbered
    <3>2. m.sock = "ktls" /\ m.alive => StartOf(m, 1) = Len(m.out)
      BY <1>1, <1>5, <2>3, Zenon DEF Numbered
    <3>3. ASSUME m.sock = "ktls", m.alive, NEW i \in 1 .. Len(m.sockq)
          PROVE  /\ Len(m.sockq[i].records) >= 1
                 /\ StartOf(m, i + 1) = StartOf(m, i) + Len(m.sockq[i].records)
                 /\ \A j \in 1 .. Len(m.sockq[i].records) :
                      m.sockq[i].records[j].crypto = OutCrypto(m, StartOf(m, i) + j - 1)
      <4>1. /\ Len(k.sockq[i].records) >= 1
            /\ StartOf(k, i + 1) = StartOf(k, i) + Len(k.sockq[i].records)
            /\ \A j \in 1 .. Len(k.sockq[i].records) :
                 k.sockq[i].records[j].crypto = OutCrypto(k, StartOf(k, i) + j - 1)
        BY <1>1, <1>5, <1>6, <3>3, Zenon DEF Numbered
      <4>. QED  BY <1>6, <2>1, <2>3, <4>1, Zenon
    <3>. QED  BY <3>1, <3>2, <3>3, Zenon DEF Numbered
  <2>. QED  BY <2>4, <2>5
<1>10. a \in Nat /\ d \in Nat /\ Len(k.writes) = a + d + q /\ Direct(m, h) = d /\ Len(k.sockq) \in Nat
  BY <1>1, <1>6 DEF Counted, Direct, KTLSWriteTypes
<1>11. /\ \A i \in 1 .. a : k.answers[i].id = i
       /\ \A i \in 1 .. d :
            /\ ~k.sockq[i].queued /\ k.sockq[i].id = a + i
            /\ Len(k.sockq[i].records) = k.writes[a + i].size
            /\ \A j \in 1 .. Len(k.sockq[i].records) : k.sockq[i].records[j].data = <<a + i, j>>
       /\ \A j \in 1 .. q :
            /\ k.queue[j].id = a + d + j /\ k.queue[j].size = k.writes[a + d + j].size
            /\ j > 1 => k.queue[j].written = 0
  BY <1>1 DEF Counted
<1>. HIDE DEF a, d, q
<1>23. a \in Nat /\ d \in Nat /\ q \in Nat
  BY <1>7, <1>10
<1>12. \A i \in 1 .. d + q : a + i \in 1 .. Len(k.writes) /\ m.writes[a + i] = k.writes[a + i]
  <2>. TAKE i \in 1 .. d + q
  <2>. DEFINE u == Len(k.writes)
  <2>1. u \in Nat /\ u = a + d + q
    BY <1>2, <1>10
  <2>. HIDE DEF u
  <2>2. a + i \in 1 .. u
    BY <1>23, <2>1
  <2>. QED  BY <1>2, <1>3, <2>2 DEF u
<1>13. \A i \in 1 .. d :
            /\ ~m.sockq[i].queued /\ m.sockq[i].id = a + i
            /\ Len(m.sockq[i].records) = m.writes[a + i].size
            /\ \A j \in 1 .. Len(m.sockq[i].records) : m.sockq[i].records[j].data = <<a + i, j>>
  <2>. TAKE i \in 1 .. d
  <2>1. m.writes[a + i] = k.writes[a + i]
    <3>1. i \in 1 .. d + q
      BY <1>23
    <3>. QED  BY <1>12, <3>1
  <2>. QED  BY <1>6, <1>11, <2>1
<1>14. \A j \in 1 .. q + 1 :
            /\ m.queue[j].id = a + d + j /\ m.queue[j].size = m.writes[a + d + j].size
            /\ j > 1 => m.queue[j].written = 0
  <2>. TAKE j \in 1 .. q + 1
  <2>1. CASE j \in 1 .. q
    <3>1. d + j \in 1 .. d + q /\ a + (d + j) = a + d + j
      BY <1>23, <2>1
    <3>2. m.writes[a + d + j] = k.writes[a + d + j]
      BY <1>12, <3>1
    <3>. QED  BY <1>7, <1>11, <2>1, <3>2
  <2>2. CASE j = q + 1
    <3>1. a + d + j = id
      BY <1>7, <1>10, <2>2 DEF id
    <3>2. m.writes[id] = w
      BY <1>2, <1>3 DEF id
    <3>. QED  BY <1>4, <1>7, <2>2, <3>1, <3>2
  <2>. QED  BY <1>7, <2>1, <2>2
<1>15. Counted(m, h)
  <2>1. Len(m.writes) = a + d + (q + 1) /\ d >= 0
    BY <1>2, <1>3, <1>7, <1>10
  <2>2. Len(m.answers) = a /\ Len(m.queue) = q + 1 /\ \A i \in 1 .. a : m.answers[i].id = i
    BY <1>5, <1>7, <1>11 DEF a
  <2>. QED  BY <1>10, <1>13, <1>14, <2>1, <2>2, Zenon DEF Counted
<1>16. m.queue[1] = IF k.queue = <<>> THEN request ELSE k.queue[1]
  <2>1. CASE q = 0
    BY <1>7, <2>1
  <2>2. CASE q # 0
    <3>1. 1 \in 1 .. q
      BY <1>23, <2>2
    <3>. QED  BY <1>7, <2>2, <3>1
  <2>. QED  BY <2>1, <2>2
<1>17. k.queue = <<>> => h = 0
  BY <1>1 DEF Held
<1>18. Held(m, h)
  <2>1. Direct(m, h) = Direct(k, h)
    BY <1>6 DEF Direct
  <2>2. m.setup.kind # "both"
    BY <1>5
  <2>3. CASE k.queue = <<>>
    <3>1. h = 0 /\ m.queue[1].written = 0 /\ m.queue[1].size = w.size
      BY <1>4, <1>16, <1>17, <2>3
    <3>2. 0 < w.size /\ 0 # 1
      BY <1>2
    <3>. QED  BY <2>2, <3>1, <3>2, Zenon DEF Held
  <2>4. CASE k.queue # <<>>
    <3>1. m.queue[1] = k.queue[1]
      BY <1>16, <2>4
    <3>. HIDE DEF Direct
    <3>. QED  BY <1>1, <1>5, <1>6, <1>7, <2>1, <2>2, <2>4, <3>1, Zenon DEF Held
  <2>. QED  BY <2>3, <2>4
<1>19. PieceNext(m, h) = PieceNext(k, h)
  <2>1. (IF d > 0 \/ m.queue = <<>> THEN 1 ELSE m.queue[1].written + 1 - h)
        = (IF d > 0 \/ k.queue = <<>> THEN 1 ELSE k.queue[1].written + 1 - h)
    BY <1>4, <1>7, <1>16, <1>17
  <2>. QED  BY <1>5, <1>10, <2>1 DEF PieceNext, d
<1>20. InOrder(m, h)
  <2>1. Len(k.answers) <= Len(k.writes)
    BY <1>7, <1>10 DEF a
  <2>. QED  BY <1>1, <1>3, <1>5, <1>19, <2>1, OrderKept
<1>21. SameBut(k, m, WriteFields)
  BY <1>3 DEF SameBut, WriteFields
<1>22. k.alive
  BY DEF WriteInv
<1>. QED  BY <1>1, <1>5, <1>6, <1>7, <1>8, <1>9, <1>15, <1>18, <1>20, <1>21, <1>22 DEF WriteInv, m, request, id, q

(* The request at the head of the queue sends its next piece.              *)
LEMMA Started ==
  ASSUME NEW k, WriteInv(k, 0), k.sock = "ktls", k.alive, k.queue # <<>>
  PROVE  LET m == StartWriting(k)
         IN WriteInv(m, 1) /\ m.queue # <<>> /\ SameBut(k, m, WriteFields)
<1>. DEFINE id == k.queue[1].id
            first == [k.queue[1] EXCEPT !.written = k.queue[1].written + 1]
            l == [k EXCEPT !.queue = [k.queue EXCEPT ![1] = first]]
            pieces == Pieces(id, k.queue[1].written, 1)
            yes == TRUE
            m == SocketWrite(l, id, yes, pieces)
            a == Len(k.answers)
            n == Len(k.sockq)
            q == Len(k.queue)
            S == [id : Nat, size : Nat, written : Nat]
<1>1. /\ KTLSWriteTypes(k) /\ Layer(k) /\ Numbered(k) /\ Counted(k, 0) /\ Held(k, 0) /\ InOrder(k, 0)
  BY DEF WriteInv
<1>2. k.queue \in Seq(S) /\ q \in Nat /\ q > 0 /\ k.queue[1] \in S
  <2>1. k.queue \in Seq(S)
    BY <1>1 DEF KTLSWriteTypes
  <2>. HIDE DEF S
  <2>. QED  BY <2>1
<1>3. /\ first \in S /\ first.id = id /\ first.size = k.queue[1].size
      /\ first.written = k.queue[1].written + 1 /\ id \in Nat /\ k.queue[1].written \in Nat
  <2>. DEFINE head == k.queue[1]
  <2>1. head \in S
    BY <1>2
  <2>. HIDE DEF head
  <2>2. /\ head.id \in Nat /\ head.written \in Nat
        /\ [head EXCEPT !.written = head.written + 1] \in S
        /\ [head EXCEPT !.written = head.written + 1].id = head.id
        /\ [head EXCEPT !.written = head.written + 1].size = head.size
        /\ [head EXCEPT !.written = head.written + 1].written = head.written + 1
    BY <2>1
  <2>. QED  BY <2>2 DEF head
<1>4. StartWriting(k) = m
  BY DEF StartWriting
<1>5. SameBut(k, l, {"queue"}) /\ l.queue = [k.queue EXCEPT ![1] = first]
  <2>. HIDE DEF first
  <2>. QED  BY <1>1 DEF KTLSWriteTypes, SameBut, KTLSFields
<1>. HIDE DEF l, first, S
<1>6. /\ l.queue \in Seq(S) /\ Len(l.queue) = q /\ l.queue[1] = first /\ l.queue # <<>>
      /\ \A j \in 2 .. q : l.queue[j] = k.queue[j]
  BY <1>2, <1>3, <1>5
<1>7. /\ l.setup = k.setup /\ l.sock = "ktls" /\ l.alive /\ l.tx = k.tx /\ l.write = k.write
      /\ l.sockq = k.sockq /\ l.writes = k.writes /\ l.answers = k.answers /\ l.out = k.out
      /\ DOMAIN l = KTLSFields
  BY <1>5 DEF SameBut, KTLSFields
<1>8. OutRecords(l) = OutRecords(k) /\ (\A x : OutCrypto(l, x) = OutCrypto(k, x))
      /\ NextNumber(l) = NextNumber(k)
  BY <1>7 DEF OutRecords, OutCrypto, NextNumber
<1>9. KTLSWriteTypes(l) /\ Layer(l)
  BY <1>1, <1>6, <1>7, <1>8 DEF KTLSWriteTypes, Layer, S
<1>10. pieces \in Seq(Nat \X Nat) /\ Len(pieces) = 1 /\ pieces[1] = <<id, first.written>>
  <2>1. /\ pieces \in Seq(Nat \X Nat) /\ Len(pieces) = 1
        /\ \A i \in 1 .. 1 : pieces[i] = <<id, k.queue[1].written + i>>
    <3>1. 1 \in Nat /\ id \in Nat /\ k.queue[1].written \in Nat
      BY <1>3
    <3>. QED  BY <3>1, PiecesIs
  <2>. QED  BY <1>3, <2>1, SMTT(30)
<1>. HIDE DEF pieces, id, yes
<1>11. SocketTook(l, m, id, yes, pieces)
  BY <1>3, <1>7, <1>9, <1>10, SocketWriteIs
<1>. HIDE DEF m
<1>12. PICK rs \in Seq(OutRecords(k)) :
           /\ m.sockq = Append(k.sockq, [id |-> id, queued |-> yes, records |-> rs])
           /\ Len(rs) = 1 /\ rs[1].data = <<id, first.written>>
           /\ \A j \in 1 .. Len(rs) : rs[j].crypto = OutCrypto(k, NextNumber(k) + j - 1)
  <2>1. PICK rs \in Seq(OutRecords(l)) :
           /\ m.sockq = Append(l.sockq, [id |-> id, queued |-> yes, records |-> rs])
           /\ Len(rs) = Len(pieces)
           /\ \A j \in 1 .. Len(pieces) :
                rs[j].crypto = OutCrypto(l, NextNumber(l) + j - 1) /\ rs[j].data = pieces[j]
    BY <1>11 DEF SocketTook
  <2>2. rs \in Seq(OutRecords(k)) /\ m.sockq = Append(k.sockq, [id |-> id, queued |-> yes, records |-> rs])
    BY <1>7, <1>8, <2>1
  <2>3. \A j \in 1 .. Len(rs) : rs[j].crypto = OutCrypto(k, NextNumber(k) + j - 1)
    BY <1>8, <2>1
  <2>4. Len(rs) = 1 /\ rs[1].data = <<id, first.written>>
    <3>1. 1 \in 1 .. Len(pieces)
      BY <1>10
    <3>. QED  BY <1>10, <2>1, <3>1
  <2>. QED  BY <2>2, <2>3, <2>4
<1>13. /\ SameBut(k, m, {"write", "tx", "sockq", "queue", "writes"}) /\ m.queue = l.queue
       /\ m.writes = k.writes /\ DOMAIN m = KTLSFields /\ Layer(m)
  BY <1>5, <1>7, <1>11 DEF SocketTook, SameBut, KTLSFields
<1>14. Numbered(m)
  <2>1. NextNumber(k) \in Nat /\ NextNumber(m) = NextNumber(k) + Len(rs) /\ Len(rs) >= 1
    BY <1>8, <1>10, <1>11, <1>12 DEF SocketTook
  <2>. QED  BY <1>1, <1>12, <1>13, <2>1, NumberedOn
<1>15. /\ m.answers = k.answers /\ m.out = k.out /\ m.setup = k.setup /\ m.sock = k.sock
       /\ m.alive = k.alive /\ OutRecords(m) = OutRecords(k)
  BY <1>1, <1>13, SameWrite
<1>. DEFINE entry == [id |-> id, queued |-> yes, records |-> rs]
            E == [id : Nat, queued : BOOLEAN, records : Seq(OutRecords(k))]
<1>16. entry \in E /\ entry.id = id /\ entry.queued /\ entry.records = rs
  BY <1>3 DEF yes
<1>17. k.sockq \in Seq(E) /\ m.sockq = Append(k.sockq, entry)
  BY <1>1, <1>12 DEF KTLSWriteTypes
<1>. HIDE DEF entry, E
<1>18. /\ m.sockq \in Seq(E) /\ n \in Nat /\ Len(m.sockq) = n + 1
       /\ (\A i \in 1 .. n : m.sockq[i] = k.sockq[i]) /\ m.sockq[n + 1] = entry
  BY <1>16, <1>17, Appended
<1>19. KTLSWriteTypes(m)
  BY <1>1, <1>6, <1>13, <1>15, <1>18 DEF KTLSWriteTypes, E, S
<1>20. a \in Nat /\ n \in Nat /\ Len(k.writes) = a + n + q /\ Direct(k, 0) = n
  BY <1>1, <1>18 DEF Counted, Direct, KTLSWriteTypes
<1>21. /\ \A i \in 1 .. a : k.answers[i].id = i
       /\ \A i \in 1 .. n :
            /\ ~k.sockq[i].queued /\ k.sockq[i].id = a + i
            /\ Len(k.sockq[i].records) = k.writes[a + i].size
            /\ \A j \in 1 .. Len(k.sockq[i].records) : k.sockq[i].records[j].data = <<a + i, j>>
       /\ \A j \in 1 .. q :
            /\ k.queue[j].id = a + n + j /\ k.queue[j].size = k.writes[a + n + j].size
            /\ j > 1 => k.queue[j].written = 0
  BY <1>1, <1>20 DEF Counted
<1>. HIDE DEF a, n, q
<1>22. Direct(m, 1) = n
  BY <1>18, <1>20 DEF Direct
<1>23. \A j \in 1 .. q :
            /\ m.queue[j].id = a + n + j /\ m.queue[j].size = m.writes[a + n + j].size
            /\ j > 1 => m.queue[j].written = 0
  <2>. TAKE j \in 1 .. q
  <2>1. CASE j = 1
    BY <1>3, <1>6, <1>13, <1>21, <2>1 DEF id
  <2>2. CASE j # 1
    <3>1. j \in 2 .. q
      BY <1>2, <2>2
    <3>. QED  BY <1>6, <1>13, <1>21, <3>1
  <2>. QED  BY <2>1, <2>2
<1>24. \A i \in 1 .. n :
            /\ ~m.sockq[i].queued /\ m.sockq[i].id = a + i
            /\ Len(m.sockq[i].records) = m.writes[a + i].size
            /\ \A j \in 1 .. Len(m.sockq[i].records) : m.sockq[i].records[j].data = <<a + i, j>>
  <2>. TAKE i \in 1 .. n
  <2>1. m.sockq[i] = k.sockq[i] /\ m.writes = k.writes
    BY <1>13, <1>18, Zenon
  <2>. QED  BY <1>21, <2>1, ZenonT(40)
<1>25. Counted(m, 1)
  <2>1. n >= 0 /\ Len(m.writes) = a + n + q
    BY <1>13, <1>20
  <2>2. Len(m.answers) = a /\ Len(m.queue) = q /\ \A i \in 1 .. a : m.answers[i].id = i
    BY <1>6, <1>13, <1>15, <1>21 DEF a
  <2>. QED  BY <1>22, <1>23, <1>24, <2>1, <2>2, Zenon DEF Counted
<1>26. k.queue[1].written < k.queue[1].size /\ k.queue[1].size \in Nat
  BY <1>1, <1>2 DEF Held, S
<1>27. Held(m, 1)
  <2>1. m.queue[1] = first /\ m.queue # <<>> /\ m.alive /\ first.written \in 1 .. first.size
    <3>1. m.queue[1] = first /\ m.queue # <<>>
      BY <1>6, <1>13, Zenon
    <3>2. m.alive
      BY <1>15, Zenon
    <3>. DEFINE x == k.queue[1].written
                y == k.queue[1].size
    <3>3. x \in Nat /\ y \in Nat /\ x < y /\ first.written = x + 1 /\ first.size = y
      BY <1>3, <1>26
    <3>. HIDE DEF x, y
    <3>4. x + 1 \in 1 .. y
      BY <3>3
    <3>. QED  BY <3>1, <3>2, <3>3, <3>4, Zenon
  <2>2. m.sockq[Len(m.sockq)] = entry
    BY <1>18
  <2>3. Len(entry.records) = 1 /\ entry.records[1].data = <<first.id, first.written>> /\ entry.queued /\ entry.id = first.id
    BY <1>3, <1>12, <1>16
  <2>4. m.setup.kind # "both"
    BY <1>1, <1>15 DEF Held
  <2>5. n > 0 => first.written = 1
    BY <1>1, <1>3, <1>20 DEF Held
  <2>. QED  BY <1>22, <2>1, <2>2, <2>3, <2>4, <2>5 DEF Held
<1>28. PieceNext(m, 1) = PieceNext(k, 0)
  <2>1. first.written + 1 - 1 = k.queue[1].written + 1 - 0
    BY <1>3
  <2>2. m.queue # <<>> /\ m.queue[1] = first /\ m.answers = k.answers
    BY <1>6, <1>13, <1>15
  <2>. QED  BY <1>20, <1>22, <2>1, <2>2 DEF PieceNext
<1>29. InOrder(m, 1)
  <2>1. Len(k.answers) <= Len(k.writes)
    BY <1>2, <1>20 DEF a
  <2>. QED  BY <1>1, <1>13, <1>15, <1>28, <2>1, OrderKept
<1>30. SameBut(k, m, WriteFields)
  BY <1>13 DEF SameBut, WriteFields
<1>31. WriteInv(m, 1)
  BY <1>13, <1>14, <1>15, <1>19, <1>25, <1>27, <1>29 DEF WriteInv
<1>. QED  BY <1>4, <1>6, <1>13, <1>30, <1>31

(* A write of the application, between two steps or in a callback before   *)
(* the next request has started.                                           *)
LEMMA AppWritesQueues ==
  ASSUME NEW k, NEW h, WriteInv(k, h), k.sock = "ktls", k.queue # <<>>, NEW w \in KTLSWrites
  PROVE  LET m == AppWrites(k, w)
         IN WriteInv(m, h) /\ m.queue # <<>> /\ SameBut(k, m, WriteFields) /\ m.alive = k.alive
<1>. DEFINE request == QueuedRequest(Len(k.writes) + 1, w.size)
            l == [k EXCEPT !.writes = Append(k.writes, w)]
<1>1. k.setup.kind # "both"
  BY DEF WriteInv, Held
<1>2. DOMAIN k = KTLSFields
  BY DEF WriteInv, KTLSWriteTypes
<1>. HIDE DEF request
<1>3. /\ l.setup = k.setup /\ l.queue = k.queue
      /\ [l EXCEPT !.queue = Append(l.queue, request)] =
           [k EXCEPT !.writes = Append(k.writes, w), !.queue = Append(k.queue, request)]
  BY <1>2 DEF KTLSFields
<1>. HIDE DEF l
<1>4. AppWrites(k, w) = [l EXCEPT !.queue = Append(l.queue, request)]
  BY <1>1, <1>3 DEF AppWrites, WriteChain, AppendRequest, l, request
<1>. DEFINE e == [k EXCEPT !.writes = Append(k.writes, w), !.queue = Append(k.queue, request)]
<1>5. WriteInv(e, h) /\ e.queue # <<>> /\ SameBut(k, e, WriteFields)
  BY <1>1, Enqueue DEF request
<1>6. AppWrites(k, w) = e
  BY <1>3, <1>4
<1>7. e.alive = k.alive
  BY <1>2 DEF KTLSFields
<1>. HIDE DEF e
<1>. QED  BY <1>5, <1>6, <1>7

LEMMA AppWritesKeeps ==
  ASSUME NEW k, WritesInv(k), k.sock = "ktls", NEW w \in KTLSWrites
  PROVE  WritesInv(AppWrites(k, w)) /\ SameBut(k, AppWrites(k, w), WriteFields)
<1>1. CASE k.queue # <<>>
  BY <1>1, AppWritesQueues DEF WritesInv
<1>2. CASE k.queue = <<>>
  <2>. DEFINE id == Len(k.writes) + 1
              request == QueuedRequest(id, w.size)
              l == [k EXCEPT !.writes = Append(k.writes, w)]
              e == [k EXCEPT !.writes = Append(k.writes, w), !.queue = Append(k.queue, request)]
              direct == SocketWrite(l, id, FALSE, Pieces(id, 0, w.size))
              m == AppWrites(k, w)
  <2>1. WriteInv(k, 0) /\ KTLSWriteTypes(k) /\ Counted(k, 0) /\ DOMAIN k = KTLSFields
    BY <1>2 DEF WritesInv, WriteInv, KTLSWriteTypes
  <2>2. Len(k.queue) = 0 /\ Len(k.answers) \in Nat
    BY <1>2, <2>1 DEF KTLSWriteTypes
  <2>3. SameBut(k, l, {"writes"}) /\ l.writes = Append(k.writes, w)
    BY <2>1 DEF SameBut, KTLSFields
  <2>4. SameBut(k, e, {"queue", "writes"}) /\ e.writes = Append(k.writes, w) /\ e.queue = <<request>>
    <3>. HIDE DEF request
    <3>1. Append(k.queue, request) = <<request>>
      BY <1>2
    <3>. QED  BY <2>1, <3>1 DEF SameBut, KTLSFields
  <2>5. [l EXCEPT !.queue = <<request>>] = e
    <3>. HIDE DEF request
    <3>. QED  BY <1>2, <2>1 DEF KTLSFields
  <2>6. m = direct \/ (m = StartWriting(e) /\ k.setup.kind # "both")
    <3>. HIDE DEF l, e, request, id
    <3>1. l.setup = k.setup /\ l.queue = <<>>
      BY <1>2, <2>3 DEF SameBut, KTLSFields
    <3>2. m = WriteChain(l, id, w)
      BY DEF AppWrites, l, id
    <3>3. CASE k.setup.kind = "both"
      BY <3>1, <3>2, <3>3 DEF WriteChain
    <3>4. CASE k.setup.kind # "both"
      <4>1. CASE NeedsToQueue(l, w)
        BY <2>5, <3>1, <3>2, <3>4, <4>1 DEF WriteChain, request
      <4>2. CASE ~NeedsToQueue(l, w)
        BY <3>1, <3>2, <3>4, <4>2 DEF WriteChain
      <4>. QED  BY <4>1, <4>2
    <3>. QED  BY <3>3, <3>4
  <2>7. CASE k.alive
    <3>1. CASE m = direct
      <4>1. WriteInv(direct, 0) /\ direct.queue = <<>> /\ SameBut(k, direct, WriteFields)
        BY <1>2, <2>1, <2>7, DirectWrite
      <4>. HIDE DEF direct, m
      <4>. QED  BY <3>1, <4>1 DEF WritesInv, m
    <3>2. CASE m = StartWriting(e) /\ k.setup.kind # "both"
      <4>1. WriteInv(e, 0) /\ e.queue # <<>> /\ SameBut(k, e, WriteFields)
        BY <2>1, <3>2, Enqueue
      <4>2. e.sock = "ktls" /\ e.alive
        BY <2>4, <2>7 DEF SameBut, KTLSFields
      <4>. HIDE DEF e, m
      <4>3. WriteInv(m, 1) /\ m.queue # <<>> /\ SameBut(e, m, WriteFields)
        BY <3>2, <4>1, <4>2, Started
      <4>4. SameBut(k, m, WriteFields)
        BY <4>1, <4>3 DEF SameBut
      <4>. QED  BY <4>3, <4>4 DEF WritesInv, m
    <3>. QED  BY <2>6, <3>1, <3>2
  <2>. QED  BY <2>1, <2>7 DEF WriteInv
<1>. QED  BY <1>1, <1>2

(* More went out, in the order of the pieces and up to a last one.         *)
GoesOn(k, out, last) ==
  /\ Len(out) \in Nat /\ Len(k.out) \in Nat /\ k.setup.wseq \in Nat
  /\ Len(out) > Len(k.out) /\ Len(k.out) >= k.setup.wseq
  /\ \A i \in 1 .. Len(k.out) : out[i] = k.out[i]
  /\ \A i \in k.setup.wseq + 1 .. Len(out) :
       /\ out[i].data[1] \in 1 .. Len(k.writes)
       /\ out[i].data = IF i = k.setup.wseq + 1 THEN <<1, 1>>
                        ELSE PieceAfter(k.writes, out[i - 1].data)
  /\ out[Len(out)].data = last

(* What goes out continues the pieces in order.                            *)
LEMMA OrderOut ==
  ASSUME NEW k, NEW h, KTLSWriteTypes(k), InOrder(k, h), k.alive,
         NEW x \in 1 .. Len(k.writes), NEW y \in Nat \ {0}, PieceNext(k, h) = <<x, y>>,
         NEW rs \in Seq(OutRecords(k)), Len(rs) >= 1, y + Len(rs) - 1 <= k.writes[x].size,
         \A j \in 1 .. Len(rs) : rs[j].data = <<x, y + j - 1>>
  PROVE  GoesOn(k, k.out \o rs, <<x, y + Len(rs) - 1>>)
<1>. DEFINE out == k.out \o rs
            o == Len(k.out)
            r == Len(rs)
            w == k.setup.wseq
<1>1. o \in Nat /\ r \in Nat /\ w \in Nat /\ o >= w /\ k.out \in Seq(OutRecords(k)) /\ k.writes[x].size \in Nat
  <2>1. k.writes[x] \in KTLSWrites
    BY DEF KTLSWriteTypes
  <2>. QED  BY <2>1, KTLSAssumption, SMTT(30) DEF KTLSWriteTypes, InOrder
<1>2. /\ out \in Seq(OutRecords(k)) /\ Len(out) = Len(k.out) + Len(rs)
      /\ \A i \in 1 .. Len(k.out) + Len(rs) : out[i] = IF i <= Len(k.out) THEN k.out[i] ELSE rs[i - Len(k.out)]
  BY <1>1, ConcatProperties
<1>0. o \in Nat /\ r \in Nat /\ w \in Nat /\ o >= w
  BY <1>1, Zenon
<1>3. /\ \A i \in w + 1 .. o :
           /\ k.out[i].data[1] \in 1 .. Len(k.writes)
           /\ k.out[i].data = IF i = w + 1 THEN <<1, 1>> ELSE PieceAfter(k.writes, k.out[i - 1].data)
      /\ <<x, y>> = IF o = w THEN <<1, 1>> ELSE PieceAfter(k.writes, k.out[o].data)
  BY DEF InOrder
<1>. HIDE DEF out, o, r, w
<1>4. Len(out) = o + r /\ \A i \in 1 .. o : out[i] = k.out[i]
  <2>1. Len(out) = o + r
    BY <1>2 DEF o, r
  <2>2. \A i \in 1 .. o : i \in 1 .. Len(k.out) + Len(rs) /\ i <= Len(k.out)
    BY <1>1 DEF o, r
  <2>. QED  BY <1>2, <2>1, <2>2
<1>5. \A j \in 1 .. r : out[o + j] = rs[j]
  <2>. TAKE j \in 1 .. r
  <2>. DEFINE z == o + j
  <2>1. z \in 1 .. Len(k.out) + Len(rs) /\ ~(z <= Len(k.out)) /\ z - Len(k.out) = j
    BY <1>1 DEF o, r
  <2>. HIDE DEF z
  <2>2. out[z] = rs[z - Len(k.out)]
    BY <1>2, <2>1
  <2>. QED  BY <2>1, <2>2 DEF z
<1>6. \A j \in 1 .. r : out[o + j].data = <<x, y + j - 1>>
  BY <1>5 DEF r
<1>7. \A j \in 1 .. r : j > 1 => PieceAfter(k.writes, out[o + j - 1].data) = <<x, y + j - 1>>
  <2>. SUFFICES ASSUME NEW j \in 1 .. r, j > 1
                PROVE  PieceAfter(k.writes, out[o + j - 1].data) = <<x, y + j - 1>>
    OBVIOUS
  <2>1. j - 1 \in 1 .. r /\ o + (j - 1) = o + j - 1 /\ y + (j - 1) - 1 = y + j - 2
    BY <1>1
  <2>2. out[o + j - 1].data = <<x, y + j - 2>>
    BY <1>6, <2>1
  <2>. DEFINE size == k.writes[x].size
  <2>5. size \in Nat /\ y + r - 1 <= size
    BY <1>1 DEF r
  <2>. HIDE DEF size
  <2>6. y + j - 2 < size /\ (y + j - 2) + 1 = y + j - 1
    BY <1>1, <2>5
  <2>3. y + j - 2 < k.writes[x].size /\ (y + j - 2) + 1 = y + j - 1
    BY <2>6 DEF size
  <2>. DEFINE z == y + j - 2
  <2>. HIDE DEF z
  <2>4. PieceAfter(k.writes, <<x, z>>) = IF z < k.writes[x].size THEN <<x, z + 1>> ELSE <<x + 1, 1>>
    BY DEF PieceAfter
  <2>. QED  BY <2>2, <2>3, <2>4 DEF z
<1>8. \A i \in w + 1 .. o + r :
        /\ out[i].data[1] \in 1 .. Len(k.writes)
        /\ out[i].data = IF i = w + 1 THEN <<1, 1>> ELSE PieceAfter(k.writes, out[i - 1].data)
  <2>. TAKE i \in w + 1 .. o + r
  <2>1. CASE i <= o
    <3>1. i \in 1 .. o /\ i \in w + 1 .. o /\ (i # w + 1 => i - 1 \in 1 .. o)
      BY <1>0, <2>1
    <3>. QED  BY <1>3, <1>4, <3>1
  <2>2. CASE i = o + 1
    <3>1. 1 \in 1 .. r /\ o + 1 = i /\ i - 1 = o /\ y + 1 - 1 = y
      BY <1>1, <2>2 DEF r
    <3>2. out[i].data = <<x, y>>
      BY <1>6, <3>1
    <3>3. CASE o = w
      BY <1>3, <2>2, <3>2, <3>3
    <3>4. CASE o # w
      <4>1. o \in 1 .. o /\ i # w + 1
        BY <1>0, <2>2, <3>4
      <4>2. out[i - 1] = k.out[o] /\ <<x, y>> = PieceAfter(k.writes, k.out[o].data)
        BY <1>3, <1>4, <3>1, <3>4, <4>1
      <4>3. out[i].data[1] = x
        BY <3>2
      <4>4. out[i].data = PieceAfter(k.writes, out[i - 1].data)
        BY <3>2, <4>2, Zenon
      <4>5. out[i].data[1] \in 1 .. Len(k.writes)
        BY <4>3, Zenon
      <4>. QED  BY <4>1, <4>4, <4>5, Zenon
    <3>. QED  BY <3>3, <3>4
  <2>3. CASE i > o + 1
    <3>1. i - o \in 1 .. r /\ i - o > 1 /\ o + (i - o) = i /\ o + (i - o) - 1 = i - 1 /\ i # w + 1
      BY <1>0, <2>3
    <3>2. out[i].data = <<x, y + (i - o) - 1>>
      BY <1>6, <3>1
    <3>3. PieceAfter(k.writes, out[i - 1].data) = <<x, y + (i - o) - 1>>
      BY <1>7, <3>1
    <3>. QED  BY <3>1, <3>2, <3>3
  <2>. QED  BY <1>0, <2>1, <2>2, <2>3
<1>9. out[o + r].data = <<x, y + r - 1>>
  <2>1. r \in 1 .. r
    BY <1>1 DEF r
  <2>. QED  BY <1>6, <2>1
<1>10. o + r \in Nat /\ o + r > o
  BY <1>1 DEF r
<1>11. GoesOn(k, out, <<x, y + Len(rs) - 1>>)
  BY <1>1, <1>4, <1>8, <1>9, <1>10 DEF o, r, w, GoesOn
<1>. QED  BY <1>11 DEF out

(* The socket without the write at its head, which is out.                 *)
LEMMA HeadOut ==
  ASSUME NEW k, NEW m, KTLSWriteTypes(k), Layer(k), Numbered(k), k.sock = "ktls", k.alive, k.sockq # <<>>,
         SameBut(k, m, {"sockq", "out", "queue", "answers"}),
         m.sockq = Tail(k.sockq), m.out = k.out \o k.sockq[1].records
  PROVE  /\ Layer(m) /\ Numbered(m) /\ k.sockq[1].records \in Seq(OutRecords(k)) /\ Len(k.sockq) \in Nat
         /\ Len(k.sockq) >= 1 /\ Len(m.sockq) = Len(k.sockq) - 1
         /\ \A i \in 1 .. Len(m.sockq) : m.sockq[i] = k.sockq[i + 1]
         /\ m.sockq \in Seq([id : Nat, queued : BOOLEAN, records : Seq(OutRecords(k))])
         /\ m.out \in Seq(OutRecords(k)) /\ OutRecords(m) = OutRecords(k)
<1>. DEFINE E == [id : Nat, queued : BOOLEAN, records : Seq(OutRecords(k))]
            n == Len(k.sockq)
            rs == k.sockq[1].records
            r == Len(rs)
            o == Len(k.out)
<1>1. /\ m.setup = k.setup /\ m.sock = "ktls" /\ m.alive /\ m.tx = k.tx /\ m.write = k.write
      /\ OutRecords(m) = OutRecords(k) /\ (\A i : OutCrypto(m, i) = OutCrypto(k, i))
      /\ NextNumber(m) = NextNumber(k)
  BY DEF SameBut, KTLSFields, OutRecords, OutCrypto, NextNumber
<1>2. Layer(m)
  BY <1>1 DEF Layer
<1>3. k.sockq \in Seq(E) /\ k.out \in Seq(OutRecords(k))
  BY DEF KTLSWriteTypes
<1>. HIDE DEF E
<1>4. /\ n \in Nat /\ n >= 1 /\ k.sockq[1] \in E /\ m.sockq \in Seq(E) /\ Len(m.sockq) = n - 1
      /\ \A i \in 1 .. n - 1 : m.sockq[i] = k.sockq[i + 1]
  BY <1>3
<1>5. rs \in Seq(OutRecords(k)) /\ r \in Nat /\ o \in Nat
  <2>1. rs \in Seq(OutRecords(k))
    BY <1>4 DEF E
  <2>. QED  BY <1>3, <2>1
<1>6. /\ m.out \in Seq(OutRecords(k)) /\ Len(m.out) = Len(k.out) + Len(rs)
      /\ \A i \in 1 .. Len(k.out) + Len(rs) : m.out[i] = IF i <= Len(k.out) THEN k.out[i] ELSE rs[i - Len(k.out)]
  <2>. HIDE DEF rs
  <2>1. m.out = k.out \o rs
    BY DEF rs
  <2>. QED  BY <1>3, <1>5, <2>1, ConcatProperties
<1>7. /\ \A i \in 1 .. o : k.out[i].crypto = OutCrypto(k, i - 1)
      /\ StartOf(k, 1) = o
      /\ \A i \in 1 .. n :
           /\ Len(k.sockq[i].records) >= 1
           /\ StartOf(k, i + 1) = StartOf(k, i) + Len(k.sockq[i].records)
           /\ \A j \in 1 .. Len(k.sockq[i].records) :
                k.sockq[i].records[j].crypto = OutCrypto(k, StartOf(k, i) + j - 1)
  BY DEF Numbered
<1>8. StartOf(k, 2) = o + r /\ \A j \in 1 .. r : rs[j].crypto = OutCrypto(k, o + j - 1)
  <2>1. 1 \in 1 .. n /\ 1 + 1 = 2
    BY <1>4
  <2>. QED  BY <1>7, <2>1
<1>9. \A i \in 1 .. n : StartOf(m, i) = StartOf(k, i + 1)
  <2>. TAKE i \in 1 .. n
  <2>1. CASE i = n
    <3>1. ~(i <= Len(m.sockq)) /\ ~(i + 1 <= Len(k.sockq))
      BY <1>4, <2>1
    <3>. QED  BY <1>1, <3>1 DEF StartOf
  <2>2. CASE i # n
    <3>1. i <= Len(m.sockq) /\ i + 1 <= Len(k.sockq) /\ i \in 1 .. n - 1
      BY <1>4, <2>2
    <3>. QED  BY <1>4, <3>1 DEF StartOf
  <2>. QED  BY <2>1, <2>2
<1>. HIDE DEF n, r, o
<1>10. StartOf(m, 1) = Len(m.out)
  <2>1. 1 \in 1 .. n /\ 1 + 1 = 2
    BY <1>4
  <2>. QED  BY <1>6, <1>8, <1>9, <2>1 DEF o, r
<1>. HIDE DEF rs
<1>11. \A i \in 1 .. Len(m.out) : m.out[i].crypto = OutCrypto(m, i - 1)
  <2>. TAKE i \in 1 .. Len(m.out)
  <2>0. i \in 1 .. Len(k.out) + Len(rs)
    BY <1>6
  <2>1. CASE i <= o
    <3>1. i \in 1 .. o /\ i <= Len(k.out)
      BY <1>5, <2>1 DEF o
    <3>. QED  BY <1>1, <1>6, <1>7, <2>0, <3>1
  <2>2. CASE ~(i <= o)
    <3>. DEFINE j == i - o
    <3>1. j \in 1 .. r /\ o + j - 1 = i - 1 /\ i - Len(k.out) = j /\ ~(i <= Len(k.out))
      BY <1>5, <2>0, <2>2 DEF o, r
    <3>. HIDE DEF j
    <3>2. m.out[i] = rs[j]
      BY <1>6, <2>0, <3>1
    <3>3. rs[j].crypto = OutCrypto(k, o + j - 1)
      BY <1>8, <3>1
    <3>. QED  BY <1>1, <3>1, <3>2, <3>3
  <2>. QED  BY <2>1, <2>2
<1>12. ASSUME NEW i \in 1 .. Len(m.sockq)
       PROVE  /\ Len(m.sockq[i].records) >= 1
              /\ StartOf(m, i + 1) = StartOf(m, i) + Len(m.sockq[i].records)
              /\ \A j \in 1 .. Len(m.sockq[i].records) :
                   m.sockq[i].records[j].crypto = OutCrypto(m, StartOf(m, i) + j - 1)
  <2>1. i \in 1 .. n - 1 /\ i \in 1 .. n /\ i + 1 \in 1 .. n
    BY <1>4 DEF n
  <2>2. m.sockq[i] = k.sockq[i + 1] /\ StartOf(m, i) = StartOf(k, i + 1) /\ StartOf(m, i + 1) = StartOf(k, (i + 1) + 1)
    BY <1>4, <1>9, <2>1
  <2>3. /\ Len(k.sockq[i + 1].records) >= 1
        /\ StartOf(k, (i + 1) + 1) = StartOf(k, i + 1) + Len(k.sockq[i + 1].records)
        /\ \A j \in 1 .. Len(k.sockq[i + 1].records) :
             k.sockq[i + 1].records[j].crypto = OutCrypto(k, StartOf(k, i + 1) + j - 1)
    BY <1>7, <2>1
  <2>. QED  BY <1>1, <2>2, <2>3
<1>13. Numbered(m)
  BY <1>10, <1>11, <1>12 DEF Numbered
<1>. QED  BY <1>1, <1>2, <1>4, <1>5, <1>6, <1>13 DEF E, n, rs

(* What goes out ends with the last piece of the write at the head.        *)
EndsWrite(k, h, x, y, rs) ==
  /\ x = Len(k.answers) + 1 /\ x \in 1 .. Len(k.writes) /\ y \in Nat \ {0}
  /\ PieceNext(k, h) = <<x, y>>
  /\ rs \in Seq(OutRecords(k)) /\ Len(rs) >= 1 /\ y + Len(rs) - 1 = k.writes[x].size
  /\ \A j \in 1 .. Len(rs) : rs[j].data = <<x, y + j - 1>>

(* The last piece of a write is out and the write is answered.             *)
LEMMA AnsweredOrder ==
  ASSUME NEW k, NEW h, NEW m, NEW g, KTLSWriteTypes(k), InOrder(k, h), k.alive,
         NEW x, NEW y, NEW rs, EndsWrite(k, h, x, y, rs),
         m.out = k.out \o rs, m.setup = k.setup, m.writes = k.writes,
         m.answers = Append(k.answers, [id |-> x, ok |-> TRUE]),
         PieceNext(m, g) = <<x + 1, 1>>
  PROVE  InOrder(m, g)
<1>0. /\ x = Len(k.answers) + 1 /\ x \in 1 .. Len(k.writes) /\ y \in Nat \ {0}
      /\ PieceNext(k, h) = <<x, y>>
      /\ rs \in Seq(OutRecords(k)) /\ Len(rs) >= 1 /\ y + Len(rs) - 1 = k.writes[x].size
      /\ \A j \in 1 .. Len(rs) : rs[j].data = <<x, y + j - 1>>
  BY DEF EndsWrite
<1>. DEFINE A == [id : Nat, ok : BOOLEAN]
            last == [id |-> x, ok |-> TRUE]
            a == Len(k.answers)
<1>1. k.answers \in Seq(A) /\ a \in Nat
  BY DEF KTLSWriteTypes
<1>2. last \in A /\ last.id = x /\ m.answers = Append(k.answers, last)
  BY <1>0, <1>1
<1>. HIDE DEF last, A
<1>3. /\ m.answers \in Seq(A) /\ Len(m.answers) = a + 1
      /\ (\A i \in 1 .. a : m.answers[i] = k.answers[i]) /\ m.answers[a + 1] = last
  BY <1>1, <1>2, Appended
<1>4. k.writes[x].size \in Nat /\ Len(rs) \in Nat
  <2>1. k.writes[x] \in KTLSWrites
    BY <1>0 DEF KTLSWriteTypes
  <2>. QED  BY <1>0, <2>1, KTLSAssumption
<1>. DEFINE o == Len(k.out)
            p == Len(m.out)
<1>5. GoesOn(k, m.out, <<x, y + Len(rs) - 1>>)
  <2>1. y + Len(rs) - 1 <= k.writes[x].size
    BY <1>0, <1>4
  <2>2. GoesOn(k, k.out \o rs, <<x, y + Len(rs) - 1>>)
    BY <1>0, <2>1, OrderOut
  <2>. QED  BY <2>2, Zenon
<1>6. m.out[Len(m.out)].data = <<x, k.writes[x].size>>
  BY <1>0, <1>5 DEF GoesOn
<1>7. o \in Nat /\ p \in Nat /\ p > o /\ k.setup.wseq \in Nat /\ o >= k.setup.wseq
      /\ \A i \in 1 .. o : m.out[i] = k.out[i]
  BY <1>5 DEF GoesOn
<1>8. PieceNext(m, g) = PieceAfter(m.writes, m.out[Len(m.out)].data)
  <2>. DEFINE z == k.writes[x].size
  <2>1. ~(z < z)
    BY <1>4
  <2>. HIDE DEF z
  <2>2. PieceAfter(m.writes, <<x, z>>) = <<x + 1, 1>>
    BY <2>1 DEF PieceAfter, z
  <2>. QED  BY <1>6, <2>2 DEF z
<1>9. \A i \in 1 .. Len(m.answers) : m.answers[i].ok =>
        \E j \in 1 .. Len(m.out) : m.out[j].data = <<i, m.writes[i].size>>
  <2>. SUFFICES ASSUME NEW i \in 1 .. Len(m.answers), m.answers[i].ok
                PROVE  \E j \in 1 .. Len(m.out) : m.out[j].data = <<i, m.writes[i].size>>
    OBVIOUS
  <2>1. CASE i \in 1 .. a
    <3>1. k.answers[i].ok
      BY <1>3, <2>1
    <3>2. PICK j \in 1 .. Len(k.out) : k.out[j].data = <<i, k.writes[i].size>>
      BY <2>1, <3>1 DEF InOrder
    <3>3. j \in 1 .. Len(m.out) /\ m.out[j] = k.out[j]
      BY <1>7
    <3>4. m.out[j].data = <<i, m.writes[i].size>>
      BY <3>2, <3>3
    <3>. QED  BY <3>3, <3>4
  <2>2. CASE i = x
    <3>1. Len(m.out) \in 1 .. Len(m.out)
      BY <1>7
    <3>2. m.out[Len(m.out)].data = <<i, m.writes[i].size>>
      BY <1>6, <2>2
    <3>. QED  BY <3>1, <3>2
  <2>3. i \in 1 .. a \/ i = x
    <3>1. i \in 1 .. a + 1 /\ x = a + 1
      BY <1>0, <1>3
    <3>. HIDE DEF a
    <3>. QED  BY <1>1, <3>1
  <2>. QED  BY <2>1, <2>2, <2>3
<1>10. \A i \in m.setup.wseq + 1 .. Len(m.out) :
           /\ m.out[i].data[1] \in 1 .. Len(m.writes)
           /\ m.out[i].data = IF i = m.setup.wseq + 1 THEN <<1, 1>>
                              ELSE PieceAfter(m.writes, m.out[i - 1].data)
  BY <1>5 DEF GoesOn
<1>11. Len(m.out) # m.setup.wseq /\ Len(m.out) >= m.setup.wseq
  BY <1>7
<1>12. InOrder(m, g)
  BY <1>8, <1>9, <1>10, <1>11, Zenon DEF InOrder
<1>. QED  BY <1>12

(* A write that was made directly is out.                                  *)
LEMMA DirectSent ==
  ASSUME NEW k, WritesInv(k), k.sock = "ktls", k.alive, k.sockq # <<>>, ~k.sockq[1].queued,
         NEW m, SameBut(k, m, {"sockq", "out", "answers"}),
         m.sockq = Tail(k.sockq), m.out = k.out \o k.sockq[1].records,
         m.answers = Append(k.answers, [id |-> k.sockq[1].id, ok |-> TRUE])
  PROVE  WritesInv(m) /\ SameBut(k, m, WriteFields)
<1>. DEFINE h == IF k.queue = <<>> THEN 0 ELSE 1
            a == Len(k.answers)
            n == Direct(k, h)
            q == Len(k.queue)
            x == a + 1
            rs == k.sockq[1].records
<1>1. /\ KTLSWriteTypes(k) /\ Layer(k) /\ Numbered(k) /\ Counted(k, h) /\ Held(k, h) /\ InOrder(k, h) /\ h \in {0, 1}
      /\ (k.queue = <<>> => h = 0)
  BY DEF WritesInv, WriteInv
<1>2. /\ m.setup = k.setup /\ m.sock = k.sock /\ m.alive = k.alive /\ m.tx = k.tx /\ m.write = k.write
      /\ m.queue = k.queue /\ m.writes = k.writes /\ DOMAIN m = KTLSFields
      /\ SameBut(k, m, {"sockq", "out", "queue", "answers"}) /\ SameBut(k, m, WriteFields)
  BY DEF SameBut, KTLSFields, WriteFields
<1>3. /\ Layer(m) /\ Numbered(m) /\ rs \in Seq(OutRecords(k)) /\ Len(k.sockq) \in Nat
      /\ Len(k.sockq) >= 1 /\ Len(m.sockq) = Len(k.sockq) - 1
      /\ \A i \in 1 .. Len(m.sockq) : m.sockq[i] = k.sockq[i + 1]
      /\ m.sockq \in Seq([id : Nat, queued : BOOLEAN, records : Seq(OutRecords(k))])
      /\ m.out \in Seq(OutRecords(k)) /\ OutRecords(m) = OutRecords(k)
  BY <1>1, <1>2, HeadOut
<1>. HIDE DEF h
<1>. DEFINE l == Len(k.sockq)
            u == Len(k.writes)
<1>4. n = l - h /\ a \in Nat /\ q \in Nat /\ n \in Nat /\ u \in Nat /\ u = a + n + q /\ l \in Nat /\ l >= 1
      /\ h \in {0, 1}
  <2>1. a \in Nat /\ q \in Nat /\ u \in Nat
    <3>1. k.answers \in Seq([id : Nat, ok : BOOLEAN])
      BY <1>1 DEF KTLSWriteTypes
    <3>2. k.queue \in Seq([id : Nat, size : Nat, written : Nat]) /\ k.writes \in Seq(KTLSWrites)
      BY <1>1 DEF KTLSWriteTypes
    <3>. QED  BY <3>1, <3>2, LenProperties
  <2>2. n = l - h /\ n >= 0 /\ u = a + n + q
    <3>1. n = l - h
      BY DEF Direct
    <3>2. n >= 0 /\ u = a + n + q
      BY <1>1 DEF Counted
    <3>. QED  BY <3>1, <3>2
  <2>3. l \in Nat /\ l >= 1 /\ h \in {0, 1}
    BY <1>1, <1>3
  <2>. HIDE DEF a, n, q, l, u
  <2>. QED  BY <2>1, <2>2, <2>3
<1>5. n >= 1
  <2>1. h = 1 => l # 1
    BY <1>1 DEF Held
  <2>. HIDE DEF a, n, q, l, u
  <2>. QED  BY <1>4, <2>1
<1>6. /\ \A i \in 1 .. a : k.answers[i].id = i
      /\ \A i \in 1 .. n :
           /\ ~k.sockq[i].queued /\ k.sockq[i].id = a + i
           /\ Len(k.sockq[i].records) = k.writes[a + i].size
           /\ \A j \in 1 .. Len(k.sockq[i].records) : k.sockq[i].records[j].data = <<a + i, j>>
      /\ \A j \in 1 .. q :
           /\ k.queue[j].id = a + n + j /\ k.queue[j].size = k.writes[a + n + j].size
           /\ j > 1 => k.queue[j].written = 0
  BY <1>1 DEF Counted
<1>. HIDE DEF a, n, q, rs, l, u
<1>7. /\ k.sockq[1].id = x /\ Len(rs) = k.writes[x].size /\ \A j \in 1 .. Len(rs) : rs[j].data = <<x, j>>
  <2>1. 1 \in 1 .. n
    BY <1>4, <1>5
  <2>. QED  BY <1>6, <2>1 DEF rs
<1>. HIDE DEF x
<1>8. x \in Nat /\ x \in 1 .. Len(k.writes) /\ x = Len(k.answers) + 1
  <2>1. x \in Nat /\ x \in 1 .. u
    BY <1>4, <1>5 DEF x
  <2>. QED  BY <2>1 DEF x, a, u
<1>9. k.writes[x].size \in Nat \ {0}
  <2>1. k.writes[x] \in KTLSWrites
    BY <1>1, <1>8 DEF KTLSWriteTypes
  <2>. QED  BY <2>1, KTLSAssumption
<1>10. Direct(m, h) = n - 1
  <2>1. Len(m.sockq) = l - 1
    BY <1>3 DEF l
  <2>2. Direct(m, h) = (l - 1) - h
    BY <2>1 DEF Direct
  <2>. QED  BY <1>4, <2>2
<1>11. PieceNext(k, h) = <<x, 1>>
  <2>1. n > 0
    BY <1>4, <1>5
  <2>. QED  BY <1>8, <2>1, Zenon DEF PieceNext, n
<1>12. /\ Len(m.answers) = x /\ m.answers \in Seq([id : Nat, ok : BOOLEAN])
       /\ (\A i \in 1 .. a : m.answers[i] = k.answers[i]) /\ m.answers[x].id = x
  <2>. DEFINE last == [id |-> x, ok |-> TRUE]
              A == [id : Nat, ok : BOOLEAN]
  <2>1. last \in A /\ last.id = x /\ m.answers = Append(k.answers, last)
    BY <1>7, <1>8
  <2>2. k.answers \in Seq(A)
    BY <1>1 DEF KTLSWriteTypes
  <2>. HIDE DEF last, A
  <2>3. /\ Len(m.answers) = a + 1 /\ m.answers \in Seq(A)
        /\ (\A i \in 1 .. a : m.answers[i] = k.answers[i]) /\ m.answers[a + 1] = last
    BY <2>1, <2>2, Appended DEF a
  <2>. QED  BY <2>1, <2>3 DEF x, A
<1>13. k.queue # <<>> => k.queue[1].written = h
  BY <1>1, <1>4, <1>5 DEF Held, n
<1>14. PieceNext(m, h) = <<x + 1, 1>>
  <2>1. m.queue # <<>> => m.queue[1].written + 1 - h = 1
    BY <1>1, <1>2, <1>13
  <2>. QED  BY <1>12, <2>1 DEF PieceNext
<1>15. InOrder(m, h)
  <2>1. Len(rs) >= 1 /\ 1 + Len(rs) - 1 = k.writes[x].size /\ \A j \in 1 .. Len(rs) : 1 + j - 1 = j
    BY <1>7, <1>9
  <2>2. \A j \in 1 .. Len(rs) : rs[j].data = <<x, 1 + j - 1>>
    BY <1>7, <2>1
  <2>3. m.out = k.out \o rs /\ m.answers = Append(k.answers, [id |-> x, ok |-> TRUE])
    BY <1>7 DEF rs
  <2>4. 1 \in Nat \ {0}
    OBVIOUS
  <2>. DEFINE one == 1
  <2>5. EndsWrite(k, h, x, one, rs)
    BY <1>3, <1>8, <1>11, <2>1, <2>2, <2>4 DEF EndsWrite
  <2>6. m.setup = k.setup /\ m.writes = k.writes
    BY <1>2
  <2>. HIDE DEF one
  <2>. QED  BY <1>1, <1>14, <2>3, <2>5, <2>6, AnsweredOrder
<1>16. KTLSWriteTypes(m)
  BY <1>1, <1>2, <1>3, <1>12 DEF KTLSWriteTypes
<1>17. Counted(m, h)
  <2>1. \A i \in 1 .. x : m.answers[i].id = i
    <3>. TAKE i \in 1 .. x
    <3>1. CASE i \in 1 .. a
      BY <1>6, <1>12, <3>1
    <3>2. i \in 1 .. a \/ i = x
      BY <1>4 DEF x
    <3>. QED  BY <1>12, <3>1, <3>2
  <2>2. ASSUME NEW i \in 1 .. n - 1
        PROVE  /\ ~m.sockq[i].queued /\ m.sockq[i].id = x + i
               /\ Len(m.sockq[i].records) = m.writes[x + i].size
               /\ \A j \in 1 .. Len(m.sockq[i].records) : m.sockq[i].records[j].data = <<x + i, j>>
    <3>0. i + 1 \in 1 .. n /\ a + (i + 1) = x + i /\ i \in 1 .. l - 1
      BY <1>4 DEF x
    <3>1. i + 1 \in 1 .. n /\ a + (i + 1) = x + i /\ i \in 1 .. Len(m.sockq)
      BY <1>3, <3>0 DEF l
    <3>2. m.sockq[i] = k.sockq[i + 1]
      BY <1>3, <3>1
    <3>3. /\ ~k.sockq[i + 1].queued /\ k.sockq[i + 1].id = a + (i + 1)
          /\ Len(k.sockq[i + 1].records) = k.writes[a + (i + 1)].size
          /\ \A j \in 1 .. Len(k.sockq[i + 1].records) : k.sockq[i + 1].records[j].data = <<a + (i + 1), j>>
      BY <1>6, <3>1
    <3>. QED  BY <1>2, <3>1, <3>2, <3>3
  <2>3. x + (n - 1) = a + n /\ n - 1 >= 0 /\ Len(m.writes) = x + (n - 1) + q
    <3>1. x + (n - 1) = a + n /\ n - 1 >= 0 /\ u = x + (n - 1) + q
      BY <1>4, <1>5 DEF x
    <3>. QED  BY <1>2, <3>1 DEF u
  <2>4. \A j \in 1 .. q :
           /\ m.queue[j].id = x + (n - 1) + j /\ m.queue[j].size = m.writes[x + (n - 1) + j].size
           /\ j > 1 => m.queue[j].written = 0
    BY <1>2, <1>6, <2>3
  <2>5. Len(m.queue) = q
    BY <1>2 DEF q
  <2>6. Len(m.answers) = x
    BY <1>12
  <2>. DEFINE d == n - 1
  <2>7. Direct(m, h) = d
    BY <1>10
  <2>8. d >= 0 /\ Len(m.writes) = x + d + q
    BY <2>3
  <2>. HIDE DEF d
  <2>9. \A i \in 1 .. d :
          /\ ~m.sockq[i].queued /\ m.sockq[i].id = x + i
          /\ Len(m.sockq[i].records) = m.writes[x + i].size
          /\ \A j \in 1 .. Len(m.sockq[i].records) : m.sockq[i].records[j].data = <<x + i, j>>
    BY <2>2 DEF d
  <2>10. \A j \in 1 .. q :
           /\ m.queue[j].id = x + d + j /\ m.queue[j].size = m.writes[x + d + j].size
           /\ j > 1 => m.queue[j].written = 0
    BY <2>4 DEF d
  <2>. QED  BY <2>1, <2>5, <2>6, <2>7, <2>8, <2>9, <2>10 DEF Counted
<1>18. Held(m, h)
  <2>1. h = 1 => m.sockq[Len(m.sockq)] = k.sockq[Len(k.sockq)]
    <3>. SUFFICES ASSUME h = 1 PROVE m.sockq[Len(m.sockq)] = k.sockq[Len(k.sockq)]
      OBVIOUS
    <3>1. Len(m.sockq) \in 1 .. Len(m.sockq) /\ Len(m.sockq) + 1 = Len(k.sockq)
      <4>1. l - 1 \in 1 .. l - 1 /\ (l - 1) + 1 = l
        BY <1>4, <1>5
      <4>. QED  BY <1>3, <4>1 DEF l
    <3>. QED  BY <1>3, <3>1
  <2>2. m.queue # <<>> => m.queue[1].written = h
    BY <1>2, <1>13
  <2>. QED  BY <1>1, <1>2, <2>1, <2>2 DEF Held
<1>19. WriteInv(m, h)
  BY <1>1, <1>2, <1>3, <1>15, <1>16, <1>17, <1>18 DEF WriteInv
<1>. QED  BY <1>2, <1>19 DEF WritesInv, h

(* When a piece of the queue is at the head of the socket, it is all that  *)
(* the socket holds, and it is the next piece of the oldest write.         *)
QueueAtHead(k) ==
  /\ WriteInv(k, 1) /\ k.queue # <<>> /\ Len(k.sockq) = 1
  /\ Len(k.answers) \in Nat /\ Len(k.queue) \in Nat /\ Len(k.queue) >= 1
  /\ Len(k.writes) = Len(k.answers) + Len(k.queue)
  /\ k.queue[1].id = Len(k.answers) + 1
  /\ k.writes[Len(k.answers) + 1].size = k.queue[1].size
  /\ k.queue[1].size \in Nat /\ k.queue[1].written \in 1 .. k.queue[1].size
  /\ Len(k.sockq[1].records) = 1
  /\ k.sockq[1].records[1].data = <<Len(k.answers) + 1, k.queue[1].written>>
  /\ PieceNext(k, 1) = <<Len(k.answers) + 1, k.queue[1].written>>

LEMMA QueuedHead ==
  ASSUME NEW k, WritesInv(k), k.sockq # <<>>, k.sockq[1].queued
  PROVE  QueueAtHead(k)
<1>. DEFINE h == IF k.queue = <<>> THEN 0 ELSE 1
            l == Len(k.sockq)
            a == Len(k.answers)
            q == Len(k.queue)
            u == Len(k.writes)
            n == Direct(k, h)
<1>1. /\ WriteInv(k, h) /\ KTLSWriteTypes(k) /\ Counted(k, h) /\ Held(k, h)
  BY DEF WritesInv, WriteInv
<1>2. a \in Nat /\ q \in Nat /\ u \in Nat /\ l \in Nat /\ l >= 1
  <2>1. k.answers \in Seq([id : Nat, ok : BOOLEAN])
    BY <1>1 DEF KTLSWriteTypes
  <2>2. k.queue \in Seq([id : Nat, size : Nat, written : Nat]) /\ k.writes \in Seq(KTLSWrites)
    BY <1>1 DEF KTLSWriteTypes
  <2>3. k.sockq \in Seq([id : Nat, queued : BOOLEAN, records : Seq(OutRecords(k))])
    BY <1>1 DEF KTLSWriteTypes
  <2>. DEFINE E == [id : Nat, queued : BOOLEAN, records : Seq(OutRecords(k))]
  <2>. HIDE DEF E
  <2>4. k.sockq \in Seq(E)
    BY <2>3 DEF E
  <2>5. l \in Nat /\ l >= 1
    BY <2>4
  <2>. QED  BY <2>1, <2>2, <2>5, LenProperties
<1>3. n = l - h /\ n >= 0 /\ u = a + n + q
  <2>1. n = l - h
    BY DEF Direct
  <2>2. n >= 0 /\ u = a + n + q
    BY <1>1 DEF Counted
  <2>. QED  BY <2>1, <2>2
<1>4. ~(1 \in 1 .. n)
  BY <1>1 DEF Counted
<1>5. h \in {0, 1} /\ (k.queue # <<>> => h = 1) /\ (h = 1 => k.queue # <<>>)
  OBVIOUS
<1>6. k.queue \in Seq([id : Nat, size : Nat, written : Nat])
  BY <1>1 DEF KTLSWriteTypes
<1>. DEFINE Q == [id : Nat, size : Nat, written : Nat]
<1>7. k.queue # <<>> => q >= 1 /\ k.queue[1] \in Q
  <2>. HIDE DEF Q
  <2>1. k.queue \in Seq(Q)
    BY <1>6 DEF Q
  <2>. QED  BY <2>1
<1>. HIDE DEF h, l, a, q, u, n
<1>8. n = 0 /\ h = 1 /\ l = 1 /\ u = a + q
  BY <1>2, <1>3, <1>4, <1>5
<1>9. k.queue # <<>> /\ q >= 1 /\ k.queue[1].size \in Nat /\ k.queue[1].written \in Nat
  BY <1>5, <1>7, <1>8
<1>10. k.queue[1].id = a + 1 /\ k.queue[1].size = k.writes[a + 1].size
  <2>1. 1 \in 1 .. q /\ a + n + 1 = a + 1
    BY <1>2, <1>8, <1>9
  <2>2. k.queue[1].id = a + n + 1 /\ k.queue[1].size = k.writes[a + n + 1].size
    BY <1>1, <2>1 DEF Counted, a, n, q
  <2>. QED  BY <2>1, <2>2
<1>11. /\ k.queue[1].written \in 1 .. k.queue[1].size /\ Len(k.sockq[1].records) = 1
       /\ k.sockq[1].records[1].data = <<a + 1, k.queue[1].written>>
  <2>1. /\ k.queue[1].written \in 1 .. k.queue[1].size /\ Len(k.sockq[l].records) = 1
        /\ k.sockq[l].records[1].data = <<k.queue[1].id, k.queue[1].written>>
    BY <1>1, <1>8 DEF Held, l
  <2>. QED  BY <1>8, <1>10, <2>1
<1>12. PieceNext(k, 1) = <<a + 1, k.queue[1].written>>
  <2>1. ~(n > 0) /\ k.queue[1].written + 1 - h = k.queue[1].written
    BY <1>8, <1>9
  <2>2. PieceNext(k, h) = <<a + 1, k.queue[1].written>>
    BY <1>9, <2>1, Zenon DEF PieceNext, n, a
  <2>. QED  BY <1>8, <2>2
<1>13. WriteInv(k, 1)
  BY <1>1, <1>8
<1>. QED  BY <1>2, <1>8, <1>9, <1>10, <1>11, <1>12, <1>13 DEF QueueAtHead, l, a, q, u

(* A piece of the queue is out that is not the last of its write.          *)
LEMMA PieceOut ==
  ASSUME NEW k, QueueAtHead(k), k.sock = "ktls", k.alive, k.queue[1].written < k.queue[1].size,
         NEW m, SameBut(k, m, {"sockq", "out"}),
         m.sockq = Tail(k.sockq), m.out = k.out \o k.sockq[1].records
  PROVE  WriteInv(m, 0) /\ SameBut(k, m, WriteFields) /\ m.alive = k.alive /\ m.queue = k.queue
<1>. DEFINE a == Len(k.answers)
            q == Len(k.queue)
            x == a + 1
            y == k.queue[1].written
            z == k.queue[1].size
            rs == k.sockq[1].records
<1>1. /\ KTLSWriteTypes(k) /\ Layer(k) /\ Numbered(k) /\ Counted(k, 1) /\ Held(k, 1) /\ InOrder(k, 1)
  BY DEF QueueAtHead, WriteInv
<1>2. /\ m.setup = k.setup /\ m.sock = k.sock /\ m.alive = k.alive /\ m.tx = k.tx /\ m.write = k.write
      /\ m.queue = k.queue /\ m.writes = k.writes /\ m.answers = k.answers /\ DOMAIN m = KTLSFields
      /\ SameBut(k, m, {"sockq", "out", "queue", "answers"}) /\ SameBut(k, m, WriteFields)
  BY DEF SameBut, KTLSFields, WriteFields
<1>3. /\ Len(k.sockq) = 1 /\ a \in Nat /\ q \in Nat /\ q >= 1 /\ Len(k.writes) = a + q
      /\ k.queue[1].id = x /\ k.writes[x].size = z /\ z \in Nat /\ y \in 1 .. z /\ Len(rs) = 1
      /\ rs[1].data = <<x, y>> /\ PieceNext(k, 1) = <<x, y>> /\ k.queue # <<>>
  BY DEF QueueAtHead
<1>4. /\ Layer(m) /\ Numbered(m) /\ rs \in Seq(OutRecords(k)) /\ Len(m.sockq) = 0
      /\ m.sockq \in Seq([id : Nat, queued : BOOLEAN, records : Seq(OutRecords(k))])
      /\ m.out \in Seq(OutRecords(k)) /\ OutRecords(m) = OutRecords(k)
  <2>1. k.sockq # <<>>
    BY <1>3
  <2>2. /\ Layer(m) /\ Numbered(m) /\ k.sockq[1].records \in Seq(OutRecords(k)) /\ Len(m.sockq) = Len(k.sockq) - 1
        /\ m.sockq \in Seq([id : Nat, queued : BOOLEAN, records : Seq(OutRecords(k))])
        /\ m.out \in Seq(OutRecords(k)) /\ OutRecords(m) = OutRecords(k)
    BY <1>1, <1>2, <2>1, HeadOut
  <2>3. Len(m.sockq) = 0
    BY <1>3, <2>2
  <2>. QED  BY <2>2, <2>3
<1>. HIDE DEF a, q, x, y, z, rs
<1>5. x \in 1 .. Len(k.writes) /\ y \in Nat \ {0} /\ y < z /\ y + Len(rs) - 1 = y /\ Len(rs) >= 1
  <2>1. x \in 1 .. Len(k.writes)
    BY <1>3 DEF x
  <2>2. y < z
    BY DEF y, z
  <2>. QED  BY <1>3, <2>1, <2>2
<1>6. GoesOn(k, m.out, <<x, y>>)
  <2>1. \A j \in 1 .. Len(rs) : rs[j].data = <<x, y + j - 1>>
    <3>. TAKE j \in 1 .. Len(rs)
    <3>1. j = 1 /\ y + j - 1 = y
      BY <1>3
    <3>. QED  BY <1>3, <3>1
  <2>2. y + Len(rs) - 1 <= k.writes[x].size
    BY <1>3, <1>5
  <2>3. GoesOn(k, k.out \o rs, <<x, y + Len(rs) - 1>>)
    <3>1. rs \in Seq(OutRecords(k)) /\ PieceNext(k, 1) = <<x, y>>
      BY <1>3, <1>4
    <3>. DEFINE one == 1
    <3>2. InOrder(k, one) /\ PieceNext(k, one) = <<x, y>>
      BY <1>1, <3>1
    <3>. HIDE DEF one
    <3>. QED  BY <1>1, <1>5, <2>1, <2>2, <3>1, <3>2, OrderOut
  <2>4. GoesOn(k, k.out \o rs, <<x, y>>)
    BY <1>5, <2>3
  <2>. QED  BY <2>4 DEF rs
<1>7. Direct(m, 0) = 0 /\ Direct(k, 1) = 0
  BY <1>3, <1>4 DEF Direct
<1>8. Counted(m, 0)
  <2>1. /\ Len(k.writes) = a + 0 + q
        /\ \A i \in 1 .. a : k.answers[i].id = i
        /\ \A j \in 1 .. q :
             /\ k.queue[j].id = a + 0 + j /\ k.queue[j].size = k.writes[a + 0 + j].size
             /\ j > 1 => k.queue[j].written = 0
    BY <1>1, <1>7 DEF Counted, a, q
  <2>2. ~(\E i : i \in 1 .. 0) /\ 0 >= 0
    OBVIOUS
  <2>. DEFINE d == 0
  <2>3. /\ Direct(m, 0) = d /\ d >= 0 /\ ~(\E i : i \in 1 .. d) /\ Len(k.writes) = a + d + q
        /\ \A j \in 1 .. q :
             /\ k.queue[j].id = a + d + j /\ k.queue[j].size = k.writes[a + d + j].size
             /\ j > 1 => k.queue[j].written = 0
    BY <1>7, <2>1, <2>2
  <2>. HIDE DEF d
  <2>4. /\ Len(m.answers) = a /\ Len(m.queue) = q /\ Len(m.writes) = a + d + q
        /\ \A i \in 1 .. a : m.answers[i].id = i
        /\ \A j \in 1 .. q :
             /\ m.queue[j].id = a + d + j /\ m.queue[j].size = m.writes[a + d + j].size
             /\ j > 1 => m.queue[j].written = 0
    <3>1. m.answers = k.answers /\ m.queue = k.queue /\ m.writes = k.writes
      BY <1>2
    <3>2. Len(m.answers) = a /\ Len(m.queue) = q
      BY <3>1, Zenon DEF a, q
    <3>3. Len(m.writes) = a + d + q
      BY <2>3, <3>1, Zenon
    <3>4. \A i \in 1 .. a : m.answers[i].id = i
      BY <2>1, <3>1, Zenon
    <3>5. \A j \in 1 .. q :
             /\ m.queue[j].id = a + d + j /\ m.queue[j].size = m.writes[a + d + j].size
             /\ j > 1 => m.queue[j].written = 0
      BY <2>3, <3>1, Zenon
    <3>. QED  BY <3>2, <3>3, <3>4, <3>5, Zenon
  <2>5. \A i \in 1 .. d :
          /\ ~m.sockq[i].queued /\ m.sockq[i].id = a + i
          /\ Len(m.sockq[i].records) = m.writes[a + i].size
          /\ \A j \in 1 .. Len(m.sockq[i].records) : m.sockq[i].records[j].data = <<a + i, j>>
    BY <2>3
  <2>. QED  BY <2>3, <2>4, <2>5 DEF Counted
<1>9. Held(m, 0)
  <2>1. ~(0 > 0) /\ 0 # 1
    OBVIOUS
  <2>2. k.setup.kind = "both" => k.queue = <<>>
    BY <1>1 DEF Held
  <2>. QED  BY <1>2, <1>7, <2>1, <2>2 DEF Held
<1>10. PieceNext(m, 0) = PieceAfter(m.writes, <<x, y>>)
  <2>1. ~(0 > 0) /\ y + 1 - 0 = y + 1
    BY <1>5
  <2>2. PieceNext(m, 0) = <<x, y + 1>>
    BY <1>2, <1>3, <1>7, <2>1 DEF PieceNext, x, y, a
  <2>3. PieceAfter(m.writes, <<x, y>>) = <<x, y + 1>>
    BY <1>2, <1>3, <1>5 DEF PieceAfter
  <2>. QED  BY <2>2, <2>3
<1>11. InOrder(m, 0)
  <2>. DEFINE o == Len(k.out)
              p == Len(m.out)
  <2>1. /\ o \in Nat /\ p \in Nat /\ p > o /\ k.setup.wseq \in Nat /\ o >= k.setup.wseq
        /\ \A i \in 1 .. o : m.out[i] = k.out[i]
    BY <1>6 DEF GoesOn
  <2>2. p >= m.setup.wseq /\ p # m.setup.wseq
    <3>. HIDE DEF o, p
    <3>. QED  BY <1>2, <2>1
  <2>3. \A i \in m.setup.wseq + 1 .. p :
           /\ m.out[i].data[1] \in 1 .. Len(m.writes)
           /\ m.out[i].data = IF i = m.setup.wseq + 1 THEN <<1, 1>>
                              ELSE PieceAfter(m.writes, m.out[i - 1].data)
    BY <1>2, <1>6, ZenonT(60) DEF GoesOn
  <2>4. m.out[p].data = <<x, y>>
    BY <1>6 DEF GoesOn
  <2>5. \A i \in 1 .. Len(m.answers) : m.answers[i].ok =>
        \E j \in 1 .. Len(m.out) : m.out[j].data = <<i, m.writes[i].size>>
    <3>. SUFFICES ASSUME NEW i \in 1 .. Len(k.answers), k.answers[i].ok
                  PROVE  \E j \in 1 .. p : m.out[j].data = <<i, k.writes[i].size>>
      BY <1>2
    <3>1. PICK j \in 1 .. o : k.out[j].data = <<i, k.writes[i].size>>
      BY <1>1 DEF InOrder
    <3>2. j \in 1 .. p /\ m.out[j] = k.out[j]
      <4>1. j \in 1 .. o
        OBVIOUS
      <4>. HIDE DEF o, p
      <4>2. \A f \in 1 .. o : f \in 1 .. p
        BY <2>1
      <4>. QED  BY <2>1, <4>1, <4>2, Zenon
    <3>. QED  BY <3>1, <3>2
  <2>. QED  BY <1>10, <2>2, <2>3, <2>4, <2>5, Zenon DEF InOrder
<1>12. KTLSWriteTypes(m)
  BY <1>1, <1>2, <1>4 DEF KTLSWriteTypes
<1>13. m.alive /\ m.sock # "fizz"
  BY <1>2
<1>. QED  BY <1>2, <1>4, <1>8, <1>9, <1>11, <1>12, <1>13 DEF WriteInv

LEMMA TailOf ==
  ASSUME NEW S, NEW s \in Seq(S), s # <<>>
  PROVE  /\ Tail(s) \in Seq(S) /\ Len(Tail(s)) = Len(s) - 1
         /\ (\A j \in 1 .. Len(s) - 1 : Tail(s)[j] = s[j + 1]) /\ (Len(s) > 1 <=> Tail(s) # <<>>)
<1>1. /\ Tail(s) \in Seq(S) /\ Len(Tail(s)) = Len(s) - 1 /\ Len(s) \in Nat
      /\ (\A j \in 1 .. Len(s) - 1 : Tail(s)[j] = s[j + 1])
  OBVIOUS
<1>2. Len(Tail(s)) = 0 <=> Tail(s) = <<>>
  <2>1. \A r \in Seq(S) : Len(r) = 0 <=> r = <<>>
    OBVIOUS
  <2>. QED  BY <1>1, <2>1, Zenon
<1>. DEFINE n == Len(s)
            t == Tail(s)
<1>. HIDE DEF t
<1>3. n > 1 <=> t # <<>>
  BY <1>1, <1>2 DEF t
<1>. QED  BY <1>1, <1>3 DEF t

(* The last piece of a queued write is out: it is answered and leaves the  *)
(* queue.                                                                  *)
LEMMA QueuedSent ==
  ASSUME NEW k, QueueAtHead(k), k.sock = "ktls", k.alive, ~(k.queue[1].written < k.queue[1].size),
         NEW m, SameBut(k, m, {"sockq", "out", "queue", "answers"}),
         m.sockq = Tail(k.sockq), m.out = k.out \o k.sockq[1].records, m.queue = Tail(k.queue),
         m.answers = Append(k.answers, [id |-> k.queue[1].id, ok |-> TRUE])
  PROVE  /\ WriteInv(m, 0) /\ SameBut(k, m, WriteFields) /\ m.alive = k.alive
         /\ Len(k.queue) > 1 <=> m.queue # <<>>
<1>. DEFINE a == Len(k.answers)
            q == Len(k.queue)
            u == Len(k.writes)
            x == a + 1
            y == k.queue[1].written
            z == k.queue[1].size
            rs == k.sockq[1].records
            d == 0
<1>1. /\ KTLSWriteTypes(k) /\ Layer(k) /\ Numbered(k) /\ Counted(k, 1) /\ Held(k, 1) /\ InOrder(k, 1)
  BY DEF QueueAtHead, WriteInv
<1>2. /\ m.setup = k.setup /\ m.sock = k.sock /\ m.alive = k.alive /\ m.tx = k.tx /\ m.write = k.write
      /\ m.writes = k.writes /\ DOMAIN m = KTLSFields
      /\ SameBut(k, m, WriteFields)
  BY DEF SameBut, KTLSFields, WriteFields
<1>3. /\ Len(k.sockq) = 1 /\ a \in Nat /\ q \in Nat /\ q >= 1 /\ u = a + q
      /\ k.queue[1].id = x /\ k.writes[x].size = z /\ z \in Nat /\ y \in 1 .. z /\ Len(rs) = 1
      /\ rs[1].data = <<x, y>> /\ PieceNext(k, 1) = <<x, y>> /\ k.queue # <<>>
  BY DEF QueueAtHead
<1>4. /\ Layer(m) /\ Numbered(m) /\ rs \in Seq(OutRecords(k)) /\ Len(m.sockq) = 0
      /\ m.sockq \in Seq([id : Nat, queued : BOOLEAN, records : Seq(OutRecords(k))])
      /\ m.out \in Seq(OutRecords(k)) /\ OutRecords(m) = OutRecords(k)
  <2>1. k.sockq # <<>>
    BY <1>3
  <2>2. /\ Layer(m) /\ Numbered(m) /\ k.sockq[1].records \in Seq(OutRecords(k)) /\ Len(m.sockq) = Len(k.sockq) - 1
        /\ m.sockq \in Seq([id : Nat, queued : BOOLEAN, records : Seq(OutRecords(k))])
        /\ m.out \in Seq(OutRecords(k)) /\ OutRecords(m) = OutRecords(k)
    BY <1>1, <2>1, HeadOut
  <2>3. Len(m.sockq) = 0
    BY <1>3, <2>2
  <2>. QED  BY <2>2, <2>3
<1>5. k.queue \in Seq([id : Nat, size : Nat, written : Nat]) /\ k.answers \in Seq([id : Nat, ok : BOOLEAN])
      /\ k.writes \in Seq(KTLSWrites)
  BY <1>1 DEF KTLSWriteTypes
<1>6. /\ m.queue \in Seq([id : Nat, size : Nat, written : Nat]) /\ Len(m.queue) = q - 1
      /\ (\A j \in 1 .. q - 1 : m.queue[j] = k.queue[j + 1]) /\ (q > 1 <=> m.queue # <<>>)
  <2>. DEFINE Q == [id : Nat, size : Nat, written : Nat]
  <2>1. k.queue \in Seq(Q)
    BY <1>5
  <2>. HIDE DEF Q
  <2>2. /\ m.queue \in Seq(Q) /\ Len(m.queue) = q - 1
        /\ (\A j \in 1 .. q - 1 : m.queue[j] = k.queue[j + 1]) /\ (q > 1 <=> m.queue # <<>>)
    <3>1. /\ Tail(k.queue) \in Seq(Q) /\ Len(Tail(k.queue)) = q - 1
          /\ (\A j \in 1 .. q - 1 : Tail(k.queue)[j] = k.queue[j + 1]) /\ (q > 1 <=> Tail(k.queue) # <<>>)
      BY <1>3, <2>1, TailOf
    <3>. QED  BY <3>1, Zenon
  <2>. QED  BY <2>2 DEF Q
<1>. HIDE DEF a, q, u, x, y, z, rs
<1>7. x \in Nat /\ x \in 1 .. u /\ y \in Nat \ {0} /\ y = z
  <2>1. x \in Nat /\ x \in 1 .. u
    BY <1>3 DEF x
  <2>2. ~(y < z)
    BY DEF y, z
  <2>. QED  BY <1>3, <2>1, <2>2
<1>8. /\ m.answers \in Seq([id : Nat, ok : BOOLEAN]) /\ Len(m.answers) = x
      /\ (\A i \in 1 .. a : m.answers[i] = k.answers[i]) /\ m.answers[x].id = x
      /\ m.answers = Append(k.answers, [id |-> x, ok |-> TRUE])
  <2>. DEFINE last == [id |-> x, ok |-> TRUE]
              A == [id : Nat, ok : BOOLEAN]
  <2>1. last \in A /\ last.id = x /\ m.answers = Append(k.answers, last)
    BY <1>3, <1>7
  <2>2. k.answers \in Seq(A)
    BY <1>5
  <2>. HIDE DEF last, A
  <2>3. /\ Len(m.answers) = a + 1 /\ m.answers \in Seq(A)
        /\ (\A i \in 1 .. a : m.answers[i] = k.answers[i]) /\ m.answers[a + 1] = last
    BY <2>1, <2>2, Appended DEF a
  <2>. QED  BY <2>1, <2>3 DEF x, A, last
<1>9. Direct(m, 0) = 0 /\ Direct(k, 1) = 0
  BY <1>3, <1>4 DEF Direct
<1>10. /\ \A i \in 1 .. a : k.answers[i].id = i
       /\ \A j \in 1 .. q :
             /\ k.queue[j].id = a + 0 + j /\ k.queue[j].size = k.writes[a + 0 + j].size
             /\ j > 1 => k.queue[j].written = 0
  BY <1>1, <1>9 DEF Counted, a, q
<1>. HIDE DEF d
<1>11. \A j \in 1 .. q - 1 :
         /\ m.queue[j].id = x + d + j /\ m.queue[j].size = m.writes[x + d + j].size
         /\ m.queue[j].written = 0
  <2>. TAKE j \in 1 .. q - 1
  <2>1. j + 1 \in 1 .. q /\ j + 1 > 1 /\ a + 0 + (j + 1) = x + d + j
    BY <1>3 DEF x, d
  <2>2. m.queue[j] = k.queue[j + 1]
    BY <1>6
  <2>3. /\ k.queue[j + 1].id = a + 0 + (j + 1) /\ k.queue[j + 1].size = k.writes[a + 0 + (j + 1)].size
        /\ k.queue[j + 1].written = 0
    BY <1>10, <2>1
  <2>. QED  BY <1>2, <2>1, <2>2, <2>3, Zenon
<1>12. Counted(m, 0)
  <2>1. Direct(m, 0) = d /\ d >= 0 /\ ~(\E i : i \in 1 .. d)
    BY <1>9 DEF d
  <2>2. Len(m.writes) = x + d + (q - 1)
    <3>1. u = x + d + (q - 1)
      BY <1>3 DEF x, d
    <3>. QED  BY <1>2, <3>1 DEF u
  <2>3. \A i \in 1 .. x : m.answers[i].id = i
    <3>. TAKE i \in 1 .. x
    <3>1. i \in 1 .. a \/ i = x
      BY <1>3 DEF x
    <3>. QED  BY <1>8, <1>10, <3>1
  <2>4. \A i \in 1 .. d :
          /\ ~m.sockq[i].queued /\ m.sockq[i].id = x + i
          /\ Len(m.sockq[i].records) = m.writes[x + i].size
          /\ \A j \in 1 .. Len(m.sockq[i].records) : m.sockq[i].records[j].data = <<x + i, j>>
    BY <2>1
  <2>5. Len(m.answers) = x
    BY <1>8
  <2>. DEFINE r == q - 1
  <2>6. Len(m.queue) = r /\ Len(m.writes) = x + d + r
    BY <1>6, <2>2
  <2>7. \A j \in 1 .. r :
         /\ m.queue[j].id = x + d + j /\ m.queue[j].size = m.writes[x + d + j].size
         /\ m.queue[j].written = 0
    BY <1>11
  <2>. HIDE DEF r
  <2>. QED  BY <2>1, <2>3, <2>4, <2>5, <2>6, <2>7 DEF Counted
<1>13. m.queue # <<>> => m.queue[1].written = 0 /\ m.queue[1].size \in Nat \ {0}
  <2>. SUFFICES ASSUME m.queue # <<>>
                PROVE  m.queue[1].written = 0 /\ m.queue[1].size \in Nat \ {0}
    OBVIOUS
  <2>1. 1 \in 1 .. q - 1 /\ x + d + 1 \in 1 .. u
    BY <1>3, <1>6 DEF x, d
  <2>. DEFINE i == x + d + 1
  <2>2. m.queue[1].written = 0 /\ m.queue[1].size = k.writes[i].size
    BY <1>2, <1>11, <2>1
  <2>3. i \in 1 .. Len(k.writes)
    BY <2>1 DEF u
  <2>. HIDE DEF i
  <2>4. k.writes[i] \in KTLSWrites
    BY <1>5, <2>3
  <2>. QED  BY <2>2, <2>4, KTLSAssumption
<1>14. Held(m, 0)
  <2>1. k.setup.kind = "both" => k.queue = <<>>
    BY <1>1 DEF Held
  <2>2. m.setup.kind # "both"
    BY <1>2, <1>3, <2>1
  <2>3. m.queue # <<>> => m.queue[1].written < m.queue[1].size
    BY <1>13
  <2>4. ~(0 > 0) /\ 0 # 1
    OBVIOUS
  <2>. QED  BY <1>9, <2>2, <2>3, <2>4 DEF Held
<1>15. PieceNext(m, 0) = <<x + 1, 1>>
  <2>1. m.queue # <<>> => m.queue[1].written + 1 - 0 = 1
    BY <1>13
  <2>2. (IF Direct(m, 0) > 0 \/ m.queue = <<>> THEN 1 ELSE m.queue[1].written + 1 - 0) = 1
    BY <2>1
  <2>. QED  BY <1>8, <2>2 DEF PieceNext
<1>16. InOrder(m, 0)
  <2>. DEFINE one == 1
              zero == 0
  <2>1. \A j \in 1 .. Len(rs) : rs[j].data = <<x, y + j - 1>>
    <3>. TAKE j \in 1 .. Len(rs)
    <3>1. j = 1 /\ y + j - 1 = y
      BY <1>3, <1>7
    <3>. QED  BY <1>3, <3>1
  <2>2. y + Len(rs) - 1 = k.writes[x].size /\ Len(rs) >= 1
    BY <1>3, <1>7
  <2>3. x = Len(k.answers) + 1 /\ x \in 1 .. Len(k.writes)
    BY <1>7 DEF x, a, u
  <2>4. PieceNext(k, one) = <<x, y>> /\ InOrder(k, one) /\ PieceNext(m, zero) = <<x + 1, 1>>
    BY <1>1, <1>3, <1>15
  <2>. HIDE DEF one
  <2>5. EndsWrite(k, one, x, y, rs)
    BY <1>4, <1>7, <2>1, <2>2, <2>3, <2>4 DEF EndsWrite
  <2>6. m.setup = k.setup /\ m.writes = k.writes /\ m.out = k.out \o rs
    BY <1>2 DEF rs
  <2>7. m.answers = Append(k.answers, [id |-> x, ok |-> TRUE])
    BY <1>8
  <2>. HIDE DEF zero
  <2>8. InOrder(m, zero)
    BY <1>1, <2>4, <2>5, <2>6, <2>7, AnsweredOrder
  <2>. QED  BY <2>8 DEF zero
<1>17. KTLSWriteTypes(m)
  BY <1>1, <1>2, <1>4, <1>6, <1>8 DEF KTLSWriteTypes
<1>18. m.alive /\ m.sock # "fizz"
  BY <1>2
<1>19. WriteInv(m, 0)
  BY <1>4, <1>12, <1>14, <1>16, <1>17, <1>18 DEF WriteInv
<1>. QED  BY <1>2, <1>6, <1>19 DEF q

LEMMA SameTwice ==
  ASSUME NEW k, NEW m, NEW r, SameBut(k, m, WriteFields), SameBut(m, r, WriteFields)
  PROVE  SameBut(k, r, WriteFields)
BY Zenon DEF SameBut

LEMMA SameSelf ==
  ASSUME NEW k, DOMAIN k = KTLSFields
  PROVE  SameBut(k, k, WriteFields)
BY DEF SameBut

LEMMA WritesInvIs ==
  ASSUME NEW k
  PROVE  /\ WriteInv(k, 0) /\ k.queue = <<>> => WritesInv(k)
         /\ WriteInv(k, 1) /\ k.queue # <<>> => WritesInv(k)
         /\ WritesInv(k) /\ k.queue = <<>> => WriteInv(k, 0)
BY DEF WritesInv

(* The callback of a write, after which nothing else is left to do.        *)
LEMMA CallbackKeeps ==
  ASSUME NEW k, WritesInv(k), k.sock = "ktls", NEW again, again # None => again \in KTLSWrites
  PROVE  WritesInv(AfterCallback(k, again)) /\ SameBut(k, AfterCallback(k, again), WriteFields)
<1>1. CASE again = None
  <2>1. AfterCallback(k, again) = k
    BY <1>1 DEF AfterCallback
  <2>2. DOMAIN k = KTLSFields
    BY DEF WritesInv, WriteInv, KTLSWriteTypes
  <2>. QED  BY <2>1, <2>2, SameSelf
<1>2. CASE again # None
  <2>1. AfterCallback(k, again) = AppWrites(k, again)
    BY <1>2 DEF AfterCallback
  <2>. QED  BY <1>2, <2>1, AppWritesKeeps
<1>. QED  BY <1>1, <1>2

(* The callback of a queued write, with the next request still to start.   *)
LEMMA CallbackThenNext ==
  ASSUME NEW k, WriteInv(k, 0), k.sock = "ktls", k.alive, k.queue # <<>>,
         NEW again, again # None => again \in KTLSWrites
  PROVE  LET m == StartWriting(AfterCallback(k, again))
         IN WritesInv(m) /\ SameBut(k, m, WriteFields)
<1>. DEFINE c == AfterCallback(k, again)
            m == StartWriting(c)
            zero == 0
<1>1. WriteInv(c, 0) /\ c.queue # <<>> /\ SameBut(k, c, WriteFields) /\ c.alive
  <2>1. CASE again = None
    <3>1. c = k
      BY <2>1 DEF AfterCallback
    <3>2. DOMAIN k = KTLSFields
      BY DEF WriteInv, KTLSWriteTypes
    <3>. QED  BY <3>1, <3>2, SameSelf
  <2>2. CASE again # None
    <3>1. c = AppWrites(k, again)
      BY <2>2 DEF AfterCallback
    <3>. HIDE DEF c
    <3>2. WriteInv(k, zero)
      OBVIOUS
    <3>. HIDE DEF zero
    <3>3. WriteInv(AppWrites(k, again), zero) /\ AppWrites(k, again).queue # <<>>
          /\ SameBut(k, AppWrites(k, again), WriteFields) /\ AppWrites(k, again).alive = k.alive
      BY <2>2, <3>2, AppWritesQueues
    <3>. QED  BY <3>1, <3>3 DEF zero
  <2>. QED  BY <2>1, <2>2
<1>. HIDE DEF c
<1>2. c.sock = "ktls"
  BY <1>1 DEF SameBut, KTLSFields, WriteFields
<1>3. WriteInv(m, 1) /\ m.queue # <<>> /\ SameBut(c, m, WriteFields)
  BY <1>1, <1>2, Started
<1>. HIDE DEF m
<1>4. WritesInv(m) /\ SameBut(k, m, WriteFields)
  BY <1>1, <1>3, WritesInvIs, SameTwice
<1>. QED  BY <1>4 DEF m, c

(* The kernel takes what is at the head of the socket.                     *)
LEMMA SocketSendsKeeps ==
  ASSUME WritesInv(kt), SocketSends
  PROVE  WritesInv(kt') /\ SameBut(kt, kt', WriteFields)
<1>. DEFINE e == Head(kt.sockq)
            m == [kt EXCEPT !.sockq = Tail(kt.sockq), !.out = kt.out \o e.records]
            s == AnsweredOk(m, e.id)
            p == [m EXCEPT !.queue = Tail(m.queue)]
            t == AnsweredOk(p, m.queue[1].id)
<1>1. kt.sock = "ktls" /\ kt.alive /\ kt.sockq # <<>> /\ DOMAIN kt = KTLSFields
  BY DEF WritesInv, WriteInv, KTLSWriteTypes, SocketSends
<1>2. PICK again : /\ again # None => again \in KTLSWrites
                   /\ kt' = IF e.queued THEN QueuedWriteSuccess(m, again)
                            ELSE AfterCallback(s, again)
  BY DEF SocketSends
<1>3. e = kt.sockq[1]
  OBVIOUS
<1>4. /\ SameBut(kt, m, {"sockq", "out"}) /\ m.sockq = Tail(kt.sockq) /\ m.out = kt.out \o kt.sockq[1].records
      /\ m.queue = kt.queue /\ m.answers = kt.answers /\ DOMAIN m = KTLSFields /\ m.sock = "ktls"
  BY <1>1, <1>3 DEF SameBut, KTLSFields
<1>. HIDE DEF e
<1>. HIDE DEF m
<1>5. CASE ~e.queued
  <2>1. /\ SameBut(kt, s, {"sockq", "out", "answers"}) /\ s.sockq = Tail(kt.sockq)
        /\ s.out = kt.out \o kt.sockq[1].records
        /\ s.answers = Append(kt.answers, [id |-> kt.sockq[1].id, ok |-> TRUE])
    BY <1>3, <1>4 DEF SameBut, KTLSFields, AnsweredOk
  <2>2. kt' = AfterCallback(s, again)
    BY <1>2, <1>5
  <2>. HIDE DEF s
  <2>3. WritesInv(s) /\ SameBut(kt, s, WriteFields)
    BY <1>1, <1>3, <1>5, <2>1, DirectSent
  <2>4. s.sock = "ktls"
    BY <1>1, <2>3 DEF SameBut, KTLSFields, WriteFields
  <2>5. WritesInv(AfterCallback(s, again)) /\ SameBut(s, AfterCallback(s, again), WriteFields)
    BY <1>2, <2>3, <2>4, CallbackKeeps
  <2>. QED  BY <2>2, <2>3, <2>5, SameTwice
<1>6. CASE e.queued
  <2>1. QueueAtHead(kt)
    BY <1>1, <1>3, <1>6, QueuedHead
  <2>2. kt' = QueuedWriteSuccess(m, again)
    BY <1>2, <1>6
  <2>3. CASE kt.queue[1].written < kt.queue[1].size
    <3>1. kt' = StartWriting(m)
      BY <1>4, <2>2, <2>3 DEF QueuedWriteSuccess
    <3>2. WriteInv(m, 0) /\ SameBut(kt, m, WriteFields) /\ m.alive /\ m.queue # <<>>
      <4>1. WriteInv(m, 0) /\ SameBut(kt, m, WriteFields) /\ m.alive = kt.alive /\ m.queue = kt.queue
        BY <1>1, <1>4, <2>1, <2>3, PieceOut
      <4>2. kt.queue # <<>>
        BY <2>1 DEF QueueAtHead
      <4>. QED  BY <1>1, <4>1, <4>2
    <3>3. WriteInv(StartWriting(m), 1) /\ StartWriting(m).queue # <<>> /\ SameBut(m, StartWriting(m), WriteFields)
      BY <1>4, <3>2, Started
    <3>. QED  BY <3>1, <3>2, <3>3, WritesInvIs, SameTwice
  <2>4. CASE ~(kt.queue[1].written < kt.queue[1].size)
    <3>1. kt' = NextStarts(AfterCallback(t, again), Len(kt.queue) > 1)
      BY <1>4, <2>2, <2>4 DEF QueuedWriteSuccess
    <3>2. /\ SameBut(kt, t, {"sockq", "out", "queue", "answers"}) /\ t.sockq = Tail(kt.sockq)
          /\ t.out = kt.out \o kt.sockq[1].records /\ t.queue = Tail(kt.queue)
          /\ t.answers = Append(kt.answers, [id |-> kt.queue[1].id, ok |-> TRUE])
      BY <1>4 DEF SameBut, KTLSFields, AnsweredOk
    <3>. HIDE DEF t
    <3>3. WriteInv(t, 0) /\ SameBut(kt, t, WriteFields) /\ t.alive = kt.alive /\ (Len(kt.queue) > 1 <=> t.queue # <<>>)
      BY <1>1, <2>1, <2>4, <3>2, QueuedSent
    <3>4. t.sock = "ktls"
      BY <1>1, <3>3 DEF SameBut, KTLSFields, WriteFields
    <3>5. CASE t.queue # <<>>
      <4>1. kt' = StartWriting(AfterCallback(t, again))
        BY <3>1, <3>3, <3>5 DEF NextStarts
      <4>2. WritesInv(StartWriting(AfterCallback(t, again)))
            /\ SameBut(t, StartWriting(AfterCallback(t, again)), WriteFields)
        BY <1>1, <1>2, <3>3, <3>4, <3>5, CallbackThenNext
      <4>. QED  BY <3>3, <4>1, <4>2, SameTwice
    <3>6. CASE t.queue = <<>>
      <4>1. kt' = AfterCallback(t, again)
        BY <3>1, <3>3, <3>6 DEF NextStarts
      <4>2. WritesInv(t)
        BY <3>3, <3>6, WritesInvIs
      <4>3. WritesInv(AfterCallback(t, again)) /\ SameBut(t, AfterCallback(t, again), WriteFields)
        BY <1>2, <3>4, <4>2, CallbackKeeps
      <4>. QED  BY <3>3, <4>1, <4>3, SameTwice
    <3>. QED  BY <3>5, <3>6
  <2>. QED  BY <2>3, <2>4
<1>. QED  BY <1>5, <1>6

ReadFields ==
  {"asked", "read", "rx", "sent", "taken", "delivered", "reading", "undecryptable", "callback",
   "unparsed", "cache"}

(* What reading changes has no part in what is known of the writes.        *)
LEMMA WritesSame ==
  ASSUME NEW k, NEW m, WritesInv(k), SameBut(k, m, ReadFields)
  PROVE  WritesInv(m)
<1>. DEFINE h == IF k.queue = <<>> THEN 0 ELSE 1
<1>1. /\ m.setup = k.setup /\ m.sock = k.sock /\ m.write = k.write /\ m.tx = k.tx /\ m.out = k.out
      /\ m.sockq = k.sockq /\ m.queue = k.queue /\ m.writes = k.writes /\ m.answers = k.answers
      /\ m.alive = k.alive /\ DOMAIN m = KTLSFields
  BY DEF SameBut, KTLSFields, ReadFields
<1>2. WriteInv(k, h)
  BY DEF WritesInv
<1>. HIDE DEF h
<1>3. OutRecords(m) = OutRecords(k) /\ (\A n : OutCrypto(m, n) = OutCrypto(k, n)) /\ NextNumber(m) = NextNumber(k)
  BY <1>1 DEF OutRecords, OutCrypto, NextNumber
<1>4. \A i : StartOf(m, i) = StartOf(k, i)
  BY <1>1, <1>3, Zenon DEF StartOf
<1>5. Direct(m, h) = Direct(k, h) /\ PieceNext(m, h) = PieceNext(k, h)
  BY <1>1, Zenon DEF Direct, PieceNext
<1>6. KTLSWriteTypes(m) /\ Layer(m)
  BY <1>1, <1>2, <1>3, Zenon DEF WriteInv, KTLSWriteTypes, Layer
<1>7. Numbered(m)
  <2>1. Numbered(k)
    BY <1>2 DEF WriteInv
  <2>2. \A i \in 1 .. Len(m.out) : m.out[i].crypto = OutCrypto(m, i - 1)
    BY <1>1, <1>3, <2>1, Zenon DEF Numbered
  <2>3. ASSUME m.sock = "ktls", m.alive
        PROVE  /\ StartOf(m, 1) = Len(m.out)
               /\ \A i \in 1 .. Len(m.sockq) :
                    /\ Len(m.sockq[i].records) >= 1
                    /\ StartOf(m, i + 1) = StartOf(m, i) + Len(m.sockq[i].records)
                    /\ \A j \in 1 .. Len(m.sockq[i].records) :
                         m.sockq[i].records[j].crypto = OutCrypto(m, StartOf(m, i) + j - 1)
    <3>1. /\ StartOf(k, 1) = Len(k.out)
          /\ \A i \in 1 .. Len(k.sockq) :
                    /\ Len(k.sockq[i].records) >= 1
                    /\ StartOf(k, i + 1) = StartOf(k, i) + Len(k.sockq[i].records)
                    /\ \A j \in 1 .. Len(k.sockq[i].records) :
                         k.sockq[i].records[j].crypto = OutCrypto(k, StartOf(k, i) + j - 1)
      BY <1>1, <2>1, <2>3 DEF Numbered
    <3>2. StartOf(m, 1) = Len(m.out)
      BY <1>1, <1>4, <3>1, Zenon
    <3>3. ASSUME NEW i \in 1 .. Len(m.sockq)
          PROVE  /\ Len(m.sockq[i].records) >= 1
                 /\ StartOf(m, i + 1) = StartOf(m, i) + Len(m.sockq[i].records)
                 /\ \A j \in 1 .. Len(m.sockq[i].records) :
                      m.sockq[i].records[j].crypto = OutCrypto(m, StartOf(m, i) + j - 1)
      <4>1. i \in 1 .. Len(k.sockq) /\ m.sockq[i] = k.sockq[i]
        BY <1>1, Zenon
      <4>. QED  BY <1>3, <1>4, <3>1, <4>1
    <3>. QED  BY <3>2, <3>3
  <2>. QED  BY <2>2, <2>3 DEF Numbered
<1>8. Counted(m, h)
  <2>1. Counted(k, h)
    BY <1>2 DEF WriteInv
  <2>. QED  BY <1>1, <1>5, <2>1 DEF Counted
<1>9. Held(m, h)
  <2>1. Held(k, h)
    BY <1>2 DEF WriteInv
  <2>. QED  BY <1>1, <1>5, <2>1 DEF Held
<1>10. InOrder(m, h)
  <2>1. InOrder(k, h)
    BY <1>2 DEF WriteInv
  <2>2. Len(m.out) >= m.setup.wseq
    BY <1>1, <2>1, Zenon DEF InOrder
  <2>3. \A i \in m.setup.wseq + 1 .. Len(m.out) :
          /\ m.out[i].data[1] \in 1 .. Len(m.writes)
          /\ m.out[i].data = IF i = m.setup.wseq + 1 THEN <<1, 1>>
                             ELSE PieceAfter(m.writes, m.out[i - 1].data)
    BY <1>1, <2>1 DEF InOrder
  <2>4. m.alive => PieceNext(m, h) = IF Len(m.out) = m.setup.wseq THEN <<1, 1>>
                                     ELSE PieceAfter(m.writes, m.out[Len(m.out)].data)
    BY <1>1, <1>5, <2>1 DEF InOrder
  <2>5. \A i \in 1 .. Len(m.answers) : m.answers[i].ok =>
          \E j \in 1 .. Len(m.out) : m.out[j].data = <<i, m.writes[i].size>>
    <3>1. \A i \in 1 .. Len(k.answers) : k.answers[i].ok =>
            \E j \in 1 .. Len(k.out) : k.out[j].data = <<i, k.writes[i].size>>
      BY <2>1 DEF InOrder
    <3>2. m.answers = k.answers /\ m.out = k.out /\ m.writes = k.writes
      BY <1>1
    <3>. QED  BY <3>1, <3>2, ZenonT(40)
  <2>. QED  BY <2>2, <2>3, <2>4, <2>5, Zenon DEF InOrder
<1>11. WriteInv(m, h)
  BY <1>1, <1>2, <1>6, <1>7, <1>8, <1>9, <1>10 DEF WriteInv
<1>. QED  BY <1>1, <1>11 DEF WritesInv, h

LEMMA ErrAnswerIs ==
  ASSUME NEW id \in Nat
  PROVE  ErrAnswer(id) \in Answer /\ ErrAnswer(id).id = id /\ ~ErrAnswer(id).ok
BY DEF ErrAnswer, Answer

(* One that waits is told.                                                 *)
LEMMA OwesTold ==
  ASSUME NEW answers \in Seq(Answer), NEW W, NEW n \in Nat, Owes(answers, W, n), NEW id \in W
  PROVE  Owes(Append(answers, ErrAnswer(id)), W \ {id}, n)
<1>. DEFINE l == Len(answers)
            e == ErrAnswer(id)
            b == Append(answers, e)
<1>1. id \in 1 .. n /\ id \in Nat
  BY DEF Owes
<1>2. e \in Answer /\ e.id = id
  BY <1>1, ErrAnswerIs
<1>. HIDE DEF e
<1>3. Len(b) = l + 1 /\ l \in Nat /\ (\A i \in 1 .. l : b[i] = answers[i]) /\ b[l + 1] = e
  BY <1>2, Appended
<1>. HIDE DEF b, l
<1>4. \A i : i \in 1 .. l + 1 <=> i \in 1 .. l \/ i = l + 1
  BY <1>3
<1>5. \A i \in 1 .. l : answers[i].id # id
  BY DEF Owes, l
<1>6. \A i \in 1 .. l + 1 : b[i].id \in (1 .. n) \ (W \ {id})
  BY <1>1, <1>2, <1>3, <1>4 DEF Owes, l
<1>7. \A i, j \in 1 .. l + 1 : i # j => b[i].id # b[j].id
  BY <1>2, <1>3, <1>4, <1>5, SMTT(60) DEF Owes, l
<1>8. \A x \in (1 .. n) \ (W \ {id}) : \E i \in 1 .. l + 1 : b[i].id = x
  <2>. TAKE x \in (1 .. n) \ (W \ {id})
  <2>1. CASE x = id
    BY <1>2, <1>3, <1>4, <2>1
  <2>2. CASE x # id
    <3>1. x \in (1 .. n) \ W
      BY <2>2
    <3>2. PICK i \in 1 .. l : answers[i].id = x
      BY <3>1 DEF Owes, l
    <3>. QED  BY <1>3, <1>4, <3>2
  <2>. QED  BY <2>1, <2>2
<1>9. W \ {id} \subseteq 1 .. n
  BY DEF Owes
<1>. QED  BY <1>3, <1>6, <1>7, <1>8, <1>9 DEF Owes, b, e

(* A write is told before it returns.                                      *)
LEMMA OwesRefused ==
  ASSUME NEW answers \in Seq(Answer), NEW W, NEW n \in Nat, Owes(answers, W, n)
  PROVE  Owes(Append(answers, ErrAnswer(n + 1)), W, n + 1)
<1>. DEFINE l == Len(answers)
            e == ErrAnswer(n + 1)
            b == Append(answers, e)
<1>1. \A x : x \in 1 .. n + 1 <=> x \in 1 .. n \/ x = n + 1
  OBVIOUS
<1>2. e \in Answer /\ e.id = n + 1 /\ n + 1 \notin 1 .. n
  BY ErrAnswerIs
<1>. HIDE DEF e
<1>3. Len(b) = l + 1 /\ l \in Nat /\ (\A i \in 1 .. l : b[i] = answers[i]) /\ b[l + 1] = e
  BY <1>2, Appended
<1>. HIDE DEF b, l
<1>4. \A i : i \in 1 .. l + 1 <=> i \in 1 .. l \/ i = l + 1
  BY <1>3
<1>5. \A i \in 1 .. l : answers[i].id \in (1 .. n) \ W
  BY DEF Owes, l
<1>6. \A i \in 1 .. l + 1 : b[i].id \in (1 .. n + 1) \ W
  BY <1>1, <1>2, <1>3, <1>4, <1>5 DEF Owes
<1>7. \A i, j \in 1 .. l + 1 : i # j => b[i].id # b[j].id
  BY <1>2, <1>3, <1>4, <1>5, SMTT(60) DEF Owes, l
<1>8. \A x \in (1 .. n + 1) \ W : \E i \in 1 .. l + 1 : b[i].id = x
  <2>. TAKE x \in (1 .. n + 1) \ W
  <2>1. CASE x = n + 1
    BY <1>2, <1>3, <1>4, <2>1
  <2>2. CASE x # n + 1
    <3>1. x \in (1 .. n) \ W
      BY <1>1, <2>2
    <3>2. PICK i \in 1 .. l : answers[i].id = x
      BY <3>1 DEF Owes, l
    <3>. QED  BY <1>3, <1>4, <3>2
  <2>. QED  BY <2>1, <2>2
<1>9. W \subseteq 1 .. n + 1
  BY <1>1 DEF Owes
<1>. QED  BY <1>3, <1>6, <1>7, <1>8, <1>9 DEF Owes, b, e

(* A write waits behind the others.                                        *)
LEMMA OwesWaits ==
  ASSUME NEW answers, NEW W, NEW n \in Nat, Owes(answers, W, n)
  PROVE  Owes(answers, W \cup {n + 1}, n + 1)
<1>1. \A x : x \in 1 .. n + 1 <=> x \in 1 .. n \/ x = n + 1
  OBVIOUS
<1>2. n + 1 \notin 1 .. n
  OBVIOUS
<1>3. (1 .. n + 1) \ (W \cup {n + 1}) = (1 .. n) \ W
  BY <1>1, <1>2
<1>4. W \cup {n + 1} \subseteq 1 .. n + 1
  BY <1>1 DEF Owes
<1>. QED  BY <1>3, <1>4, Zenon DEF Owes

(* The first write of the socket is told, and is not of the queue.         *)
LEMMA LinedDirect ==
  ASSUME NEW S, NEW s \in Seq(S), NEW q, Lined(s, q), s # <<>>, ~s[1].queued
  PROVE  /\ Lined(Tail(s), q) /\ s[1].id \in Waiting(s, q)
         /\ Waiting(Tail(s), q) = Waiting(s, q) \ {s[1].id}
<1>. DEFINE n == Len(s)
            t == Tail(s)
            h == IF q = <<>> THEN 0 ELSE 1
            b == n - h
<1>1. /\ n \in Nat /\ n > 0 /\ Len(t) = n - 1 /\ \A i \in 1 .. n - 1 : t[i] = s[i + 1]
  OBVIOUS
<1>2. h \in {0, 1} /\ (h = 1 <=> q # <<>>)
  OBVIOUS
<1>3. Before(s, q) = b /\ Before(t, q) = b - 1
  BY <1>1 DEF Before
<1>. HIDE DEF t, n, h
<1>4. b >= 1 /\ b \in Nat
  <2>1. q # <<>> => n # 1
    BY <1>1 DEF Lined, n
  <2>. QED  BY <1>1, <1>2, <2>1
<1>5. \A i \in 1 .. b - 1 : i + 1 \in 1 .. b /\ i + 1 # 1 /\ t[i] = s[i + 1]
  BY <1>1, <1>2, <1>4
<1>. HIDE DEF b
<1>6. \A i \in 1 .. b : i = 1 \/ (i - 1 \in 1 .. b - 1 /\ s[i] = t[i - 1])
  <2>. TAKE i \in 1 .. b
  <2>1. i # 1 => i - 1 \in 1 .. b - 1 /\ (i - 1) + 1 = i
    BY <1>4
  <2>. QED  BY <1>5, <2>1
<1>7. /\ \A i \in 1 .. b : ~s[i].queued
      /\ q # <<>> => s[n].queued
      /\ \A i, j \in 1 .. b : i # j => s[i].id # s[j].id
      /\ \A i, j \in 1 .. Len(q) : i # j => q[i].id # q[j].id
      /\ \A i \in 1 .. b : \A j \in 1 .. Len(q) : s[i].id # q[j].id
  BY <1>3 DEF Lined, n
<1>8. 1 \in 1 .. b
  BY <1>4
<1>9. q # <<>> => t[Len(t)].queued
  <2>1. q # <<>> => n - 1 \in 1 .. n - 1 /\ (n - 1) + 1 = n
    BY <1>1, <1>2, <1>4 DEF b
  <2>. QED  BY <1>1, <1>7, <2>1
<1>10. \A i, j \in 1 .. b - 1 : i # j => t[i].id # t[j].id
  <2>. SUFFICES ASSUME NEW i \in 1 .. b - 1, NEW j \in 1 .. b - 1, i # j
                PROVE  t[i].id # t[j].id
    OBVIOUS
  <2>1. i + 1 # j + 1
    BY <1>4
  <2>. QED  BY <1>5, <1>7, <2>1
<1>11. Lined(t, q)
  <2>. DEFINE c == b - 1
  <2>1. c >= 0
    BY <1>4
  <2>2. /\ \A i \in 1 .. c : ~t[i].queued
        /\ \A i \in 1 .. c : \A j \in 1 .. Len(q) : t[i].id # q[j].id
    BY <1>5, <1>7
  <2>3. Before(t, q) = c /\ \A i, j \in 1 .. c : i # j => t[i].id # t[j].id
    BY <1>3, <1>10
  <2>. HIDE DEF c
  <2>. QED  BY <1>7, <1>9, <2>1, <2>2, <2>3, Zenon DEF Lined
<1>12. s[1].id \in Waiting(s, q)
  BY <1>3, <1>8 DEF Waiting
<1>13. Waiting(t, q) = Waiting(s, q) \ {s[1].id}
  <2>1. {t[i].id : i \in 1 .. b - 1} = {s[i].id : i \in 1 .. b} \ {s[1].id}
    <3>1. ASSUME NEW i \in 1 .. b - 1
          PROVE  t[i].id \in {s[x].id : x \in 1 .. b} \ {s[1].id}
      BY <1>5, <1>7, <1>8
    <3>2. ASSUME NEW i \in 1 .. b, s[i].id # s[1].id
          PROVE  s[i].id \in {t[x].id : x \in 1 .. b - 1}
      BY <1>6, <3>2
    <3>. QED  BY <3>1, <3>2
  <2>2. s[1].id \notin {q[j].id : j \in 1 .. Len(q)}
    BY <1>7, <1>8
  <2>. QED  BY <1>3, <2>1, <2>2, Zenon DEF Waiting
<1>. QED  BY <1>11, <1>12, <1>13 DEF t

(* The request at the head of the queue is told.                           *)
LEMMA LinedQueued ==
  ASSUME NEW S, NEW s \in Seq(S), NEW Q, NEW q \in Seq(Q), Lined(s, q), s # <<>>, s[1].queued
  PROVE  LET r == IF Len(q) = 1 THEN Tail(s) ELSE s
         IN /\ q # <<>> /\ Lined(r, Tail(q)) /\ q[1].id \in Waiting(s, q)
            /\ Waiting(r, Tail(q)) = Waiting(s, q) \ {q[1].id}
<1>. DEFINE n == Len(s)
            l == Len(q)
            u == Tail(q)
            r == IF l = 1 THEN Tail(s) ELSE s
<1>1. n \in Nat /\ n > 0
  OBVIOUS
<1>2. q # <<>> /\ n = 1
  <2>1. Before(s, q) < 1
    <3>. SUFFICES ASSUME Before(s, q) >= 1 PROVE FALSE
      BY <1>1 DEF Before
    <3>1. Before(s, q) \in Nat /\ 1 \in 1 .. Before(s, q)
      BY <1>1 DEF Before
    <3>. QED  BY <3>1 DEF Lined
  <2>2. Before(s, q) >= 0
    BY DEF Lined
  <2>3. Before(s, q) = n - (IF q = <<>> THEN 0 ELSE 1)
    BY DEF Before
  <2>. HIDE DEF n
  <2>4. CASE q = <<>>
    BY <1>1, <2>1, <2>3, <2>4
  <2>5. CASE q # <<>>
    <3>1. Before(s, q) = n - 1
      BY <2>3, <2>5
    <3>2. n = 1
      BY <1>1, <2>1, <2>2, <3>1
    <3>. QED  BY <2>5, <3>2
  <2>. QED  BY <2>4, <2>5
<1>3. l \in Nat /\ l > 0 /\ Len(u) = l - 1 /\ (\A j \in 1 .. l - 1 : u[j] = q[j + 1]) /\ u \in Seq(Q)
  BY <1>2
<1>4. u = <<>> <=> l = 1
  <2>. HIDE DEF u, l
  <2>1. u = <<>> <=> Len(u) = 0
    BY <1>3
  <2>. QED  BY <1>3, <2>1
<1>5. Before(s, q) = 0 /\ Before(r, u) = 0
  <2>1. l = 1 => Len(Tail(s)) = 0
    BY <1>2
  <2>. HIDE DEF u, l, n
  <2>2. Before(s, q) = 0
    BY <1>2 DEF Before, n
  <2>3. CASE l = 1
    <3>1. Len(r) = 0 /\ u = <<>>
      BY <1>4, <2>1, <2>3
    <3>. HIDE DEF r
    <3>. QED  BY <2>2, <3>1 DEF Before
  <2>4. CASE l # 1
    <3>1. Len(r) = 1 /\ u # <<>>
      BY <1>2, <1>4, <2>4 DEF n
    <3>. HIDE DEF r
    <3>. QED  BY <2>2, <3>1 DEF Before
  <2>. QED  BY <2>3, <2>4
<1>6. u # <<>> => r[Len(r)].queued
  <2>. HIDE DEF u
  <2>. QED  BY <1>2, <1>4
<1>. HIDE DEF r, u, l, n
<1>7. ~(\E i : i \in 1 .. 0)
  OBVIOUS
<1>8. \A i, j \in 1 .. l : i # j => q[i].id # q[j].id
  BY DEF Lined, l
<1>9. \A j \in 1 .. l - 1 : j + 1 \in 1 .. l /\ j + 1 # 1 /\ u[j] = q[j + 1]
  <2>1. \A j \in 1 .. l - 1 : j + 1 \in 1 .. l /\ j + 1 # 1
    BY <1>3
  <2>. QED  BY <1>3, <2>1
<1>10. \A i, j \in 1 .. l - 1 : i # j => u[i].id # u[j].id
  <2>. SUFFICES ASSUME NEW i \in 1 .. l - 1, NEW j \in 1 .. l - 1, i # j
                PROVE  u[i].id # u[j].id
    OBVIOUS
  <2>1. i + 1 # j + 1
    BY <1>3
  <2>2. q[i + 1].id # q[j + 1].id
    BY <1>8, <1>9, <2>1, Zenon
  <2>. QED  BY <1>9, <2>2, Zenon
<1>11. Lined(r, u)
  <2>1. 0 >= 0
    OBVIOUS
  <2>. QED  BY <1>3, <1>5, <1>6, <1>7, <1>10, <2>1 DEF Lined
<1>12. 1 \in 1 .. l
  BY <1>3
<1>13. {u[j].id : j \in 1 .. l - 1} = {q[j].id : j \in 1 .. l} \ {q[1].id}
  <2>1. ASSUME NEW j \in 1 .. l - 1
        PROVE  u[j].id \in {q[x].id : x \in 1 .. l} \ {q[1].id}
    <3>1. u[j] = q[j + 1] /\ j + 1 \in 1 .. l /\ q[j + 1].id # q[1].id
      BY <1>8, <1>9, <1>12, Zenon
    <3>. QED  BY <3>1, Zenon
  <2>2. ASSUME NEW j \in 1 .. l, q[j].id # q[1].id
        PROVE  q[j].id \in {u[x].id : x \in 1 .. l - 1}
    <3>1. j - 1 \in 1 .. l - 1 /\ (j - 1) + 1 = j
      BY <1>3, <2>2
    <3>2. u[j - 1] = q[j]
      BY <1>3, <3>1
    <3>. QED  BY <3>1, <3>2
  <2>. QED  BY <2>1, <2>2
<1>14. /\ Waiting(s, q) = {q[j].id : j \in 1 .. l}
       /\ Waiting(r, u) = {u[j].id : j \in 1 .. l - 1}
  BY <1>3, <1>5, <1>7 DEF Waiting, l
<1>15. q[1].id \in Waiting(s, q)
  BY <1>12, <1>14
<1>16. Waiting(r, u) = Waiting(s, q) \ {q[1].id}
  BY <1>13, <1>14
<1>. QED  BY <1>2, <1>11, <1>15, <1>16 DEF r, u, l

(* One more request in the queue.                                          *)
LEMMA LinedMore ==
  ASSUME NEW s, NEW Q, NEW q \in Seq(Q), NEW e \in Q, Lined(s, q), q # <<>>, e.id \notin Waiting(s, q)
  PROVE  Lined(s, Append(q, e)) /\ Waiting(s, Append(q, e)) = Waiting(s, q) \cup {e.id}
<1>. DEFINE l == Len(q)
            u == Append(q, e)
            b == Before(s, q)
<1>1. l \in Nat /\ Len(u) = l + 1 /\ (\A j \in 1 .. l : u[j] = q[j]) /\ u[l + 1] = e /\ u # <<>>
  BY Appended
<1>. HIDE DEF u, l
<1>2. \A j : j \in 1 .. l + 1 <=> j \in 1 .. l \/ j = l + 1
  BY <1>1
<1>3. Before(s, u) = b
  BY <1>1 DEF Before
<1>. HIDE DEF b
<1>4. /\ b >= 0 /\ (\A i \in 1 .. b : ~s[i].queued) /\ s[Len(s)].queued
      /\ \A i, j \in 1 .. b : i # j => s[i].id # s[j].id
      /\ \A i, j \in 1 .. l : i # j => q[i].id # q[j].id
      /\ \A i \in 1 .. b : \A j \in 1 .. l : s[i].id # q[j].id
  BY DEF Lined, b, l
<1>5. /\ \A i \in 1 .. b : s[i].id # e.id
      /\ \A j \in 1 .. l : q[j].id # e.id
  BY DEF Waiting, b, l
<1>6. \A i, j \in 1 .. l + 1 : i # j => u[i].id # u[j].id
  BY <1>1, <1>2, <1>4, <1>5
<1>7. \A i \in 1 .. b : \A j \in 1 .. l + 1 : s[i].id # u[j].id
  BY <1>1, <1>2, <1>4, <1>5
<1>8. Lined(s, u)
  BY <1>1, <1>3, <1>4, <1>6, <1>7 DEF Lined
<1>9. {u[j].id : j \in 1 .. l + 1} = {q[j].id : j \in 1 .. l} \cup {e.id}
  BY <1>1, <1>2
<1>10. Waiting(s, u) = Waiting(s, q) \cup {e.id}
  BY <1>1, <1>3, <1>9 DEF Waiting, b, l
<1>. QED  BY <1>8, <1>10 DEF u

(* A callback is called or a write is made, or the reads go on: the socket *)
(* stays dead.                                                             *)
DeadFields == {"write", "sockq", "queue", "writes", "answers"} \cup ReadFields

LEMMA FailedStep ==
  ASSUME NEW k, NEW m, FailedInv(k), SameBut(k, m, DeadFields),
         m.writes = k.writes \/ \E w \in KTLSWrites : m.writes = Append(k.writes, w),
         m.answers = k.answers \/ \E id \in Nat : m.answers = Append(k.answers, ErrAnswer(id)),
         m.sockq \in Seq(SockEntry(k)), m.queue \in Seq(Request),
         k.setup.kind = "both" => m.queue = <<>>,
         Lined(m.sockq, m.queue), Owes(m.answers, Waiting(m.sockq, m.queue), Len(m.writes))
  PROVE  FailedInv(m)
<1>. DEFINE a == Len(k.answers)
<1>1. /\ KTLSWriteTypes(k) /\ Numbered(k) /\ InOrder(k, 0) /\ ~k.alive /\ k.sock = "ktls"
      /\ \A i \in 1 .. a : k.answers[i].ok => k.answers[i].id = i
      /\ Owes(k.answers, Waiting(k.sockq, k.queue), Len(k.writes))
  BY DEF FailedInv
<1>2. /\ m.setup = k.setup /\ m.sock = k.sock /\ m.alive = k.alive /\ m.out = k.out /\ DOMAIN m = KTLSFields
  BY DEF SameBut, KTLSFields, DeadFields, ReadFields
<1>3. OutRecords(m) = OutRecords(k) /\ (\A x : OutCrypto(m, x) = OutCrypto(k, x))
  BY <1>2 DEF OutRecords, OutCrypto
<1>4. k.answers \in Seq(Answer) /\ a \in Nat
  BY <1>1 DEF KTLSWriteTypes, Answer
<1>5. /\ m.answers \in Seq(Answer)
      /\ \A i \in 1 .. Len(m.answers) : m.answers[i].ok => i \in 1 .. a /\ m.answers[i] = k.answers[i]
  <2>1. CASE m.answers = k.answers
    BY <1>4, <2>1
  <2>2. ASSUME NEW id \in Nat, m.answers = Append(k.answers, ErrAnswer(id))
        PROVE  /\ m.answers \in Seq(Answer)
               /\ \A i \in 1 .. Len(m.answers) : m.answers[i].ok => i \in 1 .. a /\ m.answers[i] = k.answers[i]
    <3>. DEFINE e == ErrAnswer(id)
    <3>1. e \in Answer /\ ~e.ok
      BY ErrAnswerIs
    <3>. HIDE DEF e
    <3>2. /\ m.answers \in Seq(Answer) /\ Len(m.answers) = a + 1
          /\ (\A i \in 1 .. a : m.answers[i] = k.answers[i]) /\ m.answers[a + 1] = e
      BY <1>4, <2>2, <3>1, Appended DEF e
    <3>3. \A i : i \in 1 .. a + 1 <=> i \in 1 .. a \/ i = a + 1
      BY <1>4
    <3>. HIDE DEF a
    <3>. QED  BY <3>1, <3>2, <3>3
  <2>. QED  BY <2>1, <2>2
<1>. HIDE DEF a
<1>6. m.writes \in Seq(KTLSWrites)
  <2>1. k.writes \in Seq(KTLSWrites)
    BY <1>1 DEF KTLSWriteTypes
  <2>2. CASE m.writes = k.writes
    BY <2>1, <2>2
  <2>3. CASE \E w \in KTLSWrites : m.writes = Append(k.writes, w)
    BY <2>1, <2>3, WritesGrow
  <2>. QED  BY <2>2, <2>3
<1>7. KTLSWriteTypes(m)
  <2>1. /\ k.setup \in KTLSSetups /\ k.sock \in {"fizz", "ktls"} /\ k.alive \in BOOLEAN
        /\ k.out \in Seq(OutRecords(k))
    BY <1>1, Zenon DEF KTLSWriteTypes
  <2>2. m.sockq \in Seq([id : Nat, queued : BOOLEAN, records : Seq(OutRecords(m))])
    BY <1>3 DEF SockEntry
  <2>. QED  BY <1>2, <1>3, <1>5, <1>6, <2>1, <2>2, Zenon DEF KTLSWriteTypes, Answer, Request
<1>8. Numbered(m)
  <2>1. \A i \in 1 .. Len(m.out) : m.out[i].crypto = OutCrypto(m, i - 1)
    BY <1>1, <1>2, <1>3, Zenon DEF Numbered
  <2>. QED  BY <1>1, <1>2, <2>1 DEF Numbered
<1>9. InOrder(m, 0)
  <2>. DEFINE o == [k EXCEPT !.writes = m.writes]
  <2>1. /\ o.out = k.out /\ o.answers = k.answers /\ o.setup = k.setup /\ o.alive = k.alive
        /\ o.writes = m.writes
    BY <1>1 DEF KTLSWriteTypes, KTLSFields
  <2>. HIDE DEF o
  <2>2. \A i \in 1 .. Len(k.answers) : k.answers[i].ok => i \in 1 .. Len(k.writes)
    BY <1>1, SMTT(60) DEF Owes, a
  <2>3. InOrder(o, 0)
    BY <1>1, <2>1, <2>2, OrderStays
  <2>4. \A i \in 1 .. Len(m.answers) : m.answers[i].ok =>
          \E j \in 1 .. Len(m.out) : m.out[j].data = <<i, m.writes[i].size>>
    <3>. SUFFICES ASSUME NEW i \in 1 .. Len(m.answers), m.answers[i].ok
                  PROVE  \E j \in 1 .. Len(m.out) : m.out[j].data = <<i, m.writes[i].size>>
      OBVIOUS
    <3>1. i \in 1 .. Len(k.answers) /\ k.answers[i].ok
      BY <1>5 DEF a
    <3>2. \A x \in 1 .. Len(o.answers) : o.answers[x].ok =>
            \E j \in 1 .. Len(o.out) : o.out[j].data = <<x, o.writes[x].size>>
      BY <2>3 DEF InOrder
    <3>3. \E j \in 1 .. Len(o.out) : o.out[j].data = <<i, o.writes[i].size>>
      BY <2>1, <3>1, <3>2
    <3>. QED  BY <1>2, <2>1, <3>3, Zenon
  <2>5. \A i \in m.setup.wseq + 1 .. Len(m.out) :
          /\ m.out[i].data[1] \in 1 .. Len(m.writes)
          /\ m.out[i].data = IF i = m.setup.wseq + 1 THEN <<1, 1>>
                             ELSE PieceAfter(m.writes, m.out[i - 1].data)
    BY <1>2, <2>1, <2>3 DEF InOrder
  <2>6. Len(m.out) >= m.setup.wseq /\ ~m.alive
    BY <1>1, <1>2, <2>1, <2>3 DEF InOrder
  <2>. QED  BY <2>4, <2>5, <2>6 DEF InOrder
<1>10. \A i \in 1 .. Len(m.answers) : m.answers[i].ok => m.answers[i].id = i
  BY <1>1, <1>5
<1>. QED  BY <1>1, <1>2, <1>7, <1>8, <1>9, <1>10 DEF FailedInv

(* What is known of the parts of a dead socket.                            *)
LEMMA FailedParts ==
  ASSUME NEW k, FailedInv(k)
  PROVE  /\ DOMAIN k = KTLSFields /\ k.answers \in Seq(Answer) /\ k.writes \in Seq(KTLSWrites)
         /\ Len(k.writes) \in Nat /\ k.sockq \in Seq(SockEntry(k)) /\ k.queue \in Seq(Request)
         /\ Lined(k.sockq, k.queue) /\ Owes(k.answers, Waiting(k.sockq, k.queue), Len(k.writes))
         /\ Waiting(k.sockq, k.queue) \subseteq Nat /\ (k.setup.kind = "both" => k.queue = <<>>)
<1>1. /\ DOMAIN k = KTLSFields /\ k.answers \in Seq(Answer) /\ k.writes \in Seq(KTLSWrites)
      /\ k.sockq \in Seq(SockEntry(k)) /\ k.queue \in Seq(Request)
  BY Zenon DEF FailedInv, KTLSWriteTypes, Answer, SockEntry, Request
<1>2. Len(k.writes) \in Nat
  BY <1>1
<1>3. Owes(k.answers, Waiting(k.sockq, k.queue), Len(k.writes))
  BY DEF FailedInv
<1>4. Waiting(k.sockq, k.queue) \subseteq Nat
  BY <1>2, <1>3 DEF Owes
<1>. QED  BY <1>1, <1>2, <1>3, <1>4 DEF FailedInv

LEMMA FailedSame ==
  ASSUME NEW k, NEW m, FailedInv(k), SameBut(k, m, ReadFields)
  PROVE  FailedInv(m)
<1>1. SameBut(k, m, DeadFields)
  BY DEF SameBut, DeadFields
<1>2. m.writes = k.writes /\ m.answers = k.answers /\ m.sockq = k.sockq /\ m.queue = k.queue
  BY DEF SameBut, KTLSFields, ReadFields
<1>3. /\ k.sockq \in Seq(SockEntry(k)) /\ k.queue \in Seq(Request) /\ Lined(k.sockq, k.queue)
      /\ Owes(k.answers, Waiting(k.sockq, k.queue), Len(k.writes))
      /\ (k.setup.kind = "both" => k.queue = <<>>)
  BY FailedParts
<1>. QED  BY <1>1, <1>2, <1>3, FailedStep

(* The callback of the first write, or of the head of the queue.           *)
LEMMA WriteErrKeeps ==
  ASSUME NEW k, FailedInv(k), k.sockq # <<>>
  PROVE  LET m == DeliverSingleWriteErr(k)
         IN FailedInv(m) /\ SameBut(k, m, WriteFields)
<1>. DEFINE m == DeliverSingleWriteErr(k)
            W == Waiting(k.sockq, k.queue)
            n == Len(k.writes)
<1>1. /\ DOMAIN k = KTLSFields /\ k.answers \in Seq(Answer) /\ n \in Nat
      /\ k.sockq \in Seq(SockEntry(k)) /\ k.queue \in Seq(Request)
      /\ Lined(k.sockq, k.queue) /\ Owes(k.answers, W, n)
      /\ W \subseteq Nat /\ (k.setup.kind = "both" => k.queue = <<>>)
  BY FailedParts
<1>2. Head(k.sockq) = k.sockq[1]
  OBVIOUS
<1>3. CASE ~k.sockq[1].queued
  <2>. DEFINE id == k.sockq[1].id
  <2>1. m = [[k EXCEPT !.sockq = Tail(k.sockq)] EXCEPT !.answers = Append(k.answers, ErrAnswer(id))]
    BY <1>1, <1>2, <1>3 DEF DeliverSingleWriteErr, AnsweredErr, ErrAnswer, KTLSFields
  <2>. HIDE DEF m
  <2>2. /\ SameBut(k, m, {"sockq", "answers"}) /\ m.sockq = Tail(k.sockq)
        /\ m.answers = Append(k.answers, ErrAnswer(id))
    BY <1>1, <2>1 DEF SameBut, KTLSFields
  <2>3. SameBut(k, m, WriteFields) /\ SameBut(k, m, DeadFields) /\ m.queue = k.queue /\ m.writes = k.writes
    BY <2>2 DEF SameBut, WriteFields, DeadFields, KTLSFields
  <2>4. /\ Lined(Tail(k.sockq), k.queue) /\ id \in W
        /\ Waiting(Tail(k.sockq), k.queue) = W \ {id}
    BY <1>1, <1>3, LinedDirect
  <2>. HIDE DEF id, W, n
  <2>5. Owes(m.answers, W \ {id}, n) /\ id \in Nat
    BY <1>1, <2>2, <2>4, OwesTold
  <2>6. Tail(k.sockq) \in Seq(SockEntry(k))
    BY <1>1
  <2>7. Lined(m.sockq, m.queue) /\ Owes(m.answers, Waiting(m.sockq, m.queue), Len(m.writes))
    BY <2>2, <2>3, <2>4, <2>5 DEF n
  <2>8. FailedInv(m)
    BY <1>1, <2>2, <2>3, <2>5, <2>6, <2>7, FailedStep
  <2>. QED  BY <2>3, <2>8 DEF m
<1>4. CASE k.sockq[1].queued
  <2>. DEFINE id == k.queue[1].id
              r == IF Len(k.queue) = 1 THEN Tail(k.sockq) ELSE k.sockq
  <2>1. m = [[k EXCEPT !.queue = Tail(k.queue), !.sockq = r] EXCEPT !.answers = Append(k.answers, ErrAnswer(id))]
    BY <1>1, <1>2, <1>4 DEF DeliverSingleWriteErr, AnsweredErr, ErrAnswer, KTLSFields
  <2>. HIDE DEF m, r
  <2>2. /\ SameBut(k, m, {"queue", "sockq", "answers"}) /\ m.sockq = r /\ m.queue = Tail(k.queue)
        /\ m.answers = Append(k.answers, ErrAnswer(id))
    BY <1>1, <2>1 DEF SameBut, KTLSFields
  <2>3. SameBut(k, m, WriteFields) /\ SameBut(k, m, DeadFields) /\ m.writes = k.writes
    BY <2>2 DEF SameBut, WriteFields, DeadFields, KTLSFields
  <2>4. /\ k.queue # <<>> /\ Lined(r, Tail(k.queue)) /\ id \in W
        /\ Waiting(r, Tail(k.queue)) = W \ {id}
    BY <1>1, <1>4, LinedQueued DEF r
  <2>5. r \in Seq(SockEntry(k)) /\ Tail(k.queue) \in Seq(Request)
    BY <1>1, <2>4 DEF r
  <2>. HIDE DEF id, W, n
  <2>6. Owes(m.answers, W \ {id}, n) /\ id \in Nat
    BY <1>1, <2>2, <2>4, OwesTold
  <2>7. Lined(m.sockq, m.queue) /\ Owes(m.answers, Waiting(m.sockq, m.queue), Len(m.writes))
    BY <2>2, <2>3, <2>4, <2>6 DEF n
  <2>8. FailedInv(m)
    BY <1>1, <2>2, <2>3, <2>4, <2>5, <2>6, <2>7, FailedStep
  <2>. QED  BY <2>3, <2>8 DEF m
<1>. QED  BY <1>3, <1>4

LEMMA RefusedIs ==
  ASSUME NEW l, DOMAIN l = KTLSFields, ~l.alive, NEW id, NEW queued, NEW pieces
  PROVE  LET m == SocketWrite(l, id, queued, pieces)
         IN /\ SameBut(l, m, {"queue", "write", "answers"}) /\ m.queue = <<>>
            /\ m.answers = Append(l.answers, ErrAnswer(id))
<1>. DEFINE m == SocketWrite(l, id, queued, pieces)
            s == IF l.setup.kind = "both" THEN l.write.sequence ELSE l.write.sequence + Len(pieces)
            w == [l.write EXCEPT !.sequence = s]
<1>1. m = RefuseWrite(l, id, pieces)
  BY DEF SocketWrite
<1>2. m = [[l EXCEPT !.queue = <<>>, !.write = w] EXCEPT !.answers = Append(l.answers, ErrAnswer(id))]
  BY <1>1 DEF RefuseWrite, AnsweredErr, ErrAnswer, KTLSFields
<1>. HIDE DEF m, w
<1>3. /\ SameBut(l, m, {"queue", "write", "answers"}) /\ m.queue = <<>>
      /\ m.answers = Append(l.answers, ErrAnswer(id))
  BY <1>2 DEF SameBut, KTLSFields
<1>. QED  BY <1>3 DEF m

(* A write of the application to a dead socket, also from a callback.      *)
LEMMA DeadWriteKeeps ==
  ASSUME NEW k, FailedInv(k), NEW w \in KTLSWrites
  PROVE  FailedInv(AppWrites(k, w)) /\ SameBut(k, AppWrites(k, w), WriteFields)
<1>. DEFINE n == Len(k.writes)
            id == n + 1
            request == QueuedRequest(id, w.size)
            l == [k EXCEPT !.writes = Append(k.writes, w)]
            e == [l EXCEPT !.queue = <<request>>]
            f == [e EXCEPT !.queue = [e.queue EXCEPT ![1] = [e.queue[1] EXCEPT !.written = e.queue[1].written + 1]]]
            pieces == Pieces(id, 0, w.size)
            m == AppWrites(k, w)
            W == Waiting(k.sockq, k.queue)
<1>1. /\ DOMAIN k = KTLSFields /\ k.answers \in Seq(Answer) /\ n \in Nat /\ k.writes \in Seq(KTLSWrites)
      /\ k.sockq \in Seq(SockEntry(k)) /\ k.queue \in Seq(Request)
      /\ Lined(k.sockq, k.queue) /\ Owes(k.answers, W, n)
      /\ W \subseteq Nat /\ (k.setup.kind = "both" => k.queue = <<>>) /\ ~k.alive
  BY FailedParts DEF FailedInv
<1>2. SameBut(k, l, {"writes"}) /\ l.writes = Append(k.writes, w)
  BY <1>1 DEF SameBut, KTLSFields
<1>3. m = WriteChain(l, id, w)
  BY DEF AppWrites
<1>4. l.setup = k.setup /\ l.queue = k.queue /\ l.sockq = k.sockq /\ l.answers = k.answers
      /\ DOMAIN l = KTLSFields /\ ~l.alive
  BY <1>1, <1>2 DEF SameBut, KTLSFields
<1>5. Len(Append(k.writes, w)) = n + 1
  BY <1>1, WritesGrow
<1>. HIDE DEF l
<1>6. CASE k.queue # <<>>
  <2>1. m = [l EXCEPT !.queue = Append(k.queue, request)]
    <3>1. m = AppendRequest(l, request)
      BY <1>1, <1>3, <1>4, <1>6 DEF WriteChain
    <3>. HIDE DEF m, request
    <3>. QED  BY <1>4, <3>1 DEF AppendRequest
  <2>2. request \in Request /\ request.id = n + 1 /\ n + 1 \notin W
    <3>1. w.size \in Nat
      BY KTLSAssumption
    <3>2. request \in Request /\ request.id = n + 1
      BY <1>1, <3>1 DEF QueuedRequest, Request
    <3>3. n + 1 \notin 1 .. n
      BY <1>1
    <3>. QED  BY <1>1, <3>2, <3>3 DEF Owes
  <2>. HIDE DEF m, request, W
  <2>3. /\ SameBut(k, m, {"writes", "queue"}) /\ m.queue = Append(k.queue, request)
        /\ m.writes = Append(k.writes, w)
    BY <1>2, <1>4, <2>1 DEF SameBut, KTLSFields
  <2>4. /\ SameBut(k, m, WriteFields) /\ SameBut(k, m, DeadFields) /\ m.sockq = k.sockq
        /\ m.answers = k.answers
    BY <2>3 DEF SameBut, WriteFields, DeadFields, KTLSFields
  <2>5. /\ Lined(k.sockq, Append(k.queue, request))
        /\ Waiting(k.sockq, Append(k.queue, request)) = W \cup {n + 1}
    <3>1. request.id \notin Waiting(k.sockq, k.queue)
      BY <2>2 DEF W
    <3>2. /\ Lined(k.sockq, Append(k.queue, request))
          /\ Waiting(k.sockq, Append(k.queue, request)) = Waiting(k.sockq, k.queue) \cup {request.id}
      BY <1>1, <1>6, <2>2, <3>1, LinedMore
    <3>. QED  BY <2>2, <3>2 DEF W
  <2>. HIDE DEF n
  <2>6. Owes(k.answers, W \cup {n + 1}, n + 1)
    BY <1>1, OwesWaits
  <2>7. Append(k.queue, request) \in Seq(Request)
    BY <1>1, <2>2
  <2>8. Lined(m.sockq, m.queue) /\ Owes(m.answers, Waiting(m.sockq, m.queue), Len(m.writes))
    BY <1>5, <2>3, <2>4, <2>5, <2>6
  <2>9. k.setup.kind = "both" => m.queue = <<>>
    BY <1>1, <1>6
  <2>10. FailedInv(m)
    BY <1>1, <2>3, <2>4, <2>7, <2>8, <2>9, FailedStep
  <2>. QED  BY <2>4, <2>10 DEF m
<1>7. CASE k.queue = <<>>
  <2>1. \/ \E x, y : m = SocketWrite(l, id, x, y)
        \/ m = StartWriting(e)
    <3>. HIDE DEF e, request
    <3>1. CASE l.setup.kind = "both"
      BY <1>3, <3>1 DEF WriteChain
    <3>2. CASE l.setup.kind # "both" /\ NeedsToQueue(l, w)
      BY <1>3, <1>4, <1>7, <3>2 DEF WriteChain, e, request
    <3>3. CASE l.setup.kind # "both" /\ ~NeedsToQueue(l, w)
      BY <1>3, <1>4, <1>7, <3>3 DEF WriteChain
    <3>. QED  BY <3>1, <3>2, <3>3
  <2>. HIDE DEF m
  <2>2. /\ SameBut(k, m, {"queue", "write", "writes", "answers"}) /\ m.queue = <<>>
        /\ m.writes = Append(k.writes, w) /\ m.answers = Append(k.answers, ErrAnswer(id))
    <3>1. ASSUME NEW x, NEW y, m = SocketWrite(l, id, x, y)
          PROVE  /\ SameBut(k, m, {"queue", "write", "writes", "answers"}) /\ m.queue = <<>>
                 /\ m.writes = Append(k.writes, w) /\ m.answers = Append(k.answers, ErrAnswer(id))
      <4>. HIDE DEF id
      <4>1. SameBut(l, m, {"queue", "write", "answers"}) /\ m.queue = <<>>
            /\ m.answers = Append(l.answers, ErrAnswer(id))
        BY <1>4, <3>1, RefusedIs
      <4>. QED  BY <1>2, <1>4, <4>1 DEF SameBut, KTLSFields
    <3>2. CASE m = StartWriting(e)
      <4>1. e.queue[1].id = id /\ DOMAIN e = KTLSFields /\ (\A x \in KTLSFields \ {"queue"} : e[x] = l[x])
        <5>1. e.queue = <<request>>
          <6>. HIDE DEF request
          <6>. QED  BY <1>4 DEF KTLSFields
        <5>2. request.id = id
          BY DEF QueuedRequest
        <5>. HIDE DEF request, id
        <5>3. DOMAIN e = KTLSFields /\ (\A x \in KTLSFields \ {"queue"} : e[x] = l[x])
          BY <1>4 DEF KTLSFields
        <5>. HIDE DEF e
        <5>. QED  BY <5>1, <5>2, <5>3
      <4>. HIDE DEF e, id
      <4>2. DOMAIN f = KTLSFields /\ (\A x \in KTLSFields \ {"queue"} : f[x] = e[x])
        BY <4>1 DEF KTLSFields
      <4>3. StartWriting(e) = SocketWrite(f, id, TRUE, Pieces(id, e.queue[1].written, 1))
        BY <4>1 DEF StartWriting
      <4>. HIDE DEF f
      <4>4. ~f.alive /\ f.answers = k.answers
        BY <1>4, <4>1, <4>2 DEF KTLSFields
      <4>. DEFINE yes == TRUE
                  y == Pieces(id, e.queue[1].written, 1)
      <4>5. m = SocketWrite(f, id, yes, y)
        BY <3>2, <4>3
      <4>. HIDE DEF yes, y
      <4>6. SameBut(f, m, {"queue", "write", "answers"}) /\ m.queue = <<>>
            /\ m.answers = Append(f.answers, ErrAnswer(id))
        BY <4>2, <4>4, <4>5, RefusedIs
      <4>. QED  BY <1>2, <4>1, <4>2, <4>4, <4>6 DEF SameBut, KTLSFields
    <3>. QED  BY <2>1, <3>1, <3>2
  <2>3. /\ SameBut(k, m, WriteFields) /\ SameBut(k, m, DeadFields) /\ m.sockq = k.sockq
    BY <2>2 DEF SameBut, WriteFields, DeadFields, KTLSFields
  <2>. HIDE DEF n, W
  <2>4. Owes(m.answers, W, n + 1)
    BY <1>1, <2>2, OwesRefused DEF id
  <2>5. /\ Lined(m.sockq, m.queue) /\ Owes(m.answers, Waiting(m.sockq, m.queue), Len(m.writes))
        /\ id \in Nat
    BY <1>1, <1>5, <1>7, <2>2, <2>3, <2>4 DEF W
  <2>6. m.queue \in Seq(Request)
    BY <1>1, <1>7, <2>2
  <2>7. FailedInv(m)
    BY <1>1, <2>2, <2>3, <2>5, <2>6, FailedStep
  <2>. QED  BY <2>3, <2>7 DEF m
<1>. QED  BY <1>6, <1>7

(* The socket dies with what it holds and what is queued behind that.      *)
LEMMA Dies ==
  ASSUME NEW k, NEW m, WritesInv(k), k.sock = "ktls", SameBut(k, m, ReadFields \cup {"alive"}), m.alive = FALSE
  PROVE  FailedInv(m)
<1>. DEFINE h == IF k.queue = <<>> THEN 0 ELSE 1
            a == Len(k.answers)
            d == Direct(k, h)
            q == Len(k.queue)
            s == k.sockq
            n == Len(k.writes)
<1>1. /\ KTLSWriteTypes(k) /\ Numbered(k) /\ Counted(k, h) /\ Held(k, h) /\ InOrder(k, h)
  BY DEF WritesInv, WriteInv
<1>2. /\ m.setup = k.setup /\ m.sock = k.sock /\ m.out = k.out /\ m.sockq = s /\ m.queue = k.queue
      /\ m.writes = k.writes /\ m.answers = k.answers /\ DOMAIN m = KTLSFields
  BY DEF SameBut, KTLSFields, ReadFields
<1>3. OutRecords(m) = OutRecords(k) /\ (\A x : OutCrypto(m, x) = OutCrypto(k, x))
  BY <1>2 DEF OutRecords, OutCrypto
<1>4. KTLSWriteTypes(m)
  <2>1. m.alive \in BOOLEAN
    BY Zenon
  <2>. QED  BY <1>1, <1>2, <1>3, <2>1, Zenon DEF KTLSWriteTypes
<1>5. Numbered(m)
  <2>1. \A i \in 1 .. Len(m.out) : m.out[i].crypto = OutCrypto(m, i - 1)
    BY <1>1, <1>2, <1>3, Zenon DEF Numbered
  <2>. QED  BY <2>1 DEF Numbered
<1>6. InOrder(m, 0)
  <2>1. Len(m.out) >= m.setup.wseq
    BY <1>1, <1>2, Zenon DEF InOrder
  <2>2. \A i \in m.setup.wseq + 1 .. Len(m.out) :
          /\ m.out[i].data[1] \in 1 .. Len(m.writes)
          /\ m.out[i].data = IF i = m.setup.wseq + 1 THEN <<1, 1>>
                             ELSE PieceAfter(m.writes, m.out[i - 1].data)
    BY <1>1, <1>2 DEF InOrder
  <2>3. \A i \in 1 .. Len(m.answers) : m.answers[i].ok =>
          \E j \in 1 .. Len(m.out) : m.out[j].data = <<i, m.writes[i].size>>
    <3>1. \A i \in 1 .. Len(k.answers) : k.answers[i].ok =>
            \E j \in 1 .. Len(k.out) : k.out[j].data = <<i, k.writes[i].size>>
      BY <1>1 DEF InOrder
    <3>. QED  BY <1>2, <3>1, ZenonT(40)
  <2>. QED  BY <2>1, <2>2, <2>3 DEF InOrder
<1>7. /\ a \in Nat /\ q \in Nat /\ Len(s) \in Nat /\ n \in Nat /\ d >= 0 /\ d \in Nat /\ n = a + d + q
      /\ (k.queue = <<>> <=> q = 0) /\ Before(s, k.queue) = d
  <2>1. /\ k.answers \in Seq(Answer) /\ s \in Seq(SockEntry(k)) /\ k.queue \in Seq(Request)
        /\ k.writes \in Seq(KTLSWrites)
    BY <1>1, Zenon DEF KTLSWriteTypes, Answer, SockEntry, Request
  <2>2. /\ a \in Nat /\ q \in Nat /\ Len(s) \in Nat /\ n \in Nat /\ (k.queue = <<>> <=> q = 0)
    BY <2>1
  <2>3. d = Len(s) - h /\ d >= 0 /\ n = a + d + q
    BY <1>1 DEF Counted, Direct
  <2>4. h \in {0, 1} /\ Before(s, k.queue) = Len(s) - h
    BY DEF Before
  <2>. HIDE DEF d, h, q, a, n, s
  <2>. QED  BY <2>2, <2>3, <2>4
<1>8. /\ \A i \in 1 .. a : k.answers[i].id = i
      /\ \A i \in 1 .. d : ~s[i].queued /\ s[i].id = a + i
      /\ \A j \in 1 .. q : k.queue[j].id = a + d + j
  BY <1>1 DEF Counted
<1>9. k.queue # <<>> => s[Len(s)].queued
  BY <1>1 DEF Held
<1>. HIDE DEF a, d, q, s, n, h
<1>10. Lined(s, k.queue)
  <2>1. \A i, j \in 1 .. d : i # j => s[i].id # s[j].id
    <3>1. \A i, j \in 1 .. d : i # j => a + i # a + j
      BY <1>7
    <3>. QED  BY <1>8, <3>1
  <2>2. \A i, j \in 1 .. q : i # j => k.queue[i].id # k.queue[j].id
    BY <1>7, <1>8
  <2>3. \A i \in 1 .. d : \A j \in 1 .. q : s[i].id # k.queue[j].id
    <3>1. \A i \in 1 .. d : \A j \in 1 .. q : a + i # a + d + j
      BY <1>7
    <3>. QED  BY <1>8, <3>1
  <2>. QED  BY <1>7, <1>8, <1>9, <2>1, <2>2, <2>3 DEF Lined, q
<1>. DEFINE W == Waiting(s, k.queue)
<1>11. \A x : x \in W <=> x \in a + 1 .. n
  <2>1. ASSUME NEW x \in W PROVE x \in a + 1 .. n
    <3>1. (\E i \in 1 .. d : x = a + i) \/ (\E j \in 1 .. q : x = a + d + j)
      BY <1>7, <1>8 DEF Waiting, q
    <3>. HIDE DEF W
    <3>. QED  BY <1>7, <3>1
  <2>2. ASSUME NEW x \in a + 1 .. n PROVE x \in W
    <3>1. CASE x <= a + d
      <4>1. x - a \in 1 .. d /\ a + (x - a) = x
        BY <1>7, <3>1
      <4>2. s[x - a].id = x
        BY <1>8, <4>1
      <4>. QED  BY <1>7, <4>1, <4>2 DEF Waiting
    <3>2. CASE ~(x <= a + d)
      <4>1. x - (a + d) \in 1 .. q /\ a + d + (x - (a + d)) = x
        BY <1>7, <3>2
      <4>2. k.queue[x - (a + d)].id = x
        BY <1>8, <4>1
      <4>. QED  BY <4>1, <4>2 DEF Waiting, q
    <3>. QED  BY <3>1, <3>2
  <2>. QED  BY <2>1, <2>2
<1>. HIDE DEF W
<1>12. Owes(k.answers, W, n)
  <2>1. \A x : x \in (1 .. n) \ W <=> x \in 1 .. a
    <3>1. \A x : x \in 1 .. n /\ x \notin a + 1 .. n <=> x \in 1 .. a
      BY <1>7
    <3>. QED  BY <1>11, <3>1
  <2>2. W \subseteq 1 .. n
    <3>1. \A x \in a + 1 .. n : x \in 1 .. n
      BY <1>7
    <3>. QED  BY <1>11, <3>1
  <2>. QED  BY <1>8, <2>1, <2>2 DEF Owes, a
<1>13. k.setup.kind = "both" => k.queue = <<>>
  BY <1>1 DEF Held
<1>14. \A i \in 1 .. Len(m.answers) : m.answers[i].ok => m.answers[i].id = i
  BY <1>2, <1>8 DEF a
<1>. QED  BY <1>2, <1>4, <1>5, <1>6, <1>10, <1>12, <1>13, <1>14 DEF FailedInv, W, s, n

(* The socket lives, or has failed.                                        *)
LEMMA WritingSame ==
  ASSUME NEW k, NEW m, Writing(k), SameBut(k, m, ReadFields)
  PROVE  Writing(m)
BY WritesSame, FailedSame DEF Writing

(* What writing changes has no part in what is known of the reads.         *)
LEMMA ReadsSame ==
  ASSUME NEW k, NEW m, ReadInv(k), SameBut(k, m, WriteFields \cup {"callback"})
  PROVE  ReadInv(m)
<1>1. /\ m.setup = k.setup /\ m.sock = k.sock /\ m.asked = k.asked /\ m.read = k.read /\ m.rx = k.rx
      /\ m.sent = k.sent /\ m.taken = k.taken /\ m.delivered = k.delivered /\ m.reading = k.reading
      /\ m.undecryptable = k.undecryptable /\ m.unparsed = k.unparsed /\ m.cache = k.cache
  BY DEF SameBut, KTLSFields, WriteFields
<1>2. Messages(m) = Messages(k) /\ \A n : Delivered(m, n) = Delivered(k, n)
  BY <1>1, Zenon DEF Messages, Delivered
<1>3. Received(m)
  BY <1>1, <1>2, Zenon DEF ReadInv, Received
<1>4. IF m.reading = "open" THEN ReadingOn(m) ELSE Stopped(m)
  <2>1. CASE m.reading = "open"
    BY <1>1, <1>2, <2>1, Zenon DEF ReadInv, ReadingOn
  <2>2. CASE m.reading # "open"
    BY <1>1, <1>2, <2>2, Zenon DEF ReadInv, Stopped
  <2>. QED  BY <2>1, <2>2
<1>5. m.sock = "fizz" => NotConverted(m)
  BY <1>1, Zenon DEF ReadInv, NotConverted
<1>6. m.cache # None => Cached(m)
  BY <1>1, <1>2, Zenon DEF ReadInv, Cached
<1>. QED  BY <1>1, <1>3, <1>4, <1>5, <1>6 DEF ReadInv

LEMMA KTLSInitInv ==
  ASSUME KTLSInit
  PROVE  KTLSInv
<1>1. PICK setup \in KTLSSetups :
    kt = [setup |-> setup, sock |-> "fizz", asked |-> FALSE,
          read |-> RecordState("in", setup.suite, setup.rseq),
          write |-> RecordState("out", setup.suite, setup.wseq),
          rx |-> None, tx |-> None,
          sent |-> [i \in 1 .. setup.rseq |-> [type |-> "data", body |-> i]],
          taken |-> setup.rseq, delivered |-> [i \in 1 .. setup.rseq |-> i],
          reading |-> "open", undecryptable |-> FALSE,
          callback |-> None, unparsed |-> None, cache |-> None,
          out |-> EarlierRecords(setup), sockq |-> <<>>, queue |-> <<>>,
          writes |-> <<>>, answers |-> <<>>, alive |-> TRUE]
  BY DEF KTLSInit
<1>. DEFINE r == setup.rseq
            w == setup.wseq
<1>2. r \in Nat /\ w \in Nat
  BY KTLSAssumption
<1>3. /\ kt.setup = setup /\ kt.sock = "fizz" /\ ~kt.asked /\ kt.read = RecordState("in", setup.suite, r)
      /\ kt.write = RecordState("out", setup.suite, w) /\ kt.rx = None
      /\ kt.sent = [i \in 1 .. r |-> [type |-> "data", body |-> i]]
      /\ kt.taken = r /\ kt.delivered = [i \in 1 .. r |-> i] /\ kt.reading = "open" /\ ~kt.undecryptable
      /\ kt.unparsed = None /\ kt.cache = None
  BY <1>1
<1>4. /\ kt.out = EarlierRecords(setup) /\ kt.sockq = <<>> /\ kt.queue = <<>>
      /\ kt.writes = <<>> /\ kt.answers = <<>> /\ kt.alive = TRUE /\ DOMAIN kt = KTLSFields
  BY <1>1 DEF KTLSFields
<1>. HIDE DEF r, w
<1>5. ReadInv(kt)
  <2>. DEFINE S == [type : {"data"}, body : Nat] \cup PeerRecords
  <2>1. kt.sent \in Seq(S) /\ Len(kt.sent) = r /\ \A i \in 1 .. r : kt.sent[i].type = "data" /\ kt.sent[i].body = i
    <3>1. \A i \in 1 .. r : [type |-> "data", body |-> i] \in S
      BY <1>2
    <3>. HIDE DEF S
    <3>. QED  BY <1>2, <1>3, <3>1
  <2>2. kt.delivered \in Seq(Nat) /\ Len(kt.delivered) = r /\ DOMAIN kt.delivered = 1 .. r
        /\ \A i \in 1 .. r : kt.delivered[i] = i
    BY <1>2, <1>3
  <2>3. Range(kt.delivered) = 1 .. r
    BY <2>2 DEF Range
  <2>4. Delivered(kt, r)
    <3>1. 1 .. r = {p \in 1 .. r : kt.sent[p].type = "data"}
      BY <2>1
    <3>. QED  BY <2>2, <2>3, <3>1 DEF Delivered
  <2>5. Received(kt)
    <3>1. r \in 0 .. r
      BY <1>2
    <3>. QED  BY <1>3, <2>1, <2>2, <3>1 DEF Received
  <2>6. ReadingOn(kt) /\ NotConverted(kt)
    BY <1>3, <2>4 DEF ReadingOn, NotConverted
  <2>. QED  BY <1>3, <2>5, <2>6 DEF ReadInv
<1>6. /\ kt.out \in Seq(OutRecords(kt)) /\ Len(kt.out) = w
      /\ \A i \in 1 .. w : kt.out[i].crypto = OutCrypto(kt, i - 1)
  <2>. DEFINE rec(i) == [crypto |-> PeerCrypto("out", setup.suite, i - 1), data |-> <<0, i>>]
  <2>1. \A i \in 1 .. w : rec(i) \in OutRecords(kt) /\ rec(i).crypto = OutCrypto(kt, i - 1)
    <3>. TAKE i \in 1 .. w
    <3>1. i - 1 \in Nat /\ i \in Nat
      BY <1>2
    <3>2. PeerCrypto("out", setup.suite, i - 1) \in
            [key : {<<"out", setup.suite>>}, nonce : {<<"iv[:4]", "iv[4:]">>}, seq : Nat]
      BY <3>1 DEF PeerCrypto
    <3>. QED  BY <1>3, <3>1, <3>2 DEF OutRecords, OutCrypto
  <2>2. kt.out = [i \in 1 .. w |-> rec(i)]
    BY <1>4 DEF EarlierRecords, w
  <2>. HIDE DEF rec
  <2>. QED  BY <1>2, <2>1, <2>2
<1>7. Layer(kt) /\ kt.write.sequence = w
  BY <1>2, <1>3 DEF Layer, RecordState
<1>8. Numbered(kt)
  BY <1>3, <1>6 DEF Numbered
<1>9. KTLSWriteTypes(kt)
  <2>1. \A S : <<>> \in Seq(S)
    OBVIOUS
  <2>2. kt.alive \in BOOLEAN
    BY <1>1, Zenon
  <2>3. kt.setup \in KTLSSetups /\ kt.sock \in {"fizz", "ktls"}
    BY <1>3
  <2>. QED  BY <1>4, <1>6, <2>1, <2>2, <2>3, Zenon DEF KTLSWriteTypes
<1>10. Direct(kt, 0) = 0
  BY <1>4 DEF Direct
<1>11. Counted(kt, 0)
  <2>1. /\ Len(kt.writes) = 0 /\ Len(kt.answers) = 0 /\ Len(kt.queue) = 0
        /\ 0 = 0 + 0 + 0 /\ 0 >= 0 /\ ~(\E i : i \in 1 .. 0)
    BY <1>4
  <2>. QED  BY <1>10, <2>1 DEF Counted
<1>12. Held(kt, 0)
  BY <1>4 DEF Held
<1>13. InOrder(kt, 0)
  <2>1. Len(kt.answers) = 0 /\ Len(kt.out) = kt.setup.wseq /\ kt.setup.wseq \in Nat
    BY <1>2, <1>3, <1>4, <1>6 DEF w
  <2>2. PieceNext(kt, 0) = <<1, 1>>
    BY <1>4, <2>1 DEF PieceNext
  <2>3. ~(\E i : i \in kt.setup.wseq + 1 .. Len(kt.out)) /\ ~(\E i : i \in 1 .. Len(kt.answers))
        /\ Len(kt.out) >= kt.setup.wseq
    BY <2>1
  <2>. QED  BY <2>1, <2>2, <2>3, Zenon DEF InOrder
<1>14. WriteInv(kt, 0)
  BY <1>3, <1>4, <1>6, <1>7, <1>8, <1>9, <1>11, <1>12, <1>13 DEF WriteInv, w
<1>15. WritesInv(kt)
  BY <1>4, <1>14, WritesInvIs
<1>. QED  BY <1>5, <1>15 DEF KTLSInv, Writing

(* The conversion: the kernel gets the keys and the numbers that the fizz  *)
(* socket has come to.                                                     *)
LEMMA Installed ==
  ASSUME NEW direction, NEW suite, NEW seq,
         NEW opt, opt = ToSockoptFormat(FromRecordState(suite, RecordState(direction, suite, seq))), opt # None
  PROVE  KernelCrypto(opt) = PeerCrypto(direction, suite, seq)
<1>. DEFINE p == FromRecordState(suite, RecordState(direction, suite, seq))
<1>1. opt = <<"TLS_1_3", KTLSLayout[suite].type, "iv[4:]", <<direction, suite>>, "iv[:4]", seq>>
  <2>1. p.ciphersuite = suite /\ p.key = TrafficKeyOf(direction, suite) /\ p.recordSeq = seq
    BY DEF FromRecordState, RecordState
  <2>2. p.key.key = <<direction, suite>> /\ p.key.iv = <<"iv[:4]", "iv[4:]">>
    BY <2>1 DEF TrafficKeyOf
  <2>. HIDE DEF p
  <2>3. p.key.iv[1] = "iv[:4]" /\ p.key.iv[2] = "iv[4:]"
    BY <2>2
  <2>4. opt = ToSockoptFormat(p)
    BY DEF p
  <2>5. opt = <<"TLS_1_3", KTLSLayout[p.ciphersuite].type, p.key.iv[2], p.key.key, p.key.iv[1], p.recordSeq>>
    BY <2>4 DEF ToSockoptFormat
  <2>. QED  BY <2>1, <2>2, <2>3, <2>5
<1>. DEFINE type == KTLSLayout[suite].type
<1>. HIDE DEF type
<1>2. opt[4] = <<direction, suite>> /\ opt[5] = "iv[:4]" /\ opt[3] = "iv[4:]" /\ opt[6] = seq
  BY <1>1 DEF type
<1>. QED  BY <1>2 DEF KernelCrypto, PeerCrypto

LEMMA ConvertWrites ==
  ASSUME NEW k, NEW m, WritesInv(k), k.sock = "fizz", SameBut(k, m, ReadFields \cup {"tx", "sock"}),
         m.sock \in {"fizz", "ktls"},
         m.sock = "ktls" /\ k.setup.kind = "both" => m.tx = OutCrypto(k, k.write.sequence)
  PROVE  WritesInv(m)
<1>. DEFINE zero == 0
<1>1. /\ m.setup = k.setup /\ m.write = k.write /\ m.out = k.out
      /\ m.sockq = k.sockq /\ m.queue = k.queue /\ m.writes = k.writes /\ m.answers = k.answers
      /\ m.alive = k.alive /\ DOMAIN m = KTLSFields
  BY DEF SameBut, KTLSFields, ReadFields
<1>2. /\ k.write.sequence = k.setup.wseq /\ Len(k.out) = k.setup.wseq /\ k.alive
      /\ k.writes = <<>> /\ k.sockq = <<>> /\ k.queue = <<>>
  BY DEF WritesInv, WriteInv
<1>3. KTLSWriteTypes(k) /\ Layer(k) /\ Numbered(k) /\ Counted(k, zero) /\ Held(k, zero) /\ InOrder(k, zero)
  BY <1>2 DEF WritesInv, WriteInv
<1>. HIDE DEF zero
<1>4. OutRecords(m) = OutRecords(k) /\ (\A n : OutCrypto(m, n) = OutCrypto(k, n))
  BY <1>1 DEF OutRecords, OutCrypto
<1>5. Direct(m, zero) = Direct(k, zero) /\ PieceNext(m, zero) = PieceNext(k, zero)
  BY <1>1, Zenon DEF Direct, PieceNext
<1>6. KTLSWriteTypes(m)
  BY <1>1, <1>3, <1>4, Zenon DEF KTLSWriteTypes
<1>7. m.sock = "ktls" /\ k.setup.kind = "both" => m.tx = OutCrypto(m, m.tx.seq) /\ m.tx.seq = k.write.sequence
  BY <1>4, OutCryptoIs
<1>8. Layer(m)
  BY <1>1, <1>3, <1>7 DEF Layer
<1>9. Numbered(m)
  <2>1. \A i \in 1 .. Len(m.out) : m.out[i].crypto = OutCrypto(m, i - 1)
    BY <1>1, <1>3, <1>4, Zenon DEF Numbered
  <2>2. Len(m.sockq) = 0 /\ ~(1 <= 0) /\ ~(\E i : i \in 1 .. 0)
    BY <1>1, <1>2
  <2>3. m.sock = "ktls" => NextNumber(m) = k.write.sequence
    BY <1>1, <1>7 DEF NextNumber
  <2>4. m.sock = "ktls" => StartOf(m, 1) = Len(m.out)
    BY <1>1, <1>2, <2>2, <2>3 DEF StartOf
  <2>. QED  BY <2>1, <2>2, <2>4 DEF Numbered
<1>10. Counted(m, zero)
  BY <1>1, <1>3, <1>5 DEF Counted
<1>11. Held(m, zero)
  BY <1>1, <1>3, <1>5 DEF Held
<1>12. InOrder(m, zero)
  <2>1. Len(k.answers) <= Len(k.writes)
    <3>1. Len(k.writes) = 0 /\ Len(k.queue) = 0 /\ Len(k.sockq) = 0
      BY <1>2
    <3>2. Direct(k, zero) = 0
      BY <3>1 DEF Direct, zero
    <3>3. Len(k.writes) = Len(k.answers) + Direct(k, zero) + Len(k.queue)
      BY <1>3 DEF Counted
    <3>4. Len(k.answers) \in Nat
      BY <1>3 DEF KTLSWriteTypes
    <3>. QED  BY <3>1, <3>2, <3>3, <3>4
  <2>. QED  BY <1>1, <1>3, <1>5, <2>1, OrderKept
<1>13. WriteInv(m, zero)
  <2>1. zero \in {0, 1}
    BY DEF zero
  <2>. QED  BY <1>1, <1>2, <1>6, <1>8, <1>9, <1>10, <1>11, <1>12, <2>1 DEF WriteInv
<1>. QED  BY <1>1, <1>2, <1>13, WritesInvIs DEF zero

LEMMA ConvertReads ==
  ASSUME NEW k, NEW m, ReadInv(k), k.sock = "fizz", ~k.asked, m.asked,
         m.setup = k.setup, m.sent = k.sent, m.taken = k.taken, m.delivered = k.delivered,
         m.reading = k.reading, m.undecryptable = k.undecryptable, m.unparsed = k.unparsed,
         m.cache = k.cache, m.read = k.read,
         m.sock = "ktls" => m.rx = PeerCrypto("in", k.setup.suite, k.taken)
  PROVE  ReadInv(m)
<1>1. k.unparsed = None /\ k.cache = None /\ k.read = RecordState("in", k.setup.suite, k.taken)
  BY DEF ReadInv, NotConverted
<1>2. \A n : Delivered(m, n) = Delivered(k, n)
  BY Zenon DEF Delivered
<1>3. Received(m)
  BY <1>2, Zenon DEF ReadInv, Received
<1>4. IF m.reading = "open" THEN ReadingOn(m) ELSE Stopped(m)
  <2>1. CASE m.reading = "open"
    BY <1>1, <1>2, <2>1 DEF ReadInv, ReadingOn
  <2>2. CASE m.reading # "open"
    <3>1. /\ k.taken > 0 /\ Delivered(k, k.taken - 1) /\ k.sent[k.taken].type # "data"
      BY <1>1, <2>2 DEF ReadInv, NotConverted, Stopped
    <3>. QED  BY <1>2, <2>2, <3>1 DEF Stopped
  <2>. QED  BY <2>1, <2>2
<1>5. NotConverted(m)
  BY <1>1 DEF NotConverted
<1>. QED  BY <1>1, <1>3, <1>4, <1>5 DEF ReadInv

LEMMA ConvertKeeps ==
  ASSUME KTLSInv, TryConvertKTLS
  PROVE  KTLSInv'
<1>. DEFINE suite == kt.setup.suite
            rxs == ToSockoptFormat(FromRecordState(suite, kt.read))
            txs == ToSockoptFormat(FromRecordState(suite, kt.write))
<1>1. WritesInv(kt) /\ ReadInv(kt) /\ kt.sock = "fizz" /\ ~kt.asked /\ DOMAIN kt = KTLSFields
  <2>1. WritesInv(kt) /\ ReadInv(kt) /\ kt.sock = "fizz" /\ ~kt.asked
    BY DEF KTLSInv, Writing, FailedInv, TryConvertKTLS
  <2>. QED  BY <2>1 DEF WritesInv, WriteInv, KTLSWriteTypes
<1>2. /\ kt.read = RecordState("in", suite, kt.taken)
      /\ kt.write = RecordState("out", suite, kt.write.sequence)
  BY <1>1 DEF ReadInv, NotConverted, WritesInv, WriteInv, Layer
<1>. DEFINE R(fault) == IF kt.setup.kind = "both" THEN EnableKTLS(rxs, txs, fault)
                                                  ELSE EnableKTLSRx(rxs, fault)
<1>3. PICK fault \in KTLSFaults :
        kt' = IF ~kt.setup.good THEN [kt EXCEPT !.asked = TRUE]
              ELSE [kt EXCEPT !.asked = TRUE, !.rx = R(fault).rx, !.tx = R(fault).tx,
                     !.sock = IF R(fault).error THEN kt.sock ELSE "ktls",
                     !.callback = IF R(fault).error THEN kt.callback ELSE TicketHandler(kt.setup)]
  <2>. DEFINE K(c) == IF ~kt.setup.good THEN [kt EXCEPT !.asked = TRUE]
              ELSE [kt EXCEPT !.asked = TRUE, !.rx = c.rx, !.tx = c.tx,
                     !.sock = IF c.error THEN kt.sock ELSE "ktls",
                     !.callback = IF c.error THEN kt.callback ELSE TicketHandler(kt.setup)]
  <2>1. PICK fault \in KTLSFaults :
          \E a \in {rxs} : \E b \in {txs} :
          \E c \in {IF kt.setup.kind = "both" THEN EnableKTLS(a, b, fault) ELSE EnableKTLSRx(a, fault)} :
             kt' = K(c)
    <3>. HIDE DEF rxs, txs
    <3>. QED  BY Zenon DEF TryConvertKTLS, rxs, txs
  <2>. HIDE DEF rxs, txs, K
  <2>2. PICK a \in {rxs} : \E b \in {txs} :
          \E c \in {IF kt.setup.kind = "both" THEN EnableKTLS(a, b, fault) ELSE EnableKTLSRx(a, fault)} :
             kt' = K(c)
    BY <2>1
  <2>3. PICK b \in {txs} :
          \E c \in {IF kt.setup.kind = "both" THEN EnableKTLS(a, b, fault) ELSE EnableKTLSRx(a, fault)} :
             kt' = K(c)
    BY <2>2
  <2>4. PICK c \in {IF kt.setup.kind = "both" THEN EnableKTLS(a, b, fault) ELSE EnableKTLSRx(a, fault)} :
             kt' = K(c)
    BY <2>3
  <2>5. c = R(fault)
    BY <2>2, <2>3, <2>4, Zenon
  <2>6. kt' = K(R(fault))
    BY <2>4, <2>5
  <2>. QED  BY <2>6 DEF K
<1>. DEFINE r == R(fault)
<1>4. ~r.error => /\ r.rx = PeerCrypto("in", suite, kt.taken)
                  /\ kt.setup.kind = "both" => r.tx = PeerCrypto("out", suite, kt.write.sequence)
  <2>. HIDE DEF rxs, txs
  <2>. SUFFICES ASSUME ~r.error
                PROVE  /\ r.rx = PeerCrypto("in", suite, kt.taken)
                       /\ kt.setup.kind = "both" => r.tx = PeerCrypto("out", suite, kt.write.sequence)
    OBVIOUS
  <2>1. rxs # None => KernelCrypto(rxs) = PeerCrypto("in", suite, kt.taken)
    <3>1. rxs = ToSockoptFormat(FromRecordState(suite, RecordState("in", suite, kt.taken)))
      BY <1>2 DEF rxs
    <3>. HIDE DEF suite
    <3>. QED  BY <3>1, Installed
  <2>2. txs # None => KernelCrypto(txs) = PeerCrypto("out", suite, kt.write.sequence)
    <3>1. txs = ToSockoptFormat(FromRecordState(suite, RecordState("out", suite, kt.write.sequence)))
      BY <1>2 DEF txs
    <3>. HIDE DEF suite
    <3>. QED  BY <3>1, Installed
  <2>3. rxs # None /\ r.rx = KernelCrypto(rxs)
        /\ (kt.setup.kind = "both" => txs # None /\ r.tx = KernelCrypto(txs))
    <3>1. CASE kt.setup.kind = "both"
      <4>1. ~EnableKTLS(rxs, txs, fault).error
        BY <3>1
      <4>2. rxs # None /\ EnableKTLS(rxs, txs, fault).rx = KernelCrypto(rxs)
            /\ txs # None /\ EnableKTLS(rxs, txs, fault).tx = KernelCrypto(txs)
        BY <4>1 DEF EnableKTLS, Refused
      <4>. QED  BY <3>1, <4>2
    <3>2. CASE kt.setup.kind # "both"
      <4>1. ~EnableKTLSRx(rxs, fault).error
        BY <3>2
      <4>2. rxs # None /\ EnableKTLSRx(rxs, fault).rx = KernelCrypto(rxs)
        BY <4>1 DEF EnableKTLSRx, Refused
      <4>. QED  BY <3>2, <4>2
    <3>. QED  BY <3>1, <3>2
  <2>. QED  BY <2>1, <2>2, <2>3
<1>. HIDE DEF R, rxs, txs
<1>5. /\ SameBut(kt, kt', ReadFields \cup {"tx", "sock"}) /\ kt'.asked /\ kt'.setup = kt.setup
      /\ kt'.sent = kt.sent /\ kt'.taken = kt.taken /\ kt'.delivered = kt.delivered /\ kt'.reading = kt.reading
      /\ kt'.undecryptable = kt.undecryptable /\ kt'.unparsed = kt.unparsed /\ kt'.cache = kt.cache
      /\ kt'.read = kt.read
  <2>1. CASE ~kt.setup.good
    BY <1>1, <1>3, <2>1 DEF SameBut, KTLSFields, ReadFields
  <2>2. CASE kt.setup.good
    BY <1>1, <1>3, <2>2 DEF SameBut, KTLSFields, ReadFields
  <2>. QED  BY <2>1, <2>2
<1>6. /\ kt'.sock \in {"fizz", "ktls"}
      /\ kt'.sock = "ktls" => ~r.error /\ kt'.rx = r.rx /\ kt'.tx = r.tx
  <2>1. CASE ~kt.setup.good
    BY <1>1, <1>3, <2>1 DEF KTLSFields
  <2>2. CASE kt.setup.good
    BY <1>1, <1>3, <2>2 DEF KTLSFields
  <2>. QED  BY <2>1, <2>2
<1>7. WritesInv(kt')
  <2>1. kt'.sock = "ktls" /\ kt.setup.kind = "both" => kt'.tx = OutCrypto(kt, kt.write.sequence)
    BY <1>4, <1>6 DEF OutCrypto
  <2>. QED  BY <1>1, <1>5, <1>6, <2>1, ConvertWrites
<1>8. ReadInv(kt')
  <2>1. kt'.sock = "ktls" => kt'.rx = PeerCrypto("in", kt.setup.suite, kt.taken)
    BY <1>4, <1>6
  <2>. QED  BY <1>1, <1>5, <2>1, ConvertReads
<1>. QED  BY <1>7, <1>8 DEF KTLSInv, Writing

(* The peer sends one record more.                                         *)
LEMMA PeerSendsKeeps ==
  ASSUME KTLSInv, PeerSends
  PROVE  KTLSInv'
<1>. DEFINE S == [type : {"data"}, body : Nat] \cup PeerRecords
            l == Len(kt.sent)
<1>1. /\ Writing(kt) /\ ReadInv(kt) /\ Received(kt) /\ DOMAIN kt = KTLSFields
  BY DEF KTLSInv, ReadInv, Writing, FailedInv, WritesInv, WriteInv, KTLSWriteTypes
<1>2. kt.sent \in Seq(S) /\ l \in Nat /\ kt.taken \in 0 .. l
  <2>1. kt.sent \in Seq(S) /\ kt.taken \in 0 .. l
    BY <1>1 DEF Received
  <2>. HIDE DEF S
  <2>. QED  BY <2>1
<1>3. PICK r \in PeerRecords :
        kt' = [kt EXCEPT !.sent = Append(kt.sent, IF r.type = "data" THEN [r EXCEPT !.body = l + 1] ELSE r)]
  BY DEF PeerSends
<1>. DEFINE e == IF r.type = "data" THEN [r EXCEPT !.body = l + 1] ELSE r
<1>4. e \in S /\ (e.type = "data" => e.body = l + 1)
  <2>1. r = [type |-> r.type, body |-> r.body]
    BY KTLSAssumption
  <2>. HIDE DEF l
  <2>2. CASE r.type = "data"
    BY <1>2, <2>1, <2>2
  <2>3. CASE r.type # "data"
    BY <2>3
  <2>. QED  BY <2>2, <2>3
<1>. HIDE DEF e, S
<1>5. /\ SameBut(kt, kt', {"sent"}) /\ kt'.sent = Append(kt.sent, e)
  BY <1>1, <1>3 DEF SameBut, KTLSFields, e
<1>6. /\ kt'.sent \in Seq(S) /\ Len(kt'.sent) = l + 1 /\ (\A i \in 1 .. l : kt'.sent[i] = kt.sent[i])
      /\ kt'.sent[l + 1] = e
  BY <1>2, <1>4, <1>5, Appended
<1>. HIDE DEF l
<1>7. /\ kt'.setup = kt.setup /\ kt'.sock = kt.sock /\ kt'.asked = kt.asked /\ kt'.read = kt.read
      /\ kt'.rx = kt.rx /\ kt'.taken = kt.taken /\ kt'.delivered = kt.delivered /\ kt'.reading = kt.reading
      /\ kt'.undecryptable = kt.undecryptable /\ kt'.unparsed = kt.unparsed /\ kt'.cache = kt.cache
  BY <1>5 DEF SameBut, KTLSFields
<1>8. Writing(kt')
  <2>1. SameBut(kt, kt', ReadFields)
    BY <1>5 DEF SameBut, ReadFields
  <2>. QED  BY <1>1, <2>1, WritingSame
<1>9. \A n \in 0 .. kt.taken : Delivered(kt, n) => Delivered(kt', n)
  <2>. TAKE n \in 0 .. kt.taken
  <2>1. \A p \in 1 .. n : p \in 1 .. l
    BY <1>2
  <2>2. {p \in 1 .. n : kt'.sent[p].type = "data"} = {p \in 1 .. n : kt.sent[p].type = "data"}
    BY <1>6, <2>1
  <2>. QED  BY <1>7, <2>2, Zenon DEF Delivered
<1>10. kt.taken \in 0 .. kt.taken /\ (\A j \in 1 .. kt.taken : j \in 1 .. l) /\ kt.taken \in Nat
  BY <1>2
<1>11. Messages(kt') = Messages(kt)
  <2>1. \A j \in 1 .. kt.taken : kt'.sent[j] = kt.sent[j]
    BY <1>6, <1>10
  <2>2. {j \in 1 .. kt'.taken : kt'.sent[j].type = "handshake"} = {j \in 1 .. kt.taken : kt.sent[j].type = "handshake"}
    BY <1>7, <2>1
  <2>3. \A j \in {i \in 1 .. kt.taken : kt.sent[i].type = "handshake"} : kt'.sent[j].body = kt.sent[j].body
    BY <2>1
  <2>. QED  BY <2>2, <2>3 DEF Messages
<1>12. Received(kt')
  <2>1. \A i \in 1 .. l + 1 : kt'.sent[i].type = "data" => kt'.sent[i].body = i
    <3>. TAKE i \in 1 .. l + 1
    <3>1. CASE i = l + 1
      BY <1>4, <1>6, <3>1
    <3>2. CASE i # l + 1
      <4>1. i \in 1 .. l
        BY <1>2, <3>2
      <4>. QED  BY <1>1, <1>6, <4>1 DEF Received, l
    <3>. QED  BY <3>1, <3>2
  <2>2. kt.taken \in 0 .. l + 1
    BY <1>2
  <2>3. kt.delivered \in Seq(Nat)
    BY <1>1 DEF Received
  <2>. QED  BY <1>6, <1>7, <2>1, <2>2, <2>3 DEF Received, S
<1>17. kt'.reading # "open" => Stopped(kt')
  <2>. SUFFICES ASSUME kt.reading # "open" PROVE Stopped(kt')
    BY <1>7
  <2>1. Stopped(kt)
    BY <1>1 DEF ReadInv
  <2>2. kt.taken \in 1 .. l /\ kt.taken - 1 \in 0 .. kt.taken
    BY <1>2, <2>1 DEF Stopped
  <2>3. Delivered(kt', kt.taken - 1)
    BY <1>9, <2>1, <2>2 DEF Stopped
  <2>4. kt'.sent[kt.taken] = kt.sent[kt.taken]
    BY <1>6, <2>2
  <2>. QED  BY <1>7, <2>1, <2>3, <2>4, Zenon DEF Stopped
<1>13. kt'.reading = "open" => ReadingOn(kt')
  <2>. SUFFICES ASSUME kt.reading = "open" PROVE ReadingOn(kt')
    BY <1>7
  <2>1. ReadingOn(kt)
    BY <1>1 DEF ReadInv
  <2>2. Delivered(kt', kt.taken)
    BY <1>9, <1>10, <2>1 DEF ReadingOn
  <2>3. kt.taken > 0 => kt.taken \in 1 .. l
    BY <1>2
  <2>4. kt.taken > 0 => kt'.sent[kt.taken] = kt.sent[kt.taken]
    BY <1>6, <2>3
  <2>. QED  BY <1>7, <1>11, <2>1, <2>2, <2>4 DEF ReadingOn
<1>14. kt'.sock = "fizz" => NotConverted(kt')
  BY <1>1, <1>7, Zenon DEF ReadInv, NotConverted
<1>15. kt'.cache # None => Cached(kt')
  BY <1>1, <1>7, <1>11, Zenon DEF ReadInv, Cached
<1>16. ReadInv(kt')
  BY <1>1, <1>7, <1>12, <1>13, <1>14, <1>15, <1>17 DEF ReadInv
<1>. QED  BY <1>8, <1>16 DEF KTLSInv

LEMMA SeqWider ==
  ASSUME NEW S, NEW T, S \subseteq T, NEW s \in Seq(S)
  PROVE  s \in Seq(T)
OBVIOUS

(* One record is taken.                                                    *)
LEMMA TakenOne ==
  ASSUME NEW k, NEW m, Received(k), k.taken < Len(k.sent), m.sent = k.sent, m.taken = k.taken + 1
  PROVE  LET r == k.sent[k.taken + 1]
         IN /\ k.taken \in Nat /\ k.taken + 1 \in 1 .. Len(k.sent) /\ m.taken \in 0 .. Len(m.sent) /\ m.taken > 0
            /\ Messages(k) \subseteq Messages(m)
            /\ r.type = "data" => r.body = k.taken + 1
            /\ r.type = "handshake" => r.body \in Seq(Messages(m))
<1>. DEFINE S == [type : {"data"}, body : Nat] \cup PeerRecords
            l == Len(k.sent)
            t == k.taken
            r == k.sent[t + 1]
<1>1. k.sent \in Seq(S) /\ l \in Nat /\ t \in 0 .. l /\ r \in S
  <2>1. k.sent \in Seq(S) /\ t \in 0 .. l
    BY DEF Received
  <2>. HIDE DEF S
  <2>2. l \in Nat
    BY <2>1
  <2>3. t + 1 \in 1 .. l
    BY <2>1, <2>2
  <2>. QED  BY <2>1, <2>2, <2>3
<1>. HIDE DEF l
<1>2. t \in Nat /\ t + 1 \in 1 .. l /\ t + 1 \in 0 .. l /\ t + 1 > 0 /\ \A i \in 1 .. t : i \in 1 .. t + 1
  BY <1>1 DEF l
<1>3. Messages(k) \subseteq Messages(m)
  BY <1>2 DEF Messages
<1>4. r.type = "data" => r.body = t + 1
  BY <1>2 DEF Received, l
<1>5. r.type = "handshake" => r.body \in Seq(Messages(m))
  <2>. SUFFICES ASSUME r.type = "handshake"
                PROVE  r.body \in Seq(Messages(m))
    OBVIOUS
  <2>1. r \in PeerRecords
    BY <1>1
  <2>2. r.body \in Seq(Range(r.body))
    BY <2>1, KTLSAssumption
  <2>3. t + 1 \in {j \in 1 .. m.taken : m.sent[j].type = "handshake"}
    BY <1>2
  <2>4. Range(m.sent[t + 1].body) \subseteq Messages(m)
    BY <2>3 DEF Messages
  <2>. QED  BY <2>2, <2>4, SeqWider
<1>. QED  BY <1>2, <1>3, <1>4, <1>5 DEF l

LEMMA DeliveredSame ==
  ASSUME NEW k, NEW m, NEW n, Delivered(k, n), m.sent = k.sent, m.delivered = k.delivered
  PROVE  Delivered(m, n)
BY Zenon DEF Delivered

LEMMA DeliveredMore ==
  ASSUME NEW k, NEW m, NEW t \in Nat, Delivered(k, t), m.sent = k.sent, k.delivered \in Seq(Nat),
         \/ k.sent[t + 1].type # "data" /\ m.delivered = k.delivered
         \/ k.sent[t + 1].type = "data" /\ m.delivered = Append(k.delivered, t + 1)
  PROVE  Delivered(m, t + 1) /\ m.delivered \in Seq(Nat)
<1>. DEFINE d == Len(k.delivered)
<1>1. /\ \A i, j \in 1 .. d : i < j => k.delivered[i] < k.delivered[j]
      /\ Range(k.delivered) = {p \in 1 .. t : k.sent[p].type = "data"}
  BY DEF Delivered
<1>2. \A p : p \in 1 .. t + 1 <=> p \in 1 .. t \/ p = t + 1
  OBVIOUS
<1>3. CASE k.sent[t + 1].type # "data" /\ m.delivered = k.delivered
  <2>1. {p \in 1 .. t : k.sent[p].type = "data"} = {p \in 1 .. t + 1 : k.sent[p].type = "data"}
    BY <1>2, <1>3
  <2>. QED  BY <1>1, <1>3, <2>1 DEF Delivered
<1>4. CASE k.sent[t + 1].type = "data" /\ m.delivered = Append(k.delivered, t + 1)
  <2>1. /\ m.delivered \in Seq(Nat) /\ d \in Nat /\ Len(m.delivered) = d + 1
        /\ (\A i \in 1 .. d : m.delivered[i] = k.delivered[i]) /\ m.delivered[d + 1] = t + 1
        /\ DOMAIN m.delivered = 1 .. d + 1 /\ DOMAIN k.delivered = 1 .. d
    <3>1. t + 1 \in Nat
      OBVIOUS
    <3>. QED  BY <1>4, <3>1
  <2>. HIDE DEF d
  <2>2. \A i \in 1 .. d : k.delivered[i] \in Range(k.delivered)
    BY <2>1 DEF Range
  <2>3. \A i \in 1 .. d : k.delivered[i] \in 1 .. t
    BY <1>1, <2>2
  <2>4. \A i, j \in 1 .. d + 1 : i < j => m.delivered[i] < m.delivered[j]
    <3>. SUFFICES ASSUME NEW i \in 1 .. d + 1, NEW j \in 1 .. d + 1, i < j
                  PROVE  m.delivered[i] < m.delivered[j]
      OBVIOUS
    <3>1. i \in 1 .. d /\ (j \in 1 .. d \/ j = d + 1)
      BY <2>1
    <3>2. CASE j \in 1 .. d
      BY <1>1, <2>1, <3>1, <3>2
    <3>3. CASE j = d + 1
      <4>1. m.delivered[i] \in 1 .. t
        BY <2>1, <2>3, <3>1
      <4>2. m.delivered[j] = t + 1
        BY <2>1, <3>3
      <4>. QED  BY <4>1, <4>2
    <3>. QED  BY <3>1, <3>2, <3>3
  <2>5. Range(m.delivered) = Range(k.delivered) \cup {t + 1}
    <3>1. \A i : i \in 1 .. d + 1 <=> i \in 1 .. d \/ i = d + 1
      BY <2>1
    <3>. QED  BY <2>1, <3>1 DEF Range
  <2>6. Range(m.delivered) = {p \in 1 .. t + 1 : k.sent[p].type = "data"}
    BY <1>1, <1>2, <1>4, <2>5
  <2>. QED  BY <2>1, <2>4, <2>6 DEF Delivered
<1>. QED  BY <1>3, <1>4

LEMMA ReadEnds ==
  ASSUME NEW k, NEW m, ReadInv(k), k.reading = "open", k.taken < Len(k.sent),
         m.sent = k.sent, m.taken = k.taken + 1, m.delivered = k.delivered, m.cache = k.cache,
         m.undecryptable = k.undecryptable, m.reading # "open", m.sock = "fizz" => NotConverted(m),
         \/ k.sent[k.taken + 1].type # "data" \/ m.unparsed # None
         \/ m.sock = "fizz" /\ m.rx # None
  PROVE  ReadInv(m)
<1>1. Received(k) /\ Delivered(k, k.taken) /\ (k.cache # None => Cached(k)) /\ ~k.undecryptable
  BY DEF ReadInv, ReadingOn
<1>2. k.taken \in Nat /\ m.taken \in 0 .. Len(m.sent) /\ Messages(k) \subseteq Messages(m)
  BY <1>1, TakenOne
<1>3. Received(m)
  <2>3. /\ m.sent \in Seq([type : {"data"}, body : Nat] \cup PeerRecords) /\ m.delivered \in Seq(Nat)
        /\ \A i \in 1 .. Len(m.sent) : m.sent[i].type = "data" => m.sent[i].body = i
    BY <1>1 DEF Received
  <2>. QED  BY <1>2, <2>3 DEF Received
<1>4. m.cache # None => Cached(m)
  BY <1>1, <1>2 DEF Cached
<1>5. Stopped(m)
  <2>1. Delivered(m, k.taken)
    BY <1>1, DeliveredSame
  <2>2. m.taken - 1 = k.taken /\ m.taken > 0
    BY <1>2
  <2>. QED  BY <2>1, <2>2, Zenon DEF Stopped
<1>. QED  BY <1>1, <1>3, <1>4, <1>5 DEF ReadInv

LEMMA ReadGoesOn ==
  ASSUME NEW k, NEW m, ReadInv(k), k.reading = "open", k.taken < Len(k.sent),
         m.sent = k.sent, m.taken = k.taken + 1, m.undecryptable = k.undecryptable,
         m.reading = k.reading,
         \/ k.sent[k.taken + 1].type # "data" /\ m.delivered = k.delivered
         \/ k.sent[k.taken + 1].type = "data" /\ m.delivered = Append(k.delivered, k.sent[k.taken + 1].body),
         m.sock = "ktls" => m.rx = PeerCrypto("in", m.setup.suite, k.taken + 1),
         m.sock = "fizz" => NotConverted(m),
         m.unparsed # None => k.sent[k.taken + 1].type = "handshake" /\ m.unparsed \in Seq(Messages(m)),
         m.cache # None => Cached(m)
  PROVE  ReadInv(m)
<1>1. Received(k) /\ Delivered(k, k.taken) /\ ~k.undecryptable
  BY DEF ReadInv, ReadingOn
<1>2. /\ k.taken \in Nat /\ m.taken \in 0 .. Len(m.sent) /\ m.taken > 0
      /\ k.sent[k.taken + 1].type = "data" => k.sent[k.taken + 1].body = k.taken + 1
  BY <1>1, TakenOne
<1>3. Delivered(m, m.taken) /\ m.delivered \in Seq(Nat)
  <2>. DEFINE t == k.taken
  <2>1. k.delivered \in Seq(Nat) /\ t \in Nat /\ Delivered(k, t)
    BY <1>1, <1>2 DEF Received
  <2>2. \/ k.sent[t + 1].type # "data" /\ m.delivered = k.delivered
        \/ k.sent[t + 1].type = "data" /\ m.delivered = Append(k.delivered, t + 1)
    BY <1>2
  <2>3. m.taken = t + 1
    OBVIOUS
  <2>. HIDE DEF t
  <2>. QED  BY <2>1, <2>2, <2>3, DeliveredMore
<1>4. Received(m)
  <2>2. /\ m.sent \in Seq([type : {"data"}, body : Nat] \cup PeerRecords)
        /\ \A i \in 1 .. Len(m.sent) : m.sent[i].type = "data" => m.sent[i].body = i
    BY <1>1 DEF Received
  <2>. QED  BY <1>2, <1>3, <2>2 DEF Received
<1>5. ReadingOn(m)
  BY <1>2, <1>3 DEF ReadingOn
<1>6. m.reading = "open"
  OBVIOUS
<1>. QED  BY <1>1, <1>4, <1>5, <1>6 DEF ReadInv

(* A fizz socket reads: what the kernel has decrypted is an error.         *)
LEMMA FizzReadsKeeps ==
  ASSUME KTLSInv, FizzReads
  PROVE  KTLSInv'
<1>1. WritesInv(kt) /\ ReadInv(kt) /\ DOMAIN kt = KTLSFields /\ NotConverted(kt)
  <2>1. WritesInv(kt) /\ ReadInv(kt) /\ NotConverted(kt)
    BY DEF KTLSInv, Writing, FailedInv, FizzReads, ReadInv
  <2>. QED  BY <2>1 DEF WritesInv, WriteInv, KTLSWriteTypes
<1>2. kt.sock = "fizz" /\ kt.reading = "open" /\ kt.taken < Len(kt.sent) /\ kt.sent[kt.taken + 1].type = "data"
  BY DEF FizzReads
<1>3. CASE kt.rx # None
  <2>1. kt' = [kt EXCEPT !.reading = "error", !.taken = kt.taken + 1]
    BY <1>3 DEF FizzReads
  <2>2. /\ SameBut(kt, kt', ReadFields) /\ kt'.sent = kt.sent /\ kt'.taken = kt.taken + 1
        /\ kt'.delivered = kt.delivered /\ kt'.cache = kt.cache /\ kt'.undecryptable = kt.undecryptable
        /\ kt'.reading # "open" /\ kt'.unparsed = kt.unparsed /\ kt'.asked = kt.asked /\ kt'.rx = kt.rx
        /\ kt'.sock = kt.sock
    BY <1>1, <2>1 DEF SameBut, KTLSFields, ReadFields
  <2>3. NotConverted(kt')
    BY <1>1, <1>3, <2>2 DEF NotConverted
  <2>4. ReadInv(kt')
    BY <1>1, <1>2, <1>3, <2>2, <2>3, ReadEnds
  <2>. QED  BY <1>1, <2>2, <2>4, WritesSame DEF KTLSInv, Writing
<1>4. CASE kt.rx = None
  <2>1. kt' = [kt EXCEPT !.taken = kt.taken + 1, !.read = [kt.read EXCEPT !.sequence = kt.read.sequence + 1],
                         !.delivered = Append(kt.delivered, kt.sent[kt.taken + 1].body)]
    BY <1>1, <1>4 DEF FizzReads, KTLSFields
  <2>2. /\ SameBut(kt, kt', ReadFields) /\ kt'.sent = kt.sent /\ kt'.taken = kt.taken + 1
        /\ kt'.delivered = Append(kt.delivered, kt.sent[kt.taken + 1].body) /\ kt'.cache = kt.cache
        /\ kt'.undecryptable = kt.undecryptable /\ kt'.setup = kt.setup /\ kt'.sock = kt.sock
        /\ kt'.reading = kt.reading
        /\ kt'.read = [kt.read EXCEPT !.sequence = kt.read.sequence + 1]
        /\ kt'.unparsed = kt.unparsed /\ kt'.asked = kt.asked /\ kt'.rx = kt.rx
    BY <1>1, <2>1 DEF SameBut, KTLSFields, ReadFields
  <2>3. kt'.read = RecordState("in", kt.setup.suite, kt.taken + 1)
    <3>. DEFINE t == kt.taken + 1
    <3>1. kt.read = RecordState("in", kt.setup.suite, kt.taken)
      BY <1>1, <1>4 DEF NotConverted
    <3>2. kt.read.sequence = kt.taken
      BY <3>1 DEF RecordState
    <3>3. kt'.read = [RecordState("in", kt.setup.suite, kt.taken) EXCEPT !.sequence = t]
      BY <2>2, <3>1, <3>2, Zenon
    <3>. HIDE DEF t
    <3>4. kt'.read = RecordState("in", kt.setup.suite, t)
      BY <3>3 DEF RecordState
    <3>. QED  BY <3>4 DEF t
  <2>4. NotConverted(kt')
    BY <1>1, <1>4, <2>2, <2>3 DEF NotConverted
  <2>5. kt'.unparsed = None /\ kt'.cache = None /\ kt'.sock # "ktls"
    BY <1>2, <2>2, <2>4 DEF NotConverted
  <2>6. ReadInv(kt')
    BY <1>1, <1>2, <2>2, <2>4, <2>5, ReadGoesOn
  <2>. QED  BY <1>1, <2>2, <2>6, WritesSame DEF KTLSInv, Writing
<1>. QED  BY <1>3, <1>4

LEMMA TakeOverKeeps ==
  ASSUME KTLSInv, TakeOver
  PROVE  KTLSInv'
<1>1. Writing(kt) /\ ReadInv(kt) /\ DOMAIN kt = KTLSFields
  BY DEF KTLSInv, Writing, FailedInv, WritesInv, WriteInv, KTLSWriteTypes
<1>2. SameBut(kt, kt', {"callback"})
  BY <1>1 DEF TakeOver, SameBut, KTLSFields
<1>3. Writing(kt')
  <2>1. SameBut(kt, kt', ReadFields)
    BY <1>2 DEF SameBut, ReadFields
  <2>. QED  BY <1>1, <2>1, WritingSame
<1>4. ReadInv(kt')
  <2>1. SameBut(kt, kt', WriteFields \cup {"callback"})
    BY <1>2 DEF SameBut
  <2>. QED  BY <1>1, <2>1, ReadsSame
<1>. QED  BY <1>3, <1>4 DEF KTLSInv

LEMMA ReadErrorKeeps ==
  ASSUME NEW k, WritesInv(k), k.sock = "ktls"
  PROVE  /\ Writing(ReadError(k)) /\ ReadError(k).reading = "error"
         /\ SameBut(k, ReadError(k), {"alive", "reading"})
<1>. DEFINE m == ReadError(k)
<1>1. DOMAIN k = KTLSFields
  BY DEF WritesInv, WriteInv, KTLSWriteTypes
<1>2. m = [k EXCEPT !.reading = "error", !.alive = FALSE]
  BY DEF ReadError
<1>. HIDE DEF m
<1>3. SameBut(k, m, {"alive", "reading"}) /\ m.reading = "error"
  BY <1>1, <1>2 DEF SameBut, KTLSFields
<1>4. m.alive = FALSE
  BY <1>1, <1>2 DEF KTLSFields
<1>5. SameBut(k, m, ReadFields \cup {"alive"})
  BY <1>3 DEF SameBut, ReadFields
<1>6. Writing(m)
  BY <1>4, <1>5, Dies DEF Writing
<1>. QED  BY <1>3, <1>6 DEF m

(* What a record makes of the socket that took it, k: it stops reading, or *)
(* goes on with what it has delivered, cached and not parsed yet.          *)
ReadStops(k, m, r) ==
  /\ m.reading # "open" /\ Writing(m)
  /\ SameBut(k, m, {"alive", "reading", "unparsed"})
  /\ r.type # "data" \/ m.unparsed # None

ReadProceeds(k, m, r) ==
  /\ SameBut(k, m, {"delivered", "unparsed", "cache"})
  /\ \/ r.type # "data" /\ m.delivered = k.delivered
     \/ r.type = "data" /\ m.delivered = Append(k.delivered, r.body)
  /\ m.unparsed # None => r.type = "handshake" /\ m.unparsed \in Seq(Messages(k))
  /\ m.cache # k.cache => \E msg \in Messages(k) :
       /\ msg.type = "NewSessionTicket" /\ m.cache.psk = msg.ticket
       /\ m.cache.secret = <<"resumption secret", msg.nonce>>

LEMMA ErrorStops ==
  ASSUME NEW k, WritesInv(k), k.sock = "ktls", NEW r
  PROVE  /\ r.type # "data" \/ k.unparsed # None => ReadStops(k, ReadError(k), r)
         /\ r.type # "data" => ReadStops(k, ReadError([k EXCEPT !.unparsed = None]), r)
<1>. DEFINE e == [k EXCEPT !.unparsed = None]
<1>1. DOMAIN k = KTLSFields
  BY DEF WritesInv, WriteInv, KTLSWriteTypes
<1>2. ASSUME r.type # "data" \/ k.unparsed # None
      PROVE  ReadStops(k, ReadError(k), r)
  <2>1. /\ Writing(ReadError(k)) /\ ReadError(k).reading = "error"
        /\ SameBut(k, ReadError(k), {"alive", "reading"})
    BY ReadErrorKeeps
  <2>. DEFINE m == ReadError(k)
  <2>. HIDE DEF m
  <2>2. m.unparsed = k.unparsed
    BY <2>1 DEF SameBut, KTLSFields, m
  <2>3. ReadStops(k, m, r)
    BY <1>2, <2>1, <2>2 DEF ReadStops, SameBut, m
  <2>. QED  BY <2>3 DEF m
<1>3. SameBut(k, e, {"unparsed"}) /\ e.sock = "ktls"
  BY <1>1 DEF SameBut, KTLSFields
<1>. HIDE DEF e
<1>4. WritesInv(e)
  <2>1. SameBut(k, e, ReadFields)
    BY <1>3 DEF SameBut, ReadFields
  <2>. QED  BY <2>1, WritesSame
<1>5. ASSUME r.type # "data"
      PROVE  ReadStops(k, ReadError(e), r)
  <2>1. /\ Writing(ReadError(e)) /\ ReadError(e).reading = "error"
        /\ SameBut(e, ReadError(e), {"alive", "reading"})
    BY <1>3, <1>4, ReadErrorKeeps
  <2>. DEFINE m == ReadError(e)
  <2>. HIDE DEF m
  <2>2. ReadStops(k, m, r)
    BY <1>3, <1>5, <2>1 DEF ReadStops, SameBut, m
  <2>. QED  BY <2>2 DEF m
<1>. QED  BY <1>2, <1>5 DEF e

LEMMA EofStops ==
  ASSUME NEW k, WritesInv(k), NEW r, r.type # "data"
  PROVE  ReadStops(k, ReadEof(k), r)
<1>. DEFINE e == ReadEof(k)
<1>1. DOMAIN k = KTLSFields
  BY DEF WritesInv, WriteInv, KTLSWriteTypes
<1>2. SameBut(k, e, {"reading"}) /\ e.reading = "eof"
  BY <1>1 DEF SameBut, KTLSFields, ReadEof
<1>. HIDE DEF e
<1>3. WritesInv(e)
  <2>1. SameBut(k, e, ReadFields)
    BY <1>2 DEF SameBut, ReadFields
  <2>. QED  BY <2>1, WritesSame
<1>4. ReadStops(k, e, r)
  BY <1>2, <1>3 DEF ReadStops, SameBut, Writing
<1>. QED  BY <1>4 DEF e

LEMMA TicketCached ==
  ASSUME NEW k, WritesInv(k), NEW msg \in Messages(k), msg.type = "NewSessionTicket",
         NEW r, r.type = "handshake"
  PROVE  LET m == ReceivedNewSessionTicket([k EXCEPT !.unparsed = None], msg)
         IN ReadProceeds(k, m, r)
<1>. DEFINE e == [k EXCEPT !.unparsed = None]
            m == ReceivedNewSessionTicket(e, msg)
            c == MakePsk(msg)
<1>1. DOMAIN k = KTLSFields
  BY DEF WritesInv, WriteInv, KTLSWriteTypes
<1>2. SameBut(k, e, {"unparsed"}) /\ e.unparsed = None /\ e.cache = k.cache /\ e.delivered = k.delivered
  BY <1>1 DEF SameBut, KTLSFields
<1>3. c.psk = msg.ticket /\ c.secret = <<"resumption secret", msg.nonce>>
  BY DEF MakePsk, SetPskAndSecret
<1>. HIDE DEF e, c
<1>4. \/ m = e
      \/ m = [e EXCEPT !.cache = c]
  BY DEF ReceivedNewSessionTicket, c
<1>. HIDE DEF m
<1>5. /\ SameBut(k, m, {"delivered", "unparsed", "cache"}) /\ m.unparsed = None /\ m.delivered = k.delivered
      /\ (m.cache = k.cache \/ m.cache = c)
  BY <1>2, <1>4 DEF SameBut, KTLSFields
<1>6. ReadProceeds(k, m, r)
  BY <1>3, <1>5 DEF ReadProceeds
<1>. QED  BY <1>6 DEF m, e

(* What a handshake record makes of the socket.                            *)
LEMMA FragmentsRead ==
  ASSUME NEW k, WritesInv(k), k.sock = "ktls", NEW r, r.type = "handshake",
         NEW fragments \in Seq(Messages(k))
  PROVE  LET m == ProcessFragments(k, fragments)
         IN ReadStops(k, m, r) \/ ReadProceeds(k, m, r)
<1>. DEFINE m == ProcessFragments(k, fragments)
<1>1. DOMAIN k = KTLSFields /\ Len(fragments) \in Nat
  BY DEF WritesInv, WriteInv, KTLSWriteTypes
<1>2. CASE Len(fragments) < 2
  <2>1. m = [k EXCEPT !.unparsed = fragments]
    BY <1>2 DEF ProcessFragments
  <2>2. /\ SameBut(k, m, {"delivered", "unparsed", "cache"}) /\ m.unparsed = fragments
        /\ m.delivered = k.delivered /\ m.cache = k.cache
    <3>. HIDE DEF m
    <3>. QED  BY <1>1, <2>1 DEF SameBut, KTLSFields
  <2>. HIDE DEF m
  <2>3. ReadProceeds(k, m, r)
    BY <2>2 DEF ReadProceeds
  <2>. QED  BY <2>3 DEF m
<1>3. CASE ~(Len(fragments) < 2) /\ fragments[1] # fragments[2]
  <2>1. m = ReadError(k)
    BY <1>3 DEF ProcessFragments
  <2>. QED  BY <2>1, ErrorStops
<1>4. CASE ~(Len(fragments) < 2) /\ fragments[1] = fragments[2]
  <2>. DEFINE msg == fragments[1]
              e == [k EXCEPT !.unparsed = None]
  <2>1. m = ProcessHandshakeMessage(e, msg)
    BY <1>4 DEF ProcessFragments
  <2>2. msg \in Messages(k)
    <3>1. 1 \in 1 .. Len(fragments)
      BY <1>1, <1>4
    <3>. QED  BY <3>1
  <2>. HIDE DEF msg
  <2>3. CASE msg.type = "NewSessionTicket"
    <3>1. m = ReceivedNewSessionTicket(e, msg)
      BY <2>1, <2>3 DEF ProcessHandshakeMessage
    <3>. QED  BY <2>2, <2>3, <3>1, TicketCached
  <2>4. CASE msg.type # "NewSessionTicket"
    <3>1. m = ReadError(e)
      BY <2>1, <2>4 DEF ProcessHandshakeMessage
    <3>. QED  BY <3>1, ErrorStops
  <2>. QED  BY <2>3, <2>4
<1>. QED  BY <1>2, <1>3, <1>4

(* What any other record makes of the socket.                              *)
LEMMA RecordRead ==
  ASSUME NEW k, WritesInv(k), k.sock = "ktls", NEW r,
         r.type = "handshake" => r.body \in Seq(Messages(k)),
         k.unparsed # None => k.unparsed \in Seq(Messages(k))
  PROVE  /\ r.type # "data" => LET m == HandleNonApplicationData(k, r.type, r.body)
                               IN ReadStops(k, m, r) \/ ReadProceeds(k, m, r)
         /\ r.type = "data" => LET m == ReadApplicationData(k, r.body)
                               IN ReadStops(k, m, r) \/ ReadProceeds(k, m, r)
<1>1. DOMAIN k = KTLSFields
  BY DEF WritesInv, WriteInv, KTLSWriteTypes
<1>2. ASSUME r.type # "data"
      PROVE  LET m == HandleNonApplicationData(k, r.type, r.body)
             IN ReadStops(k, m, r) \/ ReadProceeds(k, m, r)
  <2>. DEFINE m == HandleNonApplicationData(k, r.type, r.body)
              f == IF k.unparsed = None THEN r.body ELSE k.unparsed \o r.body
  <2>1. \/ m = ReadError(k)
        \/ m = ReadEof(k)
        \/ r.type = "handshake" /\ m = ProcessFragments(k, f)
    BY DEF HandleNonApplicationData, ProcessAlert, ProcessHandshakeData
  <2>2. r.type = "handshake" => f \in Seq(Messages(k))
    OBVIOUS
  <2>. HIDE DEF f
  <2>3. r.type = "handshake" => ReadStops(k, ProcessFragments(k, f), r) \/ ReadProceeds(k, ProcessFragments(k, f), r)
    BY <2>2, FragmentsRead
  <2>. QED  BY <1>2, <2>1, <2>3, ErrorStops, EofStops
<1>3. ASSUME r.type = "data"
      PROVE  LET m == ReadApplicationData(k, r.body)
             IN ReadStops(k, m, r) \/ ReadProceeds(k, m, r)
  <2>. DEFINE m == ReadApplicationData(k, r.body)
  <2>1. CASE k.unparsed # None
    <3>1. m = ReadError(k)
      BY <2>1 DEF ReadApplicationData
    <3>. QED  BY <2>1, <3>1, ErrorStops
  <2>2. CASE k.unparsed = None
    <3>1. m = [k EXCEPT !.delivered = Append(k.delivered, r.body)]
      BY <2>2 DEF ReadApplicationData
    <3>. HIDE DEF m
    <3>2. /\ SameBut(k, m, {"delivered", "unparsed", "cache"}) /\ m.unparsed = None
          /\ m.delivered = Append(k.delivered, r.body) /\ m.cache = k.cache
      BY <1>1, <2>2, <3>1 DEF SameBut, KTLSFields
    <3>3. ReadProceeds(k, m, r)
      BY <1>3, <3>2 DEF ReadProceeds
    <3>. QED  BY <3>3 DEF m
  <2>. QED  BY <2>1, <2>2
<1>. QED  BY <1>2, <1>3

(* The kernel hands over one record.                                       *)
LEMMA PerformReadKeeps ==
  ASSUME KTLSInv, PerformReadMsg
  PROVE  KTLSInv'
<1>. DEFINE t == kt.taken
            r == kt.sent[t + 1]
            here == PeerCrypto("in", kt.setup.suite, t)
            k == [kt EXCEPT !.taken = kt.taken + 1, !.rx = [kt.rx EXCEPT !.seq = kt.rx.seq + 1]]
<1>1. WritesInv(kt) /\ ReadInv(kt) /\ DOMAIN kt = KTLSFields
  <2>1. WritesInv(kt) /\ ReadInv(kt)
    BY DEF KTLSInv, Writing, FailedInv, PerformReadMsg
  <2>. QED  BY <2>1 DEF WritesInv, WriteInv, KTLSWriteTypes
<1>2. kt.sock = "ktls" /\ kt.reading = "open" /\ t < Len(kt.sent)
  BY DEF PerformReadMsg
<1>3. ReadingOn(kt) /\ Received(kt) /\ kt.rx = here /\ (kt.cache # None => Cached(kt))
  BY <1>1, <1>2 DEF ReadInv, ReadingOn
<1>4. kt' = CASE r.type = "fin" -> ReadEof(k)
              [] r.type # "fin" /\ kt.rx # here -> ReadError([k EXCEPT !.undecryptable = TRUE])
              [] r.type = "data" /\ kt.rx = here -> ReadApplicationData(k, r.body)
              [] OTHER -> HandleNonApplicationData(k, r.type, r.body)
  BY <1>1 DEF PerformReadMsg, KTLSFields
<1>5. /\ SameBut(kt, k, {"taken", "rx"}) /\ k.taken = t + 1 /\ k.rx = [kt.rx EXCEPT !.seq = kt.rx.seq + 1]
  BY <1>1 DEF SameBut, KTLSFields
<1>. HIDE DEF k, r
<1>6. k.rx = PeerCrypto("in", kt.setup.suite, t + 1)
  <2>. DEFINE u == t + 1
  <2>1. kt.rx.seq = t
    BY <1>3 DEF PeerCrypto
  <2>2. k.rx = [PeerCrypto("in", kt.setup.suite, t) EXCEPT !.seq = u]
    BY <1>3, <1>5, <2>1, Zenon
  <2>. HIDE DEF u
  <2>3. k.rx = PeerCrypto("in", kt.setup.suite, u)
    BY <2>2 DEF PeerCrypto
  <2>. QED  BY <2>3 DEF u
<1>7. /\ k.sent = kt.sent /\ k.setup = kt.setup /\ k.sock = "ktls" /\ k.unparsed = kt.unparsed
      /\ k.cache = kt.cache /\ k.delivered = kt.delivered /\ k.undecryptable = kt.undecryptable
      /\ k.reading = kt.reading /\ DOMAIN k = KTLSFields
  BY <1>2, <1>5 DEF SameBut, KTLSFields
<1>8. WritesInv(k)
  <2>1. SameBut(kt, k, ReadFields)
    BY <1>5 DEF SameBut, ReadFields
  <2>. QED  BY <1>1, <2>1, WritesSame
<1>9. /\ Messages(kt) \subseteq Messages(k)
      /\ r.type = "handshake" => r.body \in Seq(Messages(k))
  BY <1>2, <1>3, <1>5, <1>7, TakenOne DEF r
<1>10. k.unparsed # None => k.unparsed \in Seq(Messages(k))
  BY <1>3, <1>7, <1>9, SeqWider DEF ReadingOn
<1>11. ReadStops(k, kt', r) \/ ReadProceeds(k, kt', r)
  <2>1. /\ r.type # "data" => \/ ReadStops(k, HandleNonApplicationData(k, r.type, r.body), r)
                              \/ ReadProceeds(k, HandleNonApplicationData(k, r.type, r.body), r)
        /\ r.type = "data" => \/ ReadStops(k, ReadApplicationData(k, r.body), r)
                              \/ ReadProceeds(k, ReadApplicationData(k, r.body), r)
    BY <1>7, <1>8, <1>9, <1>10, RecordRead
  <2>. HIDE DEF here
  <2>2. CASE r.type = "fin"
    <3>1. kt' = ReadEof(k)
      BY <1>3, <1>4, <2>2
    <3>. QED  BY <1>8, <2>2, <3>1, EofStops
  <2>3. CASE r.type = "data"
    <3>1. kt' = ReadApplicationData(k, r.body)
      BY <1>3, <1>4, <2>3
    <3>. QED  BY <2>1, <2>3, <3>1
  <2>4. CASE r.type # "fin" /\ r.type # "data"
    <3>1. kt' = HandleNonApplicationData(k, r.type, r.body)
      BY <1>3, <1>4, <2>4
    <3>. QED  BY <2>1, <2>4, <3>1
  <2>. QED  BY <2>2, <2>3, <2>4
<1>12. CASE ReadStops(k, kt', r)
  <2>1. /\ Writing(kt') /\ kt'.reading # "open" /\ kt'.sent = k.sent /\ kt'.taken = k.taken
        /\ kt'.delivered = k.delivered /\ kt'.cache = k.cache /\ kt'.undecryptable = k.undecryptable
        /\ kt'.sock = k.sock /\ (kt.sent[t + 1].type # "data" \/ kt'.unparsed # None)
    BY <1>12 DEF ReadStops, SameBut, KTLSFields, r
  <2>2. ReadInv(kt')
    BY <1>1, <1>2, <1>5, <1>7, <2>1, ReadEnds
  <2>. QED  BY <2>1, <2>2 DEF KTLSInv
<1>13. CASE ReadProceeds(k, kt', r)
  <2>1. /\ SameBut(k, kt', ReadFields) /\ kt'.sent = k.sent /\ kt'.taken = k.taken /\ kt'.setup = k.setup
        /\ kt'.rx = k.rx /\ kt'.sock = k.sock /\ kt'.undecryptable = k.undecryptable
        /\ kt'.reading = k.reading
    BY <1>13 DEF ReadProceeds, SameBut, KTLSFields, ReadFields
  <2>2. WritesInv(kt')
    BY <1>8, <2>1, WritesSame
  <2>3. Messages(kt') = Messages(k)
    BY <2>1, Zenon DEF Messages
  <2>4. /\ \/ r.type # "data" /\ kt'.delivered = k.delivered
           \/ r.type = "data" /\ kt'.delivered = Append(k.delivered, r.body)
        /\ kt'.unparsed # None => r.type = "handshake" /\ kt'.unparsed \in Seq(Messages(kt'))
    BY <1>13, <2>3 DEF ReadProceeds
  <2>5. kt'.cache # None => Cached(kt')
    <3>. SUFFICES ASSUME kt'.cache # None PROVE Cached(kt')
      OBVIOUS
    <3>1. CASE kt'.cache # k.cache
      <4>1. PICK msg \in Messages(k) : /\ msg.type = "NewSessionTicket" /\ kt'.cache.psk = msg.ticket
                                       /\ kt'.cache.secret = <<"resumption secret", msg.nonce>>
        BY <1>13, <3>1 DEF ReadProceeds
      <4>. QED  BY <2>3, <4>1 DEF Cached
    <3>2. CASE kt'.cache = k.cache
      <4>1. Cached(kt)
        BY <1>3, <1>7, <3>2
      <4>2. PICK msg \in Messages(kt) : /\ msg.type = "NewSessionTicket" /\ kt.cache.psk = msg.ticket
                                        /\ kt.cache.secret = <<"resumption secret", msg.nonce>>
        BY <4>1 DEF Cached
      <4>. QED  BY <1>7, <1>9, <2>3, <3>2, <4>2 DEF Cached
    <3>. QED  BY <3>1, <3>2
  <2>6. kt'.sock # "fizz" /\ kt'.rx = PeerCrypto("in", kt'.setup.suite, t + 1)
    BY <1>6, <1>7, <2>1
  <2>7. ReadInv(kt')
    BY <1>1, <1>2, <1>5, <1>7, <2>1, <2>4, <2>5, <2>6, ReadGoesOn DEF r
  <2>. QED  BY <2>2, <2>7 DEF KTLSInv, Writing
<1>. QED  BY <1>11, <1>12, <1>13

(* One step of the connection.                                             *)
LEMMA KTLSNextKeeps ==
  ASSUME KTLSInv, KTLSNext
  PROVE  KTLSInv'
<1>1. Writing(kt) /\ ReadInv(kt) /\ (kt.alive => WritesInv(kt)) /\ (~kt.alive => FailedInv(kt))
  BY DEF KTLSInv, Writing, FailedInv, WritesInv, WriteInv
<1>2. ASSUME Writing(kt'), SameBut(kt, kt', WriteFields)
      PROVE  KTLSInv'
  <2>1. SameBut(kt, kt', WriteFields \cup {"callback"})
    BY <1>2 DEF SameBut
  <2>. QED  BY <1>1, <1>2, <2>1, ReadsSame DEF KTLSInv
<1>3. CASE KTLSWrite
  <2>1. PICK w \in KTLSWrites : kt' = AppWrites(kt, w) /\ kt.sock = "ktls"
    BY <1>3 DEF KTLSWrite
  <2>2. Writing(AppWrites(kt, w)) /\ SameBut(kt, AppWrites(kt, w), WriteFields)
    BY <1>1, <2>1, AppWritesKeeps, DeadWriteKeeps DEF Writing
  <2>3. Writing(kt') /\ SameBut(kt, kt', WriteFields)
    BY <2>1, <2>2, Zenon
  <2>. QED  BY <1>2, <2>3
<1>4. CASE SocketSends
  <2>1. WritesInv(kt)
    BY <1>1, <1>4 DEF SocketSends
  <2>2. WritesInv(kt') /\ SameBut(kt, kt', WriteFields)
    BY <1>4, <2>1, SocketSendsKeeps
  <2>. QED  BY <1>2, <2>2 DEF Writing
<1>5. CASE SocketFails
  <2>. DEFINE k == [kt EXCEPT !.alive = FALSE]
  <2>1. WritesInv(kt) /\ kt.sock = "ktls" /\ DOMAIN kt = KTLSFields
    BY <1>1, <1>5 DEF SocketFails, WritesInv, WriteInv, KTLSWriteTypes
  <2>2. kt' = IF kt.sockq = <<>> THEN k ELSE DeliverSingleWriteErr(k)
    BY <1>5 DEF SocketFails
  <2>3. SameBut(kt, k, {"alive"}) /\ k.sockq = kt.sockq
    BY <2>1 DEF SameBut, KTLSFields
  <2>4. k.alive = FALSE
    BY <2>1 DEF KTLSFields
  <2>. HIDE DEF k
  <2>5. SameBut(kt, k, ReadFields \cup {"alive"}) /\ SameBut(kt, k, WriteFields)
    BY <2>3 DEF SameBut, WriteFields
  <2>6. FailedInv(k)
    BY <2>1, <2>4, <2>5, Dies
  <2>7. CASE kt.sockq = <<>>
    BY <1>2, <2>2, <2>5, <2>6, <2>7 DEF Writing
  <2>8. CASE kt.sockq # <<>>
    <3>1. FailedInv(DeliverSingleWriteErr(k)) /\ SameBut(k, DeliverSingleWriteErr(k), WriteFields)
      BY <2>3, <2>6, <2>8, WriteErrKeeps
    <3>2. FailedInv(kt') /\ SameBut(k, kt', WriteFields)
      BY <2>2, <2>8, <3>1, Zenon
    <3>3. SameBut(kt, kt', WriteFields)
      BY <2>5, <3>2, SameTwice
    <3>. QED  BY <1>2, <3>2, <3>3 DEF Writing
  <2>. QED  BY <2>7, <2>8
<1>6. CASE DeliverWriteErr
  <2>1. FailedInv(kt) /\ kt.sockq # <<>> /\ kt' = DeliverSingleWriteErr(kt)
    BY <1>1, <1>6 DEF DeliverWriteErr
  <2>2. FailedInv(DeliverSingleWriteErr(kt)) /\ SameBut(kt, DeliverSingleWriteErr(kt), WriteFields)
    BY <2>1, WriteErrKeeps
  <2>3. Writing(kt') /\ SameBut(kt, kt', WriteFields)
    BY <2>1, <2>2, Zenon DEF Writing
  <2>. QED  BY <1>2, <2>3
<1>. QED  BY <1>3, <1>4, <1>5, <1>6, ConvertKeeps, TakeOverKeeps, PeerSendsKeeps, FizzReadsKeeps,
             PerformReadKeeps DEF KTLSNext

LEMMA KTLSInvIsEnough ==
  ASSUME KTLSInv
  PROVE  KTLSContinuesStream
<1>1. ReadInv(kt) /\ Received(kt) /\ ~kt.undecryptable /\ Writing(kt)
  BY DEF KTLSInv, ReadInv
<1>12. KTLSWriteTypes(kt) /\ Numbered(kt) /\ \E h \in {0, 1} : InOrder(kt, h)
  BY <1>1 DEF Writing, FailedInv, WritesInv, WriteInv
<1>2. \A n : Delivered(kt, n) => DeliveredUpTo(n)
  <2>1. DOMAIN kt.delivered = 1 .. Len(kt.delivered)
    BY <1>1 DEF Received
  <2>. QED  BY <2>1 DEF Delivered, DeliveredUpTo
<1>3. kt.reading # "open" =>
        /\ DeliveredUpTo(kt.taken - 1)
        /\ \/ kt.sent[kt.taken].type # "data" \/ kt.unparsed # None
           \/ kt.sock = "fizz" /\ kt.rx # None
  BY <1>1, <1>2 DEF ReadInv, Stopped
<1>4. DeliveredUpTo(IF kt.reading = "open" THEN kt.taken ELSE kt.taken - 1)
  BY <1>1, <1>2, <1>3 DEF ReadInv, ReadingOn
<1>5. kt.unparsed # None /\ kt.reading = "open" => kt.sent[kt.taken].type = "handshake"
  BY <1>1 DEF ReadInv, ReadingOn
<1>6. \A i \in 1 .. Len(kt.out) : kt.out[i].crypto = PeerCrypto("out", kt.setup.suite, i - 1)
  BY <1>12 DEF Numbered, OutCrypto
<1>7. Len(kt.writes) \in Nat /\ Len(kt.answers) \in Nat
  <2>1. kt.writes \in Seq(KTLSWrites) /\ kt.answers \in Seq([id : Nat, ok : BOOLEAN])
    BY <1>12 DEF KTLSWriteTypes
  <2>. QED  BY <2>1, LenProperties
<1>8. \A i \in kt.setup.wseq + 1 .. Len(kt.out) :
       /\ kt.out[i].data[1] <= Len(kt.writes)
       /\ kt.out[i].data = IF i = kt.setup.wseq + 1 THEN <<1, 1>>
                           ELSE PieceAfter(kt.writes, kt.out[i - 1].data)
  <2>1. \A i \in kt.setup.wseq + 1 .. Len(kt.out) :
          /\ kt.out[i].data[1] \in 1 .. Len(kt.writes)
          /\ kt.out[i].data = IF i = kt.setup.wseq + 1 THEN <<1, 1>>
                              ELSE PieceAfter(kt.writes, kt.out[i - 1].data)
    BY <1>12 DEF InOrder
  <2>2. \A x \in 1 .. Len(kt.writes) : x <= Len(kt.writes)
    BY <1>7
  <2>. QED  BY <2>1, <2>2
<1>9. \A i \in 1 .. Len(kt.answers) : kt.answers[i].ok =>
        \E j \in 1 .. Len(kt.out) : kt.out[j].data = <<i, kt.writes[i].size>>
  BY <1>12 DEF InOrder
<1>13. /\ \A i \in 1 .. Len(kt.answers) :
            /\ kt.answers[i].id \in 1 .. Len(kt.writes)
            /\ \A j \in 1 .. Len(kt.answers) : i # j => kt.answers[i].id # kt.answers[j].id
            /\ kt.answers[i].ok => kt.answers[i].id = i
       /\ ~kt.alive /\ kt.sockq = <<>> =>
            \A id \in 1 .. Len(kt.writes) : \E i \in 1 .. Len(kt.answers) : kt.answers[i].id = id
  <2>1. CASE WritesInv(kt)
    <3>. DEFINE h == IF kt.queue = <<>> THEN 0 ELSE 1
    <3>1. Counted(kt, h) /\ kt.alive
      BY <2>1 DEF WritesInv, WriteInv
    <3>. HIDE DEF h
    <3>2. \A i \in 1 .. Len(kt.answers) : kt.answers[i].id = i
      BY <3>1 DEF Counted
    <3>3. Len(kt.queue) \in Nat /\ Len(kt.writes) >= Len(kt.answers)
      <4>1. /\ Len(kt.writes) = Len(kt.answers) + Direct(kt, h) + Len(kt.queue) /\ Direct(kt, h) >= 0
            /\ Direct(kt, h) \in Int
        BY <3>1, <1>12 DEF Counted, Direct, h, KTLSWriteTypes
      <4>2. Len(kt.queue) \in Nat
        BY <1>12 DEF KTLSWriteTypes
      <4>. QED  BY <1>7, <4>1, <4>2
    <3>4. \A i \in 1 .. Len(kt.answers) : i \in 1 .. Len(kt.writes)
      BY <1>7, <3>3
    <3>. QED  BY <3>1, <3>2, <3>4
  <2>2. CASE FailedInv(kt)
    <3>. DEFINE W == Waiting(kt.sockq, kt.queue)
    <3>1. /\ Owes(kt.answers, W, Len(kt.writes)) /\ Lined(kt.sockq, kt.queue)
          /\ \A i \in 1 .. Len(kt.answers) : kt.answers[i].ok => kt.answers[i].id = i
      BY <2>2 DEF FailedInv
    <3>2. kt.sockq = <<>> => W = {}
      <4>. SUFFICES ASSUME kt.sockq = <<>> PROVE W = {}
        OBVIOUS
      <4>1. kt.queue = <<>> /\ Before(kt.sockq, kt.queue) = 0
        BY <3>1 DEF Lined, Before
      <4>2. Len(kt.queue) = 0 /\ ~(\E i : i \in 1 .. 0)
        BY <4>1
      <4>. QED  BY <4>1, <4>2 DEF Waiting
    <3>. HIDE DEF W
    <3>. QED  BY <3>1, <3>2 DEF Owes
  <2>. QED  BY <1>1, <2>1, <2>2 DEF Writing
<1>11. kt.cache # None =>
       \E i \in 1 .. kt.taken : \E m \in Range(IF kt.sent[i].type = "handshake" THEN kt.sent[i].body ELSE <<>>) :
         /\ m.type = "NewSessionTicket" /\ kt.cache.psk = m.ticket
         /\ kt.cache.secret = <<"resumption secret", m.nonce>>
  <2>. SUFFICES ASSUME kt.cache # None
                PROVE  \E i \in 1 .. kt.taken :
                         \E m \in Range(IF kt.sent[i].type = "handshake" THEN kt.sent[i].body ELSE <<>>) :
                           /\ m.type = "NewSessionTicket" /\ kt.cache.psk = m.ticket
                           /\ kt.cache.secret = <<"resumption secret", m.nonce>>
    OBVIOUS
  <2>1. PICK m \in Messages(kt) : /\ m.type = "NewSessionTicket" /\ kt.cache.psk = m.ticket
                                  /\ kt.cache.secret = <<"resumption secret", m.nonce>>
    BY <1>1 DEF ReadInv, Cached
  <2>2. PICK i \in 1 .. kt.taken : kt.sent[i].type = "handshake" /\ m \in Range(kt.sent[i].body)
    BY DEF Messages
  <2>3. m \in Range(IF kt.sent[i].type = "handshake" THEN kt.sent[i].body ELSE <<>>)
    BY <2>2
  <2>. QED  BY <2>1, <2>3
<1>. QED  BY <1>1, <1>3, <1>4, <1>5, <1>6, <1>8, <1>9, <1>11, <1>13 DEF KTLSContinuesStream

(* A connection that was handed to the kernel, at whatever numbers and     *)
(* with whatever refusals of the kernel, continues both of its streams:    *)
(* tryConvertKTLSBase installs the number the fizz socket had come to,     *)
(* performReadMsg delivers each record once and in order, and a write that *)
(* is cut in pieces, queued behind others or made from a callback goes out *)
(* in the order of the application.  Its callback is called once, with     *)
(* success in the order of the writes, and after a failure of the socket   *)
(* also when callbacks write to the dead socket (deliverWriteErr).         *)
THEOREM KTLSStreamContinues == KTLSSpec => []KTLSContinuesStream
<1>1. KTLSInit => KTLSInv
  BY KTLSInitInv
<1>2. KTLSInv /\ [KTLSNext]_kt => KTLSInv'
  <2>1. KTLSInv /\ UNCHANGED kt => KTLSInv'
    BY Zenon DEF KTLSInv
  <2>. QED  BY <2>1, KTLSNextKeeps
<1>3. KTLSInv => KTLSContinuesStream
  BY KTLSInvIsEnough
<1>. QED  BY <1>1, <1>2, <1>3, PTL DEF KTLSSpec
=============================================================================
