-------------------------- MODULE MeasureApiProofs --------------------------
(* What holds of MeasureApi for every set of clients and of tasks, and     *)
(* what holds as long as no start overtakes a stop.                        *)
EXTENDS MeasureApi, TLAPS

-----------------------------------------------------------------------------
(* Every variable keeps its type through every step of the code.           *)
LEMMA TypeInductive == TypeOK /\ [Next]_vars => TypeOK'
<1> SUFFICES ASSUME TypeOK, [Next]_vars PROVE TypeOK'
  OBVIOUS
<1> USE NoTaskAssumption DEF TypeOK, Status, Phases, IdleStatus
<1>1. ASSUME NEW c \in Clients, NEW t \in Tasks, Start(c, t) PROVE TypeOK'
  BY <1>1 DEF Start, BeginConnecting, Runs
<1>2. ASSUME NEW c \in Clients, StopIdle(c) PROVE TypeOK'
  BY <1>2 DEF StopIdle, MarkIdle, Runs
<1>3. ASSUME NEW c \in Clients, StopCancel(c) PROVE TypeOK'
  BY <1>3 DEF StopCancel, Cancelled, Runs
<1>4. ASSUME NEW c \in Clients, StopFinish(c) PROVE TypeOK'
  BY <1>4 DEF StopFinish, MarkIdle, Runs
<1>5. ASSUME NEW t \in Tasks, TaskFirstStep(t) PROVE TypeOK'
  BY <1>5 DEF TaskFirstStep, MarkRunning, Runs
<1>6. ASSUME NEW t \in Tasks, TaskPublish(t) PROVE TypeOK'
  BY <1>6 DEF TaskPublish, Runs
<1>7. ASSUME NEW t \in Tasks, TaskFinish(t) \/ TaskCancelled(t) PROVE TypeOK'
  BY <1>7 DEF TaskFinish, TaskCancelled, TaskEnds, MarkIdle, Runs
<1>8. ASSUME NEW t \in Tasks, TaskFail(t) PROVE TypeOK'
  BY <1>8 DEF TaskFail, TaskEnds, MarkError, Runs
<1>9. ASSUME NEW t \in Tasks, TaskRevoked(t) PROVE TypeOK'
  BY <1>9 DEF TaskRevoked, TaskEnds, Runs
<1>10. CASE Terminate
  BY <1>10 DEF Terminate, Runs
<1>11. CASE LifespanFinally
  BY <1>11 DEF LifespanFinally, Cancelled, Runs
<1>12. CASE Exit \/ Kill \/ Boot
  <2>1. raced' \in BOOLEAN
    BY <1>12, Zenon DEF Exit, Kill, Boot, Forget
  <2> QED
    BY <1>12, <2>1 DEF Exit, Kill, Boot, Forget
<1>13. CASE UNCHANGED vars
  BY <1>13 DEF vars
<1> QED
  BY <1>1, <1>2, <1>3, <1>4, <1>5, <1>6, <1>7, <1>8, <1>9, <1>10, <1>11,
     <1>12, <1>13
  DEF Next, ClientStep, TaskStep, ProcessStep

(* The initial state is of the right type.                                 *)
LEMMA InitTypeOK == Init => TypeOK
<1> SUFFICES ASSUME Init PROVE TypeOK
  OBVIOUS
<1>1. raced \in BOOLEAN
  BY Zenon DEF Init
<1> QED
  BY <1>1 DEF Init, TypeOK, Status, Phases, IdleStatus

(* The type invariant holds for every set of clients and of tasks.         *)
THEOREM TypeCorrect == Spec => []TypeOK
<1>1. Init => TypeOK
  BY InitTypeOK
<1> QED
  BY <1>1, TypeInductive, PTL DEF Spec

-----------------------------------------------------------------------------
(* A task that a cancel reached before its first step cannot reset the     *)
(* status, so somebody else must still be there to do it.                  *)
RevokedIsAwaited ==
    \A t \in Tasks : phase[t] = "revoked" =>
        (\E c \in Clients : waiting[c] = t) \/ server = "stopping"

(* Inductive: a step that ends a live task leaves the status idle or in    *)
(* error, except the end of a revoked task.                                *)
OwnerInv == TypeOK /\ RevokedIsAwaited /\ BusyHasOwner

(* Every step keeps the owner of a busy status.                            *)
LEMMA OwnerInductive == OwnerInv /\ [Next]_vars => OwnerInv'
<1> SUFFICES ASSUME OwnerInv, [Next]_vars PROVE OwnerInv'
  OBVIOUS
<1>0. TypeOK /\ TypeOK'
  BY TypeInductive DEF OwnerInv
<1>i. RevokedIsAwaited /\ BusyHasOwner
  BY DEF OwnerInv
<1> SUFFICES RevokedIsAwaited' /\ BusyHasOwner'
  BY <1>0 DEF OwnerInv
<1> USE <1>0, <1>i, NoTaskAssumption
    DEF TypeOK, Status, Phases, IdleStatus, RevokedIsAwaited, BusyHasOwner,
        Busy, Live
<1>1. ASSUME NEW c \in Clients, NEW t \in Tasks, Start(c, t)
      PROVE RevokedIsAwaited' /\ BusyHasOwner'
  BY <1>1 DEF Start, BeginConnecting
<1>2. ASSUME NEW c \in Clients, StopIdle(c)
      PROVE RevokedIsAwaited' /\ BusyHasOwner'
  BY <1>2 DEF StopIdle, MarkIdle
<1>3. ASSUME NEW c \in Clients, StopCancel(c)
      PROVE RevokedIsAwaited' /\ BusyHasOwner'
  <2>1. waiting'[c] # NoTask
    BY <1>3 DEF StopCancel
  <2>2. ASSUME NEW t \in Tasks, phase'[t] = "revoked"
        PROVE (\E d \in Clients : waiting'[d] = t) \/ server' = "stopping"
    <3>1. CASE t = measurement_task
      BY <1>3, <3>1 DEF StopCancel
    <3>2. CASE t # measurement_task
      BY <1>3, <2>2, <3>2 DEF StopCancel
    <3> QED
      BY <3>1, <3>2
  <2> QED
    BY <2>1, <2>2
<1>4. ASSUME NEW c \in Clients, StopFinish(c)
      PROVE RevokedIsAwaited' /\ BusyHasOwner'
  BY <1>4 DEF StopFinish, MarkIdle
<1>5. ASSUME NEW t \in Tasks, TaskFirstStep(t)
      PROVE RevokedIsAwaited' /\ BusyHasOwner'
  BY <1>5 DEF TaskFirstStep, MarkRunning
<1>6. ASSUME NEW t \in Tasks, TaskPublish(t)
      PROVE RevokedIsAwaited' /\ BusyHasOwner'
  BY <1>6 DEF TaskPublish
<1>7. ASSUME NEW t \in Tasks, TaskFinish(t) \/ TaskCancelled(t)
      PROVE RevokedIsAwaited' /\ BusyHasOwner'
  BY <1>7 DEF TaskFinish, TaskCancelled, TaskEnds, MarkIdle
<1>8. ASSUME NEW t \in Tasks, TaskFail(t)
      PROVE RevokedIsAwaited' /\ BusyHasOwner'
  BY <1>8 DEF TaskFail, TaskEnds, MarkError
<1>9. ASSUME NEW t \in Tasks, TaskRevoked(t)
      PROVE RevokedIsAwaited' /\ BusyHasOwner'
  BY <1>9 DEF TaskRevoked, TaskEnds
<1>10. CASE Terminate
  BY <1>10 DEF Terminate
<1>11. CASE LifespanFinally
  BY <1>11 DEF LifespanFinally
<1>12. CASE Exit \/ Kill \/ Boot
  BY <1>12 DEF Exit, Kill, Boot, Forget
<1>13. CASE UNCHANGED vars
  BY <1>13 DEF vars
<1> QED
  BY <1>1, <1>2, <1>3, <1>4, <1>5, <1>6, <1>7, <1>8, <1>9, <1>10, <1>11,
     <1>12, <1>13
  DEF Next, ClientStep, TaskStep, ProcessStep

(* The manager is never stuck busy, however many clients press however     *)
(* many buttons: a busy status always has somebody who will end it.        *)
THEOREM BusyAlwaysHasOwner == Spec => []BusyHasOwner
<1>1. Init => OwnerInv
  BY InitTypeOK DEF Init, OwnerInv, IdleStatus, RevokedIsAwaited,
                    BusyHasOwner, Busy
<1>2. OwnerInv => BusyHasOwner
  BY DEF OwnerInv
<1> QED
  BY <1>1, <1>2, OwnerInductive, PTL DEF Spec

-----------------------------------------------------------------------------
(* While a stop() waits, the reference is still to the task it awaits,     *)
(* unless another stop of the same task has dropped it.                    *)
AwaitsTracked ==
    ~raced => \A c \in Clients : waiting[c] # NoTask =>
                 measurement_task \in {waiting[c], NoTask}

(* StatusNamesSession alone is not inductive: StopFinish drops the         *)
(* reference, and is safe only because it drops the one to the dead task.  *)
SessionInv == TypeOK /\ AwaitsTracked /\ StatusNamesSession

(* Every step keeps it: a start that overtakes a stop sets "raced".        *)
LEMMA SessionInductive == SessionInv /\ [Next]_vars => SessionInv'
<1> SUFFICES ASSUME SessionInv, [Next]_vars PROVE SessionInv'
  OBVIOUS
<1>0. TypeOK /\ TypeOK'
  BY TypeInductive DEF SessionInv
<1>i. AwaitsTracked /\ StatusNamesSession
  BY DEF SessionInv
<1> SUFFICES AwaitsTracked' /\ StatusNamesSession'
  BY <1>0 DEF SessionInv
<1> USE <1>0, <1>i, NoTaskAssumption
    DEF TypeOK, Status, Phases, IdleStatus, AwaitsTracked,
        StatusNamesSession, Live
<1>1. ASSUME NEW c \in Clients, NEW t \in Tasks, Start(c, t)
      PROVE AwaitsTracked' /\ StatusNamesSession'
  <2>1. ~raced' => ~raced /\ \A d \in Clients : waiting'[d] = NoTask
    BY <1>1 DEF Start
  <2>2. ~raced => \A u \in Tasks : ~Live(u)
    BY <1>1 DEF Start, BeginConnecting, Busy
  <2> QED
    BY <1>1, <2>1, <2>2 DEF Start, BeginConnecting
<1>2. ASSUME NEW c \in Clients, StopIdle(c)
      PROVE AwaitsTracked' /\ StatusNamesSession'
  <2>1. ~raced => \A u \in Tasks : ~Live(u)
    BY <1>2 DEF StopIdle
  <2> QED
    BY <1>2, <2>1 DEF StopIdle, MarkIdle
<1>3. ASSUME NEW c \in Clients, StopCancel(c)
      PROVE AwaitsTracked' /\ StatusNamesSession'
  BY <1>3 DEF StopCancel, Cancelled
<1>4. ASSUME NEW c \in Clients, StopFinish(c)
      PROVE AwaitsTracked' /\ StatusNamesSession'
  <2>1. ~raced => measurement_task \in {waiting[c], NoTask}
    BY <1>4 DEF StopFinish
  <2>2. ~raced => \A u \in Tasks : ~Live(u)
    BY <1>4, <2>1 DEF StopFinish
  <2> QED
    BY <1>4, <2>2 DEF StopFinish, MarkIdle
<1>5. ASSUME NEW t \in Tasks, TaskFirstStep(t)
      PROVE AwaitsTracked' /\ StatusNamesSession'
  BY <1>5 DEF TaskFirstStep, MarkRunning
<1>6. ASSUME NEW t \in Tasks, TaskPublish(t)
      PROVE AwaitsTracked' /\ StatusNamesSession'
  BY <1>6 DEF TaskPublish
<1>7. ASSUME NEW t \in Tasks,
             TaskFinish(t) \/ TaskCancelled(t) \/ TaskFail(t) \/ TaskRevoked(t)
      PROVE AwaitsTracked' /\ StatusNamesSession'
  <2>1. ~raced => \A u \in Tasks : Live(u) => u = t
    BY <1>7 DEF TaskFinish, TaskCancelled, TaskFail, TaskRevoked
  <2>2. TaskEnds(t)
    BY <1>7 DEF TaskFinish, TaskCancelled, TaskFail, TaskRevoked
  <2> QED
    BY <2>1, <2>2 DEF TaskEnds
<1>8. CASE Terminate
  BY <1>8 DEF Terminate
<1>9. CASE LifespanFinally
  BY <1>9 DEF LifespanFinally, Cancelled
<1>10. CASE Exit \/ Kill \/ Boot
  BY <1>10 DEF Exit, Kill, Boot, Forget
<1>11. CASE UNCHANGED vars
  BY <1>11 DEF vars
<1> QED
  BY <1>1, <1>2, <1>3, <1>4, <1>5, <1>6, <1>7, <1>8, <1>9, <1>10, <1>11
  DEF Next, ClientStep, TaskStep, ProcessStep

(* As long as no start overtakes a stop, the status tells the truth about  *)
(* every live task, however many clients there are.                        *)
THEOREM StatusIsTruthful == Spec => []StatusNamesSession
<1>1. Init => SessionInv
  BY InitTypeOK
  DEF Init, SessionInv, IdleStatus, AwaitsTracked, StatusNamesSession, Live
<1>2. SessionInv /\ [Next]_vars => SessionInv'
  BY SessionInductive
<1>3. SessionInv => StatusNamesSession
  BY DEF SessionInv
<1> QED
  BY <1>1, <1>2, <1>3, PTL DEF Spec

(* So at most one measurement task is then alive, and none is under an     *)
(* idle or error status.                                                   *)
THEOREM OneSessionAtATime == Spec => []SessionIsExclusive
<1>1. StatusNamesSession => SessionIsExclusive
  BY DEF StatusNamesSession, SessionIsExclusive, SingleSession, Busy
<1> QED
  BY <1>1, StatusIsTruthful, PTL

(* With one client no start overtakes a stop, for its start waits for the  *)
(* answer to its stop.                                                     *)
LEMMA OneClientNeverRaces ==
  ASSUME \A c, d \in Clients : c = d
  PROVE  ~raced /\ [Next]_vars => ~raced'
<1> SUFFICES ASSUME ~raced, [Next]_vars PROVE ~raced'
  OBVIOUS
<1>1. ASSUME NEW c \in Clients, NEW t \in Tasks, Start(c, t) PROVE ~raced'
  <2>1. \A d \in Clients : waiting[d] = NoTask
    BY <1>1 DEF Start
  <2> QED
    BY <1>1, <2>1 DEF Start
<1>2. ASSUME NEW c \in Clients, StopIdle(c) \/ StopCancel(c) \/ StopFinish(c)
      PROVE  ~raced'
  BY <1>2 DEF StopIdle, StopCancel, StopFinish
<1>3. ASSUME NEW t \in Tasks, TaskStep(t) PROVE ~raced'
  BY <1>3 DEF TaskStep, TaskFirstStep, TaskPublish, TaskFinish, TaskFail,
              TaskCancelled, TaskRevoked, TaskEnds
<1>4. CASE ProcessStep
  BY <1>4 DEF ProcessStep, Terminate, LifespanFinally, Exit, Kill, Boot, Forget
<1>5. CASE UNCHANGED vars
  BY <1>5 DEF vars
<1> QED
  BY <1>1, <1>2, <1>3, <1>4, <1>5 DEF Next, ClientStep

(* So with one client the promise of state.py:4 holds without condition:   *)
(* what breaks it needs a second one.                                      *)
THEOREM OneClientOneSession ==
  ASSUME \A c, d \in Clients : c = d
  PROVE  Spec => []SingleSession
<1>1. Init => ~raced
  BY DEF Init
<1>2. Spec => []~raced
  BY <1>1, OneClientNeverRaces, PTL DEF Spec
<1>3. SessionIsExclusive /\ ~raced => SingleSession
  BY DEF SessionIsExclusive
<1> QED
  BY <1>2, <1>3, OneSessionAtATime, PTL

-----------------------------------------------------------------------------
(* A process that is down has nothing left that could take a step.         *)
DownIsDead ==
    server = "down" => /\ status = IdleStatus
                       /\ \A t \in Tasks : ~Live(t)
                       /\ \A c \in Clients : waiting[c] = NoTask

(* Every step keeps it: only Boot is possible from there.                  *)
LEMMA DownInductive == TypeOK /\ DownIsDead /\ [Next]_vars => DownIsDead'
<1> SUFFICES ASSUME TypeOK, DownIsDead, [Next]_vars PROVE DownIsDead'
  OBVIOUS
<1> USE NoTaskAssumption DEF DownIsDead, Live
<1>1. ASSUME NEW c \in Clients, ClientStep(c) PROVE DownIsDead'
  <2>1. server # "down" /\ server' = server
    BY <1>1 DEF ClientStep, Start, StopIdle, StopCancel, StopFinish
  <2> QED
    BY <2>1
<1>2. ASSUME NEW t \in Tasks, TaskStep(t) PROVE DownIsDead'
  <2>1. server # "down" /\ server' = server
    BY <1>2 DEF TaskStep, TaskFirstStep, TaskPublish, TaskFinish, TaskFail,
                TaskCancelled, TaskRevoked, TaskEnds
  <2> QED
    BY <2>1
<1>3. CASE ProcessStep
  BY <1>3 DEF ProcessStep, Terminate, LifespanFinally, Exit, Kill, Boot, Forget
<1>4. CASE UNCHANGED vars
  BY <1>4 DEF vars
<1> QED
  BY <1>1, <1>2, <1>3, <1>4 DEF Next

(* One step: as long as no start has overtaken a stop, it is one of the    *)
(* steps a page may see, with the events a page may get.                   *)
ViewStep ==
    ~raced' => IF server' = "down" THEN View!GoesDown(emit')
                                   ELSE View!ViewNext(emit')

(* The steps of the tasks are those that rest on StatusNamesSession.       *)
LEMMA StepsAreSeen ==
    TypeOK /\ StatusNamesSession /\ DownIsDead /\ [Next]_vars => [ViewStep]_vars
<1> SUFFICES ASSUME TypeOK, StatusNamesSession, DownIsDead, Next, ~raced'
             PROVE IF server' = "down" THEN View!GoesDown(emit')
                                       ELSE View!ViewNext(emit')
  BY DEF ViewStep
<1> USE NoTaskAssumption DEF Live
<1> DEFINE Quiet == UNCHANGED status /\ emit' = <<>>
           Rest == status' = IdleStatus /\ emit' = <<StatusEvent(status')>>
<1>q. Quiet => View!ViewNext(emit')
  BY DEF View!ViewNext
<1>r. Rest => View!ViewNext(emit')
  BY DEF View!ViewNext, View!Changes, View!Rests, View!Idle, View!News,
         View!StatusEvent, IdleStatus, StatusEvent
<1>1. ASSUME NEW c \in Clients, NEW t \in Tasks, Start(c, t)
      PROVE server' # "down" /\ View!ViewNext(emit')
  <2>1. View!Begins(t) /\ emit' = View!News(status')
    BY <1>1 DEF Start, BeginConnecting, Busy, StatusEvent, View!Begins,
                View!Busy, View!News, View!StatusEvent
  <2> QED
    BY <1>1, <2>1 DEF Start, View!ViewNext, View!Changes
<1>2. ASSUME NEW c \in Clients, StopIdle(c) \/ StopCancel(c) \/ StopFinish(c)
      PROVE server' # "down" /\ View!ViewNext(emit')
  <2>1. server' # "down"
    BY <1>2 DEF StopIdle, StopCancel, StopFinish, DownIsDead
  <2>2. Quiet \/ Rest
    BY <1>2 DEF StopIdle, StopCancel, StopFinish, MarkIdle
  <2> QED
    BY <2>1, <2>2, <1>q, <1>r
<1>3. ASSUME NEW t \in Tasks, TaskStep(t)
      PROVE server' # "down" /\ View!ViewNext(emit')
  <2>1. server' # "down" /\ ~raced /\ Live(t)
    BY <1>3 DEF DownIsDead, TaskStep, TaskFirstStep, TaskPublish, TaskFinish,
                TaskFail, TaskCancelled, TaskRevoked, TaskEnds
  <2>2. /\ status \in Status
        /\ status.run = t
        /\ status.state = IF phase[t] \in {"scheduled", "revoked"}
                          THEN "connecting" ELSE "running"
    BY <2>1 DEF StatusNamesSession, TypeOK
  <2>3. CASE TaskFirstStep(t)
    <3>1. View!GetsGoing /\ emit' = View!News(status')
      BY <2>2, <2>3 DEF TaskFirstStep, MarkRunning, StatusEvent, Status,
                        View!GetsGoing, View!News, View!StatusEvent
    <3> QED
      BY <2>1, <3>1 DEF View!ViewNext, View!Changes
  <2>4. CASE TaskPublish(t)
    <3>1. View!Measures /\ emit' = View!Measurement(status)
      BY <2>2, <2>4 DEF TaskPublish, View!Measures, View!Measurement
    <3> QED
      BY <2>1, <3>1 DEF View!ViewNext
  <2>5. CASE TaskFail(t)
    <3>1. View!Fails /\ emit' = View!News(status')
      BY <2>2, <2>5 DEF TaskFail, MarkError, StatusEvent, OtherEvent, Status,
                        View!Fails, View!News, View!StatusEvent
    <3> QED
      BY <2>1, <3>1 DEF View!ViewNext, View!Changes
  <2>6. CASE TaskFinish(t) \/ TaskCancelled(t) \/ TaskRevoked(t)
    <3>1. Quiet \/ Rest
      BY <2>6 DEF TaskFinish, TaskCancelled, TaskRevoked, MarkIdle
    <3> QED
      BY <2>1, <3>1, <1>q, <1>r
  <2> QED
    BY <1>3, <2>3, <2>4, <2>5, <2>6 DEF TaskStep
<1>4. CASE Terminate \/ LifespanFinally \/ Boot
  <2>1. server' # "down" /\ Quiet
    BY <1>4 DEF Terminate, LifespanFinally, Boot, Forget, DownIsDead
  <2> QED
    BY <2>1, <1>q
<1>5. CASE Exit \/ Kill
  BY <1>5 DEF Exit, Kill, Forget, IdleStatus, View!GoesDown, View!Idle
<1> QED
  BY <1>1, <1>2, <1>3, <1>4, <1>5 DEF Next, ClientStep, ProcessStep

(* The API implements the server that the pages rely on, for every set of  *)
(* clients and of tasks, as long as no start overtakes a stop.             *)
THEOREM ApiImplementsView == Spec => ImplementsView
<1>1. Init => DownIsDead /\ View!ViewInit
  BY DEF Init, DownIsDead, View!ViewInit, View!Idle, IdleStatus
<1>2. Spec => []DownIsDead
  BY <1>1, DownInductive, TypeCorrect, PTL DEF Spec
<1>3. Spec => [][ViewStep]_vars
  BY <1>2, StepsAreSeen, TypeCorrect, StatusIsTruthful, PTL DEF Spec
<1> QED
  BY <1>1, <1>3, PTL DEF Spec, ImplementsView, ViewStep
=============================================================================
