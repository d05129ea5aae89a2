----------------------------- MODULE MeasureApi -----------------------------
(***************************************************************************)
(* The session state machine of the monitor: POST /api/start, POST         *)
(* /api/stop and the application lifespan, over the SessionManager and the *)
(* asyncio task that runs a measurement (app/state.py, app/api/measure.py, *)
(* app/main.py).                                                           *)
(*                                                                         *)
(* The process is one asyncio event loop.  An action is what the loop runs *)
(* between two suspension points.  SessionManager._lock is never held      *)
(* across a suspension, so it is never contended, and each of              *)
(* begin_connecting, mark_running, mark_error and mark_idle is part of one *)
(* such stretch together with the code around it: start() never suspends.  *)
(* Task.cancel() takes effect at the next step of the cancelled task and   *)
(* nothing of that task runs in between, so it is modelled as immediate.   *)
(*                                                                         *)
(* "raced" is no state of the program: it records that a start overtook a  *)
(* stop.  "overtook" stands for the order of the queue of the event loop.  *)
(***************************************************************************)
EXTENDS Naturals, Sequences

CONSTANTS Clients,   \* browsers; each has at most one POST in flight
          Tasks,     \* identities of the tasks start() creates
          NoTask     \* Python's None

ASSUME NoTaskAssumption == NoTask \notin Tasks

VARIABLES status,            \* SessionManager._status
          measurement_task,  \* app.state.measurement_task
          phase,             \* where each measurement task is
          waiting,           \* the task each client's stop() awaits
          server,            \* the process, from boot to exit
          overtook,          \* who has run since a stop() became due
          raced,             \* a start was accepted while a stop() waited
          emit               \* the events the last step published, in order

vars == <<status, measurement_task, phase, waiting, server, overtook,
          raced, emit>>

-----------------------------------------------------------------------------
(* "run" stands for tool and started_at, which begin_connecting sets   *)
(* together: the task of the request they were taken from.                 *)
Status == [state : {"idle", "connecting", "running", "error"},
           run : Tasks \union {NoTask}]

IdleStatus == [state |-> "idle", run |-> NoTask]

(* scheduled: created, its body not entered.  streaming: inside            *)
(* run_session.  cancelling: a cancel was delivered inside run_session,    *)
(* whose finally blocks run.  revoked: cancelled while scheduled.  done:   *)
(* not running; an identity is used again once nothing refers to it.       *)
Phases == {"done", "scheduled", "streaming", "cancelling", "revoked"}

StatusEvent(s) == [name |-> "status", status |-> s]
OtherEvent(n) == [name |-> n]

Live(t) == phase[t] # "done"

Busy == status.state \in {"connecting", "running"}

Referenced(t) == t = measurement_task \/ \E c \in Clients : waiting[c] = t

(* The event loop is first come, first served: when a task ends, the       *)
(* stop() that awaits it resumes in the next round.  Only what was queued  *)
(* before runs ahead of it: at most one handler of each other client, and  *)
(* no task that such a handler creates.                                    *)
Due == \E c \in Clients : waiting[c] \in Tasks /\ ~Live(waiting[c])

InTurn(x) == Due => x \notin overtook

Runs(S) == overtook' = IF Due' THEN overtook \union S ELSE {}

-----------------------------------------------------------------------------
Init ==
    /\ status = IdleStatus
    /\ measurement_task = NoTask
    /\ phase = [t \in Tasks |-> "done"]
    /\ waiting = [c \in Clients |-> NoTask]
    /\ server = "up"
    /\ overtook = {}
    /\ raced = FALSE
    /\ emit = <<>>

(* The transitions of SessionManager, each with the events it publishes.   *)
(* Each faulty variant below is what a plausible bug would make of the     *)
(* definition that follows it; no run and no proof uses one.               *)
BeginConnecting(t) ==
    /\ ~Busy
    /\ status' = [state |-> "connecting", run |-> t]
    /\ emit' = <<StatusEvent(status')>>

FaultyRunningMisnamed ==
    /\ status' = [status EXCEPT !.state = "streaming"]
    /\ emit' = <<StatusEvent(status')>>

FaultyRunningFresh ==
    /\ status' = [state |-> "running", run |-> NoTask]
    /\ emit' = <<StatusEvent(status')>>

MarkRunning ==
    /\ status' = [status EXCEPT !.state = "running"]
    /\ emit' = <<StatusEvent(status')>>

FaultyErrorWithoutStatus ==
    /\ status' = [status EXCEPT !.state = "error"]
    /\ emit' = <<OtherEvent("error")>>

MarkError ==
    /\ status' = [status EXCEPT !.state = "error"]
    /\ emit' = <<StatusEvent(status'), OtherEvent("error")>>

MarkIdle ==
    /\ status' = IdleStatus
    /\ emit' = <<StatusEvent(status')>>

-----------------------------------------------------------------------------
(* POST /api/start.  A busy manager answers 409 and changes nothing.       *)
Start(c, t) ==
    /\ server = "up"
    /\ waiting[c] = NoTask
    /\ InTurn(c)
    /\ ~Live(t) /\ ~Referenced(t)
    /\ BeginConnecting(t)
    /\ measurement_task' = t
    /\ phase' = [phase EXCEPT ![t] = "scheduled"]
    /\ raced' = (raced \/ \E d \in Clients : waiting[d] # NoTask)
    /\ UNCHANGED <<waiting, server>>
    /\ Runs({c, t})

(* POST /api/stop with no live task to cancel.                             *)
StopIdle(c) ==
    /\ server = "up"
    /\ waiting[c] = NoTask
    /\ InTurn(c)
    /\ measurement_task \in Tasks => ~Live(measurement_task)
    /\ measurement_task' = NoTask
    /\ MarkIdle
    /\ UNCHANGED <<phase, waiting, server, raced>>
    /\ Runs({c})

FaultyCancelSwallowed(t) ==
    IF phase[t] \in {"scheduled", "revoked"} THEN "revoked" ELSE phase[t]

(* The phase a cancel puts a live task in.                                 *)
Cancelled(t) ==
    IF phase[t] \in {"scheduled", "revoked"} THEN "revoked" ELSE "cancelling"

FaultyStopWithoutAwait(c) ==
    /\ server = "up"
    /\ waiting[c] = NoTask
    /\ measurement_task \in Tasks
    /\ Live(measurement_task)
    /\ phase' = [phase EXCEPT ![measurement_task] = Cancelled(measurement_task)]
    /\ measurement_task' = NoTask
    /\ MarkIdle
    /\ UNCHANGED <<waiting, server, overtook, raced>>

(* POST /api/stop up to its await.  The 8 s timeout of wait_for cancels    *)
(* the task once more and keeps waiting: it changes nothing here.          *)
StopCancel(c) ==
    /\ server = "up"
    /\ waiting[c] = NoTask
    /\ InTurn(c)
    /\ measurement_task \in Tasks
    /\ Live(measurement_task)
    /\ phase' = [phase EXCEPT ![measurement_task] = Cancelled(measurement_task)]
    /\ waiting' = [waiting EXCEPT ![c] = measurement_task]
    /\ emit' = <<>>
    /\ UNCHANGED <<status, measurement_task, server, raced>>
    /\ Runs({c})

FaultyStopTrustsTask(c) ==
    /\ waiting[c] \in Tasks
    /\ ~Live(waiting[c])
    /\ waiting' = [waiting EXCEPT ![c] = NoTask]
    /\ measurement_task' = NoTask
    /\ emit' = <<>>
    /\ UNCHANGED <<status, phase, server, overtook, raced>>

(* stop() resumes some time after the task it awaits is done.              *)
StopFinish(c) ==
    /\ waiting[c] \in Tasks
    /\ ~Live(waiting[c])
    /\ waiting' = [waiting EXCEPT ![c] = NoTask]
    /\ measurement_task' = NoTask
    /\ MarkIdle
    /\ UNCHANGED <<phase, server, raced>>
    /\ Runs({})

-----------------------------------------------------------------------------
(* _measurement_task.  Each ending is the last stretch of the task: what   *)
(* it makes of the status and the end of the task are one step.            *)
TaskFirstStep(t) ==
    /\ phase[t] = "scheduled"
    /\ InTurn(t)
    /\ phase' = [phase EXCEPT ![t] = "streaming"]
    /\ MarkRunning
    /\ UNCHANGED <<measurement_task, waiting, server, raced>>
    /\ Runs({})

TaskPublish(t) ==
    /\ phase[t] = "streaming"
    /\ emit' = <<[name |-> "measurement", run |-> t]>>
    /\ UNCHANGED <<status, measurement_task, phase, waiting, server, raced>>
    /\ Runs({})

TaskEnds(t) ==
    /\ phase' = [phase EXCEPT ![t] = "done"]
    /\ UNCHANGED <<measurement_task, waiting, server, raced>>
    /\ Runs({})

(* run_session is exhausted, or ends in a CancelledError of its own making *)
TaskFinish(t) ==
    /\ phase[t] = "streaming"
    /\ MarkIdle
    /\ TaskEnds(t)

(* run_session raises; its finally blocks may also do so during a cancel.  *)
TaskFail(t) ==
    /\ phase[t] \in {"streaming", "cancelling"}
    /\ MarkError
    /\ TaskEnds(t)

TaskCancelled(t) ==
    /\ phase[t] = "cancelling"
    /\ MarkIdle
    /\ TaskEnds(t)

(* The coroutine never started: no except clause of it runs.               *)
TaskRevoked(t) ==
    /\ phase[t] = "revoked"
    /\ emit' = <<>>
    /\ UNCHANGED status
    /\ TaskEnds(t)

-----------------------------------------------------------------------------
(* The process.  On SIGTERM uvicorn takes no new request and waits for the *)
(* open ones; then the lifespan cancels the task it knows and awaits it;   *)
(* then the event loop is closed, with whatever it still runs.             *)
Terminate ==
    /\ server = "up"
    /\ server' = "draining"
    /\ emit' = <<>>
    /\ UNCHANGED <<status, measurement_task, phase, waiting, raced>>
    /\ Runs({})

LifespanFinally ==
    /\ server = "draining"
    /\ \A c \in Clients : waiting[c] = NoTask
    /\ server' = "stopping"
    /\ phase' = IF measurement_task \in Tasks /\ Live(measurement_task)
                THEN [phase EXCEPT ![measurement_task] =
                        Cancelled(measurement_task)]
                ELSE phase
    /\ emit' = <<>>
    /\ UNCHANGED <<status, measurement_task, waiting, raced>>
    /\ Runs({})

(* The memory of the process is lost: none of this state is kept anywhere. *)
Forget ==
    /\ status' = IdleStatus
    /\ measurement_task' = NoTask
    /\ phase' = [t \in Tasks |-> "done"]
    /\ waiting' = [c \in Clients |-> NoTask]
    /\ overtook' = {}
    /\ raced' = FALSE
    /\ emit' = <<>>

Exit ==
    /\ server = "stopping"
    /\ measurement_task \in Tasks => ~Live(measurement_task)
    /\ server' = "down"
    /\ Forget

(* SIGKILL at the end of the container's grace period, or a crash.         *)
Kill ==
    /\ server # "down"
    /\ server' = "down"
    /\ Forget

Boot ==
    /\ server = "down"
    /\ server' = "up"
    /\ Forget

-----------------------------------------------------------------------------
ClientStep(c) ==
    \/ \E t \in Tasks : Start(c, t)
    \/ StopIdle(c)
    \/ StopCancel(c)
    \/ StopFinish(c)

TaskStep(t) ==
    \/ TaskFirstStep(t)
    \/ TaskPublish(t)
    \/ TaskFinish(t)
    \/ TaskFail(t)
    \/ TaskCancelled(t)
    \/ TaskRevoked(t)

ProcessStep == Terminate \/ LifespanFinally \/ Exit \/ Kill \/ Boot

Next ==
    \/ \E c \in Clients : ClientStep(c)
    \/ \E t \in Tasks : TaskStep(t)
    \/ ProcessStep

Spec == Init /\ [][Next]_vars

(* The event loop resumes every task and handler that is ready, and the    *)
(* finally blocks a cancel runs come to an end.  Nothing makes a session   *)
(* that streams end by itself: no timeout bounds the load generator.       *)
Fairness ==
    /\ \A t \in Tasks :
         /\ WF_vars(TaskFirstStep(t))
         /\ WF_vars(TaskRevoked(t))
         /\ WF_vars(TaskCancelled(t))
    /\ \A c \in Clients : WF_vars(StopFinish(c))
    /\ WF_vars(Exit)

FairSpec == Spec /\ Fairness

-----------------------------------------------------------------------------
TypeOK ==
    /\ status \in Status
    /\ measurement_task \in Tasks \union {NoTask}
    /\ phase \in [Tasks -> Phases]
    /\ waiting \in [Clients -> Tasks \union {NoTask}]
    /\ server \in {"up", "draining", "stopping", "down"}
    /\ overtook \subseteq Clients \union Tasks
    /\ raced \in BOOLEAN

(* A busy status always has somebody who will end it: a live task, or a    *)
(* stop() that is about to mark the manager idle, or a process going down. *)
(* Were it to fail, every later start would be answered 409 with nothing   *)
(* running (measure.py:31-40).  It holds for any number of clients.        *)
BusyHasOwner ==
    Busy => \/ \E t \in Tasks : Live(t)
            \/ \E c \in Clients : waiting[c] # NoTask
            \/ server = "stopping"

(* At most one measurement task is alive: two would drive the load         *)
(* generators of both hosts at once (state.py:4, "a single session").      *)
SingleSession == \A t, u \in Tasks : Live(t) /\ Live(u) => t = u

(* Unless a start is accepted while a stop() still waits, at most one task *)
(* is alive, and an idle or error status is never shown over a task that   *)
(* still measures or cleans up, however many clients press what else.      *)
SessionIsExclusive ==
    ~raced => /\ SingleSession
              /\ ~Busy => \A t \in Tasks : ~Live(t)

(* And the status tells the truth about a live task: it names the request  *)
(* the task serves, with the state the task has reached, and the reference *)
(* a stop or a shutdown would cancel is that task (measure.py:42-62,       *)
(* 69-71).                                                                 *)
StatusNamesSession ==
    ~raced =>
        \A t \in Tasks : Live(t) =>
            /\ measurement_task = t
            /\ status.run = t
            /\ status.state = IF phase[t] \in {"scheduled", "revoked"}
                              THEN "connecting" ELSE "running"

(* So a page sees nothing but what ServerView allows: every change of the  *)
(* status is published, last what a GET would return, and a measurement    *)
(* only between the "running" status of its own run and the status that    *)
(* ends it (state.py:70-108, measure.py:44-57).  Only a start that         *)
(* overtakes a stop breaks that, until the process is restarted.           *)
View == INSTANCE ServerView WITH
    shown <- status, RunIds <- Tasks, NoRun <- NoTask

ImplementsView ==
    /\ View!ViewInit
    /\ [][~raced' => IF server' = "down" THEN View!GoesDown(emit')
                                         ELSE View!ViewNext(emit')]_vars

(* "connecting" is never for good, not even when a stop cancels the task   *)
(* before its first step, which then has no code to reset the status.      *)
ConnectingEnds == (status.state = "connecting") ~> (status.state # "connecting")

(* Every POST /api/stop is answered.                                       *)
StopReturns == \A c \in Clients : (waiting[c] # NoTask) ~> (waiting[c] = NoTask)
=============================================================================
