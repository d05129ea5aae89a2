------------------------------ MODULE Monitor ------------------------------
(***************************************************************************)
(* A bandwidth session and those who end it: BwSession, run by the         *)
(* measurement task of app/api/measure.py, cancelled by POST /api/stop, by *)
(* the 8 s timeout of one, and by the shutdown (app/main.py).  What        *)
(* MeasureApi assumes of a cancelled task, that it comes to an end, is     *)
(* here a consequence of the session.                                      *)
(*                                                                         *)
(* One measurement from the start to the exit of the process: what one     *)
(* session leaves to the next is the state of the API, and that, with the  *)
(* start that overtakes a stop, is the matter of MeasureApi.  Crashes are  *)
(* there too.                                                              *)
(***************************************************************************)
EXTENDS BwSession

CONSTANT Clients

VARIABLES server,    \* the process, from boot to exit
          status,    \* SessionManager._status
          task,      \* the measurement task; the generator runs in "entered"
          known,     \* app.state.measurement_task refers to it
          waiting,   \* each client's stop(): none, within its 8 s, or over
          stream     \* a page holds GET /api/stream open

api == <<server, status, task, known, waiting, stream>>

Live == task \in {"scheduled", "revoked", "entered"}

MonitorInit ==
    /\ Init
    /\ server = "up"
    /\ status = "idle"
    /\ task = "none"
    /\ known = FALSE
    /\ waiting = [c \in Clients |-> "none"]
    /\ stream = FALSE

-----------------------------------------------------------------------------
(* POST /api/start, once.                                                  *)
PostStart(c) ==
    /\ server = "up"
    /\ waiting[c] = "none"
    /\ status \notin {"connecting", "running"}
    /\ task = "none"
    /\ task' = "scheduled"
    /\ known' = TRUE
    /\ status' = "connecting"
    /\ UNCHANGED <<vars, server, waiting, stream>>

TaskEnters ==
    /\ task = "scheduled"
    /\ task' = "entered"
    /\ status' = "running"
    /\ UNCHANGED <<vars, server, known, waiting, stream>>

(* A coroutine that was cancelled before it started runs no line.          *)
TaskRevoked ==
    /\ task = "revoked"
    /\ task' = "done"
    /\ UNCHANGED <<vars, server, status, known, waiting, stream>>

(* What the task makes of the end of the session, in the same stretch.     *)
TaskFollows ==
    IF pc # "ended" /\ pc' = "ended"
    THEN task' = "done" /\ status' = IF exc' = "error" THEN "error" ELSE "idle"
    ELSE UNCHANGED <<task, status>>

SessionRuns ==
    /\ task = "entered" \/ pc = "ended"
    /\ GeneratorStep \/ MeterStep \/ NetworkStep \/ ClientWaitEnds
    /\ TaskFollows
    /\ UNCHANGED <<server, known, waiting, stream>>

-----------------------------------------------------------------------------
(* task.cancel(), which the session feels at its await.                    *)
CancelTask ==
    IF task = "entered"
    THEN Cancel /\ TaskFollows
    ELSE task' = "revoked" /\ UNCHANGED <<vars, status>>

(* POST /api/stop finds a task that is not done, and waits for it, or      *)
(* finds none.                                                             *)
StopCancels(c) ==
    /\ server = "up"
    /\ waiting[c] = "none"
    /\ known /\ Live
    /\ CancelTask
    /\ waiting' = [waiting EXCEPT ![c] = "patient"]
    /\ UNCHANGED <<server, known, stream>>

StopIdle(c) ==
    /\ server = "up"
    /\ waiting[c] = "none"
    /\ ~(known /\ Live)
    /\ known' = FALSE
    /\ status' = "idle"
    /\ UNCHANGED <<vars, server, task, waiting, stream>>

(* The 8 s of wait_for are over: it cancels the task and waits on.         *)
StopTimesOut(c) ==
    /\ waiting[c] = "patient"
    /\ task = "entered"
    /\ CancelTask
    /\ waiting' = [waiting EXCEPT ![c] = "overdue"]
    /\ UNCHANGED <<server, known, stream>>

(* The faulty variant is what a plausible bug would make of the definition *)
(* that follows it; no run and no proof uses it.                           *)
FaultyStopGivesUp(c) ==
    /\ waiting[c] # "none"
    /\ task = "done" \/ waiting[c] = "overdue"
    /\ waiting' = [waiting EXCEPT ![c] = "none"]
    /\ known' = FALSE
    /\ status' = "idle"
    /\ UNCHANGED <<vars, server, task, stream>>

StopAnswers(c) ==
    /\ waiting[c] # "none"
    /\ task = "done"
    /\ waiting' = [waiting EXCEPT ![c] = "none"]
    /\ known' = FALSE
    /\ status' = "idle"
    /\ UNCHANGED <<vars, server, task, stream>>

-----------------------------------------------------------------------------
(* GET /api/stream never ends by itself.                                   *)
StreamOpens ==
    /\ server = "up"
    /\ ~stream
    /\ stream' = TRUE
    /\ UNCHANGED <<vars, server, status, task, known, waiting>>

StreamCloses ==
    /\ stream
    /\ stream' = FALSE
    /\ UNCHANGED <<vars, server, status, task, known, waiting>>

Server(from, to) ==
    /\ server = from
    /\ server' = to
    /\ UNCHANGED <<known, waiting, stream>>

(* On SIGTERM uvicorn takes no new connection and waits for the open ones, *)
(* streams included; only then does the lifespan go on, to the poller and  *)
(* then to the measurement.                                                *)
Terminate == Server("up", "draining") /\ UNCHANGED <<vars, status, task>>

LifespanFinally ==
    /\ ~stream
    /\ \A c \in Clients : waiting[c] = "none"
    /\ Server("draining", "stopping_poller")
    /\ UNCHANGED <<vars, status, task>>

FaultyShutdownForgetsTask ==
    Server("stopping_poller", "stopping") /\ UNCHANGED <<vars, status, task>>

PollerStopped ==
    /\ Server("stopping_poller", "stopping")
    /\ IF known /\ Live THEN CancelTask ELSE UNCHANGED <<vars, status, task>>

Exit ==
    /\ known => ~Live
    /\ Server("stopping", "down")
    /\ UNCHANGED <<vars, status, task>>

-----------------------------------------------------------------------------
ClientStep(c) ==
    \/ PostStart(c)
    \/ StopCancels(c) \/ StopIdle(c) \/ StopTimesOut(c) \/ StopAnswers(c)

ProcessStep ==
    \/ TaskEnters \/ TaskRevoked
    \/ StreamOpens \/ StreamCloses
    \/ Terminate \/ LifespanFinally \/ PollerStopped \/ Exit

MonitorNext == SessionRuns \/ ProcessStep \/ \E c \in Clients : ClientStep(c)

MonitorSpec == MonitorInit /\ [][MonitorNext]_<<vars, api>>

(* As in BwSession; the event loop also runs every task and handler that   *)
(* is ready, and the poller stops (NicPoller).  No page need ever close    *)
(* its stream.                                                             *)
MonitorFairness ==
    /\ Fairness
    /\ WF_api(TaskRevoked)
    /\ WF_api(LifespanFinally) /\ WF_api(PollerStopped) /\ WF_api(Exit)
    /\ \A c \in Clients : WF_api(StopAnswers(c))

FairMonitorSpec == MonitorSpec /\ MonitorFairness

-----------------------------------------------------------------------------
(* While the manager is idle or in error, nothing of a session is left in  *)
(* the process: no task, and no meter that polls a host (measure.py:71-75; *)
(* a start in that state would run beside it).                             *)
QuietWhenIdle ==
    status \in {"idle", "error"} => ~Live /\ ~MeterLive

(* What a step lets the pages know: a measurement that the session yields  *)
(* (those of one flush count as one), or the status it changes.  That a    *)
(* stop of nothing publishes "idle" once more is left to MeasureApi.       *)
Shown == [state |-> status, run |-> IF status = "idle" THEN 0 ELSE 1]

View == INSTANCE ServerView WITH shown <- Shown, RunIds <- {1}, NoRun <- 0

Published ==
    IF queue' < queue THEN View!Measurement(Shown)
    ELSE IF status' # status THEN View!News(Shown') ELSE <<>>

(* The session and those who end it are the server that the pages rely on: *)
(* a measurement is published only between the "running" status of its run *)
(* and the status that ends it, never in a step that ends it, though what  *)
(* yields it, the generator, is not what sets the status, and may go on    *)
(* for long after a stop (runner.py:319-338, measure.py:42-57, 70-75).     *)
FollowsView == View!ViewInit /\ [][View!ViewNext(Published)]_<<vars, api>>

(* Every stop is answered, whatever the session was doing, though the load *)
(* generator and the reads of the meter hang (measure.py:72-75).           *)
StopAnswered ==
    \A c \in Clients : (waiting[c] # "none") ~> (waiting[c] = "none")

(* And a shutdown ends the session and the process, once the last page has *)
(* closed its stream (main.py:50-59).                                      *)
ShutdownEnds == (server = "draining" /\ ~stream) ~> (server = "down")
=============================================================================
