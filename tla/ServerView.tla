----------------------------- MODULE ServerView -----------------------------
(***************************************************************************)
(* The server as a page sees it: the status GET /api/status answers with   *)
(* and the events the stream carries about it (app/state.py), without the  *)
(* tasks, requests and shutdowns behind them.  MeasureApi implements it as *)
(* long as no start overtakes a stop, and Dashboard puts a page on it.     *)
(*                                                                         *)
(* ViewNext relates a step to the events it publishes, in order.  Those of *)
(* the poller are not part of it.                                          *)
(***************************************************************************)
CONSTANTS RunIds, \* what tells one run from another
          NoRun

VARIABLE shown

Idle == [state |-> "idle", run |-> NoRun]

Busy(s) == s.state \in {"connecting", "running"}

StatusEvent(s) == [name |-> "status", status |-> s]

ViewInit == shown = Idle

-----------------------------------------------------------------------------
(* Every change of the status is published with the step that makes it,    *)
(* and after an error status the error.                                    *)
News(s) == IF s.state = "error" THEN <<StatusEvent(s), [name |-> "error"]>>
                                ELSE <<StatusEvent(s)>>

Measurement(s) == <<[name |-> "measurement", run |-> s.run]>>

Begins(r) ==
    /\ ~Busy(shown)
    /\ shown' = [state |-> "connecting", run |-> r]

GetsGoing ==
    /\ shown.state = "connecting"
    /\ shown' = [shown EXCEPT !.state = "running"]

(* A measurement is published only while its own run is shown.             *)
Measures == shown.state = "running" /\ UNCHANGED shown

Fails ==
    /\ shown.state = "running"
    /\ shown' = [shown EXCEPT !.state = "error"]

(* It ends or is stopped, also before it got going; a stop of nothing is   *)
(* published as well.                                                      *)
Rests == shown' = Idle

Changes == (\E r \in RunIds : Begins(r)) \/ GetsGoing \/ Fails \/ Rests

ViewNext(events) ==
    \/ Changes /\ events = News(shown')
    \/ Measures /\ events = Measurement(shown)
    \/ UNCHANGED shown /\ events = <<>>

(* The process ends or is killed: the run is forgotten and nobody is told. *)
GoesDown(events) == shown' = Idle /\ events = <<>>
=============================================================================
