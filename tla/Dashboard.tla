------------------------------ MODULE Dashboard ------------------------------
(***************************************************************************)
(* One browser page of the monitor (frontend/src): it asks for the status, *)
(* subscribes to the event stream, keeps three stores up to date from the  *)
(* events, and has one button that posts a start or a stop.  The server is *)
(* that of ServerView, which MeasureApi implements; other pages start and  *)
(* stop it too.                                                            *)
(*                                                                         *)
(* A run is its number; 0 is no run.  "missed" is no state of the program: *)
(* it records that a status event never reached the page, because the page *)
(* was not subscribed, the connection broke or its queue was full.         *)
(***************************************************************************)
EXTENDS Integers, Sequences

CONSTANTS QUEUE_MAX,   \* events that wait for the page, 256 on the server
          MAX_POINTS,  \* window of the charts, 600 in the code
          MaxRuns,     \* bound on the runs of a behaviour
          MaxBreaks    \* bound on the breaks of the connection

ASSUME BoundsAssumption ==
    /\ QUEUE_MAX \in Nat \ {0}
    /\ MAX_POINTS \in Nat \ {0}
    /\ MaxRuns \in Nat
    /\ MaxBreaks \in Nat

VARIABLES status,   \* of the server: SessionManager._status
          begun,    \* runs begun so far
          feed,     \* published to this page and not yet delivered
          link,     \* the EventSource of the page
          mount,    \* onMount: the GET in flight, answered, over or failed
          reply,    \* the answer of that GET
          session,  \* sessionStore
          prevState,
          values,   \* measurementStore: the run of each point of the chart
          current,  \* measurementStore: the run the KPI cards show
          series,   \* nicTelemetryStore: the run each point was taken in
          post,     \* the request of the button in flight
          missed, breaks

server == <<status, begun>>
page == <<session, prevState, values, current, series>>
vars == <<server, feed, link, mount, reply, page, post, missed, breaks>>

INSTANCE ServerView WITH shown <- status, RunIds <- 1..MaxRuns, NoRun <- 0

NoPost == [kind |-> "none"]

StatusIn(q) == \E i \in 1..Len(q) : q[i].name = "status"

Init ==
    /\ ViewInit
    /\ begun = 0
    /\ feed = <<>>
    /\ link = "none"
    /\ mount = "loading"
    /\ reply = Idle
    /\ session = Idle
    /\ prevState = "idle"
    /\ values = <<>>
    /\ current = 0
    /\ series = <<>>
    /\ post = NoPost
    /\ missed = FALSE
    /\ breaks = 0

-----------------------------------------------------------------------------
(* What the server publishes goes to the queue of the page if it is        *)
(* subscribed, and pushes the oldest events out of a full queue.           *)
Publish(events) ==
    LET all == feed \o events
        excess == IF Len(all) > QUEUE_MAX THEN Len(all) - QUEUE_MAX ELSE 0
    IN  IF link = "open"
        THEN /\ feed' = SubSeq(all, excess + 1, Len(all))
             /\ missed' = (missed \/ StatusIn(SubSeq(all, 1, excess)))
        ELSE /\ missed' = (missed \/ (mount # "loading" /\ StatusIn(events)))
             /\ UNCHANGED feed

AcceptStart ==
    /\ begun < MaxRuns
    /\ begun' = begun + 1
    /\ Begins(begun + 1)
    /\ Publish(News(status'))

OtherPageStarts ==
    /\ AcceptStart
    /\ UNCHANGED <<link, mount, reply, page, post, breaks>>

(* The task takes its first step, publishes, ends or fails, or another     *)
(* page posts a stop.                                                      *)
SessionMoves ==
    /\ \/ (GetsGoing \/ Fails \/ Rests) /\ Publish(News(status'))
       \/ Measures /\ Publish(Measurement(status))
    /\ UNCHANGED <<begun, link, mount, reply, page, post, breaks>>

(* The poller publishes in every state.                                    *)
PublishTemp ==
    /\ Publish(<<[name |-> "nic_temp",
                  run |-> IF status.state = "running" THEN status.run ELSE 0]>>)
    /\ UNCHANGED <<server, link, mount, reply, page, post, breaks>>

(* A connection breaks, alone or with the server, which starts afresh.     *)
Break ==
    /\ link = "open"
    /\ breaks < MaxBreaks
    /\ breaks' = breaks + 1
    /\ link' = "connecting"
    /\ feed' = <<>>
    /\ \/ missed' = (missed \/ StatusIn(feed)) /\ UNCHANGED <<status, post>>
       \/ /\ status' = Idle
          /\ post' = NoPost
          /\ missed' = (missed \/ StatusIn(feed) \/ status # Idle)
    /\ UNCHANGED <<begun, mount, reply, page>>

-----------------------------------------------------------------------------
(* measurementStore.reset and nicTelemetryStore.resetSeries.               *)
ResetCharts == values' = <<>> /\ current' = 0 /\ series' = <<>>

(* Each faulty variant is what a plausible bug would make of the           *)
(* definition that follows it; no run and no proof uses one.               *)
FaultyUpdateOnEdge(s) ==
    /\ session' = s
    /\ prevState' = s.state
    /\ IF s.state = "running" /\ prevState = "idle"
       THEN ResetCharts
       ELSE UNCHANGED <<values, current, series>>

FaultyUpdateKeepsRun(s) ==
    /\ session' = [s EXCEPT !.run = IF s.state = "idle" THEN session.run ELSE @]
    /\ prevState' = s.state
    /\ IF s.state = "running" /\ prevState # "running"
       THEN ResetCharts
       ELSE UNCHANGED <<values, current, series>>

(* sessionStore.update and, in the microtask after it, the effect of the   *)
(* page that resets the charts when a run begins.                          *)
Update(s) ==
    /\ session' = s
    /\ prevState' = s.state
    /\ IF s.state = "running" /\ prevState # "running"
       THEN ResetCharts
       ELSE UNCHANGED <<values, current, series>>

(* GET /api/status is answered, or fails ...                               *)
AnswerStatus ==
    /\ mount = "loading"
    /\ mount' = "answered"
    /\ reply' = status
    /\ UNCHANGED <<server, feed, link, page, post, missed, breaks>>

StatusFails ==
    /\ mount = "loading"
    /\ mount' = "failed"
    /\ link' = "connecting"
    /\ missed' = TRUE
    /\ UNCHANGED <<server, feed, reply, page, post, breaks>>

(* ... and the page goes on to open the stream.                            *)
Mounted ==
    /\ mount = "answered"
    /\ mount' = "over"
    /\ Update(reply)
    /\ link' = "connecting"
    /\ UNCHANGED <<server, feed, reply, post, missed, breaks>>

(* GET /api/stream reaches the server, now or when EventSource retries: it *)
(* subscribes to what is published from here on.                           *)
Subscribe ==
    /\ link = "connecting"
    /\ link' = "open"
    /\ UNCHANGED <<server, feed, mount, reply, page, post, missed, breaks>>

(* [...points, p].slice(-MAX_POINTS)                                       *)
Push(points, p) ==
    IF Len(points) < MAX_POINTS THEN Append(points, p)
                                ELSE Append(Tail(points), p)

(* The event at the head of the feed reaches its handler.  A status other  *)
(* than "running" puts the page right, whatever it missed before it.       *)
Take(name) == feed # <<>> /\ Head(feed).name = name /\ feed' = Tail(feed)

OnStatus ==
    /\ Take("status")
    /\ Update(Head(feed).status)
    /\ missed' = (missed /\ Head(feed).status.state = "running")
    /\ UNCHANGED <<server, link, mount, reply, post, breaks>>

OnMeasurement ==
    /\ Take("measurement")
    /\ values' = Push(values, Head(feed).run)
    /\ current' = Head(feed).run
    /\ UNCHANGED <<server, link, mount, reply, session, prevState, series,
                   post, missed, breaks>>

(* The tiles show every event; only while the page shows a run does a      *)
(* temperature enter the chart.                                            *)
OnNicTemp ==
    /\ Take("nic_temp")
    /\ series' = IF session.state = "running" THEN Push(series, Head(feed).run)
                                              ELSE series
    /\ UNCHANGED <<server, link, mount, reply, session, prevState, values,
                   current, post, missed, breaks>>

(* An error is written to the console and nowhere else.                    *)
OnError ==
    /\ Take("error")
    /\ UNCHANGED <<server, link, mount, reply, page, post, missed, breaks>>

HandleEvent == OnStatus \/ OnMeasurement \/ OnNicTemp \/ OnError

-----------------------------------------------------------------------------
(* isRunning: what the button offers.                                      *)
ShownRunning == session.state \in {"running", "connecting"}

Press ==
    /\ post = NoPost
    /\ post' = [kind |-> IF ShownRunning THEN "stop" ELSE "start",
                seen |-> session]
    /\ UNCHANGED <<server, feed, link, mount, reply, page, missed, breaks>>

(* A start that meets a busy server is answered 409 and changes nothing.   *)
HandleStart ==
    /\ post # NoPost /\ post.kind = "start"
    /\ post' = NoPost
    /\ IF Busy(status) THEN UNCHANGED <<server, feed, missed>> ELSE AcceptStart
    /\ UNCHANGED <<link, mount, reply, page, breaks>>

(* A stop is accepted in every state and names no run.                     *)
HandleStop ==
    /\ post # NoPost /\ post.kind = "stop"
    /\ post' = NoPost
    /\ Rests /\ Publish(News(status'))
    /\ UNCHANGED <<begun, link, mount, reply, page, breaks>>

-----------------------------------------------------------------------------
ServerStep == OtherPageStarts \/ SessionMoves \/ PublishTemp \/ Break

PageStep ==
    \/ AnswerStatus \/ StatusFails \/ Mounted \/ Subscribe
    \/ HandleEvent
    \/ Press \/ HandleStart \/ HandleStop

Next == ServerStep \/ PageStep

Spec == Init /\ [][Next]_vars

(* What is in the queue of an open stream is sent, and the browser calls   *)
(* its handler.                                                            *)
FairSpec == Spec /\ WF_vars(HandleEvent)

-----------------------------------------------------------------------------
(* What the page shows once it has handled what is under way to it.        *)
Upcoming ==
    LET last == {i \in 1..Len(feed) :
                   /\ feed[i].name = "status"
                   /\ \A j \in (i + 1)..Len(feed) : feed[j].name # "status"}
    IN  IF last = {} THEN session ELSE feed[CHOOSE i \in last : TRUE].status

(* A page that missed no status event shows, or is about to show, the      *)
(* status of the server, whatever other pages do and however many queued   *)
(* measurements the full queue has dropped (+page.svelte:30-49).           *)
PageFollows == link = "open" /\ ~missed => Upcoming = status

(* And it does show it: a page that is behind the server catches up with   *)
(* it, so that its button offers what can be done, unless the queue drops  *)
(* the news or the connection breaks first (ControlPanel.svelte:32-46).    *)
PageConverges ==
    (link = "open" /\ ~missed) ~> (session = status \/ missed \/ link # "open")

(* While the page shows a run, its charts and its KPI cards show that run  *)
(* and no other, neither the one before it nor the temperatures of the     *)
(* pause between the two (+page.svelte:21-28, 41-45).                      *)
ChartsShowTheRun ==
    session.state = "running" /\ ~missed =>
        /\ \A i \in 1..Len(values) : values[i] = session.run
        /\ \A i \in 1..Len(series) : series[i] = session.run
        /\ current \in {0, session.run}

(* +page.svelte:31 says that the GET synchronises the initial status: a    *)
(* page that got its answer and whose stream never broke would then show   *)
(* the status of the server.                                               *)
InitialStatusIsSynced ==
    mount = "over" /\ link = "open" /\ breaks = 0 /\ feed = <<>> =>
        session = status
=============================================================================
