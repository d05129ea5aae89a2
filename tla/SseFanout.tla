------------------------------ MODULE SseFanout ------------------------------
(***************************************************************************)
(* The fan-out of events to the browsers: SessionManager.publish,          *)
(* subscribe and unsubscribe, the bounded queue of each subscriber         *)
(* (app/state.py) and the generator behind GET /api/stream                 *)
(* (app/api/stream.py).  An event is its number in the order of the calls  *)
(* of publish(); its kind and its payload play no part here.               *)
(*                                                                         *)
(* A subscriber is a slot for one connection at a time.  Its generator is  *)
(* "getting" while it waits in wait_for(queue.get(), 15 s), "sending"      *)
(* while a chunk it yielded is written to the socket, and "lingering" when *)
(* the client left during that write: the response is gone, and the        *)
(* generator stays subscribed at its yield until Python finalises it.      *)
(***************************************************************************)
EXTENDS Integers, Sequences

CONSTANTS Subscribers,   \* connection slots
          Reading,       \* those whose client reads what it is sent
          QUEUE_MAX,     \* _Subscriber.QUEUE_MAX, 256 in the code
          MaxPublished   \* bound on the events of a behaviour

ASSUME QueueAssumption == QUEUE_MAX \in Nat \ {0}
ASSUME BoundAssumption == MaxPublished \in Nat
ASSUME ReadingAssumption == Reading \subseteq Subscribers

VARIABLES published,  \* number of events published so far
          conn,       \* the generator of each slot
          queue,      \* _Subscriber.queue
          cursor      \* the event last taken, or the last before subscribing

vars == <<published, conn, queue, cursor>>

Subscribed(s) == conn[s] # "off"

-----------------------------------------------------------------------------
Init ==
    /\ published = 0
    /\ conn = [s \in Subscribers |-> "off"]
    /\ queue = [s \in Subscribers |-> <<>>]
    /\ cursor = [s \in Subscribers |-> 0]

(* Each faulty variant is what a plausible bug would make of the           *)
(* definition that follows it; no run and no proof uses one.               *)
FaultyDropNewest(q, e) == IF Len(q) < QUEUE_MAX THEN Append(q, e) ELSE q

(* _Subscriber.put_nowait: a full queue drops its oldest event.            *)
PutNowait(q, e) ==
    IF Len(q) < QUEUE_MAX THEN Append(q, e) ELSE Append(Tail(q), e)

FaultyPublishToWaiting ==
    /\ published < MaxPublished
    /\ published' = published + 1
    /\ queue' = [s \in Subscribers |->
                   IF conn[s] = "getting" THEN PutNowait(queue[s], published')
                   ELSE queue[s]]
    /\ UNCHANGED <<conn, cursor>>

(* publish() never suspends: it reaches every subscriber in one step.      *)
Publish ==
    /\ published < MaxPublished
    /\ published' = published + 1
    /\ queue' = [s \in Subscribers |->
                   IF Subscribed(s) THEN PutNowait(queue[s], published')
                   ELSE queue[s]]
    /\ UNCHANGED <<conn, cursor>>

(* The first step of the generator: a new queue, empty; nothing published  *)
(* before is replayed.                                                     *)
Subscribe(s) ==
    /\ conn[s] = "off"
    /\ conn' = [conn EXCEPT ![s] = "getting"]
    /\ queue' = [queue EXCEPT ![s] = <<>>]
    /\ cursor' = [cursor EXCEPT ![s] = published]
    /\ UNCHANGED published

(* queue.get() returns the oldest event, which the generator yields.       *)
TakeOldest(s) ==
    /\ queue[s] # <<>>
    /\ conn' = [conn EXCEPT ![s] = "sending"]
    /\ queue' = [queue EXCEPT ![s] = Tail(queue[s])]
    /\ cursor' = [cursor EXCEPT ![s] = Head(queue[s])]
    /\ UNCHANGED published

(* An event woke the generator.                                            *)
Get(s) == conn[s] = "getting" /\ TakeOldest(s)

FaultyHeartbeatLosesEvent(s) ==
    /\ conn[s] = "getting"
    /\ conn' = [conn EXCEPT ![s] = "sending"]
    /\ queue' = [queue EXCEPT ![s] = IF @ = <<>> THEN @ ELSE Tail(@)]
    /\ UNCHANGED <<published, cursor>>

(* wait_for times out and a ping is yielded.  The timer may fire in the    *)
(* very round in which an event arrives: get() then leaves the event in    *)
(* the queue.                                                              *)
Heartbeat(s) ==
    /\ conn[s] = "getting"
    /\ conn' = [conn EXCEPT ![s] = "sending"]
    /\ UNCHANGED <<published, queue, cursor>>

(* The chunk is written and the loop goes round: queue.get() returns an    *)
(* event that is already there without suspending, or waits.               *)
SentNext(s) == conn[s] = "sending" /\ TakeOldest(s)

SentWait(s) ==
    /\ conn[s] = "sending"
    /\ queue[s] = <<>>
    /\ conn' = [conn EXCEPT ![s] = "getting"]
    /\ UNCHANGED <<published, queue, cursor>>

Unsubscribe(s) ==
    /\ conn' = [conn EXCEPT ![s] = "off"]
    /\ queue' = [queue EXCEPT ![s] = <<>>]
    /\ UNCHANGED <<published, cursor>>

(* The response is cancelled inside queue.get(): the context manager of    *)
(* the subscription exits with it.                                         *)
DisconnectGetting(s) == conn[s] = "getting" /\ Unsubscribe(s)

(* The response is cancelled in the write: the generator is abandoned.     *)
DisconnectSending(s) ==
    /\ conn[s] = "sending"
    /\ conn' = [conn EXCEPT ![s] = "lingering"]
    /\ UNCHANGED <<published, queue, cursor>>

Finalise(s) == conn[s] = "lingering" /\ Unsubscribe(s)

SubscriberStep(s) ==
    \/ Subscribe(s)
    \/ Get(s)
    \/ Heartbeat(s)
    \/ SentNext(s)
    \/ SentWait(s)
    \/ DisconnectGetting(s)
    \/ DisconnectSending(s)
    \/ Finalise(s)

Next == Publish \/ \E s \in Subscribers : SubscriberStep(s)

Spec == Init /\ [][Next]_vars

(* The loop resumes a generator whose queue holds an event, a write to a   *)
(* client that reads completes, and Python finalises what is abandoned.    *)
(* Nothing makes a write to a client that does not read complete.          *)
Fairness ==
    /\ \A s \in Subscribers : WF_vars(Get(s)) /\ WF_vars(Finalise(s))
    /\ \A s \in Reading : WF_vars(SentNext(s) \/ SentWait(s))

FairSpec == Spec /\ Fairness

-----------------------------------------------------------------------------
TypeOK ==
    /\ published \in Nat
    /\ conn \in [Subscribers -> {"off", "getting", "sending", "lingering"}]
    /\ queue \in [Subscribers -> Seq(Nat)]
    /\ cursor \in [Subscribers -> Nat]
    /\ \A s \in Subscribers : cursor[s] <= published

Fewer(m, n) == IF m < n THEN m ELSE n

(* A queue holds exactly the newest events its subscriber has not taken,   *)
(* as many of them as fit, in order and without a gap: publishing to a     *)
(* full queue loses the oldest event and only that, and a heartbeat that   *)
(* races an event loses none (state.py:40-48, stream.py:30-35).            *)
QueueIsWindow ==
    \A s \in Subscribers : Subscribed(s) =>
        /\ Len(queue[s]) = Fewer(QUEUE_MAX, published - cursor[s])
        /\ \A i \in 1..Len(queue[s]) :
              queue[s][i] = published - Len(queue[s]) + i

(* Every subscriber reads one log in order and misses an event only when   *)
(* QUEUE_MAX newer ones wait for him: the fan-out implements LossyFeed.    *)
Feed == INSTANCE LossyFeed WITH on <- [s \in Subscribers |-> Subscribed(s)]

ImplementsFeed == Feed!FeedSpec

(* A client that reads gets to the end of the log, or leaves, though other *)
(* clients may have stopped reading for ever (state.py:112-115).           *)
CatchesUp ==
    \A s \in Reading : \A n \in 1..MaxPublished :
        (conn[s] \in {"getting", "sending"} /\ published >= n)
            ~> (cursor[s] >= n \/ conn[s] \notin {"getting", "sending"})
=============================================================================
