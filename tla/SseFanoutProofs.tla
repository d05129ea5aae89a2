--------------------------- MODULE SseFanoutProofs ---------------------------
(* The queue of a subscriber is a window over one log of events, for every *)
(* number of subscribers and every QUEUE_MAX, and the fan-out implements   *)
(* LossyFeed.                                                              *)
EXTENDS SseFanout, TLAPS

-----------------------------------------------------------------------------
(* A queue that holds the newest events after event c, out of n.           *)
Window(q, c, n) ==
    /\ Len(q) = Fewer(QUEUE_MAX, n - c)
    /\ \A i \in 1..Len(q) : q[i] = n - Len(q) + i

(* put_nowait keeps a queue of numbers a queue of numbers.                 *)
LEMMA PutType ==
  ASSUME NEW q \in Seq(Nat), NEW e \in Nat PROVE PutNowait(q, e) \in Seq(Nat)
<1>1. CASE Len(q) < QUEUE_MAX
  BY <1>1 DEF PutNowait
<1>2. CASE ~(Len(q) < QUEUE_MAX)
  <2>1. q # <<>>
    BY <1>2, QueueAssumption
  <2>2. Tail(q) \in Seq(Nat)
    BY <2>1
  <2> QED
    BY <1>2, <2>2 DEF PutNowait
<1> QED
  BY <1>1, <1>2

(* Publishing slides the window of a subscriber by one event.              *)
LEMMA PutWindow ==
  ASSUME NEW q \in Seq(Nat), NEW c \in Nat, NEW n \in Nat, c <= n,
         Window(q, c, n)
  PROVE  Window(PutNowait(q, n + 1), c, n + 1)
<1> USE QueueAssumption DEF Window, Fewer
<1>1. CASE Len(q) < QUEUE_MAX
  <2> DEFINE r == Append(q, n + 1)
  <2>1. Len(r) = Len(q) + 1 /\ Len(q) = n - c
    BY <1>1
  <2>2. \A i \in 1..Len(r) : r[i] = IF i = Len(q) + 1 THEN n + 1 ELSE q[i]
    OBVIOUS
  <2>3. ASSUME NEW i \in 1..Len(r) PROVE r[i] = n + 1 - Len(r) + i
    <3>1. CASE i = Len(q) + 1
      BY <2>1, <2>2, <3>1
    <3>2. CASE i # Len(q) + 1
      <4>1. i \in 1..Len(q) /\ r[i] = q[i]
        BY <2>1, <2>2, <3>2
      <4>2. q[i] = n - Len(q) + i
        BY <4>1
      <4> HIDE DEF r, Window
      <4> QED
        BY <2>1, <4>1, <4>2
    <3> QED
      BY <3>1, <3>2
  <2> QED
    BY <1>1, <2>1, <2>3 DEF PutNowait
<1>2. CASE ~(Len(q) < QUEUE_MAX)
  <2> DEFINE p == Tail(q)
             r == Append(p, n + 1)
  <2>1. Len(q) = QUEUE_MAX /\ q # <<>>
    BY <1>2
  <2>2. p \in Seq(Nat) /\ Len(p) = Len(q) - 1
    BY <2>1
  <2>3. \A i \in 1..Len(p) : p[i] = q[i + 1]
    BY <2>1, <2>2
  <2>4. Len(r) = Len(q)
    BY <2>2
  <2>5. \A i \in 1..Len(r) : r[i] = IF i = Len(p) + 1 THEN n + 1 ELSE p[i]
    BY <2>2
  <2>6. ASSUME NEW i \in 1..Len(r) PROVE r[i] = n + 1 - Len(r) + i
    <3>1. Len(q) \in Nat /\ Len(q) > 0
      BY <2>1
    <3>2. CASE i = Len(p) + 1
      BY <2>2, <2>4, <2>5, <3>1, <3>2
    <3>3. CASE i # Len(p) + 1
      <4>1. i \in 1..Len(p) /\ r[i] = q[i + 1]
        BY <2>2, <2>3, <2>4, <2>5, <3>1, <3>3
      <4>2. i + 1 \in 1..Len(q)
        BY <2>2, <3>1, <4>1
      <4>3. q[i + 1] = n - Len(q) + (i + 1)
        BY <4>2
      <4> HIDE DEF p, r, Window
      <4> QED
        BY <2>4, <3>1, <4>1, <4>3
    <3> QED
      BY <3>2, <3>3
  <2> QED
    BY <1>2, <2>1, <2>4, <2>6 DEF PutNowait
<1> QED
  BY <1>1, <1>2

(* Taking the oldest event of a window moves the cursor to it: the event   *)
(* after the cursor, or the oldest of the QUEUE_MAX newest ones.           *)
LEMMA TakeWindow ==
  ASSUME NEW q \in Seq(Nat), NEW c \in Nat, NEW n \in Nat, c <= n,
         Window(q, c, n), q # <<>>
  PROVE  /\ c < n
         /\ Head(q) \in Nat
         /\ Head(q) <= n
         /\ Head(q) = Feed!Later(c + 1, n - QUEUE_MAX + 1)
         /\ Tail(q) \in Seq(Nat)
         /\ Window(Tail(q), Head(q), n)
<1> USE QueueAssumption DEF Window, Fewer
<1>1. Len(q) > 0 /\ Len(q) \in Nat
  OBVIOUS
<1>2. Head(q) = n - Len(q) + 1
  BY <1>1
<1>3. Head(q) = Feed!Later(c + 1, n - QUEUE_MAX + 1) /\ c < n
  BY <1>1, <1>2 DEF Feed!Later
<1>4. Tail(q) \in Seq(Nat) /\ Len(Tail(q)) = Len(q) - 1
  OBVIOUS
<1>5. \A i \in 1..Len(Tail(q)) : Tail(q)[i] = q[i + 1]
  BY <1>1, <1>4
<1>6. ASSUME NEW i \in 1..Len(Tail(q))
      PROVE  Tail(q)[i] = n - Len(Tail(q)) + i
  <2>1. i + 1 \in 1..Len(q)
    BY <1>1, <1>4
  <2>2. q[i + 1] = n - Len(q) + (i + 1)
    BY <2>1
  <2>3. Tail(q)[i] = q[i + 1] /\ i \in Nat
    BY <1>1, <1>4, <1>5
  <2> HIDE DEF Window, Fewer
  <2> QED
    BY <1>1, <1>4, <2>2, <2>3
<1>7. Len(Tail(q)) = n - Head(q) /\ Len(Tail(q)) < QUEUE_MAX
  <2>1. Len(q) <= QUEUE_MAX
    BY <1>1
  <2> HIDE DEF Window, Fewer
  <2> QED
    BY <1>1, <1>2, <1>4, <2>1
<1> QED
  BY <1>1, <1>2, <1>3, <1>4, <1>6, <1>7

-----------------------------------------------------------------------------
(* The queues and cursors of all subscribers, as one inductive invariant.  *)
WindowInv == TypeOK /\ QueueIsWindow

(* With nobody subscribed the invariant holds trivially ...                *)
LEMMA WindowInit == Init => WindowInv
<1> SUFFICES ASSUME Init PROVE WindowInv
  OBVIOUS
<1>1. <<>> \in Seq(Nat)
  OBVIOUS
<1> QED
  BY <1>1 DEF Init, WindowInv, TypeOK, QueueIsWindow, Subscribed

(* ... and every step of the fan-out keeps it.                             *)
LEMMA WindowStep == WindowInv /\ [Next]_vars => WindowInv'
<1> SUFFICES ASSUME WindowInv, [Next]_vars PROVE WindowInv'
  OBVIOUS
<1> USE DEF WindowInv, TypeOK
<1>i. \A s \in Subscribers :
        Subscribed(s) => Window(queue[s], cursor[s], published)
  BY DEF QueueIsWindow, Window
<1>w. ASSUME TypeOK',
             \A s \in Subscribers :
                Subscribed(s)' => Window(queue'[s], cursor'[s], published')
      PROVE WindowInv'
  BY <1>w DEF QueueIsWindow, Window
<1>1. CASE Publish
  <2>1. published' = published + 1 /\ published' \in Nat
    BY <1>1 DEF Publish
  <2>2. ASSUME NEW s \in Subscribers
        PROVE queue'[s] \in Seq(Nat) /\
              (Subscribed(s)' => Window(queue'[s], cursor'[s], published'))
    <3>1. queue'[s] = IF Subscribed(s)
                      THEN PutNowait(queue[s], published + 1) ELSE queue[s]
      BY <1>1, <2>1 DEF Publish
    <3>2. cursor' = cursor /\ (Subscribed(s)' <=> Subscribed(s))
      BY <1>1 DEF Publish, Subscribed
    <3>3. queue[s] \in Seq(Nat) /\ cursor[s] \in Nat /\ cursor[s] <= published
      OBVIOUS
    <3>4. PutNowait(queue[s], published + 1) \in Seq(Nat)
      BY <3>3, PutType
    <3>5. CASE Subscribed(s)
      <4>1. Window(queue[s], cursor[s], published)
        BY <1>i, <3>5
      <4>2. Window(PutNowait(queue[s], published + 1), cursor[s], published + 1)
        BY <3>3, <4>1, PutWindow
      <4> QED
        BY <2>1, <3>1, <3>2, <3>4, <3>5, <4>2
    <3>6. CASE ~Subscribed(s)
      BY <3>1, <3>2, <3>3, <3>6
    <3> QED
      BY <3>5, <3>6
  <2>3. TypeOK'
    <3>1. queue' = [s \in Subscribers |-> queue'[s]]
      BY <1>1 DEF Publish
    <3>2. queue' \in [Subscribers -> Seq(Nat)]
      BY <2>2, <3>1
    <3>3. conn' = conn /\ cursor' = cursor
      BY <1>1 DEF Publish
    <3> QED
      BY <2>1, <3>2, <3>3
  <2> QED
    BY <1>w, <2>2, <2>3
<1>2. ASSUME NEW s \in Subscribers, Subscribe(s) PROVE WindowInv'
  <2>1. <<>> \in Seq(Nat) /\ Len(<<>>) = 0
    OBVIOUS
  <2>2. TypeOK'
    BY <1>2, <2>1 DEF Subscribe
  <2>3. ASSUME NEW u \in Subscribers, Subscribed(u)'
        PROVE Window(queue'[u], cursor'[u], published')
    <3>1. CASE u = s
      <4>1. queue'[u] = <<>> /\ cursor'[u] = published /\ published' = published
        BY <1>2, <3>1 DEF Subscribe
      <4> QED
        BY <2>1, <4>1, QueueAssumption DEF Window, Fewer
    <3>2. CASE u # s
      BY <1>2, <1>i, <2>3, <3>2 DEF Subscribe, Subscribed
    <3> QED
      BY <3>1, <3>2
  <2> QED
    BY <1>w, <2>2, <2>3
<1>3. ASSUME NEW s \in Subscribers, Get(s) \/ SentNext(s) PROVE WindowInv'
  <2>1. TakeOldest(s) /\ Subscribed(s)
    BY <1>3 DEF Get, SentNext, Subscribed
  <2>2. Window(queue[s], cursor[s], published)
    BY <1>i, <2>1
  <2>3. queue[s] \in Seq(Nat) /\ cursor[s] \in Nat /\ cursor[s] <= published
        /\ queue[s] # <<>>
    BY <2>1 DEF TakeOldest
  <2>4. /\ Head(queue[s]) \in Nat /\ Head(queue[s]) <= published
        /\ Tail(queue[s]) \in Seq(Nat)
        /\ Window(Tail(queue[s]), Head(queue[s]), published)
    BY <2>2, <2>3, TakeWindow
  <2>5. TypeOK'
    BY <2>1, <2>4 DEF TakeOldest
  <2>6. ASSUME NEW u \in Subscribers, Subscribed(u)'
        PROVE Window(queue'[u], cursor'[u], published')
    <3>1. CASE u = s
      BY <2>1, <2>4, <3>1 DEF TakeOldest
    <3>2. CASE u # s
      BY <1>i, <2>1, <2>6, <3>2 DEF TakeOldest, Subscribed
    <3> QED
      BY <3>1, <3>2
  <2> QED
    BY <1>w, <2>5, <2>6
<1>4. ASSUME NEW s \in Subscribers,
             Heartbeat(s) \/ SentWait(s) \/ DisconnectSending(s)
      PROVE WindowInv'
  <2>1. /\ UNCHANGED <<published, queue, cursor>>
        /\ conn[s] \in {"getting", "sending"}
        /\ \E x \in {"getting", "sending", "lingering"} :
              conn' = [conn EXCEPT ![s] = x]
    BY <1>4 DEF Heartbeat, SentWait, DisconnectSending
  <2>2. TypeOK'
    BY <2>1
  <2>3. ASSUME NEW u \in Subscribers, Subscribed(u)'
        PROVE Window(queue'[u], cursor'[u], published')
    BY <1>i, <2>1, <2>3 DEF Subscribed
  <2> QED
    BY <1>w, <2>2, <2>3
<1>5. ASSUME NEW s \in Subscribers, DisconnectGetting(s) \/ Finalise(s)
      PROVE WindowInv'
  <2>1. Unsubscribe(s)
    BY <1>5 DEF DisconnectGetting, Finalise
  <2>2. <<>> \in Seq(Nat)
    OBVIOUS
  <2>3. TypeOK'
    BY <2>1, <2>2 DEF Unsubscribe
  <2>4. ASSUME NEW u \in Subscribers, Subscribed(u)'
        PROVE Window(queue'[u], cursor'[u], published')
    BY <1>i, <2>1, <2>4 DEF Unsubscribe, Subscribed
  <2> QED
    BY <1>w, <2>3, <2>4
<1>6. CASE UNCHANGED vars
  BY <1>6, <1>i, <1>w DEF vars, Subscribed
<1> QED
  BY <1>1, <1>2, <1>3, <1>4, <1>5, <1>6 DEF Next, SubscriberStep

(* Whatever the number of subscribers, their speed and QUEUE_MAX, a queue  *)
(* holds exactly the newest events its subscriber has not taken.           *)
THEOREM QueuesAreWindows == Spec => []QueueIsWindow
<1>1. WindowInv => QueueIsWindow
  BY DEF WindowInv
<1> QED
  BY <1>1, WindowInit, WindowStep, PTL DEF Spec

(* Every variable of the fan-out keeps its type.                           *)
THEOREM FanoutTypeCorrect == Spec => []TypeOK
<1>1. WindowInv => TypeOK
  BY DEF WindowInv
<1> QED
  BY <1>1, WindowInit, WindowStep, PTL DEF Spec

-----------------------------------------------------------------------------
(* Every step of the fan-out is a step of the feed it implements.          *)
LEMMA FeedStep == WindowInv /\ [Next]_vars => [Feed!FeedNext]_(Feed!feedVars)
<1> SUFFICES ASSUME WindowInv, [Next]_vars
             PROVE Feed!FeedNext \/ UNCHANGED Feed!feedVars
  OBVIOUS
<1> USE DEF WindowInv, TypeOK
<1>1. CASE Publish
  BY <1>1 DEF Publish, Feed!FeedNext, Feed!Append1, Subscribed
<1>2. ASSUME NEW s \in Subscribers, Subscribe(s) PROVE Feed!FeedNext
  BY <1>2 DEF Subscribe, Feed!FeedNext, Feed!Join, Subscribed
<1>3. ASSUME NEW s \in Subscribers, Get(s) \/ SentNext(s)
      PROVE Feed!FeedNext
  <2>1. TakeOldest(s) /\ Subscribed(s)
    BY <1>3 DEF Get, SentNext, Subscribed
  <2>2. Window(queue[s], cursor[s], published)
    BY <2>1 DEF QueueIsWindow, Window
  <2>3. queue[s] \in Seq(Nat) /\ cursor[s] \in Nat /\ cursor[s] <= published
        /\ queue[s] # <<>>
    BY <2>1 DEF TakeOldest
  <2>4. /\ cursor[s] < published
        /\ Head(queue[s]) = Feed!Later(cursor[s] + 1, published - QUEUE_MAX + 1)
    BY <2>2, <2>3, TakeWindow
  <2>5. \A u \in Subscribers : Subscribed(u)' <=> Subscribed(u)
    BY <1>3, <2>1 DEF TakeOldest, Subscribed, Get, SentNext
  <2>6. [u \in Subscribers |-> Subscribed(u)]'
          = [u \in Subscribers |-> Subscribed(u)]
    BY <2>5 DEF Subscribed
  <2> QED
    BY <2>1, <2>4, <2>6 DEF TakeOldest, Feed!FeedNext, Feed!Take
<1>4. ASSUME NEW s \in Subscribers,
             Heartbeat(s) \/ SentWait(s) \/ DisconnectSending(s)
      PROVE UNCHANGED Feed!feedVars
  BY <1>4 DEF Heartbeat, SentWait, DisconnectSending, Feed!feedVars, Subscribed
<1>5. ASSUME NEW s \in Subscribers, DisconnectGetting(s) \/ Finalise(s)
      PROVE Feed!FeedNext
  BY <1>5 DEF DisconnectGetting, Finalise, Unsubscribe, Subscribed,
              Feed!FeedNext, Feed!Leave
<1>6. CASE UNCHANGED vars
  BY <1>6 DEF vars, Feed!feedVars, Subscribed
<1> QED
  BY <1>1, <1>2, <1>3, <1>4, <1>5, <1>6 DEF Next, SubscriberStep

(* The fan-out implements the feed: every subscriber reads one log of      *)
(* events in order, and loses the oldest ones only when QUEUE_MAX newer    *)
(* ones wait for him.                                                      *)
THEOREM FanoutImplementsFeed == Spec => ImplementsFeed
<1>1. Init => Feed!FeedInit
  BY DEF Init, Feed!FeedInit, Subscribed
<1> QED
  BY <1>1, WindowInit, WindowStep, FeedStep, PTL
  DEF Spec, ImplementsFeed, Feed!FeedSpec
=============================================================================
