------------------------------ MODULE LossyFeed ------------------------------
(* What the stream of server-sent events promises to a subscriber: one log *)
(* of events that everyone reads in order, at his own pace, from the event *)
(* after the one he joined at.  A reader may miss events only when he is   *)
(* more than QUEUE_MAX behind, and then exactly the oldest ones.           *)
EXTENDS Integers

CONSTANTS Subscribers, QUEUE_MAX

VARIABLES published,  \* how many events the log holds
          on,         \* who is subscribed
          cursor      \* the last event each subscriber took, or missed

feedVars == <<published, on, cursor>>

Later(m, n) == IF m > n THEN m ELSE n

FeedInit ==
    /\ published = 0
    /\ on = [s \in Subscribers |-> FALSE]
    /\ cursor = [s \in Subscribers |-> 0]

Append1 ==
    /\ published' = published + 1
    /\ UNCHANGED <<on, cursor>>

Join(s) ==
    /\ ~on[s]
    /\ on' = [on EXCEPT ![s] = TRUE]
    /\ cursor' = [cursor EXCEPT ![s] = published]
    /\ UNCHANGED published

Take(s) ==
    /\ on[s]
    /\ cursor[s] < published
    /\ cursor' = [cursor EXCEPT ![s] =
                    Later(cursor[s] + 1, published - QUEUE_MAX + 1)]
    /\ UNCHANGED <<published, on>>

Leave(s) ==
    /\ on[s]
    /\ on' = [on EXCEPT ![s] = FALSE]
    /\ UNCHANGED <<published, cursor>>

FeedNext ==
    \/ Append1
    \/ \E s \in Subscribers : Join(s) \/ Take(s) \/ Leave(s)

FeedSpec == FeedInit /\ [][FeedNext]_feedVars
=============================================================================
