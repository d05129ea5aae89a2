--------------------------- MODULE DashboardProofs ---------------------------
(* What holds of a page for every length of its queue, every window of its *)
(* charts and every number of runs and of broken connections: unless a     *)
(* status event was lost, it shows the status of the server as soon as it  *)
(* has handled what is under way, and its charts show one run.             *)
EXTENDS Dashboard, SequenceTheorems, WellFoundedInduction, TLAPS

-----------------------------------------------------------------------------
Runs == 0..MaxRuns

Statuses == [state : {"idle", "connecting", "running", "error"}, run : Runs]

Events == {StatusEvent(s) : s \in Statuses} \union
          {[name |-> "measurement", run |-> r] : r \in Runs} \union
          {[name |-> "nic_temp", run |-> r] : r \in Runs} \union
          {[name |-> "error"]}

PageTypes ==
    /\ status \in Statuses /\ session \in Statuses /\ reply \in Statuses
    /\ begun \in Runs
    /\ feed \in Seq(Events)
    /\ missed \in BOOLEAN

ChartTypes ==
    /\ values \in Seq(Runs)
    /\ series \in Seq(Runs)
    /\ current \in Runs

-----------------------------------------------------------------------------
IsStatus(e) == e.name = "status"

(* A page that shows s, and missed a status event or not (m), is known to  *)
(* show v once it has handled the events of q before the i-th.             *)
Shows(q, s, m, i, v) ==
    \/ \E k \in 1..(i - 1) : /\ IsStatus(q[k]) /\ q[k].status = v
                             /\ \A j \in (k + 1)..(i - 1) : ~IsStatus(q[j])
    \/ ~m /\ v = s /\ \A j \in 1..(i - 1) : ~IsStatus(q[j])

(* What the server publishes while its status is v.                        *)
Fits(e, v) ==
    /\ e.name = "measurement" => v.state = "running" /\ e.run = v.run
    /\ e.name = "nic_temp" /\ v.state = "running" => e.run = v.run
    /\ IsStatus(e) /\ e.status.state = "running" => v.state # "running"

(* Each event meets the page in the status it was published in, and the    *)
(* last of them leaves it in the present one, now.                         *)
InOrder(q, s, m) ==
    \A i \in 1..Len(q) : \A v \in Statuses : Shows(q, s, m, i, v) => Fits(q[i], v)

LeavesIn(q, s, m, now) ==
    \A v \in Statuses : Shows(q, s, m, Len(q) + 1, v) => v = now

(* Before it is subscribed nothing is under way to the page, and of the    *)
(* answer of its GET it may know that it is no longer true.                *)
Subscribed ==
    /\ link \in {"none", "connecting", "open"}
    /\ link # "open" => feed = <<>>
    /\ link = "none" => mount \in {"loading", "answered"} /\ session = Idle
    /\ mount \in {"loading", "answered"} => link = "none"
    /\ mount = "answered" /\ ~missed => reply = status

FeedInv ==
    /\ PageTypes
    /\ Subscribed
    /\ InOrder(feed, session, missed)
    /\ link # "none" => LeavesIn(feed, session, missed, status)

ChartInv ==
    /\ ChartTypes
    /\ prevState = session.state
    /\ ChartsShowTheRun

-----------------------------------------------------------------------------
(* What remains of q without its first x events reads as q did, for a page *)
(* that is in the status q had brought it to there.                        *)
LEMMA SuffixFits ==
  ASSUME NEW q, NEW r, NEW x \in Nat, Len(q) \in Nat, Len(r) \in Nat,
         Len(q) = Len(r) + x, \A j \in 1..Len(r) : r[j] = q[x + j],
         NEW s, NEW m, NEW s2, NEW m2, NEW now,
         ~m2 => Shows(q, s, m, x + 1, s2),
         InOrder(q, s, m), LeavesIn(q, s, m, now)
  PROVE  InOrder(r, s2, m2) /\ LeavesIn(r, s2, m2, now)
<1>1. ASSUME NEW i \in 1..(Len(r) + 1), NEW v, Shows(r, s2, m2, i, v)
      PROVE  Shows(q, s, m, x + i, v)
  <2>0. \A j \in 1..(i - 1) : r[j] = q[x + j]
    OBVIOUS
  <2>1. CASE \E k \in 1..(i - 1) :
               /\ IsStatus(r[k]) /\ r[k].status = v
               /\ \A j \in (k + 1)..(i - 1) : ~IsStatus(r[j])
    <3>1. PICK k \in 1..(i - 1) :
               /\ IsStatus(r[k]) /\ r[k].status = v
               /\ \A j \in (k + 1)..(i - 1) : ~IsStatus(r[j])
      BY <2>1
    <3> DEFINE n == x + k
    <3>2. n \in 1..(x + i - 1) /\ q[n] = r[k]
      BY <2>0
    <3>3. \A j \in (n + 1)..(x + i - 1) : ~IsStatus(q[j])
      <4> SUFFICES ASSUME NEW j \in (n + 1)..(x + i - 1)
                   PROVE  ~IsStatus(q[j])
        OBVIOUS
      <4>1. j - x \in (k + 1)..(i - 1) /\ j - x \in 1..(i - 1)
            /\ x + (j - x) = j
        OBVIOUS
      <4>2. r[j - x] = q[j]
        BY <4>1, <2>0
      <4> QED
        BY <3>1, <4>1, <4>2
    <3> HIDE DEF n
    <3>4. IsStatus(q[n]) /\ q[n].status = v
      BY <3>1, <3>2
    <3> DEFINE e == x + i
    <3>5. n \in 1..(e - 1) /\ \A j \in (n + 1)..(e - 1) : ~IsStatus(q[j])
      BY <3>2, <3>3
    <3> HIDE DEF e
    <3>6. Shows(q, s, m, e, v)
      BY <3>4, <3>5 DEF Shows
    <3> QED
      BY <3>6 DEF e
  <2>2. CASE /\ ~m2 /\ v = s2
             /\ \A j \in 1..(i - 1) : ~IsStatus(r[j])
    <3>1. \A j \in (x + 1)..(x + i - 1) : ~IsStatus(q[j])
      <4> SUFFICES ASSUME NEW j \in (x + 1)..(x + i - 1)
                   PROVE  ~IsStatus(q[j])
        OBVIOUS
      <4>1. j - x \in 1..(i - 1) /\ x + (j - x) = j
        OBVIOUS
      <4> QED
        BY <2>0, <2>2, <4>1
    <3>2. Shows(q, s, m, x + 1, v)
      BY <2>2
    <3>3. CASE \E k \in 1..(x + 1 - 1) :
                 /\ IsStatus(q[k]) /\ q[k].status = v
                 /\ \A j \in (k + 1)..(x + 1 - 1) : ~IsStatus(q[j])
      <4>1. PICK k \in 1..x :
                 /\ IsStatus(q[k]) /\ q[k].status = v
                 /\ \A j \in (k + 1)..x : ~IsStatus(q[j])
        BY <3>3
      <4> DEFINE e == x + i
      <4>2. k \in 1..(e - 1)
        OBVIOUS
      <4>3. \A j \in (k + 1)..(e - 1) : ~IsStatus(q[j])
        BY <3>1, <4>1
      <4> HIDE DEF e
      <4>4. Shows(q, s, m, e, v)
        BY <4>1, <4>2, <4>3 DEF Shows
      <4> QED
        BY <4>4 DEF e
    <3>4. CASE ~m /\ v = s /\ \A j \in 1..(x + 1 - 1) : ~IsStatus(q[j])
      <4> DEFINE e == x + i
      <4>1. \A j \in 1..(e - 1) : ~IsStatus(q[j])
        BY <3>1, <3>4
      <4> HIDE DEF e
      <4>2. Shows(q, s, m, e, v)
        BY <3>4, <4>1 DEF Shows
      <4> QED
        BY <4>2 DEF e
    <3> QED
      BY <3>2, <3>3, <3>4 DEF Shows
  <2> QED
    BY <1>1, <2>1, <2>2 DEF Shows
<1>2. InOrder(r, s2, m2)
  <2> SUFFICES ASSUME NEW i \in 1..Len(r), NEW v \in Statuses,
                      Shows(r, s2, m2, i, v)
               PROVE  Fits(r[i], v)
    BY DEF InOrder
  <2>1. Shows(q, s, m, x + i, v)
    BY <1>1
  <2>2. x + i \in 1..Len(q) /\ r[i] = q[x + i]
    OBVIOUS
  <2> QED
    BY <2>1, <2>2 DEF InOrder
<1>3. LeavesIn(r, s2, m2, now)
  <2> SUFFICES ASSUME NEW v \in Statuses, Shows(r, s2, m2, Len(r) + 1, v)
               PROVE  v = now
    BY DEF LeavesIn
  <2>1. Shows(q, s, m, x + (Len(r) + 1), v)
    BY <1>1
  <2>2. x + (Len(r) + 1) = Len(q) + 1
    OBVIOUS
  <2> QED
    BY <2>1, <2>2 DEF LeavesIn
<1> QED
  BY <1>2, <1>3

(* An event that fits the present status, appended.                        *)
LEMMA AppendFits ==
  ASSUME NEW q \in Seq(Events), NEW e \in Events, NEW s, NEW m, NEW now,
         InOrder(q, s, m), LeavesIn(q, s, m, now), Fits(e, now)
  PROVE  /\ Append(q, e) \in Seq(Events)
         /\ InOrder(Append(q, e), s, m)
         /\ LeavesIn(Append(q, e), s, m, IF IsStatus(e) THEN e.status ELSE now)
<1> DEFINE r == Append(q, e)
<1>1. /\ Len(q) \in Nat /\ r \in Seq(Events) /\ Len(r) = Len(q) + 1
      /\ r[Len(q) + 1] = e /\ \A i \in 1..Len(q) : r[i] = q[i]
  BY AppendProperties
<1> HIDE DEF r
<1>2. ASSUME NEW i \in 1..(Len(q) + 1), NEW v, Shows(r, s, m, i, v)
      PROVE  Shows(q, s, m, i, v)
  <2>1. \A j \in 1..(i - 1) : r[j] = q[j]
    BY <1>1
  <2> QED
    BY <1>2, <2>1 DEF Shows
<1>3. InOrder(r, s, m)
  <2> SUFFICES ASSUME NEW i \in 1..(Len(q) + 1), NEW v \in Statuses,
                      Shows(r, s, m, i, v)
               PROVE  Fits(r[i], v)
    BY <1>1 DEF InOrder
  <2>1. Shows(q, s, m, i, v)
    BY <1>2
  <2>2. CASE i = Len(q) + 1
    BY <1>1, <2>1, <2>2 DEF LeavesIn
  <2>3. CASE i # Len(q) + 1
    <3>1. i \in 1..Len(q)
      BY <1>1, <2>3
    <3> QED
      BY <1>1, <2>1, <3>1 DEF InOrder
  <2> QED
    BY <2>2, <2>3
<1>4. LeavesIn(r, s, m, IF IsStatus(e) THEN e.status ELSE now)
  <2> SUFFICES ASSUME NEW v \in Statuses, Shows(r, s, m, Len(q) + 2, v)
               PROVE  v = IF IsStatus(e) THEN e.status ELSE now
    BY <1>1 DEF LeavesIn
  <2>1. CASE IsStatus(e)
    BY <1>1, <2>1 DEF Shows
  <2>2. CASE ~IsStatus(e)
    <3>1. Shows(r, s, m, Len(q) + 1, v)
      BY <1>1, <2>2 DEF Shows
    <3> QED
      BY <1>1, <1>2, <2>2, <3>1 DEF LeavesIn
  <2> QED
    BY <2>1, <2>2
<1> QED
  BY <1>1, <1>3, <1>4 DEF r

(* A full queue drops its oldest events, and the page that lost a status   *)
(* with them no longer counts as one that knows it.                        *)
LEMMA PublishFits ==
  ASSUME NEW events \in Seq(Events), NEW now, feed \in Seq(Events),
         missed \in BOOLEAN, link = "open", Publish(events),
         InOrder(feed \o events, session, missed),
         LeavesIn(feed \o events, session, missed, now)
  PROVE  /\ feed' \in Seq(Events) /\ missed' \in BOOLEAN
         /\ InOrder(feed', session, missed')
         /\ LeavesIn(feed', session, missed', now)
<1> DEFINE all == feed \o events
           x == IF Len(all) > QUEUE_MAX THEN Len(all) - QUEUE_MAX ELSE 0
           r == SubSeq(all, x + 1, Len(all))
           lost == SubSeq(all, 1, x)
<1>1. all \in Seq(Events) /\ Len(all) \in Nat
  BY ConcatProperties, LenProperties
<1>2. feed' = r /\ missed' = (missed \/ StatusIn(lost))
  BY DEF Publish
<1>3. x \in Nat /\ x <= Len(all)
  BY <1>1, BoundsAssumption
<1> HIDE DEF x, all
<1>4. \A i \in 1..Len(all) : all[i] \in Events
  BY <1>1, ElementOfSeq
<1>5. /\ r \in Seq(Events) /\ Len(r) \in Nat /\ Len(all) = Len(r) + x
      /\ \A j \in 1..Len(r) : r[j] = all[x + j]
  <2> DEFINE a == x + 1
  <2>1. a \in Int /\ Len(all) \in Int
    BY <1>1, <1>3
  <2>2. \A i \in a..Len(all) : all[i] \in Events
    BY <1>1, <1>3, <1>4
  <2> HIDE DEF a
  <2>3. /\ SubSeq(all, a, Len(all)) \in Seq(Events)
        /\ Len(SubSeq(all, a, Len(all))) =
              IF a <= Len(all) THEN Len(all) - a + 1 ELSE 0
        /\ \A i \in 1..(Len(all) - a + 1) :
              SubSeq(all, a, Len(all))[i] = all[a + i - 1]
    BY <2>1, <2>2, SubSeqProperties
  <2>4. r = SubSeq(all, a, Len(all)) /\ a = x + 1
    BY DEF a
  <2>5. /\ r \in Seq(Events)
        /\ Len(r) = IF a <= Len(all) THEN Len(all) - a + 1 ELSE 0
        /\ \A i \in 1..(Len(all) - a + 1) : r[i] = all[a + i - 1]
    BY <2>3, <2>4
  <2> HIDE DEF r
  <2>6. Len(r) = Len(all) - x
    BY <2>4, <2>5, <1>1, <1>3
  <2>7. \A j \in 1..Len(r) : a + j - 1 = x + j
    BY <2>4, <1>3, <2>6, <1>1
  <2> QED
    BY <2>4, <2>5, <2>6, <2>7, <1>1, <1>3
<1>6. ~missed' => /\ ~missed
                  /\ \A j \in 1..x : ~IsStatus(all[j])
  <2>1. \A i \in 1..x : all[i] \in Events
    BY <1>1, <1>3, <1>4
  <2>2. /\ Len(lost) = IF 1 <= x THEN x - 1 + 1 ELSE 0
        /\ \A i \in 1..(x - 1 + 1) : lost[i] = all[1 + i - 1]
    BY <1>3, <2>1, SubSeqProperties
  <2> HIDE DEF lost
  <2>3. Len(lost) = x /\ \A i \in 1..x : lost[i] = all[i]
    BY <1>3, <2>2
  <2> QED
    BY <1>2, <2>3 DEF StatusIn, IsStatus
<1>7. ~missed' => Shows(all, session, missed, x + 1, session)
  BY <1>3, <1>6 DEF Shows
<1> HIDE DEF r, lost
<1>8. InOrder(all, session, missed) /\ LeavesIn(all, session, missed, now)
  BY DEF all
<1>9. InOrder(r, session, missed') /\ LeavesIn(r, session, missed', now)
  BY <1>1, <1>3, <1>5, <1>7, <1>8, SuffixFits
<1> QED
  BY <1>2, <1>5, <1>9

(* One or two events at the end of a feed.                                 *)
LEMMA ConcatIsAppend ==
  ASSUME NEW q \in Seq(Events), NEW a \in Events, NEW b \in Events
  PROVE  /\ <<a>> \in Seq(Events) /\ <<a, b>> \in Seq(Events)
         /\ q \o <<a>> = Append(q, a)
         /\ q \o <<a, b>> = Append(Append(q, a), b)
<1>1. <<a>> \in Seq(Events) /\ <<b>> \in Seq(Events) /\ <<a, b>> \in Seq(Events)
  <2>1. <<a>> \in Seq(Events) /\ <<b>> \in Seq(Events)
    OBVIOUS
  <2>2. <<a, b>> \in Seq(Events)
    OBVIOUS
  <2> QED
    BY <2>1, <2>2
<1>2. q \o <<a>> = Append(q, a) /\ Append(q, a) \in Seq(Events)
  BY AppendIsConcat, AppendProperties
<1>3. Append(Append(q, a), b) = (q \o <<a>>) \o <<b>>
  BY <1>2, AppendIsConcat
<1>4. (q \o <<a>>) \o <<b>> = q \o (<<a>> \o <<b>>)
  BY <1>1, ConcatAssociative
<1>5. <<a>> \o <<b>> = <<a, b>>
  <2> DEFINE t == <<a>> \o <<b>>
             u == <<a, b>>
  <2>1. /\ t \in Seq(Events) /\ Len(t) = 2
        /\ \A k \in 1..2 : t[k] = IF k <= 1 THEN <<a>>[k] ELSE <<b>>[k - 1]
    BY <1>1, ConcatProperties
  <2>2. u \in Seq(Events) /\ Len(u) = 2 /\ u[1] = a /\ u[2] = b
    BY <1>1
  <2>3. t[1] = a /\ t[2] = b
    BY <2>1
  <2>4. \A k \in 1..2 : k = 1 \/ k = 2
    OBVIOUS
  <2> HIDE DEF t, u
  <2>5. t = u
    BY <2>1, <2>2, <2>3, <2>4, SeqEqual
  <2> QED
    BY <2>5 DEF t, u
<1> QED
  BY <1>1, <1>2, <1>3, <1>4, <1>5

(* The kinds of events that reach the page.                                *)
LEMMA EventKinds ==
  /\ \A v \in Statuses : StatusEvent(v) \in Events /\ IsStatus(StatusEvent(v))
                         /\ StatusEvent(v).status = v
                         /\ StatusEvent(v).name = "status"
  /\ [name |-> "error"] \in Events /\ ~IsStatus([name |-> "error"])
  /\ \A v : Fits([name |-> "error"], v)
  /\ \A e \in Events : IsStatus(e) => e.status \in Statuses
  /\ \A e \in Events :
        e.name \in {"measurement", "nic_temp"} => e.run \in Runs
<1>1. \A v \in Statuses : /\ StatusEvent(v) \in Events
                          /\ IsStatus(StatusEvent(v))
                          /\ StatusEvent(v).status = v
                          /\ StatusEvent(v).name = "status"
  BY DEF Events, StatusEvent, IsStatus
<1>2. [name |-> "error"] \in Events /\ ~IsStatus([name |-> "error"])
  BY DEF Events, IsStatus
<1>3. \A v : Fits([name |-> "error"], v)
  BY DEF Fits, IsStatus
<1>4. \A e \in Events : IsStatus(e) => e.status \in Statuses
  BY DEF Events, StatusEvent, IsStatus
<1>5. \A e \in Events :
        e.name \in {"measurement", "nic_temp"} => e.run \in Runs
  BY DEF Events, StatusEvent
<1> QED
  BY <1>1, <1>2, <1>3, <1>4, <1>5

(* A page that is not subscribed, but has sent its GET, knows no more.     *)
LEMMA NotSubscribed ==
  \A s, now : InOrder(<<>>, s, TRUE) /\ LeavesIn(<<>>, s, TRUE, now)
BY DEF InOrder, LeavesIn, Shows

LEMMA NothingUnderWay ==
  ASSUME NEW s, NEW m
  PROVE  /\ <<>> \in Seq(Events)
         /\ InOrder(<<>>, s, m)
         /\ \A now : (~m => s = now) => LeavesIn(<<>>, s, m, now)
BY DEF InOrder, LeavesIn, Shows

(* A change of the status keeps the invariant if its news are published:   *)
(* "running" may only follow another status, which no page shows a run in. *)
LEMMA NewsKeeps ==
  ASSUME FeedInv, status' \in Statuses, Publish(News(status')),
         status'.state = "running" => status.state # "running",
         begun' \in Runs, UNCHANGED <<link, mount, reply, session>>
  PROVE  FeedInv'
<1> DEFINE a == StatusEvent(status')
           b == [name |-> "error"]
<1>1. /\ a \in Events /\ b \in Events /\ IsStatus(a) /\ ~IsStatus(b)
      /\ a.status = status' /\ a.name = "status" /\ \A v : Fits(b, v)
  BY EventKinds
<1>2. News(status') = <<a>> \/ News(status') = <<a, b>>
  BY DEF News
<1>3. Fits(a, status)
  BY <1>1 DEF Fits, IsStatus
<1> HIDE DEF a, b
<1>4. News(status') \in Seq(Events) /\ StatusIn(News(status'))
  <2>1. <<a>> \in Seq(Events) /\ <<a, b>> \in Seq(Events)
    BY <1>1, ConcatIsAppend DEF FeedInv, PageTypes
  <2>2. StatusIn(<<a>>) /\ StatusIn(<<a, b>>)
    BY <1>1 DEF StatusIn
  <2> QED
    BY <1>2, <2>1, <2>2
<1>5. PageTypes' /\ Subscribed' /\ InOrder(feed', session', missed')
      /\ (link' # "none" => LeavesIn(feed', session', missed', status'))
  <2>1. CASE link = "open"
    <3>1. InOrder(feed, session, missed) /\ LeavesIn(feed, session, missed, status)
      BY <2>1 DEF FeedInv
    <3>2. feed \in Seq(Events) /\ missed \in BOOLEAN
      BY DEF FeedInv, PageTypes
    <3> DEFINE f1 == Append(feed, a)
               f2 == Append(f1, b)
    <3>3. /\ f1 \in Seq(Events) /\ InOrder(f1, session, missed)
          /\ LeavesIn(f1, session, missed, status')
      BY <1>1, <1>3, <3>1, <3>2, AppendFits
    <3> HIDE DEF f1
    <3>4. /\ InOrder(f2, session, missed)
          /\ LeavesIn(f2, session, missed, status')
      BY <1>1, <3>3, AppendFits
    <3>5. feed \o <<a>> = f1 /\ feed \o <<a, b>> = f2
      BY <1>1, <3>2, ConcatIsAppend DEF f1
    <3> HIDE DEF f2
    <3>6. /\ InOrder(feed \o News(status'), session, missed)
          /\ LeavesIn(feed \o News(status'), session, missed, status')
      BY <1>2, <3>3, <3>4, <3>5
    <3>7. /\ feed' \in Seq(Events) /\ missed' \in BOOLEAN
          /\ InOrder(feed', session, missed')
          /\ LeavesIn(feed', session, missed', status')
      BY <1>4, <2>1, <3>2, <3>6, PublishFits
    <3> QED
      BY <2>1, <3>7 DEF FeedInv, PageTypes, Subscribed
  <2>2. CASE link # "open"
    <3>1. /\ feed' = feed /\ feed = <<>>
          /\ missed' = (missed \/ mount # "loading")
      BY <2>2, <1>4 DEF Publish, FeedInv, Subscribed
    <3>2. InOrder(feed', session, missed')
      BY <3>1, NothingUnderWay
    <3>3. link # "none" => missed'
      BY <2>2, <3>1 DEF FeedInv, Subscribed
    <3>4. link # "none" => LeavesIn(feed', session, missed', status')
      BY <3>1, <3>3, NotSubscribed
    <3> QED
      BY <2>2, <3>1, <3>2, <3>4 DEF FeedInv, PageTypes, Subscribed
  <2> QED
    BY <2>1, <2>2
<1> QED
  BY <1>5 DEF FeedInv

(* So does an event that is no change of the status and fits it.           *)
LEMMA NoteKeeps ==
  ASSUME FeedInv, NEW e \in Events, ~IsStatus(e), Fits(e, status),
         Publish(<<e>>),
         UNCHANGED <<status, begun, link, mount, reply, session>>
  PROVE  FeedInv'
<1>1. <<e>> \in Seq(Events) /\ ~StatusIn(<<e>>)
  BY DEF StatusIn, IsStatus
<1>2. feed \in Seq(Events) /\ missed \in BOOLEAN
  BY DEF FeedInv, PageTypes
<1>3. CASE link = "open"
  <2>1. InOrder(feed, session, missed) /\ LeavesIn(feed, session, missed, status)
    BY <1>3 DEF FeedInv
  <2>2. feed \o <<e>> = Append(feed, e)
    BY <1>2, ConcatIsAppend
  <2>3. /\ InOrder(feed \o <<e>>, session, missed)
        /\ LeavesIn(feed \o <<e>>, session, missed, status)
    BY <1>2, <2>1, <2>2, AppendFits
  <2>4. /\ feed' \in Seq(Events) /\ missed' \in BOOLEAN
        /\ InOrder(feed', session, missed')
        /\ LeavesIn(feed', session, missed', status)
    BY <1>1, <1>2, <1>3, <2>3, PublishFits
  <2> QED
    BY <1>3, <2>4 DEF FeedInv, PageTypes, Subscribed
<1>4. CASE link # "open"
  <2>1. feed' = feed /\ missed' = missed
    BY <1>1, <1>2, <1>4 DEF Publish
  <2> QED
    BY <1>4, <2>1 DEF FeedInv, PageTypes, Subscribed
<1> QED
  BY <1>3, <1>4

-----------------------------------------------------------------------------
LEMMA FeedInit == Init => FeedInv
<1> SUFFICES ASSUME Init PROVE FeedInv
  OBVIOUS
<1>1. Idle \in Statuses /\ 0 \in Runs
  BY BoundsAssumption DEF Idle, Statuses, Runs
<1>2. PageTypes
  BY <1>1, NothingUnderWay DEF Init, ViewInit, PageTypes
<1>3. Subscribed
  BY DEF Init, Subscribed
<1>4. InOrder(feed, session, missed)
  BY NothingUnderWay DEF Init
<1> QED
  BY <1>2, <1>3, <1>4 DEF Init, FeedInv

LEMMA StartKeeps ==
  ASSUME FeedInv, AcceptStart, UNCHANGED <<link, mount, reply, session>>
  PROVE  FeedInv'
<1>1. /\ begun \in Runs /\ begun < MaxRuns /\ begun' = begun + 1
      /\ Begins(begun + 1) /\ Publish(News(status'))
  BY DEF AcceptStart, FeedInv, PageTypes
<1>2. begun + 1 \in Runs
  BY <1>1, BoundsAssumption DEF Runs
<1>3. status' \in Statuses /\ status'.state = "connecting"
  BY <1>1, <1>2 DEF Begins, Statuses
<1> QED
  BY <1>1, <1>2, <1>3, NewsKeeps

LEMMA StopKeeps ==
  ASSUME FeedInv, Rests, Publish(News(status')), begun' = begun,
         UNCHANGED <<link, mount, reply, session>>
  PROVE  FeedInv'
<1>1. status' \in Statuses /\ status'.state = "idle"
  BY BoundsAssumption DEF Rests, Idle, Statuses, Runs
<1> QED
  BY <1>1, NewsKeeps DEF FeedInv, PageTypes

(* What the server does keeps every page informed, or marked,              *)
LEMMA ServerKeeps == FeedInv /\ ServerStep => FeedInv'
<1> SUFFICES ASSUME FeedInv, ServerStep PROVE FeedInv'
  OBVIOUS
<1>s. /\ status \in Statuses /\ begun \in Runs
      /\ status.run \in Runs /\ 0 \in Runs
  BY BoundsAssumption DEF FeedInv, PageTypes, Statuses, Runs
<1>1. CASE OtherPageStarts
  BY <1>1, StartKeeps DEF OtherPageStarts, page
<1>2. CASE SessionMoves
  <2>1. UNCHANGED <<begun, link, mount, reply, session>>
    BY <1>2 DEF SessionMoves, page
  <2>2. CASE (GetsGoing \/ Fails) /\ Publish(News(status'))
    <3>1. /\ status' \in Statuses
          /\ status'.state = "running" => status.state # "running"
      BY <1>s, <2>2 DEF GetsGoing, Fails, Statuses
    <3> QED
      BY <1>s, <2>1, <2>2, <3>1, NewsKeeps
  <2>3. CASE Rests /\ Publish(News(status'))
    BY <2>1, <2>3, StopKeeps
  <2>4. CASE Measures /\ Publish(Measurement(status))
    <3> DEFINE e == [name |-> "measurement", run |-> status.run]
    <3>1. e \in Events /\ ~IsStatus(e) /\ Fits(e, status)
      BY <1>s, <2>4 DEF Events, IsStatus, Fits, Measures
    <3>2. Publish(<<e>>) /\ status' = status
      BY <2>4 DEF Measurement, Measures
    <3> HIDE DEF e
    <3> QED
      BY <2>1, <3>1, <3>2, NoteKeeps
  <2> QED
    BY <1>2, <2>2, <2>3, <2>4 DEF SessionMoves
<1>3. CASE PublishTemp
  <2> DEFINE e == [name |-> "nic_temp",
                   run |-> IF status.state = "running" THEN status.run ELSE 0]
  <2>1. e \in Events /\ ~IsStatus(e) /\ Fits(e, status)
    BY <1>s DEF Events, IsStatus, Fits
  <2>2. Publish(<<e>>) /\ UNCHANGED <<status, begun, link, mount, reply, session>>
    BY <1>3 DEF PublishTemp, server, page
  <2> HIDE DEF e
  <2> QED
    BY <2>1, <2>2, NoteKeeps
<1>4. CASE Break
  <2>1. /\ link = "open" /\ link' = "connecting" /\ feed' = <<>>
        /\ UNCHANGED <<begun, mount, reply, session>>
        /\ status' = status \/ status' = Idle
        /\ missed' \in BOOLEAN
        /\ ~missed' => ~missed /\ ~StatusIn(feed) /\ status' = status
    BY <1>4 DEF Break, page, FeedInv, PageTypes
  <2>2. ~missed' => session = status'
    <3> SUFFICES ASSUME ~missed' PROVE session = status
      BY <2>1
    <3>1. Len(feed) \in Nat /\ session \in Statuses
      BY LenProperties DEF FeedInv, PageTypes
    <3>2. Shows(feed, session, missed, Len(feed) + 1, session)
      BY <2>1, <3>1 DEF Shows, StatusIn, IsStatus
    <3> QED
      BY <2>1, <3>1, <3>2 DEF FeedInv, LeavesIn
  <2>3. status' \in Statuses
    BY <1>s, <2>1 DEF Idle, Statuses
  <2>4. PageTypes'
    BY <2>1, <2>3, NothingUnderWay DEF FeedInv, PageTypes
  <2>5. Subscribed'
    BY <2>1 DEF FeedInv, Subscribed
  <2>6. InOrder(feed', session', missed') /\ LeavesIn(feed', session', missed', status')
    BY <2>1, <2>2, NothingUnderWay
  <2> QED
    BY <2>4, <2>5, <2>6 DEF FeedInv
<1> QED
  BY <1>1, <1>2, <1>3, <1>4 DEF ServerStep

(* What a handler takes from the feed, it shows.                           *)
LEMMA TakeKeeps ==
  ASSUME FeedInv, feed # <<>>, feed' = Tail(feed),
         UNCHANGED <<status, begun, link, mount, reply>>,
         missed' \in BOOLEAN,
         \/ ~IsStatus(Head(feed)) /\ session' = session /\ missed' = missed
         \/ IsStatus(Head(feed)) /\ session' = Head(feed).status
  PROVE  FeedInv'
<1> DEFINE r == Tail(feed)
<1>1. /\ feed \in Seq(Events) /\ Len(feed) \in Nat
      /\ r \in Seq(Events) /\ Len(r) \in Nat /\ Len(feed) = Len(r) + 1
      /\ \A j \in 1..Len(r) : r[j] = feed[1 + j]
  <2>1. feed \in Seq(Events)
    BY DEF FeedInv, PageTypes
  <2> QED
    BY <2>1, HeadTailProperties, LenProperties
<1>2. Head(feed) = feed[1] /\ Head(feed) \in Events
  BY <1>1, HeadTailProperties
<1>3. link = "open"
  BY DEF FeedInv, Subscribed
<1> HIDE DEF r
<1>4. ~missed' => Shows(feed, session, missed, 1 + 1, session')
  BY <1>2 DEF Shows
<1>5. InOrder(feed, session, missed) /\ LeavesIn(feed, session, missed, status)
  BY <1>3 DEF FeedInv
<1>6. InOrder(r, session', missed') /\ LeavesIn(r, session', missed', status)
  BY <1>1, <1>4, <1>5, SuffixFits
<1>7. session' \in Statuses
  BY <1>2, EventKinds DEF FeedInv, PageTypes
<1>8. PageTypes' /\ Subscribed'
  BY <1>1, <1>3, <1>7 DEF FeedInv, PageTypes, Subscribed, r
<1> QED
  BY <1>6, <1>8 DEF FeedInv, r

(* and what the page does, too.                                            *)
LEMMA PageKeeps == FeedInv /\ PageStep => FeedInv'
<1> SUFFICES ASSUME FeedInv, PageStep PROVE FeedInv'
  OBVIOUS
<1>1. CASE AnswerStatus
  BY <1>1
  DEF AnswerStatus, FeedInv, PageTypes, Subscribed, server, page
<1>2. CASE StatusFails
  <2>1. /\ feed' = <<>> /\ feed' = feed /\ missed' = TRUE
        /\ UNCHANGED <<status, begun, session, reply>>
        /\ link' = "connecting" /\ mount' = "failed"
    BY <1>2 DEF StatusFails, FeedInv, Subscribed, server, page
  <2>2. PageTypes' /\ Subscribed'
    BY <2>1 DEF FeedInv, PageTypes, Subscribed
  <2>3. InOrder(feed', session', missed') /\ LeavesIn(feed', session', missed', status')
    BY <2>1, NotSubscribed
  <2> QED
    BY <2>2, <2>3 DEF FeedInv
<1>3. CASE Mounted
  <2>1. /\ feed' = <<>> /\ feed' = feed /\ missed' = missed
        /\ UNCHANGED <<status, begun, reply>> /\ session' = reply
        /\ link' = "connecting" /\ mount' = "over"
        /\ ~missed => reply = status
    BY <1>3 DEF Mounted, Update, FeedInv, Subscribed, server
  <2>2. PageTypes' /\ Subscribed'
    BY <2>1 DEF FeedInv, PageTypes, Subscribed
  <2>3. InOrder(feed', session', missed') /\ LeavesIn(feed', session', missed', status')
    BY <2>1, NothingUnderWay
  <2> QED
    BY <2>2, <2>3 DEF FeedInv
<1>4. CASE Subscribe
  BY <1>4 DEF Subscribe, FeedInv, PageTypes, Subscribed, server, page
<1>5. CASE HandleEvent
  <2>1. feed \in Seq(Events) /\ missed \in BOOLEAN
    BY DEF FeedInv, PageTypes
  <2>2. feed # <<>> => Head(feed) \in Events
    BY <2>1, HeadTailProperties
  <2>3. CASE OnStatus
    BY <2>1, <2>3, TakeKeeps DEF OnStatus, Take, Update, IsStatus, server
  <2>4. CASE OnMeasurement \/ OnNicTemp \/ OnError
    BY <2>1, <2>4, TakeKeeps
    DEF OnMeasurement, OnNicTemp, OnError, Take, IsStatus, server, page
  <2> QED
    BY <1>5, <2>3, <2>4 DEF HandleEvent
<1>6. CASE Press
  BY <1>6 DEF Press, FeedInv, PageTypes, Subscribed, server, page
<1>7. CASE HandleStart
  <2>1. CASE Busy(status)
    BY <1>7, <2>1 DEF HandleStart, FeedInv, PageTypes, Subscribed, server, page
  <2>2. CASE ~Busy(status)
    BY <1>7, <2>2, StartKeeps DEF HandleStart, page
  <2> QED
    BY <2>1, <2>2
<1>8. CASE HandleStop
  BY <1>8, StopKeeps DEF HandleStop, page
<1> QED
  BY <1>1, <1>2, <1>3, <1>4, <1>5, <1>6, <1>7, <1>8 DEF PageStep

LEMMA FeedStep == FeedInv /\ [Next]_vars => FeedInv'
<1>1. FeedInv /\ UNCHANGED vars => FeedInv'
  BY DEF vars, server, page, FeedInv, PageTypes, Subscribed
<1> QED
  BY <1>1, ServerKeeps, PageKeeps DEF Next

LEMMA FeedAlways == Spec => []FeedInv
BY FeedInit, FeedStep, PTL DEF Spec

-----------------------------------------------------------------------------
(* Every set of numbers has a least one ...                                *)
LEMMA NatMin ==
  ASSUME NEW D \in SUBSET Nat, D # {}
  PROVE  \E d \in D : \A x \in D : d <= x
<1> DEFINE R == {ss \in Nat \X Nat : ss[1] < ss[2]}
<1>1. IsWellFoundedOn(R, Nat)
  BY NatLessThanWellFounded DEF OpToRel
<1>2. \A x, y \in Nat : y < x => <<y, x>> \in R
  OBVIOUS
<1> HIDE DEF R
<1>3. PICK d \in D : \A x \in D : ~(<<x, d>> \in R)
  BY <1>1, WFMin
<1>4. ASSUME NEW x \in D PROVE d <= x
  <2>1. ~(x < d)
    BY <1>2, <1>3
  <2> QED
    BY <2>1
<1> QED
  BY <1>4

(* ... so a feed with a status event in it has a last one.                 *)
LEMMA LastStatus ==
  ASSUME NEW q, Len(q) \in Nat, NEW i \in 1..Len(q), IsStatus(q[i])
  PROVE  \E k \in 1..Len(q) : /\ IsStatus(q[k])
                             /\ \A j \in (k + 1)..Len(q) : ~IsStatus(q[j])
<1> DEFINE n == Len(q)
           D == {d \in Nat : n - d \in 1..n /\ IsStatus(q[n - d])}
<1>1. n - i \in D
  <2>1. n - (n - i) = i /\ n - i \in Nat
    OBVIOUS
  <2> QED
    BY <2>1
<1>2. PICK d \in D : \A x \in D : d <= x
  BY <1>1, NatMin
<1>3. ASSUME NEW j \in (n - d + 1)..n PROVE ~IsStatus(q[j])
  <2>1. n - j \in Nat /\ n - (n - j) = j /\ j \in 1..n /\ ~(d <= n - j)
    BY <1>2
  <2> QED
    BY <1>2, <2>1
<1> DEFINE k == n - d
<1>4. k \in 1..n /\ IsStatus(q[k]) /\ \A j \in (k + 1)..n : ~IsStatus(q[j])
  BY <1>2, <1>3
<1> HIDE DEF k
<1> QED
  BY <1>4

(* What Upcoming chooses is what a page that knows its status will show.   *)
LEMMA UpcomingShows ==
  ASSUME FeedInv, ~missed
  PROVE  /\ Upcoming \in Statuses
         /\ Shows(feed, session, missed, Len(feed) + 1, Upcoming)
<1> DEFINE n == Len(feed)
           last == {i \in 1..n : /\ feed[i].name = "status"
                                 /\ \A j \in (i + 1)..n : feed[j].name # "status"}
           c == CHOOSE i \in last : TRUE
<1>1. feed \in Seq(Events) /\ n \in Nat /\ session \in Statuses
  BY LenProperties DEF FeedInv, PageTypes
<1>2. CASE last = {}
  <2>1. Upcoming = session
    BY <1>2 DEF Upcoming
  <2>2. \A i \in 1..n : ~IsStatus(feed[i])
    <3> SUFFICES ASSUME NEW i \in 1..n, IsStatus(feed[i]) PROVE FALSE
      OBVIOUS
    <3>1. PICK k \in 1..n : /\ IsStatus(feed[k])
                            /\ \A j \in (k + 1)..n : ~IsStatus(feed[j])
      BY <1>1, LastStatus
    <3>2. k \in last
      BY <3>1 DEF IsStatus
    <3> QED
      BY <1>2, <3>2
  <2> QED
    BY <1>1, <2>1, <2>2 DEF Shows
<1>3. CASE last # {}
  <2>1. Upcoming = feed[c].status /\ c \in last
    BY <1>3 DEF Upcoming
  <2> HIDE DEF c
  <2>2. /\ c \in 1..n /\ IsStatus(feed[c])
        /\ \A j \in (c + 1)..n : ~IsStatus(feed[j])
    BY <2>1 DEF IsStatus
  <2>3. feed[c] \in Events
    BY <1>1, <2>2, ElementOfSeq
  <2>4. Upcoming \in Statuses
    BY <2>1, <2>2, <2>3, EventKinds
  <2> QED
    BY <1>1, <2>1, <2>2, <2>4 DEF Shows
<1> QED
  BY <1>2, <1>3

(* A page that missed no status event shows, or is about to show, the      *)
(* status of the server, for every length of its queue and whatever else   *)
(* the full queue has dropped.                                             *)
THEOREM PageFollowsServer == Spec => []PageFollows
<1>1. FeedInv => PageFollows
  <2> SUFFICES ASSUME FeedInv, link = "open", ~missed PROVE Upcoming = status
    BY DEF PageFollows
  <2>1. LeavesIn(feed, session, missed, status)
    BY DEF FeedInv
  <2> QED
    BY <2>1, UpcomingShows DEF LeavesIn
<1> QED
  BY <1>1, FeedAlways, PTL

-----------------------------------------------------------------------------
(* A point is pushed into a window of points of the same run.              *)
LEMMA PushKeepsRun ==
  ASSUME NEW points \in Seq(Runs), NEW p \in Runs
  PROVE  /\ Push(points, p) \in Seq(Runs)
         /\ (\A i \in 1..Len(points) : points[i] = p) =>
               \A i \in 1..Len(Push(points, p)) : Push(points, p)[i] = p
<1>1. CASE Len(points) < MAX_POINTS
  BY <1>1, AppendProperties DEF Push
<1>2. CASE ~(Len(points) < MAX_POINTS)
  <2>1. Push(points, p) = Append(Tail(points), p)
    BY <1>2 DEF Push
  <2>2. points # <<>>
    BY <1>2, BoundsAssumption, EmptySeq
  <2>3. /\ Tail(points) \in Seq(Runs) /\ Len(Tail(points)) = Len(points) - 1
        /\ \A i \in 1..Len(Tail(points)) : Tail(points)[i] = points[i + 1]
    BY <2>2, HeadTailProperties
  <2>4. Len(points) \in Nat /\ Len(Tail(points)) \in Nat
    BY <2>3, LenProperties
  <2>5. (\A i \in 1..Len(points) : points[i] = p) =>
           \A i \in 1..Len(Tail(points)) : Tail(points)[i] = p
    BY <2>3, <2>4
  <2> DEFINE t == Tail(points)
  <2> HIDE DEF t
  <2>6. /\ Append(t, p) \in Seq(Runs) /\ Len(Append(t, p)) = Len(t) + 1
        /\ Append(t, p)[Len(t) + 1] = p
        /\ \A i \in 1..Len(t) : Append(t, p)[i] = t[i]
    BY <2>3, AppendProperties DEF t
  <2>7. (\A i \in 1..Len(t) : t[i] = p) =>
           \A i \in 1..Len(Append(t, p)) : Append(t, p)[i] = p
    BY <2>4, <2>6 DEF t
  <2> QED
    BY <2>1, <2>5, <2>6, <2>7 DEF t
<1> QED
  BY <1>1, <1>2

LEMMA ChartInit == Init => ChartInv
BY BoundsAssumption
DEF Init, ViewInit, Idle, ChartInv, ChartTypes, ChartsShowTheRun, Runs

(* At the head of a feed is what fits the status the page shows.           *)
LEMMA HeadFits ==
  ASSUME FeedInv, feed # <<>>
  PROVE  /\ Head(feed) \in Events /\ session \in Statuses
         /\ ~missed => Fits(Head(feed), session)
<1>1. feed \in Seq(Events) /\ session \in Statuses /\ missed \in BOOLEAN
  BY DEF FeedInv, PageTypes
<1>2. Head(feed) = feed[1] /\ Len(feed) \in Nat /\ 1 \in 1..Len(feed)
  BY <1>1, EmptySeq
<1>3. ~missed => Shows(feed, session, missed, 1, session)
  BY DEF Shows
<1> QED
  BY <1>1, <1>2, <1>3, HeadTailProperties DEF FeedInv, InOrder

(* The charts are reset when the page begins to show a run ...             *)
LEMMA UpdateKeeps ==
  ASSUME ChartInv, NEW s, Update(s),
         ~missed' /\ s.state = "running" => session.state # "running"
  PROVE  ChartInv'
<1>1. /\ session' = s /\ prevState' = session'.state
      /\ prevState = session.state
  BY DEF Update, ChartInv
<1>2. CASE s.state = "running" /\ prevState # "running"
  <2>1. values' = <<>> /\ series' = <<>> /\ current' = 0
    BY <1>2 DEF Update, ResetCharts
  <2>2. values' \in Seq(Runs) /\ series' \in Seq(Runs) /\ current' \in Runs
        /\ Len(values') = 0 /\ Len(series') = 0
    BY <2>1, BoundsAssumption DEF Runs
  <2> QED
    BY <1>1, <2>1, <2>2 DEF ChartInv, ChartTypes, ChartsShowTheRun
<1>3. CASE ~(s.state = "running" /\ prevState # "running")
  <2>1. UNCHANGED <<values, current, series>>
    BY <1>3 DEF Update
  <2>2. ~missed' => session'.state # "running"
    BY <1>1, <1>3
  <2> QED
    BY <1>1, <2>1, <2>2 DEF ChartInv, ChartTypes, ChartsShowTheRun
<1> QED
  BY <1>2, <1>3

(* ... and a run is never shown right after another one.                   *)
LEMMA ChartsKeep == FeedInv /\ ChartInv /\ [Next]_vars => ChartInv'
<1> SUFFICES ASSUME FeedInv, ChartInv, [Next]_vars PROVE ChartInv'
  OBVIOUS
<1>1. CASE UNCHANGED page /\ (missed => missed')
  BY <1>1 DEF page, ChartInv, ChartTypes, ChartsShowTheRun
<1>2. CASE ServerStep
  <2>1. UNCHANGED page
    BY <1>2 DEF ServerStep, OtherPageStarts, SessionMoves, PublishTemp, Break
  <2>2. missed => missed'
    BY <1>2 DEF ServerStep, OtherPageStarts, SessionMoves, PublishTemp, Break,
                AcceptStart, Publish
  <2> QED
    BY <1>1, <2>1, <2>2
<1>3. CASE HandleStart \/ HandleStop
  <2>1. UNCHANGED page
    BY <1>3 DEF HandleStart, HandleStop
  <2>2. missed => missed'
    BY <1>3 DEF HandleStart, HandleStop, AcceptStart, Publish
  <2> QED
    BY <1>1, <2>1, <2>2
<1>4. CASE AnswerStatus \/ StatusFails \/ Subscribe \/ Press \/ OnError
           \/ UNCHANGED vars
  BY <1>1, <1>4
  DEF AnswerStatus, StatusFails, Subscribe, Press, OnError, vars, page
<1>5. CASE Mounted
  <2>1. session.state # "running" /\ prevState = session.state
    BY <1>5 DEF Mounted, FeedInv, Subscribed, Idle, ChartInv
  <2>2. Update(reply) /\ missed' = missed
    BY <1>5 DEF Mounted
  <2> QED
    BY <2>1, <2>2, UpdateKeeps
<1>6. CASE OnStatus
  <2>1. /\ feed # <<>> /\ IsStatus(Head(feed)) /\ Update(Head(feed).status)
        /\ missed' = (missed /\ Head(feed).status.state = "running")
    BY <1>6 DEF OnStatus, Take, IsStatus
  <2>2. ~missed /\ Head(feed).status.state = "running" =>
           session.state # "running"
    BY <2>1, HeadFits DEF Fits
  <2> DEFINE v == Head(feed).status
  <2>3. Update(v) /\ (~missed' /\ v.state = "running" =>
                        session.state # "running")
    BY <2>1, <2>2
  <2> HIDE DEF v
  <2> QED
    BY <2>3, UpdateKeeps
<1>7. CASE OnMeasurement
  <2> DEFINE p == Head(feed).run
  <2>1. /\ feed # <<>> /\ Head(feed).name = "measurement"
        /\ values' = Push(values, p) /\ current' = p
        /\ UNCHANGED <<session, prevState, series, missed>>
    BY <1>7 DEF OnMeasurement, Take
  <2>2. p \in Runs /\ (~missed => p = session.run)
    BY <2>1, HeadFits, EventKinds DEF Fits
  <2> HIDE DEF p
  <2>3. values \in Seq(Runs)
    BY DEF ChartInv, ChartTypes
  <2>4. /\ values' \in Seq(Runs)
        /\ (\A i \in 1..Len(values) : values[i] = p) =>
              \A i \in 1..Len(values') : values'[i] = p
    BY <2>1, <2>2, <2>3, PushKeepsRun
  <2> QED
    BY <2>1, <2>2, <2>4 DEF ChartInv, ChartTypes, ChartsShowTheRun
<1>8. CASE OnNicTemp
  <2> DEFINE p == Head(feed).run
  <2>1. /\ feed # <<>> /\ Head(feed).name = "nic_temp"
        /\ series' = IF session.state = "running" THEN Push(series, p) ELSE series
        /\ UNCHANGED <<session, prevState, values, current, missed>>
    BY <1>8 DEF OnNicTemp, Take
  <2>2. p \in Runs /\ (~missed /\ session.state = "running" => p = session.run)
    BY <2>1, HeadFits, EventKinds DEF Fits
  <2> HIDE DEF p
  <2>3. series \in Seq(Runs)
    BY DEF ChartInv, ChartTypes
  <2>4. /\ Push(series, p) \in Seq(Runs)
        /\ (\A i \in 1..Len(series) : series[i] = p) =>
              \A i \in 1..Len(Push(series, p)) : Push(series, p)[i] = p
    BY <2>2, <2>3, PushKeepsRun
  <2> QED
    BY <2>1, <2>2, <2>3, <2>4 DEF ChartInv, ChartTypes, ChartsShowTheRun
<1> QED
  BY <1>2, <1>3, <1>4, <1>5, <1>6, <1>7, <1>8
  DEF Next, PageStep, HandleEvent

(* While the page shows a run, its charts and its KPI cards show that run  *)
(* and no other, for every window and every length of the queue.           *)
THEOREM ChartsShowOneRun == Spec => []ChartsShowTheRun
<1>1. Spec => []ChartInv
  BY ChartInit, ChartsKeep, FeedAlways, PTL DEF Spec
<1>2. ChartInv => ChartsShowTheRun
  BY DEF ChartInv
<1> QED
  BY <1>1, <1>2, PTL
=============================================================================
