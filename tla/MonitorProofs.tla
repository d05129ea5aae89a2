---------------------------- MODULE MonitorProofs ----------------------------
(***************************************************************************)
(* What holds of a bandwidth session and of its surroundings.              *)
(*                                                                         *)
(* Of the session, for every queue size and every number of cancels: its   *)
(* meter never outlives it, a normal end has yielded every event and told  *)
(* everything it opened to end, a failed start leaves next to nothing, and *)
(* the session keeps the contract the measurement task relies on.  Of the  *)
(* session under the API, for every number of clients: all of that, and    *)
(* that an idle server has nothing running.                                *)
(***************************************************************************)
EXTENDS Monitor, TLAPS

-----------------------------------------------------------------------------
BeforeLoad == {"connecting", "starting_server", "settling", "starting_client"}

(* The part of the types the arguments below need.                         *)
CountsOK ==
    queue \in Nat /\ cancels \in Nat /\ exc \in {"none", "error", "cancelled"}

(* No exception is in flight while the generator makes progress, and the   *)
(* meter exists only from the streaming loop on.                           *)
NoExceptionYet ==
    /\ pc \in BeforeLoad => meter = "none" /\ exc = "none"
    /\ pc = "streaming" => exc = "none"

(* Where the generator waits while it unwinds, an exception is in flight.  *)
UnwindsWithCause == pc \in {"reaping", "stopping_meter"} => exc # "none"

(* The generator turns to its resources only after the meter is done.      *)
MeterFirst == pc \in {"cleaning", "ended"} => ~MeterLive

(* A cancel is never swallowed.                                            *)
CancelSticks == cancels > 0 => exc # "none"

(* On the normal way out the queue was emptied after the meter was done.   *)
FlushedFirst == pc \in {"cleaning", "ended"} /\ exc = "none" => queue = 0

SessionInv ==
    /\ CountsOK
    /\ NoExceptionYet
    /\ UnwindsWithCause
    /\ MeterFirst
    /\ CancelSticks
    /\ FlushedFirst

(* The invariant holds before the generator is asked for an event ...      *)
LEMMA SessionInit == Init => SessionInv
BY DEF Init, SessionInv, CountsOK, NoExceptionYet, UnwindsWithCause,
       MeterFirst, CancelSticks, FlushedFirst, BeforeLoad

(* Entering the finally block with an exception, or with an empty queue    *)
(* after a meter that is done, establishes what the invariant asks.        *)
LEMMA FinallyUnwinds ==
  ASSUME NEW e \in {"none", "error", "cancelled"}, NEW r0, Finally(e, r0),
         SessionInv, queue' \in Nat, cancels' \in Nat,
         cancels' > 0 => e # "none",
         e = "none" => ~MeterLive /\ queue' = 0
  PROVE  SessionInv'
<1>1. exc' = e
  BY DEF Finally
<1>2. CASE MeterLive
  <2>1. pc' = "stopping_meter" /\ e # "none"
    BY <1>2 DEF Finally
  <2> QED
    BY <1>1, <2>1 DEF SessionInv, CountsOK, NoExceptionYet, UnwindsWithCause,
                      MeterFirst, CancelSticks, FlushedFirst, BeforeLoad
<1>3. CASE ~MeterLive
  <2>1. pc' \in {"cleaning", "ended"} /\ meter' = meter
    BY <1>3 DEF Finally, Clean
  <2>2. ~MeterLive'
    BY <1>3, <2>1 DEF MeterLive
  <2> QED
    BY <1>1, <2>1, <2>2
    DEF SessionInv, CountsOK, NoExceptionYet, UnwindsWithCause, MeterFirst,
        CancelSticks, FlushedFirst, BeforeLoad
<1> QED
  BY <1>2, <1>3

(* ... and through the steps of the generator itself,                      *)
LEMMA GeneratorKeeps == SessionInv /\ GeneratorStep => SessionInv'
<1> SUFFICES ASSUME SessionInv, GeneratorStep PROVE SessionInv'
  OBVIOUS
<1> USE QueueAssumption
    DEF SessionInv, CountsOK, NoExceptionYet, UnwindsWithCause,
        MeterFirst, CancelSticks, FlushedFirst, BeforeLoad
<1>1. CASE Connected
  BY <1>1 DEF Connected
<1>2. CASE ConnectFailed
  <2>1. Finally("error", res) /\ queue' \in Nat /\ cancels' \in Nat
    BY <1>2 DEF ConnectFailed
  <2> QED
    BY <2>1, FinallyUnwinds
<1>3. CASE ServerStarted
  BY <1>3 DEF ServerStarted
<1>4. CASE Settled
  BY <1>4 DEF Settled
<1>5. CASE ClientStarted
  BY <1>5 DEF ClientStarted
<1>6. CASE StartFails
  <2>1. Finally("error", Unstarted) /\ queue' \in Nat /\ cancels' \in Nat
    BY <1>6 DEF StartFails
  <2> QED
    BY <2>1, FinallyUnwinds
<1>7. CASE YieldEvent
  BY <1>7 DEF YieldEvent
<1>8. CASE LoopExits
  BY <1>8 DEF LoopExits
<1>9. CASE LoopRaises
  <2>1. Finally("error", res) /\ queue' \in Nat /\ cancels' \in Nat
    BY <1>9 DEF LoopRaises
  <2> QED
    BY <2>1, FinallyUnwinds
<1>10. CASE Reaped
  <2> DEFINE e == IF client_done = "raised" THEN "error" ELSE exc
  <2>1. Finally(e, res) /\ queue' \in Nat /\ cancels' \in Nat
    BY <1>10 DEF Reaped
  <2>2. e \in {"error", "cancelled"}
    BY <1>10 DEF Reaped
  <2> HIDE DEF e
  <2> QED
    BY <2>1, <2>2, FinallyUnwinds
<1>11. CASE DrainTimeout
  BY <1>11 DEF DrainTimeout, MeterCancelled
<1>12. CASE Drained
  <2>1. Finally(exc, res) /\ queue' \in Nat /\ ~MeterLive /\ cancels' = cancels
        /\ queue' = IF exc = "none" THEN 0 ELSE queue
    BY <1>12 DEF Drained
  <2>2. exc' = exc /\ pc' \in {"cleaning", "ended"} /\ meter' = meter
    BY <2>1 DEF Finally, Clean
  <2> QED
    BY <2>1, <2>2 DEF MeterLive
<1>13. CASE MeterStopped
  BY <1>13 DEF MeterStopped, MeterLive
<1>14. CASE CleanNext
  <2>1. pc' \in {"cleaning", "ended"} /\ pc = "cleaning"
        /\ UNCHANGED <<exc, held, client_done, meter, stop_event, queue,
                       cancels>>
    BY <1>14 DEF CleanNext, Clean
  <2> QED
    BY <2>1 DEF MeterLive
<1> QED
  BY <1>1, <1>2, <1>3, <1>4, <1>5, <1>6, <1>7, <1>8, <1>9, <1>10, <1>11,
     <1>12, <1>13, <1>14
  DEF GeneratorStep

(* through a cancel, wherever it is delivered,                             *)
LEMMA CancelKeeps == SessionInv /\ Cancel => SessionInv'
<1> SUFFICES ASSUME SessionInv, Cancel PROVE SessionInv'
  OBVIOUS
<1>0. cancels' = cancels + 1 /\ cancels \in Nat /\ cancels' \in Nat
  BY DEF Cancel, SessionInv, CountsOK
<1>1. CASE CancelConnecting
  <2> DEFINE r0 == [r \in Resources |->
                      IF res[r] = "opening" THEN "gone" ELSE res[r]]
  <2>1. Finally("cancelled", r0) /\ queue' \in Nat /\ cancels' \in Nat
    BY <1>0, <1>1 DEF CancelConnecting, SessionInv, CountsOK
  <2> HIDE DEF r0
  <2> QED
    BY <2>1, FinallyUnwinds
<1>2. CASE CancelStarting
  <2>1. Finally("cancelled", Unstarted) /\ queue' \in Nat /\ cancels' \in Nat
    BY <1>0, <1>2 DEF CancelStarting, SessionInv, CountsOK
  <2> QED
    BY <2>1, FinallyUnwinds
<1> USE <1>0 DEF SessionInv, CountsOK, NoExceptionYet, UnwindsWithCause,
                 MeterFirst, CancelSticks, FlushedFirst, BeforeLoad
<1>3. CASE CancelStreaming
  BY <1>3 DEF CancelStreaming
<1>4. CASE CancelDraining
  BY <1>4 DEF CancelDraining
<1>5. CASE CancelAbsorbed
  BY <1>5 DEF CancelAbsorbed
<1>6. CASE CancelCleaning
  BY <1>6 DEF CancelCleaning, MeterLive
<1> QED
  BY <1>1, <1>2, <1>3, <1>4, <1>5, <1>6 DEF Cancel

(* and through the steps of the meter and of the network.                  *)
LEMMA OthersKeep ==
  SessionInv /\ (MeterStep \/ NetworkStep \/ ClientWaitEnds \/ UNCHANGED vars)
    => SessionInv'
<1> SUFFICES ASSUME SessionInv,
                    MeterStep \/ NetworkStep \/ ClientWaitEnds \/ UNCHANGED vars
             PROVE SessionInv'
  OBVIOUS
<1> USE QueueAssumption
    DEF SessionInv, CountsOK, NoExceptionYet, UnwindsWithCause,
        MeterFirst, CancelSticks, FlushedFirst, BeforeLoad
<1>1. CASE MeterConnects \/ MeterConnectFails \/ MeterFails \/ MeterBreaks
           \/ MeterClosed
  BY <1>1 DEF MeterConnects, MeterConnectFails, MeterFails, MeterBreaks,
              MeterClosed, MeterTo, MeterLive
<1>2. CASE MeterPolls
  BY <1>2 DEF MeterPolls, MeterLive
<1>3. ASSUME NEW r, NEW from, NEW to, Network(r, from, to) PROVE SessionInv'
  BY <1>3 DEF Network, MeterLive
<1>4. CASE ClientWaitEnds
  BY <1>4 DEF ClientWaitEnds, MeterLive
<1>5. CASE UNCHANGED vars
  BY <1>5 DEF vars, MeterLive
<1> QED
  BY <1>1, <1>2, <1>3, <1>4, <1>5
  DEF MeterStep, NetworkStep, DialOk, DialFails, ConnCloses, ProcExits

(* So every step keeps it ...                                              *)
LEMMA SessionStep == SessionInv /\ [Next]_vars => SessionInv'
BY GeneratorKeeps, CancelKeeps, OthersKeep DEF Next

(* ... and it always holds.                                                *)
LEMMA SessionAlways == Spec => []SessionInv
BY SessionInit, SessionStep, PTL DEF Spec

-----------------------------------------------------------------------------
(* However often and wherever a session is cancelled, its meter is done    *)
(* before it is.                                                           *)
THEOREM MeterNeverOutlives == Spec => []MeterEndsFirst
<1>1. SessionInv => MeterEndsFirst
  BY DEF SessionInv, MeterFirst, MeterEndsFirst
<1> QED
  BY <1>1, SessionAlways, PTL

(* A session that ends normally has yielded everything its meter queued.   *)
THEOREM NormalEndIsComplete == Spec => []NormalEndYieldsAll
<1>1. SessionInv => NormalEndYieldsAll
  BY DEF SessionInv, MeterFirst, FlushedFirst, NormalEndYieldsAll
<1> QED
  BY <1>1, SessionAlways, PTL

(* The queue shrinks when an event is yielded, and only while no cancel    *)
(* has been delivered.                                                     *)
LEMMA ShrinksUncancelled ==
  SessionInv /\ [Next]_vars => (queue' < queue => cancels = 0)
<1> SUFFICES ASSUME SessionInv, [Next]_vars, queue' < queue PROVE cancels = 0
  OBVIOUS
<1>n. /\ queue \in Nat /\ cancels \in Nat
      /\ exc = "none" => cancels = 0
      /\ pc = "streaming" => exc = "none"
  BY DEF SessionInv, CountsOK, CancelSticks, NoExceptionYet
<1>q. queue' # queue
  BY <1>n
<1>1. CASE YieldEvent
  BY <1>1, <1>n DEF YieldEvent
<1>2. CASE Drained
  BY <1>2, <1>n, <1>q DEF Drained
<1>3. CASE GeneratorStep /\ ~YieldEvent /\ ~Drained
  BY <1>3, <1>q
  DEF GeneratorStep, Connected, ConnectFailed, ServerStarted, Settled,
      ClientStarted, StartFails, LoopExits, LoopRaises, Reaped, DrainTimeout,
      MeterStopped, CleanNext
<1>4. CASE Cancel
  BY <1>4, <1>q
  DEF Cancel, CancelConnecting, CancelStarting, CancelStreaming,
      CancelDraining, CancelAbsorbed, CancelCleaning
<1>5. CASE MeterPolls
  BY <1>5, <1>n DEF MeterPolls
<1>6. CASE MeterStep /\ ~MeterPolls
  BY <1>6, <1>q
  DEF MeterStep, MeterConnects, MeterConnectFails, MeterFails, MeterBreaks,
      MeterClosed, MeterTo
<1>7. CASE NetworkStep
  BY <1>7, <1>q
  DEF NetworkStep, DialOk, DialFails, ConnCloses, ProcExits, Network
<1>8. CASE ClientWaitEnds \/ UNCHANGED vars
  BY <1>8, <1>q DEF ClientWaitEnds, vars
<1> QED
  BY <1>1, <1>2, <1>3, <1>4, <1>5, <1>6, <1>7, <1>8 DEF Next

(* Once a cancel was delivered the session yields no event any more.       *)
THEOREM CancelSilences == Spec => NoEventAfterCancel
<1>1. SessionInv /\ [Next]_vars => [queue' < queue => cancels = 0]_vars
  BY ShrinksUncancelled
<1> QED
  BY <1>1, SessionAlways, PTL DEF Spec, NoEventAfterCancel

-----------------------------------------------------------------------------
(* A generator that has ended takes no step and receives no cancel.        *)
LEMMA EndedIsFinal ==
  pc = "ended" /\ [Next]_vars => pc' = pc /\ exc' = exc /\ cancels' = cancels
<1> SUFFICES ASSUME pc = "ended", [Next]_vars
             PROVE pc' = pc /\ exc' = exc /\ cancels' = cancels
  OBVIOUS
<1>1. ~GeneratorStep
  BY DEF GeneratorStep, Connected, ConnectFailed, ServerStarted, Settled,
         ClientStarted, StartFails, YieldEvent, LoopExits, LoopRaises, Reaped,
         DrainTimeout, Drained, MeterStopped, CleanNext
<1>2. ~Cancel
  BY DEF Cancel, CancelConnecting, CancelStarting, CancelStreaming,
         CancelDraining, CancelAbsorbed, CancelCleaning
<1>3. CASE MeterStep
  BY <1>3 DEF MeterStep, MeterConnects, MeterConnectFails, MeterPolls,
              MeterFails, MeterBreaks, MeterClosed, MeterTo
<1>4. CASE NetworkStep
  BY <1>4 DEF NetworkStep, DialOk, DialFails, ConnCloses, ProcExits, Network
<1>5. CASE ClientWaitEnds \/ UNCHANGED vars
  BY <1>5 DEF ClientWaitEnds, vars
<1> QED
  BY <1>1, <1>2, <1>3, <1>4, <1>5 DEF Next

(* The number of cancels only grows, by one at a time.                     *)
LEMMA CancelsCount ==
  [Next]_vars => cancels' = cancels \/ cancels' = cancels + 1
<1> SUFFICES ASSUME [Next]_vars
             PROVE cancels' = cancels \/ cancels' = cancels + 1
  OBVIOUS
<1>1. CASE GeneratorStep
  BY <1>1
  DEF GeneratorStep, Connected, ConnectFailed, ServerStarted, Settled,
      ClientStarted, StartFails, YieldEvent, LoopExits, LoopRaises, Reaped,
      DrainTimeout, Drained, MeterStopped, CleanNext
<1>2. CASE Cancel
  BY <1>2 DEF Cancel
<1>3. CASE MeterStep
  BY <1>3 DEF MeterStep, MeterConnects, MeterConnectFails, MeterPolls,
              MeterFails, MeterBreaks, MeterClosed, MeterTo
<1>4. CASE NetworkStep
  BY <1>4 DEF NetworkStep, DialOk, DialFails, ConnCloses, ProcExits, Network
<1>5. CASE ClientWaitEnds \/ UNCHANGED vars
  BY <1>5 DEF ClientWaitEnds, vars
<1> QED
  BY <1>1, <1>2, <1>3, <1>4, <1>5 DEF Next

(* Every step of the session is a step of its contract, or none.           *)
LEMMA ContractStep ==
  SessionInv /\ [Next]_vars => [Contract!ContractNext]_(Contract!contractVars)
<1> SUFFICES ASSUME SessionInv, [Next]_vars
             PROVE Contract!ContractNext \/ UNCHANGED Contract!contractVars
  OBVIOUS
<1>i. SessionInv'
  BY SessionStep
<1>t. /\ cancels \in Nat /\ cancels' \in Nat
      /\ exc' \in {"none", "error", "cancelled"}
      /\ cancels' > 0 => exc' # "none"
  BY <1>i DEF SessionInv, CountsOK, CancelSticks
<1>c. cancels' = cancels \/ cancels' = cancels + 1
  BY CancelsCount
<1> USE DEF Contract!ContractNext, Contract!contractVars, Contract!Ends,
            Contract!CancelDelivered, Contract!EndsByItself,
            Contract!EndsCancelled
<1>1. CASE pc = "ended"
  BY <1>1, EndedIsFinal
<1>2. CASE pc # "ended" /\ pc' # "ended"
  BY <1>2, <1>t, <1>c
<1>3. CASE pc # "ended" /\ pc' = "ended"
  <2>1. CASE cancels' > 0
    BY <1>3, <1>t, <1>c, <2>1
  <2>2. CASE ~(cancels' > 0)
    BY <1>3, <1>t, <1>c, <2>2
  <2> QED
    BY <2>1, <2>2
<1> QED
  BY <1>1, <1>2, <1>3

(* The session implements the contract of run_session: a cancel is never   *)
(* swallowed, and nothing happens to it after its end.                     *)
THEOREM SessionKeepsContract == Spec => KeepsContract
<1>1. Init => Contract!ContractInit
  BY DEF Init, Contract!ContractInit
<1> QED
  BY <1>1, SessionAlways, ContractStep, PTL
  DEF Spec, KeepsContract, Contract!ContractSpec

-----------------------------------------------------------------------------
ResourceStates == {"absent", "opening", "open", "ending", "gone"}

(* What it may find when it turns to clean up: all it has a reference to   *)
(* was started, and of the rest no process runs.                           *)
Tracked(r0) ==
    /\ r0 \in [Resources -> ResourceStates]
    /\ \A r \in held : r0[r] \notin {"absent", "opening"}
    /\ \A p \in Procs \ held : r0[p] # "open"

(* The references the generator has at each of its awaits.                 *)
HeldGrows ==
    /\ held \subseteq Resources
    /\ held = {} \/ Conns \subseteq held
    /\ pc = "connecting" => held = {}
    /\ pc = "starting_server" => held = Conns
    /\ pc \in {"settling", "starting_client"} =>
          held = Conns \union {"server_proc"}
    /\ pc \in {"streaming", "reaping", "draining", "stopping_meter"} =>
          held = Resources
    /\ pc \in {"cleaning", "ended"} /\ exc = "none" => held = Resources

(* Everything up to where the finally block has come was told to end.      *)
EndedSoFar ==
    /\ pc = "cleaning" =>
          /\ at \in 1..4
          /\ \A k \in 1..at :
                CleanupOrder[k] \in held => res[CleanupOrder[k]] # "open"
    /\ pc = "ended" /\ exc # "cancelled" => \A r \in held : res[r] # "open"

(* Without any reference it ends in error only because a dial failed.      *)
DialFailed ==
    pc \in {"cleaning", "ended"} /\ exc = "error" /\ held = {} =>
        \E c \in Conns : res[c] = "gone"

(* The meter is created together with the waiter for the client, when the  *)
(* generator has all its references.                                       *)
NoLoadNoMeter ==
    /\ client_done = "none" => meter = "none"
    /\ client_done # "none" => held = Resources
    /\ pc \in {"streaming", "reaping", "draining", "stopping_meter"} =>
          client_done # "none"

CleanInv ==
    /\ Tracked(res)
    /\ HeldGrows
    /\ EndedSoFar
    /\ DialFailed
    /\ NoLoadNoMeter

(* The order names each connection and process once.                       *)
LEMMA OrderFacts ==
  /\ Len(CleanupOrder) = 4
  /\ \A k \in 1..4 : CleanupOrder[k] \in Resources
  /\ \A r \in Resources : \E k \in 1..4 : CleanupOrder[k] = r
  /\ \A j, k \in 1..4 : CleanupOrder[j] = CleanupOrder[k] => j = k
<1>1. /\ Len(CleanupOrder) = 4
      /\ CleanupOrder[1] = "client_proc" /\ CleanupOrder[2] = "server_proc"
      /\ CleanupOrder[3] = "client_conn" /\ CleanupOrder[4] = "server_conn"
  BY DEF CleanupOrder
<1>2. \A k \in 1..4 : k = 1 \/ k = 2 \/ k = 3 \/ k = 4
  OBVIOUS
<1>3. 1 \in 1..4 /\ 2 \in 1..4 /\ 3 \in 1..4 /\ 4 \in 1..4
  OBVIOUS
<1>4. \A r \in Resources : \/ r = "client_proc" \/ r = "server_proc"
                           \/ r = "client_conn" \/ r = "server_conn"
  BY DEF Resources, Conns, Procs
<1>5. \A k \in 1..4 : CleanupOrder[k] \in Resources
  BY <1>1, <1>2 DEF Resources, Conns, Procs
<1>6. \A r \in Resources : \E k \in 1..4 : CleanupOrder[k] = r
  BY <1>1, <1>3, <1>4
<1>7. \A j, k \in 1..4 : CleanupOrder[j] = CleanupOrder[k] => j = k
  BY <1>1, <1>2
<1> QED
  BY <1>1, <1>5, <1>6, <1>7

(* Going on from the n-th of them leaves none behind that is open.         *)
LEMMA CleanEnds ==
  ASSUME NEW n \in 1..5, NEW r0, Tracked(r0), Clean(n, r0),
         held \subseteq Resources, held' = held,
         \A k \in 1..(n - 1) :
            CleanupOrder[k] \in held => r0[CleanupOrder[k]] # "open"
  PROVE  /\ Tracked(res)' /\ EndedSoFar' /\ pc' \in {"cleaning", "ended"}
         /\ \A r \in Resources : r0[r] = "gone" => res'[r] = "gone"
<1>r. r0 \in [Resources -> ResourceStates]
  BY DEF Tracked
<1>1. ASSUME NEW k \in n..Len(CleanupOrder),
             CleanupOrder[k] \in held,
             \A j \in n..(k - 1) : CleanupOrder[j] \notin held,
             at' = k, pc' = "cleaning",
             res' = [r0 EXCEPT ![CleanupOrder[k]] =
                       IF @ = "open" THEN "ending" ELSE @]
      PROVE  /\ Tracked(res)' /\ EndedSoFar' /\ pc' \in {"cleaning", "ended"}
             /\ \A r \in Resources : r0[r] = "gone" => res'[r] = "gone"
  <2> DEFINE c == CleanupOrder[k]
  <2>1. k \in 1..4 /\ c \in Resources
    BY <1>1, OrderFacts
  <2>2. /\ res' \in [Resources -> ResourceStates]
        /\ res'[c] # "open"
        /\ res'[c] = IF r0[c] = "open" THEN "ending" ELSE r0[c]
        /\ \A r \in Resources : r # c => res'[r] = r0[r]
    BY <1>1, <1>r, <2>1 DEF ResourceStates
  <2>3. \A j \in 1..k : CleanupOrder[j] \in held => res'[CleanupOrder[j]] # "open"
    <3> SUFFICES ASSUME NEW j \in 1..k, CleanupOrder[j] \in held
                 PROVE  res'[CleanupOrder[j]] # "open"
      OBVIOUS
    <3>1. j \in 1..4 /\ CleanupOrder[j] \in Resources
      BY <2>1, OrderFacts
    <3>2. CASE j = k
      BY <3>2, <2>2
    <3>3. CASE j # k
      <4>1. CleanupOrder[j] # c
        BY <3>1, <3>3, <2>1, OrderFacts
      <4>2. j \in 1..(n - 1)
        BY <1>1, <3>3, <2>1
      <4> QED
        BY <4>1, <4>2, <3>1, <2>2
    <3> QED
      BY <3>2, <3>3
  <2>4. Tracked(res)'
    BY <2>1, <2>2, <1>1 DEF Tracked, Resources
  <2>5. EndedSoFar'
    BY <1>1, <2>1, <2>3 DEF EndedSoFar
  <2> QED
    BY <1>1, <2>2, <2>4, <2>5
<1>2. ASSUME \A k \in n..Len(CleanupOrder) : CleanupOrder[k] \notin held,
             pc' = "ended", res' = r0
      PROVE  /\ Tracked(res)' /\ EndedSoFar' /\ pc' \in {"cleaning", "ended"}
             /\ \A r \in Resources : r0[r] = "gone" => res'[r] = "gone"
  <2>1. \A r \in held : r0[r] # "open"
    <3> SUFFICES ASSUME NEW r \in held PROVE r0[r] # "open"
      OBVIOUS
    <3>1. PICK k \in 1..4 : CleanupOrder[k] = r
      BY OrderFacts
    <3>2. k \in 1..(n - 1)
      BY <3>1, <1>2, OrderFacts
    <3> QED
      BY <3>1, <3>2
  <2> QED
    BY <1>2, <2>1 DEF Tracked, EndedSoFar
<1> QED
  BY <1>1, <1>2 DEF Clean

(* So the finally block, from wherever it is entered: with a meter that    *)
(* runs it waits for that first, and is then left with a CancelledError.   *)
LEMMA FinallyCleans ==
  ASSUME CleanInv, NEW e \in {"none", "error", "cancelled"}, NEW r0,
         Finally(e, r0), Tracked(r0), held' = held, client_done' = client_done,
         MeterLive => held = Resources /\ client_done # "none",
         e = "none" => held = Resources,
         e = "error" /\ held = {} => \E c \in Conns : r0[c] = "gone"
  PROVE  CleanInv'
<1>h. held \subseteq Resources /\ (held = {} \/ Conns \subseteq held)
  BY DEF CleanInv, HeldGrows
<1>e. exc' = e
  BY DEF Finally
<1>1. CASE MeterLive
  <2>1. pc' = "stopping_meter" /\ res' = r0
    BY <1>1 DEF Finally
  <2> QED
    BY <1>1, <1>h, <2>1
    DEF CleanInv, Tracked, HeldGrows, EndedSoFar, DialFailed, NoLoadNoMeter
<1>2. CASE ~MeterLive
  <2>1. Clean(1, r0) /\ meter' = meter
    BY <1>2 DEF Finally
  <2>2. /\ Tracked(res)' /\ EndedSoFar' /\ pc' \in {"cleaning", "ended"}
        /\ \A r \in Resources : r0[r] = "gone" => res'[r] = "gone"
    BY <2>1, <1>h, CleanEnds
  <2>3. HeldGrows' /\ DialFailed' /\ NoLoadNoMeter'
    BY <1>h, <1>e, <2>1, <2>2
    DEF CleanInv, HeldGrows, DialFailed, NoLoadNoMeter, Resources
  <2> QED
    BY <2>2, <2>3 DEF CleanInv
<1> QED
  BY <1>1, <1>2

(* It holds before the generator is asked for an event ...                 *)
LEMMA CleanInit == Init => CleanInv
<1> SUFFICES ASSUME Init PROVE CleanInv
  OBVIOUS
<1>1. Tracked(res)
  BY DEF Init, Tracked, ResourceStates, Resources, Conns, Procs
<1>2. HeldGrows /\ EndedSoFar /\ DialFailed /\ NoLoadNoMeter
  BY DEF Init, HeldGrows, EndedSoFar, DialFailed, NoLoadNoMeter
<1> QED
  BY <1>1, <1>2 DEF CleanInv

(* What a failed create_process leaves is tracked as well.                 *)
LEMMA UnstartedTracked == CleanInv => Tracked(res) /\ Tracked(Unstarted)
BY DEF CleanInv, HeldGrows, Tracked, Unstarted, ResourceStates, Resources, Conns, Procs

(* ... and through the steps of the generator,                             *)
LEMMA GeneratorCleans == SessionInv /\ CleanInv /\ GeneratorStep => CleanInv'
<1> SUFFICES ASSUME SessionInv, CleanInv, GeneratorStep PROVE CleanInv'
  OBVIOUS
<1>t. Tracked(res) /\ Tracked(Unstarted)
  BY UnstartedTracked
<1>m. MeterLive => held = Resources /\ client_done # "none"
  BY DEF MeterLive, CleanInv, NoLoadNoMeter
<1>e. exc \in {"none", "error", "cancelled"}
  BY DEF SessionInv, CountsOK
<1>p. /\ "server_proc" \in Resources /\ "client_proc" \in Resources
      /\ "server_proc" \in Procs /\ "client_proc" \in Procs
      /\ "server_proc" \notin Conns /\ "client_proc" \notin Conns
      /\ Resources = Conns \union {"server_proc"} \union {"client_proc"}
      /\ Conns \subseteq Resources /\ Procs \subseteq Resources
      /\ Resources # {} /\ Conns # {}
  BY DEF Resources, Conns, Procs
<1>1. CASE Connected
  <2>1. Tracked(res)'
    BY <1>1, <1>p, <1>t
    DEF Connected, Tracked, ResourceStates, CleanInv, HeldGrows, Procs
  <2> QED
    BY <1>1, <1>p, <2>1
    DEF Connected, CleanInv, HeldGrows, EndedSoFar, DialFailed, NoLoadNoMeter
<1>2. CASE ConnectFailed
  <2>1. /\ Finally("error", res) /\ held' = held /\ client_done' = client_done
        /\ \E c \in Conns : res[c] = "gone"
    BY <1>2 DEF ConnectFailed
  <2> QED
    BY <2>1, <1>t, <1>m, FinallyCleans
<1>3. CASE ServerStarted
  <2>1. Tracked(res)'
    BY <1>3, <1>p, <1>t DEF ServerStarted, Tracked, ResourceStates
  <2> QED
    BY <1>3, <1>p, <2>1
    DEF ServerStarted, CleanInv, HeldGrows, EndedSoFar, DialFailed,
        NoLoadNoMeter
<1>4. CASE Settled
  <2>1. Tracked(res)'
    BY <1>4, <1>p, <1>t
    DEF Settled, Tracked, ResourceStates, CleanInv, HeldGrows
  <2> QED
    BY <1>4, <1>p, <2>1
    DEF Settled, CleanInv, HeldGrows, EndedSoFar, DialFailed, NoLoadNoMeter
<1>5. CASE ClientStarted
  <2>1. Tracked(res)'
    BY <1>5, <1>p, <1>t DEF ClientStarted, Tracked, ResourceStates
  <2> QED
    BY <1>5, <1>p, <2>1
    DEF ClientStarted, CleanInv, HeldGrows, EndedSoFar, DialFailed,
        NoLoadNoMeter
<1>6. CASE StartFails
  <2>1. /\ Finally("error", Unstarted) /\ held' = held
        /\ client_done' = client_done /\ held # {}
    BY <1>6, <1>p DEF StartFails, CleanInv, HeldGrows
  <2> QED
    BY <2>1, <1>t, <1>m, FinallyCleans
<1>7. CASE YieldEvent
  BY <1>7
  DEF YieldEvent, CleanInv, Tracked, HeldGrows, EndedSoFar, DialFailed,
      NoLoadNoMeter
<1>8. CASE LoopExits
  BY <1>8
  DEF LoopExits, CleanInv, Tracked, HeldGrows, EndedSoFar, DialFailed,
      NoLoadNoMeter
<1>9. CASE LoopRaises
  <2>1. /\ Finally("error", res) /\ held' = held
        /\ client_done' = client_done /\ held # {}
    BY <1>9, <1>p DEF LoopRaises, CleanInv, HeldGrows
  <2> QED
    BY <2>1, <1>t, <1>m, FinallyCleans
<1>10. CASE Reaped
  <2> DEFINE e == IF client_done = "raised" THEN "error" ELSE exc
  <2>1. /\ Finally(e, res) /\ held' = held /\ client_done' = client_done
        /\ held = Resources
    BY <1>10 DEF Reaped, CleanInv, HeldGrows
  <2>2. e \in {"none", "error", "cancelled"} /\ held # {}
    BY <1>e, <1>p, <2>1
  <2> HIDE DEF e
  <2> QED
    BY <2>1, <2>2, <1>t, <1>m, FinallyCleans
<1>11. CASE DrainTimeout
  BY <1>11
  DEF DrainTimeout, CleanInv, Tracked, HeldGrows, EndedSoFar, DialFailed,
      NoLoadNoMeter
<1>12. CASE Drained
  <2>1. /\ Finally(exc, res) /\ held' = held /\ client_done' = client_done
        /\ held = Resources /\ held # {}
    BY <1>12, <1>p DEF Drained, CleanInv, HeldGrows
  <2> QED
    BY <2>1, <1>e, <1>t, <1>m, FinallyCleans
<1>13. CASE MeterStopped
  BY <1>13
  DEF MeterStopped, CleanInv, Tracked, HeldGrows, EndedSoFar, DialFailed,
      NoLoadNoMeter
<1>14. CASE CleanNext
  <2>1. /\ pc = "cleaning" /\ Clean(at + 1, res)
        /\ UNCHANGED <<exc, held, client_done, meter>>
    BY <1>14 DEF CleanNext
  <2>2. /\ at \in 1..4 /\ at + 1 \in 1..5
        /\ \A k \in 1..(at + 1 - 1) :
              CleanupOrder[k] \in held => res[CleanupOrder[k]] # "open"
    BY <2>1 DEF CleanInv, EndedSoFar
  <2>3. held \subseteq Resources
    BY DEF CleanInv, HeldGrows
  <2> DEFINE n == at + 1
  <2>4. n \in 1..5 /\ Clean(n, res)
        /\ \A k \in 1..(n - 1) :
              CleanupOrder[k] \in held => res[CleanupOrder[k]] # "open"
    BY <2>1, <2>2
  <2> HIDE DEF n
  <2>5. /\ Tracked(res)' /\ EndedSoFar' /\ pc' \in {"cleaning", "ended"}
        /\ \A r \in Resources : res[r] = "gone" => res'[r] = "gone"
    BY <2>1, <2>3, <2>4, <1>t, CleanEnds
  <2>6. HeldGrows' /\ DialFailed' /\ NoLoadNoMeter'
    BY <2>1, <2>5, <1>p
    DEF CleanInv, HeldGrows, DialFailed, NoLoadNoMeter
  <2> QED
    BY <2>5, <2>6 DEF CleanInv
<1> QED
  BY <1>1, <1>2, <1>3, <1>4, <1>5, <1>6, <1>7, <1>8, <1>9, <1>10, <1>11,
     <1>12, <1>13, <1>14
  DEF GeneratorStep

(* through a cancel, which leaves what it interrupts to the finally block, *)
LEMMA CancelCleans == SessionInv /\ CleanInv /\ Cancel => CleanInv'
<1> SUFFICES ASSUME SessionInv, CleanInv, Cancel PROVE CleanInv'
  OBVIOUS
<1>t. Tracked(res) /\ Tracked(Unstarted)
  BY UnstartedTracked
<1>m. MeterLive => held = Resources /\ client_done # "none"
  BY DEF MeterLive, CleanInv, NoLoadNoMeter
<1>1. CASE CancelConnecting
  <2> DEFINE r0 == [r \in Resources |->
                      IF res[r] = "opening" THEN "gone" ELSE res[r]]
  <2>1. /\ Finally("cancelled", r0) /\ held' = held
        /\ client_done' = client_done
    BY <1>1 DEF CancelConnecting
  <2>2. Tracked(r0)
    BY <1>t, <1>1
    DEF Tracked, ResourceStates, CancelConnecting, CleanInv, HeldGrows,
        Resources
  <2> HIDE DEF r0
  <2> QED
    BY <2>1, <2>2, <1>m, FinallyCleans
<1>2. CASE CancelStarting
  <2>1. /\ Finally("cancelled", Unstarted) /\ held' = held
        /\ client_done' = client_done
    BY <1>2 DEF CancelStarting
  <2> QED
    BY <2>1, <1>t, <1>m, FinallyCleans
<1> USE DEF CleanInv, Tracked, HeldGrows, EndedSoFar, DialFailed,
            NoLoadNoMeter
<1>3. CASE CancelStreaming
  BY <1>3 DEF CancelStreaming
<1>4. CASE CancelDraining
  BY <1>4 DEF CancelDraining, MeterCancelled
<1>5. CASE CancelAbsorbed
  BY <1>5 DEF CancelAbsorbed
<1>6. CASE CancelCleaning
  BY <1>6 DEF CancelCleaning
<1> QED
  BY <1>1, <1>2, <1>3, <1>4, <1>5, <1>6 DEF Cancel

(* and through what the meter and the hosts do: nothing opens again.       *)
LEMMA OthersLeaveClean ==
  CleanInv /\ (MeterStep \/ NetworkStep \/ ClientWaitEnds \/ UNCHANGED vars)
    => CleanInv'
<1> SUFFICES ASSUME CleanInv,
                    MeterStep \/ NetworkStep \/ ClientWaitEnds \/ UNCHANGED vars
             PROVE CleanInv'
  OBVIOUS
<1>1. CASE MeterStep \/ ClientWaitEnds \/ UNCHANGED vars
  <2>1. /\ UNCHANGED <<pc, exc, res, held, at>>
        /\ (client_done' = "none") = (client_done = "none")
        /\ meter = "none" => meter' = "none"
    BY <1>1
    DEF MeterStep, MeterConnects, MeterConnectFails, MeterPolls, MeterFails,
        MeterBreaks, MeterClosed, MeterTo, ClientWaitEnds, vars
  <2> QED
    BY <2>1
    DEF CleanInv, Tracked, HeldGrows, EndedSoFar, DialFailed, NoLoadNoMeter
<1>2. ASSUME NEW r \in Resources, NEW from \in SUBSET ResourceStates,
             NEW to \in {"open", "gone"}, Network(r, from, to),
             "gone" \notin from,
             to = "open" => r \in Conns /\ from = {"opening"}
      PROVE  CleanInv'
  <2>1. /\ UNCHANGED <<pc, exc, held, at, client_done, meter>>
        /\ res[r] \in from
        /\ res' = [res EXCEPT ![r] = to]
    BY <1>2 DEF Network
  <2>2. /\ res' \in [Resources -> ResourceStates]
        /\ res'[r] = to
        /\ \A q \in Resources : q # r => res'[q] = res[q]
    BY <2>1 DEF CleanInv, Tracked, ResourceStates
  <2>3. Procs \subseteq Resources /\ Conns \subseteq Resources
        /\ Procs \intersect Conns = {} /\ held \subseteq Resources
    BY DEF Resources, Procs, Conns, CleanInv, HeldGrows
  <2>4. r \in held => to # "open"
    BY <1>2, <2>1 DEF CleanInv, Tracked
  <2>5. Tracked(res)'
    BY <1>2, <2>1, <2>2, <2>3, <2>4 DEF CleanInv, Tracked
  <2>6. \A q \in held : res[q] # "open" => res'[q] # "open"
    BY <2>2, <2>3, <2>4
  <2>7. \A q \in Resources : res[q] = "gone" => res'[q] = "gone"
    BY <1>2, <2>1, <2>2
  <2> QED
    BY <2>1, <2>3, <2>5, <2>6, <2>7
    DEF CleanInv, HeldGrows, EndedSoFar, DialFailed, NoLoadNoMeter
<1>3. CASE NetworkStep
  BY <1>2, <1>3
  DEF NetworkStep, DialOk, DialFails, ConnCloses, ProcExits, Resources,
      Conns, Procs, ResourceStates
<1> QED
  BY <1>1, <1>3

LEMMA CleanAlways == Spec => []CleanInv
<1>1. SessionInv /\ CleanInv /\ [Next]_vars => CleanInv'
  BY GeneratorCleans, CancelCleans, OthersLeaveClean DEF Next
<1> QED
  BY <1>1, CleanInit, SessionAlways, PTL DEF Spec

-----------------------------------------------------------------------------
(* A session that ends normally has told every process and connection it   *)
(* opened to end, in whatever order the hosts answered and the meter died. *)
THEOREM NormalEndEndsAll == Spec => []NormalEndIsClean
<1>1. CleanInv => NormalEndIsClean
  BY DEF CleanInv, Tracked, HeldGrows, EndedSoFar, NormalEndIsClean,
         ResourceStates
<1> QED
  BY <1>1, CleanAlways, PTL

(* A session that fails while it starts, at whatever step, has ended what  *)
(* it had started, but for the one connection whose sibling failed.        *)
THEOREM FailedStartLeavesNothing == Spec => []FailedStartIsClean
<1>1. CleanInv => FailedStartIsClean
  <2> SUFFICES ASSUME CleanInv, pc = "ended", exc = "error",
                      client_done = "none"
               PROVE  /\ meter = "none"
                      /\ \A r \in Resources :
                            res[r] = "open" => held = {} /\ r \in Conns
                      /\ held = {} => \E c \in Conns : res[c] = "gone"
    BY DEF FailedStartIsClean
  <2> QED
    BY DEF CleanInv, Tracked, HeldGrows, EndedSoFar, DialFailed,
           NoLoadNoMeter, Resources
<1> QED
  BY <1>1, CleanAlways, PTL

-----------------------------------------------------------------------------
(* Each step of the measurement task is a step of the session, or none.    *)
LEMMA TaskCancelIsSeen == CancelTask => [Next]_vars
BY DEF CancelTask, Next

LEMMA StepsOfSession == [MonitorNext]_<<vars, api>> => [Next]_vars
<1> SUFFICES ASSUME MonitorNext \/ UNCHANGED <<vars, api>>
             PROVE Next \/ UNCHANGED vars
  OBVIOUS
<1>1. CASE SessionRuns
  BY <1>1 DEF SessionRuns, Next
<1>2. CASE ProcessStep
  <2>1. CASE PollerStopped
    BY <2>1, TaskCancelIsSeen DEF PollerStopped
  <2>2. CASE ~PollerStopped
    BY <1>2, <2>2
    DEF ProcessStep, TaskEnters, TaskRevoked, StreamOpens, StreamCloses,
        Terminate, LifespanFinally, Exit
  <2> QED
    BY <2>1, <2>2
<1>3. ASSUME NEW c \in Clients, ClientStep(c) PROVE Next \/ UNCHANGED vars
  <2>1. CASE StopCancels(c) \/ StopTimesOut(c)
    BY <2>1, TaskCancelIsSeen DEF StopCancels, StopTimesOut
  <2>2. CASE PostStart(c) \/ StopIdle(c) \/ StopAnswers(c)
    BY <2>2 DEF PostStart, StopIdle, StopAnswers
  <2> QED
    BY <1>3, <2>1, <2>2 DEF ClientStep
<1>4. CASE UNCHANGED <<vars, api>>
  BY <1>4
<1> QED
  BY <1>1, <1>2, <1>3, <1>4 DEF MonitorNext

(* The session in its surroundings behaves as the session alone: what is   *)
(* proved of BwSession holds of it, the contract that no cancel is         *)
(* swallowed included (measure.py:31-36, 65-75; main.py:50-59).            *)
THEOREM MonitorRunsSession == MonitorSpec => Spec
BY StepsOfSession, PTL DEF MonitorSpec, MonitorInit, Spec

(* In particular the contract that MeasureApi assumes of run_session.      *)
COROLLARY MonitorKeepsContract == MonitorSpec => KeepsContract
BY MonitorRunsSession, SessionKeepsContract, PTL

-----------------------------------------------------------------------------
(* The API knows a task that lives and shows it as a session in progress.  *)
LiveIsKnown ==
    Live => known /\ status \in {"connecting", "running"}

(* The generator is where its task is: not begun before the task enters    *)
(* it, not ended before the task is done, and never without the task.      *)
TaskOwnsSession ==
    \/ task \in {"none", "scheduled", "revoked"} /\ pc = "connecting"
    \/ task = "entered" /\ pc # "ended"
    \/ task = "done" /\ pc \in {"connecting", "ended"}

ApiInv == LiveIsKnown /\ TaskOwnsSession

LEMMA ApiInvInit == MonitorInit => ApiInv
BY DEF MonitorInit, Init, ApiInv, LiveIsKnown, TaskOwnsSession, Live

(* A step of the session under its task ends both or neither.              *)
LEMMA FollowKeeps ==
  ASSUME ApiInv, task = "entered", TaskFollows, known' = known
  PROVE  ApiInv'
BY DEF ApiInv, LiveIsKnown, TaskOwnsSession, Live, TaskFollows

LEMMA CancelTaskKeeps ==
  ASSUME ApiInv, Live, CancelTask, known' = known
  PROVE  ApiInv'
<1>1. CASE task = "entered"
  BY <1>1, FollowKeeps DEF CancelTask
<1>2. CASE task # "entered"
  BY <1>2 DEF CancelTask, ApiInv, LiveIsKnown, TaskOwnsSession, Live, vars
<1> QED
  BY <1>1, <1>2

LEMMA ApiInvStep == ApiInv /\ [MonitorNext]_<<vars, api>> => ApiInv'
<1> SUFFICES ASSUME ApiInv, MonitorNext \/ UNCHANGED <<vars, api>>
             PROVE ApiInv'
  OBVIOUS
<1> USE DEF vars
<1>1. CASE SessionRuns
  <2>1. CASE task = "entered"
    BY <1>1, <2>1, FollowKeeps DEF SessionRuns
  <2>2. CASE task # "entered"
    <3>1. pc = "ended" /\ pc' = pc
      BY <1>1, <2>2, EndedIsFinal DEF SessionRuns, Next
    <3> QED
      BY <1>1, <3>1
      DEF SessionRuns, TaskFollows, ApiInv, LiveIsKnown, TaskOwnsSession, Live
  <2> QED
    BY <2>1, <2>2
<1>2. CASE ProcessStep
  <2>1. CASE PollerStopped
    <3>1. CASE known /\ Live
      BY <2>1, <3>1, CancelTaskKeeps DEF PollerStopped, Server
    <3>2. CASE ~(known /\ Live)
      BY <2>1, <3>2
      DEF PollerStopped, Server, ApiInv, LiveIsKnown, TaskOwnsSession, Live
    <3> QED
      BY <3>1, <3>2
  <2>2. CASE ~PollerStopped
    BY <1>2, <2>2
    DEF ProcessStep, TaskEnters, TaskRevoked, StreamOpens, StreamCloses,
        Terminate, LifespanFinally, Exit, Server,
        ApiInv, LiveIsKnown, TaskOwnsSession, Live
  <2> QED
    BY <2>1, <2>2
<1>3. ASSUME NEW c \in Clients, ClientStep(c) PROVE ApiInv'
  <2>1. CASE StopCancels(c) \/ StopTimesOut(c)
    BY <2>1, CancelTaskKeeps DEF StopCancels, StopTimesOut, Live
  <2>2. CASE PostStart(c) \/ StopIdle(c) \/ StopAnswers(c)
    BY <2>2
    DEF PostStart, StopIdle, StopAnswers,
        ApiInv, LiveIsKnown, TaskOwnsSession, Live
  <2> QED
    BY <1>3, <2>1, <2>2 DEF ClientStep
<1>4. CASE UNCHANGED <<vars, api>>
  BY <1>4 DEF api, ApiInv, LiveIsKnown, TaskOwnsSession, Live
<1> QED
  BY <1>1, <1>2, <1>3, <1>4 DEF MonitorNext

(* While the manager is idle or in error, neither the task nor the meter   *)
(* of a session is left: a generator that has not begun has no meter, and  *)
(* one that has ended has outlived it.                                     *)
THEOREM IdleIsQuiet == MonitorSpec => []QuietWhenIdle
<1>1. SessionInv /\ ApiInv => QuietWhenIdle
  BY DEF SessionInv, NoExceptionYet, MeterFirst, BeforeLoad, MeterLive,
         ApiInv, LiveIsKnown, TaskOwnsSession, Live, QuietWhenIdle
<1>2. MonitorSpec => []ApiInv
  BY ApiInvInit, ApiInvStep, PTL DEF MonitorSpec
<1>3. MonitorSpec => []SessionInv
  BY MonitorRunsSession, SessionAlways, PTL
<1> QED
  BY <1>1, <1>2, <1>3, PTL

-----------------------------------------------------------------------------
(* The status says how far the task is.                                    *)
StatusFitsTask ==
    /\ status \in {"idle", "connecting", "running", "error"}
    /\ task \in {"scheduled", "revoked"} => status = "connecting"
    /\ task = "entered" => status = "running"

LEMMA FollowFits ==
  ASSUME StatusFitsTask, TaskFollows, task = "entered"
  PROVE  StatusFitsTask'
BY DEF StatusFitsTask, TaskFollows

LEMMA CancelTaskFits ==
  ASSUME StatusFitsTask, Live, CancelTask
  PROVE  StatusFitsTask'
BY FollowFits DEF CancelTask, StatusFitsTask, Live

LEMMA StatusFitsStep ==
  ApiInv /\ StatusFitsTask /\ [MonitorNext]_<<vars, api>> => StatusFitsTask'
<1> SUFFICES ASSUME ApiInv, StatusFitsTask,
                    MonitorNext \/ UNCHANGED <<vars, api>>
             PROVE StatusFitsTask'
  OBVIOUS
<1>1. CASE SessionRuns
  <2>1. CASE task = "entered"
    BY <1>1, <2>1, FollowFits DEF SessionRuns
  <2>2. CASE task # "entered"
    <3>1. pc = "ended"
      BY <1>1, <2>2 DEF SessionRuns
    <3>2. UNCHANGED <<task, status>>
      BY <1>1, <3>1 DEF SessionRuns, TaskFollows
    <3> QED
      BY <3>2 DEF StatusFitsTask
  <2> QED
    BY <2>1, <2>2
<1>2. CASE ProcessStep
  <2>1. CASE PollerStopped
    BY <2>1, CancelTaskFits DEF PollerStopped, StatusFitsTask
  <2>2. CASE ~PollerStopped
    BY <1>2, <2>2
    DEF ProcessStep, TaskEnters, TaskRevoked, StreamOpens, StreamCloses,
        Terminate, LifespanFinally, Exit, StatusFitsTask
  <2> QED
    BY <2>1, <2>2
<1>3. ASSUME NEW c \in Clients, ClientStep(c) PROVE StatusFitsTask'
  <2>1. CASE StopCancels(c) \/ StopTimesOut(c)
    BY <2>1, CancelTaskFits DEF StopCancels, StopTimesOut, Live
  <2>2. CASE PostStart(c) \/ StopIdle(c) \/ StopAnswers(c)
    BY <2>2 DEF PostStart, StopIdle, StopAnswers, StatusFitsTask,
                ApiInv, LiveIsKnown, Live
  <2> QED
    BY <1>3, <2>1, <2>2 DEF ClientStep
<1>4. CASE UNCHANGED <<vars, api>>
  BY <1>4 DEF api, StatusFitsTask
<1> QED
  BY <1>1, <1>2, <1>3, <1>4 DEF MonitorNext

(* A step that yields is one of the generator, and does not end it: what   *)
(* is left to clean up after the flush is everything.                      *)
LEMMA YieldingGoesOn ==
  ASSUME SessionInv, CleanInv, [Next]_vars, queue' < queue
  PROVE  GeneratorStep /\ pc # "ended" /\ pc' # "ended"
<1>n. queue \in Nat
  BY DEF SessionInv, CountsOK
<1>q. queue' # queue
  BY <1>n
<1>1. CASE YieldEvent
  BY <1>1 DEF YieldEvent, GeneratorStep
<1>2. CASE Drained
  <2>1. pc = "draining" /\ ~MeterLive /\ held = Resources
    BY <1>2 DEF Drained, CleanInv, HeldGrows
  <2>2. Clean(1, res)
    BY <1>2, <2>1 DEF Drained, Finally
  <2>3. 1 \in 1..Len(CleanupOrder) /\ CleanupOrder[1] \in held
    BY <2>1, OrderFacts
  <2>4. pc' = "cleaning"
    BY <2>2, <2>3 DEF Clean
  <2> QED
    BY <1>2, <2>1, <2>4 DEF GeneratorStep
<1>3. CASE GeneratorStep /\ ~YieldEvent /\ ~Drained
  BY <1>3, <1>q
  DEF GeneratorStep, Connected, ConnectFailed, ServerStarted, Settled,
      ClientStarted, StartFails, LoopExits, LoopRaises, Reaped, DrainTimeout,
      MeterStopped, CleanNext
<1>4. CASE Cancel
  BY <1>4, <1>q
  DEF Cancel, CancelConnecting, CancelStarting, CancelStreaming,
      CancelDraining, CancelAbsorbed, CancelCleaning
<1>5. CASE MeterPolls
  BY <1>5, <1>n DEF MeterPolls
<1>6. CASE MeterStep /\ ~MeterPolls
  BY <1>6, <1>q
  DEF MeterStep, MeterConnects, MeterConnectFails, MeterFails, MeterBreaks,
      MeterClosed, MeterTo
<1>7. CASE NetworkStep
  BY <1>7, <1>q
  DEF NetworkStep, DialOk, DialFails, ConnCloses, ProcExits, Network
<1>8. CASE ClientWaitEnds \/ UNCHANGED vars
  BY <1>8, <1>q DEF ClientWaitEnds, vars
<1> QED
  BY <1>1, <1>2, <1>3, <1>4, <1>5, <1>6, <1>7, <1>8 DEF Next

(* Only the session takes from its queue, not those who cancel it.         *)
LEMMA CancelKeepsQueue == CancelTask => UNCHANGED queue
BY DEF CancelTask, Cancel, CancelConnecting, CancelStarting, CancelStreaming,
       CancelDraining, CancelAbsorbed, CancelCleaning, vars

LEMMA OnlySessionYields ==
  ASSUME MonitorNext \/ UNCHANGED <<vars, api>>, queue' # queue
  PROVE  SessionRuns
<1>1. ASSUME PollerStopped PROVE queue' = queue
  BY <1>1, CancelKeepsQueue DEF PollerStopped, vars
<1>2. ASSUME ProcessStep, ~PollerStopped PROVE queue' = queue
  BY <1>2
  DEF ProcessStep, TaskEnters, TaskRevoked, StreamOpens, StreamCloses,
      Terminate, LifespanFinally, Exit, vars
<1>3. ASSUME NEW c \in Clients, ClientStep(c) PROVE queue' = queue
  <2>1. CASE StopCancels(c) \/ StopTimesOut(c)
    BY <2>1, CancelKeepsQueue DEF StopCancels, StopTimesOut
  <2>2. CASE PostStart(c) \/ StopIdle(c) \/ StopAnswers(c)
    BY <2>2 DEF PostStart, StopIdle, StopAnswers, vars
  <2> QED
    BY <1>3, <2>1, <2>2 DEF ClientStep
<1>4. ASSUME UNCHANGED <<vars, api>> PROVE queue' = queue
  BY <1>4 DEF vars
<1> QED
  BY <1>1, <1>2, <1>3, <1>4 DEF MonitorNext

(* While it yields, its run is shown as running and goes on being so.      *)
LEMMA YieldsWhileRunning ==
  ASSUME SessionInv, CleanInv, StatusFitsTask,
         MonitorNext \/ UNCHANGED <<vars, api>>, queue' < queue
  PROVE  status = "running" /\ status' = status
<1>1. queue' # queue
  BY DEF SessionInv, CountsOK
<1>2. SessionRuns
  BY <1>1, OnlySessionYields
<1>3. [Next]_vars
  BY StepsOfSession
<1>4. pc # "ended" /\ pc' # "ended"
  BY <1>3, YieldingGoesOn
<1>5. task = "entered"
  BY <1>2, <1>4 DEF SessionRuns
<1>6. status' = status
  BY <1>2, <1>4 DEF SessionRuns, TaskFollows
<1> QED
  BY <1>5, <1>6 DEF StatusFitsTask

(* The status moves as that of ServerView does.                            *)
Moves(from, to) ==
    \/ to = from
    \/ from \in {"idle", "error"} /\ to = "connecting"
    \/ from = "connecting" /\ to = "running"
    \/ from = "running" /\ to = "error"
    \/ to = "idle"

LEMMA FollowMoves ==
  ASSUME StatusFitsTask, TaskFollows, task = "entered"
  PROVE  Moves(status, status')
BY DEF StatusFitsTask, TaskFollows, Moves

LEMMA CancelTaskMoves ==
  ASSUME StatusFitsTask, CancelTask
  PROVE  Moves(status, status')
BY FollowMoves DEF CancelTask, Moves

LEMMA StatusMoves ==
  ASSUME StatusFitsTask, MonitorNext \/ UNCHANGED <<vars, api>>
  PROVE  Moves(status, status')
<1>1. CASE SessionRuns
  <2>1. CASE task = "entered"
    BY <1>1, <2>1, FollowMoves DEF SessionRuns
  <2>2. CASE task # "entered"
    BY <1>1, <2>2 DEF SessionRuns, TaskFollows, Moves
  <2> QED
    BY <2>1, <2>2
<1>2. CASE ProcessStep
  <2>1. CASE PollerStopped
    BY <2>1, CancelTaskMoves DEF PollerStopped, Moves
  <2>2. CASE ~PollerStopped
    BY <1>2, <2>2
    DEF ProcessStep, TaskEnters, TaskRevoked, StreamOpens, StreamCloses,
        Terminate, LifespanFinally, Exit, StatusFitsTask, Moves
  <2> QED
    BY <2>1, <2>2
<1>3. ASSUME NEW c \in Clients, ClientStep(c) PROVE Moves(status, status')
  <2>1. CASE StopCancels(c) \/ StopTimesOut(c)
    BY <2>1, CancelTaskMoves DEF StopCancels, StopTimesOut
  <2>2. CASE PostStart(c) \/ StopIdle(c) \/ StopAnswers(c)
    BY <2>2 DEF PostStart, StopIdle, StopAnswers, StatusFitsTask, Moves
  <2> QED
    BY <1>3, <2>1, <2>2 DEF ClientStep
<1>4. CASE UNCHANGED <<vars, api>>
  BY <1>4 DEF api, Moves
<1> QED
  BY <1>1, <1>2, <1>3, <1>4 DEF MonitorNext

LEMMA MovesAreSeen ==
  ASSUME SessionInv, CleanInv, StatusFitsTask,
         MonitorNext \/ UNCHANGED <<vars, api>>
  PROVE  View!ViewNext(Published)
<1>1. Moves(status, status')
  BY StatusMoves
<1>2. CASE queue' < queue
  <2>1. status = "running" /\ status' = status
    BY <1>2, YieldsWhileRunning
  <2>2. View!Measures
    BY <2>1 DEF View!Measures, Shown
  <2>3. Published = View!Measurement(Shown)
    BY <1>2 DEF Published
  <2> QED
    BY <2>2, <2>3 DEF View!ViewNext
<1>3. CASE ~(queue' < queue) /\ status' = status
  <2>1. Published = <<>> /\ UNCHANGED Shown
    BY <1>3 DEF Published, Shown
  <2> QED
    BY <2>1 DEF View!ViewNext
<1>4. CASE ~(queue' < queue) /\ status' # status
  <2>1. Published = View!News(Shown')
    BY <1>4 DEF Published
  <2>2. View!Changes
    <3>1. CASE status \in {"idle", "error"} /\ status' = "connecting"
      <4>1. View!Begins(1)
        BY <3>1 DEF View!Begins, View!Busy, Shown
      <4> QED
        BY <4>1 DEF View!Changes
    <3>2. CASE status = "connecting" /\ status' = "running"
      BY <3>2 DEF View!Changes, View!GetsGoing, Shown
    <3>3. CASE status = "running" /\ status' = "error"
      BY <3>3 DEF View!Changes, View!Fails, Shown
    <3>4. CASE status' = "idle"
      BY <3>4 DEF View!Changes, View!Rests, View!Idle, Shown
    <3> QED
      BY <1>1, <1>4, <3>1, <3>2, <3>3, <3>4 DEF Moves
  <2> QED
    BY <2>1, <2>2 DEF View!ViewNext
<1> QED
  BY <1>2, <1>3, <1>4

(* The bandwidth session and those who end it implement the server that    *)
(* the pages rely on, for every number of clients, cancels and events.     *)
THEOREM MonitorImplementsView == MonitorSpec => FollowsView
<1>1. MonitorInit => StatusFitsTask /\ View!ViewInit
  BY DEF MonitorInit, StatusFitsTask, View!ViewInit, View!Idle, Shown
<1>2. MonitorSpec => []ApiInv
  BY ApiInvInit, ApiInvStep, PTL DEF MonitorSpec
<1>3. MonitorSpec => []StatusFitsTask
  BY <1>1, <1>2, StatusFitsStep, PTL DEF MonitorSpec
<1>4. MonitorSpec => [](SessionInv /\ CleanInv)
  BY MonitorRunsSession, SessionAlways, CleanAlways, PTL
<1>5. SessionInv /\ CleanInv /\ StatusFitsTask /\ [MonitorNext]_<<vars, api>>
         => [View!ViewNext(Published)]_<<vars, api>>
  BY MovesAreSeen
<1> QED
  BY <1>1, <1>3, <1>4, <1>5, PTL DEF MonitorSpec, FollowsView
=============================================================================
