------------------------------ MODULE BwSession ------------------------------
(***************************************************************************)
(* One bandwidth session: _run_with_sysfs of app/runner.py, the generator  *)
(* that drives ib_write_bw or iperf3 on both hosts over SSH while a meter, *)
(* a task of its own with a connection of its own, reads the counters of   *)
(* server A.  The generator is stepped by the measurement task, which may  *)
(* be cancelled at every await.                                            *)
(*                                                                         *)
(* "pc" is the await the generator is suspended at; an action runs it to   *)
(* the next one.  "exc" is the exception that unwinds it.  "held" is the   *)
(* set of connections and processes its local variables refer to: only     *)
(* these can the finally block end, and something it lost track of stays   *)
(* open.                                                                   *)
(***************************************************************************)
EXTENDS Integers, Sequences

CONSTANTS QueueMax,    \* maxsize of the event queue, 64 in the code
          MaxCancels   \* bound on the cancels a session receives

ASSUME QueueAssumption == QueueMax \in Nat \ {0}
ASSUME CancelAssumption == MaxCancels \in Nat

VARIABLES pc, exc,
          res,          \* connections and remote processes
          held,         \* those the generator has a reference to
          at,           \* position in CleanupOrder of what is being ended
          client_done,  \* the task that awaits client_proc.wait()
          meter,        \* measure_task
          stop_event,
          queue,        \* number of events between meter and generator
          cancels       \* cancels delivered so far

vars == <<pc, exc, res, held, at, client_done, meter, stop_event, queue,
          cancels>>

Conns == {"client_conn", "server_conn"}
Procs == {"client_proc", "server_proc"}
Resources == Conns \union Procs

MeterLive == meter \notin {"none", "done"}

-----------------------------------------------------------------------------
(* The first step of the generator opens both connections at once.         *)
Init ==
    /\ pc = "connecting"
    /\ exc = "none"
    /\ res = [r \in Resources |-> IF r \in Conns THEN "opening" ELSE "absent"]
    /\ held = {}
    /\ at = 0
    /\ client_done = "none"
    /\ meter = "none"
    /\ stop_event = FALSE
    /\ queue = 0
    /\ cancels = 0

-----------------------------------------------------------------------------
(* Each faulty variant is what a plausible bug would make of the           *)
(* definition that follows it; no run and no proof uses one.               *)
FaultyCleanupForgetsOne == <<"client_proc", "server_proc", "client_conn">>

(* The finally block ends what it knows of: processes, then connections.   *)
CleanupOrder == <<"client_proc", "server_proc", "client_conn", "server_conn">>

(* From the n-th on, terminate() or close() is called on the next one the  *)
(* generator has a reference to, and it awaits the effect.                 *)
Clean(n, r0) ==
    \/ \E k \in n..Len(CleanupOrder) :
         /\ CleanupOrder[k] \in held
         /\ \A j \in n..(k - 1) : CleanupOrder[j] \notin held
         /\ at' = k
         /\ pc' = "cleaning"
         /\ res' = [r0 EXCEPT ![CleanupOrder[k]] =
                      IF @ = "open" THEN "ending" ELSE @]
    \/ /\ \A k \in n..Len(CleanupOrder) : CleanupOrder[k] \notin held
       /\ pc' = "ended"
       /\ res' = r0
       /\ UNCHANGED at

FaultyMeterIgnoresCancel == meter

(* Task.cancel() on the meter: its connection is closed on the way out.    *)
MeterCancelled == IF meter = "connecting" THEN "done"
                  ELSE IF meter = "polling" THEN "closing" ELSE meter

FaultyFinallyKeepsMeter(e, r0) ==
    /\ exc' = e
    /\ stop_event' = TRUE
    /\ Clean(1, r0)
    /\ UNCHANGED meter

(* The outer finally is entered with the exception e, or "none".           *)
Finally(e, r0) ==
    /\ exc' = e
    /\ stop_event' = TRUE
    /\ IF MeterLive
       THEN /\ pc' = "stopping_meter"
            /\ meter' = MeterCancelled
            /\ res' = r0
            /\ UNCHANGED at
       ELSE /\ Clean(1, r0)
            /\ UNCHANGED meter

-----------------------------------------------------------------------------
(* The hosts and the network, as asyncssh shows them.                      *)
Network(r, from, to) ==
    /\ res[r] \in from
    /\ res' = [res EXCEPT ![r] = to]
    /\ UNCHANGED <<pc, exc, held, at, client_done, meter, stop_event,
                   queue, cancels>>

DialOk(c) == Network(c, {"opening"}, "open")
DialFails(c) == Network(c, {"opening"}, "gone")
ConnCloses(c) == Network(c, {"ending"}, "gone")
ProcExits(p) == Network(p, {"open", "ending"}, "gone")

-----------------------------------------------------------------------------
(* asyncio.gather returns when both connections are open ...               *)
Connected ==
    /\ pc = "connecting"
    /\ \A c \in Conns : res[c] = "open"
    /\ held' = Conns
    /\ res' = [res EXCEPT !["server_proc"] = "opening"]
    /\ pc' = "starting_server"
    /\ UNCHANGED <<exc, at, client_done, meter, stop_event, queue, cancels>>

(* ... and raises with the first that fails, leaving the other to itself.  *)
ConnectFailed ==
    /\ pc = "connecting"
    /\ \E c \in Conns : res[c] = "gone"
    /\ Finally("error", res)
    /\ UNCHANGED <<held, client_done, queue, cancels>>

FaultyServerNotHeld ==
    /\ pc = "starting_server"
    /\ res' = [res EXCEPT !["server_proc"] = "open"]
    /\ pc' = "settling"
    /\ UNCHANGED <<exc, held, at, client_done, meter, stop_event, queue,
                   cancels>>

ServerStarted ==
    /\ pc = "starting_server"
    /\ res' = [res EXCEPT !["server_proc"] = "open"]
    /\ held' = held \union {"server_proc"}
    /\ pc' = "settling"
    /\ UNCHANGED <<exc, at, client_done, meter, stop_event, queue, cancels>>

Settled ==
    /\ pc = "settling"
    /\ res' = [res EXCEPT !["client_proc"] = "opening"]
    /\ pc' = "starting_client"
    /\ UNCHANGED <<exc, held, at, client_done, meter, stop_event, queue,
                   cancels>>

(* The meter and the waiter for the client are created with the client.    *)
ClientStarted ==
    /\ pc = "starting_client"
    /\ res' = [res EXCEPT !["client_proc"] = "open"]
    /\ held' = held \union {"client_proc"}
    /\ meter' = "connecting"
    /\ client_done' = "pending"
    /\ pc' = "streaming"
    /\ UNCHANGED <<exc, at, stop_event, queue, cancels>>

(* A create_process that is interrupted or fails returns no handle.  What  *)
(* the host makes of a request that had left by then is left out here, for *)
(* this module is about what the session can end; LatSession has it.       *)
Unstarted == [r \in Resources |-> IF r \in Procs /\ res[r] = "opening"
                                  THEN "gone" ELSE res[r]]

StartFails ==
    /\ pc \in {"starting_server", "starting_client"}
    /\ Finally("error", Unstarted)
    /\ UNCHANGED <<held, client_done, queue, cancels>>

-----------------------------------------------------------------------------
(* The streaming loop.  An event that is yielded is published at once.     *)
YieldEvent ==
    /\ pc = "streaming"
    /\ queue > 0
    /\ queue' = queue - 1
    /\ UNCHANGED <<pc, exc, res, held, at, client_done, meter, stop_event,
                   cancels>>

ClientWaitEnds ==
    /\ client_done = "pending"
    /\ \/ res["client_proc"] = "gone" /\ client_done' = "returned"
       \/ client_done' = "raised"
    /\ UNCHANGED <<pc, exc, res, held, at, meter, stop_event, queue, cancels>>

(* The loop sees that client_done is done.  Its exception, if it has one,  *)
(* is raised by the await of the inner finally.                            *)
LoopExits ==
    /\ pc = "streaming"
    /\ client_done = "returned"
    /\ stop_event' = TRUE
    /\ pc' = "draining"
    /\ UNCHANGED <<exc, res, held, at, client_done, meter, queue, cancels>>

LoopRaises ==
    /\ pc = "streaming"
    /\ client_done = "raised"
    /\ Finally("error", res)
    /\ UNCHANGED <<held, client_done, queue, cancels>>

(* A cancelled loop awaits the waiter it has cancelled; the exception of   *)
(* one that had already failed replaces the CancelledError.                *)
Reaped ==
    /\ pc = "reaping"
    /\ Finally(IF client_done = "raised" THEN "error" ELSE exc, res)
    /\ UNCHANGED <<held, client_done, queue, cancels>>

FaultyDrainWithoutTimeout == pc = "draining" /\ MeterLive /\ UNCHANGED vars

(* wait_for(measure_task, 2.0) cancels the meter and waits on.             *)
DrainTimeout ==
    /\ pc = "draining"
    /\ MeterLive
    /\ meter' = MeterCancelled
    /\ UNCHANGED <<pc, exc, res, held, at, client_done, stop_event, queue,
                   cancels>>

FaultyDrainWithoutFlush ==
    /\ pc = "draining"
    /\ ~MeterLive
    /\ Finally(exc, res)
    /\ UNCHANGED <<held, client_done, queue, cancels>>

(* The meter is done: what it left in the queue is yielded, unless a       *)
(* cancel came in the meantime.                                            *)
Drained ==
    /\ pc = "draining"
    /\ ~MeterLive
    /\ queue' = IF exc = "none" THEN 0 ELSE queue
    /\ Finally(exc, res)
    /\ UNCHANGED <<held, client_done, cancels>>

(* await measure_task raises the CancelledError of the meter, which        *)
(* suppress(Exception) lets through: it leaves the finally block.          *)
MeterStopped ==
    /\ pc = "stopping_meter"
    /\ ~MeterLive
    /\ exc' = "cancelled"
    /\ pc' = "ended"
    /\ UNCHANGED <<res, held, at, client_done, meter, stop_event, queue,
                   cancels>>

(* The next resource.  A process that does not exit in 5 s is killed and   *)
(* left; the close of a connection is awaited without a timeout.           *)
CleanNext ==
    /\ pc = "cleaning"
    /\ res[CleanupOrder[at]] = "gone" \/ CleanupOrder[at] \in Procs
    /\ Clean(at + 1, res)
    /\ UNCHANGED <<exc, held, client_done, meter, stop_event, queue, cancels>>

-----------------------------------------------------------------------------
(* The meter.                                                              *)
MeterTo(from, to) ==
    /\ meter = from
    /\ meter' = to
    /\ UNCHANGED <<pc, exc, res, held, at, client_done, stop_event, queue,
                   cancels>>

MeterConnects == MeterTo("connecting", "polling")
MeterConnectFails == MeterTo("connecting", "done")
MeterFails == MeterTo("polling", "closing")
MeterBreaks == stop_event /\ MeterTo("polling", "closing")
MeterClosed == MeterTo("closing", "done")

(* A full queue drops the new event; a read in progress when stop_event is *)
(* set still delivers its event.                                           *)
MeterPolls ==
    /\ meter = "polling"
    /\ queue' = IF queue < QueueMax THEN queue + 1 ELSE queue
    /\ UNCHANGED <<pc, exc, res, held, at, client_done, meter, stop_event,
                   cancels>>

-----------------------------------------------------------------------------
(* Task.cancel() on the measurement task, by a stop(), by the timeout of   *)
(* one, or by the shutdown: what it does depends on the await it finds.    *)
CancelConnecting ==      \* gather cancels the dials that are not done
    /\ pc = "connecting"
    /\ Finally("cancelled", [r \in Resources |->
                  IF res[r] = "opening" THEN "gone" ELSE res[r]])
    /\ UNCHANGED <<held, client_done, queue>>

CancelStarting ==
    /\ pc \in {"starting_server", "settling", "starting_client"}
    /\ Finally("cancelled", Unstarted)
    /\ UNCHANGED <<held, client_done, queue>>

FaultyStreamSwallowsCancel ==
    /\ pc = "streaming"
    /\ UNCHANGED <<pc, exc, res, held, at, client_done, meter, stop_event,
                   queue>>

CancelStreaming ==
    /\ pc = "streaming"
    /\ exc' = "cancelled"
    /\ client_done' = IF client_done = "pending" THEN "cancelled" ELSE client_done
    /\ pc' = "reaping"
    /\ UNCHANGED <<res, held, at, meter, stop_event, queue>>

FaultyDrainSwallowsCancel ==
    /\ pc = "draining"
    /\ meter' = MeterCancelled
    /\ UNCHANGED <<pc, exc, res, held, at, client_done, stop_event, queue>>

(* A task that awaits another task passes the cancel on and waits for it.  *)
CancelDraining ==
    /\ pc = "draining"
    /\ exc' = "cancelled"
    /\ meter' = MeterCancelled
    /\ UNCHANGED <<pc, res, held, at, client_done, stop_event, queue>>

(* suppress(CancelledError) and the cancelled meter absorb it.             *)
CancelAbsorbed ==
    /\ pc \in {"reaping", "stopping_meter"}
    /\ UNCHANGED <<pc, exc, res, held, at, client_done, meter, stop_event,
                   queue>>

CancelCleaning ==
    /\ pc = "cleaning"
    /\ exc' = "cancelled"
    /\ pc' = "ended"
    /\ UNCHANGED <<res, held, at, client_done, meter, stop_event, queue>>

Cancel ==
    /\ cancels < MaxCancels
    /\ cancels' = cancels + 1
    /\ \/ CancelConnecting
       \/ CancelStarting
       \/ CancelStreaming
       \/ CancelDraining
       \/ CancelAbsorbed
       \/ CancelCleaning

-----------------------------------------------------------------------------
GeneratorStep ==
    \/ Connected \/ ConnectFailed \/ ServerStarted \/ Settled \/ ClientStarted
    \/ StartFails \/ YieldEvent \/ LoopExits \/ LoopRaises \/ Reaped
    \/ DrainTimeout \/ Drained \/ MeterStopped \/ CleanNext

MeterStep ==
    \/ MeterConnects \/ MeterConnectFails \/ MeterPolls \/ MeterFails
    \/ MeterBreaks \/ MeterClosed

NetworkStep ==
    \/ \E c \in Conns : DialOk(c) \/ DialFails(c) \/ ConnCloses(c)
    \/ \E p \in Procs : ProcExits(p)

Next == GeneratorStep \/ MeterStep \/ NetworkStep \/ ClientWaitEnds \/ Cancel

Spec == Init /\ [][Next]_vars

(* The loop resumes the generator when what it awaits is done or times     *)
(* out, and a close completes.  No remote process need ever exit and no    *)
(* read of the meter need ever return.                                     *)
Fairness ==
    /\ WF_vars(LoopExits) /\ WF_vars(LoopRaises) /\ WF_vars(Reaped)
    /\ WF_vars(DrainTimeout) /\ WF_vars(Drained)
    /\ WF_vars(MeterStopped) /\ WF_vars(CleanNext) /\ WF_vars(MeterClosed)
    /\ \A c \in Conns : WF_vars(ConnCloses(c))

FairSpec == Spec /\ Fairness

-----------------------------------------------------------------------------
(* A session that ends normally has ended every process and connection it  *)
(* opened, in whatever order the hosts answered (runner.py:345-359).       *)
NormalEndIsClean ==
    pc = "ended" /\ exc = "none" =>
        \A r \in Resources : res[r] \in {"gone", "ending"}

(* A session that fails before the load runs, at whatever step, with no    *)
(* cancel in its way, has ended what it had started and has no meter.      *)
(* What may stay is one connection, opened while the other one failed: the *)
(* generator never had a reference to it (runner.py:306-314, 339-359).     *)
FailedStartIsClean ==
    pc = "ended" /\ exc = "error" /\ cancels = 0 /\ client_done = "none" =>
        /\ meter = "none"
        /\ \A r \in Resources : res[r] = "open" => held = {} /\ r \in Conns
        /\ held = {} => \E c \in Conns : res[c] = "gone"

(* A session that ends normally has yielded every event its meter queued,  *)
(* and the meter can queue no more (runner.py:333-338).                    *)
NormalEndYieldsAll ==
    pc = "ended" /\ exc = "none" => queue = 0 /\ ~MeterLive

(* The meter never outlives the session, whatever is cancelled and when:   *)
(* one that did would poll a host over SSH for ever (runner.py:341-344).   *)
MeterEndsFirst == pc = "ended" => ~MeterLive

(* After a cancel was delivered, no event is yielded any more, so that the *)
(* stream shows no measurement of a session that a stop has ended.         *)
NoEventAfterCancel == [][queue' < queue => cancels = 0]_vars

(* A session whose load generator has finished ends, though its server     *)
(* process ignores the signal and a read of the meter hangs.               *)
FinishedEnds == (client_done = "returned") ~> (pc = "ended")

(* The session keeps the contract of run_session: in particular no await   *)
(* of it swallows a cancel (runner.py:329-336, 343-344).                   *)
Contract == INSTANCE SessionContract WITH
    stage <- IF pc = "ended" THEN "ended"
             ELSE IF cancels > 0 THEN "cancelled" ELSE "running",
    outcome <- IF pc # "ended" THEN "none"
               ELSE IF exc = "none" THEN "normal" ELSE exc

KeepsContract == Contract!ContractSpec

(* The plan asks for no SSH leak (docs/implementation-plan.md:350): of a   *)
(* session that a stop interrupts under load, nothing stays open after it. *)
StoppedSessionIsClean ==
    pc = "ended" /\ client_done = "cancelled" =>
        \A r \in Resources : res[r] # "open"
=============================================================================
