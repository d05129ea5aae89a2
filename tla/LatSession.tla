----------------------------- MODULE LatSession -----------------------------
(***************************************************************************)
(* One latency session: _run_perftest_lat of app/runner.py, which takes a  *)
(* fixed number of short samples with ib_read_lat, one after the other,    *)
(* over one connection to each host.  A sample (_run_lat_iteration) runs   *)
(* under a timeout of 4 s, which interrupts it like a cancel does; the     *)
(* two differ in what becomes of the session.                              *)
(*                                                                         *)
(* "pc" is the await the session is suspended at, "why" the exception that *)
(* unwinds the current sample, "exc" the one that unwinds the session.     *)
(* The processes in "res" are those of the current sample; "strays" are    *)
(* those of this and of earlier samples that the session never got a       *)
(* handle to, told apart by the host they run on.                          *)
(***************************************************************************)
EXTENDS Integers

CONSTANTS Iterations,  \* duration_sec * 5 in the code, at least 1
          MaxCancels   \* bound on the cancels a session receives

ASSUME IterationsAssumption == Iterations \in Nat \ {0}
ASSUME CancelAssumption == MaxCancels \in Nat

VARIABLES pc, exc, why,
          res,       \* connections and the processes of the sample
          strays,    \* processes nobody has a handle to
          held,      \* the session has a reference to its connections
          i,         \* samples begun before the current one
          expired,   \* the 4 s of the sample are over
          cancels    \* cancels delivered so far

vars == <<pc, exc, why, res, strays, held, i, expired, cancels>>

Conns == {"client_conn", "server_conn"}
Procs == {"client_proc", "server_proc"}
Resources == Conns \union Procs

Sampling == {"starting_server", "setup", "starting_client", "waiting_client",
             "reaping_client", "reaping_server"}

-----------------------------------------------------------------------------
Init ==
    /\ pc = "connecting"
    /\ exc = "none"
    /\ why = "none"
    /\ res = [r \in Resources |-> IF r \in Conns THEN "opening" ELSE "absent"]
    /\ strays = {}
    /\ held = FALSE
    /\ i = 0
    /\ expired = FALSE
    /\ cancels = 0

(* terminate() or close().                                                 *)
Ask(r0, r) == [r0 EXCEPT ![r] = IF @ = "open" THEN "ending" ELSE @]

(* A create_process that is interrupted or fails returns no handle.  If    *)
(* the request had left by then, the host runs the command all the same.   *)
Starting == {p \in Procs : res[p] = "opening"}

Unstarted == [r \in Resources |-> IF r \in Starting THEN "gone" ELSE res[r]]

MayStray == \E S \in SUBSET Starting : strays' = strays \union S

(* The finally block closes the connections of server A, then of server B. *)
Close(e, r0) ==
    /\ exc' = e
    /\ IF held THEN pc' = "closing_server" /\ res' = Ask(r0, "server_conn")
               ELSE pc' = "ended" /\ res' = r0

Network(r, from, to) ==
    /\ res[r] \in from
    /\ res' = [res EXCEPT ![r] = to]
    /\ UNCHANGED <<pc, exc, why, strays, held, i, expired, cancels>>

DialOk(c) == Network(c, {"opening"}, "open")
DialFails(c) == Network(c, {"opening"}, "gone")
ConnCloses(c) == Network(c, {"ending"}, "gone")
ProcExits(p) == Network(p, {"open", "ending"}, "gone")

StrayExits(p) ==
    /\ p \in strays
    /\ strays' = strays \ {p}
    /\ UNCHANGED <<pc, exc, why, res, held, i, expired, cancels>>

-----------------------------------------------------------------------------
StartSample ==
    /\ pc' = "starting_server"
    /\ why' = "none"
    /\ expired' = FALSE
    /\ res' = [res EXCEPT !["server_proc"] = "opening", !["client_proc"] = "absent"]

Connected ==
    /\ pc = "connecting"
    /\ \A c \in Conns : res[c] = "open"
    /\ held' = TRUE
    /\ StartSample
    /\ UNCHANGED <<exc, strays, i, cancels>>

ConnectFailed ==
    /\ pc = "connecting"
    /\ \E c \in Conns : res[c] = "gone"
    /\ Close("error", res)
    /\ UNCHANGED <<why, strays, held, i, expired, cancels>>

-----------------------------------------------------------------------------
(* Each faulty variant is what a plausible bug would make of the           *)
(* definition that follows it; no run and no proof uses one.               *)
FaultySampleErrorEndsSession(w, r0) ==
    /\ why' = w
    /\ i' = i
    /\ Close(IF w = "none" THEN "none" ELSE "error", r0)

(* The sample is over with the exception w.  Only a cancel leaves it: any  *)
(* other failure is a missing sample.                                      *)
SampleEnds(w, r0) ==
    /\ why' = w
    /\ i' = i + 1
    /\ IF w = "cancelled"
       THEN Close("cancelled", r0)
       ELSE pc' = "pausing" /\ res' = r0 /\ UNCHANGED exc

ServerStarted ==
    /\ pc = "starting_server"
    /\ res' = [res EXCEPT !["server_proc"] = "open"]
    /\ pc' = "setup"
    /\ UNCHANGED <<exc, why, strays, held, i, expired, cancels>>

SetUp ==
    /\ pc = "setup"
    /\ res' = [res EXCEPT !["client_proc"] = "opening"]
    /\ pc' = "starting_client"
    /\ UNCHANGED <<exc, why, strays, held, i, expired, cancels>>

ClientStarted ==
    /\ pc = "starting_client"
    /\ res' = [res EXCEPT !["client_proc"] = "open"]
    /\ pc' = "waiting_client"
    /\ UNCHANGED <<exc, why, strays, held, i, expired, cancels>>

FaultyReapClientOnly(w, r0) ==
    IF pc = "waiting_client"
    THEN /\ pc' = "reaping_client"
         /\ why' = w
         /\ res' = Ask(r0, "client_proc")
         /\ UNCHANGED <<exc, i>>
    ELSE SampleEnds(w, r0)

(* From an await inside the sample to the finally block around it.         *)
Unwind(w, r0) ==
    CASE pc = "waiting_client" ->
           /\ pc' = "reaping_client"
           /\ why' = w
           /\ res' = Ask(r0, "client_proc")
           /\ UNCHANGED <<exc, i>>
      [] pc \in {"setup", "starting_client", "reaping_client"} ->
           /\ pc' = "reaping_server"
           /\ why' = w
           /\ res' = Ask(r0, "server_proc")
           /\ UNCHANGED <<exc, i>>
      [] OTHER -> SampleEnds(w, r0)

(* The client exits: its output is parsed, an event or no event.           *)
SampleTaken ==
    /\ pc = "waiting_client"
    /\ res["client_proc"] = "gone"
    /\ Unwind("none", res)
    /\ UNCHANGED <<strays, held, expired, cancels>>

(* create_process or wait() raises.                                        *)
SampleFails ==
    /\ pc \in {"starting_server", "starting_client", "waiting_client"}
    /\ Unwind("failed", Unstarted)
    /\ MayStray
    /\ UNCHANGED <<held, expired, cancels>>

(* The process has exited, or 1.5 s have passed: kill() and go on.         *)
Reaped ==
    /\ pc \in {"reaping_client", "reaping_server"}
    /\ Unwind(why, res)
    /\ UNCHANGED <<strays, held, expired, cancels>>

FaultySampleWithoutTimeout == pc \in Sampling /\ ~expired /\ UNCHANGED vars

(* The 4 s are over.  It interrupts even a reaping, whose kill() is then   *)
(* left out; of a sample that is being cancelled, it only hurries the end. *)
SampleExpires ==
    /\ pc \in Sampling
    /\ ~expired
    /\ expired' = TRUE
    /\ Unwind(IF why = "cancelled" THEN why ELSE "timeout", Unstarted)
    /\ MayStray
    /\ UNCHANGED <<held, cancels>>

(* The rest of the 0.2 s of the sample, if any, and the head of the loop.  *)
NextSample ==
    /\ pc = "pausing"
    /\ i < Iterations
    /\ StartSample
    /\ UNCHANGED <<exc, strays, held, i, cancels>>

LastSample ==
    /\ pc = "pausing"
    /\ i = Iterations
    /\ Close("none", res)
    /\ UNCHANGED <<why, strays, held, i, expired, cancels>>

FaultyCloseFirstOnly ==
    /\ pc = "closing_server"
    /\ res["server_conn"] = "gone"
    /\ pc' = "ended"
    /\ UNCHANGED <<exc, why, res, strays, held, i, expired, cancels>>

ServerConnClosed ==
    /\ pc = "closing_server"
    /\ res["server_conn"] = "gone"
    /\ pc' = "closing_client"
    /\ res' = Ask(res, "client_conn")
    /\ UNCHANGED <<exc, why, strays, held, i, expired, cancels>>

ClientConnClosed ==
    /\ pc = "closing_client"
    /\ res["client_conn"] = "gone"
    /\ pc' = "ended"
    /\ UNCHANGED <<exc, why, res, strays, held, i, expired, cancels>>

-----------------------------------------------------------------------------
(* Task.cancel() on the measurement task.                                  *)
CancelConnecting ==
    /\ pc = "connecting"
    /\ Close("cancelled", [r \in Resources |->
                IF res[r] = "opening" THEN "gone" ELSE res[r]])
    /\ UNCHANGED <<why, strays, i>>

FaultyCancelAsTimeout ==
    pc \in Sampling /\ Unwind("timeout", Unstarted) /\ MayStray

CancelSampling ==
    pc \in Sampling /\ Unwind("cancelled", Unstarted) /\ MayStray

CancelPausing ==
    /\ pc = "pausing"
    /\ Close("cancelled", res)
    /\ UNCHANGED <<why, strays, i>>

CancelClosing ==
    /\ pc \in {"closing_server", "closing_client"}
    /\ exc' = "cancelled"
    /\ pc' = "ended"
    /\ UNCHANGED <<why, res, strays, i>>

Cancel ==
    /\ cancels < MaxCancels
    /\ cancels' = cancels + 1
    /\ UNCHANGED <<held, expired>>
    /\ CancelConnecting \/ CancelSampling \/ CancelPausing \/ CancelClosing

-----------------------------------------------------------------------------
SessionStep ==
    \/ Connected \/ ConnectFailed \/ ServerStarted \/ SetUp \/ ClientStarted
    \/ SampleTaken \/ SampleExpires \/ SampleFails \/ Reaped \/ NextSample
    \/ LastSample \/ ServerConnClosed \/ ClientConnClosed

NetworkStep ==
    \/ \E c \in Conns : DialOk(c) \/ DialFails(c) \/ ConnCloses(c)
    \/ \E p \in Procs : ProcExits(p) \/ StrayExits(p)

Next == SessionStep \/ NetworkStep \/ Cancel

Spec == Init /\ [][Next]_vars

(* A timeout of the code expires, a sleep ends and a close completes.  No  *)
(* process need ever start or exit.                                        *)
Fairness ==
    /\ WF_vars(Reaped) /\ WF_vars(SampleExpires) /\ WF_vars(NextSample)
    /\ WF_vars(LastSample) /\ WF_vars(ServerConnClosed)
    /\ WF_vars(ClientConnClosed)
    /\ \A c \in Conns : WF_vars(ConnCloses(c))

FairSpec == Spec /\ Fairness

-----------------------------------------------------------------------------
(* Samples are said to be taken in series (runner.py:377, in Korean).  Of  *)
(* the processes the session has a handle to that is so, whichever finally *)
(* block a timeout or a cancel strikes: outside a sample each of them was  *)
(* told to stop.  What may run beside the next sample are strays alone     *)
(* (runner.py:456-485).                                                    *)
ReapsWhatItHolds ==
    pc \notin Sampling => \A p \in Procs : res[p] # "open"

(* However a session that has its connections ends, by its last sample or  *)
(* by stops at whatever await of a sample or of the pause after it, it has *)
(* told both connections and every process it has a handle to to end.      *)
(* Only a cancel that strikes the closing of the connections itself cuts   *)
(* that short (runner.py:413-419, 474-485).                                *)
EndIsClean ==
    [][held /\ pc # "ended" /\ pc' = "ended" /\ cancels' = cancels =>
          \A r \in Resources : res'[r] # "open"]_vars

(* Only the dial can end the session in error: a sample that fails, hangs  *)
(* or prints nonsense is a missing point (runner.py:430-441).              *)
OnlyDialFails == exc = "error" => ~held

(* The session keeps the contract of run_session: the TimeoutError of a    *)
(* sample never hides a cancel.                                            *)
Contract == INSTANCE SessionContract WITH
    stage <- IF pc = "ended" THEN "ended"
             ELSE IF cancels > 0 THEN "cancelled" ELSE "running",
    outcome <- IF pc # "ended" THEN "none"
               ELSE IF exc = "none" THEN "normal" ELSE exc

KeepsContract == Contract!ContractSpec

(* Once connected, the session ends by itself, though no command it starts *)
(* on the hosts ever answers.                                              *)
EndsByItself == held ~> (pc = "ended")
=============================================================================
