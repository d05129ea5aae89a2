-------------------------- MODULE LatSessionProofs --------------------------
(* What holds of a latency session for every number of samples and of      *)
(* cancels: between samples no process it has a handle to runs unasked,    *)
(* only the dial ends the session in error, it keeps the contract the      *)
(* measurement task relies on, and an end that nothing cuts short leaves   *)
(* nothing open that it knows of.                                          *)
EXTENDS LatSession, TLAPS

-----------------------------------------------------------------------------
Between == {"connecting", "pausing", "closing_server", "closing_client",
            "ended"}

Causes == {"none", "failed", "timeout", "cancelled"}

ResourceStates == {"absent", "opening", "open", "ending", "gone"}

(* The part of the types the arguments below need.                         *)
ShapeOK ==
    /\ pc \in Sampling \union Between
    /\ exc \in {"none", "error", "cancelled"}
    /\ why \in Causes
    /\ res \in [Resources -> ResourceStates]
    /\ held \in BOOLEAN
    /\ cancels \in Nat

(* A process runs unasked only while an await is pending whose end, of     *)
(* whatever kind, leads to the finally block that ends it.                 *)
EachReaped ==
    /\ res["server_proc"] = "open" =>
          pc \in {"setup", "starting_client", "waiting_client",
                  "reaping_client"}
    /\ res["client_proc"] = "open" => pc = "waiting_client"

(* The session has its connections while it takes samples, and no          *)
(* exception is in flight but that of a sample that is being reaped.       *)
Progress ==
    /\ pc \in Sampling \union {"connecting", "pausing"} => exc = "none"
    /\ pc \in Sampling \union {"pausing"} => held
    /\ pc \in {"starting_server", "setup", "starting_client", "waiting_client"}
          => why = "none"

(* With its connections, it never ends in error.                           *)
NoErrorOnceHeld ==
    /\ held => exc # "error"
    /\ pc = "connecting" => ~held

(* A cancel is never swallowed: it unwinds the sample, then the session.   *)
CancelSticks ==
    cancels > 0 => IF pc \in Sampling THEN why = "cancelled" ELSE exc # "none"

LatInv ==
    /\ ShapeOK
    /\ EachReaped
    /\ Progress
    /\ NoErrorOnceHeld
    /\ CancelSticks

(* It holds before the session is asked for its first event ...            *)
LEMMA LatInit == Init => LatInv
<1> SUFFICES ASSUME Init PROVE LatInv
  OBVIOUS
<1>1. /\ res \in [Resources -> ResourceStates]
      /\ res["server_proc"] # "open" /\ res["client_proc"] # "open"
  BY DEF Init, ResourceStates, Resources, Conns, Procs
<1>2. /\ pc = "connecting" /\ exc = "none" /\ why = "none"
      /\ held = FALSE /\ cancels = 0
  BY DEF Init
<1>3. ShapeOK
  BY <1>1, <1>2 DEF ShapeOK, Between, Causes
<1>4. EachReaped /\ Progress /\ NoErrorOnceHeld
  BY <1>1, <1>2 DEF EachReaped, Progress, NoErrorOnceHeld, Sampling
<1>5. CancelSticks
  BY <1>2 DEF CancelSticks
<1> QED
  BY <1>3, <1>4, <1>5 DEF LatInv

(* No process begins to run in r0.                                         *)
NoneStarts(r0) ==
    /\ r0 \in [Resources -> ResourceStates]
    /\ \A p \in Procs : r0[p] = "open" => res[p] = "open"

(* What a failed or interrupted create_process leaves is no process.       *)
LEMMA UnstartedStartsNone == ShapeOK => NoneStarts(Unstarted) /\ NoneStarts(res)
BY DEF ShapeOK, NoneStarts, Unstarted, Starting, ResourceStates, Resources, Procs

(* Asking one process to end leaves the other as it was.                   *)
LEMMA AskEnds ==
  ASSUME NEW r0 \in [Resources -> ResourceStates], NEW r \in Resources
  PROVE  /\ Ask(r0, r) \in [Resources -> ResourceStates]
         /\ Ask(r0, r)[r] # "open"
         /\ \A q \in Resources : q # r => Ask(r0, r)[q] = r0[q]
BY DEF Ask, ResourceStates

(* Entering the finally block between two samples keeps the invariant.     *)
LEMMA CloseKeeps ==
  ASSUME LatInv, NEW e \in {"none", "error", "cancelled"}, NEW r0,
         NoneStarts(r0), Close(e, r0), held' = held, why' \in Causes,
         cancels' \in Nat, e = "error" => ~held, cancels' > 0 => e # "none",
         \A p \in Procs : r0[p] # "open"
  PROVE  LatInv'
<1>1. exc' = e /\ pc' \in {"closing_server", "ended"}
  BY DEF Close
<1>2. res' \in [Resources -> ResourceStates] /\ \A p \in Procs : res'[p] # "open"
  <2>1. "server_conn" \in Resources /\ "server_conn" \notin Procs
    BY DEF Resources, Conns, Procs
  <2>2. Procs \subseteq Resources
    BY DEF Resources
  <2>3. r0 \in [Resources -> ResourceStates]
    BY DEF NoneStarts
  <2>4. res' = Ask(r0, "server_conn") \/ res' = r0
    BY DEF Close
  <2> QED
    BY <2>1, <2>2, <2>3, <2>4, AskEnds
<1>3. held' \in BOOLEAN
  BY DEF LatInv, ShapeOK
<1>4. "server_proc" \in Procs /\ "client_proc" \in Procs
  BY DEF Procs
<1> QED
  BY <1>1, <1>2, <1>3, <1>4
  DEF LatInv, ShapeOK, EachReaped, Progress, NoErrorOnceHeld, CancelSticks,
      Sampling, Between

(* So does the end of a sample with the exception w ...                    *)
LEMMA SampleEndsKeeps ==
  ASSUME LatInv, pc \in Sampling, NEW w \in Causes, NEW r0,
         NoneStarts(r0), SampleEnds(w, r0), held' = held,
         cancels' \in Nat, cancels' > 0 => w = "cancelled",
         \A p \in Procs : r0[p] # "open"
  PROVE  LatInv'
<1>1. CASE w = "cancelled"
  <2>1. Close("cancelled", r0) /\ why' \in Causes
    BY <1>1 DEF SampleEnds
  <2> QED
    BY <2>1, CloseKeeps
<1>2. CASE w # "cancelled"
  <2>1. pc' = "pausing" /\ res' = r0 /\ exc' = exc /\ why' = w
    BY <1>2 DEF SampleEnds
  <2>2. held /\ exc = "none"
    BY DEF LatInv, Progress
  <2>3. "server_proc" \in Procs /\ "client_proc" \in Procs
    BY DEF Procs
  <2> QED
    BY <1>2, <2>1, <2>2, <2>3
    DEF LatInv, ShapeOK, EachReaped, Progress, NoErrorOnceHeld, CancelSticks,
        Sampling, Between, NoneStarts
<1> QED
  BY <1>1, <1>2

(* ... and each step of its unwinding.                                     *)
LEMMA UnwindKeeps ==
  ASSUME LatInv, pc \in Sampling, NEW w \in Causes, NEW r0,
         NoneStarts(r0), Unwind(w, r0), held' = held,
         cancels' \in Nat, cancels' > 0 => w = "cancelled"
  PROVE  LatInv'
<1>p. /\ "server_proc" \in Procs /\ "client_proc" \in Procs
      /\ Procs \subseteq Resources
      /\ \A p \in Procs : p = "server_proc" \/ p = "client_proc"
  BY DEF Procs, Resources
<1>r. r0 \in [Resources -> ResourceStates]
  BY DEF NoneStarts
<1>1. CASE pc = "waiting_client"
  <2>1. /\ pc' = "reaping_client" /\ why' = w /\ exc' = exc
        /\ res' = Ask(r0, "client_proc")
    BY <1>1 DEF Unwind
  <2>2. /\ res' \in [Resources -> ResourceStates]
        /\ res'["client_proc"] # "open"
    BY <2>1, <1>p, <1>r, AskEnds
  <2> QED
    BY <1>1, <2>1, <2>2
    DEF LatInv, ShapeOK, EachReaped, Progress, NoErrorOnceHeld, CancelSticks,
        Sampling, Between
<1>2. CASE pc \in {"setup", "starting_client", "reaping_client"}
  <2>1. /\ pc' = "reaping_server" /\ why' = w /\ exc' = exc
        /\ res' = Ask(r0, "server_proc")
    BY <1>2 DEF Unwind
  <2>2. res["client_proc"] # "open" /\ r0["client_proc"] # "open"
    BY <1>2, <1>p DEF LatInv, EachReaped, NoneStarts
  <2>3. /\ res' \in [Resources -> ResourceStates]
        /\ res'["server_proc"] # "open"
        /\ res'["client_proc"] = r0["client_proc"]
    BY <2>1, <1>p, <1>r, AskEnds
  <2> QED
    BY <1>2, <2>1, <2>2, <2>3
    DEF LatInv, ShapeOK, EachReaped, Progress, NoErrorOnceHeld, CancelSticks,
        Sampling, Between
<1>3. CASE pc \in {"starting_server", "reaping_server"}
  <2>1. SampleEnds(w, r0)
    BY <1>3 DEF Unwind
  <2>2. res["server_proc"] # "open" /\ res["client_proc"] # "open"
    BY <1>3 DEF LatInv, EachReaped
  <2>3. \A p \in Procs : r0[p] # "open"
    BY <2>2, <1>p DEF NoneStarts
  <2> QED
    BY <2>1, <2>3, SampleEndsKeeps
<1> QED
  BY <1>1, <1>2, <1>3 DEF Sampling

-----------------------------------------------------------------------------
(* Every step of the session keeps it,                                     *)
LEMMA LatSessionKeeps == LatInv /\ SessionStep => LatInv'
<1> SUFFICES ASSUME LatInv, SessionStep PROVE LatInv'
  OBVIOUS
<1>n. /\ NoneStarts(res) /\ NoneStarts(Unstarted)
      /\ why \in Causes /\ cancels \in Nat /\ Causes = {"none", "failed", "timeout", "cancelled"}
  BY UnstartedStartsNone DEF LatInv, ShapeOK, Causes
<1> USE DEF Sampling
<1>1. CASE Connected
  <2>1. cancels = 0 /\ exc = "none"
    BY <1>1 DEF Connected, LatInv, ShapeOK, Progress, CancelSticks
  <2> QED
    BY <1>1, <2>1
    DEF Connected, StartSample, LatInv, ShapeOK, EachReaped, Progress,
        NoErrorOnceHeld, CancelSticks, Between, Causes, ResourceStates,
        Resources, Conns, Procs
<1>2. CASE ConnectFailed
  <2>1. /\ pc = "connecting" /\ Close("error", res) /\ held' = held
        /\ why' = why /\ cancels' = cancels
    BY <1>2 DEF ConnectFailed
  <2>2. ~held /\ \A p \in Procs : res[p] # "open"
    BY <2>1 DEF LatInv, NoErrorOnceHeld, EachReaped, Procs
  <2> QED
    BY <2>1, <2>2, <1>n, CloseKeeps
<1>3. CASE ServerStarted \/ SetUp \/ ClientStarted
  BY <1>3
  DEF ServerStarted, SetUp, ClientStarted, LatInv, ShapeOK, EachReaped,
      Progress, NoErrorOnceHeld, CancelSticks, Between, ResourceStates,
      Resources, Conns, Procs
<1>4. CASE SampleTaken
  <2>1. /\ pc = "waiting_client" /\ Unwind("none", res) /\ held' = held
        /\ cancels' = cancels
    BY <1>4 DEF SampleTaken
  <2>2. cancels = 0
    BY <2>1 DEF LatInv, ShapeOK, Progress, CancelSticks
  <2> QED
    BY <2>1, <2>2, <1>n, UnwindKeeps
<1>5. CASE SampleFails
  <2>1. /\ pc \in {"starting_server", "starting_client", "waiting_client"}
        /\ Unwind("failed", Unstarted) /\ held' = held /\ cancels' = cancels
    BY <1>5 DEF SampleFails
  <2>2. cancels = 0
    BY <2>1 DEF LatInv, ShapeOK, Progress, CancelSticks
  <2> QED
    BY <2>1, <2>2, <1>n, UnwindKeeps
<1>6. CASE Reaped
  <2>1. /\ pc \in {"reaping_client", "reaping_server"}
        /\ Unwind(why, res) /\ held' = held /\ cancels' = cancels
    BY <1>6 DEF Reaped
  <2>2. cancels > 0 => why = "cancelled"
    BY <2>1 DEF LatInv, CancelSticks
  <2> QED
    BY <2>1, <2>2, <1>n, UnwindKeeps
<1>7. CASE SampleExpires
  <2> DEFINE w == IF why = "cancelled" THEN why ELSE "timeout"
  <2>1. pc \in Sampling /\ Unwind(w, Unstarted) /\ held' = held
        /\ cancels' = cancels
    BY <1>7 DEF SampleExpires
  <2>2. w \in Causes /\ (cancels > 0 => w = "cancelled")
    BY <2>1, <1>n DEF LatInv, CancelSticks
  <2> HIDE DEF w
  <2> QED
    BY <2>1, <2>2, <1>n, UnwindKeeps
<1>8. CASE NextSample
  <2>1. cancels = 0 /\ exc = "none"
    BY <1>8 DEF NextSample, LatInv, ShapeOK, Progress, CancelSticks
  <2> QED
    BY <1>8, <2>1
    DEF NextSample, StartSample, LatInv, ShapeOK, EachReaped, Progress,
        NoErrorOnceHeld, CancelSticks, Between, Causes, ResourceStates,
        Resources, Conns, Procs
<1>9. CASE LastSample
  <2>1. /\ pc = "pausing" /\ Close("none", res) /\ held' = held
        /\ why' = why /\ cancels' = cancels
    BY <1>9 DEF LastSample
  <2>2. cancels = 0 /\ \A p \in Procs : res[p] # "open"
    BY <2>1
    DEF LatInv, ShapeOK, Progress, CancelSticks, EachReaped, Procs
  <2> QED
    BY <2>1, <2>2, <1>n, CloseKeeps
<1>10. CASE ServerConnClosed \/ ClientConnClosed
  <2>1. /\ pc \in {"closing_server", "closing_client"}
        /\ pc' \in {"closing_client", "ended"}
        /\ UNCHANGED <<exc, why, held, cancels>>
        /\ res' = Ask(res, "client_conn") \/ res' = res
    BY <1>10 DEF ServerConnClosed, ClientConnClosed
  <2>2. /\ res' \in [Resources -> ResourceStates]
        /\ res'["server_proc"] = res["server_proc"]
        /\ res'["client_proc"] = res["client_proc"]
    <3>1. /\ "client_conn" \in Resources /\ "server_proc" \in Resources
          /\ "client_proc" \in Resources
      BY DEF Resources, Conns, Procs
    <3> QED
      BY <2>1, <3>1, AskEnds DEF LatInv, ShapeOK
  <2> QED
    BY <2>1, <2>2
    DEF LatInv, ShapeOK, EachReaped, Progress, NoErrorOnceHeld, CancelSticks,
        Between
<1> QED
  BY <1>1, <1>2, <1>3, <1>4, <1>5, <1>6, <1>7, <1>8, <1>9, <1>10
  DEF SessionStep

(* a cancel, wherever it is delivered,                                     *)
LEMMA LatCancelKeeps == LatInv /\ Cancel => LatInv'
<1> SUFFICES ASSUME LatInv, Cancel PROVE LatInv'
  OBVIOUS
<1>n. /\ cancels' = cancels + 1 /\ cancels' \in Nat /\ held' = held
      /\ why \in Causes /\ NoneStarts(res) /\ NoneStarts(Unstarted)
  BY UnstartedStartsNone DEF Cancel, LatInv, ShapeOK
<1>1. CASE CancelConnecting
  <2> DEFINE r0 == [r \in Resources |->
                      IF res[r] = "opening" THEN "gone" ELSE res[r]]
  <2>1. pc = "connecting" /\ Close("cancelled", r0) /\ why' = why
    BY <1>1 DEF CancelConnecting
  <2>2. NoneStarts(r0) /\ \A p \in Procs : r0[p] # "open"
    BY <2>1
    DEF LatInv, ShapeOK, EachReaped, NoneStarts, ResourceStates, Resources,
        Conns, Procs
  <2> HIDE DEF r0
  <2> QED
    BY <2>1, <2>2, <1>n, CloseKeeps
<1>2. CASE CancelSampling
  <2>1. pc \in Sampling /\ Unwind("cancelled", Unstarted)
    BY <1>2 DEF CancelSampling
  <2>2. "cancelled" \in Causes
    BY DEF Causes
  <2> QED
    BY <2>1, <2>2, <1>n, UnwindKeeps
<1>3. CASE CancelPausing
  <2>1. pc = "pausing" /\ Close("cancelled", res) /\ why' = why
    BY <1>3 DEF CancelPausing
  <2>2. \A p \in Procs : res[p] # "open"
    BY <2>1 DEF LatInv, EachReaped, Procs
  <2> QED
    BY <2>1, <2>2, <1>n, CloseKeeps
<1>4. CASE CancelClosing
  BY <1>4, <1>n
  DEF CancelClosing, LatInv, ShapeOK, EachReaped, Progress, NoErrorOnceHeld,
      CancelSticks, Sampling, Between
<1> QED
  BY <1>1, <1>2, <1>3, <1>4 DEF Cancel

(* and the hosts, whatever they do.                                        *)
LEMMA LatOthersKeep == LatInv /\ (NetworkStep \/ UNCHANGED vars) => LatInv'
<1> SUFFICES ASSUME LatInv, NetworkStep \/ UNCHANGED vars PROVE LatInv'
  OBVIOUS
<1> USE DEF LatInv, ShapeOK, EachReaped, Progress, NoErrorOnceHeld,
            CancelSticks, ResourceStates
<1>1. ASSUME NEW c \in Conns, DialOk(c) PROVE LatInv'
  BY <1>1 DEF DialOk, Network, Resources, Conns, Procs
<1>2. ASSUME NEW r \in Resources, NEW from, Network(r, from, "gone")
      PROVE LatInv'
  BY <1>2 DEF Network, Resources, Conns, Procs
<1>3. CASE UNCHANGED vars
  BY <1>3 DEF vars
<1>4. ASSUME NEW p \in Procs, StrayExits(p) PROVE LatInv'
  BY <1>4 DEF StrayExits
<1> QED
  BY <1>1, <1>2, <1>3, <1>4
  DEF NetworkStep, DialFails, ConnCloses, ProcExits, Resources

LEMMA LatStep == LatInv /\ [Next]_vars => LatInv'
BY LatSessionKeeps, LatCancelKeeps, LatOthersKeep DEF Next

LEMMA LatAlways == Spec => []LatInv
BY LatInit, LatStep, PTL DEF Spec

-----------------------------------------------------------------------------
(* Outside a sample no process the session has a handle to runs unasked,   *)
(* for every number of samples and wherever timeouts and cancels strike.   *)
THEOREM HandlesAreReaped == Spec => []ReapsWhatItHolds
<1>1. LatInv => ReapsWhatItHolds
  BY DEF LatInv, EachReaped, ReapsWhatItHolds, Sampling, Procs
<1> QED
  BY <1>1, LatAlways, PTL

(* No failure of a sample ends the session in error.                       *)
THEOREM DialAloneFails == Spec => []OnlyDialFails
<1>1. LatInv => OnlyDialFails
  BY DEF LatInv, NoErrorOnceHeld, OnlyDialFails
<1> QED
  BY <1>1, LatAlways, PTL

-----------------------------------------------------------------------------
(* A step ends the session, or leaves its end alone; a cancel counts one.  *)
LEMMA LatMoves ==
  LatInv /\ [Next]_vars =>
    /\ cancels' = cancels \/ cancels' = cancels + 1
    /\ pc = "ended" => pc' = pc /\ exc' = exc /\ cancels' = cancels
<1> SUFFICES ASSUME LatInv, [Next]_vars
             PROVE /\ cancels' = cancels \/ cancels' = cancels + 1
                   /\ pc = "ended" => pc' = pc /\ exc' = exc
                                      /\ cancels' = cancels
  OBVIOUS
<1>1. CASE SessionStep
  BY <1>1
  DEF SessionStep, Connected, ConnectFailed, ServerStarted, SetUp,
      ClientStarted, SampleTaken, SampleFails, Reaped, SampleExpires,
      NextSample, LastSample, ServerConnClosed, ClientConnClosed, Sampling
<1>2. CASE Cancel
  BY <1>2
  DEF Cancel, CancelConnecting, CancelSampling, CancelPausing, CancelClosing,
      Sampling
<1>3. CASE NetworkStep
  BY <1>3 DEF NetworkStep, DialOk, DialFails, ConnCloses, ProcExits,
              StrayExits, Network
<1>4. CASE UNCHANGED vars
  BY <1>4 DEF vars
<1> QED
  BY <1>1, <1>2, <1>3, <1>4 DEF Next

(* Every step of the session is a step of its contract, or none.           *)
LEMMA LatContractStep ==
  LatInv /\ [Next]_vars => [Contract!ContractNext]_(Contract!contractVars)
<1> SUFFICES ASSUME LatInv, [Next]_vars
             PROVE Contract!ContractNext \/ UNCHANGED Contract!contractVars
  OBVIOUS
<1>i. LatInv'
  BY LatStep
<1>t. /\ cancels \in Nat /\ cancels' \in Nat
      /\ exc' \in {"none", "error", "cancelled"}
      /\ cancels' > 0 /\ pc' = "ended" => exc' # "none"
  BY <1>i DEF LatInv, ShapeOK, CancelSticks, Sampling
<1>c. cancels' = cancels \/ cancels' = cancels + 1
  BY LatMoves
<1> USE DEF Contract!ContractNext, Contract!contractVars, Contract!Ends,
            Contract!CancelDelivered, Contract!EndsByItself,
            Contract!EndsCancelled
<1>1. CASE pc = "ended"
  BY <1>1, LatMoves
<1>2. CASE pc # "ended" /\ pc' # "ended"
  BY <1>2, <1>t, <1>c
<1>3. CASE pc # "ended" /\ pc' = "ended"
  <2>1. CASE cancels' > 0
    BY <1>3, <1>t, <1>c, <2>1
  <2>2. CASE ~(cancels' > 0)
    BY <1>3, <1>t, <1>c, <2>2
  <2> QED
    BY <2>1, <2>2
<1> QED
  BY <1>1, <1>2, <1>3

(* The latency session implements the contract of run_session: the         *)
(* TimeoutError of a sample never hides a cancel of the session.           *)
THEOREM LatKeepsContract == Spec => KeepsContract
<1>1. Init => Contract!ContractInit
  BY DEF Init, Contract!ContractInit
<1> QED
  BY <1>1, LatAlways, LatContractStep, PTL
  DEF Spec, KeepsContract, Contract!ContractSpec

-----------------------------------------------------------------------------
(* The connections are closed in their order, and all of them are, unless  *)
(* a cancel strikes there.                                                 *)
ConnsClose ==
    /\ held => \A c \in Conns : res[c] # "opening"
    /\ pc \in {"closing_server", "closing_client"} =>
          held /\ res["server_conn"] # "open"
    /\ pc = "closing_client" => res["client_conn"] # "open"

(* In r0 no dial is under way once the session has its connections.        *)
Dialled(r0) ==
    /\ r0 \in [Resources -> ResourceStates]
    /\ held => \A c \in Conns : r0[c] # "opening"

LEMMA UnstartedDialled ==
  LatInv /\ ConnsClose => Dialled(res) /\ Dialled(Unstarted)
BY DEF LatInv, ShapeOK, ConnsClose, Dialled, Unstarted, Starting,
       ResourceStates, Resources, Procs, Conns

LEMMA ConnsInit == Init => ConnsClose
BY DEF Init, ConnsClose

(* The finally block asks the first connection to close ...                *)
LEMMA CloseShuts ==
  ASSUME NEW e, NEW r0, Dialled(r0), Close(e, r0), held' = held
  PROVE  ConnsClose'
<1>c. /\ "server_conn" \in Resources /\ Conns \subseteq Resources
      /\ "server_conn" \in Conns
  BY DEF Resources, Conns
<1>1. CASE held
  <2>1. pc' = "closing_server" /\ res' = Ask(r0, "server_conn")
    BY <1>1 DEF Close
  <2>2. /\ res'["server_conn"] # "open"
        /\ \A q \in Resources : q # "server_conn" => res'[q] = r0[q]
    BY <2>1, <1>c, AskEnds DEF Dialled
  <2>3. res'["server_conn"] # "opening"
    BY <1>1, <2>1, <1>c DEF Ask, Dialled
  <2>4. \A c \in Conns : res'[c] # "opening"
    BY <1>1, <1>c, <2>2, <2>3 DEF Dialled
  <2> QED
    BY <1>1, <2>1, <2>2, <2>4 DEF ConnsClose
<1>2. CASE ~held
  BY <1>2 DEF Close, ConnsClose
<1> QED
  BY <1>1, <1>2

(* ... and no unwinding of a sample gets around it.                        *)
LEMMA UnwindShuts ==
  ASSUME ConnsClose, pc \in Sampling, NEW w, NEW r0,
         Dialled(r0), Unwind(w, r0), held' = held
  PROVE  ConnsClose'
<1>c. /\ "server_proc" \in Resources /\ "client_proc" \in Resources
      /\ \A c \in Conns : /\ c \in Resources
                          /\ c # "server_proc" /\ c # "client_proc"
  BY DEF Resources, Conns, Procs
<1>1. CASE SampleEnds(w, r0)
  <2>1. Close("cancelled", r0) \/ (pc' = "pausing" /\ res' = r0)
    BY <1>1 DEF SampleEnds
  <2>2. CASE Close("cancelled", r0)
    BY <2>2, CloseShuts
  <2>3. CASE pc' = "pausing" /\ res' = r0
    BY <2>3 DEF ConnsClose, Dialled
  <2> QED
    BY <2>1, <2>2, <2>3
<1>2. CASE ~SampleEnds(w, r0)
  <2>1. /\ pc' \in {"reaping_client", "reaping_server"}
        /\ \/ res' = Ask(r0, "client_proc")
           \/ res' = Ask(r0, "server_proc")
    BY <1>2 DEF Unwind, Sampling
  <2>2. \A c \in Conns : res'[c] = r0[c]
    BY <2>1, <1>c, AskEnds DEF Dialled
  <2> QED
    BY <2>1, <2>2 DEF ConnsClose, Dialled
<1> QED
  BY <1>1, <1>2

(* Every step of the session keeps the order in which they are closed,     *)
LEMMA SessionShuts == LatInv /\ ConnsClose /\ SessionStep => ConnsClose'
<1> SUFFICES ASSUME LatInv, ConnsClose, SessionStep PROVE ConnsClose'
  OBVIOUS
<1>n. Dialled(res) /\ Dialled(Unstarted)
  BY UnstartedDialled
<1>c. /\ \A c \in Conns : /\ c \in Resources
                          /\ c # "server_proc" /\ c # "client_proc"
      /\ "server_proc" \in Resources /\ "client_proc" \in Resources
      /\ res \in [Resources -> ResourceStates]
  BY DEF Resources, Conns, Procs, LatInv, ShapeOK
<1>1. CASE Connected \/ NextSample
  <2>1. /\ pc' = "starting_server"
        /\ \A c \in Conns : res'[c] = res[c] /\ (held \/ res[c] = "open")
    BY <1>1, <1>c DEF Connected, NextSample, StartSample, LatInv, Progress
  <2> QED
    BY <2>1 DEF ConnsClose
<1>2. CASE ConnectFailed \/ LastSample
  BY <1>2, <1>n, CloseShuts DEF ConnectFailed, LastSample
<1>3. CASE ServerStarted \/ SetUp \/ ClientStarted
  <2>1. /\ pc' \in {"setup", "starting_client", "waiting_client"}
        /\ held' = held
        /\ \A c \in Conns : res'[c] = res[c]
    BY <1>3, <1>c DEF ServerStarted, SetUp, ClientStarted
  <2> QED
    BY <2>1 DEF ConnsClose
<1>4. CASE SampleTaken \/ SampleFails \/ Reaped \/ SampleExpires
  <2>1. /\ pc \in Sampling /\ held' = held
        /\ \E w : Unwind(w, res) \/ Unwind(w, Unstarted)
    BY <1>4 DEF SampleTaken, SampleFails, Reaped, SampleExpires, Sampling
  <2> QED
    BY <2>1, <1>n, UnwindShuts
<1>5. CASE ServerConnClosed
  <2>1. /\ pc' = "closing_client" /\ held' = held
        /\ res["server_conn"] = "gone" /\ res' = Ask(res, "client_conn")
        /\ held
    BY <1>5 DEF ServerConnClosed, ConnsClose
  <2>2. /\ res'["client_conn"] # "open"
        /\ res'["client_conn"] = "opening" => res["client_conn"] = "opening"
        /\ \A c \in Conns : c # "client_conn" => res'[c] = res[c]
    BY <2>1, <1>c, AskEnds DEF Ask, Resources, Conns
  <2>3. "server_conn" \in Conns /\ "client_conn" \in Conns
        /\ "server_conn" # "client_conn"
    BY DEF Conns
  <2> QED
    BY <2>1, <2>2, <2>3 DEF ConnsClose
<1>6. CASE ClientConnClosed
  BY <1>6 DEF ClientConnClosed, ConnsClose
<1> QED
  BY <1>1, <1>2, <1>3, <1>4, <1>5, <1>6 DEF SessionStep

(* and so do a cancel and the hosts.                                       *)
LEMMA CancelShuts == LatInv /\ ConnsClose /\ Cancel => ConnsClose'
<1> SUFFICES ASSUME LatInv, ConnsClose, Cancel PROVE ConnsClose'
  OBVIOUS
<1>n. held' = held /\ Dialled(res) /\ Dialled(Unstarted)
  BY UnstartedDialled DEF Cancel
<1>1. CASE CancelConnecting
  <2> DEFINE r0 == [r \in Resources |->
                      IF res[r] = "opening" THEN "gone" ELSE res[r]]
  <2>1. Close("cancelled", r0) /\ ~held
    BY <1>1 DEF CancelConnecting, LatInv, NoErrorOnceHeld
  <2>2. Dialled(r0)
    BY <2>1, <1>n DEF Dialled, ResourceStates
  <2> HIDE DEF r0
  <2> QED
    BY <2>1, <2>2, <1>n, CloseShuts
<1>2. CASE CancelSampling
  BY <1>2, <1>n, UnwindShuts DEF CancelSampling
<1>3. CASE CancelPausing
  BY <1>3, <1>n, CloseShuts DEF CancelPausing
<1>4. CASE CancelClosing
  BY <1>4, <1>n DEF CancelClosing, ConnsClose
<1> QED
  BY <1>1, <1>2, <1>3, <1>4 DEF Cancel

LEMMA OthersShut ==
  LatInv /\ ConnsClose /\ (NetworkStep \/ UNCHANGED vars) => ConnsClose'
<1> SUFFICES ASSUME LatInv, ConnsClose, NetworkStep \/ UNCHANGED vars
             PROVE ConnsClose'
  OBVIOUS
<1>c. /\ "server_conn" \in Conns /\ "client_conn" \in Conns
      /\ Conns \subseteq Resources /\ Procs \subseteq Resources
      /\ res \in [Resources -> ResourceStates]
  BY DEF Resources, Conns, LatInv, ShapeOK
<1>1. ASSUME NEW c \in Conns, DialOk(c) PROVE ConnsClose'
  BY <1>1 DEF DialOk, Network, ConnsClose
<1>2. ASSUME NEW r \in Resources, NEW from, Network(r, from, "gone")
      PROVE  ConnsClose'
  <2>1. /\ UNCHANGED <<pc, held>>
        /\ \A q \in Resources : res'[q] = res[q] \/ res'[q] = "gone"
    BY <1>2, <1>c DEF Network
  <2> QED
    BY <2>1, <1>c DEF ConnsClose
<1>3. ASSUME NEW p \in Procs, StrayExits(p) PROVE ConnsClose'
  BY <1>3 DEF StrayExits, ConnsClose
<1>4. CASE UNCHANGED vars
  BY <1>4 DEF vars, ConnsClose
<1> QED
  BY <1>1, <1>2, <1>3, <1>4
  DEF NetworkStep, DialFails, ConnCloses, ProcExits, Resources

LEMMA ConnsAlways == Spec => []ConnsClose
<1>1. LatInv /\ ConnsClose /\ [Next]_vars => ConnsClose'
  BY SessionShuts, CancelShuts, OthersShut DEF Next
<1> QED
  BY <1>1, ConnsInit, LatAlways, PTL DEF Spec

(* However a session that has its connections ends, unless a cancel cuts   *)
(* the closing of its connections short, it has told both of them and      *)
(* every process it has a handle to to end.                                *)
THEOREM EndLeavesNothingHeld == Spec => EndIsClean
<1>1. /\ LatInv /\ ConnsClose /\ [Next]_vars
      => [held /\ pc # "ended" /\ pc' = "ended" /\ cancels' = cancels =>
             \A r \in Resources : res'[r] # "open"]_vars
  <2> SUFFICES ASSUME LatInv, ConnsClose, Next, held, pc # "ended",
                      pc' = "ended", cancels' = cancels
               PROVE  \A r \in Resources : res'[r] # "open"
    BY DEF vars
  <2>1. ~Cancel
    <3>1. cancels \in Nat /\ cancels # cancels + 1
      BY DEF LatInv, ShapeOK
    <3> QED
      BY <3>1 DEF Cancel
  <2>2. ~NetworkStep
    BY DEF NetworkStep, DialOk, DialFails, ConnCloses, ProcExits, StrayExits,
           Network
  <2>3. ASSUME NEW w, NEW r0, ~(w = "cancelled" /\ ~held)
        PROVE  ~Unwind(w, r0)
    BY DEF Unwind, SampleEnds, Close
  <2>4. ~ConnectFailed /\ ~LastSample
    BY DEF ConnectFailed, LastSample, Close, LatInv, NoErrorOnceHeld
  <2>5. ClientConnClosed
    BY <2>1, <2>2, <2>3, <2>4
    DEF Next, SessionStep, Connected, ServerStarted, SetUp, ClientStarted,
        SampleTaken, SampleFails, Reaped, SampleExpires, NextSample,
        StartSample, ServerConnClosed
  <2>6. pc = "closing_client" /\ res["client_conn"] = "gone" /\ res' = res
    BY <2>5 DEF ClientConnClosed
  <2> QED
    BY <2>6 DEF LatInv, EachReaped, ConnsClose, Resources, Conns, Procs
<1> QED
  BY <1>1, LatAlways, ConnsAlways, PTL DEF Spec, EndIsClean
=============================================================================
