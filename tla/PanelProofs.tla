---------------------------- MODULE PanelProofs -----------------------------
(* What holds between the request of a page and what the page draws of it. *)
(* Of a launch, for every request and every environment: the two commands  *)
(* agree and the exit code of poc.py tells the outcome.  Of the charts,    *)
(* for every value that is measured, every resolution and every window:    *)
(* the cards agree with the points, the axis fits them, the chart is of    *)
(* the run.                                                                *)
EXTENDS Launch, Charts, WellFoundedInduction, FiniteSetTheorems,
        SequenceTheorems, TLAPS

-----------------------------------------------------------------------------
Early == {"submitted", "accepted"}

(* The commands of a request that passed the validation: both come from    *)
(* that request, by the builder of its tool.                               *)
BuiltFrom(r, rdma_ip, a, b) ==
    /\ Valid(r)
    /\ rdma_ip # Absent
    /\ \/ /\ r.tool = "ib_write_bw"
          /\ a = BuildIbWriteBw(r, Absent)
          /\ b = BuildIbWriteBw(r, rdma_ip)
       \/ /\ r.tool = "iperf3"
          /\ a = BuildIperf3(r, rdma_ip, TRUE)
          /\ b = BuildIperf3(r, rdma_ip, FALSE)
       \/ /\ r.tool = "ib_read_lat"
          /\ a = BuildIbReadLat(r, Absent, 1000)
          /\ b = BuildIbReadLat(r, rdma_ip, 1000)

CommandsMatch ==
    \/ server = Absent /\ client = Absent
    \/ BuiltFrom(req, rdma_a, server, client)

(* What is accepted is valid and has the settings it needs, and until it   *)
(* is launched nothing has run.                                            *)
AcceptedIsReady ==
    /\ entry = "api" => settings
    /\ req.bidir \in BOOLEAN
    /\ rdma_a # Absent
    /\ stage \in {"accepted", "launched"} => Valid(req)
    /\ stage = "accepted" /\ req.tool # "mock" => settings
    /\ stage \in Early =>
          /\ server = Absent /\ client = Absent
          /\ session = "running" /\ outcome = "none" /\ sigints = 0

(* A session that poc.py steps runs undisturbed until the first Ctrl-C.    *)
InterruptsCount ==
    /\ sigints \in 0..2
    /\ stage = "launched" /\ session = "running" => sigints = 0
    /\ stage = "launched" => outcome = "none"

ExitMatches ==
    exit # Absent =>
        /\ stage = "over"
        /\ (exit = 0) <=> (outcome = "normal" /\ sigints = 0)
        /\ exit = 130 => sigints > 0
        /\ exit \in {2, 3} => server = Absent /\ outcome = "none"
        /\ exit = 3 => req.tool # "mock"

LaunchInv ==
    CommandsMatch /\ AcceptedIsReady /\ InterruptsCount /\ ExitMatches

-----------------------------------------------------------------------------
(* What the arguments below take from the validation.                      *)
LEMMA ValidBounds ==
  ASSUME NEW r, Valid(r)
  PROVE  /\ r.tool \in ToolKind
         /\ ~(r.bidir /\ r.tool = "ib_read_lat")
<1>1. r.tool \in ToolKind
  BY SMTT(30) DEF Valid
<1>2. ~(r.bidir /\ r.tool = "ib_read_lat")
  BY SMTT(30) DEF Valid
<1> QED
  BY <1>1, <1>2

LEMMA LaunchInit == Init => LaunchInv
<1> SUFFICES ASSUME Init PROVE LaunchInv
  OBVIOUS
<1>1. CommandsMatch
  BY DEF Init, CommandsMatch
<1>2. AcceptedIsReady
  <2>1. req \in Requests \union PanelRequests
    BY DEF Init
  <2>2. req.bidir \in BOOLEAN
    BY <2>1 DEF Requests, PanelRequests
  <2>3. /\ stage = "submitted" /\ (entry = "api" => settings)
        /\ server = Absent /\ client = Absent /\ rdma_a # Absent
        /\ session = "running" /\ outcome = "none" /\ sigints = 0
    BY AbsentAssumption DEF Init
  <2> QED
    BY <2>2, <2>3 DEF AcceptedIsReady
<1>3. InterruptsCount
  <2>1. sigints = 0 /\ outcome = "none"
    BY DEF Init
  <2> QED
    BY <2>1 DEF InterruptsCount
<1>4. ExitMatches
  BY DEF Init, ExitMatches
<1> QED
  BY <1>1, <1>2, <1>3, <1>4 DEF LaunchInv

(* What leaves the request and the commands alone leaves them matching.    *)
LEMMA MatchStays ==
  ASSUME CommandsMatch, UNCHANGED <<req, rdma_a, server, client>>
  PROVE  CommandsMatch'
BY DEF CommandsMatch

(* An exit leaves the commands alone and is the first.                     *)
LEMMA ExitKeeps ==
  ASSUME LaunchInv, NEW code, Exits(code), UNCHANGED <<request, commands>>,
         sigints' \in 0..2,
         (code = 0) <=> (outcome' = "normal" /\ sigints' = 0),
         code = 130 => sigints' > 0,
         code \in {2, 3} => server = Absent /\ outcome' = "none",
         code = 3 => req.tool # "mock"
  PROVE  LaunchInv'
<1> USE DEF LaunchInv, Exits, request, commands
<1>1. CommandsMatch'
  BY MatchStays
<1>2. AcceptedIsReady'
  BY DEF AcceptedIsReady, Early
<1>3. InterruptsCount'
  BY DEF InterruptsCount
<1>4. ExitMatches'
  BY DEF ExitMatches
<1> QED
  BY <1>1, <1>2, <1>3, <1>4

(* A launch keeps it when its commands come from the valid request.        *)
LEMMA LaunchedKeeps ==
  ASSUME LaunchInv, NEW a, NEW b, stage = "accepted", Launched(a, b),
         CommandsMatch'
  PROVE  LaunchInv'
<1> USE DEF LaunchInv, Launched, request, cli
<1>1. AcceptedIsReady'
  BY DEF AcceptedIsReady, Early
<1>2. InterruptsCount'
  BY DEF InterruptsCount, AcceptedIsReady, Early
<1>3. ExitMatches'
  BY DEF ExitMatches
<1> QED
  BY <1>1, <1>2, <1>3

(* Up to the launch: the validation, the settings and the builders,        *)
LEMMA RequestKeeps ==
  LaunchInv /\ (Validate \/ PocAccepts \/ RunMock \/ RunWriteBw \/ RunIperf3
               \/ RunReadLat) => LaunchInv'
<1> SUFFICES ASSUME LaunchInv, Validate \/ PocAccepts \/ RunMock \/ RunWriteBw
                               \/ RunIperf3 \/ RunReadLat
             PROVE LaunchInv'
  OBVIOUS
<1>1. CASE Validate \/ PocAccepts
  <2>1. CommandsMatch'
    BY <1>1, MatchStays
    DEF Validate, PocAccepts, request, commands, LaunchInv
  <2>2. AcceptedIsReady'
    BY <1>1 DEF Validate, PocAccepts, request, commands, cli, LaunchInv,
                AcceptedIsReady, Early
  <2>3. InterruptsCount'
    BY <1>1 DEF Validate, PocAccepts, request, commands, cli, LaunchInv,
                InterruptsCount
  <2>4. ExitMatches'
    BY <1>1 DEF Validate, PocAccepts, request, commands, cli, LaunchInv,
                ExitMatches
  <2> QED
    BY <2>1, <2>2, <2>3, <2>4 DEF LaunchInv
<1>2. Tool("mock") \/ Tool("ib_write_bw") \/ Tool("iperf3")
         \/ Tool("ib_read_lat") => stage = "accepted" /\ Valid(req) /\ rdma_a # Absent
  BY DEF Tool, LaunchInv, AcceptedIsReady
<1>3. CASE RunMock
  BY <1>2, <1>3, LaunchedKeeps DEF RunMock, Launched, CommandsMatch
<1>4. CASE RunWriteBw
  <2>1. BuiltFrom(req, rdma_a, BuildIbWriteBw(req, Absent),
                       BuildIbWriteBw(req, rdma_a))
    BY <1>2, <1>4 DEF RunWriteBw, Tool, BuiltFrom
  <2>2. CommandsMatch'
    BY <1>4, <2>1 DEF RunWriteBw, Launched, request, CommandsMatch
  <2> QED
    BY <1>2, <1>4, <2>2, LaunchedKeeps DEF RunWriteBw
<1>5. CASE RunIperf3
  <2>1. BuiltFrom(req, rdma_a, BuildIperf3(req, rdma_a, TRUE), BuildIperf3(req, rdma_a, FALSE))
    BY <1>2, <1>5 DEF RunIperf3, Tool, BuiltFrom
  <2>2. CommandsMatch'
    BY <1>5, <2>1 DEF RunIperf3, Launched, request, CommandsMatch
  <2> QED
    BY <1>2, <1>5, <2>2, LaunchedKeeps DEF RunIperf3
<1>6. CASE RunReadLat
  <2>1. BuiltFrom(req, rdma_a, BuildIbReadLat(req, Absent, 1000),
                       BuildIbReadLat(req, rdma_a, 1000))
    BY <1>2, <1>6 DEF RunReadLat, Tool, BuiltFrom
  <2>2. CommandsMatch'
    BY <1>6, <2>1 DEF RunReadLat, Launched, request, CommandsMatch
  <2> QED
    BY <1>2, <1>6, <2>2, LaunchedKeeps DEF RunReadLat
<1> QED
  BY <1>1, <1>3, <1>4, <1>5, <1>6

(* the refusals of poc.py, with nothing run,                               *)
LEMMA RefusalsKeep ==
  LaunchInv /\ (PocRejects \/ PocLacksSettings \/ InterruptEarly) => LaunchInv'
<1> SUFFICES ASSUME LaunchInv, PocRejects \/ PocLacksSettings \/ InterruptEarly
             PROVE LaunchInv'
  OBVIOUS
<1>1. /\ stage \in Early
      /\ server = Absent /\ outcome = "none" /\ sigints = 0
  BY DEF PocRejects, PocLacksSettings, InterruptEarly, Early, LaunchInv,
         AcceptedIsReady
<1>2. CASE PocRejects
  BY <1>1, <1>2, ExitKeeps DEF PocRejects
<1>3. CASE PocLacksSettings
  BY <1>1, <1>3, ExitKeeps DEF PocLacksSettings
<1>4. CASE InterruptEarly
  BY <1>1, <1>4, ExitKeeps DEF InterruptEarly
<1> QED
  BY <1>2, <1>3, <1>4

(* and the session that poc.py steps, up to its end.                       *)
LEMMA SessionKeeps ==
  LaunchInv /\ (Interrupt \/ InterruptAgain \/ SessionEnds \/ InterruptedEnds)
    => LaunchInv'
<1> SUFFICES ASSUME LaunchInv, Interrupt \/ InterruptAgain \/ SessionEnds
                               \/ InterruptedEnds
             PROVE LaunchInv'
  OBVIOUS
<1>1. /\ stage = "launched"
      /\ sigints \in 0..2
      /\ session = "running" => sigints = 0
  BY DEF Interrupt, InterruptAgain, SessionEnds, InterruptedEnds, PocSession,
         LaunchInv, InterruptsCount
<1>2. CASE Interrupt \/ InterruptAgain
  <2> USE DEF Interrupt, InterruptAgain, Session!CancelDelivered, request,
              commands, LaunchInv
  <2>1. CommandsMatch'
    BY <1>2, MatchStays
  <2>2. AcceptedIsReady'
    BY <1>1, <1>2 DEF AcceptedIsReady, Early
  <2>3. InterruptsCount'
    BY <1>1, <1>2 DEF InterruptsCount
  <2>4. ExitMatches'
    BY <1>1, <1>2 DEF ExitMatches
  <2> QED
    BY <2>1, <2>2, <2>3, <2>4
<1>3. CASE SessionEnds
  <2>1. sigints = 0 /\ sigints' = 0
    BY <1>1, <1>3 DEF SessionEnds, Session!EndsByItself
  <2>2. outcome' \in {"normal", "error", "cancelled"}
    BY <1>3 DEF SessionEnds, Session!EndsByItself, Session!Ends
  <2>3. ExitCode(outcome', sigints) = IF outcome' = "normal" THEN 0 ELSE 1
    BY <2>1 DEF ExitCode
  <2> QED
    BY <1>3, <2>1, <2>2, <2>3, ExitKeeps DEF SessionEnds
<1>4. CASE InterruptedEnds
  <2>1. sigints' \in 1..2
    BY <1>1, <1>4 DEF InterruptedEnds
  <2>2. outcome' \in {"error", "cancelled"}
    BY <1>4 DEF InterruptedEnds, Session!EndsCancelled, Session!Ends
  <2>3. ExitCode(outcome', sigints') \in {1, 130}
    BY <2>2 DEF ExitCode
  <2> QED
    BY <1>4, <2>1, <2>2, <2>3, ExitKeeps DEF InterruptedEnds
<1> QED
  BY <1>2, <1>3, <1>4

LEMMA LaunchAlways == Spec => []LaunchInv
<1>1. ASSUME LaunchInv, UNCHANGED vars PROVE LaunchInv'
  <2> USE <1>1 DEF vars, request, commands, cli, LaunchInv
  <2>1. CommandsMatch'
    BY MatchStays
  <2>2. AcceptedIsReady'
    BY DEF AcceptedIsReady
  <2>3. InterruptsCount'
    BY DEF InterruptsCount
  <2>4. ExitMatches'
    BY DEF ExitMatches
  <2> QED
    BY <2>1, <2>2, <2>3, <2>4
<1>2. LaunchInv /\ [Next]_vars => LaunchInv'
  BY <1>1, RequestKeeps, RefusalsKeep, SessionKeeps DEF Next
<1> QED
  BY <1>2, LaunchInit, PTL DEF Spec

-----------------------------------------------------------------------------
(* Whatever is asked for and by whom, the commands on the two hosts fit    *)
(* together.                                                               *)
THEOREM CommandsAgree == Spec => []PeersAgree
<1>1. CommandsMatch => PeersAgree
  <2> SUFFICES ASSUME CommandsMatch, HasCommands PROVE PeersAgree
    BY DEF PeersAgree
  <2>1. /\ Absent # "" /\ Given(Absent) = Absent
        /\ rdma_a # Absent => (rdma_a # "" => Given(rdma_a) = rdma_a)
    BY AbsentAssumption DEF Given
  <2>2. CASE /\ server = BuildIbWriteBw(req, Absent)
             /\ client = BuildIbWriteBw(req, rdma_a)
             /\ rdma_a # Absent
    <3>1. client = [program |-> "ib_write_bw", device |-> "b", gid |-> "b",
                    duration |-> req.duration_sec, mtu |-> 4096,
                    size |-> req.msg_size, qps |-> req.qp_count,
                    both_ways |-> req.bidir, peer |-> Given(rdma_a)]
      BY <2>2 DEF BuildIbWriteBw
    <3>2. server = [program |-> "ib_write_bw", device |-> "a", gid |-> "a",
                    duration |-> req.duration_sec, mtu |-> 4096,
                    size |-> req.msg_size, qps |-> req.qp_count,
                    both_ways |-> req.bidir, peer |-> Given(Absent)]
      BY <2>2 DEF BuildIbWriteBw
    <3>3. /\ server.peer = Absent /\ (rdma_a # "" => client.peer = rdma_a)
          /\ server.device = "a" /\ server.gid = "a"
          /\ client.device = "b" /\ client.gid = "b"
      <4>1. /\ server.peer = Given(Absent) /\ client.peer = Given(rdma_a)
            /\ server.device = "a" /\ server.gid = "a"
            /\ client.device = "b" /\ client.gid = "b"
        BY <3>1, <3>2
      <4>2. rdma_a # Absent
        BY <2>2
      <4> QED
        BY <2>1, <4>1, <4>2, Zenon
    <3>4. /\ DOMAIN server = DOMAIN client
          /\ \A o \in DOMAIN server \ {"peer", "device", "gid"} :
                server[o] = client[o]
      BY <3>1, <3>2
    <3> QED
      BY <3>3, <3>4, Zenon DEF PeersAgree
  <2>3. CASE /\ server = BuildIperf3(req, rdma_a, TRUE)
             /\ client = BuildIperf3(req, rdma_a, FALSE)
    BY <2>3 DEF PeersAgree, BuildIperf3
  <2>4. CASE /\ server = BuildIbReadLat(req, Absent, 1000)
             /\ client = BuildIbReadLat(req, rdma_a, 1000)
             /\ rdma_a # Absent
    <3>1. 1000 # Absent
      <4>1. Absent \notin Nat
        BY AbsentAssumption, Zenon
      <4> QED
        BY <4>1
    <3>2. client = [program |-> "ib_read_lat", device |-> "b", gid |-> "b",
                    iterations |-> 1000, duration |-> Absent,
                    peer |-> Given(rdma_a)]
      BY <2>4, <3>1 DEF BuildIbReadLat
    <3>3. server = [program |-> "ib_read_lat", device |-> "a", gid |-> "a",
                    iterations |-> 1000, duration |-> Absent,
                    peer |-> Given(Absent)]
      BY <2>4, <3>1 DEF BuildIbReadLat
    <3>4. /\ server.peer = Absent /\ (rdma_a # "" => client.peer = rdma_a)
          /\ server.device = "a" /\ server.gid = "a"
          /\ client.device = "b" /\ client.gid = "b"
      <4>1. /\ server.peer = Given(Absent) /\ client.peer = Given(rdma_a)
            /\ server.device = "a" /\ server.gid = "a"
            /\ client.device = "b" /\ client.gid = "b"
        BY <3>2, <3>3
      <4>2. rdma_a # Absent
        BY <2>4
      <4> QED
        BY <2>1, <4>1, <4>2, Zenon
    <3>5. /\ DOMAIN server = DOMAIN client
          /\ \A o \in DOMAIN server \ {"peer", "device", "gid"} :
                server[o] = client[o]
      BY <3>2, <3>3
    <3> QED
      BY <3>4, <3>5, Zenon DEF PeersAgree
  <2> QED
    BY <2>2, <2>3, <2>4 DEF CommandsMatch, BuiltFrom, HasCommands
<1> QED
  BY <1>1, LaunchAlways, PTL DEF LaunchInv

(* The exit code tells what became of the run, wherever Ctrl-C is pressed, *)
(* however often, and however the session ends.                            *)
THEOREM ExitCodeTells == Spec => []ExitTellsOutcome
<1>1. LaunchInv => ExitTellsOutcome
  BY DEF LaunchInv, AcceptedIsReady, ExitMatches, ExitTellsOutcome, HasCommands
<1> QED
  BY <1>1, LaunchAlways, PTL

(* A set of numbers that is not empty has a least one, and one that holds  *)
(* 0 and every successor of its members holds them all.                    *)
LEMMA LeastNumber ==
  ASSUME NEW D \in SUBSET Nat, D # {}
  PROVE  \E d \in D : \A x \in D : d <= x
<1> DEFINE R == {ss \in Nat \X Nat : ss[1] < ss[2]}
<1>1. IsWellFoundedOn(R, Nat)
  BY NatLessThanWellFounded DEF OpToRel
<1>2. \A x, y \in Nat : y < x => <<y, x>> \in R
  OBVIOUS
<1> HIDE DEF R
<1>3. PICK d \in D : \A x \in D : ~(<<x, d>> \in R)
  BY <1>1, WFMin
<1>4. ASSUME NEW x \in D PROVE d <= x
  <2>1. ~(x < d)
    BY <1>2, <1>3
  <2> QED
    BY <2>1
<1> QED
  BY <1>4

LEMMA AllNumbers ==
  ASSUME NEW S, 0 \in S, \A n \in Nat : n \in S => n + 1 \in S
  PROVE  \A n \in Nat : n \in S
<1> SUFFICES ASSUME NEW m \in Nat, m \notin S PROVE FALSE
  OBVIOUS
<1> DEFINE D == {n \in Nat : n \notin S}
<1>1. PICK d \in D : \A x \in D : d <= x
  BY LeastNumber
<1>2. d # 0
  OBVIOUS
<1>3. d - 1 \in Nat /\ ~(d <= d - 1) /\ (d - 1) + 1 = d
  BY <1>2
<1>4. d - 1 \in S
  BY <1>1, <1>3
<1> QED
  BY <1>3, <1>4

-----------------------------------------------------------------------------
(* A sequence of numbers has a bound ...                                   *)
LEMMA SeqBounded ==
  ASSUME NEW s \in Seq(Nat)
  PROVE  \E b \in Nat : \A i \in 1..Len(s) : s[i] <= b
<1> DEFINE Bounds(k, b) == \A i \in 1..Len(s) : i <= k => s[i] <= b
           K == {k \in Nat : \E b \in Nat : Bounds(k, b)}
<1>1. Len(s) \in Nat /\ \A i \in 1..Len(s) : s[i] \in Nat
  OBVIOUS
<1>2. 0 \in K
  <2>1. Bounds(0, 0)
    BY <1>1
  <2> QED
    BY <2>1
<1>3. ASSUME NEW k \in Nat, k \in K PROVE k + 1 \in K
  <2>1. PICK b \in Nat : Bounds(k, b)
    BY <1>3
  <2>2. CASE k + 1 \in 1..Len(s)
    <3> DEFINE c == IF s[k + 1] <= b THEN b ELSE s[k + 1]
    <3>1. c \in Nat /\ b <= c /\ s[k + 1] <= c
      BY <1>1, <2>2
    <3> HIDE DEF c
    <3>2. Bounds(k + 1, c)
      <4> SUFFICES ASSUME NEW i \in 1..Len(s), i <= k + 1 PROVE s[i] <= c
        OBVIOUS
      <4>1. CASE i = k + 1
        BY <3>1, <4>1
      <4>2. CASE i # k + 1
        <5>1. i <= k
          BY <1>1, <4>2
        <5>2. s[i] <= b /\ s[i] \in Nat
          BY <1>1, <2>1, <5>1
        <5> QED
          BY <3>1, <5>2
      <4> QED
        BY <4>1, <4>2
    <3> HIDE DEF Bounds
    <3> QED
      BY <3>1, <3>2
  <2>3. CASE k + 1 \notin 1..Len(s)
    <3>1. Bounds(k + 1, b)
      BY <1>1, <2>1, <2>3
    <3> HIDE DEF Bounds
    <3> QED
      BY <3>1
  <2> QED
    BY <2>2, <2>3
<1> HIDE DEF K
<1>4. Len(s) \in K
  BY <1>1, <1>2, <1>3, AllNumbers
<1>5. PICK b \in Nat : Bounds(Len(s), b)
  BY <1>4 DEF K
<1>6. \A i \in 1..Len(s) : s[i] <= b
  BY <1>1, <1>5
<1> QED
  BY <1>6

(* ... so with 0 added its values have a greatest one, which is 0 or among *)
(* them.                                                                   *)
LEMMA MaxOfBounded ==
  ASSUME NEW S \in SUBSET Nat, S # {}, NEW b \in Nat, \A x \in S : x <= b
  PROVE  Max(S) \in S /\ \A x \in S : x <= Max(S)
<1> DEFINE U == {u \in Nat : \A x \in S : x <= u}
<1>1. PICK u \in U : \A v \in U : u <= v
  BY LeastNumber
<1>2. u \in S
  <2> SUFFICES ASSUME u \notin S PROVE FALSE
    OBVIOUS
  <2>1. u \in Nat /\ \A x \in S : x < u
    BY <1>1
  <2>2. u # 0
    <3>1. PICK x \in S : TRUE
      OBVIOUS
    <3> QED
      BY <2>1, <3>1
  <2>3. u - 1 \in Nat /\ \A x \in S : x <= u - 1
    BY <2>1, <2>2
  <2> QED
    BY <1>1, <2>3
<1>3. \A x \in S : u >= x
  BY <1>1
<1>4. Max(S) \in S /\ \A y \in S : Max(S) >= y
  BY <1>2, <1>3 DEF Max
<1> QED
  BY <1>4

-----------------------------------------------------------------------------
(* FoldSeq adds the points of a sequence index by index, in an order of    *)
(* its own: the function it folds with, of the sets of indices.            *)
Pick(t) == CHOOSE i \in t : TRUE

SumStep(s, g, t) == IF t = {} THEN 0 ELSE s[Pick(t)] + g[t \ {Pick(t)}]

Sums(s) ==
    CHOOSE g : g = [t \in SUBSET DOMAIN s |-> SumStep(s, g, t)]

LEMMA FoldSeqSums ==
  ASSUME NEW s
  PROVE  FoldSeq(+, 0, s) = Sums(s)[DOMAIN s]
BY DEF FoldSeq, FoldFunction, FoldFunctionOnSet, MapThenFoldSet, SumStep, Sums,
       Pick

(* What it picks is a member, and the rest has one member less.            *)
LEMMA PickLeaves ==
  ASSUME NEW D, IsFiniteSet(D), NEW t \in SUBSET D, t # {}
  PROVE  /\ Pick(t) \in t
         /\ t \ {Pick(t)} \in SUBSET D
         /\ Cardinality(t) \in Nat
         /\ Cardinality(t) > 0
         /\ Cardinality(t \ {Pick(t)}) = Cardinality(t) - 1
<1>1. Pick(t) \in t
  BY DEF Pick
<1>2. IsFiniteSet(t)
  BY FS_Subset
<1>3. Cardinality(t) \in Nat /\ Cardinality(t) # 0
  BY <1>2, FS_CardinalityType, FS_EmptySet
<1>4. Cardinality(t \ {Pick(t)}) = Cardinality(t) - 1
  BY <1>1, <1>2, FS_RemoveElement
<1> QED
  BY <1>1, <1>3, <1>4

(* There is such a function: it can be built on the sets of at most k      *)
(* indices, one k after the other.                                         *)
LEMMA SumsExist ==
  ASSUME NEW s \in Seq(Nat)
  PROVE  Sums(s) = [t \in SUBSET DOMAIN s |-> SumStep(s, Sums(s), t)]
<1> DEFINE D == DOMAIN s
           Sub(k) == {t \in SUBSET D : Cardinality(t) <= k}
           Good(k, g) == /\ g = [t \in Sub(k) |-> g[t]]
                         /\ \A t \in Sub(k) : g[t] = SumStep(s, g, t)
           K == {k \in Nat : \E g : Good(k, g)}
<1>1. IsFiniteSet(D) /\ Cardinality(D) \in Nat
  BY FS_Interval, FS_CardinalityType
<1>2. \A t \in SUBSET D :
         Cardinality(t) \in Nat /\ Cardinality(t) <= Cardinality(D)
  BY <1>1, FS_Subset, FS_CardinalityType
<1>3. \A t \in SUBSET D :
         t # {} => /\ t \ {Pick(t)} \in SUBSET D
                   /\ Cardinality(t) > 0
                   /\ Cardinality(t \ {Pick(t)}) = Cardinality(t) - 1
  BY <1>1, PickLeaves
<1> HIDE DEF D
<1>4. 0 \in K
  <2> DEFINE g == [t \in Sub(0) |-> 0]
  <2>1. ASSUME NEW t \in Sub(0) PROVE t = {}
    <3>1. t \in SUBSET D /\ ~(Cardinality(t) > 0)
      BY <1>2
    <3> QED
      BY <1>3, <3>1
  <2>2. \A t \in Sub(0) : SumStep(s, g, t) = 0
    BY <2>1 DEF SumStep
  <2>3. /\ g = [t \in Sub(0) |-> g[t]]
        /\ \A t \in Sub(0) : g[t] = SumStep(s, g, t)
    BY <2>2
  <2> HIDE DEF g
  <2>4. Good(0, g)
    BY <2>3
  <2> HIDE DEF Good
  <2> QED
    BY <2>4
<1>5. ASSUME NEW k \in Nat, k \in K PROVE k + 1 \in K
  <2>1. PICK g : Good(k, g)
    BY <1>5
  <2> DEFINE h == [t \in Sub(k + 1) |->
                      IF t \in Sub(k) THEN g[t] ELSE SumStep(s, g, t)]
  <2>2. ASSUME NEW t \in Sub(k + 1) PROVE h[t] = SumStep(s, h, t)
    <3>1. CASE t = {}
      <4>1. SumStep(s, g, t) = 0 /\ SumStep(s, h, t) = 0
        BY <3>1 DEF SumStep
      <4>2. h[t] = 0
        BY <2>1, <4>1
      <4> QED
        BY <4>1, <4>2
    <3>2. CASE t # {}
      <4> DEFINE r == t \ {Pick(t)}
      <4>1. r \in Sub(k) /\ r \in Sub(k + 1)
        BY <1>2, <1>3, <3>2
      <4>2. h[r] = g[r]
        BY <4>1
      <4>3. SumStep(s, h, t) = SumStep(s, g, t)
        BY <3>2, <4>2 DEF SumStep
      <4>4. h[t] = SumStep(s, g, t)
        BY <2>1
      <4> QED
        BY <4>3, <4>4
    <3> QED
      BY <3>1, <3>2
  <2>3. h = [t \in Sub(k + 1) |-> h[t]]
    OBVIOUS
  <2> HIDE DEF h
  <2>4. Good(k + 1, h)
    BY <2>2, <2>3
  <2> HIDE DEF Good
  <2> QED
    BY <2>4
<1> HIDE DEF K
<1>6. Cardinality(D) \in K
  BY <1>1, <1>4, <1>5, AllNumbers
<1>7. PICK g : Good(Cardinality(D), g)
  BY <1>6 DEF K
<1>8. Sub(Cardinality(D)) = SUBSET D
  BY <1>2
<1>9. g = [t \in SUBSET D |-> SumStep(s, g, t)]
  BY <1>7, <1>8
<1> QED
  BY <1>9 DEF Sums, D

LEMMA TimesNext ==
  ASSUME NEW p \in Nat, NEW k \in Nat
  PROVE  p * (k + 1) = p * k + p /\ p * k \in Nat
OBVIOUS

(* A sum over any indices is at most their number times a bound of the     *)
(* points.                                                                 *)
LEMMA SumBounded ==
  ASSUME NEW s \in Seq(Nat), NEW p \in Nat, \A i \in 1..Len(s) : s[i] <= p
  PROVE  FoldSeq(+, 0, s) \in Nat /\ FoldSeq(+, 0, s) <= p * Len(s)
<1> DEFINE D == DOMAIN s
           F == Sums(s)
           Below(t, k) == F[t] \in Nat /\ F[t] <= p * k
           K == {k \in Nat :
                    \A t \in SUBSET D : Cardinality(t) = k => Below(t, k)}
<1>1. Len(s) \in Nat /\ D = 1..Len(s) /\ \A i \in D : s[i] \in Nat /\ s[i] <= p
  OBVIOUS
<1>2. IsFiniteSet(D) /\ Cardinality(D) = Len(s)
  BY <1>1, FS_Interval
<1>3. \A t \in SUBSET D : F[t] = SumStep(s, F, t)
  BY SumsExist
<1> HIDE DEF D, F
<1>4. 0 \in K
  <2>1. ASSUME NEW t \in SUBSET D, Cardinality(t) = 0 PROVE Below(t, 0)
    <3>1. t = {}
      BY <1>2, <2>1, FS_Subset, FS_EmptySet
    <3>2. F[t] = 0
      BY <1>3, <3>1 DEF SumStep
    <3> QED
      BY <3>2
  <2> HIDE DEF Below
  <2> QED
    BY <2>1
<1>5. ASSUME NEW k \in Nat, k \in K PROVE k + 1 \in K
  <2>1. ASSUME NEW t \in SUBSET D, Cardinality(t) = k + 1 PROVE Below(t, k + 1)
    <3> DEFINE r == t \ {Pick(t)}
    <3>1. t # {}
      <4> HIDE DEF K
      <4>1. Cardinality({}) = 0 /\ k + 1 # 0
        BY FS_EmptySet
      <4> QED
        BY <2>1, <4>1
    <3>2. Pick(t) \in D /\ r \in SUBSET D /\ Cardinality(r) = k
      <4> HIDE DEF K
      <4>1. /\ Pick(t) \in t /\ r \in SUBSET D
            /\ Cardinality(r) = Cardinality(t) - 1
        BY <1>2, <3>1, PickLeaves
      <4> QED
        BY <2>1, <4>1
    <3>3. F[t] = s[Pick(t)] + F[r]
      BY <1>3, <3>1 DEF SumStep
    <3>4. Below(r, k)
      BY <1>5, <3>2
    <3>5. s[Pick(t)] \in Nat /\ s[Pick(t)] <= p
      BY <1>1, <3>2
    <3> HIDE DEF r
    <3>6. p * (k + 1) = p * k + p /\ p * k \in Nat
      BY TimesNext
    <3>7. F[r] \in Nat /\ F[r] <= p * k
      BY <3>4
    <3> DEFINE m == p * k
               n == p * (k + 1)
               x == F[r]
               y == s[Pick(t)]
    <3>8. m \in Nat /\ n = m + p /\ x \in Nat /\ x <= m /\ y \in Nat /\ y <= p
      BY <3>5, <3>6, <3>7
    <3> HIDE DEF m, n, x, y
    <3>9. y + x \in Nat /\ y + x <= n
      BY <3>8
    <3> QED
      BY <3>3, <3>9 DEF n, x, y
  <2> HIDE DEF Below
  <2> QED
    BY <2>1
<1> HIDE DEF K
<1>6. Len(s) \in K
  BY <1>1, <1>4, <1>5, AllNumbers
<1>7. Below(D, Len(s))
  BY <1>2, <1>6 DEF K
<1> QED
  BY <1>7, FoldSeqSums DEF D, F

-----------------------------------------------------------------------------
(* A push adds its point at the end and keeps others, or drops the first.  *)
LEMMA Pushed ==
  ASSUME NEW s \in Seq(Nat), NEW p \in Nat
  PROVE  /\ Push(s, p) \in Seq(Nat)
         /\ Push(s, p) # <<>>
         /\ Last(Push(s, p)) = p
         /\ \A i \in 1..Len(Push(s, p)) :
               Push(s, p)[i] = p \/ \E j \in 1..Len(s) : Push(s, p)[i] = s[j]
<1>1. ASSUME NEW q \in Seq(Nat),
             \A i \in 1..Len(q) : \E j \in 1..Len(s) : q[i] = s[j]
      PROVE  LET a == Append(q, p)
             IN  /\ a \in Seq(Nat) /\ a # <<>> /\ Last(a) = p
                 /\ \A i \in 1..Len(a) :
                       a[i] = p \/ \E j \in 1..Len(s) : a[i] = s[j]
  <2> DEFINE a == Append(q, p)
  <2>1. /\ a \in Seq(Nat) /\ Len(q) \in Nat /\ Len(a) = Len(q) + 1
        /\ a[Len(q) + 1] = p
        /\ \A i \in 1..Len(q) : a[i] = q[i]
    OBVIOUS
  <2> HIDE DEF a
  <2>2. a # <<>> /\ Last(a) = p
    BY <2>1 DEF Last
  <2>3. ASSUME NEW i \in 1..Len(a)
        PROVE  a[i] = p \/ \E j \in 1..Len(s) : a[i] = s[j]
    <3>1. CASE i = Len(q) + 1
      BY <2>1, <3>1
    <3>2. CASE i # Len(q) + 1
      <4>1. i \in 1..Len(q)
        BY <2>1, <3>2
      <4> QED
        BY <1>1, <2>1, <4>1
    <3> QED
      BY <3>1, <3>2
  <2>4. a \in Seq(Nat) /\ a # <<>> /\ Last(a) = p
    BY <2>1, <2>2
  <2> QED
    BY <2>3, <2>4 DEF a
<1>2. CASE Len(s) < MAX_POINTS
  BY <1>1, <1>2 DEF Push
<1>3. CASE ~(Len(s) < MAX_POINTS)
  <2>1. s # <<>>
    BY <1>3, WindowAssumption
  <2>2. /\ Tail(s) \in Seq(Nat)
        /\ \A i \in 1..Len(Tail(s)) :
              i + 1 \in 1..Len(s) /\ Tail(s)[i] = s[i + 1]
    BY <2>1
  <2>3. \A i \in 1..Len(Tail(s)) : \E j \in 1..Len(s) : Tail(s)[i] = s[j]
    BY <2>2
  <2> QED
    BY <1>1, <1>3, <2>2, <2>3 DEF Push
<1> QED
  BY <1>2, <1>3

-----------------------------------------------------------------------------
PanelStates == {"idle", "connecting", "running", "error"}

ChartTypes ==
    /\ state \in PanelStates
    /\ run \in Runs
    /\ values \in Seq(Nat) /\ latValues \in Seq(Nat)
    /\ mode \in {"bw", "lat"}
    /\ current \in Nat /\ peak \in Nat
    /\ latency \in Nat \union {None}

(* The points against the current value and the peak: what KpisAgree says  *)
(* of the average follows from it.                                         *)
PointsFit ==
    /\ \A i \in 1..Len(values) : values[i] <= peak
    /\ values # <<>> => current = Last(values)

ChartInv == ChartTypes /\ PointsFit /\ ChartFitsTool /\ FlowFitsRun

LEMMA ChartStarts == ChartInit => ChartInv
<1> SUFFICES ASSUME ChartInit PROVE ChartInv
  OBVIOUS
<1> USE DEF ChartInit
<1>1. ChartTypes
  BY DEF ChartTypes, PanelStates, Runs, ToolKind
<1>2. PointsFit
  BY DEF PointsFit
<1>3. ChartFitsTool /\ FlowFitsRun
  BY DEF ChartFitsTool, FlowFitsRun
<1> QED
  BY <1>1, <1>2, <1>3 DEF ChartInv

(* What leaves the store alone leaves its points in order.                 *)
LEMMA PointsStay ==
  ASSUME PointsFit, UNCHANGED store
  PROVE  PointsFit'
BY DEF PointsFit, store

(* The status of the session: a start, the going, an end,                  *)
LEMMA StatusKeepsCharts ==
  ChartInv /\ (Connecting \/ Running \/ Over) => ChartInv'
<1> SUFFICES ASSUME ChartInv, Connecting \/ Running \/ Over PROVE ChartInv'
  OBVIOUS
<1> USE DEF ChartInv
<1>1. CASE Connecting
  <2> USE <1>1 DEF Connecting
  <2>1. ChartTypes'
    BY DEF ChartTypes, PanelStates, store
  <2>2. PointsFit'
    BY PointsStay
  <2>3. ChartFitsTool' /\ FlowFitsRun'
    BY DEF ChartFitsTool, FlowFitsRun
  <2> QED
    BY <2>1, <2>2, <2>3
<1>2. CASE Running
  <2> USE <1>2 DEF Running, Reset
  <2>1. ChartTypes'
    BY DEF ChartTypes, PanelStates
  <2>2. PointsFit'
    BY DEF PointsFit
  <2>3. ChartFitsTool'
    BY DEF ChartFitsTool
  <2>4. FlowFitsRun'
    <3>1. dots = 0
      BY DEF FlowFitsRun
    <3>2. dots' = Packets(bidir)
      BY <3>1 DEF StartFlow, Packets
    <3> QED
      BY <3>2 DEF FlowFitsRun, Packets
  <2> QED
    BY <2>1, <2>2, <2>3, <2>4
<1>3. CASE Over
  <2> USE <1>3 DEF Over
  <2>1. ChartTypes'
    BY DEF ChartTypes, PanelStates, store
  <2>2. PointsFit'
    BY PointsStay
  <2>3. ChartFitsTool' /\ FlowFitsRun'
    BY DEF ChartFitsTool, FlowFitsRun, StopFlow
  <2> QED
    BY <2>1, <2>2, <2>3
<1> QED
  BY <1>1, <1>2, <1>3

(* the direction button, which no run is shown with,                       *)
LEMMA ToggleKeepsCharts == ChartInv /\ Toggle => ChartInv'
<1> SUFFICES ASSUME ChartInv, Toggle PROVE ChartInv'
  OBVIOUS
<1> USE DEF ChartInv, Toggle
<1>1. ChartTypes'
  BY DEF ChartTypes, store
<1>2. PointsFit'
  BY PointsStay
<1>3. ChartFitsTool'
  BY DEF ChartFitsTool
<1>4. FlowFitsRun'
  BY DEF FlowFitsRun, Redirect
<1> QED
  BY <1>1, <1>2, <1>3, <1>4

(* and the events, each of the tool of the run.                            *)
LEMMA EventShape ==
  ASSUME ChartTypes, NEW e \in Events
  PROVE  /\ e.sub_tool = run.tool
         /\ e.bw \in Nat
         /\ e.lat \in Nat \union {None}
         /\ (e.lat # None) <=> (run.tool = "ib_read_lat")
BY ValuesAssumption, NoneAssumption
DEF ChartTypes, Runs, ToolKind, Events, MockEvents, LatEvents, SysfsEvents

LEMMA MeasurementKeepsCharts == ChartInv /\ OnMeasurement => ChartInv'
<1> SUFFICES ASSUME ChartInv, OnMeasurement PROVE ChartInv'
  OBVIOUS
<1>1. PICK e \in Events :
         /\ mode' = IF e.sub_tool = "ib_read_lat" THEN "lat" ELSE "bw"
         /\ IF e.sub_tool = "ib_read_lat" /\ e.lat # None THEN PushLat(e)
                                                          ELSE PushBw(e)
  BY DEF OnMeasurement
<1>2. state = "running" /\ UNCHANGED <<state, run, bidir, dots>>
  BY DEF OnMeasurement
<1>3. ChartTypes /\ PointsFit /\ ChartFitsTool /\ FlowFitsRun
  BY DEF ChartInv
<1>4. /\ e.sub_tool = run.tool /\ e.bw \in Nat /\ e.lat \in Nat \union {None}
      /\ (e.lat # None) <=> (run.tool = "ib_read_lat")
  BY <1>3, EventShape
<1>5. FlowFitsRun'
  BY <1>2, <1>3 DEF FlowFitsRun
<1>6. /\ values \in Seq(Nat) /\ latValues \in Seq(Nat)
      /\ current \in Nat /\ peak \in Nat /\ latency \in Nat \union {None}
      /\ state \in PanelStates /\ run \in Runs
  BY <1>3 DEF ChartTypes
<1>7. CASE run.tool = "ib_read_lat"
  <2>1. /\ mode' = "lat" /\ latValues' = Push(latValues, e.lat)
        /\ latency' = e.lat /\ e.lat \in Nat
        /\ UNCHANGED <<values, current, peak>>
    BY <1>1, <1>4, <1>7, NoneAssumption DEF PushLat
  <2>2. latValues' \in Seq(Nat) /\ latValues' # <<>>
    BY <1>6, <2>1, Pushed
  <2>3. ChartTypes'
    BY <1>2, <1>6, <2>1, <2>2 DEF ChartTypes
  <2>4. PointsFit'
    BY <1>3, <2>1 DEF PointsFit
  <2>5. values = <<>>
    BY <1>2, <1>3, <1>7 DEF ChartFitsTool
  <2>6. ChartFitsTool'
    BY <1>2, <1>7, <2>1, <2>2, <2>5 DEF ChartFitsTool
  <2> QED
    BY <1>5, <2>3, <2>4, <2>6 DEF ChartInv
<1>8. CASE run.tool # "ib_read_lat"
  <2>1. /\ mode' = "bw" /\ values' = Push(values, e.bw) /\ current' = e.bw
        /\ peak' = IF e.bw > peak THEN e.bw ELSE peak
        /\ UNCHANGED <<latValues, latency>>
    BY <1>1, <1>4, <1>8 DEF PushBw
  <2>2. /\ values' \in Seq(Nat) /\ values' # <<>> /\ Last(values') = e.bw
        /\ \A i \in 1..Len(values') :
              \/ values'[i] = e.bw
              \/ \E j \in 1..Len(values) : values'[i] = values[j]
    BY <1>4, <1>6, <2>1, Pushed
  <2>3. peak' \in Nat /\ peak <= peak' /\ e.bw <= peak'
    BY <1>4, <1>6, <2>1
  <2>4. ChartTypes'
    BY <1>2, <1>4, <1>6, <2>1, <2>2, <2>3 DEF ChartTypes
  <2>5. ASSUME NEW i \in 1..Len(values') PROVE values'[i] <= peak'
    <3>1. CASE values'[i] = e.bw
      BY <2>3, <3>1
    <3>2. ASSUME NEW j \in 1..Len(values), values'[i] = values[j]
          PROVE  values'[i] <= peak'
      <4>1. values[j] \in Nat /\ values[j] <= peak
        BY <1>3, <1>6 DEF PointsFit
      <4> QED
        BY <1>6, <2>3, <3>2, <4>1
    <3> QED
      BY <2>2, <3>1, <3>2
  <2>6. PointsFit'
    BY <2>1, <2>2, <2>5 DEF PointsFit
  <2>7. latValues = <<>> /\ latency = None
    BY <1>2, <1>3, <1>8 DEF ChartFitsTool
  <2>8. ChartFitsTool'
    BY <1>2, <1>8, <2>1, <2>7 DEF ChartFitsTool
  <2> QED
    BY <1>5, <2>4, <2>6, <2>8 DEF ChartInv
<1> QED
  BY <1>7, <1>8

LEMMA ChartsAlways == ChartSpec => []ChartInv
<1>1. ASSUME ChartInv, UNCHANGED chartVars PROVE ChartInv'
  <2> USE <1>1 DEF chartVars, ChartInv
  <2>1. ChartTypes'
    BY DEF ChartTypes, store
  <2>2. PointsFit'
    BY PointsStay
  <2>3. ChartFitsTool' /\ FlowFitsRun'
    BY DEF ChartFitsTool, FlowFitsRun, store
  <2> QED
    BY <2>1, <2>2, <2>3
<1>2. ChartInv /\ [ChartNext]_chartVars => ChartInv'
  BY <1>1, StatusKeepsCharts, ToggleKeepsCharts, MeasurementKeepsCharts
  DEF ChartNext
<1> QED
  BY <1>2, ChartStarts, PTL DEF ChartSpec

-----------------------------------------------------------------------------
(* The KPI cards agree whatever the meters show and however wide the       *)
(* window is.                                                              *)
THEOREM CardsAgree == ChartSpec => []KpisAgree
<1>1. ChartInv => KpisAgree
  <2> SUFFICES ASSUME ChartInv PROVE KpisAgree
    OBVIOUS
  <2>1. values \in Seq(Nat) /\ peak \in Nat /\ PointsFit
    BY DEF ChartInv, ChartTypes
  <2>2. FoldSeq(+, 0, values) <= peak * Len(values)
    BY <2>1, SumBounded DEF PointsFit
  <2> QED
    BY <2>1, <2>2 DEF KpisAgree, PointsFit
<1> QED
  BY <1>1, ChartsAlways, PTL

(* The chart of a run shows what its tool measures and nothing older.      *)
THEOREM ChartOfTheRun == ChartSpec => []ChartFitsTool
BY ChartsAlways, PTL DEF ChartInv

(* The packets travel exactly while a run is shown.                        *)
THEOREM PacketsTravel == ChartSpec => []FlowFitsRun
BY ChartsAlways, PTL DEF ChartInv

(* A quotient that is rounded up is not below the quotient, and not a      *)
(* whole one above it.                                                     *)
LEMMA CeilBounds ==
  ASSUME NEW a \in Nat, NEW b \in Nat \ {0}
  PROVE  /\ Ceil(a, b) \in Nat
         /\ b * Ceil(a, b) >= a
         /\ b * Ceil(a, b) < a + b
<1> DEFINE n == a + b - 1
           q == n \div b
<1>1. n \in Nat /\ q \in Int /\ n % b \in 0..(b - 1)
  OBVIOUS
<1>2. n = b * q + (n % b)
  OBVIOUS
<1>3. q \in Nat
  BY <1>1, SMT
<1> QED
  BY <1>1, <1>2, <1>3 DEF Ceil

(* The least axis is 0.2, and the units in which it is rounded up get      *)
(* coarser at peaks that are high enough for them.                         *)
LEMMA AxisOfPeak ==
  ASSUME NEW p \in Nat
  PROVE  /\ YMax(p) \in Nat
         /\ 10 * (Tenth * YMax(p)) >= 12 * p
         /\ 10 * p >= 8 * Tenth => 2 * (Tenth * YMax(p)) <= 5 * p
         /\ 10 * p < 8 * Tenth => YMax(p) = 2
<1> DEFINE T == Tenth
           m == IF p > T THEN p ELSE T
           one == 100 * T
<1>1. T \in Nat \ {0}
  BY TenthAssumption
<1> HIDE DEF T
<1>2. m \in Nat /\ m >= p /\ m >= T /\ (m > T => m = p)
  BY <1>1
<1> HIDE DEF m
<1>3. YMax(p) =
        CASE 12 * m <= 100 * T -> Ceil(12 * m, 10 * T)
          [] 12 * m > 100 * T /\ 12 * m <= 10 * (100 * T) ->
                10 * Ceil(12 * m, 100 * T)
          [] 12 * m > 10 * (100 * T) /\ 12 * m <= 50 * (100 * T) ->
                50 * Ceil(12 * m, 5 * (100 * T))
          [] OTHER -> 500 * Ceil(12 * m, 50 * (100 * T))
  BY DEF YMax, T, m
<1>4. ASSUME NEW k \in Nat \ {0}
      PROVE  /\ Ceil(12 * m, k * T) \in Nat
             /\ k * (T * Ceil(12 * m, k * T)) >= 12 * m
             /\ k * (T * Ceil(12 * m, k * T)) < 12 * m + k * T
  <2>1. k * T \in Nat \ {0}
    BY <1>1
  <2>2. 12 * m \in Nat
    BY <1>2
  <2> DEFINE c == Ceil(12 * m, k * T)
  <2>3. c \in Nat /\ (k * T) * c >= 12 * m /\ (k * T) * c < 12 * m + k * T
    BY <2>1, <2>2, CeilBounds
  <2> HIDE DEF c
  <2>4. (k * T) * c = k * (T * c)
    BY <1>1, <2>3
  <2> QED
    BY <2>3, <2>4 DEF c
<1> DEFINE y == YMax(p)
<1>5. CASE 12 * m <= 100 * T
  <2> DEFINE c == Ceil(12 * m, 10 * T)
             d == T * c
  <2>1. c \in Nat /\ 10 * d >= 12 * m /\ 10 * d < 12 * m + 10 * T
    BY <1>4
  <2>2. y = c
    BY <1>1, <1>2, <1>3, <1>5
  <2> HIDE DEF c
  <2>3. d \in Nat
    BY <1>1, <2>1
  <2> HIDE DEF d
  <2>4. m = T => c = 2
    <3> SUFFICES ASSUME m = T PROVE c = 2
      OBVIOUS
    <3>1. 10 * d >= 12 * T /\ 10 * d < 22 * T
      BY <1>1, <2>1, <2>3
    <3>2. c >= 2
      <4> SUFFICES ASSUME c <= 1 PROVE FALSE
        BY <2>1
      <4>1. c = 0 \/ c = 1
        BY <2>1
      <4> QED
        BY <4>1, <3>1, <1>1 DEF d
    <3>3. c <= 2
      <4> SUFFICES ASSUME c >= 3 PROVE FALSE
        BY <2>1
      <4>1. d = 3 * T + T * (c - 3) /\ T * (c - 3) \in Nat
        BY <1>1, <2>1 DEF d
      <4> QED
        BY <4>1, <3>1, <1>1
    <3> QED
      BY <3>2, <3>3, <2>1
  <2>5. T * y = d
    BY <2>2 DEF d
  <2>6. CASE m > T
    BY <1>1, <1>2, <2>1, <2>2, <2>3, <2>5, <2>6 DEF T
  <2>7. CASE m = T
    <3>1. d = 2 * T
      BY <2>4, <2>7, <1>1, <2>1, <2>2 DEF d
    <3>2. p <= T
      BY <1>2, <2>7
    <3> QED
      BY <1>1, <1>2, <2>1, <2>2, <2>3, <2>4, <2>5, <2>7, <3>1, <3>2 DEF T
  <2> QED
    BY <1>1, <1>2, <2>6, <2>7
<1>6. ASSUME NEW k \in {10, 50, 500}, y = k * Ceil(12 * m, (10 * k) * T),
             12 * m > 100 * T, k = 50 => 12 * m > 1000 * T,
             k = 500 => 12 * m > 5000 * T
      PROVE  /\ y \in Nat
             /\ 10 * (T * y) >= 12 * p
             /\ 10 * p >= 8 * T /\ 2 * (T * y) <= 5 * p
  <2> DEFINE c == Ceil(12 * m, (10 * k) * T)
             d == T * c
  <2>1. /\ c \in Nat
        /\ (10 * k) * d >= 12 * m
        /\ (10 * k) * d < 12 * m + (10 * k) * T
    BY <1>4
  <2>2. y = k * c
    BY <1>6
  <2> HIDE DEF c
  <2>3. d \in Nat
    BY <1>1, <2>1
  <2>4. T * y = k * d
    BY <1>1, <2>1, <2>2
  <2>5. m = p
    BY <1>1, <1>2, <1>6
  <2> HIDE DEF d, y
  <2>6. y \in Nat
    BY <2>1, <2>2
  <2> QED
    BY <1>1, <1>2, <1>6, <2>1, <2>3, <2>4, <2>5, <2>6
<1>7. CASE 12 * m > 100 * T
  <2>1. PICK k \in {10, 50, 500} :
              /\ y = k * Ceil(12 * m, (10 * k) * T)
              /\ k = 50 => 12 * m > 1000 * T
              /\ k = 500 => 12 * m > 5000 * T
    <3>1. CASE 12 * m <= 1000 * T
      <4>1. y = 10 * Ceil(12 * m, 100 * T)
        BY <1>1, <1>2, <1>3, <1>7, <3>1
      <4> QED
        BY <4>1
    <3>2. CASE 12 * m > 1000 * T /\ 12 * m <= 5000 * T
      <4>1. y = 50 * Ceil(12 * m, 5 * (100 * T))
        BY <1>1, <1>2, <1>3, <1>7, <3>2
      <4>2. 5 * (100 * T) = (10 * 50) * T
        BY <1>1
      <4> QED
        BY <3>2, <4>1, <4>2
    <3>3. CASE 12 * m > 5000 * T
      <4>1. y = 500 * Ceil(12 * m, 50 * (100 * T))
        BY <1>1, <1>2, <1>3, <1>7, <3>3
      <4>2. 50 * (100 * T) = (10 * 500) * T
        BY <1>1
      <4> QED
        BY <3>3, <4>1, <4>2
    <3> QED
      BY <1>1, <1>2, <3>1, <3>2, <3>3
  <2>2. y \in Nat /\ 10 * (T * y) >= 12 * p /\ 10 * p >= 8 * T
        /\ 2 * (T * y) <= 5 * p
    BY <1>6, <1>7, <2>1
  <2> QED
    BY <1>1, <2>2 DEF T
<1> QED
  BY <1>1, <1>2, <1>5, <1>7

(* The axis fits every series of numbers, and its room is above each of    *)
(* the points, not only above the one that Max chooses.                    *)
RoomAbovePoints ==
    \A i \in 1..Len(Shown) : 10 * Tenth * YMax(DataPeak) >= 12 * Shown[i]

THEOREM AxisFitsAnyRun == ChartSpec => [](AxisFits /\ RoomAbovePoints)
<1>1. ChartInv => AxisFits /\ RoomAbovePoints
  <2> SUFFICES ASSUME ChartInv PROVE AxisFits /\ RoomAbovePoints
    OBVIOUS
  <2>1. Shown \in Seq(Nat)
    BY DEF ChartInv, ChartTypes, Shown
  <2>2. DataPeak \in Nat /\ \A i \in 1..Len(Shown) : Shown[i] <= DataPeak
    <3> DEFINE S == ToSet(Shown) \union {0}
    <3>1. S \in SUBSET Nat /\ \A i \in 1..Len(Shown) : Shown[i] \in S
      BY <2>1 DEF ToSet
    <3>2. PICK b \in Nat : \A i \in 1..Len(Shown) : Shown[i] <= b
      BY <2>1, SeqBounded
    <3>3. \A x \in S : x <= b
      BY <2>1, <3>2 DEF ToSet
    <3>4. S # {}
      OBVIOUS
    <3> HIDE DEF S
    <3>5. Max(S) \in S /\ \A x \in S : x <= Max(S)
      BY <3>1, <3>3, <3>4, MaxOfBounded
    <3>6. DataPeak = Max(S)
      BY DEF S, DataPeak
    <3> QED
      BY <3>1, <3>5, <3>6
  <2>3. AxisFits
    <3> DEFINE d == DataPeak
               y == YMax(d)
    <3>1. d \in Nat
      BY <2>2
    <3> HIDE DEF d
    <3>2. /\ y \in Nat /\ 10 * (Tenth * y) >= 12 * d
          /\ 10 * d >= 8 * Tenth => 2 * (Tenth * y) <= 5 * d
          /\ 10 * d < 8 * Tenth => y = 2
      BY <3>1, AxisOfPeak
    <3> HIDE DEF y
    <3>3. /\ 10 * (Tenth * y) = 10 * Tenth * y
          /\ 2 * (Tenth * y) = 2 * Tenth * y
      BY <3>2, TenthAssumption
    <3>4. /\ 10 * Tenth * y >= 12 * d
          /\ IF 10 * d >= 8 * Tenth THEN 2 * Tenth * y <= 5 * d ELSE y = 2
      BY <3>1, <3>2, <3>3, TenthAssumption
    <3> QED
      BY <3>4 DEF AxisFits, d, y
  <2>4. ASSUME NEW i \in 1..Len(Shown)
        PROVE  10 * Tenth * YMax(DataPeak) >= 12 * Shown[i]
    <3> DEFINE d == DataPeak
               y == YMax(d)
    <3>1. d \in Nat /\ Shown[i] \in Nat /\ Shown[i] <= d
      BY <2>1, <2>2
    <3> HIDE DEF d
    <3>2. y \in Nat /\ 10 * (Tenth * y) >= 12 * d
      BY <3>1, AxisOfPeak
    <3> HIDE DEF y
    <3>3. 10 * (Tenth * y) = 10 * Tenth * y
      BY <3>2, TenthAssumption
    <3>4. 10 * Tenth * y >= 12 * Shown[i]
      BY <3>1, <3>2, <3>3, TenthAssumption
    <3> QED
      BY <3>4 DEF d, y
  <2> QED
    BY <2>3, <2>4 DEF RoomAbovePoints
<1> QED
  BY <1>1, ChartsAlways, PTL

-----------------------------------------------------------------------------
(* Whatever is asked for and by whom, what the validation lets through is  *)
(* a run as Charts takes it: of a known tool, in a direction that the tool *)
(* has (schemas.py:33-57).  The charts need no validation of their own.    *)
THEOREM AcceptedIsDrawable ==
  Spec => [](stage \in {"accepted", "launched"} =>
                [tool |-> req.tool, bidir |-> req.bidir] \in Runs)
<1>1. LaunchInv => (stage \in {"accepted", "launched"} =>
                       [tool |-> req.tool, bidir |-> req.bidir] \in Runs)
  <2> SUFFICES ASSUME LaunchInv, stage \in {"accepted", "launched"}
               PROVE  [tool |-> req.tool, bidir |-> req.bidir] \in Runs
    OBVIOUS
  <2>1. Valid(req) /\ req.bidir \in BOOLEAN
    BY DEF LaunchInv, AcceptedIsReady
  <2>2. req.tool \in ToolKind /\ ~(req.bidir /\ req.tool = "ib_read_lat")
    BY <2>1, ValidBounds
  <2> QED
    BY <2>1, <2>2 DEF Runs
<1> QED
  BY <1>1, LaunchAlways, PTL
=============================================================================
