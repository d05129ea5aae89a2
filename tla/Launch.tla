------------------------------- MODULE Launch -------------------------------
(***************************************************************************)
(* From a request to the two commands it runs on the hosts: the validation *)
(* of StartRequest, the settings (app/config.py), the choice of the        *)
(* session in run_session and the argument builders (app/runner.py).  Each *)
(* builder is called twice, for server A, which listens, and for server B, *)
(* which connects; nothing but these calls makes them agree.               *)
(*                                                                         *)
(* A request enters as the body of a POST /api/start, whose session is the *)
(* matter of Monitor, or by the command line of scripts/poc.py, which      *)
(* steps the session itself and ends with an exit code.  A command is a    *)
(* record of its options; one it does not have is absent.                  *)
(***************************************************************************)
EXTENDS StartRequest

CONSTANTS Tools,       \* what a request may name, known to the program or not
          Durations, Sizes, QpCounts, Streams,
          Environments,  \* the settings a host may give, as sets of names
          Absent

ASSUME AbsentAssumption == Absent \notin Nat /\ Absent \notin {"", "rdma_a"}

VARIABLES entry,      \* "api" or "poc"
          env,        \* what the environment and .env give
          rdma_a,     \* SERVER_A_RDMA_IP, which may be given empty
          settings,   \* Settings() was constructed
          req,        \* the request, defaults filled in
          stage,      \* what became of it
          server,     \* the command on server A
          client,     \* the command on server B
          session, outcome,  \* the session poc.py steps
          sigints,    \* Ctrl-C pressed, not at all, once or more
          exit        \* exit code of poc.py

request == <<entry, env, rdma_a, settings, req>>
commands == <<server, client>>
cli == <<session, outcome, sigints, exit>>
vars == <<request, stage, commands, cli>>

Session == INSTANCE SessionContract WITH stage <- session

(* The fields of Settings that have no default.                            *)
Required == {"server_a_host", "server_b_host",
             "server_a_rdma_ip", "server_b_rdma_ip"}

SettingsLoad == Required \subseteq env

Requests == [tool : Tools, duration_sec : Durations, msg_size : Sizes,
             qp_count : QpCounts, iperf3_streams : Streams, bidir : BOOLEAN]

(* What the page can post: a choice from its lists, the rest by default.   *)
PanelRequests ==
    [tool : ToolKind, duration_sec : {30, 60, 120, 300, 600, 1800, 7200},
     msg_size : ALLOWED_MSG_SIZES, qp_count : {4}, iperf3_streams : {8},
     bidir : BOOLEAN]

(* The application constructs its settings before it serves anything.      *)
Init ==
    /\ entry \in {"api", "poc"}
    /\ env \in Environments
    /\ rdma_a \in {"", "rdma_a"}
    /\ entry = "api" => SettingsLoad
    /\ settings = (entry = "api")
    /\ req \in IF entry = "api" THEN Requests \union PanelRequests ELSE Requests
    /\ stage = "submitted"
    /\ server = Absent
    /\ client = Absent
    /\ session = "running" /\ outcome = "none"
    /\ sigints = 0
    /\ exit = Absent

-----------------------------------------------------------------------------
(* The address to connect to is the last argument, where it is not empty;  *)
(* whether there is one at all, empty or not, tells the two hosts apart.   *)
Given(peer) == IF peer = "" THEN Absent ELSE peer

(* Each faulty variant is what a plausible bug would make of the           *)
(* definition that follows it; no run and no proof uses one.               *)
FaultyBidirByClient(r, peer) ==
    [program |-> "ib_write_bw", device |-> IF peer = Absent THEN "a" ELSE "b",
     gid |-> IF peer = Absent THEN "a" ELSE "b", duration |-> r.duration_sec,
     mtu |-> 4096, size |-> r.msg_size, qps |-> r.qp_count,
     both_ways |-> r.bidir /\ peer # Absent, peer |-> Given(peer)]

(* The device and the GID index belong to the host that runs the command.  *)
BuildIbWriteBw(r, peer) ==
    [program |-> "ib_write_bw", device |-> IF peer = Absent THEN "a" ELSE "b",
     gid |-> IF peer = Absent THEN "a" ELSE "b", duration |-> r.duration_sec,
     mtu |-> 4096, size |-> r.msg_size, qps |-> r.qp_count,
     both_ways |-> r.bidir, peer |-> Given(peer)]

BuildIbReadLat(r, peer, n_iter) ==
    [program |-> "ib_read_lat", device |-> IF peer = Absent THEN "a" ELSE "b",
     gid |-> IF peer = Absent THEN "a" ELSE "b",
     iterations |-> n_iter,
     duration |-> IF n_iter = Absent THEN r.duration_sec ELSE Absent,
     peer |-> Given(peer)]

(* The iperf3 client tells its server everything but the port.             *)
BuildIperf3(r, rdma_ip, is_server) ==
    IF is_server
    THEN [program |-> "iperf3", port |-> 5201, once |-> TRUE, peer |-> Absent]
    ELSE [program |-> "iperf3", port |-> 5201, duration |-> r.duration_sec,
          streams |-> r.iperf3_streams, both_ways |-> r.bidir, peer |-> rdma_ip]

-----------------------------------------------------------------------------
(* Anything else is answered 422 ...                                       *)
Validate ==
    /\ stage = "submitted"
    /\ entry = "api"
    /\ stage' = IF Valid(req) THEN "accepted" ELSE "rejected"
    /\ UNCHANGED <<request, commands, cli>>

Exits(code) ==
    /\ entry = "poc"
    /\ exit = Absent
    /\ exit' = code
    /\ stage' = "over"

(* ... or ends poc.py with 2: argparse knows the tools, StartRequest the   *)
(* rest.                                                                   *)
PocRejects ==
    /\ stage = "submitted" /\ ~Valid(req)
    /\ Exits(2)
    /\ UNCHANGED <<request, commands, session, outcome, sigints>>

(* poc.py asks for settings only when the tool is a real one.              *)
PocAccepts ==
    /\ entry = "poc"
    /\ stage = "submitted" /\ Valid(req)
    /\ req.tool # "mock" => SettingsLoad
    /\ settings' = (req.tool # "mock")
    /\ stage' = "accepted"
    /\ UNCHANGED <<entry, env, rdma_a, req, commands, cli>>

PocLacksSettings ==
    /\ stage = "submitted" /\ Valid(req)
    /\ req.tool # "mock" /\ ~SettingsLoad
    /\ Exits(3)
    /\ UNCHANGED <<request, commands, session, outcome, sigints>>

Launched(a, b) ==
    /\ stage' = "launched"
    /\ server' = a
    /\ client' = b
    /\ UNCHANGED <<request, cli>>

(* run_session raises without the settings that a real tool needs.         *)
Tool(t) == stage = "accepted" /\ req.tool = t /\ (t # "mock" => settings)

(* The generator of the demonstration runs no command.                     *)
RunMock == Tool("mock") /\ Launched(Absent, Absent)

RunWriteBw ==
    /\ Tool("ib_write_bw")
    /\ Launched(BuildIbWriteBw(req, Absent), BuildIbWriteBw(req, rdma_a))

RunIperf3 ==
    /\ Tool("iperf3")
    /\ Launched(BuildIperf3(req, rdma_a, TRUE), BuildIperf3(req, rdma_a, FALSE))

(* Samples of 1000 iterations each: LatSession says how often.             *)
RunReadLat ==
    /\ Tool("ib_read_lat")
    /\ Launched(BuildIbReadLat(req, Absent, 1000),
                BuildIbReadLat(req, rdma_a, 1000))

-----------------------------------------------------------------------------
FaultyCancelIsInterrupt(o, n) ==
    CASE o = "normal" -> 0 [] o = "cancelled" -> 130 [] OTHER -> 1

(* asyncio.run turns the CancelledError of an interrupted main into a      *)
(* KeyboardInterrupt; one that the session ends in by itself it raises.    *)
ExitCode(o, n) ==
    IF n = 2 \/ (o = "cancelled" /\ n = 1) THEN 130
    ELSE IF o = "normal" THEN 0 ELSE 1

PocSession == entry = "poc" /\ stage = "launched"

(* The first Ctrl-C cancels the main task ...                              *)
Interrupt ==
    /\ PocSession
    /\ Session!CancelDelivered
    /\ sigints' = 1
    /\ UNCHANGED <<request, stage, commands, exit>>

(* ... and the next one breaks the event loop, whose end unwinds the rest. *)
InterruptAgain ==
    /\ PocSession
    /\ session = "cancelled" /\ sigints = 1
    /\ sigints' = 2
    /\ UNCHANGED <<request, stage, commands, session, outcome, exit>>

(* Until the first await it takes effect at the first await.               *)
InterruptEarly ==
    /\ stage \in {"submitted", "accepted"}
    /\ Exits(130)
    /\ sigints' = 1
    /\ UNCHANGED <<request, commands, session, outcome>>

SessionEnds ==
    /\ PocSession
    /\ Session!EndsByItself
    /\ Exits(ExitCode(outcome', sigints))
    /\ UNCHANGED <<request, commands, sigints>>

InterruptedEnds ==
    /\ PocSession
    /\ Session!EndsCancelled
    /\ sigints' = IF sigints = 0 THEN 1 ELSE sigints
    /\ Exits(ExitCode(outcome', sigints'))
    /\ UNCHANGED <<request, commands>>

Next ==
    \/ Validate \/ PocRejects \/ PocLacksSettings \/ PocAccepts
    \/ RunMock \/ RunWriteBw \/ RunIperf3 \/ RunReadLat
    \/ Interrupt \/ InterruptAgain \/ InterruptEarly
    \/ SessionEnds \/ InterruptedEnds

Spec == Init /\ [][Next]_vars

-----------------------------------------------------------------------------
HasCommands == server # Absent

(* The two commands fit together: the same program with the same options   *)
(* on both sides, each with the device and the GID index of its own host,  *)
(* one that listens and one that connects to it (runner.py:130-214).  Two  *)
(* perftest peers whose options differ hang or abort on the hosts alone;   *)
(* so do two that both listen, where the settings give the address empty,  *)
(* but even then the device and the GID index are those of the host.       *)
PeersAgree ==
    HasCommands =>
        /\ server.peer = Absent
        /\ rdma_a # "" => client.peer = rdma_a
        /\ \A o \in (DOMAIN server \intersect DOMAIN client)
                       \ {"peer", "device", "gid"} : server[o] = client[o]
        /\ server.program # "iperf3" =>
              /\ DOMAIN server = DOMAIN client
              /\ server.device = "a" /\ server.gid = "a"
              /\ client.device = "b" /\ client.gid = "b"

(* The exit code of poc.py tells a script what became of the run: 0 if and *)
(* only if the session came to its normal end with nobody interrupting it, *)
(* 130 only after a Ctrl-C, though a session also ends in a CancelledError *)
(* of its own and an interrupted one in an error, and 2 or 3 with nothing  *)
(* run.  The demonstration needs no settings, and no request gets past the *)
(* validation to fail for the lack of them (poc.py:54-108).                *)
ExitTellsOutcome ==
    /\ stage = "accepted" /\ req.tool # "mock" => settings
    /\ exit # Absent =>
          /\ (exit = 0) <=> (outcome = "normal" /\ sigints = 0)
          /\ exit = 130 => sigints > 0
          /\ exit \in {2, 3} => ~HasCommands /\ outcome = "none"
          /\ exit = 3 => req.tool # "mock"
=============================================================================
