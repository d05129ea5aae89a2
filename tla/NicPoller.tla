------------------------------ MODULE NicPoller ------------------------------
(***************************************************************************)
(* The poller of the NIC temperatures (app/nic_telemetry.py): a task that  *)
(* for the whole life of the process reads both hosts at once, publishes   *)
(* one nic_temp event with what it got, and sleeps for a second.  A read   *)
(* opens a connection of its own, runs one command and has no timeout.     *)
(* A temperature is abstracted to the moment the host measured it, which   *)
(* is the number of events published until then; which of the two          *)
(* temperatures of a host a read yields is what Sensors says.              *)
(***************************************************************************)
EXTENDS Sensors

CONSTANTS Hosts,
          Rounds    \* events are counted modulo this bound

ASSUME RoundsAssumption == Rounds \in Nat /\ Rounds >= 2
ASSUME MissingAssumption == Missing \notin Nat

VARIABLES mock,      \* settings.measurement_tool is "mock"
          silent,    \* hosts that accept a connection and never answer
          task,      \* the polling task, as far as it got
          asked,     \* the hosts that have not answered in this round
          closing,   \* those whose answer is parsed and connection closing
          answer,    \* the output that was parsed last
          read,      \* what each read of this round returns
          events,    \* events published so far
          last,      \* _last: the number of events before it, the readings
          stopping   \* stop() awaits the cancelled task

Channels == {"ic", "module"}

NothingRead == [c \in Channels |-> Missing]

reads == <<asked, closing, answer, read>>
vars == <<mock, silent, task, reads, events, last, stopping>>

Init ==
    /\ mock \in BOOLEAN
    /\ silent \in SUBSET Hosts
    /\ task = "none"
    /\ asked = {} /\ closing = {}
    /\ answer = <<>>
    /\ read = [h \in Hosts |-> NothingRead]
    /\ events = 0
    /\ last = [after |-> 0, temps |-> [h \in Hosts |-> NothingRead]]
    /\ stopping = FALSE

-----------------------------------------------------------------------------
(* Each faulty variant is what a plausible bug would make of the           *)
(* definition that follows it; no run and no proof uses one.               *)
FaultyRoundKeepsRead ==
    /\ asked' = {} /\ closing' = {}
    /\ answer' = <<>>
    /\ UNCHANGED read

(* What a round reads is gone when it is over.                             *)
RoundIsOver ==
    /\ asked' = {} /\ closing' = {}
    /\ answer' = <<>>
    /\ read' = [h \in Hosts |-> NothingRead]

(* start(): does nothing to a task that is not done.                       *)
Start ==
    /\ task = "none"
    /\ task' = "scheduled"
    /\ UNCHANGED <<mock, silent, reads, events, last, stopping>>

(* The first step of the task, and every second after a publication.       *)
BeginRound ==
    /\ ~mock
    /\ task \in {"scheduled", "sleeping"}
    /\ task' = "reading"
    /\ asked' = Hosts
    /\ UNCHANGED <<mock, silent, closing, answer, read, events, last, stopping>>

(* The channels that an output has a number for, measured just now.        *)
Result(chips) ==
    [c \in Channels |-> IF Parse(chips)[c] # Missing THEN events ELSE Missing]

(* The output is parsed before the connection is closed, and may be empty. *)
Answers(h) ==
    /\ task = "reading"
    /\ h \in asked \ silent
    /\ asked' = asked \ {h}
    /\ closing' = closing \union {h}
    /\ answer' \in Outputs
    /\ read' = [read EXCEPT ![h] = Result(answer')]
    /\ UNCHANGED <<mock, silent, task, events, last, stopping>>

(* A connection that is refused or lost: an asyncssh.Error or an OSError   *)
(* reads nothing, and so does any other exception, which gather returns.   *)
Fails(h) ==
    /\ task = "reading"
    /\ h \in asked \ silent
    /\ asked' = asked \ {h}
    /\ UNCHANGED <<mock, silent, task, closing, answer, read, events, last,
                   stopping>>

Returns(h) ==
    /\ task = "reading"
    /\ h \in closing
    /\ closing' = closing \ {h}
    /\ UNCHANGED <<mock, silent, task, asked, answer, read, events, last,
                   stopping>>

Published(temps) ==
    /\ last' = [after |-> events, temps |-> temps]
    /\ events' = (events + 1) % Rounds
    /\ task' = "sleeping"

FaultyPublishNeedsAll ==
    /\ task = "reading"
    /\ asked = {} /\ closing = {} /\ \A h \in Hosts : read[h] # NothingRead
    /\ Published(read)
    /\ RoundIsOver
    /\ UNCHANGED <<mock, silent, stopping>>

(* gather returns when both reads are over, and the event is published.    *)
Publish ==
    /\ task = "reading"
    /\ asked = {} /\ closing = {}
    /\ Published(read)
    /\ RoundIsOver
    /\ UNCHANGED <<mock, silent, stopping>>

(* _mock_loop: every second four made-up temperatures, with no read.       *)
PublishMock ==
    /\ mock
    /\ task \in {"scheduled", "sleeping"}
    /\ Published([h \in Hosts |-> [c \in Channels |-> events]])
    /\ UNCHANGED <<mock, silent, reads, stopping>>

(* stop(), at the shutdown, cancels the task, a gather and its reads with  *)
(* it, and awaits it.                                                      *)
Stop ==
    /\ task # "none"
    /\ ~stopping
    /\ stopping' = TRUE
    /\ task' = "cancelled"
    /\ RoundIsOver
    /\ UNCHANGED <<mock, silent, events, last>>

Stopped ==
    /\ stopping
    /\ task' = "none"
    /\ stopping' = FALSE
    /\ UNCHANGED <<mock, silent, reads, events, last>>

Next ==
    \/ Start \/ BeginRound \/ Publish \/ PublishMock \/ Stop \/ Stopped
    \/ \E h \in Hosts : Answers(h) \/ Fails(h) \/ Returns(h)

Spec == Init /\ [][Next]_vars

(* The loop resumes the task after its sleep and after its gather, a host  *)
(* that is not silent answers or fails, and a connection closes.           *)
Fairness ==
    /\ WF_vars(BeginRound) /\ WF_vars(Publish) /\ WF_vars(PublishMock)
    /\ WF_vars(Stopped)
    /\ \A h \in Hosts : WF_vars(Answers(h) \/ Fails(h)) /\ WF_vars(Returns(h))

FairSpec == Spec /\ Fairness

-----------------------------------------------------------------------------
(* A host's temperatures are those of a Mellanox chip that showed numbers, *)
(* and where exactly one port is in use they are its own, in whatever      *)
(* order the kernel lists the ports: the temperature of the idle port is   *)
(* never shown for it (parser.py:74-105).                                  *)
PortInUseIsRead == IsReal(answer) /\ IsOfPortInUse(answer)

(* An event never shows an old temperature as a present one: whatever of   *)
(* the hosts answered, failed or was cut off by a stop in the rounds       *)
(* before, each temperature in it was measured after the previous event    *)
(* was published (nic_telemetry.py:125-144).                               *)
EventIsFresh ==
    \A h \in Hosts, c \in Channels : last.temps[h][c] \in {last.after, Missing}

(* The poller keeps publishing until it is stopped, whatever fails, if     *)
(* every host answers or fails in the end.  The plan says "always 1 Hz"    *)
(* (docs/implementation-plan.md:186): a silent host stalls it for ever.    *)
KeepsPublishing ==
    (silent = {} /\ task \in {"scheduled", "reading"})
        ~> (task = "sleeping" \/ stopping)
=============================================================================
