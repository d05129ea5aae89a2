# Verification of p2p-perf-monitor

TLA+ models of the monitor, the TLC runs that check them on small instances, and
proofs that TLAPS checks for every value of the constants. Paths such as
`state.py:112` are relative to `src/app/`, Svelte and TypeScript paths to
`src/frontend/src/`.

The program measures the link between two servers, A and B. A FastAPI process
accepts a request from a browser, starts a load generator on both servers over
SSH, reads the counters of the NIC of server A, and streams what it reads, with
the temperatures of both NICs, to every open page. It is one asyncio event loop:
all concurrency is between tasks that interleave at their awaits.

## 1. Inventory

| Component | State | Operations | What makes it correct |
|---|---|---|---|
| `SessionManager`, status (`state.py`) | `_status`, `_lock` | `begin_connecting`, `mark_running`, `mark_error`, `mark_idle` | a busy status always has somebody who ends it; every change is published |
| Measurement API and task (`api/measure.py`, `main.py`) | `app.state.measurement_task`, the task, the handlers that await it | `start`, `stop`, `_measurement_task`, the end of the lifespan | one session at a time; the status and the reference tell the truth about it; a stop is answered |
| SSE fan-out (`state.py`, `api/stream.py`) | a bounded queue per subscriber | `publish`, `subscribe`, `unsubscribe`, `put_nowait`, the generator with its heartbeat | events in order, only the oldest dropped, no subscriber holds up another |
| Bandwidth session (`runner.py`, `_run_with_sysfs`) | two connections, two processes, the meter task with its queue and stop event | the awaits of the generator and of the meter, the cleanup | nothing left open, nothing yielded after a stop, no cancel swallowed, it ends |
| Latency session (`runner.py`, `_run_perftest_lat`) | two connections, the two processes of a sample | the sample loop, its timeout, nested cleanup | no sample leaves anything the session could have ended, a bad sample is a missing point, it ends |
| Meter arithmetic (`runner.py`, `parser.py`) | the counters last read | `_read_iface_bytes`, `parse_sysfs_stats`, the loop | never shows more than moved; counts every byte once |
| Load commands (`schemas.py`, `runner.py`) | none | `StartRequest`, `run_session`, the argument builders | the commands of both hosts agree |
| NIC poller (`nic_telemetry.py`) and sensor parser (`parser.py`) | the task, the last event | `start`, `stop`, the real and the mock loop, `parse_sensors_json` | an event shows no old temperature; the port in use is read; it keeps publishing |
| Dashboard page (`routes/+page.svelte`, `lib/stores`, `lib/utils`) | three stores, an `EventSource`, a GET or POST in flight | `onMount`, the three event handlers, the reset effect, the action button | the page follows the server; a chart shows one run |
| Charts, KPI cards, diagram, panel (`lib/components`) | the drawn values, packets, chosen options | `push`, `reset`, `yMax`, `startFlow`, `stopFlow`, the direction button | cards, chart and axis agree; packets fit the run |
| Settings (`config.py`) and command line (`scripts/poc.py`) | which settings the host gives; the session `poc.py` steps, its exit code | `Settings()`, `_parse_args`, `_main_async`, `main` | no real session without settings; the exit code tells what became of it |
| Mock sessions (`runner.py`) | none | `mock_session`, `_mock_lat_session` | values below a cap |
| Health, static widgets, deployment, mockup | none of interest | | not modelled |

How they interact:

- A handler of the API changes the manager and creates or cancels the
  measurement task; the task steps the generator `run_session` returns and
  changes the manager when it ends. Handler and task share the manager and
  `app.state.measurement_task`, with no lock across an await.
- The manager, the task and the poller `publish`; each subscriber's generator
  takes events from its own queue and writes them to its client.
- The lifespan stops the poller, then cancels the measurement task and awaits it;
  it begins only when no response is open any more, streams included.
- A bandwidth session and its meter share a queue and a stop event; both talk
  to hosts that may refuse, hang or ignore a signal.
- A page GETs the status once, then lives on the stream alone; what it posts
  depends on what it shows.

Hard behaviours: a cancel may arrive at any await, also inside a cleanup, and
also before a task has taken its first step; what a handler read before an await
may be stale after it; timeouts race what they wait for; queues overflow; the
stream is never replayed; counters wrap; hosts fail one at a time. `PROJECT.json`
lists each such hazard at its line.

## 2. Modules

| Module | Models | Composition |
|---|---|---|
| `MeasureApi` | manager, API, task, lifespan, process | implements `ServerView`; `MCMeasureApi` adds symmetry for TLC |
| `ServerView` | what a page may see of the server: the status and the events about it | abstract |
| `SseFanout` | queues, generators, disconnects | implements `LossyFeed` |
| `LossyFeed` | what the stream promises: one log, read in order, gaps only by overflow | abstract |
| `BwSession` | bandwidth session and its meter | implements `SessionContract` |
| `Monitor` | a bandwidth session under the API, its stops, an open stream and the shutdown | extends `BwSession`; implements `ServerView` |
| `LatSession` | latency session | implements `SessionContract` |
| `SessionContract` | what the measurement task relies on: one end, and no cancel swallowed | abstract |
| `SysfsMeter` | the arithmetic of the meter | |
| `Sensors`, `NicPoller` | the parser as operators; the poller | `NicPoller` extends `Sensors` |
| `StartRequest` | what a request may ask for: fields and validators | |
| `Launch` | from a request, by the API or by `poc.py`, to two commands and an exit code | extends `StartRequest`, instantiates `SessionContract` |
| `Dashboard` | a page on the server of `ServerView` | instantiates `ServerView` |
| `Charts` | what a page draws of a run | extends `StartRequest` |
| `MeasureApiProofs`, `SseFanoutProofs`, `LatSessionProofs`, `SysfsMeterProofs`, `NicPollerProofs`, `DashboardProofs` | theorems | extend the module they are named for |
| `MonitorProofs` | theorems about `BwSession` and about `Monitor` | extends `Monitor` |
| `PanelProofs` | theorems about `Launch`, about `Charts` and about both | extends `Launch` and `Charts` |

Definitions keep the name of the function they translate; the `map` of
`PROJECT.json` gives the lines of each. An operator whose name begins with
`Faulty` is what a plausible bug would make of the definition after it; a run
with the faulty definition must fail, which shows that the property can.

### How state and actions correspond to the code

**MeasureApi.** An action is what the event loop runs between two suspension
points. `_lock` is never held across one, so `start()` is one action: the
conflict check, `connecting`, its event and the creation of the task. `stop()`
is two: up to the await (`StopCancel`), and after it (`StopFinish`), or one if
nothing is alive (`StopIdle`). The task is `TaskFirstStep`, `TaskPublish` and
four endings; a task cancelled before its first step runs no code at all
(`TaskRevoked`). `run` in the status stands for `tool` and `started_at`,
which identify a request. The event loop runs callbacks first come, first
served: `overtook` bounds who may run between the end of a task and the
resumption of a stop that awaits it, which decides what can go wrong there.
`Terminate` and `LifespanFinally` are the graceful shutdown; `Kill` and `Boot`
lose everything and start again. `emit` is the sequence of events a step
publishes. `raced` is a ghost: a start was accepted while a stop waited.

**ServerView.** The status and, for each step, the events it may publish: a change
of the status with the status itself, and after an error status the error; a
measurement only while its run is shown. `MeasureApi` maps its `status` and
`emit` onto it, `Monitor` its `status` and what its session yields (`Published`),
and `Dashboard` takes its actions as the server of the page, so that
the order of events the page relies on is the order the handlers are shown to
publish.

**SseFanout.** Events are numbered in the order of `publish`. `cursor` is the
last event a subscriber took. The heartbeat timer may fire in the very round an
event arrives. `lingering` is a generator whose response was cancelled during a
write: it stays subscribed until Python finalises it.

**BwSession, LatSession.** `pc` is the await the generator is suspended at; an
action runs it to the next one, with every finally block in between. `held` is
what the local variables refer to: only that can be ended. Remote processes
exit when they like, or never. The cleanup of `BwSession` goes through
`CleanupOrder`, and `at` is how far it has come. A cancel may strike at every await, up to
`MaxCancels` times. The durations of timeouts are left out: a timeout may fire
at any moment, and fairness says that it does. A `create_process` that a cancel or
a timeout interrupts, or that fails, returns no handle, but the host may run the
command all the same: in `LatSession` such a process is one of `strays`, which
only ends by itself. `BwSession` leaves it out (`Unstarted`): nothing said of that
session is about a process it has no handle to.

**Monitor.** The variables of `BwSession` and, around them, the task, the
reference, the status, each client's stop and the server on its way down.
`Cancel` of `BwSession` happens when a stop, the 8 s timeout of one or the
shutdown cancels the task; `TaskFollows` is what the task makes of the end of the
generator in the same stretch. It covers one measurement: what one leaves to the
next is the matter of `MeasureApi`. In `MeasureApi` a task publishes only while it
is live by construction; here the generator yields and the API sets the status, and
that the one happens only under the other (`FollowsView`) is a consequence of both.

**SysfsMeter.** `since` counts what really moved since the last read, in each
direction; a counter wraps at `Modulus` and a driver reload sets both to zero.
An event is abstracted to its bytes, the bandwidth times the interval.

**NicPoller, Sensors.** A temperature in the poller is the moment it was measured,
counted in published events, and in `Sensors` the position of the chip it was read
from; `answer` is the output parsed last. The two reads of a round go on side by
side (`Answers`, `Fails`, `Returns`): an output is parsed before its connection is
closed, and the round is over when both reads are. `silent` hosts accept a
connection and never answer, for no read has a timeout.

**StartRequest, Launch.** `Valid` is the validation of a request, which `Launch` applies
and whose outcome `Charts` takes for granted (`Runs`). A command is a record of options. Each builder is called once for
each host, as in the code. `env` is the set of names the host gives; what has a
default in `Settings` is left out of it. `rdma_a` is the address the client
connects to, which `Settings` takes even if it is empty; a builder is told that it
builds for server A by having no address at all, and leaves an empty one out
(`Given`). The session of `poc.py` is
`SessionContract`; a first Ctrl-C cancels it, the next one breaks the event loop,
and `ExitCode` is what `asyncio.run` and `main` make of its end.

**Dashboard.** A run is a number and a point in a chart is the run it was taken
in. `feed` is the server's queue for this page. `missed` is a ghost: a status
event was lost, by a gap before the subscription, a broken connection or an
overflow, and no status other than `running` has arrived since.
The network pipe between the server and the page is not kept apart from `feed`: an
event stays in it until the page handles it, where in the code it may have left the
queue before that.

**Charts.** Values are in units of which `Tenth` make a tenth of a Gb/s or of a
microsecond; events in order and none lost.

## 3. What the runs check

Twelve runs, each with its own question. All states within the bounds are
explored. Deadlock is checked except where a session or a request really ends.

| Run | Shows |
|---|---|
| `measure` | Two clients, three tasks, shutdown, kill and restart at any moment. Always: `BusyHasOwner`, `ConnectingEnds`, `StopReturns`. Unless a start overtook a waiting stop: `SessionIsExclusive`, `StatusNamesSession`, refinement `ImplementsView`. |
| `measure_overlap` | `SingleSession` without that condition is violated (see 6). |
| `sse` | `QueueIsWindow`, refinement `ImplementsFeed`, and `CatchesUp`: a client that reads gets everything though another never reads again. |
| `monitor` | A bandwidth session under two clients and a shutdown. Of the session: `NormalEndIsClean`, `FailedStartIsClean`, `NormalEndYieldsAll`, `NoEventAfterCancel`, refinement `KeepsContract`, `FinishedEnds`. Of the whole: `QuietWhenIdle`, which includes that the meter never outlives the session, refinement `FollowsView`, `StopAnswered`, `ShutdownEnds`. |
| `bw_stop` | `StoppedSessionIsClean` is violated (see 6). |
| `lat` | `ReapsWhatItHolds`, `EndIsClean`, `OnlyDialFails`, refinement `KeepsContract`, `EndsByItself`. |
| `nic` | `PortInUseIsRead`, `EventIsFresh`, `KeepsPublishing`. |
| `dash` | `PageFollows`, `PageConverges`, `ChartsShowTheRun`. |
| `dash_gap` | `InitialStatusIsSynced` is violated (see 6). |
| `meter` | `NeverOverstates`, `SteadyIsExact`. |
| `launch` | `PeersAgree`, `ExitTellsOutcome`. |
| `charts` | `KpisAgree`, `ChartFitsTool`, `AxisFits`, `FlowFitsRun`. |

### Bounds, and why they are enough

- `measure`: two clients are the least for overlapping requests; three tasks,
  because with two clients at most one live task is referenced and at most one
  other is awaited, and a third can then start. An identity is used again once
  nothing refers to it, so that behaviours have no end.
- `sse`: queues of two and five events, so that a queue overflows twice with one
  event taken in between; one client that reads and one that need not.
- `monitor`: two clients, so that one can stop while another waits; four cancels,
  which is all that two stops and their timeouts can deliver (with six there are
  no more states); a meter queue of two overflows.
- `lat`: two cancels, the stop and the one of `wait_for` after 8 seconds or of the
  shutdown; two samples, for the passage from one to the next.
- `nic`: all outputs of up to two chips, the two ports of a card; events modulo
  three, so that what is left of a round has another number than the next one and
  the one after it.
- `dash`: two runs, one broken connection, a queue and a window of two, so that
  a status can be pushed out of the queue and a point out of the window.
- `meter`: counters of two bits and up to two bytes between two reads: every
  combination of wraps and reloads. The theorems cover every width.
- `launch`: values at and next to each limit of the validation, with all that
  the panel can post; all settings, all but one, none; an address and an empty one.
- `charts`: values in hundredths, at and next to each limit where the axis changes
  its steps and to 0.08, below which it is its least; a window of three, so that the
  peak of a run can be older than what the window shows. `AxisFitsAnyRun` covers
  every resolution.

### Fairness, and why the code justifies it

The event loop runs every callback that is ready, so each step that waits for
nothing outside the process is weakly fair, and so is each timeout of the code.
Closing a connection is assumed to complete (`conn.wait_closed()` has no timeout
in the code: that is an assumption about asyncssh). Nothing is assumed of
the users, of the remote commands, of the reads of the meter, of a client that
does not read, or of a session that streams: no timeout bounds the load
generator, and a stop is what ends one that hangs (`StopAnswered`). In
`MeasureApi` the finally blocks that a cancel runs are assumed to end
(`TaskCancelled` is fair); `Monitor` has no such assumption, and `StopAnswered` and
`ShutdownEnds` are the check of it for bandwidth sessions. A page need never
close its stream, and uvicorn is given no timeout for its graceful shutdown:
`ShutdownEnds` is therefore about a shutdown whose last stream is closed. In
`Dashboard` only `HandleEvent` is fair: what is queued for an open stream
arrives and is handled. The server, the button and the network may stop for ever.

## 4. What is proved

For all sets of clients, tasks and subscribers, all queue sizes and counter
widths, with no assumptions but the named ones on the constants (the null value
is not a task, no number and no address; sizes are positive; measured values are
natural numbers):

- `MeasureApiProofs`. `TypeCorrect`. `BusyAlwaysHasOwner`: `BusyHasOwner` is not
  inductive, since a revoked task ends without touching the status; the
  invariant adds `RevokedIsAwaited`, that a stop awaits such a task or the
  process is going down. `StatusIsTruthful`: `StatusNamesSession` needs
  `AwaitsTracked`, that while a stop waits the reference is to the task it
  awaits or gone, because `StopFinish` drops whatever the reference is by then.
  `OneSessionAtATime` follows, and so does `ApiImplementsView`, the refinement: the
  steps of a task are those of the run the status shows, and a process that is
  down has nothing to say (`DownIsDead`). The last three are conditional on
  `~raced`, as the run is; `measure_overlap` shows that the condition is needed.
  `OneClientOneSession` shows that one client alone never breaks it, so that
  `SingleSession`, which that run refutes with two, then holds.
- `SseFanoutProofs`. `QueuesAreWindows` from lemmas about `PutNowait` and
  `Tail`; `FanoutTypeCorrect`; and `FanoutImplementsFeed`, the refinement: each
  step is a step of `LossyFeed` or stutters, given that the queue is a window.
- `MonitorProofs`, of a bandwidth session. `MeterNeverOutlives`, `NormalEndIsComplete`,
  `CancelSilences` and `SessionKeepsContract` from one invariant, `SessionInv`: where
  an exception may be pending, that the meter is done from the cleanup on, that a
  cancel leaves a trace in `exc`, and that the normal way passes through an empty
  queue. `NormalEndEndsAll` and `FailedStartLeavesNothing` are about what is left on
  the hosts, and need `CleanInv`: which references the generator has at each await
  (`HeldGrows`), that no process runs unasked without one (`Tracked`), that all
  up to `at` was told to end (`EndedSoFar`) and stays so while the network
  moves, and that a session without any reference has a dial that failed. A
  normal end has held all four resources (the last part of `HeldGrows`), which is
  what makes `NormalEndIsClean` follow from "what is held was told to end".
- `MonitorProofs`, of the session in its surroundings. `MonitorRunsSession`: each
  step of `Monitor` is a step of `BwSession` or none, so that all that is proved of
  the session holds of it under the API, the contract included
  (`MonitorKeepsContract`). `IdleIsQuiet` adds `ApiInv`, that a live task is known
  and shown as busy and that the generator is where its task is, and takes from
  the session that it outlives its meter. `MonitorImplementsView` is the refinement
  of `ServerView`. It adds `StatusFitsTask`, and needs that only a step of the session
  takes from its queue (`OnlySessionYields`), and that such a step does not end it
  (`YieldingGoesOn`): the flush is followed by a cleanup that has work to do, since
  a draining session holds all four resources (`HeldGrows`).
- `LatSessionProofs`. `HandlesAreReaped`, `DialAloneFails` and `LatKeepsContract` from
  `LatInv`: a process that runs unasked and has a handle is one a pending await will
  reap, nothing is in flight while a sample makes progress, and a cancel is in `why`
  during a sample and in `exc` after it. `UnwindKeeps` carries it through every
  await. `EndLeavesNothingHeld` adds `ConnsClose`, that the connections are closed in
  their order: it says of every end of the session but one that a cancel forces on
  the closing itself that nothing with a handle is left. Neither
  says anything of a process without a handle (`strays`, see 6).
- `NicPollerProofs`. `TemperaturesAreOfPortInUse` is about the parser: the chip it
  selects is a candidate, an active one if there is any, because `FirstOf` returns
  the least element (`FirstIsLeast`). It holds of every output of any number of
  chips; that only outputs are parsed is `PollerInv`. `TemperaturesAreFresh` says of
  the event shown what is not in the step that publishes it: that nothing a read
  yielded outlives its round, however it ends. It needs `ReadsOfRound`, what a read
  has yielded is of now and nothing is left outside a round, which a stop must keep
  as well as a publication, and that a poller being stopped is not reading.
- `PanelProofs`, of a launch. `CommandsAgree` and `ExitCodeTells` from
  `LaunchInv`: commands are built only from a request that passed the validation,
  both from the same one (`BuiltFrom`); until the launch nothing has run; a launched
  session that is still running saw no Ctrl-C; and there is one exit, the last
  step. It needs that `Absent` is neither a number nor what an address may be.
- `PanelProofs`, of the charts. `ChartOfTheRun` and `PacketsTravel` from `ChartInv`, in
  which the two properties, the types and the order of the points (`PointsFit`)
  are inductive together: an event has the tool of the run (`EventShape`), and a push
  adds one point and no other value (`Pushed`). `CardsAgree` also speaks of a sum,
  which `FoldSeq` defines by recursion over sets of indices; `SumsExist` shows that
  the function it folds with exists, by building it on the sets of at most k indices
  for one k after the other, and `SumBounded` bounds it on each of them. `AxisFitsAnyRun`
  is arithmetic over every peak and every resolution (`AxisOfPeak`, from what rounding
  up adds at most, `CeilBounds`), and that a series has a peak
  (`SeqBounded`, `MaxOfBounded`); it says besides what `AxisFits` leaves to the
  meaning of `Max`, that there is room above each point. `AcceptedIsDrawable` joins
  the two: what the validation lets through is what `Charts` takes for a run.
- `DashboardProofs`. `PageFollows` is about the last status in the queue, and not
  inductive: a full queue drops its oldest events, which may be statuses, and the
  page handles them one at a time. `FeedInv` says of each position of the queue
  which status the page will show there, as far as that is known (`Shows`), that
  the event there was published in that status (`InOrder`), and that the end of the
  queue leads to the present one (`LeavesIn`). Both are kept by every suffix
  (`SuffixFits`), which covers a drop as well as `HandleEvent`, and by appending what
  the server publishes (`AppendFits`, `PublishFits`). `PageFollowsServer` follows with
  the existence of a last status (`LastStatus`), and `ChartsShowOneRun` by `ChartInv`:
  a measurement meets the page in the status of its own run, and between two runs
  it meets a status that is not `running`, which is what the reset effect needs.
- `SysfsMeterProofs`. `MeterNeverOverstates` and `SteadyMeterIsExact` from
  `CountersGrow`: after a good read a counter is at most what it was then plus
  what moved since, and exactly that if it never fell back.

Each of these invariants was checked by TLC within the bounds of the run of its
component before it was proved. Where an argument needs a least or a last element
of a set of numbers it uses `WFMin` of `WellFoundedInduction`, with `<` on `Nat` as
the relation (`FirstIsLeast`, `NatMin`, `LeastNumber`). The induction theorems of the
library take an operator as a parameter, which the provers here cannot instantiate;
where an argument is by induction it is about the set of numbers for which the
claim holds, which `AllNumbers` shows to be all of them (`SeqBounded`, `SumsExist`,
`SumBounded`).

Only model-checked: all liveness properties (`ConnectingEnds`, `StopReturns`,
`CatchesUp`, `FinishedEnds`, `StopAnswered`, `ShutdownEnds`, `EndsByItself`,
`KeepsPublishing`, `PageConverges`), for fairness and `ENABLED` are out of the prover's
reach here. Every other property of a passing run is proved.

## 5. Plan

Done: the components first (`MeasureApi`, `SseFanout`, the sessions, the poller,
the meter, the page), then what joins them: `ServerView` between the API and the
page, `Monitor` between the session and the API, and the command line.

Then the theorems: all safety properties of the runs, the refinements included.

Next, in this order:

1. `Monitor` over a latency session, and `MeasureApi` over `SessionContract` in place
   of its own endings, so that the chain from session to page has no gap.
2. `mock_session` and `_mock_lat_session` as generators with their one await.

## 6. Where the code and its documents disagree

Three disagreements have a run of their own.

- `state.py:4` promises a single session. `stop()` (`api/measure.py:65-75`)
  clears the reference and marks the manager idle after its await, whatever was
  started meanwhile. Another client's start that lands between the end of the
  task and that moment leaves a session nothing refers to. (`measure_overlap`)
- `docs/implementation-plan.md:350` asks for no SSH leak. A stop during a
  bandwidth session awaits the cancelled meter under `suppress(Exception)`
  (`runner.py:341-344`), which lets `CancelledError` through: the processes and
  connections are not ended. (`bw_stop`)
- `+page.svelte:31` says that the GET synchronises the initial status. What is
  published between its answer and the subscription is lost. (`dash_gap`)

Others were met while modelling; the models contain the behaviour, and no run
asks about it:

- `state.py:6` names an idle timeout of 30 minutes for subscribers; there is
  none, and a subscriber whose client stopped reading stays (`sse` has one).
- `runner.py:377` says that the samples of a latency session are taken in series. The
  4 s timeout of a sample may interrupt `create_process` (`runner.py:452`, `455`)
  after its request has left; the host then runs `ib_read_lat`, nobody has a handle to
  it, and the next sample starts beside it. A stop at that await leaves such a process
  as well, after the end of the session too. These are the `strays` of
  `LatSession`: the claim fails of them, and `ReapsWhatItHolds` is about the others.
- `runner.py:307`: when one of two concurrent connects fails, the other
  connection, if it succeeds, is never closed (`ConnectFailed` of `BwSession`).
- `docs/implementation-plan.md:186` has temperatures published at 1 Hz always; a
  host that accepts and never answers stops them for both (`silent`).
- `+page.svelte:19` resets the charts when a run starts; a page that saw
  `running` before and after a broken connection joins two runs in a chart
  (`ChartsShowTheRun` is conditional on `~missed`).
- `parser.py:65` has the page keep the last temperature when one is missing;
  `nic_telemetry.svelte.ts:48` shows a dash.
- `runner.py:244-249` takes a failed read for zero counters, so that the next
  event shows the whole counter (`NeverOverstates` is about two good reads).
- `parser.py:30` names the size iperf3 uses, 131072; its events carry the size
  of the request, which iperf3 never gets.
- `docs/ui-ux-spec.md:241` greys out BIDIR for `ib_read_lat`; the panel offers
  it and the server answers 422 (`PanelRequests` contains it).
- `poc.py` (`src/scripts/poc.py:92`) says how many events it got when it is
  interrupted; a first Ctrl-C reaches it as a `CancelledError`, and it says nothing
  (`Interrupt` of `Launch`).
- `poc.py` (`src/scripts/poc.py:34`) names 600 seconds as the longest duration; it
  accepts 7200 (`Valid`).
- `main.py:50-59`: a graceful shutdown waits for every open stream, so that a live
  session is cleaned up only when the last page has closed its own.
- `docs/ui-ux-spec.md:223` fixes the axis of the chart at 0 to 200 Gb/s, and its line
  242 and `docs/implementation-plan.md:222` switch it between 200 and 400 with the
  direction; the code does so only while there is no data, and then follows the
  peak (`BandwidthChart.svelte:32-39`, `YMax`). `AxisFits` is about the axis of the
  code; with the documented one a latency of a few microseconds would be a flat line.
- `config.py:36` takes an empty `server_a_rdma_ip`; the perftest client then has no
  address and listens like its server (`Given`), so that neither connects. `PeersAgree`
  asks for the address only where it is not empty.
- `KpiCards.svelte:5` gives 380 Gb/s as the limit of the glow in both
  directions; the effect uses 195 in both.

## 7. Not modelled

`parse_ib_write_bw_line` and `parse_iperf3_json`, which the program never calls,
and `_mock_lat_session`, which only a test reaches; `GET /api/status` apart from
the page that uses it and `GET /api/health`; the values of the settings beyond the
host they belong to; what `poc.py` prints; the glow of a card, labels, drawing and
styles; the scripts, containers and units of the deployment, except that a dead
process is started
again; the static mockup. A process of a bandwidth session that was started
by an interrupted `create_process` is left out too (`Unstarted` of `BwSession`);
`LatSession` has it. Elapsed time appears nowhere: intervals of the meter
and of the poller, the 8 s, 5 s and 2 s timeouts and the session's
`elapsed_sec` are reduced to the order of events.
