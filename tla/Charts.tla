------------------------------- MODULE Charts --------------------------------
(***************************************************************************)
(* What a page draws of a run: the measurement store with its KPI cards,   *)
(* the chart with its axis, the packets of the hardware diagram and the    *)
(* direction button.  Statuses and events come in the order they were      *)
(* published and none is lost: Dashboard says when that is so.             *)
(*                                                                         *)
(* Bandwidths and latencies are in units of which Tenth make a tenth of a  *)
(* Gb/s or of a microsecond: their resolution is a parameter, since a      *)
(* peak far below a tenth has an axis of its own.  The rounding of         *)
(* floating point numbers is left out.                                     *)
(***************************************************************************)
EXTENDS StartRequest, Sequences, FiniteSetsExt, SequencesExt

CONSTANTS Bandwidths,  \* what a meter or the mock generator may show
          Latencies,   \* what a sample of ib_read_lat may show
          Tenth,       \* units in a tenth of a Gb/s or of a microsecond
          MAX_POINTS,  \* window of the charts, 600 in the code
          None

ASSUME ValuesAssumption == Bandwidths \subseteq Nat /\ Latencies \subseteq Nat
ASSUME TenthAssumption == Tenth \in Nat \ {0}
ASSUME NoneAssumption == None \notin Nat
ASSUME WindowAssumption == MAX_POINTS \in Nat \ {0}

VARIABLES state,      \* sessionStore.state
          run,        \* the request being served: its tool and direction
          bidir,      \* the direction chosen on this page
          values, latValues, mode, current, peak, latency,  \* measurementStore
          dots        \* packets that travel through the diagram

store == <<values, latValues, mode, current, peak, latency>>
chartVars == <<state, run, bidir, store, dots>>

(* What of a request that was accepted the page can tell apart.            *)
Runs == {r \in [tool : ToolKind, bidir : BOOLEAN] :
            ~(r.bidir /\ r.tool = "ib_read_lat")}

ChartInit ==
    /\ state = "idle"
    /\ run = [tool |-> "mock", bidir |-> FALSE]
    /\ bidir = FALSE
    /\ values = <<>> /\ latValues = <<>> /\ mode = "bw"
    /\ current = 0 /\ peak = 0 /\ latency = None
    /\ dots = 0

-----------------------------------------------------------------------------
(* The events of a run: make_sysfs_event names the tool of the request and *)
(* its bandwidth, a sample of ib_read_lat has no bandwidth, and the mock   *)
(* generator stays below a cap.                                            *)
SysfsEvents == [sub_tool : {run.tool}, bw : Bandwidths, lat : {None}]

LatEvents == [sub_tool : {"ib_read_lat"}, bw : {0}, lat : Latencies]

MockEvents ==
    LET cap == (IF run.bidir THEN 3960 ELSE 1990) * Tenth
    IN  [sub_tool : {"mock"}, bw : {b \in Bandwidths : b <= cap}, lat : {None}]

Events ==
    CASE run.tool = "mock" -> MockEvents
      [] run.tool = "ib_read_lat" -> LatEvents
      [] OTHER -> SysfsEvents

-----------------------------------------------------------------------------
(* startFlow adds five packets for each direction, stopFlow removes all.   *)
Packets(b) == IF b THEN 10 ELSE 5
StartFlow(b) == dots' = dots + Packets(b)
StopFlow == dots' = 0

(* Each faulty variant is what a plausible bug would make of the           *)
(* definition that follows it; no run uses one.                            *)
FaultyResetKeepsLatency ==
    /\ values' = <<>> /\ mode' = "bw"
    /\ current' = 0 /\ peak' = 0
    /\ UNCHANGED <<latValues, latency>>

Reset ==
    /\ values' = <<>> /\ latValues' = <<>> /\ mode' = "bw"
    /\ current' = 0 /\ peak' = 0 /\ latency' = None

(* A start, of this page or of another one; a page that shows "connecting" *)
(* or "running" does not offer its buttons.                                *)
Connecting ==
    /\ state \in {"idle", "error"}
    /\ state' = "connecting"
    /\ run' \in Runs
    /\ UNCHANGED <<bidir, store, dots>>

Running ==
    /\ state = "connecting"
    /\ state' = "running"
    /\ Reset
    /\ StartFlow(bidir)
    /\ UNCHANGED <<run, bidir>>

Over ==
    /\ \/ state = "connecting" /\ state' = "idle"
       \/ state = "running" /\ state' \in {"idle", "error"}
    /\ StopFlow
    /\ UNCHANGED <<run, bidir, store>>

(* The effect of the diagram: a new direction starts the flow of a run     *)
(* that is shown once more.                                                *)
Redirect(b) == IF state = "running" THEN StartFlow(b) ELSE UNCHANGED dots

FaultyToggleNeverDisabled ==
    /\ bidir' = ~bidir
    /\ Redirect(bidir')
    /\ UNCHANGED <<state, run, store>>

(* The direction button.                                                   *)
Toggle ==
    /\ state \notin {"running", "connecting"}
    /\ bidir' = ~bidir
    /\ Redirect(bidir')
    /\ UNCHANGED <<state, run, store>>

-----------------------------------------------------------------------------
(* [...points, p].slice(-MAX_POINTS)                                       *)
Push(points, p) ==
    IF Len(points) < MAX_POINTS THEN Append(points, p)
                                ELSE Append(Tail(points), p)

FaultyPushBwPeak(e) ==
    /\ values' = Push(values, e.bw)
    /\ current' = e.bw
    /\ peak' = IF e.bw > current THEN e.bw ELSE peak
    /\ latency' = IF e.lat # None THEN e.lat ELSE latency
    /\ UNCHANGED latValues

PushBw(e) ==
    /\ values' = Push(values, e.bw)
    /\ current' = e.bw
    /\ peak' = IF e.bw > peak THEN e.bw ELSE peak
    /\ latency' = IF e.lat # None THEN e.lat ELSE latency
    /\ UNCHANGED latValues

PushLat(e) ==
    /\ latValues' = Push(latValues, e.lat)
    /\ latency' = e.lat
    /\ UNCHANGED <<values, current, peak>>

OnMeasurement ==
    /\ state = "running"
    /\ \E e \in Events :
          /\ mode' = IF e.sub_tool = "ib_read_lat" THEN "lat" ELSE "bw"
          /\ IF e.sub_tool = "ib_read_lat" /\ e.lat # None THEN PushLat(e)
                                                           ELSE PushBw(e)
    /\ UNCHANGED <<state, run, bidir, dots>>

ChartNext ==
    \/ Connecting \/ Running \/ Over \/ Toggle \/ OnMeasurement

ChartSpec == ChartInit /\ [][ChartNext]_chartVars

-----------------------------------------------------------------------------
(* The chart shows one of the two series, up to its axis.                  *)
Shown == IF mode = "lat" THEN latValues ELSE values

DataPeak == Max(ToSet(Shown) \union {0})

Ceil(a, b) == (a + b - 1) \div b

FaultyYMaxRoundsDown(p) ==
    LET padded == 12 * (IF p > Tenth THEN p ELSE Tenth)
    IN  IF padded <= 1000 * Tenth THEN Ceil(padded, 10 * Tenth)
                                  ELSE 500 * (padded \div (5000 * Tenth))

(* yMax, in tenths, of a peak: "padded" is in tenths of a unit, so 100     *)
(* Tenth of it make one Gb/s or one microsecond.                           *)
YMax(p) ==
    LET padded == 12 * (IF p > Tenth THEN p ELSE Tenth)
        one    == 100 * Tenth
    IN  CASE padded <= one -> Ceil(padded, 10 * Tenth)
          [] padded > one /\ padded <= 10 * one -> 10 * Ceil(padded, one)
          [] padded > 10 * one /\ padded <= 50 * one ->
                50 * Ceil(padded, 5 * one)
          [] OTHER -> 500 * Ceil(padded, 50 * one)

-----------------------------------------------------------------------------
(* The KPI cards agree with each other and with the chart, though the peak *)
(* is of the whole run and the average of what is left in the window: no   *)
(* point, no current value and no average is above the peak                *)
(* (measurement.svelte.ts:59-66).                                          *)
KpisAgree ==
    /\ \A i \in 1..Len(values) : values[i] <= peak
    /\ values # <<>> => current = Last(values)
    /\ FoldSeq(+, 0, values) <= peak * Len(values)

(* The chart of a run shows what its tool measures, from the first event   *)
(* on, and nothing of the run before it, which may have filled the other   *)
(* series (measurement.svelte.ts:33-61, BandwidthChart.svelte:14-20).      *)
ChartFitsTool ==
    state = "running" =>
        /\ (mode = "lat") = (latValues # <<>>)
        /\ run.tool = "ib_read_lat" => values = <<>>
        /\ run.tool # "ib_read_lat" => latValues = <<>> /\ latency = None

(* The axis leaves a fifth of room above the highest point and wastes at   *)
(* most six tenths of the chart, on both sides of each limit where its     *)
(* steps get coarser; only a peak below 0.08 wastes more, under the least  *)
(* axis there is, 0.2 (BandwidthChart.svelte:32-39).                       *)
AxisFits ==
    Shown # <<>> =>
        /\ 10 * Tenth * YMax(DataPeak) >= 12 * DataPeak
        /\ IF 10 * DataPeak >= 8 * Tenth
           THEN 2 * Tenth * YMax(DataPeak) <= 5 * DataPeak
           ELSE YMax(DataPeak) = 2

(* Packets travel exactly while a run is shown, five in each direction     *)
(* this page has chosen: the button can never start a second flow on top   *)
(* of the first (HardwareDiagram.svelte:18-26, ControlPanel.svelte:97-102).*)
FlowFitsRun == dots = IF state = "running" THEN Packets(bidir) ELSE 0
==============================================================================
