----------------------------- MODULE SysfsMeter -----------------------------
(***************************************************************************)
(* What the meter of a bandwidth session computes from the counters of the *)
(* NIC of server A: _measure_loop and _read_iface_bytes of app/runner.py   *)
(* and parse_sysfs_stats of app/parser.py.  The code divides the bytes of  *)
(* an event by the time since the last read; an event is abstracted to its *)
(* bytes, that is to the bandwidth it shows times the interval it covers.  *)
(*                                                                         *)
(* A counter has a width, and a reload of the driver sets it to 0.         *)
(***************************************************************************)
EXTENDS Integers

CONSTANTS Bidir,    \* req.bidir: both directions are measured, or rx alone
          Modulus,  \* 2^64 on the NIC
          MaxBytes  \* bound on the bytes that move between two reads

ASSUME BidirAssumption == Bidir \in BOOLEAN
ASSUME ModulusAssumption == Modulus \in Nat \ {0}
ASSUME BytesAssumption == MaxBytes \in Nat

VARIABLES loop,      \* before the first read, polling, or over
          hw,        \* the counters of the NIC
          prev,      \* prev_rx and prev_tx: what the last read returned
          read_ok,   \* that read did not fail
          since,     \* the bytes that really moved since, by direction
          fellback,  \* a counter fell back since: a wrap or a reload
          event      \* the last event, and what really moved in its time

vars == <<loop, hw, prev, read_ok, since, fellback, event>>

Directions == {"rx", "tx"}
Zero == [d \in Directions |-> 0]

Init ==
    /\ loop = "first"
    /\ hw \in [Directions -> 0..(Modulus - 1)]
    /\ prev = Zero
    /\ read_ok = FALSE
    /\ since = Zero
    /\ fellback = FALSE
    /\ event = [bytes |-> 0, moved |-> 0, sound |-> FALSE, steady |-> FALSE]

-----------------------------------------------------------------------------
(* What really moved since the last read, in the directions asked for.     *)
Moved == IF Bidir THEN since["rx"] + since["tx"] ELSE since["rx"]

(* One byte more in one direction.                                         *)
Move(d) ==
    /\ since[d] < MaxBytes
    /\ since' = [since EXCEPT ![d] = @ + 1]
    /\ hw' = [hw EXCEPT ![d] = IF @ = Modulus - 1 THEN 0 ELSE @ + 1]
    /\ fellback' = (fellback \/ hw[d] = Modulus - 1)
    /\ UNCHANGED <<loop, prev, read_ok, event>>

DriverReloads ==
    /\ hw' = Zero
    /\ fellback' = TRUE
    /\ UNCHANGED <<loop, prev, read_ok, since, event>>

-----------------------------------------------------------------------------
(* Each faulty variant is what a plausible bug would make of the           *)
(* definition that follows it; no run and no proof uses one.               *)
FaultyMeasuresTx(c) == IF Bidir THEN c["rx"] + c["rx"] ELSE c["rx"]

(* The counters, or the bytes, that the request is about.                  *)
Measured(c) == IF Bidir THEN c["rx"] + c["tx"] ELSE c["rx"]

FaultyAssumesWrap(p, c) == IF c < p THEN c - p + Modulus ELSE c - p

(* parse_sysfs_stats: the difference, and 0 rather than a negative one.    *)
Delta(p, c) == IF c < p THEN 0 ELSE c - p

(* ethtool may fail or print something else: the read is then (0, 0).      *)
ReadIfaceBytes(ok) == IF ok THEN hw ELSE Zero

(* The counters read are the base of the next event.                       *)
Rebase(ok) ==
    /\ prev' = ReadIfaceBytes(ok)
    /\ read_ok' = ok
    /\ since' = Zero
    /\ fellback' = FALSE

FirstRead(ok) ==
    /\ loop = "first"
    /\ loop' = "polling"
    /\ Rebase(ok)
    /\ UNCHANGED <<hw, event>>

(* Every 0.2 s, or later when a read is slow.                              *)
Poll(ok) ==
    /\ loop = "polling"
    /\ event' = [bytes |-> Delta(Measured(prev), Measured(ReadIfaceBytes(ok))),
                 moved |-> Moved,
                 sound |-> read_ok /\ ok,
                 steady |-> ~fellback]
    /\ Rebase(ok)
    /\ UNCHANGED <<loop, hw>>

EndLoop ==
    /\ loop = "polling"
    /\ loop' = "over"
    /\ UNCHANGED <<hw, prev, read_ok, since, fellback, event>>

Next ==
    \/ \E d \in Directions : Move(d)
    \/ DriverReloads
    \/ \E ok \in BOOLEAN : FirstRead(ok) \/ Poll(ok)
    \/ EndLoop

Spec == Init /\ [][Next]_vars

-----------------------------------------------------------------------------
Counters == [Directions -> 0..(Modulus - 1)]

TypeOK ==
    /\ loop \in {"first", "polling", "over"}
    /\ hw \in Counters
    /\ prev \in Counters
    /\ read_ok \in BOOLEAN
    /\ since \in [Directions -> 0..MaxBytes]
    /\ fellback \in BOOLEAN
    /\ event \in [bytes : Nat, moved : Nat, sound : BOOLEAN, steady : BOOLEAN]

(* Between two reads that succeed the meter never shows more than what     *)
(* moved, though a counter wraps or the driver is reloaded between them:   *)
(* it then shows less (parser.py:38-50, runner.py:283-293).                *)
NeverOverstates == event.sound => event.bytes <= event.moved

(* With no such accident it shows exactly what moved: of a read that comes *)
(* late no byte is lost, and none is counted in two events.                *)
SteadyIsExact == event.sound /\ event.steady => event.bytes = event.moved
=============================================================================
