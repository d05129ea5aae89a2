-------------------------- MODULE SysfsMeterProofs --------------------------
(* What the meter shows is bounded by what moved, for counters of every    *)
(* width, any traffic and both kinds of request.                           *)
EXTENDS SysfsMeter, TLAPS

(* Since a read that succeeded, a counter has grown by at most what moved, *)
(* and by exactly that as long as it did not fall back.                    *)
CountersGrow ==
    read_ok =>
        \A d \in Directions :
            /\ hw[d] <= prev[d] + since[d]
            /\ ~fellback => hw[d] = prev[d] + since[d]

MeterInv == TypeOK /\ CountersGrow /\ NeverOverstates /\ SteadyIsExact

(* The sum over the measured directions is a natural number.               *)
LEMMA MeasuredType ==
    ASSUME NEW c \in [Directions -> Nat]
    PROVE  Measured(c) \in Nat
  BY DEF Measured, Directions

(* What moved is one, too.                                                 *)
LEMMA MovedType ==
    ASSUME since \in [Directions -> Nat]
    PROVE  Moved \in Nat
  BY DEF Moved, Directions

(* A difference is never negative.                                         *)
LEMMA DeltaType ==
    ASSUME NEW p \in Nat, NEW c \in Nat
    PROVE  Delta(p, c) \in Nat
  BY DEF Delta

(* A counter is a natural number.                                         *)
LEMMA CountersAreNat == Counters \subseteq [Directions -> Nat]
  BY ModulusAssumption DEF Counters

(* A poll whose two reads succeeded shows at most what moved, and exactly  *)
(* that if no counter fell back.                                           *)
LEMMA PollBounds ==
    ASSUME MeterInv, read_ok
    PROVE  /\ Delta(Measured(prev), Measured(hw)) <= Moved
           /\ ~fellback => Delta(Measured(prev), Measured(hw)) = Moved
  <1>1. /\ hw["rx"] \in Nat /\ prev["rx"] \in Nat /\ since["rx"] \in Nat
        /\ hw["tx"] \in Nat /\ prev["tx"] \in Nat /\ since["tx"] \in Nat
    BY BytesAssumption, ModulusAssumption
    DEF MeterInv, TypeOK, Counters, Directions
  <1>2. /\ hw["rx"] <= prev["rx"] + since["rx"]
        /\ hw["tx"] <= prev["tx"] + since["tx"]
        /\ ~fellback => /\ hw["rx"] = prev["rx"] + since["rx"]
                        /\ hw["tx"] = prev["tx"] + since["tx"]
    BY DEF MeterInv, CountersGrow, Directions
  <1> QED
    BY <1>1, <1>2 DEF Measured, Moved, Delta

(* The invariant holds before the first read ...                           *)
THEOREM MeterInit == Init => MeterInv
  <1> SUFFICES ASSUME Init PROVE MeterInv
    OBVIOUS
  <1>1. Zero \in Counters /\ Zero \in [Directions -> 0..MaxBytes]
    BY ModulusAssumption, BytesAssumption DEF Zero, Counters
  <1>2. TypeOK
    BY <1>1 DEF Init, TypeOK, Counters
  <1> QED
    BY <1>2 DEF Init, MeterInv, CountersGrow, NeverOverstates, SteadyIsExact

(* The read that a poll or the first read ends with is a new base.         *)
LEMMA RebaseKeeps ==
    ASSUME MeterInv, NEW ok \in BOOLEAN, Rebase(ok), hw' = hw
    PROVE  /\ prev' \in Counters
           /\ since' \in [Directions -> 0..MaxBytes]
           /\ CountersGrow'
  <1>1. Zero \in Counters /\ Zero \in [Directions -> 0..MaxBytes]
    BY ModulusAssumption, BytesAssumption DEF Zero, Counters
  <1>2. prev' \in Counters /\ since' \in [Directions -> 0..MaxBytes]
    BY <1>1 DEF Rebase, ReadIfaceBytes, MeterInv, TypeOK
  <1>3. ASSUME read_ok', NEW d \in Directions
        PROVE  hw'[d] = prev'[d] + since'[d] /\ hw'[d] <= prev'[d] + since'[d]
    <2>1. prev' = hw /\ since'[d] = 0
      BY <1>3 DEF Rebase, ReadIfaceBytes, Zero
    <2>2. hw[d] \in Nat
      BY CountersAreNat DEF MeterInv, TypeOK
    <2> QED
      BY <2>1, <2>2
  <1> QED
    BY <1>2, <1>3 DEF CountersGrow

(* ... and whatever the traffic, the driver and the meter do next.         *)
THEOREM MeterStep == MeterInv /\ [Next]_vars => MeterInv'
  <1> SUFFICES ASSUME MeterInv, [Next]_vars PROVE MeterInv'
    OBVIOUS
  <1>1. ASSUME NEW d \in Directions, Move(d) PROVE MeterInv'
    <2>1. hw' \in Counters /\ since' \in [Directions -> 0..MaxBytes]
      BY <1>1, ModulusAssumption, BytesAssumption
      DEF Move, MeterInv, TypeOK, Counters
    <2>2. TypeOK'
      BY <1>1, <2>1 DEF Move, MeterInv, TypeOK, Counters
    <2>3. ASSUME read_ok', NEW e \in Directions
          PROVE  /\ hw'[e] <= prev'[e] + since'[e]
                 /\ ~fellback' => hw'[e] = prev'[e] + since'[e]
      <3>1. hw[e] \in Nat /\ prev[e] \in Nat /\ since[e] \in Nat
        BY CountersAreNat, BytesAssumption DEF MeterInv, TypeOK
      <3>2. /\ hw[e] <= prev[e] + since[e]
            /\ ~fellback => hw[e] = prev[e] + since[e]
        BY <1>1, <2>3 DEF Move, MeterInv, CountersGrow
      <3>3. CASE e = d
        <4>1. /\ prev' = prev
              /\ since'[d] = since[d] + 1
              /\ hw'[d] = IF hw[d] = Modulus - 1 THEN 0 ELSE hw[d] + 1
          BY <1>1 DEF Move, MeterInv, TypeOK, Counters
        <4>2. CASE hw[d] = Modulus - 1
          <5>1. fellback' /\ hw'[d] = 0
            BY <1>1, <4>1, <4>2 DEF Move
          <5>2. hw'[d] <= prev'[d] + since'[d]
            BY <3>1, <3>3, <4>1, <5>1
          <5> QED
            BY <3>3, <5>1, <5>2
        <4>3. CASE hw[d] # Modulus - 1
          <5>1. fellback' <=> fellback
            BY <1>1, <4>3 DEF Move, MeterInv, TypeOK
          <5>2. hw'[d] <= prev'[d] + since'[d]
            BY <3>1, <3>2, <3>3, <4>1, <4>3
          <5>3. ASSUME ~fellback PROVE hw'[d] = prev'[d] + since'[d]
            BY <3>1, <3>2, <3>3, <4>1, <4>3, <5>3
          <5> QED
            BY <3>3, <5>1, <5>2, <5>3
        <4> QED
          BY <4>2, <4>3
      <3>4. CASE e # d
        BY <1>1, <3>1, <3>2, <3>4 DEF Move, MeterInv, TypeOK, Counters
      <3> QED
        BY <3>3, <3>4
    <2> QED
      BY <1>1, <2>2, <2>3
      DEF Move, MeterInv, CountersGrow, NeverOverstates, SteadyIsExact
  <1>2. CASE DriverReloads
    <2>1. Zero \in Counters
      BY ModulusAssumption DEF Zero, Counters
    <2>2. TypeOK'
      BY <1>2, <2>1 DEF DriverReloads, MeterInv, TypeOK, Counters
    <2>3. CountersGrow'
      <3> SUFFICES ASSUME NEW d \in Directions
                   PROVE  hw'[d] <= prev'[d] + since'[d]
        BY <1>2 DEF DriverReloads, CountersGrow
      <3>1. prev[d] \in Nat /\ since[d] \in Nat
        BY CountersAreNat, BytesAssumption DEF MeterInv, TypeOK
      <3> QED
        BY <1>2, <3>1 DEF DriverReloads, Zero
    <2> QED
      BY <1>2, <2>2, <2>3
      DEF DriverReloads, MeterInv, NeverOverstates, SteadyIsExact
  <1>3. ASSUME NEW ok \in BOOLEAN, FirstRead(ok) PROVE MeterInv'
    <2>1. Rebase(ok) /\ hw' = hw
      BY <1>3 DEF FirstRead
    <2> QED
      BY <1>3, <2>1, RebaseKeeps
      DEF FirstRead, Rebase, MeterInv, TypeOK, Counters, NeverOverstates,
          SteadyIsExact
  <1>4. ASSUME NEW ok \in BOOLEAN, Poll(ok) PROVE MeterInv'
    <2>1. Rebase(ok) /\ hw' = hw
      BY <1>4 DEF Poll
    <2>2. /\ prev' \in Counters
          /\ since' \in [Directions -> 0..MaxBytes]
          /\ CountersGrow'
      BY <2>1, RebaseKeeps
    <2>3. ReadIfaceBytes(ok) \in [Directions -> Nat]
      BY CountersAreNat DEF ReadIfaceBytes, Zero, MeterInv, TypeOK
    <2>4. since \in [Directions -> Nat] /\ prev \in [Directions -> Nat]
      BY CountersAreNat, BytesAssumption DEF MeterInv, TypeOK
    <2>5. /\ Moved \in Nat
          /\ Delta(Measured(prev), Measured(ReadIfaceBytes(ok))) \in Nat
      BY <2>3, <2>4, MeasuredType, MovedType, DeltaType
    <2>6. TypeOK'
      BY <1>4, <2>1, <2>2, <2>5 DEF Poll, Rebase, MeterInv, TypeOK, Counters
    <2>7. event'.sound => read_ok /\ ReadIfaceBytes(ok) = hw
      BY <1>4 DEF Poll, ReadIfaceBytes
    <2>8. NeverOverstates' /\ SteadyIsExact'
      BY <1>4, <2>7, PollBounds DEF Poll, NeverOverstates, SteadyIsExact
    <2> QED
      BY <2>2, <2>6, <2>8 DEF MeterInv
  <1>5. CASE EndLoop
    BY <1>5 DEF EndLoop, MeterInv, TypeOK, Counters, CountersGrow,
                NeverOverstates, SteadyIsExact
  <1>6. CASE UNCHANGED vars
    BY <1>6 DEF vars, MeterInv, TypeOK, Counters, CountersGrow,
                NeverOverstates, SteadyIsExact
  <1> QED
    BY <1>1, <1>2, <1>3, <1>4, <1>5, <1>6 DEF Next

(* So it always holds.                                                     *)
LEMMA MeterAlways == Spec => []MeterInv
  BY MeterInit, MeterStep, PTL DEF Spec

(* Whatever the width of the counters and the traffic, an event between    *)
(* two reads that succeed never shows more than what moved.                *)
THEOREM MeterNeverOverstates == Spec => []NeverOverstates
  BY MeterAlways, PTL DEF MeterInv

(* And with no wrap and no reload in between it shows exactly that.        *)
THEOREM SteadyMeterIsExact == Spec => []SteadyIsExact
  BY MeterAlways, PTL DEF MeterInv
=============================================================================
