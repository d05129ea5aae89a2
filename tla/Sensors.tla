------------------------------ MODULE Sensors ------------------------------
(***************************************************************************)
(* Which temperatures one read of a host yields: parse_sensors_json of     *)
(* app/parser.py over the output of "sensors -j".  A ConnectX-6 card has   *)
(* two ports and shows as two chips, of which the one with a transceiver   *)
(* has a Module0; the order of the chips is that of the kernel.            *)
(*                                                                         *)
(* The output is a sequence of chips; a temperature is the position of the *)
(* chip it is read from.  What is no JSON object is the empty sequence,    *)
(* and a chip that is none counts as one of another driver.                *)
(* The poller never gives the pci_chip_prefix, which is left out.          *)
(***************************************************************************)
EXTENDS Integers, Sequences

CONSTANTS MaxChips,  \* bound on the chips of an output
          Missing    \* Python's None

ASSUME ChipsAssumption == MaxChips \in Nat

(* A feature of a chip holds a number, holds none, or is not there; of the *)
(* last two only Module0 is told apart.  One chip stands for those of      *)
(* other drivers: it has all the numbers one could take by mistake.        *)
Other == [mlx5 |-> FALSE, asic |-> "number", Module0 |-> "number"]

Chip == {Other} \union
        [mlx5 : {TRUE},
         asic : {"number", "no_number"},
         Module0 : {"number", "no_number", "absent"}]

Outputs == UNION {[1..n -> Chip] : n \in 0..MaxChips}

-----------------------------------------------------------------------------
Candidates(chips) == {i \in 1..Len(chips) : chips[i].mlx5}

FirstOf(S) == CHOOSE i \in S : \A j \in S : i <= j

Active(chips) == {i \in Candidates(chips) : chips[i].Module0 # "absent"}

(* Each faulty variant is what a plausible bug would make of the           *)
(* definition that follows it; no run uses one.                            *)
FaultyFirstCandidate(chips) == FirstOf(Candidates(chips))

Selected(chips) ==
    FirstOf(IF Active(chips) # {} THEN Active(chips) ELSE Candidates(chips))

Number(chips, i, feature) ==
    IF chips[i][feature] = "number" THEN i ELSE Missing

Parse(chips) ==
    IF Candidates(chips) = {}
    THEN [ic |-> Missing, module |-> Missing]
    ELSE [ic     |-> Number(chips, Selected(chips), "asic"),
          module |-> Number(chips, Selected(chips), "Module0")]

-----------------------------------------------------------------------------
(* Every temperature was read: from a number of a Mellanox chip.           *)
IsReal(chips) ==
    LET t == Parse(chips)
    IN  /\ t.ic # Missing => /\ t.ic \in Candidates(chips)
                             /\ chips[t.ic].asic = "number"
        /\ t.module # Missing => /\ t.module \in Candidates(chips)
                                 /\ chips[t.module].Module0 = "number"

(* Where exactly one port is in use, no other one is read.                 *)
IsOfPortInUse(chips) ==
    \A i \in Active(chips) : Active(chips) = {i} =>
        Parse(chips).ic \in {i, Missing} /\ Parse(chips).module \in {i, Missing}
=============================================================================
