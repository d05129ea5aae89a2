--------------------------- MODULE NicPollerProofs ---------------------------
(* What holds of the NIC temperatures for every number of hosts and every  *)
(* output of theirs, of any number of chips: a temperature is that of the  *)
(* port in use, and was measured after the event before the one it is in.  *)
EXTENDS NicPoller, WellFoundedInduction, TLAPS

-----------------------------------------------------------------------------
(* The first of some chips is one of them, and none comes before it.       *)
LEMMA FirstIsLeast ==
  ASSUME NEW S \in SUBSET Nat, S # {}
  PROVE  FirstOf(S) \in S /\ \A j \in S : FirstOf(S) <= j
<1> DEFINE R == {ss \in Nat \X Nat : ss[1] < ss[2]}
<1>1. IsWellFoundedOn(R, Nat)
  BY NatLessThanWellFounded DEF OpToRel
<1>2. \A x, y \in Nat : y < x => <<y, x>> \in R
  OBVIOUS
<1> HIDE DEF R
<1>3. PICK i \in S : \A j \in S : ~(<<j, i>> \in R)
  BY <1>1, WFMin
<1>4. ASSUME NEW j \in S PROVE i <= j
  <2>1. ~(j < i)
    BY <1>2, <1>3
  <2> QED
    BY <2>1
<1> QED
  BY <1>4 DEF FirstOf

(* What is parsed is what one Mellanox chip shows, one with a transceiver  *)
(* if there is any.                                                        *)
LEMMA SelectedIsCandidate ==
  ASSUME NEW chips \in Outputs, Candidates(chips) # {}
  PROVE  /\ Selected(chips) \in Candidates(chips)
         /\ Active(chips) # {} => Selected(chips) \in Active(chips)
<1>1. Len(chips) \in Nat
  BY DEF Outputs
<1>2. /\ Candidates(chips) \in SUBSET Nat
      /\ Active(chips) \in SUBSET Nat
      /\ Active(chips) \subseteq Candidates(chips)
  BY <1>1 DEF Candidates, Active
<1>3. CASE Active(chips) = {}
  BY <1>2, <1>3, FirstIsLeast DEF Selected
<1>4. CASE Active(chips) # {}
  BY <1>2, <1>4, FirstIsLeast DEF Selected
<1> QED
  BY <1>3, <1>4

(* A temperature was read: it is a number that a Mellanox chip shows.      *)
LEMMA ParseIsReal ==
  ASSUME NEW chips \in Outputs
  PROVE  IsReal(chips)
<1>1. CASE Candidates(chips) = {}
  BY <1>1 DEF IsReal, Parse
<1>2. CASE Candidates(chips) # {}
  <2>1. Selected(chips) \in Candidates(chips)
    BY <1>2, SelectedIsCandidate
  <2>2. /\ Parse(chips).ic = Number(chips, Selected(chips), "asic")
        /\ Parse(chips).module = Number(chips, Selected(chips), "Module0")
    BY <1>2 DEF Parse
  <2>3. /\ Number(chips, Selected(chips), "asic") # Missing =>
             /\ Number(chips, Selected(chips), "asic") = Selected(chips)
             /\ chips[Selected(chips)].asic = "number"
        /\ Number(chips, Selected(chips), "Module0") # Missing =>
             /\ Number(chips, Selected(chips), "Module0") = Selected(chips)
             /\ chips[Selected(chips)].Module0 = "number"
    BY DEF Number
  <2> QED
    BY <2>1, <2>2, <2>3 DEF IsReal
<1> QED
  BY <1>1, <1>2

(* The order in which the kernel lists the ports does not matter where     *)
(* only one of them is in use.                                             *)
LEMMA ParseIsOfPortInUse ==
  ASSUME NEW chips \in Outputs
  PROVE  IsOfPortInUse(chips)
<1> SUFFICES ASSUME NEW i \in Active(chips), Active(chips) = {i}
             PROVE  /\ Parse(chips).ic \in {i, Missing}
                    /\ Parse(chips).module \in {i, Missing}
  BY DEF IsOfPortInUse
<1>1. Candidates(chips) # {}
  BY DEF Active
<1>2. Selected(chips) = i
  BY <1>1, SelectedIsCandidate
<1>3. /\ Parse(chips).ic = Number(chips, i, "asic")
      /\ Parse(chips).module = Number(chips, i, "Module0")
  BY <1>1, <1>2 DEF Parse
<1> QED
  BY <1>3 DEF Number

-----------------------------------------------------------------------------
(* Only outputs are parsed.  What a read has yielded was measured since    *)
(* the last event, and nothing of it is left outside the round: neither a  *)
(* stop nor a publication hands anything on to the next round.             *)
ReadsOfRound ==
    /\ \A h \in Hosts, c \in Channels : read[h][c] \in {events, Missing}
    /\ task # "reading" => \A h \in Hosts, c \in Channels : read[h][c] = Missing

PollerInv ==
    /\ answer \in Outputs
    /\ read \in [Hosts -> [Channels -> Nat \union {Missing}]]
    /\ events \in Nat
    /\ stopping => task = "cancelled"
    /\ ReadsOfRound
    /\ EventIsFresh

LEMMA NothingIsOutput == <<>> \in Outputs
<1>1. 0 \in 0..MaxChips
  BY ChipsAssumption
<1>2. <<>> \in [1..0 -> Chip]
  BY SMT
<1> QED
  BY <1>1, <1>2 DEF Outputs

(* Publishing ends the round, with nothing left to show twice.             *)
LEMMA RoundEnds ==
  ASSUME RoundIsOver
  PROVE  /\ answer' \in Outputs
         /\ read' \in [Hosts -> [Channels -> Nat \union {Missing}]]
         /\ \A h \in Hosts, c \in Channels : read'[h][c] = Missing
BY NothingIsOutput DEF RoundIsOver, NothingRead

LEMMA EventsCounted == events \in Nat => (events + 1) % Rounds \in Nat
BY RoundsAssumption

LEMMA PollerStep == PollerInv /\ [Next]_vars => PollerInv'
<1> SUFFICES ASSUME PollerInv, [Next]_vars PROVE PollerInv'
  OBVIOUS
<1>1. CASE Start \/ BeginRound \/ Stopped \/ UNCHANGED vars
  <2>1. /\ UNCHANGED <<answer, read, events, last>>
        /\ stopping' => task' = "cancelled"
        /\ task' # "reading" => task # "reading"
    BY <1>1 DEF Start, BeginRound, Stopped, vars, reads, PollerInv
  <2> QED
    BY <2>1 DEF PollerInv, ReadsOfRound, EventIsFresh
<1>2. CASE Publish
  <2>1. /\ RoundIsOver /\ events' \in Nat /\ ~stopping'
        /\ last' = [after |-> events, temps |-> read]
    BY <1>2, EventsCounted DEF Publish, Published, PollerInv
  <2>2. \A h \in Hosts, c \in Channels : last'.temps[h][c] \in {last'.after, Missing}
    BY <2>1 DEF PollerInv, ReadsOfRound
  <2> QED
    BY <2>1, <2>2, RoundEnds DEF PollerInv, ReadsOfRound, EventIsFresh
<1>3. CASE PublishMock
  <2>1. /\ task # "reading" /\ events' \in Nat /\ read' = read /\ answer' = answer
        /\ ~stopping'
        /\ last'.after = events
        /\ \A h \in Hosts, c \in Channels : last'.temps[h][c] = events
    BY <1>3, EventsCounted DEF PublishMock, Published, reads, PollerInv
  <2> QED
    BY <2>1 DEF PollerInv, ReadsOfRound, EventIsFresh
<1>4. CASE Stop
  <2>1. /\ RoundIsOver /\ events' = events /\ last' = last
        /\ task' = "cancelled"
    BY <1>4 DEF Stop
  <2> QED
    BY <2>1, RoundEnds DEF PollerInv, ReadsOfRound, EventIsFresh
<1>5. ASSUME NEW h \in Hosts, Answers(h) PROVE PollerInv'
  <2> DEFINE r == Result(answer')
  <2>1. /\ answer' \in Outputs /\ read' = [read EXCEPT ![h] = r]
        /\ task = "reading" /\ task' = task /\ events' = events /\ last' = last
        /\ stopping' = stopping
    BY <1>5 DEF Answers
  <2>2. /\ r \in [Channels -> Nat \union {Missing}]
        /\ \A c \in Channels : r[c] \in {events, Missing}
    BY DEF Result, PollerInv
  <2> HIDE DEF r
  <2>3. /\ read' \in [Hosts -> [Channels -> Nat \union {Missing}]]
        /\ \A g \in Hosts, c \in Channels : read'[g][c] \in {events, Missing}
    BY <2>1, <2>2 DEF PollerInv, ReadsOfRound
  <2> QED
    BY <2>1, <2>3 DEF PollerInv, ReadsOfRound, EventIsFresh
<1>6. ASSUME NEW h \in Hosts, Fails(h) \/ Returns(h) PROVE PollerInv'
  BY <1>6 DEF Fails, Returns, PollerInv, ReadsOfRound, EventIsFresh
<1> QED
  BY <1>1, <1>2, <1>3, <1>4, <1>5, <1>6 DEF Next

LEMMA PollerAlways == Spec => []PollerInv
<1>1. Init => PollerInv
  BY NothingIsOutput
  DEF Init, PollerInv, NothingRead, ReadsOfRound, EventIsFresh
<1> QED
  BY <1>1, PollerStep, PTL DEF Spec

(* A host's temperatures are those of a Mellanox chip that showed numbers, *)
(* and of the port in use where exactly one is, whatever the host answers  *)
(* and in whatever order the kernel lists its ports.                       *)
THEOREM TemperaturesAreOfPortInUse == Spec => []PortInUseIsRead
<1>1. PollerInv => PortInUseIsRead
  BY ParseIsReal, ParseIsOfPortInUse DEF PollerInv, PortInUseIsRead
<1> QED
  BY <1>1, PollerAlways, PTL

(* No event shows a temperature that was measured before the event that    *)
(* came before it, for every set of hosts, whichever of them answer, fail  *)
(* or are cut off, and however often the poller is stopped and started.    *)
THEOREM TemperaturesAreFresh == Spec => []EventIsFresh
<1>1. PollerInv => EventIsFresh
  BY DEF PollerInv
<1> QED
  BY <1>1, PollerAlways, PTL
=============================================================================
