--------------------------- MODULE SessionContract ---------------------------
(* What _measurement_task relies on in the generator run_session returns   *)
(* (measure.py:42-57): it ends by itself, normally or with an exception,   *)
(* and once a cancel was delivered to it, it never ends normally.          *)
VARIABLES stage,    \* "running", "cancelled" (unwinding) or "ended"
          outcome   \* how it ended

contractVars == <<stage, outcome>>

ContractInit == stage = "running" /\ outcome = "none"

CancelDelivered ==
    /\ stage = "running"
    /\ stage' = "cancelled"
    /\ UNCHANGED outcome

Ends(o) == stage' = "ended" /\ outcome' = o

(* A generator may end in a CancelledError that nobody asked for.          *)
EndsByItself ==
    /\ stage = "running"
    /\ \E o \in {"normal", "error", "cancelled"} : Ends(o)

(* A cancel of a session that has nothing left to unwind ends it at once.  *)
EndsCancelled ==
    /\ stage \in {"running", "cancelled"}
    /\ \E o \in {"error", "cancelled"} : Ends(o)

ContractNext == CancelDelivered \/ EndsByItself \/ EndsCancelled

ContractSpec == ContractInit /\ [][ContractNext]_contractVars
=============================================================================
