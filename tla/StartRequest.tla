---------------------------- MODULE StartRequest ----------------------------
(* What a request may ask for: StartRequest of app/schemas.py, by its      *)
(* fields and its validators.  Launch takes from it what it runs, Charts   *)
(* what it may have to draw.                                               *)
EXTENDS Integers

ALLOWED_MSG_SIZES == {64, 1024, 8192, 65536, 262144, 1048576}
ToolKind == {"ib_write_bw", "ib_read_lat", "iperf3", "mock"}

Valid(r) ==
    /\ r.tool \in ToolKind
    /\ r.duration_sec \in 5..7200
    /\ r.msg_size \in ALLOWED_MSG_SIZES
    /\ r.qp_count \in 1..16
    /\ r.iperf3_streams \in 1..32
    /\ ~(r.bidir /\ r.tool = "ib_read_lat")
=============================================================================
