\* Values on both sides of every limit of the validation, and hosts with all
\* the settings, with all but one and with none. A request is one.
CONSTANTS
    Tools = {"ib_write_bw", "ib_read_lat", "iperf3", "mock", "foo"}
    Durations = {4, 5, 7200, 7201}
    Sizes = {100, 65536}
    QpCounts = {0, 1, 16, 17}
    Streams = {0, 1, 32, 33}
    Environments = {
        {"server_a_host", "server_b_host", "server_a_rdma_ip", "server_b_rdma_ip"},
        {"server_a_host", "server_b_host", "server_a_rdma_ip"},
        {}}
    Absent = Absent
SPECIFICATION Spec
INVARIANTS
    PeersAgree
    ExitTellsOutcome
CHECK_DEADLOCK FALSE
