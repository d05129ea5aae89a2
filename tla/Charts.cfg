\* Bandwidths and latencies, in hundredths, on both sides of every limit of the
\* axis and of 0.08, below which the axis is its least.
CONSTANTS
    Bandwidths = {0, 7, 8, 83, 84, 833, 834, 4166, 4167, 39600, 42000}
    Latencies = {1, 150, 120000}
    Tenth = 10
    MAX_POINTS = 3
    None = None
SPECIFICATION ChartSpec
INVARIANTS
    KpisAgree
    ChartFitsTool
    AxisFits
    FlowFitsRun
