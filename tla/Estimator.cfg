\* Reports of one or two samples, gaps of 1 ms and 5 ms (idle for an 8 ms
\* window), timestamps that wrap, and a wall clock stepped forward by 5 s.
CONSTANTS
    Gaps <- MC_Gaps
    Rtts <- MC_Rtts
    Bytes = {1}
    ChunkLens = {1, 2}
    TsMod = 200
    ArrivalGaps <- MC_ArrivalGaps
    ClockSteps = {5}
    MaxSamples = 4
    MaxClockSteps = 1
SPECIFICATION Spec
INVARIANTS RatesMatchWindows WalkInBounds MinRttWindowSound
\* the worker waits in rx.recv() once the agent stops reporting
CHECK_DEADLOCK FALSE
