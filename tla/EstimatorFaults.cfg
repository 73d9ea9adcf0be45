\* Reports one sample each, 4 ms apart, at an 8 ms minimum RTT; the wall
\* clock may be stepped by 20 s once.
CONSTANTS
    Gaps = {40}
    Rtts = {80}
    Bytes = {1}
    ChunkLens = {1}
    TsMod = 1000
    ArrivalGaps <- MC_ArrivalGaps
    ClockSteps <- MC_ClockSteps
    MaxSamples = 6
    MaxClockSteps = 1
SPECIFICATION Spec
INVARIANT EstimatorInputsSound
\* reports are bounded and a crashed worker takes no step
CHECK_DEADLOCK FALSE
