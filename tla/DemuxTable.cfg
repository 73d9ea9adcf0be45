\* Two agent connections on one flow id: Connects and Disconnects racing,
\* handler exceptions and an inconsistent flow table.
CONSTANTS
    Conns = {c1, c2}
    Flows = {f1}
    MaxMsgs = 2
    MaxGens <- MC_MaxGens
    StartMethod = "forkserver"
    None = None
    PipeCap = 1
    Faults = {}
SPECIFICATION Spec
INVARIANTS ControlFramesSafe
SYMMETRY MC_Symmetry
CHECK_DEADLOCK FALSE
