\* One agent connection whose writes may end anywhere inside a frame: inside
\* the length prefix, the data header, an element, or a JSON payload.
CONSTANTS
    CtrlLens = {25}
    DataLens = {808}
    WriteCuts = {2, 4, 9, 20, 28}
    GarbageLens = {0, 40, 1000}
    MaxFrames = 3
SPECIFICATION Spec
INVARIANT FramesIntact
\* the agent may stop writing without closing the connection
CHECK_DEADLOCK FALSE
