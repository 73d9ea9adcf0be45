\* One agent connection, three frames, control ({"Connect":{"flow_id":1}},
\* 25 bytes) or data (808 bytes), each written in one write() or as length
\* prefix and payload in two: the way the agent frames its writes.
CONSTANTS
    CtrlLens = {25}
    DataLens = {808}
    WriteCuts = {4}
    GarbageLens = {0, 40, 1000}
    MaxFrames = 3
SPECIFICATION Spec
PROPERTY FramesDelivered
\* the agent may stop writing without closing the connection
CHECK_DEADLOCK FALSE
