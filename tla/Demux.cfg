\* One agent connection, two flows, workers started by a fork server.
CONSTANTS
    Conns = {c1}
    Flows = {f1, f2}
    MaxMsgs = 5
    MaxGens <- MC_MaxGens
    StartMethod = "forkserver"
    None = None
    PipeCap = 1
    Faults = {}
SPECIFICATION Spec
PROPERTIES TornDownWorkerExits FramesComplete FlowTableRefined
\* The agent may stop sending at any point; the server then waits forever.
CHECK_DEADLOCK FALSE
