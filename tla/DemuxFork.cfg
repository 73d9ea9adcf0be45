\* As Demux.cfg, with the fork start method (the default on Linux up to Python 3.13).
CONSTANTS
    Conns = {c1}
    Flows = {f1, f2}
    MaxMsgs = 5
    MaxGens <- MC_MaxGens
    StartMethod = "fork"
    None = None
    PipeCap = 1
    Faults = {}
SPECIFICATION Spec
PROPERTIES TornDownWorkerExits
\* The agent may stop sending at any point; the server then waits forever.
CHECK_DEADLOCK FALSE
