\* One connection, one flow; a worker dies in its loop, or blocks for good awaiting the agent.
CONSTANTS
    Conns = {c1}
    Flows = {f1}
    MaxMsgs = 5
    MaxGens <- MC_MaxGens
    StartMethod = "forkserver"
    None = None
    PipeCap = 1
    Faults = {"worker_crash", "agent_silent"}
SPECIFICATION Spec
PROPERTIES FramesComplete
\* The agent may stop sending at any point; the server then waits forever.
CHECK_DEADLOCK FALSE
