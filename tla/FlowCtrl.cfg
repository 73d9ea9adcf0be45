\* Index safety of the decision window over change-point clears, on a path
\* where every smoothing pass yields a rate and the minimum RTT is below 333 ms.
CONSTANTS
    FlowId = f1
    NoFlow = NoFlow
    NoVal = NoVal
    ChunkLens <- MC_ChunkLens
    MaxReports = 11
    HISTORY_LEN = 2
    ArgmaxValues <- MC_ArgmaxValues
    CP_MAX_RUN_LEN = 2
    RateOutcomes = {"positive"}
    LossClasses = {"below"}
    RttClasses = {"normal"}
    LamTerms <- MC_LamTerms
    DelayBudgets = {6}
    BiasDens <- MC_BiasDens
    BoostTenths <- MC_BoostTenths
INIT Init
NEXT Next
INVARIANT TypeOK
INVARIANT DecisionWindowInHistory
\* the worker stops when the agent stops reporting; reports are bounded
CHECK_DEADLOCK FALSE
VIEW LiveView
