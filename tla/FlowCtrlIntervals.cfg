\* sum(intervals_len) against the sample history across a change-point clear.
CONSTANTS
    FlowId = f1
    NoFlow = NoFlow
    NoVal = NoVal
    ChunkLens = {1}
    MaxReports = 7
    HISTORY_LEN = 2
    ArgmaxValues <- MC_ArgmaxValues
    CP_MAX_RUN_LEN = 2
    RateOutcomes = {"positive"}
    LossClasses <- MC_AllLoss
    RttClasses = {"normal"}
    LamTerms <- MC_TradeLamTerms
    DelayBudgets <- MC_DelayBudgets
    BiasDens <- MC_TradeBiasDens
    BoostTenths <- MC_BoostTenths
INIT Init
NEXT Next
\* the worker stops when the agent stops reporting; reports are bounded
CHECK_DEADLOCK FALSE
INVARIANT IntervalsMatchHistory
