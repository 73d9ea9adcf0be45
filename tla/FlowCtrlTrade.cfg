\* Trade-off values sent over the whole range of decision inputs, on a path
\* where every smoothing pass yields a rate and the minimum RTT is below 333 ms.
CONSTANTS
    FlowId = f1
    NoFlow = NoFlow
    NoVal = NoVal
    ChunkLens = {1}
    MaxReports = 10
    HISTORY_LEN = 2
    ArgmaxValues <- MC_ArgmaxValues
    CP_MAX_RUN_LEN = 2
    RateOutcomes = {"positive"}
    LossClasses <- MC_AllLoss
    RttClasses = {"normal"}
    LamTerms <- MC_TradeLamTerms
    DelayBudgets <- MC_DelayBudgets
    BiasDens <- MC_TradeBiasDens
    BoostTenths <- MC_BoostTenths
INIT Init
NEXT Next
INVARIANT TradeOffFloor
\* the worker stops when the agent stops reporting; reports are bounded
CHECK_DEADLOCK FALSE
VIEW LiveView
