\* Decision inputs at their numeric edges: a smoothing pass may yield no rate
\* (ewma_rate stays 0), the minimum RTT may exceed 333 ms, and the last two
\* intervals may carry no acked or lost byte (loss_rate 0/0); every loss
\* class and lambda term, so that a fine search can end above the cap.
CONSTANTS
    FlowId = f1
    NoFlow = NoFlow
    NoVal = NoVal
    ChunkLens = {1}
    MaxReports = 7
    HISTORY_LEN = 2
    ArgmaxValues <- MC_ArgmaxValues
    CP_MAX_RUN_LEN = 2
    RateOutcomes = {"none", "positive"}
    LossClasses <- MC_DecisionLoss
    RttClasses = {"normal", "long"}
    LamTerms <- MC_TradeLamTerms
    DelayBudgets <- MC_DelayBudgets
    BiasDens <- MC_TradeBiasDens
    BoostTenths <- MC_BoostTenths
INIT Init
NEXT Next
\* the worker stops when the agent stops reporting; reports are bounded
CHECK_DEADLOCK FALSE
INVARIANT DecisionSound
