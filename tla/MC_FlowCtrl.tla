---------------------------- MODULE MC_FlowCtrl ----------------------------
(* Instantiates FlowCtrl for TLC.  Numeric sets are chosen so that each    *)
(* branch of process() is reachable: both search paths, the bias and the   *)
(* boost of the fine path, clamps at delta_min and at delta_max.           *)
EXTENDS FlowCtrl

MC_ChunkLens    == {0, 1}
\* HISTORY_LEN 2: argmax in 0..3; a dip 3 -> 0 -> 1 is a change point, 3 is above CP_MAX_RUN_LEN 2
MC_ArgmaxValues == {0, 1, 3}
MC_LamTerms     == {0}
\* delta_max 6 (coarse) / 7 (fine) is below delta_min; 400 / 500 is the cap
MC_DelayBudgets == {6, 400}
MC_BiasDens     == {2}
MC_BoostTenths  == {5}
MC_AllLoss      == {"below", "at", "above"}
\* every loss class, with the 0/0 loss rate
MC_DecisionLoss == {"below", "at", "above", "nan"}
\* richer decision inputs for the trade-off runs
MC_TradeLamTerms == {0, 30}
MC_TradeBiasDens == {2, 5}
=============================================================================
