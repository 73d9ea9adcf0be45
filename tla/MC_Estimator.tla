---------------------------- MODULE MC_Estimator ----------------------------
(* Instantiates Estimator for TLC.                                          *)
EXTENDS Estimator

\* 1 ms and 5 ms between samples: 5 ms is an idle gap for an 8 ms window
MC_Gaps        == {10, 50}
\* 8 ms and 16 ms minimum RTTs: steps 4 ms (the floor) and 4 ms
MC_Rtts        == {80, 160}
MC_ArrivalGaps == {3, 8}
\* the wall clock stepped back or forward by 20 s (more than the 10 s window)
MC_ClockSteps  == {-20, 20}
=============================================================================
