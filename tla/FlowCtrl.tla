------------------------------ MODULE FlowCtrl ------------------------------
(***************************************************************************)
(* The per-flow controller FlowCtrl of src/mortise/utils/calc_opt_delta.py *)
(* as driven by one worker (process-report.py, worker): every report that  *)
(* arrives is fed to add_data, then process() runs, and a command it       *)
(* returns is sent to the agent.  One worker owns one FlowCtrl, so a whole *)
(* loop iteration is one atomic step.                                      *)
(*                                                                         *)
(* Control is kept exactly; numeric data is abstracted to what the code    *)
(* branches on: the EWMA rate is zero or positive, the loss rate is below, *)
(* at or above LOSS_THR, the detector's argmax is a run length, and the    *)
(* estimates a decision reads (qoe_lambda, delta_max, the bias and boost   *)
(* factors, which path is taken) are inputs drawn from small sets.         *)
(* cur_trade_off is an integer and every int() truncation is kept.         *)
(***************************************************************************)
EXTENDS Integers, Sequences, Functions

CONSTANTS
    FlowId,         \* the flow id carried by this worker's reports
    NoFlow,         \* flow_id = None before the first report
    NoVal,          \* the agent's sk_stg_map entry before any command
    ChunkLens,      \* chunk_len values a report may carry
    MaxReports,     \* bound: number of reports the worker receives
    HISTORY_LEN,    \* change_point.py history_len (200)
    ArgmaxValues,   \* run lengths the detector's argmax may return
    CP_MAX_RUN_LEN, \* check_change_point: cur_run_len <= 10
    RateOutcomes,   \* a smoothing pass yields "none" or a "positive" rate
    LossClasses,    \* loss_rate against LOSS_THR: "below", "at", "above", or "nan"
                    \* (0/0: no byte acked or lost in the last two intervals)
    RttClasses,     \* min RTT "normal" or "long" (> 333 ms: cutoff int() = 0)
    LamTerms,       \* int(100 * qoe_lambda) when ewma_rate > 0
    DelayBudgets,   \* int(12 / (0.1 * rtt_min) / ewma_rate * 1000)
    BiasDens,       \* (0.2 + qoe_lambda + qoe_beta) / 0.1
    BoostTenths     \* 10 * min(0.5, qoe_beta * loss_rate * 12)

ASSUME /\ ChunkLens \subseteq Nat /\ MaxReports \in Nat
       /\ ArgmaxValues \subseteq 0..(HISTORY_LEN + 1)
       /\ RateOutcomes \subseteq {"none", "positive"}
       /\ LossClasses \subseteq {"below", "at", "above", "nan"}
       /\ RttClasses \subseteq {"normal", "long"}
       /\ DelayBudgets \subseteq Nat /\ BiasDens \subseteq {d \in Nat : d >= 2} /\ BoostTenths \subseteq 1..5

\* Constants of the code.
DECIDE_EVERY    == 5     \* process: decide_intervals_cnts % 5 == 0
CP_DECIDE_AFTER == 10    \* process: decide_intervals_cnts > 10 and cp_detected
BDP_WINDOW      == 4     \* get_net_lambda_beta: intervals_len[-4:]
INIT_TRADE_OFF  == 100
DELTA_CAP       == 500
Inf             == HISTORY_LEN + 2   \* np.inf: above every argmax

VARIABLES
    fc,         \* the FlowCtrl object's fields
    crash,      \* "none", or the exception that ended the worker
    agent_val,  \* the trade-off the agent last stored (AppInfo.req)
    reports     \* reports received so far (bounded by MaxReports)

vars == <<fc, crash, agent_val, reports>>

(***************************************************************************)
(* intervals_len is only ever read through intervals_len[-1], [-2:] and    *)
(* [-4:], so the model keeps its last BDP_WINDOW entries and, separately,  *)
(* the sum of all of them (intervals_total).  history_len stands for the   *)
(* common length of history_rtt/acked_bytes/lost_bytes/timestamp, which    *)
(* are always appended and cleared together.                               *)
(***************************************************************************)
LastK(s, k) == IF Len(s) <= k THEN s ELSE SubSeq(s, Len(s) - k + 1, Len(s))
SumSeq(s) == SumFunction(s)
CeilDiv(a, b) == (a + b - 1) \div b
MaxOf(a, b) == IF a >= b THEN a ELSE b
MinOf(a, b) == IF a <= b THEN a ELSE b

\* The reports a worker can receive.  A report with chunk_id >= 0 and no
\* samples leaves the object unchanged and is left out.
Reports == [chunk_id : {-1, 0}, chunk_len : ChunkLens] \ {[chunk_id |-> 0, chunk_len |-> 0]}

\* Mutant: __init__ starts intervals_len as an empty list.
FlowCtrlInitNoInterval ==
    [flow_id |-> NoFlow, history_len |-> 0,
     intervals_len |-> <<>>, intervals_total |-> 0,
     ewma_rate |-> "zero", loss_rate |-> "below",
     cp_t |-> 0, run_len |-> Inf, last_run_len |-> Inf, cp_detected |-> FALSE,
     decide_intervals_cnts |-> 0, enable_adjust |-> FALSE,
     cur_trade_off |-> INIT_TRADE_OFF]

\* FlowCtrl.__init__, with the trade-off at its initial 100.
FlowCtrlInit ==
    [flow_id |-> NoFlow, history_len |-> 0,
     intervals_len |-> <<0>>, intervals_total |-> 0,
     ewma_rate |-> "zero", loss_rate |-> "below",
     cp_t |-> 0, run_len |-> Inf, last_run_len |-> Inf, cp_detected |-> FALSE,
     decide_intervals_cnts |-> 0, enable_adjust |-> FALSE,
     cur_trade_off |-> INIT_TRADE_OFF]

\* Mutant: clear_history that forgets to reset decide_intervals_cnts.
ClearHistoryKeepCount(s) ==
    [s EXCEPT !.history_len = 0, !.ewma_rate = "zero"]

\* clear_history: the sample buffers, the smoothed series, the EWMA and the
\* interval counter; intervals_len, loss_rate and the detector are kept.
ClearHistory(s) ==
    [s EXCEPT !.history_len = 0, !.ewma_rate = "zero",
              !.decide_intervals_cnts = 0]

\* update_smoothed_data / update_ewma: an empty or all-zero rate series
\* leaves the EWMA as it was.
UpdateSmoothedData(s, rate) ==
    [s EXCEPT !.ewma_rate = IF rate = "positive" THEN "positive" ELSE @]

\* update_loss over the last two intervals.
UpdateLoss(s, loss) == [s EXCEPT !.loss_rate = loss]

\* cp_t is the detector's t - t0 + 1: the number of data it holds, which
\* prune caps at history_len + 1.  R has mass on 0..t+1 only, so that
\* bounds the run lengths its argmax can return on the next datum.
Argmaxes(s) ==
    {a \in ArgmaxValues : a <= s.cp_t + 1}

\* check_change_point: the double-check heuristic.
CheckChangePoint(s, cur_run_len) ==
    [s EXCEPT !.cp_t = MinOf(@ + 1, HISTORY_LEN + 1),
              !.cp_detected = @ \/ (/\ s.run_len < cur_run_len
                                     /\ cur_run_len < s.last_run_len
                                     /\ cur_run_len <= CP_MAX_RUN_LEN),
              !.last_run_len = s.run_len,
              !.run_len = cur_run_len]

\* add_data.  intervals_len is updated before the early return on an empty
\* chunk, so an empty end-of-interval report opens a new interval without
\* counting it.
AddData(s, r, rate, loss, am) ==
    LET iv == [s.intervals_len EXCEPT ![Len(s.intervals_len)] = @ + r.chunk_len]
        s1 == [s EXCEPT
                 !.flow_id = IF @ = NoFlow THEN FlowId ELSE @,
                 !.intervals_len = IF r.chunk_id < 0
                                   THEN LastK(Append(iv, 0), BDP_WINDOW) ELSE iv,
                 !.intervals_total = @ + r.chunk_len]
        s2 == IF s1.history_len > 0 THEN UpdateSmoothedData(s1, rate) ELSE s1
        s3 == CheckChangePoint(UpdateLoss([s2 EXCEPT !.history_len = @ + r.chunk_len],
                                          loss), am)
    IN  IF r.chunk_len = 0 THEN s1
        ELSE IF r.chunk_id < 0
             THEN [s3 EXCEPT !.enable_adjust = TRUE, !.decide_intervals_cnts = @ + 1]
             ELSE s3

\* The gate of process().
Decides(s) ==
    /\ s.enable_adjust
    /\ \/ s.decide_intervals_cnts % DECIDE_EVERY = 0
       \/ s.decide_intervals_cnts > CP_DECIDE_AFTER /\ s.cp_detected

(***************************************************************************)
(* The estimates one decision reads, from update_qoe_preference and        *)
(* get_net_lambda_beta.  qoe_lambda is tput^2 * (loss + 2) / 9740 with     *)
(* tput = ewma_rate, so it is 0 exactly when the EWMA is 0, and then       *)
(* lambda_ratio is 0 and the coarse path is taken.  A nan loss_rate makes  *)
(* qoe_lambda nan; "qoe_lambda > 0" is then false, so lambda_ratio is 0    *)
(* too, and int(100 * qoe_lambda) is never a number.                       *)
(***************************************************************************)
Estimates(s) ==
    LET pos == s.ewma_rate = "positive"
        num == pos /\ s.loss_rate # "nan"
        lams == IF num THEN LamTerms ELSE {0}
    IN  {e \in [rtt : RttClasses, lam : lams, near : IF num THEN BOOLEAN ELSE {FALSE},
                net_low : BOOLEAN, budget : DelayBudgets, den : BiasDens,
                boost : BoostTenths] :
            e.den >= 2 + e.lam \div 10}

\* Placeholder for a process() call that takes no decision and reads none.
NoEstimate ==
    [rtt |-> "normal", lam |-> 0, near |-> FALSE, net_low |-> FALSE,
     budget |-> 0, den |-> 2, boost |-> 1]

\* _fine_tune_with_filtering: the integer results int(opt_delta) it can
\* return.  The search keeps cur_trade_off when no candidate beats -1e6.
FineTune(s, e) ==
    LET cur == s.cur_trade_off
        dmax == MinOf((5 * e.budget) \div 4, DELTA_CAP)
        dmin == MaxOf(12 + e.lam, cur \div 2)
        cands == {dmin + 25 * k : k \in 0..((dmax - dmin - 1) \div 25)}
        Post(opt) ==
            LET o1 == IF opt <= cur /\ s.loss_rate = "below"
                      THEN MaxOf(cur - CeilDiv(cur, e.den), dmin) ELSE opt
            IN  IF s.loss_rate = "above" THEN o1 + (cur * e.boost) \div 10 ELSE o1
    IN  {Post(opt) : opt \in cands \cup {cur}}

\* Mutant: the clamp applied in the other order, max first, then min.
CoarseAdjustClampSwapped(s, e) ==
    LET cur == s.cur_trade_off
        stepped == IF e.net_low
                   THEN IF s.loss_rate = "below" THEN (cur * 112) \div 100
                                                 ELSE (cur * 124) \div 100
                   ELSE IF s.loss_rate = "above" THEN (cur * 100) \div 112
                                                 ELSE (cur * 100) \div 124
    IN  MinOf(MaxOf(stepped, MaxOf(10 + e.lam, cur \div 3)), MinOf(e.budget, DELTA_CAP))

\* _coarse_adjust_with_stepping: int() of the clamped step.
CoarseAdjust(s, e) ==
    LET cur == s.cur_trade_off
        stepped == IF e.net_low
                   THEN IF s.loss_rate = "below" THEN (cur * 112) \div 100
                                                 ELSE (cur * 124) \div 100
                   ELSE IF s.loss_rate = "above" THEN (cur * 100) \div 112
                                                 ELSE (cur * 100) \div 124
        dmin == MaxOf(10 + e.lam, cur \div 3)
        dmax == MinOf(e.budget, DELTA_CAP)
    IN  MaxOf(MinOf(stepped, dmax), dmin)

(***************************************************************************)
(* probe_opt_delta, with the exceptions it raises:                         *)
(*  - history_timestamp[-sum(intervals_len[-4:])] is out of range when the *)
(*    last four intervals hold more samples than the history: IndexError;  *)
(*  - cutoff = int(1000 / (3 * rtt_min)) is 0 for rtt_min > 333 ms and     *)
(*    cheby1 rejects Wn = 0: ValueError;                                   *)
(*  - on the coarse path delta_min = max(10 + int(100 * qoe_lambda), ...)  *)
(*    with a nan qoe_lambda: ValueError (int of nan), before delta_max;    *)
(*  - on the coarse path delta_max = int(12 / delay_thr / ewma_rate * 1000)*)
(*    is int(inf) when ewma_rate is 0: OverflowError.                      *)
(***************************************************************************)
ProbeOptDelta(s, e) ==
    IF SumSeq(s.intervals_len) > s.history_len
    THEN {[crash |-> "IndexError", opt |-> 0]}
    ELSE IF e.rtt = "long"
    THEN {[crash |-> "ValueError", opt |-> 0]}
    ELSE IF e.near
    THEN {[crash |-> "none", opt |-> o] : o \in FineTune(s, e)}
    ELSE IF s.loss_rate = "nan"
    THEN {[crash |-> "ValueError", opt |-> 0]}
    ELSE IF s.ewma_rate = "zero"
    THEN {[crash |-> "OverflowError", opt |-> 0]}
    ELSE {[crash |-> "none", opt |-> CoarseAdjust(s, e)]}

\* process(): the outcomes of one call, each with the value it sends.
Process(s, e) ==
    IF ~Decides(s)
    THEN {[fc |-> [s EXCEPT !.enable_adjust = FALSE], crash |-> "none", msg |-> NoVal]}
    ELSE {LET s1 == s
              cur == s.cur_trade_off
              s2 == IF s.cp_detected
                    THEN [ClearHistory([s1 EXCEPT !.cur_trade_off = p.opt])
                             EXCEPT !.cp_detected = FALSE]
                    ELSE [s1 EXCEPT !.cur_trade_off = (6 * p.opt + 4 * cur) \div 10]
          IN  IF p.crash # "none"
              THEN [fc |-> s1, crash |-> p.crash, msg |-> NoVal]
              ELSE [fc |-> [s2 EXCEPT !.enable_adjust = FALSE], crash |-> "none",
                    msg |-> s2.cur_trade_off]
          : p \in ProbeOptDelta(s, e)}

\* One iteration of the worker loop: rx.recv(), add_data, process, and
\* send_and_receive_message when process returned a command.
Receive ==
    /\ crash = "none"
    /\ reports < MaxReports
    /\ reports' = reports + 1
    /\ \E r \in Reports, loss \in LossClasses :
       \E rate \in (IF fc.history_len > 0 /\ r.chunk_len > 0 THEN RateOutcomes ELSE {"none"}),
          am \in (IF r.chunk_len > 0 THEN Argmaxes(fc) ELSE {0}) :
         LET s == AddData(fc, r, rate, loss, am)
         IN  \E e \in (IF Decides(s) THEN Estimates(s) ELSE {NoEstimate}) :
             \E o \in Process(s, e) :
               /\ fc' = o.fc
               /\ crash' = o.crash
               /\ agent_val' = IF o.msg = NoVal THEN agent_val ELSE o.msg

Init ==
    /\ fc = FlowCtrlInit
    /\ crash = "none"
    /\ agent_val = NoVal
    /\ reports = 0

Next == Receive

Spec == Init /\ [][Next]_vars

-----------------------------------------------------------------------------
TypeOK ==
    /\ fc.flow_id \in {NoFlow, FlowId}
    /\ fc.history_len \in Nat /\ fc.intervals_total \in Nat
    /\ fc.intervals_len \in Seq(Nat) /\ 1 <= Len(fc.intervals_len)
    /\ Len(fc.intervals_len) <= BDP_WINDOW
    /\ fc.ewma_rate \in {"zero", "positive"} /\ fc.loss_rate \in LossClasses \cup {"below"}
    /\ fc.run_len \in 0..Inf /\ fc.last_run_len \in 0..Inf
    /\ fc.cp_detected \in BOOLEAN /\ fc.enable_adjust \in BOOLEAN
    /\ fc.decide_intervals_cnts \in Nat
    /\ fc.cur_trade_off \in Nat
    /\ crash \in {"none", "IndexError", "ValueError", "OverflowError"}
    /\ agent_val \in Nat \cup {NoVal}
    /\ reports \in 0..MaxReports

\* The window of the last four intervals that get_net_lambda_beta indexes
\* (history_timestamp[start_index]) always lies inside the sample history,
\* also after clear_history dropped the samples but not intervals_len:
\* the worker never dies of an IndexError at a decision.
DecisionWindowInHistory == crash # "IndexError"

\* The divisions and filter design of a decision are defined for every
\* state the flow can be in (spec section 7: every divisor is guarded):
\* no OverflowError from ewma_rate = 0, no ValueError from a zero cutoff or
\* from a loss rate of 0/0 reaching int(100 * qoe_lambda).
NumericGuards == crash \notin {"OverflowError", "ValueError"}

\* The agent is never told a trade-off below 10 (spec section 3), whatever
\* sequence of coarse steps, fine searches and blends led to it.
TradeOffFloor == agent_val = NoVal \/ agent_val >= 10

\* The agent is only told trade-offs in [10, 500] (spec sections 3 and 8).
TradeOffInRange == agent_val = NoVal \/ agent_val \in 10..DELTA_CAP

\* A decision is sound for every input the flow can present (spec sections
\* 3, 7 and 8): compute_delta, the loss update and the filter design never
\* raise, and what is sent to the agent lies in [10, 500].
DecisionSound == NumericGuards /\ TradeOffInRange

\* sum(intervals_len) equals the number of samples ingested since the last
\* history clear (spec section 8).
IntervalsMatchHistory == fc.intervals_total = fc.history_len

\* loss_rate is recomputed by update_loss in every add_data that carries
\* samples, and only read by the process() of that same call, so the value
\* left in the object between reports never influences a later step.
LiveView == <<[fc EXCEPT !.loss_rate = "below"], crash, agent_val, reports>>
=============================================================================
