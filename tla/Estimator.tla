----------------------------- MODULE Estimator -----------------------------
(***************************************************************************)
(* The sample path of one worker's FlowCtrl (src/mortise/utils/            *)
(* calc_opt_delta.py): add_data takes the samples of a report, selects the *)
(* recent history, smooths history and samples with sliding_window_rate    *)
(* (SignalProcess), appends the samples to the history, and records the   *)
(* report's minimum RTT in the min-RTT window, which update_minrtt ages    *)
(* with the wall clock time.time().  FlowCtrl models what the decision     *)
(* does with the results; this module models where they come from.        *)
(*                                                                         *)
(* Two clocks: the agent's sample timestamps, in ticks of 0.1 ms (u32      *)
(* microseconds in the frame, wrapping at TsMod here), and the server's    *)
(* time in seconds, both as the wall clock the code reads (clock) and as   *)
(* the time that really passed (real).  The agent's epoch is its own, so   *)
(* the two are not related.                                                *)
(***************************************************************************)
EXTENDS Integers, Sequences, SequencesExt, FiniteSetsExt, SignalProcess

CONSTANTS
    Gaps,          \* ticks between two consecutive samples of the agent
    Rtts,          \* RTT of a sample, in ticks (ms * 10)
    Bytes,         \* acked bytes of a sample
    ChunkLens,     \* samples in a report (chunk_len; 0 returns before any of this)
    TsMod,         \* the agent's timestamp counter wraps at TsMod ticks
    ArrivalGaps,   \* seconds of server time between two reports
    ClockSteps,    \* steps of the wall clock (NTP), in seconds
    MaxSamples,    \* bound: samples the agent reports
    MaxClockSteps  \* bound: steps of the wall clock

MIN_STEP   == 40   \* max(0.004, rtt_min / 4): 0.004 s in ticks
MINRTT_WND == 10   \* update_minrtt keeps 10 s of minimum RTTs

ASSUME /\ Gaps \subseteq {g \in Nat : g % 10 = 0}
       /\ Rtts \subseteq {r \in Nat : r % 4 = 0} /\ Rtts # {}
       /\ Bytes \subseteq Nat /\ ChunkLens \subseteq Nat \ {0}
       /\ TsMod \in Nat \ {0} /\ ArrivalGaps \subseteq Nat
       /\ ClockSteps \subseteq Int /\ MaxSamples \in Nat /\ MaxClockSteps \in Nat

NoPass == [none |-> TRUE]

VARIABLES
    history,   \* Seq of [t, b, r]: history_timestamp, _acked_bytes, _rtt
    minrtts,   \* Seq of [rtt, ts, born]: minrtts with minrtt_timestamp, and
               \* the server time of the append (a ghost)
    real,      \* seconds of server time that have passed
    clock,     \* time.time()
    steps,     \* steps of the wall clock so far
    pc,        \* "idle", "evict" (the loop of update_minrtt), "use"
               \* (np.min(self.minrtts), line 399), "crashed"
    last,      \* the last smoothing pass: its input, parameters and result
    counted    \* ghost: history positions some returned rate counted

vars == <<history, minrtts, real, clock, steps, pc, last, counted>>

-----------------------------------------------------------------------------
\* Lines 376-384: the 1-based position in history where the history part
\* of the smoothing input starts.  for index in range(1, n) stops at the
\* first sample older than wnd_len before times[0]; when none is, index
\* is n - 1 and history[-index:] leaves history[0] out; for n = 1 the
\* loop does not run, index is 0 and history[0:] is all of it.
SelectFrom(H, w, t0) ==
    LET n    == Len(H)
        hits == {i \in 1..(n - 1) : H[n - i + 1].t + w < t0}
    IN  IF n = 1 THEN 1
        ELSE n - (IF hits = {} THEN n - 1 ELSE Min(hits)) + 1

\* The samples of a report, their timestamps counted on from the agent's
\* last one (converted to seconds by / 1_000_000 in the code).
Samples(H, gs, bs, rs) ==
    LET prev == IF H = <<>> THEN 0 ELSE Last(H).t IN
    [i \in DOMAIN gs |->
        [t |-> (prev + SumFunctionOnSet(gs, 1..i)) % TsMod, b |-> bs[i], r |-> rs[i]]]

\* update_smoothed_data (lines 142-156) on the selected samples S:
\* window_length is their minimum RTT, the step max(0.004, rtt_min / 4).
Smooth(S, from) ==
    LET t    == [i \in DOMAIN S |-> S[i].t]
        rt   == [i \in DOMAIN S |-> S[i].r]
        wl   == Min({S[i].r : i \in DOMAIN S})
        step == Max({MIN_STEP, wl \div 4})
    IN  [in |-> S, from |-> from, wl |-> wl, step |-> step,
         res |-> SlidingWindowRate(t, [i \in DOMAIN S |-> S[i].b], rt, step, wl)]

\* add_data from line 360 to the first time.time() of update_minrtt
\* (line 99), the report arriving d seconds after the previous one:
\* smoothing over the recent history and the new samples when there is a
\* history, the history appended, the report's minimum RTT appended.
Ingest ==
    /\ pc = "idle"
    /\ \E n \in ChunkLens, d \in ArrivalGaps :
       \E gs \in [1..n -> Gaps], bs \in [1..n -> Bytes], rs \in [1..n -> Rtts] :
         LET new  == Samples(history, gs, bs, rs)
             from == IF history = <<>> THEN 0
                     ELSE SelectFrom(history, Min({e.rtt : e \in ToSet(minrtts)}), new[1].t)
             pass == Smooth(SubSeq(history, from, Len(history)) \o new, from)
         IN  /\ Len(history) + n <= MaxSamples
             /\ IF history = <<>>
                THEN UNCHANGED <<last, counted>>
                ELSE /\ last' = pass
                     /\ counted' = counted \cup
                          UNION {(from + w[1])..(from + w[2] - 1) : w \in ToSet(pass.res.wins)}
             /\ history' = history \o new
             /\ real' = real + d /\ clock' = clock + d
             /\ minrtts' = Append(minrtts, [rtt |-> Min(ToSet(rs)), ts |-> clock + d, born |-> real + d])
             /\ pc' = "evict"
    /\ UNCHANGED steps

\* Mutant: the oldest minimum RTT aged out with `if` instead of `while`.
EvictOnce ==
    /\ pc = "evict"
    /\ pc' = "use"
    /\ IF minrtts # <<>> /\ clock - Head(minrtts).ts > MINRTT_WND
       THEN minrtts' = Tail(minrtts) ELSE UNCHANGED minrtts
    /\ UNCHANGED <<history, real, clock, steps, last, counted>>

\* Lines 101-106: while minrtt_timestamp[0] is more than 10 s before
\* time.time(), drop the oldest minimum RTT.  Each test reads the clock.
Evict ==
    /\ pc = "evict"
    /\ IF minrtts # <<>> /\ clock - Head(minrtts).ts > MINRTT_WND
       THEN minrtts' = Tail(minrtts) /\ UNCHANGED pc
       ELSE pc' = "use" /\ UNCHANGED minrtts
    /\ UNCHANGED <<history, real, clock, steps, last, counted>>

\* Line 399: np.min(self.minrtts) raises ValueError on an empty window and
\* the worker dies; otherwise add_data returns.
Use ==
    /\ pc = "use"
    /\ pc' = IF minrtts = <<>> THEN "crashed" ELSE "idle"
    /\ UNCHANGED <<history, minrtts, real, clock, steps, last, counted>>

\* The system's wall clock is stepped, at any point between two readings.
ClockStep ==
    /\ pc # "crashed" /\ steps < MaxClockSteps
    /\ \E s \in ClockSteps : clock' = clock + s
    /\ steps' = steps + 1
    /\ UNCHANGED <<history, minrtts, real, pc, last, counted>>

Init ==
    /\ history = <<>> /\ minrtts = <<>>
    /\ real = 0 /\ clock = 0 /\ steps = 0
    /\ pc = "idle" /\ last = NoPass /\ counted = {}

Next == Ingest \/ Evict \/ Use \/ ClockStep

Spec == Init /\ [][Next]_vars

-----------------------------------------------------------------------------
(* Properties.                                                             *)

\* Spec section 4.1, read as a definition: windows start at
\* times[0] + k * step for k = 1, 2, ... and span window_length; there is
\* one per step up to the first window that reaches past the last sample;
\* a non-empty window gives the bytes of the samples inside it, and the
\* final value is dropped.
RefRates(t, v, step, wl) ==
    LET n    == Len(t)
        K    == IF t[n] - t[1] - wl < 0 THEN 1 ELSE (t[n] - t[1] - wl) \div step + 1
        In(k) == {i \in 1..n : t[1] + k * step <= t[i] /\ t[i] < t[1] + k * step + wl}
        ks   == SelectSeq([k \in 1..K |-> k], LAMBDA k : In(k) # {} /\ wl > 0)
        all  == [j \in DOMAIN ks |-> SumFunctionOnSet(v, In(ks[j]))]
    IN  IF all = <<>> THEN <<>> ELSE Front(all)

PassTimes == [i \in DOMAIN last.in |-> last.in[i].t]
PassRtts  == [i \in DOMAIN last.in |-> last.in[i].r]
PassBytes == [i \in DOMAIN last.in |-> last.in[i].b]

\* When the samples of a smoothing pass are in time order and no gap
\* between them is idle, the two-index walk of sliding_window_rate returns
\* exactly the window sums of spec section 4.1: neither index skips a
\* sample or counts one twice, and only the final window is dropped.
RatesMatchWindows ==
    /\ last # NoPass
    /\ IsSorted(PassTimes, <=)
    /\ \A r \in 0..(Len(PassTimes) - 2) : ~Idle(PassTimes, PassRtts, last.wl, r)
    => last.res.rates = RefRates(PassTimes, PassBytes, last.step, last.wl)

\* sliding_window_rate never reads past the end of its input, even when
\* the agent's timestamps wrap and the samples are out of time order: the
\* left index only reaches the end in a turn in which the right index does
\* too, which ends the loop.
WalkInBounds == last = NoPass \/ last.res.ok

\* Spec section 3: the min-RTT window np.min reads is never empty, and
\* never holds a minimum RTT measured more than 10 s before the newest one.
\* update_minrtt ages the window with time.time(), the wall clock.
MinRttWindowSound ==
    /\ pc # "crashed"
    /\ pc = "idle" /\ minrtts # <<>> =>
         \A i \in DOMAIN minrtts : Last(minrtts).born - minrtts[i].born <= MINRTT_WND

MaxRtt  == Max(Rtts)
MaxStep == Max({MIN_STEP, MaxRtt \div 4})

\* The bytes of every sample the agent reports enter some rate the
\* smoothing returns, once samples two RTTs later have been reported
\* (samples within one step of the first precede every window).  Each pass
\* starts its first window one step after the oldest history sample the
\* selection of lines 376-384 hands it, and drops its last window.
SamplesCounted ==
    \A i \in DOMAIN history :
        /\ history[1].t + MaxStep <= history[i].t
        /\ history[i].t + 2 * MaxRtt <= Last(history).t
        => i \in counted

\* The inputs of a decision are sound (spec sections 3 and 4.1): the min-RTT
\* window stays non-empty and within 10 s, and every acked byte reaches a
\* smoothed rate.
EstimatorInputsSound == MinRttWindowSound /\ SamplesCounted
=============================================================================
