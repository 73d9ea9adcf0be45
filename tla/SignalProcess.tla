--------------------------- MODULE SignalProcess ---------------------------
(***************************************************************************)
(* sliding_window_rate of src/mortise/utils/signal_process.py as operators. *)
(*                                                                         *)
(* Times, window length and step are integers in ticks of 0.1 ms, so that  *)
(* the step max(0.004 s, rtt_min / 4), the comparison of an RTT increase   *)
(* (ms / 1000) with half a time gap, and the padding 0.9 * gap are exact   *)
(* for the inputs the model draws (gaps that are multiples of 10 ticks,    *)
(* RTTs that are multiples of 4).  A rate is represented by the byte sum   *)
(* of its window: the division by window_length, the same for every value  *)
(* of one call, is left out.  Indices are Python's: 0-based, so times[i]   *)
(* is t[i + 1].                                                            *)
(***************************************************************************)
EXTENDS Integers, Sequences, SequencesExt, Functions

\* The app-limited test of lines 90-93 on the samples at 0-based r, r + 1:
\* a gap longer than half the window over which the RTT rose by less than
\* half the gap (the sender was idle, no queue built up).
Idle(t, rt, wl, r) ==
    LET gap == t[r + 2] - t[r + 1] IN
    2 * gap > wl /\ 2 * (rt[r + 2] - rt[r + 1]) < gap

\* np.sum(vals[l:r]): the bytes of the 0-based samples l .. r - 1.
WindowBytes(v, l, r) == SumFunctionOnSet(v, (l + 1)..r)

\* Lines 85-88: while times[left_idx] < wnd_start_time, with the break at
\* the end of the input.  Reading times[left_idx] with left_idx = len(times)
\* raises IndexError: ok is FALSE then.
RECURSIVE AdvanceLeft(_, _, _)

\* Mutant: the pass over old samples without the break at the end of the
\* input.
AdvanceLeftNoBreak(t, l, ws) ==
    IF l >= Len(t) THEN [idx |-> l, ok |-> FALSE]
    ELSE IF t[l + 1] >= ws THEN [idx |-> l, ok |-> TRUE]
    ELSE AdvanceLeft(t, l + 1, ws)

AdvanceLeft(t, l, ws) ==
    IF l >= Len(t) THEN [idx |-> l, ok |-> FALSE]
    ELSE IF t[l + 1] >= ws THEN [idx |-> l, ok |-> TRUE]
    ELSE IF l + 1 >= Len(t) THEN [idx |-> l + 1, ok |-> TRUE]
    ELSE AdvanceLeft(t, l + 1, ws)

\* Lines 89-101: while times[right_idx] < wnd_end_time, shifting both ends
\* of the window by 0.9 * gap at an idle gap, with the break at the end of
\* the input.  The caller guarantees right_idx < len(times).
RECURSIVE AdvanceRight(_, _, _, _, _, _)
AdvanceRight(t, rt, wl, r, ws, we) ==
    IF t[r + 1] >= we THEN [idx |-> r, ws |-> ws, we |-> we]
    ELSE LET pad == IF r < Len(t) - 1 /\ Idle(t, rt, wl, r)
                    THEN (9 * (t[r + 2] - t[r + 1])) \div 10 ELSE 0
         IN  IF r + 1 >= Len(t)
             THEN [idx |-> r + 1, ws |-> ws + pad, we |-> we + pad]
             ELSE AdvanceRight(t, rt, wl, r + 1, ws + pad, we + pad)

\* Lines 82-105: one turn of the outer loop per step of the window start,
\* while right_idx < len(times); a non-empty window is appended, here as
\* its 0-based index range <<left_idx, right_idx>>.
RECURSIVE Walk(_, _, _, _, _, _, _, _)
Walk(t, rt, step, wl, ws0, l, r, out) ==
    IF r >= Len(t) THEN [wins |-> out, ok |-> TRUE]
    ELSE LET ws == ws0 + step
             L  == AdvanceLeft(t, l, ws)
             R  == AdvanceRight(t, rt, wl, r, ws, ws + wl)
             next == IF L.idx < R.idx /\ wl > 0 THEN Append(out, <<L.idx, R.idx>>) ELSE out
         IN  IF ~L.ok THEN [wins |-> out, ok |-> FALSE]
             ELSE Walk(t, rt, step, wl, R.ws, L.idx, R.idx, next)

\* Mutant: result_values returned whole, the final window kept.
SlidingWindowRateAll(t, v, rt, step, wl) ==
    LET w == Walk(t, rt, step, wl, t[1], 0, 0, <<>>) IN
    [wins  |-> w.wins,
     rates |-> [i \in DOMAIN w.wins |-> WindowBytes(v, w.wins[i][1], w.wins[i][2])],
     ok    |-> w.ok]

\* sliding_window_rate(times, vals, rtts, step, window_length) for a
\* non-empty input: the walk from wnd_start_time = times[0], and
\* result_values[:-1].  wins are the windows of the values returned, rates
\* their byte sums np.sum(vals[left_idx:right_idx]).
SlidingWindowRate(t, v, rt, step, wl) ==
    LET w    == Walk(t, rt, step, wl, t[1], 0, 0, <<>>)
        kept == IF w.wins = <<>> THEN <<>> ELSE Front(w.wins)
    IN  [wins  |-> kept,
         rates |-> [i \in DOMAIN kept |-> WindowBytes(v, kept[i][1], kept[i][2])],
         ok    |-> w.ok]
=============================================================================
