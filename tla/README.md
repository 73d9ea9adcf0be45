# TLA+ models of Mortise's report processor

This directory holds TLA+ models of the Python side of Mortise (`src/mortise/`).
That side receives per-flow reports from the agent, computes a trade-off value
for each flow, and sends it back. TLC checks the models.

## The system

| Part | Source | What it does |
|---|---|---|
| Demultiplexer | `process-report.py` | A `ThreadingUnixStreamServer` runs one handler thread per agent connection (`handle`). Control frames `Connect`/`Disconnect` create or tear down a flow. Data frames are forwarded to the flow's worker. The threads share two dicts, `flow_locks` (flow id → `multiprocessing.Lock`) and `flow_manager` (flow id → tx end of a `multiprocessing.Pipe`). |
| Worker | `process-report.py` `worker` | One process per flow. It closes its copy of tx and loops: `rx.recv()`, `FlowCtrl.add_data`, `FlowCtrl.process`, and, when there is a decision, a request/response to the agent over its own socket. It exits on `EOFError`. |
| Flow controller | `utils/calc_opt_delta.py` `FlowCtrl` | Sample history, interval bookkeeping (`intervals_len`, `decide_intervals_cnts`), EWMA rate, loss rate, change-point double check, and the decision (`probe_opt_delta` → fine or coarse adjustment → smoothing or jump + `clear_history`). |
| Change-point detector | `utils/change_point.py` | Bayesian online change-point detection. The run-length posterior is pruned to 200 data. Its likelihood class (`utils/online_likelihood.py`) is not in the repository. |
| Numeric helpers | `utils/signal_process.py`, `utils/calc_copa_performance.py` | Chebyshev filters, sliding-window rate, EWMA, and Copa throughput/delay/loss formulas. |
| Offline tool | `stat.py` | Summarises CSV logs. |

The parts interact as follows:

1. A handler thread reads a frame.
2. For a data frame, it takes the flow's lock and `chan.send`s the report into that flow's pipe.
3. The worker receives the report and runs one `add_data` + `process` step.

Teardown closes the tx end (`chan.close()`). The worker then gets `EOFError` once no tx end of its pipe is open anywhere.

## Modules

### `FlowCtrl.tla`: the flow controller of one worker

The state is `fc`, a record with the fields of `FlowCtrl` that the control flow reads:

- `history_len`: the number of samples, which stands for the history arrays;
- the last four `intervals_len` entries and their total;
- `ewma_rate` as zero/positive;
- `loss_rate` as below/at/above `LOSS_THR`, or `nan` when the last two intervals acked and lost nothing (numpy's 0/0);
- the detector's datum count `cp_t`;
- `run_len` and `last_run_len`;
- `cp_detected`, `decide_intervals_cnts`, `enable_adjust` and `cur_trade_off`.

Besides `fc`, the module has these variables:

- `crash` is the exception that ended the worker, if any;
- `agent_val` is the last trade-off sent;
- `reports` counts the reports received.

One action, `Receive`, is the whole loop body of `worker`: receive → `AddData` → `Process` → send. Its parts are these operators:

- `AddData` keeps the order of `add_data`. `intervals_len` is updated before the early return on an empty chunk. Smoothing happens only with a non-empty history, then loss, then the change point, then end-of-interval counting.
- `Process` is `process`. `ProbeOptDelta` keeps the order in which `probe_opt_delta` can fail:
  1. `IndexError` from the window start;
  2. `ValueError` from a zero filter cutoff;
  3. the fine branch;
  4. `ValueError` from `int(100 * qoe_lambda)` when a `nan` loss rate made `qoe_lambda` nan (`qoe_lambda > 0` is false, so the coarse branch runs and raises at its `delta_min`);
  5. `OverflowError` from a zero `ewma_rate` in `delta_max`;
  6. the coarse branch.
- `FineTune` and `CoarseAdjust` compute the candidate set, clamps, bias and boost in integers, with every `int()` truncation as `\div`.

The float estimates the code computes are drawn as inputs from small sets in `Estimates`:

- network vs. QoE lambda, and whether their ratio is "near";
- `100*qoe_lambda`;
- the delay budget `12/delay_thr/ewma_rate*1000`;
- the bias denominator;
- the loss boost.

The QoE search of `_fine_tune_with_filtering` is a choice among its candidates. The detector's argmax is any run length its posterior can put mass on (`Argmaxes`).

`HISTORY_LEN` (200 in the code) is 2 and `CP_MAX_RUN_LEN` (10 in the code) is 2. These values keep the same relation between prune, argmax range and the double check.

### `Demux.tla`: handler threads, flow table, workers

Each statement of `handle` that touches `flow_locks`, `flow_manager`, a lock or a pipe is one step. The interpreter may switch threads between any two of them.

The per-connection locals `lock`, `tx` and `chan` are variables. They matter because a Python reference keeps a pipe end open: a tx end is open in the server while it has not been `close()`d and a dict entry or a local still refers to it (`ServerTxOpen`).

`Spawn` models `Process.start()`. Under `StartMethod = "fork"` the child inherits every pipe end open in the server. `held` records these as `<<"tx", g>>` and `<<"rx", g>>` pairs.

`tx` and `rx` are bound together at line 192 and dropped together. The server therefore holds the rx end of exactly the pipes its `tx` locals name (`ServerRxOpen`).

`WorkerExit` fires when the pipe is drained and `TxOpenAnywhere` is false.

`DataSend` distinguishes four outcomes:

- the channel was closed: `OSError`;
- no rx end is open anywhere: `BrokenPipeError`;
- the pipe already holds `PipeCap` reports: the send blocks with the flow lock held;
- otherwise the report is queued.

The constant `Faults` admits three failures of the agent side:

- `"worker_crash"`: the loop body after `rx.recv()` raises. This is a `FlowCtrl` exception (see the FlowCtrl violation runs) or an error of the agent socket in `send_and_receive_message`. Only `EOFError` is caught, so the worker process dies and its pipe ends close.
- `"agent_connect"`: `sock.connect` (line 194) raises after `mtx` is already in `flow_locks`.
- `"agent_silent"`: the agent never answers a request. The `sock.recv(4)` at line 73 has no timeout, so the worker blocks for good (`"blocked"`). It keeps its pipe ends open and never reads its pipe again. `Alive(g)` counts a blocked worker as a running process: its ends stay open, and it is alive in the refinement mapping.

Every `Connect` gets a generation `g` naming its lock, pipe and worker. `MC_Demux` sets `MaxGens` to the number of frames the connections can read, so the bound never blocks a `Connect`.

The teardown steps (`Check`, `GetLock`, `Acquire`, `InManager`, `CloseChan`, `DelManager`, `DelLock`) model lines 169-176. Lines 180-187, the same statements in `Connect`, are modelled by the same steps followed by `Create`, `Spawn` and `Register`. An uncaught `KeyError`/`OSError` ends the thread (`Fail`), releases its `with` locks and drops its locals.

### `FlowTable.tla`: what the demultiplexer promises

This is an abstract specification of spec sections 4.7 and 5. A flow has at most one current worker (`table`). `Open` needs an empty slot, so a replacing Connect must tear the old worker down first. `Deliver` queues a report for the flow's current worker (`pending`). A worker that is no current worker exits once it has drained its queue, with weak fairness on `Consume` and `Exit`.

`Demux` instantiates it (`FT == INSTANCE FlowTable WITH ...`) under this refinement mapping:

- A flow's current worker is the channel in `flow_manager` until `chan.close()`.
- `pending` is the pipe content.
- `alive` is the set of running workers.

`FlowTableRefined == FT!Spec` is checked as a property.

### `Framing.tla`: the frame reader of one connection

The connection is a byte stream that the model counts but does not spell out. `frames` holds each frame the agent began, with its stream offset and payload length. `wpos` and `rpos` are the bytes written and received.

The agent, which is not part of this repository, has three actions:

- `Begin` starts a control frame (25 bytes, `{"Connect":{"flow_id":1}}`) or a data frame (808 bytes).
- `Write` is one `write()` up to a cut point in `WriteCuts`, or up to the end of the frame.
- `Close` closes the connection between frames.

The handler's loop is two actions:

- `RecvHeader` is lines 156-159. An empty read ends the loop. Fewer than 4 bytes raise `struct.error`. Otherwise the prefix is unpacked: a frame's own length when the reader is in step with the frames, and any of `GarbageLens` when it is not.
- `RecvBody` is lines 160-218. `conn.recv(msg_len)` returns `min(msg_len, available)` bytes, because an AF_UNIX stream socket copies across queued writes. It blocks while nothing is queued. `Parses` says what `json.loads` and `struct.unpack`/`iter_unpack` accept: a whole control payload, or a data payload of 8 + 16·n bytes. Anything else raises and ends `handle` (`"dead"`).

A payload that parses is appended to `dispatched`. What the flow table does with it is `Demux`'s part.

### `SignalProcess.tla`: `sliding_window_rate`

`sliding_window_rate` (`signal_process.py` lines 76-107) is written as operators over integer ticks of 0.1 ms. Times, step and window length are exact for the inputs the model draws: gaps that are multiples of 10 ticks and RTTs that are multiples of 4. With them, `0.9 * gap` and the step `max(0.004, rtt_min / 4)` are integers. The app-limited test `(rtt diff)/1000 < 0.5 * gap` becomes `2 * rtt diff < gap`.

- `AdvanceLeft` (lines 85-88) and `AdvanceRight` (lines 89-101) are the two inner loops, as RECURSIVE operators with their breaks at the end of the input. `AdvanceLeft` reports whether it would read `times[len]`.
- `Idle` is the app-limited test that shifts the window by 0.9 of the gap.
- `Walk` is the outer loop. It returns each non-empty window as its index range `<<left_idx, right_idx>>`.
- `SlidingWindowRate` drops the last window (`result_values[:-1]`).
- A rate is the window's byte sum (`WindowBytes`). The division by `window_length` is the same for every value of one call, so it is left out.

### `Estimator.tla`: where FlowCtrl's rates and minimum RTT come from

This module models the sample path of one worker's `FlowCtrl.add_data`. `FlowCtrl.tla` takes the results of that path as inputs.

The state:

- `history` is the sample history (timestamp, bytes, RTT).
- `minrtts` is the min-RTT window. Each entry keeps its `time.time()` stamp, and also the server time that really passed (`born`, a ghost).
- Two clocks: the wall clock `clock` that the code reads, and the real time `real`.
- `last` is the last smoothing pass: its input, parameters and result.
- `counted` is a ghost: the history positions that some kept rate counted.

The actions:

- `Ingest` is lines 360-398. The report's timestamps continue from the agent's last one and wrap at `TsMod`, as the agent's u32 microseconds do. `SelectFrom` is lines 373-384, including the loop's `index = n - 1` fallthrough that leaves `history[0]` out. `Smooth` is `update_smoothed_data`. The action ends with the history appended and the report's minimum RTT appended.
- `Evict` is one test of the `while` loop of `update_minrtt` (lines 101-106).
- `Use` is `np.min(self.minrtts)` at line 399. An empty window raises, and the worker is `"crashed"`.
- `ClockStep` is the environment: the wall clock is stepped, for example by NTP, at any point between two readings.

### `MC_FlowCtrl.tla`, `MC_Demux.tla`, `MC_Estimator.tla`

These modules give the constant sets for TLC. A cfg cannot hold negative numbers, so `MC_Estimator` defines the backward clock step. They also hold the symmetry set of the two-connection runs, which check safety only.

## Runs

| Run | Config | Expect | What it shows |
|---|---|---|---|
| flowctrl_window | FlowCtrl.cfg | pass | `DecisionWindowInHistory`: across change-point clears, empty reports and end-of-interval reports, the window `-sum(intervals_len[-4:])` never reaches before the first recorded sample. It holds only because `clear_history` resets `decide_intervals_cnts`, so the next decision is four intervals later. |
| flowctrl_tradeoff | FlowCtrlTrade.cfg | pass | `TradeOffFloor`: every trade-off sent is ≥ 10, over all loss classes, lambdas, budgets and bias denominators. It relies on `max(min(x, delta_max), delta_min)` and on the bias floor. |
| flowctrl_intervals | FlowCtrlIntervals.cfg | violation | `IntervalsMatchHistory`: `clear_history` keeps `intervals_len`. |
| flowctrl_numeric | FlowCtrlNumeric.cfg | violation | `DecisionSound` (`NumericGuards` and `TradeOffInRange`). The loss boost, added after the clamp to 500, lifts the trade-off sent to the agent to 525. Also, a decision can raise at three unguarded numeric edges. They are a zero `ewma_rate` in `delta_max` (`OverflowError`), a minimum RTT above 333 ms giving filter cutoff 0 (`ValueError`), and a 0/0 loss rate reaching `int(100 * qoe_lambda)` (`ValueError`). TLC reports the shortest trace. Checking one conjunct at a time, or restricting the inputs to one edge, shows each of them alone. |
| demux_single | Demux.cfg | pass | One connection, two flows, fork server, a one-report pipe. Every frame's handling completes (`FramesComplete`), including sends that block until the worker reads. Every torn-down worker exits (`TornDownWorkerExits`). The code refines `FlowTable` (`FlowTableRefined`). With one connection there is no race on the flow table, so its consistency and the handlers' survival are checked only where two connections race, in demux_table. |
| demux_fork | DemuxFork.cfg | violation | `TornDownWorkerExits` fails under `fork`, the default start method on Linux up to Python 3.13 (3.14 switched to `forkserver`): a younger worker holds the older flow's tx end. |
| demux_table | DemuxTable.cfg | violation | `ControlFramesSafe` (`HandlersSurvive` and `FlowTableConsistent`). The unlocked check-then-act on `flow_locks` raises `KeyError` in a handler. `FlowTableConsistent` breaks in two ways. A Disconnect holding the old lock can delete a concurrent Connect's new lock entry. Two concurrent Connects for one flow can leave an orphaned worker. |
| estimator_window | Estimator.cfg | pass | `RatesMatchWindows`: on input in time order with no idle gap, the two-index walk returns exactly the window sums of spec §4.1 (`RefRates`, a definition by quantifiers), with only the final window dropped. `WalkInBounds`: `sliding_window_rate` never reads past its input, even when wrapped timestamps put the samples out of order. `MinRttWindowSound`: with the wall clock stepped forward by 5 s, less than the window, the min-RTT window is never empty and spans at most 10 s. |
| estimator_faults | EstimatorFaults.cfg | violation | `EstimatorInputsSound` (`MinRttWindowSound` and `SamplesCounted`). A forward wall-clock step of 20 s between lines 99 and 103 empties `minrtts`, and `np.min` raises. A backward step keeps a minimum older than 10 s. Separately, with no clock step at all, one-sample reports 4 ms apart at an 8 ms RTT leave the sample at 8 ms out of every rate. The selection hands the next pass only the last history sample, and that pass's first window starts one step after it. |
| framing_aligned | Framing.cfg | pass | `FramesDelivered`: if the agent writes each frame whole, or as length prefix then payload, every frame it has written is eventually handed on. This holds over three control or data frames, under every interleaving of its writes with the handler's reads. |
| framing_short | FramingShort.cfg | violation | `FramesIntact`: when a write ends inside a payload, `conn.recv(808)` returns 24 bytes. The handler unpacks them as a data frame with one element and sends it on. The rest of the payload becomes the next length prefix. |
| demux_stall | DemuxStall.cfg | violation | `FramesComplete`: a worker dies of an exception in its loop, or blocks for good awaiting the agent (`Faults` holds both). Its flow stays registered and the server's `rx` local keeps its pipe open, so the next send fills the pipe. The one after blocks forever holding the flow lock. The spec says such sends are dropped. |

Every property of a passing run has a mutant in `PROJECT.json`: a plausible bug in the code that TLC shows the property catches. The mutants include:

- `clear_history` without the counter reset;
- a swapped clamp;
- workers forked;
- the length prefix unpacked little-endian;
- `mtx` never released;
- a Connect that does not tear the old worker down;
- `result_values` returned whole;
- the left loop without its end-of-input break;
- `update_minrtt` evicting with `if` instead of `while`.

### Bounds

**FlowCtrl.** A decision needs 5 end-of-interval reports, or more than 10 with a change point. The passing runs read 10-11 reports, so they reach two decisions, a change-point clear and the decision after it. The violation runs need 7. The `VIEW` hides `loss_rate`, which every step overwrites before reading it.

**Demux.**

- One connection reading 5 frames over two flows covers Connect → Data → re-Connect → Disconnect sequences across flows.
- Two connections reading 2 frames each on one flow are enough for every race found. Larger bounds find the same traces.
- `PipeCap` is 1. A real pipe holds some tens of reports, but one is enough for both sides of the question: a send that waits for the worker, and a send that waits forever for a dead one.

**Estimator.** Four samples in reports of one or two. Gaps of 1 ms and 5 ms make the 5 ms gap idle for an 8 ms window and not for a 16 ms one. RTTs of 8 and 16 ms put the step at its 4 ms floor and at a quarter of the RTT. A timestamp modulus of 20 ms makes the agent's counter wrap within the run. Reports are 3 s or 8 s apart, so the 10 s window both keeps and ages out entries. The wall clock is stepped once by 5 s. A fifth sample with two byte values did not finish in 10 minutes. The fault run needs six samples, because the lost sample is only known lost once samples two RTTs later exist.

**Framing.** There are three frames of the two real sizes. The cut points are chosen so that every parse outcome happens:

- inside the prefix (2);
- between prefix and payload (4);
- inside the data header (9);
- inside an element (20);
- at an element boundary (28).

## Fairness

Handler threads and worker processes are scheduled by the interpreter and the OS. A step that stays enabled is eventually taken, so each has weak fairness. Lock waits need no strong fairness here: frames are bounded, so a lock is eventually free for good.

`FramesComplete` in demux_single relies on the worker's weak fairness. A send blocked on a full pipe completes only because a running worker eventually reads. In demux_stall the worker is dead or blocked, so no fairness helps. With `"agent_silent"` alone, `TornDownWorkerExits` fails too: a blocked worker never sees end-of-file, so a `Disconnect` cannot end it. This second failure is reproduced by DemuxStall.cfg with `Faults = {"agent_silent"}` and `PROPERTIES TornDownWorkerExits`; the project keeps one run for the stall.

In `Framing` the handler thread has weak fairness. The agent has none: it may stop between frames with or without closing. `FramesDelivered` only speaks of frames that were written completely.

The agent has no fairness. It may stop sending at any time, which is also why deadlock is not checked: an idle server waiting in `recv` is a normal end state.

## Not modelled yet, and the plan

1. **Composition.** The `Demux` workers could run the `FlowCtrl` step (`INSTANCE FlowCtrl`), so that a worker crash found in FlowCtrl is followed into the handler that keeps sending to its pipe. `Demux` already has that crash as its `"worker_crash"` fault, so the composition would add states but no new behaviour of the handlers.
2. **Estimator and FlowCtrl as one module.** `Estimator` and `FlowCtrl` model the same `add_data` from two sides: the sample path and the decision. Their product exceeds what TLC explores in minutes. Where they meet, the rates and minimum RTT, FlowCtrl draws from small sets.
3. **One question per run.** Violation runs that answer one question share a run through a conjunction, and each conjunct was checked alone when the run was made. `flowctrl_numeric` holds the decision's numeric edges. `demux_table` holds the flow-table races. `estimator_faults` holds the estimator's inputs.
4. **The worker's reply read.** `send_and_receive_message` reads the agent's reply with the same `recv(4)`/`recv(n)` pattern. A short reply raises in the worker, which is the `"worker_crash"` fault of `Demux`. The byte-level read is not modelled a second time.
5. **Out of reach.** These are float computations or file I/O, and only their results enter the models, as inputs:
   - `update_ewma`, the Chebyshev filters and `find_signal_peak_width`, which are numpy/scipy float DSP;
   - the Copa formulas of `calc_copa_performance.py`;
   - `stat.py`, which summarises CSV files offline;
   - the change-point detector's posterior update, which uses a likelihood class that is not in the repository.
