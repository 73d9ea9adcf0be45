------------------------------- MODULE Demux -------------------------------
(***************************************************************************)
(* The demultiplexer of src/mortise/process-report.py: a threaded Unix     *)
(* stream server whose handler threads (one per agent connection) share    *)
(* the dicts flow_locks and flow_manager, and one worker process per flow  *)
(* that reads reports from a multiprocessing Pipe until end-of-file.       *)
(*                                                                         *)
(* Each statement of ThreadedUnixStreamHandler.handle that reads or writes *)
(* the shared dicts, a lock or a pipe is one step, so steps of different   *)
(* handler threads interleave as the interpreter may switch threads        *)
(* between them.  Each Connect creates one Lock, one Pipe and one worker;  *)
(* they are named by a generation number g.                                *)
(*                                                                         *)
(* Pipe ends are closed explicitly (chan.close()) or when the last Python  *)
(* reference goes away (a dict entry is deleted or overwritten, a local    *)
(* variable is rebound, the handler thread ends).  A worker started with   *)
(* the "fork" start method inherits every pipe end open in the server at   *)
(* that moment and keeps it until it exits.                                *)
(***************************************************************************)
EXTENDS Integers, FiniteSets, Functions

CONSTANTS
    Conns,        \* agent connections, one handler thread each
    Flows,        \* flow ids
    MaxMsgs,      \* bound: frames read per connection
    MaxGens,      \* bound: Connects handled in total
    StartMethod,  \* multiprocessing start method: "fork" or "forkserver"
    None,         \* no thread holds the lock (model value)
    PipeCap,      \* bound: reports a pipe buffers before send blocks
    Faults        \* failures of the agent side the run admits

ASSUME /\ MaxMsgs \in Nat /\ MaxGens \in Nat /\ PipeCap \in Nat \ {0}
       /\ StartMethod \in {"fork", "forkserver"} /\ None \notin Conns
       /\ Faults \subseteq {"worker_crash", "agent_connect", "agent_silent"}

NoGen == 0
Gens == 1..MaxGens

\* A pipe end: the tx or the rx Connection of generation g.
Ends == {"tx", "rx"} \X Gens

Msgs == [op : {"Connect", "Disconnect", "Data"}, flow : Flows]

\* Program points of handle().  Teardown labels are shared by Disconnect
\* (lines 169-176) and by the first half of Connect (lines 180-187).
\* Program points where a handler is between frames.
Rest == {"idle", "done", "failed"}

Labels == {"idle", "check", "get", "acquire", "in_mgr", "close_chan",
           "del_mgr", "del_lock", "create", "spawn", "register",
           "d_check", "d_get", "d_acquire", "d_in_mgr", "d_send",
           "failed", "done"}

VARIABLES
    flow_locks,    \* [Flows -> Gens \cup {NoGen}]: the Lock stored per flow
    flow_manager,  \* [Flows -> Gens \cup {NoGen}]: the tx end stored per flow
    lock_owner,    \* [Gens -> Conns \cup {None}]
    closed,        \* [Gens -> BOOLEAN]: tx.close() was called in the server
    worker,        \* [Gens -> {"none", "running", "blocked", "exited", "dead"}]
    held,          \* [Gens -> SUBSET Ends]: pipe ends a worker inherited
    queue,         \* [Gens -> Nat]: reports in the pipe, not yet received
    received,      \* [Gens -> Nat]: reports the worker has received
    gens,          \* generations created so far
    pc,            \* [Conns -> Labels]
    msg,           \* [Conns -> Msgs]: the frame being handled
    lock,          \* [Conns -> Gens \cup {NoGen}]: local lock / mtx
    tx,            \* [Conns -> Gens \cup {NoGen}]: locals tx, rx (line 192)
    chan,          \* [Conns -> Gens \cup {NoGen}]: local chan
    nread,         \* [Conns -> Nat]: frames read on the connection
    failure        \* [Conns -> {"none", "KeyError", "OSError"}]

vars == <<flow_locks, flow_manager, lock_owner, closed, worker, held, queue,
          received, gens, pc, msg, lock, tx, chan, nread, failure>>
worker_vars == <<worker, held, queue, received>>

(***************************************************************************)
(* A tx end is open in the server while it was not closed and something    *)
(* still refers to it; a worker's read fails with EOFError once no tx end  *)
(* of its pipe is open anywhere.                                           *)
(***************************************************************************)
Referenced(g) ==
    \/ \E f \in Flows : flow_manager[f] = g
    \/ \E c \in Conns : g \in {tx[c], chan[c]}

ServerTxOpen(g) == worker[g] # "none" /\ ~closed[g] /\ Referenced(g)

\* tx and rx are bound together at line 192 and dropped together, so the
\* server holds the rx end of exactly the pipes its tx locals name.
ServerRxOpen(g) == \E c \in Conns : tx[c] = g

\* The pipe ends open in the server, which a forked child inherits.
ServerEnds == {e \in Ends : IF e[1] = "tx" THEN ServerTxOpen(e[2]) ELSE ServerRxOpen(e[2])}

\* The worker process of generation g exists: in its loop, or blocked for
\* good in a request to the agent.
Alive(g) == worker[g] \in {"running", "blocked"}

HeldByWorker(e) == \E w \in Gens : Alive(w) /\ e \in held[w]

TxOpenAnywhere(g) == ServerTxOpen(g) \/ HeldByWorker(<<"tx", g>>)

\* A send raises BrokenPipeError once no rx end of the pipe is open.
RxOpenAnywhere(g) ==
    Alive(g) \/ ServerRxOpen(g) \/ HeldByWorker(<<"rx", g>>)

Goto(c, l) == pc' = [pc EXCEPT ![c] = l]

\* The handler thread ends on an uncaught exception; socketserver closes
\* the connection and the thread's locals go away.  A `with` block releases
\* its lock on the way out.
Fail(c, e) ==
    /\ pc' = [pc EXCEPT ![c] = "failed"]
    /\ failure' = [failure EXCEPT ![c] = e]
    /\ lock_owner' = [g \in Gens |-> IF lock_owner[g] = c THEN None ELSE lock_owner[g]]
    /\ tx' = [tx EXCEPT ![c] = NoGen]
    /\ chan' = [chan EXCEPT ![c] = NoGen]
    /\ lock' = [lock EXCEPT ![c] = NoGen]

-----------------------------------------------------------------------------
(* Reading frames (lines 155-165, 206-218).                                *)

\* A frame is read and dispatched on its kind.
ReadFrame(c) ==
    /\ pc[c] = "idle" /\ nread[c] < MaxMsgs
    /\ \E m \in Msgs :
         /\ msg' = [msg EXCEPT ![c] = m]
         /\ Goto(c, CASE m.op = "Data" -> "d_check"
                      [] OTHER         -> "check")
    /\ nread' = [nread EXCEPT ![c] = @ + 1]
    /\ UNCHANGED <<flow_locks, flow_manager, lock_owner, closed, worker_vars,
                   gens, lock, tx, chan, failure>>

\* The agent closes the connection: recv returns b"" and handle returns.
CloseConn(c) ==
    /\ pc[c] = "idle"
    /\ Goto(c, "done")
    /\ tx' = [tx EXCEPT ![c] = NoGen]
    /\ chan' = [chan EXCEPT ![c] = NoGen]
    /\ lock' = [lock EXCEPT ![c] = NoGen]
    /\ UNCHANGED <<flow_locks, flow_manager, lock_owner, closed, worker_vars,
                   gens, msg, nread, failure>>

-----------------------------------------------------------------------------
(* Disconnect (lines 166-176) and the teardown of Connect (lines 177-188). *)

\* Mutant: a Connect registers the new worker without tearing down the
\* flow's current one.
CheckNoTeardown(c) ==
    /\ pc[c] = "check"
    /\ Goto(c, IF msg[c].op = "Connect" THEN "create"
               ELSE IF flow_locks[msg[c].flow] # NoGen THEN "get" ELSE "idle")
    /\ UNCHANGED <<flow_locks, flow_manager, lock_owner, closed, worker_vars,
                   gens, msg, lock, tx, chan, nread, failure>>

\* if flow_id in flow_locks
Check(c) ==
    /\ pc[c] = "check"
    /\ Goto(c, IF flow_locks[msg[c].flow] # NoGen THEN "get"
               ELSE IF msg[c].op = "Connect" THEN "create" ELSE "idle")
    /\ UNCHANGED <<flow_locks, flow_manager, lock_owner, closed, worker_vars,
                   gens, msg, lock, tx, chan, nread, failure>>

\* lock = flow_locks[flow_id]
GetLock(c) ==
    /\ pc[c] = "get"
    /\ LET g == flow_locks[msg[c].flow] IN
       IF g = NoGen
       THEN /\ Fail(c, "KeyError")
            /\ UNCHANGED <<flow_locks, flow_manager, closed, worker_vars, gens,
                           msg, nread>>
       ELSE /\ lock' = [lock EXCEPT ![c] = g]
            /\ Goto(c, "acquire")
            /\ UNCHANGED <<flow_locks, flow_manager, lock_owner, closed,
                           worker_vars, gens, msg, tx, chan, nread, failure>>

\* with lock:
Acquire(c) ==
    /\ pc[c] = "acquire"
    /\ lock_owner[lock[c]] = None
    /\ lock_owner' = [lock_owner EXCEPT ![lock[c]] = c]
    /\ Goto(c, "in_mgr")
    /\ UNCHANGED <<flow_locks, flow_manager, closed, worker_vars, gens, msg,
                   lock, tx, chan, nread, failure>>

\* if flow_id in flow_manager
InManager(c) ==
    /\ pc[c] = "in_mgr"
    /\ Goto(c, IF flow_manager[msg[c].flow] # NoGen THEN "close_chan" ELSE "del_lock")
    /\ UNCHANGED <<flow_locks, flow_manager, lock_owner, closed, worker_vars,
                   gens, msg, lock, tx, chan, nread, failure>>

\* chan = flow_manager[flow_id]; chan.close()
CloseChan(c) ==
    /\ pc[c] = "close_chan"
    /\ LET g == flow_manager[msg[c].flow] IN
       IF g = NoGen
       THEN /\ Fail(c, "KeyError")
            /\ UNCHANGED <<flow_locks, flow_manager, closed, worker_vars, gens,
                           msg, nread>>
       ELSE /\ chan' = [chan EXCEPT ![c] = g]
            /\ closed' = [closed EXCEPT ![g] = TRUE]
            /\ Goto(c, "del_mgr")
            /\ UNCHANGED <<flow_locks, flow_manager, lock_owner, worker_vars,
                           gens, msg, lock, tx, nread, failure>>

\* del flow_manager[flow_id]
DelManager(c) ==
    /\ pc[c] = "del_mgr"
    /\ IF flow_manager[msg[c].flow] = NoGen
       THEN /\ Fail(c, "KeyError")
            /\ UNCHANGED <<flow_locks, flow_manager, closed, worker_vars, gens,
                           msg, nread>>
       ELSE /\ flow_manager' = [flow_manager EXCEPT ![msg[c].flow] = NoGen]
            /\ Goto(c, "del_lock")
            /\ UNCHANGED <<flow_locks, lock_owner, closed, worker_vars, gens,
                           msg, lock, tx, chan, nread, failure>>

\* del flow_locks[flow_id], then the with block releases the lock.  A
\* Disconnect is done; a Connect goes on to create the new flow.
DelLock(c) ==
    /\ pc[c] = "del_lock"
    /\ IF flow_locks[msg[c].flow] = NoGen
       THEN /\ Fail(c, "KeyError")
            /\ UNCHANGED <<flow_locks, flow_manager, closed, worker_vars, gens,
                           msg, nread>>
       ELSE /\ flow_locks' = [flow_locks EXCEPT ![msg[c].flow] = NoGen]
            /\ lock_owner' = [lock_owner EXCEPT ![lock[c]] = None]
            /\ Goto(c, IF msg[c].op = "Connect" THEN "create" ELSE "idle")
            /\ UNCHANGED <<flow_manager, closed, worker_vars, gens, msg, lock,
                           tx, chan, nread, failure>>

-----------------------------------------------------------------------------
(* Creating the flow (lines 189-197).                                      *)

\* mtx = multiprocessing.Lock(); with mtx: flow_locks[flow_id] = mtx.
\* The new lock is acquired before any other thread can see it.
Create(c) ==
    /\ pc[c] = "create"
    /\ gens < MaxGens
    /\ LET g == gens + 1 IN
       /\ gens' = g
       /\ lock' = [lock EXCEPT ![c] = g]
       /\ lock_owner' = [lock_owner EXCEPT ![g] = c]
       /\ flow_locks' = [flow_locks EXCEPT ![msg[c].flow] = g]
    /\ Goto(c, "spawn")
    /\ UNCHANGED <<flow_manager, closed, worker_vars, msg, tx, chan, nread, failure>>

\* Mutant: workers are started with the fork start method whatever
\* StartMethod says.
SpawnForked(c) ==
    /\ pc[c] = "spawn"
    /\ LET g == lock[c] IN
       /\ tx' = [tx EXCEPT ![c] = g]
       /\ worker' = [worker EXCEPT ![g] = "running"]
       /\ held' = [held EXCEPT ![g] = {e \in ServerEnds : e[2] # g}]
    /\ Goto(c, "register")
    /\ UNCHANGED <<flow_locks, flow_manager, lock_owner, closed, queue, received,
                   gens, msg, lock, chan, nread, failure>>

\* tx, rx = Pipe(); sock.connect(...); Process(target=worker).start().
\* Rebinding tx and rx drops the references to the previous pipe.  A
\* forked child inherits every pipe end open in the server; the worker
\* closes its own copy of its tx end first thing.  When the agent socket
\* refuses the connection the handler dies with mtx already published in
\* flow_locks and nothing in flow_manager.
Spawn(c) ==
    /\ pc[c] = "spawn"
    /\ \E connected \in IF "agent_connect" \in Faults THEN BOOLEAN ELSE {TRUE} :
       IF connected
       THEN LET g == lock[c]
                inherited == IF StartMethod = "fork"
                             THEN {e \in ServerEnds : e[2] # g} ELSE {}
            IN  /\ tx' = [tx EXCEPT ![c] = g]
                /\ worker' = [worker EXCEPT ![g] = "running"]
                /\ held' = [held EXCEPT ![g] = inherited]
                /\ Goto(c, "register")
                /\ UNCHANGED <<flow_locks, flow_manager, lock_owner, closed, queue,
                               received, gens, msg, lock, chan, nread, failure>>
       ELSE /\ Fail(c, "OSError")
            /\ UNCHANGED <<flow_locks, flow_manager, closed, worker_vars, gens,
                           msg, nread>>

\* Mutant: mtx is acquired by hand and never released.
RegisterKeepsLock(c) ==
    /\ pc[c] = "register"
    /\ flow_manager' = [flow_manager EXCEPT ![msg[c].flow] = tx[c]]
    /\ Goto(c, "idle")
    /\ UNCHANGED <<flow_locks, lock_owner, closed, worker_vars, gens, msg, lock,
                   tx, chan, nread, failure>>

\* flow_manager[flow_id] = tx, then the with block releases mtx.
Register(c) ==
    /\ pc[c] = "register"
    /\ flow_manager' = [flow_manager EXCEPT ![msg[c].flow] = tx[c]]
    /\ lock_owner' = [lock_owner EXCEPT ![lock[c]] = None]
    /\ Goto(c, "idle")
    /\ UNCHANGED <<flow_locks, closed, worker_vars, gens, msg, lock, tx, chan,
                   nread, failure>>

-----------------------------------------------------------------------------
(* Data frames (lines 228-233).                                            *)

\* if report_entry.flow_id in flow_locks
DataCheck(c) ==
    /\ pc[c] = "d_check"
    /\ Goto(c, IF flow_locks[msg[c].flow] # NoGen THEN "d_get" ELSE "idle")
    /\ UNCHANGED <<flow_locks, flow_manager, lock_owner, closed, worker_vars,
                   gens, msg, lock, tx, chan, nread, failure>>

\* with flow_locks[report_entry.flow_id]: evaluates the lookup ...
DataGetLock(c) ==
    /\ pc[c] = "d_get"
    /\ LET g == flow_locks[msg[c].flow] IN
       IF g = NoGen
       THEN /\ Fail(c, "KeyError")
            /\ UNCHANGED <<flow_locks, flow_manager, closed, worker_vars, gens,
                           msg, nread>>
       ELSE /\ lock' = [lock EXCEPT ![c] = g]
            /\ Goto(c, "d_acquire")
            /\ UNCHANGED <<flow_locks, flow_manager, lock_owner, closed,
                           worker_vars, gens, msg, tx, chan, nread, failure>>

\* ... then acquires that lock.
DataAcquire(c) ==
    /\ pc[c] = "d_acquire"
    /\ lock_owner[lock[c]] = None
    /\ lock_owner' = [lock_owner EXCEPT ![lock[c]] = c]
    /\ Goto(c, "d_in_mgr")
    /\ UNCHANGED <<flow_locks, flow_manager, closed, worker_vars, gens, msg,
                   lock, tx, chan, nread, failure>>

\* if report_entry.flow_id in flow_manager; if not, the lock is released.
DataInManager(c) ==
    /\ pc[c] = "d_in_mgr"
    /\ IF flow_manager[msg[c].flow] # NoGen
       THEN /\ Goto(c, "d_send")
            /\ UNCHANGED lock_owner
       ELSE /\ Goto(c, "idle")
            /\ lock_owner' = [lock_owner EXCEPT ![lock[c]] = None]
    /\ UNCHANGED <<flow_locks, flow_manager, closed, worker_vars, gens, msg,
                   lock, tx, chan, nread, failure>>

\* chan = flow_manager[flow_id]; chan.send(report_entry); release.  Sending
\* on a Connection that was closed raises OSError, into a pipe with no open
\* rx end BrokenPipeError; into a full pipe it blocks, holding the lock.
DataSend(c) ==
    /\ pc[c] = "d_send"
    /\ LET g == flow_manager[msg[c].flow] IN
       CASE g = NoGen ->
              /\ Fail(c, "KeyError")
              /\ UNCHANGED <<flow_locks, flow_manager, closed, worker_vars, gens,
                             msg, nread>>
         [] closed[g] \/ ~RxOpenAnywhere(g) ->
              /\ Fail(c, "OSError")
              /\ UNCHANGED <<flow_locks, flow_manager, closed, worker_vars, gens,
                             msg, nread>>
         [] OTHER ->
              /\ queue[g] < PipeCap
              /\ chan' = [chan EXCEPT ![c] = g]
              /\ queue' = [queue EXCEPT ![g] = @ + 1]
              /\ lock_owner' = [lock_owner EXCEPT ![lock[c]] = None]
              /\ Goto(c, "idle")
              /\ UNCHANGED <<flow_locks, flow_manager, closed, worker, held,
                             received, gens, msg, lock, tx, nread, failure>>

-----------------------------------------------------------------------------
(* The worker process (lines 84-101).                                      *)

\* What the worker is once it has handled a report: back in its loop;
\* ended by an exception ("worker_crash": only EOFError is caught, and
\* FlowCtrl (run flowctrl_numeric) or the agent socket may raise); or
\* blocked for good ("agent_silent": the sock.recv(4) awaiting the agent's
\* reply at line 73 has no timeout).
AfterReport ==
    {"running"}
      \cup (IF "worker_crash" \in Faults THEN {"dead"} ELSE {})
      \cup (IF "agent_silent" \in Faults THEN {"blocked"} ELSE {})

\* message = rx.recv(), then add_data, process and the request to the
\* agent.  A process that ends closes every pipe end it held; a blocked one
\* keeps them, and never reads its pipe again.
WorkerRecv(g) ==
    /\ worker[g] = "running" /\ queue[g] > 0
    /\ queue' = [queue EXCEPT ![g] = @ - 1]
    /\ received' = [received EXCEPT ![g] = @ + 1]
    /\ \E w \in AfterReport :
         /\ worker' = [worker EXCEPT ![g] = w]
         /\ held' = IF w = "dead" THEN [held EXCEPT ![g] = {}] ELSE held

\* rx.recv() raises EOFError once the pipe is drained and no tx end of it
\* is open anywhere; the worker closes its agent socket and exits, which
\* closes the tx ends it inherited.
WorkerExit(g) ==
    /\ worker[g] = "running" /\ queue[g] = 0
    /\ ~TxOpenAnywhere(g)
    /\ worker' = [worker EXCEPT ![g] = "exited"]
    /\ held' = [held EXCEPT ![g] = {}]
    /\ UNCHANGED <<queue, received>>

-----------------------------------------------------------------------------
Init ==
    /\ flow_locks = [f \in Flows |-> NoGen]
    /\ flow_manager = [f \in Flows |-> NoGen]
    /\ lock_owner = [g \in Gens |-> None]
    /\ closed = [g \in Gens |-> FALSE]
    /\ worker = [g \in Gens |-> "none"]
    /\ held = [g \in Gens |-> {}]
    /\ queue = [g \in Gens |-> 0]
    /\ received = [g \in Gens |-> 0]
    /\ gens = 0
    /\ pc = [c \in Conns |-> "idle"]
    /\ msg = [c \in Conns |-> CHOOSE m \in Msgs : TRUE]
    /\ lock = [c \in Conns |-> NoGen]
    /\ tx = [c \in Conns |-> NoGen]
    /\ chan = [c \in Conns |-> NoGen]
    /\ nread = [c \in Conns |-> 0]
    /\ failure = [c \in Conns |-> "none"]

HandlerStep(c) ==
    \/ Check(c) \/ GetLock(c) \/ Acquire(c) \/ InManager(c) \/ CloseChan(c)
    \/ DelManager(c) \/ DelLock(c) \/ Create(c) \/ Spawn(c) \/ Register(c)
    \/ DataCheck(c) \/ DataGetLock(c) \/ DataAcquire(c) \/ DataInManager(c)
    \/ DataSend(c)

WorkerStep(g) ==
    /\ (WorkerRecv(g) \/ WorkerExit(g))
    /\ UNCHANGED <<flow_locks, flow_manager, lock_owner, closed, gens, pc, msg,
                   lock, tx, chan, nread, failure>>

Next ==
    \/ \E c \in Conns : ReadFrame(c) \/ CloseConn(c) \/ HandlerStep(c)
    \/ \E g \in Gens : WorkerStep(g)

\* Handler threads and worker processes are scheduled by the interpreter
\* and the OS: a step that stays enabled is eventually taken.  The agent
\* (ReadFrame, CloseConn) need never send another frame.
Fairness ==
    /\ \A c \in Conns : WF_vars(HandlerStep(c))
    /\ \A g \in Gens : WF_vars(WorkerStep(g))

Spec == Init /\ [][Next]_vars /\ Fairness

-----------------------------------------------------------------------------
\* No handler thread is inside a frame's handling.
Quiescent == \A c \in Conns : pc[c] \in Rest

\* Once every handler has finished its frame, a flow whose worker channel
\* is in flow_manager has an entry in flow_locks, so its data frames pass
\* the check of line 228 and reach the worker, and a Disconnect finds it.
RegisteredFlowReachable ==
    Quiescent =>
        \A f \in Flows : flow_manager[f] # NoGen => flow_locks[f] # NoGen

\* Once every handler has finished its frame, every worker the server still
\* holds a tx end of is the worker flow_manager names for some flow: no
\* Connect leaves behind a worker that no frame can reach and no Disconnect
\* can stop.
NoOrphanWorker ==
    Quiescent =>
        \A g \in Gens : Alive(g) /\ ServerTxOpen(g) =>
            \E f \in Flows : flow_manager[f] = g

\* Once every handler has finished its frame, the flow table is consistent
\* both ways: every registered channel is reachable through flow_locks, and
\* every worker the server keeps alive is registered.  Concurrent Connect and
\* Disconnect frames of one flow, each a check-then-act over the two dicts,
\* are what could break it.
FlowTableConsistent == RegisteredFlowReachable /\ NoOrphanWorker

\* A handler thread never dies of an exception in the flow-table code
\* (spec section 7: the demultiplexer continues).
HandlersSurvive == \A c \in Conns : failure[c] = "none"

\* Control frames of two connections on one flow, in any interleaving, leave
\* the server as spec section 7 describes it: every handler thread survives
\* its frame and the flow table stays consistent both ways.
ControlFramesSafe == HandlersSurvive /\ FlowTableConsistent

\* A worker whose tx end the server has closed or dropped (Disconnect, a
\* replacing Connect) eventually sees end-of-file and exits (spec section 5:
\* teardown closes the queue and the worker exits).
TornDownWorkerExits ==
    \A g \in Gens :
        (Alive(g) /\ ~ServerTxOpen(g)) ~> worker[g] \in {"exited", "dead"}

\* A handler thread that has read a frame finishes handling it: it returns
\* to reading (or dies), so no frame of any flow on the connection waits
\* forever behind it (spec section 7: a failed worker's sends are dropped).
FramesComplete ==
    \A c \in Conns : pc[c] \notin Rest ~> pc[c] \in Rest

(***************************************************************************)
(* Refinement: the flow table the code maintains implements FlowTable.  A *)
(* flow's current worker is the channel in flow_manager until chan.close() *)
(* (line 174), a report is pending while it is in the pipe, and a worker   *)
(* is alive while its process runs.                                        *)
(***************************************************************************)
AbsTable ==
    [f \in Flows |-> IF flow_manager[f] # NoGen /\ ~closed[flow_manager[f]]
                     THEN flow_manager[f] ELSE NoGen]

FT == INSTANCE FlowTable
        WITH table <- AbsTable, pending <- queue,
             alive <- {g \in Gens : Alive(g)}

\* The handlers, locks and workers of process-report.py implement the flow
\* table of the spec: a Connect replaces a live flow's worker only after
\* tearing it down, reports go only to the flow's current worker, and a
\* torn-down worker drains its pipe and exits.
FlowTableRefined == FT!Spec
=============================================================================
