----------------------------- MODULE FlowTable -----------------------------
(***************************************************************************)
(* What the demultiplexer promises about flows (spec sections 4.7 and 5),  *)
(* with threads, locks and pipe ends left out.  Each flow has at most one  *)
(* current worker.  A Connect on a live flow first tears the old worker    *)
(* down, then opens a fresh one.  Data for a live flow goes to its current *)
(* worker through a lossless FIFO queue.  A worker that is no longer any   *)
(* flow's current worker drains its queue and then exits.                  *)
(***************************************************************************)
EXTENDS Naturals

CONSTANTS Flows, Gens, NoGen

VARIABLES
    table,    \* [Flows -> Gens \cup {NoGen}]: each flow's current worker
    pending,  \* [Gens -> Nat]: reports queued for a worker
    alive     \* workers that run

vars == <<table, pending, alive>>

Current(g) == \E f \in Flows : table[f] = g

Init ==
    /\ table = [f \in Flows |-> NoGen]
    /\ pending = [g \in Gens |-> 0]
    /\ alive = {}

\* A fresh worker starts with an empty queue.
Start(g) ==
    /\ g \notin alive /\ ~Current(g) /\ pending[g] = 0
    /\ alive' = alive \cup {g}
    /\ UNCHANGED <<table, pending>>

\* Only a flow with no current worker gets one.
Open(f, g) ==
    /\ table[f] = NoGen /\ g \in alive /\ ~Current(g)
    /\ table' = [table EXCEPT ![f] = g]
    /\ UNCHANGED <<pending, alive>>

Close(f) ==
    /\ table[f] # NoGen
    /\ table' = [table EXCEPT ![f] = NoGen]
    /\ UNCHANGED <<pending, alive>>

Deliver(f) ==
    /\ table[f] # NoGen
    /\ pending' = [pending EXCEPT ![table[f]] = @ + 1]
    /\ UNCHANGED <<table, alive>>

Consume(g) ==
    /\ g \in alive /\ pending[g] > 0
    /\ pending' = [pending EXCEPT ![g] = @ - 1]
    /\ UNCHANGED <<table, alive>>

Exit(g) ==
    /\ g \in alive /\ ~Current(g) /\ pending[g] = 0
    /\ alive' = alive \ {g}
    /\ UNCHANGED <<table, pending>>

Next ==
    \/ \E g \in Gens : Start(g) \/ Consume(g) \/ Exit(g)
    \/ \E f \in Flows : Close(f) \/ Deliver(f) \/ \E g \in Gens : Open(f, g)

\* A worker consumes what is queued for it, and a torn-down worker that has
\* drained its queue exits.
Spec ==
    /\ Init /\ [][Next]_vars
    /\ \A g \in Gens : WF_vars(Consume(g)) /\ WF_vars(Exit(g))
=============================================================================
