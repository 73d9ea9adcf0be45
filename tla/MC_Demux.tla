------------------------------ MODULE MC_Demux ------------------------------
(* Instantiation of Demux for TLC: model-value connections and flows; every *)
(* Connect a run can read gets a generation, so MaxGens never blocks one.   *)
EXTENDS Demux, TLC

MC_MaxGens == Cardinality(Conns) * MaxMsgs

\* Connection and flow model values are interchangeable.
MC_Symmetry == Permutations(Conns) \cup Permutations(Flows)
=============================================================================
