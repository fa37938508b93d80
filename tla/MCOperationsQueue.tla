------------------------- MODULE MCOperationsQueue -------------------------
(* Small instances of OperationsQueue for TLC. *)
EXTENDS OperationsQueue, TLC

CONSTANTS w1, w2, j1, j2, p1, k1

MCJobs      == {j1, j2}
MCOneJob    == {j1}
MCKeys      == {k1}
MCWorkers   == {w1, w2}
MCOneWorker == {w1}
MCOutcomes     == [k \in MCKeys |-> {"returns", "raises"}]
MCFailsInQuery == [k \in MCKeys |-> {"raises after a query"}]

\* Workers and rows are interchangeable where only safety is checked.
MCSymmetry == Permutations(MCJobs) \cup Permutations(MCWorkers)
=============================================================================
