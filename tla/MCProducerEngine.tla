-------------------------- MODULE MCProducerEngine -------------------------
(***************************************************************************)
(* Instances of ProducerEngine for TLC: what the application publishes,    *)
(* and the symmetry of threads and keys.                                   *)
(***************************************************************************)
EXTENDS ProducerEngine, TLC

CONSTANTS a, b, x

\* A single Event, and a batch whose second Event is refused.
MCBatches == {<<a>>, <<b, x>>}

CallerSymmetry == Permutations(Callers) \cup Permutations(Keys)
=============================================================================
