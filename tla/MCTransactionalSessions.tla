---------------------- MODULE MCTransactionalSessions ----------------------
(***************************************************************************)
(* Instances of TransactionalSessions for TLC.                             *)
(***************************************************************************)
EXTENDS TransactionalSessions, TLC

SessionSymmetry == Permutations(Sessions)
=============================================================================
