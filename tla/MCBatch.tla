------------------------------ MODULE MCBatch ------------------------------
(***************************************************************************)
(* Batch for TLC: the ServerHellos are interchangeable.                    *)
(***************************************************************************)
EXTENDS Batch, TLC

Symmetry == Permutations(Ids)
=============================================================================
