---------------------------- MODULE MCFieldPool ----------------------------
(* Small instances of the flow-field pool for TLC.                         *)
EXTENDS FieldPool, TLC

\* The movers are interchangeable.
Symmetry == Permutations(Movers)
=============================================================================
