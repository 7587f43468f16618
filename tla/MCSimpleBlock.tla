---------------------------- MODULE MCSimpleBlock ----------------------------
(* Instances of SimpleBlock for TLC. *)
EXTENDS SimpleBlock, TLC

\* One unit brought, or one taken out: the writer programs pass either.
SignedAmounts == {-1, 1}

Symmetry == Permutations(Proc)
=============================================================================
