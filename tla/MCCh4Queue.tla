------------------------------ MODULE MCCh4Queue ------------------------------
(* Instances of Ch4Queue for TLC. *)
EXTENDS Ch4Queue, TLC

\* Processes, addresses and message contents are each interchangeable.
Symmetry == Permutations(Proc) \cup Permutations(Node) \cup Permutations(Msg)
=============================================================================
