------------------------------- MODULE MCEgress -------------------------------
(* Model checking of Egress. *)
EXTENDS Egress, TLC

\* Processes are interchangeable.
Interchangeable == Permutations(Instances)

=============================================================================
