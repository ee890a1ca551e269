---------------------------- MODULE MCBridgeIngest ----------------------------
(* Model checking of BridgeIngest. *)
EXTENDS BridgeIngest, TLC

\* Processes and record ids are interchangeable.
Interchangeable == Permutations(Instances) \cup Permutations(Ids)

=============================================================================
