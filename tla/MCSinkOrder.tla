------------------------------ MODULE MCSinkOrder ------------------------------
(* Model checking of SinkOrder and, with it, of SourceIdentity. *)
EXTENDS SinkOrder, TLC

\* What a report says matters only by being the same or another.
Interchangeable == Permutations(States)

=============================================================================
