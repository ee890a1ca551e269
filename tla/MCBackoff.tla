------------------------------- MODULE MCBackoff -------------------------------
(* Model checking of Backoff, with the delays of SCHEDULE. *)
EXTENDS Backoff

MCSchedule == <<1, 2, 4, 8, 16, 30>>

=============================================================================
