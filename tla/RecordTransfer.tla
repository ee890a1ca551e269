---------------------------- MODULE RecordTransfer ----------------------------
(***************************************************************************)
(* What the gateway, the bridge and the sink promise together of a stream  *)
(* of records: an abstract specification without cursors, batches, leases, *)
(* processes or messages.                                                  *)
(*                                                                         *)
(* A published record is settled once, in one step that also queues its    *)
(* event if it has one.  A queued event is taken by the sink, once or      *)
(* again, and crossed off only after that.  The gateway releases a prefix  *)
(* of the records, and of that prefix every record is settled or counted   *)
(* lost.  Nothing settled, lost, queued or taken is ever undone.           *)
(***************************************************************************)
EXTENDS Naturals

VARIABLES published,   \* how many records exist
          released,    \* how many of them, from the first, the gateway no longer holds
          lost,        \* those on the gateway's loss table
          settled,     \* those with a durable disposition at the bridge
          queued,      \* those whose event is in the bridge's outbox
          taken,       \* those whose event the sink holds
          crossedOff   \* those whose event the bridge will not deliver again

vars == <<published, released, lost, settled, queued, taken, crossedOff>>

All == 1 .. published

Init ==
    /\ published = 0 /\ released = 0 /\ lost = {}
    /\ settled = {} /\ queued = {} /\ taken = {} /\ crossedOff = {}

\* The gateway releases records up to some n; those not settled by then are lost.
Release ==
    \E n \in released .. published' :
       /\ released' = n
       /\ \E new \in SUBSET (released + 1 .. n) :
             /\ lost' = lost \cup new
             /\ released + 1 .. n \subseteq settled \cup new

Publish ==
    /\ published' = published + 1
    /\ Release
    /\ UNCHANGED <<settled, queued, taken, crossedOff>>

Retain ==
    /\ Release
    /\ UNCHANGED <<published, settled, queued, taken, crossedOff>>

Settle ==
    \E new \in SUBSET (All \ settled) :
       /\ settled' = settled \cup new
       /\ \E events \in SUBSET new : queued' = queued \cup events
       /\ UNCHANGED <<published, released, lost, taken, crossedOff>>

Take ==
    \E e \in queued :
       /\ taken' = taken \cup {e}
       /\ UNCHANGED <<published, released, lost, settled, queued, crossedOff>>

CrossOff ==
    \E e \in taken :
       /\ crossedOff' = crossedOff \cup {e}
       /\ UNCHANGED <<published, released, lost, settled, queued, taken>>

Next == Publish \/ Retain \/ Settle \/ Take \/ CrossOff

Spec == Init /\ [][Next]_vars

=============================================================================
