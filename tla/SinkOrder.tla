-------------------------------- MODULE SinkOrder --------------------------------
(***************************************************************************)
(* What the sink is told of the source identities, and in which order: the *)
(* records of SourceIdentity publish their events into the outbox in their *)
(* own transaction, and dispatch (ingest.py) delivers the outbox sorted by *)
(* the millisecond of the commit and then by event key.  An event key is a *)
(* record id of the gateway's choosing, so that events of one millisecond  *)
(* follow each other in any order.  A crash between a delivery and its     *)
(* mark delivers the event again.                                          *)
(*                                                                         *)
(* The sink of the model acts on the events of an identity that are not    *)
(* flagged late, a refresh or a conflict, and on those that close it: that *)
(* is what a consumer of the flags can do.  What it knows of an identity   *)
(* is the commit of the last of them.                                      *)
(***************************************************************************)
EXTENDS SourceIdentity

CONSTANT MaxNow      \* bound: milliseconds

VARIABLES now, outbox, view

sinkVars == <<now, outbox, view>>
allVars  == <<vars, sinkVars>>

\* An event of an identity: the record or the drop it tells of, and when that was committed.
Event(k, at, closes) == [inc |-> k, at |-> at, closes |-> closes, born |-> now]

SinkInit ==
    /\ Init
    /\ now = 0 /\ outbox = {}
    /\ view = [k \in Incarnations |-> 0]

\* state.publish, for what the step adds to the history, and for what it closes.  The events that
\* the sink passes over (flagged ones) are left out.
Published ==
    {Event(o.report.inc, o.report.at, FALSE) : o \in {o \in history' \ history : o.flag = "none"}}
    \cup {Event(k, identity'[k].tombstone, TRUE) :
             k \in {k \in Incarnations : current[k].contribution = "ACTIVE"
                                          /\ current'[k].contribution = "CLOSED"}}

Ingest ==
    /\ Next
    /\ outbox' = outbox \cup Published
    /\ UNCHANGED <<now, view>>

Tick ==
    /\ now < MaxNow
    /\ now' = now + 1
    /\ UNCHANGED <<vars, outbox, view>>

\* Mutant: the outbox is read without an order.
MutantOldest == outbox

\* SQL_OUTBOX_PENDING: an event of the oldest commit.
Oldest == {e \in outbox : \A f \in outbox : e.born <= f.born}

\* dispatch: the event is delivered, and marked unless the process dies first.
Dispatch ==
    /\ \E e \in Oldest :
          /\ view' = [view EXCEPT ![e.inc] = e.born]
          /\ outbox' \in {outbox, outbox \ {e}}
    /\ UNCHANGED <<vars, now>>

SinkNext == Ingest \/ Tick \/ Dispatch

SinkSpec == SinkInit /\ [][SinkNext]_allVars

-----------------------------------------------------------------------------
\* The sink's view of an identity does not go back to an event of an earlier commit, whatever is
\* delivered twice, is published meanwhile, or waits for its mark (SQL_OUTBOX_PENDING, dispatch).
ViewFollowsCommits ==
    [][\A k \in Incarnations : view'[k] >= view[k]]_allVars

=============================================================================
