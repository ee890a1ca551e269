------------------------------ MODULE GatewayLog ------------------------------
(***************************************************************************)
(* The gateway's side of a channel (gateway/provider.py): a log of records *)
(* numbered from 1, read by cursor, acknowledged by its one consumer and   *)
(* retained for a bounded time and in a bounded space.                     *)
(*                                                                         *)
(* `log` keeps every record ever committed; `floor` says which of them the *)
(* gateway still holds (those above it).  `lost` is the gateway's own loss *)
(* table: the records retention dropped before they were acknowledged.     *)
(* `aged` counts the oldest records whose 24 hours are over.               *)
(*                                                                         *)
(* Every operation of the provider runs under one lock, so each is one     *)
(* step here.  The composing module says when the consumer calls one.      *)
(***************************************************************************)
EXTENDS Integers, Sequences

CONSTANTS Ids,               \* record ids
          Kinds,             \* what a published record turns out to be for the consumer
          MaxHead,           \* bound: records ever published
          MaxSession,        \* bound: delivery sessions
          MaxSequence,       \* bound: no sequence number is skipped from here on
          MaxAged,           \* bound: records that grow older than the retention time
          RetentionRecords,  \* the byte bound, in records of equal size
          FetchLimit         \* records per batch

VARIABLES log, floor, delivered, acked, lost, aged, session, nextSequence

gatewayVars == <<log, floor, delivered, acked, lost, aged, session, nextSequence>>

ASSUME GatewayAssumption ==
    /\ MaxHead \in Nat /\ MaxSession \in Nat \ {0} /\ MaxSequence \in Nat
    /\ MaxAged \in Nat /\ RetentionRecords \in Nat \ {0} /\ FetchLimit \in Nat \ {0}

Positions == 1 .. MaxHead
Sessions  == 1 .. MaxSession
Records   == [id: Ids, kind: Kinds, session: Sessions, sequence: Nat]

GatewayTypeOK ==
    /\ log \in Seq(Records) /\ Len(log) <= MaxHead
    /\ floor \in 0 .. MaxHead /\ delivered \in 0 .. MaxHead /\ acked \in 0 .. MaxHead
    /\ lost \subseteq Positions /\ aged \in 0 .. MaxHead
    /\ session \in Sessions /\ nextSequence \in Nat

GatewayInit ==
    /\ log = << >> /\ floor = 0 /\ delivered = 0 /\ acked = 0 /\ lost = {} /\ aged = 0
    /\ session = 1 /\ nextSequence = 0

-----------------------------------------------------------------------------
\* _retain, run at the end of every publication and acknowledgement and at the start of every
\* read, on the log `l` and the acknowledged position `a`: acknowledged records go without
\* trace, then old ones and those beyond the byte bound, oldest first, each with a loss row.
Later(m, n) == IF m >= n THEN m ELSE n

RetainedFrom(l, a) == Later(Later(floor, a), Later(aged, Len(l) - RetentionRecords))

\* Mutant: only the records that grew too old get a loss row.
MutantRetain(l, a) ==
    /\ floor' = RetainedFrom(l, a)
    /\ lost'  = lost \cup (Later(floor, a) + 1 .. aged)

Retain(l, a) ==
    /\ floor' = RetainedFrom(l, a)
    /\ lost'  = lost \cup (Later(floor, a) + 1 .. RetainedFrom(l, a))

\* publish and _append: a record is committed to the log with the next sequence number.  Two
\* records with one id are two different bodies, for the sequence number is part of the body.
Publish(id, kind) ==
    /\ Len(log) < MaxHead
    /\ log' = Append(log, [id |-> id, kind |-> kind, session |-> session,
                           sequence |-> nextSequence])
    /\ nextSequence' = nextSequence + 1
    /\ Retain(log', acked)
    /\ UNCHANGED <<delivered, acked, aged, session>>

\* new_session: sequence numbers start again from 0.
NewSession ==
    /\ session < MaxSession
    /\ session' = session + 1
    /\ nextSequence' = 0
    /\ UNCHANGED <<log, floor, delivered, acked, lost, aged>>

\* skip_sequence: a sequence number that is never published.
SkipSequence ==
    /\ nextSequence < MaxSequence
    /\ nextSequence' = nextSequence + 1
    /\ UNCHANGED <<log, floor, delivered, acked, lost, aged, session>>

\* Time passes: the next oldest record is older than the retention time.
Age ==
    /\ aged < Len(log) /\ aged < MaxAged
    /\ aged' = aged + 1
    /\ UNCHANGED <<log, floor, delivered, acked, lost, session, nextSequence>>

-----------------------------------------------------------------------------
\* reports, the start of a read: `start` is the position that `after` names, or the floor.
ReadFrom(after) == IF after < 0 THEN RetainedFrom(log, acked) ELSE after

\* reports answers 410: records after `after` are gone.
ReadExpired(after) ==
    /\ ReadFrom(after) < RetainedFrom(log, acked)
    /\ Retain(log, acked)
    /\ UNCHANGED <<log, delivered, acked, aged, session, nextSequence>>

\* A batch that starts after `start` and ends at `end`: as many records as the limit allows,
\* cut where the session changes (_same_session); an empty one when there is nothing to read.
IsBatch(start, end) ==
    /\ end \in start .. Len(log)
    /\ end <= start + FetchLimit
    /\ \A p \in start + 1 .. end : log[p].session = log[start + 1].session
    /\ \/ end = Len(log)
       \/ end = start + FetchLimit
       \/ end < Len(log) /\ log[end + 1].session # log[start + 1].session

\* reports answers 200 with the batch that ends at `end`.
ReadBatch(after, end) ==
    /\ ReadFrom(after) >= RetainedFrom(log, acked)
    /\ IsBatch(ReadFrom(after), end)
    /\ delivered' = IF end > delivered THEN end ELSE delivered
    /\ Retain(log, acked)
    /\ UNCHANGED <<log, acked, aged, session, nextSequence>>

\* ack refuses a position it has not delivered (CURSOR_FUTURE).
AckAccepted(position) == position <= delivered

\* ack: the records up to `position` are the consumer's; repeated or older calls change nothing.
Acknowledge(position) ==
    /\ AckAccepted(position)
    /\ IF position > acked
         THEN acked' = position /\ Retain(log, position)
         ELSE UNCHANGED <<acked, floor, lost>>
    /\ UNCHANGED <<log, delivered, aged, session, nextSequence>>

=============================================================================
