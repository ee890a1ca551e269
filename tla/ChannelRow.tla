------------------------------ MODULE ChannelRow ------------------------------
(***************************************************************************)
(* The one row of the bridge's `channel` table and the SQL statements that *)
(* change it (store.py).  Each operator below is one UPDATE, applied to a  *)
(* row inside the transaction of the action that runs it; `f` is the fence *)
(* of the writing instance, which every statement stores in the row.       *)
(*                                                                         *)
(* Data that no statement tells apart is abstracted: `incomplete` and the  *)
(* gap bounds are one Boolean (a gap is on record), `state_reason` is kept *)
(* only where the code compares it, and a digest of a refused batch is the *)
(* pair of cursors that delimits the batch.                                *)
(*                                                                         *)
(* Here and in the modules built on this one, an operator named Mutant...  *)
(* is the one that follows it with a bug; no action uses it.  A run in     *)
(* which it takes the other's place must fail (README).                    *)
(***************************************************************************)
EXTENDS Integers

CONSTANT Revisions          \* configuration revisions an operator may deploy

\* SQL NULL of the two cursor columns.
NoCursor == -1

\* The values of `channel.state`.
ChannelStates == {"NORMAL", "INCOMPLETE", "RESYNC_REQUIRED", "STOPPED", "OVERLOADED"}

\* The values of `channel.state_reason` that the bridge compares.
Reasons == {"none", "CURSOR_EXPIRED", "RESET_SCOPE", "CAPACITY_REPORTS", "CAPACITY_IDENTITIES"}

\* No structurally invalid batch is being retried.
NoBatch == <<NoCursor, NoCursor>>

\* The type of the row; Cursors is the set of values a cursor column can hold.
ChannelRows(Cursors) ==
    [cursor: Cursors, acked: Cursors, earliest: Cursors,
     state: ChannelStates, reason: Reasons, incomplete: BOOLEAN,
     degraded: BOOLEAN, committedAny: BOOLEAN, stoppedRevision: Revisions \cup {0},
     retryBatch: Cursors \X Cursors, retryCount: Nat, fence: Nat]

InitialRow ==
    [cursor |-> NoCursor, acked |-> NoCursor, earliest |-> NoCursor,
     state |-> "NORMAL", reason |-> "none", incomplete |-> FALSE,
     degraded |-> FALSE, committedAny |-> FALSE, stoppedRevision |-> 0,
     retryBatch |-> NoBatch, retryCount |-> 0, fence |-> 0]

\* SQL_CHANNEL_CURSOR: the batch that ends at `cursor` is consumed.
MoveCursor(c, cursor, f) ==
    [c EXCEPT !.cursor = cursor, !.committedAny = TRUE,
              !.retryBatch = NoBatch, !.retryCount = 0, !.fence = f]

\* SQL_CHANNEL_ACKED
RecordAcked(c, cursor, f) == [c EXCEPT !.acked = cursor, !.fence = f]

\* SQL_CHANNEL_STATE, which the bridge uses for the caps only.
Overload(c, cap, f) == [c EXCEPT !.state = "OVERLOADED", !.reason = cap, !.fence = f]

\* Mutant: back to NORMAL whatever is on record.
MutantSettle(c, f) == [c EXCEPT !.state = "NORMAL", !.reason = "none", !.fence = f]

\* SQL_CHANNEL_SETTLE: back to NORMAL, or to INCOMPLETE while a gap is on record.
Settle(c, f) ==
    [c EXCEPT !.state = IF c.incomplete THEN "INCOMPLETE" ELSE "NORMAL",
              !.reason = "none", !.fence = f]

\* Mutant: the stop names the next revision.
MutantStop(c, revision, f) ==
    [c EXCEPT !.state = "STOPPED", !.stoppedRevision = revision + 1, !.fence = f]

\* SQL_CHANNEL_STOP
Stop(c, revision, f) ==
    [c EXCEPT !.state = "STOPPED", !.reason = "none",
              !.stoppedRevision = revision, !.fence = f]

\* SQL_CHANNEL_EXPIRED
Expire(c, earliest, f) ==
    [c EXCEPT !.state = "RESYNC_REQUIRED", !.reason = "CURSOR_EXPIRED",
              !.earliest = earliest, !.fence = f]

\* SQL_CHANNEL_RESYNC and SQL_CHANNEL_ACKED, which `resync` runs together.
Resync(c, f) ==
    [c EXCEPT !.cursor = c.earliest, !.acked = c.earliest, !.earliest = NoCursor,
              !.state = "INCOMPLETE", !.reason = "CURSOR_EXPIRED",
              !.incomplete = TRUE, !.fence = f]

\* SQL_CHANNEL_GAP: INCOMPLETE from NORMAL only, and on record in every state.
RecordGap(c, f) ==
    [c EXCEPT !.state = IF c.state = "NORMAL" THEN "INCOMPLETE" ELSE c.state,
              !.incomplete = TRUE, !.fence = f]

\* SQL_CHANNEL_EPOCH (the delivery epoch's number is not modelled).
CloseEpoch(c, f) ==
    [c EXCEPT !.state = "RESYNC_REQUIRED", !.reason = "RESET_SCOPE", !.fence = f]

\* Mutant: whatever holds the channel is cleared.
MutantRecover(c, f) ==
    [c EXCEPT !.state = "NORMAL", !.reason = "none", !.incomplete = FALSE,
              !.degraded = FALSE, !.fence = f]

\* SQL_CHANNEL_RECOVER: clears the gap of an INCOMPLETE channel and nobody else's.
Recover(c, f) ==
    IF c.state = "INCOMPLETE"
      THEN [c EXCEPT !.state = "NORMAL", !.reason = "none", !.incomplete = FALSE,
                     !.degraded = FALSE, !.fence = f]
      ELSE [c EXCEPT !.degraded = FALSE, !.fence = f]

\* SQL_CHANNEL_DEGRADE
Degrade(c, f) == [c EXCEPT !.degraded = TRUE, !.fence = f]

\* SQL_CHANNEL_RETRY
CountRetry(c, batch, n, f) ==
    [c EXCEPT !.retryBatch = batch, !.retryCount = n, !.degraded = TRUE, !.fence = f]

=============================================================================
