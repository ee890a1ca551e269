-------------------------- MODULE BridgeIngest_Proofs --------------------------
(***************************************************************************)
(* Proofs about BridgeIngest, for any number of processes, records, faults *)
(* and restarts: its type correctness, the promises about records, gaps,   *)
(* events and fences, and the transfer of records as a whole.              *)
(***************************************************************************)
EXTENDS BridgeIngest, FiniteSetTheorems, TLAPS

-----------------------------------------------------------------------------
(***************************************************************************)
(* Type correctness of BridgeIngest, for any number of processes, records, *)
(* faults and restarts.                                                    *)
(*                                                                         *)
(* TypeOK is not inductive: that a position named by the store, a process  *)
(* or a message exists in the log needs bounds by the log's length.  Typed *)
(* adds them, part by part; each part has a lemma that every step keeps    *)
(* it, and the theorem combines the four.                                  *)
(***************************************************************************)

-----------------------------------------------------------------------------
\* What the statements of the channel row return.

\* Two rows agree on what a cursor column says.
SameCursors(r, c) == r.cursor = c.cursor /\ r.acked = c.acked /\ r.earliest = c.earliest

\* A cursor column can be NULL.
LEMMA NullCursor == NoCursor \in Cursors
BY GatewayAssumption DEF Cursors, NoCursor

\* Every UPDATE that no cursor is an argument of yields a row, and all but `resync` keep the
\* three cursor columns (ChannelRow, store.py's SQL_CHANNEL_*).
LEMMA RowFacts ==
    ASSUME NEW c \in ChannelRows(Cursors), NEW f \in Nat
    PROVE  /\ Settle(c, f) \in ChannelRows(Cursors) /\ SameCursors(Settle(c, f), c)
           /\ RecordGap(c, f) \in ChannelRows(Cursors) /\ SameCursors(RecordGap(c, f), c)
           /\ CloseEpoch(c, f) \in ChannelRows(Cursors) /\ SameCursors(CloseEpoch(c, f), c)
           /\ Recover(c, f) \in ChannelRows(Cursors) /\ SameCursors(Recover(c, f), c)
           /\ Degrade(c, f) \in ChannelRows(Cursors) /\ SameCursors(Degrade(c, f), c)
           /\ Resync(c, f) \in ChannelRows(Cursors)
           /\ Resync(c, f).cursor = c.earliest /\ Resync(c, f).acked = c.earliest
           /\ Resync(c, f).earliest = NoCursor
<1>1. Settle(c, f) \in ChannelRows(Cursors) /\ SameCursors(Settle(c, f), c)
  BY DEF ChannelRows, Settle, ChannelStates, Reasons, SameCursors
<1>2. RecordGap(c, f) \in ChannelRows(Cursors) /\ SameCursors(RecordGap(c, f), c)
  BY DEF ChannelRows, RecordGap, ChannelStates, Reasons, SameCursors
<1>3. CloseEpoch(c, f) \in ChannelRows(Cursors) /\ SameCursors(CloseEpoch(c, f), c)
  BY DEF ChannelRows, CloseEpoch, ChannelStates, Reasons, SameCursors
<1>4. Recover(c, f) \in ChannelRows(Cursors) /\ SameCursors(Recover(c, f), c)
  <2>1. CASE c.state = "INCOMPLETE"
    BY <2>1 DEF ChannelRows, Recover, ChannelStates, Reasons, SameCursors
  <2>2. CASE c.state # "INCOMPLETE"
    BY <2>2 DEF ChannelRows, Recover, SameCursors
  <2>3. QED
    BY <2>1, <2>2
<1>5. Degrade(c, f) \in ChannelRows(Cursors) /\ SameCursors(Degrade(c, f), c)
  BY DEF ChannelRows, Degrade, SameCursors
<1>6. /\ Resync(c, f) \in ChannelRows(Cursors)
      /\ Resync(c, f).cursor = c.earliest /\ Resync(c, f).acked = c.earliest
      /\ Resync(c, f).earliest = NoCursor
  BY NullCursor DEF ChannelRows, Resync, ChannelStates, Reasons
<1>7. QED
  BY <1>1, <1>2, <1>3, <1>4, <1>5, <1>6

\* The same of those that move a cursor column (SQL_CHANNEL_CURSOR, ACKED, EXPIRED).
LEMMA CursorRowFacts ==
    ASSUME NEW c \in ChannelRows(Cursors), NEW f \in Nat, NEW x \in Cursors
    PROVE  /\ MoveCursor(c, x, f) \in ChannelRows(Cursors)
           /\ MoveCursor(c, x, f).cursor = x /\ MoveCursor(c, x, f).acked = c.acked
           /\ MoveCursor(c, x, f).earliest = c.earliest
           /\ RecordAcked(c, x, f) \in ChannelRows(Cursors)
           /\ RecordAcked(c, x, f).cursor = c.cursor /\ RecordAcked(c, x, f).acked = x
           /\ RecordAcked(c, x, f).earliest = c.earliest
           /\ Expire(c, x, f) \in ChannelRows(Cursors)
           /\ Expire(c, x, f).cursor = c.cursor /\ Expire(c, x, f).acked = c.acked
           /\ Expire(c, x, f).earliest = x
<1>1. /\ MoveCursor(c, x, f) \in ChannelRows(Cursors)
      /\ MoveCursor(c, x, f).cursor = x /\ MoveCursor(c, x, f).acked = c.acked
      /\ MoveCursor(c, x, f).earliest = c.earliest
  BY NullCursor DEF ChannelRows, MoveCursor, NoBatch
<1>2. /\ RecordAcked(c, x, f) \in ChannelRows(Cursors)
      /\ RecordAcked(c, x, f).cursor = c.cursor /\ RecordAcked(c, x, f).acked = x
      /\ RecordAcked(c, x, f).earliest = c.earliest
  BY DEF ChannelRows, RecordAcked
<1>3. /\ Expire(c, x, f) \in ChannelRows(Cursors)
      /\ Expire(c, x, f).cursor = c.cursor /\ Expire(c, x, f).acked = c.acked
      /\ Expire(c, x, f).earliest = x
  BY DEF ChannelRows, Expire, ChannelStates, Reasons
<1>4. QED
  BY <1>1, <1>2, <1>3

\* The same of those that hold the channel (SQL_CHANNEL_STATE, STOP, RETRY).
LEMMA HoldRowFacts ==
    ASSUME NEW c \in ChannelRows(Cursors), NEW f \in Nat
    PROVE  /\ \A cap \in {"CAPACITY_REPORTS", "CAPACITY_IDENTITIES"} :
                 Overload(c, cap, f) \in ChannelRows(Cursors) /\ SameCursors(Overload(c, cap, f), c)
           /\ \A r \in Revisions :
                 Stop(c, r, f) \in ChannelRows(Cursors) /\ SameCursors(Stop(c, r, f), c)
           /\ \A b \in Cursors \X Cursors, n \in Nat :
                 CountRetry(c, b, n, f) \in ChannelRows(Cursors)
                 /\ SameCursors(CountRetry(c, b, n, f), c)
<1>1. \A cap \in {"CAPACITY_REPORTS", "CAPACITY_IDENTITIES"} :
         Overload(c, cap, f) \in ChannelRows(Cursors) /\ SameCursors(Overload(c, cap, f), c)
  BY DEF ChannelRows, Overload, ChannelStates, Reasons, SameCursors
<1>2. \A r \in Revisions :
         Stop(c, r, f) \in ChannelRows(Cursors) /\ SameCursors(Stop(c, r, f), c)
  BY DEF ChannelRows, Stop, ChannelStates, Reasons, SameCursors
<1>3. \A b \in Cursors \X Cursors, n \in Nat :
         CountRetry(c, b, n, f) \in ChannelRows(Cursors) /\ SameCursors(CountRetry(c, b, n, f), c)
  BY DEF ChannelRows, CountRetry, SameCursors
<1>4. QED
  BY <1>1, <1>2, <1>3

-----------------------------------------------------------------------------
\* Types and bounds.

\* What keeps every position that the gateway, the store, a process or a message names inside
\* the log: the strengthening that makes the types inductive.
GatewayFits ==
    floor <= Len(log) /\ delivered <= Len(log) /\ acked <= Len(log) /\ aged <= Len(log)

StoreFits ==
    chan.cursor <= Len(log) /\ chan.acked <= Len(log) /\ chan.earliest <= Len(log)

\* Where a process has a batch to commit or to acknowledge.
WithBatch == {"got", "consumed", "committed"}

ProcessFits ==
    \A i \in Instances :
       /\ refetch[i] <= Len(log) /\ from[i] <= Len(log) /\ upto[i] <= Len(log)
       /\ pc[i] \in WithBatch => from[i] >= 0 /\ upto[i] >= 0
       /\ pc[i] = "mark" => event[i] > 0

OuterFits == \A n \in ackCalls : n <= Len(log)

GatewayPart == GatewayTypeOK /\ GatewayFits
StorePart   == StoreTypeOK /\ StoreFits
ProcessPart == ProcessTypeOK /\ ProcessFits
OuterPart   == OuterTypeOK /\ OuterFits

Typed == GatewayPart /\ StorePart /\ ProcessPart /\ OuterPart

\* Retention moves the floor up, past what is acknowledged and never past the log's end.
LEMMA RetainedFromFacts ==
    ASSUME GatewayTypeOK, NEW l \in Seq(Records), Len(l) <= MaxHead, NEW a \in 0 .. MaxHead
    PROVE  /\ RetainedFrom(l, a) \in 0 .. MaxHead
           /\ floor <= RetainedFrom(l, a) /\ a <= RetainedFrom(l, a)
           /\ floor <= Len(l) /\ a <= Len(l) /\ aged <= Len(l) => RetainedFrom(l, a) <= Len(l)
BY GatewayAssumption DEF GatewayTypeOK, RetainedFrom, Later

\* A read starts at a position of the log.
LEMMA ReadFromFacts ==
    ASSUME GatewayPart, NEW after \in Cursors, after <= Len(log)
    PROVE  /\ RetainedFrom(log, acked) \in 0 .. MaxHead
           /\ RetainedFrom(log, acked) <= Len(log)
           /\ ReadFrom(after) \in 0 .. MaxHead
           /\ ReadFrom(after) <= Len(log)
BY RetainedFromFacts, GatewayAssumption
   DEF GatewayPart, GatewayTypeOK, GatewayFits, ReadFrom, Cursors, NoCursor

-----------------------------------------------------------------------------
\* The gateway's part.

\* Retention leaves the floor in the log and records losses at its positions.
LEMMA RetainTyped ==
    ASSUME GatewayPart, NEW l \in Seq(Records), Len(l) <= MaxHead, Len(log) <= Len(l),
           NEW a \in 0 .. MaxHead, a <= Len(l), Retain(l, a)
    PROVE  /\ floor' \in 0 .. MaxHead /\ floor' <= Len(l)
           /\ lost' \subseteq Positions
<1>1. /\ GatewayTypeOK /\ GatewayFits
  BY DEF GatewayPart
<1>2. /\ RetainedFrom(l, a) \in 0 .. MaxHead /\ RetainedFrom(l, a) <= Len(l)
  <2>1. floor <= Len(l) /\ a <= Len(l) /\ aged <= Len(l)
    BY <1>1, GatewayAssumption DEF GatewayFits, GatewayTypeOK
  <2>2. QED
    BY <1>1, <2>1, RetainedFromFacts
<1>3. Later(floor, a) \in 0 .. MaxHead
  BY <1>1 DEF Later, GatewayTypeOK
<1>4. Later(floor, a) + 1 .. RetainedFrom(l, a) \subseteq Positions
  BY <1>2, <1>3, GatewayAssumption DEF Positions
<1>5. QED
  BY <1>1, <1>2, <1>4 DEF Retain, GatewayTypeOK

\* Each operation of the provider keeps its part and never shortens the log: a publication,
LEMMA PublishTyped ==
    ASSUME GatewayPart, NEW id \in Ids, NEW kind \in Kinds, Publish(id, kind)
    PROVE  GatewayPart' /\ Len(log) <= Len(log')
<1> DEFINE r == [id |-> id, kind |-> kind, session |-> session, sequence |-> nextSequence]
<1>1. GatewayTypeOK /\ GatewayFits /\ log' = Append(log, r) /\ Len(log) < MaxHead
  BY DEF GatewayPart, Publish
<1>2. r \in Records
  BY <1>1 DEF Records, GatewayTypeOK
<1>3. /\ log' \in Seq(Records) /\ Len(log') = Len(log) + 1 /\ Len(log') <= MaxHead
      /\ Len(log) \in Nat
  BY <1>1, <1>2, GatewayAssumption DEF GatewayTypeOK
<1>4. Retain(log', acked)
  BY DEF Publish
<1>5. acked \in 0 .. MaxHead /\ acked <= Len(log')
  BY <1>1, <1>3, GatewayAssumption DEF GatewayTypeOK, GatewayFits
<1>6. floor' \in 0 .. MaxHead /\ floor' <= Len(log') /\ lost' \subseteq Positions
  BY <1>3, <1>4, <1>5, RetainTyped
<1>7. QED
  BY <1>1, <1>3, <1>6, GatewayAssumption DEF Publish, GatewayPart, GatewayTypeOK, GatewayFits

\* a session, a skipped sequence number or time,
LEMMA ProviderTyped ==
    ASSUME GatewayPart, NewSession \/ SkipSequence \/ Age
    PROVE  GatewayPart' /\ Len(log) <= Len(log')
<1>1. CASE NewSession
  BY <1>1, GatewayAssumption DEF GatewayPart, GatewayTypeOK, GatewayFits, NewSession, Sessions
<1>2. CASE SkipSequence
  BY <1>2 DEF GatewayPart, GatewayTypeOK, GatewayFits, SkipSequence
<1>3. CASE Age
  BY <1>3, GatewayAssumption DEF GatewayPart, GatewayTypeOK, GatewayFits, Age
<1>4. QED
  BY <1>1, <1>2, <1>3

\* a read that answers 410 or a batch,
LEMMA ReadTyped ==
    ASSUME GatewayPart, NEW after \in Cursors, after <= Len(log),
           ReadExpired(after) \/ \E end \in 0 .. Len(log) : ReadBatch(after, end)
    PROVE  GatewayPart' /\ Len(log) <= Len(log') /\ floor' \in 0 .. MaxHead /\ log' = log
<1>1. GatewayTypeOK /\ GatewayFits /\ Retain(log, acked) /\ log' = log /\ acked' = acked
  BY DEF GatewayPart, ReadExpired, ReadBatch
<1>2. floor' \in 0 .. MaxHead /\ floor' <= Len(log) /\ lost' \subseteq Positions
  BY <1>1, RetainTyped, GatewayAssumption DEF GatewayTypeOK, GatewayFits, GatewayPart
<1>3. delivered' \in 0 .. MaxHead /\ delivered' <= Len(log)
  BY <1>1, GatewayAssumption DEF ReadExpired, ReadBatch, GatewayTypeOK, GatewayFits
<1>4. QED
  BY <1>1, <1>2, <1>3, GatewayAssumption
     DEF ReadExpired, ReadBatch, GatewayPart, GatewayTypeOK, GatewayFits

\* and an acknowledgement.
LEMMA AcknowledgeTyped ==
    ASSUME GatewayPart, NEW position \in Cursors, Acknowledge(position)
    PROVE  GatewayPart' /\ Len(log) <= Len(log') /\ log' = log
<1>1. GatewayTypeOK /\ GatewayFits /\ log' = log /\ position <= delivered
  BY DEF GatewayPart, Acknowledge, AckAccepted
<1>2. CASE position > acked
  <2>1. position \in 0 .. MaxHead /\ position <= Len(log)
    BY <1>1, <1>2, GatewayAssumption DEF GatewayTypeOK, GatewayFits, Cursors, NoCursor
  <2>2. floor' \in 0 .. MaxHead /\ floor' <= Len(log) /\ lost' \subseteq Positions
    BY <1>1, <1>2, <2>1, RetainTyped, GatewayAssumption DEF Acknowledge, GatewayTypeOK
  <2>3. QED
    BY <1>1, <1>2, <2>1, <2>2 DEF Acknowledge, GatewayPart, GatewayTypeOK, GatewayFits
<1>3. CASE ~(position > acked)
  BY <1>1, <1>3, GatewayAssumption DEF Acknowledge, GatewayPart, GatewayTypeOK, GatewayFits
<1>4. QED
  BY <1>2, <1>3

\* A process reaches the gateway's state by three calls only.
LEMMA OnlyThreeCalls ==
    ASSUME NEW i \in Instances, Pass(i) \/ Life(i),
           ~(FetchBatch(i) \/ FetchExpired(i) \/ AckAnswered(i))
    PROVE  UNCHANGED gatewayVars
<1>1. CASE Pass(i)
  BY <1>1 DEF Pass, Renew, SkipFetch, Ask, FetchUnanswered, FetchRefused, Process, ProcessStops,
     ProcessCapped, RecordExpired, StopChannel, RecordGarbled, RecordCap, ClearCap, RecordAck,
     RecordRefusal, AckUnanswered, AckRefused, Housekeep, Deliver, EndDispatch, Mark,
     LoseLease, CommitFails
<1>2. CASE Life(i)
  BY <1>2 DEF Life, StartAcquire, StartBlocked, StartFinish, Close, Crash
<1>3. QED
  BY <1>1, <1>2

\* What the gateway holds: only its own operations, two kinds of read and an acknowledgement
\* change it.
LEMMA GatewayStep ==
    ASSUME Typed, [Next]_vars
    PROVE  GatewayPart' /\ Len(log) <= Len(log')
<1> USE DEF Typed
<1>0. /\ Len(log) \in Nat
      /\ \A i \in Instances : from[i] \in Cursors /\ upto[i] \in Cursors /\ from[i] <= Len(log)
      /\ ackCalls \subseteq Cursors
  BY GatewayAssumption DEF GatewayPart, GatewayTypeOK, ProcessPart, ProcessTypeOK, ProcessFits,
     OuterPart, OuterTypeOK, Cursors, NoCursor
<1>1. CASE UNCHANGED gatewayVars
  BY <1>0, <1>1 DEF gatewayVars, GatewayPart, GatewayTypeOK, GatewayFits
<1>2. ASSUME NEW i \in Instances, FetchBatch(i) \/ FetchExpired(i)
      PROVE  GatewayPart' /\ Len(log) <= Len(log')
  BY <1>0, <1>2, ReadTyped DEF FetchBatch, FetchExpired
<1>3. ASSUME NEW i \in Instances, AckAnswered(i)
      PROVE  GatewayPart' /\ Len(log) <= Len(log')
  BY <1>0, <1>3, AcknowledgeTyped DEF AckAnswered
<1>4. CASE AckArrives
  BY <1>0, <1>4, AcknowledgeTyped DEF AckArrives
<1>5. CASE Gateway
  BY <1>5, PublishTyped, ProviderTyped DEF Gateway
<1>6. ASSUME NEW i \in Instances, Pass(i) \/ Life(i),
             ~(FetchBatch(i) \/ FetchExpired(i) \/ AckAnswered(i))
      PROVE  UNCHANGED gatewayVars
  BY <1>6, OnlyThreeCalls
<1>8. ASSUME LeaseExpires \/ Operations
      PROVE  UNCHANGED gatewayVars
  BY <1>8 DEF LeaseExpires, Operations, RecoverRecord, ResyncRecord, ResyncIdentities,
     OperatorRecord, Reconfigure
<1>9. CASE UNCHANGED vars
  BY <1>1, <1>9 DEF vars
<1>10. QED
  BY <1>1, <1>2, <1>3, <1>4, <1>5, <1>6, <1>8, <1>9 DEF Next

-----------------------------------------------------------------------------
\* The processes' part.

\* A process that only moves on keeps its part.
LEMMA GotoTyped ==
    ASSUME ProcessPart, NEW i \in Instances, NEW label \in PCs \ (WithBatch \cup {"mark"}), Goto(i, label),
           UNCHANGED <<lifeVars, passVars>>, UNCHANGED log
    PROVE  ProcessPart'
BY DEF ProcessPart, ProcessTypeOK, ProcessFits, WithBatch, Goto, lifeVars, passVars

\* So does one whose pass ends.
LEMMA EndPassTyped ==
    ASSUME ProcessPart, NEW i \in Instances, NEW label \in PCs \ (WithBatch \cup {"mark"}), EndPass(i, label),
           UNCHANGED lifeVars, UNCHANGED log, log \in Seq(Records)
    PROVE  ProcessPart'
BY GatewayAssumption
   DEF ProcessPart, ProcessTypeOK, ProcessFits, WithBatch, EndPass, Goto, lifeVars, Cursors, NoCursor

\* And one that is gone.
LEMMA ForgetTyped ==
    ASSUME ProcessPart, NEW i \in Instances, Forget(i), UNCHANGED log, log \in Seq(Records)
    PROVE  ProcessPart'
BY GatewayAssumption, IngestAssumption
   DEF ProcessPart, ProcessTypeOK, ProcessFits, WithBatch, Forget, EndPass, Goto, Cursors, NoCursor,
       NoRefetch, PCs

\* A process's own steps.
LEMMA PassTyped ==
    ASSUME Typed, NEW i \in Instances, Pass(i) \/ Life(i)
    PROVE  ProcessPart' /\ log' = log
<1> USE DEF Typed
<1>0. /\ ProcessPart /\ log \in Seq(Records) /\ chan \in ChannelRows(Cursors)
      /\ chan.cursor <= Len(log) /\ chan.acked <= Len(log) /\ Len(log) \in 0 .. MaxHead
      /\ outbox \subseteq Positions /\ lease.fence \in 0 .. MaxFence
      /\ from[i] \in Cursors /\ from[i] <= Len(log) /\ revision \in Revisions
  BY GatewayAssumption DEF GatewayPart, GatewayTypeOK, StorePart, StoreTypeOK, StoreFits,
     ProcessPart, ProcessTypeOK, ProcessFits, OuterPart, OuterTypeOK
<1>1. CASE StartAcquire(i)
  BY <1>0, <1>1, IngestAssumption DEF StartAcquire, Acquire, Spare, Goto, ProcessPart,
     ProcessTypeOK, ProcessFits, WithBatch, PCs, gatewayVars, passVars
<1>2. CASE StartBlocked(i)
  BY <1>0, <1>2, GotoTyped DEF StartBlocked, gatewayVars, PCs, WithBatch
<1>3. CASE StartFinish(i)
  <2>1. chan.acked \in Cursors
    BY <1>0 DEF ChannelRows
  <2>2. NoRefetch <= Len(log)
    BY <1>0 DEF NoRefetch, NoCursor
  <2>3. QED
    BY <1>0, <1>3, <2>1, <2>2 DEF StartFinish, Goto, ProcessPart,
       ProcessTypeOK, ProcessFits, WithBatch, PCs, gatewayVars, passVars
<1>4. CASE Close(i) \/ Crash(i)
  BY <1>0, <1>4, ForgetTyped DEF Close, Crash, gatewayVars
<1>5. CASE Renew(i)
  <2>1. /\ log' = log /\ UNCHANGED <<rev, refetch, passVars>>
        /\ Goto(i, "renewed") \/ Goto(i, "blocked")
        /\ \/ UNCHANGED fence
           \/ fence' = [fence EXCEPT ![i] = lease.fence + 1] /\ lease.fence < MaxFence
    BY <1>5 DEF Renew, Acquire, Spare, gatewayVars
  <2>2. CASE UNCHANGED fence
    BY <1>0, <2>1, <2>2, GotoTyped DEF lifeVars, PCs, WithBatch
  <2>3. CASE fence' = [fence EXCEPT ![i] = lease.fence + 1] /\ lease.fence < MaxFence
    <3>1. lease.fence + 1 \in 0 .. MaxFence
      BY <1>0, <2>3, IngestAssumption
    <3>2. ProcessTypeOK'
      BY <1>0, <2>1, <2>3, <3>1 DEF Goto, ProcessPart, ProcessTypeOK, PCs, passVars
    <3>3. UNCHANGED <<refetch, from, upto, event>>
      BY <2>1 DEF passVars
    <3>4. ProcessFits'
      BY <1>0, <2>1, <3>3 DEF Goto, ProcessPart, ProcessTypeOK, ProcessFits, WithBatch
    <3>5. QED
      BY <2>1, <3>2, <3>4 DEF ProcessPart
  <2>4. QED
    BY <2>1, <2>2, <2>3
<1>6. CASE SkipFetch(i) \/ FetchRefused(i) \/ ProcessStops(i) \/ ProcessCapped(i)
           \/ AckAnswered(i) \/ AckUnanswered(i) \/ AckRefused(i)
  <2>1. log' = log
    BY <1>6 DEF SkipFetch, FetchRefused, ProcessStops, ProcessCapped, AckAnswered,
       AckUnanswered, AckRefused, Acknowledge, gatewayVars
  <2>2. QED
    BY <1>0, <1>6, <2>1, GotoTyped DEF SkipFetch, FetchRefused, ProcessStops, ProcessCapped,
       AckAnswered, AckUnanswered, AckRefused, PCs, WithBatch
<1>7. CASE Ask(i)
  <2>1. /\ chan.cursor \in Cursors
        /\ refetch[i] # NoRefetch => refetch[i] \in Cursors /\ refetch[i] <= Len(log)
    BY <1>0 DEF ChannelRows, ProcessPart, ProcessTypeOK, ProcessFits
  <2> DEFINE n == IF refetch[i] # NoRefetch THEN refetch[i] ELSE chan.cursor
  <2>2. n \in Cursors /\ n <= Len(log)
    BY <1>0, <2>1
  <2>3. /\ pc' = [pc EXCEPT ![i] = "asking"] /\ from' = [from EXCEPT ![i] = n]
        /\ UNCHANGED <<fence, rev, refetch, upto, todo, event, log>>
    BY <1>7 DEF Ask, Goto, gatewayVars, lifeVars
  <2> HIDE DEF n
  <2>4. ProcessTypeOK'
    BY <1>0, <2>2, <2>3 DEF ProcessPart, ProcessTypeOK, PCs
  <2>5. ProcessFits'
    BY <1>0, <2>2, <2>3 DEF ProcessPart, ProcessTypeOK, ProcessFits, WithBatch
  <2>6. QED
    BY <2>3, <2>4, <2>5 DEF ProcessPart
<1>8. CASE FetchBatch(i)
  <2>1. /\ ReadFrom(from[i]) \in Cursors /\ ReadFrom(from[i]) >= 0
        /\ ReadFrom(from[i]) <= Len(log)
    <3>1. ReadFrom(from[i]) \in 0 .. MaxHead /\ ReadFrom(from[i]) <= Len(log)
      BY <1>0, ReadFromFacts
    <3>2. QED
      BY <3>1, GatewayAssumption DEF Cursors, NoCursor
  <2>2. PICK end \in 0 .. Len(log) : /\ ReadBatch(from[i], end)
                                     /\ upto' = [upto EXCEPT ![i] = end]
    BY <1>8 DEF FetchBatch
  <2>3. end \in Cursors /\ end >= 0 /\ log' = log
    BY <1>0, <2>2, GatewayAssumption DEF Cursors, NoCursor, ReadBatch
  <2>4. QED
    <3>1. /\ from' = [from EXCEPT ![i] = ReadFrom(from[i])]
          /\ Goto(i, "got") \/ Goto(i, "garbled")
          /\ UNCHANGED <<lifeVars, todo, event>>
      BY <1>8 DEF FetchBatch
    <3>2. ProcessTypeOK'
      BY <1>0, <2>1, <2>2, <2>3, <3>1 DEF Goto, ProcessPart, ProcessTypeOK, PCs, lifeVars
    <3>3. ProcessFits'
      BY <1>0, <2>1, <2>2, <2>3, <3>1
         DEF Goto, ProcessPart, ProcessTypeOK, ProcessFits, WithBatch, lifeVars
    <3>4. QED
      BY <2>3, <3>2, <3>3 DEF ProcessPart
<1>9. CASE FetchExpired(i)
  <2>1. floor' \in Cursors /\ floor' <= Len(log) /\ log' = log
    BY <1>0, <1>9, ReadTyped, GatewayAssumption
       DEF FetchExpired, Cursors, NoCursor, GatewayPart, GatewayFits
  <2>2. QED
    BY <1>0, <1>9, <2>1 DEF FetchExpired, Goto, ProcessPart,
       ProcessTypeOK, ProcessFits, WithBatch, PCs, lifeVars
<1>10. CASE FetchUnanswered(i) \/ EndDispatch(i)
  BY <1>0, <1>10, EndPassTyped DEF FetchUnanswered, EndDispatch, gatewayVars, PCs, WithBatch
<1>11. CASE Process(i)
  <2>1. /\ log' = log /\ UNCHANGED <<fence, rev, passVars>> /\ pc[i] = "got"
        /\ refetch' = [refetch EXCEPT ![i] = NoRefetch]
        /\ Goto(i, "consumed") \/ Goto(i, "committed")
    BY <1>11 DEF Process, gatewayVars
  <2>2. UNCHANGED <<from, upto, todo, event>> /\ NoRefetch <= Len(log)
    BY <1>0, <2>1 DEF passVars, NoRefetch, NoCursor
  <2>3. ProcessTypeOK'
    BY <1>0, <2>1, <2>2 DEF Goto, ProcessPart, ProcessTypeOK, PCs
  <2>4. ProcessFits'
    BY <1>0, <2>1, <2>2 DEF Goto, ProcessPart, ProcessTypeOK, ProcessFits, WithBatch
  <2>5. QED
    BY <2>1, <2>3, <2>4 DEF ProcessPart
<1>12. CASE RecordExpired(i) \/ StopChannel(i) \/ RecordGarbled(i) \/ RecordCap(i)
            \/ RecordAck(i)
  <2>1. /\ log' = log /\ UNCHANGED lifeVars
        /\ \/ EndPass(i, "idle")
           \/ \E next \in {"stopping", "house"} : Goto(i, next) /\ UNCHANGED passVars
    BY <1>12 DEF RecordExpired, StopChannel, RecordGarbled, RecordCap, RecordAck,
       RecordRefusal, gatewayVars
  <2>2. QED
    BY <1>0, <2>1, EndPassTyped, GotoTyped DEF PCs, WithBatch
<1>13. CASE ClearCap(i)
  <2>1. /\ log' = log /\ UNCHANGED <<refetch, fence, rev, from, upto, todo, event>>
        /\ pc[i] = "consumed" /\ Goto(i, "committed")
    BY <1>13 DEF ClearCap, RecordRefusal, gatewayVars, lifeVars, passVars
  <2>2. ProcessTypeOK'
    BY <1>0, <2>1 DEF Goto, ProcessPart, ProcessTypeOK, PCs
  <2>3. ProcessFits'
    BY <1>0, <2>1 DEF Goto, ProcessPart, ProcessTypeOK, ProcessFits, WithBatch
  <2>4. QED
    BY <2>1, <2>2, <2>3 DEF ProcessPart
<1>14. CASE Housekeep(i) \/ Deliver(i) \/ Mark(i)
  <2>1. /\ log' = log /\ UNCHANGED <<lifeVars, from, upto>>
        /\ \/ Goto(i, "dispatch") /\ (event' = event \/ event' = [event EXCEPT ![i] = 0])
           \/ Goto(i, "mark") /\ \E e \in Positions : event' = [event EXCEPT ![i] = e]
        /\ \E rest \in SUBSET Positions : todo' = [todo EXCEPT ![i] = rest] \/ todo' = todo
        /\ \E e \in 0 .. MaxHead : event' = [event EXCEPT ![i] = e] \/ event' = event
    <3>1. todo[i] \in SUBSET Positions /\ Positions \subseteq 0 .. MaxHead /\ 0 \in 0 .. MaxHead
      BY <1>0, GatewayAssumption DEF ProcessPart, ProcessTypeOK, Positions
    <3>2. CASE Housekeep(i)
      BY <1>0, <3>1, <3>2 DEF Housekeep, Pending, gatewayVars
    <3>3. CASE Deliver(i)
      <4>1. PICK e \in todo[i] : /\ event' = [event EXCEPT ![i] = e]
                                 /\ todo' = [todo EXCEPT ![i] = @ \ {e}]
        BY <3>3 DEF Deliver
      <4>2. todo' = [todo EXCEPT ![i] = todo[i] \ {e}] /\ todo[i] \ {e} \in SUBSET Positions
        BY <3>1, <4>1
      <4>3. QED
        BY <3>1, <3>3, <4>1, <4>2 DEF Deliver, gatewayVars
    <3>4. CASE Mark(i)
      BY <3>1, <3>4 DEF Mark, gatewayVars
    <3>5. QED
      BY <1>14, <3>2, <3>3, <3>4
  <2>2. todo' \in [Instances -> SUBSET Positions] /\ event' \in [Instances -> 0 .. MaxHead]
    <3>1. todo \in [Instances -> SUBSET Positions] /\ event \in [Instances -> 0 .. MaxHead]
      BY <1>0 DEF ProcessPart, ProcessTypeOK
    <3>2. \A rest \in SUBSET Positions :
             [todo EXCEPT ![i] = rest] \in [Instances -> SUBSET Positions]
      BY <3>1
    <3>3. \A e \in 0 .. MaxHead : [event EXCEPT ![i] = e] \in [Instances -> 0 .. MaxHead]
      BY <3>1
    <3>4. QED
      BY <2>1, <3>1, <3>2, <3>3
  <2>3. ProcessTypeOK'
    BY <1>0, <2>1, <2>2 DEF Goto, ProcessPart, ProcessTypeOK, PCs, lifeVars
  <2>4. ProcessFits'
    <3>1. UNCHANGED <<refetch, from, upto, log>> /\ ProcessTypeOK /\ ProcessFits
      BY <1>0, <2>1 DEF lifeVars, ProcessPart
    <3>2. CASE Goto(i, "dispatch") /\ (event' = event \/ event' = [event EXCEPT ![i] = 0])
      BY <3>1, <3>2 DEF Goto, ProcessTypeOK, ProcessFits, WithBatch
    <3>3. CASE Goto(i, "mark") /\ \E e \in Positions : event' = [event EXCEPT ![i] = e]
      BY <3>1, <3>3 DEF Goto, ProcessTypeOK, ProcessFits, WithBatch, Positions
    <3>4. QED
      BY <2>1, <3>2, <3>3
  <2>5. QED
    BY <2>1, <2>3, <2>4 DEF ProcessPart
<1>15. CASE LoseLease(i) \/ CommitFails(i)
  <2>1. /\ log' = log
        /\ \/ Forget(i)
           \/ UNCHANGED lifeVars /\ (EndPass(i, "idle") \/ EndPass(i, "blocked"))
    BY <1>15 DEF LoseLease, CommitFails, gatewayVars
  <2>2. QED
    BY <1>0, <2>1, EndPassTyped, ForgetTyped DEF PCs, WithBatch
<1>16. QED
  BY <1>1, <1>2, <1>3, <1>4, <1>5, <1>6, <1>7, <1>8, <1>9, <1>10, <1>11, <1>12, <1>13, <1>14,
     <1>15 DEF Pass, Life

\* The processes' part is kept by every step.
LEMMA ProcessStep ==
    ASSUME Typed, [Next]_vars
    PROVE  ProcessPart'
<1>1. CASE \E i \in Instances : Pass(i) \/ Life(i)
  BY <1>1, PassTyped
<1>2. ASSUME UNCHANGED processVars
      PROVE  ProcessPart'
  <2>1. Len(log) <= Len(log') /\ Len(log) \in Nat /\ Len(log') \in Nat
    BY GatewayStep DEF Typed, GatewayPart, GatewayTypeOK
  <2>2. QED
    <3>1. ProcessTypeOK'
      BY <1>2 DEF Typed, ProcessPart, processVars, ProcessTypeOK
    <3>2. \A i \in Instances : /\ refetch[i] \in Int /\ from[i] \in Int /\ upto[i] \in Int
                              /\ refetch'[i] = refetch[i] /\ from'[i] = from[i]
                              /\ upto'[i] = upto[i] /\ pc'[i] = pc[i]
                              /\ event'[i] = event[i]
      BY <1>2, GatewayAssumption DEF Typed, ProcessPart, processVars, ProcessTypeOK, Cursors,
         NoCursor, NoRefetch
    <3>3. ProcessFits'
      BY <2>1, <3>2 DEF Typed, ProcessPart, ProcessFits
    <3>4. QED
      BY <3>1, <3>3 DEF ProcessPart
<1>3. CASE Gateway \/ AckArrives \/ LeaseExpires \/ Operations \/ UNCHANGED vars
  BY <1>2, <1>3 DEF Gateway, AckArrives, LeaseExpires, Operations, RecoverRecord, ResyncRecord,
     ResyncIdentities, OperatorRecord, Reconfigure, vars
<1>4. QED
  BY <1>1, <1>3 DEF Next

-----------------------------------------------------------------------------
\* The store's part.

\* What one batch does to the store stays within its types.
LEMMA BatchTyped ==
    ASSUME Typed, NEW i \in Instances, pc[i] = "got"
    PROVE  /\ Batch(i) \subseteq 1 .. Len(log) /\ Batch(i) \subseteq Positions
           /\ \A d \in Ids : RowAfter(i, d) \in 0 .. MaxHead
           /\ SequencesAfter(i) \in [Sessions -> Nat \cup {-1}]
           /\ Counted(i) \in Nat
           /\ RowAfterBatch(i) \in ChannelRows(Cursors)
           /\ RowAfterBatch(i).acked = chan.acked /\ RowAfterBatch(i).earliest = chan.earliest
           /\ RowAfterBatch(i).cursor = upto[i]
<1>0. /\ from[i] \in Int /\ upto[i] \in Cursors /\ upto[i] \in Int /\ from[i] >= 0
      /\ upto[i] <= Len(log) /\ Len(log) \in 0 .. MaxHead /\ log \in Seq(Records)
      /\ ingest \in [Ids -> 0 .. MaxHead] /\ lastSequence \in [Sessions -> Nat \cup {-1}]
      /\ chan \in ChannelRows(Cursors) /\ NoCursor \in Cursors /\ MaxHead \in Nat
      /\ fence[i] \in Nat
  BY GatewayAssumption, IngestAssumption DEF Typed, GatewayPart, GatewayTypeOK, StorePart,
     StoreTypeOK, ProcessPart, ProcessTypeOK, ProcessFits, WithBatch, Cursors, NoCursor
<1>1. Batch(i) \subseteq 1 .. Len(log) /\ Batch(i) \subseteq Positions
  BY <1>0 DEF Batch, Positions
<1>2. Fresh(i) \subseteq Batch(i)
  BY DEF Fresh
<1>3. ASSUME NEW d \in Ids
      PROVE  RowAfter(i, d) \in 0 .. MaxHead
  <2>1. CASE \E p \in Fresh(i) : log[p].id = d
    <3>1. RowAfter(i, d) \in Fresh(i)
      BY <2>1 DEF RowAfter
    <3>2. QED
      BY <1>0, <1>1, <1>2, <3>1 DEF Positions
  <2>2. CASE ~\E p \in Fresh(i) : log[p].id = d
    BY <1>0, <2>2 DEF RowAfter
  <2>3. QED
    BY <2>1, <2>2
<1>4. SequencesAfter(i) \in [Sessions -> Nat \cup {-1}]
  <2>1. CASE Batch(i) = {}
    BY <1>0, <2>1 DEF SequencesAfter
  <2>2. CASE Batch(i) # {}
    <3>1. upto[i] \in 1 .. Len(log)
      BY <1>0, <2>2 DEF Batch
    <3>2. log[upto[i]] \in Records
      BY <1>0, <3>1
    <3>3. log[upto[i]].sequence \in Nat /\ log[upto[i]].session \in Sessions
      BY <3>2 DEF Records
    <3>4. \A n \in Nat \cup {-1} : Later(n, log[upto[i]].sequence) \in Nat \cup {-1}
      BY <3>3 DEF Later
    <3>5. QED
      BY <1>0, <2>2, <3>3, <3>4 DEF SequencesAfter
  <2>3. QED
    BY <2>1, <2>2
<1>5. Counted(i) \in Nat
  <2>1. IsFiniteSet(from[i] + 1 .. upto[i])
    <3>1. from[i] + 1 \in Int /\ upto[i] \in Int
      BY <1>0
    <3>2. QED
      BY <3>1, FS_Interval
  <2>2. {p \in Fresh(i) : log[p].kind # "refused"} \subseteq from[i] + 1 .. upto[i]
    BY <1>2 DEF Batch
  <2>3. IsFiniteSet({p \in Fresh(i) : log[p].kind # "refused"})
    BY <2>1, <2>2, FS_Subset
  <2>4. QED
    BY <2>3, FS_CardinalityType DEF Counted
<1>6. /\ RowAfterBatch(i) \in ChannelRows(Cursors)
      /\ RowAfterBatch(i).acked = chan.acked /\ RowAfterBatch(i).earliest = chan.earliest
      /\ RowAfterBatch(i).cursor = upto[i]
  <2> DEFINE gap   == IF SequenceGap(i) \/ Holding(i, "gap") THEN RecordGap(chan, fence[i])
                                                            ELSE chan
             reset == IF Holding(i, "reset") THEN CloseEpoch(gap, fence[i]) ELSE gap
             clash == IF Clashes(i) # {} THEN Degrade(reset, fence[i]) ELSE reset
  <2>1. gap \in ChannelRows(Cursors) /\ SameCursors(gap, chan)
    BY <1>0, RowFacts DEF SameCursors
  <2>2. reset \in ChannelRows(Cursors) /\ SameCursors(reset, chan)
    <3> HIDE DEF gap
    <3>1. /\ CloseEpoch(gap, fence[i]) \in ChannelRows(Cursors)
          /\ SameCursors(CloseEpoch(gap, fence[i]), gap)
      BY <1>0, <2>1, RowFacts
    <3>2. QED
      BY <2>1, <3>1 DEF SameCursors
  <2>3. clash \in ChannelRows(Cursors) /\ SameCursors(clash, chan)
    <3> HIDE DEF reset
    <3>1. /\ Degrade(reset, fence[i]) \in ChannelRows(Cursors)
          /\ SameCursors(Degrade(reset, fence[i]), reset)
      BY <1>0, <2>2, RowFacts
    <3>2. QED
      BY <2>2, <3>1 DEF SameCursors
  <2>4. RowAfterBatch(i) = MoveCursor(clash, upto[i], fence[i])
    BY DEF RowAfterBatch
  <2>5. QED
    <3> HIDE DEF clash
    <3> DEFINE row == MoveCursor(clash, upto[i], fence[i])
    <3>1. /\ row \in ChannelRows(Cursors) /\ row.cursor = upto[i]
          /\ row.acked = clash.acked /\ row.earliest = clash.earliest
      <4>1. clash \in ChannelRows(Cursors) /\ fence[i] \in Nat /\ upto[i] \in Cursors
        BY <1>0, <2>3
      <4>2. QED
        BY <4>1, CursorRowFacts
    <3>2. clash.acked = chan.acked /\ clash.earliest = chan.earliest
      BY <2>3 DEF SameCursors
    <3> HIDE DEF row
    <3>3. RowAfterBatch(i) = row
      BY <2>4 DEF row
    <3>4. QED
      BY <3>1, <3>2, <3>3
<1>7. QED
  BY <1>1, <1>3, <1>4, <1>5, <1>6

\* A step that writes the lease or the channel row and no other part of the store.
LEMMA RowStep ==
    ASSUME Typed, [Next]_vars,
           lease' \in [holder: Instances \cup {Operator}, fence: 0 .. MaxFence, expired: BOOLEAN],
           chan' \in ChannelRows(Cursors),
           chan'.cursor <= Len(log), chan'.acked <= Len(log), chan'.earliest <= Len(log),
           UNCHANGED <<recordVars, dispatched>>
    PROVE  StorePart'
<1>1. /\ chan'.cursor \in Int /\ chan'.acked \in Int /\ chan'.earliest \in Int
      /\ Len(log) \in Nat /\ Len(log') \in Nat /\ Len(log) <= Len(log')
  <2>1. chan'.cursor \in Cursors /\ chan'.acked \in Cursors /\ chan'.earliest \in Cursors
    BY DEF ChannelRows
  <2>2. Len(log) \in Nat /\ Len(log') \in Nat /\ Len(log) <= Len(log')
    BY GatewayStep DEF Typed, GatewayPart, GatewayTypeOK
  <2>3. QED
    BY <2>1, <2>2, GatewayAssumption DEF Cursors, NoCursor
<1>2. StoreTypeOK'
  BY DEF Typed, StorePart, StoreTypeOK, recordVars
<1>3. StoreFits'
  BY <1>1 DEF StoreFits
<1>4. QED
  BY <1>2, <1>3 DEF StorePart

\* A process's own steps.
LEMMA PassStores ==
    ASSUME Typed, [Next]_vars, NEW i \in Instances, Pass(i) \/ Life(i)
    PROVE  StorePart'
<1> DEFINE Leases ==
              [holder: Instances \cup {Operator}, fence: 0 .. MaxFence, expired: BOOLEAN]
<1>0. /\ lease \in Leases /\ chan \in ChannelRows(Cursors) /\ fence[i] \in Nat
      /\ chan.cursor <= Len(log) /\ chan.acked <= Len(log) /\ chan.earliest <= Len(log)
      /\ from[i] \in Cursors /\ upto[i] \in Cursors /\ upto[i] <= Len(log)
      /\ rev[i] \in Revisions
  BY IngestAssumption DEF Typed, StorePart, StoreTypeOK, StoreFits, ProcessPart, ProcessTypeOK, ProcessFits
<1>1. /\ Settle(chan, fence[i]) \in ChannelRows(Cursors)
       /\ SameCursors(Settle(chan, fence[i]), chan)
  BY <1>0, RowFacts
<1>2. /\ \A cap \in {"CAPACITY_REPORTS", "CAPACITY_IDENTITIES"} :
             /\ Overload(chan, cap, fence[i]) \in ChannelRows(Cursors)
             /\ SameCursors(Overload(chan, cap, fence[i]), chan)
       /\ Stop(chan, rev[i], fence[i]) \in ChannelRows(Cursors)
       /\ SameCursors(Stop(chan, rev[i], fence[i]), chan)
  BY <1>0, HoldRowFacts
<1>3. CASE UNCHANGED storeVars
  BY <1>0, <1>3, RowStep DEF storeVars, recordVars
<1>4. CASE StartAcquire(i) \/ Close(i) \/ Renew(i)
  <2>1. lease' \in Leases
    <3>1. \A h \in Instances \cup {Operator} : Acquire(h) => lease' \in Leases
      BY <1>0, IngestAssumption DEF Acquire, Spare
    <3>2. QED
      BY <1>0, <1>4, <3>1 DEF StartAcquire, Close, Renew
  <2>2. UNCHANGED <<chan, recordVars, dispatched>>
    BY <1>4 DEF StartAcquire, Close, Renew
  <2>3. QED
    BY <1>0, <2>1, <2>2, RowStep
<1>5. CASE StartFinish(i) \/ SkipFetch(i) \/ Ask(i)
  <2>1. /\ UNCHANGED <<lease, recordVars, dispatched>>
        /\ \/ chan' = chan \/ chan' = Settle(chan, fence[i])
           \/ chan' = Overload(chan, "CAPACITY_REPORTS", fence[i])
    BY <1>5 DEF StartFinish, SkipFetch, Ask
  <2>2. chan' \in ChannelRows(Cursors) /\ SameCursors(chan', chan)
    BY <1>0, <1>1, <1>2, <2>1 DEF SameCursors
  <2>3. QED
    BY <1>0, <2>1, <2>2, RowStep DEF SameCursors
<1>6. CASE RecordExpired(i) \/ RecordAck(i)
  <2>1. /\ UNCHANGED <<lease, recordVars, dispatched>>
        /\ \/ chan' = Expire(chan, upto[i], fence[i])
           \/ chan' = RecordAcked(chan, upto[i], fence[i])
    BY <1>6 DEF RecordExpired, RecordAck, RecordRefusal
  <2>2. /\ chan' \in ChannelRows(Cursors)
        /\ chan'.cursor <= Len(log) /\ chan'.acked <= Len(log) /\ chan'.earliest <= Len(log)
    <3>1. /\ Expire(chan, upto[i], fence[i]) \in ChannelRows(Cursors)
          /\ RecordAcked(chan, upto[i], fence[i]) \in ChannelRows(Cursors)
          /\ Expire(chan, upto[i], fence[i]).cursor = chan.cursor
          /\ Expire(chan, upto[i], fence[i]).acked = chan.acked
          /\ Expire(chan, upto[i], fence[i]).earliest = upto[i]
          /\ RecordAcked(chan, upto[i], fence[i]).cursor = chan.cursor
          /\ RecordAcked(chan, upto[i], fence[i]).acked = upto[i]
          /\ RecordAcked(chan, upto[i], fence[i]).earliest = chan.earliest
      <4>1. chan \in ChannelRows(Cursors) /\ fence[i] \in Nat /\ upto[i] \in Cursors
        BY <1>0
      <4>2. QED
        BY <4>1, CursorRowFacts
    <3>2. QED
      BY <1>0, <2>1, <3>1
  <2>3. QED
    BY <1>0, <2>1, <2>2, RowStep
<1>7. CASE StopChannel(i) \/ RecordCap(i) \/ ClearCap(i)
  <2>1. /\ UNCHANGED <<lease, recordVars, dispatched>>
        /\ \/ chan' = chan \/ chan' = Settle(chan, fence[i])
           \/ chan' = Overload(chan, "CAPACITY_IDENTITIES", fence[i])
           \/ chan' = Stop(chan, rev[i], fence[i])
    BY <1>7 DEF StopChannel, RecordCap, ClearCap, RecordRefusal, storeVars, recordVars
  <2>2. chan' \in ChannelRows(Cursors) /\ SameCursors(chan', chan)
    BY <1>0, <1>1, <1>2, <2>1 DEF SameCursors
  <2>3. QED
    BY <1>0, <2>1, <2>2, RowStep DEF SameCursors
<1>8. CASE RecordGarbled(i)
  <2>1. PICK n \in Nat : /\ UNCHANGED <<lease, recordVars, dispatched>>
                         /\ chan' = CountRetry(chan, <<from[i], upto[i]>>, n, fence[i])
    <3>1. chan.retryCount \in Nat /\ RetryMax \in Nat
      BY <1>0, IngestAssumption DEF ChannelRows
    <3>2. QED
      BY <1>8, <3>1 DEF RecordGarbled, RecordRefusal, Refusals
  <2>2. chan' \in ChannelRows(Cursors) /\ SameCursors(chan', chan)
    BY <1>0, <2>1, HoldRowFacts
  <2>3. QED
    BY <1>0, <2>1, <2>2, RowStep DEF SameCursors
<1>9. CASE Process(i)
  <2>0. pc[i] = "got" /\ log' = log
    BY <1>9 DEF Process, gatewayVars
  <2>1. /\ ingest' \in [Ids -> 0 .. MaxHead] /\ lastSequence' \in [Sessions -> Nat \cup {-1}]
        /\ chan' \in ChannelRows(Cursors)
        /\ UNCHANGED <<lease, dispatched>>
    BY <1>9, <2>0, BatchTyped DEF Process
  <2>2. /\ chan'.acked = chan.acked /\ chan'.earliest = chan.earliest
        /\ chan'.cursor = upto[i]
    BY <1>9, <2>0, BatchTyped DEF Process
  <2>3. accepted' \in Nat
    <3>1. Counted(i) \in Nat /\ accepted' = accepted + Counted(i) /\ accepted \in Nat
      BY <1>9, <2>0, BatchTyped DEF Process, Typed, StorePart, StoreTypeOK
    <3>2. QED
      BY <3>1
  <2>4. clashes' \subseteq Positions /\ outbox' \subseteq Positions
    <3>1. Fresh(i) \subseteq Positions /\ Clashes(i) \subseteq Positions
      BY <2>0, BatchTyped DEF Fresh, Clashes
    <3>2. QED
      BY <1>9, <3>1 DEF Process, Typed, StorePart, StoreTypeOK
  <2>5. StoreTypeOK'
    BY <2>1, <2>3, <2>4 DEF Typed, StorePart, StoreTypeOK
  <2>6. StoreFits'
    BY <1>0, <2>0, <2>2 DEF StoreFits
  <2>7. QED
    BY <2>5, <2>6 DEF StorePart
<1>10. CASE Mark(i)
  <2>1. event[i] \in Positions /\ log' = log
    BY <1>10, GatewayAssumption
       DEF Mark, Typed, ProcessPart, ProcessTypeOK, ProcessFits, Positions, gatewayVars
  <2>2. StoreTypeOK'
    BY <1>10, <2>1 DEF Mark, Typed, StorePart, StoreTypeOK, recordVars
  <2>3. StoreFits'
    BY <1>10, <2>1 DEF Mark, Typed, StorePart, StoreFits
  <2>4. QED
    BY <2>2, <2>3 DEF StorePart
<1>11. CASE \/ StartBlocked(i) \/ Crash(i) \/ FetchBatch(i) \/ FetchExpired(i)
           \/ FetchUnanswered(i) \/ FetchRefused(i) \/ ProcessStops(i) \/ ProcessCapped(i)
           \/ AckAnswered(i) \/ AckUnanswered(i) \/ AckRefused(i) \/ Housekeep(i) \/ Deliver(i)
           \/ EndDispatch(i) \/ LoseLease(i) \/ CommitFails(i)
  BY <1>3, <1>11 DEF StartBlocked, Crash, FetchBatch, FetchExpired, FetchUnanswered,
     FetchRefused, ProcessStops, ProcessCapped, AckAnswered, AckUnanswered, AckRefused,
     Housekeep, Deliver, EndDispatch, LoseLease, CommitFails
<1>12. QED
  BY <1>4, <1>5, <1>6, <1>7, <1>8, <1>9, <1>10, <1>11 DEF Pass, Life

\* The store's part is kept by every step.
LEMMA StoreStep ==
    ASSUME Typed, [Next]_vars
    PROVE  StorePart'
<1> DEFINE Leases ==
              [holder: Instances \cup {Operator}, fence: 0 .. MaxFence, expired: BOOLEAN]
<1>0. /\ lease \in Leases /\ chan \in ChannelRows(Cursors)
      /\ chan.cursor <= Len(log) /\ chan.acked <= Len(log) /\ chan.earliest <= Len(log)
      /\ Len(log) \in Nat
  BY DEF Typed, StorePart, StoreTypeOK, StoreFits, GatewayPart, GatewayTypeOK
<1>1. CASE UNCHANGED storeVars
  BY <1>0, <1>1, RowStep DEF storeVars, recordVars
<1>2. CASE \E i \in Instances : Pass(i) \/ Life(i)
  BY <1>2, PassStores
<1>3. CASE LeaseExpires
  <2>1. lease' \in Leases /\ UNCHANGED <<chan, recordVars, dispatched>>
    BY <1>0, <1>3 DEF LeaseExpires
  <2>2. QED
    BY <1>0, <2>1, RowStep
<1>4. CASE RecoverRecord \/ ResyncRecord \/ ResyncIdentities
  <2>1. /\ lease.fence + 1 < MaxFence
        /\ lease' = [holder |-> Operator, fence |-> lease.fence + 1, expired |-> TRUE]
        /\ UNCHANGED <<recordVars, dispatched>>
        /\ \/ chan' = Recover(chan, lease.fence + 1) \/ chan' = Resync(chan, lease.fence + 1)
           \/ chan' = Settle(chan, lease.fence + 1)
    BY <1>4 DEF RecoverRecord, ResyncRecord, ResyncIdentities, OperatorRecord, OperatorFence
  <2>2. lease.fence + 1 \in 0 .. MaxFence /\ lease.fence + 1 \in Nat
    BY <1>0, <2>1, IngestAssumption
  <2>3. lease' \in Leases
    BY <2>1, <2>2
  <2>4. /\ chan' \in ChannelRows(Cursors)
        /\ \/ SameCursors(chan', chan)
           \/ chan'.cursor = chan.earliest /\ chan'.acked = chan.earliest
              /\ chan'.earliest = NoCursor
    <3> DEFINE f == lease.fence + 1
    <3>1. chan \in ChannelRows(Cursors) /\ f \in Nat
      BY <1>0, <2>2
    <3>2. chan' \in {Recover(chan, f), Resync(chan, f), Settle(chan, f)}
      BY <2>1
    <3> HIDE DEF f
    <3>3. QED
      BY <3>1, <3>2, RowFacts
  <2>5. NoCursor <= Len(log)
    BY <1>0 DEF NoCursor
  <2>6. QED
    BY <1>0, <2>1, <2>3, <2>4, <2>5, RowStep DEF SameCursors
<1>5. CASE Reconfigure \/ Gateway \/ AckArrives \/ UNCHANGED vars
  BY <1>1, <1>5 DEF Reconfigure, Gateway, AckArrives, vars
<1>6. QED
  BY <1>2, <1>3, <1>4, <1>5 DEF Next, Operations

-----------------------------------------------------------------------------
\* The environment's part, and the theorem.

\* An acknowledgement on its way names a position of the log; the sink holds positions.
LEMMA OuterStep ==
    ASSUME Typed, [Next]_vars
    PROVE  OuterPart'
<1>0. /\ OuterTypeOK /\ OuterFits /\ Len(log) \in Nat /\ Len(log) <= MaxHead
      /\ Len(log) <= Len(log') /\ Len(log') \in Nat
  BY GatewayStep DEF Typed, OuterPart, GatewayPart, GatewayTypeOK
<1>1. ASSUME revision' \in Revisions, ackCalls' \subseteq ackCalls, taken' \subseteq Positions
      PROVE  OuterPart'
  <2>1. ackCalls' \subseteq 0 .. MaxHead
    BY <1>0, <1>1 DEF OuterTypeOK
  <2>2. \A n \in ackCalls' : n <= Len(log')
    BY <1>0, <1>1, <2>1, GatewayAssumption DEF OuterFits
  <2>3. QED
    BY <1>1, <2>1, <2>2 DEF OuterPart, OuterTypeOK, OuterFits
<1>2. CASE UNCHANGED outerVars
  BY <1>0, <1>1, <1>2 DEF outerVars, OuterTypeOK
<1>3. ASSUME NEW i \in Instances, Deliver(i)
      PROVE  OuterPart'
  <2>1. todo[i] \subseteq Positions
    BY DEF Typed, ProcessPart, ProcessTypeOK
  <2>2. QED
    BY <1>0, <1>1, <1>3, <2>1 DEF Deliver, SinkTakes, OuterTypeOK
<1>4. ASSUME NEW i \in Instances, AckUnanswered(i)
      PROVE  OuterPart'
  <2>1. upto[i] \in 0 .. MaxHead /\ upto[i] <= Len(log)
    BY <1>4, GatewayAssumption DEF AckUnanswered, Typed, ProcessPart, ProcessTypeOK, ProcessFits,
       WithBatch, Cursors, NoCursor
  <2>2. /\ ackCalls' = ackCalls \cup {upto[i]} /\ revision' = revision /\ taken' = taken
        /\ log' = log
    BY <1>4 DEF AckUnanswered, gatewayVars
  <2>3. QED
    BY <1>0, <2>1, <2>2 DEF OuterPart, OuterTypeOK, OuterFits
<1>5. CASE AckArrives \/ Reconfigure
  BY <1>0, <1>1, <1>5 DEF AckArrives, Reconfigure, OuterTypeOK
<1>6. ASSUME NEW i \in Instances, Pass(i) \/ Life(i), ~Deliver(i), ~AckUnanswered(i)
      PROVE  UNCHANGED outerVars
  <2>1. CASE Life(i)
    BY <2>1 DEF Life, StartAcquire, StartBlocked, StartFinish, Close, Crash
  <2>2. CASE Pass(i)
    BY <1>6, <2>2 DEF Pass, Renew, SkipFetch, Ask, FetchBatch, FetchExpired, FetchUnanswered,
       FetchRefused, Process, ProcessStops, ProcessCapped, RecordExpired, StopChannel,
       RecordGarbled, RecordCap, ClearCap, RecordAck, RecordRefusal, AckAnswered, AckRefused,
       Housekeep, EndDispatch, Mark, LoseLease, CommitFails
  <2>3. QED
    BY <1>6, <2>1, <2>2
<1>7. CASE \/ Gateway \/ LeaseExpires \/ UNCHANGED vars
           \/ RecoverRecord \/ ResyncRecord \/ ResyncIdentities
  BY <1>2, <1>7 DEF Gateway, LeaseExpires, RecoverRecord, ResyncRecord, ResyncIdentities,
     OperatorRecord, vars
<1>8. QED
  BY <1>2, <1>3, <1>4, <1>5, <1>6, <1>7 DEF Next, Operations

\* A new store, and processes that do not run yet.
LEMMA InitTyped == Init => Typed
<1> SUFFICES ASSUME Init
             PROVE  Typed
  OBVIOUS
<1>1. GatewayPart
  <2>1. << >> \in Seq(Records) /\ Len(<< >>) = 0
    OBVIOUS
  <2>2. QED
    BY <2>1, GatewayAssumption
       DEF Init, GatewayInit, GatewayPart, GatewayTypeOK, GatewayFits, Sessions
<1>2. StorePart
  <2>1. chan \in ChannelRows(Cursors)
    BY NullCursor DEF Init, InitialRow, ChannelRows, ChannelStates, Reasons, NoBatch
  <2>2. StoreTypeOK
    BY <2>1, GatewayAssumption, IngestAssumption DEF Init, StoreTypeOK
  <2>3. StoreFits
    <3>1. chan.cursor = -1 /\ chan.acked = -1 /\ chan.earliest = -1 /\ Len(log) = 0
      BY DEF Init, GatewayInit, InitialRow, NoCursor
    <3>2. QED
      BY <3>1 DEF StoreFits
  <2>4. QED
    BY <2>2, <2>3 DEF StorePart
<1>3. ProcessPart
  <2>1. ProcessTypeOK
    BY NullCursor, GatewayAssumption, IngestAssumption DEF Init, ProcessTypeOK, PCs
  <2>2. ProcessFits
    BY DEF Init, GatewayInit, ProcessFits, WithBatch, NoCursor, NoRefetch
  <2>3. QED
    BY <2>1, <2>2 DEF ProcessPart
<1>4. OuterPart
  BY IngestAssumption DEF Init, OuterPart, OuterTypeOK, OuterFits
<1>5. QED
  BY <1>1, <1>2, <1>3, <1>4 DEF Typed

\* Typed is inductive,
LEMMA TypedStep == Typed /\ [Next]_vars => Typed'
BY GatewayStep, ProcessStep, StoreStep, OuterStep DEF Typed

\* hence it always holds.
LEMMA TypedAlways == Spec => []Typed
BY InitTyped, TypedStep, PTL DEF Spec

\* The store, the processes, the gateway and the messages between them hold values of their
\* types whatever the processes do: no cursor leaves the log, and the fence of no row is beyond
\* the acquisitions of the lease (store.py's columns, provider.py's log).
THEOREM TypeCorrect == Spec => []TypeOK
<1>1. Typed => TypeOK
  BY DEF Typed, GatewayPart, StorePart, ProcessPart, OuterPart, TypeOK
<1>2. QED
  BY <1>1, TypedAlways, PTL

-----------------------------------------------------------------------------
(***************************************************************************)
(* Proofs of what BridgeIngest promises of records, gaps, events and       *)
(* fences, from the type invariant.                                        *)
(*                                                                         *)
(* Each promise has its inductive form: Behind for NothingForgotten and    *)
(* CursorsBehindRecords, GapOnRecord itself, FenceBehindLease for          *)
(* FenceAdvances, and Dispatching with MarkedIsTaken.                      *)
(***************************************************************************)

\* What no step takes back.

\* The log only grows at its end.
LEMMA LogGrows ==
    ASSUME Typed, [Next]_vars
    PROVE  \A p \in 1 .. Len(log) : log'[p] = log[p]
<1>1. CASE log' = log
  BY <1>1
<1>2. ASSUME NEW id \in Ids, NEW kind \in Kinds, Publish(id, kind)
      PROVE  \A p \in 1 .. Len(log) : log'[p] = log[p]
  <2> DEFINE r == [id |-> id, kind |-> kind, session |-> session, sequence |-> nextSequence]
  <2>1. log' = Append(log, r) /\ log \in Seq(Records) /\ session \in Sessions
        /\ nextSequence \in Nat
    BY <1>2 DEF Publish, Typed, GatewayPart, GatewayTypeOK
  <2>2. r \in Records
    BY <2>1 DEF Records
  <2>3. QED
    BY <2>1, <2>2
<1>3. CASE Gateway
  BY <1>1, <1>2, <1>3 DEF Gateway, NewSession, SkipSequence, Age
<1>4. ASSUME NEW i \in Instances, Pass(i) \/ Life(i)
      PROVE  log' = log
  BY <1>4, PassTyped
<1>5. CASE AckArrives \/ LeaseExpires \/ Operations \/ UNCHANGED vars
  BY <1>1, <1>5 DEF AckArrives, Acknowledge, LeaseExpires, Operations, RecoverRecord,
     ResyncRecord, ResyncIdentities, OperatorRecord, Reconfigure, vars, gatewayVars
<1>6. QED
  BY <1>1, <1>3, <1>4, <1>5 DEF Next

\* An ingest row, once written, stays (process never overwrites one), and quarantine rows do.
LEMMA RowsStay ==
    ASSUME Typed, [Next]_vars
    PROVE  /\ clashes \subseteq clashes'
           /\ \A d \in Ids : ingest[d] # 0 => ingest'[d] = ingest[d]
<1>1. CASE UNCHANGED <<ingest, clashes>>
  BY <1>1
<1>2. ASSUME NEW i \in Instances, Process(i)
      PROVE  /\ clashes \subseteq clashes'
             /\ \A d \in Ids : ingest[d] # 0 => ingest'[d] = ingest[d]
  <2>1. clashes' = clashes \cup Clashes(i) /\ ingest' = [d \in Ids |-> RowAfter(i, d)]
    BY <1>2 DEF Process
  <2>2. ASSUME NEW d \in Ids, ingest[d] # 0
        PROVE  RowAfter(i, d) = ingest[d]
    BY <2>2 DEF RowAfter, Fresh
  <2>3. QED
    BY <2>1, <2>2
<1>3. ASSUME NEW i \in Instances, Pass(i) \/ Life(i), ~Process(i)
      PROVE  UNCHANGED <<ingest, clashes>>
  <2>1. CASE Life(i)
    BY <2>1 DEF Life, StartAcquire, StartBlocked, StartFinish, Close, Crash, storeVars,
       recordVars
  <2>2. CASE Pass(i)
    BY <1>3, <2>2 DEF Pass, Renew, SkipFetch, Ask, FetchBatch, FetchExpired, FetchUnanswered,
       FetchRefused, ProcessStops, ProcessCapped, RecordExpired, StopChannel, RecordGarbled,
       RecordCap, ClearCap, RecordAck, RecordRefusal, AckAnswered, AckUnanswered, AckRefused,
       Housekeep, Deliver, EndDispatch, Mark, LoseLease, CommitFails, storeVars, recordVars
  <2>3. QED
    BY <1>3, <2>1, <2>2
<1>4. CASE Gateway \/ AckArrives \/ LeaseExpires \/ Operations \/ UNCHANGED vars
  BY <1>1, <1>4 DEF Gateway, AckArrives, LeaseExpires, Operations, RecoverRecord, ResyncRecord,
     ResyncIdentities, OperatorRecord, Reconfigure, vars, storeVars, recordVars
<1>5. QED
  BY <1>1, <1>2, <1>3, <1>4 DEF Next

\* A loss row stays.
LEMMA LossesStay ==
    ASSUME Typed, [Next]_vars
    PROVE  lost \subseteq lost'
<1>1. CASE UNCHANGED gatewayVars
  BY <1>1 DEF gatewayVars
<1>2. ASSUME NEW l, NEW a, Retain(l, a)
      PROVE  lost \subseteq lost'
  BY <1>2 DEF Retain
<1>3. ASSUME NEW n, Acknowledge(n)
      PROVE  lost \subseteq lost'
  BY <1>2, <1>3 DEF Acknowledge
<1>4. ASSUME NEW i \in Instances, FetchBatch(i) \/ FetchExpired(i) \/ AckAnswered(i)
      PROVE  lost \subseteq lost'
  BY <1>2, <1>3, <1>4 DEF FetchBatch, FetchExpired, AckAnswered, ReadBatch, ReadExpired
<1>5. CASE AckArrives
  BY <1>3, <1>5 DEF AckArrives
<1>6. CASE Gateway
  BY <1>2, <1>6 DEF Gateway, Publish, NewSession, SkipSequence, Age
<1>7. ASSUME NEW i \in Instances, Pass(i) \/ Life(i),
             ~(FetchBatch(i) \/ FetchExpired(i) \/ AckAnswered(i))
      PROVE  UNCHANGED gatewayVars
  BY <1>7, OnlyThreeCalls
<1>8. CASE LeaseExpires \/ Operations \/ UNCHANGED vars
  BY <1>1, <1>8 DEF LeaseExpires, Operations, RecoverRecord, ResyncRecord, ResyncIdentities,
     OperatorRecord, Reconfigure, vars
<1>9. QED
  BY <1>1, <1>4, <1>5, <1>6, <1>7, <1>8 DEF Next

\* A record keeps its disposition and its loss row.
LEMMA DispositionsStay ==
    ASSUME Typed, [Next]_vars, NEW p \in 1 .. Len(log), Settled(p) \/ p \in lost
    PROVE  Settled(p)' \/ p \in lost'
<1>1. log'[p] = log[p]
  BY LogGrows
<1>2. log[p] \in Records
  BY DEF Typed, GatewayPart, GatewayTypeOK
<1>3. log[p].id \in Ids
  BY <1>2 DEF Records
<1>4. ingest[log[p].id] = p => ingest'[log'[p].id] = p
  BY <1>1, <1>3, RowsStay
<1>5. QED
  BY <1>4, RowsStay, LossesStay DEF Settled

\* What is settled or lost up to n remains so.
LEMMA SettledOrLostStays ==
    ASSUME Typed, [Next]_vars, NEW n \in Int, n <= Len(log), SettledOrLost(n)
    PROVE  \A p \in 1 .. n : Settled(p)' \/ p \in lost'
<1>1. Len(log) \in Nat
  BY DEF Typed, GatewayPart, GatewayTypeOK
<1>2. QED
  BY <1>1, DispositionsStay DEF SettledOrLost

-----------------------------------------------------------------------------
\* Nothing is forgotten.

\* Every position that some part of the system may release, acknowledge, commit or read from
\* has only records with a disposition, or with a loss row, up to it: the inductive form of
\* NothingForgotten and CursorsBehindRecords.  It adds to them the gateway's own acknowledged
\* position, the earliest cursor of a 410, what a process fetched from, what it is about to
\* record or acknowledge, and the acknowledgements on their way.
Releasable == {"expired", "consumed", "committed", "acked"}

GatewayBehind == SettledOrLost(floor) /\ SettledOrLost(acked)

StoreBehind ==
    SettledOrLost(chan.cursor) /\ SettledOrLost(chan.acked) /\ SettledOrLost(chan.earliest)

ProcessBehind ==
    \A i \in Instances :
       /\ SettledOrLost(refetch[i]) /\ SettledOrLost(from[i])
       /\ pc[i] \in Releasable => SettledOrLost(upto[i])

OuterBehind == \A n \in ackCalls : SettledOrLost(n)

Behind == GatewayBehind /\ StoreBehind /\ ProcessBehind /\ OuterBehind

\* The positions that these speak of are positions of the log.
LEMMA BehindFits ==
    ASSUME Typed
    PROVE  /\ Len(log) \in Nat
           /\ floor \in Int /\ floor <= Len(log) /\ acked \in Int /\ acked <= Len(log)
           /\ chan.cursor \in Int /\ chan.cursor <= Len(log)
           /\ chan.acked \in Int /\ chan.acked <= Len(log)
           /\ chan.earliest \in Int /\ chan.earliest <= Len(log)
           /\ \A i \in Instances : /\ refetch[i] \in Int /\ refetch[i] <= Len(log)
                                   /\ from[i] \in Int /\ from[i] <= Len(log)
                                   /\ upto[i] \in Int /\ upto[i] <= Len(log)
           /\ \A n \in ackCalls : n \in Int /\ n <= Len(log)
<1>1. /\ Len(log) \in Nat
      /\ floor \in Int /\ floor <= Len(log) /\ acked \in Int /\ acked <= Len(log)
  BY GatewayAssumption DEF Typed, GatewayPart, GatewayTypeOK, GatewayFits
<1>2. /\ chan.cursor \in Int /\ chan.cursor <= Len(log)
      /\ chan.acked \in Int /\ chan.acked <= Len(log)
      /\ chan.earliest \in Int /\ chan.earliest <= Len(log)
  BY GatewayAssumption
     DEF Typed, StorePart, StoreTypeOK, StoreFits, ChannelRows, Cursors, NoCursor
<1>3. \A i \in Instances : /\ refetch[i] \in Int /\ refetch[i] <= Len(log)
                           /\ from[i] \in Int /\ from[i] <= Len(log)
                           /\ upto[i] \in Int /\ upto[i] <= Len(log)
  BY GatewayAssumption
     DEF Typed, ProcessPart, ProcessTypeOK, ProcessFits, Cursors, NoCursor, NoRefetch
<1>4. \A n \in ackCalls : n \in Int /\ n <= Len(log)
  BY GatewayAssumption DEF Typed, OuterPart, OuterTypeOK, OuterFits
<1>5. QED
  BY <1>1, <1>2, <1>3, <1>4

\* Retention moves the floor over records below it, acknowledged ones and those that get a
\* loss row.
LEMMA RetainBehind ==
    ASSUME Typed, [Next]_vars, SettledOrLost(floor),
           NEW l, Len(l) \in Nat, NEW a \in Int, a <= Len(log), SettledOrLost(a), Retain(l, a)
    PROVE  SettledOrLost(floor)'
<1>1. floor \in Int /\ floor <= Len(log) /\ aged \in Int /\ RetentionRecords \in Int
      /\ Len(log) \in Nat
  BY BehindFits, GatewayAssumption DEF Typed, GatewayPart, GatewayTypeOK
<1>2. \A p \in 1 .. Later(floor, a) : Settled(p)' \/ p \in lost'
  <2>1. /\ \A p \in 1 .. floor : Settled(p)' \/ p \in lost'
        /\ \A p \in 1 .. a : Settled(p)' \/ p \in lost'
    BY <1>1, SettledOrLostStays
  <2>2. QED
    BY <2>1 DEF Later
<1>3. \A p \in Later(floor, a) + 1 .. RetainedFrom(l, a) : p \in lost'
  BY DEF Retain
<1>4. floor' = RetainedFrom(l, a) /\ RetainedFrom(l, a) \in Int /\ Later(floor, a) \in Int
  BY <1>1 DEF Retain, RetainedFrom, Later
<1>5. QED
  BY <1>2, <1>3, <1>4 DEF SettledOrLost

\* Each operation of the gateway: what it releases is settled or on its loss table.
LEMMA GatewayBehindStep ==
    ASSUME Typed, Behind, [Next]_vars
    PROVE  GatewayBehind'
<1>0. /\ SettledOrLost(floor) /\ SettledOrLost(acked) /\ Len(log) \in Nat /\ Len(log') \in Nat
      /\ floor \in Int /\ floor <= Len(log) /\ acked \in Int /\ acked <= Len(log)
  BY BehindFits, GatewayStep DEF Behind, GatewayBehind, GatewayPart, GatewayTypeOK
<1>1. ASSUME acked' = acked
      PROVE  SettledOrLost(acked)'
  BY <1>0, <1>1, SettledOrLostStays DEF SettledOrLost
<1>2. ASSUME floor' = floor
      PROVE  SettledOrLost(floor)'
  BY <1>0, <1>2, SettledOrLostStays DEF SettledOrLost
<1>3. ASSUME NEW l, Len(l) \in Nat, Retain(l, acked), acked' = acked
      PROVE  GatewayBehind'
  BY <1>0, <1>1, <1>3, RetainBehind DEF GatewayBehind
<1>4. ASSUME NEW n \in Int, n <= Len(log), SettledOrLost(n), Acknowledge(n)
      PROVE  GatewayBehind'
  <2>1. CASE n > acked
    <3>1. acked' = n /\ Retain(log, n)
      BY <1>4, <2>1 DEF Acknowledge
    <3>2. SettledOrLost(floor)'
      BY <1>0, <1>4, <3>1, RetainBehind
    <3>3. SettledOrLost(acked)'
      BY <1>4, <3>1, SettledOrLostStays DEF SettledOrLost
    <3>4. QED
      BY <3>2, <3>3 DEF GatewayBehind
  <2>2. CASE ~(n > acked)
    BY <1>1, <1>2, <1>4, <2>2 DEF Acknowledge, GatewayBehind
  <2>3. QED
    BY <2>1, <2>2
<1>5. CASE UNCHANGED gatewayVars
  BY <1>1, <1>2, <1>5 DEF gatewayVars, GatewayBehind
<1>6. ASSUME NEW i \in Instances, FetchBatch(i) \/ FetchExpired(i)
      PROVE  GatewayBehind'
  <2>1. Retain(log, acked) /\ acked' = acked
    BY <1>6 DEF FetchBatch, FetchExpired, ReadBatch, ReadExpired
  <2>2. QED
    BY <1>0, <1>3, <2>1
<1>7. ASSUME NEW i \in Instances, AckAnswered(i)
      PROVE  GatewayBehind'
  <2>1. SettledOrLost(upto[i]) /\ upto[i] \in Int /\ upto[i] <= Len(log)
    BY <1>7, BehindFits DEF AckAnswered, Behind, ProcessBehind, Releasable
  <2>2. QED
    BY <1>4, <1>7, <2>1 DEF AckAnswered
<1>8. CASE AckArrives
  <2>1. \A n \in ackCalls : SettledOrLost(n) /\ n \in Int /\ n <= Len(log)
    BY BehindFits DEF Behind, OuterBehind
  <2>2. QED
    BY <1>4, <1>8, <2>1 DEF AckArrives
<1>9. CASE Gateway
  <2>1. ASSUME NEW id \in Ids, NEW kind \in Kinds, Publish(id, kind)
        PROVE  GatewayBehind'
    BY <1>0, <1>3, <2>1 DEF Publish
  <2>2. CASE NewSession \/ SkipSequence \/ Age
    BY <1>1, <1>2, <2>2 DEF NewSession, SkipSequence, Age, GatewayBehind
  <2>3. QED
    BY <1>9, <2>1, <2>2 DEF Gateway
<1>10. ASSUME NEW i \in Instances, Pass(i) \/ Life(i),
              ~(FetchBatch(i) \/ FetchExpired(i) \/ AckAnswered(i))
       PROVE  UNCHANGED gatewayVars
  BY <1>10, OnlyThreeCalls
<1>11. CASE LeaseExpires \/ Operations \/ UNCHANGED vars
  BY <1>5, <1>11 DEF LeaseExpires, Operations, RecoverRecord, ResyncRecord, ResyncIdentities,
     OperatorRecord, Reconfigure, vars
<1>12. QED
  BY <1>5, <1>6, <1>7, <1>8, <1>9, <1>10, <1>11 DEF Next

\* One batch, one transaction: when process commits, every record of the batch has its
\* disposition, an ingest row or a quarantine row.
LEMMA BatchSettles ==
    ASSUME Typed, NEW i \in Instances, Process(i)
    PROVE  \A p \in Batch(i) : Settled(p)'
<1>1. pc[i] = "got" /\ log' = log /\ ingest' = [d \in Ids |-> RowAfter(i, d)]
      /\ clashes' = clashes \cup Clashes(i)
  BY DEF Process, gatewayVars
<1>2. ASSUME NEW p \in Batch(i)
      PROVE  Settled(p)'
  <2>1. p \in 1 .. Len(log)
    BY <1>1, BatchTyped
  <2>2. log[p] \in Records
    BY <2>1 DEF Typed, GatewayPart, GatewayTypeOK
  <2>3. log[p].id \in Ids
    BY <2>2 DEF Records
  <2>4. CASE RowAfter(i, log[p].id) = p
    BY <1>1, <2>3, <2>4 DEF Settled
  <2>5. CASE RowAfter(i, log[p].id) # p
    BY <1>1, <2>5 DEF Settled, Clashes
  <2>6. QED
    BY <2>4, <2>5
<1>3. QED
  BY <1>2

\* What a step writes in the channel row: nothing; a batch, a 410, an acknowledgement or one
\* more statement of the process that holds the lease; or an operator's statement.
Moves(i) == Process(i) \/ RecordExpired(i) \/ RecordAck(i)

Statements(i) ==
    {Settle(chan, fence[i]), Stop(chan, rev[i], fence[i])}
    \cup {Overload(chan, cap, fence[i]) : cap \in {"CAPACITY_REPORTS", "CAPACITY_IDENTITIES"}}
    \cup {CountRetry(chan, <<from[i], upto[i]>>, n, fence[i]) : n \in Nat}

OperatorStatements ==
    {Recover(chan, OperatorFence), Resync(chan, OperatorFence), Settle(chan, OperatorFence)}

\* Every write of the row by a process is one of these, under the lease.
LEMMA OwnWrites ==
    ASSUME Typed, NEW i \in Instances, Pass(i) \/ Life(i)
    PROVE  chan' = chan \/ (Holds(i) /\ (Moves(i) \/ chan' \in Statements(i)))
<1>1. CASE Life(i)
  BY <1>1 DEF Life, StartAcquire, StartBlocked, StartFinish, Close, Crash, storeVars, Statements
<1>2. CASE Pass(i)
  <2>1. CASE SkipFetch(i) \/ Ask(i) \/ StopChannel(i) \/ RecordCap(i) \/ ClearCap(i)
    BY <2>1 DEF SkipFetch, Ask, StopChannel, RecordCap, ClearCap, RecordRefusal, storeVars,
       Statements
  <2>2. CASE RecordGarbled(i)
    <3>1. chan.retryCount \in Nat /\ RetryMax \in Nat
      BY IngestAssumption DEF Typed, StorePart, StoreTypeOK, ChannelRows
    <3>2. /\ Holds(i)
          /\ \E n \in Nat : chan' = CountRetry(chan, <<from[i], upto[i]>>, n, fence[i])
      BY <2>2, <3>1 DEF RecordGarbled, RecordRefusal, Refusals
    <3>3. QED
      BY <3>2 DEF Statements
  <2>3. CASE Moves(i)
    BY <2>3 DEF Moves, Process, RecordExpired, RecordAck, RecordRefusal
  <2>4. CASE ~(SkipFetch(i) \/ Ask(i) \/ StopChannel(i) \/ RecordCap(i) \/ ClearCap(i)
               \/ RecordGarbled(i) \/ Moves(i))
    BY <1>2, <2>4 DEF Pass, Moves, Renew, FetchBatch, FetchExpired, FetchUnanswered, FetchRefused,
       ProcessStops, ProcessCapped, AckAnswered, AckUnanswered, AckRefused, Housekeep,
       Deliver, EndDispatch, Mark, LoseLease, CommitFails, storeVars
  <2>5. QED
    BY <2>1, <2>2, <2>3, <2>4
<1>3. QED
  BY <1>1, <1>2

\* Every other write is an operator's, under the fence that the command takes.
LEMMA RowWritten ==
    ASSUME Typed, [Next]_vars
    PROVE  \/ chan' = chan
           \/ \E i \in Instances : Holds(i) /\ (Moves(i) \/ chan' \in Statements(i))
           \/ chan' \in OperatorStatements /\ lease'.fence = OperatorFence
<1>1. CASE RecoverRecord \/ ResyncRecord \/ ResyncIdentities
  BY <1>1 DEF RecoverRecord, ResyncRecord, ResyncIdentities, OperatorRecord, OperatorStatements
<1>2. CASE Gateway \/ AckArrives \/ LeaseExpires \/ Reconfigure \/ UNCHANGED vars
  BY <1>2 DEF Gateway, AckArrives, LeaseExpires, Reconfigure, vars, storeVars
<1>3. QED
  BY <1>1, <1>2, OwnWrites DEF Next, Operations

\* The statements that hold or release the channel leave its cursors alone.
LEMMA StatementsKeepCursors ==
    ASSUME Typed, NEW i \in Instances, NEW row \in Statements(i)
    PROVE  SameCursors(row, chan)
<1>1. /\ chan \in ChannelRows(Cursors) /\ fence[i] \in Nat /\ rev[i] \in Revisions
      /\ <<from[i], upto[i]>> \in Cursors \X Cursors
  BY IngestAssumption DEF Typed, StorePart, StoreTypeOK, ProcessPart, ProcessTypeOK
<1>2. SameCursors(Settle(chan, fence[i]), chan)
  BY <1>1, RowFacts
<1>3. /\ SameCursors(Stop(chan, rev[i], fence[i]), chan)
      /\ \A cap \in {"CAPACITY_REPORTS", "CAPACITY_IDENTITIES"} :
            SameCursors(Overload(chan, cap, fence[i]), chan)
      /\ \A n \in Nat : SameCursors(CountRetry(chan, <<from[i], upto[i]>>, n, fence[i]), chan)
  BY <1>1, HoldRowFacts
<1>4. QED
  BY <1>2, <1>3 DEF Statements

\* The cursors of the channel row: a commit, its acknowledgement, a 410 and a
\* resynchronisation bring them only to positions with no unrecorded record up to them.
LEMMA StoreBehindStep ==
    ASSUME Typed, Behind, [Next]_vars
    PROVE  StoreBehind'
<1>0. /\ SettledOrLost(chan.cursor) /\ SettledOrLost(chan.acked)
      /\ SettledOrLost(chan.earliest)
      /\ chan.cursor \in Int /\ chan.cursor <= Len(log)
      /\ chan.acked \in Int /\ chan.acked <= Len(log)
      /\ chan.earliest \in Int /\ chan.earliest <= Len(log)
      /\ \A i \in Instances : fence[i] \in Nat
      /\ chan \in ChannelRows(Cursors)
  BY BehindFits, IngestAssumption
     DEF Behind, StoreBehind, Typed, StorePart, StoreTypeOK, ProcessPart, ProcessTypeOK
<1> DEFINE Still(n) == \A p \in 1 .. n : Settled(p)' \/ p \in lost'
<1>1. Still(chan.cursor) /\ Still(chan.acked) /\ Still(chan.earliest)
  BY <1>0, SettledOrLostStays
<1>2. ASSUME Still(chan'.cursor), Still(chan'.acked), Still(chan'.earliest)
      PROVE  StoreBehind'
  BY <1>2 DEF StoreBehind, SettledOrLost
<1>3. ASSUME NEW i \in Instances, Process(i)
      PROVE  StoreBehind'
  <2>1. /\ chan'.acked = chan.acked /\ chan'.earliest = chan.earliest
        /\ chan'.cursor = upto[i]
    BY <1>3, BatchTyped DEF Process
  <2>2. Still(from[i]) /\ from[i] \in Int /\ upto[i] \in Int
    BY BehindFits, SettledOrLostStays DEF Behind, ProcessBehind
  <2>3. Still(upto[i])
    BY <1>3, <2>2, BatchSettles DEF Batch
  <2>4. QED
    BY <1>1, <1>2, <2>1, <2>3
<1>4. ASSUME NEW i \in Instances, RecordExpired(i) \/ RecordAck(i)
      PROVE  StoreBehind'
  <2>1. /\ pc[i] \in Releasable
        /\ \/ chan' = Expire(chan, upto[i], fence[i])
           \/ chan' = RecordAcked(chan, upto[i], fence[i])
    BY <1>4 DEF RecordExpired, RecordAck, RecordRefusal, Releasable
  <2>2. Still(upto[i])
    BY <2>1, BehindFits, SettledOrLostStays DEF Behind, ProcessBehind
  <2>3. chan \in ChannelRows(Cursors) /\ fence[i] \in Nat /\ upto[i] \in Cursors
    BY <1>0 DEF Typed, ProcessPart, ProcessTypeOK
  <2>4. /\ Expire(chan, upto[i], fence[i]).cursor = chan.cursor
        /\ Expire(chan, upto[i], fence[i]).acked = chan.acked
        /\ Expire(chan, upto[i], fence[i]).earliest = upto[i]
        /\ RecordAcked(chan, upto[i], fence[i]).cursor = chan.cursor
        /\ RecordAcked(chan, upto[i], fence[i]).acked = upto[i]
        /\ RecordAcked(chan, upto[i], fence[i]).earliest = chan.earliest
    BY <2>3, CursorRowFacts
  <2>5. QED
    BY <1>1, <1>2, <2>1, <2>2, <2>4
<1>5. ASSUME chan' \in OperatorStatements
      PROVE  StoreBehind'
  <2>1. OperatorFence \in Nat
    BY IngestAssumption DEF OperatorFence, Typed, StorePart, StoreTypeOK
  <2>2. Still(NoCursor)
    BY DEF NoCursor
  <2>3. /\ SameCursors(Recover(chan, OperatorFence), chan)
        /\ SameCursors(Settle(chan, OperatorFence), chan)
        /\ Resync(chan, OperatorFence).cursor = chan.earliest
        /\ Resync(chan, OperatorFence).acked = chan.earliest
        /\ Resync(chan, OperatorFence).earliest = NoCursor
    BY <1>0, <2>1, RowFacts
  <2>4. QED
    BY <1>1, <1>2, <1>5, <2>2, <2>3 DEF SameCursors, OperatorStatements
<1>6. ASSUME NEW i \in Instances, chan' \in Statements(i)
      PROVE  StoreBehind'
  BY <1>1, <1>2, <1>6, StatementsKeepCursors DEF SameCursors
<1>7. QED
  BY <1>1, <1>2, <1>3, <1>4, <1>5, <1>6, RowWritten DEF Moves

\* A step by which no process learns of a new position, apart from the row's own cursors.
LEMMA ProcessKeeps ==
    ASSUME Typed, Behind, [Next]_vars,
           \A j \in Instances :
              /\ refetch'[j] \in {refetch[j], NoRefetch, chan.acked}
              /\ from'[j] \in {from[j], NoCursor, refetch[j], chan.cursor}
              /\ pc'[j] \in Releasable => pc[j] \in Releasable /\ upto'[j] = upto[j]
    PROVE  ProcessBehind'
<1> DEFINE Still(n) == \A p \in 1 .. n : Settled(p)' \/ p \in lost'
<1>1. Still(chan.cursor) /\ Still(chan.acked) /\ Still(NoCursor) /\ Still(NoRefetch)
  <2>1. Still(chan.cursor) /\ Still(chan.acked)
    BY BehindFits, SettledOrLostStays DEF Behind, StoreBehind
  <2>2. QED
    BY <2>1 DEF NoCursor, NoRefetch
<1>2. ASSUME NEW j \in Instances
      PROVE  /\ Still(refetch[j]) /\ Still(from[j])
             /\ pc[j] \in Releasable => Still(upto[j])
  BY BehindFits, SettledOrLostStays DEF Behind, ProcessBehind
<1>3. ASSUME NEW j \in Instances
      PROVE  /\ Still(refetch'[j]) /\ Still(from'[j])
             /\ pc'[j] \in Releasable => Still(upto'[j])
  BY <1>1, <1>2
<1>4. QED
  BY <1>3 DEF ProcessBehind, SettledOrLost

\* What a process fetched from, is about to fetch from again, or is about to acknowledge or
\* record: a restart, a read, a 410, a commit and the steps between them.
LEMMA ProcessBehindStep ==
    ASSUME Typed, Behind, [Next]_vars
    PROVE  ProcessBehind'
<1> DEFINE Still(n) == \A p \in 1 .. n : Settled(p)' \/ p \in lost'
<1>0. ProcessTypeOK
  BY DEF Typed, ProcessPart
<1>1. CASE UNCHANGED processVars
  BY <1>1, ProcessKeeps DEF processVars
<1>2. ASSUME NEW i \in Instances, EndPass(i, "idle") \/ EndPass(i, "blocked"),
             UNCHANGED lifeVars
      PROVE  ProcessBehind'
  BY <1>0, <1>2, ProcessKeeps DEF EndPass, Goto, lifeVars, ProcessTypeOK, Releasable
<1>3. ASSUME NEW i \in Instances, Forget(i)
      PROVE  ProcessBehind'
  BY <1>0, <1>3, ProcessKeeps DEF Forget, EndPass, Goto, ProcessTypeOK, Releasable
<1>4. ASSUME NEW i \in Instances, NEW label \in PCs \ Releasable, Goto(i, label),
             UNCHANGED <<refetch, from>>, upto' = upto
      PROVE  ProcessBehind'
  BY <1>0, <1>4, ProcessKeeps DEF Goto, ProcessTypeOK
<1>5. ASSUME NEW i \in Instances, Life(i)
      PROVE  ProcessBehind'
  <2>1. CASE StartAcquire(i) \/ StartBlocked(i)
    BY <1>4, <2>1 DEF StartAcquire, StartBlocked, PCs, Releasable, passVars, lifeVars
  <2>2. CASE StartFinish(i)
    BY <1>0, <2>2, ProcessKeeps DEF StartFinish, Goto, ProcessTypeOK, passVars, Releasable
  <2>3. CASE Close(i) \/ Crash(i)
    BY <1>3, <2>3 DEF Close, Crash
  <2>4. QED
    BY <1>5, <2>1, <2>2, <2>3 DEF Life
<1>6. ASSUME NEW i \in Instances,
             Renew(i) \/ SkipFetch(i) \/ FetchRefused(i) \/ ProcessStops(i) \/ ProcessCapped(i)
             \/ AckUnanswered(i) \/ AckRefused(i) \/ Housekeep(i) \/ Deliver(i) \/ Mark(i)
      PROVE  ProcessBehind'
  <2>1. /\ UNCHANGED <<refetch, from, upto>>
        /\ \E label \in PCs \ Releasable : Goto(i, label)
    <3>1. {"renewed", "blocked", "house", "stopping", "capped", "dispatch", "mark"}
             \subseteq PCs \ Releasable
      BY DEF PCs, Releasable
    <3>2. /\ UNCHANGED <<refetch, from, upto>>
          /\ \E label \in {"renewed", "blocked", "house", "stopping", "capped", "dispatch",
                           "mark"} : Goto(i, label)
      BY <1>6 DEF Renew, SkipFetch, FetchRefused, ProcessStops, ProcessCapped, AckUnanswered,
         AckRefused, Housekeep, Deliver, Mark, passVars, lifeVars
    <3>3. QED
      BY <3>1, <3>2
  <2>2. QED
    BY <1>4, <2>1
<1>7. ASSUME NEW i \in Instances, Ask(i)
      PROVE  ProcessBehind'
  BY <1>0, <1>7, ProcessKeeps DEF Ask, Goto, ProcessTypeOK, lifeVars, Releasable
<1>8. ASSUME NEW i \in Instances, AckAnswered(i) \/ ClearCap(i)
      PROVE  ProcessBehind'
  <2>1. /\ UNCHANGED <<refetch, from, upto>> /\ pc[i] \in Releasable
        /\ Goto(i, "acked") \/ Goto(i, "committed")
    BY <1>8 DEF AckAnswered, ClearCap, RecordRefusal, passVars, lifeVars, Releasable
  <2>2. QED
    BY <1>0, <2>1, ProcessKeeps DEF Goto, ProcessTypeOK
<1>9. ASSUME NEW i \in Instances,
             RecordExpired(i) \/ StopChannel(i) \/ RecordGarbled(i) \/ RecordCap(i)
             \/ RecordAck(i) \/ FetchUnanswered(i) \/ EndDispatch(i)
      PROVE  ProcessBehind'
  <2>1. /\ UNCHANGED lifeVars
        /\ \/ EndPass(i, "idle")
           \/ (Goto(i, "stopping") \/ Goto(i, "house")) /\ UNCHANGED passVars
    BY <1>9 DEF RecordExpired, StopChannel, RecordGarbled, RecordCap, RecordAck,
       RecordRefusal, FetchUnanswered, EndDispatch
  <2>2. QED
    BY <1>2, <1>4, <2>1 DEF PCs, Releasable, passVars, lifeVars
<1>10. ASSUME NEW i \in Instances, LoseLease(i) \/ CommitFails(i)
       PROVE  ProcessBehind'
  <2>1. \/ Forget(i)
        \/ UNCHANGED lifeVars /\ (EndPass(i, "idle") \/ EndPass(i, "blocked"))
    BY <1>10 DEF LoseLease, CommitFails
  <2>2. QED
    BY <1>2, <1>3, <2>1
<1>11. \A j \in Instances : /\ Still(refetch[j]) /\ Still(from[j])
                            /\ pc[j] \in Releasable => Still(upto[j])
  BY BehindFits, SettledOrLostStays DEF Behind, ProcessBehind
<1>12. ASSUME NEW i \in Instances, FetchBatch(i)
       PROVE  ProcessBehind'
  <2>1. Still(ReadFrom(from[i]))
    <3>1. Still(floor')
      BY GatewayBehindStep DEF GatewayBehind, SettledOrLost
    <3>2. floor' = RetainedFrom(log, acked)
      BY <1>12 DEF FetchBatch, ReadBatch, Retain
    <3>3. QED
      BY <1>11, <3>1, <3>2 DEF ReadFrom
  <2>2. /\ from' = [from EXCEPT ![i] = ReadFrom(from[i])] /\ refetch' = refetch
        /\ Goto(i, "got") \/ Goto(i, "garbled")
    BY <1>12 DEF FetchBatch, lifeVars
  <2>3. \A j \in Instances : /\ refetch'[j] = refetch[j]
                             /\ from'[j] = from[j] \/ from'[j] = ReadFrom(from[i])
    BY <1>0, <2>2 DEF ProcessTypeOK
  <2>4. \A j \in Instances : pc'[j] \in Releasable => pc[j] \in Releasable /\ upto'[j] = upto[j]
    BY <1>0, <1>12, <2>2 DEF FetchBatch, Goto, ProcessTypeOK, Releasable
  <2>5. QED
    BY <1>11, <2>1, <2>3, <2>4 DEF ProcessBehind, SettledOrLost
<1>13. ASSUME NEW i \in Instances, FetchExpired(i)
       PROVE  ProcessBehind'
  <2>1. Still(floor')
    BY GatewayBehindStep DEF GatewayBehind, SettledOrLost
  <2>2. /\ upto' = [upto EXCEPT ![i] = floor'] /\ refetch' = refetch /\ from' = from
        /\ Goto(i, "expired")
    BY <1>13 DEF FetchExpired, lifeVars
  <2>3. \A j \in Instances :
           pc'[j] \in Releasable =>
              upto'[j] = floor' \/ (pc[j] \in Releasable /\ upto'[j] = upto[j])
    BY <1>0, <2>2 DEF Goto, ProcessTypeOK, Releasable
  <2>4. QED
    BY <1>11, <2>1, <2>2, <2>3 DEF ProcessBehind, SettledOrLost
<1>14. ASSUME NEW i \in Instances, Process(i)
       PROVE  ProcessBehind'
  <2>1. Still(from[i]) /\ from[i] \in Int /\ upto[i] \in Int
    BY <1>11, BehindFits
  <2>2. Still(upto[i])
    BY <1>14, <2>1, BatchSettles DEF Batch
  <2>3. /\ refetch' = [refetch EXCEPT ![i] = NoRefetch] /\ from' = from /\ upto' = upto
        /\ Goto(i, "consumed") \/ Goto(i, "committed")
    BY <1>14 DEF Process, passVars
  <2>4. \A j \in Instances : /\ refetch'[j] \in {refetch[j], NoRefetch}
                             /\ pc'[j] \in Releasable => pc[j] \in Releasable \/ j = i
    BY <1>0, <2>3 DEF Goto, ProcessTypeOK, Releasable
  <2>5. Still(NoRefetch)
    BY DEF NoRefetch, NoCursor
  <2>6. QED
    BY <1>11, <2>2, <2>3, <2>4, <2>5 DEF ProcessBehind, SettledOrLost
<1>15. CASE Gateway \/ AckArrives \/ LeaseExpires \/ Operations \/ UNCHANGED vars
  BY <1>1, <1>15 DEF Gateway, AckArrives, LeaseExpires, Operations, RecoverRecord, ResyncRecord,
     ResyncIdentities, OperatorRecord, Reconfigure, vars
<1>16. QED
  BY <1>5, <1>6, <1>7, <1>8, <1>9, <1>10, <1>12, <1>13, <1>14, <1>15 DEF Next, Pass

\* An acknowledgement leaves for a committed batch only, and may arrive at any time after.
LEMMA OuterBehindStep ==
    ASSUME Typed, Behind, [Next]_vars
    PROVE  OuterBehind'
<1> DEFINE Still(n) == \A p \in 1 .. n : Settled(p)' \/ p \in lost'
<1>1. \A n \in ackCalls : Still(n)
  BY BehindFits, SettledOrLostStays DEF Behind, OuterBehind
<1>2. CASE ackCalls' \subseteq ackCalls
  BY <1>1, <1>2 DEF OuterBehind, SettledOrLost
<1>3. ASSUME NEW i \in Instances, AckUnanswered(i)
      PROVE  OuterBehind'
  <2>1. Still(upto[i])
    BY <1>3, BehindFits, SettledOrLostStays DEF AckUnanswered, Behind, ProcessBehind, Releasable
  <2>2. ackCalls' = ackCalls \cup {upto[i]}
    BY <1>3 DEF AckUnanswered
  <2>3. QED
    BY <1>1, <2>1, <2>2 DEF OuterBehind, SettledOrLost
<1>4. ASSUME NEW i \in Instances, Pass(i) \/ Life(i), ~AckUnanswered(i)
      PROVE  ackCalls' = ackCalls
  <2>1. CASE Life(i)
    BY <2>1 DEF Life, StartAcquire, StartBlocked, StartFinish, Close, Crash, outerVars
  <2>2. CASE Pass(i)
    BY <1>4, <2>2 DEF Pass, Renew, SkipFetch, Ask, FetchBatch, FetchExpired, FetchUnanswered,
       FetchRefused, Process, ProcessStops, ProcessCapped, RecordExpired, StopChannel,
       RecordGarbled, RecordCap, ClearCap, RecordAck, RecordRefusal, AckAnswered, AckRefused,
       Housekeep, Deliver, EndDispatch, Mark, LoseLease, CommitFails, outerVars
  <2>3. QED
    BY <1>4, <2>1, <2>2
<1>5. CASE Gateway \/ AckArrives \/ LeaseExpires \/ Operations \/ UNCHANGED vars
  BY <1>2, <1>5 DEF Gateway, AckArrives, LeaseExpires, Operations, RecoverRecord, ResyncRecord,
     ResyncIdentities, OperatorRecord, Reconfigure, vars, outerVars
<1>6. QED
  BY <1>2, <1>3, <1>4, <1>5 DEF Next

\* Behind holds of a new store,
LEMMA InitBehind == Init => Behind
BY DEF Init, GatewayInit, InitialRow, NoCursor, NoRefetch, Behind, GatewayBehind, StoreBehind,
   ProcessBehind, OuterBehind, Releasable, SettledOrLost

\* every step keeps it,
LEMMA BehindStep == Typed /\ Behind /\ [Next]_vars => Behind'
BY GatewayBehindStep, StoreBehindStep, ProcessBehindStep, OuterBehindStep DEF Behind

\* hence it always holds.
LEMMA BehindAlways == Spec => []Behind
BY InitBehind, BehindStep, TypedAlways, PTL DEF Spec

\* The gateway forgets a record without a loss row only when the bridge has its disposition on
\* disk, for any number of processes, records, crashes, takeovers, lost and late calls: the
\* acknowledgement follows the commit (run_once, process, provider.ack, provider._retain).
THEOREM NothingIsForgotten == Spec => []NothingForgotten
<1>1. Behind => NothingForgotten
  BY DEF Behind, GatewayBehind, NothingForgotten
<1>2. QED
  BY <1>1, BehindAlways, PTL

\* No cursor of the bridge, on disk or in memory, is ahead of an unrecorded record: a commit, a
\* restart and a resynchronisation bring it only where every record below is settled or on the
\* gateway's loss table (SQL_CHANNEL_CURSOR, start, resync).
THEOREM CursorsAreBehindRecords == Spec => []CursorsBehindRecords
<1>1. Behind => CursorsBehindRecords
  BY DEF Behind, StoreBehind, ProcessBehind, CursorsBehindRecords
<1>2. QED
  BY <1>1, BehindAlways, PTL

-----------------------------------------------------------------------------
\* Gaps and fences of the channel row.

\* A row is NORMAL only with no gap on record, and INCOMPLETE only with one.
Recorded(c) ==
    /\ c.state = "NORMAL" => ~c.incomplete
    /\ c.state = "INCOMPLETE" => c.incomplete

\* Every statement keeps that of a row, in whatever state it finds it.
LEMMA StatementsKeepRecord ==
    ASSUME NEW c \in ChannelRows(Cursors), Recorded(c), NEW f, NEW x, NEW y
    PROVE  /\ Recorded(MoveCursor(c, x, f)) /\ Recorded(RecordAcked(c, x, f))
           /\ Recorded(Overload(c, x, f)) /\ Recorded(Settle(c, f)) /\ Recorded(Stop(c, x, f))
           /\ Recorded(Expire(c, x, f)) /\ Recorded(Resync(c, f)) /\ Recorded(RecordGap(c, f))
           /\ Recorded(CloseEpoch(c, f)) /\ Recorded(Recover(c, f)) /\ Recorded(Degrade(c, f))
           /\ Recorded(CountRetry(c, x, y, f))
<1>1. Recorded(MoveCursor(c, x, f)) /\ Recorded(RecordAcked(c, x, f))
  BY DEF ChannelRows, Recorded, MoveCursor, RecordAcked
<1>2. Recorded(Overload(c, x, f)) /\ Recorded(Stop(c, x, f)) /\ Recorded(Expire(c, x, f))
  BY DEF ChannelRows, Recorded, Overload, Stop, Expire
<1>3. Recorded(Settle(c, f)) /\ Recorded(Resync(c, f)) /\ Recorded(CloseEpoch(c, f))
  BY DEF ChannelRows, Recorded, Settle, Resync, CloseEpoch
<1>4. Recorded(RecordGap(c, f)) /\ Recorded(Recover(c, f))
  BY DEF ChannelRows, Recorded, RecordGap, Recover
<1>5. Recorded(Degrade(c, f)) /\ Recorded(CountRetry(c, x, y, f))
  BY DEF ChannelRows, Recorded, Degrade, CountRetry
<1>6. QED
  BY <1>1, <1>2, <1>3, <1>4, <1>5

\* A batch may record a gap, close the scope and find a clash, in one transaction.
LEMMA BatchKeepsRecord ==
    ASSUME Typed, GapOnRecord, NEW i \in Instances
    PROVE  Recorded(RowAfterBatch(i))
<1> DEFINE gap   == IF SequenceGap(i) \/ Holding(i, "gap") THEN RecordGap(chan, fence[i])
                                                          ELSE chan
           reset == IF Holding(i, "reset") THEN CloseEpoch(gap, fence[i]) ELSE gap
           clash == IF Clashes(i) # {} THEN Degrade(reset, fence[i]) ELSE reset
<1>1. chan \in ChannelRows(Cursors) /\ Recorded(chan) /\ fence[i] \in Nat
  BY IngestAssumption DEF GapOnRecord, Recorded, Typed, StorePart, StoreTypeOK, ProcessPart,
     ProcessTypeOK
<1>2. gap \in ChannelRows(Cursors) /\ Recorded(gap)
  BY <1>1, RowFacts, StatementsKeepRecord
<1>3. reset \in ChannelRows(Cursors) /\ Recorded(reset)
  <2> HIDE DEF gap
  <2>1. QED
    BY <1>1, <1>2, RowFacts, StatementsKeepRecord
<1>4. clash \in ChannelRows(Cursors) /\ Recorded(clash)
  <2> HIDE DEF reset
  <2>1. QED
    BY <1>1, <1>3, RowFacts, StatementsKeepRecord
<1>5. RowAfterBatch(i) = MoveCursor(clash, upto[i], fence[i])
  BY DEF RowAfterBatch
<1>6. QED
  <2> HIDE DEF clash
  <2>1. Recorded(MoveCursor(clash, upto[i], fence[i]))
    BY <1>4, StatementsKeepRecord
  <2>2. QED
    BY <1>5, <2>1

\* A gap that nothing erases: caps, stops, resets, batches, takeovers and operator records
\* never leave a channel NORMAL with a gap on record, nor INCOMPLETE without one (bridge.py and
\* the statements of store.py).
THEOREM GapsStayOnRecord == Spec => []GapOnRecord
<1>1. Init => GapOnRecord
  BY DEF Init, InitialRow, GapOnRecord
<1>2. Typed /\ GapOnRecord /\ [Next]_vars => GapOnRecord'
  <2> SUFFICES ASSUME Typed, GapOnRecord, [Next]_vars
               PROVE  Recorded(chan')
    BY DEF GapOnRecord, Recorded
  <2>1. chan \in ChannelRows(Cursors) /\ Recorded(chan)
    BY DEF GapOnRecord, Recorded, Typed, StorePart, StoreTypeOK
  <2>2. ASSUME NEW i \in Instances, Moves(i)
        PROVE  Recorded(chan')
    <3>1. \/ chan' = RowAfterBatch(i) \/ chan' = Expire(chan, upto[i], fence[i])
          \/ chan' = RecordAcked(chan, upto[i], fence[i])
      BY <2>2 DEF Moves, Process, RecordExpired, RecordAck, RecordRefusal
    <3>2. /\ Recorded(Expire(chan, upto[i], fence[i]))
          /\ Recorded(RecordAcked(chan, upto[i], fence[i]))
      BY <2>1, StatementsKeepRecord
    <3>3. QED
      BY <3>1, <3>2, BatchKeepsRecord
  <2>3. ASSUME NEW i \in Instances, chan' \in Statements(i)
        PROVE  Recorded(chan')
    <3>1. \A f, x, y : /\ Recorded(Settle(chan, f)) /\ Recorded(Stop(chan, x, f))
                       /\ Recorded(Overload(chan, x, f)) /\ Recorded(CountRetry(chan, x, y, f))
      BY <2>1, StatementsKeepRecord
    <3>2. QED
      BY <2>3, <3>1 DEF Statements
  <2>4. CASE chan' \in OperatorStatements
    <3>1. \A f : /\ Recorded(Settle(chan, f)) /\ Recorded(Recover(chan, f))
                 /\ Recorded(Resync(chan, f))
      BY <2>1, StatementsKeepRecord
    <3>2. QED
      BY <2>4, <3>1 DEF OperatorStatements
  <2>5. QED
    BY <2>1, <2>2, <2>3, <2>4, RowWritten
<1>3. QED
  BY <1>1, <1>2, TypedAlways, PTL DEF Spec

\* The fence of the channel row is never ahead of the lease's.
FenceBehindLease == chan.fence <= lease.fence

\* Only an acquisition moves the lease's fence, and moves it up.
LEMMA LeaseFenceGrows ==
    ASSUME Typed, [Next]_vars
    PROVE  lease.fence \in Int /\ lease'.fence \in Int /\ lease.fence <= lease'.fence
<1>1. /\ lease.fence \in Int /\ lease'.fence \in Int
      /\ lease \in [holder: Instances \cup {Operator}, fence: 0 .. MaxFence, expired: BOOLEAN]
  BY StoreStep, IngestAssumption DEF Typed, StorePart, StoreTypeOK
<1>2. CASE lease' = lease
  BY <1>1, <1>2
<1>3. ASSUME NEW h, Acquire(h)
      PROVE  lease.fence <= lease'.fence
  BY <1>1, <1>3 DEF Acquire
<1>4. ASSUME lease' = [lease EXCEPT !.expired = TRUE]
      PROVE  lease.fence <= lease'.fence
  BY <1>1, <1>4
<1>5. ASSUME NEW i \in Instances, Pass(i) \/ Life(i)
      PROVE  lease.fence <= lease'.fence
  <2>1. CASE Life(i)
    BY <1>2, <1>3, <1>4, <2>1 DEF Life, StartAcquire, StartBlocked, StartFinish, Close, Crash,
       storeVars
  <2>2. CASE Renew(i)
    BY <1>2, <1>3, <2>2 DEF Renew
  <2>3. CASE Pass(i) /\ ~Renew(i)
    BY <1>2, <2>3 DEF Pass, SkipFetch, Ask, FetchBatch, FetchExpired, FetchUnanswered,
       FetchRefused, Process, ProcessStops, ProcessCapped, RecordExpired, StopChannel,
       RecordGarbled, RecordCap, ClearCap, RecordAck, RecordRefusal, AckAnswered,
       AckUnanswered, AckRefused, Housekeep, Deliver, EndDispatch, Mark, LoseLease,
       CommitFails, storeVars
  <2>4. QED
    BY <1>5, <2>1, <2>2, <2>3
<1>6. CASE LeaseExpires
  BY <1>1, <1>6 DEF LeaseExpires
<1>7. CASE RecoverRecord \/ ResyncRecord \/ ResyncIdentities
  BY <1>1, <1>7 DEF RecoverRecord, ResyncRecord, ResyncIdentities, OperatorRecord, OperatorFence
<1>8. CASE Gateway \/ AckArrives \/ Reconfigure \/ UNCHANGED vars
  BY <1>2, <1>8 DEF Gateway, AckArrives, Reconfigure, vars, storeVars
<1>9. QED
  BY <1>1, <1>5, <1>6, <1>7, <1>8 DEF Next, Operations

\* Every statement stores the fence of its writer.
LEMMA StatementsStoreFence ==
    ASSUME NEW c \in ChannelRows(Cursors), NEW f, NEW x, NEW y
    PROVE  /\ MoveCursor(c, x, f).fence = f /\ RecordAcked(c, x, f).fence = f
           /\ Overload(c, x, f).fence = f /\ Settle(c, f).fence = f /\ Stop(c, x, f).fence = f
           /\ Expire(c, x, f).fence = f /\ Resync(c, f).fence = f /\ Recover(c, f).fence = f
           /\ CountRetry(c, x, y, f).fence = f
<1>1. MoveCursor(c, x, f).fence = f /\ RecordAcked(c, x, f).fence = f
  BY DEF ChannelRows, MoveCursor, RecordAcked
<1>2. Overload(c, x, f).fence = f /\ Settle(c, f).fence = f /\ Stop(c, x, f).fence = f
  BY DEF ChannelRows, Overload, Settle, Stop
<1>3. Expire(c, x, f).fence = f /\ Resync(c, f).fence = f /\ Recover(c, f).fence = f
  BY DEF ChannelRows, Expire, Resync, Recover
<1>4. CountRetry(c, x, y, f).fence = f
  BY DEF ChannelRows, CountRetry
<1>5. QED
  BY <1>1, <1>2, <1>3, <1>4

\* A row that is written carries the fence of the lease, as it is or as the operator's
\* acquisition leaves it.
LEMMA WrittenUnderLease ==
    ASSUME Typed, [Next]_vars
    PROVE  chan' = chan \/ chan'.fence = lease.fence \/ chan'.fence = lease'.fence
<1>1. chan \in ChannelRows(Cursors)
  BY DEF Typed, StorePart, StoreTypeOK
<1>2. ASSUME NEW i \in Instances, Holds(i), Moves(i)
      PROVE  chan'.fence = lease.fence
  <2>1. CASE Process(i)
    <3> DEFINE gap   == IF SequenceGap(i) \/ Holding(i, "gap") THEN RecordGap(chan, fence[i])
                                                              ELSE chan
               reset == IF Holding(i, "reset") THEN CloseEpoch(gap, fence[i]) ELSE gap
               clash == IF Clashes(i) # {} THEN Degrade(reset, fence[i]) ELSE reset
    <3>1. fence[i] \in Nat
      BY IngestAssumption DEF Typed, ProcessPart, ProcessTypeOK
    <3>2. gap \in ChannelRows(Cursors)
      BY <1>1, <3>1, RowFacts
    <3>3. reset \in ChannelRows(Cursors)
      <4> HIDE DEF gap
      <4>1. QED
        BY <3>1, <3>2, RowFacts
    <3>4. clash \in ChannelRows(Cursors)
      <4> HIDE DEF reset
      <4>1. QED
        BY <3>1, <3>3, RowFacts
    <3>5. chan' = MoveCursor(clash, upto[i], fence[i])
      BY <2>1 DEF Process, RowAfterBatch
    <3> HIDE DEF clash
    <3>6. MoveCursor(clash, upto[i], fence[i]).fence = fence[i]
      BY <3>4, StatementsStoreFence
    <3>7. QED
      BY <1>2, <3>5, <3>6 DEF Holds
  <2>2. CASE RecordExpired(i) \/ RecordAck(i)
    <3>1. /\ Expire(chan, upto[i], fence[i]).fence = fence[i]
          /\ RecordAcked(chan, upto[i], fence[i]).fence = fence[i]
      BY <1>1, StatementsStoreFence
    <3>2. QED
      BY <1>2, <2>2, <3>1 DEF RecordExpired, RecordAck, RecordRefusal, Holds
  <2>3. QED
    BY <1>2, <2>1, <2>2 DEF Moves
<1>3. ASSUME NEW i \in Instances, Holds(i), chan' \in Statements(i)
      PROVE  chan'.fence = lease.fence
  <2>1. \A f, x, y : /\ Settle(chan, f).fence = f /\ Stop(chan, x, f).fence = f
                     /\ Overload(chan, x, f).fence = f /\ CountRetry(chan, x, y, f).fence = f
    BY <1>1, StatementsStoreFence
  <2>2. QED
    BY <1>3, <2>1 DEF Statements, Holds
<1>4. CASE chan' \in OperatorStatements /\ lease'.fence = OperatorFence
  <2>1. \A f : Settle(chan, f).fence = f /\ Recover(chan, f).fence = f
               /\ Resync(chan, f).fence = f
    BY <1>1, StatementsStoreFence
  <2>2. QED
    BY <1>4, <2>1 DEF OperatorStatements
<1>5. QED
  BY <1>2, <1>3, <1>4, RowWritten

\* A row was written under a fence that the lease had.
LEMMA FenceBehindLeaseAlways == Spec => []FenceBehindLease
<1>1. Init => FenceBehindLease
  BY DEF Init, InitialRow, FenceBehindLease
<1>2. Typed /\ FenceBehindLease /\ [Next]_vars => FenceBehindLease'
  BY WrittenUnderLease, LeaseFenceGrows
     DEF FenceBehindLease, Typed, StorePart, StoreTypeOK, ChannelRows
<1>3. QED
  BY <1>1, <1>2, TypedAlways, PTL DEF Spec

\* The fence of the channel row never goes back: whoever writes it holds the lease in the
\* transaction that writes it (Lease.check), so an overtaken process writes nothing.
THEOREM FenceOnlyAdvances == Spec => FenceAdvances
<1>1. Typed /\ FenceBehindLease /\ [Next]_vars => [chan'.fence >= chan.fence]_vars
  <2> SUFFICES ASSUME Typed, FenceBehindLease, [Next]_vars
               PROVE  chan'.fence >= chan.fence
    OBVIOUS
  <2>1. chan.fence \in Nat
    BY DEF Typed, StorePart, StoreTypeOK, ChannelRows
  <2>2. QED
    BY <2>1, WrittenUnderLease, LeaseFenceGrows DEF FenceBehindLease
<1>2. QED
  BY <1>1, TypedAlways, FenceBehindLeaseAlways, PTL DEF Spec, FenceAdvances

-----------------------------------------------------------------------------
\* The outbox.

\* An event that a process is to deliver is in the outbox; one it is to mark, in the sink.
Dispatching ==
    \A i \in Instances : /\ todo[i] \subseteq outbox
                         /\ pc[i] = "mark" => event[i] \in taken

\* The outbox and the sink only grow, and only a commit and a delivery add to them.
LEMMA OutboxSteps ==
    ASSUME [Next]_vars
    PROVE  /\ outbox \subseteq outbox' /\ taken \subseteq taken'
           /\ dispatched' # dispatched => \E i \in Instances : Mark(i)
           /\ taken' # taken => \E i \in Instances : Deliver(i)
<1>1. ASSUME NEW i \in Instances, Life(i)
      PROVE  UNCHANGED <<outbox, taken, dispatched>>
  BY <1>1 DEF Life, StartAcquire, StartBlocked, StartFinish, Close, Crash, storeVars,
     recordVars, outerVars
<1>2. ASSUME NEW i \in Instances, Pass(i), ~Process(i), ~Deliver(i), ~Mark(i)
      PROVE  UNCHANGED <<outbox, taken, dispatched>>
  BY <1>2 DEF Pass, Renew, SkipFetch, Ask, FetchBatch, FetchExpired, FetchUnanswered,
     FetchRefused, ProcessStops, ProcessCapped, RecordExpired, StopChannel, RecordGarbled,
     RecordCap, ClearCap, RecordAck, RecordRefusal, AckAnswered, AckUnanswered, AckRefused,
     Housekeep, EndDispatch, LoseLease, CommitFails, storeVars, recordVars, outerVars
<1>3. ASSUME NEW i \in Instances, Process(i) \/ Deliver(i) \/ Mark(i)
      PROVE  /\ outbox \subseteq outbox' /\ taken \subseteq taken'
             /\ dispatched' # dispatched => Mark(i)
             /\ taken' # taken => Deliver(i)
  BY <1>3 DEF Process, Deliver, SinkTakes, Mark, storeVars, recordVars, outerVars
<1>4. CASE Gateway \/ AckArrives \/ LeaseExpires \/ Operations \/ UNCHANGED vars
  BY <1>4 DEF Gateway, AckArrives, LeaseExpires, Operations, RecoverRecord, ResyncRecord,
     ResyncIdentities, OperatorRecord, Reconfigure, vars, storeVars, recordVars, outerVars
<1>5. QED
  BY <1>1, <1>2, <1>3, <1>4 DEF Next

\* A process that delivers or marks holds what it took from the outbox (_dispatch).
LEMMA DispatchingStep == Typed /\ Dispatching /\ [Next]_vars => Dispatching'
<1> SUFFICES ASSUME Typed, Dispatching, [Next]_vars
             PROVE  Dispatching'
  OBVIOUS
<1>0. ProcessTypeOK
  BY DEF Typed, ProcessPart
<1>1. ASSUME \A j \in Instances :
                /\ todo'[j] \subseteq todo[j]
                /\ pc'[j] = "mark" => pc[j] = "mark" /\ event'[j] = event[j]
      PROVE  Dispatching'
  BY <1>1, OutboxSteps DEF Dispatching
<1>2. CASE UNCHANGED processVars
  BY <1>1, <1>2 DEF processVars
<1>3. ASSUME NEW i \in Instances, EndPass(i, "idle") \/ EndPass(i, "blocked")
                                  \/ EndPass(i, "down")
      PROVE  Dispatching'
  BY <1>0, <1>1, <1>3 DEF EndPass, Goto, ProcessTypeOK
<1>4. ASSUME NEW i \in Instances, NEW label \in PCs \ {"mark"}, Goto(i, label), todo' = todo,
             event' = event
      PROVE  Dispatching'
  BY <1>0, <1>1, <1>4 DEF Goto, ProcessTypeOK
<1>5. ASSUME NEW i \in Instances, Housekeep(i)
      PROVE  Dispatching'
  <2>1. outbox' = outbox /\ todo' = [todo EXCEPT ![i] = outbox \ dispatched]
        /\ event' = event /\ taken' = taken /\ Goto(i, "dispatch")
    BY <1>5 DEF Housekeep, Pending, storeVars, recordVars, outerVars
  <2>2. QED
    BY <1>0, <2>1 DEF Dispatching, Goto, ProcessTypeOK
<1>6. ASSUME NEW i \in Instances, Deliver(i)
      PROVE  Dispatching'
  <2>1. PICK e \in todo[i] : /\ taken' = taken \cup {e}
                             /\ event' = [event EXCEPT ![i] = e]
                             /\ todo' = [todo EXCEPT ![i] = todo[i] \ {e}]
    BY <1>0, <1>6 DEF Deliver, SinkTakes, ProcessTypeOK
  <2>2. Goto(i, "mark") /\ outbox' = outbox
    BY <1>6 DEF Deliver, storeVars, recordVars
  <2>3. QED
    BY <1>0, <2>1, <2>2 DEF Dispatching, Goto, ProcessTypeOK
<1>7. ASSUME NEW i \in Instances, Mark(i)
      PROVE  Dispatching'
  <2>1. Goto(i, "dispatch") /\ todo' = todo /\ event' = [event EXCEPT ![i] = 0]
    BY <1>7 DEF Mark
  <2>2. QED
    BY <1>0, <1>1, <2>1 DEF Goto, ProcessTypeOK
<1>8. ASSUME NEW i \in Instances, Life(i)
      PROVE  Dispatching'
  <2>1. CASE StartAcquire(i) \/ StartBlocked(i) \/ StartFinish(i)
    BY <1>4, <2>1 DEF StartAcquire, StartBlocked, StartFinish, passVars, PCs
  <2>2. CASE Close(i) \/ Crash(i)
    BY <1>3, <2>2 DEF Close, Crash, Forget
  <2>3. QED
    BY <1>8, <2>1, <2>2 DEF Life
<1>9. ASSUME NEW i \in Instances,
             Renew(i) \/ SkipFetch(i) \/ Ask(i) \/ FetchBatch(i) \/ FetchExpired(i)
             \/ FetchRefused(i) \/ Process(i) \/ ProcessStops(i) \/ ProcessCapped(i)
             \/ ClearCap(i) \/ AckAnswered(i) \/ AckUnanswered(i) \/ AckRefused(i)
      PROVE  Dispatching'
  <2> DEFINE Labels == {"renewed", "blocked", "house", "asking", "got", "garbled", "expired",
                        "stopping", "consumed", "committed", "capped", "acked"}
  <2>1. Labels \subseteq PCs \ {"mark"}
    BY DEF PCs
  <2>2. /\ todo' = todo /\ event' = event
        /\ \E label \in Labels : Goto(i, label)
    BY <1>9 DEF Renew, SkipFetch, Ask, FetchBatch, FetchExpired, FetchRefused, Process,
       ProcessStops, ProcessCapped, ClearCap, RecordRefusal, AckAnswered, AckUnanswered,
       AckRefused, passVars
  <2>3. QED
    BY <1>4, <2>1, <2>2
<1>10. ASSUME NEW i \in Instances,
              RecordExpired(i) \/ StopChannel(i) \/ RecordGarbled(i) \/ RecordCap(i)
              \/ RecordAck(i) \/ FetchUnanswered(i) \/ EndDispatch(i)
       PROVE  Dispatching'
  <2>1. \/ EndPass(i, "idle")
        \/ (Goto(i, "stopping") \/ Goto(i, "house")) /\ UNCHANGED passVars
    BY <1>10 DEF RecordExpired, StopChannel, RecordGarbled, RecordCap, RecordAck,
       RecordRefusal, FetchUnanswered, EndDispatch
  <2>2. QED
    BY <1>3, <1>4, <2>1 DEF PCs, passVars
<1>11. ASSUME NEW i \in Instances, LoseLease(i) \/ CommitFails(i)
       PROVE  Dispatching'
  BY <1>3, <1>11 DEF LoseLease, CommitFails, Forget
<1>12. CASE Gateway \/ AckArrives \/ LeaseExpires \/ Operations \/ UNCHANGED vars
  BY <1>2, <1>12 DEF Gateway, AckArrives, LeaseExpires, Operations, RecoverRecord,
     ResyncRecord, ResyncIdentities, OperatorRecord, Reconfigure, vars
<1>13. QED
  BY <1>5, <1>6, <1>7, <1>8, <1>9, <1>10, <1>11, <1>12 DEF Next, Pass

LEMMA DispatchingAlways == Spec => []Dispatching
<1>1. Init => Dispatching
  BY DEF Init, Dispatching
<1>2. QED
  BY <1>1, DispatchingStep, TypedAlways, PTL DEF Spec

\* An event marked was taken; an event taken was in the outbox: a failed, repeated or overtaken
\* dispatch loses none and invents none (Ingestor.dispatch).
THEOREM MarkedWasTaken == Spec => []MarkedIsTaken
<1>1. Init => MarkedIsTaken
  BY DEF Init, MarkedIsTaken
<1>2. Typed /\ Dispatching /\ MarkedIsTaken /\ [Next]_vars => MarkedIsTaken'
  <2> SUFFICES ASSUME Typed, Dispatching, MarkedIsTaken, [Next]_vars
               PROVE  MarkedIsTaken'
    OBVIOUS
  <2>1. taken' \subseteq outbox'
    <3>1. ASSUME NEW i \in Instances, Deliver(i)
          PROVE  taken' \subseteq outbox
      BY <3>1 DEF Deliver, SinkTakes, Dispatching, MarkedIsTaken
    <3>2. QED
      BY <3>1, OutboxSteps DEF MarkedIsTaken
  <2>2. dispatched' \subseteq taken'
    <3>1. ASSUME NEW i \in Instances, Mark(i)
          PROVE  dispatched' \subseteq taken
      BY <3>1 DEF Mark, Dispatching, MarkedIsTaken
    <3>2. QED
      BY <3>1, OutboxSteps DEF MarkedIsTaken
  <2>3. QED
    BY <2>1, <2>2 DEF MarkedIsTaken
<1>3. QED
  BY <1>1, <1>2, TypedAlways, DispatchingAlways, PTL DEF Spec

-----------------------------------------------------------------------------
(***************************************************************************)
(* Proofs about the transfer of records as a whole: each is counted once,  *)
(* a held channel stays held, a loss inside a session is on record, and    *)
(* BridgeIngest implements RecordTransfer.                                 *)
(*                                                                         *)
(* They rest on what an ingest row says of the log (Rows), on a bridge     *)
(* that does nothing while an operator is waited for (Unheld), on the      *)
(* order of sessions and sequence numbers in the log (Order), and on what  *)
(* the last sequence number of a session says of the records before the    *)
(* cursor (Past).                                                          *)
(***************************************************************************)

\* A set of naturals that is not empty has a least element: the number of its lower bounds, less
\* one.  (It stands for the induction theorems, whose operator parameter no prover instantiates.)
LEMMA LeastNatural ==
    ASSUME NEW T \in SUBSET Nat, T # {}
    PROVE  \E x \in T : \A y \in T : x <= y
<1> DEFINE D == {m \in Nat : \A y \in T : m <= y}
           k == Cardinality(D)
<1>1. PICK n \in T : TRUE
  OBVIOUS
<1>2. D \in SUBSET Nat /\ n \in Nat /\ \A m \in D : m <= n
  BY <1>1
<1>3. IsFiniteSet(D) /\ k \in Nat
  BY <1>2, FS_BoundedSetOfNaturals, FS_CardinalityType
<1>4. 0 \in D /\ \A m \in D : 0 .. m \in SUBSET D
  OBVIOUS
<1>5. k \notin D
  <2>1. Cardinality(0 .. k) = k + 1
    BY <1>3, FS_Interval
  <2>2. k \in D => Cardinality(0 .. k) <= k
    BY <1>3, <1>4, FS_Subset
  <2>3. QED
    BY <1>3, <2>1, <2>2
<1>6. k - 1 \in D
  <2>1. ASSUME k - 1 \notin D
        PROVE  D \in SUBSET (0 .. k - 2)
    <3>1. ASSUME NEW m \in D, ~(m <= k - 2)
          PROVE  FALSE
      <4>1. m \in Nat /\ k - 1 <= m
        BY <1>2, <1>3, <3>1
      <4>2. k # 0
        <5>1. D # {}
          BY <1>4
        <5>2. QED
          BY <1>3, <5>1, FS_EmptySet
      <4>3. k - 1 \in 0 .. m
        BY <1>3, <4>1, <4>2
      <4>4. QED
        BY <1>4, <2>1, <4>3
    <3>2. QED
      BY <1>2, <1>3, <3>1
  <2>2. IsFiniteSet(0 .. k - 2) /\ Cardinality(0 .. k - 2) = IF 0 > k - 2 THEN 0 ELSE k - 1
    <3>1. k - 2 \in Int /\ k - 2 - 0 + 1 = k - 1
      BY <1>3
    <3>2. 0 \in Int
      OBVIOUS
    <3>3. /\ IsFiniteSet(0 .. k - 2)
          /\ Cardinality(0 .. k - 2) = IF 0 > k - 2 THEN 0 ELSE k - 2 - 0 + 1
      BY <3>1, <3>2, FS_Interval
    <3>4. QED
      BY <3>1, <3>3
  <2>3. k # 0
    <3>1. D # {}
      BY <1>4
    <3>2. QED
      BY <1>3, <3>1, FS_EmptySet
  <2>4. ASSUME k - 1 \notin D
        PROVE  k <= Cardinality(0 .. k - 2)
    BY <2>1, <2>2, <2>4, FS_Subset
  <2>5. QED
    BY <1>3, <2>2, <2>3, <2>4
<1>7. PICK y \in T : ~(k <= y)
  BY <1>3, <1>5
<1>8. y \in Nat /\ k - 1 <= y
  BY <1>6, <1>7
<1>9. y = k - 1
  BY <1>3, <1>7, <1>8
<1>10. QED
  BY <1>6, <1>9

-----------------------------------------------------------------------------
\* What a batch finds and leaves in the ingest rows.

\* A record of a batch, as the store sees it: its id has a row, it is the first of that id, or
\* another record of the batch is.
LEMMA FreshFacts ==
    ASSUME Typed, NEW i \in Instances, pc[i] = "got"
    PROVE  /\ Fresh(i) \subseteq Batch(i) /\ Batch(i) \subseteq 1 .. Len(log)
           /\ \A p \in Batch(i) : p \in Nat /\ log[p].id \in Ids
           /\ \A p, q \in Fresh(i) : log[p].id = log[q].id => p = q
           /\ \A p \in Batch(i) :
                 ingest[log[p].id] = 0 => \E q \in Fresh(i) : log[q].id = log[p].id
<1>1. /\ from[i] \in Nat /\ upto[i] \in Int /\ log \in Seq(Records)
      /\ Batch(i) \subseteq 1 .. Len(log)
  <2>1. log \in Seq(Records)
    BY DEF Typed, GatewayPart, GatewayTypeOK
  <2>2. from[i] \in Int /\ upto[i] \in Int /\ from[i] >= 0
    BY BehindFits DEF Typed, ProcessPart, ProcessFits, WithBatch
  <2>3. QED
    BY <2>1, <2>2, BatchTyped
<1>2. Fresh(i) \subseteq Batch(i)
  BY DEF Fresh
<1>3. \A p \in Batch(i) : p \in Nat /\ log[p].id \in Ids
  <2>1. \A p \in 1 .. Len(log) : log[p] \in Records
    BY <1>1
  <2>2. QED
    BY <1>1, <2>1 DEF Records, Batch
<1>4. ASSUME NEW p \in Fresh(i), NEW q \in Fresh(i), log[p].id = log[q].id
      PROVE  p = q
  <2>1. ASSUME NEW x \in Fresh(i), NEW y \in Fresh(i), log[x].id = log[y].id, x < y
        PROVE  FALSE
    <3>1. x \in from[i] + 1 .. y - 1
      BY <1>1, <2>1 DEF Fresh, Batch
    <3>2. QED
      BY <2>1, <3>1 DEF Fresh
  <2>2. p \in Nat /\ q \in Nat
    BY <1>2, <1>3
  <2>3. QED
    BY <1>4, <2>1, <2>2
<1>5. ASSUME NEW p \in Batch(i), ingest[log[p].id] = 0
      PROVE  \E q \in Fresh(i) : log[q].id = log[p].id
  <2> DEFINE T == {x \in Batch(i) : log[x].id = log[p].id}
  <2>1. T \in SUBSET Nat /\ T # {}
    BY <1>3
  <2>2. PICK q \in T : \A y \in T : q <= y
    BY <2>1, LeastNatural
  <2>3. \A y \in from[i] + 1 .. q - 1 : y \in Batch(i) /\ ~(q <= y)
    BY <1>1, <2>2 DEF Batch
  <2>4. q \in Fresh(i)
    BY <1>5, <2>2, <2>3 DEF Fresh
  <2>5. QED
    BY <2>2, <2>4
<1>6. QED
  BY <1>1, <1>2, <1>3, <1>4, <1>5

\* The row of an id after the batch: the one it had, or the fresh record's.
LEMMA RowAfterFacts ==
    ASSUME Typed, NEW i \in Instances, pc[i] = "got"
    PROVE  /\ \A p \in Fresh(i) : RowAfter(i, log[p].id) = p /\ ingest[log[p].id] = 0
           /\ \A d \in Ids : \/ RowAfter(i, d) \in Fresh(i) /\ log[RowAfter(i, d)].id = d
                             \/ RowAfter(i, d) = ingest[d]
           /\ \A p \in Batch(i) : RowAfter(i, log[p].id) # 0
<1>0. \A p, q \in Fresh(i) : log[p].id = log[q].id => p = q
  BY FreshFacts
<1>1. ASSUME NEW d \in Ids, NEW p \in Fresh(i), log[p].id = d
      PROVE  RowAfter(i, d) \in Fresh(i) /\ log[RowAfter(i, d)].id = d
  BY <1>1 DEF RowAfter
<1>2. ASSUME NEW p \in Fresh(i)
      PROVE  RowAfter(i, log[p].id) = p /\ ingest[log[p].id] = 0
  <2>1. log[p].id \in Ids
    BY FreshFacts
  <2>2. QED
    BY <1>1, <1>0, <2>1 DEF Fresh
<1>3. ASSUME NEW d \in Ids
      PROVE  \/ RowAfter(i, d) \in Fresh(i) /\ log[RowAfter(i, d)].id = d
             \/ RowAfter(i, d) = ingest[d]
  BY <1>1 DEF RowAfter
<1>4. ASSUME NEW p \in Batch(i)
      PROVE  RowAfter(i, log[p].id) # 0
  <2>1. p \in Nat /\ log[p].id \in Ids
    BY FreshFacts
  <2>2. CASE ingest[log[p].id] = 0
    <3>1. PICK q \in Fresh(i) : log[q].id = log[p].id
      BY <2>2, FreshFacts
    <3>2. RowAfter(i, log[p].id) = q /\ q \in 1 .. Len(log)
      BY <1>2, <3>1, FreshFacts
    <3>3. QED
      BY <3>2
  <2>3. CASE ingest[log[p].id] # 0
    BY <2>3 DEF RowAfter, Fresh
  <2>4. QED
    BY <2>2, <2>3
<1>5. QED
  BY <1>2, <1>3, <1>4

-----------------------------------------------------------------------------
\* What the proofs keep needing of the types of the log and of the cursor.
LEMMA Grown ==
    ASSUME Typed, [Next]_vars
    PROVE  /\ Len(log) \in Nat /\ Len(log') \in Nat /\ Len(log) <= Len(log')
           /\ \A p \in 1 .. Len(log) : /\ log'[p] = log[p] /\ p \in 1 .. Len(log')
                                       /\ log[p].id \in Ids /\ log[p].session \in Sessions
                                       /\ log[p].sequence \in Nat
           /\ \A p \in 1 .. Len(log') : log'[p].id \in Ids
           /\ chan.cursor \in Int /\ chan'.cursor \in Int
           /\ lastSequence \in [Sessions -> Nat \cup {-1}] /\ nextSequence \in Nat
<1>1. Len(log) \in Nat /\ log \in Seq(Records) /\ nextSequence \in Nat
  BY DEF Typed, GatewayPart, GatewayTypeOK
<1>2. Len(log') \in Nat /\ Len(log) <= Len(log') /\ log' \in Seq(Records)
  BY GatewayStep DEF GatewayPart, GatewayTypeOK
<1>3. \A p \in 1 .. Len(log) : log[p] \in Records /\ p \in 1 .. Len(log')
  BY <1>1, <1>2
<1>4. \A p \in 1 .. Len(log) : log[p].id \in Ids /\ log[p].session \in Sessions
                               /\ log[p].sequence \in Nat
  BY <1>3 DEF Records
<1>5. \A p \in 1 .. Len(log') : log'[p].id \in Ids
  <2>1. \A p \in 1 .. Len(log') : log'[p] \in Records
    BY <1>2
  <2>2. QED
    BY <2>1 DEF Records
<1>6. chan.cursor \in Int
  BY BehindFits
<1>7. chan'.cursor \in Int
  <2>1. chan' \in ChannelRows(Cursors)
    BY StoreStep DEF StorePart, StoreTypeOK
  <2>2. chan'.cursor \in Cursors
    BY <2>1 DEF ChannelRows
  <2>3. QED
    BY <2>2, GatewayAssumption DEF Cursors, NoCursor
<1>8. lastSequence \in [Sessions -> Nat \cup {-1}]
  BY DEF Typed, StorePart, StoreTypeOK
<1>9. QED
  BY <1>1, <1>2, <1>3, <1>4, <1>5, <1>6, <1>7, <1>8, LogGrows

-----------------------------------------------------------------------------
\* Which steps change what.

\* The tables of the ingest change in one transaction only.
LEMMA RecordSteps ==
    ASSUME [Next]_vars
    PROVE  UNCHANGED recordVars \/ \E i \in Instances : Process(i)
<1>1. ASSUME NEW i \in Instances, Life(i)
      PROVE  UNCHANGED recordVars
  BY <1>1 DEF Life, StartAcquire, StartBlocked, StartFinish, Close, Crash, storeVars, recordVars
<1>2. ASSUME NEW i \in Instances, Pass(i), ~Process(i)
      PROVE  UNCHANGED recordVars
  BY <1>2 DEF Pass, Renew, SkipFetch, Ask, FetchBatch, FetchExpired, FetchUnanswered,
     FetchRefused, ProcessStops, ProcessCapped, RecordExpired, StopChannel, RecordGarbled,
     RecordCap, ClearCap, RecordAck, RecordRefusal, AckAnswered, AckUnanswered, AckRefused,
     Housekeep, Deliver, EndDispatch, Mark, LoseLease, CommitFails, storeVars, recordVars
<1>3. CASE Gateway \/ AckArrives \/ LeaseExpires \/ Operations \/ UNCHANGED vars
  BY <1>3 DEF Gateway, AckArrives, LeaseExpires, Operations, RecoverRecord, ResyncRecord,
     ResyncIdentities, OperatorRecord, Reconfigure, vars, storeVars, recordVars
<1>4. QED
  BY <1>1, <1>2, <1>3 DEF Next

\* The log and the order of its records change in the gateway's own steps only.
LEMMA LogSteps ==
    ASSUME Typed, [Next]_vars, ~Gateway
    PROVE  UNCHANGED <<log, session, nextSequence>>
<1>1. ASSUME NEW n, Acknowledge(n)
      PROVE  UNCHANGED <<log, session, nextSequence>>
  BY <1>1 DEF Acknowledge
<1>2. ASSUME NEW i \in Instances, FetchBatch(i) \/ FetchExpired(i) \/ AckAnswered(i)
      PROVE  UNCHANGED <<log, session, nextSequence>>
  BY <1>1, <1>2 DEF FetchBatch, FetchExpired, AckAnswered, ReadBatch, ReadExpired
<1>3. ASSUME NEW i \in Instances, Pass(i) \/ Life(i),
             ~(FetchBatch(i) \/ FetchExpired(i) \/ AckAnswered(i))
      PROVE  UNCHANGED <<log, session, nextSequence>>
  BY <1>3, OnlyThreeCalls DEF gatewayVars
<1>4. CASE AckArrives \/ LeaseExpires \/ Operations \/ UNCHANGED vars
  BY <1>1, <1>4 DEF AckArrives, LeaseExpires, Operations, RecoverRecord, ResyncRecord,
     ResyncIdentities, OperatorRecord, Reconfigure, vars, gatewayVars
<1>5. QED
  BY <1>2, <1>3, <1>4 DEF Next

\* The gateway's floor only rises, and what it passes is all that can get a loss row.
FloorMoves ==
    /\ floor' \in Nat /\ floor <= floor'
    /\ \E new \in SUBSET (floor + 1 .. floor') : lost' = lost \cup new

LEMMA FloorRises ==
    ASSUME Typed, [Next]_vars
    PROVE  floor \in Nat /\ FloorMoves
<1>0. /\ floor \in Nat /\ acked \in Nat /\ aged \in Nat /\ RetentionRecords \in Nat
      /\ log \in Seq(Records) /\ Len(log) \in Nat /\ Len(log') \in Nat
      /\ \A i \in Instances : upto[i] \in Int
      /\ \A n \in ackCalls : n \in Int
  BY BehindFits, GatewayStep, GatewayAssumption DEF Typed, GatewayPart, GatewayTypeOK
<1>1. ASSUME floor' = floor, lost' = lost
      PROVE  FloorMoves
  <2>1. {} \in SUBSET (floor + 1 .. floor') /\ lost' = lost \cup {}
    BY <1>1
  <2>2. \E new \in SUBSET (floor + 1 .. floor') : lost' = lost \cup new
    <3>1. WITNESS {} \in SUBSET (floor + 1 .. floor')
    <3>2. QED
      BY <2>1
  <2>3. floor' \in Nat /\ floor <= floor'
    BY <1>0, <1>1
  <2>4. QED
    BY <2>2, <2>3, Zenon DEF FloorMoves
<1>2. ASSUME NEW l, Len(l) \in Nat, NEW a \in Int, Retain(l, a)
      PROVE  FloorMoves
  <2> DEFINE new == Later(floor, a) + 1 .. RetainedFrom(l, a)
  <2>1. floor' = RetainedFrom(l, a) /\ lost' = lost \cup new
    BY <1>2 DEF Retain
  <2>2. /\ RetainedFrom(l, a) \in Nat /\ floor <= RetainedFrom(l, a)
        /\ Later(floor, a) \in Nat /\ floor <= Later(floor, a)
    BY <1>0, <1>2 DEF RetainedFrom, Later
  <2>3. new \in SUBSET (floor + 1 .. floor')
    BY <1>0, <2>1, <2>2
  <2>4. QED
    BY <2>1, <2>2, <2>3 DEF FloorMoves
<1>3. ASSUME NEW n \in Int, Acknowledge(n)
      PROVE  (floor' = floor /\ lost' = lost) \/ Retain(log, n)
  BY <1>3 DEF Acknowledge
<1>4. ASSUME NEW i \in Instances, FetchBatch(i) \/ FetchExpired(i)
      PROVE  Retain(log, acked)
  BY <1>4 DEF FetchBatch, FetchExpired, ReadBatch, ReadExpired
<1>5. ASSUME NEW i \in Instances, AckAnswered(i)
      PROVE  (floor' = floor /\ lost' = lost) \/ Retain(log, upto[i])
  BY <1>0, <1>3, <1>5 DEF AckAnswered
<1>6. CASE AckArrives
  <2>1. \E n \in ackCalls : (floor' = floor /\ lost' = lost) \/ Retain(log, n)
    BY <1>0, <1>3, <1>6 DEF AckArrives
  <2>2. QED
    BY <1>0, <1>1, <1>2, <2>1
<1>7. CASE Gateway
  <2>1. ASSUME NEW id \in Ids, NEW kind \in Kinds, Publish(id, kind)
        PROVE  Retain(log', acked)
    BY <2>1 DEF Publish
  <2>2. CASE NewSession \/ SkipSequence \/ Age
    BY <1>0, <1>1, <2>2 DEF NewSession, SkipSequence, Age
  <2>3. QED
    BY <1>0, <1>2, <1>7, <2>1, <2>2 DEF Gateway
<1>8. ASSUME NEW i \in Instances, Pass(i) \/ Life(i),
             ~(FetchBatch(i) \/ FetchExpired(i) \/ AckAnswered(i))
      PROVE  floor' = floor /\ lost' = lost
  BY <1>8, OnlyThreeCalls DEF gatewayVars
<1>9. CASE LeaseExpires \/ Operations \/ UNCHANGED vars
  BY <1>0, <1>1, <1>9 DEF LeaseExpires, Operations, RecoverRecord, ResyncRecord, ResyncIdentities,
     OperatorRecord, Reconfigure, vars, gatewayVars
<1>10. ASSUME NEW i \in Instances, Pass(i) \/ Life(i)
       PROVE  FloorMoves
  BY <1>0, <1>1, <1>2, <1>4, <1>5, <1>8, <1>10
<1>11. QED
  BY <1>0, <1>6, <1>7, <1>9, <1>10 DEF Next

-----------------------------------------------------------------------------
\* Ingest rows and the log.

\* Every ingest row is of a record with its id, every clash has another record's row, and every
\* loss row is of a record the gateway no longer holds.
Rows ==
    /\ \A d \in Ids : ingest[d] # 0 => ingest[d] \in 1 .. Len(log) /\ log[ingest[d]].id = d
    /\ \A p \in clashes : p \in 1 .. Len(log) /\ ingest[log[p].id] \notin {0, p}
    /\ lost \subseteq 1 .. floor

\* A commit and a publication keep it: a record of a batch whose id has no row is preceded by
\* the one that gets it, or gets it (_record).
LEMMA RowsStep ==
    ASSUME Typed, Rows, [Next]_vars
    PROVE  Rows'
<1>0. /\ \A p \in 1 .. Len(log) : log'[p] = log[p] /\ log[p].id \in Ids /\ p \in 1 .. Len(log')
      /\ Len(log) \in Nat
  BY Grown
<1>1. lost' \subseteq 1 .. floor'
  <2>1. PICK new \in SUBSET (floor + 1 .. floor') : lost' = lost \cup new
    BY FloorRises DEF FloorMoves
  <2>2. floor \in Nat /\ floor' \in Nat /\ floor <= floor' /\ lost \subseteq 1 .. floor
    BY FloorRises DEF FloorMoves, Rows
  <2>3. QED
    BY <2>1, <2>2
<1>2. CASE UNCHANGED recordVars
  BY <1>0, <1>1, <1>2 DEF Rows, recordVars
<1>3. ASSUME NEW i \in Instances, Process(i)
      PROVE  Rows'
  <2>1. /\ pc[i] = "got" /\ log' = log /\ ingest' = [d \in Ids |-> RowAfter(i, d)]
        /\ clashes' = clashes \cup Clashes(i)
    BY <1>3 DEF Process, gatewayVars
  <2>2. \A d \in Ids : ingest'[d] # 0 =>
                          ingest'[d] \in 1 .. Len(log) /\ log[ingest'[d]].id = d
    BY <2>1, FreshFacts, RowAfterFacts DEF Rows
  <2>3. ASSUME NEW p \in clashes
        PROVE  p \in 1 .. Len(log) /\ ingest'[log[p].id] \notin {0, p}
    BY <1>0, <2>3, RowsStay DEF Rows
  <2>4. ASSUME NEW p \in Clashes(i)
        PROVE  p \in 1 .. Len(log) /\ ingest'[log[p].id] \notin {0, p}
    BY <1>0, <2>1, <2>4, FreshFacts, RowAfterFacts DEF Clashes
  <2>5. QED
    BY <1>1, <2>1, <2>2, <2>3, <2>4 DEF Rows
<1>4. QED
  BY <1>2, <1>3, RecordSteps

LEMMA RowsAlways == Spec => []Rows
<1>1. Init => Rows
  BY DEF Init, GatewayInit, Rows
<1>2. QED
  BY <1>1, RowsStep, TypedAlways, PTL DEF Spec

\* The commit of a batch: its fresh records get their rows, nobody else does.
LEMMA BatchRows ==
    ASSUME Typed, Rows, NEW i \in Instances, Process(i)
    PROVE  \A p \in 1 .. Len(log) : ingest'[log[p].id] = p <=> ingest[log[p].id] = p \/ p \in Fresh(i)
<1>1. pc[i] = "got" /\ ingest' = [d \in Ids |-> RowAfter(i, d)]
  BY DEF Process
<1>2. ASSUME NEW p \in 1 .. Len(log)
      PROVE  log[p].id \in Ids
  <2>1. log[p] \in Records
    BY DEF Typed, GatewayPart, GatewayTypeOK
  <2>2. QED
    BY <2>1 DEF Records
<1>3. ASSUME NEW p \in 1 .. Len(log), ingest[log[p].id] = p
      PROVE  ingest'[log[p].id] = p
  <2>1. ingest[log[p].id] # 0
    BY <1>3
  <2>2. RowAfter(i, log[p].id) = ingest[log[p].id]
    BY <2>1 DEF RowAfter, Fresh
  <2>3. QED
    BY <1>1, <1>2, <1>3, <2>2
<1>4. QED
  BY <1>1, <1>2, <1>3, FreshFacts, RowAfterFacts

-----------------------------------------------------------------------------
\* Counting.

CountedSet == {p \in 1 .. Len(log) : ingest[log[p].id] = p /\ log[p].kind # "refused"}

\* Each record is counted once, however often it is delivered, whichever process commits it and
\* whatever other record has its id (process: the ingest row is the deduplication).
THEOREM CountedOnceOnly == Spec => []CountedOnce
<1>0. CountedOnce <=> accepted = Cardinality(CountedSet)
  BY DEF CountedOnce, CountedSet
<1>1. Init => accepted = Cardinality(CountedSet)
  <2>1. Init => CountedSet = {} /\ accepted = 0
    BY DEF Init, GatewayInit, CountedSet
  <2>2. QED
    BY <2>1, FS_EmptySet
<1>2. Typed /\ Rows /\ accepted = Cardinality(CountedSet) /\ [Next]_vars
         => (accepted = Cardinality(CountedSet))'
  <2> SUFFICES ASSUME Typed, Rows, accepted = Cardinality(CountedSet), [Next]_vars
               PROVE  accepted' = Cardinality(CountedSet')
    OBVIOUS
  <2>0. /\ Len(log) \in Nat /\ Len(log') \in Nat /\ Len(log) <= Len(log')
        /\ \A p \in 1 .. Len(log) : log'[p] = log[p]
    BY Grown
  <2>1. CASE UNCHANGED recordVars
    <3>1. \A p \in 1 .. Len(log') : log'[p].id \in Ids
      BY Grown
    <3>2. \A d \in Ids : ingest[d] \in 0 .. Len(log)
      BY <2>0 DEF Rows
    <3>3. CountedSet' = CountedSet
      BY <2>0, <2>1, <3>1, <3>2 DEF CountedSet, recordVars
    <3>4. QED
      BY <2>1, <3>3 DEF recordVars
  <2>2. ASSUME NEW i \in Instances, Process(i)
        PROVE  accepted' = Cardinality(CountedSet')
    <3> DEFINE New == {p \in Fresh(i) : log[p].kind # "refused"}
    <3>1. pc[i] = "got" /\ log' = log /\ accepted' = accepted + Cardinality(New)
      BY <2>2 DEF Process, gatewayVars, Counted
    <3>2. CountedSet' = CountedSet \cup New
      BY <2>2, <3>1, BatchRows, FreshFacts DEF CountedSet
    <3>3. CountedSet \cap New = {}
      BY <3>1, FreshFacts DEF CountedSet, Fresh
    <3>4. IsFiniteSet(CountedSet) /\ IsFiniteSet(New)
      <4>1. IsFiniteSet(1 .. Len(log))
        <5>1. 1 \in Int /\ Len(log) \in Int
          BY <2>0
        <5>2. QED
          BY <5>1, FS_Interval
      <4>2. CountedSet \in SUBSET (1 .. Len(log)) /\ New \in SUBSET (1 .. Len(log))
        BY <3>1, FreshFacts DEF CountedSet
      <4>3. QED
        BY <4>1, <4>2, FS_Subset
    <3>5. Cardinality(CountedSet \cup New) = Cardinality(CountedSet) + Cardinality(New)
      <4>1. /\ Cardinality(CountedSet \cup New)
                  = Cardinality(CountedSet) + Cardinality(New) - Cardinality(CountedSet \cap New)
            /\ Cardinality(CountedSet) \in Nat /\ Cardinality(New) \in Nat
        BY <3>4, FS_Union, FS_CardinalityType
      <4>2. Cardinality(CountedSet \cap New) = 0
        BY <3>3, FS_EmptySet
      <4>3. QED
        BY <4>1, <4>2
    <3>6. QED
      BY <3>1, <3>2, <3>5
  <2>3. QED
    BY <2>1, <2>2, RecordSteps
<1>3. QED
  BY <1>0, <1>1, <1>2, TypedAlways, RowsAlways, PTL DEF Spec

-----------------------------------------------------------------------------
\* A channel that an operator holds.

\* No other process moves or reads.
OthersKeep(i) ==
    \A j \in Instances \ {i} : pc'[j] = pc[j] /\ from'[j] = from[j] /\ upto'[j] = upto[j]

\* What a process does concerns nobody else, and it writes the channel row under the lease only.
LEMMA OwnStep ==
    ASSUME Typed, NEW i \in Instances, Pass(i) \/ Life(i)
    PROVE  /\ chan' = chan \/ Holds(i)
           /\ lease'.holder = lease.holder \/ lease'.holder = i
           /\ OthersKeep(i)
<1>0. /\ pc \in [Instances -> PCs] /\ from \in [Instances -> Cursors]
      /\ upto \in [Instances -> Cursors] /\ todo \in [Instances -> SUBSET Positions]
      /\ lease \in [holder: Instances \cup {Operator}, fence: 0 .. MaxFence, expired: BOOLEAN]
  BY DEF Typed, ProcessPart, ProcessTypeOK, StorePart, StoreTypeOK
<1>1. chan' = chan \/ Holds(i)
  <2>1. CASE Life(i)
    BY <2>1 DEF Life, StartAcquire, StartBlocked, StartFinish, Close, Crash, storeVars
  <2>2. CASE Pass(i)
    BY <2>2 DEF Pass, Renew, SkipFetch, Ask, FetchBatch, FetchExpired, FetchUnanswered,
       FetchRefused, Process, ProcessStops, ProcessCapped, RecordExpired, StopChannel,
       RecordGarbled, RecordCap, ClearCap, RecordAck, RecordRefusal, AckAnswered, AckUnanswered,
       AckRefused, Housekeep, Deliver, EndDispatch, Mark, LoseLease, CommitFails, storeVars
  <2>3. QED
    BY <2>1, <2>2
<1>2. lease'.holder = lease.holder \/ lease'.holder = i
  <2>1. CASE Life(i)
    BY <1>0, <2>1 DEF Life, StartAcquire, StartBlocked, StartFinish, Close, Crash, storeVars,
       Acquire
  <2>2. CASE Pass(i)
    BY <1>0, <2>2 DEF Pass, Renew, SkipFetch, Ask, FetchBatch, FetchExpired, FetchUnanswered,
       FetchRefused, Process, ProcessStops, ProcessCapped, RecordExpired, StopChannel,
       RecordGarbled, RecordCap, ClearCap, RecordAck, RecordRefusal, AckAnswered, AckUnanswered,
       AckRefused, Housekeep, Deliver, EndDispatch, Mark, LoseLease, CommitFails, storeVars,
       Acquire
  <2>3. QED
    BY <2>1, <2>2
<1>3. ASSUME NEW label, EndPass(i, label)
      PROVE  OthersKeep(i)
  BY <1>0, <1>3 DEF EndPass, Goto, OthersKeep
<1>4. ASSUME NEW label, Goto(i, label), UNCHANGED <<from, upto>>
      PROVE  OthersKeep(i)
  BY <1>0, <1>4 DEF Goto, OthersKeep
<1>5. ASSUME Life(i)
      PROVE  OthersKeep(i)
  BY <1>3, <1>4, <1>5 DEF Life, StartAcquire, StartBlocked, StartFinish, Close, Crash, Forget,
     passVars
<1>6. ASSUME Ask(i) \/ FetchBatch(i) \/ FetchExpired(i)
      PROVE  OthersKeep(i)
  BY <1>0, <1>6 DEF Ask, FetchBatch, FetchExpired, Goto, OthersKeep
<1>7. ASSUME Pass(i),
             ~(Ask(i) \/ FetchBatch(i) \/ FetchExpired(i) \/ LoseLease(i) \/ CommitFails(i))
      PROVE  OthersKeep(i)
  BY <1>3, <1>4, <1>7 DEF Pass, Renew, SkipFetch, FetchUnanswered, FetchRefused, Process,
     ProcessStops, ProcessCapped, RecordExpired, StopChannel, RecordGarbled, RecordCap, ClearCap,
     RecordAck, RecordRefusal, AckAnswered, AckUnanswered, AckRefused, Housekeep, Deliver,
     EndDispatch, Mark, passVars
<1>8. ASSUME LoseLease(i) \/ CommitFails(i)
      PROVE  OthersKeep(i)
  BY <1>3, <1>8 DEF LoseLease, CommitFails, Forget
<1>9. QED
  BY <1>1, <1>2, <1>5, <1>6, <1>7, <1>8

\* Every other step leaves the processes alone, and the channel row too unless an operator takes
\* the lease.
LEMMA OthersStep ==
    ASSUME Typed, Gateway \/ AckArrives \/ LeaseExpires \/ Operations \/ UNCHANGED vars
    PROVE  /\ UNCHANGED processVars
           /\ chan' = chan \/ (lease'.holder = Operator /\ chan' \in OperatorStatements)
           /\ lease'.holder = lease.holder \/ lease'.holder = Operator
<1>1. CASE Operations
  BY <1>1 DEF Operations, RecoverRecord, ResyncRecord, ResyncIdentities, OperatorRecord,
     Reconfigure, storeVars, OperatorStatements
<1>2. CASE Gateway \/ AckArrives \/ LeaseExpires \/ UNCHANGED vars
  BY <1>2 DEF Gateway, AckArrives, LeaseExpires, vars, storeVars, Typed, StorePart, StoreTypeOK
<1>3. QED
  BY <1>1, <1>2

\* The process that has the lease is in the middle of a pass only while no operator is waited for.
InPass == {"asking", "got", "garbled", "expired", "stopping", "capped"}

UnheldBy(i) ==
    lease.holder = i =>
       /\ pc[i] \in InPass => ~HeldForOperator
       /\ pc[i] = "consumed" => chan.state = "OVERLOADED"

Unheld == \A i \in Instances : UnheldBy(i)

\* A pass asks for a batch only when the channel is not held, and from then on only the process
\* itself could hold it: another writer would have taken the lease first (_run_once).
LEMMA UnheldStep ==
    ASSUME Typed, Unheld, [Next]_vars
    PROVE  Unheld'
<1>0. /\ pc \in [Instances -> PCs] /\ chan \in ChannelRows(Cursors)
      /\ Operator \notin Instances
  BY IngestAssumption DEF Typed, ProcessPart, ProcessTypeOK, StorePart, StoreTypeOK
<1>1. ASSUME NEW i \in Instances, Pass(i) \/ Life(i), UnheldBy(i)'
      PROVE  Unheld'
  <2>1. ASSUME NEW j \in Instances \ {i}
        PROVE  UnheldBy(j)'
    <3>1. pc'[j] = pc[j] /\ (lease'.holder = j => lease.holder = j /\ chan' = chan)
      BY <1>1, OwnStep DEF Holds, OthersKeep
    <3>2. QED
      BY <3>1 DEF Unheld, UnheldBy, HeldForOperator
  <2>2. QED
    BY <1>1, <2>1 DEF Unheld
<1>2. ASSUME NEW i \in Instances, pc'[i] \notin InPass, pc'[i] # "consumed"
      PROVE  UnheldBy(i)'
  BY <1>2 DEF UnheldBy
<1>3. ASSUME NEW i \in Instances, NEW label, EndPass(i, label),
             label \in {"idle", "blocked", "down"}
      PROVE  UnheldBy(i)'
  BY <1>0, <1>2, <1>3 DEF EndPass, Goto, InPass
<1>4. ASSUME NEW i \in Instances, Life(i)
      PROVE  UnheldBy(i)'
  <2>1. CASE StartAcquire(i) \/ StartBlocked(i) \/ StartFinish(i)
    BY <1>0, <1>2, <2>1 DEF StartAcquire, StartBlocked, StartFinish, Goto, InPass
  <2>2. CASE Close(i) \/ Crash(i)
    BY <1>3, <2>2 DEF Close, Crash, Forget
  <2>3. QED
    BY <1>4, <2>1, <2>2 DEF Life
<1>5. ASSUME NEW i \in Instances, Ask(i)
      PROVE  UnheldBy(i)'
  <2>1. pc'[i] = "asking" /\ ~HeldForOperator
        /\ (chan' = chan \/ chan' = Settle(chan, fence[i]))
    BY <1>0, <1>5 DEF Ask, Goto
  <2>2. Settle(chan, fence[i]).state \in {"NORMAL", "INCOMPLETE"}
    BY <1>0 DEF Settle, ChannelRows
  <2>3. QED
    BY <2>1, <2>2 DEF UnheldBy, HeldForOperator
<1>6. ASSUME NEW i \in Instances, pc[i] \in InPass, pc'[i] \in InPass, lease' = lease,
             chan'.state = chan.state
      PROVE  UnheldBy(i)'
  BY <1>6 DEF Unheld, UnheldBy, HeldForOperator, InPass
<1>7. ASSUME NEW i \in Instances,
             FetchBatch(i) \/ FetchExpired(i) \/ FetchRefused(i) \/ ProcessStops(i)
             \/ ProcessCapped(i)
      PROVE  UnheldBy(i)'
  BY <1>0, <1>6, <1>7 DEF FetchBatch, FetchExpired, FetchRefused, ProcessStops, ProcessCapped,
     storeVars, Goto, InPass
<1>8. ASSUME NEW i \in Instances, Process(i)
      PROVE  UnheldBy(i)'
  <2>1. pc'[i] = "committed" \/ (pc'[i] = "consumed" /\ chan'.state = "OVERLOADED")
    BY <1>0, <1>8 DEF Process, Goto
  <2>2. QED
    BY <2>1 DEF UnheldBy, InPass
<1>9. ASSUME NEW i \in Instances, RecordGarbled(i)
      PROVE  UnheldBy(i)'
  <2>1. \/ EndPass(i, "idle")
        \/ /\ pc[i] = "garbled" /\ Goto(i, "stopping") /\ lease' = lease
           /\ \E n : chan' = CountRetry(chan, <<from[i], upto[i]>>, n, fence[i])
    BY <1>9 DEF RecordGarbled, RecordRefusal
  <2>2. \A n : CountRetry(chan, <<from[i], upto[i]>>, n, fence[i]).state = chan.state
    BY <1>0 DEF CountRetry, ChannelRows
  <2>3. QED
    BY <1>0, <1>3, <1>6, <2>1, <2>2 DEF Goto, InPass
<1>10. ASSUME NEW i \in Instances,
              Renew(i) \/ SkipFetch(i) \/ ClearCap(i) \/ AckAnswered(i) \/ AckUnanswered(i)
              \/ AckRefused(i) \/ RecordAck(i) \/ Housekeep(i) \/ Deliver(i) \/ Mark(i)
       PROVE  UnheldBy(i)'
  BY <1>0, <1>2, <1>10 DEF Renew, SkipFetch, ClearCap, AckAnswered, AckUnanswered, AckRefused,
     RecordAck, RecordRefusal, Housekeep, Deliver, Mark, Goto, InPass
<1>11. ASSUME NEW i \in Instances,
              RecordExpired(i) \/ StopChannel(i) \/ RecordCap(i) \/ FetchUnanswered(i)
              \/ EndDispatch(i) \/ LoseLease(i) \/ CommitFails(i)
       PROVE  UnheldBy(i)'
  BY <1>3, <1>11 DEF RecordExpired, StopChannel, RecordCap, RecordRefusal, FetchUnanswered,
     EndDispatch, LoseLease, CommitFails, Forget
<1>12. CASE Gateway \/ AckArrives \/ LeaseExpires \/ Operations \/ UNCHANGED vars
  <2>1. ASSUME NEW i \in Instances
        PROVE  UnheldBy(i)'
    <3>1. pc' = pc /\ (lease'.holder = i => lease.holder = i /\ chan' = chan)
      BY <1>0, <1>12, OthersStep DEF processVars
    <3>2. QED
      BY <3>1 DEF Unheld, UnheldBy, HeldForOperator
  <2>2. QED
    BY <2>1 DEF Unheld
<1>13. QED
  BY <1>1, <1>4, <1>5, <1>7, <1>8, <1>9, <1>10, <1>11, <1>12 DEF Next, Pass

LEMMA UnheldAlways == Spec => []Unheld
<1>1. Init => Unheld
  BY DEF Init, Unheld, UnheldBy, InPass
<1>2. QED
  BY <1>1, UnheldStep, TypedAlways, PTL DEF Spec

\* What a process may do to a held channel: start it again under another revision, or record an
\* acknowledgement.
LEMMA HeldWrites ==
    ASSUME Typed, Unheld, NEW i \in Instances, Pass(i) \/ Life(i), HeldForOperator
    PROVE  \/ chan' = chan
           \/ /\ chan.state = "STOPPED" /\ chan.stoppedRevision # rev[i]
              /\ pc[i] = "starting" /\ lease.holder = i /\ chan' = Settle(chan, fence[i])
           \/ chan' = RecordAcked(chan, upto[i], fence[i])
<1>0. Holds(i) => /\ pc[i] \notin InPass /\ pc[i] # "consumed"
                  /\ lease.holder = i
  BY DEF Unheld, UnheldBy, Holds, HeldForOperator
<1>1. CASE Life(i)
  BY <1>0, <1>1 DEF Life, StartAcquire, StartBlocked, StartFinish, NewRevision, Close, Crash,
     storeVars
<1>2. CASE SkipFetch(i) \/ Ask(i)
  BY <1>2 DEF SkipFetch, Ask, storeVars
<1>3. CASE RecordCap(i)
  BY <1>3 DEF RecordCap, Overloads, HeldForOperator, storeVars
<1>4. CASE RecordAck(i)
  BY <1>4 DEF RecordAck, RecordRefusal
<1>5. CASE Process(i) \/ RecordExpired(i) \/ StopChannel(i) \/ RecordGarbled(i) \/ ClearCap(i)
  BY <1>0, <1>5 DEF Process, RecordExpired, StopChannel, RecordGarbled, ClearCap, RecordRefusal,
     InPass
<1>6. CASE Pass(i) /\ ~(SkipFetch(i) \/ Ask(i) \/ RecordCap(i) \/ RecordAck(i) \/ Process(i)
                        \/ RecordExpired(i) \/ StopChannel(i) \/ RecordGarbled(i) \/ ClearCap(i))
  BY <1>6 DEF Pass, Renew, FetchBatch, FetchExpired, FetchUnanswered, FetchRefused, ProcessStops,
     ProcessCapped, AckAnswered, AckUnanswered, AckRefused, Housekeep, Deliver, EndDispatch, Mark,
     LoseLease, CommitFails, storeVars
<1>7. QED
  BY <1>1, <1>2, <1>3, <1>4, <1>5, <1>6

\* What an operator's command does to it.
LEMMA OperatorWrites ==
    ASSUME Typed, Operations
    PROVE  \/ chan' = chan
           \/ /\ lease'.holder = Operator
              /\ \/ chan' = Recover(chan, OperatorFence)
                 \/ /\ chan.state = "RESYNC_REQUIRED" /\ chan.reason = "CURSOR_EXPIRED"
                    /\ chan' = Resync(chan, OperatorFence)
                 \/ /\ chan.state = "RESYNC_REQUIRED" /\ chan.reason = "RESET_SCOPE"
                    /\ chan' = Settle(chan, OperatorFence)
BY DEF Operations, RecoverRecord, ResyncRecord, ResyncIdentities, OperatorRecord, Reconfigure,
   storeVars

\* A stopped channel starts again only with a process that reads another revision, and one that
\* awaits resynchronisation only by the operator's record, which after a 410 puts the gap on
\* record: no cap, batch, late acknowledgement, `recover` or overtaken process releases it
\* (run_once, start, SQL_CHANNEL_RECOVER).
THEOREM HeldStaysHeld == Spec => HeldUntilReleased
<1> DEFINE Released ==
      /\ chan.state = "STOPPED" /\ chan'.state # "STOPPED"
            => \E i \in Instances : /\ pc[i] = "starting" /\ lease.holder = i
                                    /\ chan.stoppedRevision # rev[i]
      /\ chan.state = "RESYNC_REQUIRED" /\ chan'.state # "RESYNC_REQUIRED"
            => /\ lease'.holder = Operator
               /\ chan.reason = "CURSOR_EXPIRED" => chan'.incomplete
<1>1. Typed /\ Unheld /\ [Next]_vars => Released
  <2> SUFFICES ASSUME Typed, Unheld, [Next]_vars
               PROVE  Released
    OBVIOUS
  <2>0. chan \in ChannelRows(Cursors)
    BY DEF Typed, StorePart, StoreTypeOK
  <2>1. CASE chan' = chan \/ ~HeldForOperator
    BY <2>1 DEF HeldForOperator
  <2>2. ASSUME NEW i \in Instances, Pass(i) \/ Life(i), HeldForOperator
        PROVE  Released
    <3>1. RecordAcked(chan, upto[i], fence[i]).state = chan.state
      BY <2>0 DEF RecordAcked, ChannelRows
    <3>2. QED
      BY <2>1, <2>2, <3>1, HeldWrites
  <2>3. CASE Operations /\ HeldForOperator
    <3>1. /\ chan.state # "INCOMPLETE" => Recover(chan, OperatorFence).state = chan.state
          /\ Resync(chan, OperatorFence).incomplete
      BY <2>0 DEF Recover, Resync, ChannelRows
    <3>2. QED
      BY <2>1, <2>3, <3>1, OperatorWrites DEF HeldForOperator
  <2>4. CASE Gateway \/ AckArrives \/ LeaseExpires \/ UNCHANGED vars
    BY <2>1, <2>4 DEF Gateway, AckArrives, LeaseExpires, vars, storeVars
  <2>5. QED
    BY <2>1, <2>2, <2>3, <2>4 DEF Next
<1>2. Typed /\ Unheld /\ [Next]_vars => [Released]_vars
  BY <1>1
<1>3. QED
  BY <1>2, TypedAlways, UnheldAlways, PTL DEF Spec, HeldUntilReleased

-----------------------------------------------------------------------------
\* The order of the log.

\* Sessions follow one another in the log, sequence numbers grow within one, and the next number
\* of the current one is beyond them all.
Ordered ==
    /\ \A p \in 1 .. Len(log) :
          /\ log[p].session <= session
          /\ log[p].session = session => log[p].sequence < nextSequence
    /\ \A p, q \in 1 .. Len(log) :
          p < q => /\ log[p].session <= log[q].session
                   /\ log[p].session = log[q].session => log[p].sequence < log[q].sequence

\* The last sequence seen of a session is a record's.
Seen ==
    \A s \in Sessions :
       \/ lastSequence[s] = -1
       \/ \E p \in 1 .. Len(log) : log[p].session = s /\ log[p].sequence = lastSequence[s]

\* publish, new_session and skip_sequence keep the order.
LEMMA OrderedStep ==
    ASSUME Typed, Ordered, [Next]_vars
    PROVE  Ordered'
<1>0. /\ log \in Seq(Records) /\ Len(log) \in Nat /\ session \in Nat /\ nextSequence \in Nat
      /\ session \in Sessions
      /\ \A p \in 1 .. Len(log) : log[p].session \in Nat /\ log[p].sequence \in Nat
  <2>1. log \in Seq(Records) /\ session \in Sessions /\ nextSequence \in Nat
    BY DEF Typed, GatewayPart, GatewayTypeOK
  <2>2. \A p \in 1 .. Len(log) : log[p] \in Records
    BY <2>1
  <2>3. QED
    BY <2>1, <2>2, GatewayAssumption DEF Records, Sessions
<1>1. CASE UNCHANGED <<log, session, nextSequence>>
  BY <1>1 DEF Ordered
<1>2. ASSUME NEW id \in Ids, NEW kind \in Kinds, Publish(id, kind)
      PROVE  Ordered'
  <2> DEFINE r == [id |-> id, kind |-> kind, session |-> session, sequence |-> nextSequence]
  <2>1. /\ log' = Append(log, r) /\ session' = session /\ nextSequence' = nextSequence + 1
        /\ r \in Records
    BY <1>0, <1>2 DEF Publish, Records
  <2>2. /\ Len(log') = Len(log) + 1 /\ \A p \in 1 .. Len(log) : log'[p] = log[p]
        /\ log'[Len(log) + 1] = r
    BY <1>0, <2>1
  <2>3. r.session = session /\ r.sequence = nextSequence
    OBVIOUS
  <2> HIDE DEF r
  <2>4. ASSUME NEW p \in 1 .. Len(log')
        PROVE  \/ p \in 1 .. Len(log) /\ log'[p] = log[p]
               \/ p = Len(log) + 1 /\ log'[p] = r
    BY <1>0, <2>2
  <2>5. ASSUME NEW p \in 1 .. Len(log')
        PROVE  /\ log'[p].session <= session
               /\ log'[p].session = session => log'[p].sequence < nextSequence + 1
    BY <1>0, <2>3, <2>4 DEF Ordered
  <2>6. ASSUME NEW p \in 1 .. Len(log'), NEW q \in 1 .. Len(log'), p < q
        PROVE  /\ log'[p].session <= log'[q].session
               /\ log'[p].session = log'[q].session => log'[p].sequence < log'[q].sequence
    <3>1. CASE p \in 1 .. Len(log) /\ q \in 1 .. Len(log)
      BY <2>4, <2>6, <3>1, <2>2 DEF Ordered
    <3>2. CASE p \in 1 .. Len(log) /\ log'[q] = r
      <4>1. log'[p] = log[p] /\ log'[q].session = session /\ log'[q].sequence = nextSequence
        BY <2>2, <2>3, <3>2
      <4>2. QED
        BY <3>2, <4>1 DEF Ordered
    <3>3. QED
      BY <1>0, <2>4, <2>6, <3>1, <3>2
  <2>7. QED
    BY <2>1, <2>5, <2>6 DEF Ordered
<1>3. CASE NewSession \/ SkipSequence
  <2>1. /\ log' = log
        /\ \/ session' = session + 1
           \/ session' = session /\ nextSequence' = nextSequence + 1
    BY <1>3 DEF NewSession, SkipSequence
  <2>2. \A p \in 1 .. Len(log) :
           /\ log[p].session <= session'
           /\ log[p].session = session' => log[p].sequence < nextSequence'
    BY <1>0, <2>1 DEF Ordered
  <2>3. QED
    BY <2>1, <2>2 DEF Ordered
<1>4. CASE Age
  BY <1>1, <1>4 DEF Age
<1>5. QED
  BY <1>1, <1>2, <1>3, <1>4, LogSteps DEF Gateway

\* What is seen is in the log (session_seq is written with the batch).
LEMMA SeenStep ==
    ASSUME Typed, Seen, [Next]_vars
    PROVE  Seen'
<1>0. /\ Len(log) \in Nat /\ Len(log') \in Nat /\ Len(log) <= Len(log')
      /\ \A p \in 1 .. Len(log) : log'[p] = log[p]
      /\ lastSequence \in [Sessions -> Nat \cup {-1}]
  BY Grown
<1>1. CASE UNCHANGED recordVars
  BY <1>0, <1>1 DEF Seen, recordVars
<1>2. ASSUME NEW i \in Instances, Process(i)
      PROVE  Seen'
  <2>1. pc[i] = "got" /\ log' = log /\ lastSequence' = SequencesAfter(i)
    BY <1>2 DEF Process, gatewayVars
  <2>2. CASE Batch(i) = {}
    BY <2>1, <2>2 DEF Seen, SequencesAfter
  <2>3. CASE Batch(i) # {}
    <3>1. upto[i] \in 1 .. Len(log)
      <4>1. from[i] \in Nat /\ upto[i] \in Int /\ upto[i] <= Len(log)
        BY <2>1, BehindFits DEF Typed, ProcessPart, ProcessFits, WithBatch
      <4>2. QED
        BY <1>0, <2>3, <4>1 DEF Batch
    <3>2. lastSequence' = [lastSequence EXCEPT
             ![log[upto[i]].session] = Later(lastSequence[log[upto[i]].session],
                                             log[upto[i]].sequence)]
      BY <2>1, <2>3 DEF SequencesAfter
    <3>3. \A s \in Sessions : \/ lastSequence'[s] = lastSequence[s]
                              \/ s = log[upto[i]].session
                                 /\ lastSequence'[s] = log[upto[i]].sequence
      BY <1>0, <3>2 DEF Later
    <3>4. QED
      BY <2>1, <3>1, <3>3 DEF Seen
  <2>4. QED
    BY <2>2, <2>3
<1>3. QED
  BY <1>1, <1>2, RecordSteps

-----------------------------------------------------------------------------
\* The refinement.

Done == {p \in 1 .. Len(log) : Settled(p)}

\* The records with a disposition: a commit adds its batch to them, nothing else adds any.
LEMMA DoneSteps ==
    ASSUME Typed, Rows, [Next]_vars
    PROVE  /\ UNCHANGED recordVars => Done' = Done
           /\ \A i \in Instances : Process(i) => Done' = Done \cup Batch(i)
<1>0. /\ Len(log) \in Nat /\ Len(log') \in Nat /\ Len(log) <= Len(log')
      /\ \A p \in 1 .. Len(log) : log'[p] = log[p]
      /\ \A p \in 1 .. Len(log') : log'[p].id \in Ids
  BY Grown
<1>1. ASSUME UNCHANGED recordVars
      PROVE  Done' = Done
  <2>1. ingest' = ingest /\ clashes' = clashes
    BY <1>1 DEF recordVars
  <2>2. ASSUME NEW p \in 1 .. Len(log'), Settled(p)'
        PROVE  p \in 1 .. Len(log)
    <3>1. p \in clashes \/ ingest[log'[p].id] = p
      BY <2>1, <2>2 DEF Settled
    <3>2. QED
      BY <1>0, <3>1 DEF Rows
  <2>3. \A p \in 1 .. Len(log) : p \in 1 .. Len(log') /\ (Settled(p)' <=> Settled(p))
    BY <1>0, <2>1 DEF Settled
  <2>4. QED
    BY <2>2, <2>3 DEF Done
<1>2. ASSUME NEW i \in Instances, Process(i)
      PROVE  Done' = Done \cup Batch(i)
  <2>1. /\ pc[i] = "got" /\ log' = log /\ clashes' = clashes \cup Clashes(i)
        /\ Batch(i) \subseteq 1 .. Len(log) /\ Clashes(i) \subseteq Batch(i)
        /\ Fresh(i) \subseteq Batch(i)
    BY <1>2, FreshFacts DEF Process, gatewayVars, Clashes
  <2>2. \A p \in Batch(i) : Settled(p)'
    BY <1>2, BatchSettles
  <2>3. ASSUME NEW p \in 1 .. Len(log)
        PROVE  Settled(p)' <=> Settled(p) \/ p \in Batch(i)
    <3>1. ingest'[log[p].id] = p <=> ingest[log[p].id] = p \/ p \in Fresh(i)
      BY <1>2, BatchRows
    <3>2. QED
      BY <2>1, <2>2, <3>1 DEF Settled
  <2>4. QED
    BY <2>1, <2>3 DEF Done
<1>3. QED
  BY <1>1, <1>2

\* Whatever the gateway lets go of is settled or gets its loss row: a step that commits nothing
\* releases as RecordTransfer does, or releases nothing.
LEMMA ReleaseStep ==
    ASSUME Typed, Rows, NothingForgotten', [Next]_vars, UNCHANGED recordVars
    PROVE  Transfer!Release
<1>1. PICK new \in SUBSET (floor + 1 .. floor') : lost' = lost \cup new
  BY FloorRises DEF FloorMoves
<1>2. floor \in Nat /\ floor' \in Nat /\ floor <= floor' /\ floor' <= Len(log')
  BY FloorRises, GatewayStep DEF FloorMoves, GatewayPart, GatewayFits
<1>3. Len(log') \in Nat
  BY GatewayStep DEF GatewayPart, GatewayTypeOK
<1>4. floor + 1 .. floor' \subseteq Done \cup new
  <2>1. ASSUME NEW p \in floor + 1 .. floor'
        PROVE  p \in Done \cup new
    <3>1. p \in 1 .. Len(log') /\ p \notin 1 .. floor
      BY <1>2, <1>3
    <3>2. p \in Done' \/ p \in lost'
      BY <1>2, <3>1 DEF NothingForgotten, SettledOrLost, Done
    <3>3. QED
      BY <1>1, <3>1, <3>2, DoneSteps DEF Rows
  <2>2. QED
    BY <2>1
<1>5. floor' \in floor .. Len(log')
  BY <1>2, <1>3
<1>6. QED
  BY <1>1, <1>4, <1>5 DEF Transfer!Release, Done

\* Every step is a step of RecordTransfer, or leaves all that it speaks of alone.
LEMMA TransferStep ==
    ASSUME Typed, Rows, Dispatching, NothingForgotten', [Next]_vars
    PROVE  [Transfer!Next]_(Transfer!vars)
<1>1. ASSUME NEW i \in Instances, Process(i)
      PROVE  Transfer!Settle
  <2> DEFINE new == Batch(i) \ Done
             events == {p \in Fresh(i) : Admits(i, p)}
  <2>1. /\ pc[i] = "got" /\ UNCHANGED <<gatewayVars, taken, dispatched>>
        /\ outbox' = outbox \cup events
    BY <1>1 DEF Process, outerVars
  <2>2. Done' = Done \cup new /\ new \in SUBSET ((1 .. Len(log)) \ Done)
    BY <1>1, <2>1, DoneSteps, FreshFacts
  <2>3. events \in SUBSET new
    <3>1. ASSUME NEW p \in Fresh(i)
          PROVE  p \in Batch(i) /\ p \notin Done
      <4>1. p \in Batch(i) /\ p \in 1 .. Len(log) /\ p # 0 /\ ingest[log[p].id] = 0
        BY <2>1, FreshFacts DEF Fresh
      <4>2. p \notin clashes
        BY <4>1 DEF Rows
      <4>3. QED
        BY <4>1, <4>2 DEF Done, Settled
    <3>2. QED
      BY <3>1
  <2>4. /\ Len(log') = Len(log)
        /\ UNCHANGED <<floor, lost, taken, dispatched>>
    BY <2>1 DEF gatewayVars
  <2> HIDE DEF new, events
  <2>5. QED
    BY <2>1, <2>2, <2>3, <2>4 DEF Transfer!Settle, Transfer!All, Done
<1>2. ASSUME UNCHANGED recordVars
      PROVE  UNCHANGED outbox /\ Done' = Done /\ Transfer!Release
  BY <1>2, DoneSteps, ReleaseStep DEF recordVars
<1>3. ASSUME NEW i \in Instances, Deliver(i)
      PROVE  Transfer!Take
  <2>1. /\ UNCHANGED <<gatewayVars, storeVars>>
        /\ \E e \in todo[i] : taken' = taken \cup {e}
    BY <1>3 DEF Deliver, SinkTakes
  <2>2. /\ UNCHANGED <<log, floor, lost, recordVars, outbox, dispatched>>
        /\ \E e \in outbox : taken' = taken \cup {e}
    BY <2>1 DEF gatewayVars, storeVars, recordVars, Dispatching
  <2>3. QED
    BY <1>2, <2>2 DEF Transfer!Take, Done
<1>4. ASSUME NEW i \in Instances, Mark(i)
      PROVE  Transfer!CrossOff
  <2>1. /\ UNCHANGED <<log, floor, lost, recordVars, outbox, taken>>
        /\ event[i] \in taken /\ dispatched' = dispatched \cup {event[i]}
    BY <1>4 DEF Mark, gatewayVars, recordVars, outerVars, Dispatching
  <2>2. QED
    BY <1>2, <2>1 DEF Transfer!CrossOff, Done
<1>5. ASSUME NEW id \in Ids, NEW kind \in Kinds, Gateway, Publish(id, kind)
      PROVE  Transfer!Publish
  <2>1. UNCHANGED <<recordVars, dispatched, taken>>
    BY <1>5 DEF Gateway, storeVars, recordVars, outerVars
  <2>2. Len(log') = Len(log) + 1
    BY <1>5 DEF Publish, Typed, GatewayPart, GatewayTypeOK
  <2>3. QED
    BY <1>2, <2>1, <2>2 DEF Transfer!Publish, Done
<1>6. ASSUME log' = log, UNCHANGED <<recordVars, taken, dispatched>>
      PROVE  Transfer!Retain
  BY <1>2, <1>6 DEF Transfer!Retain, Done
<1>7. CASE Gateway
  <2>1. CASE \E id \in Ids, kind \in Kinds : Publish(id, kind)
    BY <1>5, <1>7, <2>1 DEF Transfer!Next
  <2>2. CASE NewSession \/ SkipSequence \/ Age
    <3>1. log' = log /\ UNCHANGED <<recordVars, taken, dispatched>>
      BY <1>7, <2>2 DEF Gateway, NewSession, SkipSequence, Age, storeVars, recordVars, outerVars
    <3>2. QED
      BY <1>6, <3>1 DEF Transfer!Next
  <2>3. QED
    BY <1>7, <2>1, <2>2 DEF Gateway
<1>8. CASE ~Gateway
  <2>1. UNCHANGED recordVars \/ \E i \in Instances : Process(i)
    BY RecordSteps
  <2>2. /\ log' = log
        /\ dispatched' = dispatched \/ \E i \in Instances : Mark(i)
        /\ taken' = taken \/ \E i \in Instances : Deliver(i)
    BY <1>8, LogSteps, OutboxSteps
  <2>3. QED
    BY <1>1, <1>3, <1>4, <1>6, <2>1, <2>2 DEF Transfer!Next
<1>9. QED
  BY <1>7, <1>8

\* The bridge processes, the gateway, the operator and the sink together implement the abstract
\* transfer of records: whatever interleaving, crash, takeover, late or repeated call there is,
\* each step settles new records with their events, takes or crosses off a queued one, publishes,
\* or releases settled and lost ones (run_once, process, _dispatch, provider._retain).
THEOREM TransferIsImplemented == Spec => TransferSpec
<1>1. Init => Transfer!Init
  <2> SUFFICES ASSUME Init
               PROVE  Transfer!Init
    OBVIOUS
  <2>1. Len(log) = 0 /\ 1 .. Len(log) = {}
    BY DEF Init, GatewayInit
  <2>2. QED
    BY <2>1 DEF Init, GatewayInit, Transfer!Init
<1>2. Typed /\ Rows /\ Dispatching /\ NothingForgotten' /\ [Next]_vars
         => [Transfer!Next]_(Transfer!vars)
  BY TransferStep
<1>3. QED
  BY <1>1, <1>2, TypedAlways, RowsAlways, DispatchingAlways, NothingIsForgotten, PTL
     DEF Spec, TransferSpec, Transfer!Spec

-----------------------------------------------------------------------------
\* Losses inside a session.

Expired(c) == c.state = "RESYNC_REQUIRED" /\ c.reason = "CURSOR_EXPIRED"

\* Two rows agree on a 410 that waits for the operator, or the second has none.
NoNewExpiry(r, c) == r.committedAny = c.committedAny /\ (Expired(r) => Expired(c))

\* What the statements say of commits, expiry and the gap.
LEMMA StatementsKeepExpiry ==
    ASSUME NEW c \in ChannelRows(Cursors), NEW f, NEW x, NEW y
    PROVE  /\ NoNewExpiry(RecordGap(c, f), c) /\ RecordGap(c, f).incomplete
           /\ NoNewExpiry(CloseEpoch(c, f), c) /\ CloseEpoch(c, f).incomplete = c.incomplete
           /\ NoNewExpiry(Degrade(c, f), c) /\ Degrade(c, f).incomplete = c.incomplete
           /\ NoNewExpiry(Settle(c, f), c) /\ NoNewExpiry(Stop(c, x, f), c)
           /\ NoNewExpiry(Overload(c, x, f), c) /\ NoNewExpiry(CountRetry(c, x, y, f), c)
           /\ NoNewExpiry(Recover(c, f), c) /\ NoNewExpiry(RecordAcked(c, x, f), c)
           /\ NoNewExpiry(Resync(c, f), c) /\ Resync(c, f).incomplete
           /\ MoveCursor(c, x, f).committedAny
           /\ MoveCursor(c, x, f).incomplete = c.incomplete
           /\ Expired(MoveCursor(c, x, f)) => Expired(c)
<1>1. /\ NoNewExpiry(RecordGap(c, f), c) /\ RecordGap(c, f).incomplete
      /\ NoNewExpiry(CloseEpoch(c, f), c) /\ CloseEpoch(c, f).incomplete = c.incomplete
      /\ NoNewExpiry(Degrade(c, f), c) /\ Degrade(c, f).incomplete = c.incomplete
  BY DEF ChannelRows, NoNewExpiry, Expired, RecordGap, CloseEpoch, Degrade
<1>2. /\ NoNewExpiry(Settle(c, f), c) /\ NoNewExpiry(Stop(c, x, f), c)
      /\ NoNewExpiry(Overload(c, x, f), c) /\ NoNewExpiry(CountRetry(c, x, y, f), c)
  BY DEF ChannelRows, NoNewExpiry, Expired, Settle, Stop, Overload, CountRetry
<1>3. /\ NoNewExpiry(Recover(c, f), c) /\ NoNewExpiry(RecordAcked(c, x, f), c)
      /\ NoNewExpiry(Resync(c, f), c) /\ Resync(c, f).incomplete
  BY DEF ChannelRows, NoNewExpiry, Expired, Recover, RecordAcked, Resync
<1>4. /\ MoveCursor(c, x, f).committedAny
      /\ MoveCursor(c, x, f).incomplete = c.incomplete
      /\ Expired(MoveCursor(c, x, f)) => Expired(c)
  BY DEF ChannelRows, Expired, MoveCursor
<1>5. QED
  BY <1>1, <1>2, <1>3, <1>4

\* A batch commits, invents no expiry, and puts the gap that _contiguity sees on record.
LEMMA BatchRow ==
    ASSUME Typed, NEW i \in Instances
    PROVE  /\ RowAfterBatch(i).committedAny
           /\ SequenceGap(i) => RowAfterBatch(i).incomplete
           /\ Expired(RowAfterBatch(i)) => Expired(chan)
<1> DEFINE gap   == IF SequenceGap(i) \/ Holding(i, "gap") THEN RecordGap(chan, fence[i])
                                                          ELSE chan
           reset == IF Holding(i, "reset") THEN CloseEpoch(gap, fence[i]) ELSE gap
           clash == IF Clashes(i) # {} THEN Degrade(reset, fence[i]) ELSE reset
           Fine(r) == r \in ChannelRows(Cursors) /\ (SequenceGap(i) => r.incomplete)
                      /\ (Expired(r) => Expired(chan))
<1>1. chan \in ChannelRows(Cursors) /\ fence[i] \in Nat
  BY IngestAssumption DEF Typed, StorePart, StoreTypeOK, ProcessPart, ProcessTypeOK
<1>2. Fine(gap)
  BY <1>1, RowFacts, StatementsKeepExpiry DEF NoNewExpiry
<1>3. Fine(reset)
  <2> HIDE DEF gap
  <2>1. QED
    BY <1>1, <1>2, RowFacts, StatementsKeepExpiry DEF NoNewExpiry
<1>4. Fine(clash)
  <2> HIDE DEF reset
  <2>1. QED
    BY <1>1, <1>3, RowFacts, StatementsKeepExpiry DEF NoNewExpiry
<1>5. RowAfterBatch(i) = MoveCursor(clash, upto[i], fence[i])
  BY DEF RowAfterBatch
<1>6. QED
  <2> HIDE DEF clash
  <2>1. QED
    BY <1>4, <1>5, StatementsKeepExpiry

\* What a step that is no commit does to the cursor: nothing, nothing but to record a 410, or
\* `resync`, which brings it to the earliest position of one.
CursorStays ==
    /\ chan'.cursor = chan.cursor /\ chan'.earliest = chan.earliest
    /\ NoNewExpiry(chan', chan)

Expiry(i) ==
    /\ pc[i] = "expired" /\ lease.holder = i
    /\ chan'.cursor = chan.cursor /\ chan'.earliest = upto[i]
    /\ chan'.committedAny = chan.committedAny

CursorResyncs ==
    /\ Expired(chan) /\ chan'.cursor = chan.earliest /\ ~Expired(chan')
    /\ chan'.committedAny = chan.committedAny /\ chan'.incomplete
    /\ lease'.holder = Operator

LEMMA CursorSteps ==
    ASSUME Typed, [Next]_vars
    PROVE  \/ \E i \in Instances : Process(i)
           \/ CursorStays
           \/ \E i \in Instances : Expiry(i)
           \/ CursorResyncs
<1>0. chan \in ChannelRows(Cursors) /\ \A i \in Instances : fence[i] \in Nat /\ upto[i] \in Cursors
  BY IngestAssumption DEF Typed, StorePart, StoreTypeOK, ProcessPart, ProcessTypeOK
<1>1. CASE chan' = chan
  BY <1>1 DEF CursorStays, NoNewExpiry
<1>2. ASSUME NEW i \in Instances, chan' \in Statements(i)
      PROVE  CursorStays
  <2>1. SameCursors(chan', chan)
    BY <1>2, StatementsKeepCursors
  <2>2. CASE chan' = Settle(chan, fence[i]) \/ chan' = Stop(chan, rev[i], fence[i])
    BY <1>0, <2>1, <2>2, StatementsKeepExpiry DEF SameCursors, CursorStays
  <2>3. CASE chan' \in {Overload(chan, cap, fence[i]) :
                           cap \in {"CAPACITY_REPORTS", "CAPACITY_IDENTITIES"}}
    BY <1>0, <2>1, <2>3, StatementsKeepExpiry DEF SameCursors, CursorStays
  <2>4. CASE chan' \in {CountRetry(chan, <<from[i], upto[i]>>, n, fence[i]) : n \in Nat}
    BY <1>0, <2>1, <2>4, StatementsKeepExpiry DEF SameCursors, CursorStays
  <2>5. QED
    BY <1>2, <2>2, <2>3, <2>4 DEF Statements
<1>3. ASSUME NEW i \in Instances, RecordExpired(i)
      PROVE  Expiry(i)
  <2>1. pc[i] = "expired" /\ Holds(i) /\ chan' = Expire(chan, upto[i], fence[i])
    BY <1>3 DEF RecordExpired, RecordRefusal
  <2>2. Expire(chan, upto[i], fence[i]).committedAny = chan.committedAny
    BY <1>0 DEF Expire, ChannelRows
  <2>3. QED
    BY <1>0, <2>1, <2>2, CursorRowFacts DEF Holds, Expiry
<1>4. ASSUME NEW i \in Instances, RecordAck(i)
      PROVE  CursorStays
  <2>1. chan' = RecordAcked(chan, upto[i], fence[i])
    BY <1>4 DEF RecordAck, RecordRefusal
  <2>2. NoNewExpiry(RecordAcked(chan, upto[i], fence[i]), chan)
    BY <1>0, StatementsKeepExpiry
  <2>3. QED
    BY <1>0, <2>1, <2>2, CursorRowFacts DEF CursorStays
<1>5. CASE Operations
  <2>1. OperatorFence \in Nat
    BY IngestAssumption DEF OperatorFence, Typed, StorePart, StoreTypeOK
  <2>2. /\ SameCursors(Recover(chan, OperatorFence), chan)
        /\ NoNewExpiry(Recover(chan, OperatorFence), chan)
        /\ SameCursors(Settle(chan, OperatorFence), chan)
        /\ NoNewExpiry(Settle(chan, OperatorFence), chan)
    BY <1>0, <2>1, RowFacts, StatementsKeepExpiry
  <2>3. /\ Resync(chan, OperatorFence).cursor = chan.earliest
        /\ NoNewExpiry(Resync(chan, OperatorFence), chan)
        /\ Resync(chan, OperatorFence).incomplete
    BY <1>0, <2>1, RowFacts, StatementsKeepExpiry
  <2>4. Resync(chan, OperatorFence).state = "INCOMPLETE"
    BY <1>0 DEF Resync, ChannelRows
  <2>5. QED
    BY <1>1, <1>5, <2>2, <2>3, <2>4, OperatorWrites DEF SameCursors, NoNewExpiry, Expired,
       CursorStays, CursorResyncs
<1>6. CASE Gateway \/ AckArrives \/ LeaseExpires \/ UNCHANGED vars
  BY <1>1, <1>6 DEF Gateway, AckArrives, LeaseExpires, vars, storeVars
<1>7. QED
  BY <1>1, <1>2, <1>3, <1>4, <1>5, <1>6, OwnWrites DEF Next, Moves

\* There is no hole between position n and the committed cursor.
Reaches(n) == \A p \in 1 .. chan.cursor : n < p => p \in Done

\* Where the cursor may be brought to: the earliest position of a 410, and what the process that
\* has the lease was given to read from.
Reached ==
    /\ Expired(chan) => Reaches(chan.earliest)
    /\ \A i \in Instances :
          lease.holder = i => /\ pc[i] = "got" => from[i] <= upto[i] /\ Reaches(from[i])
                              /\ pc[i] = "expired" => Reaches(upto[i])

\* What is settled beyond the cursor has no hole before it; there is nothing of the kind before
\* the first commit.
NoHoles ==
    /\ chan.committedAny => \A q \in Done : \A p \in 1 .. q : chan.cursor < p => p \in Done
    /\ ~chan.committedAny => Done = {}

\* A record up to the last sequence seen of its session is behind the cursor or settled.
SeenIsSettled ==
    \A p \in 1 .. Len(log) :
       log[p].sequence <= lastSequence[log[p].session] => p <= chan.cursor \/ p \in Done

Order == Ordered /\ Seen
Past  == Reached /\ NoHoles /\ SeenIsSettled

\* Nothing becomes undone.
LEMMA DoneGrows ==
    ASSUME Typed, Rows, [Next]_vars
    PROVE  Done \subseteq Done'
BY DoneSteps, RecordSteps

\* A process comes to hold a batch or a 410 by an answer of the gateway only.
LEMMA FetchesOnly ==
    ASSUME Typed, [Next]_vars, NEW i \in Instances, pc'[i] \in {"got", "expired"}, lease'.holder = i
    PROVE  \/ FetchBatch(i) \/ FetchExpired(i)
           \/ /\ pc'[i] = pc[i] /\ from'[i] = from[i] /\ upto'[i] = upto[i]
              /\ lease.holder = i
<1>0. pc \in [Instances -> PCs] /\ Operator \notin Instances
  BY IngestAssumption DEF Typed, ProcessPart, ProcessTypeOK
<1>1. CASE Gateway \/ AckArrives \/ LeaseExpires \/ Operations \/ UNCHANGED vars
  BY <1>0, <1>1, OthersStep DEF processVars
<1>2. ASSUME NEW j \in Instances, j # i, Pass(j) \/ Life(j)
      PROVE  /\ pc'[i] = pc[i] /\ from'[i] = from[i] /\ upto'[i] = upto[i]
             /\ lease.holder = i
  BY <1>2, OwnStep DEF OthersKeep
<1>3. ASSUME NEW label \in PCs \ {"got", "expired"}, Goto(i, label)
      PROVE  FALSE
  BY <1>0, <1>3 DEF Goto
<1>4. ASSUME NEW label \in {"idle", "blocked", "down"}, EndPass(i, label)
      PROVE  FALSE
  BY <1>3, <1>4 DEF EndPass, PCs
<1>5. ASSUME Life(i)
      PROVE  FALSE
  BY <1>3, <1>4, <1>5 DEF Life, StartAcquire, StartBlocked, StartFinish, Close, Crash, Forget, PCs
<1>6. ASSUME Renew(i) \/ SkipFetch(i) \/ Ask(i) \/ FetchRefused(i) \/ Process(i)
             \/ ProcessStops(i) \/ ProcessCapped(i) \/ AckAnswered(i) \/ AckUnanswered(i)
             \/ AckRefused(i) \/ Housekeep(i) \/ Deliver(i) \/ Mark(i)
      PROVE  FALSE
  BY <1>3, <1>6 DEF Renew, SkipFetch, Ask, FetchRefused, Process, ProcessStops, ProcessCapped,
     AckAnswered, AckUnanswered, AckRefused, Housekeep, Deliver, Mark, PCs
<1>7. ASSUME FetchUnanswered(i) \/ RecordExpired(i) \/ StopChannel(i) \/ RecordGarbled(i)
             \/ RecordCap(i) \/ ClearCap(i) \/ RecordAck(i) \/ EndDispatch(i) \/ LoseLease(i)
             \/ CommitFails(i)
      PROVE  FALSE
  BY <1>3, <1>4, <1>7 DEF FetchUnanswered, RecordExpired, StopChannel, RecordGarbled, RecordCap,
     ClearCap, RecordAck, RecordRefusal, EndDispatch, LoseLease, CommitFails, Forget, PCs
<1>8. QED
  BY <1>1, <1>2, <1>5, <1>6, <1>7 DEF Next, Pass

\* From a position that the gateway still holds there is no hole up to the cursor: what is lost
\* is on the gateway's side of its floor.
Served == \A n \in Int : floor <= n => Reaches(n)

LEMMA ServedReaches == Typed /\ Rows /\ Behind => Served
<1> SUFFICES ASSUME Typed, Rows, Behind, NEW n \in Int, floor <= n
             PROVE  Reaches(n)
  BY DEF Served
<1>1. floor \in Int /\ chan.cursor \in Int /\ chan.cursor <= Len(log) /\ Len(log) \in Nat
  BY BehindFits
<1>2. ASSUME NEW p \in 1 .. chan.cursor, n < p
      PROVE  p \in Done
  <2>1. p \in 1 .. Len(log) /\ p \notin 1 .. floor
    BY <1>1, <1>2
  <2>2. Settled(p) \/ p \in lost
    BY DEF Behind, StoreBehind, SettledOrLost
  <2>3. QED
    BY <2>1, <2>2 DEF Rows, Done
<1>3. QED
  BY <1>2 DEF Reaches

\* A commit: where the cursor goes, and what gets settled on the way.
LEMMA Commit ==
    ASSUME Typed, Rows, Reached, Unheld, [Next]_vars, NEW i \in Instances, Process(i)
    PROVE  /\ from[i] \in Nat /\ upto[i] \in Nat /\ from[i] <= upto[i] /\ upto[i] <= Len(log)
           /\ chan'.cursor = upto[i] /\ chan'.committedAny /\ ~Expired(chan')
           /\ SequenceGap(i) => chan'.incomplete
           /\ log' = log /\ lastSequence' = SequencesAfter(i)
           /\ Done' = Done \cup Batch(i)
           /\ Reaches(from[i])
<1>1. /\ pc[i] = "got" /\ lease.holder = i /\ chan' = RowAfterBatch(i)
      /\ log' = log /\ lastSequence' = SequencesAfter(i)
  BY DEF Process, Holds, gatewayVars
<1>2. from[i] <= upto[i] /\ Reaches(from[i])
  BY <1>1 DEF Reached
<1>3. from[i] \in Nat /\ upto[i] \in Nat /\ upto[i] <= Len(log)
  BY <1>1, BehindFits DEF Typed, ProcessPart, ProcessFits, WithBatch
<1>4. ~Expired(chan)
  BY <1>1 DEF Unheld, UnheldBy, InPass, HeldForOperator, Expired
<1>5. chan'.committedAny /\ ~Expired(chan') /\ (SequenceGap(i) => chan'.incomplete)
  BY <1>1, <1>4, BatchRow
<1>6. chan'.cursor = upto[i]
  BY <1>1, BatchTyped
<1>7. QED
  BY <1>1, <1>2, <1>3, <1>5, <1>6, DoneSteps

LEMMA ReachedStep ==
    ASSUME Typed, Rows, Unheld, Reached, Served', [Next]_vars
    PROVE  Reached'
<1>0. /\ chan.cursor \in Int /\ chan'.cursor \in Int /\ Done \subseteq Done'
      /\ Operator \notin Instances
  BY Grown, DoneGrows, IngestAssumption
<1>1. ASSUME NEW n, Reaches(n), chan'.cursor = chan.cursor
      PROVE  \A p \in 1 .. chan'.cursor : n < p => p \in Done'
  BY <1>0, <1>1 DEF Reaches
<1>2. ASSUME Expired(chan')
      PROVE  Reaches(chan.earliest)'
  <2>1. CASE CursorStays
    <3>1. Reaches(chan.earliest)
      BY <1>2, <2>1 DEF CursorStays, NoNewExpiry, Reached
    <3>2. QED
      BY <1>1, <2>1, <3>1 DEF Reaches, CursorStays
  <2>2. ASSUME NEW i \in Instances, Expiry(i)
        PROVE  Reaches(chan.earliest)'
    <3>1. Reaches(upto[i]) /\ chan'.cursor = chan.cursor /\ chan'.earliest = upto[i]
      BY <2>2 DEF Expiry, Reached
    <3>2. QED
      BY <1>1, <3>1 DEF Reaches
  <2>3. CASE CursorResyncs
    BY <1>2, <2>3 DEF CursorResyncs
  <2>4. ASSUME NEW i \in Instances, Process(i)
        PROVE  FALSE
    BY <1>2, <2>4, Commit
  <2>5. QED
    BY <2>1, <2>2, <2>3, <2>4, CursorSteps
<1>3. ASSUME NEW i \in Instances, FetchBatch(i) \/ FetchExpired(i)
      PROVE  /\ pc'[i] = "got" => from'[i] <= upto'[i] /\ Reaches(from[i])'
             /\ pc'[i] = "expired" => Reaches(upto[i])'
  <2>0. /\ pc \in [Instances -> PCs] /\ from \in [Instances -> Cursors]
        /\ upto \in [Instances -> Cursors]
        /\ floor' \in Int /\ RetainedFrom(log, acked) \in Int /\ ReadFrom(from[i]) \in Int
    <3>1. /\ pc \in [Instances -> PCs] /\ from \in [Instances -> Cursors]
          /\ upto \in [Instances -> Cursors] /\ GatewayPart
      BY DEF Typed, ProcessPart, ProcessTypeOK
    <3>2. from[i] \in Cursors /\ from[i] <= Len(log)
      BY <3>1, BehindFits
    <3>3. RetainedFrom(log, acked) \in Int /\ ReadFrom(from[i]) \in Int
      BY <3>1, <3>2, ReadFromFacts, GatewayAssumption
    <3>4. floor' \in Int
      BY FloorRises DEF FloorMoves
    <3>5. QED
      BY <3>1, <3>3, <3>4
  <2>1. CASE FetchBatch(i)
    <3>1. /\ pc'[i] # "expired" /\ from'[i] = ReadFrom(from[i])
          /\ floor' = RetainedFrom(log, acked) /\ ReadFrom(from[i]) >= RetainedFrom(log, acked)
          /\ upto'[i] \in ReadFrom(from[i]) .. Len(log)
      BY <2>0, <2>1 DEF FetchBatch, ReadBatch, IsBatch, Retain, Goto
    <3>2. Reaches(from[i])'
      BY <2>0, <3>1 DEF Served
    <3>3. QED
      BY <2>0, <3>1, <3>2, BehindFits
  <2>2. CASE FetchExpired(i)
    <3>1. pc'[i] = "expired" /\ upto'[i] = floor'
      BY <2>0, <2>2 DEF FetchExpired, Goto
    <3>2. Reaches(upto[i])'
      BY <2>0, <3>1 DEF Served
    <3>3. QED
      BY <3>1, <3>2
  <2>3. QED
    BY <1>3, <2>1, <2>2
<1>4. ASSUME NEW i \in Instances, lease.holder = i, lease'.holder = i,
             pc'[i] \in {"got", "expired"}, pc'[i] = pc[i], from'[i] = from[i],
             upto'[i] = upto[i]
      PROVE  /\ pc'[i] = "got" => from'[i] <= upto'[i] /\ Reaches(from[i])'
             /\ pc'[i] = "expired" => Reaches(upto[i])'
  <2>1. chan'.cursor = chan.cursor
    <3>1. CASE CursorResyncs
      BY <1>0, <1>4, <3>1 DEF CursorResyncs
    <3>2. ASSUME NEW j \in Instances, Process(j)
          PROVE  FALSE
      <4>1. j = i
        BY <1>4, <3>2 DEF Process, Holds
      <4>2. pc'[i] \in {"committed", "consumed"}
        BY <3>2, <4>1 DEF Process, Goto, Typed, ProcessPart, ProcessTypeOK
      <4>3. QED
        BY <1>4, <4>2
    <3>3. QED
      BY <3>1, <3>2, CursorSteps DEF CursorStays, Expiry
  <2>2. QED
    BY <1>1, <1>4, <2>1 DEF Reached, Reaches
<1>5. QED
  BY <1>2, <1>3, <1>4, FetchesOnly DEF Reached

LEMMA NoHolesStep ==
    ASSUME Typed, Rows, Unheld, Reached, NoHoles, [Next]_vars
    PROVE  NoHoles'
<1>0. /\ chan.cursor \in Int /\ chan.earliest \in Int
      /\ Done \subseteq Done' /\ \A q \in Done : q \in Int
      /\ chan.committedAny \in BOOLEAN
  BY BehindFits, DoneGrows DEF Done, Typed, StorePart, StoreTypeOK, ChannelRows
<1>1. ASSUME chan.committedAny, NEW n \in Int, Reaches(n), NEW q \in Done, NEW p \in 1 .. q, n < p
      PROVE  p \in Done
  BY <1>0, <1>1 DEF NoHoles, Reaches
<1>2. ASSUME NEW i \in Instances, Process(i)
      PROVE  NoHoles'
  <2>1. /\ from[i] \in Nat /\ upto[i] \in Nat /\ from[i] <= upto[i]
        /\ chan'.cursor = upto[i] /\ chan'.committedAny
        /\ Done' = Done \cup Batch(i) /\ Reaches(from[i])
    BY <1>2, Commit
  <2>2. ASSUME NEW q \in Done', NEW p \in 1 .. q, upto[i] < p
        PROVE  p \in Done'
    <3>1. q \in Done
      BY <2>1, <2>2 DEF Batch
    <3>2. chan.committedAny
      BY <3>1 DEF NoHoles
    <3>3. QED
      BY <1>0, <1>1, <2>1, <2>2, <3>1, <3>2
  <2>3. QED
    BY <2>1, <2>2 DEF NoHoles
<1>3. CASE UNCHANGED recordVars
  <2>1. Done' = Done
    BY <1>3, DoneSteps
  <2>2. CASE CursorResyncs
    <3>1. chan'.cursor = chan.earliest /\ chan'.committedAny = chan.committedAny
          /\ Reaches(chan.earliest)
      BY <2>2 DEF CursorResyncs, Reached
    <3>2. QED
      BY <1>0, <1>1, <2>1, <3>1 DEF NoHoles
  <2>3. ASSUME chan'.cursor = chan.cursor, chan'.committedAny = chan.committedAny
        PROVE  NoHoles'
    BY <2>1, <2>3 DEF NoHoles
  <2>4. QED
    BY <1>2, <2>2, <2>3, CursorSteps DEF CursorStays, NoNewExpiry, Expiry
<1>4. QED
  BY <1>2, <1>3, RecordSteps

LEMMA SeenIsSettledStep ==
    ASSUME Typed, Rows, Unheld, Reached, SeenIsSettled, Order, [Next]_vars
    PROVE  SeenIsSettled'
<1>0. /\ chan.cursor \in Int /\ chan.earliest \in Int /\ Done \subseteq Done'
      /\ Len(log) \in Nat /\ Len(log') \in Nat /\ Len(log) <= Len(log')
      /\ lastSequence \in [Sessions -> Nat \cup {-1}] /\ nextSequence \in Nat
      /\ \A p \in 1 .. Len(log) : /\ log'[p] = log[p] /\ log[p].session \in Sessions
                                  /\ log[p].sequence \in Nat
  BY Grown, BehindFits, DoneGrows
<1>1. ASSUME NEW p \in 1 .. Len(log), p <= chan.cursor \/ p \in Done
      PROVE  p <= chan'.cursor \/ p \in Done'
  <2>1. CASE p \in Done
    BY <1>0, <2>1
  <2>2. CASE p <= chan.cursor
    <3>1. p \in 1 .. chan.cursor
      BY <1>0, <2>2
    <3>2. CASE CursorResyncs
      <4>1. chan'.cursor = chan.earliest /\ Reaches(chan.earliest)
        BY <3>2 DEF CursorResyncs, Reached
      <4>2. QED
        BY <1>0, <3>1, <4>1 DEF Reaches
    <3>3. ASSUME NEW i \in Instances, Process(i)
          PROVE  p <= chan'.cursor \/ p \in Done'
      <4>1. /\ from[i] \in Nat /\ upto[i] \in Nat /\ from[i] <= upto[i]
            /\ chan'.cursor = upto[i] /\ Reaches(from[i])
        BY <3>3, Commit
      <4>2. QED
        BY <1>0, <3>1, <4>1 DEF Reaches
    <3>4. QED
      BY <2>2, <3>2, <3>3, CursorSteps DEF CursorStays, Expiry
  <2>3. QED
    BY <1>1, <2>1, <2>2
<1>2. ASSUME NEW i \in Instances, Process(i)
      PROVE  SeenIsSettled'
  <2>1. /\ from[i] \in Nat /\ upto[i] \in Nat /\ from[i] <= upto[i] /\ upto[i] <= Len(log)
        /\ chan'.cursor = upto[i] /\ log' = log /\ lastSequence' = SequencesAfter(i)
    BY <1>2, Commit
  <2>2. ASSUME NEW p \in 1 .. Len(log), log[p].sequence <= lastSequence'[log[p].session]
        PROVE  \/ log[p].sequence <= lastSequence[log[p].session]
               \/ p <= upto[i]
    <3>1. CASE Batch(i) = {}
      BY <2>1, <2>2, <3>1 DEF SequencesAfter
    <3>2. CASE Batch(i) # {}
      <4>1. upto[i] \in 1 .. Len(log)
        BY <2>1, <3>2 DEF Batch
      <4>2. lastSequence' = [lastSequence EXCEPT
               ![log[upto[i]].session] = Later(lastSequence[log[upto[i]].session],
                                               log[upto[i]].sequence)]
        BY <2>1, <3>2 DEF SequencesAfter
      <4>3. \/ lastSequence'[log[p].session] = lastSequence[log[p].session]
            \/ /\ log[p].session = log[upto[i]].session
               /\ lastSequence'[log[p].session] = log[upto[i]].sequence
        BY <1>0, <4>2 DEF Later
      <4>4. ASSUME log[p].session = log[upto[i]].session,
                   log[p].sequence <= log[upto[i]].sequence, upto[i] < p
            PROVE  FALSE
        <5>1. log[upto[i]].sequence < log[p].sequence
          BY <4>1, <4>4 DEF Order, Ordered
        <5>2. QED
          BY <1>0, <4>1, <4>4, <5>1
      <4>5. QED
        BY <2>1, <2>2, <4>3, <4>4
    <3>3. QED
      BY <3>1, <3>2
  <2>3. QED
    BY <1>1, <2>1, <2>2 DEF SeenIsSettled
<1>3. CASE UNCHANGED recordVars
  <2>1. lastSequence' = lastSequence
    BY <1>3 DEF recordVars
  <2>2. ASSUME NEW p \in 1 .. Len(log'), p \notin 1 .. Len(log)
        PROVE  ~(log'[p].sequence <= lastSequence[log'[p].session])
    <3>1. log' # log
      BY <2>2
    <3>2. PICK id \in Ids, kind \in Kinds : Publish(id, kind)
      BY <3>1, LogSteps DEF Gateway, NewSession, SkipSequence, Age
    <3>3. /\ session \in Sessions /\ log \in Seq(Records)
          /\ log' = Append(log, [id |-> id, kind |-> kind, session |-> session,
                                 sequence |-> nextSequence])
      BY <3>2 DEF Publish, Typed, GatewayPart, GatewayTypeOK
    <3>4. log'[p].session = session /\ log'[p].sequence = nextSequence
      BY <1>0, <2>2, <3>3
    <3>5. lastSequence[session] < nextSequence
      <4>1. CASE lastSequence[session] = -1
        BY <1>0, <4>1
      <4>2. CASE lastSequence[session] # -1
        BY <3>3, <4>2 DEF Order, Ordered, Seen
      <4>3. QED
        BY <4>1, <4>2
    <3>6. QED
      BY <1>0, <3>3, <3>4, <3>5
  <2>3. QED
    BY <1>0, <1>1, <2>1, <2>2 DEF SeenIsSettled
<1>4. QED
  BY <1>2, <1>3, RecordSteps

LEMMA PastAlways == Spec => [](Order /\ Past)
<1>1. Init => Order /\ Past
  <2> SUFFICES ASSUME Init
               PROVE  Order /\ Past
    OBVIOUS
  <2>1. /\ 1 .. Len(log) = {} /\ chan = InitialRow /\ ~chan.committedAny /\ ~Expired(chan)
        /\ \A s \in Sessions : lastSequence[s] = -1
        /\ \A i \in Instances : pc[i] = "down"
    BY DEF Init, GatewayInit, InitialRow, Expired
  <2>2. QED
    BY <2>1 DEF Order, Ordered, Seen, Past, Reached, NoHoles, SeenIsSettled, Done
<1>2. Typed /\ Rows /\ Unheld /\ Served' /\ Order /\ Past /\ [Next]_vars => (Order /\ Past)'
  BY OrderedStep, SeenStep, ReachedStep, NoHolesStep, SeenIsSettledStep DEF Order, Past
<1>3. Spec => []Served
  BY ServedReaches, TypedAlways, RowsAlways, BehindAlways, PTL
<1>4. QED
  BY <1>1, <1>2, <1>3, TypedAlways, RowsAlways, UnheldAlways, PTL DEF Spec

\* A commit that steps over a record the gateway lost inside a delivery session puts a gap on
\* record in the same transaction, whatever was fetched again, resynchronised, skipped or
\* committed by another process before: the first record of the batch is beyond the next
\* sequence number of its session (_contiguity), and after a 410 `resync` has said so.
THEOREM LossesInSessionAreOnRecord == Spec => LossInSessionIsOnRecord
<1> DEFINE Steps(p, q) == StepsOver(p, q) /\ log[p].session = log[q].session
           OnRecord == (\E p, q \in Positions : Steps(p, q)) => chan'.incomplete
<1>1. Typed /\ Rows /\ Unheld /\ Order /\ Past /\ [Next]_vars => OnRecord
  <2> SUFFICES ASSUME Typed, Rows, Unheld, Order, Past, [Next]_vars,
                      NEW p \in Positions, NEW q \in Positions, Steps(p, q)
               PROVE  chan'.incomplete
    OBVIOUS
  <2>0. /\ p \in Nat /\ q \in Nat /\ 0 < p /\ p < q /\ chan.cursor < p /\ q <= chan'.cursor
        /\ chan.committedAny /\ chan.cursor \in Int /\ chan'.cursor \in Int /\ Len(log) \in Nat
        /\ ~Settled(p)' /\ Settled(q)' /\ log[p].session = log[q].session
    BY Grown, GatewayAssumption DEF StepsOver, Positions
  <2>1. CASE CursorStays
    BY <2>0, <2>1 DEF CursorStays
  <2>2. ASSUME NEW i \in Instances, Expiry(i)
        PROVE  FALSE
    BY <2>0, <2>2 DEF Expiry
  <2>3. CASE CursorResyncs
    BY <2>3 DEF CursorResyncs
  <2>4. ASSUME NEW i \in Instances, Process(i)
        PROVE  chan'.incomplete
    <3> DEFINE r == from[i] + 1
    <3>1. /\ from[i] \in Nat /\ upto[i] \in Nat /\ upto[i] <= Len(log)
          /\ chan'.cursor = upto[i] /\ log' = log /\ Done' = Done \cup Batch(i)
          /\ SequenceGap(i) => chan'.incomplete
      BY <2>4, Commit DEF Past
    <3>2. p \in 1 .. Len(log) /\ q \in 1 .. Len(log) /\ p \notin Done' /\ q \in Done'
      BY <2>0, <3>1 DEF Done
    <3>3. p <= from[i]
      BY <2>0, <3>1, <3>2 DEF Batch
    <3>4. q \in Batch(i)
      <4>1. q \notin Done
        BY <2>0, <3>1, <3>2 DEF Past, NoHoles
      <4>2. QED
        BY <3>1, <3>2, <4>1
    <3>5. r \in Batch(i) /\ r \in 1 .. Len(log) /\ p < r /\ r <= q
      <4>1. q \in Int /\ from[i] + 1 <= q /\ q <= upto[i]
        BY <3>1, <3>4 DEF Batch
      <4>2. r \in from[i] + 1 .. upto[i] /\ r \in 1 .. Len(log)
        BY <2>0, <3>1, <4>1
      <4>3. QED
        BY <2>0, <3>1, <3>3, <4>1, <4>2 DEF Batch
    <3>6. /\ log[p].session \in Int /\ log[r].session \in Int /\ log[q].session \in Int
          /\ log[p].session \in Sessions
          /\ log[p].sequence \in Nat /\ log[r].sequence \in Nat
      <4>1. log[p] \in Records /\ log[r] \in Records /\ log[q] \in Records
        BY <3>2, <3>5 DEF Typed, GatewayPart, GatewayTypeOK
      <4>2. QED
        BY <4>1, GatewayAssumption DEF Records, Sessions
    <3>7. log[r].session = log[p].session /\ log[p].sequence < log[r].sequence
      <4>1. log[p].session <= log[r].session /\ (r < q => log[r].session <= log[q].session)
        BY <3>2, <3>5 DEF Order, Ordered
      <4>2. log[r].session = log[p].session
        BY <2>0, <3>5, <3>6, <4>1
      <4>3. QED
        BY <3>2, <3>5, <4>2 DEF Order, Ordered
    <3>8. lastSequence[log[p].session] < log[p].sequence
      <4>1. lastSequence[log[p].session] \in Int
        BY <3>6 DEF Typed, StorePart, StoreTypeOK
      <4>2. p \notin Done /\ ~(p <= chan.cursor)
        BY <2>0, <3>1, <3>2
      <4>3. ~(log[p].sequence <= lastSequence[log[p].session])
        BY <3>2, <4>2 DEF Past, SeenIsSettled
      <4>4. QED
        BY <3>6, <4>1, <4>3
    <3>9. Beyond(log[r].sequence, lastSequence[log[r].session])
      <4>1. lastSequence[log[p].session] \in Int
        BY <3>6 DEF Typed, StorePart, StoreTypeOK
      <4>2. QED
        BY <3>6, <3>7, <3>8, <4>1 DEF Beyond
    <3>10. SequenceGap(i)
      <4>1. ~FirstEver(i, r)
        BY <2>0 DEF FirstEver
      <4>2. from[i] + 1 .. r - 1 = {}
        BY <3>1
      <4>3. QED
        BY <3>5, <3>9, <4>1, <4>2 DEF SequenceGap
    <3>11. QED
      BY <3>1, <3>10
  <2>5. QED
    BY <2>1, <2>2, <2>3, <2>4, CursorSteps
<1>2. Typed /\ Rows /\ Unheld /\ Order /\ Past /\ [Next]_vars => [OnRecord]_vars
  BY <1>1
<1>3. QED
  BY <1>2, TypedAlways, RowsAlways, UnheldAlways, PastAlways, PTL
     DEF Spec, LossInSessionIsOnRecord

=============================================================================
