----------------------------- MODULE BridgeIngest -----------------------------
(***************************************************************************)
(* The ingest side of the Link 16 bridge: bridge processes that share one  *)
(* SQLite store, the writer lease and its fence, the pass of `run_once`    *)
(* (renew, look, fetch, ingest, acknowledge, housekeep, dispatch), the     *)
(* operator's records, the gateway of GatewayLog and a sink.               *)
(*                                                                         *)
(* A process is at pc[i].  Each action is one atomic effect: a store       *)
(* transaction, a call the gateway answers, or a delivery to the sink;     *)
(* between two of them the process can be overtaken, lose its lease or     *)
(* die.  A process that dies loses everything but the store.  A process of *)
(* Instances that starts again is a new process with a new holder id, so   *)
(* it has to wait for the lease of its predecessor like any other.         *)
(*                                                                         *)
(* Wall-clock time is abstracted: a lease may expire at any moment.        *)
(***************************************************************************)
EXTENDS ChannelRow, GatewayLog, FiniteSets

CONSTANTS Instances,      \* bridge processes
          Operator,       \* the holder of the lease while an operator's command runs
          Faults,         \* the failures of the environment an instance of the model has
          MaxFence,       \* bound: acquisitions of the lease
          MaxQueue,       \* limits.max_queued_reports
          RetryMax        \* limits.batch_retry_max

ASSUME IngestAssumption ==
    /\ Operator \notin Instances
    /\ Kinds \subseteq {"report", "refused", "gap", "reset", "stop"}
    /\ Faults \subseteq {"unavailable", "auth", "garbled", "ack", "identities", "commit", "sink"}
    /\ MaxFence \in Nat \ {0} /\ MaxQueue \in Nat \ {0} /\ RetryMax \in Nat \ {0}
    /\ Revisions \subseteq Nat \ {0} /\ 1 \in Revisions

VARIABLES
    \* the store
    lease,         \* the lease row: holder, fence, and whether its time is over
    chan,          \* the channel row
    ingest,        \* ingest rows: the log position whose body is recorded under an id, or 0
    clashes,       \* positions quarantined as DUPLICATE_CONFLICT (they have no ingest row)
    lastSequence,  \* session_seq: the last sequence seen of a session, or -1
    accepted,      \* the `accepted` counter
    outbox,        \* positions whose events are in the outbox
    dispatched,    \* those marked dispatched
    \* the processes
    pc, fence, rev, refetch, from, upto, todo, event,
    \* the environment
    revision,      \* the configuration revision the operator has deployed
    ackCalls,      \* acknowledgements sent whose answer the bridge no longer waits for
    taken          \* the events the sink holds

storeVars   == <<lease, chan, ingest, clashes, lastSequence, accepted, outbox, dispatched>>
recordVars  == <<ingest, clashes, lastSequence, accepted, outbox>>
processVars == <<pc, fence, rev, refetch, from, upto, todo, event>>
passVars    == <<from, upto, todo, event>>
lifeVars    == <<fence, rev, refetch>>
outerVars   == <<revision, ackCalls, taken>>
vars        == <<gatewayVars, storeVars, processVars, outerVars>>

Cursors   == NoCursor .. MaxHead
NoRefetch == NoCursor - 1

PCs == {"down", "starting", "idle", "renewed", "asking", "got", "garbled", "expired", "stopping",
        "capped", "consumed", "committed", "acked", "house", "dispatch", "mark", "blocked"}

StoreTypeOK ==
    /\ lease \in [holder: Instances \cup {Operator}, fence: 0 .. MaxFence, expired: BOOLEAN]
    /\ chan \in ChannelRows(Cursors)
    /\ ingest \in [Ids -> 0 .. MaxHead]
    /\ clashes \subseteq Positions
    /\ lastSequence \in [Sessions -> Nat \cup {-1}]
    /\ accepted \in Nat
    /\ outbox \subseteq Positions /\ dispatched \subseteq Positions

ProcessTypeOK ==
    /\ pc \in [Instances -> PCs]
    /\ fence \in [Instances -> 0 .. MaxFence]
    /\ rev \in [Instances -> Revisions]
    /\ refetch \in [Instances -> Cursors \cup {NoRefetch}]
    /\ from \in [Instances -> Cursors] /\ upto \in [Instances -> Cursors]
    /\ todo \in [Instances -> SUBSET Positions]
    /\ event \in [Instances -> 0 .. MaxHead]

OuterTypeOK ==
    /\ revision \in Revisions
    /\ ackCalls \subseteq 0 .. MaxHead
    /\ taken \subseteq Positions

TypeOK == GatewayTypeOK /\ StoreTypeOK /\ ProcessTypeOK /\ OuterTypeOK

Init ==
    /\ GatewayInit
    /\ lease = [holder |-> Operator, fence |-> 0, expired |-> TRUE]
    /\ chan = InitialRow
    /\ ingest = [d \in Ids |-> 0] /\ clashes = {}
    /\ lastSequence = [s \in Sessions |-> -1]
    /\ accepted = 0 /\ outbox = {} /\ dispatched = {}
    /\ pc = [i \in Instances |-> "down"]
    /\ fence = [i \in Instances |-> 0]
    /\ rev = [i \in Instances |-> 1]
    /\ refetch = [i \in Instances |-> NoRefetch]
    /\ from = [i \in Instances |-> NoCursor] /\ upto = [i \in Instances |-> NoCursor]
    /\ todo = [i \in Instances |-> {}] /\ event = [i \in Instances |-> 0]
    /\ revision = 1 /\ ackCalls = {} /\ taken = {}

-----------------------------------------------------------------------------
\* The lease.

\* Mutant: the lease is live, whoever holds it.
MutantHolds(i) == ~lease.expired

\* Lease.check, which runs at the start of every fenced transaction.
Holds(i) == lease.holder = i /\ lease.fence = fence[i] /\ ~lease.expired

\* MaxFence leaves room for a successor: the holder of the last fence neither dies nor loses it.
Spare == lease.fence < MaxFence

\* Mutant: only a lease that no process ever held is free.
MutantAcquire(holder) ==
    /\ lease.holder = Operator
    /\ Spare
    /\ lease' = [holder |-> holder, fence |-> lease.fence + 1, expired |-> FALSE]

\* Lease.acquire: the lease is free or expired.
Acquire(holder) ==
    /\ lease.expired
    /\ Spare
    /\ lease' = [holder |-> holder, fence |-> lease.fence + 1, expired |-> FALSE]

Goto(i, label) == pc' = [pc EXCEPT ![i] = label]

\* The pass is over; what it had read is forgotten.
EndPass(i, label) ==
    /\ Goto(i, label)
    /\ from'  = [from EXCEPT ![i] = NoCursor]
    /\ upto'  = [upto EXCEPT ![i] = NoCursor]
    /\ todo'  = [todo EXCEPT ![i] = {}]
    /\ event' = [event EXCEPT ![i] = 0]

-----------------------------------------------------------------------------
\* Startup and exit.

\* start, up to the lease; a LeaseHeld answer ends the process and leaves no trace.
StartAcquire(i) ==
    /\ pc[i] = "down"
    /\ Acquire(i)
    /\ fence' = [fence EXCEPT ![i] = lease'.fence]
    /\ rev' = [rev EXCEPT ![i] = revision]
    /\ Goto(i, "starting")
    /\ UNCHANGED <<gatewayVars, chan, recordVars, dispatched, refetch, passVars, outerVars>>

\* start: the gateway's capabilities do not arrive, or are not the configured ones.
StartBlocked(i) ==
    /\ pc[i] = "starting" /\ "unavailable" \in Faults /\ Spare
    /\ Goto(i, "blocked")
    /\ UNCHANGED <<gatewayVars, storeVars, lifeVars, passVars, outerVars>>

NewRevision(i) == chan.state = "STOPPED" /\ chan.stoppedRevision # rev[i]

\* start, from the restored channel on: a stopped channel starts again under a new revision, and
\* a commit whose acknowledgement is not on record is fetched again.
StartFinish(i) ==
    /\ pc[i] = "starting"
    /\ IF NewRevision(i)
         THEN Holds(i) /\ chan' = Settle(chan, fence[i])
         ELSE UNCHANGED chan
    /\ refetch' = [refetch EXCEPT ![i] =
                     IF chan.committedAny /\ chan.acked # chan.cursor THEN chan.acked
                                                                      ELSE NoRefetch]
    /\ Goto(i, "idle")
    /\ UNCHANGED <<gatewayVars, lease, recordVars, dispatched, fence, rev, passVars, outerVars>>

\* The process is gone, and with it all it knew.
Forget(i) ==
    /\ EndPass(i, "down")
    /\ fence' = [fence EXCEPT ![i] = 0]
    /\ rev' = [rev EXCEPT ![i] = 1]
    /\ refetch' = [refetch EXCEPT ![i] = NoRefetch]

\* cmd_run's end and close: a process that still holds the lease gives it up.
Close(i) ==
    /\ pc[i] \in {"idle", "blocked"}
    /\ Spare
    /\ lease' = IF Holds(i) THEN [lease EXCEPT !.expired = TRUE] ELSE lease
    /\ Forget(i)
    /\ UNCHANGED <<gatewayVars, chan, recordVars, dispatched, outerVars>>

\* A process dies at any point; an open transaction is rolled back.
Crash(i) ==
    /\ pc[i] # "down"
    /\ Spare
    /\ Forget(i)
    /\ UNCHANGED <<gatewayVars, storeVars, outerVars>>

-----------------------------------------------------------------------------
\* One pass: run_once.

\* Renew the lease, or take it again when it has expired and nobody holds it.
Renew(i) ==
    /\ pc[i] = "idle"
    /\ \/ Holds(i) /\ UNCHANGED <<lease, fence>> /\ Goto(i, "renewed")
       \/ /\ ~Holds(i) /\ Acquire(i)
          /\ fence' = [fence EXCEPT ![i] = lease'.fence]
          /\ Goto(i, "renewed")
       \/ ~Holds(i) /\ ~lease.expired /\ UNCHANGED <<lease, fence>> /\ Goto(i, "blocked")
    /\ UNCHANGED <<gatewayVars, chan, recordVars, dispatched, rev, refetch, passVars, outerVars>>

HeldForOperator == chan.state \in {"STOPPED", "RESYNC_REQUIRED"}
QueueFull       == Cardinality(outbox \ dispatched) >= MaxQueue

\* _overloaded writes on a transition only, and never over a gap.
Overloads(cap) == chan.state = "NORMAL" \/ (chan.state = "OVERLOADED" /\ chan.reason # cap)

\* The cap that held the channel is not the identity cap: a pass below the cap clears it.
Clears == chan.state = "OVERLOADED" /\ chan.reason # "CAPACITY_IDENTITIES"

\* The channel is stopped, awaits resynchronisation or is at the report cap: no fetch.
SkipFetch(i) ==
    /\ pc[i] = "renewed"
    /\ HeldForOperator \/ QueueFull
    /\ IF ~HeldForOperator /\ Overloads("CAPACITY_REPORTS")
         THEN Holds(i) /\ chan' = Overload(chan, "CAPACITY_REPORTS", fence[i])
         ELSE UNCHANGED chan
    /\ Goto(i, "house")
    /\ UNCHANGED <<gatewayVars, lease, recordVars, dispatched, lifeVars, passVars, outerVars>>

\* Ask for the batch after the committed cursor, or after the acknowledged one of a restart.
Ask(i) ==
    /\ pc[i] = "renewed"
    /\ ~HeldForOperator /\ ~QueueFull
    /\ IF Clears THEN Holds(i) /\ chan' = Settle(chan, fence[i]) ELSE UNCHANGED chan
    /\ from' = [from EXCEPT ![i] = IF refetch[i] # NoRefetch THEN refetch[i] ELSE chan.cursor]
    /\ Goto(i, "asking")
    /\ UNCHANGED <<gatewayVars, lease, recordVars, dispatched, lifeVars, upto, todo, event,
                   outerVars>>

\* Mutant: an empty batch is not processed, hence not acknowledged.
MutantFetchBatch(i) ==
    /\ pc[i] = "asking"
    /\ \E end \in 0 .. Len(log) :
          /\ ReadBatch(from[i], end)
          /\ IF end = ReadFrom(from[i])
               THEN EndPass(i, "idle")
               ELSE /\ upto' = [upto EXCEPT ![i] = end]
                    /\ from' = [from EXCEPT ![i] = ReadFrom(from[i])]
                    /\ Goto(i, "got")
                    /\ UNCHANGED <<todo, event>>
    /\ UNCHANGED <<storeVars, lifeVars, outerVars>>

\* The gateway delivers a batch, sound or structurally invalid.
FetchBatch(i) ==
    /\ pc[i] = "asking"
    /\ \E end \in 0 .. Len(log) :
          /\ ReadBatch(from[i], end)
          /\ upto' = [upto EXCEPT ![i] = end]
    /\ from' = [from EXCEPT ![i] = ReadFrom(from[i])]
    /\ \/ Goto(i, "got")
       \/ "garbled" \in Faults /\ Goto(i, "garbled")
    /\ UNCHANGED <<storeVars, lifeVars, todo, event, outerVars>>

\* The gateway answers 410 with the earliest cursor it still serves.
FetchExpired(i) ==
    /\ pc[i] = "asking"
    /\ ReadExpired(from[i])
    /\ upto' = [upto EXCEPT ![i] = floor']
    /\ Goto(i, "expired")
    /\ UNCHANGED <<storeVars, lifeVars, from, todo, event, outerVars>>

\* 429, 503 or no answer: the pass waits for the backoff and ends.
FetchUnanswered(i) ==
    /\ pc[i] = "asking" /\ "unavailable" \in Faults
    /\ EndPass(i, "idle")
    /\ UNCHANGED <<gatewayVars, storeVars, lifeVars, outerVars>>

\* 401, 403 or any other answer that is not worth a retry.
FetchRefused(i) ==
    /\ pc[i] = "asking" /\ "auth" \in Faults
    /\ Goto(i, "stopping")
    /\ UNCHANGED <<gatewayVars, storeVars, lifeVars, passVars, outerVars>>

-----------------------------------------------------------------------------
\* One batch, one transaction: Ingestor.process.

\* Mutant: the last record is left out.
MutantBatch(i) == from[i] + 1 .. upto[i] - 1

\* The records of the batch a process holds.
Batch(i) == from[i] + 1 .. upto[i]

\* _record's deduplication: a record is new, the one already recorded, or another body under
\* a recorded id.  The first body seen under an id gets the row.
Fresh(i) ==
    {p \in Batch(i) : /\ ingest[log[p].id] = 0
                      /\ \A q \in from[i] + 1 .. p - 1 : log[q].id # log[p].id}

RowAfter(i, d) ==
    IF \E p \in Fresh(i) : log[p].id = d THEN CHOOSE p \in Fresh(i) : log[p].id = d
                                        ELSE ingest[d]

Clashes(i) == {p \in Batch(i) : RowAfter(i, log[p].id) # p}

\* channel_check refuses a "stop" record under the first configuration revision; the operator's
\* next revision is one that admits it.
Admits(i, p) == log[p].kind = "report" \/ (log[p].kind = "stop" /\ rev[i] # 1)
Stops(i, p)  == log[p].kind = "stop" /\ rev[i] = 1

\* Mutant: one missing sequence number is not a gap.
MutantBeyond(sequence, last) == sequence > last + 2

Beyond(sequence, last) == sequence > last + 1

\* _contiguity: a record beyond the next sequence of its session, or a session that does not
\* start at 0, except for the first record the channel ever sees.
FirstEver(i, p) ==
    ~chan.committedAny /\ p = from[i] + 1 /\ \A s \in Sessions : lastSequence[s] = -1

SequenceGap(i) ==
    \E p \in Batch(i) :
       /\ ~FirstEver(i, p)
       /\ Beyond(log[p].sequence, lastSequence[log[p].session])
       /\ \A q \in from[i] + 1 .. p - 1 : Beyond(log[p].sequence, log[q].sequence)

\* The last sequence of the batch's session once the batch is in.
SequencesAfter(i) ==
    IF Batch(i) = {} THEN lastSequence
    ELSE LET end == log[upto[i]]
         IN  [lastSequence EXCEPT ![end.session] = Later(@, end.sequence)]

Holding(i, kind) == \E p \in Fresh(i) : log[p].kind = kind

\* The channel row after the batch: a gap, a scope reset, a clash, the cursor.
RowAfterBatch(i) ==
    LET f == fence[i]
        gap   == IF SequenceGap(i) \/ Holding(i, "gap") THEN RecordGap(chan, f) ELSE chan
        reset == IF Holding(i, "reset") THEN CloseEpoch(gap, f) ELSE gap
        clash == IF Clashes(i) # {} THEN Degrade(reset, f) ELSE reset
    IN  MoveCursor(clash, upto[i], f)

\* Mutant: a redelivered record is counted again.
MutantCounted(i) == Cardinality({p \in Batch(i) : log[p].kind # "refused"})

\* What the batch adds to the `accepted` counter.
Counted(i) == Cardinality({p \in Fresh(i) : log[p].kind # "refused"})

Process(i) ==
    /\ pc[i] = "got"
    /\ Holds(i)
    /\ \A p \in Fresh(i) : ~Stops(i, p)
    /\ ingest' = [d \in Ids |-> RowAfter(i, d)]
    /\ clashes' = clashes \cup Clashes(i)
    /\ lastSequence' = SequencesAfter(i)
    /\ accepted' = accepted + Counted(i)
    /\ outbox' = outbox \cup {p \in Fresh(i) : Admits(i, p)}
    /\ chan' = RowAfterBatch(i)
    /\ refetch' = [refetch EXCEPT ![i] = NoRefetch]
    /\ IF chan'.state = "OVERLOADED" /\ chan'.reason = "CAPACITY_IDENTITIES"
         THEN Goto(i, "consumed")
         ELSE Goto(i, "committed")
    /\ UNCHANGED <<gatewayVars, lease, dispatched, fence, rev, passVars, outerVars>>

\* ChannelStop: the transaction is rolled back and the channel is stopped.
ProcessStops(i) ==
    /\ pc[i] = "got"
    /\ Holds(i)
    /\ \E p \in Fresh(i) : Stops(i, p)
    /\ Goto(i, "stopping")
    /\ UNCHANGED <<gatewayVars, storeVars, lifeVars, passVars, outerVars>>

\* CapacityStop: a new report would add an identity beyond the cap; nothing is consumed.
ProcessCapped(i) ==
    /\ pc[i] = "got" /\ "identities" \in Faults
    /\ Holds(i)
    /\ \E p \in Fresh(i) : /\ Admits(i, p)
                           /\ \A q \in Fresh(i) : q < p => ~Stops(i, q)
    /\ Goto(i, "capped")
    /\ UNCHANGED <<gatewayVars, storeVars, lifeVars, passVars, outerVars>>

-----------------------------------------------------------------------------
\* The refusals' own transactions (_audit_only, _stop, _structural, _overloaded).

\* The channel row is written under the lease and the pass goes on at `label`.
RecordRefusal(i, label, row, next) ==
    /\ pc[i] = label
    /\ Holds(i)
    /\ chan' = row
    /\ UNCHANGED <<gatewayVars, lease, recordVars, dispatched, lifeVars, outerVars>>
    /\ IF next = "idle" THEN EndPass(i, "idle") ELSE Goto(i, next) /\ UNCHANGED passVars

RecordExpired(i) == RecordRefusal(i, "expired", Expire(chan, upto[i], fence[i]), "idle")

StopChannel(i) == RecordRefusal(i, "stopping", Stop(chan, rev[i], fence[i]), "idle")

\* The refusals in a row of the octets a process holds, this one included (a failing commit of
\* the stop lets the count pass RetryMax: counts beyond it are one).
Refusals(i) ==
    LET seen == IF chan.retryBatch = <<from[i], upto[i]>> THEN chan.retryCount ELSE 0
    IN  IF seen < RetryMax THEN seen + 1 ELSE RetryMax

\* RetryMax of them stop the channel.
RecordGarbled(i) ==
    RecordRefusal(i, "garbled", CountRetry(chan, <<from[i], upto[i]>>, Refusals(i), fence[i]),
                  IF Refusals(i) >= RetryMax THEN "stopping" ELSE "idle")

RecordCap(i) ==
    IF Overloads("CAPACITY_IDENTITIES")
      THEN RecordRefusal(i, "capped", Overload(chan, "CAPACITY_IDENTITIES", fence[i]), "idle")
      ELSE /\ pc[i] = "capped"
           /\ EndPass(i, "idle")
           /\ UNCHANGED <<gatewayVars, storeVars, lifeVars, outerVars>>

\* A batch was consumed under the identity cap: the cap no longer holds the channel.
ClearCap(i) == RecordRefusal(i, "consumed", Settle(chan, fence[i]), "committed")

-----------------------------------------------------------------------------
\* The acknowledgement, and the record of it.

\* Mutant: the batch is acknowledged as soon as it is here.
MutantAckAnswered(i) ==
    /\ pc[i] \in {"got", "committed"}
    /\ Acknowledge(upto[i])
    /\ IF pc[i] = "got" THEN UNCHANGED pc ELSE Goto(i, "acked")
    /\ UNCHANGED <<storeVars, lifeVars, passVars, outerVars>>

\* The gateway applies the acknowledgement and the bridge hears of it.
AckAnswered(i) ==
    /\ pc[i] = "committed"
    /\ Acknowledge(upto[i])
    /\ Goto(i, "acked")
    /\ UNCHANGED <<storeVars, lifeVars, passVars, outerVars>>

\* The call leaves and its answer never arrives; the gateway may apply it now, later or never.
AckUnanswered(i) ==
    /\ pc[i] = "committed" /\ "ack" \in Faults
    /\ ackCalls' = ackCalls \cup {upto[i]}
    /\ Goto(i, "house")
    /\ UNCHANGED <<gatewayVars, storeVars, lifeVars, passVars, revision, taken>>

\* The gateway refuses it (CURSOR_FUTURE, or it is unavailable).
AckRefused(i) ==
    /\ pc[i] = "committed"
    /\ ~AckAccepted(upto[i]) \/ "unavailable" \in Faults
    /\ Goto(i, "house")
    /\ UNCHANGED <<gatewayVars, storeVars, lifeVars, passVars, outerVars>>

AckArrives ==
    /\ \E position \in ackCalls :
          /\ Acknowledge(position)
          /\ ackCalls' = ackCalls \ {position}
    /\ UNCHANGED <<storeVars, processVars, revision, taken>>

RecordAck(i) == RecordRefusal(i, "acked", RecordAcked(chan, upto[i], fence[i]), "house")

-----------------------------------------------------------------------------
\* Housekeeping: freshness in a transaction, then the dispatch of the outbox to the sink.

\* Mutant: only the events of this pass are dispatched.
MutantPending(i) == (outbox \ dispatched) \cap Batch(i)

\* SQL_OUTBOX_PENDING
Pending(i) == outbox \ dispatched

Housekeep(i) ==
    /\ pc[i] = "house"
    /\ Holds(i)
    /\ todo' = [todo EXCEPT ![i] = Pending(i)]
    /\ Goto(i, "dispatch")
    /\ UNCHANGED <<gatewayVars, storeVars, lifeVars, from, upto, event, outerVars>>

\* Mutant: the sink's failure is swallowed and the event marked.
MutantSinkTakes(e) == UNCHANGED taken

SinkTakes(e) == taken' = taken \cup {e}

\* The sink takes an event, once or again.
Deliver(i) ==
    /\ pc[i] = "dispatch"
    /\ \E e \in todo[i] :
          /\ SinkTakes(e)
          /\ event' = [event EXCEPT ![i] = e]
          /\ todo' = [todo EXCEPT ![i] = @ \ {e}]
    /\ Goto(i, "mark")
    /\ UNCHANGED <<gatewayVars, storeVars, lifeVars, from, upto, revision, ackCalls>>

\* Nothing is left to deliver, or the sink does not take the head: the rest stays queued.
EndDispatch(i) ==
    /\ pc[i] = "dispatch"
    /\ todo[i] = {} \/ "sink" \in Faults
    /\ EndPass(i, "idle")
    /\ UNCHANGED <<gatewayVars, storeVars, lifeVars, outerVars>>

Mark(i) ==
    /\ pc[i] = "mark"
    /\ Holds(i)
    /\ dispatched' = dispatched \cup {event[i]}
    /\ event' = [event EXCEPT ![i] = 0]
    /\ Goto(i, "dispatch")
    /\ UNCHANGED <<gatewayVars, lease, chan, recordVars, lifeVars, from, upto, todo, outerVars>>

-----------------------------------------------------------------------------
\* A fenced transaction that does not happen.

\* The process is about to run a fenced transaction.
AtTransaction(i) ==
    \/ pc[i] = "starting" /\ NewRevision(i)
    \/ pc[i] = "renewed" /\ ~HeldForOperator /\ QueueFull /\ Overloads("CAPACITY_REPORTS")
    \/ pc[i] = "renewed" /\ ~HeldForOperator /\ ~QueueFull /\ Clears
    \/ pc[i] = "capped" /\ Overloads("CAPACITY_IDENTITIES")
    \/ pc[i] \in {"got", "garbled", "expired", "stopping", "consumed", "acked", "house", "mark"}

\* LeaseLost: the pass ends BLOCKED, except that a dispatch just stops and a start fails.
LoseLease(i) ==
    /\ AtTransaction(i) /\ ~Holds(i)
    /\ CASE pc[i] = "starting" -> Forget(i)
         [] pc[i] = "mark"     -> EndPass(i, "idle") /\ UNCHANGED lifeVars
         [] OTHER              -> EndPass(i, "blocked") /\ UNCHANGED lifeVars
    /\ UNCHANGED <<gatewayVars, storeVars, outerVars>>

\* The durable commit fails: rolled back, and the pass (or the start) ends.
CommitFails(i) ==
    /\ AtTransaction(i) /\ Holds(i) /\ "commit" \in Faults
    /\ pc[i] = "starting" => Spare
    /\ IF pc[i] = "starting" THEN Forget(i) ELSE EndPass(i, "idle") /\ UNCHANGED lifeVars
    /\ UNCHANGED <<gatewayVars, storeVars, outerVars>>

\* The holder's time is over before it renews.
LeaseExpires ==
    /\ ~lease.expired
    /\ Spare
    /\ lease' = [lease EXCEPT !.expired = TRUE]
    /\ UNCHANGED <<gatewayVars, chan, recordVars, dispatched, processVars, outerVars>>

-----------------------------------------------------------------------------
\* The operator's records: a command opens the store, takes the lease, writes one transaction
\* and gives the lease up.
OperatorFence == lease.fence + 1

OperatorRecord(row) ==
    /\ lease.expired /\ OperatorFence < MaxFence
    /\ lease' = [holder |-> Operator, fence |-> OperatorFence, expired |-> TRUE]
    /\ chan' = row
    /\ UNCHANGED <<gatewayVars, recordVars, dispatched, processVars, outerVars>>

RecoverRecord ==
    /\ chan.state = "INCOMPLETE" \/ chan.degraded
    /\ OperatorRecord(Recover(chan, OperatorFence))

ResyncRecord ==
    /\ chan.state = "RESYNC_REQUIRED" /\ chan.reason = "CURSOR_EXPIRED"
    /\ OperatorRecord(Resync(chan, OperatorFence))

ResyncIdentities ==
    /\ chan.state = "RESYNC_REQUIRED" /\ chan.reason = "RESET_SCOPE"
    /\ OperatorRecord(Settle(chan, OperatorFence))

\* A new configuration revision is deployed; a process reads it when it starts.
Reconfigure ==
    /\ revision + 1 \in Revisions
    /\ revision' = revision + 1
    /\ UNCHANGED <<gatewayVars, storeVars, processVars, ackCalls, taken>>

-----------------------------------------------------------------------------
\* What one process does on its own, up to the end of its pass.
Pass(i) ==
    \/ Renew(i) \/ SkipFetch(i) \/ Ask(i)
    \/ FetchBatch(i) \/ FetchExpired(i) \/ FetchUnanswered(i) \/ FetchRefused(i)
    \/ Process(i) \/ ProcessStops(i) \/ ProcessCapped(i)
    \/ RecordExpired(i) \/ StopChannel(i) \/ RecordGarbled(i) \/ RecordCap(i) \/ ClearCap(i)
    \/ AckAnswered(i) \/ AckUnanswered(i) \/ AckRefused(i) \/ RecordAck(i)
    \/ Housekeep(i) \/ Deliver(i) \/ EndDispatch(i) \/ Mark(i)
    \/ LoseLease(i) \/ CommitFails(i)

Life(i) == StartAcquire(i) \/ StartBlocked(i) \/ StartFinish(i) \/ Close(i) \/ Crash(i)

Gateway ==
    /\ \/ \E id \in Ids, kind \in Kinds : Publish(id, kind)
       \/ NewSession \/ SkipSequence \/ Age
    /\ UNCHANGED <<storeVars, processVars, outerVars>>

Operations == RecoverRecord \/ ResyncRecord \/ ResyncIdentities \/ Reconfigure

Next ==
    \/ \E i \in Instances : Pass(i) \/ Life(i)
    \/ Gateway \/ AckArrives \/ LeaseExpires \/ Operations

Spec == Init /\ [][Next]_vars

\* The last holder of the lease no longer runs.
Abandoned == lease.holder \in Instances => pc[lease.holder] \in {"down", "blocked"}

\* What the liveness properties assume.  A running process goes on with its pass; one that
\* ended BLOCKED exits, and it is started again (docs/operations.md: "a restart takes the lease
\* again"); the time of an abandoned lease runs out; the calls that can fail succeed if they are
\* tried often enough.  Nothing is assumed of the operator, of a crash or of the traffic.
Fairness ==
    /\ WF_vars(LeaseExpires /\ Abandoned)
    /\ \A i \in Instances :
          /\ WF_vars(Pass(i))
          /\ WF_vars(Close(i) /\ pc[i] = "blocked")
          /\ WF_vars(StartAcquire(i)) /\ WF_vars(StartFinish(i))
          /\ "unavailable" \in Faults => SF_vars(FetchBatch(i) \/ FetchExpired(i))
          /\ {"unavailable", "ack"} \cap Faults # {} => SF_vars(AckAnswered(i))
          /\ "sink" \in Faults => SF_vars(Deliver(i))

FairSpec == Spec /\ Fairness

-----------------------------------------------------------------------------
\* What the bridge promises of a record.

\* A record has its durable disposition: the ingest row of its id, or a quarantine row.
Settled(p) == p \in clashes \/ ingest[log[p].id] = p

SettledOrLost(n) == \A p \in 1 .. n : Settled(p) \/ p \in lost

\* The gateway forgets a record without a loss row only when the bridge has its disposition on
\* disk: the acknowledgement follows the commit, whatever crashes, takeovers, late and repeated
\* calls come between them (run_once, provider.ack and _retain).
NothingForgotten == SettledOrLost(floor)

\* No cursor of the bridge, on disk or in a process's memory, is ahead of an unrecorded record
\* (process and SQL_CHANNEL_CURSOR, start's refetch, resync).
CursorsBehindRecords ==
    /\ SettledOrLost(chan.cursor) /\ SettledOrLost(chan.acked)
    /\ \A i \in Instances : SettledOrLost(refetch[i])

\* A gap nothing erases (bridge.py): a channel is NORMAL only with no gap on record, and
\* INCOMPLETE only with one, through caps, stops, resets, takeovers and operator records.
GapOnRecord ==
    /\ chan.state = "NORMAL" => ~chan.incomplete
    /\ chan.state = "INCOMPLETE" => chan.incomplete

\* Each record is counted and published once, however often it is delivered (the ingest row is
\* the deduplication; R01).
CountedOnce ==
    accepted = Cardinality({p \in 1 .. Len(log) : /\ ingest[log[p].id] = p
                                                  /\ log[p].kind # "refused"})

\* An event is marked dispatched only after the sink took it, and the sink holds only what a
\* committed batch put in the outbox: a failed, repeated or overtaken dispatch loses none.
MarkedIsTaken == dispatched \subseteq taken /\ taken \subseteq outbox

\* The fence of the channel row never goes back: a process that lost the lease writes nothing
\* (Lease.check inside every transaction).
FenceAdvances == [][chan'.fence >= chan.fence]_vars

\* A stopped channel stays stopped until a process starts under another revision, and one that
\* awaits resynchronisation waits for the operator's record, which after a 410 puts the loss on
\* record: neither a cap, a batch, `recover` nor an overtaken process releases it (run_once,
\* start, SQL_CHANNEL_RECOVER; docs/operations.md).
HeldUntilReleased ==
    [][ /\ chan.state = "STOPPED" /\ chan'.state # "STOPPED"
              => \E i \in Instances : /\ pc[i] = "starting" /\ lease.holder = i
                                      /\ chan.stoppedRevision # rev[i]
        /\ chan.state = "RESYNC_REQUIRED" /\ chan'.state # "RESYNC_REQUIRED"
              => /\ lease'.holder = Operator
                 /\ chan.reason = "CURSOR_EXPIRED" => chan'.incomplete ]_vars

\* A committed batch steps over a record that retention dropped before the bridge had it.
StepsOver(p, q) ==
    /\ chan.committedAny
    /\ chan.cursor < p /\ p < q /\ q <= chan'.cursor
    /\ ~Settled(p)' /\ Settled(q)'

\* The gateway's losses are never silent: a commit that steps over one puts a gap on record in
\* the same transaction (a 410 leads to `resync`; what it cannot see, _contiguity does).
LossIsOnRecord ==
    [][ (\E p, q \in Positions : StepsOver(p, q)) => chan'.incomplete ]_vars

\* The same for a loss in the middle of a delivery session.
LossInSessionIsOnRecord ==
    [][ (\E p, q \in Positions : StepsOver(p, q) /\ log[p].session = log[q].session)
            => chan'.incomplete ]_vars

\* Every published record ends with a disposition or on the gateway's loss table, unless the
\* channel is left to an operator for ever: faults, caps, restarts and takeovers delay the loop
\* and never wedge it (run, the backoff, the report cap that the outbox's dispatch clears).
RecordsSettle ==
    \/ \A p \in Positions :
          (p <= Len(log)) ~> (p <= Len(log) /\ (Settled(p) \/ p \in lost))
    \/ []<>HeldForOperator

\* Every event of the outbox is taken by the sink and marked, also while the channel is held
\* (_housekeeping runs in the passes that fetch nothing too; docs: "the event stays queued,
\* never lost").
EventsDispatched == \A p \in Positions : (p \in outbox) ~> (p \in dispatched)

\* The gateway comes to release every committed record: an acknowledgement refused or unanswered
\* is repeated by a later pass (the comment in _run_once).
CommitsReleased ==
    \/ \A p \in Positions : (p <= Len(log) /\ Settled(p)) ~> (p <= floor)
    \/ []<>HeldForOperator

\* The whole implements the abstract transfer of records (RecordTransfer): each step of any
\* process, the gateway, the operator or the sink is a step of it or leaves it alone.
Transfer == INSTANCE RecordTransfer WITH
    published  <- Len(log),
    released   <- floor,
    settled    <- {p \in 1 .. Len(log) : Settled(p)},
    queued     <- outbox,
    crossedOff <- dispatched

TransferSpec == Transfer!Spec

=============================================================================
