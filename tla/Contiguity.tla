------------------------------- MODULE Contiguity -------------------------------
(***************************************************************************)
(* The sequence check of the bridge's ingest (_contiguity): the records of  *)
(* a session carry consecutive numbers from 0, a number left out is a gap   *)
(* that goes on record, and a record whose body is not sound JSON has no    *)
(* number to read.                                                          *)
(*                                                                         *)
(* The gateway's log holds what was published; a number may be skipped and  *)
(* a new session begin.  The bridge commits a batch of records that follow  *)
(* its cursor; until the batch is acknowledged a restart fetches it again,  *)
(* and the check runs again over every record of it before deduplication    *)
(* judges it.                                                               *)
(***************************************************************************)
EXTENDS Integers, Sequences

CONSTANTS Faults,       \* of "skip", "unsound", "inject", "restart"
          MaxRecords,   \* bound: records published
          MaxSessions,  \* bound: sessions of the gateway
          MaxSkips      \* bound: numbers skipped

ASSUME ContiguityAssumption ==
    /\ Faults \subseteq {"skip", "unsound", "inject", "restart"}
    /\ MaxRecords \in Nat /\ MaxSessions \in Nat \ {0} /\ MaxSkips \in Nat

VARIABLES
    log,        \* the gateway's records: session, number, and whether the body is sound
    session,    \* its session
    next,       \* the number of its next record
    cursor,     \* position of the last committed record
    acked,      \* position up to which the gateway has released the log
    after,      \* position after which the bridge fetches
    last,       \* session_seq: the last number of each session, Unseen without a row
    gap,        \* a STREAM_GAP is on record
    recounted   \* history: an unsound body was judged a second time

vars == <<log, session, next, cursor, acked, after, last, gap, recounted>>

Sessions == 1 .. MaxSessions
Numbers  == 0 .. MaxRecords + MaxSkips
Unseen   == -1

TypeOK ==
    /\ log \in Seq([session: Sessions, number: Numbers \cup {Unseen}, sound: BOOLEAN])
    /\ session \in Sessions /\ next \in Numbers
    /\ cursor \in 0 .. Len(log) /\ acked \in 0 .. cursor /\ after \in acked .. cursor
    /\ last \in [Sessions -> Nat \cup {Unseen}]
    /\ gap \in BOOLEAN /\ recounted \in BOOLEAN

Init ==
    /\ log = <<>> /\ session = 1 /\ next = 0
    /\ cursor = 0 /\ acked = 0 /\ after = 0
    /\ last = [s \in Sessions |-> Unseen] /\ gap = FALSE /\ recounted = FALSE

-----------------------------------------------------------------------------
\* The gateway.

\* A body that is not sound JSON holds a number all the same.
Publish(sound) ==
    /\ Len(log) < MaxRecords
    /\ sound \/ "unsound" \in Faults
    /\ log' = Append(log, [session |-> session, number |-> next, sound |-> sound])
    /\ next' = next + 1
    /\ UNCHANGED <<session, cursor, acked, after, last, gap, recounted>>

\* The synthetic gateway's malformed body holds none.
Inject ==
    /\ "inject" \in Faults
    /\ Len(log) < MaxRecords
    /\ log' = Append(log, [session |-> session, number |-> Unseen, sound |-> FALSE])
    /\ UNCHANGED <<session, next, cursor, acked, after, last, gap, recounted>>

\* A delivery discontinuity: the next number is never published.
SkipSequence ==
    /\ "skip" \in Faults
    /\ next < Len(log) + MaxSkips
    /\ next' = next + 1
    /\ UNCHANGED <<log, session, cursor, acked, after, last, gap, recounted>>

NewSession ==
    /\ session < MaxSessions
    /\ session' = session + 1
    /\ next' = 0
    /\ UNCHANGED <<log, cursor, acked, after, last, gap, recounted>>

-----------------------------------------------------------------------------
\* The bridge.

\* No batch was ever committed and no session was ever seen.
FirstEver(seen) == cursor = 0 /\ \A s \in Sessions : seen[s] = Unseen

\* Mutant: a session may begin with any number.
MutantIsGap(seen, record) ==
    record.sound /\ seen[record.session] # Unseen /\ record.number > seen[record.session] + 1

\* Mutant: any number but the next one is a gap, a redelivered one too.
MutantOutOfStep(seen, record) ==
    record.sound /\ record.number # seen[record.session] + 1

\* The record's number is beyond the next one of its session.
IsGap(seen, record) ==
    /\ record.sound
    /\ IF seen[record.session] = Unseen
         THEN record.number # 0 /\ ~FirstEver(seen)
         ELSE record.number > seen[record.session] + 1

Highest(a, b) == IF a < b THEN b ELSE a

\* An unsound body is taken for the next of a session that was seen.
SeenAfter(seen, record) ==
    [seen EXCEPT ![record.session] =
        IF record.sound   THEN Highest(@, record.number)
        ELSE IF @ # Unseen THEN @ + 1
        ELSE @]

\* A batch of one session is fetched and committed.
Commit ==
    /\ \E upto \in after + 1 .. Len(log) :
          LET batch    == SubSeq(log, after + 1, upto)
              seen[n \in 0 .. Len(batch)] ==
                 IF n = 0 THEN last ELSE SeenAfter(seen[n - 1], batch[n])
          IN  /\ \A n \in 1 .. Len(batch) : batch[n].session = batch[1].session
              /\ last' = seen[Len(batch)]
              /\ gap' = (gap \/ \E n \in 1 .. Len(batch) : IsGap(seen[n - 1], batch[n]))
              /\ recounted' = (recounted \/ \E n \in after + 1 .. Highest(after, cursor) : n <= upto /\ ~log[n].sound)
              /\ cursor' = Highest(cursor, upto)
              /\ after' = upto
    /\ UNCHANGED <<log, session, next, acked>>

Acknowledge ==
    /\ after = cursor
    /\ acked' = cursor
    /\ UNCHANGED <<log, session, next, cursor, after, last, gap, recounted>>

\* With a commit not acknowledged, a restart fetches after what is.  Bound: until an unsound body
\* was judged a second time, which raises the last number of its session without end.
Restart ==
    /\ "restart" \in Faults /\ ~recounted
    /\ after' = acked
    /\ UNCHANGED <<log, session, next, cursor, acked, last, gap, recounted>>

Next ==
    \/ Publish(TRUE) \/ Publish(FALSE) \/ Inject \/ SkipSequence \/ NewSession
    \/ Commit \/ Acknowledge \/ Restart

Spec == Init /\ [][Next]_vars

-----------------------------------------------------------------------------
Committed == {log[n] : n \in 1 .. cursor}

Published(s, number) == \E n \in 1 .. Len(log) : log[n].session = s /\ log[n].number = number

\* The channel's history begins with the first number the bridge could ever read: what came
\* before it was never the bridge's.
BeforeHistory(s, number) ==
    \A n \in 1 .. cursor :
       (log[n].sound /\ \A k \in 1 .. n - 1 : ~log[k].sound) =>
          log[n].session = s /\ number < log[n].number

Unnumbered == \E n \in 1 .. cursor : log[n].number = Unseen

\* A number that was skipped before a record the bridge could read is a gap on record, through
\* redeliveries, sessions, unsound bodies and batches of any size (_contiguity;
\* docs/operations.md, "a jump is a gap").  Two things hide one: a body without a number is taken
\* for the next, and an unsound body that is delivered again is counted again.
SkipIsOnRecord ==
    (/\ ~Unnumbered /\ ~recounted
     /\ \E record \in Committed, number \in Numbers :
           /\ record.sound /\ number < record.number
           /\ ~Published(record.session, number)
           /\ ~BeforeHistory(record.session, number)) => gap

\* A gap goes on record for a number that was skipped, and for nothing else, however often the
\* records come and whatever the malformed ones among them (_contiguity).  Only a session that
\* begins with unsound bodies that had numbers looks like one with a gap.
GapMeansSkip ==
    gap => \E record \in Committed, number \in Numbers :
              /\ record.sound /\ number < record.number
              /\ \/ ~Published(record.session, number)
                 \/ \A other \in Committed :
                       other.session = record.session /\ other.sound => other.number > number

=============================================================================
