----------------------------- MODULE SourceIdentity -----------------------------
(***************************************************************************)
(* The source identities of the Link 16 bridge (identity.py), their history *)
(* and current state (state.py), the notices that close and relate them     *)
(* (lifecycle.py) and the operator's decisions about them (bridge.py).      *)
(*                                                                         *)
(* The identities of the model are the incarnations of one track number of *)
(* one scope: no rule reads another number's, and the cap counts them all. *)
(* Each action is one record or one operator's command, in the transaction *)
(* it runs in; the records of a batch follow each other as they do here.   *)
(* Effective times are numbers and arrive in any order; received order is  *)
(* the number of the record.  A redelivered record is answered DUPLICATE   *)
(* before it gets here (BridgeIngest), and the quarantine is below its cap. *)
(***************************************************************************)
EXTENDS Integers, Sequences, FiniteSets

CONSTANTS Incarnations,   \* incarnation numbers of the track number
          Times,          \* effective times of reports and notices
          States,         \* what a report says, its delivery and provenance left out
          MaxIdentities,  \* limits.max_identities
          MaxRecords,     \* bound: records received
          MaxEpoch        \* bound: delivery epochs

ASSUME IdentityAssumption ==
    /\ Incarnations \subseteq Nat \ {0} /\ Times \subseteq Nat \ {0}
    /\ MaxIdentities \in Nat \ {0} /\ MaxRecords \in Nat /\ MaxEpoch \in Nat \ {0}

VARIABLES
    identity,     \* identity rows, by incarnation
    current,      \* current rows, by incarnation
    history,      \* observation rows
    quarantine,   \* the REUSE_AMBIGUOUS rows of the quarantine, in the order of their ids
    epoch,        \* the channel's delivery epoch
    resync,       \* a RESET_SCOPE awaits the operator's decision
    records       \* records received so far

vars == <<identity, current, history, quarantine, epoch, resync, records>>

Null == 0

Least(S)    == CHOOSE x \in S : \A y \in S : x <= y
Greatest(S) == CHOOSE x \in S : \A y \in S : y <= x

Unknown == [status |-> "none", epoch |-> 0, first |-> Null, tombstone |-> Null,
            continued |-> FALSE, scope |-> Null]

NoState == [at |-> Null, state |-> "none", contribution |-> "none"]

Flags == {"none", "LATE", "REFRESH", "CONFLICT"}

Reports == [record: 1 .. MaxRecords, inc: Incarnations, at: Times, state: States]

Observations == [report: Reports, flag: Flags]

Resolutions == {"pending", "SUPERSEDED", "REJECTED", "CONTINUED"}

TypeOK ==
    /\ identity \in [Incarnations ->
          [status: {"none", "LIVE", "TOMBSTONED", "RESET"}, epoch: 0 .. MaxEpoch,
           first: Times \cup {Null}, tombstone: Times \cup {Null},
           continued: BOOLEAN, scope: Incarnations \cup {Null}]]
    /\ current \in [Incarnations ->
          [at: Times \cup {Null}, state: States \cup {"none"},
           contribution: {"none", "ACTIVE", "CLOSED"}]]
    /\ history \subseteq Observations
    /\ quarantine \in Seq([report: Reports, resolution: Resolutions])
    /\ epoch \in 1 .. MaxEpoch
    /\ resync \in BOOLEAN
    /\ records \in 0 .. MaxRecords

Init ==
    /\ identity = [k \in Incarnations |-> Unknown]
    /\ current = [k \in Incarnations |-> NoState]
    /\ history = {} /\ quarantine = <<>>
    /\ epoch = 1 /\ resync = FALSE /\ records = 0

-----------------------------------------------------------------------------
\* identity.resolve

Known == {k \in Incarnations : identity[k].status # "none"}
Live  == {k \in Incarnations : identity[k].status = "LIVE"}
Full  == Cardinality(Live) >= MaxIdentities

\* Rule (b): an incarnation above the floor is known and began before this report.
NewerIncarnationFirst(floor, at) ==
    \E k \in Known : k > floor /\ identity[k].first # Null /\ at > identity[k].first

\* Mutant: a recorded continue exempts the tuple from rule (b) for good.
MutantFloor(k) == IF identity[k].continued THEN Greatest(Incarnations) ELSE k

\* A recorded continue exempts the tuple only against the incarnations known then.
Floor(k) == IF identity[k].continued /\ identity[k].scope > k THEN identity[k].scope ELSE k

Ambiguous(k, at) ==
    CASE identity[k].status = "none"       -> NewerIncarnationFirst(k, at)
      [] identity[k].status = "LIVE"       -> NewerIncarnationFirst(Floor(k), at)
      [] identity[k].status = "TOMBSTONED" -> at > identity[k].tombstone
      [] identity[k].status = "RESET"      -> TRUE

\* Mutant: a new identity belongs to the epoch to come.
MutantAdmitted(at) == [Unknown EXCEPT !.status = "LIVE", !.epoch = epoch + 1, !.first = at]

Admitted(at) == [Unknown EXCEPT !.status = "LIVE", !.epoch = epoch, !.first = at]

IsPending(row) == row.resolution = "pending"

\* The pending rows of some incarnations get a resolution.
Resolve(rows, incs, resolution) ==
    [n \in 1 .. Len(rows) |->
       IF IsPending(rows[n]) /\ rows[n].report.inc \in incs
         THEN [rows[n] EXCEPT !.resolution = resolution]
         ELSE rows[n]]

-----------------------------------------------------------------------------
\* state.apply

\* Mutant: late history of a closed tuple is an observation like any other.
MutantFlagOf(row, report, late) ==
    CASE row.at = Null \/ report.at > row.at                  -> "none"
      [] report.at < row.at                                   -> "LATE"
      [] report.at = row.at /\ report.state = row.state       -> "REFRESH"
      [] report.at = row.at /\ report.state # row.state       -> "CONFLICT"

\* What a report is beside the current state of its identity.
FlagOf(row, report, late) ==
    CASE late                                                 -> "LATE"
      [] ~late /\ (row.at = Null \/ report.at > row.at)       -> "none"
      [] ~late /\ row.at # Null /\ report.at < row.at         -> "LATE"
      [] ~late /\ report.at = row.at /\ report.state = row.state -> "REFRESH"
      [] ~late /\ report.at = row.at /\ report.state # row.state -> "CONFLICT"

\* Mutant: a conflicting report of the same time replaces the state.
MutantStateAfter(row, report, late) ==
    IF FlagOf(row, report, late) \in {"none", "CONFLICT"}
      THEN [at |-> report.at, state |-> report.state, contribution |-> "ACTIVE"]
      ELSE row

\* Only a strictly newer report moves the current state.
StateAfter(row, report, late) ==
    IF FlagOf(row, report, late) = "none"
      THEN [at |-> report.at, state |-> report.state, contribution |-> "ACTIVE"]
      ELSE row

Observed(row, report, late) == [report |-> report, flag |-> FlagOf(row, report, late)]

-----------------------------------------------------------------------------
\* Ingestor.accept: a translated report.

Received(k, at, state) == [record |-> records + 1, inc |-> k, at |-> at, state |-> state]

Receive == records < MaxRecords /\ records' = records + 1

\* The report belongs to a known identity, or to a new one below the cap; a new incarnation
\* closes what the lower ones have in quarantine.
Accept(k, at, state) ==
    /\ Receive
    /\ ~Ambiguous(k, at)
    /\ LET late == identity[k].status = "TOMBSTONED"
       IN  /\ current' = [current EXCEPT ![k] = StateAfter(@, Received(k, at, state), late)]
           /\ history' = history \cup {Observed(current[k], Received(k, at, state), late)}
    /\ \/ k \in Known /\ UNCHANGED <<identity, quarantine>>
       \/ /\ k \notin Known /\ ~Full
          /\ identity' = [identity EXCEPT ![k] = Admitted(at)]
          /\ quarantine' = Resolve(quarantine, {j \in Known : j < k}, "SUPERSEDED")
    /\ UNCHANGED <<epoch, resync>>

\* REUSE_AMBIGUOUS
Quarantine(k, at, state) ==
    /\ Receive
    /\ Ambiguous(k, at)
    /\ quarantine' = Append(quarantine, [report |-> Received(k, at, state),
                                         resolution |-> "pending"])
    /\ UNCHANGED <<identity, current, history, epoch, resync>>

-----------------------------------------------------------------------------
\* lifecycle.apply: notices.

\* DROP_SOURCE, unless it is older than the current state (quarantined, nothing else changes).
Drop(k, at) ==
    /\ Receive
    /\ at >= current[k].at
    /\ identity' = [identity EXCEPT ![k] =
          IF k \in Known THEN [@ EXCEPT !.status = "TOMBSTONED", !.tombstone = at]
                         ELSE [Unknown EXCEPT !.status = "TOMBSTONED", !.epoch = epoch,
                                              !.tombstone = at]]
    /\ current' = [current EXCEPT ![k].contribution = IF @ = "ACTIVE" THEN "CLOSED" ELSE @]
    /\ UNCHANGED <<history, quarantine, epoch, resync>>

Contradiction(k, at) ==
    /\ Receive
    /\ k \in Known /\ at < current[k].at
    /\ UNCHANGED <<identity, current, history, quarantine, epoch, resync>>

\* REKEY: an unknown new tuple becomes live, within the cap; the old one need not be known.
Rekey(old, new, at) ==
    /\ Receive
    /\ old # new
    /\ \/ new \in Known /\ UNCHANGED identity
       \/ /\ new \notin Known /\ ~Full
          /\ identity' = [identity EXCEPT ![new] = Admitted(at)]
    /\ UNCHANGED <<current, history, quarantine, epoch, resync>>

\* RESET_SCOPE: the delivery epoch closes; records of the same batch may still follow.
ResetScope ==
    /\ Receive
    /\ epoch < MaxEpoch
    /\ epoch' = epoch + 1
    /\ resync' = TRUE
    /\ UNCHANGED <<identity, current, history, quarantine>>

-----------------------------------------------------------------------------
\* The operator's commands.

\* resync-identities --decision keep
Keep ==
    /\ resync
    /\ identity' = [k \in Incarnations |->
                      IF k \in Known /\ identity[k].epoch < epoch
                        THEN [identity[k] EXCEPT !.epoch = epoch] ELSE identity[k]]
    /\ resync' = FALSE
    /\ UNCHANGED <<current, history, quarantine, epoch, records>>

\* Mutant: only the tuples that have a current state.
MutantOfClosedEpoch(k) ==
    k \in Live /\ identity[k].epoch < epoch /\ current[k].contribution # "none"

\* SQL_IDENTITY_EPOCH_RESET
OfClosedEpoch(k) == k \in Live /\ identity[k].epoch < epoch

\* resync-identities --decision advance
Advance ==
    /\ resync
    /\ identity' = [k \in Incarnations |->
                      IF OfClosedEpoch(k) THEN [identity[k] EXCEPT !.status = "RESET"]
                                          ELSE identity[k]]
    /\ resync' = FALSE
    /\ UNCHANGED <<current, history, quarantine, epoch, records>>

PendingOf(k) == {n \in 1 .. Len(quarantine) :
                   IsPending(quarantine[n]) /\ quarantine[n].report.inc = k}

\* Released reports are accepted in the order of the quarantine: the current state after the
\* first n rows of it.
StateReleased(k, released) ==
    LET state[n \in 0 .. Len(quarantine)] ==
          IF n = 0 THEN current[k]
          ELSE IF n \in released THEN StateAfter(state[n - 1], quarantine[n].report, FALSE)
          ELSE state[n - 1]
    IN  state

\* Mutant: the released rows stay pending.
MutantReleasedRows(released) == quarantine

ReleasedRows(released) ==
    [n \in 1 .. Len(quarantine) |->
       IF n \in released THEN [quarantine[n] EXCEPT !.resolution = "CONTINUED"]
                         ELSE quarantine[n]]

\* resolve-reuse --decision continue: the tuple is live (admitted, if rule (b) never let it in), the
\* decision holds against the incarnations known now, and the reports that still translate
\* are accepted.
Continue(k) ==
    /\ PendingOf(k) # {}
    /\ k \in Known \/ ~Full
    /\ identity' = [identity EXCEPT ![k] =
          [(IF k \in Known THEN @
                           ELSE Admitted(Least({quarantine[n].report.at : n \in PendingOf(k)})))
           EXCEPT !.status = "LIVE", !.continued = TRUE, !.scope = Greatest(Known \cup {k})]]
    /\ \E released \in SUBSET PendingOf(k) :
          LET state == StateReleased(k, released)
          IN  /\ current' = [current EXCEPT ![k] = state[Len(quarantine)]]
              /\ history' = history \cup
                    {Observed(state[n - 1], quarantine[n].report, FALSE) : n \in released}
              /\ quarantine' = ReleasedRows(released)
    /\ UNCHANGED <<epoch, resync, records>>

\* resolve-reuse --decision reject
Reject(k) ==
    /\ PendingOf(k) # {}
    /\ quarantine' = Resolve(quarantine, {k}, "REJECTED")
    /\ UNCHANGED <<identity, current, history, epoch, resync, records>>

-----------------------------------------------------------------------------
Record ==
    \/ \E k \in Incarnations, at \in Times :
          \/ \E state \in States : Accept(k, at, state) \/ Quarantine(k, at, state)
          \/ Drop(k, at) \/ Contradiction(k, at)
          \/ \E old \in Incarnations : Rekey(old, k, at)
    \/ ResetScope

Command == Keep \/ Advance \/ \E k \in Incarnations : Continue(k) \/ Reject(k)

Next == Record \/ Command

Spec == Init /\ [][Next]_vars

-----------------------------------------------------------------------------
\* A dropped source has no open contribution: reports that come late, equal or out of order, a
\* rekey, a second drop or a reset do not open it again (_drop, state.apply with force_late).
TombstoneClosed ==
    \A k \in Incarnations : identity[k].status = "TOMBSTONED" => current[k].contribution # "ACTIVE"

\* The current state of an identity never goes back in time, and of the reports of one time the
\* first stays: whatever the order of arrival, of drops, and of what an operator releases at
\* once (state.apply, resolve_reuse).
CurrentNeverBack ==
    [][\A k \in Incarnations :
          /\ current'[k].at >= current[k].at
          /\ current'[k].at = current[k].at => current'[k].state = current[k].state]_vars

\* Reports that waited in quarantine: they tell of their incarnation when an operator lets them,
\* which may begin, or be known, only after they came.
Waited == {quarantine[n].report : n \in 1 .. Len(quarantine)}

\* Once a higher incarnation began, a lower one has no report in the history that is later than
\* that beginning and arrived after it, unless it is late history, the higher one's report had waited
\* in quarantine, or an operator continued the lower one in the knowledge of the higher (rule (b),
\* reuse_scope).
OlderIncarnationEnds ==
    \A o, p \in history :
       LET k == o.report.inc
           j == p.report.inc
       IN  /\ k < j /\ p.report.record < o.report.record /\ p.report \notin Waited
           /\ o.flag # "LATE"
           /\ identity[j].first # Null /\ o.report.at > identity[j].first
           => identity[k].continued /\ identity[k].scope >= j

\* Once the operator has decided about a reset, the only live identities of an older epoch are
\* those an operator continued (rule (c), SQL_IDENTITY_EPOCH_RESET, SQL_IDENTITY_EPOCH_KEEP).
EpochClosed ==
    ~resync => \A k \in Live : identity[k].epoch < epoch => identity[k].continued

\* Each report enters the history at most once, and is not in quarantine when it is there,
\* however often an operator decides and higher incarnations appear (resolve_reuse).
AcceptedOnce ==
    /\ \A o, p \in history : o.report.record = p.report.record => o = p
    /\ \A n \in 1 .. Len(quarantine) :
          (\E o \in history : o.report = quarantine[n].report)
             <=> quarantine[n].resolution = "CONTINUED"

=============================================================================
