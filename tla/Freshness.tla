-------------------------------- MODULE Freshness --------------------------------
(***************************************************************************)
(* The freshness of a source contribution (freshness.py): the status of the *)
(* current state of an identity by its age, and apart from it the status of *)
(* its motion, recomputed in the housekeeping of a pass, stored in the      *)
(* current row and published as an event whose key is the record and its    *)
(* statuses.  The outbox ignores an event whose key it holds.               *)
(*                                                                         *)
(* One identity: no status depends on another's.  A pass that fails to      *)
(* fetch (the gateway away), or whose batch is refused or held by the       *)
(* identity cap, ends before its housekeeping (bridge.py, _run_once):       *)
(* cutShort says that the passes do.                                        *)
(***************************************************************************)
EXTENDS Integers

CONSTANTS Thresholds,   \* thresholds a configuration may give the domain
          Skew,         \* SKEW_MS
          Times,        \* times of reports
          MaxNow,       \* bound: the clock
          MaxRecords    \* bound: reports

ASSUME FreshnessAssumption ==
    /\ Thresholds \subseteq Nat /\ Thresholds # {} /\ Skew \in Nat
    /\ Times \subseteq Nat /\ MaxNow \in Nat /\ MaxRecords \in Nat

VARIABLES
    now,          \* the clock
    threshold,    \* freshness_seconds
    row,          \* the identity's current row
    keys,         \* event keys of the outbox
    told,         \* the statuses of the last freshness event published
    cutShort,     \* passes end before their housekeeping
    relaxed       \* history: the threshold was raised since the report

vars == <<now, threshold, row, keys, told, cutShort, relaxed>>

None == "none"

Statuses == {"TIME_SKEW", "ACTIVE", "STALE", "EXPIRED"}

Unset == -1     \* NULL for a time

Keys == [record: 1 .. MaxRecords, main: Statuses, motion: Statuses \cup {None}]

NothingTold == [record |-> 0, main |-> None, motion |-> None]

TypeOK ==
    /\ now \in 0 .. MaxNow
    /\ threshold \in Thresholds
    /\ row \in [record: 0 .. MaxRecords, at: Times \cup {Unset}, pos: Times \cup {Unset},
                kin: Times \cup {Unset}, contribution: {None, "ACTIVE", "CLOSED"},
                main: Statuses \cup {None}, motion: Statuses \cup {None}]
    /\ keys \subseteq Keys
    /\ told \in Keys \cup {NothingTold}
    /\ cutShort \in BOOLEAN /\ relaxed \in BOOLEAN

Init ==
    /\ now = 0
    /\ threshold \in Thresholds
    /\ row = [record |-> 0, at |-> Unset, pos |-> Unset, kin |-> Unset, contribution |-> None,
              main |-> None, motion |-> None]
    /\ keys = {} /\ told = NothingTold /\ cutShort = FALSE /\ relaxed = FALSE

-----------------------------------------------------------------------------
\* Mutant: a time in the future is as old as it is far.
MutantAge(observed) == IF observed > now THEN observed - now ELSE now - observed

Age(observed) == now - observed

\* freshness.status
Status(observed) ==
    LET age == Age(observed)
    IN  CASE age < -Skew                                             -> "TIME_SKEW"
          [] age >= -Skew /\ age >= 4 * threshold                    -> "EXPIRED"
          [] age >= -Skew /\ age >= threshold /\ age < 4 * threshold -> "STALE"
          [] age >= -Skew /\ age < threshold                         -> "ACTIVE"

\* A positioned state is as old as its position.
MainStatus == Status(IF row.pos # Unset THEN row.pos ELSE row.at)

MotionStatus == IF row.kin = Unset THEN None ELSE Status(row.kin)

\* A strictly newer report becomes the current state, of no status yet (SQL_CURRENT_PUT); what
\* it observed is not later than its effective time.
Report(at, pos, kin) ==
    /\ row.record < MaxRecords
    /\ at > row.at /\ pos <= at /\ kin <= at
    /\ row' = [record |-> row.record + 1, at |-> at, pos |-> pos, kin |-> kin,
               contribution |-> "ACTIVE", main |-> None, motion |-> None]
    /\ relaxed' = FALSE
    /\ UNCHANGED <<now, threshold, keys, told, cutShort>>

\* A DROP_SOURCE closes the contribution.
Close ==
    /\ row.contribution = "ACTIVE"
    /\ row' = [row EXCEPT !.contribution = "CLOSED"]
    /\ UNCHANGED <<now, threshold, keys, told, cutShort, relaxed>>

\* Mutant: a status is computed once.
MutantChanged == row.main = None

Changed == <<MainStatus, MotionStatus>> # <<row.main, row.motion>>

Open == row.contribution = "ACTIVE"

\* Mutant: the key leaves the motion out.
MutantEventKey == [record |-> row.record, main |-> MainStatus, motion |-> None]

EventKey == [record |-> row.record, main |-> MainStatus, motion |-> MotionStatus]

\* evaluate, in the housekeeping of a pass: a change is stored and published.
Evaluate ==
    /\ ~cutShort
    /\ Open /\ Changed
    /\ row' = [row EXCEPT !.main = MainStatus, !.motion = MotionStatus]
    /\ keys' = keys \cup {EventKey}
    /\ told' = IF EventKey \in keys THEN told
               ELSE [record |-> row.record, main |-> MainStatus, motion |-> MotionStatus]
    /\ UNCHANGED <<now, threshold, cutShort, relaxed>>

Tick ==
    /\ now < MaxNow
    /\ now' = now + 1
    /\ UNCHANGED <<threshold, row, keys, told, cutShort, relaxed>>

\* A restart under another configuration: the store is bound to the channel (binding_of), not
\* to its thresholds.
Reconfigure ==
    /\ threshold' \in Thresholds \ {threshold}
    /\ relaxed' = (relaxed \/ threshold' > threshold)
    /\ UNCHANGED <<now, row, keys, told, cutShort>>

\* The gateway goes away, or a batch cannot be consumed.
GoesAway ==
    /\ ~cutShort
    /\ cutShort' = TRUE
    /\ UNCHANGED <<now, threshold, row, keys, told, relaxed>>

ComesBack ==
    /\ cutShort
    /\ cutShort' = FALSE
    /\ UNCHANGED <<now, threshold, row, keys, told, relaxed>>

Next ==
    \/ \E at \in Times, pos, kin \in Times \cup {Unset} : Report(at, pos, kin)
    \/ Close \/ Evaluate \/ Tick \/ Reconfigure \/ GoesAway \/ ComesBack

Spec == Init /\ [][Next]_vars

\* Time passes, the loop makes its passes (Bridge.run), and the gateway answers again after each
\* outage.
LiveSpec == Spec /\ WF_vars(Tick) /\ SF_vars(Evaluate) /\ WF_vars(ComesBack)

-----------------------------------------------------------------------------
\* freshness.py: "Changes of status are published as `freshness` events": once a status is
\* stored, the last event published says it, through outages, restarts and a motion that ages
\* apart (evaluate, SQL_OUTBOX_INSERT).  A threshold that is raised brings a status back whose
\* key the outbox holds, and is not told.
ToldIsStored ==
    row.main # None /\ ~relaxed
       => told = [record |-> row.record, main |-> row.main, motion |-> row.motion]

Rank(s) == CASE s = None        -> 0
             [] s = "TIME_SKEW" -> 1
             [] s = "ACTIVE"    -> 2
             [] s = "STALE"     -> 3
             [] s = "EXPIRED"   -> 4

\* Without a new report or a raised threshold a contribution never gets fresher, in what is
\* stored and in what the sink is told, and neither does its motion: a time in the future ages
\* like any other (status).
NeverFresher ==
    [][~relaxed' =>
       /\ row'.record = row.record => /\ Rank(row'.main) >= Rank(row.main)
                                      /\ Rank(row'.motion) >= Rank(row.motion)
       /\ told'.record = told.record => Rank(told'.main) >= Rank(told.main)]_vars

\* freshness.py, "at four times the threshold EXPIRED": a contribution that is left alone is
\* told to the sink to be so, whatever outages come before it (evaluate, _run_once).
AgesOut ==
    \A r \in 1 .. MaxRecords :
       row.record = r ~> \/ row.record > r \/ row.contribution = "CLOSED" \/ relaxed
                         \/ told.record = r /\ told.main = "EXPIRED"

=============================================================================
