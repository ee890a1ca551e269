----------------------------- MODULE Freshness_Proofs -----------------------------
(***************************************************************************)
(* Proofs about Freshness: the sink has been told what is stored, and      *)
(* nothing gets fresher without a new report or a raised threshold; for    *)
(* any thresholds, skew and times.                                         *)
(***************************************************************************)
EXTENDS Freshness, TLAPS

Row == [record: 0 .. MaxRecords, at: Times \cup {Unset}, pos: Times \cup {Unset},
        kin: Times \cup {Unset}, contribution: {None, "ACTIVE", "CLOSED"},
        main: Statuses \cup {None}, motion: Statuses \cup {None}]

\* The events tell of reports up to the current one, and of that one only once it has a status; the
\* last that was told is one of them.
Keyed ==
    /\ row.contribution = "ACTIVE" => row.record # 0
    /\ \A key \in keys : key.record <= row.record
    /\ row.main = None => \A key \in keys : key.record # row.record
    /\ told \in keys \cup {NothingTold}

\* What was told of the current report is not older than what is stored, and that not older than
\* what the clock says: in rank, of the contribution and of its motion.
NotOlder(key, main, motion) == Rank(key.main) <= Rank(main) /\ Rank(key.motion) <= Rank(motion)

Aged ==
    ~relaxed => /\ NotOlder(row, MainStatus, MotionStatus)
                /\ \A key \in keys : key.record = row.record => NotOlder(key, row.main, row.motion)

-----------------------------------------------------------------------------
\* The status of an age under a threshold.
StatusAt(age, t) ==
    CASE age < -Skew                           -> "TIME_SKEW"
      [] age >= -Skew /\ age >= 4 * t          -> "EXPIRED"
      [] age >= -Skew /\ age >= t /\ age < 4 * t -> "STALE"
      [] age >= -Skew /\ age < t               -> "ACTIVE"

LEMMA Ranks ==
    /\ \A s \in Statuses \cup {None} : Rank(s) \in 0 .. 4 /\ (Rank(s) = 0 => s = None)
    /\ Rank(None) = 0
    /\ \A s, r \in Statuses \cup {None} : Rank(s) = Rank(r) => s = r
<1>1. /\ Rank("none") = 0 /\ Rank("TIME_SKEW") = 1 /\ Rank("ACTIVE") = 2 /\ Rank("STALE") = 3
      /\ Rank("EXPIRED") = 4
  BY DEF Rank, None
<1>2. QED
  BY <1>1 DEF Statuses, None

\* A status is one of four, by the bounds its age is within.
LEMMA StatusRank ==
    ASSUME NEW age \in Int, NEW t \in Nat
    PROVE  /\ StatusAt(age, t) \in Statuses
           /\ Rank(StatusAt(age, t)) = IF age < -Skew THEN 1
                                       ELSE IF age >= 4 * t THEN 4
                                       ELSE IF age >= t THEN 3 ELSE 2
<1>1. Skew \in Nat /\ 4 * t \in Nat /\ t <= 4 * t
  BY FreshnessAssumption
<1>2. CASE age < -Skew
  <2>1. StatusAt(age, t) = "TIME_SKEW"
    BY <1>1, <1>2 DEF StatusAt
  <2>2. QED
    BY <1>2, <2>1 DEF Rank, Statuses, None
<1>3. CASE age >= -Skew /\ age >= 4 * t
  <2>1. StatusAt(age, t) = "EXPIRED"
    BY <1>1, <1>3 DEF StatusAt
  <2>2. ~(age < -Skew)
    BY <1>1, <1>3
  <2>3. QED
    BY <1>3, <2>1, <2>2 DEF Rank, Statuses, None
<1>4. CASE age >= -Skew /\ age >= t /\ age < 4 * t
  <2>1. StatusAt(age, t) = "STALE"
    BY <1>1, <1>4 DEF StatusAt
  <2>2. ~(age < -Skew) /\ ~(age >= 4 * t)
    BY <1>1, <1>4
  <2>3. QED
    BY <1>4, <2>1, <2>2 DEF Rank, Statuses, None
<1>5. CASE age >= -Skew /\ age < t
  <2>1. StatusAt(age, t) = "ACTIVE"
    BY <1>1, <1>5 DEF StatusAt
  <2>2. ~(age < -Skew) /\ ~(age >= 4 * t) /\ ~(age >= t)
    BY <1>1, <1>5
  <2>3. QED
    BY <2>1, <2>2 DEF Rank, Statuses, None
<1>6. QED
  BY <1>1, <1>2, <1>3, <1>4, <1>5

\* Time and a lower threshold make nothing fresher.
LEMMA StatusAges ==
    ASSUME NEW age \in Int, NEW later \in Int, age <= later,
           NEW t \in Nat, NEW lower \in Nat, lower <= t
    PROVE  Rank(StatusAt(age, t)) <= Rank(StatusAt(later, lower))
<1>1. Skew \in Nat
  BY FreshnessAssumption
<1>2. QED
  BY <1>1, StatusRank

LEMMA StatusIsAt == \A observed : Status(observed) = StatusAt(now - observed, threshold)
BY DEF Status, Age, StatusAt

\* The times a row keeps, and what they say of it now.
LEMMA RowTimes ==
    ASSUME TypeOK
    PROVE  /\ now \in Nat /\ threshold \in Nat /\ row \in Row
           /\ row.at \in Int /\ row.pos \in Int /\ row.kin \in Int
           /\ MainStatus \in Statuses /\ MotionStatus \in Statuses \cup {None}
<1>1. now \in Nat /\ threshold \in Nat /\ row \in Row
  BY FreshnessAssumption DEF TypeOK, Row
<1>2. \A t \in Times \cup {Unset} : t \in Int
  <2>1. \A t \in Times : t \in Int
    BY FreshnessAssumption
  <2>2. Unset \in Int
    BY DEF Unset
  <2>3. QED
    BY <2>1, <2>2
<1>3. row.at \in Int /\ row.pos \in Int /\ row.kin \in Int
  BY <1>1, <1>2 DEF Row
<1>4. \A observed \in Int : Status(observed) \in Statuses
  BY <1>1, StatusIsAt, StatusRank
<1>5. QED
  BY <1>1, <1>3, <1>4 DEF MainStatus, MotionStatus

\* While the row stays, the clock runs and the threshold is not raised, nothing gets fresher.
LEMMA RowAges ==
    ASSUME TypeOK, TypeOK', now <= now', threshold' <= threshold,
           row'.at = row.at, row'.pos = row.pos, row'.kin = row.kin
    PROVE  Rank(MainStatus) <= Rank(MainStatus') /\ Rank(MotionStatus) <= Rank(MotionStatus')
<1>1. /\ now \in Nat /\ threshold \in Nat /\ now' \in Nat /\ threshold' \in Nat
      /\ row.at \in Int /\ row.pos \in Int /\ row.kin \in Int
  BY RowTimes, FreshnessAssumption DEF TypeOK
<1>2. ASSUME NEW observed \in Int
      PROVE  Rank(StatusAt(now - observed, threshold)) <= Rank(StatusAt(now' - observed, threshold'))
  BY <1>1, StatusAges
<1>3. ASSUME NEW observed
      PROVE  StatusAt(now' - observed, threshold')
                = CASE now' - observed < -Skew -> "TIME_SKEW"
                    [] now' - observed >= -Skew /\ now' - observed >= 4 * threshold' -> "EXPIRED"
                    [] /\ now' - observed >= -Skew /\ now' - observed >= threshold'
                       /\ now' - observed < 4 * threshold' -> "STALE"
                    [] now' - observed >= -Skew /\ now' - observed < threshold' -> "ACTIVE"
  BY DEF StatusAt
<1> DEFINE observed == IF row.pos # Unset THEN row.pos ELSE row.at
<1>4. /\ MainStatus = StatusAt(now - observed, threshold)
      /\ MainStatus' = StatusAt(now' - observed, threshold')
  <2>1. MainStatus = StatusAt(now - observed, threshold)
    BY StatusIsAt DEF MainStatus
  <2>2. CASE row.pos = Unset
    <3>1. row'.pos = Unset /\ observed = row.at
      BY <2>2
    <3>2. MainStatus' = StatusAt(now' - row.at, threshold')
      BY <1>3, <3>1 DEF MainStatus, Status, Age
    <3>3. QED
      BY <2>1, <3>1, <3>2
  <2>3. CASE row.pos # Unset
    <3>1. row'.pos # Unset /\ observed = row.pos
      BY <2>3
    <3>2. MainStatus' = StatusAt(now' - row.pos, threshold')
      BY <1>3, <3>1 DEF MainStatus, Status, Age
    <3>3. QED
      BY <2>1, <3>1, <3>2
  <2>4. QED
    BY <2>2, <2>3
<1>5. Rank(MainStatus) <= Rank(MainStatus')
  <2>1. observed \in Int
    BY <1>1
  <2> HIDE DEF observed
  <2>2. QED
    BY <1>2, <1>4, <2>1
<1>6. Rank(MotionStatus) <= Rank(MotionStatus')
  <2>1. CASE row.kin = Unset
    <3>1. MotionStatus = None /\ MotionStatus' = None /\ Rank(None) = 0
      BY <2>1, Ranks DEF MotionStatus
    <3>2. QED
      BY <3>1
  <2>2. CASE row.kin # Unset
    <3>1. MotionStatus = StatusAt(now - row.kin, threshold)
      BY <2>2, StatusIsAt DEF MotionStatus
    <3>2. MotionStatus' = StatusAt(now' - row.kin, threshold')
      BY <1>3, <2>2 DEF MotionStatus, Status, Age
    <3>3. QED
      BY <1>1, <1>2, <3>1, <3>2
  <2>3. QED
    BY <2>1, <2>2
<1>7. QED
  BY <1>5, <1>6

-----------------------------------------------------------------------------
\* Type correctness.

LEMMA TypeStep == TypeOK /\ Keyed /\ [Next]_vars => TypeOK'
<1> SUFFICES ASSUME TypeOK, Keyed, [Next]_vars PROVE TypeOK'
  OBVIOUS
<1>1. /\ now \in 0 .. MaxNow /\ threshold \in Thresholds /\ row \in Row /\ keys \subseteq Keys
      /\ told \in Keys \cup {NothingTold} /\ cutShort \in BOOLEAN /\ relaxed \in BOOLEAN
      /\ MaxNow \in Nat /\ MaxRecords \in Nat
  BY FreshnessAssumption DEF TypeOK, Row
<1>2. ASSUME now' \in 0 .. MaxNow, threshold' \in Thresholds, row' \in Row, keys' \subseteq Keys,
             told' \in Keys \cup {NothingTold}, cutShort' \in BOOLEAN, relaxed' \in BOOLEAN
      PROVE  TypeOK'
  BY <1>2 DEF TypeOK, Row
<1>3. ASSUME NEW at \in Times, NEW pos \in Times \cup {Unset}, NEW kin \in Times \cup {Unset},
             Report(at, pos, kin)
      PROVE  TypeOK'
  <2>1. row.record \in 0 .. MaxRecords
    BY <1>1 DEF Row
  <2>2. row.record + 1 \in 0 .. MaxRecords
    BY <1>1, <1>3, <2>1 DEF Report
  <2>3. row' \in Row
    BY <1>3, <2>2 DEF Report, Row
  <2>4. relaxed' = FALSE /\ UNCHANGED <<now, threshold, keys, told, cutShort>>
    BY <1>3 DEF Report
  <2>5. QED
    BY <1>1, <1>2, <2>3, <2>4
<1>4. CASE Close
  <2>1. row' \in Row
    BY <1>1, <1>4 DEF Close, Row
  <2>2. UNCHANGED <<now, threshold, keys, told, cutShort, relaxed>>
    BY <1>4 DEF Close
  <2>3. QED
    BY <1>1, <1>2, <2>1, <2>2
<1>5. CASE Evaluate
  <2>1. MainStatus \in Statuses /\ MotionStatus \in Statuses \cup {None}
    BY RowTimes
  <2>2. row.record \in 1 .. MaxRecords
    <3>1. row.record \in 0 .. MaxRecords /\ row.record # 0
      BY <1>1, <1>5 DEF Evaluate, Open, Keyed, Row
    <3>2. QED
      BY <1>1, <3>1
  <2>3. row' \in Row
    BY <1>1, <1>5, <2>1 DEF Evaluate, Row
  <2>4. EventKey \in Keys
    BY <2>1, <2>2 DEF EventKey, Keys
  <2>5. keys' = keys \cup {EventKey} /\ told' \in {told, EventKey}
    BY <1>5 DEF Evaluate, EventKey
  <2>6. UNCHANGED <<now, threshold, cutShort, relaxed>>
    BY <1>5 DEF Evaluate
  <2>7. QED
    BY <1>1, <1>2, <2>3, <2>4, <2>5, <2>6
<1>6. CASE Tick
  <2>1. now' \in 0 .. MaxNow
    BY <1>1, <1>6 DEF Tick
  <2>2. QED
    BY <1>1, <1>2, <1>6, <2>1 DEF Tick
<1>7. CASE Reconfigure
  BY <1>1, <1>2, <1>7 DEF Reconfigure
<1>8. CASE GoesAway \/ ComesBack \/ UNCHANGED vars
  BY <1>1, <1>2, <1>8 DEF GoesAway, ComesBack, vars
<1>9. QED
  BY <1>3, <1>4, <1>5, <1>6, <1>7, <1>8 DEF Next

LEMMA KeyedStep == TypeOK /\ Keyed /\ [Next]_vars => Keyed'
<1> SUFFICES ASSUME TypeOK, Keyed, [Next]_vars PROVE Keyed'
  OBVIOUS
<1>1. /\ row \in Row /\ row.record \in Nat
      /\ \A key \in keys : key.record \in Nat
  BY FreshnessAssumption DEF TypeOK, Row, Keys
<1>2. CASE UNCHANGED <<row, keys, told>>
  BY <1>2 DEF Keyed
<1>3. ASSUME NEW at, NEW pos, NEW kin, Report(at, pos, kin) PROVE Keyed'
  <2>1. /\ row'.record = row.record + 1 /\ row'.main = None
        /\ keys' = keys /\ told' = told
    BY <1>3 DEF Report
  <2>2. \A key \in keys : key.record <= row.record + 1 /\ key.record # row.record + 1
    BY <1>1 DEF Keyed
  <2>3. row.record + 1 # 0
    BY <1>1
  <2>4. QED
    BY <2>1, <2>2, <2>3 DEF Keyed
<1>4. CASE Close
  <2>1. /\ row'.record = row.record /\ row'.main = row.main /\ row'.contribution = "CLOSED"
        /\ keys' = keys /\ told' = told
    BY <1>1, <1>4 DEF Close, Row
  <2>2. QED
    BY <2>1 DEF Keyed
<1>5. CASE Evaluate
  <2>1. /\ row'.record = row.record /\ row'.main = MainStatus
        /\ row'.contribution = row.contribution
    BY <1>1, <1>5 DEF Evaluate, Row
  <2>2. row'.main # None
    BY <2>1, RowTimes DEF Statuses, None
  <2>3. /\ EventKey.record = row.record /\ keys' = keys \cup {EventKey}
        /\ told' \in {told, EventKey}
    BY <1>5 DEF Evaluate, EventKey
  <2>4. \A key \in keys' : key.record <= row.record
    BY <1>1, <2>3 DEF Keyed
  <2>5. QED
    BY <2>1, <2>2, <2>3, <2>4 DEF Keyed
<1>6. QED
  BY <1>2, <1>3, <1>4, <1>5
     DEF Next, Tick, Reconfigure, GoesAway, ComesBack, vars

LEMMA Typed == Spec => [](TypeOK /\ Keyed)
<1>1. Init => TypeOK /\ Keyed
  <2> SUFFICES ASSUME Init PROVE TypeOK /\ Keyed
    OBVIOUS
  <2>1. 0 \in 0 .. MaxNow /\ 0 \in 0 .. MaxRecords
    BY FreshnessAssumption
  <2>2. TypeOK
    BY <2>1 DEF Init, TypeOK
  <2>3. Keyed
    BY DEF Init, Keyed, None
  <2>4. QED
    BY <2>2, <2>3
<1>2. QED
  BY <1>1, TypeStep, KeyedStep, PTL DEF Spec

\* Every reachable state is well typed, for any thresholds, skew, times and bounds.
THEOREM FreshnessTypeCorrect == Spec => []TypeOK
BY Typed, PTL

-----------------------------------------------------------------------------
\* What is told ages as what is stored, and that as the clock.

\* Ranks that do not differ are of the same statuses, so that a changed status was not told before.
LEMMA NotToldBefore ==
    ASSUME TypeOK, Aged, ~relaxed, Changed
    PROVE  EventKey \notin keys
<1> SUFFICES ASSUME EventKey \in keys PROVE FALSE
  OBVIOUS
<1>1. /\ EventKey.record = row.record /\ EventKey.main = MainStatus
      /\ EventKey.motion = MotionStatus
  BY DEF EventKey
<1>2. /\ Rank(MainStatus) <= Rank(row.main) /\ Rank(MotionStatus) <= Rank(row.motion)
      /\ Rank(row.main) <= Rank(MainStatus) /\ Rank(row.motion) <= Rank(MotionStatus)
  BY <1>1 DEF Aged, NotOlder
<1>3. /\ row.main \in Statuses \cup {None} /\ row.motion \in Statuses \cup {None}
      /\ MainStatus \in Statuses \cup {None} /\ MotionStatus \in Statuses \cup {None}
  BY RowTimes DEF Row
<1>4. Rank(MainStatus) = Rank(row.main) /\ Rank(MotionStatus) = Rank(row.motion)
  BY <1>2, <1>3, Ranks
<1>5. MainStatus = row.main /\ MotionStatus = row.motion
  BY <1>3, <1>4, Ranks
<1>6. QED
  BY <1>5 DEF Changed

\* What Evaluate stores is what it tells.
LEMMA Evaluated ==
    ASSUME TypeOK, Aged, ~relaxed, Evaluate
    PROVE  /\ row'.record = row.record /\ row'.main = MainStatus /\ row'.motion = MotionStatus
           /\ row'.at = row.at /\ row'.pos = row.pos /\ row'.kin = row.kin
           /\ told' = EventKey /\ keys' = keys \cup {EventKey}
           /\ now' = now /\ threshold' = threshold /\ relaxed' = relaxed
<1>1. row \in Row
  BY RowTimes
<1>2. EventKey \notin keys
  BY NotToldBefore DEF Evaluate
<1>3. told' = EventKey /\ keys' = keys \cup {EventKey}
  BY <1>2 DEF Evaluate, EventKey
<1>4. QED
  BY <1>1, <1>3 DEF Evaluate, Row

\* A step that leaves what is stored and told alone, while the clock may run.
Quiet ==
    /\ row'.record = row.record /\ row'.main = row.main /\ row'.motion = row.motion
    /\ row'.at = row.at /\ row'.pos = row.pos /\ row'.kin = row.kin
    /\ keys' = keys /\ told' = told
    /\ now <= now' /\ threshold' <= threshold /\ relaxed' = relaxed

LEMMA Steps ==
    ASSUME TypeOK, ~relaxed', [Next]_vars
    PROVE  \/ Quiet
           \/ \E at \in Times, pos, kin \in Times \cup {Unset} : Report(at, pos, kin)
           \/ ~relaxed /\ Evaluate
<1>1. /\ now \in Nat /\ threshold \in Nat /\ row \in Row
      /\ now <= now /\ threshold <= threshold
  BY RowTimes
<1>2. CASE Close
  <2>1. /\ row'.record = row.record /\ row'.main = row.main /\ row'.motion = row.motion
        /\ row'.at = row.at /\ row'.pos = row.pos /\ row'.kin = row.kin
    BY <1>1, <1>2 DEF Close, Row
  <2>2. QED
    BY <1>1, <1>2, <2>1 DEF Close, Quiet
<1>3. CASE Tick
  BY <1>1, <1>3 DEF Tick, Quiet
<1>4. CASE Reconfigure
  <2>1. threshold' \in Nat /\ ~(threshold' > threshold) /\ relaxed' = relaxed
    BY <1>4, FreshnessAssumption DEF Reconfigure, TypeOK
  <2>2. threshold' <= threshold
    BY <1>1, <2>1
  <2>3. QED
    BY <1>1, <1>4, <2>1, <2>2 DEF Reconfigure, Quiet
<1>5. CASE GoesAway \/ ComesBack \/ UNCHANGED vars
  BY <1>1, <1>5 DEF GoesAway, ComesBack, vars, Quiet
<1>6. CASE Evaluate
  BY <1>6 DEF Evaluate
<1>7. QED
  BY <1>2, <1>3, <1>4, <1>5, <1>6 DEF Next

\* What the clock says of a row is a status.
Ranged == MainStatus \in Statuses /\ MotionStatus \in Statuses \cup {None}

LEMMA AgedStep ==
    ASSUME TypeOK, TypeOK', Ranged', Keyed, Aged, ToldIsStored, [Next]_vars
    PROVE  Aged' /\ ToldIsStored'
<1>1. CASE relaxed'
  BY <1>1 DEF Aged, ToldIsStored
<1> SUFFICES ASSUME ~relaxed' PROVE Aged' /\ ToldIsStored'
  BY <1>1
<1>2. /\ \A s \in Statuses \cup {None} : Rank(s) \in Nat
      /\ row.main \in Statuses \cup {None} /\ row.motion \in Statuses \cup {None}
  BY Ranks, RowTimes DEF Row
<1>3. MainStatus' \in Statuses \cup {None} /\ MotionStatus' \in Statuses \cup {None}
  BY DEF Ranged
<1>4. CASE Quiet
  <2>1. /\ row'.record = row.record /\ row'.main = row.main /\ row'.motion = row.motion
        /\ keys' = keys /\ told' = told /\ ~relaxed
    BY <1>4 DEF Quiet
  <2>2. Rank(MainStatus) <= Rank(MainStatus') /\ Rank(MotionStatus) <= Rank(MotionStatus')
    BY <1>4, RowAges DEF Quiet
  <2>3. Rank(row.main) <= Rank(MainStatus) /\ Rank(row.motion) <= Rank(MotionStatus)
    BY <2>1 DEF Aged, NotOlder
  <2>4. MainStatus \in Statuses \cup {None} /\ MotionStatus \in Statuses \cup {None}
    BY RowTimes
  <2>5. Rank(row.main) <= Rank(MainStatus') /\ Rank(row.motion) <= Rank(MotionStatus')
    BY <1>2, <1>3, <2>2, <2>3, <2>4
  <2>6. Aged'
    BY <2>1, <2>5 DEF Aged, NotOlder
  <2>7. ToldIsStored'
    BY <2>1 DEF ToldIsStored
  <2>8. QED
    BY <2>6, <2>7
<1>5. ASSUME NEW at \in Times, NEW pos \in Times \cup {Unset}, NEW kin \in Times \cup {Unset},
             Report(at, pos, kin)
      PROVE  Aged' /\ ToldIsStored'
  <2>1. /\ row'.main = None /\ row'.motion = None /\ row'.record = row.record + 1
        /\ keys' = keys
    BY <1>5 DEF Report
  <2>2. \A key \in keys' : key.record # row'.record
    <3>1. row.record \in Nat /\ \A key \in keys : key.record \in Nat
      BY FreshnessAssumption DEF TypeOK, Keys
    <3>2. QED
      BY <2>1, <3>1 DEF Keyed
  <2>3. Rank(row'.main) <= Rank(MainStatus') /\ Rank(row'.motion) <= Rank(MotionStatus')
    BY <1>2, <1>3, <2>1, Ranks
  <2>4. Aged'
    BY <2>2, <2>3 DEF Aged, NotOlder
  <2>5. ToldIsStored'
    BY <2>1 DEF ToldIsStored
  <2>6. QED
    BY <2>4, <2>5
<1>6. CASE ~relaxed /\ Evaluate
  <2>1. /\ row'.record = row.record /\ row'.main = MainStatus /\ row'.motion = MotionStatus
        /\ row'.at = row.at /\ row'.pos = row.pos /\ row'.kin = row.kin
        /\ told' = EventKey /\ keys' = keys \cup {EventKey}
        /\ now' = now /\ threshold' = threshold
    BY <1>6, Evaluated
  <2>2. /\ EventKey.record = row.record /\ EventKey.main = MainStatus
        /\ EventKey.motion = MotionStatus
    BY DEF EventKey
  <2>3. MainStatus \in Statuses \cup {None} /\ MotionStatus \in Statuses \cup {None}
        /\ now \in Nat /\ threshold \in Nat
    BY RowTimes
  <2>4. Rank(MainStatus) <= Rank(MainStatus') /\ Rank(MotionStatus) <= Rank(MotionStatus')
    BY <2>1, <2>3, RowAges
  <2>5. ASSUME NEW key \in keys', key.record = row.record
        PROVE  Rank(key.main) <= Rank(MainStatus) /\ Rank(key.motion) <= Rank(MotionStatus)
    <3>1. CASE key = EventKey
      BY <1>2, <2>2, <2>3, <3>1
    <3>2. CASE key \in keys
      <4>1. /\ Rank(key.main) <= Rank(row.main) /\ Rank(key.motion) <= Rank(row.motion)
            /\ Rank(row.main) <= Rank(MainStatus) /\ Rank(row.motion) <= Rank(MotionStatus)
        BY <1>6, <2>5, <3>2 DEF Aged, NotOlder
      <4>2. key.main \in Statuses \cup {None} /\ key.motion \in Statuses \cup {None}
        BY <3>2 DEF TypeOK, Keys
      <4>3. QED
        BY <1>2, <2>3, <4>1, <4>2
    <3>3. QED
      BY <2>1, <3>1, <3>2
  <2>6. Aged'
    BY <2>1, <2>4, <2>5 DEF Aged, NotOlder
  <2>7. ToldIsStored'
    BY <2>1 DEF ToldIsStored, EventKey
  <2>8. QED
    BY <2>6, <2>7
<1>7. QED
  BY <1>4, <1>5, <1>6, Steps

LEMMA Told == Spec => [](TypeOK /\ Keyed /\ Aged /\ ToldIsStored)
<1>1. TypeOK /\ Init => Aged /\ ToldIsStored
  <2> SUFFICES ASSUME TypeOK, Init PROVE Aged /\ ToldIsStored
    OBVIOUS
  <2>1. row.main = None /\ row.motion = None /\ keys = {}
    BY DEF Init
  <2>2. Rank(None) <= Rank(MainStatus) /\ Rank(None) <= Rank(MotionStatus)
    BY RowTimes, Ranks
  <2>3. QED
    BY <2>1, <2>2 DEF Aged, NotOlder, ToldIsStored
<1>2. TypeOK => Ranged
  BY RowTimes DEF Ranged
<1>3. TypeOK /\ TypeOK' /\ Ranged' /\ Keyed /\ Aged /\ ToldIsStored /\ [Next]_vars
         => Aged' /\ ToldIsStored'
  BY AgedStep
<1>4. QED
  BY <1>1, <1>2, <1>3, Typed, PTL DEF Spec

\* Once a status is stored, the last event published says it, through outages, restarts and a motion
\* that ages apart, unless a threshold was raised (evaluate, SQL_OUTBOX_INSERT).
THEOREM StoredIsTold == Spec => []ToldIsStored
BY Told, PTL

LEMMA FresherStep ==
    ASSUME TypeOK, Keyed, Aged, ToldIsStored, [Next]_vars, ~relaxed'
    PROVE  /\ row'.record = row.record => /\ Rank(row'.main) >= Rank(row.main)
                                          /\ Rank(row'.motion) >= Rank(row.motion)
           /\ told'.record = told.record => Rank(told'.main) >= Rank(told.main)
<1>1. /\ row.main \in Statuses \cup {None} /\ row.motion \in Statuses \cup {None}
      /\ row.record \in Nat /\ row.record # row.record + 1
      /\ told.main \in Statuses \cup {None}
      /\ \A s \in Statuses \cup {None} : Rank(s) \in Nat /\ Rank(s) >= Rank(s)
      /\ MainStatus \in Statuses \cup {None} /\ MotionStatus \in Statuses \cup {None}
  <2>1. row.main \in Statuses \cup {None} /\ row.motion \in Statuses \cup {None}
    BY RowTimes DEF Row
  <2>2. row.record \in Nat
    BY FreshnessAssumption DEF TypeOK
  <2>3. told.main \in Statuses \cup {None}
    BY DEF TypeOK, Keys, NothingTold
  <2>4. \A s \in Statuses \cup {None} : Rank(s) \in Nat
    BY Ranks
  <2>5. QED
    BY <2>1, <2>2, <2>3, <2>4, RowTimes
<1>2. CASE Quiet
  BY <1>1, <1>2 DEF Quiet
<1>3. ASSUME NEW at, NEW pos, NEW kin, Report(at, pos, kin)
      PROVE  row'.record # row.record /\ told' = told
  BY <1>1, <1>3 DEF Report
<1>4. CASE ~relaxed /\ Evaluate
  <2>1. /\ row'.main = MainStatus /\ row'.motion = MotionStatus
        /\ told' = EventKey
    BY <1>4, Evaluated
  <2>2. Rank(row.main) <= Rank(MainStatus) /\ Rank(row.motion) <= Rank(MotionStatus)
    BY <1>4 DEF Aged, NotOlder
  <2>3. ASSUME told'.record = told.record PROVE told.main = row.main
    <3>1. told.record = row.record
      BY <2>1, <2>3 DEF EventKey
    <3>2. told \in keys
      <4>1. row.record # 0
        BY <1>4 DEF Evaluate, Open, Keyed
      <4>2. QED
        BY <3>1, <4>1 DEF Keyed, NothingTold
    <3>3. row.main # None
      BY <3>1, <3>2 DEF Keyed
    <3>4. QED
      BY <1>4, <3>3 DEF ToldIsStored
  <2>4. told'.main = MainStatus
    BY <2>1 DEF EventKey
  <2>5. QED
    BY <1>1, <2>1, <2>2, <2>3, <2>4
<1>5. QED
  BY <1>1, <1>2, <1>3, <1>4, Steps

\* Without a new report or a raised threshold nothing gets fresher, in what is stored and in what the
\* sink is told: a time in the future ages like any other (status).
THEOREM NothingGetsFresher == Spec => NeverFresher
<1>1. TypeOK /\ Keyed /\ Aged /\ ToldIsStored /\ [Next]_vars
         => [~relaxed' =>
              /\ row'.record = row.record => /\ Rank(row'.main) >= Rank(row.main)
                                             /\ Rank(row'.motion) >= Rank(row.motion)
              /\ told'.record = told.record => Rank(told'.main) >= Rank(told.main)]_vars
  BY FresherStep
<1>2. QED
  BY <1>1, Told, PTL DEF Spec, NeverFresher

=============================================================================
