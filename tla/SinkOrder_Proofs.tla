----------------------------- MODULE SinkOrder_Proofs -----------------------------
(***************************************************************************)
(* Proofs about SourceIdentity and SinkOrder: type correctness, tombstones *)
(* and epochs that stay closed, a current state that never goes back, each *)
(* report accepted once, rule (b) of the incarnations, and a sink that     *)
(* follows the order of the commits; for any incarnations, times, states   *)
(* and caps.                                                               *)
(***************************************************************************)
EXTENDS SinkOrder, FiniteSetTheorems, TLAPS

Identity == [status: {"none", "LIVE", "TOMBSTONED", "RESET"}, epoch: 0 .. MaxEpoch,
             first: Times \cup {Null}, tombstone: Times \cup {Null},
             continued: BOOLEAN, scope: Incarnations \cup {Null}]

State == [at: Times \cup {Null}, state: States \cup {"none"},
          contribution: {"none", "ACTIVE", "CLOSED"}]

HeldRow == [report: Reports, resolution: Resolutions]

-----------------------------------------------------------------------------
\* A set of naturals that is not empty has a least element: the number of its lower bounds, less
\* one.  (It stands for the induction theorems, whose operator parameter no prover instantiates.)
LEMMA LeastNatural ==
    ASSUME NEW T \in SUBSET Nat, T # {}
    PROVE  \E x \in T : \A y \in T : x <= y
<1> DEFINE D == {m \in Nat : \A y \in T : m <= y}
           k == Cardinality(D)
<1>1. PICK n \in T : TRUE
  OBVIOUS
<1>2. D \in SUBSET Nat /\ n \in Nat /\ \A m \in D : m <= n
  BY <1>1
<1>3. IsFiniteSet(D) /\ k \in Nat
  BY <1>2, FS_BoundedSetOfNaturals, FS_CardinalityType
<1>4. 0 \in D /\ \A m \in D : 0 .. m \in SUBSET D
  OBVIOUS
<1>5. k \notin D
  <2>1. Cardinality(0 .. k) = k + 1
    BY <1>3, FS_Interval
  <2>2. k \in D => Cardinality(0 .. k) <= k
    BY <1>3, <1>4, FS_Subset
  <2>3. QED
    BY <1>3, <2>1, <2>2
<1>6. k - 1 \in D
  <2>1. ASSUME k - 1 \notin D
        PROVE  D \in SUBSET (0 .. k - 2)
    <3>1. ASSUME NEW m \in D, ~(m <= k - 2)
          PROVE  FALSE
      <4>1. m \in Nat /\ k - 1 <= m
        BY <1>2, <1>3, <3>1
      <4>2. k # 0
        <5>1. D # {}
          BY <1>4
        <5>2. QED
          BY <1>3, <5>1, FS_EmptySet
      <4>3. k - 1 \in 0 .. m
        BY <1>3, <4>1, <4>2
      <4>4. QED
        BY <1>4, <2>1, <4>3
    <3>2. QED
      BY <1>2, <1>3, <3>1
  <2>2. IsFiniteSet(0 .. k - 2) /\ Cardinality(0 .. k - 2) = IF 0 > k - 2 THEN 0 ELSE k - 1
    <3>1. k - 2 \in Int /\ k - 2 - 0 + 1 = k - 1
      BY <1>3
    <3>2. 0 \in Int
      OBVIOUS
    <3>3. /\ IsFiniteSet(0 .. k - 2)
          /\ Cardinality(0 .. k - 2) = IF 0 > k - 2 THEN 0 ELSE k - 2 - 0 + 1
      BY <3>1, <3>2, FS_Interval
    <3>4. QED
      BY <3>1, <3>3
  <2>3. k # 0
    <3>1. D # {}
      BY <1>4
    <3>2. QED
      BY <1>3, <3>1, FS_EmptySet
  <2>4. ASSUME k - 1 \notin D
        PROVE  k <= Cardinality(0 .. k - 2)
    BY <2>1, <2>2, <2>4, FS_Subset
  <2>5. QED
    BY <1>3, <2>2, <2>3, <2>4
<1>7. PICK y \in T : ~(k <= y)
  BY <1>3, <1>5
<1>8. y \in Nat /\ k - 1 <= y
  BY <1>6, <1>7
<1>9. y = k - 1
  BY <1>3, <1>7, <1>8
<1>10. QED
  BY <1>6, <1>9


\* A bounded set of naturals that is not empty has a greatest element: the least of its bounds.
LEMMA GreatestOf ==
    ASSUME NEW T \in SUBSET Nat, T # {}, \E b \in Nat : \A x \in T : x <= b
    PROVE  Greatest(T) \in T /\ \A x \in T : x <= Greatest(T)
<1> DEFINE B == {b \in Nat : \A x \in T : x <= b}
<1>1. PICK b \in B : \A c \in B : b <= c
  BY LeastNatural
<1>2. b \in Nat /\ \A x \in T : x <= b
  BY <1>1
<1>3. b \in T
  <2>1. SUFFICES ASSUME b \notin T PROVE FALSE
    OBVIOUS
  <2>2. \A x \in T : x \in Nat /\ x <= b - 1
    BY <1>2, <2>1
  <2>3. b - 1 \in Nat
    <3>1. PICK x \in T : TRUE
      OBVIOUS
    <3>2. QED
      BY <1>2, <2>2, <3>1
  <2>4. b - 1 \in B
    BY <2>2, <2>3
  <2>5. QED
    BY <1>1, <1>2, <2>4
<1>4. \E x \in T : \A y \in T : y <= x
  BY <1>2, <1>3
<1>5. QED
  BY <1>4 DEF Greatest

LEMMA LeastOf ==
    ASSUME NEW T \in SUBSET Nat, T # {}
    PROVE  Least(T) \in T /\ \A x \in T : Least(T) <= x
<1>1. \E x \in T : \A y \in T : x <= y
  BY LeastNatural
<1>2. QED
  BY <1>1 DEF Least

-----------------------------------------------------------------------------
\* A time in a row is a number, or no time.
LEMMA RowTime ==
    ASSUME NEW row \in State
    PROVE  row.at \in Nat
<1>1. Times \subseteq Nat \ {0}
  BY IdentityAssumption
<1>2. row.at \in Times \cup {Null}
  BY DEF State
<1>3. CASE row.at \in Times
  BY <1>1, <1>3
<1>4. CASE row.at = 0
  BY <1>4
<1>5. QED
  BY <1>2, <1>3, <1>4 DEF Null

\* What a report makes of a current row is one: of the same time or a later one, and then of the
\* same state or a new one.
LEMMA RowAfter ==
    ASSUME NEW row \in State, NEW report \in Reports, NEW late \in BOOLEAN
    PROVE  /\ FlagOf(row, report, late) \in Flags
           /\ StateAfter(row, report, late) \in State
           /\ StateAfter(row, report, late).at >= row.at
           /\ StateAfter(row, report, late).at = row.at
                 => StateAfter(row, report, late).state = row.state
<1>1. /\ report.at \in Times /\ report.at \in Nat /\ report.at # 0 /\ report.state \in States
      /\ row.at \in Nat
  <2>1. report.at \in Times /\ report.state \in States
    BY DEF Reports
  <2>2. report.at \in Nat \ {0}
    BY <2>1, IdentityAssumption
  <2>3. QED
    BY <2>1, <2>2, RowTime
<1>2. FlagOf(row, report, late) \in Flags
  <2>1. CASE late
    <3>1. FlagOf(row, report, TRUE) = "LATE"
      BY DEF FlagOf
    <3>2. late = TRUE
      BY <2>1
    <3>3. QED
      BY <3>1, <3>2 DEF Flags
  <2>2. CASE ~late
    <3>1. CASE row.at = Null \/ report.at > row.at
      <4>1. FlagOf(row, report, late) = "none"
        BY <1>1, <2>2, <3>1 DEF FlagOf, Null
      <4>2. QED
        BY <4>1 DEF Flags
    <3>2. CASE row.at # Null /\ report.at < row.at
      <4>1. FlagOf(row, report, late) = "LATE"
        BY <1>1, <2>2, <3>2 DEF FlagOf, Null
      <4>2. QED
        BY <4>1 DEF Flags
    <3>3. CASE report.at = row.at
      <4>1. FlagOf(row, report, late) \in {"REFRESH", "CONFLICT"}
        BY <1>1, <2>2, <3>3 DEF FlagOf, Null
      <4>2. QED
        BY <4>1 DEF Flags
    <3>4. QED
      BY <1>1, <3>1, <3>2, <3>3
  <2>3. QED
    BY <2>1, <2>2
<1>3. CASE FlagOf(row, report, late) # "none"
  BY <1>1, <1>2, <1>3 DEF StateAfter
<1>4. CASE FlagOf(row, report, late) = "none"
  <2>1. report.at > row.at
    BY <1>1, <1>4 DEF FlagOf, Null
  <2>2. StateAfter(row, report, late)
           = [at |-> report.at, state |-> report.state, contribution |-> "ACTIVE"]
    BY <1>4 DEF StateAfter
  <2>3. QED
    BY <1>1, <1>2, <2>1, <2>2 DEF State
<1>5. QED
  BY <1>3, <1>4

\* The current row after a row of the quarantine, which an operator may have released.
After(n, row, released) ==
    IF n \in released THEN StateAfter(row, quarantine[n].report, FALSE) ELSE row

\* StateReleased is what its recursion says: a function on the first rows can be extended by the
\* next one, so that there is none on which it cannot be built.
LEMMA StatesReleased ==
    ASSUME NEW k \in Incarnations, NEW released \in SUBSET (1 .. Len(quarantine)),
           quarantine \in Seq(HeldRow), current[k] \in State
    PROVE  /\ StateReleased(k, released) \in [0 .. Len(quarantine) -> State]
           /\ StateReleased(k, released)[0] = current[k]
           /\ \A n \in 1 .. Len(quarantine) :
                 StateReleased(k, released)[n] = After(n, StateReleased(k, released)[n - 1], released)
<1> DEFINE L == Len(quarantine)
           Built(g, m) == /\ g \in [0 .. m -> State] /\ g[0] = current[k]
                          /\ \A n \in 1 .. m : g[n] = After(n, g[n - 1], released)
           Unbuilt == {m \in 0 .. L : ~\E g \in [0 .. m -> State] : Built(g, m)}
<1>1. L \in Nat /\ \A n \in 1 .. L : quarantine[n].report \in Reports
  <2>1. L \in Nat /\ \A n \in 1 .. L : quarantine[n] \in HeldRow
    OBVIOUS
  <2>2. QED
    BY <2>1 DEF HeldRow
<1>2. \A n \in 1 .. L, row \in State : After(n, row, released) \in State
  BY <1>1, RowAfter DEF After
<1>3. 0 \notin Unbuilt
  <2>1. Built([n \in 0 .. 0 |-> current[k]], 0)
    OBVIOUS
  <2>2. QED
    BY <2>1
<1>4. ASSUME NEW m \in 0 .. L, m # 0, m - 1 \notin Unbuilt PROVE m \notin Unbuilt
  <2>1. m \in 1 .. L /\ m - 1 \in 0 .. L
    BY <1>1, <1>4
  <2>2. PICK g \in [0 .. m - 1 -> State] : Built(g, m - 1)
    BY <1>4, <2>1
  <2> DEFINE h == [n \in 0 .. m |-> IF n = m THEN After(m, g[m - 1], released) ELSE g[n]]
  <2>3. g[m - 1] \in State /\ \A n \in 0 .. m - 1 : g[n] \in State
    BY <1>1, <2>1, <2>2
  <2>4. h \in [0 .. m -> State]
    <3>1. \A n \in 0 .. m : n = m \/ n \in 0 .. m - 1
      BY <2>1
    <3>2. After(m, g[m - 1], released) \in State
      BY <1>2, <2>1, <2>3
    <3>3. QED
      BY <2>3, <3>1, <3>2
  <2>5. h[0] = current[k]
    BY <1>1, <2>1, <2>2
  <2>6. ASSUME NEW n \in 1 .. m PROVE h[n] = After(n, h[n - 1], released)
    <3>1. n - 1 \in 0 .. m - 1 /\ n - 1 # m /\ n \in 0 .. m /\ n - 1 \in 0 .. m
      BY <1>1, <2>1
    <3>2. h[n - 1] = g[n - 1]
      BY <3>1
    <3>3. CASE n = m
      BY <3>1, <3>2, <3>3
    <3>4. CASE n # m
      <4>1. n \in 1 .. m - 1 /\ h[n] = g[n]
        BY <1>1, <2>1, <3>1, <3>4
      <4>2. QED
        BY <2>2, <3>2, <4>1
    <3>5. QED
      BY <3>3, <3>4
  <2>7. Built(h, m)
    BY <2>4, <2>5, <2>6
  <2>8. QED
    BY <2>4, <2>7
<1>5. Unbuilt = {}
  <2>1. SUFFICES ASSUME Unbuilt # {} PROVE FALSE
    OBVIOUS
  <2>2. Unbuilt \in SUBSET Nat
    BY <1>1
  <2>3. PICK m \in Unbuilt : \A x \in Unbuilt : m <= x
    BY <2>1, <2>2, LeastNatural
  <2>4. m \in 0 .. L /\ m # 0 /\ m \in Nat
    <3>1. m \in 0 .. L
      BY <2>3
    <3>2. m # 0
      BY <1>3, <2>3
    <3>3. QED
      BY <1>1, <3>1, <3>2
  <2>5. m - 1 \notin Unbuilt
    BY <2>3, <2>4
  <2>6. QED
    BY <1>4, <2>3, <2>4, <2>5
<1>6. PICK g \in [0 .. L -> State] : Built(g, L)
  <2>1. L \in 0 .. L
    BY <1>1
  <2>2. \E g \in [0 .. L -> State] : Built(g, L)
    BY <1>5, <2>1
  <2>3. QED
    BY <2>2
<1> DEFINE Body(f) == [n \in 0 .. L |->
                        IF n = 0 THEN current[k]
                        ELSE IF n \in released THEN StateAfter(f[n - 1], quarantine[n].report, FALSE)
                        ELSE f[n - 1]]
           s == StateReleased(k, released)
<1>7. g = Body(g)
  <2>1. DOMAIN g = 0 .. L
    BY <1>6
  <2>2. ASSUME NEW n \in 0 .. L PROVE g[n] = Body(g)[n]
    <3>1. n = 0 \/ n \in 1 .. L
      BY <1>1
    <3>2. QED
      BY <1>6, <3>1 DEF After
  <2>3. QED
    BY <1>6, <2>1, <2>2
<1>8. s = CHOOSE f : f = Body(f)
  BY DEF StateReleased
<1>9. s = Body(s)
  BY <1>7, <1>8
<1> HIDE DEF s
<1>10. /\ DOMAIN s = 0 .. L /\ s[0] = current[k]
       /\ \A n \in 1 .. L : s[n] = After(n, s[n - 1], released)
  <2>1. DOMAIN s = 0 .. L
    BY <1>9
  <2>2. \A n \in 0 .. L : s[n] = IF n = 0 THEN current[k] ELSE After(n, s[n - 1], released)
    BY <1>9 DEF After
  <2>3. 0 \in 0 .. L /\ \A n \in 1 .. L : n \in 0 .. L /\ n # 0
    BY <1>1
  <2>4. QED
    BY <2>1, <2>2, <2>3
<1>11. ASSUME NEW n \in 0 .. L PROVE s[n] \in State
  <2> DEFINE Untyped == {m \in 0 .. L : s[m] \notin State}
  <2>1. SUFFICES ASSUME Untyped # {} PROVE FALSE
    BY <1>11
  <2>2. Untyped \in SUBSET Nat
    BY <1>1
  <2>3. PICK m \in Untyped : \A x \in Untyped : m <= x
    BY <2>1, <2>2, LeastNatural
  <2>4. m \in 0 .. L /\ s[m] \notin State
    BY <2>3
  <2>5. m # 0
    BY <1>10, <2>4
  <2>6. m \in 1 .. L /\ m - 1 \in 0 .. L /\ ~(m <= m - 1)
    BY <1>1, <2>4, <2>5
  <2>7. s[m - 1] \in State
    BY <2>3, <2>6
  <2>8. QED
    BY <1>2, <1>10, <2>4, <2>6, <2>7
<1>12. s \in [0 .. L -> State]
  <2>1. s = [n \in 0 .. L |-> s[n]]
    BY <1>9
  <2>2. QED
    BY <1>11, <2>1
<1>13. QED
  BY <1>10, <1>12 DEF s

-----------------------------------------------------------------------------
\* What the invariants rest on.  A source that the history tells of is known, and there is a
\* highest one.
Begun ==
    /\ \A o \in history : identity[o.report.inc].status # "none"
    /\ \E b \in Incarnations \cup {0} : \A k \in Known : k <= b

\* A record is one report: in the history, in the quarantine, or released from it into the history.
Numbered ==
    /\ \A o \in history : o.report.record <= records
    /\ \A n \in 1 .. Len(quarantine) : quarantine[n].report.record <= records
    /\ \A m, n \in 1 .. Len(quarantine) :
          quarantine[m].report.record = quarantine[n].report.record => m = n
    /\ \A o \in history, n \in 1 .. Len(quarantine) :
          o.report.record = quarantine[n].report.record => o.report = quarantine[n].report

\* The sink is behind what waits in the outbox, which is behind the clock.
Behind ==
    /\ outbox \subseteq [inc: Incarnations, at: Nat, closes: BOOLEAN, born: Nat]
    /\ now \in Nat /\ view \in [Incarnations -> Nat]
    /\ \A k \in Incarnations : view[k] <= now
    /\ \A e \in outbox : /\ e.born <= now
                         /\ \A k \in Incarnations : view[k] <= e.born

-----------------------------------------------------------------------------
\* The parts of the type.
LEMMA Parts ==
    ASSUME TypeOK
    PROVE  /\ identity \in [Incarnations -> Identity] /\ current \in [Incarnations -> State]
           /\ quarantine \in Seq(HeldRow) /\ Len(quarantine) \in Nat
           /\ \A n \in 1 .. Len(quarantine) : quarantine[n] \in HeldRow
           /\ history \subseteq Observations
           /\ epoch \in 1 .. MaxEpoch /\ epoch \in Nat /\ records \in 0 .. MaxRecords /\ records \in Nat
<1>1. MaxEpoch \in Nat /\ MaxRecords \in Nat
  BY IdentityAssumption
<1>2. identity \in [Incarnations -> Identity] /\ current \in [Incarnations -> State]
  BY DEF TypeOK, Identity, State
<1>3. quarantine \in Seq(HeldRow)
  BY DEF TypeOK, HeldRow
<1>4. Len(quarantine) \in Nat /\ \A n \in 1 .. Len(quarantine) : quarantine[n] \in HeldRow
  BY <1>3
<1>5. QED
  BY <1>1, <1>2, <1>3, <1>4 DEF TypeOK

LEMMA Whole ==
    ASSUME identity \in [Incarnations -> Identity], current \in [Incarnations -> State],
           quarantine \in Seq(HeldRow), history \subseteq Observations, epoch \in 1 .. MaxEpoch,
           records \in 0 .. MaxRecords, resync \in BOOLEAN
    PROVE  TypeOK
BY DEF TypeOK, Identity, State, HeldRow

LEMMA Reported ==
    ASSUME TypeOK, Receive, NEW k \in Incarnations, NEW at \in Times, NEW state \in States
    PROVE  /\ Received(k, at, state) \in Reports
           /\ Received(k, at, state).record = records + 1 /\ Received(k, at, state).inc = k
           /\ Received(k, at, state).at = at
           /\ records' = records + 1 /\ records' \in 0 .. MaxRecords
<1>1. records + 1 \in 1 .. MaxRecords /\ records' = records + 1
  BY Parts, IdentityAssumption DEF Receive
<1>2. Received(k, at, state) \in Reports
  BY <1>1 DEF Received, Reports
<1>3. records' \in 0 .. MaxRecords
  BY <1>1, IdentityAssumption
<1>4. QED
  BY <1>1, <1>2, <1>3 DEF Received

\* Rows of the quarantine get a resolution and keep their report.
LEMMA ResolvedRows ==
    ASSUME quarantine \in Seq(HeldRow), NEW incs, NEW resolution \in {"SUPERSEDED", "REJECTED"}
    PROVE  LET rows == Resolve(quarantine, incs, resolution)
           IN  /\ rows \in Seq(HeldRow) /\ Len(rows) = Len(quarantine)
               /\ \A n \in 1 .. Len(quarantine) :
                     /\ rows[n].report = quarantine[n].report
                     /\ rows[n].resolution = "CONTINUED" <=> quarantine[n].resolution = "CONTINUED"
<1> DEFINE L == Len(quarantine)
           row(n) == IF IsPending(quarantine[n]) /\ quarantine[n].report.inc \in incs
                       THEN [quarantine[n] EXCEPT !.resolution = resolution]
                       ELSE quarantine[n]
<1>1. L \in Nat /\ \A n \in 1 .. L : quarantine[n] \in HeldRow
  OBVIOUS
<1>2. ASSUME NEW n \in 1 .. L
      PROVE  /\ row(n) \in HeldRow /\ row(n).report = quarantine[n].report
             /\ row(n).resolution = "CONTINUED" <=> quarantine[n].resolution = "CONTINUED"
  <2>1. quarantine[n] \in HeldRow /\ resolution \in Resolutions
    BY <1>1 DEF Resolutions
  <2>2. QED
    BY <2>1 DEF HeldRow, IsPending
<1>3. Resolve(quarantine, incs, resolution) = [n \in 1 .. L |-> row(n)]
  BY DEF Resolve
<1> HIDE DEF row
<1>4. [n \in 1 .. L |-> row(n)] \in [1 .. L -> HeldRow]
  BY <1>2
<1>5. [n \in 1 .. L |-> row(n)] \in Seq(HeldRow) /\ Len([n \in 1 .. L |-> row(n)]) = L
  BY <1>1, <1>4
<1>6. QED
  BY <1>2, <1>3, <1>5

LEMMA RowsReleased ==
    ASSUME quarantine \in Seq(HeldRow), NEW released
    PROVE  /\ ReleasedRows(released) \in Seq(HeldRow)
           /\ Len(ReleasedRows(released)) = Len(quarantine)
           /\ \A n \in 1 .. Len(quarantine) :
                 /\ ReleasedRows(released)[n].report = quarantine[n].report
                 /\ ReleasedRows(released)[n].resolution = "CONTINUED"
                      <=> n \in released \/ quarantine[n].resolution = "CONTINUED"
<1> DEFINE L == Len(quarantine)
           row(n) == IF n \in released THEN [quarantine[n] EXCEPT !.resolution = "CONTINUED"]
                                       ELSE quarantine[n]
<1>1. L \in Nat /\ \A n \in 1 .. L : quarantine[n] \in HeldRow
  OBVIOUS
<1>2. ASSUME NEW n \in 1 .. L
      PROVE  /\ row(n) \in HeldRow /\ row(n).report = quarantine[n].report
             /\ row(n).resolution = "CONTINUED"
                  <=> n \in released \/ quarantine[n].resolution = "CONTINUED"
  <2>1. quarantine[n] \in HeldRow /\ "CONTINUED" \in Resolutions
    BY <1>1 DEF Resolutions
  <2>2. QED
    BY <2>1 DEF HeldRow
<1>3. ReleasedRows(released) = [n \in 1 .. L |-> row(n)]
  BY DEF ReleasedRows
<1> HIDE DEF row
<1>4. [n \in 1 .. L |-> row(n)] \in [1 .. L -> HeldRow]
  BY <1>2
<1>5. [n \in 1 .. L |-> row(n)] \in Seq(HeldRow) /\ Len([n \in 1 .. L |-> row(n)]) = L
  BY <1>1, <1>4
<1>6. QED
  BY <1>2, <1>3, <1>5

-----------------------------------------------------------------------------
\* Continue, with the set of rows it releases: the rows and the states of an operator's decision.
Continues(k, released) ==
    LET state == StateReleased(k, released)
    IN  /\ current' = [current EXCEPT ![k] = state[Len(quarantine)]]
        /\ history' = history \cup
              {Observed(state[n - 1], quarantine[n].report, FALSE) : n \in released}
        /\ quarantine' = ReleasedRows(released)

LEMMA Continuing ==
    ASSUME TypeOK, NEW k \in Incarnations, Continue(k)
    PROVE  \E released \in SUBSET PendingOf(k) : Continues(k, released)
BY DEF Continue, Continues

\* Beyond what it says of the states: they only go forward.
LEMMA ReleasedForward ==
    ASSUME TypeOK, NEW k \in Incarnations, NEW released \in SUBSET PendingOf(k)
    PROVE  LET state == StateReleased(k, released)
           IN  /\ \A n \in 0 .. Len(quarantine) :
                     /\ state[n] \in State
                     /\ state[n].at >= current[k].at
                     /\ state[n].at = current[k].at => state[n].state = current[k].state
<1> DEFINE L == Len(quarantine)
           s == StateReleased(k, released)
           Forward(n) == /\ s[n].at >= current[k].at
                         /\ s[n].at = current[k].at => s[n].state = current[k].state
           Back == {n \in 0 .. L : ~Forward(n)}
<1>1. L \in Nat /\ current[k] \in State /\ quarantine \in Seq(HeldRow)
  BY Parts
<1>2. released \in SUBSET (1 .. L)
  BY DEF PendingOf
<1>3. /\ s \in [0 .. L -> State] /\ s[0] = current[k]
      /\ \A n \in 1 .. L : s[n] = After(n, s[n - 1], released)
  BY <1>1, <1>2, StatesReleased
<1> HIDE DEF s
<1>4. \A row \in State : row.at \in Nat
  BY RowTime
<1>5. \A n \in 1 .. L : quarantine[n].report \in Reports
  <2>1. \A n \in 1 .. L : quarantine[n] \in HeldRow
    BY Parts
  <2>2. QED
    BY <2>1 DEF HeldRow
<1>6. ASSUME NEW n \in 1 .. L
      PROVE  /\ s[n].at >= s[n - 1].at
             /\ s[n].at = s[n - 1].at => s[n].state = s[n - 1].state
  <2>1. n - 1 \in 0 .. L /\ s[n - 1] \in State /\ s[n - 1].at \in Nat
    BY <1>1, <1>3, <1>4
  <2>2. CASE n \in released
    <3>1. s[n] = StateAfter(s[n - 1], quarantine[n].report, FALSE)
      BY <1>3, <2>2 DEF After
    <3>2. quarantine[n].report \in Reports /\ s[n - 1] \in State
      BY <1>5, <2>1
    <3> DEFINE next == StateAfter(s[n - 1], quarantine[n].report, FALSE)
    <3>3. next.at >= s[n - 1].at /\ (next.at = s[n - 1].at => next.state = s[n - 1].state)
      BY <3>2, RowAfter
    <3> HIDE DEF next
    <3>4. s[n] = next
      BY <3>1 DEF next
    <3>5. QED
      BY <3>3, <3>4
  <2>3. CASE n \notin released
    <3>1. s[n] = s[n - 1]
      BY <1>3, <2>3 DEF After
    <3>2. QED
      BY <2>1, <3>1
  <2>4. QED
    BY <2>2, <2>3
<1>7. Back = {}
  <2>1. SUFFICES ASSUME Back # {} PROVE FALSE
    OBVIOUS
  <2>2. Back \in SUBSET Nat
    BY <1>1
  <2>3. PICK n \in Back : \A x \in Back : n <= x
    BY <2>1, <2>2, LeastNatural
  <2>4. n \in 0 .. L /\ ~Forward(n)
    BY <2>3
  <2>5. current[k].at \in Nat
    BY <1>1, <1>4
  <2>6. n # 0
    <3>1. s[0].at >= current[k].at
      BY <1>3, <2>5
    <3>2. QED
      BY <1>3, <2>4, <3>1
  <2>7. n \in 1 .. L /\ n - 1 \in 0 .. L /\ ~(n <= n - 1)
    BY <1>1, <2>4, <2>6
  <2>8. Forward(n - 1)
    BY <2>3, <2>7
  <2>9. s[n].at \in Nat /\ s[n - 1].at \in Nat
    BY <1>3, <1>4, <2>4, <2>7
  <2>10. QED
    BY <1>6, <2>4, <2>5, <2>7, <2>8, <2>9
<1>8. QED
  BY <1>3, <1>7 DEF s

\* The tuple that is let in again.
LEMMA LetIn ==
    ASSUME TypeOK, Begun, NEW k \in Incarnations, Continue(k)
    PROVE  /\ identity'[k] \in Identity /\ identity'[k].status = "LIVE" /\ identity'[k].continued
           /\ k \in Known => identity'[k].first = identity[k].first
           /\ \A j \in Known : j <= identity'[k].scope
           /\ \A j \in Incarnations \ {k} : identity'[j] = identity[j]
<1>1. identity \in [Incarnations -> Identity] /\ epoch \in 0 .. MaxEpoch /\ Incarnations \subseteq Nat
  <2>1. epoch \in 1 .. MaxEpoch /\ epoch \in Nat /\ MaxEpoch \in Nat
    BY Parts, IdentityAssumption
  <2>2. epoch \in 0 .. MaxEpoch
    BY <2>1
  <2>3. QED
    BY <2>2, Parts, IdentityAssumption
<1> DEFINE known == Known \cup {k}
           top == Greatest(known)
           ats == {quarantine[n].report.at : n \in PendingOf(k)}
           old == IF k \in Known THEN identity[k] ELSE Admitted(Least(ats))
<1>2. top \in Incarnations /\ \A j \in Known : j <= top
  <2>1. known \in SUBSET Nat /\ known \in SUBSET Incarnations /\ known # {}
    BY <1>1 DEF Known
  <2>2. \E b \in Nat : \A j \in known : j <= b
    <3>1. PICK b \in Incarnations \cup {0} : \A j \in Known : j <= b
      BY DEF Begun
    <3>2. b \in Nat /\ k \in Nat
      BY <1>1
    <3>3. CASE k <= b
      BY <3>1, <3>2, <3>3
    <3>4. CASE ~(k <= b)
      <4>1. \A j \in known : j \in Nat
        BY <2>1
      <4>2. \A j \in known : j <= k
        BY <3>1, <3>2, <3>4, <4>1
      <4>3. QED
        BY <3>2, <4>2
    <3>5. QED
      BY <3>3, <3>4
  <2> HIDE DEF known
  <2>3. top \in known /\ \A j \in known : j <= top
    BY <2>1, <2>2, GreatestOf
  <2>4. QED
    BY <2>1, <2>3 DEF known
<1>3. Least(ats) \in Times
  <2>1. PICK n \in PendingOf(k) : TRUE
    BY DEF Continue
  <2>2. ats # {} /\ ats \in SUBSET Times
    <3>1. \A m \in PendingOf(k) : quarantine[m] \in HeldRow
      BY Parts DEF PendingOf
    <3>2. \A m \in PendingOf(k) : quarantine[m].report.at \in Times
      BY <3>1 DEF HeldRow, Reports
    <3>3. QED
      BY <2>1, <3>2
  <2>3. ats \in SUBSET Nat
    BY <2>2, IdentityAssumption
  <2> HIDE DEF ats
  <2>4. QED
    BY <2>2, <2>3, LeastOf
<1>4. old \in Identity
  <2>1. Admitted(Least(ats)) \in Identity
    <3> HIDE DEF ats
    <3>1. QED
      BY <1>1, <1>3 DEF Admitted, Unknown, Identity
  <2>2. identity[k] \in Identity
    BY <1>1
  <2>3. QED
    BY <2>1, <2>2
<1>5. identity' = [identity EXCEPT ![k] =
                      [old EXCEPT !.status = "LIVE", !.continued = TRUE, !.scope = top]]
  BY DEF Continue
<1>6. old.first = identity[k].first \/ k \notin Known
  OBVIOUS
<1> HIDE DEF old, top
<1> DEFINE new == [old EXCEPT !.status = "LIVE", !.continued = TRUE, !.scope = top]
<1>7. /\ new \in Identity /\ new.status = "LIVE" /\ new.continued /\ new.scope = top
      /\ new.first = old.first
  BY <1>2, <1>4 DEF Identity
<1> HIDE DEF new
<1>8. identity'[k] = new /\ \A j \in Incarnations \ {k} : identity'[j] = identity[j]
  BY <1>1, <1>5 DEF new
<1>9. QED
  BY <1>2, <1>6, <1>7, <1>8

-----------------------------------------------------------------------------
\* Type correctness.

\* What an accepted report does.
LEMMA Accepting ==
    ASSUME TypeOK, NEW k \in Incarnations, NEW at \in Times, NEW state \in States,
           Accept(k, at, state)
    PROVE  LET report == Received(k, at, state)
               late   == identity[k].status = "TOMBSTONED"
               seen   == Observed(current[k], report, late)
           IN  /\ current' = [current EXCEPT ![k] = StateAfter(current[k], report, late)]
               /\ StateAfter(current[k], report, late) \in State
               /\ StateAfter(current[k], report, late).at >= current[k].at
               /\ StateAfter(current[k], report, late).at = current[k].at
                     => StateAfter(current[k], report, late).state = current[k].state
               /\ seen \in Observations /\ seen.report = report /\ (late => seen.flag = "LATE")
               /\ history' = history \cup {seen}
<1> DEFINE report == Received(k, at, state)
           late   == identity[k].status = "TOMBSTONED"
           seen   == Observed(current[k], report, late)
           next   == StateAfter(current[k], report, late)
<1>1. report \in Reports /\ current[k] \in State /\ current \in [Incarnations -> State]
  BY Parts, Reported DEF Accept
<1>2. late \in BOOLEAN
  OBVIOUS
<1>3. /\ current' = [current EXCEPT ![k] = next]
      /\ history' = history \cup {seen}
  BY DEF Accept
<1>4. late => seen.flag = "LATE"
  <2>1. SUFFICES ASSUME identity[k].status = "TOMBSTONED" PROVE seen.flag = "LATE"
    OBVIOUS
  <2>2. seen.flag = FlagOf(current[k], report, late) /\ late = TRUE
    BY <2>1 DEF Observed
  <2>3. FlagOf(current[k], report, TRUE) = "LATE"
    BY DEF FlagOf
  <2>4. QED
    BY <2>2, <2>3
<1> HIDE DEF report, late
<1>5. FlagOf(current[k], report, late) \in Flags
  BY <1>1, <1>2, RowAfter
<1>6. /\ next \in State /\ next.at >= current[k].at
      /\ next.at = current[k].at => next.state = current[k].state
  BY <1>1, <1>2, RowAfter
<1>7. seen \in Observations /\ seen.report = report
  BY <1>1, <1>5 DEF Observed, Observations
<1>8. QED
  BY <1>3, <1>4, <1>6, <1>7 DEF report, late

\* A tuple that is let in is a row, new and of the channel's epoch.
LEMMA NewTuple ==
    ASSUME TypeOK, NEW at \in Times
    PROVE  /\ Admitted(at) \in Identity /\ Admitted(at).status = "LIVE"
           /\ Admitted(at).epoch = epoch
<1>1. epoch \in 0 .. MaxEpoch
  <2>1. epoch \in 1 .. MaxEpoch /\ MaxEpoch \in Nat
    BY Parts, IdentityAssumption
  <2>2. QED
    BY <2>1
<1>2. QED
  BY <1>1 DEF Admitted, Unknown, Identity

LEMMA EpochTyped ==
    ASSUME TypeOK
    PROVE  epoch \in 0 .. MaxEpoch
<1>1. epoch \in 1 .. MaxEpoch /\ MaxEpoch \in Nat
  BY Parts, IdentityAssumption
<1>2. QED
  BY <1>1

LEMMA TypeStep == TypeOK /\ Begun /\ [Next]_vars => TypeOK'
<1> SUFFICES ASSUME TypeOK, Begun, [Next]_vars PROVE TypeOK'
  OBVIOUS
<1> DEFINE Identities == identity' \in [Incarnations -> Identity]
           Currents   == current' \in [Incarnations -> State]
           Rest == /\ quarantine' \in Seq(HeldRow) /\ history' \subseteq Observations
                   /\ epoch' \in 1 .. MaxEpoch /\ records' \in 0 .. MaxRecords /\ resync' \in BOOLEAN
<1>1. /\ identity \in [Incarnations -> Identity] /\ current \in [Incarnations -> State]
      /\ quarantine \in Seq(HeldRow) /\ history \subseteq Observations
      /\ epoch \in 1 .. MaxEpoch /\ records \in 0 .. MaxRecords /\ resync \in BOOLEAN
  BY Parts DEF TypeOK
<1>2. ASSUME Identities, Currents, Rest PROVE TypeOK'
  BY <1>2 DEF TypeOK, Identity, State, HeldRow
<1>3. ASSUME NEW k \in Incarnations, NEW at \in Times, NEW state \in States, Accept(k, at, state)
      PROVE  TypeOK'
  <2>1. Currents /\ history' \subseteq Observations
    BY <1>1, <1>3, Accepting
  <2>2. Identities
    <3>1. CASE UNCHANGED identity
      BY <1>1, <3>1
    <3>2. CASE identity' = [identity EXCEPT ![k] = Admitted(at)]
      BY <1>1, <3>2, NewTuple
    <3>3. QED
      BY <1>3, <3>1, <3>2 DEF Accept
  <2>3. quarantine' \in Seq(HeldRow)
    BY <1>1, <1>3, ResolvedRows DEF Accept
  <2>4. UNCHANGED <<epoch, resync>> /\ records' \in 0 .. MaxRecords
    BY <1>3, Reported DEF Accept
  <2>5. QED
    BY <1>1, <1>2, <2>1, <2>2, <2>3, <2>4
<1>4. ASSUME NEW k \in Incarnations, NEW at \in Times, NEW state \in States, Quarantine(k, at, state)
      PROVE  TypeOK'
  <2>1. Received(k, at, state) \in Reports /\ records' \in 0 .. MaxRecords
    BY <1>4, Reported DEF Quarantine
  <2>2. [report |-> Received(k, at, state), resolution |-> "pending"] \in HeldRow
    BY <2>1 DEF HeldRow, Resolutions
  <2>3. quarantine' \in Seq(HeldRow)
    BY <1>1, <1>4, <2>2 DEF Quarantine
  <2>4. UNCHANGED <<identity, current, history, epoch, resync>>
    BY <1>4 DEF Quarantine
  <2>5. QED
    BY <1>1, <1>2, <2>1, <2>3, <2>4
<1>5. ASSUME Receive PROVE records' \in 0 .. MaxRecords
  BY <1>1, <1>5, IdentityAssumption DEF Receive
<1>6. ASSUME NEW k \in Incarnations, NEW at \in Times, Drop(k, at) PROVE TypeOK'
  <2> DEFINE row == IF k \in Known
                      THEN [identity[k] EXCEPT !.status = "TOMBSTONED", !.tombstone = at]
                      ELSE [Unknown EXCEPT !.status = "TOMBSTONED", !.epoch = epoch,
                                           !.tombstone = at]
             now_ == [current[k] EXCEPT !.contribution = IF current[k].contribution = "ACTIVE"
                                                           THEN "CLOSED"
                                                           ELSE current[k].contribution]
  <2>1. identity[k] \in Identity /\ current[k] \in State
    BY <1>1
  <2>2. [identity[k] EXCEPT !.status = "TOMBSTONED", !.tombstone = at] \in Identity
    BY <2>1 DEF Identity
  <2>3. [Unknown EXCEPT !.status = "TOMBSTONED", !.epoch = epoch, !.tombstone = at] \in Identity
    BY EpochTyped DEF Identity, Unknown
  <2>4. row \in Identity
    BY <2>2, <2>3
  <2>5. now_ \in State
    BY <2>1 DEF State
  <2>6. identity' = [identity EXCEPT ![k] = row]
    BY <1>6 DEF Drop
  <2>7. current' = [current EXCEPT ![k] = now_]
    BY <1>1, <1>6 DEF Drop
  <2> HIDE DEF row, now_
  <2>8. Identities /\ Currents
    BY <1>1, <2>4, <2>5, <2>6, <2>7
  <2>9. UNCHANGED <<history, quarantine, epoch, resync>> /\ records' \in 0 .. MaxRecords
    BY <1>5, <1>6 DEF Drop
  <2>10. QED
    BY <1>1, <1>2, <2>8, <2>9
<1>7. ASSUME NEW k \in Incarnations, NEW at \in Times, Contradiction(k, at) PROVE TypeOK'
  BY <1>1, <1>2, <1>5, <1>7 DEF Contradiction
<1>8. ASSUME NEW old \in Incarnations, NEW new \in Incarnations, NEW at \in Times, Rekey(old, new, at)
      PROVE  TypeOK'
  <2>1. Identities
    <3>1. CASE UNCHANGED identity
      BY <1>1, <3>1
    <3>2. CASE identity' = [identity EXCEPT ![new] = Admitted(at)]
      BY <1>1, <3>2, NewTuple
    <3>3. QED
      BY <1>8, <3>1, <3>2 DEF Rekey
  <2>2. UNCHANGED <<current, history, quarantine, epoch, resync>> /\ records' \in 0 .. MaxRecords
    BY <1>5, <1>8 DEF Rekey
  <2>3. QED
    BY <1>1, <1>2, <2>1, <2>2
<1>9. CASE ResetScope
  <2>1. epoch' \in 1 .. MaxEpoch
    BY <1>1, <1>9, IdentityAssumption DEF ResetScope
  <2>2. /\ UNCHANGED <<identity, current, history, quarantine>> /\ resync' = TRUE
        /\ records' \in 0 .. MaxRecords
    BY <1>5, <1>9 DEF ResetScope
  <2>3. QED
    BY <1>1, <1>2, <2>1, <2>2
<1>10. CASE Keep
  <2>1. ASSUME NEW k \in Incarnations
        PROVE  (IF k \in Known /\ identity[k].epoch < epoch
                  THEN [identity[k] EXCEPT !.epoch = epoch] ELSE identity[k]) \in Identity
    <3>1. identity[k] \in Identity
      BY <1>1
    <3>2. QED
      BY <3>1, EpochTyped DEF Identity
  <2>2. Identities
    BY <1>10, <2>1 DEF Keep
  <2>3. UNCHANGED <<current, history, quarantine, epoch, records>> /\ resync' = FALSE
    BY <1>10 DEF Keep
  <2>4. QED
    BY <1>1, <1>2, <2>2, <2>3
<1>11. CASE Advance
  <2>1. ASSUME NEW k \in Incarnations
        PROVE  (IF OfClosedEpoch(k) THEN [identity[k] EXCEPT !.status = "RESET"]
                                    ELSE identity[k]) \in Identity
    <3>1. identity[k] \in Identity
      BY <1>1
    <3>2. QED
      BY <3>1 DEF Identity
  <2>2. Identities
    BY <1>11, <2>1 DEF Advance
  <2>3. UNCHANGED <<current, history, quarantine, epoch, records>> /\ resync' = FALSE
    BY <1>11 DEF Advance
  <2>4. QED
    BY <1>1, <1>2, <2>2, <2>3
<1>12. ASSUME NEW k \in Incarnations, Continue(k) PROVE TypeOK'
  <2>1. PICK released \in SUBSET PendingOf(k) : Continues(k, released)
    BY <1>12, Continuing
  <2> DEFINE s == StateReleased(k, released)
             L == Len(quarantine)
  <2>2. \A n \in 0 .. L : s[n] \in State
    BY <2>1, ReleasedForward
  <2>3. Currents
    <3>1. L \in 0 .. L
      BY Parts
    <3>2. current' = [current EXCEPT ![k] = s[L]]
      BY <2>1 DEF Continues
    <3> HIDE DEF s
    <3>3. QED
      BY <1>1, <2>2, <3>1, <3>2
  <2>4. ASSUME NEW n \in released
        PROVE  Observed(s[n - 1], quarantine[n].report, FALSE) \in Observations
    <3>1. n \in 1 .. L /\ L \in Nat
      BY Parts DEF PendingOf
    <3>2. quarantine[n].report \in Reports /\ n - 1 \in 0 .. L
      BY <3>1, Parts DEF HeldRow
    <3>3. s[n - 1] \in State
      BY <2>2, <3>2
    <3> HIDE DEF s
    <3>4. FlagOf(s[n - 1], quarantine[n].report, FALSE) \in Flags
      BY <3>2, <3>3, RowAfter
    <3>5. QED
      BY <3>2, <3>4 DEF Observed, Observations
  <2>5. history' \subseteq Observations
    <3>1. history' = history \cup {Observed(s[n - 1], quarantine[n].report, FALSE) : n \in released}
      BY <2>1 DEF Continues
    <3> HIDE DEF s
    <3>2. QED
      BY <1>1, <2>4, <3>1
  <2>6. quarantine' \in Seq(HeldRow)
    BY <1>1, <2>1, RowsReleased DEF Continues
  <2>7. Identities
    <3>1. \A j \in Incarnations : identity'[j] \in Identity
      BY <1>1, <1>12, LetIn
    <3>2. identity' = [j \in Incarnations |-> identity'[j]]
      BY <1>1, <1>12 DEF Continue
    <3>3. QED
      BY <3>1, <3>2
  <2>8. UNCHANGED <<epoch, resync, records>>
    BY <1>12 DEF Continue
  <2>9. QED
    BY <1>1, <1>2, <2>3, <2>5, <2>6, <2>7, <2>8
<1>13. ASSUME NEW k \in Incarnations, Reject(k) PROVE TypeOK'
  <2>1. quarantine' \in Seq(HeldRow)
    BY <1>1, <1>13, ResolvedRows DEF Reject
  <2>2. UNCHANGED <<identity, current, history, epoch, resync, records>>
    BY <1>13 DEF Reject
  <2>3. QED
    BY <1>1, <1>2, <2>1, <2>2
<1>14. CASE UNCHANGED vars
  BY <1>1, <1>2, <1>14 DEF vars
<1>15. QED
  BY <1>3, <1>4, <1>6, <1>7, <1>8, <1>9, <1>10, <1>11, <1>12, <1>13, <1>14 DEF Next, Record, Command

\* What a step does to the tuples: those that are known stay so, with their beginning and with what
\* an operator continued them in the knowledge of, and one becomes known at most.
TuplesStay ==
    \A k \in Known :
       /\ identity'[k].status # "none" /\ identity'[k].first = identity[k].first
       /\ identity[k].continued =>
             /\ identity'[k].continued
             /\ \A j \in Known : j <= identity[k].scope => j <= identity'[k].scope

OneKnown == \E k \in Nat : \A j \in Incarnations \ {k} :
               identity'[j].status # "none" => j \in Known

LEMMA TupleSteps == TypeOK /\ Begun /\ [Next]_vars => TuplesStay /\ OneKnown
<1> SUFFICES ASSUME TypeOK, Begun, [Next]_vars PROVE TuplesStay /\ OneKnown
  OBVIOUS
<1>1. identity \in [Incarnations -> Identity] /\ Incarnations \subseteq Nat
  BY Parts, IdentityAssumption
<1>2. 0 \in Nat
  OBVIOUS
<1>3. CASE UNCHANGED identity
  BY <1>2, <1>3 DEF TuplesStay, OneKnown, Known
<1>4. ASSUME NEW k \in Incarnations, NEW row, identity' = [identity EXCEPT ![k] = row],
             k \in Known => row.status # "none" /\ row.first = identity[k].first
                            /\ row.continued = identity[k].continued
                            /\ row.scope = identity[k].scope
      PROVE  TuplesStay /\ OneKnown
  <2>1. identity'[k] = row /\ \A j \in Incarnations \ {k} : identity'[j] = identity[j]
    BY <1>1, <1>4
  <2>2. OneKnown
    BY <1>1, <2>1 DEF OneKnown, Known
  <2>3. ASSUME NEW j \in Known
        PROVE  /\ identity'[j].status # "none" /\ identity'[j].first = identity[j].first
               /\ identity'[j].continued = identity[j].continued
               /\ identity'[j].scope = identity[j].scope
    BY <1>4, <2>1 DEF Known
  <2>4. QED
    BY <2>2, <2>3 DEF TuplesStay
<1>5. ASSUME NEW k \in Incarnations, NEW at \in Times, NEW state \in States, Accept(k, at, state)
      PROVE  TuplesStay /\ OneKnown
  <2>1. CASE UNCHANGED identity
    BY <1>3, <2>1
  <2>2. CASE k \notin Known /\ identity' = [identity EXCEPT ![k] = Admitted(at)]
    BY <1>4, <2>2
  <2>3. QED
    BY <1>5, <2>1, <2>2 DEF Accept
<1>6. ASSUME NEW k \in Incarnations, NEW at \in Times, Drop(k, at) PROVE TuplesStay /\ OneKnown
  <2> DEFINE row == IF k \in Known
                      THEN [identity[k] EXCEPT !.status = "TOMBSTONED", !.tombstone = at]
                      ELSE [Unknown EXCEPT !.status = "TOMBSTONED", !.epoch = epoch,
                                           !.tombstone = at]
  <2>1. identity' = [identity EXCEPT ![k] = row]
    BY <1>6 DEF Drop
  <2>2. ASSUME k \in Known
        PROVE  /\ row.status # "none" /\ row.first = identity[k].first
               /\ row.continued = identity[k].continued /\ row.scope = identity[k].scope
    <3>1. identity[k] \in Identity /\ row = [identity[k] EXCEPT !.status = "TOMBSTONED", !.tombstone = at]
      BY <1>1, <2>2
    <3>2. QED
      BY <3>1 DEF Identity
  <2> HIDE DEF row
  <2>3. QED
    BY <1>4, <2>1, <2>2
<1>7. ASSUME NEW old \in Incarnations, NEW new \in Incarnations, NEW at \in Times, Rekey(old, new, at)
      PROVE  TuplesStay /\ OneKnown
  <2>1. CASE UNCHANGED identity
    BY <1>3, <2>1
  <2>2. CASE new \notin Known /\ identity' = [identity EXCEPT ![new] = Admitted(at)]
    BY <1>4, <2>2
  <2>3. QED
    BY <1>7, <2>1, <2>2 DEF Rekey
<1>8. CASE Keep \/ Advance
  <2>1. ASSUME NEW k \in Incarnations
        PROVE  /\ identity'[k].status # "none" <=> k \in Known
               /\ identity'[k].first = identity[k].first
               /\ identity'[k].continued = identity[k].continued
               /\ identity'[k].scope = identity[k].scope
    <3>1. identity[k] \in Identity
      BY <1>1
    <3>2. CASE Keep
      <4>1. identity'[k] = IF k \in Known /\ identity[k].epoch < epoch
                             THEN [identity[k] EXCEPT !.epoch = epoch] ELSE identity[k]
        BY <3>2 DEF Keep
      <4>2. QED
        BY <3>1, <4>1 DEF Identity, Known
    <3>3. CASE Advance
      <4>1. identity'[k] = IF OfClosedEpoch(k) THEN [identity[k] EXCEPT !.status = "RESET"]
                                               ELSE identity[k]
        BY <3>3 DEF Advance
      <4>2. QED
        BY <3>1, <4>1 DEF Identity, Known, OfClosedEpoch, Live
    <3>4. QED
      BY <1>8, <3>2, <3>3
  <2>2. TuplesStay
    BY <2>1 DEF TuplesStay, Known
  <2>3. OneKnown
    BY <1>2, <2>1 DEF OneKnown
  <2>4. QED
    BY <2>2, <2>3
<1>9. ASSUME NEW k \in Incarnations, Continue(k) PROVE TuplesStay /\ OneKnown
  <2>1. /\ identity'[k] \in Identity /\ identity'[k].status = "LIVE" /\ identity'[k].continued
        /\ k \in Known => identity'[k].first = identity[k].first
        /\ \A j \in Known : j <= identity'[k].scope
        /\ \A j \in Incarnations \ {k} : identity'[j] = identity[j]
    BY <1>9, LetIn
  <2>2. OneKnown
    BY <1>1, <2>1 DEF OneKnown, Known
  <2>3. TuplesStay
    <3>1. ASSUME NEW j \in Known, j # k PROVE identity'[j] = identity[j] /\ j \in Incarnations
      BY <2>1, <3>1 DEF Known
    <3>2. QED
      BY <2>1, <3>1 DEF TuplesStay, Known
  <2>4. QED
    BY <2>2, <2>3
<1>10. ASSUME NEW k \in Incarnations, NEW at \in Times, NEW state \in States,
              Quarantine(k, at, state)
       PROVE  TuplesStay /\ OneKnown
  BY <1>3, <1>10 DEF Quarantine
<1>11. ASSUME NEW k \in Incarnations, NEW at \in Times, Contradiction(k, at) PROVE TuplesStay /\ OneKnown
  BY <1>3, <1>11 DEF Contradiction
<1>12. ASSUME NEW k \in Incarnations, Reject(k) PROVE TuplesStay /\ OneKnown
  BY <1>3, <1>12 DEF Reject
<1>13. CASE ResetScope \/ UNCHANGED vars
  BY <1>3, <1>13 DEF ResetScope, vars
<1>14. QED
  BY <1>5, <1>6, <1>7, <1>8, <1>9, <1>10, <1>11, <1>12, <1>13 DEF Next, Record, Command

\* What enters the history is the report that came, or one released from the quarantine.
LEMMA Entered ==
    ASSUME TypeOK, NEW k \in Incarnations, NEW at \in Times, NEW state \in States,
           Accept(k, at, state)
    PROVE  \E seen \in Observations :
              /\ history' = history \cup {seen}
              /\ seen.report.record = records + 1 /\ seen.report.inc = k /\ seen.report.at = at
              /\ identity[k].status = "TOMBSTONED" => seen.flag = "LATE"
<1> DEFINE report == Received(k, at, state)
           seen   == Observed(current[k], report, identity[k].status = "TOMBSTONED")
<1>1. /\ seen \in Observations /\ seen.report = report
      /\ identity[k].status = "TOMBSTONED" => seen.flag = "LATE"
      /\ history' = history \cup {seen}
  BY Accepting
<1>2. report.record = records + 1 /\ report.inc = k /\ report.at = at
  BY Reported DEF Accept
<1> HIDE DEF seen, report
<1>3. QED
  BY <1>1, <1>2

LEMMA Released ==
    ASSUME TypeOK, NEW k \in Incarnations, NEW released \in SUBSET PendingOf(k),
           Continues(k, released)
    PROVE  /\ quarantine' \in Seq(HeldRow) /\ Len(quarantine') = Len(quarantine)
           /\ \A n \in 1 .. Len(quarantine) :
                 /\ quarantine'[n].report = quarantine[n].report
                 /\ quarantine'[n].resolution = "CONTINUED"
                      <=> n \in released \/ quarantine[n].resolution = "CONTINUED"
           /\ \A n \in released : /\ n \in 1 .. Len(quarantine)
                                  /\ quarantine[n].resolution = "pending"
                                  /\ quarantine[n].report.inc = k
           /\ \E seen \in [released -> Observations] :
                 /\ \A n \in released : seen[n].report = quarantine[n].report
                 /\ history' = history \cup {seen[n] : n \in released}
<1> DEFINE s == StateReleased(k, released)
           L == Len(quarantine)
           seen == [n \in released |-> Observed(s[n - 1], quarantine[n].report, FALSE)]
<1>1. quarantine \in Seq(HeldRow) /\ L \in Nat /\ quarantine' = ReleasedRows(released)
  BY Parts DEF Continues
<1>2. \A n \in released : /\ n \in 1 .. L /\ quarantine[n].resolution = "pending"
                          /\ quarantine[n].report.inc = k
  BY DEF PendingOf, IsPending
<1>3. \A n \in 0 .. L : s[n] \in State
  BY ReleasedForward
<1>4. history' = history \cup {Observed(s[n - 1], quarantine[n].report, FALSE) : n \in released}
  BY DEF Continues
<1> HIDE DEF s
<1>5. ASSUME NEW n \in released
      PROVE  /\ Observed(s[n - 1], quarantine[n].report, FALSE) \in Observations
             /\ Observed(s[n - 1], quarantine[n].report, FALSE).report = quarantine[n].report
  <2>1. n \in 1 .. L /\ quarantine[n] \in HeldRow
    BY <1>1, <1>2
  <2>2. quarantine[n].report \in Reports /\ n - 1 \in 0 .. L
    BY <1>1, <2>1 DEF HeldRow
  <2>3. s[n - 1] \in State
    BY <1>3, <2>2
  <2>4. FlagOf(s[n - 1], quarantine[n].report, FALSE) \in Flags
    BY <2>2, <2>3, RowAfter
  <2>5. QED
    BY <2>2, <2>4 DEF Observed, Observations
<1>6. /\ seen \in [released -> Observations]
      /\ \A n \in released : seen[n].report = quarantine[n].report
      /\ history' = history \cup {seen[n] : n \in released}
  BY <1>4, <1>5
<1> HIDE DEF seen
<1>7. \E f \in [released -> Observations] :
         /\ \A n \in released : f[n].report = quarantine[n].report
         /\ history' = history \cup {f[n] : n \in released}
  BY <1>6
<1>8. QED
  BY <1>1, <1>2, <1>7, RowsReleased

LEMMA BegunStep == TypeOK /\ Begun /\ [Next]_vars => Begun'
<1> SUFFICES ASSUME TypeOK, Begun, [Next]_vars PROVE Begun'
  OBVIOUS
<1>1. TuplesStay /\ OneKnown
  BY TupleSteps
<1>2. ASSUME NEW o \in history PROVE identity'[o.report.inc].status # "none"
  <2>1. o.report.inc \in Known
    BY Parts DEF Begun, Known, Observations, Reports
  <2>2. QED
    BY <1>1, <2>1 DEF TuplesStay
<1>3. (\E b \in Incarnations \cup {0} : \A k \in Known : k <= b)'
  <2>1. PICK b \in Incarnations \cup {0} : \A k \in Known : k <= b
    BY DEF Begun
  <2>2. PICK c \in Nat : \A j \in Incarnations \ {c} : identity'[j].status # "none" => j \in Known
    BY <1>1 DEF OneKnown
  <2>3. Incarnations \subseteq Nat /\ b \in Nat /\ c \in Nat
    BY IdentityAssumption
  <2>4. \A j \in Known' : j \in Known \/ j = c
    BY <2>2 DEF Known
  <2>5. CASE c \in Known' /\ c > b
    <3>1. c \in Incarnations
      BY <2>5 DEF Known
    <3>2. \A j \in Known' : j <= c
      BY <2>1, <2>3, <2>4, <2>5
    <3>3. QED
      BY <3>1, <3>2
  <2>6. CASE ~(c \in Known' /\ c > b)
    <3>1. \A j \in Known' : j <= b
      BY <2>1, <2>3, <2>4, <2>6
    <3>2. QED
      BY <3>1
  <2>7. QED
    BY <2>5, <2>6
<1>4. ASSUME history' = history PROVE Begun'
  BY <1>2, <1>3, <1>4 DEF Begun
<1>5. ASSUME NEW k \in Incarnations, NEW at \in Times, NEW state \in States, Accept(k, at, state)
      PROVE  Begun'
  <2>1. PICK seen \in Observations : history' = history \cup {seen} /\ seen.report.inc = k
    BY <1>5, Entered
  <2>2. identity'[k].status # "none"
    <3>1. CASE k \in Known
      BY <1>1, <3>1 DEF TuplesStay
    <3>2. CASE identity' = [identity EXCEPT ![k] = Admitted(at)]
      BY <3>2, NewTuple, Parts
    <3>3. QED
      BY <1>5, <3>1, <3>2 DEF Accept
  <2>3. QED
    BY <1>2, <1>3, <2>1, <2>2 DEF Begun
<1>6. ASSUME NEW k \in Incarnations, Continue(k) PROVE Begun'
  <2>1. PICK released \in SUBSET PendingOf(k) : Continues(k, released)
    BY <1>6, Continuing
  <2>2. \A o \in history' : o \in history \/ o.report.inc = k
    BY <2>1, Released
  <2>3. identity'[k].status # "none"
    BY <1>6, LetIn
  <2>4. QED
    BY <1>2, <1>3, <2>2, <2>3 DEF Begun
<1>7. ASSUME NEW k \in Incarnations, NEW at \in Times, NEW state \in States,
             Quarantine(k, at, state)
      PROVE  Begun'
  BY <1>4, <1>7 DEF Quarantine
<1>8. ASSUME NEW k \in Incarnations, NEW at \in Times,
             Drop(k, at) \/ Contradiction(k, at) \/ \E old \in Incarnations : Rekey(old, k, at)
      PROVE  Begun'
  BY <1>4, <1>8 DEF Drop, Contradiction, Rekey
<1>9. ASSUME NEW k \in Incarnations, Reject(k) PROVE Begun'
  BY <1>4, <1>9 DEF Reject
<1>10. CASE ResetScope \/ Keep \/ Advance \/ UNCHANGED vars
  BY <1>4, <1>10 DEF ResetScope, Keep, Advance, vars
<1>11. QED
  BY <1>5, <1>6, <1>7, <1>8, <1>9, <1>10 DEF Next, Record, Command

LEMMA Typed == Spec => [](TypeOK /\ Begun)
<1>1. Init => TypeOK /\ Begun
  <2> SUFFICES ASSUME Init PROVE TypeOK /\ Begun
    OBVIOUS
  <2>1. Unknown \in Identity /\ NoState \in State
    BY IdentityAssumption DEF Unknown, NoState, Identity, State
  <2>2. identity \in [Incarnations -> Identity] /\ current \in [Incarnations -> State]
    BY <2>1 DEF Init
  <2>3. 1 \in 1 .. MaxEpoch /\ 0 \in 0 .. MaxRecords
    BY IdentityAssumption
  <2>4. quarantine \in Seq(HeldRow)
    BY DEF Init
  <2>5. TypeOK
    BY <2>2, <2>3, <2>4, Whole DEF Init
  <2>6. Known = {} /\ history = {}
    BY DEF Init, Known, Unknown
  <2>7. Begun
    BY <2>6 DEF Begun
  <2>8. QED
    BY <2>5, <2>7
<1>2. QED
  BY <1>1, TypeStep, BegunStep, PTL DEF Spec

\* Every reachable state is well typed, for any incarnations, times, states, caps and epochs.
THEOREM IdentityTypeCorrect == Spec => []TypeOK
BY Typed, PTL

-----------------------------------------------------------------------------
\* Each report once.

\* What a step does to the history and to the quarantine.
RowsStay ==
    /\ Len(quarantine') = Len(quarantine)
    /\ \A n \in 1 .. Len(quarantine) :
          /\ quarantine'[n].report = quarantine[n].report
          /\ quarantine'[n].resolution = "CONTINUED" <=> quarantine[n].resolution = "CONTINUED"

NothingEnters == RowsStay /\ history' = history /\ records' \in {records, records + 1}

ReportEnters ==
    /\ RowsStay /\ records' = records + 1
    /\ \E seen \in Observations :
          history' = history \cup {seen} /\ seen.report.record = records + 1

RowEnters ==
    /\ history' = history /\ records' = records + 1
    /\ \E row \in HeldRow : /\ quarantine' = Append(quarantine, row)
                            /\ row.report.record = records + 1 /\ row.resolution = "pending"

RowsEnter ==
    /\ records' = records /\ Len(quarantine') = Len(quarantine)
    /\ \E released \in SUBSET (1 .. Len(quarantine)) :
          /\ \E seen \in [released -> Observations] :
                /\ history' = history \cup {seen[n] : n \in released}
                /\ \A n \in released : seen[n].report = quarantine[n].report
          /\ \A n \in released : quarantine[n].resolution = "pending"
          /\ \A n \in 1 .. Len(quarantine) :
                /\ quarantine'[n].report = quarantine[n].report
                /\ quarantine'[n].resolution = "CONTINUED"
                     <=> n \in released \/ quarantine[n].resolution = "CONTINUED"

LEMMA Entering ==
    TypeOK /\ Begun /\ [Next]_vars => NothingEnters \/ ReportEnters \/ RowEnters \/ RowsEnter
<1> SUFFICES ASSUME TypeOK, Begun, [Next]_vars
             PROVE  NothingEnters \/ ReportEnters \/ RowEnters \/ RowsEnter
  OBVIOUS
<1>1. quarantine \in Seq(HeldRow)
  BY Parts
<1>2. ASSUME NEW incs, NEW resolution \in {"SUPERSEDED", "REJECTED"},
             quarantine' = Resolve(quarantine, incs, resolution)
      PROVE  RowsStay
  BY <1>1, <1>2, ResolvedRows DEF RowsStay
<1>3. UNCHANGED quarantine => RowsStay
  BY DEF RowsStay
<1>4. ASSUME NEW k \in Incarnations, NEW at \in Times, NEW state \in States, Accept(k, at, state)
      PROVE  ReportEnters
  <2>1. RowsStay
    BY <1>2, <1>3, <1>4 DEF Accept
  <2>2. \E seen \in Observations : history' = history \cup {seen} /\ seen.report.record = records + 1
    BY <1>4, Entered
  <2>3. QED
    BY <1>4, <2>1, <2>2 DEF ReportEnters, Accept, Receive
<1>5. ASSUME NEW k \in Incarnations, NEW at \in Times, NEW state \in States, Quarantine(k, at, state)
      PROVE  RowEnters
  <2> DEFINE row == [report |-> Received(k, at, state), resolution |-> "pending"]
  <2>1. row \in HeldRow /\ row.report.record = records + 1 /\ row.resolution = "pending"
    BY <1>5, Reported DEF Quarantine, HeldRow, Resolutions
  <2>2. quarantine' = Append(quarantine, row) /\ history' = history /\ records' = records + 1
    BY <1>5 DEF Quarantine, Receive
  <2> HIDE DEF row
  <2>3. QED
    BY <2>1, <2>2 DEF RowEnters
<1>6. ASSUME NEW k \in Incarnations, NEW at \in Times,
             Drop(k, at) \/ Contradiction(k, at) \/ \E old \in Incarnations : Rekey(old, k, at)
      PROVE  NothingEnters
  <2>1. UNCHANGED <<history, quarantine>> /\ records' = records + 1
    BY <1>6 DEF Drop, Contradiction, Rekey, Receive
  <2>2. QED
    BY <1>3, <2>1 DEF NothingEnters
<1>7. CASE ResetScope \/ Keep \/ Advance \/ UNCHANGED vars
  <2>1. UNCHANGED <<history, quarantine>> /\ records' \in {records, records + 1}
    BY <1>7 DEF ResetScope, Keep, Advance, vars, Receive
  <2>2. QED
    BY <1>3, <2>1 DEF NothingEnters
<1>8. ASSUME NEW k \in Incarnations, Reject(k) PROVE NothingEnters
  BY <1>2, <1>8 DEF NothingEnters, Reject
<1>9. ASSUME NEW k \in Incarnations, Continue(k) PROVE RowsEnter
  <2>1. PICK released \in SUBSET PendingOf(k) : Continues(k, released)
    BY <1>9, Continuing
  <2> DEFINE L == Len(quarantine)
  <2>2. /\ Len(quarantine') = L
        /\ \A n \in 1 .. L : /\ quarantine'[n].report = quarantine[n].report
                             /\ quarantine'[n].resolution = "CONTINUED"
                                  <=> n \in released \/ quarantine[n].resolution = "CONTINUED"
        /\ \A n \in released : n \in 1 .. L /\ quarantine[n].resolution = "pending"
    BY <2>1, Released
  <2>3. PICK seen \in [released -> Observations] :
           /\ \A n \in released : seen[n].report = quarantine[n].report
           /\ history' = history \cup {seen[n] : n \in released}
    BY <2>1, Released
  <2>4. records' = records /\ released \in SUBSET (1 .. L)
    BY <1>9, <2>2 DEF Continue
  <2>5. QED
    BY <2>2, <2>3, <2>4 DEF RowsEnter
<1>10. QED
  BY <1>4, <1>5, <1>6, <1>7, <1>8, <1>9 DEF Next, Record, Command

\* A report that comes has a number that none has, and one that is released had waited under its own.
LEMMA OnceStep == TypeOK /\ Begun /\ Numbered /\ AcceptedOnce /\ [Next]_vars => (Numbered /\ AcceptedOnce)'
<1> SUFFICES ASSUME TypeOK, Begun, Numbered, AcceptedOnce, [Next]_vars
             PROVE  Numbered' /\ AcceptedOnce'
  OBVIOUS
<1> DEFINE L == Len(quarantine)
<1>1. /\ records \in Nat /\ L \in Nat /\ quarantine \in Seq(HeldRow)
      /\ \A o \in history : o.report.record \in Nat
      /\ \A n \in 1 .. L : quarantine[n].report.record \in Nat
  <2>1. \A report \in Reports : report.record \in Nat
    BY IdentityAssumption DEF Reports
  <2>2. \A o \in history : o.report \in Reports
    BY Parts DEF Observations
  <2>3. \A n \in 1 .. L : quarantine[n].report \in Reports
    BY Parts DEF HeldRow
  <2>4. QED
    BY <2>1, <2>2, <2>3, Parts
<1>2. CASE NothingEnters
  <2>1. history' = history /\ records <= records' /\ records' \in Nat /\ Len(quarantine') = L
    BY <1>1, <1>2 DEF NothingEnters, RowsStay
  <2>2. \A n \in 1 .. L : quarantine'[n].report = quarantine[n].report
    BY <1>2 DEF NothingEnters, RowsStay
  <2>3. /\ \A o \in history : o.report.record <= records'
        /\ \A n \in 1 .. L : quarantine[n].report.record <= records'
    BY <1>1, <2>1 DEF Numbered
  <2>4. Numbered'
    BY <2>1, <2>2, <2>3 DEF Numbered
  <2>5. AcceptedOnce'
    BY <1>2 DEF NothingEnters, RowsStay, AcceptedOnce
  <2>6. QED
    BY <2>4, <2>5
<1>3. CASE ReportEnters
  <2>1. PICK seen \in Observations :
           history' = history \cup {seen} /\ seen.report.record = records + 1
    BY <1>3 DEF ReportEnters
  <2>2. RowsStay /\ records' = records + 1
    BY <1>3 DEF ReportEnters
  <2>3. /\ \A o \in history : o.report.record # seen.report.record
        /\ \A n \in 1 .. L : quarantine[n].report.record # seen.report.record
    BY <1>1, <2>1 DEF Numbered
  <2>4. Numbered'
    <3>1. \A o \in history' : o.report.record <= records'
      BY <1>1, <2>1, <2>2 DEF Numbered
    <3>2. \A n \in 1 .. Len(quarantine') : quarantine'[n].report.record <= records'
      BY <1>1, <2>2 DEF Numbered, RowsStay
    <3>3. \A m, n \in 1 .. Len(quarantine') :
             quarantine'[m].report.record = quarantine'[n].report.record => m = n
      BY <2>2 DEF Numbered, RowsStay
    <3>4. \A o \in history', n \in 1 .. Len(quarantine') :
             o.report.record = quarantine'[n].report.record => o.report = quarantine'[n].report
      BY <2>1, <2>2, <2>3 DEF Numbered, RowsStay
    <3>5. QED
      BY <3>1, <3>2, <3>3, <3>4 DEF Numbered
  <2>5. \A o, p \in history' : o.report.record = p.report.record => o = p
    BY <2>1, <2>3 DEF AcceptedOnce
  <2>6. ASSUME NEW n \in 1 .. Len(quarantine')
        PROVE  (\E o \in history' : o.report = quarantine'[n].report)
                  <=> quarantine'[n].resolution = "CONTINUED"
    <3>1. /\ n \in 1 .. L /\ quarantine'[n].report = quarantine[n].report
          /\ quarantine'[n].resolution = "CONTINUED" <=> quarantine[n].resolution = "CONTINUED"
      BY <2>2 DEF RowsStay
    <3>2. (\E o \in history' : o.report = quarantine[n].report)
             <=> \E o \in history : o.report = quarantine[n].report
      BY <2>1, <2>3, <3>1
    <3>3. QED
      BY <3>1, <3>2 DEF AcceptedOnce
  <2>7. QED
    BY <2>4, <2>5, <2>6 DEF AcceptedOnce
<1>4. CASE RowEnters
  <2>1. PICK row \in HeldRow : /\ quarantine' = Append(quarantine, row)
                               /\ row.report.record = records + 1 /\ row.resolution = "pending"
    BY <1>4 DEF RowEnters
  <2>2. history' = history /\ records' = records + 1
    BY <1>4 DEF RowEnters
  <2>3. /\ Len(quarantine') = L + 1 /\ quarantine'[L + 1] = row
        /\ \A n \in 1 .. L : quarantine'[n] = quarantine[n]
    BY <1>1, <2>1
  <2>4. \A n \in 1 .. Len(quarantine') : n = L + 1 \/ n \in 1 .. L
    BY <1>1, <2>3
  <2>5. /\ \A o \in history : o.report.record # row.report.record
        /\ \A n \in 1 .. L : quarantine[n].report.record # row.report.record
    BY <1>1, <2>1 DEF Numbered
  <2>6. Numbered'
    <3>1. \A o \in history' : o.report.record <= records'
      BY <1>1, <2>2 DEF Numbered
    <3>2. ASSUME NEW n \in 1 .. Len(quarantine') PROVE quarantine'[n].report.record <= records'
      BY <1>1, <2>1, <2>2, <2>3, <2>4 DEF Numbered
    <3>3. ASSUME NEW m \in 1 .. Len(quarantine'), NEW n \in 1 .. Len(quarantine'),
                 quarantine'[m].report.record = quarantine'[n].report.record
          PROVE  m = n
      BY <2>3, <2>4, <2>5, <3>3 DEF Numbered
    <3>4. ASSUME NEW o \in history', NEW n \in 1 .. Len(quarantine'),
                 o.report.record = quarantine'[n].report.record
          PROVE  o.report = quarantine'[n].report
      BY <2>2, <2>3, <2>4, <2>5, <3>4 DEF Numbered
    <3>5. QED
      BY <3>1, <3>2, <3>3, <3>4 DEF Numbered
  <2>7. ASSUME NEW n \in 1 .. Len(quarantine')
        PROVE  (\E o \in history' : o.report = quarantine'[n].report)
                  <=> quarantine'[n].resolution = "CONTINUED"
    <3>1. CASE n = L + 1
      BY <2>1, <2>2, <2>3, <2>5, <3>1
    <3>2. CASE n \in 1 .. L
      BY <2>2, <2>3, <3>2 DEF AcceptedOnce
    <3>3. QED
      BY <2>4, <3>1, <3>2
  <2>8. QED
    BY <2>2, <2>6, <2>7 DEF AcceptedOnce
<1>5. CASE RowsEnter
  <2>1. PICK released \in SUBSET (1 .. L) :
           /\ \E seen \in [released -> Observations] :
                 /\ history' = history \cup {seen[n] : n \in released}
                 /\ \A n \in released : seen[n].report = quarantine[n].report
           /\ \A n \in released : quarantine[n].resolution = "pending"
           /\ \A n \in 1 .. L : /\ quarantine'[n].report = quarantine[n].report
                                /\ quarantine'[n].resolution = "CONTINUED"
                                     <=> n \in released \/ quarantine[n].resolution = "CONTINUED"
    BY <1>5 DEF RowsEnter
  <2>2. PICK seen \in [released -> Observations] :
           /\ history' = history \cup {seen[n] : n \in released}
           /\ \A n \in released : seen[n].report = quarantine[n].report
    BY <2>1
  <2>3. records' = records /\ Len(quarantine') = L
    BY <1>5 DEF RowsEnter
  <2>4. \A n \in released : ~\E o \in history : o.report.record = quarantine[n].report.record
    BY <2>1 DEF AcceptedOnce, Numbered
  <2>5. \A m \in released, n \in 1 .. L :
           seen[m].report.record = quarantine[n].report.record => m = n
    BY <2>2 DEF Numbered
  <2>6. \A o \in history' : o \in history \/ \E n \in released : o = seen[n]
    BY <2>2
  <2>7. Numbered'
    <3>1. \A o \in history' : o.report.record <= records'
      BY <2>2, <2>3, <2>6 DEF Numbered
    <3>2. \A n \in 1 .. Len(quarantine') : quarantine'[n].report.record <= records'
      BY <2>1, <2>3 DEF Numbered
    <3>3. \A m, n \in 1 .. Len(quarantine') :
             quarantine'[m].report.record = quarantine'[n].report.record => m = n
      BY <2>1, <2>3 DEF Numbered
    <3>4. ASSUME NEW o \in history', NEW n \in 1 .. Len(quarantine'),
                 o.report.record = quarantine'[n].report.record
          PROVE  o.report = quarantine'[n].report
      BY <2>1, <2>2, <2>3, <2>5, <2>6, <3>4 DEF Numbered
    <3>5. QED
      BY <3>1, <3>2, <3>3, <3>4 DEF Numbered
  <2>8. ASSUME NEW o \in history', NEW p \in history', o.report.record = p.report.record
        PROVE  o = p
    <3>1. CASE o \in history /\ p \in history
      BY <2>8, <3>1 DEF AcceptedOnce
    <3>2. ASSUME NEW n \in released, p = seen[n] PROVE o = p
      <4>1. o \notin history
        BY <2>2, <2>4, <2>8, <3>2
      <4>2. PICK m \in released : o = seen[m]
        BY <2>6, <4>1
      <4>3. QED
        BY <2>2, <2>5, <2>8, <3>2, <4>2
    <3>3. ASSUME NEW n \in released, o = seen[n] PROVE o = p
      <4>1. p \notin history
        BY <2>2, <2>4, <2>8, <3>3
      <4>2. PICK m \in released : p = seen[m]
        BY <2>6, <4>1
      <4>3. QED
        BY <2>2, <2>5, <2>8, <3>3, <4>2
    <3>4. QED
      BY <2>6, <3>1, <3>2, <3>3
  <2>9. ASSUME NEW n \in 1 .. Len(quarantine')
        PROVE  (\E o \in history' : o.report = quarantine'[n].report)
                  <=> quarantine'[n].resolution = "CONTINUED"
    <3>1. (\E o \in history' : o.report = quarantine[n].report)
             <=> n \in released \/ \E o \in history : o.report = quarantine[n].report
      BY <2>2, <2>3, <2>5, <2>6
    <3>2. QED
      BY <2>1, <2>3, <3>1 DEF AcceptedOnce
  <2>10. QED
    BY <2>7, <2>8, <2>9 DEF AcceptedOnce
<1>6. QED
  BY <1>2, <1>3, <1>4, <1>5, Entering

LEMMA Once == Spec => [](TypeOK /\ Begun /\ Numbered /\ AcceptedOnce)
<1>1. Init => Numbered /\ AcceptedOnce
  BY DEF Init, Numbered, AcceptedOnce
<1>2. QED
  BY <1>1, Typed, OnceStep, PTL DEF Spec

\* Each report enters the history once, and is not in quarantine when it is there: whatever comes,
\* and however often an operator decides (state.apply, resolve_reuse).
THEOREM ReportsAcceptedOnce == Spec => []AcceptedOnce
BY Once, PTL

-----------------------------------------------------------------------------
\* Tombstones and epochs.

LEMMA TombstoneStep == TypeOK /\ Begun /\ TombstoneClosed /\ [Next]_vars => TombstoneClosed'
<1> SUFFICES ASSUME TypeOK, Begun, TombstoneClosed, [Next]_vars,
                    NEW j \in Incarnations, identity'[j].status = "TOMBSTONED"
             PROVE  current'[j].contribution # "ACTIVE"
  BY DEF TombstoneClosed
<1>1. identity \in [Incarnations -> Identity] /\ current \in [Incarnations -> State]
  BY Parts
<1>2. ASSUME identity'[j] = identity[j], current'[j] = current[j]
      PROVE  current'[j].contribution # "ACTIVE"
  BY <1>2 DEF TombstoneClosed
<1>3. ASSUME NEW k \in Incarnations, NEW at \in Times, NEW state \in States, Accept(k, at, state)
      PROVE  current'[j].contribution # "ACTIVE"
  <2> DEFINE report == Received(k, at, state)
             late   == identity[k].status = "TOMBSTONED"
  <2>1. current' = [current EXCEPT ![k] = StateAfter(current[k], report, late)]
    BY <1>3, Accepting
  <2>2. j # k \/ identity' = [identity EXCEPT ![k] = Admitted(at)] \/ identity' = identity
    BY <1>3 DEF Accept
  <2>3. CASE j # k
    <3>1. identity'[j] = identity[j] /\ current'[j] = current[j]
      BY <1>1, <1>3, <2>1, <2>3 DEF Accept
    <3>2. QED
      BY <1>2, <3>1
  <2>4. CASE j = k /\ identity' = identity
    <3>1. late = TRUE
      BY <2>4
    <3>2. FlagOf(current[k], report, TRUE) = "LATE"
      BY DEF FlagOf
    <3>3. StateAfter(current[k], report, late) = current[k]
      BY <3>1, <3>2 DEF StateAfter
    <3>4. current'[j] = current[j]
      BY <1>1, <2>1, <2>4, <3>3
    <3>5. QED
      BY <1>2, <2>4, <3>4
  <2>5. CASE j = k /\ identity' = [identity EXCEPT ![k] = Admitted(at)]
    BY <1>1, <2>5, NewTuple
  <2>6. QED
    BY <2>2, <2>3, <2>4, <2>5
<1>4. ASSUME NEW k \in Incarnations, NEW at \in Times, Drop(k, at)
      PROVE  current'[j].contribution # "ACTIVE"
  <2>1. current' = [current EXCEPT ![k].contribution = IF @ = "ACTIVE" THEN "CLOSED" ELSE @]
    BY <1>4 DEF Drop
  <2>2. CASE j = k
    BY <1>1, <2>1, <2>2 DEF State
  <2>3. CASE j # k
    <3>1. identity'[j] = identity[j] /\ current'[j] = current[j]
      BY <1>1, <1>4, <2>1, <2>3 DEF Drop
    <3>2. QED
      BY <1>2, <3>1
  <2>4. QED
    BY <2>2, <2>3
<1>5. ASSUME NEW old \in Incarnations, NEW new \in Incarnations, NEW at \in Times, Rekey(old, new, at)
      PROVE  current'[j].contribution # "ACTIVE"
  <2>1. current' = current
    BY <1>5 DEF Rekey
  <2>2. identity'[j] = identity[j] \/ identity'[j] = Admitted(at)
    BY <1>1, <1>5 DEF Rekey
  <2>3. QED
    BY <1>2, <2>1, <2>2, NewTuple
<1>6. CASE Keep \/ Advance
  <2>1. current' = current
    BY <1>6 DEF Keep, Advance
  <2>2. identity[j] \in Identity
    BY <1>1
  <2>3. identity[j].status = "TOMBSTONED"
    <3>1. CASE Keep
      <4>1. identity'[j] = identity[j] \/ identity'[j] = [identity[j] EXCEPT !.epoch = epoch]
        BY <3>1 DEF Keep
      <4>2. QED
        BY <2>2, <4>1 DEF Identity
    <3>2. CASE Advance
      <4>1. identity'[j] = identity[j] \/ identity'[j] = [identity[j] EXCEPT !.status = "RESET"]
        BY <3>2 DEF Advance
      <4>2. QED
        BY <2>2, <4>1 DEF Identity
    <3>3. QED
      BY <1>6, <3>1, <3>2
  <2>4. QED
    BY <2>1, <2>3 DEF TombstoneClosed
<1>7. ASSUME NEW k \in Incarnations, Continue(k) PROVE current'[j].contribution # "ACTIVE"
  <2>1. j # k /\ identity'[j] = identity[j]
    BY <1>7, LetIn
  <2>2. PICK released \in SUBSET PendingOf(k) : Continues(k, released)
    BY <1>7, Continuing
  <2>3. current'[j] = current[j]
    BY <1>1, <2>1, <2>2 DEF Continues
  <2>4. QED
    BY <1>2, <2>1, <2>3
<1>8. ASSUME NEW k \in Incarnations, NEW at \in Times, NEW state \in States, Quarantine(k, at, state)
      PROVE  current'[j].contribution # "ACTIVE"
  BY <1>2, <1>8 DEF Quarantine
<1>9. ASSUME NEW k \in Incarnations, NEW at \in Times, Contradiction(k, at)
      PROVE  current'[j].contribution # "ACTIVE"
  BY <1>2, <1>9 DEF Contradiction
<1>10. ASSUME NEW k \in Incarnations, Reject(k) PROVE current'[j].contribution # "ACTIVE"
  BY <1>2, <1>10 DEF Reject
<1>11. CASE ResetScope \/ UNCHANGED vars
  BY <1>2, <1>11 DEF ResetScope, vars
<1>12. QED
  BY <1>3, <1>4, <1>5, <1>6, <1>7, <1>8, <1>9, <1>10, <1>11 DEF Next, Record, Command

\* A dropped source has no open contribution: whatever comes for it late or out of order, and
\* whatever a rekey, a reset or an operator does to the others (_drop, state.apply).
THEOREM TombstonesStayClosed == Spec => []TombstoneClosed
<1>1. Init => TombstoneClosed
  BY DEF Init, TombstoneClosed, Unknown
<1>2. QED
  BY <1>1, Typed, TombstoneStep, PTL DEF Spec

LEMMA EpochStep == TypeOK /\ Begun /\ EpochClosed /\ [Next]_vars => EpochClosed'
<1> SUFFICES ASSUME TypeOK, Begun, EpochClosed, [Next]_vars, ~resync',
                    NEW j \in Incarnations, identity'[j].status = "LIVE",
                    identity'[j].epoch < epoch'
             PROVE  identity'[j].continued
  BY DEF EpochClosed, Live
<1>1. identity \in [Incarnations -> Identity] /\ epoch \in Nat /\ ~(epoch < epoch)
  BY Parts
<1>2. ASSUME identity'[j] = identity[j], UNCHANGED <<epoch, resync>> PROVE identity'[j].continued
  BY <1>2 DEF EpochClosed, Live
<1>3. ASSUME NEW at \in Times, identity'[j] = identity[j] \/ identity'[j] = Admitted(at),
             UNCHANGED <<epoch, resync>>
      PROVE  identity'[j].continued
  BY <1>1, <1>2, <1>3, NewTuple
<1>4. ASSUME NEW k \in Incarnations, NEW at \in Times, NEW state \in States, Accept(k, at, state)
      PROVE  identity'[j].continued
  <2>1. UNCHANGED <<epoch, resync>>
    BY <1>4 DEF Accept
  <2>2. identity'[j] = identity[j] \/ identity'[j] = Admitted(at)
    BY <1>1, <1>4 DEF Accept
  <2>3. QED
    BY <1>3, <2>1, <2>2
<1>5. ASSUME NEW k \in Incarnations, NEW at \in Times, Drop(k, at) PROVE identity'[j].continued
  <2>1. UNCHANGED <<epoch, resync>>
    BY <1>5 DEF Drop
  <2>2. CASE j = k
    <3>1. identity[k] \in Identity
      BY <1>1
    <3>2. \/ identity'[j] = [identity[k] EXCEPT !.status = "TOMBSTONED", !.tombstone = at]
          \/ identity'[j] = [Unknown EXCEPT !.status = "TOMBSTONED", !.epoch = epoch, !.tombstone = at]
      BY <1>1, <1>5, <2>2 DEF Drop
    <3>3. identity'[j].status = "TOMBSTONED"
      BY <3>1, <3>2 DEF Identity, Unknown
    <3>4. QED
      BY <3>3
  <2>3. CASE j # k
    <3>1. identity'[j] = identity[j]
      BY <1>1, <1>5, <2>3 DEF Drop
    <3>2. QED
      BY <1>2, <2>1, <3>1
  <2>4. QED
    BY <2>2, <2>3
<1>6. ASSUME NEW old \in Incarnations, NEW new \in Incarnations, NEW at \in Times, Rekey(old, new, at)
      PROVE  identity'[j].continued
  <2>1. UNCHANGED <<epoch, resync>>
    BY <1>6 DEF Rekey
  <2>2. identity'[j] = identity[j] \/ identity'[j] = Admitted(at)
    BY <1>1, <1>6 DEF Rekey
  <2>3. QED
    BY <1>3, <2>1, <2>2
<1>7. ASSUME Keep PROVE identity'[j].continued
  <2>1. epoch' = epoch /\ identity[j] \in Identity
    BY <1>1, <1>7 DEF Keep
  <2>2. identity'[j] = IF j \in Known /\ identity[j].epoch < epoch
                         THEN [identity[j] EXCEPT !.epoch = epoch] ELSE identity[j]
    BY <1>7 DEF Keep
  <2>3. j \in Known
    BY <2>1, <2>2 DEF Known, Identity
  <2>4. ~(identity'[j].epoch < epoch)
    BY <1>1, <2>1, <2>2, <2>3 DEF Identity
  <2>5. QED
    BY <2>1, <2>4
<1>8. ASSUME Advance PROVE identity'[j].continued
  <2>1. epoch' = epoch /\ identity[j] \in Identity
    BY <1>1, <1>8 DEF Advance
  <2>2. identity'[j] = IF OfClosedEpoch(j) THEN [identity[j] EXCEPT !.status = "RESET"]
                                           ELSE identity[j]
    BY <1>8 DEF Advance
  <2>3. ~OfClosedEpoch(j) /\ identity'[j] = identity[j]
    BY <2>1, <2>2 DEF Identity
  <2>4. QED
    BY <2>1, <2>3 DEF OfClosedEpoch, Live
<1>9. ASSUME NEW k \in Incarnations, Continue(k) PROVE identity'[j].continued
  <2>1. identity'[k].continued /\ \A i \in Incarnations \ {k} : identity'[i] = identity[i]
    BY <1>9, LetIn
  <2>2. UNCHANGED <<epoch, resync>>
    BY <1>9 DEF Continue
  <2>3. QED
    BY <1>2, <2>1, <2>2
<1>10. ASSUME NEW k \in Incarnations, NEW at \in Times, NEW state \in States, Quarantine(k, at, state)
       PROVE  identity'[j].continued
  BY <1>2, <1>10 DEF Quarantine
<1>11. ASSUME NEW k \in Incarnations, NEW at \in Times, Contradiction(k, at)
       PROVE  identity'[j].continued
  BY <1>2, <1>11 DEF Contradiction
<1>12. ASSUME NEW k \in Incarnations, Reject(k) PROVE identity'[j].continued
  BY <1>2, <1>12 DEF Reject
<1>13. CASE ResetScope
  BY <1>13 DEF ResetScope
<1>14. CASE UNCHANGED vars
  BY <1>2, <1>14 DEF vars
<1>15. QED
  BY <1>4, <1>5, <1>6, <1>7, <1>8, <1>9, <1>10, <1>11, <1>12, <1>13, <1>14 DEF Next, Record, Command

\* Once the operator has decided about a reset, the only live identities of an older epoch are
\* those an operator continued (SQL_IDENTITY_EPOCH_RESET, SQL_IDENTITY_EPOCH_KEEP).
THEOREM EpochsStayClosed == Spec => []EpochClosed
<1>1. Init => EpochClosed
  BY DEF Init, EpochClosed, Live, Unknown
<1>2. QED
  BY <1>1, Typed, EpochStep, PTL DEF Spec

-----------------------------------------------------------------------------
\* The current state goes forward.
Forward(old, new) == /\ new.at >= old.at
                     /\ new.at = old.at => new.state = old.state

LEMMA CurrentStep ==
    ASSUME TypeOK, Begun, [Next]_vars, NEW j \in Incarnations
    PROVE  Forward(current[j], current'[j])
<1>1. current \in [Incarnations -> State] /\ current[j].at \in Nat
  BY Parts, RowTime
<1>2. ASSUME current'[j] = current[j] PROVE Forward(current[j], current'[j])
  BY <1>1, <1>2 DEF Forward
<1>3. ASSUME NEW k \in Incarnations, NEW row \in State, current' = [current EXCEPT ![k] = row],
             Forward(current[k], row)
      PROVE  Forward(current[j], current'[j])
  <2>1. CASE j = k
    BY <1>1, <1>3, <2>1
  <2>2. CASE j # k
    BY <1>1, <1>2, <1>3, <2>2
  <2>3. QED
    BY <2>1, <2>2
<1>4. ASSUME NEW k \in Incarnations, NEW at \in Times, NEW state \in States, Accept(k, at, state)
      PROVE  Forward(current[j], current'[j])
  <2> DEFINE row == StateAfter(current[k], Received(k, at, state), identity[k].status = "TOMBSTONED")
  <2>1. /\ current' = [current EXCEPT ![k] = row] /\ row \in State /\ row.at >= current[k].at
        /\ row.at = current[k].at => row.state = current[k].state
    BY <1>4, Accepting
  <2> HIDE DEF row
  <2>2. Forward(current[k], row)
    BY <2>1 DEF Forward
  <2>3. QED
    BY <1>3, <2>1, <2>2
<1>5. ASSUME NEW k \in Incarnations, NEW at \in Times, Drop(k, at)
      PROVE  Forward(current[j], current'[j])
  <2>1. current' = [current EXCEPT ![k].contribution = IF @ = "ACTIVE" THEN "CLOSED" ELSE @]
    BY <1>5 DEF Drop
  <2>2. current'[j].at = current[j].at /\ current'[j].state = current[j].state
    BY <1>1, <2>1 DEF State
  <2>3. QED
    BY <1>1, <2>2 DEF Forward
<1>6. ASSUME NEW k \in Incarnations, Continue(k) PROVE Forward(current[j], current'[j])
  <2>1. PICK released \in SUBSET PendingOf(k) : Continues(k, released)
    BY <1>6, Continuing
  <2> DEFINE L == Len(quarantine)
             s == StateReleased(k, released)
  <2>2. /\ s[L] \in State /\ s[L].at >= current[k].at
        /\ s[L].at = current[k].at => s[L].state = current[k].state
    <3>1. L \in 0 .. L
      BY Parts
    <3>2. QED
      BY <2>1, <3>1, ReleasedForward
  <2>3. current' = [current EXCEPT ![k] = s[L]]
    BY <2>1 DEF Continues
  <2> HIDE DEF s
  <2>4. Forward(current[k], s[L])
    BY <2>2 DEF Forward
  <2>5. QED
    BY <1>3, <2>2, <2>3, <2>4
<1>7. ASSUME UNCHANGED current PROVE Forward(current[j], current'[j])
  BY <1>2, <1>7
<1>8. ASSUME NEW k \in Incarnations, NEW at \in Times, NEW state \in States, Quarantine(k, at, state)
      PROVE  Forward(current[j], current'[j])
  BY <1>7, <1>8 DEF Quarantine
<1>9. ASSUME NEW k \in Incarnations, NEW at \in Times,
             Contradiction(k, at) \/ \E old \in Incarnations : Rekey(old, k, at)
      PROVE  Forward(current[j], current'[j])
  BY <1>7, <1>9 DEF Contradiction, Rekey
<1>10. ASSUME NEW k \in Incarnations, Reject(k) PROVE Forward(current[j], current'[j])
  BY <1>7, <1>10 DEF Reject
<1>11. CASE ResetScope \/ Keep \/ Advance \/ UNCHANGED vars
  BY <1>7, <1>11 DEF ResetScope, Keep, Advance, vars
<1>12. QED
  BY <1>4, <1>5, <1>6, <1>8, <1>9, <1>10, <1>11 DEF Next, Record, Command

\* The current state of an identity never goes back in time, and of the reports of one time the
\* first stays, whatever the order in which they come, are dropped or are released at once.
THEOREM CurrentGoesForward == Spec => CurrentNeverBack
<1>1. TypeOK /\ Begun /\ [Next]_vars =>
         [\A k \in Incarnations :
             /\ current'[k].at >= current[k].at
             /\ current'[k].at = current[k].at => current'[k].state = current[k].state]_vars
  BY CurrentStep DEF Forward
<1>2. QED
  BY <1>1, Typed, PTL DEF Spec, CurrentNeverBack

-----------------------------------------------------------------------------
\* Rule (b) of the incarnations.

LEMMA WaitedStay == TypeOK /\ Begun /\ [Next]_vars => Waited \subseteq Waited'
<1> SUFFICES ASSUME TypeOK, Begun, [Next]_vars PROVE Waited \subseteq Waited'
  OBVIOUS
<1> DEFINE L == Len(quarantine)
<1>1. L \in Nat /\ quarantine \in Seq(HeldRow)
  BY Parts
<1>2. \A n \in 1 .. L : n \in 1 .. Len(quarantine') /\ quarantine'[n].report = quarantine[n].report
  <2>1. CASE RowEnters
    <3>1. PICK row \in HeldRow : quarantine' = Append(quarantine, row)
      BY <2>1 DEF RowEnters
    <3>2. Len(quarantine') = L + 1 /\ \A n \in 1 .. L : quarantine'[n] = quarantine[n]
      BY <1>1, <3>1
    <3>3. QED
      BY <1>1, <3>2
  <2>2. QED
    BY <2>1, Entering DEF NothingEnters, ReportEnters, RowsEnter, RowsStay
<1>3. QED
  BY <1>2 DEF Waited

LEMMA ScopeIsNumber ==
    ASSUME NEW row \in Identity
    PROVE  row.scope \in Nat
<1>1. row.scope \in Incarnations \/ row.scope = 0
  BY DEF Identity, Null
<1>2. CASE row.scope \in Incarnations
  BY <1>2, IdentityAssumption
<1>3. CASE row.scope = 0
  BY <1>3
<1>4. QED
  BY <1>1, <1>2, <1>3

\* Two observations that the property relates: p is of an incarnation above that of o, came before
\* it, and o is later than the beginning of that incarnation.
Outlived(o, p) ==
    /\ o.report.inc < p.report.inc /\ p.report.record < o.report.record /\ p.report \notin Waited
    /\ o.flag # "LATE"
    /\ identity[p.report.inc].first # Null /\ o.report.at > identity[p.report.inc].first

Exempt(o, p) == identity[o.report.inc].continued /\ identity[o.report.inc].scope >= p.report.inc

LEMMA OlderStep ==
    TypeOK /\ Begun /\ Numbered /\ OlderIncarnationEnds /\ [Next]_vars => OlderIncarnationEnds'
<1> SUFFICES ASSUME TypeOK, Begun, Numbered, OlderIncarnationEnds, [Next]_vars,
                    NEW o \in history', NEW p \in history', Outlived(o, p)'
             PROVE  Exempt(o, p)'
  BY DEF OlderIncarnationEnds, Outlived, Exempt
<1> DEFINE k == o.report.inc
           j == p.report.inc
<1>1. /\ \A q \in history : /\ q.report.record \in Nat /\ q.report.inc \in Incarnations
                            /\ q.report.at \in Nat
      /\ Incarnations \subseteq Nat /\ records \in Nat
      /\ identity \in [Incarnations -> Identity]
  <2>1. \A report \in Reports : /\ report.record \in Nat /\ report.inc \in Incarnations
                                /\ report.at \in Times
    BY IdentityAssumption DEF Reports
  <2>2. \A q \in history : q.report \in Reports
    BY Parts DEF Observations
  <2>3. Times \subseteq Nat /\ Incarnations \subseteq Nat
    BY IdentityAssumption
  <2>4. QED
    BY <2>1, <2>2, <2>3, Parts
<1>2. TuplesStay /\ Waited \subseteq Waited'
  BY TupleSteps, WaitedStay
<1>3. /\ k < j /\ p.report.record < o.report.record /\ p.report \notin Waited /\ o.flag # "LATE"
      /\ identity'[j].first # Null /\ o.report.at > identity'[j].first
  BY <1>2 DEF Outlived
\* The observation of the higher incarnation was there before the step.
<1>4. p \in history
  <2>1. SUFFICES ASSUME p \notin history PROVE FALSE
    OBVIOUS
  <2>2. ASSUME NEW i \in Incarnations, NEW at \in Times, NEW state \in States, Accept(i, at, state)
        PROVE  FALSE
    <3>1. PICK seen \in Observations : /\ history' = history \cup {seen}
                                       /\ seen.report.record = records + 1
      BY <2>2, Entered
    <3>2. p = seen /\ p.report.record = records + 1
      BY <2>1, <3>1
    <3>3. o.report.record <= records + 1 /\ o.report.record \in Nat
      <4>1. CASE o \in history
        BY <1>1, <4>1 DEF Numbered
      <4>2. CASE o = seen
        BY <1>1, <3>1, <4>2
      <4>3. QED
        BY <3>1, <4>1, <4>2
    <3>4. QED
      BY <1>1, <1>3, <3>2, <3>3
  <2>3. ASSUME NEW i \in Incarnations, Continue(i) PROVE FALSE
    <3>1. PICK released \in SUBSET PendingOf(i) : Continues(i, released)
      BY <2>3, Continuing
    <3>2. PICK seen \in [released -> Observations] :
             /\ \A n \in released : seen[n].report = quarantine[n].report
             /\ history' = history \cup {seen[n] : n \in released}
      BY <3>1, Released
    <3>3. PICK n \in released : p = seen[n]
      BY <2>1, <3>2
    <3>4. p.report = quarantine[n].report /\ n \in 1 .. Len(quarantine)
      BY <3>1, <3>2, <3>3, Released
    <3>5. QED
      BY <1>3, <3>4 DEF Waited
  <2>4. history' # history
    BY <2>1
  <2>5. QED
    BY <2>2, <2>3, <2>4
       DEF Next, Record, Command, vars, Quarantine, Drop, Contradiction, Rekey, ResetScope, Keep,
           Advance, Reject
<1>5. /\ j \in Known /\ j \in Incarnations /\ identity'[j].first = identity[j].first
      /\ identity[j].first # Null /\ o.report.at > identity[j].first
  <2>1. j \in Known /\ j \in Incarnations
    BY <1>1, <1>4 DEF Begun, Known
  <2>2. identity'[j].first = identity[j].first
    BY <1>2, <2>1 DEF TuplesStay
  <2>3. QED
    BY <1>3, <2>1, <2>2
<1>6. ASSUME k \in Known, identity[k].continued, identity[k].scope >= j PROVE Exempt(o, p)'
  <2>1. k \in Incarnations /\ identity[k].scope \in Nat
    <3>1. k \in Incarnations
      BY <1>6 DEF Known
    <3>2. QED
      BY <1>1, <3>1, ScopeIsNumber
  <2>2. j <= identity[k].scope
    BY <1>1, <1>5, <1>6, <2>1
  <2>3. identity'[k].continued /\ j <= identity'[k].scope
    BY <1>2, <1>5, <1>6, <2>2 DEF TuplesStay
  <2>4. QED
    BY <2>3 DEF Exempt
<1>7. CASE o \in history
  <2>1. Outlived(o, p)
    BY <1>3, <1>5 DEF Outlived
  <2>2. Exempt(o, p)
    BY <1>4, <1>7, <2>1 DEF OlderIncarnationEnds, Outlived, Exempt
  <2>3. k \in Known
    BY <1>1, <1>7 DEF Begun, Known
  <2>4. QED
    BY <1>6, <2>2, <2>3 DEF Exempt
<1>8. ASSUME NEW i \in Incarnations, NEW at \in Times, NEW state \in States, Accept(i, at, state),
             o \notin history
      PROVE  Exempt(o, p)'
  <2>1. PICK seen \in Observations :
           /\ history' = history \cup {seen} /\ seen.report.inc = i /\ seen.report.at = at
           /\ identity[i].status = "TOMBSTONED" => seen.flag = "LATE"
    BY <1>8, Entered
  <2>2. o = seen /\ k = i /\ o.report.at = at /\ identity[i].status # "TOMBSTONED"
    BY <1>3, <1>8, <2>1
  <2>3. ~Ambiguous(i, at)
    BY <1>8 DEF Accept
  <2>4. identity[i].status \in {"none", "LIVE", "TOMBSTONED", "RESET"}
    BY <1>1 DEF Identity
  <2>5. identity[i].status # "RESET"
    BY <2>3 DEF Ambiguous
  <2>6. identity[i].status # "none"
    <3>1. SUFFICES ASSUME identity[i].status = "none" PROVE FALSE
      OBVIOUS
    <3>2. ~NewerIncarnationFirst(i, at)
      BY <2>3, <3>1 DEF Ambiguous
    <3>3. j > i
      BY <1>1, <1>3, <1>5, <2>2
    <3>4. QED
      BY <1>5, <2>2, <3>2, <3>3 DEF NewerIncarnationFirst
  <2>7. ~NewerIncarnationFirst(Floor(i), at)
    BY <2>2, <2>3, <2>4, <2>5, <2>6 DEF Ambiguous
  <2>8. ~(j > Floor(i))
    BY <1>5, <2>2, <2>7 DEF NewerIncarnationFirst
  <2>9. Floor(i) # i
    BY <1>1, <1>3, <1>5, <2>2, <2>8
  <2>10. identity[i].continued /\ Floor(i) = identity[i].scope
    BY <2>9 DEF Floor
  <2>11. identity[i].scope >= j
    <3>1. identity[i].scope \in Nat /\ j \in Nat
      BY <1>1, <1>5, ScopeIsNumber
    <3>2. QED
      BY <2>8, <2>10, <3>1
  <2>12. k \in Known
    BY <2>2, <2>6 DEF Known
  <2>13. QED
    BY <1>6, <2>2, <2>10, <2>11, <2>12
<1>9. ASSUME NEW i \in Incarnations, Continue(i), o \notin history PROVE Exempt(o, p)'
  <2>1. PICK released \in SUBSET PendingOf(i) : Continues(i, released)
    BY <1>9, Continuing
  <2>2. k = i
    BY <1>9, <2>1, Released
  <2>3. identity'[i] \in Identity /\ identity'[i].continued /\ j <= identity'[i].scope
    BY <1>5, <1>9, LetIn
  <2>4. identity'[i].scope \in Nat /\ j \in Nat
    BY <1>1, <1>5, <2>3, ScopeIsNumber
  <2>5. identity'[i].scope >= j
    BY <2>3, <2>4
  <2>6. QED
    BY <2>2, <2>3, <2>5 DEF Exempt
<1>10. CASE history' = history
  BY <1>7, <1>10
<1>11. QED
  BY <1>7, <1>8, <1>9, <1>10
     DEF Next, Record, Command, vars, Quarantine, Drop, Contradiction, Rekey, ResetScope, Keep,
         Advance, Reject

\* An incarnation ends where a higher one began: no later report of it enters the history after one
\* of the higher, but as late history, or where an operator continued it knowing of the higher one
\* (rule (b), reuse_scope).
THEOREM OlderIncarnationsEnd == Spec => []OlderIncarnationEnds
<1>1. Init => OlderIncarnationEnds
  BY DEF Init, OlderIncarnationEnds
<1>2. QED
  BY <1>1, Once, OlderStep, PTL DEF Spec

-----------------------------------------------------------------------------
\* The sink.

\* What the sink is told carries the time of the commit.
LEMMA PublishedNow ==
    ASSUME TypeOK', now \in Nat
    PROVE  /\ Published \subseteq [inc: Incarnations, at: Nat, closes: BOOLEAN, born: Nat]
           /\ \A e \in Published : e.born = now
<1>1. /\ \A o \in history' : o.report \in Reports
      /\ \A k \in Incarnations : identity'[k] \in Identity
  <2>1. history' \subseteq Observations /\ identity' \in [Incarnations -> Identity]
    BY DEF TypeOK, Identity
  <2>2. QED
    BY <2>1 DEF Observations
<1>2. \A t \in Times : t \in Nat
  BY IdentityAssumption
<1>3. \A o \in history' : o.report.inc \in Incarnations /\ o.report.at \in Nat
  BY <1>1, <1>2 DEF Reports
<1>4. ASSUME NEW k \in Incarnations PROVE identity'[k].tombstone \in Nat
  <2>1. identity'[k].tombstone \in Times \/ identity'[k].tombstone = 0
    BY <1>1 DEF Identity, Null
  <2>2. CASE identity'[k].tombstone \in Times
    BY <1>2, <2>2
  <2>3. CASE identity'[k].tombstone = 0
    BY <2>3
  <2>4. QED
    BY <2>1, <2>2, <2>3
<1>5. \A k \in Incarnations, at \in Nat, closes \in BOOLEAN :
         /\ Event(k, at, closes) \in [inc: Incarnations, at: Nat, closes: BOOLEAN, born: Nat]
         /\ Event(k, at, closes).born = now
  BY DEF Event
<1>6. ASSUME NEW e \in Published
      PROVE  \E k \in Incarnations, at \in Nat, closes \in BOOLEAN : e = Event(k, at, closes)
  <2>1. CASE \E o \in history' : e = Event(o.report.inc, o.report.at, FALSE)
    BY <1>3, <2>1
  <2>2. CASE \E k \in Incarnations : e = Event(k, identity'[k].tombstone, TRUE)
    BY <1>4, <2>2
  <2>3. QED
    BY <2>1, <2>2 DEF Published
<1>7. QED
  BY <1>5, <1>6

LEMMA BehindStep ==
    ASSUME TypeOK', Behind, [SinkNext]_allVars
    PROVE  Behind' /\ \A k \in Incarnations : view'[k] >= view[k]
<1> DEFINE Events == [inc: Incarnations, at: Nat, closes: BOOLEAN, born: Nat]
<1>1. /\ outbox \subseteq Events /\ now \in Nat /\ view \in [Incarnations -> Nat]
      /\ \A k \in Incarnations : view[k] <= now
      /\ \A e \in outbox : e.born <= now /\ \A k \in Incarnations : view[k] <= e.born
  BY DEF Behind
<1>2. \A k \in Incarnations : view[k] >= view[k]
  BY <1>1
<1>3. CASE Ingest
  <2>1. /\ outbox' = outbox \cup Published /\ now' = now /\ view' = view
        /\ Published \subseteq Events /\ \A e \in Published : e.born = now
    BY <1>1, <1>3, PublishedNow DEF Ingest
  <2>2. \A e \in outbox' : e.born <= now /\ \A k \in Incarnations : view[k] <= e.born
    BY <1>1, <2>1
  <2>3. outbox' \subseteq Events
    BY <1>1, <2>1
  <2>4. QED
    BY <1>1, <1>2, <2>1, <2>2, <2>3 DEF Behind
<1>4. CASE Tick
  <2>1. now' = now + 1 /\ UNCHANGED <<outbox, view>>
    BY <1>4 DEF Tick
  <2>2. (\A k \in Incarnations : view[k] <= now + 1) /\ \A e \in outbox : e.born <= now + 1
    BY <1>1
  <2>3. QED
    BY <1>1, <1>2, <2>1, <2>2 DEF Behind
<1>5. CASE Dispatch
  <2>1. PICK e \in Oldest : /\ view' = [view EXCEPT ![e.inc] = e.born]
                            /\ outbox' \in {outbox, outbox \ {e}}
    BY <1>5 DEF Dispatch
  <2>2. /\ e \in outbox /\ e.inc \in Incarnations /\ e.born \in Nat /\ e.born <= now
        /\ \A f \in outbox : e.born <= f.born
        /\ \A k \in Incarnations : view[k] <= e.born
    BY <1>1, <2>1 DEF Oldest
  <2>3. now' = now /\ outbox' \subseteq outbox
    BY <1>5, <2>1 DEF Dispatch
  <2>4. /\ view' \in [Incarnations -> Nat] /\ view'[e.inc] = e.born
        /\ \A k \in Incarnations \ {e.inc} : view'[k] = view[k]
    BY <1>1, <2>1, <2>2
  <2>5. \A k \in Incarnations : view'[k] >= view[k] /\ view'[k] <= now
    BY <1>1, <2>2, <2>4
  <2>6. \A f \in outbox, k \in Incarnations : view'[k] <= f.born
    BY <1>1, <2>2, <2>4
  <2>7. QED
    BY <1>1, <2>3, <2>4, <2>5, <2>6 DEF Behind
<1>6. CASE UNCHANGED allVars
  BY <1>1, <1>2, <1>6 DEF allVars, sinkVars, Behind
<1>7. QED
  BY <1>3, <1>4, <1>5, <1>6 DEF SinkNext

LEMMA SinkTyped == SinkSpec => [](TypeOK /\ Begun /\ Behind)
<1>1. SinkInit => Init /\ Behind
  <2> SUFFICES ASSUME SinkInit PROVE Init /\ Behind
    OBVIOUS
  <2>1. outbox = {} /\ now = 0 /\ view = [k \in Incarnations |-> 0]
    BY DEF SinkInit
  <2>2. QED
    BY <2>1 DEF SinkInit, Behind
<1>2. [SinkNext]_allVars => [Next]_vars
  BY DEF SinkNext, Ingest, Tick, Dispatch, allVars
<1>3. SinkSpec => Spec
  BY <1>1, <1>2, PTL DEF SinkSpec, Spec
<1>4. SinkSpec => [](TypeOK /\ Begun)
  BY <1>3, Typed, PTL
<1>5. TypeOK' /\ Behind /\ [SinkNext]_allVars => Behind'
  BY BehindStep
<1>6. QED
  BY <1>1, <1>4, <1>5, PTL DEF SinkSpec

\* The sink's view of an identity follows the order of the commits: whatever is delivered twice,
\* published meanwhile, or waits for its mark (SQL_OUTBOX_PENDING, dispatch).
THEOREM SinkFollowsCommits == SinkSpec => ViewFollowsCommits
<1>1. TypeOK' /\ Behind /\ [SinkNext]_allVars => [\A k \in Incarnations : view'[k] >= view[k]]_allVars
  BY BehindStep
<1>2. QED
  BY <1>1, SinkTyped, PTL DEF SinkSpec, ViewFollowsCommits

=============================================================================
